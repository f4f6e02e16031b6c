# Smart Door Finger: a verification development

TLA+ models of the firmware under `src/firmware` (an ESP32-C6 door controller:
fingerprint sensor, Nuki lock over BLE, Zigbee, a BLE companion service), the
TLC runs that check them on small instances, and TLAPS proofs of what matters
most for every value of the constants.

## 1. The system

One single-core chip runs a set of FreeRTOS tasks. They share `sdf_services`'
state under one mutex, which every taker gives up on after 250 ms, and they talk
over two queues in a row: the event router's, then the queue of each subscriber.

| Task | Code | What it does |
|---|---|---|
| router task | `sdf_event_router.c` | takes events off one queue, calls each subscriber in turn; subscribers post to a queue of their own and never block |
| match task | `sdf_services_match.c` | scans fingers, counts failures, keeps the lockout, claims and executes gated admin actions |
| admin task | `sdf_services_admin.c`, `_button.c`, `_setup.c` | button gestures, the 10 s timeout of gated actions, the setup phase |
| enroll task | `sdf_services_enroll.c`, `sdf_state_machines.c` | the three capture steps of an enrolment, and its persistence |
| app task | `sdf_app.c` | everything the events lead to: unlock, Zigbee reports, companion replies |
| BLE host task | `sdf_ble_companion.c`, `sdf_nuki_ble_transport.c` | GATT callbacks of the companion, and the client side towards the lock |
| fingerprint owner | `drivers/fingerprint.c` | the only task that talks to the sensor, one request at a time |
| power, LED, OTA | `sdf_power.c`, `led.c`, `sdf_ota.c` | sleep, patterns, firmware update |

### Components: state, operations, neighbours

* **Biometric lockout.** State: the failure count and its window, the cooldown,
  the lockout deadline in uptime, a belief about the record in NVS, the record
  itself. One operation, the match cycle, with the lock dropped around the scan,
  each NVS access and each emission; plus the restore at boot. Correct when a
  lockout is enforced, survives a reset, and is reported entered and cleared in
  pairs.
* **Admin-fingerprint gate.** State: at most one pending action with its target,
  the permission change under way and its semaphore, a slot for the result of a
  denied or expired action. Operations: seven kinds of request that arm it, the
  scan that claims it, the sweep that expires it, the execution. Correct when an
  action executes only by the scan of an admin given for it, at most one runs,
  each ends with one true answer, and the last admin stays. Deletions sent over Zigbee
  or typed at the command line pass no gate and run beside it.
* **Application task.** State: the hand-off slot for a companion request, two
  notes of who is waiting for an answer, the alarm mask, lock and pairing state.
  Fed by the router's trampoline through its own queue of ten.
* **BLE companion.** State: per-connection sessions and request-in-flight flags,
  advertising, bonds with the allow list, a pairing window, an OTA transfer. Correct
  when it is open to strangers only while it should be, trust is the same in RAM and
  in the records, and every request is answered on its connection.
* **Event router.** One queue; CRITICAL events are sent to its front. Correct
  when priorities do not break pairs of events, and a full queue is survived.
* **Enrolment.** The step state machine with its retries and the task that
  drives it, woken by events that may be stale. Correct when the user record, its
  NVS copy and the sensor end up agreeing.
* **Enrolled-user record.** A cached bitmap and permissions, the NVS blob, the
  sensor's own table. A boot takes the cache from NVS and compares neither with the
  sensor. Correct when the three say the same once a change is over.
* **Setup phase, button gestures.** An armed phase with its deadline and one
  connection, on the admin task; a completion on the BLE host task; a wipe whose
  Bluetooth half runs on the router task. No lock covers what they share. Correct when
  a device is claimed as a whole or not at all, and a lapsed phase leaves nothing.
* **Web registration, sessions.** State: what each connection has proved and whom it
  speaks for, the one registration under way, the names and accounts in NVS. A
  registration crosses three tasks: the host task notes it and arms the gate, a scan or
  the sweep decides it, the app task saves the account and answers the connection it
  finds waiting. Correct when a session speaks for nobody who did not let it in, and what
  is answered is on record.
* **Storage.** NVS keys, each written and committed on its own.
* **Lock flow, Nuki pairing and transport.** A command in flight to the lock, the
  challenge exchange, a timeout, a pairing of several messages.
* **Firmware update.** One transfer session that BLE and Zigbee share, an idle timer,
  the image selected for the next boot. Correct when what is booted is one whole image
  and an abandoned upload does not keep the session.
* **Zigbee, device state.** An attribute cache with retried reports; change
  generations the companion polls.
* **Power.** A sleep policy with vetoes, a wake guard and a check-in. No code calls
  `sdf_power_init()`, so as built the policy is never initialised, always answers
  "stay awake", and none of its steps ever runs.
* **Command line.** Parses commands and calls the other components' operations; of those
  on users only a permission change asks for an admin's finger. `user add` is more than a
  call: it asks for the enrolment and then drives the sensor's three steps itself
  (sdf_cli_commands.c:337-362), beside the enroll task that runs the same enrolment.
* **Drivers, configuration, platform, crypto.** Input and output, bounds checks, byte
  strings.

### What is hard here

Several tasks of one priority interleave at every blocking call; the lock is
given up between the decision and the act (a scan takes seconds, a sensor
deletion up to twelve, a permission change waits fifteen); taking the lock may
fail, and each failure path skips something different; a queue that is full drops
an event whose sender does not look; CRITICAL events overtake; a reset may fall
between RAM, NVS and the sensor. `PROJECT.json` lists each such place at its line
under `hazards`, with the properties that would catch it.

## 2. Plan

The twelve runs together take about half an hour with their mutants. Every safety property
a run checks is proved (section 7); what comes next are modules for the components section
8 lists, and their proofs.

1. `SdfLockout`, `SdfLockoutProofs`: done. It comes first because the lockout is
   the one defence that must hold across resets.
2. `SdfAdminGate`, `MCAdminGate`, `SdfAdminGateProofs`: done for the actions the
   companion asks for and the pairing window.
3. `SdfEnrolledUsers`, `MCEnrolledUsers`, `SdfUserStore`, `SdfEnrolledUsersProofs`,
   `SdfUserCopiesProofs`: done.
4. `SdfNukiTransport`, `SdfNukiLink`, `SdfNukiLinkProofs`: done.
5. `SdfOta`, `SdfOtaProofs`: done.
6. `SdfSetup`, `SdfSetupProofs`: done.
7. `SdfSession`, `SdfSessionProofs`: done.

What is left would be modelled next: the Zigbee attribute cache with its retried
reports, the change generations the companion polls, and the owner task of the
fingerprint driver.

## 3. The modules

### SdfLockout

One match cycle is a chain of `stage`s, because the code gives up the services lock around
each blocking call. `StartCycle` is the first lock section of
`sdf_match_task_run_match_cycle`; `Announce` the announcement of a lockout restored at
boot and the lock section that consumes its flag; `RetireRecord` and `EmitCleared` what
follows an expiry; `Scan` the 1:N search; `AccountFailure`, `AccountMatch`, `AccountError`
and `AccountLockTimeout` the second lock section's outcomes; `EmitMatchFailed`,
`SaveRecord` and `EmitLockout` what follows a failure; `ReportMatch` what follows a match.
Before each emission the code asks `sdf_services_is_ready`, which takes the lock for 250
ms: `NotReady` is its miss, after which nothing is emitted and, in `EmitMatchFailed`,
nothing is saved either (match.c:304 returns before 324). `missed` and `unsaved` remember
it for the properties. `RouterDispatch` and `AppHandle` carry events to the alarm bit.
`Reset` loses everything but the NVS record and runs
`sdf_services_restore_lockout_locked`. `Tick` passes time; any number of ticks fits
between two stages.

Left out: the payloads of events and the user a match names; the LED; whether
sensor triggers or the polling timer start a cycle (any idle task may start one).
The claim of an admin action by a match is `SdfAdminGate`'s.

### SdfAdminGate

The state is that of `sdf_services_state_t` the gate uses, and of the app task's
bookkeeping, which no lock protects. An action is one section under the services lock, one
blocking call, or one access to the unlocked bookkeeping. `Host...` run on the BLE host
task, `App...` on the app task, `Claim...`, `Deny...` and `Match...` on the match task,
`ButtonDispatch` and `Sweep...` on the admin task, `Enrol...` on the enroll task,
`Zigbee...` on the Zigbee task, whose deletions ask no gate: `ZigbeeDelete` is the guard
of `sdf_services_delete_user` on its snapshot, `ZigbeeErase` its end after the round trip
to the sensor. `Erasable` bounds whom they delete. Where a take of the lock may fail, the
failure is a disjunct of the action (`mishaps` remembers it). A match cycle scans only
while no enrolment is requested or active (`Scans`), and the sensor stores no template
under an id that has one.

`req` is what the companion client sees: what each connection asked for and the
replies it got. A connection asks once in the model (in the code, once at a time),
so `Requests` bounds both connections and requests.

Left out: the wipe of all users, which is exempt from the guard of the last admin by
intent, and enrolments asked for over Zigbee (both are in `SdfEnrolledUsers`); names
(`"name_taken"` may happen to any rename); web registration, whose other half is
`SdfSession`'s, Nuki re-pairing, Zigbee join and factory reset, which pass through the
same gate and are armed by the admin task as `BLE_PAIRING_WINDOW` is; the three capture
steps of an enrolment, which ends by `EnrolEnd`.

### MCAdminGate, MCEnrolledUsers

Give TLC the symmetry of users and requests.

### SdfEnrolledUsers, SdfUserStore

A user exists three times: as a template on the `sensor`, in the `cache` (a bitmap
and packed permissions) and in `nvs` (the same as two keys). A sensor operation is
a step outside the services lock; a change of the cache and its save are one
section under it. So every change of users is at least two steps, and three tasks
make them: the match task executes what a scan authorized (`Match...`), the Zigbee
task obeys programming commands, which no gate guards (`Zigbee...`), and the enroll
task runs the enrolment state machine (`Enrol...`). `editor` says where the first
two are with a change (and the app task with a setup's first request), `enroller`
where the enroll task is. `Ask`, `EmitStart` and the `Delete...` actions are code
several tasks call.

The enroll task acts on what its queue `inbox` brings it: starts that come
through the event router (`routed`), and step events its timer and the match task
put there directly, past the router's queue. `EnrolSnapshot`,
`EnrolScan`, `EnrolApply` and one of `EnrolCommit`, `EnrolRollback`, `EnrolFail` are
the sections of `sdf_services_run_enrollment_step`. `Reset` falls anywhere, also
between the two keys of a save (`Torn`); a failing write may leave the first key,
both, or none. The boot that follows may be unable to read the record (fault `"read"`):
then nobody is in force, the record stays, and the next save overwrites it.

`mishaps` records what went wrong, for the properties: injected faults (a failing
write, a lost reply, a missed lock, a reset) and what follows from the code alone (an
event lost at a full queue, two changes of one user that overlapped).

`SdfUserStore` is what all this promises: users in force and users on record, one
whole change at a time, and a boot that brings the record into force or cannot read it
(`Unreadable`). `SdfEnrolledUsers` implements it (`StoreRefined`) as long
as no two changes of one user overlap.

Left out: names and web accounts, which change with a user; the wipe of a setup
that timed out and the factory reset; the sensor's power hold (`SdfAdminGate` has
it); LED and events for observers.

### SdfNukiTransport, SdfNukiLink

`SdfNukiTransport` is the client side of the BLE connection to the lock: `Scan`
and `Disc` are `sdf_nuki_ble_start_scan` up to and from `ble_gap_disc`, which
blocks, with what comes before it, the check of the state and the cancellation of a
running scan, as one step; `Sync`, `Advertise` (whose `ble_gap_disc_cancel` and
`ble_gap_connect` are one step, too), `ConnectFails`, `Connected`, `Discovering`,
`BecomeReady` and `Disconnect` are callbacks; `TimerFires` is the reconnect timer;
`Start` and `Stop` are what its users call. `BecomeReady` and `Stop` are taken only
as part of a handler of the application.

`SdfNukiLink` extends it with the lock flow, the pairing and the functions of
`sdf_app.c` that join them. NimBLE's host task preempts the application's tasks, so
that a callback with everything it calls (`BecomesReady`, `Challenge`, `Trouble`,
`Complete`, `KeyturnerStates`, `PairingMessage`) is one step. A command of the app
task or the Zigbee task, and a pairing started by the match task, run in the steps
of `pc`: `Begin` and `Send` are the two halves of `sdf_lock_flow_begin`, `Queue`
and `Fill` the two assignments of `sdf_app_queue_lock_action`, `Resume` and
`Return` the rest. No lock protects the state, so a callback may fall between any
two. The lock is not restricted: any message it could send may come whenever the
connection is up.

Left out of the transport: `enabled`, always true as nothing initialises the power
manager; `s_pending_connect`, which nothing sets; a reset of the NimBLE host, which
is only logged. The two timeouts of a connection attempt are both `ConnectFails`.
Left out of the link: the contents, encryption and fragments of frames, and
pairings by the command line.

### SdfOta

`s` is `s_session` of `sdf_ota.c` and `holder` the mutex that guards it; `ble`, `timer`
and `host` are the companion's side (`sdf_ble_companion_ota.c`), `zigbee` and `zpc` the
coordinator's, `tpc` the idle timer's callback. `Claims`, `Appends`, `Abort`, `Verified`,
`Validated` and the rest of the first half are the functions of `sdf_ota.c`, which both
sides call; `Begin` to `Finish` and `Expire` are the upload, `Start` to `ValidateZigbee`
the download. An empty chunk, which the companion sorts out before, is refused by
`sdf_ota_write` and leaves the download's session (`NothingToAppend`). A step ends where
the mutex is given up, and the two long flash operations, which keep it, are steps of
their own. `mishaps` notes a time-out of a lock (`"lock"`), a session taken over by a
request that finds it abandoned or by the abort of another one's handle (`"robbed"`, since
every session has the same handle), a download started over (`"restarted"`) and an upload
whose timer fired while the host task was at work on it (`"overtaken"`).

Left out: the contents of an image (a count of chunks and a set of senders stand for
it), versions, the signature, the command line's transport, and the rollback, which
ESP-IDF's bootloader performs.

### SdfSetup

In NVS: the `latch`, the `admitted`, the `bonds`, and the wizard steps that are `done`.
In RAM: whether the phase is `armed` and which connection it watches (`conn`), the
`allow` list and the pairing `window` with its timer, the `slots` of connections, the
`events` on their way to the router task, and where each task is. In the controller: the
links, what is advertised (`adv`) and the Filter Accept List (`wl`).

`Connect`, `Disconnect` and `Encrypt` are the cases of `sdf_ble_companion_gap_event`;
`Evict` begins what a last failed login leads to, `EvictBond` and `EvictAdmission` end it.
`FinishSetup`, `FinishAdmit`, `FinishLatch`, `FinishList`, `FinishRollback` and
`FinishDisarm` are `sdf_app_on_setup_complete`; `Press`, `Rearm`, `IdleDrop`, `Expire` and
the `Wipe...` actions the admin task; `OnTimeout`, `OnTimeoutSilence`, `OnIdleDrop` and
`OnReclaim` the router's half. `OnTimeout`'s `ble_store_clear` may fail and leave the
bonds. `sdf_ble_companion_restart_advertising` is two steps, `Restarting` as a part of
whoever calls it, and `StartAdvertising`, since four tasks call it and each chooses the
mode before it starts it. `Boot` is what a restart makes of NVS.

`mishaps` notes what the properties excuse, each a place of section 6: a completion that
met a wipe (`"raced"`), a step or connection that came after its part of the wipe
(`"landed"`), the end of a refused connection taken for the first client's (`"second"`),
a window that closed without a restart of advertising (`"unswitched"`), a mode started
when it no longer applied (`"late"`), a reset in an eviction (`"torn"`), a window whose
timer was stopped by the admission that closed the one before (`"untimed"`), and the
faults: an event lost at a full queue, a missed lock, a failed write. There is one
fault in a behaviour.

Left out: time, so a deadline may pass at any moment, and that it is not extended by a
reconnection is not checked; the capacity of the tables, which hold every peer; the
count of failed logins, any of which may be the last; `s_lock` missed by a
disconnection, by the push of the allow list or by a restart of advertising; the users
and credentials of a claimed device as they change later; the templates on the sensor,
the reuse of connection handles, and a rollback of the latch that fails itself.

### SdfSession

`session` is `s_connections` (`auth`, `waiting`, `name`, `user` are the fields of a
connection's session), `reg` the registration noted in `sdf_services`' state, `gate` who
uses the one gate, `account` the names and accounts in NVS. `Register`, `Ask` and `Arm`
are a REGISTER on the host task: the session under the companion's lock, the note under
the services lock, and the request of the gate. `Scan` and `Expire` decide it on the
match task and the admin task. `Take`, `Decide`, `Save`, `Find`, `SetAuthenticated`,
`BindUser` and `Clear` are the app task: `sdf_app_on_web_reg_auth_result` (or
`sdf_app_on_admin_action_complete` when it was denied) with what
`sdf_services_web_auth_decide_registration` says, the record, and `reply_auth`, which
finds the connection by its name, gives up the lock and acts by its handle. `LoginInit`,
`LoginVerify`, `Logout`, `Connect` and `Disconnect` are the rest of the Authentication
characteristic and of the connections. The host task preempts the app task, so its
actions fall between any two of the app task's. Renames (`Begins`, `RenameSaves`), of
the match task through the gate and of the command line without it (`Rename`), and
deletions (`Delete`, `EraseRecords`) write the same records in two steps of their own,
without a common lock.

`claim` is history: what each connection asked for (`key`), whether the registration
noted is its own (`mine`), and who let it in since it was opened (`proof`). `mishaps`
notes the faults, of which a behaviour has one (`"lock"`, `"write"`, `"lost"`), and the
situations that section 6 lists (`"busy"`, `"late"`, `"overlap"`, `"orphan"`, `"gone"`).
After one of the latter only what is under way goes on.

Left out: nonces, salts and PBKDF2 (a response answers a challenge when it is made with
the password on record); the count of failed logins and its eviction (`SdfSetup` has
it); the command line's deletion of a name; a lock missed by a connection's callbacks;
promotions of users; the registration during setup, which needs no scan.

## 4. The runs

| Run | Shows | Bounds, and why they are enough |
|---|---|---|
| `lockout` | match cycles with resets, failing writes and missed locks, their events, under fairness | threshold 3, window 3, lockout 3, cooldown 1 ticks, 6 ticks of uptime: with a threshold of three a failure of one window and two of the next fit in one window's time, which is one more than a sliding window would let through; a window fills and locks, and the lockout expires; 2 boots: a record is written in the first, restored and announced in the second; queues of two, so that a CRITICAL event can overtake and a third event is lost |
| `gate` | the gate's safety | two requests, all five kinds a companion asks for, two users, one of them able to be the only admin, and either of them deleted over Zigbee at any time; a queue of one, so that it is often full. Every exclusion is between two actors, and every confusion of requesters between two requests |
| `gate_progress` | the gate's liveness | permission changes only, which alone wait on two sides, and one user whom Zigbee may delete meanwhile; a queue of one |
| `users` | the user record in its three copies | two users and two permissions, so that one can be the only admin; every consistent initial state; three changes, by any of the tasks: the hazards are steps of one change inside another, and a third can meet what two left behind; one retry; two kinds of fault together, an unreadable record among them, at most one reset. The system rests when the changes are over, hence no deadlock check |
| `users_ends` | the progress of enrolments, under fairness | as `users` with two changes, an enrolment and what may end or replace it; queues of one, so that they are often full |
| `nuki` | the link's safety and progress | two commands or pairings by any of three tasks, since each wedge is one command meeting what another left; two connections, so that a flow may outlive its own; one reconnection and one retry, each of which can be exhausted; every kind of injected fault, one kind in a behaviour; connect on demand, as `sdkconfig.defaults` has it, which alone releases connections. The system rests when the commands are over, hence no deadlock check |
| `ota` | uploads and downloads over one session, under fairness | two connections, two uploads and two downloads, so that each side can meet the other's session and its own last one; a partition of two chunks and images of one or two, so that one is cut short and one ends early; both locks may be missed. The system rests when the transfers are over, hence no deadlock check |
| `setup` | the setup phase, the pairing window and evictions, under fairness | two peers, the claiming one and another; three turns, each a connection, a press, a window, an eviction, a reset, a factory reset or a fault: enough for a claim, a wipe or an admission with something else in the middle of it; initially unclaimed or claimed; a queue of one, so that it is often full. The device may rest, hence no deadlock check |
| `session` | sessions, logins and one registration, under fairness | two connections, so that an answer can meet the other one; two users and two names, so that a name can be free, taken or one's own; three turns, each a request, a disconnection, a change of users, a use of the gate or a reset: a registration and two things in the middle of it; one fault in a behaviour. Two tasks rename. Initially every user is an admin, and no name is given. One password is enough: nothing compares two users' passwords. The device may rest, hence no deadlock check |
| `gate_last_admin`, `nuki_connect`, `setup_claim` | what the code does against what it says (section 6) | one or two requests of the kinds concerned, and for `gate_last_admin` no deletion over Zigbee; for `nuki_connect` and `setup_claim` no injected fault at all |

Each module has one type invariant, `TypeOK` (`TransportTypeOK`), whose conjuncts say
what every variable holds. They are proved (section 7) and not run.

### Properties of the lockout

* `MatchOnlyWhenOpen`: between the gate and the report no lockout is in force,
  though the lock is given up for the scan.
* `LockoutDurable`: a lockout in force is on record unless its write is pending, failed or
  was skipped (section 6). That the belief about the record is exactly whether a lockout
  is armed (`BeliefTracksDeadline`) is proved and not run.
* `LockoutSurvivesReset`: after a reset no less of a recorded lockout is left.
* `FailureBudget`: how many failures fit in any window. The window restarts at
  its first failure instead of sliding, so it is `2 * FailThreshold - 3`, not
  `FailThreshold - 1`.
* `ClearsArePaired`, `AlarmDoesNotLatch`: no clear is handled before its entry, and the
  alarm ends, unless a full queue lost an event or an emission was skipped because the
  services were not ready: of the first property an entry, of the second the clear. One
  more exception was found by the model: if a restored lockout is announced after its
  clear, because the announcement was skipped (match.c:171) or could not have the lock to
  consume its flag (match.c:180), the alarm stays on with no lockout.

### Properties of the gate

* `TargetIsArmed`: while an action that has a target is pending, the target is
  that of the request that armed it.
* `HoldEnds`: the sensor's power hold outlives the enrolment it is for only after
  one of the mishaps named there.
* `PermissionReplyTrue`: a requester told "ok" got the permission it asked for, unless
  Zigbee has deleted the user before the answer (`"erased"`).
* `AdminRemains`: an admin remains through every deletion, authorized or over Zigbee, and
  every demotion, unless an admin goes while another's end is decided and not yet made
  (`"overlap"`). So the guards are right one at a time, and what they miss is only the
  time between the guard and the act.
* `GateResolved`: once a gated action is over, nobody is noted as waiting for its answer,
  whichever of two tasks it falls to. A rename that is denied or times out is the
  exception in the code; a lost event, a missed lock and a note made after the scan had
  looked for it are the others.
* `GateFrees`, `PermissionAnswered`: the gate frees itself, and a permission change
  is answered, unless the app's queue lost it.

### Properties of the enrolled users

* `AppliesToItsOwn`: a capture's result meets the step and user it was made for,
  though the lock is given up for seconds.
* `StoreRefined`: a change of a user comes into force as it is recorded, or not at
  all, and only a boot that could not read the record has other users in force than are on
  it. That the cache is the record unless a write failed or a boot could not read it
  (`CacheIsSaved`) is proved and not run.
* `SensorAgrees`: without faults and overlaps the sensor holds exactly the users on
  record, with their permissions, whenever nobody is changing them.
* `StaleButSafe`: failing writes leave users without a template, never a template
  without a user: the match task unlocks on what the sensor says and does not
  consult the cache.
* `EnrolmentDriven`: while an enrolment is requested or active, somebody has its
  next step to take. `EnrolmentEnds`: so it ends. Exceptions, each a mishap: the
  start lost at a full queue, a lock missed after a capture. After each the request
  or the state machine stays for good, which keeps every later request busy until a
  reset.

### Properties of the Nuki link

* `ActionOnItsConnection`: a lock action is sent only on the connection its flow
  was begun on.
* `FrameBudget`: a flow sends its action at most once and once more per retry,
  whatever the lock sends, unless two tasks began a flow at once.
* `NothingUnasked`: retries, reconnections and dispatches begin no action more often
  than it was asked for.
* `LinkDriven`: a connection that is wanted has somebody who will try again, unless
  a scan was refused or two were started at once.
* `CommandsServed`, `LatchServed`: a begun flow, a queued command and a latch
  sequence, each of which refuses every later command of its kind, have something
  that ends them. Their exceptions are the wedges of section 6, and scans begun at once:
  the proof of section 7 shows that a third scan beside two others leaves a connection
  attempt that outlives a release, and a command begun on what it yields is not served.
  Run `nuki` has too few commands for that.

### Properties of the firmware update

* `HandleOwned`: the handle ESP-IDF has open is the session's, so it is given back once
  on every path.
* `OneSender`, `BootsWhole`: short of a mishap the chunks of a session are one
  transfer's, and what is selected for the next boot is one whole image.
* `UploadLives`, `UploadEnds`: an upload the companion believes open is the session, and
  an upload whose client falls silent ends.

### Properties of the setup phase

* `ClaimWhole`: a device at rest with its latch set is out of the phase and has all its
  wizard steps, whichever step of the completion failed or was cut short.
* `RebootKeepsTrust`: the allow list in RAM is what the next boot would seed, and no
  admission is without its bond.
* `AdvertisesAsMeant`: a device at rest advertises in the mode that applies, and the
  controller's list lets in exactly the allow-listed. One exception was found by the proof
  and not by the run: a lapsed phase that is completed (`"landed"`) and whose completion is
  then taken back (`"lock"`) may be left on the air in the mode of a claimed device, if
  advertising was restarted in between. It takes five turns, and the run has three.
* `IdleCovered`: the idle timer watches the client that holds the one connection.
* `LapsedClean`: a phase that ran out has left no record, bond, result or connection,
  and is off the air.
* `OpennessEnds`: the device is not open to strangers for ever, whatever erasure of
  the wipe fails.

### Properties of the sessions

* `AuthorityEarned`: an open session speaks for a user who let this very connection in
  since it was opened or last logged out, by their password or by their scan for what it
  asked. `set_authenticated` and `bind_user` write the two halves of that apart, after
  the connection was chosen.
* `AnswerTrue`: a session is opened on a name and a password that are on record.
* `AccountsSound`: no two users have one name, though three writers check before they
  write and none keeps a lock; and nobody who is not enrolled has a record.
* `RegistrationResolves`: a registration is over some time, and with it the wait of the
  connection that asked.

## 5. Fairness

`SdfLockout`'s `FairSpec`: weak fairness of the match task's step, of the router
and app tasks and of time. FreeRTOS runs ready tasks of one priority in turn, so a
task whose step stays possible takes it. That the match task starts a cycle at all
assumes a trigger (a finger, or the polling timer) and one enrolled user: without
either the code runs no cycle, and an expired lockout stays armed until one runs.
Resets are not fair.

`SdfAdminGate`'s `FairSpec`: weak fairness of each task's step and of the sweep's
timeout, which the admin task's periodic wake-up performs. Nobody is assumed to
scan a finger or to make a request.

`SdfEnrolledUsers`' `FairSpec`: weak fairness of the enroll task, of the router's
dispatch, of the retry timer, and of the last step of a request whose first one
succeeded. A capture nobody puts a finger to fails by the sensor's own timeout, so
no scan is assumed; retries are bounded by the policy.

`SdfNukiTransport`'s `TransportFair` and `SdfNukiLink`'s `FairSpec`: weak fairness
of each caller's scan, of the reconnect timer, of NimBLE's synchronisation and
GATT procedures, of each task's next step once it has a command, and of the lock's
advertisement, which a lock in range repeats for ever. That a connection attempt
succeeds or fails is not assumed.

`SdfOta`'s `FairSpec`: weak fairness of what each task has begun, of the idle timer and
of the restart that follows a commit. No client has to send, and resets are not fair.

`SdfSetup`'s `FairSpec`: weak fairness of each task's next step, of the sweep that finds a
timer run out (the admin task wakes every second, and a timer that runs does run out),
of the window's timer, of a restart of advertising that was begun, and of the end of a
connection that was terminated. Nobody has to connect, to press or to finish.

`SdfSession`'s `FairSpec`: weak fairness of the host task's two steps after a request, of
the app task's steps, and of the sweep, which ends a registration nobody authorizes after
10 s. No client, no scan and no change of users is assumed.

## 6. What the code does otherwise than it says

Three runs end in a violation, each of a statement of the repository:

* `gate_last_admin`: the guard of a demotion is decided before its scan, up to
  fifteen seconds before the change, and not again. With a deletion under way it
  removes the last admin.
* `nuki_connect`: a connection attempt that fails leaves the transport CONNECTING.
  The reconnect timer it arms starts a scan, and a scan is started only from IDLE or
  SCANNING (sdf_nuki_ble_transport.c:485), so nothing is retried.
* `setup_claim`: the deadline runs out on the admin task after
  `sdf_app_on_setup_complete` has checked the wizard steps on the host task. The wipe
  looks neither at the latch nor at a completion (sdf_services_setup.c:216): the device
  rests claimed, with no account, no user and no admission, the state its specification
  says must not be reached (device-setup-phase, "as a whole or not at all").

Seen while modelling and kept without a run:

* A denied or timed-out rename is never answered: the predicate that resolves such
  actions does not list it (web_auth.c:187), though sdf_app.c:1611-1612 promises an
  answer to whoever waits. `GateResolved` excepts it.
* The app notes who is to be answered only after it has armed the action; a scan in
  between finds no note, or the one before it (`"lateNote"`).
* The claim of an action and the reading of its target are two sections under the lock
  (sdf_services.c:545), though sdf_services_internal.h:67-69 says they are read when the
  scan claims the action: a request armed between them gives its target to the scan of the
  other.
* A wipe of all users by Zigbee excludes no enrolment. If the third capture stores its
  template between the wipe of the sensor and that of the record (sdf_services.c:1359),
  the template stays, with nobody on record to delete; the comment at
  sdf_services_enroll.c:277-280 promises that sensor and record never disagree.
* A completion that misses the services lock leaves the permission change pending and
  every later request busy (sdf_services.c:298).
* A connection lost in the middle of a Nuki pairing leaves it active
  (sdf_app.c:2293), and every command is refused until a reboot.
* A reset, a lost reply or a missed lock after the third capture also leave a
  template without a user, and nothing compares the two at boot.
* A reset between the two keys of a save brings the new users into force with old
  permissions (sdf_storage.c:588).
* services.c:602-603 says the state machine's start checks again that the id is
  free; it does not (state_machines.c:131-154).
* A deletion that cannot be saved sets the user's bit again even if another task
  removed the user meanwhile (sdf_services.c:1340).
* A remote enrolment may be authorized for an id whose enrolment is just being
  recorded. If the template goes away again and the second record cannot be saved,
  taking it back removes the user the first one had recorded
  (sdf_services_enroll.c:289).
* doc/power_management_concept.md:142 says sleep is vetoed by
  `sdf_app_power_busy()`; nothing reads that callback, and nothing initialises the
  policy it would be asked by.
* Zigbee deletions pass no gate and can overlap an authorized one, or a demotion: each
  finds two admins in its snapshot, and none is left, which the comment at
  sdf_services.c:1304-1316 means to rule out. `AdminRemains` excepts it (`"overlap"`). One
  that falls between a permission change and its answer makes the answer untrue
  (`"erased"`).
* A boot that cannot read the user record has nobody in force, though the templates on the
  sensor still open the door, and the next save overwrites the record (sdf_services.c:1138;
  fault `"read"`).
* Kconfig:247 describes the failure window as sliding; it restarts at its first
  failure (match.c:254). `FailureBudget` states what the code guarantees.
* sdf_services_internal.h:47-48 calls the belief flag what is known of the record;
  it is cleared before the erase, so a failed erase is found only at the next boot.
* An entry into lockout whose emission fails is lost (match.c:164-170 promises a
  retry only for a router that is not ready).
* `sdf_services_is_ready` also answers no when it misses the services lock for 250 ms
  (services.c:1221-1233). After the failure that locks, the cycle then returns before it
  writes the record (match.c:304), so that a reset ends the lockout (`unsaved`), or after
  it, and the entry is lost (match.c:331). A miss at match.c:98 loses the clear, and the
  alarm latches. A miss at match.c:171 keeps the announcement of a restored lockout for the
  next cycle, but when that lockout has expired this cycle emits its clear all the same: an
  unpaired clear, against the comment at match.c:167-170 ("rather than silently losing the
  CRITICAL and later emitting an unpaired NORMAL clear (D5)"), and a late entry that latches
  the alarm (`missed`).
* A lockout entered while the clear of an earlier one is still queued overtakes
  it, and the alarm is off under a lockout (specs, sdf_sas.md:593).
* A permission change that times out on both sides, or a result that two tasks
  resolve (sdf_app.c:122-124, 1616), may be answered twice.
* An Enroll-Admin request notes its connection before it is accepted and
  overwrites the one that is waiting (sdf_app.c:913).
* A sweep, or a remote enrolment that fails to start, releases the sensor's power
  hold under an enrolment that is running (sdf_services.c:1887-1888,
  admin.c:341).

Of the Nuki link, each an exception of a property, named in `mishaps`:

* After `sdf_app_release_ble_transport` the transport is READY until the
  disconnection is reported. A command begun in between waits for ever and refuses
  every other one (`"closing"`); connecting on demand is the default.
* Two tasks that start a scan at once can leave the transport IDLE while NimBLE
  scans, where advertisements are ignored (`"overlap"`). Two that begin a flow at
  once send one action twice, or lose one.
* When the attempts are exhausted nothing tells the lock flow: a command in flight or
  queued stays (`"exhausted"`).
* A command queued just as the transport becomes READY is not dispatched until the
  next time (`"late"`); nor is one that was queued before a pairing, when the
  pairing is over. The flag of a queued command is set before its action
  (sdf_app.c:254-257), so that action 0 may be dispatched (`"torn"`).
* The latch sequence is noted after `sdf_app_lock_action` has returned; if its
  unlock is over by then the note stays (`"latch"`).
* `sdf_lock_flow_retry` calls `on_fail` before it resets the flow
  (sdf_lock_flow.c:72-76), so the release that `on_fail` makes finds the flow busy
  and does nothing.

And, seen in the code, without a trace in the model:

* A pairing survives the loss of its connection, and one that ends by an encrypted
  error is not released (sdf_app.c:2305-2311 says it is).
* A GATT procedure whose callback reports an error leaves the transport
  DISCOVERING. Cached handles the lock refuses are one such case: only a write that
  cannot be started falls back to a discovery.
* `nuki pair` of the command line never sets `s_pairing_active`.

Of the firmware update:

* Every session has the same handle, so an abort that comes late aborts another
  transfer's session; a redundant abort is not harmless, as
  sdf_ble_companion_ota.c:256-259 and the specification ("Redundant Abort Is Safe")
  have it (`"robbed"`).
* A download its coordinator abandons keeps the session until a later transfer fails or
  the device restarts; "aborting previous" (sdf_protocol_zigbee.c:769) is logged and not
  done.
* A write that cannot have the mutex returns an error and leaves the session active,
  against its specification.
* A new image is marked valid only just before the next restart (sdf_ota.c:469), while
  the bootloader's rollback is enabled.

Of the setup phase, each an exception of a property, named in `mishaps`, unless said
otherwise:

* A TIMEOUT event lost at a full queue is not emitted again, though the comment in
  `sdf_setup_emit` says it "only delays" the Bluetooth half (`"lost"`).
* The admission that closes the pairing window does not restart advertising
  (sdf_ble_companion.c:1544-1561), which `restart_advertising`'s comment and
  ble-companion-service/spec.md:291 promise: unfiltered advertising goes on to the end
  of the connection (`"unswitched"`). A timer callback that misses the lock leaves the
  window open for good (`"lock"`).
* A window opened between an admission's closing of the last one and its
  `esp_timer_stop` has no timer (`"untimed"`).
* Two tasks that restart advertising at once: a mode chosen before a change is started
  after it, and the start of the one that came last is refused (`"late"`).
* The end of a second, refused connection clears `conn_active` of the first client,
  which the idle timer no longer watches (`"second"`).
* A wizard step, a connection or a pairing that lands between the steps of the wipe
  survives it (`"landed"`). If it lets a lapsed phase be completed, a pairing window may be
  opened before the completion is taken back, and nothing restarts advertising after
  `sdf_storage_setup_complete_clear` (sdf_app.c:852): the device stays on the air in a
  claimed device's mode (`"landed"` and `"lock"` together).
* A press checked before a completion re-arms a claimed device, whose deadline then
  wipes it; a factory reset erases NVS seconds before it restarts, and a completion in
  between latches an emptied device; the finish request of a peer being terminated
  claims the device without a bond (`"raced"`).
* A reset in an eviction leaves an admission without a bond, which lists the peer again
  when it has bonded again (`"torn"`).
* Outside the model: `deadline_started` is never cleared, so a phase re-armed after a
  lapse runs on the deadline alone. `sdf_storage_admission_add` writes behind as many
  records as there are (sdf_storage.c:844), while loading stops at the first gap: after a
  reset in `sdf_storage_admission_clear_all` an added record may be written over another
  or never be loaded, and a duplicate left by a reset in `sdf_storage_admission_remove`
  survives the next removal. A lock missed by a disconnection leaves its slot occupied,
  which during setup refuses every later client.

Of sessions and registrations, each an exception of a property, named in `mishaps`:

* A registration is noted before the gate is asked for. If another action has it, the
  note stays (sdf_app.c:746), and every later REGISTER is dropped without an answer until
  a restart, while the comment at sdf_app.c:1561-1569 and ble-companion-service/spec.md:376
  say that a registration always resolves (`"busy"`).
* `reply_auth` takes the first connection that waits under the name, gives up the lock,
  and acts by handle: the answer may go to another one, or to a client that has logged
  out or begun a login meanwhile (`"late"`).
* A missed lock when the password's hash is fetched saves nothing and yet answers
  "authorized", and the session is bound to whoever has the name (`"lock"`). A record
  that cannot be written is answered as authorized, too (`"write"`).
* A rename and a registration check a name, or read a record, before they write it: each
  may take what the other has just been granted (`"overlap"`).
* A record written for a user deleted meanwhile, or left by a reset between the two
  halves of a deletion, is inherited by the next user of the id (`"orphan"`). One erased
  between its saving and the answer is answered as if it were there (`"gone"`).

## 7. Proofs

`SdfLockoutProofs` proves, from `LockoutAssumption` alone (the configuration's
values are positive), for every threshold, window, lockout time, queue depth and
bound:

* `TypeCorrect`: `Spec => []TypeOK`
* `NoMatchUnderLockout`: `Spec => []MatchOnlyWhenOpen`
* `BeliefIsTheDeadline`: `Spec => []BeliefTracksDeadline`
* `LockoutIsRecorded`: `Spec => []LockoutDurable`
* `ResetNeverShortens`: `Spec => LockoutSurvivesReset`
* `FailuresAreBudgeted`: `Spec => []FailureBudget`
* `ClearsFollowEntries`: `Spec => []ClearsArePaired`

None of the invariants is inductive alone. `MatchOnlyWhenOpen` needs to know that
a cycle which has not scanned yet either expired the lockout or found none
(`CycleInv`), `LockoutDurable` that no record is retired while a lockout is armed,
and `LockoutSurvivesReset` that no deadline lies further ahead than one lockout
time (`DeadlineInv`), so that the full lockout a restore arms is at least what was
left. `IInv` joins the first; `DeadlineInv` is proved relative to it. Each action
has a lemma that it preserves `IInv`; the theorems then follow by temporal logic.

`FailureBudget` bounds the size of a set of times, and the code only keeps a count and the
start of a window. `WindowInv` ties the two: the failures of the window are no more than
the count, and for each failure before the window, those from it to the window's start are
at most `FailThreshold - 2`, because the one that began the earlier window is not among
them. The bound is the sum, and finite-set lemmas do the counting. `ClearsArePaired`
counts handled events, but an event handled was sent through two queues, one of which
CRITICAL events enter at the front. `BalanceInv` says that along both queues the entries
are never behind the clears (`Lead`), and are one ahead at the end while a clear is still
owed (`Owing`); a clear sent to the back then has its entry before it, and an entry that
overtakes only adds to what follows.

`SdfAdminGateProofs` proves, from `GateAssumption` alone (`None` is no user and no
request, a queue holds at least one event, who is deleted over Zigbee is a user), for every
set of requests, users, actions asked for, users so deleted, and queue depth:

* `TypeCorrect`: `Spec => []TypeOK`
* `TargetsAreArmed`: `Spec => []TargetIsArmed`
* `AdminsRemain`: `Spec => []AdminRemains`
* `HoldsEnd`: `Spec => []HoldEnds`
* `GateIsResolved`: `Spec => []GateResolved`
* `PermissionRepliesTrue`: `Spec => PermissionReplyTrue`

The properties relate what is pending, what the match and admin tasks carry and who waits,
and the code keeps those in three places without one lock; the invariant says how each
follows from the others. `ArmInv`, `KindInv` and `MatchInv`: what is pending, noted or
claimed is what its request asked for. `AdminInv` is the reason that an admin remains:
whoever is `Doomed`, by any of the three tasks, is not the only admin, short of an
overlap. A guard makes that so, and every other step keeps it: another admin goes only by
the step that notes the overlap, and (`RoleInv`) an enrolment that ends adds a user and
never replaces an admin. `HoldInv` names who will release the hold (`Held`), and needs
`EnrolInv`: a request, its start event and the match task about to send one exclude each
other. `GateResolved` speaks of the moment when nothing is under way; `AnswerInv` says for
every moment before it where the answer is (`Coming`: with the pending action, the match
task, the admin task or in the queue), and `NoteInv` that one request is not in two of
those places. `PermissionReplyTrue` rests on `ChangeInv`, that a change has one owner at a
time from its arming to its end and the request that waits is that owner's, and on
`GrantInv`, that a result is read before anything could have taken the permission back.

`SdfEnrolledUsersProofs` proves, from `UsersAssumption` alone (a queue holds at
least one event, and `None` is no user), for every set of users, retry policy,
queue depth and choice of faults:

* `TypeCorrect`: `Spec => []TypeOK`
* `SavedCache`: `Spec => []CacheIsSaved`
* `OwnResult`: `Spec => []AppliesToItsOwn`
* `SomebodyDrives`: `Spec => []EnrolmentDriven`

The first part is one lemma per action for the types, which the rest needs: what
an editor carries follows from where it is. `CacheIsSaved` is inductive alone,
because no mishap is forgotten (`MishapsKept`): the boot that could not read the record
notes it. `AppliesToItsOwn` is inductive
relative to `TypeOK`: a task at the sensor has the snapshot of an active machine,
and `CanStart` keeps the other tasks off an active one. `EnrolmentDriven` is not
inductive: it names every event that may drive an enrolment but not which one
drives which, so the last `STEP` could be consumed while an unrelated `START` still
satisfies it. `Driven` says it: a pending request and an active machine exclude each
other, a request is `Arriving` (its `START` is in one of the queues, or its sender or
the enroll task is about to act) and an active machine is `Waking` (the timer, a
`STEP`, or the match task about to send one). Its lemmas rest on two facts about
queues, that an event stays in one when another joins (`HoldsAppended`) or leaves
(`HoldsTaken`).

`SdfUserCopiesProofs` builds on it and proves:

* `SensorIsTheRecord`: `Spec => []SensorAgrees`
* `NoTemplateWithoutUser`: `Spec => []StaleButSafe`
* `ServicesRefineStore`: `Spec => StoreRefined`

The first two speak of users nobody is changing; the invariant says for every moment who
is changing whom. A worker that has changed a user's template and not yet the record
`Claims` that user. Short of an overlap a user has at most one claimant (`ClaimInv`), who
alone knows what the copies are, and one without a claimant has copies that agree
(`ExactInv`), or, with failing writes, no template that is not on record (`SafeInv`).
These are statements about one user at a time, so a step is checked on the users it is
about (`Rightly`) and leaves the others (`Untouched`); `UserByUser` puts the two together.
For the refinement, what an action saves is the outcome of one change of the store
(`Outcome`), a save cut short by a reset is the store's torn record (`TornRecord`), one
that fails a refusal (`FailureRefuses`), and a boot that cannot read its record
`Unreadable`; the lemmas about the actions that save (`ChangesRefine`, `ResetRefines`)
follow, and every other action is a stutter (`NextRefines`).

`SdfOtaProofs` proves, from `OtaAssumption` alone, for every partition, set of
connections and number of transfers:

* `TypeCorrect`: `Spec => []TypeOK`
* `HandleIsOwned`: `Spec => []HandleOwned`
* `ChunksOfOne`: `Spec => []OneSender`
* `BootImageWhole`: `Spec => []BootsWhole`
* `UploadIsSession`: `Spec => []UploadLives`

`SessionInv` (types, the handle, what an active session holds) is preserved by every
function of `sdf_ota.c`, which is why its lemmas are about those and not about the
transports. `MutexInv` and `HeldInv` say what a task that keeps the mutex over a flash
operation may rely on. `QuietInv`, short of a mishap, ties each transport's belief to
the session it has: what the companion and the coordinator hold open is theirs, a verified
session is complete and its sender does not send, and what is selected is whole.

`SdfSetupProofs` proves, from `SetupAssumption` alone, for every set of companions, queue
depth, number of turns and choice of faults:

* `TypeCorrect`: `Spec => []TypeOK`
* `ClaimedWhole`: `Spec => []ClaimWhole`
* `TrustSurvivesReboot`: `Spec => []RebootKeepsTrust`
* `OnTheAirAsMeant`: `Spec => []AdvertisesAsMeant`
* `ConnectionsAreWatched`: `Spec => []IdleCovered`
* `LapsedPhaseLeavesNothing`: `Spec => []LapsedClean`

The properties speak of a device at rest; the invariant says how far apart the pieces
may be in between. `ClaimInv`: a completion has all wizard steps before it and no
erasure beside it, so that the latch is set only by one that may yet take it back.
`RecordInv` follows the allow list, the admissions and the bonds through the steps of an
admission, an eviction, a completion and a wipe (`Agreed`, `HalfWiped`). It rests on
`LinkInv` (an encrypted connection that stays has its bond) and `PhaseInv` (a wipe
excludes an open window, a pending admission and a completion). The proof found what the
run's bounds hide: a factory reset's restart may cut an eviction short as any other
reset does, which the model now notes.

The last three theorems rest on a second invariant, `AirborneInv`. `AirInv` says that a
device whose advertising is not as it should be has somebody who will restart it
(`Pending`: a planned start, a connection that is ending, a wipe, an event of a gesture or
of the wipe in the queue). What has to be shown is that whoever starts advertising last has
not chosen a mode that is then taken back. That needs `ClaimedAir` (filtered advertising is
for a device with its latch set, and one whose completion may still be taken back has a
client about to go) and `WindowInv` (short of a race the window is a claimed device's, and a
completion is an armed one's). `QueueInv` orders the queue: a phase armed while a wipe is on
its way has its own event behind the wipe's, so the silence of the wipe is not the last
word. `CoverInv` gives each connection of an armed phase its watcher or its end;
`LapseInv` follows a wipe stage by stage, saying what is gone by then, and `RaceInv` keeps a
completion out of it. All were checked by TLC first, at more turns than the run has, which
is how the exception of `AdvertisesAsMeant` (section 4) came to light; `IdleCovered` on the
other hand needed one exception less than it made.

`SdfSessionProofs` proves, from `SessionAssumption` alone (user ids are positive and
finitely many, `None` is nothing else), for every set of connections, users, names and
passwords, number of turns and choice of faults:

* `TypeCorrect`: `Spec => []TypeOK`
* `AuthorityIsEarned`: `Spec => []AuthorityEarned`
* `AccountsAreSound`: `Spec => []AccountsSound`
* `AnswersAreTrue`: `Spec => AnswerTrue`

The properties look at sessions and records; why they hold lies in where the registration
is. `TokenInv`: it is in one place at a time, with the host task, at the gate, on its way
or with the app task, so that what is decided is what was asked. `HostInv` and `MineInv`
tie it to the connection that asked: short of a late answer it still waits under the name
that is noted and is the one that `Find` picks, since no other can wait with the same
right. `NameInv` carries the check of each writer to its write (`Sole`), short of an
overlap, which makes the account found for the name that of the user who scanned; with
`MineInv` and `BoundInv` that user let the connection in. `SavedInv` carries the record
from its saving to its answer. `FirstOf`'s choice of the smallest user needs that a
non-empty set of naturals has one (`SmallestExists`).

`SdfNukiLinkProofs` proves, from `TransportAssumption` and `LinkAssumption` (the tasks are
three and none is the timer, `None` is no action, the limits are naturals), for every
retry policy, number of connections and commands, choice of faults and either connection
mode:

* `TypeCorrect`: `Spec => []TypeOK`
* `LinkIsDriven`: `Spec => []LinkDriven`
* `FlowsAreServed`: `Spec => []CommandsServed`
* `LatchIsServed`: `Spec => []LatchServed`
* `FramesAreBounded`: `Spec => []FrameBudget`
* `NothingIsUnasked`: `Spec => []NothingUnasked`
* `ActionsOnTheirConnection`: `Spec => ActionOnItsConnection`

`ScanInv` says that, while one caller scans at a time, NimBLE does what `state` says;
`LinkDriven` is inductive relative to it. `WantedInv` adds that a connection nobody wants
is neither sought nor kept, so a flow begun on a READY connection begins on a wanted one,
unless that is being released: this gives `CommandsServed`. `FrameInv` gives each state of
the flow its share of the budget. `NothingUnasked` alone counts only what is begun;
`AskedInv` adds what is still owed: by a task on its way to the write (`Due`), in the queue
(`Queued`), or after the unlock of a latch sequence (`Latched`). Each step moves a command
from one of these to the next, begins it or drops it. `QueueInv` says when a queued command
is whole, and `CommandInv` that the Zigbee task asks for one latch sequence at a time.

Every invariant and action property a passing run checks is thereby proved, and so is the
refinement. Liveness (`AlarmDoesNotLatch`, `GateFrees`, `PermissionAnswered`,
`EnrolmentEnds`, `UploadEnds`, `OpennessEnds`, `RegistrationResolves`) is out of the
prover's reach, since fairness needs ENABLED, and is model-checked only.

## 8. Not modelled

Nuki cryptography, the drivers, the LED and the configuration's bounds hold no state
machine of interest or only compute. The power manager's policy never runs in this build
(section 1). The web companion (`src/web-companion`) is a client: what it does to the
device is any order of requests here. Nuki pairing beyond its start and end, the Zigbee
attribute cache and the change generations of the device state are not modelled;
`PROJECT.json` lists each component with what of it is.

Of the command line only `user set-name` is modelled (`SdfSession`). `user add` asks for an
enrolment and then drives the sensor's steps itself while the enroll task drives them, too;
the captures of the two are serialised by the driver and told apart by neither, so what
`AppliesToItsOwn` says of the enroll task says nothing of that loop. `user del` is the
deletion `SdfAdminGate` has from the Zigbee task, by a second task; two of them overlap as
one and an authorized one do. `user permission` is a second caller of the wait that the
model has for the app task only; the gate's guard of pending changes is the same for both.

Most of the repository's lines are vendored (`managed_components`, the headers of the
Zigbee libraries) and are modelled only as their effects on the code under
`src/firmware/components`.
