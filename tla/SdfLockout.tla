----------------------------- MODULE SdfLockout -----------------------------
(***************************************************************************)
(* The biometric brute-force lockout: one match cycle of sdf_match_task    *)
(* (sdf_services_match.c), the NVS record that makes a lockout survive a   *)
(* reset (sdf_storage.c), the restore at boot (sdf_services.c) and the     *)
(* two queues - event router, then application task - that carry the       *)
(* lockout's CRITICAL/NORMAL event pair to the Zigbee alarm bit.           *)
(*                                                                         *)
(* A cycle is a sequence of steps because the code drops the services lock *)
(* around every blocking call: the UART scan, the NVS writes and the       *)
(* emissions.  Time passes, queues move and the device may reset between   *)
(* any two of them.  `stage' is where the match task stands in the cycle.  *)
(* Time is in ticks and restarts at 1 on each boot, as esp_timer does.     *)
(***************************************************************************)
EXTENDS Integers, Sequences, FiniteSets

CONSTANTS
  FailThreshold,   \* config.failed_attempt_threshold
  FailWindow,      \* config.failed_attempt_window_ms, in ticks
  LockoutTime,     \* config.lockout_duration_ms, in ticks
  Cooldown,        \* config.match_cooldown_ms, in ticks
  QueueDepth,      \* depth of the router queue and of the app queue
  MaxTime,         \* bound: ticks of uptime explored per boot
  MaxBoots,        \* bound: boots explored
  MaxSeen          \* bound: announcements after which the flag is consumed

ASSUME LockoutAssumption ==
  /\ FailThreshold \in Nat \ {0} /\ FailWindow \in Nat \ {0}
  /\ LockoutTime \in Nat \ {0}   /\ Cooldown \in Nat \ {0}
  /\ QueueDepth \in Nat \ {0}    /\ MaxTime \in Nat \ {0} /\ MaxBoots \in Nat /\ MaxSeen \in Nat

VARIABLES
  now,              \* esp_timer_get_time()
  lockoutUntil,     \* lockout_until_us; 0 when no lockout is armed
  failCount,        \* failed_attempt_count
  windowStart,      \* failed_attempt_window_start_us; 0 when no window runs
  cooldownUntil,    \* match_cooldown_until_us
  persistArmed,     \* lockout_persist_armed, the belief about the NVS record
  announcePending,  \* lockout_restore_announce_pending
  record,           \* the NVS key "bio_lockout" reads as armed
  stage,            \* where the match task is in its cycle
  cycle,            \* the cycle's local variables
  routerQueue,      \* events the router has not dispatched yet
  appQueue,         \* events the application task has not handled yet
  alarm             \* SDF_APP_ZB_ALARM_BIOMETRIC_LOCKOUT in the alarm mask

\* History, read by the properties only.
VARIABLES
  boots,            \* boots so far
  dropped,          \* a full queue lost an event in this boot
  unsaved,          \* the last lockout armed in this boot was not recorded: the
                    \* write failed, or the cycle returned before it
  reannounced,      \* the restored lockout's flag outlived an announcement
  missed,           \* lockout events skipped in this boot, of Skipped
  fails,            \* times of the counted failures since the count was reset
  locksSeen,        \* lockout-entered events the application handled this boot
  clearsSeen        \* lockout-cleared events the application handled this boot

lockoutVars == <<lockoutUntil, failCount, windowStart, cooldownUntil>>
recordVars  == <<persistArmed, announcePending, record>>
queueVars   == <<routerQueue, appQueue>>
appVars     == <<alarm, locksSeen, clearsSeen>>
history     == <<boots, dropped, unsaved, reannounced, missed, fails>>
vars == <<now, lockoutVars, recordVars, stage, cycle, queueVars, appVars, history>>

Event == {"LockoutEntered", "LockoutCleared", "MatchResult"}
Stage == {"idle", "announce", "retire", "clear", "scan", "account",
          "failed", "save", "lockout", "match"}
ScanResult == {"OK", "NO_MATCH", "ERROR"}

\* What a missed lock keeps from being emitted: the entry of a lockout; the entry
\* of a restored one, which comes after its clear instead; the clear.
Skipped == {"entry", "lateEntry", "clear"}

-----------------------------------------------------------------------------
(* Queues.  A CRITICAL event is sent to the front, any other to the back;  *)
(* a send that finds the queue full gives up and the event is lost.        *)

Critical(e) == e = "LockoutEntered"

\* xQueueSendToFront / xQueueSendToBack on a queue with room for e.
Enqueued(q, e) == IF Critical(e) THEN <<e>> \o q ELSE Append(q, e)

\* sdf_event_router_emit from the match task.
Emit(e) ==
  /\ \/ /\ Len(routerQueue) < QueueDepth
        /\ routerQueue' = Enqueued(routerQueue, e)
        /\ UNCHANGED dropped
     \/ /\ Len(routerQueue) = QueueDepth
        /\ dropped' = TRUE
        /\ UNCHANGED routerQueue
  /\ UNCHANGED appQueue

\* sdf_services_is_ready takes the services lock for at most 250 ms and answers
\* no when it does not get it.  Nothing is emitted then; s is what is skipped.
NotReady(s) ==
  /\ missed' = missed \cup s
  /\ UNCHANGED <<queueVars, dropped>>

-----------------------------------------------------------------------------
(* The match cycle.                                                        *)

NewCycle(at, cleared, announce, run) ==
  [at |-> at, cleared |-> cleared, announce |-> announce, run |-> run,
   scan |-> "ERROR", locked |-> FALSE, heal |-> FALSE]

NoCycle == NewCycle(0, FALSE, FALSE, FALSE)

\* Where a cycle goes once the announcement / the clearing are behind it.
AfterClear(c)    == IF c.run THEN "scan" ELSE "idle"

MutantClearForgotten(c) == AfterClear(c)
AfterAnnounce(c) == IF c.cleared THEN "retire" ELSE AfterClear(c)

MutantNoAnnouncement(c) == AfterAnnounce(c)
AfterGate(c)     == IF c.announce THEN "announce" ELSE AfterAnnounce(c)

MutantNoSave(c)  == IF c.locked THEN "lockout" ELSE "idle"
AfterFailed(c)   == IF c.locked THEN "save" ELSE "idle"

\* Move to stage st with locals c; they are gone when the cycle returns.
Goto(st, c) ==
  /\ stage' = st
  /\ cycle' = IF st = "idle" THEN NoCycle ELSE c

\* Neither the cooldown nor a lockout until `until' is running.
MutantScansLocked(until) == now >= cooldownUntil
Open(until) == now >= cooldownUntil /\ now >= until

\* First lock section: expire the lockout, decide whether to scan.
\* `enrolling' stands for an active enrolment or a pending request for one.
\* A cycle that misses the lock or finds no user enrolled changes nothing.
StartCycle ==
  /\ stage = "idle"
  /\ \E enrolling \in BOOLEAN :
       LET expired == lockoutUntil > 0 /\ now >= lockoutUntil
           until   == IF expired THEN 0 ELSE lockoutUntil
           c == NewCycle(now, expired, announcePending,
                         Open(until) /\ ~enrolling)
       IN /\ lockoutUntil' = until
          /\ failCount' = IF expired THEN 0 ELSE failCount
          /\ windowStart' = IF expired THEN 0 ELSE windowStart
          /\ persistArmed' = (persistArmed /\ ~expired)
          /\ Goto(AfterGate(c), c)
  /\ UNCHANGED <<now, cooldownUntil, announcePending, record, queueVars,
                 appVars, history>>

\* A lockout restored at boot announces itself.  The flag is consumed in a
\* second lock section, which keeps it when the lock cannot be had in time.  When
\* the services are not ready the next cycle tries again, but this one emits the
\* clear of an expired lockout all the same.
Announce ==
  /\ stage = "announce"
  /\ \/ /\ Emit("LockoutEntered")
        /\ \/ announcePending' = FALSE /\ UNCHANGED reannounced
           \/ /\ locksSeen < MaxSeen
              /\ reannounced' = TRUE
              /\ UNCHANGED announcePending
        /\ UNCHANGED missed
     \/ /\ NotReady(IF cycle.cleared THEN {"lateEntry"} ELSE {})
        /\ UNCHANGED <<announcePending, reannounced>>
  /\ Goto(AfterAnnounce(cycle), cycle)
  /\ UNCHANGED <<now, lockoutVars, persistArmed, record, appVars, boots,
                 unsaved, fails>>

\* sdf_storage_lockout_clear: erases the key, or fails and leaves it.
EraseRecord == record' \in {FALSE, record}

RetireRecord ==
  /\ stage = "retire"
  /\ EraseRecord
  /\ Goto("clear", cycle)
  /\ UNCHANGED <<now, lockoutVars, persistArmed, announcePending, queueVars,
                 appVars, history>>

EmitCleared ==
  /\ stage = "clear"
  /\ \/ Emit("LockoutCleared") /\ UNCHANGED missed
     \/ NotReady({"clear"})
  /\ Goto(AfterClear(cycle), cycle)
  /\ UNCHANGED <<now, lockoutVars, recordVars, appVars, boots,
                 unsaved, reannounced, fails>>

\* fp_match_1n: the blocking 1:N search on the sensor.
Scan ==
  /\ stage = "scan"
  /\ \E r \in ScanResult : Goto("account", [cycle EXCEPT !.scan = r])
  /\ UNCHANGED <<now, lockoutVars, recordVars, queueVars, appVars, history>>

Locks(count) == count >= FailThreshold

\* A failure at time t starts a new window.
MutantWindowRestarts(t) == windowStart = 0 \/ t - windowStart <= FailWindow
WindowOver(t) == windowStart = 0 \/ t - windowStart > FailWindow

\* Second lock section, NO_MATCH: count the failure, arm the lockout.
AccountFailure ==
  /\ stage = "account" /\ cycle.scan = "NO_MATCH"
  /\ LET fresh == WindowOver(cycle.at)
         count == (IF fresh THEN 0 ELSE failCount) + 1
         lock  == Locks(count)
     IN /\ failCount' = IF lock THEN 0 ELSE count
        /\ windowStart' = IF lock THEN 0
                          ELSE IF fresh THEN cycle.at ELSE windowStart
        /\ lockoutUntil' = IF lock THEN cycle.at + LockoutTime ELSE lockoutUntil
        /\ persistArmed' = (persistArmed \/ lock)
        /\ fails' = IF lock THEN {} ELSE fails \cup {cycle.at}
        /\ Goto("failed", [cycle EXCEPT !.locked = lock])
  /\ cooldownUntil' = cycle.at + Cooldown
  /\ UNCHANGED <<now, announcePending, record, queueVars, appVars, boots,
                 dropped, unsaved, reannounced, missed>>

\* Second lock section, OK: reset the count, notice a stale armed record.
AccountMatch ==
  /\ stage = "account" /\ cycle.scan = "OK"
  /\ failCount' = 0
  /\ windowStart' = 0
  /\ cooldownUntil' = cycle.at + Cooldown
  /\ persistArmed' = FALSE
  /\ fails' = {}
  /\ Goto("match", [cycle EXCEPT !.heal = persistArmed])
  /\ UNCHANGED <<now, lockoutUntil, announcePending, record, queueVars,
                 appVars, boots, dropped, unsaved, reannounced, missed>>

\* Second lock section, sensor timeout or error: only the cooldown moves.
AccountError ==
  /\ stage = "account" /\ cycle.scan = "ERROR"
  /\ cooldownUntil' = cycle.at + Cooldown
  /\ Goto("idle", cycle)
  /\ UNCHANGED <<now, lockoutUntil, failCount, windowStart, recordVars,
                 queueVars, appVars, history>>

\* The lock could not be had within SDF_SERVICES_LOCK_WAIT_MS: nothing is
\* accounted for, and a successful match is still reported.
AccountLockTimeout ==
  /\ stage = "account"
  /\ Goto(IF cycle.scan = "OK" THEN "match" ELSE "idle", cycle)
  /\ UNCHANGED <<now, lockoutVars, recordVars, queueVars, appVars, history>>

\* When the services are not ready the cycle returns, and neither records nor
\* announces the lockout it has armed.
EmitMatchFailed ==
  /\ stage = "failed"
  /\ \/ /\ Emit("MatchResult")
        /\ Goto(AfterFailed(cycle), cycle)
        /\ UNCHANGED <<unsaved, missed>>
     \/ /\ NotReady(IF cycle.locked THEN {"entry"} ELSE {})
        /\ unsaved' = (unsaved \/ cycle.locked)
        /\ Goto("idle", cycle)
  /\ UNCHANGED <<now, lockoutVars, recordVars, appVars, boots, reannounced,
                 fails>>

\* sdf_storage_lockout_save(true), best effort.
SaveRecord ==
  /\ stage = "save"
  /\ \/ record' = TRUE /\ unsaved' = FALSE
     \/ unsaved' = TRUE /\ UNCHANGED record
  /\ Goto("lockout", cycle)
  /\ UNCHANGED <<now, lockoutVars, persistArmed, announcePending, queueVars,
                 appVars, boots, dropped, reannounced, missed, fails>>

EmitLockout ==
  /\ stage = "lockout"
  /\ \/ Emit("LockoutEntered") /\ UNCHANGED missed
     \/ NotReady({"entry"})
  /\ Goto("idle", cycle)
  /\ UNCHANGED <<now, lockoutVars, recordVars, appVars, boots,
                 unsaved, reannounced, fails>>

\* Heal a stale armed record, then let a pending admin action consume the
\* match, or report it so that it opens the door.
ReportMatch ==
  /\ stage = "match"
  /\ IF cycle.heal THEN EraseRecord ELSE UNCHANGED record
  /\ \/ UNCHANGED <<queueVars, dropped>>
     \/ Emit("MatchResult")
  /\ Goto("idle", cycle)
  /\ UNCHANGED <<now, lockoutVars, persistArmed, announcePending, appVars,
                 boots, unsaved, reannounced, missed, fails>>

-----------------------------------------------------------------------------
(* The event's way to the alarm bit.                                       *)

\* The router task hands its oldest event to the app's trampoline, which
\* ranks it the same way and never blocks.
RouterDispatch ==
  /\ routerQueue # <<>>
  /\ routerQueue' = Tail(routerQueue)
  /\ \/ /\ Len(appQueue) < QueueDepth
        /\ appQueue' = Enqueued(appQueue, Head(routerQueue))
        /\ UNCHANGED dropped
     \/ /\ Len(appQueue) = QueueDepth
        /\ dropped' = TRUE
        /\ UNCHANGED appQueue
  /\ UNCHANGED <<now, lockoutVars, recordVars, stage, cycle, appVars, boots,
                 unsaved, reannounced, missed, fails>>

\* sdf_app_on_event, SECURITY_LOCKOUT and the events that leave the bit alone.
AppHandle ==
  /\ appQueue # <<>>
  /\ LET e == Head(appQueue)
     IN /\ alarm' = CASE e = "LockoutEntered" -> TRUE
                      [] e = "LockoutCleared" -> FALSE
                      [] OTHER -> alarm
        /\ locksSeen' = locksSeen + (IF e = "LockoutEntered" THEN 1 ELSE 0)
        /\ clearsSeen' = clearsSeen + (IF e = "LockoutCleared" THEN 1 ELSE 0)
  /\ appQueue' = Tail(appQueue)
  /\ UNCHANGED <<now, lockoutVars, recordVars, stage, cycle, routerQueue,
                 history>>

-----------------------------------------------------------------------------
(* Boot, reset and time.                                                   *)

Init ==
  /\ now = 1
  /\ lockoutUntil = 0 /\ failCount = 0 /\ windowStart = 0 /\ cooldownUntil = 0
  /\ persistArmed = FALSE /\ announcePending = FALSE /\ record = FALSE
  /\ stage = "idle" /\ cycle = NoCycle
  /\ routerQueue = <<>> /\ appQueue = <<>>
  /\ alarm = FALSE /\ locksSeen = 0 /\ clearsSeen = 0
  /\ boots = 1 /\ dropped = FALSE /\ unsaved = FALSE
  /\ reannounced = FALSE /\ missed = {} /\ fails = {}

\* sdf_services_restore_lockout_locked: an armed record re-arms a full lockout,
\* counted from the time of the boot.
MutantAbsoluteDeadline(armed) ==
  /\ lockoutUntil' = IF armed THEN LockoutTime ELSE 0
  /\ persistArmed' = armed /\ announcePending' = armed
Restore(armed) ==
  /\ lockoutUntil' = IF armed THEN 1 + LockoutTime ELSE 0
  /\ persistArmed' = armed /\ announcePending' = armed

\* Power loss, reset or deep sleep, then sdf_services_init: everything but
\* the record is lost.  A record that cannot be read counts as not locked out.
Reset ==
  /\ boots < MaxBoots
  /\ boots' = boots + 1
  /\ now' = 1
  /\ \E readable \in BOOLEAN : Restore(record /\ readable)
  /\ failCount' = 0 /\ windowStart' = 0 /\ cooldownUntil' = 0
  /\ stage' = "idle" /\ cycle' = NoCycle
  /\ routerQueue' = <<>> /\ appQueue' = <<>>
  /\ alarm' = FALSE /\ locksSeen' = 0 /\ clearsSeen' = 0
  /\ dropped' = FALSE /\ unsaved' = FALSE
  /\ reannounced' = FALSE /\ missed' = {} /\ fails' = {}
  /\ UNCHANGED record

Tick ==
  /\ now < MaxTime
  /\ now' = now + 1
  /\ UNCHANGED <<lockoutVars, recordVars, stage, cycle, queueVars, appVars,
                 history>>

MatchStep ==
  \/ StartCycle \/ Announce \/ RetireRecord \/ EmitCleared \/ Scan
  \/ AccountFailure \/ AccountMatch \/ AccountError \/ AccountLockTimeout
  \/ EmitMatchFailed \/ SaveRecord \/ EmitLockout \/ ReportMatch

Next == MatchStep \/ RouterDispatch \/ AppHandle \/ Reset \/ Tick

Spec == Init /\ [][Next]_vars

(***************************************************************************)
(* The router and app tasks drain their queues, time passes, and somebody  *)
(* keeps presenting a finger and a user stays enrolled: without a trigger  *)
(* or a user the match task runs no cycle and an expired lockout is not    *)
(* cleared.  Resets are not fair.                                          *)
(***************************************************************************)
FairSpec ==
  /\ Spec
  /\ WF_vars(MatchStep) /\ WF_vars(RouterDispatch) /\ WF_vars(AppHandle)
  /\ WF_vars(Tick)

-----------------------------------------------------------------------------
(* Properties.                                                             *)

Uptime   == 0 .. MaxTime
Deadline == 0 .. MaxTime + LockoutTime + Cooldown

Cycle == [at : Uptime, cleared : BOOLEAN, announce : BOOLEAN, run : BOOLEAN,
          scan : ScanResult, locked : BOOLEAN, heal : BOOLEAN]

\* Types, with the counters' real ranges: the failure count never reaches the
\* threshold (match.c resets it in the same step that arms the lockout).
TypeOK ==
  /\ now \in 1 .. MaxTime
  /\ lockoutUntil \in Deadline /\ windowStart \in Uptime
  /\ cooldownUntil \in Deadline
  /\ failCount \in 0 .. FailThreshold - 1
  /\ persistArmed \in BOOLEAN /\ announcePending \in BOOLEAN
  /\ record \in BOOLEAN
  /\ stage \in Stage /\ cycle \in Cycle
  /\ routerQueue \in Seq(Event) /\ Len(routerQueue) <= QueueDepth
  /\ appQueue \in Seq(Event) /\ Len(appQueue) <= QueueDepth
  /\ alarm \in BOOLEAN /\ locksSeen \in Nat /\ clearsSeen \in Nat
  /\ boots \in Nat /\ dropped \in BOOLEAN /\ unsaved \in BOOLEAN
  /\ reannounced \in BOOLEAN /\ missed \subseteq Skipped
  /\ fails \in SUBSET Uptime

\* From the gate to the report no lockout is in force: a scan that began in
\* the open is never accounted or reported under a lockout, whatever time
\* passed on the sensor (run_match and the code after fp_match_1n).
MatchOnlyWhenOpen ==
  stage \in {"scan", "account", "match"} => lockoutUntil = 0

\* lockout_persist_armed says exactly whether a RAM lockout is armed, so the
\* success path (which runs with no lockout armed) never finds it set.
BeliefTracksDeadline == persistArmed <=> lockoutUntil > 0

\* The armed record is still to be written.
SavePending == stage = "save" \/ (stage = "failed" /\ cycle.locked)

\* A lockout in force is on record: no order of retiring and saving, over any
\* number of lockouts, erases the record of the one that runs.  It is not on
\* record before its save, and it stays off it in the two cases of `unsaved': the
\* write fails, or the cycle returns before it because the lock was missed.
LockoutDurable ==
  (lockoutUntil > 0 /\ ~SavePending /\ ~unsaved) => record

\* A reset never shortens a recorded lockout: after it, at least as much of
\* the lockout is left as before (restore_lockout_locked re-arms in full).
LockoutSurvivesReset ==
  [][(/\ boots' # boots /\ now < lockoutUntil
      /\ persistArmed')   \* the record was armed and readable
      => lockoutUntil' - now' >= lockoutUntil - now]_vars

\* The failures counted in any FailWindow, without a lockout, since the last
\* match, lockout or boot.  The code's window restarts at its first failure
\* instead of sliding, so a burst across the end of a window gets through:
\* up to FailThreshold - 2 late failures of one window and FailThreshold - 1
\* of the next, and never more.
FailsFrom(t) == {u \in fails : t <= u /\ u <= t + FailWindow}

FailureBudget ==
  \A t \in fails :
    Cardinality(FailsFrom(t)) <= (FailThreshold - 2) + (FailThreshold - 1)

\* Unless a full queue lost an event or an entry was skipped, the application
\* never handles a lockout clear without the lockout it belongs to: CRITICAL
\* events overtaking the queue never let a clear run ahead of its own entry, and
\* a restored lockout that could not be announced is, before its clear, when the
\* retry comes in time.
ClearsArePaired ==
  (~dropped /\ missed \subseteq {"clear"}) => clearsSeen <= locksSeen

\* The alarm does not latch: it is cleared again within the bounded time the
\* model explores.  The exceptions: a full queue lost an event; the clear was
\* skipped; a restored lockout was announced after its clear, for the first time
\* or again, because the lock could not be had, and nothing clears it twice.
AlarmDoesNotLatch ==
  alarm ~> (\/ ~alarm \/ dropped \/ reannounced \/ ~(missed \subseteq {"entry"})
            \/ lockoutUntil > MaxTime)
=============================================================================
