------------------------------ MODULE SdfSetup ------------------------------
(***************************************************************************)
(* The setup phase and the trust it ends with: sdf_services_setup.c on the *)
(* admin task (button gestures, timers, timeout wipe), the completion on   *)
(* the NimBLE host task (sdf_app.c), and the BLE half of both in           *)
(* sdf_ble_companion.c: connections, advertising, the pairing window, the  *)
(* allow list with its admission and bond records.                         *)
(*                                                                         *)
(* The setup state is read and written by several tasks without a lock.    *)
(* The tasks run between any two of the steps below, which end where the   *)
(* code calls the Bluetooth controller, NVS or a queue.                    *)
(*                                                                         *)
(* Time is not counted: the arm window or the deadline may run out at any  *)
(* moment of an armed phase, the idle timer at any moment of a connection. *)
(* A peer stands for its identity address and for its connection handle.   *)
(***************************************************************************)
EXTENDS Integers, Sequences, FiniteSets

CONSTANTS
  Peers,      \* companions, no more than the slots and tables hold
  Nobody,     \* no peer
  QueueDepth, \* bound: setup events waiting for the router
  MaxTurns,   \* bound: connections, gestures, evictions, windows, resets, faults
  Faults      \* what may go wrong once: "lost", "lock", "storage"

ASSUME SetupAssumption ==
  /\ Nobody \notin Peers /\ Peers # {}
  /\ QueueDepth \in Nat \ {0} /\ MaxTurns \in Nat
  /\ Faults \subseteq {"lost", "lock", "storage"}

\* In NVS, and the enrolled users.
VARIABLES
  latch,      \* setup_complete
  admitted,   \* the admission records
  bonds,      \* NimBLE's bond store
  done        \* wizard steps of which there is a result

\* In RAM.
VARIABLES
  armed, conn, \* of s_setup; Nobody when conn_active is false
  asked,      \* the wizard step under way
  allow, window, \* of s_bond_state: the allow-listed, pairing_window_open
  wtimer,     \* s_pairing_window_timer runs
  slots,      \* s_connections
  events,     \* SETUP_PHASE events in the router's queue
  host, admin, router, \* where the tasks are
  plan        \* the mode a restart of advertising is about to start

\* In the controller.
VARIABLES
  link, closing, \* connections, and those being terminated
  adv, wl     \* advertising, and the Filter Accept List

\* History, read by the properties and bounds only.
VARIABLES turns, mishaps

Steps == {"admin", "account", "nuki"}
Tasks == {"host", "router", "timer", "app"}
Modes == {"setup", "pairing", "filtered", "off"}
Event == [action: {"TIMEOUT", "IDLE_DROP", "RECLAIM"}, peer: Peers \cup {Nobody}]

nvs   == <<latch, admitted, bonds, done>>
phase == <<armed, conn>>
trust == <<allow, window, wtimer>>
tasks == <<host, admin, router, plan>>
air   == <<link, closing, adv, wl>>
vars  == <<nvs, phase, asked, trust, slots, events, tasks, air, turns, mishaps>>

\* "raced": completion or a re-arming gesture met a wipe, an erasure, a termination
\* or a claim under way.  "landed": a wizard step, a pairing or a connection came
\* after its part of the wipe.  "second": the end of a refused connection was taken
\* for the end of the first client's.  "unswitched": the window closed and advertising
\* was not restarted.  "late": advertising was started, or left on, in a mode that no
\* longer applies.  "torn": a reset in the middle of an eviction.  "untimed": the timer
\* of a new window was stopped by the admission that had closed the last one.
Mishap == Faults \cup {"raced", "landed", "second", "unswitched", "late", "torn", "untimed"}

\* Those that a restart of the device undoes.
Passing == {"late", "unswitched", "second", "untimed"}

TypeOK ==
  /\ latch \in BOOLEAN /\ admitted \subseteq Peers /\ bonds \subseteq Peers
  /\ done \subseteq Steps
  /\ armed \in BOOLEAN /\ conn \in Peers \cup {Nobody}
  /\ asked \in Steps \cup {"none"}
  /\ allow \subseteq Peers /\ window \in BOOLEAN /\ wtimer \in BOOLEAN
  /\ slots \subseteq Peers
  /\ events \in Seq(Event) /\ Len(events) <= QueueDepth
  /\ host \in [at: {"idle", "admit", "latch", "list", "rollback", "disarm",
                    "unbond", "unadmit", "persist"}, peer: Peers \cup {Nobody}]
  /\ admin \in {"idle", "rearm", "accounts", "admissions", "nuki", "cache", "emit", "restart"}
  /\ router \in {"idle", "silence"}
  /\ plan \in [Tasks -> (Modes \ {"off"}) \cup {"none"}]
  /\ link \in [Peers -> {"none", "plain", "secure"}] /\ closing \subseteq Peers
  /\ adv \in Modes /\ wl \subseteq Peers
  /\ turns \in 0..MaxTurns /\ mishaps \subseteq Mishap

HostIdle == [at |-> "idle", peer |-> Nobody]
AtWork(step, p) == [at |-> step, peer |-> p]
NoPlan   == [t \in Tasks |-> "none"]
NoLink   == [p \in Peers |-> "none"]

-----------------------------------------------------------------------------
(* Advertising.                                                            *)

MutantAlwaysOpen(w, complete, a) ==
  CASE w -> "pairing" [] ~complete -> "setup" [] OTHER -> "filtered"

\* sdf_ble_companion_select_advertising_mode
ModeFor(w, complete, a) ==
  CASE w              -> "pairing"
    [] ~w /\ complete -> "filtered"
    [] ~w /\ ~complete /\ a  -> "setup"
    [] ~w /\ ~complete /\ ~a -> "off"

Mode == ModeFor(window, latch, armed)

\* sdf_ble_companion_push_allow_list, of the list l: the controller refuses a new
\* Filter Accept List while it is in use.
Pushed(l) == IF adv = "filtered" THEN wl ELSE l

\* sdf_ble_companion_restart_advertising, as far as the choice of the mode; nothing
\* is started when it is "off".
Restarting(t, mode) ==
  /\ plan' = [plan EXCEPT ![t] = IF mode = "off" THEN "none" ELSE mode]
  /\ adv' = "off"

\* Its second half.  ble_gap_adv_start is refused while something advertises; what
\* another task started meanwhile then stays on.
StartAdvertising(t) ==
  LET on == IF adv = "off" THEN plan[t] ELSE adv IN
  /\ plan[t] # "none"
  /\ plan' = [plan EXCEPT ![t] = "none"]
  /\ adv' = on
  /\ wl' = IF plan[t] = "filtered" THEN Pushed(allow) ELSE wl
  /\ mishaps' = IF on = Mode THEN mishaps \ {"late", "unswitched"} ELSE mishaps \cup {"late"}
  /\ UNCHANGED <<nvs, phase, asked, trust, slots, events, host, admin, router, link, closing, turns>>

-----------------------------------------------------------------------------
(* What the actions share.                                                 *)

HostFree == host = HostIdle /\ plan["host"] = "none"
Room     == turns + Cardinality(mishaps \cap Faults) < MaxTurns
Turn     == Room /\ turns' = turns + 1
Fine     == UNCHANGED mishaps

\* One fault of the environment in a behaviour.
CanFail(f) == Room /\ f \in Faults /\ mishaps \cap Faults = {}
Fault(f)   == CanFail(f) /\ mishaps' = mishaps \cup {f}
Noted(bad, m) == mishaps' = IF bad THEN mishaps \cup {m} ELSE mishaps

\* sdf_setup_emit: the event is dropped when the queue stays full.
Emit(e, noted) ==
  \/ /\ Len(events) < QueueDepth /\ events' = Append(events, e)
     /\ mishaps' = mishaps \cup noted
  \/ /\ UNCHANGED events /\ CanFail("lost")
     /\ mishaps' = mishaps \cup noted \cup {"lost"}

Erasing    == admin \in {"accounts", "admissions", "nuki", "cache", "emit"}
WipeQueued == \E i \in DOMAIN events : events[i].action = "TIMEOUT"
Wiping     == Erasing \/ WipeQueued \/ router = "silence"
Completing == host.at \in {"admit", "latch", "list", "rollback", "disarm"}
Lapsed     == ~latch /\ ~armed

-----------------------------------------------------------------------------
(* Connections: sdf_ble_companion_gap_event, on the host task.             *)

\* A refused connection, capped or without the lock, has no slot and is terminated.
Refused(p) ==
  /\ \/ ~latch /\ slots # {} /\ Fine
     \/ Fault("lock")
  /\ closing' = closing \cup {p}
  /\ UNCHANGED <<slots, conn>>

Accepted(p) ==
  /\ latch \/ slots = {}
  /\ slots' = slots \cup {p}
  /\ conn' = IF ~latch /\ conn = Nobody THEN p ELSE conn
  /\ Noted(router = "silence", "landed")
  /\ UNCHANGED closing

\* The controller ends advertising when a client connects.
Connect(p) ==
  /\ HostFree /\ Turn
  /\ link[p] = "none"
  /\ adv \in {"setup", "pairing"} \/ (adv = "filtered" /\ p \in wl)
  /\ link' = [link EXCEPT ![p] = "plain"]
  /\ adv' = "off"
  /\ Refused(p) \/ Accepted(p)
  /\ UNCHANGED <<nvs, armed, asked, trust, events, tasks, wl>>

MutantForgetsNot(p) == conn

\* sdf_services_setup_phase_notify_disconnected does not look whose end it is.
Notified(p) == Nobody

\* The end of a connection, terminated or not.
Disconnect(p) ==
  /\ HostFree
  /\ link[p] # "none"
  /\ link' = [link EXCEPT ![p] = "none"]
  /\ closing' = closing \ {p} /\ slots' = slots \ {p}
  /\ conn' = Notified(p)
  /\ Noted(conn \notin {p, Nobody}, "second")
  /\ Restarting("host", Mode)
  /\ UNCHANGED <<nvs, armed, asked, trust, events, host, admin, router, wl, turns>>

\* ENC_CHANGE after pairing or with an old bond.  The first encryption in the window
\* closes it; a bond alone admits nobody.
Encrypt(p) ==
  /\ HostFree
  /\ link[p] = "plain"
  /\ link' = [link EXCEPT ![p] = "secure"]
  /\ bonds' = bonds \cup {p}
  /\ \/ /\ window
        /\ window' = FALSE /\ allow' = allow \cup {p}
        /\ host' = AtWork("persist", p)
        /\ Noted(adv = "pairing", "unswitched")
     \/ /\ IF window THEN Fault("lock") ELSE Noted(Lapsed, "landed")
        /\ UNCHANGED <<window, allow, host>>
  /\ UNCHANGED <<latch, admitted, done, phase, asked, wtimer, slots, events, admin, router,
                 plan, closing, adv, wl, turns>>

\* Advertising goes on as it is.
PersistAdmission ==
  /\ host.at = "persist"
  /\ \/ admitted' = admitted \cup {host.peer} /\ Noted(window, "untimed")
     \/ UNCHANGED admitted /\ Fault("storage")
  /\ wtimer' = FALSE /\ wl' = Pushed(allow)
  /\ host' = HostIdle
  /\ UNCHANGED <<latch, bonds, done, phase, asked, allow, window, slots, events, admin,
                 router, plan, link, closing, adv, turns>>

\* LOGIN_VERIFY failed for the last time: sdf_ble_companion_auth_access.
Evict(p) ==
  /\ HostFree /\ Turn
  /\ link[p] = "secure" /\ p \in slots
  /\ allow' = allow \ {p}
  /\ host' = AtWork("unbond", p)
  /\ UNCHANGED <<nvs, phase, asked, window, wtimer, slots, events, admin, router, plan, air>>
  /\ Fine

EvictBond ==
  /\ host.at = "unbond"
  /\ bonds' = bonds \ {host.peer}
  /\ host' = AtWork("unadmit", host.peer)
  /\ UNCHANGED <<latch, admitted, done, phase, asked, trust, slots, events, admin, router,
                 plan, air, turns>>
  /\ Fine

MutantKeepsRecord(p) == admitted

Unadmitted(p) == admitted \ {p}

EvictAdmission ==
  /\ host.at = "unadmit"
  /\ \/ admitted' = Unadmitted(host.peer) /\ Fine
     \/ UNCHANGED admitted /\ Fault("storage")
  /\ wl' = Pushed(allow)
  /\ closing' = closing \cup ({host.peer} \cap {p \in Peers : link[p] # "none"})
  /\ host' = HostIdle
  /\ UNCHANGED <<latch, bonds, done, phase, asked, trust, slots, events, admin, router,
                 plan, link, adv, turns>>

-----------------------------------------------------------------------------
(* The pairing window.                                                     *)

\* sdf_ble_companion_open_pairing_window, once an admin has approved it.  The gesture
\* that asks for it belongs to the setup phase while there is one.
OpenWindow ==
  /\ latch /\ ~armed /\ ~window /\ plan["app"] = "none" /\ Turn
  /\ window' = TRUE /\ wtimer' = TRUE
  /\ Restarting("app", ModeFor(TRUE, latch, armed))
  /\ UNCHANGED <<nvs, phase, asked, allow, slots, events, host, admin, router, link, closing, wl>>
  /\ Fine

MutantNoRestart(w) == UNCHANGED <<plan, adv>>

\* The restart is made when it was this callback that closed the window.
ClosedByTimer(open) ==
  IF open THEN Restarting("timer", ModeFor(FALSE, latch, armed)) ELSE UNCHANGED <<plan, adv>>

\* sdf_ble_companion_pairing_window_timer_cb
WindowTimeout ==
  /\ wtimer /\ plan["timer"] = "none"
  /\ wtimer' = FALSE
  /\ \/ window' = FALSE /\ ClosedByTimer(window) /\ Fine
     \/ Fault("lock") /\ UNCHANGED <<window, plan, adv>>
  /\ UNCHANGED <<nvs, phase, asked, allow, slots, events, host, admin, router, link, closing,
                 wl, turns>>

-----------------------------------------------------------------------------
(* The wizard, on a secure connection of the armed phase.                  *)

\* Enrolment is free while nobody is enrolled, registration waits for an admin,
\* the lock is paired at any time (um_admits, on_auth_request, on_setup_nuki_pair).
Askable(step) ==
  /\ step \notin done
  /\ step = "account" => "admin" \in done

WizardAsk(step) ==
  /\ HostFree /\ asked = "none"
  /\ armed /\ ~latch
  /\ \E p \in slots : link[p] = "secure"
  /\ Askable(step)
  /\ asked' = step
  /\ UNCHANGED <<nvs, phase, trust, slots, events, tasks, air, turns, mishaps>>

\* It ends, with or without success, when its own tasks are done with it.
WizardEnds ==
  /\ asked # "none"
  /\ \/ done' = done \cup {asked} /\ Noted(Wiping \/ Lapsed, "landed")
     \/ UNCHANGED done /\ Fine
  /\ asked' = "none"
  /\ UNCHANGED <<latch, admitted, bonds, phase, trust, slots, events, tasks, air, turns>>

-----------------------------------------------------------------------------
(* Completion: sdf_app_on_setup_complete, on the host task.  A completed   *)
(* device answers success and does nothing; an incomplete one names a step.*)

FinishSetup(p) ==
  /\ HostFree
  /\ link[p] = "secure" /\ p \in slots
  /\ ~latch /\ done = Steps
  /\ host' = AtWork("admit", p)
  /\ Noted(Wiping \/ admin = "restart" \/ p \in closing, "raced")
  /\ UNCHANGED <<nvs, phase, asked, trust, slots, events, admin, router, plan, air, turns>>

FinishAdmit ==
  /\ host.at = "admit"
  /\ \/ admitted' = admitted \cup {host.peer} /\ host' = AtWork("latch", host.peer) /\ Fine
     \/ host' = HostIdle /\ UNCHANGED admitted /\ Fault("storage")
  /\ UNCHANGED <<latch, bonds, done, phase, asked, trust, slots, events, admin, router, plan,
                 air, turns>>

FinishLatch ==
  /\ host.at = "latch"
  /\ \/ latch' = TRUE /\ host' = AtWork("list", host.peer) /\ Fine
     \/ host' = HostIdle /\ UNCHANGED latch /\ Fault("storage")
  /\ UNCHANGED <<admitted, bonds, done, phase, asked, trust, slots, events, admin, router,
                 plan, air, turns>>

\* sdf_ble_companion_admit_and_switch_to_filtered
FinishList ==
  /\ host.at = "list"
  /\ \/ /\ allow' = allow \cup {host.peer}
        /\ wl' = Pushed(allow')
        /\ Restarting("host", Mode)
        /\ host' = AtWork("disarm", host.peer) /\ Fine
     \/ /\ host' = AtWork("rollback", host.peer) /\ Fault("lock")
        /\ UNCHANGED <<allow, wl, adv, plan>>
  /\ UNCHANGED <<nvs, phase, asked, window, wtimer, slots, events, admin, router, link,
                 closing, turns>>

MutantKeepsLatch == latch

RolledBack == FALSE

FinishRollback ==
  /\ host.at = "rollback"
  /\ latch' = RolledBack
  /\ host' = HostIdle
  /\ UNCHANGED <<admitted, bonds, done, phase, asked, trust, slots, events, admin, router,
                 plan, air, turns, mishaps>>

\* sdf_services_setup_phase_disarm
FinishDisarm ==
  /\ host.at = "disarm" /\ plan["host"] = "none"
  /\ armed' = FALSE /\ conn' = Nobody
  /\ host' = HostIdle
  /\ UNCHANGED <<nvs, asked, trust, slots, events, admin, router, plan, air, turns, mishaps>>

-----------------------------------------------------------------------------
(* The admin task: gestures, the timer sweep and the timeout wipe.         *)

\* A press is the phase's own when sdf_services_setup_phase_owns_buttons says so; it
\* says so before arm_at runs.
Press ==
  /\ admin = "idle" /\ Turn
  /\ armed \/ ~latch
  /\ admin' = "rearm"
  /\ UNCHANGED <<nvs, phase, asked, trust, slots, events, host, router, plan, air, mishaps>>

\* sdf_services_setup_phase_button_reclaim
Rearm ==
  /\ admin = "rearm"
  /\ armed' = TRUE
  /\ admin' = "idle"
  /\ Emit([action |-> "RECLAIM", peer |-> conn], IF latch THEN {"raced"} ELSE {})
  /\ UNCHANGED <<nvs, conn, asked, trust, slots, host, router, plan, air, turns>>

\* The sweep finds the idle time of the connection gone.
IdleDrop ==
  /\ admin = "idle" /\ armed /\ conn # Nobody
  /\ conn' = Nobody
  /\ Emit([action |-> "IDLE_DROP", peer |-> conn], {})
  /\ UNCHANGED <<nvs, armed, asked, trust, slots, tasks, air, turns>>

\* The sweep finds the arm window or the deadline gone.
Expire ==
  /\ admin = "idle" /\ armed
  /\ admin' = "accounts"
  /\ Noted(Completing \/ latch, "raced")
  /\ UNCHANGED <<nvs, phase, asked, trust, slots, events, host, router, plan, air, turns>>

\* One erasure of sdf_services_setup_phase_timeout_wipe, between two stages.  A failure
\* is logged, and the wipe goes on.
Erases(from, to) == admin = from /\ admin' = to

WipeAccounts ==
  /\ Erases("accounts", "admissions")
  /\ \/ done' = done \ {"account"} /\ Fine
     \/ UNCHANGED done /\ Fault("storage")
  /\ UNCHANGED <<latch, admitted, bonds, phase, asked, trust, slots, events, host, router,
                 plan, air, turns>>

WipeAdmissions ==
  /\ Erases("admissions", "nuki")
  /\ \/ admitted' = {} /\ Fine
     \/ UNCHANGED admitted /\ Fault("storage")
  /\ UNCHANGED <<latch, bonds, done, phase, asked, trust, slots, events, host, router, plan,
                 air, turns>>

WipeNuki ==
  /\ Erases("nuki", "cache")
  /\ \/ done' = done \ {"nuki"} /\ Fine
     \/ UNCHANGED done /\ Fault("storage")
  /\ UNCHANGED <<latch, admitted, bonds, phase, asked, trust, slots, events, host, router,
                 plan, air, turns>>

\* sdf_services_reset_enrolled_user_cache and disarm
WipeCache ==
  /\ Erases("cache", "emit")
  /\ \/ done' = done \ {"admin"} /\ Fine
     \/ UNCHANGED done /\ Fault("lock")
  /\ armed' = FALSE /\ conn' = Nobody
  /\ UNCHANGED <<latch, admitted, bonds, asked, trust, slots, events, host, router, plan, air, turns>>

WipeEmit ==
  /\ Erases("emit", "idle")
  /\ Emit([action |-> "TIMEOUT", peer |-> Nobody], {})
  /\ UNCHANGED <<nvs, phase, asked, trust, slots, host, router, plan, air, turns>>

-----------------------------------------------------------------------------
(* The router: sdf_ble_companion_setup_phase_handler.                      *)

Next1(action) ==
  /\ router = "idle" /\ plan["router"] = "none"
  /\ events # <<>> /\ Head(events).action = action
  /\ events' = Tail(events)

\* Terminations that have been asked for; a link that is gone is left alone.
Terminated(ps) == closing' = closing \cup (ps \cap {p \in Peers : link[p] # "none"})

\* ble_store_clear may fail; the rest goes on.
OnTimeout ==
  /\ Next1("TIMEOUT")
  /\ \/ bonds' = {} /\ Fine
     \/ UNCHANGED bonds /\ Fault("storage")
  /\ Terminated(slots)
  /\ router' = "silence"
  /\ UNCHANGED <<latch, admitted, done, phase, asked, trust, slots, host, admin, plan, link,
                 adv, wl, turns>>

MutantStaysOnAir == adv

Silenced == "off"

\* ble_gap_adv_stop and sdf_ble_companion_bond_state_init
OnTimeoutSilence ==
  /\ router = "silence"
  /\ router' = "idle"
  /\ adv' = Silenced
  /\ \/ allow' = {} /\ window' = FALSE /\ Fine
     \/ UNCHANGED <<allow, window>> /\ Fault("lock")
  /\ UNCHANGED <<nvs, phase, asked, wtimer, slots, events, host, admin, plan, link, closing,
                 wl, turns>>

OnIdleDrop ==
  /\ Next1("IDLE_DROP")
  /\ Terminated({Head(events).peer})
  /\ UNCHANGED <<nvs, phase, asked, trust, slots, tasks, link, adv, wl, turns, mishaps>>

OnReclaim ==
  /\ Next1("RECLAIM")
  /\ Terminated(slots)
  /\ Restarting("router", Mode)
  /\ UNCHANGED <<nvs, phase, asked, trust, slots, host, admin, router, link, wl, turns, mishaps>>

-----------------------------------------------------------------------------
(* Factory reset and restart.                                              *)

\* The long press, on the admin task: FACTORY_RESET of sdf_app_on_admin_action.  The
\* partition is erased first and the restart comes seconds later.
FactoryReset ==
  /\ admin = "idle" /\ Turn
  /\ latch' = FALSE /\ admitted' = {} /\ bonds' = {} /\ done' = {}
  /\ admin' = "restart"
  /\ Noted(host.at # "idle", "raced")
  /\ UNCHANGED <<phase, asked, trust, slots, events, host, router, plan, air>>

\* sdf_ble_companion_seed_allow_list
Seeded(bonded, records) == bonded \cap records

\* sdf_services_setup_phase_boot_arm, and sdf_ble_companion_on_host_sync.
Boot ==
  /\ armed' = ~latch /\ conn' = Nobody /\ asked' = "none"
  /\ allow' = Seeded(bonds, admitted) /\ window' = FALSE /\ wtimer' = FALSE
  /\ slots' = {} /\ events' = <<>>
  /\ host' = HostIdle /\ admin' = "idle" /\ router' = "idle" /\ plan' = NoPlan
  /\ link' = NoLink /\ closing' = {}
  /\ adv' = ModeFor(FALSE, latch, ~latch)
  /\ wl' = IF latch THEN allow' ELSE {}
  /\ UNCHANGED nvs

\* What is over with a restart, and the eviction it cuts short.
AfterBoot == (mishaps \ Passing) \cup (IF host.at \in {"unbond", "unadmit"} THEN {"torn"} ELSE {})

FactoryRestart ==
  /\ admin = "restart"
  /\ Boot
  /\ mishaps' = AfterBoot
  /\ UNCHANGED turns

\* A crash, a watchdog or a power cut.
Reset ==
  /\ Turn
  /\ Boot
  /\ mishaps' = AfterBoot

-----------------------------------------------------------------------------

\* An unclaimed device at its first boot, or one that a companion has claimed.
Init ==
  /\ \/ latch = FALSE /\ bonds = {} /\ done = {}
     \/ latch = TRUE /\ done = Steps /\ \E p \in Peers : bonds = {p}
  /\ admitted = bonds
  /\ armed = ~latch /\ conn = Nobody /\ asked = "none"
  /\ allow = Seeded(bonds, admitted) /\ window = FALSE /\ wtimer = FALSE
  /\ slots = {} /\ events = <<>>
  /\ host = HostIdle /\ admin = "idle" /\ router = "idle" /\ plan = NoPlan
  /\ link = NoLink /\ closing = {}
  /\ adv = ModeFor(FALSE, latch, ~latch) /\ wl = IF latch THEN allow ELSE {}
  /\ turns = 0 /\ mishaps = {}

HostStep ==
  \/ PersistAdmission \/ EvictBond \/ EvictAdmission
  \/ FinishAdmit \/ FinishLatch \/ FinishList \/ FinishRollback \/ FinishDisarm

AdminStep ==
  \/ WipeAccounts \/ WipeAdmissions \/ WipeNuki \/ WipeCache \/ WipeEmit
  \/ Rearm \/ Expire \/ FactoryRestart

RouterStep == OnTimeout \/ OnTimeoutSilence \/ OnIdleDrop \/ OnReclaim

Next ==
  \/ \E p \in Peers : Connect(p) \/ Disconnect(p) \/ Encrypt(p) \/ Evict(p) \/ FinishSetup(p)
  \/ \E t \in Tasks : StartAdvertising(t)
  \/ OpenWindow \/ WindowTimeout
  \/ \E step \in Steps : WizardAsk(step)
  \/ WizardEnds
  \/ HostStep \/ AdminStep \/ RouterStep
  \/ Press \/ IdleDrop \/ FactoryReset \/ Reset

Spec == Init /\ [][Next]_vars

\* A task goes on with what it has begun, the admin task sweeps the timers and one of
\* them runs out, terminated links end.  Nobody has to connect, to press or to finish.
Fairness ==
  /\ WF_vars(HostStep) /\ WF_vars(AdminStep) /\ WF_vars(RouterStep)
  /\ WF_vars(WindowTimeout)
  /\ WF_vars(\E t \in Tasks : StartAdvertising(t))
  /\ WF_vars(\E p \in closing : Disconnect(p))

FairSpec == Spec /\ Fairness

-----------------------------------------------------------------------------
(* Properties.                                                             *)

\* No task is in the middle of anything and no termination is under way.
Rest == /\ HostFree /\ admin = "idle" /\ router = "idle" /\ plan = NoPlan
        /\ events = <<>> /\ closing = {}

\* A device that rests with its latch set is claimed as a whole: the phase is over,
\* every wizard step has its result, and a companion holds both an admission record
\* and a bond.  So does one whose completion failed half-way, for then the latch is
\* taken back (sdf_app_on_setup_complete).  The completion that meets a timeout wipe is
\* the exception ("raced"); an eviction may leave no companion.
ClaimWhole ==
  Rest /\ latch /\ "raced" \notin mishaps => ~armed /\ done = Steps

\* Whom the device trusts before a reset it trusts after it, and nobody else: the
\* allow list in RAM is what sdf_ble_companion_seed_allow_list would make of the
\* records, and no admission outlives its bond to trust the peer when it bonds again.
RebootKeepsTrust ==
  Rest /\ mishaps \cap (Faults \cup {"torn", "raced"}) = {}
    => allow = admitted /\ admitted \subseteq bonds

\* A resting device advertises in the mode that applies, or not at all while a client
\* is connected; and filtered advertising lets in nobody but the allow-listed, and of
\* these all that are not connected already.  Taking back the completion of a phase that
\* had lapsed ("landed", then "lock") leaves advertising as it was.
AdvertisesAsMeant ==
  Rest /\ mishaps \cap {"late", "unswitched", "lost", "raced"} = {}
       /\ ~({"landed", "lock"} \subseteq mishaps)
    => /\ adv = Mode \/ (adv = "off" /\ slots # {})
       /\ adv = "filtered" => wl \subseteq allow /\ allow \ wl \subseteq slots

\* The idle timer watches the client that holds the one setup connection.
IdleCovered ==
  Rest /\ armed /\ mishaps \cap {"second", "lost", "raced"} = {} => slots \subseteq {conn}

\* A lapsed phase has left nothing: no record, no bond, no result, and no advertising.
LapsedClean ==
  Rest /\ Lapsed /\ mishaps \cap (Faults \cup {"landed", "raced", "late"}) = {}
    => /\ done = {} /\ admitted = {} /\ bonds = {} /\ allow = {}
       /\ adv = "off" /\ slots = {}

\* When the last press, connection and reset have passed, the device is not open to
\* strangers for ever, whatever the wipe fails at: "a sensor fault must not leave the
\* device advertising openly forever".
OpennessEnds ==
  <>[](adv \in {"setup", "pairing"} =>
         mishaps \cap {"late", "unswitched", "untimed", "lost", "lock"} # {})

\* "Completion SHALL take effect as a whole or not at all": no exception is made.
ClaimedAsAWhole == Rest /\ latch => ~armed /\ done = Steps
=============================================================================
