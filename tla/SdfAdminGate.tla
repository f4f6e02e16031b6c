---------------------------- MODULE SdfAdminGate ----------------------------
(***************************************************************************)
(* The admin-fingerprint gate (sdf_services.c, sdf_services_admin.c) and   *)
(* the companion requests that pass through it (sdf_app.c).                *)
(*                                                                         *)
(* One pending admin action waits for one admin scan.  Five tasks share    *)
(* it: the BLE host task receives requests, the app task arms them and     *)
(* answers what was denied or timed out, the match task claims, executes   *)
(* and answers what a scan authorized, the admin task arms the button's    *)
(* action and sweeps timeouts, the enroll task runs the enrolment that an  *)
(* authorized action starts.  Each action below is one section under the   *)
(* services lock, one blocking call, or one access to the app's unlocked   *)
(* bookkeeping; the tasks interleave between any two.                      *)
(*                                                                         *)
(* A request comes from its own connection and is made once; a connection  *)
(* admits one request at a time (um_in_flight).                            *)
(***************************************************************************)
EXTENDS Integers, Sequences, FiniteSets

CONSTANTS
  Requests,      \* companion requests that may arrive
  Users,         \* user ids
  Asked,         \* bound: the actions the requests ask for
  Erasable,      \* bound: the users that Zigbee commands delete
  QueueDepth,    \* bound: room for these events in the router and app queues
  None           \* no user, no request

UmAction == {"DELETE_USER", "REMOTE_ENROLL", "RENAME_USER"}
Askable  == UmAction \cup {"CHANGE_PERMISSION", "ENROLL_ADMIN"}
Action   == Askable \cup {"BLE_PAIRING_WINDOW"}
Role     == {"user", "admin"}
Outcome  == {"ok", "not_found", "id_occupied", "last_admin", "name_taken",
             "busy", "denied", "timeout", "failed"}

ASSUME GateAssumption ==
  /\ Asked \subseteq Askable /\ Erasable \subseteq Users
  /\ QueueDepth \in Nat \ {0}
  /\ None \notin Users /\ None \notin Requests

VARIABLES
  role,        \* enrolled users and their permission
  pending,     \* pending_admin_action
  target,      \* pending_admin_action_user_id, _permission: never cleared
  permChange,  \* the permission_change_* fields
  doneSem,     \* admin_action_done_sem is given
  umResult,    \* the um_action_result slot
  enrol,       \* the enrolment state machine and enrollment_request_pending
  startEvent,  \* an ENROLLMENT_START event on its way to the enroll task
  hold         \* the sensor is held powered (fp_set_keep_power_on)

VARIABLES
  match,       \* where the match task is with the action it claimed
  sweep,       \* where the admin task is with the action it timed out
  enroller,    \* where the enroll task is with a finished enrolment
  host,        \* an Enroll-Admin request between its two steps on the host task
  app,         \* where the app task is with a request or a completion
  zigbee,      \* the deletion the Zigbee task has begun
  slot,        \* s_um_request: the hand-off from the host to the app task
  queue,       \* UM_REQUEST and ADMIN_ACTION_COMPLETE on their way to it
  gate,        \* s_um_pending_gate: the request awaiting its scan
  ble,         \* s_ble_admin_action_*: the Enroll-Admin request awaiting it
  req          \* the companion requests and their replies

\* History, read by the properties only.
VARIABLES
  armedBy,     \* the request whose action is pending
  mishaps      \* what went wrong so far, of Mishap

\* An event lost at the full app queue; a section skipped for a missed services
\* lock; a hold taken for an action that is no longer pending; an enrolment that
\* the end of another one reset; a scan that found no note of who is to be answered,
\* or another request's; an admin lost while another task had decided, but not made,
\* a deletion or a demotion; a user lost while his change was to be answered.
Mishap == {"lost", "lockMissed", "lateHold", "lateNote", "clobbered", "overlap",
           "erased"}

gateVars == <<pending, target, armedBy>>
permVars == <<permChange, doneSem>>
enrolVars == <<enrol, startEvent>>
tasks == <<match, sweep, enroller, host, app, zigbee>>
appVars == <<slot, queue, gate, ble, req>>
vars == <<role, gateVars, permVars, umResult, enrolVars, hold, tasks, appVars,
          mishaps>>

Idle == [at |-> "idle"]
Enrolled == DOMAIN role
Admins == {u \in Enrolled : role[u] = "admin"}

\* admin_count <= 1 and u is one.
MutantOneTooFew(u) == u \in Admins /\ Cardinality(Admins) < 1
LastAdmin(u) == Admins = {u}

\* One admin action, permission change or enrolment at a time.
Busy == pending # "NONE" \/ permChange.open \/ enrol.at # "idle"

-----------------------------------------------------------------------------
(* Operators the actions share.                                            *)

\* sdf_ble_companion_reply_*: a terminal reply to r.
Replied(r, o) == [req EXCEPT ![r].replies = Append(@, o)]

MutantForgetsRename(a, u, p, r) ==
  /\ pending' = a
  /\ target' = IF a \in UmAction \ {"RENAME_USER"} THEN [user |-> u, perm |-> p]
               ELSE target
  /\ armedBy' = r
Arm(a, u, p, r) ==
  /\ pending' = a
  /\ target' = IF a \in UmAction THEN [user |-> u, perm |-> p] ELSE target
  /\ armedBy' = r

Disarm == pending' = "NONE" /\ armedBy' = None /\ UNCHANGED target

RecordResult(o) == umResult' = [valid |-> TRUE, outcome |-> o]

\* sdf_services_take_um_action_result, a given result is consumed; there may be
\* none, or the lock is missed and it stays.
TakeResult(have) ==
  /\ have => umResult.valid
  /\ umResult' = [umResult EXCEPT !.valid = @ /\ ~have]

Mishandled(m) == mishaps' = mishaps \cup {m}

\* A deletion, on the sensor, in the cache and in NVS.
Remove(u) == role' = [v \in Enrolled \ {u} |-> role[v]]

\* The admins whose deletion or demotion is decided and not made yet.
Doomed ==
  {u \in Admins : \/ zigbee.at = "erase" /\ zigbee.user = u
                  \/ match.at = "erase" /\ match.user = u
                  \/ /\ app.at = "arm" /\ req[app.req].perm = "user"
                     /\ req[app.req].user = u
                  \/ /\ permChange.open /\ permChange.perm = "user"
                     /\ permChange.user = u}

\* An admin goes while another is to go as well.
Overlaps(u) == u \in Admins /\ Doomed \ {u} # {}

NoteOverlap(u) == IF Overlaps(u) THEN Mishandled("overlap") ELSE UNCHANGED mishaps

\* sdf_event_router_emit, then the app's trampoline: the emitter of an
\* ADMIN_ACTION_COMPLETE does not look at the result.
Post(m) ==
  \/ Len(queue) < QueueDepth /\ queue' = Append(queue, m) /\ UNCHANGED mishaps
  \/ Len(queue) = QueueDepth /\ Mishandled("lost") /\ UNCHANGED queue

Closed(result) ==
  [open |-> FALSE, user |-> None, perm |-> "user", result |-> result]

\* sdf_services_complete_permission_change, its section under the lock; the
\* semaphore is given after it, and not at all when the lock is missed.
CompletePermission(result, given, notGiven) ==
  \/ /\ permChange.open
     /\ permChange' = Closed(result)
     /\ given /\ UNCHANGED mishaps
  \/ ~permChange.open /\ notGiven /\ UNCHANGED <<permChange, mishaps>>
  \/ Mishandled("lockMissed") /\ notGiven /\ UNCHANGED permChange

-----------------------------------------------------------------------------
(* Host task: requests arrive over BLE.                                    *)

Open(r, a, u, p) ==
  [req EXCEPT ![r] = [action |-> a, user |-> u, perm |-> p, replies |-> <<>>]]

SlotFree == slot = None

\* The permissions a request may name; a deletion and a rename name none.
Named(a) == IF a \in {"REMOTE_ENROLL", "CHANGE_PERMISSION"} THEN Role ELSE {"user"}

\* sdf_ble_companion_on_um_request: hand over through the one slot, or answer
\* busy.  A full app queue loses the event after the router took it.
HostRequest(r) ==
  /\ host = None /\ req[r].action = "NONE"
  /\ \E a \in Asked \ {"ENROLL_ADMIN"}, u \in Users : \E p \in Named(a) :
       LET arrived == Open(r, a, u, p)
           refused == [arrived EXCEPT ![r].replies = <<"busy">>]
       IN \/ /\ ~SlotFree
             /\ req' = refused
             /\ UNCHANGED <<slot, queue, mishaps>>
          \/ /\ SlotFree /\ slot' = r
             /\ req' = arrived
             /\ Post([type |-> "UM_REQUEST"])
          \/ /\ SlotFree /\ Len(queue) = QueueDepth
             /\ req' = refused
             /\ UNCHANGED <<slot, queue, mishaps>>
  /\ UNCHANGED <<role, gateVars, permVars, umResult, enrolVars, hold, tasks,
                 gate, ble>>

\* sdf_app_on_ble_admin_action_request: note the requester first ...
HostNoteAdminAction(r) ==
  /\ host = None /\ req[r].action = "NONE" /\ "ENROLL_ADMIN" \in Asked
  /\ req' = Open(r, "ENROLL_ADMIN", None, "admin")
  /\ host' = r
  /\ ble' = [open |-> TRUE, req |-> r]
  /\ UNCHANGED <<role, gateVars, permVars, umResult, enrolVars, hold, match,
                 sweep, enroller, app, zigbee, slot, queue, gate, mishaps>>

\* ... then sdf_services_request_admin_action, which arms or refuses: busy, or
\* the lock is missed.
HostArmAdminAction ==
  /\ host # None
  /\ \/ /\ ~Busy
        /\ Arm("ENROLL_ADMIN", None, "admin", host)
        /\ doneSem' = FALSE
        /\ UNCHANGED <<ble, req>>
     \/ /\ ble' = [ble EXCEPT !.open = FALSE]
        /\ req' = Replied(host, "denied")
        /\ UNCHANGED <<gateVars, doneSem>>
  /\ host' = None
  /\ UNCHANGED <<role, permChange, umResult, enrolVars, hold, match, sweep,
                 enroller, app, zigbee, slot, queue, gate, mishaps>>

-----------------------------------------------------------------------------
(* App task: user-management requests.                                     *)

\* The task takes the request off the slot.
Processing(r) ==
  /\ app = Idle
  /\ queue # <<>> /\ Head(queue).type = "UM_REQUEST"
  /\ slot = r /\ r # None
  /\ queue' = Tail(queue) /\ slot' = None

\* sdf_services_um_remote_guards_locked and the rename's own guards.
RemoteGuard(a, u) ==
  CASE Busy                                        -> "busy"
    [] ~Busy /\ a = "REMOTE_ENROLL" /\ u \in Enrolled    -> "id_occupied"
    [] ~Busy /\ a # "REMOTE_ENROLL" /\ u \notin Enrolled -> "not_found"
    [] ~Busy /\ a = "DELETE_USER" /\ LastAdmin(u)        -> "last_admin"
    [] OTHER                                       -> "ok"

\* sdf_services_request_delete_user, _remote_enrollment, _rename_user.
AppArm(r) ==
  /\ Processing(r) /\ req[r].action \in UmAction
  /\ RemoteGuard(req[r].action, req[r].user) = "ok"
  /\ Arm(req[r].action, req[r].user, req[r].perm, r)
  /\ app' = [at |-> IF req[r].action = "REMOTE_ENROLL" THEN "hold" ELSE "gate",
             req |-> r]
  /\ UNCHANGED <<role, permVars, umResult, enrolVars, hold, match, sweep,
                 enroller, host, zigbee, gate, ble, req, mishaps>>

\* A request that the guards refuse, whose lock is missed or whose name is
\* taken is answered at once and arms nothing.
AppRefuse(r) ==
  /\ Processing(r) /\ req[r].action \in UmAction
  /\ LET g == RemoteGuard(req[r].action, req[r].user)
         taken == IF g = "ok" /\ req[r].action = "RENAME_USER"
                  THEN {"name_taken"} ELSE {}
     IN \E o \in ({g} \ {"ok"}) \cup taken \cup {"failed"} :
          req' = Replied(r, o)
  /\ UNCHANGED <<role, gateVars, permVars, umResult, enrolVars, hold, tasks,
                 gate, ble, mishaps>>

\* The power hold, taken after the arming and outside the lock ...
AppHold ==
  /\ app.at = "hold"
  /\ hold' = TRUE
  /\ app' = [app EXCEPT !.at = "gate"]
  /\ IF armedBy = app.req THEN UNCHANGED mishaps ELSE Mishandled("lateHold")
  /\ UNCHANGED <<role, gateVars, permVars, umResult, enrolVars, match, sweep,
                 enroller, host, zigbee, appVars>>

\* ... and only then the note of who is to be answered.
AppGate ==
  /\ app.at = "gate"
  /\ gate' = [open |-> TRUE, req |-> app.req]
  /\ app' = Idle
  /\ UNCHANGED <<role, gateVars, permVars, umResult, enrolVars, hold, match,
                 sweep, enroller, host, zigbee, slot, queue, ble, req, mishaps>>

\* sdf_services_change_user_permission: first section and user query.  The
\* last-admin guard is decided here, before the scan, from this snapshot.
AppPermission(r) ==
  LET u == req[r].user
      answer == CASE Busy -> "busy"
                  [] ~Busy /\ u \notin Enrolled -> "not_found"
                  [] ~Busy /\ u \in Enrolled /\ role[u] = req[r].perm -> "ok"
                  [] ~Busy /\ LastAdmin(u) /\ req[r].perm # "admin" -> "last_admin"
                  [] OTHER -> "arm"
  IN /\ Processing(r) /\ req[r].action = "CHANGE_PERMISSION"
     /\ \/ /\ answer = "arm"
           /\ app' = [at |-> "arm", req |-> r]
           /\ UNCHANGED req
        \/ \E o \in {answer, "failed"} \ {"arm"} :
             req' = Replied(r, o) /\ UNCHANGED app
     /\ UNCHANGED <<role, gateVars, permVars, umResult, enrolVars, hold, match,
                    sweep, enroller, host, zigbee, gate, ble, mishaps>>

\* The change that r asks for; until it is completed its result is a timeout.
MutantStaleResult(r) ==
  [permChange EXCEPT !.open = TRUE, !.user = req[r].user, !.perm = req[r].perm]
NewChange(r) ==
  [open |-> TRUE, user |-> req[r].user, perm |-> req[r].perm,
   result |-> "timeout"]

\* Second section: re-check that nothing else began, drain the semaphore, arm.
AppArmPermission ==
  /\ app.at = "arm"
  /\ \/ /\ ~Busy
        /\ Arm("CHANGE_PERMISSION", None, "admin", app.req)
        /\ permChange' = NewChange(app.req)
        /\ doneSem' = FALSE
        /\ app' = [app EXCEPT !.at = "wait"]
        /\ UNCHANGED req
     \/ /\ Busy
        /\ req' = Replied(app.req, "busy")
        /\ app' = Idle
        /\ UNCHANGED <<gateVars, permVars>>
  /\ UNCHANGED <<role, umResult, enrolVars, hold, match, sweep, enroller, host,
                 zigbee, slot, queue, gate, ble, mishaps>>

\* The sliced wait of 15 s ends with the semaphore ...
AppWake ==
  /\ app.at = "wait" /\ doneSem
  /\ doneSem' = FALSE
  /\ app' = [app EXCEPT !.at = "woken"]
  /\ UNCHANGED <<role, gateVars, permChange, umResult, enrolVars, hold, match,
                 sweep, enroller, host, zigbee, appVars, mishaps>>

\* ... and reads the result under the lock, or fails when it misses it ...
AppAnswerPermission ==
  /\ app.at = "woken"
  /\ \E o \in {permChange.result, "failed"} : req' = Replied(app.req, o)
  /\ app' = Idle
  /\ UNCHANGED <<role, gateVars, permVars, umResult, enrolVars, hold, match,
                 sweep, enroller, host, zigbee, slot, queue, gate, ble,
                 mishaps>>

\* ... or without it, which takes longer than the 10 s after which the admin
\* task has cleared the action if no scan claimed it.
MutantWaitsForever == FALSE
WaitOver == ~doneSem /\ pending # "CHANGE_PERMISSION"

AppGiveUp ==
  /\ app.at = "wait" /\ WaitOver
  /\ req' = Replied(app.req, "timeout")
  /\ app' = Idle
  /\ UNCHANGED <<role, gateVars, permVars, umResult, enrolVars, hold, match,
                 sweep, enroller, host, zigbee, slot, queue, gate, ble,
                 mishaps>>

-----------------------------------------------------------------------------
(* App task: denied and timed-out actions.                                 *)

\* sdf_services_ble_admin_action_should_resolve_on_action_complete.
MutantDeletionsOnly == {"DELETE_USER", "ENROLL_ADMIN"}
Resolving == {"DELETE_USER", "REMOTE_ENROLL", "ENROLL_ADMIN"}

\* sdf_app_on_admin_action_complete up to the taking of the result.
AppComplete ==
  /\ app = Idle
  /\ queue # <<>> /\ Head(queue).type = "COMPLETE"
  /\ queue' = Tail(queue)
  /\ LET a == Head(queue).action
     IN /\ IF ble.open /\ a = "ENROLL_ADMIN"
           THEN /\ ble' = [ble EXCEPT !.open = FALSE]
                /\ req' = Replied(ble.req, "denied")
           ELSE UNCHANGED <<ble, req>>
        /\ IF gate.open /\ a \in Resolving
           THEN \E have \in BOOLEAN :
                  /\ TakeResult(have)
                  /\ app' = [at |-> "resolve", outcome |->
                               IF have THEN umResult.outcome ELSE "denied"]
           ELSE UNCHANGED <<umResult, app>>
  /\ UNCHANGED <<role, gateVars, permVars, enrolVars, hold, match, sweep,
                 enroller, host, zigbee, slot, gate, mishaps>>

AppResolve ==
  /\ app.at = "resolve"
  /\ gate' = [gate EXCEPT !.open = FALSE]
  /\ req' = Replied(gate.req, app.outcome)
  /\ app' = Idle
  /\ UNCHANGED <<role, gateVars, permVars, umResult, enrolVars, hold, match,
                 sweep, enroller, host, zigbee, slot, queue, ble, mishaps>>

-----------------------------------------------------------------------------
(* Match task: a finger on the sensor meets a pending action.              *)

\* A match cycle scans only while no enrolment is requested or active.
Scans == match = Idle /\ enrol.at = "idle"

\* sdf_services_try_claim_admin_action, admin finger.
ClaimByAdmin ==
  /\ Scans /\ pending # "NONE" /\ Admins # {}
  /\ match' = IF pending = "BLE_PAIRING_WINDOW" THEN Idle
              ELSE [at |-> IF pending = "ENROLL_ADMIN" THEN "local" ELSE "target",
                    action |-> pending, by |-> armedBy, user |-> None,
                    perm |-> "user", outcome |-> "failed"]
  /\ Disarm
  /\ UNCHANGED <<role, permVars, umResult, enrolVars, hold, sweep, enroller,
                 host, app, zigbee, appVars, mishaps>>

\* Another finger: a remote action resolves as denied, and so does a
\* permission change; any other action stays pending.
DenyRemote ==
  /\ Scans /\ pending \in UmAction /\ Enrolled # Admins
  /\ RecordResult("denied")
  /\ match' = [at |-> "release", action |-> pending]
  /\ Disarm
  /\ UNCHANGED <<role, permVars, enrolVars, hold, sweep, enroller, host, app,
                 zigbee, appVars, mishaps>>

DenyPermission ==
  /\ Scans /\ pending = "CHANGE_PERMISSION" /\ permChange.open
  /\ Enrolled # Admins
  /\ permChange' = Closed("denied")
  /\ match' = [at |-> "give"]
  /\ Disarm
  /\ UNCHANGED <<role, doneSem, umResult, enrolVars, hold, sweep, enroller,
                 host, app, zigbee, appVars, mishaps>>

MatchRelease ==
  /\ match.at = "release"
  /\ hold' = FALSE
  /\ match' = [match EXCEPT !.at = "post"]
  /\ UNCHANGED <<role, gateVars, permVars, umResult, enrolVars, sweep, enroller,
                 host, app, zigbee, appVars, mishaps>>

MatchPost ==
  /\ match.at = "post"
  /\ Post([type |-> "COMPLETE", action |-> match.action])
  /\ match' = Idle
  /\ UNCHANGED <<role, gateVars, permVars, umResult, enrolVars, hold, sweep,
                 enroller, host, app, zigbee, slot, gate, ble, req>>

-----------------------------------------------------------------------------
(* Match task: sdf_services_execute_admin_action.                          *)

\* A second section under the lock reads what the action is about.
MatchReadTarget ==
  /\ match.at = "target"
  /\ LET t == IF match.action = "CHANGE_PERMISSION" THEN permChange ELSE target
     IN match' = [match EXCEPT !.at = "run", !.user = t.user, !.perm = t.perm]
  /\ UNCHANGED <<role, gateVars, permVars, umResult, enrolVars, hold, sweep,
                 enroller, host, app, zigbee, appVars, mishaps>>

\* The lock could not be had: no user is read (and none found), a remote
\* enrolment fails, a permission change completes as timed out.
MatchMissTarget ==
  /\ match.at = "target"
  /\ match' = CASE match.action = "REMOTE_ENROLL" -> [match EXCEPT !.at = "record"]
                [] match.action = "CHANGE_PERMISSION" ->
                     [match EXCEPT !.at = "complete", !.outcome = "timeout"]
                [] OTHER -> [match EXCEPT !.at = "run"]
  /\ Mishandled("lockMissed")
  /\ UNCHANGED <<role, gateVars, permVars, umResult, enrolVars, hold, sweep,
                 enroller, host, app, zigbee, appVars>>

Finished(o) == match' = [match EXCEPT !.at = "record", !.outcome = o]

\* sdf_services_delete_user: the guards are evaluated again, on a snapshot ...
MatchDelete ==
  /\ match.at = "run" /\ match.action = "DELETE_USER"
  /\ IF match.user \in Enrolled /\ ~LastAdmin(match.user)
     THEN match' = [match EXCEPT !.at = "erase"]
     ELSE Finished(IF match.user \notin Enrolled THEN "not_found"
                   ELSE "last_admin")
  /\ UNCHANGED <<role, gateVars, permVars, umResult, enrolVars, hold, sweep,
                 enroller, host, app, zigbee, appVars, mishaps>>

\* ... and the user goes after the round trip to the sensor, or stays when the
\* sensor or NVS fails.
MatchErase ==
  /\ match.at = "erase"
  /\ \/ /\ Remove(match.user)
        /\ NoteOverlap(match.user)
        /\ Finished("ok")
     \/ UNCHANGED <<role, mishaps>> /\ Finished("failed")
  /\ UNCHANGED <<gateVars, permVars, umResult, enrolVars, hold, sweep, enroller,
                 host, app, zigbee, appVars>>

\* sdf_services_set_user_name: the names themselves are not modelled.
MatchRename ==
  /\ match.at = "run" /\ match.action = "RENAME_USER"
  /\ \E o \in IF match.user \in Enrolled THEN {"ok", "name_taken", "failed"}
              ELSE {"not_found"} : Finished(o)
  /\ UNCHANGED <<role, gateVars, permVars, umResult, enrolVars, hold, sweep,
                 enroller, host, app, zigbee, appVars, mishaps>>

\* Only now does the state machine of a remote enrolment start, unless it is
\* active already or the lock is missed.
MatchStartEnrol ==
  /\ match.at = "run" /\ match.action = "REMOTE_ENROLL"
  /\ \/ /\ enrol.at # "active"
        /\ enrol' = [at |-> "active", user |-> match.user, perm |-> match.perm]
        /\ match' = [match EXCEPT !.at = "hold", !.outcome = "ok"]
     \/ /\ match' = [match EXCEPT !.at = "hold", !.outcome = "failed"]
        /\ UNCHANGED enrol
  /\ UNCHANGED <<role, gateVars, permVars, umResult, startEvent, hold, sweep,
                 enroller, host, app, zigbee, appVars, mishaps>>

\* The hold is kept when the enrolment started and released when it did not.
MutantHoldsAnyway(o) == TRUE
Holds(o) == o = "ok"

MatchHold ==
  /\ match.at = "hold"
  /\ hold' = Holds(match.outcome)
  /\ match' = [match EXCEPT !.at = "record"]
  /\ UNCHANGED <<role, gateVars, permVars, umResult, enrolVars, sweep, enroller,
                 host, app, zigbee, appVars, mishaps>>

\* Enroll-Admin: sdf_services_request_enrollment for the first free id, then
\* the callback that answers the requester, whether or not it was accepted.
MatchRequestEnrol ==
  /\ match.at = "local"
  /\ \/ \E u \in Users \ Enrolled :
          /\ enrol.at = "idle"
          /\ enrol' = [at |-> "requested", user |-> u, perm |-> "admin"]
          /\ match' = [match EXCEPT !.at = "start"]
     \/ /\ match' = [match EXCEPT !.at = "answer"]
        /\ UNCHANGED enrol
  /\ UNCHANGED <<role, gateVars, permVars, umResult, startEvent, hold, sweep,
                 enroller, host, app, zigbee, appVars, mishaps>>

MatchHoldEnrol ==
  /\ match.at = "start"
  /\ hold' = TRUE
  /\ match' = [match EXCEPT !.at = "emit"]
  /\ UNCHANGED <<role, gateVars, permVars, umResult, enrolVars, sweep, enroller,
                 host, app, zigbee, appVars, mishaps>>

\* The event reaches the enroll task, is refused by the router, or is dropped
\* at the enroll task's full queue.
MatchEmitEnrol ==
  /\ match.at = "emit"
  /\ \/ /\ startEvent' = [user |-> enrol.user, perm |-> enrol.perm]
        /\ UNCHANGED <<enrol, hold>>
     \/ /\ enrol' = IF enrol.at = "requested" THEN [enrol EXCEPT !.at = "idle"]
                    ELSE enrol
        /\ hold' = FALSE
        /\ UNCHANGED startEvent
     \/ UNCHANGED <<enrolVars, hold>>
  /\ match' = [match EXCEPT !.at = "answer"]
  /\ UNCHANGED <<role, gateVars, permVars, umResult, sweep, enroller, host, app,
                 zigbee, appVars, mishaps>>

MatchAnswerAdminAction ==
  /\ match.at = "answer"
  /\ IF ble.open
     THEN ble' = [ble EXCEPT !.open = FALSE] /\ req' = Replied(ble.req, "ok")
     ELSE UNCHANGED <<ble, req>>
  /\ match' = Idle
  /\ UNCHANGED <<role, gateVars, permVars, umResult, enrolVars, hold, sweep,
                 enroller, host, app, zigbee, slot, queue, gate, mishaps>>

\* The permission change on the sensor, in the cache and in NVS.
MatchPermission ==
  /\ match.at = "run" /\ match.action = "CHANGE_PERMISSION"
  /\ \/ /\ match.user \in Enrolled
        /\ role' = [role EXCEPT ![match.user] = match.perm]
        /\ IF match.perm = "user" THEN NoteOverlap(match.user) ELSE UNCHANGED mishaps
        /\ match' = [match EXCEPT !.at = "complete", !.outcome = "ok"]
     \/ /\ UNCHANGED <<role, mishaps>>
        /\ match' = [match EXCEPT !.at = "complete"]
  /\ UNCHANGED <<gateVars, permVars, umResult, enrolVars, hold, sweep, enroller,
                 host, app, zigbee, appVars>>

MatchComplete ==
  /\ match.at = "complete"
  /\ CompletePermission(match.outcome, match' = [at |-> "give"], match' = Idle)
  /\ UNCHANGED <<role, gateVars, doneSem, umResult, enrolVars, hold, sweep,
                 enroller, host, app, zigbee, appVars>>

MatchGive ==
  /\ match.at = "give"
  /\ doneSem' = TRUE
  /\ match' = Idle
  /\ UNCHANGED <<role, gateVars, permChange, umResult, enrolVars, hold, sweep,
                 enroller, host, app, zigbee, appVars, mishaps>>

\* sdf_services_record_um_result, lost when the lock is missed.
MatchRecord ==
  /\ match.at = "record"
  /\ \/ RecordResult(match.outcome) /\ UNCHANGED mishaps
     \/ Mishandled("lockMissed") /\ UNCHANGED umResult
  /\ match' = [match EXCEPT !.at = "callback"]
  /\ UNCHANGED <<role, gateVars, permVars, enrolVars, hold, sweep, enroller,
                 host, app, zigbee, appVars>>

\* sdf_app_on_admin_action: take the result, then answer whom the gate names.
MatchCallback ==
  /\ match.at = "callback"
  /\ IF gate.open
     THEN \E have \in BOOLEAN :
            /\ TakeResult(have)
            /\ match' = [match EXCEPT !.at = "resolve", !.outcome =
                            IF have THEN umResult.outcome ELSE "failed"]
     ELSE match' = Idle /\ UNCHANGED umResult
  /\ IF gate.open /\ gate.req = match.by THEN UNCHANGED mishaps
     ELSE Mishandled("lateNote")
  /\ UNCHANGED <<role, gateVars, permVars, enrolVars, hold, sweep, enroller,
                 host, app, zigbee, appVars>>

MatchResolve ==
  /\ match.at = "resolve"
  /\ gate' = [gate EXCEPT !.open = FALSE]
  /\ req' = Replied(gate.req, match.outcome)
  /\ match' = Idle
  /\ UNCHANGED <<role, gateVars, permVars, umResult, enrolVars, hold, sweep,
                 enroller, host, app, zigbee, slot, queue, ble, mishaps>>

-----------------------------------------------------------------------------
(* Zigbee task: a deletion needs no finger (sdf_app_on_zigbee_command).    *)

\* sdf_services_delete_user decides from its snapshot, whatever is pending ...
ZigbeeDelete(u) ==
  /\ zigbee = Idle
  /\ u \in Enrolled /\ ~LastAdmin(u)
  /\ zigbee' = [at |-> "erase", user |-> u]
  /\ UNCHANGED <<role, gateVars, permVars, umResult, enrolVars, hold, match,
                 sweep, enroller, host, app, appVars, mishaps>>

\* The user of a permission change that is still to be answered.
BeingChanged(u) == app.at \in {"arm", "wait", "woken"} /\ req[app.req].user = u

\* ... and removes the user after the round trip to the sensor, or fails.
ZigbeeErase ==
  /\ zigbee.at = "erase"
  /\ \/ /\ Remove(zigbee.user)
        /\ mishaps' = mishaps \cup (IF Overlaps(zigbee.user) THEN {"overlap"} ELSE {})
                              \cup (IF BeingChanged(zigbee.user) THEN {"erased"} ELSE {})
     \/ UNCHANGED <<role, mishaps>>
  /\ zigbee' = Idle
  /\ UNCHANGED <<gateVars, permVars, umResult, enrolVars, hold, match, sweep,
                 enroller, host, app, appVars>>

-----------------------------------------------------------------------------
(* Admin task: the button and the 10 s timeout.                            *)

\* sdf_services_dispatch_admin_action asks for no more than an empty gate.
ButtonDispatch ==
  /\ sweep = Idle /\ pending = "NONE"
  /\ Arm("BLE_PAIRING_WINDOW", None, "admin", None)
  /\ UNCHANGED <<role, permVars, umResult, enrolVars, hold, tasks, appVars, mishaps>>

\* Every arming notes when it began.
MutantUntimedChange == pending \notin {"NONE", "CHANGE_PERMISSION"}
Timed == pending # "NONE"

\* Ten seconds are long: by then an arming or an answer under way is finished.
\* What the match task had claimed before need not be.
Sweep ==
  /\ sweep = Idle /\ Timed
  /\ host = None /\ app.at \notin {"hold", "gate", "resolve"}
  /\ IF pending \in UmAction THEN RecordResult("timeout") ELSE UNCHANGED umResult
  /\ sweep' = [at |-> "release", action |-> pending]
  /\ Disarm
  /\ UNCHANGED <<role, permVars, enrolVars, hold, match, enroller, host, app,
                 zigbee, appVars, mishaps>>

AfterRelease(a) == IF a = "CHANGE_PERMISSION" THEN "complete" ELSE "post"

\* The hold is released whatever the action was.
SweepRelease ==
  /\ sweep.at = "release"
  /\ hold' = FALSE
  /\ sweep' = [sweep EXCEPT !.at = AfterRelease(sweep.action)]
  /\ UNCHANGED <<role, gateVars, permVars, umResult, enrolVars, match, enroller,
                 host, app, zigbee, appVars, mishaps>>

SweepComplete ==
  /\ sweep.at = "complete"
  /\ CompletePermission("timeout", sweep' = [sweep EXCEPT !.at = "give"],
                                   sweep' = [sweep EXCEPT !.at = "post"])
  /\ UNCHANGED <<role, gateVars, doneSem, umResult, enrolVars, hold, match,
                 enroller, host, app, zigbee, appVars>>

SweepGive ==
  /\ sweep.at = "give"
  /\ doneSem' = TRUE
  /\ sweep' = [sweep EXCEPT !.at = "post"]
  /\ UNCHANGED <<role, gateVars, permChange, umResult, enrolVars, hold, match,
                 enroller, host, app, zigbee, appVars, mishaps>>

SweepPost ==
  /\ sweep.at = "post"
  /\ Post([type |-> "COMPLETE", action |-> sweep.action])
  /\ sweep' = Idle
  /\ UNCHANGED <<role, gateVars, permVars, umResult, enrolVars, hold, match,
                 enroller, host, app, zigbee, slot, gate, ble, req>>

-----------------------------------------------------------------------------
(* Enroll task.                                                            *)

\* ENROLLMENT_START initialises the machine, starts it and holds the power.
EnrolStart ==
  /\ enroller = Idle /\ startEvent # None
  /\ enrol' = [at |-> "active", user |-> startEvent.user, perm |-> startEvent.perm]
  /\ startEvent' = None
  /\ hold' = TRUE
  /\ UNCHANGED <<role, gateVars, permVars, umResult, tasks, appVars, mishaps>>

\* The third scan, or a failure: the machine is no longer active ...  A remote
\* enrolment's first step is kicked only after its power hold, and its scans
\* outlast an arming under way.  The sensor stores no template under an id that has one.
EnrolEnd ==
  /\ enroller = Idle /\ enrol.at = "active"
  /\ match.at = "hold" => match.outcome # "ok"
  /\ app.at \notin {"hold", "gate"}
  /\ \E stored \in {FALSE, enrol.user \notin Enrolled} :
       enroller' = [at |-> "end", stored |-> stored, user |-> enrol.user,
                    perm |-> enrol.perm]
  /\ enrol' = [enrol EXCEPT !.at = "idle"]
  /\ UNCHANGED <<role, gateVars, permVars, umResult, startEvent, hold, match,
                 sweep, host, app, zigbee, appVars, mishaps>>

\* ... and a later section resets it, releases the hold and enters the user.
EnrolReset ==
  /\ enroller.at = "end"
  /\ enrol' = IF enrol.at = "active" THEN [enrol EXCEPT !.at = "idle"] ELSE enrol
  /\ hold' = FALSE
  /\ role' = IF enroller.stored
             THEN [u \in Enrolled \cup {enroller.user} |->
                     IF u = enroller.user THEN enroller.perm ELSE role[u]]
             ELSE role
  /\ enroller' = Idle
  /\ IF enrol.at = "active" THEN Mishandled("clobbered") ELSE UNCHANGED mishaps
  /\ UNCHANGED <<gateVars, permVars, umResult, startEvent, match, sweep, host,
                 app, zigbee, appVars>>

-----------------------------------------------------------------------------
(* The specification.                                                      *)

NoRequest == [action |-> "NONE", user |-> None, perm |-> "user", replies |-> <<>>]

\* Some users are enrolled, an admin among them.
Init ==
  /\ \E E \in SUBSET Users : role \in [E -> Role]
  /\ Admins # {}
  /\ pending = "NONE" /\ target = [user |-> None, perm |-> "user"]
  /\ permChange = [open |-> FALSE, user |-> None, perm |-> "user", result |-> "ok"]
  /\ doneSem = FALSE
  /\ umResult = [valid |-> FALSE, outcome |-> "ok"]
  /\ enrol = [at |-> "idle", user |-> None, perm |-> "user"] /\ startEvent = None
  /\ hold = FALSE
  /\ match = Idle /\ sweep = Idle /\ enroller = Idle /\ host = None /\ app = Idle
  /\ zigbee = Idle
  /\ slot = None /\ queue = <<>>
  /\ gate = [open |-> FALSE, req |-> None] /\ ble = [open |-> FALSE, req |-> None]
  /\ req = [r \in Requests |-> NoRequest]
  /\ armedBy = None /\ mishaps = {}

HostStep ==
  \/ \E r \in Requests : HostRequest(r) \/ HostNoteAdminAction(r)
  \/ HostArmAdminAction

AppStep ==
  \/ \E r \in Requests : AppArm(r) \/ AppRefuse(r) \/ AppPermission(r)
  \/ AppHold \/ AppGate \/ AppArmPermission \/ AppWake \/ AppAnswerPermission
  \/ AppGiveUp \/ AppComplete \/ AppResolve

Scanned == ClaimByAdmin \/ DenyRemote \/ DenyPermission

MatchStep ==
  \/ MatchRelease \/ MatchPost \/ MatchReadTarget \/ MatchMissTarget
  \/ MatchDelete \/ MatchErase \/ MatchRename
  \/ MatchStartEnrol \/ MatchHold \/ MatchRequestEnrol \/ MatchHoldEnrol
  \/ MatchEmitEnrol \/ MatchAnswerAdminAction \/ MatchPermission
  \/ MatchComplete \/ MatchGive \/ MatchRecord \/ MatchCallback \/ MatchResolve

SweepStep ==
  Sweep \/ SweepRelease \/ SweepComplete \/ SweepGive \/ SweepPost

EnrolStep == EnrolStart \/ EnrolEnd \/ EnrolReset

ZigbeeStep == ZigbeeErase \/ \E u \in Erasable : ZigbeeDelete(u)

Next ==
  HostStep \/ AppStep \/ Scanned \/ MatchStep \/ ButtonDispatch \/ SweepStep
  \/ EnrolStep \/ ZigbeeStep

Spec == Init /\ [][Next]_vars

(***************************************************************************)
(* Every task runs: the host task finishes what it began, the app, match,  *)
(* admin and enroll tasks take their next step.  Nobody has to put a       *)
(* finger on the sensor, make a request or press the button.               *)
(***************************************************************************)
FairSpec ==
  /\ Spec
  /\ WF_vars(HostArmAdminAction) /\ WF_vars(AppStep) /\ WF_vars(MatchStep)
  /\ WF_vars(SweepStep) /\ WF_vars(EnrolStep)

-----------------------------------------------------------------------------
(* Properties.                                                             *)

Maybe(S) == S \cup {None}
Noted == [open : BOOLEAN, req : Maybe(Requests)]
Claimed ==
  [at : {"target", "run", "erase", "hold", "record", "callback", "resolve", "complete",
         "local", "start", "emit", "answer"},
   action : Askable, by : Maybe(Requests), user : Maybe(Users), perm : Role,
   outcome : Outcome]
Message == [type : {"UM_REQUEST"}] \cup [type : {"COMPLETE"}, action : Action]
RequestOf ==
  [action : Askable \cup {"NONE"}, user : Maybe(Users), perm : Role, replies : Seq(Outcome)]

\* Where each task can be, with the locals it carries there.
TaskOK ==
  /\ match \in {Idle, [at |-> "give"]} \cup [at : {"release", "post"}, action : UmAction]
               \cup Claimed
  /\ sweep \in {Idle} \cup [at : {"release", "complete", "give", "post"}, action : Action]
  /\ enroller \in {Idle} \cup [at : {"end"}, stored : BOOLEAN, user : Users, perm : Role]
  /\ app \in {Idle} \cup [at : {"hold", "gate", "arm", "wait", "woken"}, req : Requests]
             \cup [at : {"resolve"}, outcome : Outcome]
  /\ host \in Maybe(Requests)
  /\ zigbee \in {Idle} \cup [at : {"erase"}, user : Users]

TypeOK ==
  /\ Enrolled \subseteq Users /\ \A u \in Enrolled : role[u] \in Role
  /\ pending \in Action \cup {"NONE"} /\ armedBy \in Maybe(Requests)
  /\ target \in [user : Maybe(Users), perm : Role]
  /\ permChange \in [open : BOOLEAN, user : Maybe(Users), perm : Role,
                     result : Outcome]
  /\ doneSem \in BOOLEAN
  /\ umResult \in [valid : BOOLEAN, outcome : Outcome]
  /\ enrol \in [at : {"idle", "requested", "active"}, user : Maybe(Users),
                perm : Role]
  /\ startEvent \in Maybe([user : Users, perm : Role])
  /\ hold \in BOOLEAN /\ mishaps \subseteq Mishap
  /\ TaskOK
  /\ slot \in Maybe(Requests) /\ gate \in Noted /\ ble \in Noted
  /\ queue \in Seq(Message) /\ Len(queue) <= QueueDepth
  /\ req \in [Requests -> RequestOf]

Answered(r) == req[r].replies # <<>>
Executing(r) == match.at \in {"run", "erase", "hold", "record"} /\ match.by = r

\* The reply to a permission change tells the truth: "ok" only when the user
\* has the permission asked for, unless a Zigbee command deleted him meanwhile,
\* "denied" only when it is not being executed (a semaphore given late must not
\* answer with an older change's result).
PermissionReplyTrue ==
  [][\A r \in Requests :
       LET u == req[r].user
           new == req'[r].replies
       IN (req[r].action = "CHANGE_PERMISSION" /\ new # req[r].replies) =>
            /\ new[Len(new)] = "ok" =>
                 (u \in Enrolled /\ role[u] = req[r].perm) \/ "erased" \in mishaps
            /\ new[Len(new)] = "denied" => ~Executing(r)]_vars

\* An admin remains through every deletion and demotion, authorized or sent over
\* Zigbee, although each is decided before a scan or a round trip to the sensor and
\* made after it.  The last one goes in one way only: an admin is deleted or
\* demoted on one task while another has decided to delete or demote another admin
\* and has not done so yet.
AdminRemains == Admins # {} \/ "overlap" \in mishaps

\* While a remote action is pending, the target fields are those of the request
\* that armed it, whatever the button and Enroll-Admin did in between.
TargetIsArmed ==
  pending \in UmAction =>
    /\ armedBy # None
    /\ target.user = req[armedBy].user /\ target.perm = req[armedBy].perm

\* Once nothing is under way the sensor is powered down: every terminal path
\* releases the hold.  There are three ways to miss one, and no other: the hold
\* is taken late, for an action already resolved; the end of an enrolment resets
\* the next one; a section that releases it is skipped for a missed lock.
HoldEnds ==
  (/\ ~Busy /\ match = Idle /\ sweep = Idle /\ enroller = Idle /\ app = Idle
   /\ startEvent = None /\ mishaps \cap {"lateHold", "clobbered", "lockMissed"} = {})
     => ~hold

\* An ended action leaves nobody waiting: whoever is noted for an answer gets it from
\* the scan or from the end of the action, whichever task that falls to.  The
\* exceptions: an event or a lock that was missed, a note made when the action was
\* over, and a rename, which the predicate of the app task leaves out.
GateResolved ==
  (/\ pending = "NONE" /\ match = Idle /\ sweep = Idle /\ app = Idle
   /\ queue = <<>> /\ mishaps \cap {"lost", "lockMissed", "lateNote"} = {}) =>
    ~gate.open \/ req[gate.req].action = "RENAME_USER"

\* The gate frees itself, with or without a finger.
GateFrees == pending # "NONE" ~> pending = "NONE"

\* A request for a permission change is answered, unless the app queue lost it.
PermissionAnswered ==
  \A r \in Requests :
    req[r].action = "CHANGE_PERMISSION" ~> (Answered(r) \/ "lost" \in mishaps)

-----------------------------------------------------------------------------
(* Statements of the documentation that the code does not keep.            *)

\* sdf-services-tasks: the last-admin guard "protects the single
\* admin-fingerprint gate".  A demotion is guarded before its scan only, so a
\* deletion claimed earlier can take away the admin the guard had counted.
LastAdminKept == Admins # {}
=============================================================================
