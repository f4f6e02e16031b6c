-------------------------- MODULE SdfEnrolledUsers --------------------------
(***************************************************************************)
(* The enrolled users in their three copies - templates on the sensor, the *)
(* cache in RAM, the record in NVS - and what changes them: the enroll     *)
(* task with its three-step state machine (sdf_services_enroll.c,          *)
(* sdf_state_machines.c), the match task executing gated actions, the      *)
(* Zigbee task obeying programming commands, which no gate guards, and the *)
(* app task with the first enrolment of a setup (sdf_services.c, sdf_app.c)*)
(*                                                                         *)
(* Every sensor operation is a step of its own, outside the services lock, *)
(* and every change of the cache is made and written to NVS in one section *)
(* under it.  A reset may fall between any two steps, and between the two  *)
(* NVS keys of one write.                                                  *)
(***************************************************************************)
EXTENDS Integers, Sequences, FiniteSets

CONSTANTS
  Users,         \* user ids
  MaxRetries,    \* max_retries_step1 and _step2 of the retry policy
  QueueDepth,    \* events that fit the router's queue, and the enroll task's
  Faults,        \* bound: the kinds of fault explored, of Fault
  MaxMishaps,    \* bound: a fault is injected after fewer mishaps than this
  MaxBoots,      \* bound: boots explored
  MaxChanges,    \* bound: changes of users begun
  None           \* no user

\* A failing NVS write, a record that a boot cannot read, a sensor reply lost after
\* the operation, a services lock missed.
Fault == {"write", "read", "reply", "lock"}

ASSUME UsersAssumption ==
  /\ MaxRetries \in Nat /\ QueueDepth \in Nat \ {0}
  /\ Faults \subseteq Fault /\ MaxMishaps \in Nat /\ MaxBoots \in Nat
  /\ MaxChanges \in Nat
  /\ None \notin Users

Granted    == {"user", "admin"}
Permission == Granted \cup {"none"}

VARIABLES
  sensor,     \* the templates on the sensor and their permissions
  cache,      \* enrolled_user_bmp, enrolled_perm_packed
  nvs,        \* the two NVS keys they are saved to
  sm,         \* the enrolment state machine; step 0 when it is not active
  request,    \* enrollment_request_pending with request_user_id, _permission
  routed,     \* the event router's queue: events for the enroll task
  inbox,      \* the enroll task's queue
  timer,      \* the retry timer is armed
  enroller,   \* where the enroll task is with a step
  editor      \* where the match, the Zigbee and the app task are with a change

\* History, read by the properties only.
VARIABLES
  mishaps,    \* what went wrong in this boot, of Mishap
  boots,      \* boots so far
  changes     \* changes of users begun so far

\* The faults, and: an event lost at a full queue; a rollback that failed; a
\* reset; a template changed between another task's sensor operation and its
\* record, erased when its user is not on record, or stored when it is; the state
\* machine reset under a new enrolment.
Mishap == Fault \cup {"queue", "rollback", "reset", "overlap"}

record   == <<cache, nvs>>
queues   == <<routed, inbox>>
bounds   == <<boots, changes>>
vars == <<sensor, record, sm, request, queues, timer, enroller, editor, mishaps, bounds>>

Editor == {"match", "zigbee", "app"}
Idle   == [at |-> "idle"]
Inert  == [step |-> 0, user |-> None, perm |-> "none", retries |-> 0]
NoRequest == [user |-> None, perm |-> "none"]

Active  == sm.step # 0
Enrolled == cache.bmp
Admins  == {u \in cache.bmp : cache.perm[u] = "admin"}

\* The guard of sdf_services_delete_user and sdf_services_change_user_permission.
LastAdmin(u) == Admins = {u}

Blank == [bmp |-> {}, perm |-> [u \in Users |-> "none"]]

\* One more change, within the bound.
Begun == changes < MaxChanges /\ changes' = changes + 1

Mishandled(m) == mishaps' = mishaps \cup {m}

\* A fault of this kind may happen now.
May(f) == f \in Faults /\ Cardinality(mishaps) < MaxMishaps
Missed == May("lock") /\ Mishandled("lock")
Fine   == UNCHANGED mishaps

-----------------------------------------------------------------------------
(* Saving the cache.                                                       *)

\* What a save of c leaves of the record when it stops between the two keys.
Torn(c) == [nvs EXCEPT !.bmp = c.bmp]

\* sdf_services_persist_enrolled_users_locked succeeds ...
Persisted(c) == cache' = c /\ nvs' = c

\* ... or fails three times, at the first key, the second or the commit, and
\* the caller takes its change back.
PersistFailed(c, back) ==
  /\ May("write") /\ Mishandled("write")
  /\ cache' = back
  /\ nvs' \in {nvs, Torn(c), c}

With(u, p)  == [bmp |-> cache.bmp \cup {u}, perm |-> [cache.perm EXCEPT ![u] = p]]
Without(u)  == [cache EXCEPT !.bmp = @ \ {u}]
Changed(u, p) == [cache EXCEPT !.perm[u] = p]

\* Taking back an enrolment clears the bit and leaves the permission.
MutantKeepsBit(u, p) == With(u, p)
Undone(u, p) == [With(u, p) EXCEPT !.bmp = @ \ {u}]

-----------------------------------------------------------------------------
(* The sensor.                                                             *)

Templates == DOMAIN sensor
StoreTemplate(u, p) == sensor' = [v \in Templates \cup {u} |-> IF v = u THEN p ELSE sensor[v]]
EraseTemplates(S)   == sensor' = [v \in Templates \ S |-> sensor[v]]

\* The enroll task has stored a template and not recorded it.
Stored ==
  \/ enroller.at \in {"commit", "rollback"}
  \/ enroller.at = "apply" /\ enroller.step = 3 /\ enroller.result = "OK"

\* Users a task has changed on the sensor and not yet on record.
Unrecorded ==
  {u \in Users :
     (Stored /\ enroller.user = u)
       \/ (\E t \in Editor : editor[t].at \in {"forget", "note"} /\ editor[t].user = u)
       \/ editor["zigbee"].at = "zero"}
Clash(S) == S \cap Unrecorded # {}
Overlapping(clash) == IF clash THEN Mishandled("overlap") ELSE Fine

\* An operation with this effect, that clashes with another task's or not: it
\* succeeds, it fails without effect, or it has its effect and the reply is lost.
MutantIgnoresFailure(clash, effect, succeeded, failed) ==
  (effect \/ UNCHANGED sensor) /\ succeeded /\ Overlapping(clash)
Operate(clash, effect, succeeded, failed) ==
  \/ effect /\ succeeded /\ Overlapping(clash)
  \/ UNCHANGED sensor /\ failed /\ Fine
  \/ May("reply") /\ effect /\ failed /\ Mishandled("reply")

-----------------------------------------------------------------------------
(* Requests for an enrolment, of the Zigbee task, the app task and the     *)
(* match task (an authorized Enroll-Admin).                                *)

Goto(t, stage) == editor' = [editor EXCEPT ![t] = stage]

CanRequest == request = NoRequest /\ ~Active

\* sdf_services_request_enrollment: its first section.
Ask(t) ==
  /\ editor[t].at = "ask"
  /\ LET u == editor[t].user
         p == editor[t].perm
     IN \/ /\ u \notin Enrolled /\ CanRequest
           /\ request' = [user |-> u, perm |-> p]
           /\ Goto(t, [editor[t] EXCEPT !.at = "emit"])
           /\ Fine
        \/ /\ u \in Enrolled \/ ~CanRequest
           /\ Goto(t, Idle) /\ UNCHANGED request /\ Fine
        \/ Missed /\ Goto(t, Idle) /\ UNCHANGED request
  /\ UNCHANGED <<sensor, record, sm, queues, timer, enroller, bounds>>

StartEvent(e) == [type |-> "START", user |-> e.user, perm |-> e.perm]

\* An event emitted to the router: refused at a full queue.
Emitted(e) == Len(routed) < QueueDepth /\ routed' = Append(routed, e)
Refused    == Len(routed) = QueueDepth /\ UNCHANGED routed /\ Mishandled("queue")

\* The ENROLLMENT_START event, outside the lock.  When it is refused the request
\* is withdrawn, if the lock is had for that.
EmitStart(t) ==
  /\ editor[t].at = "emit"
  /\ \/ Emitted(StartEvent(editor[t])) /\ UNCHANGED request /\ Fine
     \/ Refused /\ request' \in {request, NoRequest}
  /\ Goto(t, Idle)
  /\ UNCHANGED <<sensor, record, sm, inbox, timer, enroller, bounds>>

-----------------------------------------------------------------------------
(* Deletions, by either task.                                              *)

\* sdf_services_delete_user: the guards, decided from a snapshot ...
DeleteCheck(t) ==
  /\ editor[t].at = "delete"
  /\ LET u == editor[t].user
     IN \/ u \in Enrolled /\ ~LastAdmin(u) /\ Goto(t, [editor[t] EXCEPT !.at = "erase"]) /\ Fine
        \/ (u \notin Enrolled \/ LastAdmin(u)) /\ Goto(t, Idle) /\ Fine
        \/ Missed /\ Goto(t, Idle)
  /\ UNCHANGED <<sensor, record, sm, request, queues, timer, enroller,
                 bounds>>

\* ... the sensor, without the lock ...
DeleteErase(t) ==
  /\ editor[t].at = "erase"
  /\ LET u == editor[t].user
     IN Operate(Clash({u}) \/ u \notin Enrolled, EraseTemplates({u}),
                Goto(t, [editor[t] EXCEPT !.at = "forget"]), Goto(t, Idle))
  /\ UNCHANGED <<record, sm, request, queues, timer, enroller, bounds>>

\* ... and the cache with its record.  A failed write puts the bit back.
DeleteForget(t) ==
  /\ editor[t].at = "forget"
  /\ LET u == editor[t].user
     IN \/ Persisted(Without(u)) /\ Fine
        \/ PersistFailed(Without(u), [cache EXCEPT !.bmp = @ \cup {u}])
        \/ Missed /\ UNCHANGED record
  /\ Goto(t, Idle)
  /\ UNCHANGED <<sensor, sm, request, queues, timer, enroller, bounds>>

-----------------------------------------------------------------------------
(* Zigbee task: programming commands.  App task: the enrolment of the first *)
(* user, in the setup phase.  Neither waits for a scan.                    *)

SetupBegin ==
  /\ Begun
  /\ editor["app"] = Idle /\ Enrolled = {}
  /\ \E u \in Users, p \in Granted : Goto("app", [at |-> "ask", user |-> u, perm |-> p])
  /\ UNCHANGED <<sensor, record, sm, request, queues, timer, enroller,
                 mishaps, boots>>

ZigbeeBegin ==
  /\ Begun
  /\ editor["zigbee"] = Idle
  /\ \/ \E u \in Users : Goto("zigbee", [at |-> "delete", user |-> u])
     \/ \E u \in Users, p \in Granted : Goto("zigbee", [at |-> "ask", user |-> u, perm |-> p])
     \/ Goto("zigbee", [at |-> "clear"])
  /\ UNCHANGED <<sensor, record, sm, request, queues, timer, enroller,
                 mishaps, boots>>

\* sdf_services_clear_all_users: the sensor first ...
ZigbeeClear ==
  /\ editor["zigbee"].at = "clear"
  /\ Operate(Clash(Users), EraseTemplates(Users), Goto("zigbee", [at |-> "zero"]),
             Goto("zigbee", Idle))
  /\ UNCHANGED <<record, sm, request, queues, timer, enroller, bounds>>

\* ... and the cache with its record, all users at once.
ZigbeeZero ==
  /\ editor["zigbee"].at = "zero"
  /\ \/ Persisted(Blank) /\ Fine
     \/ PersistFailed(Blank, cache)
     \/ Missed /\ UNCHANGED record
  /\ Goto("zigbee", Idle)
  /\ UNCHANGED <<sensor, sm, request, queues, timer, enroller, bounds>>

-----------------------------------------------------------------------------
(* Match task: actions a scan has authorized (SdfAdminGate has the gate).  *)

\* An action is armed, with the guards of its request function.
MatchArm ==
  /\ Begun
  /\ editor["match"] = Idle /\ CanRequest
  /\ \E u \in Users, p \in Granted :
       \/ /\ u \in Enrolled /\ ~LastAdmin(u)
          /\ Goto("match", [at |-> "armed", op |-> "delete", user |-> u])
       \/ /\ u \in Enrolled /\ cache.perm[u] # p /\ ~LastAdmin(u)
          /\ Goto("match", [at |-> "armed", op |-> "change", user |-> u, perm |-> p])
       \/ /\ u \notin Enrolled
          /\ Goto("match", [at |-> "armed", op |-> "remote", user |-> u, perm |-> p])
       \/ Goto("match", [at |-> "armed", op |-> "local"])
  /\ UNCHANGED <<sensor, record, sm, request, queues, timer, enroller,
                 mishaps, boots>>

\* A match cycle scans only while there is no enrolment.  An admin finger
\* claims the action; another one denies it, or the admin task expires it.
MatchClaim ==
  /\ editor["match"].at = "armed"
  /\ \/ CanRequest /\ Goto("match", [editor["match"] EXCEPT !.at = editor["match"].op])
     \/ Goto("match", Idle)
  /\ UNCHANGED <<sensor, record, sm, request, queues, timer, enroller,
                 mishaps, bounds>>

\* CHANGE_PERMISSION: the sensor first ...
MatchChange ==
  /\ editor["match"].at = "change"
  /\ LET u == editor["match"].user
     IN Operate(Clash({u}), u \in Templates /\ StoreTemplate(u, editor["match"].perm),
                Goto("match", [editor["match"] EXCEPT !.at = "note"]),
                Goto("match", Idle))
  /\ UNCHANGED <<record, sm, request, queues, timer, enroller, bounds>>

\* ... and the cache with its record.
MatchNote ==
  /\ editor["match"].at = "note"
  /\ LET u == editor["match"].user
         c == Changed(u, editor["match"].perm)
     IN \/ Persisted(c) /\ Fine
        \/ PersistFailed(c, cache)
        \/ Missed /\ UNCHANGED record
  /\ Goto("match", Idle)
  /\ UNCHANGED <<sensor, sm, request, queues, timer, enroller, bounds>>

Started(e) == [step |-> 1, user |-> e.user, perm |-> e.perm, retries |-> 0]

\* sdf_enrollment_sm_start refuses while an enrolment is active.
MutantNotRefused == TRUE
CanStart == ~Active

\* REMOTE_ENROLL: start the state machine; the guard that the id is free is
\* that of the arming.
MatchRemote ==
  /\ editor["match"].at = "remote"
  /\ \/ /\ CanStart
        /\ sm' = Started(editor["match"])
        /\ request' = NoRequest
        /\ Goto("match", [editor["match"] EXCEPT !.at = "kick"])
        /\ Fine
     \/ ~CanStart /\ Goto("match", Idle) /\ UNCHANGED <<sm, request>> /\ Fine
     \/ Missed /\ Goto("match", Idle) /\ UNCHANGED <<sm, request>>
  /\ UNCHANGED <<sensor, record, queues, timer, enroller, bounds>>

\* An event put into the enroll task's queue, or lost when that is full.
Send(e) ==
  \/ Len(inbox) < QueueDepth /\ inbox' = Append(inbox, e) /\ Fine
  \/ Len(inbox) = QueueDepth /\ UNCHANGED inbox /\ Mishandled("queue")

MutantNoKick == UNCHANGED inbox /\ Fine
RunStepSoon == Send([type |-> "STEP"])

\* ... and wake the enroll task, which no event tells of it.
MatchKick ==
  /\ editor["match"].at = "kick"
  /\ RunStepSoon
  /\ Goto("match", Idle)
  /\ UNCHANGED <<sensor, record, sm, request, routed, timer, enroller, bounds>>

\* ENROLL_ADMIN: the first free id, from a snapshot.
MatchLocal ==
  /\ editor["match"].at = "local"
  /\ \/ \E u \in Users \ Enrolled :
          Goto("match", [at |-> "ask", user |-> u, perm |-> "admin"])
     \/ Goto("match", Idle)
  /\ UNCHANGED <<sensor, record, sm, request, queues, timer, enroller,
                 mishaps, bounds>>

-----------------------------------------------------------------------------
(* Enroll task.                                                            *)

\* It takes an event off its queue.  A START overrides whatever was pending or
\* active, if the lock is had.
EnrolTake ==
  /\ enroller = Idle /\ inbox # <<>>
  /\ inbox' = Tail(inbox) /\ UNCHANGED routed
  /\ LET e == Head(inbox)
     IN \/ /\ e.type = "START"
           /\ \/ request' = [user |-> e.user, perm |-> e.perm] /\ sm' = Inert /\ Fine
              \/ Missed /\ UNCHANGED <<request, sm>>
           /\ enroller' = [at |-> "begin"]
        \/ /\ e.type = "STEP"
           /\ enroller' = [at |-> "step"]
           /\ UNCHANGED <<request, sm, mishaps>>
  /\ UNCHANGED <<sensor, record, timer, editor, bounds>>

\* The router dispatches an event to the enroll task's queue, which loses it
\* unnoticed when it is full.
Dispatch ==
  /\ routed # <<>> /\ routed' = Tail(routed)
  /\ Send(Head(routed))
  /\ UNCHANGED <<sensor, record, sm, request, timer, enroller, editor,
                 bounds>>

\* sdf_services_start_pending_enrollment_if_any.
EnrolBegin ==
  /\ enroller.at = "begin"
  /\ \/ /\ request # NoRequest /\ CanStart
        /\ sm' = Started(request) /\ request' = NoRequest
        /\ Fine
     \/ (request = NoRequest \/ ~CanStart) /\ UNCHANGED <<sm, request>> /\ Fine
     \/ Missed /\ UNCHANGED <<sm, request>>
  /\ enroller' = [at |-> "step"]
  /\ UNCHANGED <<sensor, record, queues, timer, editor, bounds>>

\* sdf_services_run_enrollment_step: the snapshot of the state machine ...
EnrolSnapshot ==
  /\ enroller.at = "step"
  /\ \/ /\ Active
        /\ enroller' = [at |-> "scan", step |-> sm.step, user |-> sm.user, perm |-> sm.perm]
        /\ Fine
     \/ ~Active /\ enroller' = Idle /\ Fine
     \/ Missed /\ enroller' = Idle
  /\ UNCHANGED <<sensor, record, sm, request, queues, timer, editor,
                 bounds>>

Scanned(r) == enroller' = [at |-> "apply", step |-> enroller.step,
                           user |-> enroller.user, perm |-> enroller.perm,
                           result |-> r]

\* ... the capture on the sensor; the third one stores the template under an id
\* that has none ...
EnrolScan ==
  /\ enroller.at = "scan"
  /\ \/ enroller.step < 3 /\ UNCHANGED sensor /\ Scanned("OK") /\ Fine
     \/ enroller.step = 3 /\ enroller.user \notin Templates
        /\ StoreTemplate(enroller.user, enroller.perm)
        /\ \/ /\ Scanned("OK")
              /\ Overlapping(Clash({enroller.user}) \/ enroller.user \in Enrolled)
           \/ May("reply") /\ Scanned("ERROR") /\ Mishandled("reply")
     \/ UNCHANGED sensor /\ Fine /\ \E r \in {"FAILED", "ERROR"} : Scanned(r)
  /\ UNCHANGED <<record, sm, request, queues, timer, editor, bounds>>

Retriable == enroller.result = "FAILED" /\ sm.step # 3 /\ sm.retries < MaxRetries

\* sdf_services_schedule_enrollment_step.
MutantNotScheduled == UNCHANGED timer
RunStepLater == timer' = TRUE

\* ... and its result, applied to the state machine as it is now
\* (sdf_enrollment_sm_apply_step_result_ex), with what follows: arm the timer
\* for the next capture or a retry, or complete, or fail.
EnrolApply ==
  /\ enroller.at = "apply"
  /\ \/ /\ Active /\ enroller.result = "OK" /\ sm.step < 3
        /\ sm' = [sm EXCEPT !.step = @ + 1, !.retries = 0]
        /\ RunStepLater /\ enroller' = Idle /\ Fine
     \/ /\ Active /\ Retriable
        /\ sm' = [sm EXCEPT !.retries = @ + 1]
        /\ RunStepLater /\ enroller' = Idle /\ Fine
     \/ /\ Active /\ enroller.result = "OK" /\ sm.step = 3
        /\ sm' = Inert /\ timer' = FALSE /\ Fine
        /\ enroller' = [at |-> "commit", user |-> enroller.user, perm |-> enroller.perm]
     \/ /\ Active /\ enroller.result # "OK" /\ ~Retriable
        /\ sm' = Inert /\ timer' = FALSE /\ Fine
        /\ enroller' = [at |-> "fail"]
     \/ ~Active /\ enroller' = Idle /\ Fine /\ UNCHANGED <<sm, timer>>
     \/ Missed /\ enroller' = Idle /\ UNCHANGED <<sm, timer>>
  /\ UNCHANGED <<sensor, record, request, queues, editor, bounds>>

MutantNoRollback == Idle
RollBack == [at |-> "rollback", user |-> enroller.user]

\* A completed enrolment: the cache and its record, in a section of their own.
EnrolCommit ==
  /\ enroller.at = "commit"
  /\ LET u == enroller.user
         p == enroller.perm
     IN \/ /\ Persisted(With(u, p)) /\ sm' = Inert /\ enroller' = Idle
           /\ IF Active THEN Mishandled("overlap") ELSE Fine
        \/ /\ PersistFailed(With(u, p), Undone(u, p))
           /\ sm' = Inert /\ enroller' = RollBack
        \/ /\ Missed /\ enroller' = RollBack /\ UNCHANGED <<record, sm>>
  /\ UNCHANGED <<sensor, request, queues, timer, editor, bounds>>

\* Its rollback on the sensor when it could not be saved.
EnrolRollback ==
  /\ enroller.at = "rollback"
  /\ \/ EraseTemplates({enroller.user}) /\ Fine
     \/ UNCHANGED sensor /\ Mishandled("rollback")
  /\ enroller' = Idle
  /\ UNCHANGED <<record, sm, request, queues, timer, editor, bounds>>

\* A failed enrolment resets the state machine, in a section of its own.
EnrolFail ==
  /\ enroller.at = "fail"
  /\ \/ sm' = Inert /\ (IF Active THEN Mishandled("overlap") ELSE Fine)
     \/ Missed /\ UNCHANGED sm
  /\ enroller' = Idle
  /\ UNCHANGED <<sensor, record, request, queues, timer, editor, bounds>>

\* sdf_enroll_retry_timer_cb.
TimerFire ==
  /\ timer
  /\ timer' = FALSE
  /\ Send([type |-> "STEP"])
  /\ UNCHANGED <<sensor, record, sm, request, routed, enroller, editor,
                 bounds>>

-----------------------------------------------------------------------------
(* Boot and reset.                                                         *)

\* A device on which some users are enrolled, consistently.
Init ==
  /\ \E e \in SUBSET Users : \E g \in [e -> Granted] :
       /\ sensor = g
       /\ cache = [bmp |-> e, perm |-> [u \in Users |-> IF u \in e THEN g[u] ELSE "none"]]
  /\ nvs = cache
  /\ sm = Inert /\ request = NoRequest /\ routed = <<>> /\ inbox = <<>> /\ timer = FALSE
  /\ enroller = Idle /\ editor = [t \in Editor |-> Idle]
  /\ mishaps = {} /\ boots = 1 /\ changes = 0

\* The saves a reset may interrupt.
Saving ==
  {c \in {With(v, p) : v \in Users, p \in Granted} :
      enroller.at = "commit" /\ c = With(enroller.user, enroller.perm)}
  \cup {c \in {Without(v) : v \in Users} :
          \E t \in Editor : editor[t].at = "forget" /\ c = Without(editor[t].user)}
  \cup {c \in {cache} : editor["match"].at = "note"}
  \cup {c \in {Blank} : editor["zigbee"].at = "zero"}

\* A reset, possibly between the two keys of a save, and sdf_services_init: the
\* cache is loaded from the record, or is empty when that cannot be read; everything
\* else in RAM is lost.
Reset ==
  /\ boots < MaxBoots /\ Cardinality(mishaps) < MaxMishaps
  /\ nvs' \in {nvs} \cup {Torn(c) : c \in Saving}
  /\ \/ cache' = nvs' /\ Mishandled("reset")
     \/ "read" \in Faults /\ cache' = Blank /\ mishaps' = mishaps \cup {"reset", "read"}
  /\ sm' = Inert /\ request' = NoRequest /\ routed' = <<>> /\ inbox' = <<>> /\ timer' = FALSE
  /\ enroller' = Idle /\ editor' = [t \in Editor |-> Idle]
  /\ boots' = boots + 1
  /\ UNCHANGED <<sensor, changes>>

ZigbeeStep == ZigbeeClear \/ ZigbeeZero
MatchStep == MatchChange \/ MatchNote \/ MatchRemote \/ MatchKick \/ MatchLocal
EditStep(t) == Ask(t) \/ EmitStart(t) \/ DeleteCheck(t) \/ DeleteErase(t) \/ DeleteForget(t)
EnrolStep == EnrolTake \/ EnrolBegin \/ EnrolSnapshot \/ EnrolScan \/ EnrolApply
             \/ EnrolCommit \/ EnrolRollback \/ EnrolFail

Next ==
  \/ SetupBegin \/ ZigbeeBegin \/ ZigbeeStep \/ MatchArm \/ MatchClaim \/ MatchStep
  \/ \E t \in Editor : EditStep(t)
  \/ EnrolStep \/ Dispatch \/ TimerFire \/ Reset

Spec == Init /\ [][Next]_vars

(***************************************************************************)
(* The enroll task takes its next step, the timer fires, a task that began *)
(* a request finishes it.  Nobody has to ask for anything or present a     *)
(* finger: a capture without one fails by itself.                          *)
(***************************************************************************)
FairSpec ==
  /\ Spec /\ WF_vars(EnrolStep) /\ WF_vars(Dispatch) /\ WF_vars(TimerFire)
  /\ \A t \in Editor : WF_vars(EmitStart(t))
  /\ WF_vars(MatchKick)

-----------------------------------------------------------------------------
(* Properties.                                                             *)

Account == [bmp : SUBSET Users, perm : [Users -> Permission]]
Request == [user : Users, perm : Granted]
Step == 1 .. 3
Running == [step : Step, user : Users, perm : Granted, retries : 0 .. MaxRetries]

RoutedEvent == [type : {"START"}, user : Users, perm : Granted]
Event == RoutedEvent \cup [type : {"STEP"}]

EnrollerState ==
  {Idle, [at |-> "begin"], [at |-> "step"], [at |-> "fail"]}
    \cup [at : {"scan"}, step : Step, user : Users, perm : Granted]
    \cup [at : {"apply"}, step : Step, user : Users, perm : Granted,
          result : {"OK", "FAILED", "ERROR"}]
    \cup [at : {"commit"}, user : Users, perm : Granted]
    \cup [at : {"rollback"}, user : Users]

EditorState ==
  {Idle, [at |-> "clear"], [at |-> "zero"], [at |-> "local"],
   [at |-> "armed", op |-> "local"], [at |-> "local", op |-> "local"]}
    \cup [at : {"delete", "erase", "forget"}, user : Users]
    \cup [at : {"armed", "delete", "erase", "forget"}, op : {"delete"}, user : Users]
    \cup [at : {"ask", "emit"}, user : Users, perm : Granted]
    \cup [at : {"armed", "change", "note"}, op : {"change"}, user : Users, perm : Granted]
    \cup [at : {"armed", "remote", "kick"}, op : {"remote"}, user : Users, perm : Granted]

CopiesType ==
  /\ Templates \subseteq Users /\ sensor \in [Templates -> Granted]
  /\ cache \in Account /\ nvs \in Account

MachineType ==
  /\ sm = Inert \/ sm \in Running
  /\ request = NoRequest \/ request \in Request
  /\ enroller \in EnrollerState

EventsType ==
  /\ inbox \in Seq(Event) /\ Len(inbox) <= QueueDepth
  /\ routed \in Seq(RoutedEvent) /\ Len(routed) <= QueueDepth
  /\ timer \in BOOLEAN

EditorType == editor \in [Editor -> EditorState]

HistoryType == mishaps \subseteq Mishap /\ boots \in Nat /\ changes \in Nat

\* Types; the retries stay within the policy, the queues within their depth.
TypeOK == CopiesType /\ MachineType /\ EventsType /\ EditorType /\ HistoryType

\* The result of a capture is applied to the enrolment it was made for: while
\* the enroll task is at the sensor without the lock, nobody ends, advances or
\* replaces the enrolment it took a snapshot of.
AppliesToItsOwn ==
  enroller.at \in {"scan", "apply"} =>
    sm.step = enroller.step /\ sm.user = enroller.user /\ sm.perm = enroller.perm

\* Unless a write failed, or a boot could not read the record, that is the cache:
\* every section that changes one saves it, or takes the change back.
CacheIsSaved == mishaps \cap {"write", "read"} = {} => cache = nvs

\* No task is changing users.
Quiet == enroller = Idle /\ CanRequest /\ \A t \in Editor : editor[t].at \in {"idle", "armed"}

\* Without faults, the sensor and the record agree whenever no change is under
\* way, unless two changes overlapped.
SensorAgrees ==
  (Quiet /\ mishaps = {}) =>
    /\ Templates = Enrolled
    /\ \A u \in Enrolled : sensor[u] = cache.perm[u]

\* Failing writes leave users on record whose template is gone, which is inert,
\* and never a template that is not on record, which opens the door.
StaleButSafe ==
  (Quiet /\ mishaps \subseteq {"write"}) => Templates \subseteq Enrolled

\* The abstract store: the users of the cache are those in force, the users of
\* NVS those on record.  Every interleaving of the three tasks' changes, with
\* failing writes and resets, is a sequence of whole changes of it, and only a boot
\* that could not read the record leaves others in force than it holds - unless two
\* changes overlapped on a user: a deletion that cannot be saved puts back a user
\* whom the other task has removed meanwhile.
Store == INSTANCE SdfUserStore WITH
  live   <- [u \in cache.bmp |-> cache.perm[u]],
  stored <- [u \in nvs.bmp |-> nvs.perm[u]]
StoreRefined ==
  Store!Init /\ [][\/ Store!Change \/ Store!Refuse \/ Store!Reboot
                   \/ Store!Unreadable /\ "read" \in mishaps'
                   \/ "overlap" \in mishaps']_record

\* An event of these types is in the queue.
Holds(q, types) == \E i \in DOMAIN q : q[i].type \in types

\* Somebody always has the next step of an enrolment to take, unless an event was
\* lost or the lock was missed: starting the machine or arming a request does not
\* by itself drive it.
EnrolmentDriven ==
  (~CanRequest /\ mishaps = {}) =>
    \/ enroller # Idle \/ timer
    \/ Holds(routed, {"START"}) \/ Holds(inbox, {"START", "STEP"})
    \/ \E t \in Editor : editor[t].at \in {"emit", "kick"}

\* An enrolment, asked for or active, ends, unless an event was lost or the
\* lock was missed.
EnrolmentEnds == ~CanRequest ~> (CanRequest \/ mishaps # {})
=============================================================================
