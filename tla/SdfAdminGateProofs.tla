-------------------------- MODULE SdfAdminGateProofs --------------------------
(***************************************************************************)
(* Proofs about SdfAdminGate: an action executes for the request that      *)
(* armed it, whoever waits for its end is answered, an answer about a      *)
(* permission is true, the sensor's power hold ends and deletions and      *)
(* demotions leave an admin, for any number of requests and users.         *)
(***************************************************************************)
EXTENDS SdfAdminGate, SequenceTheorems, TLAPS

-----------------------------------------------------------------------------
(* The inductive invariant.                                                *)

\* What a request asks for is complete; an Enroll-Admin names nobody.
ReqInv ==
  \A r \in Requests : req[r].action \notin {"NONE", "ENROLL_ADMIN"} => req[r].user \in Users

\* The pending action is the one its request asks for, and so is its target.
ArmInv ==
  /\ pending \in {"NONE", "BLE_PAIRING_WINDOW"} => armedBy = None
  /\ pending \in Askable => armedBy \in Requests /\ req[armedBy].action = pending
  /\ pending \in UmAction =>
       target.user = req[armedBy].user /\ target.perm = req[armedBy].perm

\* Requests are where requests of their kind are.
KindInv ==
  /\ app.at = "hold" => req[app.req].action = "REMOTE_ENROLL"
  /\ app.at = "gate" => req[app.req].action \in UmAction
  /\ app.at \in {"arm", "wait", "woken"} => req[app.req].action = "CHANGE_PERMISSION"
  /\ host # None => req[host].action = "ENROLL_ADMIN"
  /\ gate.req # None => req[gate.req].action \in UmAction
  /\ ble.req # None => req[ble.req].action = "ENROLL_ADMIN"
  /\ gate.open => gate.req # None
  /\ ble.open => ble.req # None

\* Where the match task reports the end of what it executed.
Reporting == {"record", "callback", "resolve"}
\* Where it carries an action that it claimed.
ClaimedAt == {"target", "run", "erase", "hold", "complete", "local", "start", "emit", "answer"}
             \cup Reporting

\* Where the match task can be with an action.
StagesOf(a) ==
  CASE a = "DELETE_USER"       -> {"target", "run", "erase"} \cup Reporting
    [] a = "REMOTE_ENROLL"     -> {"target", "run", "hold"} \cup Reporting
    [] a = "RENAME_USER"       -> {"target", "run"} \cup Reporting
    [] a = "CHANGE_PERMISSION" -> {"target", "run", "complete"}
    [] OTHER                   -> {"local", "start", "emit", "answer"}

\* The match task works for the request whose action it claimed.
MatchInv ==
  /\ match.at \in ClaimedAt =>
       /\ match.by \in Requests /\ req[match.by].action = match.action
       /\ match.at \in StagesOf(match.action)
  /\ match.at = "target" /\ match.action \in UmAction => target.user \in Users
  /\ match.at = "run" /\ match.action = "REMOTE_ENROLL" => match.user \in Users

\* An enrolment is of some user, and the match task and the event that starts one
\* exclude each other.
EnrolInv ==
  /\ enrol.at # "idle" => enrol.user \in Users
  /\ startEvent # None \/ match.at \in {"start", "emit"} => enrol.at = "requested"
  /\ match.at \in {"start", "emit"} => startEvent = None
  /\ enrol.at = "requested" => match.at \notin ClaimedAt \ {"start", "emit", "answer"}
  /\ match.at = "hold" /\ match.outcome = "ok" /\ "clobbered" \notin mishaps =>
       enrol.at = "active"

\* A template is stored for a new user only.
RoleInv == enroller.at = "end" /\ enroller.stored => enroller.user \notin Enrolled

\* An admin remains, and one whose deletion or demotion is decided is not the last.
AdminInv ==
  /\ app.at = "arm" => ~permChange.open
  /\ "overlap" \notin mishaps => Admins # {} /\ \A u \in Doomed : Admins # {u}

\* Someone holds the sensor for an enrolment that is to come, under way or ending.
Held ==
  \/ pending = "REMOTE_ENROLL"
  \/ match.at \in {"target", "run", "hold"} /\ match.action = "REMOTE_ENROLL"
  \/ match.at = "release" \/ sweep.at = "release"
  \/ enrol.at # "idle" \/ enroller.at = "end"
\* The hold has its holder, save for the three mishaps that HoldEnds names.
HoldInv == hold /\ mishaps \cap {"lateHold", "clobbered", "lockMissed"} = {} => Held

\* A request is handed over, armed and noted once.
NoteInv ==
  /\ slot # None =>
       /\ req[slot].action \notin {"NONE", "ENROLL_ADMIN"}
       /\ slot # gate.req /\ slot # armedBy
       /\ app.at \in {"hold", "gate", "arm"} => slot # app.req
       /\ match.at \in ClaimedAt => slot # match.by
  /\ app.at \in {"hold", "gate"} => app.req # gate.req
  /\ (match.at = "resolve" /\ app.at \in {"hold", "gate"} /\ "lateNote" \notin mishaps) =>
       app.req # match.by

\* The answer to r is still to come.
Coming(r) ==
  \/ armedBy = r
  \/ match.at \in ClaimedAt /\ match.by = r
  \/ match.at \in {"release", "post"} /\ match.action = req[r].action
  \/ sweep.at \in {"release", "post"} /\ sweep.action = req[r].action
  \/ \E i \in 1 .. Len(queue) : queue[i] = [type |-> "COMPLETE", action |-> req[r].action]
\* Whoever is noted, or about to be, has the answer to come.
AnswerInv ==
  mishaps \cap {"lost", "lockMissed", "lateNote"} = {} =>
    /\ gate.open /\ req[gate.req].action # "RENAME_USER" =>
         Coming(gate.req) \/ app.at = "resolve"
    /\ app.at \in {"hold", "gate"} /\ req[app.req].action # "RENAME_USER" => Coming(app.req)

\* A permission change is open from its arming to its completion, for one request.
Changing(r) ==
  permChange.open /\ permChange.user = req[r].user /\ permChange.perm = req[r].perm
\* The match task, the admin task and the app task are with a permission change.
Changes == match.at \in {"target", "run", "complete"} /\ match.action = "CHANGE_PERMISSION"
Expires == sweep.at \in {"release", "complete"} /\ sweep.action = "CHANGE_PERMISSION"
Waits == app.at \in {"wait", "woken"}
\* A change has one owner at a time: the pending action, the match task that claimed
\* it, or the admin task that found it timed out.
ChangeInv ==
  /\ permChange.open => permChange.result = "timeout"
  /\ pending = "CHANGE_PERMISSION" => Changing(armedBy)
  /\ Changes => Changing(match.by)
  /\ Expires => permChange.open
  /\ sweep.at = "complete" => sweep.action = "CHANGE_PERMISSION"
  /\ pending = "CHANGE_PERMISSION" => ~Changes /\ ~Expires
  /\ ~(Changes /\ Expires)
  /\ Waits /\ pending = "CHANGE_PERMISSION" => armedBy = app.req
  /\ Waits /\ Changes => match.by = app.req
  /\ Waits => pending \notin UmAction
  /\ match.at = "run" /\ match.action = "CHANGE_PERMISSION" =>
       match.user = req[match.by].user /\ match.perm = req[match.by].perm
\* The user has the permission that r asks for; an answer that says so is preceded by
\* the grant, and no authorized deletion is under way that takes it back.
Granted(r) == req[r].user \in Enrolled /\ role[req[r].user] = req[r].perm
GrantInv ==
  /\ match.at \in {"target", "run"} => match.outcome = "failed"
  /\ match.at = "complete" /\ match.outcome = "ok" /\ Waits =>
       Granted(match.by) \/ "erased" \in mishaps
  /\ match.at = "complete" => match.outcome # "denied"
  /\ Waits /\ permChange.result = "ok" =>
       /\ Granted(app.req) \/ "erased" \in mishaps
       /\ ~(match.at \in {"target", "run", "erase"} /\ match.action = "DELETE_USER")

\* Everything together.
IInv ==
  /\ TypeOK /\ ReqInv /\ ArmInv /\ KindInv /\ MatchInv /\ EnrolInv /\ RoleInv
  /\ AdminInv /\ HoldInv /\ NoteInv /\ AnswerInv /\ ChangeInv /\ GrantInv

-----------------------------------------------------------------------------
(* Lemmas about the operators the actions share.                           *)

\* A step leaves every request that was made asking what it asks, and one that it
\* makes is complete.
Asks ==
  \A r \in Requests :
    \/ /\ req'[r].action = req[r].action
       /\ req'[r].user = req[r].user /\ req'[r].perm = req[r].perm
    \/ /\ req[r].action = "NONE"
       /\ req'[r].action # "ENROLL_ADMIN" => req'[r].user \in Users

\* The companion requests.
Reqs == [Requests -> RequestOf]

\* A reply is added to a request, which stays what it is.
LEMMA ReplyKeeps ==
  ASSUME req \in Reqs, NEW r, NEW o \in Outcome
  PROVE  /\ Replied(r, o) \in Reqs
         /\ \A q \in Requests : /\ Replied(r, o)[q].action = req[q].action
                                /\ Replied(r, o)[q].user = req[q].user
                                /\ Replied(r, o)[q].perm = req[q].perm
<1>1. CASE r \in Requests
  <2>1. req[r] \in RequestOf
    BY <1>1 DEF Reqs
  <2>2. Append(req[r].replies, o) \in Seq(Outcome)
    BY <2>1 DEF RequestOf
  <2>3. \A m \in RequestOf, s \in Seq(Outcome) :
          /\ [m EXCEPT !.replies = s] \in RequestOf
          /\ [m EXCEPT !.replies = s].action = m.action
          /\ [m EXCEPT !.replies = s].user = m.user
          /\ [m EXCEPT !.replies = s].perm = m.perm
    BY DEF RequestOf
  <2>4. PICK n \in RequestOf : /\ Replied(r, o) = [req EXCEPT ![r] = n]
                              /\ n.action = req[r].action
                              /\ n.user = req[r].user /\ n.perm = req[r].perm
    BY <2>1, <2>2, <2>3 DEF Replied
  <2> QED
    BY <1>1, <2>4 DEF Reqs
<1>2. CASE r \notin Requests
  <2>1. Replied(r, o) = req
    BY <1>2 DEF Replied, Reqs
  <2> QED
    BY <2>1
<1> QED
  BY <1>1, <1>2

\* A request that arrives is complete, answered or not, and is the only new one.
LEMMA OpenKeeps ==
  ASSUME req \in Reqs, NEW r \in Requests, req[r].action = "NONE",
         NEW a \in Askable, NEW u \in Maybe(Users), NEW p \in Role,
         a # "ENROLL_ADMIN" => u \in Users,
         NEW arrived, arrived = Open(r, a, u, p),
         req' \in {arrived, [arrived EXCEPT ![r].replies = <<"busy">>]}
  PROVE  /\ req' \in Reqs /\ Asks
         /\ req'[r].action = a
         /\ \A q \in Requests \ {r} : req'[q] = req[q]
<1> DEFINE new == [action |-> a, user |-> u, perm |-> p, replies |-> <<>>]
<1>1. new \in RequestOf
  BY DEF RequestOf, Maybe
<1>2. arrived = [req EXCEPT ![r] = new]
  BY DEF Open
<1>3. [new EXCEPT !.replies = <<"busy">>] \in RequestOf
  <2>1. <<"busy">> \in Seq(Outcome)
    BY DEF Outcome
  <2> QED
    BY <2>1 DEF RequestOf, Maybe
<1>4. [arrived EXCEPT ![r].replies = <<"busy">>]
        = [req EXCEPT ![r] = [new EXCEPT !.replies = <<"busy">>]]
  BY <1>2 DEF Reqs
<1>5. PICK n \in {new, [new EXCEPT !.replies = <<"busy">>]} : req' = [req EXCEPT ![r] = n]
  BY <1>2, <1>4
<1>6. n \in RequestOf /\ n.action = a /\ n.user = u
  BY <1>1, <1>3
<1> HIDE DEF new
<1>7. req' \in Reqs /\ req'[r] = n /\ \A q \in Requests \ {r} : req'[q] = req[q]
  BY <1>5, <1>6 DEF Reqs
<1> QED
  BY <1>6, <1>7 DEF Asks

\* What went wrong is one of the mishaps.
LEMMA MishapKeeps ==
  ASSUME mishaps \subseteq Mishap, NEW m \in Mishap, Mishandled(m)
  PROVE  mishaps' \subseteq Mishap
BY DEF Mishandled

\* An event is queued or lost.
LEMMA PostKeeps ==
  ASSUME GateAssumption, queue \in Seq(Message), Len(queue) <= QueueDepth,
         mishaps \subseteq Mishap, NEW m \in Message, Post(m)
  PROVE  /\ queue' \in Seq(Message) /\ Len(queue') <= QueueDepth
         /\ mishaps' \subseteq Mishap
<1>1. CASE Len(queue) < QueueDepth /\ queue' = Append(queue, m) /\ UNCHANGED mishaps
  <2>1. Append(queue, m) \in Seq(Message) /\ Len(Append(queue, m)) = Len(queue) + 1
    OBVIOUS
  <2> QED
    BY <1>1, <2>1 DEF GateAssumption
<1>2. CASE Len(queue) = QueueDepth /\ Mishandled("lost") /\ UNCHANGED queue
  BY <1>2 DEF Mishandled, Mishap
<1> QED
  BY <1>1, <1>2 DEF Post

\* The fields of a permission change.
Change == [open : BOOLEAN, user : Maybe(Users), perm : Role, result : Outcome]

\* A closed change is one, and so is the change a request asks for.
LEMMA ChangeTypes ==
  ASSUME req \in Reqs
  PROVE  /\ \A o \in Outcome : Closed(o) \in Change /\ ~Closed(o).open /\ Closed(o).result = o
         /\ \A r \in Requests :
              /\ NewChange(r) \in Change
              /\ NewChange(r).open /\ NewChange(r).result = "timeout"
              /\ NewChange(r).user = req[r].user /\ NewChange(r).perm = req[r].perm
<1>1. \A r \in Requests : req[r] \in RequestOf
  BY DEF Reqs
<1> QED
  BY <1>1 DEF Closed, NewChange, Change, Maybe, Role, RequestOf, Outcome

\* Where a task of each kind goes, the record keeps its shape.
LEMMA ClaimedKeeps ==
  ASSUME NEW m \in Claimed
  PROVE  /\ \A a \in ClaimedAt : [m EXCEPT !.at = a] \in Claimed
         /\ \A a \in ClaimedAt, o \in Outcome : [m EXCEPT !.at = a, !.outcome = o] \in Claimed
         /\ \A a \in ClaimedAt, u \in Maybe(Users), p \in Role :
              [m EXCEPT !.at = a, !.user = u, !.perm = p] \in Claimed
BY DEF Claimed, ClaimedAt, Reporting

\* Taking the result leaves one of the same type.
LEMMA Taken ==
  ASSUME TypeOK, NEW have \in BOOLEAN, TakeResult(have)
  PROVE  umResult' \in [valid : BOOLEAN, outcome : Outcome]
<1>1. (umResult.valid /\ ~have) \in BOOLEAN
  OBVIOUS
<1>2. \A v \in BOOLEAN : [umResult EXCEPT !.valid = v] \in [valid : BOOLEAN, outcome : Outcome]
  BY DEF TypeOK
<1> QED
  BY <1>1, <1>2 DEF TakeResult

-----------------------------------------------------------------------------
(* Type correctness: one lemma for each task.                              *)

\* The host task's requests keep the types and what was asked.
LEMMA HostTypes ==
  ASSUME GateAssumption, TypeOK, HostStep
  PROVE  TypeOK' /\ Asks
<1>1. req \in Reqs
  BY DEF TypeOK, Reqs
<1>2. ASSUME NEW r \in Requests, HostRequest(r) PROVE TypeOK' /\ Asks
  <2>0. \A a : Named(a) \subseteq Role
    BY DEF Named, Role
  <2>1. PICK a \in Asked \ {"ENROLL_ADMIN"}, u \in Users, p \in Role :
          LET arrived == Open(r, a, u, p)
              refused == [arrived EXCEPT ![r].replies = <<"busy">>]
          IN \/ /\ ~SlotFree
                /\ req' = refused
                /\ UNCHANGED <<slot, queue, mishaps>>
             \/ /\ SlotFree /\ slot' = r
                /\ req' = arrived
                /\ Post([type |-> "UM_REQUEST"])
             \/ /\ SlotFree /\ Len(queue) = QueueDepth
                /\ req' = refused
                /\ UNCHANGED <<slot, queue, mishaps>>
    BY <1>2, <2>0 DEF HostRequest
  <2>2. a \in Askable /\ u \in Maybe(Users) /\ a # "ENROLL_ADMIN"
    BY DEF GateAssumption, Maybe
  <2>3. req' \in {Open(r, a, u, p), [Open(r, a, u, p) EXCEPT ![r].replies = <<"busy">>]}
    BY <2>1
  <2>4. req[r].action = "NONE"
    BY <1>2 DEF HostRequest
  <2>5. req' \in Reqs /\ Asks
    BY <1>1, <2>2, <2>3, <2>4, OpenKeeps
  <2>6. [type |-> "UM_REQUEST"] \in Message
    BY DEF Message
  <2>7. /\ slot' \in Maybe(Requests) /\ queue' \in Seq(Message)
        /\ Len(queue') <= QueueDepth /\ mishaps' \subseteq Mishap
    <3>1. CASE UNCHANGED <<slot, queue, mishaps>>
      BY <3>1 DEF TypeOK
    <3>2. CASE slot' = r /\ Post([type |-> "UM_REQUEST"])
      BY <3>2, <2>6, PostKeeps DEF TypeOK, Maybe
    <3> QED
      BY <2>1, <3>1, <3>2
  <2>8. UNCHANGED <<role, gateVars, permVars, umResult, enrolVars, hold, tasks, gate, ble>>
    BY <1>2 DEF HostRequest
  <2> QED
    BY <2>5, <2>7, <2>8 DEF TypeOK, TaskOK, gateVars, permVars, enrolVars, tasks, Reqs, Enrolled
<1>3. ASSUME NEW r \in Requests, HostNoteAdminAction(r) PROVE TypeOK' /\ Asks
  <2>2. /\ "ENROLL_ADMIN" \in Askable /\ "admin" \in Role /\ None \in Maybe(Users)
        /\ req[r].action = "NONE"
    BY <1>3 DEF Askable, Role, Maybe, HostNoteAdminAction
  <2>3. req' \in {Open(r, "ENROLL_ADMIN", None, "admin"),
                  [Open(r, "ENROLL_ADMIN", None, "admin") EXCEPT ![r].replies = <<"busy">>]}
    BY <1>3 DEF HostNoteAdminAction
  <2>4. req' \in Reqs /\ Asks
    BY <1>1, <2>2, <2>3, OpenKeeps
  <2> QED
    BY <1>3, <2>4 DEF HostNoteAdminAction, TypeOK, TaskOK, Noted, Maybe, gateVars, permVars,
       enrolVars, Reqs, Enrolled
<1>4. CASE HostArmAdminAction
  <2>1. host \in Requests
    BY <1>4 DEF HostArmAdminAction, TypeOK, TaskOK, Maybe
  <2>2. "denied" \in Outcome
    BY DEF Outcome
  <2>3. req' \in Reqs /\ Asks
    BY <1>1, <1>4, <2>2, ReplyKeeps DEF HostArmAdminAction, Asks
  <2>4. ble' \in Noted
    BY <1>4 DEF HostArmAdminAction, TypeOK, Noted
  <2>5. /\ pending' \in Action \cup {"NONE"} /\ armedBy' \in Maybe(Requests)
        /\ target' \in [user : Maybe(Users), perm : Role] /\ doneSem' \in BOOLEAN
    BY <1>4, <2>1 DEF HostArmAdminAction, TypeOK, Arm, UmAction, Action, Askable, Maybe, gateVars
  <2> QED
    BY <1>4, <2>3, <2>4, <2>5 DEF HostArmAdminAction, TypeOK, TaskOK, Maybe, enrolVars, Reqs,
       Enrolled
<1> QED
  BY <1>2, <1>3, <1>4 DEF HostStep

\* The app task's steps: a request it takes, arms, refuses or answers.
LEMMA AppTypes ==
  ASSUME GateAssumption, TypeOK, AppStep
  PROVE  TypeOK' /\ Asks
<1>1. req \in Reqs
  BY DEF TypeOK, Reqs
<1>2. \A r, o : o \in Outcome /\ req' = Replied(r, o) => req' \in Reqs /\ Asks
  BY <1>1, ReplyKeeps DEF Asks
<1>3. UNCHANGED req => req' \in Reqs /\ Asks
  BY <1>1 DEF Asks
<1>4. \A r \in Requests : req[r] \in RequestOf
  BY <1>1 DEF Reqs
<1>5. \A r : Processing(r) => /\ r \in Requests /\ slot' \in Maybe(Requests)
                              /\ queue' \in Seq(Message) /\ Len(queue') <= QueueDepth
  BY DEF Processing, TypeOK, Maybe
<1>6. ASSUME NEW r \in Requests, AppArm(r) PROVE TypeOK' /\ Asks
  <2>1. /\ pending' \in Action \cup {"NONE"} /\ armedBy' \in Maybe(Requests)
        /\ target' \in [user : Maybe(Users), perm : Role]
    BY <1>4, <1>6 DEF AppArm, TypeOK, Arm, UmAction, Action, Askable, Maybe, RequestOf
  <2> QED
    BY <1>3, <1>5, <1>6, <2>1 DEF AppArm, TypeOK, TaskOK, permVars, enrolVars, Reqs, Enrolled
<1>7. ASSUME NEW r \in Requests, AppRefuse(r) PROVE TypeOK' /\ Asks
  <2>1. PICK o : o \in Outcome /\ req' = Replied(r, o)
    <3>1. RemoteGuard(req[r].action, req[r].user) \in Outcome
      BY DEF RemoteGuard, Outcome
    <3> QED
      BY <1>7, <3>1 DEF AppRefuse, Outcome
  <2> QED
    BY <1>2, <1>5, <1>7, <2>1 DEF AppRefuse, TypeOK, TaskOK, gateVars, permVars, enrolVars, tasks,
       Reqs, Enrolled
<1>8. ASSUME NEW r \in Requests, AppPermission(r) PROVE TypeOK' /\ Asks
  <2>1. req' \in Reqs /\ Asks
    BY <1>2, <1>3, <1>8 DEF AppPermission, Outcome
  <2>2. app' \in {Idle} \cup [at : {"hold", "gate", "arm", "wait", "woken"}, req : Requests]
               \cup [at : {"resolve"}, outcome : Outcome]
    BY <1>8 DEF AppPermission, TypeOK, TaskOK
  <2> QED
    BY <1>5, <1>8, <2>1, <2>2 DEF AppPermission, TypeOK, TaskOK, gateVars, permVars, enrolVars,
       Reqs, Enrolled
<1>9. CASE AppHold
  BY <1>3, <1>9 DEF AppHold, TypeOK, TaskOK, Idle, Mishandled, Mishap, gateVars, permVars,
     enrolVars, appVars, Reqs, Enrolled
<1>10. CASE AppGate
  <2>1. app.req \in Requests
    BY <1>10 DEF AppGate, TypeOK, TaskOK, Idle
  <2> QED
    BY <1>3, <1>10, <2>1 DEF AppGate, TypeOK, TaskOK, Noted, Maybe, gateVars, permVars, enrolVars,
       Reqs, Enrolled
<1>11. CASE AppArmPermission
  <2>1. app.req \in Requests
    BY <1>11 DEF AppArmPermission, TypeOK, TaskOK, Idle
  <2>2. /\ pending' \in Action \cup {"NONE"} /\ armedBy' \in Maybe(Requests)
        /\ target' \in [user : Maybe(Users), perm : Role]
    BY <1>11, <2>1 DEF AppArmPermission, TypeOK, Arm, UmAction, Action, Askable, Maybe, gateVars
  <2>3. permChange' \in Change /\ doneSem' \in BOOLEAN
    <3>1. NewChange(app.req) \in Change /\ permChange \in Change
      BY <1>1, <2>1, ChangeTypes DEF TypeOK, Change
    <3> QED
      BY <1>11, <3>1 DEF AppArmPermission, TypeOK, gateVars, permVars
  <2>4. req' \in Reqs /\ Asks
    BY <1>2, <1>3, <1>11 DEF AppArmPermission, Outcome
  <2>5. app' \in {Idle} \cup [at : {"hold", "gate", "arm", "wait", "woken"}, req : Requests]
    BY <1>11, <2>1 DEF AppArmPermission, TypeOK, TaskOK, Idle
  <2> QED
    BY <1>11, <2>2, <2>3, <2>4, <2>5 DEF AppArmPermission, TypeOK, TaskOK, enrolVars, Change, Reqs,
       Enrolled
<1>12. CASE AppWake
  <2>1. app' \in [at : {"woken"}, req : Requests]
    BY <1>12 DEF AppWake, TypeOK, TaskOK, Idle
  <2>2. /\ UNCHANGED <<role, pending, target, armedBy, permChange, umResult, enrol, startEvent,
                       hold, match, sweep, enroller, host, zigbee, slot, queue, gate, ble, req,
                       mishaps>>
        /\ doneSem' \in BOOLEAN
    BY <1>12 DEF AppWake, gateVars, enrolVars, appVars
  <2> QED
    BY <1>3, <2>1, <2>2 DEF TypeOK, TaskOK, Reqs, Enrolled
<1>13. CASE AppAnswerPermission
  <2>1. req' \in Reqs /\ Asks
    BY <1>2, <1>13 DEF AppAnswerPermission, TypeOK, Outcome
  <2> QED
    BY <1>13, <2>1 DEF AppAnswerPermission, TypeOK, TaskOK, gateVars, permVars, enrolVars, Reqs,
       Enrolled
<1>14. CASE AppGiveUp
  <2>1. req' \in Reqs /\ Asks
    BY <1>2, <1>14 DEF AppGiveUp, Outcome
  <2> QED
    BY <1>14, <2>1 DEF AppGiveUp, TypeOK, TaskOK, gateVars, permVars, enrolVars, Reqs, Enrolled
<1>15. CASE AppComplete
  <2>1. req' \in Reqs /\ Asks /\ ble' \in Noted
    BY <1>2, <1>3, <1>15 DEF AppComplete, TypeOK, Noted, Outcome
  <2>2. /\ umResult' \in [valid : BOOLEAN, outcome : Outcome]
        /\ app' \in {Idle} \cup [at : {"resolve"}, outcome : Outcome]
    <3>1. \A have \in BOOLEAN : TakeResult(have) =>
            umResult' \in [valid : BOOLEAN, outcome : Outcome]
      BY Taken
    <3>2. umResult.outcome \in Outcome /\ "denied" \in Outcome
      BY DEF TypeOK, Outcome
    <3>3. CASE UNCHANGED <<umResult, app>>
      BY <1>15, <3>3 DEF AppComplete, TypeOK
    <3>4. CASE ~UNCHANGED <<umResult, app>>
      <4>1. PICK have \in BOOLEAN :
              /\ TakeResult(have)
              /\ app' = [at |-> "resolve", outcome |-> IF have THEN umResult.outcome ELSE "denied"]
        BY <1>15, <3>4 DEF AppComplete
      <4>2. (IF have THEN umResult.outcome ELSE "denied") \in Outcome
        BY <3>2
      <4> QED
        BY <3>1, <4>1, <4>2
    <3> QED
      BY <3>3, <3>4
  <2>3. queue' \in Seq(Message) /\ Len(queue') <= QueueDepth
    BY <1>15 DEF AppComplete, TypeOK
  <2> QED
    BY <1>15, <2>1, <2>2, <2>3 DEF AppComplete, TypeOK, TaskOK, gateVars, permVars, enrolVars, Reqs,
       Enrolled
<1>16. CASE AppResolve
  <2>1. app.outcome \in Outcome
    BY <1>16 DEF AppResolve, TypeOK, TaskOK, Idle
  <2>2. req' = Replied(gate.req, app.outcome)
    BY <1>16 DEF AppResolve
  <2>3. req' \in Reqs /\ Asks
    BY <1>2, <2>1, <2>2
  <2>4. gate' \in Noted
    BY <1>16 DEF AppResolve, TypeOK, Noted
  <2>5. UNCHANGED <<role, pending, target, armedBy, permChange, doneSem, umResult, enrol,
                    startEvent,
                    hold, match, sweep, enroller, host, zigbee, slot, queue, ble,
                    mishaps>> /\ app' = Idle
    BY <1>16 DEF AppResolve, gateVars, permVars, enrolVars
  <2> QED
    BY <2>3, <2>4, <2>5 DEF TypeOK, TaskOK, Reqs, Enrolled
<1> QED
  BY <1>6, <1>7, <1>8, <1>9, <1>10, <1>11, <1>12, <1>13, <1>14, <1>15, <1>16 DEF AppStep

\* A scan claims the action or denies it.
LEMMA ScanTypes ==
  ASSUME GateAssumption, TypeOK, Scanned
  PROVE  TypeOK' /\ UNCHANGED req
<1>1. Disarm => /\ pending' \in Action \cup {"NONE"} /\ armedBy' \in Maybe(Requests)
                /\ target' \in [user : Maybe(Users), perm : Role]
  BY DEF Disarm, TypeOK, Maybe
<1>2. CASE ClaimByAdmin
  <2>1. pending \in Askable \cup {"BLE_PAIRING_WINDOW"}
    BY <1>2 DEF ClaimByAdmin, TypeOK, Action
  <2>2. match' \in {Idle} \cup Claimed
    <3>1. \A a \in Askable, at \in {"local", "target"} :
            [at |-> at, action |-> a, by |-> armedBy, user |-> None, perm |-> "user",
             outcome |-> "failed"] \in Claimed
      BY DEF TypeOK, Claimed, Maybe, Role, Outcome
    <3>2. CASE pending = "BLE_PAIRING_WINDOW"
      BY <1>2, <3>2 DEF ClaimByAdmin
    <3>3. CASE pending # "BLE_PAIRING_WINDOW"
      BY <1>2, <2>1, <3>1, <3>3 DEF ClaimByAdmin
    <3> QED
      BY <3>2, <3>3
  <2> QED
    BY <1>1, <1>2, <2>2 DEF ClaimByAdmin, TypeOK, TaskOK, permVars, enrolVars, appVars, Enrolled
<1>3. CASE DenyRemote
  BY <1>1, <1>3 DEF DenyRemote, TypeOK, TaskOK, RecordResult, Outcome, permVars, enrolVars, appVars,
     Enrolled
<1>4. CASE DenyPermission
  <2>1. permChange' \in Change
    BY <1>4 DEF DenyPermission, Closed, Change, Maybe, Role, Outcome
  <2> QED
    BY <1>1, <1>4, <2>1 DEF DenyPermission, TypeOK, TaskOK, Change, enrolVars, appVars, Enrolled
<1> QED
  BY <1>2, <1>3, <1>4 DEF Scanned, ClaimByAdmin, DenyRemote, DenyPermission, appVars

\* The record of a claimed action.
LEMMA ClaimedMatch ==
  ASSUME TypeOK, match.at \in ClaimedAt
  PROVE  match \in Claimed
BY DEF TypeOK, TaskOK, ClaimedAt, Reporting, Idle

\* The match task's steps: what it claimed, executes and reports.
LEMMA MatchTypes ==
  ASSUME GateAssumption, TypeOK, EnrolInv, MatchInv, MatchStep
  PROVE  TypeOK' /\ Asks
<1> DEFINE MatchOK(m) == m \in {Idle, [at |-> "give"]}
                             \cup [at : {"release", "post"}, action : UmAction] \cup Claimed
<1>1. req \in Reqs
  BY DEF TypeOK, Reqs
<1>2. UNCHANGED req => req' \in Reqs /\ Asks
  BY <1>1 DEF Asks
<1>3. ASSUME MatchOK(match'),
             UNCHANGED <<role, gateVars, permVars, umResult, enrolVars, sweep, enroller, host, app,
                         zigbee, appVars>>,
             hold' \in BOOLEAN, mishaps' \subseteq Mishap
      PROVE  TypeOK' /\ Asks
  BY <1>2, <1>3 DEF TypeOK, TaskOK, gateVars, permVars, enrolVars, appVars, Reqs, Enrolled
<1>4. hold \in BOOLEAN /\ mishaps \subseteq Mishap
  BY DEF TypeOK
<1>d. \A m \in Mishap : Mishandled(m) => mishaps' \subseteq Mishap
  BY <1>4, MishapKeeps
<1>a. {"target", "run", "erase", "hold", "complete", "local", "start", "emit", "answer", "record",
       "callback", "resolve"} \subseteq ClaimedAt
  BY DEF ClaimedAt, Reporting
<1>b. /\ {"ok", "failed", "timeout", "not_found", "last_admin", "name_taken"} \subseteq Outcome
      /\ {"lockMissed", "lateNote"} \subseteq Mishap
  BY DEF Outcome, Mishap
<1>c. ASSUME NEW o \in Outcome, match \in Claimed, Finished(o) PROVE match' \in Claimed
  BY <1>a, <1>c, ClaimedKeeps DEF Finished
<1>5. CASE MatchRelease
  <2>1. MatchOK(match')
    BY <1>5 DEF MatchRelease, TypeOK, TaskOK, Idle, Claimed
  <2> QED
    BY <1>3, <1>4, <1>5, <2>1 DEF MatchRelease
<1>6. CASE MatchPost
  <2>1. [type |-> "COMPLETE", action |-> match.action] \in Message
    BY <1>6 DEF MatchPost, TypeOK, TaskOK, Idle, Claimed, Message, Action, Askable
  <2>2. queue' \in Seq(Message) /\ Len(queue') <= QueueDepth /\ mishaps' \subseteq Mishap
    BY <1>6, <2>1, PostKeeps DEF MatchPost, TypeOK
  <2> QED
    BY <1>2, <1>6, <2>2 DEF MatchPost, TypeOK, TaskOK, gateVars, permVars, enrolVars, Reqs, Enrolled
<1>7. CASE MatchReadTarget
  <2>1. PICK t \in {permChange, target} :
          match' = [match EXCEPT !.at = "run", !.user = t.user, !.perm = t.perm]
    BY <1>7 DEF MatchReadTarget
  <2>2. t.user \in Maybe(Users) /\ t.perm \in Role
    BY DEF TypeOK
  <2>3. match \in Claimed
    BY <1>7, ClaimedMatch DEF MatchReadTarget, ClaimedAt
  <2>4. match' \in Claimed
    BY <2>1, <2>2, <2>3, ClaimedKeeps DEF ClaimedAt
  <2> QED
    BY <1>3, <1>4, <1>7, <2>4 DEF MatchReadTarget
<1>8. CASE MatchMissTarget
  <2>1. match \in Claimed
    BY <1>8, ClaimedMatch DEF MatchMissTarget, ClaimedAt
  <2>2. match' \in Claimed
    <3>1. match' \in {[match EXCEPT !.at = "record"], [match EXCEPT !.at = "run"],
                      [match EXCEPT !.at = "complete", !.outcome = "timeout"]}
      BY <1>8 DEF MatchMissTarget
    <3>2. /\ [match EXCEPT !.at = "record"] \in Claimed /\ [match EXCEPT !.at = "run"] \in Claimed
          /\ [match EXCEPT !.at = "complete", !.outcome = "timeout"] \in Claimed
      BY <1>a, <1>b, <2>1, ClaimedKeeps
    <3> QED
      BY <3>1, <3>2
  <2> QED
    BY <1>3, <1>4, <1>8, <2>2 DEF MatchMissTarget, Mishandled, Mishap
<1>9. CASE MatchDelete
  <2>1. match \in Claimed
    BY <1>9, ClaimedMatch DEF MatchDelete, ClaimedAt
  <2>2. match' \in Claimed
    <3>1. CASE match' = [match EXCEPT !.at = "erase"]
      BY <1>a, <2>1, <3>1, ClaimedKeeps
    <3>2. CASE \E o \in {"not_found", "last_admin"} : Finished(o)
      BY <1>b, <1>c, <2>1, <3>2
    <3> QED
      BY <1>9, <3>1, <3>2 DEF MatchDelete
  <2> QED
    BY <1>3, <1>4, <1>9, <2>2 DEF MatchDelete
<1>10. CASE MatchErase
  <2>1. match \in Claimed
    BY <1>10, ClaimedMatch DEF MatchErase, ClaimedAt
  <2>2. match' \in Claimed
    BY <1>b, <1>c, <1>10, <2>1 DEF MatchErase
  <2>3. Enrolled' \subseteq Users /\ \A u \in Enrolled' : role'[u] \in Role
    BY <1>10 DEF MatchErase, Remove, TypeOK, Enrolled
  <2>4. mishaps' \subseteq Mishap
    BY <1>10 DEF MatchErase, NoteOverlap, Mishandled, TypeOK, Mishap
  <2> QED
    BY <1>2, <1>10, <2>2, <2>3, <2>4 DEF MatchErase, TypeOK, TaskOK, gateVars, permVars, enrolVars,
       appVars, Reqs
<1>11. CASE MatchRename
  <2>1. match \in Claimed
    BY <1>11, ClaimedMatch DEF MatchRename, ClaimedAt
  <2>2. match' \in Claimed
    <3>1. PICK o \in {"ok", "failed", "not_found", "name_taken"} : Finished(o)
      BY <1>11 DEF MatchRename
    <3> QED
      BY <1>b, <1>c, <2>1, <3>1
  <2> QED
    BY <1>3, <1>4, <1>11, <2>2 DEF MatchRename
<1>12. CASE MatchStartEnrol
  <2>1. match \in Claimed
    BY <1>12, ClaimedMatch DEF MatchStartEnrol, ClaimedAt
  <2>2. match' \in Claimed
    <3>1. match' \in {[match EXCEPT !.at = "hold", !.outcome = "ok"],
                      [match EXCEPT !.at = "hold", !.outcome = "failed"]}
      BY <1>12 DEF MatchStartEnrol
    <3>2. /\ [match EXCEPT !.at = "hold", !.outcome = "ok"] \in Claimed
          /\ [match EXCEPT !.at = "hold", !.outcome = "failed"] \in Claimed
      BY <1>a, <1>b, <2>1, ClaimedKeeps
    <3> QED
      BY <3>1, <3>2
  <2>3. enrol' \in [at : {"idle", "requested", "active"}, user : Maybe(Users), perm : Role]
    BY <1>12, <2>1 DEF MatchStartEnrol, TypeOK, Claimed
  <2> QED
    BY <1>2, <1>12, <2>2, <2>3 DEF MatchStartEnrol, TypeOK, TaskOK, gateVars, permVars, appVars,
       Reqs, Enrolled
<1>13. CASE MatchHold
  <2>1. match \in Claimed
    BY <1>13, ClaimedMatch DEF MatchHold, ClaimedAt
  <2>2. match' \in Claimed
    BY <1>13, <2>1, ClaimedKeeps DEF MatchHold, ClaimedAt, Reporting
  <2>3. hold' \in BOOLEAN
    BY <1>13 DEF MatchHold, Holds
  <2> QED
    BY <1>3, <1>4, <1>13, <2>2, <2>3 DEF MatchHold
<1>14. CASE MatchRequestEnrol
  <2>1. match \in Claimed
    BY <1>14, ClaimedMatch DEF MatchRequestEnrol, ClaimedAt
  <2>2. match' \in Claimed
    BY <1>14, <2>1, ClaimedKeeps DEF MatchRequestEnrol, ClaimedAt
  <2>3. enrol' \in [at : {"idle", "requested", "active"}, user : Maybe(Users), perm : Role]
    BY <1>14 DEF MatchRequestEnrol, TypeOK, Maybe, Role
  <2> QED
    BY <1>2, <1>14, <2>2, <2>3 DEF MatchRequestEnrol, TypeOK, TaskOK, gateVars, permVars, appVars,
       Reqs, Enrolled
<1>15. CASE MatchHoldEnrol
  <2>1. match \in Claimed
    BY <1>15, ClaimedMatch DEF MatchHoldEnrol, ClaimedAt
  <2>2. match' \in Claimed
    BY <1>15, <2>1, ClaimedKeeps DEF MatchHoldEnrol, ClaimedAt
  <2> QED
    BY <1>3, <1>4, <1>15, <2>2 DEF MatchHoldEnrol
<1>16. CASE MatchEmitEnrol
  <2>1. match \in Claimed
    BY <1>16, ClaimedMatch DEF MatchEmitEnrol, ClaimedAt
  <2>2. match' \in Claimed
    BY <1>16, <2>1, ClaimedKeeps DEF MatchEmitEnrol, ClaimedAt
  <2>3. enrol.at = "requested" /\ enrol.user \in Users
    BY <1>16 DEF MatchEmitEnrol, EnrolInv
  <2>4. enrol' \in [at : {"idle", "requested", "active"}, user : Maybe(Users), perm : Role]
    BY <1>16 DEF MatchEmitEnrol, TypeOK, enrolVars
  <2>5. startEvent' \in Maybe([user : Users, perm : Role])
    BY <1>16, <2>3 DEF MatchEmitEnrol, TypeOK, enrolVars, Maybe
  <2>6. hold' \in BOOLEAN
    BY <1>16 DEF MatchEmitEnrol, TypeOK
  <2> QED
    BY <1>2, <1>16, <2>2, <2>4, <2>5, <2>6 DEF MatchEmitEnrol, TypeOK, TaskOK, gateVars, permVars,
       appVars, Reqs, Enrolled
<1>17. CASE MatchAnswerAdminAction
  <2>1. req' \in Reqs /\ Asks
    BY <1>1, <1>2, <1>17, ReplyKeeps DEF MatchAnswerAdminAction, Outcome, Asks
  <2>2. ble' \in Noted
    BY <1>17 DEF MatchAnswerAdminAction, TypeOK, Noted
  <2> QED
    BY <1>17, <2>1, <2>2 DEF MatchAnswerAdminAction, TypeOK, TaskOK, gateVars, permVars, enrolVars,
       Reqs, Enrolled
<1>18. CASE MatchPermission
  <2>1. match \in Claimed
    BY <1>18, ClaimedMatch DEF MatchPermission, ClaimedAt
  <2>2. match' \in Claimed
    <3>1. match' \in {[match EXCEPT !.at = "complete", !.outcome = "ok"],
                      [match EXCEPT !.at = "complete"]}
      BY <1>18 DEF MatchPermission
    <3>2. /\ [match EXCEPT !.at = "complete", !.outcome = "ok"] \in Claimed
          /\ [match EXCEPT !.at = "complete"] \in Claimed
      BY <1>a, <1>b, <2>1, ClaimedKeeps
    <3> QED
      BY <3>1, <3>2
  <2>3. Enrolled' \subseteq Users /\ \A u \in Enrolled' : role'[u] \in Role
    BY <1>18, <2>1 DEF MatchPermission, TypeOK, Enrolled, Claimed
  <2>4. mishaps' \subseteq Mishap
    BY <1>18 DEF MatchPermission, NoteOverlap, Mishandled, TypeOK, Mishap
  <2> QED
    BY <1>2, <1>18, <2>2, <2>3, <2>4 DEF MatchPermission, TypeOK, TaskOK, gateVars, permVars,
       enrolVars, appVars, Reqs
<1>19. CASE MatchComplete
  <2>1. match \in Claimed
    BY <1>19, ClaimedMatch DEF MatchComplete, ClaimedAt
  <2>2. match.outcome \in Outcome
    BY <2>1 DEF Claimed
  <2>3. permChange' \in Change /\ mishaps' \subseteq Mishap /\ match' \in {Idle, [at |-> "give"]}
    <3>1. Closed(match.outcome) \in Change /\ permChange \in Change
      BY <1>1, <2>2, ChangeTypes DEF TypeOK, Change
    <3> QED
      BY <1>4, <1>b, <1>d, <1>19, <3>1 DEF MatchComplete, CompletePermission, Mishandled
  <2> QED
    BY <1>2, <1>19, <2>3 DEF MatchComplete, TypeOK, TaskOK, Change, gateVars, enrolVars, appVars,
       Reqs, Enrolled
<1>20. CASE MatchGive
  <2>1. UNCHANGED <<role, pending, target, armedBy, permChange, umResult, enrol, startEvent, hold,
                    sweep, enroller, host, app, zigbee, slot, queue, gate, ble, req, mishaps>>
        /\ doneSem' \in BOOLEAN /\ match' = Idle
    BY <1>20 DEF MatchGive, gateVars, enrolVars, appVars
  <2> QED
    BY <1>2, <2>1 DEF TypeOK, TaskOK, Reqs, Enrolled
<1>21. CASE MatchRecord
  <2>1. match \in Claimed
    BY <1>21, ClaimedMatch DEF MatchRecord, ClaimedAt, Reporting
  <2>2. match' \in Claimed
    BY <1>21, <2>1, ClaimedKeeps DEF MatchRecord, ClaimedAt, Reporting
  <2>3. umResult' \in [valid : BOOLEAN, outcome : Outcome] /\ mishaps' \subseteq Mishap
    <3>1. /\ [valid |-> TRUE, outcome |-> match.outcome] \in [valid : BOOLEAN, outcome : Outcome]
          /\ umResult \in [valid : BOOLEAN, outcome : Outcome]
      BY <2>1 DEF TypeOK, Claimed
    <3> QED
      BY <1>4, <1>b, <1>d, <1>21, <3>1 DEF MatchRecord, RecordResult, Mishandled
  <2> QED
    BY <1>2, <1>21, <2>2, <2>3 DEF MatchRecord, TypeOK, TaskOK, gateVars, permVars, enrolVars,
       appVars, Reqs, Enrolled
<1>22. CASE MatchCallback
  <2>1. match \in Claimed
    BY <1>22, ClaimedMatch DEF MatchCallback, ClaimedAt, Reporting
  <2>2. umResult' \in [valid : BOOLEAN, outcome : Outcome] /\ match' \in {Idle} \cup Claimed
    <3>1. umResult.outcome \in Outcome /\ "failed" \in Outcome
      BY DEF TypeOK, Outcome
    <3>2. CASE gate.open
      <4>1. PICK have \in BOOLEAN :
              /\ TakeResult(have)
              /\ match' = [match EXCEPT !.at = "resolve", !.outcome =
                              IF have THEN umResult.outcome ELSE "failed"]
        BY <1>22, <3>2 DEF MatchCallback
      <4>2. (IF have THEN umResult.outcome ELSE "failed") \in Outcome
        BY <3>1
      <4> QED
        BY <1>a, <2>1, <4>1, <4>2, Taken, ClaimedKeeps
    <3>3. CASE ~gate.open
      BY <1>22, <3>3 DEF MatchCallback, TypeOK
    <3> QED
      BY <3>2, <3>3
  <2>3. mishaps' \subseteq Mishap
    <3>1. UNCHANGED mishaps \/ Mishandled("lateNote")
      BY <1>22 DEF MatchCallback
    <3> QED
      BY <1>4, <1>b, <1>d, <3>1
  <2>4. UNCHANGED <<role, pending, target, armedBy, permChange, doneSem, enrol, startEvent, hold,
                    sweep, enroller, host, app, zigbee, slot, queue, gate, ble, req>>
    BY <1>22 DEF MatchCallback, gateVars, permVars, enrolVars, appVars
  <2> QED
    BY <1>2, <2>2, <2>3, <2>4 DEF TypeOK, TaskOK, Reqs, Enrolled
<1>23. CASE MatchResolve
  <2>1. match \in Claimed
    BY <1>23, ClaimedMatch DEF MatchResolve, ClaimedAt, Reporting
  <2>2. match.outcome \in Outcome /\ req' = Replied(gate.req, match.outcome)
    BY <1>23, <2>1 DEF Claimed, MatchResolve
  <2>3. req' \in Reqs /\ Asks
    BY <1>1, <2>2, ReplyKeeps DEF Asks
  <2>4. gate' \in Noted
    BY <1>23 DEF MatchResolve, TypeOK, Noted
  <2>5. UNCHANGED <<role, pending, target, armedBy, permChange, doneSem, umResult, enrol,
                    startEvent,
                    hold, sweep, enroller, host, app, zigbee, slot, queue, ble,
                    mishaps>> /\ match' = Idle
    BY <1>23 DEF MatchResolve, gateVars, permVars, enrolVars
  <2> QED
    BY <2>3, <2>4, <2>5 DEF TypeOK, TaskOK, Reqs, Enrolled
<1> QED
  BY <1>5, <1>6, <1>7, <1>8, <1>9, <1>10, <1>11, <1>12, <1>13, <1>14, <1>15, <1>16, <1>17, <1>18,
     <1>19, <1>20, <1>21, <1>22, <1>23 DEF MatchStep

\* The admin task's steps: the button, the timeout and what follows it.
LEMMA SweepTypes ==
  ASSUME GateAssumption, TypeOK, ButtonDispatch \/ SweepStep
  PROVE  TypeOK' /\ UNCHANGED req
<1>1. CASE ButtonDispatch
  <2>1. /\ pending' \in Action \cup {"NONE"} /\ armedBy' \in Maybe(Requests)
        /\ target' \in [user : Maybe(Users), perm : Role]
    BY <1>1 DEF ButtonDispatch, TypeOK, Arm, UmAction, Action, Askable, Maybe
  <2> QED
    BY <1>1, <2>1 DEF ButtonDispatch, TypeOK, TaskOK, permVars, enrolVars, tasks, appVars, Enrolled
<1>2. CASE Sweep
  <2>1. /\ pending' \in Action \cup {"NONE"} /\ armedBy' \in Maybe(Requests)
        /\ target' \in [user : Maybe(Users), perm : Role]
    BY <1>2 DEF Sweep, Disarm, TypeOK, Maybe
  <2>2. sweep' \in [at : {"release"}, action : Action]
    BY <1>2 DEF Sweep, Timed, TypeOK
  <2>3. umResult' \in [valid : BOOLEAN, outcome : Outcome]
    <3>1. /\ [valid |-> TRUE, outcome |-> "timeout"] \in [valid : BOOLEAN, outcome : Outcome]
          /\ umResult \in [valid : BOOLEAN, outcome : Outcome]
      BY DEF TypeOK, Outcome
    <3> QED
      BY <1>2, <3>1 DEF Sweep, RecordResult
  <2>4. UNCHANGED <<role, permChange, doneSem, enrol, startEvent, hold, match, enroller, host,
                    app, zigbee,
                    slot, queue, gate, ble, req, mishaps>>
    BY <1>2 DEF Sweep, permVars, enrolVars, appVars
  <2> QED
    BY <2>1, <2>2, <2>3, <2>4 DEF TypeOK, TaskOK, Enrolled
<1>3. CASE SweepRelease
  <2>1. sweep' \in [at : {"complete", "post"}, action : Action] /\ hold' \in BOOLEAN
    <3>1. sweep \in [at : {"release", "complete", "give", "post"}, action : Action]
      BY <1>3 DEF SweepRelease, TypeOK, TaskOK, Idle
    <3> QED
      BY <1>3, <3>1 DEF SweepRelease, AfterRelease
  <2>2. UNCHANGED <<role, pending, target, armedBy, permChange, doneSem, umResult, enrol,
                    startEvent,
                    match, enroller, host, app, zigbee, slot, queue, gate, ble, req, mishaps>>
    BY <1>3 DEF SweepRelease, gateVars, permVars, enrolVars, appVars
  <2> QED
    BY <2>1, <2>2 DEF TypeOK, TaskOK, Enrolled
<1>4. CASE SweepComplete
  <2>1. sweep' \in [at : {"give", "post"}, action : Action]
    BY <1>4 DEF SweepComplete, CompletePermission, TypeOK, TaskOK, Idle
  <2>2. permChange' \in Change
    <3>1. Closed("timeout") \in Change
      BY DEF Closed, Change, Maybe, Role, Outcome
    <3> QED
      BY <1>4, <3>1 DEF SweepComplete, CompletePermission, TypeOK, Change
  <2>3. mishaps' \subseteq Mishap
    BY <1>4, MishapKeeps DEF SweepComplete, CompletePermission, TypeOK, Mishap
  <2>4. UNCHANGED <<role, pending, target, armedBy, doneSem, umResult, enrol, startEvent, hold,
                    match, enroller, host, app, zigbee, slot, queue, gate, ble, req>>
    BY <1>4 DEF SweepComplete, gateVars, enrolVars, appVars
  <2> QED
    BY <2>1, <2>2, <2>3, <2>4 DEF TypeOK, TaskOK, Change, Enrolled
<1>5. CASE SweepGive
  <2>1. sweep' \in [at : {"post"}, action : Action] /\ doneSem' \in BOOLEAN
    BY <1>5 DEF SweepGive, TypeOK, TaskOK, Idle
  <2>2. UNCHANGED <<role, pending, target, armedBy, permChange, umResult, enrol, startEvent, hold,
                    match, enroller, host, app, zigbee, slot, queue, gate, ble, req, mishaps>>
    BY <1>5 DEF SweepGive, gateVars, enrolVars, appVars
  <2> QED
    BY <2>1, <2>2 DEF TypeOK, TaskOK, Enrolled
<1>6. CASE SweepPost
  <2>1. [type |-> "COMPLETE", action |-> sweep.action] \in Message
    BY <1>6 DEF SweepPost, TypeOK, TaskOK, Idle, Message
  <2>2. queue' \in Seq(Message) /\ Len(queue') <= QueueDepth /\ mishaps' \subseteq Mishap
    BY <1>6, <2>1, PostKeeps DEF SweepPost, TypeOK
  <2> QED
    BY <1>6, <2>2 DEF SweepPost, TypeOK, TaskOK, gateVars, permVars, enrolVars, Enrolled
<1> QED
  BY <1>1, <1>2, <1>3, <1>4, <1>5, <1>6 DEF SweepStep, ButtonDispatch, Sweep, SweepRelease,
     SweepComplete, SweepGive, SweepPost, appVars

\* The enroll task's steps: the start, the end and the new user.
LEMMA EnrolTypes ==
  ASSUME GateAssumption, TypeOK, EnrolInv, EnrolStep
  PROVE  TypeOK' /\ UNCHANGED req
<1>1. CASE EnrolStart
  <2>1. startEvent \in [user : Users, perm : Role]
    BY <1>1 DEF EnrolStart, TypeOK, Maybe
  <2>2. /\ enrol' \in [at : {"idle", "requested", "active"}, user : Maybe(Users), perm : Role]
        /\ startEvent' \in Maybe([user : Users, perm : Role]) /\ hold' \in BOOLEAN
    BY <1>1, <2>1 DEF EnrolStart, Maybe
  <2> QED
    BY <1>1, <2>2 DEF EnrolStart, TypeOK, TaskOK, gateVars, permVars, tasks, appVars, Enrolled
<1>2. CASE EnrolEnd
  <2>1. enrol.user \in Users /\ enrol.perm \in Role
    BY <1>2 DEF EnrolEnd, EnrolInv, TypeOK
  <2>2. PICK stored \in BOOLEAN :
          enroller' = [at |-> "end", stored |-> stored, user |-> enrol.user, perm |-> enrol.perm]
    BY <1>2 DEF EnrolEnd
  <2>3. enroller' \in [at : {"end"}, stored : BOOLEAN, user : Users, perm : Role]
    BY <2>1, <2>2
  <2>4. enrol' \in [at : {"idle", "requested", "active"}, user : Maybe(Users), perm : Role]
    BY <1>2 DEF EnrolEnd, TypeOK
  <2>5. UNCHANGED <<role, pending, target, armedBy, permChange, doneSem, umResult, startEvent, hold,
                    match, sweep, host, app, zigbee, slot, queue, gate, ble, req, mishaps>>
    BY <1>2 DEF EnrolEnd, gateVars, permVars, appVars
  <2> QED
    BY <2>3, <2>4, <2>5 DEF TypeOK, TaskOK, Enrolled
<1>3. CASE EnrolReset
  <2>1. enroller \in [at : {"end"}, stored : BOOLEAN, user : Users, perm : Role]
    BY <1>3 DEF EnrolReset, TypeOK, TaskOK, Idle
  <2>2. Enrolled' \subseteq Users /\ \A u \in Enrolled' : role'[u] \in Role
    <3>1. enroller.user \in Users /\ enroller.perm \in Role
      BY <2>1
    <3>2. \/ role' = [u \in Enrolled \cup {enroller.user} |->
                        IF u = enroller.user THEN enroller.perm ELSE role[u]]
          \/ role' = role
      BY <1>3 DEF EnrolReset
    <3> QED
      BY <3>1, <3>2 DEF TypeOK, Enrolled
  <2>3. enrol' \in [at : {"idle", "requested", "active"}, user : Maybe(Users), perm : Role]
    BY <1>3 DEF EnrolReset, TypeOK
  <2>4. mishaps' \subseteq Mishap
    BY <1>3, MishapKeeps DEF EnrolReset, TypeOK, Mishap
  <2>5. /\ UNCHANGED <<pending, target, armedBy, permChange, doneSem, umResult, startEvent, match,
                       sweep, host, app, zigbee, slot, queue, gate, ble, req>>
        /\ hold' \in BOOLEAN /\ enroller' = Idle
    BY <1>3 DEF EnrolReset, gateVars, permVars, appVars
  <2> QED
    BY <2>2, <2>3, <2>4, <2>5 DEF TypeOK, TaskOK
<1> QED
  BY <1>1, <1>2, <1>3 DEF EnrolStep, EnrolStart, EnrolEnd, EnrolReset, appVars

\* The Zigbee task's deletion.
LEMMA ZigbeeTypes ==
  ASSUME GateAssumption, TypeOK, ZigbeeStep
  PROVE  TypeOK' /\ UNCHANGED req
<1>1. ASSUME NEW u \in Erasable, ZigbeeDelete(u) PROVE TypeOK' /\ UNCHANGED req
  <2>1. zigbee' \in [at : {"erase"}, user : Users]
    BY <1>1 DEF ZigbeeDelete, GateAssumption
  <2>2. UNCHANGED <<role, pending, target, armedBy, permChange, doneSem, umResult, enrol,
                    startEvent,
                    hold, match, sweep, enroller, host, app, slot, queue, gate, ble, req, mishaps>>
    BY <1>1 DEF ZigbeeDelete, gateVars, permVars, enrolVars, appVars
  <2> QED
    BY <2>1, <2>2 DEF TypeOK, TaskOK, Enrolled
<1>2. CASE ZigbeeErase
  <2>1. Enrolled' \subseteq Users /\ \A u \in Enrolled' : role'[u] \in Role
    <3>1. UNCHANGED role \/ role' = [v \in Enrolled \ {zigbee.user} |-> role[v]]
      BY <1>2 DEF ZigbeeErase, Remove
    <3> QED
      BY <3>1 DEF TypeOK, Enrolled
  <2>2. mishaps' \subseteq Mishap
    BY <1>2 DEF ZigbeeErase, TypeOK, Mishap
  <2>3. /\ UNCHANGED <<pending, target, armedBy, permChange, doneSem, umResult, enrol, startEvent,
                       hold, match, sweep, enroller, host, app, slot, queue, gate, ble, req>>
        /\ zigbee' = Idle
    BY <1>2 DEF ZigbeeErase, gateVars, permVars, enrolVars, appVars
  <2> QED
    BY <2>1, <2>2, <2>3 DEF TypeOK, TaskOK
<1> QED
  BY <1>1, <1>2 DEF ZigbeeStep

\* Every step keeps the types, and every request asks what it asked.
LEMMA TypeStep ==
  ASSUME GateAssumption, TypeOK, EnrolInv, MatchInv, Next
  PROVE  TypeOK' /\ Asks
<1>1. UNCHANGED req => Asks
  BY DEF Asks
<1> QED
  BY <1>1, HostTypes, AppTypes, ScanTypes, MatchTypes, SweepTypes, EnrolTypes, ZigbeeTypes
  DEF Next

-----------------------------------------------------------------------------
(* What a step leaves alone.                                               *)

\* The steps that may change each variable; whatever a step may do, a mishap is
\* not forgotten.
LEMMA Frames ==
  ASSUME Next
  PROVE  /\ \/ UNCHANGED gateVars
            \/ \E r \in Requests : AppArm(r)
            \/ HostArmAdminAction \/ AppArmPermission \/ Scanned \/ ButtonDispatch \/ Sweep
         /\ UNCHANGED match \/ Scanned \/ MatchStep
         /\ UNCHANGED sweep \/ SweepStep
         /\ UNCHANGED enroller \/ EnrolStep
         /\ UNCHANGED app \/ AppStep
         /\ UNCHANGED host \/ HostStep
         /\ UNCHANGED zigbee \/ ZigbeeStep
         /\ UNCHANGED role \/ MatchErase \/ MatchPermission \/ EnrolReset \/ ZigbeeErase
         /\ \/ UNCHANGED permChange
            \/ AppArmPermission \/ DenyPermission \/ MatchComplete \/ SweepComplete
         /\ \/ UNCHANGED enrol
            \/ MatchStartEnrol \/ MatchRequestEnrol \/ MatchEmitEnrol \/ EnrolStep
         /\ UNCHANGED startEvent \/ MatchEmitEnrol \/ EnrolStart
         /\ \/ UNCHANGED hold
            \/ AppHold \/ MatchRelease \/ MatchHold \/ MatchHoldEnrol \/ MatchEmitEnrol
            \/ SweepRelease \/ EnrolStart \/ EnrolReset
         /\ UNCHANGED gate \/ AppGate \/ AppResolve \/ MatchResolve
         /\ UNCHANGED ble \/ HostStep \/ AppComplete \/ MatchAnswerAdminAction
         /\ UNCHANGED slot \/ slot' = None \/ \E r \in Requests : HostRequest(r) /\ slot' = r
         /\ mishaps \subseteq mishaps'
<1>1. CASE HostStep
  BY <1>1 DEF HostStep, HostRequest, HostNoteAdminAction, HostArmAdminAction, Post, Mishandled,
     gateVars, enrolVars, permVars, tasks
<1>2. CASE AppStep
  BY <1>2 DEF AppStep, Processing, AppArm, AppRefuse, AppPermission, AppHold, AppGate, AppArmPermission,
     AppWake, AppAnswerPermission, AppGiveUp, AppComplete, AppResolve, Mishandled, gateVars, enrolVars,
     permVars, tasks, appVars
<1>3. CASE Scanned
  BY <1>3 DEF Scanned, ClaimByAdmin, DenyRemote, DenyPermission, gateVars, enrolVars, permVars,
     appVars
<1>4. CASE MatchStep
  BY <1>4 DEF MatchStep, MatchRelease, MatchPost, MatchReadTarget, MatchMissTarget, MatchDelete,
     MatchErase, MatchRename, MatchStartEnrol, MatchHold, MatchRequestEnrol, MatchHoldEnrol,
     MatchEmitEnrol, MatchAnswerAdminAction, MatchPermission, MatchComplete, MatchGive, MatchRecord,
     MatchCallback, MatchResolve, CompletePermission, Post, NoteOverlap, Mishandled, gateVars,
     enrolVars, permVars, appVars
<1>5. CASE ButtonDispatch \/ SweepStep
  BY <1>5 DEF ButtonDispatch, SweepStep, Sweep, SweepRelease, SweepComplete, SweepGive, SweepPost,
     CompletePermission, Post, Mishandled, gateVars, enrolVars, permVars, tasks, appVars
<1>6. CASE EnrolStep
  BY <1>6 DEF EnrolStep, EnrolStart, EnrolEnd, EnrolReset, Mishandled, gateVars, enrolVars,
     permVars, tasks, appVars
<1>7. CASE ZigbeeStep
  BY <1>7 DEF ZigbeeStep, ZigbeeDelete, ZigbeeErase, gateVars, enrolVars, permVars, appVars
<1> QED
  BY <1>1, <1>2, <1>3, <1>4, <1>5, <1>6, <1>7 DEF Next

\* Each task begins something new only when it is idle.
LEMMA IdleFirst ==
  /\ Scanned => match.at = "idle" /\ enrol.at = "idle"
  /\ Sweep => sweep.at = "idle"
  /\ EnrolStart \/ EnrolEnd => enroller.at = "idle"
  /\ \A r : Processing(r) => app.at = "idle"
  /\ AppComplete => app.at = "idle"
<1>1. Scanned => match = Idle /\ enrol.at = "idle"
  BY DEF Scanned, ClaimByAdmin, DenyRemote, DenyPermission, Scans
<1>2. Sweep => sweep = Idle
  BY DEF Sweep
<1>3. EnrolStart \/ EnrolEnd => enroller = Idle
  BY DEF EnrolStart, EnrolEnd
<1>4. (\A r : Processing(r) => app = Idle) /\ (AppComplete => app = Idle)
  BY DEF Processing, AppComplete
<1>5. Idle.at = "idle"
  BY DEF Idle
<1> QED
  BY <1>1, <1>2, <1>3, <1>4, <1>5

-----------------------------------------------------------------------------
(* What is pending, and for whom.                                          *)

\* Every request that is made has its user.
LEMMA ReqStep ==
  ASSUME ReqInv, Asks
  PROVE  ReqInv'
BY DEF ReqInv, Asks

\* Arming notes the request that asks for the action and its target, and disarming
\* forgets it.
LEMMA ArmStep ==
  ASSUME GateAssumption, TypeOK, ArmInv, KindInv, Asks, Next
  PROVE  ArmInv'
<1> USE DEF ArmInv, UmAction, Askable
<1>1. pending \in Action \cup {"NONE"} /\ armedBy \in Maybe(Requests)
  BY DEF TypeOK
<1>2. CASE UNCHANGED gateVars
  BY <1>1, <1>2 DEF gateVars, Asks
<1>3. ASSUME NEW r \in Requests, AppArm(r) PROVE ArmInv'
  <2>1. req' = req /\ pending' = req[r].action /\ armedBy' = r /\ pending' \in UmAction
        /\ target' = [user |-> req[r].user, perm |-> req[r].perm]
    BY <1>3 DEF AppArm, Arm
  <2> QED
    BY <2>1
<1>4. CASE HostArmAdminAction
  <2>1. host \in Requests /\ req[host].action = "ENROLL_ADMIN"
    BY <1>4 DEF HostArmAdminAction, KindInv, TypeOK, TaskOK, Maybe
  <2>2. CASE pending' = "ENROLL_ADMIN" /\ armedBy' = host
    BY <2>1, <2>2 DEF Asks
  <2> QED
    BY <1>2, <1>4, <2>2 DEF HostArmAdminAction, Arm, gateVars
<1>5. CASE AppArmPermission
  <2>1. app.req \in Requests /\ req[app.req].action = "CHANGE_PERMISSION"
    BY <1>5 DEF AppArmPermission, KindInv, TypeOK, TaskOK, Idle
  <2>2. CASE pending' = "CHANGE_PERMISSION" /\ armedBy' = app.req
    BY <2>1, <2>2 DEF Asks
  <2> QED
    BY <1>2, <1>5, <2>2 DEF AppArmPermission, Arm, gateVars
<1>6. CASE Scanned \/ Sweep
  <2>1. pending' = "NONE" /\ armedBy' = None
    BY <1>6 DEF Scanned, ClaimByAdmin, DenyRemote, DenyPermission, Sweep, Disarm
  <2> QED
    BY <2>1
<1>7. CASE ButtonDispatch
  BY <1>7 DEF ButtonDispatch, Arm
<1> QED
  BY <1>2, <1>3, <1>4, <1>5, <1>6, <1>7, Frames

\* Each task and each note is about a request of its kind.
LEMMA KindStep ==
  ASSUME GateAssumption, TypeOK, KindInv, Asks, TypeOK', Next
  PROVE  KindInv'
<1>1. /\ \A r \in Requests : req[r].action # "NONE" => req'[r].action = req[r].action
      /\ "NONE" \notin UmAction
  BY DEF Asks, UmAction
<1>2. /\ app.at = "hold" => req[app.req].action = "REMOTE_ENROLL" /\ app.req \in Requests
      /\ app.at = "gate" => req[app.req].action \in UmAction /\ app.req \in Requests
      /\ app.at \in {"arm", "wait", "woken"} =>
           req[app.req].action = "CHANGE_PERMISSION" /\ app.req \in Requests
      /\ host # None => req[host].action = "ENROLL_ADMIN" /\ host \in Requests
      /\ gate.req # None => req[gate.req].action \in UmAction /\ gate.req \in Requests
      /\ ble.req # None => req[ble.req].action = "ENROLL_ADMIN" /\ ble.req \in Requests
      /\ gate.open => gate.req # None
      /\ ble.open => ble.req # None
  BY DEF KindInv, TypeOK, TaskOK, Noted, Maybe, Idle
<1> DEFINE AppKind == /\ app.at = "hold" => req[app.req].action = "REMOTE_ENROLL"
                      /\ app.at = "gate" => req[app.req].action \in UmAction
                      /\ app.at \in {"arm", "wait", "woken"} =>
                           req[app.req].action = "CHANGE_PERMISSION"
<1>3. AppKind'
  <2>1. CASE UNCHANGED app
    BY <1>1, <1>2, <2>1
  <2>2. CASE app' = [app EXCEPT !.at = "gate"] /\ app.at = "hold"
    BY <1>1, <1>2, <2>2 DEF UmAction
  <2>3. CASE app' = [app EXCEPT !.at = "wait"] /\ app.at = "arm"
    BY <1>1, <1>2, <2>3
  <2>4. CASE app' = [app EXCEPT !.at = "woken"] /\ app.at = "wait"
    BY <1>1, <1>2, <2>4
  <2>5. CASE app' = Idle \/ app'.at = "resolve"
    BY <2>5 DEF Idle
  <2>6. ASSUME NEW r \in Requests, AppArm(r) \/ AppRefuse(r) \/ AppPermission(r) PROVE AppKind'
    BY <2>1, <2>6 DEF AppArm, AppRefuse, AppPermission, tasks, UmAction
  <2> QED
    <3>1. CASE AppHold
      BY <2>2, <3>1 DEF AppHold
    <3>2. CASE AppArmPermission
      BY <2>3, <2>5, <3>2 DEF AppArmPermission
    <3>3. CASE AppWake
      BY <2>4, <3>3 DEF AppWake
    <3>4. CASE AppGate \/ AppAnswerPermission \/ AppGiveUp \/ AppResolve
      BY <2>5, <3>4 DEF AppGate, AppAnswerPermission, AppGiveUp, AppResolve
    <3>5. CASE AppComplete
      <4>1. app' = app \/ app'.at = "resolve"
        BY <3>5 DEF AppComplete
      <4> QED
        BY <2>1, <2>5, <4>1
    <3>6. CASE AppStep
      BY <2>6, <3>1, <3>2, <3>3, <3>4, <3>5, <3>6 DEF AppStep
    <3> QED
      BY <2>1, <3>6, Frames
<1>4. host' # None => req'[host'].action = "ENROLL_ADMIN"
  <2>1. CASE UNCHANGED host
    BY <1>1, <1>2, <2>1
  <2>2. ASSUME NEW r \in Requests, HostRequest(r) PROVE UNCHANGED host
    BY <2>2 DEF HostRequest, tasks
  <2>3. ASSUME NEW r \in Requests, HostNoteAdminAction(r)
        PROVE  host' = r /\ req'[r].action = "ENROLL_ADMIN"
    BY <2>3 DEF HostNoteAdminAction, Open, TypeOK
  <2> QED
    BY <2>1, <2>2, <2>3, Frames DEF HostStep, HostArmAdminAction
<1>5. (gate'.req # None => req'[gate'.req].action \in UmAction) /\ (gate'.open => gate'.req # None)
  <2>1. CASE UNCHANGED gate
    BY <1>1, <1>2, <2>1
  <2>2. CASE AppGate
    BY <1>1, <1>2, <2>2 DEF AppGate, GateAssumption
  <2>3. CASE AppResolve \/ MatchResolve
    <3>1. gate' = [gate EXCEPT !.open = FALSE] /\ gate \in Noted
      BY <2>3 DEF AppResolve, MatchResolve, TypeOK
    <3>2. gate'.req = gate.req /\ ~gate'.open
      BY <3>1 DEF Noted
    <3> QED
      BY <1>1, <1>2, <3>2
  <2> QED
    BY <2>1, <2>2, <2>3, Frames
<1>6. (ble'.req # None => req'[ble'.req].action = "ENROLL_ADMIN") /\ (ble'.open => ble'.req # None)
  <2>1. CASE UNCHANGED ble
    BY <1>1, <1>2, <2>1
  <2>2. CASE ble' = [ble EXCEPT !.open = FALSE]
    <3>1. ble'.req = ble.req /\ ~ble'.open
      BY <2>2 DEF TypeOK, Noted
    <3> QED
      BY <1>1, <1>2, <3>1
  <2>3. ASSUME NEW r \in Requests, HostRequest(r) PROVE UNCHANGED ble
    BY <2>3 DEF HostRequest
  <2>4. ASSUME NEW r \in Requests, HostNoteAdminAction(r)
        PROVE  ble' = [open |-> TRUE, req |-> r] /\ r # None /\ req'[r].action = "ENROLL_ADMIN"
    BY <2>4 DEF HostNoteAdminAction, Open, TypeOK, GateAssumption
  <2> QED
    <3>1. CASE HostArmAdminAction \/ AppComplete \/ MatchAnswerAdminAction
      BY <2>1, <2>2, <3>1 DEF HostArmAdminAction, AppComplete, MatchAnswerAdminAction
    <3>2. CASE HostStep
      BY <1>1, <2>1, <2>3, <2>4, <3>1, <3>2 DEF HostStep
    <3> QED
      BY <2>1, <3>1, <3>2, Frames
<1> QED
  BY <1>3, <1>4, <1>5, <1>6 DEF KindInv

-----------------------------------------------------------------------------
(* The match task and the enrolment.                                       *)

\* The match task keeps to the request and to the stages of the action it claimed.
LEMMA MatchWalks ==
  ASSUME TypeOK, MatchInv, MatchStep, match'.at \in ClaimedAt
  PROVE  /\ match.at \in ClaimedAt /\ match'.by = match.by /\ match'.action = match.action
         /\ match'.at \in StagesOf(match.action)
<1> DEFINE Goal == /\ match.at \in ClaimedAt /\ match'.by = match.by /\ match'.action = match.action
                   /\ match'.at \in StagesOf(match.action)
<1>1. match.at \in ClaimedAt => match \in Claimed /\ match.at \in StagesOf(match.action)
  BY ClaimedMatch DEF MatchInv
<1>2. {"target", "run", "erase", "hold", "complete", "local", "start", "emit", "answer", "record",
       "callback", "resolve"} \subseteq ClaimedAt
  BY DEF ClaimedAt, Reporting
<1>3. CASE MatchRelease \/ MatchPost \/ MatchGive \/ MatchResolve \/ MatchAnswerAdminAction
  <2>1. match'.at \in {"post", "idle"}
    <3>1. CASE MatchRelease
      <4>1. match \in [at : {"release", "post"}, action : UmAction]
        BY <3>1 DEF MatchRelease, TypeOK, TaskOK, Idle, Claimed
      <4> QED
        BY <3>1, <4>1 DEF MatchRelease
    <3> QED
      BY <1>3, <3>1 DEF MatchPost, MatchGive, MatchResolve, MatchAnswerAdminAction, Idle
  <2> QED
    BY <2>1 DEF ClaimedAt, Reporting
<1>4. CASE MatchReadTarget
  BY <1>1, <1>2, <1>4 DEF MatchReadTarget, StagesOf, Claimed
<1>5. CASE MatchMissTarget
  BY <1>1, <1>2, <1>5 DEF MatchMissTarget, StagesOf, Reporting, Claimed
<1>6. CASE MatchDelete
  BY <1>1, <1>2, <1>6 DEF MatchDelete, Finished, StagesOf, Reporting, Claimed
<1>7. CASE MatchErase
  BY <1>1, <1>2, <1>7 DEF MatchErase, Finished, StagesOf, Reporting, Claimed
<1>8. CASE MatchRename
  BY <1>1, <1>2, <1>8 DEF MatchRename, Finished, StagesOf, Reporting, Claimed
<1>9. CASE MatchStartEnrol
  BY <1>1, <1>2, <1>9 DEF MatchStartEnrol, StagesOf, Claimed
<1>10. CASE MatchHold
  BY <1>1, <1>2, <1>10 DEF MatchHold, StagesOf, Reporting, Claimed
<1>11. CASE MatchRequestEnrol \/ MatchHoldEnrol \/ MatchEmitEnrol
  BY <1>1, <1>2, <1>11 DEF MatchRequestEnrol, MatchHoldEnrol, MatchEmitEnrol, StagesOf, Claimed,
     Reporting, Askable, UmAction
<1>12. CASE MatchPermission
  BY <1>1, <1>2, <1>12 DEF MatchPermission, StagesOf, Claimed
<1>13. CASE MatchComplete
  BY <1>13 DEF MatchComplete, CompletePermission, Idle, ClaimedAt, Reporting
<1>14. CASE MatchRecord
  BY <1>1, <1>2, <1>14 DEF MatchRecord, StagesOf, Reporting, Claimed
<1>15. CASE MatchCallback
  <2>1. match' = Idle \/ \E o : match' = [match EXCEPT !.at = "resolve", !.outcome = o]
    BY <1>15 DEF MatchCallback
  <2>2. match' # Idle
    BY DEF Idle, ClaimedAt, Reporting
  <2>3. match.at = "callback"
    BY <1>15 DEF MatchCallback
  <2> QED
    BY <1>1, <1>2, <2>1, <2>2, <2>3 DEF StagesOf, Reporting, Claimed
<1> QED
  BY <1>3, <1>4, <1>5, <1>6, <1>7, <1>8, <1>9, <1>10, <1>11, <1>12, <1>13, <1>14, <1>15
     DEF MatchStep

\* How the match task comes to each place of its work.
LEMMA MatchEnters ==
  ASSUME TypeOK, MatchStep
  PROVE  /\ match'.at \notin {"target", "local", "release"}
         /\ match'.at = "run" => MatchReadTarget \/ MatchMissTarget
         /\ match'.at = "erase" => MatchDelete
         /\ match'.at = "hold" => MatchStartEnrol
         /\ match'.at = "complete" => MatchMissTarget \/ MatchPermission
         /\ match'.at = "start" => MatchRequestEnrol
         /\ match'.at = "emit" => MatchHoldEnrol
         /\ match'.at = "post" => MatchRelease
         /\ match'.at = "resolve" => MatchCallback
<1>1. CASE match.at \in ClaimedAt
  <2>1. match \in Claimed
    BY <1>1, ClaimedMatch
  <2>2. match'.at \in {"idle", "give", "record", "callback", "answer"} \/ MatchCallback
        \/ MatchReadTarget \/ MatchMissTarget \/ MatchDelete \/ MatchStartEnrol \/ MatchRequestEnrol
        \/ MatchHoldEnrol \/ MatchPermission
    <3>1. CASE MatchRelease \/ MatchPost \/ MatchGive
      BY <1>1, <3>1 DEF MatchRelease, MatchPost, MatchGive, ClaimedAt, Reporting
    <3>2. CASE MatchErase \/ MatchRename \/ MatchHold \/ MatchRecord
      BY <2>1, <3>2 DEF MatchErase, MatchRename, MatchHold, MatchRecord, Finished, Claimed
    <3>3. CASE MatchEmitEnrol \/ MatchAnswerAdminAction \/ MatchComplete \/ MatchResolve
      BY <2>1, <3>3 DEF MatchEmitEnrol, MatchAnswerAdminAction, MatchComplete, CompletePermission,
         MatchResolve, Idle, Claimed
    <3> QED
      BY <3>1, <3>2, <3>3 DEF MatchStep
  <2>3. MatchReadTarget => match'.at = "run"
    BY <2>1 DEF MatchReadTarget, Claimed
  <2>4. MatchMissTarget => match'.at \in {"run", "record", "complete"}
    BY <2>1 DEF MatchMissTarget, Claimed
  <2>5. MatchDelete => match'.at \in {"erase", "record"}
    BY <2>1 DEF MatchDelete, Finished, Claimed
  <2>6. MatchStartEnrol => match'.at = "hold"
    BY <2>1 DEF MatchStartEnrol, Claimed
  <2>7. MatchRequestEnrol => match'.at \in {"start", "answer"}
    BY <2>1 DEF MatchRequestEnrol, Claimed
  <2>8. (MatchHoldEnrol => match'.at = "emit") /\ (MatchPermission => match'.at = "complete")
    BY <2>1 DEF MatchHoldEnrol, MatchPermission, Claimed
  <2>9. MatchCallback => match'.at \in {"idle", "resolve"}
    <3>1. ASSUME MatchCallback, match' # Idle PROVE match'.at = "resolve"
      <4>1. PICK o : match' = [match EXCEPT !.at = "resolve", !.outcome = o]
        BY <3>1 DEF MatchCallback
      <4>2. \A x : [match EXCEPT !.at = "resolve", !.outcome = x].at = "resolve"
        BY <2>1 DEF Claimed
      <4> QED
        BY <4>1, <4>2
    <3> QED
      BY <3>1 DEF Idle
  <2> QED
    BY <2>2, <2>3, <2>4, <2>5, <2>6, <2>7, <2>8, <2>9
<1>2. CASE match.at \notin ClaimedAt
  <2>1. MatchRelease \/ MatchPost \/ MatchGive
    BY <1>2 DEF MatchStep, MatchReadTarget, MatchMissTarget, MatchDelete, MatchErase, MatchRename,
       MatchStartEnrol, MatchHold, MatchRequestEnrol, MatchHoldEnrol, MatchEmitEnrol,
       MatchAnswerAdminAction, MatchPermission, MatchComplete, MatchRecord, MatchCallback,
       MatchResolve, ClaimedAt, Reporting
  <2>2. MatchRelease => match'.at = "post"
    BY DEF MatchRelease, TypeOK, TaskOK, Idle, Claimed
  <2> QED
    BY <2>1, <2>2 DEF MatchPost, MatchGive, Idle
<1> QED
  BY <1>1, <1>2

\* The match task works for the request whose action it claimed.
LEMMA MatchKeeps ==
  ASSUME GateAssumption, TypeOK, TypeOK', ReqInv, ArmInv, MatchInv, Asks, Next
  PROVE  MatchInv'
<1>1. match'.at \in ClaimedAt =>
        /\ match'.by \in Requests /\ req'[match'.by].action = match'.action
        /\ match'.at \in StagesOf(match'.action)
  <2>1. ASSUME match.at \in ClaimedAt, match'.by = match.by, match'.action = match.action
        PROVE  match'.by \in Requests /\ req'[match'.by].action = match'.action
    <3>1. match.action \in Askable /\ match.by \in Requests /\ req[match.by].action = match.action
      BY <2>1, ClaimedMatch DEF MatchInv, Claimed
    <3>2. match.action # "NONE"
      BY <3>1 DEF Askable, UmAction
    <3> QED
      BY <2>1, <3>1, <3>2 DEF Asks
  <2>2. CASE UNCHANGED match
    BY <2>1, <2>2 DEF MatchInv
  <2>3. CASE MatchStep
    BY <2>1, <2>3, MatchWalks
  <2>4. CASE ClaimByAdmin
    <3>1. CASE pending = "BLE_PAIRING_WINDOW"
      BY <2>4, <3>1 DEF ClaimByAdmin, Idle, ClaimedAt, Reporting
    <3>2. CASE pending # "BLE_PAIRING_WINDOW"
      <4>1. pending \in Askable
        BY <2>4, <3>2 DEF ClaimByAdmin, TypeOK, Action
      <4>2. armedBy \in Requests /\ req[armedBy].action = pending
        BY <4>1 DEF ArmInv
      <4>3. req' = req
        BY <2>4 DEF ClaimByAdmin, appVars
      <4>4. match' = [at |-> IF pending = "ENROLL_ADMIN" THEN "local" ELSE "target",
                      action |-> pending, by |-> armedBy, user |-> None, perm |-> "user",
                      outcome |-> "failed"]
        BY <2>4, <3>2 DEF ClaimByAdmin
      <4>5. match'.at \in StagesOf(pending)
        BY <4>1, <4>4 DEF StagesOf, Askable, UmAction
      <4> QED
        BY <4>2, <4>3, <4>4, <4>5
    <3> QED
      BY <3>1, <3>2
  <2>5. CASE DenyRemote \/ DenyPermission
    BY <2>5 DEF DenyRemote, DenyPermission, ClaimedAt, Reporting
  <2> QED
    BY <2>2, <2>3, <2>4, <2>5, Frames DEF Scanned
<1>2. match'.at = "target" /\ match'.action \in UmAction => target'.user \in Users
  <2>1. CASE ClaimByAdmin
    <3>1. ASSUME match'.at = "target", match'.action \in UmAction PROVE target'.user \in Users
      <4>1. pending \in UmAction
        BY <2>1, <3>1 DEF ClaimByAdmin, Idle
      <4>2. armedBy \in Requests /\ req[armedBy].action = pending /\ target.user = req[armedBy].user
        BY <4>1 DEF ArmInv, Askable
      <4>3. req[armedBy].user \in Users
        BY <4>1, <4>2 DEF ReqInv, UmAction
      <4> QED
        BY <2>1, <4>2, <4>3 DEF ClaimByAdmin, Disarm
    <3> QED
      BY <3>1
  <2>2. CASE ~ClaimByAdmin /\ match'.at = "target"
    <3>1. UNCHANGED match
      BY <2>2, MatchEnters, Frames DEF Scanned, DenyRemote, DenyPermission
    <3>2. UNCHANGED target \/ target'.user \in Users
      <4>1. \A r \in Requests : AppArm(r) => target'.user \in Users
        BY DEF AppArm, Arm, ReqInv, UmAction
      <4> QED
        BY <2>2, <4>1, Frames DEF HostArmAdminAction, AppArmPermission, Scanned, DenyRemote,
           DenyPermission, ButtonDispatch, Sweep, Disarm, Arm, UmAction, gateVars
    <3> QED
      BY <2>2, <3>1, <3>2 DEF MatchInv
  <2> QED
    BY <2>1, <2>2
<1>3. match'.at = "run" /\ match'.action = "REMOTE_ENROLL" => match'.user \in Users
  <2>1. ASSUME match'.at = "run", match'.action = "REMOTE_ENROLL" PROVE match'.user \in Users
    <3>1. CASE UNCHANGED match
      BY <2>1, <3>1 DEF MatchInv
    <3>2. CASE MatchReadTarget
      <4>1. match \in Claimed
        BY <3>2, ClaimedMatch DEF MatchReadTarget, ClaimedAt
      <4>2. match.action = "REMOTE_ENROLL"
        BY <2>1, <3>2, <4>1 DEF MatchReadTarget, Claimed
      <4>3. match' = [match EXCEPT !.at = "run", !.user = target.user, !.perm = target.perm]
        BY <3>2, <4>2 DEF MatchReadTarget
      <4>4. target.user \in Users
        BY <3>2, <4>2 DEF MatchReadTarget, MatchInv, UmAction
      <4> QED
        BY <4>1, <4>3, <4>4 DEF Claimed
    <3>3. CASE MatchMissTarget
      <4>1. match \in Claimed
        BY <3>3, ClaimedMatch DEF MatchMissTarget, ClaimedAt
      <4> QED
        BY <2>1, <3>3, <4>1 DEF MatchMissTarget, Claimed
    <3>4. CASE Scanned
      BY <2>1, <3>4 DEF Scanned, ClaimByAdmin, DenyRemote, DenyPermission, Idle
    <3> QED
      BY <2>1, <3>1, <3>2, <3>3, <3>4, MatchEnters, Frames
  <2> QED
    BY <2>1
<1> QED
  BY <1>1, <1>2, <1>3 DEF MatchInv

\* A request for an enrolment, its event and the enrolment follow each other.
LEMMA EnrolKeeps ==
  ASSUME GateAssumption, TypeOK, TypeOK', MatchInv, EnrolInv, Next
  PROVE  EnrolInv'
<1>1. CASE UNCHANGED enrolVars /\ UNCHANGED match
  BY <1>1, Frames DEF EnrolInv, enrolVars
<1>2. CASE Scanned
  <2>1. UNCHANGED enrolVars /\ (enrol.at = "idle" \/ match'.at \notin ClaimedAt)
    BY <1>2 DEF Scanned, ClaimByAdmin, DenyRemote, DenyPermission, Scans, ClaimedAt, Reporting
  <2>2. match'.at \notin {"start", "emit", "hold"}
    BY <1>2 DEF Scanned, ClaimByAdmin, DenyRemote, DenyPermission, Idle
  <2>3. match'.at \in ClaimedAt \ {"start", "emit", "answer"} => enrol'.at = "idle"
    BY <2>1 DEF enrolVars
  <2>4. startEvent # None => enrol.at = "requested"
    BY DEF EnrolInv
  <2> QED
    BY <2>1, <2>2, <2>3, <2>4 DEF EnrolInv, enrolVars
<1>3. CASE MatchStartEnrol
  <2>1. match.at = "run" /\ match.action = "REMOTE_ENROLL" /\ match.user \in Users
    BY <1>3 DEF MatchStartEnrol, MatchInv
  <2>2. enrol.at # "requested" /\ startEvent = None
    BY <2>1 DEF EnrolInv, ClaimedAt
  <2>3. match \in Claimed
    BY <2>1, ClaimedMatch DEF ClaimedAt
  <2>4. CASE UNCHANGED enrol /\ match' = [match EXCEPT !.at = "hold", !.outcome = "failed"]
    <3>1. match'.at = "hold" /\ match'.outcome = "failed"
      BY <2>3, <2>4 DEF Claimed
    <3>2. startEvent' = startEvent
      BY <1>3 DEF MatchStartEnrol
    <3> QED
      BY <2>2, <2>4, <3>1, <3>2 DEF EnrolInv
  <2>5. CASE /\ enrol' = [at |-> "active", user |-> match.user, perm |-> match.perm]
             /\ match' = [match EXCEPT !.at = "hold", !.outcome = "ok"]
    <3>1. match'.at = "hold" /\ enrol'.at = "active" /\ enrol'.user \in Users
      BY <2>1, <2>3, <2>5 DEF Claimed
    <3>2. startEvent' = startEvent
      BY <1>3 DEF MatchStartEnrol
    <3> QED
      BY <2>2, <3>1, <3>2 DEF EnrolInv
  <2> QED
    BY <1>3, <2>4, <2>5 DEF MatchStartEnrol
<1>4. CASE MatchRequestEnrol
  <2>1. match.at = "local" /\ match \in Claimed /\ startEvent' = startEvent
    BY <1>4, ClaimedMatch DEF MatchRequestEnrol, ClaimedAt
  <2>2. enrol.at # "requested" /\ startEvent = None
    BY <2>1 DEF EnrolInv, ClaimedAt
  <2>3. CASE UNCHANGED enrol /\ match' = [match EXCEPT !.at = "answer"]
    <3>1. match'.at = "answer"
      BY <2>1, <2>3 DEF Claimed
    <3> QED
      BY <2>1, <2>2, <2>3, <3>1 DEF EnrolInv
  <2>4. CASE ~(UNCHANGED enrol /\ match' = [match EXCEPT !.at = "answer"])
    <3>1. enrol'.at = "requested" /\ enrol'.user \in Users /\ match' = [match EXCEPT !.at = "start"]
      BY <1>4, <2>4 DEF MatchRequestEnrol, TypeOK
    <3>2. match'.at = "start"
      BY <2>1, <3>1 DEF Claimed
    <3> QED
      BY <2>1, <2>2, <3>1, <3>2 DEF EnrolInv
  <2> QED
    BY <2>3, <2>4
<1>5. CASE MatchEmitEnrol
  <2>1. match.at = "emit" /\ match \in Claimed
    BY <1>5, ClaimedMatch DEF MatchEmitEnrol, ClaimedAt
  <2>2. enrol.at = "requested" /\ enrol.user \in Users /\ startEvent = None
    BY <2>1 DEF EnrolInv
  <2>3. match'.at = "answer"
    BY <1>5, <2>1 DEF MatchEmitEnrol, Claimed
  <2>4. \/ enrol' = enrol
        \/ enrol' = [enrol EXCEPT !.at = "idle"] /\ startEvent' = None
    BY <1>5, <2>2 DEF MatchEmitEnrol, enrolVars
  <2>5. enrol \in [at : {"idle", "requested", "active"}, user : Maybe(Users), perm : Role]
    BY DEF TypeOK
  <2> QED
    BY <2>2, <2>3, <2>4, <2>5 DEF EnrolInv
<1>6. CASE MatchStep /\ UNCHANGED enrolVars
  <2>1. match'.at \notin {"start", "hold"} \/ MatchRequestEnrol \/ MatchStartEnrol
    BY <1>6, MatchEnters
  <2>2. match'.at = "emit" => match.at = "start"
    BY <1>6, MatchEnters DEF MatchHoldEnrol
  <2>3. match'.at \in ClaimedAt => match.at \in ClaimedAt
    BY <1>6, MatchWalks
  <2>4. match.at \in {"start", "emit", "answer"} =>
          match'.at \notin ClaimedAt \ {"start", "emit", "answer"} 
    <3>1. match.at \in {"start", "emit", "answer"} =>
            match.action \notin UmAction \cup {"CHANGE_PERMISSION"} /\ match.at \in ClaimedAt
      BY DEF MatchInv, StagesOf, ClaimedAt, Reporting, UmAction
    <3>2. \A a : a \notin UmAction \cup {"CHANGE_PERMISSION"} =>
            StagesOf(a) = {"local", "start", "emit", "answer"}
      BY DEF StagesOf, UmAction
    <3>3. match'.at # "local"
      BY <1>6, MatchEnters
    <3> QED
      BY <1>6, <3>1, <3>2, <3>3, MatchWalks
  <2> QED
    BY <1>3, <1>4, <1>6, <2>1, <2>2, <2>3, <2>4 DEF EnrolInv, enrolVars
<1>7. CASE EnrolStart
  <2>1. startEvent # None /\ startEvent \in [user : Users, perm : Role] /\ match' = match
    BY <1>7 DEF EnrolStart, TypeOK, tasks, Maybe
  <2>2. match.at \notin {"start", "emit"}
    BY <2>1 DEF EnrolInv
  <2>3. enrol'.at = "active" /\ enrol'.user \in Users /\ startEvent' = None
    BY <1>7, <2>1 DEF EnrolStart
  <2> QED
    BY <2>1, <2>2, <2>3 DEF EnrolInv
<1>8. CASE EnrolEnd
  <2>1. /\ enrol.at = "active" /\ (match.at = "hold" => match.outcome # "ok")
        /\ match' = match /\ startEvent' = startEvent /\ enrol' = [enrol EXCEPT !.at = "idle"]
    BY <1>8 DEF EnrolEnd
  <2>2. match.at \notin {"start", "emit"} /\ startEvent = None
    BY <2>1 DEF EnrolInv
  <2>3. enrol'.at = "idle"
    BY <2>1 DEF TypeOK
  <2> QED
    BY <2>1, <2>2, <2>3 DEF EnrolInv
<1>9. CASE EnrolReset
  <2>1. match' = match /\ startEvent' = startEvent
    BY <1>9 DEF EnrolReset
  <2>2. CASE enrol.at = "active"
    <3>1. enrol' = [enrol EXCEPT !.at = "idle"] /\ mishaps' = mishaps \cup {"clobbered"}
      BY <1>9, <2>2 DEF EnrolReset, Mishandled
    <3>2. enrol'.at = "idle" /\ "clobbered" \in mishaps'
      BY <3>1 DEF TypeOK
    <3> QED
      BY <2>1, <2>2, <3>2 DEF EnrolInv
  <2>3. CASE enrol.at # "active"
    BY <1>1, <1>9, <2>1, <2>3 DEF EnrolReset, enrolVars
  <2> QED
    BY <2>2, <2>3
<1> QED
  BY <1>1, <1>2, <1>3, <1>4, <1>5, <1>6, <1>7, <1>8, <1>9, Frames DEF EnrolStep, enrolVars

\* An enrolment that ends enters a new user and leaves the others alone.
LEMMA EnrolAdds ==
  ASSUME RoleInv, EnrolReset
  PROVE  Enrolled \subseteq Enrolled' /\ \A u \in Enrolled : role'[u] = role[u]
<1>1. CASE UNCHANGED role
  BY <1>1 DEF Enrolled
<1>2. CASE ~UNCHANGED role
  <2>1. /\ enroller.at = "end" /\ enroller.stored
        /\ role' = [u \in Enrolled \cup {enroller.user} |->
                      IF u = enroller.user THEN enroller.perm ELSE role[u]]
    BY <1>2 DEF EnrolReset
  <2>2. enroller.user \notin Enrolled
    BY <2>1 DEF RoleInv
  <2>3. Enrolled \subseteq Enrolled' /\ \A u \in Enrolled : role'[u] = role[u]
    BY <2>1, <2>2 DEF Enrolled
  <2> QED
    BY <2>3
<1> QED
  BY <1>1, <1>2

\* A template is stored for a new user only.
LEMMA RoleStep ==
  ASSUME TypeOK, RoleInv, Next
  PROVE  RoleInv'
<1>1. CASE EnrolEnd
  <2>1. PICK stored \in {FALSE, enrol.user \notin Enrolled} :
          enroller' = [at |-> "end", stored |-> stored, user |-> enrol.user, perm |-> enrol.perm]
    BY <1>1 DEF EnrolEnd
  <2>2. enroller'.stored = stored /\ enroller'.user = enrol.user /\ Enrolled' = Enrolled
    BY <1>1, <2>1 DEF EnrolEnd, Enrolled
  <2> QED
    BY <2>1, <2>2 DEF RoleInv
<1>2. CASE EnrolReset
  BY <1>2 DEF EnrolReset, Idle, RoleInv
<1>3. CASE UNCHANGED enroller /\ Enrolled' \subseteq Enrolled
  BY <1>3 DEF RoleInv
<1>4. MatchErase \/ MatchPermission \/ ZigbeeErase =>
        UNCHANGED enroller /\ Enrolled' \subseteq Enrolled
  BY DEF MatchErase, MatchPermission, ZigbeeErase, Remove, Enrolled
<1>5. EnrolStart => UNCHANGED enroller /\ UNCHANGED role
  BY DEF EnrolStart, tasks
<1>6. UNCHANGED role => Enrolled' \subseteq Enrolled
  BY DEF Enrolled
<1> QED
  BY <1>1, <1>2, <1>3, <1>4, <1>5, <1>6, Frames DEF EnrolStep

-----------------------------------------------------------------------------
(* The sensor's power hold.                                                *)

\* An action is armed only while none is pending, being changed or enrolled.
LEMMA ArmsWhenIdle ==
  ASSUME Next
  PROVE  /\ UNCHANGED gateVars \/ Scanned \/ Sweep \/ pending = "NONE"
         /\ \/ UNCHANGED gateVars \/ Scanned \/ Sweep \/ ButtonDispatch
            \/ ~Busy
<1>1. \A r \in Requests : AppArm(r) => ~Busy
  BY DEF AppArm, RemoteGuard
<1>2. AppArmPermission \/ HostArmAdminAction => UNCHANGED gateVars \/ ~Busy
  BY DEF AppArmPermission, HostArmAdminAction, gateVars
<1>3. ~Busy => pending = "NONE"
  BY DEF Busy
<1>4. ButtonDispatch => pending = "NONE"
  BY DEF ButtonDispatch
<1> QED
  BY <1>1, <1>2, <1>3, <1>4, Frames

\* Whoever holds the sensor is followed by one who does, or lets go.
LEMMA HoldStep ==
  ASSUME GateAssumption, TypeOK, TypeOK', ArmInv, KindInv, EnrolInv, HoldInv, Next
  PROVE  HoldInv'
<1> SUFFICES ASSUME hold', mishaps' \cap {"lateHold", "clobbered", "lockMissed"} = {}
             PROVE  Held'
  BY DEF HoldInv
<1>1. mishaps \cap {"lateHold", "clobbered", "lockMissed"} = {}
  BY Frames
<1>2. CASE AppHold
  <2>1. app.req \in Requests /\ req[app.req].action = "REMOTE_ENROLL"
    BY <1>2 DEF AppHold, TypeOK, TaskOK, Idle, KindInv
  <2>2. armedBy = app.req
    BY <1>2 DEF AppHold, Mishandled
  <2>3. armedBy # None
    BY <2>1, <2>2 DEF GateAssumption
  <2>4. pending = "REMOTE_ENROLL"
    BY <2>1, <2>2, <2>3 DEF ArmInv, TypeOK, Action
  <2> QED
    BY <1>2, <2>4 DEF AppHold, Held, gateVars
<1>3. CASE MatchHold
  <2>1. match.at = "hold" /\ match.outcome = "ok"
    BY <1>3 DEF MatchHold, Holds
  <2>2. enrol.at = "active" /\ enrol' = enrol
    BY <1>1, <1>3, <2>1 DEF EnrolInv, MatchHold, enrolVars
  <2> QED
    BY <2>2 DEF Held
<1>4. CASE MatchHoldEnrol
  BY <1>4 DEF MatchHoldEnrol, EnrolInv, Held, enrolVars
<1>5. CASE EnrolStart
  BY <1>5 DEF EnrolStart, Held
<1>6. ~(MatchRelease \/ SweepRelease \/ EnrolReset)
  BY DEF MatchRelease, SweepRelease, EnrolReset
<1>7. CASE MatchEmitEnrol /\ UNCHANGED enrol
  BY <1>7 DEF MatchEmitEnrol, EnrolInv, Held
<1>8. CASE UNCHANGED hold /\ ~MatchHold /\ ~EnrolStart
  <2>1. Held
    BY <1>1, <1>8 DEF HoldInv
  <2>2. CASE enrol.at # "idle"
    <3>1. CASE UNCHANGED enrol
      BY <2>2, <3>1 DEF Held
    <3>2. CASE MatchStartEnrol \/ MatchRequestEnrol
      <4>1. UNCHANGED enrol \/ enrol'.at = "active"
        <5>1. MatchStartEnrol => UNCHANGED enrol \/ enrol'.at = "active"
          BY DEF MatchStartEnrol
        <5>2. MatchRequestEnrol => UNCHANGED enrol \/ enrol.at = "idle"
          BY DEF MatchRequestEnrol
        <5> QED
          BY <2>2, <3>2, <5>1, <5>2
      <4> QED
        BY <3>1, <4>1 DEF Held
    <3>3. CASE EnrolEnd
      BY <3>3 DEF EnrolEnd, Held
    <3>4. CASE MatchEmitEnrol /\ ~UNCHANGED enrol
      BY <1>8, <3>4 DEF MatchEmitEnrol, enrolVars
    <3> QED
      BY <1>6, <1>8, <3>1, <3>2, <3>3, <3>4, Frames DEF EnrolStep
  <2>3. CASE enroller.at = "end"
    <3>1. UNCHANGED enroller
      BY <1>6, <1>8, <2>3, IdleFirst, Frames DEF EnrolStep
    <3> QED
      BY <2>3, <3>1 DEF Held
  <2>4. CASE sweep.at = "release"
    <3>1. UNCHANGED sweep
      BY <1>6, <2>4, IdleFirst, Frames DEF SweepStep, SweepComplete, SweepGive, SweepPost
    <3> QED
      BY <2>4, <3>1 DEF Held
  <2>5. CASE match.at = "release"
    <3>1. UNCHANGED match
      <4>1. ~Scanned
        BY <2>5, IdleFirst
      <4>2. ~MatchStep
        BY <1>6, <2>5 DEF MatchStep, MatchPost, MatchReadTarget, MatchMissTarget, MatchDelete,
           MatchErase, MatchRename, MatchStartEnrol, MatchHold, MatchRequestEnrol, MatchHoldEnrol,
           MatchEmitEnrol, MatchAnswerAdminAction, MatchPermission, MatchComplete, MatchGive,
           MatchRecord, MatchCallback, MatchResolve
      <4> QED
        BY <4>1, <4>2, Frames
    <3> QED
      BY <2>5, <3>1 DEF Held
  <2>6. CASE pending = "REMOTE_ENROLL"
    <3>1. CASE UNCHANGED gateVars
      BY <2>6, <3>1 DEF Held, gateVars
    <3>2. CASE ClaimByAdmin
      BY <2>6, <3>2 DEF ClaimByAdmin, Held
    <3>3. CASE DenyRemote
      BY <3>3 DEF DenyRemote, Held
    <3>4. CASE Sweep
      BY <3>4 DEF Sweep, Held
    <3> QED
      BY <2>6, <3>1, <3>2, <3>3, <3>4, ArmsWhenIdle DEF Scanned, DenyPermission
  <2>7. CASE match.at \in {"target", "run", "hold"} /\ match.action = "REMOTE_ENROLL"
    <3>1. match \in Claimed
      BY <2>7, ClaimedMatch DEF ClaimedAt
    <3>2. CASE UNCHANGED match
      BY <2>7, <3>2 DEF Held
    <3>3. CASE MatchReadTarget
      <4>1. \E u, p : match' = [match EXCEPT !.at = "run", !.user = u, !.perm = p]
        BY <3>3 DEF MatchReadTarget
      <4>2. \A u, p : /\ [match EXCEPT !.at = "run", !.user = u, !.perm = p].at = "run"
                      /\ [match EXCEPT !.at = "run", !.user = u, !.perm = p].action = match.action
        BY <3>1 DEF Claimed
      <4>3. match'.at = "run" /\ match'.action = match.action
        BY <4>1, <4>2
      <4> QED
        BY <2>7, <4>3 DEF Held
    <3>4. CASE MatchStartEnrol
      <4>1. match'.at = "hold" /\ match'.action = match.action
        BY <3>1, <3>4 DEF MatchStartEnrol, Claimed
      <4> QED
        BY <2>7, <4>1 DEF Held
    <3>5. ~MatchMissTarget
      BY DEF MatchMissTarget, Mishandled
    <3>6. ~Scanned
      BY <2>7, IdleFirst
    <3>7. MatchStep => MatchReadTarget \/ MatchStartEnrol
      BY <1>6, <1>8, <2>7, <3>5 DEF MatchStep, MatchPost, MatchDelete, MatchErase, MatchRename,
         MatchRequestEnrol, MatchHoldEnrol, MatchEmitEnrol, MatchAnswerAdminAction,
         MatchPermission, MatchComplete, MatchGive, MatchRecord, MatchCallback, MatchResolve
    <3> QED
      BY <3>2, <3>3, <3>4, <3>6, <3>7, Frames
  <2> QED
    BY <2>1, <2>2, <2>3, <2>4, <2>5, <2>6, <2>7 DEF Held
<1>9. MatchEmitEnrol => UNCHANGED hold
  BY DEF MatchEmitEnrol
<1> QED
  BY <1>2, <1>3, <1>4, <1>5, <1>6, <1>8, <1>9, Frames

-----------------------------------------------------------------------------
(* The note of who is to be answered, and the answer.                      *)

\* How the app task comes to each place of its work.
LEMMA AppEnters ==
  ASSUME TypeOK, Next
  PROVE  \/ app'.at \in {"idle", "resolve"}
         \/ UNCHANGED app
         \/ app'.req = app.req /\ app'.at = "gate" /\ AppHold
         \/ app'.req = app.req /\ app'.at = "wait" /\ AppArmPermission
         \/ app'.req = app.req /\ app'.at = "woken" /\ AppWake
         \/ \E r \in Requests : /\ app'.req = r /\ app'.at \in {"hold", "gate"}
                                /\ AppArm(r) /\ slot = r /\ armedBy' = r
         \/ \E r \in Requests : /\ app'.req = r /\ app'.at = "arm"
                                /\ AppPermission(r) /\ slot = r
<1> DEFINE Goal == \/ app'.at \in {"idle", "resolve"}
                   \/ UNCHANGED app
                   \/ app'.req = app.req /\ app'.at = "gate" /\ AppHold
                   \/ app'.req = app.req /\ app'.at = "wait" /\ AppArmPermission
                   \/ app'.req = app.req /\ app'.at = "woken" /\ AppWake
                   \/ \E r \in Requests : /\ app'.req = r /\ app'.at \in {"hold", "gate"}
                                          /\ AppArm(r) /\ slot = r /\ armedBy' = r
                   \/ \E r \in Requests : /\ app'.req = r /\ app'.at = "arm"
                                          /\ AppPermission(r) /\ slot = r
<1>1. \A a \in {"gate", "wait", "woken"} : app.at \in {"hold", "arm", "wait"} =>
        [app EXCEPT !.at = a].at = a /\ [app EXCEPT !.at = a].req = app.req
  BY DEF TypeOK, TaskOK, Idle
<1>2. Idle.at = "idle"
  BY DEF Idle
<1>3. ASSUME NEW r \in Requests, AppArm(r) PROVE Goal
  <2>1. app'.req = r /\ app'.at \in {"hold", "gate"} /\ slot = r /\ armedBy' = r
    BY <1>3 DEF AppArm, Processing, Arm
  <2> QED
    BY <1>3, <2>1
<1>4. ASSUME NEW r \in Requests, AppRefuse(r) PROVE Goal
  BY <1>4 DEF AppRefuse, tasks
<1>5. ASSUME NEW r \in Requests, AppPermission(r) PROVE Goal
  <2>1. UNCHANGED app \/ app' = [at |-> "arm", req |-> r]
    BY <1>5, Zenon DEF AppPermission
  <2>2. slot = r
    BY <1>5 DEF AppPermission, Processing
  <2> QED
    BY <1>5, <2>1, <2>2
<1>6. ASSUME AppHold PROVE Goal
  BY <1>1, <1>6 DEF AppHold
<1>7. ASSUME AppArmPermission PROVE Goal
  <2>1. app' = Idle \/ (app' = [app EXCEPT !.at = "wait"] /\ app.at = "arm")
    BY <1>7 DEF AppArmPermission
  <2> QED
    BY <1>1, <1>2, <1>7, <2>1
<1>8. ASSUME AppWake PROVE Goal
  BY <1>1, <1>8 DEF AppWake
<1>9. ASSUME AppGate \/ AppAnswerPermission \/ AppGiveUp \/ AppResolve PROVE Goal
  BY <1>2, <1>9 DEF AppGate, AppAnswerPermission, AppGiveUp, AppResolve
<1>10. ASSUME AppComplete PROVE Goal
  BY <1>10 DEF AppComplete
<1> HIDE DEF Goal
<1>11. UNCHANGED app => Goal
  BY DEF Goal
<1>12. AppStep => Goal
  <2>1. (\E r \in Requests : AppArm(r) \/ AppRefuse(r) \/ AppPermission(r)) => Goal
    BY <1>3, <1>4, <1>5
  <2> QED
    BY <1>6, <1>7, <1>8, <1>9, <1>10, <2>1 DEF AppStep
<1> QED
  BY <1>11, <1>12, Frames DEF Goal

\* A claim is of the request that armed the action; every other place the match
\* task comes to with a request is about the request it had claimed.
LEMMA ClaimsArmed ==
  ASSUME TypeOK, MatchInv, Next, match'.at \in ClaimedAt
  PROVE  \/ match.at \in ClaimedAt /\ match'.by = match.by
         \/ /\ match'.by = armedBy /\ match'.at \in {"target", "local"}
            /\ match'.action = pending /\ ClaimByAdmin
<1>1. CASE UNCHANGED match
  BY <1>1
<1>2. CASE MatchStep
  BY <1>2, MatchWalks
<1>3. CASE DenyRemote \/ DenyPermission
  BY <1>3 DEF DenyRemote, DenyPermission, ClaimedAt, Reporting
<1>4. CASE ClaimByAdmin
  <2>1. match' # Idle
    BY DEF Idle, ClaimedAt, Reporting
  <2> QED
    BY <1>4, <2>1 DEF ClaimByAdmin
<1> QED
  BY <1>1, <1>2, <1>3, <1>4, Frames DEF Scanned

\* A request is handed over once, armed once and noted once.
LEMMA NoteStep ==
  ASSUME GateAssumption, TypeOK, TypeOK', ArmInv, KindInv, MatchInv, NoteInv, Asks, Next
  PROVE  NoteInv'
<1>1. \A r \in Requests : req[r].action # "NONE" => req'[r].action = req[r].action
  BY DEF Asks
<1>2. /\ armedBy # None => armedBy \in Requests /\ req[armedBy].action # "NONE"
      /\ gate.req # None => req[gate.req].action # "NONE"
      /\ app.at \in {"hold", "gate", "arm"} =>
           app.req \in Requests /\ req[app.req].action # "NONE"
      /\ match.at \in ClaimedAt => match.by \in Requests /\ req[match.by].action # "NONE"
  <2>1. match.at \in ClaimedAt => match.action \in Askable
    BY ClaimedMatch DEF Claimed
  <2> QED
    BY <2>1 DEF ArmInv, KindInv, MatchInv, TypeOK, TaskOK, Maybe, Idle, UmAction, Askable, Action
<1>3. slot # None => slot \in Requests
  BY DEF TypeOK, Maybe
<1>4. app'.at \in {"hold", "gate"} =>
        \/ app.at \in {"hold", "gate"} /\ app'.req = app.req
        \/ slot # None /\ app'.req = slot /\ UNCHANGED gate /\ UNCHANGED match
  <2>1. AppHold => app.at = "hold"
    BY DEF AppHold
  <2>2. \A r \in Requests : AppArm(r) => r # None /\ UNCHANGED gate /\ UNCHANGED match
    BY DEF AppArm, GateAssumption
  <2> QED
    BY <2>1, <2>2, AppEnters
<1>5. gate'.req = gate.req \/ AppGate
  <2>1. AppResolve \/ MatchResolve => gate' = [gate EXCEPT !.open = FALSE]
    BY DEF AppResolve, MatchResolve
  <2>2. [gate EXCEPT !.open = FALSE].req = gate.req
    BY DEF TypeOK, Noted
  <2> QED
    BY <2>1, <2>2, Frames
<1>6. AppGate => gate'.req = app.req /\ app.at = "gate" /\ app'.at = "idle"
  BY DEF AppGate, Idle
<1>7. app'.at \in {"hold", "gate"} => app'.req # gate'.req
  BY <1>4, <1>5, <1>6 DEF NoteInv
<1>8. (match'.at = "resolve" /\ app'.at \in {"hold", "gate"} /\ "lateNote" \notin mishaps') =>
        app'.req # match'.by
  <2> SUFFICES ASSUME match'.at = "resolve", app'.at \in {"hold", "gate"},
                      "lateNote" \notin mishaps'
               PROVE  app'.req # match'.by
    OBVIOUS
  <2>1. match.at \in ClaimedAt /\ match'.by = match.by
    BY ClaimsArmed DEF ClaimedAt, Reporting
  <2>2. CASE slot # None /\ app'.req = slot
    BY <2>1, <2>2 DEF NoteInv
  <2>3. CASE app.at \in {"hold", "gate"} /\ app'.req = app.req
    <3>1. CASE match.at = "resolve"
      BY <2>1, <2>3, <3>1, Frames DEF NoteInv
    <3>2. CASE match.at # "resolve"
      <4>1. MatchCallback
        <5>1. Scanned => match'.at # "resolve"
          BY DEF Scanned, ClaimByAdmin, DenyRemote, DenyPermission, Idle
        <5> QED
          BY <3>2, <5>1, MatchEnters, Frames
      <4>2. gate.req = match.by
        BY <4>1 DEF MatchCallback, Mishandled
      <4> QED
        BY <2>1, <2>3, <4>2 DEF NoteInv
    <3> QED
      BY <3>1, <3>2
  <2> QED
    BY <1>4, <2>2, <2>3
<1>9. CASE slot' = None
  BY <1>7, <1>8, <1>9 DEF NoteInv
<1>10. ASSUME NEW r \in Requests, HostRequest(r), slot' = r PROVE NoteInv'
  <2>1. req[r].action = "NONE" /\ req'[r].action \in Askable \ {"ENROLL_ADMIN"}
    <3>1. req[r].action = "NONE" /\ req \in Reqs
      BY <1>10 DEF HostRequest, TypeOK, Reqs
    <3>0. \A a : Named(a) \subseteq Role
      BY DEF Named, Role
    <3>2. PICK a \in Asked \ {"ENROLL_ADMIN"}, u \in Users, p \in Role :
            req' \in {Open(r, a, u, p), [Open(r, a, u, p) EXCEPT ![r].replies = <<"busy">>]}
      BY <1>10, <3>0 DEF HostRequest
    <3>3. a \in Askable /\ u \in Maybe(Users)
      BY DEF GateAssumption, Maybe
    <3> QED
      BY <3>1, <3>2, <3>3, OpenKeeps
  <2>2. UNCHANGED <<gate, armedBy, app, match>>
    BY <1>10 DEF HostRequest, tasks, gateVars
  <2>3. r # gate.req /\ r # armedBy
    BY <1>2, <2>1 DEF GateAssumption
  <2>4. (app.at \in {"hold", "gate", "arm"} => r # app.req) /\ (match.at \in ClaimedAt => r # match.by)
    BY <1>2, <2>1
  <2>5. req'[r].action # "NONE" /\ req'[r].action # "ENROLL_ADMIN"
    BY <2>1 DEF Askable, UmAction
  <2> QED
    BY <1>7, <1>8, <1>10, <2>2, <2>3, <2>4, <2>5 DEF NoteInv
<1>11. CASE UNCHANGED slot /\ slot # None
  <2>1. req'[slot].action \notin {"NONE", "ENROLL_ADMIN"}
    BY <1>1, <1>3, <1>11 DEF NoteInv
  <2>2. slot # gate'.req
    BY <1>5, <1>6, <1>11 DEF NoteInv
  <2>3. slot # armedBy'
    <3>1. \A r \in Requests : ~AppArm(r)
      BY <1>11 DEF AppArm, Processing
    <3>2. HostArmAdminAction =>
            UNCHANGED gateVars \/ (armedBy' = host /\ req[host].action = "ENROLL_ADMIN")
      BY DEF HostArmAdminAction, Arm, gateVars, KindInv
    <3>3. AppArmPermission => UNCHANGED gateVars \/ (armedBy' = app.req /\ app.at = "arm")
      BY DEF AppArmPermission, Arm, gateVars
    <3>4. Scanned \/ Sweep \/ ButtonDispatch => armedBy' = None
      BY DEF Scanned, ClaimByAdmin, DenyRemote, DenyPermission, Sweep, ButtonDispatch, Disarm, Arm
    <3>5. UNCHANGED gateVars => armedBy' = armedBy
      BY DEF gateVars
    <3> QED
      BY <1>11, <3>1, <3>2, <3>3, <3>4, <3>5, Frames DEF NoteInv
  <2>4. app'.at \in {"hold", "gate", "arm"} => slot # app'.req
    <3>1. \A r \in Requests : AppArm(r) \/ AppPermission(r) => slot' = None
      BY DEF AppArm, AppPermission, Processing
    <3>2. AppHold => app.at = "hold"
      BY DEF AppHold
    <3> QED
      BY <1>11, <3>1, <3>2, AppEnters DEF NoteInv
  <2>5. match'.at \in ClaimedAt => slot # match'.by
    BY <1>11, ClaimsArmed DEF NoteInv
  <2> QED
    BY <1>7, <1>8, <1>11, <2>1, <2>2, <2>3, <2>4, <2>5 DEF NoteInv
<1> QED
  BY <1>9, <1>10, <1>11, Frames

\* The event that reports the end of the action of r.
Reported(r) == [type |-> "COMPLETE", action |-> req[r].action]

\* An event keeps its place or moves up by one, unless the app task takes it.
LEMMA QueueKeeps ==
  ASSUME TypeOK, Next, NEW i \in 1 .. Len(queue), queue[i].type = "COMPLETE"
  PROVE  \/ \E j \in 1 .. Len(queue') : queue'[j] = queue[i]
         \/ AppComplete /\ Head(queue) = queue[i]
<1>1. queue \in Seq(Message)
  BY DEF TypeOK
<1>2. CASE UNCHANGED queue
  BY <1>2
<1>3. ASSUME NEW m, queue' = Append(queue, m) PROVE \E j \in 1 .. Len(queue') : queue'[j] = queue[i]
  <2>1. i \in 1 .. Len(queue') /\ queue'[i] = queue[i]
    BY <1>1, <1>3
  <2> QED
    BY <2>1
<1>4. ASSUME queue' = Tail(queue), queue # <<>>, i # 1
      PROVE  \E j \in 1 .. Len(queue') : queue'[j] = queue[i]
  <2>1. i - 1 \in 1 .. Len(queue') /\ queue'[i - 1] = queue[i]
    BY <1>1, <1>4
  <2> QED
    BY <2>1
<1>5. queue # <<>> /\ Head(queue) = queue[1]
  BY <1>1
<1>6. \A m : Post(m) => UNCHANGED queue \/ \E n : queue' = Append(queue, n)
  BY DEF Post
<1>7. CASE HostStep
  <2>1. UNCHANGED queue \/ \E m : queue' = Append(queue, m)
    BY <1>6, <1>7 DEF HostStep, HostRequest, HostNoteAdminAction, HostArmAdminAction
  <2> QED
    BY <1>2, <1>3, <2>1
<1>8. CASE AppStep
  <2>1. \A r : Processing(r) => queue' = Tail(queue) /\ i # 1
    BY <1>5 DEF Processing
  <2>2. CASE AppComplete
    BY <1>4, <1>5, <2>2 DEF AppComplete
  <2>3. ASSUME NEW r \in Requests, AppArm(r) \/ AppRefuse(r) \/ AppPermission(r)
        PROVE  Processing(r)
    BY <2>3 DEF AppArm, AppRefuse, AppPermission
  <2>4. CASE \/ AppHold \/ AppGate \/ AppArmPermission \/ AppWake \/ AppAnswerPermission
             \/ AppGiveUp \/ AppResolve
    BY <1>2, <2>4 DEF AppHold, AppGate, AppArmPermission, AppWake, AppAnswerPermission, AppGiveUp,
       AppResolve, appVars
  <2> QED
    BY <1>4, <1>5, <1>8, <2>1, <2>2, <2>3, <2>4 DEF AppStep
<1>9. CASE Scanned
  BY <1>2, <1>9 DEF Scanned, ClaimByAdmin, DenyRemote, DenyPermission, appVars
<1>10. CASE MatchStep
  <2>1. MatchPost => UNCHANGED queue \/ \E m : queue' = Append(queue, m)
    BY <1>6 DEF MatchPost
  <2>2. MatchPost \/ UNCHANGED queue
    BY <1>10 DEF MatchStep, MatchRelease, MatchReadTarget, MatchMissTarget, MatchDelete,
       MatchErase, MatchRename, MatchStartEnrol, MatchHold, MatchRequestEnrol, MatchHoldEnrol,
       MatchEmitEnrol, MatchAnswerAdminAction, MatchPermission, MatchComplete, MatchGive,
       MatchRecord, MatchCallback, MatchResolve, appVars
  <2> QED
    BY <1>2, <1>3, <2>1, <2>2
<1>11. CASE ButtonDispatch \/ SweepStep
  <2>1. SweepPost => UNCHANGED queue \/ \E m : queue' = Append(queue, m)
    BY <1>6 DEF SweepPost
  <2>2. SweepPost \/ UNCHANGED queue
    BY <1>11 DEF ButtonDispatch, SweepStep, Sweep, SweepRelease, SweepComplete, SweepGive, appVars
  <2> QED
    BY <1>2, <1>3, <2>1, <2>2
<1>12. CASE EnrolStep
  BY <1>2, <1>12 DEF EnrolStep, EnrolStart, EnrolEnd, EnrolReset, appVars
<1>13. CASE ZigbeeStep
  BY <1>2, <1>13 DEF ZigbeeStep, ZigbeeDelete, ZigbeeErase, appVars
<1> QED
  BY <1>7, <1>8, <1>9, <1>10, <1>11, <1>12, <1>13 DEF Next

\* Whose answer is to come is not forgotten: it comes from the match task, or the app
\* task takes the event that makes it answer.
LEMMA ComingStep ==
  ASSUME GateAssumption, TypeOK, TypeOK', ArmInv, MatchInv, Asks, Next,
         mishaps' \cap {"lost", "lockMissed", "lateNote"} = {},
         NEW r \in Requests, req[r].action \in UmAction, Coming(r)
  PROVE  \/ Coming(r)'
         \/ MatchResolve /\ match.by = r
         \/ AppComplete /\ Head(queue) = Reported(r)
<1>1. req'[r].action = req[r].action /\ req[r].action # "NONE"
  BY DEF Asks, UmAction
<1>2. CASE armedBy = r
  <2>1. pending \in UmAction /\ pending = req[r].action /\ r # None
    BY <1>2 DEF ArmInv, TypeOK, Action, GateAssumption
  <2>2. pending \notin {"NONE", "CHANGE_PERMISSION", "BLE_PAIRING_WINDOW", "ENROLL_ADMIN"}
    BY <2>1 DEF UmAction
  <2>3. CASE UNCHANGED gateVars
    BY <1>2, <2>3 DEF Coming, gateVars
  <2>4. CASE ClaimByAdmin
    <3>1. match'.at = "target" /\ match'.by = r
      BY <1>2, <2>2, <2>4 DEF ClaimByAdmin
    <3> QED
      BY <3>1 DEF Coming, ClaimedAt
  <2>5. CASE DenyRemote
    <3>1. match'.at = "release" /\ match'.action = req'[r].action
      BY <1>1, <2>1, <2>5 DEF DenyRemote
    <3> QED
      BY <3>1 DEF Coming
  <2>6. CASE Sweep
    <3>1. sweep'.at = "release" /\ sweep'.action = req'[r].action
      BY <1>1, <2>1, <2>6 DEF Sweep
    <3> QED
      BY <3>1 DEF Coming
  <2> QED
    BY <2>2, <2>3, <2>4, <2>5, <2>6, ArmsWhenIdle DEF Scanned, DenyPermission
<1>3. CASE match.at \in ClaimedAt /\ match.by = r
  <2>1. match.action = req[r].action /\ match.at \in StagesOf(match.action)
    BY <1>3 DEF MatchInv
  <2>2. match.at \in {"target", "run", "erase", "hold"} \cup Reporting
    BY <2>1 DEF StagesOf, UmAction
  <2>3. CASE match'.at \in ClaimedAt
    <3>1. match'.by = r
      BY <1>3, <2>3, ClaimsArmed, IdleFirst DEF Scanned, ClaimedAt, Reporting
    <3> QED
      BY <2>3, <3>1 DEF Coming
  <2>4. CASE match'.at \notin ClaimedAt
    <3>1. MatchStep
      BY <1>3, <2>4, IdleFirst, Frames DEF ClaimedAt, Reporting
    <3>2. match \in Claimed
      BY <1>3, ClaimedMatch
    <3>3. ~(MatchReadTarget \/ MatchMissTarget \/ MatchDelete \/ MatchErase \/ MatchRename
            \/ MatchStartEnrol \/ MatchHold \/ MatchRecord \/ MatchPermission)
      <4>1. match'.at \in ClaimedAt \/ ~(MatchReadTarget \/ MatchMissTarget \/ MatchDelete)
        BY <3>2 DEF MatchReadTarget, MatchMissTarget, MatchDelete, Finished, ClaimedAt, Reporting,
           Claimed
      <4>2. match'.at \in ClaimedAt \/ ~(MatchErase \/ MatchRename \/ MatchStartEnrol)
        BY <3>2 DEF MatchErase, MatchRename, MatchStartEnrol, Finished, ClaimedAt, Reporting,
           Claimed
      <4>3. match'.at \in ClaimedAt \/ ~(MatchHold \/ MatchRecord \/ MatchPermission)
        BY <3>2 DEF MatchHold, MatchRecord, MatchPermission, ClaimedAt, Reporting, Claimed
      <4> QED
        BY <2>4, <4>1, <4>2, <4>3
    <3>4. ~MatchCallback
      <4>1. MatchCallback => gate.open
        BY DEF MatchCallback, Mishandled
      <4>2. \A o : [match EXCEPT !.at = "resolve", !.outcome = o].at = "resolve"
        BY <3>2 DEF Claimed
      <4>3. ASSUME MatchCallback PROVE FALSE
        <5>1. PICK o : match' = [match EXCEPT !.at = "resolve", !.outcome = o]
          BY <4>1, <4>3 DEF MatchCallback
        <5> QED
          BY <2>4, <4>2, <5>1 DEF ClaimedAt, Reporting
      <4> QED
        BY <4>3
    <3>5. MatchResolve
      BY <2>2, <3>1, <3>3, <3>4 DEF MatchStep, MatchRelease, MatchPost, MatchRequestEnrol,
         MatchHoldEnrol, MatchEmitEnrol, MatchAnswerAdminAction, MatchComplete, MatchGive, Reporting
    <3> QED
      BY <1>3, <3>5
  <2> QED
    BY <2>3, <2>4
<1>4. ASSUME Post(Reported(r)) PROVE Coming(r)'
  <2>1. queue' = Append(queue, Reported(r)) /\ queue \in Seq(Message)
    BY <1>4 DEF Post, Mishandled, TypeOK
  <2>2. Len(queue') \in 1 .. Len(queue') /\ queue'[Len(queue')] = Reported(r)
    BY <2>1
  <2> QED
    BY <1>1, <2>2 DEF Coming, Reported
<1>5. CASE match.at \in {"release", "post"} /\ match.action = req[r].action
  <2>1. CASE UNCHANGED match
    BY <1>1, <1>5, <2>1 DEF Coming
  <2>2. CASE MatchRelease
    <3>1. match'.at = "post" /\ match'.action = match.action
      BY <2>2 DEF MatchRelease, TypeOK, TaskOK, Idle, Claimed
    <3> QED
      BY <1>1, <1>5, <3>1 DEF Coming
  <2>3. CASE MatchPost
    BY <1>4, <1>5, <2>3 DEF MatchPost, Reported
  <2>4. MatchStep => MatchRelease \/ MatchPost
    BY <1>5 DEF MatchStep, MatchReadTarget, MatchMissTarget, MatchDelete, MatchErase, MatchRename,
       MatchStartEnrol, MatchHold, MatchRequestEnrol, MatchHoldEnrol, MatchEmitEnrol,
       MatchAnswerAdminAction, MatchPermission, MatchComplete, MatchGive, MatchRecord,
       MatchCallback, MatchResolve
  <2> QED
    BY <1>5, <2>1, <2>2, <2>3, <2>4, IdleFirst, Frames
<1>6. CASE sweep.at \in {"release", "post"} /\ sweep.action = req[r].action
  <2>1. CASE UNCHANGED sweep
    BY <1>1, <1>6, <2>1 DEF Coming
  <2>2. CASE SweepRelease
    <3>1. sweep' = [sweep EXCEPT !.at = "post"]
      BY <1>6, <2>2 DEF SweepRelease, AfterRelease, UmAction
    <3>2. sweep'.at = "post" /\ sweep'.action = sweep.action
      BY <1>6, <3>1 DEF TypeOK, TaskOK, Idle
    <3> QED
      BY <1>1, <1>6, <3>2 DEF Coming
  <2>3. CASE SweepPost
    BY <1>4, <1>6, <2>3 DEF SweepPost, Reported
  <2>4. SweepStep => SweepRelease \/ SweepPost
    BY <1>6, IdleFirst DEF SweepStep, SweepComplete, SweepGive
  <2> QED
    BY <2>1, <2>2, <2>3, <2>4, Frames
<1>7. CASE \E i \in 1 .. Len(queue) : queue[i] = Reported(r)
  <2>1. PICK i \in 1 .. Len(queue) : queue[i] = Reported(r)
    BY <1>7
  <2>2. queue[i].type = "COMPLETE"
    BY <2>1 DEF Reported
  <2>3. CASE \E j \in 1 .. Len(queue') : queue'[j] = queue[i]
    BY <1>1, <2>1, <2>3 DEF Coming, Reported
  <2> QED
    BY <2>1, <2>2, <2>3, QueueKeeps
<1> QED
  BY <1>2, <1>3, <1>5, <1>6, <1>7 DEF Coming, Reported

\* Who is noted, or about to be, has the answer still to come.
LEMMA AnswerStep ==
  ASSUME GateAssumption, TypeOK, TypeOK', ArmInv, KindInv, MatchInv, NoteInv, AnswerInv, Asks, Next
  PROVE  AnswerInv'
<1> SUFFICES ASSUME mishaps' \cap {"lost", "lockMissed", "lateNote"} = {}
             PROVE  /\ gate'.open /\ req'[gate'.req].action # "RENAME_USER" =>
                         Coming(gate.req)' \/ app'.at = "resolve"
                    /\ app'.at \in {"hold", "gate"} /\ req'[app'.req].action # "RENAME_USER" =>
                         Coming(app.req)'
  BY DEF AnswerInv
<1>1. mishaps \cap {"lost", "lockMissed", "lateNote"} = {}
  BY Frames
<1>2. \A r \in Requests : req[r].action # "NONE" => req'[r].action = req[r].action
  BY DEF Asks
<1>3. /\ app.at \in {"hold", "gate"} => app.req \in Requests /\ req[app.req].action \in UmAction
      /\ gate.open => gate.req \in Requests /\ req[gate.req].action \in UmAction
  BY DEF KindInv, TypeOK, TaskOK, Noted, Maybe, Idle, UmAction
<1>4. ASSUME gate'.open, req'[gate'.req].action # "RENAME_USER", app'.at # "resolve"
      PROVE  Coming(gate.req)'
  <2>1. CASE AppGate
    <3>1. PICK r \in Requests : r = app.req
      BY <1>3, <2>1 DEF AppGate
    <3>2. gate' = [open |-> TRUE, req |-> r] /\ app.at = "gate" /\ app' = Idle
      BY <2>1, <3>1 DEF AppGate
    <3>3. req[r].action \in UmAction \ {"RENAME_USER"}
      BY <1>2, <1>3, <1>4, <3>1, <3>2 DEF UmAction
    <3>4. Coming(r)
      BY <1>1, <3>1, <3>2, <3>3 DEF AnswerInv
    <3>5. ~MatchResolve /\ ~AppComplete
      BY <3>2, IdleFirst DEF MatchResolve, Idle
    <3>6. Coming(r)'
      BY <3>3, <3>4, <3>5, ComingStep
    <3> QED
      BY <3>2, <3>6 DEF Coming
  <2>2. CASE AppResolve \/ MatchResolve
    <3>1. gate' = [gate EXCEPT !.open = FALSE]
      BY <2>2 DEF AppResolve, MatchResolve
    <3>2. ~gate'.open
      BY <3>1 DEF TypeOK, Noted
    <3> QED
      BY <1>4, <3>2
  <2>3. CASE UNCHANGED gate /\ ~AppResolve /\ ~MatchResolve
    <3>1. PICK r \in Requests : r = gate.req /\ gate.open
      BY <1>3, <1>4, <2>3
    <3>2. req[r].action \in UmAction \ {"RENAME_USER"}
      BY <1>2, <1>3, <1>4, <2>3, <3>1 DEF UmAction
    <3>3. app.at # "resolve"
      <4>1. AppStep /\ app.at = "resolve" => AppResolve \/ UNCHANGED app
        <5>1. AppStep => \/ AppResolve \/ AppComplete
                         \/ \E q \in Requests : Processing(q)
                         \/ app.at \in {"hold", "gate", "arm", "wait", "woken"}
          BY DEF AppStep, AppArm, AppRefuse, AppPermission, AppHold, AppGate, AppArmPermission,
             AppWake, AppAnswerPermission, AppGiveUp
        <5> QED
          BY <5>1, IdleFirst
      <4> QED
        BY <1>4, <2>3, <4>1, Frames
    <3>4. Coming(r)
      BY <1>1, <3>1, <3>2, <3>3 DEF AnswerInv
    <3>5. ~(AppComplete /\ Head(queue) = Reported(r))
      <4>1. ASSUME AppComplete, Head(queue) = Reported(r) PROVE app'.at = "resolve"
        <5>1. Head(queue).action \in Resolving
          BY <3>2, <4>1 DEF Reported, Resolving, UmAction
        <5>2. \E o : app' = [at |-> "resolve", outcome |-> o]
          BY <3>1, <4>1, <5>1 DEF AppComplete
        <5> QED
          BY <5>2
      <4> QED
        BY <1>4, <4>1
    <3>6. Coming(r)'
      BY <2>3, <3>2, <3>4, <3>5, ComingStep
    <3> QED
      BY <2>3, <3>1, <3>6 DEF Coming
  <2> QED
    BY <2>1, <2>2, <2>3, Frames
<1>5. ASSUME app'.at \in {"hold", "gate"}, req'[app'.req].action # "RENAME_USER"
      PROVE  Coming(app.req)'
  <2>1. CASE \E r \in Requests : AppArm(r) /\ app'.req = r /\ armedBy' = r
    BY <2>1 DEF Coming
  <2>2. CASE app.at \in {"hold", "gate"} /\ app'.req = app.req
    <3>1. PICK r \in Requests : r = app.req
      BY <1>3, <2>2
    <3>2. req[r].action \in UmAction \ {"RENAME_USER"}
      BY <1>2, <1>3, <1>5, <2>2, <3>1 DEF UmAction
    <3>3. Coming(r)
      BY <1>1, <2>2, <3>1, <3>2 DEF AnswerInv
    <3>4. ~(MatchResolve /\ match.by = r)
      <4>1. MatchResolve => match.at = "resolve"
        BY DEF MatchResolve
      <4> QED
        BY <1>1, <2>2, <3>1, <4>1 DEF NoteInv
    <3>5. ~AppComplete
      BY <2>2, IdleFirst
    <3>6. Coming(r)'
      BY <3>2, <3>3, <3>4, <3>5, ComingStep
    <3> QED
      BY <2>2, <3>1, <3>6 DEF Coming
  <2>3. AppHold => app.at = "hold"
    BY DEF AppHold
  <2> QED
    BY <1>5, <2>1, <2>2, <2>3, AppEnters
<1> QED
  BY <1>4, <1>5

-----------------------------------------------------------------------------
(* Permission changes.                                                     *)

\* What may change the fields of a permission change, and how.
LEMMA ChangeMoves ==
  ASSUME TypeOK, Next
  PROVE  \/ UNCHANGED permChange
         \/ /\ AppArmPermission /\ ~Busy /\ permChange' = NewChange(app.req)
            /\ pending' = "CHANGE_PERMISSION" /\ armedBy' = app.req
         \/ DenyPermission /\ permChange' = Closed("denied") /\ pending = "CHANGE_PERMISSION"
         \/ /\ MatchComplete /\ permChange' = Closed(match.outcome) /\ match.at = "complete"
            /\ match'.at = "give"
         \/ /\ SweepComplete /\ permChange' = Closed("timeout") /\ sweep.at = "complete"
            /\ sweep'.at = "give"
<1>1. CASE AppArmPermission
  BY <1>1 DEF AppArmPermission, Arm, permVars
<1>2. CASE DenyPermission
  BY <1>2 DEF DenyPermission
<1>3. CASE MatchComplete
  BY <1>3 DEF MatchComplete, CompletePermission
<1>4. CASE SweepComplete
  <2>1. [sweep EXCEPT !.at = "give"].at = "give"
    BY <1>4 DEF SweepComplete, TypeOK, TaskOK, Idle
  <2> QED
    BY <1>4, <2>1 DEF SweepComplete, CompletePermission
<1> QED
  BY <1>1, <1>2, <1>3, <1>4, Frames

\* How the admin task comes to a permission change that timed out.
LEMMA SweepEnters ==
  ASSUME TypeOK, Next, Expires'
  PROVE  Expires \/ (Sweep /\ pending = "CHANGE_PERMISSION")
<1>1. CASE UNCHANGED sweep
  BY <1>1 DEF Expires
<1>2. CASE Sweep
  BY <1>2 DEF Sweep, Expires
<1>3. CASE SweepRelease
  <2>1. sweep'.action = sweep.action
    BY <1>3 DEF SweepRelease, TypeOK, TaskOK, Idle
  <2> QED
    BY <1>3, <2>1 DEF SweepRelease, Expires
<1>4. CASE SweepComplete \/ SweepGive \/ SweepPost
  <2>1. SweepComplete => sweep'.at \in {"give", "post"}
    BY DEF SweepComplete, CompletePermission, TypeOK, TaskOK, Idle
  <2>2. SweepGive => sweep'.at = "post"
    BY DEF SweepGive, TypeOK, TaskOK, Idle
  <2> QED
    BY <1>4, <2>1, <2>2 DEF SweepPost, Idle, Expires
<1> QED
  BY <1>1, <1>2, <1>3, <1>4, Frames DEF SweepStep

\* How the match task comes to a permission change.
LEMMA ChangeEnters ==
  ASSUME TypeOK, MatchInv, Next, Changes'
  PROVE  \/ Changes /\ match'.by = match.by
         \/ ClaimByAdmin /\ pending = "CHANGE_PERMISSION" /\ match'.by = armedBy
<1>1. match'.at \in ClaimedAt
  BY DEF Changes, ClaimedAt
<1>2. CASE match.at \in ClaimedAt /\ match'.by = match.by
  <2>1. match'.action = match.action
    BY <1>1, <1>2, IdleFirst, MatchWalks, Frames DEF ClaimedAt, Reporting
  <2>2. match.action = "CHANGE_PERMISSION" /\ match.at \in {"target", "run", "complete"}
    BY <1>2, <2>1 DEF Changes, MatchInv, StagesOf
  <2> QED
    BY <1>2, <2>2 DEF Changes
<1> QED
  BY <1>1, <1>2, ClaimsArmed DEF Changes

\* A permission change is open from its arming to its end, for one request at a time.
LEMMA ChangeStep ==
  ASSUME GateAssumption, TypeOK, TypeOK', ArmInv, KindInv, MatchInv, ChangeInv, Asks, Next
  PROVE  ChangeInv'
<1>1. \A r \in Requests : req[r].action # "NONE" =>
        req'[r].user = req[r].user /\ req'[r].perm = req[r].perm
  BY DEF Asks
<1>2. /\ pending = "CHANGE_PERMISSION" => armedBy \in Requests /\ req[armedBy].action # "NONE"
      /\ Changes => match.by \in Requests /\ req[match.by].action # "NONE"
      /\ app.at \in {"arm", "wait", "woken"} => app.req \in Requests /\ req[app.req].action # "NONE"
  BY DEF ArmInv, KindInv, MatchInv, TypeOK, TaskOK, Idle, Askable, Changes, ClaimedAt
<1>3. /\ Closed("denied").open = FALSE /\ Closed("timeout").open = FALSE
      /\ \A o : Closed(o).open = FALSE
  BY DEF Closed
<1>4. AppArmPermission => app.at = "arm"
  BY DEF AppArmPermission
<1>5. pending' = "CHANGE_PERMISSION" =>
        \/ pending = "CHANGE_PERMISSION" /\ armedBy' = armedBy
        \/ AppArmPermission /\ ~Busy /\ permChange' = NewChange(app.req) /\ armedBy' = app.req
  <2>1. CASE UNCHANGED gateVars
    BY <2>1 DEF gateVars
  <2>2. Scanned \/ Sweep \/ ButtonDispatch => pending' # "CHANGE_PERMISSION"
    BY DEF Scanned, ClaimByAdmin, DenyRemote, DenyPermission, Sweep, ButtonDispatch, Disarm, Arm
  <2>3. \A r \in Requests : AppArm(r) => pending' # "CHANGE_PERMISSION"
    BY DEF AppArm, Arm, UmAction
  <2>4. HostArmAdminAction => UNCHANGED gateVars \/ pending' = "ENROLL_ADMIN"
    BY DEF HostArmAdminAction, Arm, gateVars
  <2>5. AppArmPermission =>
          \/ UNCHANGED gateVars
          \/ ~Busy /\ permChange' = NewChange(app.req) /\ armedBy' = app.req
    BY DEF AppArmPermission, Arm, gateVars
  <2> QED
    BY <2>1, <2>2, <2>3, <2>4, <2>5, Frames
<1>6. ~Busy => pending = "NONE" /\ ~permChange.open /\ ~Changes /\ ~Expires
  BY DEF Busy, ChangeInv, Changing
<1>7. AppArmPermission => UNCHANGED <<match, sweep>>
  BY DEF AppArmPermission
<1>8. permChange'.open => permChange'.result = "timeout"
  BY <1>2, <1>3, <1>4, ChangeMoves DEF ChangeInv, NewChange
<1>9. UNCHANGED <<match, sweep>> => (Changes' <=> Changes) /\ (Expires' <=> Expires)
  BY DEF Changes, Expires
<1>10. permChange' # permChange =>
         \/ AppArmPermission /\ ~Busy /\ permChange' = NewChange(app.req) /\ ~Changes' /\ ~Expires'
         \/ ~permChange'.open /\ pending' # "CHANGE_PERMISSION" /\ ~Changes' /\ ~Expires'
  <2>1. CASE AppArmPermission /\ ~Busy /\ permChange' = NewChange(app.req)
    BY <1>6, <1>7, <1>9, <2>1
  <2>2. CASE DenyPermission /\ permChange' = Closed("denied") /\ pending = "CHANGE_PERMISSION"
    <3>1. pending' = "NONE" /\ match'.at = "give" /\ UNCHANGED sweep
      BY <2>2 DEF DenyPermission, Disarm
    <3> QED
      BY <1>3, <2>2, <3>1 DEF ChangeInv, Changes, Expires
  <2>3. CASE /\ MatchComplete /\ permChange' = Closed(match.outcome) /\ match.at = "complete"
             /\ match'.at = "give"
    <3>1. UNCHANGED gateVars /\ UNCHANGED sweep
      BY <2>3 DEF MatchComplete
    <3>2. Changes
      BY <2>3 DEF MatchInv, ClaimedAt, StagesOf, Reporting, Changes
    <3> QED
      BY <1>3, <2>3, <3>1, <3>2 DEF ChangeInv, Changes, Expires, gateVars
  <2>4. CASE /\ SweepComplete /\ permChange' = Closed("timeout") /\ sweep.at = "complete"
             /\ sweep'.at = "give"
    <3>1. UNCHANGED gateVars /\ UNCHANGED match
      BY <2>4 DEF SweepComplete
    <3> QED
      BY <1>3, <2>4, <3>1 DEF ChangeInv, Changes, Expires, gateVars
  <2> QED
    BY <2>1, <2>2, <2>3, <2>4, ChangeMoves
<1>11. ASSUME NEW r \in Requests, req[r].action # "NONE", Changing(r), permChange' = permChange
       PROVE  Changing(r)'
  BY <1>1, <1>11 DEF Changing
<1>12. permChange' # permChange /\ ~AppArmPermission =>
         pending' # "CHANGE_PERMISSION" /\ ~Changes' /\ ~Expires'
  BY <1>10
<1>13. AppArmPermission =>
         \/ /\ ~Busy /\ permChange' = NewChange(app.req) /\ app'.req = app.req /\ app'.at = "wait"
            /\ armedBy' = app.req /\ pending' = "CHANGE_PERMISSION"
         \/ UNCHANGED <<permChange, pending, armedBy>> /\ app'.at = "idle"
  BY DEF AppArmPermission, Arm, gateVars, permVars, Idle, TypeOK, TaskOK
<1>14. pending' = "CHANGE_PERMISSION" => Changing(armedBy)'
  <2>1. CASE pending = "CHANGE_PERMISSION" /\ armedBy' = armedBy /\ permChange' = permChange
    <3>1. PICK r \in Requests : r = armedBy /\ req[r].action # "NONE" /\ Changing(r)
      BY <1>2, <2>1 DEF ChangeInv
    <3>2. Changing(r)'
      BY <1>11, <2>1, <3>1
    <3> QED
      BY <2>1, <3>1, <3>2 DEF Changing
  <2>2. CASE AppArmPermission /\ permChange' = NewChange(app.req) /\ armedBy' = app.req
    BY <1>1, <1>2, <1>4, <2>2 DEF Changing, NewChange
  <2> QED
    BY <1>5, <1>12, <1>13, <2>1, <2>2
<1>15. Changes' \/ Expires' => permChange' = permChange
  BY <1>10
<1>16. Changes' => Changing(match.by)'
  <2>1. ASSUME Changes' PROVE Changing(match.by)'
    <3>1. PICK r \in Requests : r = match'.by /\ req[r].action # "NONE" /\ Changing(r)
      BY <1>2, <2>1, ChangeEnters DEF ChangeInv
    <3>2. Changing(r)'
      BY <1>11, <1>15, <2>1, <3>1
    <3> QED
      BY <3>1, <3>2 DEF Changing
  <2> QED
    BY <2>1
<1>17. Expires' => permChange'.open
  BY <1>15, SweepEnters DEF ChangeInv, Changing
<1>18. sweep'.at = "complete" => sweep'.action = "CHANGE_PERMISSION"
  <2>1. CASE UNCHANGED sweep
    BY <2>1 DEF ChangeInv
  <2>2. CASE Sweep
    BY <2>2 DEF Sweep
  <2>3. CASE SweepRelease
    <3>1. /\ sweep'.at = AfterRelease(sweep.action) /\ sweep'.action = sweep.action
      BY <2>3 DEF SweepRelease, TypeOK, TaskOK, Idle
    <3> QED
      BY <3>1 DEF AfterRelease
  <2>4. SweepComplete => sweep'.at \in {"give", "post"}
    BY DEF SweepComplete, CompletePermission, TypeOK, TaskOK, Idle
  <2>5. SweepGive => sweep'.at = "post"
    BY DEF SweepGive, TypeOK, TaskOK, Idle
  <2>6. SweepPost => sweep'.at = "idle"
    BY DEF SweepPost, Idle
  <2> QED
    BY <2>1, <2>2, <2>3, <2>4, <2>5, <2>6, Frames DEF SweepStep
<1>19. ClaimByAdmin \/ Sweep => pending' = "NONE"
  BY DEF ClaimByAdmin, Sweep, Disarm
<1>20. pending' = "CHANGE_PERMISSION" => ~Changes' /\ ~Expires'
  <2>1. CASE pending = "CHANGE_PERMISSION" /\ pending' = "CHANGE_PERMISSION"
    BY <1>19, <2>1, ChangeEnters, SweepEnters DEF ChangeInv
  <2>2. CASE AppArmPermission /\ ~Busy
    BY <1>6, <1>7, <1>9, <2>2
  <2> QED
    BY <1>5, <2>1, <2>2
<1>21. ~(Changes' /\ Expires')
  <2>1. ~(ClaimByAdmin /\ Sweep)
    <3>1. ClaimByAdmin => sweep' = sweep
      BY DEF ClaimByAdmin
    <3>2. Sweep => sweep'.at = "release"
      BY DEF Sweep
    <3> QED
      BY <3>1, <3>2, IdleFirst
  <2> QED
    BY <2>1, ChangeEnters, SweepEnters DEF ChangeInv
<1>22. Waits' => \/ Waits /\ app'.req = app.req /\ ~AppArmPermission
                 \/ AppArmPermission /\ ~Busy /\ armedBy' = app'.req /\ pending' = "CHANGE_PERMISSION"
  <2>1. AppWake => app.at = "wait"
    BY DEF AppWake
  <2> QED
    BY <1>4, <1>13, <2>1, AppEnters DEF Waits
<1>23. Waits' /\ pending' = "CHANGE_PERMISSION" => armedBy' = app'.req
  BY <1>5, <1>22 DEF ChangeInv
<1>24. Waits' /\ Changes' => match'.by = app'.req
  BY <1>20, <1>22, ChangeEnters DEF ChangeInv
<1>25. Waits' => pending' \notin UmAction
  <2>1. pending' \in UmAction => pending \in UmAction \/ \E r \in Requests : AppArm(r)
    BY Frames DEF HostArmAdminAction, AppArmPermission, Scanned, ClaimByAdmin, DenyRemote,
       DenyPermission, ButtonDispatch, Sweep, Arm, Disarm, UmAction, gateVars
  <2>2. \A r \in Requests : AppArm(r) => app'.at \in {"hold", "gate"}
    BY DEF AppArm
  <2> QED
    BY <1>22, <2>1, <2>2 DEF ChangeInv, Waits, UmAction
<1>26. match'.at = "run" /\ match'.action = "CHANGE_PERMISSION" =>
         match'.user = req'[match'.by].user /\ match'.perm = req'[match'.by].perm
  <2> SUFFICES ASSUME match'.at = "run", match'.action = "CHANGE_PERMISSION"
               PROVE  match'.user = req'[match'.by].user /\ match'.perm = req'[match'.by].perm
    OBVIOUS
  <2>1. CASE UNCHANGED match
    BY <1>1, <1>2, <2>1 DEF ChangeInv, Changes
  <2>2. CASE MatchReadTarget
    <3>1. match \in Claimed /\ match.at = "target"
      BY <2>2, ClaimedMatch DEF MatchReadTarget, ClaimedAt
    <3>2. match'.action = match.action
      BY <2>2, <3>1 DEF MatchReadTarget, Claimed
    <3>3. match' = [match EXCEPT !.at = "run", !.user = permChange.user, !.perm = permChange.perm]
      BY <2>2, <3>2 DEF MatchReadTarget
    <3>4. match'.user = permChange.user /\ match'.perm = permChange.perm /\ match'.by = match.by
      BY <3>1, <3>3 DEF Claimed
    <3>5. Changes /\ Changing(match.by)
      BY <3>1, <3>2 DEF Changes, ChangeInv
    <3> QED
      BY <1>1, <1>2, <3>4, <3>5 DEF Changing
  <2>3. ~MatchMissTarget
    <3>1. MatchMissTarget => match \in Claimed
      BY ClaimedMatch DEF MatchMissTarget, ClaimedAt
    <3> QED
      BY <3>1 DEF MatchMissTarget, Claimed
  <2>4. ~Scanned
    BY DEF Scanned, ClaimByAdmin, DenyRemote, DenyPermission, Idle
  <2> QED
    BY <2>1, <2>2, <2>3, <2>4, MatchEnters, Frames
<1> QED
  BY <1>8, <1>14, <1>16, <1>17, <1>18, <1>20, <1>21, <1>23, <1>24, <1>25, <1>26 DEF ChangeInv

-----------------------------------------------------------------------------
(* The admins that remain.                                                 *)

\* A step that changes who is enrolled, and as what, decides nothing.
LEMMA DecidesNothing ==
  ASSUME TypeOK, MatchErase \/ MatchPermission \/ ZigbeeErase \/ EnrolReset,
         NEW u \in Doomed', u \in Admins
  PROVE  u \in Doomed
<1>1. UNCHANGED <<app, req, permChange>>
  BY DEF MatchErase, MatchPermission, ZigbeeErase, EnrolReset, permVars, appVars
<1>2. UNCHANGED match \/ match'.at # "erase"
  <2>1. CASE MatchErase \/ MatchPermission
    BY <2>1, MatchEnters DEF MatchStep, MatchErase, MatchPermission, MatchDelete
  <2>2. CASE ZigbeeErase \/ EnrolReset
    BY <2>2 DEF ZigbeeErase, EnrolReset
  <2> QED
    BY <2>1, <2>2
<1>3. UNCHANGED zigbee \/ zigbee'.at # "erase"
  BY DEF MatchErase, MatchPermission, ZigbeeErase, EnrolReset, Idle
<1> QED
  BY <1>1, <1>2, <1>3 DEF Doomed

\* Whoever comes to be doomed is not the last admin.
LEMMA DoomedStep ==
  ASSUME TypeOK, KindInv, Asks, Next, NEW u \in Doomed', u \in Admins, u \notin Doomed
  PROVE  ~LastAdmin(u)
<1>1. UNCHANGED role
  BY DecidesNothing, Frames
<1>2. ASSUME zigbee'.at = "erase", zigbee'.user = u PROVE ~LastAdmin(u)
  <2>1. ~UNCHANGED zigbee
    BY <1>2 DEF Doomed
  <2>2. ~ZigbeeErase
    BY <1>2 DEF ZigbeeErase, Idle
  <2>3. PICK v \in Erasable : ZigbeeDelete(v)
    BY <2>1, <2>2, Frames DEF ZigbeeStep
  <2> QED
    BY <1>2, <2>3 DEF ZigbeeDelete
<1>3. ASSUME match'.at = "erase", match'.user = u PROVE ~LastAdmin(u)
  <2>1. ~UNCHANGED match
    BY <1>3 DEF Doomed
  <2>2. ~Scanned
    BY <1>3 DEF Scanned, ClaimByAdmin, DenyRemote, DenyPermission, Idle
  <2>3. MatchDelete
    BY <1>3, <2>1, <2>2, MatchEnters, Frames
  <2>4. match \in Claimed
    BY <2>3, ClaimedMatch DEF MatchDelete, ClaimedAt
  <2>5. CASE match.user \in Enrolled /\ ~LastAdmin(match.user)
    <3>1. match'.user = match.user
      BY <2>3, <2>4, <2>5 DEF MatchDelete, Claimed
    <3> QED
      BY <1>3, <2>5, <3>1
  <2>6. CASE ~(match.user \in Enrolled /\ ~LastAdmin(match.user))
    <3>1. \E o : match' = [match EXCEPT !.at = "record", !.outcome = o]
      BY <2>3, <2>6 DEF MatchDelete, Finished
    <3> QED
      BY <1>3, <2>4, <3>1 DEF Claimed
  <2> QED
    BY <2>5, <2>6
<1>4. ASSUME app'.at = "arm", req'[app'.req].perm = "user", req'[app'.req].user = u
      PROVE  ~LastAdmin(u)
  <2>1. ~UNCHANGED app
    <3>1. SUFFICES ASSUME UNCHANGED app PROVE FALSE
      OBVIOUS
    <3>2. app.req \in Requests /\ req[app.req].action # "NONE"
      BY <1>4, <3>1 DEF TypeOK, TaskOK, KindInv, Idle
    <3> QED
      BY <1>4, <3>1, <3>2 DEF Asks, Doomed
  <2>2. PICK r \in Requests : app'.req = r /\ AppPermission(r)
    BY <1>4, <2>1, AppEnters
  <2>3. UNCHANGED req /\ ~(LastAdmin(req[r].user) /\ req[r].perm # "admin")
    <3>1. app' = [at |-> "arm", req |-> r] /\ UNCHANGED req
      BY <2>1, <2>2, Zenon DEF AppPermission
    <3> QED
      BY <2>1, <2>2, <3>1 DEF AppPermission
  <2> QED
    BY <1>4, <2>2, <2>3
<1>5. ASSUME permChange'.open, permChange'.perm = "user", permChange'.user = u PROVE FALSE
  <2>1. ~UNCHANGED permChange
    BY <1>5 DEF Doomed
  <2>2. AppArmPermission /\ permChange' = NewChange(app.req)
    BY <1>5, <2>1, ChangeMoves DEF Closed
  <2> QED
    BY <1>5, <2>2 DEF AppArmPermission, NewChange, Doomed
<1> QED
  BY <1>2, <1>3, <1>4, <1>5 DEF Doomed

\* An admin who goes was doomed, and if that overlaps with nothing, he alone.
LEMMA LossStep ==
  ASSUME TypeOK, MatchInv, RoleInv, ChangeInv, Next, "overlap" \notin mishaps',
         NEW w \in Admins, w \notin Admins'
  PROVE  w \in Doomed /\ Doomed \ {w} = {} /\ Admins' = Admins \ {w} /\ Doomed' = {}
<1>1. MatchErase \/ MatchPermission \/ ZigbeeErase
  <2>1. ~EnrolReset
    BY EnrolAdds DEF Admins
  <2>2. ~UNCHANGED role
    BY DEF Admins, Enrolled
  <2> QED
    BY <2>1, <2>2, Frames
<1>2. w \in Doomed /\ ~Overlaps(w) /\ Admins' = Admins \ {w}
  <2>1. CASE MatchErase
    <3>1. Remove(match.user) /\ NoteOverlap(match.user) /\ match.at = "erase"
      BY <2>1 DEF MatchErase, Admins, Enrolled
    <3>2. w = match.user /\ Admins' = Admins \ {w}
      BY <3>1 DEF Remove, Admins, Enrolled
    <3> QED
      BY <3>1, <3>2 DEF NoteOverlap, Mishandled, Doomed
  <2>2. CASE ZigbeeErase
    <3>1. /\ Remove(zigbee.user) /\ zigbee.at = "erase"
          /\ Overlaps(zigbee.user) => "overlap" \in mishaps'
      BY <2>2 DEF ZigbeeErase, Admins, Enrolled
    <3>2. w = zigbee.user /\ Admins' = Admins \ {w}
      BY <3>1 DEF Remove, Admins, Enrolled
    <3> QED
      BY <3>1, <3>2 DEF Doomed
  <2>3. CASE MatchPermission
    <3>1. /\ match.at = "run" /\ match.action = "CHANGE_PERMISSION"
          /\ match.user \in Enrolled /\ role' = [role EXCEPT ![match.user] = match.perm]
          /\ IF match.perm = "user" THEN NoteOverlap(match.user) ELSE UNCHANGED mishaps
      BY <2>3 DEF MatchPermission, Admins, Enrolled
    <3>2. match \in Claimed
      BY <3>1, ClaimedMatch DEF ClaimedAt
    <3>3. w = match.user /\ match.perm = "user" /\ Admins' = Admins \ {w}
      <4>1. /\ Enrolled' = Enrolled
            /\ \A v \in Enrolled : role'[v] = IF v = match.user THEN match.perm ELSE role[v]
        BY <3>1 DEF Enrolled
      <4>2. match.perm \in Role
        BY <3>2 DEF Claimed
      <4> QED
        BY <4>1, <4>2 DEF Admins, Role
    <3>4. permChange.open /\ permChange.user = match.user /\ permChange.perm = match.perm
      BY <3>1 DEF ChangeInv, Changes, Changing
    <3> QED
      BY <3>1, <3>3, <3>4 DEF NoteOverlap, Mishandled, Doomed
  <2> QED
    BY <1>1, <2>1, <2>2, <2>3
<1>3. Doomed \ {w} = {}
  BY <1>2 DEF Overlaps
<1>4. ASSUME NEW u \in Doomed' PROVE FALSE
  <2>1. u \in Admins'
    BY DEF Doomed
  <2>2. u \in Admins /\ u # w
    BY <1>2, <2>1
  <2>3. u \in Doomed
    BY <1>1, <2>2, DecidesNothing
  <2> QED
    BY <1>3, <2>2, <2>3
<1> QED
  BY <1>2, <1>3, <1>4

\* An admin remains, and whoever is doomed is not the last.
LEMMA AdminStep ==
  ASSUME TypeOK, KindInv, MatchInv, RoleInv, ChangeInv, AdminInv, Asks, Next
  PROVE  AdminInv'
<1>1. app'.at = "arm" => ~permChange'.open
  <2>1. CASE UNCHANGED permChange
    <3>1. \A r \in Requests : AppPermission(r) /\ app'.at = "arm" => ~permChange.open
      <4>1. SUFFICES ASSUME NEW r \in Requests, AppPermission(r), app'.at = "arm"
                     PROVE  ~permChange.open
        OBVIOUS
      <4>2. app' # app
        BY <4>1 DEF AppPermission, Processing, Idle
      <4>3. ~Busy
        BY <4>1, <4>2 DEF AppPermission
      <4> QED
        BY <4>3 DEF Busy
    <3> QED
      BY <2>1, <3>1, AppEnters DEF AdminInv
  <2>2. CASE AppArmPermission
    <3>1. app' = Idle \/ app' = [app EXCEPT !.at = "wait"]
      BY <2>2 DEF AppArmPermission
    <3> QED
      BY <2>2, <3>1 DEF AppArmPermission, TypeOK, TaskOK, Idle
  <2>3. CASE \E o : permChange' = Closed(o)
    BY <2>3 DEF Closed
  <2> QED
    BY <2>1, <2>2, <2>3, ChangeMoves
<1>2. ASSUME "overlap" \notin mishaps'
      PROVE  Admins' # {} /\ \A u \in Doomed' : Admins' # {u}
  <2>1. Admins # {} /\ \A u \in Doomed : Admins # {u}
    BY <1>2, Frames DEF AdminInv
  <2>2. CASE Admins \subseteq Admins'
    <3>1. \A u \in Doomed' : Admins # {u}
      BY <2>1, DoomedStep DEF LastAdmin
    <3> QED
      BY <2>1, <2>2, <3>1
  <2>3. CASE ~(Admins \subseteq Admins')
    <3>1. PICK w \in Admins : w \notin Admins'
      BY <2>3
    <3> QED
      BY <1>2, <2>1, <3>1, LossStep
  <2> QED
    BY <2>2, <2>3
<1> QED
  BY <1>1, <1>2 DEF AdminInv

-----------------------------------------------------------------------------
(* The answers about permissions.                                          *)

\* An answer that says the permission is granted is preceded by the grant.
LEMMA GrantStep ==
  ASSUME GateAssumption, TypeOK, TypeOK', ReqInv, KindInv, MatchInv, RoleInv, ChangeInv,
         ChangeInv', GrantInv, Asks, Next
  PROVE  GrantInv'
<1>1. \A r \in Requests : req[r].action # "NONE" =>
        req'[r].user = req[r].user /\ req'[r].perm = req[r].perm
  BY DEF Asks
<1>2. match.at \in {"target", "run", "complete"} =>
        /\ match \in Claimed /\ match.by \in Requests
        /\ req[match.by].action # "NONE"
  BY ClaimedMatch DEF MatchInv, ClaimedAt, Claimed, Askable, UmAction
<1>3. Waits => app.req \in Requests /\ req[app.req].action # "NONE"
  BY DEF Waits, KindInv, TypeOK, TaskOK, Idle
<1>4. match'.at \in {"target", "run"} => match'.outcome = "failed"
  <2> SUFFICES ASSUME match'.at \in {"target", "run"} PROVE match'.outcome = "failed"
    OBVIOUS
  <2>1. CASE UNCHANGED match
    BY <2>1 DEF GrantInv
  <2>2. CASE Scanned
    BY <2>2 DEF Scanned, ClaimByAdmin, DenyRemote, DenyPermission, Idle
  <2>3. CASE MatchReadTarget
    <3>1. match \in Claimed /\ match.outcome = "failed"
      BY <1>2, <2>3 DEF MatchReadTarget, GrantInv
    <3> QED
      BY <2>3, <3>1 DEF MatchReadTarget, Claimed
  <2>4. CASE MatchMissTarget
    <3>1. match \in Claimed /\ match.outcome = "failed"
      BY <1>2, <2>4 DEF MatchMissTarget, GrantInv
    <3> QED
      BY <2>4, <3>1 DEF MatchMissTarget, Claimed
  <2> QED
    BY <2>1, <2>2, <2>3, <2>4, MatchEnters, Frames
<1>5. ASSUME NEW r \in Requests, req[r].action # "NONE", Waits, r = app.req,
             Granted(r) \/ "erased" \in mishaps, ~MatchErase, ~MatchPermission
      PROVE  Granted(r)' \/ "erased" \in mishaps'
  <2> SUFFICES ASSUME Granted(r) PROVE Granted(r)' \/ "erased" \in mishaps'
    BY <1>5, Frames
  <2>1. CASE UNCHANGED role
    BY <1>1, <1>5, <2>1 DEF Granted, Enrolled
  <2>2. CASE EnrolReset
    BY <1>1, <1>5, <2>2, EnrolAdds DEF Granted
  <2>3. CASE ZigbeeErase
    <3>1. CASE zigbee.user = req[r].user
      BY <1>5, <2>1, <2>3, <3>1 DEF ZigbeeErase, BeingChanged, Waits
    <3>2. CASE zigbee.user # req[r].user
      <4>1. req[r].user \in Enrolled' /\ role'[req[r].user] = role[req[r].user]
        BY <2>3, <3>2 DEF ZigbeeErase, Remove, Granted, Enrolled
      <4> QED
        BY <1>1, <1>5, <4>1 DEF Granted
    <3> QED
      BY <3>1, <3>2
  <2> QED
    BY <1>5, <2>1, <2>2, <2>3, Frames
<1>6. match'.at = "complete" =>
        /\ match'.outcome = "ok" /\ Waits' => Granted(match.by)' \/ "erased" \in mishaps'
        /\ match'.outcome # "denied"
  <2> SUFFICES ASSUME match'.at = "complete"
               PROVE  /\ match'.outcome = "ok" /\ Waits' =>
                           Granted(match.by)' \/ "erased" \in mishaps'
                      /\ match'.outcome # "denied"
    OBVIOUS
  <2>1. CASE UNCHANGED match
    <3>1. match.at = "complete" /\ ~MatchErase /\ ~MatchPermission
      BY <2>1 DEF MatchErase, MatchPermission
    <3>2. PICK r \in Requests : r = match.by /\ req[r].action # "NONE"
      BY <1>2, <3>1
    <3>3. Changes /\ permChange.open
      BY <3>1 DEF MatchInv, ClaimedAt, StagesOf, Reporting, Changes, ChangeInv, Changing
    <3>4. Waits' => Waits
      <4>1. AppArmPermission => app'.at = "idle"
        BY <3>3 DEF AppArmPermission, Busy, Idle
      <4>2. AppWake => app.at = "wait"
        BY DEF AppWake
      <4> QED
        BY <4>1, <4>2, AppEnters DEF Waits
    <3>5. match.outcome = "ok" /\ Waits' => Granted(r)' \/ "erased" \in mishaps'
      BY <1>5, <3>1, <3>2, <3>3, <3>4 DEF GrantInv, ChangeInv
    <3> QED
      BY <2>1, <3>1, <3>2, <3>5 DEF GrantInv, Granted
  <2>2. CASE MatchMissTarget
    <3>1. match \in Claimed /\ match.outcome = "failed"
      BY <1>2, <2>2 DEF MatchMissTarget, GrantInv
    <3>2. match'.outcome \in {"failed", "timeout"}
      BY <2>2, <3>1 DEF MatchMissTarget, Claimed
    <3> QED
      BY <3>2
  <2>3. CASE MatchPermission
    <3>1. match \in Claimed /\ match.outcome = "failed"
      BY <1>2, <2>3 DEF MatchPermission, GrantInv
    <3>2. match.user = req[match.by].user /\ match.perm = req[match.by].perm
      BY <2>3 DEF MatchPermission, ChangeInv
    <3>3. CASE match' = [match EXCEPT !.at = "complete"]
      BY <3>1, <3>3 DEF Claimed
    <3>4. CASE /\ match.user \in Enrolled
               /\ role' = [role EXCEPT ![match.user] = match.perm]
               /\ match' = [match EXCEPT !.at = "complete", !.outcome = "ok"]
      <4>1. match'.by = match.by /\ match'.outcome = "ok"
        BY <3>1, <3>4 DEF Claimed
      <4>2. match.user \in Enrolled' /\ role'[match.user] = match.perm
        BY <3>4 DEF Enrolled
      <4> QED
        BY <1>1, <1>2, <2>3, <3>2, <4>1, <4>2 DEF Granted, MatchPermission
    <3> QED
      BY <2>3, <3>3, <3>4 DEF MatchPermission
  <2>4. ~Scanned
    BY DEF Scanned, ClaimByAdmin, DenyRemote, DenyPermission, Idle
  <2> QED
    BY <2>1, <2>2, <2>3, <2>4, MatchEnters, Frames
<1>7. Waits' /\ permChange'.result = "ok" =>
        /\ Granted(app.req)' \/ "erased" \in mishaps'
        /\ ~(match'.at \in {"target", "run", "erase"} /\ match'.action = "DELETE_USER")
  <2> SUFFICES ASSUME Waits', permChange'.result = "ok"
               PROVE  /\ Granted(app.req)' \/ "erased" \in mishaps'
                      /\ ~(match'.at \in {"target", "run", "erase"} /\ match'.action = "DELETE_USER")
    OBVIOUS
  <2>1. AppArmPermission => app'.at = "idle" \/ permChange' = NewChange(app.req)
    BY DEF AppArmPermission, Idle
  <2>2. ~AppArmPermission
    BY <2>1 DEF NewChange, Waits
  <2>3. Waits /\ app'.req = app.req
    <3>1. AppWake => app.at = "wait"
      BY DEF AppWake
    <3> QED
      BY <2>2, <3>1, AppEnters DEF Waits
  <2>4. PICK r \in Requests : r = app.req /\ req[r].action # "NONE"
    BY <1>3, <2>3
  <2>5. CASE permChange.result = "ok" /\ UNCHANGED permChange
    <3>1. /\ Granted(r) \/ "erased" \in mishaps
          /\ ~(match.at \in {"target", "run", "erase"} /\ match.action = "DELETE_USER")
      BY <2>3, <2>4, <2>5 DEF GrantInv
    <3>2. ~permChange.open
      BY <2>5 DEF ChangeInv
    <3>3. ~MatchErase
      <4>1. MatchErase => match.at = "erase" /\ match.action = "DELETE_USER"
        BY DEF MatchErase, MatchInv, ClaimedAt, StagesOf, Reporting
      <4> QED
        BY <3>1, <4>1
    <3>4. ~MatchPermission
      <4>1. MatchPermission => Changes
        BY DEF MatchPermission, Changes
      <4> QED
        BY <3>2, <4>1 DEF ChangeInv, Changing
    <3>5. Granted(r)' \/ "erased" \in mishaps'
      BY <1>5, <2>3, <2>4, <3>1, <3>3, <3>4
    <3>6. ~(match'.at \in {"target", "run", "erase"} /\ match'.action = "DELETE_USER")
      <4> SUFFICES ASSUME match'.at \in {"target", "run", "erase"}, match'.action = "DELETE_USER"
                   PROVE  FALSE
        OBVIOUS
      <4>1. match'.at \in ClaimedAt
        BY DEF ClaimedAt
      <4>2. CASE match.at \in ClaimedAt /\ match'.action = match.action
        <5>1. match.at \in {"hold"} \cup Reporting
          BY <3>1, <4>2 DEF MatchInv, StagesOf, Reporting
        <5>2. UNCHANGED match \/ MatchStep
          BY <5>1, IdleFirst, Frames DEF Reporting
        <5>3. ~UNCHANGED match
          BY <5>1 DEF Reporting
        <5>4. MatchReadTarget \/ MatchMissTarget \/ MatchDelete
          BY <5>2, <5>3, MatchEnters
        <5> QED
          BY <5>1, <5>4 DEF MatchReadTarget, MatchMissTarget, MatchDelete, Reporting
      <4>3. CASE ClaimByAdmin /\ match'.action = pending
        BY <2>3, <4>3 DEF ChangeInv, UmAction
      <4>4. MatchStep \/ UNCHANGED match => match.at \in ClaimedAt /\ match'.action = match.action
        BY <4>1, MatchWalks
      <4>5. Scanned => ClaimByAdmin /\ match'.action = pending
        <5>1. match' # Idle
          BY <4>1 DEF Idle, ClaimedAt, Reporting
        <5> QED
          BY <5>1 DEF Scanned, ClaimByAdmin, DenyRemote, DenyPermission
      <4> QED
        BY <4>2, <4>3, <4>4, <4>5, Frames
    <3> QED
      BY <2>3, <2>4, <3>5, <3>6 DEF Granted
  <2>6. CASE /\ MatchComplete /\ permChange' = Closed(match.outcome) /\ match.at = "complete"
             /\ match'.at = "give"
    <3>1. match.outcome = "ok"
      BY <2>6 DEF Closed
    <3>2. Changes
      BY <2>6 DEF MatchInv, ClaimedAt, StagesOf, Reporting, Changes
    <3>3. r = match.by /\ (Granted(r) \/ "erased" \in mishaps)
      BY <2>3, <2>4, <2>6, <3>1, <3>2 DEF ChangeInv, GrantInv
    <3>4. ~MatchErase /\ ~MatchPermission
      BY <2>6 DEF MatchErase, MatchPermission
    <3>5. Granted(r)' \/ "erased" \in mishaps'
      BY <1>5, <2>3, <2>4, <3>3, <3>4
    <3> QED
      BY <2>3, <2>4, <2>6, <3>5 DEF Granted
  <2>7. \A o : permChange' = Closed(o) => o = "ok"
    BY DEF Closed
  <2> QED
    BY <2>2, <2>5, <2>6, <2>7, ChangeMoves
<1> QED
  BY <1>4, <1>6, <1>7 DEF GrantInv

-----------------------------------------------------------------------------
(* The theorems.                                                           *)

\* Initially nothing is pending and nobody waits.
LEMMA InvInit ==
  ASSUME GateAssumption, Init
  PROVE  IInv
<1>1. TypeOK
  <2>1. Enrolled \subseteq Users /\ \A u \in Enrolled : role[u] \in Role
    BY DEF Init, Enrolled
  <2>2. NoRequest \in RequestOf
    BY DEF NoRequest, RequestOf, Maybe, Role
  <2>3. req \in [Requests -> RequestOf]
    BY <2>2 DEF Init
  <2>4. /\ target \in [user : Maybe(Users), perm : Role]
        /\ permChange \in [open : BOOLEAN, user : Maybe(Users), perm : Role, result : Outcome]
        /\ umResult \in [valid : BOOLEAN, outcome : Outcome]
        /\ enrol \in [at : {"idle", "requested", "active"}, user : Maybe(Users), perm : Role]
    BY DEF Init, Maybe, Role, Outcome
  <2>5. gate \in Noted /\ ble \in Noted
    BY DEF Init, Noted, Maybe
  <2>6. queue \in Seq(Message) /\ Len(queue) <= QueueDepth
    BY DEF Init, GateAssumption
  <2>7. TaskOK
    BY DEF Init, TaskOK, Maybe
  <2>8. /\ pending \in Action \cup {"NONE"} /\ armedBy \in Maybe(Requests)
        /\ doneSem \in BOOLEAN /\ hold \in BOOLEAN /\ mishaps \subseteq Mishap
        /\ startEvent \in Maybe([user : Users, perm : Role]) /\ slot \in Maybe(Requests)
    BY DEF Init, Maybe
  <2> QED
    BY <2>1, <2>3, <2>4, <2>5, <2>6, <2>7, <2>8 DEF TypeOK
<1>2. \A r \in Requests : req[r].action = "NONE"
  BY DEF Init, NoRequest
<1>3. /\ match.at = "idle" /\ sweep.at = "idle" /\ enroller.at = "idle" /\ app.at = "idle"
      /\ pending = "NONE" /\ armedBy = None /\ host = None /\ slot = None /\ startEvent = None
      /\ enrol.at = "idle" /\ ~hold /\ ~gate.open /\ gate.req = None /\ ~ble.open /\ ble.req = None
      /\ ~permChange.open
  BY DEF Init, Idle
<1>4. ReqInv /\ ArmInv /\ KindInv
  BY <1>2, <1>3 DEF ReqInv, ArmInv, KindInv, UmAction, Askable
<1>5. MatchInv /\ EnrolInv /\ RoleInv /\ HoldInv
  BY <1>3 DEF MatchInv, EnrolInv, RoleInv, HoldInv, ClaimedAt, Reporting
<1>8. AdminInv
  <2>1. zigbee.at = "idle" /\ Admins # {}
    BY DEF Init, Idle
  <2> QED
    BY <1>3, <2>1 DEF AdminInv, Doomed
<1>6. NoteInv /\ AnswerInv
  BY <1>3 DEF NoteInv, AnswerInv
<1>7. ChangeInv /\ GrantInv
  BY <1>3 DEF ChangeInv, GrantInv, Changes, Expires, Waits
<1> QED
  BY <1>1, <1>4, <1>5, <1>6, <1>7, <1>8 DEF IInv

\* Every step keeps the invariant.
LEMMA InvStep ==
  ASSUME GateAssumption, IInv, [Next]_vars
  PROVE  IInv'
<1>1. CASE Next
  <2>1. /\ TypeOK /\ ReqInv /\ ArmInv /\ KindInv /\ MatchInv /\ EnrolInv /\ RoleInv
        /\ AdminInv /\ HoldInv /\ NoteInv /\ AnswerInv /\ ChangeInv /\ GrantInv
    BY DEF IInv
  <2>2. TypeOK' /\ Asks
    BY <1>1, <2>1, TypeStep
  <2>3. ReqInv' /\ ArmInv' /\ KindInv' /\ MatchInv'
    BY <1>1, <2>1, <2>2, ReqStep, ArmStep, KindStep, MatchKeeps
  <2>4. EnrolInv' /\ RoleInv' /\ HoldInv'
    BY <1>1, <2>1, <2>2, EnrolKeeps, RoleStep, HoldStep
  <2>5. NoteInv' /\ AnswerInv'
    BY <1>1, <2>1, <2>2, NoteStep, AnswerStep
  <2>8. AdminInv'
    BY <1>1, <2>1, <2>2, AdminStep
  <2>6. ChangeInv'
    BY <1>1, <2>1, <2>2, ChangeStep
  <2>7. GrantInv'
    BY <1>1, <2>1, <2>2, <2>6, GrantStep
  <2> QED
    BY <2>2, <2>3, <2>4, <2>5, <2>6, <2>7, <2>8 DEF IInv
<1>2. CASE UNCHANGED vars
  <2> USE <1>2 DEF vars, gateVars, permVars, enrolVars, tasks, appVars
  <2>1. TypeOK'
    BY DEF IInv, TypeOK, TaskOK, Enrolled
  <2>2. ReqInv' /\ ArmInv' /\ KindInv' /\ MatchInv' /\ EnrolInv'
    BY DEF IInv, ReqInv, ArmInv, KindInv, MatchInv, EnrolInv
  <2>3. RoleInv' /\ HoldInv'
    BY DEF IInv, RoleInv, HoldInv, Held, Enrolled
  <2>6. AdminInv'
    BY DEF IInv, AdminInv, Doomed, Admins, Enrolled
  <2>4. NoteInv' /\ AnswerInv'
    BY DEF IInv, NoteInv, AnswerInv, Coming
  <2>5. ChangeInv' /\ GrantInv'
    BY DEF IInv, ChangeInv, GrantInv, Changing, Changes, Expires, Waits, Granted, Enrolled
  <2> QED
    BY <2>1, <2>2, <2>3, <2>4, <2>5, <2>6 DEF IInv
<1> QED
  BY <1>1, <1>2

\* The invariant holds throughout.
LEMMA Invariance == Spec => []IInv
<1>1. Init => IInv
  BY InvInit, GateAssumption
<1>2. IInv /\ [Next]_vars => IInv'
  BY InvStep, GateAssumption
<1> QED
  BY <1>1, <1>2, PTL DEF Spec

\* Every variable keeps its type: in particular each task carries, wherever it is,
\* what its next step reads.
THEOREM TypeCorrect == Spec => []TypeOK
<1>1. IInv => TypeOK
  BY DEF IInv
<1> QED
  BY <1>1, Invariance, PTL

\* The target an authorized action reads is the one its request asked for.
THEOREM TargetsAreArmed == Spec => []TargetIsArmed
<1>1. IInv => TargetIsArmed
  <2> SUFFICES ASSUME IInv, pending \in UmAction
               PROVE  /\ armedBy # None
                      /\ target.user = req[armedBy].user /\ target.perm = req[armedBy].perm
    BY DEF TargetIsArmed
  <2>1. armedBy \in Requests
    BY DEF IInv, ArmInv, Askable
  <2> QED
    BY <2>1, GateAssumption DEF IInv, ArmInv, GateAssumption
<1> QED
  BY <1>1, Invariance, PTL

\* Nothing under way, nothing went wrong: the sensor is not held powered.
THEOREM HoldsEnd == Spec => []HoldEnds
<1>1. IInv => HoldEnds
  <2> SUFFICES ASSUME IInv, ~Busy, match = Idle, sweep = Idle, enroller = Idle,
                      mishaps \cap {"lateHold", "clobbered", "lockMissed"} = {}
               PROVE  ~hold
    BY DEF HoldEnds
  <2>1. match.at = "idle" /\ sweep.at = "idle" /\ enroller.at = "idle"
    BY DEF Idle
  <2>2. pending = "NONE" /\ enrol.at = "idle"
    BY DEF Busy
  <2> QED
    BY <2>1, <2>2 DEF IInv, HoldInv, Held
<1> QED
  BY <1>1, Invariance, PTL

\* Whoever is noted for an answer has it when the action is over.
THEOREM GateIsResolved == Spec => []GateResolved
<1>1. IInv => GateResolved
  <2> SUFFICES ASSUME IInv, pending = "NONE", match = Idle, sweep = Idle, app = Idle, queue = <<>>,
                      mishaps \cap {"lost", "lockMissed", "lateNote"} = {}, gate.open,
                      req[gate.req].action # "RENAME_USER"
               PROVE  FALSE
    BY DEF GateResolved
  <2>1. match.at = "idle" /\ sweep.at = "idle" /\ app.at = "idle"
    BY DEF Idle
  <2>2. Coming(gate.req)
    BY <2>1 DEF IInv, AnswerInv
  <2>3. armedBy = None /\ gate.req # None
    BY DEF IInv, ArmInv, KindInv
  <2> QED
    BY <2>1, <2>2, <2>3 DEF Coming, ClaimedAt, Reporting
<1> QED
  BY <1>1, Invariance, PTL

\* Deletions and demotions leave an admin, unless two of them were decided at once.
THEOREM AdminsRemain == Spec => []AdminRemains
<1>1. IInv => AdminRemains
  BY DEF IInv, AdminInv, AdminRemains
<1> QED
  BY <1>1, Invariance, PTL

\* A reply goes to its request only, as the last of its replies.
LEMMA ReplyIs ==
  ASSUME req \in Reqs, NEW r, NEW o \in Outcome, NEW q \in Requests
  PROVE  /\ r # q => Replied(r, o)[q] = req[q]
         /\ r = q => LET new == Replied(r, o)[q].replies IN new[Len(new)] = o
<1>1. CASE r # q
  BY <1>1 DEF Replied, Reqs
<1>2. CASE r = q
  <2>1. req[q] \in RequestOf
    BY DEF Reqs
  <2>2. req[q].replies \in Seq(Outcome)
    BY <2>1 DEF RequestOf
  <2>3. PICK s \in Seq(Outcome) : s = Append(req[q].replies, o) /\ s[Len(s)] = o
    <3>1. \A u \in Seq(Outcome) : /\ Append(u, o) \in Seq(Outcome)
                                   /\ Append(u, o)[Len(Append(u, o))] = o
      BY AppendProperties
    <3> QED
      BY <2>2, <3>1
  <2>4. \A m \in RequestOf : [m EXCEPT !.replies = s].replies = s
    BY DEF RequestOf
  <2>5. Replied(r, o) = [req EXCEPT ![q] = [req[q] EXCEPT !.replies = s]]
    BY <1>2, <2>3 DEF Replied
  <2>6. Replied(r, o)[q].replies = s
    BY <2>1, <2>4, <2>5 DEF Reqs
  <2> HIDE DEF Replied
  <2> QED
    BY <1>2, <2>3, <2>6
<1> QED
  BY <1>1, <1>2

\* Who answers the request for a permission change, and with what.
LEMMA PermissionReplies ==
  ASSUME GateAssumption, TypeOK, KindInv, Next, NEW r \in Requests,
         req[r].action = "CHANGE_PERMISSION", req'[r].replies # req[r].replies
  PROVE  \E o \in Outcome :
           /\ LET new == req'[r].replies IN new[Len(new)] = o
           /\ \/ o \notin {"ok", "denied"}
              \/ AppPermission(r) /\ o = "ok" /\ Granted(r)
              \/ AppAnswerPermission /\ r = app.req /\ o = permChange.result
<1> DEFINE Says(o) == LET new == req'[r].replies IN new[Len(new)] = o
<1> SUFFICES \E o \in Outcome :
               /\ Says(o)
               /\ \/ o \notin {"ok", "denied"}
                  \/ AppPermission(r) /\ o = "ok" /\ Granted(r)
                  \/ AppAnswerPermission /\ r = app.req /\ o = permChange.result
  OBVIOUS
<1>1. req \in Reqs /\ req' # req
  BY DEF TypeOK, Reqs
<1>2. ASSUME NEW q, NEW o \in Outcome, req' = Replied(q, o)
      PROVE  q = r /\ Says(o)
  <2>1. q = r
    BY <1>1, <1>2, ReplyIs
  <2> QED
    BY <1>1, <1>2, <2>1, ReplyIs
<1>3. /\ {"busy", "denied", "timeout", "failed", "not_found", "last_admin", "ok", "id_occupied",
          "name_taken"} \subseteq Outcome
      /\ permChange.result \in Outcome
  BY DEF Outcome, TypeOK
<1> HIDE DEF Says
<1>4. CASE HostStep
  <2>1. ASSUME NEW q \in Requests, HostRequest(q) \/ HostNoteAdminAction(q) PROVE FALSE
    <3>1. req[q].action = "NONE"
      BY <2>1 DEF HostRequest, HostNoteAdminAction
    <3>2. req'[r] = req[r]
      <4>1. \A a, u, p : Open(q, a, u, p)[r] = req[r]
        BY <1>1, <3>1 DEF Open, Reqs
      <4>2. \A a, u, p : [Open(q, a, u, p) EXCEPT ![q].replies = <<"busy">>][r] = req[r]
        BY <1>1, <3>1 DEF Open, Reqs
      <4>3. HostNoteAdminAction(q) => req' = Open(q, "ENROLL_ADMIN", None, "admin")
        BY DEF HostNoteAdminAction
      <4>4. HostRequest(q) => \E a, u, p : \/ req' = Open(q, a, u, p)
                                           \/ req' = [Open(q, a, u,
                                                                                               p) EXCEPT ![q].replies = <<"busy">>]
        BY DEF HostRequest
      <4>5. CASE HostNoteAdminAction(q)
        BY <4>1, <4>3, <4>5
      <4>6. CASE HostRequest(q)
        <5>1. PICK a, u, p : \/ req' = Open(q, a, u, p)
                            \/ req' = [Open(q, a, u, p) EXCEPT ![q].replies = <<"busy">>]
          BY <4>4, <4>6
        <5>2. CASE req' = Open(q, a, u, p)
          BY <4>1, <5>2
        <5>3. CASE req' = [Open(q, a, u, p) EXCEPT ![q].replies = <<"busy">>]
          BY <4>2, <5>3
        <5> QED
          BY <5>1, <5>2, <5>3
      <4> QED
        BY <2>1, <4>5, <4>6
    <3> QED
      BY <3>2
  <2>2. ASSUME HostArmAdminAction PROVE FALSE
    <3>1. host # None /\ req' = Replied(host, "denied")
      BY <1>1, <2>2 DEF HostArmAdminAction
    <3>2. host = r
      BY <1>2, <1>3, <3>1
    <3> QED
      BY <3>1, <3>2 DEF KindInv
  <2> QED
    BY <1>4, <2>1, <2>2 DEF HostStep
<1>5. CASE AppStep
  <2>1. ASSUME NEW q \in Requests, AppRefuse(q) PROVE FALSE
    <3>1. \E o \in Outcome : req' = Replied(q, o)
      BY <1>3, <2>1 DEF AppRefuse, RemoteGuard
    <3>2. req[q].action \in UmAction
      BY <2>1 DEF AppRefuse
    <3> QED
      BY <1>2, <3>1, <3>2 DEF UmAction
  <2>2. ASSUME NEW q \in Requests, AppPermission(q)
        PROVE  \E o \in Outcome :
                 Says(o) /\ (o \notin {"ok", "denied"} \/ (q = r /\ o = "ok" /\ Granted(r)))
    <3>1. PICK o \in Outcome : /\ req' = Replied(q, o)
                               /\ o # "denied"
                               /\ o = "ok" => Granted(q)
      BY <1>1, <1>3, <2>2 DEF AppPermission, Granted
    <3> QED
      BY <1>2, <3>1
  <2>3. CASE AppArmPermission \/ AppGiveUp
    <3>1. PICK o \in {"busy", "timeout"} : req' = Replied(app.req, o)
      BY <1>1, <2>3 DEF AppArmPermission, AppGiveUp
    <3> QED
      BY <1>2, <1>3, <3>1
  <2>4. CASE AppAnswerPermission
    <3>1. PICK o \in {permChange.result, "failed"} : req' = Replied(app.req, o)
      BY <2>4 DEF AppAnswerPermission
    <3> QED
      BY <1>2, <1>3, <2>4, <3>1
  <2>5. ASSUME AppComplete PROVE FALSE
    <3>1. ble.open /\ req' = Replied(ble.req, "denied")
      BY <1>1, <2>5 DEF AppComplete
    <3> QED
      BY <1>2, <1>3, <3>1 DEF KindInv
  <2>6. ASSUME AppResolve PROVE FALSE
    <3>1. req' = Replied(gate.req, app.outcome) /\ app.outcome \in Outcome
      BY <2>6 DEF AppResolve, TypeOK, TaskOK, Idle
    <3>2. r = gate.req
      BY <1>2, <3>1
    <3> QED
      BY <3>2 DEF KindInv, UmAction, GateAssumption
  <2>7. (\A q \in Requests : ~AppArm(q)) /\ ~AppHold /\ ~AppGate /\ ~AppWake
    BY <1>1 DEF AppArm, AppHold, AppGate, AppWake, appVars
  <2> QED
    BY <1>5, <2>1, <2>2, <2>3, <2>4, <2>5, <2>6, <2>7 DEF AppStep
<1>6. CASE MatchStep
  <2>1. ASSUME MatchAnswerAdminAction PROVE FALSE
    <3>1. ble.open /\ req' = Replied(ble.req, "ok")
      BY <1>1, <2>1 DEF MatchAnswerAdminAction
    <3> QED
      BY <1>2, <1>3, <3>1 DEF KindInv
  <2>2. ASSUME MatchResolve PROVE FALSE
    <3>1. req' = Replied(gate.req, match.outcome) /\ match.outcome \in Outcome
      BY <2>2, ClaimedMatch DEF MatchResolve, ClaimedAt, Reporting, Claimed
    <3>2. r = gate.req
      BY <1>2, <3>1
    <3> QED
      BY <3>2 DEF KindInv, UmAction, GateAssumption
  <2> QED
    BY <1>1, <1>6, <2>1, <2>2 DEF MatchStep, MatchRelease, MatchPost, MatchReadTarget,
       MatchMissTarget, MatchDelete, MatchErase, MatchRename, MatchStartEnrol, MatchHold,
       MatchRequestEnrol, MatchHoldEnrol, MatchEmitEnrol, MatchPermission, MatchComplete, MatchGive,
       MatchRecord, MatchCallback, appVars
<1>7. ~Scanned /\ ~ButtonDispatch /\ ~SweepStep /\ ~EnrolStep /\ ~ZigbeeStep
  BY <1>1 DEF ZigbeeStep, ZigbeeDelete, ZigbeeErase, Scanned, ClaimByAdmin, DenyRemote,
     DenyPermission, ButtonDispatch, SweepStep, Sweep,
     SweepRelease, SweepComplete, SweepGive, SweepPost, EnrolStep, EnrolStart, EnrolEnd, EnrolReset,
     appVars
<1> QED
  BY <1>4, <1>5, <1>6, <1>7 DEF Next

\* The reply to a permission change tells the truth.
THEOREM PermissionRepliesTrue == Spec => PermissionReplyTrue
<1>1. ASSUME IInv, [Next]_vars, NEW r \in Requests, req[r].action = "CHANGE_PERMISSION",
             req'[r].replies # req[r].replies
      PROVE  LET new == req'[r].replies
             IN  /\ new[Len(new)] = "ok" => Granted(r) \/ "erased" \in mishaps
                 /\ new[Len(new)] = "denied" => ~Executing(r)
  <2>1. Next
    BY <1>1 DEF vars, appVars
  <2>2. PICK o \in Outcome :
          /\ LET new == req'[r].replies IN new[Len(new)] = o
          /\ \/ o \notin {"ok", "denied"}
             \/ AppPermission(r) /\ o = "ok" /\ Granted(r)
             \/ AppAnswerPermission /\ r = app.req /\ o = permChange.result
    BY <1>1, <2>1, PermissionReplies, GateAssumption DEF IInv
  <2>3. AppAnswerPermission => app.at = "woken" /\ Waits
    BY DEF AppAnswerPermission, Waits
  <2>4. o = "ok" => Granted(r) \/ "erased" \in mishaps
    BY <1>1, <2>2, <2>3 DEF IInv, GrantInv
  <2>5. ASSUME o = "denied" PROVE ~Executing(r)
    <3>1. ~permChange.open
      BY <1>1, <2>2, <2>5 DEF IInv, ChangeInv
    <3>2. ~Changes
      BY <1>1, <3>1 DEF IInv, ChangeInv, Changing
    <3>3. Executing(r) => match.action = "CHANGE_PERMISSION" /\ match.at \in StagesOf("CHANGE_PERMISSION")
      BY <1>1 DEF Executing, IInv, MatchInv, ClaimedAt, Reporting
    <3> QED
      BY <3>2, <3>3 DEF Executing, StagesOf, Changes
  <2> QED
    BY <2>2, <2>4, <2>5
<1>2. IInv /\ [Next]_vars =>
        [\A r \in Requests :
           LET u == req[r].user
               new == req'[r].replies
           IN (req[r].action = "CHANGE_PERMISSION" /\ new # req[r].replies) =>
                /\ new[Len(new)] = "ok" =>
                     (u \in Enrolled /\ role[u] = req[r].perm) \/ "erased" \in mishaps
                /\ new[Len(new)] = "denied" => ~Executing(r)]_vars
  BY <1>1 DEF Granted
<1> QED
  BY <1>2, Invariance, PTL DEF Spec, PermissionReplyTrue
=============================================================================
