------------------------------ MODULE SdfSession -----------------------------
(***************************************************************************)
(* Sessions of companions, and the accounts that open them: the            *)
(* Authentication characteristic of sdf_ble_companion.c on the NimBLE host *)
(* task, the pending registration of sdf_services.c, the app task that     *)
(* decides and answers it (sdf_app.c, sdf_services_web_auth.c,             *)
(* reply_auth), and the records of sdf_storage.c, which a rename, a        *)
(* deletion of users and a registration write without a common lock.       *)
(*                                                                         *)
(* A step ends where a lock is given up or NVS is written.  The host task  *)
(* preempts the app task, so anything a client does may fall between two   *)
(* of the app task's steps.  Passwords stand for the credentials derived   *)
(* from them: a response answers a challenge when it is made with the      *)
(* password on record.                                                     *)
(***************************************************************************)
EXTENDS Integers, FiniteSets

CONSTANTS
  Conns,    \* connection handles, no more than there are slots
  Users,    \* fingerprint user ids
  Names,    \* names to register, log in and rename with
  Keys,     \* passwords
  None,     \* no name, no password, no connection
  MaxTurns, \* bound: requests, disconnections, changes of users, resets
  Faults    \* what may go wrong, one of them once: "lock", "write", "lost"

ASSUME SessionAssumption ==
  /\ Users \subseteq Nat \ {0} /\ IsFiniteSet(Users)
  /\ None \notin Conns \cup Names \cup Keys
  /\ MaxTurns \in Nat /\ Faults \subseteq {"lock", "write", "lost"}

VARIABLES
  account,          \* in NVS: each user's name and, of an account, its password
  enrolled, admins, \* the enrolled-user record
  session,          \* s_connections
  reg, gate,        \* of s_state: the pending registration, the pending admin action
  result,           \* the registration's outcome, on its way to the app task
  host, app,        \* where the two tasks are with it
  rename, erasing,  \* records a rename or a deletion is about to write
  claim             \* history: what each connection asked for and proved

\* History, read by the properties and bounds only.
VARIABLES turns, mishaps

Nobody   == 0
NoRecord == [name |-> None, key |-> None]
Closed   == [up |-> FALSE, auth |-> "none", waiting |-> FALSE, name |-> None, user |-> Nobody]
Opened   == [Closed EXCEPT !.up = TRUE]
Unproved == [key |-> None, mine |-> FALSE, proof |-> {}]
NoReg    == [pending |-> FALSE, name |-> None, key |-> None, by |-> Nobody]
HostIdle == [at |-> "idle", conn |-> None, key |-> None]
AppIdle  == [at |-> "idle", granted |-> FALSE, conn |-> None, user |-> Nobody]
Renamer  == {"match", "cli"}
NoRename == [user |-> Nobody, name |-> None, key |-> None]

users   == <<account, enrolled, admins, rename, erasing>>
pending == <<reg, gate, result>>
tasks   == <<host, app>>
vars    == <<users, session, pending, tasks, claim, turns, mishaps>>

\* "busy": a registration was noted and its action refused.  "late": an answer went to a
\* connection that waits under the same name, or had logged out or gone on meanwhile.
\* "overlap": a record was written under a name that is taken or being registered, or
\* over a change of the same record.  "orphan": a record was written for a user deleted
\* meanwhile, or a reset came between the two halves of a deletion.  "gone": the record
\* of whoever authorized a registration was erased before it was answered.
Mishap == Faults \cup {"busy", "late", "overlap", "orphan", "gone"}

\* Bound: after a mishap that is not a fault, only what is under way goes on.
Room == turns < MaxTurns /\ mishaps \subseteq Faults
Turn == Room /\ turns' = turns + 1
Stay == UNCHANGED turns
Fine == UNCHANGED mishaps
Noting(kind, when) == mishaps' = IF when THEN mishaps \cup {kind} ELSE mishaps
CanFail(fault) == fault \in Faults /\ mishaps \cap Faults = {}
Fails(fault)   == CanFail(fault) /\ mishaps' = mishaps \cup {fault}

-----------------------------------------------------------------------------
(* The records.                                                            *)

FirstOf(S) == IF S = {} THEN Nobody ELSE CHOOSE u \in S : \A v \in S : u <= v

\* sdf_services_find_name_holder
Holder(name) == FirstOf({u \in Users : account[u].name = name})

\* sdf_storage_web_user_find_by_name: a name without a credential is no account.
Account(name) == FirstOf({u \in Users : account[u].name = name /\ account[u].key # None})

MutantNoCheck(user, name) == TRUE

FreeFor(user, name) == Holder(name) \in {Nobody, user}

\* sdf_storage_web_user_save
Saves(user, name, key) ==
  account' = [account EXCEPT ![user] = [name |-> name, key |-> key]]

\* Two changes under way that touch one record or one name.
Clash(a, b) ==
  /\ a.user # Nobody /\ b.user # Nobody
  /\ a.user = b.user \/ a.name = b.name

Registering == [user |-> reg.by, name |-> reg.name]

Unforeseen(user, changed) ==
  (IF changed THEN {"overlap"} ELSE {}) \cup (IF user \notin enrolled THEN {"orphan"} ELSE {})

-----------------------------------------------------------------------------
(* The host task: connections and the Authentication characteristic.       *)

HostFree == host = HostIdle

Connect(c) ==
  /\ HostFree /\ ~session[c].up
  /\ session' = [session EXCEPT ![c] = Opened]
  /\ UNCHANGED <<users, pending, tasks, claim>> /\ Stay /\ Fine

Disconnect(c) ==
  /\ HostFree /\ session[c].up /\ Turn
  /\ session' = [session EXCEPT ![c] = Closed]
  /\ claim' = [claim EXCEPT ![c] = Unproved]
  /\ UNCHANGED <<users, pending, tasks>> /\ Fine

\* LOGIN_INIT: a name nobody has an account under gets a challenge all the same.
LoginInit(c, name) ==
  /\ HostFree /\ session[c].up /\ Turn
  /\ session' = [session EXCEPT ![c] =
       [@ EXCEPT !.auth = "challenge", !.waiting = FALSE, !.name = name]]
  /\ claim' = [claim EXCEPT ![c].mine = FALSE]
  /\ UNCHANGED <<users, pending, tasks>> /\ Fine

\* LOGIN_VERIFY uses the challenge up, whatever comes of it.
LoginVerify(c, key) ==
  LET u == Account(session[c].name) IN
  /\ HostFree /\ session[c].auth = "challenge"
  /\ IF u \in admins /\ account[u].key = key
     THEN /\ session' = [session EXCEPT ![c] =
                [@ EXCEPT !.auth = "ok", !.waiting = FALSE, !.user = u]]
          /\ claim' = [claim EXCEPT ![c] =
                [key |-> key, mine |-> FALSE, proof |-> @.proof \cup {u}]]
     ELSE /\ session' = [session EXCEPT ![c] =
                [@ EXCEPT !.auth = "none", !.waiting = FALSE]]
          /\ UNCHANGED claim
  /\ UNCHANGED <<users, pending, tasks>> /\ Stay /\ Fine

\* REGISTER, under the companion's lock; the rest of it is Ask and Arm.
Register(c, name, key) ==
  /\ HostFree /\ session[c].up /\ Turn
  /\ session' = [session EXCEPT ![c] =
       [@ EXCEPT !.auth = "pending", !.waiting = TRUE, !.name = name]]
  /\ claim' = [claim EXCEPT ![c] = [@ EXCEPT !.key = key, !.mine = FALSE]]
  /\ host' = [at |-> "ask", conn |-> c, key |-> key]
  /\ UNCHANGED <<users, pending, app>> /\ Fine

\* Dropped without an answer when one is pending or nobody is enrolled; a device whose
\* setup was once completed does not look at the latter.
Ask ==
  /\ host.at = "ask"
  /\ \/ /\ reg.pending \/ enrolled = {}
        /\ host' = HostIdle /\ Fine /\ UNCHANGED <<reg, claim>>
     \/ /\ Fails("lock")
        /\ host' = HostIdle /\ UNCHANGED <<reg, claim>>
     \/ /\ ~reg.pending
        /\ reg' = [pending |-> TRUE, name |-> session[host.conn].name,
                   key |-> host.key, by |-> Nobody]
        /\ claim' = [claim EXCEPT ![host.conn].mine = TRUE]
        /\ host' = [host EXCEPT !.at = "arm"] /\ Fine
  /\ UNCHANGED <<users, session, gate, result, app>> /\ Stay

\* sdf_services_request_admin_action; refused, the registration stays noted.
Arm ==
  /\ host.at = "arm" /\ host' = HostIdle
  /\ \/ gate = "none" /\ gate' = "web" /\ Fine
     \/ gate # "none" /\ UNCHANGED gate /\ mishaps' = mishaps \cup {"busy"}
     \/ Fails("lock") /\ UNCHANGED gate
  /\ UNCHANGED <<users, session, reg, result, app, claim>> /\ Stay

MutantStaysBound(s) == [s EXCEPT !.auth = "none", !.waiting = FALSE, !.name = None]

\* What LOGOUT leaves of a session.
LoggedOut(s) == [s EXCEPT !.auth = "none", !.waiting = FALSE, !.name = None, !.user = Nobody]

Logout(c) ==
  /\ HostFree /\ session[c].up /\ Turn
  /\ session' = [session EXCEPT ![c] = LoggedOut(@)]
  /\ claim' = [claim EXCEPT ![c] = Unproved]
  /\ UNCHANGED <<users, pending, tasks>> /\ Fine

-----------------------------------------------------------------------------
(* The gate: an admin's scan, the sweep of the admin task, other actions.  *)

\* An event may be lost at a full queue.
Sends(outcome) ==
  \/ result' = outcome /\ Fine
  \/ Fails("lost") /\ UNCHANGED result

\* sdf_services_try_claim_admin_action and what it executes, on the match task.
Scan(u) ==
  /\ gate = "web" /\ u \in admins /\ rename["match"] = NoRename
  /\ gate' = "none" /\ reg' = [reg EXCEPT !.by = u] /\ Sends("granted")
  /\ claim' = [c \in Conns |->
       IF claim[c].mine THEN [claim[c] EXCEPT !.proof = @ \cup {u}] ELSE claim[c]]
  /\ UNCHANGED <<users, session, tasks>> /\ Stay

Expire ==
  /\ gate = "web" /\ gate' = "none" /\ Sends("denied")
  /\ UNCHANGED <<users, session, reg, tasks, claim>> /\ Stay

\* Any other use of the gate; among them, a rename.
OtherAction ==
  /\ gate = "none" /\ Turn /\ gate' = "other"
  /\ UNCHANGED <<users, session, reg, result, tasks, claim>> /\ Fine

OtherEnds ==
  /\ gate = "other" /\ gate' = "none"
  /\ UNCHANGED <<users, session, reg, result, tasks, claim>> /\ Stay /\ Fine

\* sdf_services_set_user_name: the checks and the reading of the record, its writing.
\* The match task renames when a scan authorized it, the CLI when it is told to.
Begins(t, u, name) ==
  /\ rename[t] = NoRename /\ u \in enrolled /\ FreeFor(u, name)
  /\ rename' = [rename EXCEPT ![t] = [user |-> u, name |-> name, key |-> account[u].key]]
  /\ UNCHANGED <<account, enrolled, admins, erasing, session, reg, result, tasks, claim>>
  /\ Fine

Rename(u, name) ==
  \/ gate = "other" /\ gate' = "none" /\ Begins("match", u, name) /\ Stay
  \/ UNCHANGED gate /\ Begins("cli", u, name) /\ Turn

RenameSaves(t) ==
  LET mine == rename[t] IN
  /\ mine # NoRename /\ rename' = [rename EXCEPT ![t] = NoRename]
  /\ \/ /\ Saves(mine.user, mine.name, mine.key)
        /\ mishaps' = mishaps \cup
             Unforeseen(mine.user,
                        \/ account[mine.user].key # mine.key
                        \/ Clash(mine, Registering)
                        \/ \E other \in Renamer \ {t} : Clash(mine, rename[other]))
     \/ Fails("write") /\ UNCHANGED account
  /\ UNCHANGED <<enrolled, admins, erasing, session, pending, tasks, claim>> /\ Stay

-----------------------------------------------------------------------------
(* The app task: sdf_app_on_web_reg_auth_result and, for a registration    *)
(* that was not granted, sdf_app_on_admin_action_complete.                 *)

AppAt(step) == app.at = step
AppGoes(step) == app' = [app EXCEPT !.at = step]

MutantDenialIgnored(outcome) == IF outcome = "granted" THEN "decide" ELSE "idle"

\* Both outcomes lead to an answer.
HandledBy(outcome) == IF outcome = "granted" THEN "decide" ELSE "find"

Take ==
  /\ AppAt("idle") /\ result # "none" /\ result' = "none"
  /\ \/ AppGoes(HandledBy(result)) /\ Fine
     \/ Fails("lock") /\ UNCHANGED app
  /\ UNCHANGED <<users, session, reg, gate, host, claim>> /\ Stay

MutantMirrorsScan(user, name) ==
  [granted |-> TRUE, at |-> IF FreeFor(user, name) THEN "save" ELSE "find"]

\* sdf_services_web_auth_decide_registration: what is answered, and whether it is saved.
Decision(user, name) ==
  IF user # Nobody /\ FreeFor(user, name)
  THEN [granted |-> TRUE, at |-> "save"] ELSE [granted |-> FALSE, at |-> "find"]

\* Without the password, or the credential derived from it, nothing is saved and the
\* answer is the scan's.
Decide ==
  /\ AppAt("decide")
  /\ \/ LET d == Decision(reg.by, reg.name) IN
           app' = [app EXCEPT !.granted = d.granted, !.at = d.at] /\ Fine
     \/ Fails("lock") /\ app' = [app EXCEPT !.granted = TRUE, !.at = "find"]
  /\ UNCHANGED <<users, session, pending, host, claim>> /\ Stay

\* The answer stays the same when the record cannot be saved.
Save ==
  /\ AppAt("save") /\ AppGoes("find")
  /\ \/ /\ Saves(reg.by, reg.name, reg.key)
        /\ mishaps' = mishaps \cup
             Unforeseen(reg.by, \E t \in Renamer : Clash(rename[t], Registering))
     \/ Fails("write") /\ UNCHANGED account
  /\ UNCHANGED <<enrolled, admins, rename, erasing, session, pending, host, claim>> /\ Stay

\* A connection reply_auth takes for the one that asked.
Awaits(c) == session[c].up /\ session[c].waiting /\ session[c].name = reg.name

\* sdf_ble_companion_reply_auth, in four steps: the connection and the account, the
\* state of the session, its user, the end of the registration.
Find ==
  /\ AppAt("find")
  /\ \/ \E c \in Conns :
          /\ Awaits(c)
          /\ app' = [app EXCEPT !.at = "set", !.conn = c,
                       !.user = IF app.granted THEN Account(reg.name) ELSE Nobody]
          /\ Noting("late", ~claim[c].mine)
     \/ (\A c \in Conns : ~Awaits(c)) /\ AppGoes("clear") /\ Fine
  /\ UNCHANGED <<users, session, pending, host, claim>> /\ Stay

\* sdf_ble_companion_set_authenticated, by handle.
SetAuthenticated ==
  LET c == app.conn IN
  /\ AppAt("set")
  /\ IF session[c].up
     THEN /\ session' = [session EXCEPT ![c] =
               IF app.granted THEN [@ EXCEPT !.auth = "ok", !.waiting = FALSE]
               ELSE [@ EXCEPT !.auth = "none", !.waiting = FALSE, !.user = Nobody]]
          /\ claim' = IF app.granted THEN claim
                      ELSE [claim EXCEPT ![c] = [@ EXCEPT !.mine = FALSE, !.proof = {}]]
          /\ AppGoes(IF app.granted THEN "bind" ELSE "clear")
          /\ Noting("late", ~(session[c].waiting /\ claim[c].mine))
     ELSE UNCHANGED <<session, claim>> /\ AppGoes("clear") /\ Fine
  /\ UNCHANGED <<users, pending, host>> /\ Stay

\* sdf_ble_companion_bind_user
BindUser ==
  LET c == app.conn IN
  /\ AppAt("bind") /\ AppGoes("clear")
  /\ IF session[c].up
     THEN /\ session' = [session EXCEPT ![c].user = app.user]
          /\ claim' = [claim EXCEPT ![c].mine = FALSE]
          /\ Noting("late", ~claim[c].mine)
     ELSE UNCHANGED <<session, claim>> /\ Fine
  /\ UNCHANGED <<users, pending, host>> /\ Stay

\* sdf_services_clear_web_reg_auth
Clear ==
  /\ AppAt("clear") /\ app' = AppIdle
  /\ \/ reg' = NoReg /\ Fine
     \/ Fails("lock") /\ UNCHANGED reg
  /\ UNCHANGED <<users, session, gate, result, host, claim>> /\ Stay

-----------------------------------------------------------------------------
(* Users come and go: enrolments, permission changes, deletions, wipes.    *)

Enrol(u) ==
  /\ u \notin enrolled /\ Turn
  /\ enrolled' = enrolled \cup {u} /\ admins' = admins \cup {u}
  /\ UNCHANGED <<account, rename, erasing, session, pending, tasks, claim>> /\ Fine

Demote(u) ==
  /\ u \in admins /\ admins # {u} /\ Turn
  /\ admins' = admins \ {u}
  /\ UNCHANGED <<account, enrolled, rename, erasing, session, pending, tasks, claim>> /\ Fine

\* sdf_services_delete_user and sdf_services_clear_all_users: the user record first.
Delete(S) ==
  /\ erasing = {} /\ S \cap enrolled # {} /\ Turn
  /\ S = Users \/ (\E u \in enrolled : S = {u} /\ admins # {u})
  /\ enrolled' = enrolled \ S /\ admins' = admins \ S /\ erasing' = S
  /\ UNCHANGED <<account, rename, session, pending, tasks, claim>> /\ Fine

Without(S) == [u \in Users |-> IF u \in S THEN NoRecord ELSE account[u]]

\* Their second half, after which the deletion is reported as done in any case.
EraseRecords ==
  /\ erasing # {} /\ erasing' = {}
  /\ \/ account' = Without(erasing) /\ Noting("gone", reg.by \in erasing)
     \/ Fails("write") /\ UNCHANGED account
  /\ UNCHANGED <<enrolled, admins, rename, session, pending, tasks, claim>> /\ Stay

Reset ==
  /\ Turn
  /\ session' = [c \in Conns |-> Closed] /\ claim' = [c \in Conns |-> Unproved]
  /\ reg' = NoReg /\ gate' = "none" /\ result' = "none"
  /\ host' = HostIdle /\ app' = AppIdle
  /\ rename' = [t \in Renamer |-> NoRename] /\ erasing' = {}
  /\ Noting("orphan", erasing # {})
  /\ UNCHANGED <<account, enrolled, admins>>

-----------------------------------------------------------------------------

Init ==
  /\ account = [u \in Users |-> NoRecord]
  /\ enrolled = Users /\ admins = enrolled
  /\ session = [c \in Conns |-> Opened] /\ claim = [c \in Conns |-> Unproved]
  /\ reg = NoReg /\ gate = "none" /\ result = "none"
  /\ host = HostIdle /\ app = AppIdle
  /\ rename = [t \in Renamer |-> NoRename] /\ erasing = {}
  /\ turns = 0 /\ mishaps = {}

Client ==
  \E c \in Conns :
    \/ Connect(c) \/ Disconnect(c) \/ Logout(c)
    \/ \E name \in Names : LoginInit(c, name)
    \/ \E key \in Keys \cup {None} : LoginVerify(c, key)
    \/ \E name \in Names, key \in Keys : Register(c, name, key)

Decided == Take \/ Decide \/ Save \/ Find \/ SetAuthenticated \/ BindUser \/ Clear

Records ==
  \/ OtherAction \/ OtherEnds \/ (\E t \in Renamer : RenameSaves(t)) \/ EraseRecords
  \/ \E u \in Users : Enrol(u) \/ Demote(u) \/ (\E name \in Names : Rename(u, name))
  \/ \E S \in SUBSET Users : Delete(S)

Next ==
  \/ Client \/ Ask \/ Arm
  \/ (\E u \in Users : Scan(u)) \/ Expire
  \/ Decided \/ Records \/ Reset

Spec == Init /\ [][Next]_vars

\* The host task and the app task run, and the admin task's sweep ends what nobody
\* authorizes.
FairSpec ==
  /\ Spec /\ WF_vars(Ask) /\ WF_vars(Arm) /\ WF_vars(Expire) /\ WF_vars(Decided)

-----------------------------------------------------------------------------
(* What must hold.                                                         *)

Short(kinds) == mishaps \cap kinds = {}

TypeOK ==
  /\ account \in [Users -> [name: Names \cup {None}, key: Keys \cup {None}]]
  /\ enrolled \subseteq Users /\ admins \subseteq enrolled /\ erasing \subseteq Users
  /\ session \in [Conns -> [up: BOOLEAN, auth: {"none", "challenge", "pending", "ok"},
                           waiting: BOOLEAN, name: Names \cup {None},
                           user: Users \cup {Nobody}]]
  /\ reg \in [pending: BOOLEAN, name: Names \cup {None}, key: Keys \cup {None},
             by: Users \cup {Nobody}]
  /\ gate \in {"none", "web", "other"} /\ result \in {"none", "granted", "denied"}
  /\ host \in [at: {"idle", "ask", "arm"}, conn: Conns \cup {None}, key: Keys \cup {None}]
  /\ app \in [at: {"idle", "decide", "save", "find", "set", "bind", "clear"},
             granted: BOOLEAN, conn: Conns \cup {None}, user: Users \cup {Nobody}]
  /\ rename \in [Renamer -> [user: Users \cup {Nobody}, name: Names \cup {None},
                             key: Keys \cup {None}]]
  /\ claim \in [Conns -> [key: Keys \cup {None}, mine: BOOLEAN, proof: SUBSET Users]]
  /\ turns \in 0..MaxTurns /\ mishaps \subseteq Mishap

\* An open session speaks for a user who let this very connection in since it was
\* opened or last logged out: by their password, or by their scan for what the
\* connection asked.  In set_authenticated and bind_user the two halves of that are
\* written apart.
AuthorityEarned ==
  \A c \in Conns :
    session[c].auth = "ok" /\ session[c].user # Nobody =>
      session[c].user \in claim[c].proof \/ ~Short({"lock", "late", "overlap"})

\* A session is opened on a name and a password that are on record, even though it is saved and
\* answered in steps, and others write and erase records in between.
AnswerTrue ==
  [][\A c \in Conns :
       session[c].auth # "ok" /\ session'[c].auth = "ok" =>
         \/ \E u \in Users : account[u] = [name |-> session'[c].name, key |-> claim'[c].key]
         \/ ~Short({"lock", "write", "late", "overlap", "gone"})']_vars

\* No two users have one name, and none that is not enrolled has a record, except while
\* a deletion is under way.
AccountsSound ==
  /\ \A u, v \in Users :
       u # v /\ account[u].name = account[v].name =>
         account[u].name = None \/ ~Short({"overlap"})
  /\ \A u \in Users \ (enrolled \cup erasing) :
       account[u] = NoRecord \/ ~Short({"orphan", "write"})

\* A registration is over some time, and with it the wait of the connection that asked.
RegistrationResolves ==
  /\ reg.pending ~> (~reg.pending \/ ~Short({"busy", "lock", "lost"}))
  /\ \A c \in Conns :
       (session[c].waiting /\ claim[c].mine) ~>
         (~(session[c].waiting /\ claim[c].mine)
            \/ ~Short({"busy", "lock", "lost", "late"}))

=============================================================================
