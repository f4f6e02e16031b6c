-------------------------- MODULE SdfSessionProofs --------------------------
(***************************************************************************)
(* Proofs about SdfSession: sessions are earned, answers are true and      *)
(* accounts are sound, for any number of connections, users, names and     *)
(* passwords, whatever is renamed, deleted or registered in between.       *)
(***************************************************************************)
EXTENDS SdfSession, FiniteSetTheorems, WellFoundedInduction, TLAPS

-----------------------------------------------------------------------------
(* The inductive invariant.                                                *)

\* TypeOK, in four parts.
AccountType ==
  /\ account \in [Users -> [name: Names \cup {None}, key: Keys \cup {None}]]
  /\ enrolled \subseteq Users /\ admins \subseteq enrolled /\ erasing \subseteq Users
  /\ rename \in [Renamer -> [user: Users \cup {Nobody}, name: Names \cup {None},
                             key: Keys \cup {None}]]
SessionOf ==
  [up: BOOLEAN, auth: {"none", "challenge", "pending", "ok"}, waiting: BOOLEAN,
   name: Names \cup {None}, user: Users \cup {Nobody}]
ClaimOf == [key: Keys \cup {None}, mine: BOOLEAN, proof: SUBSET Users]
SessionType == session \in [Conns -> SessionOf] /\ claim \in [Conns -> ClaimOf]
TaskType ==
  /\ reg \in [pending: BOOLEAN, name: Names \cup {None}, key: Keys \cup {None},
             by: Users \cup {Nobody}]
  /\ gate \in {"none", "web", "other"} /\ result \in {"none", "granted", "denied"}
  /\ host \in [at: {"idle", "ask", "arm"}, conn: Conns \cup {None}, key: Keys \cup {None}]
  /\ app \in [at: {"idle", "decide", "save", "find", "set", "bind", "clear"},
             granted: BOOLEAN, conn: Conns \cup {None}, user: Users \cup {Nobody}]
CountType == turns \in 0..MaxTurns /\ mishaps \subseteq Mishap

\* A pending registration is in one place at most: with the host task, at the gate, on
\* its way or with the app task.
TokenInv ==
  /\ host.at = "arm" => gate # "web" /\ result = "none" /\ app.at = "idle"
  /\ gate = "web" => result = "none" /\ app.at = "idle"
  /\ result # "none" => app.at = "idle"
  /\ host.at = "arm" \/ gate = "web" \/ result # "none" \/ app.at # "idle" => reg.pending
  /\ reg.pending => reg.name \in Names
  /\ app.granted => app.at \in {"save", "find", "set", "bind", "clear"}
  /\ app.at \in {"set", "bind"} => app.conn \in Conns
  /\ app.at \in {"save", "bind"} => app.granted

\* What the host task is about to note is still what its connection asked.
HostInv ==
  host.at = "ask" =>
    /\ host.conn \in Conns
    /\ session[host.conn].up /\ session[host.conn].name \in Names
    /\ session[host.conn].auth # "challenge"
    /\ ~claim[host.conn].mine /\ claim[host.conn].key = host.key
    /\ Short({"late"}) => session[host.conn].waiting

\* Nobody but u has the name.
Sole(u, name) == \A v \in Users : account[v].name = name => v = u

\* What the two writers of records found before they write holds when they do.
NameInv ==
  Short({"overlap"}) =>
    /\ \A u, v \in Users :
         u # v /\ account[u].name = account[v].name => account[u].name = None
    /\ \A t \in Renamer : rename[t] # NoRename =>
         /\ rename[t].user \in Users /\ rename[t].name \in Names
         /\ Sole(rename[t].user, rename[t].name)
    /\ app.granted /\ (app.at = "save" \/ Short({"lock"})) =>
         reg.by \in Users /\ Sole(reg.by, reg.name)

\* No record outlives its user, unless a deletion was cut short.
OwnerInv ==
  Short({"orphan", "write"}) => \A u \in Users \ (enrolled \cup erasing) : account[u] = NoRecord

\* The connection that asked for the pending registration waits until it is answered,
\* with what it asked, and is the one that is answered.
Asked(c) ==
  /\ reg.pending /\ session[c].up /\ session[c].auth # "challenge"
  /\ session[c].name = reg.name /\ claim[c].key = reg.key
  /\ session[c].waiting \/ app.at = "bind"
  /\ app.at \in {"set", "bind"} => app.conn = c
  /\ app.at # "clear"
  /\ reg.by # Nobody => reg.by \in claim[c].proof
MineInv ==
  Short({"late"}) =>
    /\ \A c, d \in Conns : claim[c].mine /\ claim[d].mine => c = d
    /\ \A c \in Conns : claim[c].mine => Asked(c)

\* Whom a session is bound to has let its connection in.
Bound(c) == session[c].user # Nobody => session[c].user \in claim[c].proof
BoundInv ==
  Short({"lock", "late", "overlap"}) =>
    /\ \A c \in Conns : Bound(c)
    /\ app.at \in {"set", "bind"} /\ app.granted => app.user \in {Nobody, reg.by}

\* What is answered as granted is on record.
SavedInv ==
  Short({"lock", "write", "overlap", "gone"}) /\ app.at \in {"find", "set"} /\ app.granted =>
    account[reg.by] = [name |-> reg.name, key |-> reg.key]

IInv ==
  /\ TypeOK /\ TokenInv /\ HostInv /\ NameInv /\ OwnerInv /\ MineInv /\ BoundInv
  /\ SavedInv

-----------------------------------------------------------------------------
(* Lemmas about what the actions share.                                    *)

\* The four parts make up TypeOK.
LEMMA TypeParts == TypeOK <=> AccountType /\ SessionType /\ TaskType /\ CountType
  BY DEF TypeOK, AccountType, SessionType, SessionOf, ClaimOf, TaskType, CountType

\* Every set of naturals that is not empty has a smallest element.
LEMMA SmallestExists ==
  ASSUME NEW S, S \subseteq Nat, S # {}
  PROVE  \E n \in S : \A m \in S : n <= m
  <1>1. PICK n \in S : \A m \in S : <<m, n>> \notin OpToRel(<, Nat)
    BY WFMin, NatLessThanWellFounded, Zenon
  <1>2. ASSUME NEW m \in S
        PROVE  n <= m
    <2>1. ~(m < n)
      BY <1>1 DEF OpToRel
    <2>2. n \in Nat /\ m \in Nat
      OBVIOUS
    <2>3. QED
      BY <2>1, <2>2
  <1>3. QED
    BY <1>2

\* FirstOf finds a user if there is one.
LEMMA FirstOfFinds ==
  ASSUME NEW S, S \subseteq Users
  PROVE  IF S = {} THEN FirstOf(S) = Nobody ELSE FirstOf(S) \in S
  <1>1. CASE S = {}
    BY <1>1 DEF FirstOf
  <1>2. CASE S # {}
    <2>1. S \subseteq Nat
      BY SessionAssumption
    <2>2. \E u \in S : \A v \in S : u <= v
      BY <1>2, <2>1, SmallestExists
    <2>3. FirstOf(S) = CHOOSE u \in S : \A v \in S : u <= v
      BY <1>2 DEF FirstOf
    <2>4. (CHOOSE u \in S : \A v \in S : u <= v) \in S
      BY <2>2
    <2>5. QED
      BY <1>2, <2>3, <2>4
  <1>3. QED
    BY <1>1, <1>2

\* No user has the id Nobody.
LEMMA NobodyIsNoUser == Nobody \notin Users
  BY SessionAssumption DEF Nobody

\* An account that is found is one.
LEMMA AccountFinds ==
  ASSUME NEW name
  PROVE  \/ Account(name) = Nobody
         \/ /\ Account(name) \in Users
            /\ account[Account(name)].name = name /\ account[Account(name)].key # None
  <1> DEFINE S == {u \in Users : account[u].name = name /\ account[u].key # None}
  <1>1. S \subseteq Users /\ Account(name) = FirstOf(S)
    BY DEF Account
  <1>2. Account(name) = Nobody \/ Account(name) \in S
    BY <1>1, FirstOfFinds
  <1> HIDE DEF S
  <1>3. QED
    BY <1>2 DEF S

\* A name that is free for a user is nobody else's, as long as names are unique.
LEMMA FreeIsSole ==
  ASSUME NEW user \in Users, NEW name \in Names, FreeFor(user, name),
         \A u, v \in Users :
           u # v /\ account[u].name = account[v].name => account[u].name = None
  PROVE  Sole(user, name)
  <1> DEFINE S == {u \in Users : account[u].name = name}
  <1>1. S \subseteq Users /\ Holder(name) = FirstOf(S) /\ name # None
    BY SessionAssumption DEF Holder
  <1>2. IF S = {} THEN Holder(name) = Nobody ELSE Holder(name) \in S
    BY <1>1, FirstOfFinds
  <1>3. S = {} \/ user \in S
    <2>1. CASE S # {}
      <3>1. Holder(name) \in S
        BY <1>2, <2>1
      <3>2. Holder(name) # Nobody
        BY <1>1, <3>1, NobodyIsNoUser
      <3>3. QED
        BY <3>1, <3>2 DEF FreeFor
    <2>2. QED
      BY <2>1
  <1>4. QED
    BY <1>1, <1>3 DEF Sole

\* No mishap is forgotten.
LEMMA MishapsKept ==
  ASSUME TypeOK, [Next]_vars
  PROVE  mishaps \subseteq mishaps'
  BY DEF Next, Client, Connect, Disconnect, LoginInit, LoginVerify, Register, Logout, Ask,
     Arm, Scan, Expire, Sends, Decided, Take, Decide, Save, Find, SetAuthenticated,
     BindUser, Clear, Records, OtherAction, OtherEnds, Rename, Begins, RenameSaves, EraseRecords,
     Enrol, Demote, Delete, Reset, Fine, Fails, Noting, Turn, Stay, vars

\* The steps that leave sessions alone: those of users and records, and those that only
\* move a registration on.
LEMMA SessionsUntouched ==
  ASSUME Arm \/ Expire \/ Take \/ Decide \/ Save \/ Find \/ Clear \/ Records
  PROVE  UNCHANGED session /\ UNCHANGED claim
  BY DEF Arm, Expire, Take, Decide, Save, Find, Clear, Records, OtherAction, OtherEnds,
     RenameSaves, EraseRecords, Enrol, Demote, Rename, Begins, Delete

\* The steps that leave users and records alone: a client's, and a registration's but for
\* the saving of its account.
LEMMA UsersUntouched ==
  ASSUME \/ Client \/ Ask \/ Arm \/ (\E u \in Users : Scan(u)) \/ Expire
         \/ Decided /\ ~Save
         \/ OtherAction \/ OtherEnds
  PROVE  UNCHANGED users
  BY DEF Client, Connect, Disconnect, LoginInit, LoginVerify, Register, Logout, Ask, Arm,
     Scan, Expire, Decided, Take, Decide, Find, SetAuthenticated, BindUser, Clear,
     OtherAction, OtherEnds

\* The steps that leave the registration and the tasks alone: a client's but for a
\* request to register, and those of users and records.
LEMMA TasksUntouched ==
  ASSUME \/ \E c \in Conns :
              \/ Connect(c) \/ Disconnect(c) \/ Logout(c)
              \/ \E name \in Names : LoginInit(c, name)
              \/ \E key \in Keys \cup {None} : LoginVerify(c, key)
         \/ (\E t \in Renamer : RenameSaves(t)) \/ EraseRecords
         \/ \E u \in Users : Enrol(u) \/ Demote(u)
         \/ \E S \in SUBSET Users : Delete(S)
  PROVE  UNCHANGED <<pending, tasks>>
  BY DEF Connect, Disconnect, LoginInit, LoginVerify, Logout, RenameSaves, EraseRecords,
     Enrol, Demote, Delete

-----------------------------------------------------------------------------
(* Types.                                                                  *)

\* Every step keeps the types of sessions and claims.
LEMMA SessionTypeStep ==
  ASSUME TypeOK, TokenInv, Next
  PROVE  SessionType'
  <1> USE TypeParts DEF SessionType
  <1>1. ASSUME NEW c \in Conns, Connect(c)
        PROVE  SessionType'
    BY <1>1 DEF Connect, Opened, Closed, SessionOf, Nobody
  <1>2. ASSUME NEW c \in Conns, Disconnect(c)
        PROVE  SessionType'
    BY <1>2 DEF Disconnect, Closed, Unproved, SessionOf, ClaimOf, Nobody
  <1>3. ASSUME NEW c \in Conns, Logout(c)
        PROVE  SessionType'
    <2>1. LoggedOut(session[c]) \in SessionOf /\ Unproved \in ClaimOf
      BY DEF LoggedOut, SessionOf, ClaimOf, Unproved, Nobody
    <2>2. QED
      BY <1>3, <2>1 DEF Logout
  <1>4. ASSUME NEW c \in Conns, NEW name \in Names, LoginInit(c, name)
        PROVE  SessionType'
    <2>1. [session[c] EXCEPT !.auth = "challenge", !.waiting = FALSE, !.name = name] \in SessionOf
      BY DEF SessionOf
    <2>2. [claim[c] EXCEPT !.mine = FALSE] \in ClaimOf
      BY DEF ClaimOf
    <2>3. QED
      BY <1>4, <2>1, <2>2 DEF LoginInit
  <1>5. ASSUME NEW c \in Conns, NEW key \in Keys \cup {None}, LoginVerify(c, key)
        PROVE  SessionType'
    <2> DEFINE u == Account(session[c].name)
    <2>1. CASE u \in admins /\ account[u].key = key
      <3>1. u \in Users
        BY <2>1 DEF AccountType
      <3>2. [session[c] EXCEPT !.auth = "ok", !.waiting = FALSE, !.user = u] \in SessionOf
        BY <3>1 DEF SessionOf
      <3>3. [key |-> key, mine |-> FALSE, proof |-> claim[c].proof \cup {u}] \in ClaimOf
        BY <3>1 DEF ClaimOf
      <3>4. /\ session' = [session EXCEPT ![c] =
                  [@ EXCEPT !.auth = "ok", !.waiting = FALSE, !.user = u]]
            /\ claim' = [claim EXCEPT ![c] =
                  [key |-> key, mine |-> FALSE, proof |-> @.proof \cup {u}]]
        BY <1>5, <2>1 DEF LoginVerify
      <3> HIDE DEF u
      <3>5. QED
        BY <3>2, <3>3, <3>4
    <2>2. CASE ~(u \in admins /\ account[u].key = key)
      <3>1. [session[c] EXCEPT !.auth = "none", !.waiting = FALSE] \in SessionOf
        BY DEF SessionOf
      <3>2. QED
        BY <1>5, <2>2, <3>1 DEF LoginVerify
    <2>3. QED
      BY <2>1, <2>2
  <1>6. ASSUME NEW c \in Conns, NEW name \in Names, NEW key \in Keys, Register(c, name, key)
        PROVE  SessionType'
    <2>1. [session[c] EXCEPT !.auth = "pending", !.waiting = TRUE, !.name = name] \in SessionOf
      BY DEF SessionOf
    <2>2. [claim[c] EXCEPT !.key = key, !.mine = FALSE] \in ClaimOf
      BY DEF ClaimOf
    <2>3. QED
      BY <1>6, <2>1, <2>2 DEF Register
  <1>7. CASE Ask
    <2>1. ASSUME NEW c \in Conns
          PROVE  [claim[c] EXCEPT !.mine = TRUE] \in ClaimOf
      BY DEF ClaimOf
    <2>2. claim' = claim \/ claim' = [claim EXCEPT ![host.conn].mine = TRUE]
      BY <1>7 DEF Ask
    <2>3. claim' \in [Conns -> ClaimOf]
      BY <2>1, <2>2
    <2>4. QED
      BY <1>7, <2>3 DEF Ask
  <1>8. ASSUME NEW u \in Users, Scan(u)
        PROVE  SessionType'
    <2>1. ASSUME NEW c \in Conns
          PROVE  [claim[c] EXCEPT !.proof = @ \cup {u}] \in ClaimOf
      BY DEF ClaimOf
    <2>2. QED
      BY <1>8, <2>1 DEF Scan
  <1>9. CASE SetAuthenticated
    <2> DEFINE c == app.conn
    <2>0. \A s \in SessionOf :
            /\ [s EXCEPT !.auth = "ok", !.waiting = FALSE] \in SessionOf
            /\ [s EXCEPT !.auth = "none", !.waiting = FALSE, !.user = Nobody] \in SessionOf
      BY DEF SessionOf
    <2>1. CASE ~session[c].up
      BY <1>9, <2>1 DEF SetAuthenticated
    <2>2. CASE session[c].up /\ app.granted
      <3>1. c \in Conns
        BY <1>9 DEF TokenInv, SetAuthenticated, AppAt
      <3>2. [session[c] EXCEPT !.auth = "ok", !.waiting = FALSE] \in SessionOf
        BY <2>0, <3>1
      <3>3. QED
        BY <1>9, <2>2, <3>2 DEF SetAuthenticated
    <2>3. CASE session[c].up /\ ~app.granted
      <3>1. c \in Conns
        BY <1>9 DEF TokenInv, SetAuthenticated, AppAt
      <3>2. [session[c] EXCEPT !.auth = "none", !.waiting = FALSE, !.user = Nobody] \in SessionOf
        BY <2>0, <3>1
      <3>3. [claim[c] EXCEPT !.mine = FALSE, !.proof = {}] \in ClaimOf
        BY <3>1 DEF ClaimOf
      <3>4. QED
        BY <1>9, <2>3, <3>2, <3>3 DEF SetAuthenticated
    <2>4. QED
      BY <2>1, <2>2, <2>3
  <1>10. CASE BindUser
    <2>1. app.conn \in Conns /\ app.user \in Users \cup {Nobody}
      BY <1>10 DEF TokenInv, TaskType, BindUser, AppAt
    <2>2. [session[app.conn] EXCEPT !.user = app.user] \in SessionOf
      BY <2>1 DEF SessionOf
    <2>3. [claim[app.conn] EXCEPT !.mine = FALSE] \in ClaimOf
      BY <2>1 DEF ClaimOf
    <2>4. QED
      BY <1>10, <2>2, <2>3 DEF BindUser
  <1>11. CASE Reset
    <2>1. Closed \in SessionOf /\ Unproved \in ClaimOf
      BY DEF Closed, Unproved, SessionOf, ClaimOf
    <2>2. QED
      BY <1>11, <2>1 DEF Reset
  <1>12. CASE UNCHANGED <<session, claim>>
    BY <1>12
  <1>13. QED
    BY <1>1, <1>2, <1>3, <1>4, <1>5, <1>6, <1>7, <1>8, <1>9, <1>10, <1>11, <1>12, SessionsUntouched
       DEF Next, Client, Decided, Records

\* A record that is written keeps its type.
LEMMA SavesTyped ==
  ASSUME account \in [Users -> [name: Names \cup {None}, key: Keys \cup {None}]],
         NEW user, NEW name \in Names \cup {None}, NEW key \in Keys \cup {None},
         Saves(user, name, key)
  PROVE  account' \in [Users -> [name: Names \cup {None}, key: Keys \cup {None}]]
  BY DEF Saves

\* Every step keeps the types of users and records.
LEMMA AccountTypeStep ==
  ASSUME TypeOK, TokenInv, Next
  PROVE  AccountType'
  <1> USE TypeParts DEF AccountType
  <1>1. CASE Save
    <2>1. account' \in [Users -> [name: Names \cup {None}, key: Keys \cup {None}]]
      <3>1. reg.name \in Names \cup {None} /\ reg.key \in Keys \cup {None}
        BY DEF TaskType
      <3>2. Saves(reg.by, reg.name, reg.key) \/ UNCHANGED account
        BY <1>1 DEF Save
      <3>3. QED
        BY <3>1, <3>2, SavesTyped
    <2>2. UNCHANGED <<enrolled, admins, rename, erasing>>
      BY <1>1 DEF Save
    <2>3. QED
      BY <2>1, <2>2
  <1>2. ASSUME NEW t \in Renamer, RenameSaves(t)
        PROVE  AccountType'
    <2>1. account' \in [Users -> [name: Names \cup {None}, key: Keys \cup {None}]]
      <3>1. /\ rename[t].name \in Names \cup {None}
            /\ rename[t].key \in Keys \cup {None}
        OBVIOUS
      <3>2. Saves(rename[t].user, rename[t].name, rename[t].key) \/ UNCHANGED account
        BY <1>2 DEF RenameSaves
      <3>3. QED
        BY <3>1, <3>2, SavesTyped
    <2>2. UNCHANGED <<enrolled, admins, erasing>>
      BY <1>2 DEF RenameSaves
    <2>3. NoRename \in [user: Users \cup {Nobody}, name: Names \cup {None},
                        key: Keys \cup {None}]
      BY DEF NoRename
    <2>4. rename' = [rename EXCEPT ![t] = NoRename]
      BY <1>2 DEF RenameSaves
    <2>5. QED
      BY <2>1, <2>2, <2>3, <2>4
  <1>3. CASE EraseRecords
    BY <1>3 DEF EraseRecords, Without, NoRecord
  <1>4. ASSUME NEW u \in Users, Enrol(u) \/ Demote(u)
        PROVE  AccountType'
    BY <1>4 DEF Enrol, Demote
  <1>5. ASSUME NEW u \in Users, NEW name \in Names, Rename(u, name)
        PROVE  AccountType'
    BY <1>5 DEF Rename, Begins
  <1>6. ASSUME NEW S \in SUBSET Users, Delete(S)
        PROVE  AccountType'
    BY <1>6 DEF Delete
  <1>7. CASE Reset
    BY <1>7 DEF Reset, NoRename, Nobody
  <1>8. CASE UNCHANGED users
    BY <1>8 DEF users
  <1>9. QED
    BY <1>1, <1>2, <1>3, <1>4, <1>5, <1>6, <1>7, <1>8, UsersUntouched DEF Next, Records

\* Every step keeps the types of the registration and the tasks.
LEMMA TaskTypeStep ==
  ASSUME TypeOK, TokenInv, HostInv, Next
  PROVE  TaskType'
  <1> USE TypeParts DEF TaskType
  <1>1. ASSUME NEW c \in Conns, NEW name \in Names, NEW key \in Keys, Register(c, name, key)
        PROVE  TaskType'
    BY <1>1 DEF Register, pending
  <1>2. CASE Ask
    <2>1. session[host.conn].name \in Names
      BY <1>2 DEF Ask, HostInv
    <2>2. reg' \in [pending: BOOLEAN, name: Names \cup {None}, key: Keys \cup {None},
                   by: Users \cup {Nobody}]
      <3>1. \/ reg' = reg
            \/ reg' = [pending |-> TRUE, name |-> session[host.conn].name,
                       key |-> host.key, by |-> Nobody]
        BY <1>2 DEF Ask
      <3>2. [pending |-> TRUE, name |-> session[host.conn].name, key |-> host.key, by |-> Nobody]
              \in [pending: BOOLEAN, name: Names \cup {None}, key: Keys \cup {None},
                   by: Users \cup {Nobody}]
        <4>1. host.key \in Keys \cup {None}
          OBVIOUS
        <4>2. QED
          BY <2>1, <4>1
      <3>3. QED
        BY <3>1, <3>2
    <2>3. host' \in [at: {"idle", "ask", "arm"}, conn: Conns \cup {None}, key: Keys \cup {None}]
      BY <1>2 DEF Ask, HostIdle
    <2>4. UNCHANGED <<gate, result, app>>
      BY <1>2 DEF Ask
    <2>5. QED
      BY <2>2, <2>3, <2>4
  <1>3. CASE Arm
    BY <1>3 DEF Arm, HostIdle
  <1>4. ASSUME NEW u \in Users, Scan(u)
        PROVE  TaskType'
    BY <1>4 DEF Scan, Sends, tasks
  <1>5. CASE Expire
    BY <1>5 DEF Expire, Sends, tasks
  <1>6. CASE Take
    BY <1>6 DEF Take, AppGoes, HandledBy
  <1>7. CASE Decide
    <2>1. Decision(reg.by, reg.name) \in [granted: BOOLEAN, at: {"save", "find"}]
      BY DEF Decision
    <2>2. app' \in [at: {"idle", "decide", "save", "find", "set", "bind", "clear"},
                    granted: BOOLEAN, conn: Conns \cup {None}, user: Users \cup {Nobody}]
      BY <1>7, <2>1 DEF Decide
    <2>3. QED
      BY <1>7, <2>2 DEF Decide, pending
  <1>8. CASE Save
    BY <1>8 DEF Save, AppGoes, pending
  <1>9. CASE Find
    <2>1. Account(reg.name) \in Users \cup {Nobody}
      BY AccountFinds
    <2>2. app' \in [at: {"idle", "decide", "save", "find", "set", "bind", "clear"},
                    granted: BOOLEAN, conn: Conns \cup {None}, user: Users \cup {Nobody}]
      <3>1. CASE AppGoes("clear")
        BY <3>1 DEF AppGoes
      <3>2. ASSUME NEW c \in Conns, NEW u \in Users \cup {Nobody},
                   app' = [app EXCEPT !.at = "set", !.conn = c, !.user = u]
            PROVE  app' \in [at: {"idle", "decide", "save", "find", "set", "bind", "clear"},
                    granted: BOOLEAN, conn: Conns \cup {None}, user: Users \cup {Nobody}]
        BY <3>2
      <3>3. QED
        BY <1>9, <2>1, <3>1, <3>2 DEF Find
    <2>3. QED
      BY <1>9, <2>2 DEF Find, pending
  <1>10. CASE SetAuthenticated
    BY <1>10 DEF SetAuthenticated, AppGoes, pending
  <1>11. CASE BindUser
    BY <1>11 DEF BindUser, AppGoes, pending
  <1>12. CASE Clear
    <2>1. NoReg \in [pending: BOOLEAN, name: Names \cup {None}, key: Keys \cup {None},
                     by: Users \cup {Nobody}]
      BY DEF NoReg
    <2>2. AppIdle \in [at: {"idle", "decide", "save", "find", "set", "bind", "clear"},
                    granted: BOOLEAN, conn: Conns \cup {None}, user: Users \cup {Nobody}]
      BY DEF AppIdle
    <2>3. QED
      BY <1>12, <2>1, <2>2 DEF Clear
  <1>13. CASE OtherAction \/ OtherEnds
    BY <1>13 DEF OtherAction, OtherEnds, tasks
  <1>14. ASSUME NEW u \in Users, NEW name \in Names, Rename(u, name)
        PROVE  TaskType'
    BY <1>14 DEF Rename, Begins, tasks
  <1>15. CASE Reset
    BY <1>15 DEF Reset, NoReg, HostIdle, AppIdle
  <1>16. CASE UNCHANGED <<pending, tasks>>
    BY <1>16 DEF pending, tasks
  <1>17. QED
    BY <1>1, <1>2, <1>3, <1>4, <1>5, <1>6, <1>7, <1>8, <1>9, <1>10, <1>11, <1>12, <1>13,
       <1>14, <1>15, <1>16, TasksUntouched
       DEF Next, Client, Decided, Records

\* Every step keeps the bound on turns and the kinds of mishaps.
LEMMA CountTypeStep ==
  ASSUME TypeOK, Next
  PROVE  CountType'
  <1> USE TypeParts
  <1>1. turns' \in 0..MaxTurns
    <2>1. Turn \/ Stay
      BY DEF Next, Client, Connect, Disconnect, LoginInit, LoginVerify, Register, Logout,
         Ask, Arm, Scan, Expire, Decided, Take, Decide, Save, Find, SetAuthenticated,
         BindUser, Clear, Records, OtherAction, OtherEnds, Rename, Begins, RenameSaves,
         EraseRecords, Enrol, Demote, Delete, Reset
    <2>2. QED
      BY <2>1, SessionAssumption DEF CountType, Turn, Room, Stay
  <1>2. mishaps' \subseteq Mishap
    BY DEF Next, Client, Connect, Disconnect, LoginInit, LoginVerify, Register, Logout,
       Ask, Arm, Scan, Expire, Sends, Decided, Take, Decide, Save, Find, SetAuthenticated,
       BindUser, Clear, Records, OtherAction, OtherEnds, Rename, Begins, RenameSaves,
       EraseRecords, Enrol, Demote, Delete, Reset, Fine, Fails, CanFail, Noting,
       Unforeseen, Mishap, CountType
  <1>3. QED
    BY <1>1, <1>2 DEF CountType

\* Every step keeps the types.
LEMMA TypeStep ==
  ASSUME TypeOK, TokenInv, HostInv, Next
  PROVE  TypeOK'
  <1>1. AccountType' /\ SessionType' /\ TaskType' /\ CountType'
    BY AccountTypeStep, SessionTypeStep, TaskTypeStep, CountTypeStep
  <1>2. QED
    BY <1>1 DEF TypeOK, AccountType, SessionType, SessionOf, ClaimOf, TaskType, CountType

-----------------------------------------------------------------------------
(* The connection that is answered.                                        *)

\* What an answer does to sessions and claims: to its own connection only, in two steps.
LEMMA SetAuthenticatedEffect ==
  ASSUME TypeOK, TokenInv, SetAuthenticated
  PROVE  /\ app.conn \in Conns
         /\ \A c \in Conns \ {app.conn} : session'[c] = session[c] /\ claim'[c] = claim[c]
         /\ ~session[app.conn].up => UNCHANGED <<session, claim>>
         /\ session[app.conn].up =>
              /\ session'[app.conn].up /\ ~session'[app.conn].waiting
              /\ session'[app.conn].name = session[app.conn].name
              /\ session'[app.conn].auth = IF app.granted THEN "ok" ELSE "none"
              /\ session'[app.conn].user = IF app.granted THEN session[app.conn].user ELSE Nobody
              /\ claim'[app.conn].key = claim[app.conn].key
              /\ IF app.granted THEN UNCHANGED claim ELSE ~claim'[app.conn].mine
              /\ ~(session[app.conn].waiting /\ claim[app.conn].mine) => ~Short({"late"})'
  <1> USE TypeParts DEF SessionType
  <1>1. app.conn \in Conns
    BY DEF TokenInv, SetAuthenticated, AppAt
  <1>2. ASSUME NEW c \in Conns \ {app.conn}
        PROVE  session'[c] = session[c] /\ claim'[c] = claim[c]
    BY <1>1 DEF SetAuthenticated
  <1>3. ~session[app.conn].up => UNCHANGED <<session, claim>>
    BY DEF SetAuthenticated
  <1>4. CASE session[app.conn].up
    <2> DEFINE r == IF app.granted THEN [session[app.conn] EXCEPT !.auth = "ok", !.waiting = FALSE]
                    ELSE [session[app.conn] EXCEPT !.auth = "none", !.waiting = FALSE, !.user = Nobody]
               q == IF app.granted THEN claim[app.conn]
                    ELSE [claim[app.conn] EXCEPT !.mine = FALSE, !.proof = {}]
    <2>1. /\ r.up /\ ~r.waiting /\ r.name = session[app.conn].name
          /\ r.auth = IF app.granted THEN "ok" ELSE "none"
          /\ r.user = IF app.granted THEN session[app.conn].user ELSE Nobody
      BY <1>1, <1>4 DEF SessionOf
    <2>2. q.key = claim[app.conn].key /\ (~app.granted => ~q.mine)
      BY <1>1 DEF ClaimOf
    <2>3. session'[app.conn] = r
      BY <1>1, <1>4 DEF SetAuthenticated
    <2>4. claim'[app.conn] = q /\ (app.granted => UNCHANGED claim)
      BY <1>1, <1>4 DEF SetAuthenticated
    <2>5. ~(session[app.conn].waiting /\ claim[app.conn].mine) => ~Short({"late"})'
      BY <1>4 DEF SetAuthenticated, Noting, Short
    <2> HIDE DEF r, q
    <2>6. QED
      BY <1>1, <1>2, <1>3, <1>4, <2>1, <2>2, <2>3, <2>4, <2>5
  <1>5. QED
    BY <1>1, <1>2, <1>3, <1>4

\* What binding a user does to sessions and claims: to the answered connection only.
LEMMA BindUserEffect ==
  ASSUME TypeOK, TokenInv, BindUser
  PROVE  /\ app.conn \in Conns
         /\ \A c \in Conns \ {app.conn} : session'[c] = session[c] /\ claim'[c] = claim[c]
         /\ ~session[app.conn].up => UNCHANGED <<session, claim>>
         /\ session[app.conn].up =>
              /\ session'[app.conn].up
              /\ session'[app.conn].waiting = session[app.conn].waiting
              /\ session'[app.conn].name = session[app.conn].name
              /\ session'[app.conn].auth = session[app.conn].auth
              /\ session'[app.conn].user = app.user
              /\ claim'[app.conn].key = claim[app.conn].key /\ ~claim'[app.conn].mine
              /\ claim'[app.conn].proof = claim[app.conn].proof
              /\ ~claim[app.conn].mine => ~Short({"late"})'
  <1> USE TypeParts DEF SessionType
  <1>1. app.conn \in Conns
    BY DEF TokenInv, BindUser, AppAt
  <1>2. ASSUME NEW c \in Conns \ {app.conn}
        PROVE  session'[c] = session[c] /\ claim'[c] = claim[c]
    BY <1>1 DEF BindUser
  <1>3. ~session[app.conn].up => UNCHANGED <<session, claim>>
    BY DEF BindUser
  <1>4. CASE session[app.conn].up
    <2>1. session'[app.conn] = [session[app.conn] EXCEPT !.user = app.user]
      BY <1>1, <1>4 DEF BindUser
    <2>2. claim'[app.conn] = [claim[app.conn] EXCEPT !.mine = FALSE]
      BY <1>1, <1>4 DEF BindUser
    <2>3. session[app.conn] \in SessionOf /\ claim[app.conn] \in ClaimOf
      BY <1>1
    <2>4. ~claim[app.conn].mine => ~Short({"late"})'
      BY <1>4 DEF BindUser, Noting, Short
    <2>5. QED
      BY <1>1, <1>2, <1>3, <1>4, <2>1, <2>2, <2>3, <2>4 DEF SessionOf, ClaimOf
  <1>5. QED
    BY <1>1, <1>2, <1>3, <1>4

-----------------------------------------------------------------------------
(* The registration is in one place.                                       *)

\* Every step leaves a pending registration in one place.
LEMMA TokenStep ==
  ASSUME TypeOK, TokenInv, HostInv, Next
  PROVE  TokenInv'
  <1> USE TypeParts DEF TokenInv, TaskType
  <1>1. ASSUME NEW c \in Conns, NEW name \in Names, NEW key \in Keys, Register(c, name, key)
        PROVE  TokenInv'
    BY <1>1 DEF Register, HostFree, HostIdle, pending
  <1>2. CASE Ask
    BY <1>2 DEF Ask, HostInv, HostIdle
  <1>3. CASE Arm
    BY <1>3 DEF Arm, HostIdle
  <1>4. ASSUME NEW u \in Users, Scan(u)
        PROVE  TokenInv'
    BY <1>4 DEF Scan, Sends, tasks
  <1>5. CASE Expire
    BY <1>5 DEF Expire, Sends, tasks
  <1>6. CASE Take
    BY <1>6 DEF Take, AppAt, AppGoes, HandledBy
  <1>7. CASE Decide
    <2>1. /\ Decision(reg.by, reg.name).at \in {"save", "find"}
          /\ Decision(reg.by, reg.name).at = "save" => Decision(reg.by, reg.name).granted
      BY DEF Decision
    <2>2. /\ app'.at \in {"save", "find"} /\ (app'.at = "save" => app'.granted)
          /\ UNCHANGED <<pending, host>> /\ app.at = "decide"
      BY <1>7, <2>1 DEF Decide, AppAt
    <2>3. QED
      BY <2>2 DEF pending
  <1>8. CASE Save
    BY <1>8 DEF Save, AppAt, AppGoes, pending
  <1>9. CASE Find
    BY <1>9 DEF Find, AppAt, AppGoes, pending
  <1>10. CASE SetAuthenticated
    BY <1>10 DEF SetAuthenticated, AppAt, AppGoes, pending
  <1>11. CASE BindUser
    BY <1>11 DEF BindUser, AppAt, AppGoes, pending
  <1>12. CASE Clear
    BY <1>12 DEF Clear, AppAt, AppIdle, NoReg
  <1>13. CASE OtherAction \/ OtherEnds
    BY <1>13 DEF OtherAction, OtherEnds, tasks
  <1>14. ASSUME NEW u \in Users, NEW name \in Names, Rename(u, name)
        PROVE  TokenInv'
    BY <1>14 DEF Rename, Begins, tasks
  <1>15. CASE Reset
    BY <1>15 DEF Reset, NoReg, HostIdle, AppIdle
  <1>16. CASE UNCHANGED <<pending, tasks>>
    BY <1>16 DEF pending, tasks
  <1>17. QED
    BY <1>1, <1>2, <1>3, <1>4, <1>5, <1>6, <1>7, <1>8, <1>9, <1>10, <1>11, <1>12, <1>13,
       <1>14, <1>15, <1>16, TasksUntouched
       DEF Next, Client, Decided, Records

\* While the host task notes a request, it does nothing else, and what the app task does
\* to its connection is an answer that comes late.
LEMMA HostStep ==
  ASSUME TypeOK, TokenInv, HostInv, Next
  PROVE  HostInv'
  <1> USE TypeParts DEF HostInv
  <1>1. Short({"late"})' => Short({"late"})
    BY MishapsKept DEF Short
  <1>2. ASSUME NEW c \in Conns, NEW name \in Names, NEW key \in Keys, Register(c, name, key)
        PROVE  HostInv'
    BY <1>2 DEF Register, SessionType, SessionOf, ClaimOf
  <1>3. CASE HostFree /\ UNCHANGED host
    BY <1>3 DEF HostFree, HostIdle
  <1>4. CASE Ask \/ Arm \/ Reset
    <2>1. host'.at # "ask"
      BY <1>4 DEF Ask, Arm, Reset, HostIdle, TaskType
    <2>2. QED
      BY <2>1
  <1>5. ASSUME NEW u \in Users, Scan(u)
        PROVE  HostInv'
    BY <1>1, <1>5 DEF Scan, tasks, SessionType, ClaimOf
  <1>6. CASE SetAuthenticated
    <2>1. UNCHANGED host
      BY <1>6 DEF SetAuthenticated
    <2>2. QED
      BY <1>1, <1>6, <2>1, SetAuthenticatedEffect
  <1>7. CASE BindUser
    <2>1. UNCHANGED host
      BY <1>7 DEF BindUser
    <2>2. QED
      BY <1>1, <1>7, <2>1, BindUserEffect
  <1>8. CASE UNCHANGED <<session, claim, host>>
    BY <1>1, <1>8
  <1>9. (Arm \/ Expire \/ Take \/ Decide \/ Save \/ Find \/ Clear \/ Records) /\ ~Arm =>
          UNCHANGED <<session, claim, host>>
    BY SessionsUntouched DEF Expire, Take, Decide, Save, Find, Clear, Records, OtherAction,
       OtherEnds, RenameSaves, EraseRecords, Enrol, Demote, Rename, Begins, Delete, tasks
  <1>10. Client => (HostFree /\ UNCHANGED host)
                   \/ \E c \in Conns, name \in Names, key \in Keys : Register(c, name, key)
    BY DEF Client, Connect, Disconnect, Logout, LoginInit, LoginVerify, tasks
  <1>11. QED
    BY <1>2, <1>3, <1>4, <1>5, <1>6, <1>7, <1>8, <1>9, <1>10 DEF Next, Decided

-----------------------------------------------------------------------------
(* Names and owners of records.                                            *)

\* Writing a name that is nobody else's keeps names unique.
LEMMA SavesKeepsUnique ==
  ASSUME TypeOK, NEW user \in Users, NEW name \in Names, NEW key, Saves(user, name, key),
         Sole(user, name),
         \A u, v \in Users :
           u # v /\ account[u].name = account[v].name => account[u].name = None
  PROVE  /\ \A u, v \in Users :
              u # v /\ account'[u].name = account'[v].name => account'[u].name = None
         /\ \A v \in Users \ {user} : account'[v] = account[v]
         /\ account'[user] = [name |-> name, key |-> key]
  <1>1. account \in [Users -> [name: Names \cup {None}, key: Keys \cup {None}]]
    BY DEF TypeOK
  <1>2. /\ account'[user] = [name |-> name, key |-> key]
        /\ \A v \in Users \ {user} : account'[v] = account[v]
    BY <1>1 DEF Saves
  <1>3. QED
    BY <1>2 DEF Sole

\* Every step keeps names unique, and the checks of who is about to write them true.
LEMMA NameStep ==
  ASSUME TypeOK, TokenInv, NameInv, Next
  PROVE  NameInv'
  <1> SUFFICES ASSUME Short({"overlap"})'
               PROVE  NameInv'
    BY DEF NameInv
  <1> USE TypeParts
  <1>1. Short({"overlap"}) /\ (Short({"lock"})' => Short({"lock"}))
    BY MishapsKept DEF Short
  <1>2. /\ \A u, v \in Users :
             u # v /\ account[u].name = account[v].name => account[u].name = None
        /\ \A t \in Renamer : rename[t] # NoRename =>
             /\ rename[t].user \in Users /\ rename[t].name \in Names
             /\ Sole(rename[t].user, rename[t].name)
        /\ app.granted /\ (app.at = "save" \/ Short({"lock"})) =>
             reg.by \in Users /\ Sole(reg.by, reg.name)
    BY <1>1 DEF NameInv
  <1>3. CASE Save
    <2>1. /\ app.at = "save" /\ app'.at = "find" /\ app'.granted = app.granted
          /\ UNCHANGED <<rename, reg>>
      BY <1>3 DEF Save, AppAt, AppGoes, TaskType, pending
    <2>2. CASE UNCHANGED account
      BY <1>1, <1>2, <2>1, <2>2 DEF NameInv, Sole
    <2>3. CASE Saves(reg.by, reg.name, reg.key) /\ ~UNCHANGED account
      <3>1. reg.by \in Users /\ reg.name \in Names /\ Sole(reg.by, reg.name)
        <4>1. app.granted
          BY <2>1 DEF TokenInv
        <4>2. QED
          BY <1>2, <2>1, <4>1 DEF TokenInv, TaskType
      <3>2. \A t \in Renamer : ~Clash(rename[t], Registering)
        BY <1>3, <2>3 DEF Save, Unforeseen, Short
      <3>3. \A t \in Renamer : rename[t] # NoRename =>
              rename[t].user # reg.by /\ rename[t].name # reg.name
        BY <1>2, <3>1, <3>2, NobodyIsNoUser DEF Clash, Registering
      <3>4. /\ \A u, v \in Users :
                 u # v /\ account'[u].name = account'[v].name => account'[u].name = None
            /\ \A v \in Users \ {reg.by} : account'[v] = account[v]
            /\ account'[reg.by] = [name |-> reg.name, key |-> reg.key]
        BY <1>2, <2>3, <3>1, SavesKeepsUnique
      <3>5. \A t \in Renamer : rename[t] # NoRename => Sole(rename[t].user, rename[t].name)'
        BY <1>2, <2>1, <3>3, <3>4 DEF Sole
      <3>6. Sole(reg.by, reg.name)'
        BY <2>1, <3>1, <3>4 DEF Sole
      <3>7. QED
        BY <1>2, <2>1, <3>1, <3>4, <3>5, <3>6 DEF NameInv
    <2>4. QED
      BY <1>3, <2>2, <2>3 DEF Save
  <1>4. ASSUME NEW t \in Renamer, RenameSaves(t)
        PROVE  NameInv'
    <2>1. /\ rename[t] # NoRename /\ UNCHANGED <<reg, app>>
          /\ rename'[t] = NoRename
          /\ \A o \in Renamer \ {t} : rename'[o] = rename[o]
      BY <1>4 DEF RenameSaves, AccountType, pending, tasks
    <2>2. CASE UNCHANGED account
      BY <1>1, <1>2, <2>1, <2>2 DEF NameInv, Sole
    <2>3. CASE Saves(rename[t].user, rename[t].name, rename[t].key) /\ ~UNCHANGED account
      <3>1. /\ rename[t].user \in Users /\ rename[t].name \in Names
            /\ Sole(rename[t].user, rename[t].name)
        BY <1>2, <2>1
      <3>2. /\ ~Clash(rename[t], Registering)
            /\ \A o \in Renamer \ {t} : ~Clash(rename[t], rename[o])
        BY <1>4, <2>3 DEF RenameSaves, Unforeseen, Short
      <3>3. reg.by \in Users => rename[t].user # reg.by /\ rename[t].name # reg.name
        BY <3>1, <3>2, NobodyIsNoUser DEF Clash, Registering
      <3>4. \A o \in Renamer \ {t} : rename[o] # NoRename =>
              rename[t].user # rename[o].user /\ rename[t].name # rename[o].name
        BY <1>2, <3>1, <3>2, NobodyIsNoUser DEF Clash
      <3>5. /\ \A u, v \in Users :
                 u # v /\ account'[u].name = account'[v].name => account'[u].name = None
            /\ \A v \in Users \ {rename[t].user} : account'[v] = account[v]
            /\ account'[rename[t].user] = [name |-> rename[t].name, key |-> rename[t].key]
        BY <1>2, <2>3, <3>1, SavesKeepsUnique
      <3>6. reg.by \in Users /\ Sole(reg.by, reg.name) => Sole(reg.by, reg.name)'
        BY <2>1, <3>3, <3>5 DEF Sole
      <3>7. \A o \in Renamer : rename'[o] # NoRename =>
              /\ rename'[o].user \in Users /\ rename'[o].name \in Names
              /\ Sole(rename[o].user, rename[o].name)'
        BY <1>2, <2>1, <3>4, <3>5 DEF Sole
      <3>8. QED
        BY <1>1, <1>2, <2>1, <3>5, <3>6, <3>7 DEF NameInv
    <2>4. QED
      BY <1>4, <2>2, <2>3 DEF RenameSaves
  <1>5. ASSUME NEW u \in Users, NEW name \in Names, Rename(u, name)
        PROVE  NameInv'
    <2>1. PICK t \in Renamer : Begins(t, u, name)
      BY <1>5 DEF Rename, Renamer
    <2>2. Sole(u, name)
      BY <1>2, <2>1, FreeIsSole DEF Begins
    <2>3. /\ rename'[t].user = u /\ rename'[t].name = name
          /\ \A o \in Renamer \ {t} : rename'[o] = rename[o]
          /\ UNCHANGED <<account, reg, app>>
      BY <2>1 DEF Begins, AccountType, tasks
    <2>4. \A o \in Renamer : rename'[o] # NoRename =>
            /\ rename'[o].user \in Users /\ rename'[o].name \in Names
            /\ Sole(rename'[o].user, rename'[o].name)
      BY <1>2, <2>2, <2>3
    <2>5. QED
      BY <1>1, <1>2, <2>3, <2>4 DEF NameInv, Sole
  <1>6. CASE EraseRecords
    <2>1. CASE UNCHANGED account
      BY <1>1, <1>2, <1>6, <2>1 DEF EraseRecords, NameInv, Sole, pending, tasks
    <2>2. CASE account' = Without(erasing)
      <3>1. \A u \in Users : account'[u] = account[u] \/ account'[u].name = None
        BY <2>2 DEF Without, NoRecord
      <3>2. /\ \A t \in Renamer : rename[t] # NoRename => rename[t].name # None
            /\ app.granted => reg.name # None
        BY <1>2, SessionAssumption DEF TokenInv
      <3>3. UNCHANGED <<rename, reg, app>>
        BY <1>6 DEF EraseRecords, pending, tasks
      <3>4. QED
        BY <1>1, <1>2, <3>1, <3>2, <3>3 DEF NameInv, Sole
    <2>3. QED
      BY <1>6, <2>1, <2>2 DEF EraseRecords
  <1>7. CASE Decide
    <2>1. UNCHANGED <<account, rename, reg>>
      BY <1>7 DEF Decide, users, pending
    <2>2. CASE Short({"lock"})'
      <3>1. app' = [app EXCEPT !.granted = Decision(reg.by, reg.name).granted,
                               !.at = Decision(reg.by, reg.name).at]
        BY <1>7, <2>2 DEF Decide, Fails, Short
      <3>2. app'.granted => reg.by \in Users /\ FreeFor(reg.by, reg.name)
        BY <3>1 DEF Decision, TaskType
      <3>3. app'.granted => Sole(reg.by, reg.name)
        BY <1>2, <1>7, <3>2, FreeIsSole DEF TokenInv, Decide, AppAt
      <3>4. QED
        BY <1>2, <2>1, <3>2, <3>3 DEF NameInv, Sole
    <2>3. CASE ~Short({"lock"})'
      <3>1. app'.at = "save" => reg.by \in Users /\ FreeFor(reg.by, reg.name)
        BY <1>7 DEF Decide, Decision, TaskType
      <3>2. app'.at = "save" => Sole(reg.by, reg.name)
        BY <1>2, <1>7, <3>1, FreeIsSole DEF TokenInv, Decide, AppAt
      <3>3. QED
        BY <1>2, <2>1, <2>3, <3>1, <3>2 DEF NameInv, Sole
    <2>4. QED
      BY <2>2, <2>3
  <1>8. CASE Take \/ Find \/ SetAuthenticated \/ BindUser \/ Clear
    <2>1. UNCHANGED <<account, rename>>
      BY <1>8, UsersUntouched DEF Decided, users, Save, Take, Find, SetAuthenticated, BindUser, Clear, AppAt
    <2>2. app'.granted => app.granted /\ app'.at # "save" /\ UNCHANGED reg
      <3>1. CASE Take
        BY <3>1 DEF Take, TokenInv, TaskType, AppAt, AppGoes
      <3>2. CASE Find
        BY <3>2 DEF Find, TaskType, AppAt, AppGoes, pending
      <3>3. CASE SetAuthenticated \/ BindUser
        BY <3>3 DEF SetAuthenticated, BindUser, TaskType, AppAt, AppGoes, pending
      <3>4. CASE Clear
        BY <3>4 DEF Clear, AppIdle
      <3>5. QED
        BY <1>8, <3>1, <3>2, <3>3, <3>4
    <2>3. QED
      BY <1>1, <1>2, <2>1, <2>2 DEF NameInv, Sole
  <1>9. ASSUME NEW u \in Users, Scan(u)
        PROVE  NameInv'
    <2>1. ~app'.granted /\ UNCHANGED <<account, rename>>
      BY <1>9 DEF Scan, TokenInv, users, tasks
    <2>2. QED
      BY <1>2, <2>1 DEF NameInv, Sole
  <1>10. CASE Ask
    <2>1. UNCHANGED <<account, rename, app>> /\ (UNCHANGED reg \/ ~app.granted)
      BY <1>10 DEF Ask, TokenInv, users
    <2>2. QED
      BY <1>1, <1>2, <2>1 DEF NameInv, Sole
  <1>11. CASE Reset
    BY <1>2, <1>11 DEF Reset, NameInv, AppIdle
  <1>12. CASE UNCHANGED <<account, rename, reg, app>>
    BY <1>1, <1>2, <1>12 DEF NameInv, Sole
  <1>13. \/ Client \/ Arm \/ Expire \/ OtherAction \/ OtherEnds
         \/ (\E u \in Users : Enrol(u) \/ Demote(u)) \/ (\E S \in SUBSET Users : Delete(S))
         => UNCHANGED <<account, rename, reg, app>>
    BY DEF Client, Connect, Disconnect, LoginInit, LoginVerify, Register, Logout, Arm, Expire,
       OtherAction, OtherEnds, Enrol, Demote, Delete, users, pending, tasks
  <1>14. QED
    BY <1>3, <1>4, <1>5, <1>6, <1>7, <1>8, <1>9, <1>10, <1>11, <1>12, <1>13
       DEF Next, Decided, Records

\* A record outlives its user only while a deletion is under way.
LEMMA OwnerStep ==
  ASSUME TypeOK, TokenInv, OwnerInv, Next
  PROVE  OwnerInv'
  <1> SUFFICES ASSUME Short({"orphan", "write"})'
               PROVE  OwnerInv'
    BY DEF OwnerInv
  <1> USE TypeParts DEF AccountType
  <1>1. \A u \in Users \ (enrolled \cup erasing) : account[u] = NoRecord
    BY MishapsKept DEF Short, OwnerInv
  <1>2. CASE Save
    <2>1. reg.by \in enrolled \/ UNCHANGED account
      BY <1>2 DEF Save, Unforeseen, Short, Fails
    <2>2. QED
      BY <1>1, <1>2, <2>1 DEF Save, Saves, OwnerInv
  <1>3. ASSUME NEW t \in Renamer, RenameSaves(t)
        PROVE  OwnerInv'
    <2>1. rename[t].user \in enrolled \/ UNCHANGED account
      BY <1>3 DEF RenameSaves, Unforeseen, Short, Fails
    <2>2. QED
      BY <1>1, <1>3, <2>1 DEF RenameSaves, Saves, OwnerInv
  <1>4. CASE EraseRecords
    <2>1. account' = Without(erasing) /\ UNCHANGED enrolled
      BY <1>4 DEF EraseRecords, Fails, Short
    <2>2. QED
      BY <1>1, <2>1 DEF Without, OwnerInv
  <1>5. ASSUME NEW u \in Users, Enrol(u) \/ Demote(u)
        PROVE  OwnerInv'
    BY <1>1, <1>5 DEF Enrol, Demote, OwnerInv
  <1>6. ASSUME NEW S \in SUBSET Users, Delete(S)
        PROVE  OwnerInv'
    BY <1>1, <1>6 DEF Delete, OwnerInv
  <1>7. CASE Reset
    <2>1. erasing = {} /\ UNCHANGED <<account, enrolled>>
      BY <1>7 DEF Reset, Noting, Short
    <2>2. QED
      BY <1>1, <2>1 DEF OwnerInv
  <1>8. CASE UNCHANGED <<account, enrolled, erasing>>
    BY <1>1, <1>8 DEF OwnerInv
  <1>9. ASSUME NEW u \in Users, NEW name \in Names, Rename(u, name)
        PROVE  UNCHANGED <<account, enrolled, erasing>>
    BY <1>9 DEF Rename, Begins
  <1>10. QED
    BY <1>2, <1>3, <1>4, <1>5, <1>6, <1>7, <1>8, <1>9, UsersUntouched DEF Next, Records, users

-----------------------------------------------------------------------------
(* The connection that asked is the one that is answered.                  *)

\* What a client does ends a wait of its own connection and leaves the others alone.
LEMMA ClientEffect ==
  ASSUME TypeOK, Client, \A c \in Conns : claim[c].mine => Asked(c)
  PROVE  /\ UNCHANGED <<reg, app>>
         /\ \E c \in Conns :
              /\ ~claim'[c].mine
              /\ \A d \in Conns \ {c} : session'[d] = session[d] /\ claim'[d] = claim[d]
  <1> USE TypeParts DEF SessionType
  <1>1. ASSUME NEW c \in Conns,
               \/ Connect(c) \/ Disconnect(c) \/ Logout(c)
               \/ \E name \in Names : LoginInit(c, name)
               \/ \E key \in Keys \cup {None} : LoginVerify(c, key)
               \/ \E name \in Names, key \in Keys : Register(c, name, key)
        PROVE  /\ UNCHANGED <<reg, app>> /\ ~claim'[c].mine
               /\ \A d \in Conns \ {c} : session'[d] = session[d] /\ claim'[d] = claim[d]
    <2>1. UNCHANGED <<reg, app>>
      BY <1>1 DEF Connect, Disconnect, Logout, LoginInit, LoginVerify, Register, pending, tasks
    <2>2. \A d \in Conns \ {c} : session'[d] = session[d] /\ claim'[d] = claim[d]
      BY <1>1 DEF Connect, Disconnect, Logout, LoginInit, LoginVerify, Register
    <2>3. CASE Connect(c)
      <3>1. ~claim[c].mine
        BY <2>3 DEF Connect, Asked
      <3>2. QED
        BY <2>1, <2>2, <2>3, <3>1 DEF Connect
    <2>4. CASE Disconnect(c) \/ Logout(c)
      BY <2>1, <2>2, <2>4 DEF Disconnect, Logout, Unproved
    <2>5. CASE \E name \in Names : LoginInit(c, name)
      BY <2>1, <2>2, <2>5 DEF LoginInit, ClaimOf
    <2>6. CASE \E key \in Keys \cup {None} : LoginVerify(c, key)
      <3>1. ~claim[c].mine
        BY <2>6 DEF LoginVerify, Asked
      <3>2. ~claim'[c].mine
        BY <2>6, <3>1 DEF LoginVerify
      <3>3. QED
        BY <2>1, <2>2, <3>2
    <2>7. CASE \E name \in Names, key \in Keys : Register(c, name, key)
      <3>1. PICK key \in Keys : claim' = [claim EXCEPT ![c] = [@ EXCEPT !.key = key, !.mine = FALSE]]
        BY <2>7 DEF Register
      <3>2. ~[claim[c] EXCEPT !.key = key, !.mine = FALSE].mine
        BY DEF ClaimOf
      <3>3. QED
        BY <2>1, <2>2, <3>1, <3>2
    <2>8. QED
      BY <1>1, <2>3, <2>4, <2>5, <2>6, <2>7
  <1>2. QED
    BY <1>1 DEF Client

\* Every step keeps the connection that asked the one that is answered.
LEMMA MineStep ==
  ASSUME TypeOK, TokenInv, HostInv, MineInv, Next
  PROVE  MineInv'
  <1> SUFFICES ASSUME Short({"late"})'
               PROVE  MineInv'
    BY DEF MineInv
  <1> USE TypeParts DEF SessionType
  <1>1. /\ Short({"late"})
        /\ \A c, d \in Conns : claim[c].mine /\ claim[d].mine => c = d
        /\ \A c \in Conns : claim[c].mine => Asked(c)
    BY MishapsKept DEF Short, MineInv
  <1>2. CASE Client
    <2>1. PICK c \in Conns :
            /\ ~claim'[c].mine
            /\ \A d \in Conns \ {c} : session'[d] = session[d] /\ claim'[d] = claim[d]
      BY <1>1, <1>2, ClientEffect
    <2>2. UNCHANGED <<reg, app>>
      BY <1>1, <1>2, ClientEffect
    <2>3. \A d \in Conns : claim'[d].mine => claim[d].mine /\ Asked(d)'
      BY <1>1, <2>1, <2>2 DEF Asked
    <2>4. QED
      BY <1>1, <2>3 DEF MineInv
  <1>3. CASE Ask
    <2>1. CASE UNCHANGED <<reg, claim>>
      BY <1>1, <1>3, <2>1 DEF Ask, MineInv, Asked
    <2>2. CASE ~UNCHANGED <<reg, claim>>
      <3>0. PICK h \in Conns : h = host.conn
        BY <1>3 DEF HostInv, Ask
      <3>1. /\ ~reg.pending /\ UNCHANGED <<session, app>>
            /\ reg' = [pending |-> TRUE, name |-> session[h].name, key |-> host.key, by |-> Nobody]
            /\ claim' = [claim EXCEPT ![h].mine = TRUE]
        BY <1>3, <2>2, <3>0 DEF Ask
      <3>2. /\ session[h].up /\ session[h].auth # "challenge"
            /\ claim[h].key = host.key /\ session[h].waiting
        BY <1>1, <1>3, <3>0 DEF HostInv, Ask
      <3>3. app.at = "idle"
        BY <3>1 DEF TokenInv
      <3>4. \A c \in Conns : ~claim[c].mine
        BY <1>1, <3>1 DEF Asked
      <3>5. claim'[h].key = claim[h].key /\ \A c \in Conns \ {h} : ~claim'[c].mine
        BY <3>1, <3>2, <3>4 DEF ClaimOf
      <3>6. Asked(h)'
        BY <3>1, <3>2, <3>3, <3>5 DEF Asked
      <3>7. QED
        BY <3>5, <3>6 DEF MineInv
    <2>3. QED
      BY <2>1, <2>2
  <1>4. ASSUME NEW u \in Users, Scan(u)
        PROVE  MineInv'
    <2>1. /\ reg' = [reg EXCEPT !.by = u] /\ UNCHANGED <<session, app>>
          /\ \A c \in Conns : IF claim[c].mine THEN claim'[c] = [claim[c] EXCEPT !.proof = @ \cup {u}]
                              ELSE claim'[c] = claim[c]
      BY <1>4 DEF Scan, tasks
    <2>2. \A c \in Conns : /\ claim'[c].mine = claim[c].mine /\ claim'[c].key = claim[c].key
                           /\ claim[c].mine => u \in claim'[c].proof
      BY <2>1 DEF ClaimOf
    <2>3. /\ reg'.by = u /\ reg'.pending = reg.pending /\ reg'.name = reg.name
          /\ reg'.key = reg.key
      BY <2>1 DEF TaskType
    <2>4. \A c \in Conns : claim[c].mine => Asked(c)'
      BY <1>1, <2>1, <2>2, <2>3 DEF Asked
    <2>5. QED
      BY <1>1, <2>2, <2>4 DEF MineInv
  <1>5. CASE Take \/ Decide \/ Save
    <2>1. UNCHANGED <<session, claim, reg>>
      BY <1>5 DEF Take, Decide, Save, pending
    <2>2. app.at \notin {"set", "bind"} /\ app'.at \notin {"set", "bind", "clear"}
      BY <1>5 DEF Take, Decide, Decision, HandledBy, Save, AppAt, AppGoes, TaskType
    <2>3. QED
      BY <1>1, <2>1, <2>2 DEF MineInv, Asked
  <1>6. CASE Find
    <2>1. app.at = "find" /\ UNCHANGED <<session, claim, reg>>
      BY <1>6 DEF Find, AppAt, pending
    <2>2. ASSUME NEW c \in Conns, app'.at = "set", app'.conn = c, claim[c].mine
          PROVE  MineInv'
      BY <1>1, <2>1, <2>2 DEF MineInv, Asked
    <2>3. CASE \A c \in Conns : ~Awaits(c)
      <3>1. \A c \in Conns : ~claim[c].mine
        BY <1>1, <2>1, <2>3 DEF Awaits, Asked
      <3>2. QED
        BY <2>1, <3>1 DEF MineInv
    <2>4. CASE ~\A c \in Conns : ~Awaits(c)
      <3>1. PICK c \in Conns :
              /\ app' = [app EXCEPT !.at = "set", !.conn = c,
                           !.user = IF app.granted THEN Account(reg.name) ELSE Nobody]
              /\ Noting("late", ~claim[c].mine)
        BY <1>6, <2>4 DEF Find
      <3>2. app'.at = "set" /\ app'.conn = c
        BY <3>1 DEF TaskType
      <3>3. claim[c].mine
        BY <3>1 DEF Noting, Short
      <3>4. QED
        BY <2>2, <3>2, <3>3
    <2>5. QED
      BY <2>3, <2>4
  <1>7. CASE SetAuthenticated
    <2>0. PICK h \in Conns : h = app.conn
      BY <1>7, SetAuthenticatedEffect
    <2>1. app.at = "set" /\ UNCHANGED reg
      BY <1>7 DEF SetAuthenticated, AppAt, pending
    <2>2. \A c \in Conns : claim[c].mine => c = h
      BY <1>1, <2>0, <2>1 DEF Asked
    <2>3. \A c \in Conns \ {h} : ~claim'[c].mine
      BY <1>7, <2>0, <2>2, SetAuthenticatedEffect
    <2>4. CASE ~session[h].up
      <3>1. ~claim[h].mine /\ UNCHANGED claim
        BY <1>1, <1>7, <2>0, <2>4, SetAuthenticatedEffect DEF Asked
      <3>2. QED
        BY <2>3, <3>1 DEF MineInv
    <2>5. CASE session[h].up /\ app.granted
      <3>1. /\ UNCHANGED claim /\ session'[h].up /\ claim[h].mine
            /\ session'[h].name = session[h].name /\ session'[h].auth = "ok"
        BY <1>7, <2>0, <2>5, SetAuthenticatedEffect
      <3>2. app'.at = "bind" /\ app'.conn = h
        BY <1>7, <2>0, <2>5 DEF SetAuthenticated, AppGoes, TaskType
      <3>3. Asked(h)'
        BY <1>1, <2>1, <3>1, <3>2 DEF Asked
      <3>4. QED
        BY <2>3, <3>1, <3>3 DEF MineInv
    <2>6. CASE session[h].up /\ ~app.granted
      <3>1. ~claim'[h].mine
        BY <1>7, <2>0, <2>6, SetAuthenticatedEffect
      <3>2. QED
        BY <2>3, <3>1 DEF MineInv
    <2>7. QED
      BY <2>4, <2>5, <2>6
  <1>8. CASE BindUser
    <2> DEFINE h == app.conn
    <2>1. app.at = "bind"
      BY <1>8 DEF BindUser, AppAt
    <2>2. \A c \in Conns : claim[c].mine => c = h /\ session[c].up
      BY <1>1, <2>1 DEF Asked
    <2>3. \A c \in Conns \ {h} : ~claim'[c].mine
      BY <1>8, <2>2, BindUserEffect
    <2>4. ~claim'[h].mine
      BY <1>8, <2>2, BindUserEffect
    <2>5. QED
      BY <2>3, <2>4 DEF MineInv
  <1>9. CASE Clear
    <2>1. \A c \in Conns : ~claim[c].mine
      BY <1>1, <1>9 DEF Clear, AppAt, Asked
    <2>2. QED
      BY <1>9, <2>1 DEF Clear, MineInv
  <1>10. CASE Reset
    <2>1. \A c \in Conns : ~claim'[c].mine
      BY <1>10 DEF Reset, Unproved
    <2>2. QED
      BY <2>1 DEF MineInv
  <1>11. CASE Arm \/ Expire \/ Records
    <2>1. UNCHANGED <<session, claim, reg, app>>
      BY <1>11, SessionsUntouched DEF Arm, Expire, Records, OtherAction, OtherEnds, RenameSaves,
         EraseRecords, Enrol, Demote, Rename, Begins, Delete, pending, tasks
    <2>2. QED
      BY <1>1, <2>1 DEF MineInv, Asked
  <1>12. QED
    BY <1>2, <1>3, <1>4, <1>5, <1>6, <1>7, <1>8, <1>9, <1>10, <1>11 DEF Next, Decided

-----------------------------------------------------------------------------
(* Sessions are bound to whom they belong to, and answers are saved first. *)

\* A client binds its session to whom its password is of, or to nobody.
LEMMA ClientBinds ==
  ASSUME TypeOK, Client, \A c \in Conns : Bound(c)
  PROVE  \A c \in Conns : Bound(c)'
  <1> USE TypeParts DEF SessionType
  <1>1. PICK c \in Conns :
          \/ Connect(c) \/ Disconnect(c) \/ Logout(c)
          \/ \E name \in Names : LoginInit(c, name)
          \/ \E key \in Keys \cup {None} : LoginVerify(c, key)
          \/ \E name \in Names, key \in Keys : Register(c, name, key)
    BY DEF Client
  <1>2. \A d \in Conns \ {c} : session'[d] = session[d] /\ claim'[d] = claim[d]
    BY <1>1 DEF Connect, Disconnect, Logout, LoginInit, LoginVerify, Register
  <1>3. session[c] \in SessionOf /\ claim[c] \in ClaimOf
    OBVIOUS
  <1>4. CASE Connect(c) \/ Disconnect(c) \/ Logout(c)
    <2>1. Closed.user = Nobody /\ Opened.user = Nobody /\ LoggedOut(session[c]).user = Nobody
      BY <1>3 DEF Closed, Opened, LoggedOut, SessionOf
    <2>2. session'[c].user = Nobody
      BY <1>4, <2>1 DEF Connect, Disconnect, Logout
    <2>3. QED
      BY <1>2, <2>2 DEF Bound
  <1>5. CASE \/ \E name \in Names : LoginInit(c, name)
             \/ \E name \in Names, key \in Keys : Register(c, name, key)
    <2>1. ASSUME NEW name \in Names, LoginInit(c, name)
          PROVE  session'[c].user = session[c].user /\ claim'[c].proof = claim[c].proof
      <3>1. [session[c] EXCEPT !.auth = "challenge", !.waiting = FALSE, !.name = name].user
              = session[c].user
        BY <1>3 DEF SessionOf
      <3>2. [claim[c] EXCEPT !.mine = FALSE].proof = claim[c].proof
        BY <1>3 DEF ClaimOf
      <3>3. QED
        BY <2>1, <3>1, <3>2 DEF LoginInit
    <2>2. ASSUME NEW name \in Names, NEW key \in Keys, Register(c, name, key)
          PROVE  session'[c].user = session[c].user /\ claim'[c].proof = claim[c].proof
      <3>1. [session[c] EXCEPT !.auth = "pending", !.waiting = TRUE, !.name = name].user
              = session[c].user
        BY <1>3 DEF SessionOf
      <3>2. [claim[c] EXCEPT !.key = key, !.mine = FALSE].proof = claim[c].proof
        BY <1>3 DEF ClaimOf
      <3>3. QED
        BY <2>2, <3>1, <3>2 DEF Register
    <2>3. QED
      BY <1>2, <1>5, <2>1, <2>2 DEF Bound
  <1>6. ASSUME NEW key \in Keys \cup {None}, LoginVerify(c, key)
        PROVE  Bound(c)'
    <2> DEFINE u == Account(session[c].name)
               r == [session[c] EXCEPT !.auth = "ok", !.waiting = FALSE, !.user = u]
               q == [session[c] EXCEPT !.auth = "none", !.waiting = FALSE]
    <2>1. r.user = u /\ q.user = session[c].user
      BY <1>3 DEF SessionOf
    <2>2. \/ session'[c] = r /\ claim'[c].proof = claim[c].proof \cup {u}
          \/ session'[c] = q /\ claim'[c] = claim[c]
      BY <1>6 DEF LoginVerify
    <2> HIDE DEF u, r, q
    <2>3. QED
      BY <2>1, <2>2 DEF Bound
  <1>7. QED
    BY <1>1, <1>2, <1>4, <1>5, <1>6 DEF Bound

\* Every step keeps sessions bound to whom let them in.
LEMMA BoundStep ==
  ASSUME TypeOK, TokenInv, NameInv, MineInv, BoundInv, Next
  PROVE  BoundInv'
  <1> SUFFICES ASSUME Short({"lock", "late", "overlap"})'
               PROVE  BoundInv'
    BY DEF BoundInv
  <1> USE TypeParts DEF SessionType
  <1>1. /\ Short({"lock", "late", "overlap"})
        /\ \A c \in Conns : Bound(c)
        /\ app.at \in {"set", "bind"} /\ app.granted => app.user \in {Nobody, reg.by}
    BY MishapsKept DEF Short, BoundInv
  <1>2. CASE Client
    <2>1. UNCHANGED <<reg, app>>
      BY <1>2 DEF Client, Connect, Disconnect, Logout, LoginInit, LoginVerify, Register, pending, tasks
    <2>2. QED
      BY <1>1, <1>2, <2>1, ClientBinds DEF BoundInv
  <1>3. CASE Ask
    <2>1. \A c \in Conns : Bound(c)'
      <3>1. ASSUME NEW c \in Conns
            PROVE  session'[c] = session[c] /\ claim'[c].proof = claim[c].proof
        <4>1. [claim[c] EXCEPT !.mine = TRUE].proof = claim[c].proof
          BY DEF ClaimOf
        <4>2. QED
          BY <1>3, <4>1 DEF Ask
      <3>2. QED
        BY <1>1, <3>1 DEF Bound
    <2>2. UNCHANGED app /\ (UNCHANGED reg \/ app.at = "idle")
      BY <1>3 DEF Ask, TokenInv
    <2>3. QED
      BY <1>1, <2>1, <2>2 DEF BoundInv
  <1>4. ASSUME NEW u \in Users, Scan(u)
        PROVE  BoundInv'
    <2>1. \A c \in Conns : Bound(c)'
      <3>1. ASSUME NEW c \in Conns
            PROVE  session'[c] = session[c] /\ claim[c].proof \subseteq claim'[c].proof
        <4>1. [claim[c] EXCEPT !.proof = @ \cup {u}].proof = claim[c].proof \cup {u}
          BY DEF ClaimOf
        <4>2. QED
          BY <1>4, <4>1 DEF Scan
      <3>2. QED
        BY <1>1, <3>1 DEF Bound
    <2>2. UNCHANGED app /\ app.at = "idle"
      BY <1>4 DEF Scan, TokenInv, tasks
    <2>3. QED
      BY <2>1, <2>2 DEF BoundInv
  <1>5. CASE Take \/ Decide \/ Save \/ Clear
    <2>1. UNCHANGED <<session, claim>>
      BY <1>5, SessionsUntouched
    <2>2. app'.at \notin {"set", "bind"}
      <3>1. CASE Take \/ Save
        BY <3>1 DEF Take, HandledBy, Save, AppAt, AppGoes, TaskType
      <3>2. CASE Decide
        BY <3>2 DEF Decide, Decision, TaskType
      <3>3. CASE Clear
        BY <3>3 DEF Clear, AppIdle
      <3>4. QED
        BY <1>5, <3>1, <3>2, <3>3
    <2>3. QED
      BY <1>1, <2>1, <2>2 DEF BoundInv, Bound
  <1>6. CASE Find
    <2>1. UNCHANGED <<session, claim, reg>> /\ app'.granted = app.granted /\ app.at = "find"
      BY <1>6 DEF Find, AppAt, AppGoes, TaskType, pending
    <2>2. app'.at = "set" /\ app.granted => app'.user = Account(reg.name)
      BY <1>6 DEF Find, AppAt, AppGoes, TaskType
    <2>3. app.granted => Sole(reg.by, reg.name)
      BY <1>1 DEF NameInv, Short
    <2>4. app.granted => Account(reg.name) \in {Nobody, reg.by}
      BY <2>3, AccountFinds DEF Sole
    <2>5. app'.at \in {"set", "clear"}
      BY <1>6 DEF Find, AppGoes, TaskType
    <2>6. QED
      BY <1>1, <2>1, <2>2, <2>4, <2>5 DEF BoundInv, Bound
  <1>7. CASE SetAuthenticated
    <2>0. PICK h \in Conns : h = app.conn
      BY <1>7, SetAuthenticatedEffect
    <2>1. \A c \in Conns \ {h} : Bound(c)'
      BY <1>1, <1>7, <2>0, SetAuthenticatedEffect DEF Bound
    <2>2. \/ session'[h] = session[h] /\ claim'[h] = claim[h]
          \/ session'[h].user = session[h].user /\ claim'[h] = claim[h]
          \/ session'[h].user = Nobody
      BY <1>7, <2>0, SetAuthenticatedEffect
    <2>3. Bound(h)'
      BY <1>1, <2>2 DEF Bound
    <2>4. /\ app.at = "set" /\ UNCHANGED reg
          /\ app'.granted = app.granted /\ app'.user = app.user
      BY <1>7 DEF SetAuthenticated, AppAt, AppGoes, TaskType, pending
    <2>5. QED
      BY <1>1, <2>1, <2>3, <2>4 DEF BoundInv
  <1>8. CASE BindUser
    <2>0. PICK h \in Conns : h = app.conn
      BY <1>8, BindUserEffect
    <2>1. \A c \in Conns \ {h} : Bound(c)'
      BY <1>1, <1>8, <2>0, BindUserEffect DEF Bound
    <2>2. app'.at = "clear" /\ app.user \in {Nobody, reg.by}
      BY <1>1, <1>8 DEF BindUser, AppAt, AppGoes, TokenInv, TaskType
    <2>3. CASE session[h].up
      <3>1. claim[h].mine
        BY <1>8, <2>0, <2>3, BindUserEffect DEF Short
      <3>2. reg.by # Nobody => reg.by \in claim[h].proof
        BY <1>1, <3>1 DEF MineInv, Asked, Short
      <3>3. session'[h].user = app.user /\ claim'[h].proof = claim[h].proof
        BY <1>8, <2>0, <2>3, BindUserEffect
      <3>4. Bound(h)'
        BY <2>2, <3>2, <3>3 DEF Bound
      <3>5. QED
        BY <2>1, <2>2, <3>4 DEF BoundInv
    <2>4. CASE ~session[h].up
      <3>1. UNCHANGED <<session, claim>>
        BY <1>8, <2>0, <2>4, BindUserEffect
      <3>2. QED
        BY <1>1, <2>2, <3>1 DEF BoundInv, Bound
    <2>5. QED
      BY <2>3, <2>4
  <1>9. CASE Reset
    <2>1. Closed.user = Nobody /\ app'.at = "idle"
      BY <1>9 DEF Closed, Reset, AppIdle
    <2>2. QED
      BY <1>9, <2>1 DEF Reset, BoundInv, Bound
  <1>10. CASE Arm \/ Expire \/ Records
    <2>1. UNCHANGED <<session, claim, reg, app>>
      BY <1>10, SessionsUntouched DEF Arm, Expire, Records, OtherAction, OtherEnds, RenameSaves,
         EraseRecords, Enrol, Demote, Rename, Begins, Delete, pending, tasks
    <2>2. QED
      BY <1>1, <2>1 DEF BoundInv, Bound
  <1>11. QED
    BY <1>2, <1>3, <1>4, <1>5, <1>6, <1>7, <1>8, <1>9, <1>10 DEF Next, Decided

\* An account is on record from its saving to its answer, unless others write the record.
LEMMA SavedStep ==
  ASSUME TypeOK, TokenInv, NameInv, SavedInv, Next
  PROVE  SavedInv'
  <1> SUFFICES ASSUME Short({"lock", "write", "overlap", "gone"})',
                      app'.at \in {"find", "set"}, app'.granted
               PROVE  account'[reg'.by] = [name |-> reg'.name, key |-> reg'.key]
    BY DEF SavedInv
  <1> USE TypeParts DEF AccountType
  <1>1. Short({"lock", "write", "overlap", "gone"})
    BY MishapsKept DEF Short
  <1>2. app.granted /\ (app.at = "save" \/ Short({"lock"})) => reg.by \in Users
    BY <1>1 DEF NameInv, Short
  <1>3. app.at \in {"find", "set"} /\ app.granted =>
          reg.by \in Users /\ account[reg.by] = [name |-> reg.name, key |-> reg.key]
    BY <1>1, <1>2 DEF SavedInv, Short
  <1>4. CASE UNCHANGED <<reg, app>>
    <2>1. reg.by \in Users /\ account[reg.by] = [name |-> reg.name, key |-> reg.key]
      BY <1>3, <1>4
    <2>2. UNCHANGED account \/ Save \/ (\E t \in Renamer : RenameSaves(t)) \/ EraseRecords
      <3>1. Records => UNCHANGED account \/ (\E t \in Renamer : RenameSaves(t)) \/ EraseRecords
        BY DEF Records, OtherAction, OtherEnds, Enrol, Demote, Rename, Begins, Delete, users
      <3>2. QED
        BY <3>1, UsersUntouched DEF Next, Decided, Reset, users
    <2>3. ~Save
      BY <1>4 DEF Save, AppAt, AppGoes, TaskType
    <2>4. ASSUME NEW t \in Renamer, RenameSaves(t)
          PROVE  account'[reg.by] = account[reg.by]
      <3>1. rename[t].user # reg.by \/ UNCHANGED account
        <4>1. CASE rename[t].user = reg.by
          BY <2>1, <2>4, <4>1, NobodyIsNoUser
             DEF RenameSaves, Unforeseen, Clash, Registering, Short
        <4>2. QED
          BY <4>1
      <3>2. QED
        BY <1>4, <2>1, <2>4, <3>1 DEF RenameSaves, Saves
    <2>5. CASE EraseRecords
      <3>1. reg.by \notin erasing \/ UNCHANGED account
        BY <2>5 DEF EraseRecords, Noting, Short
      <3>2. QED
        BY <1>4, <2>1, <2>5, <3>1 DEF EraseRecords, Without
    <2>6. QED
      BY <1>4, <2>1, <2>2, <2>3, <2>4, <2>5
  <1>5. CASE Take \/ Decide \/ BindUser \/ Clear \/ Reset
    <2>1. ~(app'.at \in {"find", "set"} /\ app'.granted)
      <3>1. CASE Take
        BY <3>1 DEF Take, AppAt, AppGoes, TokenInv, TaskType
      <3>2. CASE Decide
        <4>1. app' = [app EXCEPT !.granted = Decision(reg.by, reg.name).granted,
                                 !.at = Decision(reg.by, reg.name).at]
          BY <3>2 DEF Decide, Fails, Short
        <4>2. QED
          BY <4>1 DEF Decision, TaskType
      <3>3. CASE BindUser
        BY <3>3 DEF BindUser, AppGoes, TaskType
      <3>4. CASE Clear \/ Reset
        BY <3>4 DEF Clear, Reset, AppIdle
      <3>5. QED
        BY <1>5, <3>1, <3>2, <3>3, <3>4
    <2>2. QED
      BY <2>1
  <1>6. CASE Save
    <2>1. app.at = "save" /\ UNCHANGED reg
      BY <1>6 DEF Save, AppAt, pending
    <2>2. reg.by \in Users
      BY <1>2, <2>1 DEF TokenInv
    <2>3. Saves(reg.by, reg.name, reg.key)
      BY <1>6 DEF Save, Fails, Short
    <2>4. QED
      BY <2>1, <2>2, <2>3 DEF Saves
  <1>7. CASE Find \/ SetAuthenticated
    <2>1. UNCHANGED reg /\ app'.granted = app.granted /\ app.at \in {"find", "set"}
      BY <1>7 DEF Find, SetAuthenticated, AppAt, AppGoes, TaskType, pending
    <2>2. UNCHANGED account
      BY <1>7 DEF Find, SetAuthenticated, users
    <2>3. QED
      BY <1>3, <2>1, <2>2
  <1>8. CASE Ask \/ \E u \in Users : Scan(u)
    <2>1. UNCHANGED app /\ (UNCHANGED reg \/ app.at = "idle")
      BY <1>8 DEF Ask, Scan, TokenInv, tasks
    <2>2. QED
      BY <1>4, <2>1
  <1>9. Client \/ Arm \/ Expire \/ Records => UNCHANGED <<reg, app>>
    BY DEF Client, Connect, Disconnect, LoginInit, LoginVerify, Register, Logout, Arm, Expire,
       Records, OtherAction, OtherEnds, RenameSaves, EraseRecords, Enrol, Demote, Rename, Begins,
       Delete, pending, tasks
  <1>10. QED
    BY <1>4, <1>5, <1>6, <1>7, <1>8, <1>9 DEF Next, Decided

-----------------------------------------------------------------------------
(* The theorems.                                                           *)

\* The invariant holds initially.
LEMMA InitInv == Init => IInv
  <1> SUFFICES ASSUME Init
               PROVE  IInv
    OBVIOUS
  <1> USE DEF Init
  <1>1. TypeOK
    <2>1. NoRecord \in [name: Names \cup {None}, key: Keys \cup {None}]
      BY DEF NoRecord
    <2>2. Opened \in SessionOf /\ Unproved \in ClaimOf
      BY DEF Opened, Closed, Unproved, SessionOf, ClaimOf, Nobody
    <2>3. AccountType
      BY <2>1 DEF AccountType, NoRename, Nobody
    <2>4. SessionType
      BY <2>2 DEF SessionType
    <2>5. TaskType
      BY DEF TaskType, NoReg, HostIdle, AppIdle, Nobody
    <2>6. CountType
      BY SessionAssumption DEF CountType
    <2>7. QED
      BY <2>3, <2>4, <2>5, <2>6, TypeParts
  <1>2. TokenInv /\ HostInv /\ SavedInv
    BY DEF TokenInv, HostInv, SavedInv, NoReg, HostIdle, AppIdle
  <1>3. NameInv /\ OwnerInv
    BY DEF NameInv, OwnerInv, NoRecord, AppIdle
  <1>4. MineInv /\ BoundInv
    BY DEF MineInv, BoundInv, Bound, Unproved, Opened, Closed, AppIdle
  <1>5. QED
    BY <1>1, <1>2, <1>3, <1>4 DEF IInv

\* Every step keeps the invariant.
LEMMA Inductive ==
  ASSUME IInv, [Next]_vars
  PROVE  IInv'
  <1>1. CASE Next
    BY <1>1, TypeStep, TokenStep, HostStep, NameStep, OwnerStep, MineStep, BoundStep, SavedStep
       DEF IInv
  <1>2. CASE UNCHANGED vars
    BY <1>2 DEF IInv, TypeOK, TokenInv, HostInv, NameInv, OwnerInv, MineInv, BoundInv, SavedInv,
       Sole, Asked, Bound, Short, vars, users, pending, tasks
  <1>3. QED
    BY <1>1, <1>2

\* The invariant holds at all times.
LEMMA InvHolds == Spec => []IInv
  BY InitInv, Inductive, PTL DEF Spec

\* The variables have their types.
THEOREM TypeCorrect == Spec => []TypeOK
  <1>1. IInv => TypeOK
    BY DEF IInv
  <1>2. QED
    BY <1>1, InvHolds, PTL

\* An open session speaks for a user who let its connection in, by their password or by
\* their scan for it.
THEOREM AuthorityIsEarned == Spec => []AuthorityEarned
  <1>1. IInv => AuthorityEarned
    BY DEF IInv, BoundInv, Bound, AuthorityEarned, Short
  <1>2. QED
    BY <1>1, InvHolds, PTL

\* Users have different names, and records have users.
THEOREM AccountsAreSound == Spec => []AccountsSound
  <1>1. IInv => AccountsSound
    BY DEF IInv, NameInv, OwnerInv, AccountsSound, Short
  <1>2. QED
    BY <1>1, InvHolds, PTL

\* What a step that opens a session finds on record.
LEMMA OpenedOnRecord ==
  ASSUME IInv, Next, Short({"lock", "write", "late", "overlap", "gone"})',
         NEW c \in Conns, session[c].auth # "ok", session'[c].auth = "ok"
  PROVE  \E u \in Users : account[u] = [name |-> session'[c].name, key |-> claim'[c].key]
  <1> USE TypeParts DEF IInv, SessionType
  <1>1. CASE \E key \in Keys \cup {None} : LoginVerify(c, key)
    <2>1. PICK key \in Keys \cup {None} : LoginVerify(c, key)
      BY <1>1
    <2> DEFINE u == Account(session[c].name)
               r == [session[c] EXCEPT !.auth = "ok", !.waiting = FALSE, !.user = u]
               q == [session[c] EXCEPT !.auth = "none", !.waiting = FALSE]
    <2>2. session[c] \in SessionOf /\ claim[c] \in ClaimOf
      OBVIOUS
    <2>3. q.auth = "none" /\ r.name = session[c].name
      BY <2>2 DEF SessionOf
    <2>4. \/ /\ u \in admins /\ account[u].key = key /\ session'[c] = r
             /\ claim'[c].key = key
          \/ session'[c] = q
      BY <2>1 DEF LoginVerify
    <2>5. /\ u \in admins /\ account[u].key = key /\ session'[c].name = session[c].name
          /\ claim'[c].key = key
      <3> HIDE DEF u, r, q
      <3>1. QED
        BY <2>3, <2>4
    <2>6. u \in Users /\ account[u].name = session[c].name
      BY <2>5, AccountFinds, NobodyIsNoUser DEF AccountType
    <2>7. account[u] = [name |-> session[c].name, key |-> key]
      BY <2>5, <2>6 DEF AccountType
    <2>8. QED
      BY <2>5, <2>6, <2>7
  <1>2. CASE SetAuthenticated
    <2>1. c = app.conn /\ session[c].up
      BY <1>2, SetAuthenticatedEffect
    <2>2. app.granted /\ app.at = "set"
      BY <1>2, <2>1, SetAuthenticatedEffect DEF SetAuthenticated, AppAt
    <2>3. claim[c].mine /\ UNCHANGED claim /\ session'[c].name = session[c].name
      BY <1>2, <2>1, <2>2, SetAuthenticatedEffect DEF Short
    <2>4. /\ Short({"late"}) /\ Short({"lock", "write", "overlap", "gone"})
          /\ Short({"lock"}) /\ Short({"overlap"})
      BY MishapsKept DEF Short
    <2>5. session[c].name = reg.name /\ claim[c].key = reg.key
      BY <2>3, <2>4 DEF MineInv, Asked
    <2>6. reg.by \in Users /\ account[reg.by] = [name |-> reg.name, key |-> reg.key]
      BY <2>2, <2>4 DEF NameInv, SavedInv
    <2>7. QED
      BY <2>3, <2>5, <2>6
  <1>3. CASE BindUser
    BY <1>3, BindUserEffect
  <1>4. CASE Ask \/ (\E u \in Users : Scan(u)) \/ Reset
    BY <1>4 DEF Ask, Scan, Reset, Closed
  <1>5. CASE Client /\ ~(\E key \in Keys \cup {None} : LoginVerify(c, key))
    <2>1. PICK d \in Conns :
            \/ Connect(d) \/ Disconnect(d) \/ Logout(d)
            \/ \E name \in Names : LoginInit(d, name)
            \/ \E key \in Keys \cup {None} : LoginVerify(d, key)
            \/ \E name \in Names, key \in Keys : Register(d, name, key)
      BY <1>5 DEF Client
    <2>2. \A b \in Conns \ {d} : session'[b] = session[b]
      BY <2>1 DEF Connect, Disconnect, Logout, LoginInit, LoginVerify, Register
    <2>3. c = d
      BY <2>2
    <2>4. session[c] \in SessionOf
      OBVIOUS
    <2>5. session'[c].auth # "ok"
      <3>1. CASE Connect(c) \/ Disconnect(c) \/ Logout(c)
        <4>1. Opened.auth # "ok" /\ Closed.auth # "ok" /\ LoggedOut(session[c]).auth # "ok"
          BY <2>4 DEF Opened, Closed, LoggedOut, SessionOf
        <4>2. QED
          BY <3>1, <4>1 DEF Connect, Disconnect, Logout
      <3>2. ASSUME NEW name \in Names, LoginInit(c, name)
            PROVE  session'[c].auth # "ok"
        BY <2>4, <3>2 DEF LoginInit, SessionOf
      <3>3. ASSUME NEW name \in Names, NEW key \in Keys, Register(c, name, key)
            PROVE  session'[c].auth # "ok"
        BY <2>4, <3>3 DEF Register, SessionOf
      <3>4. QED
        BY <1>5, <2>1, <2>3, <3>1, <3>2, <3>3
    <2>6. QED
      BY <2>5
  <1>6. CASE Arm \/ Expire \/ Take \/ Decide \/ Save \/ Find \/ Clear \/ Records
    BY <1>6, SessionsUntouched
  <1>7. QED
    BY <1>1, <1>2, <1>3, <1>4, <1>5, <1>6 DEF Next, Decided

\* A session is opened on a name and a password that are on record.
THEOREM AnswersAreTrue == Spec => AnswerTrue
  <1> DEFINE Step == \A c \in Conns :
       session[c].auth # "ok" /\ session'[c].auth = "ok" =>
         \/ \E u \in Users : account[u] = [name |-> session'[c].name, key |-> claim'[c].key]
         \/ ~Short({"lock", "write", "late", "overlap", "gone"})'
  <1>1. IInv /\ [Next]_vars => [Step]_vars
    BY OpenedOnRecord
  <1>2. QED
    BY <1>1, InvHolds, PTL DEF Spec, AnswerTrue

=============================================================================
