------------------------- MODULE SdfUserCopiesProofs -------------------------
(***************************************************************************)
(* The three copies of the enrolled users - sensor, cache and NVS - agree, *)
(* and every change of them is a change of the abstract store, for every   *)
(* set of users and number of faults.                                      *)
(*                                                                         *)
(* The argument is about one user at a time.  A task that has changed a    *)
(* user's template and not yet the record has a claim on that user.  Two   *)
(* changes overlap when one begins under another's claim; if none ever     *)
(* did, a user has at most one claimant, who alone knows what the copies   *)
(* are, and a user without one has copies that agree.  A step is then      *)
(* checked on the users of its claim; the others it leaves untouched.      *)
(***************************************************************************)
EXTENDS SdfEnrolledUsersProofs

Worker == Editor \cup {"enroll"}

\* Worker x has changed the template of user u, and has not recorded it yet.
Claims(x, u) ==
  IF x = "enroll" THEN Stored /\ enroller.user = u
  ELSE \/ editor[x].at \in {"forget", "note"} /\ editor[x].user = u
       \/ x = "zigbee" /\ editor[x].at = "zero"

Unclaimed(u) == \A x \in Worker : ~Claims(x, u)

\* Unless changes overlapped: nobody shares a claim, a user being enrolled is
\* not on record and one being deleted still is.
ClaimOK(u) ==
  /\ \A x, y \in Worker : Claims(x, u) /\ Claims(y, u) => x = y
  /\ Claims("enroll", u) => u \notin Enrolled
  /\ \A t \in Editor : (Claims(t, u) /\ editor[t].at = "forget") => u \in Enrolled

\* With failing writes only: a template nobody claims is on record, a changed
\* user still is, and one being deleted has no template left.
SafeOK(u) ==
  /\ Unclaimed(u) => (u \in Templates => u \in Enrolled)
  /\ \A t \in Editor :
       Claims(t, u) => IF editor[t].at = "note" THEN u \in Enrolled ELSE u \notin Templates

\* Without faults: what the sensor holds is what is or will be on record.
ExactOK(u) ==
  /\ Unclaimed(u) =>
       /\ u \in Templates <=> u \in Enrolled
       /\ u \in Templates => sensor[u] = cache.perm[u]
  /\ Claims("enroll", u) =>
       enroller.at # "rollback" /\ u \in Templates /\ sensor[u] = enroller.perm
  /\ \A t \in Editor :
       (Claims(t, u) /\ editor[t].at = "note")
         => u \in Templates /\ sensor[u] = editor[t].perm

ClaimInv == "overlap" \notin mishaps => \A u \in Users : ClaimOK(u)
SafeInv  == mishaps \subseteq {"write"} => \A u \in Users : SafeOK(u)
ExactInv == mishaps = {} => \A u \in Users : ExactOK(u)

CopiesInv == ClaimInv /\ SafeInv /\ ExactInv

-----------------------------------------------------------------------------
(* One user at a time.                                                     *)

\* A step that is about other users.
Untouched(u) ==
  /\ \A x \in Worker : Claims(x, u)' <=> Claims(x, u)
  /\ \A t \in Editor : Claims(t, u) => editor'[t] = editor[t]
  /\ Claims("enroll", u) =>
       /\ enroller'.perm = enroller.perm
       /\ enroller'.at = "rollback" => enroller.at = "rollback"
  /\ u \in DOMAIN sensor' <=> u \in DOMAIN sensor
  /\ u \in DOMAIN sensor => sensor'[u] = sensor[u]
  /\ u \in cache'.bmp <=> u \in cache.bmp
  /\ u \in cache.bmp => cache'.perm[u] = cache.perm[u]

\* What a step does to a user it is about.
Rightly(u) ==
  /\ "overlap" \notin mishaps' => ClaimOK(u)'
  /\ mishaps' \subseteq {"write"} => SafeOK(u)'
  /\ mishaps' = {} => ExactOK(u)'

LEMMA UntouchedKept ==
  ASSUME NEW u \in Users, Untouched(u)
  PROVE  /\ ClaimOK(u) => ClaimOK(u)'
         /\ SafeOK(u) => SafeOK(u)'
         /\ ExactOK(u) => ExactOK(u)'
  <1>1. /\ Templates' = DOMAIN sensor' /\ Enrolled' = cache'.bmp
        /\ Templates = DOMAIN sensor /\ Enrolled = cache.bmp
        /\ "enroll" \in Worker /\ Editor \subseteq Worker
    BY DEF Templates, Enrolled, Worker
  <1>2. Unclaimed(u)' <=> Unclaimed(u)
    BY DEF Unclaimed, Untouched
  <1>3. ClaimOK(u) => ClaimOK(u)'
    BY <1>1 DEF ClaimOK, Untouched
  <1>4. SafeOK(u) => SafeOK(u)'
    BY <1>1, <1>2 DEF SafeOK, Untouched
  <1>5. ExactOK(u) => ExactOK(u)'
    BY <1>1, <1>2 DEF ExactOK, Untouched
  <1>6. QED
    BY <1>3, <1>4, <1>5

\* It is enough to look at the users a step is about.
LEMMA UserByUser ==
  ASSUME CopiesInv, mishaps \subseteq mishaps',
         \A u \in Users : Untouched(u) \/ Rightly(u)
  PROVE  CopiesInv'
  <1>1. \A u \in Users :
          (/\ "overlap" \notin mishaps => ClaimOK(u)
           /\ mishaps \subseteq {"write"} => SafeOK(u)
           /\ mishaps = {} => ExactOK(u))
            => Rightly(u)
    BY UntouchedKept DEF Rightly
  <1>2. \A u \in Users : Rightly(u)
    BY <1>1 DEF CopiesInv, ClaimInv, SafeInv, ExactInv
  <1>3. QED
    BY <1>2 DEF Rightly, CopiesInv, ClaimInv, SafeInv, ExactInv

\* Without a clash nobody claims the users concerned.
LEMMA Unclash ==
  ASSUME NEW u \in Users, NEW S, u \in S, ~Clash(S)
  PROVE  Unclaimed(u)
  BY DEF Clash, Unrecorded, Unclaimed, Claims, Worker, Editor

\* A step of one editor leaves the claims of the other workers.
LEMMA EditorClaims ==
  ASSUME EditorType, NEW t \in Editor, NEW e, Goto(t, e), enroller' = enroller
  PROVE  \A u \in Users :
           /\ \A x \in Worker \ {t} : Claims(x, u)' <=> Claims(x, u)
           /\ Claims(t, u)' <=> \/ e.at \in {"forget", "note"} /\ e.user = u
                                \/ t = "zigbee" /\ e.at = "zero"
           /\ \A s \in Editor \ {t} : editor'[s] = editor[s]
           /\ editor'[t] = e
  <1>1. editor'[t] = e /\ \A s \in Editor \ {t} : editor'[s] = editor[s]
    BY OnlyStepped
  <1>2. t # "enroll" /\ t \in Worker
    BY DEF Editor, Worker
  <1>3. Stored' <=> Stored
    BY DEF Stored
  <1>4. QED
    BY <1>1, <1>2, <1>3 DEF Claims, Worker

\* A step that changes no copy, and by which no editor gains or gives up a claim.
LEMMA EditorQuiet ==
  ASSUME EditorType, NEW t \in Editor, NEW e, Goto(t, e),
         UNCHANGED <<sensor, cache, enroller>>,
         editor[t].at \notin {"forget", "note", "zero"},
         e.at \notin {"forget", "note", "zero"}
  PROVE  \A u \in Users : Untouched(u)
  <1> SUFFICES ASSUME NEW u \in Users PROVE Untouched(u)
    OBVIOUS
  <1>1. ~Claims(t, u) /\ ~Claims(t, u)'
    <2>1. t # "enroll"
      BY DEF Editor
    <2>2. QED
      BY <2>1, EditorClaims DEF Claims
  <1>2. \A x \in Worker : Claims(x, u)' <=> Claims(x, u)
    BY <1>1, EditorClaims
  <1>3. \A s \in Editor : Claims(s, u) => editor'[s] = editor[s]
    BY <1>1, EditorClaims
  <1>4. QED
    BY <1>2, <1>3 DEF Untouched

\* A step that changes no copy and no claim at all.
LEMMA NoneClaims ==
  ASSUME UNCHANGED <<sensor, cache, editor>>,
         Stored' <=> Stored,
         Stored => /\ enroller'.user = enroller.user /\ enroller'.perm = enroller.perm
                   /\ enroller'.at = "rollback" => enroller.at = "rollback"
  PROVE  \A u \in Users : Untouched(u)
  BY DEF Untouched, Claims

\* Stages change and the rest of a change stays.
LEMMA Moved ==
  ASSUME EditorType, NEW t \in Editor
  PROVE  /\ editor[t].at \in {"delete", "erase"} =>
              /\ editor[t].user \in Users
              /\ [editor[t] EXCEPT !.at = "erase"].at = "erase"
              /\ [editor[t] EXCEPT !.at = "forget"].at = "forget"
              /\ [editor[t] EXCEPT !.at = "forget"].user = editor[t].user
         /\ editor[t].at = "ask" => [editor[t] EXCEPT !.at = "emit"].at = "emit"
         /\ editor[t].at = "change" =>
              /\ editor[t].user \in Users
              /\ [editor[t] EXCEPT !.at = "note"].at = "note"
              /\ [editor[t] EXCEPT !.at = "note"].user = editor[t].user
              /\ [editor[t] EXCEPT !.at = "note"].perm = editor[t].perm
         /\ editor[t].at = "remote" => [editor[t] EXCEPT !.at = "kick"].at = "kick"
         /\ editor[t].at = "armed" =>
              [editor[t] EXCEPT !.at = editor[t].op].at
                \in {"local", "delete", "change", "remote"}
         /\ editor[t].at \in {"forget", "note"} => editor[t].user \in Users
  <1> DEFINE e == editor[t]
  <1>1. e \in EditorState
    BY DEF EditorType
  <1> HIDE DEF e
  <1>2. /\ e.at \in {"delete", "erase"} =>
             /\ e.user \in Users
             /\ [e EXCEPT !.at = "erase"].at = "erase"
             /\ [e EXCEPT !.at = "forget"].at = "forget"
             /\ [e EXCEPT !.at = "forget"].user = e.user
        /\ e.at = "ask" => [e EXCEPT !.at = "emit"].at = "emit"
        /\ e.at = "change" =>
             /\ e.user \in Users
             /\ [e EXCEPT !.at = "note"].at = "note"
             /\ [e EXCEPT !.at = "note"].user = e.user
             /\ [e EXCEPT !.at = "note"].perm = e.perm
        /\ e.at = "remote" => [e EXCEPT !.at = "kick"].at = "kick"
        /\ e.at = "armed" =>
             [e EXCEPT !.at = e.op].at \in {"local", "delete", "change", "remote"}
        /\ e.at \in {"forget", "note"} => e.user \in Users
    BY <1>1 DEF EditorState, Idle
  <1>3. QED
    BY <1>2 DEF e

-----------------------------------------------------------------------------
(* Steps about nobody: requests, guards, the way of an enrolment to its    *)
(* capture.                                                                *)

\* An editor that asks, tells or is admitted.
LEMMA EditorsTalk ==
  ASSUME EditorType, NEW t \in Editor, Ask(t) \/ EmitStart(t) \/ DeleteCheck(t)
  PROVE  \A u \in Users : Untouched(u)
  <1>1. UNCHANGED <<sensor, cache, enroller>>
    BY DEF Ask, EmitStart, DeleteCheck, record
  <1>2. editor[t].at \in {"ask", "emit", "delete"}
    BY DEF Ask, EmitStart, DeleteCheck
  <1>3. \E e : Goto(t, e) /\ e.at \in {"idle", "emit", "erase"}
    <2>1. Idle.at = "idle"
      BY DEF Idle
    <2>2. CASE Ask(t)
      <3>1. editor[t].at = "ask"
        BY <2>2 DEF Ask
      <3>2. [editor[t] EXCEPT !.at = "emit"].at = "emit"
        BY <3>1, Moved
      <3>3. QED
        BY <2>1, <2>2, <3>2 DEF Ask
    <2>3. CASE EmitStart(t)
      BY <2>1, <2>3 DEF EmitStart
    <2>4. CASE DeleteCheck(t)
      <3>1. editor[t].at = "delete"
        BY <2>4 DEF DeleteCheck
      <3>2. [editor[t] EXCEPT !.at = "erase"].at = "erase"
        BY <3>1, Moved
      <3>3. QED
        BY <2>1, <2>4, <3>2 DEF DeleteCheck
    <2>5. QED
      BY <2>2, <2>3, <2>4
  <1>4. QED
    BY <1>1, <1>2, <1>3, EditorQuiet

\* A change that begins, is authorized or denied, or starts the machine.
LEMMA ChangesBegin ==
  ASSUME EditorType,
         \/ SetupBegin \/ ZigbeeBegin \/ MatchArm \/ MatchClaim \/ MatchRemote
         \/ MatchKick \/ MatchLocal
  PROVE  \A u \in Users : Untouched(u)
  <1>1. UNCHANGED <<sensor, cache, enroller>>
    BY DEF SetupBegin, ZigbeeBegin, MatchArm, MatchClaim, MatchRemote, MatchKick,
           MatchLocal, record
  <1>2. Idle.at = "idle" /\ {"app", "zigbee", "match"} \subseteq Editor
    BY DEF Idle, Editor
  <1>3. CASE SetupBegin
    <2>1. \E e : Goto("app", e) /\ e.at = "ask"
      BY <1>3 DEF SetupBegin
    <2>2. editor["app"].at = "idle"
      BY <1>2, <1>3 DEF SetupBegin
    <2>3. QED
      BY <1>1, <1>2, <2>1, <2>2, EditorQuiet
  <1>4. CASE ZigbeeBegin
    <2>1. \E e : Goto("zigbee", e) /\ e.at \in {"delete", "ask", "clear"}
      <3>1. ASSUME NEW u \in Users, Goto("zigbee", [at |-> "delete", user |-> u])
            PROVE  \E e : Goto("zigbee", e) /\ e.at = "delete"
        BY <3>1
      <3>2. ASSUME NEW u \in Users, NEW p \in Granted,
                   Goto("zigbee", [at |-> "ask", user |-> u, perm |-> p])
            PROVE  \E e : Goto("zigbee", e) /\ e.at = "ask"
        BY <3>2
      <3>3. ASSUME Goto("zigbee", [at |-> "clear"])
            PROVE  \E e : Goto("zigbee", e) /\ e.at = "clear"
        BY <3>3
      <3>4. QED
        BY <1>4, <3>1, <3>2, <3>3 DEF ZigbeeBegin
    <2>2. editor["zigbee"].at = "idle"
      BY <1>2, <1>4 DEF ZigbeeBegin
    <2>3. QED
      BY <1>1, <1>2, <2>1, <2>2, EditorQuiet
  <1>5. CASE \/ MatchArm \/ MatchClaim \/ MatchRemote \/ MatchKick \/ MatchLocal
    <2>1. editor["match"].at \in {"idle", "armed", "remote", "kick", "local"}
      BY <1>2, <1>5 DEF MatchArm, MatchClaim, MatchRemote, MatchKick, MatchLocal
    <2>2. \E e : Goto("match", e)
             /\ e.at \in {"idle", "armed", "delete", "change", "remote", "local", "kick", "ask"}
      <3>1. CASE MatchArm
        BY <3>1 DEF MatchArm
      <3>2. CASE MatchClaim
        <4>1. editor["match"].at = "armed"
          BY <3>2 DEF MatchClaim
        <4>2. [editor["match"] EXCEPT !.at = editor["match"].op].at
                \in {"local", "delete", "change", "remote"}
          BY <1>2, <4>1, Moved
        <4>3. QED
          BY <1>2, <3>2, <4>2 DEF MatchClaim
      <3>3. CASE MatchRemote
        <4>1. editor["match"].at = "remote"
          BY <3>3 DEF MatchRemote
        <4>2. [editor["match"] EXCEPT !.at = "kick"].at = "kick"
          BY <1>2, <4>1, Moved
        <4>3. QED
          BY <1>2, <3>3, <4>2 DEF MatchRemote
      <3>4. CASE MatchKick
        BY <1>2, <3>4 DEF MatchKick
      <3>5. CASE MatchLocal
        <4>1. ASSUME NEW u \in Users,
                     Goto("match", [at |-> "ask", user |-> u, perm |-> "admin"])
              PROVE  \E e : Goto("match", e) /\ e.at = "ask"
          BY <4>1
        <4>2. QED
          BY <1>2, <3>5, <4>1 DEF MatchLocal
      <3>6. QED
        BY <1>5, <3>1, <3>2, <3>3, <3>4, <3>5
    <2>3. QED
      BY <1>1, <1>2, <2>1, <2>2, EditorQuiet
  <1>6. QED
    BY <1>3, <1>4, <1>5

\* When a fault other than a write's is on the books, a worker may give up its
\* claim or keep it.
LEMMA Abandoned ==
  ASSUME NEW u \in Users, ClaimInv, mishaps \subseteq mishaps',
         ~(mishaps' \subseteq {"write"}),
         \A x \in Worker : Claims(x, u)' => Claims(x, u),
         \A t \in Editor : Claims(t, u)' => editor'[t].at = editor[t].at,
         u \in cache'.bmp <=> u \in cache.bmp
  PROVE  Rightly(u)
  <1>1. mishaps' # {}
    OBVIOUS
  <1>2. ClaimOK(u) => ClaimOK(u)'
    BY DEF ClaimOK, Enrolled, Worker
  <1>3. QED
    BY <1>1, <1>2 DEF Rightly, ClaimInv

\* The enroll task outside the last capture and what follows it, the router and
\* the timer.
LEMMA EnrolmentRuns ==
  ASSUME MachineType, AppliesToItsOwn,
         \/ EnrolTake \/ EnrolBegin \/ EnrolSnapshot \/ EnrolFail
         \/ EnrolApply /\ ~Missed
         \/ Dispatch \/ TimerFire
  PROVE  \A u \in Users : Untouched(u)
  <1>1. UNCHANGED <<sensor, cache, editor>>
    BY DEF EnrolTake, EnrolBegin, EnrolSnapshot, EnrolApply, EnrolFail, Dispatch,
           TimerFire, record
  <1>2. Idle.at = "idle"
    BY DEF Idle
  <1>3. CASE EnrolTake \/ EnrolBegin \/ EnrolSnapshot \/ EnrolFail
    <2>1. enroller.at \in {"idle", "begin", "step", "fail"}
      BY <1>2, <1>3 DEF EnrolTake, EnrolBegin, EnrolSnapshot, EnrolFail
    <2>2. enroller'.at \in {"idle", "begin", "step", "scan"}
      BY <1>2, <1>3 DEF EnrolTake, EnrolBegin, EnrolSnapshot, EnrolFail
    <2>3. QED
      BY <1>1, <2>1, <2>2, NoneClaims DEF Stored
  <1>4. CASE EnrolApply /\ ~Missed
    <2>1. enroller.at = "apply" /\ sm.step = enroller.step
      BY <1>4, Zenon DEF EnrolApply, AppliesToItsOwn
    <2>2. CASE Active /\ enroller.result = "OK" /\ sm.step = 3
      <3>1. enroller' = [at |-> "commit", user |-> enroller.user, perm |-> enroller.perm]
        BY <1>4, <2>2 DEF EnrolApply, Retriable
      <3>2. QED
        BY <1>1, <2>1, <2>2, <3>1, NoneClaims DEF Stored
    <2>3. CASE ~(Active /\ enroller.result = "OK" /\ sm.step = 3)
      <3>1. enroller'.at \in {"idle", "fail"} 
        BY <1>2, <1>4, <2>3 DEF EnrolApply
      <3>2. ~Stored
        BY <2>1, <2>3 DEF Stored, Active
      <3>3. QED
        BY <1>1, <3>1, <3>2, NoneClaims DEF Stored
    <2>4. QED
      BY <2>2, <2>3
  <1>5. CASE Dispatch \/ TimerFire
    <2>1. UNCHANGED enroller
      BY <1>5 DEF Dispatch, TimerFire
    <2>2. QED
      BY <1>1, <2>1, NoneClaims DEF Stored
  <1>6. QED
    BY <1>3, <1>4, <1>5

-----------------------------------------------------------------------------
(* Steps about a user: the sensor operation that makes a claim, and the    *)
(* record or the rollback that ends it.                                    *)

LEMMA Erased ==
  ASSUME NEW S, EraseTemplates(S)
  PROVE  /\ \A v : v \notin S => /\ v \in DOMAIN sensor' <=> v \in DOMAIN sensor
                                 /\ v \in DOMAIN sensor => sensor'[v] = sensor[v]
         /\ \A v \in S : v \notin DOMAIN sensor'
  BY DEF EraseTemplates, Templates

LEMMA StoredAt ==
  ASSUME NEW u, NEW p, StoreTemplate(u, p)
  PROVE  /\ \A v : v # u => /\ v \in DOMAIN sensor' <=> v \in DOMAIN sensor
                            /\ v \in DOMAIN sensor => sensor'[v] = sensor[v]
         /\ u \in DOMAIN sensor' /\ sensor'[u] = p
  BY DEF StoreTemplate, Templates

\* A step of an editor on users it has no claim on and does not change.
LEMMA EditorUntouched ==
  ASSUME EditorType, NEW t \in Editor, NEW e, Goto(t, e), enroller' = enroller,
         NEW u \in Users, ~Claims(t, u), ~Claims(t, u)',
         u \in DOMAIN sensor' <=> u \in DOMAIN sensor,
         u \in DOMAIN sensor => sensor'[u] = sensor[u],
         u \in cache'.bmp <=> u \in cache.bmp,
         u \in cache.bmp => cache'.perm[u] = cache.perm[u]
  PROVE  Untouched(u)
  <1>1. \A x \in Worker : Claims(x, u)' <=> Claims(x, u)
    BY EditorClaims
  <1>2. \A s \in Editor : Claims(s, u) => editor'[s] = editor[s]
    BY EditorClaims
  <1>3. QED
    BY <1>1, <1>2 DEF Untouched

\* An editor that gives up a claim, or fails to make one, when a fault other
\* than a write's is on the books.
LEMMA EditorAbandons ==
  ASSUME EditorType, ClaimInv, mishaps \subseteq mishaps', ~(mishaps' \subseteq {"write"}),
         NEW t \in Editor, Goto(t, Idle), UNCHANGED <<cache, enroller>>
  PROVE  \A u \in Users : Rightly(u)
  <1>1. SUFFICES ASSUME NEW u \in Users PROVE Rightly(u)
    OBVIOUS
  <1>2. Idle.at = "idle" /\ t \in Worker
    BY DEF Idle, Worker
  <1>3. ~Claims(t, u)'
    BY <1>2, EditorClaims
  <1>4. \A x \in Worker : Claims(x, u)' => Claims(x, u)
    BY <1>3, EditorClaims
  <1>5. \A s \in Editor : Claims(s, u)' => editor'[s].at = editor[s].at
    BY <1>3, EditorClaims
  <1>6. QED
    BY <1>4, <1>5, Abandoned

\* Making a claim without a clash makes the only one.
LEMMA EditorOnly ==
  ASSUME EditorType, NEW t \in Editor, NEW e, Goto(t, e), enroller' = enroller,
         NEW u \in Users, Unclaimed(u), Claims(t, u)'
  PROVE  /\ \A x \in Worker : Claims(x, u)' <=> x = t
         /\ editor'[t] = e
  BY EditorClaims DEF Unclaimed, Worker

\* Ending the only claim leaves none.
LEMMA EditorDone ==
  ASSUME EditorType, NEW t \in Editor, Goto(t, Idle), enroller' = enroller,
         NEW u \in Users, ClaimOK(u), Claims(t, u)
  PROVE  \A x \in Worker : ~Claims(x, u)'
  <1>1. Idle.at = "idle" /\ t \in Worker
    BY DEF Idle, Worker
  <1>2. ~Claims(t, u)'
    BY <1>1, EditorClaims
  <1>3. \A x \in Worker \ {t} : ~Claims(x, u)
    BY <1>1 DEF ClaimOK
  <1>4. QED
    BY <1>2, <1>3, EditorClaims

\* A fault of another kind than a write, or an overlap, is on the books.
LEMMA Spoilt ==
  ASSUME NEW m, Mishandled(m), m # "write"
  PROVE  /\ ~(mishaps' \subseteq {"write"}) /\ mishaps' # {}
         /\ m = "overlap" => \A u \in Users : Rightly(u)
  BY DEF Mishandled, Rightly

\* The template of a deletion: the user is claimed, on record, without template.
LEMMA DeleteErases ==
  ASSUME TypeOK, CopiesInv, Next, NEW t \in Editor, DeleteErase(t)
  PROVE  \A v \in Users : Untouched(v) \/ Rightly(v)
  <1>1. /\ EditorType /\ ClaimInv /\ mishaps \subseteq mishaps'
        /\ enroller' = enroller /\ cache' = cache /\ editor[t].at = "erase"
    BY MishapsKept DEF TypeOK, CopiesInv, DeleteErase, record
  <1>2. PICK u \in Users : u = editor[t].user
    BY <1>1, Moved
  <1>3. PICK e : e = [editor[t] EXCEPT !.at = "forget"]
    OBVIOUS
  <1>4. e.at = "forget" /\ e.user = u
    BY <1>1, <1>2, <1>3, Moved
  <1> DEFINE clash == Clash({u}) \/ u \notin Enrolled
  <1>5. \/ EraseTemplates({u}) /\ Goto(t, e) /\ Overlapping(clash)
        \/ UNCHANGED sensor /\ Goto(t, Idle)
        \/ Goto(t, Idle) /\ Mishandled("reply")
    BY <1>2, <1>3 DEF DeleteErase, Operate
  <1>6. CASE UNCHANGED sensor /\ Goto(t, Idle)
    BY <1>1, <1>6, EditorQuiet DEF Idle
  <1>7. CASE Goto(t, Idle) /\ Mishandled("reply")
    BY <1>1, <1>7, Spoilt, EditorAbandons
  <1>8. CASE EraseTemplates({u}) /\ Goto(t, e) /\ Overlapping(clash)
    <2>1. CASE clash
      BY <1>8, <2>1, Spoilt DEF Overlapping
    <2>2. CASE ~clash
      <3>1. ASSUME NEW v \in Users, v # u PROVE Untouched(v)
        <4>1. ~Claims(t, v)
          BY <1>1 DEF Claims, Editor
        <4>2. ~Claims(t, v)'
          BY <1>1, <1>4, <1>8, <3>1, EditorClaims
        <4>3. QED
          BY <1>1, <1>8, <3>1, <4>1, <4>2, Erased, EditorUntouched
      <3>2. Claims(t, u)'
        BY <1>1, <1>4, <1>8, EditorClaims
      <3>3. Unclaimed(u)
        BY <1>4, <2>2, Unclash
      <3>4. (\A x \in Worker : Claims(x, u)' <=> x = t) /\ editor'[t] = e
        BY <1>1, <1>4, <1>8, <3>2, <3>3, EditorOnly
      <3>5. u \notin DOMAIN sensor' /\ u \in cache'.bmp /\ t # "enroll" /\ t \in Worker
        BY <1>1, <1>8, <2>2, Erased DEF Enrolled, Editor, Worker
      <3>6. ClaimOK(u)' /\ SafeOK(u)' /\ ExactOK(u)'
        BY <1>4, <3>4, <3>5
        DEF ClaimOK, SafeOK, ExactOK, Unclaimed, Templates, Enrolled, Worker
      <3>7. QED
        BY <3>1, <3>6 DEF Rightly
    <2>3. QED
      BY <2>1, <2>2
  <1>9. QED
    BY <1>5, <1>6, <1>7, <1>8

\* Its record, saved or taken back.
LEMMA DeleteForgets ==
  ASSUME TypeOK, CopiesInv, Next, NEW t \in Editor, DeleteForget(t)
  PROVE  \A v \in Users : Untouched(v) \/ Rightly(v)
  <1>1. /\ EditorType /\ ClaimInv /\ mishaps \subseteq mishaps' /\ Goto(t, Idle)
        /\ enroller' = enroller /\ sensor' = sensor /\ editor[t].at = "forget"
    BY MishapsKept DEF TypeOK, CopiesInv, DeleteForget
  <1>2. t \in Worker /\ t # "enroll"
    BY DEF Worker, Editor
  <1> PICK u \in Users : u = editor[t].user
    BY <1>1, Moved
  <1>7. Claims(t, u)
    BY <1>1, <1>2 DEF Claims
  <1>3. \/ cache' = Without(u)
        \/ cache' = [cache EXCEPT !.bmp = @ \cup {u}] /\ Mishandled("write")
        \/ Missed /\ cache' = cache
    BY DEF DeleteForget, Persisted, PersistFailed, record
  <1>4. CASE Missed /\ cache' = cache
    <2>1. ~(mishaps' \subseteq {"write"})
      BY <1>4, Spoilt DEF Missed
    <2>2. QED
      BY <1>1, <1>4, <2>1, EditorAbandons
  <1>5. CASE \/ cache' = Without(u)
             \/ cache' = [cache EXCEPT !.bmp = @ \cup {u}] /\ Mishandled("write")
    <2>1. cache.perm \in [Users -> Permission] /\ cache \in Account
      BY DEF TypeOK, CopiesType, Account
    <2>2. /\ cache'.perm = cache.perm
          /\ \A v : v # u => (v \in cache'.bmp <=> v \in cache.bmp)
          /\ u \in cache'.bmp => Mishandled("write")
      BY <1>5, <2>1 DEF Without, Account
    <2>3. ASSUME NEW v \in Users, v # u PROVE Untouched(v)
      <3>1. ~Claims(t, v)
        BY <1>1, <1>2, <2>3 DEF Claims
      <3>2. ~Claims(t, v)'
        BY <1>1, EditorClaims DEF Idle
      <3>3. QED
        BY <1>1, <2>2, <2>3, <3>1, <3>2, EditorUntouched
    <2>4. ASSUME "overlap" \notin mishaps' PROVE \A x \in Worker : ~Claims(x, u)'
      BY <1>1, <1>7, <2>4, EditorDone DEF ClaimInv
    <2>5. "overlap" \notin mishaps' => ClaimOK(u)'
      BY <2>4 DEF ClaimOK, Worker
    <2>6. mishaps' \subseteq {"write"} => u \notin DOMAIN sensor'
      BY <1>1, <1>2, <1>7 DEF CopiesInv, SafeInv, SafeOK, Templates
    <2>7. Templates' = DOMAIN sensor' /\ Enrolled' = cache'.bmp
      BY DEF Templates, Enrolled
    <2>8. mishaps' \subseteq {"write"} => SafeOK(u)'
      BY <2>4, <2>6, <2>7 DEF SafeOK, Worker
    <2>9. mishaps' = {} => ExactOK(u)'
      <3>1. Mishandled("write") => mishaps' # {}
        BY DEF Mishandled
      <3>2. QED
        BY <2>2, <2>4, <2>6, <2>7, <3>1 DEF ExactOK, Worker
    <2>10. QED
      BY <2>3, <2>5, <2>8, <2>9 DEF Rightly
  <1>6. QED
    BY <1>3, <1>4, <1>5

\* The templates of a wipe: every user is claimed.
LEMMA WipeErases ==
  ASSUME TypeOK, CopiesInv, Next, ZigbeeClear
  PROVE  \A v \in Users : Untouched(v) \/ Rightly(v)
  <1> DEFINE t == "zigbee"
             e == [at |-> "zero"]
  <1>1. /\ EditorType /\ ClaimInv /\ mishaps \subseteq mishaps' /\ t \in Editor
        /\ enroller' = enroller /\ cache' = cache /\ editor[t].at = "clear"
        /\ t \in Worker /\ t # "enroll"
    BY MishapsKept DEF TypeOK, CopiesInv, ZigbeeClear, record, Editor, Worker
  <1>2. \/ EraseTemplates(Users) /\ Goto(t, e) /\ Overlapping(Clash(Users))
        \/ UNCHANGED sensor /\ Goto(t, Idle)
        \/ Goto(t, Idle) /\ Mishandled("reply")
    BY DEF ZigbeeClear, Operate
  <1>3. e.at = "zero"
    OBVIOUS
  <1> HIDE DEF e
  <1>4. CASE UNCHANGED sensor /\ Goto(t, Idle)
    BY <1>1, <1>4, EditorQuiet DEF Idle
  <1>5. CASE Goto(t, Idle) /\ Mishandled("reply")
    BY <1>1, <1>5, Spoilt, EditorAbandons
  <1>6. CASE EraseTemplates(Users) /\ Goto(t, e) /\ Overlapping(Clash(Users))
    <2>1. CASE Clash(Users)
      BY <1>6, <2>1, Spoilt DEF Overlapping
    <2>2. CASE ~Clash(Users)
      <3> SUFFICES ASSUME NEW u \in Users PROVE Rightly(u)
        OBVIOUS
      <3>1. Claims(t, u)'
        BY <1>1, <1>3, <1>6, EditorClaims
      <3>2. Unclaimed(u)
        BY <2>2, Unclash
      <3>3. (\A x \in Worker : Claims(x, u)' <=> x = t) /\ editor'[t] = e
        BY <1>1, <1>6, <3>1, <3>2, EditorOnly
      <3>4. u \notin DOMAIN sensor'
        BY <1>6, Erased
      <3>5. ClaimOK(u)' /\ SafeOK(u)' /\ ExactOK(u)'
        BY <1>1, <1>3, <3>3, <3>4
        DEF ClaimOK, SafeOK, ExactOK, Unclaimed, Templates, Enrolled, Worker
      <3>6. QED
        BY <3>5 DEF Rightly
    <2>3. QED
      BY <2>1, <2>2
  <1>7. QED
    BY <1>2, <1>4, <1>5, <1>6

\* Its record.
LEMMA WipeForgets ==
  ASSUME TypeOK, CopiesInv, Next, ZigbeeZero
  PROVE  \A v \in Users : Untouched(v) \/ Rightly(v)
  <1> DEFINE t == "zigbee"
  <1>1. /\ EditorType /\ ClaimInv /\ mishaps \subseteq mishaps' /\ Goto(t, Idle)
        /\ enroller' = enroller /\ sensor' = sensor /\ editor[t].at = "zero"
        /\ t \in Editor /\ t \in Worker /\ t # "enroll"
    BY MishapsKept DEF TypeOK, CopiesInv, ZigbeeZero, Editor, Worker
  <1>2. \/ cache' = Blank
        \/ cache' = cache /\ Mishandled("write")
        \/ Missed /\ cache' = cache
    BY DEF ZigbeeZero, Persisted, PersistFailed, record
  <1>3. CASE Missed /\ cache' = cache
    <2>1. ~(mishaps' \subseteq {"write"})
      BY <1>3, Spoilt DEF Missed
    <2>2. QED
      BY <1>1, <1>3, <2>1, EditorAbandons
  <1>4. CASE \/ cache' = Blank
             \/ cache' = cache /\ Mishandled("write")
    <2> SUFFICES ASSUME NEW u \in Users PROVE Rightly(u)
      OBVIOUS
    <2>1. Claims(t, u)
      BY <1>1 DEF Claims
    <2>2. ASSUME "overlap" \notin mishaps' PROVE \A x \in Worker : ~Claims(x, u)'
      BY <1>1, <2>1, <2>2, EditorDone DEF ClaimInv
    <2>3. "overlap" \notin mishaps' => ClaimOK(u)'
      BY <2>2 DEF ClaimOK, Worker
    <2>4. mishaps' \subseteq {"write"} => u \notin DOMAIN sensor'
      BY <1>1, <2>1 DEF CopiesInv, SafeInv, SafeOK, Templates
    <2>5. Templates' = DOMAIN sensor' /\ Enrolled' = cache'.bmp
      BY DEF Templates, Enrolled
    <2>6. mishaps' \subseteq {"write"} => SafeOK(u)'
      BY <2>2, <2>4, <2>5 DEF SafeOK, Worker
    <2>7. mishaps' = {} => ExactOK(u)'
      <3>1. mishaps' = {} => u \notin cache'.bmp
        BY <1>4 DEF Mishandled, Blank
      <3>2. QED
        BY <2>2, <2>4, <2>5, <3>1 DEF ExactOK, Worker
    <2>8. QED
      BY <2>3, <2>6, <2>7 DEF Rightly
  <1>5. QED
    BY <1>2, <1>3, <1>4

\* The template of a changed permission: the user is claimed and on record.
LEMMA ChangeStores ==
  ASSUME TypeOK, CopiesInv, Next, MatchChange
  PROVE  \A v \in Users : Untouched(v) \/ Rightly(v)
  <1> DEFINE t == "match"
  <1>1. /\ EditorType /\ ClaimInv /\ mishaps \subseteq mishaps' /\ t \in Editor
        /\ enroller' = enroller /\ cache' = cache /\ editor[t].at = "change"
        /\ t \in Worker /\ t # "enroll" /\ t # "zigbee"
    BY MishapsKept DEF TypeOK, CopiesInv, MatchChange, record, Editor, Worker
  <1>2. PICK u \in Users : u = editor[t].user
    BY <1>1, Moved
  <1>3. PICK p : p = editor[t].perm
    OBVIOUS
  <1>4. PICK e : e = [editor[t] EXCEPT !.at = "note"]
    OBVIOUS
  <1>5. e.at = "note" /\ e.user = u /\ e.perm = p
    BY <1>1, <1>2, <1>3, <1>4, Moved
  <1>6. \/ /\ u \in Templates /\ StoreTemplate(u, p)
           /\ Goto(t, e) /\ Overlapping(Clash({u}))
        \/ UNCHANGED sensor /\ Goto(t, Idle)
        \/ Goto(t, Idle) /\ Mishandled("reply")
    BY <1>2, <1>3, <1>4 DEF MatchChange, Operate
  <1>7. CASE UNCHANGED sensor /\ Goto(t, Idle)
    BY <1>1, <1>7, EditorQuiet DEF Idle
  <1>8. CASE Goto(t, Idle) /\ Mishandled("reply")
    BY <1>1, <1>8, Spoilt, EditorAbandons
  <1>9. CASE /\ u \in Templates /\ StoreTemplate(u, p)
             /\ Goto(t, e) /\ Overlapping(Clash({u}))
    <2>1. CASE Clash({u})
      BY <1>9, <2>1, Spoilt DEF Overlapping
    <2>2. CASE ~Clash({u})
      <3>1. ASSUME NEW v \in Users, v # u PROVE Untouched(v)
        <4>1. ~Claims(t, v)
          BY <1>1 DEF Claims, Editor
        <4>2. ~Claims(t, v)'
          BY <1>1, <1>5, <1>9, <3>1, EditorClaims
        <4>3. QED
          BY <1>1, <1>9, <3>1, <4>1, <4>2, StoredAt, EditorUntouched
      <3>2. Claims(t, u)'
        BY <1>1, <1>5, <1>9, EditorClaims
      <3>3. Unclaimed(u)
        BY <2>2, Unclash
      <3>4. (\A x \in Worker : Claims(x, u)' <=> x = t) /\ editor'[t] = e
        BY <1>1, <1>9, <3>2, <3>3, EditorOnly
      <3>5. u \in DOMAIN sensor' /\ sensor'[u] = p
        BY <1>9, StoredAt
      <3>6. mishaps' \subseteq {"write"} => u \in cache'.bmp
        BY <1>1, <1>9, <3>3 DEF CopiesInv, SafeInv, SafeOK, Enrolled
      <3>7. ClaimOK(u)'
        BY <1>1, <1>5, <3>4 DEF ClaimOK, Enrolled, Worker
      <3>8. mishaps' \subseteq {"write"} => SafeOK(u)'
        BY <1>1, <1>5, <3>4, <3>6 DEF SafeOK, Unclaimed, Enrolled, Worker
      <3>9. ExactOK(u)'
        BY <1>1, <1>5, <3>4, <3>5 DEF ExactOK, Unclaimed, Templates, Worker
      <3>10. QED
        BY <3>1, <3>7, <3>8, <3>9 DEF Rightly
    <2>3. QED
      BY <2>1, <2>2
  <1>10. QED
    BY <1>6, <1>7, <1>8, <1>9

\* Its record.
LEMMA ChangeNotes ==
  ASSUME TypeOK, CopiesInv, Next, MatchNote
  PROVE  \A v \in Users : Untouched(v) \/ Rightly(v)
  <1> DEFINE t == "match"
  <1>1. /\ EditorType /\ ClaimInv /\ mishaps \subseteq mishaps' /\ Goto(t, Idle)
        /\ enroller' = enroller /\ sensor' = sensor /\ editor[t].at = "note"
        /\ t \in Editor /\ t \in Worker /\ t # "enroll" /\ t # "zigbee"
    BY MishapsKept DEF TypeOK, CopiesInv, MatchNote, Editor, Worker
  <1>2. PICK u \in Users : u = editor[t].user
    BY <1>1, Moved
  <1>3. PICK p : p = editor[t].perm
    OBVIOUS
  <1>4. Claims(t, u)
    BY <1>1, <1>2 DEF Claims
  <1>5. \/ cache' = Changed(u, p)
        \/ cache' = cache /\ Mishandled("write")
        \/ Missed /\ cache' = cache
    BY <1>2, <1>3 DEF MatchNote, Persisted, PersistFailed, record
  <1>6. CASE Missed /\ cache' = cache
    <2>1. ~(mishaps' \subseteq {"write"})
      BY <1>6, Spoilt DEF Missed
    <2>2. QED
      BY <1>1, <1>6, <2>1, EditorAbandons
  <1>7. CASE \/ cache' = Changed(u, p)
             \/ cache' = cache /\ Mishandled("write")
    <2>1. cache.perm \in [Users -> Permission] /\ cache \in Account
      BY DEF TypeOK, CopiesType, Account
    <2>2. /\ cache'.bmp = cache.bmp
          /\ \A v \in Users : v # u => cache'.perm[v] = cache.perm[v]
          /\ cache'.perm[u] = p \/ Mishandled("write")
      BY <1>7, <2>1 DEF Changed, Account
    <2>3. ASSUME NEW v \in Users, v # u PROVE Untouched(v)
      <3>1. ~Claims(t, v)
        BY <1>1, <1>2, <2>3 DEF Claims
      <3>2. ~Claims(t, v)'
        BY <1>1, EditorClaims DEF Idle
      <3>3. QED
        BY <1>1, <2>2, <2>3, <3>1, <3>2, EditorUntouched
    <2>4. ASSUME "overlap" \notin mishaps' PROVE \A x \in Worker : ~Claims(x, u)'
      BY <1>1, <1>4, <2>4, EditorDone DEF ClaimInv
    <2>5. "overlap" \notin mishaps' => ClaimOK(u)'
      BY <2>4 DEF ClaimOK, Worker
    <2>6. mishaps' \subseteq {"write"} => u \in cache'.bmp
      BY <1>1, <1>4, <2>2 DEF CopiesInv, SafeInv, SafeOK, Enrolled
    <2>7. Templates' = DOMAIN sensor' /\ Enrolled' = cache'.bmp
      BY DEF Templates, Enrolled
    <2>8. mishaps' \subseteq {"write"} => SafeOK(u)'
      BY <2>4, <2>6, <2>7 DEF SafeOK, Worker
    <2>9. mishaps' = {} => ExactOK(u)'
      <3>1. mishaps' = {} => cache'.perm[u] = p
        BY <2>2 DEF Mishandled
      <3>2. mishaps' = {} => u \in DOMAIN sensor' /\ sensor'[u] = p
        BY <1>1, <1>3, <1>4 DEF CopiesInv, ExactInv, ExactOK, Templates
      <3>3. QED
        BY <2>4, <2>6, <2>7, <3>1, <3>2 DEF ExactOK, Worker
    <2>10. QED
      BY <2>3, <2>5, <2>8, <2>9 DEF Rightly
  <1>8. QED
    BY <1>5, <1>6, <1>7

\* The third capture: the user is claimed, not on record, with a template.
LEMMA CaptureStores ==
  ASSUME TypeOK, CopiesInv, Next, EnrolScan
  PROVE  \A v \in Users : Untouched(v) \/ Rightly(v)
  <1>1. /\ MachineType /\ ClaimInv /\ mishaps \subseteq mishaps' /\ enroller.at = "scan"
        /\ editor' = editor /\ cache' = cache /\ ~Stored
    BY MishapsKept DEF TypeOK, CopiesInv, EnrolScan, record, Stored
  <1>2. PICK u \in Users : u = enroller.user
    BY <1>1 DEF MachineType, EnrollerState, Idle
  <1>3. PICK p : p = enroller.perm
    OBVIOUS
  <1>4. \A r : Scanned(r) => /\ enroller'.at = "apply" /\ enroller'.step = enroller.step
                             /\ enroller'.user = u /\ enroller'.perm = p
                             /\ enroller'.result = r
    BY <1>2, <1>3 DEF Scanned
  <1>5. \/ enroller.step # 3 /\ UNCHANGED sensor /\ Scanned("OK")
        \/ UNCHANGED sensor /\ \E r \in {"FAILED", "ERROR"} : Scanned(r)
        \/ Scanned("ERROR") /\ Mishandled("reply")
        \/ /\ enroller.step = 3 /\ StoreTemplate(u, p) /\ Scanned("OK")
           /\ Overlapping(Clash({u}) \/ u \in Enrolled)
    BY <1>2, <1>3 DEF EnrolScan
  <1>6. CASE enroller.step # 3 /\ UNCHANGED sensor /\ Scanned("OK")
    BY <1>1, <1>4, <1>6, NoneClaims DEF Stored
  <1>7. CASE UNCHANGED sensor /\ \E r \in {"FAILED", "ERROR"} : Scanned(r)
    BY <1>1, <1>4, <1>7, NoneClaims DEF Stored
  <1>8. CASE Scanned("ERROR") /\ Mishandled("reply")
    <2>1. ~Stored'
      BY <1>4, <1>8 DEF Stored
    <2>2. \A v \in Users, x \in Worker : Claims(x, v)' => Claims(x, v)
      BY <1>1, <2>1 DEF Claims
    <2>3. QED
      BY <1>1, <1>8, <2>2, Spoilt, Abandoned
  <1>9. CASE /\ enroller.step = 3 /\ StoreTemplate(u, p) /\ Scanned("OK")
             /\ Overlapping(Clash({u}) \/ u \in Enrolled)
    <2>1. CASE Clash({u}) \/ u \in Enrolled
      BY <1>9, <2>1, Spoilt DEF Overlapping
    <2>2. CASE ~(Clash({u}) \/ u \in Enrolled)
      <3>1. /\ enroller'.at = "apply" /\ enroller'.step = 3 /\ enroller'.user = u
            /\ enroller'.perm = p /\ enroller'.result = "OK"
        BY <1>4, <1>9
      <3>2. \A v \in Users : Claims("enroll", v)' <=> v = u
        BY <3>1 DEF Claims, Stored
      <3>3. \A v \in Users, t \in Editor : Claims(t, v)' <=> Claims(t, v)
        BY <1>1 DEF Claims, Editor
      <3>4. ASSUME NEW v \in Users, v # u PROVE Untouched(v)
        <4>1. ~Claims("enroll", v)
          BY <1>1 DEF Claims
        <4>2. \A x \in Worker : Claims(x, v)' <=> Claims(x, v)
          BY <3>2, <3>3, <3>4, <4>1 DEF Worker
        <4>3. QED
          BY <1>1, <1>9, <3>4, <4>1, <4>2, StoredAt DEF Untouched
      <3>5. Unclaimed(u)
        BY <2>2, Unclash
      <3>6. \A x \in Worker : Claims(x, u)' <=> x = "enroll"
        BY <3>2, <3>3, <3>5 DEF Unclaimed, Worker, Editor
      <3>7. u \in DOMAIN sensor' /\ sensor'[u] = p /\ u \notin cache'.bmp
        BY <1>1, <1>9, <2>2, StoredAt DEF Enrolled
      <3>8. "enroll" \notin Editor
        BY DEF Editor
      <3>9. ClaimOK(u)' /\ SafeOK(u)' /\ ExactOK(u)'
        BY <3>1, <3>6, <3>7, <3>8
        DEF ClaimOK, SafeOK, ExactOK, Unclaimed, Templates, Enrolled, Worker
      <3>10. QED
        BY <3>4, <3>9 DEF Rightly
    <2>3. QED
      BY <2>1, <2>2
  <1>10. QED
    BY <1>5, <1>6, <1>7, <1>8, <1>9

\* A result that cannot be applied leaves a template of which nobody knows.
LEMMA ResultLost ==
  ASSUME TypeOK, CopiesInv, AppliesToItsOwn, Next, EnrolApply, Missed
  PROVE  \A v \in Users : Rightly(v)
  <1>1. /\ ClaimInv /\ mishaps \subseteq mishaps' /\ ~(mishaps' \subseteq {"write"})
        /\ editor' = editor /\ cache' = cache
    BY MishapsKept, Spoilt DEF CopiesInv, EnrolApply, record, Missed
  <1>2. enroller.at = "apply" /\ sm.step = enroller.step
    BY DEF EnrolApply, AppliesToItsOwn
  <1>3. \A v \in Users : Claims("enroll", v)' => Claims("enroll", v)
    <2>1. CASE Active /\ enroller.result = "OK" /\ sm.step = 3
      <3>1. \/ enroller' = [at |-> "commit", user |-> enroller.user, perm |-> enroller.perm]
            \/ enroller' = Idle
        BY <2>1 DEF EnrolApply, Retriable
      <3>2. QED
        BY <1>2, <2>1, <3>1 DEF Claims, Stored, Idle
    <2>2. CASE ~(Active /\ enroller.result = "OK" /\ sm.step = 3)
      <3>1. enroller'.at \in {"idle", "fail"}
        BY <2>2 DEF EnrolApply, Idle
      <3>2. QED
        BY <3>1 DEF Claims, Stored
    <2>3. QED
      BY <2>1, <2>2
  <1>4. \A v \in Users, x \in Worker : Claims(x, v)' => Claims(x, v)
    BY <1>1, <1>3 DEF Claims, Worker, Editor
  <1>5. QED
    BY <1>1, <1>4, Abandoned

\* A step of the enroll task is about the user it enrols.
LEMMA EnrollerUntouched ==
  ASSUME Stored, editor' = editor, NEW v \in Users, enroller.user # v,
         Stored' => enroller'.user = enroller.user,
         v \in DOMAIN sensor' <=> v \in DOMAIN sensor,
         v \in DOMAIN sensor => sensor'[v] = sensor[v],
         v \in cache'.bmp <=> v \in cache.bmp,
         v \in cache.bmp => cache'.perm[v] = cache.perm[v]
  PROVE  Untouched(v)
  <1>1. ~Claims("enroll", v) /\ ~Claims("enroll", v)'
    BY DEF Claims
  <1>2. \A t \in Editor : Claims(t, v)' <=> Claims(t, v)
    BY DEF Claims, Editor
  <1>3. QED
    BY <1>1, <1>2 DEF Untouched, Worker

\* The record of an enrolment, saved or taken back for the rollback.
LEMMA EnrolmentCommits ==
  ASSUME TypeOK, CopiesInv, Next, EnrolCommit
  PROVE  \A v \in Users : Untouched(v) \/ Rightly(v)
  <1>1. /\ MachineType /\ ClaimInv /\ mishaps \subseteq mishaps' /\ enroller.at = "commit"
        /\ editor' = editor /\ sensor' = sensor /\ Stored
    BY MishapsKept DEF TypeOK, CopiesInv, EnrolCommit, Stored
  <1>2. PICK u \in Users : u = enroller.user
    BY <1>1 DEF MachineType, EnrollerState, Idle
  <1>3. PICK p : p = enroller.perm
    OBVIOUS
  <1>4. Claims("enroll", u) /\ "enroll" \in Worker /\ "enroll" \notin Editor
    BY <1>1, <1>2 DEF Claims, Worker, Editor
  <1>5. \/ cache' = With(u, p) /\ enroller' = Idle
        \/ cache' = Undone(u, p) /\ Mishandled("write") /\ enroller' = RollBack
        \/ Missed /\ cache' = cache /\ enroller' = RollBack
    BY <1>2, <1>3 DEF EnrolCommit, Persisted, PersistFailed, record
  <1>6. cache \in Account /\ cache.perm \in [Users -> Permission]
    BY DEF TypeOK, CopiesType, Account
  <1>7. /\ Idle.at = "idle"
        /\ enroller' = RollBack => enroller'.at = "rollback" /\ enroller'.user = u
    BY <1>2 DEF Idle, RollBack
  <1>8. \A v \in Users, t \in Editor : Claims(t, v)' <=> Claims(t, v)
    BY <1>1 DEF Claims, Editor
  <1>9. CASE Missed /\ cache' = cache /\ enroller' = RollBack
    <2>1. ~(mishaps' \subseteq {"write"})
      BY <1>9, Spoilt DEF Missed
    <2>2. \A v \in Users : Claims("enroll", v)' => Claims("enroll", v)
      BY <1>1, <1>2, <1>7, <1>9 DEF Claims
    <2>3. \A v \in Users, x \in Worker : Claims(x, v)' => Claims(x, v)
      BY <1>8, <2>2 DEF Worker
    <2>4. QED
      BY <1>1, <1>9, <2>1, <2>3, Abandoned
  <1>10. CASE cache' = With(u, p) /\ enroller' = Idle
    <2>1. /\ u \in cache'.bmp /\ cache'.perm[u] = p
          /\ \A v \in Users : v # u => /\ v \in cache'.bmp <=> v \in cache.bmp
                                       /\ cache'.perm[v] = cache.perm[v]
      BY <1>6, <1>10 DEF With
    <2>2. ~Stored'
      BY <1>7, <1>10 DEF Stored
    <2>3. ASSUME NEW v \in Users, v # u PROVE Untouched(v)
      BY <1>1, <1>2, <2>1, <2>2, <2>3, EnrollerUntouched
    <2>4. ASSUME "overlap" \notin mishaps' PROVE \A x \in Worker : ~Claims(x, u)'
      <3>1. \A t \in Editor : ~Claims(t, u)
        BY <1>1, <1>4, <2>4 DEF ClaimInv, ClaimOK, Worker
      <3>2. ~Claims("enroll", u)'
        BY <2>2 DEF Claims
      <3>3. QED
        BY <1>8, <3>1, <3>2 DEF Worker
    <2>5. Templates' = DOMAIN sensor' /\ Enrolled' = cache'.bmp
      BY DEF Templates, Enrolled
    <2>6. "overlap" \notin mishaps' => ClaimOK(u)'
      BY <2>4 DEF ClaimOK, Worker
    <2>7. mishaps' \subseteq {"write"} => SafeOK(u)'
      BY <2>1, <2>4, <2>5 DEF SafeOK, Worker
    <2>8. mishaps' = {} => ExactOK(u)'
      <3>1. mishaps' = {} => u \in DOMAIN sensor' /\ sensor'[u] = p
        BY <1>1, <1>3, <1>4 DEF CopiesInv, ExactInv, ExactOK, Templates
      <3>2. QED
        BY <2>1, <2>4, <2>5, <3>1 DEF ExactOK, Worker
    <2>9. QED
      BY <2>3, <2>6, <2>7, <2>8 DEF Rightly
  <1>11. CASE cache' = Undone(u, p) /\ Mishandled("write") /\ enroller' = RollBack
    <2>1. /\ u \notin cache'.bmp
          /\ \A v \in Users : v # u => /\ v \in cache'.bmp <=> v \in cache.bmp
                                       /\ cache'.perm[v] = cache.perm[v]
      BY <1>6, <1>11 DEF With, Undone
    <2>2. ASSUME NEW v \in Users, v # u PROVE Untouched(v)
      BY <1>1, <1>2, <1>7, <1>11, <2>1, <2>2, EnrollerUntouched
    <2>3. Claims("enroll", u)'
      BY <1>7, <1>11 DEF Claims, Stored
    <2>4. ASSUME "overlap" \notin mishaps' PROVE \A t \in Editor : ~Claims(t, u)'
      BY <1>1, <1>4, <1>8, <2>4 DEF ClaimInv, ClaimOK, Worker
    <2>5. Templates' = DOMAIN sensor' /\ Enrolled' = cache'.bmp
      BY DEF Templates, Enrolled
    <2>6. "overlap" \notin mishaps' => ClaimOK(u)'
      BY <1>4, <2>1, <2>3, <2>4, <2>5 DEF ClaimOK, Worker
    <2>7. mishaps' \subseteq {"write"} => SafeOK(u)'
      BY <1>4, <2>3, <2>4 DEF SafeOK, Unclaimed
    <2>8. mishaps' # {}
      BY <1>11 DEF Mishandled
    <2>9. QED
      BY <2>2, <2>6, <2>7, <2>8 DEF Rightly
  <1>12. QED
    BY <1>5, <1>9, <1>10, <1>11

\* Its rollback on the sensor.
LEMMA EnrolmentRollsBack ==
  ASSUME TypeOK, CopiesInv, Next, EnrolRollback
  PROVE  \A v \in Users : Untouched(v) \/ Rightly(v)
  <1>1. /\ MachineType /\ ClaimInv /\ mishaps \subseteq mishaps' /\ enroller.at = "rollback"
        /\ editor' = editor /\ cache' = cache /\ Stored /\ enroller' = Idle
    BY MishapsKept DEF TypeOK, CopiesInv, EnrolRollback, Stored, record
  <1>2. PICK u \in Users : u = enroller.user
    BY <1>1 DEF MachineType, EnrollerState, Idle
  <1>3. Claims("enroll", u) /\ "enroll" \in Worker /\ "enroll" \notin Editor
    BY <1>1, <1>2 DEF Claims, Worker, Editor
  <1>4. ~Stored'
    BY <1>1 DEF Stored, Idle
  <1>5. \A v \in Users, t \in Editor : Claims(t, v)' <=> Claims(t, v)
    BY <1>1 DEF Claims, Editor
  <1>6. CASE Mishandled("rollback")
    <2>1. \A v \in Users, x \in Worker : Claims(x, v)' => Claims(x, v)
      BY <1>4, <1>5 DEF Claims, Worker
    <2>2. QED
      BY <1>1, <1>6, <2>1, Spoilt, Abandoned
  <1>7. CASE EraseTemplates({u})
    <2>1. ASSUME NEW v \in Users, v # u PROVE Untouched(v)
      BY <1>1, <1>2, <1>4, <1>7, <2>1, Erased, EnrollerUntouched
    <2>2. ASSUME "overlap" \notin mishaps' PROVE \A x \in Worker : ~Claims(x, u)'
      <3>1. \A t \in Editor : ~Claims(t, u)
        BY <1>1, <1>3, <2>2 DEF ClaimInv, ClaimOK, Worker
      <3>2. ~Claims("enroll", u)'
        BY <1>4 DEF Claims
      <3>3. QED
        BY <1>5, <3>1, <3>2 DEF Worker
    <2>3. u \notin Templates'
      BY <1>7, Erased DEF Templates
    <2>4. "overlap" \notin mishaps' => ClaimOK(u)'
      BY <2>2 DEF ClaimOK, Worker
    <2>5. mishaps' \subseteq {"write"} => SafeOK(u)'
      BY <2>2, <2>3 DEF SafeOK, Worker
    <2>6. mishaps' # {}
      BY <1>1, <1>3 DEF CopiesInv, ExactInv, ExactOK
    <2>7. QED
      BY <2>1, <2>4, <2>5, <2>6 DEF Rightly
  <1>8. QED
    BY <1>2, <1>6, <1>7 DEF EnrolRollback

\* After a reset nobody has a claim.
LEMMA ResetClaims ==
  ASSUME Reset
  PROVE  \A v \in Users : Rightly(v)
  <1>1. /\ ~(mishaps' \subseteq {"write"}) /\ mishaps' # {}
        /\ enroller' = Idle /\ editor' = [t \in Editor |-> Idle]
    BY Spoilt DEF Reset
  <1>2. \A v \in Users, x \in Worker : ~Claims(x, v)'
    BY <1>1 DEF Claims, Stored, Idle, Worker
  <1>3. \A v \in Users : ClaimOK(v)'
    BY <1>2 DEF ClaimOK, Worker
  <1>4. QED
    BY <1>1, <1>3 DEF Rightly

-----------------------------------------------------------------------------
(* The invariant, and what it says of a quiet device.                      *)

LEMMA CopiesKept ==
  ASSUME TypeOK, AppliesToItsOwn, CopiesInv, Next
  PROVE  CopiesInv'
  <1>1. EditorType /\ MachineType /\ mishaps \subseteq mishaps'
    BY MishapsKept DEF TypeOK
  <1> SUFFICES \A v \in Users : Untouched(v) \/ Rightly(v)
    BY <1>1, UserByUser
  <1>2. CASE SetupBegin \/ ZigbeeBegin \/ MatchArm \/ MatchClaim
    BY <1>1, <1>2, ChangesBegin
  <1>3. CASE ZigbeeStep
    BY <1>3, WipeErases, WipeForgets DEF ZigbeeStep
  <1>4. CASE MatchStep
    BY <1>1, <1>4, ChangeStores, ChangeNotes, ChangesBegin DEF MatchStep
  <1>5. ASSUME NEW t \in Editor, EditStep(t)
        PROVE  \A v \in Users : Untouched(v) \/ Rightly(v)
    BY <1>1, <1>5, EditorsTalk, DeleteErases, DeleteForgets DEF EditStep
  <1>6. CASE EnrolStep
    <2>1. CASE EnrolTake \/ EnrolBegin \/ EnrolSnapshot \/ EnrolFail
      BY <1>1, <2>1, EnrolmentRuns
    <2>2. CASE EnrolApply
      BY <1>1, <2>2, EnrolmentRuns, ResultLost
    <2>3. CASE EnrolScan \/ EnrolCommit \/ EnrolRollback
      BY <2>3, CaptureStores, EnrolmentCommits, EnrolmentRollsBack
    <2>4. QED
      BY <1>6, <2>1, <2>2, <2>3 DEF EnrolStep
  <1>7. CASE Dispatch \/ TimerFire
    BY <1>1, <1>7, EnrolmentRuns
  <1>8. CASE Reset
    BY <1>8, ResetClaims
  <1>9. QED
    BY <1>2, <1>3, <1>4, <1>5, <1>6, <1>7, <1>8 DEF Next

LEMMA CopiesStutter ==
  ASSUME CopiesInv, UNCHANGED vars
  PROVE  CopiesInv'
  <1>1. UNCHANGED <<sensor, cache, editor, enroller, mishaps>>
    BY DEF vars, record
  <1>2. \A v \in Users : Untouched(v)
    BY <1>1, NoneClaims DEF Stored
  <1>3. QED
    BY <1>1, <1>2, UserByUser

LEMMA CopiesInit ==
  ASSUME Init
  PROVE  CopiesInv
  <1>1. PICK e \in SUBSET Users : \E g \in [e -> Granted] :
          /\ sensor = g
          /\ cache = [bmp |-> e, perm |-> [u \in Users |-> IF u \in e THEN g[u] ELSE "none"]]
    BY DEF Init
  <1>2. /\ DOMAIN sensor = e /\ cache.bmp = e
        /\ \A u \in e : cache.perm[u] = sensor[u]
    BY <1>1
  <1>3. enroller.at = "idle" /\ \A t \in Editor : editor[t].at = "idle"
    BY DEF Init, Idle
  <1>4. \A u \in Users, x \in Worker : ~Claims(x, u)
    BY <1>3 DEF Claims, Stored, Worker
  <1>5. \A u \in Users : ClaimOK(u) /\ SafeOK(u) /\ ExactOK(u)
    BY <1>2, <1>4 DEF ClaimOK, SafeOK, ExactOK, Worker, Templates, Enrolled
  <1>6. QED
    BY <1>5 DEF CopiesInv, ClaimInv, SafeInv, ExactInv

LEMMA CopiesInvariance == Spec => [](IInv /\ CopiesInv)
  <1>1. Init => CopiesInv
    BY CopiesInit
  <1>2. IInv /\ CopiesInv /\ [Next]_vars => CopiesInv'
    <2>1. IInv => TypeOK /\ AppliesToItsOwn
      BY DEF IInv
    <2>2. QED
      BY <2>1, CopiesKept, CopiesStutter
  <1>3. QED
    BY <1>1, <1>2, Invariance, PTL DEF Spec

LEMMA QuietClaims ==
  ASSUME Quiet
  PROVE  \A u \in Users : Unclaimed(u)
  <1>1. enroller.at = "idle" /\ \A t \in Editor : editor[t].at \in {"idle", "armed"}
    BY DEF Quiet, Idle
  <1>2. QED
    BY <1>1 DEF Unclaimed, Claims, Stored, Worker

(***************************************************************************)
(* Whatever the match, the Zigbee, the app and the enroll task did, in any *)
(* order and each holding the lock for a part of its change only: once     *)
(* nobody is changing users, the sensor holds a template for exactly the   *)
(* users in the cache and with the same permission, if nothing failed and  *)
(* no two changes overlapped on a user.                                    *)
(***************************************************************************)
THEOREM SensorIsTheRecord == Spec => []SensorAgrees
  <1>1. IInv /\ CopiesInv => SensorAgrees
    <2> SUFFICES ASSUME IInv, CopiesInv, Quiet, mishaps = {}
                 PROVE  /\ Templates = Enrolled
                        /\ \A u \in Enrolled : sensor[u] = cache.perm[u]
      BY DEF SensorAgrees
    <2>1. Templates \subseteq Users /\ Enrolled \subseteq Users
      BY DEF IInv, TypeOK, CopiesType, Account, Enrolled
    <2>2. \A u \in Users : /\ u \in Templates <=> u \in Enrolled
                           /\ u \in Templates => sensor[u] = cache.perm[u]
      BY QuietClaims DEF CopiesInv, ExactInv, ExactOK
    <2>3. QED
      BY <2>1, <2>2
  <1>2. QED
    BY <1>1, CopiesInvariance, PTL

(***************************************************************************)
(* However many writes failed, with their rollbacks: a template on the     *)
(* sensor, which opens the door, belongs to a user on record.              *)
(***************************************************************************)
THEOREM NoTemplateWithoutUser == Spec => []StaleButSafe
  <1>1. IInv /\ CopiesInv => StaleButSafe
    <2> SUFFICES ASSUME IInv, CopiesInv, Quiet, mishaps \subseteq {"write"}
                 PROVE  Templates \subseteq Enrolled
      BY DEF StaleButSafe
    <2>1. Templates \subseteq Users
      BY DEF IInv, TypeOK, CopiesType
    <2>2. \A u \in Users : u \in Templates => u \in Enrolled
      BY QuietClaims DEF CopiesInv, SafeInv, SafeOK
    <2>3. QED
      BY <2>1, <2>2
  <1>2. QED
    BY <1>1, CopiesInvariance, PTL

-----------------------------------------------------------------------------
(* The refinement: cache and record are the abstract store's users in      *)
(* force and on record.                                                    *)

\* The users of an account with their permissions.
InForce(c) == [u \in c.bmp |-> c.perm[u]]

Types == cache \in Account /\ nvs \in Account /\ EditorType /\ MachineType

\* What the actions save is an outcome of one change.
LEMMA Outcome ==
  ASSUME cache \in Account, NEW u \in Users, NEW p \in Granted
  PROVE  /\ InForce(With(u, p)) \in Store!Outcomes
         /\ InForce(Without(u)) \in Store!Outcomes
         /\ InForce(Changed(u, p)) \in Store!Outcomes
         /\ InForce(Blank) \in Store!Outcomes
         /\ {With(u, p), Without(u), Changed(u, p), Blank} \subseteq Account
         /\ Changed(u, p).bmp = cache.bmp
  <1>1. cache.bmp \subseteq Users /\ cache.perm \in [Users -> Permission]
    BY DEF Account
  <1>2. InForce(With(u, p)) = Store!Grant(u, p)
    BY <1>1 DEF InForce, With, Store!Grant
  <1>3. InForce(Without(u)) = Store!Revoke(u)
    BY <1>1 DEF InForce, Without, Account, Store!Revoke
  <1>4. InForce(Changed(u, p)) \in {Store!Grant(u, p), Store!Revoke(u)}
    <2>1. Changed(u, p).bmp = cache.bmp /\ Changed(u, p).perm = [cache.perm EXCEPT ![u] = p]
      BY DEF Changed, Account
    <2>2. CASE u \in cache.bmp
      BY <1>1, <2>1, <2>2 DEF InForce, Store!Grant
    <2>3. CASE u \notin cache.bmp
      BY <1>1, <2>1, <2>3 DEF InForce, Store!Revoke
    <2>4. QED
      BY <2>2, <2>3
  <1>5. InForce(Blank) = [v \in {} |-> cache.perm[v]]
    BY DEF InForce, Blank
  <1>6. /\ Store!Grant(u, p) \in Store!Outcomes /\ Store!Revoke(u) \in Store!Outcomes
        /\ [v \in {} |-> cache.perm[v]] \in Store!Outcomes
    BY DEF Store!Outcomes
  <1>7. {With(u, p), Without(u), Changed(u, p), Blank} \subseteq Account
    BY <1>1 DEF Account, With, Without, Changed, Blank, Permission
  <1>8. QED
    BY <1>2, <1>3, <1>4, <1>5, <1>6, <1>7 DEF Changed, Account

\* A save that stops between its keys leaves a torn record.
LEMMA TornRecord ==
  ASSUME nvs \in Account, NEW c \in Account
  PROVE  InForce(Torn(c)) \in Store!Torn(InForce(c))
  <1>1. c.bmp \subseteq Users /\ nvs.perm \in [Users -> Permission]
    BY DEF Account
  <1>2. Torn(c).bmp = c.bmp /\ Torn(c).perm = nvs.perm
    BY DEF Torn, Account
  <1>3. InForce(Torn(c)) = [u \in c.bmp |-> nvs.perm[u]]
    BY <1>2 DEF InForce
  <1>4. QED
    BY <1>1, <1>3 DEF InForce, Store!Torn

LEMMA SaveChanges ==
  ASSUME NEW c, InForce(c) \in Store!Outcomes, Persisted(c)
  PROVE  Store!Change
  BY DEF Persisted, InForce, Store!Change

LEMMA FailureRefuses ==
  ASSUME Types, NEW c \in Account, InForce(c) \in Store!Outcomes,
         NEW back, InForce(back) = InForce(cache), PersistFailed(c, back)
  PROVE  Store!Refuse
  <1>1. InForce(cache') = InForce(cache)
    BY DEF PersistFailed
  <1>2. InForce(nvs') \in {InForce(nvs), InForce(c)} \cup Store!Torn(InForce(c))
    BY TornRecord DEF Types, PersistFailed
  <1>3. QED
    BY <1>1, <1>2 DEF InForce, Store!Refuse

\* Every change made without another's claim is a change of the store.
LEMMA ChangesRefine ==
  ASSUME Types, "overlap" \notin mishaps' => ClaimInv /\ "overlap" \notin mishaps,
         \/ ZigbeeZero \/ MatchNote \/ EnrolCommit
         \/ \E t \in Editor : DeleteForget(t)
  PROVE  Store!Change \/ Store!Refuse \/ "overlap" \in mishaps' \/ UNCHANGED record
  <1>1. /\ cache \in Account /\ cache.perm \in [Users -> Permission]
        /\ "admin" \in Granted
    BY DEF Types, Account, Granted
  <1>2. CASE ZigbeeZero
    <2>1. Blank \in Account /\ InForce(Blank) \in Store!Outcomes
      <3>1. Blank \in Account
        BY DEF Blank, Account, Permission
      <3>2. InForce(Blank) = [v \in {} |-> cache.perm[v]]
        BY DEF InForce, Blank
      <3>3. QED
        BY <3>1, <3>2 DEF Store!Outcomes
    <2>2. QED
      BY <1>2, <2>1, SaveChanges, FailureRefuses DEF ZigbeeZero
  <1>3. CASE MatchNote
    <2>1. editor["match"].at = "note" /\ "match" \in Editor
      BY <1>3 DEF MatchNote, Editor
    <2>2. PICK u \in Users, p \in Granted : u = editor["match"].user /\ p = editor["match"].perm
      BY <2>1 DEF Types, EditorType, EditorState, Idle
    <2>3. Changed(u, p) \in Account /\ InForce(Changed(u, p)) \in Store!Outcomes
      BY <1>1, Outcome
    <2>4. \/ Persisted(Changed(u, p))
          \/ PersistFailed(Changed(u, p), cache)
          \/ UNCHANGED record
      BY <1>3, <2>2 DEF MatchNote
    <2>5. QED
      BY <2>3, <2>4, SaveChanges, FailureRefuses
  <1>4. ASSUME NEW t \in Editor, DeleteForget(t)
        PROVE  Store!Change \/ Store!Refuse \/ "overlap" \in mishaps' \/ UNCHANGED record
    <2>1. editor[t].at = "forget" /\ t # "enroll" /\ t \in Worker
      BY <1>4 DEF DeleteForget, Editor, Worker
    <2>2. PICK u \in Users : u = editor[t].user
      BY <2>1 DEF Types, EditorType, EditorState, Idle
    <2>3. Without(u) \in Account /\ InForce(Without(u)) \in Store!Outcomes
      BY <1>1, Outcome
    <2>4. \/ Persisted(Without(u))
          \/ PersistFailed(Without(u), [cache EXCEPT !.bmp = cache.bmp \cup {u}])
          \/ UNCHANGED record
      BY <1>4, <2>2 DEF DeleteForget
    <2>5. "overlap" \notin mishaps' => u \in Enrolled
      <3>1. Claims(t, u)
        BY <2>1, <2>2 DEF Claims
      <3>2. QED
        BY <2>1, <3>1 DEF ClaimInv, ClaimOK
    <2>6. u \in Enrolled =>
            InForce([cache EXCEPT !.bmp = cache.bmp \cup {u}]) = InForce(cache)
      BY <1>1 DEF InForce, Enrolled, Account
    <2>7. QED
      BY <2>3, <2>4, <2>5, <2>6, SaveChanges, FailureRefuses
  <1>5. CASE EnrolCommit
    <2>1. enroller.at = "commit"
      BY <1>5 DEF EnrolCommit
    <2>2. PICK u \in Users, p \in Granted : u = enroller.user /\ p = enroller.perm
      BY <2>1 DEF Types, MachineType, EnrollerState, Idle
    <2>3. With(u, p) \in Account /\ InForce(With(u, p)) \in Store!Outcomes
      BY <1>1, Outcome
    <2>4. \/ Persisted(With(u, p))
          \/ PersistFailed(With(u, p), Undone(u, p))
          \/ UNCHANGED record
      BY <1>5, <2>2 DEF EnrolCommit
    <2>5. "overlap" \notin mishaps' => u \notin Enrolled
      BY <2>1, <2>2 DEF ClaimInv, ClaimOK, Claims, Stored
    <2>6. u \notin Enrolled => InForce(Undone(u, p)) = InForce(cache)
      <3>1. Undone(u, p).perm = [cache.perm EXCEPT ![u] = p]
        BY DEF Undone, With
      <3>2. Undone(u, p).bmp = (cache.bmp \cup {u}) \ {u}
        BY DEF Undone, With
      <3>3. cache.bmp \subseteq Users
        BY DEF Types, Account
      <3>4. QED
        BY <1>1, <3>1, <3>2, <3>3 DEF InForce, Enrolled
    <2>7. QED
      BY <2>3, <2>4, <2>5, <2>6, SaveChanges, FailureRefuses
  <1>6. QED
    BY <1>2, <1>3, <1>4, <1>5

\* A reset in the middle of a save brings up the record it left, or nobody when
\* that cannot be read.
LEMMA ResetRefines ==
  ASSUME Types, Reset
  PROVE  Store!Reboot \/ (Store!Unreadable /\ "read" \in mishaps')
  <1>1. cache \in Account /\ nvs \in Account
    BY DEF Types
  <1>2. nvs' = nvs \/ \E c \in Saving : nvs' = Torn(c)
    BY DEF Reset
  <1>3. ASSUME NEW c \in Saving
        PROVE  \E b \in Account : InForce(b) \in Store!Outcomes /\ Torn(b) = Torn(c)
    <2>1. CASE \E v \in Users, p \in Granted : c = With(v, p)
      BY <1>1, <2>1, Outcome
    <2>2. CASE \E v \in Users : c = Without(v)
      <3>1. "admin" \in Granted
        BY DEF Granted
      <3>2. QED
        BY <1>1, <2>2, <3>1, Outcome
    <2>3. CASE c = cache /\ editor["match"].at = "note"
      <3>1. editor["match"] \in EditorState
        BY DEF Types, EditorType, Editor
      <3>2. PICK u \in Users, p \in Granted :
              u = editor["match"].user /\ p = editor["match"].perm
        BY <2>3, <3>1 DEF EditorState, Idle
      <3>3. /\ Changed(u, p) \in Account /\ InForce(Changed(u, p)) \in Store!Outcomes
            /\ Changed(u, p).bmp = cache.bmp
        BY <1>1, Outcome
      <3>4. Torn(Changed(u, p)) = Torn(c)
        BY <2>3, <3>3 DEF Torn
      <3>5. QED
        BY <3>3, <3>4
    <2>4. CASE c = Blank
      <3>1. Blank \in Account
        BY DEF Blank, Account, Permission
      <3>2. InForce(Blank) = [v \in {} |-> cache.perm[v]]
        BY DEF InForce, Blank
      <3>3. QED
        BY <2>4, <3>1, <3>2 DEF Store!Outcomes
    <2>5. QED
      BY <2>1, <2>2, <2>3, <2>4 DEF Saving
  <1>4. InForce(nvs') = InForce(nvs)
          \/ \E m \in Store!Outcomes : InForce(nvs') \in Store!Torn(m)
    BY <1>1, <1>2, <1>3, TornRecord
  <1>5. Store!Stop
    BY <1>2, <1>4 DEF InForce, Store!Stop
  <1>6. CASE cache' = nvs'
    <2>1. InForce(cache') = InForce(nvs')
      BY <1>6
    <2>2. QED
      BY <1>5, <2>1 DEF InForce, Store!Reboot
  <1>7. CASE cache' = Blank /\ "read" \in mishaps'
    <2>1. InForce(Blank) = [v \in {} |-> cache.perm[v]]
      BY DEF InForce, Blank
    <2>2. InForce(cache') = InForce(Blank)
      BY <1>7
    <2>3. InForce(cache') = [v \in {} |-> InForce(cache)[v]]
      BY <2>1, <2>2
    <2>4. QED
      BY <1>5, <1>7, <2>3 DEF InForce, Store!Unreadable
  <1>8. QED
    BY <1>6, <1>7 DEF Reset

LEMMA NextRefines ==
  ASSUME Types, "overlap" \notin mishaps' => ClaimInv /\ "overlap" \notin mishaps, Next
  PROVE  \/ Store!Change \/ Store!Refuse \/ Store!Reboot
         \/ Store!Unreadable /\ "read" \in mishaps'
         \/ "overlap" \in mishaps'
         \/ UNCHANGED record
  <1>1. CASE SetupBegin \/ ZigbeeBegin \/ MatchArm \/ MatchClaim
    BY <1>1 DEF SetupBegin, ZigbeeBegin, MatchArm, MatchClaim
  <1>2. CASE ZigbeeStep
    BY <1>2, ChangesRefine DEF ZigbeeStep, ZigbeeClear
  <1>3. CASE MatchStep
    BY <1>3, ChangesRefine DEF MatchStep, MatchChange, MatchRemote, MatchKick, MatchLocal
  <1>4. CASE \E t \in Editor : EditStep(t)
    BY <1>4, ChangesRefine DEF EditStep, Ask, EmitStart, DeleteCheck, DeleteErase
  <1>5. CASE EnrolStep
    BY <1>5, ChangesRefine
    DEF EnrolStep, EnrolTake, EnrolBegin, EnrolSnapshot, EnrolScan, EnrolApply,
        EnrolRollback, EnrolFail
  <1>6. CASE Dispatch \/ TimerFire
    BY <1>6 DEF Dispatch, TimerFire
  <1>7. CASE Reset
    BY <1>7, ResetRefines
  <1>8. QED
    BY <1>1, <1>2, <1>3, <1>4, <1>5, <1>6, <1>7 DEF Next

(***************************************************************************)
(* The services implement the store: whatever the four tasks' changes do   *)
(* to the cache and the record in NVS, failing writes, rollbacks and       *)
(* resets between two keys included, is one whole change of the users, a   *)
(* refusal, or a reboot, which brings the record into force unless it      *)
(* could not be read - for any users and number of faults.                 *)
(***************************************************************************)
THEOREM ServicesRefineStore == Spec => StoreRefined
  <1>1. Init => Store!Init
    <2> SUFFICES ASSUME Init PROVE Store!Init
      OBVIOUS
    <2>1. PICK e \in SUBSET Users : \E g \in [e -> Granted] :
            cache = [bmp |-> e, perm |-> [u \in Users |-> IF u \in e THEN g[u] ELSE "none"]]
      BY DEF Init
    <2>2. PICK g \in [e -> Granted] :
            cache = [bmp |-> e, perm |-> [u \in Users |-> IF u \in e THEN g[u] ELSE "none"]]
      BY <2>1
    <2>3. InForce(cache) = g
      BY <2>2 DEF InForce
    <2>4. nvs = cache
      BY DEF Init
    <2>5. QED
      BY <2>3, <2>4 DEF InForce, Store!Init
  <1>2. IInv /\ CopiesInv /\ [Next]_vars =>
          [\/ Store!Change \/ Store!Refuse \/ Store!Reboot
           \/ Store!Unreadable /\ "read" \in mishaps'
           \/ "overlap" \in mishaps']_record
    <2> SUFFICES ASSUME IInv, CopiesInv, [Next]_vars
                 PROVE  \/ Store!Change \/ Store!Refuse \/ Store!Reboot
                        \/ Store!Unreadable /\ "read" \in mishaps'
                        \/ "overlap" \in mishaps'
                        \/ UNCHANGED record
      BY DEF record
    <2>1. Types /\ ClaimInv
      BY DEF IInv, TypeOK, CopiesType, Types, CopiesInv
    <2>2. CASE Next
      <3>1. mishaps \subseteq mishaps'
        BY <2>2, MishapsKept
      <3>2. QED
        BY <2>1, <2>2, <3>1, NextRefines
    <2>3. CASE UNCHANGED vars
      BY <2>3 DEF vars
    <2>4. QED
      BY <2>2, <2>3
  <1>3. QED
    BY <1>1, <1>2, CopiesInvariance, PTL DEF Spec, StoreRefined

=============================================================================
