--------------------------- MODULE SdfSetupProofs ---------------------------
(***************************************************************************)
(* Proofs about SdfSetup: a device that rests claimed is claimed as a      *)
(* whole, trust is the same before and after a restart, advertising is in  *)
(* the mode that applies, the idle timer has its connection and a lapsed   *)
(* phase leaves nothing, for any number of companions, gestures, resets    *)
(* and events.                                                             *)
(***************************************************************************)
EXTENDS SdfSetup, FiniteSetTheorems, SequenceTheorems, TLAPS

-----------------------------------------------------------------------------
(* The inductive invariant.                                                *)

\* Short of a race of completion and wipe: a completion has all wizard steps before it
\* and no erasure beside it, and the latch is set only by one that may yet take it back
\* or after the phase was over.
ClaimInv ==
  "raced" \notin mishaps =>
    /\ latch \/ Completing => done = Steps
    /\ latch /\ armed => host.at \in {"list", "rollback", "disarm"}
    /\ host.at \in {"list", "rollback", "disarm"} => latch
    /\ Erasing \/ admin = "restart" => ~latch /\ ~Completing

\* None of the mishaps that break the records.
Clean == mishaps \cap (Faults \cup {"torn", "raced"}) = {}

\* Every connection has a slot or is being terminated; an encrypted one that stays has
\* its bond.
LinkInv ==
  \A p \in Peers :
    /\ link[p] # "none" => p \in slots \cup closing
    /\ (/\ link[p] = "secure" /\ p \notin closing /\ admin # "restart"
        /\ ~(host.at = "unadmit" /\ host.peer = p)) => p \in bonds

\* A wipe excludes the pairing window and what a window or a completion leads to.
PhaseInv ==
  /\ host.at # "rollback"
  /\ Wiping => ~latch /\ ~window /\ ~Completing /\ host.at # "persist"
  /\ window \/ host.at = "persist" => latch \/ admin = "restart"

\* A wipe that has erased the admissions and not yet emptied the allow list.
HalfWiped == admin \in {"nuki", "cache", "emit"} \/ WipeQueued \/ router = "silence"

\* How the allow list and the admissions differ in the middle of a change of both.
Agreed ==
  /\ host.at \in {"latch", "list"} => admitted = allow \cup {host.peer}
  /\ host.at = "persist" => allow = admitted \cup {host.peer}
  /\ host.at \in {"unbond", "unadmit"} => allow = admitted \ {host.peer}
  /\ host.at \in {"idle", "admit", "disarm"} => allow = admitted

RecordInv ==
  /\ HalfWiped => admitted = {}
  /\ host.at \in {"admit", "latch", "list", "persist"} => host.peer \in bonds
  /\ host.at # "unadmit" => admitted \subseteq bonds
  /\ host.at = "unadmit" => admitted \ {host.peer} \subseteq bonds
  /\ ~HalfWiped /\ admin # "restart" => Agreed

\* TypeOK, in four parts.
RecordType ==
  /\ latch \in BOOLEAN /\ admitted \subseteq Peers /\ bonds \subseteq Peers
  /\ done \subseteq Steps /\ asked \in Steps \cup {"none"}
  /\ armed \in BOOLEAN /\ conn \in Peers \cup {Nobody}
TrustType ==
  /\ allow \subseteq Peers /\ window \in BOOLEAN /\ wtimer \in BOOLEAN
  /\ slots \subseteq Peers
  /\ link \in [Peers -> {"none", "plain", "secure"}] /\ closing \subseteq Peers
  /\ wl \subseteq Peers
EventType == events \in Seq(Event) /\ Len(events) <= QueueDepth
TaskType ==
  /\ host \in [at: {"idle", "admit", "latch", "list", "rollback", "disarm",
                    "unbond", "unadmit", "persist"}, peer: Peers \cup {Nobody}]
  /\ admin \in {"idle", "rearm", "accounts", "admissions", "nuki", "cache", "emit", "restart"}
  /\ router \in {"idle", "silence"}
  /\ plan \in [Tasks -> (Modes \ {"off"}) \cup {"none"}] /\ adv \in Modes
CountType == turns \in 0..MaxTurns /\ mishaps \subseteq Mishap

\* The host task works for a companion.
HostInv == host.at # "idle" => host.peer \in Peers

IInv ==
  /\ TypeOK /\ HostInv /\ ClaimInv
  /\ Clean => LinkInv /\ PhaseInv /\ RecordInv

-----------------------------------------------------------------------------
(* The inductive invariant of advertising, of the idle timer and of what a *)
(* wipe leaves: AirborneInv, the conjunction of these and IInv.            *)

\* Who has a connection, and what the host task is doing is about one of them.
LinkedInv ==
  /\ \A p \in Peers : link[p] # "none" <=> p \in slots \cup closing
  /\ conn \in slots \cup {Nobody}
  /\ host.at \notin {"idle", "persist"} => host.peer \in slots
  /\ host.at = "rollback" => "lock" \in mishaps \cap Faults
  /\ host.at \in {"admit", "latch"} => ~latch

\* A completion and a wipe that do not race exclude each other.
RaceInv ==
  "raced" \notin mishaps =>
    /\ Wiping => ~latch /\ ~Completing
    /\ admin \in {"accounts", "admissions", "nuki", "cache"} => armed
    /\ admin = "emit" => ~armed

\* The completion of a lapsed phase, taken back.
Revoked == {"landed", "lock"} \subseteq mishaps

\* The pairing window is one of a claimed device, a completion one of an armed one.
WindowInv ==
  ("raced" \notin mishaps /\ ~Revoked) =>
    /\ window \/ host.at = "persist" => latch \/ admin = "restart"
    /\ window => ~armed
    /\ host.at = "rollback" => armed
    /\ (Completing /\ host.at # "disarm" /\ mishaps \cap (Faults \cup {"landed"}) = {}) => armed

\* A gesture's event waits for the router.
Reclaiming == \E i \in DOMAIN events : events[i].action = "RECLAIM"

\* The idle timer has given up on the connection of p.
DropWaiting(p) == \E i \in DOMAIN events : events[i] = [action |-> "IDLE_DROP", peer |-> p]

\* A phase armed after a wipe has its reclaim behind the wipe's event.
Behind ==
  \A i \in DOMAIN events : events[i].action = "TIMEOUT" =>
    \E j \in DOMAIN events : j > i /\ events[j].action = "RECLAIM"
QueueInv ==
  (mishaps \cap {"lost", "raced"} = {} /\ armed) =>
    Behind /\ (router = "silence" => Reclaiming)

\* A connection of an armed phase is the one the idle timer watches, or it is ending or
\* going to be ended.
CoverInv ==
  (mishaps \cap {"second", "lost", "raced"} = {} /\ armed) =>
    \A p \in slots :
      \/ p = conn \/ p \in closing \/ WipeQueued \/ Reclaiming
      \/ DropWaiting(p)

\* What filtered advertising lets in, until the next restart of it.
FilterInv ==
  adv = "filtered" =>
    \/ closing # {} \/ host.at \in {"unbond", "unadmit"}
    \/ wl \subseteq allow /\ allow \ wl \subseteq slots

\* Somebody is going to start advertising anew.
Pending ==
  \/ plan # NoPlan \/ closing # {} \/ admin # "idle" \/ router = "silence"
  \/ WipeQueued \/ Reclaiming
  \/ host.at = "list" /\ mishaps \cap (Faults \cup {"landed"}) # {}

\* The mode that applies, a completion not counting before it has taken effect.
Meant == ModeFor(window, latch /\ host.at \notin {"list", "rollback"}, armed)

AirInv ==
  (mishaps \cap {"late", "unswitched", "lost", "raced"} = {} /\ ~Revoked) =>
    Pending \/ adv = Meant \/ (adv = "off" /\ slots # {})

\* Filtered advertising is for a claimed device only, and started by a completion that
\* may yet be taken back only with a client about to go.
ClaimedAir ==
  (/\ mishaps \cap {"landed", "raced"} = {} /\ admin # "restart"
   /\ mishaps \cap Faults = {} \/ host.at = "rollback") =>
    ((adv = "filtered" \/ \E t \in Tasks : plan[t] = "filtered") =>
       latch /\ (host.at \in {"list", "rollback"} => closing # {}))

\* A phase that has lapsed has been wiped as far as the wipe has come.
Settled == Lapsed /\ admin # "restart"
LapseInv ==
  mishaps \cap (Faults \cup {"landed", "raced"}) = {} =>
    /\ admin \in {"admissions", "nuki", "cache"} => "account" \notin done
    /\ admin \in {"nuki", "cache"} => admitted = {}
    /\ admin = "cache" => "nuki" \notin done
    /\ Settled => /\ done = {} /\ admitted = {}
                  /\ ~Completing /\ host.at # "persist" /\ ~window
    /\ Settled /\ admin # "emit" /\ ~WipeQueued =>
         bonds = {} /\ (router = "silence" => slots \subseteq closing)
    /\ Settled /\ ~Wiping =>
         /\ allow = {}
         /\ "late" \notin mishaps => adv = "off" /\ slots \subseteq closing

-----------------------------------------------------------------------------
(* Lemmas about what the actions share.                                    *)

LEMMA TypeParts ==
  TypeOK <=> RecordType /\ TrustType /\ EventType /\ TaskType /\ CountType
  BY DEF TypeOK, RecordType, TrustType, EventType, TaskType, CountType

LEMMA ModeType ==
  ASSUME NEW w \in BOOLEAN, NEW c \in BOOLEAN, NEW a \in BOOLEAN
  PROVE  ModeFor(w, c, a) \in Modes
  BY DEF ModeFor, Modes

\* A restart of advertising plans a mode for one task.
LEMMA RestartingType ==
  ASSUME TypeOK, NEW t \in Tasks, NEW mode \in Modes, Restarting(t, mode)
  PROVE  /\ plan' \in [Tasks -> (Modes \ {"off"}) \cup {"none"}]
         /\ adv' \in Modes
  BY DEF TypeOK, Restarting, Modes

\* The bound leaves room for one more turn.
LEMMA RoomType ==
  ASSUME TypeOK, Room
  PROVE  turns + 1 \in 0..MaxTurns
  <1>1. IsFiniteSet(Faults)
    <2>1. IsFiniteSet({"lost", "lock", "storage"})
      <3>1. IsFiniteSet({"lost"})
        BY FS_Singleton
      <3>2. IsFiniteSet({"lost"} \cup {"lock"})
        BY <3>1, FS_AddElement
      <3>3. IsFiniteSet(({"lost"} \cup {"lock"}) \cup {"storage"})
        BY <3>2, FS_AddElement
      <3>4. ({"lost"} \cup {"lock"}) \cup {"storage"} = {"lost", "lock", "storage"}
        OBVIOUS
      <3>5. QED
        BY <3>3, <3>4
    <2>2. QED
      BY <2>1, SetupAssumption, FS_Subset
  <1>2. Cardinality(mishaps \cap Faults) \in Nat
    <2>1. IsFiniteSet(mishaps \cap Faults)
      BY <1>1, FS_Subset
    <2>2. QED
      BY <2>1, FS_CardinalityType
  <1>3. QED
    BY <1>2, SetupAssumption DEF Room, TypeOK

\* What is emitted is queued, or its loss is a fault.
LEMMA EmitEffect ==
  ASSUME TypeOK, NEW e \in Event, NEW noted \in SUBSET Mishap, Emit(e, noted)
  PROVE  /\ events' \in Seq(Event) /\ Len(events') <= QueueDepth
         /\ mishaps' \subseteq Mishap /\ mishaps \cup noted \subseteq mishaps'
         /\ mishaps' \ Faults \subseteq mishaps \cup noted
         /\ \/ mishaps' \cap Faults # {} /\ events' = events
            \/ WipeQueued' <=> WipeQueued \/ e.action = "TIMEOUT"
  <1>1. CASE Len(events) < QueueDepth /\ events' = Append(events, e) /\ mishaps' = mishaps \cup noted
    <2>1. /\ events' \in Seq(Event) /\ Len(events') = Len(events) + 1
          /\ \A i \in 1..Len(events) : events'[i] = events[i]
          /\ events'[Len(events) + 1] = e
      BY <1>1, AppendProperties DEF TypeOK
    <2>2. DOMAIN events = 1..Len(events) /\ DOMAIN events' = 1..(Len(events) + 1) /\ Len(events) \in Nat
      BY <2>1 DEF TypeOK
    <2>3. WipeQueued' <=> WipeQueued \/ e.action = "TIMEOUT"
      BY <2>1, <2>2 DEF WipeQueued
    <2>4. Len(events') <= QueueDepth
      BY <1>1, <2>1, <2>2, SetupAssumption
    <2>5. QED
      BY <1>1, <2>1, <2>3, <2>4 DEF TypeOK
  <1>2. CASE UNCHANGED events /\ CanFail("lost") /\ mishaps' = mishaps \cup noted \cup {"lost"}
    BY <1>2 DEF TypeOK, CanFail, Mishap
  <1>3. QED
    BY <1>1, <1>2 DEF Emit

\* Taking an event loses none.
LEMMA TakenEffect ==
  ASSUME TypeOK, NEW action, Next1(action)
  PROVE  /\ events' \in Seq(Event) /\ Len(events') <= QueueDepth
         /\ WipeQueued' => WipeQueued
         /\ IF action = "TIMEOUT" THEN WipeQueued ELSE WipeQueued => WipeQueued'
         /\ Head(events) \in Event
  <1>1. /\ events \in Seq(Event) /\ events # <<>> /\ events' = Tail(events)
        /\ Head(events).action = action
    BY DEF Next1, TypeOK
  <1>2. /\ events' \in Seq(Event) /\ Len(events') = Len(events) - 1
        /\ \A i \in 1..Len(events') : events'[i] = events[i + 1]
        /\ Head(events) = events[1] /\ Len(events) \in Nat /\ Len(events) > 0
    BY <1>1, HeadTailProperties
  <1>3. DOMAIN events = 1..Len(events) /\ DOMAIN events' = 1..Len(events')
    BY <1>1, <1>2
  <1>4. WipeQueued' => WipeQueued
    <2>1. ASSUME NEW i \in 1..Len(events'), events'[i].action = "TIMEOUT"
          PROVE  i + 1 \in 1..Len(events) /\ events[i + 1].action = "TIMEOUT"
      BY <1>2, <2>1
    <2>2. QED
      BY <1>3, <2>1 DEF WipeQueued
  <1>5. IF action = "TIMEOUT" THEN WipeQueued ELSE WipeQueued => WipeQueued'
    <2>1. ASSUME NEW i \in 1..Len(events), events[i].action = "TIMEOUT", i # 1
          PROVE  i - 1 \in 1..Len(events') /\ events'[i - 1].action = "TIMEOUT"
      <3>1. i - 1 \in 1..Len(events') /\ (i - 1) + 1 = i
        BY <1>2, <2>1
      <3>2. QED
        BY <1>2, <2>1, <3>1
    <2>2. 1 \in 1..Len(events) /\ events[1].action = action
      BY <1>1, <1>2
    <2>3. QED
      BY <1>3, <2>1, <2>2 DEF WipeQueued
  <1>6. Head(events) \in Event /\ Len(events') <= QueueDepth
    BY <1>1, <1>2, SetupAssumption DEF TypeOK
  <1>7. QED
    BY <1>2, <1>4, <1>5, <1>6

-----------------------------------------------------------------------------
(* Advertising and connections.                                            *)

LEMMA StartAdvertisingStep ==
  ASSUME IInv, NEW t \in Tasks, StartAdvertising(t)
  PROVE  IInv'
  <1>1. TypeOK'
    BY SetupAssumption DEF IInv, TypeOK, HostInv, Tasks, Steps, Mishap, Modes,
       StartAdvertising, Pushed, nvs, phase, trust, tasks, air
  <1>2. HostInv' /\ ClaimInv'
    BY DEF IInv, TypeOK, HostInv, ClaimInv, Completing, Erasing, HostFree, HostIdle,
       StartAdvertising, Pushed, nvs, phase, trust, tasks, air
  <1>3. ASSUME Clean' PROVE LinkInv' /\ PhaseInv' /\ RecordInv'
    <2>1. Clean
      BY <1>3, SetupAssumption DEF Clean, StartAdvertising, Pushed, nvs, phase, trust,
         tasks, air
    <2>2. LinkInv'
      BY <1>3, <2>1 DEF IInv, TypeOK, Clean, LinkInv, HostFree, HostIdle, StartAdvertising,
         Pushed, nvs, phase, trust, tasks, air
    <2>3. PhaseInv'
      BY <1>3, <2>1 DEF IInv, TypeOK, Clean, PhaseInv, Wiping, WipeQueued, Erasing,
         Completing, HostFree, HostIdle, StartAdvertising, Pushed, nvs, phase, trust,
         tasks, air
    <2>4. RecordInv'
      BY <1>3, <2>1 DEF IInv, TypeOK, Clean, LinkInv, PhaseInv, RecordInv, Agreed,
         HalfWiped, Wiping, WipeQueued, Erasing, Completing, HostFree, HostIdle,
         StartAdvertising, Pushed, nvs, phase, trust, tasks, air
    <2>5. QED
      BY <2>2, <2>3, <2>4
  <1>4. QED
    BY <1>1, <1>2, <1>3 DEF IInv

LEMMA ConnectStep ==
  ASSUME IInv, NEW p \in Peers, Connect(p)
  PROVE  IInv'
  <1>1. TypeOK'
    <2>1. RecordType /\ TrustType /\ EventType /\ TaskType /\ CountType
      BY TypeParts DEF IInv
    <2>2. RecordType'
      BY <2>1 DEF IInv, RecordType, TaskType, HostInv, HostFree, HostIdle, Steps, Connect,
         Turn, Refused, Accepted, Fault, CanFail, Noted, Fine, nvs, phase, trust, tasks,
         air
    <2>3. TrustType'
      BY <2>1 DEF IInv, TrustType, RecordType, TaskType, HostInv, HostFree, HostIdle,
         Connect, Turn, Refused, Accepted, Fault, CanFail, Noted, Fine, nvs, phase, trust,
         tasks, air
    <2>4. TaskType'
      BY <2>1 DEF IInv, TaskType, TrustType, RecordType, HostInv, Tasks, Modes, Connect,
         Turn, Refused, Accepted, Fault, CanFail, Noted, Fine, nvs, phase, trust, tasks,
         air
    <2>5. CountType'
      BY RoomType, <2>1, SetupAssumption DEF IInv, CountType, Mishap, Connect, Turn,
         Refused, Accepted, Fault, CanFail, Noted, Fine, nvs, phase, trust, tasks, air
    <2>6. EventType'
      BY <2>1 DEF EventType, Connect, Turn, Refused, Accepted, Fault, CanFail, Noted, Fine,
         nvs, phase, trust, tasks, air
    <2>7. QED
      BY <2>2, <2>3, <2>4, <2>5, <2>6 DEF TypeOK, RecordType, TrustType, EventType,
         TaskType, CountType
  <1>2. HostInv' /\ ClaimInv'
    BY DEF IInv, TypeOK, HostInv, ClaimInv, Completing, Erasing, HostFree, HostIdle,
       Connect, Turn, Refused, Accepted, Fault, CanFail, Noted, Fine, nvs, phase, trust,
       tasks, air
  <1>3. ASSUME Clean' PROVE LinkInv' /\ PhaseInv' /\ RecordInv'
    <2>1. Clean
      BY <1>3, SetupAssumption DEF Clean, Connect, Turn, Refused, Accepted, Fault, CanFail,
         Noted, Fine, nvs, phase, trust, tasks, air
    <2>2. LinkInv'
      BY <1>3, <2>1 DEF IInv, TypeOK, Clean, LinkInv, HostFree, HostIdle, Connect, Turn,
         Refused, Accepted, Fault, CanFail, Noted, Fine, nvs, phase, trust, tasks, air
    <2>3. PhaseInv'
      BY <1>3, <2>1 DEF IInv, TypeOK, Clean, PhaseInv, Wiping, WipeQueued, Erasing,
         Completing, HostFree, HostIdle, Connect, Turn, Refused, Accepted, Fault, CanFail,
         Noted, Fine, nvs, phase, trust, tasks, air
    <2>4. RecordInv'
      BY <1>3, <2>1 DEF IInv, TypeOK, Clean, LinkInv, PhaseInv, RecordInv, Agreed,
         HalfWiped, Wiping, WipeQueued, Erasing, Completing, HostFree, HostIdle, Connect,
         Turn, Refused, Accepted, Fault, CanFail, Noted, Fine, nvs, phase, trust, tasks,
         air
    <2>5. QED
      BY <2>2, <2>3, <2>4
  <1>4. QED
    BY <1>1, <1>2, <1>3 DEF IInv

LEMMA DisconnectStep ==
  ASSUME IInv, NEW p \in Peers, Disconnect(p)
  PROVE  IInv'
  <1>1. TypeOK'
    BY RestartingType, ModeType, SetupAssumption DEF IInv, TypeOK, HostInv, Tasks, Steps,
       Mishap, Modes, Disconnect, Notified, Noted, Mode, nvs, phase, trust, tasks, air
  <1>2. HostInv' /\ ClaimInv'
    BY DEF IInv, TypeOK, HostInv, ClaimInv, Completing, Erasing, HostFree, HostIdle,
       Disconnect, Notified, Noted, Mode, nvs, phase, trust, tasks, air
  <1>3. ASSUME Clean' PROVE LinkInv' /\ PhaseInv' /\ RecordInv'
    <2>1. Clean
      BY <1>3, SetupAssumption DEF Clean, Disconnect, Notified, Noted, Mode, nvs, phase,
         trust, tasks, air
    <2>2. LinkInv'
      BY <1>3, <2>1 DEF IInv, TypeOK, Clean, LinkInv, HostFree, HostIdle, Disconnect,
         Notified, Noted, Mode, nvs, phase, trust, tasks, air
    <2>3. PhaseInv'
      BY <1>3, <2>1 DEF IInv, TypeOK, Clean, PhaseInv, Wiping, WipeQueued, Erasing,
         Completing, HostFree, HostIdle, Disconnect, Notified, Noted, Mode, nvs, phase,
         trust, tasks, air
    <2>4. RecordInv'
      BY <1>3, <2>1 DEF IInv, TypeOK, Clean, LinkInv, PhaseInv, RecordInv, Agreed,
         HalfWiped, Wiping, WipeQueued, Erasing, Completing, HostFree, HostIdle,
         Disconnect, Notified, Noted, Mode, nvs, phase, trust, tasks, air
    <2>5. QED
      BY <2>2, <2>3, <2>4
  <1>4. QED
    BY <1>1, <1>2, <1>3 DEF IInv

LEMMA EncryptStep ==
  ASSUME IInv, NEW p \in Peers, Encrypt(p)
  PROVE  IInv'
  <1>1. TypeOK'
    <2>1. RecordType /\ TrustType /\ EventType /\ TaskType /\ CountType
      BY TypeParts DEF IInv
    <2>2. RecordType'
      BY <2>1 DEF IInv, RecordType, TaskType, HostInv, HostFree, HostIdle, Steps, Encrypt,
         Noted, Fault, CanFail, AtWork, nvs, phase, trust, tasks, air
    <2>3. TrustType'
      BY <2>1 DEF IInv, TrustType, RecordType, TaskType, HostInv, HostFree, HostIdle,
         Encrypt, Noted, Fault, CanFail, AtWork, nvs, phase, trust, tasks, air
    <2>4. TaskType'
      BY <2>1 DEF IInv, TaskType, TrustType, RecordType, HostInv, Tasks, Modes, Encrypt,
         Noted, Fault, CanFail, AtWork, nvs, phase, trust, tasks, air
    <2>5. CountType'
      BY <2>1, SetupAssumption DEF IInv, CountType, Mishap, Encrypt, Noted, Fault, CanFail,
         AtWork, nvs, phase, trust, tasks, air
    <2>6. EventType'
      BY <2>1 DEF EventType, Encrypt, Noted, Fault, CanFail, AtWork, nvs, phase, trust,
         tasks, air
    <2>7. QED
      BY <2>2, <2>3, <2>4, <2>5, <2>6 DEF TypeOK, RecordType, TrustType, EventType,
         TaskType, CountType
  <1>2. HostInv' /\ ClaimInv'
    BY DEF IInv, TypeOK, HostInv, ClaimInv, Completing, Erasing, HostFree, HostIdle,
       Encrypt, Noted, Fault, CanFail, AtWork, nvs, phase, trust, tasks, air
  <1>3. ASSUME Clean' PROVE LinkInv' /\ PhaseInv' /\ RecordInv'
    <2>1. Clean
      BY <1>3, SetupAssumption DEF Clean, Encrypt, Noted, Fault, CanFail, AtWork, nvs,
         phase, trust, tasks, air
    <2>2. LinkInv'
      BY <1>3, <2>1 DEF IInv, TypeOK, Clean, LinkInv, HostFree, HostIdle, Encrypt, Noted,
         Fault, CanFail, AtWork, nvs, phase, trust, tasks, air
    <2>3. PhaseInv'
      BY <1>3, <2>1 DEF IInv, TypeOK, Clean, PhaseInv, Wiping, WipeQueued, Erasing,
         Completing, HostFree, HostIdle, Encrypt, Noted, Fault, CanFail, AtWork, nvs,
         phase, trust, tasks, air
    <2>4. RecordInv'
      BY <1>3, <2>1 DEF IInv, TypeOK, Clean, LinkInv, PhaseInv, RecordInv, Agreed,
         HalfWiped, Wiping, WipeQueued, Erasing, Completing, HostFree, HostIdle, Encrypt,
         Noted, Fault, CanFail, AtWork, nvs, phase, trust, tasks, air
    <2>5. QED
      BY <2>2, <2>3, <2>4
  <1>4. QED
    BY <1>1, <1>2, <1>3 DEF IInv

LEMMA PersistAdmissionStep ==
  ASSUME IInv, PersistAdmission
  PROVE  IInv'
  <1>1. TypeOK'
    <2>1. RecordType /\ TrustType /\ EventType /\ TaskType /\ CountType
      BY TypeParts DEF IInv
    <2>2. RecordType'
      BY <2>1 DEF IInv, RecordType, TaskType, HostInv, HostFree, HostIdle, Steps,
         PersistAdmission, Noted, Fault, CanFail, Pushed, HostIdle, nvs, phase, trust,
         tasks, air
    <2>3. TrustType'
      BY <2>1 DEF IInv, TrustType, RecordType, TaskType, HostInv, HostFree, HostIdle,
         PersistAdmission, Noted, Fault, CanFail, Pushed, HostIdle, nvs, phase, trust,
         tasks, air
    <2>4. TaskType'
      BY <2>1 DEF IInv, TaskType, TrustType, RecordType, HostInv, Tasks, Modes,
         PersistAdmission, Noted, Fault, CanFail, Pushed, HostIdle, nvs, phase, trust,
         tasks, air
    <2>5. CountType'
      BY <2>1, SetupAssumption DEF IInv, CountType, Mishap, PersistAdmission, Noted, Fault,
         CanFail, Pushed, HostIdle, nvs, phase, trust, tasks, air
    <2>6. EventType'
      BY <2>1 DEF EventType, PersistAdmission, Noted, Fault, CanFail, Pushed, HostIdle,
         nvs, phase, trust, tasks, air
    <2>7. QED
      BY <2>2, <2>3, <2>4, <2>5, <2>6 DEF TypeOK, RecordType, TrustType, EventType,
         TaskType, CountType
  <1>2. HostInv' /\ ClaimInv'
    BY DEF IInv, TypeOK, HostInv, ClaimInv, Completing, Erasing, HostFree, HostIdle,
       PersistAdmission, Noted, Fault, CanFail, Pushed, HostIdle, nvs, phase, trust, tasks,
       air
  <1>3. ASSUME Clean' PROVE LinkInv' /\ PhaseInv' /\ RecordInv'
    <2>1. Clean
      BY <1>3, SetupAssumption DEF Clean, PersistAdmission, Noted, Fault, CanFail, Pushed,
         HostIdle, nvs, phase, trust, tasks, air
    <2>2. LinkInv'
      BY <1>3, <2>1 DEF IInv, TypeOK, Clean, LinkInv, HostFree, HostIdle, PersistAdmission,
         Noted, Fault, CanFail, Pushed, HostIdle, nvs, phase, trust, tasks, air
    <2>3. PhaseInv'
      BY <1>3, <2>1 DEF IInv, TypeOK, Clean, PhaseInv, Wiping, WipeQueued, Erasing,
         Completing, HostFree, HostIdle, PersistAdmission, Noted, Fault, CanFail, Pushed,
         HostIdle, nvs, phase, trust, tasks, air
    <2>4. RecordInv'
      BY <1>3, <2>1 DEF IInv, TypeOK, Clean, LinkInv, PhaseInv, RecordInv, Agreed,
         HalfWiped, Wiping, WipeQueued, Erasing, Completing, HostFree, HostIdle,
         PersistAdmission, Noted, Fault, CanFail, Pushed, HostIdle, nvs, phase, trust,
         tasks, air
    <2>5. QED
      BY <2>2, <2>3, <2>4
  <1>4. QED
    BY <1>1, <1>2, <1>3 DEF IInv

LEMMA EvictStep ==
  ASSUME IInv, NEW p \in Peers, Evict(p)
  PROVE  IInv'
  <1>1. TypeOK'
    BY RoomType, SetupAssumption DEF IInv, TypeOK, HostInv, Tasks, Steps, Mishap, Modes,
       Evict, Turn, AtWork, Fine, nvs, phase, trust, tasks, air
  <1>2. HostInv' /\ ClaimInv'
    BY DEF IInv, TypeOK, HostInv, ClaimInv, Completing, Erasing, HostFree, HostIdle, Evict,
       Turn, AtWork, Fine, nvs, phase, trust, tasks, air
  <1>3. ASSUME Clean' PROVE LinkInv' /\ PhaseInv' /\ RecordInv'
    <2>1. Clean
      BY <1>3, SetupAssumption DEF Clean, Evict, Turn, AtWork, Fine, nvs, phase, trust,
         tasks, air
    <2>2. LinkInv'
      BY <1>3, <2>1 DEF IInv, TypeOK, Clean, LinkInv, HostFree, HostIdle, Evict, Turn,
         AtWork, Fine, nvs, phase, trust, tasks, air
    <2>3. PhaseInv'
      BY <1>3, <2>1 DEF IInv, TypeOK, Clean, PhaseInv, Wiping, WipeQueued, Erasing,
         Completing, HostFree, HostIdle, Evict, Turn, AtWork, Fine, nvs, phase, trust,
         tasks, air
    <2>4. RecordInv'
      BY <1>3, <2>1 DEF IInv, TypeOK, Clean, LinkInv, PhaseInv, RecordInv, Agreed,
         HalfWiped, Wiping, WipeQueued, Erasing, Completing, HostFree, HostIdle, Evict,
         Turn, AtWork, Fine, nvs, phase, trust, tasks, air
    <2>5. QED
      BY <2>2, <2>3, <2>4
  <1>4. QED
    BY <1>1, <1>2, <1>3 DEF IInv

LEMMA EvictBondStep ==
  ASSUME IInv, EvictBond
  PROVE  IInv'
  <1>1. TypeOK'
    BY SetupAssumption DEF IInv, TypeOK, HostInv, Tasks, Steps, Mishap, Modes, EvictBond,
       AtWork, Fine, nvs, phase, trust, tasks, air
  <1>2. HostInv' /\ ClaimInv'
    BY DEF IInv, TypeOK, HostInv, ClaimInv, Completing, Erasing, HostFree, HostIdle,
       EvictBond, AtWork, Fine, nvs, phase, trust, tasks, air
  <1>3. ASSUME Clean' PROVE LinkInv' /\ PhaseInv' /\ RecordInv'
    <2>1. Clean
      BY <1>3, SetupAssumption DEF Clean, EvictBond, AtWork, Fine, nvs, phase, trust,
         tasks, air
    <2>2. LinkInv'
      BY <1>3, <2>1 DEF IInv, TypeOK, Clean, LinkInv, HostFree, HostIdle, EvictBond,
         AtWork, Fine, nvs, phase, trust, tasks, air
    <2>3. PhaseInv'
      BY <1>3, <2>1 DEF IInv, TypeOK, Clean, PhaseInv, Wiping, WipeQueued, Erasing,
         Completing, HostFree, HostIdle, EvictBond, AtWork, Fine, nvs, phase, trust, tasks,
         air
    <2>4. RecordInv'
      BY <1>3, <2>1 DEF IInv, TypeOK, Clean, LinkInv, PhaseInv, RecordInv, Agreed,
         HalfWiped, Wiping, WipeQueued, Erasing, Completing, HostFree, HostIdle, EvictBond,
         AtWork, Fine, nvs, phase, trust, tasks, air
    <2>5. QED
      BY <2>2, <2>3, <2>4
  <1>4. QED
    BY <1>1, <1>2, <1>3 DEF IInv

LEMMA EvictAdmissionStep ==
  ASSUME IInv, EvictAdmission
  PROVE  IInv'
  <1>1. TypeOK'
    <2>1. RecordType /\ TrustType /\ EventType /\ TaskType /\ CountType
      BY TypeParts DEF IInv
    <2>2. RecordType'
      BY <2>1 DEF IInv, RecordType, TaskType, HostInv, HostFree, HostIdle, Steps,
         EvictAdmission, Unadmitted, Fault, CanFail, Pushed, HostIdle, Fine, nvs, phase,
         trust, tasks, air
    <2>3. TrustType'
      BY <2>1 DEF IInv, TrustType, RecordType, TaskType, HostInv, HostFree, HostIdle,
         EvictAdmission, Unadmitted, Fault, CanFail, Pushed, HostIdle, Fine, nvs, phase,
         trust, tasks, air
    <2>4. TaskType'
      BY <2>1 DEF IInv, TaskType, TrustType, RecordType, HostInv, Tasks, Modes,
         EvictAdmission, Unadmitted, Fault, CanFail, Pushed, HostIdle, Fine, nvs, phase,
         trust, tasks, air
    <2>5. CountType'
      BY <2>1, SetupAssumption DEF IInv, CountType, Mishap, EvictAdmission, Unadmitted,
         Fault, CanFail, Pushed, HostIdle, Fine, nvs, phase, trust, tasks, air
    <2>6. EventType'
      BY <2>1 DEF EventType, EvictAdmission, Unadmitted, Fault, CanFail, Pushed, HostIdle,
         Fine, nvs, phase, trust, tasks, air
    <2>7. QED
      BY <2>2, <2>3, <2>4, <2>5, <2>6 DEF TypeOK, RecordType, TrustType, EventType,
         TaskType, CountType
  <1>2. HostInv' /\ ClaimInv'
    BY DEF IInv, TypeOK, HostInv, ClaimInv, Completing, Erasing, HostFree, HostIdle,
       EvictAdmission, Unadmitted, Fault, CanFail, Pushed, HostIdle, Fine, nvs, phase,
       trust, tasks, air
  <1>3. ASSUME Clean' PROVE LinkInv' /\ PhaseInv' /\ RecordInv'
    <2>1. Clean
      BY <1>3, SetupAssumption DEF Clean, EvictAdmission, Unadmitted, Fault, CanFail,
         Pushed, HostIdle, Fine, nvs, phase, trust, tasks, air
    <2>2. LinkInv'
      BY <1>3, <2>1 DEF IInv, TypeOK, Clean, LinkInv, HostFree, HostIdle, EvictAdmission,
         Unadmitted, Fault, CanFail, Pushed, HostIdle, Fine, nvs, phase, trust, tasks, air
    <2>3. PhaseInv'
      BY <1>3, <2>1 DEF IInv, TypeOK, Clean, PhaseInv, Wiping, WipeQueued, Erasing,
         Completing, HostFree, HostIdle, EvictAdmission, Unadmitted, Fault, CanFail,
         Pushed, HostIdle, Fine, nvs, phase, trust, tasks, air
    <2>4. RecordInv'
      BY <1>3, <2>1 DEF IInv, TypeOK, Clean, LinkInv, PhaseInv, RecordInv, Agreed,
         HalfWiped, Wiping, WipeQueued, Erasing, Completing, HostFree, HostIdle,
         EvictAdmission, Unadmitted, Fault, CanFail, Pushed, HostIdle, Fine, nvs, phase,
         trust, tasks, air
    <2>5. QED
      BY <2>2, <2>3, <2>4
  <1>4. QED
    BY <1>1, <1>2, <1>3 DEF IInv

-----------------------------------------------------------------------------
(* The pairing window.                                                     *)

LEMMA OpenWindowStep ==
  ASSUME IInv, OpenWindow
  PROVE  IInv'
  <1>1. TypeOK'
    <2>1. RecordType /\ TrustType /\ EventType /\ TaskType /\ CountType
      BY TypeParts DEF IInv
    <2>2. TrustType'
      BY <2>1 DEF IInv, TrustType, RecordType, TaskType, HostInv, HostFree, HostIdle,
         OpenWindow, Turn, Fine, nvs, phase, trust, tasks, air
    <2>3. TaskType'
      <3>1. "app" \in Tasks /\ ModeFor(TRUE, latch, armed) \in Modes
        BY ModeType, <2>1 DEF RecordType, Tasks
      <3>2. /\ plan' \in [Tasks -> (Modes \ {"off"}) \cup {"none"}]
            /\ adv' \in Modes
        BY <3>1, RestartingType DEF IInv, OpenWindow
      <3>3. QED
        BY <2>1, <3>2 DEF TaskType, OpenWindow
    <2>4. CountType'
      BY RoomType, <2>1, SetupAssumption DEF IInv, CountType, Mishap, OpenWindow, Turn,
         Fine, nvs, phase, trust, tasks, air
    <2>5. RecordType' /\ EventType'
      BY <2>1 DEF RecordType, EventType, OpenWindow, Turn, Fine, nvs, phase, trust, tasks,
         air
    <2>6. QED
      BY <2>2, <2>3, <2>4, <2>5 DEF TypeOK, RecordType, TrustType, EventType, TaskType,
         CountType
  <1>2. HostInv' /\ ClaimInv'
    BY DEF IInv, TypeOK, HostInv, ClaimInv, Completing, Erasing, HostFree, HostIdle,
       OpenWindow, Turn, Fine, nvs, phase, trust, tasks, air
  <1>3. ASSUME Clean' PROVE LinkInv' /\ PhaseInv' /\ RecordInv'
    <2>1. Clean
      BY <1>3, SetupAssumption DEF Clean, OpenWindow, Turn, Fine, nvs, phase, trust, tasks,
         air
    <2>2. LinkInv'
      BY <1>3, <2>1 DEF IInv, TypeOK, Clean, LinkInv, HostFree, HostIdle, OpenWindow, Turn,
         Fine, nvs, phase, trust, tasks, air
    <2>3. PhaseInv'
      BY <1>3, <2>1 DEF IInv, TypeOK, Clean, PhaseInv, Wiping, WipeQueued, Erasing,
         Completing, HostFree, HostIdle, OpenWindow, Turn, Fine, nvs, phase, trust, tasks,
         air
    <2>4. RecordInv'
      BY <1>3, <2>1 DEF IInv, TypeOK, Clean, LinkInv, PhaseInv, RecordInv, Agreed,
         HalfWiped, Wiping, WipeQueued, Erasing, Completing, HostFree, HostIdle,
         OpenWindow, Turn, Fine, nvs, phase, trust, tasks, air
    <2>5. QED
      BY <2>2, <2>3, <2>4
  <1>4. QED
    BY <1>1, <1>2, <1>3 DEF IInv

LEMMA WindowTimeoutStep ==
  ASSUME IInv, WindowTimeout
  PROVE  IInv'
  <1>1. TypeOK'
    <2>1. RecordType /\ TrustType /\ EventType /\ TaskType /\ CountType
      BY TypeParts DEF IInv
    <2>2. TrustType'
      BY <2>1 DEF IInv, TrustType, RecordType, TaskType, HostInv, HostFree, HostIdle,
         WindowTimeout, ClosedByTimer, Fault, CanFail, Fine, nvs, phase, trust, tasks, air
    <2>3. TaskType'
      <3>1. CASE window /\ Restarting("timer", ModeFor(FALSE, latch, armed))
        <4>1. ModeFor(FALSE, latch, armed) \in Modes /\ "timer" \in Tasks
          BY <2>1, ModeType DEF RecordType, Tasks
        <4>2. QED
          BY <2>1, <3>1, <4>1, RestartingType DEF IInv, TaskType, WindowTimeout
      <3>2. CASE UNCHANGED <<plan, adv>>
        BY <2>1, <3>2 DEF TaskType, WindowTimeout
      <3>3. QED
        BY <3>1, <3>2 DEF WindowTimeout, ClosedByTimer
    <2>4. CountType'
      BY <2>1, SetupAssumption DEF IInv, CountType, Mishap, WindowTimeout, ClosedByTimer,
         Fault, CanFail, Fine, nvs, phase, trust, tasks, air
    <2>5. RecordType' /\ EventType'
      BY <2>1 DEF RecordType, EventType, WindowTimeout, ClosedByTimer, Fault, CanFail,
         Fine, nvs, phase, trust, tasks, air
    <2>6. QED
      BY <2>2, <2>3, <2>4, <2>5 DEF TypeOK, RecordType, TrustType, EventType, TaskType,
         CountType
  <1>2. HostInv' /\ ClaimInv'
    BY DEF IInv, TypeOK, HostInv, ClaimInv, Completing, Erasing, HostFree, HostIdle,
       WindowTimeout, ClosedByTimer, Fault, CanFail, Fine, nvs, phase, trust, tasks, air
  <1>3. ASSUME Clean' PROVE LinkInv' /\ PhaseInv' /\ RecordInv'
    <2>1. Clean
      BY <1>3, SetupAssumption DEF Clean, WindowTimeout, ClosedByTimer, Fault, CanFail,
         Fine, nvs, phase, trust, tasks, air
    <2>2. LinkInv'
      BY <1>3, <2>1 DEF IInv, TypeOK, Clean, LinkInv, HostFree, HostIdle, WindowTimeout,
         ClosedByTimer, Fault, CanFail, Fine, nvs, phase, trust, tasks, air
    <2>3. PhaseInv'
      BY <1>3, <2>1 DEF IInv, TypeOK, Clean, PhaseInv, Wiping, WipeQueued, Erasing,
         Completing, HostFree, HostIdle, WindowTimeout, ClosedByTimer, Fault, CanFail,
         Fine, nvs, phase, trust, tasks, air
    <2>4. RecordInv'
      BY <1>3, <2>1 DEF IInv, TypeOK, Clean, LinkInv, PhaseInv, RecordInv, Agreed,
         HalfWiped, Wiping, WipeQueued, Erasing, Completing, HostFree, HostIdle,
         WindowTimeout, ClosedByTimer, Fault, CanFail, Fine, nvs, phase, trust, tasks, air
    <2>5. QED
      BY <2>2, <2>3, <2>4
  <1>4. QED
    BY <1>1, <1>2, <1>3 DEF IInv

-----------------------------------------------------------------------------
(* The wizard and the completion.                                          *)

LEMMA WizardAskStep ==
  ASSUME IInv, NEW step \in Steps, WizardAsk(step)
  PROVE  IInv'
  <1>1. TypeOK'
    BY SetupAssumption DEF IInv, TypeOK, HostInv, Tasks, Steps, Mishap, Modes, WizardAsk,
       nvs, phase, trust, tasks, air
  <1>2. HostInv' /\ ClaimInv'
    BY DEF IInv, TypeOK, HostInv, ClaimInv, Completing, Erasing, HostFree, HostIdle,
       WizardAsk, nvs, phase, trust, tasks, air
  <1>3. ASSUME Clean' PROVE LinkInv' /\ PhaseInv' /\ RecordInv'
    <2>1. Clean
      BY <1>3, SetupAssumption DEF Clean, WizardAsk, nvs, phase, trust, tasks, air
    <2>2. LinkInv'
      BY <1>3, <2>1 DEF IInv, TypeOK, Clean, LinkInv, HostFree, HostIdle, WizardAsk, nvs,
         phase, trust, tasks, air
    <2>3. PhaseInv'
      BY <1>3, <2>1 DEF IInv, TypeOK, Clean, PhaseInv, Wiping, WipeQueued, Erasing,
         Completing, HostFree, HostIdle, WizardAsk, nvs, phase, trust, tasks, air
    <2>4. RecordInv'
      BY <1>3, <2>1 DEF IInv, TypeOK, Clean, LinkInv, PhaseInv, RecordInv, Agreed,
         HalfWiped, Wiping, WipeQueued, Erasing, Completing, HostFree, HostIdle, WizardAsk,
         nvs, phase, trust, tasks, air
    <2>5. QED
      BY <2>2, <2>3, <2>4
  <1>4. QED
    BY <1>1, <1>2, <1>3 DEF IInv

LEMMA WizardEndsStep ==
  ASSUME IInv, WizardEnds
  PROVE  IInv'
  <1>1. TypeOK'
    <2>1. RecordType /\ TrustType /\ EventType /\ TaskType /\ CountType
      BY TypeParts DEF IInv
    <2>2. RecordType'
      BY <2>1 DEF IInv, RecordType, TaskType, HostInv, HostFree, HostIdle, Steps,
         WizardEnds, Noted, Fine, nvs, phase, trust, tasks, air
    <2>3. CountType'
      BY <2>1, SetupAssumption DEF IInv, CountType, Mishap, WizardEnds, Noted, Fine, nvs,
         phase, trust, tasks, air
    <2>4. TrustType' /\ EventType' /\ TaskType'
      BY <2>1 DEF TrustType, EventType, TaskType, WizardEnds, Noted, Fine, nvs, phase,
         trust, tasks, air
    <2>5. QED
      BY <2>2, <2>3, <2>4 DEF TypeOK, RecordType, TrustType, EventType, TaskType, CountType
  <1>2. HostInv' /\ ClaimInv'
    BY DEF IInv, TypeOK, HostInv, ClaimInv, Completing, Erasing, HostFree, HostIdle,
       WizardEnds, Noted, Fine, nvs, phase, trust, tasks, air
  <1>3. ASSUME Clean' PROVE LinkInv' /\ PhaseInv' /\ RecordInv'
    <2>1. Clean
      BY <1>3, SetupAssumption DEF Clean, WizardEnds, Noted, Fine, nvs, phase, trust,
         tasks, air
    <2>2. LinkInv'
      BY <1>3, <2>1 DEF IInv, TypeOK, Clean, LinkInv, HostFree, HostIdle, WizardEnds,
         Noted, Fine, nvs, phase, trust, tasks, air
    <2>3. PhaseInv'
      BY <1>3, <2>1 DEF IInv, TypeOK, Clean, PhaseInv, Wiping, WipeQueued, Erasing,
         Completing, HostFree, HostIdle, WizardEnds, Noted, Fine, nvs, phase, trust, tasks,
         air
    <2>4. RecordInv'
      BY <1>3, <2>1 DEF IInv, TypeOK, Clean, LinkInv, PhaseInv, RecordInv, Agreed,
         HalfWiped, Wiping, WipeQueued, Erasing, Completing, HostFree, HostIdle,
         WizardEnds, Noted, Fine, nvs, phase, trust, tasks, air
    <2>5. QED
      BY <2>2, <2>3, <2>4
  <1>4. QED
    BY <1>1, <1>2, <1>3 DEF IInv

LEMMA FinishSetupStep ==
  ASSUME IInv, NEW p \in Peers, FinishSetup(p)
  PROVE  IInv'
  <1>1. TypeOK'
    BY SetupAssumption DEF IInv, TypeOK, HostInv, Tasks, Steps, Mishap, Modes, FinishSetup,
       Noted, AtWork, nvs, phase, trust, tasks, air
  <1>2. HostInv' /\ ClaimInv'
    BY DEF IInv, TypeOK, HostInv, ClaimInv, Completing, Erasing, HostFree, HostIdle,
       Wiping, FinishSetup, Noted, AtWork, nvs, phase, trust, tasks, air
  <1>3. ASSUME Clean' PROVE LinkInv' /\ PhaseInv' /\ RecordInv'
    <2>1. Clean
      BY <1>3, SetupAssumption DEF Clean, FinishSetup, Noted, AtWork, nvs, phase, trust,
         tasks, air
    <2>2. LinkInv'
      BY <1>3, <2>1 DEF IInv, TypeOK, Clean, LinkInv, HostFree, HostIdle, FinishSetup,
         Noted, AtWork, nvs, phase, trust, tasks, air
    <2>3. PhaseInv'
      BY <1>3, <2>1 DEF IInv, TypeOK, Clean, PhaseInv, Wiping, WipeQueued, Erasing,
         Completing, HostFree, HostIdle, FinishSetup, Noted, AtWork, nvs, phase, trust,
         tasks, air
    <2>4. RecordInv'
      BY <1>3, <2>1 DEF IInv, TypeOK, Clean, LinkInv, PhaseInv, RecordInv, Agreed,
         HalfWiped, Wiping, WipeQueued, Erasing, Completing, HostFree, HostIdle,
         FinishSetup, Noted, AtWork, nvs, phase, trust, tasks, air
    <2>5. QED
      BY <2>2, <2>3, <2>4
  <1>4. QED
    BY <1>1, <1>2, <1>3 DEF IInv

LEMMA FinishAdmitStep ==
  ASSUME IInv, FinishAdmit
  PROVE  IInv'
  <1>1. TypeOK'
    <2>1. RecordType /\ TrustType /\ EventType /\ TaskType /\ CountType
      BY TypeParts DEF IInv
    <2>2. RecordType'
      BY <2>1 DEF IInv, RecordType, TaskType, HostInv, HostFree, HostIdle, Steps,
         FinishAdmit, Fault, CanFail, HostIdle, AtWork, Fine, nvs, phase, trust, tasks,
         air
    <2>3. TaskType'
      BY <2>1 DEF IInv, TaskType, TrustType, RecordType, HostInv, Tasks, Modes,
         FinishAdmit, Fault, CanFail, HostIdle, AtWork, Fine, nvs, phase, trust, tasks,
         air
    <2>4. CountType'
      BY <2>1, SetupAssumption DEF IInv, CountType, Mishap, FinishAdmit, Fault, CanFail,
         HostIdle, AtWork, Fine, nvs, phase, trust, tasks, air
    <2>5. TrustType' /\ EventType'
      BY <2>1 DEF TrustType, EventType, FinishAdmit, Fault, CanFail, HostIdle, AtWork,
         Fine, nvs, phase, trust, tasks, air
    <2>6. QED
      BY <2>2, <2>3, <2>4, <2>5 DEF TypeOK, RecordType, TrustType, EventType, TaskType,
         CountType
  <1>2. HostInv' /\ ClaimInv'
    BY DEF IInv, TypeOK, HostInv, ClaimInv, Completing, Erasing, HostFree, HostIdle,
       FinishAdmit, Fault, CanFail, HostIdle, AtWork, Fine, nvs, phase, trust, tasks, air
  <1>3. ASSUME Clean' PROVE LinkInv' /\ PhaseInv' /\ RecordInv'
    <2>1. Clean
      BY <1>3, SetupAssumption DEF Clean, FinishAdmit, Fault, CanFail, HostIdle, AtWork,
         Fine, nvs, phase, trust, tasks, air
    <2>2. LinkInv'
      BY <1>3, <2>1 DEF IInv, TypeOK, Clean, LinkInv, HostFree, HostIdle, FinishAdmit,
         Fault, CanFail, HostIdle, AtWork, Fine, nvs, phase, trust, tasks, air
    <2>3. PhaseInv'
      BY <1>3, <2>1 DEF IInv, TypeOK, Clean, PhaseInv, Wiping, WipeQueued, Erasing,
         Completing, HostFree, HostIdle, FinishAdmit, Fault, CanFail, HostIdle, AtWork,
         Fine, nvs, phase, trust, tasks, air
    <2>4. RecordInv'
      BY <1>3, <2>1 DEF IInv, TypeOK, Clean, LinkInv, PhaseInv, RecordInv, Agreed,
         HalfWiped, Wiping, WipeQueued, Erasing, Completing, HostFree, HostIdle,
         FinishAdmit, Fault, CanFail, HostIdle, AtWork, Fine, nvs, phase, trust, tasks,
         air
    <2>5. QED
      BY <2>2, <2>3, <2>4
  <1>4. QED
    BY <1>1, <1>2, <1>3 DEF IInv

LEMMA FinishLatchStep ==
  ASSUME IInv, FinishLatch
  PROVE  IInv'
  <1>1. TypeOK'
    <2>1. RecordType /\ TrustType /\ EventType /\ TaskType /\ CountType
      BY TypeParts DEF IInv
    <2>2. RecordType'
      BY <2>1 DEF IInv, RecordType, TaskType, HostInv, HostFree, HostIdle, Steps,
         FinishLatch, Fault, CanFail, HostIdle, AtWork, Fine, nvs, phase, trust, tasks,
         air
    <2>3. TaskType'
      BY <2>1 DEF IInv, TaskType, TrustType, RecordType, HostInv, Tasks, Modes,
         FinishLatch, Fault, CanFail, HostIdle, AtWork, Fine, nvs, phase, trust, tasks,
         air
    <2>4. CountType'
      BY <2>1, SetupAssumption DEF IInv, CountType, Mishap, FinishLatch, Fault, CanFail,
         HostIdle, AtWork, Fine, nvs, phase, trust, tasks, air
    <2>5. TrustType' /\ EventType'
      BY <2>1 DEF TrustType, EventType, FinishLatch, Fault, CanFail, HostIdle, AtWork,
         Fine, nvs, phase, trust, tasks, air
    <2>6. QED
      BY <2>2, <2>3, <2>4, <2>5 DEF TypeOK, RecordType, TrustType, EventType, TaskType,
         CountType
  <1>2. HostInv' /\ ClaimInv'
    BY DEF IInv, TypeOK, HostInv, ClaimInv, Completing, Erasing, HostFree, HostIdle,
       FinishLatch, Fault, CanFail, HostIdle, AtWork, Fine, nvs, phase, trust, tasks, air
  <1>3. ASSUME Clean' PROVE LinkInv' /\ PhaseInv' /\ RecordInv'
    <2>1. Clean
      BY <1>3, SetupAssumption DEF Clean, FinishLatch, Fault, CanFail, HostIdle, AtWork,
         Fine, nvs, phase, trust, tasks, air
    <2>2. LinkInv'
      BY <1>3, <2>1 DEF IInv, TypeOK, Clean, LinkInv, HostFree, HostIdle, FinishLatch,
         Fault, CanFail, HostIdle, AtWork, Fine, nvs, phase, trust, tasks, air
    <2>3. PhaseInv'
      BY <1>3, <2>1 DEF IInv, TypeOK, Clean, PhaseInv, Wiping, WipeQueued, Erasing,
         Completing, HostFree, HostIdle, FinishLatch, Fault, CanFail, HostIdle, AtWork,
         Fine, nvs, phase, trust, tasks, air
    <2>4. RecordInv'
      BY <1>3, <2>1 DEF IInv, TypeOK, Clean, LinkInv, PhaseInv, RecordInv, Agreed,
         HalfWiped, Wiping, WipeQueued, Erasing, Completing, HostFree, HostIdle,
         FinishLatch, Fault, CanFail, HostIdle, AtWork, Fine, nvs, phase, trust, tasks,
         air
    <2>5. QED
      BY <2>2, <2>3, <2>4
  <1>4. QED
    BY <1>1, <1>2, <1>3 DEF IInv

LEMMA FinishListStep ==
  ASSUME IInv, FinishList
  PROVE  IInv'
  <1>1. TypeOK'
    <2>1. RecordType /\ TrustType /\ EventType /\ TaskType /\ CountType
      BY TypeParts DEF IInv
    <2>2. TrustType'
      BY <2>1 DEF IInv, TrustType, RecordType, TaskType, HostInv, HostFree, HostIdle,
         FinishList, Fault, CanFail, HostIdle, AtWork, Fine, Pushed, Mode, nvs, phase,
         trust, tasks, air
    <2>3. TaskType'
      BY RestartingType, ModeType, <2>1 DEF IInv, TaskType, TrustType, RecordType, HostInv,
         Tasks, Modes, FinishList, Fault, CanFail, HostIdle, AtWork, Fine, Pushed, Mode,
         nvs, phase, trust, tasks, air
    <2>4. CountType'
      BY <2>1, SetupAssumption DEF IInv, CountType, Mishap, FinishList, Fault, CanFail,
         HostIdle, AtWork, Fine, Pushed, Mode, nvs, phase, trust, tasks, air
    <2>5. RecordType' /\ EventType'
      BY <2>1 DEF RecordType, EventType, FinishList, Fault, CanFail, HostIdle, AtWork,
         Fine, Pushed, Mode, nvs, phase, trust, tasks, air
    <2>6. QED
      BY <2>2, <2>3, <2>4, <2>5 DEF TypeOK, RecordType, TrustType, EventType, TaskType,
         CountType
  <1>2. HostInv' /\ ClaimInv'
    BY DEF IInv, TypeOK, HostInv, ClaimInv, Completing, Erasing, HostFree, HostIdle,
       FinishList, Fault, CanFail, HostIdle, AtWork, Fine, Pushed, Mode, nvs, phase, trust,
       tasks, air
  <1>3. ASSUME Clean' PROVE LinkInv' /\ PhaseInv' /\ RecordInv'
    <2>1. Clean
      BY <1>3, SetupAssumption DEF Clean, FinishList, Fault, CanFail, HostIdle, AtWork,
         Fine, Pushed, Mode, nvs, phase, trust, tasks, air
    <2>2. LinkInv'
      BY <1>3, <2>1 DEF IInv, TypeOK, Clean, LinkInv, HostFree, HostIdle, FinishList,
         Fault, CanFail, HostIdle, AtWork, Fine, Pushed, Mode, nvs, phase, trust, tasks,
         air
    <2>3. PhaseInv'
      BY <1>3, <2>1 DEF IInv, TypeOK, Clean, PhaseInv, Wiping, WipeQueued, Erasing,
         Completing, HostFree, HostIdle, FinishList, Fault, CanFail, HostIdle, AtWork,
         Fine, Pushed, Mode, nvs, phase, trust, tasks, air
    <2>4. RecordInv'
      BY <1>3, <2>1 DEF IInv, TypeOK, Clean, LinkInv, PhaseInv, RecordInv, Agreed,
         HalfWiped, Wiping, WipeQueued, Erasing, Completing, HostFree, HostIdle,
         FinishList, Fault, CanFail, HostIdle, AtWork, Fine, nvs, phase, trust, tasks, air
    <2>5. QED
      BY <2>2, <2>3, <2>4
  <1>4. QED
    BY <1>1, <1>2, <1>3 DEF IInv

LEMMA FinishRollbackStep ==
  ASSUME IInv, FinishRollback
  PROVE  IInv'
  <1>1. TypeOK'
    <2>1. RecordType /\ TrustType /\ EventType /\ TaskType /\ CountType
      BY TypeParts DEF IInv
    <2>2. RecordType'
      BY <2>1 DEF IInv, RecordType, TaskType, HostInv, HostFree, HostIdle, Steps,
         FinishRollback, RolledBack, HostIdle, nvs, phase, trust, tasks, air
    <2>3. TaskType'
      BY <2>1 DEF IInv, TaskType, TrustType, RecordType, HostInv, Tasks, Modes,
         FinishRollback, RolledBack, HostIdle, nvs, phase, trust, tasks, air
    <2>4. TrustType' /\ EventType' /\ CountType'
      BY <2>1 DEF TrustType, EventType, CountType, FinishRollback, RolledBack, HostIdle,
         nvs, phase, trust, tasks, air
    <2>5. QED
      BY <2>2, <2>3, <2>4 DEF TypeOK, RecordType, TrustType, EventType, TaskType, CountType
  <1>2. HostInv' /\ ClaimInv'
    BY DEF IInv, TypeOK, HostInv, ClaimInv, Completing, Erasing, HostFree, HostIdle,
       FinishRollback, RolledBack, HostIdle, nvs, phase, trust, tasks, air
  <1>3. ASSUME Clean' PROVE LinkInv' /\ PhaseInv' /\ RecordInv'
    <2>1. Clean
      BY <1>3, SetupAssumption DEF Clean, FinishRollback, RolledBack, HostIdle, nvs, phase,
         trust, tasks, air
    <2>2. LinkInv'
      BY <1>3, <2>1 DEF IInv, TypeOK, Clean, LinkInv, HostFree, HostIdle, FinishRollback,
         RolledBack, HostIdle, nvs, phase, trust, tasks, air
    <2>3. PhaseInv'
      BY <1>3, <2>1 DEF IInv, TypeOK, Clean, PhaseInv, Wiping, WipeQueued, Erasing,
         Completing, HostFree, HostIdle, FinishRollback, RolledBack, HostIdle, nvs, phase,
         trust, tasks, air
    <2>4. RecordInv'
      BY <1>3, <2>1 DEF IInv, TypeOK, Clean, LinkInv, PhaseInv, RecordInv, Agreed,
         HalfWiped, Wiping, WipeQueued, Erasing, Completing, HostFree, HostIdle,
         FinishRollback, RolledBack, HostIdle, nvs, phase, trust, tasks, air
    <2>5. QED
      BY <2>2, <2>3, <2>4
  <1>4. QED
    BY <1>1, <1>2, <1>3 DEF IInv

LEMMA FinishDisarmStep ==
  ASSUME IInv, FinishDisarm
  PROVE  IInv'
  <1>1. TypeOK'
    <2>1. RecordType /\ TrustType /\ EventType /\ TaskType /\ CountType
      BY TypeParts DEF IInv
    <2>2. RecordType' /\ CountType'
      BY <2>1 DEF RecordType, CountType, FinishDisarm, nvs
    <2>3. TrustType' /\ EventType'
      BY <2>1 DEF TrustType, EventType, FinishDisarm, trust, air
    <2>4. TaskType'
      BY <2>1 DEF TaskType, FinishDisarm, HostIdle, air
    <2>5. QED
      BY <2>2, <2>3, <2>4 DEF TypeOK, RecordType, TrustType, EventType, TaskType,
         CountType
  <1>2. HostInv' /\ ClaimInv'
    BY DEF IInv, TypeOK, HostInv, ClaimInv, Completing, Erasing, HostFree, HostIdle,
       FinishDisarm, HostIdle, nvs, phase, trust, tasks, air
  <1>3. ASSUME Clean' PROVE LinkInv' /\ PhaseInv' /\ RecordInv'
    <2>1. Clean
      BY <1>3, SetupAssumption DEF Clean, FinishDisarm, HostIdle, nvs, phase, trust, tasks,
         air
    <2>2. LinkInv'
      BY <1>3, <2>1 DEF IInv, TypeOK, Clean, LinkInv, HostFree, HostIdle, FinishDisarm,
         HostIdle, nvs, phase, trust, tasks, air
    <2>3. PhaseInv'
      BY <1>3, <2>1 DEF IInv, TypeOK, Clean, PhaseInv, Wiping, WipeQueued, Erasing,
         Completing, HostFree, HostIdle, FinishDisarm, HostIdle, nvs, phase, trust, tasks,
         air
    <2>4. RecordInv'
      BY <1>3, <2>1 DEF IInv, TypeOK, Clean, LinkInv, PhaseInv, RecordInv, Agreed,
         HalfWiped, Wiping, WipeQueued, Erasing, Completing, HostFree, HostIdle,
         FinishDisarm, HostIdle, nvs, phase, trust, tasks, air
    <2>5. QED
      BY <2>2, <2>3, <2>4
  <1>4. QED
    BY <1>1, <1>2, <1>3 DEF IInv

-----------------------------------------------------------------------------
(* The admin task.                                                         *)

LEMMA PressStep ==
  ASSUME IInv, Press
  PROVE  IInv'
  <1>1. TypeOK'
    BY RoomType, SetupAssumption DEF IInv, TypeOK, HostInv, Tasks, Steps, Mishap, Modes,
       Press, Turn, nvs, phase, trust, tasks, air
  <1>2. HostInv' /\ ClaimInv'
    BY DEF IInv, TypeOK, HostInv, ClaimInv, Completing, Erasing, HostFree, HostIdle, Press,
       Turn, nvs, phase, trust, tasks, air
  <1>3. ASSUME Clean' PROVE LinkInv' /\ PhaseInv' /\ RecordInv'
    <2>1. Clean
      BY <1>3, SetupAssumption DEF Clean, Press, Turn, nvs, phase, trust, tasks, air
    <2>2. LinkInv'
      BY <1>3, <2>1 DEF IInv, TypeOK, Clean, LinkInv, HostFree, HostIdle, Press, Turn, nvs,
         phase, trust, tasks, air
    <2>3. PhaseInv'
      BY <1>3, <2>1 DEF IInv, TypeOK, Clean, PhaseInv, Wiping, WipeQueued, Erasing,
         Completing, HostFree, HostIdle, Press, Turn, nvs, phase, trust, tasks, air
    <2>4. RecordInv'
      BY <1>3, <2>1 DEF IInv, TypeOK, Clean, LinkInv, PhaseInv, RecordInv, Agreed,
         HalfWiped, Wiping, WipeQueued, Erasing, Completing, HostFree, HostIdle, Press,
         Turn, nvs, phase, trust, tasks, air
    <2>5. QED
      BY <2>2, <2>3, <2>4
  <1>4. QED
    BY <1>1, <1>2, <1>3 DEF IInv

LEMMA RearmStep ==
  ASSUME IInv, Rearm
  PROVE  IInv'
  <1>0. /\ events' \in Seq(Event) /\ Len(events') <= QueueDepth
        /\ mishaps' \subseteq Mishap /\ mishaps \subseteq mishaps'
        /\ mishaps' \ Faults \subseteq mishaps \cup (IF latch THEN {"raced"} ELSE {})
        /\ (IF latch THEN {"raced"} ELSE {}) \subseteq mishaps'
        /\ mishaps' \cap Faults # {} \/ (WipeQueued' <=> WipeQueued)
    <2>1. [action |-> "RECLAIM", peer |-> conn] \in Event
      BY DEF IInv, TypeOK, Event
    <2>2. (IF latch THEN {"raced"} ELSE {}) \in SUBSET Mishap
      BY DEF Mishap
    <2>3. QED
      BY <2>1, <2>2, EmitEffect DEF IInv, Rearm
  <1>1. TypeOK'
    <2>1. RecordType /\ TrustType /\ EventType /\ TaskType /\ CountType
      BY TypeParts DEF IInv
    <2>2. RecordType'
      BY <2>1 DEF IInv, RecordType, TaskType, HostInv, HostFree, HostIdle, Steps, Rearm,
         nvs, phase, trust, tasks, air
    <2>3. EventType'
      BY <1>0 DEF EventType
    <2>4. TaskType'
      BY <2>1 DEF IInv, TaskType, TrustType, RecordType, HostInv, Tasks, Modes, Rearm, nvs,
         phase, trust, tasks, air
    <2>5. CountType'
      BY <1>0, <2>1, SetupAssumption DEF IInv, CountType, Mishap, Rearm, nvs, phase, trust,
         tasks, air
    <2>6. TrustType'
      BY <2>1 DEF TrustType, Rearm, nvs, phase, trust, tasks, air
    <2>7. QED
      BY <2>2, <2>3, <2>4, <2>5, <2>6 DEF TypeOK, RecordType, TrustType, EventType,
         TaskType, CountType
  <1>2. HostInv' /\ ClaimInv'
    BY <1>0 DEF IInv, TypeOK, HostInv, ClaimInv, Completing, Erasing, HostFree, HostIdle,
       Rearm, nvs, phase, trust, tasks, air
  <1>3. ASSUME Clean' PROVE LinkInv' /\ PhaseInv' /\ RecordInv'
    <2>1. Clean
      BY <1>0, <1>3, SetupAssumption DEF Clean, Rearm, nvs, phase, trust, tasks, air
    <2>2. LinkInv'
      BY <1>0, <1>3, <2>1 DEF IInv, TypeOK, Clean, LinkInv, HostFree, HostIdle, Rearm, nvs,
         phase, trust, tasks, air
    <2>3. PhaseInv'
      BY <1>0, <1>3, <2>1 DEF IInv, TypeOK, Clean, PhaseInv, Wiping, Erasing, Completing,
         HostFree, HostIdle, Rearm, nvs, phase, trust, tasks, air
    <2>4. RecordInv'
      BY <1>0, <1>3, <2>1 DEF IInv, TypeOK, Clean, LinkInv, PhaseInv, RecordInv, Agreed,
         HalfWiped, Wiping, Erasing, Completing, HostFree, HostIdle, Rearm, nvs, phase,
         trust, tasks, air
    <2>5. QED
      BY <2>2, <2>3, <2>4
  <1>4. QED
    BY <1>1, <1>2, <1>3 DEF IInv

LEMMA IdleDropStep ==
  ASSUME IInv, IdleDrop
  PROVE  IInv'
  <1>0. /\ events' \in Seq(Event) /\ Len(events') <= QueueDepth
        /\ mishaps' \subseteq Mishap /\ mishaps \subseteq mishaps'
        /\ mishaps' \ Faults \subseteq mishaps
        /\ mishaps' \cap Faults # {} \/ (WipeQueued' <=> WipeQueued)
    <2>1. [action |-> "IDLE_DROP", peer |-> conn] \in Event
      BY DEF IInv, TypeOK, Event
    <2>2. {} \in SUBSET Mishap
      BY DEF Mishap
    <2>3. QED
      BY <2>1, <2>2, EmitEffect DEF IInv, IdleDrop
  <1>1. TypeOK'
    <2>1. RecordType /\ TrustType /\ EventType /\ TaskType /\ CountType
      BY TypeParts DEF IInv
    <2>2. RecordType'
      BY <2>1 DEF IInv, RecordType, TaskType, HostInv, HostFree, HostIdle, Steps, IdleDrop,
         nvs, phase, trust, tasks, air
    <2>3. EventType'
      BY <1>0 DEF EventType
    <2>4. CountType'
      BY <1>0, <2>1, SetupAssumption DEF IInv, CountType, Mishap, IdleDrop, nvs, phase,
         trust, tasks, air
    <2>5. TrustType' /\ TaskType'
      BY <2>1 DEF TrustType, TaskType, IdleDrop, nvs, phase, trust, tasks, air
    <2>6. QED
      BY <2>2, <2>3, <2>4, <2>5 DEF TypeOK, RecordType, TrustType, EventType, TaskType,
         CountType
  <1>2. HostInv' /\ ClaimInv'
    BY <1>0 DEF IInv, TypeOK, HostInv, ClaimInv, Completing, Erasing, HostFree, HostIdle,
       IdleDrop, nvs, phase, trust, tasks, air
  <1>3. ASSUME Clean' PROVE LinkInv' /\ PhaseInv' /\ RecordInv'
    <2>1. Clean
      BY <1>0, <1>3, SetupAssumption DEF Clean, IdleDrop, nvs, phase, trust, tasks, air
    <2>2. LinkInv'
      BY <1>0, <1>3, <2>1 DEF IInv, TypeOK, Clean, LinkInv, HostFree, HostIdle, IdleDrop,
         nvs, phase, trust, tasks, air
    <2>3. PhaseInv'
      BY <1>0, <1>3, <2>1 DEF IInv, TypeOK, Clean, PhaseInv, Wiping, Erasing, Completing,
         HostFree, HostIdle, IdleDrop, nvs, phase, trust, tasks, air
    <2>4. RecordInv'
      BY <1>0, <1>3, <2>1 DEF IInv, TypeOK, Clean, LinkInv, PhaseInv, RecordInv, Agreed,
         HalfWiped, Wiping, Erasing, Completing, HostFree, HostIdle, IdleDrop, nvs, phase,
         trust, tasks, air
    <2>5. QED
      BY <2>2, <2>3, <2>4
  <1>4. QED
    BY <1>1, <1>2, <1>3 DEF IInv

LEMMA ExpireStep ==
  ASSUME IInv, Expire
  PROVE  IInv'
  <1>1. TypeOK'
    BY SetupAssumption DEF IInv, TypeOK, HostInv, Tasks, Steps, Mishap, Modes, Expire,
       Noted, nvs, phase, trust, tasks, air
  <1>2. HostInv' /\ ClaimInv'
    BY DEF IInv, TypeOK, HostInv, ClaimInv, Completing, Erasing, HostFree, HostIdle,
       Expire, Noted, nvs, phase, trust, tasks, air
  <1>3. ASSUME Clean' PROVE LinkInv' /\ PhaseInv' /\ RecordInv'
    <2>1. Clean
      BY <1>3, SetupAssumption DEF Clean, Expire, Noted, nvs, phase, trust, tasks, air
    <2>2. LinkInv'
      BY <1>3, <2>1 DEF IInv, TypeOK, Clean, LinkInv, HostFree, HostIdle, Expire, Noted,
         nvs, phase, trust, tasks, air
    <2>3. PhaseInv'
      BY <1>3, <2>1 DEF IInv, TypeOK, Clean, PhaseInv, Wiping, WipeQueued, Erasing,
         Completing, HostFree, HostIdle, Expire, Noted, nvs, phase, trust, tasks, air
    <2>4. RecordInv'
      BY <1>3, <2>1 DEF IInv, TypeOK, Clean, LinkInv, PhaseInv, RecordInv, Agreed,
         HalfWiped, Wiping, WipeQueued, Erasing, Completing, HostFree, HostIdle, Expire,
         Noted, nvs, phase, trust, tasks, air
    <2>5. QED
      BY <2>2, <2>3, <2>4
  <1>4. QED
    BY <1>1, <1>2, <1>3 DEF IInv

LEMMA WipeAccountsStep ==
  ASSUME IInv, WipeAccounts
  PROVE  IInv'
  <1>1. TypeOK'
    <2>1. RecordType /\ TrustType /\ EventType /\ TaskType /\ CountType
      BY TypeParts DEF IInv
    <2>2. RecordType'
      BY <2>1 DEF IInv, RecordType, TaskType, HostInv, HostFree, HostIdle, Steps,
         WipeAccounts, Erases, Fault, CanFail, Fine, nvs, phase, trust, tasks, air
    <2>3. TaskType'
      BY <2>1 DEF IInv, TaskType, TrustType, RecordType, HostInv, Tasks, Modes,
         WipeAccounts, Erases, Fault, CanFail, Fine, nvs, phase, trust, tasks, air
    <2>4. CountType'
      BY <2>1, SetupAssumption DEF IInv, CountType, Mishap, WipeAccounts, Erases, Fault,
         CanFail, Fine, nvs, phase, trust, tasks, air
    <2>5. TrustType' /\ EventType'
      BY <2>1 DEF TrustType, EventType, WipeAccounts, Erases, Fault, CanFail, Fine, nvs,
         phase, trust, tasks, air
    <2>6. QED
      BY <2>2, <2>3, <2>4, <2>5 DEF TypeOK, RecordType, TrustType, EventType, TaskType,
         CountType
  <1>2. HostInv' /\ ClaimInv'
    BY DEF IInv, TypeOK, HostInv, ClaimInv, Completing, Erasing, HostFree, HostIdle,
       WipeAccounts, Erases, Fault, CanFail, Fine, nvs, phase, trust, tasks, air
  <1>3. ASSUME Clean' PROVE LinkInv' /\ PhaseInv' /\ RecordInv'
    <2>1. Clean
      BY <1>3, SetupAssumption DEF Clean, WipeAccounts, Erases, Fault, CanFail, Fine, nvs,
         phase, trust, tasks, air
    <2>2. LinkInv'
      BY <1>3, <2>1 DEF IInv, TypeOK, Clean, LinkInv, HostFree, HostIdle, WipeAccounts,
         Erases, Fault, CanFail, Fine, nvs, phase, trust, tasks, air
    <2>3. PhaseInv'
      BY <1>3, <2>1 DEF IInv, TypeOK, Clean, PhaseInv, Wiping, WipeQueued, Erasing,
         Completing, HostFree, HostIdle, WipeAccounts, Erases, Fault, CanFail, Fine, nvs,
         phase, trust, tasks, air
    <2>4. RecordInv'
      BY <1>3, <2>1 DEF IInv, TypeOK, Clean, LinkInv, PhaseInv, RecordInv, Agreed,
         HalfWiped, Wiping, WipeQueued, Erasing, Completing, HostFree, HostIdle,
         WipeAccounts, Erases, Fault, CanFail, Fine, nvs, phase, trust, tasks, air
    <2>5. QED
      BY <2>2, <2>3, <2>4
  <1>4. QED
    BY <1>1, <1>2, <1>3 DEF IInv

LEMMA WipeAdmissionsStep ==
  ASSUME IInv, WipeAdmissions
  PROVE  IInv'
  <1>1. TypeOK'
    <2>1. RecordType /\ TrustType /\ EventType /\ TaskType /\ CountType
      BY TypeParts DEF IInv
    <2>2. RecordType'
      BY <2>1 DEF IInv, RecordType, TaskType, HostInv, HostFree, HostIdle, Steps,
         WipeAdmissions, Erases, Fault, CanFail, Fine, nvs, phase, trust, tasks, air
    <2>3. TaskType'
      BY <2>1 DEF IInv, TaskType, TrustType, RecordType, HostInv, Tasks, Modes,
         WipeAdmissions, Erases, Fault, CanFail, Fine, nvs, phase, trust, tasks, air
    <2>4. CountType'
      BY <2>1, SetupAssumption DEF IInv, CountType, Mishap, WipeAdmissions, Erases, Fault,
         CanFail, Fine, nvs, phase, trust, tasks, air
    <2>5. TrustType' /\ EventType'
      BY <2>1 DEF TrustType, EventType, WipeAdmissions, Erases, Fault, CanFail, Fine, nvs,
         phase, trust, tasks, air
    <2>6. QED
      BY <2>2, <2>3, <2>4, <2>5 DEF TypeOK, RecordType, TrustType, EventType, TaskType,
         CountType
  <1>2. HostInv' /\ ClaimInv'
    BY DEF IInv, TypeOK, HostInv, ClaimInv, Completing, Erasing, HostFree, HostIdle,
       WipeAdmissions, Erases, Fault, CanFail, Fine, nvs, phase, trust, tasks, air
  <1>3. ASSUME Clean' PROVE LinkInv' /\ PhaseInv' /\ RecordInv'
    <2>1. Clean
      BY <1>3, SetupAssumption DEF Clean, WipeAdmissions, Erases, Fault, CanFail, Fine,
         nvs, phase, trust, tasks, air
    <2>2. LinkInv'
      BY <1>3, <2>1 DEF IInv, TypeOK, Clean, LinkInv, HostFree, HostIdle, WipeAdmissions,
         Erases, Fault, CanFail, Fine, nvs, phase, trust, tasks, air
    <2>3. PhaseInv'
      BY <1>3, <2>1 DEF IInv, TypeOK, Clean, PhaseInv, Wiping, WipeQueued, Erasing,
         Completing, HostFree, HostIdle, WipeAdmissions, Erases, Fault, CanFail, Fine, nvs,
         phase, trust, tasks, air
    <2>4. RecordInv'
      BY <1>3, <2>1 DEF IInv, TypeOK, Clean, LinkInv, PhaseInv, RecordInv, Agreed,
         HalfWiped, Wiping, WipeQueued, Erasing, Completing, HostFree, HostIdle,
         WipeAdmissions, Erases, Fault, CanFail, Fine, nvs, phase, trust, tasks, air
    <2>5. QED
      BY <2>2, <2>3, <2>4
  <1>4. QED
    BY <1>1, <1>2, <1>3 DEF IInv

LEMMA WipeNukiStep ==
  ASSUME IInv, WipeNuki
  PROVE  IInv'
  <1>1. TypeOK'
    <2>1. RecordType /\ TrustType /\ EventType /\ TaskType /\ CountType
      BY TypeParts DEF IInv
    <2>2. RecordType'
      BY <2>1 DEF IInv, RecordType, TaskType, HostInv, HostFree, HostIdle, Steps, WipeNuki,
         Erases, Fault, CanFail, Fine, nvs, phase, trust, tasks, air
    <2>3. TaskType'
      BY <2>1 DEF IInv, TaskType, TrustType, RecordType, HostInv, Tasks, Modes, WipeNuki,
         Erases, Fault, CanFail, Fine, nvs, phase, trust, tasks, air
    <2>4. CountType'
      BY <2>1, SetupAssumption DEF IInv, CountType, Mishap, WipeNuki, Erases, Fault,
         CanFail, Fine, nvs, phase, trust, tasks, air
    <2>5. TrustType' /\ EventType'
      BY <2>1 DEF TrustType, EventType, WipeNuki, Erases, Fault, CanFail, Fine, nvs, phase,
         trust, tasks, air
    <2>6. QED
      BY <2>2, <2>3, <2>4, <2>5 DEF TypeOK, RecordType, TrustType, EventType, TaskType,
         CountType
  <1>2. HostInv' /\ ClaimInv'
    BY DEF IInv, TypeOK, HostInv, ClaimInv, Completing, Erasing, HostFree, HostIdle,
       WipeNuki, Erases, Fault, CanFail, Fine, nvs, phase, trust, tasks, air
  <1>3. ASSUME Clean' PROVE LinkInv' /\ PhaseInv' /\ RecordInv'
    <2>1. Clean
      BY <1>3, SetupAssumption DEF Clean, WipeNuki, Erases, Fault, CanFail, Fine, nvs,
         phase, trust, tasks, air
    <2>2. LinkInv'
      BY <1>3, <2>1 DEF IInv, TypeOK, Clean, LinkInv, HostFree, HostIdle, WipeNuki, Erases,
         Fault, CanFail, Fine, nvs, phase, trust, tasks, air
    <2>3. PhaseInv'
      BY <1>3, <2>1 DEF IInv, TypeOK, Clean, PhaseInv, Wiping, WipeQueued, Erasing,
         Completing, HostFree, HostIdle, WipeNuki, Erases, Fault, CanFail, Fine, nvs,
         phase, trust, tasks, air
    <2>4. RecordInv'
      BY <1>3, <2>1 DEF IInv, TypeOK, Clean, LinkInv, PhaseInv, RecordInv, Agreed,
         HalfWiped, Wiping, WipeQueued, Erasing, Completing, HostFree, HostIdle, WipeNuki,
         Erases, Fault, CanFail, Fine, nvs, phase, trust, tasks, air
    <2>5. QED
      BY <2>2, <2>3, <2>4
  <1>4. QED
    BY <1>1, <1>2, <1>3 DEF IInv

LEMMA WipeCacheStep ==
  ASSUME IInv, WipeCache
  PROVE  IInv'
  <1>1. TypeOK'
    <2>1. RecordType /\ TrustType /\ EventType /\ TaskType /\ CountType
      BY TypeParts DEF IInv
    <2>2. RecordType'
      BY <2>1 DEF IInv, RecordType, TaskType, HostInv, HostFree, HostIdle, Steps,
         WipeCache, Erases, Fault, CanFail, Fine, nvs, phase, trust, tasks, air
    <2>3. TaskType'
      BY <2>1 DEF IInv, TaskType, TrustType, RecordType, HostInv, Tasks, Modes, WipeCache,
         Erases, Fault, CanFail, Fine, nvs, phase, trust, tasks, air
    <2>4. CountType'
      BY <2>1, SetupAssumption DEF IInv, CountType, Mishap, WipeCache, Erases, Fault,
         CanFail, Fine, nvs, phase, trust, tasks, air
    <2>5. TrustType' /\ EventType'
      BY <2>1 DEF TrustType, EventType, WipeCache, Erases, Fault, CanFail, Fine, nvs,
         phase, trust, tasks, air
    <2>6. QED
      BY <2>2, <2>3, <2>4, <2>5 DEF TypeOK, RecordType, TrustType, EventType, TaskType,
         CountType
  <1>2. HostInv' /\ ClaimInv'
    BY DEF IInv, TypeOK, HostInv, ClaimInv, Completing, Erasing, HostFree, HostIdle,
       WipeCache, Erases, Fault, CanFail, Fine, nvs, phase, trust, tasks, air
  <1>3. ASSUME Clean' PROVE LinkInv' /\ PhaseInv' /\ RecordInv'
    <2>1. Clean
      BY <1>3, SetupAssumption DEF Clean, WipeCache, Erases, Fault, CanFail, Fine, nvs,
         phase, trust, tasks, air
    <2>2. LinkInv'
      BY <1>3, <2>1 DEF IInv, TypeOK, Clean, LinkInv, HostFree, HostIdle, WipeCache,
         Erases, Fault, CanFail, Fine, nvs, phase, trust, tasks, air
    <2>3. PhaseInv'
      BY <1>3, <2>1 DEF IInv, TypeOK, Clean, PhaseInv, Wiping, WipeQueued, Erasing,
         Completing, HostFree, HostIdle, WipeCache, Erases, Fault, CanFail, Fine, nvs,
         phase, trust, tasks, air
    <2>4. RecordInv'
      BY <1>3, <2>1 DEF IInv, TypeOK, Clean, LinkInv, PhaseInv, RecordInv, Agreed,
         HalfWiped, Wiping, WipeQueued, Erasing, Completing, HostFree, HostIdle, WipeCache,
         Erases, Fault, CanFail, Fine, nvs, phase, trust, tasks, air
    <2>5. QED
      BY <2>2, <2>3, <2>4
  <1>4. QED
    BY <1>1, <1>2, <1>3 DEF IInv

LEMMA WipeEmitStep ==
  ASSUME IInv, WipeEmit
  PROVE  IInv'
  <1>0. /\ events' \in Seq(Event) /\ Len(events') <= QueueDepth
        /\ mishaps' \subseteq Mishap /\ mishaps \subseteq mishaps'
        /\ mishaps' \ Faults \subseteq mishaps
        /\ mishaps' \cap Faults # {} \/ WipeQueued'
    <2>1. [action |-> "TIMEOUT", peer |-> Nobody] \in Event
      BY DEF IInv, TypeOK, Event
    <2>2. {} \in SUBSET Mishap
      BY DEF Mishap
    <2>3. QED
      BY <2>1, <2>2, EmitEffect DEF IInv, WipeEmit
  <1>1. TypeOK'
    <2>1. RecordType /\ TrustType /\ EventType /\ TaskType /\ CountType
      BY TypeParts DEF IInv
    <2>2. EventType'
      BY <1>0 DEF EventType
    <2>3. TaskType'
      BY <2>1 DEF IInv, TaskType, TrustType, RecordType, HostInv, Tasks, Modes, WipeEmit,
         Erases, nvs, phase, trust, tasks, air
    <2>4. CountType'
      BY <1>0, <2>1, SetupAssumption DEF IInv, CountType, Mishap, WipeEmit, Erases, nvs,
         phase, trust, tasks, air
    <2>5. RecordType' /\ TrustType'
      BY <2>1 DEF RecordType, TrustType, WipeEmit, Erases, nvs, phase, trust, tasks, air
    <2>6. QED
      BY <2>2, <2>3, <2>4, <2>5 DEF TypeOK, RecordType, TrustType, EventType, TaskType,
         CountType
  <1>2. HostInv' /\ ClaimInv'
    BY <1>0 DEF IInv, TypeOK, HostInv, ClaimInv, Completing, Erasing, HostFree, HostIdle,
       WipeEmit, Erases, nvs, phase, trust, tasks, air
  <1>3. ASSUME Clean' PROVE LinkInv' /\ PhaseInv' /\ RecordInv'
    <2>1. Clean
      BY <1>0, <1>3, SetupAssumption DEF Clean, WipeEmit, Erases, nvs, phase, trust, tasks,
         air
    <2>2. LinkInv'
      BY <1>0, <1>3, <2>1 DEF IInv, TypeOK, Clean, LinkInv, HostFree, HostIdle, WipeEmit,
         Erases, nvs, phase, trust, tasks, air
    <2>3. PhaseInv'
      BY <1>0, <1>3, <2>1 DEF IInv, TypeOK, Clean, PhaseInv, Wiping, Erasing, Completing,
         HostFree, HostIdle, WipeEmit, Erases, nvs, phase, trust, tasks, air
    <2>4. RecordInv'
      BY <1>0, <1>3, <2>1 DEF IInv, TypeOK, Clean, LinkInv, PhaseInv, RecordInv, Agreed,
         HalfWiped, Wiping, Erasing, Completing, HostFree, HostIdle, WipeEmit, Erases, nvs,
         phase, trust, tasks, air
    <2>5. QED
      BY <2>2, <2>3, <2>4
  <1>4. QED
    BY <1>1, <1>2, <1>3 DEF IInv

-----------------------------------------------------------------------------
(* The router.                                                             *)

LEMMA OnTimeoutStep ==
  ASSUME IInv, OnTimeout
  PROVE  IInv'
  <1>0. /\ events' \in Seq(Event) /\ Len(events') <= QueueDepth
        /\ (WipeQueued' => WipeQueued) /\ WipeQueued
        /\ Head(events) \in Event /\ router = "idle" /\ plan["router"] = "none"
    BY TakenEffect DEF IInv, OnTimeout, Next1
  <1>1. TypeOK'
    <2>1. RecordType /\ TrustType /\ TaskType /\ CountType
      BY TypeParts DEF IInv
    <2>2. RecordType' /\ TrustType' /\ EventType'
      BY <1>0, <2>1 DEF RecordType, TrustType, EventType, OnTimeout, Terminated, phase, trust
    <2>3. TaskType'
      BY <2>1 DEF TaskType, OnTimeout
    <2>4. CountType'
      BY <2>1 DEF CountType, Mishap, OnTimeout, Fault, CanFail, Fine
    <2>5. QED
      BY <2>2, <2>3, <2>4 DEF TypeOK, RecordType, TrustType, EventType, TaskType, CountType
  <1>2. HostInv' /\ ClaimInv'
    <2>1. UNCHANGED <<latch, admitted, done, armed, host, admin>> /\ mishaps \subseteq mishaps'
      BY DEF OnTimeout, Fault, Fine, phase
    <2>2. QED
      BY <1>0, <2>1 DEF IInv, HostInv, ClaimInv, Completing, Erasing
  <1>3. ASSUME Clean' PROVE LinkInv' /\ PhaseInv' /\ RecordInv'
    <2>1. Clean /\ bonds' = {} /\ UNCHANGED mishaps
      BY <1>3, SetupAssumption DEF Clean, OnTimeout, Fault, CanFail, Fine
    <2>2. LinkInv'
      BY <1>0, <1>3, <2>1 DEF IInv, TypeOK, Clean, LinkInv, HostFree, HostIdle, OnTimeout,
         Terminated, nvs, phase, trust, tasks, air
    <2>3. PhaseInv'
      BY <1>0, <1>3, <2>1 DEF IInv, TypeOK, Clean, PhaseInv, Wiping, Erasing, Completing,
         HostFree, HostIdle, OnTimeout, Terminated, nvs, phase, trust, tasks, air
    <2>4. RecordInv'
      BY <1>0, <1>3, <2>1 DEF IInv, TypeOK, Clean, LinkInv, PhaseInv, RecordInv, Agreed,
         HalfWiped, Wiping, Erasing, Completing, HostFree, HostIdle, OnTimeout, Terminated,
         nvs, phase, trust, tasks, air
    <2>5. QED
      BY <2>2, <2>3, <2>4
  <1>4. QED
    BY <1>1, <1>2, <1>3 DEF IInv

LEMMA OnTimeoutSilenceStep ==
  ASSUME IInv, OnTimeoutSilence
  PROVE  IInv'
  <1>1. TypeOK'
    <2>1. RecordType /\ TrustType /\ EventType /\ TaskType /\ CountType
      BY TypeParts DEF IInv
    <2>2. TrustType'
      BY <2>1 DEF IInv, TrustType, RecordType, TaskType, HostInv, HostFree, HostIdle,
         OnTimeoutSilence, Silenced, Fault, CanFail, Fine, nvs, phase, trust, tasks, air
    <2>3. TaskType'
      BY <2>1 DEF IInv, TaskType, TrustType, RecordType, HostInv, Tasks, Modes,
         OnTimeoutSilence, Silenced, Fault, CanFail, Fine, nvs, phase, trust, tasks, air
    <2>4. CountType'
      BY <2>1, SetupAssumption DEF IInv, CountType, Mishap, OnTimeoutSilence, Silenced,
         Fault, CanFail, Fine, nvs, phase, trust, tasks, air
    <2>5. RecordType' /\ EventType'
      BY <2>1 DEF RecordType, EventType, OnTimeoutSilence, Silenced, Fault, CanFail, Fine,
         nvs, phase, trust, tasks, air
    <2>6. QED
      BY <2>2, <2>3, <2>4, <2>5 DEF TypeOK, RecordType, TrustType, EventType, TaskType,
         CountType
  <1>2. HostInv' /\ ClaimInv'
    BY DEF IInv, TypeOK, HostInv, ClaimInv, Completing, Erasing, HostFree, HostIdle,
       OnTimeoutSilence, Silenced, Fault, CanFail, Fine, nvs, phase, trust, tasks, air
  <1>3. ASSUME Clean' PROVE LinkInv' /\ PhaseInv' /\ RecordInv'
    <2>1. Clean
      BY <1>3, SetupAssumption DEF Clean, OnTimeoutSilence, Silenced, Fault, CanFail, Fine,
         nvs, phase, trust, tasks, air
    <2>2. LinkInv'
      BY <1>3, <2>1 DEF IInv, TypeOK, Clean, LinkInv, HostFree, HostIdle, OnTimeoutSilence,
         Silenced, Fault, CanFail, Fine, nvs, phase, trust, tasks, air
    <2>3. PhaseInv'
      BY <1>3, <2>1 DEF IInv, TypeOK, Clean, PhaseInv, Wiping, WipeQueued, Erasing,
         Completing, HostFree, HostIdle, OnTimeoutSilence, Silenced, Fault, CanFail, Fine,
         nvs, phase, trust, tasks, air
    <2>4. RecordInv'
      BY <1>3, <2>1 DEF IInv, TypeOK, Clean, LinkInv, PhaseInv, RecordInv, Agreed,
         HalfWiped, Wiping, WipeQueued, Erasing, Completing, HostFree, HostIdle,
         OnTimeoutSilence, Silenced, Fault, CanFail, Fine, nvs, phase, trust, tasks, air
    <2>5. QED
      BY <2>2, <2>3, <2>4
  <1>4. QED
    BY <1>1, <1>2, <1>3 DEF IInv

LEMMA OnIdleDropStep ==
  ASSUME IInv, OnIdleDrop
  PROVE  IInv'
  <1>0. /\ events' \in Seq(Event) /\ Len(events') <= QueueDepth
        /\ WipeQueued' <=> WipeQueued
        /\ Head(events) \in Event /\ router = "idle" /\ plan["router"] = "none"
    BY TakenEffect DEF IInv, OnIdleDrop, Next1
  <1>1. TypeOK'
    <2>1. RecordType /\ TrustType /\ EventType /\ TaskType /\ CountType
      BY TypeParts DEF IInv
    <2>2. TrustType'
      BY <1>0, <2>1 DEF IInv, TrustType, RecordType, TaskType, HostInv, HostFree, HostIdle,
         Event, OnIdleDrop, Terminated, nvs, phase, trust, tasks, air
    <2>3. EventType'
      BY <1>0 DEF EventType
    <2>4. RecordType' /\ TaskType' /\ CountType'
      BY <2>1 DEF RecordType, TaskType, CountType, OnIdleDrop, Terminated, nvs, phase,
         trust, tasks, air
    <2>5. QED
      BY <2>2, <2>3, <2>4 DEF TypeOK, RecordType, TrustType, EventType, TaskType, CountType
  <1>2. HostInv' /\ ClaimInv'
    BY <1>0 DEF IInv, TypeOK, HostInv, ClaimInv, Completing, Erasing, HostFree, HostIdle,
       OnIdleDrop, Terminated, nvs, phase, trust, tasks, air
  <1>3. ASSUME Clean' PROVE LinkInv' /\ PhaseInv' /\ RecordInv'
    <2>1. Clean
      BY <1>0, <1>3, SetupAssumption DEF Clean, OnIdleDrop, Terminated, nvs, phase, trust,
         tasks, air
    <2>2. LinkInv'
      BY <1>0, <1>3, <2>1 DEF IInv, TypeOK, Clean, LinkInv, HostFree, HostIdle, OnIdleDrop,
         Terminated, nvs, phase, trust, tasks, air
    <2>3. PhaseInv'
      BY <1>0, <1>3, <2>1 DEF IInv, TypeOK, Clean, PhaseInv, Wiping, Erasing, Completing,
         HostFree, HostIdle, OnIdleDrop, Terminated, nvs, phase, trust, tasks, air
    <2>4. RecordInv'
      BY <1>0, <1>3, <2>1 DEF IInv, TypeOK, Clean, LinkInv, PhaseInv, RecordInv, Agreed,
         HalfWiped, Wiping, Erasing, Completing, HostFree, HostIdle, OnIdleDrop,
         Terminated, nvs, phase, trust, tasks, air
    <2>5. QED
      BY <2>2, <2>3, <2>4
  <1>4. QED
    BY <1>1, <1>2, <1>3 DEF IInv

LEMMA OnReclaimStep ==
  ASSUME IInv, OnReclaim
  PROVE  IInv'
  <1>0. /\ events' \in Seq(Event) /\ Len(events') <= QueueDepth
        /\ WipeQueued' <=> WipeQueued
        /\ Head(events) \in Event /\ router = "idle" /\ plan["router"] = "none"
    BY TakenEffect DEF IInv, OnReclaim, Next1
  <1>1. TypeOK'
    BY <1>0, RestartingType, ModeType, SetupAssumption DEF IInv, TypeOK, HostInv, Tasks,
       Steps, Mishap, Modes, OnReclaim, Terminated, Mode, nvs, phase, trust, tasks, air
  <1>2. HostInv' /\ ClaimInv'
    BY <1>0 DEF IInv, TypeOK, HostInv, ClaimInv, Completing, Erasing, HostFree, HostIdle,
       OnReclaim, Terminated, Mode, nvs, phase, trust, tasks, air
  <1>3. ASSUME Clean' PROVE LinkInv' /\ PhaseInv' /\ RecordInv'
    <2>1. Clean
      BY <1>0, <1>3, SetupAssumption DEF Clean, OnReclaim, Terminated, Mode, nvs, phase,
         trust, tasks, air
    <2>2. LinkInv'
      BY <1>0, <1>3, <2>1 DEF IInv, TypeOK, Clean, LinkInv, HostFree, HostIdle, OnReclaim,
         Terminated, Mode, nvs, phase, trust, tasks, air
    <2>3. PhaseInv'
      BY <1>0, <1>3, <2>1 DEF IInv, TypeOK, Clean, PhaseInv, Wiping, Erasing, Completing,
         HostFree, HostIdle, OnReclaim, Terminated, Mode, nvs, phase, trust, tasks, air
    <2>4. RecordInv'
      BY <1>0, <1>3, <2>1 DEF IInv, TypeOK, Clean, LinkInv, PhaseInv, RecordInv, Agreed,
         HalfWiped, Wiping, Erasing, Completing, HostFree, HostIdle, OnReclaim, Terminated,
         Mode, nvs, phase, trust, tasks, air
    <2>5. QED
      BY <2>2, <2>3, <2>4
  <1>4. QED
    BY <1>1, <1>2, <1>3 DEF IInv

-----------------------------------------------------------------------------
(* Factory reset and restart.                                              *)

LEMMA FactoryResetStep ==
  ASSUME IInv, FactoryReset
  PROVE  IInv'
  <1>1. TypeOK'
    <2>1. RecordType /\ TrustType /\ EventType /\ TaskType /\ CountType
      BY TypeParts DEF IInv
    <2>2. RecordType'
      BY <2>1 DEF IInv, RecordType, TaskType, HostInv, HostFree, HostIdle, Steps,
         FactoryReset, Turn, Noted, nvs, phase, trust, tasks, air
    <2>3. TaskType'
      BY <2>1 DEF IInv, TaskType, TrustType, RecordType, HostInv, Tasks, Modes,
         FactoryReset, Turn, Noted, nvs, phase, trust, tasks, air
    <2>4. CountType'
      BY RoomType, <2>1, SetupAssumption DEF IInv, CountType, Mishap, FactoryReset, Turn,
         Noted, nvs, phase, trust, tasks, air
    <2>5. TrustType' /\ EventType'
      BY <2>1 DEF TrustType, EventType, FactoryReset, Turn, Noted, nvs, phase, trust,
         tasks, air
    <2>6. QED
      BY <2>2, <2>3, <2>4, <2>5 DEF TypeOK, RecordType, TrustType, EventType, TaskType,
         CountType
  <1>2. HostInv' /\ ClaimInv'
    BY DEF IInv, TypeOK, HostInv, ClaimInv, Completing, Erasing, HostFree, HostIdle,
       FactoryReset, Turn, Noted, nvs, phase, trust, tasks, air
  <1>3. ASSUME Clean' PROVE LinkInv' /\ PhaseInv' /\ RecordInv'
    <2>1. Clean
      BY <1>3, SetupAssumption DEF Clean, FactoryReset, Turn, Noted, nvs, phase, trust,
         tasks, air
    <2>2. LinkInv'
      BY <1>3, <2>1 DEF IInv, TypeOK, Clean, LinkInv, HostFree, HostIdle, FactoryReset,
         Turn, Noted, nvs, phase, trust, tasks, air
    <2>3. PhaseInv'
      BY <1>3, <2>1 DEF IInv, TypeOK, Clean, PhaseInv, Wiping, WipeQueued, Erasing,
         Completing, HostFree, HostIdle, FactoryReset, Turn, Noted, nvs, phase, trust,
         tasks, air
    <2>4. RecordInv'
      BY <1>3, <2>1 DEF IInv, TypeOK, Clean, LinkInv, PhaseInv, RecordInv, Agreed,
         HalfWiped, Wiping, WipeQueued, Erasing, Completing, HostFree, HostIdle,
         FactoryReset, Turn, Noted, nvs, phase, trust, tasks, air
    <2>5. QED
      BY <2>2, <2>3, <2>4
  <1>4. QED
    BY <1>1, <1>2, <1>3 DEF IInv

\* A restart begins with the records in NVS and nothing else.
LEMMA BootInv ==
  ASSUME IInv, Boot, turns' \in 0..MaxTurns, mishaps' = AfterBoot
  PROVE  IInv'
  <1>1. TypeOK'
    <2>1. RecordType /\ TrustType /\ EventType /\ TaskType /\ CountType
      BY TypeParts DEF IInv
    <2>2. RecordType'
      BY <2>1 DEF RecordType, Boot, nvs
    <2>3. TrustType'
      BY <2>1 DEF TrustType, RecordType, Boot, Seeded, NoLink, nvs
    <2>4. EventType'
      BY SetupAssumption DEF EventType, Boot
    <2>5. TaskType'
      <3>1. adv' \in Modes
        BY <2>1, ModeType DEF Boot, RecordType
      <3>2. QED
        BY <3>1 DEF Boot, TaskType, HostIdle, NoPlan
    <2>6. CountType'
      BY <2>1 DEF CountType, AfterBoot, Mishap
    <2>7. QED
      BY <2>2, <2>3, <2>4, <2>5, <2>6 DEF TypeOK, RecordType, TrustType, EventType,
         TaskType, CountType
  <1>2. HostInv' /\ ClaimInv'
    BY DEF IInv, TypeOK, HostInv, ClaimInv, Completing, Erasing, HostIdle, Boot, AfterBoot,
       Passing, nvs
  <1>3. ASSUME Clean' PROVE LinkInv' /\ PhaseInv' /\ RecordInv'
    <2>1. Clean /\ host.at \notin {"unbond", "unadmit"}
      BY <1>3, SetupAssumption DEF Clean, AfterBoot, Passing
    <2>2. LinkInv'
      BY DEF LinkInv, Boot, NoLink
    <2>3. ~WipeQueued'
      BY DEF WipeQueued, Boot
    <2>4. PhaseInv'
      BY <2>3 DEF PhaseInv, Wiping, Erasing, Boot, HostIdle
    <2>5. RecordInv'
      BY <2>1, <2>3 DEF IInv, RecordInv, Agreed, HalfWiped, Boot, HostIdle, Seeded, nvs
    <2>6. QED
      BY <2>2, <2>4, <2>5
  <1>4. QED
    BY <1>1, <1>2, <1>3 DEF IInv

LEMMA FactoryRestartStep ==
  ASSUME IInv, FactoryRestart
  PROVE  IInv'
  BY BootInv DEF IInv, TypeOK, FactoryRestart

LEMMA ResetStep ==
  ASSUME IInv, Reset
  PROVE  IInv'
  BY BootInv, RoomType DEF IInv, Reset, Turn

-----------------------------------------------------------------------------
(* The invariant.                                                          *)

LEMMA InitInv == Init => IInv
  <1> SUFFICES ASSUME Init PROVE IInv
    OBVIOUS
  <1>1. ModeFor(FALSE, latch, ~latch) \in Modes
    BY ModeType DEF Init
  <1>2. TypeOK
    <2>1. RecordType
      BY DEF Init, RecordType
    <2>2. TrustType
      BY <2>1 DEF Init, TrustType, RecordType, Seeded, NoLink
    <2>3. EventType
      BY SetupAssumption DEF Init, EventType
    <2>4. TaskType
      BY <1>1 DEF Init, TaskType, HostIdle, NoPlan
    <2>5. CountType
      BY SetupAssumption DEF Init, CountType
    <2>6. QED
      BY <2>1, <2>2, <2>3, <2>4, <2>5, TypeParts
  <1>3. HostInv /\ ClaimInv
    BY DEF Init, HostInv, ClaimInv, Completing, Erasing, HostIdle
  <1>4. ~WipeQueued
    BY DEF Init, WipeQueued
  <1>5. LinkInv /\ PhaseInv /\ RecordInv
    BY <1>4 DEF Init, LinkInv, PhaseInv, RecordInv, Agreed, HalfWiped, Wiping, Erasing,
       HostIdle, NoLink, Seeded
  <1>6. QED
    BY <1>2, <1>3, <1>5 DEF IInv

LEMMA StutterInv == IInv /\ UNCHANGED vars => IInv'
  <1> SUFFICES ASSUME IInv, UNCHANGED vars PROVE IInv'
    OBVIOUS
  <1>1. /\ UNCHANGED <<latch, admitted, bonds, done, armed, conn, asked, allow, window, wtimer>>
        /\ UNCHANGED <<slots, events, host, admin, router, plan, link, closing, adv, wl>>
        /\ UNCHANGED <<turns, mishaps>>
    BY DEF vars, nvs, phase, trust, tasks, air
  <1>2. TypeOK' /\ HostInv' /\ ClaimInv'
    BY <1>1 DEF IInv, TypeOK, HostInv, ClaimInv, Completing, Erasing
  <1>3. (Clean' => Clean) /\ (LinkInv => LinkInv') /\ (WipeQueued' <=> WipeQueued)
    BY <1>1 DEF Clean, LinkInv, WipeQueued
  <1>4. (PhaseInv => PhaseInv') /\ (RecordInv => RecordInv')
    BY <1>1, <1>3 DEF PhaseInv, RecordInv, Agreed, HalfWiped, Wiping, Erasing, Completing
  <1>5. QED
    BY <1>2, <1>3, <1>4 DEF IInv

LEMMA NextInv == IInv /\ [Next]_vars => IInv'
  <1> SUFFICES ASSUME IInv, [Next]_vars PROVE IInv'
    OBVIOUS
  <1>1. CASE \E p \in Peers : Connect(p) \/ Disconnect(p) \/ Encrypt(p) \/ Evict(p) \/ FinishSetup(p)
    BY <1>1, ConnectStep, DisconnectStep, EncryptStep, EvictStep, FinishSetupStep
  <1>2. CASE (\E t \in Tasks : StartAdvertising(t)) \/ OpenWindow \/ WindowTimeout
    BY <1>2, StartAdvertisingStep, OpenWindowStep, WindowTimeoutStep
  <1>3. CASE (\E step \in Steps : WizardAsk(step)) \/ WizardEnds
    BY <1>3, WizardAskStep, WizardEndsStep
  <1>4. CASE HostStep
    BY <1>4, PersistAdmissionStep, EvictBondStep, EvictAdmissionStep, FinishAdmitStep,
       FinishLatchStep, FinishListStep, FinishRollbackStep, FinishDisarmStep DEF HostStep
  <1>5. CASE AdminStep
    BY <1>5, WipeAccountsStep, WipeAdmissionsStep, WipeNukiStep, WipeCacheStep,
       WipeEmitStep,
       RearmStep, ExpireStep, FactoryRestartStep DEF AdminStep
  <1>6. CASE RouterStep
    BY <1>6, OnTimeoutStep, OnTimeoutSilenceStep, OnIdleDropStep,
       OnReclaimStep DEF RouterStep
  <1>7. CASE Press \/ IdleDrop \/ FactoryReset \/ Reset
    BY <1>7, PressStep, IdleDropStep, FactoryResetStep, ResetStep
  <1>8. CASE UNCHANGED vars
    BY <1>8, StutterInv
  <1>9. QED
    BY <1>1, <1>2, <1>3, <1>4, <1>5, <1>6, <1>7, <1>8 DEF Next

LEMMA Invariance == Spec => []IInv
  BY InitInv, NextInv, PTL DEF Spec

\* Every variable keeps its type: no task has planned to start advertising in a mode
\* that means silence, and no more events wait than the queue holds.
THEOREM TypeCorrect == Spec => []TypeOK
  <1>1. IInv => TypeOK
    BY DEF IInv
  <1>2. QED
    BY <1>1, Invariance, PTL

\* Short of the race with a wipe, a device at rest with its latch set is claimed as a
\* whole, whichever of the steps of sdf_app_on_setup_complete fails or is cut short.
THEOREM ClaimedWhole == Spec => []ClaimWhole
  <1>1. IInv => ClaimWhole
    BY DEF IInv, ClaimInv, ClaimWhole, Rest, HostFree, HostIdle
  <1>2. QED
    BY <1>1, Invariance, PTL

\* At rest the allow list is what the next boot seeds from the records, and no admission
\* is without a bond, whatever was claimed, admitted, evicted, wiped or reset before.
THEOREM TrustSurvivesReboot == Spec => []RebootKeepsTrust
  <1>1. IInv => RebootKeepsTrust
    <2>1. ASSUME IInv, Rest, Clean
          PROVE  allow = admitted /\ admitted \subseteq bonds
      <3>1. ~WipeQueued
        BY <2>1 DEF Rest, WipeQueued
      <3>2. QED
        BY <2>1, <3>1 DEF IInv, Rest, HostFree, HostIdle, RecordInv, Agreed, HalfWiped
    <2>2. QED
      BY <2>1 DEF RebootKeepsTrust, Clean
  <1>2. QED
    BY <1>1, Invariance, PTL

-----------------------------------------------------------------------------
(* Lemmas about the event queue and the mishaps.                           *)

\* An event that is emitted waits behind the others, unless it is lost.
LEMMA EmitWaits ==
  ASSUME TypeOK, NEW e \in Event, NEW noted, Emit(e, noted), "lost" \notin mishaps'
  PROVE  /\ mishaps' = mishaps \cup noted
         /\ Reclaiming' <=> Reclaiming \/ e.action = "RECLAIM"
         /\ WipeQueued' <=> WipeQueued \/ e.action = "TIMEOUT"
         /\ \A p : DropWaiting(p)' <=> DropWaiting(p) \/ e = [action |-> "IDLE_DROP", peer |-> p]
         /\ e.action = "RECLAIM" => Behind'
         /\ Behind /\ e.action # "TIMEOUT" => Behind'
  <1>1. Len(events) < QueueDepth /\ events' = Append(events, e) /\ mishaps' = mishaps \cup noted
    BY DEF Emit
  <1> DEFINE n == Len(events)
  <1>2. /\ events' \in Seq(Event) /\ Len(events') = n + 1 /\ n \in Nat
        /\ \A i \in 1..n : events'[i] = events[i]
        /\ events'[n + 1] = e
    BY <1>1, AppendProperties DEF TypeOK
  <1>3. DOMAIN events = 1..n /\ DOMAIN events' = 1..(n + 1)
    BY <1>2 DEF TypeOK
  <1> HIDE DEF n
  <1>4. 1..(n + 1) = 1..n \cup {n + 1}
    BY <1>2
  <1>5. \A i \in 1..(n + 1) : events'[i] = IF i = n + 1 THEN e ELSE events[i]
    BY <1>2, <1>4
  <1>6. \A i \in 1..n : i # n + 1 /\ n + 1 > i
    BY <1>2
  <1>7. /\ Reclaiming' <=> Reclaiming \/ e.action = "RECLAIM"
        /\ WipeQueued' <=> WipeQueued \/ e.action = "TIMEOUT"
    BY <1>3, <1>4, <1>5, <1>6 DEF Reclaiming, WipeQueued
  <1>8. \A p : DropWaiting(p)' <=> DropWaiting(p) \/ e = [action |-> "IDLE_DROP", peer |-> p]
    BY <1>3, <1>4, <1>5, <1>6 DEF DropWaiting
  <1>9. e.action = "RECLAIM" => Behind'
    BY <1>3, <1>4, <1>5, <1>6 DEF Behind
  <1>10. Behind /\ e.action # "TIMEOUT" => Behind'
    BY <1>3, <1>4, <1>5, <1>6 DEF Behind
  <1>11. QED
    BY <1>1, <1>7, <1>8, <1>9, <1>10

\* The router takes the first event and leaves the others.
LEMMA TakenWaits ==
  ASSUME TypeOK, NEW action, Next1(action)
  PROVE  /\ Reclaiming => Reclaiming' \/ action = "RECLAIM"
         /\ WipeQueued => WipeQueued' \/ action = "TIMEOUT"
         /\ WipeQueued' => WipeQueued
         /\ \A p : DropWaiting(p) => DropWaiting(p)' \/ (action = "IDLE_DROP" /\ Head(events).peer = p)
         /\ Behind => Behind' /\ (action = "TIMEOUT" => Reclaiming')
         /\ Head(events).peer \in Peers \cup {Nobody}
  <1>1. /\ events \in Seq(Event) /\ events # <<>> /\ events' = Tail(events)
        /\ Head(events).action = action
    BY DEF Next1, TypeOK
  <1>2. /\ events' \in Seq(Event) /\ Len(events') = Len(events) - 1
        /\ \A i \in 1..Len(events') : events'[i] = events[i + 1]
        /\ Head(events) = events[1] /\ Len(events) \in Nat /\ Len(events) > 0
    BY <1>1, HeadTailProperties
  <1> DEFINE m == Len(events')
  <1>3. DOMAIN events = 1..(m + 1) /\ DOMAIN events' = 1..m /\ m \in Nat
    BY <1>1, <1>2
  <1>4. Head(events) = events[1] /\ \A i \in 1..m : events'[i] = events[i + 1]
    BY <1>2
  <1> HIDE DEF m
  <1>5. \A i \in 1..m : i + 1 \in 1..(m + 1)
    BY <1>3
  <1>6. \A i \in 1..(m + 1) : i = 1 \/ \E k \in 1..m : i = k + 1 /\ events'[k] = events[i]
    <2> SUFFICES ASSUME NEW i \in 1..(m + 1), i # 1
                 PROVE  \E k \in 1..m : i = k + 1 /\ events'[k] = events[i]
      OBVIOUS
    <2>1. i - 1 \in 1..m /\ i = (i - 1) + 1
      BY <1>3
    <2>2. QED
      BY <1>4, <2>1
  <1>7. WipeQueued' => WipeQueued
    BY <1>3, <1>4, <1>5 DEF WipeQueued
  <1>8. /\ Reclaiming => Reclaiming' \/ action = "RECLAIM"
        /\ WipeQueued => WipeQueued' \/ action = "TIMEOUT"
    <2>1. ASSUME NEW i \in 1..(m + 1)
          PROVE  events[i].action = action \/ \E k \in 1..m : events'[k] = events[i]
      BY <1>1, <1>4, <1>6
    <2>2. Reclaiming => Reclaiming' \/ action = "RECLAIM"
      BY <1>3, <2>1 DEF Reclaiming
    <2>3. WipeQueued => WipeQueued' \/ action = "TIMEOUT"
      BY <1>3, <2>1 DEF WipeQueued
    <2>4. QED
      BY <2>2, <2>3
  <1>9. \A p : DropWaiting(p) => DropWaiting(p)' \/ (action = "IDLE_DROP" /\ Head(events).peer = p)
    <2> SUFFICES ASSUME NEW p, NEW i \in 1..(m + 1),
                        events[i] = [action |-> "IDLE_DROP", peer |-> p]
                 PROVE  DropWaiting(p)' \/ (action = "IDLE_DROP" /\ Head(events).peer = p)
      BY <1>3 DEF DropWaiting
    <2>1. CASE i = 1
      <3>1. Head(events) = [action |-> "IDLE_DROP", peer |-> p]
        BY <1>4, <2>1
      <3>2. QED
        BY <1>1, <3>1
    <2>2. CASE i # 1
      BY <1>3, <1>6, <2>2 DEF DropWaiting
    <2>3. QED
      BY <2>1, <2>2
  <1>10. ASSUME Behind PROVE Behind'
    <2>1. ASSUME NEW i \in 1..m, events'[i].action = "TIMEOUT"
          PROVE  \E k \in 1..m : k > i /\ events'[k].action = "RECLAIM"
      <3>1. i + 1 \in 1..(m + 1) /\ events[i + 1].action = "TIMEOUT"
        BY <1>4, <1>5, <2>1
      <3>2. PICK j \in 1..(m + 1) : j > i + 1 /\ events[j].action = "RECLAIM"
        BY <1>3, <1>10, <3>1 DEF Behind
      <3>3. PICK k \in 1..m : j = k + 1 /\ events'[k] = events[j]
        BY <1>3, <1>6, <3>2
      <3>4. QED
        BY <1>3, <3>2, <3>3
    <2>2. QED
      BY <1>3, <2>1 DEF Behind
  <1>11. ASSUME Behind, action = "TIMEOUT" PROVE Reclaiming'
    <2>1. 1 \in 1..(m + 1) /\ events[1].action = "TIMEOUT"
      BY <1>1, <1>3, <1>4, <1>11
    <2>2. PICK j \in 1..(m + 1) : j > 1 /\ events[j].action = "RECLAIM"
      BY <1>3, <1>11, <2>1 DEF Behind
    <2>3. PICK k \in 1..m : j = k + 1 /\ events'[k] = events[j]
      BY <1>3, <1>6, <2>2
    <2>4. QED
      BY <1>3, <2>2, <2>3 DEF Reclaiming
  <1>12. Head(events).peer \in Peers \cup {Nobody}
    <2>1. 1 \in DOMAIN events /\ Head(events) = events[1]
      BY <1>3, <1>4
    <2>2. events[1] \in Event
      BY <1>1, <2>1
    <2>3. QED
      BY <2>1, <2>2 DEF Event
  <1>13. QED
    BY <1>7, <1>8, <1>9, <1>10, <1>11, <1>12

LEMMA QueueKept ==
  ASSUME events' = events
  PROVE  /\ Reclaiming' <=> Reclaiming
         /\ WipeQueued' <=> WipeQueued
         /\ Behind' <=> Behind
         /\ \A p : DropWaiting(p)' <=> DropWaiting(p)
  BY DEF Reclaiming, WipeQueued, DropWaiting, Behind

LEMMA QueueEmptied ==
  ASSUME events' = <<>>
  PROVE  ~Reclaiming' /\ ~WipeQueued' /\ Behind'
  BY DEF Reclaiming, WipeQueued, Behind

\* Only a restart, and advertising in the right mode, undo mishaps.
Undoing == (\E t \in Tasks : StartAdvertising(t)) \/ FactoryRestart \/ Reset
LEMMA MishapsGrow ==
  ASSUME Next, ~Undoing
  PROVE  mishaps \subseteq mishaps'
  <1> USE DEF Noted, Fine, Fault
  <1>1. CASE \E p \in Peers : Connect(p) \/ Disconnect(p) \/ Encrypt(p) \/ Evict(p) \/ FinishSetup(p)
    BY <1>1 DEF Connect, Refused, Accepted, Disconnect, Encrypt, Evict, FinishSetup
  <1>2. CASE OpenWindow \/ WindowTimeout \/ (\E step \in Steps : WizardAsk(step)) \/ WizardEnds
    BY <1>2 DEF OpenWindow, WindowTimeout, WizardAsk, WizardEnds
  <1>3. CASE HostStep
    BY <1>3 DEF HostStep, PersistAdmission, EvictBond, EvictAdmission, FinishAdmit, FinishLatch,
       FinishList, FinishRollback, FinishDisarm
  <1>4. CASE AdminStep
    BY <1>4 DEF Undoing, AdminStep, WipeAccounts, WipeAdmissions, WipeNuki, WipeCache, WipeEmit,
       Rearm, Expire, Emit
  <1>5. CASE RouterStep
    BY <1>5 DEF RouterStep, OnTimeout, OnTimeoutSilence, OnIdleDrop, OnReclaim
  <1>6. CASE Press \/ IdleDrop \/ FactoryReset
    BY <1>6 DEF Press, IdleDrop, FactoryReset, Emit
  <1>7. QED
    BY <1>1, <1>2, <1>3, <1>4, <1>5, <1>6 DEF Next, Undoing

\* And these undo the passing ones only.
LEMMA MishapsLast ==
  ASSUME Next
  PROVE  mishaps \ Passing \subseteq mishaps'
  <1>1. CASE ~Undoing
    BY <1>1, MishapsGrow
  <1>2. CASE \E t \in Tasks : StartAdvertising(t)
    BY <1>2 DEF StartAdvertising, Passing
  <1>3. CASE FactoryRestart \/ Reset
    BY <1>3 DEF FactoryRestart, Reset, AfterBoot
  <1>4. QED
    BY <1>1, <1>2, <1>3 DEF Undoing

-----------------------------------------------------------------------------
(* Connections and the host task.                                          *)

\* A restart of the device forgets connections, tasks, events and the window.
LEMMA BootForgets ==
  ASSUME FactoryRestart \/ Reset
  PROVE  /\ host' = HostIdle /\ host'.at = "idle" /\ admin' = "idle" /\ router' = "idle"
         /\ link' = NoLink /\ slots' = {} /\ closing' = {} /\ conn' = Nobody
         /\ plan' = NoPlan /\ ~window' /\ armed' = ~latch' /\ latch' = latch
         /\ adv' = ModeFor(FALSE, latch, ~latch) /\ wl' = (IF latch THEN allow' ELSE {})
         /\ ~Reclaiming' /\ ~WipeQueued' /\ Behind'
  <1>1. Boot
    BY DEF FactoryRestart, Reset
  <1>2. events' = <<>>
    BY <1>1 DEF Boot
  <1>3. QED
    BY <1>1, <1>2, QueueEmptied DEF Boot, HostIdle, nvs

LEMMA LinkedKept ==
  ASSUME TypeOK, LinkedInv, Next
  PROVE  LinkedInv'
  <1> USE DEF LinkedInv
  <1>1. ASSUME NEW p \in Peers, Connect(p) PROVE LinkedInv'
    BY <1>1 DEF TypeOK, Connect, Refused, Accepted, HostFree, HostIdle, tasks
  <1>2. ASSUME NEW p \in Peers, Disconnect(p) PROVE LinkedInv'
    BY <1>2 DEF TypeOK, Disconnect, Notified, HostFree, HostIdle
  <1>3. ASSUME NEW p \in Peers, Encrypt(p) PROVE LinkedInv'
    <2>1. host'.at \in {"idle", "persist"}
      BY <1>3 DEF Encrypt, HostFree, HostIdle, AtWork
    <2>2. QED
      BY <1>3, <2>1 DEF TypeOK, Encrypt, phase
  <1>4. ASSUME NEW p \in Peers, Evict(p) \/ FinishSetup(p) PROVE LinkedInv'
    <2>1. host'.peer = p /\ host'.at \in {"unbond", "admit"} /\ p \in slots
      BY <1>4 DEF Evict, FinishSetup, AtWork
    <2>2. UNCHANGED <<link, slots, closing, conn, latch>> /\ (host'.at = "admit" => ~latch)
      BY <1>4 DEF Evict, FinishSetup, AtWork, air, nvs, phase
    <2>3. QED
      BY <2>1, <2>2
  <1>5. CASE \/ \E t \in Tasks : StartAdvertising(t)
             \/ OpenWindow \/ WindowTimeout \/ (\E step \in Steps : WizardAsk(step)) \/ WizardEnds
    <2>1. UNCHANGED <<link, slots, closing, conn, host, latch>>
      BY <1>5 DEF StartAdvertising, OpenWindow, WindowTimeout, WizardAsk, WizardEnds, nvs, phase,
                  tasks, air
    <2>2. mishaps \ Passing \subseteq mishaps'
      BY MishapsLast
    <2>3. QED
      BY <2>1, <2>2 DEF Passing
  <1>6. CASE HostStep
    <2>1. UNCHANGED slots /\ (UNCHANGED conn \/ conn' = Nobody)
      BY <1>6 DEF HostStep, PersistAdmission, EvictBond, EvictAdmission, FinishAdmit, FinishLatch,
                  FinishList, FinishRollback, FinishDisarm, phase
    <2>2. UNCHANGED link /\ (\A p \in Peers : link[p] # "none" => (p \in closing' => p \in slots \cup closing)
                                             /\ (p \in closing => p \in closing'))
      BY <1>6 DEF HostStep, PersistAdmission, EvictBond, EvictAdmission, FinishAdmit, FinishLatch,
                  FinishList, FinishRollback, FinishDisarm, air
    <2>3. \A p \in Peers : link[p] = "none" => p \notin closing'
      BY <1>6 DEF HostStep, PersistAdmission, EvictBond, EvictAdmission, FinishAdmit, FinishLatch,
                  FinishList, FinishRollback, FinishDisarm, air
    <2>4. \/ host'.at = "idle"
          \/ host.at # "idle" /\ host.at # "persist" /\ host'.peer = host.peer
      BY <1>6 DEF HostStep, PersistAdmission, EvictBond, EvictAdmission, FinishAdmit, FinishLatch,
                  FinishList, FinishRollback, FinishDisarm, HostIdle, AtWork
    <2>5. host'.at = "rollback" => "lock" \in mishaps' \cap Faults
      BY <1>6 DEF HostStep, PersistAdmission, EvictBond, EvictAdmission, FinishAdmit, FinishLatch,
                  FinishList, FinishRollback, FinishDisarm, HostIdle, AtWork, Fault, CanFail
    <2>6. host'.at \in {"admit", "latch"} => ~latch'
      BY <1>6 DEF HostStep, PersistAdmission, EvictBond, EvictAdmission, FinishAdmit, FinishLatch,
                  FinishList, FinishRollback, FinishDisarm, HostIdle, AtWork
    <2>7. QED
      BY <2>1, <2>2, <2>3, <2>4, <2>5, <2>6
  <1>7. CASE \/ WipeAccounts \/ WipeAdmissions \/ WipeNuki \/ WipeCache \/ WipeEmit
             \/ Rearm \/ Expire \/ Press \/ IdleDrop \/ FactoryReset
    <2>1. /\ UNCHANGED <<link, slots, closing, host>> /\ (UNCHANGED conn \/ conn' = Nobody)
          /\ UNCHANGED latch \/ ~latch'
      BY <1>7 DEF WipeAccounts, WipeAdmissions, WipeNuki, WipeCache, WipeEmit, Rearm, Expire, Press,
                  IdleDrop, FactoryReset, nvs, phase, tasks, air
    <2>2. mishaps \ Passing \subseteq mishaps'
      BY MishapsLast
    <2>3. QED
      BY <2>1, <2>2 DEF Passing
  <1>8. CASE RouterStep
    <2>1. /\ UNCHANGED <<link, slots, host, conn, latch>>
          /\ closing \subseteq closing'
          /\ \A p \in closing' : p \in closing \/ link[p] # "none"
      BY <1>8 DEF RouterStep, OnTimeout, OnTimeoutSilence, OnIdleDrop, OnReclaim, Terminated, nvs,
                  phase, tasks, air
    <2>2. mishaps \ Passing \subseteq mishaps'
      BY MishapsLast
    <2>3. /\ \A p \in closing' : p \in closing \/ link[p] # "none"
          /\ \A p \in Peers : link[p] # "none" <=> p \in slots \cup closing
      BY <2>1
    <2>4. \A p \in Peers : link'[p] # "none" <=> p \in slots' \cup closing'
      BY <2>1, <2>3
    <2>5. QED
      BY <2>1, <2>2, <2>4 DEF Passing
  <1>9. CASE FactoryRestart \/ Reset
    BY <1>9, BootForgets DEF NoLink
  <1>10. QED
    BY <1>1, <1>2, <1>3, <1>4, <1>5, <1>6, <1>7, <1>8, <1>9 DEF Next, AdminStep

LEMMA RaceKept ==
  ASSUME IInv, LinkedInv, RaceInv, Next
  PROVE  RaceInv'
  <1> SUFFICES ASSUME "raced" \notin mishaps' PROVE RaceInv'
    BY DEF RaceInv
  <1>1. /\ TypeOK
        /\ latch /\ armed => host.at \in {"list", "rollback", "disarm"}
        /\ host.at \in {"list", "rollback", "disarm"} => latch
        /\ Erasing \/ admin = "restart" => ~latch /\ ~Completing
        /\ Wiping => ~latch /\ ~Completing
        /\ admin \in {"accounts", "admissions", "nuki", "cache"} => armed
        /\ admin = "emit" => ~armed
    <2>1. "raced" \notin mishaps
      BY MishapsLast DEF Passing
    <2>2. QED
      BY <2>1 DEF RaceInv, IInv, ClaimInv
  <1>2. host.at \in {"admit", "latch"} => ~latch
    BY DEF LinkedInv
  <1> SUFFICES /\ Wiping' => ~latch' /\ ~Completing'
               /\ admin' \in {"accounts", "admissions", "nuki", "cache"} => armed'
               /\ admin' = "emit" => ~armed'
    BY DEF RaceInv
  <1>3. CASE \/ \E p \in Peers : Connect(p) \/ Disconnect(p) \/ Encrypt(p) \/ Evict(p)
             \/ \E t \in Tasks : StartAdvertising(t)
             \/ OpenWindow \/ WindowTimeout \/ (\E step \in Steps : WizardAsk(step)) \/ WizardEnds
    <2>1. UNCHANGED <<events, admin, router, latch, armed>>
      BY <1>3 DEF Connect, Disconnect, Encrypt, Evict, StartAdvertising, OpenWindow, WindowTimeout,
                  WizardAsk, WizardEnds, nvs, phase, tasks
    <2>2. host' = host \/ host'.at \in {"persist", "unbond"}
      <3>1. CASE \E p \in Peers : Encrypt(p) \/ Evict(p)
        BY <3>1 DEF Encrypt, Evict, AtWork
      <3>2. CASE \/ \E p \in Peers : Connect(p) \/ Disconnect(p)
                 \/ \E t \in Tasks : StartAdvertising(t)
                 \/ OpenWindow \/ WindowTimeout
                 \/ (\E step \in Steps : WizardAsk(step)) \/ WizardEnds
        BY <3>2 DEF Connect, Disconnect, StartAdvertising, OpenWindow, WindowTimeout,
                    WizardAsk, WizardEnds, tasks
      <3>3. QED
        BY <1>3, <3>1, <3>2
    <2>3. QED
      BY <1>1, <2>1, <2>2, QueueKept DEF Wiping, Erasing, Completing
  <1>4. ASSUME NEW p \in Peers, FinishSetup(p) PROVE ~Wiping' /\ UNCHANGED <<admin, armed>>
    <2>1. /\ UNCHANGED <<events, admin, router, latch, armed>> /\ ~Wiping
      BY <1>4 DEF FinishSetup, Noted, nvs, phase
    <2>2. QED
      BY <2>1, QueueKept DEF Wiping, Erasing
  <1>5. CASE HostStep
    <2>1. /\ UNCHANGED <<events, admin, router>> /\ (Completing' => Completing)
          /\ UNCHANGED latch \/ ~latch' \/ Completing
          /\ UNCHANGED armed \/ (~armed' /\ Completing)
      BY <1>5 DEF HostStep, PersistAdmission, EvictBond, EvictAdmission, FinishAdmit, FinishLatch,
                  FinishList, FinishRollback, FinishDisarm, HostIdle, AtWork, Completing, phase
    <2>2. Wiping' <=> Wiping
      BY <2>1, QueueKept DEF Wiping, Erasing
    <2>3. QED
      BY <1>1, <2>1, <2>2 DEF Wiping, Erasing
  <1>6. CASE WipeAccounts \/ WipeAdmissions \/ WipeNuki \/ WipeCache \/ Expire
    <2>1. UNCHANGED <<events, router, host, latch>>
      BY <1>6 DEF WipeAccounts, WipeAdmissions, WipeNuki, WipeCache, Expire, nvs
    <2>2. ~latch /\ ~Completing
      BY <1>1, <1>6 DEF WipeAccounts, WipeAdmissions, WipeNuki, WipeCache, Expire, Erases, Erasing,
                        Noted
    <2>3. /\ admin' \in {"accounts", "admissions", "nuki", "cache"} => armed'
          /\ admin' = "emit" => ~armed'
      BY <1>1, <1>6 DEF WipeAccounts, WipeAdmissions, WipeNuki, WipeCache, Expire, Erases, phase
    <2>4. QED
      BY <2>1, <2>2, <2>3 DEF Completing
  <1>7. CASE WipeEmit
    <2>1. UNCHANGED <<router, host, latch>> /\ admin = "emit" /\ admin' = "idle"
      BY <1>7 DEF WipeEmit, Erases, nvs
    <2>2. QED
      BY <1>1, <2>1 DEF Completing, Erasing
  <1>8. CASE Rearm \/ IdleDrop
    <2>1. /\ UNCHANGED <<router, host, latch>> /\ admin \in {"idle", "rearm"} /\ admin' = "idle"
      BY <1>8 DEF Rearm, IdleDrop, nvs, tasks
    <2>2. ~Erasing /\ ~Erasing'
      BY <2>1 DEF Erasing
    <2>3. WipeQueued' => WipeQueued
      <3>1. PICK e \in Event, noted \in SUBSET Mishap : Emit(e, noted) /\ e.action # "TIMEOUT"
        <4>1. CASE Rearm
          <5>1. [action |-> "RECLAIM", peer |-> conn] \in Event
            BY <1>1 DEF Event, TypeOK
          <5>2. {"raced"} \in SUBSET Mishap /\ {} \in SUBSET Mishap
            BY DEF Mishap
          <5>3. QED
            BY <4>1, <5>1, <5>2 DEF Rearm
        <4>2. CASE IdleDrop
          <5>1. [action |-> "IDLE_DROP", peer |-> conn] \in Event
            BY <1>1 DEF Event, TypeOK
          <5>2. {} \in SUBSET Mishap
            OBVIOUS
          <5>3. QED
            BY <4>2, <5>1, <5>2 DEF IdleDrop
        <4>3. QED
          BY <1>8, <4>1, <4>2
      <3>2. CASE events' = events
        BY <3>2, QueueKept
      <3>3. QED
        BY <1>1, <3>1, <3>2, EmitEffect
    <2>4. QED
      BY <1>1, <2>1, <2>2, <2>3 DEF Wiping, Completing
  <1>9. CASE Press \/ FactoryReset
    <2>1. /\ UNCHANGED <<events, router, host>> /\ (UNCHANGED latch \/ ~latch')
          /\ admin = "idle" /\ admin' \in {"rearm", "restart"}
      BY <1>9 DEF Press, FactoryReset, nvs
    <2>2. QED
      BY <1>1, <2>1, QueueKept DEF Wiping, Erasing, Completing
  <1>10. CASE RouterStep
    <2>1. /\ UNCHANGED <<host, latch, admin, armed>>
      BY <1>10 DEF RouterStep, OnTimeout, OnTimeoutSilence, OnIdleDrop, OnReclaim, nvs, phase, tasks
    <2>2. CASE OnTimeoutSilence
      BY <1>1, <2>1, <2>2 DEF OnTimeoutSilence, Wiping, Completing
    <2>3. CASE OnTimeout
      <3>1. Wiping
        BY <1>1, <2>3, TakenEffect DEF OnTimeout, Wiping
      <3>2. QED
        BY <1>1, <2>1, <3>1 DEF Completing
    <2>4. CASE OnIdleDrop \/ OnReclaim
      <3>1. PICK action : Next1(action)
        BY <2>4 DEF OnIdleDrop, OnReclaim
      <3>2. (WipeQueued' => WipeQueued) /\ router' = router
        BY <1>1, <2>4, <3>1, TakenEffect DEF OnIdleDrop, OnReclaim, tasks
      <3>3. Wiping' => Wiping
        BY <2>1, <3>2 DEF Wiping, Erasing
      <3>4. QED
        BY <1>1, <2>1, <3>3 DEF Completing
    <2>5. QED
      BY <1>10, <2>2, <2>3, <2>4 DEF RouterStep
  <1>11. CASE FactoryRestart \/ Reset
    BY <1>11, BootForgets DEF Wiping, Erasing
  <1>12. QED
    BY <1>1, <1>3, <1>4, <1>5, <1>6, <1>7, <1>8, <1>9, <1>10, <1>11 DEF Next, AdminStep

-----------------------------------------------------------------------------
(* The event queue and the connections of an armed phase.                  *)

\* A press, an idle timer and a wipe each emit an event of its own.
LEMMA Emitting ==
  ASSUME TypeOK
  PROVE  /\ Rearm => \E e \in Event : \E noted : Emit(e, noted) /\ e.action = "RECLAIM"
         /\ IdleDrop => \E e \in Event : Emit(e, {}) /\ e = [action |-> "IDLE_DROP", peer |-> conn]
         /\ WipeEmit => \E e \in Event : Emit(e, {}) /\ e.action = "TIMEOUT"
  <1>1. [action |-> "RECLAIM", peer |-> conn] \in Event
    BY DEF Event, TypeOK
  <1>2. [action |-> "IDLE_DROP", peer |-> conn] \in Event
    BY DEF Event, TypeOK
  <1>3. [action |-> "TIMEOUT", peer |-> Nobody] \in Event
    BY DEF Event
  <1>4. QED
    BY <1>1, <1>2, <1>3 DEF Rearm, IdleDrop, WipeEmit

\* The steps that have nothing to do with the queue or arm a phase.
LEMMA Elsewhere ==
  ASSUME Next, ~(Rearm \/ IdleDrop \/ WipeEmit \/ RouterStep \/ FactoryRestart \/ Reset)
  PROVE  UNCHANGED <<events, router>> /\ (armed' => armed)
  <1>1. CASE \E p \in Peers : Connect(p) \/ Disconnect(p) \/ Encrypt(p) \/ Evict(p) \/ FinishSetup(p)
    BY <1>1 DEF Connect, Disconnect, Encrypt, Evict, FinishSetup, phase, tasks
  <1>2. CASE \/ (\E t \in Tasks : StartAdvertising(t)) \/ OpenWindow \/ WindowTimeout
             \/ (\E step \in Steps : WizardAsk(step)) \/ WizardEnds
    <2>1. CASE \E t \in Tasks : StartAdvertising(t)
      BY <2>1 DEF StartAdvertising, phase
    <2>2. CASE OpenWindow \/ WindowTimeout
      <3>1. UNCHANGED <<events, router, armed>>
        <4>1. CASE OpenWindow
          BY <4>1 DEF OpenWindow, phase
        <4>2. CASE WindowTimeout
          BY <4>2 DEF WindowTimeout, phase
        <4>3. QED
          BY <2>2, <4>1, <4>2
      <3>2. QED
        BY <3>1
    <2>3. CASE (\E step \in Steps : WizardAsk(step)) \/ WizardEnds
      BY <2>3 DEF WizardAsk, WizardEnds, phase, tasks
    <2>4. QED
      BY <1>2, <2>1, <2>2, <2>3
  <1>3. CASE HostStep
    BY <1>3 DEF HostStep, PersistAdmission, EvictBond, EvictAdmission, FinishAdmit, FinishLatch,
       FinishList, FinishRollback, FinishDisarm, phase
  <1>4. CASE AdminStep
    BY <1>4 DEF AdminStep, WipeAccounts, WipeAdmissions, WipeNuki, WipeCache, Expire, phase
  <1>5. CASE Press \/ FactoryReset
    BY <1>5 DEF Press, FactoryReset, phase
  <1>6. QED
    BY <1>1, <1>2, <1>3, <1>4, <1>5 DEF Next

LEMMA QueueInvKept ==
  ASSUME IInv, RaceInv, QueueInv, Next
  PROVE  QueueInv'
  <1> SUFFICES ASSUME mishaps' \cap {"lost", "raced"} = {}, armed'
               PROVE  Behind' /\ (router' = "silence" => Reclaiming')
    BY DEF QueueInv
  <1>1. /\ TypeOK /\ (admin = "emit" => ~armed)
        /\ armed => Behind /\ (router = "silence" => Reclaiming)
    <2>1. mishaps \cap {"lost", "raced"} = {}
      BY MishapsLast DEF Passing
    <2>2. QED
      BY <2>1 DEF IInv, RaceInv, QueueInv
  <1>2. CASE ~(Rearm \/ IdleDrop \/ WipeEmit \/ RouterStep \/ FactoryRestart \/ Reset)
    BY <1>1, <1>2, Elsewhere, QueueKept
  <1>3. CASE Rearm
    <2>1. PICK e \in Event : \E noted : Emit(e, noted) /\ e.action = "RECLAIM"
      BY <1>1, <1>3, Emitting
    <2>2. QED
      BY <1>1, <2>1, EmitWaits
  <1>4. CASE IdleDrop
    <2>1. PICK e \in Event : Emit(e, {}) /\ e.action = "IDLE_DROP"
      BY <1>1, <1>4, Emitting
    <2>2. armed /\ router' = router
      BY <1>4 DEF IdleDrop, tasks
    <2>3. QED
      BY <1>1, <2>1, <2>2, EmitWaits
  <1>5. CASE WipeEmit
    BY <1>1, <1>5 DEF WipeEmit, Erases, phase
  <1>6. CASE RouterStep
    <2>1. armed /\ (OnTimeoutSilence => events' = events /\ router' = "idle")
      BY <1>6 DEF RouterStep, OnTimeout, OnTimeoutSilence, OnIdleDrop, OnReclaim, phase
    <2>2. CASE OnTimeoutSilence
      BY <1>1, <2>1, <2>2, QueueKept
    <2>3. CASE OnTimeout
      BY <1>1, <2>1, <2>3, TakenWaits DEF OnTimeout
    <2>4. CASE OnIdleDrop \/ OnReclaim
      <3>1. router' = "idle" /\ \E action : Next1(action)
        BY <2>4 DEF OnIdleDrop, OnReclaim, Next1, tasks
      <3>2. QED
        BY <1>1, <2>1, <3>1, TakenWaits
    <2>5. QED
      BY <1>6, <2>2, <2>3, <2>4 DEF RouterStep
  <1>7. CASE FactoryRestart \/ Reset
    BY <1>7, BootForgets
  <1>8. QED
    BY <1>2, <1>3, <1>4, <1>5, <1>6, <1>7

LEMMA CoverKept ==
  ASSUME IInv, LinkedInv, CoverInv, Next
  PROVE  CoverInv'
  <1>1. CASE FactoryRestart \/ Reset
    BY <1>1, BootForgets DEF CoverInv
  <1> SUFFICES ASSUME mishaps' \cap {"second", "lost", "raced"} = {}, armed', ~(FactoryRestart \/ Reset)
               PROVE  \A p \in slots' : p = conn' \/ p \in closing' \/ WipeQueued' \/ Reclaiming'
                                          \/ DropWaiting(p)'
    BY <1>1 DEF CoverInv
  <1> DEFINE Covered(p) == p = conn \/ p \in closing \/ WipeQueued \/ Reclaiming \/ DropWaiting(p)
  <1>2. /\ TypeOK /\ (armed => \A p \in slots : Covered(p))
        /\ latch /\ armed => host.at \in {"list", "rollback", "disarm"}
    <2>1. mishaps \cap {"lost", "raced"} = {}
      BY MishapsLast DEF Passing
    <2>2. "second" \notin mishaps
      <3>1. CASE \E t \in Tasks : StartAdvertising(t)
        BY <3>1 DEF StartAdvertising
      <3>2. CASE ~\E t \in Tasks : StartAdvertising(t)
        BY <3>2, MishapsGrow DEF Undoing
      <3>3. QED
        BY <3>1, <3>2
    <2>3. QED
      BY <2>1, <2>2 DEF IInv, CoverInv, ClaimInv
  <1>3. ASSUME NEW p \in Peers, Connect(p)
        PROVE  \A q \in slots' : q = conn' \/ q \in closing' \/ WipeQueued' \/ Reclaiming'
                                          \/ DropWaiting(q)'
    <2>1. events' = events /\ armed
      BY <1>3 DEF Connect, Accepted, Refused
    <2>2. CASE Refused(p)
      BY <1>2, <2>1, <2>2, QueueKept DEF Refused
    <2>3. CASE Accepted(p)
      <3>1. ~latch /\ slots = {}
        BY <1>2, <1>3, <2>1, <2>3 DEF Accepted, Connect, HostFree, HostIdle
      <3>2. QED
        BY <2>3, <3>1 DEF Accepted, LinkedInv
    <2>4. QED
      BY <1>3, <2>2, <2>3 DEF Connect
  <1>4. ASSUME NEW p \in Peers, Disconnect(p)
        PROVE  \A q \in slots' : q = conn' \/ q \in closing' \/ WipeQueued' \/ Reclaiming'
                                          \/ DropWaiting(q)'
    <2>1. /\ events' = events /\ armed /\ slots' = slots \ {p} /\ closing' = closing \ {p}
          /\ conn \in {p, Nobody}
      BY <1>4 DEF Disconnect, Noted
    <2>2. \A q \in slots' : q # conn
      BY <2>1, SetupAssumption DEF TypeOK, IInv
    <2>3. QED
      BY <1>2, <2>1, <2>2, QueueKept
  <1>5. CASE \/ \E p \in Peers : Encrypt(p) \/ Evict(p) \/ FinishSetup(p)
             \/ \E t \in Tasks : StartAdvertising(t)
             \/ OpenWindow \/ WindowTimeout \/ (\E step \in Steps : WizardAsk(step)) \/ WizardEnds
             \/ Press \/ FactoryReset
    <2>1. UNCHANGED <<events, armed, conn, slots, closing>>
      BY <1>5 DEF Encrypt, Evict, FinishSetup, StartAdvertising, OpenWindow, WindowTimeout,
                  WizardAsk, WizardEnds, Press, FactoryReset, phase, air
    <2>2. QED
      BY <1>2, <2>1, QueueKept
  <1>6. CASE HostStep
    <2>1. UNCHANGED <<events, armed, conn, slots>> /\ closing \subseteq closing'
      BY <1>6 DEF HostStep, PersistAdmission, EvictBond, EvictAdmission, FinishAdmit, FinishLatch,
         FinishList, FinishRollback, FinishDisarm, phase, air
    <2>2. QED
      BY <1>2, <2>1, QueueKept
  <1>7. CASE WipeAccounts \/ WipeAdmissions \/ WipeNuki \/ WipeCache \/ Expire
    <2>1. UNCHANGED <<events, armed, conn, slots, closing>>
      BY <1>7 DEF WipeAccounts, WipeAdmissions, WipeNuki, WipeCache, Expire, phase, air
    <2>2. QED
      BY <1>2, <2>1, QueueKept
  <1>8. CASE Rearm \/ WipeEmit
    <2>1. PICK e \in Event : (\E noted : Emit(e, noted)) /\ e.action \in {"RECLAIM", "TIMEOUT"}
      BY <1>2, <1>8, Emitting
    <2>2. WipeQueued' \/ Reclaiming'
      BY <1>2, <2>1, EmitWaits
    <2>3. QED
      BY <2>2
  <1>9. CASE IdleDrop
    <2>1. PICK e \in Event : Emit(e, {}) /\ e = [action |-> "IDLE_DROP", peer |-> conn]
      BY <1>2, <1>9, Emitting
    <2>2. UNCHANGED <<armed, slots, closing>>
      BY <1>9 DEF IdleDrop, air
    <2>3. /\ Reclaiming => Reclaiming'
          /\ WipeQueued => WipeQueued'
          /\ \A q : DropWaiting(q) \/ q = conn => DropWaiting(q)'
      BY <1>2, <2>1, EmitWaits
    <2>4. QED
      BY <1>2, <2>2, <2>3
  <1>10. CASE RouterStep
    <2>1. UNCHANGED <<armed, conn, slots, link>> /\ closing \subseteq closing'
      BY <1>10 DEF RouterStep, OnTimeout, OnTimeoutSilence, OnIdleDrop, OnReclaim, Terminated,
         phase, air
    <2>2. CASE OnTimeoutSilence
      BY <1>2, <2>1, <2>2, QueueKept DEF OnTimeoutSilence
    <2>3. CASE OnTimeout \/ OnReclaim
      <3>1. \A q \in slots : q \in closing'
        BY <1>2, <2>3 DEF OnTimeout, OnReclaim, Terminated, LinkedInv, TypeOK
      <3>2. QED
        BY <2>1, <3>1
    <2>4. CASE OnIdleDrop
      <3>1. /\ Reclaiming => Reclaiming'
            /\ WipeQueued => WipeQueued'
            /\ \A q : DropWaiting(q) => DropWaiting(q)' \/ Head(events).peer = q
        BY <1>2, <2>4, TakenWaits DEF OnIdleDrop
      <3>2. \A q \in slots : Head(events).peer = q => q \in closing'
        BY <1>2, <2>4 DEF OnIdleDrop, Terminated, LinkedInv, TypeOK
      <3>3. QED
        BY <1>2, <2>1, <3>1, <3>2
    <2>5. QED
      BY <1>10, <2>2, <2>3, <2>4 DEF RouterStep
  <1>11. QED
    BY <1>3, <1>4, <1>5, <1>6, <1>7, <1>8, <1>9, <1>10 DEF Next, AdminStep

-----------------------------------------------------------------------------
(* Modes of advertising.                                                   *)

LEMMA ModeIs ==
  ASSUME NEW w \in BOOLEAN, NEW c \in BOOLEAN, NEW a \in BOOLEAN
  PROVE  /\ ModeFor(w, c, a) = "pairing" <=> w
         /\ ModeFor(w, c, a) = "filtered" <=> ~w /\ c
         /\ ModeFor(w, c, a) = "setup" <=> ~w /\ ~c /\ a
         /\ ModeFor(w, c, a) = "off" <=> ~w /\ ~c /\ ~a
         /\ ModeFor(w, c, a) \in Modes
  BY DEF ModeFor, Modes

\* A restart ends advertising, and unless it is for good plans to start it anew.
LEMMA Restarts ==
  ASSUME TypeOK, NEW t \in Tasks, NEW mode \in Modes, Restarting(t, mode)
  PROVE  /\ adv' = "off"
         /\ mode # "off" => plan' # NoPlan
         /\ \A u \in Tasks : plan'[u] = "filtered" => plan[u] = "filtered" \/ mode = "filtered"
  <1>1. /\ plan' = [plan EXCEPT ![t] = IF mode = "off" THEN "none" ELSE mode]
        /\ adv' = "off"
    BY DEF Restarting
  <1>2. /\ plan'[t] = IF mode = "off" THEN "none" ELSE mode
        /\ \A u \in Tasks : u # t => plan'[u] = plan[u]
    BY <1>1 DEF TypeOK
  <1>3. mode # "none"
    BY DEF Modes
  <1>4. NoPlan[t] = "none"
    BY DEF NoPlan
  <1>5. QED
    BY <1>1, <1>2, <1>3, <1>4

\* What a task starts is what it has planned, if nothing is on the air already.
LEMMA Starts ==
  ASSUME TypeOK, NEW t \in Tasks, StartAdvertising(t)
  PROVE  /\ UNCHANGED <<nvs, phase, allow, window, slots, events, host, admin, router, link, closing>>
         /\ adv' = IF adv = "off" THEN plan[t] ELSE adv
         /\ adv' # "off"
         /\ \A u \in Tasks : plan'[u] = "filtered" => plan[u] = "filtered"
         /\ mishaps' \cap (Faults \cup {"landed", "raced"}) = mishaps \cap (Faults \cup {"landed", "raced"})
         /\ mishaps' \cap {"lost", "lock"} = mishaps \cap {"lost", "lock"}
         /\ "late" \notin mishaps' => adv' = Mode
         /\ adv' = "filtered" => wl' = IF adv = "off" THEN allow ELSE wl
  <1>1. UNCHANGED <<nvs, phase, allow, window, slots, events, host, admin, router, link, closing>>
    BY DEF StartAdvertising, trust
  <1>2. adv' = (IF adv = "off" THEN plan[t] ELSE adv) /\ plan[t] # "none"
    BY DEF StartAdvertising
  <1>3. plan[t] # "off"
    BY <1>2 DEF TypeOK
  <1>4. \A u \in Tasks : plan'[u] = "filtered" => plan[u] = "filtered"
    BY DEF StartAdvertising, TypeOK
  <1>5. /\ mishaps \ {"late", "unswitched"} \subseteq mishaps'
        /\ mishaps' \subseteq mishaps \cup {"late"}
        /\ "late" \notin mishaps' => adv' = Mode
    BY DEF StartAdvertising
  <1>6. Faults \subseteq {"lost", "lock", "storage"}
    BY SetupAssumption
  <1>7. adv' = "filtered" => wl' = IF adv = "off" THEN allow ELSE wl
    <2>1. wl' = IF plan[t] = "filtered" THEN Pushed(allow) ELSE wl
      BY DEF StartAdvertising
    <2>2. QED
      BY <1>2, <2>1 DEF Pushed
  <1>8. QED
    BY <1>1, <1>2, <1>3, <1>4, <1>5, <1>6, <1>7

\* The steps that touch neither advertising nor a connection.
LEMMA OffAir ==
  ASSUME \/ (\E step \in Steps : WizardAsk(step)) \/ WizardEnds
         \/ WipeAccounts \/ WipeAdmissions \/ WipeNuki \/ WipeCache \/ WipeEmit
         \/ Rearm \/ Expire \/ Press \/ IdleDrop \/ FactoryReset
  PROVE  UNCHANGED <<host, plan, adv, wl, allow, window, slots, link, closing, router>>
  <1>1. CASE (\E step \in Steps : WizardAsk(step)) \/ WizardEnds
    BY <1>1 DEF WizardAsk, WizardEnds, trust, air, tasks
  <1>2. CASE WipeAccounts \/ WipeAdmissions \/ WipeNuki \/ WipeCache \/ WipeEmit
    BY <1>2 DEF WipeAccounts, WipeAdmissions, WipeNuki, WipeCache, WipeEmit, trust, air
  <1>3. CASE Rearm \/ Expire \/ Press \/ IdleDrop \/ FactoryReset
    BY <1>3 DEF Rearm, Expire, Press, IdleDrop, FactoryReset, trust, air, tasks
  <1>4. QED
    BY <1>1, <1>2, <1>3

LEMMA FilterKept ==
  ASSUME TypeOK, LinkedInv, FilterInv, Next
  PROVE  FilterInv'
  <1>1. CASE \E p \in Peers : Connect(p) \/ Disconnect(p)
    BY <1>1 DEF Connect, Disconnect, Restarting, FilterInv
  <1>2. ASSUME NEW p \in Peers, Encrypt(p) PROVE FilterInv'
    <2>1. /\ UNCHANGED <<adv, wl, slots, closing>> /\ link[p] # "none"
          /\ host.at = "idle" /\ (allow' = allow \/ allow' = allow \cup {p})
      BY <1>2 DEF Encrypt, HostFree, HostIdle
    <2>2. p \in slots \cup closing
      BY <2>1 DEF LinkedInv
    <2>3. QED
      BY <2>1, <2>2 DEF FilterInv
  <1>3. ASSUME NEW p \in Peers, Evict(p) \/ FinishSetup(p) PROVE FilterInv'
    <2>1. host'.at = "unbond" \/ (UNCHANGED <<adv, wl, slots, closing, allow>> /\ host.at = "idle")
      BY <1>3 DEF Evict, FinishSetup, AtWork, HostFree, HostIdle, trust, air
    <2>2. QED
      BY <2>1 DEF FilterInv
  <1>4. ASSUME NEW t \in Tasks, StartAdvertising(t) PROVE FilterInv'
    BY <1>4, Starts DEF FilterInv
  <1>5. CASE OpenWindow \/ WindowTimeout
    <2>1. adv' = "off" \/ UNCHANGED <<adv, wl, slots, closing, allow, host>>
      <3>1. CASE OpenWindow
        BY <3>1 DEF OpenWindow, Restarting
      <3>2. CASE WindowTimeout
        BY <3>2 DEF WindowTimeout, ClosedByTimer, Restarting
      <3>3. QED
        BY <1>5, <3>1, <3>2
    <2>2. QED
      BY <2>1 DEF FilterInv
  <1>6. CASE HostStep
    <2>1. CASE PersistAdmission
      <3>1. /\ UNCHANGED <<adv, slots, closing, allow>> /\ host.at = "persist"
            /\ adv = "filtered" => wl' = wl
        BY <2>1 DEF PersistAdmission, Pushed
      <3>2. QED
        BY <3>1 DEF FilterInv
    <2>2. CASE EvictBond
      BY <2>2 DEF EvictBond, AtWork, FilterInv
    <2>3. CASE EvictAdmission
      <3>1. host.at = "unadmit" /\ closing' = closing \cup ({host.peer} \cap {p \in Peers : link[p] # "none"})
        BY <2>3 DEF EvictAdmission
      <3>2. host.peer \in slots /\ host.peer \in Peers
        BY <3>1 DEF LinkedInv, TypeOK
      <3>3. link[host.peer] # "none"
        BY <3>2 DEF LinkedInv
      <3>4. host.peer \in closing'
        BY <3>1, <3>2, <3>3
      <3>5. QED
        BY <3>4 DEF FilterInv
    <2>4. CASE FinishList
      <3>1. adv' = "off" \/ (UNCHANGED <<adv, wl, slots, closing, allow>> /\ host.at = "list")
        BY <2>4 DEF FinishList, Restarting
      <3>2. QED
        BY <3>1 DEF FilterInv
    <2>5. CASE FinishAdmit \/ FinishLatch \/ FinishRollback \/ FinishDisarm
      <3>1. /\ UNCHANGED <<adv, wl, slots, closing, allow>>
            /\ host.at \in {"admit", "latch", "rollback", "disarm"}
        BY <2>5 DEF FinishAdmit, FinishLatch, FinishRollback, FinishDisarm, trust, air
      <3>2. QED
        BY <3>1 DEF FilterInv
    <2>6. QED
      BY <1>6, <2>1, <2>2, <2>3, <2>4, <2>5 DEF HostStep
  <1>7. CASE \/ (\E step \in Steps : WizardAsk(step)) \/ WizardEnds
             \/ WipeAccounts \/ WipeAdmissions \/ WipeNuki \/ WipeCache \/ WipeEmit
             \/ Rearm \/ Expire \/ Press \/ IdleDrop \/ FactoryReset
    BY <1>7, OffAir DEF FilterInv
  <1>8. CASE RouterStep
    <2>1. \/ adv' = "off"
          \/ UNCHANGED <<adv, wl, slots, allow, host>> /\ closing \subseteq closing'
      BY <1>8 DEF RouterStep, OnTimeout, OnTimeoutSilence, Silenced, OnIdleDrop, OnReclaim,
                  Restarting, Terminated, trust, tasks
    <2>2. QED
      BY <2>1 DEF FilterInv
  <1>9. CASE FactoryRestart \/ Reset
    <2>1. adv' = "filtered" => latch
      BY <1>9, BootForgets, ModeIs DEF TypeOK
    <2>2. QED
      BY <1>9, <2>1, BootForgets DEF FilterInv
  <1>10. QED
    BY <1>1, <1>2, <1>3, <1>4, <1>5, <1>6, <1>7, <1>8, <1>9 DEF Next, AdminStep

-----------------------------------------------------------------------------
(* The pairing window, completions, and what a wipe leaves.                *)

\* Some mishaps are for ever.
LEMMA LastingMishaps ==
  ASSUME Next
  PROVE  /\ \A m \in {"raced", "landed", "lost", "lock", "storage"} : m \in mishaps => m \in mishaps'
         /\ \A m \in Faults : m \in mishaps => m \in mishaps'
         /\ Revoked => Revoked'
  <1>1. \A m \in {"raced", "landed", "lost", "lock", "storage"} : m \in mishaps => m \in mishaps'
    BY MishapsLast DEF Passing
  <1>2. QED
    BY <1>1, SetupAssumption DEF Revoked

LEMMA WindowKept ==
  ASSUME IInv, LinkedInv, RaceInv, WindowInv, LapseInv, Next
  PROVE  WindowInv'
  <1> SUFFICES ASSUME "raced" \notin mishaps', ~Revoked' PROVE WindowInv'
    BY DEF WindowInv
  <1> DEFINE Spared == mishaps \cap (Faults \cup {"landed"}) = {}
  <1>1. /\ TypeOK /\ "raced" \notin mishaps /\ ~Revoked
        /\ window \/ host.at = "persist" => latch \/ admin = "restart"
        /\ window => ~armed
        /\ host.at = "rollback" => armed
        /\ Completing /\ host.at # "disarm" /\ Spared => armed
        /\ mishaps' \cap (Faults \cup {"landed"}) = {} => Spared
    BY LastingMishaps DEF WindowInv, IInv
  <1> DEFINE Quiet == UNCHANGED <<window, host, latch, armed>>
  <1>2. Quiet /\ (admin = "restart" => admin' = "restart") => WindowInv'
    BY <1>1 DEF Completing, WindowInv
  <1> HIDE DEF Spared, Quiet
  <1>3. CASE \/ \E p \in Peers : Connect(p) \/ Disconnect(p)
             \/ \E t \in Tasks : StartAdvertising(t)
             \/ (\E step \in Steps : WizardAsk(step)) \/ WizardEnds
             \/ WipeAccounts \/ WipeAdmissions \/ WipeNuki \/ WipeEmit
             \/ Expire \/ Press \/ IdleDrop \/ OnTimeout \/ OnIdleDrop \/ OnReclaim
    <2>1. CASE \E p \in Peers : Connect(p) \/ Disconnect(p)
      BY <1>2, <2>1 DEF Quiet, Connect, Disconnect, nvs, trust, tasks
    <2>2. CASE \E t \in Tasks : StartAdvertising(t)
      BY <1>1, <1>2, <2>2, Starts DEF Quiet, nvs, phase
    <2>3. CASE (\E step \in Steps : WizardAsk(step)) \/ WizardEnds
      BY <1>2, <2>3 DEF Quiet, WizardAsk, WizardEnds, nvs, phase, trust, tasks
    <2>4. CASE WipeAccounts \/ WipeAdmissions \/ WipeNuki \/ WipeEmit
      BY <1>2, <2>4 DEF Quiet, WipeAccounts, WipeAdmissions, WipeNuki, WipeEmit, Erases, nvs, phase,
                        trust
    <2>5. CASE Expire \/ Press \/ IdleDrop
      BY <1>2, <2>5 DEF Quiet, Expire, Press, IdleDrop, nvs, phase, trust, tasks
    <2>6. CASE OnTimeout \/ OnIdleDrop \/ OnReclaim
      BY <1>2, <2>6 DEF Quiet, OnTimeout, OnIdleDrop, OnReclaim, nvs, phase, trust, tasks
    <2>7. QED
      BY <1>3, <2>1, <2>2, <2>3, <2>4, <2>5, <2>6
  <1>4. ASSUME NEW p \in Peers, Encrypt(p) PROVE WindowInv'
    <2>1. CASE UNCHANGED <<window, host>>
      BY <1>2, <1>4, <2>1 DEF Quiet, Encrypt, phase
    <2>2. CASE window /\ ~window' /\ host' = AtWork("persist", p)
      <3>1. UNCHANGED <<latch, armed, admin>>
        BY <1>4 DEF Encrypt, phase
      <3>2. host'.at = "persist"
        BY <2>2 DEF AtWork
      <3>3. QED
        BY <1>1, <2>2, <3>1, <3>2 DEF WindowInv, Completing
    <2>3. QED
      BY <1>4, <2>1, <2>2 DEF Encrypt
  <1>5. ASSUME NEW p \in Peers, Evict(p) PROVE WindowInv'
    <2>1. UNCHANGED <<window, latch, armed, admin>> /\ host'.at = "unbond"
      BY <1>5 DEF Evict, AtWork, nvs, phase
    <2>2. QED
      BY <1>1, <2>1 DEF WindowInv, Completing
  <1>6. ASSUME NEW p \in Peers, FinishSetup(p) PROVE WindowInv'
    <2>1. /\ UNCHANGED <<window, latch, armed, admin>> /\ host'.at = "admit"
          /\ ~latch /\ done = Steps /\ admin # "restart"
      BY <1>6 DEF FinishSetup, AtWork, nvs, phase, trust, Noted
    <2>2. Spared => armed
      <3>1. ASSUME Spared, ~armed PROVE FALSE
        <4>1. Settled /\ mishaps \cap (Faults \cup {"landed", "raced"}) = {}
          BY <1>1, <2>1, <3>1 DEF Settled, Lapsed, Spared
        <4>2. done = {}
          BY <4>1 DEF LapseInv
        <4>3. QED
          BY <2>1, <4>2 DEF Steps
      <3>2. QED
        BY <3>1
    <2>3. QED
      BY <1>1, <2>1, <2>2 DEF WindowInv
  <1>7. CASE OpenWindow \/ WindowTimeout
    <2>1. CASE OpenWindow
      <3>1. UNCHANGED <<latch, armed, host, admin>> /\ latch /\ ~armed
        BY <2>1 DEF OpenWindow, nvs, phase
      <3>2. QED
        BY <1>1, <3>1 DEF WindowInv, Completing
    <2>2. CASE WindowTimeout
      <3>1. UNCHANGED <<latch, armed, host, admin>> /\ (~window' \/ UNCHANGED window)
        BY <2>2 DEF WindowTimeout, nvs, phase
      <3>2. QED
        BY <1>1, <3>1 DEF WindowInv, Completing
    <2>3. QED
      BY <1>7, <2>1, <2>2
  <1>8. CASE PersistAdmission \/ EvictBond \/ EvictAdmission
    <2>1. UNCHANGED <<window, latch, armed, admin>> /\ host'.at \in {"idle", "unadmit"}
      BY <1>8 DEF PersistAdmission, EvictBond, EvictAdmission, HostIdle, AtWork, phase, trust
    <2>2. QED
      BY <1>1, <2>1 DEF WindowInv, Completing
  <1>9. CASE FinishAdmit \/ FinishLatch
    <2>1. /\ UNCHANGED <<window, armed, admin>> /\ (latch' = latch \/ latch' = TRUE)
          /\ host'.at \in {"idle", "latch", "list"} /\ host.at \in {"admit", "latch"}
      BY <1>9 DEF FinishAdmit, FinishLatch, HostIdle, AtWork, phase, trust
    <2>2. QED
      BY <1>1, <2>1 DEF WindowInv, Completing
  <1>10. CASE FinishList
    <2>1. UNCHANGED <<window, armed, admin, latch>> /\ host.at = "list"
      BY <1>10 DEF FinishList, nvs, phase
    <2>2. CASE host'.at = "disarm"
      BY <1>1, <2>1, <2>2 DEF WindowInv, Completing
    <2>3. CASE host'.at = "rollback" /\ Fault("lock")
      <3>1. Spared
        BY <1>1, <2>3 DEF Fault, CanFail, Revoked, Spared
      <3>2. armed
        BY <1>1, <2>1, <3>1 DEF Completing
      <3>3. QED
        BY <1>1, <2>1, <2>3, <3>2 DEF WindowInv, Completing
    <2>4. QED
      BY <1>10, <2>2, <2>3 DEF FinishList, AtWork
  <1>11. CASE FinishRollback
    <2>1. /\ UNCHANGED <<window, armed, admin>> /\ host.at = "rollback" /\ host'.at = "idle"
      BY <1>11 DEF FinishRollback, HostIdle, phase, trust
    <2>2. QED
      BY <1>1, <2>1 DEF WindowInv, Completing
  <1>12. CASE FinishDisarm
    <2>1. /\ UNCHANGED <<window, latch, admin>> /\ host'.at = "idle" /\ ~armed'
      BY <1>12 DEF FinishDisarm, HostIdle, nvs, trust
    <2>2. QED
      BY <1>1, <2>1 DEF WindowInv, Completing
  <1>13. CASE Rearm
    <2>1. /\ UNCHANGED <<window, latch, host>> /\ admin = "rearm" /\ armed'
          /\ latch => "raced" \in mishaps'
      BY <1>13 DEF Rearm, Emit, nvs, trust
    <2>2. ~latch /\ ~window
      BY <1>1, <2>1
    <2>3. QED
      BY <1>1, <2>1, <2>2 DEF WindowInv, Completing
  <1>14. CASE WipeCache
    <2>1. /\ UNCHANGED <<window, latch, host>> /\ admin = "cache" /\ ~armed'
      BY <1>14 DEF WipeCache, Erases, trust
    <2>2. ~Completing
      BY <1>1, <2>1 DEF RaceInv, Wiping, Erasing
    <2>3. QED
      BY <1>1, <2>1, <2>2 DEF WindowInv, Completing
  <1>15. CASE OnTimeoutSilence
    <2>1. UNCHANGED <<latch, armed, host, admin>> /\ (~window' \/ UNCHANGED window)
      BY <1>15 DEF OnTimeoutSilence, nvs, phase
    <2>2. QED
      BY <1>1, <2>1 DEF WindowInv, Completing
  <1>16. CASE FactoryReset
    <2>1. UNCHANGED <<window, armed, host>> /\ admin' = "restart"
      BY <1>16 DEF FactoryReset, phase, trust
    <2>2. QED
      BY <1>1, <2>1 DEF WindowInv, Completing
  <1>17. CASE FactoryRestart \/ Reset
    BY <1>17, BootForgets DEF WindowInv, Completing
  <1>18. QED
    BY <1>3, <1>4, <1>5, <1>6, <1>7, <1>8, <1>9, <1>10, <1>11, <1>12, <1>13, <1>14, <1>15, <1>16,
       <1>17 DEF Next, HostStep, AdminStep, RouterStep

\* What the steps of a completion and of a window do where a wipe has been.
LEMMA LapseKept ==
  ASSUME IInv, LinkedInv, RaceInv, WindowInv, LapseInv, Next
  PROVE  LapseInv'
  <1> SUFFICES ASSUME mishaps' \cap (Faults \cup {"landed", "raced"}) = {} PROVE LapseInv'
    BY DEF LapseInv
  <1> DEFINE Erased == /\ admin \in {"admissions", "nuki", "cache"} => "account" \notin done
                       /\ admin \in {"nuki", "cache"} => admitted = {}
                       /\ admin = "cache" => "nuki" \notin done
             Ended == done = {} /\ admitted = {} /\ ~Completing /\ host.at # "persist" /\ ~window
             Barred == bonds = {} /\ (router = "silence" => slots \subseteq closing)
             Silent == allow = {} /\ ("late" \notin mishaps => adv = "off" /\ slots \subseteq closing)
  <1>1. /\ TypeOK /\ "raced" \notin mishaps /\ "landed" \notin mishaps
        /\ Erased
        /\ Settled => Ended
        /\ Settled /\ admin # "emit" /\ ~WipeQueued => Barred
        /\ Settled /\ ~Wiping => Silent
    <2>1. mishaps \cap (Faults \cup {"landed", "raced"}) = {}
      BY LastingMishaps
    <2>2. QED
      BY <2>1 DEF LapseInv, IInv
  <1>2. /\ Wiping => ~latch /\ ~Completing
        /\ window \/ host.at = "persist" => latch \/ admin = "restart"
        /\ host.at \in {"list", "rollback", "disarm"} => latch
        /\ host.at # "rollback"
    <2>1. ~Revoked
      BY <1>1 DEF Revoked
    <2>2. mishaps \cap Faults = {}
      BY LastingMishaps
    <2>3. QED
      BY <1>1, <2>1, <2>2 DEF RaceInv, WindowInv, IInv, ClaimInv, LinkedInv
  <1>3. \A f : ~Fault(f)
    BY DEF Fault, CanFail
  <1> SUFFICES /\ Erased'
               /\ Settled' => Ended'
               /\ Settled' /\ admin' # "emit" /\ ~WipeQueued' => Barred'
               /\ Settled' /\ ~Wiping' => Silent'
    BY DEF LapseInv
  <1>5. CASE \E p \in Peers : Connect(p)
    <2>1. PICK p \in Peers : Connect(p)
      BY <1>5
    <2>2. /\ UNCHANGED <<nvs, armed, host, admin, allow, window, events, router>> /\ adv # "off"
          /\ mishaps \subseteq mishaps'
      BY <2>1 DEF Connect, Accepted, Refused, Noted, Fine, Fault, trust, tasks
    <2>3. closing \subseteq closing' /\ (router = "silence" => slots' = slots)
      BY <1>3, <2>1 DEF Connect, Accepted, Refused, Noted
    <2>4. /\ (Settled' <=> Settled) /\ (WipeQueued' <=> WipeQueued) /\ (Wiping' <=> Wiping)
          /\ (Completing' <=> Completing)
      BY <2>2, QueueKept DEF Settled, Lapsed, Wiping, Erasing, Completing, nvs
    <2>5. QED
      BY <1>1, <2>2, <2>3, <2>4 DEF nvs
  <1>6. CASE \E p \in Peers : Disconnect(p)
    <2>1. PICK p \in Peers : Disconnect(p)
      BY <1>6
    <2>2. /\ UNCHANGED <<nvs, armed, host, admin, allow, window, events, router>> /\ adv' = "off"
          /\ mishaps \subseteq mishaps' /\ slots' = slots \ {p} /\ closing' = closing \ {p}
      BY <2>1 DEF Disconnect, Restarting, Noted, trust
    <2>3. /\ (Settled' <=> Settled) /\ (WipeQueued' <=> WipeQueued) /\ (Wiping' <=> Wiping)
          /\ (Completing' <=> Completing)
      BY <2>2, QueueKept DEF Settled, Lapsed, Wiping, Erasing, Completing, nvs
    <2>4. QED
      BY <1>1, <2>2, <2>3 DEF nvs
  <1>7. CASE \E p \in Peers : Encrypt(p)
    <2>1. PICK p \in Peers : Encrypt(p)
      BY <1>7
    <2>2. /\ UNCHANGED <<done, admitted, admin, latch, armed, events, router>>
          /\ window \/ ~Lapsed
      BY <1>1, <1>3, <2>1 DEF Encrypt, Noted, phase
    <2>3. ~Settled /\ Erased'
      BY <1>1, <2>2 DEF Settled
    <2>4. ~Settled'
      BY <2>2, <2>3 DEF Settled, Lapsed
    <2>5. QED
      BY <2>3, <2>4
  <1>8. CASE \E p \in Peers : Evict(p)
    <2>1. PICK p \in Peers : Evict(p)
      BY <1>8
    <2>2. /\ UNCHANGED <<nvs, armed, admin, window, events, router, adv, slots, closing, mishaps>>
          /\ host'.at = "unbond" /\ allow' \subseteq allow
      BY <2>1 DEF Evict, AtWork, Fine, phase, air
    <2>3. /\ (Settled' <=> Settled) /\ (WipeQueued' <=> WipeQueued) /\ (Wiping' <=> Wiping)
          /\ ~Completing'
      BY <2>2, QueueKept DEF Settled, Lapsed, Wiping, Erasing, Completing, nvs
    <2>4. QED
      BY <1>1, <2>2, <2>3 DEF nvs
  <1>9. CASE \E p \in Peers : FinishSetup(p)
    <2>1. UNCHANGED <<done, admitted, latch, armed, admin>> /\ done = Steps
      BY <1>9 DEF FinishSetup, nvs, phase
    <2>2. done # {}
      BY <2>1 DEF Steps
    <2>3. ~Settled /\ Erased'
      BY <1>1, <2>1, <2>2
    <2>4. ~Settled'
      BY <2>1, <2>3 DEF Settled, Lapsed
    <2>5. QED
      BY <2>3, <2>4
  <1>10. CASE \E t \in Tasks : StartAdvertising(t)
    <2>1. PICK t \in Tasks : StartAdvertising(t)
      BY <1>10
    <2>2. /\ UNCHANGED <<nvs, phase, allow, window, slots, events, host, admin, router, closing>>
          /\ adv' # "off" /\ ("late" \notin mishaps' => adv' = Mode)
      BY <1>1, <2>1, Starts
    <2>3. /\ (Settled' <=> Settled) /\ (WipeQueued' <=> WipeQueued) /\ (Wiping' <=> Wiping)
          /\ (Completing' <=> Completing)
      BY <2>2, QueueKept DEF Settled, Lapsed, Wiping, Erasing, Completing, nvs, phase
    <2>4. Settled => Mode = "off"
      <3>1. Settled => ~window /\ ~latch /\ ~armed
        BY <1>1 DEF Settled, Lapsed
      <3>2. QED
        BY <1>1, <3>1, ModeIs DEF Mode, TypeOK
    <2>5. QED
      BY <1>1, <2>2, <2>3, <2>4 DEF nvs
  <1>11. CASE OpenWindow
    <2>1. UNCHANGED <<done, admitted, latch, armed, admin>> /\ latch
      BY <1>11 DEF OpenWindow, nvs, phase
    <2>2. QED
      BY <1>1, <2>1 DEF Settled, Lapsed
  <1>12. CASE WindowTimeout
    <2>1. /\ UNCHANGED <<nvs, armed, host, admin, allow, events, router, slots, closing, mishaps>>
          /\ ~window' /\ (adv' = adv \/ adv' = "off")
      BY <1>3, <1>12 DEF WindowTimeout, ClosedByTimer, Restarting, Fine, phase
    <2>2. /\ (Settled' <=> Settled) /\ (WipeQueued' <=> WipeQueued) /\ (Wiping' <=> Wiping)
          /\ (Completing' <=> Completing)
      BY <2>1, QueueKept DEF Settled, Lapsed, Wiping, Erasing, Completing, nvs
    <2>3. QED
      BY <1>1, <2>1, <2>2 DEF nvs
  <1>13. CASE (\E step \in Steps : WizardAsk(step)) \/ (WizardEnds /\ UNCHANGED done) \/ Press
    <2>1. /\ UNCHANGED <<done, admitted, bonds, latch, armed, host, allow, window, events, router,
                         adv, slots, closing, mishaps>>
          /\ UNCHANGED admin \/ (admin = "idle" /\ admin' = "rearm")
      BY <1>13 DEF WizardAsk, WizardEnds, Press, Fine, Noted, nvs, phase, trust, tasks, air
    <2>2. /\ (Settled' <=> Settled) /\ (WipeQueued' <=> WipeQueued) /\ (Wiping' <=> Wiping)
          /\ (Completing' <=> Completing)
      BY <2>1, QueueKept DEF Settled, Lapsed, Wiping, Erasing, Completing
    <2>3. QED
      BY <1>1, <2>1, <2>2
  <1>14. CASE WizardEnds /\ ~UNCHANGED done
    <2>1. UNCHANGED <<admitted, latch, armed, admin>> /\ ~Wiping /\ ~Lapsed
      BY <1>14 DEF WizardEnds, Noted, phase, tasks
    <2>2. ~Settled' /\ ~Erasing'
      BY <2>1 DEF Settled, Lapsed, Wiping, Erasing
    <2>3. QED
      BY <2>2 DEF Erasing
  <1>15. CASE PersistAdmission
    <2>1. UNCHANGED <<done, latch, armed, admin>> /\ host.at = "persist"
      BY <1>15 DEF PersistAdmission, phase
    <2>2. ~Settled /\ ~Erasing
      BY <1>1, <1>2, <2>1 DEF Settled, Wiping, Lapsed, Erasing
    <2>3. ~Settled' /\ ~Erasing'
      BY <2>1, <2>2 DEF Settled, Lapsed, Erasing
    <2>4. QED
      BY <2>3 DEF Erasing
  <1>16. CASE EvictBond \/ EvictAdmission
    <2>1. /\ UNCHANGED <<done, latch, armed, admin, window, events, router, adv, slots, allow, mishaps>>
          /\ host'.at \in {"unadmit", "idle"} /\ closing \subseteq closing'
          /\ bonds' \subseteq bonds /\ admitted' \subseteq admitted
      BY <1>3, <1>16 DEF EvictBond, EvictAdmission, Unadmitted, AtWork, HostIdle, Fine, phase, trust, air
    <2>2. /\ (Settled' <=> Settled) /\ (WipeQueued' <=> WipeQueued) /\ (Wiping' <=> Wiping)
          /\ ~Completing'
      BY <2>1, QueueKept DEF Settled, Lapsed, Wiping, Erasing, Completing
    <2>3. QED
      BY <1>1, <2>1, <2>2
  <1>17. CASE FinishAdmit \/ FinishLatch \/ FinishList \/ FinishRollback
    <2>1. UNCHANGED <<done, armed, admin>> /\ Completing /\ (latch' = latch \/ latch')
      BY <1>2, <1>17 DEF FinishAdmit, FinishLatch, FinishList, FinishRollback, Completing, nvs, phase
    <2>2. ~Settled /\ ~Erasing
      BY <1>1, <1>2, <2>1 DEF Wiping
    <2>3. ~Settled' /\ ~Erasing'
      BY <2>1, <2>2 DEF Settled, Lapsed, Erasing
    <2>4. QED
      BY <2>3 DEF Erasing
  <1>18. CASE FinishDisarm
    <2>1. UNCHANGED <<done, admitted, admin, latch>> /\ latch
      BY <1>2, <1>18 DEF FinishDisarm, nvs
    <2>2. QED
      BY <1>1, <2>1 DEF Settled, Lapsed
  <1>19. CASE Rearm \/ Expire
    <2>1. armed' /\ admin' \in {"idle", "accounts"}
      <3>1. CASE Rearm
        BY <3>1 DEF Rearm
      <3>2. CASE Expire
        BY <1>2, <3>2 DEF Expire, phase
      <3>3. QED
        BY <1>19, <3>1, <3>2
    <2>2. QED
      BY <2>1 DEF Settled, Lapsed
  <1>20. CASE IdleDrop
    <2>1. armed' /\ admin' = "idle"
      BY <1>20 DEF IdleDrop, tasks
    <2>2. QED
      BY <2>1 DEF Settled, Lapsed
  <1>21. CASE WipeAccounts \/ WipeAdmissions \/ WipeNuki
    <2>1. UNCHANGED <<armed>> /\ armed
      <3>1. armed' = armed /\ admin \in {"accounts", "admissions", "nuki"}
        BY <1>21 DEF WipeAccounts, WipeAdmissions, WipeNuki, Erases, phase
      <3>2. QED
        BY <1>1, <3>1 DEF RaceInv
    <2>2. CASE WipeAccounts
      BY <1>3, <2>1, <2>2 DEF WipeAccounts, Erases, Settled, Lapsed
    <2>3. CASE WipeAdmissions
      BY <1>1, <1>3, <2>1, <2>3 DEF WipeAdmissions, Erases, Settled, Lapsed
    <2>4. CASE WipeNuki
      BY <1>1, <1>3, <2>1, <2>4 DEF WipeNuki, Erases, Settled, Lapsed
    <2>5. QED
      BY <1>21, <2>2, <2>3, <2>4
  <1>22. CASE WipeCache
    <2>1. /\ admin = "cache" /\ admin' = "emit" /\ done' = done \ {"admin"}
          /\ UNCHANGED <<admitted, host, window, latch>>
      BY <1>3, <1>22 DEF WipeCache, Erases, trust
    <2>2. ~latch /\ ~Completing /\ host.at # "persist" /\ ~window
      BY <1>1, <1>2, <2>1 DEF Wiping, Erasing
    <2>3. done' = {} /\ admitted' = {}
      BY <1>1, <2>1 DEF TypeOK, Steps
    <2>4. Ended' /\ Wiping'
      BY <2>1, <2>2, <2>3 DEF Completing, Wiping, Erasing
    <2>5. QED
      BY <2>1, <2>4
  <1>23. CASE WipeEmit
    <2>1. /\ UNCHANGED <<done, admitted, latch, armed, host, window>>
          /\ admin = "emit" /\ admin' = "idle"
      BY <1>23 DEF WipeEmit, Erases, nvs, phase, trust
    <2>2. PICK e \in Event : Emit(e, {}) /\ e.action = "TIMEOUT"
      BY <1>1, <1>23, Emitting
    <2>3. WipeQueued'
      <3>1. Len(events) < QueueDepth /\ events' = Append(events, e) /\ mishaps' = mishaps \cup {}
        BY <1>3, <2>2 DEF Emit, CanFail
      <3>2. "lost" \notin mishaps'
        BY <1>1, <3>1 DEF TypeOK, Mishap
      <3>3. QED
        BY <1>1, <2>2, <3>2, EmitWaits
    <2>4. (Settled' => Settled) /\ Wiping' /\ (Completing' <=> Completing)
      BY <2>1, <2>3 DEF Settled, Lapsed, Wiping, Completing
    <2>5. QED
      BY <1>1, <2>1, <2>3, <2>4
  <1>24. CASE OnTimeout
    <2>1. /\ UNCHANGED <<done, admitted, latch, armed, admin, host, window, slots, link>>
          /\ bonds' = {} /\ router' = "silence"
          /\ closing' = closing \cup (slots \cap {p \in Peers : link[p] # "none"})
      BY <1>3, <1>24 DEF OnTimeout, Terminated, phase, trust
    <2>2. slots' \subseteq closing'
      BY <1>1, <2>1 DEF LinkedInv, TypeOK
    <2>3. (Settled' <=> Settled) /\ (Completing' <=> Completing) /\ Wiping'
      BY <2>1 DEF Settled, Lapsed, Completing, Wiping
    <2>4. QED
      BY <1>1, <2>1, <2>2, <2>3
  <1>25. CASE OnTimeoutSilence
    <2>1. /\ UNCHANGED <<nvs, armed, admin, host, slots, closing, events>>
          /\ router = "silence" /\ router' = "idle" /\ adv' = "off" /\ allow' = {} /\ window' = FALSE
      BY <1>3, <1>25 DEF OnTimeoutSilence, Silenced, phase
    <2>2. /\ (Settled' <=> Settled) /\ (Completing' <=> Completing) /\ (WipeQueued' <=> WipeQueued)
          /\ Wiping' <=> Erasing \/ WipeQueued
      BY <2>1, QueueKept DEF Settled, Lapsed, Completing, Wiping, Erasing, nvs
    <2>3. Settled /\ ~Wiping' => Barred
      BY <1>1, <2>2 DEF Erasing
    <2>4. QED
      BY <1>1, <2>1, <2>2, <2>3 DEF nvs
  <1>26. CASE OnIdleDrop \/ OnReclaim
    <2>1. /\ UNCHANGED <<nvs, armed, admin, host, window, allow, slots, router, mishaps>>
          /\ closing \subseteq closing' /\ (adv' = adv \/ adv' = "off")
      BY <1>26 DEF OnIdleDrop, OnReclaim, Terminated, Restarting, phase, trust, tasks
    <2>2. PICK action : Next1(action) /\ action # "TIMEOUT"
      BY <1>26 DEF OnIdleDrop, OnReclaim
    <2>3. WipeQueued' <=> WipeQueued
      BY <1>1, <2>2, TakenWaits
    <2>4. (Settled' <=> Settled) /\ (Completing' <=> Completing) /\ (Wiping' <=> Wiping)
      BY <2>1, <2>3 DEF Settled, Lapsed, Completing, Wiping, Erasing, nvs
    <2>5. QED
      BY <1>1, <2>1, <2>3, <2>4 DEF nvs
  <1>27. CASE FactoryReset
    <2>1. admin' = "restart"
      BY <1>27 DEF FactoryReset
    <2>2. QED
      BY <2>1 DEF Settled
  <1>28. CASE FactoryRestart \/ Reset
    <2>1. admin' = "idle" /\ armed' = ~latch' /\ latch' = latch
      BY <1>28, BootForgets
    <2>2. QED
      BY <1>1, <2>1 DEF Settled, Lapsed, TypeOK
  <1>29. QED
    BY <1>5, <1>6, <1>7, <1>8, <1>9, <1>10, <1>11, <1>12, <1>13, <1>14, <1>15, <1>16, <1>17, <1>18,
       <1>19, <1>20, <1>21, <1>22, <1>23, <1>24, <1>25, <1>26, <1>27, <1>28
       DEF Next, HostStep, AdminStep, RouterStep

-----------------------------------------------------------------------------
(* What is on the air.                                                     *)

\* Only a restart of the device ends the wait for one.
LEMMA RestartStays ==
  ASSUME Next, ~(FactoryRestart \/ Reset), admin = "restart"
  PROVE  admin' = "restart"
  <1>1. CASE \E p \in Peers : Connect(p) \/ Disconnect(p) \/ Encrypt(p) \/ Evict(p) \/ FinishSetup(p)
    BY <1>1 DEF Connect, Disconnect, Encrypt, Evict, FinishSetup, tasks
  <1>2. CASE (\E t \in Tasks : StartAdvertising(t)) \/ OpenWindow \/ WindowTimeout
    BY <1>2 DEF StartAdvertising, OpenWindow, WindowTimeout
  <1>3. CASE (\E step \in Steps : WizardAsk(step)) \/ WizardEnds
    BY <1>3 DEF WizardAsk, WizardEnds, tasks
  <1>4. CASE HostStep
    BY <1>4 DEF HostStep, PersistAdmission, EvictBond, EvictAdmission, FinishAdmit, FinishLatch,
       FinishList, FinishRollback, FinishDisarm
  <1>5. CASE AdminStep \/ Press \/ IdleDrop \/ FactoryReset
    BY <1>5 DEF AdminStep, WipeAccounts, WipeAdmissions, WipeNuki, WipeCache, WipeEmit, Erases,
                Rearm, Expire, Press, IdleDrop, FactoryReset
  <1>6. CASE RouterStep
    BY <1>6 DEF RouterStep, OnTimeout, OnTimeoutSilence, OnIdleDrop, OnReclaim, tasks
  <1>7. QED
    BY <1>1, <1>2, <1>3, <1>4, <1>5, <1>6 DEF Next

\* The host task moves by its own steps only, and from idle by three of a client's.
LEMMA HostMoves ==
  ASSUME Next, ~HostStep, ~(FactoryRestart \/ Reset)
  PROVE  host' = host \/ (host.at = "idle" /\ host'.at \in {"persist", "unbond", "admit"})
  <1>1. CASE \E p \in Peers : Encrypt(p) \/ Evict(p) \/ FinishSetup(p)
    BY <1>1 DEF Encrypt, Evict, FinishSetup, HostFree, HostIdle, AtWork
  <1>2. CASE \E p \in Peers : Connect(p) \/ Disconnect(p)
    BY <1>2 DEF Connect, Disconnect, tasks
  <1>3. CASE (\E t \in Tasks : StartAdvertising(t)) \/ OpenWindow \/ WindowTimeout
    BY <1>3 DEF StartAdvertising, OpenWindow, WindowTimeout
  <1>4. CASE \/ (\E step \in Steps : WizardAsk(step)) \/ WizardEnds
             \/ WipeAccounts \/ WipeAdmissions \/ WipeNuki \/ WipeCache \/ WipeEmit
             \/ Rearm \/ Expire \/ Press \/ IdleDrop \/ FactoryReset
    BY <1>4, OffAir
  <1>5. CASE RouterStep
    BY <1>5 DEF RouterStep, OnTimeout, OnTimeoutSilence, OnIdleDrop, OnReclaim, tasks
  <1>6. QED
    BY <1>1, <1>2, <1>3, <1>4, <1>5 DEF Next, AdminStep

\* Filtered advertising is on the air, or about to be.
Filtering == adv = "filtered" \/ \E t \in Tasks : plan[t] = "filtered"
LEMMA ClaimedAirKept ==
  ASSUME IInv, LinkedInv, WindowInv, ClaimedAir, Next
  PROVE  ClaimedAir'
  <1>1. CASE FactoryRestart \/ Reset
    <2>1. /\ plan' = NoPlan /\ host'.at = "idle" /\ latch' = latch
          /\ adv' = ModeFor(FALSE, latch, ~latch)
      BY <1>1, BootForgets
    <2>2. adv' = "filtered" => latch
      BY <2>1, ModeIs DEF IInv, TypeOK
    <2>3. ~\E t \in Tasks : plan'[t] = "filtered"
      BY <2>1 DEF NoPlan
    <2>4. QED
      BY <2>1, <2>2, <2>3 DEF ClaimedAir
  <1> DEFINE Unlisted == host.at \in {"list", "rollback"} => closing # {}
  <1> SUFFICES ASSUME ~(FactoryRestart \/ Reset),
                      mishaps' \cap {"landed", "raced"} = {}, admin' # "restart",
                      mishaps' \cap Faults = {} \/ host'.at = "rollback",
                      Filtering'
               PROVE  latch' /\ Unlisted'
    BY <1>1 DEF ClaimedAir, Filtering
  <1>2. admin # "restart"
    BY RestartStays
  <1>3. /\ TypeOK /\ mishaps \cap {"landed", "raced"} = {}
        /\ ~Revoked
    BY LastingMishaps DEF IInv, Revoked
  <1>4. /\ mishaps \cap Faults = {} \/ (host.at = "rollback" /\ host'.at = "rollback")
    <2>1. CASE mishaps' \cap Faults = {}
      BY <2>1, LastingMishaps
    <2>2. CASE host'.at = "rollback"
      <3>1. CASE HostStep
        BY <2>2, <3>1 DEF HostStep, PersistAdmission, EvictBond, EvictAdmission, FinishAdmit,
           FinishLatch, FinishList, FinishRollback, FinishDisarm, AtWork, HostIdle, Fault, CanFail
      <3>2. CASE ~HostStep
        BY <2>2, <3>2, HostMoves
      <3>3. QED
        BY <3>1, <3>2
    <2>3. QED
      BY <2>1, <2>2
  <1>5. Filtering => latch /\ Unlisted
    BY <1>2, <1>3, <1>4 DEF ClaimedAir, Filtering
  <1>6. CASE \E p \in Peers : Connect(p)
    <2>1. UNCHANGED <<plan, host, latch>> /\ adv' = "off" /\ host.at = "idle"
      BY <1>6 DEF Connect, HostFree, HostIdle, nvs, tasks
    <2>2. Filtering
      BY <2>1 DEF Filtering
    <2>3. QED
      BY <1>5, <2>1, <2>2
  <1>7. CASE \E p \in Peers : Disconnect(p)
    <2>1. Restarting("host", Mode) /\ UNCHANGED <<host, latch>> /\ host.at = "idle"
      BY <1>7 DEF Disconnect, HostFree, HostIdle, nvs
    <2>2. Filtering \/ Mode = "filtered"
      BY <1>3, <2>1, Restarts, ModeIs DEF Filtering, Tasks, Mode, TypeOK
    <2>3. latch
      BY <1>3, <1>5, <2>2, ModeIs DEF Mode, TypeOK
    <2>4. QED
      BY <2>1, <2>3
  <1>8. CASE \/ \E p \in Peers : Encrypt(p) \/ Evict(p) \/ FinishSetup(p)
             \/ PersistAdmission \/ EvictBond \/ EvictAdmission
    <2>1. /\ UNCHANGED <<plan, adv, latch>>
          /\ host'.at \notin {"list", "rollback"}
      <3>1. CASE \E p \in Peers : Encrypt(p) \/ Evict(p) \/ FinishSetup(p)
        BY <3>1 DEF Encrypt, Evict, FinishSetup, HostFree, HostIdle, AtWork, nvs, air
      <3>2. CASE PersistAdmission \/ EvictBond \/ EvictAdmission
        BY <3>2 DEF PersistAdmission, EvictBond, EvictAdmission, HostIdle, AtWork, nvs, air
      <3>3. QED
        BY <1>8, <3>1, <3>2
    <2>2. Filtering
      BY <2>1 DEF Filtering
    <2>3. QED
      BY <1>5, <2>1, <2>2
  <1>9. CASE \E t \in Tasks : StartAdvertising(t)
    <2>1. PICK t \in Tasks : StartAdvertising(t)
      BY <1>9
    <2>2. UNCHANGED <<latch, host, closing>> /\ Filtering
      BY <1>3, <2>1, Starts DEF Filtering, nvs
    <2>3. QED
      BY <1>5, <2>2
  <1>10. CASE OpenWindow
    <2>1. Restarting("app", ModeFor(TRUE, latch, armed)) /\ UNCHANGED <<latch, host, closing>>
      BY <1>10 DEF OpenWindow, nvs
    <2>2. ModeFor(TRUE, latch, armed) = "pairing"
      <3>1. TRUE \in BOOLEAN /\ latch \in BOOLEAN /\ armed \in BOOLEAN
        BY <1>3 DEF TypeOK
      <3>2. QED
        BY <3>1, ModeIs
    <2>3. Filtering
      BY <1>3, <2>1, <2>2, Restarts DEF Filtering, Tasks, Modes
    <2>4. QED
      BY <1>5, <2>1, <2>3
  <1>11. CASE WindowTimeout
    <2>1. UNCHANGED <<latch, host, closing>>
      BY <1>11 DEF WindowTimeout, nvs
    <2>2. CASE UNCHANGED <<plan, adv>>
      BY <1>5, <2>1, <2>2 DEF Filtering
    <2>3. CASE window /\ Restarting("timer", ModeFor(FALSE, latch, armed)) /\ Fine
      <3>1. /\ ModeFor(FALSE, latch, armed) \in Modes
            /\ ModeFor(FALSE, latch, armed) = "filtered" => latch
        BY <1>3, ModeIs DEF TypeOK
      <3>2. latch
        BY <1>3, <1>5, <2>3, <3>1, Restarts DEF Filtering, Tasks
      <3>3. host.at \notin {"list", "rollback"}
        <4>1. window => ~armed
          BY <1>3 DEF WindowInv
        <4>2. host.at = "rollback" => armed
          BY <1>3 DEF WindowInv
        <4>3. host.at = "list" => armed
          BY <1>3, <1>4 DEF WindowInv, Completing
        <4>4. QED
          BY <2>3, <4>1, <4>2, <4>3
      <3>4. QED
        BY <2>1, <3>2, <3>3
    <2>4. QED
      BY <1>11, <2>2, <2>3 DEF WindowTimeout, ClosedByTimer
  <1>12. CASE FinishAdmit \/ FinishDisarm
    <2>1. UNCHANGED <<plan, adv, latch>> /\ host'.at \in {"idle", "latch"}
      BY <1>12 DEF FinishAdmit, FinishDisarm, HostIdle, AtWork, nvs, air
    <2>2. QED
      BY <1>5, <2>1 DEF Filtering
  <1>13. CASE FinishLatch
    <2>1. UNCHANGED <<plan, adv>> /\ ~latch
      BY <1>13 DEF FinishLatch, LinkedInv, air
    <2>2. QED
      BY <1>5, <2>1 DEF Filtering
  <1>14. CASE FinishList
    <2>1. UNCHANGED <<latch, closing>> /\ host.at = "list"
      BY <1>14 DEF FinishList, nvs
    <2>2. CASE UNCHANGED <<plan, adv>>
      BY <1>5, <2>1, <2>2 DEF Filtering
    <2>3. CASE Restarting("host", Mode) /\ host' = AtWork("disarm", host.peer)
      <3>1. Filtering \/ Mode = "filtered"
        BY <1>3, <2>3, Restarts, ModeIs DEF Filtering, Tasks, Mode, TypeOK
      <3>2. latch
        BY <1>3, <1>5, <3>1, ModeIs DEF Mode, TypeOK
      <3>3. QED
        BY <2>1, <2>3, <3>2 DEF AtWork
    <2>4. QED
      BY <1>14, <2>2, <2>3 DEF FinishList
  <1>15. CASE FinishRollback
    <2>1. host.at = "rollback" /\ host'.at = "idle" /\ mishaps' = mishaps
      BY <1>15 DEF FinishRollback, HostIdle
    <2>2. QED
      BY <2>1 DEF LinkedInv
  <1>16. CASE \/ (\E step \in Steps : WizardAsk(step)) \/ WizardEnds
             \/ WipeAccounts \/ WipeAdmissions \/ WipeNuki \/ WipeCache \/ WipeEmit
             \/ Rearm \/ Expire \/ Press \/ IdleDrop
    <2>1. UNCHANGED <<plan, adv, host, closing>>
      BY <1>16, OffAir
    <2>2. latch' = latch
      BY <1>16 DEF WizardAsk, WizardEnds, WipeAccounts, WipeAdmissions, WipeNuki, WipeCache,
                   WipeEmit, Rearm, Expire, Press, IdleDrop, nvs
    <2>3. QED
      BY <1>5, <2>1, <2>2 DEF Filtering
  <1>17. CASE FactoryReset
    BY <1>17 DEF FactoryReset
  <1>18. CASE OnTimeout \/ OnTimeoutSilence \/ OnIdleDrop
    <2>1. UNCHANGED <<plan, latch, host>> /\ closing \subseteq closing' /\ adv' \in {adv, "off"}
      BY <1>18 DEF OnTimeout, OnTimeoutSilence, Silenced, OnIdleDrop, Terminated, nvs, tasks
    <2>2. Filtering
      BY <2>1 DEF Filtering
    <2>3. QED
      BY <1>5, <2>1, <2>2
  <1>19. CASE OnReclaim
    <2>1. /\ Restarting("router", Mode) /\ UNCHANGED <<host, latch>>
          /\ closing' = closing \cup (slots \cap {p \in Peers : link[p] # "none"})
      BY <1>19 DEF OnReclaim, Terminated, nvs
    <2>2. Filtering \/ Mode = "filtered"
      BY <1>3, <2>1, Restarts, ModeIs DEF Filtering, Tasks, Mode, TypeOK
    <2>3. latch
      BY <1>3, <1>5, <2>2, ModeIs DEF Mode, TypeOK
    <2>4. host.at \in {"list", "rollback"} => host.peer \in closing'
      BY <1>3, <2>1 DEF LinkedInv, TypeOK
    <2>5. QED
      BY <2>1, <2>3, <2>4
  <1>20. QED
    BY <1>6, <1>7, <1>8, <1>9, <1>10, <1>11, <1>12, <1>13, <1>14, <1>15, <1>16, <1>17, <1>18, <1>19
       DEF Next, HostStep, AdminStep, RouterStep

\* The mode that applies depends on the window, the latch and the phase, and on the host
\* task only where it has set the latch and not yet acted on it.
LEMMA MeantKept ==
  ASSUME UNCHANGED <<window, latch, armed>>,
         host'.at \in {"list", "rollback"} <=> host.at \in {"list", "rollback"}
  PROVE  Meant' = Meant
  <1>1. (latch /\ host.at \notin {"list", "rollback"})' = (latch /\ host.at \notin {"list", "rollback"})
    OBVIOUS
  <1>2. QED
    BY <1>1 DEF Meant

LEMMA MeantIs ==
  ASSUME TypeOK
  PROVE  /\ host.at \notin {"list", "rollback"} => Meant = Mode
         /\ ~latch => Meant = Mode
         /\ window => Meant = "pairing"
  <1>1. (latch /\ host.at \notin {"list", "rollback"}) \in BOOLEAN
    OBVIOUS
  <1>2. window => Meant = "pairing"
    BY <1>1, ModeIs DEF Meant, TypeOK
  <1>3. ASSUME host.at \notin {"list", "rollback"} \/ ~latch
        PROVE  Meant = Mode
    <2>1. (latch /\ host.at \notin {"list", "rollback"}) = latch
      BY <1>3 DEF TypeOK
    <2>2. QED
      BY <2>1 DEF Meant, Mode
  <1>4. QED
    BY <1>2, <1>3

\* Advertising is in the mode that applies, or will be restarted.
LEMMA AirKept ==
  ASSUME IInv, LinkedInv, RaceInv, WindowInv, QueueInv, ClaimedAir, AirInv, Next
  PROVE  AirInv'
  <1>1. CASE FactoryRestart \/ Reset
    <2>1. /\ host'.at = "idle" /\ ~window' /\ armed' = ~latch' /\ latch' = latch
          /\ adv' = ModeFor(FALSE, latch, ~latch) /\ latch \in BOOLEAN
      BY <1>1, BootForgets DEF IInv, TypeOK
    <2>2. window' = FALSE
      BY <1>1 DEF FactoryRestart, Reset, Boot
    <2>3. (latch /\ host.at \notin {"list", "rollback"})' = latch
      BY <2>1
    <2>4. Meant' = adv'
      BY <2>1, <2>2, <2>3 DEF Meant
    <2>5. QED
      BY <2>4 DEF AirInv
  <1>2. CASE \E t \in Tasks : StartAdvertising(t)
    <2>1. PICK t \in Tasks : StartAdvertising(t)
      BY <1>2
    <2> SUFFICES ASSUME mishaps' \cap {"late", "unswitched", "lost", "raced"} = {}, ~Revoked', ~Pending'
                 PROVE  adv' = Meant'
      BY DEF AirInv
    <2>2. /\ UNCHANGED <<nvs, phase, window, host, admin, closing>>
          /\ adv' = Mode /\ (adv' = "filtered" => adv = "filtered" \/ plan[t] = "filtered")
      BY <2>1, Starts DEF IInv
    <2>3. TypeOK /\ mishaps' \cap (Faults \cup {"landed"}) = mishaps \cap (Faults \cup {"landed"})
      BY <2>1, Starts DEF IInv
    <2>4. ~Revoked /\ "raced" \notin mishaps
      BY LastingMishaps
    <2>5. admin = "idle" /\ closing = {}
      BY <2>2 DEF Pending
    <2>6. CASE host.at \in {"list", "rollback"}
      <3>1. "landed" \notin mishaps /\ (mishaps \cap Faults = {} \/ host.at = "rollback")
        <4>1. CASE host.at = "list"
          BY <2>2, <2>3, <4>1 DEF Pending
        <4>2. CASE host.at = "rollback"
          BY <2>4, <4>2 DEF LinkedInv, Revoked
        <4>3. QED
          BY <2>6, <4>1, <4>2
      <3>2. Mode # "filtered"
        BY <2>2, <2>4, <2>5, <2>6, <3>1 DEF ClaimedAir
      <3>3. window \/ ~latch
        BY <2>3, <3>2, ModeIs DEF Mode, TypeOK
      <3>4. CASE window
        <4>1. Mode = "pairing" /\ ModeFor(window, FALSE, armed) = "pairing"
          BY <2>3, <3>4, ModeIs DEF Mode, TypeOK
        <4>2. Meant' = ModeFor(window, FALSE, armed)
          <5>1. (latch /\ host.at \notin {"list", "rollback"}) = FALSE
            BY <2>6
          <5>2. QED
            BY <2>2, <5>1 DEF Meant, nvs, phase
        <4>3. QED
          BY <2>2, <4>1, <4>2
      <3>5. CASE ~latch
        <4>1. latch = FALSE
          BY <2>3, <3>5 DEF TypeOK
        <4>2. QED
          BY <2>2, <2>6, <4>1 DEF Mode, Meant, nvs, phase
      <3>6. QED
        BY <3>3, <3>4, <3>5
    <2>7. CASE host.at \notin {"list", "rollback"}
      <3>1. (latch /\ host.at \notin {"list", "rollback"}) = latch
        BY <2>3, <2>7 DEF TypeOK
      <3>2. QED
        BY <2>2, <3>1 DEF Mode, Meant, nvs, phase
    <2>8. QED
      BY <2>6, <2>7
  <1> SUFFICES ASSUME mishaps' \cap {"late", "unswitched", "lost", "raced"} = {}, ~Revoked',
                      ~Undoing
               PROVE  Pending' \/ adv' = Meant' \/ (adv' = "off" /\ slots' # {})
    BY <1>1, <1>2 DEF AirInv, Undoing
  <1>3. /\ TypeOK /\ ~Revoked /\ mishaps \cap {"late", "unswitched", "lost", "raced"} = {}
        /\ Pending \/ adv = Meant \/ (adv = "off" /\ slots # {})
        /\ mishaps \subseteq mishaps'
    BY LastingMishaps, MishapsGrow DEF AirInv, IInv
  <1>5. CASE \E p \in Peers : Connect(p)
    <2>1. PICK p \in Peers : Connect(p)
      BY <1>5
    <2>2. adv' = "off" /\ (p \in closing' \/ p \in slots')
      BY <2>1 DEF Connect, Refused, Accepted
    <2>3. QED
      BY <2>2 DEF Pending
  <1>6. CASE \E p \in Peers : Disconnect(p)
    <2>1. /\ Restarting("host", Mode) /\ UNCHANGED <<host, latch, window, armed>>
          /\ host.at = "idle"
      BY <1>6 DEF Disconnect, HostFree, HostIdle, nvs, trust
    <2>2. adv' = "off" /\ (Mode # "off" => plan' # NoPlan)
      BY <1>3, <2>1, Restarts, ModeIs DEF Tasks, Mode, TypeOK
    <2>3. Meant' = Mode
      BY <1>3, <2>1, MeantKept, MeantIs
    <2>4. QED
      BY <2>2, <2>3 DEF Pending
  <1>7. CASE \E p \in Peers : Encrypt(p)
    <2>1. PICK p \in Peers : Encrypt(p)
      BY <1>7
    <2>2. /\ UNCHANGED <<adv, slots, closing, plan, admin, router, latch, armed, events>>
          /\ host.at = "idle" /\ host'.at \notin {"list", "rollback"}
      BY <2>1 DEF Encrypt, HostFree, HostIdle, AtWork, phase
    <2>3. Pending => Pending'
      BY <2>2, QueueKept DEF Pending
    <2>4. CASE window /\ ~window'
      <3>1. adv # "pairing"
        BY <1>3, <2>1, <2>4 DEF Encrypt, Noted
      <3>2. Meant = "pairing"
        BY <1>3, <2>4, MeantIs
      <3>3. QED
        BY <1>3, <2>2, <2>3, <3>1, <3>2
    <2>5. CASE window' = window
      <3>1. Meant' = Meant
        BY <2>2, <2>5, MeantKept
      <3>2. QED
        BY <1>3, <2>2, <2>3, <3>1
    <2>6. QED
      BY <2>1, <2>4, <2>5 DEF Encrypt
  <1>8. CASE \/ \E p \in Peers : Evict(p) \/ FinishSetup(p)
             \/ PersistAdmission \/ EvictBond \/ EvictAdmission \/ FinishAdmit
    <2>1. /\ UNCHANGED <<adv, slots, plan, admin, router, latch, armed, window, events>>
          /\ closing \subseteq closing'
          /\ host.at \notin {"list", "rollback"} /\ host'.at \notin {"list", "rollback"}
      <3>1. CASE \E p \in Peers : Evict(p) \/ FinishSetup(p)
        BY <3>1 DEF Evict, FinishSetup, HostFree, HostIdle, AtWork, nvs, phase, trust, air
      <3>2. CASE PersistAdmission \/ EvictBond \/ EvictAdmission \/ FinishAdmit
        BY <3>2 DEF PersistAdmission, EvictBond, EvictAdmission, FinishAdmit, HostIdle, AtWork,
                    phase, trust, air
      <3>3. QED
        BY <1>8, <3>1, <3>2
    <2>2. (Pending => Pending') /\ Meant' = Meant
      BY <2>1, QueueKept, MeantKept DEF Pending
    <2>3. QED
      BY <1>3, <2>1, <2>2
  <1>9. CASE OpenWindow
    <2>1. Restarting("app", ModeFor(TRUE, latch, armed))
      BY <1>9 DEF OpenWindow
    <2>2. ModeFor(TRUE, latch, armed) = "pairing"
      <3>1. TRUE \in BOOLEAN /\ latch \in BOOLEAN /\ armed \in BOOLEAN
        BY <1>3 DEF TypeOK
      <3>2. QED
        BY <3>1, ModeIs
    <2>3. plan' # NoPlan
      BY <1>3, <2>1, <2>2, Restarts DEF Tasks, Modes
    <2>4. QED
      BY <2>3 DEF Pending
  <1>10. CASE WindowTimeout
    <2>1. /\ UNCHANGED <<latch, armed, host, slots, closing, admin, router, events>>
      BY <1>10 DEF WindowTimeout, nvs, phase
    <2>2. CASE UNCHANGED <<plan, adv, window>>
      <3>1. (Pending => Pending') /\ Meant' = Meant
        BY <1>3, <2>1, <2>2, QueueKept, MeantKept DEF Pending
      <3>2. QED
        BY <1>3, <2>1, <2>2, <3>1
    <2>3. CASE window /\ window' = FALSE /\ Restarting("timer", ModeFor(FALSE, latch, armed))
      <3>1. /\ ModeFor(FALSE, latch, armed) \in Modes
            /\ ModeFor(FALSE, latch, armed) = "off" <=> ~latch /\ ~armed
        BY <1>3, ModeIs DEF TypeOK
      <3>2. adv' = "off" /\ (latch \/ armed => plan' # NoPlan)
        BY <1>3, <2>3, <3>1, Restarts DEF Tasks
      <3>3. ~latch /\ ~armed => Meant' = "off"
        <4>1. ~latch => (latch /\ host.at \notin {"list", "rollback"})' = FALSE
          BY <2>1
        <4>2. ~armed => armed' = FALSE
          BY <1>3, <2>1 DEF TypeOK
        <4>3. ModeFor(FALSE, FALSE, FALSE) = "off"
          BY ModeIs
        <4>4. QED
          BY <2>3, <4>1, <4>2, <4>3 DEF Meant
      <3>4. QED
        BY <3>2, <3>3 DEF Pending
    <2>4. QED
      BY <1>3, <1>10, <2>2, <2>3 DEF WindowTimeout, ClosedByTimer, TypeOK
  <1>11. CASE (\E step \in Steps : WizardAsk(step)) \/ WizardEnds
    <2>1. UNCHANGED <<plan, adv, window, slots, closing, router, host, admin, events, latch, armed>>
      BY <1>11 DEF WizardAsk, WizardEnds, nvs, phase, trust, tasks, air
    <2>2. (Pending => Pending') /\ Meant' = Meant
      BY <1>3, <2>1, QueueKept, MeantKept DEF Pending
    <2>3. QED
      BY <1>3, <2>1, <2>2
  <1>12. CASE FinishLatch
    <2>1. /\ UNCHANGED <<adv, slots, closing, plan, admin, router, armed, window, events>>
          /\ host.at = "latch" /\ ~latch
      BY <1>12 DEF FinishLatch, LinkedInv, phase, trust, air
    <2>2. (latch' /\ host'.at \notin {"list", "rollback"}) = FALSE
      <3>1. (latch' = TRUE /\ host'.at = "list") \/ latch' = latch
        BY <1>12 DEF FinishLatch, AtWork
      <3>2. QED
        BY <2>1, <3>1
    <2>3. (latch /\ host.at \notin {"list", "rollback"}) = FALSE
      BY <2>1
    <2>4. Meant' = Meant
      BY <2>1, <2>2, <2>3 DEF Meant
    <2>5. Pending => Pending'
      BY <2>1, QueueKept DEF Pending
    <2>6. QED
      BY <1>3, <2>1, <2>4, <2>5
  <1>13. CASE FinishList
    <2>1. /\ UNCHANGED <<latch, armed, window, slots, closing, admin, router, events>>
          /\ host.at = "list"
      BY <1>13 DEF FinishList, nvs, phase
    <2>2. CASE Restarting("host", Mode) /\ host' = AtWork("disarm", host.peer)
      <3>1. adv' = "off" /\ (Mode # "off" => plan' # NoPlan)
        BY <1>3, <2>2, Restarts, ModeIs DEF Tasks, Mode, TypeOK
      <3>2. (latch' /\ host'.at \notin {"list", "rollback"}) = latch
        BY <1>3, <2>1, <2>2 DEF AtWork, TypeOK
      <3>3. Meant' = Mode
        BY <2>1, <3>2 DEF Meant, Mode
      <3>4. QED
        BY <3>1, <3>3 DEF Pending
    <2>3. CASE host' = AtWork("rollback", host.peer) /\ Fault("lock") /\ UNCHANGED <<adv, plan>>
      <3>1. mishaps \cap Faults = {} /\ "lock" \in mishaps'
        BY <2>3 DEF Fault, CanFail
      <3>2. "landed" \notin mishaps
        BY <1>3, <3>1 DEF Revoked
      <3>3. Meant' = Meant
        BY <2>1, <2>3, MeantKept DEF AtWork
      <3>4. Pending => Pending'
        BY <2>1, <2>3, <3>1, <3>2, QueueKept DEF Pending
      <3>5. QED
        BY <1>3, <2>1, <2>3, <3>3, <3>4
    <2>4. QED
      BY <1>13, <2>2, <2>3 DEF FinishList
  <1>14. CASE FinishRollback
    <2>1. /\ UNCHANGED <<adv, slots, closing, plan, admin, router, armed, window, events>>
          /\ host.at = "rollback" /\ latch' = FALSE
      BY <1>14 DEF FinishRollback, RolledBack, phase, trust, air
    <2>2. (latch' /\ host'.at \notin {"list", "rollback"}) = (latch /\ host.at \notin {"list", "rollback"})
      BY <2>1
    <2>3. Meant' = Meant
      BY <2>1, <2>2 DEF Meant
    <2>4. Pending => Pending'
      BY <2>1, QueueKept DEF Pending
    <2>5. QED
      BY <1>3, <2>1, <2>3, <2>4
  <1>15. CASE FinishDisarm
    <2>1. /\ UNCHANGED <<adv, slots, closing, plan, admin, router, latch, window, events>>
          /\ host.at = "disarm" /\ host'.at = "idle"
      BY <1>15 DEF FinishDisarm, HostIdle, nvs, trust, air
    <2>2. latch = TRUE
      BY <1>3, <2>1 DEF IInv, ClaimInv, TypeOK
    <2>3. /\ (latch /\ host.at \notin {"list", "rollback"}) = TRUE
          /\ (latch' /\ host'.at \notin {"list", "rollback"}) = TRUE
      BY <2>1, <2>2
    <2>4. TRUE \in BOOLEAN /\ window \in BOOLEAN /\ armed \in BOOLEAN /\ armed' \in BOOLEAN
      BY <1>3, <1>15 DEF FinishDisarm, TypeOK
    <2>5. Meant' = Meant
      <3>1. Meant = ModeFor(window, TRUE, armed) /\ Meant' = ModeFor(window, TRUE, armed')
        BY <2>1, <2>3 DEF Meant
      <3>2. ModeFor(window, TRUE, armed) = ModeFor(window, TRUE, armed')
        <4>1. CASE window
          <5>1. ModeFor(window, TRUE, armed) = "pairing"
            BY <2>4, <4>1, ModeIs
          <5>2. ModeFor(window, TRUE, armed') = "pairing"
            BY <2>4, <4>1, ModeIs
          <5>3. QED
            BY <5>1, <5>2
        <4>2. CASE ~window
          <5>1. ModeFor(window, TRUE, armed) = "filtered"
            BY <2>4, <4>2, ModeIs
          <5>2. ModeFor(window, TRUE, armed') = "filtered"
            BY <2>4, <4>2, ModeIs
          <5>3. QED
            BY <5>1, <5>2
        <4>3. QED
          BY <4>1, <4>2
      <3>3. QED
        BY <3>1, <3>2
    <2>6. Pending => Pending'
      BY <2>1, QueueKept DEF Pending
    <2>7. QED
      BY <1>3, <2>1, <2>5, <2>6
  <1>16. CASE Press \/ Expire \/ FactoryReset \/ WipeAccounts \/ WipeAdmissions \/ WipeNuki \/ WipeCache
    <2>1. admin' # "idle"
      BY <1>16 DEF Press, Expire, FactoryReset, WipeAccounts, WipeAdmissions, WipeNuki, WipeCache,
                   Erases
    <2>2. QED
      BY <2>1 DEF Pending
  <1>17. CASE Rearm \/ WipeEmit
    <2>1. PICK e \in Event : (\E noted : Emit(e, noted)) /\ e.action \in {"RECLAIM", "TIMEOUT"}
      BY <1>3, <1>17, Emitting
    <2>2. WipeQueued' \/ Reclaiming'
      BY <1>3, <2>1, EmitWaits
    <2>3. QED
      BY <2>2 DEF Pending
  <1>18. CASE IdleDrop
    <2>1. PICK e \in Event : Emit(e, {})
      BY <1>3, <1>18, Emitting
    <2>2. UNCHANGED <<adv, slots, closing, plan, admin, router, latch, armed, window, host>>
      BY <1>18 DEF IdleDrop, nvs, trust, tasks, air
    <2>3. (Reclaiming => Reclaiming') /\ (WipeQueued => WipeQueued')
      BY <1>3, <2>1, EmitWaits
    <2>4. (Pending => Pending') /\ Meant' = Meant
      BY <1>3, <2>2, <2>3, MeantKept DEF Pending
    <2>5. QED
      BY <1>3, <2>2, <2>4
  <1>19. CASE OnTimeout
    BY <1>19 DEF OnTimeout, Pending
  <1>20. CASE OnTimeoutSilence
    <2>1. /\ UNCHANGED <<latch, armed, admin, host, events>> /\ router = "silence" /\ adv' = "off"
          /\ ~window' \/ window' = window
      BY <1>20 DEF OnTimeoutSilence, Silenced, nvs, phase
    <2>2. CASE armed
      <3>1. Reclaiming
        BY <1>3, <2>1, <2>2 DEF QueueInv
      <3>2. QED
        BY <2>1, <3>1, QueueKept DEF Pending
    <2>3. CASE admin # "idle"
      BY <2>1, <2>3 DEF Pending
    <2>4. CASE ~armed /\ admin = "idle"
      <3>1. ~latch
        BY <1>3, <2>1 DEF RaceInv, Wiping
      <3>2. ~window
        BY <1>3, <2>4, <3>1 DEF WindowInv
      <3>3. window' = FALSE /\ armed' = FALSE
        BY <1>3, <1>20, <2>1, <2>4, <3>2 DEF OnTimeoutSilence, TypeOK
      <3>4. (latch' /\ host'.at \notin {"list", "rollback"}) = FALSE
        BY <2>1, <3>1
      <3>5. Meant' = "off"
        BY <3>3, <3>4, ModeIs DEF Meant
      <3>6. QED
        BY <2>1, <3>5
    <2>5. QED
      BY <2>2, <2>3, <2>4
  <1>21. CASE OnIdleDrop
    <2>1. /\ UNCHANGED <<adv, slots, plan, admin, router, latch, armed, window, host>>
          /\ closing \subseteq closing'
      BY <1>21 DEF OnIdleDrop, Terminated, nvs, phase, trust, tasks
    <2>2. (Reclaiming => Reclaiming') /\ (WipeQueued => WipeQueued')
      BY <1>3, <1>21, TakenWaits DEF OnIdleDrop
    <2>3. (Pending => Pending') /\ Meant' = Meant
      BY <1>3, <2>1, <2>2, MeantKept DEF Pending
    <2>4. QED
      BY <1>3, <2>1, <2>3
  <1>22. CASE OnReclaim
    <2>1. Restarting("router", Mode) /\ UNCHANGED <<latch, armed, window, host>>
      BY <1>22 DEF OnReclaim, nvs, phase, trust
    <2>2. adv' = "off" /\ (Mode # "off" => plan' # NoPlan)
      BY <1>3, <2>1, Restarts, ModeIs DEF Tasks, Mode, TypeOK
    <2>3. Mode = "off" => Meant' = "off"
      <3>1. Meant' = Meant
        BY <2>1, MeantKept
      <3>2. Mode = "off" => ~latch
        BY <1>3, ModeIs DEF Mode, TypeOK
      <3>3. QED
        BY <1>3, <3>1, <3>2, MeantIs
    <2>4. QED
      BY <2>2, <2>3 DEF Pending
  <1>23. QED
    BY <1>5, <1>6, <1>7, <1>8, <1>9, <1>10, <1>11, <1>12, <1>13, <1>14, <1>15, <1>16, <1>17, <1>18,
       <1>19, <1>20, <1>21, <1>22 DEF Next, Undoing, HostStep, AdminStep, RouterStep

-----------------------------------------------------------------------------
(* A device at rest is on the air as it should be.                         *)

AirborneInv ==
  /\ IInv /\ LinkedInv /\ RaceInv /\ WindowInv /\ QueueInv /\ CoverInv
  /\ FilterInv /\ AirInv /\ ClaimedAir /\ LapseInv

LEMMA AirborneInit == Init => AirborneInv
  <1> SUFFICES ASSUME Init PROVE AirborneInv
    OBVIOUS
  <1>1. /\ IInv /\ slots = {} /\ closing = {} /\ conn = Nobody /\ link = NoLink
        /\ host.at = "idle" /\ admin = "idle" /\ router = "idle" /\ events = <<>>
        /\ window = FALSE /\ plan = NoPlan /\ armed = ~latch /\ latch \in BOOLEAN
        /\ adv = ModeFor(FALSE, latch, ~latch) /\ (latch => wl = allow)
    BY InitInv DEF Init, HostIdle
  <1>2. ~Reclaiming /\ ~WipeQueued /\ Behind
    BY <1>1 DEF Reclaiming, WipeQueued, Behind
  <1>3. LinkedInv
    BY <1>1 DEF LinkedInv, NoLink
  <1>4. RaceInv /\ WindowInv /\ QueueInv /\ CoverInv
    BY <1>1, <1>2 DEF RaceInv, WindowInv, QueueInv, CoverInv, Wiping, Erasing, Completing
  <1>5. adv = "filtered" => latch
    BY <1>1, ModeIs
  <1>6. FilterInv /\ ClaimedAir
    BY <1>1, <1>5 DEF FilterInv, ClaimedAir, NoPlan
  <1>7. (latch /\ host.at \notin {"list", "rollback"}) = latch
    BY <1>1
  <1>8. Meant = adv
    BY <1>1, <1>7 DEF Meant
  <1>9. AirInv /\ LapseInv
    BY <1>1, <1>8 DEF AirInv, LapseInv, Settled, Lapsed
  <1>10. QED
    BY <1>1, <1>3, <1>4, <1>6, <1>9 DEF AirborneInv

LEMMA AirborneStutter == AirborneInv /\ UNCHANGED vars => AirborneInv'
  <1> SUFFICES ASSUME AirborneInv, UNCHANGED vars PROVE AirborneInv'
    OBVIOUS
  <1> USE DEF vars, nvs, phase, trust, tasks, air
  <1>1. IInv'
    BY StutterInv DEF AirborneInv
  <1>2. /\ (WipeQueued' <=> WipeQueued) /\ (Reclaiming' <=> Reclaiming) /\ (Behind' <=> Behind)
        /\ \A p : DropWaiting(p)' <=> DropWaiting(p)
    BY QueueKept
  <1>3. (Revoked' <=> Revoked) /\ (Completing' <=> Completing) /\ (Settled' <=> Settled)
        /\ (Wiping' <=> Wiping) /\ (Pending' <=> Pending) /\ Meant' = Meant
    <2>1. Meant' = Meant
      BY MeantKept
    <2>2. (Revoked' <=> Revoked) /\ (Completing' <=> Completing) /\ (Settled' <=> Settled)
      BY DEF Revoked, Completing, Settled, Lapsed
    <2>3. (Wiping' <=> Wiping) /\ (Pending' <=> Pending)
      BY <1>2 DEF Wiping, Erasing, Pending
    <2>4. QED
      BY <2>1, <2>2, <2>3
  <1>4. LinkedInv' /\ RaceInv' /\ WindowInv'
    BY <1>3 DEF AirborneInv, LinkedInv, RaceInv, WindowInv
  <1>5. QueueInv' /\ CoverInv'
    BY <1>2 DEF AirborneInv, QueueInv, CoverInv
  <1>6. FilterInv' /\ ClaimedAir'
    BY DEF AirborneInv, FilterInv, ClaimedAir
  <1>7. AirInv' /\ LapseInv'
    BY <1>2, <1>3 DEF AirborneInv, AirInv, LapseInv
  <1>8. QED
    BY <1>1, <1>4, <1>5, <1>6, <1>7 DEF AirborneInv

LEMMA AirborneNext == AirborneInv /\ [Next]_vars => AirborneInv'
  <1>1. ASSUME AirborneInv, Next PROVE AirborneInv'
    <2>1. IInv'
      BY <1>1, NextInv DEF AirborneInv
    <2>2. LinkedInv' /\ FilterInv'
      BY <1>1, LinkedKept, FilterKept DEF AirborneInv, IInv
    <2>3. RaceInv' /\ WindowInv' /\ LapseInv'
      BY <1>1, RaceKept, WindowKept, LapseKept DEF AirborneInv
    <2>4. QueueInv' /\ CoverInv'
      BY <1>1, QueueInvKept, CoverKept DEF AirborneInv
    <2>5. ClaimedAir' /\ AirInv'
      BY <1>1, ClaimedAirKept, AirKept DEF AirborneInv
    <2>6. QED
      BY <2>1, <2>2, <2>3, <2>4, <2>5 DEF AirborneInv
  <1>2. QED
    BY <1>1, AirborneStutter

LEMMA Airborne == Spec => []AirborneInv
  BY AirborneInit, AirborneNext, PTL DEF Spec

\* Nothing waits at rest, and nobody is about to advertise.
LEMMA RestIsIdle ==
  ASSUME Rest
  PROVE  /\ host.at = "idle" /\ admin = "idle" /\ router = "idle" /\ closing = {}
         /\ ~WipeQueued /\ ~Reclaiming /\ ~Pending /\ ~Wiping
         /\ \A p : ~DropWaiting(p)
  <1>1. /\ host.at = "idle" /\ admin = "idle" /\ router = "idle" /\ closing = {}
        /\ plan = NoPlan /\ events = <<>>
    BY DEF Rest, HostFree, HostIdle
  <1>2. ~WipeQueued /\ ~Reclaiming /\ \A p : ~DropWaiting(p)
    BY <1>1 DEF WipeQueued, Reclaiming, DropWaiting
  <1>3. QED
    BY <1>1, <1>2 DEF Pending, Wiping, Erasing

\* A device at rest advertises in the mode that applies, or not at all with a client
\* connected, and filtered advertising lets in the allow-listed and nobody else, whatever
\* order its tasks set the window, the latch and the phase and restarted advertising in.
THEOREM OnTheAirAsMeant == Spec => []AdvertisesAsMeant
  <1>1. AirborneInv => AdvertisesAsMeant
    <2>1. ASSUME AirborneInv, Rest, mishaps \cap {"late", "unswitched", "lost", "raced"} = {},
                 ~({"landed", "lock"} \subseteq mishaps)
          PROVE  /\ adv = Mode \/ (adv = "off" /\ slots # {})
                 /\ adv = "filtered" => wl \subseteq allow /\ allow \ wl \subseteq slots
      <3>1. adv = Meant \/ (adv = "off" /\ slots # {})
        BY <2>1, RestIsIdle DEF AirborneInv, AirInv, Revoked
      <3>2. Meant = Mode
        BY <2>1, RestIsIdle, MeantIs DEF AirborneInv, IInv
      <3>3. adv = "filtered" => wl \subseteq allow /\ allow \ wl \subseteq slots
        BY <2>1, RestIsIdle DEF AirborneInv, FilterInv
      <3>4. QED
        BY <3>1, <3>2, <3>3
    <2>2. QED
      BY <2>1 DEF AdvertisesAsMeant
  <1>2. QED
    BY <1>1, Airborne, PTL

\* No client keeps the setup connection of an armed phase unwatched: the idle timer has
\* it, or has dropped it already.
THEOREM ConnectionsAreWatched == Spec => []IdleCovered
  <1>1. AirborneInv => IdleCovered
    <2>1. ASSUME AirborneInv, Rest, armed, mishaps \cap {"second", "lost", "raced"} = {}
          PROVE  slots \subseteq {conn}
      BY <2>1, RestIsIdle DEF AirborneInv, CoverInv
    <2>2. QED
      BY <2>1 DEF IdleCovered
  <1>2. QED
    BY <1>1, Airborne, PTL

\* When a lapsed phase has come to rest it has left nothing behind, in NVS, in RAM, in the
\* bond store or on the air.
THEOREM LapsedPhaseLeavesNothing == Spec => []LapsedClean
  <1>1. AirborneInv => LapsedClean
    <2>1. ASSUME AirborneInv, Rest, Lapsed,
                 mishaps \cap (Faults \cup {"landed", "raced", "late"}) = {}
          PROVE  /\ done = {} /\ admitted = {} /\ bonds = {} /\ allow = {}
                 /\ adv = "off" /\ slots = {}
      BY <2>1, RestIsIdle DEF AirborneInv, LapseInv, Settled
    <2>2. QED
      BY <2>1 DEF LapsedClean
  <1>2. QED
    BY <1>1, Airborne, PTL
=============================================================================
