---------------------------- MODULE SdfOtaProofs ----------------------------
(***************************************************************************)
(* Proofs about SdfOta: the handle of the session is returned exactly once *)
(* on every path, and, short of a mishap, what the device is left to boot  *)
(* is one whole image from one transfer.                                   *)
(***************************************************************************)
EXTENDS SdfOta, TLAPS

-----------------------------------------------------------------------------
(* The inductive invariant.                                                *)

\* The mutex is held over a step only by a task that erases or validates.
MutexInv ==
  /\ holder = "host" <=> At("erase") \/ At("validate")
  /\ holder = "zigbee" <=> zpc \in {"erase", "validate"}
  /\ holder # "timer"

\* What the holder of the mutex relies on: nobody opened or closed the session since.
HeldInv ==
  /\ At("erase") \/ zpc = "erase" => ~s.active
  /\ At("validate") \/ zpc = "validate" =>
       s.active /\ s.open /\ s.state = "COMMITTING"
  /\ At("begin") \/ At("erase") => host.size \in Sizes

\* An active session: its size, and the transfers it has chunks of.
ContentInv ==
  s.active => /\ s.size > 0
              /\ s.bytes > 0 => s.from # {}

Quiet == mishaps = {}

\* The Zigbee handle is the session's.
ZigbeeInv ==
  /\ zigbee => s.active /\ s.owner = downloads /\ downloads > 0
  /\ zpc = "erase" => downloads > 0
  /\ zpc \in {"validate", "restart"} => zigbee

\* So is the handle the host task works on; the timer has not expired under it.
BleInv ==
  /\ host.at \in {"adopt", "write", "verify", "commit", "validate", "restart"} =>
       s.active /\ s.owner = BLE
  /\ host.at = "adopt" => s.state = "DOWNLOADING"
  /\ host.at \in {"begin", "erase", "adopt", "release"} => ~ble.active
  /\ host.at \in {"write", "verify"} => ble.active
  /\ host.at \in {"commit", "validate", "finish", "release", "restart"} => ~timer
  /\ ble.active => \/ s.active /\ s.owner = BLE
                   \/ host.at \in {"drop", "clear", "finish"}

TimerInv ==
  tpc = "abort" => /\ s.active /\ s.owner = BLE /\ ~ble.active
                   /\ host.at \in {"idle", "resume", "begin", "ack"}

\* A verified session is complete, and its sender does not send.
VerifiedInv ==
  s.active /\ s.state \in {"VERIFYING", "COMMITTING"} =>
    /\ s.bytes = s.size
    /\ zigbee => stage # "data"
    /\ s.owner = BLE /\ ble.active =>
         host.at \in {"verify", "commit", "validate", "finish"}

SelectedInv ==
  selected => /\ image = "whole" /\ s.active
              /\ At("restart") \/ zpc = "restart"

QuietInv ==
  /\ s.active => s.from \subseteq {s.owner}
  /\ ZigbeeInv /\ BleInv /\ TimerInv /\ VerifiedInv /\ SelectedInv

Sessions == [state: States, active: BOOLEAN, open: BOOLEAN, size: 0..Partition,
             bytes: 0..Partition, owner: Senders, from: SUBSET Senders]
Points   == {"idle", "resume", "begin", "erase", "adopt", "write", "ack", "drop",
             "clear", "verify", "commit", "validate", "finish", "release", "restart"}
Hosts    == [at: Points, conn: Conns, size: 0..Partition]

\* What every operation of the session relies on and restores.
SessionInv ==
  /\ s \in Sessions /\ idf \in 0..1 /\ HandleOwned
  /\ s.active => s.open \/ s.state = "COMPLETE"
  /\ ContentInv

\* The types of the rest.
ControlType ==
  /\ holder \in Tasks \cup {"none"}
  /\ zigbee \in BOOLEAN /\ timer \in BOOLEAN /\ selected \in BOOLEAN
  /\ ble \in [active: BOOLEAN, conn: Conns, size: 0..Partition]
  /\ host \in Hosts
  /\ zpc \in {"idle", "erase", "commit", "validate", "restart"}
  /\ tpc \in {"idle", "abort"}
  /\ stage \in {"none", "data", "checked"}
  /\ downloads \in Senders /\ uploads \in 0..MaxUploads
  /\ image \in {"erased", "whole", "broken"}
  /\ mishaps \subseteq Mishap

IInv ==
  /\ SessionInv /\ ControlType /\ MutexInv /\ HeldInv
  /\ Quiet => QuietInv

-----------------------------------------------------------------------------
(* Lemmas about the operations of the session, sdf_ota.c.                  *)

\* A transition changes the state at most.
LEMMA MovedType ==
  ASSUME NEW t \in Sessions, NEW to \in States
  PROVE  /\ Moved(t, to) \in Sessions
         /\ Moved(t, to) = [t EXCEPT !.state = Moved(t, to).state]
         /\ Moved(t, to).state \in {t.state, to}
         /\ Follows(t.state, to) => Moved(t, to).state = to
         /\ Moved(t, to).active = t.active /\ Moved(t, to).open = t.open
         /\ Moved(t, to).size = t.size /\ Moved(t, to).bytes = t.bytes
         /\ Moved(t, to).owner = t.owner /\ Moved(t, to).from = t.from
  BY DEF Moved, Sessions

LEMMA ClosedType ==
  ASSUME NEW t \in Sessions
  PROVE  /\ Closed(t) \in Sessions
         /\ ~Closed(t).active /\ ~Closed(t).open
  <1>1. Moved(t, "FAILED") \in Sessions
    BY MovedType DEF States
  <1>2. QED
    BY <1>1 DEF Closed, Sessions

\* Closing a session gives its handle back, once.
LEMMA ClosesEffect ==
  ASSUME SessionInv, Closes(s)
  PROVE  SessionInv' /\ ~s'.active
  BY ClosedType DEF SessionInv, HandleOwned, ContentInv, Closes, Returned

LEMMA AppendsEffect ==
  ASSUME SessionInv, NEW sender \in Senders, Appends(sender)
  PROVE  /\ SessionInv'
         /\ s.active /\ s'.active /\ s'.open /\ s'.owner = s.owner /\ s'.state = s.state
         /\ s'.from = s.from \cup {sender} /\ s'.size = s.size
         /\ s'.bytes = s.bytes + 1 /\ mishaps' = mishaps /\ holder = "none"
  <1>1. /\ s.bytes + 1 \in 0..Partition /\ s.from \cup {sender} \in SUBSET Senders
        /\ s' = [s EXCEPT !.bytes = s.bytes + 1, !.from = s.from \cup {sender}]
    BY OtaAssumption DEF Appends, SessionInv, Sessions
  <1>2. QED
    BY <1>1 DEF Appends, SessionInv, Sessions, HandleOwned, ContentInv, Free

\* An operation that failed left the session alone or closed it.
LEMMA FailureEffect ==
  ASSUME SessionInv, NotAppended \/ NothingToAppend \/ NotVerified \/ NotAccepted
  PROVE  /\ SessionInv' /\ mishaps' = mishaps
         /\ \/ UNCHANGED <<s, idf>>
            \/ s.active /\ ~s'.active /\ holder = "none"
  BY ClosesEffect DEF NotAppended, NothingToAppend, NotVerified, NotAccepted, Fine, Free,
     SessionInv, HandleOwned, ContentInv

LEMMA AbortEffect ==
  ASSUME SessionInv, mishaps \subseteq Mishap, NEW sender \in Senders, Abort(sender)
  PROVE  /\ SessionInv' /\ mishaps' \subseteq Mishap /\ mishaps \subseteq mishaps'
         /\ \/ UNCHANGED <<s, idf>> /\ (holder = "none" => ~s.active)
            \/ /\ s.active /\ ~s'.active /\ holder = "none"
               /\ mishaps' = {} => s.owner = sender
  BY ClosesEffect DEF Abort, Robs, Mishap, Free, SessionInv, HandleOwned, ContentInv

LEMMA VerifiedEffect ==
  ASSUME SessionInv, Verified
  PROVE  /\ SessionInv' /\ mishaps' = mishaps /\ holder = "none"
         /\ s.active /\ s'.active /\ s'.open = s.open /\ s'.owner = s.owner
         /\ s'.from = s.from /\ s'.size = s.size /\ s'.bytes = s.bytes
         /\ s'.bytes = s'.size /\ s'.state = "VERIFYING"
  <1>1. "VERIFYING" \in States
    BY DEF States
  <1>2. s.state # "COMPLETE"
    BY DEF Verified, Follows
  <1>3. QED
    BY <1>1, <1>2, MovedType DEF Verified, Complete, Free, SessionInv, HandleOwned, ContentInv

LEMMA AcceptedEffect ==
  ASSUME SessionInv, NEW task, Accepted(task)
  PROVE  /\ SessionInv' /\ mishaps' = mishaps /\ holder = "none" /\ holder' = task
         /\ s.active /\ s'.active /\ s'.open /\ s'.owner = s.owner
         /\ s'.from = s.from /\ s'.size = s.size /\ s'.bytes = s.bytes
         /\ s'.state = "COMMITTING" /\ s.state \in {"VERIFYING", "COMMITTING"}
  <1>1. "COMMITTING" \in States
    BY DEF States
  <1>2. s.state \in {"VERIFYING", "COMMITTING"}
    BY DEF Accepted, Follows
  <1>3. QED
    BY <1>1, <1>2, MovedType DEF Accepted, Free, SessionInv, HandleOwned, ContentInv

\* esp_ota_end takes the handle whatever it returns, and it is not given back again.
LEMMA EndedType ==
  ASSUME SessionInv
  PROVE  /\ Ended \in Sessions /\ ~Ended.open /\ Ended.active = s.active
         /\ Ended.state = s.state /\ Ended.owner = s.owner /\ Ended.from = s.from
         /\ Ended.size = s.size /\ Ended.bytes = s.bytes
  BY DEF Ended, SessionInv, Sessions

LEMMA ValidatedEffect ==
  ASSUME SessionInv, s.active, s.open, s.state = "COMMITTING", Validated
  PROVE  /\ SessionInv' /\ mishaps' = mishaps /\ holder' = "none"
         /\ s'.active /\ ~s'.open /\ s'.owner = s.owner
         /\ s'.from = s.from /\ s'.size = s.size /\ s'.bytes = s.bytes
         /\ s'.state = "COMPLETE"
  <1>1. "COMPLETE" \in States /\ Follows(Ended.state, "COMPLETE")
    BY EndedType DEF States, Follows
  <1>2. /\ s' \in Sessions /\ s'.active /\ ~s'.open /\ s'.owner = s.owner
        /\ s'.from = s.from /\ s'.size = s.size /\ s'.bytes = s.bytes
        /\ s'.state = "COMPLETE"
    <2> DEFINE e == Ended
    <2>1. /\ e \in Sessions /\ ~e.open /\ e.active = s.active /\ e.owner = s.owner
          /\ e.from = s.from /\ e.size = s.size /\ e.bytes = s.bytes
      BY EndedType
    <2>2. s' = Moved(e, "COMPLETE") /\ Follows(e.state, "COMPLETE")
      BY <1>1 DEF Validated
    <2> HIDE DEF e
    <2>3. QED
      BY <1>1, <2>1, <2>2, MovedType
  <1>3. idf = 1 /\ idf' = 0 /\ mishaps' = mishaps /\ holder' = "none"
    BY DEF Validated, Fine, SessionInv, HandleOwned
  <1>4. QED
    BY <1>2, <1>3 DEF SessionInv, HandleOwned, ContentInv

LEMMA NotValidatedEffect ==
  ASSUME SessionInv, s.active, s.open, NotValidated
  PROVE  /\ SessionInv' /\ mishaps' = mishaps /\ holder' = "none" /\ ~s'.active
         /\ UNCHANGED <<selected, image>>
  <1>1. s' \in Sessions /\ ~s'.active /\ ~s'.open
    <2> DEFINE e == Ended
    <2>1. e \in Sessions /\ s' = Closed(e)
      BY EndedType DEF NotValidated
    <2> HIDE DEF e
    <2>2. QED
      BY <2>1, ClosedType
  <1>2. idf = 1 /\ idf' = 0
    BY EndedType DEF NotValidated, Returned, SessionInv, HandleOwned
  <1>3. QED
    BY <1>1, <1>2 DEF NotValidated, Fine, SessionInv, HandleOwned, ContentInv

LEMMA OpensEffect ==
  ASSUME SessionInv, ~s.active, NEW n \in Sizes, NEW sender \in Senders, Opens(n, sender)
  PROVE  /\ SessionInv' /\ mishaps' = mishaps /\ holder' = "none"
         /\ s'.active /\ s'.open /\ s'.owner = sender /\ s'.from = {} /\ s'.size = n
         /\ s'.bytes = 0 /\ s'.state = "DOWNLOADING" /\ UNCHANGED <<selected, image>>
  <1>1. n \in 0..Partition /\ n > 0 /\ 0 \in 0..Partition
    BY OtaAssumption
  <1>2. 0 \in Senders
    BY OtaAssumption DEF Senders
  <1>3. NoSession \in Sessions
    BY <1>2, OtaAssumption DEF NoSession, Sessions, States, BLE
  <1>4. Moved(NoSession, "DOWNLOADING").state = "DOWNLOADING"
    BY <1>3, MovedType DEF NoSession, States, Follows
  <1>5. QED
    BY <1>1, <1>4 DEF Opens, Session, SessionInv, Sessions, HandleOwned, ContentInv, States

LEMMA NoUploadType ==
  NoUpload \in [active: BOOLEAN, conn: Conns, size: 0..Partition] /\ ~NoUpload.active
  <1>1. (CHOOSE c \in Conns : TRUE) \in Conns /\ 0 \in 0..Partition
    BY OtaAssumption
  <1>2. QED
    BY <1>1 DEF NoUpload

\* The host task goes on to another point.
LEMMA GotoEffect ==
  ASSUME ControlType, NEW p \in Points, Goto(p)
  PROVE  host' \in Hosts /\ host'.at = p /\ host'.size = host.size
  BY DEF ControlType, Goto, Hosts

-----------------------------------------------------------------------------
(* One lemma for each action: it preserves the invariant.                  *)

LEMMA BeginStep ==
  ASSUME IInv, NEW c \in Conns, NEW n \in Sizes, Begin(c, n)
  PROVE  IInv'
  <1>1. SessionInv /\ ControlType /\ MutexInv /\ HeldInv /\ (Quiet => QuietInv)
    BY DEF IInv
  <1>2. /\ UNCHANGED <<s, holder, zigbee, zpc, tpc, selected, idf, image, stage, downloads>>
        /\ UNCHANGED <<timer, mishaps>>
        /\ host.at = "idle"
        /\ uploads < MaxUploads /\ uploads' = uploads + 1
        /\ n \in 0..Partition
    BY OtaAssumption DEF Begin, Fine, At, still
  <1>3. CASE /\ ble.active /\ ble' = [ble EXCEPT !.conn = c]
             /\ Goto("resume")
    <2>1. SessionInv'
      BY <1>1, <1>2, <1>3 DEF SessionInv, HandleOwned, ContentInv, BLE
    <2>2. host' \in Hosts /\ host'.at = "resume" /\ host'.size = host.size
      BY <1>1, <1>2, <1>3, GotoEffect DEF Points
    <2>3. ControlType' /\ MutexInv' /\ HeldInv'
      BY <1>1, <1>2, <2>1, <2>2, <1>3, OtaAssumption DEF ControlType, MutexInv, HeldInv,
         At, BLE
    <2>4. Quiet' => QuietInv'
      BY <1>1, <1>2, <2>1, <2>2, <1>3, OtaAssumption DEF Quiet, QuietInv, ZigbeeInv,
         BleInv, TimerInv, VerifiedInv, SelectedInv, BLE, MutexInv, HeldInv, At, BLE
    <2>5. QED
      BY <1>1, <1>2, <2>1, <2>2, <2>3, <2>4 DEF IInv
  <1>4. CASE /\ ~ble.active /\ UNCHANGED ble
             /\ host' = [at |-> "begin", conn |-> c, size |-> n]
    <2>1. SessionInv'
      BY <1>1, <1>2, <1>4 DEF SessionInv, HandleOwned, ContentInv, Hosts, Points
    <2>2. ControlType' /\ MutexInv' /\ HeldInv'
      BY <1>1, <1>2, <2>1, <1>4, OtaAssumption DEF ControlType, MutexInv, HeldInv, At,
         Hosts, Points
    <2>3. Quiet' => QuietInv'
      BY <1>1, <1>2, <2>1, <1>4, OtaAssumption DEF Quiet, QuietInv, ZigbeeInv, BleInv,
         TimerInv, VerifiedInv, SelectedInv, BLE, MutexInv, HeldInv, At, Hosts, Points
    <2>4. QED
      BY <1>1, <1>2, <2>1, <2>2, <2>3 DEF IInv
  <1>5. QED
    BY <1>3, <1>4 DEF Begin, Fine, At

LEMMA RearmedStep ==
  ASSUME IInv, Rearmed
  PROVE  IInv'
  <1>1. SessionInv /\ ControlType /\ MutexInv /\ HeldInv /\ (Quiet => QuietInv)
    BY DEF IInv
  <1>2. /\ UNCHANGED <<s, holder, zigbee, zpc, tpc, selected, idf, image, stage, downloads>>
        /\ UNCHANGED <<ble, uploads, mishaps>>
        /\ timer' = TRUE
        /\ host.at \in {"resume", "ack"}
    BY DEF Rearmed, Rearm, Fine, At, still
  <1>3. CASE Goto("idle")
    <2>1. SessionInv'
      BY <1>1, <1>2, <1>3 DEF SessionInv, HandleOwned, ContentInv
    <2>2. host' \in Hosts /\ host'.at = "idle" /\ host'.size = host.size
      BY <1>1, <1>2, <1>3, GotoEffect DEF Points
    <2>3. ControlType' /\ MutexInv' /\ HeldInv'
      BY <1>1, <1>2, <2>1, <2>2, <1>3 DEF ControlType, MutexInv, HeldInv, At
    <2>4. Quiet' => QuietInv'
      BY <1>1, <1>2, <2>1, <2>2, <1>3 DEF Quiet, QuietInv, ZigbeeInv, BleInv, TimerInv,
         VerifiedInv, SelectedInv, BLE, MutexInv, HeldInv, At
    <2>5. QED
      BY <1>1, <1>2, <2>1, <2>2, <2>3, <2>4 DEF IInv
  <1>4. QED
    BY <1>3 DEF Rearmed, Rearm, Fine, At

LEMMA ClaimBleStep ==
  ASSUME IInv, ClaimBle
  PROVE  IInv'
  <1>1. SessionInv /\ ControlType /\ MutexInv /\ HeldInv /\ (Quiet => QuietInv)
    BY DEF IInv
  <1>2. /\ UNCHANGED <<zigbee, ble, timer, zpc, tpc, stage, downloads, uploads>>
        /\ host.at = "begin"
    BY DEF ClaimBle, At, world
  <1>3. CASE Claims("host") /\ Goto("erase")
    <2>1. SessionInv'
      BY <1>1, <1>2, <1>3 DEF SessionInv, HandleOwned, ContentInv, Claims, Free, Tasks
    <2>2. host' \in Hosts /\ host'.at = "erase" /\ host'.size = host.size
      BY <1>1, <1>2, <1>3, GotoEffect DEF Points
    <2>3. ControlType' /\ MutexInv' /\ HeldInv'
      BY <1>1, <1>2, <2>1, <2>2, <1>3 DEF ControlType, MutexInv, HeldInv, At, Claims,
         Free, Tasks
    <2>4. Quiet' => QuietInv'
      BY <1>1, <1>2, <2>1, <2>2, <1>3 DEF Quiet, QuietInv, ZigbeeInv, BleInv, TimerInv,
         VerifiedInv, SelectedInv, BLE, MutexInv, HeldInv, At, Claims, Free, Tasks
    <2>5. QED
      BY <1>1, <1>2, <2>1, <2>2, <2>3, <2>4 DEF IInv
  <1>4. CASE Goto("idle") /\ UNCHANGED <<s, holder, idf, image, selected, mishaps>>
    <2>1. SessionInv'
      BY <1>1, <1>2, <1>4 DEF SessionInv, HandleOwned, ContentInv
    <2>2. host' \in Hosts /\ host'.at = "idle" /\ host'.size = host.size
      BY <1>1, <1>2, <1>4, GotoEffect DEF Points
    <2>3. ControlType' /\ MutexInv' /\ HeldInv'
      BY <1>1, <1>2, <2>1, <2>2, <1>4 DEF ControlType, MutexInv, HeldInv, At
    <2>4. Quiet' => QuietInv'
      BY <1>1, <1>2, <2>1, <2>2, <1>4 DEF Quiet, QuietInv, ZigbeeInv, BleInv, TimerInv,
         VerifiedInv, SelectedInv, BLE, MutexInv, HeldInv, At
    <2>5. QED
      BY <1>1, <1>2, <2>1, <2>2, <2>3, <2>4 DEF IInv
  <1>5. QED
    BY <1>3, <1>4 DEF ClaimBle, At

LEMMA OpenBleStep ==
  ASSUME IInv, OpenBle
  PROVE  IInv'
  <1>1. SessionInv /\ ControlType /\ MutexInv /\ HeldInv /\ (Quiet => QuietInv)
    BY DEF IInv
  <1>2. /\ UNCHANGED <<zigbee, ble, timer, zpc, tpc, stage, downloads, uploads>>
        /\ host.at = "erase"
        /\ BLE \in Senders
    BY OtaAssumption DEF OpenBle, At, world, Senders, BLE
  <1>3. CASE Opens(host.size, BLE) /\ Goto("adopt")
    <2>1. /\ SessionInv' /\ mishaps' = mishaps /\ holder' = "none"
          /\ s'.active /\ s'.open /\ s'.owner = BLE /\ s'.from = {}
          /\ s'.bytes = 0 /\ s'.state = "DOWNLOADING" /\ UNCHANGED <<selected, image>>
      BY <1>1, <1>2, <1>3, OpensEffect DEF HeldInv, At, ControlType, Hosts, Quiet
    <2>2. host' \in Hosts /\ host'.at = "adopt" /\ host'.size = host.size
      BY <1>1, <1>2, <1>3, GotoEffect DEF Points
    <2>3. ControlType' /\ MutexInv' /\ HeldInv'
      BY <1>1, <1>2, <2>1, <2>2, <1>3 DEF ControlType, MutexInv, HeldInv, At, Hosts,
         Quiet
    <2>4. Quiet' => QuietInv'
      BY <1>1, <1>2, <2>1, <2>2, <1>3 DEF Quiet, QuietInv, ZigbeeInv, BleInv, TimerInv,
         VerifiedInv, SelectedInv, BLE, MutexInv, HeldInv, At, Hosts, Quiet
    <2>5. QED
      BY <1>1, <1>2, <2>1, <2>2, <2>3, <2>4 DEF IInv
  <1>4. CASE NotOpened /\ Goto("idle")
    <2>1. SessionInv'
      BY <1>1, <1>2, <1>4 DEF SessionInv, HandleOwned, ContentInv, NotOpened
    <2>2. host' \in Hosts /\ host'.at = "idle" /\ host'.size = host.size
      BY <1>1, <1>2, <1>4, GotoEffect DEF Points
    <2>3. ControlType' /\ MutexInv' /\ HeldInv'
      BY <1>1, <1>2, <2>1, <2>2, <1>4 DEF ControlType, MutexInv, HeldInv, At, NotOpened
    <2>4. Quiet' => QuietInv'
      BY <1>1, <1>2, <2>1, <2>2, <1>4 DEF Quiet, QuietInv, ZigbeeInv, BleInv, TimerInv,
         VerifiedInv, SelectedInv, BLE, MutexInv, HeldInv, At, NotOpened
    <2>5. QED
      BY <1>1, <1>2, <2>1, <2>2, <2>3, <2>4 DEF IInv
  <1>5. QED
    BY <1>3, <1>4 DEF OpenBle, At

LEMMA AdoptStep ==
  ASSUME IInv, Adopt
  PROVE  IInv'
  <1>1. SessionInv /\ ControlType /\ MutexInv /\ HeldInv /\ (Quiet => QuietInv)
    BY DEF IInv
  <1>2. /\ UNCHANGED <<s, holder, zigbee, zpc, tpc, selected, idf, image, stage, downloads>>
        /\ UNCHANGED uploads
        /\ host.at = "adopt"
    BY DEF Adopt, Missed, Mishap, Fine, Rearm, At, still
  <1>3. CASE /\ ble' = [active |-> TRUE, conn |-> host.conn, size |-> host.size]
             /\ timer' = TRUE /\ mishaps' = mishaps /\ Goto("idle")
    <2>1. SessionInv'
      BY <1>1, <1>2, <1>3 DEF SessionInv, HandleOwned, ContentInv, Hosts
    <2>2. host' \in Hosts /\ host'.at = "idle" /\ host'.size = host.size
      BY <1>1, <1>2, <1>3, GotoEffect DEF Points
    <2>3. ControlType' /\ MutexInv' /\ HeldInv'
      BY <1>1, <1>2, <2>1, <2>2, <1>3 DEF ControlType, MutexInv, HeldInv, At, Hosts
    <2>4. Quiet' => QuietInv'
      BY <1>1, <1>2, <2>1, <2>2, <1>3 DEF Quiet, QuietInv, ZigbeeInv, BleInv, TimerInv,
         VerifiedInv, SelectedInv, BLE, MutexInv, HeldInv, At, Hosts
    <2>5. QED
      BY <1>1, <1>2, <2>1, <2>2, <2>3, <2>4 DEF IInv
  <1>4. CASE /\ mishaps' = mishaps \cup {"lock"}
             /\ Goto("release") /\ UNCHANGED <<ble, timer>>
    <2>1. SessionInv'
      BY <1>1, <1>2, <1>4 DEF SessionInv, HandleOwned, ContentInv, Mishap
    <2>2. host' \in Hosts /\ host'.at = "release" /\ host'.size = host.size
      BY <1>1, <1>2, <1>4, GotoEffect DEF Points
    <2>3. ControlType' /\ MutexInv' /\ HeldInv'
      BY <1>1, <1>2, <2>1, <2>2, <1>4 DEF ControlType, MutexInv, HeldInv, At, Mishap
    <2>4. Quiet' => QuietInv'
      BY <1>1, <1>2, <2>1, <2>2, <1>4 DEF Quiet, QuietInv, ZigbeeInv, BleInv, TimerInv,
         VerifiedInv, SelectedInv, BLE, MutexInv, HeldInv, At, Mishap
    <2>5. QED
      BY <1>1, <1>2, <2>1, <2>2, <2>3, <2>4 DEF IInv
  <1>5. QED
    BY <1>3, <1>4 DEF Adopt, Missed, Mishap, Fine, Rearm, At

LEMMA ChunkStep ==
  ASSUME IInv, NEW c \in Conns, Chunk(c)
  PROVE  IInv'
  <1>1. SessionInv /\ ControlType /\ MutexInv /\ HeldInv /\ (Quiet => QuietInv)
    BY DEF IInv
  <1>2. /\ UNCHANGED <<s, holder, zigbee, zpc, tpc, selected, idf, image, stage, downloads>>
        /\ UNCHANGED <<ble, timer, uploads, mishaps>>
        /\ host.at = "idle" /\ ble.active
    BY DEF Chunk, Fine, At, still
  <1>3. CASE Goto("write")
    <2>1. SessionInv'
      BY <1>1, <1>2, <1>3 DEF SessionInv, HandleOwned, ContentInv
    <2>2. host' \in Hosts /\ host'.at = "write" /\ host'.size = host.size
      BY <1>1, <1>2, <1>3, GotoEffect DEF Points
    <2>3. ControlType' /\ MutexInv' /\ HeldInv'
      BY <1>1, <1>2, <2>1, <2>2, <1>3 DEF ControlType, MutexInv, HeldInv, At
    <2>4. Quiet' => QuietInv'
      BY <1>1, <1>2, <2>1, <2>2, <1>3 DEF Quiet, QuietInv, ZigbeeInv, BleInv, TimerInv,
         VerifiedInv, SelectedInv, BLE, MutexInv, HeldInv, At
    <2>5. QED
      BY <1>1, <1>2, <2>1, <2>2, <2>3, <2>4 DEF IInv
  <1>4. QED
    BY <1>3 DEF Chunk, Fine, At

LEMMA WriteStep ==
  ASSUME IInv, Write
  PROVE  IInv'
  <1>1. SessionInv /\ ControlType /\ MutexInv /\ HeldInv /\ (Quiet => QuietInv)
    BY DEF IInv
  <1>2. /\ UNCHANGED <<holder, zigbee, zpc, tpc, selected, stage, downloads, uploads, image>>
        /\ UNCHANGED <<ble, timer>>
        /\ host.at = "write"
        /\ BLE \in Senders
    BY OtaAssumption DEF Write, At, bleOnly, world, Senders, BLE
  <1>3. CASE Appends(BLE) /\ Goto("ack")
    <2>1. /\ SessionInv' /\ s.active /\ s'.active /\ s'.open /\ s'.owner = s.owner
          /\ s'.state = s.state /\ s'.from = s.from \cup {BLE} /\ s'.size = s.size
          /\ s'.bytes = s.bytes + 1 /\ mishaps' = mishaps /\ holder = "none"
      BY <1>1, <1>2, <1>3, AppendsEffect
    <2>2. host' \in Hosts /\ host'.at = "ack" /\ host'.size = host.size
      BY <1>1, <1>2, <1>3, GotoEffect DEF Points
    <2>3. ControlType' /\ MutexInv' /\ HeldInv'
      BY <1>1, <1>2, <2>1, <2>2, <1>3 DEF ControlType, MutexInv, HeldInv, At
    <2>4. Quiet' => QuietInv'
      BY <1>1, <1>2, <2>1, <2>2, <1>3 DEF Quiet, QuietInv, ZigbeeInv, BleInv, TimerInv,
         VerifiedInv, SelectedInv, BLE, MutexInv, HeldInv, At
    <2>5. QED
      BY <1>1, <1>2, <2>1, <2>2, <2>3, <2>4 DEF IInv
  <1>4. CASE NotAppended /\ Goto("drop")
    <2>1. /\ SessionInv' /\ mishaps' = mishaps
          /\ UNCHANGED <<s, idf>> \/ (s.active /\ ~s'.active /\ holder = "none")
      BY <1>1, <1>2, <1>4, FailureEffect
    <2>2. host' \in Hosts /\ host'.at = "drop" /\ host'.size = host.size
      BY <1>1, <1>2, <1>4, GotoEffect DEF Points
    <2>3. ControlType' /\ MutexInv' /\ HeldInv'
      BY <1>1, <1>2, <2>1, <2>2, <1>4 DEF ControlType, MutexInv, HeldInv, At
    <2>4. Quiet' => QuietInv'
      BY <1>1, <1>2, <2>1, <2>2, <1>4 DEF Quiet, QuietInv, ZigbeeInv, BleInv, TimerInv,
         VerifiedInv, SelectedInv, BLE, MutexInv, HeldInv, At
    <2>5. QED
      BY <1>1, <1>2, <2>1, <2>2, <2>3, <2>4 DEF IInv
  <1>5. QED
    BY <1>3, <1>4 DEF Write, At

LEMMA AbortBleStep ==
  ASSUME IInv, AbortBle
  PROVE  IInv'
  <1>1. SessionInv /\ ControlType /\ MutexInv /\ HeldInv /\ (Quiet => QuietInv)
    BY DEF IInv
  <1>2. /\ UNCHANGED <<holder, zigbee, zpc, tpc, selected, stage, downloads, uploads, image>>
        /\ UNCHANGED <<ble, timer>>
        /\ BLE \in Senders
    BY OtaAssumption DEF AbortBle, At, bleOnly, world, Senders, BLE
  <1>3. CASE host.at = "drop" /\ Abort(BLE) /\ Goto("clear")
    <2>1. /\ SessionInv' /\ mishaps' \subseteq Mishap /\ mishaps \subseteq mishaps'
          /\ \/ UNCHANGED <<s, idf>> /\ (holder = "none" => ~s.active)
             \/ /\ s.active /\ ~s'.active /\ holder = "none"
                /\ mishaps' = {} => s.owner = BLE
      BY <1>1, <1>2, <1>3, AbortEffect DEF ControlType
    <2>2. host' \in Hosts /\ host'.at = "clear" /\ host'.size = host.size
      BY <1>1, <1>2, <1>3, GotoEffect DEF Points
    <2>3. ControlType' /\ MutexInv' /\ HeldInv'
      BY <1>1, <1>2, <2>1, <2>2, <1>3 DEF ControlType, MutexInv, HeldInv, At
    <2>4. Quiet' => QuietInv'
      BY <1>1, <1>2, <2>1, <2>2, <1>3 DEF Quiet, QuietInv, ZigbeeInv, BleInv, TimerInv,
         VerifiedInv, SelectedInv, BLE, MutexInv, HeldInv, At
    <2>5. QED
      BY <1>1, <1>2, <2>1, <2>2, <2>3, <2>4 DEF IInv
  <1>4. CASE host.at = "release" /\ Abort(BLE) /\ Goto("idle")
    <2>1. /\ SessionInv' /\ mishaps' \subseteq Mishap /\ mishaps \subseteq mishaps'
          /\ \/ UNCHANGED <<s, idf>> /\ (holder = "none" => ~s.active)
             \/ /\ s.active /\ ~s'.active /\ holder = "none"
                /\ mishaps' = {} => s.owner = BLE
      BY <1>1, <1>2, <1>4, AbortEffect DEF ControlType
    <2>2. host' \in Hosts /\ host'.at = "idle" /\ host'.size = host.size
      BY <1>1, <1>2, <1>4, GotoEffect DEF Points
    <2>3. ControlType' /\ MutexInv' /\ HeldInv'
      BY <1>1, <1>2, <2>1, <2>2, <1>4 DEF ControlType, MutexInv, HeldInv, At
    <2>4. Quiet' => QuietInv'
      BY <1>1, <1>2, <2>1, <2>2, <1>4 DEF Quiet, QuietInv, ZigbeeInv, BleInv, TimerInv,
         VerifiedInv, SelectedInv, BLE, MutexInv, HeldInv, At
    <2>5. QED
      BY <1>1, <1>2, <2>1, <2>2, <2>3, <2>4 DEF IInv
  <1>5. QED
    BY <1>3, <1>4 DEF AbortBle, At

LEMMA ClearStep ==
  ASSUME IInv, Clear
  PROVE  IInv'
  <1>1. SessionInv /\ ControlType /\ MutexInv /\ HeldInv /\ (Quiet => QuietInv)
    BY DEF IInv
  <1>2. /\ UNCHANGED <<s, holder, zigbee, zpc, tpc, selected, idf, image, stage, downloads>>
        /\ UNCHANGED uploads
        /\ host.at = "clear"
        /\ timer' = FALSE
    BY DEF Clear, Forget, Fine, Missed, At, still
  <1>3. CASE ble' = NoUpload /\ mishaps' = mishaps /\ Goto("idle")
    <2>1. SessionInv'
      BY <1>1, <1>2, <1>3 DEF SessionInv, HandleOwned, ContentInv
    <2>2. host' \in Hosts /\ host'.at = "idle" /\ host'.size = host.size
      BY <1>1, <1>2, <1>3, GotoEffect DEF Points
    <2>3. ControlType' /\ MutexInv' /\ HeldInv'
      <3>1. ControlType'
        BY <1>1, <1>2, <2>1, <2>2, <1>3, NoUploadType DEF ControlType
      <3>2. MutexInv'
        BY <1>1, <1>2, <2>1, <2>2, <1>3, NoUploadType DEF MutexInv, At
      <3>3. HeldInv'
        BY <1>1, <1>2, <2>1, <2>2, <1>3, NoUploadType DEF HeldInv, MutexInv, At
      <3>4. QED
        BY <3>1, <3>2, <3>3
    <2>4. Quiet' => QuietInv'
      BY <1>1, <1>2, <2>1, <2>2, <1>3, NoUploadType DEF Quiet, QuietInv, ZigbeeInv,
         BleInv, TimerInv, VerifiedInv, SelectedInv, BLE, MutexInv, HeldInv, At
    <2>5. QED
      BY <1>1, <1>2, <2>1, <2>2, <2>3, <2>4 DEF IInv
  <1>4. CASE /\ mishaps' = mishaps \cup {"lock"}
             /\ ble' = ble /\ Goto("idle")
    <2>1. SessionInv'
      BY <1>1, <1>2, <1>4 DEF SessionInv, HandleOwned, ContentInv, Mishap
    <2>2. host' \in Hosts /\ host'.at = "idle" /\ host'.size = host.size
      BY <1>1, <1>2, <1>4, GotoEffect DEF Points
    <2>3. ControlType' /\ MutexInv' /\ HeldInv'
      <3>1. ControlType'
        BY <1>1, <1>2, <2>1, <2>2, <1>4, NoUploadType DEF ControlType, Mishap
      <3>2. MutexInv'
        BY <1>1, <1>2, <2>1, <2>2, <1>4, NoUploadType DEF MutexInv, At
      <3>3. HeldInv'
        BY <1>1, <1>2, <2>1, <2>2, <1>4, NoUploadType DEF HeldInv, At
      <3>4. QED
        BY <3>1, <3>2, <3>3
    <2>4. Quiet' => QuietInv'
      BY <1>1, <1>2, <2>1, <2>2, <1>4, NoUploadType DEF Quiet, QuietInv, ZigbeeInv,
         BleInv, TimerInv, VerifiedInv, SelectedInv, BLE, MutexInv, HeldInv, At, Mishap
    <2>5. QED
      BY <1>1, <1>2, <2>1, <2>2, <2>3, <2>4 DEF IInv
  <1>5. QED
    BY <1>3, <1>4 DEF Clear, Forget, Fine, Missed, At

LEMMA EndStep ==
  ASSUME IInv, NEW c \in Conns, End(c)
  PROVE  IInv'
  <1>1. SessionInv /\ ControlType /\ MutexInv /\ HeldInv /\ (Quiet => QuietInv)
    BY DEF IInv
  <1>2. /\ UNCHANGED <<s, holder, zigbee, zpc, tpc, selected, idf, image, stage, downloads>>
        /\ UNCHANGED <<ble, timer, uploads, mishaps>>
        /\ host.at = "idle" /\ ble.active
    BY DEF End, Fine, At, still
  <1>3. CASE Goto("verify")
    <2>1. SessionInv'
      BY <1>1, <1>2, <1>3 DEF SessionInv, HandleOwned, ContentInv
    <2>2. host' \in Hosts /\ host'.at = "verify" /\ host'.size = host.size
      BY <1>1, <1>2, <1>3, GotoEffect DEF Points
    <2>3. ControlType' /\ MutexInv' /\ HeldInv'
      BY <1>1, <1>2, <2>1, <2>2, <1>3 DEF ControlType, MutexInv, HeldInv, At
    <2>4. Quiet' => QuietInv'
      BY <1>1, <1>2, <2>1, <2>2, <1>3 DEF Quiet, QuietInv, ZigbeeInv, BleInv, TimerInv,
         VerifiedInv, SelectedInv, BLE, MutexInv, HeldInv, At
    <2>5. QED
      BY <1>1, <1>2, <2>1, <2>2, <2>3, <2>4 DEF IInv
  <1>4. QED
    BY <1>3 DEF End, Fine, At

LEMMA VerifyStep ==
  ASSUME IInv, Verify
  PROVE  IInv'
  <1>1. SessionInv /\ ControlType /\ MutexInv /\ HeldInv /\ (Quiet => QuietInv)
    BY DEF IInv
  <1>2. /\ UNCHANGED <<holder, zigbee, zpc, tpc, selected, stage, downloads, uploads, image>>
        /\ ble' = ble
        /\ timer' = FALSE
        /\ host.at = "verify"
    BY DEF Verify, At, bleOnly, world
  <1>3. CASE Verified /\ Goto("commit")
    <2>1. /\ SessionInv' /\ mishaps' = mishaps /\ holder = "none"
          /\ s.active /\ s'.active /\ s'.owner = s.owner /\ s'.from = s.from
          /\ s'.bytes = s'.size /\ s'.state = "VERIFYING"
      BY <1>1, <1>2, <1>3, VerifiedEffect
    <2>2. host' \in Hosts /\ host'.at = "commit" /\ host'.size = host.size
      BY <1>1, <1>2, <1>3, GotoEffect DEF Points
    <2>3. ControlType' /\ MutexInv' /\ HeldInv'
      <3>1. ControlType'
        BY <1>1, <1>2, <2>1, <2>2, <1>3 DEF ControlType
      <3>2. MutexInv'
        BY <1>1, <1>2, <2>1, <2>2, <1>3 DEF MutexInv, At
      <3>3. HeldInv'
        BY <1>1, <1>2, <2>1, <2>2, <1>3 DEF HeldInv, MutexInv, At
      <3>4. QED
        BY <3>1, <3>2, <3>3
    <2>4. Quiet' => QuietInv'
      BY <1>1, <1>2, <2>1, <2>2, <1>3 DEF Quiet, QuietInv, ZigbeeInv, BleInv, TimerInv,
         VerifiedInv, SelectedInv, BLE, MutexInv, HeldInv, At
    <2>5. QED
      BY <1>1, <1>2, <2>1, <2>2, <2>3, <2>4 DEF IInv
  <1>4. CASE NotVerified /\ Goto("finish")
    <2>1. /\ SessionInv' /\ mishaps' = mishaps
          /\ UNCHANGED <<s, idf>> \/ (s.active /\ ~s'.active /\ holder = "none")
      BY <1>1, <1>2, <1>4, FailureEffect
    <2>2. host' \in Hosts /\ host'.at = "finish" /\ host'.size = host.size
      BY <1>1, <1>2, <1>4, GotoEffect DEF Points
    <2>3. ControlType' /\ MutexInv' /\ HeldInv'
      <3>1. ControlType'
        BY <1>1, <1>2, <2>1, <2>2, <1>4 DEF ControlType
      <3>2. MutexInv'
        BY <1>1, <1>2, <2>1, <2>2, <1>4 DEF MutexInv, At
      <3>3. HeldInv'
        BY <1>1, <1>2, <2>1, <2>2, <1>4 DEF HeldInv, MutexInv, At
      <3>4. QED
        BY <3>1, <3>2, <3>3
    <2>4. Quiet' => QuietInv'
      BY <1>1, <1>2, <2>1, <2>2, <1>4 DEF Quiet, QuietInv, ZigbeeInv, BleInv, TimerInv,
         VerifiedInv, SelectedInv, BLE, MutexInv, HeldInv, At
    <2>5. QED
      BY <1>1, <1>2, <2>1, <2>2, <2>3, <2>4 DEF IInv
  <1>5. QED
    BY <1>3, <1>4 DEF Verify, At

LEMMA CommitStep ==
  ASSUME IInv, Commit
  PROVE  IInv'
  <1>1. SessionInv /\ ControlType /\ MutexInv /\ HeldInv /\ (Quiet => QuietInv)
    BY DEF IInv
  <1>2. /\ UNCHANGED <<zigbee, zpc, tpc, selected, stage, downloads, uploads, image>>
        /\ UNCHANGED <<ble, timer>>
        /\ host.at = "commit"
    BY DEF Commit, At, world
  <1>3. CASE Accepted("host") /\ Goto("validate")
    <2>1. /\ SessionInv' /\ mishaps' = mishaps /\ holder = "none" /\ holder' = "host"
          /\ s.active /\ s'.active /\ s'.open /\ s'.owner = s.owner /\ s'.from = s.from
          /\ s'.size = s.size /\ s'.bytes = s.bytes
          /\ s'.state = "COMMITTING" /\ s.state \in {"VERIFYING", "COMMITTING"}
      BY <1>1, <1>2, <1>3, AcceptedEffect DEF Tasks
    <2>2. host' \in Hosts /\ host'.at = "validate" /\ host'.size = host.size
      BY <1>1, <1>2, <1>3, GotoEffect DEF Points
    <2>3. ControlType' /\ MutexInv' /\ HeldInv'
      BY <1>1, <1>2, <2>1, <2>2, <1>3 DEF ControlType, MutexInv, HeldInv, At, Tasks
    <2>4. Quiet' => QuietInv'
      BY <1>1, <1>2, <2>1, <2>2, <1>3 DEF Quiet, QuietInv, ZigbeeInv, BleInv, TimerInv,
         VerifiedInv, SelectedInv, BLE, MutexInv, HeldInv, At, Tasks
    <2>5. QED
      BY <1>1, <1>2, <2>1, <2>2, <2>3, <2>4 DEF IInv
  <1>4. CASE NotAccepted /\ Goto("finish")
    <2>1. /\ SessionInv' /\ mishaps' = mishaps
          /\ UNCHANGED <<s, idf>> \/ (s.active /\ ~s'.active /\ holder = "none")
          /\ holder' = holder
      BY <1>1, <1>2, <1>4, FailureEffect DEF NotAccepted
    <2>2. host' \in Hosts /\ host'.at = "finish" /\ host'.size = host.size
      BY <1>1, <1>2, <1>4, GotoEffect DEF Points
    <2>3. ControlType' /\ MutexInv' /\ HeldInv'
      BY <1>1, <1>2, <2>1, <2>2, <1>4 DEF ControlType, MutexInv, HeldInv, At,
         NotAccepted
    <2>4. Quiet' => QuietInv'
      BY <1>1, <1>2, <2>1, <2>2, <1>4 DEF Quiet, QuietInv, ZigbeeInv, BleInv, TimerInv,
         VerifiedInv, SelectedInv, BLE, MutexInv, HeldInv, At, NotAccepted
    <2>5. QED
      BY <1>1, <1>2, <2>1, <2>2, <2>3, <2>4 DEF IInv
  <1>5. QED
    BY <1>3, <1>4 DEF Commit, At

LEMMA ValidateStep ==
  ASSUME IInv, Validate
  PROVE  IInv'
  <1>1. SessionInv /\ ControlType /\ MutexInv /\ HeldInv /\ (Quiet => QuietInv)
    BY DEF IInv
  <1>2. /\ UNCHANGED <<zigbee, zpc, tpc, stage, downloads, uploads, ble, timer>>
        /\ host.at = "validate"
    BY DEF Validate, At, world
  <1>3. CASE Validated /\ Goto("restart")
    <2>1. /\ SessionInv' /\ mishaps' = mishaps /\ holder' = "none" /\ s'.active
          /\ s'.owner = s.owner /\ s'.from = s.from /\ s'.size = s.size /\ s'.bytes = s.bytes
          /\ s'.state = "COMPLETE"
          /\ selected' = TRUE /\ image' \in {"whole", "broken"}
          /\ image' = IF s.bytes = s.size /\ s.from = {s.owner} THEN "whole" ELSE "broken"
      BY <1>1, <1>2, <1>3, ValidatedEffect DEF Validated, HeldInv, At, SessionInv,
         ContentInv, Sessions
    <2>2. host' \in Hosts /\ host'.at = "restart" /\ host'.size = host.size
      BY <1>1, <1>2, <1>3, GotoEffect DEF Points
    <2>3. ControlType' /\ MutexInv' /\ HeldInv'
      BY <1>1, <1>2, <2>1, <2>2, <1>3 DEF ControlType, MutexInv, HeldInv, At, Validated,
         SessionInv, ContentInv, Sessions
    <2>4. Quiet' => QuietInv'
      BY <1>1, <1>2, <2>1, <2>2, <1>3 DEF Quiet, QuietInv, ZigbeeInv, BleInv, TimerInv,
         VerifiedInv, SelectedInv, BLE, MutexInv, HeldInv, At, Validated, SessionInv,
         ContentInv, Sessions
    <2>5. QED
      BY <1>1, <1>2, <2>1, <2>2, <2>3, <2>4 DEF IInv
  <1>4. CASE NotValidated /\ Goto("finish")
    <2>1. /\ SessionInv' /\ mishaps' = mishaps /\ holder' = "none" /\ ~s'.active
          /\ UNCHANGED <<selected, image>>
      BY <1>1, <1>2, <1>4, NotValidatedEffect DEF HeldInv, At
    <2>2. host' \in Hosts /\ host'.at = "finish" /\ host'.size = host.size
      BY <1>1, <1>2, <1>4, GotoEffect DEF Points
    <2>3. ControlType' /\ MutexInv' /\ HeldInv'
      BY <1>1, <1>2, <2>1, <2>2, <1>4 DEF ControlType, MutexInv, HeldInv, At
    <2>4. Quiet' => QuietInv'
      BY <1>1, <1>2, <2>1, <2>2, <1>4 DEF Quiet, QuietInv, ZigbeeInv, BleInv, TimerInv,
         VerifiedInv, SelectedInv, BLE, MutexInv, HeldInv, At
    <2>5. QED
      BY <1>1, <1>2, <2>1, <2>2, <2>3, <2>4 DEF IInv
  <1>5. QED
    BY <1>3, <1>4 DEF Validate, At

LEMMA FinishStep ==
  ASSUME IInv, Finish
  PROVE  IInv'
  <1>1. SessionInv /\ ControlType /\ MutexInv /\ HeldInv /\ (Quiet => QuietInv)
    BY DEF IInv
  <1>2. /\ UNCHANGED <<s, holder, zigbee, zpc, tpc, selected, idf, image, stage, downloads>>
        /\ UNCHANGED <<timer, uploads>>
        /\ host.at = "finish"
    BY DEF Finish, Forget, Fine, Missed, At, still
  <1>3. CASE ble' = NoUpload /\ mishaps' = mishaps /\ Goto("release")
    <2>1. SessionInv'
      BY <1>1, <1>2, <1>3 DEF SessionInv, HandleOwned, ContentInv
    <2>2. host' \in Hosts /\ host'.at = "release" /\ host'.size = host.size
      BY <1>1, <1>2, <1>3, GotoEffect DEF Points
    <2>3. ControlType' /\ MutexInv' /\ HeldInv'
      BY <1>1, <1>2, <2>1, <2>2, <1>3, NoUploadType DEF ControlType, MutexInv, HeldInv,
         At
    <2>4. Quiet' => QuietInv'
      BY <1>1, <1>2, <2>1, <2>2, <1>3, NoUploadType DEF Quiet, QuietInv, ZigbeeInv,
         BleInv, TimerInv, VerifiedInv, SelectedInv, BLE, MutexInv, HeldInv, At
    <2>5. QED
      BY <1>1, <1>2, <2>1, <2>2, <2>3, <2>4 DEF IInv
  <1>4. CASE /\ mishaps' = mishaps \cup {"lock"}
             /\ ble' = ble /\ Goto("release")
    <2>1. SessionInv'
      BY <1>1, <1>2, <1>4 DEF SessionInv, HandleOwned, ContentInv, Mishap
    <2>2. host' \in Hosts /\ host'.at = "release" /\ host'.size = host.size
      BY <1>1, <1>2, <1>4, GotoEffect DEF Points
    <2>3. ControlType' /\ MutexInv' /\ HeldInv'
      BY <1>1, <1>2, <2>1, <2>2, <1>4, NoUploadType DEF ControlType, MutexInv, HeldInv,
         At, Mishap
    <2>4. Quiet' => QuietInv'
      BY <1>1, <1>2, <2>1, <2>2, <1>4, NoUploadType DEF Quiet, QuietInv, ZigbeeInv,
         BleInv, TimerInv, VerifiedInv, SelectedInv, BLE, MutexInv, HeldInv, At, Mishap
    <2>5. QED
      BY <1>1, <1>2, <2>1, <2>2, <2>3, <2>4 DEF IInv
  <1>5. QED
    BY <1>3, <1>4 DEF Finish, Forget, Fine, Missed, At

LEMMA ExpireStep ==
  ASSUME IInv, Expire
  PROVE  IInv'
  <1>1. SessionInv /\ ControlType /\ MutexInv /\ HeldInv /\ (Quiet => QuietInv)
    BY DEF IInv
  <1>2. /\ UNCHANGED <<s, holder, zigbee, zpc, host, selected, idf, image, stage,
                       downloads, uploads>>
        /\ timer = TRUE /\ timer' = FALSE
        /\ tpc = "idle"
    BY DEF Expire, Fine, Missed, world
  <1>3. CASE /\ ble.active /\ ble' = NoUpload /\ tpc' = "abort"
             /\ mishaps' = IF host.at \in Handling THEN mishaps \cup {"overtaken"} ELSE mishaps
    <2>1. /\ SessionInv'
          /\ mishaps' \subseteq Mishap /\ mishaps \subseteq mishaps'
          /\ host.at \in Points
          /\ mishaps' = {} => host.at \notin {"write", "drop", "clear", "verify"}
      BY <1>1, <1>2, <1>3 DEF SessionInv, HandleOwned, ContentInv, Mishap, Handling,
         ControlType, Hosts, Points
    <2>2. ControlType' /\ MutexInv' /\ HeldInv'
      <3>1. ControlType'
        BY <1>1, <1>2, <2>1, <1>3, NoUploadType DEF ControlType, Mishap, Hosts
      <3>2. MutexInv'
        BY <1>1, <1>2, <2>1, <1>3, NoUploadType DEF MutexInv, At
      <3>3. HeldInv'
        BY <1>1, <1>2, <2>1, <1>3, NoUploadType DEF HeldInv, MutexInv, At
      <3>4. QED
        BY <3>1, <3>2, <3>3
    <2>3. Quiet' => QuietInv'
      BY <1>1, <1>2, <2>1, <1>3, NoUploadType DEF Quiet, QuietInv, ZigbeeInv, BleInv,
         TimerInv, VerifiedInv, SelectedInv, BLE, MutexInv, HeldInv, At, Mishap, Hosts,
         Points
    <2>4. QED
      BY <1>1, <1>2, <2>1, <2>2, <2>3 DEF IInv
  <1>4. CASE ~ble.active /\ UNCHANGED <<mishaps, ble, tpc>>
    <2>1. SessionInv'
      BY <1>1, <1>2, <1>4 DEF SessionInv, HandleOwned, ContentInv
    <2>2. ControlType' /\ MutexInv' /\ HeldInv'
      <3>1. ControlType'
        BY <1>1, <1>2, <2>1, <1>4, NoUploadType DEF ControlType
      <3>2. MutexInv'
        BY <1>1, <1>2, <2>1, <1>4, NoUploadType DEF MutexInv, At
      <3>3. HeldInv'
        BY <1>1, <1>2, <2>1, <1>4, NoUploadType DEF HeldInv, MutexInv, At
      <3>4. QED
        BY <3>1, <3>2, <3>3
    <2>3. Quiet' => QuietInv'
      BY <1>1, <1>2, <2>1, <1>4, NoUploadType DEF Quiet, QuietInv, ZigbeeInv, BleInv,
         TimerInv, VerifiedInv, SelectedInv, BLE, MutexInv, HeldInv, At
    <2>4. QED
      BY <1>1, <1>2, <2>1, <2>2, <2>3 DEF IInv
  <1>5. CASE mishaps' = mishaps \cup {"lock"} /\ UNCHANGED <<ble, tpc>>
    <2>1. SessionInv'
      BY <1>1, <1>2, <1>5 DEF SessionInv, HandleOwned, ContentInv, Mishap
    <2>2. ControlType' /\ MutexInv' /\ HeldInv'
      <3>1. ControlType'
        BY <1>1, <1>2, <2>1, <1>5, NoUploadType DEF ControlType, Mishap
      <3>2. MutexInv'
        BY <1>1, <1>2, <2>1, <1>5, NoUploadType DEF MutexInv, At
      <3>3. HeldInv'
        BY <1>1, <1>2, <2>1, <1>5, NoUploadType DEF HeldInv, At
      <3>4. QED
        BY <3>1, <3>2, <3>3
    <2>3. Quiet' => QuietInv'
      BY <1>1, <1>2, <2>1, <1>5, NoUploadType DEF Quiet, QuietInv, ZigbeeInv, BleInv,
         TimerInv, VerifiedInv, SelectedInv, BLE, MutexInv, HeldInv, At, Mishap
    <2>4. QED
      BY <1>1, <1>2, <2>1, <2>2, <2>3 DEF IInv
  <1>6. QED
    BY <1>3, <1>4, <1>5 DEF Expire, Fine, Missed, At

LEMMA AbortExpiredStep ==
  ASSUME IInv, AbortExpired
  PROVE  IInv'
  <1>1. SessionInv /\ ControlType /\ MutexInv /\ HeldInv /\ (Quiet => QuietInv)
    BY DEF IInv
  <1>2. /\ UNCHANGED <<holder, zigbee, zpc, selected, stage, downloads, uploads, image>>
        /\ UNCHANGED <<ble, timer, host>>
        /\ tpc = "abort" /\ tpc' = "idle"
        /\ BLE \in Senders
    BY OtaAssumption DEF AbortExpired, world, Senders, BLE
  <1>3. CASE Abort(BLE)
    <2>1. /\ SessionInv' /\ mishaps' \subseteq Mishap /\ mishaps \subseteq mishaps'
          /\ \/ UNCHANGED <<s, idf>> /\ (holder = "none" => ~s.active)
             \/ /\ s.active /\ ~s'.active /\ holder = "none"
                /\ mishaps' = {} => s.owner = BLE
      BY <1>1, <1>2, <1>3, AbortEffect DEF ControlType
    <2>2. ControlType' /\ MutexInv' /\ HeldInv'
      BY <1>1, <1>2, <2>1, <1>3 DEF ControlType, MutexInv, HeldInv, At
    <2>3. Quiet' => QuietInv'
      BY <1>1, <1>2, <2>1, <1>3 DEF Quiet, QuietInv, ZigbeeInv, BleInv, TimerInv,
         VerifiedInv, SelectedInv, BLE, MutexInv, HeldInv, At
    <2>4. QED
      BY <1>1, <1>2, <2>1, <2>2, <2>3 DEF IInv
  <1>4. QED
    BY <1>3 DEF AbortExpired, At

LEMMA StartStep ==
  ASSUME IInv, Start
  PROVE  IInv'
  <1>1. SessionInv /\ ControlType /\ MutexInv /\ HeldInv /\ (Quiet => QuietInv)
    BY DEF IInv
  <1>2. /\ UNCHANGED <<ble, timer, host, tpc, uploads>>
        /\ zigbee' = zigbee
        /\ zpc = "idle" /\ stage' = "data"
        /\ downloads' = downloads + 1 /\ downloads < MaxDownloads /\ 0 \in Senders
    BY OtaAssumption DEF Start, bleSide, Senders
  <1>3. CASE Claims("zigbee") /\ zpc' = "erase"
    <2>1. /\ SessionInv'
          /\ downloads' \in Senders /\ downloads' > 0
      BY <1>1, <1>2, <1>3, OtaAssumption DEF SessionInv, HandleOwned, ContentInv,
         Claims, Free, Tasks, Senders, ControlType
    <2>2. ControlType' /\ MutexInv' /\ HeldInv'
      BY <1>1, <1>2, <2>1, <1>3 DEF ControlType, MutexInv, HeldInv, At, Claims, Free,
         Tasks, Senders
    <2>3. Quiet' => QuietInv'
      BY <1>1, <1>2, <2>1, <1>3 DEF Quiet, QuietInv, ZigbeeInv, BleInv, TimerInv,
         VerifiedInv, SelectedInv, BLE, MutexInv, HeldInv, At, Claims, Free, Tasks,
         Senders
    <2>4. QED
      BY <1>1, <1>2, <2>1, <2>2, <2>3 DEF IInv
  <1>4. CASE /\ UNCHANGED <<zpc, s, holder, idf, image, selected>>
             /\ mishaps' = IF zigbee THEN mishaps \cup {"restarted"} ELSE mishaps
    <2>1. /\ SessionInv'
          /\ downloads' \in Senders /\ downloads' > 0
      BY <1>1, <1>2, <1>4, OtaAssumption DEF SessionInv, HandleOwned, ContentInv,
         Mishap, Senders, ControlType
    <2>2. ControlType' /\ MutexInv' /\ HeldInv'
      BY <1>1, <1>2, <2>1, <1>4 DEF ControlType, MutexInv, HeldInv, At, Mishap, Senders
    <2>3. Quiet' => QuietInv'
      BY <1>1, <1>2, <2>1, <1>4 DEF Quiet, QuietInv, ZigbeeInv, BleInv, TimerInv,
         VerifiedInv, SelectedInv, BLE, MutexInv, HeldInv, At, Mishap, Senders
    <2>4. QED
      BY <1>1, <1>2, <2>1, <2>2, <2>3 DEF IInv
  <1>5. QED
    BY <1>3, <1>4 DEF Start, At

LEMMA OpenZigbeeStep ==
  ASSUME IInv, OpenZigbee
  PROVE  IInv'
  <1>1. SessionInv /\ ControlType /\ MutexInv /\ HeldInv /\ (Quiet => QuietInv)
    BY DEF IInv
  <1>2. /\ UNCHANGED <<ble, timer, host, tpc, uploads>>
        /\ UNCHANGED <<stage, downloads>>
        /\ zpc = "erase" /\ zpc' = "idle"
    BY DEF OpenZigbee, bleSide
  <1>3. CASE (\E n \in Sizes : Opens(n, downloads)) /\ zigbee' = TRUE
    <2>1. /\ SessionInv' /\ mishaps' = mishaps /\ holder' = "none"
          /\ s'.active /\ s'.open /\ s'.owner = downloads /\ s'.from = {}
          /\ s'.bytes = 0 /\ s'.state = "DOWNLOADING" /\ UNCHANGED <<selected, image>>
      BY <1>1, <1>2, <1>3, OpensEffect DEF HeldInv, At, ControlType
    <2>2. ControlType' /\ MutexInv' /\ HeldInv'
      BY <1>1, <1>2, <2>1, <1>3 DEF ControlType, MutexInv, HeldInv, At
    <2>3. Quiet' => QuietInv'
      BY <1>1, <1>2, <2>1, <1>3 DEF Quiet, QuietInv, ZigbeeInv, BleInv, TimerInv,
         VerifiedInv, SelectedInv, BLE, MutexInv, HeldInv, At
    <2>4. QED
      BY <1>1, <1>2, <2>1, <2>2, <2>3 DEF IInv
  <1>4. CASE NotOpened /\ zigbee' = zigbee
    <2>1. SessionInv'
      BY <1>1, <1>2, <1>4 DEF SessionInv, HandleOwned, ContentInv, NotOpened
    <2>2. ControlType' /\ MutexInv' /\ HeldInv'
      BY <1>1, <1>2, <2>1, <1>4 DEF ControlType, MutexInv, HeldInv, At, NotOpened
    <2>3. Quiet' => QuietInv'
      BY <1>1, <1>2, <2>1, <1>4 DEF Quiet, QuietInv, ZigbeeInv, BleInv, TimerInv,
         VerifiedInv, SelectedInv, BLE, MutexInv, HeldInv, At, NotOpened
    <2>4. QED
      BY <1>1, <1>2, <2>1, <2>2, <2>3 DEF IInv
  <1>5. QED
    BY <1>3, <1>4 DEF OpenZigbee, At

LEMMA ReceiveStep ==
  ASSUME IInv, Receive
  PROVE  IInv'
  <1>1. SessionInv /\ ControlType /\ MutexInv /\ HeldInv /\ (Quiet => QuietInv)
    BY DEF IInv
  <1>2. /\ UNCHANGED <<ble, timer, host, tpc, uploads>>
        /\ UNCHANGED <<holder, zpc, selected, image, stage, downloads>>
        /\ zpc = "idle" /\ zigbee /\ stage = "data"
    BY DEF Receive, Dropped, bleSide
  <1>3. CASE Appends(downloads) /\ zigbee' = zigbee
    <2>1. /\ SessionInv' /\ s.active /\ s'.active /\ s'.open /\ s'.owner = s.owner
          /\ s'.state = s.state /\ s'.from = s.from \cup {downloads} /\ s'.size = s.size
          /\ s'.bytes = s.bytes + 1 /\ mishaps' = mishaps /\ holder = "none"
      BY <1>1, <1>2, <1>3, AppendsEffect DEF ControlType
    <2>2. ControlType' /\ MutexInv' /\ HeldInv'
      BY <1>1, <1>2, <2>1, <1>3 DEF ControlType, MutexInv, HeldInv, At
    <2>3. Quiet' => QuietInv'
      BY <1>1, <1>2, <2>1, <1>3 DEF Quiet, QuietInv, ZigbeeInv, BleInv, TimerInv,
         VerifiedInv, SelectedInv, BLE, MutexInv, HeldInv, At
    <2>4. QED
      BY <1>1, <1>2, <2>1, <2>2, <2>3 DEF IInv
  <1>4. CASE (NotAppended \/ NothingToAppend) /\ zigbee' = FALSE
    <2>1. /\ SessionInv' /\ mishaps' = mishaps
          /\ UNCHANGED <<s, idf>> \/ (s.active /\ ~s'.active /\ holder = "none")
      BY <1>1, <1>2, <1>4, FailureEffect
    <2>2. ControlType' /\ MutexInv' /\ HeldInv'
      BY <1>1, <1>2, <2>1, <1>4 DEF ControlType, MutexInv, HeldInv, At
    <2>3. Quiet' => QuietInv'
      BY <1>1, <1>2, <2>1, <1>4 DEF Quiet, QuietInv, ZigbeeInv, BleInv, TimerInv,
         VerifiedInv, SelectedInv, BLE, MutexInv, HeldInv, At
    <2>4. QED
      BY <1>1, <1>2, <2>1, <2>2, <2>3 DEF IInv
  <1>5. QED
    BY <1>3, <1>4 DEF Receive, Dropped, At

LEMMA CheckStep ==
  ASSUME IInv, Check
  PROVE  IInv'
  <1>1. SessionInv /\ ControlType /\ MutexInv /\ HeldInv /\ (Quiet => QuietInv)
    BY DEF IInv
  <1>2. /\ UNCHANGED <<ble, timer, host, tpc, uploads>>
        /\ UNCHANGED <<holder, zpc, selected, image, downloads>>
        /\ zpc = "idle" /\ stage' = "checked"
    BY DEF Check, Dropped, Fine, bleSide
  <1>3. CASE zigbee /\ Verified /\ zigbee' = zigbee
    <2>1. /\ SessionInv' /\ mishaps' = mishaps /\ holder = "none"
          /\ s.active /\ s'.active /\ s'.owner = s.owner /\ s'.from = s.from
          /\ s'.bytes = s'.size /\ s'.state = "VERIFYING"
      BY <1>1, <1>2, <1>3, VerifiedEffect
    <2>2. ControlType' /\ MutexInv' /\ HeldInv'
      BY <1>1, <1>2, <2>1, <1>3 DEF ControlType, MutexInv, HeldInv, At
    <2>3. Quiet' => QuietInv'
      BY <1>1, <1>2, <2>1, <1>3 DEF Quiet, QuietInv, ZigbeeInv, BleInv, TimerInv,
         VerifiedInv, SelectedInv, BLE, MutexInv, HeldInv, At
    <2>4. QED
      BY <1>1, <1>2, <2>1, <2>2, <2>3 DEF IInv
  <1>4. CASE zigbee /\ NotVerified /\ zigbee' = FALSE
    <2>1. /\ SessionInv' /\ mishaps' = mishaps
          /\ UNCHANGED <<s, idf>> \/ (s.active /\ ~s'.active /\ holder = "none")
      BY <1>1, <1>2, <1>4, FailureEffect
    <2>2. ControlType' /\ MutexInv' /\ HeldInv'
      BY <1>1, <1>2, <2>1, <1>4 DEF ControlType, MutexInv, HeldInv, At
    <2>3. Quiet' => QuietInv'
      BY <1>1, <1>2, <2>1, <1>4 DEF Quiet, QuietInv, ZigbeeInv, BleInv, TimerInv,
         VerifiedInv, SelectedInv, BLE, MutexInv, HeldInv, At
    <2>4. QED
      BY <1>1, <1>2, <2>1, <2>2, <2>3 DEF IInv
  <1>5. CASE ~zigbee /\ UNCHANGED <<zigbee, s, idf, mishaps>>
    <2>1. SessionInv'
      BY <1>1, <1>2, <1>5 DEF SessionInv, HandleOwned, ContentInv
    <2>2. ControlType' /\ MutexInv' /\ HeldInv'
      BY <1>1, <1>2, <2>1, <1>5 DEF ControlType, MutexInv, HeldInv, At
    <2>3. Quiet' => QuietInv'
      BY <1>1, <1>2, <2>1, <1>5 DEF Quiet, QuietInv, ZigbeeInv, BleInv, TimerInv,
         VerifiedInv, SelectedInv, BLE, MutexInv, HeldInv, At
    <2>4. QED
      BY <1>1, <1>2, <2>1, <2>2, <2>3 DEF IInv
  <1>6. QED
    BY <1>3, <1>4, <1>5 DEF Check, Dropped, Fine, At

LEMMA FinishZigbeeStep ==
  ASSUME IInv, FinishZigbee
  PROVE  IInv'
  <1>1. SessionInv /\ ControlType /\ MutexInv /\ HeldInv /\ (Quiet => QuietInv)
    BY DEF IInv
  <1>2. /\ UNCHANGED <<ble, timer, host, tpc, uploads>>
        /\ UNCHANGED <<selected, image, downloads>>
        /\ zpc = "idle" /\ stage = "checked" /\ stage' = "none"
    BY DEF FinishZigbee, Fine, bleSide
  <1>3. CASE zigbee /\ Accepted("zigbee") /\ zpc' = "validate" /\ zigbee' = zigbee
    <2>1. /\ SessionInv' /\ mishaps' = mishaps /\ holder = "none" /\ holder' = "zigbee"
          /\ s.active /\ s'.active /\ s'.open /\ s'.owner = s.owner /\ s'.from = s.from
          /\ s'.size = s.size /\ s'.bytes = s.bytes
          /\ s'.state = "COMMITTING" /\ s.state \in {"VERIFYING", "COMMITTING"}
      BY <1>1, <1>2, <1>3, AcceptedEffect DEF Tasks
    <2>2. ControlType' /\ MutexInv' /\ HeldInv'
      BY <1>1, <1>2, <2>1, <1>3 DEF ControlType, MutexInv, HeldInv, At, Tasks
    <2>3. Quiet' => QuietInv'
      BY <1>1, <1>2, <2>1, <1>3 DEF Quiet, QuietInv, ZigbeeInv, BleInv, TimerInv,
         VerifiedInv, SelectedInv, BLE, MutexInv, HeldInv, At, Tasks
    <2>4. QED
      BY <1>1, <1>2, <2>1, <2>2, <2>3 DEF IInv
  <1>4. CASE zigbee /\ NotAccepted /\ zigbee' = FALSE /\ zpc' = zpc
    <2>1. /\ SessionInv' /\ mishaps' = mishaps
          /\ UNCHANGED <<s, idf>> \/ (s.active /\ ~s'.active /\ holder = "none")
          /\ holder' = holder
      BY <1>1, <1>2, <1>4, FailureEffect DEF NotAccepted
    <2>2. ControlType' /\ MutexInv' /\ HeldInv'
      BY <1>1, <1>2, <2>1, <1>4 DEF ControlType, MutexInv, HeldInv, At, NotAccepted
    <2>3. Quiet' => QuietInv'
      BY <1>1, <1>2, <2>1, <1>4 DEF Quiet, QuietInv, ZigbeeInv, BleInv, TimerInv,
         VerifiedInv, SelectedInv, BLE, MutexInv, HeldInv, At, NotAccepted
    <2>4. QED
      BY <1>1, <1>2, <2>1, <2>2, <2>3 DEF IInv
  <1>5. CASE ~zigbee /\ UNCHANGED <<zigbee, zpc, s, holder, idf, mishaps>>
    <2>1. SessionInv'
      BY <1>1, <1>2, <1>5 DEF SessionInv, HandleOwned, ContentInv
    <2>2. ControlType' /\ MutexInv' /\ HeldInv'
      BY <1>1, <1>2, <2>1, <1>5 DEF ControlType, MutexInv, HeldInv, At
    <2>3. Quiet' => QuietInv'
      BY <1>1, <1>2, <2>1, <1>5 DEF Quiet, QuietInv, ZigbeeInv, BleInv, TimerInv,
         VerifiedInv, SelectedInv, BLE, MutexInv, HeldInv, At
    <2>4. QED
      BY <1>1, <1>2, <2>1, <2>2, <2>3 DEF IInv
  <1>6. QED
    BY <1>3, <1>4, <1>5 DEF FinishZigbee, Fine, At

LEMMA ValidateZigbeeStep ==
  ASSUME IInv, ValidateZigbee
  PROVE  IInv'
  <1>1. SessionInv /\ ControlType /\ MutexInv /\ HeldInv /\ (Quiet => QuietInv)
    BY DEF IInv
  <1>2. /\ UNCHANGED <<ble, timer, host, tpc, uploads>>
        /\ UNCHANGED <<stage, downloads>>
        /\ zpc = "validate"
    BY DEF ValidateZigbee, bleSide
  <1>3. CASE Validated /\ zpc' = "restart" /\ zigbee' = zigbee
    <2>1. /\ SessionInv' /\ mishaps' = mishaps /\ holder' = "none" /\ s'.active
          /\ s'.owner = s.owner /\ s'.from = s.from /\ s'.size = s.size /\ s'.bytes = s.bytes
          /\ s'.state = "COMPLETE"
          /\ selected' = TRUE /\ image' \in {"whole", "broken"}
          /\ image' = IF s.bytes = s.size /\ s.from = {s.owner} THEN "whole" ELSE "broken"
      BY <1>1, <1>2, <1>3, ValidatedEffect DEF Validated, HeldInv, At, SessionInv,
         ContentInv, Sessions
    <2>2. ControlType' /\ MutexInv' /\ HeldInv'
      BY <1>1, <1>2, <2>1, <1>3 DEF ControlType, MutexInv, HeldInv, At, Validated,
         SessionInv, ContentInv, Sessions
    <2>3. Quiet' => QuietInv'
      BY <1>1, <1>2, <2>1, <1>3 DEF Quiet, QuietInv, ZigbeeInv, BleInv, TimerInv,
         VerifiedInv, SelectedInv, BLE, MutexInv, HeldInv, At, Validated, SessionInv,
         ContentInv, Sessions
    <2>4. QED
      BY <1>1, <1>2, <2>1, <2>2, <2>3 DEF IInv
  <1>4. CASE NotValidated /\ zpc' = "idle" /\ zigbee' = FALSE
    <2>1. /\ SessionInv' /\ mishaps' = mishaps /\ holder' = "none" /\ ~s'.active
          /\ UNCHANGED <<selected, image>>
      BY <1>1, <1>2, <1>4, NotValidatedEffect DEF HeldInv, At
    <2>2. ControlType' /\ MutexInv' /\ HeldInv'
      BY <1>1, <1>2, <2>1, <1>4 DEF ControlType, MutexInv, HeldInv, At
    <2>3. Quiet' => QuietInv'
      BY <1>1, <1>2, <2>1, <1>4 DEF Quiet, QuietInv, ZigbeeInv, BleInv, TimerInv,
         VerifiedInv, SelectedInv, BLE, MutexInv, HeldInv, At
    <2>4. QED
      BY <1>1, <1>2, <2>1, <2>2, <2>3 DEF IInv
  <1>5. QED
    BY <1>3, <1>4 DEF ValidateZigbee, At

LEMMA ResetStep ==
  ASSUME IInv, Reset
  PROVE  IInv'
  <1>1. 0 \in Senders /\ Idle \in Hosts /\ Idle.at = "idle"
    BY OtaAssumption, NoUploadType DEF Senders, Idle, Hosts, Points
  <1>2. NoSession \in Sessions /\ ~NoSession.active /\ ~NoSession.open
    BY <1>1, OtaAssumption DEF NoSession, Sessions, States, BLE
  <1>3. SessionInv'
    BY <1>2 DEF Reset, SessionInv, HandleOwned, ContentInv
  <1>4. ControlType'
    BY <1>1, NoUploadType DEF IInv, Reset, ControlType
  <1>5. MutexInv' /\ HeldInv'
    BY <1>1 DEF Reset, MutexInv, HeldInv, At
  <1>6. QuietInv'
    BY <1>1, <1>2, NoUploadType DEF Reset, QuietInv, ZigbeeInv, BleInv, TimerInv,
       VerifiedInv, SelectedInv, At
  <1>7. QED
    BY <1>3, <1>4, <1>5, <1>6 DEF IInv

-----------------------------------------------------------------------------
(* The invariant.                                                          *)

LEMMA InitInv == Init => IInv
  <1> SUFFICES ASSUME Init PROVE IInv
    OBVIOUS
  <1>1. 0 \in Senders /\ 0 \in 0..MaxUploads /\ Idle \in Hosts /\ Idle.at = "idle"
    BY OtaAssumption, NoUploadType DEF Senders, Idle, Hosts, Points
  <1>2. NoSession \in Sessions /\ ~NoSession.active /\ ~NoSession.open
    BY <1>1, OtaAssumption DEF NoSession, Sessions, States, BLE
  <1>3. SessionInv
    BY <1>2 DEF Init, SessionInv, HandleOwned, ContentInv
  <1>4. ControlType
    BY <1>1, NoUploadType DEF Init, ControlType
  <1>5. MutexInv /\ HeldInv
    BY <1>1 DEF Init, MutexInv, HeldInv, At
  <1>6. QuietInv
    BY <1>1, <1>2, NoUploadType DEF Init, QuietInv, ZigbeeInv, BleInv, TimerInv,
       VerifiedInv, SelectedInv, At
  <1>7. QED
    BY <1>3, <1>4, <1>5, <1>6 DEF IInv

LEMMA StutterInv == IInv /\ UNCHANGED vars => IInv'
  <1> SUFFICES ASSUME IInv, UNCHANGED vars PROVE IInv'
    OBVIOUS
  <1>1. /\ UNCHANGED <<s, holder, zigbee, ble, timer, host, zpc, tpc, selected>>
        /\ UNCHANGED <<stage, downloads, uploads, idf, image, mishaps>>
    BY DEF vars, code, world, history
  <1>2. SessionInv' /\ ControlType' /\ MutexInv' /\ HeldInv'
    BY <1>1 DEF IInv, SessionInv, HandleOwned, ContentInv, ControlType, MutexInv, HeldInv, At
  <1>3. Quiet' => QuietInv'
    BY <1>1 DEF IInv, Quiet, QuietInv, ZigbeeInv, BleInv, TimerInv, VerifiedInv, SelectedInv, At
  <1>4. QED
    BY <1>2, <1>3 DEF IInv

LEMMA NextInv == IInv /\ [Next]_vars => IInv'
  <1> SUFFICES ASSUME IInv, [Next]_vars PROVE IInv'
    OBVIOUS
  <1>1. CASE \E c \in Conns : (\E n \in Sizes : Begin(c, n)) \/ Chunk(c) \/ End(c)
    BY <1>1, BeginStep, ChunkStep, EndStep
  <1>2. CASE Uploading
    BY <1>2, RearmedStep, ClaimBleStep, OpenBleStep, AdoptStep, WriteStep, AbortBleStep,
       ClearStep, VerifyStep, CommitStep, ValidateStep, FinishStep DEF Uploading
  <1>3. CASE Timer
    BY <1>3, ExpireStep, AbortExpiredStep DEF Timer
  <1>4. CASE Start \/ Receive \/ Check \/ FinishZigbee \/ Downloading
    BY <1>4, StartStep, ReceiveStep, CheckStep, FinishZigbeeStep, OpenZigbeeStep,
       ValidateZigbeeStep DEF Downloading
  <1>5. CASE Reset
    BY <1>5, ResetStep
  <1>6. CASE UNCHANGED vars
    BY <1>6, StutterInv
  <1>7. QED
    BY <1>1, <1>2, <1>3, <1>4, <1>5, <1>6 DEF Next

LEMMA Invariance == Spec => []IInv
  BY InitInv, NextInv, PTL DEF Spec

\* The state keeps its types, whatever the partition, the images and the transfers.
THEOREM TypeCorrect == Spec => []TypeOK
  <1>1. IInv => TypeOK
    BY DEF IInv, TypeOK, SessionInv, Sessions, ControlType, Hosts, Points
  <1>2. QED
    BY <1>1, Invariance, PTL

\* The handle ESP-IDF has open is the session's, on every path of every transport: it
\* is given back once, and by nobody after the session has ended.
THEOREM HandleIsOwned == Spec => []HandleOwned
  <1>1. IInv => HandleOwned
    BY DEF IInv, SessionInv
  <1>2. QED
    BY <1>1, Invariance, PTL

\* Short of a mishap the chunks of a session are one transfer's.
THEOREM ChunksOfOne == Spec => []OneSender
  <1>1. IInv => OneSender
    BY DEF IInv, Quiet, QuietInv, OneSender
  <1>2. QED
    BY <1>1, Invariance, PTL

\* Short of a mishap the image selected for the next boot is one whole image.
THEOREM BootImageWhole == Spec => []BootsWhole
  <1>1. IInv => BootsWhole
    BY DEF IInv, Quiet, QuietInv, SelectedInv, BootsWhole
  <1>2. QED
    BY <1>1, Invariance, PTL

\* Short of a mishap an upload the BLE side holds open is the session.
THEOREM UploadIsSession == Spec => []UploadLives
  <1>1. IInv => UploadLives
    BY DEF IInv, Quiet, QuietInv, BleInv, UploadLives
  <1>2. QED
    BY <1>1, Invariance, PTL
=============================================================================
