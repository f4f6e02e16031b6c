-------------------------- MODULE SdfLockoutProofs --------------------------
(***************************************************************************)
(* What holds of SdfLockout for every threshold, window, lockout time,     *)
(* cooldown and queue depth.  The inductive invariant adds to the stated   *)
(* properties what the cycle's locals say about the deadline: a cycle that *)
(* expired the lockout, or that is going to scan, runs with none armed.    *)
(***************************************************************************)
EXTENDS SdfLockout, SequenceTheorems, FiniteSetTheorems, TLAPS

\* The locals of a cycle under way agree with the deadline.
CycleInv ==
  /\ stage \in {"retire", "clear"} => lockoutUntil = 0
  /\ (stage = "announce" /\ (cycle.cleared \/ cycle.run)) => lockoutUntil = 0

IInv ==
  /\ TypeOK
  /\ CycleInv
  /\ MatchOnlyWhenOpen
  /\ BeliefTracksDeadline
  /\ LockoutDurable

-----------------------------------------------------------------------------
(* Lemmas about the operators the actions share.                           *)

\* Sending an event into a queue with room yields a queue of events that is
\* one longer, whichever end it goes to (xQueueSendToFront / SendToBack).
LEMMA EnqueuedType ==
  ASSUME NEW q \in Seq(Event), NEW e \in Event
  PROVE  /\ Enqueued(q, e) \in Seq(Event)
         /\ Len(Enqueued(q, e)) = Len(q) + 1
  <1>1. <<e>> \in Seq(Event) /\ Len(<<e>>) = 1
    OBVIOUS
  <1>2. <<e>> \o q \in Seq(Event) /\ Len(<<e>> \o q) = Len(q) + 1
    BY <1>1
  <1>3. Append(q, e) \in Seq(Event) /\ Len(Append(q, e)) = Len(q) + 1
    OBVIOUS
  <1>4. QED
    BY <1>2, <1>3 DEF Enqueued

\* An emission keeps the queues well-formed, delivered or not.
LEMMA EmitType ==
  ASSUME TypeOK, NEW e \in Event, Emit(e)
  PROVE  /\ routerQueue' \in Seq(Event) /\ Len(routerQueue') <= QueueDepth
         /\ appQueue' \in Seq(Event) /\ Len(appQueue') <= QueueDepth
         /\ dropped' \in BOOLEAN
  <1>1. routerQueue \in Seq(Event) /\ Len(routerQueue) \in Nat
    BY DEF TypeOK
  <1>2. CASE Len(routerQueue) < QueueDepth /\ routerQueue' = Enqueued(routerQueue, e)
    BY <1>1, <1>2, EnqueuedType, LockoutAssumption DEF Emit, TypeOK
  <1>3. CASE UNCHANGED routerQueue
    BY <1>3 DEF Emit, TypeOK
  <1>4. QED
    BY <1>2, <1>3 DEF Emit

\* So does an emission that is skipped because the lock was missed.
LEMMA EmitOrSkipType ==
  ASSUME TypeOK, NEW e \in Event, NEW s \in SUBSET Skipped,
         (Emit(e) /\ UNCHANGED missed) \/ NotReady(s)
  PROVE  /\ routerQueue' \in Seq(Event) /\ Len(routerQueue') <= QueueDepth
         /\ appQueue' \in Seq(Event) /\ Len(appQueue') <= QueueDepth
         /\ dropped' \in BOOLEAN /\ missed' \subseteq Skipped
  <1>1. CASE Emit(e) /\ UNCHANGED missed
    BY <1>1, EmitType DEF TypeOK
  <1>2. CASE NotReady(s)
    BY <1>2 DEF NotReady, TypeOK, queueVars
  <1>3. QED
    BY <1>1, <1>2

\* Taking the oldest event off a queue leaves a shorter queue.
LEMMA DequeuedType ==
  ASSUME NEW q \in Seq(Event), q # <<>>, Len(q) <= QueueDepth
  PROVE  /\ Tail(q) \in Seq(Event) /\ Len(Tail(q)) <= QueueDepth
         /\ Head(q) \in Event
  <1>1. Len(q) \in Nat /\ QueueDepth \in Nat
    BY LockoutAssumption
  <1>2. Tail(q) \in Seq(Event) /\ Len(Tail(q)) = Len(q) - 1 /\ Head(q) \in Event
    BY HeadTailProperties
  <1>3. QED
    BY <1>1, <1>2

\* A jump to a stage of the cycle keeps the control state well-formed.
LEMMA GotoType ==
  ASSUME NEW st \in Stage, NEW c \in Cycle, Goto(st, c)
  PROVE  stage' \in Stage /\ cycle' \in Cycle
  <1>1. NoCycle \in Cycle
    BY LockoutAssumption DEF NoCycle, NewCycle, Cycle, Uptime, ScanResult
  <1>2. QED
    BY <1>1 DEF Goto

\* The stages a cycle continues with are stages.
LEMMA AfterType ==
  ASSUME NEW c \in Cycle
  PROVE  /\ AfterClear(c) \in {"scan", "idle"}
         /\ AfterAnnounce(c) \in {"retire", "scan", "idle"}
         /\ AfterGate(c) \in {"announce", "retire", "scan", "idle"}
  BY DEF AfterClear, AfterAnnounce, AfterGate

-----------------------------------------------------------------------------
(* The inductive invariant.                                                *)

\* A fresh device satisfies the invariant.
LEMMA InitInv == Init => IInv
  <1> SUFFICES ASSUME Init PROVE IInv
    OBVIOUS
  <1>1. NoCycle \in Cycle
    BY LockoutAssumption DEF NoCycle, NewCycle, Cycle, Uptime, ScanResult
  <1>2. <<>> \in Seq(Event) /\ Len(<<>>) = 0
    OBVIOUS
  <1>3. TypeOK
    <2>1. /\ now \in 1 .. MaxTime /\ windowStart \in Uptime
          /\ lockoutUntil \in Deadline /\ cooldownUntil \in Deadline
          /\ failCount \in 0 .. FailThreshold - 1
          /\ locksSeen \in Nat /\ clearsSeen \in Nat /\ boots \in Nat
      BY LockoutAssumption DEF Init, Uptime, Deadline
    <2>2. /\ routerQueue \in Seq(Event) /\ Len(routerQueue) <= QueueDepth
          /\ appQueue \in Seq(Event) /\ Len(appQueue) <= QueueDepth
      BY <1>2, LockoutAssumption DEF Init
    <2>3. stage \in Stage /\ cycle \in Cycle /\ fails \in SUBSET Uptime
      BY <1>1 DEF Init, Stage
    <2>4. QED
      BY <2>1, <2>2, <2>3 DEF Init, TypeOK
  <1>4. ~(lockoutUntil > 0)
    BY DEF Init
  <1>5. CycleInv /\ MatchOnlyWhenOpen /\ LockoutDurable /\ BeliefTracksDeadline
    BY <1>4 DEF Init, CycleInv, MatchOnlyWhenOpen, LockoutDurable,
                BeliefTracksDeadline
  <1>6. QED
    BY <1>3, <1>5 DEF IInv

\* A new cycle carries the three decisions of its gate.
LEMMA NewCycleType ==
  ASSUME TypeOK, NEW x \in BOOLEAN, NEW y \in BOOLEAN, NEW z \in BOOLEAN
  PROVE  /\ NewCycle(now, x, y, z) \in Cycle
         /\ NewCycle(now, x, y, z).cleared = x
         /\ NewCycle(now, x, y, z).run = z
  <1>1. now \in Uptime /\ 0 \in Uptime
    BY LockoutAssumption DEF TypeOK, Uptime
  <1>2. QED
    BY <1>1 DEF NewCycle, Cycle, ScanResult

\* The gate of a cycle: it goes on to scan, or to retire the record, only
\* when it leaves no lockout armed.
LEMMA StartCycleInv == IInv /\ StartCycle => IInv'
  <1> SUFFICES ASSUME IInv, StartCycle PROVE IInv'
    OBVIOUS
  <1> DEFINE expired == lockoutUntil > 0 /\ now >= lockoutUntil
             until   == IF expired THEN 0 ELSE lockoutUntil
  <1>1. PICK enrolling \in BOOLEAN :
          /\ lockoutUntil' = until
          /\ failCount' = IF expired THEN 0 ELSE failCount
          /\ windowStart' = IF expired THEN 0 ELSE windowStart
          /\ persistArmed' = (persistArmed /\ ~expired)
          /\ LET c == NewCycle(now, expired, announcePending,
                         now >= cooldownUntil /\ now >= until /\ ~enrolling)
             IN Goto(AfterGate(c), c)
    BY DEF StartCycle, Open
  <1> DEFINE run == now >= cooldownUntil /\ now >= until /\ ~enrolling
             c == NewCycle(now, expired, announcePending, run)
  <1>2. TypeOK
    BY DEF IInv
  <1>3. expired \in BOOLEAN /\ run \in BOOLEAN /\ announcePending \in BOOLEAN
    BY <1>2 DEF TypeOK
  <1>4. c \in Cycle /\ c.cleared = expired /\ c.run = run
    BY <1>2, <1>3, NewCycleType
  <1>5. /\ stage' = AfterGate(c)
        /\ stage' # "idle" => cycle' = c
        /\ AfterGate(c) \in {"announce", "retire", "scan", "idle"}
        /\ stage' \in Stage /\ cycle' \in Cycle
    <2>1. Goto(AfterGate(c), c)
      BY <1>1
    <2> HIDE DEF c
    <2>2. QED
      BY <2>1, <1>4, AfterType, GotoType DEF Goto, Stage
  <1>6. TypeOK'
    <2>1. /\ lockoutUntil' \in Deadline /\ windowStart' \in Uptime
          /\ failCount' \in 0 .. FailThreshold - 1
      BY <1>1, <1>2, LockoutAssumption DEF TypeOK, Deadline, Uptime
    <2>2. persistArmed' \in BOOLEAN
      BY <1>1
    <2>3. UNCHANGED <<now, cooldownUntil, announcePending, record, routerQueue,
            appQueue, alarm, locksSeen, clearsSeen, boots, dropped, unsaved,
            reannounced, missed, fails>>
      BY DEF StartCycle, queueVars, appVars, history
    <2>4. QED
      BY <1>2, <1>5, <2>1, <2>2, <2>3 DEF TypeOK
  <1>7. (expired \/ run) => lockoutUntil' = 0
    BY <1>1, <1>2 DEF TypeOK, Deadline
  <1>8. stage' \in {"retire", "scan"} => c.cleared \/ c.run
    <2> HIDE DEF c
    <2>1. QED
      BY <1>5 DEF AfterGate, AfterAnnounce, AfterClear
  <1>9. CycleInv' /\ MatchOnlyWhenOpen'
    <2>1. (c.cleared \/ c.run) => lockoutUntil' = 0
      BY <1>4, <1>7
    <2> HIDE DEF c
    <2>2. QED
      BY <1>5, <1>8, <2>1 DEF CycleInv, MatchOnlyWhenOpen
  <1>10. BeliefTracksDeadline'
    <2>1. lockoutUntil' > 0 <=> lockoutUntil > 0 /\ ~expired
      BY <1>1, <1>2 DEF TypeOK, Deadline
    <2>2. persistArmed' <=> persistArmed /\ ~expired
      BY <1>1
    <2>3. QED
      BY <2>1, <2>2 DEF IInv, BeliefTracksDeadline
  <1>11. LockoutDurable'
    <2>1. lockoutUntil' > 0 => lockoutUntil > 0
      BY <1>1, <1>2 DEF TypeOK, Deadline
    <2>2. ~SavePending
      BY DEF StartCycle, SavePending
    <2>3. QED
      BY <2>1, <2>2 DEF IInv, LockoutDurable, StartCycle, history
  <1>12. QED
    BY <1>6, <1>9, <1>10, <1>11 DEF IInv

\* The steps of a cycle that only emit, write NVS or read the sensor.
LEMMA Announcing == IInv /\ Announce => IInv'
  <1> SUFFICES ASSUME IInv, Announce PROVE IInv'
    OBVIOUS
  <1>1. TypeOK /\ cycle \in Cycle
    BY DEF IInv, TypeOK
  <1> DEFINE late == IF cycle.cleared THEN {"lateEntry"} ELSE {}
  <1>2. /\ Goto(AfterAnnounce(cycle), cycle)
        /\ (Emit("LockoutEntered") /\ UNCHANGED missed) \/ NotReady(late)
        /\ late \in SUBSET Skipped /\ "LockoutEntered" \in Event
    BY DEF Announce, Skipped, Event
  <1>3. stage' \in Stage /\ cycle' \in Cycle
    BY <1>1, <1>2, AfterType, GotoType DEF Stage
  <1>a. /\ routerQueue' \in Seq(Event) /\ Len(routerQueue') <= QueueDepth
        /\ appQueue' \in Seq(Event) /\ Len(appQueue') <= QueueDepth
        /\ dropped' \in BOOLEAN /\ missed' \subseteq Skipped
    <2> HIDE DEF late
    <2> QED BY <1>1, <1>2, EmitOrSkipType
  <1>4. TypeOK'
    BY <1>1, <1>3, <1>a DEF Announce, TypeOK, lockoutVars, appVars
  <1>5. QED
    BY <1>2, <1>4 DEF IInv, Announce, Goto, AfterAnnounce, AfterClear, CycleInv,
       MatchOnlyWhenOpen, BeliefTracksDeadline, LockoutDurable, SavePending,
       lockoutVars

LEMMA Retiring == IInv /\ RetireRecord => IInv'
  <1> SUFFICES ASSUME IInv, RetireRecord PROVE IInv'
    OBVIOUS
  <1>1. TypeOK /\ cycle \in Cycle /\ ~(lockoutUntil > 0)
    BY DEF IInv, TypeOK, CycleInv, RetireRecord
  <1>2. stage' \in Stage /\ cycle' \in Cycle
    BY <1>1, GotoType DEF RetireRecord, Stage
  <1>3. TypeOK'
    BY <1>1, <1>2 DEF RetireRecord, EraseRecord, TypeOK, lockoutVars, queueVars,
       appVars, history
  <1>4. QED
    BY <1>1, <1>3 DEF IInv, RetireRecord, Goto, CycleInv, MatchOnlyWhenOpen,
       BeliefTracksDeadline, LockoutDurable, lockoutVars

LEMMA EmittingCleared == IInv /\ EmitCleared => IInv'
  <1> SUFFICES ASSUME IInv, EmitCleared PROVE IInv'
    OBVIOUS
  <1>1. TypeOK /\ cycle \in Cycle
    BY DEF IInv, TypeOK
  <1>2. /\ Goto(AfterClear(cycle), cycle)
        /\ (Emit("LockoutCleared") /\ UNCHANGED missed) \/ NotReady({"clear"})
        /\ {"clear"} \in SUBSET Skipped /\ "LockoutCleared" \in Event
    BY DEF EmitCleared, Skipped, Event
  <1>3. stage' \in Stage /\ cycle' \in Cycle
    BY <1>1, <1>2, AfterType, GotoType DEF Stage
  <1>a. /\ routerQueue' \in Seq(Event) /\ Len(routerQueue') <= QueueDepth
        /\ appQueue' \in Seq(Event) /\ Len(appQueue') <= QueueDepth
        /\ dropped' \in BOOLEAN /\ missed' \subseteq Skipped
    BY <1>1, <1>2, EmitOrSkipType
  <1>4. TypeOK'
    BY <1>1, <1>3, <1>a DEF EmitCleared, TypeOK, lockoutVars, recordVars, appVars
  <1>5. QED
    BY <1>2, <1>4 DEF IInv, EmitCleared, Goto, AfterClear, CycleInv,
       MatchOnlyWhenOpen, BeliefTracksDeadline, LockoutDurable, SavePending,
       lockoutVars, recordVars

LEMMA Scanning == IInv /\ Scan => IInv'
  <1> SUFFICES ASSUME IInv, Scan PROVE IInv'
    OBVIOUS
  <1>1. PICK r \in ScanResult : Goto("account", [cycle EXCEPT !.scan = r])
    BY DEF Scan
  <1>2. TypeOK /\ [cycle EXCEPT !.scan = r] \in Cycle
    BY DEF IInv, TypeOK, Cycle
  <1>3. stage' \in Stage /\ cycle' \in Cycle
    BY <1>1, <1>2, GotoType DEF Stage
  <1>4. TypeOK'
    BY <1>2, <1>3 DEF Scan, TypeOK, lockoutVars, recordVars, queueVars, appVars,
       history
  <1>5. QED
    BY <1>1, <1>4 DEF IInv, Scan, Goto, CycleInv, MatchOnlyWhenOpen,
       BeliefTracksDeadline, LockoutDurable, SavePending, lockoutVars,
       recordVars, history

\* Counting a failure arms the lockout and the belief together, and leaves
\* the record to the save that follows.
LEMMA Accounting == IInv /\ AccountFailure => IInv'
  <1> SUFFICES ASSUME IInv, AccountFailure PROVE IInv'
    OBVIOUS
  <1> DEFINE fresh == windowStart = 0 \/ cycle.at - windowStart > FailWindow
             count == (IF fresh THEN 0 ELSE failCount) + 1
             lock  == count >= FailThreshold
             c     == [cycle EXCEPT !.locked = lock]
  <1>1. /\ TypeOK /\ cycle \in Cycle /\ cycle.at \in Uptime
        /\ lockoutUntil = 0 /\ ~persistArmed
    BY DEF IInv, TypeOK, Cycle, MatchOnlyWhenOpen, AccountFailure,
       BeliefTracksDeadline
  <1>2. /\ failCount' = IF lock THEN 0 ELSE count
        /\ windowStart' = IF lock THEN 0
                          ELSE IF fresh THEN cycle.at ELSE windowStart
        /\ lockoutUntil' = IF lock THEN cycle.at + LockoutTime ELSE lockoutUntil
        /\ persistArmed' = (persistArmed \/ lock)
        /\ fails' = IF lock THEN {} ELSE fails \cup {cycle.at}
        /\ Goto("failed", c)
        /\ cooldownUntil' = cycle.at + Cooldown
    BY DEF AccountFailure, WindowOver, Locks
  <1>3. count \in Nat /\ lock \in BOOLEAN
    BY <1>1, LockoutAssumption DEF TypeOK
  <1>4. c \in Cycle /\ (c.locked <=> lock)
    BY <1>1, <1>3 DEF Cycle
  <1>5. stage' \in Stage /\ cycle' \in Cycle /\ stage' = "failed" /\ cycle' = c
    <2> HIDE DEF c
    <2>1. QED
      BY <1>2, <1>4, GotoType DEF Stage, Goto
  <1>6. TypeOK'
    <2>1. /\ lockoutUntil' \in Deadline /\ cooldownUntil' \in Deadline
          /\ windowStart' \in Uptime /\ failCount' \in 0 .. FailThreshold - 1
      <3>1. count \in Nat /\ (~lock => count \in 0 .. FailThreshold - 1)
        BY <1>1, <1>3, LockoutAssumption DEF TypeOK
      <3> HIDE DEF fresh, count, lock
      <3>2. failCount' \in 0 .. FailThreshold - 1
        BY <1>2, <3>1, LockoutAssumption
      <3>3. windowStart' \in Uptime
        BY <1>1, <1>2, LockoutAssumption DEF TypeOK, Uptime
      <3>4. lockoutUntil' \in Deadline /\ cooldownUntil' \in Deadline
        BY <1>1, <1>2, LockoutAssumption DEF Deadline, Uptime
      <3>5. QED
        BY <3>2, <3>3, <3>4
    <2>2. persistArmed' \in BOOLEAN /\ fails' \in SUBSET Uptime
      BY <1>1, <1>2 DEF TypeOK
    <2>3. QED
      BY <1>1, <1>5, <2>1, <2>2 DEF AccountFailure, TypeOK, queueVars, appVars
  <1>7. lockoutUntil' > 0 <=> lock
    BY <1>1, <1>2, LockoutAssumption DEF Uptime
  <1>8. persistArmed' <=> lock
    BY <1>1, <1>2
  <1> HIDE DEF c, lock
  <1>9. BeliefTracksDeadline' /\ LockoutDurable'
    BY <1>4, <1>5, <1>7, <1>8 DEF BeliefTracksDeadline, LockoutDurable, SavePending
  <1>10. CycleInv' /\ MatchOnlyWhenOpen'
    BY <1>5 DEF CycleInv, MatchOnlyWhenOpen
  <1>11. QED
    BY <1>6, <1>9, <1>10 DEF IInv

LEMMA Matching == IInv /\ AccountMatch => IInv'
  <1> SUFFICES ASSUME IInv, AccountMatch PROVE IInv'
    OBVIOUS
  <1> DEFINE c == [cycle EXCEPT !.heal = persistArmed]
  <1>1. /\ TypeOK /\ c \in Cycle /\ cycle.at \in Uptime
        /\ lockoutUntil = 0 /\ ~(lockoutUntil' > 0)
    BY DEF IInv, TypeOK, Cycle, MatchOnlyWhenOpen, AccountMatch
  <1>2. Goto("match", c)
    BY DEF AccountMatch
  <1>3. stage' \in Stage /\ cycle' \in Cycle /\ stage' = "match"
    <2> HIDE DEF c
    <2>1. QED
      BY <1>1, <1>2, GotoType DEF Stage, Goto
  <1>4. cooldownUntil' \in Deadline /\ 0 \in Uptime /\ 0 \in 0 .. FailThreshold - 1
    BY <1>1, LockoutAssumption DEF AccountMatch, Uptime, Deadline
  <1>5. TypeOK'
    BY <1>1, <1>3, <1>4 DEF AccountMatch, TypeOK, queueVars, appVars
  <1>6. QED
    BY <1>1, <1>3, <1>5 DEF AccountMatch, IInv, CycleInv, MatchOnlyWhenOpen,
       BeliefTracksDeadline, LockoutDurable

LEMMA Erring == IInv /\ AccountError => IInv'
  <1> SUFFICES ASSUME IInv, AccountError PROVE IInv'
    OBVIOUS
  <1>1. TypeOK /\ cycle \in Cycle /\ cycle.at \in Uptime /\ lockoutUntil = 0
    BY DEF IInv, TypeOK, Cycle, MatchOnlyWhenOpen, AccountError
  <1>2. stage' \in Stage /\ cycle' \in Cycle /\ stage' = "idle"
    BY <1>1, GotoType DEF AccountError, Goto, Stage
  <1>3. cooldownUntil' \in Deadline
    BY <1>1, LockoutAssumption DEF AccountError, Uptime, Deadline
  <1>4. TypeOK'
    BY <1>1, <1>2, <1>3 DEF AccountError, TypeOK, recordVars, queueVars, appVars,
       history
  <1>5. ~(lockoutUntil' > 0) /\ (persistArmed' <=> persistArmed)
    BY <1>1 DEF AccountError, recordVars
  <1>6. QED
    BY <1>1, <1>2, <1>4, <1>5 DEF AccountError, IInv, CycleInv,
       MatchOnlyWhenOpen, BeliefTracksDeadline, LockoutDurable

LEMMA LockTimingOut == IInv /\ AccountLockTimeout => IInv'
  <1> SUFFICES ASSUME IInv, AccountLockTimeout PROVE IInv'
    OBVIOUS
  <1>1. TypeOK /\ cycle \in Cycle /\ lockoutUntil = 0
    BY DEF IInv, TypeOK, MatchOnlyWhenOpen, AccountLockTimeout
  <1>2. stage' \in Stage /\ cycle' \in Cycle /\ stage' \in {"match", "idle"}
    BY <1>1, GotoType DEF AccountLockTimeout, Goto, Stage
  <1>3. TypeOK'
    BY <1>1, <1>2 DEF AccountLockTimeout, TypeOK, lockoutVars, recordVars,
       queueVars, appVars, history
  <1>4. ~(lockoutUntil' > 0) /\ lockoutUntil' = 0 /\ (persistArmed' <=> persistArmed)
    BY <1>1 DEF AccountLockTimeout, lockoutVars, recordVars
  <1>5. QED
    BY <1>1, <1>2, <1>3, <1>4 DEF IInv, CycleInv, MatchOnlyWhenOpen,
       BeliefTracksDeadline, LockoutDurable

\* A cycle that returns here with a lockout armed leaves it unsaved.
LEMMA EmittingFailed == IInv /\ EmitMatchFailed => IInv'
  <1> SUFFICES ASSUME IInv, EmitMatchFailed PROVE IInv'
    OBVIOUS
  <1> DEFINE lost == IF cycle.locked THEN {"entry"} ELSE {}
  <1>1. /\ TypeOK /\ cycle \in Cycle
        /\ (Emit("MatchResult") /\ UNCHANGED missed) \/ NotReady(lost)
        /\ lost \in SUBSET Skipped /\ "MatchResult" \in Event
    BY DEF IInv, TypeOK, EmitMatchFailed, Skipped, Event
  <1>2. /\ stage' \in Stage /\ cycle' \in Cycle
        /\ stage' \in {"save", "idle"}
        /\ unsaved' \in BOOLEAN
        /\ unsaved => unsaved'
        /\ stage' = "save" \/ ~cycle.locked \/ unsaved'
    <2>1. CASE Goto(AfterFailed(cycle), cycle) /\ UNCHANGED unsaved
      BY <1>1, <2>1, GotoType DEF Goto, AfterFailed, Stage, TypeOK
    <2>2. CASE Goto("idle", cycle) /\ unsaved' = (unsaved \/ cycle.locked)
      BY <1>1, <2>2, GotoType DEF Goto, Stage, TypeOK, Cycle
    <2>3. QED
      BY <2>1, <2>2 DEF EmitMatchFailed
  <1>a. /\ routerQueue' \in Seq(Event) /\ Len(routerQueue') <= QueueDepth
        /\ appQueue' \in Seq(Event) /\ Len(appQueue') <= QueueDepth
        /\ dropped' \in BOOLEAN /\ missed' \subseteq Skipped
    <2> HIDE DEF lost
    <2> QED BY <1>1, EmitOrSkipType
  <1>3. TypeOK'
    BY <1>1, <1>2, <1>a DEF EmitMatchFailed, TypeOK, lockoutVars, recordVars, appVars
  <1>4. SavePending => SavePending' \/ unsaved'
    BY <1>2 DEF EmitMatchFailed, SavePending
  <1>5. QED
    BY <1>2, <1>3, <1>4 DEF EmitMatchFailed, IInv, CycleInv, MatchOnlyWhenOpen,
       BeliefTracksDeadline, LockoutDurable, lockoutVars, recordVars

\* After the save the lockout is on record, or the failure is.
LEMMA Saving == IInv /\ SaveRecord => IInv'
  <1> SUFFICES ASSUME IInv, SaveRecord PROVE IInv'
    OBVIOUS
  <1>1. TypeOK /\ cycle \in Cycle
    BY DEF IInv, TypeOK
  <1>2. stage' \in Stage /\ cycle' \in Cycle /\ stage' = "lockout"
    BY <1>1, GotoType DEF SaveRecord, Goto, Stage
  <1>3. TypeOK'
    BY <1>1, <1>2 DEF SaveRecord, TypeOK, lockoutVars, queueVars, appVars
  <1>4. record' \/ unsaved'
    BY DEF SaveRecord
  <1>5. QED
    BY <1>2, <1>3, <1>4 DEF SaveRecord, IInv, CycleInv, MatchOnlyWhenOpen,
       BeliefTracksDeadline, LockoutDurable, lockoutVars

LEMMA EmittingLockout == IInv /\ EmitLockout => IInv'
  <1> SUFFICES ASSUME IInv, EmitLockout PROVE IInv'
    OBVIOUS
  <1>1. /\ TypeOK /\ cycle \in Cycle
        /\ (Emit("LockoutEntered") /\ UNCHANGED missed) \/ NotReady({"entry"})
        /\ {"entry"} \in SUBSET Skipped /\ "LockoutEntered" \in Event
    BY DEF IInv, TypeOK, EmitLockout, Skipped, Event
  <1>2. stage' \in Stage /\ cycle' \in Cycle /\ stage' = "idle"
    BY <1>1, GotoType DEF EmitLockout, Goto, Stage
  <1>a. /\ routerQueue' \in Seq(Event) /\ Len(routerQueue') <= QueueDepth
        /\ appQueue' \in Seq(Event) /\ Len(appQueue') <= QueueDepth
        /\ dropped' \in BOOLEAN /\ missed' \subseteq Skipped
    BY <1>1, EmitOrSkipType
  <1>3. TypeOK'
    BY <1>1, <1>2, <1>a DEF EmitLockout, TypeOK, lockoutVars, recordVars, appVars
  <1>4. ~SavePending
    BY DEF EmitLockout, SavePending
  <1>5. QED
    BY <1>2, <1>3, <1>4 DEF EmitLockout, IInv, CycleInv, MatchOnlyWhenOpen,
       BeliefTracksDeadline, LockoutDurable, lockoutVars, recordVars

LEMMA Reporting == IInv /\ ReportMatch => IInv'
  <1> SUFFICES ASSUME IInv, ReportMatch PROVE IInv'
    OBVIOUS
  <1>1. TypeOK /\ cycle \in Cycle /\ lockoutUntil = 0
    BY DEF IInv, TypeOK, MatchOnlyWhenOpen, ReportMatch
  <1>2. stage' \in Stage /\ cycle' \in Cycle /\ stage' = "idle"
    BY <1>1, GotoType DEF ReportMatch, Goto, Stage
  <1>3. /\ routerQueue' \in Seq(Event) /\ Len(routerQueue') <= QueueDepth
        /\ appQueue' \in Seq(Event) /\ Len(appQueue') <= QueueDepth
        /\ dropped' \in BOOLEAN
    <2>1. CASE UNCHANGED <<queueVars, dropped>>
      BY <1>1, <2>1 DEF TypeOK, queueVars
    <2>2. CASE Emit("MatchResult")
      BY <1>1, <2>2, EmitType DEF Event
    <2>3. QED
      BY <2>1, <2>2 DEF ReportMatch
  <1>4. record' \in BOOLEAN
    BY <1>1 DEF ReportMatch, EraseRecord, TypeOK
  <1>5. TypeOK'
    BY <1>1, <1>2, <1>3, <1>4 DEF ReportMatch, TypeOK, lockoutVars, appVars
  <1>6. ~(lockoutUntil' > 0) /\ (persistArmed' <=> persistArmed)
    BY <1>1 DEF ReportMatch, lockoutVars
  <1>7. QED
    BY <1>1, <1>2, <1>5, <1>6 DEF IInv, CycleInv, MatchOnlyWhenOpen,
       BeliefTracksDeadline, LockoutDurable

-----------------------------------------------------------------------------
(* The queues, the reset and time leave the cycle alone or end it.         *)

LEMMA Dispatching == IInv /\ RouterDispatch => IInv'
  <1> SUFFICES ASSUME IInv, RouterDispatch PROVE IInv'
    OBVIOUS
  <1>1. TypeOK
    BY DEF IInv
  <1>2. /\ Tail(routerQueue) \in Seq(Event)
        /\ Len(Tail(routerQueue)) <= QueueDepth
        /\ Head(routerQueue) \in Event
    BY <1>1, DequeuedType DEF RouterDispatch, TypeOK
  <1>3. appQueue' \in Seq(Event) /\ Len(appQueue') <= QueueDepth
    <2>1. appQueue \in Seq(Event) /\ Len(appQueue) \in Nat
      BY <1>1 DEF TypeOK
    <2>2. CASE /\ Len(appQueue) < QueueDepth
               /\ appQueue' = Enqueued(appQueue, Head(routerQueue))
      <3>1. /\ appQueue' \in Seq(Event)
            /\ Len(appQueue') = Len(appQueue) + 1
        BY <1>2, <2>1, <2>2, EnqueuedType
      <3>2. QED
        BY <2>1, <2>2, <3>1, LockoutAssumption
    <2>3. CASE UNCHANGED appQueue
      BY <1>1, <2>3 DEF TypeOK
    <2>4. QED
      BY <2>2, <2>3 DEF RouterDispatch
  <1>4. TypeOK'
    BY <1>1, <1>2, <1>3 DEF RouterDispatch, TypeOK, lockoutVars, recordVars, appVars
  <1>5. QED
    BY <1>4 DEF RouterDispatch, IInv, CycleInv, MatchOnlyWhenOpen,
       BeliefTracksDeadline, LockoutDurable, SavePending, lockoutVars, recordVars

LEMMA Handling == IInv /\ AppHandle => IInv'
  <1> SUFFICES ASSUME IInv, AppHandle PROVE IInv'
    OBVIOUS
  <1>1. TypeOK
    BY DEF IInv
  <1>2. Tail(appQueue) \in Seq(Event) /\ Len(Tail(appQueue)) <= QueueDepth
    BY <1>1, DequeuedType DEF AppHandle, TypeOK
  <1>3. alarm' \in BOOLEAN
    BY <1>1 DEF AppHandle, TypeOK
  <1>4. locksSeen' \in Nat /\ clearsSeen' \in Nat
    BY <1>1 DEF AppHandle, TypeOK
  <1>5. TypeOK'
    BY <1>1, <1>2, <1>3, <1>4
    DEF AppHandle, TypeOK, lockoutVars, recordVars, history
  <1>6. QED
    BY <1>5 DEF AppHandle, IInv, CycleInv, MatchOnlyWhenOpen,
       BeliefTracksDeadline, LockoutDurable, SavePending, lockoutVars,
       recordVars, history

\* A boot arms the lockout exactly when it reads an armed record.
LEMMA Resetting == IInv /\ Reset => IInv'
  <1> SUFFICES ASSUME IInv, Reset PROVE IInv'
    OBVIOUS
  <1>1. PICK readable \in BOOLEAN :
          /\ lockoutUntil' = IF record /\ readable THEN 1 + LockoutTime ELSE 0
          /\ persistArmed' = (record /\ readable)
          /\ announcePending' = (record /\ readable)
    BY DEF Reset, Restore
  <1>2. TypeOK /\ NoCycle \in Cycle /\ <<>> \in Seq(Event) /\ Len(<<>>) = 0
    BY LockoutAssumption DEF IInv, NoCycle, NewCycle, Cycle, Uptime, ScanResult
  <1>3. /\ now' \in 1 .. MaxTime /\ lockoutUntil' \in Deadline
        /\ windowStart' \in Uptime /\ cooldownUntil' \in Deadline
        /\ failCount' \in 0 .. FailThreshold - 1
        /\ locksSeen' \in Nat /\ clearsSeen' \in Nat /\ boots' \in Nat
    BY <1>1, <1>2, LockoutAssumption DEF Reset, TypeOK, Uptime, Deadline
  <1>4. /\ routerQueue' \in Seq(Event) /\ Len(routerQueue') <= QueueDepth
        /\ appQueue' \in Seq(Event) /\ Len(appQueue') <= QueueDepth
    BY <1>2, LockoutAssumption DEF Reset
  <1>5. /\ stage' \in Stage /\ cycle' \in Cycle /\ fails' \in SUBSET Uptime
        /\ persistArmed' \in BOOLEAN /\ announcePending' \in BOOLEAN
    BY <1>1, <1>2 DEF Reset, Stage
  <1>6. TypeOK'
    BY <1>2, <1>3, <1>4, <1>5 DEF Reset, TypeOK
  <1>7. lockoutUntil' > 0 <=> record /\ readable
    BY <1>1, LockoutAssumption
  <1>8. QED
    BY <1>1, <1>6, <1>7 DEF Reset, IInv, CycleInv, MatchOnlyWhenOpen,
       BeliefTracksDeadline, LockoutDurable

LEMMA Ticking == IInv /\ Tick => IInv'
  <1> SUFFICES ASSUME IInv, Tick PROVE IInv'
    OBVIOUS
  <1>1. now' \in 1 .. MaxTime
    BY LockoutAssumption DEF IInv, Tick, TypeOK
  <1>2. QED
    BY <1>1 DEF Tick, IInv, TypeOK, CycleInv, MatchOnlyWhenOpen,
       BeliefTracksDeadline, LockoutDurable, SavePending, lockoutVars,
       recordVars, queueVars, appVars, history

\* Every step preserves the invariant.
LEMMA NextInv == IInv /\ [Next]_vars => IInv'
  <1> SUFFICES ASSUME IInv, [Next]_vars PROVE IInv'
    OBVIOUS
  <1>1. CASE MatchStep
    BY <1>1, StartCycleInv, Announcing, Retiring, EmittingCleared, Scanning,
       Accounting, Matching, Erring, LockTimingOut, EmittingFailed, Saving,
       EmittingLockout, Reporting DEF MatchStep
  <1>2. CASE UNCHANGED vars
    BY <1>2 DEF vars, IInv, TypeOK, CycleInv, MatchOnlyWhenOpen,
       BeliefTracksDeadline, LockoutDurable, SavePending, lockoutVars,
       recordVars, queueVars, appVars, history
  <1>3. QED
    BY <1>1, <1>2, Dispatching, Handling, Resetting, Ticking DEF Next

-----------------------------------------------------------------------------
(* How far ahead the deadline can be.                                      *)

\* No cycle was opened in the future, and no lockout ends later than a full
\* lockout time from now.
DeadlineInv == cycle.at <= now /\ lockoutUntil <= now + LockoutTime

\* No step moves the deadline beyond a full lockout time.
LEMMA DeadlineStep == IInv /\ DeadlineInv /\ [Next]_vars => DeadlineInv'
  <1> SUFFICES ASSUME IInv, DeadlineInv, [Next]_vars PROVE DeadlineInv'
    OBVIOUS
  <1>1. /\ now \in 1 .. MaxTime /\ cycle \in Cycle /\ cycle.at \in Uptime
        /\ lockoutUntil \in Deadline /\ LockoutTime \in Nat /\ MaxTime \in Nat
        /\ Cooldown \in Nat
    BY LockoutAssumption DEF IInv, TypeOK, Cycle
  <1>2. NoCycle.at = 0
    BY DEF NoCycle, NewCycle
  <1>3. ASSUME UNCHANGED <<now, lockoutUntil>>, NEW st, Goto(st, cycle)
        PROVE  DeadlineInv'
    BY <1>1, <1>2, <1>3 DEF DeadlineInv, Goto
  <1>4. CASE StartCycle
    <2>1. now' = now /\ lockoutUntil' \in {0, lockoutUntil}
      BY <1>4 DEF StartCycle
    <2>2. cycle'.at \in {0, now}
      BY <1>2, <1>4 DEF StartCycle, Goto, NewCycle
    <2>3. QED
      BY <1>1, <2>1, <2>2 DEF DeadlineInv, Uptime, Deadline
  <1>5. CASE \/ Announce \/ RetireRecord \/ EmitCleared \/ AccountError
             \/ AccountLockTimeout \/ EmitMatchFailed \/ SaveRecord
             \/ EmitLockout \/ ReportMatch
    BY <1>3, <1>5 DEF Announce, RetireRecord, EmitCleared, AccountError,
       AccountLockTimeout, EmitMatchFailed, SaveRecord, EmitLockout,
       ReportMatch, lockoutVars
  <1>6. CASE Scan
    <2>1. cycle'.at = cycle.at /\ UNCHANGED <<now, lockoutUntil>>
      BY <1>1, <1>6 DEF Scan, Goto, Cycle, lockoutVars
    <2>2. QED
      BY <2>1 DEF DeadlineInv
  <1>7. CASE AccountFailure
    <2>1. cycle'.at = cycle.at /\ UNCHANGED now
      BY <1>1, <1>7 DEF AccountFailure, Goto, Cycle
    <2>2. lockoutUntil' \in {lockoutUntil, cycle.at + LockoutTime}
      BY <1>7 DEF AccountFailure
    <2>3. QED
      BY <1>1, <2>1, <2>2 DEF DeadlineInv, Uptime, Deadline
  <1>8. CASE AccountMatch
    <2>1. cycle'.at = cycle.at /\ UNCHANGED <<now, lockoutUntil>>
      BY <1>1, <1>8 DEF AccountMatch, Goto, Cycle
    <2>2. QED
      BY <2>1 DEF DeadlineInv
  <1>9. CASE Reset
    <2>1. now' = 1 /\ lockoutUntil' \in {0, 1 + LockoutTime} /\ cycle' = NoCycle
      BY <1>9 DEF Reset, Restore
    <2>2. QED
      BY <1>1, <1>2, <2>1 DEF DeadlineInv
  <1>10. CASE Tick
    <2>1. now' = now + 1 /\ UNCHANGED <<lockoutUntil, cycle>>
      BY <1>10 DEF Tick, lockoutVars
    <2>2. QED
      BY <1>1, <2>1 DEF DeadlineInv, Uptime, Deadline
  <1>11. CASE RouterDispatch \/ AppHandle \/ UNCHANGED vars
    <2>1. UNCHANGED <<now, lockoutUntil, cycle>>
      BY <1>11 DEF RouterDispatch, AppHandle, vars, lockoutVars
    <2>2. QED
      BY <2>1 DEF DeadlineInv
  <1>12. QED
    BY <1>4, <1>5, <1>6, <1>7, <1>8, <1>9, <1>10, <1>11 DEF Next, MatchStep

-----------------------------------------------------------------------------
(* How many failures a window can hold.                                    *)

\* The failures of the running window, and those before it from t on.
InWindow(F, w)        == {u \in F : w <= u}
BeforeWindow(F, t, w) == {u \in F : t <= u /\ u < w}

\* What the failures since the last clearing look like.  The count is of the
\* running window; a window that ended had at most FailThreshold - 1 failures,
\* and its first one is more than FailWindow before the running window.
WindowInv ==
  /\ lockoutUntil > 0 => fails = {}
  /\ IF fails = {} THEN windowStart = 0 ELSE windowStart \in fails
  /\ stage # "idle" => cycle.at > 0
  /\ \A t \in fails : 0 < t /\ t <= now /\ (stage # "idle" => t <= cycle.at)
  /\ Cardinality(InWindow(fails, windowStart)) <= failCount
  /\ \A t \in fails :
       t < windowStart /\ windowStart <= t + FailWindow
         => Cardinality(BeforeWindow(fails, t, windowStart)) <= FailThreshold - 2
  /\ FailureBudget

\* Sets of times are finite, and a smaller set is not larger in number.
LEMMA TimesFinite ==
  ASSUME NEW F \in SUBSET Uptime, NEW G \in SUBSET F
  PROVE  /\ IsFiniteSet(F) /\ IsFiniteSet(G)
         /\ Cardinality(F) \in Nat /\ Cardinality(G) \in Nat
         /\ Cardinality(G) <= Cardinality(F)
  <1>1. IsFiniteSet(Uptime)
    BY FS_Interval, LockoutAssumption DEF Uptime
  <1>2. IsFiniteSet(F)
    BY <1>1, FS_Subset
  <1>3. QED
    BY <1>2, FS_Subset, FS_CardinalityType

\* A window that ends held at most FailThreshold - 1 failures: leaving out its
\* first one, FailThreshold - 2 are close enough to the next window.
LEMMA EndedWindow ==
  ASSUME NEW F \in SUBSET Uptime, NEW w \in F, NEW n \in 0 .. FailThreshold - 1,
         Cardinality(InWindow(F, w)) <= n,
         NEW at \in Uptime, at - w > FailWindow,
         NEW t \in F, at <= t + FailWindow
  PROVE  Cardinality(BeforeWindow(F, t, at)) <= FailThreshold - 2
  <1> DEFINE W == InWindow(F, w)
             B == BeforeWindow(F, t, at)
  <1>1. w \in Nat /\ t \in Nat /\ at \in Nat /\ \A u \in F : u \in Nat
    BY DEF Uptime
  <1>2. W \in SUBSET Uptime /\ w \in W
    <2>1. \A u : u \in W <=> u \in F /\ w <= u
      BY DEF InWindow
    <2>2. w <= w
      BY <1>1
    <2>3. QED
      BY <2>1, <2>2
  <1>3. B \in SUBSET (W \ {w})
    <2>1. ASSUME NEW u \in B PROVE u \in F /\ w < u
      BY <1>1, LockoutAssumption DEF BeforeWindow
    <2>2. QED
      <3>1. \A u : u \in W <=> u \in F /\ w <= u
        BY DEF InWindow
      <3>2. ASSUME NEW u \in B PROVE u \in F /\ w <= u /\ u # w
        <4>1. u \in F /\ w < u
          BY <2>1
        <4>2. u \in Nat
          BY <1>1, <4>1
        <4>3. QED
          BY <1>1, <4>1, <4>2
      <3> HIDE DEF W, B
      <3>3. QED
        BY <3>1, <3>2
  <1>4. Cardinality(W \ {w}) = Cardinality(W) - 1 /\ Cardinality(W) \in Nat
    BY <1>2, TimesFinite, FS_RemoveElement
  <1>5. Cardinality(B) \in Nat /\ Cardinality(B) <= Cardinality(W \ {w})
    BY <1>2, <1>3, TimesFinite
  <1>6. QED
    BY <1>4, <1>5, LockoutAssumption

\* From any failure on, a FailWindow reaches the failures of one ended window
\* and of the running one, or it ended before the running window began.
LEMMA BudgetOfTwoWindows ==
  ASSUME NEW F \in SUBSET Uptime, NEW at \in Uptime, \A u \in F : u <= at,
         NEW w \in Uptime, w <= at,
         NEW n \in 1 .. FailThreshold - 1,
         Cardinality(InWindow(F \cup {at}, w)) <= n,
         \A t \in F \cup {at} :
           t < w /\ w <= t + FailWindow
             => Cardinality(BeforeWindow(F \cup {at}, t, w)) <= FailThreshold - 2,
         \A t \in F : Cardinality({u \in F : t <= u /\ u <= t + FailWindow})
                        <= (FailThreshold - 2) + (FailThreshold - 1),
         NEW t \in F \cup {at}
  PROVE  Cardinality({u \in F \cup {at} : t <= u /\ u <= t + FailWindow})
           <= (FailThreshold - 2) + (FailThreshold - 1)
  <1> DEFINE G == F \cup {at}
             S == {u \in G : t <= u /\ u <= t + FailWindow}
             W == InWindow(G, w)
             B == BeforeWindow(G, t, w)
  <1>1. /\ G \in SUBSET Uptime /\ W \in SUBSET Uptime /\ B \in SUBSET Uptime
        /\ S \in SUBSET Uptime /\ t \in Uptime
    BY DEF InWindow, BeforeWindow
  <1>2. /\ IsFiniteSet(W) /\ IsFiniteSet(B) /\ IsFiniteSet(S)
        /\ Cardinality(W) \in Nat /\ Cardinality(B) \in Nat
        /\ Cardinality(S) \in Nat
    BY <1>1, TimesFinite
  <1>3. CASE w <= t
    <2>1. S \in SUBSET W
      BY <1>1, <1>3, LockoutAssumption DEF InWindow, Uptime
    <2>2. Cardinality(S) <= Cardinality(W)
      BY <1>1, <2>1, TimesFinite
    <2>3. QED
      BY <1>2, <2>2, LockoutAssumption
  <1>4. CASE t < w /\ w <= t + FailWindow
    <2>1. S \in SUBSET (B \cup W)
      BY <1>1, LockoutAssumption DEF InWindow, BeforeWindow, Uptime
    <2>2. B \cap W = {}
      BY <1>1, LockoutAssumption DEF InWindow, BeforeWindow, Uptime
    <2>3. Cardinality(B \cup W) = Cardinality(B) + Cardinality(W)
      <3>1. Cardinality(B \cap W) = 0
        BY <2>2, FS_EmptySet
      <3> HIDE DEF B, W
      <3>2. Cardinality(B \cup W)
              = Cardinality(B) + Cardinality(W) - Cardinality(B \cap W)
        BY <1>2, FS_Union
      <3>3. QED
        BY <1>2, <3>1, <3>2
    <2>4. Cardinality(S) <= Cardinality(B \cup W)
      BY <1>1, <2>1, TimesFinite
    <2>5. Cardinality(B) <= FailThreshold - 2
      BY <1>4
    <2>6. QED
      BY <1>2, <2>3, <2>4, <2>5, LockoutAssumption
  <1>5. CASE t + FailWindow < w
    <2>1. t \in F /\ S = {u \in F : t <= u /\ u <= t + FailWindow}
      BY <1>1, <1>5, LockoutAssumption DEF Uptime
    <2>2. QED
      BY <2>1
  <1>6. QED
    BY <1>1, <1>3, <1>4, <1>5, LockoutAssumption DEF Uptime

\* A step that leaves the count, the window and the lockout alone.
LEMMA WindowFrame ==
  ASSUME IInv, WindowInv, UNCHANGED <<lockoutUntil, failCount, windowStart, fails>>,
         now' \in Nat, now <= now',
         stage' # "idle" => cycle'.at > 0 /\ \A t \in fails : t <= cycle'.at
  PROVE  WindowInv'
  <1>1. now \in Nat /\ \A t \in fails : t \in Nat
    BY LockoutAssumption DEF IInv, TypeOK, Uptime
  <1>2. FailureBudget'
    BY DEF WindowInv, FailureBudget, FailsFrom
  <1>3. \A t \in fails' : 0 < t /\ t <= now' /\ (stage' # "idle" => t <= cycle'.at)
    BY <1>1 DEF WindowInv
  <1>4. QED
    BY <1>2, <1>3 DEF WindowInv, InWindow, BeforeWindow

\* Clearing the count ends every window.
LEMMA WindowCleared ==
  ASSUME IInv', fails' = {}, windowStart' = 0, stage' # "idle" => cycle'.at > 0
  PROVE  WindowInv'
  <1>1. InWindow(fails, windowStart)' = {}
    BY DEF InWindow
  <1>2. Cardinality(InWindow(fails, windowStart)') = 0
    BY <1>1, FS_EmptySet
  <1>3. failCount' \in Nat
    BY LockoutAssumption DEF IInv, TypeOK
  <1>4. FailureBudget'
    BY DEF FailureBudget
  <1>5. QED
    BY <1>2, <1>3, <1>4 DEF WindowInv

\* A counted failure that does not lock joins the running window or starts
\* the next one.
LEMMA WindowCounts ==
  ASSUME IInv, IInv', DeadlineInv, WindowInv, AccountFailure,
         ~Locks((IF WindowOver(cycle.at) THEN 0 ELSE failCount) + 1)
  PROVE  WindowInv'
  <1> DEFINE at    == cycle.at
             fresh == windowStart = 0 \/ at - windowStart > FailWindow
             n     == (IF fresh THEN 0 ELSE failCount) + 1
             w     == IF fresh THEN at ELSE windowStart
  <1>1. /\ fails \in SUBSET Uptime /\ failCount \in 0 .. FailThreshold - 1
        /\ windowStart \in Uptime /\ at \in Uptime /\ at > 0 /\ now \in 1 .. MaxTime
        /\ lockoutUntil = 0 /\ \A u \in fails : 0 < u /\ u <= at /\ u <= now
    BY DEF IInv, TypeOK, Cycle, WindowInv, AccountFailure, MatchOnlyWhenOpen
  <1>2. /\ n \in 1 .. FailThreshold - 1
        /\ failCount' = n /\ windowStart' = w /\ fails' = fails \cup {at}
        /\ lockoutUntil' = 0 /\ now' = now /\ cycle'.at = at
    <2>1. ~(n >= FailThreshold)
      BY DEF WindowOver, Locks
    <2>2. n \in 1 .. FailThreshold - 1
      BY <1>1, <2>1, LockoutAssumption
    <2>3. failCount' = n /\ windowStart' = w /\ fails' = fails \cup {at}
          /\ lockoutUntil' = lockoutUntil /\ now' = now
      BY DEF AccountFailure, WindowOver, Locks
    <2>4. cycle'.at = at
      BY DEF AccountFailure, Goto, IInv, TypeOK, Cycle
    <2>5. QED
      BY <1>1, <2>2, <2>3, <2>4
  <1>3. w \in Uptime /\ w <= at /\ 0 < w /\ w \in fails \cup {at}
    BY <1>1, LockoutAssumption DEF WindowInv, Uptime
  <1>4. Cardinality(InWindow(fails \cup {at}, w)) <= n
    <2>1. CASE fresh
      <3>1. InWindow(fails \cup {at}, at) = {at}
        <4>1. at \in Nat /\ \A u \in fails : u \in Nat
          BY <1>1 DEF Uptime
        <4>2. \A u \in fails \cup {at} : at <= u <=> u = at
          BY <1>1, <4>1
        <4> HIDE DEF at
        <4>3. QED
          BY <4>2, Zenon DEF InWindow
      <3>2. QED
        BY <2>1, <3>1, FS_Singleton
    <2>2. CASE ~fresh
      <3>1. InWindow(fails \cup {at}, windowStart)
              = InWindow(fails, windowStart) \cup {at}
        BY <1>3, <2>2 DEF InWindow
      <3>2. /\ IsFiniteSet(InWindow(fails, windowStart))
            /\ Cardinality(InWindow(fails, windowStart)) \in Nat
        BY <1>1, TimesFinite DEF InWindow
      <3>3. \A S, x : IsFiniteSet(S) /\ Cardinality(S) \in Nat
              => Cardinality(S \cup {x}) \in {Cardinality(S), Cardinality(S) + 1}
        BY FS_AddElement
      <3>4. Cardinality(InWindow(fails, windowStart)) <= failCount
        BY DEF WindowInv
      <3>5. n = failCount + 1 /\ w = windowStart /\ failCount \in Nat
        BY <1>1, <2>2, LockoutAssumption
      <3> HIDE DEF n, w, at
      <3>6. Cardinality(InWindow(fails, windowStart) \cup {at})
              \in {Cardinality(InWindow(fails, windowStart)),
                   Cardinality(InWindow(fails, windowStart)) + 1}
        BY <3>2, <3>3
      <3>7. Cardinality(InWindow(fails, windowStart) \cup {at}) <= failCount + 1
        BY <3>2, <3>4, <3>5, <3>6
      <3>8. QED
        BY <3>1, <3>5, <3>7
    <2>3. QED
      BY <2>1, <2>2
  <1>5. ASSUME NEW t \in fails \cup {at}, t < w, w <= t + FailWindow
        PROVE  Cardinality(BeforeWindow(fails \cup {at}, t, w)) <= FailThreshold - 2
    <2>1. t \in fails /\ BeforeWindow(fails \cup {at}, t, w) = BeforeWindow(fails, t, w)
      BY <1>1, <1>3, <1>5 DEF BeforeWindow, Uptime
    <2>2. CASE fresh
      <3>1. windowStart \in fails /\ at - windowStart > FailWindow
        BY <1>1, <2>1, <2>2 DEF WindowInv
      <3>2. Cardinality(InWindow(fails, windowStart)) <= failCount
        BY DEF WindowInv
      <3>3. QED
        BY <1>1, <1>5, <2>1, <2>2, <3>1, <3>2, EndedWindow
    <2>3. CASE ~fresh
      BY <1>5, <2>1, <2>3 DEF WindowInv
    <2>4. QED
      BY <2>2, <2>3
  <1>6. FailureBudget'
    <2> HIDE DEF at, w, n
    <2>1. \A t \in fails : Cardinality({u \in fails : t <= u /\ u <= t + FailWindow})
                        <= (FailThreshold - 2) + (FailThreshold - 1)
      BY DEF WindowInv, FailureBudget, FailsFrom
    <2>2. \A t \in fails \cup {at} :
            Cardinality({u \in fails \cup {at} : t <= u /\ u <= t + FailWindow})
              <= (FailThreshold - 2) + (FailThreshold - 1)
      BY <1>1, <1>2, <1>3, <1>4, <1>5, <2>1, BudgetOfTwoWindows
    <2>3. QED
      BY <1>2, <2>2 DEF FailureBudget, FailsFrom
  <1> HIDE DEF w, n, at
  <1>7. \A t \in fails' : 0 < t /\ t <= now' /\ (stage' # "idle" => t <= cycle'.at)
    <2>1. at <= now
      BY DEF at, DeadlineInv
    <2>2. \A t \in fails \cup {at} : 0 < t /\ t <= at /\ t <= now
      BY <1>1, <2>1 DEF Uptime
    <2>3. QED
      BY <1>2, <2>2
  <1>8. QED
    BY <1>1, <1>2, <1>3, <1>4, <1>5, <1>6, <1>7 DEF WindowInv

\* No step counts a failure that the budget does not have.
LEMMA WindowStep ==
  IInv /\ IInv' /\ DeadlineInv /\ WindowInv /\ [Next]_vars => WindowInv'
  <1> SUFFICES ASSUME IInv, IInv', DeadlineInv, WindowInv, [Next]_vars
               PROVE  WindowInv'
    OBVIOUS
  <1>1. /\ now \in Nat /\ now > 0 /\ now' \in Nat /\ cycle \in Cycle
        /\ stage # "idle" => cycle.at > 0 /\ \A t \in fails : t <= cycle.at
        /\ \A t \in fails : t <= now
    BY LockoutAssumption DEF IInv, TypeOK, WindowInv
  <1>2. ASSUME UNCHANGED <<now, lockoutUntil, failCount, windowStart, fails>>,
               stage # "idle", NEW st, NEW c \in Cycle, c.at = cycle.at, Goto(st, c)
        PROVE  WindowInv'
    BY <1>1, <1>2, WindowFrame DEF Goto
  <1>3. CASE StartCycle
    <2>1. CASE lockoutUntil > 0 /\ now >= lockoutUntil
      <3>1. fails' = {} /\ windowStart' = 0
        BY <1>3, <2>1 DEF StartCycle, WindowInv, history
      <3>2. stage' # "idle" => cycle'.at > 0
        BY <1>1, <1>3 DEF StartCycle, Goto, NewCycle
      <3>3. QED
        BY <3>1, <3>2, WindowCleared
    <2>2. CASE ~(lockoutUntil > 0 /\ now >= lockoutUntil)
      <3>1. UNCHANGED <<now, lockoutUntil, failCount, windowStart, fails>>
        BY <1>3, <2>2 DEF StartCycle, history
      <3>2. stage' # "idle" => cycle'.at = now
        BY <1>3 DEF StartCycle, Goto, NewCycle
      <3>3. QED
        BY <1>1, <3>1, <3>2, WindowFrame
    <2>3. QED
      BY <2>1, <2>2
  <1>4. CASE \/ Announce \/ RetireRecord \/ EmitCleared \/ AccountError
             \/ AccountLockTimeout \/ EmitMatchFailed \/ SaveRecord
             \/ EmitLockout \/ ReportMatch
    BY <1>1, <1>2, <1>4 DEF Announce, RetireRecord, EmitCleared, AccountError,
       AccountLockTimeout, EmitMatchFailed, SaveRecord, EmitLockout,
       ReportMatch, lockoutVars, history
  <1>5. CASE Scan
    <2>1. PICK r \in ScanResult : Goto("account", [cycle EXCEPT !.scan = r])
      BY <1>5 DEF Scan
    <2>2. /\ [cycle EXCEPT !.scan = r] \in Cycle
          /\ [cycle EXCEPT !.scan = r].at = cycle.at
      BY <1>1 DEF Cycle
    <2>3. QED
      BY <1>2, <1>5, <2>1, <2>2 DEF Scan, lockoutVars, history
  <1>6. CASE AccountFailure
    <2>1. CASE Locks((IF WindowOver(cycle.at) THEN 0 ELSE failCount) + 1)
      <3>1. fails' = {} /\ windowStart' = 0
        BY <1>6, <2>1 DEF AccountFailure
      <3>2. cycle'.at = cycle.at /\ cycle.at > 0
        BY <1>1, <1>6 DEF AccountFailure, Goto, Cycle
      <3>3. QED
        BY <3>1, <3>2, WindowCleared
    <2>2. QED
      BY <1>6, <2>1, WindowCounts
  <1>7. CASE AccountMatch
    <2>1. fails' = {} /\ windowStart' = 0
      BY <1>7 DEF AccountMatch
    <2>2. cycle'.at = cycle.at /\ cycle.at > 0
      BY <1>1, <1>7 DEF AccountMatch, Goto, Cycle
    <2>3. QED
      BY <2>1, <2>2, WindowCleared
  <1>8. CASE Reset
    BY <1>8, WindowCleared DEF Reset
  <1>9. CASE Tick
    <2>1. now' = now + 1 /\ UNCHANGED <<lockoutVars, fails, stage, cycle>>
      BY <1>9 DEF Tick, history
    <2>2. QED
      BY <1>1, <2>1, WindowFrame DEF lockoutVars
  <1>10. CASE RouterDispatch \/ AppHandle \/ UNCHANGED vars
    <2>1. UNCHANGED <<now, lockoutVars, fails, stage, cycle>>
      BY <1>10 DEF RouterDispatch, AppHandle, vars, history
    <2>2. QED
      BY <1>1, <2>1, WindowFrame DEF lockoutVars
  <1>11. QED
    BY <1>3, <1>4, <1>5, <1>6, <1>7, <1>8, <1>9, <1>10 DEF Next, MatchStep

-----------------------------------------------------------------------------
(* Every clear travels behind the entry it belongs to.                     *)

\* What handling an event adds to the entries handled ahead of the clears.
Weight(e) == CASE e = "LockoutEntered" -> 1
               [] e = "LockoutCleared" -> -1
               [] OTHER -> 0

\* d counts the lead of the entries over the clears along the queue q, from
\* the lead b of those already handled; it is never negative.
Lead(d, q, b) ==
  /\ d \in [0 .. Len(q) -> Nat] /\ d[0] = b
  /\ \A i \in 1 .. Len(q) : d[i] = d[i - 1] + Weight(q[i])

\* Handling q keeps the entries ahead, and by r at its end.
Ahead(q, b, r) == \E d : Lead(d, q, b) /\ d[Len(q)] >= r

\* A clear is still to be emitted: its cycle is under way, or the lockout that
\* was announced has not expired yet.
Owing == IF \/ stage \in {"retire", "clear"}
            \/ /\ lockoutUntil > 0 /\ ~announcePending
               /\ ~(stage \in {"failed", "save", "lockout"} /\ cycle.locked)
         THEN 1 ELSE 0

\* No event was lost, and no entry was skipped, in this boot.
Lossless == ~dropped /\ missed \subseteq {"clear"}

BalanceInv ==
  Lossless => Ahead(appQueue \o routerQueue, locksSeen - clearsSeen, Owing)

\* The weights are those of the two lockout events.
LEMMA Weights ==
  /\ Weight("LockoutEntered") = 1 /\ Weight("LockoutCleared") = -1
  /\ Weight("MatchResult") = 0
  /\ \A e \in Event : Weight(e) \in {-1, 0, 1}
  BY DEF Weight, Event

\* Two queues of events, one behind the other.
LEMMA Joined ==
  ASSUME NEW p \in Seq(Event), NEW q \in Seq(Event)
  PROVE  /\ p \o q \in Seq(Event) /\ Len(p \o q) = Len(p) + Len(q)
         /\ Len(p) \in Nat /\ Len(q) \in Nat
         /\ \A i \in 1 .. Len(p) + Len(q) :
              (p \o q)[i] = IF i <= Len(p) THEN p[i] ELSE q[i - Len(p)]
  OBVIOUS

\* An event sent to the back of the queue adds its weight at the end, which
\* a clear may do only when one is owed.
LEMMA AheadBack ==
  ASSUME NEW q \in Seq(Event), NEW e \in Event, NEW b, NEW r \in Int,
         Ahead(q, b, r), r + Weight(e) >= 0
  PROVE  Ahead(Append(q, e), b, r + Weight(e))
  <1> DEFINE n == Len(q)
             s == Append(q, e)
  <1>1. PICK d : Lead(d, q, b) /\ d[n] >= r
    BY DEF Ahead
  <1> DEFINE f == [i \in 0 .. n + 1 |-> IF i = n + 1 THEN d[n] + Weight(e) ELSE d[i]]
  <1>2. n \in Nat /\ Len(s) = n + 1 /\ s[n + 1] = e /\ \A i \in 1 .. n : s[i] = q[i]
    BY AppendProperties
  <1>3. Weight(e) \in {-1, 0, 1} /\ \A i \in 0 .. n : d[i] \in Nat
    BY Weights, <1>1 DEF Lead
  <1>4. d[n] + Weight(e) \in Nat /\ d[n] + Weight(e) >= r + Weight(e)
    BY <1>1, <1>2, <1>3
  <1> HIDE DEF n, s
  <1>5. f \in [0 .. n + 1 -> Nat] /\ f[0] = b /\ f[n + 1] >= r + Weight(e)
    BY <1>1, <1>2, <1>3, <1>4 DEF Lead, n
  <1>6. ASSUME NEW i \in 1 .. n + 1 PROVE f[i] = f[i - 1] + Weight(s[i])
    <2>1. CASE i = n + 1
      BY <1>2, <2>1
    <2>2. CASE i # n + 1
      <3>1. i \in 1 .. n /\ i - 1 \in 0 .. n
        BY <1>2, <2>2
      <3>2. d[i] = d[i - 1] + Weight(q[i])
        BY <1>1, <3>1 DEF Lead, n
      <3>3. QED
        BY <1>2, <3>1, <3>2
    <2>3. QED
      BY <2>1, <2>2
  <1> HIDE DEF f
  <1>7. Lead(f, s, b)
    BY <1>2, <1>5, <1>6 DEF Lead
  <1>8. QED
    BY <1>2, <1>5, <1>7 DEF Ahead, s

\* An entry that overtakes part of the queue is ahead of all it overtakes.
LEMMA AheadInsert ==
  ASSUME NEW p \in Seq(Event), NEW q \in Seq(Event), NEW b, NEW r \in Int,
         Ahead(p \o q, b, r)
  PROVE  Ahead(p \o (<<"LockoutEntered">> \o q), b, r + 1)
  <1> DEFINE k == Len(p)
             n == Len(p \o q)
             s == p \o (<<"LockoutEntered">> \o q)
  <1>1. PICK d : Lead(d, p \o q, b) /\ d[n] >= r
    BY DEF Ahead
  <1> DEFINE f == [i \in 0 .. n + 1 |-> IF i <= k THEN d[i] ELSE d[i - 1] + 1]
  <1>2. /\ k \in Nat /\ n \in Nat /\ k <= n /\ Len(s) = n + 1
        /\ s[k + 1] = "LockoutEntered"
        /\ \A i \in 1 .. k : s[i] = (p \o q)[i]
        /\ \A i \in k + 2 .. n + 1 : s[i] = (p \o q)[i - 1]
    <2>1. Len(p) \in Nat /\ Len(q) \in Nat /\ Len(p \o q) = Len(p) + Len(q)
      BY Joined
    <2> DEFINE t == <<"LockoutEntered">> \o q
    <2>2. /\ t \in Seq(Event) /\ Len(t) = Len(q) + 1 /\ t[1] = "LockoutEntered"
          /\ \A i \in 2 .. Len(q) + 1 : t[i] = q[i - 1]
      BY DEF Event
    <2> HIDE DEF t
    <2>3. /\ Len(p \o t) = Len(p) + Len(t)
          /\ \A i \in 1 .. Len(p) + Len(t) :
               (p \o t)[i] = IF i <= Len(p) THEN p[i] ELSE t[i - Len(p)]
      BY <2>2, Joined
    <2>4. \A i \in 1 .. Len(p) + Len(q) :
            (p \o q)[i] = IF i <= Len(p) THEN p[i] ELSE q[i - Len(p)]
      BY Joined
    <2>5. QED
      BY <2>1, <2>2, <2>3, <2>4 DEF t
  <1>3. \A i \in 0 .. n : d[i] \in Nat
    BY <1>1 DEF Lead
  <1>4. \A i \in 1 .. n : d[i] = d[i - 1] + Weight((p \o q)[i])
    BY <1>1 DEF Lead
  <1>5. d[0] = b
    BY <1>1 DEF Lead
  <1> HIDE DEF n, k, s
  <1>6. f \in [0 .. n + 1 -> Nat] /\ f[0] = b /\ f[n + 1] >= r + 1
    BY <1>1, <1>2, <1>3, <1>5
  <1>7. ASSUME NEW i \in 1 .. n + 1 PROVE f[i] = f[i - 1] + Weight(s[i])
    <2>1. CASE i <= k
      <3>1. i \in 1 .. k /\ i \in 1 .. n /\ i - 1 \in 0 .. n + 1 /\ i - 1 <= k
        BY <1>2, <2>1
      <3>2. s[i] = (p \o q)[i] /\ d[i] = d[i - 1] + Weight((p \o q)[i])
        BY <1>2, <1>4, <3>1
      <3>3. f[i] = d[i] /\ f[i - 1] = d[i - 1]
        BY <2>1, <3>1
      <3>4. QED
        BY <3>2, <3>3
    <2>2. CASE i = k + 1
      <3>1. f[i] = d[k] + 1 /\ f[i - 1] = d[k]
        BY <1>2, <2>2
      <3>2. QED
        BY <1>2, <2>2, <3>1, Weights
    <2>3. CASE i > k + 1
      <3>1. i \in k + 2 .. n + 1 /\ i - 1 \in 1 .. n /\ ~(i - 1 <= k)
        BY <1>2, <2>3
      <3>2. s[i] = (p \o q)[i - 1]
            /\ d[i - 1] = d[i - 1 - 1] + Weight((p \o q)[i - 1])
        BY <1>2, <1>4, <3>1
      <3>3. f[i] = d[i - 1] + 1 /\ f[i - 1] = d[i - 1 - 1] + 1
        BY <1>2, <2>3, <3>1
      <3>4. (p \o q)[i - 1] \in Event /\ d[i - 1 - 1] \in Nat
        <4>1. p \o q \in Seq(Event)
          BY Joined
        <4>2. QED
          BY <1>3, <3>1, <4>1 DEF n
      <3>5. Weight((p \o q)[i - 1]) \in {-1, 0, 1}
        BY <3>4, Weights
      <3> DEFINE v == Weight((p \o q)[i - 1])
                 x == d[i - 1 - 1]
      <3>6. /\ Weight(s[i]) = v /\ v \in {-1, 0, 1} /\ x \in Nat
            /\ f[i] = (x + v) + 1 /\ f[i - 1] = x + 1
        BY <3>2, <3>3, <3>4, <3>5
      <3> HIDE DEF v, x, f
      <3>7. QED
        BY <3>6
    <2>4. QED
      BY <1>2, <2>1, <2>2, <2>3
  <1> HIDE DEF f
  <1>8. Lead(f, s, b)
    BY <1>2, <1>6, <1>7 DEF Lead
  <1>9. QED
    BY <1>2, <1>6, <1>8 DEF Ahead, s

\* An entry that leaves its place for the front is ahead of what it passes.
LEMMA AheadMove ==
  ASSUME NEW p \in Seq(Event), NEW q \in Seq(Event), NEW b, NEW r \in Int,
         Ahead(p \o (<<"LockoutEntered">> \o q), b, r)
  PROVE  Ahead((<<"LockoutEntered">> \o p) \o q, b, r)
  <1> DEFINE k == Len(p) + 1
             n == Len(p) + 1 + Len(q)
             s == p \o (<<"LockoutEntered">> \o q)
             t == (<<"LockoutEntered">> \o p) \o q
  <1>1. PICK d : Lead(d, s, b) /\ d[Len(s)] >= r
    BY DEF Ahead
  <1> DEFINE f == [i \in 0 .. n |-> IF i = 0 THEN b
                                    ELSE IF i <= k THEN d[i - 1] + 1 ELSE d[i]]
  <1>2. /\ k \in Nat \ {0} /\ n \in Nat /\ k <= n /\ Len(s) = n /\ Len(t) = n
        /\ s \in Seq(Event) /\ s[k] = "LockoutEntered" /\ t[1] = "LockoutEntered"
        /\ \A i \in 2 .. k : t[i] = s[i - 1]
        /\ \A i \in k + 1 .. n : t[i] = s[i]
    <2>1. Len(p) \in Nat /\ Len(q) \in Nat /\ "LockoutEntered" \in Event
      BY DEF Event
    <2> DEFINE u == <<"LockoutEntered">> \o q
               v == <<"LockoutEntered">> \o p
    <2>2. /\ u \in Seq(Event) /\ Len(u) = Len(q) + 1 /\ u[1] = "LockoutEntered"
          /\ \A i \in 2 .. Len(q) + 1 : u[i] = q[i - 1]
      BY <2>1
    <2>3. /\ v \in Seq(Event) /\ Len(v) = Len(p) + 1 /\ v[1] = "LockoutEntered"
          /\ \A i \in 2 .. Len(p) + 1 : v[i] = p[i - 1]
      BY <2>1
    <2> HIDE DEF u, v
    <2>4. /\ Len(p \o u) = Len(p) + Len(u) /\ p \o u \in Seq(Event)
          /\ \A i \in 1 .. Len(p) + Len(u) :
               (p \o u)[i] = IF i <= Len(p) THEN p[i] ELSE u[i - Len(p)]
      BY <2>2, Joined
    <2>5. /\ Len(v \o q) = Len(v) + Len(q)
          /\ \A i \in 1 .. Len(v) + Len(q) :
               (v \o q)[i] = IF i <= Len(v) THEN v[i] ELSE q[i - Len(v)]
      BY <2>3, Joined
    <2>6. /\ s = p \o u /\ t = v \o q
      BY DEF u, v
    <2> HIDE DEF s, t
    <2>7. k \in Nat \ {0} /\ n \in Nat /\ k <= n /\ Len(s) = n /\ Len(t) = n
      BY <2>1, <2>2, <2>3, <2>4, <2>5, <2>6
    <2>8. s \in Seq(Event) /\ s[k] = "LockoutEntered" /\ t[1] = "LockoutEntered"
      BY <2>1, <2>2, <2>3, <2>4, <2>5, <2>6
    <2>9. ASSUME NEW i \in 2 .. k PROVE t[i] = s[i - 1]
      <3>1. t[i] = v[i] /\ v[i] = p[i - 1]
        BY <2>1, <2>3, <2>5, <2>6
      <3>2. s[i - 1] = p[i - 1]
        BY <2>1, <2>2, <2>4, <2>6
      <3>3. QED
        BY <3>1, <3>2
    <2>10. ASSUME NEW i \in k + 1 .. n PROVE t[i] = s[i]
      <3>1. t[i] = q[i - (Len(p) + 1)]
        BY <2>1, <2>3, <2>5, <2>6
      <3>2. s[i] = u[i - Len(p)] /\ i - Len(p) \in 2 .. Len(q) + 1
        BY <2>1, <2>2, <2>4, <2>6
      <3>3. i - Len(p) - 1 = i - (Len(p) + 1)
        BY <2>1
      <3>4. QED
        BY <2>2, <3>1, <3>2, <3>3
    <2>11. QED
      BY <2>7, <2>8, <2>9, <2>10
  <1>3. /\ d[0] = b /\ \A i \in 0 .. n : d[i] \in Nat
        /\ \A i \in 1 .. n : d[i] = d[i - 1] + Weight(s[i])
    BY <1>1, <1>2 DEF Lead
  <1> HIDE DEF n, k, s, t
  <1>4. d[k] = d[k - 1] + 1
    BY <1>2, <1>3, Weights
  <1>5. f \in [0 .. n -> Nat] /\ f[0] = b
    BY <1>2, <1>3
  <1>6. f[n] = d[n]
    BY <1>2, <1>4
  <1>7. ASSUME NEW i \in 1 .. n PROVE f[i] = f[i - 1] + Weight(t[i])
    <2>1. CASE i = 1
      BY <1>2, <1>3, <2>1, Weights
    <2>2. CASE i \in 2 .. k
      <3>1. t[i] = s[i - 1] /\ i - 1 \in 1 .. n /\ i - 1 - 1 \in 0 .. n
        BY <1>2, <2>2
      <3>2. f[i] = d[i - 1] + 1 /\ f[i - 1] = d[i - 1 - 1] + 1
        BY <1>2, <2>2, <3>1
      <3>3. d[i - 1] = d[i - 1 - 1] + Weight(s[i - 1]) /\ d[i - 1 - 1] \in Nat
        BY <1>3, <3>1
      <3>4. s[i - 1] \in Event
        BY <1>2, <3>1
      <3>5. Weight(s[i - 1]) \in Int
        BY <3>4, Weights
      <3> HIDE DEF f
      <3>6. f[i] = f[i - 1] + Weight(s[i - 1])
        BY <3>2, <3>3, <3>5
      <3>7. QED
        BY <3>1, <3>6
    <2>3. CASE i \in k + 1 .. n
      <3>1. t[i] = s[i] /\ f[i] = d[i] /\ i - 1 \in 0 .. n /\ k <= i - 1
        BY <1>2, <2>3
      <3>2. f[i - 1] = d[i - 1]
        <4>1. CASE i - 1 = k
          BY <1>2, <1>4, <3>1, <4>1
        <4>2. CASE i - 1 # k
          BY <1>2, <3>1, <4>2
        <4>3. QED
          BY <4>1, <4>2
      <3>3. QED
        BY <1>3, <3>1, <3>2
    <2>4. QED
      BY <1>2, <2>1, <2>2, <2>3
  <1> HIDE DEF f
  <1>8. Lead(f, t, b)
    BY <1>2, <1>5, <1>7 DEF Lead
  <1>9. QED
    BY <1>1, <1>2, <1>6, <1>8 DEF Ahead, t

\* Handling the oldest event leaves the rest of the queue ahead.
LEMMA AheadTail ==
  ASSUME NEW q \in Seq(Event), q # <<>>, NEW b, NEW r \in Int, Ahead(q, b, r)
  PROVE  Ahead(Tail(q), b + Weight(Head(q)), r)
  <1> DEFINE n == Len(q)
             s == Tail(q)
  <1>1. PICK d : Lead(d, q, b) /\ d[n] >= r
    BY DEF Ahead
  <1> DEFINE f == [i \in 0 .. n - 1 |-> d[i + 1]]
  <1>2. /\ n \in Nat \ {0} /\ Len(s) = n - 1 /\ Head(q) = q[1]
        /\ \A i \in 1 .. n - 1 : s[i] = q[i + 1]
    BY HeadTailProperties
  <1>3. /\ d[0] = b /\ \A i \in 0 .. n : d[i] \in Nat
        /\ \A i \in 1 .. n : d[i] = d[i - 1] + Weight(q[i])
    BY <1>1 DEF Lead
  <1> HIDE DEF n, s
  <1>4. f \in [0 .. n - 1 -> Nat] /\ f[0] = b + Weight(Head(q)) /\ f[n - 1] = d[n]
    BY <1>2, <1>3
  <1>5. \A i \in 1 .. n - 1 : f[i] = f[i - 1] + Weight(s[i])
    BY <1>2, <1>3
  <1> HIDE DEF f
  <1>6. Lead(f, s, b + Weight(Head(q)))
    BY <1>2, <1>4, <1>5 DEF Lead
  <1>7. QED
    BY <1>1, <1>2, <1>4, <1>6 DEF Ahead, s

\* Less may be owed, and the events already handled are paired.
LEMMA AheadPaired ==
  ASSUME NEW q \in Seq(Event), NEW b, NEW r \in Int, Ahead(q, b, r)
  PROVE  b \in Nat /\ \A m \in Int : m <= r => Ahead(q, b, m)
  <1>1. PICK d : Lead(d, q, b) /\ d[Len(q)] >= r
    BY DEF Ahead
  <1>2. Len(q) \in Nat /\ d[Len(q)] \in Nat /\ d[0] \in Nat
    BY <1>1 DEF Lead
  <1>3. b \in Nat
    BY <1>1, <1>2 DEF Lead
  <1>4. ASSUME NEW m \in Int, m <= r PROVE Ahead(q, b, m)
    <2>1. d[Len(q)] >= m
      BY <1>1, <1>2, <1>4
    <2>2. QED
      BY <1>1, <2>1 DEF Ahead
  <1>5. QED
    BY <1>3, <1>4

\* With nothing sent and nothing handled nothing is owed.
LEMMA NothingAhead == Ahead(<<>> \o <<>>, 0 - 0, 0)
  <1> DEFINE f == [i \in 0 .. 0 |-> 0]
  <1>1. <<>> \o <<>> = <<>> /\ Len(<<>>) = 0
    OBVIOUS
  <1>2. Lead(f, <<>>, 0)
    BY <1>1 DEF Lead
  <1>3. QED
    BY <1>1, <1>2 DEF Ahead

\* The queues are queues of events, and less is owed than one clear.
LEMMA Balanced ==
  ASSUME TypeOK
  PROVE  /\ appQueue \in Seq(Event) /\ routerQueue \in Seq(Event)
         /\ appQueue \o routerQueue \in Seq(Event)
         /\ Owing \in {0, 1} /\ locksSeen - clearsSeen \in Int
  BY Joined DEF TypeOK, Owing

\* A step that touches no queue and owes no more than before.
LEMMA BalanceFrame ==
  ASSUME TypeOK, BalanceInv, Owing' <= Owing, Owing' \in {0, 1},
         UNCHANGED <<routerQueue, appQueue, locksSeen, clearsSeen>>,
         Lossless' => Lossless
  PROVE  BalanceInv'
  <1> DEFINE q == appQueue \o routerQueue
             b == locksSeen - clearsSeen
  <1>1. q \in Seq(Event) /\ Owing \in Int /\ Owing' \in Int
    BY Balanced
  <1>2. Lossless => Ahead(q, b, Owing)
    BY DEF BalanceInv
  <1>3. BalanceInv' <=> (Lossless' => Ahead(q, b, Owing'))
    BY DEF BalanceInv
  <1> HIDE DEF q, b
  <1>4. QED
    BY <1>1, <1>2, <1>3, AheadPaired

\* An emission pays what it adds: an entry lets one clear be owed, and a clear
\* is emitted only when one is.
LEMMA BalanceEmit ==
  ASSUME TypeOK, BalanceInv, NEW e \in Event, Emit(e),
         Owing' <= Owing + Weight(e), Owing' \in {0, 1}, Owing + Weight(e) >= 0,
         UNCHANGED <<locksSeen, clearsSeen, missed>>
  PROVE  BalanceInv'
  <1> DEFINE b == locksSeen - clearsSeen
  <1> SUFFICES ASSUME Lossless' PROVE Ahead(appQueue' \o routerQueue', b, Owing')
    BY DEF BalanceInv
  <1>1. Lossless /\ appQueue' = appQueue /\ routerQueue' = Enqueued(routerQueue, e)
    BY DEF Emit, Lossless
  <1>2. Ahead(appQueue \o routerQueue, b, Owing)
    BY <1>1 DEF BalanceInv
  <1>3. /\ appQueue \in Seq(Event) /\ routerQueue \in Seq(Event)
        /\ appQueue \o routerQueue \in Seq(Event) /\ Owing \in {0, 1}
    BY Balanced
  <1>4. Enqueued(routerQueue, e) \in Seq(Event)
    BY <1>3, EnqueuedType
  <1>5. Ahead(appQueue \o Enqueued(routerQueue, e), b, Owing + Weight(e))
    <2> HIDE DEF b
    <2>1. CASE Critical(e)
      <3>1. Ahead(appQueue \o (<<"LockoutEntered">> \o routerQueue), b, Owing + 1)
        BY <1>2, <1>3, AheadInsert
      <3>2. QED
        BY <2>1, <3>1, Weights DEF Critical, Enqueued
    <2>2. CASE ~Critical(e)
      <3>1. appQueue \o Append(routerQueue, e) = Append(appQueue \o routerQueue, e)
        BY <1>3
      <3> DEFINE q == appQueue \o routerQueue
      <3>2. q \in Seq(Event) /\ Owing \in Int /\ Ahead(q, b, Owing)
        BY <1>2, <1>3
      <3> HIDE DEF q
      <3>3. Ahead(Append(q, e), b, Owing + Weight(e))
        BY <3>2, AheadBack
      <3>4. QED
        BY <2>2, <3>1, <3>3 DEF Enqueued, q
    <2>3. QED
      BY <2>1, <2>2
  <1>6. Owing + Weight(e) \in Int /\ Owing' \in Int
    BY <1>3, Weights
  <1>7. appQueue \o Enqueued(routerQueue, e) \in Seq(Event)
    BY <1>3, <1>4, Joined
  <1> HIDE DEF b
  <1>8. Ahead(appQueue \o Enqueued(routerQueue, e), b, Owing')
    BY <1>5, <1>6, <1>7, AheadPaired
  <1>9. QED
    BY <1>1, <1>8

\* The router's hand-over lets only an entry overtake.
LEMMA BalanceDispatch ==
  ASSUME TypeOK, BalanceInv, RouterDispatch
  PROVE  BalanceInv'
  <1> DEFINE b == locksSeen - clearsSeen
             h == Head(routerQueue)
             q == Tail(routerQueue)
  <1> SUFFICES ASSUME Lossless' PROVE Ahead(appQueue' \o routerQueue', b, Owing)
    <2>1. Owing' = Owing
      BY DEF RouterDispatch, Owing, lockoutVars, recordVars
    <2>2. QED
      BY <2>1 DEF BalanceInv, RouterDispatch, appVars
  <1>1. Lossless /\ appQueue' = Enqueued(appQueue, h) /\ routerQueue' = q
    BY DEF RouterDispatch, Lossless
  <1>2. /\ appQueue \in Seq(Event) /\ routerQueue \in Seq(Event) /\ Owing \in Int
    BY Balanced
  <1>3. h \in Event /\ q \in Seq(Event) /\ routerQueue = <<h>> \o q
    BY <1>2 DEF RouterDispatch
  <1>4. Ahead(appQueue \o (<<h>> \o q), b, Owing)
    BY <1>1, <1>3 DEF BalanceInv
  <1> HIDE DEF b, h, q
  <1>5. CASE Critical(h)
    <2>1. Ahead((<<"LockoutEntered">> \o appQueue) \o q, b, Owing)
      BY <1>2, <1>3, <1>4, <1>5, AheadMove DEF Critical
    <2>2. QED
      BY <1>1, <1>5, <2>1 DEF Critical, Enqueued
  <1>6. CASE ~Critical(h)
    <2>1. Append(appQueue, h) \o q = appQueue \o (<<h>> \o q)
      BY <1>2, <1>3
    <2>2. QED
      BY <1>1, <1>4, <1>6, <2>1 DEF Enqueued
  <1>7. QED
    BY <1>5, <1>6

\* The application counts what it takes off the queue.
LEMMA BalanceHandle ==
  ASSUME TypeOK, BalanceInv, AppHandle
  PROVE  BalanceInv'
  <1> DEFINE b == locksSeen - clearsSeen
             e == Head(appQueue)
  <1>1. Owing' = Owing /\ Lossless' = Lossless /\ routerQueue' = routerQueue
    BY DEF AppHandle, Owing, Lossless, lockoutVars, recordVars, history
  <1>2. /\ appQueue \in Seq(Event) /\ appQueue # <<>> /\ routerQueue \in Seq(Event)
        /\ appQueue \o routerQueue \in Seq(Event) /\ Owing \in Int
        /\ locksSeen \in Nat /\ clearsSeen \in Nat
    BY Balanced DEF AppHandle, TypeOK
  <1>3. locksSeen' - clearsSeen' = b + Weight(e)
    BY <1>2 DEF AppHandle, Weight
  <1>4. /\ appQueue \o routerQueue # <<>>
        /\ Head(appQueue \o routerQueue) = e
        /\ Tail(appQueue \o routerQueue) = appQueue' \o routerQueue
    BY <1>2 DEF AppHandle
  <1> HIDE DEF b, e
  <1>5. ASSUME Lossless PROVE Ahead(appQueue' \o routerQueue, b + Weight(e), Owing)
    <2>1. Ahead(appQueue \o routerQueue, b, Owing)
      BY <1>5 DEF BalanceInv, b
    <2>2. QED
      BY <1>2, <1>4, <2>1, AheadTail
  <1>6. QED
    BY <1>1, <1>3, <1>5 DEF BalanceInv

\* Every step keeps the entries ahead of the clears.
LEMMA BalanceStep == IInv /\ IInv' /\ BalanceInv /\ [Next]_vars => BalanceInv'
  <1> SUFFICES ASSUME IInv, IInv', BalanceInv, [Next]_vars PROVE BalanceInv'
    OBVIOUS
  <1>1. /\ TypeOK /\ Owing \in {0, 1} /\ Owing' \in {0, 1}
        /\ "LockoutEntered" \in Event /\ "LockoutCleared" \in Event
        /\ "MatchResult" \in Event
    BY DEF IInv, Owing, Event
  <1>2. NoCycle.locked = FALSE
    BY DEF NoCycle, NewCycle
  <1>3. ASSUME ~(lockoutUntil' > 0), stage' \notin {"retire", "clear"} PROVE Owing' = 0
    BY <1>3 DEF Owing
  <1>4. CASE StartCycle
    <2>1. UNCHANGED <<routerQueue, appQueue, locksSeen, clearsSeen, dropped, missed, announcePending>>
      BY <1>4 DEF StartCycle, queueVars, appVars, history
    <2>2. Owing' <= Owing
      <3>1. lockoutUntil \in Nat /\ stage = "idle"
        BY <1>4, LockoutAssumption DEF StartCycle, IInv, TypeOK, Deadline
      <3>2. CASE lockoutUntil > 0 /\ now >= lockoutUntil
        <4>1. ~(lockoutUntil' > 0)
          BY <1>4, <3>2 DEF StartCycle
        <4>2. announcePending => stage' = "announce"
          BY <1>4 DEF StartCycle, Goto, AfterGate, NewCycle
        <4>3. ~announcePending => Owing = 1
          BY <3>1, <3>2 DEF Owing
        <4>4. QED
          BY <1>1, <1>3, <4>1, <4>2, <4>3
      <3>3. CASE ~(lockoutUntil > 0 /\ now >= lockoutUntil)
        <4>1. lockoutUntil' = lockoutUntil
          BY <1>4, <3>3 DEF StartCycle
        <4>2. stage' \notin {"retire", "clear"}
          BY <1>4, <3>3 DEF StartCycle, Goto, AfterGate, AfterAnnounce,
             AfterClear, NewCycle
        <4>3. Owing = IF lockoutUntil > 0 /\ ~announcePending THEN 1 ELSE 0
          BY <3>1 DEF Owing
        <4>4. Owing' = 1 => lockoutUntil' > 0 /\ ~announcePending'
          BY <4>2 DEF Owing
        <4>5. QED
          BY <1>1, <2>1, <4>1, <4>3, <4>4
      <3>4. QED
        BY <3>2, <3>3
    <2>3. QED
      BY <1>1, <2>1, <2>2, BalanceFrame DEF Lossless
  <1>5. CASE Announce
    <2>1. /\ UNCHANGED <<locksSeen, clearsSeen>>
          /\ \/ Emit("LockoutEntered") /\ UNCHANGED missed
             \/ /\ NotReady(IF cycle.cleared THEN {"lateEntry"} ELSE {})
                /\ UNCHANGED announcePending
      BY <1>5 DEF Announce, appVars
    <2>2. CASE Emit("LockoutEntered") /\ UNCHANGED missed
      BY <1>1, <2>1, <2>2, Weights, BalanceEmit
    <2>3. CASE /\ NotReady(IF cycle.cleared THEN {"lateEntry"} ELSE {})
               /\ UNCHANGED announcePending
      <3>1. CASE cycle.cleared
        BY <2>3, <3>1 DEF NotReady, Lossless, BalanceInv
      <3>2. CASE ~cycle.cleared
        <4>1. stage = "announce" /\ stage' \in {"scan", "idle"}
          BY <1>5, <3>2 DEF Announce, Goto, AfterAnnounce, AfterClear
        <4>2. Owing' = Owing
          BY <1>5, <2>3, <4>1 DEF Announce, Owing, lockoutVars
        <4>3. UNCHANGED <<routerQueue, appQueue, dropped>> /\ missed \subseteq missed'
          BY <2>3 DEF NotReady, queueVars
        <4>4. QED
          BY <1>1, <2>1, <4>2, <4>3, BalanceFrame DEF Lossless
      <3>3. QED
        BY <3>1, <3>2
    <2>4. QED
      BY <2>1, <2>2, <2>3
  <1>a. CASE EmitLockout
    <2>1. CASE Emit("LockoutEntered") /\ UNCHANGED missed
      BY <1>1, <1>a, <2>1, Weights, BalanceEmit DEF EmitLockout, appVars
    <2>2. CASE NotReady({"entry"})
      BY <2>2 DEF NotReady, Lossless, BalanceInv
    <2>3. QED
      BY <1>a, <2>1, <2>2 DEF EmitLockout
  <1>6. CASE RetireRecord
    <2>1. Owing = 1
      BY <1>6 DEF RetireRecord, Owing
    <2>2. QED
      BY <1>1, <1>6, <2>1, BalanceFrame
      DEF RetireRecord, queueVars, appVars, history, Lossless
  <1>7. CASE EmitCleared
    <2>1. Owing = 1 /\ ~(lockoutUntil' > 0)
      BY <1>7 DEF EmitCleared, Owing, IInv, CycleInv, lockoutVars
    <2>2. Owing' = 0
      BY <1>3, <1>7, <2>1 DEF EmitCleared, Goto, AfterClear
    <2>3. UNCHANGED <<locksSeen, clearsSeen>>
      BY <1>7 DEF EmitCleared, appVars
    <2>4. CASE Emit("LockoutCleared") /\ UNCHANGED missed
      BY <1>1, <2>1, <2>2, <2>3, <2>4, Weights, BalanceEmit
    <2>5. CASE NotReady({"clear"})
      BY <1>1, <2>1, <2>2, <2>3, <2>5, BalanceFrame DEF NotReady, queueVars, Lossless
    <2>6. QED
      BY <1>7, <2>4, <2>5 DEF EmitCleared
  <1>8. CASE EmitMatchFailed
    <2>1. /\ UNCHANGED <<locksSeen, clearsSeen>>
          /\ stage = "failed" /\ UNCHANGED <<lockoutUntil, announcePending>>
      BY <1>8 DEF EmitMatchFailed, appVars, lockoutVars, recordVars
    <2>2. CASE Emit("MatchResult") /\ Goto(AfterFailed(cycle), cycle) /\ UNCHANGED missed
      <3>1. Owing' = Owing
        BY <1>2, <2>1, <2>2 DEF Owing, Goto, AfterFailed
      <3>2. QED
        BY <1>1, <2>1, <2>2, <3>1, Weights, BalanceEmit
    <2>3. CASE NotReady(IF cycle.locked THEN {"entry"} ELSE {}) /\ Goto("idle", cycle)
      <3>1. CASE cycle.locked
        BY <2>3, <3>1 DEF NotReady, Lossless, BalanceInv
      <3>2. CASE ~cycle.locked
        <4>1. Owing' = Owing
          BY <2>1, <2>3, <3>2 DEF Owing, Goto
        <4>2. UNCHANGED <<routerQueue, appQueue, dropped>> /\ missed \subseteq missed'
          BY <2>3 DEF NotReady, queueVars
        <4>3. QED
          BY <1>1, <2>1, <4>1, <4>2, BalanceFrame DEF Lossless
      <3>3. QED
        BY <3>1, <3>2
    <2>4. QED
      BY <1>8, <2>2, <2>3 DEF EmitMatchFailed
  <1>9. CASE SaveRecord
    <2>1. Owing' = Owing
      BY <1>9 DEF SaveRecord, Owing, Goto, lockoutVars
    <2>2. QED
      BY <1>1, <1>9, <2>1, BalanceFrame
      DEF SaveRecord, queueVars, appVars, history, Lossless
  <1>10. CASE Scan \/ AccountFailure \/ AccountMatch \/ AccountError
              \/ AccountLockTimeout
    <2>1. UNCHANGED <<routerQueue, appQueue, locksSeen, clearsSeen, dropped, missed>>
      BY <1>10 DEF Scan, AccountFailure, AccountMatch, AccountError,
         AccountLockTimeout, queueVars, appVars, history
    <2>2. Owing' = 0
      <3>1. lockoutUntil = 0
        BY <1>10 DEF IInv, MatchOnlyWhenOpen, Scan, AccountFailure,
           AccountMatch, AccountError, AccountLockTimeout
      <3>2. CASE AccountFailure
        <4>1. CASE Locks((IF WindowOver(cycle.at) THEN 0 ELSE failCount) + 1)
          <5>1. stage' = "failed" /\ cycle'.locked
            BY <3>2, <4>1 DEF AccountFailure, Goto, IInv, TypeOK, Cycle
          <5>2. QED
            BY <5>1 DEF Owing
        <4>2. CASE ~Locks((IF WindowOver(cycle.at) THEN 0 ELSE failCount) + 1)
          <5>1. stage' = "failed" /\ lockoutUntil' = 0
            BY <3>1, <3>2, <4>2 DEF AccountFailure, Goto
          <5>2. QED
            BY <1>3, <5>1
        <4>3. QED
          BY <4>1, <4>2
      <3>3. CASE Scan \/ AccountMatch \/ AccountError \/ AccountLockTimeout
        <4>1. lockoutUntil' = 0
          BY <3>1, <3>3 DEF Scan, AccountMatch, AccountError,
             AccountLockTimeout, lockoutVars
        <4>2. stage' \in {"account", "match", "idle"}
          BY <3>3 DEF Scan, AccountMatch, AccountError, AccountLockTimeout, Goto
        <4>3. QED
          BY <1>3, <4>1, <4>2
      <3>4. QED
        BY <1>10, <3>2, <3>3
    <2>3. QED
      BY <1>1, <2>1, <2>2, BalanceFrame DEF Lossless
  <1>11. CASE ReportMatch
    <2>1. lockoutUntil' = 0 /\ stage' = "idle" /\ UNCHANGED <<locksSeen, clearsSeen, missed>>
      BY <1>11 DEF ReportMatch, IInv, MatchOnlyWhenOpen, Goto, lockoutVars, appVars
    <2>2. Owing' = 0
      BY <1>3, <2>1
    <2>3. CASE UNCHANGED <<queueVars, dropped>>
      BY <1>1, <2>1, <2>2, <2>3, BalanceFrame DEF queueVars, Lossless
    <2>4. CASE Emit("MatchResult")
      BY <1>1, <2>1, <2>2, <2>4, Weights, BalanceEmit
    <2>5. QED
      BY <1>11, <2>3, <2>4 DEF ReportMatch
  <1>12. CASE Reset
    <2>1. /\ appQueue' = <<>> /\ routerQueue' = <<>> /\ locksSeen' = 0
          /\ clearsSeen' = 0 /\ stage' = "idle"
          /\ lockoutUntil' > 0 => announcePending'
      BY <1>12 DEF Reset, Restore
    <2>2. Owing' = 0
      BY <2>1 DEF Owing
    <2>3. QED
      BY <2>1, <2>2, NothingAhead DEF BalanceInv
  <1>13. CASE Tick \/ UNCHANGED vars
    <2>1. /\ UNCHANGED <<routerQueue, appQueue, locksSeen, clearsSeen, dropped, missed>>
          /\ UNCHANGED <<lockoutUntil, announcePending, stage, cycle>>
      BY <1>13 DEF Tick, vars, lockoutVars, recordVars, queueVars, appVars, history
    <2>2. Owing' = Owing
      BY <2>1 DEF Owing
    <2>3. QED
      BY <1>1, <2>1, <2>2, BalanceFrame DEF Lossless
  <1>14. QED
    BY <1>1, <1>4, <1>5, <1>a, <1>6, <1>7, <1>8, <1>9, <1>10, <1>11, <1>12, <1>13,
       BalanceDispatch, BalanceHandle DEF Next, MatchStep

-----------------------------------------------------------------------------
(* The theorems.                                                           *)

LEMMA Invariance == Spec => [](IInv /\ DeadlineInv)
  <1>1. Init => IInv /\ DeadlineInv
    <2>1. Init => DeadlineInv
      BY LockoutAssumption DEF Init, NoCycle, NewCycle, DeadlineInv
    <2>2. QED
      BY <2>1, InitInv
  <1>2. IInv /\ DeadlineInv /\ [Next]_vars => (IInv /\ DeadlineInv)'
    BY NextInv, DeadlineStep
  <1>3. QED
    BY <1>1, <1>2, PTL DEF Spec

\* The state keeps its types; in particular the failure count stays below
\* the threshold, for every threshold.
THEOREM TypeCorrect == Spec => []TypeOK
  BY Invariance, PTL DEF IInv

\* No scan is made, accounted or reported while a lockout is armed.
THEOREM NoMatchUnderLockout == Spec => []MatchOnlyWhenOpen
  BY Invariance, PTL DEF IInv

\* The persisted-record belief is the RAM lockout under another name, so the
\* success path never finds a stale record to heal.
THEOREM BeliefIsTheDeadline == Spec => []BeliefTracksDeadline
  BY Invariance, PTL DEF IInv

\* A lockout in force is on record, unless its write is pending, failed or was
\* skipped by a cycle that found the services not ready.
THEOREM LockoutIsRecorded == Spec => []LockoutDurable
  BY Invariance, PTL DEF IInv

\* No reset shortens a recorded lockout that the boot can read.
THEOREM ResetNeverShortens == Spec => LockoutSurvivesReset
  <1> DEFINE Survives ==
        (boots' # boots /\ now < lockoutUntil /\ persistArmed')
          => lockoutUntil' - now' >= lockoutUntil - now
  <1>1. IInv /\ DeadlineInv /\ [Next]_vars => [Survives]_vars
    <2> SUFFICES ASSUME IInv, DeadlineInv, Next, boots' # boots, persistArmed'
                 PROVE  lockoutUntil' - now' >= lockoutUntil - now
      BY DEF vars, history
    <2>1. Reset
      BY DEF Next, MatchStep, RouterDispatch, AppHandle, Tick, StartCycle,
         Announce, RetireRecord, EmitCleared, Scan, AccountFailure,
         AccountMatch, AccountError, AccountLockTimeout, EmitMatchFailed,
         SaveRecord, EmitLockout, ReportMatch, history
    <2>2. lockoutUntil' = 1 + LockoutTime /\ now' = 1
      BY <2>1 DEF Reset, Restore
    <2>3. /\ now \in 1 .. MaxTime /\ lockoutUntil \in Deadline
          /\ lockoutUntil <= now + LockoutTime
      BY DEF IInv, TypeOK, DeadlineInv
    <2>4. QED
      BY <2>2, <2>3, LockoutAssumption DEF Deadline
  <1>2. QED
    BY <1>1, Invariance, PTL DEF Spec, LockoutSurvivesReset

LEMMA WindowInvariance == Spec => []WindowInv
  <1>1. Init => IInv /\ WindowInv
    <2> SUFFICES ASSUME Init PROVE WindowInv
      BY InitInv
    <2>1. InWindow(fails, windowStart) = {} /\ failCount = 0
      BY DEF Init, InWindow
    <2>2. Cardinality(InWindow(fails, windowStart)) = 0
      BY <2>1, FS_EmptySet
    <2>3. QED
      BY <2>1, <2>2 DEF Init, WindowInv, FailureBudget
  <1>2. QED
    BY <1>1, Invariance, WindowStep, PTL DEF Spec

\* For every threshold and window, the failures let through in any FailWindow
\* stay below two windows' worth: FailThreshold - 2 late ones of a window that
\* ended and FailThreshold - 1 of the next (sdf_services_match.c restarts the
\* window at its first failure instead of sliding it).
THEOREM FailuresAreBudgeted == Spec => []FailureBudget
  BY WindowInvariance, PTL DEF WindowInv

LEMMA BalanceInvariance == Spec => []BalanceInv
  <1>1. Init => IInv /\ BalanceInv
    <2> SUFFICES ASSUME Init PROVE BalanceInv
      BY InitInv
    <2>1. Owing = 0
      BY DEF Init, Owing
    <2>2. QED
      BY <2>1, NothingAhead DEF Init, BalanceInv
  <1>2. QED
    BY <1>1, Invariance, BalanceStep, PTL DEF Spec

\* With queues of any depth, unless one of them lost an event or an entry was
\* skipped for a missed lock, the application never handles a clear before the
\* entry it belongs to, although entries overtake the queue and clears do not.
THEOREM ClearsFollowEntries == Spec => []ClearsArePaired
  <1>1. TypeOK /\ BalanceInv => ClearsArePaired
    <2> SUFFICES ASSUME TypeOK, BalanceInv, Lossless PROVE clearsSeen <= locksSeen
      BY DEF ClearsArePaired, Lossless
    <2> DEFINE q == appQueue \o routerQueue
               b == locksSeen - clearsSeen
    <2>1. q \in Seq(Event) /\ Owing \in Int /\ Ahead(q, b, Owing)
      BY Balanced DEF BalanceInv
    <2> HIDE DEF q, b
    <2>2. b \in Nat
      BY <2>1, AheadPaired
    <2>3. QED
      BY <2>2 DEF TypeOK, b
  <1>2. QED
    BY <1>1, BalanceInvariance, TypeCorrect, PTL
=============================================================================
