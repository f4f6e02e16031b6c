------------------------ MODULE SdfEnrolledUsersProofs ------------------------
(***************************************************************************)
(* What holds of SdfEnrolledUsers for every set of users, retry policy,    *)
(* queue depth and number of faults.  Types first, one lemma per action;   *)
(* then the inductive invariant, which adds Driven to the stated           *)
(* properties: EnrolmentDriven does not say who drives what, so a step     *)
(* that consumes one event could not be told from the loss of the last.    *)
(***************************************************************************)
EXTENDS SdfEnrolledUsers, SequenceTheorems, TLAPS

-----------------------------------------------------------------------------
(* Lemmas about the operators the actions share.                           *)

\* Where an editor is determines what it carries, and where it may go.
LEMMA Carried ==
  ASSUME TypeOK, NEW t \in Editor
  PROVE  /\ Idle \in EditorState
         /\ editor[t].at \in {"delete", "erase", "forget"} =>
              /\ editor[t].user \in Users
              /\ [editor[t] EXCEPT !.at = "erase"] \in EditorState
              /\ [editor[t] EXCEPT !.at = "forget"] \in EditorState
         /\ editor[t].at \in {"ask", "emit"} =>
              /\ editor[t].user \in Users /\ editor[t].perm \in Granted
              /\ [editor[t] EXCEPT !.at = "emit"] \in EditorState
         /\ editor[t].at \in {"change", "note"} =>
              /\ editor[t].user \in Users /\ editor[t].perm \in Granted
              /\ [editor[t] EXCEPT !.at = "note"] \in EditorState
         /\ editor[t].at \in {"remote", "kick"} =>
              /\ editor[t].user \in Users /\ editor[t].perm \in Granted
              /\ [editor[t] EXCEPT !.at = "kick"] \in EditorState
         /\ editor[t].at = "armed" =>
              [editor[t] EXCEPT !.at = editor[t].op] \in EditorState
  <1> DEFINE e == editor[t]
  <1>1. e \in EditorState
    BY DEF TypeOK, EditorType
  <1> HIDE DEF e
  <1>2. /\ e.at \in {"delete", "erase", "forget"} =>
             /\ e.user \in Users
             /\ [e EXCEPT !.at = "erase"] \in EditorState
             /\ [e EXCEPT !.at = "forget"] \in EditorState
        /\ e.at \in {"ask", "emit"} =>
             /\ e.user \in Users /\ e.perm \in Granted
             /\ [e EXCEPT !.at = "emit"] \in EditorState
        /\ e.at \in {"change", "note"} =>
             /\ e.user \in Users /\ e.perm \in Granted
             /\ [e EXCEPT !.at = "note"] \in EditorState
        /\ e.at \in {"remote", "kick"} =>
             /\ e.user \in Users /\ e.perm \in Granted
             /\ [e EXCEPT !.at = "kick"] \in EditorState
        /\ e.at = "armed" => [e EXCEPT !.at = e.op] \in EditorState
    BY <1>1 DEF EditorState, Idle
  <1>3. QED
    BY <1>2 DEF e, EditorState

\* A task moves on to another stage of a change.
LEMMA Stepped ==
  ASSUME EditorType, NEW t \in Editor, NEW e \in EditorState, Goto(t, e)
  PROVE  EditorType'
  BY DEF EditorType, Goto

\* Templates are stored and erased with permissions of users.
LEMMA StoredType ==
  ASSUME CopiesType, NEW u \in Users, NEW p \in Granted, StoreTemplate(u, p)
  PROVE  Templates' \subseteq Users /\ sensor' \in [Templates' -> Granted]
  BY DEF CopiesType, StoreTemplate, Templates

LEMMA ErasedType ==
  ASSUME CopiesType, NEW S, EraseTemplates(S)
  PROVE  Templates' \subseteq Users /\ sensor' \in [Templates' -> Granted]
  BY DEF CopiesType, EraseTemplates, Templates

\* A save leaves an account in RAM and one in NVS, whatever it failed at.
LEMMA SavedType ==
  ASSUME CopiesType, NEW c \in Account, NEW back \in Account,
         Persisted(c) \/ PersistFailed(c, back)
  PROVE  cache' \in Account /\ nvs' \in Account
  <1>1. Torn(c) \in Account
    BY DEF CopiesType, Account, Torn
  <1>2. QED
    BY <1>1 DEF CopiesType, Persisted, PersistFailed

\* Events fit the queues they enter.
LEMMA EmittedType ==
  ASSUME EventsType, NEW e \in RoutedEvent, Emitted(e)
  PROVE  routed' \in Seq(RoutedEvent) /\ Len(routed') <= QueueDepth
  <1>1. /\ Append(routed, e) \in Seq(RoutedEvent)
        /\ Len(Append(routed, e)) = Len(routed) + 1 /\ Len(routed) \in Nat
    BY DEF EventsType
  <1>2. routed' = Append(routed, e) /\ Len(routed) < QueueDepth
    BY Zenon DEF Emitted
  <1>3. QueueDepth \in Nat
    BY UsersAssumption
  <1>4. QED
    BY <1>1, <1>2, <1>3

LEMMA SentType ==
  ASSUME EventsType, NEW e \in Event, Send(e)
  PROVE  inbox' \in Seq(Event) /\ Len(inbox') <= QueueDepth
  <1>1. /\ Append(inbox, e) \in Seq(Event)
        /\ Len(Append(inbox, e)) = Len(inbox) + 1 /\ Len(inbox) \in Nat
    BY DEF EventsType
  <1>2. \/ Len(inbox) < QueueDepth /\ inbox' = Append(inbox, e)
        \/ inbox' = inbox
    BY Zenon DEF Send
  <1>3. inbox \in Seq(Event) /\ Len(inbox) <= QueueDepth /\ QueueDepth \in Nat
    BY UsersAssumption DEF EventsType
  <1>4. QED
    BY <1>1, <1>2, <1>3

\* Taking the oldest event off a queue leaves a shorter queue.
LEMMA TakenType ==
  ASSUME EventsType, inbox # <<>>
  PROVE  /\ Head(inbox) \in Event /\ Tail(inbox) \in Seq(Event)
         /\ Len(Tail(inbox)) <= QueueDepth
  <1>1. /\ Head(inbox) \in Event /\ Tail(inbox) \in Seq(Event)
        /\ Len(Tail(inbox)) = Len(inbox) - 1 /\ Len(inbox) \in Nat
    BY HeadTailProperties DEF EventsType
  <1>2. QED
    BY <1>1, UsersAssumption DEF EventsType

LEMMA RoutedType ==
  ASSUME EventsType, routed # <<>>
  PROVE  /\ Head(routed) \in Event /\ Tail(routed) \in Seq(RoutedEvent)
         /\ Len(Tail(routed)) <= QueueDepth
  <1>1. /\ Head(routed) \in RoutedEvent /\ Tail(routed) \in Seq(RoutedEvent)
        /\ Len(Tail(routed)) = Len(routed) - 1 /\ Len(routed) \in Nat
    BY HeadTailProperties DEF EventsType
  <1>2. QED
    BY <1>1, UsersAssumption DEF EventsType, Event

\* The state machine starts at its first step with no retry used.
LEMMA StartedType ==
  ASSUME NEW e, e.user \in Users, e.perm \in Granted
  PROVE  Started(e) \in Running
  BY UsersAssumption DEF Started, Step, Running

\* A result moves an active machine within its steps and its retries.
LEMMA AppliedType ==
  ASSUME sm = Inert \/ sm \in Running, EnrolApply
  PROVE  sm' = Inert \/ sm' \in Running
  <1>1. Active => sm \in Running
    BY DEF Active, Inert
  <1>2. ASSUME sm \in Running, sm.step < 3
        PROVE  [sm EXCEPT !.step = @ + 1, !.retries = 0] \in Running
    <2>1. /\ sm.step + 1 \in Step /\ sm.user \in Users /\ sm.perm \in Granted
          /\ 0 \in 0 .. MaxRetries
      BY <1>2, UsersAssumption DEF Running, Step
    <2>2. QED
      BY <1>2, <2>1 DEF Running
  <1>3. ASSUME sm \in Running, Retriable
        PROVE  [sm EXCEPT !.retries = @ + 1] \in Running
    BY <1>3, UsersAssumption DEF Running, Retriable
  <1>4. \/ Active /\ sm.step < 3 /\ sm' = [sm EXCEPT !.step = @ + 1, !.retries = 0]
        \/ Active /\ Retriable /\ sm' = [sm EXCEPT !.retries = @ + 1]
        \/ sm' = Inert \/ sm' = sm
    BY DEF EnrolApply
  <1>5. QED
    BY <1>1, <1>2, <1>3, <1>4

-----------------------------------------------------------------------------
(* Every action keeps the types.                                           *)

\* A request is made in the name of a user.
LEMMA AskType == ASSUME TypeOK, NEW t \in Editor, Ask(t) PROVE TypeOK'
  <1>1. /\ Idle \in EditorState /\ [editor[t] EXCEPT !.at = "emit"] \in EditorState
        /\ editor[t].user \in Users /\ editor[t].perm \in Granted
    BY Carried DEF Ask
  <1>2. CopiesType' /\ EventsType'
    BY DEF Ask, TypeOK, CopiesType, EventsType, Templates, record, queues
  <1>3. MachineType'
    BY <1>1 DEF Ask, TypeOK, MachineType, Request, Permission
  <1>4. EditorType'
    BY <1>1, Stepped DEF Ask, TypeOK
  <1>5. HistoryType'
    BY DEF Ask, TypeOK, HistoryType, bounds, Missed, Mishandled, Fine, Mishap, Fault
  <1>6. QED
    BY <1>2, <1>3, <1>4, <1>5 DEF TypeOK

\* The event of a request, or its withdrawal.
LEMMA EmitStartType == ASSUME TypeOK, NEW t \in Editor, EmitStart(t) PROVE TypeOK'
  <1>1. /\ Idle \in EditorState /\ StartEvent(editor[t]) \in RoutedEvent
    BY Carried DEF EmitStart, StartEvent, RoutedEvent
  <1>2. CopiesType'
    BY DEF EmitStart, TypeOK, CopiesType, Templates, record
  <1>3. MachineType'
    BY DEF EmitStart, TypeOK, MachineType, Request, Permission, NoRequest
  <1>4. EventsType'
    BY <1>1, EmittedType DEF EmitStart, TypeOK, EventsType, Refused
  <1>5. EditorType'
    BY <1>1, Stepped DEF EmitStart, TypeOK
  <1>6. HistoryType'
    BY DEF EmitStart, TypeOK, HistoryType, bounds, Missed, Mishandled, Fine, Mishap,
       Fault, Refused
  <1>7. QED
    BY <1>2, <1>3, <1>4, <1>5, <1>6 DEF TypeOK

\* A deletion admitted, or refused.
LEMMA DeleteCheckType == ASSUME TypeOK, NEW t \in Editor, DeleteCheck(t) PROVE TypeOK'
  <1>1. /\ Idle \in EditorState /\ [editor[t] EXCEPT !.at = "erase"] \in EditorState
    BY Carried DEF DeleteCheck
  <1>2. CopiesType' /\ MachineType' /\ EventsType'
    BY DEF DeleteCheck, TypeOK, CopiesType, MachineType, EventsType, Templates, record,
       queues
  <1>3. EditorType'
    BY <1>1, Stepped DEF DeleteCheck, TypeOK
  <1>4. HistoryType'
    BY DEF DeleteCheck, TypeOK, HistoryType, bounds, Missed, Mishandled, Fine, Mishap, Fault
  <1>5. QED
    BY <1>2, <1>3, <1>4 DEF TypeOK

\* The template of a deletion.
LEMMA DeleteEraseType == ASSUME TypeOK, NEW t \in Editor, DeleteErase(t) PROVE TypeOK'
  <1>1. /\ Idle \in EditorState /\ [editor[t] EXCEPT !.at = "forget"] \in EditorState
    BY Carried DEF DeleteErase
  <1>2. MachineType' /\ EventsType'
    BY DEF DeleteErase, TypeOK, MachineType, EventsType, queues
  <1>3. CopiesType'
    BY ErasedType DEF DeleteErase, Operate, TypeOK, CopiesType, record, Templates
  <1>4. EditorType'
    BY <1>1, Stepped DEF DeleteErase, Operate, TypeOK
  <1>5. HistoryType'
    BY DEF DeleteErase, TypeOK, HistoryType, bounds, Missed, Mishandled, Fine, Mishap,
       Fault, Operate, Overlapping
  <1>6. QED
    BY <1>2, <1>3, <1>4, <1>5 DEF TypeOK

\* The record of a deletion.
LEMMA DeleteForgetType == ASSUME TypeOK, NEW t \in Editor, DeleteForget(t) PROVE TypeOK'
  <1>1. /\ Idle \in EditorState /\ editor[t].user \in Users
    BY Carried DEF DeleteForget
  <1>2. /\ Without(editor[t].user) \in Account
        /\ [cache EXCEPT !.bmp = @ \cup {editor[t].user}] \in Account
    BY <1>1 DEF TypeOK, CopiesType, Account, Without
  <1>3. MachineType' /\ EventsType'
    BY DEF DeleteForget, TypeOK, MachineType, EventsType, queues
  <1>4. CopiesType'
    BY <1>2, SavedType DEF DeleteForget, TypeOK, CopiesType, record, Templates
  <1>5. EditorType'
    BY <1>1, Stepped DEF DeleteForget, TypeOK
  <1>6. HistoryType'
    BY DEF DeleteForget, TypeOK, HistoryType, bounds, Missed, Mishandled, Fine, Mishap,
       Fault, PersistFailed
  <1>7. QED
    BY <1>3, <1>4, <1>5, <1>6 DEF TypeOK

\* A setup's first request.
LEMMA SetupBeginType == ASSUME TypeOK, SetupBegin PROVE TypeOK'
  <1>1. /\ "app" \in Editor
        /\ \A u \in Users, p \in Granted : [at |-> "ask", user |-> u, perm |-> p] \in EditorState
    BY DEF Editor, EditorState
  <1>2. CopiesType' /\ MachineType' /\ EventsType'
    BY DEF SetupBegin, TypeOK, CopiesType, MachineType, EventsType, Templates, record,
       queues
  <1>3. EditorType'
    BY <1>1, Stepped DEF SetupBegin, TypeOK
  <1>4. HistoryType'
    BY DEF SetupBegin, TypeOK, HistoryType, bounds, Missed, Mishandled, Fine, Mishap,
       Fault, Begun
  <1>5. QED
    BY <1>2, <1>3, <1>4 DEF TypeOK

\* A programming command.
LEMMA ZigbeeBeginType == ASSUME TypeOK, ZigbeeBegin PROVE TypeOK'
  <1>1. /\ "zigbee" \in Editor /\ [at |-> "clear"] \in EditorState
        /\ \A u \in Users : [at |-> "delete", user |-> u] \in EditorState
        /\ \A u \in Users, p \in Granted : [at |-> "ask", user |-> u, perm |-> p] \in EditorState
    BY DEF Editor, EditorState
  <1>2. CopiesType' /\ MachineType' /\ EventsType'
    BY DEF ZigbeeBegin, TypeOK, CopiesType, MachineType, EventsType, Templates, record,
       queues
  <1>3. EditorType'
    BY <1>1, Stepped DEF ZigbeeBegin, TypeOK
  <1>4. HistoryType'
    BY DEF ZigbeeBegin, TypeOK, HistoryType, bounds, Missed, Mishandled, Fine, Mishap,
       Fault, Begun
  <1>5. QED
    BY <1>2, <1>3, <1>4 DEF TypeOK

\* The templates of a wipe.
LEMMA ZigbeeClearType == ASSUME TypeOK, ZigbeeClear PROVE TypeOK'
  <1>1. "zigbee" \in Editor /\ [at |-> "zero"] \in EditorState /\ Idle \in EditorState
    BY DEF Editor, EditorState
  <1>2. MachineType' /\ EventsType'
    BY DEF ZigbeeClear, TypeOK, MachineType, EventsType, queues
  <1>3. CopiesType'
    BY ErasedType DEF ZigbeeClear, Operate, TypeOK, CopiesType, record, Templates
  <1>4. EditorType'
    BY <1>1, Stepped DEF ZigbeeClear, Operate, TypeOK
  <1>5. HistoryType'
    BY DEF ZigbeeClear, TypeOK, HistoryType, bounds, Missed, Mishandled, Fine, Mishap,
       Fault, Operate, Overlapping
  <1>6. QED
    BY <1>2, <1>3, <1>4, <1>5 DEF TypeOK

\* The record of a wipe.
LEMMA ZigbeeZeroType == ASSUME TypeOK, ZigbeeZero PROVE TypeOK'
  <1>1. "zigbee" \in Editor /\ Idle \in EditorState
    BY DEF Editor, EditorState
  <1>2. Blank \in Account /\ cache \in Account
    BY DEF TypeOK, CopiesType, Account, Blank, Permission
  <1>3. MachineType' /\ EventsType'
    BY DEF ZigbeeZero, TypeOK, MachineType, EventsType, queues
  <1>4. CopiesType'
    BY <1>2, SavedType DEF ZigbeeZero, TypeOK, CopiesType, record, Templates
  <1>5. EditorType'
    BY <1>1, Stepped DEF ZigbeeZero, TypeOK
  <1>6. HistoryType'
    BY DEF ZigbeeZero, TypeOK, HistoryType, bounds, Missed, Mishandled, Fine, Mishap,
       Fault, PersistFailed
  <1>7. QED
    BY <1>3, <1>4, <1>5, <1>6 DEF TypeOK

\* An action armed.
LEMMA MatchArmType == ASSUME TypeOK, MatchArm PROVE TypeOK'
  <1>1. /\ "match" \in Editor /\ [at |-> "armed", op |-> "local"] \in EditorState
        /\ \A u \in Users : [at |-> "armed", op |-> "delete", user |-> u] \in EditorState
        /\ \A u \in Users, p \in Granted, o \in {"change", "remote"} :
             [at |-> "armed", op |-> o, user |-> u, perm |-> p] \in EditorState
    BY DEF Editor, EditorState
  <1>2. CopiesType' /\ MachineType' /\ EventsType'
    BY DEF MatchArm, TypeOK, CopiesType, MachineType, EventsType, Templates, record,
       queues
  <1>3. EditorType'
    BY <1>1, Stepped DEF MatchArm, TypeOK
  <1>4. HistoryType'
    BY DEF MatchArm, TypeOK, HistoryType, bounds, Missed, Mishandled, Fine, Mishap,
       Fault, Begun
  <1>5. QED
    BY <1>2, <1>3, <1>4 DEF TypeOK

\* It is claimed, or ends otherwise.
LEMMA MatchClaimType == ASSUME TypeOK, MatchClaim PROVE TypeOK'
  <1>1. "match" \in Editor
    BY DEF Editor
  <1>2. Idle \in EditorState /\ [editor["match"] EXCEPT !.at = editor["match"].op] \in EditorState
    BY <1>1, Carried DEF MatchClaim
  <1>3. CopiesType' /\ MachineType' /\ EventsType' /\ HistoryType'
    BY DEF MatchClaim, TypeOK, CopiesType, MachineType, EventsType, HistoryType,
       Templates, record, queues, bounds
  <1>4. EditorType'
    BY <1>1, <1>2, Stepped DEF MatchClaim, TypeOK
  <1>5. QED
    BY <1>3, <1>4 DEF TypeOK

\* A template's permission.
LEMMA MatchChangeType == ASSUME TypeOK, MatchChange PROVE TypeOK'
  <1>1. "match" \in Editor
    BY DEF Editor
  <1>2. /\ Idle \in EditorState /\ [editor["match"] EXCEPT !.at = "note"] \in EditorState
        /\ editor["match"].user \in Users /\ editor["match"].perm \in Granted
    BY <1>1, Carried DEF MatchChange
  <1>3. MachineType' /\ EventsType'
    BY DEF MatchChange, TypeOK, MachineType, EventsType, queues
  <1>4. CopiesType'
    BY <1>2, StoredType DEF MatchChange, Operate, TypeOK, CopiesType, record, Templates
  <1>5. EditorType'
    BY <1>1, <1>2, Stepped DEF MatchChange, Operate, TypeOK
  <1>6. HistoryType'
    BY DEF MatchChange, TypeOK, HistoryType, bounds, Missed, Mishandled, Fine, Mishap,
       Fault, Operate, Overlapping
  <1>7. QED
    BY <1>3, <1>4, <1>5, <1>6 DEF TypeOK

\* The record of a permission.
LEMMA MatchNoteType == ASSUME TypeOK, MatchNote PROVE TypeOK'
  <1>1. "match" \in Editor
    BY DEF Editor
  <1>2. /\ Idle \in EditorState /\ editor["match"].user \in Users /\ editor["match"].perm \in Granted
    BY <1>1, Carried DEF MatchNote
  <1>3. cache \in Account /\ Changed(editor["match"].user, editor["match"].perm) \in Account
    BY <1>2 DEF TypeOK, CopiesType, Account, Changed, Permission
  <1>4. MachineType' /\ EventsType'
    BY DEF MatchNote, TypeOK, MachineType, EventsType, queues
  <1>5. CopiesType'
    BY <1>3, SavedType DEF MatchNote, TypeOK, CopiesType, record, Templates
  <1>6. EditorType'
    BY <1>1, <1>2, Stepped DEF MatchNote, TypeOK
  <1>7. HistoryType'
    BY DEF MatchNote, TypeOK, HistoryType, bounds, Missed, Mishandled, Fine, Mishap,
       Fault, PersistFailed
  <1>8. QED
    BY <1>4, <1>5, <1>6, <1>7 DEF TypeOK

\* An authorized enrolment starts the state machine.
LEMMA MatchRemoteType == ASSUME TypeOK, MatchRemote PROVE TypeOK'
  <1>1. "match" \in Editor
    BY DEF Editor
  <1>2. /\ Idle \in EditorState /\ [editor["match"] EXCEPT !.at = "kick"] \in EditorState
        /\ editor["match"].user \in Users /\ editor["match"].perm \in Granted
    BY <1>1, Carried DEF MatchRemote
  <1>3. CopiesType' /\ EventsType'
    BY DEF MatchRemote, TypeOK, CopiesType, EventsType, Templates, record, queues
  <1>4. MachineType'
    BY <1>2, StartedType DEF MatchRemote, TypeOK, MachineType
  <1>5. EditorType'
    BY <1>1, <1>2, Stepped DEF MatchRemote, TypeOK
  <1>6. HistoryType'
    BY DEF MatchRemote, TypeOK, HistoryType, bounds, Missed, Mishandled, Fine, Mishap, Fault
  <1>7. QED
    BY <1>3, <1>4, <1>5, <1>6 DEF TypeOK

\* The enroll task is told of it.
LEMMA MatchKickType == ASSUME TypeOK, MatchKick PROVE TypeOK'
  <1>1. "match" \in Editor /\ Idle \in EditorState /\ [type |-> "STEP"] \in Event
    BY DEF Editor, EditorState, Event
  <1>2. CopiesType' /\ MachineType'
    BY DEF MatchKick, TypeOK, CopiesType, MachineType, Templates, record
  <1>3. EventsType'
    BY <1>1, SentType DEF MatchKick, RunStepSoon, TypeOK, EventsType
  <1>4. EditorType'
    BY <1>1, Stepped DEF MatchKick, TypeOK
  <1>5. HistoryType'
    BY DEF MatchKick, TypeOK, HistoryType, bounds, Missed, Mishandled, Fine, Mishap,
       Fault, RunStepSoon, Send
  <1>6. QED
    BY <1>2, <1>3, <1>4, <1>5 DEF TypeOK

\* An authorized Enroll-Admin asks like any other.
LEMMA MatchLocalType == ASSUME TypeOK, MatchLocal PROVE TypeOK'
  <1>1. /\ "match" \in Editor /\ Idle \in EditorState
        /\ \A u \in Users : [at |-> "ask", user |-> u, perm |-> "admin"] \in EditorState
    BY DEF Editor, EditorState, Granted
  <1>2. CopiesType' /\ MachineType' /\ EventsType' /\ HistoryType'
    BY DEF MatchLocal, TypeOK, CopiesType, MachineType, EventsType, HistoryType,
       Templates, record, queues, bounds
  <1>3. EditorType'
    BY <1>1, Stepped DEF MatchLocal, TypeOK
  <1>4. QED
    BY <1>2, <1>3 DEF TypeOK

\* An event taken off the queue.
LEMMA EnrolTakeType == ASSUME TypeOK, EnrolTake PROVE TypeOK'
  <1>1. Head(inbox) \in Event /\ Tail(inbox) \in Seq(Event) /\ Len(Tail(inbox)) <= QueueDepth
    BY TakenType DEF EnrolTake, TypeOK, EventsType
  <1>2. CopiesType' /\ EditorType'
    BY DEF EnrolTake, TypeOK, CopiesType, EditorType, Templates, record
  <1>3. MachineType'
    BY <1>1 DEF EnrolTake, TypeOK, MachineType, Request, EnrollerState, Event,
       RoutedEvent, Permission
  <1>4. EventsType'
    BY <1>1 DEF EnrolTake, TypeOK, EventsType
  <1>5. HistoryType'
    BY DEF EnrolTake, TypeOK, HistoryType, bounds, Missed, Mishandled, Fine, Mishap, Fault
  <1>6. QED
    BY <1>2, <1>3, <1>4, <1>5 DEF TypeOK

\* A pending request starts the state machine.
LEMMA EnrolBeginType == ASSUME TypeOK, EnrolBegin PROVE TypeOK'
  <1>1. (request # NoRequest /\ sm' = Started(request)) =>
          sm' \in Running
    BY StartedType DEF TypeOK, MachineType, Request
  <1>2. CopiesType' /\ EventsType' /\ EditorType'
    BY DEF EnrolBegin, TypeOK, CopiesType, EventsType, EditorType, Templates, record,
       queues
  <1>3. MachineType'
    BY <1>1 DEF EnrolBegin, TypeOK, MachineType, EnrollerState, Idle
  <1>4. HistoryType'
    BY DEF EnrolBegin, TypeOK, HistoryType, bounds, Missed, Mishandled, Fine, Mishap, Fault
  <1>5. QED
    BY <1>2, <1>3, <1>4 DEF TypeOK

\* The snapshot of the state machine.
LEMMA EnrolSnapshotType == ASSUME TypeOK, EnrolSnapshot PROVE TypeOK'
  <1>1. CopiesType' /\ EventsType' /\ EditorType'
    BY DEF EnrolSnapshot, TypeOK, CopiesType, EventsType, EditorType, Templates, record,
       queues
  <1>2. MachineType'
    BY DEF EnrolSnapshot, TypeOK, MachineType, EnrollerState, Active, Inert, Idle, Running
  <1>3. HistoryType'
    BY DEF EnrolSnapshot, TypeOK, HistoryType, bounds, Missed, Mishandled, Fine, Mishap,
       Fault
  <1>4. QED
    BY <1>1, <1>2, <1>3 DEF TypeOK

\* The capture.
LEMMA EnrolScanType == ASSUME TypeOK, EnrolScan PROVE TypeOK'
  <1>1. /\ enroller.step \in Step /\ enroller.user \in Users /\ enroller.perm \in Granted
    BY DEF EnrolScan, TypeOK, MachineType, EnrollerState, Idle
  <1>2. EventsType' /\ EditorType'
    BY DEF EnrolScan, TypeOK, EventsType, EditorType, queues
  <1>3. CopiesType'
    BY <1>1, StoredType DEF EnrolScan, TypeOK, CopiesType, record, Templates
  <1>4. MachineType'
    BY <1>1 DEF EnrolScan, TypeOK, MachineType, EnrollerState, Scanned
  <1>5. HistoryType'
    BY DEF EnrolScan, TypeOK, HistoryType, bounds, Missed, Mishandled, Fine, Mishap,
       Fault, Overlapping
  <1>6. QED
    BY <1>2, <1>3, <1>4, <1>5 DEF TypeOK

\* Its result: the retries stay within the policy.
LEMMA EnrolApplyType == ASSUME TypeOK, EnrolApply PROVE TypeOK'
  <1>1. /\ enroller.user \in Users /\ enroller.perm \in Granted
    BY DEF EnrolApply, TypeOK, MachineType, EnrollerState, Idle
  <1>2. sm' = Inert \/ sm' \in Running
    BY AppliedType DEF EnrolApply, TypeOK, MachineType
  <1>3. enroller' \in EnrollerState
    BY <1>1 DEF EnrolApply, EnrollerState, TypeOK, MachineType
  <1>4. CopiesType' /\ EditorType'
    BY DEF EnrolApply, TypeOK, CopiesType, EditorType, Templates, record
  <1>5. MachineType'
    BY <1>2, <1>3 DEF EnrolApply, TypeOK, MachineType
  <1>6. EventsType'
    BY DEF EnrolApply, TypeOK, EventsType, queues, RunStepLater
  <1>7. HistoryType'
    BY DEF EnrolApply, TypeOK, HistoryType, bounds, Missed, Mishandled, Fine, Mishap, Fault
  <1>8. QED
    BY <1>4, <1>5, <1>6, <1>7 DEF TypeOK

\* The record of an enrolment.
LEMMA EnrolCommitType == ASSUME TypeOK, EnrolCommit PROVE TypeOK'
  <1>1. enroller.user \in Users /\ enroller.perm \in Granted
    BY DEF EnrolCommit, TypeOK, MachineType, EnrollerState, Idle
  <1>2. /\ With(enroller.user, enroller.perm) \in Account
        /\ Undone(enroller.user, enroller.perm) \in Account
    BY <1>1 DEF TypeOK, CopiesType, Account, With, Undone, Permission
  <1>3. EventsType' /\ EditorType'
    BY DEF EnrolCommit, TypeOK, EventsType, EditorType, queues
  <1>4. CopiesType'
    BY <1>2, SavedType DEF EnrolCommit, TypeOK, CopiesType, record, Templates
  <1>5. MachineType'
    BY <1>1 DEF EnrolCommit, TypeOK, MachineType, EnrollerState, RollBack
  <1>6. HistoryType'
    BY DEF EnrolCommit, TypeOK, HistoryType, bounds, Missed, Mishandled, Fine, Mishap,
       Fault, PersistFailed
  <1>7. QED
    BY <1>3, <1>4, <1>5, <1>6 DEF TypeOK

\* Its rollback.
LEMMA EnrolRollbackType == ASSUME TypeOK, EnrolRollback PROVE TypeOK'
  <1>1. EventsType' /\ EditorType'
    BY DEF EnrolRollback, TypeOK, EventsType, EditorType, queues
  <1>2. CopiesType'
    BY ErasedType DEF EnrolRollback, TypeOK, CopiesType, record, Templates
  <1>3. MachineType'
    BY DEF EnrolRollback, TypeOK, MachineType, EnrollerState
  <1>4. HistoryType'
    BY DEF EnrolRollback, TypeOK, HistoryType, bounds, Missed, Mishandled, Fine, Mishap,
       Fault
  <1>5. QED
    BY <1>1, <1>2, <1>3, <1>4 DEF TypeOK

\* Its failure.
LEMMA EnrolFailType == ASSUME TypeOK, EnrolFail PROVE TypeOK'
  <1>1. CopiesType' /\ EventsType' /\ EditorType'
    BY DEF EnrolFail, TypeOK, CopiesType, EventsType, EditorType, Templates, record,
       queues
  <1>2. MachineType'
    BY DEF EnrolFail, TypeOK, MachineType, EnrollerState
  <1>3. HistoryType'
    BY DEF EnrolFail, TypeOK, HistoryType, bounds, Missed, Mishandled, Fine, Mishap, Fault
  <1>4. QED
    BY <1>1, <1>2, <1>3 DEF TypeOK

\* The router dispatches.
LEMMA DispatchType == ASSUME TypeOK, Dispatch PROVE TypeOK'
  <1>1. Head(routed) \in Event /\ Tail(routed) \in Seq(RoutedEvent) /\ Len(Tail(routed)) <= QueueDepth
    BY RoutedType DEF Dispatch, TypeOK, EventsType
  <1>2. CopiesType' /\ MachineType' /\ EditorType'
    BY DEF Dispatch, TypeOK, CopiesType, MachineType, EditorType, Templates, record
  <1>3. EventsType'
    BY <1>1, SentType DEF Dispatch, TypeOK, EventsType
  <1>4. HistoryType'
    BY DEF Dispatch, TypeOK, HistoryType, bounds, Missed, Mishandled, Fine, Mishap,
       Fault, Send
  <1>5. QED
    BY <1>2, <1>3, <1>4 DEF TypeOK

\* The timer.
LEMMA TimerFireType == ASSUME TypeOK, TimerFire PROVE TypeOK'
  <1>1. [type |-> "STEP"] \in Event
    BY DEF Event
  <1>2. CopiesType' /\ MachineType' /\ EditorType'
    BY DEF TimerFire, TypeOK, CopiesType, MachineType, EditorType, Templates, record
  <1>3. EventsType'
    BY <1>1, SentType DEF TimerFire, TypeOK, EventsType
  <1>4. HistoryType'
    BY DEF TimerFire, TypeOK, HistoryType, bounds, Missed, Mishandled, Fine, Mishap,
       Fault, Send
  <1>5. QED
    BY <1>2, <1>3, <1>4 DEF TypeOK

\* A reset.
LEMMA ResetType == ASSUME TypeOK, Reset PROVE TypeOK'
  <1>1. <<>> \in Seq(Event) /\ <<>> \in Seq(RoutedEvent) /\ Len(<<>>) <= QueueDepth
    BY UsersAssumption
  <1>2. \A c \in Saving : Torn(c) \in Account
    BY DEF Saving, TypeOK, CopiesType, Account, Torn, With, Without, Blank, Permission
  <1>3. CopiesType'
    <2>1. Blank \in Account
      BY DEF Blank, Account, Permission
    <2>2. nvs' \in Account
      BY <1>2 DEF Reset, TypeOK, CopiesType
    <2>3. cache' \in Account
      BY <2>1, <2>2 DEF Reset
    <2>4. QED
      BY <2>2, <2>3 DEF Reset, TypeOK, CopiesType, Templates
  <1>4. MachineType'
    BY DEF Reset, MachineType, EnrollerState
  <1>5. EventsType'
    BY <1>1 DEF Reset, EventsType
  <1>6. EditorType'
    BY DEF Reset, EditorType, EditorState
  <1>7. HistoryType'
    <2>1. mishaps' \in {mishaps \cup {"reset"}, mishaps \cup {"reset", "read"}}
      BY DEF Reset, Mishandled
    <2>2. {"reset", "read"} \subseteq Mishap
      BY DEF Mishap, Fault
    <2>3. mishaps' \subseteq Mishap
      BY <2>1, <2>2 DEF TypeOK, HistoryType
    <2>4. QED
      BY <2>3 DEF Reset, TypeOK, HistoryType
  <1>8. QED
    BY <1>3, <1>4, <1>5, <1>6, <1>7 DEF TypeOK

LEMMA NextType == ASSUME TypeOK, Next PROVE TypeOK'
  <1>1. CASE SetupBegin \/ ZigbeeBegin \/ ZigbeeStep \/ MatchArm \/ MatchClaim \/ MatchStep
    BY <1>1, SetupBeginType, ZigbeeBeginType, ZigbeeClearType, ZigbeeZeroType, MatchArmType,
       MatchClaimType, MatchChangeType, MatchNoteType, MatchRemoteType, MatchKickType,
       MatchLocalType DEF ZigbeeStep, MatchStep
  <1>2. ASSUME NEW t \in Editor, EditStep(t) PROVE TypeOK'
    BY <1>2, AskType, EmitStartType, DeleteCheckType, DeleteEraseType, DeleteForgetType
       DEF EditStep
  <1>3. CASE EnrolStep
    BY <1>3, EnrolTakeType, EnrolBeginType, EnrolSnapshotType, EnrolScanType,
       EnrolApplyType,
       EnrolCommitType, EnrolRollbackType, EnrolFailType DEF EnrolStep
  <1>4. CASE Dispatch \/ TimerFire \/ Reset
    BY <1>4, DispatchType, TimerFireType, ResetType
  <1>5. QED
    BY <1>1, <1>2, <1>3, <1>4 DEF Next

-----------------------------------------------------------------------------
(* The inductive invariant.                                                *)

\* Somebody is going to bring the enroll task a pending request ...
Arriving ==
  \/ enroller.at = "begin"
  \/ Holds(routed, {"START"}) \/ Holds(inbox, {"START"})
  \/ \E t \in Editor : editor[t].at = "emit"

\* ... or to make it run the next step of an active machine.
Waking == timer \/ Holds(inbox, {"STEP"}) \/ editor["match"].at = "kick"

\* A pending request and an active machine exclude each other, and each has what
\* brings the enroll task to it when the task is not about to look.
Driven ==
  /\ Active => request = NoRequest
  /\ (request # NoRequest /\ mishaps = {}) => Arriving
  /\ (Active /\ mishaps = {} /\ enroller.at \notin {"step", "scan", "apply"}) => Waking

IInv == TypeOK /\ CacheIsSaved /\ AppliesToItsOwn /\ Driven

\* Nothing that went wrong is forgotten.
LEMMA MishapsKept == ASSUME Next PROVE mishaps \subseteq mishaps'
  <1> USE DEF Missed, Mishandled, Fine, Send, Refused, Overlapping
  <1>1. CASE SetupBegin \/ ZigbeeBegin \/ MatchArm \/ MatchClaim \/ MatchLocal
    BY <1>1 DEF SetupBegin, ZigbeeBegin, MatchArm, MatchClaim, MatchLocal
  <1>2. CASE ZigbeeStep
    BY <1>2 DEF ZigbeeStep, ZigbeeClear, ZigbeeZero, Operate, PersistFailed
  <1>3. CASE MatchChange \/ MatchNote \/ MatchRemote \/ MatchKick
    BY <1>3 DEF MatchChange, MatchNote, MatchRemote, MatchKick, RunStepSoon, Operate,
                PersistFailed
  <1>4. ASSUME NEW t \in Editor, EditStep(t) PROVE mishaps \subseteq mishaps'
    BY <1>4 DEF EditStep, Ask, EmitStart, DeleteCheck, DeleteErase, DeleteForget, Operate,
                PersistFailed
  <1>5. CASE EnrolTake \/ EnrolBegin \/ EnrolSnapshot \/ EnrolScan
    BY <1>5 DEF EnrolTake, EnrolBegin, EnrolSnapshot, EnrolScan
  <1>6. CASE EnrolApply \/ EnrolCommit \/ EnrolRollback \/ EnrolFail
    BY <1>6 DEF EnrolApply, EnrolCommit, EnrolRollback, EnrolFail, PersistFailed
  <1>7. CASE Dispatch \/ TimerFire \/ Reset
    BY <1>7 DEF Dispatch, TimerFire, Reset
  <1>8. QED
    BY <1>1, <1>2, <1>3, <1>4, <1>5, <1>6, <1>7 DEF Next, MatchStep, EnrolStep

\* A section that changes the cache saves it, or fails at a write; a boot loads it,
\* or fails to read the record.
LEMMA CacheKept == ASSUME CacheIsSaved, Next PROVE CacheIsSaved'
  <1> USE DEF Persisted, PersistFailed, Mishandled, record
  <1>1. mishaps \subseteq mishaps'
    BY MishapsKept
  <1>2. CASE UNCHANGED record
    BY <1>1, <1>2 DEF CacheIsSaved
  <1>3. CASE "write" \in mishaps' \/ "read" \in mishaps' \/ cache' = nvs'
    BY <1>3 DEF CacheIsSaved
  <1>4. CASE SetupBegin \/ ZigbeeBegin \/ MatchArm \/ MatchClaim
    BY <1>2, <1>4 DEF SetupBegin, ZigbeeBegin, MatchArm, MatchClaim
  <1>5. CASE ZigbeeStep
    BY <1>2, <1>3, <1>5 DEF ZigbeeStep, ZigbeeClear, ZigbeeZero
  <1>6. CASE MatchStep
    BY <1>2, <1>3, <1>6 DEF MatchStep, MatchChange, MatchNote, MatchRemote, MatchKick,
                            MatchLocal
  <1>7. ASSUME NEW t \in Editor, EditStep(t) PROVE CacheIsSaved'
    BY <1>2, <1>3, <1>7 DEF EditStep, Ask, EmitStart, DeleteCheck, DeleteErase, DeleteForget
  <1>8. CASE EnrolStep
    BY <1>2, <1>3, <1>8 DEF EnrolStep, EnrolTake, EnrolBegin, EnrolSnapshot, EnrolScan,
                            EnrolApply, EnrolCommit, EnrolRollback, EnrolFail
  <1>9. CASE Dispatch \/ TimerFire
    BY <1>2, <1>9 DEF Dispatch, TimerFire
  <1>10. CASE Reset
    BY <1>3, <1>10 DEF Reset
  <1>11. QED
    BY <1>4, <1>5, <1>6, <1>7, <1>8, <1>9, <1>10 DEF Next

\* While the enroll task is at the sensor the machine is active, which keeps the
\* other tasks off it.
LEMMA OwnKept == ASSUME TypeOK, AppliesToItsOwn, Next PROVE AppliesToItsOwn'
  <1>1. CASE UNCHANGED <<sm, enroller>>
    BY <1>1 DEF AppliesToItsOwn
  <1>2. CASE enroller'.at \notin {"scan", "apply"}
    BY <1>2 DEF AppliesToItsOwn
  <1>3. enroller.at \in {"scan", "apply"} => Active
    BY DEF AppliesToItsOwn, TypeOK, MachineType, EnrollerState, Active, Idle, Step
  <1>4. CASE SetupBegin \/ ZigbeeBegin \/ ZigbeeStep \/ MatchArm \/ MatchClaim
    BY <1>1, <1>4 DEF SetupBegin, ZigbeeBegin, ZigbeeStep, ZigbeeClear, ZigbeeZero,
       MatchArm,
                      MatchClaim
  <1>5. CASE MatchStep
    <2>1. CASE MatchRemote
      BY <1>1, <1>2, <1>3, <2>1 DEF MatchRemote, CanStart
    <2>2. QED
      BY <1>1, <1>5, <2>1 DEF MatchStep, MatchChange, MatchNote, MatchKick, MatchLocal
  <1>6. ASSUME NEW t \in Editor, EditStep(t) PROVE AppliesToItsOwn'
    BY <1>1, <1>6 DEF EditStep, Ask, EmitStart, DeleteCheck, DeleteErase, DeleteForget
  <1>7. CASE EnrolTake \/ EnrolBegin
    BY <1>2, <1>7 DEF EnrolTake, EnrolBegin, Idle
  <1>8. CASE EnrolSnapshot \/ EnrolScan
    BY <1>8 DEF EnrolSnapshot, EnrolScan, Scanned, AppliesToItsOwn, Idle
  <1>9. CASE EnrolApply \/ EnrolCommit \/ EnrolRollback \/ EnrolFail
    BY <1>2, <1>9 DEF EnrolApply, EnrolCommit, EnrolRollback, EnrolFail, RollBack, Idle
  <1>10. CASE Dispatch \/ TimerFire
    BY <1>1, <1>10 DEF Dispatch, TimerFire
  <1>11. CASE Reset
    BY <1>2, <1>11 DEF Reset, Idle
  <1>12. QED
    BY <1>4, <1>5, <1>6, <1>7, <1>8, <1>9, <1>10, <1>11 DEF Next, EnrolStep

-----------------------------------------------------------------------------
(* Somebody drives an enrolment.                                           *)

\* What is in a queue stays there when another event joins it, ...
LEMMA HoldsAppended ==
  ASSUME NEW S, NEW q \in Seq(S), NEW e \in S, NEW types
  PROVE  /\ Holds(q, types) => Holds(Append(q, e), types)
         /\ e.type \in types => Holds(Append(q, e), types)
  <1>1. /\ DOMAIN q = 1 .. Len(q) /\ Len(q) \in Nat
        /\ DOMAIN Append(q, e) = 1 .. Len(q) + 1
        /\ \A i \in 1 .. Len(q) : Append(q, e)[i] = q[i]
        /\ Append(q, e)[Len(q) + 1] = e
    OBVIOUS
  <1>2. QED
    BY <1>1 DEF Holds

\* ... and when another one is taken off it.
LEMMA HoldsTaken ==
  ASSUME NEW S, NEW q \in Seq(S), q # <<>>, NEW types, Holds(q, types),
         Head(q).type \notin types
  PROVE  Holds(Tail(q), types)
  <1>1. PICK i \in DOMAIN q : q[i].type \in types
    BY DEF Holds
  <1>2. /\ DOMAIN q = 1 .. Len(q) /\ Len(q) \in Nat /\ i # 1
        /\ DOMAIN Tail(q) = 1 .. Len(q) - 1
        /\ \A j \in 1 .. Len(q) - 1 : Tail(q)[j] = q[j + 1]
    BY <1>1
  <1>3. i - 1 \in DOMAIN Tail(q) /\ Tail(q)[i - 1] = q[i]
    BY <1>1, <1>2
  <1>4. QED
    BY <1>1, <1>3 DEF Holds

\* A task takes a step of a change that tells nobody of an enrolment.
LEMMA Undisturbed ==
  ASSUME Driven, Next, UNCHANGED <<sm, request, queues, timer, enroller>>,
         \A t \in Editor : editor'[t] = editor[t] \/ editor[t].at \notin {"emit", "kick"}
  PROVE  Driven'
  <1>1. mishaps' = {} => mishaps = {}
    BY MishapsKept
  <1>2. Arriving => Arriving'
    BY DEF Arriving, queues, Holds
  <1>3. Waking => Waking'
    BY DEF Waking, queues, Holds, Editor
  <1>4. QED
    BY <1>1, <1>2, <1>3 DEF Driven, Active

\* A change of a task leaves where the others are.
LEMMA OnlyStepped ==
  ASSUME EditorType, NEW t \in Editor, NEW e, Goto(t, e)
  PROVE  editor'[t] = e /\ \A s \in Editor \ {t} : editor'[s] = editor[s]
  BY DEF EditorType, Goto

\* Deletions, permission changes, the wipe, and beginnings.
LEMMA ChangesDriven ==
  ASSUME Driven, EditorType, Next,
         \/ SetupBegin \/ ZigbeeBegin \/ ZigbeeStep \/ MatchArm \/ MatchClaim
         \/ MatchChange \/ MatchNote \/ MatchLocal
         \/ \E t \in Editor : DeleteCheck(t) \/ DeleteErase(t) \/ DeleteForget(t)
  PROVE  Driven'
  <1>1. UNCHANGED <<sm, request, queues, timer, enroller>>
    BY DEF SetupBegin, ZigbeeBegin, ZigbeeStep, ZigbeeClear, ZigbeeZero, MatchArm,
       MatchClaim,
           MatchChange, MatchNote, MatchLocal, DeleteCheck, DeleteErase, DeleteForget
  <1> DEFINE Kept == \A t \in Editor :
                      editor'[t] = editor[t] \/ editor[t].at \notin {"emit", "kick"}
  <1>2. CASE SetupBegin \/ ZigbeeBegin \/ ZigbeeStep
    <2>1. Kept
      BY <1>2 DEF SetupBegin, ZigbeeBegin, ZigbeeStep, ZigbeeClear, ZigbeeZero, Operate,
         Editor,
                  Idle, Goto, EditorType
    <2>2. QED
      BY <1>1, <2>1, Undisturbed
  <1>3. CASE MatchArm \/ MatchClaim \/ MatchChange \/ MatchNote \/ MatchLocal
    <2>1. Kept
      BY <1>3 DEF MatchArm, MatchClaim, MatchChange, MatchNote, MatchLocal, Operate, Editor,
                  Idle, Goto, EditorType
    <2>2. QED
      BY <1>1, <2>1, Undisturbed
  <1>4. CASE \E t \in Editor : DeleteCheck(t) \/ DeleteErase(t) \/ DeleteForget(t)
    <2>1. Kept
      BY <1>4 DEF DeleteCheck, DeleteErase, DeleteForget, Operate, Goto, EditorType
    <2>2. QED
      BY <1>1, <2>1, Undisturbed
  <1>5. QED
    BY <1>2, <1>3, <1>4

\* A request, and its event.
LEMMA AskDriven ==
  ASSUME TypeOK, Driven, Next, NEW t \in Editor, Ask(t)
  PROVE  Driven'
  <1>1. UNCHANGED <<sm, routed, inbox, timer, enroller>>
    BY DEF Ask, queues
  <1>2. /\ editor[t].at = "ask"
        /\ \A s \in Editor \ {t} : editor'[s] = editor[s]
        /\ request' # request =>
             CanRequest /\ editor'[t] = [editor[t] EXCEPT !.at = "emit"]
    BY DEF Ask, Goto, TypeOK, EditorType
  <1>3. [editor[t] EXCEPT !.at = "emit"].at = "emit"
    <2>1. editor[t] \in [at : {"ask", "emit"}, user : Users, perm : Granted]
      BY <1>2 DEF TypeOK, EditorType, EditorState, Idle
    <2>2. QED
      BY <2>1
  <1>4. CASE request' = request
    BY <1>1, <1>2, <1>4, Undisturbed DEF queues
  <1>5. CASE request' # request
    BY <1>1, <1>2, <1>3, <1>5 DEF Driven, Arriving, Active, CanRequest
  <1>6. QED
    BY <1>4, <1>5

\* The event of a request is in the queue, or lost.
LEMMA EmitStartDriven ==
  ASSUME TypeOK, Driven, Next, NEW t \in Editor, EmitStart(t)
  PROVE  Driven'
  <1>1. CASE Refused
    <2>1. mishaps' # {} /\ UNCHANGED sm /\ request' \in {request, NoRequest}
      BY <1>1 DEF Refused, Mishandled, EmitStart
    <2>2. QED
      BY <2>1 DEF Driven, Active
  <1>2. CASE ~Refused
    <2>1. /\ Emitted(StartEvent(editor[t])) /\ mishaps' = mishaps
          /\ UNCHANGED <<sm, request, inbox, timer, enroller>> /\ editor[t].at = "emit"
      BY <1>2 DEF EmitStart, Fine
    <2>2. StartEvent(editor[t]) \in RoutedEvent /\ StartEvent(editor[t]).type = "START"
      BY <2>1, Carried DEF StartEvent, RoutedEvent
    <2>3. Holds(routed', {"START"})
      BY <2>1, <2>2, HoldsAppended DEF Emitted, TypeOK, EventsType
    <2>4. \A s \in Editor : editor'[s] = editor[s] \/ editor[s].at # "kick"
      BY <2>1, OnlyStepped DEF EmitStart, TypeOK
    <2>5. Waking => Waking'
      BY <2>1, <2>4 DEF Waking, Holds, Editor
    <2>6. QED
      BY <2>1, <2>3, <2>5 DEF Driven, Arriving, Active
  <1>3. QED
    BY <1>1, <1>2

\* An authorized enrolment starts the machine, and the match task is to tell.
LEMMA MatchRemoteDriven ==
  ASSUME TypeOK, Driven, Next, MatchRemote
  PROVE  Driven'
  <1>1. UNCHANGED <<queues, timer, enroller>> /\ editor["match"].at = "remote" /\ "match" \in Editor
    BY DEF MatchRemote, Editor
  <1>2. CASE UNCHANGED <<sm, request>>
    <2>1. \A t \in Editor : editor'[t] = editor[t] \/ editor[t].at \notin {"emit", "kick"}
      BY <1>1 DEF MatchRemote, Goto, TypeOK, EditorType
    <2>2. QED
      BY <1>1, <1>2, <2>1, Undisturbed
  <1>3. CASE ~UNCHANGED <<sm, request>>
    <2>1. request' = NoRequest /\ editor'["match"] = [editor["match"] EXCEPT !.at = "kick"]
      BY <1>1, <1>3, OnlyStepped DEF MatchRemote, TypeOK
    <2>2. editor["match"] \in [at : {"armed", "remote", "kick"}, op : {"remote"},
                               user : Users, perm : Granted]
      BY <1>1 DEF TypeOK, EditorType, EditorState, Idle
    <2>3. editor'["match"].at = "kick"
      BY <2>1, <2>2
    <2>4. QED
      BY <2>1, <2>3 DEF Driven, Waking
  <1>4. QED
    BY <1>2, <1>3

\* An event put into the enroll task's queue is there, or lost.
LEMMA SentHolds ==
  ASSUME EventsType, NEW e \in Event, Send(e), mishaps' = {}
  PROVE  /\ \A types : Holds(inbox, types) => Holds(inbox', types)
         /\ \A types : e.type \in types => Holds(inbox', types)
  <1>1. inbox' = Append(inbox, e)
    BY DEF Send, Mishandled
  <1>2. QED
    BY <1>1, HoldsAppended DEF EventsType

\* It tells.
LEMMA MatchKickDriven ==
  ASSUME TypeOK, Driven, Next, MatchKick
  PROVE  Driven'
  <1>1. mishaps' = {} => mishaps = {}
    BY MishapsKept
  <1>2. /\ UNCHANGED <<sm, request, routed, timer, enroller>> /\ Send([type |-> "STEP"])
        /\ editor["match"].at = "kick" /\ "match" \in Editor /\ Goto("match", Idle)
    BY DEF MatchKick, RunStepSoon, Editor
  <1>3. mishaps' = {} => /\ Holds(inbox', {"STEP"})
                         /\ Holds(inbox, {"START"}) => Holds(inbox', {"START"})
    BY <1>2, SentHolds DEF Event, TypeOK
  <1>4. \A t \in Editor : editor'[t] = editor[t] \/ editor[t].at = "kick"
    BY <1>2 DEF Goto, TypeOK, EditorType
  <1>5. (mishaps' = {} /\ Arriving) => Arriving'
    BY <1>2, <1>3, <1>4 DEF Arriving, Holds
  <1>6. QED
    BY <1>1, <1>2, <1>3, <1>5 DEF Driven, Waking, Active

\* The router passes an event on, the timer adds one.
LEMMA DispatchDriven ==
  ASSUME TypeOK, Driven, Next, Dispatch
  PROVE  Driven'
  <1>1. mishaps' = {} => mishaps = {}
    BY MishapsKept
  <1>2. /\ UNCHANGED <<sm, request, timer, enroller, editor>> /\ Send(Head(routed))
        /\ routed # <<>> /\ routed' = Tail(routed) /\ Head(routed) \in Event
    BY RoutedType DEF Dispatch, TypeOK
  <1>3. mishaps' = {} => /\ \A types : Holds(inbox, types) => Holds(inbox', types)
                         /\ Head(routed).type = "START" => Holds(inbox', {"START"})
    BY <1>2, SentHolds DEF TypeOK
  <1>4. (Holds(routed, {"START"}) /\ Head(routed).type # "START") => Holds(routed', {"START"})
    BY <1>2, HoldsTaken DEF TypeOK, EventsType
  <1>5. mishaps' = {} => (Arriving => Arriving') /\ (Waking => Waking')
    BY <1>2, <1>3, <1>4 DEF Arriving, Waking
  <1>6. QED
    BY <1>1, <1>2, <1>5 DEF Driven, Active

LEMMA TimerFireDriven ==
  ASSUME TypeOK, Driven, Next, TimerFire
  PROVE  Driven'
  <1>1. mishaps' = {} => mishaps = {}
    BY MishapsKept
  <1>2. UNCHANGED <<sm, request, routed, enroller, editor>> /\ Send([type |-> "STEP"])
    BY DEF TimerFire
  <1>3. mishaps' = {} => /\ Holds(inbox', {"STEP"})
                         /\ Holds(inbox, {"START"}) => Holds(inbox', {"START"})
    BY <1>2, SentHolds DEF Event, TypeOK
  <1>4. (mishaps' = {} /\ Arriving) => Arriving'
    BY <1>2, <1>3 DEF Arriving, Holds
  <1>5. QED
    BY <1>1, <1>2, <1>3, <1>4 DEF Driven, Waking, Active

\* The enroll task takes an event: a START is the request itself, a STEP is on
\* its way to the machine, any other leaves those behind it in the queue.
LEMMA EnrolTakeDriven ==
  ASSUME TypeOK, Driven, Next, EnrolTake
  PROVE  Driven'
  <1>1. mishaps' = {} => mishaps = {}
    BY MishapsKept
  <1>2. /\ enroller = Idle /\ UNCHANGED <<routed, timer, editor>>
        /\ inbox # <<>> /\ inbox' = Tail(inbox) /\ inbox \in Seq(Event)
    BY DEF EnrolTake, TypeOK, EventsType
  <1>3. \A types : (Holds(inbox, types) /\ Head(inbox).type \notin types) => Holds(inbox', types)
    BY <1>2, HoldsTaken
  <1>4. CASE Head(inbox).type = "START"
    <2>1. \/ sm' = Inert
          \/ mishaps' # {} /\ UNCHANGED <<request, sm>>
      BY <1>4 DEF EnrolTake, Missed, Mishandled
    <2>2. enroller' = [at |-> "begin"]
      BY <1>4 DEF EnrolTake
    <2>3. QED
      BY <2>1, <2>2 DEF Driven, Arriving, Active, Inert
  <1>5. CASE Head(inbox).type # "START"
    <2>1. /\ UNCHANGED <<request, sm>>
          /\ Head(inbox).type = "STEP" =>
               enroller' = [at |-> "step"] \/ (Active => mishaps' # {})
          /\ Head(inbox).type # "STEP" => enroller' = enroller
      BY <1>5 DEF EnrolTake, Mishandled
    <2>2. Arriving => Arriving'
      BY <1>2, <1>3, <1>5 DEF Arriving, Idle, Holds
    <2>3. Head(inbox).type # "STEP" => (Waking => Waking')
      BY <1>2, <1>3 DEF Waking
    <2>4. (enroller.at = "idle" /\ enroller'.at \in {"idle", "step"}) \/ Head(inbox).type # "STEP"
      BY <1>2, <1>5 DEF EnrolTake, Idle
    <2>5. QED
      BY <1>1, <1>2, <2>1, <2>2, <2>3, <2>4 DEF Driven, Active, Idle
  <1>6. QED
    BY <1>4, <1>5

\* It starts the machine for the request.
LEMMA EnrolBeginDriven ==
  ASSUME TypeOK, Driven, Next, EnrolBegin
  PROVE  Driven'
  <1>1. mishaps' = {} => mishaps = {}
    BY MishapsKept
  <1>2. /\ UNCHANGED <<queues, timer, editor>> /\ enroller.at = "begin"
        /\ enroller' \in {Idle, [at |-> "step"]}
    BY DEF EnrolBegin
  <1>3. CASE request' = NoRequest /\ (enroller'.at = "step" \/ mishaps' # {})
    BY <1>3 DEF Driven
  <1>4. CASE UNCHANGED <<sm, request>>
    <2>1. Waking => Waking'
      BY <1>2 DEF Waking, queues, Holds
    <2>2. (mishaps' = {} /\ request # NoRequest) => Active
      BY <1>4 DEF EnrolBegin, CanStart, Missed, Mishandled
    <2>3. QED
      BY <1>1, <1>2, <1>4, <2>1, <2>2 DEF Driven, Active
  <1>5. QED
    BY <1>2, <1>3, <1>4 DEF EnrolBegin, Mishandled

\* It takes a snapshot of an active machine, and captures for it.
LEMMA EnrolCaptureDriven ==
  ASSUME TypeOK, Driven, Next, EnrolSnapshot \/ EnrolScan
  PROVE  Driven'
  <1>1. mishaps' = {} => mishaps = {}
    BY MishapsKept
  <1>2. UNCHANGED <<sm, request, queues, timer, editor>> /\ enroller.at # "begin"
    BY DEF EnrolSnapshot, EnrolScan
  <1>3. Active /\ mishaps' = {} => enroller'.at \in {"scan", "apply"}
    BY DEF EnrolSnapshot, EnrolScan, Scanned, Missed, Mishandled
  <1>4. Arriving => Arriving'
    BY <1>2 DEF Arriving, queues, Holds
  <1>5. QED
    BY <1>1, <1>2, <1>3, <1>4 DEF Driven, Active

\* It arms the timer for the next capture, or the machine is done with.
LEMMA EnrolApplyDriven ==
  ASSUME TypeOK, Driven, Next, EnrolApply
  PROVE  Driven'
  <1>1. mishaps' = {} => mishaps = {}
    BY MishapsKept
  <1>2. UNCHANGED <<request, queues, editor>> /\ enroller.at # "begin"
    BY DEF EnrolApply
  <1>3. \/ Active /\ timer' = TRUE
        \/ sm' = Inert
        \/ UNCHANGED sm /\ (Active => mishaps' # {})
    BY DEF EnrolApply, RunStepLater, Missed, Mishandled
  <1>4. Arriving => Arriving'
    BY <1>2 DEF Arriving, queues, Holds
  <1>5. QED
    BY <1>1, <1>2, <1>3, <1>4 DEF Driven, Active, Waking, Inert

\* What follows the last capture leaves a machine started meanwhile to the match
\* task, which has yet to tell.
LEMMA EnrolEndDriven ==
  ASSUME TypeOK, Driven, Next, EnrolCommit \/ EnrolRollback \/ EnrolFail
  PROVE  Driven'
  <1>1. mishaps' = {} => mishaps = {}
    BY MishapsKept
  <1>2. /\ UNCHANGED <<request, queues, timer, editor>>
        /\ enroller.at \in {"commit", "rollback", "fail"}
        /\ sm' = Inert \/ sm' = sm
    BY DEF EnrolCommit, EnrolRollback, EnrolFail
  <1>3. (Arriving => Arriving') /\ (Waking => Waking')
    BY <1>2 DEF Arriving, Waking, queues, Holds
  <1>4. QED
    BY <1>1, <1>2, <1>3 DEF Driven, Active, Inert

LEMMA DrivenKept == ASSUME TypeOK, Driven, Next PROVE Driven'
  <1>1. CASE \/ SetupBegin \/ ZigbeeBegin \/ ZigbeeStep \/ MatchArm \/ MatchClaim \/ MatchStep
    BY <1>1, ChangesDriven, MatchRemoteDriven, MatchKickDriven DEF MatchStep, TypeOK
  <1>2. ASSUME NEW t \in Editor, EditStep(t) PROVE Driven'
    BY <1>2, ChangesDriven, AskDriven, EmitStartDriven DEF EditStep, TypeOK
  <1>3. CASE EnrolStep
    BY <1>3, EnrolTakeDriven, EnrolBeginDriven, EnrolCaptureDriven, EnrolApplyDriven,
       EnrolEndDriven DEF EnrolStep
  <1>4. CASE Reset
    BY <1>4 DEF Reset, Driven, Active, Inert
  <1>5. QED
    BY <1>1, <1>2, <1>3, <1>4, DispatchDriven, TimerFireDriven DEF Next

-----------------------------------------------------------------------------
(* Theorems.                                                               *)

LEMMA InitIInv == Init => IInv
  <1> SUFFICES ASSUME Init PROVE IInv
    OBVIOUS
  <1>1. CopiesType
    BY DEF Init, CopiesType, Templates, Account, Permission
  <1>2. MachineType /\ EditorType /\ HistoryType
    BY DEF Init, MachineType, EnrollerState, EditorType, EditorState, HistoryType
  <1>3. <<>> \in Seq(Event) /\ <<>> \in Seq(RoutedEvent) /\ Len(<<>>) <= QueueDepth
    BY UsersAssumption
  <1>4. EventsType
    BY <1>3 DEF Init, EventsType
  <1>5. CacheIsSaved /\ AppliesToItsOwn
    BY DEF Init, CacheIsSaved, AppliesToItsOwn, Idle
  <1>6. Driven
    BY DEF Init, Driven, Active, Inert
  <1>7. QED
    BY <1>1, <1>2, <1>4, <1>5, <1>6 DEF IInv, TypeOK

LEMMA NextIInv == IInv /\ [Next]_vars => IInv'
  <1> SUFFICES ASSUME IInv, [Next]_vars PROVE IInv'
    OBVIOUS
  <1>1. CASE UNCHANGED vars
    <2> USE <1>1 DEF IInv, vars, record, queues, bounds
    <2>1. CopiesType' /\ MachineType' /\ EventsType'
      BY DEF TypeOK, CopiesType, MachineType, EventsType, Templates
    <2>2. EditorType' /\ HistoryType'
      BY DEF TypeOK, EditorType, HistoryType
    <2>3. CacheIsSaved' /\ AppliesToItsOwn'
      BY DEF CacheIsSaved, AppliesToItsOwn
    <2>4. Driven'
      BY DEF Driven, Active, Arriving, Waking, Holds
    <2>5. QED
      BY <2>1, <2>2, <2>3, <2>4 DEF TypeOK
  <1>2. CASE Next
    <2>1. TypeOK'
      BY <1>2, NextType DEF IInv
    <2>2. QED
      BY <1>2, <2>1, CacheKept, OwnKept, DrivenKept DEF IInv
  <1>3. QED
    BY <1>1, <1>2

\* The invariant holds of every behaviour.
THEOREM Invariance == Spec => []IInv
  BY InitIInv, NextIInv, PTL DEF Spec

\* The states are those of TypeOK, in particular the retries of an enrolment stay
\* within the policy's (sdf_enrollment_sm_apply_step_result_ex) and no queue
\* exceeds its depth.
THEOREM TypeCorrect == Spec => []TypeOK
  <1>1. IInv => TypeOK
    BY DEF IInv
  <1>2. QED
    BY <1>1, Invariance, PTL

\* For any users, retries and queues: every change of the users that no write
\* failed of is on record when its section ends, whatever tasks change and
\* wherever a reset falls (sdf_services_persist_enrolled_users_locked).
THEOREM SavedCache == Spec => []CacheIsSaved
  <1>1. IInv => CacheIsSaved
    BY DEF IInv
  <1>2. QED
    BY <1>1, Invariance, PTL

\* The capture made without the lock belongs to the enrolment it is applied to
\* (sdf_services_run_enrollment_step), with any number of users and requests.
THEOREM OwnResult == Spec => []AppliesToItsOwn
  <1>1. IInv => AppliesToItsOwn
    BY DEF IInv
  <1>2. QED
    BY <1>1, Invariance, PTL

\* An enrolment never waits for a step that nobody is going to take: the safety
\* part of its progress, for any users and queues.
THEOREM SomebodyDrives == Spec => []EnrolmentDriven
  <1>1. IInv => EnrolmentDriven
    <2> SUFFICES ASSUME IInv, ~CanRequest, mishaps = {}, enroller = Idle
                 PROVE  \/ timer \/ Holds(routed, {"START"}) \/ Holds(inbox, {"START", "STEP"})
                        \/ \E t \in Editor : editor[t].at \in {"emit", "kick"}
      BY DEF EnrolmentDriven
    <2>1. CASE request # NoRequest
      BY <2>1 DEF IInv, Driven, Arriving, Idle, Holds
    <2>2. CASE Active
      BY <2>2 DEF IInv, Driven, Waking, Idle, Holds, Editor
    <2>3. QED
      BY <2>1, <2>2 DEF CanRequest
  <1>2. QED
    BY <1>1, Invariance, PTL
=============================================================================
