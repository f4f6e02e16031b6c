--------------------------- MODULE SdfNukiLinkProofs ---------------------------
(***************************************************************************)
(* Proofs about SdfNukiLink: a connection that is wanted is sought, a flow *)
(* and a queued command are served, nothing is done at the lock that       *)
(* nobody asked for, for any retry policy and number of connections.       *)
(***************************************************************************)
EXTENDS SdfNukiLink, TLAPS

-----------------------------------------------------------------------------
(* The inductive invariant.                                                *)

Overlapped == "overlap" \in mishaps

\* NimBLE does what the state says, while one caller scans at a time.
ScanInv ==
  ~Overlapped =>
    /\ \A c, d \in Callers : calls[c] = "disc" /\ calls[d] = "disc" => c = d
    /\ \A c \in Callers : calls[c] = "disc" => state = "SCANNING" /\ gap = "none"
    /\ gap = "disc" => state = "SCANNING"
    /\ gap = "conn" => state = "CONNECTING"
    /\ link # "none" <=> state \in {"DISCOVERING", "READY"}
    /\ phase # "none" => state = "DISCOVERING"
    /\ link = "closing" => state = "READY"
    /\ ~synced => state = "IDLE"

\* A connection that is not wanted is neither sought nor kept.
WantedInv ==
  mishaps \cap {"overlap", "exhausted"} = {} /\ ~wanted =>
    state \notin {"SCANNING", "CONNECTING"} /\ link # "up"

\* A flow is not older than the connection.
BornInv == Ready /\ ~FlowIdle => born = session

\* Every action frame but the first is paid for by a retry.
FrameInv ==
  ~Overlapped =>
    /\ frames <= MaxRetries + 1
    /\ flow.state = "WAIT_CHALLENGE" => frames <= flow.retries
    /\ flow.state = "WAIT_COMPLETION" => frames <= flow.retries + 1

\* Each task carries the command it was asked for; only the Zigbee task asks for the
\* latch, and not while a latch sequence is active.
CommandInv ==
  /\ \A t \in Commander : /\ pc[t].at = "idle" => pc[t] = Idle
                          /\ pc[t].at # "idle" => pc[t].action \in Action
  /\ ~pc["app"].latch
  /\ pc["zigbee"].latch => ~latch

\* A queued command is whole, but for the one task that has yet to fill it in.
QueueInv ==
  "torn" \notin mishaps =>
    /\ ~pending.set => pending.action = None
    /\ \A t \in Commander : pc[t].at = "fill" => pending = [set |-> TRUE, action |-> None]
    /\ ~(pc["app"].at = "fill" /\ pc["zigbee"].at = "fill")

\* What is still to be begun: by a task, from the queue, or after the unlock of a latch
\* sequence.
Due(t, a) ==
  IF pc[t].at \in {"begin", "send", "queue", "fill"} /\ pc[t].action = a THEN 1 ELSE 0
Queued(a) == IF pending.set /\ pending.action = a THEN 1 ELSE 0
Unlatching == ~FlowIdle /\ flow.action = "UNLATCH"
Latched(a) ==
  IF a = "UNLATCH" /\ (pc["zigbee"].latch \/ (latch /\ ~Unlatching)) THEN 1 ELSE 0
Owed(a) == Due("app", a) + Due("zigbee", a) + Queued(a) + Latched(a)

\* Nothing is begun, or still to be begun, that was not asked for.
AskedInv ==
  mishaps \cap {"overlap", "torn"} = {} =>
    begun[None] = 0 /\ \A a \in Action : begun[a] + Owed(a) <= asked[a]

IInv ==
  /\ TypeOK /\ ScanInv /\ WantedInv /\ LinkDriven /\ BornInv /\ FrameInv
  /\ CommandInv /\ QueueInv /\ AskedInv /\ CommandsServed /\ LatchServed

-----------------------------------------------------------------------------
(* Types.                                                                  *)

\* Where a task is, a flow and a queued command.
Pc == [at: {"idle", "begin", "send", "queue", "fill", "resume", "return"},
       action: Action \cup {None}, latch: BOOLEAN]
Flow == [state: {"IDLE", "WAIT_CHALLENGE", "WAIT_COMPLETION"},
         action: Action \cup {None}, retries: 0..MaxRetries]
Pending == [set: BOOLEAN, action: Action \cup {None}]

\* What went wrong is one of the mishaps, and is not forgotten.
LEMMA MishapsStep ==
  ASSUME mishaps \subseteq Mishap, Next
  PROVE  mishaps \subseteq mishaps' /\ mishaps' \subseteq Mishap
<1> USE DEF Mishandled, Fine, Injected, Mishap, Fault
<1>1. CASE TransportNext
  BY <1>1 DEF TransportNext, Scan, Disc, Sync, Advertise, ConnectFails, Connected, Discovering,
     Exchanged, Discovered, Subscribed, GattFails, Disconnect, TimerFires, ScheduleReconnect
<1>2. CASE AskMatched \/ AskZigbee \/ AskLatch \/ AskPairing \/ PairingReturn
  BY <1>2 DEF AskMatched, AskZigbee, AskLatch, AskPairing, PairingReturn, Ask, Written
<1>3. ASSUME NEW t \in Commander, Commanding(t)
      PROVE  mishaps \subseteq mishaps' /\ mishaps' \subseteq Mishap
  BY <1>3 DEF Commanding, Begin, Send, SendFails, Queue, Fill, Resume, Return, Accepted, Overlap
<1>4. CASE BecomesReady \/ Challenge \/ Trouble \/ Complete \/ KeyturnerStates \/ PairingMessage
  BY <1>4 DEF BecomesReady, Challenge, Trouble, Complete, KeyturnerStates, PairingMessage,
     PairingAdvances, PairingCompletes, PairingRejected, PairingFails, Written
<1> QED
  BY <1>1, <1>2, <1>3, <1>4 DEF Next

\* The steps of the transport, whoever makes them.
LEMMA TransportTypes ==
  ASSUME TransportAssumption, TransportTypeOK, mishaps' \subseteq Mishap,
         \/ TransportNext \/ BecomeReady \/ Stop \/ UNCHANGED transport
         \/ \E c \in Callers : /\ Start(c) /\ attempt' \in {0, attempt}
                               /\ UNCHANGED <<state, synced, reconnect, gap, link, phase, cached,
                                              session>>
  PROVE  TransportTypeOK'
<1> USE DEF TransportTypeOK, TransportState, Phase
<1>1. \A from \in TransportState : ScheduleReconnect(from) =>
        state' \in TransportState /\ wanted' \in BOOLEAN /\ attempt' \in 0..255 /\ reconnect' \in BOOLEAN
  <2>1. \A n \in 0..255 : (n + 1) % 256 \in 0..255
    OBVIOUS
  <2> SUFFICES ASSUME NEW from \in TransportState, ScheduleReconnect(from)
               PROVE  /\ state' \in TransportState /\ wanted' \in BOOLEAN
                      /\ attempt' \in 0..255 /\ reconnect' \in BOOLEAN
    OBVIOUS
  <2>2. wanted' \in BOOLEAN /\ reconnect' \in BOOLEAN
    BY DEF ScheduleReconnect
  <2>3. state' \in TransportState
    BY DEF ScheduleReconnect
  <2>4. attempt' \in 0..255
    BY <2>1 DEF ScheduleReconnect
  <2> QED
    BY <2>2, <2>3, <2>4
<1>2. CASE \E c \in Callers : Scan(c) \/ Disc(c)
  BY <1>2 DEF Scan, Disc
<1>3. CASE Sync \/ Advertise \/ Discovering \/ TimerFires
  <2>1. CASE Sync \/ Advertise
    <3>1. synced' \in BOOLEAN
      BY <2>1 DEF Sync, Advertise
    <3> QED
      BY <2>1, <3>1 DEF Sync, Advertise
  <2>2. CASE Discovering
    <3>1. phase' \in Phase /\ cached' \in BOOLEAN
      BY <2>2 DEF Discovering, Exchanged, Discovered, Subscribed, GattFails
    <3> QED
      BY <2>2, <3>1 DEF Discovering
  <2>3. CASE TimerFires
    <3>1. calls' \in [Callers -> {"none", "scan", "disc"}]
      BY <2>3 DEF TimerFires
    <3>2. reconnect' \in BOOLEAN
      BY <2>3 DEF TimerFires
    <3>3. UNCHANGED <<state, wanted, synced, attempt, gap, link, phase, cached, session>>
      BY <2>3 DEF TimerFires
    <3> QED
      BY <3>1, <3>2, <3>3
  <2> QED
    BY <1>3, <2>1, <2>2, <2>3
<1>4. CASE Connected
  <2>1. session' \in 0..MaxSessions
    BY <1>4 DEF Connected, TransportAssumption
  <2> QED
    BY <1>4, <2>1 DEF Connected
<1>5. CASE ConnectFails \/ Disconnect
  BY <1>1, <1>5 DEF ConnectFails, Disconnect
<1>6. CASE BecomeReady \/ Stop \/ UNCHANGED transport
  <2>1. CASE BecomeReady
    BY <2>1 DEF BecomeReady
  <2>2. CASE Stop
    <3>1. wanted' \in BOOLEAN /\ reconnect' \in BOOLEAN
      BY <2>2 DEF Stop
    <3> QED
      BY <2>2, <3>1 DEF Stop
  <2>3. CASE UNCHANGED transport
    BY <2>3 DEF transport
  <2> QED
    BY <1>6, <2>1, <2>2, <2>3
<1>7. CASE \E c \in Callers : /\ Start(c) /\ attempt' \in {0, attempt}
                              /\ UNCHANGED <<state, synced, reconnect, gap, link, phase, cached,
                                             session>>
  BY <1>7 DEF Start
<1> QED
  BY <1>2, <1>3, <1>4, <1>5, <1>6, <1>7 DEF TransportNext

\* A step of the link is a step of the transport, or one of those that the commands
\* and the pairing make.
LEMMA TransportStep ==
  ASSUME LinkAssumption, Next
  PROVE  \/ TransportNext /\ UNCHANGED <<app, history>>
         \/ BecomesReady /\ BecomeReady
         \/ KeyturnerStates /\ Stop
         \/ \E t \in Commander : Resume(t) /\ Start(t) /\ attempt' = 0
                                 /\ UNCHANGED <<state, synced, reconnect, gap, link, phase, cached,
                                                session>>
         \/ AskPairing /\ Start("match")
            /\ UNCHANGED <<state, synced, attempt, reconnect, gap, link, phase, cached, session>>
         \/ UNCHANGED transport
<1>1. CASE AskMatched \/ AskZigbee \/ AskLatch \/ AskPairing \/ PairingReturn
  BY <1>1 DEF AskMatched, AskZigbee, AskLatch, AskPairing, PairingReturn, Ask
<1>2. ASSUME NEW t \in Commander, Commanding(t)
      PROVE  \/ UNCHANGED transport
             \/ Resume(t) /\ Start(t) /\ attempt' = 0
                /\ UNCHANGED <<state, synced, reconnect, gap, link, phase, cached, session>>
  BY <1>2 DEF Commanding, Begin, Send, SendFails, Queue, Fill, Resume, Return
<1>3. CASE BecomesReady \/ Challenge \/ Trouble \/ Complete \/ KeyturnerStates \/ PairingMessage
  BY <1>3 DEF BecomesReady, Challenge, Trouble, Complete, KeyturnerStates, PairingMessage
<1> QED
  BY <1>1, <1>2, <1>3 DEF Next

\* Where a task goes.
LEMMA Gone ==
  ASSUME pc \in [Tasks -> Pc], NEW t \in Tasks
  PROVE  /\ \A p \in {"idle", "begin", "send", "queue", "fill", "resume", "return"} :
              Goto(t, p) =>
                /\ pc' \in [Tasks -> Pc]
                /\ pc'[t].at = p /\ pc'[t].action = pc[t].action /\ pc'[t].latch = pc[t].latch
                /\ \A u \in Tasks \ {t} : pc'[u] = pc[u]
         /\ Done(t) => /\ pc' \in [Tasks -> Pc]
                       /\ pc'[t] = Idle /\ Idle.at = "idle" /\ Idle.latch = FALSE
                       /\ \A u \in Tasks \ {t} : pc'[u] = pc[u]
<1>1. ASSUME NEW p \in {"idle", "begin", "send", "queue", "fill", "resume", "return"}, Goto(t, p)
      PROVE  /\ pc' \in [Tasks -> Pc]
             /\ pc'[t].at = p /\ pc'[t].action = pc[t].action /\ pc'[t].latch = pc[t].latch
             /\ \A u \in Tasks \ {t} : pc'[u] = pc[u]
  <2>1. PICK n \in Pc : n = [pc[t] EXCEPT !.at = p] /\ n.at = p /\ n.action = pc[t].action
                        /\ n.latch = pc[t].latch
    <3>1. \A m \in Pc : /\ [m EXCEPT !.at = p] \in Pc /\ [m EXCEPT !.at = p].at = p
                        /\ [m EXCEPT !.at = p].action = m.action
                        /\ [m EXCEPT !.at = p].latch = m.latch
      BY DEF Pc
    <3> QED
      BY <3>1
  <2>2. pc' = [pc EXCEPT ![t] = n]
    BY <1>1, <2>1 DEF Goto
  <2> QED
    BY <2>1, <2>2
<1>2. ASSUME Done(t)
      PROVE  /\ pc' \in [Tasks -> Pc] /\ pc'[t] = Idle /\ Idle.at = "idle" /\ Idle.latch = FALSE
             /\ \A u \in Tasks \ {t} : pc'[u] = pc[u]
  <2>1. Idle \in Pc /\ Idle.at = "idle" /\ Idle.latch = FALSE
    BY DEF Idle, Pc
  <2> HIDE DEF Idle
  <2> QED
    BY <1>2, <2>1 DEF Done
<1> QED
  BY <1>1, <1>2

\* Steps of the lock flow.
LEMMA FlowTypes ==
  ASSUME LinkAssumption, TypeOK
  PROVE  /\ NoFlow \in Flow
         /\ \A a \in Action \cup {None} :
              /\ [NoFlow EXCEPT !.action = a] \in Flow
              /\ [state |-> "WAIT_CHALLENGE", action |-> a, retries |-> 0] \in Flow
         /\ \A s \in {"WAIT_CHALLENGE", "WAIT_COMPLETION"} :
              /\ [flow EXCEPT !.state = s] \in Flow
              /\ [flow EXCEPT !.state = s].state = s
              /\ [flow EXCEPT !.state = s].action = flow.action
              /\ [flow EXCEPT !.state = s].retries = flow.retries
         /\ \A ok \in BOOLEAN : Retry(ok) => flow' \in Flow /\ latch' \in BOOLEAN
<1> USE DEF Flow
<1>1. flow \in Flow /\ latch \in BOOLEAN
  BY DEF TypeOK
<1>2. 0 \in 0..MaxRetries
  BY DEF LinkAssumption
<1>3. \A a \in Action \cup {None} : /\ [NoFlow EXCEPT !.action = a] \in Flow
                                    /\ [state |-> "WAIT_CHALLENGE", action |-> a, retries |-> 0] \in Flow
  BY <1>2 DEF NoFlow
<1>4. NoFlow \in Flow
  BY <1>2 DEF NoFlow
<1>5. \A s \in {"WAIT_CHALLENGE", "WAIT_COMPLETION"} :
              /\ [flow EXCEPT !.state = s] \in Flow
              /\ [flow EXCEPT !.state = s].state = s
              /\ [flow EXCEPT !.state = s].action = flow.action
              /\ [flow EXCEPT !.state = s].retries = flow.retries
  BY <1>1
<1>6. ASSUME NEW ok \in BOOLEAN, Retry(ok) PROVE flow' \in Flow /\ latch' \in BOOLEAN
  <2>1. CASE /\ flow' = [flow EXCEPT !.state = "WAIT_CHALLENGE", !.retries = @ + 1]
             /\ flow.retries < MaxRetries /\ UNCHANGED latch
    <3>1. flow.retries + 1 \in 0..MaxRetries
      BY <1>1, <2>1 DEF LinkAssumption
    <3> QED
      BY <1>1, <2>1, <3>1
  <2>2. CASE flow' = NoFlow /\ latch' = FALSE
    BY <1>4, <2>2
  <2> QED
    BY <1>6, <2>1, <2>2 DEF Retry
<1> QED
  BY <1>3, <1>4, <1>5, <1>6

\* The counts.
LEMMA CountTypes ==
  ASSUME LinkAssumption, TypeOK
  PROVE  /\ \A a \in Action \cup {None} : Born(a) =>
              /\ begun' \in [Action \cup {None} -> Nat] /\ frames' = 0 /\ born' = session
              /\ begun'[a] = begun[a] + 1
              /\ \A b \in (Action \cup {None}) \ {a} : begun'[b] = begun[b]
              /\ UNCHANGED <<asks, asked>>
         /\ \A S : Asks(S) =>
              /\ asks' \in 0..MaxAsks /\ asked' \in [Action -> Nat]
              /\ \A a \in Action : asked'[a] = IF a \in S THEN asked[a] + 1 ELSE asked[a]
              /\ UNCHANGED <<begun, born, frames>>
<1>1. begun \in [Action \cup {None} -> Nat] /\ asked \in [Action -> Nat] /\ asks \in 0..MaxAsks
  BY DEF TypeOK
<1>2. ASSUME NEW a \in Action \cup {None}, Born(a)
      PROVE  /\ begun' \in [Action \cup {None} -> Nat] /\ frames' = 0 /\ born' = session
             /\ begun'[a] = begun[a] + 1
             /\ \A b \in (Action \cup {None}) \ {a} : begun'[b] = begun[b]
             /\ UNCHANGED <<asks, asked>>
  BY <1>1, <1>2 DEF Born
<1>3. ASSUME NEW S, Asks(S)
      PROVE  /\ asks' \in 0..MaxAsks /\ asked' \in [Action -> Nat]
             /\ \A a \in Action : asked'[a] = IF a \in S THEN asked[a] + 1 ELSE asked[a]
             /\ UNCHANGED <<begun, born, frames>>
  BY <1>1, <1>3 DEF Asks, LinkAssumption
<1> QED
  BY <1>2, <1>3

\* Every step keeps the types.
LEMMA TypeStep ==
  ASSUME TransportAssumption, LinkAssumption, TypeOK, Next
  PROVE  TypeOK'
<1> DEFINE Counts == /\ asks' \in 0..MaxAsks /\ born' \in 0..MaxSessions /\ frames' \in Nat
                     /\ asked' \in [Action -> Nat] /\ begun' \in [Action \cup {None} -> Nat]
           Apps == /\ flow' \in Flow /\ pending' \in Pending /\ latch' \in BOOLEAN
                   /\ requested' \in BOOLEAN /\ creds' \in BOOLEAN /\ pairing' \in PairingStates
                   /\ pc' \in [Tasks -> Pc]
<1>1. TransportTypeOK'
  <2>1. Commander \subseteq Callers /\ "match" \in Callers
    BY DEF Commander, Callers, LinkAssumption
  <2>2. TransportTypeOK /\ mishaps' \subseteq Mishap
    BY MishapsStep DEF TypeOK, TransportTypeOK
  <2> QED
    BY <2>1, <2>2, TransportStep, TransportTypes
<1> SUFFICES Counts /\ Apps
  BY <1>1 DEF TypeOK, Flow, Pending, Pc
<1>2. /\ flow \in Flow /\ pending \in Pending /\ latch \in BOOLEAN /\ requested \in BOOLEAN
      /\ creds \in BOOLEAN /\ pairing \in PairingStates /\ pc \in [Tasks -> Pc]
      /\ asks \in 0..MaxAsks /\ born \in 0..MaxSessions /\ frames \in Nat
      /\ asked \in [Action -> Nat] /\ begun \in [Action \cup {None} -> Nat]
      /\ session \in 0..MaxSessions
  BY DEF TypeOK, Flow, Pending, Pc, TransportTypeOK
<1>3. Commander \subseteq Tasks /\ "match" \in Tasks
  BY DEF Commander, LinkAssumption
<1>4. /\ \A a \in Action \cup {None} : Born(a) => Counts
      /\ \A S : Asks(S) => Counts
      /\ UNCHANGED history => Counts
  <2>1. ASSUME NEW a \in Action \cup {None}, Born(a) PROVE Counts
    BY <1>2, <2>1, CountTypes
  <2>2. ASSUME NEW S, Asks(S) PROVE Counts
    BY <1>2, <2>2, CountTypes
  <2>3. UNCHANGED history => Counts
    BY <1>2 DEF history
  <2> QED
    BY <2>1, <2>2, <2>3
<1>5. NoPending \in Pending /\ NoFlow \in Flow
  BY FlowTypes DEF NoPending, Pending
<1>6. /\ \A a \in Action \cup {None} : HostBegin(a) => flow' \in Flow /\ Counts
      /\ \A ok \in BOOLEAN : Retry(ok) => flow' \in Flow /\ latch' \in BOOLEAN
  BY <1>4, FlowTypes DEF HostBegin
<1>7. \A ok \in BOOLEAN : StartPairing(ok) =>
        requested' \in BOOLEAN /\ creds' \in BOOLEAN /\ pairing' \in PairingStates
  BY <1>2 DEF StartPairing, PairingStates, Waits
<1>8. ASSUME NEW t \in Tasks, NEW a \in Action, NEW l \in BOOLEAN, Ask(t, a, l)
      PROVE  Counts /\ Apps
  <2>1. [at |-> IF Ready THEN "begin" ELSE "queue", action |-> a, latch |-> l] \in Pc
    BY DEF Pc
  <2>2. pc' \in [Tasks -> Pc]
    BY <1>2, <1>8, <2>1 DEF Ask
  <2> QED
    BY <1>2, <1>4, <1>8, <2>2 DEF Ask, joint
<1>9. CASE AskMatched \/ AskZigbee \/ AskLatch
  BY <1>3, <1>8, <1>9 DEF AskMatched, AskZigbee, AskLatch, Action, Commander
<1>10. CASE AskPairing \/ PairingReturn
  <2>1. pc' \in [Tasks -> Pc]
    BY <1>2, <1>3, <1>10, Gone DEF AskPairing, PairingReturn
  <2>2. Counts
    BY <1>4, <1>10 DEF AskPairing, PairingReturn
  <2>3. requested' \in BOOLEAN /\ creds' \in BOOLEAN /\ pairing' \in PairingStates
    BY <1>2, <1>7, <1>10 DEF AskPairing, PairingReturn, joint
  <2> QED
    BY <1>2, <1>10, <2>1, <2>2, <2>3 DEF AskPairing, PairingReturn
<1>11. ASSUME NEW t \in Commander, Commanding(t) PROVE Counts /\ Apps
  <2>1. t \in Tasks /\ pc[t] \in Pc
    BY <1>2, <1>3
  <2>2. pc[t].action \in Action \cup {None} /\ flow.action \in Action \cup {None}
    BY <1>2, <2>1 DEF Pc, Flow
  <2>3. pc' \in [Tasks -> Pc]
    BY <1>2, <1>11, <2>1, Gone DEF Commanding, Begin, Send, SendFails, Queue, Fill, Resume, Return,
       Accepted
  <2>4. Counts
    BY <1>4, <1>11, <2>2 DEF Commanding, Begin, Send, SendFails, Queue, Fill, Resume, Return
  <2>5. flow' \in Flow
    BY <1>2, <1>5, <1>11, <2>2, FlowTypes DEF Commanding, Begin, Send, SendFails, Queue, Fill,
       Resume, Return
  <2>6. pending' \in Pending
    <3>1. [pending EXCEPT !.set = TRUE] \in Pending /\ [pending EXCEPT !.action = pc[t].action] \in Pending
      BY <1>2, <2>2 DEF Pending
    <3> QED
      BY <1>2, <1>11, <3>1 DEF Commanding, Begin, Send, SendFails, Queue, Fill, Resume, Return
  <2>7. latch' \in BOOLEAN
    BY <1>2, <1>11 DEF Commanding, Begin, Send, SendFails, Queue, Fill, Resume, Return, Accepted
  <2>8. UNCHANGED joint
    BY <1>11 DEF Commanding, Begin, Send, SendFails, Queue, Fill, Resume, Return
  <2> QED
    BY <1>2, <2>3, <2>4, <2>5, <2>6, <2>7, <2>8 DEF joint
<1>12. CASE BecomesReady
  <2>1. pending.action \in Action \cup {None}
    BY <1>2 DEF Pending
  <2>2. Counts /\ flow' \in Flow /\ pending' \in Pending
    BY <1>2, <1>4, <1>5, <1>6, <1>12, <2>1 DEF BecomesReady, StaleFlow, Dispatched
  <2>3. latch' \in BOOLEAN /\ UNCHANGED pc
    BY <1>12 DEF BecomesReady, LatchLeft
  <2>4. requested' \in BOOLEAN /\ creds' \in BOOLEAN /\ pairing' \in PairingStates
    <3>1. UNCHANGED joint \/ \E ok \in BOOLEAN : StartPairing(ok)
      BY <1>12 DEF BecomesReady
    <3> QED
      BY <1>2, <1>7, <3>1 DEF joint
  <2> QED
    BY <1>2, <2>2, <2>3, <2>4
<1>13. CASE Challenge \/ Trouble \/ Complete
  <2>1. UNCHANGED <<pending, joint, pc>>
    BY <1>13 DEF Challenge, Trouble, Complete
  <2>2. Counts
    <3>1. frames + 1 \in Nat
      BY <1>2
    <3>2. CASE Challenge
      BY <1>2, <1>4, <3>1, <3>2 DEF Challenge
    <3>3. CASE Trouble
      BY <1>4, <3>3 DEF Trouble
    <3>4. CASE Complete
      BY <1>4, <1>6, <3>4 DEF Complete, Action
    <3> QED
      BY <1>13, <3>2, <3>3, <3>4
  <2>3. flow' \in Flow /\ latch' \in BOOLEAN
    <3>1. CASE Challenge
      BY <1>2, <1>6, <3>1, FlowTypes DEF Challenge
    <3>2. CASE Trouble
      BY <1>6, <3>2 DEF Trouble
    <3>3. CASE Complete
      BY <1>2, <1>5, <1>6, <3>3 DEF Complete, Action
    <3> QED
      BY <1>13, <3>1, <3>2, <3>3
  <2> QED
    BY <1>2, <2>1, <2>2, <2>3 DEF joint
<1>14. CASE KeyturnerStates \/ (TransportNext /\ UNCHANGED <<app, history>>)
  <2>1. UNCHANGED <<app, history>>
    BY <1>14 DEF KeyturnerStates
  <2> QED
    BY <1>2, <1>4, <2>1 DEF app, joint
<1>15. CASE PairingMessage
  <2>1. pairing' \in PairingStates
    BY <1>15 DEF PairingMessage, PairingAdvances, PairingCompletes, PairingRejected, PairingFails,
       After, PairingStates, Waits
  <2>2. creds' \in BOOLEAN
    BY <1>2, <1>15 DEF PairingMessage, PairingAdvances, PairingCompletes, PairingRejected, PairingFails
  <2>3. UNCHANGED <<flow, pending, latch, requested, pc, history>>
    BY <1>15 DEF PairingMessage
  <2> QED
    BY <1>2, <1>4, <2>1, <2>2, <2>3
<1> QED
  BY <1>9, <1>10, <1>11, <1>12, <1>13, <1>14, <1>15 DEF Next

-----------------------------------------------------------------------------
(* The connection.                                                         *)

\* One caller scans at a time, and NimBLE does what the state says.
LEMMA ScanStep ==
  ASSUME TransportAssumption, LinkAssumption, TypeOK, ScanInv, Next
  PROVE  ScanInv'
<1> SUFFICES ASSUME "overlap" \notin mishaps'
             PROVE  /\ \A c, d \in Callers : calls'[c] = "disc" /\ calls'[d] = "disc" => c = d
                    /\ \A c \in Callers : calls'[c] = "disc" => state' = "SCANNING" /\ gap' = "none"
                    /\ gap' = "disc" => state' = "SCANNING"
                    /\ gap' = "conn" => state' = "CONNECTING"
                    /\ link' # "none" <=> state' \in {"DISCOVERING", "READY"}
                    /\ phase' # "none" => state' = "DISCOVERING"
                    /\ link' = "closing" => state' = "READY"
                    /\ ~synced' => state' = "IDLE"
  BY DEF ScanInv, Overlapped
<1>1. TransportTypeOK /\ calls \in [Callers -> {"none", "scan", "disc"}]
  BY DEF TypeOK, TransportTypeOK
<1>2. "overlap" \notin mishaps
  BY <1>1, MishapsStep DEF TransportTypeOK
<1>3. /\ \A c, d \in Callers : calls[c] = "disc" /\ calls[d] = "disc" => c = d
      /\ \A c \in Callers : calls[c] = "disc" => state = "SCANNING" /\ gap = "none"
      /\ gap = "disc" => state = "SCANNING"
      /\ gap = "conn" => state = "CONNECTING"
      /\ link # "none" <=> state \in {"DISCOVERING", "READY"}
      /\ phase # "none" => state = "DISCOVERING"
      /\ link = "closing" => state = "READY"
      /\ ~synced => state = "IDLE"
  BY <1>2 DEF ScanInv, Overlapped
<1>4. ASSUME NEW c \in Callers, Scan(c)
      PROVE  /\ \A b, d \in Callers : calls'[b] = "disc" /\ calls'[d] = "disc" => b = d
             /\ \A d \in Callers : calls'[d] = "disc" => state' = "SCANNING" /\ gap' = "none"
             /\ gap' = "disc" => state' = "SCANNING"
             /\ gap' = "conn" => state' = "CONNECTING"
             /\ link' # "none" <=> state' \in {"DISCOVERING", "READY"}
             /\ phase' # "none" => state' = "DISCOVERING"
             /\ link' = "closing" => state' = "READY"
             /\ ~synced' => state' = "IDLE"
  <2>1. \A d \in Callers \ {c} : calls[d] # "disc" /\ calls'[d] # "disc"
    BY <1>1, <1>4 DEF Scan, Mishandled
  <2>2. CASE synced /\ wanted /\ state \in Scannable
    <3>1. /\ state' = "SCANNING" /\ UNCHANGED <<synced, link, phase>>
          /\ gap' = IF state = "SCANNING" /\ gap = "disc" THEN "none" ELSE gap
      BY <1>4, <2>2 DEF Scan
    <3>2. gap' = "none"
      BY <1>1, <1>3, <2>2, <3>1 DEF Scannable, TransportTypeOK
    <3> QED
      BY <1>3, <2>1, <2>2, <3>1, <3>2 DEF Scannable
  <2>3. CASE ~(synced /\ wanted /\ state \in Scannable)
    <3>1. calls' = [calls EXCEPT ![c] = "none"] /\ UNCHANGED <<state, gap, synced, link, phase>>
      BY <1>4, <2>3 DEF Scan
    <3> QED
      BY <1>1, <1>3, <2>1, <3>1
  <2> QED
    BY <2>2, <2>3
<1>5. ASSUME NEW c \in Callers, Disc(c)
      PROVE  /\ \A b \in Callers : calls'[b] # "disc"
             /\ state' \in {"SCANNING", "IDLE"} /\ gap' \in {"disc", "none"}
             /\ gap' = "disc" => state' = "SCANNING"
             /\ link' = "none" /\ phase' = "none"
             /\ ~synced' => state' = "IDLE"
  <2>1. state = "SCANNING" /\ gap = "none" /\ calls' = [calls EXCEPT ![c] = "none"]
        /\ UNCHANGED <<synced, link, phase>>
    BY <1>3, <1>5 DEF Disc
  <2>2. \A b \in Callers : calls'[b] # "disc"
    BY <1>1, <1>3, <1>5, <2>1 DEF Disc
  <2> QED
    BY <1>1, <1>3, <1>5, <2>1, <2>2 DEF Disc, TransportTypeOK, Phase
<1>6. \A from \in TransportState : ScheduleReconnect(from) => state' \in {from, "IDLE"}
  BY DEF ScheduleReconnect
<1>7. CASE TransportNext
  <2>1. CASE Sync \/ Advertise
    BY <1>1, <1>3, <2>1 DEF Sync, Advertise
  <2>2. CASE ConnectFails
    <3>1. state' \in {state, "IDLE"} /\ gap' = "none" /\ UNCHANGED <<synced, calls, link, phase>>
      BY <1>1, <1>6, <2>2 DEF ConnectFails, TransportTypeOK
    <3> QED
      BY <1>1, <1>3, <2>2, <3>1 DEF ConnectFails
  <2>3. CASE Connected
    BY <1>1, <1>3, <2>3 DEF Connected
  <2>4. CASE Discovering
    <3>1. phase # "none"
      BY <2>4 DEF Discovering, Exchanged, Discovered, Subscribed, GattFails
    <3> QED
      BY <1>3, <2>4, <3>1 DEF Discovering
  <2>5. CASE Disconnect
    <3>1. state' = "IDLE"
      BY <1>6, <2>5 DEF Disconnect, TransportState
    <3> QED
      BY <1>1, <1>3, <2>5, <3>1 DEF Disconnect, TransportTypeOK
  <2>6. CASE TimerFires
    <3>1. \A c \in Callers : calls'[c] = "disc" => calls[c] = "disc"
      BY <1>1, <2>6 DEF TimerFires
    <3> QED
      BY <1>3, <2>6, <3>1 DEF TimerFires
  <2> QED
    BY <1>4, <1>5, <1>7, <2>1, <2>2, <2>3, <2>4, <2>5, <2>6 DEF TransportNext
<1>8. ASSUME NEW c \in Callers, Start(c), UNCHANGED <<state, synced, gap, link, phase>>
      PROVE  ScanInv'
  <2>1. \A d \in Callers : calls'[d] = "disc" => calls[d] = "disc"
    BY <1>1, <1>8 DEF Start
  <2> QED
    BY <1>3, <1>8, <2>1 DEF ScanInv
<1>9. CASE BecomeReady
  BY <1>3, <1>9 DEF BecomeReady
<1>10. CASE KeyturnerStates /\ Stop
  BY <1>3, <1>10 DEF KeyturnerStates, Heard, Ready, Stop
<1>11. CASE UNCHANGED transport
  BY <1>3, <1>11 DEF transport
<1>12. Commander \subseteq Callers /\ "match" \in Callers
  BY DEF Commander, Callers, LinkAssumption
<1>13. (\E c \in Callers : Start(c) /\ UNCHANGED <<state, synced, gap, link, phase>>) => ScanInv'
  BY <1>8
<1>14. CASE ScanInv'
  BY <1>14 DEF ScanInv, Overlapped
<1> QED
  BY <1>7, <1>9, <1>10, <1>11, <1>12, <1>13, <1>14, TransportStep

\* A connection that is not wanted is neither sought nor kept.
LEMMA WantedStep ==
  ASSUME TransportAssumption, LinkAssumption, TypeOK, ScanInv, WantedInv, Next
  PROVE  WantedInv'
<1> SUFFICES ASSUME mishaps' \cap {"overlap", "exhausted"} = {}, ~wanted'
             PROVE  state' \notin {"SCANNING", "CONNECTING"} /\ link' # "up"
  BY DEF WantedInv
<1>1. TransportTypeOK /\ mishaps \cap {"overlap", "exhausted"} = {}
  BY MishapsStep DEF TypeOK, TransportTypeOK
<1>2. /\ ~wanted => state \notin {"SCANNING", "CONNECTING"} /\ link # "up"
      /\ gap = "disc" => state = "SCANNING"
      /\ gap = "conn" => state = "CONNECTING"
      /\ link = "closing" => state = "READY"
      /\ phase # "none" => state = "DISCOVERING"
      /\ link # "none" <=> state \in {"DISCOVERING", "READY"}
  BY <1>1 DEF WantedInv, ScanInv, Overlapped
<1>3. \A from \in TransportState : ScheduleReconnect(from) => wanted' = wanted /\ state' = from
  BY DEF ScheduleReconnect, Mishandled
<1>4. CASE \E c \in Callers : Scan(c) \/ Disc(c)
  BY <1>2, <1>4 DEF Scan, Disc
<1>5. CASE Sync \/ Advertise \/ Connected \/ TimerFires
  BY <1>2, <1>5 DEF Sync, Advertise, Connected, TimerFires
<1>6. CASE ConnectFails \/ Disconnect
  <2>1. wanted' = wanted
    BY <1>1, <1>3, <1>6 DEF ConnectFails, Disconnect, TransportTypeOK, TransportState
  <2>2. ConnectFails => state' = state /\ UNCHANGED link
    BY <1>1, <1>3 DEF ConnectFails, TransportTypeOK
  <2>3. Disconnect => state' = "IDLE" /\ link' = "none"
    BY <1>3 DEF Disconnect, TransportState
  <2> QED
    BY <1>2, <1>6, <2>1, <2>2, <2>3
<1>7. CASE Discovering
  BY <1>2, <1>7 DEF Discovering
<1>8. CASE BecomeReady \/ (KeyturnerStates /\ Stop)
  BY <1>2, <1>8 DEF BecomeReady, Stop, KeyturnerStates, Heard, Ready
<1>9. (\A c : ~Start(c)) /\ (UNCHANGED transport => UNCHANGED <<wanted, state, link>>)
  BY DEF Start, transport
<1> QED
  BY <1>2, <1>4, <1>5, <1>6, <1>7, <1>8, <1>9, TransportStep DEF TransportNext

\* A connection that is wanted is sought.
LEMMA DrivenStep ==
  ASSUME TransportAssumption, LinkAssumption, TypeOK, ScanInv, LinkDriven, Next
  PROVE  LinkDriven'
<1> DEFINE Drives == \/ reconnect' \/ gap' = "conn" \/ link' # "none"
                     \/ state' = "SCANNING" /\ gap' = "disc"
                     \/ \E c \in Callers : calls'[c] # "none"
<1> SUFFICES ASSUME wanted', synced', state' \in {"IDLE", "SCANNING"},
                    mishaps' \cap {"scan", "overlap"} = {}
             PROVE  Drives
  BY DEF LinkDriven
<1>1. /\ TransportTypeOK /\ mishaps \cap {"scan", "overlap"} = {}
      /\ calls \in [Callers -> {"none", "scan", "disc"}]
  BY MishapsStep DEF TypeOK, TransportTypeOK
<1>2. wanted /\ synced /\ state \in {"IDLE", "SCANNING"} =>
        \/ reconnect \/ gap = "conn" \/ link # "none"
        \/ state = "SCANNING" /\ gap = "disc"
        \/ \E c \in Callers : calls[c] # "none"
  BY <1>1 DEF LinkDriven
<1>3. /\ \A c \in Callers : calls[c] = "disc" => state = "SCANNING" /\ gap = "none"
      /\ phase # "none" => state = "DISCOVERING"
      /\ ~synced => state = "IDLE"
      /\ link # "none" <=> state \in {"DISCOVERING", "READY"}
  BY <1>1 DEF ScanInv, Overlapped
<1>4. ASSUME NEW c \in Callers, Scan(c) PROVE Drives
  <2>1. CASE synced /\ wanted /\ state \in Scannable
    <3>1. calls'[c] = "disc"
      BY <1>1, <1>4, <2>1 DEF Scan
    <3> QED
      BY <3>1
  <2>2. CASE ~(synced /\ wanted /\ state \in Scannable)
    <3>1. UNCHANGED <<state, synced, wanted>>
      BY <1>4, <2>2 DEF Scan
    <3> QED
      BY <2>2, <3>1 DEF Scannable
  <2> QED
    BY <2>1, <2>2
<1>5. ASSUME NEW c \in Callers, Disc(c) PROVE Drives
  <2>1. state = "SCANNING" /\ gap = "none"
    BY <1>3, <1>5 DEF Disc
  <2>2. gap' = "disc" /\ UNCHANGED state
    BY <1>5, <2>1 DEF Disc, Injected, Mishandled
  <2> QED
    BY <2>1, <2>2
<1>6. CASE Sync
  BY <1>6 DEF Sync, Injected, Mishandled
<1>7. ~Advertise /\ ~Connected
  BY DEF Advertise, Connected
<1>8. \A from : ScheduleReconnect(from) => reconnect'
  BY DEF ScheduleReconnect
<1>9. CASE ConnectFails \/ Disconnect
  BY <1>8, <1>9 DEF ConnectFails, Disconnect
<1>10. ~Discovering
  BY <1>3 DEF Discovering, Exchanged, Discovered, Subscribed, GattFails
<1>11. CASE TimerFires
  <2>1. calls' = [calls EXCEPT !["timer"] = "scan"] /\ "timer" \in Callers
    BY <1>11 DEF TimerFires, Callers
  <2>2. calls'["timer"] # "none"
    BY <1>1, <2>1
  <2> QED
    BY <2>1, <2>2
<1>12. ASSUME NEW c \in Callers, Start(c) PROVE Drives
  <2>1. calls'[c] # "none"
    BY <1>1, <1>12 DEF Start
  <2> QED
    BY <2>1
<1>13. Commander \subseteq Callers /\ "match" \in Callers
  BY DEF Commander, Callers, LinkAssumption
<1>14. ~BecomeReady /\ ~Stop
  BY DEF BecomeReady, Stop
<1>15. CASE UNCHANGED transport
  BY <1>2, <1>15 DEF transport
<1> HIDE DEF Drives
<1> QED
  BY <1>4, <1>5, <1>6, <1>7, <1>9, <1>10, <1>11, <1>12, <1>13, <1>14, <1>15, TransportStep
     DEF TransportNext

-----------------------------------------------------------------------------
(* The flow.                                                               *)

\* The steps that may change the flow, the queued command, the latch and where the tasks
\* are.
LEMMA Frames ==
  ASSUME Next
  PROVE  /\ \/ UNCHANGED <<flow, frames, born>>
            \/ \E t \in Commander : Begin(t) \/ Send(t) \/ SendFails(t)
            \/ BecomesReady \/ Challenge \/ Trouble \/ Complete
         /\ \/ UNCHANGED pending
            \/ \E t \in Commander : Queue(t) \/ Fill(t)
            \/ BecomesReady
         /\ \/ UNCHANGED latch
            \/ \E t \in Commander : Return(t)
            \/ BecomesReady \/ Challenge \/ Trouble \/ Complete
         /\ \/ UNCHANGED pc
            \/ AskMatched \/ AskZigbee \/ AskLatch \/ AskPairing \/ PairingReturn
            \/ \E t \in Commander : Commanding(t)
         /\ \/ UNCHANGED begun
            \/ \E t \in Commander : Send(t)
            \/ BecomesReady \/ Complete
<1>1. CASE TransportNext /\ UNCHANGED <<app, history>>
  BY <1>1 DEF app, history
<1>2. CASE AskMatched \/ AskZigbee \/ AskLatch \/ AskPairing \/ PairingReturn
  BY <1>2 DEF AskMatched, AskZigbee, AskLatch, AskPairing, PairingReturn, Ask, Asks, history
<1>3. ASSUME NEW t \in Commander, Commanding(t)
      PROVE  /\ UNCHANGED <<flow, frames, born>> \/ Begin(t) \/ Send(t) \/ SendFails(t)
             /\ UNCHANGED pending \/ Queue(t) \/ Fill(t)
             /\ UNCHANGED latch \/ Return(t)
             /\ UNCHANGED begun \/ Send(t)
  BY <1>3 DEF Commanding, Queue, Fill, Resume, Return, Begin, Send, SendFails, history
<1>4. CASE BecomesReady \/ Challenge \/ Trouble \/ Complete
  BY <1>4 DEF BecomesReady, Challenge, Trouble, Complete, history
<1>5. CASE KeyturnerStates \/ PairingMessage
  BY <1>5 DEF KeyturnerStates, PairingMessage, app, history
<1> QED
  BY <1>1, <1>2, <1>3, <1>4, <1>5 DEF Next

\* How the flow moves on: it begins for the action it is about, is sent once more, or ends.
LEMMA RetryMoves ==
  ASSUME LinkAssumption, TypeOK, NEW ok \in BOOLEAN, Retry(ok)
  PROVE  \/ /\ flow'.state = "WAIT_CHALLENGE" /\ flow'.retries = flow.retries + 1
            /\ flow'.action = flow.action /\ flow.retries < MaxRetries /\ UNCHANGED latch
         \/ flow' = NoFlow /\ latch' = FALSE
<1>1. flow \in Flow
  BY DEF TypeOK, Flow
<1>2. CASE /\ flow' = [flow EXCEPT !.state = "WAIT_CHALLENGE", !.retries = @ + 1]
           /\ flow.retries < MaxRetries /\ UNCHANGED latch
  <2>1. /\ flow'.state = "WAIT_CHALLENGE" /\ flow'.retries = flow.retries + 1
        /\ flow'.action = flow.action
    BY <1>1, <1>2 DEF Flow
  <2> QED
    BY <1>2, <2>1
<1> QED
  BY <1>2 DEF Retry

\* A flow that waits was begun on this connection.
LEMMA BornStep ==
  ASSUME LinkAssumption, TypeOK, BornInv, Next
  PROVE  BornInv'
<1> SUFFICES ASSUME state' = "READY", flow'.state # "IDLE"
             PROVE  born' = session'
  BY DEF BornInv, Ready, FlowIdle
<1> USE DEF Ready, FlowIdle
<1>1. CASE TransportNext /\ UNCHANGED <<app, history>>
  <2>1. \A from : ScheduleReconnect(from) => state' \in {from, "IDLE"}
    BY DEF ScheduleReconnect
  <2>2. state = "READY" /\ UNCHANGED session
    BY <1>1, <2>1 DEF TransportNext, Scan, Disc, Sync, Advertise, ConnectFails, Connected, Discovering,
       Disconnect, TimerFires
  <2> QED
    BY <1>1, <2>2 DEF BornInv, app, history
<1>2. CASE BecomesReady
  <2>1. NoFlow.state = "IDLE"
    BY DEF NoFlow
  <2> QED
    BY <1>2, <2>1 DEF BecomesReady, BecomeReady, HostBegin, StaleFlow, Born
<1>3. CASE UNCHANGED <<state, session>>
  <2>1. CASE UNCHANGED <<flow, frames, born>>
    BY <1>3, <2>1 DEF BornInv
  <2>2. ASSUME NEW t \in Commander, Begin(t) PROVE born' = session'
    <3>1. [NoFlow EXCEPT !.action = pc[t].action].state = "IDLE"
      BY DEF NoFlow
    <3> QED
      BY <1>3, <2>2, <3>1 DEF Begin, BornInv, history
  <2>3. ASSUME NEW t \in Commander, Send(t) PROVE born' = session'
    BY <1>3, <2>3 DEF Send, Born
  <2>4. ASSUME NEW t \in Commander, SendFails(t) PROVE FALSE
    BY <2>4 DEF SendFails, NoFlow
  <2>5. CASE Challenge \/ Trouble \/ Complete
    BY <1>3, <2>5 DEF Challenge, Trouble, Complete, HostBegin, Born, BornInv, history, NoFlow, Retry
  <2> QED
    BY <1>2, <2>1, <2>2, <2>3, <2>4, <2>5, Frames
<1> QED
  BY <1>1, <1>2, <1>3, TransportStep DEF Stop, transport

\* Every action frame but the first is paid for by a retry.
LEMMA FrameStep ==
  ASSUME LinkAssumption, TypeOK, FrameInv, Next
  PROVE  FrameInv'
<1> SUFFICES ASSUME "overlap" \notin mishaps'
             PROVE  /\ frames' <= MaxRetries + 1
                    /\ flow'.state = "WAIT_CHALLENGE" => frames' <= flow'.retries
                    /\ flow'.state = "WAIT_COMPLETION" => frames' <= flow'.retries + 1
  BY DEF FrameInv, Overlapped
<1>1. /\ frames <= MaxRetries + 1
      /\ flow.state = "WAIT_CHALLENGE" => frames <= flow.retries
      /\ flow.state = "WAIT_COMPLETION" => frames <= flow.retries + 1
  BY MishapsStep DEF FrameInv, Overlapped, TypeOK, TransportTypeOK
<1>2. flow \in Flow /\ frames \in Nat /\ MaxRetries \in Nat
  BY DEF TypeOK, Flow, LinkAssumption
<1>3. NoFlow.state = "IDLE" /\ NoFlow.retries = 0
  BY DEF NoFlow
<1>4. CASE UNCHANGED <<flow, frames, born>>
  BY <1>1, <1>4
<1>5. ASSUME NEW t \in Commander, Begin(t)
      PROVE  UNCHANGED frames /\ (UNCHANGED flow \/ flow'.state = "IDLE")
  <2>1. [NoFlow EXCEPT !.action = pc[t].action].state = "IDLE"
    BY DEF NoFlow
  <2> QED
    BY <1>5, <2>1 DEF Begin, history
<1>6. ASSUME NEW t \in Commander, Send(t)
      PROVE  frames' = 0 /\ flow'.state = "WAIT_CHALLENGE" /\ flow'.retries = 0
  <2>1. flow = [NoFlow EXCEPT !.action = pc[t].action]
    BY <1>6 DEF Send, Overlap
  <2>2. flow.retries = 0
    BY <2>1 DEF NoFlow
  <2>3. flow'.state = "WAIT_CHALLENGE" /\ flow'.retries = flow.retries
    BY <1>6, FlowTypes DEF Send
  <2> QED
    BY <1>6, <2>2, <2>3 DEF Send, Born
<1>7. ASSUME NEW t \in Commander, SendFails(t)
      PROVE  UNCHANGED frames /\ flow'.state = "IDLE"
  BY <1>3, <1>7 DEF SendFails, history
<1>8. \A a : HostBegin(a) => frames' = 0 /\ flow'.state = "WAIT_CHALLENGE" /\ flow'.retries = 0
  BY DEF HostBegin, Born
<1>9. CASE BecomesReady
  <2>1. (\E a : HostBegin(a)) \/ (flow' = NoFlow /\ UNCHANGED frames)
    BY <1>9 DEF BecomesReady, StaleFlow, history
  <2> QED
    BY <1>1, <1>2, <1>3, <1>8, <2>1
<1>10. ASSUME NEW ok \in BOOLEAN, Retry(ok), UNCHANGED frames, flow.state # "IDLE"
       PROVE  \/ flow'.state = "IDLE"
              \/ flow'.state = "WAIT_CHALLENGE" /\ frames' <= flow'.retries
  <2>1. flow.state \in {"WAIT_CHALLENGE", "WAIT_COMPLETION"} /\ flow.retries \in Nat
    BY <1>2, <1>10 DEF Flow
  <2>2. frames <= flow.retries + 1
    BY <1>1, <1>2, <2>1
  <2>3. \/ flow'.state = "WAIT_CHALLENGE" /\ flow'.retries = flow.retries + 1
        \/ flow' = NoFlow
    BY <1>10, RetryMoves
  <2> QED
    BY <1>3, <1>10, <2>2, <2>3
<1>11. CASE Challenge
  <2>1. CASE flow' = [flow EXCEPT !.state = "WAIT_COMPLETION"] /\ frames' = frames + 1
    <3>1. /\ flow'.state = "WAIT_COMPLETION" /\ flow'.retries = flow.retries
          /\ flow.retries \in 0..MaxRetries /\ frames <= flow.retries
      BY <1>1, <1>2, <1>11, <2>1, FlowTypes DEF Challenge, Flow
    <3> QED
      BY <1>2, <2>1, <3>1
  <2>2. CASE UNCHANGED history /\ \E ok \in BOOLEAN : Retry(ok)
    BY <1>1, <1>10, <1>11, <2>2 DEF Challenge, history
  <2> QED
    BY <1>11, <2>1, <2>2 DEF Challenge
<1>12. CASE Trouble
  BY <1>1, <1>10, <1>12 DEF Trouble, history, FlowIdle
<1>13. CASE Complete
  BY <1>1, <1>2, <1>3, <1>8, <1>13 DEF Complete, history
<1> QED
  BY <1>1, <1>2, <1>4, <1>5, <1>6, <1>7, <1>9, <1>11, <1>12, <1>13, Frames

-----------------------------------------------------------------------------
(* The commands.                                                           *)

\* Only its own steps move a task that commands.
LEMMA TaskMoves ==
  ASSUME LinkAssumption, TypeOK, Next, NEW t \in Commander, pc'[t] # pc[t]
  PROVE  \/ /\ pc[t].at = "idle" /\ pc'[t].at \in {"begin", "queue"} /\ pc'[t].action \in Action
            /\ pc'[t].latch => t = "zigbee" /\ AskLatch
         \/ /\ Commanding(t) /\ pc[t].at # "idle" /\ pc'[t].at # "idle"
            /\ pc'[t].action = pc[t].action /\ pc'[t].latch = pc[t].latch
         \/ Commanding(t) /\ pc[t].at # "idle" /\ pc'[t] = Idle /\ Idle.latch = FALSE
<1>1. pc \in [Tasks -> Pc] /\ Commander \subseteq Tasks /\ "match" \in Tasks \ Commander
  BY DEF TypeOK, Pc, Commander, LinkAssumption
<1>2. ASSUME NEW u \in Commander, NEW a \in Action, NEW l \in BOOLEAN, Ask(u, a, l)
      PROVE  /\ u = t /\ pc[t].at = "idle"
             /\ pc'[t].at \in {"begin", "queue"} /\ pc'[t].action = a /\ pc'[t].latch = l
  <2> DEFINE n == [at |-> IF Ready THEN "begin" ELSE "queue", action |-> a, latch |-> l]
  <2>1. /\ pc' = [pc EXCEPT ![u] = n] /\ n.at \in {"begin", "queue"}
        /\ n.action = a /\ n.latch = l
    BY <1>2 DEF Ask
  <2> HIDE DEF n
  <2>2. u = t /\ pc'[t] = n
    BY <1>1, <2>1
  <2> QED
    BY <1>2, <2>1, <2>2 DEF Ask, At
<1>3. CASE AskMatched \/ AskZigbee \/ AskLatch
  BY <1>2, <1>3 DEF AskMatched, AskZigbee, AskLatch, Action, Commander
<1>4. ASSUME NEW u \in Commander, Commanding(u)
      PROVE  /\ u = t /\ pc[t].at # "idle"
             /\ \/ /\ pc'[t].at # "idle" /\ pc'[t].action = pc[t].action /\ pc'[t].latch = pc[t].latch
                \/ pc'[t] = Idle /\ Idle.latch = FALSE
  <2>1. \/ \E p \in {"send", "queue", "fill", "resume", "return"} : Goto(u, p)
        \/ Done(u)
    BY <1>4 DEF Commanding, Begin, Send, SendFails, Queue, Fill, Resume, Return, Accepted
  <2>2. pc[u].at # "idle"
    BY <1>4 DEF Commanding, Begin, Send, SendFails, Queue, Fill, Resume, Return, At
  <2>3. \A v \in Tasks \ {u} : pc'[v] = pc[v]
    <3>1. CASE Done(u)
      BY <1>1, <3>1, Gone
    <3>2. CASE \E p \in {"send", "queue", "fill", "resume", "return"} : Goto(u, p)
      BY <1>1, <3>2, Gone
    <3> QED
      BY <2>1, <3>1, <3>2
  <2>4. u = t
    BY <1>1, <2>3
  <2> QED
    BY <1>1, <2>1, <2>2, <2>4, Gone
<1>5. AskPairing \/ PairingReturn => pc'[t] = pc[t]
  <2>1. AskPairing \/ PairingReturn => Goto("match", "return") \/ Done("match")
    BY DEF AskPairing, PairingReturn
  <2> QED
    BY <1>1, <2>1, Gone
<1> QED
  BY <1>3, <1>4, <1>5, Frames

\* A step of a task leaves the others where they are.
LEMMA OthersStay ==
  ASSUME LinkAssumption, TypeOK, NEW t \in Commander, Commanding(t)
  PROVE  \A u \in Commander \ {t} : pc'[u] = pc[u]
<1>1. pc \in [Tasks -> Pc] /\ Commander \subseteq Tasks
  BY DEF TypeOK, Pc, Commander, LinkAssumption
<1>2. \/ \E p \in {"send", "queue", "fill", "resume", "return"} : Goto(t, p)
      \/ Done(t)
  BY DEF Commanding, Begin, Send, SendFails, Queue, Fill, Resume, Return, Accepted
<1>3. CASE Done(t)
  BY <1>1, <1>3, Gone
<1>4. CASE \E p \in {"send", "queue", "fill", "resume", "return"} : Goto(t, p)
  BY <1>1, <1>4, Gone
<1> QED
  BY <1>2, <1>3, <1>4

\* What begins a latch sequence.
LEMMA LatchBegins ==
  ASSUME LinkAssumption, TypeOK, CommandInv, Next, latch'
  PROVE  \/ latch
         \/ Return("zigbee") /\ pc["zigbee"].latch
<1>1. CASE \E t \in Commander : Return(t)
  BY <1>1 DEF Return, Accepted, CommandInv, Commander
<1>2. CASE BecomesReady
  BY <1>2 DEF BecomesReady, LatchLeft
<1>3. CASE Challenge \/ Trouble \/ Complete
  BY <1>3, RetryMoves DEF Challenge, Trouble, Complete
<1> QED
  BY <1>1, <1>2, <1>3, Frames

\* Each task carries the command it was asked for.
LEMMA CommandStep ==
  ASSUME LinkAssumption, TypeOK, CommandInv, Next
  PROVE  CommandInv'
<1>1. \A t \in Commander : /\ pc[t].at = "idle" => pc[t] = Idle
                           /\ pc[t].at # "idle" => pc[t].action \in Action
  BY DEF CommandInv
<1>2. Idle.at = "idle"
  BY DEF Idle
<1>3. ASSUME NEW t \in Commander
      PROVE  /\ pc'[t].at = "idle" => pc'[t] = Idle
             /\ pc'[t].at # "idle" => pc'[t].action \in Action
  BY <1>1, <1>2, TaskMoves
<1>4. "app" \in Commander /\ "zigbee" \in Commander
  BY DEF Commander
<1>5. ~pc'["app"].latch
  BY <1>4, TaskMoves DEF CommandInv
<1>6. pc'["zigbee"].latch => ~latch'
  <2> SUFFICES ASSUME pc'["zigbee"].latch, latch' PROVE FALSE
    OBVIOUS
  <2>1. CASE Return("zigbee")
    <3>1. Done("zigbee")
      BY <2>1 DEF Return, Accepted
    <3>2. pc \in [Tasks -> Pc] /\ "zigbee" \in Tasks
      BY DEF TypeOK, Pc, LinkAssumption
    <3> QED
      BY <3>1, <3>2, Gone
  <2>2. CASE latch
    <3>1. ~pc["zigbee"].latch
      BY <2>2 DEF CommandInv
    <3>2. AskLatch
      BY <1>4, <3>1, TaskMoves
    <3> QED
      BY <2>2, <3>2 DEF AskLatch
  <2> QED
    BY <2>1, <2>2, LatchBegins
<1> QED
  BY <1>3, <1>5, <1>6 DEF CommandInv

\* A queued command is whole, but for one that a task has yet to fill in.
LEMMA QueueStep ==
  ASSUME LinkAssumption, TypeOK, CommandInv, QueueInv, Next
  PROVE  QueueInv'
<1> DEFINE Filled == /\ ~pending'.set => pending'.action = None
                     /\ \A t \in Commander :
                          pc'[t].at = "fill" => pending' = [set |-> TRUE, action |-> None]
                     /\ ~(pc'["app"].at = "fill" /\ pc'["zigbee"].at = "fill")
<1> SUFFICES ASSUME "torn" \notin mishaps' PROVE Filled
  BY DEF QueueInv
<1>1. /\ ~pending.set => pending.action = None
      /\ \A t \in Commander : pc[t].at = "fill" => pending = [set |-> TRUE, action |-> None]
      /\ ~(pc["app"].at = "fill" /\ pc["zigbee"].at = "fill")
  BY MishapsStep DEF QueueInv, TypeOK, TransportTypeOK
<1>2. /\ pending \in Pending /\ pc \in [Tasks -> Pc] /\ Commander \subseteq Tasks
      /\ Commander = {"app", "zigbee"}
  BY DEF TypeOK, Pending, Pc, Commander, LinkAssumption
<1>3. ASSUME NEW t \in Commander, ~Queue(t) PROVE pc'[t].at = "fill" => pc[t].at = "fill"
  <2>1. Idle.at = "idle"
    BY DEF Idle
  <2>2. Commanding(t) => pc'[t].at # "fill"
    <3>1. Commanding(t) =>
            Done(t) \/ \E p \in {"send", "return", "resume"} : Goto(t, p)
      BY <1>3 DEF Commanding, Begin, Send, SendFails, Fill, Resume, Return, Accepted
    <3> QED
      BY <1>2, <3>1, Gone
  <2> QED
    BY <2>1, <2>2, TaskMoves
<1>4. ASSUME NEW t \in Commander, Queue(t) PROVE Filled
  <2>1. \A u \in Commander \ {t} : pc'[u] = pc[u]
    BY <1>4, OthersStay DEF Commanding
  <2>2. CASE ~pending.set /\ pending' = [pending EXCEPT !.set = TRUE] /\ Goto(t, "fill")
    <3>1. pending' = [set |-> TRUE, action |-> None]
      BY <1>1, <1>2, <2>2 DEF Pending
    <3>2. \A u \in Commander : pc[u].at # "fill"
      BY <1>1, <2>2
    <3> QED
      BY <1>2, <2>1, <3>1, <3>2
  <2>3. CASE UNCHANGED pending /\ (Goto(t, "resume") \/ Done(t))
    <3>1. pc'[t].at # "fill"
      BY <1>2, <2>3, Gone
    <3> QED
      BY <1>1, <1>2, <2>1, <2>3, <3>1
  <2> QED
    BY <1>4, <2>2, <2>3 DEF Queue
<1>5. ASSUME NEW t \in Commander, Fill(t) PROVE Filled
  <2>1. \A u \in Commander \ {t} : pc'[u] = pc[u]
    BY <1>5, OthersStay DEF Commanding
  <2>2. pc[t].at = "fill" /\ pc'[t].at = "resume"
    BY <1>2, <1>5, Gone DEF Fill, At
  <2>3. pending'.set
    <3>1. pending = [set |-> TRUE, action |-> None]
      BY <1>1, <2>2
    <3> QED
      BY <1>5, <3>1 DEF Fill
  <2>4. \A u \in Commander : pc'[u].at # "fill"
    BY <1>1, <1>2, <2>1, <2>2
  <2> QED
    BY <1>2, <2>3, <2>4
<1>6. CASE BecomesReady
  <2>1. CASE pending' = NoPending /\ pending.set /\ pending.action # None
    <3>1. \A u \in Commander : pc[u].at # "fill"
      BY <1>1, <2>1
    <3>2. \A u \in Commander : pc'[u].at # "fill"
      BY <1>6, <3>1 DEF BecomesReady
    <3> QED
      BY <1>2, <2>1, <3>2 DEF NoPending
  <2>2. CASE UNCHANGED pending
    BY <1>1, <1>6, <2>2 DEF BecomesReady
  <2> QED
    BY <1>6, <2>1, <2>2 DEF BecomesReady, Dispatched, Mishandled
<1>7. CASE UNCHANGED pending /\ \A t \in Commander : ~Queue(t)
  BY <1>1, <1>2, <1>3, <1>7
<1> QED
  BY <1>4, <1>5, <1>6, <1>7, Frames

-----------------------------------------------------------------------------
(* What is asked for is served, and nothing else.                          *)

\* What a task sends, when no other has begun a flow meanwhile.
LEMMA SendsItsOwn ==
  ASSUME NEW t \in Commander, Send(t) \/ SendFails(t), "overlap" \notin mishaps'
  PROVE  flow.state = "IDLE" /\ flow.action = pc[t].action
<1>1. flow = [NoFlow EXCEPT !.action = pc[t].action]
  BY DEF Send, SendFails, Overlap
<1> QED
  BY <1>1 DEF NoFlow

\* A connection that is wanted stays so, unless its attempts are exhausted or it is
\* released.
LEMMA StaysWanted ==
  ASSUME LinkAssumption, Next, wanted, "exhausted" \notin mishaps'
  PROVE  wanted' \/ (KeyturnerStates /\ UNCHANGED <<app, history>>)
<1>1. \A from : ScheduleReconnect(from) => wanted'
  BY DEF ScheduleReconnect, Mishandled
<1>2. TransportNext => wanted'
  BY <1>1 DEF TransportNext, Scan, Disc, Sync, Advertise, ConnectFails, Connected, Discovering,
     Disconnect, TimerFires
<1> QED
  BY <1>2, TransportStep DEF BecomeReady, Start, KeyturnerStates, transport

\* A connection on which the lock can be written to is wanted, or being released.
LEMMA ReadyIsWanted ==
  ASSUME TypeOK, ScanInv, WantedInv, mishaps \cap {"overlap", "exhausted"} = {},
         \/ Ready /\ link # "closing"
         \/ phase # "none"
  PROVE  wanted
<1>1. link \in {"none", "up", "closing"}
  BY DEF TypeOK, TransportTypeOK
<1>2. link = "up"
  BY <1>1 DEF ScanInv, Overlapped, Ready
<1> QED
  BY <1>2 DEF WantedInv

\* A flow that waits has a connection that is wanted, and a queued command one that is
\* to come.
LEMMA ServedStep ==
  ASSUME LinkAssumption, TypeOK, ScanInv, WantedInv, CommandsServed, Next
  PROVE  CommandsServed'
<1>1. mishaps \subseteq mishaps'
  BY MishapsStep DEF TypeOK, TransportTypeOK
<1>2. /\ pc \in [Tasks -> Pc] /\ Commander \subseteq Tasks
      /\ flow \in Flow /\ pending \in Pending
  BY DEF TypeOK, Pc, Commander, LinkAssumption, Flow, Pending
<1>3. KeyturnerStates => flow.state = "IDLE" /\ ~pending.set
  BY DEF KeyturnerStates, Kept, FlowIdle
<1>4. flow'.state # "IDLE" => wanted' \/ mishaps' \cap {"closing", "exhausted", "overlap"} # {}
  <2> SUFFICES ASSUME flow'.state # "IDLE",
                      mishaps' \cap {"closing", "exhausted", "overlap"} = {}
               PROVE  wanted'
    OBVIOUS
  <2>1. CASE flow.state # "IDLE"
    <3>1. wanted
      BY <1>1, <2>1 DEF CommandsServed, FlowIdle
    <3> QED
      BY <1>3, <2>1, <3>1, StaysWanted
  <2>2. CASE flow.state = "IDLE"
    <3>1. (\E t \in Commander : Send(t)) \/ BecomesReady
      <4>1. \A t \in Commander : Begin(t) => flow'.state = "IDLE"
        <5>1. \A a : [NoFlow EXCEPT !.action = a].state = "IDLE"
          BY DEF NoFlow
        <5> QED
          BY <2>2, <5>1 DEF Begin
      <4>2. \A t \in Commander : SendFails(t) => flow'.state = "IDLE"
        BY DEF SendFails, NoFlow
      <4>3. ~Challenge /\ ~Trouble /\ ~Complete
        BY <2>2 DEF Challenge, Trouble, Complete, FlowIdle
      <4> QED
        BY <2>2, <4>1, <4>2, <4>3, Frames
    <3>2. ASSUME NEW t \in Commander, Send(t) PROVE wanted'
      <4>1. Ready /\ link # "closing" /\ UNCHANGED transport
        BY <3>2 DEF Send
      <4>2. wanted
        BY <1>1, <4>1, ReadyIsWanted
      <4> QED
        BY <4>1, <4>2 DEF transport
    <3>3. CASE BecomesReady
      <4>1. phase # "none" /\ UNCHANGED wanted
        BY <3>3 DEF BecomesReady, BecomeReady
      <4> QED
        BY <1>1, <4>1, ReadyIsWanted
    <3> QED
      BY <3>1, <3>2, <3>3
  <2> QED
    BY <2>1, <2>2
<1>5. pending'.set => \/ wanted' /\ ~Ready'
                      \/ \E t \in Commander : pc'[t].at \in {"fill", "resume"}
                      \/ mishaps' \cap {"late", "exhausted", "write"} # {}
  <2> SUFFICES ASSUME pending'.set, mishaps' \cap {"late", "exhausted", "write"} = {}
               PROVE  \/ wanted' /\ ~Ready'
                      \/ \E t \in Commander : pc'[t].at \in {"fill", "resume"}
    OBVIOUS
  <2>1. ~BecomesReady
    <3>1. NoPending.set = FALSE
      BY DEF NoPending
    <3>2. pending' # NoPending
      BY <3>1
    <3>3. BecomesReady => /\ UNCHANGED pending
                          /\ ~pending.set \/ mishaps' = mishaps \cup {"late"}
                             \/ mishaps' = mishaps \cup {"write"}
      BY <3>2 DEF BecomesReady, Dispatched, Injected, Mishandled
    <3> QED
      BY <3>3
  <2>2. ASSUME NEW t \in Commander, Fill(t) PROVE pc'[t].at \in {"fill", "resume"}
    BY <1>2, <2>2, Gone DEF Fill
  <2>3. ASSUME NEW t \in Commander, Queue(t), pc'[t].at \notin {"fill", "resume"}
        PROVE  UNCHANGED pending
    BY <1>2, <2>3, Gone DEF Queue
  <2>4. CASE pending.set
    <3>1. \/ wanted /\ ~Ready
          \/ \E t \in Commander : pc[t].at \in {"fill", "resume"}
      BY <1>1, <2>4 DEF CommandsServed
    <3>2. CASE wanted /\ ~Ready
      <4>1. wanted'
        BY <1>3, <2>4, <3>2, StaysWanted
      <4>2. \A from : ScheduleReconnect(from) => state' \in {from, "IDLE"}
        BY DEF ScheduleReconnect
      <4>3. TransportNext => state' # "READY"
        <5>1. state # "READY"
          BY <3>2 DEF Ready
        <5>2. \A c \in Callers : Scan(c) \/ Disc(c) => state' # "READY"
          BY <5>1 DEF Scan, Disc
        <5>3. Sync \/ Advertise \/ Connected \/ Discovering \/ TimerFires => state' # "READY"
          BY <5>1 DEF Sync, Advertise, Connected, Discovering, TimerFires
        <5>4. ConnectFails \/ Disconnect => state' # "READY"
          BY <4>2, <5>1 DEF ConnectFails, Disconnect
        <5> QED
          BY <5>2, <5>3, <5>4 DEF TransportNext
      <4>4. ~Ready'
        BY <2>1, <3>2, <4>3, TransportStep DEF Ready, Stop, transport
      <4> QED
        BY <4>1, <4>4
    <3>3. ASSUME NEW t \in Commander, pc[t].at \in {"fill", "resume"}
          PROVE  \/ wanted' /\ ~Ready'
                 \/ pc'[t].at \in {"fill", "resume"}
      <4>1. CASE Resume(t)
        BY <4>1 DEF Resume, Start, Ready, Mishandled
      <4>2. ~Begin(t) /\ ~Send(t) /\ ~SendFails(t) /\ ~Queue(t) /\ ~Return(t)
        BY <3>3 DEF Begin, Send, SendFails, Queue, Return, At
      <4>3. Commanding(t) => Fill(t) \/ Resume(t)
        BY <4>2 DEF Commanding
      <4>4. pc'[t] = pc[t] \/ Commanding(t)
        BY <3>3, TaskMoves
      <4> QED
        BY <2>2, <3>3, <4>1, <4>3, <4>4
    <3> QED
      BY <3>1, <3>2, <3>3
  <2>5. CASE ~pending.set
    <3>1. \A t \in Commander : Fill(t) => pending'.set = pending.set
      BY <1>2 DEF Fill, Pending
    <3>2. PICK t \in Commander : Queue(t)
      BY <2>1, <2>5, <3>1, Frames
    <3> QED
      BY <2>3, <2>5, <3>2
  <2> QED
    BY <2>4, <2>5
<1> QED
  BY <1>4, <1>5 DEF CommandsServed, FlowIdle

\* A latch sequence has its unlock queued, or one of its two actions under way.
LEMMA LatchStep ==
  ASSUME LinkAssumption, TypeOK, CommandInv, LatchServed, Next
  PROVE  LatchServed'
<1> SUFFICES ASSUME latch', mishaps' \cap {"latch", "overlap", "torn"} = {}
             PROVE  \/ flow'.state # "IDLE" /\ flow'.action \in {"UNLOCK", "UNLATCH"}
                    \/ pending'.set /\ pending'.action = "UNLOCK"
  BY DEF LatchServed, FlowIdle
<1>1. mishaps \cap {"latch", "overlap", "torn"} = {}
  BY MishapsStep DEF TypeOK, TransportTypeOK
<1>2. flow \in Flow /\ pending \in Pending
  BY DEF TypeOK, Flow, Pending
<1>3. CASE ~latch
  <2>1. Return("zigbee") /\ pc["zigbee"].latch
    BY <1>3, LatchBegins
  <2>2. UNCHANGED <<flow, pending>>
    BY <2>1 DEF Return
  <2> QED
    BY <1>2, <2>1, <2>2 DEF Return, Accepted, Mishandled, Flow
<1>4. CASE latch /\ flow.state # "IDLE" /\ flow.action \in {"UNLOCK", "UNLATCH"}
  <2>1. \A t \in Commander : ~Send(t) /\ ~SendFails(t)
    BY <1>4, SendsItsOwn
  <2>2. \A t \in Commander : Begin(t) => UNCHANGED flow
    BY <1>4 DEF Begin, FlowIdle
  <2>3. ~BecomesReady
    BY <1>4 DEF BecomesReady, LatchLeft, FlowIdle
  <2>4. \A ok \in BOOLEAN : Retry(ok) => flow'.state # "IDLE" /\ flow'.action = flow.action
    BY RetryMoves
  <2>5. CASE Challenge
    BY <1>4, <2>4, <2>5, FlowTypes DEF Challenge
  <2>6. CASE Trouble
    BY <1>4, <2>4, <2>6 DEF Trouble
  <2>7. CASE Complete
    BY <1>4, <2>7 DEF Complete, HostBegin
  <2> QED
    BY <1>4, <2>1, <2>2, <2>3, <2>5, <2>6, <2>7, Frames
<1>5. CASE pending.set /\ pending.action = "UNLOCK"
  <2>1. \A t \in Commander : Queue(t) => UNCHANGED pending
    BY <1>5 DEF Queue
  <2>2. \A t \in Commander : ~Fill(t)
    <3>1. pending # [set |-> TRUE, action |-> None]
      BY <1>5 DEF LinkAssumption
    <3> QED
      BY <3>1 DEF Fill, Mishandled
  <2>3. CASE BecomesReady
    <3>1. UNCHANGED pending \/ HostBegin("UNLOCK")
      BY <1>5, <2>3 DEF BecomesReady
    <3> QED
      BY <1>5, <3>1 DEF HostBegin
  <2> QED
    BY <1>5, <2>1, <2>2, <2>3, Frames
<1> QED
  BY <1>1, <1>3, <1>4, <1>5 DEF LatchServed, FlowIdle

\* The unlatch of a latch sequence is owed from its asking until it is begun.
LEMMA LatchOwed ==
  ASSUME LinkAssumption, TypeOK, CommandInv, Next, ~AskLatch, "overlap" \notin mishaps'
  PROVE  \A a : Latched(a)' <= Latched(a)
<1>1. pc'["zigbee"].latch => pc["zigbee"].latch
  BY TaskMoves DEF Commander
<1>2. latch' /\ ~Unlatching' => pc["zigbee"].latch \/ (latch /\ ~Unlatching)
  <2> SUFFICES ASSUME latch', ~Unlatching', latch, Unlatching PROVE FALSE
    BY LatchBegins
  <2>1. flow.state # "IDLE" /\ flow.action = "UNLATCH"
    BY DEF Unlatching, FlowIdle
  <2>2. \A t \in Commander : ~Send(t) /\ ~SendFails(t)
    BY <2>1, SendsItsOwn
  <2>3. \A t \in Commander : Begin(t) => UNCHANGED flow
    BY <2>1 DEF Begin, FlowIdle
  <2>4. ~BecomesReady
    BY <2>1 DEF BecomesReady, LatchLeft, FlowIdle
  <2>5. \A ok \in BOOLEAN : Retry(ok) => flow'.state # "IDLE" /\ flow'.action = flow.action
    BY RetryMoves
  <2>6. flow'.state = "IDLE" \/ flow'.action # "UNLATCH"
    BY DEF Unlatching, FlowIdle
  <2>7. ~Challenge
    BY <2>1, <2>5, <2>6, FlowTypes DEF Challenge
  <2>8. ~Trouble
    BY <2>1, <2>5, <2>6 DEF Trouble
  <2>9. ~Complete
    BY <2>1 DEF Complete
  <2> QED
    BY <2>1, <2>2, <2>3, <2>4, <2>6, <2>7, <2>8, <2>9, Frames
<1> QED
  BY <1>1, <1>2 DEF Latched

\* A step of a task other than these leaves it owing no more than it did.
LEMMA DueFalls ==
  ASSUME LinkAssumption, TypeOK, Next, NEW t \in Commander,
         ~AskMatched, ~AskZigbee, ~AskLatch
  PROVE  \A a : Due(t, a)' <= Due(t, a)
<1>1. CASE pc'[t] = pc[t]
  BY <1>1 DEF Due
<1>2. pc \in [Tasks -> Pc] /\ Commander \subseteq Tasks /\ Idle.at = "idle"
  BY DEF TypeOK, Pc, Commander, LinkAssumption, Idle
<1>3. CASE Commanding(t)
  <2>1. CASE Begin(t)
    <3>1. pc[t].at = "begin"
      BY <2>1 DEF Begin, At
    <3>2. pc'[t].action = pc[t].action \/ pc'[t].at = "idle"
      BY <1>2, <2>1, Gone DEF Begin
    <3> QED
      BY <3>1, <3>2 DEF Due
  <2>2. CASE Send(t) \/ SendFails(t) \/ Resume(t) \/ Return(t)
    <3>1. pc'[t].at \in {"return", "idle"}
      BY <1>2, <2>2, Gone DEF Send, SendFails, Resume, Return, Accepted
    <3> QED
      BY <3>1 DEF Due
  <2>3. CASE Queue(t)
    <3>1. pc[t].at = "queue"
      BY <2>3 DEF Queue, At
    <3>2. pc'[t].action = pc[t].action \/ pc'[t].at = "idle"
      BY <1>2, <2>3, Gone DEF Queue
    <3> QED
      BY <3>1, <3>2 DEF Due
  <2>4. CASE Fill(t)
    <3>1. pc'[t].at = "resume"
      BY <1>2, <2>4, Gone DEF Fill
    <3> QED
      BY <3>1 DEF Due
  <2> QED
    BY <1>3, <2>1, <2>2, <2>3, <2>4 DEF Commanding
<1>4. CASE AskPairing \/ PairingReturn
  <2>1. \E p \in {"return"} : Goto("match", p) \/ Done("match")
    BY <1>4 DEF AskPairing, PairingReturn
  <2>2. pc'[t] = pc[t]
    BY <1>2, <2>1, Gone DEF Commander, LinkAssumption
  <2> QED
    BY <1>1, <2>2
<1>5. UNCHANGED pc \/ AskPairing \/ PairingReturn \/ \E u \in Commander : Commanding(u)
  BY Frames
<1>6. ASSUME NEW u \in Commander \ {t}, Commanding(u) PROVE pc'[t] = pc[t]
  BY <1>6, OthersStay
<1> QED
  BY <1>1, <1>3, <1>4, <1>5, <1>6


\* Each part of what is owed is at most one command.
LEMMA Parts ==
  ASSUME NEW a
  PROVE  /\ \A t \in Commander : Due(t, a) \in {0, 1} /\ Due(t, a)' \in {0, 1}
         /\ Queued(a) \in {0, 1} /\ Queued(a)' \in {0, 1}
         /\ Latched(a) \in {0, 1} /\ Latched(a)' \in {0, 1}
BY DEF Due, Queued, Latched

\* A step other than these leaves no more queued than there was.
LEMMA QueuedFalls ==
  ASSUME LinkAssumption, TypeOK, QueueInv, Next, "torn" \notin mishaps', ~BecomesReady,
         \A t \in Commander : ~Fill(t)
  PROVE  \A a \in Action : Queued(a)' <= Queued(a)
<1>1. UNCHANGED pending \/ \E t \in Commander : Queue(t)
  BY Frames
<1>2. ASSUME NEW t \in Commander, Queue(t), pending' # pending
      PROVE  pending'.action = None
  <2>1. pending' = [pending EXCEPT !.set = TRUE] /\ ~pending.set
    BY <1>2 DEF Queue
  <2>2. pending \in Pending
    BY DEF TypeOK, Pending
  <2>3. pending.action = None
    BY <2>1, MishapsStep DEF QueueInv, TypeOK, TransportTypeOK
  <2> QED
    BY <2>1, <2>2, <2>3 DEF Pending
<1>3. None \notin Action
  BY DEF Action, LinkAssumption
<1>4. \A a \in Action : Queued(a)' \in {0, Queued(a)}
  BY <1>1, <1>2, <1>3 DEF Queued
<1>5. \A a : Queued(a) \in {0, 1}
  BY DEF Queued
<1> QED
  BY <1>4, <1>5

\* Only asking counts as asked.
LEMMA AskedStays ==
  ASSUME LinkAssumption, TypeOK, Next, ~AskMatched, ~AskZigbee, ~AskLatch
  PROVE  \A a \in Action : asked'[a] = asked[a]
<1>1. AskPairing => \A a \in Action : asked'[a] = asked[a]
  BY CountTypes DEF AskPairing
<1>2. \A t \in Commander : Commanding(t) => UNCHANGED asked
  BY DEF Commanding, Queue, Fill, Resume, Return, Begin, Send, SendFails, history, Born
<1>3. PairingReturn \/ BecomesReady \/ Challenge \/ Trouble \/ Complete => UNCHANGED asked
  BY DEF PairingReturn, BecomesReady, Challenge, Trouble, Complete, history, HostBegin, Born
<1>4. TransportNext /\ UNCHANGED <<app, history>> => UNCHANGED asked
  BY DEF history
<1>5. KeyturnerStates \/ PairingMessage => UNCHANGED asked
  BY DEF KeyturnerStates, PairingMessage, history
<1> QED
  BY <1>1, <1>2, <1>3, <1>4, <1>5 DEF Next

\* Nothing is begun, or still to be begun, that was not asked for.
LEMMA AskedStep ==
  ASSUME LinkAssumption, TypeOK, CommandInv, QueueInv, AskedInv, Next
  PROVE  AskedInv'
<1> DEFINE Good == begun'[None] = 0 /\ \A a \in Action : begun'[a] + Owed(a)' <= asked'[a]
<1> SUFFICES ASSUME "overlap" \notin mishaps', "torn" \notin mishaps' PROVE Good
  BY DEF AskedInv
<1>1. begun[None] = 0 /\ \A a \in Action : begun[a] + Owed(a) <= asked[a]
  BY MishapsStep DEF AskedInv, TypeOK, TransportTypeOK
<1>2. /\ \A a \in Action \cup {None} : begun[a] \in Nat
      /\ \A a \in Action : asked[a] \in Nat
      /\ None \notin Action
  BY DEF TypeOK, Action, LinkAssumption
<1>3. /\ pc \in [Tasks -> Pc] /\ Commander \subseteq Tasks /\ pending \in Pending
      /\ Commander = {"app", "zigbee"}
  BY DEF TypeOK, Pc, Pending, Commander, LinkAssumption
<1>4. \A a : /\ \A t \in Commander : Due(t, a) \in {0, 1} /\ Due(t, a)' \in {0, 1}
             /\ Queued(a) \in {0, 1} /\ Queued(a)' \in {0, 1}
             /\ Latched(a) \in {0, 1} /\ Latched(a)' \in {0, 1}
  BY Parts
<1>5. ASSUME NEW t \in Commander, NEW a \in Action, NEW l \in BOOLEAN, Ask(t, a, l),
             l => t = "zigbee" /\ a = "UNLOCK", ~l => ~AskLatch
      PROVE  Good
  <2>1. UNCHANGED <<pending, begun>> /\ UNCHANGED <<flow, latch>>
    BY <1>5 DEF Ask, Asks
  <2>2. \A b \in Action : Queued(b)' = Queued(b)
    BY <2>1 DEF Queued
  <2>3. \A b \in Action : asked'[b] = IF b \in ({a} \cup IF l THEN {"UNLATCH"} ELSE {})
                                        THEN asked[b] + 1 ELSE asked[b]
    BY <1>5, CountTypes DEF Ask
  <2>4. PICK n \in Pc : pc' = [pc EXCEPT ![t] = n] /\ n.action = a /\ n.latch = l
    <3> DEFINE n == [at |-> IF Ready THEN "begin" ELSE "queue", action |-> a, latch |-> l]
    <3>1. n \in Pc /\ n.action = a /\ n.latch = l
      BY DEF Pc
    <3> QED
      BY <1>5, <3>1 DEF Ask
  <2>5. pc'[t] = n /\ \A u \in Commander \ {t} : pc'[u] = pc[u]
    BY <1>3, <2>4
  <2>6. \A u \in Commander \ {t} : \A b \in Action : Due(u, b)' = Due(u, b)
    BY <2>5 DEF Due
  <2>7. \A b \in Action : Due(t, b) = 0 /\ (b # a => Due(t, b)' = 0)
    BY <1>5, <2>4, <2>5 DEF Due, Ask, At
  <2>8. CASE l
    <3>1. \A b \in Action : b # "UNLATCH" => Latched(b)' = Latched(b)
      BY DEF Latched
    <3>2. a = "UNLOCK" /\ t = "zigbee"
      BY <1>5, <2>8
    <3> QED
      BY <1>1, <1>2, <1>3, <1>4, <2>1, <2>2, <2>3, <2>6, <2>7, <2>8, <3>1, <3>2 DEF Owed
  <2>9. CASE ~l
    <3>1. \A b : Latched(b)' <= Latched(b)
      BY <1>5, <2>9, LatchOwed
    <3> QED
      BY <1>1, <1>2, <1>3, <1>4, <2>1, <2>2, <2>3, <2>6, <2>7, <2>9, <3>1 DEF Owed
  <2> QED
    BY <2>8, <2>9
<1>6. AskLatch => Good
  BY <1>5 DEF AskLatch, Commander, Action
<1>7. CASE ~AskLatch /\ (AskMatched \/ AskZigbee)
  BY <1>5, <1>7 DEF AskMatched, AskZigbee, Commander, Action
<1>8. CASE ~AskMatched /\ ~AskZigbee /\ ~AskLatch
  <2>1. \A t \in Commander : \A a : Due(t, a)' <= Due(t, a)
    BY <1>8, DueFalls
  <2>2. \A a : Latched(a)' <= Latched(a)
    BY <1>8, LatchOwed
  <2>3. \A a \in Action : asked'[a] = asked[a]
    BY <1>8, AskedStays
  <2>4. CASE UNCHANGED begun /\ ~BecomesReady /\ \A t \in Commander : ~Fill(t)
    <3>1. \A a \in Action : Queued(a)' <= Queued(a)
      BY <2>4, QueuedFalls
    <3> QED
      BY <1>1, <1>2, <1>3, <1>4, <2>1, <2>2, <2>3, <2>4, <3>1 DEF Owed
  <2>5. ASSUME NEW t \in Commander, Send(t) PROVE Good
    <3>1. flow.action = pc[t].action /\ pc[t].action \in Action
      BY <2>5, SendsItsOwn DEF CommandInv, Send, At
    <3>2. /\ begun'[pc[t].action] = begun[pc[t].action] + 1
          /\ \A b \in (Action \cup {None}) \ {pc[t].action} : begun'[b] = begun[b]
      BY <2>5, <3>1, CountTypes DEF Send
    <3>3. pc[t].at = "send" /\ pc'[t].at = "return"
      BY <1>3, <2>5, Gone DEF Send, At
    <3>4. \A u \in Commander : u = t => \A a : a = pc[t].action => Due(u, a) = 1 /\ Due(u, a)' = 0
      BY <3>3 DEF Due
    <3>5. \A a \in Action : Queued(a)' <= Queued(a)
      BY <2>5, QueuedFalls DEF Send, Fill, BecomesReady, Queued
    <3>6. ASSUME NEW a \in Action PROVE begun'[a] + Owed(a)' <= asked'[a]
      <4>1. begun[a] + Owed(a) <= asked[a] /\ asked'[a] = asked[a]
        BY <1>1, <2>3
      <4>2. Queued(a)' <= Queued(a) /\ Latched(a)' <= Latched(a)
        BY <2>2, <3>5
      <4>3. CASE a = pc[t].action
        <5>1. begun'[a] = begun[a] + 1
          BY <3>2, <4>3
        <5>2. Due("app", a)' + Due("zigbee", a)' + 1 <= Due("app", a) + Due("zigbee", a)
          BY <1>3, <1>4, <2>1, <3>4, <4>3
        <5> QED
          BY <1>2, <1>3, <1>4, <4>1, <4>2, <5>1, <5>2 DEF Owed
      <4>4. CASE a # pc[t].action
        <5>1. begun'[a] = begun[a]
          BY <3>2, <4>4
        <5> QED
          BY <1>2, <1>3, <1>4, <2>1, <4>1, <4>2, <5>1 DEF Owed
      <4> QED
        BY <4>3, <4>4
    <3>7. begun'[None] = 0
      BY <1>1, <1>2, <3>1, <3>2
    <3> QED
      BY <3>6, <3>7
  <2>6. ASSUME NEW t \in Commander, Fill(t) PROVE Good
    <3>1. pc[t].at = "fill" /\ pc'[t].at = "resume" /\ UNCHANGED begun
      BY <1>3, <2>6, Gone DEF Fill, At, history
    <3>2. \A u \in Commander : u = t => \A a : a = pc[t].action => Due(u, a) = 1 /\ Due(u, a)' = 0
      BY <3>1 DEF Due
    <3>3. \A a \in Action : Queued(a) = 0 /\ (a # pc[t].action => Queued(a)' = 0)
      <4>1. pending = [set |-> TRUE, action |-> None]
        BY <3>1, MishapsStep DEF QueueInv, TypeOK, TransportTypeOK
      <4>2. pending.action = None
        BY <4>1
      <4>3. pending'.action = pc[t].action
        BY <1>3, <2>6 DEF Fill, Pending
      <4> QED
        BY <1>2, <4>2, <4>3 DEF Queued
    <3>4. ASSUME NEW a \in Action PROVE begun'[a] + Owed(a)' <= asked'[a]
      <4>1. begun[a] + Owed(a) <= asked[a] /\ asked'[a] = asked[a] /\ begun'[a] = begun[a]
        BY <1>1, <2>3, <3>1
      <4>2. Latched(a)' <= Latched(a)
        BY <2>2
      <4>3. CASE a = pc[t].action
        <5>1. Due("app", a)' + Due("zigbee", a)' + 1 <= Due("app", a) + Due("zigbee", a)
          BY <1>3, <1>4, <2>1, <3>2, <4>3
        <5>2. Queued(a)' <= Queued(a) + 1
          BY <1>4
        <5> QED
          BY <1>2, <1>3, <1>4, <4>1, <4>2, <5>1, <5>2 DEF Owed
      <4>4. CASE a # pc[t].action
        <5>1. Queued(a)' <= Queued(a)
          BY <3>3, <4>4
        <5> QED
          BY <1>2, <1>3, <1>4, <2>1, <4>1, <4>2, <5>1 DEF Owed
      <4> QED
        BY <4>3, <4>4
    <3> QED
      BY <1>1, <3>1, <3>4
  <2>7. CASE BecomesReady
    <3>1. \A a \in Action : pending' = pending => Queued(a)' = Queued(a)
      BY DEF Queued
    <3>2. CASE UNCHANGED <<pending, begun>>
      BY <1>1, <1>2, <1>3, <1>4, <2>1, <2>2, <2>3, <3>1, <3>2 DEF Owed
    <3>3. CASE /\ pending.set /\ HostBegin(pending.action) /\ pending' = NoPending
               /\ pending.action # None
      <4>1. pending.action \in Action
        BY <1>3, <3>3 DEF Pending
      <4>2. /\ begun'[pending.action] = begun[pending.action] + 1
            /\ \A b \in (Action \cup {None}) \ {pending.action} : begun'[b] = begun[b]
        BY <3>3, <4>1, CountTypes DEF HostBegin
      <4>3. Queued(pending.action) = 1 /\ \A a \in Action : Queued(a)' = 0
        BY <3>3 DEF Queued, NoPending
      <4> QED
        BY <1>1, <1>2, <1>3, <1>4, <2>1, <2>2, <2>3, <4>1, <4>2, <4>3 DEF Owed
    <3> QED
      BY <2>7, <3>2, <3>3 DEF BecomesReady, Dispatched, Mishandled, history
  <2>8. CASE Complete /\ ~(UNCHANGED begun)
    <3>1. latch /\ flow.action = "UNLOCK" /\ HostBegin("UNLATCH") /\ UNCHANGED <<pending, pc>>
      BY <2>8 DEF Complete, history
    <3>2. /\ begun'["UNLATCH"] = begun["UNLATCH"] + 1
          /\ \A b \in (Action \cup {None}) \ {"UNLATCH"} : begun'[b] = begun[b]
      BY <3>1, CountTypes DEF HostBegin, Action
    <3>3. flow'.state = "WAIT_CHALLENGE" /\ flow'.action = "UNLATCH"
      BY <3>1 DEF HostBegin
    <3>4. ~pc'["zigbee"].latch
      BY <3>1 DEF CommandInv
    <3>5. Latched("UNLATCH") = 1
      BY <3>1 DEF Latched, Unlatching
    <3>6. Latched("UNLATCH")' = 0
      BY <3>3, <3>4 DEF Latched, Unlatching, FlowIdle
    <3>7. \A a \in Action : Queued(a)' = Queued(a)
      BY <3>1 DEF Queued
    <3>8. ASSUME NEW a \in Action PROVE begun'[a] + Owed(a)' <= asked'[a]
      <4>1. begun[a] + Owed(a) <= asked[a] /\ asked'[a] = asked[a] /\ Queued(a)' = Queued(a)
        BY <1>1, <2>3, <3>7
      <4>2. CASE a = "UNLATCH"
        BY <1>2, <1>3, <1>4, <2>1, <3>2, <3>5, <3>6, <4>1, <4>2 DEF Owed
      <4>3. CASE a # "UNLATCH"
        <5>1. begun'[a] = begun[a] /\ Latched(a)' <= Latched(a)
          BY <2>2, <3>2, <4>3
        <5> QED
          BY <1>2, <1>3, <1>4, <2>1, <4>1, <5>1 DEF Owed
      <4> QED
        BY <4>2, <4>3
    <3> QED
      BY <1>1, <1>2, <3>2, <3>8 DEF Action
  <2> QED
    BY <2>4, <2>5, <2>6, <2>7, <2>8, Frames
<1> QED
  BY <1>6, <1>7, <1>8

-----------------------------------------------------------------------------
(* The invariant.                                                          *)

\* It holds at the start ...
LEMMA InvInit ==
  ASSUME TransportAssumption, LinkAssumption, Init
  PROVE  IInv
<1>1. PICK atOnce \in BOOLEAN : TransportInit(atOnce)
  BY DEF Init
<1>2. flow = NoFlow /\ pending = NoPending /\ latch = FALSE /\ NoFlow.state = "IDLE"
  BY DEF Init, NoFlow
<1>3. pending.set = FALSE /\ pending.action = None
  BY <1>2 DEF NoPending
<1>4. \A t \in Tasks : pc[t] = Idle /\ Idle.at = "idle" /\ Idle.latch = FALSE
  BY DEF Init, Idle
<1>5. Commander \subseteq Tasks /\ "app" \in Tasks /\ "zigbee" \in Tasks
  BY DEF Commander, LinkAssumption
<1>6. TypeOK
  <2>1. TransportTypeOK
    <3>1. calls \in [Callers -> {"none", "scan", "disc"}] /\ mishaps \subseteq Mishap
      BY <1>1 DEF TransportInit
    <3>2. session \in 0..MaxSessions
      BY <1>1 DEF TransportInit, TransportAssumption
    <3>3. wanted \in BOOLEAN /\ synced \in BOOLEAN /\ reconnect \in BOOLEAN /\ cached \in BOOLEAN
      BY <1>1 DEF TransportInit
    <3>4. /\ state \in TransportState /\ gap \in {"none", "disc", "conn"}
          /\ link \in {"none", "up", "closing"} /\ phase \in Phase /\ attempt \in 0..255
      BY <1>1 DEF TransportInit, TransportState, Phase
    <3> QED
      BY <3>1, <3>2, <3>3, <3>4 DEF TransportTypeOK
  <2>2. /\ flow \in Flow /\ pending \in Pending
        /\ pc \in [Tasks -> Pc]
    <3>1. 0 \in 0..MaxRetries
      BY DEF LinkAssumption
    <3> QED
      BY <1>2, <3>1 DEF Init, Flow, Pending, Pc, NoFlow, NoPending, Idle
  <2>3. /\ asks \in 0..MaxAsks /\ born \in 0..MaxSessions /\ frames \in Nat
        /\ asked \in [Action -> Nat] /\ begun \in [Action \cup {None} -> Nat]
    BY DEF Init, LinkAssumption, TransportAssumption
  <2>4. latch \in BOOLEAN /\ requested \in BOOLEAN /\ creds \in BOOLEAN /\ pairing \in PairingStates
    BY DEF Init, PairingStates
  <2> QED
    BY <2>1, <2>2, <2>3, <2>4 DEF TypeOK, Flow, Pending, Pc
<1>7. ScanInv /\ WantedInv /\ LinkDriven
  BY <1>1 DEF TransportInit, ScanInv, WantedInv, LinkDriven, Callers
<1>8. BornInv /\ FrameInv /\ CommandsServed /\ LatchServed
  BY <1>2, <1>3 DEF Init, BornInv, FrameInv, CommandsServed, LatchServed, FlowIdle, LinkAssumption
<1>9. CommandInv /\ QueueInv
  BY <1>2, <1>3, <1>4, <1>5 DEF CommandInv, QueueInv, Commander
<1>10. AskedInv
  <2>1. \A a \in Action : begun[a] = 0 /\ asked[a] = 0 /\ begun[None] = 0
    BY DEF Init
  <2>2. \A a \in Action : Owed(a) = 0
    BY <1>2, <1>3, <1>4, <1>5 DEF Owed, Due, Queued, Latched
  <2> QED
    BY <2>1, <2>2 DEF AskedInv, Init
<1> QED
  BY <1>6, <1>7, <1>8, <1>9, <1>10 DEF IInv

\* ... and every step keeps it.
LEMMA InvStep ==
  ASSUME TransportAssumption, LinkAssumption, IInv, [Next]_vars
  PROVE  IInv'
<1>1. CASE Next
  <2>1. TypeOK' /\ ScanInv' /\ WantedInv' /\ LinkDriven'
    BY <1>1, TypeStep, ScanStep, WantedStep, DrivenStep DEF IInv
  <2>2. BornInv' /\ FrameInv' /\ CommandInv' /\ QueueInv'
    BY <1>1, BornStep, FrameStep, CommandStep, QueueStep DEF IInv
  <2>3. AskedInv' /\ CommandsServed' /\ LatchServed'
    BY <1>1, AskedStep, ServedStep, LatchStep DEF IInv
  <2> QED
    BY <2>1, <2>2, <2>3 DEF IInv
<1>2. CASE UNCHANGED vars
  <2>1. UNCHANGED <<transport, mishaps, flow, pending, latch, joint, pc, history>>
    BY <1>2 DEF vars, app
  <2>2. TypeOK' /\ ScanInv' /\ WantedInv' /\ LinkDriven'
    BY <2>1 DEF IInv, transport, history, joint, TypeOK, TransportTypeOK, ScanInv, Overlapped, WantedInv,
       LinkDriven
  <2>3. BornInv' /\ FrameInv' /\ CommandInv' /\ QueueInv'
    BY <2>1 DEF IInv, transport, history, joint, BornInv, FrameInv, CommandInv, QueueInv, Overlapped,
       Ready, FlowIdle
  <2>4. AskedInv' /\ CommandsServed' /\ LatchServed'
    BY <2>1 DEF IInv, transport, history, joint, AskedInv, Owed, Due, Queued, Latched, Unlatching,
       CommandsServed, LatchServed, Ready, FlowIdle
  <2> QED
    BY <2>2, <2>3, <2>4 DEF IInv
<1> QED
  BY <1>1, <1>2

LEMMA Invariance ==
  ASSUME TransportAssumption, LinkAssumption
  PROVE  Spec => []IInv
<1>1. Init => IInv
  BY InvInit
<1>2. IInv /\ [Next]_vars => IInv'
  BY InvStep
<1> QED
  BY <1>1, <1>2, PTL DEF Spec

-----------------------------------------------------------------------------
(* The theorems.                                                           *)

\* The link keeps its types: the flow's retries and the transport's attempts stay in
\* their ranges, and a task is always at a step of the code it runs.
THEOREM TypeCorrect == Spec => []TypeOK
<1>1. IInv => TypeOK
  BY DEF IInv
<1> QED
  BY <1>1, Invariance, TransportAssumption, LinkAssumption, PTL

\* While a connection is wanted and NimBLE can be used, something is under way that
\* will try again, unless a scan was refused or two were begun at once.
THEOREM LinkIsDriven == Spec => []LinkDriven
<1>1. IInv => LinkDriven
  BY DEF IInv
<1> QED
  BY <1>1, Invariance, TransportAssumption, LinkAssumption, PTL

\* A flow that waits for the lock, and a queued command, have a connection that is there
\* or sought, but for the mishaps CommandsServed names: no step of another task, no
\* message and no lost connection leaves one behind.
THEOREM FlowsAreServed == Spec => []CommandsServed
<1>1. IInv => CommandsServed
  BY DEF IInv
<1> QED
  BY <1>1, Invariance, TransportAssumption, LinkAssumption, PTL

\* An active latch sequence has its unlock queued or one of its actions under way.
THEOREM LatchIsServed == Spec => []LatchServed
<1>1. IInv => LatchServed
  BY DEF IInv
<1> QED
  BY <1>1, Invariance, TransportAssumption, LinkAssumption, PTL

\* However often the lock answers with a challenge or an error, a flow sends its action
\* at most once and once more per retry.
THEOREM FramesAreBounded == Spec => []FrameBudget
<1>1. IInv => FrameBudget
  BY DEF IInv, FrameInv, FrameBudget, Overlapped
<1> QED
  BY <1>1, Invariance, TransportAssumption, LinkAssumption, PTL

\* No action is begun more often than it was asked for: what is begun and what is still
\* owed, by a task, the queue or a latch sequence, is no more than what was asked.
THEOREM NothingIsUnasked == Spec => []NothingUnasked
<1>1. IInv => NothingUnasked
  <2> SUFFICES ASSUME IInv, mishaps \cap {"overlap", "torn"} = {}
               PROVE  begun[None] = 0 /\ \A a \in Action : begun[a] <= asked[a]
    BY DEF NothingUnasked
  <2>1. begun[None] = 0 /\ \A a \in Action : begun[a] + Owed(a) <= asked[a]
    BY DEF IInv, AskedInv
  <2>2. \A a \in Action : begun[a] \in Nat /\ asked[a] \in Nat
    BY DEF IInv, TypeOK
  <2>3. \A a : Owed(a) \in Nat
    BY DEF Owed, Due, Queued, Latched
  <2> QED
    BY <2>1, <2>2, <2>3
<1> QED
  BY <1>1, Invariance, TransportAssumption, LinkAssumption, PTL

\* A lock action is sent only on the connection its flow was begun on.
THEOREM ActionsOnTheirConnection == Spec => ActionOnItsConnection
<1>1. IInv /\ [Next]_vars => [frames' > frames => born = session]_vars
  <2> SUFFICES ASSUME IInv, Next, frames' > frames
               PROVE  born = session
    OBVIOUS
  <2>1. frames \in Nat
    BY DEF IInv, TypeOK
  <2>2. ~ UNCHANGED frames
    BY <2>1
  <2>3. \A a : Born(a) => frames' = 0
    BY DEF Born
  <2>4. frames' # 0
    BY <2>1
  <2>5. \A t \in Commander : ~Begin(t) /\ ~Send(t) /\ ~SendFails(t)
    BY <2>2, <2>3, <2>4 DEF Begin, Send, SendFails, history
  <2>6. ~BecomesReady /\ ~Trouble /\ ~Complete
    BY <2>2, <2>3, <2>4 DEF BecomesReady, Trouble, Complete, HostBegin, history
  <2>7. Challenge
    BY <2>2, <2>5, <2>6, Frames
  <2> QED
    BY <2>7 DEF IInv, BornInv, Challenge, Heard, FlowIdle
<1> QED
  BY <1>1, Invariance, TransportAssumption, LinkAssumption, PTL DEF Spec, ActionOnItsConnection
=============================================================================
