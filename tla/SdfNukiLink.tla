---------------------------- MODULE SdfNukiLink ----------------------------
(***************************************************************************)
(* The lock flow (sdf_lock_flow.c), the pairing (sdf_nuki_pairing.c) and   *)
(* what joins them to the connection (sdf_app.c): a command is begun at    *)
(* once if the transport is READY and else queued until it is; a begun     *)
(* command asks the lock for a challenge, sends the action that answers    *)
(* it, and waits for its completion, with retries; a latch command is an   *)
(* unlock followed by an unlatch.                                          *)
(*                                                                         *)
(* No lock protects any of this state.  Commands come from the app task (a *)
(* finger that matched) and the Zigbee task, pairings from the match task, *)
(* in the steps of pc; the host task preempts them between any two, with   *)
(* whatever the lock sends.  What the lock sends is not restricted.        *)
(*                                                                         *)
(* Left out: contents and encryption of frames, fragments and replays; what*)
(* is reported to Zigbee, LED and device state; the command line.          *)
(***************************************************************************)
EXTENDS SdfNukiTransport, TLC

CONSTANTS
  OnDemand,     \* ble_connect_on_demand
  MaxRetries,   \* SDF_APP_LOCK_ACTION_MAX_RETRIES
  MaxAsks,      \* bound: commands and pairings asked for
  None          \* no action, 0 in the code

ASSUME LinkAssumption ==
  /\ OnDemand \in BOOLEAN /\ MaxRetries \in Nat /\ MaxAsks \in Nat
  /\ Tasks = {"app", "zigbee", "match"}
  /\ None \notin {"LOCK", "UNLOCK", "UNLATCH"}

VARIABLES
  flow,       \* s_lock_flow
  pending,    \* s_lock_action_pending and s_pending_lock_action
  latch,      \* s_latch_sequence_active
  pairing,    \* s_pairing.state while s_pairing_active
  requested,  \* s_pairing_requested
  creds,      \* s_has_creds
  pc          \* where each task is

\* History, read by the properties only.
VARIABLES
  asks,       \* commands and pairings asked for
  asked,      \* how often each action was asked for
  begun,      \* how often each was begun
  born,       \* the connection the flow was begun on
  frames      \* action frames sent since

Action == {"LOCK", "UNLOCK", "UNLATCH"}
Waits  == {"WAIT_PUBLIC_KEY", "WAIT_CHALLENGE", "WAIT_AUTHORIZATION_DATA",
           "WAIT_AUTHORIZATION_ID"}
PairingStates == Waits \cup {"none", "ERROR"}

history == <<asks, asked, begun, born, frames>>
joint   == <<pairing, requested, creds>>
app     == <<flow, pending, latch, joint, pc>>
vars    == <<transport, mishaps, app, history>>

NoFlow    == [state |-> "IDLE", action |-> None, retries |-> 0]
NoPending == [set |-> FALSE, action |-> None]
Idle      == [at |-> "idle", action |-> None, latch |-> FALSE]
FlowIdle  == flow.state = "IDLE"
Paired    == creds /\ pairing = "none"

TypeOK ==
  /\ TransportTypeOK
  /\ flow \in [state: {"IDLE", "WAIT_CHALLENGE", "WAIT_COMPLETION"},
               action: Action \cup {None}, retries: 0..MaxRetries]
  /\ pending \in [set: BOOLEAN, action: Action \cup {None}]
  /\ latch \in BOOLEAN /\ requested \in BOOLEAN /\ creds \in BOOLEAN
  /\ pairing \in PairingStates
  /\ pc \in [Tasks -> [at: {"idle", "begin", "send", "queue", "fill", "resume", "return"},
                       action: Action \cup {None}, latch: BOOLEAN]]
  /\ asks \in 0..MaxAsks /\ born \in 0..MaxSessions /\ frames \in Nat
  /\ asked \in [Action -> Nat] /\ begun \in [Action \cup {None} -> Nat]

\* In the connect-on-demand mode nothing connects before it is needed.
Init ==
  /\ \E atOnce \in {FALSE, ~OnDemand} : TransportInit(atOnce)
  /\ flow = NoFlow /\ pending = NoPending /\ latch = FALSE
  /\ pairing = "none" /\ requested = FALSE /\ creds \in BOOLEAN
  /\ pc = [t \in Tasks |-> Idle]
  /\ asks = 0 /\ asked = [a \in Action |-> 0] /\ begun = [a \in Action \cup {None} |-> 0]
  /\ born = 0 /\ frames = 0

At(t, p)  == pc[t].at = p
Goto(t, p) == pc' = [pc EXCEPT ![t].at = p]
Done(t)   == pc' = [pc EXCEPT ![t] = Idle]

\* A frame of this handler is written, or none is.
Written(ok) == IF ok THEN Fine ELSE Injected("write")

\* A flow for a begins: its challenge is on the way.
Born(a) ==
  /\ begun' = [begun EXCEPT ![a] = @ + 1] /\ born' = session /\ frames' = 0
  /\ UNCHANGED <<asks, asked>>

-----------------------------------------------------------------------------
(* A command, in the app and the Zigbee task: sdf_app_lock_action, after   *)
(* its guard.  A command that is refused changes nothing.                  *)

Asks(S) ==
  /\ asks < MaxAsks /\ asks' = asks + 1
  /\ asked' = [a \in Action |-> IF a \in S THEN asked[a] + 1 ELSE asked[a]]
  /\ UNCHANGED <<begun, born, frames>>

Ask(t, a, isLatch) ==
  /\ At(t, "idle") /\ Paired
  /\ Asks({a} \cup IF isLatch THEN {"UNLATCH"} ELSE {})
  /\ pc' = [pc EXCEPT ![t] = [at |-> IF Ready THEN "begin" ELSE "queue",
                              action |-> a, latch |-> isLatch]]
  /\ Fine /\ UNCHANGED <<transport, flow, pending, latch, joint>>

\* A finger matched; Zigbee locks or unlocks; Zigbee latches
\* (sdf_app_start_unlock_unlatch_sequence).
AskMatched == Ask("app", "UNLATCH", FALSE)
AskZigbee  == \E a \in {"LOCK", "UNLOCK"} : Ask("zigbee", a, FALSE)
AskLatch   == ~latch /\ FlowIdle /\ Ask("zigbee", "UNLOCK", TRUE)

\* The end of a command that was accepted: the latch sequence has begun.  It is
\* stale if the unlock is over by then.
Accepted(t) ==
  /\ Done(t) /\ latch' = (latch \/ pc[t].latch)
  /\ IF pc[t].latch /\ ~(pending.set /\ pending.action = "UNLOCK")
                    /\ (flow.state = "IDLE" \/ flow.action # "UNLOCK")
       THEN Mishandled("latch") ELSE Fine

\* sdf_lock_flow_begin up to the write of the challenge request, and the write.
Begin(t) ==
  /\ At(t, "begin")
  /\ \/ FlowIdle /\ flow' = [NoFlow EXCEPT !.action = pc[t].action] /\ Goto(t, "send")
     \/ ~FlowIdle /\ UNCHANGED flow /\ Done(t)
  /\ Fine /\ UNCHANGED <<transport, pending, latch, joint, history>>

\* Another flow was begun meanwhile, or ended.
Overlap(t) == IF flow = [NoFlow EXCEPT !.action = pc[t].action] THEN {} ELSE {"overlap"}

SendFails(t) ==
  /\ At(t, "send")
  /\ mishaps' = mishaps \cup Overlap(t) \cup (IF Ready THEN {"write"} ELSE {})
  /\ Ready => May("write")
  /\ flow' = NoFlow /\ Done(t)
  /\ UNCHANGED <<transport, pending, latch, joint, history>>

Send(t) ==
  /\ At(t, "send") /\ Ready
  /\ flow' = [flow EXCEPT !.state = "WAIT_CHALLENGE"]
  /\ Born(flow.action)
  /\ mishaps' = mishaps \cup Overlap(t) \cup (IF link = "closing" THEN {"closing"} ELSE {})
  /\ Goto(t, "return")
  /\ UNCHANGED <<transport, pending, latch, joint>>

\* sdf_app_queue_lock_action: the flag first, then the action ...
Queue(t) ==
  /\ At(t, "queue")
  /\ \/ FlowIdle /\ ~pending.set /\ pending' = [pending EXCEPT !.set = TRUE] /\ Goto(t, "fill")
     \/ FlowIdle /\ pending = [set |-> TRUE, action |-> pc[t].action]
          /\ UNCHANGED pending /\ Goto(t, "resume")
     \/ (~FlowIdle \/ (pending.set /\ pending.action # pc[t].action))
          /\ UNCHANGED pending /\ Done(t)
  /\ Fine /\ UNCHANGED <<transport, flow, latch, joint, history>>

Fill(t) ==
  /\ At(t, "fill")
  /\ pending' = [pending EXCEPT !.action = pc[t].action] /\ Goto(t, "resume")
  /\ IF pending = [set |-> TRUE, action |-> None] THEN Fine ELSE Mishandled("torn")
  /\ UNCHANGED <<transport, flow, latch, joint, history>>

\* ... then sdf_app_resume_ble_transport.  If the transport is READY by now, the
\* command came too late for its dispatch.
Resume(t) ==
  /\ At(t, "resume") /\ calls[t] = "none"
  /\ attempt' = 0 /\ Start(t) /\ Goto(t, "return")
  /\ IF Ready THEN Mishandled("late") ELSE Fine
  /\ UNCHANGED <<state, synced, reconnect, gap, link, phase, cached, session>>
  /\ UNCHANGED <<flow, pending, latch, joint, history>>

Return(t) ==
  /\ At(t, "return") /\ calls[t] = "none" /\ t # "match"
  /\ Accepted(t)
  /\ UNCHANGED <<transport, flow, pending, joint, history>>

-----------------------------------------------------------------------------
(* A pairing: sdf_app_execute_nuki_pairing_start in the match task.        *)

AskPairing ==
  /\ At("match", "idle") /\ ~requested /\ pairing = "none"
  /\ Asks({}) /\ requested' = TRUE
  /\ Start("match") /\ Goto("match", "return")
  /\ Fine
  /\ UNCHANGED <<state, synced, attempt, reconnect, gap, link, phase, cached, session>>
  /\ UNCHANGED <<flow, pending, latch, pairing, creds>>

\* sdf_app_start_requested_nuki_pairing, when its guard holds.
MayPair == requested /\ pairing = "none"
StartPairing(ok) ==
  /\ requested' = FALSE
  /\ pairing' = IF ok THEN "WAIT_PUBLIC_KEY" ELSE "none"
  /\ UNCHANGED creds

PairingReturn ==
  /\ At("match", "return") /\ calls["match"] = "none" /\ Done("match")
  /\ \/ MayPair /\ Ready /\ \E ok \in BOOLEAN : StartPairing(ok) /\ Written(ok)
     \/ ~(MayPair /\ Ready) /\ UNCHANGED joint /\ Fine
  /\ UNCHANGED <<transport, flow, pending, latch, history>>

-----------------------------------------------------------------------------
(* The host task, READY: sdf_app_on_ble_ready.                             *)

\* sdf_lock_flow_begin in the host task, where nothing preempts it.
HostBegin(a) == flow' = [state |-> "WAIT_CHALLENGE", action |-> a, retries |-> 0] /\ Born(a)

\* A flow of an earlier connection is over, and its latch sequence with it.
MutantKeepsFlow == flow
StaleFlow == NoFlow
MutantKeepsLatch == latch
LatchLeft == latch /\ FlowIdle

\* A queued command that was begun is not queued any more.
MutantNotCleared == pending
Dispatched == NoPending

BecomesReady ==
  /\ BecomeReady
  /\ latch' = LatchLeft
  /\ UNCHANGED pc
  /\ \/ \* the requested pairing
        /\ MayPair /\ StartPairing(TRUE)
        /\ flow' = StaleFlow /\ UNCHANGED <<pending, history>>
        /\ IF pending.set THEN Mishandled("late") ELSE Fine
     \/ \* the queued command
        /\ ~MayPair /\ Paired /\ pending.set
        /\ HostBegin(pending.action) /\ pending' = Dispatched
        /\ IF pending.action = None THEN Mishandled("torn") ELSE Fine
        /\ UNCHANGED joint
     \/ \* neither, or a request for the lock's state
        /\ ~MayPair /\ ~(Paired /\ pending.set)
        /\ flow' = StaleFlow /\ UNCHANGED <<pending, joint, history>>
        /\ IF pending.set THEN Mishandled("late") ELSE Fine
     \/ \* nothing can be written
        /\ Injected("write")
        /\ flow' = StaleFlow /\ UNCHANGED <<pending, history>>
        /\ IF MayPair THEN StartPairing(FALSE) ELSE UNCHANGED joint

-----------------------------------------------------------------------------
(* The host task, a message of the lock: sdf_app_on_ble_rx, with no        *)
(* pairing active sdf_app_on_message.                                      *)

Heard == Ready /\ link # "none" /\ pairing = "none"

\* sdf_lock_flow_retry, with what it calls.  Its on_fail would release the
\* connection, but the flow is not idle yet.
MutantFreeRetry(ok) == flow' = [flow EXCEPT !.state = "WAIT_CHALLENGE"] /\ UNCHANGED latch
Retry(ok) ==
  IF ok /\ flow.retries < MaxRetries
    THEN /\ flow' = [flow EXCEPT !.state = "WAIT_CHALLENGE", !.retries = @ + 1]
         /\ UNCHANGED latch
    ELSE flow' = NoFlow /\ latch' = FALSE

\* The challenge: the action is sent.
Challenge ==
  /\ Heard /\ flow.state = "WAIT_CHALLENGE"
  /\ \/ /\ flow' = [flow EXCEPT !.state = "WAIT_COMPLETION"] /\ frames' = frames + 1
        /\ Fine /\ UNCHANGED <<latch, asks, asked, begun, born>>
     \/ /\ Injected("write")
        /\ \E ok \in BOOLEAN : Retry(ok)
        /\ UNCHANGED history
  /\ UNCHANGED <<transport, pending, joint, pc>>

\* An error report, an unexpected status, a challenge that does not parse, a frame
\* that does not authenticate.
Trouble ==
  /\ Heard /\ ~FlowIdle
  /\ \E ok \in BOOLEAN : Retry(ok) /\ Written(ok)
  /\ UNCHANGED <<transport, pending, joint, pc, history>>

\* STATUS_COMPLETE: sdf_app_lf_on_complete.
Complete ==
  /\ Heard /\ flow.state = "WAIT_COMPLETION"
  /\ \/ /\ latch /\ flow.action = "UNLOCK"
        /\ HostBegin("UNLATCH") /\ Fine /\ UNCHANGED latch
     \/ /\ latch /\ flow.action = "UNLOCK" /\ Injected("write")
        /\ flow' = NoFlow /\ latch' = FALSE /\ UNCHANGED history
     \/ /\ ~(latch /\ flow.action = "UNLOCK")
        /\ flow' = NoFlow /\ latch' = FALSE /\ Fine /\ UNCHANGED history
  /\ UNCHANGED <<transport, pending, joint, pc>>

\* The lock's state: sdf_app_release_ble_transport.
MutantOnlyPairing == requested
Kept == requested \/ pending.set \/ latch \/ ~FlowIdle
KeyturnerStates ==
  /\ Heard /\ OnDemand /\ ~Kept
  /\ Stop /\ Fine /\ UNCHANGED <<app, history>>

-----------------------------------------------------------------------------
(* The host task, a message of the lock while a pairing is active.         *)

After == [WAIT_PUBLIC_KEY |-> "WAIT_CHALLENGE",
          WAIT_CHALLENGE |-> "WAIT_AUTHORIZATION_DATA",
          WAIT_AUTHORIZATION_DATA |-> "WAIT_AUTHORIZATION_ID"]

PairingHeard == Ready /\ link # "none" /\ pairing # "none"

\* The message that is waited for, and the answer to it.
PairingAdvances ==
  /\ pairing \in DOMAIN After /\ pairing' = After[pairing]
  /\ UNCHANGED creds /\ Fine

\* The last one (sdf_app_check_pairing_complete), on either channel; encrypted it
\* is accepted as soon as there is a key.
PairingCompletes ==
  /\ pairing # "WAIT_PUBLIC_KEY"
  /\ pairing' = "none" /\ creds' = TRUE
  /\ IF pending.set THEN Mishandled("late") ELSE Fine

\* One that is not acceptable, or whose answer cannot be written: the pairing is
\* released ...
PairingRejected == pairing' = "none" /\ UNCHANGED creds /\ Fine

\* ... unless it came encrypted (sdf_nuki_pairing_handle_encrypted reports OK).
PairingFails ==
  /\ pairing # "WAIT_PUBLIC_KEY" /\ pairing' = "ERROR" /\ UNCHANGED creds /\ Fine

PairingMessage ==
  /\ PairingHeard
  /\ PairingAdvances \/ PairingCompletes \/ PairingRejected \/ PairingFails
  /\ UNCHANGED <<transport, flow, pending, latch, requested, pc, history>>

-----------------------------------------------------------------------------
Commander == {"app", "zigbee"}

Commanding(t) ==
  Begin(t) \/ Send(t) \/ SendFails(t) \/ Queue(t) \/ Fill(t) \/ Resume(t) \/ Return(t)

Next ==
  \/ TransportNext /\ UNCHANGED <<app, history>>
  \/ AskMatched \/ AskZigbee \/ AskLatch \/ AskPairing \/ PairingReturn
  \/ \E t \in Commander : Commanding(t)
  \/ BecomesReady
  \/ Challenge \/ Trouble \/ Complete \/ KeyturnerStates \/ PairingMessage

Spec == Init /\ [][Next]_vars

\* Tasks and timers run; the lock advertises and NimBLE answers.
FairSpec ==
  /\ Spec /\ TransportFair
  /\ \A t \in Commander : WF_vars(Commanding(t))
  /\ WF_vars(PairingReturn)
-----------------------------------------------------------------------------
\* A lock action is sent only on the connection its flow was begun on: a flow that
\* a lost connection interrupted is not continued by a challenge on the next.
ActionOnItsConnection == [][frames' > frames => born = session]_vars

\* A begun flow sends its action at most once and once more per retry, whatever
\* challenges and errors the lock sends.
FrameBudget == frames <= MaxRetries + 1 \/ "overlap" \in mishaps

\* No action is begun more often than it was asked for, by a retry, a reconnection
\* or a second dispatch, and none that nobody asked for.  Two flows begun at once
\* may, and a queued command that is dispatched before it is complete.
NothingUnasked ==
  \/ mishaps \cap {"overlap", "torn"} # {}
  \/ begun[None] = 0 /\ \A a \in Action : begun[a] <= asked[a]

\* A flow that waits for the lock, and a queued command, have a connection that is
\* there or sought.  Not after a flow was begun on a connection being released, after
\* scans begun at once (a third one leaves a connection attempt that outlives a
\* release), after the attempts are exhausted, after a command was queued as the connection
\* became READY or before a pairing, or could not be written: then the flow or
\* the queued command stays and refuses every other.
CommandsServed ==
  /\ ~FlowIdle => wanted \/ mishaps \cap {"closing", "exhausted", "overlap"} # {}
  /\ pending.set =>
       \/ wanted /\ ~Ready
       \/ \E t \in Commander : pc[t].at \in {"fill", "resume"}
       \/ mishaps \cap {"late", "exhausted", "write"} # {}

\* The latch sequence is active only while its unlock is queued or one of its two
\* actions is under way; else it refuses every later latch command.
LatchServed ==
  latch => \/ ~FlowIdle /\ flow.action \in {"UNLOCK", "UNLATCH"}
           \/ pending.set /\ pending.action = "UNLOCK"
           \/ mishaps \cap {"latch", "overlap", "torn"} # {}
=============================================================================
