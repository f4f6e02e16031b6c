-------------------------- MODULE SdfNukiTransport --------------------------
(***************************************************************************)
(* The BLE connection to the Nuki lock (sdf_nuki_ble_transport.c): scan,   *)
(* connect, discover, subscribe, READY, and the reconnection after a loss. *)
(*                                                                         *)
(* The NimBLE host task runs the GAP and GATT callbacks; it preempts every *)
(* other task, so that each callback is one step.  sdf_nuki_ble_start and  *)
(* the start of a scan also run on the tasks that call them and on the     *)
(* timer task, of the lowest priority: there a scan is two steps, since    *)
(* ble_gap_disc blocks.                                                    *)
(*                                                                         *)
(* `enabled' is always TRUE (only the power manager clears it, which       *)
(* nothing initialises) and s_pending_connect always FALSE (nothing sets   *)
(* it), so both are left out, and so is a reset of the host, which         *)
(* sdf_nuki_ble_on_reset only logs.  The two timeouts of a connection      *)
(* attempt are two causes of ConnectFails.                                 *)
(***************************************************************************)
EXTENDS Naturals, FiniteSets

CONSTANTS
  Tasks,        \* the tasks that call sdf_nuki_ble_start
  MaxAttempts,  \* CONFIG_SDF_BLE_RECONNECT_MAX_RETRIES, 0 for no limit
  MaxSessions,  \* bound: connections made
  Faults,       \* bound: the kinds of fault explored, of Fault
  MaxMishaps    \* bound: a fault is injected after fewer kinds than this

\* ble_gap_disc or ble_gap_connect refuses; a GATT procedure or a save of its
\* handles fails; a frame to the lock cannot be written.
Fault == {"scan", "connect", "gatt", "write"}

ASSUME TransportAssumption ==
  /\ "timer" \notin Tasks
  /\ MaxAttempts \in Nat /\ MaxSessions \in Nat
  /\ Faults \subseteq Fault /\ MaxMishaps \in Nat

Callers == Tasks \cup {"timer"}

VARIABLES
  state,      \* transport.state
  wanted,     \* transport.start_requested
  synced,     \* transport.synced
  attempt,    \* transport.reconnect_attempt, a uint8_t
  reconnect,  \* reconnect_timer is armed
  calls,      \* where each caller is in sdf_nuki_ble_start_scan
  gap,        \* what NimBLE's GAP master procedure is doing
  link,       \* the connection; conn_handle is set unless it is "none"
  phase,      \* the GATT procedure whose callback is awaited
  cached      \* the handles are in NVS

\* History, read by the properties only.
VARIABLES
  session,    \* connections made so far
  mishaps     \* what went wrong, of Mishap

transport == <<state, wanted, synced, attempt, reconnect, calls, gap, link, phase, cached,
               session>>

TransportState == {"IDLE", "SCANNING", "CONNECTING", "DISCOVERING", "READY"}
Phase          == {"none", "mtu", "discovery", "gdio", "usdio"}

\* The faults, and: two callers in ble_gap_disc at once; the attempts exhausted.
\* Those of SdfNukiLink are explained there.
Mishap == Fault \cup {"overlap", "exhausted", "closing", "torn", "late", "latch"}

TransportTypeOK ==
  /\ state \in TransportState /\ wanted \in BOOLEAN /\ synced \in BOOLEAN
  /\ attempt \in 0..255 /\ reconnect \in BOOLEAN
  /\ calls \in [Callers -> {"none", "scan", "disc"}]
  /\ gap \in {"none", "disc", "conn"} /\ link \in {"none", "up", "closing"}
  /\ phase \in Phase /\ cached \in BOOLEAN
  /\ session \in 0..MaxSessions /\ mishaps \subseteq Mishap

\* Booted, and asked to connect at once or not (sdf_app_init).
TransportInit(atOnce) ==
  /\ state = "IDLE" /\ wanted = atOnce /\ synced = FALSE
  /\ attempt = 0 /\ reconnect = FALSE
  /\ calls = [c \in Callers |-> "none"]
  /\ gap = "none" /\ link = "none" /\ phase = "none" /\ cached \in BOOLEAN
  /\ session = 0 /\ mishaps = {}

Ready == state = "READY"

Mishandled(m) == mishaps' = mishaps \cup {m}
Fine          == UNCHANGED mishaps
May(f)        == f \in Faults /\ Cardinality((mishaps \cap Fault) \cup {f}) <= MaxMishaps
Injected(f)     == May(f) /\ Mishandled(f)

-----------------------------------------------------------------------------
(* Scanning, in any task.                                                  *)

\* sdf_nuki_ble_start sets start_requested; the caller goes on to the scan.
Start(c) == wanted' = TRUE /\ calls' = [calls EXCEPT ![c] = "scan"]

\* sdf_nuki_ble_start_scan up to ble_gap_disc.  A scan that runs is cancelled.
Scannable == {"IDLE", "SCANNING"}
Scan(c) ==
  /\ calls[c] = "scan"
  /\ IF synced /\ wanted /\ state \in Scannable
       THEN /\ calls' = [calls EXCEPT ![c] = "disc"]
            /\ state' = "SCANNING"
            /\ gap' = IF state = "SCANNING" /\ gap = "disc" THEN "none" ELSE gap
       ELSE calls' = [calls EXCEPT ![c] = "none"] /\ UNCHANGED <<state, gap>>
  /\ IF \E d \in Callers \ {c} : calls[d] = "disc" THEN Mishandled("overlap") ELSE Fine
  /\ UNCHANGED <<wanted, synced, attempt, reconnect, link, phase, cached, session>>

\* ble_gap_disc and what follows it.  It is refused while NimBLE scans or connects.
Disc(c) ==
  /\ calls[c] = "disc"
  /\ calls' = [calls EXCEPT ![c] = "none"]
  /\ \/ gap = "none" /\ gap' = "disc" /\ UNCHANGED state /\ Fine
     \/ gap # "none" /\ state' = "IDLE" /\ UNCHANGED gap /\ Fine
     \/ gap = "none" /\ Injected("scan") /\ state' = "IDLE" /\ UNCHANGED gap
  /\ UNCHANGED <<wanted, synced, attempt, reconnect, link, phase, cached, session>>

\* The host has synchronised with the controller; it scans if that is wanted.
Sync ==
  /\ ~synced /\ synced' = TRUE
  /\ \/ wanted /\ state' = "SCANNING" /\ gap' = "disc" /\ Fine
     \/ wanted /\ Injected("scan") /\ UNCHANGED <<state, gap>>
     \/ ~wanted /\ UNCHANGED <<state, gap>> /\ Fine
  /\ UNCHANGED <<wanted, attempt, reconnect, calls, link, phase, cached, session>>

-----------------------------------------------------------------------------
(* Connecting, in the host task.                                           *)

\* sdf_nuki_ble_schedule_reconnect, from a state that is `from' unless the
\* attempts are exhausted.
MutantNoReconnect(from) == state' = from /\ UNCHANGED <<wanted, attempt, reconnect>> /\ Fine
ScheduleReconnect(from) ==
  IF ~wanted
    THEN state' = from /\ UNCHANGED <<wanted, attempt, reconnect>> /\ Fine
    ELSE IF MaxAttempts > 0 /\ attempt >= MaxAttempts
      THEN /\ state' = "IDLE" /\ wanted' = FALSE /\ Mishandled("exhausted")
           /\ UNCHANGED <<attempt, reconnect>>
      ELSE /\ state' = from /\ attempt' = (attempt + 1) % 256 /\ reconnect' = TRUE
           /\ UNCHANGED wanted /\ Fine

\* The lock's advertisement: sdf_nuki_ble_handle_adv, _initiate_connect, _connect.
\* The scan is cancelled and the connection begun without another task's step in
\* between, although either call may wait for the controller.
Advertise ==
  /\ gap = "disc" /\ state = "SCANNING"
  /\ state' = "CONNECTING"
  /\ \/ gap' = "conn" /\ Fine
     \/ gap' = "none" /\ Injected("connect")
  /\ UNCHANGED <<wanted, synced, attempt, reconnect, calls, link, phase, cached, session>>

\* BLE_GAP_EVENT_CONNECT, with a status or without.  The attempt may be given up
\* by the connect timeout or by NimBLE's own.
ConnectFails ==
  /\ gap = "conn" /\ gap' = "none"
  /\ ScheduleReconnect(state)
  /\ UNCHANGED <<synced, calls, link, phase, cached, session>>

Connected ==
  /\ gap = "conn" /\ session < MaxSessions
  /\ gap' = "none" /\ link' = "up" /\ state' = "DISCOVERING" /\ session' = session + 1
  /\ \/ phase' = "mtu" /\ Fine
     \/ phase' = "discovery" /\ Injected("gatt")
  /\ UNCHANGED <<wanted, synced, attempt, reconnect, calls, cached>>

\* The callbacks of the MTU exchange, of the discoveries, and of the first
\* subscription.  Known handles spare the discovery.
Exchanged ==
  /\ phase = "mtu"
  /\ \/ phase' = (IF cached THEN "gdio" ELSE "discovery") /\ Fine
     \/ phase' = "discovery" /\ cached /\ Injected("gatt")
  /\ UNCHANGED cached

Discovered ==
  /\ phase = "discovery"
  /\ \/ phase' = "gdio" /\ cached' = TRUE /\ Fine
     \/ phase' = "gdio" /\ UNCHANGED cached /\ Injected("gatt")

Subscribed == phase = "gdio" /\ phase' = "usdio" /\ UNCHANGED cached /\ Fine

\* A procedure that fails, cached handles that are stale included, is the last.
GattFails == phase # "none" /\ phase' = "none" /\ UNCHANGED cached /\ Injected("gatt")

Discovering ==
  /\ Exchanged \/ Discovered \/ Subscribed \/ GattFails
  /\ UNCHANGED <<state, wanted, synced, attempt, reconnect, calls, gap, link, session>>

\* The second subscription is confirmed: READY.  The caller's ready_cb follows.
BecomeReady ==
  /\ phase = "usdio" /\ phase' = "none"
  /\ state' = "READY" /\ attempt' = 0
  /\ UNCHANGED <<wanted, synced, reconnect, calls, gap, link, cached, session>>

\* BLE_GAP_EVENT_DISCONNECT.
Disconnect ==
  /\ link # "none" /\ link' = "none" /\ phase' = "none"
  /\ ScheduleReconnect("IDLE")
  /\ UNCHANGED <<synced, calls, gap, cached, session>>

\* sdf_nuki_ble_stop with a connection up, the only case its caller makes: the
\* state stays until the disconnection.
Stop ==
  /\ wanted' = FALSE /\ reconnect' = FALSE /\ attempt' = 0 /\ link' = "closing"
  /\ UNCHANGED <<state, synced, calls, gap, phase, cached, session>>

-----------------------------------------------------------------------------
\* sdf_nuki_ble_reconnect_timer_cb, in the timer task.
TimerFires ==
  /\ reconnect /\ reconnect' = FALSE
  /\ calls["timer"] = "none"
  /\ calls' = IF wanted THEN [calls EXCEPT !["timer"] = "scan"] ELSE calls
  /\ Fine
  /\ UNCHANGED <<state, wanted, synced, attempt, gap, link, phase, cached, session>>

TransportNext ==
  \/ \E c \in Callers : Scan(c) \/ Disc(c)
  \/ Sync \/ Advertise \/ ConnectFails \/ Connected \/ Discovering \/ Disconnect
  \/ TimerFires

TransportFair ==
  /\ \A c \in Callers : WF_transport(Scan(c) \/ Disc(c))
  /\ WF_transport(TimerFires) /\ WF_transport(Sync) /\ WF_transport(Advertise)
  /\ WF_transport(Discovering)

-----------------------------------------------------------------------------
\* A connection that is wanted and neither there nor being made has somebody who
\* will try again: the reconnect timer, a caller on its way to a scan, a scan the
\* state knows of, a connection attempt, or the end of a connection.  A scan that
\* is refused, or two at once, leave it with nobody.
LinkDriven ==
  (wanted /\ synced /\ state \in {"IDLE", "SCANNING"} /\ mishaps \cap {"scan", "overlap"} = {})
    => \/ reconnect \/ gap = "conn" \/ link # "none"
       \/ state = "SCANNING" /\ gap = "disc"
       \/ \E c \in Callers : calls[c] # "none"

\* Every connection attempt that fails is retried (doc/software-architecture.md:160,
\* "BLE failures retry up to configurable limit with backoff"): the transport does
\* not stay CONNECTING when NimBLE is not.
ConnectRetried ==
  (wanted /\ state = "CONNECTING" /\ gap = "none") ~> (~wanted \/ state # "CONNECTING")
=============================================================================
