------------------------------- MODULE SdfOta -------------------------------
(***************************************************************************)
(* The firmware update: the one session of sdf_ota.c, and the transports   *)
(* that drive it: BLE writes on the NimBLE host task with an idle timer on *)
(* the esp_timer task (sdf_ble_companion_ota.c), and the upgrade callbacks *)
(* of the Zigbee task (sdf_protocol_zigbee.c).                             *)
(*                                                                         *)
(* An operation of sdf_ota.c is one section under s_session_mutex, and one *)
(* step here, but for the two that stay inside for seconds: sdf_ota_begin  *)
(* while the partition is erased and sdf_ota_verify_and_commit while the   *)
(* image is verified.  A task that finds the mutex taken waits, or times   *)
(* out.  The handle of a session is always the address of the same static  *)
(* object, so any handle that is not NULL fits any session.                *)
(*                                                                         *)
(* Of an image only its length in chunks is modelled, and of a session     *)
(* which transfers its chunks came from.  What ESP-IDF answers (flash,     *)
(* versions, signature) is free.  Who may update is SdfCompanion's matter. *)
(***************************************************************************)
EXTENDS Integers

CONSTANTS
  Conns,       \* connections of BLE clients
  Partition,   \* chunks the update partition holds
  Sizes,       \* lengths of the images offered
  MaxDownloads, \* bound: downloads the Zigbee coordinator starts
  MaxUploads,  \* bound: BEGINs of BLE clients
  Missable     \* whether s_session_lock, held for copies only, may be missed

ASSUME OtaAssumption ==
  /\ Partition \in Nat \ {0} /\ Sizes \subseteq 1..Partition
  /\ MaxDownloads \in Nat /\ MaxUploads \in Nat /\ Missable \in BOOLEAN
  /\ Conns # {}

VARIABLES
  s,         \* s_session of sdf_ota.c, and what its chunks are
  holder,    \* who has s_session_mutex
  zigbee,    \* s_ota_session # NULL in the Zigbee handler
  ble,       \* s_session of sdf_ble_companion_ota.c
  timer,     \* s_idle_timer is running
  host, zpc, tpc, \* where the three tasks are, and what the host task works on
  selected   \* the update partition is the boot partition

\* The coordinator's side.
VARIABLES
  stage,     \* of the present download
  downloads, \* downloads started; the number of the present one
  uploads    \* BEGINs so far

\* History, read by the properties only.
VARIABLES
  idf,       \* update handles open in ESP-IDF
  image,     \* what is in the update partition
  mishaps    \* what went wrong

Tasks   == {"host", "zigbee", "timer"}
BLE     == 0               \* the BLE clients; a download is its number
Senders == 0..MaxDownloads

code    == <<s, holder, zigbee, ble, timer, host, zpc, tpc, selected>>
world   == <<stage, downloads, uploads>>
history == <<idf, image, mishaps>>
vars    == <<code, world, history>>

\* s_session_lock was missed; an abort came late and hit another's session; a download
\* started over and was refused its own; the idle timeout overtook an operation that
\* has read its handle.
Mishap  == {"lock", "robbed", "restarted", "overtaken"}
States  == {"IDLE", "DOWNLOADING", "VERIFYING", "COMMITTING", "COMPLETE", "FAILED"}

NoSession == [state |-> "IDLE", active |-> FALSE, open |-> FALSE,
              size |-> 0, bytes |-> 0, owner |-> BLE, from |-> {}]
NoUpload  == [active |-> FALSE, conn |-> CHOOSE c \in Conns : TRUE, size |-> 0]

TypeOK ==
  /\ s \in [state: States, active: BOOLEAN, open: BOOLEAN, size: 0..Partition,
            bytes: 0..Partition, owner: Senders, from: SUBSET Senders]
  /\ holder \in Tasks \cup {"none"}
  /\ zigbee \in BOOLEAN /\ timer \in BOOLEAN /\ selected \in BOOLEAN
  /\ ble \in [active: BOOLEAN, conn: Conns, size: 0..Partition]
  /\ host \in [at: {"idle", "resume", "begin", "erase", "adopt", "write", "ack", "drop",
                    "clear", "verify", "commit", "validate", "finish", "release", "restart"},
               conn: Conns, size: 0..Partition]
  /\ zpc \in {"idle", "erase", "commit", "validate", "restart"}
  /\ tpc \in {"idle", "abort"}
  /\ stage \in {"none", "data", "checked"}
  /\ downloads \in Senders /\ uploads \in 0..MaxUploads
  /\ idf \in 0..1
  /\ image \in {"erased", "whole", "broken"}
  /\ mishaps \subseteq Mishap

Idle == [at |-> "idle", conn |-> NoUpload.conn, size |-> 0]

Init ==
  /\ s = NoSession /\ holder = "none" /\ zigbee = FALSE
  /\ ble = NoUpload /\ timer = FALSE
  /\ host = Idle /\ zpc = "idle" /\ tpc = "idle" /\ selected = FALSE
  /\ stage = "none" /\ downloads = 0 /\ uploads = 0
  /\ idf = 0 /\ image = "erased" /\ mishaps = {}

-----------------------------------------------------------------------------
(* The session, sdf_ota.c.  Each operation is given its caller's            *)
(* transfer, and says what becomes of s, idf and mishaps.                  *)

Fine == UNCHANGED mishaps
Free == holder = "none"

\* xSemaphoreTake(s_session_mutex) ran into its timeout.
TimesOut == ~Free

\* sdf_ota_state_transition: the transitions it lets pass.
Follows(from, to) ==
  \/ from = to
  \/ <<from, to>> \in {<<"IDLE", "DOWNLOADING">>, <<"DOWNLOADING", "VERIFYING">>,
                       <<"VERIFYING", "COMMITTING">>, <<"COMMITTING", "COMPLETE">>}
  \/ from \in {"DOWNLOADING", "VERIFYING", "COMMITTING"} /\ to = "FAILED"

Moved(t, to) == IF Follows(t.state, to) THEN [t EXCEPT !.state = to] ELSE t

MutantStaysOpen(t) == [Moved(t, "FAILED") EXCEPT !.active = FALSE]

\* sdf_ota_session_fail, and what sdf_ota_abort does to a session that is active.
Closed(t) == [Moved(t, "FAILED") EXCEPT !.open = FALSE, !.active = FALSE]

\* Closing gives the handle back to ESP-IDF if it is still open.
Returned(t) == IF t.open THEN 1 ELSE 0
Closes(t)   == s' = Closed(t) /\ idf' = idf - Returned(t)

Session(n, sender) ==
  [state |-> Moved(NoSession, "DOWNLOADING").state, active |-> TRUE, open |-> TRUE,
   size |-> n, bytes |-> 0, owner |-> sender, from |-> {}]

\* sdf_ota_write: the chunk is appended, or the flash refuses it.
Appends(sender) ==
  /\ Free /\ s.active /\ s.open /\ s.bytes < Partition
  /\ s' = [s EXCEPT !.bytes = @ + 1, !.from = @ \cup {sender}]
  /\ UNCHANGED <<idf, mishaps>>

\* It times out, or there is no session, or the flash refuses: then it closes the session.
NotAppended ==
  /\ \/ (TimesOut \/ ~s.active) /\ UNCHANGED <<s, idf>>
     \/ Free /\ s.active /\ Closes(s)
  /\ Fine

\* It refuses a chunk of no bytes, which only a Zigbee frame can bring, and leaves the
\* session as it is.
NothingToAppend == UNCHANGED <<s, idf>> /\ Fine

\* sdf_ota_abort, whose result nobody reads.  It is meant for the caller's own session.
Robs(sender) == s.active /\ s.owner # sender

Abort(sender) ==
  /\ IF Free /\ s.active THEN Closes(s) ELSE UNCHANGED <<s, idf>>
  /\ mishaps' = IF Free /\ Robs(sender) THEN mishaps \cup {"robbed"} ELSE mishaps

MutantNotMeasured(t) == t.bytes <= t.size

\* sdf_ota_verify_integrity.
Complete(t) == t.bytes = t.size

Verified ==
  /\ Free /\ s.active /\ Complete(s) /\ Follows(s.state, "VERIFYING")
  /\ s' = Moved(s, "VERIFYING") /\ UNCHANGED <<idf, mishaps>>

NotVerified ==
  /\ \/ Free /\ s.active /\ ~Complete(s) /\ Closes(s)
     \/ /\ TimesOut \/ ~s.active \/ (Complete(s) /\ ~Follows(s.state, "VERIFYING"))
        /\ UNCHANGED <<s, idf>>
  /\ Fine

\* sdf_ota_verify_and_commit, up to esp_ota_end: the state, then the versions.
Accepted(task) ==
  /\ Free /\ s.active /\ Follows(s.state, "COMMITTING")
  /\ s' = Moved(s, "COMMITTING") /\ holder' = task
  /\ UNCHANGED <<idf, mishaps>>

NotAccepted ==
  /\ \/ Free /\ s.active /\ Closes(s)
     \/ (TimesOut \/ ~s.active) /\ UNCHANGED <<s, idf>>
  /\ UNCHANGED holder /\ Fine

\* esp_ota_end frees the handle whatever it returns.  The image is then selected.
Ended == [s EXCEPT !.open = FALSE]

Validated ==
  /\ s' = Moved(Ended, "COMPLETE") /\ idf' = idf - 1 /\ holder' = "none"
  /\ selected' = TRUE
  /\ image' = IF s.bytes = s.size /\ s.from = {s.owner} THEN "whole" ELSE "broken"
  /\ Fine

NotValidated ==
  /\ s' = Closed(Ended) /\ idf' = idf - 1 - Returned(Ended) /\ holder' = "none"
  /\ Fine /\ UNCHANGED <<selected, image>>

\* sdf_ota_begin: the session is claimed and the partition erased, or it is refused.
Claims(task) ==
  /\ Free /\ ~s.active
  /\ holder' = task /\ image' = "erased" /\ UNCHANGED <<s, idf, selected, mishaps>>

Refused == TimesOut \/ s.active

\* The erasing is over, and a session is open.
Opens(n, sender) ==
  /\ s' = Session(n, sender) /\ idf' = idf + 1 /\ holder' = "none"
  /\ UNCHANGED <<image, selected, mishaps>>

NotOpened == holder' = "none" /\ UNCHANGED <<s, idf, image, selected, mishaps>>

-----------------------------------------------------------------------------
(* BLE: the handlers of the three opcodes on the host task.  A write that  *)
(* is refused changes nothing.                                             *)

At(p)   == host.at = p
Goto(p) == host' = [host EXCEPT !.at = p]

bleOnly == <<holder, zigbee, zpc, tpc, selected, world, image>>
still   == <<s, holder, zigbee, zpc, tpc, selected, idf, image, stage, downloads>>

\* sdf_ble_ota_protocol_decide_begin.
Begin(c, n) ==
  /\ At("idle") /\ uploads < MaxUploads /\ uploads' = uploads + 1
  /\ \/ /\ ble.active /\ n = ble.size
        /\ ble' = [ble EXCEPT !.conn = c] /\ Goto("resume")
     \/ /\ ~ble.active /\ UNCHANGED ble
        /\ host' = [at |-> "begin", conn |-> c, size |-> n]
  /\ Fine /\ UNCHANGED <<still, timer>>

MutantNotRearmed == UNCHANGED timer

Rearm == timer' = TRUE

\* A confirmed offset is reported and the idle timer starts over.
Rearmed ==
  /\ At("resume") \/ At("ack")
  /\ Rearm /\ Goto("idle")
  /\ Fine /\ UNCHANGED <<still, ble, uploads>>

ClaimBle ==
  /\ At("begin")
  /\ \/ Claims("host") /\ Goto("erase")
     \/ /\ Refused /\ Goto("idle") /\ UNCHANGED <<s, holder, idf, image, selected, mishaps>>
  /\ UNCHANGED <<zigbee, ble, timer, zpc, tpc, world>>

OpenBle ==
  /\ At("erase")
  /\ \/ Opens(host.size, BLE) /\ Goto("adopt")
     \/ NotOpened /\ Goto("idle")
  /\ UNCHANGED <<zigbee, ble, timer, zpc, tpc, world>>

\* The lock was missed: the session goes on.
Missed == Missable /\ mishaps' = mishaps \cup {"lock"}

Adopt ==
  /\ At("adopt")
  /\ \/ /\ ble' = [active |-> TRUE, conn |-> host.conn, size |-> host.size]
        /\ Rearm /\ Goto("idle") /\ Fine
     \/ Missed /\ Goto("release") /\ UNCHANGED <<ble, timer>>
  /\ UNCHANGED <<still, uploads>>

Chunk(c) ==
  /\ At("idle") /\ ble.active /\ ble.conn = c /\ Goto("write")
  /\ Fine /\ UNCHANGED <<still, ble, timer, uploads>>

Write ==
  /\ At("write")
  /\ \/ Appends(BLE) /\ Goto("ack")
     \/ NotAppended /\ Goto("drop")
  /\ UNCHANGED <<bleOnly, ble, timer>>

\* The session is aborted after a write that failed, and after an END that did.
AbortBle ==
  /\ \/ At("drop") /\ Goto("clear")
     \/ At("release") /\ Goto("idle")
  /\ Abort(BLE) /\ UNCHANGED <<bleOnly, ble, timer>>

MutantForgets == Fine /\ UNCHANGED ble

Forget == (ble' = NoUpload /\ Fine) \/ (Missed /\ UNCHANGED ble)

Clear ==
  /\ At("clear") /\ timer' = FALSE /\ Forget /\ Goto("idle")
  /\ UNCHANGED <<still, uploads>>

End(c) ==
  /\ At("idle") /\ ble.active /\ ble.conn = c /\ Goto("verify")
  /\ Fine /\ UNCHANGED <<still, ble, timer, uploads>>

Verify ==
  /\ At("verify") /\ timer' = FALSE
  /\ \/ Verified /\ Goto("commit")
     \/ NotVerified /\ Goto("finish")
  /\ UNCHANGED <<bleOnly, ble>>

Commit ==
  /\ At("commit")
  /\ \/ Accepted("host") /\ Goto("validate")
     \/ NotAccepted /\ Goto("finish")
  /\ UNCHANGED <<zigbee, zpc, tpc, selected, world, image, ble, timer>>

Validate ==
  /\ At("validate")
  /\ \/ Validated /\ Goto("restart")
     \/ NotValidated /\ Goto("finish")
  /\ UNCHANGED <<zigbee, zpc, tpc, world, ble, timer>>

Finish ==
  /\ At("finish") /\ Forget /\ Goto("release")
  /\ UNCHANGED <<still, timer, uploads>>

\* The host task has read the handle for an operation that may end the session.
Handling == {"write", "drop", "clear", "verify"}

\* sdf_ble_ota_idle_timeout_cb: the upload is forgotten, and then aborted.
Expire ==
  /\ timer /\ tpc = "idle" /\ timer' = FALSE
  /\ \/ /\ ble.active /\ ble' = NoUpload /\ tpc' = "abort"
        /\ mishaps' = IF host.at \in Handling THEN mishaps \cup {"overtaken"} ELSE mishaps
     \/ ~ble.active /\ Fine /\ UNCHANGED <<ble, tpc>>
     \/ Missed /\ UNCHANGED <<ble, tpc>>
  /\ UNCHANGED <<s, holder, zigbee, zpc, host, selected, idf, image, world>>

AbortExpired ==
  /\ tpc = "abort" /\ tpc' = "idle" /\ Abort(BLE)
  /\ UNCHANGED <<holder, zigbee, zpc, selected, world, image, ble, timer, host>>

-----------------------------------------------------------------------------
(* Zigbee: sdf_zigbee_ota_upgrade_status_handler.  The coordinator may give *)
(* up a download at any point and start another.                           *)

bleSide == <<ble, timer, host, tpc, uploads>>

\* A START that is refused leaves the handle as it was.
Start ==
  /\ zpc = "idle" /\ downloads < MaxDownloads
  /\ downloads' = downloads + 1 /\ stage' = "data"
  /\ \/ Claims("zigbee") /\ zpc' = "erase"
     \/ /\ Refused /\ UNCHANGED <<zpc, s, holder, idf, image, selected>>
        /\ mishaps' = IF zigbee THEN mishaps \cup {"restarted"} ELSE mishaps
  /\ UNCHANGED <<zigbee, bleSide>>

OpenZigbee ==
  /\ zpc = "erase" /\ zpc' = "idle"
  /\ \/ \E n \in Sizes : Opens(n, downloads) /\ zigbee' = TRUE
     \/ NotOpened /\ UNCHANGED zigbee
  /\ UNCHANGED <<bleSide, stage, downloads>>

MutantKept == zigbee

\* After a failure the handle is forgotten.
Dropped == FALSE

Receive ==
  /\ zpc = "idle" /\ stage = "data" /\ zigbee
  /\ \/ Appends(downloads) /\ UNCHANGED zigbee
     \/ (NotAppended \/ NothingToAppend) /\ zigbee' = Dropped
  /\ UNCHANGED <<bleSide, holder, zpc, selected, image, stage, downloads>>

Check ==
  /\ zpc = "idle" /\ stage = "data" /\ stage' = "checked"
  /\ \/ zigbee /\ Verified /\ UNCHANGED zigbee
     \/ zigbee /\ NotVerified /\ zigbee' = Dropped
     \/ ~zigbee /\ UNCHANGED <<zigbee, s, idf, mishaps>>
  /\ UNCHANGED <<bleSide, holder, zpc, selected, image, downloads>>

FinishZigbee ==
  /\ zpc = "idle" /\ stage = "checked" /\ stage' = "none"
  /\ \/ zigbee /\ Accepted("zigbee") /\ zpc' = "validate" /\ UNCHANGED zigbee
     \/ zigbee /\ NotAccepted /\ zigbee' = FALSE /\ UNCHANGED zpc
     \/ ~zigbee /\ Fine /\ UNCHANGED <<zigbee, zpc, s, holder, idf>>
  /\ UNCHANGED <<bleSide, selected, image, downloads>>

ValidateZigbee ==
  /\ zpc = "validate"
  /\ \/ Validated /\ zpc' = "restart" /\ UNCHANGED zigbee
     \/ NotValidated /\ zpc' = "idle" /\ zigbee' = FALSE
  /\ UNCHANGED <<bleSide, stage, downloads>>

-----------------------------------------------------------------------------
\* esp_restart at the end of a commit, or a reset at any time: the other partition
\* is then the one to update.
Reset ==
  /\ s' = NoSession /\ holder' = "none" /\ zigbee' = FALSE
  /\ ble' = NoUpload /\ timer' = FALSE
  /\ host' = Idle /\ zpc' = "idle" /\ tpc' = "idle" /\ selected' = FALSE
  /\ stage' = "none" /\ idf' = 0 /\ image' = "erased" /\ mishaps' = {}
  /\ UNCHANGED <<downloads, uploads>>

Restart == (At("restart") \/ zpc = "restart") /\ Reset

Uploading ==
  Rearmed \/ ClaimBle \/ OpenBle \/ Adopt \/ Write \/ AbortBle \/ Clear \/ Verify
    \/ Commit \/ Validate \/ Finish
Timer       == Expire \/ AbortExpired
Downloading == OpenZigbee \/ ValidateZigbee

Next ==
  \/ \E c \in Conns : (\E n \in Sizes : Begin(c, n)) \/ Chunk(c) \/ End(c)
  \/ Uploading \/ Timer
  \/ Start \/ Receive \/ Check \/ FinishZigbee \/ Downloading
  \/ Reset

Spec == Init /\ [][Next]_vars

\* What a task began it ends, and the timer runs.  Nobody has to send anything.
FairSpec ==
  /\ Spec
  /\ WF_vars(Uploading) /\ WF_vars(Timer) /\ WF_vars(Downloading) /\ WF_vars(Restart)
-----------------------------------------------------------------------------
\* The handle of the session is open in ESP-IDF exactly while the session says so,
\* and no session that ended keeps it: on no path, through whichever transport, is it
\* given back twice or kept from the next update.
HandleOwned ==
  /\ idf = IF s.open THEN 1 ELSE 0
  /\ s.open => s.active

\* The chunks of a session come from the transfer that began it: a transport whose
\* session is gone has forgotten it before another is open.  Not after a mishap.
OneSender ==
  s.active => s.from \subseteq {s.owner} \/ mishaps # {}

\* What the device boots next has been received as declared, from one transfer.
BootsWhole == selected => image = "whole" \/ mishaps # {}

\* An upload the BLE side holds open is the session, but while an operation that
\* failed is being cleaned up: else a BEGIN would resume a session that is not there.
UploadLives ==
  ble.active => \/ s.active /\ s.owner = BLE
                \/ host.at \in {"drop", "clear", "finish"}
                \/ mishaps # {}

\* An upload whose client fell silent ends, and the update is available again, unless
\* the lock was missed.
UploadEnds ==
  (s.active /\ s.owner = BLE) ~> (~s.active \/ s.owner # BLE \/ "lock" \in mishaps)
=============================================================================
