--------------------------- MODULE SerialCapture ---------------------------
(***************************************************************************)
(* Serial recording as the capture dialog runs it                          *)
(* (src/capture/CaptureDialog.tsx) over the reader of                      *)
(* src/capture/web-serial.ts: a port that is chosen and opened for a       *)
(* preflight, the boundary at which its open reader is handed to the       *)
(* recording, the assembler that holds bytes back until a record is whole, *)
(* read errors, a device that disappears, a close that fails, and a dialog *)
(* that is dismissed while its start still waits for the device chooser.   *)
(*                                                                         *)
(* The dialog is one thread: an action is what it does between two awaits. *)
(* d holds its refs and its phase, d.pc what it awaits: nothing (idle),    *)
(* requestPort (choose), open, the close after a setup that failed         *)
(* (close), or stop.  Bytes are the offsets at which they arrived; where   *)
(* the assembler cuts them into records is the device's doing.             *)
(***************************************************************************)
EXTENDS CaptureDesk

CONSTANTS
  MaxTime,    \* bounds of the model: the clock of a recording,
  MaxChunk,   \* the bytes of one read,
  MaxRead,    \* the bytes read since a port was opened,
  MaxFaults   \* read errors, disconnects and closes that fail

ASSUME SerialAssumption == {MaxTime, MaxChunk, MaxRead, MaxFaults} \subseteq Nat

VARIABLES
  now,     \* the clock, from the boundary of the recording
  d,       \* the dialog
  port,    \* its WebSerialCapture: port # null, stopRequested, and whether readLoop reads
  device,  \* the device itself: closed, open, or stuck after a close that failed
  late,    \* what the start of a dialog that was dismissed still awaits
  saved,   \* the session last finalised
  faults,  \* faults so far
  truth    \* what the device sent since the boundary (no code reads it)

vars == <<now, d, port, device, late, saved, faults, truth>>

Ready ==
  [phase |-> "ready", purpose |-> "none", pc |-> "idle", cont |-> "none", cancelled |-> FALSE,
   connected |-> FALSE, hasRec |-> FALSE, rec |-> NewRecorder, pendEvents |-> <<>>, buf |-> <<>>,
   paused |-> FALSE, closed |-> FALSE, frozen |-> -1, last |-> 0, lastKept |-> -1, t0 |-> 0,
   stDur |-> 0, reads |-> 0, bytes |-> 0, stop |-> "not-observed", verified |-> 0,
   limitEvent |-> FALSE, logOk |-> TRUE, reason |-> FALSE, ctx |-> <<>>]

NoPort == [held |-> FALSE, stopped |-> FALSE, reading |-> FALSE]
Active == port.held /\ ~port.stopped   \* WebSerialCapture.active
Nobody == [status |-> "none", doc |-> <<>>]
Unsent == [read |-> 0, bytes |-> 0, failed |-> FALSE]

Init ==
  /\ now = 0 /\ d = Ready /\ port = NoPort /\ device = "closed" /\ late = "none"
  /\ saved = Nobody /\ faults = 0 /\ truth = Unsent

Fault == faults < MaxFaults /\ faults' = faults + 1

-----------------------------------------------------------------------------
(* The assembler: bytes go in, records come out in the same order *)

\* A push or a finish takes records from the front of bytes, and each of cuts is the end of one.
Before(cuts, end) == Top({c \in cuts : c < end} \cup {0})
Assembled(bytes, cuts) ==
  [end \in cuts |-> [at |-> bytes[Before(cuts, end) + 1], size |-> end - Before(cuts, end)]]

Unassembled(bytes, cuts) == SubSeq(bytes, Top(cuts \cup {0}) + 1, Len(bytes))

RetainAll(x, t, bytes, cuts, origin) ==
  LET retained[i \in 0..Len(bytes)] ==
        IF i = 0 THEN x
        ELSE IF i \notin cuts THEN retained[i - 1]
        ELSE Retain(retained[i - 1], t, Assembled(bytes, cuts)[i].at, Assembled(bytes, cuts)[i].size, origin)
  IN retained[Len(bytes)]

\* retainSerialAssemblerTail: what is held back is one record, or nothing.
RetainTail(x, t) ==
  IF x.paused \/ x.buf = <<>> THEN x
  ELSE RetainAll([x EXCEPT !.buf = <<>>], t, x.buf, {Len(x.buf)}, "serial-tail")

-----------------------------------------------------------------------------
(* The handlers of a recording *)

OnChunk(x, t, n, cuts) ==
  LET seen == [x EXCEPT !.reads = @ + 1, !.bytes = @ + n,
                        !.last = IF x.frozen = -1 THEN Top({@, t + 1}) ELSE @]
      bytes == x.buf \o [i \in 1..n |-> t]
  IN IF x.closed \/ x.paused THEN seen
     ELSE RetainAll([seen EXCEPT !.buf = Unassembled(bytes, cuts)], t, bytes, cuts, "live")

\* onError and onDisconnect close the input and freeze the duration.
OnFailure(x, t, type) ==
  LET y == [Freeze(x, t) EXCEPT !.closed = TRUE, !.reason = TRUE] IN
  RecordEvent(y, Event(type, EventOffset(y, t), <<>>))

\* Mutant: a disconnect is shown to the operator but not recorded.
OnDisconnect_Quiet(x, t) == [Freeze(x, t) EXCEPT !.closed = TRUE, !.reason = TRUE]
OnDisconnect(x, t) == OnFailure(x, t, "serial-disconnected")
OnError(x, t) == OnFailure(x, t, "serial-read-error")

Lost(x) == [x EXCEPT !.connected = FALSE]   \* onError and onDisconnect of a preflight

-----------------------------------------------------------------------------
(* Finalisation *)

Evidence(x, duration) ==
  [source |-> "serial", stop |-> IF x.stop = "not-observed" THEN "unconfirmed" ELSE x.stop,
   stopOffset |-> duration, complete |-> x.logOk, observed |-> <<x.reads, x.bytes>>,
   reported |-> NotReported, codes |-> {}, journal |-> NoJournal]

Finish(x, duration, ev) ==
  LET a == Attempt(x, duration, ev) IN
  IF a.ok
  THEN \E phase \in {"saved", "save-error"} :   \* the download may fail
         /\ d' = [a.d EXCEPT !.phase = phase, !.hasRec = FALSE, !.rec = NewRecorder, !.ctx = <<>>]
         /\ saved' = [status |-> a.doc.status, doc |-> a.doc]
  ELSE d' = [a.d EXCEPT !.phase = "finalize-error"] /\ UNCHANGED saved

VerifiedEnd(x) == Top({1, x.frozen, x.lastKept + 1})   \* verifiedCaptureDurationUs

\* The end of stopAndSave when the port has been closed, and when it has not.
Stopped(x) ==
  LET y == RetainTail([x EXCEPT !.closed = TRUE, !.stop = "confirmed"], now)
      z == [y EXCEPT !.verified = VerifiedEnd(y)]
  IN Finish(z, z.verified, Evidence(z, z.verified))

StopThrew(x) ==
  LET y == RecordEvent([x EXCEPT !.stop = "unconfirmed", !.closed = TRUE, !.reason = TRUE],
                       Event("shutdown-unconfirmed", Session, <<>>))
      z == RetainTail(y, now)
      duration == Top({z.frozen, z.verified, z.lastKept + 1})
  IN Finish(z, duration, Evidence(z, duration))

-----------------------------------------------------------------------------
(* The operator *)

\* startSerialPreflight: resetForPreflight, and start up to its first await.
StartPreflight ==
  /\ d.phase = "ready"
  /\ d' = [Ready EXCEPT !.phase = "starting", !.purpose = "preflight", !.pc = "choose"]
  /\ now' = 0 /\ truth' = Unsent
  /\ UNCHANGED <<port, device, late, saved, faults>>

\* cancelStartingCapture, and the 20 second timeout of a start.
Cancel ==
  /\ d.phase = "starting"
  /\ d' = [d EXCEPT !.phase = "canceling", !.cancelled = TRUE]
  /\ UNCHANGED <<now, port, device, late, saved, faults, truth>>

\* A dialog may be closed while it cancels: its refs are its own, a later dialog has new ones.
\* A bound of the model: one such start at a time.
Dismiss ==
  /\ d.phase = "canceling" /\ late = "none"
  /\ late' = d.pc /\ d' = Ready /\ port' = NoPort
  /\ UNCHANGED <<now, device, saved, faults, truth>>

Stopping(x, cont) ==
  /\ d' = [x EXCEPT !.phase = "stopping", !.pc = "stop", !.cont = cont]
  /\ port' = [port EXCEPT !.stopped = TRUE, !.reading = FALSE]
  /\ UNCHANGED <<now, device, late, saved, faults, truth>>

StopPreflight == d.phase = "preflighting" /\ Stopping(d, "preflight")
StopAndSave == d.phase = "capturing" /\ Stopping(Freeze(d, now), "save")
DiscardCapture == d.phase = "capturing" /\ Stopping([Freeze(d, now) EXCEPT !.closed = TRUE], "discard")

\* Mutant: the recording goes on with the preflight's assembler.
BeginRecording_SameAssembler ==
  /\ d.phase = "preflighting" /\ d.connected /\ Active
  /\ d' = [Ready EXCEPT !.phase = "capturing", !.purpose = "recording", !.hasRec = TRUE, !.buf = d.buf]
  /\ truth' = [truth EXCEPT !.bytes = 0, !.failed = FALSE]
  /\ UNCHANGED <<now, port, device, late, saved, faults>>

\* beginSerialRecording: resetForStart, a recorder, an assembler and handlers of its own.
BeginRecording ==
  /\ d.phase = "preflighting" /\ d.connected /\ Active
  /\ d' = [Ready EXCEPT !.phase = "capturing", !.purpose = "recording", !.hasRec = TRUE]
  /\ truth' = [truth EXCEPT !.bytes = 0, !.failed = FALSE]
  /\ UNCHANGED <<now, port, device, late, saved, faults>>

\* A session with a record in it that could not be finalised may be finalised again
\* (retryFinalization).  RetainedCanBeFinalized says that no such state is reached, so the button has
\* no action here; UdpCapture, which shares Attempt, has one.
RetryDownload ==
  /\ d.phase = "save-error" /\ d' = [d EXCEPT !.phase = "saved"]
  /\ UNCHANGED <<now, port, device, late, saved, faults, truth>>

\* discardRetainedCapture, and the dialog closed over a saved session: no port is held any more.
LeaveRetained ==
  /\ d.phase \in {"finalize-error", "save-error", "saved"}
  /\ d' = Ready /\ saved' = Nobody
  /\ UNCHANGED <<now, port, device, late, faults, truth>>

-----------------------------------------------------------------------------
(* WebSerialCapture.start, await by await *)

\* The chooser is answered; or it is dismissed, or open fails, and start throws.
Chosen ==
  /\ d.pc = "choose" /\ d' = [d EXCEPT !.pc = "open"]
  /\ UNCHANGED <<now, port, device, late, saved, faults, truth>>

StartThrows ==
  /\ d.pc \in {"choose", "open"} /\ d' = Ready
  /\ UNCHANGED <<now, port, device, late, saved, faults, truth>>

\* The port is open: onOpen throws for a cancelled start, and the port is closed again.
Opened ==
  /\ d.pc = "open" /\ device = "closed" /\ device' = "open"
  /\ IF d.cancelled
     THEN d' = [d EXCEPT !.pc = "close"] /\ port' = [held |-> TRUE, stopped |-> TRUE, reading |-> FALSE]
     ELSE /\ d' = [d EXCEPT !.phase = "preflighting", !.pc = "idle", !.connected = TRUE]
          /\ port' = [held |-> TRUE, stopped |-> FALSE, reading |-> TRUE]
  /\ UNCHANGED <<now, late, saved, faults, truth>>

\* The outcome of a close.
Closes == device' = "closed" /\ UNCHANGED faults
CloseFails == device' = "stuck" /\ Fault

SetupClosed ==
  /\ d.pc = "close" /\ (Closes \/ CloseFails)
  /\ d' = Ready /\ port' = NoPort
  /\ UNCHANGED <<now, late, saved, truth>>

\* Mutant: onOpen does not look whether the dialog is still there.
LateOpened_Kept == late = "open" /\ device = "closed" /\ device' = "open" /\ late' = "none"

\* The same start once its dialog is gone (mountedRef is false).
LateOpened == late = "open" /\ device = "closed" /\ device' = "open" /\ late' = "close"

LateStart ==
  \/ /\ \/ late = "choose" /\ late' = "open"
        \/ late \in {"choose", "open"} /\ late' = "none"
     /\ UNCHANGED <<device, faults>>
  \/ LateOpened /\ UNCHANGED faults
  \/ late = "close" /\ late' = "none" /\ (Closes \/ CloseFails)

Late == LateStart /\ UNCHANGED <<now, d, port, saved, truth>>

-----------------------------------------------------------------------------
(* readLoop, and stop *)

Chunk ==
  /\ port.reading /\ truth.read < MaxRead
  /\ \E n \in 1..MaxChunk : \E cuts \in SUBSET (1..Len(d.buf) + n) :
       /\ truth' = [truth EXCEPT !.read = @ + n, !.bytes = @ + n]
       /\ d' = IF d.purpose = "recording" THEN OnChunk(d, now, n, cuts)
               ELSE [d EXCEPT !.buf = Unassembled(@ \o [i \in 1..n |-> now], cuts)]
  /\ UNCHANGED <<now, port, device, late, saved, faults>>

Recording == d.purpose = "recording"

\* A read fails; the loop goes on with the port's next stream.
ReadError ==
  /\ port.reading /\ Fault
  /\ d' = IF Recording THEN OnError(d, now) ELSE Lost(d)
  /\ truth' = [truth EXCEPT !.failed = TRUE]
  /\ UNCHANGED <<now, port, device, late, saved>>

\* The stream ends, or a read fails and the port has no other stream.
Disconnected ==
  /\ port.reading /\ Fault
  /\ \E failed \in BOOLEAN :
       LET x == IF failed /\ Recording THEN OnError(d, now) ELSE d IN
       d' = IF Recording THEN OnDisconnect(x, now) ELSE Lost(d)
  /\ port' = [port EXCEPT !.stopped = TRUE, !.reading = FALSE]
  /\ truth' = [truth EXCEPT !.failed = TRUE]
  /\ UNCHANGED <<now, device, late, saved>>

\* stop has cancelled the reader, waited for readLoop and closed the port.
StopSettles ==
  /\ d.pc = "stop" /\ port' = NoPort
  /\ \/ /\ Closes /\ UNCHANGED truth
        /\ IF d.cont = "save" THEN Stopped(d) ELSE d' = Ready /\ UNCHANGED saved
     \/ /\ CloseFails /\ truth' = [truth EXCEPT !.failed = TRUE]
        /\ IF d.cont = "save" THEN StopThrew(d) ELSE d' = Ready /\ UNCHANGED saved
  /\ UNCHANGED <<now, late>>

Tick ==
  /\ d.phase = "capturing" /\ now < MaxTime /\ now' = now + 1
  /\ UNCHANGED <<d, port, device, late, saved, faults, truth>>

-----------------------------------------------------------------------------
Next ==
  \/ StartPreflight \/ Cancel \/ Dismiss \/ StopPreflight \/ StopAndSave \/ DiscardCapture
  \/ BeginRecording \/ RetryDownload \/ LeaveRetained
  \/ Chosen \/ StartThrows \/ Opened \/ SetupClosed \/ Late
  \/ Chunk \/ ReadError \/ Disconnected \/ StopSettles \/ Tick

Spec == Init /\ [][Next]_vars

-----------------------------------------------------------------------------
\* The dialog's phase agrees with what it awaits and with the port its WebSerialCapture holds,
\* and a recorder never holds more than its limits.
TypeOK ==
  /\ d.phase \in {"ready", "starting", "canceling", "preflighting", "capturing", "stopping",
                  "finalize-error", "save-error", "saved"}
  /\ d.pc \in {"choose", "open", "close"} <=> d.phase \in {"starting", "canceling"}
  /\ d.pc = "stop" <=> d.phase = "stopping"
  /\ port.held <=> d.pc \in {"close", "stop"} \/ d.phase \in {"preflighting", "capturing"}
  /\ port.reading => Active
  /\ d.rec.records <= MaxRecords /\ d.rec.bytes <= MaxBytes /\ Len(d.rec.events) <= MaxEvents

\* A saved session never holds a byte that was read before the operator started the recording,
\* and one saved as verified holds every byte read since, those the assembler held back included,
\* from a device that neither failed nor went away and was closed cleanly.
SavedIsTrue ==
  saved.status # "none" =>
    /\ saved.doc.bytes <= truth.bytes
    /\ saved.status = "verified" => saved.doc.bytes = truth.bytes /\ ~truth.failed

\* Whatever went wrong, a serial capture that retained a record can be finalised: the events, the
\* duration and the counters the dialog collects always make a document its validator accepts.
RetainedCanBeFinalized == d.phase = "finalize-error" => d.rec.records = 0

\* No device is left open behind the operator's back: once every start and every stop has
\* settled, a dialog at its first screen has no open port, also when its start was cancelled or
\* the dialog was dismissed before the port was opened.
NothingLeftOpen == d.phase = "ready" /\ late = "none" => device # "open"
=============================================================================
