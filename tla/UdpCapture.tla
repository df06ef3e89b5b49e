----------------------------- MODULE UdpCapture -----------------------------
(***************************************************************************)
(* UDP recording as the capture dialog runs it                             *)
(* (src/capture/CaptureDialog.tsx): preflight, the boundary between        *)
(* preflight and recording, a start that may be cancelled, datagrams and   *)
(* statuses that arrive in their own order, stop, drain, finalisation and  *)
(* its retry, download and discard.  The link to the bridge is BridgeLink, *)
(* what serial recording has too is module CaptureDesk, the recorder       *)
(* and the validator are CaptureReceipt's operators.                       *)
(*                                                                         *)
(* The dialog is one thread: an action is what it does between two awaits. *)
(* d holds its refs and its phase, d.pc what it awaits: nothing (idle),    *)
(* the event source, the answers of getStatus in start (refresh), of start *)
(* itself, of getStatus and stop in stopUdpCaptureIfOwned (get, stop), or  *)
(* the last datagrams (drain); d.cont says who stops.  Every datagram has  *)
(* the same length, so the byte counters follow the counters of datagrams. *)
(***************************************************************************)
EXTENDS BridgeLink, CaptureDesk

CONSTANT MaxBuffered  \* the pre-status buffer: MAX_CAPTURE_RECORDS

VARIABLES
  d,       \* the dialog
  saved    \* the session last finalised, with the capture it came from

vars == <<link, d, saved>>

Ready ==
  [phase |-> "ready", purpose |-> "none", pc |-> "idle", cont |-> "none", cancelled |-> FALSE,
   client |-> FALSE, owned |-> 0, hasRec |-> FALSE, rec |-> NewRecorder, pend |-> <<>>,
   pendEvents |-> <<>>, seq |-> -1, seqIssue |-> FALSE, paused |-> FALSE, closed |-> FALSE,
   frozen |-> -1, last |-> 0, lastKept |-> -1, t0 |-> 0, stDur |-> 0, units |-> 0,
   journal |-> NoJournal, reported |-> NotReported, stop |-> "not-observed", verified |-> 0,
   limitEvent |-> FALSE, logOk |-> TRUE, keys |-> {}, reason |-> FALSE, final |-> NoCall.ans,
   ctx |-> <<>>]

Nobody == [cap |-> 0, status |-> "none", reason |-> FALSE, doc |-> <<>>]

Init == InitLink /\ d = Ready /\ saved = Nobody

-----------------------------------------------------------------------------
(* Events and datagrams: operators on the dialog *)

\* Mutant: the end of the event stream is shown to the operator but not recorded.
RecordUdpError_QuietEnd(x, err) ==
  IF x.owned = 0 \/ err \in x.keys \/ err = "end" THEN x
  ELSE RecordEvent([x EXCEPT !.keys = @ \cup {err}], Event("udp-bridge-error", EventOffset(x, now), <<err>>))

RecordUdpError(x, err) ==
  IF x.owned = 0 \/ err \in x.keys THEN x
  ELSE RecordEvent([x EXCEPT !.keys = @ \cup {err}],
         Event(IF err = "end" THEN "udp-event-stream-disconnected" ELSE "udp-bridge-error",
               EventOffset(x, now), <<err>>))

AcceptDatagram(x, m, origin) ==
  IF m.cap # x.owned THEN x
  ELSE LET gap == m.seq # x.seq + 1 /\ ~x.seqIssue
           y == IF gap THEN RecordEvent([x EXCEPT !.seqIssue = TRUE],
                              Event("udp-event-sequence-discontinuity", m.at, <<x.seq + 1, m.seq>>))
                ELSE x
           z == [y EXCEPT !.seq = m.seq, !.units = @ + 1,
                          !.last = IF x.frozen = -1 THEN Top({@, m.at + 1}) ELSE @]
       IN Retain(z, now, m.at, 1, origin)

\* flushOwnedBufferedUdpDatagrams: the first that is not retained ends the buffered retention.
Flush(x, pend) ==
  LET Step(acc, m) ==
        LET y == AcceptDatagram(acc[1], m, IF acc[2] THEN "pre-status-buffer" ELSE "live") IN
        IF m.cap # x.owned THEN acc ELSE <<y, acc[2] /\ y.rec.records > acc[1].rec.records>>
      done[i \in 0..Len(pend)] == IF i = 0 THEN <<x, TRUE>> ELSE Step(done[i - 1], pend[i])
  IN done[Len(pend)][1]

\* establishOwnedUdpCapture
Establish(x, st) ==
  LET own == [x EXCEPT !.owned = st.cap, !.hasRec = TRUE, !.rec = NewRecorder, !.pendEvents = <<>>,
                       !.pend = <<>>]
      done[i \in 0..Len(x.pendEvents)] == IF i = 0 THEN own ELSE Recorded(done[i - 1], x.pendEvents[i])
      flushed == done[Len(x.pendEvents)]
      marked == [flushed EXCEPT !.rec.complete = @ /\ flushed.logOk, !.t0 = now - st.dur]
  IN Flush(marked, x.pend)

AcceptStatus(x, st) ==
  LET y == [x EXCEPT !.stDur = st.dur] IN
  IF x.purpose # "recording" \/ x.owned = 0 \/ st.cap # x.owned THEN y
  ELSE LET z == [y EXCEPT !.journal = st.journal,
                          !.last = IF x.frozen = -1 THEN Top({@, st.dur}) ELSE @]
       IN IF st.err = "none" THEN z ELSE RecordUdpError(z, st.err)

Fatal == {"end", "socket", "bind", "overflow"}

\* onError of the recording client
AcceptError(x, err) ==
  LET y == IF x.owned # 0 /\ err \in Fatal
           THEN [Freeze(x, now) EXCEPT !.closed = TRUE, !.reason = TRUE] ELSE x
  IN RecordUdpError(y, err)

BufferDatagram(x, m) ==
  IF Len(x.pend) < MaxBuffered THEN [x EXCEPT !.pend = Append(@, m)]
  ELSE RecordEvent([x EXCEPT !.paused = TRUE, !.reason = TRUE],
                   Event("capture-backpressure", Session, <<"prestatus">>))

-----------------------------------------------------------------------------
(* Stop and finalisation: operators on the dialog *)

Evidence(x, duration) ==
  [source |-> "udp", stop |-> IF x.stop = "not-observed" THEN "unconfirmed" ELSE x.stop,
   stopOffset |-> duration, complete |-> x.logOk, observed |-> <<x.units, x.units>>,
   reported |-> x.reported, codes |-> {}, journal |-> x.journal]

Finish(x, duration, ev) ==
  LET a == Attempt(x, duration, ev) IN
  IF a.ok
  THEN \E phase \in {"saved", "save-error"} :   \* the download may fail
         /\ d' = [a.d EXCEPT !.phase = phase, !.hasRec = FALSE, !.rec = NewRecorder, !.ctx = <<>>]
         /\ saved' = [cap |-> x.owned, status |-> a.doc.status, reason |-> x.reason, doc |-> a.doc]
  ELSE d' = [a.d EXCEPT !.phase = "finalize-error"] /\ UNCHANGED saved

\* stopTransport, once the final counters are there or the deadline has passed.
AfterDrain(x) ==
  LET st == x.final
      base == Top({1, x.frozen, x.lastKept + 1})
  IN [x EXCEPT !.closed = TRUE, !.reported = <<st.datagrams, st.datagrams>>, !.client = FALSE,
               !.verified = Top({base, st.dur + (IF st.datagrams > 0 THEN 1 ELSE 0)}),
               !.stop = IF st.state = "stopped" THEN "confirmed" ELSE "unconfirmed"]

\* assertUdpCaptureIntegrity
IntegrityHolds(x) ==
  /\ x.final.state = "stopped" /\ x.final.err \notin Fatal
  /\ x.units = x.final.datagrams /\ x.rec.records = x.units
  /\ ~x.seqIssue /\ x.seq = x.final.datagrams - 1

Drained(x) == x.units >= x.final.datagrams

\* The end of stopAndSave or of discardCapture when the stop was answered.
Stopped(x) ==
  LET y == [AfterDrain(x) EXCEPT !.reason = @ \/ ~IntegrityHolds(x)] IN
  /\ Disconnect
  /\ IF x.cont = "discard" THEN d' = Ready /\ UNCHANGED saved
     ELSE Finish(y, y.verified, Evidence(y, y.verified))

\* The end of stopAndSave or of discardCapture when it was not.
StopThrew(x) ==
  LET y == RecordEvent([x EXCEPT !.stop = "unconfirmed", !.closed = TRUE, !.reason = TRUE],
                       Event("shutdown-unconfirmed", Session, <<>>))
      duration == Top({x.frozen, x.verified, x.lastKept + 1})
  IN /\ Disconnect
     /\ IF x.cont = "discard" THEN d' = Ready /\ UNCHANGED saved
        ELSE Finish(y, duration, Evidence(y, duration))

-----------------------------------------------------------------------------
(* The operator *)

\* Start: resetForPreflight or resetForStart, a new client, and its connect.
Begin(purpose) == d' = [Ready EXCEPT !.phase = "starting", !.purpose = purpose, !.client = TRUE, !.pc = "connect"]

\* A bound of the model: a capture and a nonce are left for this start.
MayOpen == made.captures < MaxCaptures /\ made.nonces < MaxNonces

StartPreflight ==
  /\ d.phase = "ready" /\ d.pc = "idle" /\ MayOpen
  /\ Begin("preflight") /\ Disconnect
  /\ owned' = NoCapture
  /\ UNCHANGED <<now, bridge, call, recovery, made, faults, truth, saved>>

\* Mutant: cancelling returns to the first screen at once.
Cancel_AtOnce ==
  /\ d.phase = "starting"
  /\ d' = Ready /\ Disconnect /\ call' = call
  /\ UNCHANGED <<now, bridge, owned, recovery, made, faults, truth, saved>>

\* cancelStartingCapture, and the 20 second timeout of a start.
Cancel ==
  /\ d.phase = "starting"
  /\ d' = [d EXCEPT !.phase = "canceling", !.cancelled = TRUE] /\ Disconnect
  /\ UNCHANGED <<now, bridge, call, owned, recovery, made, faults, truth, saved>>

\* stopUdpCaptureIfOwned begins: by stopPreflight, beginUdpRecording, stopAndSave, discardCapture
\* or discardRetainedCapture.
Stopping(x, cont) ==
  /\ d' = [x EXCEPT !.pc = "get", !.cont = cont] /\ Ask("status", 0, 0)
  /\ UNCHANGED <<now, bridge, stream, sse, owned, recovery, made, faults, truth, saved>>

StopPreflight ==
  /\ d.phase = "preflighting" /\ d.pc = "idle"
  /\ Stopping([d EXCEPT !.phase = "stopping"], "stopPreflight")

BeginRecording ==
  /\ d.phase = "preflighting" /\ d.pc = "idle" /\ MayOpen
  /\ Stopping([d EXCEPT !.phase = "starting"], "beginRecording")

StopAndSave ==
  /\ d.phase = "capturing" /\ d.pc = "idle"
  /\ Stopping([Freeze(d, now) EXCEPT !.phase = "stopping"], "save")

DiscardCapture ==
  /\ d.phase = "capturing" /\ d.pc = "idle"
  /\ Stopping([Freeze(d, now) EXCEPT !.phase = "stopping", !.closed = TRUE], "discard")

RetryFinalization ==
  /\ d.phase = "finalize-error" /\ d.hasRec
  /\ Finish(d, d.ctx[1], d.ctx[2]) /\ UNCHANGED link

RetryDownload ==
  /\ d.phase = "save-error" /\ d' = [d EXCEPT !.phase = "saved"] /\ UNCHANGED <<link, saved>>

\* discardRetainedCapture, and the unmount of a dialog whose session has been saved: a capture
\* that may still run is stopped once more.
LeaveRetained ==
  /\ d.phase \in {"finalize-error", "save-error", "saved"}
  /\ IF d.client /\ d.owned # 0
     THEN Stopping([d EXCEPT !.phase = "stopping"], "leave")
     ELSE /\ d' = Ready /\ saved' = Nobody /\ Disconnect
          /\ UNCHANGED <<now, bridge, call, owned, recovery, made, faults, truth>>

\* The page is reloaded or crashes: only session storage is left.
Reload ==
  /\ Fault /\ d.phase # "ready" /\ d' = Ready /\ Disconnect
  /\ call' = NoCall /\ owned' = NoCapture
  /\ UNCHANGED <<now, bridge, recovery, made, truth, saved>>

-----------------------------------------------------------------------------
(* The client's start, await by await *)

\* A start that throws; nothing is owned yet.
StartThrows == d' = Ready /\ Disconnect

Connected ==
  /\ d.pc = "connect" /\ ~d.cancelled /\ Connect
  /\ IF recovery # 0
     THEN Ask("status", 0, 0) /\ d' = [d EXCEPT !.pc = "refresh"] /\ UNCHANGED <<recovery, made>>
     ELSE PostStart(0) /\ d' = [d EXCEPT !.pc = "start"]
  /\ UNCHANGED <<now, bridge, owned, faults, truth, saved>>

\* connect-timeout, always when the cancelled dialog has closed the event source.
ConnectFails ==
  /\ d.pc = "connect" /\ (d.cancelled \/ faults < MaxFaults) /\ StartThrows
  /\ UNCHANGED <<now, bridge, call, owned, recovery, made, faults, truth, saved>>

Refreshed ==
  /\ d.pc = "refresh" /\ call.at \in {"answered", "failed"}
  /\ PostStart(StillNeeded(recovery))
  /\ d' = [d EXCEPT !.pc = "start", !.stDur = IF call.at = "answered" THEN call.ans.dur ELSE @]
  /\ UNCHANGED <<now, bridge, stream, sse, owned, faults, truth, saved>>

\* The start was refused for good (a definitive code), or nobody knows.
StartFailed ==
  /\ d.pc = "start" /\ call.op = "start"
  /\ call.at = "failed" \/ (call.at = "answered" /\ ~call.ok)
  /\ recovery' = IF call.at = "answered" THEN 0 ELSE recovery
  /\ StartThrows /\ call' = NoCall
  /\ UNCHANGED <<now, bridge, owned, made, faults, truth, saved>>

StartAnswered ==
  /\ d.pc = "start" /\ call.at = "answered" /\ call.ok
  /\ owned' = [cap |-> call.ans.cap, nonce |-> call.nonce]
  /\ IF d.cancelled
     THEN /\ d' = [d EXCEPT !.owned = call.ans.cap, !.pc = "get", !.cont = "cancel"]
          /\ Ask("status", 0, 0) /\ UNCHANGED truth
     ELSE /\ call' = NoCall
          /\ truth' = [truth EXCEPT ![call.ans.cap].sampled = @ \/ d.purpose = "preflight"]
          /\ d' = IF d.purpose = "preflight"
                  THEN [d EXCEPT !.owned = call.ans.cap, !.phase = "preflighting", !.pc = "idle", !.pend = <<>>]
                  ELSE [AcceptStatus(Establish([d EXCEPT !.stDur = call.ans.dur], call.ans), call.ans)
                          EXCEPT !.phase = "capturing", !.pc = "idle"]
  /\ UNCHANGED <<now, bridge, stream, sse, recovery, made, faults, saved>>

-----------------------------------------------------------------------------
(* stopUdpCaptureIfOwned, await by await *)

\* Mutant: recording goes on although the preflight's capture could not be stopped.
AfterThrow_Records(x) ==
  /\ call' = NoCall
  /\ IF x.cont \in {"save", "discard"} THEN StopThrew(x)
     ELSE IF x.cont = "beginRecording" THEN Begin("recording") /\ Disconnect /\ UNCHANGED saved
     ELSE d' = Ready /\ Disconnect /\ UNCHANGED saved

\* What follows a stop that threw (x is the dialog then).
AfterThrow(x) ==
  /\ call' = NoCall
  /\ IF x.cont \in {"save", "discard"} THEN StopThrew(x)
     ELSE d' = Ready /\ Disconnect /\ UNCHANGED saved

\* What follows a stop that returned the status st.
AfterStop(x, st) ==
  /\ call' = NoCall
  /\ CASE x.cont = "beginRecording" -> Begin("recording") /\ Disconnect /\ UNCHANGED saved
       [] x.cont = "save" \/ x.cont = "discard" ->
            LET y == [AcceptStatus(x, st) EXCEPT !.final = st] IN
            IF Drained(y) THEN Stopped(y)
            ELSE d' = [y EXCEPT !.pc = "drain"] /\ UNCHANGED <<stream, sse, saved>>
       [] OTHER -> d' = Ready /\ Disconnect /\ UNCHANGED saved

GotStatus ==
  /\ d.pc = "get" /\ call.at \in {"answered", "failed"}
  /\ LET x == AcceptStatus(d, call.ans) IN
     IF call.at = "failed" THEN AfterThrow(d) /\ Hold
     ELSE /\ IF SeenStopped THEN Release ELSE Hold
          /\ IF call.ans.cap # d.owned THEN AfterThrow(x)
             ELSE IF call.ans.state = "stopped" THEN AfterStop(x, call.ans)
             ELSE Ask("stop", owned.nonce, owned.cap) /\ d' = [x EXCEPT !.pc = "stop"]
                  /\ UNCHANGED <<stream, sse, saved>>
  /\ UNCHANGED <<now, bridge, made, faults, truth>>

GotStop ==
  /\ d.pc = "stop" /\ call.at \in {"answered", "failed"}
  /\ IF call.at = "failed" \/ ~call.ok THEN AfterThrow(d) /\ Hold
     ELSE LET x == AcceptStatus(d, call.ans) IN
          /\ IF StopAnswered THEN Release ELSE Hold
          /\ IF StopAnswered /\ call.ans.state = "stopped" THEN AfterStop(x, call.ans) ELSE AfterThrow(x)
  /\ UNCHANGED <<now, bridge, made, faults, truth>>

Drain ==
  /\ d.pc = "drain" /\ Drained(d) /\ Stopped(d)
  /\ UNCHANGED <<now, bridge, call, owned, recovery, made, faults, truth>>

DrainTimeout ==
  /\ d.pc = "drain" /\ ~Drained(d)
  /\ Stopped(RecordEvent([d EXCEPT !.reason = TRUE],
               Event("udp-event-stream-disconnected", EventOffset(d, now), <<"drain">>)))
  /\ UNCHANGED <<now, bridge, call, owned, recovery, made, faults, truth>>

-----------------------------------------------------------------------------
(* The event stream *)

Received(x, m) ==
  IF m.k = "status" THEN AcceptStatus(x, m.st)
  ELSE IF x.purpose = "preflight" THEN x
  ELSE IF m.k = "datagram" THEN IF x.owned # 0 THEN AcceptDatagram(x, m, "live") ELSE BufferDatagram(x, m)
  ELSE AcceptError(x, IF m.k = "error" THEN m.err ELSE "end")

Deliver ==
  /\ stream # "off" /\ sse # <<>>
  /\ d' = Received(d, Head(sse)) /\ sse' = Tail(sse)
  /\ stream' = IF Head(sse).k = "end" THEN "off" ELSE stream
  /\ UNCHANGED <<now, bridge, call, owned, recovery, made, faults, truth, saved>>

-----------------------------------------------------------------------------
Operator ==
  \/ StartPreflight \/ Cancel \/ StopPreflight \/ BeginRecording \/ StopAndSave \/ DiscardCapture
  \/ RetryFinalization \/ RetryDownload \/ LeaveRetained
Await ==
  \/ Connected \/ ConnectFails \/ Refreshed \/ StartFailed \/ StartAnswered
  \/ GotStatus \/ GotStop \/ Drain \/ DrainTimeout

\* The clock is looked at only while a recording runs; before that it need not advance.
LinkStep ==
  /\ Serve \/ Surprise \/ (d.purpose = "recording" /\ Tick)
  /\ UNCHANGED <<d, saved>>

Next == LinkStep \/ Operator \/ Await \/ Deliver \/ Reload

Spec == Init /\ [][Next]_vars

-----------------------------------------------------------------------------
\* The phase agrees with what is awaited, a recorder belongs to an owned capture, and a recorder
\* never holds more records or events than its limits (recorder.ts, appendInternal and
\* appendTransportEvent, whoever calls them).
TypeOK ==
  /\ d.phase \in {"ready", "starting", "canceling", "preflighting", "capturing", "stopping",
                  "finalize-error", "save-error", "saved"}
  /\ d.pc \in {"idle", "connect", "refresh", "start", "get", "stop", "drain"}
  /\ d.pc = "idle" <=> d.phase \in {"ready", "preflighting", "capturing", "finalize-error", "save-error", "saved"}
  /\ d.pc \in {"refresh", "start", "get", "stop"} <=> call.op # "none"
  /\ d.hasRec => d.owned # 0
  /\ d.rec.records <= MaxRecords /\ Len(d.rec.events) <= MaxEvents

\* A session saved as verified holds every datagram its capture ever received at the bridge, and
\* that capture had ended cleanly, whatever was lost, cut or restarted on the way.
VerifiedIsWhole ==
  saved.status = "verified" =>
    LET t == truth[saved.cap] IN t.ended /\ ~t.dirty /\ saved.doc.records = t.datagrams

\* Whatever made the dialog tell the operator that the capture is incomplete (incompleteReason)
\* keeps the saved session from being verified.
DoubtIsRecorded == saved.status = "verified" => ~saved.reason

\* Input sampled in a preflight never becomes part of a recording (beginUdpRecording stops the
\* preflight's capture and records one of its own).
RecordingIsFresh == d.hasRec => ~truth[d.owned].sampled

\* Without faults a dialog back at its first screen has left no capture, opening or open, behind:
\* a start cancelled while its answer is on its way is stopped by the late answer.
NothingUnattended ==
  d.phase = "ready" /\ faults = 0 => bridge.state \notin {"starting", "capturing"}

\* Even with faults, a capture the bridge opens or has open for this page can still be stopped by
\* it: session storage holds the nonce that recovers the lease.
NoOrphan ==
  /\ bridge.state = "starting" => recovery = bridge.starting
  /\ bridge.state = "capturing" /\ bridge.nonce # Foreign => recovery = bridge.nonce

\* No capture is left without an owner who can stop it, and without faults none is left running.
CaptureIsAttended == NothingUnattended /\ NoOrphan

\* What the dialog promises when it stops early: records already retained can be saved.
RetainedCanBeFinalized == d.phase = "finalize-error" => d.rec.records = 0

\* The only ways a non-empty capture is refused by its own validator: the bridge's journal
\* reaches past the session's end, a duration limit is noted after the duration was computed
\* as not capped, a missing event is noted at the time of a datagram that arrived after the
\* duration was frozen, or an event of the stream is stamped before an earlier one.
RefusalsKnown ==
  d.phase = "finalize-error" /\ d.rec.records > 0 =>
    \/ d.journal.tail > d.ctx[1]
    \/ /\ "duration-capped" \notin d.ctx[2].codes
       /\ \E i \in DOMAIN d.rec.events :
            d.rec.events[i].type = "capture-limit" /\ d.rec.events[i].detail = <<"duration">>
    \/ \E i \in DOMAIN d.rec.events :
         d.rec.events[i].type = "udp-event-sequence-discontinuity" /\ d.rec.events[i].at >= d.ctx[1]
    \/ \E i, j \in DOMAIN d.rec.events :
         i < j /\ d.rec.events[j].at # Session /\ d.rec.events[j].at < d.rec.events[i].at

\* The bridge of this model keeps the promises proved of CaptureBridge: one capture after the
\* other, counters that only grow while it is open, and a verdict that stays.
Lifecycle == INSTANCE CaptureLifecycle WITH
  current <- made.captures, count <- IF made.captures = 0 THEN 0 ELSE truth[made.captures].datagrams,
  verdict <- IF made.captures = 0 THEN "none"
             ELSE IF ~truth[made.captures].ended THEN "open"
             ELSE IF truth[made.captures].dirty THEN "incomplete" ELSE "clean"
BridgeAsPromised == Lifecycle!Spec
=============================================================================
