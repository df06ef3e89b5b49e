---------------------------- MODULE CaptureDesk ----------------------------
(***************************************************************************)
(* What the capture dialog (src/capture/CaptureDialog.tsx) does the same   *)
(* way for both transports, as operators on the dialog x and the time t:   *)
(* the offset of an event, the frozen duration, the transport events, the  *)
(* pause after a refused append, and finalisation with its retry.          *)
(*                                                                         *)
(* x has the fields rec and hasRec (recorderRef), pendEvents, paused,      *)
(* closed (captureInputClosedRef), frozen (-1 for not frozen), last        *)
(* (lastDurationUsRef), lastKept, t0 (captureStartMsRef), stDur (the       *)
(* duration of the last bridge status), limitEvent, logOk, reason          *)
(* (transportIntegrityIssueRef), ctx (pendingFinalizationRef) and pc.      *)
(***************************************************************************)
EXTENDS CaptureReceipt

CONSTANT MaxPendingEvents  \* events kept before there is a recorder

\* Mutant: an event is stamped at the very end of the capture.
EventOffset_AtEnd(x, t) == IF x.frozen # -1 THEN x.frozen ELSE Top({0, x.last, x.stDur, t - x.t0})

\* captureEventOffsetUs
EventOffset(x, t) ==
  Top({0, (IF x.frozen # -1 THEN x.frozen ELSE Top({0, x.last, x.stDur, t - x.t0})) - 1})

Freeze(x, t) == IF x.frozen # -1 THEN x ELSE [x EXCEPT !.frozen = Top({1, x.last, t - x.t0})]

\* An append of recordTransportEvent or flushPendingTransportEvents.
Recorded(x, e) ==
  LET bounded == [e EXCEPT !.at = IF @ >= MaxDuration THEN MaxDuration - 1 ELSE @]
      r == AppendEvent(x.rec, bounded, FALSE)
      kept == Len(r.events) > Len(x.rec.events)
  IN [x EXCEPT !.rec = r, !.logOk = @ /\ kept,
               !.limitEvent = @ \/ (kept /\ e.type = "capture-limit" /\ e.detail = <<"duration">>)]

RecordEvent(x, e) ==
  IF x.hasRec THEN Recorded(x, e)
  ELSE IF Len(x.pendEvents) < MaxPendingEvents THEN [x EXCEPT !.pendEvents = Append(@, e)]
  ELSE [x EXCEPT !.logOk = FALSE]

Limits == {"duration", "records", "captured-bytes", "session-file-bytes"}

PauseIngest(x, t, fault) ==
  IF x.paused THEN x
  ELSE LET y == [x EXCEPT !.paused = TRUE, !.reason = TRUE, !.limitEvent = @ \/ fault = "duration"]
       IN RecordEvent(y, Event(IF fault \in Limits THEN "capture-limit" ELSE "capture-backpressure",
                               EventOffset(y, t), <<fault>>))

CanRetain(x, origin) ==   \* canRetainCapturedInput
  CASE origin = "pre-status-buffer" -> ~x.closed
    [] origin = "serial-tail"       -> ~x.paused
    [] OTHER                        -> ~x.closed /\ ~x.paused

\* appendCapturedBytes
Retain(x, t, at, size, origin) ==
  LET fault == AppendFault(x.rec, at, size) IN
  IF ~CanRetain(x, origin) \/ ~x.hasRec THEN x
  ELSE IF fault = "none"
  THEN [x EXCEPT !.rec = Kept(@, at, size), !.lastKept = Top({@, at})]
  ELSE PauseIngest(x, t, fault)

-----------------------------------------------------------------------------
\* finalizeRetainedCapture.  The context is kept for a retry when finalize refuses.
Attempt(x, duration, ev) ==
  LET capped == duration > MaxDuration
      requested == IF capped THEN MaxDuration ELSE duration
      limited == IF capped /\ ~x.limitEvent
                 THEN AppendEvent(x.rec, Event("capture-limit", Session, <<"duration">>), TRUE)
                 ELSE x.rec
      evidence == [ev EXCEPT !.codes = IF capped THEN @ \cup {"duration-capped"} ELSE @,
                             !.stopOffset = IF @ < requested THEN @ ELSE requested]
      may == MayFinalize(limited, requested, evidence)
      closed == IF may THEN Closed(limited, evidence) ELSE limited
      y == [x EXCEPT !.rec = closed, !.pc = "idle", !.limitEvent =
              @ \/ (capped /\ Len(limited.events) > Len(x.rec.events))]
  IN [doc |-> Document(closed, requested, evidence),
      ok  |-> may /\ Accepted(Document(closed, requested, evidence)),
      d   |-> IF x.rec.records = 0 THEN [x EXCEPT !.pc = "idle", !.ctx = <<duration, ev>>]
              ELSE [y EXCEPT !.ctx = <<requested, evidence>>]]

=============================================================================
