------------------------ MODULE SerialCaptureProofs ------------------------
(***************************************************************************)
(* Proofs about serial recordings, for chunks, cuts, faults and limits of  *)
(* any size: a saved session holds every byte the device sent since the    *)
(* operator began the recording, or its log says that something went       *)
(* wrong; a recording with a record in it always makes a document its      *)
(* validator accepts; and no port is left open.                            *)
(*                                                                         *)
(* The argument follows the bytes.  A byte is held back by the assembler,  *)
(* or it is in a record, or the dialog has paused, and a pause is in the   *)
(* log or the log is marked as incomplete (Tally, Taped).  The events of   *)
(* the log lie before the end of the recording and in order (EventsOk),    *)
(* so what finalisation appends completes the document (AcceptedFacts).    *)
(***************************************************************************)
EXTENDS SerialCapture, WellFoundedInduction, TLAPS

\* The fields of the dialog.
Fields ==
  {"phase", "purpose", "pc", "cont", "cancelled", "connected", "hasRec", "rec", "pendEvents", "buf",
   "paused", "closed", "frozen", "last", "lastKept", "t0", "stDur", "reads", "bytes", "stop",
   "verified", "limitEvent", "logOk", "reason", "ctx"}

\* A sequence, of whatever elements.
IsSeq(s) == Len(s) \in Nat /\ s = [i \in 1..Len(s) |-> s[i]]

\* A recorder within its limits, not finalised yet.
IsRecorder(r) ==
  /\ r = [records |-> r.records, bytes |-> r.bytes, last |-> r.last, events |-> r.events,
          complete |-> r.complete, finalized |-> r.finalized]
  /\ r.records \in Nat /\ r.bytes \in Nat /\ r.last \in Int /\ r.complete \in BOOLEAN
  /\ IsSeq(r.events) /\ ~r.finalized
  /\ r.records <= MaxRecords /\ r.bytes <= MaxBytes /\ Len(r.events) <= MaxEvents
  /\ r.records + Len(r.events) <= FileUnits

\* An append keeps a sequence and adds one element at its end.
LEMMA AppendTo ==
  ASSUME NEW s, NEW e, IsSeq(s)
  PROVE  /\ IsSeq(Append(s, e)) /\ Len(Append(s, e)) = Len(s) + 1
         /\ Append(s, e)[Len(s) + 1] = e
         /\ \A i \in 1..Len(s) : Append(s, e)[i] = s[i]
<1> DEFINE S == {s[i] : i \in 1..Len(s)} \cup {e}
<1>1. s \in Seq(S)
  BY DEF IsSeq
<1> HIDE DEF S
<1>2. e \in S
  BY DEF S
<1>3. /\ Append(s, e) \in Seq(S) /\ Len(Append(s, e)) = Len(s) + 1 /\ Append(s, e)[Len(s) + 1] = e
      /\ \A i \in 1..Len(s) : Append(s, e)[i] = s[i]
  BY <1>1, <1>2
<1>4. IsSeq(Append(s, e))
  <2> DEFINE t == Append(s, e)
  <2>1. t \in Seq(S)  BY <1>3
  <2> HIDE DEF t
  <2>2. Len(t) \in Nat /\ t = [i \in 1..Len(t) |-> t[i]]
    BY <2>1
  <2> QED  BY <2>2 DEF IsSeq, t
<1> QED  BY <1>3, <1>4

\* AppendEvent keeps an event within the limits, or marks the log as incomplete; never neither.
LEMMA AppendEventFacts ==
  ASSUME NEW r, NEW e, NEW terminal \in BOOLEAN, IsRecorder(r)
  PROVE  LET q == AppendEvent(r, e, terminal) IN
         /\ IsRecorder(q)
         /\ q.records = r.records /\ q.bytes = r.bytes /\ q.last = r.last
         /\ \/ q.events = Append(r.events, e) /\ Len(q.events) = Len(r.events) + 1 /\ q.complete = r.complete
            \/ q.events = r.events /\ ~q.complete
<1> DEFINE q == AppendEvent(r, e, terminal)
<1>1. CASE Fits(r, terminal)
  <2>1. q = [r EXCEPT !.events = Append(@, e)]
    BY <1>1 DEF AppendEvent
  <2>2. q.records = r.records /\ q.bytes = r.bytes /\ q.last = r.last /\ q.finalized = r.finalized
        /\ q.complete = r.complete /\ q.events = Append(r.events, e)
        /\ q = [records |-> q.records, bytes |-> q.bytes, last |-> q.last, events |-> q.events,
          complete |-> q.complete, finalized |-> q.finalized]
    BY <2>1 DEF IsRecorder
  <2>3. IsSeq(q.events) /\ Len(q.events) = Len(r.events) + 1 
    BY <2>2, AppendTo DEF IsRecorder
  <2>4. Len(q.events) <= MaxEvents /\ r.records + Len(q.events) <= FileUnits
    BY <2>3, <1>1, LimitsAssumption DEF Fits, Projected, IsRecorder, IsSeq
  <2> QED
    BY <2>2, <2>3, <2>4 DEF IsRecorder
<1>2. CASE ~Fits(r, terminal)
  <2>1. q = [r EXCEPT !.complete = FALSE]
    BY <1>2 DEF AppendEvent
  <2> QED BY <2>1 DEF IsRecorder
<1> QED BY <1>1, <1>2

\* A dialog of the right type.
IsDialog(x) ==
  /\ x = [f \in Fields |-> x[f]]
  /\ IsRecorder(x.rec) /\ x.buf \in Seq(Int)
  /\ x.frozen \in Int /\ x.last \in Int /\ x.lastKept \in Int /\ x.stDur = 0 /\ x.t0 = 0
  /\ x.hasRec \in BOOLEAN /\ x.paused \in BOOLEAN /\ x.closed \in BOOLEAN
  /\ x.limitEvent \in BOOLEAN /\ x.logOk \in BOOLEAN

IsEvent(e) == e = [type |-> e.type, at |-> e.at, detail |-> e.detail] /\ e.at \in Int

\* y and x differ at most in the fields F.
Same(y, x, F) == y = [f \in Fields |-> y[f]] /\ \A f \in Fields \ F : y[f] = x[f]

\* Something went wrong, and the log says so or is incomplete: the session cannot be verified.
Doubtful(x) == x.rec.events # <<>> \/ ~x.logOk

Bounded(e) == [e EXCEPT !.at = IF @ >= MaxDuration THEN MaxDuration - 1 ELSE @]
NotesLimit(e) == e.type = "capture-limit" /\ e.detail = <<"duration">>

\* What Recorded changes, and when it says that the log is still whole.
LEMMA RecordedFacts ==
  ASSUME NEW x, IsDialog(x), NEW e
  PROVE  LET y == Recorded(x, e)
             q == AppendEvent(x.rec, Bounded(e), FALSE)
             kept == Len(q.events) > Len(x.rec.events) IN
         /\ IsDialog(y) /\ Same(y, x, {"rec", "logOk", "limitEvent"})
         /\ y.rec = q
         /\ y.logOk <=> x.logOk /\ kept
         /\ y.limitEvent <=> x.limitEvent \/ (kept /\ NotesLimit(e))
<1> DEFINE q == AppendEvent(x.rec, Bounded(e), FALSE)
           kept == Len(q.events) > Len(x.rec.events)
           y == Recorded(x, e)
<1>0. IsRecorder(x.rec) /\ FALSE \in BOOLEAN
  BY DEF IsDialog
<1>1. IsRecorder(q)
  BY <1>0, AppendEventFacts
<1>2. y = [x EXCEPT !.rec = q, !.logOk = @ /\ kept, !.limitEvent = @ \/ (kept /\ NotesLimit(e))]
  BY DEF Recorded, Bounded, NotesLimit
<1> HIDE DEF q, y, kept
<1>3. y = [f \in Fields |-> y[f]] /\ y.rec = q
  BY <1>2 DEF IsDialog, Fields
<1>4. Same(y, x, {"rec", "logOk", "limitEvent"})
  BY <1>2, <1>3 DEF IsDialog, Same, Fields
<1>5. y.logOk = (x.logOk /\ kept)
  BY <1>2 DEF IsDialog, Fields
<1>6. y.limitEvent = (x.limitEvent \/ (kept /\ NotesLimit(e)))
  BY <1>2 DEF IsDialog, Fields
<1>7. IsDialog(y)
  BY <1>1, <1>3, <1>4, <1>5, <1>6 DEF IsDialog, Same, Fields
<1> QED BY <1>3, <1>4, <1>5, <1>6, <1>7 DEF q, y, kept

\* Top of a set that has a greatest element.
LEMMA TopFacts ==
  ASSUME NEW S, \E z \in S : \A y \in S : y <= z
  PROVE  Top(S) \in S /\ \A y \in S : y <= Top(S)
BY DEF Top

\* The end of the recording x at time t.
Reach(x, t) == IF x.frozen # -1 THEN x.frozen ELSE Top({1, x.last, t - x.t0})

Timed(x) ==
  /\ x.frozen = -1 \/ (x.frozen >= 1 /\ x.frozen >= x.last)
  /\ x.last >= 0 /\ x.rec.last <= x.lastKept /\ x.rec.last < MaxDuration
  /\ \A i \in 1..Len(x.buf) : 0 <= x.buf[i] /\ x.buf[i] < x.last

\* An event is stamped one before the end of the recording.
LEMMA OffsetFacts ==
  ASSUME NEW x, NEW t \in Int, IsDialog(x), Timed(x)
  PROVE  Reach(x, t) \in Int /\ Reach(x, t) >= 1 /\ EventOffset(x, t) = Reach(x, t) - 1
<1> DEFINE a == Top({1, x.last, t - x.t0})
           b == Top({0, x.last, x.stDur, t - x.t0})
<1>0. x.last \in Int /\ x.frozen \in Int /\ x.stDur = 0 /\ x.t0 = 0 /\ t - x.t0 \in Int
  BY DEF IsDialog
<1>1. a \in {1, x.last, t - x.t0} /\ 1 <= a /\ x.last <= a /\ t - x.t0 <= a
  <2>1. \E z \in {1, x.last, t - x.t0} : \A y \in {1, x.last, t - x.t0} : y <= z
    BY <1>0
  <2> QED BY <2>1, TopFacts
<1>2. b \in {0, x.last, x.stDur, t - x.t0} /\ 0 <= b /\ x.last <= b /\ t - x.t0 <= b
  <2>1. \E z \in {0, x.last, x.stDur, t - x.t0} : \A y \in {0, x.last, x.stDur, t - x.t0} : y <= z
    BY <1>0
  <2> QED BY <2>1, TopFacts
<1>5. EventOffset(x, t) = Top({0, (IF x.frozen # -1 THEN x.frozen ELSE b) - 1})
  BY DEF EventOffset
<1>6. Reach(x, t) = IF x.frozen # -1 THEN x.frozen ELSE a
  BY DEF Reach
<1> HIDE DEF a, b
<1>3. CASE x.frozen # -1
  <2>1. x.frozen >= 1
    BY <1>3 DEF Timed
  <2>2. Top({0, x.frozen - 1}) = x.frozen - 1
    <3>1. x.frozen - 1 \in {0, x.frozen - 1} /\ \A y \in {0, x.frozen - 1} : y <= x.frozen - 1
      BY <1>0, <2>1
    <3>2. Top({0, x.frozen - 1}) \in {0, x.frozen - 1} /\ x.frozen - 1 <= Top({0, x.frozen - 1})
      BY <3>1, TopFacts
    <3> QED BY <1>0, <2>1, <3>2
  <2> QED BY <1>0, <1>3, <1>5, <1>6, <2>1, <2>2
<1>4. CASE x.frozen = -1
  <2>1. b - 1 \in Int /\ b \in Int /\ a \in Int
    BY <1>0, <1>1, <1>2
  <2>2. Top({0, b - 1}) \in {0, b - 1} /\ Top({0, b - 1}) >= 0 /\ Top({0, b - 1}) >= b - 1
    <3>1. \E z \in {0, b - 1} : \A y \in {0, b - 1} : y <= z
      BY <2>1
    <3> QED BY <3>1, TopFacts
  <2>3. EventOffset(x, t) = Top({0, b - 1}) /\ Reach(x, t) = a
    BY <1>4, <1>5, <1>6
  <2> HIDE DEF a, b
  <2> QED BY <1>0, <1>1, <1>2, <2>1, <2>2, <2>3
<1> QED BY <1>3, <1>4

LiveTypes == {"serial-read-error", "serial-disconnected", "capture-limit", "capture-backpressure"}

\* An event of the recording, stamped before its end, and the notice of a close that failed.
IsLive(e, end) == e.type \in LiveTypes /\ 0 <= e.at /\ e.at < end /\ e.at < MaxDuration
IsNotice(e) == e.type = "shutdown-unconfirmed" /\ e.at = Session

EventsOk(s, end, stop) ==
  /\ \A i \in 1..Len(s) : IsEvent(s[i]) /\ (IsLive(s[i], end) \/ (IsNotice(s[i]) /\ stop = "unconfirmed"))
  /\ \A i, j \in 1..Len(s) : i < j /\ IsLive(s[i], end) /\ IsLive(s[j], end) => s[i].at <= s[j].at
  /\ \A i, j \in 1..Len(s) : IsNotice(s[i]) /\ IsNotice(s[j]) => i = j

\* An event stamped just before the end comes after those already in the log.
LEMMA RecordedEvents ==
  ASSUME NEW x, IsDialog(x), NEW end \in Int, end >= 1, NEW stop, EventsOk(x.rec.events, end, stop),
         NEW e, IsEvent(e), e.type \in LiveTypes, e.at = end - 1
  PROVE  EventsOk(Recorded(x, e).rec.events, end, stop)
<1> DEFINE s == x.rec.events
           b == Bounded(e)
           u == Recorded(x, e).rec.events
<1>1. IsEvent(b) /\ b.type = e.type /\ b.at = IF end - 1 >= MaxDuration THEN MaxDuration - 1 ELSE end - 1
  <2>1. b = [e EXCEPT !.at = IF e.at >= MaxDuration THEN MaxDuration - 1 ELSE e.at]
    BY DEF Bounded
  <2> HIDE DEF b
  <2>2. b.type = e.type /\ b.detail = e.detail /\ b = [type |-> b.type, at |-> b.at, detail |-> b.detail]
    BY <2>1 DEF IsEvent
  <2>3. b.at = IF end - 1 >= MaxDuration THEN MaxDuration - 1 ELSE end - 1
    BY <2>1 DEF IsEvent
  <2> QED BY <2>2, <2>3, LimitsAssumption DEF IsEvent
<1>2. MaxDuration \in Nat /\ MaxDuration >= 1
  BY LimitsAssumption
<1>3. IsSeq(s) /\ IsRecorder(x.rec) /\ FALSE \in BOOLEAN
  BY DEF IsDialog, IsRecorder
<1>4. Recorded(x, e).rec = AppendEvent(x.rec, b, FALSE)
  BY RecordedFacts
<1> HIDE DEF b
<1>5. u = Append(s, b) \/ u = s
  <2>1. LET q == AppendEvent(x.rec, b, FALSE) IN q.events = Append(s, b) \/ q.events = s
    BY <1>3, AppendEventFacts
  <2> QED BY <1>4, <2>1
<1>6. CASE u = s
  BY <1>6
<1>7. CASE u = Append(s, b)
  <2>1. Len(u) = Len(s) + 1 /\ u[Len(s) + 1] = b /\ Len(s) \in Nat
        /\ \A i \in 1..Len(s) : u[i] = s[i]
    BY <1>3, <1>7, AppendTo DEF IsSeq
  <2>2. /\ \A i \in 1..Len(s) : IsEvent(s[i]) /\ (IsLive(s[i], end) \/ (IsNotice(s[i]) /\ stop = "unconfirmed"))
        /\ \A i, j \in 1..Len(s) : i < j /\ IsLive(s[i], end) /\ IsLive(s[j], end) => s[i].at <= s[j].at
        /\ \A i, j \in 1..Len(s) : IsNotice(s[i]) /\ IsNotice(s[j]) => i = j
    BY DEF EventsOk
  <2> HIDE DEF s, u
  <2>3. \A i \in 1..Len(u) : i = Len(s) + 1 \/ i \in 1..Len(s)
    BY <2>1
  <2>4. IsLive(b, end) /\ ~IsNotice(b)
    BY <1>1, <1>2 DEF IsLive, IsNotice, LiveTypes
  <2>5. ASSUME NEW i \in 1..Len(s), IsLive(s[i], end)  PROVE s[i].at <= b.at
    <3>1. s[i].at \in Int /\ s[i].at < end /\ s[i].at < MaxDuration
      BY <2>2, <2>5 DEF IsEvent, IsLive
    <3> QED BY <1>1, <1>2, <3>1
  <2>6. \A i \in 1..Len(u) : IsEvent(u[i]) /\ (IsLive(u[i], end) \/ (IsNotice(u[i]) /\ stop = "unconfirmed"))
    BY <1>1, <2>1, <2>2, <2>3, <2>4
  <2>7. ASSUME NEW i \in 1..Len(u), NEW j \in 1..Len(u), i < j, IsLive(u[i], end), IsLive(u[j], end)
        PROVE  u[i].at <= u[j].at
    <3>1. i \in 1..Len(s)
      BY <2>1, <2>7
    <3>2. CASE j = Len(s) + 1
      BY <2>1, <2>5, <2>7, <3>1, <3>2
    <3>3. CASE j \in 1..Len(s)
      BY <2>1, <2>2, <2>7, <3>1, <3>3
    <3> QED BY <2>3, <3>2, <3>3
  <2>8. ASSUME NEW i \in 1..Len(u), NEW j \in 1..Len(u), IsNotice(u[i]), IsNotice(u[j])  PROVE i = j
    <3>1. i \in 1..Len(s) /\ j \in 1..Len(s)
      BY <2>1, <2>3, <2>4, <2>8
    <3> QED BY <2>1, <2>2, <2>8, <3>1
  <2> QED BY <2>6, <2>7, <2>8 DEF EventsOk, u
<1> QED BY <1>5, <1>6, <1>7 DEF s, u

\* The duration limit is noted once, and exactly when it was reached.
LimitOk(x) ==
  LET s == x.rec.events IN
  /\ \A i, j \in 1..Len(s) : NotesLimit(s[i]) /\ NotesLimit(s[j]) => i = j
  /\ \A i \in 1..Len(s) : NotesLimit(s[i]) => x.limitEvent
  /\ x.limitEvent => ~x.logOk \/ \E i \in 1..Len(s) : NotesLimit(s[i])
  /\ x.limitEvent => x.paused /\ x.last > MaxDuration

Steady(x, t) == IsDialog(x) /\ x.hasRec /\ Timed(x) /\ EventsOk(x.rec.events, Reach(x, t), x.stop)

\* What is recorded is in the log, or the log is known to be incomplete.
Noted(y, x, e) ==
  /\ y.rec.records = x.rec.records /\ y.rec.bytes = x.rec.bytes /\ y.rec.last = x.rec.last
  /\ \/ /\ y.rec.events = Append(x.rec.events, Bounded(e))
        /\ y.logOk = x.logOk /\ (y.limitEvent <=> x.limitEvent \/ NotesLimit(e))
     \/ y.rec.events = x.rec.events /\ ~y.logOk /\ y.limitEvent = x.limitEvent

\* A live event is in the log afterwards, in order, or the log is known to be incomplete.
LEMMA NotedFacts ==
  ASSUME NEW x, NEW t \in Int, Steady(x, t), NEW type \in LiveTypes, NEW detail
  PROVE  LET e == Event(type, EventOffset(x, t), detail)
             y == RecordEvent(x, e) IN
         /\ Steady(y, t) /\ Reach(y, t) = Reach(x, t) /\ Same(y, x, {"rec", "logOk", "limitEvent"})
         /\ IsSeq(x.rec.events) /\ Noted(y, x, e) /\ Doubtful(y)
<1> DEFINE e == Event(type, EventOffset(x, t), detail)
           q == AppendEvent(x.rec, Bounded(e), FALSE)
           y == RecordEvent(x, e)
           s == x.rec.events
<1>1. IsDialog(x) /\ x.hasRec /\ Timed(x) /\ EventsOk(s, Reach(x, t), x.stop)
  BY DEF Steady
<1>2. Reach(x, t) \in Int /\ Reach(x, t) >= 1 /\ EventOffset(x, t) = Reach(x, t) - 1
  BY <1>1, OffsetFacts
<1>3. IsEvent(e) /\ e.type = type /\ e.detail = detail /\ e.at = Reach(x, t) - 1
  BY <1>2 DEF IsEvent, Event
<1>4. y = Recorded(x, e)
  BY <1>1 DEF RecordEvent
<1> HIDE DEF e, y
<1>5. /\ IsDialog(y) /\ Same(y, x, {"rec", "logOk", "limitEvent"}) /\ y.rec = q
      /\ y.logOk <=> x.logOk /\ Len(q.events) > Len(s)
      /\ y.limitEvent <=> x.limitEvent \/ (Len(q.events) > Len(s) /\ NotesLimit(e))
  BY <1>1, <1>4, RecordedFacts
<1>6. IsRecorder(x.rec) /\ FALSE \in BOOLEAN /\ IsSeq(s) /\ Len(s) \in Nat
  BY <1>1 DEF IsDialog, IsRecorder, IsSeq
<1>7. /\ q.records = x.rec.records /\ q.bytes = x.rec.bytes /\ q.last = x.rec.last
      /\ \/ q.events = Append(s, Bounded(e)) /\ Len(q.events) = Len(s) + 1
         \/ q.events = s
  BY <1>6, AppendEventFacts
<1> HIDE DEF q, s
<1>8. EventsOk(y.rec.events, Reach(x, t), x.stop)
  BY <1>1, <1>2, <1>3, <1>4, RecordedEvents DEF s
<1>9. /\ y.hasRec = x.hasRec /\ y.frozen = x.frozen /\ y.last = x.last /\ y.lastKept = x.lastKept
      /\ y.buf = x.buf /\ y.t0 = x.t0 /\ y.stop = x.stop
  BY <1>5 DEF Same, Fields
<1>10. Reach(y, t) = Reach(x, t)
  BY <1>9 DEF Reach
<1>11. Timed(y)
  BY <1>1, <1>5, <1>7, <1>9 DEF Timed
<1>12. Noted(y, x, e)
  <2>1. y.logOk \in BOOLEAN /\ x.logOk \in BOOLEAN /\ y.limitEvent \in BOOLEAN /\ x.limitEvent \in BOOLEAN
    BY <1>1, <1>5 DEF IsDialog
  <2>2. CASE q.events = Append(s, Bounded(e)) /\ Len(q.events) = Len(s) + 1
    BY <1>5, <1>6, <1>7, <2>1, <2>2 DEF Noted, s
  <2>3. CASE q.events = s
    BY <1>5, <1>6, <1>7, <2>1, <2>3 DEF Noted, s
  <2> QED BY <1>7, <2>2, <2>3
<1>13. Doubtful(y)
  <2>1. CASE y.rec.events = Append(s, Bounded(e))
    <3>1. Len(y.rec.events) = Len(s) + 1
      BY <1>6, <2>1, AppendTo
    <3> QED BY <1>6, <3>1 DEF Doubtful
  <2>2. CASE ~y.logOk
    BY <2>2 DEF Doubtful
  <2> QED BY <1>12, <2>1, <2>2 DEF Noted, s
<1>14. Steady(y, t)
  BY <1>1, <1>5, <1>8, <1>9, <1>10, <1>11 DEF Steady
<1> QED BY <1>5, <1>6, <1>10, <1>12, <1>13, <1>14 DEF e, y, s

\* An event of another kind keeps what the log says of the duration limit.
LEMMA NotedLimit ==
  ASSUME NEW x, NEW y, NEW e, IsSeq(x.rec.events), Noted(y, x, e), LimitOk(x), IsEvent(e),
         Same(y, x, {"rec", "logOk", "limitEvent"}), ~NotesLimit(e)
  PROVE  LimitOk(y)
<1> DEFINE s == x.rec.events
           b == Bounded(e)
           u == y.rec.events
<1>1. y.paused = x.paused /\ y.last = x.last
  BY DEF Same, Fields
<1>2. ~NotesLimit(b)
  BY DEF NotesLimit, Bounded, IsEvent
<1>3. CASE u = s
  BY <1>1, <1>3 DEF LimitOk, Noted
<1>4. CASE u = Append(s, b) /\ y.logOk = x.logOk /\ (y.limitEvent <=> x.limitEvent)
  <2>1. Len(u) = Len(s) + 1 /\ u[Len(s) + 1] = b /\ Len(s) \in Nat /\ \A i \in 1..Len(s) : u[i] = s[i]
    BY <1>4, AppendTo DEF IsSeq
  <2> HIDE DEF s, b, u
  <2>2. \A i \in 1..Len(u) : NotesLimit(u[i]) => i \in 1..Len(s)
    BY <1>2, <2>1
  <2>3. \A i \in 1..Len(s) : i \in 1..Len(u)
    BY <2>1
  <2>4. /\ \A i, j \in 1..Len(s) : NotesLimit(s[i]) /\ NotesLimit(s[j]) => i = j
        /\ \A i \in 1..Len(s) : NotesLimit(s[i]) => x.limitEvent
        /\ x.limitEvent => ~x.logOk \/ \E i \in 1..Len(s) : NotesLimit(s[i])
        /\ x.limitEvent => x.paused /\ x.last > MaxDuration
    BY DEF LimitOk, s
  <2>5. /\ \A i, j \in 1..Len(u) : NotesLimit(u[i]) /\ NotesLimit(u[j]) => i = j
        /\ \A i \in 1..Len(u) : NotesLimit(u[i]) => y.limitEvent
    BY <1>4, <2>1, <2>2, <2>4
  <2>6. y.limitEvent => ~y.logOk \/ \E i \in 1..Len(u) : NotesLimit(u[i])
    BY <1>4, <2>1, <2>3, <2>4
  <2>7. y.limitEvent => y.paused /\ y.last > MaxDuration
    BY <1>1, <1>4, <2>4
  <2> QED BY <2>5, <2>6, <2>7 DEF LimitOk, u
<1> QED BY <1>3, <1>4 DEF Noted

Taped(x, t) == Steady(x, t) /\ LimitOk(x) /\ (x.paused => Doubtful(x))

\* A pause says why in the log, and only an input beyond the limit pauses for the duration.
LEMMA PauseFacts ==
  ASSUME NEW x, NEW t \in Int, Taped(x, t), ~x.paused, NEW fault,
         fault = "duration" => x.last > MaxDuration
  PROVE  LET y == PauseIngest(x, t, fault) IN
         /\ Taped(y, t) /\ Same(y, x, {"paused", "reason", "limitEvent", "logOk", "rec"})
         /\ y.paused /\ Reach(y, t) = Reach(x, t)
         /\ y.rec.bytes = x.rec.bytes /\ y.rec.records = x.rec.records /\ y.rec.last = x.rec.last
<1> DEFINE z == [x EXCEPT !.paused = TRUE, !.reason = TRUE, !.limitEvent = x.limitEvent \/ fault = "duration"]
           type == IF fault \in Limits THEN "capture-limit" ELSE "capture-backpressure"
           e == Event(type, EventOffset(z, t), <<fault>>)
           y == PauseIngest(x, t, fault)
           s == x.rec.events
<1>1. Steady(x, t) /\ LimitOk(x) /\ IsDialog(x)
  BY DEF Taped, Steady
<1>2. y = RecordEvent(z, e)
  BY DEF PauseIngest
<1>3. Same(z, x, {"paused", "reason", "limitEvent"}) /\ z.paused = TRUE
  BY <1>1 DEF Same, IsDialog, Fields
<1>4. z.limitEvent = (x.limitEvent \/ fault = "duration")
  BY <1>1 DEF IsDialog, Fields
<1> HIDE DEF z
<1>5. /\ z.hasRec = x.hasRec /\ z.frozen = x.frozen /\ z.last = x.last /\ z.lastKept = x.lastKept
      /\ z.buf = x.buf /\ z.t0 = x.t0 /\ z.rec = x.rec /\ z.stDur = x.stDur /\ z.closed = x.closed
      /\ z.logOk = x.logOk /\ z.stop = x.stop
  BY <1>3 DEF Same, Fields
<1>6. Reach(z, t) = Reach(x, t)
  BY <1>5 DEF Reach
<1>7. Steady(z, t)
  <2>1. IsDialog(z)
    BY <1>1, <1>3, <1>4, <1>5 DEF IsDialog, Same
  <2>2. Timed(z)
    BY <1>1, <1>5 DEF Steady, Timed
  <2> QED BY <1>1, <1>5, <1>6, <2>1, <2>2 DEF Steady
<1>8. type \in LiveTypes
  BY DEF LiveTypes
<1> HIDE DEF type
<1>9. /\ Steady(y, t) /\ Reach(y, t) = Reach(z, t) /\ Same(y, z, {"rec", "logOk", "limitEvent"})
      /\ IsSeq(z.rec.events) /\ Noted(y, z, e) /\ Doubtful(y)
  BY <1>2, <1>7, <1>8, NotedFacts
<1>10. e.type = type /\ e.detail = <<fault>> /\ IsEvent(e)
  <2>1. EventOffset(z, t) \in Int
    BY <1>7, OffsetFacts DEF Steady
  <2> QED BY <2>1 DEF Event, IsEvent
<1> HIDE DEF e, y
<1>11. NotesLimit(e) <=> fault = "duration"
  <2>1. NotesLimit(e) => fault = "duration"
    <3>1. NotesLimit(e) => <<fault>> = <<"duration">>
      BY <1>10 DEF NotesLimit
    <3>2. <<fault>> = <<"duration">> => <<fault>>[1] = <<"duration">>[1]
      OBVIOUS
    <3> QED BY <3>1, <3>2
  <2>2. fault = "duration" => NotesLimit(e)
    BY <1>10 DEF NotesLimit, type, Limits
  <2> QED BY <2>1, <2>2
<1>12. /\ y.paused = TRUE /\ y.last = x.last /\ y.rec.bytes = x.rec.bytes /\ y.rec.records = x.rec.records
       /\ y.rec.last = x.rec.last
  BY <1>3, <1>5, <1>9 DEF Same, Fields, Noted
<1>13. LimitOk(y)
  <2>1. ~x.limitEvent /\ \A i \in 1..Len(s) : ~NotesLimit(s[i])
    BY <1>1 DEF LimitOk
  <2>2. z.limitEvent <=> fault = "duration"
    BY <1>4, <2>1
  <2>3. CASE y.rec.events = s /\ ~y.logOk /\ y.limitEvent = z.limitEvent
    BY <1>12, <2>1, <2>2, <2>3 DEF LimitOk
  <2>4. CASE /\ y.rec.events = Append(s, Bounded(e))
             /\ y.logOk = z.logOk /\ (y.limitEvent <=> z.limitEvent \/ NotesLimit(e))
    <3> DEFINE u == y.rec.events
    <3>1. Len(u) = Len(s) + 1 /\ u[Len(s) + 1] = Bounded(e) /\ Len(s) \in Nat /\ \A i \in 1..Len(s) : u[i] = s[i]
      BY <1>5, <1>9, <2>4, AppendTo DEF IsSeq
    <3> HIDE DEF s, u
    <3>2. NotesLimit(Bounded(e)) <=> NotesLimit(e)
      BY <1>10 DEF NotesLimit, Bounded, IsEvent
    <3>3. \A i \in 1..Len(u) : NotesLimit(u[i]) => i = Len(s) + 1 /\ fault = "duration"
      BY <1>11, <2>1, <3>1, <3>2
    <3>4. fault = "duration" => \E i \in 1..Len(u) : NotesLimit(u[i])
      BY <1>11, <3>1, <3>2
    <3>5. y.limitEvent <=> fault = "duration"
      BY <1>11, <2>2, <2>4
    <3> QED BY <1>12, <3>3, <3>4, <3>5 DEF LimitOk, u
  <2> QED BY <1>5, <1>9, <2>3, <2>4 DEF Noted, s
<1>14. Same(y, x, {"paused", "reason", "limitEvent", "logOk", "rec"})
  BY <1>3, <1>9 DEF Same
<1> QED BY <1>6, <1>9, <1>12, <1>13, <1>14 DEF Taped, y

Input == {"rec", "lastKept", "paused", "reason", "limitEvent", "logOk"}

\* A record is kept whole, or the pause it causes is noted and nothing is kept.
LEMMA RetainFacts ==
  ASSUME NEW x, NEW t \in Int, Taped(x, t), NEW at \in Int, 0 <= at, at < x.last, NEW size \in Nat,
         NEW origin \in {"live", "serial-tail"}
  PROVE  LET y == Retain(x, t, at, size, origin) IN
         /\ Taped(y, t) /\ Same(y, x, Input) /\ Reach(y, t) = Reach(x, t)
         /\ Doubtful(x) => Doubtful(y)
         /\ x.rec.bytes <= y.rec.bytes /\ y.rec.bytes <= x.rec.bytes + size
         /\ CanRetain(x, origin) /\ ~Doubtful(y) => y.rec.bytes = x.rec.bytes + size
<1> DEFINE fault == AppendFault(x.rec, at, size)
           y == Retain(x, t, at, size, origin)
           r == x.rec
           q == Kept(r, at, size)
<1>1. IsDialog(x) /\ IsRecorder(r) /\ x.hasRec /\ Timed(x) /\ x.rec.bytes \in Nat
  BY DEF Taped, Steady, IsDialog, IsRecorder
<1>2. CASE ~CanRetain(x, origin)
  <2>1. y = x  BY <1>2 DEF Retain
  <2> QED BY <1>1, <1>2, <2>1 DEF Same, IsDialog
<1>3. CASE CanRetain(x, origin) /\ fault = "none"
  <2>1. y = [x EXCEPT !.rec = q, !.lastKept = Top({@, at})]
    BY <1>1, <1>3 DEF Retain
  <2>2. /\ r.records < MaxRecords /\ r.bytes + size <= MaxBytes /\ Projected(r) + 1 <= FileUnits
        /\ at < MaxDuration /\ at >= r.last
    <3>1. /\ ~(at >= MaxDuration) /\ ~(at < r.last) /\ ~(r.records >= MaxRecords)
          /\ ~(r.bytes + size > MaxBytes) /\ ~(Projected(r) + 1 > FileUnits)
      BY <1>3 DEF AppendFault
    <3> QED BY <1>1, <3>1, LimitsAssumption DEF IsRecorder, IsSeq, Projected
  <2>3. q = [r EXCEPT !.records = r.records + 1, !.bytes = r.bytes + size, !.last = at]
    BY <1>1 DEF Kept, IsRecorder
  <2> HIDE DEF q
  <2>4. /\ q.records = r.records + 1 /\ q.bytes = r.bytes + size /\ q.last = at /\ q.events = r.events
        /\ q.complete = r.complete /\ q.finalized = r.finalized
        /\ q = [records |-> q.records, bytes |-> q.bytes, last |-> q.last, events |-> q.events,
                complete |-> q.complete, finalized |-> q.finalized]
    BY <1>1, <2>3 DEF IsRecorder
  <2>5. IsRecorder(q)
    <3>1. Len(r.events) \in Nat /\ r.records \in Nat /\ r.bytes \in Nat /\ IsSeq(r.events)
          /\ Len(r.events) <= MaxEvents /\ r.complete \in BOOLEAN /\ ~r.finalized
      BY <1>1 DEF IsRecorder, IsSeq
    <3>2. r.records + 1 + Len(r.events) <= FileUnits
      <4>1. r.records + Len(r.events) + ReceiptReserve + 1 <= FileUnits
        BY <2>2 DEF Projected
      <4> HIDE DEF r
      <4> QED BY <3>1, <4>1, LimitsAssumption
    <3>3. r.records + 1 <= MaxRecords
      BY <2>2, <3>1, LimitsAssumption
    <3> HIDE DEF r
    <3> QED BY <2>2, <2>4, <3>1, <3>2, <3>3 DEF IsRecorder
  <2> DEFINE k == Top({x.lastKept, at})
  <2>6. k \in Int /\ at <= k /\ x.lastKept <= k
    <3>1. x.lastKept \in Int
      BY <1>1 DEF IsDialog
    <3>2. \E z \in {x.lastKept, at} : \A w \in {x.lastKept, at} : w <= z
      BY <3>1
    <3>3. k \in {x.lastKept, at} /\ \A w \in {x.lastKept, at} : w <= k
      BY <3>2, TopFacts
    <3> QED BY <3>1, <3>3
  <2> HIDE DEF k
  <2>7. y = [x EXCEPT !.rec = q, !.lastKept = k]
    BY <1>1, <2>1 DEF IsDialog, Fields, k
  <2> HIDE DEF y
  <2>8. Same(y, x, {"rec", "lastKept"}) /\ y.rec = q /\ y.lastKept = k
    BY <1>1, <2>7 DEF IsDialog, Same, Fields
  <2>9. IsDialog(y)
    BY <1>1, <2>5, <2>6, <2>8 DEF IsDialog, Same, Fields
  <2>10. /\ y.hasRec = x.hasRec /\ y.frozen = x.frozen /\ y.last = x.last /\ y.buf = x.buf
         /\ y.t0 = x.t0 /\ y.logOk = x.logOk /\ y.limitEvent = x.limitEvent /\ y.paused = x.paused
         /\ y.rec.events = r.events /\ y.rec.bytes = r.bytes + size /\ y.stop = x.stop
    BY <2>4, <2>8 DEF Same, Fields
  <2>11. Timed(y)
    BY <1>1, <2>2, <2>4, <2>6, <2>8, <2>10 DEF Timed
  <2>12. Reach(y, t) = Reach(x, t)
    BY <2>10 DEF Reach
  <2>13. Steady(y, t)
    BY <1>1, <2>9, <2>10, <2>11, <2>12 DEF Steady, Taped
  <2>14. LimitOk(y) /\ (Doubtful(x) <=> Doubtful(y))
    BY <2>10 DEF Taped, LimitOk, Doubtful
  <2>15. Taped(y, t)
    BY <2>10, <2>13, <2>14 DEF Taped
  <2>16. Same(y, x, Input)
    BY <2>8 DEF Same, Input
  <2>17. x.rec.bytes <= y.rec.bytes /\ y.rec.bytes <= x.rec.bytes + size
    BY <1>1, <2>10
  <2> HIDE DEF r
  <2> QED BY <2>10, <2>12, <2>14, <2>15, <2>16, <2>17 DEF y, r
<1>4. CASE CanRetain(x, origin) /\ fault # "none"
  <2>1. ~x.paused
    BY <1>1, <1>4 DEF CanRetain
  <2>2. y = PauseIngest(x, t, fault)
    BY <1>1, <1>4 DEF Retain
  <2>3. fault = "duration" => x.last > MaxDuration
    <3>1. fault = "duration" => at >= MaxDuration
      BY DEF AppendFault
    <3> QED BY <1>1, <3>1, LimitsAssumption DEF IsDialog
  <2> HIDE DEF fault
  <2>4. /\ Taped(y, t) /\ Same(y, x, {"paused", "reason", "limitEvent", "logOk", "rec"})
        /\ y.paused /\ Reach(y, t) = Reach(x, t) /\ y.rec.bytes = x.rec.bytes
    BY <2>1, <2>2, <2>3, PauseFacts
  <2> HIDE DEF y, r
  <2>5. Doubtful(y)
    BY <2>4 DEF Taped
  <2>6. Same(y, x, Input)
    BY <2>4 DEF Same, Input
  <2> QED BY <1>1, <2>4, <2>5, <2>6 DEF y
<1> QED BY <1>2, <1>3, <1>4

\* A set of numbers has a least element.
LEMMA NatMin ==
  ASSUME NEW S \in SUBSET Nat, S # {}
  PROVE  \E n \in S : \A m \in S : n <= m
<1> DEFINE R == OpToRel(<, Nat)
<1>1. IsWellFoundedOn(R, Nat)
  BY NatLessThanWellFounded
<1>2. \A x, y \in Nat : <<x, y>> \in R <=> x < y
  BY DEF OpToRel
<1> HIDE DEF R
<1>3. \E x \in S : \A y \in S : ~(<<y, x>> \in R)
  BY <1>1, WFMin
<1>4. PICK x \in S : \A y \in S : ~(<<y, x>> \in R)
  BY <1>3
<1>5. \A y \in S : ~(y < x)
  BY <1>2, <1>4, Zenon
<1>6. \A y \in S : x <= y
  BY <1>5
<1> QED
  BY <1>6

\* Induction, for a set of numbers.
LEMMA SetInduction ==
  ASSUME NEW S, 0 \in S, \A n \in Nat : n \in S => n + 1 \in S
  PROVE  Nat \subseteq S
<1> SUFFICES ASSUME Nat \ S # {} PROVE FALSE
  OBVIOUS
<1>1. PICK n \in Nat \ S : \A m \in Nat \ S : n <= m
  BY NatMin
<1>2. n # 0 /\ n - 1 \in Nat /\ ~(n <= n - 1)
  BY <1>1
<1>3. n - 1 \in S
  BY <1>1, <1>2
<1>4. (n - 1) + 1 = n
  BY <1>1
<1>5. n \in S
  BY <1>2, <1>3, <1>4
<1> QED
  BY <1>1, <1>5

\* A bounded set of numbers has a greatest element.
LEMMA TopOfSome ==
  ASSUME NEW n \in Nat, NEW S \in SUBSET (0..n), S # {}
  PROVE  Top(S) \in S /\ \A y \in S : y <= Top(S)
<1> DEFINE T == {n - y : y \in S}
<1>1. T \in SUBSET Nat /\ T # {}
  <2>1. \A y \in S : n - y \in Nat
    OBVIOUS
  <2>2. PICK y \in S : TRUE
    OBVIOUS
  <2>3. n - y \in T
    BY <2>2
  <2> QED BY <2>1, <2>3
<1>2. PICK m \in T : \A k \in T : m <= k
  BY <1>1, NatMin
<1>3. PICK x \in S : m = n - x
  BY <1>2
<1>4. ASSUME NEW y \in S  PROVE y <= x
  <2>1. n - x <= n - y
    BY <1>2, <1>3
  <2> QED BY <2>1
<1> QED BY <1>4, TopFacts

Earlier(cuts, k) == {c \in cuts : c < k} \cup {0}

\* The record ends before k.
LEMMA EarlierIs ==
  ASSUME NEW cuts, NEW k
  PROVE  \A y : y \in Earlier(cuts, k) <=> (y \in cuts /\ y < k) \/ y = 0
BY DEF Earlier

\* A record ends at a cut, or at the start of what was held back.
LEMMA EndOrStart ==
  ASSUME NEW n \in Nat, NEW cuts \in SUBSET (1..n), NEW y, y \in cuts \/ y = 0
  PROVE  y \in 0..n
<1>1. CASE y = 0  BY <1>1
<1>2. CASE y \in cuts  BY <1>2
<1> QED  BY <1>1, <1>2

\* The end of the record before k moves on exactly at the cuts.
LEMMA BeforeFacts ==
  ASSUME NEW n \in Nat, NEW cuts \in SUBSET (1..n), NEW i \in Nat
  PROVE  /\ Before(cuts, i) \in 0..n /\ Before(cuts, i) \in cuts \cup {0}
         /\ i >= 1 => Before(cuts, i) < i
         /\ i \in cuts => Before(cuts, i + 1) = i
         /\ i \notin cuts /\ i >= 1 => Before(cuts, i + 1) = Before(cuts, i)
         /\ i = n + 1 => Before(cuts, i) = Top(cuts \cup {0})
<1>1. \A k, y : y \in Earlier(cuts, k) <=> (y \in cuts /\ y < k) \/ y = 0
  BY EarlierIs
<1>2. \A k : Before(cuts, k) = Top(Earlier(cuts, k))
  BY DEF Before, Earlier
<1>3. ASSUME NEW k \in Nat  PROVE Before(cuts, k) \in Earlier(cuts, k) /\ \A y \in Earlier(cuts, k) : y <= Before(cuts, k)
  <2>1. ASSUME NEW y \in Earlier(cuts, k)  PROVE y \in 0..n
    <3>1. y \in cuts \/ y = 0
      BY <1>1
    <3> QED BY <3>1, EndOrStart
  <2>2. 0 \in Earlier(cuts, k)
    BY <1>1
  <2>3. Earlier(cuts, k) \in SUBSET (0..n) /\ Earlier(cuts, k) # {}
    BY <2>1, <2>2
  <2> QED BY <1>2, <2>3, TopOfSome
<1>4. ASSUME i \in cuts  PROVE Before(cuts, i + 1) = i
  <2>1. i \in Earlier(cuts, i + 1) /\ i + 1 \in Nat
    BY <1>1, <1>4
  <2>2. Before(cuts, i + 1) \in Earlier(cuts, i + 1) /\ i <= Before(cuts, i + 1)
    BY <1>3, <2>1
  <2>3. Before(cuts, i + 1) \in Nat /\ (Before(cuts, i + 1) < i + 1 \/ Before(cuts, i + 1) = 0)
    <3>1. (Before(cuts, i + 1) \in cuts /\ Before(cuts, i + 1) < i + 1) \/ Before(cuts, i + 1) = 0
      BY <1>1, <2>2
    <3>2. Before(cuts, i + 1) \in 0..n
      BY <3>1, EndOrStart
    <3> QED BY <3>1, <3>2
  <2> QED BY <2>2, <2>3
<1>5. ASSUME i \notin cuts, i >= 1  PROVE Before(cuts, i + 1) = Before(cuts, i)
  <2>1. ASSUME NEW y  PROVE y \in Earlier(cuts, i + 1) <=> y \in Earlier(cuts, i)
    <3>1. y \in cuts => (y < i + 1 <=> y < i)
      BY <1>5
    <3> QED BY <1>1, <3>1
  <2>2. Earlier(cuts, i + 1) = Earlier(cuts, i)
    BY <2>1
  <2> QED BY <1>2, <2>2
<1>6. ASSUME i = n + 1  PROVE Before(cuts, i) = Top(cuts \cup {0})
  <2>1. ASSUME NEW y  PROVE y \in Earlier(cuts, i) <=> y \in cuts \cup {0}
    <3>1. y \in cuts => y < i
      BY <1>6
    <3> QED BY <1>1, <3>1
  <2>2. Earlier(cuts, i) = cuts \cup {0}
    BY <2>1
  <2> QED BY <1>2, <2>2
<1>7. /\ Before(cuts, i) \in 0..n /\ Before(cuts, i) \in cuts \cup {0}
      /\ i >= 1 => Before(cuts, i) < i
  <2>1. Before(cuts, i) \in Earlier(cuts, i)
    BY <1>3
  <2>2. (Before(cuts, i) \in cuts /\ Before(cuts, i) < i) \/ Before(cuts, i) = 0
    BY <1>1, <2>1
  <2>3. Before(cuts, i) \in 0..n
    BY <2>2, EndOrStart
  <2> QED BY <2>2, <2>3
<1> QED BY <1>4, <1>5, <1>6, <1>7

\* f is the pass of RetainAll over the first n bytes.
Passes(f, x, t, bytes, cuts, origin, n) ==
  f = [i \in 0..n |->
         IF i = 0 THEN x
         ELSE IF i \notin cuts THEN f[i - 1]
         ELSE Retain(f[i - 1], t, Assembled(bytes, cuts)[i].at, Assembled(bytes, cuts)[i].size, origin)]

\* The pass over the records of a push is well defined.
LEMMA PassExists ==
  ASSUME NEW x, NEW t, NEW bytes, NEW cuts, NEW origin, NEW n \in Nat
  PROVE  \E f : Passes(f, x, t, bytes, cuts, origin, n)
<1> DEFINE S == {k \in Nat : \E f : Passes(f, x, t, bytes, cuts, origin, k)}
<1>1. 0 \in S
  <2> DEFINE f == [i \in 0..0 |-> x]
  <2>1. Passes(f, x, t, bytes, cuts, origin, 0)
    BY DEF Passes
  <2> QED BY <2>1
<1>2. ASSUME NEW k \in Nat, k \in S  PROVE k + 1 \in S
  <2>1. PICK f : Passes(f, x, t, bytes, cuts, origin, k)
    BY <1>2
  <2> DEFINE last == IF k + 1 \notin cuts THEN f[k]
                     ELSE Retain(f[k], t, Assembled(bytes, cuts)[k + 1].at, Assembled(bytes, cuts)[k + 1].size, origin)
             g == [i \in 0..(k + 1) |-> IF i <= k THEN f[i] ELSE last]
  <2>2. \A i \in 0..k : g[i] = f[i]
    OBVIOUS
  <2>3. g[k + 1] = last
    OBVIOUS
  <2> HIDE DEF last
  <2>4. ASSUME NEW i \in 0..(k + 1)
        PROVE  g[i] = IF i = 0 THEN x ELSE IF i \notin cuts THEN g[i - 1]
                      ELSE Retain(g[i - 1], t, Assembled(bytes, cuts)[i].at, Assembled(bytes, cuts)[i].size, origin)
    <3> HIDE DEF g
    <3>1. CASE i = k + 1
      <4>1. i # 0 /\ i - 1 = k /\ k \in 0..k
        BY <3>1
      <4> QED BY <2>2, <2>3, <3>1, <4>1 DEF last
    <3>2. CASE i \in 0..k
      <4>1. i # 0 => i - 1 \in 0..k
        BY <3>2
      <4>2. f[i] = IF i = 0 THEN x ELSE IF i \notin cuts THEN f[i - 1]
                   ELSE Retain(f[i - 1], t, Assembled(bytes, cuts)[i].at, Assembled(bytes, cuts)[i].size, origin)
        BY <2>1, <3>2 DEF Passes
      <4> QED BY <2>2, <3>2, <4>1, <4>2
    <3>3. i = k + 1 \/ i \in 0..k
      OBVIOUS
    <3> QED BY <3>1, <3>2, <3>3
  <2>5. g = [i \in 0..(k + 1) |-> g[i]]
    OBVIOUS
  <2> HIDE DEF g
  <2>6. Passes(g, x, t, bytes, cuts, origin, k + 1)
    BY <2>4, <2>5 DEF Passes
  <2> QED BY <2>6
<1> HIDE DEF S
<1>3. Nat \subseteq S
  BY <1>1, <1>2, SetInduction
<1> QED BY <1>3 DEF S

\* RetainAll is the last value of that pass.
LEMMA RetainAllPasses ==
  ASSUME NEW x, NEW t, NEW bytes \in Seq(Int), NEW cuts, NEW origin
  PROVE  \E f : /\ Passes(f, x, t, bytes, cuts, origin, Len(bytes))
                /\ RetainAll(x, t, bytes, cuts, origin) = f[Len(bytes)]
<1> DEFINE f == CHOOSE f : Passes(f, x, t, bytes, cuts, origin, Len(bytes))
<1>1. RetainAll(x, t, bytes, cuts, origin) = f[Len(bytes)]
  BY DEF RetainAll, Passes
<1>2. \E h : Passes(h, x, t, bytes, cuts, origin, Len(bytes))
  <2>1. Len(bytes) \in Nat
    OBVIOUS
  <2> QED BY <2>1, PassExists
<1>3. Passes(f, x, t, bytes, cuts, origin, Len(bytes))
  BY <1>2
<1> HIDE DEF f
<1> QED BY <1>1, <1>3

\* Past the last byte, the last record ends at the last cut.
LEMMA BeforeEnd ==
  ASSUME NEW n \in Nat, NEW cuts \in SUBSET (1..n)
  PROVE  Before(cuts, n + 1) = Top(cuts \cup {0}) /\ Before(cuts, n + 1) \in 0..n
<1> DEFINE m == n + 1
<1>1. m \in Nat
  OBVIOUS
<1>2. m = n + 1
  OBVIOUS
<1> HIDE DEF m
<1>3. m = n + 1 => Before(cuts, m) = Top(cuts \cup {0})
  BY <1>1, BeforeFacts
<1>4. Before(cuts, m) \in 0..n
  BY <1>1, BeforeFacts
<1> QED BY <1>2, <1>3, <1>4

\* Unless something went wrong, a push retains every byte up to the last cut, and never a byte more.
LEMMA RetainAllFacts ==
  ASSUME NEW x, NEW t \in Int, Taped(x, t), NEW bytes \in Seq(Int),
         \A i \in 1..Len(bytes) : 0 <= bytes[i] /\ bytes[i] < x.last,
         NEW cuts \in SUBSET (1..Len(bytes)), NEW origin \in {"live", "serial-tail"}
  PROVE  LET y == RetainAll(x, t, bytes, cuts, origin)
             size == Top(cuts \cup {0}) IN
         /\ Taped(y, t) /\ Same(y, x, Input) /\ Reach(y, t) = Reach(x, t)
         /\ Doubtful(x) => Doubtful(y)
         /\ size \in 0..Len(bytes)
         /\ x.rec.bytes <= y.rec.bytes /\ y.rec.bytes <= x.rec.bytes + size
         /\ CanRetain(x, origin) /\ ~Doubtful(y) => y.rec.bytes = x.rec.bytes + size
<1> DEFINE n == Len(bytes)
           Good(y, size) ==
             /\ Taped(y, t) /\ Same(y, x, Input) /\ Reach(y, t) = Reach(x, t)
             /\ Doubtful(x) => Doubtful(y)
             /\ x.rec.bytes <= y.rec.bytes /\ y.rec.bytes <= x.rec.bytes + size
             /\ CanRetain(x, origin) /\ ~Doubtful(y) => y.rec.bytes = x.rec.bytes + size
<1>1. n \in Nat /\ cuts \in SUBSET (1..n)
  OBVIOUS
<1>2. PICK f : /\ Passes(f, x, t, bytes, cuts, origin, n)
               /\ RetainAll(x, t, bytes, cuts, origin) = f[n]
  BY RetainAllPasses
<1>3. IsDialog(x) /\ x.rec.bytes \in Nat /\ x.hasRec
  BY DEF Taped, Steady, IsDialog, IsRecorder
<1> DEFINE S == {i \in Nat : i <= n => Good(f[i], Before(cuts, i + 1))}
<1>4. 0 \in S
  <2>1. f[0] = x
    BY <1>1, <1>2 DEF Passes
  <2>2. Before(cuts, 1) = 0
    <3> DEFINE m == 1
    <3>1. m \in Nat /\ m >= 1
      OBVIOUS
    <3> HIDE DEF m, n
    <3>2. Before(cuts, m) \in 0..n /\ Before(cuts, m) < m
      BY <1>1, <3>1, BeforeFacts
    <3>3. Before(cuts, 1) \in Nat /\ Before(cuts, 1) < 1
      BY <1>1, <3>2 DEF m
    <3> QED BY <3>3
  <2>3. Same(x, x, Input)
    BY <1>3 DEF Same, IsDialog
  <2>4. Good(x, 0)
    BY <1>3, <2>3
  <2> QED BY <2>1, <2>2, <2>4
<1>5. ASSUME NEW i \in Nat, i \in S  PROVE i + 1 \in S
  <2> SUFFICES ASSUME i + 1 <= n  PROVE Good(f[i + 1], Before(cuts, (i + 1) + 1))
    BY <1>5
  <2>1. i + 1 \in 1..n /\ i + 1 \in 0..n /\ i + 1 # 0 /\ (i + 1) - 1 = i /\ i + 1 \in Nat /\ i + 1 >= 1
    BY <1>1
  <2>2. Good(f[i], Before(cuts, i + 1))
    BY <1>1, <1>5
  <2> HIDE DEF n, S, Good
  <2>3. f[i + 1] = IF i + 1 \notin cuts THEN f[i]
                   ELSE Retain(f[i], t, Assembled(bytes, cuts)[i + 1].at, Assembled(bytes, cuts)[i + 1].size, origin)
    BY <1>2, <2>1 DEF Passes
  <2>4. /\ Before(cuts, i + 1) \in 0..n /\ Before(cuts, i + 1) < i + 1
        /\ i + 1 \in cuts => Before(cuts, (i + 1) + 1) = i + 1
        /\ i + 1 \notin cuts => Before(cuts, (i + 1) + 1) = Before(cuts, i + 1)
    <3> DEFINE m == i + 1
    <3>1. m \in Nat /\ m >= 1
      BY <2>1
    <3> HIDE DEF m
    <3>2. /\ Before(cuts, m) \in 0..n /\ Before(cuts, m) < m
          /\ m \in cuts => Before(cuts, m + 1) = m
          /\ m \notin cuts => Before(cuts, m + 1) = Before(cuts, m)
      BY <1>1, <3>1, BeforeFacts
    <3> QED BY <3>2 DEF m
  <2>5. CASE i + 1 \notin cuts
    BY <2>2, <2>3, <2>4, <2>5
  <2>6. CASE i + 1 \in cuts
    <3> DEFINE b == Before(cuts, i + 1)
               y == f[i]
               at == bytes[b + 1]
               size == (i + 1) - b
               z == Retain(y, t, at, size, origin)
    <3>1. Assembled(bytes, cuts)[i + 1].at = at /\ Assembled(bytes, cuts)[i + 1].size = size
      BY <2>6 DEF Assembled
    <3>2. f[i + 1] = z
      BY <2>3, <2>6, <3>1
    <3>3. b \in Nat /\ b + 1 \in 1..n /\ size \in Nat /\ b + size = i + 1
      BY <2>1, <2>4, <1>1
    <3>4. /\ Taped(y, t) /\ Same(y, x, Input) /\ Reach(y, t) = Reach(x, t)
          /\ Doubtful(x) => Doubtful(y)
          /\ x.rec.bytes <= y.rec.bytes /\ y.rec.bytes <= x.rec.bytes + b
          /\ CanRetain(x, origin) /\ ~Doubtful(y) => y.rec.bytes = x.rec.bytes + b
      BY <2>2 DEF Good
    <3>5. y.last = x.last /\ y.closed = x.closed
      BY <3>4 DEF Same, Input, Fields
    <3>6. at \in Int /\ 0 <= at /\ at < y.last
      BY <3>3, <3>5 DEF n
    <3> HIDE DEF b, y, at, size
    <3>7. /\ Taped(z, t) /\ Same(z, y, Input) /\ Reach(z, t) = Reach(y, t)
          /\ Doubtful(y) => Doubtful(z)
          /\ y.rec.bytes <= z.rec.bytes /\ z.rec.bytes <= y.rec.bytes + size
          /\ CanRetain(y, origin) /\ ~Doubtful(z) => z.rec.bytes = y.rec.bytes + size
      BY <3>3, <3>4, <3>6, RetainFacts
    <3>8. y.rec.bytes \in Nat /\ z.rec.bytes \in Nat
      BY <3>4, <3>7 DEF Taped, Steady, IsDialog, IsRecorder
    <3> HIDE DEF z
    <3>9. Same(z, x, Input)
      BY <3>4, <3>7 DEF Same
    <3>10. x.rec.bytes <= z.rec.bytes /\ z.rec.bytes <= x.rec.bytes + (i + 1)
      BY <1>3, <3>3, <3>4, <3>7, <3>8
    <3>11. ASSUME CanRetain(x, origin), ~Doubtful(z)  PROVE z.rec.bytes = x.rec.bytes + (i + 1)
      <4>1. ~Doubtful(y) /\ ~y.paused
        BY <3>4, <3>7, <3>11 DEF Taped
      <4>2. CanRetain(y, origin)
        BY <3>5, <3>11, <4>1 DEF CanRetain
      <4>3. y.rec.bytes = x.rec.bytes + b /\ z.rec.bytes = y.rec.bytes + size
        BY <3>4, <3>7, <3>11, <4>1, <4>2
      <4>4. z.rec.bytes = (x.rec.bytes + b) + size
        BY <4>3
      <4>5. x.rec.bytes \in Nat /\ b \in Nat /\ size \in Nat
        BY <1>3, <3>3
      <4>6. (x.rec.bytes + b) + size = x.rec.bytes + (b + size)
        BY <4>5
      <4> QED BY <3>3, <4>4, <4>6
    <3>12. Good(z, i + 1)
      BY <3>4, <3>7, <3>9, <3>10, <3>11 DEF Good
    <3> QED BY <2>4, <2>6, <3>2, <3>12
  <2> QED BY <2>5, <2>6
<1> HIDE DEF S
<1>6. n \in S
  <2>1. Nat \subseteq S
    BY <1>4, <1>5, SetInduction
  <2> QED BY <1>1, <2>1
<1>7. Good(f[n], Before(cuts, n + 1))
  BY <1>1, <1>6 DEF S
<1>8. Before(cuts, n + 1) = Top(cuts \cup {0}) /\ Before(cuts, n + 1) \in 0..n
  <2> HIDE DEF n
  <2> QED BY <1>1, BeforeEnd
<1> QED BY <1>2, <1>7, <1>8

\* The end of a recording: the frozen one, or the latest of its first instant, last input and clock.
LEMMA ReachFacts ==
  ASSUME NEW x, NEW t \in Int, IsDialog(x), Timed(x)
  PROVE  /\ Reach(x, t) \in Int /\ Reach(x, t) >= 1 /\ Reach(x, t) >= x.last
         /\ x.frozen = -1 => Reach(x, t) >= t /\ Reach(x, t) \in {1, x.last, t}
         /\ x.frozen # -1 => Reach(x, t) = x.frozen
<1> DEFINE a == Top({1, x.last, t - x.t0})
<1>1. x.last \in Int /\ x.frozen \in Int /\ x.t0 = 0 /\ t - x.t0 = t
  BY DEF IsDialog
<1>2. a \in {1, x.last, t} /\ 1 <= a /\ x.last <= a /\ t <= a
  <2>1. a = Top({1, x.last, t})
    BY <1>1
  <2>2. \E z \in {1, x.last, t} : \A y \in {1, x.last, t} : y <= z
    BY <1>1
  <2> QED BY <2>1, <2>2, TopFacts
<1>3. Reach(x, t) = IF x.frozen # -1 THEN x.frozen ELSE a
  BY DEF Reach
<1> HIDE DEF a
<1> QED BY <1>1, <1>2, <1>3 DEF Timed

\* The log stays in order and within the recording when the end moves on.
LEMMA EventsLater ==
  ASSUME NEW s, NEW end \in Int, NEW later \in Int, end <= later, NEW stop, NEW stop2,
         stop = "unconfirmed" => stop2 = "unconfirmed", EventsOk(s, end, stop)
  PROVE  EventsOk(s, later, stop2)
<1>1. /\ \A i \in 1..Len(s) : IsEvent(s[i]) /\ (IsLive(s[i], end) \/ (IsNotice(s[i]) /\ stop = "unconfirmed"))
      /\ \A i, j \in 1..Len(s) : i < j /\ IsLive(s[i], end) /\ IsLive(s[j], end) => s[i].at <= s[j].at
      /\ \A i, j \in 1..Len(s) : IsNotice(s[i]) /\ IsNotice(s[j]) => i = j
  BY DEF EventsOk
<1>2. ASSUME NEW i \in 1..Len(s)  PROVE IsLive(s[i], later) <=> IsLive(s[i], end)
  <2>1. s[i].at \in Int
    BY <1>1 DEF IsEvent
  <2>2. CASE IsLive(s[i], end)
    BY <2>1, <2>2 DEF IsLive
  <2>3. CASE IsNotice(s[i])
    BY <2>3 DEF IsLive, IsNotice, LiveTypes
  <2> QED BY <1>1, <2>2, <2>3
<1> QED BY <1>1, <1>2 DEF EventsOk

\* A recording goes on: nothing is recorded, and neither the clock nor the duration goes back.
LEMMA GoesOn ==
  ASSUME NEW x, NEW y, NEW t \in Int, NEW u \in Int, t <= u, Taped(x, t), IsDialog(y),
         y.rec = x.rec, y.logOk = x.logOk, y.limitEvent = x.limitEvent, y.paused = x.paused,
         y.hasRec = x.hasRec, y.lastKept = x.lastKept, x.last <= y.last,
         y.frozen = x.frozen \/ y.frozen = Reach(x, t),
         y.frozen # -1 => y.last = x.last,
         x.stop = "unconfirmed" => y.stop = "unconfirmed",
         \A i \in 1..Len(y.buf) : 0 <= y.buf[i] /\ y.buf[i] < y.last
  PROVE  Taped(y, u) /\ Reach(x, t) <= Reach(y, u) /\ (Doubtful(y) <=> Doubtful(x))
<1>1. IsDialog(x) /\ Timed(x) /\ x.hasRec /\ EventsOk(x.rec.events, Reach(x, t), x.stop)
  BY DEF Taped, Steady
<1>2. /\ Reach(x, t) \in Int /\ Reach(x, t) >= 1 /\ Reach(x, t) >= x.last
      /\ x.frozen = -1 => Reach(x, t) >= t /\ Reach(x, t) \in {1, x.last, t}
      /\ x.frozen # -1 => Reach(x, t) = x.frozen
  BY <1>1, ReachFacts
<1>3. Timed(y)
  <2>1. y.last \in Int /\ x.last \in Int /\ x.frozen \in Int /\ y.frozen \in Int
    BY <1>1 DEF IsDialog
  <2> QED BY <1>1, <1>2, <2>1 DEF Timed
<1>4. /\ Reach(y, u) \in Int /\ Reach(y, u) >= 1 /\ Reach(y, u) >= y.last
      /\ y.frozen = -1 => Reach(y, u) >= u
      /\ y.frozen # -1 => Reach(y, u) = y.frozen
  BY <1>3, ReachFacts
<1>5. Reach(x, t) <= Reach(y, u)
  <2>1. y.last \in Int /\ x.last \in Int /\ x.frozen \in Int /\ y.frozen \in Int
    BY <1>1 DEF IsDialog
  <2>2. CASE y.frozen # -1
    BY <1>2, <1>4, <2>1, <2>2
  <2>3. CASE y.frozen = -1
    BY <1>2, <1>4, <2>1, <2>3
  <2> QED BY <2>2, <2>3
<1>6. EventsOk(y.rec.events, Reach(y, u), y.stop)
  BY <1>1, <1>2, <1>4, <1>5, EventsLater
<1>7. LimitOk(y)
  <2>1. y.last \in Int /\ x.last \in Int /\ MaxDuration \in Nat
    BY <1>1, LimitsAssumption DEF IsDialog
  <2> QED BY <2>1 DEF Taped, LimitOk
<1>8. Doubtful(y) <=> Doubtful(x)
  BY DEF Doubtful
<1> QED BY <1>1, <1>3, <1>5, <1>6, <1>7, <1>8 DEF Taped, Steady

\* The frozen duration is the end the recording had.
LEMMA FreezeFacts ==
  ASSUME NEW x, NEW t \in Int, Taped(x, t)
  PROVE  LET y == Freeze(x, t) IN
         /\ IsDialog(y) /\ Same(y, x, {"frozen"}) /\ y.frozen = Reach(x, t) /\ y.frozen >= 1 /\ y.frozen \in Int
<1> DEFINE y == Freeze(x, t)
<1>1. IsDialog(x) /\ Timed(x)
  BY DEF Taped, Steady
<1>2. Reach(x, t) \in Int /\ Reach(x, t) >= 1 /\ (x.frozen # -1 => Reach(x, t) = x.frozen)
  BY <1>1, ReachFacts
<1>3. CASE x.frozen # -1
  <2>1. y = x
    BY <1>3 DEF Freeze
  <2> QED BY <1>1, <1>2, <1>3, <2>1 DEF Same, IsDialog
<1>4. CASE x.frozen = -1
  <2>1. y = [x EXCEPT !.frozen = Reach(x, t)]
    BY <1>4 DEF Freeze, Reach
  <2>2. Same(y, x, {"frozen"}) /\ y.frozen = Reach(x, t)
    BY <1>1, <2>1 DEF IsDialog, Same, Fields
  <2> HIDE DEF y
  <2>3. IsDialog(y)
    BY <1>1, <1>2, <2>2 DEF IsDialog, Same, Fields
  <2> QED BY <1>2, <2>2, <2>3 DEF y
<1> QED BY <1>3, <1>4

\* A read that fails, and a device that goes away, are recorded.
LEMMA FailureFacts ==
  ASSUME NEW x, NEW t \in Int, Taped(x, t), NEW type \in {"serial-read-error", "serial-disconnected"}
  PROVE  LET y == OnFailure(x, t, type) IN
         /\ Taped(y, t) /\ Doubtful(y) /\ y.closed /\ y.frozen # -1
         /\ Same(y, x, {"frozen", "closed", "reason", "rec", "logOk", "limitEvent"})
         /\ y.rec.bytes = x.rec.bytes
<1> DEFINE f == Freeze(x, t)
           z == [f EXCEPT !.closed = TRUE, !.reason = TRUE]
           e == Event(type, EventOffset(z, t), <<>>)
           y == OnFailure(x, t, type)
<1>1. IsDialog(x) /\ Timed(x)
  BY DEF Taped, Steady
<1>2. IsDialog(f) /\ Same(f, x, {"frozen"}) /\ f.frozen = Reach(x, t) /\ f.frozen >= 1 /\ f.frozen \in Int
  BY FreezeFacts
<1>3. y = RecordEvent(z, e)
  BY DEF OnFailure
<1> HIDE DEF f
<1>4. Same(z, f, {"closed", "reason"}) /\ z.closed = TRUE
  BY <1>2 DEF IsDialog, Same, Fields
<1> HIDE DEF z
<1>5. IsDialog(z)
  BY <1>2, <1>4 DEF IsDialog, Same, Fields
<1>6. /\ z.rec = x.rec /\ z.logOk = x.logOk /\ z.limitEvent = x.limitEvent /\ z.paused = x.paused
      /\ z.hasRec = x.hasRec /\ z.lastKept = x.lastKept /\ z.last = x.last /\ z.buf = x.buf /\ z.stop = x.stop
      /\ z.frozen = Reach(x, t)
  BY <1>2, <1>4 DEF Same, Fields
<1>7. Taped(z, t)
  <2>1. x.last <= z.last
    BY <1>1, <1>6 DEF IsDialog
  <2>2. \A i \in 1..Len(z.buf) : 0 <= z.buf[i] /\ z.buf[i] < z.last
    BY <1>1, <1>6 DEF Timed
  <2>3. /\ z.frozen = x.frozen \/ z.frozen = Reach(x, t)
        /\ z.frozen # -1 => z.last = x.last
        /\ x.stop = "unconfirmed" => z.stop = "unconfirmed"
        /\ t <= t
    BY <1>6
  <2> QED BY <1>5, <1>6, <2>1, <2>2, <2>3, GoesOn
<1>8. type \in LiveTypes
  BY DEF LiveTypes
<1>9. Steady(z, t) /\ LimitOk(z)
  BY <1>7 DEF Taped
<1>10. /\ Steady(y, t) /\ Same(y, z, {"rec", "logOk", "limitEvent"}) /\ IsSeq(z.rec.events)
       /\ Noted(y, z, e) /\ Doubtful(y)
  BY <1>3, <1>8, <1>9, NotedFacts
<1>11. IsEvent(e) /\ e.type = type
  <2>1. EventOffset(z, t) \in Int
    BY <1>9, OffsetFacts DEF Steady
  <2> QED BY <2>1 DEF Event, IsEvent
<1>12. ~NotesLimit(e)
  BY <1>11 DEF NotesLimit
<1> HIDE DEF e, y
<1>13. LimitOk(y)
  BY <1>9, <1>10, <1>11, <1>12, NotedLimit
<1>14. Same(y, x, {"frozen", "closed", "reason", "rec", "logOk", "limitEvent"})
  BY <1>2, <1>4, <1>10 DEF Same
<1>15. y.closed /\ y.frozen # -1 /\ y.rec.bytes = x.rec.bytes
  <2>1. y.closed = z.closed /\ y.frozen = z.frozen /\ y.rec.bytes = z.rec.bytes
    BY <1>10 DEF Same, Fields, Noted
  <2>2. z.frozen = f.frozen /\ f.frozen # -1
    BY <1>2, <1>6
  <2> QED BY <1>4, <1>6, <2>1, <2>2
<1> QED BY <1>10, <1>13, <1>14, <1>15 DEF Taped, y

\* What the assembler held back is retained when the recording ends, unless something went wrong.
LEMMA TailFacts ==
  ASSUME NEW x, NEW t \in Int, Taped(x, t)
  PROVE  LET y == RetainTail(x, t) IN
         /\ Taped(y, t) /\ Same(y, x, Input \cup {"buf"}) /\ Reach(y, t) = Reach(x, t)
         /\ Doubtful(x) => Doubtful(y)
         /\ x.rec.bytes <= y.rec.bytes /\ y.rec.bytes <= x.rec.bytes + Len(x.buf)
         /\ ~Doubtful(y) => y.rec.bytes = x.rec.bytes + Len(x.buf)
<1> DEFINE y == RetainTail(x, t)
           z == [x EXCEPT !.buf = <<>>]
           n == Len(x.buf)
<1>1. IsDialog(x) /\ Timed(x) /\ x.rec.bytes \in Nat /\ x.buf \in Seq(Int) /\ n \in Nat
  BY DEF Taped, Steady, IsDialog, IsRecorder
<1>2. CASE x.paused \/ x.buf = <<>>
  <2>1. y = x
    BY <1>2 DEF RetainTail
  <2>2. x.buf = <<>> => n = 0
    OBVIOUS
  <2>3. Same(x, x, Input \cup {"buf"})
    BY <1>1 DEF Same, IsDialog
  <2>4. ~Doubtful(x) => n = 0
    BY <1>2, <2>2 DEF Taped
  <2> QED BY <1>1, <2>1, <2>3, <2>4
<1>3. CASE ~x.paused /\ x.buf # <<>>
  <2>1. y = RetainAll(z, t, x.buf, {n}, "serial-tail")
    BY <1>3 DEF RetainTail
  <2>2. n >= 1 /\ {n} \in SUBSET (1..n)
    BY <1>1, <1>3
  <2>3. Same(z, x, {"buf"}) /\ z.buf = <<>>
    BY <1>1 DEF Same, IsDialog, Fields
  <2> HIDE DEF z
  <2>4. IsDialog(z)
    <3>1. z.buf \in Seq(Int)
      BY <2>3
    <3> QED BY <1>1, <2>3, <3>1 DEF IsDialog, Same, Fields
  <2>5. /\ z.rec = x.rec /\ z.logOk = x.logOk /\ z.limitEvent = x.limitEvent /\ z.paused = x.paused
        /\ z.hasRec = x.hasRec /\ z.lastKept = x.lastKept /\ z.last = x.last /\ z.stop = x.stop
        /\ z.frozen = x.frozen
    BY <2>3 DEF Same, Fields
  <2>6. Taped(z, t) /\ (Doubtful(z) <=> Doubtful(x))
    <3>1. x.last <= z.last
      BY <1>1, <2>5 DEF IsDialog
    <3>2. \A i \in 1..Len(z.buf) : 0 <= z.buf[i] /\ z.buf[i] < z.last
      BY <2>3
    <3> QED BY <2>4, <2>5, <3>1, <3>2, GoesOn
  <2>7. Reach(z, t) = Reach(x, t)
    <3>1. z.t0 = x.t0
      BY <2>3 DEF Same, Fields
    <3> QED BY <2>5, <3>1 DEF Reach
  <2>8. \A i \in 1..Len(x.buf) : 0 <= x.buf[i] /\ x.buf[i] < z.last
    BY <1>1, <2>5 DEF Timed
  <2>9. "serial-tail" \in {"live", "serial-tail"} /\ CanRetain(z, "serial-tail")
    BY <1>3, <2>5 DEF CanRetain
  <2>10. Top({n} \cup {0}) = n
    <3>1. n \in {n} \cup {0} /\ \A k \in {n} \cup {0} : k <= n
      BY <1>1
    <3>2. Top({n} \cup {0}) \in {n} \cup {0} /\ n <= Top({n} \cup {0})
      BY <3>1, TopFacts
    <3> QED BY <1>1, <2>2, <3>2
  <2> DEFINE origin == "serial-tail"
             cuts == {n}
             w == RetainAll(z, t, x.buf, cuts, origin)
  <2>11. origin \in {"live", "serial-tail"} /\ cuts \in SUBSET (1..Len(x.buf)) /\ CanRetain(z, origin)
    BY <2>2, <2>9
  <2>12. y = w /\ Top(cuts \cup {0}) = n
    BY <2>1, <2>10
  <2> HIDE DEF origin, cuts
  <2>13. /\ Taped(w, t) /\ Same(w, z, Input) /\ Reach(w, t) = Reach(z, t)
         /\ Doubtful(z) => Doubtful(w)
         /\ z.rec.bytes <= w.rec.bytes /\ w.rec.bytes <= z.rec.bytes + Top(cuts \cup {0})
         /\ CanRetain(z, origin) /\ ~Doubtful(w) => w.rec.bytes = z.rec.bytes + Top(cuts \cup {0})
    BY <1>1, <2>6, <2>8, <2>11, RetainAllFacts
  <2> HIDE DEF w, y, n
  <2>14. Same(w, x, Input \cup {"buf"})
    BY <2>3, <2>13 DEF Same
  <2> QED BY <2>5, <2>6, <2>7, <2>11, <2>12, <2>13, <2>14 DEF y, n
<1> QED BY <1>2, <1>3

-----------------------------------------------------------------------------
(* The dialog *)

ControlInv ==
  /\ d.phase \in {"ready", "starting", "canceling", "preflighting", "capturing", "stopping",
                  "finalize-error", "save-error", "saved"}
  /\ d.pc \in {"idle", "choose", "open", "close", "stop"}
  /\ d.pc \in {"choose", "open", "close"} <=> d.phase \in {"starting", "canceling"}
  /\ d.pc = "stop" <=> d.phase = "stopping"
  /\ port \in [held : BOOLEAN, stopped : BOOLEAN, reading : BOOLEAN]
  /\ port.held <=> d.pc \in {"close", "stop"} \/ d.phase \in {"preflighting", "capturing"}
  /\ port.reading => port.held /\ ~port.stopped
  /\ d.pc \in {"close", "stop"} => port.stopped
  /\ device = "open" => port.held \/ late = "close"

Taping == d.phase = "capturing" \/ (d.phase = "stopping" /\ d.cont = "save")

\* Every byte since the boundary is in a record or held back, unless the log says that
\* something went wrong.
Tally(x, tr) ==
  /\ x.rec.bytes + Len(x.buf) <= tr.bytes
  /\ ~Doubtful(x) => x.rec.bytes + Len(x.buf) = tr.bytes /\ ~tr.failed /\ ~x.closed

RecordingInv ==
  Taping =>
    /\ Taped(d, now) /\ Tally(d, truth) /\ d.stop = "not-observed" /\ d.verified = 0
    /\ d.frozen # -1 <=> d.closed \/ d.phase = "stopping"

DeskInv ==
  /\ IsDialog(d) /\ now \in Nat /\ truth \in [read : Nat, bytes : Nat, failed : BOOLEAN]
  /\ d.phase = "capturing" => d.purpose = "recording"
  /\ d.phase \in {"starting", "canceling", "preflighting"} => d.purpose = "preflight"
  /\ d.phase \notin {"save-error", "saved"} => saved = Nobody

SerialInv == ControlInv /\ DeskInv /\ RecordingInv /\ SavedIsTrue /\ RetainedCanBeFinalized

\* The invariant implies the type invariant and that no port is left open.
LEMMA InvIsTyped == SerialInv => TypeOK /\ NothingLeftOpen
<1> SUFFICES ASSUME SerialInv  PROVE TypeOK /\ NothingLeftOpen
  OBVIOUS
<1>1. /\ d.rec.records <= MaxRecords /\ d.rec.bytes <= MaxBytes /\ Len(d.rec.events) <= MaxEvents
  BY DEF SerialInv, DeskInv, IsDialog, IsRecorder
<1>2. TypeOK
  BY <1>1 DEF SerialInv, ControlInv, TypeOK, Active
<1>3. NothingLeftOpen
  BY DEF SerialInv, ControlInv, NothingLeftOpen
<1> QED BY <1>2, <1>3

\* The fields of a dialog at its first screen.
LEMMA ReadyFacts ==
  /\ IsDialog(Ready) /\ Ready.phase = "ready" /\ Ready.pc = "idle" /\ Ready.purpose = "none" /\ Ready.cont = "none"
  /\ Ready = [f \in Fields |-> Ready[f]]
  /\ Ready.buf = <<>> /\ Ready.frozen = -1 /\ Ready.last = 0 /\ Ready.t0 = 0 /\ Ready.stop = "not-observed" /\ Ready.verified = 0
  /\ Ready.lastKept = -1
  /\ Ready.rec = NewRecorder /\ ~Ready.limitEvent /\ Ready.logOk = TRUE /\ Ready.closed = FALSE /\ Ready.paused = FALSE
  /\ NewRecorder.events = <<>> /\ NewRecorder.bytes = 0 /\ NewRecorder.last = -1 /\ ~NewRecorder.finalized
  /\ Nobody.status = "none" /\ IsRecorder(NewRecorder)
<1>1. IsRecorder(NewRecorder)
  <2>1. IsSeq(<<>>) /\ Len(<<>>) = 0
    BY DEF IsSeq
  <2> QED BY <2>1, LimitsAssumption DEF IsRecorder, NewRecorder
<1>2. Ready = [f \in Fields |-> Ready[f]]
  BY DEF Ready, Fields
<1>3. Ready.buf \in Seq(Int)
  BY DEF Ready
<1>4. /\ Ready.phase = "ready" /\ Ready.pc = "idle" /\ Ready.purpose = "none" /\ Ready.cont = "none"
      /\ Ready.buf = <<>> /\ Ready.frozen = -1 /\ Ready.last = 0 /\ Ready.t0 = 0
      /\ Ready.stop = "not-observed" /\ Ready.verified = 0 /\ Ready.stDur = 0 /\ Ready.lastKept = -1
      /\ Ready.rec = NewRecorder
      /\ Ready.hasRec = FALSE /\ Ready.limitEvent = FALSE /\ Ready.logOk = TRUE /\ Ready.closed = FALSE
      /\ Ready.paused = FALSE
  BY DEF Ready
<1>5. IsDialog(Ready)
  <2>1. /\ Ready.hasRec \in BOOLEAN /\ Ready.paused \in BOOLEAN /\ Ready.closed \in BOOLEAN
        /\ Ready.limitEvent \in BOOLEAN /\ Ready.logOk \in BOOLEAN
    BY <1>4
  <2>2. Ready.frozen \in Int /\ Ready.last \in Int /\ Ready.lastKept \in Int
    BY <1>4
  <2>3. IsRecorder(Ready.rec)
    BY <1>1, <1>4
  <2> HIDE DEF Ready
  <2> QED BY <1>2, <1>3, <1>4, <2>1, <2>2, <2>3 DEF IsDialog
<1>6. /\ NewRecorder.events = <<>> /\ NewRecorder.bytes = 0 /\ NewRecorder.last = -1 /\ ~NewRecorder.finalized
      /\ Nobody.status = "none"
  BY DEF NewRecorder, Nobody
<1> QED BY <1>1, <1>2, <1>4, <1>5, <1>6

\* The fields a step outside a recording may change.
Untaped == {"phase", "purpose", "pc", "cont", "cancelled", "connected", "reads", "bytes", "stop", "verified",
            "reason", "ctx", "pendEvents"}

\* A dialog with the same recorder and the same clock fields is a dialog.
LEMMA DialogKept ==
  ASSUME NEW x, NEW y, IsDialog(x), Same(y, x, Untaped)
  PROVE  IsDialog(y)
BY DEF IsDialog, Same, Fields, Untaped

\* A step outside a recording: nothing is saved and nothing is recorded.
LEMMA IdleStep ==
  ASSUME IsDialog(d)', now' \in Nat, truth' \in [read : Nat, bytes : Nat, failed : BOOLEAN],
         saved' = Nobody, ~Taping',
         d'.phase \in {"ready", "starting", "canceling", "preflighting", "stopping"},
         d'.phase \in {"starting", "canceling", "preflighting"} => d'.purpose = "preflight"
  PROVE  DeskInv' /\ RecordingInv' /\ SavedIsTrue' /\ RetainedCanBeFinalized'
<1>1. saved'.status = "none"
  BY ReadyFacts
<1>2. SavedIsTrue' /\ RetainedCanBeFinalized'
  BY <1>1 DEF SavedIsTrue, RetainedCanBeFinalized
<1>3. RecordingInv'
  BY DEF RecordingInv
<1>4. DeskInv'
  BY DEF DeskInv
<1> QED BY <1>2, <1>3, <1>4

\* A dialog that returns to its first screen keeps the invariant.
LEMMA ReadyStep ==
  ASSUME DeskInv, d' = Ready, now' \in Nat, truth' \in [read : Nat, bytes : Nat, failed : BOOLEAN], saved' = Nobody
  PROVE  DeskInv' /\ RecordingInv' /\ SavedIsTrue' /\ RetainedCanBeFinalized'
<1>1. IsDialog(d') /\ d'.phase = "ready"
  BY ReadyFacts
<1>2. ~Taping' /\ IsDialog(d)'
  BY <1>1 DEF Taping
<1> QED BY <1>1, <1>2, IdleStep

\* StartPreflight keeps the invariant.
LEMMA StartPreflightStep ==
  ASSUME SerialInv, StartPreflight  PROVE SerialInv'
<1>1. /\ d.phase = "ready" /\ d' = [Ready EXCEPT !.phase = "starting", !.purpose = "preflight", !.pc = "choose"]
      /\ now' = 0 /\ truth' = Unsent /\ port' = port /\ device' = device /\ late' = late /\ saved' = saved
  BY DEF StartPreflight
<1>2. Same(d', Ready, Untaped) /\ d'.phase = "starting" /\ d'.pc = "choose" /\ d'.purpose = "preflight"
  BY <1>1, ReadyFacts DEF Same, Fields, Untaped
<1>3. IsDialog(d')
  BY <1>2, ReadyFacts, DialogKept DEF Untaped
<1>4. ControlInv'
  BY <1>1, <1>2 DEF SerialInv, ControlInv
<1>5. truth' \in [read : Nat, bytes : Nat, failed : BOOLEAN] /\ now' \in Nat
  BY <1>1 DEF Unsent
<1>6. saved' = Nobody
  BY <1>1 DEF SerialInv, DeskInv
<1>7. ~Taping' /\ IsDialog(d)'
  BY <1>2, <1>3 DEF Taping
<1> QED BY <1>2, <1>4, <1>5, <1>6, <1>7, IdleStep DEF SerialInv

\* Cancel keeps the invariant.
LEMMA CancelStep ==
  ASSUME SerialInv, Cancel  PROVE SerialInv'
<1>1. /\ d.phase = "starting" /\ d' = [d EXCEPT !.phase = "canceling", !.cancelled = TRUE]
      /\ now' = now /\ truth' = truth /\ port' = port /\ device' = device /\ late' = late /\ saved' = saved
  BY DEF Cancel
<1>2. IsDialog(d) /\ now \in Nat /\ truth \in [read : Nat, bytes : Nat, failed : BOOLEAN] /\ saved = Nobody
  BY <1>1 DEF SerialInv, DeskInv
<1>3. Same(d', d, Untaped) /\ d'.phase = "canceling" /\ d'.pc = d.pc /\ d'.purpose = "preflight"
  <2>1. d.purpose = "preflight"
    BY <1>1 DEF SerialInv, DeskInv
  <2> QED BY <1>1, <1>2, <2>1 DEF IsDialog, Same, Fields, Untaped
<1>4. IsDialog(d')
  BY <1>2, <1>3, DialogKept DEF Untaped
<1>5. ControlInv'
  BY <1>1, <1>3 DEF SerialInv, ControlInv
<1>6. ~Taping' /\ IsDialog(d)'
  BY <1>3, <1>4 DEF Taping
<1> QED BY <1>1, <1>2, <1>3, <1>5, <1>6, IdleStep DEF SerialInv

\* Dismiss keeps the invariant.
LEMMA DismissStep ==
  ASSUME SerialInv, Dismiss  PROVE SerialInv'
<1>1. /\ d.phase = "canceling" /\ late = "none" /\ late' = d.pc /\ d' = Ready /\ port' = NoPort
      /\ now' = now /\ truth' = truth /\ device' = device /\ saved' = saved
  BY DEF Dismiss
<1>2. now \in Nat /\ truth \in [read : Nat, bytes : Nat, failed : BOOLEAN] /\ saved = Nobody
  BY <1>1 DEF SerialInv, DeskInv
<1>3. device' = "open" => late' = "close"
  BY <1>1 DEF SerialInv, ControlInv
<1>4. ControlInv'
  BY <1>1, <1>3, ReadyFacts DEF ControlInv, NoPort
<1> QED BY <1>1, <1>2, <1>4, ReadyStep DEF SerialInv

\* StopPreflight keeps the invariant.
LEMMA StopPreflightStep ==
  ASSUME SerialInv, StopPreflight  PROVE SerialInv'
<1>1. /\ d.phase = "preflighting" /\ d' = [d EXCEPT !.phase = "stopping", !.pc = "stop", !.cont = "preflight"]
      /\ port' = [port EXCEPT !.stopped = TRUE, !.reading = FALSE]
      /\ now' = now /\ truth' = truth /\ device' = device /\ late' = late /\ saved' = saved
  BY DEF StopPreflight, Stopping
<1>2. IsDialog(d) /\ now \in Nat /\ truth \in [read : Nat, bytes : Nat, failed : BOOLEAN] /\ saved = Nobody
  BY <1>1 DEF SerialInv, DeskInv
<1>3. Same(d', d, Untaped) /\ d'.phase = "stopping" /\ d'.pc = "stop" /\ d'.cont = "preflight"
  BY <1>1, <1>2 DEF IsDialog, Same, Fields, Untaped
<1>4. IsDialog(d')
  BY <1>2, <1>3, DialogKept DEF Untaped
<1>5. ControlInv'
  BY <1>1, <1>3 DEF SerialInv, ControlInv
<1>6. ~Taping' /\ IsDialog(d)'
  BY <1>3, <1>4 DEF Taping
<1> QED BY <1>1, <1>2, <1>3, <1>5, <1>6, IdleStep DEF SerialInv

\* Discard keeps the invariant.
LEMMA DiscardStep ==
  ASSUME SerialInv, DiscardCapture  PROVE SerialInv'
<1> DEFINE f == Freeze(d, now)
<1>1. /\ d.phase = "capturing"
      /\ d' = [[f EXCEPT !.closed = TRUE] EXCEPT !.phase = "stopping", !.pc = "stop", !.cont = "discard"]
      /\ port' = [port EXCEPT !.stopped = TRUE, !.reading = FALSE]
      /\ now' = now /\ truth' = truth /\ device' = device /\ late' = late /\ saved' = saved
  BY DEF DiscardCapture, Stopping
<1>2. /\ IsDialog(d) /\ now \in Nat /\ truth \in [read : Nat, bytes : Nat, failed : BOOLEAN] /\ saved = Nobody
      /\ Taped(d, now)
  BY <1>1 DEF SerialInv, DeskInv, RecordingInv, Taping
<1>3. IsDialog(f) /\ Same(f, d, {"frozen"})
  <2>1. now \in Int
    BY <1>2
  <2> QED BY <1>2, <2>1, FreezeFacts
<1> HIDE DEF f
<1>4. /\ Same(d', f, {"closed", "phase", "pc", "cont"}) /\ d'.phase = "stopping" /\ d'.pc = "stop"
      /\ d'.cont = "discard" /\ d'.closed = TRUE
  BY <1>1, <1>3 DEF IsDialog, Same, Fields
<1>5. IsDialog(d')
  BY <1>3, <1>4 DEF IsDialog, Same, Fields
<1>6. ControlInv'
  BY <1>1, <1>4 DEF SerialInv, ControlInv
<1>7. ~Taping' /\ IsDialog(d)'
  BY <1>4, <1>5 DEF Taping
<1> QED BY <1>1, <1>2, <1>4, <1>6, <1>7, IdleStep DEF SerialInv

\* Leave keeps the invariant.
LEMMA LeaveStep ==
  ASSUME SerialInv, LeaveRetained  PROVE SerialInv'
<1>1. /\ d.phase \in {"finalize-error", "save-error", "saved"} /\ d' = Ready /\ saved' = Nobody
      /\ now' = now /\ truth' = truth /\ port' = port /\ device' = device /\ late' = late
  BY DEF LeaveRetained
<1>2. now \in Nat /\ truth \in [read : Nat, bytes : Nat, failed : BOOLEAN]
  BY DEF SerialInv, DeskInv
<1>3. ControlInv'
  BY <1>1, ReadyFacts DEF SerialInv, ControlInv
<1> QED BY <1>1, <1>2, <1>3, ReadyStep DEF SerialInv

\* Chosen keeps the invariant.
LEMMA ChosenStep ==
  ASSUME SerialInv, Chosen  PROVE SerialInv'
<1>1. /\ d.pc = "choose" /\ d' = [d EXCEPT !.pc = "open"]
      /\ now' = now /\ truth' = truth /\ port' = port /\ device' = device /\ late' = late /\ saved' = saved
  BY DEF Chosen
<1>2. d.phase \in {"starting", "canceling"}
  BY <1>1 DEF SerialInv, ControlInv
<1>3. IsDialog(d) /\ now \in Nat /\ truth \in [read : Nat, bytes : Nat, failed : BOOLEAN] /\ saved = Nobody
  BY <1>2 DEF SerialInv, DeskInv
<1>4. Same(d', d, Untaped) /\ d'.phase = d.phase /\ d'.pc = "open" /\ d'.purpose = "preflight"
  <2>1. d.purpose = "preflight"
    BY <1>2 DEF SerialInv, DeskInv
  <2> QED BY <1>1, <1>3, <2>1 DEF IsDialog, Same, Fields, Untaped
<1>5. IsDialog(d')
  BY <1>3, <1>4, DialogKept DEF Untaped
<1>6. ControlInv'
  BY <1>1, <1>2, <1>4 DEF SerialInv, ControlInv
<1>7. ~Taping' /\ IsDialog(d)'
  BY <1>2, <1>4, <1>5 DEF Taping
<1> QED BY <1>1, <1>2, <1>3, <1>4, <1>6, <1>7, IdleStep DEF SerialInv

\* StartThrows keeps the invariant.
LEMMA StartThrowsStep ==
  ASSUME SerialInv, StartThrows  PROVE SerialInv'
<1>1. /\ d.pc \in {"choose", "open"} /\ d' = Ready
      /\ now' = now /\ truth' = truth /\ port' = port /\ device' = device /\ late' = late /\ saved' = saved
  BY DEF StartThrows
<1>2. d.phase \in {"starting", "canceling"}
  BY <1>1 DEF SerialInv, ControlInv
<1>3. now \in Nat /\ truth \in [read : Nat, bytes : Nat, failed : BOOLEAN] /\ saved = Nobody
  BY <1>2 DEF SerialInv, DeskInv
<1>4. ControlInv'
  BY <1>1, <1>2, ReadyFacts DEF SerialInv, ControlInv
<1> QED BY <1>1, <1>3, <1>4, ReadyStep DEF SerialInv

\* Opened keeps the invariant.
LEMMA OpenedStep ==
  ASSUME SerialInv, Opened  PROVE SerialInv'
<1>1. /\ d.pc = "open" /\ device = "closed" /\ device' = "open"
      /\ now' = now /\ truth' = truth /\ late' = late /\ saved' = saved
  BY DEF Opened
<1>2. \/ d' = [d EXCEPT !.pc = "close"] /\ port' = [held |-> TRUE, stopped |-> TRUE, reading |-> FALSE]
      \/ /\ d' = [d EXCEPT !.phase = "preflighting", !.pc = "idle", !.connected = TRUE]
         /\ port' = [held |-> TRUE, stopped |-> FALSE, reading |-> TRUE]
  BY DEF Opened
<1>3. d.phase \in {"starting", "canceling"}
  BY <1>1 DEF SerialInv, ControlInv
<1>4. IsDialog(d) /\ now \in Nat /\ truth \in [read : Nat, bytes : Nat, failed : BOOLEAN] /\ saved = Nobody
      /\ d.purpose = "preflight"
  BY <1>3 DEF SerialInv, DeskInv
<1>5. /\ Same(d', d, Untaped) /\ d'.purpose = "preflight"
      /\ \/ d'.phase = d.phase /\ d'.pc = "close" /\ port' = [held |-> TRUE, stopped |-> TRUE, reading |-> FALSE]
         \/ d'.phase = "preflighting" /\ d'.pc = "idle" /\ port' = [held |-> TRUE, stopped |-> FALSE, reading |-> TRUE]
  <2>1. CASE d' = [d EXCEPT !.pc = "close"] /\ port' = [held |-> TRUE, stopped |-> TRUE, reading |-> FALSE]
    BY <1>4, <2>1 DEF IsDialog, Same, Fields, Untaped
  <2>2. CASE /\ d' = [d EXCEPT !.phase = "preflighting", !.pc = "idle", !.connected = TRUE]
             /\ port' = [held |-> TRUE, stopped |-> FALSE, reading |-> TRUE]
    BY <1>4, <2>2 DEF IsDialog, Same, Fields, Untaped
  <2> QED BY <1>2, <2>1, <2>2
<1>6. IsDialog(d')
  BY <1>4, <1>5, DialogKept DEF Untaped
<1>7. ControlInv'
  <2>1. CASE d'.phase = d.phase /\ d'.pc = "close" /\ port' = [held |-> TRUE, stopped |-> TRUE, reading |-> FALSE]
    BY <1>1, <1>3, <2>1 DEF ControlInv
  <2>2. CASE /\ d'.phase = "preflighting" /\ d'.pc = "idle"
             /\ port' = [held |-> TRUE, stopped |-> FALSE, reading |-> TRUE]
    BY <1>1, <1>3, <2>2 DEF ControlInv
  <2> QED BY <1>5, <2>1, <2>2
<1>8. ~Taping' /\ IsDialog(d)'
  BY <1>3, <1>5, <1>6 DEF Taping
<1> QED BY <1>1, <1>3, <1>4, <1>5, <1>7, <1>8, IdleStep DEF SerialInv

\* SetupClosed keeps the invariant.
LEMMA SetupClosedStep ==
  ASSUME SerialInv, SetupClosed  PROVE SerialInv'
<1>1. /\ d.pc = "close" /\ d' = Ready /\ port' = NoPort /\ device' \in {"closed", "stuck"}
      /\ now' = now /\ truth' = truth /\ late' = late /\ saved' = saved
  BY DEF SetupClosed, Closes, CloseFails
<1>2. d.phase \in {"starting", "canceling"}
  BY <1>1 DEF SerialInv, ControlInv
<1>3. now \in Nat /\ truth \in [read : Nat, bytes : Nat, failed : BOOLEAN] /\ saved = Nobody
  BY <1>2 DEF SerialInv, DeskInv
<1>4. ControlInv'
  BY <1>1, <1>2, ReadyFacts DEF ControlInv, NoPort
<1> QED BY <1>1, <1>3, <1>4, ReadyStep DEF SerialInv

\* Late keeps the invariant.
LEMMA LateStep ==
  ASSUME SerialInv, Late  PROVE SerialInv'
<1>1. /\ now' = now /\ d' = d /\ port' = port /\ saved' = saved /\ truth' = truth
      /\ \/ device' = device /\ late = "choose" /\ late' = "open"
         \/ device' = device /\ late \in {"choose", "open"} /\ late' = "none"
         \/ device' = "open" /\ late' = "close"
         \/ late' = "none" /\ device' \in {"closed", "stuck"}
  BY Zenon DEF Late, LateStart, LateOpened, Closes, CloseFails
<1>2. ControlInv'
  BY <1>1 DEF SerialInv, ControlInv
<1>3. DeskInv' /\ RecordingInv' /\ SavedIsTrue' /\ RetainedCanBeFinalized'
  <2>1. DeskInv /\ RecordingInv /\ SavedIsTrue /\ RetainedCanBeFinalized
    BY DEF SerialInv
  <2>2. DeskInv'
    BY <1>1, <2>1 DEF DeskInv
  <2>3. RecordingInv'
    BY <1>1, <2>1 DEF RecordingInv, Taping
  <2>4. SavedIsTrue' /\ RetainedCanBeFinalized'
    BY <1>1, <2>1 DEF SavedIsTrue, RetainedCanBeFinalized
  <2> QED BY <2>2, <2>3, <2>4
<1> QED BY <1>2, <1>3 DEF SerialInv

\* RetryDownload keeps the invariant.
LEMMA RetryDownloadStep ==
  ASSUME SerialInv, RetryDownload  PROVE SerialInv'
<1>1. /\ d.phase = "save-error" /\ d' = [d EXCEPT !.phase = "saved"]
      /\ now' = now /\ truth' = truth /\ port' = port /\ device' = device /\ late' = late /\ saved' = saved
  BY DEF RetryDownload
<1>2. IsDialog(d) /\ now \in Nat /\ truth \in [read : Nat, bytes : Nat, failed : BOOLEAN] /\ SavedIsTrue
  BY DEF SerialInv, DeskInv
<1>3. Same(d', d, Untaped) /\ d'.phase = "saved" /\ d'.pc = d.pc
  BY <1>1, <1>2 DEF IsDialog, Same, Fields, Untaped
<1>4. IsDialog(d')
  BY <1>2, <1>3, DialogKept DEF Untaped
<1>5. ControlInv'
  BY <1>1, <1>3 DEF SerialInv, ControlInv
<1>6. DeskInv'
  BY <1>1, <1>2, <1>3, <1>4 DEF DeskInv
<1>7. RecordingInv' /\ RetainedCanBeFinalized'
  BY <1>3 DEF RecordingInv, Taping, RetainedCanBeFinalized
<1>8. SavedIsTrue'
  BY <1>1, <1>2 DEF SavedIsTrue
<1> QED BY <1>5, <1>6, <1>7, <1>8 DEF SerialInv

\* A step within a recording: nothing is saved yet.
LEMMA TapingStep ==
  ASSUME ControlInv', now' \in Nat, truth' \in [read : Nat, bytes : Nat, failed : BOOLEAN], saved' = Nobody,
         d'.phase \in {"capturing", "stopping"}, d'.phase = "capturing" => d'.purpose = "recording",
         Taped(d', now'), Tally(d', truth'), d'.stop = "not-observed", d'.verified = 0,
         d'.frozen # -1 <=> d'.closed \/ d'.phase = "stopping"
  PROVE  SerialInv'
<1>1. saved'.status = "none"
  BY ReadyFacts
<1>2. SavedIsTrue' /\ RetainedCanBeFinalized'
  BY <1>1 DEF SavedIsTrue, RetainedCanBeFinalized
<1>3. RecordingInv'
  BY DEF RecordingInv
<1>4. IsDialog(d')
  BY DEF Taped, Steady
<1>5. DeskInv'
  BY <1>4 DEF DeskInv
<1> QED BY <1>2, <1>3, <1>5 DEF SerialInv

\* What holds while a recording runs.
LEMMA TapingNow ==
  ASSUME SerialInv, Taping
  PROVE  /\ Taped(d, now) /\ Tally(d, truth) /\ d.stop = "not-observed" /\ d.verified = 0
         /\ (d.frozen # -1 <=> d.closed \/ d.phase = "stopping")
         /\ IsDialog(d) /\ Timed(d) /\ d.buf \in Seq(Int) /\ d.rec.bytes \in Nat /\ now \in Nat /\ now \in Int
         /\ truth = [read |-> truth.read, bytes |-> truth.bytes, failed |-> truth.failed]
         /\ truth.read \in Nat /\ truth.bytes \in Nat /\ truth.failed \in BOOLEAN
         /\ saved = Nobody /\ (d.phase = "capturing" => d.purpose = "recording")
<1>1. RecordingInv /\ DeskInv
  BY DEF SerialInv
<1>2. Taped(d, now) /\ Tally(d, truth) /\ d.stop = "not-observed" /\ d.verified = 0
      /\ (d.frozen # -1 <=> d.closed \/ d.phase = "stopping")
  BY <1>1 DEF RecordingInv
<1>3. IsDialog(d) /\ Timed(d) /\ d.buf \in Seq(Int) /\ d.rec.bytes \in Nat
  BY <1>2 DEF Taped, Steady, IsDialog, IsRecorder
<1>4. now \in Nat /\ truth \in [read : Nat, bytes : Nat, failed : BOOLEAN] /\ saved = Nobody
      /\ (d.phase = "capturing" => d.purpose = "recording")
  BY <1>1 DEF DeskInv, Taping
<1> QED BY <1>2, <1>3, <1>4

\* BeginRecording keeps the invariant.
LEMMA BeginRecordingStep ==
  ASSUME SerialInv, BeginRecording  PROVE SerialInv'
<1>1. /\ d.phase = "preflighting"
      /\ d' = [Ready EXCEPT !.phase = "capturing", !.purpose = "recording", !.hasRec = TRUE]
      /\ truth' = [truth EXCEPT !.bytes = 0, !.failed = FALSE]
      /\ now' = now /\ port' = port /\ device' = device /\ late' = late /\ saved' = saved
  BY Zenon DEF BeginRecording
<1>2. now \in Nat /\ truth \in [read : Nat, bytes : Nat, failed : BOOLEAN] /\ saved = Nobody
  BY <1>1 DEF SerialInv, DeskInv
<1>3. /\ Same(d', Ready, {"phase", "purpose", "hasRec"}) /\ d'.phase = "capturing" /\ d'.purpose = "recording"
      /\ d'.hasRec = TRUE
  BY <1>1, ReadyFacts DEF Same, Fields
<1>4. IsDialog(d')
  <2>1. IsDialog(Ready)
    BY ReadyFacts
  <2> QED BY <1>3, <2>1 DEF IsDialog, Same, Fields
<1>5. /\ d'.pc = "idle" /\ d'.buf = <<>> /\ d'.frozen = -1 /\ d'.last = 0 /\ d'.stop = "not-observed" /\ d'.verified = 0
      /\ d'.lastKept = -1 /\ d'.rec = NewRecorder /\ ~d'.limitEvent /\ d'.logOk = TRUE /\ d'.closed = FALSE
      /\ d'.paused = FALSE
  <2>1. /\ d'.pc = Ready.pc /\ d'.buf = Ready.buf /\ d'.frozen = Ready.frozen /\ d'.last = Ready.last
        /\ d'.stop = Ready.stop /\ d'.verified = Ready.verified /\ d'.lastKept = Ready.lastKept
        /\ d'.rec = Ready.rec /\ d'.limitEvent = Ready.limitEvent /\ d'.logOk = Ready.logOk
        /\ d'.closed = Ready.closed /\ d'.paused = Ready.paused
    BY <1>3 DEF Same, Fields
  <2> QED BY <2>1, ReadyFacts
<1>6. ControlInv'
  BY <1>1, <1>3, <1>5 DEF SerialInv, ControlInv
<1>7. /\ truth' \in [read : Nat, bytes : Nat, failed : BOOLEAN] /\ truth'.bytes = 0 /\ truth'.failed = FALSE
  BY <1>1, <1>2
<1>8. Len(d'.rec.events) = 0 /\ Len(d'.buf) = 0 /\ d'.rec.last = -1 /\ d'.rec.bytes = 0
  BY <1>5, ReadyFacts
<1>9. Taped(d', now')
  <2>1. Timed(d')
    BY <1>5, <1>8, LimitsAssumption DEF Timed
  <2>2. EventsOk(d'.rec.events, Reach(d', now'), d'.stop)
    BY <1>8 DEF EventsOk
  <2>3. LimitOk(d')
    BY <1>5, <1>8 DEF LimitOk
  <2> QED BY <1>3, <1>4, <1>5, <2>1, <2>2, <2>3 DEF Taped, Steady
<1>10. Tally(d', truth')
  BY <1>5, <1>7, <1>8 DEF Tally
<1> QED BY <1>1, <1>2, <1>3, <1>5, <1>6, <1>7, <1>9, <1>10, TapingStep

\* StopAndSave keeps the invariant.
LEMMA StopAndSaveStep ==
  ASSUME SerialInv, StopAndSave  PROVE SerialInv'
<1> DEFINE f == Freeze(d, now)
<1>1. /\ d.phase = "capturing" /\ d' = [f EXCEPT !.phase = "stopping", !.pc = "stop", !.cont = "save"]
      /\ port' = [port EXCEPT !.stopped = TRUE, !.reading = FALSE]
      /\ now' = now /\ truth' = truth /\ device' = device /\ late' = late /\ saved' = saved
  BY DEF StopAndSave, Stopping
<1>2. /\ Taped(d, now) /\ Tally(d, truth) /\ d.stop = "not-observed" /\ d.verified = 0 /\ IsDialog(d) /\ Timed(d)
      /\ now \in Nat /\ now \in Int /\ saved = Nobody
  BY <1>1, TapingNow DEF Taping
<1>3. IsDialog(f) /\ Same(f, d, {"frozen"}) /\ f.frozen = Reach(d, now) /\ f.frozen >= 1 /\ f.frozen \in Int
  BY <1>2, FreezeFacts
<1> HIDE DEF f
<1>4. /\ Same(d', f, {"phase", "pc", "cont"}) /\ d'.phase = "stopping" /\ d'.pc = "stop"
  BY <1>1, <1>3 DEF IsDialog, Same, Fields
<1>5. IsDialog(d')
  BY <1>3, <1>4 DEF IsDialog, Same, Fields
<1>6. ControlInv'
  BY <1>1, <1>4 DEF SerialInv, ControlInv
<1>7. /\ d'.rec = d.rec /\ d'.logOk = d.logOk /\ d'.limitEvent = d.limitEvent /\ d'.paused = d.paused
      /\ d'.hasRec = d.hasRec /\ d'.lastKept = d.lastKept /\ d'.last = d.last /\ d'.buf = d.buf /\ d'.stop = d.stop
      /\ d'.frozen = Reach(d, now) /\ d'.closed = d.closed /\ d'.verified = d.verified
  BY <1>3, <1>4 DEF Same, Fields
<1>8. Taped(d', now) /\ (Doubtful(d') <=> Doubtful(d))
  <2>1. d.last <= d'.last /\ now <= now
    BY <1>2, <1>7 DEF IsDialog
  <2>2. \A i \in 1..Len(d'.buf) : 0 <= d'.buf[i] /\ d'.buf[i] < d'.last
    BY <1>2, <1>7 DEF Timed
  <2>3. d'.frozen # -1 => d'.last = d.last
    BY <1>7
  <2> QED BY <1>2, <1>5, <1>7, <2>1, <2>2, <2>3, GoesOn
<1>9. Tally(d', truth)
  BY <1>2, <1>7, <1>8 DEF Tally
<1>10. truth \in [read : Nat, bytes : Nat, failed : BOOLEAN]
  BY DEF SerialInv, DeskInv
<1>11. d'.frozen # -1
  BY <1>3, <1>7
<1> QED BY <1>1, <1>2, <1>4, <1>6, <1>7, <1>8, <1>9, <1>10, <1>11, TapingStep

\* Tick keeps the invariant.
LEMMA TickStep ==
  ASSUME SerialInv, Tick  PROVE SerialInv'
<1>1. /\ d.phase = "capturing" /\ now' = now + 1 /\ d' = d /\ port' = port /\ device' = device /\ late' = late
      /\ saved' = saved /\ truth' = truth
  BY DEF Tick
<1>2. /\ Taped(d, now) /\ Tally(d, truth) /\ d.stop = "not-observed" /\ d.verified = 0 /\ IsDialog(d) /\ Timed(d)
      /\ now \in Nat /\ now \in Int /\ saved = Nobody /\ d.purpose = "recording"
      /\ (d.frozen # -1 <=> d.closed \/ d.phase = "stopping")
  BY <1>1, TapingNow DEF Taping
<1>3. ControlInv'
  BY <1>1 DEF SerialInv, ControlInv
<1>4. Taped(d, now + 1)
  <2>1. d.last <= d.last /\ now <= now + 1 /\ now + 1 \in Int
    BY <1>2 DEF IsDialog
  <2>2. \A i \in 1..Len(d.buf) : 0 <= d.buf[i] /\ d.buf[i] < d.last
    BY <1>2 DEF Timed
  <2> DEFINE u == now + 1
  <2> HIDE DEF u
  <2>3. now <= u /\ u \in Int
    BY <2>1 DEF u
  <2>4. Taped(d, u)
    BY <1>2, <2>1, <2>2, <2>3, GoesOn
  <2> QED BY <2>4 DEF u
<1>5. truth \in [read : Nat, bytes : Nat, failed : BOOLEAN] /\ now + 1 \in Nat
  BY <1>2 DEF SerialInv, DeskInv
<1> QED BY <1>1, <1>2, <1>3, <1>4, <1>5, TapingStep

\* readLoop runs for a dialog that preflights or records, and for no other.
LEMMA ReadingWhen ==
  ASSUME SerialInv, port.reading
  PROVE  d.phase \in {"preflighting", "capturing"} /\ saved = Nobody /\ (d.phase = "capturing" <=> Recording)
<1>1. d.phase \in {"preflighting", "capturing"}
  BY DEF SerialInv, ControlInv
<1> QED BY <1>1 DEF SerialInv, DeskInv, Recording

\* A preflight whose device fails or goes away goes on without it.
LEMMA LostStep ==
  ASSUME SerialInv, port.reading, ~Recording, d' = Lost(d), now' = now, saved' = saved,
         truth' = [truth EXCEPT !.failed = TRUE], ControlInv'
  PROVE  SerialInv'
<1>1. d.phase = "preflighting" /\ saved = Nobody
  BY ReadingWhen
<1>2. IsDialog(d) /\ now \in Nat /\ truth \in [read : Nat, bytes : Nat, failed : BOOLEAN] /\ d.purpose = "preflight"
  BY <1>1 DEF SerialInv, DeskInv
<1>3. Same(d', d, Untaped) /\ d'.phase = d.phase /\ d'.purpose = d.purpose
  BY <1>2 DEF Lost, IsDialog, Same, Fields, Untaped
<1>4. IsDialog(d')
  BY <1>2, <1>3, DialogKept DEF Untaped
<1>5. ~Taping' /\ IsDialog(d)'
  BY <1>1, <1>3, <1>4 DEF Taping
<1>6. truth' \in [read : Nat, bytes : Nat, failed : BOOLEAN]
  BY <1>2
<1> QED BY <1>1, <1>2, <1>3, <1>5, <1>6, IdleStep DEF SerialInv

\* A failure during a recording keeps its tally: the log says that something went wrong.
LEMMA FailedStep ==
  ASSUME SerialInv, port.reading, Recording, ControlInv', now' = now, saved' = saved,
         truth' = [truth EXCEPT !.failed = TRUE],
         Taped(d', now), Doubtful(d'), d'.closed, d'.frozen # -1, d'.rec.bytes = d.rec.bytes,
         Same(d', d, {"frozen", "closed", "reason", "rec", "logOk", "limitEvent"})
  PROVE  SerialInv'
<1>1. d.phase = "capturing"
  BY ReadingWhen
<1>2. /\ Tally(d, truth) /\ d.stop = "not-observed" /\ d.verified = 0
      /\ now \in Nat /\ saved = Nobody /\ d.purpose = "recording"
      /\ truth = [read |-> truth.read, bytes |-> truth.bytes, failed |-> truth.failed]
      /\ truth.read \in Nat /\ truth.bytes \in Nat /\ truth.failed \in BOOLEAN
  BY <1>1, TapingNow DEF Taping
<1>3. d'.phase = d.phase /\ d'.purpose = d.purpose /\ d'.stop = d.stop /\ d'.verified = d.verified /\ d'.buf = d.buf
  BY DEF Same, Fields
<1>4. truth' \in [read : Nat, bytes : Nat, failed : BOOLEAN] /\ truth'.bytes = truth.bytes
  BY <1>2
<1>5. Tally(d', truth')
  BY <1>2, <1>3, <1>4 DEF Tally
<1>6. d'.phase \in {"capturing", "stopping"}
  BY <1>1, <1>3
<1>7. Taped(d', now')
  OBVIOUS
<1> QED BY <1>2, <1>3, <1>4, <1>5, <1>6, <1>7, TapingStep

\* ReadError keeps the invariant.
LEMMA ReadErrorStep ==
  ASSUME SerialInv, ReadError  PROVE SerialInv'
<1>1. /\ port.reading /\ d' = IF Recording THEN OnError(d, now) ELSE Lost(d)
      /\ truth' = [truth EXCEPT !.failed = TRUE]
      /\ now' = now /\ port' = port /\ device' = device /\ late' = late /\ saved' = saved
  BY Zenon DEF ReadError
<1>2. CASE Recording
  <2>1. d.phase = "capturing"
    BY <1>1, <1>2, ReadingWhen
  <2>2. Taped(d, now) /\ now \in Int
    BY <2>1, TapingNow DEF Taping
  <2> DEFINE type == "serial-read-error"
             y == OnFailure(d, now, type)
  <2>3. d' = y
    BY <1>1, <1>2 DEF OnError
  <2>4. type \in {"serial-read-error", "serial-disconnected"}
    OBVIOUS
  <2> HIDE DEF type
  <2>5. /\ Taped(y, now) /\ Doubtful(y) /\ y.closed /\ y.frozen # -1
        /\ Same(y, d, {"frozen", "closed", "reason", "rec", "logOk", "limitEvent"})
        /\ y.rec.bytes = d.rec.bytes
    BY <2>2, <2>4, FailureFacts
  <2> HIDE DEF y
  <2>6. d'.phase = d.phase /\ d'.pc = d.pc
    BY <2>3, <2>5 DEF Same, Fields
  <2>7. ControlInv'
    BY <1>1, <2>6 DEF SerialInv, ControlInv
  <2> QED BY <1>1, <1>2, <2>3, <2>5, <2>7, FailedStep
<1>3. CASE ~Recording
  <2>1. d' = Lost(d)
    BY <1>1, <1>3
  <2>2. d'.phase = d.phase /\ d'.pc = d.pc
    BY <2>1 DEF Lost, SerialInv, DeskInv, IsDialog, Fields
  <2>3. ControlInv'
    BY <1>1, <2>2 DEF SerialInv, ControlInv
  <2> QED BY <1>1, <1>3, <2>1, <2>3, LostStep
<1> QED BY <1>2, <1>3

\* Disconnected keeps the invariant.
LEMMA DisconnectedStep ==
  ASSUME SerialInv, Disconnected  PROVE SerialInv'
<1>1. /\ port.reading
      /\ \E failed \in BOOLEAN :
           LET x == IF failed /\ Recording THEN OnError(d, now) ELSE d IN
           d' = IF Recording THEN OnDisconnect(x, now) ELSE Lost(d)
      /\ port' = [port EXCEPT !.stopped = TRUE, !.reading = FALSE]
      /\ truth' = [truth EXCEPT !.failed = TRUE]
      /\ now' = now /\ device' = device /\ late' = late /\ saved' = saved
  BY Zenon DEF Disconnected
<1>2. CASE Recording
  <2>1. d.phase = "capturing"
    BY <1>1, <1>2, ReadingWhen
  <2>2. Taped(d, now) /\ now \in Int /\ IsDialog(d)
    BY <2>1, TapingNow DEF Taping
  <2> DEFINE error == "serial-read-error"
             gone == "serial-disconnected"
  <2>3. PICK x : (x = OnFailure(d, now, error) \/ x = d) /\ d' = OnFailure(x, now, gone)
    BY <1>1, <1>2 DEF OnError, OnDisconnect
  <2>4. error \in {"serial-read-error", "serial-disconnected"} /\ gone \in {"serial-read-error", "serial-disconnected"}
    OBVIOUS
  <2> HIDE DEF error, gone
  <2>5. /\ Taped(x, now) /\ x.rec.bytes = d.rec.bytes
        /\ Same(x, d, {"frozen", "closed", "reason", "rec", "logOk", "limitEvent"})
    <3>1. CASE x = d
      BY <2>2, <3>1 DEF Same, IsDialog
    <3>2. CASE x = OnFailure(d, now, error)
      <4>1. LET y == OnFailure(d, now, error) IN
            /\ Taped(y, now) /\ Same(y, d, {"frozen", "closed", "reason", "rec", "logOk", "limitEvent"})
            /\ y.rec.bytes = d.rec.bytes
        BY <2>2, <2>4, FailureFacts
      <4> QED BY <3>2, <4>1
    <3> QED BY <2>3, <3>1, <3>2
  <2> DEFINE y == OnFailure(x, now, gone)
  <2>6. /\ Taped(y, now) /\ Doubtful(y) /\ y.closed /\ y.frozen # -1
        /\ Same(y, x, {"frozen", "closed", "reason", "rec", "logOk", "limitEvent"})
        /\ y.rec.bytes = x.rec.bytes
    BY <2>2, <2>4, <2>5, FailureFacts
  <2>7. d' = y
    BY <2>3
  <2> HIDE DEF y
  <2>8. Same(y, d, {"frozen", "closed", "reason", "rec", "logOk", "limitEvent"}) /\ y.rec.bytes = d.rec.bytes
    BY <2>5, <2>6 DEF Same
  <2>9. d'.phase = d.phase /\ d'.pc = d.pc
    BY <2>7, <2>8 DEF Same, Fields
  <2>10. ControlInv'
    BY <1>1, <2>1, <2>9 DEF SerialInv, ControlInv
  <2> QED BY <1>1, <1>2, <2>6, <2>7, <2>8, <2>10, FailedStep
<1>3. CASE ~Recording
  <2>1. d' = Lost(d)
    BY <1>1, <1>3
  <2>2. d'.phase = d.phase /\ d'.pc = d.pc
    BY <2>1 DEF Lost, SerialInv, DeskInv, IsDialog, Fields
  <2>3. ControlInv'
    BY <1>1, <2>2 DEF SerialInv, ControlInv
  <2> QED BY <1>1, <1>3, <2>1, <2>3, LostStep
<1> QED BY <1>2, <1>3

\* The bytes of a read come after those held back.
LEMMA Arrived ==
  ASSUME NEW buf \in Seq(Int), NEW n \in Nat, NEW t \in Int
  PROVE  LET bytes == buf \o [i \in 1..n |-> t] IN
         /\ bytes \in Seq(Int) /\ Len(bytes) = Len(buf) + n
         /\ \A i \in 1..Len(bytes) : bytes[i] = t \/ \E j \in 1..Len(buf) : bytes[i] = buf[j]
<1> DEFINE new == [i \in 1..n |-> t]
           bytes == buf \o new
<1>1. new \in Seq(Int) /\ Len(new) = n /\ \A i \in 1..n : new[i] = t
  OBVIOUS
<1> HIDE DEF new
<1>2. /\ bytes \in Seq(Int) /\ Len(bytes) = Len(buf) + n
      /\ \A i \in 1..Len(bytes) : bytes[i] = IF i <= Len(buf) THEN buf[i] ELSE new[i - Len(buf)]
  BY <1>1
<1> HIDE DEF bytes
<1>3. ASSUME NEW i \in 1..Len(bytes)
      PROVE  bytes[i] = t \/ \E j \in 1..Len(buf) : bytes[i] = buf[j]
  <2>1. CASE i <= Len(buf)
    BY <1>2, <2>1
  <2>2. CASE ~(i <= Len(buf))
    <3>1. i - Len(buf) \in 1..n /\ bytes[i] = new[i - Len(buf)]
      BY <1>2, <2>2
    <3> QED BY <1>1, <3>1
  <2> QED BY <2>1, <2>2
<1> QED BY <1>2, <1>3 DEF bytes, new

\* What is held back after a push is what lies beyond the last cut.
LEMMA UnassembledFacts ==
  ASSUME NEW bytes \in Seq(Int), NEW cuts \in SUBSET (1..Len(bytes))
  PROVE  LET u == Unassembled(bytes, cuts)
             size == Top(cuts \cup {0}) IN
         /\ size \in 0..Len(bytes) /\ u \in Seq(Int) /\ Len(u) = Len(bytes) - size
         /\ \A i \in 1..Len(u) : \E j \in 1..Len(bytes) : u[i] = bytes[j]
<1> DEFINE n == Len(bytes)
           size == Top(cuts \cup {0})
           u == Unassembled(bytes, cuts)
<1>1. n \in Nat
  OBVIOUS
<1>2. size \in 0..n
  <2>1. cuts \in SUBSET (1..n)
    OBVIOUS
  <2> HIDE DEF n
  <2> QED BY <1>1, <2>1, BeforeEnd
<1>3. u = SubSeq(bytes, size + 1, n)
  BY DEF Unassembled
<1> HIDE DEF size, u
<1>4. u \in Seq(Int) /\ Len(u) = n - size /\ \A i \in 1..Len(u) : u[i] = bytes[i + size] /\ i + size \in 1..n
  BY <1>2, <1>3
<1> QED BY <1>2, <1>4 DEF size, u

\* Bytes retained and bytes held back add up.
LEMMA Balance ==
  ASSUME NEW old \in Nat, NEW held \in Nat, NEW n \in Nat, NEW size \in Nat, NEW new \in Nat, NEW sent \in Nat
  PROVE  /\ old + held <= sent /\ new <= old + size => new + ((held + n) - size) <= sent + n
         /\ old + held = sent /\ new = old + size => new + ((held + n) - size) = sent + n
OBVIOUS

\* A read of n bytes: what is complete is retained, the rest is held back, and the clock moves.
LEMMA ChunkFacts ==
  ASSUME NEW x, NEW t \in Nat, Taped(x, t), NEW tr, Tally(x, tr), tr.bytes \in Nat, NEW n \in Nat,
         NEW cuts \in SUBSET (1..(Len(x.buf) + n)), NEW ur, ur.bytes = tr.bytes + n, ur.failed = tr.failed,
         x.frozen # -1 <=> x.closed
  PROVE  LET y == OnChunk(x, t, n, cuts) IN
         /\ Taped(y, t) /\ Tally(y, ur)
         /\ Same(y, x, Input \cup {"buf", "reads", "bytes", "last"})
<1> DEFINE last == IF x.frozen = -1 THEN Top({x.last, t + 1}) ELSE x.last
           seen == [x EXCEPT !.reads = @ + 1, !.bytes = @ + n, !.last = last]
           bytes == x.buf \o [i \in 1..n |-> t]
           rest == Unassembled(bytes, cuts)
           size == Top(cuts \cup {0})
           y == OnChunk(x, t, n, cuts)
<1>1. /\ IsDialog(x) /\ Timed(x) /\ x.buf \in Seq(Int) /\ x.last \in Int /\ x.rec.bytes \in Nat /\ t \in Int
      /\ Len(x.buf) \in Nat
  BY DEF Taped, Steady, IsDialog, IsRecorder
<1>2. last \in Int /\ x.last <= last /\ (x.frozen = -1 => t < last)
  <2>1. CASE x.frozen = -1
    <3>1. \E z \in {x.last, t + 1} : \A w \in {x.last, t + 1} : w <= z
      BY <1>1
    <3>2. Top({x.last, t + 1}) \in {x.last, t + 1} /\ \A w \in {x.last, t + 1} : w <= Top({x.last, t + 1})
      BY <3>1, TopFacts
    <3> QED BY <1>1, <2>1, <3>2
  <2>2. CASE x.frozen # -1
    BY <1>1, <2>2
  <2> QED BY <2>1, <2>2
<1>3. y = IF x.closed \/ x.paused THEN seen
          ELSE RetainAll([seen EXCEPT !.buf = rest], t, bytes, cuts, "live")
  <2>1. seen = [x EXCEPT !.reads = @ + 1, !.bytes = @ + n,
                         !.last = IF x.frozen = -1 THEN Top({@, t + 1}) ELSE @]
    BY <1>1 DEF IsDialog, Fields
  <2> HIDE DEF seen
  <2> QED BY <2>1 DEF OnChunk
<1> HIDE DEF y
<1>4. Same(seen, x, {"reads", "bytes", "last"}) /\ seen.last = last
  BY <1>1 DEF IsDialog, Same, Fields
<1>5. x.frozen # -1 => last = x.last
  OBVIOUS
<1> HIDE DEF seen, last
<1>6. IsDialog(seen)
  BY <1>1, <1>2, <1>4 DEF IsDialog, Same, Fields
<1>7. CASE x.closed \/ x.paused
  <2>1. y = seen
    BY <1>3, <1>7
  <2>2. /\ seen.rec = x.rec /\ seen.logOk = x.logOk /\ seen.limitEvent = x.limitEvent /\ seen.paused = x.paused
        /\ seen.hasRec = x.hasRec /\ seen.lastKept = x.lastKept /\ seen.buf = x.buf /\ seen.stop = x.stop
        /\ seen.frozen = x.frozen /\ seen.closed = x.closed
    BY <1>4 DEF Same, Fields
  <2>3. Taped(seen, t) /\ (Doubtful(seen) <=> Doubtful(x))
    <3>1. x.last <= seen.last /\ t <= t /\ (seen.frozen # -1 => seen.last = x.last)
      BY <1>1, <1>2, <1>4, <1>5, <2>2
    <3>2. \A i \in 1..Len(seen.buf) : 0 <= seen.buf[i] /\ seen.buf[i] < seen.last
      <4>1. ASSUME NEW i \in 1..Len(x.buf)  PROVE 0 <= x.buf[i] /\ x.buf[i] < last
        <5>1. x.buf[i] \in Int /\ 0 <= x.buf[i] /\ x.buf[i] < x.last
          BY <1>1 DEF Timed
        <5> QED BY <1>1, <1>2, <5>1
      <4> QED BY <1>4, <2>2, <4>1
    <3> QED BY <1>1, <1>6, <2>2, <3>1, <3>2, GoesOn
  <2>4. Doubtful(x)
    BY <1>7 DEF Taped, Tally
  <2>5. Tally(seen, ur)
    BY <1>1, <2>2, <2>3, <2>4 DEF Tally
  <2>6. Same(seen, x, Input \cup {"buf", "reads", "bytes", "last"})
    BY <1>4 DEF Same
  <2> QED BY <2>1, <2>3, <2>5, <2>6 DEF y
<1>8. CASE ~x.closed /\ ~x.paused
  <2>1. x.frozen = -1 /\ t < last
    BY <1>2, <1>8
  <2>2. /\ bytes \in Seq(Int) /\ Len(bytes) = Len(x.buf) + n
        /\ \A i \in 1..Len(bytes) : bytes[i] = t \/ \E j \in 1..Len(x.buf) : bytes[i] = x.buf[j]
    BY <1>1, Arrived
  <2> HIDE DEF bytes
  <2>3. ASSUME NEW i \in 1..Len(bytes)  PROVE 0 <= bytes[i] /\ bytes[i] < last
    <3>1. CASE bytes[i] = t
      BY <1>2, <2>1, <3>1
    <3>2. ASSUME NEW j \in 1..Len(x.buf), bytes[i] = x.buf[j]  PROVE 0 <= bytes[i] /\ bytes[i] < last
      <4>1. x.buf[j] \in Int /\ 0 <= x.buf[j] /\ x.buf[j] < x.last
        BY <1>1 DEF Timed
      <4> QED BY <1>1, <1>2, <3>2, <4>1
    <3> QED BY <2>2, <3>1, <3>2
  <2>4. cuts \in SUBSET (1..Len(bytes))
    BY <2>2
  <2>5. /\ size \in 0..Len(bytes) /\ rest \in Seq(Int) /\ Len(rest) = Len(bytes) - size
        /\ \A i \in 1..Len(rest) : \E j \in 1..Len(bytes) : rest[i] = bytes[j]
    BY <2>2, <2>4, UnassembledFacts
  <2> HIDE DEF rest, size
  <2> DEFINE z == [seen EXCEPT !.buf = rest]
             origin == "live"
             w == RetainAll(z, t, bytes, cuts, origin)
  <2>6. y = w
    BY <1>3, <1>8
  <2>7. Same(z, seen, {"buf"}) /\ z.buf = rest
    BY <1>6 DEF Same, IsDialog, Fields
  <2> HIDE DEF z
  <2>8. IsDialog(z)
    BY <1>6, <2>5, <2>7 DEF IsDialog, Same, Fields
  <2>9. /\ z.rec = x.rec /\ z.logOk = x.logOk /\ z.limitEvent = x.limitEvent /\ z.paused = x.paused
        /\ z.hasRec = x.hasRec /\ z.lastKept = x.lastKept /\ z.last = last /\ z.stop = x.stop
        /\ z.frozen = x.frozen /\ z.closed = x.closed
    BY <1>4, <2>7 DEF Same, Fields
  <2>10. Taped(z, t) /\ (Doubtful(z) <=> Doubtful(x))
    <3>1. x.last <= z.last /\ t <= t /\ (z.frozen # -1 => z.last = x.last)
      BY <1>1, <1>2, <1>5, <2>9
    <3>2. \A i \in 1..Len(z.buf) : 0 <= z.buf[i] /\ z.buf[i] < z.last
      BY <2>3, <2>5, <2>7, <2>9
    <3> QED BY <1>1, <2>8, <2>9, <3>1, <3>2, GoesOn
  <2>11. \A i \in 1..Len(bytes) : 0 <= bytes[i] /\ bytes[i] < z.last
    BY <2>3, <2>9
  <2>12. origin \in {"live", "serial-tail"} /\ CanRetain(z, origin)
    BY <1>8, <2>9 DEF CanRetain
  <2> HIDE DEF origin
  <2>13. /\ Taped(w, t) /\ Same(w, z, Input)
         /\ Doubtful(z) => Doubtful(w)
         /\ z.rec.bytes <= w.rec.bytes /\ w.rec.bytes <= z.rec.bytes + size
         /\ CanRetain(z, origin) /\ ~Doubtful(w) => w.rec.bytes = z.rec.bytes + size
    BY <1>1, <2>2, <2>4, <2>10, <2>11, <2>12, RetainAllFacts DEF size
  <2> HIDE DEF w
  <2>14. w.buf = rest /\ w.closed = x.closed
    BY <2>7, <2>9, <2>13 DEF Same, Fields, Input
  <2>15. w.rec.bytes \in Nat /\ size \in Nat /\ Len(rest) = (Len(x.buf) + n) - size
    <3>1. w.rec.bytes \in Nat
      BY <2>13 DEF Taped, Steady, IsDialog, IsRecorder
    <3>2. size \in Nat
      BY <2>5
    <3> QED BY <2>2, <2>5, <3>1, <3>2
  <2>16. x.rec.bytes + Len(x.buf) <= tr.bytes
    BY DEF Tally
  <2>17. w.rec.bytes + Len(rest) <= ur.bytes
    <3>1. w.rec.bytes <= x.rec.bytes + size
      BY <2>9, <2>13
    <3> DEFINE old == x.rec.bytes
               held == Len(x.buf)
               new == w.rec.bytes
               sent == tr.bytes
    <3>2. /\ old \in Nat /\ held \in Nat /\ new \in Nat /\ sent \in Nat /\ size \in Nat /\ n \in Nat
          /\ old + held <= sent /\ new <= old + size
      BY <1>1, <2>15, <2>16, <3>1
    <3> HIDE DEF old, held, new, sent
    <3>3. new + ((held + n) - size) <= sent + n
      BY <3>2, Balance
    <3>4. Len(rest) = (held + n) - size /\ ur.bytes = sent + n
      BY <2>15 DEF held, sent
    <3> QED BY <3>3, <3>4 DEF new
  <2>18. ASSUME ~Doubtful(w)  PROVE w.rec.bytes + Len(rest) = ur.bytes /\ ~ur.failed /\ ~w.closed
    <3>1. ~Doubtful(x)
      BY <2>10, <2>13, <2>18
    <3>2. x.rec.bytes + Len(x.buf) = tr.bytes /\ ~tr.failed /\ ~x.closed
      BY <3>1 DEF Tally
    <3>3. w.rec.bytes = x.rec.bytes + size
      BY <2>9, <2>12, <2>13, <2>18
    <3>4. w.rec.bytes + Len(rest) = ur.bytes
      <4> DEFINE old == x.rec.bytes
               held == Len(x.buf)
               new == w.rec.bytes
               sent == tr.bytes
      <4>1. /\ old \in Nat /\ held \in Nat /\ new \in Nat /\ sent \in Nat /\ size \in Nat /\ n \in Nat
            /\ old + held = sent /\ new = old + size
        BY <1>1, <2>15, <3>2, <3>3
      <4> HIDE DEF old, held, new, sent
      <4>2. new + ((held + n) - size) = sent + n
        BY <4>1, Balance
      <4>3. Len(rest) = (held + n) - size /\ ur.bytes = sent + n
        BY <2>15 DEF held, sent
      <4> QED BY <4>2, <4>3 DEF new
    <3> QED BY <2>14, <3>2, <3>4
  <2>19. Tally(w, ur)
    BY <2>14, <2>17, <2>18 DEF Tally
  <2>20. Same(w, x, Input \cup {"buf", "reads", "bytes", "last"})
    BY <1>4, <2>7, <2>13 DEF Same
  <2> QED BY <2>6, <2>13, <2>19, <2>20 DEF y
<1> QED BY <1>7, <1>8

\* Chunk keeps the invariant.
LEMMA ChunkStep ==
  ASSUME SerialInv, Chunk  PROVE SerialInv'
<1>0. PICK n \in 1..MaxChunk : \E cuts \in SUBSET (1..Len(d.buf) + n) :
        /\ truth' = [truth EXCEPT !.read = @ + n, !.bytes = @ + n]
        /\ d' = IF d.purpose = "recording" THEN OnChunk(d, now, n, cuts)
                ELSE [d EXCEPT !.buf = Unassembled(@ \o [i \in 1..n |-> now], cuts)]
  BY Zenon DEF Chunk
<1>1. PICK cuts \in SUBSET (1..Len(d.buf) + n) :
        /\ truth' = [truth EXCEPT !.read = @ + n, !.bytes = @ + n]
        /\ d' = IF d.purpose = "recording" THEN OnChunk(d, now, n, cuts)
                ELSE [d EXCEPT !.buf = Unassembled(@ \o [i \in 1..n |-> now], cuts)]
  BY <1>0
<1>2. /\ port.reading /\ now' = now /\ port' = port /\ device' = device /\ late' = late /\ saved' = saved
  BY DEF Chunk
<1>3. n \in Nat /\ cuts \in SUBSET (1..(Len(d.buf) + n))
  <2>1. MaxChunk \in Nat
    BY SerialAssumption
  <2> QED BY <2>1
<1>4. d.phase \in {"preflighting", "capturing"} /\ saved = Nobody /\ (d.phase = "capturing" <=> Recording)
  BY <1>2, ReadingWhen
<1>5. /\ IsDialog(d) /\ now \in Nat /\ d.buf \in Seq(Int)
      /\ truth = [read |-> truth.read, bytes |-> truth.bytes, failed |-> truth.failed]
      /\ truth.read \in Nat /\ truth.bytes \in Nat /\ truth.failed \in BOOLEAN
  BY DEF SerialInv, DeskInv, IsDialog
<1>6. /\ truth'.bytes = truth.bytes + n /\ truth'.failed = truth.failed
      /\ truth' \in [read : Nat, bytes : Nat, failed : BOOLEAN]
  <2>1. truth \in [read : Nat, bytes : Nat, failed : BOOLEAN]
    BY DEF SerialInv, DeskInv
  <2>2. truth' = [truth EXCEPT !.read = truth.read + n, !.bytes = truth.bytes + n]
    BY <1>1
  <2>3. truth.read + n \in Nat /\ truth.bytes + n \in Nat
    BY <1>3, <1>5
  <2> QED BY <2>1, <2>2, <2>3
<1>7. CASE Recording
  <2>1. d.phase = "capturing"
    BY <1>4, <1>7
  <2>2. /\ Taped(d, now) /\ Tally(d, truth) /\ d.stop = "not-observed" /\ d.verified = 0 /\ d.purpose = "recording"
        /\ (d.frozen # -1 <=> d.closed \/ d.phase = "stopping")
    BY <2>1, TapingNow DEF Taping
  <2> DEFINE y == OnChunk(d, now, n, cuts)
  <2>3. d' = y
    BY <1>1, <1>7 DEF Recording
  <2>4. d.frozen # -1 <=> d.closed
    BY <2>1, <2>2
  <2>5. /\ Taped(y, now) /\ Tally(y, truth')
        /\ Same(y, d, Input \cup {"buf", "reads", "bytes", "last"})
    BY <1>3, <1>5, <1>6, <2>2, <2>4, ChunkFacts
  <2> HIDE DEF y
  <2>6. /\ d'.phase = d.phase /\ d'.pc = d.pc /\ d'.purpose = d.purpose /\ d'.stop = d.stop
        /\ d'.verified = d.verified /\ d'.frozen = d.frozen /\ d'.closed = d.closed
    BY <2>3, <2>5 DEF Same, Fields, Input
  <2>7. ControlInv'
    BY <1>2, <2>6 DEF SerialInv, ControlInv
  <2>8. Taped(d', now') /\ Tally(d', truth')
    BY <1>2, <2>3, <2>5
  <2> QED BY <1>2, <1>4, <1>5, <1>6, <2>1, <2>2, <2>4, <2>6, <2>7, <2>8, TapingStep
<1>8. CASE ~Recording
  <2> DEFINE bytes == d.buf \o [i \in 1..n |-> now]
             rest == Unassembled(bytes, cuts)
  <2>1. d' = [d EXCEPT !.buf = rest]
    BY <1>1, <1>5, <1>8 DEF Recording, IsDialog, Fields
  <2>2. bytes \in Seq(Int) /\ Len(bytes) = Len(d.buf) + n
    <3>1. now \in Int
      BY <1>5
    <3> QED BY <1>3, <1>5, <3>1, Arrived
  <2> HIDE DEF bytes
  <2>3. cuts \in SUBSET (1..Len(bytes))
    BY <1>3, <2>2
  <2>4. rest \in Seq(Int)
    BY <2>2, <2>3, UnassembledFacts
  <2> HIDE DEF rest
  <2>5. Same(d', d, {"buf"}) /\ d'.buf = rest
    BY <1>5, <2>1 DEF IsDialog, Same, Fields
  <2>6. IsDialog(d') /\ d'.phase = d.phase /\ d'.pc = d.pc /\ d'.purpose = d.purpose
    BY <1>5, <2>4, <2>5 DEF IsDialog, Same, Fields
  <2>7. ControlInv'
    BY <1>2, <2>6 DEF SerialInv, ControlInv
  <2>8. d.phase = "preflighting" /\ d.purpose = "preflight"
    BY <1>4, <1>8 DEF SerialInv, DeskInv
  <2>9. ~Taping' /\ IsDialog(d)'
    BY <2>6, <2>8 DEF Taping
  <2> QED BY <1>2, <1>4, <1>5, <1>6, <2>6, <2>7, <2>8, <2>9, IdleStep DEF SerialInv
<1> QED BY <1>7, <1>8

-----------------------------------------------------------------------------
(* Finalisation: the events that say how the recording ended *)

Kind(e) ==
  IF NotesLimit(e) THEN "limit"
  ELSE IF e.type = "shutdown-unconfirmed" THEN "shutdown"
  ELSE IF e.type = "serial-counter-mismatch" THEN "mismatch"
  ELSE "plain"

\* r has at most one event of a kind, and none unless it is needed.
Few(r, kind, needed) ==
  /\ \A i, j \in 1..Len(r.events) : Kind(r.events[i]) = kind /\ Kind(r.events[j]) = kind => i = j
  /\ \A i \in 1..Len(r.events) : Kind(r.events[i]) = kind => needed

Told(r, ok, kind, needed) ==
  /\ Few(r, kind, needed)
  /\ needed /\ r.complete /\ ok => \E i \in 1..Len(r.events) : Kind(r.events[i]) = kind

IsClosing(e) == e.at = Session /\ Kind(e) \in {"limit", "shutdown", "mismatch"}

FinalOk(s, end) ==
  /\ \A i \in 1..Len(s) : IsEvent(s[i]) /\ (IsLive(s[i], end) \/ IsClosing(s[i]))
  /\ \A i, j \in 1..Len(s) : i < j /\ IsLive(s[i], end) /\ IsLive(s[j], end) => s[i].at <= s[j].at

Details(r, detail) == \A i \in 1..Len(r.events) : Kind(r.events[i]) = "mismatch" => r.events[i].detail = detail

\* q is r with at most some events more, which r would have had if its log were complete.
Extends(q, r) ==
  /\ q.records = r.records /\ q.bytes = r.bytes /\ q.last = r.last
  /\ Len(r.events) <= Len(q.events) /\ (q.complete => r.complete)

\* A closing event is appended, or the log is marked as incomplete; what the log said before stays.
LEMMA ClosingAppended ==
  ASSUME NEW r, NEW e, IsRecorder(r), IsEvent(e), IsClosing(e), NEW end \in Int, FinalOk(r.events, end)
  PROVE  LET q == AppendEvent(r, e, TRUE) IN
         /\ IsRecorder(q) /\ Extends(q, r) /\ FinalOk(q.events, end)
         /\ \A kind, needed : kind # Kind(e) /\ Few(r, kind, needed) => Few(q, kind, needed)
         /\ \A kind, ok, needed : kind # Kind(e) /\ Told(r, ok, kind, needed) => Told(q, ok, kind, needed)
         /\ (\A i \in 1..Len(r.events) : Kind(r.events[i]) # Kind(e)) => \A ok : Told(q, ok, Kind(e), TRUE)
         /\ Kind(e) # "mismatch" => \A detail : Details(r, detail) => Details(q, detail)
         /\ Details(r, e.detail) => Details(q, e.detail)
<1> DEFINE q == AppendEvent(r, e, TRUE)
           s == r.events
           u == q.events
<1>0. TRUE \in BOOLEAN
  OBVIOUS
<1>1. /\ IsRecorder(q)
      /\ q.records = r.records /\ q.bytes = r.bytes /\ q.last = r.last
      /\ \/ q.events = Append(r.events, e) /\ Len(q.events) = Len(r.events) + 1 /\ q.complete = r.complete
         \/ q.events = r.events /\ ~q.complete
  BY <1>0, AppendEventFacts
<1> HIDE DEF q
<1>2. IsSeq(s) /\ Len(s) \in Nat
  BY DEF IsRecorder, IsSeq
<1>3. CASE u = s /\ ~q.complete
  <2>1. Extends(q, r) /\ FinalOk(u, end)
    BY <1>1, <1>2, <1>3 DEF Extends
  <2>2. \A kind, needed : Few(q, kind, needed) <=> Few(r, kind, needed)
    BY <1>3 DEF Few
  <2>3. \A kind, ok, needed : Told(r, ok, kind, needed) => Told(q, ok, kind, needed)
    BY <1>3, <2>2 DEF Told
  <2>4. ASSUME \A i \in 1..Len(s) : Kind(s[i]) # Kind(e), NEW ok  PROVE Told(q, ok, Kind(e), TRUE)
    <3>1. Few(r, Kind(e), TRUE)
      BY <2>4 DEF Few
    <3> QED BY <1>3, <2>2, <3>1 DEF Told
  <2>5. \A detail : Details(r, detail) => Details(q, detail)
    BY <1>3 DEF Details
  <2> QED BY <1>1, <2>1, <2>2, <2>3, <2>4, <2>5 DEF q
<1>4. CASE u = Append(s, e) /\ q.complete = r.complete
  <2>1. Len(u) = Len(s) + 1 /\ u[Len(s) + 1] = e /\ \A i \in 1..Len(s) : u[i] = s[i]
    BY <1>2, <1>4, AppendTo
  <2> DEFINE n == Len(s)
  <2>2. n \in Nat /\ Len(u) = n + 1 /\ u[n + 1] = e /\ \A i \in 1..n : u[i] = s[i]
    BY <1>2, <2>1
  <2> HIDE DEF s, u, n
  <2>3. \A i \in 1..(n + 1) : i = n + 1 \/ i \in 1..n
    BY <2>2
  <2>4. n + 1 \in 1..(n + 1) /\ \A i \in 1..n : i \in 1..(n + 1) /\ i < n + 1
    BY <2>2
  <2>5. /\ \A i \in 1..n : IsEvent(s[i]) /\ (IsLive(s[i], end) \/ IsClosing(s[i]))
        /\ \A i, j \in 1..n : i < j /\ IsLive(s[i], end) /\ IsLive(s[j], end) => s[i].at <= s[j].at
    BY DEF FinalOk, s, n
  <2>6. ~IsLive(e, end)
    BY DEF IsLive, IsClosing, Session
  <2>7. FinalOk(u, end)
    <3>1. \A i \in 1..Len(u) : IsEvent(u[i]) /\ (IsLive(u[i], end) \/ IsClosing(u[i]))
      BY <2>2, <2>3, <2>5
    <3>2. ASSUME NEW i \in 1..Len(u), NEW j \in 1..Len(u), i < j, IsLive(u[i], end), IsLive(u[j], end)
          PROVE  u[i].at <= u[j].at
      <4>1. i \in 1..n /\ j \in 1..n
        BY <2>2, <2>3, <2>6, <3>2
      <4> QED BY <2>2, <2>5, <3>2, <4>1
    <3> QED BY <3>1, <3>2 DEF FinalOk
  <2>8. ASSUME NEW kind, NEW needed, kind # Kind(e), Few(r, kind, needed)  PROVE Few(q, kind, needed)
    <3>1. /\ \A i, j \in 1..n : Kind(s[i]) = kind /\ Kind(s[j]) = kind => i = j
          /\ \A i \in 1..n : Kind(s[i]) = kind => needed
      BY <2>8 DEF Few, s, n
    <3>2. \A i \in 1..(n + 1) : Kind(u[i]) = kind => i \in 1..n
      BY <2>2, <2>3, <2>8
    <3>3. \A i, j \in 1..(n + 1) : Kind(u[i]) = kind /\ Kind(u[j]) = kind => i = j
      BY <2>2, <3>1, <3>2
    <3>4. \A i \in 1..(n + 1) : Kind(u[i]) = kind => needed
      BY <2>2, <3>1, <3>2
    <3> QED BY <2>2, <3>3, <3>4 DEF Few, u
  <2>9. ASSUME NEW kind, NEW ok, NEW needed, kind # Kind(e), Told(r, ok, kind, needed)  PROVE Told(q, ok, kind, needed)
    <3>1. Few(q, kind, needed)
      BY <2>8, <2>9 DEF Told
    <3>2. ASSUME needed, q.complete, ok  PROVE \E i \in 1..(n + 1) : Kind(u[i]) = kind
      <4>1. PICK i \in 1..n : Kind(s[i]) = kind
        BY <1>4, <2>9, <3>2 DEF Told, s, n
      <4> QED BY <2>2, <2>4, <4>1
    <3> QED BY <2>2, <3>1, <3>2 DEF Told, u
  <2>10. ASSUME \A i \in 1..n : Kind(s[i]) # Kind(e), NEW ok  PROVE Told(q, ok, Kind(e), TRUE)
    <3>1. \A i \in 1..(n + 1) : Kind(u[i]) = Kind(e) <=> i = n + 1
      BY <2>2, <2>3, <2>10
    <3>2. Few(q, Kind(e), TRUE)
      BY <2>2, <3>1 DEF Few, u
    <3>3. \E i \in 1..(n + 1) : Kind(u[i]) = Kind(e)
      BY <2>4, <3>1
    <3> QED BY <2>2, <3>2, <3>3 DEF Told, u
  <2>11. ASSUME NEW detail, Details(r, detail), Kind(e) = "mismatch" => e.detail = detail  PROVE Details(q, detail)
    <3>1. \A i \in 1..n : Kind(s[i]) = "mismatch" => s[i].detail = detail
      BY <2>11 DEF Details, s, n
    <3>2. \A i \in 1..(n + 1) : Kind(u[i]) = "mismatch" => u[i].detail = detail
      BY <2>2, <2>3, <2>11, <3>1
    <3> QED BY <2>2, <3>2 DEF Details, u
  <2>12. Extends(q, r)
    BY <1>1, <1>4, <2>2 DEF Extends, s, u, n
  <2> QED BY <1>1, <2>7, <2>8, <2>9, <2>10, <2>11, <2>12 DEF s, u, n, q
<1> QED BY <1>1, <1>3, <1>4

\* The evidence of a serial recording, as its finalisation hands it to the recorder.
SerialEvidence(ev) ==
  /\ ev.source = "serial" /\ ev.stop \in {"confirmed", "unconfirmed"} /\ ev.reported = NotReported
  /\ ev.codes \in {{}, {"duration-capped"}} /\ ev.journal = NoJournal /\ ev.complete \in BOOLEAN

\* What the operators of the recorder make of the evidence of a serial recording.
LEMMA EvidenceFacts ==
  ASSUME NEW ev, SerialEvidence(ev)
  PROVE  /\ ~Drops(ev) /\ Reported(ev) = NotReported /\ DropCodes(ev) = ev.codes
         /\ Basis(ev) = "web-serial-observed" /\ StopOf(ev) = ev.stop /\ MismatchType(ev) = "serial-counter-mismatch"
         /\ \A r : WithDrops(r, ev) = r /\ (Reconciled(r, ev) <=> r.bytes = ev.observed[2])
                   /\ (Mismatch(r, ev) <=> r.bytes # ev.observed[2])
                   /\ ProvenanceCodes(r, ev) = {}
         /\ ~Incomplete({})
<1>1. ~Drops(ev)
  BY DEF SerialEvidence, Drops, NoJournal, Null
<1>2. Reported(ev) = NotReported
  BY DEF SerialEvidence, Reported, NoJournal
<1>3. Basis(ev) = "web-serial-observed"
  <2>1. ev.source = "serial"
    BY DEF SerialEvidence
  <2> QED BY <2>1 DEF Basis
<1>4. StopOf(ev) = ev.stop
  BY <1>3 DEF StopOf
<1>5. \A r : WithDrops(r, ev) = r
  BY <1>1 DEF WithDrops, Once
<1>6. \A r : /\ (Reconciled(r, ev) <=> r.bytes = ev.observed[2])
             /\ (Mismatch(r, ev) <=> r.bytes # ev.observed[2])
  BY DEF SerialEvidence, Reconciled, Mismatch
<1>7. \A r : ProvenanceCodes(r, ev) = {}
  BY DEF SerialEvidence, ProvenanceCodes
<1>8. DropCodes(ev) = ev.codes /\ MismatchType(ev) = "serial-counter-mismatch" /\ ~Incomplete({})
  BY <1>1 DEF DropCodes, MismatchType, Incomplete, SerialEvidence
<1> QED BY <1>1, <1>2, <1>3, <1>4, <1>5, <1>6, <1>7, <1>8

\* What finalize appends says once, and exactly when it is so, that the close failed and that the
\* counters disagree; or the log is incomplete.
LEMMA ClosedFacts ==
  ASSUME NEW r, IsRecorder(r), NEW ev, SerialEvidence(ev), NEW end \in Int, FinalOk(r.events, end),
         NEW ok, NEW limited, Told(r, ok, "limit", limited),
         Few(r, "shutdown", ev.stop = "unconfirmed"), Few(r, "mismatch", FALSE)
  PROVE  LET c == Closed(r, ev) IN
         /\ IsRecorder(c) /\ Extends(c, r) /\ FinalOk(c.events, end)
         /\ Told(c, ok, "limit", limited)
         /\ Told(c, ok, "shutdown", ev.stop = "unconfirmed")
         /\ Told(c, ok, "mismatch", Mismatch(r, ev))
         /\ Details(c, <<NotReported, ev.observed, <<r.records, r.bytes>>>>)
<1> DEFINE counters == <<NotReported, ev.observed, <<r.records, r.bytes>>>>
           shut == Event("shutdown-unconfirmed", Session, <<>>)
           wrong == Event("serial-counter-mismatch", Session, counters)
           p == Once(r, ev.stop = "unconfirmed", shut)
           c == Closed(r, ev)
<1>1. /\ StopOf(ev) = ev.stop /\ MismatchType(ev) = "serial-counter-mismatch" /\ Reported(ev) = NotReported
      /\ WithDrops(r, ev) = r
  BY EvidenceFacts
<1>2. c = Once(p, Mismatch(r, ev), wrong)
  BY <1>1 DEF Closed
<1>3. /\ IsEvent(shut) /\ IsClosing(shut) /\ Kind(shut) = "shutdown" /\ shut.type = "shutdown-unconfirmed"
      /\ IsEvent(wrong) /\ IsClosing(wrong) /\ Kind(wrong) = "mismatch" /\ wrong.type = "serial-counter-mismatch"
      /\ wrong.detail = counters
  BY DEF Event, IsEvent, IsClosing, Kind, NotesLimit, Session
<1> HIDE DEF shut, wrong, counters, c
<1>4. ASSUME NEW q, IsRecorder(q)
      PROVE  /\ Has(q, "shutdown-unconfirmed") <=> \E i \in 1..Len(q.events) : Kind(q.events[i]) = "shutdown"
             /\ Has(q, "serial-counter-mismatch") <=> \E i \in 1..Len(q.events) : Kind(q.events[i]) = "mismatch"
  <2>1. DOMAIN q.events = 1..Len(q.events)
    BY <1>4 DEF IsRecorder, IsSeq
  <2> QED BY <2>1 DEF Has, Kind, NotesLimit
<1>5. /\ IsRecorder(p) /\ Extends(p, r) /\ FinalOk(p.events, end) /\ Told(p, ok, "limit", limited)
      /\ Told(p, ok, "shutdown", ev.stop = "unconfirmed") /\ Few(p, "mismatch", FALSE)
  <2>1. CASE ev.stop = "unconfirmed" /\ ~Has(r, "shutdown-unconfirmed")
    <3>1. p = AppendEvent(r, shut, TRUE)
      BY <1>3, <2>1 DEF Once
    <3> HIDE DEF p
    <3>2. \A i \in 1..Len(r.events) : Kind(r.events[i]) # "shutdown"
      BY <1>4, <2>1
    <3>3. Told(p, ok, "shutdown", TRUE)
      BY <1>3, <3>1, <3>2, ClosingAppended
    <3>4. /\ IsRecorder(p) /\ Extends(p, r) /\ FinalOk(p.events, end) /\ Told(p, ok, "limit", limited)
          /\ Few(p, "mismatch", FALSE)
      BY <1>3, <3>1, ClosingAppended
    <3> QED BY <2>1, <3>3, <3>4 DEF Told, Few
  <2>2. CASE ~(ev.stop = "unconfirmed" /\ ~Has(r, "shutdown-unconfirmed"))
    <3>1. p = r
      BY <1>3, <2>2 DEF Once
    <3>2. ev.stop = "unconfirmed" => \E i \in 1..Len(r.events) : Kind(r.events[i]) = "shutdown"
      BY <1>4, <2>2
    <3>3. Extends(r, r)
      BY DEF Extends, IsRecorder, IsSeq
    <3> QED BY <3>1, <3>2, <3>3 DEF Told
  <2> QED BY <2>1, <2>2
<1> HIDE DEF p
<1>6. \A i \in 1..Len(p.events) : Kind(p.events[i]) # "mismatch"
  BY <1>5 DEF Few
<1>7. Details(p, counters)
  BY <1>6 DEF Details
<1>8. /\ IsRecorder(c) /\ Extends(c, p) /\ FinalOk(c.events, end) /\ Told(c, ok, "limit", limited)
      /\ Told(c, ok, "shutdown", ev.stop = "unconfirmed") /\ Told(c, ok, "mismatch", Mismatch(r, ev))
      /\ Details(c, counters)
  <2>1. ~Has(p, "serial-counter-mismatch")
    BY <1>4, <1>5, <1>6
  <2>2. CASE Mismatch(r, ev)
    <3>1. c = AppendEvent(p, wrong, TRUE)
      BY <1>2, <1>3, <2>1, <2>2 DEF Once
    <3>2. Told(c, ok, "mismatch", TRUE)
      BY <1>3, <1>5, <1>6, <3>1, ClosingAppended
    <3>3. /\ IsRecorder(c) /\ Extends(c, p) /\ FinalOk(c.events, end) /\ Told(c, ok, "limit", limited)
          /\ Told(c, ok, "shutdown", ev.stop = "unconfirmed") /\ Details(c, counters)
      BY <1>3, <1>5, <1>7, <3>1, ClosingAppended
    <3> QED BY <2>2, <3>2, <3>3 DEF Told, Few
  <2>3. CASE ~Mismatch(r, ev)
    <3>1. c = p
      BY <1>2, <2>3 DEF Once
    <3>2. Extends(p, p)
      BY <1>5 DEF Extends, IsRecorder, IsSeq
    <3>3. Told(p, ok, "mismatch", FALSE)
      BY <1>5 DEF Told
    <3> QED BY <1>5, <1>7, <2>3, <3>1, <3>2, <3>3 DEF Told, Few
  <2> QED BY <2>2, <2>3
<1>9. Extends(c, r)
  <2>1. Len(r.events) \in Nat /\ Len(p.events) \in Nat /\ Len(c.events) \in Nat
    BY <1>5, <1>8 DEF IsRecorder, IsSeq
  <2> QED BY <1>5, <1>8, <2>1 DEF Extends
<1> QED BY <1>8, <1>9 DEF c, counters

\* The type of an event tells its kind.
LEMMA ShownKinds ==
  ASSUME NEW e, NEW end \in Int, IsEvent(e), IsLive(e, end) \/ IsClosing(e)
  PROVE  /\ e.type = "shutdown-unconfirmed" <=> Kind(e) = "shutdown"
         /\ e.type = "serial-counter-mismatch" <=> Kind(e) = "mismatch"
         /\ NotesLimit(e) <=> Kind(e) = "limit"
         /\ e.type \in LiveTypes \cup {"shutdown-unconfirmed", "serial-counter-mismatch"}
BY DEF Kind, NotesLimit, IsLive, IsClosing, LiveTypes

\* The document a serial capture is finalised to.
LEMMA DocumentFacts ==
  ASSUME NEW c, NEW requested, NEW ev, SerialEvidence(ev)
  PROVE  LET doc == Document(c, requested, ev) IN
         /\ doc.source = "serial" /\ doc.duration = FinalDuration(c, requested) /\ doc.last = c.last
         /\ doc.records = c.records /\ doc.bytes = c.bytes /\ doc.events = c.events
         /\ doc.basis = "web-serial-observed" /\ doc.stop = ev.stop /\ doc.stopOffset = ev.stopOffset
         /\ doc.complete = (c.complete /\ ev.complete) /\ doc.observed = ev.observed /\ doc.reported = NotReported
         /\ doc.codes = Codes(c, ev) /\ doc.journal = NoJournal /\ doc.provStatus = "verified"
         /\ doc.status = IF Verified(c, ev) THEN "verified" ELSE "incomplete"
<1>1. /\ Basis(ev) = "web-serial-observed" /\ StopOf(ev) = ev.stop /\ Reported(ev) = NotReported
      /\ ProvenanceCodes(c, ev) = {} /\ ~Incomplete({})
  BY EvidenceFacts
<1>2. ev.source = "serial" /\ ev.journal = NoJournal
  BY DEF SerialEvidence
<1>3. ~Incomplete(ProvenanceCodes(c, ev))
  BY <1>1
<1>4. Codes(c, ev) \cup {} = Codes(c, ev)
  OBVIOUS
<1> QED BY <1>1, <1>2, <1>3, <1>4 DEF Document, LogComplete

\* The codes of a receipt are those of its events, of its evidence and of an incomplete log.
LEMMA CodesFacts ==
  ASSUME NEW c, IsRecorder(c), NEW ev, SerialEvidence(ev), NEW end \in Int, FinalOk(c.events, end)
  PROVE  /\ DOMAIN c.events = 1..Len(c.events)
         /\ \A i \in 1..Len(c.events) : c.events[i].type \in Codes(c, ev)
         /\ "event-log-incomplete" \in Codes(c, ev) <=> ~(c.complete /\ ev.complete)
         /\ "duration-capped" \in Codes(c, ev) <=> ev.codes # {}
         /\ "serial-counter-mismatch" \in Codes(c, ev)
              <=> Mismatch(c, ev) \/ \E i \in 1..Len(c.events) : Kind(c.events[i]) = "mismatch"
         /\ "shutdown-unconfirmed" \in Codes(c, ev)
              <=> ev.stop = "unconfirmed" \/ \E i \in 1..Len(c.events) : Kind(c.events[i]) = "shutdown"
         /\ "udp-kernel-drops-observed" \notin Codes(c, ev)
         /\ "transport-provenance-incomplete" \notin Codes(c, ev)
         /\ \A code \in Codes(c, ev) \cap EventCodes :
              \/ \E i \in 1..Len(c.events) : c.events[i].type = code
              \/ code = "serial-counter-mismatch" /\ Mismatch(c, ev)
              \/ code = "shutdown-unconfirmed" /\ ev.stop = "unconfirmed"
<1> DEFINE n == Len(c.events)
           types == {c.events[i].type : i \in 1..n}
<1>1. DOMAIN c.events = 1..n
  BY DEF IsRecorder, IsSeq
<1>2. /\ DropCodes(ev) = ev.codes /\ StopOf(ev) = ev.stop /\ MismatchType(ev) = "serial-counter-mismatch"
      /\ ev.codes \in {{}, {"duration-capped"}}
  BY EvidenceFacts DEF SerialEvidence
<1>3. \A code : code \in Codes(c, ev) <=>
        \/ code \in ev.codes
        \/ \E i \in 1..n : c.events[i].type = code
        \/ code = "event-log-incomplete" /\ ~(c.complete /\ ev.complete)
        \/ code = "serial-counter-mismatch" /\ Mismatch(c, ev)
        \/ code = "shutdown-unconfirmed" /\ ev.stop = "unconfirmed"
  BY <1>1, <1>2 DEF Codes, LogComplete
<1>4. \A i \in 1..n : /\ c.events[i].type = "shutdown-unconfirmed" <=> Kind(c.events[i]) = "shutdown"
                      /\ c.events[i].type = "serial-counter-mismatch" <=> Kind(c.events[i]) = "mismatch"
                      /\ c.events[i].type \in LiveTypes \cup {"shutdown-unconfirmed", "serial-counter-mismatch"}
  BY ShownKinds DEF FinalOk
<1> HIDE DEF n
<1>5. \A code \in {"event-log-incomplete", "duration-capped", "udp-kernel-drops-observed", "transport-provenance-incomplete"} :
        \A i \in 1..n : c.events[i].type # code
  BY <1>4 DEF LiveTypes
<1>6. \A code \in ev.codes : code = "duration-capped"
  BY <1>2
<1>7. "event-log-incomplete" \in Codes(c, ev) <=> ~(c.complete /\ ev.complete)
  BY <1>3, <1>5, <1>6
<1>8. "duration-capped" \in Codes(c, ev) <=> ev.codes # {}
  BY <1>2, <1>3, <1>5, <1>6
<1>9. "udp-kernel-drops-observed" \notin Codes(c, ev) /\ "transport-provenance-incomplete" \notin Codes(c, ev)
  BY <1>3, <1>5, <1>6
<1>10. /\ "serial-counter-mismatch" \in Codes(c, ev)
            <=> Mismatch(c, ev) \/ \E i \in 1..n : Kind(c.events[i]) = "mismatch"
       /\ "shutdown-unconfirmed" \in Codes(c, ev)
            <=> ev.stop = "unconfirmed" \/ \E i \in 1..n : Kind(c.events[i]) = "shutdown"
  BY <1>3, <1>4, <1>6
<1>11. ASSUME NEW code \in Codes(c, ev) \cap EventCodes
       PROVE  \/ \E i \in 1..n : c.events[i].type = code
              \/ code = "serial-counter-mismatch" /\ Mismatch(c, ev)
              \/ code = "shutdown-unconfirmed" /\ ev.stop = "unconfirmed"
  <2>1. code # "duration-capped" /\ code # "event-log-incomplete"
    BY DEF EventCodes
  <2> QED BY <1>3, <1>6, <2>1
<1>12. \A i \in 1..n : c.events[i].type \in Codes(c, ev)
  BY <1>3
<1> QED BY <1>1, <1>7, <1>8, <1>9, <1>10, <1>11, <1>12 DEF n

\* What the dialog collects about a serial capture is a document its validator accepts.
LEMMA AcceptedFacts ==
  ASSUME NEW c, IsRecorder(c), NEW ev, SerialEvidence(ev), NEW end \in Int, FinalOk(c.events, end),
         NEW requested \in Int, end <= requested, requested >= 1, ev.stopOffset = requested,
         Told(c, ev.complete, "limit", ev.codes # {}),
         Told(c, ev.complete, "shutdown", ev.stop = "unconfirmed"),
         Told(c, ev.complete, "mismatch", Mismatch(c, ev)),
         Details(c, <<NotReported, ev.observed, <<c.records, c.bytes>>>>)
  PROVE  Accepted(Document(c, requested, ev))
<1> DEFINE doc == Document(c, requested, ev)
           n == Len(c.events)
<1>1. /\ doc.source = "serial" /\ doc.duration = FinalDuration(c, requested) /\ doc.last = c.last
      /\ doc.records = c.records /\ doc.bytes = c.bytes /\ doc.events = c.events
      /\ doc.basis = "web-serial-observed" /\ doc.stop = ev.stop /\ doc.stopOffset = requested
      /\ doc.complete = (c.complete /\ ev.complete) /\ doc.observed = ev.observed /\ doc.reported = NotReported
      /\ doc.codes = Codes(c, ev) /\ doc.journal = NoJournal /\ doc.provStatus = "verified"
      /\ doc.status = IF Verified(c, ev) THEN "verified" ELSE "incomplete"
  BY DocumentFacts
<1> HIDE DEF doc
<1>2. /\ DOMAIN c.events = 1..n
      /\ \A i \in 1..n : c.events[i].type \in Codes(c, ev)
      /\ "event-log-incomplete" \in Codes(c, ev) <=> ~(c.complete /\ ev.complete)
      /\ "duration-capped" \in Codes(c, ev) <=> ev.codes # {}
      /\ "serial-counter-mismatch" \in Codes(c, ev)
           <=> Mismatch(c, ev) \/ \E i \in 1..n : Kind(c.events[i]) = "mismatch"
      /\ "shutdown-unconfirmed" \in Codes(c, ev)
           <=> ev.stop = "unconfirmed" \/ \E i \in 1..n : Kind(c.events[i]) = "shutdown"
      /\ "udp-kernel-drops-observed" \notin Codes(c, ev)
      /\ "transport-provenance-incomplete" \notin Codes(c, ev)
      /\ \A code \in Codes(c, ev) \cap EventCodes :
           \/ \E i \in 1..n : c.events[i].type = code
           \/ code = "serial-counter-mismatch" /\ Mismatch(c, ev)
           \/ code = "shutdown-unconfirmed" /\ ev.stop = "unconfirmed"
  BY CodesFacts
<1>3. \A i \in 1..n : /\ c.events[i].type = "shutdown-unconfirmed" <=> Kind(c.events[i]) = "shutdown"
                      /\ c.events[i].type = "serial-counter-mismatch" <=> Kind(c.events[i]) = "mismatch"
                      /\ NotesLimit(c.events[i]) <=> Kind(c.events[i]) = "limit"
                      /\ c.events[i].type \in LiveTypes \cup {"shutdown-unconfirmed", "serial-counter-mismatch"}
  BY ShownKinds DEF FinalOk
<1>4. n \in Nat /\ c.records \in Nat /\ c.last \in Int /\ c.records + n <= FileUnits /\ IsSeq(c.events)
      /\ c.complete \in BOOLEAN
  BY DEF IsRecorder, IsSeq
<1>5. ev.complete \in BOOLEAN /\ ev.stop \in {"confirmed", "unconfirmed"}
  BY DEF SerialEvidence
<1>6. /\ \A kind : Few(c, kind, TRUE) => \A i, j \in 1..n : Kind(c.events[i]) = kind /\ Kind(c.events[j]) = kind => i = j
      /\ \A i \in 1..n : Kind(c.events[i]) = "limit" => ev.codes # {}
      /\ \A i \in 1..n : Kind(c.events[i]) = "shutdown" => ev.stop = "unconfirmed"
      /\ \A i \in 1..n : Kind(c.events[i]) = "mismatch" => Mismatch(c, ev)
  BY DEF Told, Few
<1>7. ASSUME c.complete, ev.complete
      PROVE  /\ ev.codes # {} => \E i \in 1..n : Kind(c.events[i]) = "limit"
             /\ ev.stop = "unconfirmed" => \E i \in 1..n : Kind(c.events[i]) = "shutdown"
             /\ Mismatch(c, ev) => \E i \in 1..n : Kind(c.events[i]) = "mismatch"
  BY <1>7 DEF Told
<1>8. \A i, j \in 1..n : Kind(c.events[i]) = Kind(c.events[j]) /\ Kind(c.events[i]) \in {"limit", "shutdown", "mismatch"} => i = j
  BY DEF Told, Few
<1>9. /\ FinalDuration(c, requested) \in Int /\ FinalDuration(c, requested) >= requested
      /\ FinalDuration(c, requested) >= c.last + 1
  <2>1. \E z \in {1, requested, c.last + 1} : \A y \in {1, requested, c.last + 1} : y <= z
    BY <1>4
  <2>2. /\ Top({1, requested, c.last + 1}) \in {1, requested, c.last + 1}
        /\ \A y \in {1, requested, c.last + 1} : y <= Top({1, requested, c.last + 1})
    BY <2>1, TopFacts
  <2> QED BY <1>4, <2>2 DEF FinalDuration
<1> HIDE DEF n
<1>10. doc.last < doc.duration /\ doc.stopOffset <= doc.duration
  BY <1>1, <1>4, <1>9
<1>11. EventsInTime(doc)
  <2>1. \A i \in 1..n : IsEvent(c.events[i]) /\ (IsLive(c.events[i], end) \/ IsClosing(c.events[i]))
    BY DEF FinalOk, n
  <2>2. \A i, j \in 1..n : i < j /\ IsLive(c.events[i], end) /\ IsLive(c.events[j], end) => c.events[i].at <= c.events[j].at
    BY DEF FinalOk, n
  <2>3. ASSUME NEW i \in 1..n  PROVE c.events[i].at < doc.duration
    <3>1. c.events[i].at \in Int /\ (c.events[i].at < end \/ c.events[i].at = Session)
      BY <2>1 DEF IsEvent, IsLive, IsClosing
    <3> QED BY <1>1, <1>9, <3>1 DEF Session
  <2>4. ASSUME NEW i \in 1..n, NEW j \in 1..n, i < j, Session \notin {c.events[i].at, c.events[j].at}
        PROVE  c.events[i].at <= c.events[j].at
    <3>1. IsLive(c.events[i], end) /\ IsLive(c.events[j], end)
      BY <2>1, <2>4 DEF IsClosing
    <3> QED BY <2>2, <2>4, <3>1
  <2> QED BY <1>1, <1>2, <2>3, <2>4 DEF EventsInTime
<1>12. \A code : Typed(doc, code) = {i \in 1..n : c.events[i].type = code}
  BY <1>1, <1>2 DEF Typed
<1>13. EventsAreCoded(doc)
  <2>1. \A i \in DOMAIN doc.events : doc.events[i].type \in doc.codes
    BY <1>1, <1>2
  <2>2. doc.complete = ("event-log-incomplete" \notin doc.codes)
    BY <1>1, <1>2, <1>4, <1>5
  <2>3. ASSUME doc.complete, NEW code \in doc.codes \cap EventCodes  PROVE Typed(doc, code) # {}
    <3>1. c.complete /\ ev.complete
      BY <1>1, <2>3
    <3>2. \E i \in 1..n : c.events[i].type = code
      BY <1>1, <1>2, <1>3, <1>7, <2>3, <3>1
    <3> QED BY <1>12, <3>2
  <2> QED BY <2>1, <2>2, <2>3 DEF EventsAreCoded
<1>14. ShutdownAgrees(doc)
  <2> DEFINE S == {i \in 1..n : c.events[i].type = "shutdown-unconfirmed"}
  <2>1. Typed(doc, "shutdown-unconfirmed") = S
    BY <1>12
  <2>2. One(S)
    BY <1>3, <1>8 DEF One
  <2>3. doc.complete /\ doc.stop = "unconfirmed" => S # {}
    BY <1>1, <1>3, <1>7
  <2>4. doc.stop # "unconfirmed" => S = {}
    BY <1>1, <1>3, <1>6
  <2>5. (doc.stop = "unconfirmed") <=> ("shutdown-unconfirmed" \in doc.codes)
    BY <1>1, <1>2, <1>6
  <2> HIDE DEF S
  <2> QED BY <2>1, <2>2, <2>3, <2>4, <2>5 DEF ShutdownAgrees, Represented
<1>15. DurationAgrees(doc)
  <2> DEFINE S == {i \in 1..n : NotesLimit(c.events[i])}
  <2>1. {i \in Typed(doc, "capture-limit") : doc.events[i].detail = <<"duration">>} = S
    BY <1>1, <1>12 DEF NotesLimit
  <2>2. One(S)
    BY <1>3, <1>8 DEF One
  <2>3. doc.complete /\ "duration-capped" \in doc.codes => S # {}
    BY <1>1, <1>2, <1>3, <1>7
  <2>4. "duration-capped" \notin doc.codes => S = {}
    BY <1>1, <1>2, <1>3, <1>6
  <2> HIDE DEF S
  <2> QED BY <2>1, <2>2, <2>3, <2>4 DEF DurationAgrees, Represented
<1>16. Mismatch(c, ev) <=> c.bytes # ev.observed[2]
  BY EvidenceFacts
<1>17. CountersAgree(doc)
  <2> DEFINE S == {i \in 1..n : c.events[i].type = "serial-counter-mismatch"}
  <2>1. Typed(doc, "serial-counter-mismatch") = S
    BY <1>12
  <2>2. One(S)
    BY <1>3, <1>8 DEF One
  <2>3. doc.complete /\ Mismatch(c, ev) => S # {}
    BY <1>1, <1>3, <1>7
  <2>4. ~Mismatch(c, ev) => S = {} /\ "serial-counter-mismatch" \notin doc.codes
    BY <1>1, <1>2, <1>3, <1>6
  <2>5. Mismatch(c, ev) => "serial-counter-mismatch" \in doc.codes
    BY <1>1, <1>2
  <2>6. \A i \in S : doc.events[i].detail = <<doc.reported, doc.observed, <<doc.records, doc.bytes>>>>
    BY <1>1, <1>3 DEF Details, n
  <2> HIDE DEF S
  <2> QED BY <1>1, <1>16, <2>1, <2>2, <2>3, <2>4, <2>5, <2>6 DEF CountersAgree, Represented
<1>18. StatusAgrees(doc)
  <2>1. StopOf(ev) = ev.stop /\ Basis(ev) = "web-serial-observed" /\ (Reconciled(c, ev) <=> c.bytes = ev.observed[2])
    BY EvidenceFacts
  <2>2. Verified(c, ev) <=> ev.stop = "confirmed" /\ c.complete /\ ev.complete /\ Reconciled(c, ev) /\ Codes(c, ev) = {}
    BY <2>1 DEF Verified, LogComplete
  <2>3. Codes(c, ev) = {} => Reconciled(c, ev) /\ c.events = <<>>
    <3>1. ASSUME Codes(c, ev) = {}  PROVE Reconciled(c, ev)
      BY <1>2, <1>16, <2>1, <3>1
    <3>2. ASSUME Codes(c, ev) = {}  PROVE c.events = <<>>
      <4>1. n = 0
        <5>1. \A i \in 1..n : FALSE
          BY <1>2, <3>2
        <5> QED BY <1>4, <5>1
      <4> QED BY <1>4, <4>1 DEF IsSeq, n
    <3> QED BY <3>1, <3>2
  <2>4. Verified(c, ev) <=> doc.stop = "confirmed" /\ doc.complete /\ doc.codes = {} /\ doc.events = <<>>
    BY <1>1, <1>4, <1>5, <2>2, <2>3
  <2>5. doc.status = "verified" <=> Verified(c, ev)
    BY <1>1
  <2> QED BY <2>4, <2>5 DEF StatusAgrees
<1>19. JournalFits(doc)
  BY <1>1 DEF JournalFits, NoJournal
<1>20. DropsAgree(doc)
  <2>1. Typed(doc, "udp-kernel-drops-observed") = {}
    BY <1>3, <1>12 DEF LiveTypes
  <2>2. ~(doc.journal.drops > 0)
    BY <1>1 DEF NoJournal, Null
  <2> QED BY <1>1, <1>2, <2>1, <2>2 DEF DropsAgree
<1>21. (doc.provStatus = "incomplete") = ("transport-provenance-incomplete" \in doc.codes)
  BY <1>1, <1>2
<1>22. doc.records + Len(doc.events) <= FileUnits
  BY <1>1, <1>4 DEF n
<1> QED BY <1>10, <1>11, <1>13, <1>14, <1>15, <1>17, <1>18, <1>19, <1>20, <1>21, <1>22 DEF Accepted, doc

\* What finalizeRetainedCapture makes of a serial recording that has ended.
LEMMA AttemptFacts ==
  ASSUME NEW x, NEW t \in Int, Taped(x, t), x.frozen # -1, x.stop \in {"confirmed", "unconfirmed"},
         NEW duration \in Int, x.frozen <= duration, x.lastKept + 1 <= duration
  PROVE  LET a == Attempt(x, duration, Evidence(x, duration)) IN
         /\ x.rec.records > 0 => a.ok
         /\ a.ok => a.doc.bytes = x.rec.bytes /\ (a.doc.status = "verified" => ~Doubtful(x) /\ x.stop = "confirmed")
         /\ IsDialog(a.d) /\ Same(a.d, x, {"rec", "pc", "limitEvent", "ctx"}) /\ a.d.pc = "idle"
         /\ a.d.rec.records = x.rec.records
<1> DEFINE ev == Evidence(x, duration)
           capped == duration > MaxDuration
           requested == IF capped THEN MaxDuration ELSE duration
           event == Event("capture-limit", Session, <<"duration">>)
           r == x.rec
           limited == IF capped /\ ~x.limitEvent THEN AppendEvent(r, event, TRUE) ELSE r
           evidence == [ev EXCEPT !.codes = IF capped THEN @ \cup {"duration-capped"} ELSE @,
                                  !.stopOffset = IF @ < requested THEN @ ELSE requested]
           may == MayFinalize(limited, requested, evidence)
           closed == IF may THEN Closed(limited, evidence) ELSE limited
           more == x.limitEvent \/ (capped /\ Len(limited.events) > Len(r.events))
           y == [x EXCEPT !.rec = closed, !.pc = "idle", !.limitEvent = more]
           a == Attempt(x, duration, ev)
<1>1. /\ IsDialog(x) /\ Timed(x) /\ IsRecorder(r) /\ EventsOk(r.events, x.frozen, x.stop) /\ LimitOk(x)
      /\ x.frozen \in Int /\ x.frozen >= 1 /\ x.frozen >= x.last /\ x.last \in Int /\ x.lastKept \in Int
      /\ r.last \in Int /\ r.last <= x.lastKept /\ r.last < MaxDuration /\ r.records \in Nat
      /\ x.logOk \in BOOLEAN /\ x.limitEvent \in BOOLEAN
  <2>1. IsDialog(x) /\ Timed(x) /\ LimitOk(x) /\ EventsOk(r.events, Reach(x, t), x.stop)
    BY DEF Taped, Steady
  <2>2. Reach(x, t) = x.frozen
    BY <2>1, ReachFacts
  <2>3. IsRecorder(r) /\ r.last \in Int /\ r.records \in Nat
    BY <2>1 DEF IsDialog, IsRecorder
  <2> QED BY <2>1, <2>2, <2>3 DEF IsDialog, Timed
<1>2. MaxDuration \in Nat /\ MaxDuration >= 1
  BY LimitsAssumption
<1>3. requested \in Int /\ requested >= 1 /\ requested <= duration /\ requested <= MaxDuration /\ requested >= r.last
  BY <1>1, <1>2
<1>4. /\ evidence.source = "serial" /\ evidence.stop = x.stop /\ evidence.reported = NotReported
      /\ evidence.codes = (IF capped THEN {"duration-capped"} ELSE {}) /\ evidence.journal = NoJournal
      /\ evidence.complete = x.logOk /\ evidence.stopOffset = requested
  <2>1. /\ ev.source = "serial" /\ ev.stop = x.stop /\ ev.reported = NotReported /\ ev.codes = {}
        /\ ev.journal = NoJournal /\ ev.complete = x.logOk /\ ev.stopOffset = duration
        /\ ev = [source |-> ev.source, stop |-> ev.stop, stopOffset |-> ev.stopOffset, complete |-> ev.complete,
                 observed |-> ev.observed, reported |-> ev.reported, codes |-> ev.codes, journal |-> ev.journal]
    BY DEF Evidence
  <2> HIDE DEF ev, requested, capped
  <2>2. /\ evidence.source = ev.source /\ evidence.stop = ev.stop /\ evidence.reported = ev.reported
        /\ evidence.journal = ev.journal /\ evidence.complete = ev.complete
        /\ evidence.codes = (IF capped THEN ev.codes \cup {"duration-capped"} ELSE ev.codes)
        /\ evidence.stopOffset = (IF ev.stopOffset < requested THEN ev.stopOffset ELSE requested)
    BY <2>1
  <2>3. evidence.stopOffset = requested
    BY <1>3, <2>1, <2>2
  <2>4. evidence.codes = (IF capped THEN {"duration-capped"} ELSE {})
    BY <2>1, <2>2
  <2> HIDE DEF evidence
  <2> QED BY <2>1, <2>2, <2>3, <2>4
<1>5. a.d = IF r.records = 0 THEN [x EXCEPT !.pc = "idle", !.ctx = <<duration, ev>>]
            ELSE [y EXCEPT !.ctx = <<requested, evidence>>]
  BY DEF Attempt
<1>6. a.doc = Document(closed, requested, evidence) /\ (a.ok <=> may /\ Accepted(Document(closed, requested, evidence)))
  BY DEF Attempt
<1> HIDE DEF ev, evidence, requested
<1>7. SerialEvidence(evidence) /\ (evidence.codes # {} <=> capped)
  <2>1. evidence.codes \in {{}, {"duration-capped"}} /\ (evidence.codes # {} <=> capped)
    BY <1>4
  <2> QED BY <1>1, <1>4, <2>1 DEF SerialEvidence
<1>8. /\ FinalOk(r.events, x.frozen) /\ Few(r, "shutdown", x.stop = "unconfirmed") /\ Few(r, "mismatch", FALSE)
      /\ x.limitEvent => capped /\ Told(r, x.logOk, "limit", TRUE)
      /\ ~x.limitEvent => \A i \in 1..Len(r.events) : Kind(r.events[i]) # "limit"
  <2>1. /\ \A i \in 1..Len(r.events) : IsEvent(r.events[i])
             /\ (IsLive(r.events[i], x.frozen) \/ (IsNotice(r.events[i]) /\ x.stop = "unconfirmed"))
        /\ \A i, j \in 1..Len(r.events) :
             i < j /\ IsLive(r.events[i], x.frozen) /\ IsLive(r.events[j], x.frozen) => r.events[i].at <= r.events[j].at
        /\ \A i, j \in 1..Len(r.events) : IsNotice(r.events[i]) /\ IsNotice(r.events[j]) => i = j
    BY <1>1 DEF EventsOk
  <2>2. ASSUME NEW i \in 1..Len(r.events)
        PROVE  /\ IsNotice(r.events[i]) => IsClosing(r.events[i])
               /\ Kind(r.events[i]) = "shutdown" <=> IsNotice(r.events[i])
               /\ Kind(r.events[i]) # "mismatch"
               /\ Kind(r.events[i]) = "limit" <=> NotesLimit(r.events[i])
    BY <2>1 DEF IsNotice, IsClosing, IsLive, Kind, NotesLimit, LiveTypes
  <2>3. FinalOk(r.events, x.frozen)
    BY <2>1, <2>2 DEF FinalOk
  <2>4. Few(r, "shutdown", x.stop = "unconfirmed") /\ Few(r, "mismatch", FALSE)
    <3>1. \A i \in 1..Len(r.events) : Kind(r.events[i]) = "shutdown" => x.stop = "unconfirmed"
      BY <2>1, <2>2 DEF IsNotice, IsLive, LiveTypes
    <3> QED BY <2>1, <2>2, <3>1 DEF Few
  <2>5. x.limitEvent => capped /\ Told(r, x.logOk, "limit", TRUE)
    <3>1. x.limitEvent => capped
      BY <1>1, <1>2 DEF LimitOk
    <3>2. x.limitEvent => Told(r, x.logOk, "limit", TRUE)
      BY <1>1, <2>2 DEF LimitOk, Told, Few
    <3> QED BY <3>1, <3>2
  <2>6. ~x.limitEvent => \A i \in 1..Len(r.events) : Kind(r.events[i]) # "limit"
    BY <1>1, <2>2 DEF LimitOk
  <2> QED BY <2>3, <2>4, <2>5, <2>6
<1>9. /\ IsRecorder(limited) /\ Extends(limited, r) /\ FinalOk(limited.events, x.frozen)
      /\ Few(limited, "shutdown", x.stop = "unconfirmed") /\ Few(limited, "mismatch", FALSE)
      /\ Told(limited, x.logOk, "limit", capped)
  <2>1. CASE capped /\ ~x.limitEvent
    <3>1. IsEvent(event) /\ IsClosing(event) /\ Kind(event) = "limit"
      BY DEF Event, IsEvent, IsClosing, Kind, NotesLimit, Session
    <3> HIDE DEF event
    <3>2. limited = AppendEvent(r, event, TRUE)
      BY <2>1
    <3> HIDE DEF limited, capped, r
    <3>3. /\ IsRecorder(limited) /\ Extends(limited, r) /\ FinalOk(limited.events, x.frozen)
          /\ Few(limited, "shutdown", x.stop = "unconfirmed") /\ Few(limited, "mismatch", FALSE)
      BY <1>1, <1>8, <3>1, <3>2, ClosingAppended
    <3>4. Told(limited, x.logOk, "limit", TRUE)
      BY <1>1, <1>8, <2>1, <3>1, <3>2, ClosingAppended
    <3> QED BY <2>1, <3>3, <3>4 DEF Told, Few
  <2>2. CASE ~capped
    <3>1. limited = r /\ ~x.limitEvent
      BY <1>8, <2>2
    <3>2. Extends(r, r)
      BY <1>1 DEF Extends, IsRecorder, IsSeq
    <3>3. Told(r, x.logOk, "limit", FALSE)
      BY <1>8, <3>1 DEF Told, Few
    <3> HIDE DEF capped
    <3> QED BY <1>1, <1>8, <2>2, <3>1, <3>2, <3>3 DEF Told, Few
  <2>3. CASE capped /\ x.limitEvent
    <3>1. limited = r
      BY <2>3
    <3>2. Extends(r, r)
      BY <1>1 DEF Extends, IsRecorder, IsSeq
    <3> HIDE DEF capped
    <3> QED BY <1>1, <1>8, <2>3, <3>1, <3>2 DEF Told, Few
  <2> QED BY <2>1, <2>2, <2>3
<1> DEFINE c == Closed(limited, evidence)
<1> HIDE DEF limited, capped, may
<1>10. /\ limited.records = r.records /\ limited.bytes = r.bytes /\ limited.last = r.last
       /\ Len(r.events) <= Len(limited.events) /\ (limited.complete => r.complete)
  BY <1>9 DEF Extends
<1>11. /\ IsRecorder(c) /\ Extends(c, limited) /\ FinalOk(c.events, x.frozen)
       /\ Told(c, x.logOk, "limit", capped)
       /\ Told(c, x.logOk, "shutdown", evidence.stop = "unconfirmed")
       /\ Told(c, x.logOk, "mismatch", Mismatch(limited, evidence))
       /\ Details(c, <<NotReported, evidence.observed, <<limited.records, limited.bytes>>>>)
  BY <1>1, <1>4, <1>7, <1>9, ClosedFacts
<1> HIDE DEF c
<1>12. /\ c.records = r.records /\ c.bytes = r.bytes /\ c.last = r.last
       /\ Len(r.events) <= Len(c.events) /\ (c.complete => r.complete)
  <2>1. Len(r.events) \in Nat /\ Len(limited.events) \in Nat /\ Len(c.events) \in Nat
    BY <1>1, <1>9, <1>11 DEF IsRecorder, IsSeq
  <2> QED BY <1>10, <1>11, <2>1 DEF Extends
<1>13. Mismatch(limited, evidence) <=> Mismatch(c, evidence)
  BY <1>7, <1>10, <1>12, EvidenceFacts
<1>14. FinalOk(c.events, requested)
  <2>1. /\ \A i \in 1..Len(c.events) : IsEvent(c.events[i]) /\ (IsLive(c.events[i], x.frozen) \/ IsClosing(c.events[i]))
        /\ \A i, j \in 1..Len(c.events) : i < j /\ IsLive(c.events[i], x.frozen) /\ IsLive(c.events[j], x.frozen)
             => c.events[i].at <= c.events[j].at
    BY <1>11 DEF FinalOk
  <2>2. ASSUME NEW i \in 1..Len(c.events)
        PROVE  IsLive(c.events[i], requested) <=> IsLive(c.events[i], x.frozen)
    <3>1. c.events[i].at \in Int
      BY <2>1 DEF IsEvent
    <3>2. CASE IsLive(c.events[i], x.frozen)
      <4>1. requested = MaxDuration \/ x.frozen <= requested
        BY DEF requested
      <4> QED BY <1>1, <1>2, <1>3, <3>1, <3>2, <4>1 DEF IsLive
    <3>3. CASE IsClosing(c.events[i])
      BY <3>3 DEF IsLive, IsClosing, Session
    <3> QED BY <2>1, <3>2, <3>3
  <2> QED BY <2>1, <2>2 DEF FinalOk
<1>15. Accepted(Document(c, requested, evidence))
  <2>1. Told(c, evidence.complete, "limit", evidence.codes # {})
    <3>1. (evidence.codes # {}) = capped
      <4>1. capped \in BOOLEAN
        BY DEF capped
      <4> QED BY <1>7, <4>1
    <3> QED BY <1>4, <1>11, <3>1
  <2>2. Told(c, evidence.complete, "shutdown", evidence.stop = "unconfirmed")
    BY <1>4, <1>11
  <2>3. Told(c, evidence.complete, "mismatch", Mismatch(c, evidence))
    BY <1>4, <1>11, <1>13 DEF Told, Few
  <2>4. Details(c, <<NotReported, evidence.observed, <<c.records, c.bytes>>>>)
    BY <1>10, <1>11, <1>12
  <2>5. requested <= requested
    BY <1>3
  <2> QED BY <1>3, <1>4, <1>7, <1>11, <1>14, <2>1, <2>2, <2>3, <2>4, <2>5, AcceptedFacts
<1>16. may <=> r.records > 0
  <2>1. may = MayFinalize(limited, requested, evidence)
    BY DEF may
  <2>3. ~limited.finalized
    BY <1>9 DEF IsRecorder
  <2>4. limited.last + 1 <= MaxDuration /\ limited.last \in Int /\ requested >= limited.last
    BY <1>1, <1>2, <1>3, <1>10
  <2>5. FinalDuration(limited, requested) <= MaxDuration /\ FinalDuration(limited, requested) >= requested
    <3>1. \E z \in {1, requested, limited.last + 1} : \A k \in {1, requested, limited.last + 1} : k <= z
      BY <1>3, <2>4
    <3>2. /\ Top({1, requested, limited.last + 1}) \in {1, requested, limited.last + 1}
          /\ \A k \in {1, requested, limited.last + 1} : k <= Top({1, requested, limited.last + 1})
      BY <3>1, TopFacts
    <3> QED BY <1>2, <1>3, <2>4, <3>2 DEF FinalDuration
  <2> QED BY <1>3, <1>4, <1>10, <2>1, <2>3, <2>4, <2>5 DEF MayFinalize
<1>17. closed = (IF may THEN c ELSE limited)
  BY DEF c
<1> HIDE DEF closed
<1>18. r.records > 0 => a.ok
  BY <1>6, <1>15, <1>16, <1>17
<1>19. ASSUME a.ok
       PROVE  a.doc.bytes = r.bytes /\ (a.doc.status = "verified" => ~Doubtful(x) /\ x.stop = "confirmed")
  <2>1. a.doc = Document(c, requested, evidence)
    BY <1>6, <1>17, <1>19
  <2>2. a.doc.bytes = c.bytes /\ a.doc.status = IF Verified(c, evidence) THEN "verified" ELSE "incomplete"
    BY <1>7, <2>1, DocumentFacts
  <2>3. ASSUME Verified(c, evidence)  PROVE ~Doubtful(x) /\ x.stop = "confirmed"
    <3>1. evidence.stop = "confirmed" /\ evidence.complete /\ Codes(c, evidence) = {}
      <4>1. StopOf(evidence) = evidence.stop
        BY <1>7, EvidenceFacts
      <4> QED BY <2>3, <4>1 DEF Verified, LogComplete
    <3>2. Len(c.events) = 0 /\ Len(r.events) = 0
      <4>1. \A i \in 1..Len(c.events) : c.events[i].type \in Codes(c, evidence)
        BY <1>1, <1>7, <1>11, CodesFacts
      <4>2. Len(c.events) \in Nat /\ Len(r.events) \in Nat
        BY <1>1, <1>11 DEF IsRecorder, IsSeq
      <4>3. \A i \in 1..Len(c.events) : FALSE
        BY <3>1, <4>1
      <4>4. Len(c.events) = 0
        BY <4>2, <4>3
      <4> QED BY <1>12, <4>2, <4>4
    <3>3. r.events = <<>>
      BY <1>1, <3>2 DEF IsRecorder, IsSeq
    <3> QED BY <1>4, <3>1, <3>3 DEF Doubtful
  <2> QED BY <1>12, <2>2, <2>3
<1>20. /\ IsDialog(a.d) /\ Same(a.d, x, {"rec", "pc", "limitEvent", "ctx"}) /\ a.d.pc = "idle"
       /\ a.d.rec.records = r.records
  <2>1. CASE r.records = 0
    <3> DEFINE ctx == <<duration, ev>>
               u == [x EXCEPT !.pc = "idle", !.ctx = ctx]
    <3>1. a.d = u
      BY <1>5, <2>1
    <3> HIDE DEF ctx
    <3>2. Same(u, x, {"pc", "ctx"}) /\ u.pc = "idle"
      BY <1>1 DEF IsDialog, Same, Fields
    <3> HIDE DEF u, a
    <3>3. IsDialog(u) /\ u.rec = x.rec
      BY <1>1, <3>2 DEF IsDialog, Same, Fields
    <3> QED BY <3>1, <3>2, <3>3 DEF Same
  <2>2. CASE r.records # 0
    <3> DEFINE ctx == <<requested, evidence>>
               u == [y EXCEPT !.ctx = ctx]
    <3>1. a.d = u
      BY <1>5, <2>2
    <3> HIDE DEF ctx
    <3>2. IsRecorder(closed) /\ closed.records = r.records
      BY <1>9, <1>10, <1>11, <1>12, <1>17
    <3>3. more \in BOOLEAN
      BY <1>1 DEF more
    <3> HIDE DEF more
    <3>4. /\ Same(u, x, {"rec", "pc", "limitEvent", "ctx"}) /\ u.pc = "idle" /\ u.rec = closed /\ u.limitEvent = more
      BY <1>1 DEF IsDialog, Same, Fields
    <3> HIDE DEF u, a
    <3>5. IsDialog(u)
      BY <1>1, <3>2, <3>3, <3>4 DEF IsDialog, Same, Fields
    <3> QED BY <3>1, <3>2, <3>4, <3>5
  <2> QED BY <2>1, <2>2
<1> QED BY <1>18, <1>19, <1>20 DEF ev

\* The notice of a close that failed makes the log say so, or makes it incomplete.
LEMMA ShutdownFacts ==
  ASSUME NEW x, NEW t \in Int, Taped(x, t), x.stop = "not-observed", x.frozen # -1
  PROVE  LET z == [x EXCEPT !.stop = "unconfirmed", !.closed = TRUE, !.reason = TRUE]
             y == RecordEvent(z, Event("shutdown-unconfirmed", Session, <<>>)) IN
         /\ Taped(y, t) /\ Doubtful(y) /\ Same(y, x, {"stop", "closed", "reason", "rec", "logOk", "limitEvent"})
         /\ y.stop = "unconfirmed" /\ y.rec.bytes = x.rec.bytes
<1> DEFINE z == [x EXCEPT !.stop = "unconfirmed", !.closed = TRUE, !.reason = TRUE]
           e == Event("shutdown-unconfirmed", Session, <<>>)
           y == RecordEvent(z, e)
           s == x.rec.events
           q == AppendEvent(x.rec, e, FALSE)
<1>1. /\ IsDialog(x) /\ Timed(x) /\ x.hasRec /\ EventsOk(s, Reach(x, t), x.stop) /\ LimitOk(x)
      /\ (x.paused => Doubtful(x))
  BY DEF Taped, Steady
<1>2. Same(z, x, {"stop", "closed", "reason"}) /\ z.stop = "unconfirmed" /\ z.closed = TRUE
  BY <1>1 DEF IsDialog, Same, Fields
<1>3. y = RecordEvent(z, e)
  OBVIOUS
<1> HIDE DEF z, y
<1>4. IsDialog(z)
  BY <1>1, <1>2 DEF IsDialog, Same, Fields
<1>5. /\ z.rec = x.rec /\ z.logOk = x.logOk /\ z.limitEvent = x.limitEvent /\ z.paused = x.paused
      /\ z.hasRec = x.hasRec /\ z.lastKept = x.lastKept /\ z.last = x.last /\ z.buf = x.buf
      /\ z.frozen = x.frozen
  BY <1>2 DEF Same, Fields
<1>6. IsEvent(e) /\ IsNotice(e) /\ ~NotesLimit(e) /\ Bounded(e) = e /\ \A end \in Int : ~IsLive(e, end)
  <2>1. e = [type |-> "shutdown-unconfirmed", at |-> -1, detail |-> <<>>]
    BY DEF Event, Session
  <2> HIDE DEF e
  <2>2. e.type = "shutdown-unconfirmed" /\ e.at = -1
    BY <2>1
  <2>3. ~(e.at >= MaxDuration)
    BY <2>2, LimitsAssumption
  <2>4. Bounded(e) = [e EXCEPT !.at = e.at]
    BY <2>3 DEF Bounded
  <2>5. Bounded(e) = e
    BY <2>1, <2>4
  <2> QED BY <2>1, <2>2, <2>5 DEF IsEvent, IsNotice, NotesLimit, IsLive, LiveTypes, Session
<1>7. y = Recorded(z, e)
  BY <1>1, <1>3, <1>5 DEF RecordEvent
<1> HIDE DEF e
<1>8. /\ IsDialog(y) /\ Same(y, z, {"rec", "logOk", "limitEvent"}) /\ y.rec = q
      /\ y.logOk <=> z.logOk /\ Len(q.events) > Len(s)
      /\ y.limitEvent <=> z.limitEvent \/ (Len(q.events) > Len(s) /\ NotesLimit(e))
  BY <1>4, <1>5, <1>6, <1>7, RecordedFacts
<1>9. IsRecorder(x.rec) /\ FALSE \in BOOLEAN /\ IsSeq(s) /\ Len(s) \in Nat
  BY <1>1 DEF IsDialog, IsRecorder, IsSeq
<1>10. /\ q.records = x.rec.records /\ q.bytes = x.rec.bytes /\ q.last = x.rec.last
       /\ \/ q.events = Append(s, e) /\ Len(q.events) = Len(s) + 1
          \/ q.events = s
  BY <1>9, AppendEventFacts
<1> HIDE DEF q, s
<1>11. Same(y, x, {"stop", "closed", "reason", "rec", "logOk", "limitEvent"}) /\ y.stop = "unconfirmed"
       /\ y.closed = TRUE
  BY <1>2, <1>8 DEF Same, Fields
<1>12. /\ y.paused = x.paused /\ y.hasRec = x.hasRec /\ y.lastKept = x.lastKept /\ y.last = x.last
       /\ y.buf = x.buf /\ y.frozen = x.frozen
  BY <1>11 DEF Same, Fields
<1>13. Noted(y, z, e) /\ IsSeq(z.rec.events)
  <2>1. y.logOk \in BOOLEAN /\ z.logOk \in BOOLEAN /\ y.limitEvent \in BOOLEAN /\ z.limitEvent \in BOOLEAN
    BY <1>4, <1>8 DEF IsDialog
  <2>2. CASE q.events = Append(s, e) /\ Len(q.events) = Len(s) + 1
    BY <1>5, <1>6, <1>8, <1>9, <1>10, <2>1, <2>2 DEF Noted, s
  <2>3. CASE q.events = s
    BY <1>5, <1>6, <1>8, <1>9, <1>10, <2>1, <2>3 DEF Noted, s
  <2> QED BY <1>5, <1>9, <1>10, <2>2, <2>3 DEF s
<1>14. LimitOk(y)
  <2>1. LimitOk(z)
    BY <1>1, <1>5 DEF LimitOk
  <2> QED BY <1>6, <1>8, <1>13, <2>1, NotedLimit
<1>15. Doubtful(y)
  <2>1. CASE q.events = Append(s, e) /\ Len(q.events) = Len(s) + 1
    <3>1. q.events # <<>>
      BY <1>9, <2>1
    <3> QED BY <1>8, <3>1 DEF Doubtful
  <2>2. CASE q.events = s
    BY <1>8, <1>9, <2>2 DEF Doubtful
  <2> QED BY <1>10, <2>1, <2>2
<1>16. Timed(y)
  BY <1>1, <1>8, <1>10, <1>12 DEF Timed
<1> DEFINE end == x.frozen
           u == q.events
<1>17. Reach(x, t) = end /\ Reach(y, t) = end /\ end \in Int
  BY <1>1, <1>12 DEF Reach, IsDialog
<1>18. EventsOk(u, end, "unconfirmed")
  <2>1. \A i \in 1..Len(s) : IsEvent(s[i]) /\ IsLive(s[i], end)
    BY <1>1, <1>17 DEF EventsOk
  <2>2. \A i, j \in 1..Len(s) : i < j => s[i].at <= s[j].at
    BY <1>1, <1>17, <2>1 DEF EventsOk
  <2>3. \A i \in 1..Len(s) : ~IsNotice(s[i])
    BY <2>1 DEF IsLive, IsNotice, LiveTypes
  <2> HIDE DEF u
  <2>4. CASE u = s
    BY <2>1, <2>2, <2>3, <2>4 DEF EventsOk
  <2>5. CASE u = Append(s, e)
    <3>1. Len(u) = Len(s) + 1 /\ u[Len(s) + 1] = e /\ \A i \in 1..Len(s) : u[i] = s[i]
      BY <1>9, <2>5, AppendTo
    <3>2. \A i \in 1..Len(u) : i = Len(s) + 1 \/ i \in 1..Len(s)
      BY <1>9, <3>1
    <3>3. \A i \in 1..Len(u) : IsEvent(u[i]) /\ (IsLive(u[i], end) \/ IsNotice(u[i]))
      BY <1>6, <2>1, <3>1, <3>2
    <3>4. \A i \in 1..Len(u) : IsLive(u[i], end) => i \in 1..Len(s)
      BY <1>6, <1>17, <3>1, <3>2
    <3>5. \A i \in 1..Len(u) : IsNotice(u[i]) => i = Len(s) + 1
      BY <2>3, <3>1, <3>2
    <3>6. \A i, j \in 1..Len(u) : i < j /\ IsLive(u[i], end) /\ IsLive(u[j], end) => u[i].at <= u[j].at
      BY <2>2, <3>1, <3>4
    <3>7. \A i, j \in 1..Len(u) : IsNotice(u[i]) /\ IsNotice(u[j]) => i = j
      BY <3>5
    <3> QED BY <3>3, <3>6, <3>7 DEF EventsOk
  <2> QED BY <1>10, <2>4, <2>5 DEF u
<1>19. Taped(y, t)
  BY <1>1, <1>8, <1>11, <1>12, <1>14, <1>15, <1>16, <1>17, <1>18 DEF Taped, Steady
<1> QED BY <1>8, <1>10, <1>11, <1>15, <1>19 DEF y, z, e

\* The end of a recording: what is saved is what was read, and what cannot be saved is empty.
LEMMA FinishStep ==
  ASSUME SerialInv, saved = Nobody, NEW x, Taped(x, now), x.frozen # -1, x.stop \in {"confirmed", "unconfirmed"},
         NEW duration \in Int, x.frozen <= duration, x.lastKept + 1 <= duration,
         Finish(x, duration, Evidence(x, duration)),
         now' = now, port' = NoPort, late' = late, device' # "open",
         truth' \in [read : Nat, bytes : Nat, failed : BOOLEAN], x.rec.bytes <= truth'.bytes,
         ~Doubtful(x) /\ x.stop = "confirmed" => x.rec.bytes = truth'.bytes /\ ~truth'.failed
  PROVE  SerialInv'
<1> DEFINE a == Attempt(x, duration, Evidence(x, duration))
<1>1. now \in Nat /\ now \in Int
  BY DEF SerialInv, DeskInv
<1>2. /\ x.rec.records > 0 => a.ok
      /\ a.ok => a.doc.bytes = x.rec.bytes /\ (a.doc.status = "verified" => ~Doubtful(x) /\ x.stop = "confirmed")
      /\ IsDialog(a.d) /\ Same(a.d, x, {"rec", "pc", "limitEvent", "ctx"}) /\ a.d.pc = "idle"
      /\ a.d.rec.records = x.rec.records
  BY <1>1, AttemptFacts
<1>3. x.rec.records \in Nat
  BY DEF Taped, Steady, IsDialog, IsRecorder
<1>4. \/ /\ a.ok /\ saved' = [status |-> a.doc.status, doc |-> a.doc]
         /\ \E phase \in {"saved", "save-error"} :
              d' = [a.d EXCEPT !.phase = phase, !.hasRec = FALSE, !.rec = NewRecorder, !.ctx = <<>>]
      \/ ~a.ok /\ saved' = saved /\ d' = [a.d EXCEPT !.phase = "finalize-error"]
  BY DEF Finish
<1> HIDE DEF a
<1>5. ControlInv' /\ IsDialog(d') /\ d'.phase \in {"saved", "save-error", "finalize-error"}
      /\ (d'.phase = "finalize-error" => saved' = saved /\ d'.rec.records = 0)
      /\ (d'.phase # "finalize-error" => a.ok /\ saved' = [status |-> a.doc.status, doc |-> a.doc])
  <2>1. port' = [held |-> FALSE, stopped |-> FALSE, reading |-> FALSE]
    BY DEF NoPort
  <2>2. ASSUME d'.phase \in {"saved", "save-error", "finalize-error"}, d'.pc = "idle"  PROVE ControlInv'
    <3>1. port'.held = FALSE /\ port'.stopped = FALSE /\ port'.reading = FALSE
          /\ port' \in [held : BOOLEAN, stopped : BOOLEAN, reading : BOOLEAN]
      BY <2>1
    <3> QED BY <2>2, <3>1 DEF ControlInv
  <2>3. CASE a.ok
    <3>1. PICK phase \in {"saved", "save-error"} :
              d' = [a.d EXCEPT !.phase = phase, !.hasRec = FALSE, !.rec = NewRecorder, !.ctx = <<>>]
      BY <1>4, <2>3
    <3>2. /\ Same(d', a.d, {"phase", "hasRec", "rec", "ctx"}) /\ d'.phase = phase /\ d'.hasRec = FALSE
          /\ d'.rec = NewRecorder
      BY <1>2, <3>1 DEF IsDialog, Same, Fields
    <3>3. IsDialog(d') /\ d'.pc = "idle"
      <4>1. IsRecorder(NewRecorder)
        BY ReadyFacts
      <4> QED BY <1>2, <3>2, <4>1 DEF IsDialog, Same, Fields
    <3> QED BY <1>4, <2>2, <2>3, <3>2, <3>3
  <2>4. CASE ~a.ok
    <3>1. d' = [a.d EXCEPT !.phase = "finalize-error"] /\ saved' = saved
      BY <1>4, <2>4
    <3>2. Same(d', a.d, Untaped) /\ d'.phase = "finalize-error" /\ d'.pc = "idle" /\ d'.rec = a.d.rec
      BY <1>2, <3>1 DEF IsDialog, Same, Fields, Untaped
    <3>3. IsDialog(d')
      BY <1>2, <3>2, DialogKept DEF Untaped
    <3>4. d'.rec.records = 0
      BY <1>2, <1>3, <2>4, <3>2
    <3> QED BY <2>2, <3>1, <3>2, <3>3, <3>4
  <2> QED BY <2>3, <2>4
<1>6. DeskInv'
  BY <1>1, <1>5 DEF DeskInv
<1>7. RecordingInv'
  BY <1>5 DEF RecordingInv, Taping
<1>8. RetainedCanBeFinalized'
  BY <1>5 DEF RetainedCanBeFinalized
<1>9. SavedIsTrue'
  <2>1. CASE d'.phase = "finalize-error"
    <3>1. saved'.status = "none"
      BY <1>5, <2>1, ReadyFacts
    <3> QED BY <3>1 DEF SavedIsTrue
  <2>2. CASE d'.phase # "finalize-error"
    <3>1. saved'.status = a.doc.status /\ saved'.doc = a.doc /\ a.ok
      BY <1>5, <2>2
    <3> QED BY <1>2, <3>1 DEF SavedIsTrue
  <2> QED BY <2>1, <2>2
<1> QED BY <1>5, <1>6, <1>7, <1>8, <1>9 DEF SerialInv

\* The stop has settled, and the recording it ends is finalised.
LEMMA StopSettlesStep ==
  ASSUME SerialInv, StopSettles  PROVE SerialInv'
<1>1. /\ d.pc = "stop" /\ port' = NoPort /\ now' = now /\ late' = late
      /\ \/ /\ device' = "closed" /\ truth' = truth
            /\ IF d.cont = "save" THEN Stopped(d) ELSE d' = Ready /\ saved' = saved
         \/ /\ device' = "stuck" /\ truth' = [truth EXCEPT !.failed = TRUE]
            /\ IF d.cont = "save" THEN StopThrew(d) ELSE d' = Ready /\ saved' = saved
  BY Zenon DEF StopSettles, Closes, CloseFails, Fault
<1>2. d.phase = "stopping" /\ device' # "open" /\ now \in Nat /\ now \in Int /\ saved = Nobody
      /\ truth \in [read : Nat, bytes : Nat, failed : BOOLEAN]
  BY <1>1 DEF SerialInv, ControlInv, DeskInv
<1>3. truth' \in [read : Nat, bytes : Nat, failed : BOOLEAN] /\ truth'.bytes = truth.bytes
  BY <1>1, <1>2
<1>4. CASE d.cont # "save"
  <2>1. d' = Ready /\ saved' = Nobody
    BY <1>1, <1>2, <1>4
  <2>2. ControlInv'
    BY <1>1, <1>2, <2>1, ReadyFacts DEF SerialInv, ControlInv, NoPort
  <2> QED BY <1>1, <1>2, <1>3, <2>1, <2>2, ReadyStep DEF SerialInv
<1>5. CASE d.cont = "save"
  <2>1. /\ Taped(d, now) /\ Tally(d, truth) /\ d.stop = "not-observed" /\ d.verified = 0 /\ IsDialog(d) /\ Timed(d)
        /\ (d.frozen # -1 <=> d.closed \/ d.phase = "stopping") /\ d.buf \in Seq(Int) /\ d.rec.bytes \in Nat
        /\ truth.bytes \in Nat
    BY <1>2, <1>5, TapingNow DEF Taping
  <2>2. d.frozen # -1 /\ d.frozen \in Int /\ d.last \in Int /\ d.lastKept \in Int /\ Len(d.buf) \in Nat
    BY <1>2, <2>1 DEF IsDialog
  <2>3. CASE truth' = truth /\ Stopped(d)
    <3> DEFINE x == [d EXCEPT !.closed = TRUE, !.stop = "confirmed"]
               y == RetainTail(x, now)
               z == [y EXCEPT !.verified = VerifiedEnd(y)]
    <3>1. Finish(z, z.verified, Evidence(z, z.verified))
      BY <2>3 DEF Stopped
    <3>2. Same(x, d, {"closed", "stop"}) /\ x.closed = TRUE /\ x.stop = "confirmed"
      BY <2>1 DEF IsDialog, Same, Fields
    <3> HIDE DEF x
    <3>3. IsDialog(x)
      BY <2>1, <3>2 DEF IsDialog, Same, Fields
    <3>4. /\ x.rec = d.rec /\ x.logOk = d.logOk /\ x.limitEvent = d.limitEvent /\ x.paused = d.paused
          /\ x.hasRec = d.hasRec /\ x.lastKept = d.lastKept /\ x.last = d.last /\ x.buf = d.buf
          /\ x.frozen = d.frozen
      BY <3>2 DEF Same, Fields
    <3>5. Taped(x, now) /\ (Doubtful(x) <=> Doubtful(d))
      <4>1. d.last <= x.last /\ now <= now
        BY <1>2, <2>2, <3>4
      <4>2. \A i \in 1..Len(x.buf) : 0 <= x.buf[i] /\ x.buf[i] < x.last
        BY <2>1, <3>4 DEF Timed
      <4>3. d.stop = "unconfirmed" => x.stop = "unconfirmed"
        BY <2>1
      <4> QED BY <1>2, <2>1, <3>3, <3>4, <4>1, <4>2, <4>3, GoesOn
    <3>6. /\ Taped(y, now) /\ Same(y, x, Input \cup {"buf"})
          /\ Doubtful(x) => Doubtful(y)
          /\ x.rec.bytes <= y.rec.bytes /\ y.rec.bytes <= x.rec.bytes + Len(x.buf)
          /\ ~Doubtful(y) => y.rec.bytes = x.rec.bytes + Len(x.buf)
      BY <1>2, <3>5, TailFacts
    <3> HIDE DEF y
    <3>7. IsDialog(y) /\ y.lastKept \in Int /\ y.frozen \in Int /\ y.last \in Int /\ y.frozen # -1 /\ y.stop = "confirmed"
          /\ Timed(y)
      <4>1. IsDialog(y) /\ Timed(y)
        BY <3>6 DEF Taped, Steady
      <4>2. y.frozen = x.frozen /\ y.stop = x.stop
        BY <3>6 DEF Same, Fields, Input
      <4> QED BY <2>2, <3>2, <3>4, <4>1, <4>2 DEF IsDialog
    <3> DEFINE end == VerifiedEnd(y)
    <3>8. end \in Int /\ y.frozen <= end /\ y.lastKept + 1 <= end
      <4>1. \E w \in {1, y.frozen, y.lastKept + 1} : \A k \in {1, y.frozen, y.lastKept + 1} : k <= w
        BY <3>7
      <4>2. /\ Top({1, y.frozen, y.lastKept + 1}) \in {1, y.frozen, y.lastKept + 1}
            /\ \A k \in {1, y.frozen, y.lastKept + 1} : k <= Top({1, y.frozen, y.lastKept + 1})
        BY <4>1, TopFacts
      <4> QED BY <3>7, <4>2 DEF VerifiedEnd
    <3> HIDE DEF end
    <3>9. Same(z, y, {"verified"}) /\ z.verified = end
      BY <3>7 DEF IsDialog, Same, Fields, end
    <3> HIDE DEF z
    <3>10. IsDialog(z)
      BY <3>7, <3>9, DialogKept DEF Same, Untaped
    <3>11. /\ z.rec = y.rec /\ z.logOk = y.logOk /\ z.limitEvent = y.limitEvent /\ z.paused = y.paused
           /\ z.hasRec = y.hasRec /\ z.lastKept = y.lastKept /\ z.last = y.last /\ z.buf = y.buf
           /\ z.frozen = y.frozen /\ z.stop = y.stop
      BY <3>9 DEF Same, Fields
    <3>12. Taped(z, now) /\ (Doubtful(z) <=> Doubtful(y))
      <4>1. y.last <= z.last /\ now <= now
        BY <1>2, <3>7, <3>11
      <4>2. \A i \in 1..Len(z.buf) : 0 <= z.buf[i] /\ z.buf[i] < z.last
        BY <3>7, <3>11 DEF Timed
      <4> QED BY <1>2, <3>6, <3>10, <3>11, <4>1, <4>2, GoesOn
    <3>13. Finish(z, end, Evidence(z, end))
      BY <3>1, <3>9
    <3>14. y.rec.bytes \in Nat
      BY <3>7 DEF IsDialog, IsRecorder
    <3>15. z.rec.bytes <= truth'.bytes
      BY <2>1, <2>2, <1>3, <3>4, <3>6, <3>11, <3>14 DEF Tally
    <3>16. ~Doubtful(z) => z.rec.bytes = truth'.bytes /\ ~truth'.failed
      BY <2>1, <2>2, <2>3, <3>4, <3>5, <3>6, <3>11, <3>12 DEF Tally
    <3> QED BY <1>1, <1>2, <1>3, <3>7, <3>8, <3>11, <3>12, <3>13, <3>15, <3>16, FinishStep
  <2>4. CASE StopThrew(d)
    <3> DEFINE z == [d EXCEPT !.stop = "unconfirmed", !.closed = TRUE, !.reason = TRUE]
               x == RecordEvent(z, Event("shutdown-unconfirmed", Session, <<>>))
               y == RetainTail(x, now)
               end == Top({y.frozen, y.verified, y.lastKept + 1})
    <3>1. Finish(y, end, Evidence(y, end))
      BY <2>4 DEF StopThrew
    <3>2. /\ Taped(x, now) /\ Doubtful(x) /\ Same(x, d, {"stop", "closed", "reason", "rec", "logOk", "limitEvent"})
          /\ x.stop = "unconfirmed" /\ x.rec.bytes = d.rec.bytes
      BY <1>2, <2>1, <2>2, ShutdownFacts
    <3> HIDE DEF x, z
    <3>3. /\ Taped(y, now) /\ Same(y, x, Input \cup {"buf"}) /\ Doubtful(y)
          /\ x.rec.bytes <= y.rec.bytes /\ y.rec.bytes <= x.rec.bytes + Len(x.buf)
      BY <1>2, <3>2, TailFacts
    <3> HIDE DEF y
    <3>4. IsDialog(y) /\ y.lastKept \in Int /\ y.frozen = d.frozen /\ y.stop = "unconfirmed" /\ y.verified = 0
          /\ x.buf = d.buf
      <4>1. IsDialog(y)
        BY <3>3 DEF Taped, Steady
      <4>2. y.frozen = x.frozen /\ y.stop = x.stop /\ y.verified = x.verified
        BY <3>3 DEF Same, Fields, Input
      <4>3. x.frozen = d.frozen /\ x.verified = d.verified /\ x.buf = d.buf
        BY <3>2 DEF Same, Fields
      <4> QED BY <2>1, <3>2, <4>1, <4>2, <4>3 DEF IsDialog
    <3>5. end \in Int /\ y.frozen <= end /\ y.lastKept + 1 <= end
      <4>1. \E w \in {y.frozen, y.verified, y.lastKept + 1} : \A k \in {y.frozen, y.verified, y.lastKept + 1} : k <= w
        BY <2>2, <3>4
      <4>2. end \in {y.frozen, y.verified, y.lastKept + 1} /\ \A k \in {y.frozen, y.verified, y.lastKept + 1} : k <= end
        BY <4>1, TopFacts
      <4> QED BY <2>2, <3>4, <4>2
    <3> HIDE DEF end
    <3>6. y.rec.bytes \in Nat
      BY <3>4 DEF IsDialog, IsRecorder
    <3>7. y.rec.bytes <= truth'.bytes
      BY <2>1, <2>2, <1>3, <3>2, <3>3, <3>4, <3>6 DEF Tally
    <3> QED BY <1>1, <1>2, <1>3, <2>2, <3>1, <3>3, <3>4, <3>5, <3>7, FinishStep
  <2> QED BY <1>1, <1>5, <2>3, <2>4
<1> QED BY <1>4, <1>5

\* The invariant holds initially.
LEMMA InitLemma == Init => SerialInv
<1> SUFFICES ASSUME Init  PROVE SerialInv
  OBVIOUS
<1>1. /\ now = 0 /\ d = Ready /\ port = NoPort /\ device = "closed" /\ late = "none"
      /\ saved = Nobody /\ truth = Unsent
  BY DEF Init
<1>2. /\ IsDialog(d) /\ d.phase = "ready" /\ d.pc = "idle" /\ saved.status = "none"
  BY <1>1, ReadyFacts
<1>3. truth \in [read : Nat, bytes : Nat, failed : BOOLEAN]
  BY <1>1 DEF Unsent
<1>4. ControlInv
  BY <1>1, <1>2 DEF ControlInv, NoPort
<1>5. DeskInv
  BY <1>1, <1>2, <1>3 DEF DeskInv
<1> QED BY <1>2, <1>4, <1>5 DEF SerialInv, RecordingInv, Taping, SavedIsTrue, RetainedCanBeFinalized

\* Every step keeps the invariant.
LEMMA NextLemma == SerialInv /\ [Next]_vars => SerialInv'
<1> SUFFICES ASSUME SerialInv, [Next]_vars  PROVE SerialInv'
  OBVIOUS
<1>1. CASE StartPreflight  BY <1>1, StartPreflightStep
<1>2. CASE Cancel  BY <1>2, CancelStep
<1>3. CASE Dismiss  BY <1>3, DismissStep
<1>4. CASE StopPreflight  BY <1>4, StopPreflightStep
<1>5. CASE StopAndSave  BY <1>5, StopAndSaveStep
<1>6. CASE DiscardCapture  BY <1>6, DiscardStep
<1>7. CASE BeginRecording  BY <1>7, BeginRecordingStep
<1>8. CASE RetryDownload  BY <1>8, RetryDownloadStep
<1>9. CASE LeaveRetained  BY <1>9, LeaveStep
<1>10. CASE Chosen  BY <1>10, ChosenStep
<1>11. CASE StartThrows  BY <1>11, StartThrowsStep
<1>12. CASE Opened  BY <1>12, OpenedStep
<1>13. CASE SetupClosed  BY <1>13, SetupClosedStep
<1>14. CASE Late  BY <1>14, LateStep
<1>15. CASE Chunk  BY <1>15, ChunkStep
<1>16. CASE ReadError  BY <1>16, ReadErrorStep
<1>17. CASE Disconnected  BY <1>17, DisconnectedStep
<1>18. CASE StopSettles  BY <1>18, StopSettlesStep
<1>19. CASE Tick  BY <1>19, TickStep
<1>20. CASE UNCHANGED vars
  BY <1>20 DEF vars, SerialInv, ControlInv, DeskInv, RecordingInv, Taping, SavedIsTrue, RetainedCanBeFinalized
<1> QED BY <1>1, <1>2, <1>3, <1>4, <1>5, <1>6, <1>7, <1>8, <1>9, <1>10, <1>11, <1>12, <1>13, <1>14, <1>15,
           <1>16, <1>17, <1>18, <1>19, <1>20 DEF Next

\* The inductive invariant.
LEMMA SerialInvHolds == Spec => []SerialInv
BY InitLemma, NextLemma, PTL DEF Spec

\* The dialog's phase agrees with what it awaits and with the port it holds, and its recorder keeps
\* within its limits, for recordings, chunks and faults of any number and size.
THEOREM SerialTypeOK == Spec => []TypeOK
BY SerialInvHolds, InvIsTyped, PTL

\* Once every start and every stop has settled, a dialog at its first screen leaves no port open.
THEOREM PortIsClosed == Spec => []NothingLeftOpen
BY SerialInvHolds, InvIsTyped, PTL

\* A saved serial session holds no byte read before the recording began, and a verified one holds
\* every byte read since, from a device that never failed.
THEOREM SavedSerialIsTrue == Spec => []SavedIsTrue
<1>1. SerialInv => SavedIsTrue
  BY DEF SerialInv
<1> QED BY <1>1, SerialInvHolds, PTL

\* Whatever went wrong, a serial recording with a record in it makes a document its validator accepts.
THEOREM SerialCanBeFinalized == Spec => []RetainedCanBeFinalized
<1>1. SerialInv => RetainedCanBeFinalized
  BY DEF SerialInv
<1> QED BY <1>1, SerialInvHolds, PTL

=============================================================================
