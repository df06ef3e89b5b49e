-------------------------- MODULE UdpRefusalProofs --------------------------
(***************************************************************************)
(* Which non-empty UDP captures their own validator refuses, for every     *)
(* number of captures, datagrams and faults and all limits.                *)
(*                                                                         *)
(* The argument has three parts.  What finalize makes of a recorder whose  *)
(* log is in order (Log) passes every check of the validator but four,     *)
(* those that Excused names (AttemptRefused).  The log stays in order      *)
(* while an event is noted before the end of the capture as the dialog     *)
(* knows it (Reach); only a status of another capture, taken in before the *)
(* dialog was told of its own, could move a later event past it (Stale).   *)
(* And the event stream corrects such a status before the next datagram    *)
(* and before any error that is not fatal (QueueInv).                      *)
(***************************************************************************)
EXTENDS UdpCaptureProofs

-----------------------------------------------------------------------------
(* Finalisation: what the log of a capture says, and what its validator asks of it *)

Gap == "udp-event-sequence-discontinuity"
LiveTypes == {Gap, "udp-bridge-error", "udp-event-stream-disconnected", "capture-backpressure", "capture-limit"}
Terminals == {"udp-kernel-drops-observed", "shutdown-unconfirmed", "udp-counter-mismatch"}

Kind(e) == IF NotesLimit(e) THEN "limit" ELSE IF e.type \in Terminals THEN e.type ELSE "plain"

IsEvent(e) == e = [type |-> e.type, at |-> e.at, detail |-> e.detail] /\ e.at \in Int

\* An event noted before the end of a capture, and one that closes its log.
IsLive(e, end) == e.type \in LiveTypes /\ e.at < MaxDuration /\ (e.type = Gap \/ e.at < end)
IsClosing(e) == e.at = Session /\ Kind(e) \in {"limit"} \cup Terminals

LogOk(r, end) == \A i \in 1..Len(r.events) : IsEvent(r.events[i]) /\ (IsLive(r.events[i], end) \/ IsClosing(r.events[i]))

\* r has at most one event of a kind, and none unless it is needed; it has one if it is complete.
Few(r, kind, needed) ==
  /\ \A i, j \in 1..Len(r.events) : Kind(r.events[i]) = kind /\ Kind(r.events[j]) = kind => i = j
  /\ \A i \in 1..Len(r.events) : Kind(r.events[i]) = kind => needed
Said(r, ok, kind, needed) ==
  needed /\ r.complete /\ ok => \E i \in 1..Len(r.events) : Kind(r.events[i]) = kind
Details(r, kind, detail) == \A i \in 1..Len(r.events) : Kind(r.events[i]) = kind => r.events[i].detail = detail

\* q is r with at most some events of one kind more, which r would have had if its log were complete.
Extends(q, r, kinds) ==
  /\ q.records = r.records /\ q.bytes = r.bytes /\ q.last = r.last /\ (q.complete => r.complete)
  /\ \A kind : kind \notin kinds =>
       /\ \A needed : Few(r, kind, needed) => Few(q, kind, needed)
       /\ \A ok, needed : Said(r, ok, kind, needed) => Said(q, ok, kind, needed)
       /\ \A detail : Details(r, kind, detail) => Details(q, kind, detail)

LEMMA ExtendsSelf == ASSUME NEW r, NEW kinds  PROVE Extends(r, r, kinds)
BY DEF Extends

LEMMA ExtendsTrans ==
  ASSUME NEW r, NEW q, NEW p, NEW k, NEW l, NEW m, Extends(q, r, k), Extends(p, q, l), k \cup l \subseteq m
  PROVE  Extends(p, r, m)
<1>1. \A kind : kind \notin m => kind \notin k /\ kind \notin l
  OBVIOUS
<1> QED BY <1>1, Zenon DEF Extends

\* An event is appended, or the log is marked as incomplete; what the log said before stays.
LEMMA EventAppended ==
  ASSUME NEW r, NEW e, IsRecorder(r), IsEvent(e), NEW end \in Int, IsLive(e, end) \/ IsClosing(e), LogOk(r, end),
         NEW q, q = AppendEvent(r, e, TRUE) \/ q = AppendEvent(r, e, FALSE)
  PROVE  /\ IsRecorder(q) /\ Extends(q, r, {Kind(e)}) /\ LogOk(q, end)
         /\ (\A i \in 1..Len(r.events) : Kind(r.events[i]) # Kind(e)) =>
              Few(q, Kind(e), Len(q.events) > Len(r.events)) /\ \A ok : Said(q, ok, Kind(e), TRUE)
         /\ Details(r, Kind(e), e.detail) => Details(q, Kind(e), e.detail)
<1> DEFINE s == r.events
           u == q.events
<1>0. \E terminal \in BOOLEAN : q = AppendEvent(r, e, terminal)
  OBVIOUS
<1>1. /\ IsRecorder(q)
      /\ q.records = r.records /\ q.bytes = r.bytes /\ q.last = r.last
      /\ \/ q.events = Append(r.events, e) /\ Len(q.events) = Len(r.events) + 1 /\ q.complete = r.complete
         \/ q.events = r.events /\ ~q.complete
  BY <1>0, AppendEventFacts
<1>2. IsSeq(s) /\ Len(s) \in Nat
  BY DEF IsRecorder, IsSeq
<1>3. CASE u = s /\ ~q.complete
  <2>1. LogOk(q, end)
    BY <1>3 DEF LogOk
  <2>2. /\ \A kind, needed : Few(q, kind, needed) <=> Few(r, kind, needed)
        /\ \A kind, ok, needed : Said(q, ok, kind, needed)
        /\ \A kind, detail : Details(r, kind, detail) => Details(q, kind, detail)
    BY <1>3 DEF Few, Said, Details
  <2>3. Extends(q, r, {Kind(e)})
    BY <1>1, <1>3, <2>2 DEF Extends
  <2>4. ASSUME \A i \in 1..Len(s) : Kind(s[i]) # Kind(e), NEW needed PROVE Few(q, Kind(e), needed)
    BY <1>3, <2>4 DEF Few
  <2> QED BY <1>1, <1>2, <1>3, <2>1, <2>2, <2>3, <2>4
<1>4. CASE u = Append(s, e) /\ q.complete = r.complete
  <2>1. Len(u) = Len(s) + 1 /\ u[Len(s) + 1] = e /\ \A i \in 1..Len(s) : u[i] = s[i]
    BY <1>2, <1>4, AppendTo
  <2> DEFINE n == Len(s)
  <2>2. n \in Nat /\ Len(u) = n + 1 /\ u[n + 1] = e /\ \A i \in 1..n : u[i] = s[i]
    BY <1>2, <2>1
  <2> HIDE DEF s, u, n
  <2>3. \A i \in 1..(n + 1) : i = n + 1 \/ i \in 1..n
    BY <2>2
  <2>4. n + 1 \in 1..(n + 1) /\ (\A i \in 1..n : i \in 1..(n + 1)) /\ n + 1 > n
    BY <2>2
  <2>5. \A i \in 1..n : IsEvent(s[i]) /\ (IsLive(s[i], end) \/ IsClosing(s[i]))
    BY DEF LogOk, s, n
  <2>7. LogOk(q, end)
    <3>1. \A i \in 1..Len(u) : IsEvent(u[i]) /\ (IsLive(u[i], end) \/ IsClosing(u[i]))
      BY <2>2, <2>3, <2>5
    <3> QED BY <3>1 DEF LogOk, u
  <2>8. ASSUME NEW kind, NEW needed, kind # Kind(e), Few(r, kind, needed)  PROVE Few(q, kind, needed)
    <3>1. /\ \A i, j \in 1..n : Kind(s[i]) = kind /\ Kind(s[j]) = kind => i = j
          /\ \A i \in 1..n : Kind(s[i]) = kind => needed
      BY <2>8 DEF Few, s, n
    <3>2. \A i \in 1..(n + 1) : Kind(u[i]) = kind => i \in 1..n
      BY <2>2, <2>3, <2>8
    <3>3. \A i, j \in 1..(n + 1) : Kind(u[i]) = kind /\ Kind(u[j]) = kind => i = j
      BY <2>2, <3>1, <3>2
    <3>4. \A i \in 1..(n + 1) : Kind(u[i]) = kind => needed
      BY <2>2, <3>1, <3>2
    <3> QED BY <2>2, <3>3, <3>4 DEF Few, u
  <2>9. ASSUME NEW kind, NEW ok, NEW needed, Said(r, ok, kind, needed)  PROVE Said(q, ok, kind, needed)
    <3>1. ASSUME needed, q.complete, ok  PROVE \E i \in 1..(n + 1) : Kind(u[i]) = kind
      <4>1. PICK i \in 1..n : Kind(s[i]) = kind
        BY <1>4, <2>9, <3>1 DEF Said, s, n
      <4> QED BY <2>2, <2>4, <4>1
    <3> QED BY <2>2, <3>1 DEF Said, u
  <2>10. ASSUME \A i \in 1..n : Kind(s[i]) # Kind(e)
         PROVE  Few(q, Kind(e), Len(u) > n) /\ \A ok : Said(q, ok, Kind(e), TRUE)
    <3>1. \A i \in 1..(n + 1) : Kind(u[i]) = Kind(e) <=> i = n + 1
      BY <2>2, <2>3, <2>10
    <3>2. Few(q, Kind(e), Len(u) > n)
      BY <2>2, <2>4, <3>1 DEF Few, u
    <3>3. \E i \in 1..(n + 1) : Kind(u[i]) = Kind(e)
      BY <2>4, <3>1
    <3> QED BY <2>2, <3>2, <3>3 DEF Said, u
  <2>11. ASSUME NEW kind, NEW detail, Details(r, kind, detail), Kind(e) = kind => e.detail = detail
         PROVE  Details(q, kind, detail)
    <3>1. \A i \in 1..n : Kind(s[i]) = kind => s[i].detail = detail
      BY <2>11 DEF Details, s, n
    <3>2. \A i \in 1..(n + 1) : Kind(u[i]) = kind => u[i].detail = detail
      BY <2>2, <2>3, <2>11, <3>1
    <3> QED BY <2>2, <3>2 DEF Details, u
  <2>12. Extends(q, r, {Kind(e)})
    BY <1>1, <1>4, <2>8, <2>9, <2>11 DEF Extends
  <2> QED BY <1>1, <2>2, <2>4, <2>7, <2>10, <2>11, <2>12 DEF s, u, n
<1> QED BY <1>1, <1>3, <1>4

\* A terminal event that is needed is in the log once, or the log is incomplete.
LEMMA OnceFacts ==
  ASSUME NEW r, IsRecorder(r), NEW e, IsEvent(e), e.at = Session, e.type \in Terminals, NEW end \in Int,
         LogOk(r, end), NEW needed \in BOOLEAN, Few(r, e.type, needed)
  PROVE  LET q == Once(r, needed, e) IN
         /\ IsRecorder(q) /\ Extends(q, r, {e.type}) /\ LogOk(q, end)
         /\ Few(q, e.type, needed) /\ \A ok : Said(q, ok, e.type, needed)
         /\ Details(r, e.type, e.detail) => Details(q, e.type, e.detail)
<1> DEFINE q == Once(r, needed, e)
<1>1. Kind(e) = e.type /\ IsClosing(e)
  BY DEF Kind, IsClosing, Terminals, NotesLimit
<1>2. DOMAIN r.events = 1..Len(r.events)
  BY DEF IsRecorder, IsSeq
<1>3. Has(r, e.type) <=> \E i \in 1..Len(r.events) : Kind(r.events[i]) = e.type
  BY <1>2 DEF Has, Kind, Terminals, NotesLimit
<1>4. CASE needed /\ ~Has(r, e.type)
  <2>1. q = AppendEvent(r, e, TRUE)
    BY <1>4 DEF Once
  <2> HIDE DEF q
  <2>2. /\ IsRecorder(q) /\ Extends(q, r, {e.type}) /\ LogOk(q, end)
        /\ Few(q, e.type, Len(q.events) > Len(r.events)) /\ \A ok : Said(q, ok, e.type, TRUE)
        /\ Details(r, e.type, e.detail) => Details(q, e.type, e.detail)
    <3>1. q = AppendEvent(r, e, TRUE)
      BY <2>1
    <3> QED BY <1>1, <1>3, <1>4, <3>1, EventAppended
  <2>3. Few(q, e.type, needed) /\ \A ok : Said(q, ok, e.type, needed)
    BY <1>4, <2>2 DEF Few, Said
  <2> QED BY <2>2, <2>3 DEF q
<1>5. CASE ~(needed /\ ~Has(r, e.type))
  <2>1. q = r
    BY <1>5 DEF Once
  <2>2. \A ok : Said(r, ok, e.type, needed)
    BY <1>3, <1>5 DEF Said
  <2> HIDE DEF q
  <2> QED BY <2>1, <2>2, ExtendsSelf DEF q
<1> QED BY <1>4, <1>5

\* What finalize has to say of the recorder r with the evidence ev, and what it has not said yet.
Counters(r, ev) == <<Reported(ev), ev.observed, <<r.records, r.bytes>>>>
Terms(r, ev) ==
  /\ Few(r, "udp-kernel-drops-observed", Drops(ev))
  /\ Details(r, "udp-kernel-drops-observed", <<ev.journal.drops>>)
  /\ Few(r, "shutdown-unconfirmed", StopOf(ev) = "unconfirmed")
  /\ Few(r, "udp-counter-mismatch", Mismatch(r, ev))
  /\ Details(r, "udp-counter-mismatch", Counters(r, ev))
AllSaid(r, ev) ==
  /\ Said(r, ev.complete, "udp-kernel-drops-observed", Drops(ev))
  /\ Said(r, ev.complete, "shutdown-unconfirmed", StopOf(ev) = "unconfirmed")
  /\ Said(r, ev.complete, "udp-counter-mismatch", Mismatch(r, ev))

\* The evidence of a UDP recording, as the dialog collects it.
IsUdpEvidence(ev) ==
  /\ IsEvidence(ev) /\ ev.stop \in {"confirmed", "unconfirmed"} /\ ev.complete \in BOOLEAN
  /\ ev.codes \in {{}, {"duration-capped"}} /\ ev.journal \in Journals

\* Mismatch and the counters depend on what is retained alone.
LEMMA MismatchKept ==
  ASSUME NEW r, NEW q, NEW ev, r.records = q.records, r.bytes = q.bytes
  PROVE  (Mismatch(r, ev) <=> Mismatch(q, ev)) /\ Counters(r, ev) = Counters(q, ev) /\ (Reconciled(r, ev) <=> Reconciled(q, ev))
BY DEF Mismatch, Reconciled, Counters

\* What finalize appends says once, and exactly when it is so, that datagrams were dropped, that the
\* stop was not confirmed and that the counters disagree; or the log is incomplete.
LEMMA ClosedFacts ==
  ASSUME NEW r, IsRecorder(r), NEW ev, IsUdpEvidence(ev), NEW end \in Int, LogOk(r, end), Terms(r, ev)
  PROVE  LET c == Closed(r, ev) IN
         /\ IsRecorder(c) /\ Extends(c, r, Terminals) /\ LogOk(c, end)
         /\ Terms(c, ev) /\ AllSaid(c, ev)
<1> DEFINE drop == Event("udp-kernel-drops-observed", Session, <<ev.journal.drops>>)
           shut == Event("shutdown-unconfirmed", Session, <<>>)
           wrong == Event("udp-counter-mismatch", Session, Counters(r, ev))
           p == Once(r, Drops(ev), drop)
           q == Once(p, StopOf(ev) = "unconfirmed", shut)
           c == Closed(r, ev)
<1>1. MismatchType(ev) = "udp-counter-mismatch"
  BY DEF IsUdpEvidence, IsEvidence, MismatchType
<1>2. c = Once(q, Mismatch(r, ev), wrong)
  BY <1>1 DEF Closed, WithDrops, Counters
<1>3. /\ IsEvent(drop) /\ drop.at = Session /\ drop.type = "udp-kernel-drops-observed"
      /\ drop.detail = <<ev.journal.drops>> /\ IsEvent(shut) /\ shut.at = Session
      /\ shut.type = "shutdown-unconfirmed" /\ IsEvent(wrong) /\ wrong.at = Session
      /\ wrong.type = "udp-counter-mismatch" /\ wrong.detail = Counters(r, ev)
      /\ {drop.type, shut.type, wrong.type} \subseteq Terminals
  BY DEF Event, IsEvent, Session, Terminals
<1>4. PICK drops \in BOOLEAN, stop \in BOOLEAN, off \in BOOLEAN :
        (drops <=> Drops(ev)) /\ (stop <=> StopOf(ev) = "unconfirmed") /\ (off <=> Mismatch(r, ev))
  <2>1. (\E b \in BOOLEAN : b <=> Drops(ev)) /\ (\E b \in BOOLEAN : b <=> StopOf(ev) = "unconfirmed")
        /\ (\E b \in BOOLEAN : b <=> Mismatch(r, ev))
    OBVIOUS
  <2> QED BY <2>1
<1>5. /\ Few(r, "udp-kernel-drops-observed", drops) /\ Few(r, "shutdown-unconfirmed", stop)
      /\ Few(r, "udp-counter-mismatch", off)
      /\ Details(r, "udp-kernel-drops-observed", <<ev.journal.drops>>)
      /\ Details(r, "udp-counter-mismatch", Counters(r, ev))
  BY <1>4 DEF Terms, Few
<1>6. p = Once(r, drops, drop) /\ q = Once(p, stop, shut) /\ c = Once(q, off, wrong)
  BY <1>2, <1>4 DEF Once
<1> HIDE DEF drop, shut, wrong, p, q, c
<1>7. /\ IsRecorder(p) /\ Extends(p, r, {"udp-kernel-drops-observed"}) /\ LogOk(p, end)
      /\ Few(p, "udp-kernel-drops-observed", drops) /\ (\A ok : Said(p, ok, "udp-kernel-drops-observed", drops))
      /\ Details(p, "udp-kernel-drops-observed", <<ev.journal.drops>>)
  BY <1>3, <1>5, <1>6, OnceFacts
<1>8. /\ Few(p, "shutdown-unconfirmed", stop) /\ Few(p, "udp-counter-mismatch", off)
      /\ Details(p, "udp-counter-mismatch", Counters(r, ev))
  BY <1>5, <1>7 DEF Extends
<1>9. /\ IsRecorder(q) /\ Extends(q, p, {"shutdown-unconfirmed"}) /\ LogOk(q, end)
      /\ Few(q, "shutdown-unconfirmed", stop) /\ \A ok : Said(q, ok, "shutdown-unconfirmed", stop)
  BY <1>3, <1>6, <1>7, <1>8, OnceFacts
<1>10. /\ Few(q, "udp-counter-mismatch", off) /\ Details(q, "udp-counter-mismatch", Counters(r, ev))
       /\ Few(q, "udp-kernel-drops-observed", drops) /\ (\A ok : Said(q, ok, "udp-kernel-drops-observed", drops))
       /\ Details(q, "udp-kernel-drops-observed", <<ev.journal.drops>>)
  BY <1>7, <1>8, <1>9 DEF Extends
<1>11. /\ IsRecorder(c) /\ Extends(c, q, {"udp-counter-mismatch"}) /\ LogOk(c, end)
       /\ Few(c, "udp-counter-mismatch", off) /\ (\A ok : Said(c, ok, "udp-counter-mismatch", off))
       /\ Details(c, "udp-counter-mismatch", Counters(r, ev))
  BY <1>3, <1>6, <1>9, <1>10, OnceFacts
<1>12. /\ Few(c, "udp-kernel-drops-observed", drops) /\ (\A ok : Said(c, ok, "udp-kernel-drops-observed", drops))
       /\ Details(c, "udp-kernel-drops-observed", <<ev.journal.drops>>)
       /\ Few(c, "shutdown-unconfirmed", stop) /\ \A ok : Said(c, ok, "shutdown-unconfirmed", stop)
  BY <1>9, <1>10, <1>11 DEF Extends
<1>13. Extends(c, r, Terminals)
  <2>1. Extends(q, r, {"udp-kernel-drops-observed", "shutdown-unconfirmed"})
    BY <1>7, <1>9, ExtendsTrans
  <2> QED BY <1>11, <2>1, ExtendsTrans DEF Terminals
<1>14. (Mismatch(c, ev) <=> off) /\ Counters(c, ev) = Counters(r, ev)
  BY <1>4, <1>13, MismatchKept DEF Extends
<1>15. Terms(c, ev)
  BY <1>4, <1>11, <1>12, <1>14 DEF Terms, Few
<1>16. AllSaid(c, ev)
  BY <1>4, <1>11, <1>12, <1>14 DEF AllSaid, Said
<1> QED BY <1>11, <1>13, <1>15, <1>16 DEF c

\* The type of an event tells its kind.
LEMMA ShownKinds ==
  ASSUME NEW e, NEW end, IsLive(e, end) \/ IsClosing(e)
  PROVE  /\ \A type \in Terminals : e.type = type <=> Kind(e) = type
         /\ NotesLimit(e) <=> Kind(e) = "limit"
         /\ e.type \in LiveTypes \cup Terminals
BY DEF Kind, NotesLimit, IsLive, IsClosing, LiveTypes, Terminals, Gap

\* The document a UDP capture is finalised to.
LEMMA DocumentFacts ==
  ASSUME NEW c, NEW requested, NEW ev, IsUdpEvidence(ev)
  PROVE  LET doc == Document(c, requested, ev)
             fails == Incomplete(ProvenanceCodes(c, ev)) IN
         /\ doc.source = "udp" /\ doc.duration = FinalDuration(c, requested) /\ doc.last = c.last
         /\ doc.records = c.records /\ doc.bytes = c.bytes /\ doc.events = c.events
         /\ doc.basis = Basis(ev) /\ doc.stop = StopOf(ev) /\ doc.stopOffset = ev.stopOffset
         /\ doc.complete = (c.complete /\ ev.complete) /\ doc.observed = ev.observed /\ doc.reported = Reported(ev)
         /\ doc.codes = Codes(c, ev) \cup (IF fails THEN {"transport-provenance-incomplete"} ELSE {})
         /\ doc.journal = ev.journal /\ doc.provStatus = IF fails THEN "incomplete" ELSE "verified"
         /\ doc.status = IF Verified(c, ev) /\ ~fails THEN "verified" ELSE "incomplete"
BY DEF Document, LogComplete, IsUdpEvidence, IsEvidence

\* The codes of a receipt are those of its events, of its evidence and of an incomplete log.
LEMMA CodesFacts ==
  ASSUME NEW c, IsRecorder(c), NEW ev, IsUdpEvidence(ev), NEW end, LogOk(c, end), Terms(c, ev)
  PROVE  /\ DOMAIN c.events = 1..Len(c.events)
         /\ \A i \in 1..Len(c.events) : c.events[i].type \in Codes(c, ev)
         /\ "event-log-incomplete" \in Codes(c, ev) <=> ~(c.complete /\ ev.complete)
         /\ "duration-capped" \in Codes(c, ev) <=> ev.codes # {}
         /\ "udp-kernel-drops-observed" \in Codes(c, ev) <=> Drops(ev)
         /\ "udp-counter-mismatch" \in Codes(c, ev) <=> Mismatch(c, ev)
         /\ "shutdown-unconfirmed" \in Codes(c, ev) <=> StopOf(ev) = "unconfirmed"
         /\ "transport-provenance-incomplete" \notin Codes(c, ev)
         /\ \A code \in Codes(c, ev) \cap EventCodes :
              (\E i \in 1..Len(c.events) : c.events[i].type = code) \/ code \in Terminals
<1> DEFINE n == Len(c.events)
<1>1. DOMAIN c.events = 1..n
  BY DEF IsRecorder, IsSeq
<1>2. /\ MismatchType(ev) = "udp-counter-mismatch" /\ ev.codes \in {{}, {"duration-capped"}}
  BY DEF IsUdpEvidence, IsEvidence, MismatchType
<1>3. \A code : code \in Codes(c, ev) <=>
        \/ code \in ev.codes
        \/ code = "udp-kernel-drops-observed" /\ Drops(ev)
        \/ \E i \in 1..n : c.events[i].type = code
        \/ code = "event-log-incomplete" /\ ~(c.complete /\ ev.complete)
        \/ code = "udp-counter-mismatch" /\ Mismatch(c, ev)
        \/ code = "shutdown-unconfirmed" /\ StopOf(ev) = "unconfirmed"
  BY <1>1, <1>2 DEF Codes, LogComplete, DropCodes
<1>4. \A i \in 1..n : /\ \A type \in Terminals : c.events[i].type = type <=> Kind(c.events[i]) = type
                      /\ c.events[i].type \in LiveTypes \cup Terminals
  BY ShownKinds DEF LogOk
<1>5. /\ \A i \in 1..n : Kind(c.events[i]) = "udp-kernel-drops-observed" => Drops(ev)
      /\ \A i \in 1..n : Kind(c.events[i]) = "shutdown-unconfirmed" => StopOf(ev) = "unconfirmed"
      /\ \A i \in 1..n : Kind(c.events[i]) = "udp-counter-mismatch" => Mismatch(c, ev)
  BY DEF Terms, Few
<1> HIDE DEF n
<1>6. \A code \in {"event-log-incomplete", "duration-capped", "transport-provenance-incomplete"} :
        \A i \in 1..n : c.events[i].type # code
  BY <1>4 DEF LiveTypes, Terminals, Gap
<1>7. \A code \in ev.codes : code = "duration-capped"
  BY <1>2
<1>8. "event-log-incomplete" \in Codes(c, ev) <=> ~(c.complete /\ ev.complete)
  BY <1>3, <1>6, <1>7
<1>9. "duration-capped" \in Codes(c, ev) <=> ev.codes # {}
  BY <1>2, <1>3, <1>6, <1>7
<1>10. "transport-provenance-incomplete" \notin Codes(c, ev)
  BY <1>3, <1>6, <1>7
<1>11. "udp-kernel-drops-observed" \in Codes(c, ev) <=> Drops(ev)
  BY <1>3, <1>4, <1>5, <1>7 DEF Terminals
<1>12. "udp-counter-mismatch" \in Codes(c, ev) <=> Mismatch(c, ev)
  BY <1>3, <1>4, <1>5, <1>7 DEF Terminals
<1>13. "shutdown-unconfirmed" \in Codes(c, ev) <=> StopOf(ev) = "unconfirmed"
  BY <1>3, <1>4, <1>5, <1>7 DEF Terminals
<1>14. ASSUME NEW code \in Codes(c, ev) \cap EventCodes
       PROVE  (\E i \in 1..n : c.events[i].type = code) \/ code \in Terminals
  <2>1. code # "duration-capped" /\ code # "event-log-incomplete"
    BY DEF EventCodes
  <2> QED BY <1>3, <1>7, <2>1 DEF Terminals
<1>15. \A i \in 1..n : c.events[i].type \in Codes(c, ev)
  BY <1>3
<1> QED BY <1>1, <1>8, <1>9, <1>10, <1>11, <1>12, <1>13, <1>14, <1>15 DEF n

\* Four things are wrong with a log the validator refuses.
Disordered(r) ==
  \E i, j \in DOMAIN r.events : i < j /\ r.events[j].at # Session /\ r.events[j].at < r.events[i].at
LateGap(r, duration) ==
  \E i \in DOMAIN r.events : r.events[i].type = Gap /\ r.events[i].at >= duration
Uncapped(r, ev) == "duration-capped" \notin ev.codes /\ \E i \in DOMAIN r.events : NotesLimit(r.events[i])

\* What the dialog collects about a UDP capture is a document its validator accepts, but for these.
LEMMA AcceptedFacts ==
  ASSUME NEW c, IsRecorder(c), NEW ev, IsUdpEvidence(ev), NEW requested \in Int, requested >= 1,
         c.last < requested, ev.stopOffset = requested, LogOk(c, requested), Terms(c, ev), AllSaid(c, ev),
         NEW noted, Few(c, "limit", noted), Said(c, ev.complete, "limit", ev.codes # {}),
         ~(ev.journal.tail > requested), ~Uncapped(c, ev), ~LateGap(c, requested), ~Disordered(c)
  PROVE  Accepted(Document(c, requested, ev))
<1> DEFINE doc == Document(c, requested, ev)
           n == Len(c.events)
           codes == Codes(c, ev)
           fails == Incomplete(ProvenanceCodes(c, ev))
<1>1. /\ doc.source = "udp" /\ doc.duration = FinalDuration(c, requested) /\ doc.last = c.last
      /\ doc.records = c.records /\ doc.bytes = c.bytes /\ doc.events = c.events
      /\ doc.basis = Basis(ev) /\ doc.stop = StopOf(ev) /\ doc.stopOffset = requested
      /\ doc.complete = (c.complete /\ ev.complete) /\ doc.observed = ev.observed /\ doc.reported = Reported(ev)
      /\ doc.codes = codes \cup (IF fails THEN {"transport-provenance-incomplete"} ELSE {})
      /\ doc.journal = ev.journal /\ doc.provStatus = (IF fails THEN "incomplete" ELSE "verified")
      /\ doc.status = IF Verified(c, ev) /\ ~fails THEN "verified" ELSE "incomplete"
  BY DocumentFacts
<1> HIDE DEF doc
<1>2. /\ DOMAIN c.events = 1..n
      /\ \A i \in 1..n : c.events[i].type \in codes
      /\ "event-log-incomplete" \in codes <=> ~(c.complete /\ ev.complete)
      /\ "duration-capped" \in codes <=> ev.codes # {}
      /\ "udp-kernel-drops-observed" \in codes <=> Drops(ev)
      /\ "udp-counter-mismatch" \in codes <=> Mismatch(c, ev)
      /\ "shutdown-unconfirmed" \in codes <=> StopOf(ev) = "unconfirmed"
      /\ "transport-provenance-incomplete" \notin codes
      /\ \A code \in codes \cap EventCodes : (\E i \in 1..n : c.events[i].type = code) \/ code \in Terminals
  BY CodesFacts
<1> HIDE DEF codes, fails
<1>3. \A i \in 1..n : /\ \A type \in Terminals : c.events[i].type = type <=> Kind(c.events[i]) = type
                      /\ NotesLimit(c.events[i]) <=> Kind(c.events[i]) = "limit"
                      /\ c.events[i].type \in LiveTypes \cup Terminals
  BY ShownKinds DEF LogOk
<1>4. n \in Nat /\ c.records \in Nat /\ c.last \in Int /\ c.records + n <= FileUnits /\ IsSeq(c.events)
      /\ c.complete \in BOOLEAN
  BY DEF IsRecorder, IsSeq
<1>5. ev.complete \in BOOLEAN /\ ev.stop \in {"confirmed", "unconfirmed"} /\ ev.codes \in {{}, {"duration-capped"}}
      /\ ev.journal \in Journals
  BY DEF IsUdpEvidence
<1>6. /\ \A i \in 1..n : Kind(c.events[i]) = "udp-kernel-drops-observed" => Drops(ev)
      /\ \A i \in 1..n : Kind(c.events[i]) = "shutdown-unconfirmed" => StopOf(ev) = "unconfirmed"
      /\ \A i \in 1..n : Kind(c.events[i]) = "udp-counter-mismatch" => Mismatch(c, ev)
  BY DEF Terms, Few
<1>7. ASSUME c.complete, ev.complete
      PROVE  /\ ev.codes # {} => \E i \in 1..n : Kind(c.events[i]) = "limit"
             /\ StopOf(ev) = "unconfirmed" => \E i \in 1..n : Kind(c.events[i]) = "shutdown-unconfirmed"
             /\ Mismatch(c, ev) => \E i \in 1..n : Kind(c.events[i]) = "udp-counter-mismatch"
             /\ Drops(ev) => \E i \in 1..n : Kind(c.events[i]) = "udp-kernel-drops-observed"
  BY <1>7 DEF AllSaid, Said
<1>8. \A kind \in {"limit"} \cup Terminals :
        \A i, j \in 1..n : Kind(c.events[i]) = kind /\ Kind(c.events[j]) = kind => i = j
  BY DEF Terms, Few, Terminals
<1>9. FinalDuration(c, requested) = requested
  <2>1. \E z \in {1, requested, c.last + 1} : \A y \in {1, requested, c.last + 1} : y <= z
    BY <1>4
  <2>2. /\ Top({1, requested, c.last + 1}) \in {1, requested, c.last + 1}
        /\ \A y \in {1, requested, c.last + 1} : y <= Top({1, requested, c.last + 1})
    BY <2>1, TopFacts
  <2> QED BY <1>4, <2>2 DEF FinalDuration
<1>10. doc.last < doc.duration /\ doc.stopOffset <= doc.duration
  BY <1>1, <1>4, <1>9
<1>11. EventsInTime(doc)
  <2>1. \A i \in 1..n : IsEvent(c.events[i]) /\ (IsLive(c.events[i], requested) \/ IsClosing(c.events[i]))
    BY DEF LogOk
  <2>2. ASSUME NEW i \in 1..n  PROVE c.events[i].at < doc.duration
    <3>1. c.events[i].at \in Int
      BY <2>1 DEF IsEvent
    <3>2. c.events[i].type = Gap => c.events[i].at < requested
      BY <1>2, <3>1 DEF LateGap
    <3>3. c.events[i].at < requested \/ c.events[i].at = Session
      BY <2>1, <3>2 DEF IsLive, IsClosing
    <3> QED BY <1>1, <1>9, <3>1, <3>3 DEF Session
  <2>3. ASSUME NEW i \in 1..n, NEW j \in 1..n, i < j, Session \notin {c.events[i].at, c.events[j].at}
        PROVE  c.events[i].at <= c.events[j].at
    <3>1. c.events[i].at \in Int /\ c.events[j].at \in Int
      BY <2>1 DEF IsEvent
    <3>2. ~(c.events[j].at < c.events[i].at)
      BY <1>2, <2>3 DEF Disordered
    <3> QED BY <3>1, <3>2
  <2> HIDE DEF n
  <2> QED BY <1>1, <1>2, <2>2, <2>3 DEF EventsInTime
<1>12. \A code : Typed(doc, code) = {i \in 1..n : c.events[i].type = code}
  BY <1>1, <1>2 DEF Typed
<1> HIDE DEF n
<1>13. EventsAreCoded(doc)
  <2>1. \A i \in DOMAIN doc.events : doc.events[i].type \in doc.codes
    BY <1>1, <1>2
  <2>2. doc.complete = ("event-log-incomplete" \notin doc.codes)
    BY <1>1, <1>2, <1>4, <1>5
  <2>3. ASSUME doc.complete, NEW code \in doc.codes \cap EventCodes  PROVE Typed(doc, code) # {}
    <3>1. c.complete /\ ev.complete
      BY <1>1, <2>3
    <3>2. code \in codes
      BY <1>1 DEF EventCodes
    <3>3. \E i \in 1..n : c.events[i].type = code
      BY <1>2, <1>3, <1>7, <3>1, <3>2 DEF Terminals
    <3> QED BY <1>12, <3>3
  <2> QED BY <2>1, <2>2, <2>3 DEF EventsAreCoded
<1>14. ShutdownAgrees(doc)
  <2> DEFINE S == {i \in 1..n : c.events[i].type = "shutdown-unconfirmed"}
  <2>1. Typed(doc, "shutdown-unconfirmed") = S
    BY <1>12
  <2>2. One(S)
    BY <1>3, <1>8 DEF One, Terminals
  <2>3. doc.complete /\ doc.stop = "unconfirmed" => S # {}
    BY <1>1, <1>3, <1>7 DEF Terminals
  <2>4. doc.stop # "unconfirmed" => S = {}
    BY <1>1, <1>3, <1>6 DEF Terminals
  <2>5. (doc.stop = "unconfirmed") <=> ("shutdown-unconfirmed" \in doc.codes)
    BY <1>1, <1>2
  <2> HIDE DEF S
  <2> QED BY <2>1, <2>2, <2>3, <2>4, <2>5 DEF ShutdownAgrees, Represented
<1>15. DurationAgrees(doc)
  <2> DEFINE S == {i \in 1..n : NotesLimit(c.events[i])}
  <2>1. {i \in Typed(doc, "capture-limit") : doc.events[i].detail = <<"duration">>} = S
    BY <1>1, <1>12 DEF NotesLimit
  <2>2. One(S)
    BY <1>3, <1>8 DEF One
  <2>3. doc.complete /\ "duration-capped" \in doc.codes => S # {}
    BY <1>1, <1>2, <1>3, <1>7
  <2>4. "duration-capped" \notin doc.codes => S = {}
    BY <1>1, <1>2, <1>5 DEF Uncapped
  <2> HIDE DEF S
  <2> QED BY <2>1, <2>2, <2>3, <2>4 DEF DurationAgrees, Represented
<1>16. /\ Reconciled(c, ev) <=> ev.observed = Reported(ev) /\ <<c.records, c.bytes>> = ev.observed
       /\ Mismatch(c, ev) <=> Reported(ev) # NotReported /\ ~Reconciled(c, ev)
       /\ Basis(ev) = (IF Reported(ev) = NotReported THEN "udp-browser-observed" ELSE "udp-bridge-reconciled")
  BY DEF Reconciled, Mismatch, Basis, IsUdpEvidence, IsEvidence
<1>17. CountersAgree(doc)
  <2> DEFINE S == {i \in 1..n : c.events[i].type = "udp-counter-mismatch"}
  <2>1. Typed(doc, "udp-counter-mismatch") = S
    BY <1>12
  <2>2. One(S)
    BY <1>3, <1>8 DEF One, Terminals
  <2>3. doc.complete /\ Mismatch(c, ev) => S # {}
    BY <1>1, <1>3, <1>7 DEF Terminals
  <2>4. ~Mismatch(c, ev) => S = {} /\ "udp-counter-mismatch" \notin doc.codes
    BY <1>1, <1>2, <1>3, <1>6 DEF Terminals
  <2>5. Mismatch(c, ev) => "udp-counter-mismatch" \in doc.codes
    BY <1>1, <1>2
  <2>6. \A i \in S : doc.events[i].detail = <<doc.reported, doc.observed, <<doc.records, doc.bytes>>>>
    <3>1. \A i \in 1..n : Kind(c.events[i]) = "udp-counter-mismatch" => c.events[i].detail = Counters(c, ev)
      BY DEF Terms, Details, n
    <3> QED BY <1>1, <1>3, <3>1 DEF Counters, Terminals
  <2> HIDE DEF S
  <2>7. CASE Reported(ev) = NotReported
    <3>1. doc.basis = "udp-browser-observed" /\ ~Mismatch(c, ev)
      BY <1>1, <1>16, <2>7
    <3>2. doc.stop = "unconfirmed" /\ doc.status = "incomplete"
      BY <1>1, <3>1 DEF StopOf, Verified
    <3> QED BY <1>1, <2>1, <2>4, <2>6, <2>7, <3>1, <3>2 DEF CountersAgree
  <2>8. CASE Reported(ev) # NotReported
    <3>1. doc.basis # "udp-browser-observed"
      BY <1>1, <1>16, <2>8
    <3>2. Mismatch(c, ev) <=> ~(doc.observed = doc.reported /\ <<doc.records, doc.bytes>> = doc.observed)
      BY <1>1, <1>16, <2>8
    <3> QED BY <1>1, <2>1, <2>2, <2>3, <2>4, <2>5, <2>6, <3>1, <3>2 DEF CountersAgree, Represented
  <2> QED BY <2>7, <2>8
<1>18. StatusAgrees(doc)
  <2>1. Verified(c, ev) <=> StopOf(ev) = "confirmed" /\ c.complete /\ ev.complete
                            /\ Basis(ev) # "udp-browser-observed" /\ Reconciled(c, ev) /\ codes = {}
    BY DEF Verified, LogComplete, codes
  <2>2. StopOf(ev) = "confirmed" => Reported(ev) # NotReported /\ Basis(ev) # "udp-browser-observed"
    BY <1>16 DEF StopOf
  <2>3. codes = {} => c.events = <<>>
    <3>1. ASSUME codes = {}  PROVE c.events = <<>>
      <4>1. n = 0
        <5>1. \A i \in 1..n : FALSE
          BY <1>2, <3>1
        <5> QED BY <1>4, <5>1
      <4> QED BY <1>4, <4>1 DEF IsSeq, n
    <3> QED BY <3>1
  <2>4. codes = {} /\ StopOf(ev) = "confirmed" => Reconciled(c, ev)
    BY <1>2, <1>16, <2>2
  <2>5. doc.codes = {} <=> codes = {} /\ ~fails
    BY <1>1
  <2>6. Verified(c, ev) /\ ~fails <=> doc.stop = "confirmed" /\ doc.complete /\ doc.codes = {} /\ doc.events = <<>>
    BY <1>1, <1>4, <1>5, <2>1, <2>2, <2>3, <2>4, <2>5
  <2>7. doc.status = "verified" <=> Verified(c, ev) /\ ~fails
    BY <1>1
  <2> QED BY <2>6, <2>7 DEF StatusAgrees
<1>19. JournalFits(doc)
  <2>1. ev.journal.tail \in Int
    BY <1>5 DEF Journals
  <2> QED BY <1>1, <1>9, <2>1 DEF JournalFits
<1>20. DropsAgree(doc)
  <2> DEFINE S == {i \in 1..n : c.events[i].type = "udp-kernel-drops-observed"}
  <2>1. Typed(doc, "udp-kernel-drops-observed") = S
    BY <1>12
  <2>2. One(S)
    BY <1>3, <1>8 DEF One, Terminals
  <2>3. doc.complete /\ Drops(ev) => S # {}
    BY <1>1, <1>3, <1>7 DEF Terminals
  <2>4. ~Drops(ev) => S = {}
    BY <1>3, <1>6 DEF Terminals
  <2>5. \A i \in S : doc.events[i].detail = <<doc.journal.drops>>
    <3>1. \A i \in 1..n : Kind(c.events[i]) = "udp-kernel-drops-observed" => c.events[i].detail = <<ev.journal.drops>>
      BY DEF Terms, Details, n
    <3> QED BY <1>1, <1>3, <3>1 DEF Terminals
  <2>6. (doc.journal.drops > 0) <=> ("udp-kernel-drops-observed" \in doc.codes)
    BY <1>1, <1>2 DEF Drops
  <2>7. (doc.journal.drops > 0) <=> Drops(ev)
    BY <1>1 DEF Drops
  <2> HIDE DEF S
  <2> QED BY <2>1, <2>2, <2>3, <2>4, <2>5, <2>6, <2>7 DEF DropsAgree, Represented
<1>21. (doc.provStatus = "incomplete") = ("transport-provenance-incomplete" \in doc.codes)
  BY <1>1, <1>2
<1>22. doc.records + Len(doc.events) <= FileUnits
  BY <1>1, <1>4 DEF n
<1> QED BY <1>10, <1>11, <1>13, <1>14, <1>15, <1>17, <1>18, <1>19, <1>20, <1>21, <1>22 DEF Accepted, doc

\* The dialog x is about to finalise its recorder for this duration with this evidence.
Closing(x, duration, ev) ==
  /\ IsUdpEvidence(ev) /\ ev.journal = x.journal
  /\ duration \in Int /\ duration >= 1 /\ ev.stopOffset = duration
  /\ x.rec.last < duration /\ x.rec.last < MaxDuration
  /\ LogOk(x.rec, duration) /\ Terms(x.rec, ev)
  /\ Few(x.rec, "limit", x.limitEvent) /\ Said(x.rec, ev.complete, "limit", x.limitEvent \/ ev.codes # {})

\* Why the validator refused: the four ways of RefusalsKnown.
Excused(x) ==
  \/ x.journal.tail > x.ctx[1]
  \/ Uncapped(x.rec, x.ctx[2])
  \/ LateGap(x.rec, x.ctx[1])
  \/ Disordered(x.rec)

\* An attempt to finalise succeeds or is refused for one of the four reasons, and can be repeated.
LEMMA AttemptRefused ==
  ASSUME NEW x, IsDialog(x), x.rec.records > 0, NEW duration, NEW ev, Closing(x, duration, ev)
  PROVE  LET a == Attempt(x, duration, ev) IN
         Closing(a.d, a.d.ctx[1], a.d.ctx[2]) /\ (a.ok \/ Excused(a.d))
<1> DEFINE a == Attempt(x, duration, ev)
           r == x.rec
           capped == duration > MaxDuration
           requested == IF capped THEN MaxDuration ELSE duration
           e == Event("capture-limit", Session, <<"duration">>)
           limited == IF capped /\ ~x.limitEvent THEN AppendEvent(r, e, TRUE) ELSE r
           codes == IF capped THEN ev.codes \cup {"duration-capped"} ELSE ev.codes
           offset == IF ev.stopOffset < requested THEN ev.stopOffset ELSE requested
           evidence == [ev EXCEPT !.codes = codes, !.stopOffset = offset]
           may == MayFinalize(limited, requested, evidence)
           closed == IF may THEN Closed(limited, evidence) ELSE limited
           noted == x.limitEvent \/ (capped /\ Len(limited.events) > Len(r.events))
           y == [x EXCEPT !.rec = closed, !.pc = "idle", !.limitEvent = noted]
           z == [y EXCEPT !.ctx = <<requested, evidence>>]
<1>1. /\ a.d = z /\ (a.ok <=> may /\ Accepted(Document(closed, requested, evidence)))
  <2>1. evidence = [ev EXCEPT !.codes = IF capped THEN @ \cup {"duration-capped"} ELSE @,
                              !.stopOffset = IF @ < requested THEN @ ELSE requested]
    BY Zenon DEF IsEvidence, IsUdpEvidence, Closing
  <2>2. y = [x EXCEPT !.rec = closed, !.pc = "idle", !.limitEvent =
               @ \/ (capped /\ Len(limited.events) > Len(r.events))]
    BY Zenon
  <2>3. ~(x.rec.records = 0)
    BY DEF IsDialog, IsRecorder
  <2> HIDE DEF evidence, y
  <2> QED BY <2>1, <2>2, <2>3 DEF Attempt
<1> HIDE DEF a
<1>2. /\ IsUdpEvidence(ev) /\ ev.journal = x.journal /\ duration \in Int /\ duration >= 1 /\ ev.stopOffset = duration
      /\ r.last < duration /\ r.last < MaxDuration /\ LogOk(r, duration) /\ Terms(r, ev)
      /\ Few(r, "limit", x.limitEvent) /\ Said(r, ev.complete, "limit", x.limitEvent \/ ev.codes # {})
  BY DEF Closing
<1>3. IsRecorder(r) /\ x.limitEvent \in BOOLEAN /\ r.last \in Int /\ r.records \in Nat
  BY DEF IsDialog, IsRecorder
<1>4. MaxDuration \in Nat /\ MaxDuration >= 1
  BY LimitsAssumption
<1>5. requested \in Int /\ requested >= 1 /\ requested <= duration /\ requested <= MaxDuration /\ r.last < requested
      /\ (capped => requested = MaxDuration) /\ (~capped => requested = duration)
  BY <1>2, <1>3, <1>4
<1>6. /\ evidence = [f \in {"source", "stop", "stopOffset", "complete", "observed", "reported", "codes", "journal"} |-> evidence[f]]
      /\ Alike(evidence, ev) /\ evidence.source = "udp" /\ evidence.codes = codes /\ evidence.stopOffset = requested
  <2>1. PICK c, o : c = codes /\ o = offset
    OBVIOUS
  <2>2. evidence = [ev EXCEPT !.codes = c, !.stopOffset = o]
    BY <2>1
  <2>3. offset = requested
    BY <1>2, <1>5
  <2> HIDE DEF evidence
  <2> QED BY <1>2, <2>1, <2>2, <2>3 DEF IsUdpEvidence, IsEvidence, Alike
<1>7. codes \in {{}, {"duration-capped"}} /\ (codes # {} <=> capped \/ ev.codes # {})
      /\ ("duration-capped" \in codes <=> codes # {})
  <2>1. ev.codes \in {{}, {"duration-capped"}}
    BY <1>2 DEF IsUdpEvidence
  <2> HIDE DEF capped
  <2> QED BY <2>1
<1>8. IsUdpEvidence(evidence)
  BY <1>2, <1>6, <1>7 DEF IsUdpEvidence, IsEvidence, Alike
<1> HIDE DEF evidence, codes
<1>9. /\ Drops(evidence) <=> Drops(ev)
      /\ Reported(evidence) = Reported(ev) /\ Basis(evidence) = Basis(ev) /\ StopOf(evidence) = StopOf(ev)
      /\ \A q : (Mismatch(q, evidence) <=> Mismatch(q, ev)) /\ Counters(q, evidence) = Counters(q, ev)
  <2>1. Drops(evidence) <=> Drops(ev)
    BY <1>6 DEF Alike, Drops
  <2>2. Reported(evidence) = Reported(ev)
    BY <1>6 DEF Alike, Reported
  <2>3. Basis(evidence) = Basis(ev)
    BY <1>6, <2>2 DEF Alike, Basis
  <2>4. StopOf(evidence) = StopOf(ev)
    BY <1>6, <2>3 DEF Alike, StopOf
  <2>5. \A q : (Mismatch(q, evidence) <=> Mismatch(q, ev)) /\ Counters(q, evidence) = Counters(q, ev)
    BY <1>6, <2>2 DEF Alike, Mismatch, Reconciled, Counters
  <2> QED BY <2>1, <2>2, <2>3, <2>4, <2>5
<1>10. Terms(r, evidence)
  BY <1>2, <1>6, <1>9 DEF Terms, Few, Alike
<1>11. LogOk(r, requested)
  <2>1. ASSUME NEW i \in 1..Len(r.events)
        PROVE  IsEvent(r.events[i]) /\ (IsLive(r.events[i], requested) \/ IsClosing(r.events[i]))
    <3>1. IsEvent(r.events[i]) /\ (IsLive(r.events[i], duration) \/ IsClosing(r.events[i]))
      BY <1>2, <2>1 DEF LogOk
    <3>2. r.events[i].at \in Int
      BY <3>1 DEF IsEvent
    <3>3. IsLive(r.events[i], duration) => IsLive(r.events[i], requested)
      BY <1>4, <1>5, <3>2 DEF IsLive
    <3> QED BY <3>1, <3>3
  <2> QED BY <2>1 DEF LogOk
<1>12. /\ IsRecorder(limited) /\ LogOk(limited, requested) /\ Extends(limited, r, {"limit"})
       /\ Few(limited, "limit", noted) /\ Said(limited, ev.complete, "limit", noted \/ codes # {})
  <2>1. CASE capped /\ ~x.limitEvent
    <3>1. IsEvent(e) /\ IsClosing(e) /\ Kind(e) = "limit"
      BY DEF Event, IsEvent, IsClosing, Kind, NotesLimit, Session
    <3> HIDE DEF e
    <3>2. limited = AppendEvent(r, e, TRUE)
      BY <2>1
    <3>3. \A i \in 1..Len(r.events) : Kind(r.events[i]) # "limit"
      BY <1>2, <2>1 DEF Few
    <3>4. noted <=> Len(limited.events) > Len(r.events)
      BY <2>1
    <3> HIDE DEF limited, capped, noted, r
    <3>5. /\ IsRecorder(limited) /\ LogOk(limited, requested) /\ Extends(limited, r, {"limit"})
          /\ Few(limited, "limit", Len(limited.events) > Len(r.events)) /\ \A ok : Said(limited, ok, "limit", TRUE)
      BY <1>3, <1>5, <1>11, <3>1, <3>2, <3>3, EventAppended
    <3>6. Few(limited, "limit", noted) /\ Said(limited, ev.complete, "limit", noted \/ codes # {})
      BY <3>4, <3>5 DEF Few, Said
    <3> QED BY <3>5, <3>6
  <2>2. CASE ~(capped /\ ~x.limitEvent)
    <3>1. limited = r
      BY <2>2
    <3>2. ~(Len(r.events) > Len(r.events))
      <4>1. Len(r.events) \in Nat
        BY <1>3 DEF IsRecorder, IsSeq
      <4> QED BY <4>1
    <3>3. noted <=> x.limitEvent
      BY <3>1, <3>2
    <3>4. Few(r, "limit", noted) /\ Said(r, ev.complete, "limit", noted \/ codes # {})
      BY <1>2, <1>7, <2>2, <3>3 DEF Few, Said
    <3> HIDE DEF limited, noted
    <3> QED BY <1>3, <1>11, <3>1, <3>4, ExtendsSelf
  <2> QED BY <2>1, <2>2
<1> HIDE DEF limited
<1>13. noted \in BOOLEAN
  BY <1>3
<1> HIDE DEF noted, capped, requested
<1>14. /\ limited.records = r.records /\ limited.bytes = r.bytes /\ limited.last = r.last
       /\ Terms(limited, evidence)
  <2>1. limited.records = r.records /\ limited.bytes = r.bytes /\ limited.last = r.last
    BY <1>12 DEF Extends
  <2>2. (Mismatch(limited, evidence) <=> Mismatch(r, evidence)) /\ Counters(limited, evidence) = Counters(r, evidence)
    BY <2>1, MismatchKept
  <2>3. /\ \A needed : \A kind \in Terminals : Few(r, kind, needed) => Few(limited, kind, needed)
        /\ \A detail : \A kind \in Terminals : Details(r, kind, detail) => Details(limited, kind, detail)
    BY <1>12 DEF Extends, Terminals
  <2>4. Few(r, "udp-counter-mismatch", Mismatch(r, evidence)) => Few(limited, "udp-counter-mismatch", Mismatch(limited, evidence))
    BY <2>2, <2>3 DEF Few, Terminals
  <2> QED BY <1>10, <2>1, <2>2, <2>3, <2>4 DEF Terms, Terminals
<1>15. may
  <2>1. ~limited.finalized
    BY <1>12 DEF IsRecorder
  <2>2. FinalDuration(limited, requested) = requested
    <3>1. \E u \in {1, requested, limited.last + 1} : \A k \in {1, requested, limited.last + 1} : k <= u
      BY <1>3, <1>5, <1>14
    <3>2. /\ Top({1, requested, limited.last + 1}) \in {1, requested, limited.last + 1}
          /\ \A k \in {1, requested, limited.last + 1} : k <= Top({1, requested, limited.last + 1})
      BY <3>1, TopFacts
    <3> QED BY <1>3, <1>5, <1>14, <3>2 DEF FinalDuration
  <2> QED BY <1>3, <1>5, <1>6, <1>14, <2>1, <2>2 DEF MayFinalize
<1>16. closed = Closed(limited, evidence)
  BY <1>15
<1> HIDE DEF closed, may
<1>17. /\ IsRecorder(closed) /\ Extends(closed, limited, Terminals) /\ LogOk(closed, requested)
       /\ Terms(closed, evidence) /\ AllSaid(closed, evidence)
  BY <1>5, <1>8, <1>12, <1>14, <1>16, ClosedFacts
<1>18. /\ closed.last = r.last /\ Few(closed, "limit", noted)
       /\ Said(closed, evidence.complete, "limit", noted \/ codes # {})
  <2>1. ev.complete = evidence.complete
    BY <1>6 DEF Alike
  <2>2. "limit" \notin Terminals
    BY DEF Terminals
  <2> QED BY <1>12, <1>14, <1>17, <2>1, <2>2 DEF Extends
<1>19. /\ z.rec = closed /\ z.limitEvent = noted /\ z.ctx = <<requested, evidence>> /\ z.journal = x.journal
  BY DEF IsDialog, Fields
<1> HIDE DEF y, z
<1>20. z.ctx[1] = requested /\ z.ctx[2] = evidence
  BY <1>19
<1>21. Closing(z, requested, evidence)
  <2>1. evidence.journal = z.journal
    BY <1>2, <1>6, <1>19 DEF Alike
  <2>2. z.rec.last < requested /\ z.rec.last < MaxDuration
    BY <1>2, <1>5, <1>18, <1>19
  <2>3. Said(closed, evidence.complete, "limit", noted \/ evidence.codes # {})
    BY <1>6, <1>18
  <2> QED BY <1>5, <1>6, <1>8, <1>17, <1>18, <1>19, <2>1, <2>2, <2>3 DEF Closing
<1>22. ASSUME ~Excused(z)  PROVE Accepted(Document(closed, requested, evidence))
  <2>1. ~(evidence.journal.tail > requested) /\ ~Uncapped(closed, evidence) /\ ~LateGap(closed, requested) /\ ~Disordered(closed)
    <3>1. evidence.journal = z.journal
      BY <1>21 DEF Closing
    <3> QED BY <1>19, <1>20, <1>22, <3>1 DEF Excused
  <2>2. Said(closed, evidence.complete, "limit", evidence.codes # {})
    BY <1>6, <1>18 DEF Said
  <2>3. closed.last < requested
    BY <1>5, <1>18
  <2> QED BY <1>5, <1>6, <1>8, <1>17, <1>18, <2>1, <2>2, <2>3, AcceptedFacts
<1> QED BY <1>1, <1>15, <1>20, <1>21, <1>22 DEF a

-----------------------------------------------------------------------------
(* The log of a recording under way *)

\* The duration the recording has at time t, if it ended then.
Reach(x, t) == IF x.frozen # -1 THEN x.frozen ELSE Top({1, x.last, t - x.t0})

LEMMA ReachFacts ==
  ASSUME NEW x, IsDialog(x), NEW t \in Int, x.frozen # -1 => x.frozen >= 1
  PROVE  /\ Reach(x, t) \in Int /\ Reach(x, t) >= 1
         /\ x.frozen # -1 => Reach(x, t) = x.frozen
         /\ x.frozen = -1 => Reach(x, t) \in {1, x.last, t - x.t0} /\ x.last <= Reach(x, t) /\ t - x.t0 <= Reach(x, t)
<1>1. x.frozen \in Int /\ x.last \in Int /\ x.t0 \in Int
  BY DEF IsDialog
<1> DEFINE S == {1, x.last, t - x.t0}
<1>2. S \subseteq Int /\ \E z \in S : \A v \in S : v <= z
  BY <1>1
<1>3. Top(S) \in S /\ \A v \in S : v <= Top(S)
  BY <1>2, TopFacts
<1> QED BY <1>1, <1>2, <1>3 DEF Reach

\* What is noted of a capture under way was noted before the duration it has.  A limit is noted
\* at most once, when ingest has paused, unless the log is known to be incomplete.
LogLimit(x) == Few(x.rec, "limit", x.limitEvent) /\ Said(x.rec, x.logOk, "limit", x.limitEvent)
Unclosed(r) == \A kind \in Terminals : Few(r, kind, FALSE)
Log(x, t) ==
  /\ x.hasRec
  /\ x.rec.records > 0 => x.rec.last <= x.lastKept /\ x.rec.last < MaxDuration
  /\ x.frozen # -1 => x.frozen >= 1
  /\ LogOk(x.rec, Reach(x, t)) /\ Unclosed(x.rec)
  /\ LogLimit(x) /\ (~x.paused => ~x.limitEvent)

\* The duration the last status told is beyond what the recording has seen of its own capture.
Stale(x, t) == x.frozen = -1 /\ ~(x.stDur <= x.last \/ x.stDur <= t - x.t0)

LEMMA LogOkWider ==
  ASSUME NEW r, NEW end \in Int, NEW more \in Int, end <= more, LogOk(r, end)
  PROVE  LogOk(r, more)
<1>1. ASSUME NEW i \in 1..Len(r.events)
      PROVE  IsEvent(r.events[i]) /\ (IsLive(r.events[i], more) \/ IsClosing(r.events[i]))
  <2>1. IsEvent(r.events[i]) /\ (IsLive(r.events[i], end) \/ IsClosing(r.events[i])) /\ r.events[i].at \in Int
    BY DEF LogOk, IsEvent
  <2> QED BY <2>1 DEF IsLive
<1> QED BY <1>1 DEF LogOk

\* The log stays as it is while the duration grows.
LEMMA LogKept ==
  ASSUME NEW x, NEW y, IsDialog(x), IsDialog(y), NEW t \in Int, NEW u \in Int, Log(x, t),
         y.rec = x.rec, y.hasRec = x.hasRec, y.lastKept = x.lastKept, y.limitEvent = x.limitEvent,
         y.logOk = x.logOk, ~y.paused => ~x.paused,
         y.frozen # -1 => y.frozen >= 1, Reach(x, t) <= Reach(y, u)
  PROVE  Log(y, u)
<1>1. Reach(x, t) \in Int /\ Reach(y, u) \in Int
  BY ReachFacts DEF Log
<1>2. LogOk(y.rec, Reach(y, u))
  BY <1>1, LogOkWider DEF Log
<1> QED BY <1>2 DEF Log, LogLimit

\* An event noted before the end of a recording that has it, with what was noticed (z).
LEMMA RecordedLog ==
  ASSUME NEW x, NEW t \in Int, IsDialog(x), Log(x, t), NEW z, IsDialog(z),
         Same(z, x, {"paused", "reason", "limitEvent", "keys", "seqIssue"}),
         NEW e, IsEvent(e), e.type \in LiveTypes, e.type = Gap \/ e.at < Reach(x, t),
         z.limitEvent <=> x.limitEvent \/ NotesLimit(e), NotesLimit(e) => ~x.limitEvent, ~z.paused => ~z.limitEvent
  PROVE  LET y == RecordEvent(z, e) IN Log(y, t) /\ Same(y, z, {"rec", "logOk", "limitEvent"}) /\ IsDialog(y)
<1> DEFINE b == Bounded(e)
           r == z.rec
           q == AppendEvent(r, b, FALSE)
           kept == Len(q.events) > Len(r.events)
           y == RecordEvent(z, e)
           end == Reach(x, t)
<1>0. /\ z.rec = x.rec /\ z.hasRec = x.hasRec /\ z.lastKept = x.lastKept /\ z.frozen = x.frozen
      /\ z.last = x.last /\ z.t0 = x.t0 /\ z.logOk = x.logOk
  BY DEF Same, Fields
<1>1. IsRecorder(r) /\ FALSE \in BOOLEAN /\ x.hasRec /\ MaxDuration \in Nat /\ MaxDuration >= 1
  BY LimitsAssumption DEF IsDialog, Log
<1>2. y = Recorded(z, e)
  BY <1>0, <1>1 DEF RecordEvent
<1>3. IsDialog(y) /\ Same(y, z, {"rec", "logOk", "limitEvent"})
  BY <1>2, RecordedFacts
<1>4. y = [z EXCEPT !.rec = q, !.logOk = @ /\ kept, !.limitEvent = @ \/ (kept /\ NotesLimit(e))]
  BY <1>2 DEF Recorded, Bounded, NotesLimit
<1> HIDE DEF y, q, kept
<1>5. y.rec = q /\ (y.logOk <=> z.logOk /\ kept) /\ (y.limitEvent <=> z.limitEvent \/ (kept /\ NotesLimit(e)))
  BY <1>4 DEF IsDialog, Fields
<1>6. end \in Int
  BY ReachFacts DEF Log
<1>7. /\ b.type = e.type /\ b.detail = e.detail /\ b = [type |-> b.type, at |-> b.at, detail |-> b.detail]
      /\ b.at = IF e.at >= MaxDuration THEN MaxDuration - 1 ELSE e.at
  BY DEF Bounded, IsEvent
<1> HIDE DEF b, end
<1>8. IsEvent(b) /\ IsLive(b, end) /\ Kind(b) = (IF NotesLimit(e) THEN "limit" ELSE "plain")
  <2>1. e.at \in Int
    BY DEF IsEvent
  <2>2. b.at \in Int /\ b.at < MaxDuration /\ b.at <= e.at
    BY <1>1, <1>7, <2>1
  <2>3. b.type = Gap \/ b.at < end
    BY <1>6, <1>7, <2>1, <2>2 DEF end
  <2>4. Kind(b) = (IF NotesLimit(e) THEN "limit" ELSE "plain")
    BY <1>7 DEF Kind, NotesLimit, LiveTypes, Terminals, Gap
  <2> QED BY <1>7, <2>2, <2>3, <2>4 DEF IsEvent, IsLive
<1>9. LogOk(r, end) /\ q = AppendEvent(r, b, FALSE)
  BY <1>0 DEF Log, q, end
<1> HIDE DEF r
<1>10. /\ IsRecorder(q) /\ Extends(q, r, {Kind(b)}) /\ LogOk(q, end)
       /\ (\A i \in 1..Len(r.events) : Kind(r.events[i]) # Kind(b)) =>
            Few(q, Kind(b), Len(q.events) > Len(r.events)) /\ \A ok : Said(q, ok, Kind(b), TRUE)
  BY <1>1, <1>6, <1>8, <1>9, EventAppended
<1>11. q.last = r.last /\ q.records = r.records
  BY <1>10 DEF Extends
<1>12. Unclosed(q)
  <2>1. \A kind \in Terminals : kind \notin {Kind(b)}
    BY <1>8 DEF Terminals
  <2>2. Unclosed(r)
    BY <1>0 DEF Log, r
  <2> QED BY <1>10, <2>1, <2>2 DEF Unclosed, Extends
<1>13. LogLimit(y)
  <2>1. Few(r, "limit", x.limitEvent) /\ Said(r, x.logOk, "limit", x.limitEvent)
    BY <1>0 DEF Log, LogLimit, r
  <2>2. CASE NotesLimit(e)
    <3>1. \A i \in 1..Len(r.events) : Kind(r.events[i]) # "limit"
      BY <2>1, <2>2 DEF Few
    <3>2. Few(q, "limit", Len(q.events) > Len(r.events)) /\ \A ok : Said(q, ok, "limit", TRUE)
      BY <1>8, <1>10, <2>2, <3>1
    <3>3. y.limitEvent
      BY <1>5, <2>2
    <3> QED BY <1>5, <3>2, <3>3 DEF LogLimit, Few, Said
  <2>3. CASE ~NotesLimit(e)
    <3>1. "limit" \notin {Kind(b)} /\ (y.limitEvent <=> x.limitEvent)
      BY <1>5, <1>8, <2>3
    <3>2. Few(q, "limit", x.limitEvent) /\ Said(q, x.logOk, "limit", x.limitEvent)
      BY <1>10, <2>1, <3>1 DEF Extends
    <3> QED BY <1>0, <1>5, <3>1, <3>2 DEF LogLimit, Few, Said
  <2> QED BY <2>2, <2>3
<1>14. Reach(y, t) = end /\ y.frozen = x.frozen /\ y.paused = z.paused /\ y.hasRec = x.hasRec /\ y.lastKept = x.lastKept
  <2>1. y.frozen = z.frozen /\ y.last = z.last /\ y.t0 = z.t0 /\ y.paused = z.paused /\ y.hasRec = z.hasRec
        /\ y.lastKept = z.lastKept
    BY <1>3 DEF Same, Fields
  <2> QED BY <1>0, <2>1 DEF Reach, end
<1>15. ~y.paused => ~y.limitEvent
  BY <1>5, <1>14
<1>16. y.rec.records > 0 => y.rec.last <= y.lastKept /\ y.rec.last < MaxDuration
  BY <1>0, <1>5, <1>11, <1>14 DEF Log, r
<1> QED BY <1>0, <1>1, <1>3, <1>5, <1>10, <1>12, <1>13, <1>14, <1>15, <1>16 DEF Log, y

\* An event of this moment is noted before the end of the recording.
LEMMA OffsetBefore ==
  ASSUME NEW x, IsDialog(x), NEW t \in Int, x.frozen # -1 => x.frozen >= 1, ~Stale(x, t)
  PROVE  EventOffset(x, t) \in Int /\ EventOffset(x, t) < Reach(x, t)
<1>1. x.frozen \in Int /\ x.last \in Int /\ x.t0 \in Int /\ x.stDur \in Int
  BY DEF IsDialog
<1>2. /\ Reach(x, t) \in Int /\ Reach(x, t) >= 1
      /\ x.frozen # -1 => Reach(x, t) = x.frozen
      /\ x.frozen = -1 => x.last <= Reach(x, t) /\ t - x.t0 <= Reach(x, t)
  BY ReachFacts
<1> DEFINE S == {0, x.last, x.stDur, t - x.t0}
           m == IF x.frozen # -1 THEN x.frozen ELSE Top(S)
<1>3. S \subseteq Int /\ \E z \in S : \A v \in S : v <= z
  <2>1. PICK a \in Int : a = t - x.t0
    BY <1>1
  <2>2. PICK b \in {0, x.last} : 0 <= b /\ x.last <= b
    BY <1>1
  <2>3. PICK c \in {x.stDur, a} : x.stDur <= c /\ a <= c
    BY <1>1, <2>1
  <2>4. PICK z \in {b, c} : b <= z /\ c <= z
    BY <1>1, <2>1, <2>2, <2>3
  <2>5. z \in S /\ \A v \in S : v <= z
    BY <1>1, <2>1, <2>2, <2>3, <2>4
  <2> QED BY <1>1, <2>5
<1>4. Top(S) \in S
  BY <1>3, TopFacts
<1>5. m \in Int /\ m <= Reach(x, t)
  <2>1. CASE x.frozen # -1
    BY <1>1, <1>2, <2>1
  <2>2. CASE x.frozen = -1
    <3>1. x.stDur <= x.last \/ x.stDur <= t - x.t0
      BY <2>2 DEF Stale
    <3>2. \A v \in S : v \in Int /\ v <= Reach(x, t)
      BY <1>1, <1>2, <2>2, <3>1
    <3> HIDE DEF S
    <3> QED BY <1>4, <2>2, <3>2
  <2> QED BY <2>1, <2>2
<1> HIDE DEF m
<1>6. EventOffset(x, t) = Top({0, m - 1})
  BY DEF EventOffset, m
<1>7. \E z \in {0, m - 1} : \A v \in {0, m - 1} : v <= z
  BY <1>5
<1>8. Top({0, m - 1}) \in {0, m - 1}
  BY <1>7, TopFacts
<1> QED BY <1>2, <1>5, <1>6, <1>8

\* A pause of a recording that is not misled by a status is noted before its end.
LEMMA PauseLog ==
  ASSUME NEW x, NEW t \in Int, IsDialog(x), Log(x, t), ~Stale(x, t), NEW fault
  PROVE  Log(PauseIngest(x, t, fault), t)
<1> DEFINE y == PauseIngest(x, t, fault)
           z == [x EXCEPT !.paused = TRUE, !.reason = TRUE, !.limitEvent = x.limitEvent \/ fault = "duration"]
           e == Event(IF fault \in Limits THEN "capture-limit" ELSE "capture-backpressure",
                      EventOffset(z, t), <<fault>>)
<1>1. CASE x.paused
  BY <1>1 DEF PauseIngest
<1>2. CASE ~x.paused
  <2>1. y = RecordEvent(z, e)
    BY <1>2 DEF PauseIngest
  <2>2. Same(z, x, {"paused", "reason", "limitEvent"}) /\ z.paused = TRUE /\ z.reason = TRUE
    BY DEF Same, IsDialog, Fields
  <2>3. z.limitEvent = (x.limitEvent \/ fault = "duration")
    BY DEF IsDialog, Fields
  <2> HIDE DEF z
  <2>4. IsDialog(z)
    BY <2>2, <2>3 DEF IsDialog, Same, Fields
  <2>5. z.frozen = x.frozen /\ z.last = x.last /\ z.t0 = x.t0 /\ z.stDur = x.stDur
    BY <2>2 DEF Same, Fields
  <2>6. EventOffset(z, t) = EventOffset(x, t)
    BY <2>5 DEF EventOffset
  <2>7. EventOffset(x, t) \in Int /\ EventOffset(x, t) < Reach(x, t)
    BY OffsetBefore DEF Log
  <2>8. /\ IsEvent(e) /\ e.type \in LiveTypes /\ e.at < Reach(x, t)
        /\ NotesLimit(e) <=> fault = "duration"
    BY <2>6, <2>7 DEF Event, IsEvent, LiveTypes, NotesLimit, Limits
  <2> HIDE DEF e, y
  <2>9. Same(z, x, {"paused", "reason", "limitEvent", "keys", "seqIssue"})
    BY <2>2 DEF Same
  <2>10. ~x.limitEvent
    BY <1>2 DEF Log
  <2>11. (z.limitEvent <=> x.limitEvent \/ NotesLimit(e)) /\ (NotesLimit(e) => ~x.limitEvent) /\ (~z.paused => ~z.limitEvent)
    BY <2>2, <2>3, <2>8, <2>10
  <2>12. Log(y, t)
    BY <2>1, <2>4, <2>8, <2>9, <2>11, RecordedLog
  <2> QED BY <2>12 DEF y
<1> QED BY <1>1, <1>2

\* Only what is noted, and what is retained, matters to the log.
LEMMA LogCopied ==
  ASSUME NEW x, NEW y, NEW t \in Int, IsDialog(x), IsDialog(y), Log(x, t),
         y.rec.events = x.rec.events, y.rec.complete => x.rec.complete,
         y.rec.records > 0 => y.rec.last <= y.lastKept /\ y.rec.last < MaxDuration,
         y.hasRec = x.hasRec, y.limitEvent = x.limitEvent, y.logOk = x.logOk, y.paused = x.paused,
         y.frozen = x.frozen, NEW u \in Int, Reach(x, t) <= Reach(y, u)
  PROVE  Log(y, u)
<1>1. Reach(x, t) \in Int /\ Reach(y, u) \in Int
  BY ReachFacts DEF Log
<1>2. LogOk(x.rec, Reach(y, u))
  BY <1>1, LogOkWider DEF Log
<1>3. LogOk(y.rec, Reach(y, u))
  BY <1>2 DEF LogOk
<1>4. LogLimit(y) /\ Unclosed(y.rec)
  BY DEF Log, LogLimit, Unclosed, Few, Said
<1> QED BY <1>3, <1>4 DEF Log

\* Time passes, or more of the capture is seen.
LEMMA ReachGrows ==
  ASSUME NEW x, NEW y, NEW t \in Int, NEW u \in Int, IsDialog(x), IsDialog(y),
         y.frozen = x.frozen, x.frozen # -1 => x.frozen >= 1, x.last <= y.last, t - x.t0 <= u - y.t0
  PROVE  Reach(x, t) <= Reach(y, u)
<1>1. x.last \in Int /\ y.last \in Int /\ x.t0 \in Int /\ y.t0 \in Int /\ x.frozen \in Int
  BY DEF IsDialog
<1>2. /\ Reach(x, t) \in Int
      /\ x.frozen # -1 => Reach(x, t) = x.frozen
      /\ x.frozen = -1 => Reach(x, t) \in {1, x.last, t - x.t0}
  BY ReachFacts
<1>3. /\ Reach(y, u) \in Int /\ Reach(y, u) >= 1
      /\ y.frozen # -1 => Reach(y, u) = y.frozen
      /\ y.frozen = -1 => y.last <= Reach(y, u) /\ u - y.t0 <= Reach(y, u)
  BY ReachFacts
<1> QED BY <1>1, <1>2, <1>3

\* A record is kept within the limits, or the pause is noted.
LEMMA RetainLog ==
  ASSUME NEW x, NEW t \in Int, IsDialog(x), Log(x, t), ~Stale(x, t), NEW at \in Int, NEW size \in Nat, NEW origin
  PROVE  Log(Retain(x, t, at, size, origin), t)
<1> DEFINE fault == AppendFault(x.rec, at, size)
           y == Retain(x, t, at, size, origin)
           r == x.rec
           q == Kept(r, at, size)
           k == Top({x.lastKept, at})
<1>1. IsDialog(y)
  BY RetainStage DEF Stage
<1>2. CASE ~CanRetain(x, origin) \/ ~x.hasRec
  BY <1>2 DEF Retain
<1>3. CASE CanRetain(x, origin) /\ x.hasRec /\ fault = "none"
  <2>1. y = [x EXCEPT !.rec = q, !.lastKept = k]
    BY <1>3 DEF Retain, IsDialog, Fields
  <2>2. at < MaxDuration
    <3>1. ~(at >= MaxDuration)
      BY <1>3 DEF AppendFault
    <3> QED BY <3>1, LimitsAssumption
  <2>3. q.last = at /\ q.events = r.events /\ q.complete = r.complete
    BY DEF Kept, IsDialog, IsRecorder
  <2> HIDE DEF q
  <2>4. at <= k
    <3>1. x.lastKept \in Int
      BY DEF IsDialog
    <3>2. \E z \in {x.lastKept, at} : \A w \in {x.lastKept, at} : w <= z
      BY <3>1
    <3> QED BY <3>2, TopFacts
  <2> HIDE DEF k, y
  <2>5. Same(y, x, {"rec", "lastKept"}) /\ y.rec = q /\ y.lastKept = k
    BY <2>1 DEF IsDialog, Same, Fields
  <2>6. /\ y.hasRec = x.hasRec /\ y.limitEvent = x.limitEvent /\ y.logOk = x.logOk /\ y.paused = x.paused
        /\ y.frozen = x.frozen /\ y.last = x.last /\ y.t0 = x.t0
    BY <2>5 DEF Same, Fields
  <2>7. Reach(y, t) = Reach(x, t) /\ Reach(x, t) \in Int
    BY <2>6, ReachFacts DEF Reach, Log
  <2>8. Reach(x, t) <= Reach(y, t)
    BY <2>7
  <2>9. /\ y.rec.events = x.rec.events /\ (y.rec.complete => x.rec.complete)
        /\ y.rec.records > 0 => y.rec.last <= y.lastKept /\ y.rec.last < MaxDuration
    BY <2>2, <2>3, <2>4, <2>5
  <2>10. Log(y, t)
    BY <1>1, <2>6, <2>8, <2>9, LogCopied
  <2> QED BY <2>10 DEF y
<1>4. CASE CanRetain(x, origin) /\ x.hasRec /\ fault # "none"
  <2>1. y = PauseIngest(x, t, fault)
    BY <1>4 DEF Retain
  <2> HIDE DEF fault, y
  <2>2. Log(y, t)
    BY <2>1, PauseLog
  <2> QED BY <2>2 DEF y
<1> QED BY <1>2, <1>3, <1>4

\* An error is noted before the end of a recording that is not misled by a status.
LEMMA ErrorLog ==
  ASSUME NEW x, IsDialog(x), now \in Int, Log(x, now), ~Stale(x, now), NEW err
  PROVE  Log(RecordUdpError(x, err), now)
<1> DEFINE y == RecordUdpError(x, err)
           z == [x EXCEPT !.keys = @ \cup {err}]
           e == Event(IF err = "end" THEN "udp-event-stream-disconnected" ELSE "udp-bridge-error",
                      EventOffset(x, now), <<err>>)
<1>1. CASE x.owned = 0 \/ err \in x.keys
  BY <1>1 DEF RecordUdpError
<1>2. CASE ~(x.owned = 0 \/ err \in x.keys)
  <2>1. y = RecordEvent(z, e)
    BY <1>2 DEF RecordUdpError
  <2>2. Same(z, x, {"keys"})
    BY DEF Same, IsDialog, Fields
  <2> HIDE DEF z
  <2>3. IsDialog(z)
    BY <2>2 DEF IsDialog, Same, Fields
  <2>4. EventOffset(x, now) \in Int /\ EventOffset(x, now) < Reach(x, now)
    BY OffsetBefore DEF Log
  <2>5. IsEvent(e) /\ e.type \in LiveTypes /\ e.at < Reach(x, now) /\ ~NotesLimit(e)
    BY <2>4 DEF Event, IsEvent, LiveTypes, NotesLimit
  <2> HIDE DEF e, y
  <2>6. z.limitEvent = x.limitEvent /\ z.paused = x.paused
    BY <2>2 DEF Same, Fields
  <2>7. Same(z, x, {"paused", "reason", "limitEvent", "keys", "seqIssue"})
    BY <2>2 DEF Same
  <2>8. (z.limitEvent <=> x.limitEvent \/ NotesLimit(e)) /\ (NotesLimit(e) => ~x.limitEvent) /\ (~z.paused => ~z.limitEvent)
    BY <2>5, <2>6 DEF Log
  <2>9. PICK t \in Int : t = now
    OBVIOUS
  <2>10. Log(y, t)
    BY <2>1, <2>3, <2>5, <2>7, <2>8, <2>9, RecordedLog
  <2> QED BY <2>9, <2>10 DEF y
<1> QED BY <1>1, <1>2

\* Whether a status misleads depends on the duration seen so far.
LEMMA StaleKept ==
  ASSUME NEW x, NEW y, IsDialog(x), IsDialog(y), NEW t \in Int,
         y.frozen = x.frozen, y.stDur = x.stDur, y.t0 = x.t0, x.last <= y.last
  PROVE  Stale(y, t) => Stale(x, t)
<1>1. x.last \in Int /\ y.last \in Int /\ x.stDur \in Int
  BY DEF IsDialog
<1> QED BY <1>1 DEF Stale

\* A datagram of the capture, in its turn: what is missing before it is noted at its own time.
LEMMA DatagramLog ==
  ASSUME NEW x, IsDialog(x), now \in Int, Log(x, now), NEW m, IsDatagram(m), m.cap = x.owned => ~Stale(x, now),
         NEW origin
  PROVE  LET y == AcceptDatagram(x, m, origin) IN
         Log(y, now) /\ (Stale(y, now) => Stale(x, now)) /\ y.frozen = x.frozen
<1> DEFINE y == AcceptDatagram(x, m, origin)
           gap == m.seq # x.seq + 1 /\ ~x.seqIssue
           e == Event("udp-event-sequence-discontinuity", m.at, <<x.seq + 1, m.seq>>)
           w == [x EXCEPT !.seqIssue = TRUE]
           g == IF gap THEN RecordEvent(w, e) ELSE x
           late == IF x.frozen = -1 THEN Top({g.last, m.at + 1}) ELSE g.last
           z == [g EXCEPT !.seq = m.seq, !.units = g.units + 1, !.last = late]
<1>1. CASE m.cap # x.owned
  <2>1. y = x
    BY <1>1 DEF AcceptDatagram
  <2> QED BY <2>1
<1>2. CASE m.cap = x.owned
  <2>1. PICK t \in Int : t = now
    OBVIOUS
  <2>2. IsDialog(g) /\ Log(g, t) /\ Same(g, x, {"seqIssue", "rec", "logOk", "limitEvent"})
    <3>1. CASE gap
      <4>1. Same(w, x, {"seqIssue"}) /\ w.seqIssue = TRUE
        BY DEF Same, IsDialog, Fields
      <4> HIDE DEF w
      <4>2. IsDialog(w) /\ w.limitEvent = x.limitEvent /\ w.paused = x.paused
        BY <4>1 DEF IsDialog, Same, Fields
      <4>3. g = RecordEvent(w, e)
        BY <3>1
      <4>4. IsEvent(e) /\ e.type \in LiveTypes /\ e.type = Gap /\ ~NotesLimit(e)
        BY DEF Event, IsEvent, LiveTypes, NotesLimit, Gap, IsDatagram
      <4> HIDE DEF e, g
      <4>5. Same(w, x, {"paused", "reason", "limitEvent", "keys", "seqIssue"})
        BY <4>1 DEF Same
      <4>6. (w.limitEvent <=> x.limitEvent \/ NotesLimit(e)) /\ (NotesLimit(e) => ~x.limitEvent) /\ (~w.paused => ~w.limitEvent)
        BY <4>2, <4>4 DEF Log
      <4>7. Log(g, t) /\ Same(g, w, {"rec", "logOk", "limitEvent"}) /\ IsDialog(g)
        BY <2>1, <4>2, <4>3, <4>4, <4>5, <4>6, RecordedLog
      <4> QED BY <4>1, <4>7 DEF Same
    <3>2. CASE ~gap
      <4>1. g = x
        BY <3>2
      <4> QED BY <2>1, <4>1 DEF Same, IsDialog
    <3> QED BY <3>1, <3>2
  <2>3. y = Retain(z, t, m.at, 1, origin)
    <3>1. y = Retain(z, now, m.at, 1, origin)
      BY <1>2, Zenon DEF AcceptDatagram
    <3> QED BY <2>1, <3>1
  <2> HIDE DEF g, gap
  <2>4. /\ g.frozen = x.frozen /\ g.last = x.last /\ g.t0 = x.t0 /\ g.stDur = x.stDur
    BY <2>2 DEF Same, Fields
  <2>5. late \in Int /\ g.last <= late /\ m.at \in Int /\ m.seq \in Int /\ g.units + 1 \in Nat
    <3>1. g.last \in Int /\ m.at + 1 \in Int /\ g.units \in Nat
      BY <2>2 DEF IsDialog, IsDatagram
    <3>2. \E k \in {g.last, m.at + 1} : \A v \in {g.last, m.at + 1} : v <= k
      BY <3>1
    <3>3. Top({g.last, m.at + 1}) \in {g.last, m.at + 1} /\ g.last <= Top({g.last, m.at + 1})
      BY <3>2, TopFacts
    <3> QED BY <3>1, <3>3 DEF IsDatagram
  <2> HIDE DEF late
  <2>6. Same(z, g, {"seq", "units", "last"}) /\ z.seq = m.seq /\ z.units = g.units + 1 /\ z.last = late
    BY <2>2 DEF IsDialog, Same, Fields
  <2> HIDE DEF z
  <2>7. IsDialog(z)
    BY <2>2, <2>5, <2>6 DEF IsDialog, Same, Fields
  <2>8. /\ z.rec = g.rec /\ z.hasRec = g.hasRec /\ z.lastKept = g.lastKept /\ z.limitEvent = g.limitEvent
        /\ z.logOk = g.logOk /\ z.paused = g.paused /\ z.frozen = g.frozen /\ z.t0 = g.t0 /\ z.stDur = g.stDur
    BY <2>6 DEF Same, Fields
  <2>9. Reach(g, t) <= Reach(z, t)
    <3>1. g.t0 \in Int /\ t - g.t0 <= t - z.t0
      BY <2>2, <2>8 DEF IsDialog
    <3>2. g.last <= z.last
      BY <2>5, <2>6
    <3>3. g.frozen # -1 => g.frozen >= 1
      BY <2>2 DEF Log
    <3> QED BY <2>2, <2>7, <2>8, <3>1, <3>2, <3>3, ReachGrows
  <2>10. Log(z, t)
    <3>1. z.frozen # -1 => z.frozen >= 1
      BY <2>2, <2>8 DEF Log
    <3> QED BY <2>2, <2>7, <2>8, <2>9, <3>1, LogKept
  <2>11. x.last <= z.last /\ z.frozen = x.frozen /\ z.stDur = x.stDur /\ z.t0 = x.t0
    BY <2>4, <2>5, <2>6, <2>8
  <2>12. Stale(z, t) => Stale(x, t)
    BY <2>7, <2>11, StaleKept
  <2>13. ~Stale(z, t)
    BY <1>2, <2>1, <2>12
  <2>14. Log(y, t) /\ Same(y, z, Kepts) /\ IsDialog(y)
    <3>1. PICK size, at : size = 1 /\ at = m.at
      OBVIOUS
    <3>2. size \in Nat /\ at \in Int
      BY <2>5, <3>1
    <3>3. y = Retain(z, t, at, size, origin)
      BY <2>3, <3>1
    <3> HIDE DEF y
    <3>4. Log(y, t)
      BY <2>7, <2>10, <2>13, <3>2, <3>3, RetainLog
    <3>5. Stage(y, z) /\ Same(y, z, Kepts)
      BY <2>7, <3>2, <3>3, RetainStage
    <3> QED BY <3>4, <3>5 DEF Stage
  <2> HIDE DEF y
  <2>15. y.frozen = z.frozen /\ y.last = z.last /\ y.stDur = z.stDur /\ y.t0 = z.t0 /\ z.last <= y.last
    <3>1. z.last \in Int
      BY <2>7 DEF IsDialog
    <3> QED BY <2>14, <3>1 DEF Same, Fields, Kepts
  <2>16. Stale(y, t) => Stale(z, t)
    BY <2>7, <2>14, <2>15, StaleKept
  <2> QED BY <2>1, <2>11, <2>13, <2>14, <2>15, <2>16 DEF y
<1> QED BY <1>1, <1>2

\* The buffered datagrams are accepted after a status that does not mislead.
LEMMA FlushLog ==
  ASSUME NEW x, IsDialog(x), now \in Int, Log(x, now), ~Stale(x, now),
         NEW pend, IsSeq(pend), \A i \in 1..Len(pend) : IsDatagram(pend[i])
  PROVE  LET y == Flush(x, pend) IN Log(y, now) /\ ~Stale(y, now)
<1> DEFINE n == Len(pend)
           f == CHOOSE f : Flushing(f, x, pend, n)
           Good(y) == IsDialog(y) /\ Log(y, now) /\ ~Stale(y, now)
<1>1. Flush(x, pend) = f[n][1]
  BY DEF Flush, Flushing, FlushOne
<1>2. n \in Nat
  BY DEF IsSeq
<1>3. Flushing(f, x, pend, n)
  <2>1. \E h : Flushing(h, x, pend, n)
    BY <1>2, FlushExists
  <2> QED BY <2>1
<1> HIDE DEF f, n
<1> DEFINE S == {i \in Nat : i <= n => Good(f[i][1])}
<1>4. 0 \in S
  <2>1. 0 \in 0..n
    BY <1>2
  <2>2. f[0] = IF 0 = 0 THEN <<x, TRUE>> ELSE FlushOne(x, f[0 - 1], pend[0])
    BY <1>3, <2>1 DEF Flushing
  <2>3. f[0] = <<x, TRUE>>
    BY <2>2
  <2> QED BY <2>3
<1>5. ASSUME NEW i \in Nat, i \in S  PROVE i + 1 \in S
  <2> SUFFICES ASSUME i + 1 <= n  PROVE Good(f[i + 1][1])
    BY <1>5
  <2> DEFINE acc == f[i]
             m == pend[i + 1]
             origin == IF acc[2] THEN "pre-status-buffer" ELSE "live"
             y == AcceptDatagram(acc[1], m, origin)
  <2>1. i + 1 \in 1..n /\ i + 1 \in 0..n /\ i + 1 # 0 /\ (i + 1) - 1 = i
    BY <1>2
  <2>2. Good(acc[1])
    BY <1>2, <1>5
  <2>3. f[i + 1] = FlushOne(x, acc, m)
    BY <1>3, <2>1 DEF Flushing
  <2>4. f[i + 1] = acc \/ f[i + 1][1] = y
    BY <2>3 DEF FlushOne
  <2>5. IsDatagram(m)
    BY <2>1 DEF n
  <2> HIDE DEF acc, m, origin
  <2>6. Good(y)
    <3>1. PICK x1 : x1 = acc[1]
      OBVIOUS
    <3>2. y = AcceptDatagram(x1, m, origin) /\ IsDialog(x1) /\ Log(x1, now) /\ ~Stale(x1, now)
      BY <2>2, <3>1
    <3> HIDE DEF y
    <3>3. Log(y, now) /\ (Stale(y, now) => Stale(x1, now))
      BY <2>5, <3>2, DatagramLog
    <3>4. IsDialog(y)
      BY <2>5, <3>2, DatagramStage DEF Stage
    <3> QED BY <3>2, <3>3, <3>4
  <2> HIDE DEF y
  <2> QED BY <2>2, <2>4, <2>6
<1> HIDE DEF S
<1>6. n \in S
  <2>1. Nat \subseteq S
    BY <1>4, <1>5, SetInduction
  <2> QED BY <1>2, <2>1
<1>7. Good(f[n][1])
  BY <1>2, <1>6 DEF S
<1> QED BY <1>1, <1>7

\* What can wait for a recorder: the overflow of the buffer of datagrams.
Overflowed == Event("capture-backpressure", Session, <<"prestatus">>)
Waits(x) == \A i \in 1..Len(x.pendEvents) : x.pendEvents[i] = Overflowed

\* The waiting events are noted first.
LEMMA NotedLog ==
  ASSUME NEW x, Waits(x), NEW own, IsDialog(own), IsSeq(x.pendEvents), NEW t \in Int, Log(own, t)
  PROVE  Log(Noted(x, own), t)
<1> DEFINE s == x.pendEvents
           n == Len(s)
           f == CHOOSE f : Noting(f, own, s, n)
           Good(y) == IsDialog(y) /\ Log(y, t)
<1>1. Noted(x, own) = f[n] /\ IsSeq(s) /\ \A i \in 1..n : s[i] = Overflowed
  BY DEF Noted, Waits
<1>2. n \in Nat
  BY <1>1 DEF IsSeq
<1>3. Noting(f, own, s, n)
  <2>1. \E h : Noting(h, own, s, n)
    BY <1>2, NotingExists
  <2> QED BY <2>1
<1> HIDE DEF f, n, s
<1> DEFINE S == {i \in Nat : i <= n => Good(f[i])}
<1>4. 0 \in S
  <2>1. f[0] = own
    BY <1>2, <1>3 DEF Noting
  <2> QED BY <2>1
<1>5. ASSUME NEW i \in Nat, i \in S  PROVE i + 1 \in S
  <2> SUFFICES ASSUME i + 1 <= n  PROVE Good(f[i + 1])
    BY <1>5
  <2>1. i + 1 \in 0..n /\ i + 1 \in 1..n /\ i + 1 # 0 /\ (i + 1) - 1 = i
    BY <1>2
  <2>2. Good(f[i])
    BY <1>2, <1>5
  <2>3. PICK e : e = Overflowed
    OBVIOUS
  <2>4. f[i + 1] = Recorded(f[i], e)
    BY <1>1, <1>3, <2>1, <2>3 DEF Noting
  <2>5. PICK a : a = f[i]
    OBVIOUS
  <2>6. IsDialog(a) /\ Log(a, t)
    BY <2>2, <2>5
  <2>7. f[i + 1] = RecordEvent(a, e)
    BY <2>4, <2>5, <2>6 DEF RecordEvent, Log
  <2>8. IsEvent(e) /\ e.type \in LiveTypes /\ e.at = -1 /\ ~NotesLimit(e)
    BY <2>3 DEF Overflowed, Event, IsEvent, LiveTypes, NotesLimit, Session
  <2>9. e.at < Reach(a, t)
    <3>1. Reach(a, t) \in Int /\ Reach(a, t) >= 1
      BY <2>6, ReachFacts DEF Log
    <3> QED BY <2>8, <3>1
  <2>10. Same(a, a, {"paused", "reason", "limitEvent", "keys", "seqIssue"})
    BY <2>6 DEF Same, IsDialog
  <2>11. (a.limitEvent <=> a.limitEvent \/ NotesLimit(e)) /\ (NotesLimit(e) => ~a.limitEvent) /\ (~a.paused => ~a.limitEvent)
    BY <2>6, <2>8 DEF Log
  <2>12. LET y == RecordEvent(a, e) IN Log(y, t) /\ IsDialog(y)
    BY <2>6, <2>8, <2>9, <2>10, <2>11, RecordedLog
  <2> QED BY <2>7, <2>12
<1> HIDE DEF S
<1>6. n \in S
  <2>1. Nat \subseteq S
    BY <1>4, <1>5, SetInduction
  <2> QED BY <1>2, <2>1
<1>7. Good(f[n])
  BY <1>2, <1>6 DEF S
<1> QED BY <1>1, <1>7

\* The log of a capture that has just begun.
LEMMA FirstLog ==
  ASSUME NEW x, x.hasRec, x.rec = NewRecorder, x.frozen = -1, x.limitEvent = FALSE, NEW t
  PROVE  Log(x, t)
<1>1. x.rec.records = 0 /\ Len(x.rec.events) = 0
  BY DEF NewRecorder
<1>2. 1..Len(x.rec.events) = {}
  BY <1>1
<1>3. LogOk(x.rec, Reach(x, t)) /\ Unclosed(x.rec) /\ LogLimit(x)
  BY <1>2 DEF LogOk, Unclosed, LogLimit, Few, Said
<1> QED BY <1>1, <1>3 DEF Log

\* A recording begins with the duration its own status tells.
LEMMA EstablishLog ==
  ASSUME NEW x, IsDialog(x), x.frozen = -1, x.limitEvent = FALSE, Waits(x), NEW st \in Statuses, x.stDur = st.dur,
         now \in Int
  PROVE  LET y == Establish(x, st) IN Log(y, now) /\ ~Stale(y, now)
<1> DEFINE own == Owner(x, st)
           fl == Noted(x, own)
           r == [fl.rec EXCEPT !.complete = fl.rec.complete /\ fl.logOk]
           mk == [fl EXCEPT !.rec = r, !.t0 = now - st.dur]
           y == Establish(x, st)
<1>1. y = Flush(mk, x.pend)
  <2>1. fl = LET done[i \in 0..Len(x.pendEvents)] == IF i = 0 THEN own ELSE Recorded(done[i - 1], x.pendEvents[i])
             IN done[Len(x.pendEvents)]
    BY DEF Noted, Noting
  <2> QED BY <2>1 DEF Establish, Owner
<1>2. st.cap \in Nat /\ st.dur \in Int /\ x.t0 \in Int
  BY DEF Statuses, IsDialog
<1>3. /\ own = [f \in Fields |-> own[f]] /\ Same(own, x, {"owned", "hasRec", "rec", "pendEvents", "pend"})
      /\ own.owned = st.cap /\ own.hasRec = TRUE /\ own.rec = NewRecorder /\ own.pendEvents = <<>> /\ own.pend = <<>>
  BY DEF Owner, IsDialog, Same, Fields
<1> HIDE DEF own
<1>4. /\ own.frozen = x.frozen /\ own.limitEvent = x.limitEvent /\ own.last = x.last /\ own.t0 = x.t0
      /\ own.stDur = x.stDur
  BY <1>3 DEF Same, Fields
<1>5. IsDialog(own)
  <2>1. IsRecorder(NewRecorder) /\ IsSeq(<<>>) /\ Len(<<>>) = 0
    BY NewRecorderFacts DEF IsSeq
  <2>2. /\ own.units = x.units /\ own.seq = x.seq /\ own.journal = x.journal /\ own.frozen = x.frozen
        /\ own.last = x.last /\ own.lastKept = x.lastKept /\ own.stDur = x.stDur /\ own.t0 = x.t0
        /\ own.verified = x.verified /\ own.paused = x.paused /\ own.closed = x.closed
        /\ own.seqIssue = x.seqIssue /\ own.limitEvent = x.limitEvent /\ own.logOk = x.logOk
        /\ own.reason = x.reason
    BY <1>3 DEF Same, Fields
  <2>3. IsSeq(own.pend) /\ \A i \in 1..Len(own.pend) : IsDatagram(own.pend[i])
    BY <1>3, <2>1
  <2> QED BY <1>2, <1>3, <2>1, <2>2, <2>3 DEF IsDialog
<1>6. PICK t \in Int : t = st.dur + x.t0
  BY <1>2
<1>7. Log(own, t)
  BY <1>3, <1>4, FirstLog
<1>8. Log(fl, t) /\ IsDialog(fl) /\ Same(fl, own, {"rec", "logOk", "limitEvent"})
  <2>1. IsSeq(x.pendEvents)
    BY DEF IsDialog
  <2> QED BY <1>5, <1>7, <2>1, NotedLog, NotedFacts
<1> HIDE DEF fl
<1>9. fl.frozen = x.frozen /\ fl.last = x.last /\ fl.t0 = x.t0 /\ fl.stDur = x.stDur /\ fl.lastKept \in Int
  BY <1>4, <1>8 DEF Same, Fields, IsDialog
<1>10. /\ IsRecorder(r) /\ r.events = fl.rec.events /\ (r.complete => fl.rec.complete)
       /\ r.records = fl.rec.records /\ r.last = fl.rec.last
  <2>1. IsRecorder(fl.rec) /\ fl.logOk \in BOOLEAN
    BY <1>8 DEF IsDialog
  <2>2. PICK c \in BOOLEAN : c <=> fl.rec.complete /\ fl.logOk
    OBVIOUS
  <2>3. r = [fl.rec EXCEPT !.complete = c]
    BY <2>1, <2>2 DEF IsRecorder
  <2> HIDE DEF r
  <2> QED BY <2>1, <2>2, <2>3 DEF IsRecorder
<1> HIDE DEF r
<1>11. Same(mk, fl, {"rec", "t0"}) /\ mk.rec = r /\ mk.t0 = now - st.dur
  BY <1>8 DEF IsDialog, Same, Fields
<1> HIDE DEF mk
<1>12. /\ mk.hasRec = fl.hasRec /\ mk.limitEvent = fl.limitEvent /\ mk.logOk = fl.logOk /\ mk.paused = fl.paused
       /\ mk.frozen = fl.frozen /\ mk.last = fl.last /\ mk.lastKept = fl.lastKept /\ mk.stDur = fl.stDur
  BY <1>11 DEF Same, Fields
<1>13. IsDialog(mk)
  <2>1. now - st.dur \in Int
    BY <1>2
  <2> QED BY <1>8, <1>10, <1>11, <2>1 DEF IsDialog, Same, Fields
<1>14. Reach(fl, t) <= Reach(mk, now)
  <2>1. t - fl.t0 <= now - mk.t0
    BY <1>2, <1>6, <1>9, <1>11
  <2>2. fl.last <= mk.last
    <3>1. fl.last \in Int
      BY <1>8 DEF IsDialog
    <3> QED BY <1>12, <3>1
  <2>3. PICK u \in Int : u = now
    OBVIOUS
  <2>4. fl.frozen # -1 => fl.frozen >= 1
    BY <1>8 DEF Log
  <2>5. Reach(fl, t) <= Reach(mk, u)
    BY <1>8, <1>12, <1>13, <2>1, <2>2, <2>3, <2>4, ReachGrows
  <2> QED BY <2>3, <2>5
<1>15. Log(mk, now)
  <2>1. mk.rec.records > 0 => mk.rec.last <= mk.lastKept /\ mk.rec.last < MaxDuration
    BY <1>8, <1>10, <1>11, <1>12 DEF Log
  <2>2. PICK u \in Int : u = now
    OBVIOUS
  <2>3. Log(mk, u)
    BY <1>8, <1>10, <1>11, <1>12, <1>13, <1>14, <2>1, <2>2, LogCopied
  <2> QED BY <2>2, <2>3
<1>16. ~Stale(mk, now)
  <2>1. now - mk.t0 = st.dur
    BY <1>2, <1>11
  <2> QED BY <1>2, <1>9, <1>12, <2>1 DEF Stale
<1>17. PICK pend : pend = x.pend
  OBVIOUS
<1>18. IsSeq(pend) /\ (\A i \in 1..Len(pend) : IsDatagram(pend[i])) /\ y = Flush(mk, pend)
  BY <1>1, <1>17 DEF IsDialog
<1> HIDE DEF y
<1>19. Log(y, now) /\ ~Stale(y, now)
  BY <1>13, <1>15, <1>16, <1>18, FlushLog
<1> QED BY <1>19 DEF y

\* Freezing fixes the duration the recording has.
LEMMA FreezeLog ==
  ASSUME NEW x, NEW t \in Int, IsDialog(x), Log(x, t)
  PROVE  LET y == Freeze(x, t) IN Log(y, t) /\ y.frozen # -1 /\ ~Stale(y, t)
<1> DEFINE y == Freeze(x, t)
           top == Top({1, x.last, t - x.t0})
<1>1. CASE x.frozen # -1
  <2>1. y = x
    BY <1>1 DEF Freeze
  <2> QED BY <1>1, <2>1 DEF Stale
<1>2. CASE x.frozen = -1
  <2>1. Reach(x, t) = top /\ top \in Int /\ top >= 1
    BY <1>2, ReachFacts DEF Reach, Log
  <2>2. y = [x EXCEPT !.frozen = top]
    BY <1>2 DEF Freeze
  <2> HIDE DEF top
  <2>3. Same(y, x, {"frozen"}) /\ y.frozen = top
    BY <2>2 DEF IsDialog, Same, Fields
  <2> HIDE DEF y
  <2>4. IsDialog(y)
    BY <2>1, <2>3 DEF IsDialog, Same, Fields
  <2>5. /\ y.rec = x.rec /\ y.hasRec = x.hasRec /\ y.lastKept = x.lastKept /\ y.limitEvent = x.limitEvent
        /\ y.logOk = x.logOk /\ y.paused = x.paused
    BY <2>3 DEF Same, Fields
  <2>6. y.frozen # -1 /\ y.frozen >= 1
    BY <2>1, <2>3
  <2>7. Reach(y, t) = top
    BY <2>3, <2>6 DEF Reach
  <2>8. Reach(x, t) <= Reach(y, t)
    BY <2>1, <2>7
  <2>9. Log(y, t)
    BY <2>4, <2>5, <2>6, <2>8, LogKept
  <2> QED BY <2>6, <2>9 DEF Stale, y
<1> QED BY <1>1, <1>2

\* A status of the own capture does not mislead; one of another capture may.
LEMMA StatusLog ==
  ASSUME NEW x, IsDialog(x), now \in Int, Log(x, now), NEW st \in Statuses
  PROVE  LET y == AcceptStatus(x, st) IN
         Log(y, now) /\ (x.purpose = "recording" /\ x.owned # 0 /\ st.cap = x.owned => ~Stale(y, now))
         /\ y.frozen = x.frozen
<1> DEFINE y == AcceptStatus(x, st)
           F == {"stDur", "journal", "last"}
           late == IF x.frozen = -1 THEN Top({x.last, st.dur}) ELSE x.last
           u == [x EXCEPT !.stDur = st.dur]
           z == [u EXCEPT !.journal = st.journal, !.last = late]
           skip == x.purpose # "recording" \/ x.owned = 0 \/ st.cap # x.owned
<1>1. st.dur \in Int /\ st.journal \in Journals /\ x.last \in Int
  BY DEF Statuses, IsDialog
<1>2. late \in Int /\ x.last <= late /\ (x.frozen = -1 => st.dur <= late)
  <2> DEFINE S == {x.last, st.dur}
  <2>1. S \subseteq Int /\ \E v \in S : \A w \in S : w <= v
    BY <1>1
  <2> HIDE DEF S
  <2>2. Top(S) \in S /\ \A v \in S : v <= Top(S)
    BY <2>1, TopFacts
  <2> QED BY <1>1, <2>1, <2>2 DEF S
<1>3. u.owned = x.owned /\ u.frozen = x.frozen /\ u.last = x.last /\ u.purpose = x.purpose
  BY DEF IsDialog, Fields
<1>4. y = IF skip THEN u ELSE IF st.err = "none" THEN z ELSE RecordUdpError(z, st.err)
  BY <1>3 DEF AcceptStatus, IsDialog, Fields
<1>5. Same(u, x, F) /\ u.stDur = st.dur /\ u.last = x.last /\ u.journal = x.journal
  BY DEF IsDialog, Same, Fields
<1>6. Same(z, x, F) /\ z.stDur = st.dur /\ z.last = late /\ z.journal = st.journal
  BY DEF IsDialog, Same, Fields
<1> HIDE DEF late, u, z
<1>7. PICK t \in Int : t = now
  OBVIOUS
<1>8. ASSUME NEW w, Same(w, x, F), w.stDur \in Int, w.last \in Int, w.journal \in Journals, x.last <= w.last
      PROVE  IsDialog(w) /\ Log(w, now) /\ w.frozen = x.frozen
  <2>1. /\ w.rec = x.rec /\ w.hasRec = x.hasRec /\ w.lastKept = x.lastKept /\ w.limitEvent = x.limitEvent
        /\ w.logOk = x.logOk /\ w.paused = x.paused /\ w.frozen = x.frozen /\ w.t0 = x.t0
    BY <1>8 DEF Same, Fields
  <2>2. IsDialog(w)
    BY <1>8 DEF IsDialog, Same, Fields
  <2>3. t - x.t0 <= t - w.t0
    BY <2>1 DEF IsDialog
  <2>4. x.frozen # -1 => x.frozen >= 1
    BY DEF Log
  <2>5. Reach(x, t) <= Reach(w, t)
    BY <1>8, <2>1, <2>2, <2>3, <2>4, ReachGrows
  <2>6. Log(w, t)
    BY <1>7, <2>1, <2>2, <2>4, <2>5, LogKept
  <2> QED BY <1>7, <2>1, <2>2, <2>6
<1>9. CASE skip
  <2>1. y = u /\ x.journal \in Journals /\ x.last <= x.last
    BY <1>1, <1>4, <1>9 DEF IsDialog
  <2> QED BY <1>1, <1>5, <1>8, <1>9, <2>1
<1>10. CASE ~skip
  <2>1. IsDialog(z) /\ Log(z, now) /\ z.frozen = x.frozen
    BY <1>1, <1>2, <1>6, <1>8
  <2>2. ~Stale(z, now)
    BY <1>2, <1>6, <2>1 DEF Stale
  <2>3. CASE st.err = "none"
    <3>1. y = z
      BY <1>4, <1>10, <2>3
    <3> QED BY <2>1, <2>2, <3>1
  <2>4. CASE st.err # "none"
    <3>1. PICK err : err = st.err
      OBVIOUS
    <3>2. y = RecordUdpError(z, err)
      BY <1>4, <1>10, <2>4, <3>1
    <3> HIDE DEF y
    <3>3. Log(y, now)
      BY <2>1, <2>2, <3>2, ErrorLog
    <3>4. IsDialog(y) /\ Same(y, z, {"keys", "rec", "logOk", "limitEvent", "pendEvents"})
      BY <2>1, <3>2, ErrorStage DEF Stage
    <3>5. y.frozen = z.frozen /\ y.stDur = z.stDur /\ y.t0 = z.t0 /\ y.last = z.last /\ z.last \in Int
      BY <2>1, <3>4 DEF Same, Fields, IsDialog
    <3>6. ~Stale(y, now)
      BY <2>2, <3>5 DEF Stale
    <3> QED BY <2>1, <3>3, <3>5, <3>6 DEF y
  <2> QED BY <2>3, <2>4
<1> QED BY <1>9, <1>10

\* A fatal error of the stream freezes the duration before it is noted.
LEMMA AcceptErrorLog ==
  ASSUME NEW x, IsDialog(x), now \in Int, Log(x, now), x.owned # 0, NEW err, err \in Fatal \/ ~Stale(x, now)
  PROVE  LET y == AcceptError(x, err) IN
         Log(y, now) /\ (Stale(y, now) => Stale(x, now)) /\ (x.frozen # -1 => y.frozen # -1)
<1> DEFINE y == AcceptError(x, err)
           fatal == x.owned # 0 /\ err \in Fatal
           fr == Freeze(x, now)
           z == IF fatal THEN [fr EXCEPT !.closed = TRUE, !.reason = TRUE] ELSE x
<1>1. y = RecordUdpError(z, err)
  BY DEF AcceptError
<1>2. PICK t \in Int : t = now
  OBVIOUS
<1>3. IsDialog(z) /\ Log(z, t) /\ ~Stale(z, t) /\ (x.frozen # -1 => z.frozen # -1)
  <2>1. CASE ~fatal
    BY <1>2, <2>1
  <2>2. CASE fatal
    <3>1. fr = Freeze(x, t)
      BY <1>2
    <3> HIDE DEF fr
    <3>2. IsDialog(fr) /\ Log(fr, t) /\ fr.frozen # -1
      BY <1>2, <3>1, FreezeLog, FreezeStage DEF Stage
    <3>3. z = [fr EXCEPT !.closed = TRUE, !.reason = TRUE]
      BY <2>2
    <3>4. Same(z, fr, {"closed", "reason"}) /\ z.closed = TRUE /\ z.reason = TRUE
      BY <3>2, <3>3 DEF IsDialog, Same, Fields
    <3> HIDE DEF z
    <3>5. IsDialog(z)
      BY <3>2, <3>4 DEF IsDialog, Same, Fields
    <3>6. /\ z.rec = fr.rec /\ z.hasRec = fr.hasRec /\ z.lastKept = fr.lastKept /\ z.limitEvent = fr.limitEvent
          /\ z.logOk = fr.logOk /\ z.paused = fr.paused /\ z.frozen = fr.frozen
      BY <3>4 DEF Same, Fields
    <3>7. Reach(z, t) = Reach(fr, t) /\ Reach(fr, t) \in Int
      BY <3>2, <3>6, ReachFacts DEF Reach, Log
    <3>8. Reach(fr, t) <= Reach(z, t) /\ (z.frozen # -1 => z.frozen >= 1)
      BY <3>2, <3>6, <3>7 DEF Log
    <3>9. Log(z, t)
      BY <3>2, <3>5, <3>6, <3>8, LogKept
    <3> QED BY <3>2, <3>5, <3>6, <3>9 DEF Stale
  <2> QED BY <2>1, <2>2
<1> HIDE DEF y, z
<1>4. Log(y, now)
  BY <1>1, <1>2, <1>3, ErrorLog
<1>5. IsDialog(y) /\ Same(y, z, {"keys", "rec", "logOk", "limitEvent", "pendEvents"})
  BY <1>1, <1>3, ErrorStage DEF Stage
<1>6. y.frozen = z.frozen /\ y.stDur = z.stDur /\ y.t0 = z.t0 /\ y.last = z.last
  BY <1>5 DEF Same, Fields
<1>7. ~Stale(y, now)
  BY <1>2, <1>3, <1>6 DEF Stale
<1> QED BY <1>3, <1>4, <1>6, <1>7 DEF y

\* The deadline of the last datagrams is noted within the frozen duration.
LEMMA TimeoutLog ==
  ASSUME NEW x, IsDialog(x), now \in Int, Log(x, now), ~Stale(x, now)
  PROVE  LET y == RecordEvent([x EXCEPT !.reason = TRUE],
                    Event("udp-event-stream-disconnected", EventOffset(x, now), <<"drain">>))
         IN Log(y, now) /\ IsDialog(y) /\ Same(y, x, {"reason", "rec", "logOk", "limitEvent"})
<1> DEFINE z == [x EXCEPT !.reason = TRUE]
           e == Event("udp-event-stream-disconnected", EventOffset(x, now), <<"drain">>)
           y == RecordEvent(z, e)
<1>1. Same(z, x, {"reason"}) /\ z.reason = TRUE
  BY DEF Same, IsDialog, Fields
<1> HIDE DEF z
<1>2. IsDialog(z) /\ z.limitEvent = x.limitEvent /\ z.paused = x.paused
  BY <1>1 DEF IsDialog, Same, Fields
<1>3. EventOffset(x, now) \in Int /\ EventOffset(x, now) < Reach(x, now)
  BY OffsetBefore DEF Log
<1>4. IsEvent(e) /\ e.type \in LiveTypes /\ e.at < Reach(x, now) /\ ~NotesLimit(e)
  BY <1>3 DEF Event, IsEvent, LiveTypes, NotesLimit
<1>5. y = RecordEvent(z, e)
  OBVIOUS
<1>6. PICK ee : ee = e
  OBVIOUS
<1> HIDE DEF e, y
<1>7. Same(z, x, {"paused", "reason", "limitEvent", "keys", "seqIssue"})
  BY <1>1 DEF Same
<1>8. (z.limitEvent <=> x.limitEvent \/ NotesLimit(e)) /\ (NotesLimit(e) => ~x.limitEvent) /\ (~z.paused => ~z.limitEvent)
  BY <1>2, <1>4 DEF Log
<1>9. PICK t \in Int : t = now
  OBVIOUS
<1>10. Log(y, t) /\ Same(y, z, {"rec", "logOk", "limitEvent"}) /\ IsDialog(y)
  BY <1>2, <1>4, <1>5, <1>7, <1>8, <1>9, RecordedLog
<1>11. Same(y, x, {"reason", "rec", "logOk", "limitEvent"})
  BY <1>1, <1>10 DEF Same
<1> QED BY <1>9, <1>10, <1>11 DEF y, e, z

\* What a message is to the owner of capture c.
IsStatus(m, c) == m.k = "status" /\ m.st.cap = c
IsOther(m, c) == m.k = "status" /\ m.st.cap # c

\* A message is taken in.
LEMMA ReceivedLog ==
  ASSUME NEW x, IsDialog(x), now \in Int, Log(x, now), x.owned # 0, x.purpose = "recording", NEW m, Told(m),
         m.k = "datagram" /\ m.cap = x.owned => ~Stale(x, now),
         m.k = "error" => m.err \in Fatal \/ ~Stale(x, now)
  PROVE  LET y == Received(x, m) IN
         /\ Log(y, now)
         /\ Stale(y, now) => Stale(x, now) \/ IsOther(m, x.owned)
         /\ IsStatus(m, x.owned) => ~Stale(y, now)
         /\ x.frozen # -1 => y.frozen # -1
<1> DEFINE y == Received(x, m)
<1>1. CASE m.k = "status"
  <2>1. PICK st : st = m.st
    OBVIOUS
  <2>2. st \in Statuses
    BY <1>1, <2>1 DEF Told, Honest
  <2>3. y = AcceptStatus(x, st)
    BY <1>1, <2>1 DEF Received
  <2> HIDE DEF y
  <2>4. Log(y, now) /\ (st.cap = x.owned => ~Stale(y, now)) /\ y.frozen = x.frozen
    BY <2>2, <2>3, StatusLog
  <2> QED BY <1>1, <2>1, <2>4 DEF IsStatus, IsOther, y
<1>2. CASE m.k = "datagram"
  <2>1. PICK origin : origin = "live"
    OBVIOUS
  <2>2. y = AcceptDatagram(x, m, origin) /\ IsDatagram(m)
    BY <1>2, <2>1 DEF Received, Told
  <2> HIDE DEF y
  <2>3. Log(y, now) /\ (Stale(y, now) => Stale(x, now)) /\ y.frozen = x.frozen
    BY <1>2, <2>2, DatagramLog
  <2> QED BY <1>2, <2>3 DEF IsStatus, y
<1>3. CASE m.k \in {"error", "end"}
  <2>1. PICK err : err = IF m.k = "error" THEN m.err ELSE "end"
    OBVIOUS
  <2>2. y = AcceptError(x, err) /\ (err \in Fatal \/ ~Stale(x, now))
    BY <1>3, <2>1 DEF Received, Fatal
  <2> HIDE DEF y
  <2>3. Log(y, now) /\ (Stale(y, now) => Stale(x, now)) /\ (x.frozen # -1 => y.frozen # -1)
    BY <2>2, AcceptErrorLog
  <2> QED BY <1>3, <2>3 DEF IsStatus, y
<1> QED BY <1>1, <1>2, <1>3 DEF Told

-----------------------------------------------------------------------------
(* The end of a recording, and its log *)

\* A log that covers the frozen duration is ready to be finalised, for that duration or a longer one.
\* The stop of the bridge may already be noted as unconfirmed.
LEMMA LogCloses ==
  ASSUME NEW x, NEW t \in Int, IsDialog(x), Log(x, t), x.frozen # -1, x.rec.records > 0,
         NEW y, IsDialog(y), y.rec.last = x.rec.last, y.limitEvent = x.limitEvent, y.logOk => x.logOk,
         NEW duration \in Int, x.frozen <= duration, x.lastKept < duration,
         LogOk(x.rec, duration) => LogOk(y.rec, duration),
         Extends(y.rec, x.rec, {}) \/ (Extends(y.rec, x.rec, {"shutdown-unconfirmed"})
           /\ Few(y.rec, "shutdown-unconfirmed", TRUE) /\ y.stop = "unconfirmed"),
         y.stop \in {"confirmed", "unconfirmed"}
  PROVE  Closing(y, duration, Evidence(y, duration))
<1> DEFINE ev == Evidence(y, duration)
<1>1. /\ IsUdpEvidence(ev) /\ ev.journal = y.journal /\ ev.complete = y.logOk /\ ev.codes = {}
      /\ ev.stopOffset = duration /\ ev.stop = y.stop
  BY DEF Evidence, IsUdpEvidence, IsEvidence, IsDialog
<1> HIDE DEF ev
<1>2. /\ x.rec.last <= x.lastKept /\ x.rec.last < MaxDuration /\ x.frozen >= 1
      /\ LogOk(x.rec, Reach(x, t)) /\ Unclosed(x.rec) /\ LogLimit(x)
  BY DEF Log
<1>3. x.rec.last \in Int /\ x.lastKept \in Int /\ x.frozen \in Int
  BY DEF IsDialog, IsRecorder
<1>4. LogOk(y.rec, duration)
  <2>1. Reach(x, t) = x.frozen
    BY DEF Reach
  <2> QED BY <1>2, <1>3, <2>1, LogOkWider
<1>5. duration >= 1 /\ y.rec.last < duration /\ y.rec.last < MaxDuration
  BY <1>2, <1>3
<1>6. \A kind \in Terminals : kind \notin {"limit"}
  BY DEF Terminals
<1>7. Few(y.rec, "limit", y.limitEvent) /\ Said(y.rec, ev.complete, "limit", y.limitEvent \/ ev.codes # {})
  <2>1. Few(y.rec, "limit", x.limitEvent) /\ Said(y.rec, x.logOk, "limit", x.limitEvent)
    BY <1>2 DEF LogLimit, Extends
  <2> QED BY <1>1, <2>1 DEF Few, Said
<1>8. ASSUME NEW kind \in Terminals, kind # "shutdown-unconfirmed" \/ Extends(y.rec, x.rec, {})
      PROVE  Few(y.rec, kind, FALSE)
  <2>1. Few(x.rec, kind, FALSE)
    BY <1>2 DEF Unclosed
  <2>2. \E none \in BOOLEAN : none = FALSE /\ Few(x.rec, kind, none)
    BY <2>1
  <2>3. \E none \in BOOLEAN : none = FALSE /\ Few(y.rec, kind, none)
    BY <1>8, <2>2 DEF Extends
  <2> QED BY <2>3
<1>9. Few(y.rec, "udp-kernel-drops-observed", FALSE) /\ Few(y.rec, "udp-counter-mismatch", FALSE)
  BY <1>8 DEF Terminals
<1>10. Few(y.rec, "shutdown-unconfirmed", StopOf(ev) = "unconfirmed")
  <2>1. CASE Extends(y.rec, x.rec, {})
    <3>1. Few(y.rec, "shutdown-unconfirmed", FALSE)
      BY <1>8, <2>1 DEF Terminals
    <3> QED BY <3>1 DEF Few
  <2>2. CASE Few(y.rec, "shutdown-unconfirmed", TRUE) /\ y.stop = "unconfirmed"
    <3>1. StopOf(ev) = "unconfirmed"
      BY <1>1, <2>2 DEF StopOf
    <3> QED BY <2>2, <3>1 DEF Few
  <2> QED BY <2>1, <2>2
<1>11. Terms(y.rec, ev)
  BY <1>9, <1>10 DEF Terms, Few, Details
<1> QED BY <1>1, <1>4, <1>5, <1>7, <1>11 DEF Closing, ev

\* A finalisation that fails leaves a capture whose refusal is excused.
FinInv == d.phase = "finalize-error" /\ d.rec.records > 0 => Closing(d, d.ctx[1], d.ctx[2]) /\ Excused(d)

LEMMA FinishRefused ==
  ASSUME NEW x, IsDialog(x), NEW duration, NEW ev, x.rec.records > 0 => Closing(x, duration, ev),
         Finish(x, duration, ev)
  PROVE  FinInv'
<1> DEFINE a == Attempt(x, duration, ev)
<1>1. \/ a.ok /\ \E phase \in {"saved", "save-error"} :
           d' = [a.d EXCEPT !.phase = phase, !.hasRec = FALSE, !.rec = NewRecorder, !.ctx = <<>>]
      \/ ~a.ok /\ d' = [a.d EXCEPT !.phase = "finalize-error"]
  BY Zenon DEF Finish, a
<1>2. CASE x.rec.records > 0
  <2>1. Closing(a.d, a.d.ctx[1], a.d.ctx[2]) /\ (a.ok \/ Excused(a.d))
    <3>1. LET b == Attempt(x, duration, ev) IN
          Closing(b.d, b.d.ctx[1], b.d.ctx[2]) /\ (b.ok \/ Excused(b.d))
      BY <1>2, AttemptRefused
    <3> QED BY <3>1
  <2>2. IsDialog(a.d)
    <3>1. IsEvidence(ev)
      BY <1>2 DEF Closing, IsUdpEvidence
    <3>2. IsDialog(Attempt(x, duration, ev).d)
      BY <3>1, AttemptFacts
    <3> QED BY <3>2
  <2> HIDE DEF a
  <2>3. PICK u : u = a.d
    OBVIOUS
  <2>4. IsDialog(u) /\ Closing(u, u.ctx[1], u.ctx[2]) /\ (a.ok \/ Excused(u))
    BY <2>1, <2>2, <2>3
  <2>5. CASE ~a.ok /\ d' = [u EXCEPT !.phase = "finalize-error"]
    <3>1. PICK v : v = d'
      OBVIOUS
    <3>2. Same(v, u, {"phase"})
      BY <2>4, <2>5, <3>1 DEF IsDialog, Same, Fields
    <3>3. v.rec = u.rec /\ v.journal = u.journal /\ v.ctx = u.ctx /\ v.limitEvent = u.limitEvent
      BY <3>2 DEF Same, Fields
    <3>4. Closing(v, v.ctx[1], v.ctx[2]) /\ Excused(v)
      BY <2>4, <2>5, <3>3 DEF Closing, Excused
    <3> QED BY <3>1, <3>4 DEF FinInv
  <2>6. ASSUME NEW phase \in {"saved", "save-error"},
               d' = [u EXCEPT !.phase = phase, !.hasRec = FALSE, !.rec = NewRecorder, !.ctx = <<>>]
        PROVE  FinInv'
    <3>1. Same(d', u, {"phase", "hasRec", "rec", "ctx"}) /\ d'.phase = phase
      BY <2>4, <2>6 DEF IsDialog, Same, Fields
    <3> QED BY <3>1 DEF FinInv
  <2> QED BY <1>1, <2>3, <2>5, <2>6
<1>3. CASE ~(x.rec.records > 0)
  <2>1. x.rec.records = 0
    BY <1>3 DEF IsDialog, IsRecorder
  <2>2. a.d = [x EXCEPT !.pc = "idle", !.ctx = <<duration, ev>>]
    BY <2>1 DEF Attempt
  <2> HIDE DEF a
  <2>3. PICK u : u = a.d
    OBVIOUS
  <2>4. Same(u, x, {"pc", "ctx"}) /\ u.rec = x.rec
    BY <2>2, <2>3 DEF IsDialog, Same, Fields
  <2>5. CASE d' = [u EXCEPT !.phase = "finalize-error"]
    <3>1. d'.rec = u.rec
      BY <2>4, <2>5 DEF Same, Fields
    <3> QED BY <2>1, <2>4, <3>1 DEF FinInv
  <2>6. ASSUME NEW phase \in {"saved", "save-error"},
               d' = [u EXCEPT !.phase = phase, !.hasRec = FALSE, !.rec = NewRecorder, !.ctx = <<>>]
        PROVE  FinInv'
    <3>1. d'.phase = phase
      BY <2>4, <2>6 DEF IsDialog, Same, Fields
    <3> QED BY <3>1 DEF FinInv
  <2> QED BY <1>1, <2>3, <2>5, <2>6
<1> QED BY <1>2, <1>3

\* The stop was answered.
LEMMA StoppedRefused ==
  ASSUME NEW x, IsDialog(x), NEW t \in Int, Log(x, t), x.frozen # -1, x.final \in Statuses, Stopped(x)
  PROVE  FinInv'
<1> DEFINE after == AfterDrain(x)
           holds == IntegrityHolds(x)
           y == [after EXCEPT !.reason = @ \/ ~holds]
           ev == Evidence(y, y.verified)
           n == x.final.datagrams
           F == {"closed", "reported", "client", "verified", "stop"}
<1>1. d' = Ready \/ Finish(y, y.verified, ev)
  BY Zenon DEF Stopped
<1>2. n \in Nat /\ x.final.dur \in Int
  BY DEF Statuses
<1>3. Same(after, x, F) /\ after.closed = TRUE /\ after.stop = (IF x.final.state = "stopped" THEN "confirmed" ELSE "unconfirmed")
  BY DEF AfterDrain, IsDialog, Same, Fields
<1>4. after.verified \in Int /\ x.frozen <= after.verified /\ x.lastKept < after.verified
  <2> DEFINE S == {1, x.frozen, x.lastKept + 1}
             base == Top(S)
             end == x.final.dur + (IF n > 0 THEN 1 ELSE 0)
             T == {base, end}
  <2>1. x.frozen \in Int /\ x.lastKept \in Int
    BY DEF IsDialog
  <2>2. base \in Int /\ x.frozen <= base /\ x.lastKept + 1 <= base
    <3>1. S \subseteq Int /\ \E z \in S : \A v \in S : v <= z
      BY <2>1
    <3>2. x.frozen \in S /\ x.lastKept + 1 \in S
      OBVIOUS
    <3> HIDE DEF S
    <3> QED BY <3>1, <3>2, TopFacts
  <2>3. end \in Int
    BY <1>2
  <2> HIDE DEF base, end
  <2>4. T \subseteq Int /\ (\E z \in T : \A v \in T : v <= z) /\ base \in T
    BY <2>2, <2>3
  <2>5. after.verified = Top(T)
    BY DEF AfterDrain, IsDialog, Fields, base, end
  <2> HIDE DEF T
  <2>6. after.verified \in Int /\ base <= after.verified
    BY <2>4, <2>5, TopFacts
  <2> QED BY <2>1, <2>2, <2>6
<1> HIDE DEF after
<1>5. after.reason = x.reason
  BY <1>3 DEF Same, Fields
<1>6. IsDialog(after)
  BY <1>3, <1>4 DEF IsDialog, Same, Fields
<1>7. Same(y, after, {"reason"}) /\ y.reason = (after.reason \/ ~holds)
  <2> HIDE DEF holds
  <2> QED BY <1>6 DEF IsDialog, Same, Fields
<1> HIDE DEF y, holds
<1>8. /\ y.logOk = x.logOk /\ y.rec = x.rec /\ y.limitEvent = x.limitEvent /\ y.stop = after.stop
      /\ y.verified = after.verified
  BY <1>3, <1>7 DEF Same, Fields
<1>9. IsDialog(y)
  <2>1. y.reason \in BOOLEAN
    BY <1>7
  <2> QED BY <1>6, <1>7, <2>1 DEF IsDialog, Same, Fields
<1>10. PICK duration : duration = y.verified
  OBVIOUS
<1>11. ASSUME x.rec.records > 0  PROVE Closing(y, duration, Evidence(y, duration))
  <2>1. duration \in Int /\ x.frozen <= duration /\ x.lastKept < duration
    BY <1>4, <1>8, <1>10
  <2>2. y.stop \in {"confirmed", "unconfirmed"}
    BY <1>3, <1>8
  <2>3. Extends(y.rec, x.rec, {})
    BY <1>8, ExtendsSelf
  <2> QED BY <1>8, <1>9, <1>11, <2>1, <2>2, <2>3, LogCloses
<1>12. CASE d' = Ready
  BY <1>12 DEF FinInv, Ready
<1>13. CASE Finish(y, y.verified, ev)
  <2>1. Finish(y, duration, Evidence(y, duration))
    BY <1>10, <1>13
  <2>2. y.rec.records > 0 => Closing(y, duration, Evidence(y, duration))
    BY <1>8, <1>11
  <2>3. PICK evidence : evidence = Evidence(y, duration)
    OBVIOUS
  <2> QED BY <1>9, <2>1, <2>2, <2>3, FinishRefused
<1> QED BY <1>1, <1>12, <1>13

\* The stop threw, and that is noted.
LEMMA StopThrewRefused ==
  ASSUME NEW x, IsDialog(x), NEW t \in Int, Log(x, t), x.frozen # -1, StopThrew(x)
  PROVE  FinInv'
<1> DEFINE z == [x EXCEPT !.stop = "unconfirmed", !.closed = TRUE, !.reason = TRUE]
           e == Event("shutdown-unconfirmed", Session, <<>>)
           y == RecordEvent(z, e)
           S == {x.frozen, x.verified, x.lastKept + 1}
           duration == Top(S)
           ev == Evidence(y, duration)
<1>1. d' = Ready \/ Finish(y, duration, ev)
  BY Zenon DEF StopThrew
<1>2. Same(z, x, {"stop", "closed", "reason"}) /\ z.stop = "unconfirmed" /\ z.closed = TRUE /\ z.reason = TRUE
  BY DEF IsDialog, Same, Fields
<1> HIDE DEF z
<1>3. IsDialog(z) /\ z.rec = x.rec /\ z.hasRec = x.hasRec /\ z.limitEvent = x.limitEvent /\ z.logOk = x.logOk
  <2>1. IsDialog(z)
    BY <1>2 DEF IsDialog, Same, Fields
  <2> QED BY <1>2, <2>1 DEF Same, Fields
<1>4. /\ IsEvent(e) /\ IsClosing(e) /\ Kind(e) = "shutdown-unconfirmed" /\ ~NotesLimit(e) /\ Bounded(e) = e
  BY LimitsAssumption DEF Event, IsEvent, IsClosing, Kind, NotesLimit, Session, Terminals, Bounded
<1>5. y = Recorded(z, e)
  BY <1>3 DEF RecordEvent, Log
<1> HIDE DEF e
<1> DEFINE q == AppendEvent(z.rec, e, FALSE)
           kept == Len(q.events) > Len(z.rec.events)
<1>6. y = [z EXCEPT !.rec = q, !.logOk = @ /\ kept, !.limitEvent = @ \/ (kept /\ NotesLimit(e))]
  BY <1>4, <1>5 DEF Recorded, Bounded, NotesLimit
<1>7. IsDialog(y) /\ Same(y, z, {"rec", "logOk", "limitEvent"})
  BY <1>3, <1>5, RecordedFacts
<1> HIDE DEF y, q, kept
<1>8. y.rec = q /\ (y.logOk <=> z.logOk /\ kept) /\ (y.limitEvent <=> z.limitEvent)
  BY <1>3, <1>4, <1>6 DEF IsDialog, Fields
<1>9. y.stop = "unconfirmed" /\ y.limitEvent = x.limitEvent
  <2>1. y.stop = z.stop
    BY <1>7 DEF Same, Fields
  <2>2. y.limitEvent \in BOOLEAN /\ x.limitEvent \in BOOLEAN
    BY <1>7 DEF IsDialog
  <2> QED BY <1>2, <1>3, <1>8, <2>1, <2>2
<1>10. S \subseteq Int /\ (\E k \in S : \A v \in S : v <= k) /\ x.frozen \in S /\ x.lastKept + 1 \in S
  BY DEF IsDialog
<1> HIDE DEF S
<1>11. duration \in Int /\ x.frozen <= duration /\ x.lastKept + 1 <= duration
  BY <1>10, TopFacts
<1>12. PICK u \in Int : u = duration
  BY <1>11
<1>13. x.frozen <= u /\ x.lastKept < u
  BY <1>11, <1>12 DEF IsDialog
<1> HIDE DEF duration
<1>14. ASSUME x.rec.records > 0  PROVE Closing(y, u, Evidence(y, u))
  <2>1. PICK r : r = x.rec
    OBVIOUS
  <2>2. IsRecorder(r) /\ q = AppendEvent(r, e, FALSE)
    BY <1>3, <2>1 DEF IsDialog, q
  <2>3. \A i \in 1..Len(r.events) : Kind(r.events[i]) # Kind(e)
    <3>1. Few(r, "shutdown-unconfirmed", FALSE)
      BY <2>1 DEF Log, Unclosed, Terminals
    <3> QED BY <1>4, <3>1 DEF Few
  <2>4. LogOk(r, u)
    <3>1. LogOk(r, Reach(x, t)) /\ Reach(x, t) = x.frozen /\ x.frozen \in Int
      BY <2>1 DEF Log, Reach, IsDialog
    <3> QED BY <1>13, <3>1, LogOkWider
  <2>5. /\ Extends(q, r, {Kind(e)}) /\ LogOk(q, u) /\ Few(q, Kind(e), Len(q.events) > Len(r.events))
    BY <1>4, <2>2, <2>3, <2>4, EventAppended
  <2>6. Few(q, "shutdown-unconfirmed", TRUE) /\ Extends(q, r, {"shutdown-unconfirmed"})
    BY <1>4, <2>5 DEF Few
  <2>7. y.rec.last = x.rec.last
    BY <1>8, <2>1, <2>6 DEF Extends
  <2>8. y.logOk => x.logOk
    BY <1>3, <1>8
  <2> QED BY <1>7, <1>8, <1>9, <1>13, <1>14, <2>1, <2>5, <2>6, <2>7, <2>8, LogCloses
<1>15. CASE d' = Ready
  BY <1>15 DEF FinInv, Ready
<1>16. CASE Finish(y, duration, ev)
  <2>1. Finish(y, u, Evidence(y, u))
    BY <1>12, <1>16
  <2>2. y.rec.records > 0 => Closing(y, u, Evidence(y, u))
    <3>1. y.rec.records = x.rec.records
      BY <1>3, <1>5, RecordedFacts
    <3> QED BY <1>14, <3>1
  <2>3. PICK evidence : evidence = Evidence(y, u)
    OBVIOUS
  <2> QED BY <1>7, <2>1, <2>2, <2>3, FinishRefused
<1> QED BY <1>1, <1>15, <1>16

-----------------------------------------------------------------------------
(* What is on its way to the page, in what order *)

IsInput(m, c) == m.k = "datagram" /\ m.cap = c

\* A status of another capture is corrected before the next datagram, if there is one.
Fresh(s) ==
  \A k, i \in 1..Len(s) :
    k < i /\ s[i].k = "datagram" /\ IsOther(s[k], s[i].cap) => \E j \in 1..Len(s) : k < j /\ j < i /\ IsStatus(s[j], s[i].cap)
\* A status of another capture than c is corrected.
Turned(s, c) ==
  \A k \in 1..Len(s) : IsOther(s[k], c) => \E j \in 1..Len(s) : k < j /\ IsStatus(s[j], c)
\* The datagrams of capture c come after a status of it; there is one.
Preceded(s, c) ==
  \A i \in 1..Len(s) : IsInput(s[i], c) => \E j \in 1..Len(s) : j < i /\ IsStatus(s[j], c)
Announced(s, c) == \E j \in 1..Len(s) : IsStatus(s[j], c)
FatalOnly(s) == \A i \in 1..Len(s) : s[i].k = "error" => s[i].err \in Fatal

\* u begins with the first k messages of s.
Begins(u, s, k) == IsSeq(u) /\ k \in 0..Len(s) /\ k <= Len(u) /\ \A i \in 1..k : u[i] = s[i]

\* What follows a part of the stream and holds no datagram disturbs no order.
LEMMA OrderKept ==
  ASSUME NEW s, IsSeq(s), NEW u, NEW k, Begins(u, s, k), \A i \in 1..Len(u) : k < i => u[i].k # "datagram"
  PROVE  /\ Fresh(s) => Fresh(u)
         /\ \A c : Preceded(s, c) => Preceded(u, c)
<1>1. Len(s) \in Nat /\ Len(u) \in Nat /\ k \in Nat /\ k <= Len(s) /\ k <= Len(u)
  BY DEF Begins, IsSeq
<1>2. \A i \in 1..Len(u) : i <= k => u[i] = s[i] /\ i \in 1..Len(s)
  BY <1>1 DEF Begins
<1>3. \A i \in 1..Len(u) : u[i].k = "datagram" => i <= k
  BY <1>1
<1>4. ASSUME Fresh(s), NEW a \in 1..Len(u), NEW i \in 1..Len(u), a < i, u[i].k = "datagram", IsOther(u[a], u[i].cap)
      PROVE  \E j \in 1..Len(u) : a < j /\ j < i /\ IsStatus(u[j], u[i].cap)
  <2>1. i <= k /\ a <= k
    BY <1>1, <1>3, <1>4
  <2>2. u[i] = s[i] /\ u[a] = s[a] /\ i \in 1..Len(s) /\ a \in 1..Len(s)
    BY <1>2, <2>1
  <2>3. PICK j \in 1..Len(s) : a < j /\ j < i /\ IsStatus(s[j], s[i].cap)
    BY <1>4, <2>2 DEF Fresh
  <2>4. j \in 1..Len(u) /\ j <= k
    BY <1>1, <2>1, <2>3
  <2>5. u[j] = s[j]
    BY <1>2, <2>4
  <2> QED BY <2>2, <2>3, <2>4, <2>5
<1>5. ASSUME NEW c, Preceded(s, c), NEW i \in 1..Len(u), IsInput(u[i], c)
      PROVE  \E j \in 1..Len(u) : j < i /\ IsStatus(u[j], c)
  <2>1. i <= k
    BY <1>3, <1>5 DEF IsInput
  <2>2. u[i] = s[i] /\ i \in 1..Len(s)
    BY <1>2, <2>1
  <2>3. PICK j \in 1..Len(s) : j < i /\ IsStatus(s[j], c)
    BY <1>5, <2>2 DEF Preceded
  <2>4. j \in 1..Len(u) /\ j <= k
    BY <1>1, <2>1, <2>3
  <2>5. u[j] = s[j]
    BY <1>2, <2>4
  <2> QED BY <2>3, <2>4, <2>5
<1> QED BY <1>4, <1>5 DEF Fresh, Preceded

\* What is added is fatal if it is an error.
LEMMA FatalKept ==
  ASSUME NEW s, IsSeq(s), NEW u, NEW k, Begins(u, s, k), FatalOnly(s),
         \A i \in 1..Len(u) : k < i /\ u[i].k = "error" => u[i].err \in Fatal
  PROVE  FatalOnly(u)
<1>1. Len(s) \in Nat /\ Len(u) \in Nat /\ k \in Nat /\ k <= Len(s) /\ k <= Len(u)
  BY DEF Begins, IsSeq
<1>2. \A i \in 1..Len(u) : i <= k => u[i] = s[i] /\ i \in 1..Len(s)
  BY <1>1 DEF Begins
<1> QED BY <1>1, <1>2 DEF FatalOnly

LEMMA AppendBegins ==
  ASSUME NEW s, IsSeq(s), NEW m
  PROVE  \E u : /\ u = Append(s, m) /\ IsSeq(u) /\ Begins(u, s, Len(s))
                /\ Len(u) = Len(s) + 1 /\ u[Len(s) + 1] = m
                /\ \A i \in 1..Len(u) : Len(s) < i => u[i] = m
<1>1. PICK u : u = Append(s, m)
  OBVIOUS
<1>2. IsSeq(u) /\ Len(u) = Len(s) + 1 /\ u[Len(s) + 1] = m /\ \A i \in 1..Len(s) : u[i] = s[i]
  BY <1>1, AppendTo
<1>3. Len(s) \in Nat
  BY DEF IsSeq
<1>4. \A i \in 1..Len(u) : Len(s) < i => i = Len(s) + 1
  BY <1>2, <1>3
<1>5. Begins(u, s, Len(s))
  BY <1>2, <1>3 DEF Begins
<1>6. \A i \in 1..Len(u) : Len(s) < i => u[i] = m
  BY <1>2, <1>4
<1> QED BY <1>1, <1>2, <1>5, <1>6

\* A datagram of the capture that has been announced, if any other has been told of.
LEMMA InputAdded ==
  ASSUME NEW s, IsSeq(s), NEW m, NEW c, IsInput(m, c), Fresh(s), Turned(s, c)
  PROVE  \E u : /\ u = Append(s, m) /\ Fresh(u) /\ Turned(u, c)
                /\ FatalOnly(s) => FatalOnly(u)
                /\ \A b : Announced(s, b) => Announced(u, b)
                /\ \A b : Preceded(s, b) /\ (b = c => Announced(s, c)) => Preceded(u, b)
<1>1. PICK u : /\ u = Append(s, m) /\ IsSeq(u) /\ Begins(u, s, Len(s)) /\ Len(u) = Len(s) + 1
               /\ u[Len(s) + 1] = m /\ \A i \in 1..Len(u) : Len(s) < i => u[i] = m
  BY AppendBegins
<1>2. Len(s) \in Nat /\ \A i \in 1..Len(s) : u[i] = s[i] /\ i \in 1..Len(u)
  BY <1>1 DEF Begins, IsSeq
<1>3. \A i \in 1..Len(u) : i \in 1..Len(s) \/ (i = Len(s) + 1 /\ u[i] = m)
  BY <1>1, <1>2
<1>4. m.k = "datagram" /\ m.cap = c
  BY DEF IsInput
<1>5. ASSUME NEW k \in 1..Len(u), NEW i \in 1..Len(u), k < i, u[i].k = "datagram", IsOther(u[k], u[i].cap)
      PROVE  \E j \in 1..Len(u) : k < j /\ j < i /\ IsStatus(u[j], u[i].cap)
  <2>1. k \in 1..Len(s)
    BY <1>1, <1>2, <1>5
  <2>2. CASE i \in 1..Len(s)
    <3>1. PICK j \in 1..Len(s) : k < j /\ j < i /\ IsStatus(s[j], s[i].cap)
      BY <1>2, <1>5, <2>1, <2>2 DEF Fresh
    <3> QED BY <1>2, <2>2, <3>1
  <2>3. CASE i = Len(s) + 1 /\ u[i] = m
    <3>1. PICK j \in 1..Len(s) : k < j /\ IsStatus(s[j], c)
      BY <1>2, <1>4, <1>5, <2>1, <2>3 DEF Turned
    <3>2. j < i
      BY <1>2, <2>3
    <3> QED BY <1>2, <1>4, <2>3, <3>1, <3>2
  <2> QED BY <1>3, <2>2, <2>3
<1>6. ASSUME NEW k \in 1..Len(u), IsOther(u[k], c)
      PROVE  \E j \in 1..Len(u) : k < j /\ IsStatus(u[j], c)
  <2>1. k \in 1..Len(s)
    BY <1>3, <1>4, <1>6 DEF IsOther
  <2> QED BY <1>2, <1>6, <2>1 DEF Turned
<1>7. FatalOnly(s) => FatalOnly(u)
  BY <1>2, <1>3, <1>4 DEF FatalOnly
<1>8. ASSUME NEW b, Announced(s, b) PROVE Announced(u, b)
  BY <1>2, <1>8 DEF Announced
<1>9. ASSUME NEW b, Preceded(s, b), b = c => Announced(s, c), NEW i \in 1..Len(u), IsInput(u[i], b)
      PROVE  \E j \in 1..Len(u) : j < i /\ IsStatus(u[j], b)
  <2>1. CASE i \in 1..Len(s)
    <3>1. PICK j \in 1..Len(s) : j < i /\ IsStatus(s[j], b)
      BY <1>2, <1>9, <2>1 DEF Preceded
    <3> QED BY <1>2, <3>1
  <2>2. CASE i = Len(s) + 1 /\ u[i] = m
    <3>1. b = c
      BY <1>4, <1>9, <2>2 DEF IsInput
    <3>2. PICK j \in 1..Len(s) : IsStatus(s[j], c)
      BY <1>9, <3>1 DEF Announced
    <3>3. j < i
      BY <1>2, <2>2
    <3> QED BY <1>2, <3>1, <3>2, <3>3
  <2> QED BY <1>3, <2>1, <2>2
<1> QED BY <1>1, <1>5, <1>6, <1>7, <1>8, <1>9 DEF Fresh, Turned, Preceded

\* A capture is announced when it begins.
LEMMA StatusAdded ==
  ASSUME NEW s, IsSeq(s), NEW m, NEW c, IsStatus(m, c)
  PROVE  \E u : /\ u = Append(s, m) /\ (Fresh(s) => Fresh(u)) /\ Turned(u, c) /\ Announced(u, c)
                /\ FatalOnly(s) => FatalOnly(u)
                /\ \A b : Preceded(s, b) => Preceded(u, b)
<1>1. PICK u : /\ u = Append(s, m) /\ IsSeq(u) /\ Begins(u, s, Len(s)) /\ Len(u) = Len(s) + 1
               /\ u[Len(s) + 1] = m /\ \A i \in 1..Len(u) : Len(s) < i => u[i] = m
  BY AppendBegins
<1>2. m.k = "status" /\ m.st.cap = c
  BY DEF IsStatus
<1>3. Len(s) \in Nat /\ Len(s) + 1 \in 1..Len(u)
  BY <1>1 DEF IsSeq
<1>4. PICK n : n = Len(s)
  OBVIOUS
<1>5. Begins(u, s, n) /\ \A i \in 1..Len(u) : n < i => u[i] = m
  BY <1>1, <1>4
<1>6. (Fresh(s) => Fresh(u)) /\ (\A b : Preceded(s, b) => Preceded(u, b))
  <2>1. \A i \in 1..Len(u) : n < i => u[i].k # "datagram"
    BY <1>2, <1>5
  <2> QED BY <1>5, <2>1, OrderKept
<1>7. FatalOnly(s) => FatalOnly(u)
  <2>1. \A i \in 1..Len(u) : n < i /\ u[i].k = "error" => u[i].err \in Fatal
    BY <1>2, <1>5
  <2> QED BY <1>5, <2>1, FatalKept
<1>8. Turned(u, c)
  <2>1. ASSUME NEW k \in 1..Len(u), IsOther(u[k], c) PROVE k < Len(s) + 1
    <3>1. u[k] # m
      BY <1>2, <2>1 DEF IsOther
    <3> QED BY <1>1, <1>3, <3>1
  <2> QED BY <1>1, <1>3, <2>1 DEF Turned
<1>9. Announced(u, c)
  BY <1>1, <1>3 DEF Announced
<1> QED BY <1>1, <1>6, <1>7, <1>8, <1>9

\* The first message is taken.
LEMMA TailFacts ==
  ASSUME NEW s, IsSeq(s), s # <<>>
  PROVE  \E u : /\ u = Tail(s) /\ IsSeq(u) /\ Head(s) = s[1] /\ 1 \in 1..Len(s) /\ Len(u) = Len(s) - 1
                /\ \A i \in 1..Len(u) : u[i] = s[i + 1] /\ i + 1 \in 1..Len(s)
<1> DEFINE S == {s[i] : i \in 1..Len(s)}
<1>1. PICK u : u = Tail(s)
  OBVIOUS
<1>2. s \in Seq(S) /\ Len(s) \in Nat
  BY DEF IsSeq
<1> HIDE DEF S
<1>3. /\ u \in Seq(S) /\ Len(u) = Len(s) - 1 /\ \A i \in 1..Len(u) : u[i] = s[i + 1]
      /\ Len(s) >= 1 /\ Head(s) = s[1]
  BY <1>1, <1>2
<1>4. IsSeq(u)
  BY <1>1, TailTo
<1>5. 1 \in 1..Len(s) /\ \A i \in 1..Len(u) : i + 1 \in 1..Len(s)
  BY <1>2, <1>3
<1> QED BY <1>1, <1>3, <1>4, <1>5

LEMMA TailKept ==
  ASSUME NEW s, IsSeq(s), s # <<>>, Fresh(s)
  PROVE  \E u : /\ u = Tail(s) /\ Fresh(u)
                /\ FatalOnly(s) => FatalOnly(u)
                /\ \A c : Turned(s, c) => Turned(u, c) /\ (IsOther(Head(s), c) => Announced(u, c))
                /\ \A c : IsOther(Head(s), c) => Preceded(u, c)
                /\ \A c : Preceded(s, c) => IsStatus(Head(s), c) \/ (~IsInput(Head(s), c) /\ Preceded(u, c))
                /\ \A c : Announced(s, c) => IsStatus(Head(s), c) \/ Announced(u, c)
                /\ FatalOnly(s) /\ Head(s).k = "error" => Head(s).err \in Fatal
<1>1. PICK u : /\ u = Tail(s) /\ IsSeq(u) /\ Head(s) = s[1] /\ 1 \in 1..Len(s) /\ Len(u) = Len(s) - 1
               /\ \A i \in 1..Len(u) : u[i] = s[i + 1] /\ i + 1 \in 1..Len(s)
  BY TailFacts
<1>2. PICK h : h = Head(s)
  OBVIOUS
<1>3. h = s[1] /\ Len(s) \in Nat
  BY <1>1, <1>2 DEF IsSeq
<1>4. \A j \in 1..Len(s) : j > 1 => j - 1 \in 1..Len(u) /\ u[j - 1] = s[j]
  BY <1>1, <1>3
<1>5. Fresh(u)
  <2>1. ASSUME NEW k \in 1..Len(u), NEW i \in 1..Len(u), k < i, u[i].k = "datagram", IsOther(u[k], u[i].cap)
        PROVE  \E j \in 1..Len(u) : k < j /\ j < i /\ IsStatus(u[j], u[i].cap)
    <3>1. u[i] = s[i + 1] /\ u[k] = s[k + 1] /\ i + 1 \in 1..Len(s) /\ k + 1 \in 1..Len(s) /\ k + 1 < i + 1
      BY <1>1, <2>1
    <3>2. PICK j \in 1..Len(s) : k + 1 < j /\ j < i + 1 /\ IsStatus(s[j], s[i + 1].cap)
      BY <2>1, <3>1 DEF Fresh
    <3>3. j - 1 \in 1..Len(u) /\ u[j - 1] = s[j] /\ k < j - 1 /\ j - 1 < i
      BY <1>4, <3>2
    <3> QED BY <3>1, <3>2, <3>3
  <2> QED BY <2>1 DEF Fresh
<1>6. FatalOnly(s) => FatalOnly(u)
  BY <1>1 DEF FatalOnly
<1>7. ASSUME NEW c, Turned(s, c) PROVE Turned(u, c) /\ (IsOther(h, c) => Announced(u, c))
  <2>1. ASSUME NEW k \in 1..Len(u), IsOther(u[k], c) PROVE \E j \in 1..Len(u) : k < j /\ IsStatus(u[j], c)
    <3>1. u[k] = s[k + 1] /\ k + 1 \in 1..Len(s)
      BY <1>1, <2>1
    <3>2. PICK j \in 1..Len(s) : k + 1 < j /\ IsStatus(s[j], c)
      BY <1>7, <2>1, <3>1 DEF Turned
    <3>3. j - 1 \in 1..Len(u) /\ u[j - 1] = s[j] /\ k < j - 1
      BY <1>4, <3>2
    <3> QED BY <3>2, <3>3
  <2>2. ASSUME IsOther(h, c) PROVE Announced(u, c)
    <3>1. PICK j \in 1..Len(s) : 1 < j /\ IsStatus(s[j], c)
      BY <1>1, <1>3, <1>7, <2>2 DEF Turned
    <3> QED BY <1>4, <3>1 DEF Announced
  <2> QED BY <2>1, <2>2 DEF Turned
<1>8. ASSUME NEW c, IsOther(h, c), NEW i \in 1..Len(u), IsInput(u[i], c)
      PROVE  \E j \in 1..Len(u) : j < i /\ IsStatus(u[j], c)
  <2>1. u[i] = s[i + 1] /\ i + 1 \in 1..Len(s) /\ 1 < i + 1 /\ s[i + 1].k = "datagram" /\ s[i + 1].cap = c
    BY <1>1, <1>8 DEF IsInput
  <2>2. PICK j \in 1..Len(s) : 1 < j /\ j < i + 1 /\ IsStatus(s[j], c)
    BY <1>1, <1>3, <1>8, <2>1 DEF Fresh
  <2>3. j - 1 \in 1..Len(u) /\ u[j - 1] = s[j] /\ j - 1 < i
    BY <1>4, <2>2
  <2> QED BY <2>2, <2>3
<1>9. ASSUME NEW c, Preceded(s, c) PROVE IsStatus(h, c) \/ (~IsInput(h, c) /\ Preceded(u, c))
  <2>1. ~IsInput(h, c)
    BY <1>1, <1>3, <1>9 DEF Preceded
  <2>2. ASSUME ~IsStatus(h, c), NEW i \in 1..Len(u), IsInput(u[i], c)
        PROVE  \E j \in 1..Len(u) : j < i /\ IsStatus(u[j], c)
    <3>1. u[i] = s[i + 1] /\ i + 1 \in 1..Len(s)
      BY <1>1, <2>2
    <3>2. PICK j \in 1..Len(s) : j < i + 1 /\ IsStatus(s[j], c)
      BY <1>9, <2>2, <3>1 DEF Preceded
    <3>3. j # 1
      BY <1>3, <2>2, <3>2
    <3>4. j - 1 \in 1..Len(u) /\ u[j - 1] = s[j] /\ j - 1 < i
      BY <1>4, <3>2, <3>3
    <3> QED BY <3>2, <3>4
  <2> QED BY <2>1, <2>2 DEF Preceded
<1>10. ASSUME NEW c, Announced(s, c) PROVE IsStatus(h, c) \/ Announced(u, c)
  <2>1. PICK j \in 1..Len(s) : IsStatus(s[j], c)
    BY <1>10 DEF Announced
  <2>2. CASE j = 1
    BY <1>3, <2>1, <2>2
  <2>3. CASE j # 1
    BY <1>4, <2>1, <2>3 DEF Announced
  <2> QED BY <2>2, <2>3
<1>11. FatalOnly(s) /\ h.k = "error" => h.err \in Fatal
  BY <1>1, <1>3 DEF FatalOnly
<1>12. \A c : IsOther(h, c) => Preceded(u, c)
  BY <1>8 DEF Preceded
<1> QED BY <1>1, <1>2, <1>5, <1>6, <1>7, <1>9, <1>10, <1>11, <1>12

-----------------------------------------------------------------------------
(* What holds of every recording, and what the bridge and the network do to it *)

\* A recording is under way, or is being stopped.
Taping == d.phase = "capturing" \/ (d.phase = "stopping" /\ d.cont \in {"save", "discard"})
LogInv == Taping => Log(d, now)

\* Only a preflight is stopped to begin a recording; a recording that has not begun has noted
\* nothing but datagrams it could not keep; one that is being stopped knows its duration.
DutyInv ==
  /\ d.cont = "beginRecording" => d.purpose = "preflight"
  /\ d.cont = "cancel" => d.phase = "canceling"
  /\ d.phase = "stopping" /\ d.cont \in {"save", "discard"} => d.frozen # -1
  /\ d.phase = "starting" /\ d.purpose = "recording" =>
       d.pc \in {"connect", "refresh", "start"} /\ d.frozen = -1 /\ ~d.limitEvent /\ Waits(d)

\* The page will hear of the capture that the bridge has open.
Heard == stream = "on" /\ bridge.state = "capturing"
\* A recording has begun, or is about to, and listens.
Listens == d.purpose = "recording" /\ d.phase \in {"starting", "capturing"} /\ d.frozen = -1 /\ stream # "off"
\* The duration told last is of another capture, which the page has heard of.
Behind == d.phase = "capturing" /\ Stale(d, now)

QueueInv ==
  /\ Fresh(sse)
  /\ Heard => Turned(sse, bridge.cap)
  /\ Behind => Preceded(sse, d.owned) /\ (Heard /\ bridge.cap = d.owned => Announced(sse, d.owned))
  /\ Listens => FatalOnly(sse)

\* A message that is no datagram, and no warning unless the capture is being stopped.
Harmless(m) == m.k # "datagram" /\ (m.k = "error" => m.err \in Fatal \/ d.pc = "stop")

\* What the bridge and the network may do to the stream: nothing, a datagram of the capture that is
\* open, anything harmless after which none is heard of, or the announcement of a new capture.
SseMoves ==
  \/ sse' = sse /\ (Heard' => Heard /\ bridge'.cap = bridge.cap)
  \/ /\ Heard /\ bridge'.cap = bridge.cap
     /\ \E m : IsInput(m, bridge.cap) /\ sse' = Append(sse, m)
  \/ ~Heard' /\ \E s, u, k : s = sse /\ u = sse' /\ Begins(u, s, k) /\ \A i \in 1..Len(u) : k < i => Harmless(u[i])
  \/ \E m : IsStatus(m, bridge'.cap) /\ sse' = Append(sse, m)

LEMMA ListensFacts == WholeInv /\ DutyInv /\ Listens => d.pc # "stop"
  BY DEF WholeInv, DeskInv, PhaseInv, AtRest, Beginning, LettingGo, Previewing, Recording, EndingPreview,
    EndingRecording, Leaving, Refused, Done, DutyInv, Listens

LEMMA QueueMoves ==
  ASSUME WholeInv, DutyInv, QueueInv, SseMoves, d' = d, stream = "off" => stream' = "off", Behind' => Behind
  PROVE  QueueInv'
<1>1. PICK s : s = sse
  OBVIOUS
<1>2. IsSeq(s) /\ Fresh(s)
  BY <1>1 DEF WholeInv, HonestInv, SseOk, QueueInv
<1>3. PICK u, b, c, o : u = sse' /\ b = bridge.cap /\ c = bridge'.cap /\ o = d.owned
  OBVIOUS
<1>4. /\ Heard => Turned(s, b)
      /\ Behind => Preceded(s, o) /\ (Heard /\ b = o => Announced(s, o))
      /\ Listens => FatalOnly(s) /\ d.pc # "stop"
      /\ Listens' => Listens
  BY <1>1, <1>3, ListensFacts DEF QueueInv, Listens
<1>5. SUFFICES /\ Fresh(u)
               /\ Heard' => Turned(u, c)
               /\ Behind => Preceded(u, o) /\ (Heard' /\ c = o => Announced(u, o))
               /\ Listens => FatalOnly(u)
  <2>1. d'.owned = o
    BY <1>3
  <2> QED BY <1>3, <1>4, <2>1 DEF QueueInv
<1>6. CASE sse' = sse /\ (Heard' => Heard /\ bridge'.cap = bridge.cap)
  BY <1>1, <1>2, <1>3, <1>4, <1>6
<1>7. CASE Heard /\ bridge'.cap = bridge.cap /\ \E m : IsInput(m, bridge.cap) /\ sse' = Append(sse, m)
  <2>1. PICK m : IsInput(m, b) /\ u = Append(s, m)
    BY <1>1, <1>3, <1>7
  <2>2. PICK w : /\ w = Append(s, m) /\ Fresh(w) /\ Turned(w, b)
                 /\ FatalOnly(s) => FatalOnly(w)
                 /\ \A a : Announced(s, a) => Announced(w, a)
                 /\ \A a : Preceded(s, a) /\ (a = b => Announced(s, b)) => Preceded(w, a)
    BY <1>2, <1>4, <1>7, <2>1, InputAdded
  <2>3. w = u
    BY <2>1, <2>2
  <2> QED BY <1>3, <1>4, <1>7, <2>2, <2>3
<1>8. CASE ~Heard' /\ \E t, v, k : t = sse /\ v = sse' /\ Begins(v, t, k) /\ \A i \in 1..Len(v) : k < i => Harmless(v[i])
  <2>1. PICK k : Begins(u, s, k) /\ \A i \in 1..Len(u) : k < i => Harmless(u[i])
    BY <1>1, <1>3, <1>8
  <2>2. \A i \in 1..Len(u) : k < i => u[i].k # "datagram"
    BY <2>1 DEF Harmless
  <2>3. Fresh(u) /\ (Preceded(s, o) => Preceded(u, o))
    BY <1>2, <2>1, <2>2, OrderKept
  <2>4. d.pc # "stop" => \A i \in 1..Len(u) : k < i /\ u[i].k = "error" => u[i].err \in Fatal
    BY <2>1 DEF Harmless
  <2>5. FatalOnly(s) /\ d.pc # "stop" => FatalOnly(u)
    BY <1>2, <2>1, <2>4, FatalKept
  <2> QED BY <1>4, <1>8, <2>3, <2>5
<1>9. CASE \E m : IsStatus(m, bridge'.cap) /\ sse' = Append(sse, m)
  <2>1. PICK m : IsStatus(m, c) /\ u = Append(s, m)
    BY <1>1, <1>3, <1>9
  <2>2. PICK w : /\ w = Append(s, m) /\ (Fresh(s) => Fresh(w)) /\ Turned(w, c) /\ Announced(w, c)
                 /\ FatalOnly(s) => FatalOnly(w)
                 /\ \A a : Preceded(s, a) => Preceded(w, a)
    BY <1>2, <2>1, StatusAdded
  <2>3. w = u
    BY <2>1, <2>2
  <2> QED BY <1>2, <1>4, <2>2, <2>3
<1> QED BY <1>6, <1>7, <1>8, <1>9 DEF SseMoves

\* Messages sent after one another.
Joined(u, s, t) == u = s \o t
LEMMA JoinBegins ==
  ASSUME NEW s, NEW t, IsSeq(s), IsSeq(t), NEW u, Joined(u, s, t)
  PROVE  /\ IsSeq(u) /\ Begins(u, s, Len(s))
         /\ \A i \in 1..Len(u) : Len(s) < i => \E j \in 1..Len(t) : u[i] = t[j]
<1> DEFINE S == {s[i] : i \in 1..Len(s)} \cup {t[i] : i \in 1..Len(t)}
<1>1. s \in Seq(S) /\ t \in Seq(S) /\ Len(s) \in Nat /\ Len(t) \in Nat
  BY DEF IsSeq
<1> HIDE DEF S
<1>3. /\ Len(u) = Len(s) + Len(t)
      /\ \A i \in 1..Len(u) : u[i] = IF i <= Len(s) THEN s[i] ELSE t[i - Len(s)]
  BY <1>1 DEF Joined
<1>4. IsSeq(u)
  BY ConcatTo DEF Joined
<1>5. Begins(u, s, Len(s))
  BY <1>1, <1>3, <1>4 DEF Begins
<1>6. ASSUME NEW i \in 1..Len(u), Len(s) < i PROVE \E j \in 1..Len(t) : u[i] = t[j]
  <2>1. i - Len(s) \in 1..Len(t) /\ u[i] = t[i - Len(s)]
    BY <1>1, <1>3, <1>6
  <2> QED BY <2>1
<1> QED BY <1>4, <1>5, <1>6

LEMMA PrefixBegins ==
  ASSUME NEW s, IsSeq(s), NEW k \in 0..Len(s), NEW u, u = SubSeq(s, 1, k)
  PROVE  IsSeq(u) /\ Begins(u, s, k) /\ Len(u) = k
<1> DEFINE S == {s[i] : i \in 1..Len(s)}
<1>1. s \in Seq(S) /\ Len(s) \in Nat
  BY DEF IsSeq
<1> HIDE DEF S
<1>2. u = [i \in 1..k |-> s[i]] /\ Len(u) = k
  BY <1>1
<1>3. IsSeq(u)
  BY PrefixTo
<1>4. \A i \in 1..k : u[i] = s[i]
  BY <1>2
<1> QED BY <1>1, <1>2, <1>3, <1>4 DEF Begins

LEMMA BeginsFurther ==
  ASSUME NEW s, NEW t, NEW u, NEW k, IsSeq(s), Begins(t, s, k), Len(t) = k, Begins(u, t, Len(t))
  PROVE  Begins(u, s, k)
<1>1. k \in Nat /\ Len(s) \in Nat /\ k <= Len(s)
  BY DEF Begins, IsSeq
<1> QED BY <1>1 DEF Begins

\* Something harmless is sent by a bridge that captures nothing now.
LEMMA SentHarmless ==
  ASSUME SseOk, NEW ms, IsSeq(ms), \A i \in 1..Len(ms) : Harmless(ms[i]), Broadcast(ms), ~Heard'
  PROVE  SseMoves
<1>1. PICK s, v : s = sse /\ v = sse'
  OBVIOUS
<1>2. IsSeq(s)
  BY <1>1 DEF SseOk
<1>3. CASE sse' = sse
  BY <1>3 DEF SseMoves
<1>4. CASE sse' = sse \o ms
  <2>0. PICK u : Joined(u, s, ms)
    BY DEF Joined
  <2>1. /\ IsSeq(u) /\ Begins(u, s, Len(s))
        /\ \A i \in 1..Len(u) : Len(s) < i => \E j \in 1..Len(ms) : u[i] = ms[j]
    BY <1>2, <2>0, JoinBegins
  <2>2. PICK k : k = Len(s)
    OBVIOUS
  <2>3. v = u
    BY <1>1, <1>4, <2>0 DEF Joined
  <2>6. \A i \in 1..Len(u) : k < i => Harmless(u[i])
    BY <2>1, <2>2
  <2>4. Begins(u, s, k)
    BY <2>1, <2>2
  <2>5. \E a, b, e : a = sse /\ b = sse' /\ Begins(b, a, e) /\ \A i \in 1..Len(b) : e < i => Harmless(b[i])
    BY <1>1, <2>3, <2>4, <2>6
  <2> QED BY <2>5 DEF SseMoves
<1> QED BY <1>3, <1>4 DEF Broadcast

\* The messages of a bridge are harmless.
LEMMA HarmlessMessages ==
  /\ Harmless(Lost) /\ \A b : Harmless(Status(b))
  /\ \A e : e \in Fatal \/ d.pc = "stop" => Harmless(Error(e))
  BY DEF Harmless, Lost, Status, Error

LEMMA HarmlessList ==
  ASSUME NEW u, NEW m, Harmless(u), Harmless(m)
  PROVE  /\ \E ms : ms = <<m>> /\ IsSeq(ms) /\ \A i \in 1..Len(ms) : Harmless(ms[i])
         /\ \E ms : ms = <<u, m>> /\ IsSeq(ms) /\ \A i \in 1..Len(ms) : Harmless(ms[i])
<1>1. PICK one, two : one = <<m>> /\ two = <<u, m>>
  OBVIOUS
<1>2. IsSeq(one) /\ \A i \in 1..Len(one) : one[i] = m
  BY <1>1, Messages
<1>3. IsSeq(two) /\ \A i \in 1..Len(two) : two[i] = u \/ two[i] = m
  <2>1. IsSeq(<<u, m>>) /\ \A i \in 1..Len(<<u, m>>) : <<u, m>>[i] = u \/ <<u, m>>[i] = m
    BY Messages, Zenon
  <2> QED BY <1>1, <2>1, Zenon
<1>4. ASSUME NEW i \in 1..Len(two)  PROVE Harmless(two[i])
  <2>1. two[i] = u \/ two[i] = m
    BY <1>3
  <2> QED BY <2>1
<1>5. \A i \in 1..Len(one) : Harmless(one[i])
  BY <1>2
<1> QED BY <1>1, <1>2, <1>3, <1>4, <1>5

\* One message is appended.
LEMMA BroadcastOne ==
  ASSUME SseOk, NEW m, Broadcast(<<m>>)
  PROVE  (stream = "on" /\ sse' = Append(sse, m)) \/ (stream # "on" /\ sse' = sse)
<1>1. CASE stream = "on"
  <2>1. PICK s : s = sse
    OBVIOUS
  <2>2. IsSeq(s)
    BY <2>1 DEF SseOk
  <2> DEFINE S == {s[i] : i \in 1..Len(s)} \cup {m}
  <2>3. s \in Seq(S) /\ m \in S
    BY <2>2 DEF IsSeq
  <2> HIDE DEF S
  <2>4. s \o <<m>> = Append(s, m)
    BY <2>3
  <2> QED BY <1>1, <2>1, <2>4 DEF Broadcast
<1>2. CASE stream # "on"
  BY <1>2 DEF Broadcast
<1> QED BY <1>1, <1>2

LEMMA HarmlessJoin ==
  ASSUME NEW s, NEW t, IsSeq(s), IsSeq(t), \A i \in 1..Len(s) : Harmless(s[i]), \A i \in 1..Len(t) : Harmless(t[i])
  PROVE  \E u : u = s \o t /\ IsSeq(u) /\ \A i \in 1..Len(u) : Harmless(u[i])
<1>1. PICK u : u = s \o t
  OBVIOUS
<1>2. /\ IsSeq(u)
      /\ \A i \in 1..Len(u) : (\E j \in 1..Len(s) : u[i] = s[j]) \/ (\E j \in 1..Len(t) : u[i] = t[j])
  BY <1>1, ConcatTo
<1>3. ASSUME NEW i \in 1..Len(u)  PROVE Harmless(u[i])
  <2>1. CASE \E j \in 1..Len(s) : u[i] = s[j]
    BY <2>1
  <2>2. CASE \E j \in 1..Len(t) : u[i] = t[j]
    BY <2>2
  <2> QED BY <1>2, <2>1, <2>2
<1> QED BY <1>1, <1>2, <1>3

\* What is awaited when a stop has been sent.
LEMMA AwaitOf == WholeInv /\ call.op = "stop" => d.pc = "stop"
  BY NoCallOp DEF WholeInv, DeskInv, CallPhase, Asked, PhaseInv, AtRest, Beginning, LettingGo, Previewing, Recording,
    EndingPreview, EndingRecording, Leaving, Refused, Done, Ready

LEMMA DatagramSse == WholeInv /\ Datagram => SseMoves
<1> SUFFICES ASSUME WholeInv, Datagram PROVE SseMoves
  OBVIOUS
<1> DEFINE b == [bridge EXCEPT !.datagrams = @ + 1]
           sent == [k |-> "datagram", cap |-> b.cap, seq |-> bridge.datagrams, at |-> DurationOf(bridge)]
<1>1. bridge.state = "capturing" /\ SetWithTruth(b) /\ Broadcast(<<sent>>) /\ stream' = stream
  BY DEF Datagram
<1>2. b.cap = bridge.cap /\ bridge' = b
  BY <1>1, OpenFacts DEF Bridges, WholeInv, UdpInv, SetWithTruth, Set
<1> HIDE DEF b
<1>3. PICK m : m = sent
  OBVIOUS
<1>4. IsInput(m, bridge.cap)
  BY <1>2, <1>3 DEF IsInput
<1> HIDE DEF sent
<1>5. SseOk /\ Broadcast(<<m>>)
  BY <1>1, <1>3 DEF WholeInv, HonestInv
<1>6. (stream = "on" /\ sse' = Append(sse, m)) \/ (stream # "on" /\ sse' = sse)
  BY <1>5, BroadcastOne
<1> QED BY <1>1, <1>2, <1>4, <1>6 DEF SseMoves, Heard

LEMMA BeginSse ==
  ASSUME WholeInv, NEW b, bridge' = b, Broadcast(<<Status(b)>>), stream' = stream
  PROVE  SseMoves
<1>1. PICK m : m = Status(b)
  OBVIOUS
<1>2. IsStatus(m, b.cap)
  BY <1>1 DEF IsStatus, Status, StatusOf
<1>3. SseOk /\ Broadcast(<<m>>)
  BY <1>1 DEF WholeInv, HonestInv
<1>4. (stream = "on" /\ sse' = Append(sse, m)) \/ (stream # "on" /\ sse' = sse)
  BY <1>3, BroadcastOne
<1> QED BY <1>2, <1>4 DEF SseMoves, Heard

LEMMA StatusSse ==
  ASSUME WholeInv, NEW b, Broadcast(<<Status(b)>>), ~Heard'
  PROVE  SseMoves
<1>1. PICK m : m = Status(b) /\ Harmless(m)
  BY HarmlessMessages
<1>2. PICK ms : ms = <<m>> /\ IsSeq(ms) /\ \A i \in 1..Len(ms) : Harmless(ms[i])
  BY <1>1, HarmlessList
<1>3. SseOk /\ Broadcast(ms)
  BY <1>1, <1>2 DEF WholeInv, HonestInv
<1> QED BY <1>2, <1>3, SentHarmless

LEMMA PairSse ==
  ASSUME WholeInv, NEW b, NEW e \in Fatal, Broadcast(<<Error(e), Status(b)>>), ~Heard'
  PROVE  SseMoves
<1>1. PICK m : m = Status(b) /\ Harmless(m)
  BY HarmlessMessages
<1>2. PICK u : u = Error(e) /\ Harmless(u)
  BY HarmlessMessages
<1>3. PICK ms : ms = <<u, m>> /\ IsSeq(ms) /\ \A i \in 1..Len(ms) : Harmless(ms[i])
  BY <1>1, <1>2, HarmlessList
<1>4. SseOk /\ Broadcast(ms)
  BY <1>1, <1>2, <1>3 DEF WholeInv, HonestInv
<1> QED BY <1>3, <1>4, SentHarmless

LEMMA SocketSse == WholeInv /\ SocketFails => SseMoves
<1> SUFFICES ASSUME WholeInv, SocketFails PROVE SseMoves
  OBVIOUS
<1> DEFINE e == Ended(bridge, TRUE)
           b == [e EXCEPT !.state = "error", !.err = "socket", !.drops = -1]
<1>1. bridge' = b /\ Broadcast(<<Error("socket"), Status(b)>>) /\ bridge.state = "capturing"
  BY DEF SocketFails, SetWithTruth, Set
<1>2. e \in Bridges
  BY <1>1, OpenFacts, DurationTyped, EndedTyped DEF WholeInv, UdpInv, LifeInv
<1> HIDE DEF e
<1>3. bridge'.state = "error"
  BY <1>1, <1>2 DEF Bridges
<1>4. PICK c, err : c = b /\ err = "socket" /\ err \in Fatal
  BY DEF Fatal
<1> HIDE DEF b
<1> QED BY <1>1, <1>3, <1>4, PairSse DEF Heard

LEMMA ForeignSse == WholeInv /\ ForeignStart => SseMoves
<1> SUFFICES ASSUME WholeInv, ForeignStart PROVE SseMoves
  OBVIOUS
<1>1. PICK b : b = Capturing(Foreign)
  OBVIOUS
<1>2. bridge' = b /\ Broadcast(<<Status(b)>>) /\ stream' = stream
  BY <1>1 DEF ForeignStart, SetWithTruth, Set
<1> QED BY <1>2, BeginSse

LEMMA OpensSse == WholeInv /\ Opens => SseMoves
<1> SUFFICES ASSUME WholeInv, Opens PROVE SseMoves
  OBVIOUS
<1>1. PICK b : b = Capturing(bridge.starting)
  OBVIOUS
<1>2. bridge' = b /\ Broadcast(<<Status(b)>>) /\ stream' = stream
  BY <1>1 DEF Opens, SetWithTruth, Set
<1> QED BY <1>2, BeginSse

LEMMA RestartSse == WholeInv /\ BridgeRestarts => SseMoves
<1> SUFFICES ASSUME WholeInv, BridgeRestarts PROVE SseMoves
  OBVIOUS
<1>1. bridge' = Idle /\ (sse' = sse \/ sse' = Append(sse, Lost))
  BY Zenon DEF BridgeRestarts, Set
<1>2. ~Heard'
  BY <1>1 DEF Heard, Idle
<1>3. CASE sse' = sse
  BY <1>2, <1>3 DEF SseMoves
<1>4. CASE sse' = Append(sse, Lost)
  <2>1. PICK s, m : s = sse /\ m = Lost
    OBVIOUS
  <2>2. IsSeq(s) /\ Harmless(m)
    BY <2>1, HarmlessMessages DEF WholeInv, HonestInv, SseOk
  <2>3. PICK u : /\ u = Append(s, m) /\ IsSeq(u) /\ Begins(u, s, Len(s)) /\ Len(u) = Len(s) + 1
                 /\ u[Len(s) + 1] = m /\ \A i \in 1..Len(u) : Len(s) < i => u[i] = m
    BY <2>2, AppendBegins
  <2>4. PICK k : k = Len(s)
    OBVIOUS
  <2>5. u = sse' /\ Begins(u, s, k) /\ \A i \in 1..Len(u) : k < i => Harmless(u[i])
    BY <1>4, <2>1, <2>2, <2>3, <2>4
  <2> QED BY <1>2, <2>1, <2>5 DEF SseMoves
<1> QED BY <1>1, <1>3, <1>4

LEMMA CutSse == WholeInv /\ StreamCut => SseMoves
<1> SUFFICES ASSUME WholeInv, StreamCut PROVE SseMoves
  OBVIOUS
<1>1. PICK kept \in 0..Len(sse), overflow \in BOOLEAN :
        sse' = SubSeq(sse, 1, kept) \o (IF overflow THEN <<Error("overflow"), Lost>> ELSE <<Lost>>)
  BY Zenon DEF StreamCut
<1>2. ~Heard'
  <2>1. stream' = "cut"
    BY Zenon DEF StreamCut
  <2> QED BY <2>1 DEF Heard
<1>3. PICK s, k : s = sse /\ k = kept
  OBVIOUS
<1>4. IsSeq(s) /\ k \in 0..Len(s)
  BY <1>3 DEF WholeInv, HonestInv, SseOk
<1>5. PICK old : old = SubSeq(s, 1, k)
  OBVIOUS
<1>6. IsSeq(old) /\ Begins(old, s, k) /\ Len(old) = k
  BY <1>4, <1>5, PrefixBegins
<1>7. PICK e : e = Lost /\ Harmless(e)
  BY HarmlessMessages
<1>8. PICK u : u = Error("overflow") /\ Harmless(u)
  BY HarmlessMessages DEF Fatal
<1>9. PICK ms : ms = (IF overflow THEN <<u, e>> ELSE <<e>>) /\ IsSeq(ms) /\ \A i \in 1..Len(ms) : Harmless(ms[i])
  BY <1>7, <1>8, HarmlessList
<1>10. sse' = old \o ms
  BY <1>1, <1>3, <1>5, <1>7, <1>8, <1>9
<1>11. PICK v : Joined(v, old, ms)
  BY DEF Joined
<1>12. v = sse'
  BY <1>10, <1>11 DEF Joined
<1>13. /\ IsSeq(v) /\ Begins(v, old, Len(old))
       /\ \A i \in 1..Len(v) : Len(old) < i => \E j \in 1..Len(ms) : v[i] = ms[j]
  BY <1>6, <1>9, <1>11, JoinBegins
<1>14. Begins(v, s, k)
  BY <1>4, <1>6, <1>13, BeginsFurther
<1>15. \A i \in 1..Len(v) : k < i => Harmless(v[i])
  BY <1>6, <1>9, <1>13
<1> QED BY <1>2, <1>3, <1>12, <1>14, <1>15 DEF SseMoves

LEMMA ServeStartSse == WholeInv /\ ServeStart => SseMoves
<1> SUFFICES ASSUME WholeInv, ServeStart PROVE SseMoves
  OBVIOUS
<1> DEFINE b == [bridge EXCEPT !.state = "starting", !.starting = call.nonce, !.err = "none"]
<1>1. /\ stream' = stream
      /\ \/ bridge' = b /\ Broadcast(<<Status(b)>>)
         \/ bridge' = bridge /\ sse' = sse
  BY Zenon DEF ServeStart, Set
<1>2. CASE bridge' = b /\ Broadcast(<<Status(b)>>)
  <2>1. bridge'.state = "starting"
    BY <1>2 DEF WholeInv, UdpInv, LifeInv, LinkTyped, Bridges
  <2>2. PICK c : c = b
    OBVIOUS
  <2> HIDE DEF b
  <2> QED BY <1>2, <2>1, <2>2, StatusSse DEF Heard
<1>3. CASE bridge' = bridge /\ sse' = sse
  BY <1>1, <1>3 DEF SseMoves, Heard
<1> QED BY <1>1, <1>2, <1>3

LEMMA BindSse == WholeInv /\ BindFails => SseMoves
<1> SUFFICES ASSUME WholeInv, BindFails PROVE SseMoves
  OBVIOUS
<1> DEFINE no == 0
           b == [bridge EXCEPT !.state = "error", !.starting = no, !.err = "bind"]
<1>1. bridge' = b /\ Broadcast(<<Error("bind"), Status(b)>>)
  BY Zenon DEF BindFails, Set
<1>2. bridge'.state = "error"
  BY <1>1 DEF WholeInv, UdpInv, LifeInv, LinkTyped, Bridges
<1>3. PICK c, err : c = b /\ err = "bind" /\ err \in Fatal
  BY DEF Fatal
<1> HIDE DEF b
<1> QED BY <1>1, <1>2, <1>3, PairSse DEF Heard

\* The only warning of a bridge is sent when its capture is stopped.
LEMMA ServeStopSse == WholeInv /\ ServeStop => SseMoves
<1> SUFFICES ASSUME WholeInv, ServeStop PROVE SseMoves
  OBVIOUS
<1> DEFINE early == [bridge EXCEPT !.state = "stopping"]
           Sent(leaveFails, b) == <<Status(early)>> \o (IF leaveFails THEN <<Error("leave")>> ELSE <<>>) \o <<Status(b)>>
<1>1. /\ call.op = "stop" /\ stream' = stream
      /\ \/ \E drops \in {0, 1}, leaveFails \in BOOLEAN :
                 /\ SetWithTruth(StoppedOf(drops, leaveFails))
                 /\ Broadcast(Sent(leaveFails, StoppedOf(drops, leaveFails)))
         \/ UNCHANGED <<bridge, sse>>
  BY Zenon DEF ServeStop, StoppedOf, StoppingOf
<1>2. d.pc = "stop"
  BY <1>1, AwaitOf
<1>3. CASE UNCHANGED <<bridge, sse>>
  BY <1>1, <1>3 DEF SseMoves, Heard
<1>4. ASSUME NEW drops \in {0, 1}, NEW leaveFails \in BOOLEAN,
             SetWithTruth(StoppedOf(drops, leaveFails)), Broadcast(Sent(leaveFails, StoppedOf(drops, leaveFails)))
      PROVE  SseMoves
  <2>1. PICK c : c = StoppedOf(drops, leaveFails)
    OBVIOUS
  <2>2. bridge' = c /\ c.state = "stopped"
    BY <1>4, <2>1, StoppedTyped DEF WholeInv, UdpInv, LifeInv, SetWithTruth, Set
  <2>3. PICK m1, m2, m3 : m1 = Status(early) /\ m2 = Error("leave") /\ m3 = Status(c)
    OBVIOUS
  <2>4. Harmless(m1) /\ Harmless(m2) /\ Harmless(m3)
    BY <1>2, <2>3, HarmlessMessages
  <2> HIDE DEF early
  <2>5. PICK s1 : s1 = <<m1>> /\ IsSeq(s1) /\ \A i \in 1..Len(s1) : Harmless(s1[i])
    BY <2>4, HarmlessList
  <2>6. PICK s2 : s2 = (IF leaveFails THEN <<m2>> ELSE <<>>) /\ IsSeq(s2) /\ \A i \in 1..Len(s2) : Harmless(s2[i])
    <3>1. CASE leaveFails
      <4>1. PICK s : s = <<m2>> /\ IsSeq(s) /\ \A i \in 1..Len(s) : Harmless(s[i])
        BY <2>4, HarmlessList
      <4> QED BY <3>1, <4>1
    <3>2. CASE ~leaveFails
      <4>1. IsSeq(<<>>) /\ Len(<<>>) = 0
        BY Messages
      <4> QED BY <3>2, <4>1
    <3> QED BY <3>1, <3>2
  <2>7. PICK s3 : s3 = <<m3>> /\ IsSeq(s3) /\ \A i \in 1..Len(s3) : Harmless(s3[i])
    BY <2>4, HarmlessList
  <2>8. PICK s4 : s4 = s1 \o s2 /\ IsSeq(s4) /\ \A i \in 1..Len(s4) : Harmless(s4[i])
    BY <2>5, <2>6, HarmlessJoin
  <2>9. PICK s5 : s5 = s4 \o s3 /\ IsSeq(s5) /\ \A i \in 1..Len(s5) : Harmless(s5[i])
    BY <2>7, <2>8, HarmlessJoin
  <2>10. Broadcast(s5)
    BY <1>4, <2>1, <2>3, <2>5, <2>6, <2>7, <2>8, <2>9
  <2>11. ~Heard' /\ SseOk
    BY <2>2 DEF Heard, WholeInv, HonestInv
  <2> QED BY <2>9, <2>10, <2>11, SentHarmless
<1> QED BY <1>1, <1>3, <1>4

LEMMA LinkSse == WholeInv /\ LinkStep => SseMoves /\ (stream = "off" => stream' = "off")
<1> SUFFICES ASSUME WholeInv, LinkStep PROVE SseMoves /\ (stream = "off" => stream' = "off")
  OBVIOUS
<1>1. ServeStatus \/ CallLost \/ Tick => SseMoves /\ stream' = stream
  BY DEF ServeStatus, CallLost, Tick, SseMoves, Heard
<1>2. stream = "off" => stream' = "off"
  BY <1>1, Zenon DEF LinkStep, Serve, Surprise, ServeStart, Opens, BindFails, ServeStop, Datagram, SocketFails,
    ForeignStart, BridgeRestarts, StreamCut
<1> QED BY <1>1, <1>2, DatagramSse, SocketSse, ForeignSse, RestartSse, CutSse, ServeStartSse, OpensSse, BindSse,
          ServeStopSse DEF LinkStep, Serve, Surprise

RefusalInv == LogInv /\ DutyInv /\ QueueInv /\ FinInv

\* The clock goes on, and nothing gets behind by that.
LEMMA LinkClock ==
  ASSUME WholeInv, LogInv, LinkStep
  PROVE  d' = d /\ LogInv' /\ (Behind' => Behind)
<1>1. d' = d /\ (now' = now \/ now' = now + 1)
  BY Zenon DEF LinkStep, Serve, Surprise, ServeStatus, ServeStart, Opens, BindFails, ServeStop, Datagram, SocketFails,
    ForeignStart, BridgeRestarts, StreamCut, CallLost, Tick
<1>2. PICK x, t, u : x = d /\ t = now /\ u = now'
  OBVIOUS
<1>3. IsDialog(x) /\ t \in Int /\ u \in Int /\ t <= u
  <2>1. IsDialog(x) /\ t \in Int
    BY <1>2, Counts DEF WholeInv, DeskInv
  <2> QED BY <1>1, <1>2, <2>1
<1>4. ASSUME Log(x, t) PROVE Log(x, u)
  <2>1. x.t0 \in Int /\ x.last \in Int
    BY <1>3 DEF IsDialog
  <2>2. t - x.t0 <= u - x.t0 /\ x.last <= x.last
    BY <1>3, <2>1
  <2>3. x.frozen # -1 => x.frozen >= 1
    BY <1>4 DEF Log
  <2>4. Reach(x, t) <= Reach(x, u)
    BY <1>3, <2>2, <2>3, ReachGrows
  <2> QED BY <1>3, <1>4, <2>3, <2>4, LogKept
<1>5. Stale(x, u) => Stale(x, t)
  <2>1. x.stDur \in Int /\ x.t0 \in Int
    BY <1>3 DEF IsDialog
  <2> QED BY <1>3, <2>1 DEF Stale
<1>6. d' = x /\ now' = u /\ d = x /\ now = t
  BY <1>1, <1>2
<1> QED BY <1>4, <1>5, <1>6 DEF LogInv, Taping, Behind

LEMMA LinkRefusal == WholeInv /\ RefusalInv /\ LinkStep => RefusalInv'
<1> SUFFICES ASSUME WholeInv, RefusalInv, LinkStep PROVE RefusalInv'
  OBVIOUS
<1>1. d' = d /\ LogInv' /\ (Behind' => Behind)
  BY LinkClock DEF RefusalInv
<1>2. SseMoves /\ (stream = "off" => stream' = "off")
  BY LinkSse
<1>3. QueueInv'
  BY <1>1, <1>2, QueueMoves DEF RefusalInv
<1>4. DutyInv' /\ FinInv'
  <2>1. PICK x : x = d
    OBVIOUS
  <2>2. d' = x
    BY <1>1, <2>1
  <2>3. DutyInv'
    BY <2>1, <2>2 DEF RefusalInv, DutyInv
  <2>4. FinInv'
    <3>1. PICK a, b : a = x.ctx[1] /\ b = x.ctx[2]
      OBVIOUS
    <3> QED BY <2>1, <2>2, <3>1 DEF RefusalInv, FinInv
  <2> QED BY <2>3, <2>4
<1> QED BY <1>1, <1>3, <1>4 DEF RefusalInv

-----------------------------------------------------------------------------
(* What the page does to what is refused *)

\* What LogInv and DutyInv say, of a dialog and a time.
Duty(x, t) ==
  /\ x.phase = "capturing" \/ (x.phase = "stopping" /\ x.cont \in {"save", "discard"}) => Log(x, t)
  /\ x.cont = "beginRecording" => x.purpose = "preflight"
  /\ x.cont = "cancel" => x.phase = "canceling"
  /\ x.phase = "stopping" /\ x.cont \in {"save", "discard"} => x.frozen # -1
  /\ x.phase = "starting" /\ x.purpose = "recording" =>
       x.pc \in {"connect", "refresh", "start"} /\ x.frozen = -1 /\ ~x.limitEvent /\ Waits(x)
\* The dialog x records, or is about to, and has not been frozen.
Awake(x) == x.purpose = "recording" /\ x.phase \in {"starting", "capturing"} /\ x.frozen = -1

LEMMA DutyNow == RefusalInv <=> Duty(d, now) /\ QueueInv /\ FinInv
  BY DEF RefusalInv, LogInv, DutyInv, Duty, Taping

LEMMA DutyNext ==
  ASSUME NEW x, NEW t, d' = x, now' = t, Duty(x, t), QueueInv', FinInv'
  PROVE  RefusalInv'
  BY DEF RefusalInv, LogInv, DutyInv, Duty, Taping

\* The page moves on: it no longer listens, or it goes on listening as before.
LEMMA PageRefusal ==
  ASSUME RefusalInv, NEW y, d' = y, now' = now, bridge' = bridge, Duty(y, now), FinInv',
         \/ y.phase # "capturing" /\ sse' = <<>>
         \/ /\ sse' = sse /\ stream' = stream /\ (y.phase = "capturing" => ~Stale(y, now))
            /\ Awake(y) => Awake(d)
  PROVE  RefusalInv'
<1>1. CASE y.phase # "capturing" /\ sse' = <<>>
  <2>1. PICK s : s = <<>> /\ IsSeq(s) /\ Len(s) = 0
    BY Messages
  <2>2. Fresh(s) /\ FatalOnly(s) /\ \A c : Turned(s, c)
    BY <2>1 DEF Fresh, FatalOnly, Turned
  <2>3. sse' = s /\ ~Behind'
    BY <1>1, <2>1 DEF Behind
  <2>4. QueueInv'
    BY <2>2, <2>3 DEF QueueInv
  <2> QED BY <2>4, DutyNext
<1>2. CASE /\ sse' = sse /\ stream' = stream /\ (y.phase = "capturing" => ~Stale(y, now))
           /\ Awake(y) => Awake(d)
  <2>1. PICK s, c, x, t : s = sse /\ c = bridge.cap /\ x = d /\ t = now
    OBVIOUS
  <2>2. sse' = s /\ bridge'.cap = c /\ (Heard' => Heard)
    BY <1>2, <2>1 DEF Heard
  <2>3. ~Behind'
    <3>1. y.phase = "capturing" => ~Stale(y, t)
      BY <1>2, <2>1
    <3>2. d' = y /\ now' = t
      BY <2>1
    <3> QED BY <3>1, <3>2 DEF Behind
  <2>4. Listens' => Listens
    BY <1>2 DEF Listens, Awake
  <2>5. Fresh(s) /\ (Heard => Turned(s, c)) /\ (Listens => FatalOnly(s))
    BY <2>1 DEF RefusalInv, QueueInv
  <2>6. QueueInv'
    BY <2>2, <2>3, <2>4, <2>5 DEF QueueInv
  <2> QED BY <2>6, DutyNext
<1> QED BY <1>1, <1>2

\* The dialog is back at its first screen, or a start begins.
LEMMA RestRefusal ==
  ASSUME RefusalInv, d' = Ready, now' = now, bridge' = bridge, sse' = <<>>
  PROVE  RefusalInv'
<1>1. PICK y : y = Ready
  OBVIOUS
<1>2. y.phase = "ready" /\ y.cont = "none"
  BY <1>1, ReadyFacts
<1>3. Duty(y, now) /\ FinInv'
  BY <1>1, <1>2 DEF Duty, FinInv
<1> QED BY <1>1, <1>2, <1>3, PageRefusal

LEMMA BegunRefusal ==
  ASSUME RefusalInv, NEW purpose, Begin(purpose), now' = now, bridge' = bridge, sse' = <<>>
  PROVE  RefusalInv'
<1>1. PICK y : y = d'
  OBVIOUS
<1>2. /\ y.phase = "starting" /\ y.cont = "none" /\ y.pc = "connect" /\ y.frozen = -1 /\ ~y.limitEvent
      /\ y.pendEvents = <<>>
  BY <1>1 DEF Begin, Ready
<1>3. Waits(y)
  <2>1. PICK s : s = <<>> /\ IsSeq(s) /\ Len(s) = 0
    BY Messages
  <2> QED BY <1>2, <2>1 DEF Waits
<1>4. Duty(y, now) /\ FinInv'
  BY <1>1, <1>2, <1>3 DEF Duty, FinInv
<1> QED BY <1>1, <1>2, <1>4, PageRefusal

LEMMA FirstScreenRefusal ==
  RefusalInv /\ (StartPreflight \/ Reload \/ ConnectFails \/ StartFailed) => RefusalInv'
<1> SUFFICES ASSUME RefusalInv, StartPreflight \/ Reload \/ ConnectFails \/ StartFailed PROVE RefusalInv'
  OBVIOUS
<1>1. CASE StartPreflight
  <2>1. PICK purpose : purpose = "preflight"
    OBVIOUS
  <2>2. Begin(purpose) /\ now' = now /\ bridge' = bridge /\ sse' = <<>>
    BY <1>1, <2>1 DEF StartPreflight, Disconnect
  <2> QED BY <2>2, BegunRefusal
<1>2. CASE Reload \/ ConnectFails \/ StartFailed
  <2>1. d' = Ready /\ now' = now /\ bridge' = bridge /\ sse' = <<>>
    BY <1>2 DEF Reload, ConnectFails, StartFailed, StartThrows, Disconnect
  <2> QED BY <2>1, RestRefusal
<1> QED BY <1>1, <1>2

\* The dialog goes on to y, which neither records nor stops a recording.
LEMMA CalmRefusal ==
  ASSUME RefusalInv, NEW y, d' = y, now' = now, bridge' = bridge,
         y.phase \notin {"capturing", "finalize-error"}, y.phase = "stopping" => y.cont \notin {"save", "discard"},
         y.phase = "starting" => y.purpose # "recording",
         y.cont = "beginRecording" => y.purpose = "preflight", y.cont = "cancel" => y.phase = "canceling",
         sse' = <<>> \/ (sse' = sse /\ stream' = stream)
  PROVE  RefusalInv'
<1>1. Duty(y, now) /\ FinInv'
  BY DEF Duty, FinInv
<1>2. ~Awake(y)
  BY DEF Awake
<1> QED BY <1>1, <1>2, PageRefusal

\* The operator's actions that neither record nor finalise.
LEMMA OperatorRefusal ==
  WholeInv /\ RefusalInv /\ (Cancel \/ StopPreflight \/ BeginRecording \/ RetryDownload \/ LeaveRetained) => RefusalInv'
<1> SUFFICES ASSUME WholeInv, RefusalInv, Cancel \/ StopPreflight \/ BeginRecording \/ RetryDownload \/ LeaveRetained
    PROVE RefusalInv'
  OBVIOUS
<1>1. PICK x, y : x = d /\ y = d'
  OBVIOUS
<1>2. IsDialog(x) /\ Duty(x, now)
  BY <1>1, DutyNow DEF WholeInv, DeskInv
<1>3. CASE Cancel
  <2>1. /\ y = [x EXCEPT !.phase = "canceling", !.cancelled = TRUE]
        /\ sse' = <<>> /\ now' = now /\ bridge' = bridge
    BY <1>1, <1>3 DEF Cancel, Disconnect
  <2>2. y.phase = "canceling" /\ y.cont = x.cont /\ y.purpose = x.purpose
    BY <1>2, <2>1 DEF IsDialog, Fields
  <2>3. y.cont = "beginRecording" => y.purpose = "preflight"
    BY <1>2, <2>2 DEF Duty
  <2> QED BY <1>1, <2>1, <2>2, <2>3, CalmRefusal
<1>4. CASE StopPreflight \/ BeginRecording
  <2>1. PICK phase, cont : /\ Stopping([x EXCEPT !.phase = phase], cont)
                           /\ \/ phase = "stopping" /\ cont = "stopPreflight"
                              \/ phase = "starting" /\ cont = "beginRecording"
    BY <1>1, <1>4 DEF StopPreflight, BeginRecording
  <2>2. PICK z : z = [x EXCEPT !.phase = phase]
    OBVIOUS
  <2>3. y = [z EXCEPT !.pc = "get", !.cont = cont] /\ sse' = sse /\ stream' = stream /\ now' = now /\ bridge' = bridge
    BY <1>1, <2>1, <2>2 DEF Stopping
  <2>4. y.phase = phase /\ y.cont = cont /\ y.purpose = x.purpose
    BY <1>2, <2>2, <2>3 DEF IsDialog, Fields
  <2>5. x.purpose = "preflight"
    BY <1>1, <1>4, PhaseOf DEF StopPreflight, BeginRecording, WholeInv, DeskInv, Previewing
  <2> QED BY <1>1, <2>1, <2>3, <2>4, <2>5, CalmRefusal
<1>5. CASE RetryDownload
  <2>1. x.phase = "save-error" /\ y = [x EXCEPT !.phase = "saved"] /\ UNCHANGED <<sse, stream, now, bridge>>
    BY <1>1, <1>5 DEF RetryDownload, link
  <2>2. y.phase = "saved" /\ y.cont = x.cont /\ y.purpose = x.purpose
    BY <1>2, <2>1 DEF IsDialog, Fields
  <2>3. x.cont # "cancel" /\ (y.cont = "beginRecording" => y.purpose = "preflight")
    BY <1>2, <2>1, <2>2 DEF Duty
  <2> QED BY <1>1, <2>1, <2>2, <2>3, CalmRefusal
<1>6. CASE LeaveRetained
  <2>1. CASE d.client /\ d.owned # 0
    <3>1. PICK z, cont : z = [x EXCEPT !.phase = "stopping"] /\ cont = "leave" /\ Stopping(z, cont)
      BY <1>1, <1>6, <2>1 DEF LeaveRetained
    <3>2. y = [z EXCEPT !.pc = "get", !.cont = cont] /\ sse' = sse /\ stream' = stream /\ now' = now /\ bridge' = bridge
      BY <1>1, <3>1 DEF Stopping
    <3>3. y.phase = "stopping" /\ y.cont = "leave"
      BY <1>2, <3>1, <3>2 DEF IsDialog, Fields
    <3> QED BY <1>1, <3>2, <3>3, CalmRefusal
  <2>2. CASE ~(d.client /\ d.owned # 0)
    <3>1. d' = Ready /\ now' = now /\ bridge' = bridge /\ sse' = <<>>
      BY <1>6, <2>2 DEF LeaveRetained, Disconnect
    <3> QED BY <3>1, RestRefusal
  <2> QED BY <2>1, <2>2
<1> QED BY <1>3, <1>4, <1>5, <1>6

\* A start goes on.
LEMMA StartingRefusal == WholeInv /\ RefusalInv /\ (Connected \/ Refreshed) => RefusalInv'
<1> SUFFICES ASSUME WholeInv, RefusalInv, Connected \/ Refreshed PROVE RefusalInv'
  OBVIOUS
<1>1. PICK x, y : x = d /\ y = d'
  OBVIOUS
<1>2. IsDialog(x) /\ Duty(x, now)
  BY <1>1, DutyNow DEF WholeInv, DeskInv
<1>3. x.phase \in {"starting", "canceling"} /\ x.cont = "none"
  BY <1>1, BeginningFacts DEF Connected, Refreshed, Beginning
<1>4. /\ Same(y, x, {"pc", "stDur"}) /\ y.pc \in {"refresh", "start"}
      /\ now' = now /\ bridge' = bridge
      /\ \/ sse' = <<>>
         \/ sse' = sse /\ stream' = stream
  <2>1. CASE Connected
    <3>1. /\ y = [x EXCEPT !.pc = "refresh"] \/ y = [x EXCEPT !.pc = "start"]
          /\ now' = now /\ bridge' = bridge /\ sse' = <<>>
      BY <1>1, <2>1 DEF Connected, Connect
    <3> QED BY <1>2, <3>1 DEF IsDialog, Same, Fields
  <2>2. CASE Refreshed
    <3>1. PICK dur : y = [x EXCEPT !.pc = "start", !.stDur = dur]
      BY <1>1, <2>2, Zenon DEF Refreshed
    <3>2. UNCHANGED <<sse, stream, now, bridge>>
      BY <2>2 DEF Refreshed
    <3> QED BY <1>2, <3>1, <3>2 DEF IsDialog, Same, Fields
  <2> QED BY <2>1, <2>2
<1>5. /\ y.phase = x.phase /\ y.cont = x.cont /\ y.purpose = x.purpose /\ y.frozen = x.frozen
      /\ y.limitEvent = x.limitEvent /\ y.pendEvents = x.pendEvents
  BY <1>4 DEF Same, Fields
<1>6. Waits(x) => Waits(y)
  BY <1>5 DEF Waits
<1>7. Duty(y, now)
  BY <1>2, <1>3, <1>4, <1>5, <1>6 DEF Duty
<1>8. FinInv' /\ y.phase # "capturing" /\ (Awake(y) => Awake(d))
  BY <1>1, <1>3, <1>5 DEF FinInv, Awake
<1> QED BY <1>1, <1>4, <1>7, <1>8, PageRefusal

\* Stopping a recording fixes its duration.
LEMMA EndsRefusal == WholeInv /\ RefusalInv /\ (StopAndSave \/ DiscardCapture) => RefusalInv'
<1> SUFFICES ASSUME WholeInv, RefusalInv, StopAndSave \/ DiscardCapture PROVE RefusalInv'
  OBVIOUS
<1>1. PICK x, y, t : x = d /\ y = d' /\ t = now
  OBVIOUS
<1>2. IsDialog(x) /\ t \in Int /\ x.phase = "capturing" /\ Log(x, t)
  BY <1>1, Counts, DutyNow DEF WholeInv, DeskInv, StopAndSave, DiscardCapture, Duty
<1>3. PICK fr : fr = Freeze(x, t)
  OBVIOUS
<1>4. IsDialog(fr) /\ Same(fr, x, {"frozen"}) /\ Log(fr, t) /\ fr.frozen # -1
  BY <1>2, <1>3, FreezeStage, FreezeLog DEF Stage
<1>5. PICK z, cont : /\ z = [fr EXCEPT !.phase = "stopping"] \/ z = [fr EXCEPT !.phase = "stopping", !.closed = TRUE]
                     /\ cont \in {"save", "discard"} /\ Stopping(z, cont)
  BY <1>1, <1>3 DEF StopAndSave, DiscardCapture
<1>6. y = [z EXCEPT !.pc = "get", !.cont = cont] /\ UNCHANGED <<sse, stream, now, bridge>>
  BY <1>1, <1>5 DEF Stopping
<1>7. /\ Same(y, fr, {"phase", "pc", "cont", "closed"}) /\ y.cont = cont /\ y.phase = "stopping"
      /\ y.closed \in BOOLEAN
  <2>1. Same(z, fr, {"phase", "closed"}) /\ z.phase = "stopping" /\ z.closed \in BOOLEAN
    BY <1>4, <1>5 DEF IsDialog, Same, Fields
  <2>2. Same(y, z, {"pc", "cont"}) /\ y.cont = cont
    BY <1>6, <2>1 DEF Same, Fields
  <2> QED BY <2>1, <2>2 DEF Same, Fields
<1>8. IsDialog(y)
  BY <1>4, <1>7 DEF IsDialog, Same, Fields
<1>9. /\ y.rec = fr.rec /\ y.hasRec = fr.hasRec /\ y.lastKept = fr.lastKept /\ y.limitEvent = fr.limitEvent
      /\ y.logOk = fr.logOk /\ y.paused = fr.paused /\ y.frozen = fr.frozen /\ y.last = fr.last /\ y.t0 = fr.t0
  BY <1>7 DEF Same, Fields
<1>10. Log(y, t)
  <2>1. fr.frozen >= 1 /\ Reach(fr, t) = fr.frozen /\ Reach(y, t) = fr.frozen /\ fr.frozen \in Int
    BY <1>4, <1>9 DEF Log, Reach, IsDialog
  <2>2. Reach(fr, t) <= Reach(y, t)
    BY <2>1
  <2> QED BY <1>2, <1>4, <1>8, <1>9, <2>1, <2>2, LogKept
<1>11. Duty(y, t)
  BY <1>4, <1>5, <1>7, <1>9, <1>10 DEF Duty
<1>12. FinInv' /\ y.phase # "capturing" /\ ~Awake(y)
  BY <1>1, <1>7 DEF FinInv, Awake
<1> QED BY <1>1, <1>6, <1>11, <1>12, PageRefusal

\* A finalisation leaves the dialog in one of its last phases.
Placed(x) == d'.phase \in {"finalize-error", "save-error", "saved"} /\ d'.cont = x.cont /\ d'.purpose = x.purpose
LEMMA FinishPlaced ==
  ASSUME NEW z, NEW x, Same(x, z, Changed), NEW duration, NEW ev, Finish(x, duration, ev)
  PROVE  Placed(z)
<1> DEFINE a == Attempt(x, duration, ev)
<1>1. PICK e : e = a.d
  OBVIOUS
<1>2. Same(e, x, {"rec", "pc", "limitEvent", "ctx"})
  <2>1. PICK r, limit, ctx : \/ a.d = [x EXCEPT !.pc = "idle", !.ctx = ctx]
                             \/ a.d = [[x EXCEPT !.rec = r, !.pc = "idle", !.limitEvent = limit] EXCEPT !.ctx = ctx]
    BY Zenon DEF Attempt
  <2> HIDE DEF a
  <2> QED BY <1>1, <2>1 DEF Same, Fields
<1>3. \/ \E phase \in {"saved", "save-error"} :
           d' = [e EXCEPT !.phase = phase, !.hasRec = FALSE, !.rec = NewRecorder, !.ctx = <<>>]
      \/ d' = [e EXCEPT !.phase = "finalize-error"]
  BY <1>1, Zenon DEF Finish
<1> HIDE DEF a
<1>4. PICK y : y = d'
  OBVIOUS
<1>5. y.phase \in {"finalize-error", "save-error", "saved"} /\ y.cont = e.cont /\ y.purpose = e.purpose
  BY <1>2, <1>3, <1>4 DEF Same, Fields
<1>6. e.cont = z.cont /\ e.purpose = z.purpose
  BY <1>2 DEF Same, Fields, Changed
<1> QED BY <1>4, <1>5, <1>6 DEF Placed

LEMMA StoppedPlaced ==
  ASSUME NEW x, IsDialog(x), Stopped(x)
  PROVE  sse' = <<>> /\ (d' = Ready \/ Placed(x))
<1> DEFINE after == AfterDrain(x)
           holds == IntegrityHolds(x)
           y == [after EXCEPT !.reason = @ \/ ~holds]
<1>1. sse' = <<>> /\ (d' = Ready \/ Finish(y, y.verified, Evidence(y, y.verified)))
  BY Zenon DEF Stopped, Disconnect
<1>2. Same(after, x, {"closed", "reported", "client", "verified", "stop"})
  BY DEF AfterDrain, IsDialog, Same, Fields
<1> HIDE DEF after, holds
<1>3. Same(y, x, Changed)
  <2>1. PICK b : b = (after.reason \/ ~holds)
    OBVIOUS
  <2>2. y = [after EXCEPT !.reason = b]
    BY <1>2, <2>1 DEF Same, Fields
  <2> QED BY <1>2, <2>2 DEF Same, Fields, Changed
<1> HIDE DEF y
<1>4. PICK duration, ev : duration = y.verified /\ ev = Evidence(y, duration)
  OBVIOUS
<1> QED BY <1>1, <1>3, <1>4, FinishPlaced

LEMMA ThrewPlaced ==
  ASSUME NEW x, IsDialog(x), StopThrew(x)
  PROVE  sse' = <<>> /\ (d' = Ready \/ Placed(x))
<1> DEFINE z == [x EXCEPT !.stop = "unconfirmed", !.closed = TRUE, !.reason = TRUE]
           e == Event("shutdown-unconfirmed", Session, <<>>)
           y == RecordEvent(z, e)
           duration == Top({x.frozen, x.verified, x.lastKept + 1})
           ev == Evidence(y, duration)
<1>1. sse' = <<>> /\ (d' = Ready \/ Finish(y, duration, ev))
  BY Zenon DEF StopThrew, Disconnect
<1>2. Same(z, x, {"stop", "closed", "reason"}) /\ z.reason = TRUE /\ z.closed = TRUE
  BY DEF IsDialog, Same, Fields
<1> HIDE DEF z, e
<1>3. IsDialog(z)
  BY <1>2 DEF IsDialog, Same, Fields
<1>4. Same(y, z, {"rec", "logOk", "limitEvent", "pendEvents"})
  BY <1>3, RecordFacts
<1> HIDE DEF y, duration, ev
<1>5. Same(y, x, Changed)
  BY <1>2, <1>4 DEF Same, Changed
<1>6. PICK dur, evidence : dur = duration /\ evidence = ev
  OBVIOUS
<1> QED BY <1>1, <1>5, <1>6, FinishPlaced

\* A recording is over.
LEMMA PlacedRefusal ==
  ASSUME RefusalInv, NEW x, d' = Ready \/ Placed(x), now' = now, bridge' = bridge, FinInv',
         sse' = <<>> \/ (sse' = sse /\ stream' = stream /\ d' # Ready),
         x.cont # "cancel", x.cont = "beginRecording" => x.purpose = "preflight"
  PROVE  RefusalInv'
<1>1. CASE d' = Ready
  BY <1>1, RestRefusal
<1>2. CASE Placed(x)
  <2>1. PICK y : y = d'
    OBVIOUS
  <2>2. Duty(y, now) /\ y.phase # "capturing" /\ ~Awake(y)
    BY <1>2, <2>1 DEF Placed, Duty, Awake
  <2> QED BY <2>1, <2>2, PageRefusal
<1> QED BY <1>1, <1>2

LEMMA RetryRefusal == WholeInv /\ RefusalInv /\ RetryFinalization => RefusalInv'
<1> SUFFICES ASSUME WholeInv, RefusalInv, RetryFinalization PROVE RefusalInv'
  OBVIOUS
<1>1. PICK x, duration, ev : x = d /\ duration = x.ctx[1] /\ ev = x.ctx[2]
  OBVIOUS
<1>2. /\ IsDialog(x) /\ Duty(x, now) /\ x.phase = "finalize-error" /\ Finish(x, duration, ev)
      /\ UNCHANGED <<sse, stream, now, bridge>>
  BY <1>1, DutyNow DEF WholeInv, DeskInv, RetryFinalization, link
<1>3. x.rec.records > 0 => Closing(x, duration, ev)
  BY <1>1, <1>2 DEF RefusalInv, FinInv
<1>4. FinInv'
  BY <1>2, <1>3, FinishRefused
<1>5. Placed(x)
  <2>1. Same(x, x, Changed)
    BY <1>2 DEF IsDialog, Same
  <2> QED BY <1>2, <2>1, FinishPlaced
<1>6. x.cont # "cancel" /\ (x.cont = "beginRecording" => x.purpose = "preflight")
  BY <1>2 DEF Duty
<1>7. d' # Ready
  BY <1>5, ReadyFacts DEF Placed
<1> QED BY <1>2, <1>4, <1>5, <1>6, <1>7, PlacedRefusal

\* What the page knows while a capture is stopped, of the dialog x it goes on with.
Ending(x) ==
  /\ IsDialog(x) /\ x.cont = d.cont /\ x.purpose = d.purpose /\ x.phase = d.phase
  /\ x.cont \in {"save", "discard"} => Log(x, now) /\ x.frozen # -1 /\ x.phase = "stopping"
     /\ x.purpose = "recording" /\ x.owned # 0

LEMMA EndingSelf ==
  ASSUME WholeInv, RefusalInv, d.pc \in {"get", "stop", "drain"}
  PROVE  \E x : x = d /\ Ending(x)
<1>1. PICK x : x = d
  OBVIOUS
<1>2. IsDialog(x) /\ (x.cont \in {"save", "discard"} => x.phase = "stopping" /\ x.purpose = "recording" /\ x.owned # 0)
  BY <1>1, EndingFacts DEF EndingRecording
<1>3. Duty(x, now)
  BY <1>1, DutyNow
<1> QED BY <1>1, <1>2, <1>3 DEF Ending, Duty

\* The status of an answer is taken in.
LEMMA EndingTaken ==
  ASSUME WholeInv, RefusalInv, d.pc \in {"get", "stop"}, call.at = "answered", NEW st, st = call.ans
  PROVE  LET x == AcceptStatus(d, st) IN st \in Statuses /\ Ending(x)
<1>1. PICK z, x : z = d /\ x = AcceptStatus(z, st)
  OBVIOUS
<1>2. st \in Statuses /\ Stage(x, z)
  BY <1>1, TakenFacts DEF Honest
<1>3. Ending(z)
  BY <1>1, EndingSelf
<1>4. /\ IsDialog(x) /\ x.cont = z.cont /\ x.purpose = z.purpose /\ x.phase = z.phase /\ x.owned = z.owned
  BY <1>2, StageFacts
<1>5. ASSUME z.cont \in {"save", "discard"}  PROVE Log(x, now) /\ x.frozen # -1
  <2>1. IsDialog(z) /\ Log(z, now) /\ z.frozen # -1 /\ now \in Int
    BY <1>3, <1>5, Counts DEF Ending, WholeInv
  <2> QED BY <1>1, <1>2, <2>1, StatusLog
<1> QED BY <1>1, <1>2, <1>3, <1>4, <1>5 DEF Ending

\* The stop threw.
LEMMA ThrownRefusal ==
  ASSUME WholeInv, RefusalInv, d.pc \in {"get", "stop"}, NEW x, Ending(x), AfterThrow(x),
         now' = now, bridge' = bridge
  PROVE  RefusalInv'
<1>1. CASE x.cont \in {"save", "discard"}
  <2>1. StopThrew(x)
    BY <1>1 DEF AfterThrow
  <2>2. PICK t : t = now /\ t \in Int
    BY Counts DEF WholeInv
  <2>3. IsDialog(x) /\ Log(x, t) /\ x.frozen # -1 /\ x.purpose = "recording"
    BY <1>1, <2>2 DEF Ending
  <2>4. FinInv'
    BY <2>1, <2>2, <2>3, StopThrewRefused
  <2>5. sse' = <<>> /\ (d' = Ready \/ Placed(x))
    BY <2>1, <2>3, ThrewPlaced
  <2> QED BY <1>1, <2>4, <2>5, PlacedRefusal
<1>2. CASE x.cont \notin {"save", "discard"}
  <2>1. d' = Ready /\ sse' = <<>>
    BY <1>2 DEF AfterThrow, Disconnect
  <2> QED BY <2>1, RestRefusal
<1> QED BY <1>1, <1>2

\* The recording ends with the final status it knows.
LEMMA StoppedRefusal ==
  ASSUME WholeInv, RefusalInv, NEW x, IsDialog(x), Log(x, now), x.frozen # -1, x.final \in Statuses,
         x.cont \in {"save", "discard"}, Stopped(x), now' = now, bridge' = bridge
  PROVE  RefusalInv'
<1>1. PICK t : t = now /\ t \in Int
  BY Counts DEF WholeInv
<1>2. FinInv'
  BY <1>1, StoppedRefused
<1>3. sse' = <<>> /\ (d' = Ready \/ Placed(x))
  BY StoppedPlaced
<1> QED BY <1>2, <1>3, PlacedRefusal

\* The dialog waits for another answer, or for the last datagrams.
LEMMA OnRefusal ==
  ASSUME WholeInv, RefusalInv, NEW x, Ending(x), d.pc \in {"get", "stop"}, NEW pc, NEW y, d' = y, y = [x EXCEPT !.pc = pc],
         now' = now, bridge' = bridge, sse' = sse, stream' = stream
  PROVE  RefusalInv'
<1>1. PICK t : t = now /\ t \in Int
  BY Counts DEF WholeInv
<1>2. Same(y, x, {"pc"}) /\ IsDialog(x)
  BY DEF Ending, IsDialog, Same, Fields
<1>3. /\ y.rec = x.rec /\ y.hasRec = x.hasRec /\ y.lastKept = x.lastKept /\ y.limitEvent = x.limitEvent
      /\ y.logOk = x.logOk /\ y.paused = x.paused /\ y.frozen = x.frozen
      /\ y.cont = x.cont /\ y.phase = x.phase /\ y.purpose = x.purpose
  BY <1>2 DEF Same, Fields
<1>4. IsDialog(y)
  BY <1>2 DEF IsDialog, Same, Fields
<1>5. ASSUME x.cont \in {"save", "discard"}  PROVE Log(y, t)
  <2>1. Log(x, t) /\ x.frozen # -1 /\ x.frozen \in Int
    BY <1>1, <1>5 DEF Ending, IsDialog
  <2>2. x.frozen >= 1 /\ Reach(x, t) = x.frozen /\ Reach(y, t) = x.frozen
    BY <1>3, <2>1 DEF Log, Reach
  <2>3. Reach(x, t) <= Reach(y, t)
    BY <2>1, <2>2
  <2> QED BY <1>1, <1>2, <1>3, <1>4, <2>1, <2>2, <2>3, LogKept
<1>6. LettingGo \/ EndingPreview \/ EndingRecording \/ Leaving
  BY ReadyFacts DEF WholeInv, DeskInv, PhaseInv, AtRest, Beginning, LettingGo, Previewing, Recording, EndingPreview,
    EndingRecording, Leaving, Refused, Done
<1>7. /\ y.phase \in {"starting", "canceling", "stopping"}
      /\ y.phase = "starting" => y.cont = "beginRecording" \/ y.cont = "cancel"
  BY <1>3, <1>6 DEF Ending, LettingGo, EndingPreview, EndingRecording, Leaving
<1>8. /\ y.cont = "beginRecording" => y.purpose = "preflight"
      /\ y.cont = "cancel" => y.phase = "canceling"
  <2>1. PICK z : z = d
    OBVIOUS
  <2>2. Duty(z, now) /\ y.cont = z.cont /\ y.purpose = z.purpose /\ y.phase = z.phase
    BY <1>3, <2>1, DutyNow DEF Ending
  <2> QED BY <2>2 DEF Duty
<1>9. Duty(y, now)
  BY <1>1, <1>3, <1>5, <1>7, <1>8 DEF Duty, Ending
<1>10. FinInv' /\ y.phase # "capturing" /\ ~Awake(y)
  BY <1>7, <1>8 DEF FinInv, Awake
<1> QED BY <1>9, <1>10, PageRefusal

\* What a stop returned is noted.
Final(y, x, st) == y = [AcceptStatus(x, st) EXCEPT !.final = st]
Left(y, x, st) == Ending(y) /\ y.final = st /\ IsDialog(y) /\ Log(y, now) /\ y.frozen # -1 /\ y.cont = x.cont
LEMMA FinalTaken ==
  ASSUME WholeInv, NEW x, Ending(x), x.cont \in {"save", "discard"}, NEW st \in Statuses, NEW y, Final(y, x, st)
  PROVE  Left(y, x, st)
<1>1. PICK a, t : a = AcceptStatus(x, st) /\ t = now /\ t \in Int
  BY Counts DEF WholeInv
<1>2. IsDialog(x) /\ Log(x, now) /\ x.frozen # -1 /\ now \in Int
  BY <1>1 DEF Ending
<1>3. Stage(a, x) /\ Log(a, now) /\ a.frozen = x.frozen
  BY <1>1, <1>2, StatusStage, StatusLog
<1>4. /\ IsDialog(a) /\ a.cont = x.cont /\ a.purpose = x.purpose /\ a.phase = x.phase /\ a.owned = x.owned
  BY <1>3, StageFacts
<1>5. Same(y, a, {"final"}) /\ y.final = st
  BY <1>1, <1>4 DEF IsDialog, Same, Fields, Final
<1>6. /\ y.rec = a.rec /\ y.hasRec = a.hasRec /\ y.lastKept = a.lastKept /\ y.limitEvent = a.limitEvent
      /\ y.logOk = a.logOk /\ y.paused = a.paused /\ y.frozen = a.frozen /\ y.owned = a.owned
      /\ y.cont = a.cont /\ y.phase = a.phase /\ y.purpose = a.purpose
  BY <1>5 DEF Same, Fields
<1>7. IsDialog(y)
  BY <1>4, <1>5 DEF IsDialog, Same, Fields
<1>8. Log(y, t)
  <2>1. Log(a, t) /\ a.frozen # -1 /\ a.frozen \in Int
    BY <1>1, <1>2, <1>3, <1>4 DEF IsDialog
  <2>2. a.frozen >= 1 /\ Reach(a, t) = a.frozen /\ Reach(y, t) = a.frozen
    BY <1>6, <2>1 DEF Log, Reach
  <2>3. Reach(a, t) <= Reach(y, t)
    BY <2>1, <2>2
  <2> QED BY <1>1, <1>4, <1>6, <1>7, <2>1, <2>2, <2>3, LogKept
<1> QED BY <1>1, <1>2, <1>3, <1>4, <1>5, <1>6, <1>7, <1>8 DEF Ending, Left

\* The stop returned the status of the capture.
LEMMA ReturnedRefusal ==
  ASSUME WholeInv, RefusalInv, d.pc \in {"get", "stop"}, NEW x, Ending(x), NEW st \in Statuses, AfterStop(x, st),
         now' = now, bridge' = bridge
  PROVE  RefusalInv'
<1>1. /\ x.cont = "beginRecording" => Begin("recording") /\ sse' = <<>>
      /\ x.cont \in {"save", "discard"} =>
            LET y == [AcceptStatus(x, st) EXCEPT !.final = st] IN
            IF Drained(y) THEN Stopped(y)
            ELSE d' = [y EXCEPT !.pc = "drain"] /\ UNCHANGED <<stream, sse, saved>>
      /\ x.cont \notin {"beginRecording", "save", "discard"} => d' = Ready /\ sse' = <<>>
  BY DEF AfterStop, Disconnect
<1>2. CASE x.cont = "beginRecording"
  <2>1. PICK purpose : purpose = "recording"
    OBVIOUS
  <2> QED BY <1>1, <1>2, <2>1, BegunRefusal
<1>3. CASE x.cont \in {"save", "discard"}
  <2>1. PICK y : Final(y, x, st)
    BY DEF Final
  <2>2. Stopped(y) \/ (d' = [y EXCEPT !.pc = "drain"] /\ UNCHANGED <<stream, sse>>)
    BY <1>1, <1>3, <2>1 DEF Final
  <2>3. Ending(y) /\ y.final = st /\ IsDialog(y) /\ Log(y, now) /\ y.frozen # -1 /\ y.cont = x.cont
    BY <1>3, <2>1, FinalTaken DEF Left
  <2>4. CASE Stopped(y)
    BY <1>3, <2>3, <2>4, StoppedRefusal
  <2>5. CASE d' = [y EXCEPT !.pc = "drain"] /\ UNCHANGED <<stream, sse>>
    <3>1. PICK pc, z : pc = "drain" /\ z = [y EXCEPT !.pc = pc]
      OBVIOUS
    <3> QED BY <2>3, <2>5, <3>1, OnRefusal
  <2> QED BY <2>2, <2>4, <2>5
<1>4. CASE x.cont \notin {"beginRecording", "save", "discard"}
  BY <1>1, <1>4, RestRefusal
<1> QED BY <1>2, <1>3, <1>4

LEMMA GotRefusal == WholeInv /\ RefusalInv /\ (GotStatus \/ GotStop) => RefusalInv'
<1> SUFFICES ASSUME WholeInv, RefusalInv, GotStatus \/ GotStop PROVE RefusalInv'
  OBVIOUS
<1>1. PICK st : st = call.ans
  OBVIOUS
<1>2. PICK x : x = AcceptStatus(d, st)
  OBVIOUS
<1>3. /\ d.pc \in {"get", "stop"} /\ call.at \in {"answered", "failed"} /\ now' = now /\ bridge' = bridge
      /\ \/ AfterThrow(d)
         \/ /\ call.at = "answered"
            /\ \/ AfterThrow(x) \/ AfterStop(x, st)
               \/ d' = [x EXCEPT !.pc = "stop"] /\ UNCHANGED <<stream, sse>>
  BY <1>1, <1>2, Zenon DEF GotStatus, GotStop
<1>4. CASE AfterThrow(d)
  <2>1. PICK z : z = d /\ Ending(z)
    BY <1>3, EndingSelf
  <2>2. AfterThrow(z)
    BY <1>4, <2>1
  <2> QED BY <1>3, <2>1, <2>2, ThrownRefusal
<1>5. CASE /\ call.at = "answered"
           /\ \/ AfterThrow(x) \/ AfterStop(x, st)
              \/ d' = [x EXCEPT !.pc = "stop"] /\ UNCHANGED <<stream, sse>>
  <2>1. st \in Statuses /\ Ending(x)
    BY <1>1, <1>2, <1>3, <1>5, EndingTaken
  <2>2. CASE AfterThrow(x)
    BY <1>3, <2>1, <2>2, ThrownRefusal
  <2>3. CASE AfterStop(x, st)
    BY <1>3, <2>1, <2>3, ReturnedRefusal
  <2>4. CASE d' = [x EXCEPT !.pc = "stop"] /\ UNCHANGED <<stream, sse>>
    <3>1. PICK pc, z : pc = "stop" /\ z = [x EXCEPT !.pc = pc]
      OBVIOUS
    <3> QED BY <1>3, <2>1, <2>4, <3>1, OnRefusal
  <2> QED BY <1>5, <2>2, <2>3, <2>4
<1> QED BY <1>3, <1>4, <1>5

LEMMA DrainRefusal == WholeInv /\ RefusalInv /\ (Drain \/ DrainTimeout) => RefusalInv'
<1> SUFFICES ASSUME WholeInv, RefusalInv, Drain \/ DrainTimeout PROVE RefusalInv'
  OBVIOUS
<1>1. d.pc = "drain" /\ now' = now /\ bridge' = bridge
  BY DEF Drain, DrainTimeout
<1>2. PICK x : x = d /\ Ending(x)
  BY <1>1, EndingSelf
<1>3. /\ x.cont \in {"save", "discard"} /\ x.final \in Statuses /\ IsDialog(x) /\ Log(x, now) /\ x.frozen # -1
      /\ now \in Int
  BY <1>1, <1>2, DrainFacts, Counts DEF Ending, WholeInv
<1>4. CASE Drain
  <2>1. Stopped(x)
    BY <1>2, <1>4 DEF Drain
  <2> QED BY <1>1, <1>3, <2>1, StoppedRefusal
<1>5. CASE DrainTimeout
  <2>1. PICK y : y = RecordEvent([x EXCEPT !.reason = TRUE],
                       Event("udp-event-stream-disconnected", EventOffset(x, now), <<"drain">>))
    OBVIOUS
  <2>2. Stopped(y)
    BY <1>2, <1>5, <2>1 DEF DrainTimeout
  <2>3. ~Stale(x, now)
    BY <1>3 DEF Stale
  <2>4. Log(y, now) /\ IsDialog(y) /\ Same(y, x, {"reason", "rec", "logOk", "limitEvent"})
    BY <1>3, <2>1, <2>3, TimeoutLog
  <2>5. y.frozen # -1 /\ y.final \in Statuses /\ y.cont \in {"save", "discard"}
    BY <1>3, <2>4 DEF Same, Fields
  <2> QED BY <1>1, <2>2, <2>4, <2>5, StoppedRefusal
<1> QED BY <1>4, <1>5

\* The start was granted: a recording begins, unless the operator previews or has cancelled.
LEMMA AnsweredCalm ==
  WholeInv /\ RefusalInv /\ StartAnswered /\ (d.cancelled \/ d.purpose = "preflight") => RefusalInv'
<1> SUFFICES ASSUME WholeInv, RefusalInv, StartAnswered, d.cancelled \/ d.purpose = "preflight" PROVE RefusalInv'
  OBVIOUS
<1>1. PICK x, y, c : x = d /\ y = d' /\ c = call.ans.cap
  OBVIOUS
<1>2. IsDialog(x) /\ Beginning /\ UNCHANGED <<sse, stream, now, bridge>>
  BY <1>1, AnsweredFacts DEF StartAnswered
<1>3. CASE x.cancelled
  <2>1. y = [x EXCEPT !.owned = c, !.pc = "get", !.cont = "cancel"]
    BY <1>1, <1>3 DEF StartAnswered
  <2>2. y.phase = "canceling" /\ y.cont = "cancel"
    BY <1>1, <1>2, <1>3, <2>1 DEF Beginning, IsDialog, Fields
  <2> QED BY <1>1, <1>2, <2>2, CalmRefusal
<1>4. CASE ~x.cancelled /\ x.purpose = "preflight"
  <2>1. y = [x EXCEPT !.owned = c, !.phase = "preflighting", !.pc = "idle", !.pend = <<>>]
    BY <1>1, <1>4 DEF StartAnswered
  <2>2. y.phase = "preflighting" /\ y.cont = "none"
    BY <1>1, <1>2, <2>1 DEF Beginning, IsDialog, Fields
  <2> QED BY <1>1, <1>2, <2>2, CalmRefusal
<1> QED BY <1>1, <1>3, <1>4

LEMMA AnsweredRecording ==
  WholeInv /\ RefusalInv /\ StartAnswered /\ ~d.cancelled /\ d.purpose # "preflight" => RefusalInv'
<1> SUFFICES ASSUME WholeInv, RefusalInv, StartAnswered, ~d.cancelled, d.purpose # "preflight" PROVE RefusalInv'
  OBVIOUS
<1>1. PICK z, y, st, t : z = d /\ y = d' /\ st = call.ans /\ t = now
  OBVIOUS
<1>2. PICK x : x = [z EXCEPT !.stDur = st.dur]
  OBVIOUS
<1>3. PICK e : e = Establish(x, st)
  OBVIOUS
<1>4. PICK a : a = AcceptStatus(e, st)
  OBVIOUS
<1>5. y = [a EXCEPT !.phase = "capturing", !.pc = "idle"] /\ UNCHANGED <<sse, stream, now, bridge>>
  BY <1>1, <1>2, <1>3, <1>4 DEF StartAnswered
<1>6. /\ IsDialog(z) /\ Unstarted(z) /\ (Suspect(z) => Doubtful(z)) /\ Honest(st) /\ st.cap # 0 /\ t \in Int
      /\ z.purpose = "recording" /\ z.phase = "starting" /\ z.cont = "none"
  <2>1. call.ans.cap # 0 /\ made.captures \in Nat
    BY AnsweredFacts, Counts DEF WholeInv
  <2> QED BY <1>1, <2>1, AnsweredFacts, Counts DEF Beginning, WholeInv
<1>7. Duty(z, t)
  BY <1>1, DutyNow
<1>8. z.frozen = -1 /\ ~z.limitEvent /\ Waits(z) /\ Awake(z)
  BY <1>6, <1>7 DEF Duty, Awake
<1>9. st \in Statuses /\ st.dur \in Int
  BY <1>6 DEF Honest, Statuses
<1>10. Same(x, z, {"stDur"}) /\ x.stDur = st.dur
  BY <1>2, <1>6 DEF IsDialog, Same, Fields
<1>11. /\ x.frozen = z.frozen /\ x.limitEvent = z.limitEvent /\ x.pendEvents = z.pendEvents /\ x.purpose = z.purpose
       /\ x.cont = z.cont /\ x.owned = z.owned /\ Same(x, z, Guise)
  BY <1>10 DEF Same, Fields, Guise
<1>12. IsDialog(x) /\ Waits(x) /\ x.limitEvent = FALSE /\ x.frozen = -1
  <2>1. IsDialog(x)
    BY <1>6, <1>9, <1>10 DEF IsDialog, Same, Fields
  <2>2. z.limitEvent \in BOOLEAN
    BY <1>6 DEF IsDialog
  <2> QED BY <1>8, <1>11, <2>1, <2>2 DEF Waits
<1>13. Unstarted(x) /\ (Suspect(x) => Doubtful(x))
  BY <1>6, <1>11, GuiseFacts DEF Unstarted
<1>14. /\ IsDialog(e) /\ Same(e, x, Inputs \cup {"owned", "hasRec", "t0"}) /\ e.owned = st.cap
  BY <1>1, <1>3, <1>6, <1>9, <1>12, <1>13, EstablishFacts
<1>15. e.purpose = "recording" /\ e.cont = "none" /\ e.owned # 0
  BY <1>6, <1>11, <1>14 DEF Same, Fields, Inputs
<1>16. Log(e, now)
  BY <1>1, <1>3, <1>6, <1>9, <1>10, <1>12, EstablishLog
<1>17. Stage(a, e) /\ Log(a, now) /\ ~Stale(a, now)
  BY <1>1, <1>4, <1>6, <1>9, <1>14, <1>15, <1>16, StatusStage, StatusLog
<1>18. IsDialog(a) /\ a.purpose = "recording" /\ a.cont = "none"
  BY <1>15, <1>17, StageFacts
<1>19. Same(y, a, {"phase", "pc"}) /\ y.phase = "capturing" /\ y.pc = "idle"
  BY <1>5, <1>18 DEF IsDialog, Same, Fields
<1>20. /\ y.rec = a.rec /\ y.hasRec = a.hasRec /\ y.lastKept = a.lastKept /\ y.limitEvent = a.limitEvent
       /\ y.logOk = a.logOk /\ y.paused = a.paused /\ y.frozen = a.frozen /\ y.last = a.last /\ y.t0 = a.t0
       /\ y.stDur = a.stDur /\ y.cont = a.cont
  BY <1>19 DEF Same, Fields
<1>21. IsDialog(y)
  BY <1>18, <1>19 DEF IsDialog, Same, Fields
<1>22. Log(y, t)
  <2>1. Log(a, t) /\ Reach(y, t) = Reach(a, t) /\ (y.frozen # -1 => y.frozen >= 1)
    BY <1>1, <1>17, <1>20 DEF Reach, Log
  <2>2. Reach(a, t) <= Reach(y, t)
    <3>1. Reach(a, t) \in Int
      BY <1>6, <1>18, <2>1, ReachFacts DEF Log
    <3> QED BY <2>1, <3>1
  <2> QED BY <1>6, <1>18, <1>20, <1>21, <2>1, <2>2, LogKept
<1>23. ~Stale(y, t)
  BY <1>1, <1>17, <1>20 DEF Stale
<1>24. Duty(y, t) /\ FinInv'
  BY <1>1, <1>18, <1>19, <1>20, <1>22 DEF Duty, FinInv
<1> QED BY <1>1, <1>5, <1>8, <1>19, <1>23, <1>24, PageRefusal

LEMMA AnsweredRefusal == WholeInv /\ RefusalInv /\ StartAnswered => RefusalInv'
  BY AnsweredCalm, AnsweredRecording

\* A message that comes before the start is answered freezes nothing, and notes nothing but a
\* datagram that could not be kept.
LEMMA WaitingReceived ==
  ASSUME NEW x, IsDialog(x), x.owned = 0, x.hasRec = FALSE, x.purpose = "recording", x.frozen = -1,
         x.limitEvent = FALSE, Waits(x), NEW m, Told(m), now \in Int
  PROVE  LET y == Received(x, m) IN y.frozen = -1 /\ y.limitEvent = FALSE /\ Waits(y)
<1> DEFINE y == Received(x, m)
<1>1. CASE m.k = "status"
  <2>1. y = [x EXCEPT !.stDur = m.st.dur]
    BY <1>1 DEF Received, AcceptStatus
  <2> HIDE DEF y
  <2>2. y.frozen = -1 /\ y.limitEvent = FALSE /\ y.pendEvents = x.pendEvents
    BY <2>1 DEF IsDialog, Fields
  <2> QED BY <2>2 DEF Waits, y
<1>2. CASE m.k = "datagram"
  <2>1. y = BufferDatagram(x, m)
    BY <1>2 DEF Received
  <2> DEFINE w == [x EXCEPT !.paused = TRUE, !.reason = TRUE]
  <2>2. \/ y = [x EXCEPT !.pend = Append(x.pend, m)]
        \/ y = RecordEvent(w, Overflowed)
    BY <2>1 DEF BufferDatagram, Overflowed
  <2>3. Same(w, x, {"paused", "reason"})
    BY DEF IsDialog, Same, Fields
  <2> HIDE DEF y, w
  <2>4. CASE y = [x EXCEPT !.pend = Append(x.pend, m)]
    <3>1. y.frozen = -1 /\ y.limitEvent = FALSE /\ y.pendEvents = x.pendEvents
      BY <2>4 DEF IsDialog, Fields
    <3> QED BY <3>1 DEF Waits, y
  <2>5. CASE y = RecordEvent(w, Overflowed)
    <3>1. /\ w = [f \in Fields |-> w[f]] /\ w.hasRec = FALSE /\ w.frozen = -1 /\ w.limitEvent = FALSE
          /\ w.pendEvents = x.pendEvents
      BY <2>3 DEF Same, Fields
    <3>2. PICK e : e = Overflowed
      OBVIOUS
    <3>3. y = [w EXCEPT !.pendEvents = Append(w.pendEvents, e)] \/ y = [w EXCEPT !.logOk = FALSE]
      BY <2>5, <3>1, <3>2 DEF RecordEvent
    <3>4. /\ y.frozen = -1 /\ y.limitEvent = FALSE
          /\ y.pendEvents = Append(w.pendEvents, e) \/ y.pendEvents = w.pendEvents
      BY <3>1, <3>3 DEF Fields
    <3>5. CASE y.pendEvents = w.pendEvents
      BY <3>1, <3>4, <3>5 DEF Waits, y
    <3>6. CASE y.pendEvents = Append(w.pendEvents, e)
      <4>1. PICK s, u : s = x.pendEvents /\ u = y.pendEvents
        OBVIOUS
      <4>2. IsSeq(s) /\ u = Append(s, e) /\ \A i \in 1..Len(s) : s[i] = e
        BY <3>1, <3>2, <3>6, <4>1 DEF IsDialog, Waits
      <4>3. Len(s) \in Nat /\ Len(u) = Len(s) + 1 /\ u[Len(s) + 1] = e /\ \A i \in 1..Len(s) : u[i] = s[i]
        BY <4>2, AppendTo DEF IsSeq
      <4>4. \A i \in 1..Len(u) : u[i] = e
        BY <4>2, <4>3
      <4> QED BY <3>2, <3>4, <4>1, <4>4 DEF Waits, y
    <3> QED BY <3>4, <3>5, <3>6
  <2> QED BY <2>2, <2>4, <2>5
<1>3. CASE m.k \in {"error", "end"}
  <2>1. PICK err : err = IF m.k = "error" THEN m.err ELSE "end"
    OBVIOUS
  <2>2. y = AcceptError(x, err)
    BY <1>3, <2>1 DEF Received
  <2> HIDE DEF y
  <2>3. y = x
    BY <2>2, AcceptErrorStage
  <2> QED BY <2>3 DEF y
<1> QED BY <1>1, <1>2, <1>3 DEF Told

\* While a recording is under way no datagram of it, and no warning, finds it behind.
LEMMA TapedReceived ==
  ASSUME WholeInv, RefusalInv, stream # "off", sse # <<>>, Taping, NEW x, x = d, NEW m, m = Head(sse), Told(m),
         NEW y, y = Received(x, m), NEW t, t = now
  PROVE  /\ Log(y, t) /\ (Stale(y, t) => Stale(x, t) \/ IsOther(m, x.owned))
         /\ IsStatus(m, x.owned) => ~Stale(y, t)
         /\ x.frozen # -1 => y.frozen # -1
<1>1. x.owned # 0 /\ x.purpose = "recording" /\ IsDialog(x) /\ now \in Int
  <2>1. Recording \/ EndingRecording
    BY ListeningFacts DEF Taping, Beginning, LettingGo, Previewing, EndingPreview
  <2> QED BY <2>1, Counts DEF Recording, EndingRecording, WholeInv, DeskInv
<1>2. PICK s, o : s = sse /\ o = x.owned
  OBVIOUS
<1>3. IsSeq(s) /\ s # <<>> /\ Fresh(s)
  BY <1>2 DEF WholeInv, HonestInv, SseOk, RefusalInv, QueueInv
<1>4. PICK u : /\ \A c : Preceded(s, c) => IsStatus(m, c) \/ (~IsInput(m, c) /\ Preceded(u, c))
               /\ FatalOnly(s) /\ m.k = "error" => m.err \in Fatal
  <2>1. m = Head(s)
    BY <1>2
  <2> QED BY <1>3, <2>1, TailKept
<1>5. Log(x, t) /\ (Stale(x, t) => Preceded(s, o) /\ FatalOnly(s))
  <2>1. Log(x, t)
    BY DEF RefusalInv, LogInv
  <2>2. ASSUME Stale(x, t) PROVE Behind /\ Listens
    <3>1. x.frozen = -1
      BY <2>2 DEF Stale
    <3>2. d.phase = "capturing"
      BY <3>1 DEF RefusalInv, DutyInv, Taping
    <3>3. d.frozen = -1 /\ d.purpose = "recording" /\ Stale(d, now)
      BY <1>1, <2>2, <3>1
    <3> QED BY <3>2, <3>3 DEF Behind, Listens
  <2> QED BY <1>2, <2>1, <2>2 DEF RefusalInv, QueueInv
<1>6. m.k = "datagram" /\ m.cap = x.owned => ~Stale(x, now)
  <2>1. ASSUME m.k = "datagram", m.cap = x.owned, Stale(x, t) PROVE FALSE
    <3>1. IsInput(m, o) /\ ~IsStatus(m, o)
      BY <1>2, <2>1 DEF IsInput, IsStatus
    <3> QED BY <1>4, <1>5, <2>1, <3>1
  <2> QED BY <2>1
<1>7. m.k = "error" => m.err \in Fatal \/ ~Stale(x, now)
  BY <1>4, <1>5
<1>8. Log(x, now)
  BY <1>5
<1>9. /\ Log(y, now) /\ (Stale(y, now) => Stale(x, now) \/ IsOther(m, x.owned))
      /\ IsStatus(m, x.owned) => ~Stale(y, now)
      /\ x.frozen # -1 => y.frozen # -1
  BY <1>1, <1>6, <1>7, <1>8, ReceivedLog
<1> QED BY <1>9

\* What is still on its way once a message has been taken in.
LEMMA QueueTaken ==
  ASSUME WholeInv, RefusalInv, sse # <<>>, sse' = Tail(sse), stream' \in {"off", stream}, bridge' = bridge,
         now' = now, NEW x, x = d, NEW m, m = Head(sse), NEW y, d' = y, NEW t, t = now,
         y.phase = x.phase, y.owned = x.owned, y.purpose = x.purpose,
         x.phase = "capturing" =>
           /\ Stale(y, t) => ~IsStatus(m, x.owned) /\ (Stale(x, t) \/ IsOther(m, x.owned))
           /\ x.frozen # -1 => y.frozen # -1
  PROVE  QueueInv'
<1>1. PICK s, o, b : s = sse /\ o = x.owned /\ b = bridge.cap
  OBVIOUS
<1>2. IsSeq(s) /\ s # <<>> /\ Fresh(s)
  BY <1>1 DEF WholeInv, HonestInv, SseOk, RefusalInv, QueueInv
<1>3. PICK u : /\ u = Tail(s) /\ Fresh(u)
               /\ FatalOnly(s) => FatalOnly(u)
               /\ \A c : Turned(s, c) => Turned(u, c) /\ (IsOther(m, c) => Announced(u, c))
               /\ \A c : IsOther(m, c) => Preceded(u, c)
               /\ \A c : Preceded(s, c) => IsStatus(m, c) \/ (~IsInput(m, c) /\ Preceded(u, c))
               /\ \A c : Announced(s, c) => IsStatus(m, c) \/ Announced(u, c)
  <2>1. PICK u : /\ u = Tail(s) /\ Fresh(u)
                 /\ FatalOnly(s) => FatalOnly(u)
                 /\ \A c : Turned(s, c) => Turned(u, c) /\ (IsOther(Head(s), c) => Announced(u, c))
                 /\ \A c : IsOther(Head(s), c) => Preceded(u, c)
                 /\ \A c : Preceded(s, c) => IsStatus(Head(s), c) \/ (~IsInput(Head(s), c) /\ Preceded(u, c))
                 /\ \A c : Announced(s, c) => IsStatus(Head(s), c) \/ Announced(u, c)
    BY <1>2, TailKept
  <2>2. m = Head(s)
    BY <1>1
  <2> QED BY <2>1, <2>2, Zenon
<1>4. sse' = u
  BY <1>1, <1>3
<1>5. (Heard => Turned(s, b)) /\ (Heard' => Heard)
  BY <1>1 DEF RefusalInv, QueueInv, Heard
<1>6. ASSUME Behind'  PROVE Preceded(u, o) /\ (Heard /\ b = o => Announced(u, o))
  <2>1. y.phase = "capturing" /\ Stale(y, t)
    BY <1>6 DEF Behind
  <2>2. ~IsStatus(m, o) /\ (Stale(x, t) \/ IsOther(m, o))
    BY <1>1, <2>1
  <2>3. CASE Stale(x, t)
    <3>1. Behind
      BY <2>1, <2>3 DEF Behind
    <3>2. Preceded(s, o) /\ (Heard /\ b = o => Announced(s, o))
      BY <1>1, <3>1 DEF RefusalInv, QueueInv
    <3> QED BY <1>3, <2>2, <3>2
  <2>4. CASE IsOther(m, o)
    BY <1>3, <1>5, <2>4
  <2> QED BY <2>2, <2>3, <2>4
<1>7. Listens' => FatalOnly(u)
  <2>1. ASSUME Listens'  PROVE Listens
    <3>1. y.purpose = "recording" /\ y.phase \in {"starting", "capturing"} /\ y.frozen = -1 /\ stream' # "off"
      BY <2>1 DEF Listens
    <3>2. x.frozen = -1
      BY <3>1 DEF RefusalInv, DutyInv
    <3> QED BY <3>1, <3>2 DEF Listens
  <2> QED BY <1>1, <1>3, <2>1 DEF RefusalInv, QueueInv
<1>8. d'.owned = o /\ bridge'.cap = b
  BY <1>1
<1> QED BY <1>3, <1>4, <1>5, <1>6, <1>7, <1>8 DEF QueueInv

LEMMA DeliverRefusal == WholeInv /\ RefusalInv /\ Deliver => RefusalInv'
<1> SUFFICES ASSUME WholeInv, RefusalInv, Deliver PROVE RefusalInv'
  OBVIOUS
<1>1. /\ stream # "off" /\ sse # <<>> /\ sse' = Tail(sse) /\ stream' \in {"off", stream}
      /\ bridge' = bridge /\ now' = now
  BY DEF Deliver
<1>2. PICK m : m = Head(sse) /\ Told(m)
  BY <1>1, HeadTold
<1>3. PICK x, t : x = d /\ t = now
  OBVIOUS
<1>4. PICK y : y = Received(x, m)
  OBVIOUS
<1>5. d' = y
  BY <1>2, <1>3, <1>4 DEF Deliver
<1>6. IsDialog(x) /\ now \in Int
  BY <1>3, Counts DEF WholeInv, DeskInv
<1>7. Stage(y, x)
  BY <1>2, <1>4, <1>6, ReceivedStage
<1>8. y.phase = x.phase /\ y.owned = x.owned /\ y.purpose = x.purpose /\ y.cont = x.cont /\ y.pc = x.pc
  BY <1>7, StageFacts
<1>9. x.phase # "finalize-error"
  BY <1>1, <1>3, ListeningFacts
<1>10. Taping =>
         /\ Log(y, t) /\ (Stale(y, t) => Stale(x, t) \/ IsOther(m, x.owned))
         /\ IsStatus(m, x.owned) => ~Stale(y, t)
         /\ x.frozen # -1 => y.frozen # -1
  BY <1>1, <1>2, <1>3, <1>4, TapedReceived
<1>11. QueueInv'
  <2>1. x.phase = "capturing" => Taping
    BY <1>3 DEF Taping
  <2> QED BY <1>1, <1>2, <1>3, <1>5, <1>8, <1>10, <2>1, QueueTaken
<1>12. FinInv'
  BY <1>5, <1>8, <1>9 DEF FinInv
<1>13. Duty(y, t)
  <2>1. Duty(x, t)
    BY <1>3, DutyNow
  <2>2. Taping <=> x.phase = "capturing" \/ (x.phase = "stopping" /\ x.cont \in {"save", "discard"})
    BY <1>3 DEF Taping
  <2>3. ASSUME x.phase = "starting", x.purpose = "recording"
        PROVE  y.frozen = -1 /\ y.limitEvent = FALSE /\ Waits(y)
    <3>1. x.pc \in {"connect", "refresh", "start"} /\ x.frozen = -1 /\ ~x.limitEvent /\ Waits(x)
      BY <2>1, <2>3 DEF Duty
    <3>2. x.owned = 0 /\ x.hasRec = FALSE /\ x.limitEvent = FALSE
      BY <1>3, <1>6, <3>1, BeginningFacts DEF Beginning, IsDialog
    <3> QED BY <1>2, <1>4, <1>6, <2>3, <3>1, <3>2, WaitingReceived
  <2> QED BY <1>8, <1>10, <2>1, <2>2, <2>3 DEF Duty
<1> QED BY <1>1, <1>3, <1>5, <1>11, <1>12, <1>13, DutyNext

LEMMA InitRefusal == Init => RefusalInv
<1> SUFFICES ASSUME Init PROVE RefusalInv
  OBVIOUS
<1>1. d = Ready /\ sse = <<>> /\ stream = "off"
  BY DEF Init, InitLink
<1>2. d.phase = "ready" /\ d.cont = "none"
  BY <1>1, ReadyFacts
<1>3. PICK s : s = <<>> /\ IsSeq(s) /\ Len(s) = 0
  BY Messages
<1>4. Fresh(s)
  BY <1>3 DEF Fresh
<1>5. sse = s /\ ~Heard /\ ~Behind /\ ~Listens
  BY <1>1, <1>2, <1>3 DEF Heard, Behind, Listens
<1>6. QueueInv
  BY <1>4, <1>5 DEF QueueInv
<1>7. LogInv /\ DutyInv /\ FinInv
  BY <1>2 DEF LogInv, Taping, DutyInv, FinInv
<1> QED BY <1>6, <1>7 DEF RefusalInv

LEMMA StutterRefusal == RefusalInv /\ UNCHANGED vars => RefusalInv'
<1> SUFFICES ASSUME RefusalInv, UNCHANGED vars PROVE RefusalInv'
  OBVIOUS
<1>1. PICK x, t, s, c : x = d /\ t = now /\ s = sse /\ c = bridge.cap
  OBVIOUS
<1>2. d' = x /\ now' = t /\ sse' = s /\ UNCHANGED <<bridge, stream>>
  BY <1>1 DEF vars, link
<1>3. Duty(x, t)
  BY <1>1, DutyNow
<1>4. FinInv'
  <2>1. PICK a, b : a = x.ctx[1] /\ b = x.ctx[2]
    OBVIOUS
  <2> QED BY <1>1, <1>2, <2>1 DEF RefusalInv, FinInv
<1>5. QueueInv'
  <2>1. (Heard' <=> Heard) /\ (Behind' <=> Behind) /\ (Listens' <=> Listens) /\ bridge'.cap = c
    BY <1>1, <1>2 DEF Heard, Behind, Listens
  <2>2. PICK o : o = x.owned
    OBVIOUS
  <2> QED BY <1>1, <1>2, <2>1, <2>2 DEF RefusalInv, QueueInv
<1> QED BY <1>2, <1>3, <1>4, <1>5, DutyNext

LEMMA NextRefusal == WholeInv /\ RefusalInv /\ [Next]_vars => RefusalInv'
<1> SUFFICES ASSUME WholeInv, RefusalInv, [Next]_vars PROVE RefusalInv'
  OBVIOUS
<1>1. Operator => RefusalInv'
  BY FirstScreenRefusal, OperatorRefusal, EndsRefusal, RetryRefusal DEF Operator
<1>2. Await => RefusalInv'
  BY FirstScreenRefusal, StartingRefusal, AnsweredRefusal, GotRefusal, DrainRefusal DEF Await
<1> QED BY <1>1, <1>2, LinkRefusal, DeliverRefusal, FirstScreenRefusal, StutterRefusal DEF Next

\* Every non-empty capture that its own validator refuses is refused in one of four ways: the bridge's
\* journal reaches past the session's end, a duration limit is noted after the duration was computed as
\* not capped, a missing event is noted at the time of a datagram that arrived after the duration was
\* frozen, or an event of the stream is stamped before an earlier one (finalize, finalizeUdpCapture).
THEOREM RefusalsAreKnown == Spec => []RefusalsKnown
<1>1. Init => WholeInv /\ RefusalInv
  BY InitWhole, InitRefusal
<1>2. WholeInv /\ RefusalInv /\ [Next]_vars => (WholeInv /\ RefusalInv)'
  BY NextWhole, NextRefusal
<1>3. RefusalInv => RefusalsKnown
  BY DEF RefusalInv, FinInv, Excused, Uncapped, LateGap, Disordered, NotesLimit, Gap, RefusalsKnown
<1> QED BY <1>1, <1>2, <1>3, PTL DEF Spec
=============================================================================
