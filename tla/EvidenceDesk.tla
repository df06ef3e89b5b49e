----------------------------- MODULE EvidenceDesk -----------------------------
(***************************************************************************)
(* The way of evidence: a session is opened, a bundle is built from a      *)
(* range of it, a receiver verifies the bundle without the session, two    *)
(* sessions or two received bundles are compared, and a case that holds    *)
(* the bundles and the finding is verified.  Two sides, each with at most  *)
(* one session, bundle and received document; every step is a pure         *)
(* function of what the earlier ones left.                                 *)
(***************************************************************************)
EXTENDS SourceComparison

CONSTANTS
  Series,      \* names of the series of documents a run looks at
  Pairs,       \* those of them whose sessions are compared
  Documents, Ranges, Inclusions,  \* of a series: its documents, the ranges sent and the artifacts chosen
  Marks,       \* the markers and notes of every session: offsets with their ids
  Alignments   \* the alignments that may be asked for

-----------------------------------------------------------------------------
(* The documents, marks and alignments that can be asked about: what the   *)
(* schemas of types.ts admit.                                              *)

IsList(s) == s \in Seq({s[i] : i \in DOMAIN s})
OrNull == Nat \cup {Null}

IsRow(r) == r.at \in Nat /\ r.size \in Nat /\ {r.drops, r.seq} \subseteq OrNull /\ {r.rssi, r.field} \subseteq Int

\* transportEventSchema: these events have no other scope.
SessionScoped == {"udp-counter-mismatch", "udp-kernel-drops-observed", "serial-counter-mismatch", "shutdown-unconfirmed"}
IsEvent(e) == e.at \in Nat \cup {Session} /\ e.to \in OrNull /\ (e.type \in SessionScoped => e.at = Session)

IsReceipt(r) ==
  /\ r.records \in Nat /\ r.bytes \in Nat /\ {r.observed, r.reported} \subseteq OrNull \X OrNull
  /\ r.stop \in {"confirmed", "unconfirmed", "not-observed"} /\ r.stopOffset \in OrNull /\ r.complete \in BOOLEAN

IsProvenance(p) ==
  /\ p = NoProvenance \/ p.status \in {"verified", "incomplete"}
  /\ p.journal.state \in {"none", "active", "incomplete", "clean"}
  /\ {p.journal.datagrams, p.journal.tail} \subseteq Nat /\ p.journal.drops \in OrNull /\ p.journal.ended \in BOOLEAN

\* The frames of a decoder carry a sequence number or they do not; and the recorder, which appends its
\* event about drops once, is asked for that only where there is a provenance (session.ts:291).
IsDocument(d) ==
  /\ d.version \in {1, 2} /\ d.source \in {"udp", "serial", "file"} /\ d.duration \in Nat
  /\ IsList(d.rows) /\ \A i \in DOMAIN d.rows : IsRow(d.rows[i])
  /\ \A i, j \in DOMAIN d.rows :
       d.rows[i].check = "valid" /\ d.rows[j].check = "valid" => (d.rows[i].seq = Null) = (d.rows[j].seq = Null)
  /\ d.version = 2 =>
       /\ IsList(d.events) /\ \A i \in DOMAIN d.events : IsEvent(d.events[i])
       /\ IsReceipt(d.receipt) /\ IsProvenance(d.prov)
       /\ d.prov = NoProvenance => One(Typed(d, "udp-kernel-drops-observed"))

\* A mark names its offset; a note about the whole range names none.
IsMarks(marks) ==
  /\ IsList(marks) /\ \A i \in DOMAIN marks : marks[i].at \in OrNull /\ marks[i].id \in Int
  /\ \A i, j \in DOMAIN marks : marks[i].id = marks[j].id => i = j

IsRange(range) == range.from \in Int /\ range.to \in Int

ASSUME EvidenceAssumption ==
  /\ \A name \in Series :
       /\ \A d \in Documents[name] : IsDocument(d)
       /\ \A range \in Ranges[name] : IsRange(range)
       /\ Inclusions[name] \subseteq SUBSET Groups
  /\ IsMarks(Marks.markers) /\ IsMarks(Marks.notes)
  /\ \A alignment \in Alignments : alignment.anchors \in Int \X Int

-----------------------------------------------------------------------------
VARIABLES series, session, bundle, received, finding
vars == <<series, session, bundle, received, finding>>

Sides == {"baseline", "candidate"}
Nothing == [kind |-> "nothing"]
Refused == [kind |-> "refused"]
Is(x) == "kind" \notin DOMAIN x

Init ==
  /\ series = [side \in Sides |-> "none"]
  /\ session = [side \in Sides |-> Nothing] /\ bundle = [side \in Sides |-> Nothing]
  /\ received = [side \in Sides |-> Nothing] /\ finding = Nothing

\* openSession: parseSession refuses what validateSessionDocument refuses.  The bound on the
\* comparisons: there is a candidate only for the series that are compared.
Open(side, name) ==
  /\ ~Is(session[side]) /\ ~Is(finding)
  /\ side = "candidate" => {name, series["baseline"]} \subseteq Pairs
  /\ \E d \in Documents[name] : Valid(d) /\ session' = [session EXCEPT ![side] = ParseSession(d)]
  /\ series' = [series EXCEPT ![side] = name]
  /\ UNCHANGED <<bundle, received, finding>>

\* createBundle
Build(side, range, include) ==
  /\ ~Is(bundle[side]) /\ ~Is(finding) /\ RangeFits(session[side], range)
  /\ bundle' = [bundle EXCEPT ![side] = BuildEvidenceBundle(session[side], range, include, Marks.markers, Marks.notes)]
  /\ UNCHANGED <<series, session, received, finding>>

\* The receiver verifies the bundle and makes a document of it.
Receive(side) ==
  /\ Is(bundle[side]) /\ received[side] = Nothing
  /\ received' = [received EXCEPT ![side] = IF Verifies(bundle[side]) THEN ReceiverDocument(bundle[side]) ELSE Refused]
  /\ UNCHANGED <<series, session, bundle, finding>>

Compared(b, c, alignment) ==
  /\ Aligns(b, c, alignment)
  /\ finding' = Finding(CompareSources(b, c, alignment))
  /\ UNCHANGED <<series, session, bundle, received>>

\* Two sessions are compared over a range of each; the bound: before a bundle is built of them.
CompareSessions(alignment) ==
  /\ ~Is(finding)
  /\ \A side \in Sides : Is(session[side]) /\ ~Is(bundle[side])
  /\ \E b \in Ranges[series["baseline"]], c \in Ranges[series["candidate"]] :
       /\ RangeFits(session["baseline"], b) /\ RangeFits(session["candidate"], c)
       /\ Compared(SessionSource(session["baseline"], b), SessionSource(session["candidate"], c), alignment)

CompareBundles(alignment) ==
  /\ ~Is(finding)
  /\ \A side \in Sides : received[side] \notin {Nothing, Refused}
  /\ Compared(ReceiverSource(received["baseline"]), ReceiverSource(received["candidate"]), alignment)

Next ==
  \/ \E side \in Sides, name \in Series : Open(side, name)
  \/ \E side \in Sides :
       /\ Is(session[side])
       /\ \E range \in Ranges[series[side]], include \in Inclusions[series[side]] : Build(side, range, include)
  \/ \E side \in Sides : Receive(side)
  \/ \E alignment \in Alignments : CompareSessions(alignment) \/ CompareBundles(alignment)

Spec == Init /\ [][Next]_vars

-----------------------------------------------------------------------------
(* What a session says of itself, whatever part of it is sent *)

IsSound(d) ==
  /\ d.version = 2 /\ d.prov # NoProvenance /\ d.source # "file"
  /\ d.receipt.codes = {} /\ d.events = <<>> /\ d.receipt.complete /\ d.receipt.stop = "confirmed"
  /\ d.source = "udp" =>
       /\ d.prov.journal.state = "clean" /\ d.prov.journal.ended /\ d.prov.journal.datagrams = Len(d.rows)
       /\ Attributed(d.rows) = d.rows

IsUnknown(d) == d.version = 1 \/ d.source = "file" \/ d.prov = NoProvenance

\* A receiver accepts every bundle of a session the program opens, whatever range and artifacts
\* were chosen, and its verdict on the bundle is the one the whole session deserves:
\* the range filters and transportEvidenceDocuments of bundle.ts against evidence-verifier.ts.
BundleVerifies ==
  \A side \in Sides : received[side] # Nothing =>
    /\ received[side] # Refused
    /\ received[side].completeness =
         IF IsUnknown(session[side].doc) THEN "unknown"
         ELSE IF IsSound(session[side].doc) THEN "verified" ELSE "incomplete"

Mirror(assessment) ==
  CASE assessment = "improved" -> "regressed" [] assessment = "regressed" -> "improved" [] OTHER -> assessment

Exchanged(alignment) == [alignment EXCEPT !.anchors = <<@[2], @[1]>>]

\* The sources the finding was made of: it states their ranges, or they are what was received.
FindingSource(side) ==
  IF finding[side].kind = "session" THEN SessionSource(session[side], finding[side].range)
  ELSE ReceiverSource(received[side])

\* Exchange the sources of a finding, and what improved has regressed.
ExchangeMirrors ==
  Is(finding) =>
    LET exchanged == CompareSources(FindingSource("candidate"), FindingSource("baseline"), Exchanged(finding.alignment))
    IN exchanged.assessment = Mirror(finding.assessment)

\* A finding passes the checks it is stored under and is mirrored by the exchange of its sources.
\* A case that holds its two bundles reproduces it and can cite the ranges it compares;
\* and bundles that leave nothing out compare as their sessions do (comparison.ts, case-verifier.ts:70).
FindingReproduces ==
  Is(finding) =>
    LET Whole(side) == SessionSource(session[side], bundle[side].selection)
        whole == CompareSources(Whole("baseline"), Whole("candidate"), finding.alignment)
    IN /\ FindingHolds(finding) /\ ExchangeMirrors
       /\ finding.baseline.kind = "evidence-bundle" =>
            /\ \A side \in Sides : RangeIsCited(received[side], finding.alignment[side])
            /\ bundle["baseline"] # bundle["candidate"] =>
                 ComparisonReproduces({received[side] : side \in Sides}, finding)
            /\ (\A side \in Sides : bundle[side].include = Groups) =>
                 <<whole.areas, whole.metrics, whole.assessment>> = <<finding.areas, finding.metrics, finding.assessment>>

\* Seconds whose average is -90 dBm or better.
Healthy(buckets) == {b \in DOMAIN buckets : buckets[b].samples > 0 /\ buckets[b].rssi >= -90 * buckets[b].samples}

Till(at) == [from |-> 0, to |-> at]
\* The second a bucket stands for, as the range of an incident.
SecondOf(b, duration) == [from |-> (b - 1) * Second, to |-> Least({b * Second, duration})]

\* What the drop counter tells across the start of a range where the record right before it carries no
\* counter but an earlier one does: missingFramesInRange asks only the one right before, so an incident
\* misses these frames, which createMetricBuckets counts in the second of the next counter.
Unseen(frames, range) ==
  LET before == {i \in DOMAIN frames : frames[i].at < range.from /\ frames[i].drops # Null}
      inside == {i \in DOMAIN frames : InRange(frames[i].at, range) /\ frames[i].drops # Null}
  IN IF before = {} \/ inside = {} \/ LowerBound(frames, range.from) \in before THEN 0
     ELSE Dropped(frames[Most(before)].drops, frames[Least(inside)].drops)

\* The whole session counts the frames and the healthy seconds of its buckets, and the larger of their two
\* estimates: their missing frames where one estimate is nowhere below the other, and else less.
WholeIsSeconds(s) ==
  LET Received(b) == b.received  Skips(b) == b.skipped  Lost(b) == b.dropped  Missing(b) == MissingOf(b)
      incident == ProjectIncident(s, Till(s.doc.duration))
  IN /\ incident.received = SumOf(s.buckets, Received) /\ incident.healthy = Cardinality(Healthy(s.buckets))
     /\ incident.missing = Most({SumOf(s.buckets, Skips), SumOf(s.buckets, Lost)})
     /\ (incident.missing = SumOf(s.buckets, Missing)) =
          \/ \A b \in DOMAIN s.buckets : s.buckets[b].skipped <= s.buckets[b].dropped
          \/ \A b \in DOMAIN s.buckets : s.buckets[b].dropped <= s.buckets[b].skipped

\* A bucket counts what an incident over its second counts and does not leave unseen.
SecondsAreRanges(s) ==
  \A b \in DOMAIN s.buckets :
    LET second == SecondOf(b, s.doc.duration) IN
    /\ s.buckets[b].skipped = SkippedInRange(s.frames, second)
    /\ s.buckets[b].dropped = DroppedInRange(s.frames, second) + Unseen(s.frames, second)

\* So does an incident over any range: it is what the session counts up to its end less that up to its start.
RangesAddUp(s) ==
  \A to \in 0..s.doc.duration : \A from \in 0..to :
    LET range == [from |-> from, to |-> to] IN
    /\ SkippedInRange(s.frames, Till(from)) + SkippedInRange(s.frames, range) = SkippedInRange(s.frames, Till(to))
    /\ DroppedInRange(s.frames, Till(from)) + DroppedInRange(s.frames, range) + Unseen(s.frames, range)
         = DroppedInRange(s.frames, Till(to))

\* Every lost frame is counted in one second and in the incidents over it: the buckets and the incidents,
\* which count with loops of their own, differ in what the drop counter tells unseen across the start of a
\* range and in nothing else (createMetricBuckets, projectIncident, missingFramesInRange).  Asked of a
\* session before anything is done with it.
LossIsCountedOnce ==
  \A side \in Sides : Is(session[side]) /\ ~Is(bundle[side]) /\ ~Is(finding) =>
    WholeIsSeconds(session[side]) /\ SecondsAreRanges(session[side]) /\ RangesAddUp(session[side])

=============================================================================
