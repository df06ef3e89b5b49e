--------------------------- MODULE SourceComparison ---------------------------
(***************************************************************************)
(* The comparison of two sources, sessions or evidence bundles, of         *)
(* src/domain/comparison.ts: the alignment of their ranges, what of them   *)
(* can be compared, the metrics over the overlap and the assessment; the   *)
(* finding that states all this and the checks it must pass, when it is    *)
(* made and when a case that holds it is verified (verifier/case-verifier).*)
(*                                                                         *)
(* A value of a metric is a ratio <<n, d>> with d > 0, <<>> for null; the  *)
(* tolerance of floating point is left out.  Wording, ids of the evidence  *)
(* and hashes are left out: an identity is what it identifies.             *)
(***************************************************************************)
EXTENDS EvidenceVerifier

-----------------------------------------------------------------------------
(* Sources *)

Support == {"records", "frames", "diagnostics"}

Source(kind, identity, s, range, receipt, completeness, has, records, frames, diagnostics) ==
  [kind |-> kind, identity |-> identity, duration |-> s.duration, decoder |-> s.decoder, range |-> range,
   status |-> receipt.status, basis |-> receipt.basis, completeness |-> completeness, has |-> has,
   records |-> records, frames |-> frames, diagnostics |-> diagnostics]

DiagnosticsIn(diagnostics, range) == Where(diagnostics, LAMBDA e : Intersects(e.at, e.to, range))

SessionSource(s, range) ==
  Source("session", s.doc, s.doc, range, s.receipt, "verified", Support,
         RowsInRange(s.doc.rows, range), RowsInRange(s.frames, range), DiagnosticsIn(s.diagnostics, range))

ReceiverSource(doc) ==
  Source("evidence-bundle", doc.bundle, doc.session, doc.incident, doc.receipt, doc.completeness,
         {x \in Support : CASE x = "records" -> "raw" \in doc.available
                            [] x = "frames"  -> "decoded" \in doc.available
                            [] OTHER         -> "diagnostics" \in doc.available},
         doc.records, doc.packets, doc.diagnostics)

-----------------------------------------------------------------------------
(* resolveAlignment.  An alignment names the mode and an anchor of each side;  *)
(* the anchors of "range-start" are the starts of the ranges.                  *)

Anchors(b, c, alignment) ==
  IF alignment.mode = "range-start" THEN <<b.range.from, c.range.from>> ELSE alignment.anchors

Relative(range, anchor) == [from |-> range.from - anchor, to |-> range.to - anchor]
Overlap(x, y) == [from |-> Most({x.from, y.from}), to |-> Least({x.to, y.to})]
Moved(range, anchor) == [from |-> range.from + anchor, to |-> range.to + anchor]

Aligns(b, c, alignment) ==
  LET at == Anchors(b, c, alignment)
      shared == Overlap(Relative(b.range, at[1]), Relative(c.range, at[2]))
  IN InRange(at[1], b.range) /\ InRange(at[2], c.range) /\ shared.to > shared.from

ResolveAlignment(b, c, alignment) ==
  LET at == Anchors(b, c, alignment)
      bs == Relative(b.range, at[1])  cs == Relative(c.range, at[2])  shared == Overlap(bs, cs)
  IN [mode |-> alignment.mode, anchors |-> at, overlap |-> shared, duration |-> shared.to - shared.from,
      baseline |-> Moved(shared, at[1]), candidate |-> Moved(shared, at[2]),
      unmatched |-> <<shared.from - bs.from, bs.to - shared.to, shared.from - cs.from, cs.to - shared.to>>]

-----------------------------------------------------------------------------
(* comparisonAreas *)

RssiProvenance(records) == {records[i].basis : i \in {j \in DOMAIN records : records[j].rssi # Null}}

\* Mutant: sources without raw records are compared all the same.
SupportedStatus_AnyRecords(needs, b, c, same, also) ==
  CASE ~(needs \subseteq b.has \cap c.has) -> "unavailable"
    [] needs \subseteq b.has \cap c.has /\ ~same -> "not-comparable"
    [] OTHER -> "comparable"

\* What needs is missing on a side is unavailable; what also is missing is for review.
SupportedStatus(needs, b, c, same, also) ==
  CASE ~(needs \subseteq b.has \cap c.has) -> "unavailable"
    [] needs \subseteq b.has \cap c.has /\ ~same -> "not-comparable"
    [] needs \subseteq b.has \cap c.has /\ same /\ ~(also \subseteq b.has \cap c.has) -> "review-required"
    [] OTHER -> "comparable"

LinkStatus(bases, others, same) ==
  CASE {} \in {bases, others} -> "unavailable"
    [] {} \notin {bases, others} /\ Cardinality(bases) = 1 /\ bases = others
         /\ (bases = {"decoded-packet"} => same) -> "comparable"
    [] OTHER -> "not-comparable"

AreaIds == {"alignment", "packet-evidence", "capture-evidence", "diagnostics", "decoded-fields", "link-observations"}

Areas(b, c, same, framesB, framesC, recordsB, recordsC) ==
  LET packets == SupportedStatus({"frames"}, b, c, same, {"records"}) IN
  [id \in AreaIds |->
    CASE id = "alignment"       -> "comparable"
      [] id = "packet-evidence" -> packets
      [] id = "capture-evidence" ->
           IF b.basis = c.basis /\ {b.status, c.status} = {"verified"} THEN "comparable" ELSE "review-required"
      [] id = "diagnostics"     -> SupportedStatus({"diagnostics"}, b, c, same, {"records", "frames"})
      [] id = "decoded-fields"  ->
           IF packets = "comparable" /\ <<>> \in {framesB, framesC} THEN "unavailable" ELSE packets
      [] OTHER -> LinkStatus(RssiProvenance(recordsB), RssiProvenance(recordsC), same)]

-----------------------------------------------------------------------------
(* buildMetrics *)

NoValue == <<>>
Ratio(n, d) == IF d = 0 THEN NoValue ELSE <<n, d>>

Direction(x, y) ==
  CASE NoValue \in {x, y} -> "unresolved"
    [] NoValue \notin {x, y} /\ x[1] * y[2] = y[1] * x[2] -> "unchanged"
    [] NoValue \notin {x, y} /\ y[1] * x[2] > x[1] * y[2] -> "increased"
    [] OTHER -> "decreased"

Goal(id) ==
  CASE id \in {"complete-frame-pct", "average-rssi"} -> "higher"
    [] id \in {"integrity-failure-rate", "warning-diagnostic-rate", "critical-diagnostic-rate"} -> "lower"
    [] OTHER -> "neutral"

AssessmentFor(change, goal) ==
  CASE change \in {"unresolved", "unchanged"} -> change
    [] change \notin {"unresolved", "unchanged"} /\ goal = "neutral" -> "unresolved"
    [] OTHER -> IF (goal = "higher") = (change = "increased") THEN "improved" ELSE "regressed"

\* Values and counts are pairs of the two sides; the value of a metric that is not comparable is kept.
Metric(id, status, values, counts) ==
  LET change == IF status = "comparable" THEN Direction(values[1], values[2]) ELSE "unresolved" IN
  [status |-> status, values |-> values, counts |-> counts, direction |-> change,
   assessment |-> IF status = "comparable" THEN AssessmentFor(change, Goal(id)) ELSE "unresolved"]

CoreMetrics == {"packet-rate", "complete-frame-pct", "integrity-failure-rate",
                "warning-diagnostic-rate", "critical-diagnostic-rate", "average-rssi"}

AreaOf(id) ==
  CASE id \in {"packet-rate", "complete-frame-pct", "integrity-failure-rate"} -> "packet-evidence"
    [] id \in {"warning-diagnostic-rate", "critical-diagnostic-rate"} -> "diagnostics"
    [] id = "average-rssi" -> "link-observations"
    [] OTHER -> "decoded-fields"

Fielded(frames) == Where(frames, LAMBDA f : f.field # Null)

\* The frames, diagnostics or records of one side a metric is made of.
Evidence(id, side) ==
  CASE id = "integrity-failure-rate"   -> Where(side.frames, LAMBDA f : f.check # "valid")
    [] id = "warning-diagnostic-rate"  -> Where(side.diagnostics, LAMBDA e : e.severity = "warning")
    [] id = "critical-diagnostic-rate" -> Where(side.diagnostics, LAMBDA e : e.severity = "critical")
    [] id = "average-rssi"             -> Heard(side.records)
    [] id = "field"                    -> Fielded(side.frames)
    [] OTHER                           -> side.frames

Value(id, side, status, duration) ==
  LET evidence == Evidence(id, side)  Rssi(r) == r.rssi  Field(f) == f.field IN
  CASE id = "complete-frame-pct" -> Ratio(Len(Where(evidence, LAMBDA f : f.status = "complete")), Len(evidence))
    [] id = "average-rssi"       -> Ratio(SumOf(evidence, Rssi), Len(evidence))
    [] id = "field"              -> Ratio(SumOf(evidence, Field), Len(evidence))
    [] OTHER                     -> IF status = "unavailable" THEN NoValue ELSE <<Len(evidence), duration>>

MetricIds(areas, b, c) ==
  CoreMetrics \cup
  (IF areas["decoded-fields"] = "comparable" /\ <<>> \notin {Fielded(b.frames), Fielded(c.frames)}
   THEN {"field"} ELSE {})

BuildMetrics(b, c, areas, duration) ==
  [id \in MetricIds(areas, b, c) |->
     LET status == areas[AreaOf(id)]
         Of(side) == Value(id, side, status, duration)
     IN Metric(id, status, <<Of(b), Of(c)>>, <<Len(Evidence(id, b)), Len(Evidence(id, c))>>)]

OverallAssessment(areas, metrics) ==
  LET found == {metrics[id].assessment : id \in DOMAIN metrics}
      ends == {"improved", "regressed"} \cap found
  IN IF {"review-required", "not-comparable"} \cap {areas[id] : id \in AreaIds} # {} THEN "unresolved"
     ELSE CASE ends = {"improved"}  -> "improved"
            [] ends = {"regressed"} -> "regressed"
            [] ends = {} /\ "unchanged" \in found -> "unchanged"
            [] OTHER -> "unresolved"

-----------------------------------------------------------------------------
(* compareSources, and the finding made of its result *)

Aligned(source, range) ==
  [source EXCEPT !.records = RowsInRange(@, range), !.frames = RowsInRange(@, range),
                 !.diagnostics = DiagnosticsIn(@, range)]

CompareSources(b, c, requested) ==
  LET alignment == ResolveAlignment(b, c, requested)
      bs == Aligned(b, alignment.baseline)  cs == Aligned(c, alignment.candidate)
      areas == Areas(b, c, b.decoder = c.decoder, bs.frames, cs.frames, bs.records, cs.records)
      metrics == BuildMetrics(bs, cs, areas, alignment.duration)
  IN [baseline |-> b, candidate |-> c, alignment |-> alignment, areas |-> areas, metrics |-> metrics,
      assessment |-> OverallAssessment(areas, metrics)]

FindingInput(source, range) ==
  LET a == Aligned(source, range) IN
  [kind |-> source.kind, identity |-> source.identity, duration |-> source.duration, range |-> source.range,
   decoder |-> source.decoder, status |-> source.status, basis |-> source.basis,
   completeness |-> source.completeness, has |-> source.has,
   records |-> Len(a.records), frames |-> Len(a.frames), diagnostics |-> Len(a.diagnostics),
   heard |-> Len(Heard(a.records)), rssi |-> RssiProvenance(a.records)]

Finding(model) ==
  [baseline |-> FindingInput(model.baseline, model.alignment.baseline),
   candidate |-> FindingInput(model.candidate, model.alignment.candidate),
   alignment |-> model.alignment, areas |-> model.areas, metrics |-> model.metrics,
   assessment |-> model.assessment]

-----------------------------------------------------------------------------
(* assertFindingSemantics: what a finding must say to agree with itself *)

InputHolds(input) ==
  /\ input.range.to <= input.duration
  /\ "records" \notin input.has => input.records = 0
  /\ "frames" \notin input.has => input.frames = 0
  /\ "diagnostics" \notin input.has => input.diagnostics = 0
  /\ input.heard <= input.records /\ (input.heard = 0) = (input.rssi = {})

AlignmentHolds(f) ==
  LET a == f.alignment  b == f.baseline.range  c == f.candidate.range
      bs == Relative(b, a.anchors[1])  cs == Relative(c, a.anchors[2])  shared == Overlap(bs, cs)
  IN /\ InRange(a.anchors[1], b) /\ InRange(a.anchors[2], c)
     /\ shared.to > shared.from /\ a.overlap = shared /\ a.duration = shared.to - shared.from
     /\ a.baseline = Moved(shared, a.anchors[1]) /\ a.candidate = Moved(shared, a.anchors[2])
     /\ a.unmatched = <<shared.from - bs.from, bs.to - shared.to, shared.from - cs.from, cs.to - shared.to>>
     /\ a.mode = "range-start" => a.anchors = <<b.from, c.from>>

\* expectedFindingAreaStatuses, from the counts the finding states.
ExpectedAreas(b, c) ==
  LET both == b.has \cap c.has  same == b.decoder = c.decoder
      Graded(also) == IF ~same THEN "not-comparable" ELSE IF also \subseteq both THEN "comparable" ELSE "review-required"
      packets == IF "frames" \notin both THEN "unavailable" ELSE Graded({"records"})
  IN [id \in AreaIds |->
       CASE id = "alignment" -> "comparable"
         [] id = "packet-evidence" -> packets
         [] id = "capture-evidence" ->
              IF b.basis = c.basis /\ b.status = "verified" /\ c.status = "verified"
              THEN "comparable" ELSE "review-required"
         [] id = "diagnostics" -> IF "diagnostics" \notin both THEN "unavailable" ELSE Graded({"records", "frames"})
         [] id = "decoded-fields" ->
              IF packets = "comparable" /\ 0 \in {b.frames, c.frames} THEN "unavailable" ELSE packets
         [] OTHER -> IF 0 \in {b.heard, c.heard} THEN "unavailable" ELSE LinkStatus(b.rssi, c.rssi, same)]

\* A rate is its count over the overlap.
IsRate(m, counts, duration) ==
  m.status # "unavailable" =>
    \A i \in {1, 2} : m.values[i] # NoValue /\ m.values[i][1] * duration = counts[i] * m.values[i][2]

MetricCounts(id, m, f) ==
  LET frames == <<f.baseline.frames, f.candidate.frames>>
      diagnostics == <<f.baseline.diagnostics, f.candidate.diagnostics>>
      Within(total) == m.counts[1] <= total[1] /\ m.counts[2] <= total[2]
  IN CASE id = "packet-rate" -> m.counts = frames /\ IsRate(m, frames, f.alignment.duration)
       [] id = "complete-frame-pct" -> m.counts = frames
       [] id = "integrity-failure-rate" -> Within(frames) /\ IsRate(m, m.counts, f.alignment.duration)
       [] id \in {"warning-diagnostic-rate", "critical-diagnostic-rate"} ->
            Within(diagnostics) /\ IsRate(m, m.counts, f.alignment.duration)
       [] id = "average-rssi" -> m.counts = <<f.baseline.heard, f.candidate.heard>>
       [] OTHER -> TRUE

MetricHolds(id, m, f) ==
  LET expected == IF m.status = "comparable" THEN Direction(m.values[1], m.values[2]) ELSE "unresolved" IN
  /\ m.status = ExpectedAreas(f.baseline, f.candidate)[AreaOf(id)]
  /\ id \notin CoreMetrics => m.status = "comparable"
  /\ m.direction = expected
  /\ m.assessment = IF m.status = "comparable" THEN AssessmentFor(expected, Goal(id)) ELSE "unresolved"
  /\ MetricCounts(id, m, f)

FindingHolds(f) ==
  /\ InputHolds(f.baseline) /\ InputHolds(f.candidate) /\ AlignmentHolds(f)
  /\ f.areas = ExpectedAreas(f.baseline, f.candidate)
  /\ CoreMetrics \subseteq DOMAIN f.metrics
  /\ \A id \in DOMAIN f.metrics : MetricHolds(id, f.metrics[id], f)
  /\ f.assessment = OverallAssessment(f.areas, f.metrics)

-----------------------------------------------------------------------------
(* validateCaseContent, for a case of two bundles and one comparison *)

\* resolveCaseCitation, of a range
RangeIsCited(doc, range) ==
  doc.incident.from <= range.from /\ range.to <= doc.incident.to /\ range.from < range.to

ComparisonReproduces(documents, finding) ==
  LET Named(input) == {d \in documents : d.bundle = input.identity} IN
  /\ FindingHolds(finding)
  /\ finding.baseline.kind = "evidence-bundle" /\ finding.candidate.kind = "evidence-bundle"
  /\ Named(finding.baseline) # {} /\ Named(finding.candidate) # {}
  /\ finding.baseline.identity # finding.candidate.identity
  /\ \E b \in Named(finding.baseline), c \in Named(finding.candidate) :
       /\ Aligns(ReceiverSource(b), ReceiverSource(c), finding.alignment)
       /\ Finding(CompareSources(ReceiverSource(b), ReceiverSource(c), finding.alignment)) = finding

=============================================================================
