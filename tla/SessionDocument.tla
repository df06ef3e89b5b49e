--------------------------- MODULE SessionDocument ---------------------------
(***************************************************************************)
(* Replay documents of src/domain/session.ts: which are accepted, and what *)
(* parseSession derives from an accepted one: decoded frames, one-second   *)
(* buckets, diagnostics and the statistics of an incident.                 *)
(*                                                                         *)
(* A document is a record of version, source, decoder, duration, rows (its *)
(* records), events, receipt and prov (its transport provenance).  A row   *)
(* holds what the rest of the program reads of a record and of the frame   *)
(* it decodes to: offset, size, endpoint, RSSI with its basis, kernel drop *)
(* counter, sequence number (device time comes with it), integrity and one *)
(* numeric field.  Records and events are numbered; the number is the id.  *)
(* The conditions CaptureReceipt states are taken from there.              *)
(***************************************************************************)
EXTENDS CaptureReceipt, FiniteSets, Lists

CONSTANTS
  Second,       \* SECOND_US, in units of time
  SeqModulus,   \* 65536
  LowRuns,      \* buckets of low RSSI that degrade a link: 2
  GoodRuns,     \* buckets of good RSSI that recover it: 5
  LossRuns,     \* buckets of loss that make a burst: 3
  RelockFrames, \* DECODER_RELOCK_MIN_VALID_FRAMES
  RelockTime    \* DECODER_RELOCK_STABILITY_US

ASSUME SessionAssumption ==
  /\ {Second, LowRuns, GoodRuns, LossRuns, RelockFrames} \subseteq Nat \ {0}
  /\ SeqModulus \in Nat \ {0, 1} /\ RelockTime \in Nat

NoProvenance == [status |-> "unknown", codes |-> {}, journal |-> NoJournal,
                 attributed |-> 0, unattributed |-> 0, endpoints |-> {}]

Size(r) == r.size
Total(rows) == SumOf(rows, Size)
Most(S) == CHOOSE x \in S : \A y \in S : y <= x
Least(S) == CHOOSE x \in S : \A y \in S : x <= y
Attributed(rows) == Where(rows, LAMBDA r : r.from # Null)
Endpoints(rows) == {rows[i].from : i \in DOMAIN rows} \ {Null}

-----------------------------------------------------------------------------
(* validateSessionDocument *)

RowsAreSound(d) ==
  /\ d.rows # <<>>
  /\ \A i \in DOMAIN d.rows :
       /\ d.rows[i].id = i /\ d.rows[i].at < d.duration
       /\ i > 1 => d.rows[i - 1].at <= d.rows[i].at
       /\ d.source # "udp" => d.rows[i].from = Null /\ d.rows[i].drops = Null

\* The document as CaptureReceipt knows it.
Flat(d) ==
  LET r == d.receipt IN
  [source |-> d.source, duration |-> d.duration, last |-> d.rows[Len(d.rows)].at,
   records |-> r.records, bytes |-> r.bytes, events |-> d.events, status |-> r.status,
   basis |-> r.basis, stop |-> r.stop, complete |-> r.complete, observed |-> r.observed,
   stopOffset |-> IF r.stopOffset = Null THEN d.duration ELSE r.stopOffset,
   reported |-> r.reported, codes |-> r.codes, journal |-> d.prov.journal, provStatus |-> d.prov.status]

EventsFit(d) ==
  \A i \in DOMAIN d.events : LET e == d.events[i] IN
    /\ e.id = i
    /\ e.to # Null => e.at # Session /\ e.at < e.to /\ e.to <= d.duration

StopAgrees(d) ==
  /\ (d.receipt.stop = "not-observed") = (d.receipt.stopOffset = Null)
  /\ d.receipt.stopOffset <= d.duration

MismatchCode(source) == IF source = "serial" THEN "serial-counter-mismatch" ELSE "udp-counter-mismatch"

RecorderOnly(d) ==
  /\ d.receipt.status = "incomplete" /\ d.receipt.stop = "unconfirmed" /\ ~d.receipt.complete
  /\ d.receipt.observed = NotReported /\ d.receipt.reported = NotReported
  /\ MismatchCode(d.source) \notin d.receipt.codes /\ Typed(d, MismatchCode(d.source)) = {}

Bases(source) == IF source = "udp" THEN {"udp-bridge-reconciled", "udp-browser-observed"} ELSE {"web-serial-observed"}

\* Both counters of a pair are there exactly when the basis says so.
CountersFit(d) ==
  /\ d.receipt.observed[1] # Null /\ d.receipt.observed[2] # Null
  /\ IF d.receipt.basis = "udp-bridge-reconciled"
     THEN d.receipt.reported[1] # Null /\ d.receipt.reported[2] # Null
     ELSE d.receipt.reported = NotReported

CaptureCodes == {"capture-backpressure", "capture-limit", "shutdown-unconfirmed", "duration-capped",
                 "event-log-incomplete", "transport-provenance-incomplete"}

\* UDP_CAPTURE_ISSUE_CODES and SERIAL_CAPTURE_ISSUE_CODES
IssueCodes(source) ==
  CaptureCodes \cup
  IF source = "udp"
  THEN {"udp-event-sequence-discontinuity", "udp-counter-mismatch", "udp-kernel-drops-observed",
        "udp-bridge-error", "udp-event-stream-disconnected"}
  ELSE {"serial-read-error", "serial-disconnected", "serial-tail-recovery-failed", "serial-counter-mismatch"}

LiveEvidence(d) ==
  LET f == Flat(d) IN
  /\ d.receipt.status \in {"verified", "incomplete"} /\ d.receipt.codes \subseteq IssueCodes(d.source)
  /\ EventsInTime(f) /\ EventsFit(d) /\ EventsAreCoded(f)
  /\ ShutdownAgrees(f) /\ DurationAgrees(f) /\ StatusAgrees(f)
  /\ IF d.receipt.basis = "recorder-only" THEN RecorderOnly(d)
     ELSE d.receipt.basis \in Bases(d.source) /\ CountersFit(d) /\ CountersAgree(f)

Unassessed(basis, code, rows) ==
  [status |-> "unknown", basis |-> basis, stop |-> "not-observed", stopOffset |-> Null,
   complete |-> FALSE, observed |-> NotReported, reported |-> NotReported,
   records |-> Len(rows), bytes |-> Total(rows), codes |-> {code}]

FileEvidence(d) == d.events = <<>> /\ d.receipt = Unassessed("file-source-unassessed", "file-source-unassessed", d.rows)

JournalCodes(d) ==
  LET j == d.prov.journal  counted == <<j.datagrams, j.datagrams>> IN
  IF j.state = "none" THEN {"udp-bridge-journal-unavailable"}
  ELSE (IF j.state # "clean" THEN {"udp-bridge-journal-incomplete"} ELSE {})
       \cup (IF counted = <<Len(d.rows), d.receipt.bytes>> /\ counted = d.receipt.reported
             THEN {} ELSE {"udp-bridge-journal-counter-mismatch"})
       \cup (IF j.drops = Null THEN {"udp-kernel-drop-counter-unavailable"} ELSE {})

UnattributedCodes(n) == IF n > 0 THEN {"udp-endpoint-attribution-incomplete"} ELSE {}

\* assertTransportProvenance
ProvenanceIsSound(d) ==
  LET p == d.prov  f == Flat(d)  known == Len(Attributed(d.rows)) IN
  /\ (p.status = "incomplete") = ("transport-provenance-incomplete" \in d.receipt.codes)
  /\ d.source = "udp" /\ p # NoProvenance =>
       /\ p.attributed = known /\ p.unattributed = Len(d.rows) - known /\ p.endpoints = Endpoints(d.rows)
       /\ p.codes = JournalCodes(d) \cup UnattributedCodes(p.unattributed)
       /\ JournalFits(f) /\ DropsAgree(f)
       /\ p.journal.state = "clean" => p.journal.ended
       /\ p.journal.state = "active" => ~p.journal.ended
       /\ (p.status = "incomplete") = Incomplete(p.codes)
  /\ d.source = "serial" /\ p # NoProvenance =>
       p.status = "verified" /\ p.codes \subseteq {"serial-device-identifiers-unavailable"}
  /\ d.source = "file" => p = NoProvenance

Valid(d) ==
  /\ d.duration \in 1..MaxDuration /\ RowsAreSound(d)
  /\ d.version = 2 =>
       /\ d.receipt.records = Len(d.rows) /\ d.receipt.bytes = Total(d.rows)
       /\ StopAgrees(d)
       /\ IF d.source = "file" THEN FileEvidence(d) ELSE LiveEvidence(d)
       /\ ProvenanceIsSound(d)

-----------------------------------------------------------------------------
(* Frames, buckets and missing frames *)

StatusOf(check) == CASE check = "valid" -> "complete" [] check = "truncated" -> "partial" [] OTHER -> "invalid"

\* decodeRecord, for what is read of a frame.
Decoded(r) ==
  [id |-> r.id, at |-> r.at, check |-> r.check, status |-> StatusOf(r.check),
   seq |-> r.seq, drops |-> r.drops, rssi |-> r.rssi, field |-> r.field]

Trusted(f) == f.status = "complete" /\ f.check = "valid"
Sequenced(f) == Trusted(f) /\ f.seq # Null

\* Frames missing between two sequence numbers, less the ones that arrived but cannot be trusted.
Gap(before, seq, untrusted) ==
  LET delta == (seq - before + SeqModulus) % SeqModulus IN
  IF 1 < delta /\ delta <= SeqModulus \div 2 THEN Most({0, delta - 1 - untrusted}) ELSE 0

Dropped(before, counter) ==
  IF Null \notin {before, counter} /\ counter >= before THEN counter - before ELSE 0

EmptyBucket == [received |-> 0, dropped |-> 0, skipped |-> 0, rssi |-> 0, samples |-> 0, field |-> Null]

\* One turn of the loop of createMetricBuckets.
Bucketed(acc, f) ==
  LET seen == Sequenced(f)
      gap  == IF seen /\ acc.seq # Null THEN Gap(acc.seq, f.seq, acc.untrusted) ELSE 0
  IN [seq |-> IF seen THEN f.seq ELSE acc.seq,
      untrusted |-> IF seen THEN 0 ELSE acc.untrusted + 1,
      drops |-> IF f.drops # Null THEN f.drops ELSE acc.drops,
      buckets |-> [acc.buckets EXCEPT ![f.at \div Second + 1] =
        [received |-> @.received + 1,
         dropped |-> @.dropped + Dropped(acc.drops, f.drops),
         skipped |-> @.skipped + gap,
         rssi |-> IF f.rssi = Null THEN @.rssi ELSE @.rssi + f.rssi,
         samples |-> IF f.rssi = Null THEN @.samples ELSE @.samples + 1,
         field |-> IF f.status = "complete" /\ f.field # Null THEN f.field ELSE @.field]]]

BucketCount(d) == (d.duration + Second - 1) \div Second

\* The last value of a field is carried into the buckets that have none.
Carried(buckets) ==
  [b \in DOMAIN buckets |->
     LET told == {a \in 1..b : buckets[a].field # Null} IN
     [buckets[b] EXCEPT !.field = IF told = {} THEN Null ELSE buckets[Most(told)].field]]

CreateMetricBuckets(d, frames) ==
  Carried(Steps(Bucketed, [seq |-> Null, untrusted |-> 0, drops |-> Null,
                           buckets |-> [b \in 1..BucketCount(d) |-> EmptyBucket]], frames).buckets)

\* The larger of the two estimates: both may count the same frames.
MissingOf(b) == Most({b.dropped, b.skipped})

InRange(at, range) == range.from <= at /\ at < range.to
RowsInRange(rows, range) == Where(rows, LAMBDA r : InRange(r.at, range))

\* The frames before a range: how many there are, and what their last sequence number was.
LowerBound(frames, at) == Cardinality({i \in DOMAIN frames : frames[i].at < at})
Preceding(frames, start) ==
  LET known == {i \in 1..start : Sequenced(frames[i])} IN
  IF known = {} THEN [seq |-> Null, untrusted |-> 0, skipped |-> 0]
  ELSE [seq |-> frames[Most(known)].seq, skipped |-> 0,
        untrusted |-> Cardinality({i \in Most(known) + 1..start : ~Trusted(frames[i])})]

SkippedNext(acc, f) ==
  IF Sequenced(f)
  THEN [seq |-> f.seq, untrusted |-> 0,
        skipped |-> acc.skipped + IF acc.seq # Null THEN Gap(acc.seq, f.seq, acc.untrusted) ELSE 0]
  ELSE [acc EXCEPT !.untrusted = @ + 1]

\* Mutant: the frames before the range are not asked for their sequence number.
SkippedInRange_Fresh(frames, range) ==
  Steps(SkippedNext, [seq |-> Null, untrusted |-> 0, skipped |-> 0], RowsInRange(frames, range)).skipped

SkippedInRange(frames, range) ==
  Steps(SkippedNext, Preceding(frames, LowerBound(frames, range.from)), RowsInRange(frames, range)).skipped

DroppedNext(acc, f) ==
  [drops |-> IF f.drops # Null THEN f.drops ELSE acc.drops,
   dropped |-> acc.dropped + Dropped(acc.drops, f.drops)]

\* Variant: begins with the last counter any frame before the range carried, as Bucketed does.
DroppedInRange_Carried(frames, range) ==
  LET known == {i \in 1..LowerBound(frames, range.from) : frames[i].drops # Null} IN
  Steps(DroppedNext, [drops |-> IF known = {} THEN Null ELSE frames[Most(known)].drops, dropped |-> 0],
        RowsInRange(frames, range)).dropped

DroppedInRange(frames, range) ==
  LET start == LowerBound(frames, range.from) IN
  Steps(DroppedNext, [drops |-> IF start > 0 THEN frames[start].drops ELSE Null, dropped |-> 0],
        RowsInRange(frames, range)).dropped

MissingFramesInRange(frames, range) ==
  Most({DroppedInRange(frames, range), SkippedInRange(frames, range)})

-----------------------------------------------------------------------------
(* Diagnostics.  An id is the type, the offset and the frame it names; the order *)
(* by offset is left out, nothing below reads it.                                *)

Diagnostic(type, severity, at, frame) ==
  [id |-> <<type, at, frame>>, severity |-> severity, at |-> at, to |-> Null, frames |-> {frame} \ {Null}]

IfSo(condition, diagnostic) == IF condition THEN <<diagnostic>> ELSE <<>>

Lossy(b) == LET missing == MissingOf(b) IN missing > 0 /\ 100 * missing >= 5 * (b.received + missing)
Lossless(b) == 100 * MissingOf(b) < b.received + MissingOf(b) \/ b.received + MissingOf(b) = 0

\* One turn of the loop of deriveDiagnostics over the buckets.
LinkNext(acc, b) ==
  LET low    == b.samples > 0 /\ b.rssi < -90 * b.samples
      good   == b.samples > 0 /\ b.rssi > -78 * b.samples
      lows   == IF low THEN acc.lows + 1 ELSE 0
      goods  == IF good THEN acc.goods + 1 ELSE 0
      losses == IF Lossy(b) THEN acc.losses + 1 ELSE 0
      degrades == ~acc.degraded /\ lows = LowRuns
      recovers == (acc.degraded \/ degrades) /\ goods = GoodRuns
      bursts   == ~acc.burst /\ losses = LossRuns
      Back(n)  == acc.at - (n - 1) * Second
  IN [at |-> acc.at + Second, lows |-> lows, goods |-> goods, losses |-> losses,
      degraded |-> (acc.degraded \/ degrades) /\ ~recovers,
      burst |-> (acc.burst \/ bursts) /\ ~Lossless(b),
      found |-> acc.found
        \o IfSo(degrades, Diagnostic("link-degraded", "warning", Back(LowRuns), Null))
        \o IfSo(recovers, Diagnostic("recovery", "info", Back(GoodRuns), Null))
        \o IfSo(bursts, Diagnostic("loss-burst", "critical", Back(LossRuns), Null))]

\* One turn of its loop over the frames.
DecoderNext(acc, f) ==
  IF f.status # "complete"
  THEN LET failed == f.check \in {"crc-failed", "checksum-failed"}
           resyncs == ~acc.resyncing /\ acc.invalid = 1
           type == CASE f.check = "crc-failed" -> "crc-failure" [] f.check = "checksum-failed" -> "checksum-failure"
                     [] OTHER -> "partial-frame"
       IN
       [invalid |-> acc.invalid + 1, valid |-> 0, since |-> Null, resyncing |-> acc.resyncing \/ resyncs,
        found |-> acc.found
          \o <<Diagnostic(type, IF failed THEN "critical" ELSE "warning", f.at, f.id)>>
          \o IfSo(resyncs, Diagnostic("decoder-resync", "warning", f.at, f.id))]
  ELSE IF ~acc.resyncing THEN [acc EXCEPT !.invalid = 0]
  ELSE LET since == IF acc.since = Null THEN f.at ELSE acc.since
           locks == acc.valid + 1 >= RelockFrames /\ f.at - since >= RelockTime
       IN [invalid |-> 0, valid |-> acc.valid + 1, since |-> IF locks THEN Null ELSE since, resyncing |-> ~locks,
           found |-> acc.found \o IfSo(locks, Diagnostic("decoder-locked", "info", f.at, f.id))]

DeriveDiagnostics(frames, buckets) ==
  Steps(LinkNext, [at |-> 0, lows |-> 0, goods |-> 0, losses |-> 0, degraded |-> FALSE,
                   burst |-> FALSE, found |-> <<>>], buckets).found
  \o Steps(DecoderNext, [invalid |-> 0, valid |-> 0, since |-> Null, resyncing |-> FALSE,
                         found |-> <<>>], frames).found

\* transportEventDiagnostic: an event without an offset spans the session.
TransportDiagnostic(e, duration) ==
  [id |-> <<"transport", e.id, Null>>, severity |-> e.severity, frames |-> {},
   at |-> IF e.at = Session THEN 0 ELSE e.at, to |-> IF e.at = Session THEN duration ELSE e.to]

ProvenanceDiagnostic(prov, duration) ==
  IfSo(prov.status = "incomplete",
       [id |-> <<"transport-provenance-incomplete", 0, Null>>, severity |-> "warning", frames |-> {},
        at |-> 0, to |-> duration])

-----------------------------------------------------------------------------
(* parseSession and the projection of an incident *)

NormalizedEvidence(d) ==
  IF d.version = 2 THEN [events |-> d.events, receipt |-> d.receipt]
  ELSE [events |-> <<>>, receipt |-> Unassessed("legacy-v1", "legacy-session-unassessed", d.rows)]

ProvenanceOf(d) == IF d.version = 2 THEN d.prov ELSE NoProvenance

ParseSession(d) ==
  LET frames   == [i \in DOMAIN d.rows |-> Decoded(d.rows[i])]
      evidence == NormalizedEvidence(d)
      buckets  == CreateMetricBuckets(d, frames)
  IN [doc |-> d, frames |-> frames, buckets |-> buckets, events |-> evidence.events, receipt |-> evidence.receipt,
      diagnostics |-> DeriveDiagnostics(frames, buckets)
        \o [i \in DOMAIN evidence.events |-> TransportDiagnostic(evidence.events[i], d.duration)]
        \o ProvenanceDiagnostic(ProvenanceOf(d), d.duration)]

\* A point is in the range; an interval overlaps it.
Intersects(at, to, range) == IF to = Null THEN InRange(at, range) ELSE at < range.to /\ to > range.from

Heard(frames) == Where(frames, LAMBDA f : f.rssi # Null)

\* linkAvailabilityInRange: seconds of the range with an average of -90 dBm or better.
HealthyBuckets(frames, range) ==
  LET heard == Heard(frames)
      In(b) == Where(heard, LAMBDA f : (f.at - range.from) \div Second = b)
      Rssi(f) == f.rssi
  IN Cardinality({b \in {(heard[i].at - range.from) \div Second : i \in DOMAIN heard} :
                    SumOf(In(b), Rssi) >= -90 * Len(In(b))})

ProjectIncident(s, range) ==
  LET frames == RowsInRange(s.frames, range)  heard == Heard(frames) IN
  [received |-> Len(frames), missing |-> MissingFramesInRange(s.frames, range),
   complete |-> Len(Where(frames, LAMBDA f : f.status = "complete")),
   lowest |-> IF heard = <<>> THEN Null ELSE Least({heard[i].rssi : i \in DOMAIN heard}),
   healthy |-> HealthyBuckets(frames, range),
   diagnostics |-> Where(s.diagnostics, LAMBDA e : Intersects(e.at, e.to, range))]

=============================================================================
