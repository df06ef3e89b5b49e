--------------------------- MODULE EvidenceVerifier ---------------------------
(***************************************************************************)
(* verifyEvidenceBundleBytes of verifier/evidence-verifier.ts on a bundle: *)
(* the conditions each artifact must meet by itself, against the manifest  *)
(* and against the others, and the receiver document of                    *)
(* src/receiver/receiver-document.ts made of a bundle that meets them.     *)
(*                                                                         *)
(* The verifier does not see the session: all it knows of what was left    *)
(* out of the range is the receipt and the provenance.  Parsing, byte      *)
(* counts and checksums are left out.                                      *)
(***************************************************************************)
EXTENDS EvidenceBundle

InSelection(b, at) == b.selection.from <= at /\ at < b.selection.to

AreDistinct(seq) == \A i, j \in DOMAIN seq : seq[i].id = seq[j].id => i = j
Raw(b) == "raw" \in b.include
Counted(b, path, n) == path \in DOMAIN b.counts /\ b.counts[path] = n

-----------------------------------------------------------------------------
(* The artifacts one by one *)

\* verifyArtifactContract
ContractHolds(b) ==
  /\ b.selection.to > b.selection.from /\ b.selection.to <= b.session.duration
  /\ DOMAIN b.counts = ArtifactPaths(b.include)

IntersectsSelection(b, e) ==
  CASE e.at = Session -> TRUE
    [] e.at # Session /\ e.to = Null -> InSelection(b, e.at)
    [] OTHER -> e.at < b.selection.to /\ e.to > b.selection.from

EventsHold(b) ==
  LET list == b.events.list  Timed(i) == list[i].at # Session IN
  /\ b.events.range = b.selection /\ Counted(b, "transport/events.json", Len(list)) /\ AreDistinct(list)
  /\ \A i \in DOMAIN list :
       /\ list[i].to # Null => list[i].at < list[i].to /\ list[i].to <= b.session.duration
       /\ list[i].at < b.session.duration /\ IntersectsSelection(b, list[i])
       /\ \A j \in 1..i - 1 :
            list[j].id < list[i].id /\ (Timed(i) /\ Timed(j) => list[j].at <= list[i].at)

\* parseRawRecords
RawHolds(b) ==
  /\ Raw(b) => Counted(b, "raw/source-records.ndjson", Len(b.raw))
  /\ AreDistinct(b.raw)
  /\ \A i \in DOMAIN b.raw :
       /\ InSelection(b, b.raw[i].at)
       /\ i > 1 => \/ b.raw[i].at > b.raw[i - 1].at
                   \/ b.raw[i].at = b.raw[i - 1].at /\ b.raw[i].id > b.raw[i - 1].id

\* verifyDecodedCsv: with raw records, each decodes to its row and no row is missing.
DecodedHolds(b) ==
  "decoded" \in b.include =>
    /\ Counted(b, "decoded/packets.csv", Len(b.packets)) /\ AreDistinct(b.packets)
    /\ \A i \in DOMAIN b.packets :
         /\ InSelection(b, b.packets[i].at) /\ b.packets[i].status = StatusOf(b.packets[i].check)
         /\ i > 1 => b.packets[i].id > b.packets[i - 1].id /\ b.packets[i].at >= b.packets[i - 1].at
         /\ Raw(b) => \E j \in DOMAIN b.raw : b.packets[i] = Decoded(b.raw[j])
    /\ Raw(b) => Len(b.packets) = Len(b.raw)

DiagnosticsHold(b) ==
  LET list == b.diagnostics.list  frames == {b.packets[i].id : i \in DOMAIN b.packets} IN
  "diagnostics" \in b.include =>
    /\ b.diagnostics.range = b.selection /\ AreDistinct(list)
    /\ \A path \in PathsOf.diagnostics : Counted(b, path, Len(list))
    /\ \A i \in DOMAIN list : LET e == list[i] IN
         /\ e.at < b.session.duration /\ e.to <= b.session.duration
         /\ IF e.to = Null THEN InSelection(b, e.at)
            ELSE e.at < b.selection.to /\ e.to > b.selection.from /\ e.to > e.at
         /\ "decoded" \in b.include => e.frames \subseteq frames

\* verifyMarkers and verifyNotes; a note about the whole range comes first.
MarksHold(b, group, path, document) ==
  group \in b.include =>
    /\ document.range = b.selection /\ AreDistinct(document.list) /\ Counted(b, path, Len(document.list))
    /\ \A i \in DOMAIN document.list : LET m == document.list[i] IN
         /\ (group = "notes" /\ m.at = Null) \/ InSelection(b, m.at)
         /\ i > 1 => document.list[i - 1].at <= m.at

SchemaHolds(b) ==
  "schema" \in b.include =>
    Counted(b, "schema/schema.json", 1)
    /\ b.schema = [decoder |-> b.session.decoder, version |-> b.session.version]

-----------------------------------------------------------------------------
(* verifyCaptureReceipt *)

OfType(b, type) == {i \in DOMAIN b.events.list : b.events.list[i].type = type}

\* Totals of the selected records never exceed those of the session, and equal them when all are there.
TotalsHold(b) ==
  LET r == b.receipt IN
  /\ Len(b.raw) <= r.records /\ Total(b.raw) <= r.bytes
  /\ Raw(b) /\ Len(b.raw) = r.records => Total(b.raw) = r.bytes

\* Mutant: what makes a receipt incomplete must be an event of the range.
StatusHolds_Coded(b) ==
  LET r == b.receipt IN
  CASE r.status = "verified"   -> r.stop = "confirmed" /\ r.complete /\ r.codes = {} /\ b.events.list = <<>>
    [] r.status = "incomplete" -> b.events.list # <<>>
    [] OTHER                   -> b.session.version = 1 \/ r.basis = "file-source-unassessed"

StatusHolds(b) ==
  LET r == b.receipt IN
  CASE r.status = "verified"   -> r.stop = "confirmed" /\ r.complete /\ r.codes = {} /\ b.events.list = <<>>
    [] r.status = "incomplete" -> r.codes # {} \/ b.events.list # <<>> \/ ~r.complete \/ r.stop # "confirmed"
    [] OTHER                   -> b.session.version = 1 \/ r.basis = "file-source-unassessed"

IsUnassessed(r, basis, code) ==
  /\ r.basis = basis /\ r.status = "unknown" /\ r.stop = "not-observed" /\ ~r.complete
  /\ r.observed = NotReported /\ r.reported = NotReported /\ r.codes = {code}

Mismatched(b, agree) ==
  LET type == MismatchCode(b.session.source)  S == OfType(b, type) IN
  /\ (type \in b.receipt.codes) = ~agree
  /\ IF agree THEN S = {} ELSE Cardinality(S) <= 1 /\ (b.receipt.complete => Cardinality(S) = 1)

Unobserved(b) ==
  LET r == b.receipt IN
  /\ r.basis = "recorder-only" /\ r.status = "incomplete" /\ r.stop = "unconfirmed" /\ ~r.complete
  /\ r.observed = NotReported /\ r.reported = NotReported /\ Mismatched(b, TRUE)

UdpReceiptHolds(b) ==
  LET r == b.receipt IN
  /\ r.codes \subseteq IssueCodes("udp")
  /\ CASE r.basis = "udp-bridge-reconciled" ->
            /\ Null \notin {r.observed[1], r.observed[2], r.reported[1], r.reported[2]}
            /\ Mismatched(b, r.observed = r.reported /\ <<r.records, r.bytes>> = r.observed)
       [] r.basis = "udp-browser-observed" ->
            /\ r.status = "incomplete" /\ r.stop = "unconfirmed" /\ r.reported = NotReported
            /\ Null \notin {r.observed[1], r.observed[2]} /\ Mismatched(b, TRUE)
       [] OTHER -> Unobserved(b)

SerialReceiptHolds(b) ==
  LET r == b.receipt IN
  /\ r.codes \subseteq IssueCodes("serial")
  /\ IF r.basis = "web-serial-observed"
     THEN /\ Null \notin {r.observed[1], r.observed[2]} /\ r.reported = NotReported
          /\ Mismatched(b, r.bytes = r.observed[2])
     ELSE Unobserved(b)

BasisHolds(b) ==
  CASE b.session.version = 1 -> IsUnassessed(b.receipt, "legacy-v1", "legacy-session-unassessed")
    [] b.session.version # 1 /\ b.session.source = "udp" -> UdpReceiptHolds(b)
    [] b.session.version # 1 /\ b.session.source = "serial" -> SerialReceiptHolds(b)
    [] OTHER -> IsUnassessed(b.receipt, "file-source-unassessed", "file-source-unassessed")

\* The included events against the receipt of the whole session.
ReceiptEventsHold(b) ==
  LET r == b.receipt
      shutdown == Cardinality(OfType(b, "shutdown-unconfirmed"))
      limits == {i \in OfType(b, "capture-limit") : b.events.list[i].detail = <<"duration">>}
  IN /\ shutdown <= 1 /\ (r.stop = "unconfirmed" \/ shutdown = 0)
     /\ r.complete /\ r.stop = "unconfirmed" => shutdown = 1
     /\ Cardinality(limits) <= 1 /\ (limits # {} => "duration-capped" \in r.codes)
     /\ \A i \in DOMAIN b.events.list : b.events.list[i].type \in r.codes
     /\ \A i \in OfType(b, MismatchCode(b.session.source)) :
          b.events.list[i].detail = <<r.reported, r.observed, <<r.records, r.bytes>>>>
     /\ r.complete => \A type \in {"udp-counter-mismatch", "udp-kernel-drops-observed", "serial-counter-mismatch"} :
          type \in r.codes => Cardinality(OfType(b, type)) = 1

ReceiptHolds(b) ==
  LET r == b.receipt IN
  /\ b.session.version = 2 /\ r.basis # "file-source-unassessed" =>
       r.complete = ("event-log-incomplete" \notin r.codes)
  /\ (r.stop = "unconfirmed") = ("shutdown-unconfirmed" \in r.codes)
  /\ (r.stop = "not-observed") = (r.stopOffset = Null) /\ r.stopOffset <= b.session.duration
  /\ Counted(b, "transport/integrity-receipt.json", 1)
  /\ TotalsHold(b) /\ StatusHolds(b) /\ BasisHolds(b) /\ ReceiptEventsHold(b)

-----------------------------------------------------------------------------
(* verifyTransportEvidence and verifyUdpJournal *)

UdpJournalHolds(b, j) ==
  /\ j.state = "clean" => j.ended
  /\ j.state = "active" => ~j.ended
  /\ j.tail <= b.session.duration
  /\ j.ended => b.receipt.stopOffset = Null \/ j.tail <= b.receipt.stopOffset

DropEvidenceHolds(b, drops) ==
  LET S == OfType(b, "udp-kernel-drops-observed") IN
  /\ ("udp-kernel-drops-observed" \in b.receipt.codes) = (drops > 0)
  /\ IF drops > 0 THEN Cardinality(S) <= 1 /\ (b.receipt.complete => Cardinality(S) = 1) ELSE S = {}
  /\ \A i \in S : b.events.list[i].detail = <<drops>>

\* Mutant: a range of as many records as the session has is taken for the whole session.
EndpointsHold_AnyStart(b, p) ==
  LET known == Len(Attributed(b.raw)) IN
  /\ p.attributed + p.unattributed = b.receipt.records
  /\ Endpoints(b.raw) \subseteq p.endpoints
  /\ Raw(b) => known = p.attributed /\ Len(b.raw) - known = p.unattributed

\* The endpoints of the selected records, as far as the totals of the session tell.
EndpointsHold(b, p) ==
  LET known == Len(Attributed(b.raw))  others == Len(b.raw) - known IN
  /\ p.attributed + p.unattributed = b.receipt.records
  /\ Endpoints(b.raw) \subseteq p.endpoints
  /\ Raw(b) => IF Len(b.raw) = b.receipt.records /\ b.selection.from = 0
               THEN known = p.attributed /\ others = p.unattributed
               ELSE known <= p.attributed /\ others <= p.unattributed

ExpectedCodes(b, p) ==
  LET j == p.journal  r == b.receipt IN
  (IF j.state = "none" THEN {"udp-bridge-journal-unavailable"} ELSE {})
  \cup (IF j.state \notin {"none", "clean"} THEN {"udp-bridge-journal-incomplete"} ELSE {})
  \cup (IF j.state # "none" /\ {r.records, r.bytes, r.reported[1], r.reported[2]} # {j.datagrams}
        THEN {"udp-bridge-journal-counter-mismatch"} ELSE {})
  \cup (IF p.unattributed > 0 THEN {"udp-endpoint-attribution-incomplete"} ELSE {})
  \cup (IF j.state # "none" /\ j.drops = Null THEN {"udp-kernel-drop-counter-unavailable"} ELSE {})

UnavailableHolds(b) ==
  LET reason == IF b.session.version = 1 THEN "legacy-v1" ELSE "pre-provenance-v2" IN
  /\ b.provDoc.reason = reason /\ b.journalDoc.reason = reason /\ b.prov.reason = reason
  /\ b.prov.status = "unknown" /\ b.prov.codes = {} /\ b.prov.attribution = NoAttribution
  /\ "transport-provenance-incomplete" \notin b.receipt.codes

SerialProvenanceHolds(b, p) ==
  /\ p.status = "verified" /\ p.codes \subseteq {"serial-device-identifiers-unavailable"}
  /\ b.journalDoc.reason = "not-applicable" /\ b.prov.attribution = NoAttribution

UdpProvenanceHolds(b, p) ==
  LET j == p.journal  expected == ExpectedCodes(b, p) IN
  /\ EndpointsHold(b, p) /\ b.prov.attribution = Attribution(p)
  /\ p.codes = expected
  /\ (p.status = "incomplete") = (expected \ {"udp-kernel-drop-counter-unavailable"} # {})
  /\ IF j.state = "none" THEN b.journalDoc.reason = "journal-unavailable"
     ELSE /\ DropEvidenceHolds(b, IF j.drops = Null THEN 0 ELSE j.drops)
          /\ b.journalDoc.reason = "available" /\ b.journalDoc.journal = j /\ UdpJournalHolds(b, j)

TransportHolds(b) ==
  LET p == b.provDoc.prov IN
  /\ b.receipt = b.session.receipt
  /\ {b.provDoc.version, b.journalDoc.version} = {b.session.version}
  /\ {b.provDoc.source, b.journalDoc.source} = {b.session.source}
  /\ b.prov.journal = [reason |-> b.journalDoc.reason, state |-> b.journalDoc.journal.state]
  /\ Counted(b, "transport/provenance.json", 1)
  /\ Counted(b, "transport/journal.json", IF b.journalDoc.reason = "available" THEN 1 ELSE 0)
  /\ IF b.provDoc.reason # "available" THEN UnavailableHolds(b)
     ELSE /\ b.session.version = 2 /\ b.prov.reason = "available"
          /\ b.prov.status = p.status /\ b.prov.codes = p.codes
          /\ ("transport-provenance-incomplete" \in b.receipt.codes) = (p.status = "incomplete")
          /\ IF b.session.source = "serial" THEN SerialProvenanceHolds(b, p) ELSE UdpProvenanceHolds(b, p)

-----------------------------------------------------------------------------
(* The verdict and the document of the receiver *)

Verifies(b) ==
  /\ ContractHolds(b) /\ EventsHold(b) /\ SchemaHolds(b) /\ RawHolds(b) /\ ReceiptHolds(b) /\ DecodedHolds(b)
  /\ DiagnosticsHold(b) /\ MarksHold(b, "markers", "markers/markers.json", b.markers)
  /\ MarksHold(b, "notes", "notes/notes.json", b.notes) /\ TransportHolds(b)

\* Mutant: what is not verified is incomplete.
EvidenceVerdict_Known(capture, provenance) ==
  IF capture = "verified" /\ provenance # "incomplete" THEN "verified" ELSE "incomplete"

EvidenceVerdict(capture, provenance) ==
  CASE "unknown" \in {capture, provenance}    -> "unknown"
    [] {capture, provenance} = {"verified"}   -> "verified"
    [] OTHER                                  -> "incomplete"

\* buildReceiverDocument; a bundle is its content, so the bundle is its own hash.
ReceiverDocument(b) ==
  [bundle |-> b, session |-> b.session, incident |-> b.selection,
   completeness |-> EvidenceVerdict(b.receipt.status, b.prov.status),
   available |-> b.include, records |-> b.raw, packets |-> b.packets,
   diagnostics |-> b.diagnostics.list, receipt |-> b.receipt]

=============================================================================
