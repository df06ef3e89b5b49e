------------------------------ MODULE MCEvidence ------------------------------
(* The documents, ranges and choices of the instance of EvidenceDesk. *)
EXTENDS EvidenceDesk

Row(i, at, from, drops, seq, check, rssi, basis, field) ==
  [id |-> i, at |-> at, size |-> 1, from |-> from, rssi |-> rssi, basis |-> basis, drops |-> drops,
   seq |-> seq, check |-> check, field |-> field]

Receipt(status, basis, stop, complete, observed, reported, rows, codes) ==
  [status |-> status, basis |-> basis, stop |-> stop, stopOffset |-> 3, complete |-> complete,
   observed |-> observed, reported |-> reported, records |-> Len(rows), bytes |-> Len(rows), codes |-> codes]

Doc(version, source, decoder, rows, events, receipt, prov) ==
  [version |-> version, source |-> source, decoder |-> decoder, duration |-> 4, rows |-> rows,
   events |-> [i \in DOMAIN events |-> [events[i] EXCEPT !.id = i]], receipt |-> receipt, prov |-> prov]

Told(type, at, to, detail) ==
  [id |-> 0, type |-> type, at |-> at, to |-> to, detail |-> detail, severity |-> "critical"]

Journal(state, n, drops) == [state |-> state, datagrams |-> n, tail |-> 3, ended |-> state = "clean", drops |-> drops]

Prov(rows, journal, codes) ==
  [status |-> IF Incomplete(codes) THEN "incomplete" ELSE "verified", codes |-> codes, journal |-> journal,
   attributed |-> Len(Attributed(rows)), unattributed |-> Len(rows) - Len(Attributed(rows)),
   endpoints |-> Endpoints(rows)]

-----------------------------------------------------------------------------
(* UDP sessions of two records: every receipt the recorder could have reached *)

UdpRows == {<<Row(1, 1, a, Null, 1, "valid", -70, "gateway-sidecar", 5),
              Row(2, 2, b, Null, 2, "valid", -70, "gateway-sidecar", 6)>> : a \in {1, Null}, b \in {1, 2, Null}}

Timed == {<<>>, <<Told("udp-bridge-error", 2, Null, <<>>)>>,
          <<Told("udp-event-stream-disconnected", 1, 3, <<>>), Told("capture-limit", 3, Null, <<"duration">>)>>}

Journals == {NoJournal} \cup {Journal(state, n, drops) : state \in {"clean", "active", "incomplete"},
                                                         n \in {2, 3}, drops \in {Null, 0, 1}}

UdpDoc(rows, timed, journal, seen, reported, stop, complete, kept, old) ==
  LET agree == reported = NotReported \/ (seen = reported /\ seen = <<2, 2>>)
      scope == (IF stop = "unconfirmed" THEN <<Told("shutdown-unconfirmed", Session, Null, <<>>)>> ELSE <<>>)
        \o (IF journal.drops > 0 THEN <<Told("udp-kernel-drops-observed", Session, Null, <<journal.drops>>)>> ELSE <<>>)
        \o (IF agree THEN <<>> ELSE <<Told("udp-counter-mismatch", Session, Null, <<reported, seen, <<2, 2>>>>)>>)
      events == timed \o scope
      draft == [rows |-> rows, receipt |-> [bytes |-> 2, reported |-> reported], prov |-> [journal |-> journal]]
      issues == JournalCodes(draft) \cup UnattributedCodes(Len(rows) - Len(Attributed(rows)))
      codes == {events[i].type : i \in DOMAIN events}
        \cup (IF complete THEN {} ELSE {"event-log-incomplete"})
        \cup (IF Len(timed) = 2 THEN {"duration-capped"} ELSE {})
        \cup (IF ~old /\ Incomplete(issues) THEN {"transport-provenance-incomplete"} ELSE {})
  IN Doc(2, "udp", "a", rows, IF kept THEN events ELSE timed,
         Receipt(IF codes = {} /\ stop = "confirmed" THEN "verified" ELSE "incomplete",
                 IF reported = NotReported THEN "udp-browser-observed" ELSE "udp-bridge-reconciled",
                 stop, complete, seen, reported, rows, codes),
         IF old THEN NoProvenance ELSE Prov(rows, journal, issues))

UdpDocuments ==
  {UdpDoc(rows, timed, journal, seen, reported, stop, complete, kept, old) :
     rows \in UdpRows, timed \in Timed, journal \in Journals, seen \in {<<2, 2>>, <<3, 3>>},
     reported \in {NotReported, <<2, 2>>, <<3, 3>>}, stop \in {"confirmed", "unconfirmed"},
     complete \in BOOLEAN, kept \in BOOLEAN, old \in BOOLEAN}
OtherUdpRows == <<Row(1, 1, 1, Null, 1, "valid", -70, "gateway-sidecar", 5),
                  Row(2, 2, 2, Null, 2, "valid", -70, "gateway-sidecar", 6)>>
SoundUdp == UdpDoc(OtherUdpRows, <<>>, Journal("clean", 2, 0), <<2, 2>>, <<2, 2>>, "confirmed", TRUE, TRUE, FALSE)

-----------------------------------------------------------------------------
(* Serial sessions, file sessions and sessions of version 1 *)

PlainRows == <<Row(1, 0, Null, Null, 1, "valid", -70, "decoded-packet", 5),
               Row(2, 3, Null, Null, 4, "valid", -95, "decoded-packet", 7)>>

SerialDoc(timed, seen, stop, complete, kept, prov) ==
  LET scope == (IF stop = "unconfirmed" THEN <<Told("shutdown-unconfirmed", Session, Null, <<>>)>> ELSE <<>>)
        \o (IF seen = 2 THEN <<>>
            ELSE <<Told("serial-counter-mismatch", Session, Null, <<NotReported, <<1, seen>>, <<2, 2>>>>)>>)
      events == timed \o scope
      codes == {events[i].type : i \in DOMAIN events} \cup (IF complete THEN {} ELSE {"event-log-incomplete"})
  IN Doc(2, "serial", "a", PlainRows, IF kept THEN events ELSE timed,
         Receipt(IF codes = {} /\ stop = "confirmed" THEN "verified" ELSE "incomplete",
                 "web-serial-observed", stop, complete, <<1, seen>>, NotReported, PlainRows, codes), prov)

SerialProvs == {NoProvenance} \cup {[NoProvenance EXCEPT !.status = "verified", !.codes = codes] :
                                      codes \in {{}, {"serial-device-identifiers-unavailable"}}}

SerialTimed == {<<>>, <<Told("serial-read-error", 1, Null, <<>>), Told("serial-disconnected", 3, Null, <<>>)>>}

SerialDocuments ==
  {SerialDoc(timed, seen, stop, complete, kept, prov) :
     timed \in SerialTimed, seen \in {2, 3}, stop \in {"confirmed", "unconfirmed"},
     complete \in BOOLEAN, kept \in BOOLEAN, prov \in SerialProvs}

FileDoc == Doc(2, "file", "a", PlainRows, <<>>, Unassessed("file-source-unassessed", "file-source-unassessed", PlainRows),
               NoProvenance)
Legacy(source, decoder, rows) ==
  Doc(1, source, decoder, rows, <<>>, Unassessed("legacy-v1", "legacy-session-unassessed", rows), NoProvenance)

\* A capture that lost its adapter: the recorder alone is left.
RecorderOnlyDoc ==
  LET codes == {"shutdown-unconfirmed", "event-log-incomplete"} IN
  Doc(2, "serial", "a", PlainRows, <<Told("shutdown-unconfirmed", Session, Null, <<>>)>>,
      Receipt("incomplete", "recorder-only", "unconfirmed", FALSE, NotReported, NotReported, PlainRows, codes), NoProvenance)

-----------------------------------------------------------------------------
(* Sessions of which the records matter: sequence numbers and drop counters, RSSI and integrity *)

Sound(decoder, rows) ==
  LET n == Len(rows) IN
  Doc(2, "udp", decoder, rows, <<>>,
      Receipt("verified", "udp-bridge-reconciled", "confirmed", TRUE, <<n, n>>, <<n, n>>, rows, {}),
      Prov(rows, Journal("clean", n, 0), {}))

\* Losses: the sequence wraps at SeqModulus, the counter may be absent or begin again.
Losses == {<<1, "valid">>, <<2, "valid">>, <<4, "valid">>, <<SeqModulus - 1, "valid">>, <<Null, "crc-failed">>}
LossRows(times, kinds, drops) ==
  [i \in 1..4 |-> Row(i, times[i], 1, drops[i], kinds[i][1], kinds[i][2], IF i = 2 THEN -95 ELSE -85, "gateway-sidecar", 5)]
Times == {<<0, 1, 2, 3>>, <<0, 0, 2, 2>>}
LossDocuments ==
  {Sound("a", LossRows(times, kinds, <<1, Null, 3, 1>>)) : times \in Times, kinds \in [1..4 -> Losses]}
  \cup {Sound("a", LossRows(times, <<<<1, "valid">>, <<Null, "crc-failed">>, <<4, "valid">>, <<4, "valid">>>>, drops)) :
           times \in Times, drops \in [1..4 -> {Null, 1, 3, 4}]}

\* Diagnostics: a link that degrades and recovers, a decoder that loses its boundary and locks again.
Kinds == {<<-70, "valid">>, <<-95, "valid">>, <<-70, "crc-failed">>, <<-95, "truncated">>}
KindRows == {[i \in 1..4 |-> Row(i, i - 1, 1, Null, IF kinds[i][2] = "valid" THEN 3 * i ELSE Null, kinds[i][2],
                                 kinds[i][1], "gateway-sidecar", IF kinds[i][2] = "valid" THEN i ELSE Null)] :
               kinds \in [1..4 -> Kinds]}
KindDocuments == {Sound("a", rows) : rows \in KindRows}

-----------------------------------------------------------------------------
(* The instance *)

AllRanges == {[from |-> a, to |-> b] : a \in 0..3, b \in 1..4}
SomeRanges == {[from |-> 0, to |-> 4], [from |-> 0, to |-> 2], [from |-> 1, to |-> 3], [from |-> 2, to |-> 3]}
PlainDocuments == {FileDoc, RecorderOnlyDoc} \cup SerialDocuments
                  \cup {Legacy(source, "a", PlainRows) : source \in {"udp", "serial", "file"}}

OtherRows == <<Row(1, 0, 1, Null, 1, "valid", -80, "gateway-sidecar", 4),
               Row(2, 1, 1, Null, Null, "crc-failed", -80, "gateway-sidecar", Null),
               Row(3, 2, 2, Null, 3, "valid", -70, "gateway-sidecar", 4)>>
MixedRows == <<Row(1, 1, 1, Null, 1, "valid", -60, "decoded-packet", Null),
               Row(2, 2, 1, Null, 2, "valid", -60, "decoded-packet", Null)>>
LossyUdp == UdpDoc(OtherUdpRows, <<>>, Journal("clean", 2, 1), <<2, 2>>, <<2, 2>>, "confirmed", TRUE, TRUE, FALSE)
SoundSerial == SerialDoc(<<>>, 2, "confirmed", TRUE, TRUE, [NoProvenance EXCEPT !.status = "verified"])
PairedDocuments ==
  {Sound("a", OtherRows), Sound("a", MixedRows), Sound("b", MixedRows), Legacy("udp", "a", OtherRows),
   SoundUdp, LossyUdp, SoundSerial}

MCSeries == {"udp", "plain", "kinds", "losses", "paired"}
MCPairs == {"paired"}
MCDocuments == [name \in MCSeries |->
  CASE name = "udp" -> UdpDocuments [] name = "plain" -> PlainDocuments [] name = "kinds" -> KindDocuments
    [] name = "losses" -> LossDocuments [] OTHER -> PairedDocuments]
MCRanges == [name \in MCSeries |->
  CASE name = "udp" -> SomeRanges [] name = "losses" -> {}
    [] name = "paired" -> {[from |-> 0, to |-> 4], [from |-> 1, to |-> 3]} [] OTHER -> AllRanges]
MCInclusions == [name \in MCSeries |->
  CASE name = "udp" -> {Groups} [] name = "plain" -> {Groups, {}, {"raw"}} [] name = "losses" -> {}
    [] name = "kinds" -> {Groups, {"decoded", "diagnostics"}}
    [] OTHER -> {Groups, {"decoded"}, {"raw", "diagnostics"}}]
MCMarks == [markers |-> <<[id |-> 1, at |-> 2], [id |-> 2, at |-> 0]>>,
            notes |-> <<[id |-> 1, at |-> 3], [id |-> 2, at |-> Null]>>]
MCAlignments == {[mode |-> "range-start", anchors |-> <<0, 0>>]} \cup
                {[mode |-> "shared-event", anchors |-> anchors] : anchors \in {<<1, 1>>, <<2, 1>>, <<0, 3>>}}

=============================================================================
