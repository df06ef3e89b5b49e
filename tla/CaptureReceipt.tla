--------------------------- MODULE CaptureReceipt ---------------------------
(***************************************************************************)
(* The capture recorder of src/capture/recorder.ts and the validator of    *)
(* src/domain/session.ts it must satisfy, as operators on recorder values: *)
(* what an append keeps, what a transport event may still use of the file  *)
(* budget, the receipt finalize builds, and the conditions under which a   *)
(* document of format version 2 is accepted.                               *)
(*                                                                         *)
(* A record and a transport event each cost one unit of the file budget;   *)
(* ids, messages, endpoints and decoder metadata are left out.  Evidence   *)
(* is always supplied, as both capture transports supply it.               *)
(***************************************************************************)
EXTENDS Integers, Sequences

CONSTANTS
  MaxDuration,    \* maxDurationUs
  MaxRecords,     \* maxRecords
  MaxBytes,       \* maxCapturedBytes
  FileUnits,      \* maxSessionFileBytes, less the envelope and the provenance reserve
  ReceiptReserve, \* CAPTURE_INTEGRITY_RECEIPT_RESERVE_BYTES
  MaxEvents       \* MAX_TRANSPORT_EVENTS

ASSUME LimitsAssumption ==
  /\ MaxDuration \in Nat \ {0} /\ MaxRecords \in Nat /\ MaxBytes \in Nat
  /\ ReceiptReserve \in Nat /\ MaxEvents \in Nat
  /\ FileUnits \in Nat /\ FileUnits > ReceiptReserve

Session == -1   \* the scope of an event that names no offset
Null == -1      \* a counter nobody reported

EventCodes ==   \* TRANSPORT_EVENT_ISSUE_CODES
  {"udp-event-sequence-discontinuity", "udp-counter-mismatch", "udp-kernel-drops-observed",
   "udp-bridge-error", "udp-event-stream-disconnected", "capture-backpressure", "capture-limit",
   "serial-read-error", "serial-disconnected", "serial-tail-recovery-failed",
   "serial-counter-mismatch", "shutdown-unconfirmed"}

\* detail is the limit of a capture-limit, the counters of a mismatch, the drops of a drop event.
Event(type, at, detail) == [type |-> type, at |-> at, detail |-> detail]

NoJournal == [state |-> "none", datagrams |-> 0, tail |-> 0, ended |-> FALSE, drops |-> Null]

Top(S) == CHOOSE x \in S : \A y \in S : y <= x

-----------------------------------------------------------------------------
(* The recorder *)

NewRecorder ==
  [records |-> 0, bytes |-> 0, last |-> -1, events |-> <<>>, complete |-> TRUE, finalized |-> FALSE]

Projected(r) == r.records + Len(r.events) + ReceiptReserve

\* Mutant: the record limit is off by one.
AppendFault_OneMore(r, at, size) ==
  IF r.finalized THEN "stopped"
  ELSE IF at >= MaxDuration THEN "duration"
  ELSE IF at < r.last THEN "order"
  ELSE IF r.records > MaxRecords THEN "records"
  ELSE IF r.bytes + size > MaxBytes THEN "captured-bytes"
  ELSE IF Projected(r) + 1 > FileUnits THEN "session-file-bytes"
  ELSE "none"

\* Why append refuses an input, in the order of its checks.
AppendFault(r, at, size) ==
  IF r.finalized THEN "stopped"
  ELSE IF at >= MaxDuration THEN "duration"
  ELSE IF at < r.last THEN "order"
  ELSE IF r.records >= MaxRecords THEN "records"
  ELSE IF r.bytes + size > MaxBytes THEN "captured-bytes"
  ELSE IF Projected(r) + 1 > FileUnits THEN "session-file-bytes"
  ELSE "none"

Kept(r, at, size) == [r EXCEPT !.records = @ + 1, !.bytes = @ + size, !.last = at]

Fits(r, terminal) ==
  /\ Len(r.events) < MaxEvents
  /\ Projected(r) + 1 <= FileUnits + (IF terminal THEN ReceiptReserve ELSE 0)

AppendEvent(r, e, terminal) ==
  IF Fits(r, terminal) THEN [r EXCEPT !.events = Append(@, e)] ELSE [r EXCEPT !.complete = FALSE]

Has(r, type) == \E i \in DOMAIN r.events : r.events[i].type = type

\* A terminal event is appended once, also when finalize runs again.
Once(r, needed, e) == IF needed /\ ~Has(r, e.type) THEN AppendEvent(r, e, TRUE) ELSE r

-----------------------------------------------------------------------------
(* finalize.  Evidence ev: source, stop, stopOffset, complete, observed and    *)
(* reported (pairs of units and bytes), codes, journal.                        *)

NotReported == <<Null, Null>>
Drops(ev) == ev.journal.drops > 0

\* normalizeFinalizationEvidence
Reported(ev) ==
  IF ev.reported = NotReported /\ ev.journal.state # "none"
  THEN <<ev.journal.datagrams, ev.journal.datagrams>> ELSE ev.reported
DropCodes(ev) == ev.codes \cup (IF Drops(ev) THEN {"udp-kernel-drops-observed"} ELSE {})
WithDrops(r, ev) == Once(r, Drops(ev), Event("udp-kernel-drops-observed", Session, <<ev.journal.drops>>))

Basis(ev) ==
  IF ev.source = "serial" THEN "web-serial-observed"
  ELSE IF Reported(ev) = NotReported THEN "udp-browser-observed"
  ELSE "udp-bridge-reconciled"

StopOf(ev) == IF Basis(ev) = "udp-browser-observed" THEN "unconfirmed" ELSE ev.stop

Reconciled(r, ev) ==
  IF ev.source = "serial" THEN r.bytes = ev.observed[2]
  ELSE ev.observed = Reported(ev) /\ <<r.records, r.bytes>> = ev.observed
Mismatch(r, ev) ==
  /\ ev.source = "serial" \/ Reported(ev) # NotReported
  /\ ~Reconciled(r, ev)
MismatchType(ev) == IF ev.source = "serial" THEN "serial-counter-mismatch" ELSE "udp-counter-mismatch"

\* The terminal events buildCaptureIntegrity adds, in its order.
Closed(r, ev) ==
  LET stopped == Once(WithDrops(r, ev), StopOf(ev) = "unconfirmed",
                      Event("shutdown-unconfirmed", Session, <<>>))
  IN Once(stopped, Mismatch(r, ev),
          Event(MismatchType(ev), Session, <<Reported(ev), ev.observed, <<r.records, r.bytes>>>>))

LogComplete(c, ev) == c.complete /\ ev.complete

Codes(c, ev) ==
  DropCodes(ev) \cup {c.events[i].type : i \in DOMAIN c.events}
    \cup (IF LogComplete(c, ev) THEN {} ELSE {"event-log-incomplete"})
    \cup (IF Mismatch(c, ev) THEN {MismatchType(ev)} ELSE {})
    \cup (IF StopOf(ev) = "unconfirmed" THEN {"shutdown-unconfirmed"} ELSE {})

\* The issues buildTransportProvenance finds in the journal.
ProvenanceCodes(c, ev) ==
  IF ev.source = "serial" THEN {}
  ELSE IF ev.journal.state = "none" THEN {"udp-bridge-journal-unavailable"}
  ELSE (IF ev.journal.state # "clean" THEN {"udp-bridge-journal-incomplete"} ELSE {})
       \cup (IF <<ev.journal.datagrams, ev.journal.datagrams>> = <<c.records, c.bytes>>
                /\ <<ev.journal.datagrams, ev.journal.datagrams>> = Reported(ev)
             THEN {} ELSE {"udp-bridge-journal-counter-mismatch"})
       \cup (IF ev.journal.drops = Null THEN {"udp-kernel-drop-counter-unavailable"} ELSE {})

Incomplete(codes) == codes \ {"udp-kernel-drop-counter-unavailable"} # {}

FinalDuration(r, requested) == Top({1, requested, r.last + 1})

\* The receipt of the closed recorder c, its status before the provenance.
Verified(c, ev) ==
  /\ StopOf(ev) = "confirmed" /\ LogComplete(c, ev)
  /\ Basis(ev) # "udp-browser-observed" /\ Reconciled(c, ev)
  /\ Codes(c, ev) = {}

Document(c, requested, ev) ==
  LET prov == ProvenanceCodes(c, ev)
      fails == Incomplete(prov)
  IN [source   |-> ev.source, duration |-> FinalDuration(c, requested), last |-> c.last,
      records  |-> c.records, bytes |-> c.bytes, events |-> c.events,
      status   |-> IF Verified(c, ev) /\ ~fails THEN "verified" ELSE "incomplete",
      basis    |-> Basis(ev), stop |-> StopOf(ev), stopOffset |-> ev.stopOffset,
      complete |-> LogComplete(c, ev), observed |-> ev.observed, reported |-> Reported(ev),
      codes    |-> Codes(c, ev) \cup (IF fails THEN {"transport-provenance-incomplete"} ELSE {}),
      journal  |-> ev.journal, provStatus |-> IF fails THEN "incomplete" ELSE "verified"]

MayFinalize(r, requested, ev) ==
  /\ ~r.finalized /\ r.records > 0 /\ requested >= r.last
  /\ FinalDuration(r, requested) <= MaxDuration
  /\ 0 <= ev.stopOffset /\ ev.stopOffset <= FinalDuration(r, requested)

-----------------------------------------------------------------------------
(* What validateSessionDocument asks of a live document of version 2 *)

Typed(d, type) == {i \in DOMAIN d.events : d.events[i].type = type}
One(S) == \A i, j \in S : i = j

\* An event about code is there at most once, and exactly once in a complete log.
Represented(d, S) == One(S) /\ (d.complete => S # {})

EventsInTime(d) ==
  \A i \in DOMAIN d.events :
    /\ d.events[i].at < d.duration
    /\ \A j \in DOMAIN d.events :
         (i < j /\ Session \notin {d.events[i].at, d.events[j].at}) => d.events[i].at <= d.events[j].at

EventsAreCoded(d) ==
  /\ \A i \in DOMAIN d.events : d.events[i].type \in d.codes
  /\ d.complete => \A c \in d.codes \cap EventCodes : Typed(d, c) # {}
  /\ d.complete = ("event-log-incomplete" \notin d.codes)

ShutdownAgrees(d) ==
  LET S == Typed(d, "shutdown-unconfirmed") IN
  /\ (d.stop = "unconfirmed") = ("shutdown-unconfirmed" \in d.codes)
  /\ IF d.stop = "unconfirmed" THEN Represented(d, S) ELSE S = {}

DurationAgrees(d) ==
  LET S == {i \in Typed(d, "capture-limit") : d.events[i].detail = <<"duration">>} IN
  IF "duration-capped" \in d.codes THEN Represented(d, S) ELSE S = {}

CountersAgree(d) ==
  LET type == IF d.source = "serial" THEN "serial-counter-mismatch" ELSE "udp-counter-mismatch"
      S == Typed(d, type)
      kept == <<d.records, d.bytes>>
      agree == IF d.source = "serial" THEN d.bytes = d.observed[2]
               ELSE d.observed = d.reported /\ kept = d.observed
  IN /\ \A i \in S : d.events[i].detail = <<d.reported, d.observed, kept>>
     /\ IF d.basis = "udp-browser-observed"
        THEN d.status = "incomplete" /\ d.stop = "unconfirmed" /\ d.reported = NotReported
             /\ type \notin d.codes /\ S = {}
        ELSE IF agree THEN type \notin d.codes /\ S = {}
        ELSE type \in d.codes /\ Represented(d, S)

StatusAgrees(d) ==
  LET clean == d.stop = "confirmed" /\ d.complete /\ d.codes = {} /\ d.events = <<>> IN
  (d.status = "verified") = clean

\* assertUdpJournalStructure: every entry, the last one included, lies within the session.
JournalFits(d) ==
  d.journal.state = "none"
    \/ /\ d.journal.tail <= d.duration
       /\ d.journal.ended => d.journal.tail <= d.stopOffset

DropsAgree(d) ==
  LET S == Typed(d, "udp-kernel-drops-observed") IN
  /\ (d.journal.drops > 0) = ("udp-kernel-drops-observed" \in d.codes)
  /\ IF d.journal.drops > 0
     THEN Represented(d, S) /\ \A i \in S : d.events[i].detail = <<d.journal.drops>>
     ELSE S = {}

Accepted(d) ==
  /\ d.last < d.duration /\ d.stopOffset <= d.duration
  /\ EventsInTime(d) /\ EventsAreCoded(d) /\ ShutdownAgrees(d) /\ DurationAgrees(d)
  /\ CountersAgree(d) /\ StatusAgrees(d) /\ JournalFits(d) /\ DropsAgree(d)
  /\ (d.provStatus = "incomplete") = ("transport-provenance-incomplete" \in d.codes)
  /\ d.records + Len(d.events) <= FileUnits

=============================================================================
