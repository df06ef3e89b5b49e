---------------------------- MODULE EvidenceBundle ----------------------------
(***************************************************************************)
(* buildEvidenceBundle of src/domain/bundle.ts: the artifacts an evidence  *)
(* bundle takes from a parsed session, the selected range and the chosen   *)
(* groups of artifacts, and the manifest that declares them.               *)
(*                                                                         *)
(* A bundle is the record of its parsed artifacts.  Bytes, checksums, CSV  *)
(* and the limits on sizes are left out; markers and notes are their       *)
(* offsets with their ids, Null for a note about the whole range.          *)
(***************************************************************************)
EXTENDS SessionDocument

Mandatory == {"transport/events.json", "transport/integrity-receipt.json",
              "transport/journal.json", "transport/provenance.json"}

Groups == {"raw", "decoded", "diagnostics", "markers", "notes", "schema"}

\* OPTIONAL_EVIDENCE_ARTIFACT_GROUPS
PathsOf ==
  [raw |-> {"raw/source-records.ndjson"}, decoded |-> {"decoded/packets.csv"},
   diagnostics |-> {"diagnostics/diagnostics.csv", "diagnostics/diagnostics.json"},
   markers |-> {"markers/markers.json"}, notes |-> {"notes/notes.json"}, schema |-> {"schema/schema.json"}]

ArtifactPaths(include) == Mandatory \cup UNION {PathsOf[g] : g \in include}

-----------------------------------------------------------------------------
(* What of a session lies in a range *)

\* Mutant: the record at the end of the range is taken, too.
RecordsForRange_Closed(rows, range) == Where(rows, LAMBDA r : range.from <= r.at /\ r.at <= range.to)

RecordsForRange(rows, range) == Where(rows, LAMBDA r : InRange(r.at, range))

FramesForRange(frames, range) == Where(frames, LAMBDA f : InRange(f.at, range))

\* Mutant: an event of the whole session is taken for one at its start.
TransportEventsForRange_Timed(events, range) ==
  Where(events, LAMBDA e : Intersects(IF e.at = Session THEN 0 ELSE e.at, e.to, range))

TransportEventsForRange(events, range) ==
  Where(events, LAMBDA e : e.at = Session \/ Intersects(e.at, e.to, range))

\* A diagnostic keeps of its frames those that are selected.
DiagnosticsForRange(diagnostics, frames, range) ==
  LET selected == {frames[i].id : i \in DOMAIN frames}
      kept == Where(diagnostics, LAMBDA e : Intersects(e.at, e.to, range))
  IN [i \in DOMAIN kept |-> [kept[i] EXCEPT !.frames = @ \cap selected]]

\* compareOffsetAndId
Before(a, b) == a.at < b.at \/ (a.at = b.at /\ a.id < b.id)
Inserted(list, m) == Where(list, LAMBDA x : Before(x, m)) \o <<m>> \o Where(list, LAMBDA x : ~Before(x, m))
ByOffset(marks) == Steps(Inserted, <<>>, marks)
MarkersForRange(markers, range) == ByOffset(Where(markers, LAMBDA m : InRange(m.at, range)))
NotesForRange(notes, range) == ByOffset(Where(notes, LAMBDA n : n.at = Null \/ InRange(n.at, range)))

-----------------------------------------------------------------------------
(* transportEvidenceDocuments: provenance, journal and the manifest's summary *)

ProvenanceReason(d) ==
  IF d.version = 1 THEN "legacy-v1" ELSE IF d.prov = NoProvenance THEN "pre-provenance-v2" ELSE "available"

JournalReason(d) ==
  IF ProvenanceReason(d) # "available" THEN ProvenanceReason(d)
  ELSE IF d.source = "serial" THEN "not-applicable"
  ELSE IF d.prov.journal.state = "none" THEN "journal-unavailable" ELSE "available"

ProvenanceDocument(d) == [reason |-> ProvenanceReason(d), version |-> d.version, source |-> d.source,
                          prov |-> ProvenanceOf(d)]
JournalDocument(d) == [reason |-> JournalReason(d), version |-> d.version, source |-> d.source,
                       journal |-> ProvenanceOf(d).journal]

NoAttribution == <<>>
Attribution(p) == <<p.attributed + p.unattributed, p.attributed, p.unattributed, Cardinality(p.endpoints)>>

ProvenanceSummary(d) ==
  LET p == ProvenanceOf(d) IN
  [reason |-> ProvenanceReason(d), status |-> p.status, codes |-> p.codes,
   attribution |-> IF ProvenanceReason(d) = "available" /\ d.source = "udp" THEN Attribution(p) ELSE NoAttribution,
   journal |-> [reason |-> JournalReason(d), state |-> p.journal.state]]

\* schemaArtifact
SchemaArtifact(s) == [decoder |-> s.doc.decoder, version |-> s.doc.version]

-----------------------------------------------------------------------------
(* assertRange and buildEvidenceBundle *)

RangeFits(s, range) == 0 <= range.from /\ range.from < range.to /\ range.to <= s.doc.duration

Counts(events, s, records, frames, diagnostics, markers, notes) ==
  [path \in ArtifactPaths(Groups) |->
     CASE path = "transport/events.json"     -> Len(events)
       [] path = "transport/journal.json"    -> IF JournalReason(s.doc) = "available" THEN 1 ELSE 0
       [] path = "raw/source-records.ndjson" -> Len(records)
       [] path = "decoded/packets.csv"       -> Len(frames)
       [] path \in PathsOf.diagnostics       -> Len(diagnostics)
       [] path = "markers/markers.json"      -> Len(markers)
       [] path = "notes/notes.json"          -> Len(notes)
       [] OTHER                              -> 1]

BuildEvidenceBundle(s, range, include, marks, remarks) ==
  LET records     == RecordsForRange(s.doc.rows, range)
      frames      == FramesForRange(s.frames, range)
      diagnostics == DiagnosticsForRange(s.diagnostics, frames, range)
      events      == TransportEventsForRange(s.events, range)
      markers     == MarkersForRange(marks, range)
      notes       == NotesForRange(remarks, range)
      counts      == Counts(events, s, records, frames, diagnostics, markers, notes)
      If(group, content) == IF group \in include THEN content ELSE <<>>
  IN [session   |-> [version |-> s.doc.version, source |-> s.doc.source, duration |-> s.doc.duration,
                     decoder |-> s.doc.decoder, receipt |-> s.receipt],
      prov      |-> ProvenanceSummary(s.doc), selection |-> range, include |-> include,
      counts    |-> [path \in ArtifactPaths(include) |-> counts[path]],
      events    |-> [range |-> range, list |-> events], receipt |-> s.receipt,
      provDoc   |-> ProvenanceDocument(s.doc), journalDoc |-> JournalDocument(s.doc),
      raw       |-> If("raw", records), packets |-> If("decoded", frames),
      diagnostics |-> [range |-> range, list |-> If("diagnostics", diagnostics)],
      markers   |-> [range |-> range, list |-> If("markers", markers)],
      notes     |-> [range |-> range, list |-> If("notes", notes)],
      schema    |-> SchemaArtifact(s)]

=============================================================================
