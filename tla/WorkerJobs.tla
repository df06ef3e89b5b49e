----------------------------- MODULE WorkerJobs -----------------------------
(***************************************************************************)
(* One job the page gives to a worker, from the call to its answer:        *)
(* reading and deriving a replay (src/src/processing/process-session.ts),  *)
(* building an evidence bundle (evidence-bundle-processing.ts), comparing  *)
(* two sources (comparison-processing.ts), verifying or building a case    *)
(* (src/src/cases/case-processing.ts) and verifying a received bundle      *)
(* (src/src/receiver/load-evidence-bundle.ts).                             *)
(*                                                                         *)
(* The page and the worker share nothing but messages, delivered in the    *)
(* order they were posted.  A worker posts what it finds out between two   *)
(* awaits in one action; the page takes one message per action, and may    *)
(* still be given messages of a worker it has terminated.  Without workers *)
(* the page reads and derives a replay itself.  A percentage is rounded    *)
(* down; a record, a frame or a row of evidence is its position.           *)
(***************************************************************************)
EXTENDS Integers, Sequences, SequencesExt

CONSTANTS
  MaxRecords,   \* records of a replay
  ChunkRecords, \* RESULT_CHUNK_RECORDS, and the 1,000 rows of a chunk of a case
  ReportEvery,  \* every how many records a derivation reports (2,048)
  MaxBundles,   \* CASE_LIMITS.bundles
  Hashes,       \* identities of the bundles of cases
  Keys,         \* CASE_ARRAY_KEYS, in their order
  MaxFaults     \* a bound of the model

ASSUME JobsAssumption ==
  /\ {MaxRecords, ChunkRecords, ReportEvery, MaxBundles} \subseteq Nat \ {0} /\ MaxFaults \in Nat
  /\ Keys \in Seq(STRING) /\ IsInjective(Keys)

VARIABLES
  job,     \* the page's side: the call's closure, and what became of its promise
  worker,  \* what the worker (or the page in its place) is doing
  box,     \* messages posted and not yet delivered
  faults   \* faults so far

vars == <<job, worker, box, faults>>

-----------------------------------------------------------------------------
(* What the jobs are given *)

\* size and length: the bytes a file says it has and those its stream yields, in chunks; a file
\* whose stream ends early or late has changed.  Its text is told apart only where it is parsed.
Replays ==
  {r \in [size : 1..2, length : 0..3, n : 0..MaxRecords,
          text : {"unreadable", "invalid", "undecodable", "rewritten", "canonical"},
          same : BOOLEAN, buildable : BOOLEAN] :
     /\ r.text \notin {"rewritten", "canonical"} \/ ~r.same \/ ~r.buildable => r.n = 1
     /\ r.length # r.size => r.text = "canonical" /\ r.n = 1}

Files == [status : {"empty", "large", "unreadable", "changed", "whole"}, good : BOOLEAN]

\* stored: the archive is the one whose hash is expected; added: the files a build is given; every
\* kind of evidence has the same number of rows, or none.
Cases ==
  {c \in [build : BOOLEAN, stored : BOOLEAN, fault : {"none", "preflight", "bundle", "content"},
          bundles : {s \in UNION {[1..k -> Hashes] : k \in 0..2} : IsInjective(s)},
          added : UNION {[1..k -> Hashes] : k \in 0..2}, rows : [Range(Keys) -> {0, MaxRecords}]] :
     /\ IF c.build THEN c.stored ELSE c.added = <<>>
     /\ c.fault # "none" => \A k \in Range(Keys) : c.rows[k] = 0}

-----------------------------------------------------------------------------
(* Progress (src/src/processing/contracts.ts) *)

Weight == [reading |-> <<0, 20>>, parsing |-> <<20, 32>>, validating |-> <<32, 50>>,
           decoding |-> <<50, 72>>, aggregating |-> <<72, 82>>, canonicalizing |-> <<82, 90>>,
           transferring |-> <<90, 100>>]

Percent(phase, done, total) ==
  LET w == Weight[phase] IN
  IF total = 0 THEN w[1] ELSE w[1] + ((w[2] - w[1]) * done) \div total

Progress(p) == [type |-> "progress", percent |-> p]
Reports(phase, ks, total) == [i \in DOMAIN ks |-> Percent(phase, ks[i], total)]
Upto(n) == [i \in 1..(n + 1) |-> i - 1]
Least(a, b) == IF a < b THEN a ELSE b
\* The numbers up to n that are a multiple of k, or n itself.
Multiples(n, k) == [i \in 1..((n + k - 1) \div k + 1) |-> Least(n, (i - 1) * k)]

\* reportDerivationProgress, for every record
Derived(phase, n) == Reports(phase, Multiples(n, ReportEvery), n)

-----------------------------------------------------------------------------
(* The workers *)

\* processSessionBlobCore after its last read: what it reports, and how it ends.
CoreEnd(r) ==
  IF r.length # r.size THEN "io-error"
  ELSE CASE r.text = "unreadable" -> "invalid-json"
         [] r.text = "invalid" -> "validation-failed"
         [] r.text = "undecodable" -> "processing-failed"
         [] OTHER -> "ok"

CorePercents(r) ==
  LET read == <<Percent("reading", r.size, r.size), Percent("parsing", 0, 1)>>
      parsed == <<Percent("parsing", 1, 1), Percent("validating", 0, 1)>>
      valid == Tail(Derived("validating", r.n)) \o <<Percent("validating", r.n, r.n)>>
               \o <<Percent("decoding", 0, r.n)>>
      derived == Tail(Derived("decoding", r.n)) \o Reports("aggregating", Upto(4), 4)
                 \o Reports("canonicalizing", Upto(3), 3)
  IN CASE CoreEnd(r) = "io-error" -> <<>>
       [] CoreEnd(r) = "invalid-json" -> read
       [] CoreEnd(r) = "validation-failed" -> read \o parsed
       [] CoreEnd(r) = "processing-failed" -> read \o parsed \o valid
       [] OTHER -> read \o parsed \o valid \o derived

\* Mutant: the artifact is the source as it was chosen.
ArtifactText_Source(r) == r.text

\* sourceWasCanonical decides which blob is the artifact that later jobs read.
ArtifactText(r) == IF r.text = "canonical" THEN r.text ELSE "canonical"

Failure(code) == [type |-> "error", code |-> code]
Chunk(start, end, n) == [type |-> "chunk", start |-> start, end |-> end, total |-> n,
                         rows |-> [i \in 1..(end - start) |-> start + i]]

Chunks(n) == [i \in 1..((n + ChunkRecords - 1) \div ChunkRecords) |->
                Chunk((i - 1) * ChunkRecords, Least(n, i * ChunkRecords), n)]

Answer(v) == [type |-> "success", value |-> v]

\* Mutant: the catch of the worker is missing.
SessionScript_NoCatch(r) ==
  [i \in DOMAIN CorePercents(r) |-> Progress(CorePercents(r)[i])]
  \o (IF CoreEnd(r) # "ok" THEN <<>>
      ELSE Chunks(r.n) \o <<Answer([rows |-> r.n, artifact |-> ArtifactText(r)])>>)

\* src/src/processing/session-processor.worker.ts
SessionScript(r) ==
  [i \in DOMAIN CorePercents(r) |-> Progress(CorePercents(r)[i])]
  \o (IF CoreEnd(r) # "ok" THEN <<Failure(CoreEnd(r))>>
      ELSE Chunks(r.n) \o <<Answer([rows |-> r.n, artifact |-> ArtifactText(r)])>>)

\* Mutant: the progress of the core is passed on as it is.
Loading_Whole(p) == p

Loading(p) == (p * 68) \div 100

\* Mutant: a bundle is built from whatever the blob holds now.
Built_AnyIdentity(r) ==
  <<Progress(72), Progress(78)>>
  \o (IF r.buildable THEN <<Progress(100), Answer([of |-> IF r.same THEN "asked" ELSE "other"])>>
      ELSE <<Failure("limit")>>)

Built(r) ==
  IF ~r.same THEN <<Failure("identity")>>
  ELSE <<Progress(72), Progress(78)>>
       \o (IF r.buildable THEN <<Progress(100), Answer([of |-> "asked"])>> ELSE <<Failure("limit")>>)

\* src/src/processing/evidence-bundle.worker.ts
BundleScript(r) ==
  [i \in DOMAIN CorePercents(r) |-> Progress(Loading(CorePercents(r)[i]))]
  \o (IF CoreEnd(r) # "ok" THEN <<Failure(CoreEnd(r))>> ELSE Built(r))

\* src/src/processing/comparison.worker.ts; the input says whether the sources can be compared.
ComparisonScript(comparable) ==
  <<Progress(12), IF comparable THEN Answer([of |-> "asked"]) ELSE Failure("comparison")>>

\* src/src/receiver/evidence-verifier.worker.ts
EvidenceScript(good) == <<IF good THEN Answer([of |-> "asked"]) ELSE Failure("verification")>>

\* The bundles of a case after the additions of a build: exact duplicates are not added again.
Merged(c) ==
  LET done[i \in 0..Len(c.added)] ==
        IF i = 0 THEN c.bundles
        ELSE IF c.added[i] \in Range(done[i - 1]) THEN done[i - 1] ELSE Append(done[i - 1], c.added[i])
  IN done[Len(c.added)]

Rows(h, key, n) == [i \in 1..n |-> <<h, key, i>>]

\* A bundle of a case and the chunks of its evidence, and of all bundles.
RowChunks(c, hs, index, key) ==
  [i \in DOMAIN Chunks(c.rows[key]) |->
     LET piece == Chunks(c.rows[key])[i] IN
     [type |-> "chunk", index |-> index, key |-> key, offset |-> piece.start,
      values |-> SubSeq(Rows(hs[index], key, c.rows[key]), piece.start + 1, piece.end)]]

BundleMessages(c, hs, index) ==
  <<[type |-> "bundle", index |-> index, hash |-> hs[index], counts |-> c.rows]>>
  \o FlattenSeq([k \in DOMAIN Keys |-> RowChunks(c, hs, index, Keys[k])])

\* verifyCaseArchive's reports up to the step that fails
CasePercents(c, hs) ==
  LET each == [i \in DOMAIN hs |-> 15 + (65 * (i - 1)) \div Len(hs)] IN
  CASE c.fault = "preflight" -> <<5>>
    [] c.fault = "bundle" -> IF hs = <<>> THEN <<5>> ELSE <<5, each[1]>>
    [] c.fault = "content" -> <<5>> \o each \o <<85>>
    [] OTHER -> <<5>> \o each \o <<85, 95>>

\* src/src/cases/case.worker.ts
CaseScript(c) ==
  LET hs == Merged(c)
      percents == CasePercents(c, hs) IN
  IF ~c.stored \/ Len(hs) > MaxBundles THEN <<Failure("case")>>
  ELSE [i \in DOMAIN percents |-> Progress(percents[i])]
       \o (IF c.fault # "none" THEN <<Failure("case")>>
           ELSE FlattenSeq([i \in DOMAIN hs |-> BundleMessages(c, hs, i)])
                \o <<Progress(100), [type |-> "complete", bundles |-> Len(hs)]>>)

-----------------------------------------------------------------------------
(* The page *)

NoJob == [kind |-> "none", state |-> "none", why |-> "none", value |-> <<>>, percent |-> 0,
          rows |-> <<>>, frames |-> <<>>, bundles |-> <<>>, counts |-> <<>>,
          listening |-> FALSE, aborted |-> FALSE, downloaded |-> FALSE, unanswered |-> FALSE]
Off == [pc |-> "off", input |-> <<>>, read |-> 0]

Init == job = NoJob /\ worker = Off /\ box = <<>> /\ faults = 0

Settled(j) == j.state \in {"resolved", "rejected"}
Streams(kind) == kind \in {"session", "bundle"}

\* finish() and the call of reject or resolve; load-evidence-bundle has no settled flag, but a
\* promise is settled once.
Finish(j) == [j EXCEPT !.listening = FALSE]
Reject(j, why) == [Finish(j) EXCEPT !.state = "rejected", !.why = why]
Resolve(j, v) == [Finish(j) EXCEPT !.state = "resolved", !.value = v]
Report(j, p) == [j EXCEPT !.percent = p]

\* A chunk of a replay must begin where the last one ended.
Take(j, m) ==
  IF m.start # Len(j.rows) THEN Reject(j, "worker-failure")
  ELSE Report([j EXCEPT !.rows = @ \o m.rows, !.frames = @ \o m.rows],
              Percent("transferring", m.end, m.total))

\* Mutant: the transferred rows are not counted.
Hydrate_Uncounted(j, v) == Resolve(j, [rows |-> j.rows, frames |-> j.frames, artifact |-> v.artifact])

\* hydrateWorkerResult and registerResult
Hydrate(j, v) ==
  IF Len(j.rows) # v.rows \/ Len(j.frames) # v.rows THEN Reject(j, "worker-failure")
  ELSE Resolve(j, [rows |-> j.rows, frames |-> j.frames, artifact |-> v.artifact])

\* processSessionBlob's listener
OnSessionMessage(j, m) ==
  CASE m.type = "progress" -> Report(j, m.percent)
    [] m.type = "chunk" -> Take(j, m)
    [] m.type = "success" -> Hydrate(j, m.value)
    [] OTHER -> Reject(j, m.code)

\* processCase's listener, by the type of the message
OnCaseBundle(j, m) ==
  IF m.index # Len(j.bundles) + 1 THEN Reject(j, "worker-failure")
  ELSE [j EXCEPT !.bundles = Append(@, [hash |-> m.hash, rows |-> [k \in Range(Keys) |-> <<>>]]),
                 !.counts = Append(@, m.counts)]

OnCaseChunk(j, m) ==
  IF \/ m.index \notin DOMAIN j.bundles
     \/ Len(j.bundles[m.index].rows[m.key]) # m.offset
     \/ Len(m.values) > ChunkRecords
  THEN Reject(j, "worker-failure")
  ELSE [j EXCEPT !.bundles[m.index].rows[m.key] = @ \o m.values]

OnCaseComplete(j, m) ==
  IF \/ Len(j.bundles) # m.bundles
     \/ \E i \in DOMAIN j.bundles, k \in Range(Keys) : Len(j.bundles[i].rows[k]) # j.counts[i][k]
  THEN Reject(j, "worker-failure")
  ELSE Resolve(j, j.bundles)

OnCaseMessage(j, m) ==
  CASE m.type = "error" -> Reject(j, m.code)
    [] m.type = "progress" -> IF m.percent < j.percent THEN Reject(j, "worker-failure")
                              ELSE Report(j, m.percent)
    [] m.type = "bundle" -> OnCaseBundle(j, m)
    [] m.type = "chunk" -> OnCaseChunk(j, m)
    [] OTHER -> OnCaseComplete(j, m)

\* The listeners of the other three jobs; a bundle that resolves is downloaded by BundleDialog,
\* unless it was aborted meanwhile.
OnAnswer(j, m) ==
  CASE m.type = "progress" -> Report(j, m.percent)
    [] m.type = "success" -> Resolve(j, m.value)
    [] OTHER -> Reject(j, m.code)

\* Mutant: a message that arrives after the job has settled is taken like any other.
Handled_Always(j, m) ==
  CASE j.kind = "session" -> OnSessionMessage(j, m)
    [] j.kind = "case" -> OnCaseMessage(j, m)
    [] OTHER -> OnAnswer(j, m)

Handled(j, m) ==
  IF Settled(j) THEN j
  ELSE CASE j.kind = "session" -> OnSessionMessage(j, m)
         [] j.kind = "case" -> OnCaseMessage(j, m)
         [] OTHER -> OnAnswer(j, m)

\* Mutant: what was built is downloaded although it was cancelled meanwhile.
Delivered_Anyway(j) == [j EXCEPT !.downloaded = j.kind = "bundle" /\ j.state = "resolved"]

\* createBundle after its await, in the same task as the answer
Delivered(j) == [j EXCEPT !.downloaded = j.kind = "bundle" /\ j.state = "resolved" /\ ~j.aborted]

\* Mutant: a job that settles leaves its worker running.
Terminated_Never(j) == worker

\* finish() terminates the worker: it runs no further.
Terminated(j) == IF Settled(j) THEN [worker EXCEPT !.pc = "off"] ELSE worker

-----------------------------------------------------------------------------
(* Actions *)

Fault == faults < MaxFaults /\ faults' = faults + 1

Begun(kind) == [NoJob EXCEPT !.kind = kind, !.state = "running", !.listening = kind # "evidence"]

\* A job begins: its signal is not aborted, the worker is made and the request posted.
Start(kind, input, script) ==
  /\ job' = Begun(kind)
  /\ worker' = [pc |-> IF Streams(kind) THEN "reading" ELSE "done", input |-> input, read |-> 0]
  /\ box' = IF Streams(kind) THEN <<Progress(0)>> ELSE script
  /\ UNCHANGED faults

Fresh == job.state = "none"

StartSession == Fresh /\ \E r \in Replays : r.same /\ r.buildable /\ Start("session", r, <<>>)
StartBundle == Fresh /\ \E r \in Replays : r.text = "canonical" /\ Start("bundle", r, <<>>)
StartComparison == Fresh /\ \E ok \in BOOLEAN : Start("comparison", ok, ComparisonScript(ok))
StartCase == Fresh /\ \E c \in Cases : Start("case", c, CaseScript(c))

\* loadEvidenceBundleFile: the checks of the file come before the worker.
StartEvidence ==
  Fresh /\ \E f \in Files :
    IF f.status = "whole" THEN Start("evidence", f.good, EvidenceScript(f.good))
    ELSE /\ f.good
         /\ job' = Reject(Begun("evidence"), f.status)
         /\ worker' = [Off EXCEPT !.input = f.good] /\ UNCHANGED <<box, faults>>

\* The signal was aborted before the call, or the worker cannot be made.
StartRefused ==
  Fresh /\ \E kind \in {"session", "bundle", "comparison", "case"} :
    /\ \/ job' = [Reject(Begun(kind), "cancelled") EXCEPT !.aborted = TRUE] /\ UNCHANGED faults
       \/ Fault /\ job' = Reject(Begun(kind), "worker-failure")
    /\ UNCHANGED <<worker, box>>

\* There are no workers: processWithoutWorker, and buildEvidenceBundle on the page itself.
StartInline ==
  Fresh /\ \E r \in Replays :
    /\ r.same
    /\ \/ /\ r.buildable
          /\ job' = [Begun("session") EXCEPT !.listening = FALSE]
          /\ worker' = [pc |-> "inline-reading", input |-> r, read |-> 0]
       \/ /\ r.text = "canonical" /\ r.length = r.size
          /\ job' = [Begun("bundle") EXCEPT !.listening = FALSE]
          /\ worker' = [pc |-> "inline-building", input |-> r, read |-> 0]
    /\ UNCHANGED <<box, faults>>

\* readBoundedBlob in the worker: a chunk, one too many, a read that throws, the end of the stream.
Stream(r) == IF job.kind = "session" THEN SessionScript(r) ELSE BundleScript(r)

ReadChunk ==
  LET r == worker.input IN
  /\ worker.pc = "reading" /\ worker.read < r.length
  /\ IF worker.read + 1 > r.size
     THEN worker' = [worker EXCEPT !.pc = "done"] /\ box' = Append(box, Failure("io-error"))
     ELSE /\ worker' = [worker EXCEPT !.read = @ + 1]
          /\ LET p == Percent("reading", worker.read + 1, r.size) IN
             box' = Append(box, Progress(IF job.kind = "session" THEN p ELSE Loading(p)))
  /\ UNCHANGED <<job, faults>>

ReadThrows ==
  /\ worker.pc = "reading" /\ Fault
  /\ worker' = [worker EXCEPT !.pc = "done"] /\ box' = Append(box, Failure("io-error"))
  /\ UNCHANGED job

ReadEnds ==
  LET r == worker.input IN
  /\ worker.pc = "reading" /\ worker.read = r.length
  /\ worker' = [worker EXCEPT !.pc = "done"]
  /\ box' = box \o Stream(r) /\ UNCHANGED <<job, faults>>

\* The next message is delivered; a job that settles on it terminates its worker.
Deliver ==
  /\ box # <<>>
  /\ job' = Delivered(Handled(job, Head(box)))
  /\ worker' = Terminated(job')
  /\ box' = Tail(box) /\ UNCHANGED faults

\* A message that cannot be read back: only processCase listens for that.
Unreadable ==
  /\ box # <<>> /\ ~Settled(job) /\ Fault
  /\ job' = IF job.kind = "case" THEN Reject(job, "worker-failure")
            ELSE [job EXCEPT !.unanswered = Head(box).type \in {"success", "error"}]
  /\ worker' = Terminated(job') /\ box' = Tail(box)

\* The worker's error event: it runs no further, and what it posted may be overtaken.
Crash ==
  /\ worker.pc \in {"reading", "done"} /\ ~Settled(job) /\ Fault
  /\ job' = Reject(job, "worker-failure")
  /\ worker' = Terminated(job') /\ UNCHANGED box

\* The user cancels.  The jobs that listen are rejected at once.
Abort ==
  /\ job.state = "running" /\ job.kind # "evidence" /\ ~job.aborted
  /\ job' = [(IF job.listening THEN Reject(job, "cancelled") ELSE job) EXCEPT !.aborted = TRUE]
  /\ worker' = Terminated(job') /\ UNCHANGED <<box, faults>>

\* processWithoutWorker: onProgress throws once the signal is aborted; inside the read loop
\* readBoundedBlob takes that for a read that failed.
InlineChunk ==
  LET r == worker.input IN
  /\ worker.pc = "inline-reading" /\ worker.read < r.length
  /\ job' = IF worker.read + 1 > r.size \/ job.aborted THEN Reject(job, "io-error")
            ELSE Report(job, Percent("reading", worker.read + 1, r.size))
  /\ worker' = [Terminated(job') EXCEPT !.read = @ + 1]
  /\ UNCHANGED <<box, faults>>

InlineThrows ==
  /\ worker.pc = "inline-reading" /\ Fault
  /\ job' = Reject(job, "io-error") /\ worker' = Terminated(job') /\ UNCHANGED box

\* Mutant: the signal is not asked again at the end.
InlineEnds_Unasked ==
  LET r == worker.input
      whole == [i \in 1..r.n |-> i] IN
  /\ worker.pc = "inline-reading" /\ worker.read = r.length
  /\ job' = IF CoreEnd(r) # "ok" THEN Reject(job, CoreEnd(r))
            ELSE Resolve(Report(job, 100),
                         [rows |-> whole, frames |-> whole, artifact |-> ArtifactText(r)])
  /\ worker' = Terminated(job') /\ UNCHANGED <<box, faults>>

\* What follows the last read is one task, and its first report asks for the signal again.
InlineEnds ==
  LET r == worker.input
      whole == [i \in 1..r.n |-> i] IN
  /\ worker.pc = "inline-reading" /\ worker.read = r.length
  /\ job' = IF r.length # r.size THEN Reject(job, "io-error")
            ELSE IF job.aborted THEN Reject(job, "cancelled")
            ELSE IF CoreEnd(r) # "ok" THEN Reject(job, CoreEnd(r))
            ELSE Resolve(Report(job, 100),
                         [rows |-> whole, frames |-> whole, artifact |-> ArtifactText(r)])
  /\ worker' = Terminated(job') /\ UNCHANGED <<box, faults>>

\* buildEvidenceBundle on the page cannot be cancelled.
InlineBuilt ==
  LET r == worker.input IN
  /\ worker.pc = "inline-building"
  /\ job' = Delivered(IF r.buildable THEN Resolve(job, [of |-> "asked"]) ELSE Reject(job, "limit"))
  /\ worker' = Terminated(job') /\ UNCHANGED <<box, faults>>

Begin ==
  \/ StartSession \/ StartBundle \/ StartComparison \/ StartCase \/ StartEvidence
  \/ StartRefused \/ StartInline

Works == ReadChunk \/ ReadEnds \/ InlineChunk \/ InlineEnds \/ InlineBuilt

Next == Begin \/ Works \/ Deliver \/ ReadThrows \/ InlineThrows \/ Unreadable \/ Crash \/ Abort

\* A worker that is not terminated goes on, and what it posts is delivered.
Spec == Init /\ [][Next]_vars /\ WF_vars(Works) /\ WF_vars(Deliver)

-----------------------------------------------------------------------------
(* Properties *)

\* What a job is given can be answered with a result.
Sound(kind, input) ==
  CASE kind = "session" -> CoreEnd(input) = "ok"
    [] kind = "bundle" -> CoreEnd(input) = "ok" /\ input.same /\ input.buildable
    [] kind = "case" -> input.stored /\ input.fault = "none" /\ Len(Merged(input)) <= MaxBundles
    [] OTHER -> input

Whole(kind, input) ==
  CASE kind = "session" -> [rows |-> [i \in 1..input.n |-> i], frames |-> [i \in 1..input.n |-> i],
                            artifact |-> "canonical"]
    [] kind = "case" -> [i \in DOMAIN Merged(input) |->
         [hash |-> Merged(input)[i],
          rows |-> [k \in Range(Keys) |-> Rows(Merged(input)[i], k, input.rows[k])]]]
    [] OTHER -> [of |-> "asked"]

\* A result is whole and is the one that was asked for: every row of the replay or the case in
\* its place, of the session the bundle was asked of; and what can be answered is refused only
\* when a worker, a message or a read failed or the user cancelled (process-session.ts:127-163,
\* case-processing.ts:94-124, evidence-bundle.worker.ts:48-53).
AnswerIsTrue ==
  /\ job.state = "resolved" =>
       Sound(job.kind, worker.input) /\ job.value = Whole(job.kind, worker.input)
  /\ job.state = "rejected" =>
       \/ job.aborted
       \/ job.why \in {"worker-failure", "io-error"} /\ faults > 0
       \/ job.why \in {"empty", "large", "unreadable", "changed"}
       \/ ~Sound(job.kind, worker.input) /\ job.why # "worker-failure"

\* A job settles once: messages that arrive afterwards change nothing, its worker is terminated
\* and it no longer listens to the signal (the settled flags and finish()).
SettledIsFinal ==
  [][/\ Settled(job) => job' = job
     /\ Settled(job') => worker'.pc = "off" /\ ~job'.listening]_vars

\* Cancellation opens nothing and downloads nothing, also when the work could not be stopped
\* (README.md:62 and 67, App.tsx:1422).
CancelledYieldsNothing ==
  job.aborted => ~job.downloaded /\ (job.kind # "bundle" => job.state # "resolved")

\* The progress a job shows never falls, whichever phases report it (case-workspace.md:63:
\* "Processing reports monotonic progress").
ProgressRises == [][job'.percent >= job.percent]_vars

\* Every job ends, with a result, an error or a cancellation, unless the message that holds its
\* answer cannot be read: only processCase listens for that (case-processing.ts:129).
EveryJobEnds == job.state = "running" ~> Settled(job) \/ job.unanswered

=============================================================================
