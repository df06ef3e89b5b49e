-------------------------- MODULE WorkerJobsProofs --------------------------
(***************************************************************************)
(* Proofs about the jobs the page gives to workers, for replays, cases and *)
(* chunks of any size and any number of faults.                            *)
(***************************************************************************)
EXTENDS WorkerJobs, WellFoundedInduction, TLAPS

\* The fields of the page's side of a job.
Fields ==
  {"kind", "state", "why", "value", "percent", "rows", "frames", "bundles", "counts", "listening",
   "aborted", "downloaded", "unanswered"}

Kinds == {"none", "session", "bundle", "comparison", "case", "evidence"}

\* What the page's side of a job is, beside what it was sent.
IsJob(j) ==
  /\ j = [f \in Fields |-> j[f]]
  /\ j.kind \in Kinds /\ j.state \in {"none", "running", "resolved", "rejected"}
  /\ j.listening \in BOOLEAN /\ j.aborted \in BOOLEAN /\ j.downloaded \in BOOLEAN

\* j and k differ at most in the fields F.
Same(k, j, F) == k = [f \in Fields |-> k[f]] /\ \A f \in Fields \ F : k[f] = j[f]

\* Only a bundle that resolved is downloaded, and only by a user who did not cancel it.
Downloads(j) == j.downloaded = (j.kind = "bundle" /\ j.state = "resolved" /\ ~j.aborted)

\* What the page may do with a message changes neither its kind nor its signal.
LEMMA ChangeFacts ==
  ASSUME NEW j, IsJob(j)
  PROVE  /\ \A why : LET k == Reject(j, why) IN
              IsJob(k) /\ Same(k, j, {"listening", "state", "why"}) /\ k.state = "rejected" /\ k.listening = FALSE
         /\ \A v : LET k == Resolve(j, v) IN
              IsJob(k) /\ Same(k, j, {"listening", "state", "value"}) /\ k.state = "resolved" /\ k.listening = FALSE
         /\ \A p : LET k == Report(j, p) IN IsJob(k) /\ Same(k, j, {"percent"})
<1>1. ASSUME NEW why
      PROVE  LET k == Reject(j, why) IN
             IsJob(k) /\ Same(k, j, {"listening", "state", "why"}) /\ k.state = "rejected" /\ k.listening = FALSE
  <2> DEFINE k == Reject(j, why)
  <2>1. Same(k, j, {"listening", "state", "why"}) /\ k.state = "rejected" /\ k.listening = FALSE
    BY DEF IsJob, Same, Fields, Reject, Finish
  <2> HIDE DEF k
  <2>2. IsJob(k)
    BY <2>1 DEF IsJob, Same, Fields
  <2> QED BY <2>1, <2>2 DEF k
<1>2. ASSUME NEW v
      PROVE  LET k == Resolve(j, v) IN
             IsJob(k) /\ Same(k, j, {"listening", "state", "value"}) /\ k.state = "resolved" /\ k.listening = FALSE
  <2> DEFINE k == Resolve(j, v)
  <2>1. Same(k, j, {"listening", "state", "value"}) /\ k.state = "resolved" /\ k.listening = FALSE
    BY DEF IsJob, Same, Fields, Resolve, Finish
  <2> HIDE DEF k
  <2>2. IsJob(k)
    BY <2>1 DEF IsJob, Same, Fields
  <2> QED BY <2>1, <2>2 DEF k
<1>3. ASSUME NEW p
      PROVE  LET k == Report(j, p) IN IsJob(k) /\ Same(k, j, {"percent"})
  <2> DEFINE k == Report(j, p)
  <2>1. Same(k, j, {"percent"})
    BY DEF IsJob, Same, Fields, Report
  <2> HIDE DEF k
  <2>2. IsJob(k)
    BY <2>1 DEF IsJob, Same, Fields
  <2> QED BY <2>1, <2>2 DEF k
<1> QED BY <1>1, <1>2, <1>3

\* The state of a job changes only by settling, and then it no longer listens.
Proceeds(k, j) ==
  /\ IsJob(k) /\ k.kind = j.kind /\ k.aborted = j.aborted /\ k.downloaded = j.downloaded
  /\ \/ k.state = j.state /\ k.listening = j.listening
     \/ k.state \in {"resolved", "rejected"} /\ k.listening = FALSE

\* Settling, reporting and doing nothing are ways to proceed.
LEMMA ProceedFacts ==
  ASSUME NEW j, IsJob(j)
  PROVE  /\ \A why : Proceeds(Reject(j, why), j)
         /\ \A v : Proceeds(Resolve(j, v), j)
         /\ \A p : Proceeds(Report(j, p), j)
         /\ Proceeds(j, j)
<1>1. ASSUME NEW why  PROVE Proceeds(Reject(j, why), j)
  <2> DEFINE k == Reject(j, why)
  <2>1. IsJob(k) /\ Same(k, j, {"listening", "state", "why"}) /\ k.state = "rejected" /\ k.listening = FALSE
    BY ChangeFacts
  <2> HIDE DEF k
  <2> QED BY <2>1 DEF Same, Fields, Proceeds, k
<1>2. ASSUME NEW v  PROVE Proceeds(Resolve(j, v), j)
  <2> DEFINE k == Resolve(j, v)
  <2>1. IsJob(k) /\ Same(k, j, {"listening", "state", "value"}) /\ k.state = "resolved" /\ k.listening = FALSE
    BY ChangeFacts
  <2> HIDE DEF k
  <2> QED BY <2>1 DEF Same, Fields, Proceeds, k
<1>3. ASSUME NEW p  PROVE Proceeds(Report(j, p), j)
  <2> DEFINE k == Report(j, p)
  <2>1. IsJob(k) /\ Same(k, j, {"percent"})
    BY ChangeFacts
  <2> HIDE DEF k
  <2> QED BY <2>1 DEF Same, Fields, Proceeds, k
<1>4. Proceeds(j, j)
  BY DEF Proceeds
<1> QED BY <1>1, <1>2, <1>3, <1>4

\* Whatever a message says, it is taken by a job that runs, and makes it proceed.
LEMMA HandledFacts ==
  ASSUME NEW j, NEW m, IsJob(j)
  PROVE  /\ Settled(j) => Handled(j, m) = j
         /\ Proceeds(Handled(j, m), j)
<1>1. Settled(j) => Handled(j, m) = j
  BY DEF Handled
<1>2. /\ \A why : Proceeds(Reject(j, why), j)
      /\ \A v : Proceeds(Resolve(j, v), j)
      /\ \A p : Proceeds(Report(j, p), j)
      /\ Proceeds(j, j)
  BY ProceedFacts
<1>3. Proceeds(OnSessionMessage(j, m), j)
  <2>1. Proceeds(Take(j, m), j)
    <3> DEFINE k == [j EXCEPT !.rows = @ \o m.rows, !.frames = @ \o m.rows]
               p == Percent("transferring", m.end, m.total)
    <3>1. Take(j, m) = IF m.start # Len(j.rows) THEN Reject(j, "worker-failure") ELSE Report(k, p)
      BY DEF Take
    <3>2. Same(k, j, {"rows", "frames"})
      BY DEF IsJob, Same, Fields
    <3> HIDE DEF k, p
    <3>3. IsJob(k)
      BY <3>2 DEF IsJob, Same, Fields
    <3>4. Proceeds(Report(k, p), k)
      BY <3>3, ProceedFacts
    <3>5. k.kind = j.kind /\ k.aborted = j.aborted /\ k.downloaded = j.downloaded /\ k.state = j.state
          /\ k.listening = j.listening
      BY <3>2 DEF Same, Fields
    <3>6. Proceeds(Report(k, p), j)
      BY <3>4, <3>5 DEF Proceeds
    <3> QED BY <1>2, <3>1, <3>6
  <2>2. Proceeds(Hydrate(j, m.value), j)
    BY <1>2 DEF Hydrate
  <2> QED BY <1>2, <2>1, <2>2 DEF OnSessionMessage
<1>4. Proceeds(OnCaseMessage(j, m), j)
  <2>1. Proceeds(OnCaseBundle(j, m), j)
    <3> DEFINE k == [j EXCEPT !.bundles = Append(@, [hash |-> m.hash, rows |-> [key \in Range(Keys) |-> <<>>]]),
                              !.counts = Append(@, m.counts)]
    <3>1. OnCaseBundle(j, m) = IF m.index # Len(j.bundles) + 1 THEN Reject(j, "worker-failure") ELSE k
      BY DEF OnCaseBundle
    <3>2. Same(k, j, {"bundles", "counts"})
      BY DEF IsJob, Same, Fields
    <3> HIDE DEF k
    <3>3. Proceeds(k, j)
      BY <3>2 DEF IsJob, Same, Fields, Proceeds
    <3> QED BY <1>2, <3>1, <3>3
  <2>2. Proceeds(OnCaseChunk(j, m), j)
    <3> DEFINE k == [j EXCEPT !.bundles[m.index].rows[m.key] = @ \o m.values]
    <3>1. OnCaseChunk(j, m) = Reject(j, "worker-failure") \/ OnCaseChunk(j, m) = k
      BY DEF OnCaseChunk
    <3>2. Same(k, j, {"bundles"})
      BY DEF IsJob, Same, Fields
    <3> HIDE DEF k
    <3>3. Proceeds(k, j)
      BY <3>2 DEF IsJob, Same, Fields, Proceeds
    <3> QED BY <1>2, <3>1, <3>3
  <2>3. Proceeds(OnCaseComplete(j, m), j)
    BY <1>2 DEF OnCaseComplete
  <2> QED BY <1>2, <2>1, <2>2, <2>3 DEF OnCaseMessage
<1>5. Proceeds(OnAnswer(j, m), j)
  BY <1>2 DEF OnAnswer
<1> QED BY <1>1, <1>2, <1>3, <1>4, <1>5 DEF Handled

\* So does a job that is given a message, whether or not it still listens.
LEMMA DeliveredFacts ==
  ASSUME NEW j, IsJob(j)
  PROVE  LET k == Delivered(j) IN
         /\ IsJob(k) /\ Same(k, j, {"downloaded"}) /\ Downloads(k) /\ (Downloads(j) => k = j)
<1> DEFINE k == Delivered(j)
           b == j.kind = "bundle" /\ j.state = "resolved" /\ ~j.aborted
<1>1. k = [j EXCEPT !.downloaded = b]
  BY DEF Delivered
<1>2. b \in BOOLEAN
  OBVIOUS
<1>3. Downloads(j) <=> j.downloaded = b
  BY DEF Downloads
<1> HIDE DEF b, k
<1>4. Same(k, j, {"downloaded"}) /\ k.downloaded = b
  BY <1>1 DEF IsJob, Same, Fields
<1>5. IsJob(k)
  BY <1>2, <1>4 DEF IsJob, Same, Fields
<1>6. Downloads(k)
  <2>1. k.kind = j.kind /\ k.state = j.state /\ k.aborted = j.aborted
    BY <1>4 DEF Same, Fields
  <2> QED BY <1>4, <2>1 DEF Downloads, b
<1>7. ASSUME j.downloaded = b  PROVE k = j
  BY <1>1, <1>7 DEF IsJob, Fields
<1> QED BY <1>3, <1>4, <1>5, <1>6, <1>7 DEF k

\* The page's worker after the job k: off if it has settled.
LEMMA TerminatedFacts ==
  ASSUME NEW k, worker = [pc |-> worker.pc, input |-> worker.input, read |-> worker.read],
         worker' = IF Settled(k) THEN [worker EXCEPT !.pc = "off"] ELSE worker
  PROVE  /\ worker' = [pc |-> worker'.pc, input |-> worker'.input, read |-> worker'.read]
         /\ worker'.input = worker.input /\ worker'.read = worker.read
         /\ worker'.pc = IF Settled(k) THEN "off" ELSE worker.pc
<1>1. CASE Settled(k)
  BY <1>1
<1>2. CASE ~Settled(k)
  BY <1>2
<1> QED BY <1>1, <1>2

\* What JobInv says of the job j, its worker w and the messages b.
JobOk(j, w, b) ==
  /\ IsJob(j) /\ Downloads(j)
  /\ w = [pc |-> w.pc, input |-> w.input, read |-> w.read]
  /\ j.state # "running" => w.pc = "off" /\ ~j.listening
  /\ j.state = "none" => b = <<>> /\ ~j.aborted
  /\ j.kind = "none" => j.state = "none"
  /\ w.pc = "inline-reading" => j.kind = "session"
  /\ w.pc = "inline-building" => j.kind = "bundle"
  /\ j.state = "running" /\ j.aborted => ~j.listening /\ j.kind \in {"session", "bundle"}
  /\ j.state = "running" /\ ~j.listening /\ j.kind # "evidence"
       => b = <<>> /\ w.pc \in {"inline-reading", "inline-building"}
  /\ w.pc \in {"inline-reading", "inline-building"} => b = <<>>
  /\ j.aborted => j.kind \in {"session", "bundle", "comparison", "case"}
  /\ j.aborted /\ j.kind # "bundle" => j.state # "resolved"

\* A job that proceeds from a message, a read or a failure leaves a job as it should be.
LEMMA StepFacts ==
  ASSUME JobOk(job, worker, box), job.state = "running", NEW k, Proceeds(k, job),
         Same(job', k, {"downloaded"}), IsJob(job'), Downloads(job'),
         worker' = [pc |-> worker'.pc, input |-> worker'.input, read |-> worker'.read],
         worker'.pc = IF Settled(job') THEN "off" ELSE worker.pc,
         box = <<>> => box' = <<>>,
         job'.state = "resolved" => job.kind = "bundle" \/ ~job.aborted
  PROVE  JobOk(job', worker', box') /\ (Settled(job') => worker'.pc = "off" /\ ~job'.listening)
<1>1. /\ job'.state \in {"none", "running", "resolved", "rejected"} /\ job.kind \in Kinds
      /\ job'.kind = job.kind /\ job'.aborted = job.aborted
      /\ \/ job'.state = "running" /\ job'.listening = job.listening
         \/ job'.state \in {"resolved", "rejected"} /\ job'.listening = FALSE
  BY DEF Proceeds, IsJob, JobOk, Same, Fields
<1>2. Settled(job') <=> job'.state # "running"
  BY <1>1 DEF Settled
<1>3. CASE Settled(job')
  BY <1>1, <1>2, <1>3 DEF JobOk, Settled
<1>4. CASE ~Settled(job')
  BY <1>1, <1>2, <1>4 DEF JobOk, Settled
<1> QED BY <1>3, <1>4

JobInv == JobOk(job, worker, box)

\* What a step of a job must keep, and what it may never undo.
Kept == JobInv' /\ (Settled(job) => job' = job) /\ (Settled(job') => worker'.pc = "off" /\ ~job'.listening)

\* The page before its first job.
LEMMA NoJobFacts ==
  /\ IsJob(NoJob) /\ NoJob.kind = "none" /\ NoJob.state = "none" /\ NoJob.listening = FALSE
  /\ NoJob.aborted = FALSE /\ NoJob.downloaded = FALSE
<1>1. NoJob = [f \in Fields |-> NoJob[f]]
  BY DEF NoJob, Fields
<1>2. /\ NoJob.kind = "none" /\ NoJob.state = "none" /\ NoJob.listening = FALSE
      /\ NoJob.aborted = FALSE /\ NoJob.downloaded = FALSE
  BY DEF NoJob
<1> QED BY <1>1, <1>2 DEF IsJob, Kinds

\* A job just begun runs, with nothing delivered to it.
LEMMA BegunFacts ==
  ASSUME NEW kind \in Kinds
  PROVE  LET j == Begun(kind) IN
         /\ IsJob(j) /\ j.kind = kind /\ j.state = "running" /\ (j.listening <=> kind # "evidence")
         /\ j.aborted = FALSE /\ j.downloaded = FALSE
<1> DEFINE j == Begun(kind)
           b == kind # "evidence"
<1>1. j = [NoJob EXCEPT !.kind = kind, !.state = "running", !.listening = b]
  BY DEF Begun
<1>2. b \in BOOLEAN
  OBVIOUS
<1> HIDE DEF b, j
<1>3. Same(j, NoJob, {"kind", "state", "listening"}) /\ j.kind = kind /\ j.state = "running" /\ j.listening = b
  BY <1>1, NoJobFacts DEF IsJob, Same, Fields
<1>4. j.aborted = NoJob.aborted /\ j.downloaded = NoJob.downloaded
  BY <1>3 DEF Same, Fields
<1>5. IsJob(j)
  BY <1>2, <1>3, <1>4, NoJobFacts DEF IsJob, Same, Fields
<1> QED BY <1>3, <1>4, <1>5, NoJobFacts DEF j, b

\* A job that begins has a worker of its own.
LEMMA StartFacts ==
  ASSUME JobInv, Fresh, NEW kind \in Kinds, kind # "none", NEW input, NEW script, Start(kind, input, script)
  PROVE  Kept
<1>1. job' = Begun(kind) /\ worker' = [pc |-> IF Streams(kind) THEN "reading" ELSE "done", input |-> input, read |-> 0]
  BY DEF Start
<1>2. /\ IsJob(job') /\ job'.kind = kind /\ job'.state = "running" /\ (job'.listening <=> kind # "evidence")
      /\ job'.aborted = FALSE /\ job'.downloaded = FALSE
  BY <1>1, BegunFacts
<1>3. /\ worker' = [pc |-> worker'.pc, input |-> worker'.input, read |-> worker'.read]
      /\ worker'.pc \in {"reading", "done"}
  BY <1>1
<1>4. JobInv'
  BY <1>2, <1>3 DEF JobInv, JobOk, Downloads
<1> QED BY <1>2, <1>4 DEF Kept, Fresh, Settled

\* A page that begins a job, with a worker or without, begins one as it should be.
LEMMA BeginStep ==
  ASSUME JobInv, Begin  PROVE Kept
<1>1. CASE StartSession
  BY <1>1, StartFacts DEF StartSession, Kinds
<1>2. CASE StartBundle
  BY <1>2, StartFacts DEF StartBundle, Kinds
<1>3. CASE StartComparison
  BY <1>3, StartFacts DEF StartComparison, Kinds
<1>4. CASE StartCase
  BY <1>4, StartFacts DEF StartCase, Kinds
<1>5. CASE StartEvidence
  <2>1. Fresh
    BY <1>5 DEF StartEvidence
  <2>2. PICK f \in Files :
          IF f.status = "whole" THEN Start("evidence", f.good, EvidenceScript(f.good))
          ELSE /\ f.good
               /\ job' = Reject(Begun("evidence"), f.status)
               /\ worker' = [Off EXCEPT !.input = f.good] /\ UNCHANGED <<box, faults>>
    BY <1>5 DEF StartEvidence
  <2>3. CASE f.status = "whole"
    BY <2>1, <2>2, <2>3, StartFacts DEF Kinds
  <2>4. CASE f.status # "whole"
    <3> DEFINE kind == "evidence"
               j == Begun(kind)
    <3>1. job' = Reject(j, f.status) /\ worker' = [Off EXCEPT !.input = f.good] /\ box' = box
      BY <2>2, <2>4
    <3>2. kind \in Kinds /\ kind # "none"
      BY DEF Kinds
    <3> HIDE DEF kind
    <3>3. IsJob(j) /\ j.kind = kind /\ j.aborted = FALSE /\ j.downloaded = FALSE
      BY <3>2, BegunFacts
    <3> HIDE DEF j
    <3>4. Proceeds(Reject(j, f.status), j)
      BY <3>3, ProceedFacts
    <3>5. IsJob(job') /\ Same(job', j, {"listening", "state", "why"}) /\ job'.state = "rejected" /\ job'.listening = FALSE
      BY <3>1, <3>3, ChangeFacts
    <3>6. job'.kind = kind /\ job'.aborted = FALSE /\ job'.downloaded = FALSE
      BY <3>3, <3>5 DEF Same, Fields
    <3>7. worker' = [pc |-> worker'.pc, input |-> worker'.input, read |-> worker'.read] /\ worker'.pc = "off"
      BY <3>1 DEF Off
    <3>8. JobInv'
      BY <3>2, <3>5, <3>6, <3>7 DEF JobInv, JobOk, Downloads
    <3> QED BY <2>1, <3>5, <3>7, <3>8 DEF Kept, Fresh, Settled
  <2> QED BY <2>3, <2>4
<1>6. CASE StartRefused
  <2>1. Fresh
    BY <1>6 DEF StartRefused
  <2>2. PICK kind \in {"session", "bundle", "comparison", "case"} :
          /\ \/ job' = [Reject(Begun(kind), "cancelled") EXCEPT !.aborted = TRUE]
             \/ job' = Reject(Begun(kind), "worker-failure")
          /\ worker' = worker /\ box' = box
    BY <1>6 DEF StartRefused
  <2> DEFINE j == Begun(kind)
             cancelled == "cancelled"
             failed == "worker-failure"
  <2>3. IsJob(j) /\ j.kind = kind /\ j.aborted = FALSE /\ j.downloaded = FALSE
    <3>1. kind \in Kinds
      BY DEF Kinds
    <3> QED BY <3>1, BegunFacts
  <2>4. job' = [Reject(j, cancelled) EXCEPT !.aborted = TRUE] \/ job' = Reject(j, failed)
    BY <2>2
  <2> HIDE DEF j, cancelled, failed
  <2>5. /\ IsJob(Reject(j, cancelled)) /\ Same(Reject(j, cancelled), j, {"listening", "state", "why"})
        /\ Reject(j, cancelled).state = "rejected" /\ Reject(j, cancelled).listening = FALSE
        /\ IsJob(Reject(j, failed)) /\ Same(Reject(j, failed), j, {"listening", "state", "why"})
        /\ Reject(j, failed).state = "rejected" /\ Reject(j, failed).listening = FALSE
    BY <2>3, ChangeFacts
  <2>6. /\ Same(job', j, {"listening", "state", "why", "aborted"}) /\ job'.aborted \in BOOLEAN
        /\ job'.state = "rejected" /\ job'.listening = FALSE
    <3>1. CASE job' = Reject(j, failed)
      BY <2>5, <3>1 DEF IsJob, Same
    <3>2. CASE job' = [Reject(j, cancelled) EXCEPT !.aborted = TRUE]
      <4> DEFINE k == Reject(j, cancelled)
      <4>1. job' = [k EXCEPT !.aborted = TRUE] /\ IsJob(k) /\ k.state = "rejected" /\ k.listening = FALSE
            /\ Same(k, j, {"listening", "state", "why"})
        BY <2>5, <3>2
      <4> HIDE DEF k
      <4>2. Same(job', k, {"aborted"}) /\ job'.aborted = TRUE
        BY <4>1 DEF IsJob, Same, Fields
      <4> QED BY <4>1, <4>2 DEF Same, Fields
    <3> QED BY <2>4, <3>1, <3>2
  <2>7. job'.kind = kind /\ job'.downloaded = FALSE /\ IsJob(job')
    BY <2>3, <2>6 DEF Same, Fields, IsJob
  <2>8. worker.pc = "off" /\ worker = [pc |-> worker.pc, input |-> worker.input, read |-> worker.read]
    BY <2>1 DEF JobInv, JobOk, Fresh
  <2>9. JobInv'
    BY <2>2, <2>6, <2>7, <2>8 DEF JobInv, JobOk, Downloads
  <2> QED BY <2>1, <2>2, <2>6, <2>8, <2>9 DEF Kept, Fresh, Settled
<1>7. CASE StartInline
  <2>1. Fresh
    BY <1>7 DEF StartInline
  <2>2. PICK r \in Replays :
          /\ \/ /\ job' = [Begun("session") EXCEPT !.listening = FALSE]
                /\ worker' = [pc |-> "inline-reading", input |-> r, read |-> 0]
             \/ /\ job' = [Begun("bundle") EXCEPT !.listening = FALSE]
                /\ worker' = [pc |-> "inline-building", input |-> r, read |-> 0]
          /\ box' = box
    BY <1>7 DEF StartInline
  <2>3. ASSUME NEW kind \in {"session", "bundle"}, job' = [Begun(kind) EXCEPT !.listening = FALSE]
        PROVE  IsJob(job') /\ job'.kind = kind /\ job'.state = "running" /\ job'.listening = FALSE
               /\ job'.aborted = FALSE /\ job'.downloaded = FALSE
    <3> DEFINE j == Begun(kind)
    <3>1. kind \in Kinds
      BY DEF Kinds
    <3>2. IsJob(j) /\ j.kind = kind /\ j.state = "running" /\ j.aborted = FALSE /\ j.downloaded = FALSE
      BY <3>1, BegunFacts
    <3>3. job' = [j EXCEPT !.listening = FALSE]
      BY <2>3
    <3> HIDE DEF j
    <3>4. Same(job', j, {"listening"}) /\ job'.listening = FALSE
      BY <3>2, <3>3 DEF IsJob, Same, Fields
    <3> QED BY <3>2, <3>4 DEF IsJob, Same, Fields
  <2>4. box = <<>>
    BY <2>1 DEF JobInv, JobOk, Fresh
  <2>5. \/ job'.kind = "session" /\ worker'.pc = "inline-reading"
        \/ job'.kind = "bundle" /\ worker'.pc = "inline-building"
    <3> DEFINE session == "session"
               bundle == "bundle"
    <3>1. session \in {"session", "bundle"} /\ bundle \in {"session", "bundle"}
      OBVIOUS
    <3>2. \/ job' = [Begun(session) EXCEPT !.listening = FALSE] /\ worker'.pc = "inline-reading"
          \/ job' = [Begun(bundle) EXCEPT !.listening = FALSE] /\ worker'.pc = "inline-building"
      BY <2>2
    <3>3. session = "session" /\ bundle = "bundle"
      OBVIOUS
    <3> HIDE DEF session, bundle
    <3> QED BY <2>3, <3>1, <3>2, <3>3
  <2>6. /\ IsJob(job') /\ job'.state = "running" /\ job'.listening = FALSE
        /\ job'.aborted = FALSE /\ job'.downloaded = FALSE
        /\ worker' = [pc |-> worker'.pc, input |-> worker'.input, read |-> worker'.read]
    BY <2>2, <2>3
  <2>7. JobInv'
    BY <2>2, <2>4, <2>5, <2>6 DEF JobInv, JobOk, Downloads
  <2> QED BY <2>1, <2>6, <2>7 DEF Kept, Fresh, Settled
<1> QED BY <1>1, <1>2, <1>3, <1>4, <1>5, <1>6, <1>7 DEF Begin

\* A step of a job that runs; k is what its listener makes of it, before the download.
LEMMA RunStep ==
  ASSUME JobInv, job.state = "running", NEW k, Proceeds(k, job), job' = k \/ job' = Delivered(k),
         worker' = [pc |-> worker'.pc, input |-> worker'.input, read |-> worker'.read],
         worker'.pc = IF Settled(job') THEN "off" ELSE worker.pc,
         box = <<>> => box' = <<>>,
         k.state = "resolved" => job' = Delivered(k) \/ k.kind # "bundle",
         k.state = "resolved" => job.kind = "bundle" \/ ~job.aborted
  PROVE  Kept
<1>1. IsJob(k) /\ k.kind = job.kind /\ k.aborted = job.aborted /\ k.downloaded = job.downloaded
      /\ k.state \in {"running", "resolved", "rejected"}
  BY DEF Proceeds
<1>2. IsJob(Delivered(k)) /\ Same(Delivered(k), k, {"downloaded"}) /\ Downloads(Delivered(k))
  BY <1>1, DeliveredFacts
<1>3. Same(k, k, {"downloaded"})
  BY <1>1 DEF IsJob, Same
<1>4. Same(job', k, {"downloaded"}) /\ IsJob(job')
  BY <1>1, <1>2, <1>3
<1>5. Downloads(job')
  <2>1. CASE job' = Delivered(k)
    BY <1>2, <2>1
  <2>2. CASE job' = k /\ (k.state = "resolved" => k.kind # "bundle")
    BY <1>1, <2>2 DEF Downloads, JobInv, JobOk
  <2> QED BY <2>1, <2>2
<1>6. job'.state = k.state /\ job'.kind = k.kind
  BY <1>4 DEF Same, Fields
<1>7. JobOk(job', worker', box') /\ (Settled(job') => worker'.pc = "off" /\ ~job'.listening)
  BY <1>4, <1>5, <1>6, StepFacts DEF JobInv
<1> QED BY <1>7 DEF JobInv, Kept, Settled

\* A worker that goes on, and whose job is left alone.
LEMMA WorkStep ==
  ASSUME JobInv, job' = job, worker.pc = "reading", worker'.pc \in {"reading", "done"},
         worker' = [pc |-> worker'.pc, input |-> worker'.input, read |-> worker'.read]
  PROVE  Kept
<1>1. job.state = "running" /\ ~(~job.listening /\ job.kind # "evidence")
  BY DEF JobInv, JobOk
<1>2. JobInv'
  BY <1>1 DEF JobInv, JobOk
<1> QED BY <1>1, <1>2 DEF Kept, Settled

\* A worker that reads its input leaves the job alone.
LEMMA ReadStep ==
  ASSUME JobInv, ReadChunk \/ ReadThrows \/ ReadEnds  PROVE Kept
<1>1. worker = [pc |-> worker.pc, input |-> worker.input, read |-> worker.read] /\ worker.pc = "reading"
  BY DEF JobInv, JobOk, ReadChunk, ReadThrows, ReadEnds
<1>2. job' = job /\ (worker' = [worker EXCEPT !.pc = "done"] \/ worker' = [worker EXCEPT !.read = @ + 1])
  BY DEF ReadChunk, ReadThrows, ReadEnds
<1>3. /\ worker' = [pc |-> worker'.pc, input |-> worker'.input, read |-> worker'.read]
      /\ worker'.pc \in {"reading", "done"}
  BY <1>1, <1>2
<1> QED BY <1>1, <1>2, <1>3, WorkStep

\* A message is taken by a job that runs and ignored by one that has settled.
LEMMA DeliverStep ==
  ASSUME JobInv, Deliver  PROVE Kept
<1> DEFINE m == Head(box)
           k == Handled(job, m)
<1>1. box # <<>> /\ job' = Delivered(k) /\ worker' = Terminated(job')
  BY DEF Deliver
<1>2. IsJob(job) /\ Downloads(job) /\ job.state \in {"none", "running", "resolved", "rejected"}
      /\ worker = [pc |-> worker.pc, input |-> worker.input, read |-> worker.read]
  BY DEF JobInv, JobOk, IsJob
<1>3. (Settled(job) => k = job) /\ Proceeds(k, job)
  BY <1>2, HandledFacts
<1>4. worker' = IF Settled(job') THEN [worker EXCEPT !.pc = "off"] ELSE worker
  BY <1>1 DEF Terminated
<1>5. /\ worker' = [pc |-> worker'.pc, input |-> worker'.input, read |-> worker'.read]
      /\ worker'.pc = IF Settled(job') THEN "off" ELSE worker.pc
  BY <1>2, <1>4, TerminatedFacts
<1> HIDE DEF k
<1>6. CASE job.state = "none"
  BY <1>1, <1>6 DEF JobInv, JobOk
<1>7. CASE job.state \in {"resolved", "rejected"}
  <2>1. job' = job
    BY <1>1, <1>2, <1>3, <1>7, DeliveredFacts DEF Settled
  <2>2. worker'.pc = "off"
    BY <1>5, <1>7, <2>1 DEF Settled
  <2>3. JobInv'
    BY <1>5, <1>7, <2>1, <2>2 DEF JobInv, JobOk
  <2> QED BY <1>7, <2>1, <2>2, <2>3 DEF Kept, JobInv, JobOk
<1>8. CASE job.state = "running"
  <2>1. ~job.aborted
    BY <1>1, <1>8 DEF JobInv, JobOk
  <2> QED BY <1>1, <1>3, <1>5, <1>8, <2>1, RunStep
<1> QED BY <1>2, <1>6, <1>7, <1>8

\* So is one that cannot be read.
LEMMA UnreadableStep ==
  ASSUME JobInv, Unreadable  PROVE Kept
<1> DEFINE b == Head(box).type \in {"success", "error"}
           j == [job EXCEPT !.unanswered = b]
           failed == "worker-failure"
<1>1. box # <<>> /\ ~Settled(job) /\ job' = (IF job.kind = "case" THEN Reject(job, failed) ELSE j)
      /\ worker' = Terminated(job')
  BY DEF Unreadable
<1>2. IsJob(job) /\ job.state \in {"none", "running", "resolved", "rejected"}
      /\ worker = [pc |-> worker.pc, input |-> worker.input, read |-> worker.read]
  BY DEF JobInv, JobOk, IsJob
<1> HIDE DEF b, failed
<1>3. Same(j, job, {"unanswered"})
  BY <1>2 DEF IsJob, Same, Fields
<1> HIDE DEF j
<1>4. Proceeds(j, job) /\ j.state = job.state
  BY <1>2, <1>3 DEF IsJob, Same, Fields, Proceeds
<1>5. Proceeds(job', job) /\ job'.state # "resolved"
  <2>1. Proceeds(Reject(job, failed), job) /\ Reject(job, failed).state = "rejected"
    BY <1>2, ProceedFacts, ChangeFacts
  <2> QED BY <1>1, <1>4, <2>1 DEF Settled
<1>6. worker' = IF Settled(job') THEN [worker EXCEPT !.pc = "off"] ELSE worker
  BY <1>1 DEF Terminated
<1>7. /\ worker' = [pc |-> worker'.pc, input |-> worker'.input, read |-> worker'.read]
      /\ worker'.pc = IF Settled(job') THEN "off" ELSE worker.pc
  BY <1>2, <1>6, TerminatedFacts
<1>8. job.state = "running"
  BY <1>1, <1>2 DEF Settled, JobInv, JobOk
<1> DEFINE k == job'
<1>9. Proceeds(k, job) /\ job' = k /\ k.state # "resolved"
  BY <1>5
<1> HIDE DEF k
<1> QED BY <1>1, <1>7, <1>8, <1>9, RunStep

\* A failure of the worker or of a read on the page.
LEMMA FailStep ==
  ASSUME JobInv, job.state = "running", NEW why, job' = Reject(job, why), worker' = Terminated(job'), box' = box
  PROVE  Kept
<1>1. IsJob(job) /\ worker = [pc |-> worker.pc, input |-> worker.input, read |-> worker.read]
  BY DEF JobInv, JobOk
<1> DEFINE k == Reject(job, why)
<1>2. Proceeds(k, job) /\ k.state = "rejected"
  BY <1>1, ProceedFacts, ChangeFacts
<1>3. worker' = IF Settled(job') THEN [worker EXCEPT !.pc = "off"] ELSE worker
  BY DEF Terminated
<1>4. /\ worker' = [pc |-> worker'.pc, input |-> worker'.input, read |-> worker'.read]
      /\ worker'.pc = IF Settled(job') THEN "off" ELSE worker.pc
  BY <1>1, <1>3, TerminatedFacts
<1>5. job' = k
  OBVIOUS
<1> HIDE DEF k
<1> QED BY <1>2, <1>4, <1>5, RunStep

\* A worker that fails rejects the job that waits for it.
LEMMA CrashStep ==
  ASSUME JobInv, Crash \/ InlineThrows  PROVE Kept
<1> DEFINE failed == "worker-failure"
           io == "io-error"
<1>1. /\ job' = Reject(job, failed) \/ job' = Reject(job, io)
      /\ worker' = Terminated(job') /\ box' = box /\ worker.pc # "off"
  BY DEF Crash, InlineThrows
<1>2. job.state = "running"
  BY <1>1 DEF JobInv, JobOk
<1> HIDE DEF failed, io
<1> QED BY <1>1, <1>2, FailStep

\* A cancelled job is rejected at once, or has no worker and ends without a download.
LEMMA AbortStep ==
  ASSUME JobInv, Abort  PROVE Kept
<1> DEFINE cancelled == "cancelled"
           j == IF job.listening THEN Reject(job, cancelled) ELSE job
<1>1. /\ job.state = "running" /\ job.kind # "evidence" /\ ~job.aborted
      /\ job' = [j EXCEPT !.aborted = TRUE] /\ worker' = Terminated(job') /\ box' = box
  BY DEF Abort
<1>2. IsJob(job) /\ worker = [pc |-> worker.pc, input |-> worker.input, read |-> worker.read] /\ ~job.downloaded
      /\ job.kind \in Kinds \ {"none"} /\ job.listening \in BOOLEAN /\ job.downloaded \in BOOLEAN
      /\ (~job.listening => box = <<>> /\ worker.pc \in {"inline-reading", "inline-building"})
      /\ (worker.pc = "inline-reading" => job.kind = "session")
      /\ (worker.pc = "inline-building" => job.kind = "bundle")
  BY <1>1 DEF JobInv, JobOk, Downloads, IsJob
<1> HIDE DEF cancelled
<1>3. Proceeds(j, job) /\ j.listening = FALSE /\ j.state = (IF job.listening THEN "rejected" ELSE "running")
  BY <1>1, <1>2, ProceedFacts, ChangeFacts
<1> HIDE DEF j
<1>4. Same(job', j, {"aborted"}) /\ job'.aborted = TRUE
  BY <1>1, <1>3 DEF Proceeds, IsJob, Same, Fields
<1>5. /\ IsJob(job') /\ job'.listening = FALSE /\ job'.kind = job.kind /\ job'.downloaded = FALSE
      /\ job'.state = (IF job.listening THEN "rejected" ELSE "running")
  BY <1>2, <1>3, <1>4 DEF Proceeds, IsJob, Same, Fields
<1>6. worker' = IF Settled(job') THEN [worker EXCEPT !.pc = "off"] ELSE worker
  BY <1>1 DEF Terminated
<1>7. /\ worker' = [pc |-> worker'.pc, input |-> worker'.input, read |-> worker'.read]
      /\ worker'.pc = IF Settled(job') THEN "off" ELSE worker.pc
  BY <1>2, <1>6, TerminatedFacts
<1>8. JobInv'
  <2>1. CASE job.listening
    <3>1. job'.state = "rejected" /\ worker'.pc = "off"
      BY <1>5, <1>7, <2>1 DEF Settled
    <3> QED BY <1>1, <1>2, <1>4, <1>5, <1>7, <3>1 DEF JobInv, JobOk, Downloads, Kinds
  <2>2. CASE ~job.listening
    <3>1. job'.state = "running" /\ worker'.pc = worker.pc
      BY <1>5, <1>7, <2>2 DEF Settled
    <3> QED BY <1>1, <1>2, <1>4, <1>5, <1>7, <2>2, <3>1 DEF JobInv, JobOk, Downloads, Kinds
  <2> QED BY <2>1, <2>2
<1> QED BY <1>1, <1>5, <1>7, <1>8 DEF Kept, Settled

\* The work the page does itself ends its job, unless it was cancelled meanwhile.
LEMMA InlineStep ==
  ASSUME JobInv, InlineChunk \/ InlineEnds \/ InlineBuilt  PROVE Kept
<1> DEFINE r == worker.input
           whole == [i \in 1..r.n |-> i]
           value == [rows |-> whole, frames |-> whole, artifact |-> ArtifactText(r)]
           built == [of |-> "asked"]
           p == Percent("reading", worker.read + 1, r.size)
           full == 100
           j == Report(job, full)
<1>1. IsJob(job) /\ worker = [pc |-> worker.pc, input |-> worker.input, read |-> worker.read]
      /\ job.state = "running" /\ worker.pc \in {"inline-reading", "inline-building"}
      /\ box = <<>> /\ job.kind = (IF worker.pc = "inline-reading" THEN "session" ELSE "bundle")
      /\ box' = box
  BY DEF JobInv, JobOk, InlineChunk, InlineEnds, InlineBuilt
<1>2. \/ /\ worker.pc = "inline-reading"
         /\ \/ \E why \in {"io-error", "cancelled", CoreEnd(r)} : job' = Reject(job, why)
            \/ job' = Report(job, p)
            \/ ~job.aborted /\ job' = Resolve(j, value)
      \/ /\ worker.pc = "inline-building"
         /\ \E k : job' = Delivered(k) /\ (k = Resolve(job, built) \/ \E why \in {"limit"} : k = Reject(job, why))
  BY DEF InlineChunk, InlineEnds, InlineBuilt
<1>3. worker' = Terminated(job') \/ worker' = [Terminated(job') EXCEPT !.read = @ + 1]
  BY DEF InlineChunk, InlineEnds, InlineBuilt
<1>4. /\ worker' = [pc |-> worker'.pc, input |-> worker'.input, read |-> worker'.read]
      /\ worker'.pc = IF Settled(job') THEN "off" ELSE worker.pc
  <2>1. CASE Settled(job')
    BY <1>1, <1>3, <2>1 DEF Terminated
  <2>2. CASE ~Settled(job')
    BY <1>1, <1>3, <2>2 DEF Terminated
  <2> QED BY <2>1, <2>2
<1> HIDE DEF r, value, built, p, full
<1>5. /\ \A why : Proceeds(Reject(job, why), job) /\ Reject(job, why).state = "rejected"
      /\ \A v : Proceeds(Resolve(job, v), job)
      /\ Proceeds(Report(job, p), job) /\ Report(job, p).state = job.state
      /\ Proceeds(Resolve(j, value), job) /\ j.kind = job.kind
  <2>1. IsJob(j) /\ Same(j, job, {"percent"})
    BY <1>1, ChangeFacts
  <2>2. \A why : Proceeds(Reject(job, why), job) /\ Reject(job, why).state = "rejected"
    BY <1>1, ProceedFacts, ChangeFacts
  <2>3. \A v : Proceeds(Resolve(job, v), job)
    BY <1>1, ProceedFacts
  <2>4. Proceeds(Report(job, p), job) /\ Report(job, p).state = job.state
    <3>1. Same(Report(job, p), job, {"percent"})
      BY <1>1, ChangeFacts
    <3> QED BY <1>1, <3>1, ProceedFacts DEF Same, Fields
  <2> HIDE DEF j
  <2>5. Proceeds(Resolve(j, value), j)
    BY <2>1, ProceedFacts
  <2>6. j.kind = job.kind /\ j.aborted = job.aborted /\ j.downloaded = job.downloaded /\ j.state = job.state
        /\ j.listening = job.listening
    BY <2>1 DEF Same, Fields
  <2>7. Proceeds(Resolve(j, value), job)
    BY <2>5, <2>6 DEF Proceeds
  <2> QED BY <2>2, <2>3, <2>4, <2>6, <2>7
<1>6. PICK k : /\ Proceeds(k, job) /\ (job' = k \/ job' = Delivered(k))
               /\ k.state = "resolved" => job' = Delivered(k) \/ k.kind # "bundle"
               /\ k.state = "resolved" => job.kind = "bundle" \/ ~job.aborted
  <2> HIDE DEF j
  <2>1. CASE worker.pc = "inline-building"
    BY <1>1, <1>2, <1>5, <2>1
  <2>2. CASE worker.pc = "inline-reading"
    <3>1. Proceeds(job', job) /\ (job'.state = "resolved" => ~job.aborted)
      BY <1>1, <1>2, <1>5, <2>2
    <3>2. job'.kind = "session"
      BY <1>1, <2>2, <3>1 DEF Proceeds
    <3> QED BY <3>1, <3>2
  <2> QED BY <1>1, <2>1, <2>2
<1> QED BY <1>1, <1>4, <1>6, RunStep

\* At first there is no job.
LEMMA InitJob == Init => JobInv
<1> SUFFICES ASSUME Init  PROVE JobInv
  OBVIOUS
<1>1. job = NoJob /\ worker = Off /\ box = <<>>
  BY DEF Init
<1>2. worker = [pc |-> worker.pc, input |-> worker.input, read |-> worker.read] /\ worker.pc = "off"
  BY <1>1 DEF Off
<1> QED BY <1>1, <1>2, NoJobFacts DEF JobInv, JobOk, Downloads

\* Every action keeps the invariant and leaves a settled job as it is.
LEMMA NextJob == JobInv /\ Next => Kept
<1> SUFFICES ASSUME JobInv, Next  PROVE Kept
  OBVIOUS
<1>1. CASE Begin  BY <1>1, BeginStep
<1>2. CASE Works  BY <1>2, ReadStep, InlineStep DEF Works
<1>3. CASE Deliver  BY <1>3, DeliverStep
<1>4. CASE ReadThrows  BY <1>4, ReadStep
<1>5. CASE InlineThrows \/ Crash  BY <1>5, CrashStep
<1>6. CASE Unreadable  BY <1>6, UnreadableStep
<1>7. CASE Abort  BY <1>7, AbortStep
<1> QED BY <1>1, <1>2, <1>3, <1>4, <1>5, <1>6, <1>7 DEF Next

\* The invariant, of all behaviours.
LEMMA JobInvHolds == Spec => []JobInv
<1>1. JobInv /\ [Next]_vars => JobInv'
  <2> SUFFICES ASSUME JobInv, [Next]_vars  PROVE JobInv'
    OBVIOUS
  <2>1. CASE Next  BY <2>1, NextJob DEF Kept
  <2>2. CASE UNCHANGED vars  BY <2>2 DEF vars, JobInv
  <2> QED BY <2>1, <2>2
<1> QED BY <1>1, InitJob, PTL DEF Spec

\* A job settles once, whatever is delivered afterwards, and a job that has settled has let go of its
\* worker and its signal.
THEOREM SettledStays == Spec => SettledIsFinal
<1>1. JobInv /\ [Next]_vars
        => [/\ Settled(job) => job' = job
            /\ Settled(job') => worker'.pc = "off" /\ ~job'.listening]_vars
  BY NextJob DEF Kept
<1> QED BY <1>1, JobInvHolds, PTL DEF Spec, SettledIsFinal

\* A user who cancels is given nothing: no download, and no result but that of a bundle whose worker
\* could not be stopped.
THEOREM NothingAfterCancel == Spec => []CancelledYieldsNothing
<1>1. JobInv => CancelledYieldsNothing
  BY DEF JobInv, JobOk, Downloads, IsJob, CancelledYieldsNothing
<1> QED BY <1>1, JobInvHolds, PTL

-----------------------------------------------------------------------------
(* Sequences and numbers *)

\* A sequence, of whatever elements.
IsSeq(s) == Len(s) \in Nat /\ s = [i \in 1..Len(s) |-> s[i]]

\* An append keeps a sequence and adds one element at its end.
LEMMA AppendTo ==
  ASSUME NEW s, NEW e, IsSeq(s)
  PROVE  /\ IsSeq(Append(s, e)) /\ Len(Append(s, e)) = Len(s) + 1
         /\ Append(s, e)[Len(s) + 1] = e
         /\ \A i \in 1..Len(s) : Append(s, e)[i] = s[i]
<1> DEFINE S == {s[i] : i \in 1..Len(s)} \cup {e}
<1>1. s \in Seq(S)
  BY DEF IsSeq
<1> HIDE DEF S
<1>2. e \in S
  BY DEF S
<1>3. /\ Append(s, e) \in Seq(S) /\ Len(Append(s, e)) = Len(s) + 1 /\ Append(s, e)[Len(s) + 1] = e
      /\ \A i \in 1..Len(s) : Append(s, e)[i] = s[i]
  BY <1>1, <1>2
<1>4. IsSeq(Append(s, e))
  <2> DEFINE t == Append(s, e)
  <2>1. t \in Seq(S)  BY <1>3
  <2> HIDE DEF t
  <2>2. Len(t) \in Nat /\ t = [i \in 1..Len(t) |-> t[i]]
    BY <2>1
  <2> QED  BY <2>2 DEF IsSeq, t
<1> QED  BY <1>3, <1>4

\* A set of numbers has a least element.
LEMMA NatMin ==
  ASSUME NEW S \in SUBSET Nat, S # {}
  PROVE  \E n \in S : \A m \in S : n <= m
<1> DEFINE R == OpToRel(<, Nat)
<1>1. IsWellFoundedOn(R, Nat)
  BY NatLessThanWellFounded
<1>2. \A x, y \in Nat : <<x, y>> \in R <=> x < y
  BY DEF OpToRel
<1> HIDE DEF R
<1>3. \E x \in S : \A y \in S : ~(<<y, x>> \in R)
  BY <1>1, WFMin
<1>4. PICK x \in S : \A y \in S : ~(<<y, x>> \in R)
  BY <1>3
<1>5. \A y \in S : ~(y < x)
  BY <1>2, <1>4, Zenon
<1>6. \A y \in S : x <= y
  BY <1>5
<1> QED
  BY <1>6

\* Induction, for a set of numbers.
LEMMA SetInduction ==
  ASSUME NEW S, 0 \in S, \A n \in Nat : n \in S => n + 1 \in S
  PROVE  Nat \subseteq S
<1> SUFFICES ASSUME Nat \ S # {} PROVE FALSE
  OBVIOUS
<1>1. PICK n \in Nat \ S : \A m \in Nat \ S : n <= m
  BY NatMin
<1>2. n # 0 /\ n - 1 \in Nat /\ ~(n <= n - 1)
  BY <1>1
<1>3. n - 1 \in S
  BY <1>1, <1>2
<1>4. (n - 1) + 1 = n
  BY <1>1
<1>5. n \in S
  BY <1>2, <1>3, <1>4
<1> QED
  BY <1>1, <1>5

\* A concatenation has the elements of its parts, in this order.
LEMMA JoinFacts ==
  ASSUME NEW s, NEW t, IsSeq(s), IsSeq(t)
  PROVE  /\ IsSeq(s \o t) /\ Len(s \o t) = Len(s) + Len(t)
         /\ \A i \in 1..Len(s) : (s \o t)[i] = s[i]
         /\ \A i \in 1..Len(t) : (s \o t)[Len(s) + i] = t[i]
<1> DEFINE S == {s[i] : i \in 1..Len(s)} \cup {t[i] : i \in 1..Len(t)}
           u == s \o t
<1>1. s \in Seq(S) /\ t \in Seq(S) /\ Len(s) \in Nat /\ Len(t) \in Nat
  BY DEF IsSeq
<1> HIDE DEF S
<1>2. /\ u \in Seq(S) /\ Len(u) = Len(s) + Len(t)
      /\ \A i \in 1..Len(u) : u[i] = IF i <= Len(s) THEN s[i] ELSE t[i - Len(s)]
  BY <1>1
<1> HIDE DEF u
<1>3. IsSeq(u)
  BY <1>2 DEF IsSeq
<1>4. \A i \in 1..Len(s) : u[i] = s[i]
  BY <1>1, <1>2
<1>5. ASSUME NEW i \in 1..Len(t)  PROVE u[Len(s) + i] = t[i]
  <2>1. Len(s) + i \in 1..Len(u) /\ ~(Len(s) + i <= Len(s)) /\ (Len(s) + i) - Len(s) = i
    BY <1>1, <1>2
  <2> QED BY <1>2, <2>1
<1> QED BY <1>2, <1>3, <1>4, <1>5 DEF u

\* A tail has the elements of its sequence but the first.
LEMMA TailFacts ==
  ASSUME NEW s, IsSeq(s), s # <<>>
  PROVE  /\ IsSeq(Tail(s)) /\ Len(Tail(s)) = Len(s) - 1 /\ Head(s) = s[1] /\ Len(s) >= 1
         /\ \A i \in 1..Len(Tail(s)) : i + 1 \in 1..Len(s) /\ Tail(s)[i] = s[i + 1]
<1> DEFINE S == {s[i] : i \in 1..Len(s)}
           u == Tail(s)
<1>1. s \in Seq(S) /\ Len(s) \in Nat
  BY DEF IsSeq
<1> HIDE DEF S
<1>2. /\ u \in Seq(S) /\ Len(u) = Len(s) - 1 /\ \A i \in 1..Len(u) : u[i] = s[i + 1]
      /\ Len(s) >= 1 /\ Head(s) = s[1]
  BY <1>1
<1> HIDE DEF u
<1>3. IsSeq(u)
  BY <1>2 DEF IsSeq
<1>4. \A i \in 1..Len(u) : i + 1 \in 1..Len(s) /\ u[i] = s[i + 1]
  BY <1>1, <1>2
<1> QED BY <1>2, <1>3, <1>4 DEF u

\* Sequences of no, one and two elements, and one given by its elements.
LEMMA FewFacts ==
  ASSUME NEW a, NEW b
  PROVE  /\ IsSeq(<<>>) /\ Len(<<>>) = 0
         /\ IsSeq(<<a>>) /\ Len(<<a>>) = 1 /\ <<a>>[1] = a
         /\ IsSeq(<<a, b>>) /\ Len(<<a, b>>) = 2 /\ <<a, b>>[1] = a /\ <<a, b>>[2] = b
<1>1. Len(<<a, b>>) = 2 /\ <<a, b>> \in Seq({a, b}) /\ <<a, b>>[1] = a /\ <<a, b>>[2] = b
  OBVIOUS
<1>2. Len(<<a>>) = 1 /\ <<a>> \in Seq({a}) /\ <<a>>[1] = a
  OBVIOUS
<1> QED BY <1>1, <1>2 DEF IsSeq

LEMMA GivenFacts ==
  ASSUME NEW n \in Nat, NEW s, s = [i \in 1..n |-> s[i]]
  PROVE  IsSeq(s) /\ Len(s) = n /\ DOMAIN s = 1..n
<1>1. Len(s) = n
  OBVIOUS
<1> QED BY <1>1 DEF IsSeq

\* The whole part of a quotient.
LEMMA DivFacts ==
  ASSUME NEW a \in Nat, NEW c \in Nat \ {0}
  PROVE  a \div c \in Nat /\ (a \div c) * c <= a /\ a < (a \div c) * c + c
OBVIOUS

LEMMA TimesFacts ==
  ASSUME NEW i \in Nat, NEW j \in Nat, i <= j, NEW c \in Nat
  PROVE  i * c \in Nat /\ j * c \in Nat /\ i * c <= j * c /\ (i < j => i * c + c <= j * c)
<1>1. PICK k \in Nat : j = i + k
  <2>1. j - i \in Nat /\ j = i + (j - i)
    OBVIOUS
  <2> QED BY <2>1
<1>2. j * c = i * c + k * c /\ i * c \in Nat /\ k * c \in Nat
  BY <1>1
<1>3. i < j => k * c >= c
  <2> SUFFICES ASSUME i < j PROVE k * c >= c
    OBVIOUS
  <2>1. PICK l \in Nat : k = l + 1
    <3>1. k - 1 \in Nat /\ k = (k - 1) + 1
      BY <1>1
    <3> QED BY <3>1
  <2>2. k * c = l * c + c /\ l * c \in Nat
    BY <2>1
  <2> QED BY <2>2
<1> QED BY <1>2, <1>3

LEMMA DivGrows ==
  ASSUME NEW a \in Nat, NEW b \in Nat, a <= b, NEW c \in Nat \ {0}
  PROVE  a \div c <= b \div c
<1>1. PICK q \in Nat, r \in Nat : /\ q = a \div c /\ r = b \div c /\ q * c <= a /\ b < r * c + c
  BY DivFacts
<1>2. CASE r < q
  <2>1. r * c + c <= q * c /\ q * c \in Nat /\ r * c \in Nat
    BY <1>2, TimesFacts
  <2> QED BY <1>1, <2>1
<1> QED BY <1>1, <1>2

-----------------------------------------------------------------------------
(* Percentages *)

\* A phase reports between its weights, and never less for more that is done.
LEMMA PercentFacts ==
  ASSUME NEW phase, NEW lo \in Nat, NEW hi \in Nat, lo <= hi, Weight[phase] = <<lo, hi>>,
         NEW total \in Nat, NEW done \in 0..total
  PROVE  Percent(phase, done, total) \in lo..hi
<1>1. CASE total = 0
  BY <1>1 DEF Percent
<1>2. CASE total # 0
  <2>1. PICK w \in Nat : w = hi - lo
    OBVIOUS
  <2>2. PICK a, b : a = w * done /\ b = w * total /\ a \in Nat /\ b \in Nat /\ a <= b
    <3>1. done \in Nat /\ done <= total
      OBVIOUS
    <3>2. done * w \in Nat /\ total * w \in Nat /\ done * w <= total * w
      BY <3>1, TimesFacts
    <3> QED BY <3>2
  <2>3. total \in Nat \ {0}
    BY <1>2
  <2>4. PICK q \in Nat : q = a \div total /\ q * total <= a
    BY <2>2, <2>3, DivFacts
  <2>5. CASE q > w
    <3>1. w * total + total <= q * total
      BY <2>1, <2>4, <2>5, TimesFacts
    <3> QED BY <2>2, <2>3, <2>4, <3>1
  <2>6. CASE q <= w
    <3>1. Percent(phase, done, total) = lo + q
      BY <1>2, <2>1, <2>2, <2>4 DEF Percent
    <3> QED BY <2>1, <2>4, <2>6, <3>1
  <2> QED BY <2>1, <2>4, <2>5, <2>6
<1> QED BY <1>1, <1>2

LEMMA PercentGrows ==
  ASSUME NEW phase, NEW lo \in Nat, NEW hi \in Nat, lo <= hi, Weight[phase] = <<lo, hi>>,
         NEW total \in Nat, NEW less \in 0..total, NEW more \in 0..total, less <= more
  PROVE  Percent(phase, less, total) <= Percent(phase, more, total)
<1>1. CASE total = 0
  BY <1>1 DEF Percent
<1>2. CASE total # 0
  <2>1. PICK w \in Nat : w = hi - lo
    OBVIOUS
  <2>2. PICK a \in Nat, b \in Nat : a = w * less /\ b = w * more /\ a <= b
    <3>1. less \in Nat /\ more \in Nat
      OBVIOUS
    <3>2. less * w \in Nat /\ more * w \in Nat /\ less * w <= more * w
      BY <3>1, TimesFacts
    <3> QED BY <3>2
  <2>3. total \in Nat \ {0}
    BY <1>2
  <2>4. a \div total <= b \div total /\ a \div total \in Nat /\ b \div total \in Nat
    BY <2>2, <2>3, DivGrows, DivFacts
  <2>5. Percent(phase, less, total) = lo + (a \div total) /\ Percent(phase, more, total) = lo + (b \div total)
    BY <1>2, <2>1, <2>2 DEF Percent
  <2> QED BY <2>4, <2>5
<1> QED BY <1>1, <1>2

\* The phases, each with its weights.
LEMMA PhaseFacts ==
  /\ Weight["reading"] = <<0, 20>> /\ Weight["parsing"] = <<20, 32>> /\ Weight["validating"] = <<32, 50>>
  /\ Weight["decoding"] = <<50, 72>> /\ Weight["aggregating"] = <<72, 82>>
  /\ Weight["canonicalizing"] = <<82, 90>> /\ Weight["transferring"] = <<90, 100>>
BY DEF Weight

\* Numbers that never fall, between lo and hi.
Climbs(s, lo, hi) ==
  /\ IsSeq(s)
  /\ \A i \in 1..Len(s) : s[i] \in Int /\ lo <= s[i] /\ s[i] <= hi
  /\ \A i \in 1..Len(s) : \A j \in 1..i : s[j] <= s[i]

LEMMA ClimbJoin ==
  ASSUME NEW s, NEW t, NEW lo \in Int, NEW mid \in Int, NEW hi \in Int, lo <= mid, mid <= hi,
         Climbs(s, lo, mid), Climbs(t, mid, hi)
  PROVE  Climbs(s \o t, lo, hi)
<1> DEFINE u == s \o t
<1>1. /\ IsSeq(u) /\ Len(u) = Len(s) + Len(t) /\ Len(s) \in Nat /\ Len(t) \in Nat
      /\ \A i \in 1..Len(s) : u[i] = s[i]
      /\ \A i \in 1..Len(t) : u[Len(s) + i] = t[i]
  BY JoinFacts DEF Climbs, IsSeq
<1> HIDE DEF u
<1>2. \A i \in 1..Len(u) : i \in 1..Len(s) \/ \E k \in 1..Len(t) : i = Len(s) + k
  <2> SUFFICES ASSUME NEW i \in 1..Len(u), ~(i \in 1..Len(s)) PROVE \E k \in 1..Len(t) : i = Len(s) + k
    OBVIOUS
  <2>1. i - Len(s) \in 1..Len(t) /\ i = Len(s) + (i - Len(s))
    BY <1>1
  <2> QED BY <2>1
<1>3. \A i \in 1..Len(u) : u[i] \in Int /\ lo <= u[i] /\ u[i] <= hi
  <2> SUFFICES ASSUME NEW i \in 1..Len(u) PROVE u[i] \in Int /\ lo <= u[i] /\ u[i] <= hi
    OBVIOUS
  <2>1. CASE i \in 1..Len(s)
    BY <1>1, <2>1 DEF Climbs
  <2>2. CASE \E k \in 1..Len(t) : i = Len(s) + k
    BY <1>1, <2>2 DEF Climbs
  <2> QED BY <1>2, <2>1, <2>2
<1>4. ASSUME NEW i \in 1..Len(u), NEW j \in 1..i  PROVE u[j] <= u[i]
  <2>1. j \in 1..Len(u)
    BY <1>1
  <2>2. CASE i \in 1..Len(s)
    <3>1. j \in 1..Len(s)
      BY <1>1, <2>2
    <3> QED BY <1>1, <2>2, <3>1 DEF Climbs
  <2>3. CASE j \in 1..Len(s) /\ \E k \in 1..Len(t) : i = Len(s) + k
    <3>1. PICK k \in 1..Len(t) : i = Len(s) + k
      BY <2>3
    <3>2. u[j] = s[j] /\ u[i] = t[k] /\ s[j] \in Int /\ s[j] <= mid /\ t[k] \in Int /\ mid <= t[k]
      BY <1>1, <2>3, <3>1 DEF Climbs
    <3> QED BY <3>2
  <2>4. CASE \E l \in 1..Len(t) : j = Len(s) + l
    <3>1. PICK l \in 1..Len(t) : j = Len(s) + l
      BY <2>4
    <3>2. PICK k \in 1..Len(t) : i = Len(s) + k
      <4>1. ~(i \in 1..Len(s))
        BY <1>1, <3>1
      <4> QED BY <1>2, <4>1
    <3>3. l \in 1..k /\ u[j] = t[l] /\ u[i] = t[k]
      BY <1>1, <3>1, <3>2
    <3> QED BY <3>3 DEF Climbs
  <2> QED BY <1>2, <2>1, <2>2, <2>3, <2>4
<1> QED BY <1>1, <1>3, <1>4 DEF Climbs, u

LEMMA ClimbTail ==
  ASSUME NEW s, NEW lo, NEW hi, Climbs(s, lo, hi), s # <<>>
  PROVE  Climbs(Tail(s), lo, hi)
<1> DEFINE u == Tail(s)
<1>1. /\ IsSeq(u) /\ Len(u) = Len(s) - 1 /\ Len(s) \in Nat
      /\ \A i \in 1..Len(u) : i + 1 \in 1..Len(s) /\ u[i] = s[i + 1]
  BY TailFacts DEF Climbs, IsSeq
<1> HIDE DEF u
<1>2. ASSUME NEW i \in 1..Len(u), NEW j \in 1..i  PROVE u[j] <= u[i]
  <2>1. j \in 1..Len(u) /\ j + 1 \in 1..(i + 1)
    BY <1>1
  <2> QED BY <1>1, <2>1 DEF Climbs
<1> QED BY <1>1, <1>2 DEF Climbs, u

\* One or two numbers climb.
LEMMA ClimbFew ==
  ASSUME NEW a \in Int, NEW b \in Int, a <= b
  PROVE  Climbs(<<>>, a, b) /\ Climbs(<<a>>, a, b) /\ Climbs(<<b>>, a, b) /\ Climbs(<<a, b>>, a, b)
<1>1. Climbs(<<>>, a, b)
  <2>1. PICK s : s = <<>> /\ IsSeq(s) /\ Len(s) = 0
    BY FewFacts
  <2>2. Climbs(s, a, b)
    BY <2>1 DEF Climbs
  <2> QED BY <2>1, <2>2
<1>2. ASSUME NEW x \in a..b  PROVE Climbs(<<x>>, a, b)
  <2>1. PICK s : s = <<x>>
    OBVIOUS
  <2>2. IsSeq(s) /\ Len(s) = 1 /\ s[1] = x
    BY <2>1, FewFacts
  <2>3. Climbs(s, a, b)
    BY <2>2 DEF Climbs
  <2> QED BY <2>1, <2>3
<1>3. Climbs(<<a, b>>, a, b)
  <2>1. PICK s : s = <<a, b>>
    OBVIOUS
  <2>2. IsSeq(s) /\ Len(s) = 2 /\ s[1] = a /\ s[2] = b
    BY <2>1, FewFacts
  <2>3. Climbs(s, a, b)
    BY <2>2 DEF Climbs
  <2> QED BY <2>1, <2>3
<1> QED BY <1>1, <1>2, <1>3

\* Wider bounds are bounds.
LEMMA ClimbWide ==
  ASSUME NEW s, NEW a \in Int, NEW b \in Int, NEW lo \in Int, NEW hi \in Int, Climbs(s, a, b), lo <= a, b <= hi
  PROVE  Climbs(s, lo, hi)
BY DEF Climbs

\* What a phase reports climbs with what is done.
LEMMA ClimbReports ==
  ASSUME NEW phase, NEW lo \in Nat, NEW hi \in Nat, lo <= hi, Weight[phase] = <<lo, hi>>,
         NEW total \in Nat, NEW ks, Climbs(ks, 0, total)
  PROVE  Climbs(Reports(phase, ks, total), lo, hi) /\ Len(Reports(phase, ks, total)) = Len(ks)
<1> DEFINE s == Reports(phase, ks, total)
<1>1. DOMAIN ks = 1..Len(ks) /\ Len(ks) \in Nat
  BY DEF Climbs, IsSeq
<1>2. s = [i \in 1..Len(ks) |-> Percent(phase, ks[i], total)]
  BY <1>1 DEF Reports
<1>3. \A i \in 1..Len(ks) : ks[i] \in 0..total
  BY DEF Climbs
<1>4. s = [i \in 1..Len(ks) |-> s[i]] /\ \A i \in 1..Len(ks) : s[i] = Percent(phase, ks[i], total)
  BY <1>2
<1> HIDE DEF s
<1>5. IsSeq(s) /\ Len(s) = Len(ks)
  BY <1>1, <1>4, GivenFacts
<1>6. \A i \in 1..Len(s) : s[i] \in lo..hi
  BY <1>3, <1>4, <1>5, PercentFacts
<1>7. ASSUME NEW i \in 1..Len(s), NEW j \in 1..i  PROVE s[j] <= s[i]
  <2>1. j \in 1..Len(ks) /\ ks[j] \in 0..total /\ ks[i] \in 0..total /\ ks[j] <= ks[i]
    BY <1>1, <1>3, <1>5 DEF Climbs
  <2> QED BY <1>4, <1>5, <2>1, PercentGrows
<1> QED BY <1>5, <1>6, <1>7 DEF Climbs, s

-----------------------------------------------------------------------------
(* What the workers report *)

\* The multiples of k up to n begin at 0, never fall and end with n; none exceeds the next multiple.
LEMMA MultiplesFacts ==
  ASSUME NEW n \in Nat, NEW k \in Nat \ {0}
  PROVE  LET s == Multiples(n, k)
             l == (n + k - 1) \div k
         IN /\ l \in Nat /\ IsSeq(s) /\ Len(s) = l + 1 /\ Climbs(s, 0, n)
            /\ s[1] = 0 /\ s[l + 1] = n
            /\ \A i \in 1..l : s[i] = (i - 1) * k /\ s[i] \in Nat /\ s[i + 1] = Least(n, i * k)
                               /\ s[i + 1] <= s[i] + k
<1> DEFINE s == Multiples(n, k)
           l == (n + k - 1) \div k
<1>1. l \in Nat /\ l * k <= n + k - 1 /\ n + k - 1 < l * k + k
  <2>1. PICK a \in Nat : a = n + k - 1
    OBVIOUS
  <2>2. a \div k \in Nat /\ (a \div k) * k <= a /\ a < (a \div k) * k + k
    BY <2>1, DivFacts
  <2> QED BY <2>1, <2>2
<1>2. s = [i \in 1..(l + 1) |-> Least(n, (i - 1) * k)]
  BY DEF Multiples
<1> HIDE DEF l
<1>3. l + 1 \in Nat /\ s = [i \in 1..(l + 1) |-> s[i]] /\ \A i \in 1..(l + 1) : s[i] = Least(n, (i - 1) * k)
  BY <1>1, <1>2
<1> HIDE DEF s
<1>4. IsSeq(s) /\ Len(s) = l + 1
  BY <1>3, GivenFacts
<1>5. ASSUME NEW i \in 1..(l + 1), NEW j \in 1..i
      PROVE  s[i] \in 0..n /\ s[j] <= s[i]
  <2>1. PICK a \in Nat, b \in Nat : a = j - 1 /\ b = i - 1 /\ a <= b
    <3>1. j - 1 \in Nat /\ i - 1 \in Nat /\ j - 1 <= i - 1
      BY <1>1
    <3> QED BY <3>1
  <2>2. a * k \in Nat /\ b * k \in Nat /\ a * k <= b * k
    BY <2>1, TimesFacts
  <2>3. j \in 1..(l + 1)
    BY <1>1
  <2>4. s[i] = Least(n, b * k) /\ s[j] = Least(n, a * k)
    BY <1>3, <2>1, <2>3
  <2> QED BY <2>2, <2>4 DEF Least
<1>6. Climbs(s, 0, n)
  BY <1>4, <1>5 DEF Climbs
<1>7. s[1] = 0
  <2>1. 1 \in 1..(l + 1) /\ (1 - 1) * k = 0
    BY <1>1
  <2> QED BY <1>3, <2>1 DEF Least
<1>8. s[l + 1] = n
  <2>1. l + 1 \in 1..(l + 1) /\ ((l + 1) - 1) * k = l * k /\ l * k \in Nat /\ n <= l * k
    BY <1>1
  <2> QED BY <1>3, <2>1 DEF Least
<1>9. ASSUME NEW i \in 1..l
      PROVE  s[i] = (i - 1) * k /\ s[i] \in Nat /\ s[i + 1] = Least(n, i * k) /\ s[i + 1] <= s[i] + k
  <2>1. PICK a \in Nat : a = i - 1 /\ a < l
    <3>1. i - 1 \in Nat /\ i - 1 < l
      BY <1>1
    <3> QED BY <3>1
  <2>2. i \in 1..(l + 1) /\ i + 1 \in 1..(l + 1) /\ (i + 1) - 1 = i
    BY <1>1
  <2>3. a * k \in Nat /\ i * k = a * k + k /\ a * k + k <= l * k
    BY <1>1, <2>1, TimesFacts
  <2>4. a * k <= n
    BY <1>1, <2>3
  <2>5. s[i] = Least(n, a * k) /\ s[i + 1] = Least(n, i * k)
    BY <1>3, <2>1, <2>2
  <2> QED BY <2>1, <2>3, <2>4, <2>5 DEF Least
<1> QED BY <1>1, <1>4, <1>6, <1>7, <1>8, <1>9 DEF l, s

LEMMA UptoFacts ==
  ASSUME NEW n \in Nat
  PROVE  Climbs(Upto(n), 0, n)
<1> DEFINE s == Upto(n)
<1>1. s = [i \in 1..(n + 1) |-> i - 1]
  BY DEF Upto
<1>2. n + 1 \in Nat /\ s = [i \in 1..(n + 1) |-> s[i]] /\ \A i \in 1..(n + 1) : s[i] = i - 1
  BY <1>1
<1> HIDE DEF s
<1>3. IsSeq(s) /\ Len(s) = n + 1
  BY <1>2, GivenFacts
<1> QED BY <1>2, <1>3 DEF Climbs, s

\* A derivation of n records reports at least once, and never less than before.
LEMMA DerivedFacts ==
  ASSUME NEW phase, NEW lo \in Nat, NEW hi \in Nat, lo <= hi, Weight[phase] = <<lo, hi>>, NEW n \in Nat
  PROVE  Climbs(Derived(phase, n), lo, hi) /\ Climbs(Tail(Derived(phase, n)), lo, hi)
<1>1. ReportEvery \in Nat \ {0}
  BY JobsAssumption
<1>2. PICK ks : ks = Multiples(n, ReportEvery)
  OBVIOUS
<1>3. Climbs(ks, 0, n) /\ Len(ks) = (n + ReportEvery - 1) \div ReportEvery + 1
      /\ (n + ReportEvery - 1) \div ReportEvery \in Nat
  <2>1. PICK k : k = ReportEvery
    OBVIOUS
  <2>2. k \in Nat \ {0}
    BY <1>1, <2>1
  <2> QED BY <1>2, <2>1, <2>2, MultiplesFacts
<1>4. PICK s : s = Derived(phase, n) /\ Climbs(s, lo, hi) /\ Len(s) = Len(ks)
  <2>1. Climbs(Reports(phase, ks, n), lo, hi) /\ Len(Reports(phase, ks, n)) = Len(ks)
    <3>1. \A total \in Nat : \A q : Climbs(q, 0, total) => Climbs(Reports(phase, q, total), lo, hi)
                                                         /\ Len(Reports(phase, q, total)) = Len(q)
      BY ClimbReports, Zenon
    <3>2. Climbs(ks, 0, n)
      BY <1>3
    <3> QED BY <3>1, <3>2
  <2>2. Derived(phase, n) = Reports(phase, ks, n)
    BY <1>2 DEF Derived
  <2> QED BY <2>1, <2>2
<1>5. s # <<>>
  <2>1. Len(s) # 0
    BY <1>3, <1>4
  <2> QED BY <2>1, FewFacts
<1>6. Climbs(Tail(s), lo, hi)
  BY <1>4, <1>5, ClimbTail
<1> QED BY <1>4, <1>6

\* A replay as its worker is given it.
IsReplay(r) ==
  /\ r.n \in Nat /\ r.size \in Nat \ {0} /\ r.length \in Nat
  /\ r.text \in {"unreadable", "invalid", "undecodable", "rewritten", "canonical"}
  /\ r.same \in BOOLEAN /\ r.buildable \in BOOLEAN

LEMMA ReplaysTyped == \A r \in Replays : IsReplay(r)
<1>1. MaxRecords \in Nat
  BY JobsAssumption
<1> QED BY <1>1 DEF Replays, IsReplay

\* The ways the core of a worker ends.
LEMMA EndFacts ==
  ASSUME NEW r, IsReplay(r)
  PROVE  /\ CoreEnd(r) \in {"io-error", "invalid-json", "validation-failed", "processing-failed", "ok"}
         /\ CoreEnd(r) = "io-error" <=> r.length # r.size
BY DEF CoreEnd, IsReplay

\* A phase begins at its lower weight and ends at its upper one.
LEMMA PercentEnds ==
  ASSUME NEW phase, NEW lo \in Nat, NEW hi \in Nat, lo <= hi, Weight[phase] = <<lo, hi>>, NEW total \in Nat
  PROVE  Percent(phase, 0, total) = lo /\ (total # 0 => Percent(phase, total, total) = hi)
<1>1. CASE total = 0
  BY <1>1 DEF Percent
<1>2. CASE total # 0
  <2>1. PICK d \in Nat : d = hi - lo
    OBVIOUS
  <2>2. d * 0 = 0 /\ 0 \div total = 0
    BY <1>2
  <2>3. PICK a \in Nat : a = d * total
    OBVIOUS
  <2>4. PICK q \in Nat : q = a \div total /\ q * total <= a /\ a < q * total + total
    BY <1>2, DivFacts
  <2>5. q = d
    <3>1. CASE q < d
      <4>1. q * total + total <= d * total
        BY <3>1, TimesFacts
      <4> QED BY <2>3, <2>4, <4>1
    <3>2. CASE d < q
      <4>1. d * total + total <= q * total /\ q * total \in Nat
        BY <3>2, TimesFacts
      <4> QED BY <1>2, <2>3, <2>4, <4>1
    <3> QED BY <3>1, <3>2
  <2>6. Percent(phase, 0, total) = lo + (d * 0) \div total
    BY <1>2, <2>1 DEF Percent
  <2>7. Percent(phase, total, total) = lo + (d * total) \div total
    BY <1>2, <2>1 DEF Percent
  <2> QED BY <2>1, <2>2, <2>3, <2>4, <2>5, <2>6, <2>7
<1> QED BY <1>1, <1>2

\* An empty part adds nothing.
LEMMA JoinEmpty ==
  ASSUME NEW s, IsSeq(s)  PROVE s \o <<>> = s /\ <<>> \o s = s
<1>1. PICK e : e = <<>> /\ IsSeq(e) /\ Len(e) = 0
  BY FewFacts
<1>2. /\ IsSeq(s \o e) /\ Len(s \o e) = Len(s) /\ \A i \in 1..Len(s) : (s \o e)[i] = s[i]
  BY <1>1, JoinFacts DEF IsSeq
<1>3. /\ IsSeq(e \o s) /\ Len(e \o s) = Len(s) /\ \A i \in 1..Len(s) : (e \o s)[0 + i] = s[i]
  BY <1>1, JoinFacts DEF IsSeq
<1>4. \A i \in 1..Len(s) : (e \o s)[i] = s[i]
  <2>1. \A i \in 1..Len(s) : 0 + i = i
    OBVIOUS
  <2> QED BY <1>3, <2>1
<1>5. s \o e = s
  BY <1>2 DEF IsSeq
<1>6. e \o s = s
  BY <1>3, <1>4 DEF IsSeq
<1> QED BY <1>1, <1>5, <1>6

\* One number climbs from and to itself.
LEMMA ClimbOne ==
  ASSUME NEW a \in Nat
  PROVE  Climbs(<<>>, a, a) /\ Climbs(<<a>>, a, a) /\ Climbs(<<a, a>>, a, a)
<1>1. a \in Int /\ a <= a
  OBVIOUS
<1> QED BY <1>1, ClimbFew

\* The numbers of a part of a replay's reports.
LEMMA ReadPart ==
  ASSUME NEW r, IsReplay(r)
  PROVE  Climbs(<<Percent("reading", r.size, r.size), Percent("parsing", 0, 1)>>, 20, 20)
<1>1. PICK size \in Nat \ {0} : size = r.size
  BY DEF IsReplay
<1>2. PICK p1, p2 : p1 = "reading" /\ p2 = "parsing"
  OBVIOUS
<1>3. PICK a \in Nat, b \in Nat, c \in Nat, one \in Nat : a = 0 /\ b = 20 /\ c = 32 /\ one = 1
  OBVIOUS
<1>4. Weight[p1] = <<a, b>> /\ Weight[p2] = <<b, c>> /\ a <= b /\ b <= c
  BY <1>2, <1>3, PhaseFacts
<1>5. Percent(p1, size, size) = b
  BY <1>4, PercentEnds
<1>6. Percent(p2, 0, one) = b
  BY <1>4, PercentEnds
<1>7. Climbs(<<b, b>>, b, b)
  BY ClimbOne
<1> QED BY <1>1, <1>2, <1>3, <1>5, <1>6, <1>7

LEMMA ParsedPart ==
  Climbs(<<Percent("parsing", 1, 1), Percent("validating", 0, 1)>>, 32, 32)
<1>2. PICK p1, p2 : p1 = "parsing" /\ p2 = "validating"
  OBVIOUS
<1>3. PICK a \in Nat, b \in Nat, c \in Nat, one \in Nat : a = 20 /\ b = 32 /\ c = 50 /\ one = 1
  OBVIOUS
<1>4. Weight[p1] = <<a, b>> /\ Weight[p2] = <<b, c>> /\ a <= b /\ b <= c
  BY <1>2, <1>3, PhaseFacts
<1>5. Percent(p1, one, one) = b
  <2>1. one # 0
    BY <1>3
  <2> QED BY <1>4, <2>1, PercentEnds
<1>6. Percent(p2, 0, one) = b
  BY <1>4, PercentEnds
<1>7. Climbs(<<b, b>>, b, b)
  BY ClimbOne
<1> QED BY <1>2, <1>3, <1>5, <1>6, <1>7

LEMMA ValidPart ==
  ASSUME NEW n \in Nat
  PROVE  Climbs(Tail(Derived("validating", n)) \o <<Percent("validating", n, n)>> \o <<Percent("decoding", 0, n)>>, 32, 50)
<1>2. PICK p1, p2 : p1 = "validating" /\ p2 = "decoding"
  OBVIOUS
<1>3. PICK a \in Nat, b \in Nat, c \in Nat : a = 32 /\ b = 50 /\ c = 72
  OBVIOUS
<1>4. Weight[p1] = <<a, b>> /\ Weight[p2] = <<b, c>> /\ a <= b /\ b <= c
  BY <1>2, <1>3, PhaseFacts
<1>5. PICK s : s = Tail(Derived(p1, n)) /\ Climbs(s, a, b)
  BY <1>4, DerivedFacts
<1>6. PICK p : p = Percent(p1, n, n)
  OBVIOUS
<1>7. PICK q : q = Percent(p2, 0, n) /\ q = b
  BY <1>4, PercentEnds
<1>8. Climbs(<<q>>, b, b)
  BY <1>7, ClimbOne
<1>9. Climbs(s \o <<p>>, a, b)
  <2>1. CASE n # 0
    <3>1. p = b
      BY <1>4, <1>6, <2>1, PercentEnds
    <3>2. PICK t : t = <<p>> /\ Climbs(t, b, b)
      BY <3>1, ClimbOne
    <3> QED BY <1>4, <1>5, <3>2, ClimbJoin
  <2>2. CASE n = 0
    <3>1. p = a
      BY <1>4, <1>6, <2>2, PercentEnds
    <3>2. PICK t : t = <<p>> /\ Climbs(t, a, a)
      BY <3>1, ClimbOne
    <3>3. Climbs(t, a, b)
      BY <1>4, <3>2, ClimbWide
    <3>4. s = <<>>
      <4>1. PICK k : k = ReportEvery /\ k \in Nat \ {0}
        BY JobsAssumption
      <4>2. PICK m \in Nat : m = k - 1 /\ m \div k \in Nat /\ (m \div k) * k <= m
        <5>1. PICK m \in Nat : m = k - 1
          BY <4>1
        <5> QED BY <4>1, <5>1, DivFacts
      <4>3. m \div k = 0
        <5>1. CASE m \div k >= 1
          <6>1. PICK d \in Nat, one \in Nat : d = m \div k /\ one = 1 /\ one <= d
            BY <4>2, <5>1
          <6>2. one * k <= d * k
            BY <4>1, <6>1, TimesFacts
          <6> QED BY <4>1, <4>2, <6>1, <6>2
        <5> QED BY <4>2, <5>1
      <4>4. Derived(p1, n) = Reports(p1, Multiples(n, k), n) /\ (n + k - 1) \div k = 0
        BY <2>2, <4>1, <4>2, <4>3 DEF Derived
      <4>5. PICK ks : ks = Multiples(n, k)
        OBVIOUS
      <4>6. IsSeq(ks) /\ Len(ks) = 1
        <5>1. IsSeq(ks) /\ Len(ks) = (n + k - 1) \div k + 1
          BY <4>1, <4>5, MultiplesFacts
        <5> QED BY <4>4, <5>1
      <4>7. PICK u : u = Reports(p1, ks, n)
        OBVIOUS
      <4>8. u = [i \in 1..1 |-> Percent(p1, ks[i], n)]
        BY <4>6, <4>7 DEF Reports, IsSeq
      <4> QED BY <1>5, <4>4, <4>5, <4>7, <4>8
    <3>5. s \o <<p>> = t
      <4>1. IsSeq(t)
        BY <3>2 DEF Climbs
      <4> QED BY <3>2, <3>4, <4>1, JoinEmpty
    <3> QED BY <3>3, <3>5
  <2> QED BY <2>1, <2>2
<1>10. PICK t, u : t = s \o <<p>> /\ u = <<q>>
  OBVIOUS
<1>11. Climbs(t \o u, a, b)
  BY <1>4, <1>8, <1>9, <1>10, ClimbJoin
<1> QED BY <1>2, <1>3, <1>5, <1>6, <1>7, <1>10, <1>11

LEMMA DerivedPart ==
  ASSUME NEW n \in Nat
  PROVE  Climbs(Tail(Derived("decoding", n)) \o Reports("aggregating", Upto(4), 4)
                \o Reports("canonicalizing", Upto(3), 3), 50, 90)
<1>2. PICK p1, p2, p3 : p1 = "decoding" /\ p2 = "aggregating" /\ p3 = "canonicalizing"
  OBVIOUS
<1>3. PICK a \in Nat, b \in Nat, c \in Nat, d \in Nat : a = 50 /\ b = 72 /\ c = 82 /\ d = 90
  OBVIOUS
<1>4. Weight[p1] = <<a, b>> /\ Weight[p2] = <<b, c>> /\ Weight[p3] = <<c, d>> /\ a <= b /\ b <= c /\ c <= d
  BY <1>2, <1>3, PhaseFacts
<1>5. PICK s : s = Tail(Derived(p1, n)) /\ Climbs(s, a, b)
  BY <1>4, DerivedFacts
<1>6. PICK f \in Nat, g \in Nat : f = 4 /\ g = 3
  OBVIOUS
<1>7. PICK x, y : x = Upto(f) /\ y = Upto(g) /\ Climbs(x, 0, f) /\ Climbs(y, 0, g)
  BY UptoFacts
<1>8. PICK t : t = Reports(p2, x, f) /\ Climbs(t, b, c)
  <2>1. \A total \in Nat : \A q : Climbs(q, 0, total) => Climbs(Reports(p2, q, total), b, c)
    BY <1>4, ClimbReports, Zenon
  <2> QED BY <1>7, <2>1
<1>9. PICK u : u = Reports(p3, y, g) /\ Climbs(u, c, d)
  <2>1. \A total \in Nat : \A q : Climbs(q, 0, total) => Climbs(Reports(p3, q, total), c, d)
    BY <1>4, ClimbReports, Zenon
  <2> QED BY <1>7, <2>1
<1>10. PICK v : v = s \o t /\ Climbs(v, a, c)
  <2>1. Climbs(s \o t, a, c)
    BY <1>4, <1>5, <1>8, ClimbJoin
  <2> QED BY <2>1
<1>11. Climbs(v \o u, a, d)
  <2>1. a <= c
    BY <1>4
  <2> QED BY <1>4, <1>9, <1>10, <2>1, ClimbJoin
<1> QED BY <1>2, <1>3, <1>5, <1>6, <1>7, <1>8, <1>9, <1>10, <1>11

\* The core of a worker reports ever more, from the last read to what it canonicalizes.
LEMMA CoreClimbs ==
  ASSUME NEW r, IsReplay(r)
  PROVE  Climbs(CorePercents(r), 20, 90)
<1>1. PICK n \in Nat : n = r.n
  BY DEF IsReplay
<1>2. PICK a \in Nat, b \in Nat, c \in Nat, d \in Nat : a = 20 /\ b = 32 /\ c = 50 /\ d = 90
  OBVIOUS
<1>3. PICK read : read = <<Percent("reading", r.size, r.size), Percent("parsing", 0, 1)>> /\ Climbs(read, a, a)
  BY <1>2, ReadPart
<1>4. PICK parsed : parsed = <<Percent("parsing", 1, 1), Percent("validating", 0, 1)>> /\ Climbs(parsed, b, b)
  BY <1>2, ParsedPart
<1>5. PICK valid : /\ valid = Tail(Derived("validating", n)) \o <<Percent("validating", n, n)>>
                              \o <<Percent("decoding", 0, n)>>
                   /\ Climbs(valid, b, c)
  BY <1>2, ValidPart
<1>6. PICK derived : /\ derived = Tail(Derived("decoding", n)) \o Reports("aggregating", Upto(4), 4)
                                  \o Reports("canonicalizing", Upto(3), 3)
                     /\ Climbs(derived, c, d)
  BY <1>2, DerivedPart
<1>7. PICK s1, s2, s3 : s1 = read \o parsed /\ s2 = s1 \o valid /\ s3 = s2 \o derived
  OBVIOUS
<1>8. /\ CorePercents(r) \in {<<>>, read, s1, s2, s3}
  BY <1>1, <1>3, <1>4, <1>5, <1>6, <1>7, Zenon DEF CorePercents
<1>9. a <= b /\ b <= c /\ c <= d /\ a <= a /\ a <= d /\ a <= c /\ b <= d
  BY <1>2
<1>10. Climbs(parsed, a, b)
  BY <1>4, <1>9, ClimbWide
<1>11. Climbs(s1, a, b)
  BY <1>3, <1>7, <1>9, <1>10, ClimbJoin
<1>12. Climbs(s2, a, c)
  BY <1>5, <1>7, <1>9, <1>11, ClimbJoin
<1>13. Climbs(s3, a, d)
  BY <1>6, <1>7, <1>9, <1>12, ClimbJoin
<1>14. Climbs(read, a, d) /\ Climbs(s1, a, d) /\ Climbs(s2, a, d)
  BY <1>3, <1>9, <1>11, <1>12, ClimbWide
<1>15. Climbs(<<>>, a, d)
  <2>1. a \in Int /\ d \in Int
    OBVIOUS
  <2> QED BY <1>9, <2>1, ClimbFew, Zenon
<1> QED BY <1>2, <1>8, <1>13, <1>14, <1>15

-----------------------------------------------------------------------------
(* Messages that report *)

\* What the messages of a worker say.
LEMMA MessageFacts ==
  /\ \A p : Progress(p).type = "progress" /\ Progress(p).percent = p
  /\ \A c : Failure(c).type = "error" /\ Failure(c).code = c
  /\ \A v : Answer(v).type = "success" /\ Answer(v).value = v
  /\ \A a, b, n : LET m == Chunk(a, b, n) IN
       m.type = "chunk" /\ m.start = a /\ m.end = b /\ m.total = n /\ m.rows = [i \in 1..(b - a) |-> a + i]
BY DEF Progress, Failure, Answer, Chunk

\* A message that makes the page report, and what it reports.
Reporting(kind, m) == m.type = "progress" \/ (kind = "session" /\ m.type = "chunk")
Reported(m) == IF m.type = "progress" THEN m.percent ELSE Percent("transferring", m.end, m.total)

\* Messages whose reports never fall, between lo and hi.
Rises(kind, s, lo, hi) ==
  /\ IsSeq(s)
  /\ \A i \in 1..Len(s) :
       Reporting(kind, s[i]) => Reported(s[i]) \in Int /\ lo <= Reported(s[i]) /\ Reported(s[i]) <= hi
  /\ \A i \in 1..Len(s) : \A j \in 1..i :
       Reporting(kind, s[i]) /\ Reporting(kind, s[j]) => Reported(s[j]) <= Reported(s[i])

LEMMA RiseJoin ==
  ASSUME NEW kind, NEW s, NEW t, NEW lo \in Int, NEW mid \in Int, NEW hi \in Int, lo <= mid, mid <= hi,
         Rises(kind, s, lo, mid), Rises(kind, t, mid, hi)
  PROVE  Rises(kind, s \o t, lo, hi)
<1> DEFINE u == s \o t
           On(i) == Reporting(kind, u[i])
           Says(i) == Reported(u[i])
<1>1. /\ IsSeq(u) /\ Len(u) = Len(s) + Len(t) /\ Len(s) \in Nat /\ Len(t) \in Nat
      /\ \A i \in 1..Len(s) : u[i] = s[i]
      /\ \A i \in 1..Len(t) : u[Len(s) + i] = t[i]
  BY JoinFacts DEF Rises, IsSeq
<1> HIDE DEF u
<1>2. \A i \in 1..Len(s) : On(i) => Says(i) \in Int /\ lo <= Says(i) /\ Says(i) <= mid
  BY <1>1 DEF Rises
<1>3. \A i \in 1..Len(s) : \A j \in 1..i : j \in 1..Len(s) /\ (On(i) /\ On(j) => Says(j) <= Says(i))
  <2>1. \A i \in 1..Len(s) : \A j \in 1..i : j \in 1..Len(s)
    BY <1>1
  <2> QED BY <1>1, <2>1 DEF Rises
<1>4. \A i \in 1..Len(u) : i \notin 1..Len(s) => \E k \in 1..Len(t) : i = Len(s) + k
  <2>1. ASSUME NEW i \in 1..Len(u), i \notin 1..Len(s)  PROVE \E k \in 1..Len(t) : i = Len(s) + k
    <3>1. PICK k : k = i - Len(s)
      OBVIOUS
    <3>2. k \in 1..Len(t) /\ i = Len(s) + k
      BY <1>1, <2>1, <3>1
    <3> QED BY <3>2
  <2> QED BY <2>1
<1>5. \A k \in 1..Len(t) : On(Len(s) + k) => /\ Says(Len(s) + k) \in Int /\ mid <= Says(Len(s) + k)
                                             /\ Says(Len(s) + k) <= hi
  BY <1>1 DEF Rises
<1>6. \A k \in 1..Len(t) : \A l \in 1..k :
        l \in 1..Len(t) /\ (On(Len(s) + k) /\ On(Len(s) + l) => Says(Len(s) + l) <= Says(Len(s) + k))
  <2>1. \A k \in 1..Len(t) : \A l \in 1..k : l \in 1..Len(t)
    BY <1>1
  <2> QED BY <1>1, <2>1 DEF Rises
<1> HIDE DEF On, Says
<1>7. ASSUME NEW i \in 1..Len(u), On(i)
      PROVE  /\ Says(i) \in Int /\ lo <= Says(i) /\ Says(i) <= hi
             /\ (i \notin 1..Len(s) => mid <= Says(i)) /\ (i \in 1..Len(s) => Says(i) <= mid)
  <2>1. CASE i \in 1..Len(s)
    BY <1>2, <1>7, <2>1
  <2>2. CASE i \notin 1..Len(s)
    <3>1. PICK k \in 1..Len(t) : i = Len(s) + k
      BY <1>4, <2>2
    <3>2. Says(i) \in Int /\ mid <= Says(i) /\ Says(i) <= hi
      BY <1>5, <1>7, <3>1
    <3> QED BY <2>2, <3>2
  <2> QED BY <2>1, <2>2
<1>8. ASSUME NEW i \in 1..Len(u), NEW j \in 1..i, On(i), On(j)
      PROVE  Says(j) <= Says(i)
  <2>1. j \in 1..Len(u) /\ (i \in 1..Len(s) => j \in 1..Len(s))
    BY <1>1
  <2>2. CASE i \in 1..Len(s)
    BY <1>3, <1>8, <2>2
  <2>3. CASE i \notin 1..Len(s) /\ j \in 1..Len(s)
    BY <1>7, <1>8, <2>1, <2>3
  <2>4. CASE i \notin 1..Len(s) /\ j \notin 1..Len(s)
    <3>1. PICK k \in 1..Len(t) : i = Len(s) + k
      BY <1>4, <2>4
    <3>2. PICK l \in 1..Len(t) : j = Len(s) + l
      BY <1>4, <2>1, <2>4
    <3>3. l \in 1..k
      BY <1>1, <3>1, <3>2
    <3> QED BY <1>6, <1>8, <3>1, <3>2, <3>3
  <2> QED BY <2>1, <2>2, <2>3, <2>4
<1>9. Rises(kind, u, lo, hi)
  BY <1>1, <1>7, <1>8 DEF Rises, On, Says
<1> QED BY <1>9 DEF u

\* What is left of them after the first, which reports nothing more than the rest.
LEMMA RiseTail ==
  ASSUME NEW kind, NEW s, NEW lo \in Int, NEW hi \in Int, Rises(kind, s, lo, hi), s # <<>>
  PROVE  /\ Rises(kind, Tail(s), lo, hi)
         /\ Reporting(kind, Head(s)) => /\ Reported(Head(s)) \in Int /\ lo <= Reported(Head(s))
                                        /\ Reported(Head(s)) <= hi
                                        /\ Rises(kind, Tail(s), Reported(Head(s)), hi)
<1> DEFINE u == Tail(s)
<1>1. /\ IsSeq(u) /\ Len(u) = Len(s) - 1 /\ Len(s) \in Nat /\ Len(s) >= 1 /\ Head(s) = s[1]
      /\ \A i \in 1..Len(u) : i + 1 \in 1..Len(s) /\ u[i] = s[i + 1]
  BY TailFacts DEF Rises, IsSeq
<1> HIDE DEF u
<1>2. \A i \in 1..Len(u) : Reporting(kind, u[i]) => Reported(u[i]) \in Int /\ lo <= Reported(u[i]) /\ Reported(u[i]) <= hi
  BY <1>1 DEF Rises
<1>3. ASSUME NEW i \in 1..Len(u), NEW j \in 1..i, Reporting(kind, u[i]), Reporting(kind, u[j])
      PROVE  Reported(u[j]) <= Reported(u[i])
  <2>1. i + 1 \in 1..Len(s) /\ j + 1 \in 1..(i + 1) /\ j \in 1..Len(u) /\ u[i] = s[i + 1] /\ u[j] = s[j + 1]
    BY <1>1
  <2> QED BY <1>3, <2>1 DEF Rises
<1>4. Rises(kind, u, lo, hi)
  BY <1>1, <1>2, <1>3 DEF Rises
<1>5. ASSUME Reporting(kind, s[1])
      PROVE  /\ Reported(s[1]) \in Int /\ lo <= Reported(s[1]) /\ Reported(s[1]) <= hi
             /\ Rises(kind, u, Reported(s[1]), hi)
  <2>1. 1 \in 1..Len(s)
    BY <1>1
  <2>2. Reported(s[1]) \in Int /\ lo <= Reported(s[1]) /\ Reported(s[1]) <= hi
    BY <1>5, <2>1 DEF Rises
  <2>3. ASSUME NEW i \in 1..Len(u), Reporting(kind, u[i])  PROVE Reported(s[1]) <= Reported(u[i])
    <3>1. i + 1 \in 1..Len(s) /\ 1 \in 1..(i + 1) /\ u[i] = s[i + 1]
      BY <1>1
    <3> QED BY <1>5, <2>3, <3>1 DEF Rises
  <2> QED BY <1>1, <1>2, <1>3, <2>2, <2>3 DEF Rises
<1> QED BY <1>1, <1>4, <1>5 DEF u

LEMMA RiseWide ==
  ASSUME NEW kind, NEW s, NEW a \in Int, NEW b \in Int, NEW lo \in Int, NEW hi \in Int, Rises(kind, s, a, b),
         lo <= a, b <= hi
  PROVE  Rises(kind, s, lo, hi)
BY DEF Rises

\* Messages that report nothing.
LEMMA RiseQuiet ==
  ASSUME NEW kind, NEW s, IsSeq(s), \A i \in 1..Len(s) : ~Reporting(kind, s[i]), NEW lo, NEW hi
  PROVE  Rises(kind, s, lo, hi)
<1>1. \A i \in 1..Len(s) : \A j \in 1..i : ~Reporting(kind, s[i])
  OBVIOUS
<1> QED BY <1>1 DEF Rises

\* Progress that climbs.
LEMMA RiseProgress ==
  ASSUME NEW kind, NEW ps, NEW lo, NEW hi, Climbs(ps, lo, hi)
  PROVE  LET s == [i \in DOMAIN ps |-> Progress(ps[i])] IN
         Rises(kind, s, lo, hi) /\ Len(s) = Len(ps) /\ \A i \in 1..Len(s) : s[i].type = "progress"
<1> DEFINE s == [i \in DOMAIN ps |-> Progress(ps[i])]
<1>1. DOMAIN ps = 1..Len(ps) /\ Len(ps) \in Nat
  BY DEF Climbs, IsSeq
<1>2. s = [i \in 1..Len(ps) |-> s[i]] /\ \A i \in 1..Len(ps) : s[i] = Progress(ps[i])
  BY <1>1
<1> HIDE DEF s
<1>3. IsSeq(s) /\ Len(s) = Len(ps)
  BY <1>1, <1>2, GivenFacts
<1>4. \A i \in 1..Len(ps) : s[i].type = "progress" /\ Reported(s[i]) = ps[i]
  BY <1>2, MessageFacts DEF Reported
<1>5. ASSUME NEW i \in 1..Len(s), NEW j \in 1..i  PROVE Reported(s[j]) <= Reported(s[i])
  <2>1. i \in 1..Len(ps) /\ j \in 1..Len(ps)
    BY <1>1, <1>3
  <2> QED BY <1>4, <2>1 DEF Climbs
<1>6. Rises(kind, s, lo, hi)
  BY <1>3, <1>4, <1>5 DEF Rises, Climbs
<1> QED BY <1>3, <1>4, <1>6 DEF s

\* One message.
LEMMA RiseOne ==
  ASSUME NEW kind, NEW m, NEW lo \in Int, NEW hi \in Int,
         Reporting(kind, m) => Reported(m) \in Int /\ lo <= Reported(m) /\ Reported(m) <= hi
  PROVE  Rises(kind, <<m>>, lo, hi)
<1>1. PICK s : s = <<m>> /\ IsSeq(s) /\ Len(s) = 1 /\ s[1] = m
  BY FewFacts
<1>2. Rises(kind, s, lo, hi)
  BY <1>1 DEF Rises
<1> QED BY <1>1, <1>2

\* The chunks of n rows, each beginning where the one before it ended.
LEMMA ChunkFacts ==
  ASSUME NEW n \in Nat
  PROVE  LET s == Chunks(n)
             l == (n + ChunkRecords - 1) \div ChunkRecords
             at == Multiples(n, ChunkRecords)
         IN /\ l \in Nat /\ IsSeq(s) /\ Len(s) = l /\ IsSeq(at) /\ Len(at) = l + 1 /\ Climbs(at, 0, n)
            /\ at[1] = 0 /\ at[l + 1] = n
            /\ \A i \in 1..l : /\ i \in 1..(l + 1) /\ i + 1 \in 1..(l + 1) /\ s[i] = Chunk(at[i], at[i + 1], n)
                               /\ at[i] \in Nat /\ at[i + 1] \in Nat /\ at[i] <= at[i + 1] /\ at[i + 1] <= n
                               /\ at[i + 1] - at[i] <= ChunkRecords
<1> DEFINE s == Chunks(n)
           l == (n + ChunkRecords - 1) \div ChunkRecords
           at == Multiples(n, ChunkRecords)
<1>1. PICK k \in Nat \ {0} : k = ChunkRecords
  BY JobsAssumption
<1>2. /\ l \in Nat /\ IsSeq(at) /\ Len(at) = l + 1 /\ Climbs(at, 0, n) /\ at[1] = 0 /\ at[l + 1] = n
      /\ \A i \in 1..l : at[i] = (i - 1) * k /\ at[i] \in Nat /\ at[i + 1] = Least(n, i * k) /\ at[i + 1] <= at[i] + k
  BY <1>1, MultiplesFacts
<1>3. s = [i \in 1..l |-> Chunk((i - 1) * k, Least(n, i * k), n)]
  BY <1>1 DEF Chunks
<1> HIDE DEF s, at, l
<1>4. s = [i \in 1..l |-> s[i]] /\ \A i \in 1..l : s[i] = Chunk((i - 1) * k, Least(n, i * k), n)
  BY <1>3
<1>5. IsSeq(s) /\ Len(s) = l
  BY <1>2, <1>4, GivenFacts
<1>6. ASSUME NEW i \in 1..l
      PROVE  /\ i \in 1..(l + 1) /\ i + 1 \in 1..(l + 1) /\ s[i] = Chunk(at[i], at[i + 1], n)
             /\ at[i] \in Nat /\ at[i + 1] \in Nat /\ at[i] <= at[i + 1] /\ at[i + 1] <= n
             /\ at[i + 1] - at[i] <= ChunkRecords
  <2>1. i \in 1..(l + 1) /\ i + 1 \in 1..(l + 1) /\ i \in 1..(i + 1)
    BY <1>2
  <2>2. at[i] <= at[i + 1] /\ at[i + 1] \in Int /\ 0 <= at[i + 1] /\ at[i + 1] <= n
    BY <1>2, <2>1 DEF Climbs
  <2>3. at[i] = (i - 1) * k /\ at[i] \in Nat /\ at[i + 1] = Least(n, i * k) /\ at[i + 1] <= at[i] + k
    BY <1>2
  <2>4. s[i] = Chunk((i - 1) * k, Least(n, i * k), n)
    BY <1>4
  <2>5. s[i] = Chunk(at[i], at[i + 1], n)
    BY <2>3, <2>4
  <2> QED BY <1>1, <2>1, <2>2, <2>3, <2>5
<1> QED BY <1>2, <1>5, <1>6 DEF s, at, l

\* What the chunks of a replay report.
LEMMA ChunksRise ==
  ASSUME NEW n \in Nat
  PROVE  Rises("session", Chunks(n), 90, 100)
<1> DEFINE s == Chunks(n)
           l == (n + ChunkRecords - 1) \div ChunkRecords
           at == Multiples(n, ChunkRecords)
<1>1.   /\ l \in Nat /\ IsSeq(s) /\ Len(s) = l /\ Climbs(at, 0, n) /\ Len(at) = l + 1
        /\ \A i \in 1..l : /\ i \in 1..(l + 1) /\ i + 1 \in 1..(l + 1) /\ s[i] = Chunk(at[i], at[i + 1], n)
                           /\ at[i + 1] \in Nat /\ at[i + 1] <= n
  BY ChunkFacts
<1> HIDE DEF s, l, at
<1>2. PICK a \in Nat, b \in Nat : a = 90 /\ b = 100
  OBVIOUS
<1> DEFINE p == "transferring"
<1>3. Weight[p] = <<a, b>> /\ a <= b
  BY <1>2, PhaseFacts
<1> HIDE DEF p
<1>4. ASSUME NEW i \in 1..l
      PROVE  s[i].type = "chunk" /\ Reported(s[i]) = Percent(p, at[i + 1], n) /\ at[i + 1] \in 0..n
  <2>1. PICK x, y : x = at[i] /\ y = at[i + 1]
    OBVIOUS
  <2>3. y \in 0..n /\ s[i] = Chunk(x, y, n)
    BY <1>1, <2>1
  <2>2. s[i].type = "chunk" /\ s[i].end = y /\ s[i].total = n
    BY <2>3, MessageFacts
  <2>4. "chunk" # "progress"
    OBVIOUS
  <2>5. Reported(s[i]) = Percent("transferring", y, n)
    BY <2>2, <2>4 DEF Reported
  <2> QED BY <2>1, <2>2, <2>3, <2>5 DEF p
<1>5. ASSUME NEW i \in 1..l
      PROVE  Reported(s[i]) \in Int /\ a <= Reported(s[i]) /\ Reported(s[i]) <= b
  <2>1. PICK y \in 0..n : y = at[i + 1] /\ Reported(s[i]) = Percent(p, y, n)
    BY <1>4
  <2>2. Percent(p, y, n) \in a..b
    BY <1>3, PercentFacts
  <2> QED BY <2>1, <2>2
<1>6. ASSUME NEW i \in 1..l, NEW j \in 1..i
      PROVE  Reported(s[j]) <= Reported(s[i])
  <2>1. j \in 1..l /\ j + 1 \in 1..(i + 1) /\ i + 1 \in 1..(l + 1)
    BY <1>1
  <2>2. PICK y \in 0..n : y = at[i + 1] /\ Reported(s[i]) = Percent(p, y, n)
    BY <1>4
  <2>3. PICK x \in 0..n : x = at[j + 1] /\ Reported(s[j]) = Percent(p, x, n)
    BY <1>4, <2>1
  <2>4. x <= y
    BY <1>1, <2>1, <2>2, <2>3 DEF Climbs
  <2>5. Percent(p, x, n) <= Percent(p, y, n)
    BY <1>3, <2>4, PercentGrows
  <2> QED BY <2>2, <2>3, <2>5
<1>7. Rises("session", s, a, b)
  BY <1>1, <1>5, <1>6 DEF Rises
<1> QED BY <1>2, <1>7 DEF s

\* Messages that only end.
LEMMA EndRises ==
  ASSUME NEW kind, NEW lo \in Int, NEW hi \in Int
  PROVE  /\ \A c : Rises(kind, <<Failure(c)>>, lo, hi)
         /\ \A v : Rises(kind, <<Answer(v)>>, lo, hi)
<1>1. ASSUME NEW c  PROVE Rises(kind, <<Failure(c)>>, lo, hi)
  <2>1. PICK m : m = Failure(c) /\ m.type = "error"
    BY MessageFacts
  <2>2. ~Reporting(kind, m)
    BY <2>1 DEF Reporting
  <2>3. Rises(kind, <<m>>, lo, hi)
    BY <2>2, RiseOne
  <2> QED BY <2>1, <2>3
<1>2. ASSUME NEW v  PROVE Rises(kind, <<Answer(v)>>, lo, hi)
  <2>1. PICK m : m = Answer(v) /\ m.type = "success"
    BY MessageFacts
  <2>2. ~Reporting(kind, m)
    BY <2>1 DEF Reporting
  <2>3. Rises(kind, <<m>>, lo, hi)
    BY <2>2, RiseOne
  <2> QED BY <2>1, <2>3
<1> QED BY <1>1, <1>2

\* After its last read, the worker of a replay reports what its core does and then its chunks.
LEMMA SessionRises ==
  ASSUME NEW r, IsReplay(r)
  PROVE  Rises("session", SessionScript(r), 20, 100)
<1>1. PICK n \in Nat : n = r.n
  BY DEF IsReplay
<1>2. PICK a \in Int, b \in Int, c \in Int : a = 20 /\ b = 90 /\ c = 100 /\ a <= b /\ b <= c
  OBVIOUS
<1> DEFINE kind == "session"
<1>3. PICK ps : ps = CorePercents(r) /\ Climbs(ps, a, b)
  BY <1>2, CoreClimbs
<1>4. PICK s : s = [i \in DOMAIN ps |-> Progress(ps[i])] /\ Rises(kind, s, a, b)
  BY <1>3, RiseProgress
<1>5. PICK t : t = Chunks(n) /\ Rises(kind, t, b, c)
  BY <1>2, ChunksRise
<1> HIDE DEF kind
<1>6. PICK u : u = <<Answer([rows |-> r.n, artifact |-> ArtifactText(r)])>> /\ Rises(kind, u, c, c)
  <2>1. PICK v : v = [rows |-> r.n, artifact |-> ArtifactText(r)]
    OBVIOUS
  <2>2. Rises(kind, <<Answer(v)>>, c, c)
    BY EndRises, Zenon
  <2> QED BY <2>1, <2>2
<1>7. PICK w : w = <<Failure(CoreEnd(r))>> /\ Rises(kind, w, b, c)
  <2>1. PICK v : v = CoreEnd(r)
    OBVIOUS
  <2>2. Rises(kind, <<Failure(v)>>, b, c)
    BY EndRises
  <2> QED BY <2>1, <2>2
<1>8. Rises(kind, t \o u, b, c)
  BY <1>2, <1>5, <1>6, RiseJoin
<1>9. PICK x, y : x = t \o u /\ y \in {x, w} /\ Rises(kind, y, b, c) /\ SessionScript(r) = s \o y
  <2>1. SessionScript(r) = s \o (IF CoreEnd(r) # "ok" THEN w ELSE t \o u)
    BY <1>1, <1>3, <1>4, <1>5, <1>6, <1>7 DEF SessionScript
  <2> QED BY <1>7, <1>8, <2>1
<1>10. Rises(kind, s \o y, a, c)
  BY <1>2, <1>4, <1>9, RiseJoin
<1> QED BY <1>2, <1>9, <1>10 DEF kind

\* What is left of a percentage while a bundle loads its replay.
LEMMA LoadingFacts ==
  ASSUME NEW p \in Nat, NEW q \in Nat, p <= q
  PROVE  Loading(p) \in Nat /\ Loading(q) \in Nat /\ Loading(p) <= Loading(q)
<1>1. PICK a \in Nat, b \in Nat, c \in Nat \ {0} : a = p * 68 /\ b = q * 68 /\ c = 100 /\ a <= b
  OBVIOUS
<1>2. a \div c \in Nat /\ b \div c \in Nat /\ a \div c <= b \div c
  BY <1>1, DivFacts, DivGrows
<1> QED BY <1>1, <1>2 DEF Loading

LEMMA LoadingClimbs ==
  ASSUME NEW ps, NEW lo \in Nat, NEW hi \in Nat, lo <= hi, Climbs(ps, lo, hi)
  PROVE  LET s == [i \in DOMAIN ps |-> Loading(ps[i])] IN
         Climbs(s, Loading(lo), Loading(hi)) /\ DOMAIN s = DOMAIN ps
<1> DEFINE s == [i \in DOMAIN ps |-> Loading(ps[i])]
<1>1. DOMAIN ps = 1..Len(ps) /\ Len(ps) \in Nat
  BY DEF Climbs, IsSeq
<1>2. s = [i \in 1..Len(ps) |-> s[i]] /\ \A i \in 1..Len(ps) : s[i] = Loading(ps[i])
  BY <1>1
<1> HIDE DEF s
<1>3. IsSeq(s) /\ Len(s) = Len(ps) /\ DOMAIN s = 1..Len(ps)
  BY <1>1, <1>2, GivenFacts
<1>4. \A i \in 1..Len(ps) : ps[i] \in Nat /\ lo <= ps[i] /\ ps[i] <= hi
  BY DEF Climbs
<1>5. ASSUME NEW i \in 1..Len(ps)
      PROVE  s[i] \in Int /\ Loading(lo) <= s[i] /\ s[i] <= Loading(hi)
  <2>1. PICK p \in Nat : p = ps[i] /\ lo <= p /\ p <= hi
    BY <1>4
  <2>2. Loading(p) \in Nat /\ Loading(lo) <= Loading(p) /\ Loading(p) <= Loading(hi)
    BY <2>1, LoadingFacts
  <2> QED BY <1>2, <2>1, <2>2
<1>6. ASSUME NEW i \in 1..Len(ps), NEW j \in 1..i  PROVE s[j] <= s[i]
  <2>1. j \in 1..Len(ps)
    BY <1>1
  <2>2. PICK p \in Nat, q \in Nat : p = ps[j] /\ q = ps[i] /\ p <= q
    <3>1. ps[j] \in Nat /\ ps[i] \in Nat /\ ps[j] <= ps[i]
      BY <1>4, <2>1 DEF Climbs
    <3> QED BY <3>1
  <2>3. Loading(p) <= Loading(q)
    BY <2>2, LoadingFacts
  <2> QED BY <1>2, <2>1, <2>2, <2>3
<1>7. Climbs(s, Loading(lo), Loading(hi))
  BY <1>3, <1>5, <1>6 DEF Climbs
<1> QED BY <1>1, <1>3, <1>7 DEF s

LEMMA LoadingEnds ==
  Loading(0) = 0 /\ Loading(20) = 13 /\ Loading(90) = 61
BY DEF Loading

\* Two messages.
LEMMA RiseTwo ==
  ASSUME NEW kind, NEW m, NEW k, NEW lo \in Int, NEW mid \in Int, NEW hi \in Int, lo <= mid, mid <= hi,
         Reporting(kind, m) => Reported(m) \in Int /\ lo <= Reported(m) /\ Reported(m) <= mid,
         Reporting(kind, k) => Reported(k) \in Int /\ mid <= Reported(k) /\ Reported(k) <= hi
  PROVE  Rises(kind, <<m, k>>, lo, hi)
<1>1. PICK s : s = <<m, k>>
  OBVIOUS
<1>4. IsSeq(s) /\ Len(s) = 2 /\ s[1] = m /\ s[2] = k
  BY <1>1, FewFacts, Zenon
<1>2. \A i \in 1..Len(s) : i = 1 \/ i = 2
  BY <1>4
<1>3. Rises(kind, s, lo, hi)
  <2>1. \A i \in 1..Len(s) : \A j \in 1..i : (i = 1 /\ j = 1) \/ (i = 2 /\ j = 1) \/ (i = 2 /\ j = 2)
    BY <1>4
  <2> QED BY <1>2, <1>4, <2>1 DEF Rises
<1> QED BY <1>1, <1>3

\* One report, and one report before a result.
LEMMA ReportRises ==
  ASSUME NEW kind, NEW lo \in Int, NEW p \in Int, NEW hi \in Int, lo <= p, p <= hi
  PROVE  /\ Rises(kind, <<Progress(p)>>, lo, hi)
         /\ \A c : Rises(kind, <<Progress(p), Failure(c)>>, lo, hi)
         /\ \A v : Rises(kind, <<Progress(p), Answer(v)>>, lo, hi)
<1>1. PICK m : m = Progress(p) /\ m.type = "progress" /\ m.percent = p
  BY MessageFacts
<1>2. Reported(m) = p
  BY <1>1 DEF Reported
<1>3. Rises(kind, <<m>>, lo, hi)
  BY <1>2, RiseOne
<1>4. ASSUME NEW k, k.type \in {"error", "success"}  PROVE Rises(kind, <<m, k>>, lo, hi)
  <2>1. ~Reporting(kind, k)
    BY <1>4 DEF Reporting
  <2>2. hi <= hi /\ lo <= hi /\ Reported(m) <= hi
    BY <1>2
  <2> QED BY <1>2, <2>1, <2>2, RiseTwo
<1>5. \A c : Failure(c).type = "error"
  BY MessageFacts
<1>6. \A v : Answer(v).type = "success"
  BY MessageFacts
<1>7. ASSUME NEW c  PROVE Rises(kind, <<m, Failure(c)>>, lo, hi)
  BY <1>4, <1>5
<1>8. ASSUME NEW v  PROVE Rises(kind, <<m, Answer(v)>>, lo, hi)
  BY <1>4, <1>6
<1> QED BY <1>1, <1>3, <1>7, <1>8

\* The worker of a bundle after its replay is loaded.
LEMMA BuiltRises ==
  ASSUME NEW r  PROVE Rises("bundle", Built(r), 61, 100)
<1>1. PICK lo \in Int, a \in Int, b \in Int, hi \in Int : lo = 61 /\ a = 72 /\ b = 78 /\ hi = 100
  OBVIOUS
<1> DEFINE kind == "bundle"
           identity == "identity"
           limit == "limit"
           asked == [of |-> "asked"]
<1>2. Built(r) = IF ~r.same THEN <<Failure(identity)>>
                 ELSE <<Progress(a), Progress(b)>> \o
                      (IF r.buildable THEN <<Progress(hi), Answer(asked)>> ELSE <<Failure(limit)>>)
  BY <1>1 DEF Built
<1> HIDE DEF kind, identity, limit, asked
<1>3. Rises(kind, <<Failure(identity)>>, lo, hi) /\ Rises(kind, <<Failure(limit)>>, b, hi)
  BY EndRises
<1>4. PICK s : s = <<Progress(a), Progress(b)>> /\ Rises(kind, s, lo, b)
  <2>1. PICK m, k : m = Progress(a) /\ k = Progress(b) /\ m.type = "progress" /\ k.type = "progress"
                    /\ m.percent = a /\ k.percent = b
    BY MessageFacts
  <2>2. Reported(m) = a /\ Reported(k) = b
    BY <2>1 DEF Reported
  <2>3. Rises(kind, <<m, k>>, lo, b)
    <3>1. lo <= a /\ a <= b /\ Reported(m) \in Int /\ Reported(k) \in Int /\ lo <= Reported(m) /\ Reported(m) <= a
          /\ a <= Reported(k) /\ Reported(k) <= b
      BY <1>1, <2>2
    <3> QED BY <3>1, RiseTwo
  <2> QED BY <2>1, <2>3
<1>5. PICK t : t = (IF r.buildable THEN <<Progress(hi), Answer(asked)>> ELSE <<Failure(limit)>>)
               /\ Rises(kind, t, b, hi)
  <2>1. b <= hi /\ hi <= hi
    BY <1>1
  <2>2. Rises(kind, <<Progress(hi), Answer(asked)>>, b, hi)
    BY <2>1, ReportRises
  <2> QED BY <1>3, <2>2
<1>6. Rises(kind, s \o t, lo, hi)
  <2>1. lo <= b /\ b <= hi
    BY <1>1
  <2> QED BY <1>4, <1>5, <2>1, RiseJoin
<1>7. Rises(kind, Built(r), lo, hi)
  BY <1>2, <1>3, <1>4, <1>5, <1>6
<1> QED BY <1>1, <1>7 DEF kind

LEMMA BundleRises ==
  ASSUME NEW r, IsReplay(r)
  PROVE  Rises("bundle", BundleScript(r), 13, 100)
<1>1. PICK a \in Nat, b \in Nat, c \in Nat, d \in Nat, e \in Nat :
        a = 13 /\ b = 61 /\ c = 100 /\ d = 20 /\ e = 90 /\ a <= b /\ b <= c /\ d <= e
        /\ Loading(d) = a /\ Loading(e) = b
  BY LoadingEnds
<1> DEFINE kind == "bundle"
<1>2. PICK ps : ps = CorePercents(r) /\ Climbs(ps, d, e)
  BY <1>1, CoreClimbs
<1>3. PICK qs : qs = [i \in DOMAIN ps |-> Loading(ps[i])] /\ Climbs(qs, a, b) /\ DOMAIN qs = DOMAIN ps
  <2>1. LET s == [i \in DOMAIN ps |-> Loading(ps[i])] IN Climbs(s, Loading(d), Loading(e)) /\ DOMAIN s = DOMAIN ps
    BY <1>1, <1>2, LoadingClimbs
  <2> QED BY <1>1, <2>1
<1>4. PICK s : s = [i \in DOMAIN qs |-> Progress(qs[i])] /\ Rises(kind, s, a, b)
  BY <1>3, RiseProgress
<1>5. PICK t : t = Built(r) /\ Rises(kind, t, b, c)
  BY <1>1, BuiltRises
<1> HIDE DEF kind
<1>6. PICK u : u = <<Failure(CoreEnd(r))>> /\ Rises(kind, u, b, c)
  <2>1. PICK v : v = CoreEnd(r)
    OBVIOUS
  <2>2. b \in Int /\ c \in Int
    OBVIOUS
  <2>3. Rises(kind, <<Failure(v)>>, b, c)
    BY <2>2, EndRises, Zenon
  <2> QED BY <2>1, <2>3
<1>7. PICK y : y \in {t, u} /\ Rises(kind, y, b, c) /\ BundleScript(r) = s \o y
  <2>1. BundleScript(r) = [i \in DOMAIN ps |-> Progress(Loading(ps[i]))] \o (IF CoreEnd(r) # "ok" THEN u ELSE t)
    BY <1>2, <1>5, <1>6 DEF BundleScript
  <2>2. s = [i \in DOMAIN ps |-> Progress(Loading(ps[i]))]
    BY <1>3, <1>4
  <2> QED BY <1>5, <1>6, <2>1, <2>2
<1>8. Rises(kind, s \o y, a, c)
  BY <1>1, <1>4, <1>7, RiseJoin
<1> QED BY <1>1, <1>7, <1>8 DEF kind

LEMMA ShortRises ==
  /\ \A ok : Rises("comparison", ComparisonScript(ok), 0, 100)
  /\ \A ok : Rises("evidence", EvidenceScript(ok), 0, 100)
<1>1. PICK lo \in Int, p \in Int, hi \in Int : lo = 0 /\ p = 12 /\ hi = 100 /\ lo <= p /\ p <= hi
  OBVIOUS
<1> DEFINE asked == [of |-> "asked"]
           c1 == "comparison"
           c2 == "verification"
           k1 == "comparison"
           k2 == "evidence"
<1>2. \A ok : ComparisonScript(ok) = IF ok THEN <<Progress(p), Answer(asked)>> ELSE <<Progress(p), Failure(c1)>>
  BY <1>1 DEF ComparisonScript
<1>3. \A ok : EvidenceScript(ok) = IF ok THEN <<Answer(asked)>> ELSE <<Failure(c2)>>
  BY DEF EvidenceScript
<1> HIDE DEF asked, c1, c2, k1, k2
<1>4. Rises(k1, <<Progress(p), Answer(asked)>>, lo, hi) /\ Rises(k1, <<Progress(p), Failure(c1)>>, lo, hi)
  BY <1>1, ReportRises
<1>5. Rises(k2, <<Answer(asked)>>, lo, hi) /\ Rises(k2, <<Failure(c2)>>, lo, hi)
  BY EndRises
<1>6. \A ok : Rises(k1, ComparisonScript(ok), lo, hi)
  BY <1>2, <1>4
<1>7. \A ok : Rises(k2, EvidenceScript(ok), lo, hi)
  BY <1>3, <1>5
<1> QED BY <1>1, <1>6, <1>7 DEF k1, k2

-----------------------------------------------------------------------------
(* The messages of a case *)

\* A sequence of sequences, put together one by one.
Joined(ss, f, n) ==
  f = [i \in 1..n |-> f[i]] /\ \A i \in 1..n : f[i] = IF i = 1 THEN ss[i] ELSE f[i - 1] \o ss[i]

LEMMA JoinedExists ==
  ASSUME NEW ss, NEW n \in Nat
  PROVE  \E f : Joined(ss, f, n)
<1> DEFINE S == {k \in Nat : \E f : Joined(ss, f, k)}
<1>1. 0 \in S
  <2>1. PICK f : f = [i \in 1..0 |-> i]
    OBVIOUS
  <2>2. Joined(ss, f, 0)
    BY <2>1 DEF Joined
  <2> QED BY <2>2
<1>2. ASSUME NEW k \in Nat, k \in S  PROVE k + 1 \in S
  <2>1. PICK f : Joined(ss, f, k)
    BY <1>2
  <2>2. PICK g : g = [i \in 1..(k + 1) |-> IF i <= k THEN f[i] ELSE IF i = 1 THEN ss[i] ELSE f[i - 1] \o ss[i]]
    OBVIOUS
  <2>3. g = [i \in 1..(k + 1) |-> g[i]]
    BY <2>2
  <2>4. \A i \in 1..k : i \in 1..(k + 1) /\ g[i] = f[i]
    BY <2>2
  <2>5. ASSUME NEW i \in 1..(k + 1)  PROVE g[i] = IF i = 1 THEN ss[i] ELSE g[i - 1] \o ss[i]
    <3>1. CASE i = 1
      <4>1. CASE i <= k
        <5>1. i \in 1..k /\ g[i] = f[i]
          BY <2>4, <4>1
        <5>2. f[i] = ss[i]
          BY <2>1, <3>1, <5>1 DEF Joined
        <5> QED BY <3>1, <5>1, <5>2
      <4>2. CASE ~(i <= k)
        BY <2>2, <3>1, <4>2
      <4> QED BY <4>1, <4>2
    <3>2. CASE i # 1
      <4>1. i - 1 \in 1..k
        BY <3>2
      <4>2. g[i - 1] = f[i - 1]
        BY <2>4, <4>1
      <4>3. CASE i <= k
        <5>1. i \in 1..k /\ g[i] = f[i]
          BY <2>4, <4>3
        <5>2. f[i] = f[i - 1] \o ss[i]
          BY <2>1, <3>2, <5>1 DEF Joined
        <5> QED BY <3>2, <4>2, <5>1, <5>2
      <4>4. CASE ~(i <= k)
        <5>1. g[i] = f[i - 1] \o ss[i]
          BY <2>2, <3>2, <4>4
        <5> QED BY <3>2, <4>2, <5>1
      <4> QED BY <4>3, <4>4
    <3> QED BY <3>1, <3>2
  <2>6. Joined(ss, g, k + 1)
    BY <2>3, <2>5 DEF Joined
  <2> QED BY <2>6
<1> HIDE DEF S
<1>3. Nat \subseteq S
  BY <1>1, <1>2, SetInduction
<1> QED BY <1>3 DEF S

\* The parts of a flattened sequence, from none of them to all.
Parts(ss, F) ==
  /\ F[0] = <<>> /\ F[Len(ss)] = FlattenSeq(ss)
  /\ \A i \in 1..Len(ss) : F[i] = F[i - 1] \o ss[i]

LEMMA PartsExist ==
  ASSUME NEW ss, IsSeq(ss), \A i \in 1..Len(ss) : IsSeq(ss[i])
  PROVE  \E F : Parts(ss, F)
<1>1. PICK n \in Nat : n = Len(ss)
  BY DEF IsSeq
<1>2. CASE n = 0
  <2>1. ss = <<>>
    BY <1>1, <1>2 DEF IsSeq
  <2>2. FlattenSeq(ss) = ss
    BY <1>1, <1>2 DEF FlattenSeq
  <2>3. PICK F : F = [i \in 0..0 |-> <<>>]
    OBVIOUS
  <2>4. F[0] = <<>>
    BY <2>3
  <2>5. Parts(ss, F)
    BY <1>1, <1>2, <2>1, <2>2, <2>4 DEF Parts
  <2> QED BY <2>5
<1>3. CASE n # 0
  <2> DEFINE D(f) == [i \in 1..n |-> IF i = 1 THEN ss[i] ELSE f[i - 1] \o ss[i]]
  <2>1. PICK f : Joined(ss, f, n)
    BY JoinedExists
  <2>2. f = D(f)
    BY <2>1 DEF Joined
  <2>3. PICK h : h = (CHOOSE f1 : f1 = D(f1)) /\ h = D(h)
    BY <2>2
  <2>4. FlattenSeq(ss) = h[n]
    BY <1>1, <1>3, <2>3 DEF FlattenSeq
  <2>5. \A i \in 1..n : h[i] = IF i = 1 THEN ss[i] ELSE h[i - 1] \o ss[i]
    BY <2>3
  <2>6. PICK F : F = [i \in 0..n |-> IF i = 0 THEN <<>> ELSE h[i]]
    OBVIOUS
  <2>7. F[0] = <<>> /\ \A i \in 1..n : F[i] = h[i]
    BY <2>6
  <2>8. ASSUME NEW i \in 1..n  PROVE F[i] = F[i - 1] \o ss[i]
    <3>1. CASE i = 1
      <4>1. <<>> \o ss[1] = ss[1]
        BY <1>1, <3>1, JoinEmpty
      <4>2. F[i - 1] = <<>>
        BY <2>7, <3>1
      <4> QED BY <2>5, <2>7, <3>1, <4>1, <4>2
    <3>2. CASE i # 1
      <4>1. i - 1 \in 1..n
        BY <3>2
      <4>2. h[i] = h[i - 1] \o ss[i] /\ F[i] = h[i] /\ F[i - 1] = h[i - 1]
        BY <2>5, <2>7, <3>2, <4>1
      <4> QED BY <4>2
    <3> QED BY <3>1, <3>2
  <2>9. n \in 1..n
    BY <1>3
  <2>10. Parts(ss, F)
    BY <1>1, <2>4, <2>7, <2>8, <2>9 DEF Parts
  <2> QED BY <2>10
<1> QED BY <1>2, <1>3

-----------------------------------------------------------------------------
(* Messages that continue one another *)

\* A message of a replay, when the page has taken x of its rows: y is how many it has then.
SessionStep(x, m, y) ==
  /\ m.type = "chunk" => m.start = x /\ y = m.end
  /\ m.type = "success" => m.value.rows = x
  /\ m.type # "chunk" => y = x

\* Nothing is left of the last bundle of a case; x says how many bundles the page has and how many
\* rows of the last one.
Complete(c, x) == x.bundles = 0 \/ x.rows = c.rows

\* The rows of a bundle of a case from one on.
Piece(h, key, from, n) == [i \in 1..n |-> <<h, key, from + i>>]

CaseBundle(c, x, m, y) ==
  /\ m.index = x.bundles + 1 /\ m.index \in 1..Len(Merged(c)) /\ m.hash = Merged(c)[m.index]
  /\ m.counts = c.rows /\ Complete(c, x)
  /\ y = [bundles |-> m.index, rows |-> [k \in Range(Keys) |-> 0]]

CaseChunk(c, x, m, y) ==
  /\ m.index = x.bundles /\ m.index \in 1..Len(Merged(c)) /\ m.key \in Range(Keys)
  /\ m.offset = x.rows[m.key]
  /\ \E n \in 0..ChunkRecords :
       /\ m.values = Piece(Merged(c)[m.index], m.key, m.offset, n)
       /\ m.offset + n <= c.rows[m.key]
       /\ y = [x EXCEPT !.rows[m.key] = m.offset + n]

CaseStep(c, x, m, y) ==
  \/ m.type = "bundle" /\ CaseBundle(c, x, m, y)
  \/ m.type = "chunk" /\ CaseChunk(c, x, m, y)
  \/ m.type = "progress" /\ y = x
  \/ m.type = "error" /\ y = x /\ m.code = "case" /\ ~Sound("case", c)
  \/ /\ m.type = "complete" /\ y = x /\ Sound("case", c)
     /\ m.bundles = x.bundles /\ x.bundles = Len(Merged(c)) /\ Complete(c, x)

Step(kind, input, x, m, y) ==
  CASE kind = "session" -> SessionStep(x, m, y)
    [] kind = "rows" -> m.type \in {"bundle", "chunk"} /\ CaseStep(input, x, m, y)
    [] OTHER -> CaseStep(input, x, m, y)

\* The messages s take the page from x to y.
Leads(kind, input, s, x, y) ==
  /\ IsSeq(s)
  /\ \E g : /\ g[0] = x /\ g[Len(s)] = y
            /\ \A i \in 1..Len(s) : Step(kind, input, g[i - 1], s[i], g[i])

\* No message leaves the page where it is, one takes it one step.
LEMMA LeadsFew ==
  ASSUME NEW kind, NEW input, NEW x, NEW m, NEW y
  PROVE  /\ Leads(kind, input, <<>>, x, x)
         /\ Step(kind, input, x, m, y) => Leads(kind, input, <<m>>, x, y)
<1>1. Leads(kind, input, <<>>, x, x)
  <2>1. PICK s : s = <<>> /\ IsSeq(s) /\ Len(s) = 0
    BY FewFacts
  <2>2. PICK g : g = [i \in 0..0 |-> x]
    OBVIOUS
  <2>3. g[0] = x
    BY <2>2
  <2>4. Leads(kind, input, s, x, x)
    BY <2>1, <2>3 DEF Leads
  <2> QED BY <2>1, <2>4
<1>2. ASSUME Step(kind, input, x, m, y)  PROVE Leads(kind, input, <<m>>, x, y)
  <2>1. PICK s : s = <<m>>
    OBVIOUS
  <2>2. IsSeq(s) /\ Len(s) = 1 /\ s[1] = m
    BY <2>1, FewFacts
  <2>3. PICK g : g = [i \in 0..1 |-> IF i = 0 THEN x ELSE y]
    OBVIOUS
  <2>4. g[0] = x /\ g[1] = y
    BY <2>3
  <2>5. ASSUME NEW i \in 1..Len(s)  PROVE Step(kind, input, g[i - 1], s[i], g[i])
    <3>1. i = 1 /\ i - 1 = 0
      BY <2>2
    <3> QED BY <1>2, <2>2, <2>4, <3>1
  <2>6. Leads(kind, input, s, x, y)
    BY <2>2, <2>4, <2>5 DEF Leads
  <2> QED BY <2>1, <2>6
<1> QED BY <1>1, <1>2

LEMMA LeadsJoin ==
  ASSUME NEW kind, NEW input, NEW s, NEW t, NEW x, NEW y, NEW z,
         Leads(kind, input, s, x, y), Leads(kind, input, t, y, z)
  PROVE  Leads(kind, input, s \o t, x, z)
<1> DEFINE u == s \o t
           n == Len(s)
<1>1. /\ IsSeq(u) /\ Len(u) = n + Len(t) /\ n \in Nat /\ Len(t) \in Nat
      /\ \A i \in 1..n : u[i] = s[i]
      /\ \A i \in 1..Len(t) : u[n + i] = t[i]
  BY JoinFacts DEF Leads, IsSeq
<1>2. PICK g : g[0] = x /\ g[n] = y /\ \A i \in 1..n : Step(kind, input, g[i - 1], s[i], g[i])
  BY DEF Leads
<1>3. PICK h : h[0] = y /\ h[Len(t)] = z /\ \A i \in 1..Len(t) : Step(kind, input, h[i - 1], t[i], h[i])
  BY DEF Leads
<1> HIDE DEF u, n
<1>4. PICK f : f = [i \in 0..Len(u) |-> IF i <= n THEN g[i] ELSE h[i - n]]
  OBVIOUS
<1>5. /\ \A i \in 0..n : f[i] = g[i]
      /\ \A i \in 0..Len(t) : f[n + i] = h[i]
  <2>1. \A i \in 0..n : f[i] = g[i]
    BY <1>1, <1>4
  <2>2. ASSUME NEW i \in 0..Len(t)  PROVE f[n + i] = h[i]
    <3>1. CASE i = 0
      <4>1. n + i = n /\ n \in 0..n
        BY <1>1, <3>1
      <4> QED BY <1>2, <1>3, <2>1, <3>1, <4>1
    <3>2. CASE i # 0
      <4>1. n + i \in 0..Len(u) /\ ~(n + i <= n) /\ (n + i) - n = i
        BY <1>1, <3>2
      <4> QED BY <1>4, <4>1
    <3> QED BY <3>1, <3>2
  <2> QED BY <2>1, <2>2
<1>6. ASSUME NEW i \in 1..Len(u)  PROVE Step(kind, input, f[i - 1], u[i], f[i])
  <2>1. CASE i <= n
    <3>1. i \in 1..n /\ i \in 0..n /\ i - 1 \in 0..n
      BY <1>1, <2>1
    <3> QED BY <1>1, <1>2, <1>5, <3>1
  <2>2. CASE ~(i <= n)
    <3>1. PICK k : k = i - n
      OBVIOUS
    <3>2. k \in 1..Len(t) /\ k \in 0..Len(t) /\ k - 1 \in 0..Len(t) /\ i = n + k /\ i - 1 = n + (k - 1)
      <4>1. PICK a \in Nat, b \in Nat : a = n /\ b = Len(t)
        BY <1>1
      <4>2. i \in 1..(a + b) /\ ~(i <= a) /\ k = i - a
        BY <1>1, <2>2, <3>1, <4>1
      <4>3. k \in 1..b /\ k \in 0..b /\ k - 1 \in 0..b /\ i = a + k /\ i - 1 = a + (k - 1)
        BY <4>2
      <4> QED BY <4>1, <4>3
    <3>3. f[n + k] = h[k] /\ f[n + (k - 1)] = h[k - 1] /\ u[n + k] = t[k]
      BY <1>1, <1>5, <3>2
    <3> QED BY <1>3, <3>2, <3>3
  <2> QED BY <2>1, <2>2
<1>7. f[0] = x /\ f[Len(u)] = z
  <2>1. 0 \in 0..n /\ Len(t) \in 0..Len(t)
    BY <1>1
  <2> QED BY <1>1, <1>2, <1>3, <1>5, <2>1
<1>8. Leads(kind, input, u, x, z)
  BY <1>1, <1>6, <1>7 DEF Leads
<1> QED BY <1>8 DEF u

LEMMA LeadsTail ==
  ASSUME NEW kind, NEW input, NEW s, NEW x, NEW y, Leads(kind, input, s, x, y), s # <<>>
  PROVE  \E z : Step(kind, input, x, Head(s), z) /\ Leads(kind, input, Tail(s), z, y)
<1> DEFINE u == Tail(s)
<1>1. /\ IsSeq(u) /\ Len(u) = Len(s) - 1 /\ Len(s) \in Nat /\ Len(s) >= 1 /\ Head(s) = s[1]
      /\ \A i \in 1..Len(u) : i + 1 \in 1..Len(s) /\ u[i] = s[i + 1]
  BY TailFacts DEF Leads, IsSeq
<1>2. PICK g : g[0] = x /\ g[Len(s)] = y /\ \A i \in 1..Len(s) : Step(kind, input, g[i - 1], s[i], g[i])
  BY DEF Leads
<1> HIDE DEF u
<1>3. Step(kind, input, x, s[1], g[1])
  <2>1. 1 \in 1..Len(s) /\ 1 - 1 = 0
    BY <1>1
  <2> QED BY <1>2, <2>1
<1>4. PICK f : f = [i \in 0..Len(u) |-> g[i + 1]]
  OBVIOUS
<1>5. ASSUME NEW i \in 1..Len(u)  PROVE Step(kind, input, f[i - 1], u[i], f[i])
  <2>1. i + 1 \in 1..Len(s) /\ i \in 0..Len(u) /\ i - 1 \in 0..Len(u) /\ (i - 1) + 1 = i /\ (i + 1) - 1 = i
    BY <1>1
  <2>2. f[i] = g[i + 1] /\ f[i - 1] = g[i] /\ u[i] = s[i + 1]
    <3>1. f[i] = g[i + 1]
      BY <1>4, <2>1
    <3>2. f[i - 1] = g[(i - 1) + 1]
      BY <1>4, <2>1
    <3> QED BY <1>1, <2>1, <3>1, <3>2
  <2>3. Step(kind, input, g[(i + 1) - 1], s[i + 1], g[i + 1])
    BY <1>2, <2>1
  <2> QED BY <2>1, <2>2, <2>3
<1>6. f[0] = g[1] /\ f[Len(u)] = y
  <2>1. 0 \in 0..Len(u) /\ Len(u) \in 0..Len(u) /\ 0 + 1 = 1 /\ Len(u) + 1 = Len(s)
    BY <1>1
  <2>2. f[0] = g[0 + 1] /\ f[Len(u)] = g[Len(u) + 1]
    BY <1>4, <2>1
  <2> QED BY <1>2, <2>1, <2>2
<1>7. Leads(kind, input, u, g[1], y)
  BY <1>1, <1>5, <1>6 DEF Leads
<1> QED BY <1>1, <1>3, <1>7 DEF u

\* Messages that leave the page where it is.
LEMMA LeadsStay ==
  ASSUME NEW kind, NEW input, NEW s, NEW x, IsSeq(s), \A i \in 1..Len(s) : Step(kind, input, x, s[i], x)
  PROVE  Leads(kind, input, s, x, x)
<1>1. Len(s) \in Nat
  BY DEF IsSeq
<1>2. PICK g : g = [i \in 0..Len(s) |-> x]
  OBVIOUS
<1>3. \A i \in 0..Len(s) : g[i] = x
  BY <1>2
<1>4. 0 \in 0..Len(s) /\ Len(s) \in 0..Len(s) /\ \A i \in 1..Len(s) : i \in 0..Len(s) /\ i - 1 \in 0..Len(s)
  BY <1>1
<1>5. \A i \in 1..Len(s) : Step(kind, input, g[i - 1], s[i], g[i])
  BY <1>3, <1>4
<1> QED BY <1>3, <1>4, <1>5 DEF Leads

\* A flattened sequence leads where its parts lead, one after the other.
LEMMA LeadsFlatten ==
  ASSUME NEW kind, NEW input, NEW ss, NEW xs, IsSeq(ss),
         \A i \in 1..Len(ss) : Leads(kind, input, ss[i], xs[i - 1], xs[i])
  PROVE  Leads(kind, input, FlattenSeq(ss), xs[0], xs[Len(ss)])
<1>1. PICK n \in Nat : n = Len(ss)
  BY DEF IsSeq
<1>2. \A i \in 1..Len(ss) : IsSeq(ss[i])
  BY DEF Leads
<1>3. PICK F : Parts(ss, F)
  BY <1>2, PartsExist
<1> DEFINE S == {k \in Nat : k <= n => Leads(kind, input, F[k], xs[0], xs[k])}
<1>4. 0 \in S
  <2>1. F[0] = <<>>
    BY <1>3 DEF Parts
  <2>2. Leads(kind, input, <<>>, xs[0], xs[0])
    BY LeadsFew
  <2> QED BY <2>1, <2>2
<1>5. ASSUME NEW k \in Nat, k \in S  PROVE k + 1 \in S
  <2>1. ASSUME k + 1 <= n  PROVE Leads(kind, input, F[k + 1], xs[0], xs[k + 1])
    <3>1. PICK l : l = k + 1
      OBVIOUS
    <3>2. l \in 1..Len(ss) /\ l - 1 = k /\ k <= n
      BY <1>1, <2>1, <3>1
    <3>3. Leads(kind, input, F[k], xs[0], xs[k])
      BY <1>5, <3>2
    <3>4. F[l] = F[k] \o ss[l]
      BY <1>3, <3>2 DEF Parts
    <3>5. Leads(kind, input, ss[l], xs[k], xs[l])
      <4>1. Leads(kind, input, ss[l], xs[l - 1], xs[l])
        BY <3>2
      <4> QED BY <3>2, <4>1
    <3>6. Leads(kind, input, F[k] \o ss[l], xs[0], xs[l])
      BY <3>3, <3>5, LeadsJoin, Zenon
    <3> QED BY <3>1, <3>4, <3>6
  <2> QED BY <2>1
<1> HIDE DEF S
<1>6. n \in S
  BY <1>4, <1>5, SetInduction
<1>7. Leads(kind, input, F[n], xs[0], xs[n])
  BY <1>6 DEF S
<1> QED BY <1>1, <1>3, <1>7 DEF Parts

\* What the worker of a replay posts takes the page from no rows to all of them.
LEMMA ChunksLead ==
  ASSUME NEW r, NEW n \in Nat
  PROVE  Leads("session", r, Chunks(n), 0, n)
<1> DEFINE s == Chunks(n)
           l == (n + ChunkRecords - 1) \div ChunkRecords
           at == Multiples(n, ChunkRecords)
<1>1. /\ l \in Nat /\ IsSeq(s) /\ Len(s) = l /\ at[1] = 0 /\ at[l + 1] = n
      /\ \A i \in 1..l : i \in 1..(l + 1) /\ i + 1 \in 1..(l + 1) /\ s[i] = Chunk(at[i], at[i + 1], n)
  BY ChunkFacts
<1> HIDE DEF s, l, at
<1>2. PICK g : g = [i \in 0..l |-> at[i + 1]]
  OBVIOUS
<1>3. ASSUME NEW i \in 1..l  PROVE Step("session", r, g[i - 1], s[i], g[i])
  <2>1. i \in 0..l /\ i - 1 \in 0..l /\ (i - 1) + 1 = i
    BY <1>1
  <2>2. g[i] = at[i + 1] /\ g[i - 1] = at[i]
    <3>1. g[i - 1] = at[(i - 1) + 1]
      BY <1>2, <2>1
    <3> QED BY <1>2, <2>1, <3>1
  <2>3. PICK m : m = s[i]
    OBVIOUS
  <2>4. PICK x, y : x = at[i] /\ y = at[i + 1]
    OBVIOUS
  <2>5. m.type = "chunk" /\ m.start = x /\ m.end = y
    <3>1. m = Chunk(x, y, n)
      BY <1>1, <2>3, <2>4
    <3> QED BY <3>1, MessageFacts
  <2>6. SessionStep(x, m, y)
    BY <2>5 DEF SessionStep
  <2> QED BY <2>2, <2>3, <2>4, <2>6 DEF Step
<1>4. g[0] = 0 /\ g[l] = n
  <2>1. 0 \in 0..l /\ l \in 0..l /\ 0 + 1 = 1
    BY <1>1
  <2>2. g[0] = at[0 + 1] /\ g[l] = at[l + 1]
    BY <1>2, <2>1
  <2> QED BY <1>1, <2>1, <2>2
<1>5. Leads("session", r, s, 0, n)
  BY <1>1, <1>3, <1>4 DEF Leads
<1> QED BY <1>5 DEF s

\* Progress and an error leave the page where it is.
LEMMA SessionStays ==
  ASSUME NEW r, NEW x, NEW m, m.type \in {"progress", "error"}
  PROVE  Step("session", r, x, m, x)
<1>1. SessionStep(x, m, x)
  BY DEF SessionStep
<1> QED BY <1>1 DEF Step

LEMMA ProgressLeads ==
  ASSUME NEW r, NEW x, NEW ps, IsSeq(ps)
  PROVE  Leads("session", r, [i \in DOMAIN ps |-> Progress(ps[i])], x, x)
<1> DEFINE s == [i \in DOMAIN ps |-> Progress(ps[i])]
<1>1. DOMAIN ps = 1..Len(ps) /\ Len(ps) \in Nat
  BY DEF IsSeq
<1>2. s = [i \in 1..Len(ps) |-> s[i]] /\ \A i \in 1..Len(ps) : s[i] = Progress(ps[i])
  BY <1>1
<1> HIDE DEF s
<1>3. IsSeq(s) /\ Len(s) = Len(ps)
  BY <1>1, <1>2, GivenFacts
<1>4. ASSUME NEW i \in 1..Len(s)  PROVE Step("session", r, x, s[i], x)
  <2>1. s[i].type = "progress"
    BY <1>2, <1>3, MessageFacts
  <2> QED BY <2>1, SessionStays
<1>5. Leads("session", r, s, x, x)
  BY <1>3, <1>4, LeadsStay
<1> QED BY <1>5 DEF s

LEMMA SessionLeads ==
  ASSUME NEW r, IsReplay(r)
  PROVE  \E y : Leads("session", r, SessionScript(r), 0, y)
<1>1. PICK n \in Nat : n = r.n
  BY DEF IsReplay
<1>2. PICK kind : kind = "session"
  OBVIOUS
<1>3. PICK zero : zero = 0
  OBVIOUS
<1>4. PICK ps : ps = CorePercents(r) /\ IsSeq(ps)
  BY CoreClimbs DEF Climbs
<1>5. PICK s : s = [i \in DOMAIN ps |-> Progress(ps[i])] /\ Leads(kind, r, s, zero, zero)
  BY <1>2, <1>4, ProgressLeads
<1>6. PICK t : t = Chunks(n) /\ Leads(kind, r, t, zero, n)
  BY <1>2, <1>3, ChunksLead
<1>7. PICK u : u = <<Answer([rows |-> r.n, artifact |-> ArtifactText(r)])>> /\ Leads(kind, r, u, n, n)
  <2> DEFINE v == [rows |-> n, artifact |-> ArtifactText(r)]
  <2>1. v.rows = n
    OBVIOUS
  <2> HIDE DEF v
  <2>2. PICK m : m = Answer(v) /\ m.type = "success" /\ m.value = v
    BY MessageFacts
  <2>3. SessionStep(n, m, n)
    BY <2>1, <2>2 DEF SessionStep
  <2>4. Step(kind, r, n, m, n)
    BY <1>2, <2>3 DEF Step
  <2>5. Leads(kind, r, <<m>>, n, n)
    BY <2>4, LeadsFew
  <2> QED BY <1>1, <2>2, <2>5 DEF v
<1>8. PICK w : w = <<Failure(CoreEnd(r))>> /\ Leads(kind, r, w, zero, zero)
  <2>1. PICK m : m = Failure(CoreEnd(r)) /\ m.type = "error"
    BY MessageFacts
  <2>2. Step(kind, r, zero, m, zero)
    BY <1>2, <2>1, SessionStays
  <2>3. Leads(kind, r, <<m>>, zero, zero)
    BY <2>2, LeadsFew
  <2> QED BY <2>1, <2>3
<1>9. Leads(kind, r, t \o u, zero, n)
  BY <1>6, <1>7, LeadsJoin
<1>10. PICK y, z : SessionScript(r) = s \o y /\ Leads(kind, r, y, zero, z)
  <2>1. SessionScript(r) = s \o (IF CoreEnd(r) # "ok" THEN w ELSE t \o u)
    BY <1>1, <1>4, <1>5, <1>6, <1>7, <1>8 DEF SessionScript
  <2>2. CASE CoreEnd(r) # "ok"
    BY <1>8, <2>1, <2>2
  <2>3. CASE CoreEnd(r) = "ok"
    BY <1>9, <2>1, <2>3
  <2> QED BY <2>2, <2>3
<1>11. Leads(kind, r, s \o y, zero, z)
  BY <1>5, <1>10, LeadsJoin
<1> QED BY <1>2, <1>3, <1>10, <1>11

-----------------------------------------------------------------------------
(* The bundles of a case *)

\* A case as its worker is given it.
IsCase(c) ==
  /\ c.stored \in BOOLEAN /\ c.fault \in {"none", "preflight", "bundle", "content"}
  /\ IsSeq(c.bundles) /\ IsSeq(c.added) /\ c.rows \in [Range(Keys) -> Nat]

LEMMA CasesTyped == \A c \in Cases : IsCase(c)
<1>1. MaxRecords \in Nat
  BY JobsAssumption
<1>2. \A k \in 0..2 : \A s \in [1..k -> Hashes] : IsSeq(s)
  <2>1. ASSUME NEW k \in 0..2, NEW s \in [1..k -> Hashes]  PROVE IsSeq(s)
    <3>1. k \in Nat /\ s = [i \in 1..k |-> s[i]]
      OBVIOUS
    <3> QED BY <3>1, GivenFacts
  <2> QED BY <2>1
<1>3. \A s \in UNION {[1..k -> Hashes] : k \in 0..2} : IsSeq(s)
  BY <1>2
<1>4. \A f \in [Range(Keys) -> {0, MaxRecords}] : f \in [Range(Keys) -> Nat]
  BY <1>1
<1> QED BY <1>3, <1>4 DEF Cases, IsCase

\* The additions of a build, made one by one.
Added(f, b, a, n) ==
  /\ f = [i \in 0..n |-> f[i]] /\ f[0] = b
  /\ \A i \in 1..n : f[i] = IF a[i] \in Range(f[i - 1]) THEN f[i - 1] ELSE Append(f[i - 1], a[i])

LEMMA AddedExists ==
  ASSUME NEW b, NEW a, NEW n \in Nat
  PROVE  \E f : Added(f, b, a, n)
<1> DEFINE S == {k \in Nat : \E f : Added(f, b, a, k)}
           More(f, i) == IF a[i] \in Range(f[i - 1]) THEN f[i - 1] ELSE Append(f[i - 1], a[i])
<1>1. 0 \in S
  <2>1. PICK f : f = [i \in 0..0 |-> b]
    OBVIOUS
  <2>2. f[0] = b /\ f = [i \in 0..0 |-> f[i]]
    BY <2>1
  <2>3. Added(f, b, a, 0)
    BY <2>2 DEF Added
  <2> QED BY <2>3
<1>2. ASSUME NEW k \in Nat, k \in S  PROVE k + 1 \in S
  <2>1. PICK f : Added(f, b, a, k)
    BY <1>2
  <2>2. f[0] = b /\ \A i \in 1..k : f[i] = More(f, i)
    BY <2>1 DEF Added
  <2> HIDE DEF More
  <2>3. PICK g : g = [i \in 0..(k + 1) |-> IF i <= k THEN f[i] ELSE More(f, i)]
    OBVIOUS
  <2>4. g = [i \in 0..(k + 1) |-> g[i]] /\ g[0] = b
    BY <2>2, <2>3
  <2>5. \A i \in 0..k : g[i] = f[i]
    BY <2>3
  <2>6. ASSUME NEW i \in 1..(k + 1)  PROVE g[i] = More(g, i)
    <3>1. i - 1 \in 0..k
      OBVIOUS
    <3>2. More(g, i) = More(f, i)
      BY <2>5, <3>1 DEF More
    <3>3. CASE i <= k
      <4>1. i \in 0..k /\ i \in 1..k
        BY <3>3
      <4> QED BY <2>2, <2>5, <3>2, <4>1
    <3>4. CASE ~(i <= k)
      BY <2>3, <3>2, <3>4
    <3> QED BY <3>3, <3>4
  <2>7. Added(g, b, a, k + 1)
    BY <2>4, <2>6 DEF Added, More
  <2> QED BY <2>7
<1> HIDE DEF S
<1>3. Nat \subseteq S
  BY <1>1, <1>2, SetInduction
<1> QED BY <1>3 DEF S

\* The bundles a build ends with are a sequence.
LEMMA MergedTyped ==
  ASSUME NEW c, IsCase(c)  PROVE IsSeq(Merged(c)) /\ Len(Merged(c)) \in Nat
<1>1. PICK n \in Nat : n = Len(c.added)
  BY DEF IsCase, IsSeq
<1>2. PICK b, a : b = c.bundles /\ a = c.added
  OBVIOUS
<1> DEFINE D(f) == [i \in 0..n |-> IF i = 0 THEN b ELSE IF a[i] \in Range(f[i - 1]) THEN f[i - 1]
                                                      ELSE Append(f[i - 1], a[i])]
<1>3. PICK f : Added(f, b, a, n)
  BY AddedExists
<1>4. f = D(f)
  BY <1>3 DEF Added
<1>5. PICK h : h = (CHOOSE f1 : f1 = D(f1)) /\ h = D(h)
  BY <1>4
<1>6. Merged(c) = h[n]
  BY <1>1, <1>2, <1>5 DEF Merged
<1>7. h[0] = b /\ \A i \in 1..n : h[i] = h[i - 1] \/ h[i] = Append(h[i - 1], a[i])
  <2>1. \A i \in 0..n : h[i] = IF i = 0 THEN b ELSE IF a[i] \in Range(h[i - 1]) THEN h[i - 1]
                                                  ELSE Append(h[i - 1], a[i])
    <3>1. h = [i \in 0..n |-> IF i = 0 THEN b ELSE IF a[i] \in Range(h[i - 1]) THEN h[i - 1]
                                                  ELSE Append(h[i - 1], a[i])]
      BY <1>5
    <3> QED BY <3>1, Zenon
  <2>2. 0 \in 0..n /\ \A i \in 1..n : i \in 0..n /\ i # 0
    OBVIOUS
  <2> QED BY <2>1, <2>2
<1> DEFINE S == {k \in Nat : k <= n => IsSeq(h[k])}
<1>8. 0 \in S
  BY <1>2, <1>7 DEF IsCase
<1>9. ASSUME NEW k \in Nat, k \in S  PROVE k + 1 \in S
  <2>1. ASSUME k + 1 <= n  PROVE IsSeq(h[k + 1])
    <3>1. PICK l : l = k + 1
      OBVIOUS
    <3>2. l \in 1..n /\ l - 1 = k /\ IsSeq(h[k])
      BY <1>9, <2>1, <3>1
    <3>3. h[l] = h[k] \/ h[l] = Append(h[k], a[l])
      BY <1>7, <3>2
    <3>4. PICK s, e : s = h[k] /\ e = a[l]
      OBVIOUS
    <3>5. IsSeq(s) /\ (h[l] = s \/ h[l] = Append(s, e))
      BY <3>2, <3>3, <3>4
    <3>6. IsSeq(Append(s, e))
      BY <3>5, AppendTo
    <3> QED BY <3>1, <3>5, <3>6
  <2> QED BY <2>1
<1> HIDE DEF S
<1>10. n \in S
  BY <1>8, <1>9, SetInduction
<1> QED BY <1>6, <1>10 DEF S, IsSeq

\* The chunk of a bundle's rows from a to b.
LEMMA PieceFacts ==
  ASSUME NEW h, NEW key, NEW n \in Nat, NEW a \in Nat, NEW b \in Nat, a <= b, b <= n
  PROVE  SubSeq(Rows(h, key, n), a + 1, b) = Piece(h, key, a, b - a)
<1>1. PICK s : s = Rows(h, key, n)
  OBVIOUS
<1>2. \A i \in 1..n : s[i] = <<h, key, i>>
  BY <1>1 DEF Rows
<1>3. SubSeq(s, a + 1, b) = [i \in 1..(b - a) |-> s[a + i]]
  <2>1. s = [i \in 1..n |-> s[i]]
    BY <1>1 DEF Rows
  <2>2. b <= Len(s)
    BY <2>1
  <2> QED BY <2>2
<1>4. \A i \in 1..(b - a) : s[a + i] = <<h, key, a + i>>
  <2>1. \A i \in 1..(b - a) : a + i \in 1..n
    OBVIOUS
  <2> QED BY <1>2, <2>1
<1>5. SubSeq(s, a + 1, b) = [i \in 1..(b - a) |-> <<h, key, a + i>>]
  BY <1>3, <1>4
<1> QED BY <1>1, <1>5 DEF Piece

\* The page with b bundles of a case and the rows f of the last one.
At(b, f) == [bundles |-> b, rows |-> f]

LEMMA AtFacts ==
  ASSUME NEW b, NEW f
  PROVE  At(b, f).bundles = b /\ At(b, f).rows = f
BY DEF At

\* Nothing of a kind of evidence has come.
Blank(f, key) == f[key] = 0

\* The chunks of one kind of evidence bring all of its rows.
LEMMA RowsLead ==
  ASSUME NEW c, IsCase(c), NEW index \in 1..Len(Merged(c)), NEW key \in Range(Keys),
         NEW f \in [Range(Keys) -> Nat], Blank(f, key)
  PROVE  Leads("rows", c, RowChunks(c, Merged(c), index, key), At(index, f),
               At(index, [f EXCEPT ![key] = c.rows[key]]))
<1>1. PICK n : n = c.rows[key]
  OBVIOUS
<1>15. n \in Nat
  BY <1>1 DEF IsCase
<1>2. PICK h : h = Merged(c)[index]
  OBVIOUS
<1>14. \A a, b \in Nat : a <= b /\ b <= n => SubSeq(Rows(h, key, n), a + 1, b) = Piece(h, key, a, b - a)
  BY <1>15, PieceFacts
<1> DEFINE s == Chunks(n)
           l == (n + ChunkRecords - 1) \div ChunkRecords
           at == Multiples(n, ChunkRecords)
           u == RowChunks(c, Merged(c), index, key)
           Now(i) == At(index, [f EXCEPT ![key] = at[i]])
           Message(i) == [type |-> "chunk", index |-> index, key |-> key, offset |-> at[i],
                          values |-> Piece(h, key, at[i], at[i + 1] - at[i])]
<1>3. /\ l \in Nat /\ IsSeq(s) /\ Len(s) = l /\ at[1] = 0 /\ at[l + 1] = n
      /\ \A i \in 1..l : /\ i \in 1..(l + 1) /\ i + 1 \in 1..(l + 1) /\ s[i] = Chunk(at[i], at[i + 1], n)
                         /\ at[i] \in Nat /\ at[i + 1] \in Nat /\ at[i] <= at[i + 1] /\ at[i + 1] <= n
                         /\ at[i + 1] - at[i] <= ChunkRecords
  BY <1>15, ChunkFacts
<1>4. u = [i \in DOMAIN s |->
             [type |-> "chunk", index |-> index, key |-> key, offset |-> s[i].start,
              values |-> SubSeq(Rows(h, key, n), s[i].start + 1, s[i].end)]]
  BY <1>1, <1>2 DEF RowChunks
<1> HIDE DEF s, l, at, u
<1>5. DOMAIN s = 1..l
  BY <1>3 DEF IsSeq
<1>6. u = [i \in 1..l |-> u[i]] /\ \A i \in 1..l : u[i] = Message(i)
  <2>1. u = [i \in 1..l |-> u[i]]
    BY <1>4, <1>5
  <2>2. ASSUME NEW i \in 1..l  PROVE u[i] = Message(i)
    <3>1. PICK a \in Nat, b \in Nat : a = at[i] /\ b = at[i + 1] /\ a <= b /\ b <= n
      BY <1>3
    <3>2. PICK m : m = s[i]
      OBVIOUS
    <3>3. m = Chunk(a, b, n)
      BY <1>3, <3>1, <3>2
    <3>4. m.start = a /\ m.end = b
      BY <3>3, MessageFacts
    <3>5. SubSeq(Rows(h, key, n), a + 1, b) = Piece(h, key, a, b - a)
      BY <1>14, <3>1
    <3>6. u[i] = [type |-> "chunk", index |-> index, key |-> key, offset |-> m.start,
                  values |-> SubSeq(Rows(h, key, n), m.start + 1, m.end)]
      BY <1>4, <1>5, <3>2
    <3> QED BY <3>1, <3>4, <3>5, <3>6
  <2> QED BY <2>1, <2>2
<1>7. IsSeq(u) /\ Len(u) = l
  BY <1>3, <1>6, GivenFacts
<1>8. ASSUME NEW i \in 1..l  PROVE Step("rows", c, Now(i), u[i], Now(i + 1))
  <2>1. PICK a \in Nat, b \in Nat : a = at[i] /\ b = at[i + 1] /\ a <= b /\ b <= n /\ b - a <= ChunkRecords
    BY <1>3
  <2>2. PICK d \in 0..ChunkRecords : d = b - a /\ a + d = b
    <3>1. ChunkRecords \in Nat
      BY JobsAssumption
    <3> QED BY <2>1, <3>1
  <2>3. PICK fa, fb : fa = [f EXCEPT ![key] = a] /\ fb = [f EXCEPT ![key] = b]
    OBVIOUS
  <2>4. fa[key] = a /\ fb = [fa EXCEPT ![key] = b]
    BY <2>3
  <2>5. PICK x, y : x = At(index, fa) /\ y = At(index, fb)
    OBVIOUS
  <2>6. x.bundles = index /\ x.rows = fa
    BY <2>5, AtFacts
  <2>7. y = [x EXCEPT !.rows[key] = b]
    BY <2>4, <2>5 DEF At
  <2>8. PICK m : m = u[i]
    OBVIOUS
  <2>9. m.type = "chunk" /\ m.index = index /\ m.key = key /\ m.offset = a /\ m.values = Piece(h, key, a, d)
    BY <1>6, <2>1, <2>2, <2>8
  <2>10. CaseChunk(c, x, m, y)
    <3>1. m.index = x.bundles /\ m.index \in 1..Len(Merged(c)) /\ m.key \in Range(Keys) /\ m.offset = x.rows[m.key]
      BY <2>4, <2>6, <2>9
    <3>2. /\ m.values = Piece(Merged(c)[m.index], m.key, m.offset, d)
          /\ m.offset + d <= c.rows[m.key]
          /\ y = [x EXCEPT !.rows[m.key] = m.offset + d]
      BY <1>1, <1>2, <2>1, <2>2, <2>7, <2>9
    <3> QED BY <3>1, <3>2 DEF CaseChunk
  <2>11. CaseStep(c, x, m, y)
    BY <2>9, <2>10 DEF CaseStep
  <2>12. Now(i) = x /\ Now(i + 1) = y
    BY <2>1, <2>3, <2>5
  <2> HIDE DEF Now
  <2>13. Step("rows", c, x, m, y)
    BY <2>9, <2>11 DEF Step
  <2> QED BY <2>8, <2>12, <2>13
<1>9. Now(1) = At(index, f) /\ Now(l + 1) = At(index, [f EXCEPT ![key] = c.rows[key]])
  <2>1. [f EXCEPT ![key] = 0] = f
    BY DEF Blank
  <2> QED BY <1>1, <1>3, <2>1
<1> HIDE DEF Now, Message
<1>10. PICK g : g = [i \in 0..l |-> Now(i + 1)]
  OBVIOUS
<1>11. ASSUME NEW i \in 1..l  PROVE Step("rows", c, g[i - 1], u[i], g[i])
  <2>1. i \in 0..l /\ i - 1 \in 0..l /\ (i - 1) + 1 = i
    BY <1>3
  <2>2. g[i] = Now(i + 1) /\ g[i - 1] = Now(i)
    <3>1. g[i - 1] = Now((i - 1) + 1)
      BY <1>10, <2>1
    <3> QED BY <1>10, <2>1, <3>1
  <2> QED BY <1>8, <2>2
<1>12. g[0] = Now(1) /\ g[l] = Now(l + 1)
  <2>1. 0 \in 0..l /\ l \in 0..l /\ 0 + 1 = 1
    BY <1>3
  <2>2. g[0] = Now(0 + 1) /\ g[l] = Now(l + 1)
    BY <1>10, <2>1
  <2> QED BY <2>1, <2>2
<1>13. Leads("rows", c, u, Now(1), Now(l + 1))
  BY <1>7, <1>11, <1>12 DEF Leads
<1> QED BY <1>9, <1>13 DEF u

\* The kinds of evidence are a sequence, each once.
LEMMA KeysFacts ==
  /\ IsSeq(Keys) /\ Len(Keys) \in Nat /\ DOMAIN Keys = 1..Len(Keys)
  /\ \A k \in Range(Keys) : \E i \in 1..Len(Keys) : Keys[i] = k
  /\ \A i \in 1..Len(Keys) : Keys[i] \in Range(Keys)
  /\ \A i, j \in 1..Len(Keys) : Keys[i] = Keys[j] => i = j
<1>1. Keys \in Seq(STRING) /\ IsInjective(Keys)
  BY JobsAssumption
<1>2. IsSeq(Keys) /\ Len(Keys) \in Nat /\ DOMAIN Keys = 1..Len(Keys)
  BY <1>1 DEF IsSeq
<1>3. \A i, j \in 1..Len(Keys) : Keys[i] = Keys[j] => i = j
  BY <1>1, <1>2 DEF IsInjective
<1> QED BY <1>2, <1>3 DEF Range

\* The rows of a bundle after its first k kinds of evidence.
Sofar(c, k) == [key \in Range(Keys) |-> IF \E j \in 1..k : Keys[j] = key THEN c.rows[key] ELSE 0]

LEMMA SofarFacts ==
  ASSUME NEW c, IsCase(c)
  PROVE  /\ \A k \in 0..Len(Keys) : Sofar(c, k) \in [Range(Keys) -> Nat]
         /\ Sofar(c, 0) = [key \in Range(Keys) |-> 0] /\ Sofar(c, Len(Keys)) = c.rows
         /\ \A k \in 1..Len(Keys) : /\ Blank(Sofar(c, k - 1), Keys[k])
                                    /\ Sofar(c, k) = [Sofar(c, k - 1) EXCEPT ![Keys[k]] = c.rows[Keys[k]]]
<1>1. c.rows \in [Range(Keys) -> Nat]
  BY DEF IsCase
<1>2. \A k \in 0..Len(Keys) : Sofar(c, k) \in [Range(Keys) -> Nat]
  BY <1>1 DEF Sofar
<1>3. Sofar(c, 0) = [key \in Range(Keys) |-> 0]
  <2>1. \A key : ~\E j \in 1..0 : Keys[j] = key
    OBVIOUS
  <2> QED BY <2>1 DEF Sofar
<1>4. Sofar(c, Len(Keys)) = c.rows
  <2>1. \A key \in Range(Keys) : \E j \in 1..Len(Keys) : Keys[j] = key
    BY KeysFacts
  <2> QED BY <1>1, <2>1 DEF Sofar
<1>5. ASSUME NEW k \in 1..Len(Keys)
      PROVE  /\ Blank(Sofar(c, k - 1), Keys[k])
             /\ Sofar(c, k) = [Sofar(c, k - 1) EXCEPT ![Keys[k]] = c.rows[Keys[k]]]
  <2>1. PICK l, n : l = k - 1 /\ n = Len(Keys)
    OBVIOUS
  <2>2. n \in Nat /\ k \in 1..n /\ l \in 0..n /\ \A j \in 1..l : j \in 1..n /\ j \in 1..k /\ j # k
    BY <2>1, KeysFacts
  <2>3. \A j \in 1..k : j \in 1..l \/ j = k
    BY <2>1, <2>2
  <2>4. PICK key : key = Keys[k]
    OBVIOUS
  <2>5. key \in Range(Keys) /\ ~\E j \in 1..l : Keys[j] = key
    BY <2>1, <2>2, <2>4, KeysFacts
  <2>6. Blank(Sofar(c, l), key)
    BY <2>5 DEF Blank, Sofar
  <2>7. \A other \in Range(Keys) :
          (\E j \in 1..k : Keys[j] = other) <=> (other = key \/ \E j \in 1..l : Keys[j] = other)
    BY <2>2, <2>3, <2>4
  <2>8. Sofar(c, k) = [Sofar(c, l) EXCEPT ![key] = c.rows[key]]
    BY <2>5, <2>7 DEF Sofar
  <2> QED BY <2>1, <2>4, <2>6, <2>8
<1> QED BY <1>2, <1>3, <1>4, <1>5

\* A bundle and its chunks make the page hold one more bundle, with all of its rows.
LEMMA BundleLeads ==
  ASSUME NEW c, IsCase(c), NEW index \in 1..Len(Merged(c)), NEW x, x.bundles = index - 1, Complete(c, x)
  PROVE  Leads("rows", c, BundleMessages(c, Merged(c), index), x, At(index, c.rows))
<1> DEFINE kind == "rows"
           ss == [k \in DOMAIN Keys |-> RowChunks(c, Merged(c), index, Keys[k])]
           m == [type |-> "bundle", index |-> index, hash |-> Merged(c)[index], counts |-> c.rows]
           n == Len(Keys)
<1>1. BundleMessages(c, Merged(c), index) = <<m>> \o FlattenSeq(ss)
  BY DEF BundleMessages
<1>2. n \in Nat /\ DOMAIN Keys = 1..n
  BY KeysFacts
<1>3. ss = [k \in 1..n |-> ss[k]] /\ \A k \in 1..n : ss[k] = RowChunks(c, Merged(c), index, Keys[k])
  BY <1>2
<1>4. Leads(kind, c, <<m>>, x, At(index, Sofar(c, 0)))
  <2>1. PICK y : y = At(index, Sofar(c, 0))
    OBVIOUS
  <2>2. y = [bundles |-> index, rows |-> [k \in Range(Keys) |-> 0]]
    BY <2>1, SofarFacts DEF At
  <2>3. /\ m.type = "bundle" /\ m.index = index /\ m.hash = Merged(c)[index] /\ m.counts = c.rows
    OBVIOUS
  <2> HIDE DEF m
  <2>4. index = x.bundles + 1
    <3>1. index \in Int
      OBVIOUS
    <3> QED BY <3>1
  <2>5. CaseBundle(c, x, m, y)
    BY <2>2, <2>3, <2>4 DEF CaseBundle
  <2>6. Step(kind, c, x, m, y)
    BY <2>3, <2>5 DEF Step, CaseStep
  <2>7. Leads(kind, c, <<m>>, x, y)
    BY <2>6, LeadsFew
  <2> QED BY <2>1, <2>7
<1> HIDE DEF ss, m, n
<1>5. IsSeq(ss) /\ Len(ss) = n
  BY <1>2, <1>3, GivenFacts
<1>6. PICK xs : xs = [k \in 0..n |-> At(index, Sofar(c, k))]
  OBVIOUS
<1>7. ASSUME NEW k \in 1..Len(ss)  PROVE Leads(kind, c, ss[k], xs[k - 1], xs[k])
  <2>1. k \in 1..n /\ k - 1 \in 0..n /\ k \in 0..n
    BY <1>2, <1>5
  <2>2. PICK f, g, key : f = Sofar(c, k - 1) /\ g = Sofar(c, k) /\ key = Keys[k]
    OBVIOUS
  <2>3. /\ f \in [Range(Keys) -> Nat] /\ key \in Range(Keys) /\ Blank(f, key)
        /\ g = [f EXCEPT ![key] = c.rows[key]]
    BY <2>1, <2>2, SofarFacts, KeysFacts DEF n
  <2>4. Leads(kind, c, RowChunks(c, Merged(c), index, key), At(index, f), At(index, [f EXCEPT ![key] = c.rows[key]]))
    BY <2>3, RowsLead
  <2>5. xs[k - 1] = At(index, f) /\ xs[k] = At(index, g)
    BY <1>6, <2>1, <2>2
  <2> QED BY <1>3, <2>1, <2>2, <2>3, <2>4, <2>5
<1>8. Leads(kind, c, FlattenSeq(ss), xs[0], xs[Len(ss)])
  <2> HIDE DEF kind
  <2> QED BY <1>5, <1>7, LeadsFlatten
<1>9. xs[0] = At(index, Sofar(c, 0)) /\ xs[Len(ss)] = At(index, c.rows)
  <2>1. 0 \in 0..n /\ n \in 0..n
    BY <1>2
  <2> QED BY <1>5, <1>6, <2>1, SofarFacts DEF n
<1>10. Leads(kind, c, <<m>> \o FlattenSeq(ss), x, At(index, c.rows))
  <2>1. PICK s, t, y, z : s = <<m>> /\ t = FlattenSeq(ss) /\ y = xs[0] /\ z = xs[Len(ss)]
    OBVIOUS
  <2>2. Leads(kind, c, s, x, y) /\ Leads(kind, c, t, y, z)
    BY <1>4, <1>8, <1>9, <2>1
  <2> HIDE DEF kind
  <2>3. Leads(kind, c, s \o t, x, z)
    BY <2>2, LeadsJoin
  <2> QED BY <1>9, <2>1, <2>3
<1> QED BY <1>1, <1>10

\* The page before the first bundle of a case.
Empty == At(0, [key \in Range(Keys) |-> 0])

\* All bundles of a case.
LEMMA BundlesLead ==
  ASSUME NEW c, IsCase(c)
  PROVE  LET ss == [i \in DOMAIN Merged(c) |-> BundleMessages(c, Merged(c), i)] IN
         \E y : /\ Leads("rows", c, FlattenSeq(ss), Empty, y)
                /\ y.bundles = Len(Merged(c)) /\ Complete(c, y)
<1> DEFINE kind == "rows"
           n == Len(Merged(c))
           ss == [i \in DOMAIN Merged(c) |-> BundleMessages(c, Merged(c), i)]
           Now(i) == IF i = 0 THEN Empty ELSE At(i, c.rows)
<1>1. n \in Nat /\ DOMAIN Merged(c) = 1..n
  BY MergedTyped DEF IsSeq
<1>2. ss = [i \in 1..n |-> ss[i]] /\ \A i \in 1..n : ss[i] = BundleMessages(c, Merged(c), i)
  BY <1>1
<1> HIDE DEF ss
<1>3. IsSeq(ss) /\ Len(ss) = n
  BY <1>1, <1>2, GivenFacts
<1>4. \A i \in 0..n : Now(i).bundles = i /\ Complete(c, Now(i))
  BY AtFacts DEF Complete, Empty
<1>5. ASSUME NEW i \in 1..n  PROVE Leads(kind, c, ss[i], Now(i - 1), Now(i))
  <2>1. i \in 1..Len(Merged(c)) /\ i - 1 \in 0..n
    BY <1>1
  <2>2. PICK x : x = Now(i - 1)
    OBVIOUS
  <2>3. x.bundles = i - 1 /\ Complete(c, x)
    BY <1>4, <2>1, <2>2
  <2>4. Leads(kind, c, BundleMessages(c, Merged(c), i), x, At(i, c.rows))
    BY <2>1, <2>3, BundleLeads
  <2>5. Now(i) = At(i, c.rows)
    OBVIOUS
  <2> QED BY <1>2, <2>2, <2>4, <2>5
<1> HIDE DEF Now, kind, n
<1>6. PICK xs : xs = [i \in 0..n |-> Now(i)]
  OBVIOUS
<1>7. \A i \in 1..Len(ss) : Leads(kind, c, ss[i], xs[i - 1], xs[i])
  <2>1. \A i \in 1..n : i \in 0..n /\ i - 1 \in 0..n
    BY <1>1
  <2> QED BY <1>3, <1>5, <1>6, <2>1
<1>8. Leads(kind, c, FlattenSeq(ss), xs[0], xs[Len(ss)])
  BY <1>3, <1>7, LeadsFlatten
<1>9. xs[0] = Now(0) /\ xs[Len(ss)] = Now(n) /\ 0 \in 0..n /\ n \in 0..n
  BY <1>1, <1>3, <1>6
<1>10. Leads(kind, c, FlattenSeq(ss), Empty, Now(n)) /\ Now(n).bundles = n /\ Complete(c, Now(n))
  BY <1>4, <1>8, <1>9 DEF Now
<1> QED BY <1>10 DEF kind, n, ss

\* The messages that bring the rows of a case are taken like any other.
LEMMA RowsAreCase ==
  ASSUME NEW c, NEW s, NEW x, NEW y, Leads("rows", c, s, x, y)
  PROVE  Leads("case", c, s, x, y) /\ \A i \in 1..Len(s) : s[i].type \in {"bundle", "chunk"}
<1>1. \A a, m, b : Step("rows", c, a, m, b) => Step("case", c, a, m, b) /\ m.type \in {"bundle", "chunk"}
  BY DEF Step
<1>2. PICK g : g[0] = x /\ g[Len(s)] = y /\ \A i \in 1..Len(s) : Step("rows", c, g[i - 1], s[i], g[i])
  BY DEF Leads
<1>3. IsSeq(s)
  BY DEF Leads
<1>4. \A i \in 1..Len(s) : Step("case", c, g[i - 1], s[i], g[i]) /\ s[i].type \in {"bundle", "chunk"}
  BY <1>1, <1>2
<1> QED BY <1>2, <1>3, <1>4 DEF Leads

\* Progress and a refusal leave the page where it is, and so does the end of a case that is all there.
LEMMA CaseStays ==
  ASSUME NEW c, NEW x, NEW m
  PROVE  /\ m.type = "progress" => Step("case", c, x, m, x)
         /\ m.type = "error" /\ m.code = "case" /\ ~Sound("case", c) => Step("case", c, x, m, x)
         /\ m.type = "complete" /\ Sound("case", c) /\ m.bundles = x.bundles /\ x.bundles = Len(Merged(c))
            /\ Complete(c, x) => Step("case", c, x, m, x)
<1>1. Step("case", c, x, m, x) <=> CaseStep(c, x, m, x)
  BY DEF Step
<1> QED BY <1>1, Zenon DEF CaseStep

LEMMA CaseProgressLeads ==
  ASSUME NEW c, NEW x, NEW ps, IsSeq(ps)
  PROVE  Leads("case", c, [i \in DOMAIN ps |-> Progress(ps[i])], x, x)
<1> DEFINE s == [i \in DOMAIN ps |-> Progress(ps[i])]
<1>1. DOMAIN ps = 1..Len(ps) /\ Len(ps) \in Nat
  BY DEF IsSeq
<1>2. s = [i \in 1..Len(ps) |-> s[i]] /\ \A i \in 1..Len(ps) : s[i] = Progress(ps[i])
  BY <1>1
<1> HIDE DEF s
<1>3. IsSeq(s) /\ Len(s) = Len(ps)
  BY <1>1, <1>2, GivenFacts
<1>4. ASSUME NEW i \in 1..Len(s)  PROVE Step("case", c, x, s[i], x)
  <2>1. PICK m : m = s[i]
    OBVIOUS
  <2>2. m.type = "progress"
    BY <1>2, <1>3, <2>1, MessageFacts
  <2>3. Step("case", c, x, m, x)
    BY <2>2, CaseStays
  <2> QED BY <2>1, <2>3
<1>5. Leads("case", c, s, x, x)
  BY <1>3, <1>4, LeadsStay
<1> QED BY <1>5 DEF s

\* What the verification of a case reports never falls.
LEMMA CaseClimbs ==
  ASSUME NEW c, NEW hs, IsSeq(hs)
  PROVE  Climbs(CasePercents(c, hs), 0, 95)
<1>1. PICK n \in Nat : n = Len(hs) /\ DOMAIN hs = 1..n
  BY DEF IsSeq
<1>2. PICK a \in Int, b \in Int, d \in Int, e \in Int, f \in Int, g \in Int :
        a = 0 /\ b = 5 /\ d = 15 /\ e = 80 /\ f = 85 /\ g = 95
  OBVIOUS
<1> DEFINE each == [i \in DOMAIN hs |-> 15 + (65 * (i - 1)) \div Len(hs)]
<1>3. each = [i \in 1..n |-> each[i]] /\ \A i \in 1..n : each[i] = 15 + (65 * (i - 1)) \div n
  BY <1>1
<1>4. /\ CasePercents(c, hs) \in {<<b>>, <<b>> \o each \o <<f>>, <<b>> \o each \o <<f, g>>}
         \/ (n # 0 /\ CasePercents(c, hs) = <<b, each[1]>>)
  <2>1. hs = <<>> <=> n = 0
    BY <1>1 DEF IsSeq
  <2>2. CasePercents(c, hs) =
           CASE c.fault = "preflight" -> <<b>>
             [] c.fault = "bundle" -> IF hs = <<>> THEN <<b>> ELSE <<b, each[1]>>
             [] c.fault = "content" -> <<b>> \o each \o <<f>>
             [] OTHER -> <<b>> \o each \o <<f, g>>
    BY <1>2 DEF CasePercents
  <2> HIDE DEF each
  <2> QED BY <2>1, <2>2
<1> HIDE DEF each
<1>5. IsSeq(each) /\ Len(each) = n
  BY <1>3, GivenFacts
<1>6. ASSUME NEW i \in 1..n
      PROVE  each[i] \in Int /\ d <= each[i] /\ each[i] <= e
  <2>1. PICK x \in Nat, k \in Nat \ {0} : x = 65 * (i - 1) /\ k = n /\ x <= 65 * k
    <3>1. 65 * (i - 1) \in Nat /\ n \in Nat \ {0} /\ 65 * (i - 1) <= 65 * n
      OBVIOUS
    <3> QED BY <3>1
  <2>2. x \div k \in Nat /\ (x \div k) * k <= x
    BY <2>1, DivFacts
  <2>3. x \div k <= 65
    <3>1. CASE x \div k >= 66
      <4>1. PICK p \in Nat, q \in Nat : p = 66 /\ q = x \div k /\ p <= q
        BY <2>2, <3>1
      <4>2. p * k <= q * k
        BY <2>1, <4>1, TimesFacts
      <4>3. 66 * k <= 65 * k
        BY <2>1, <2>2, <4>1, <4>2
      <4> QED BY <2>1, <4>3
    <3> QED BY <2>2, <3>1
  <2>4. each[i] = 15 + x \div k
    BY <1>3, <2>1
  <2> QED BY <1>2, <2>2, <2>3, <2>4
<1>7. ASSUME NEW i \in 1..n, NEW j \in 1..i  PROVE each[j] <= each[i]
  <2>1. PICK x \in Nat, y \in Nat, k \in Nat \ {0} : x = 65 * (j - 1) /\ y = 65 * (i - 1) /\ k = n /\ x <= y
    <3>1. 65 * (j - 1) \in Nat /\ 65 * (i - 1) \in Nat /\ n \in Nat \ {0} /\ 65 * (j - 1) <= 65 * (i - 1)
      OBVIOUS
    <3> QED BY <3>1
  <2>2. x \div k \in Nat /\ y \div k \in Nat /\ x \div k <= y \div k
    BY <2>1, DivFacts, DivGrows
  <2>3. j \in 1..n
    BY <1>1
  <2>4. each[j] = 15 + x \div k /\ each[i] = 15 + y \div k
    BY <1>3, <2>1, <2>3
  <2> QED BY <2>2, <2>4
<1>8. Climbs(each, d, e)
  BY <1>5, <1>6, <1>7 DEF Climbs
<1>9. /\ a <= b /\ b <= d /\ d <= e /\ e <= f /\ f <= g /\ b <= e /\ a <= e /\ a <= f /\ b <= b /\ f <= f /\ b <= g
      /\ a <= g /\ b <= f
  BY <1>2
<1>10. Climbs(<<b>>, a, d) /\ Climbs(<<b>>, a, g)
  <2>1. PICK t : t = <<b>> /\ Climbs(t, a, b)
    <3>1. Climbs(<<b>>, a, b)
      BY <1>9, ClimbFew
    <3> QED BY <3>1
  <2>2. Climbs(t, a, d) /\ Climbs(t, a, g)
    BY <1>9, <2>1, ClimbWide
  <2> QED BY <2>1, <2>2
<1>11. Climbs(<<f>>, e, g) /\ Climbs(<<f, g>>, e, g)
  <2>1. PICK t, u : t = <<f>> /\ u = <<f, g>> /\ Climbs(t, f, g) /\ Climbs(u, f, g)
    <3>1. Climbs(<<f>>, f, g) /\ Climbs(<<f, g>>, f, g)
      BY <1>9, ClimbFew
    <3> QED BY <3>1
  <2>2. g <= g
    OBVIOUS
  <2>3. Climbs(t, e, g) /\ Climbs(u, e, g)
    BY <1>9, <2>1, <2>2, ClimbWide
  <2> QED BY <2>1, <2>3
<1>12. PICK t, u, v : t = <<b>> /\ u = <<f>> /\ v = <<f, g>>
  OBVIOUS
<1>13. Climbs(t \o each, a, e)
  BY <1>8, <1>9, <1>10, <1>12, ClimbJoin
<1>14. Climbs((t \o each) \o u, a, g) /\ Climbs((t \o each) \o v, a, g)
  <2>1. PICK w : w = t \o each
    OBVIOUS
  <2>2. e <= g
    BY <1>2
  <2>3. Climbs(w \o u, a, g) /\ Climbs(w \o v, a, g)
    BY <1>9, <1>11, <1>12, <1>13, <2>1, <2>2, ClimbJoin
  <2> QED BY <2>1, <2>3
<1>15. n # 0 => Climbs(<<b, each[1]>>, a, g)
  <2>1. ASSUME n # 0  PROVE Climbs(<<b, each[1]>>, a, g)
    <3>1. PICK p \in Int : p = each[1] /\ d <= p /\ p <= e
      <4>1. 1 \in 1..n
        BY <2>1
      <4> QED BY <1>6, <4>1
    <3>2. b <= p /\ p <= g
      BY <1>2, <3>1
    <3>3. PICK w : w = <<b, p>> /\ Climbs(w, b, p)
      <4>1. Climbs(<<b, p>>, b, p)
        BY <3>2, ClimbFew
      <4> QED BY <4>1
    <3>4. Climbs(w, a, g)
      BY <1>9, <3>2, <3>3, ClimbWide
    <3> QED BY <3>1, <3>3, <3>4
  <2> QED BY <2>1
<1>16. Climbs(CasePercents(c, hs), a, g)
  BY <1>4, <1>10, <1>12, <1>14, <1>15
<1> QED BY <1>2, <1>16

\* What the worker of a case posts: nothing falls, and each message is what the page expects.
CaseGoes(c, s) == Rises("case", s, 0, 100) /\ \E y : Leads("case", c, s, Empty, y)

LEMMA CaseGoesOn ==
  ASSUME NEW c, IsCase(c)
  PROVE  CaseGoes(c, CaseScript(c))
<1> DEFINE kind == "case"
           refused == "case"
           hs == Merged(c)
           n == Len(hs)
           refusal == Failure(refused)
           ps == CasePercents(c, hs)
           s == [i \in DOMAIN ps |-> Progress(ps[i])]
           t == FlattenSeq([i \in DOMAIN hs |-> BundleMessages(c, hs, i)])
           done == Progress(100)
           complete == [type |-> "complete", bundles |-> n]
           all == t \o <<done, complete>>
<1>1. CaseScript(c) = IF ~c.stored \/ n > MaxBundles THEN <<refusal>>
                      ELSE s \o (IF c.fault # "none" THEN <<refusal>> ELSE all)
  BY DEF CaseScript
<1>2. IsSeq(hs)
  BY MergedTyped
<1>3. PICK lo \in Int, b \in Int, hi \in Int : lo = 0 /\ b = 95 /\ hi = 100 /\ lo <= b /\ b <= hi /\ hi <= hi /\ lo <= hi
  OBVIOUS
<1>4. Climbs(ps, lo, b) /\ IsSeq(ps)
  <2> HIDE DEF ps
  <2>1. Climbs(CasePercents(c, hs), 0, 95)
    BY <1>2, CaseClimbs
  <2> QED BY <1>3, <2>1 DEF Climbs, ps
<1>5. Rises(kind, s, lo, b) /\ Leads(kind, c, s, Empty, Empty)
  <2>1. Rises(kind, s, lo, b)
    <3> HIDE DEF ps, kind
    <3> QED BY <1>4, RiseProgress
  <2>2. PICK x : x = Empty
    OBVIOUS
  <2>3. Leads(kind, c, s, x, x)
    <3> HIDE DEF ps
    <3> QED BY <1>4, CaseProgressLeads
  <2> QED BY <2>1, <2>2, <2>3
<1>6. PICK y : Leads("rows", c, t, Empty, y) /\ y.bundles = n /\ Complete(c, y)
  BY BundlesLead
<1>7. done.type = "progress" /\ complete.type = "complete" /\ complete.bundles = n
      /\ refusal.type = "error" /\ refusal.code = "case" /\ Reported(done) = hi
  <2>1. done.type = "progress" /\ done.percent = 100
    BY MessageFacts
  <2>2. refusal.type = "error" /\ refusal.code = "case"
    BY MessageFacts
  <2> QED BY <1>3, <2>1, <2>2 DEF Reported
<1> HIDE DEF t, done, refusal, complete, s, ps
<1>8. Leads(kind, c, t, Empty, y) /\ Rises(kind, t, b, hi)
  <2>1. Leads(kind, c, t, Empty, y) /\ \A i \in 1..Len(t) : t[i].type \in {"bundle", "chunk"}
    BY <1>6, RowsAreCase
  <2>2. IsSeq(t) /\ \A i \in 1..Len(t) : ~Reporting(kind, t[i])
    BY <2>1 DEF Leads, Reporting
  <2>3. Rises(kind, t, b, hi)
    <3> HIDE DEF kind
    <3> QED BY <2>2, RiseQuiet
  <2> QED BY <2>1, <2>3
<1>9. ASSUME Sound("case", c)
      PROVE  Leads(kind, c, all, Empty, y) /\ Rises(kind, all, b, hi)
  <2>1. Step(kind, c, y, done, y) /\ Step(kind, c, y, complete, y)
    BY <1>6, <1>7, <1>9, CaseStays
  <2>2. PICK e : e = <<done, complete>>
    OBVIOUS
  <2>3. IsSeq(e) /\ Len(e) = 2 /\ e[1] = done /\ e[2] = complete
    BY <2>2, FewFacts, Zenon
  <2>4. \A i \in 1..Len(e) : i = 1 \/ i = 2
    BY <2>3
  <2>5. Leads(kind, c, e, y, y)
    <3>1. \A i \in 1..Len(e) : Step(kind, c, y, e[i], y)
      BY <2>1, <2>3, <2>4
    <3> HIDE DEF kind
    <3> QED BY <2>3, <3>1, LeadsStay
  <2>6. Rises(kind, e, hi, hi)
    <3>1. ~Reporting(kind, complete)
      BY <1>7 DEF Reporting
    <3>2. Reported(done) \in Int /\ hi <= Reported(done) /\ Reported(done) <= hi
      BY <1>7
    <3> HIDE DEF kind
    <3>3. Rises(kind, <<done, complete>>, hi, hi)
      BY <1>3, <3>1, <3>2, RiseTwo
    <3> QED BY <2>2, <3>3
  <2> HIDE DEF kind
  <2>7. Leads(kind, c, t \o e, Empty, y)
    <3>1. PICK x : x = Empty
      OBVIOUS
    <3>2. Leads(kind, c, t \o e, x, y)
      BY <1>8, <2>5, <3>1, LeadsJoin
    <3> QED BY <3>1, <3>2
  <2>8. Rises(kind, t \o e, b, hi)
    BY <1>3, <1>8, <2>6, RiseJoin
  <2> QED BY <2>2, <2>7, <2>8
<1>10. ASSUME ~Sound("case", c)
       PROVE  Leads(kind, c, <<refusal>>, Empty, Empty) /\ Rises(kind, <<refusal>>, lo, hi)
              /\ Rises(kind, <<refusal>>, b, hi)
  <2>1. PICK x : x = Empty
    OBVIOUS
  <2>2. Step(kind, c, x, refusal, x)
    BY <1>7, <1>10, CaseStays
  <2>3. ~Reporting(kind, refusal)
    BY <1>7 DEF Reporting
  <2> HIDE DEF kind
  <2>4. Leads(kind, c, <<refusal>>, x, x)
    BY <2>2, LeadsFew
  <2>5. Rises(kind, <<refusal>>, lo, hi) /\ Rises(kind, <<refusal>>, b, hi)
    BY <2>3, RiseOne
  <2> QED BY <2>1, <2>4, <2>5
<1>11. Sound("case", c) <=> (c.stored /\ c.fault = "none" /\ n <= MaxBundles)
  BY DEF Sound
<1>12. n \in Nat /\ MaxBundles \in Nat
  BY JobsAssumption, MergedTyped
<1> HIDE DEF all, kind, n
<1>13. CASE ~c.stored \/ n > MaxBundles
  <2>1. ~Sound("case", c)
    BY <1>11, <1>12, <1>13
  <2>2. CaseScript(c) = <<refusal>>
    BY <1>1, <1>13
  <2>3. Rises(kind, CaseScript(c), lo, hi) /\ Leads(kind, c, CaseScript(c), Empty, Empty)
    BY <1>10, <2>1, <2>2
  <2> QED BY <1>3, <2>3 DEF CaseGoes, kind
<1>14. CASE ~(~c.stored \/ n > MaxBundles)
  <2>1. PICK w, z : /\ CaseScript(c) = s \o w /\ Rises(kind, w, b, hi) /\ Leads(kind, c, w, Empty, z)
    <3>1. CASE c.fault # "none"
      <4>1. ~Sound("case", c) /\ CaseScript(c) = s \o <<refusal>>
        BY <1>1, <1>11, <1>14, <3>1
      <4> QED BY <1>10, <4>1
    <3>2. CASE c.fault = "none"
      <4>1. Sound("case", c) /\ CaseScript(c) = s \o all
        BY <1>1, <1>11, <1>12, <1>14, <3>2
      <4> QED BY <1>9, <4>1
    <3> QED BY <3>1, <3>2
  <2>2. PICK x : x = Empty
    OBVIOUS
  <2>3. Leads(kind, c, s \o w, x, z)
    BY <1>5, <2>1, <2>2, LeadsJoin
  <2>4. Rises(kind, s \o w, lo, hi)
    BY <1>3, <1>5, <2>1, RiseJoin
  <2>5. Rises(kind, CaseScript(c), lo, hi) /\ Leads(kind, c, CaseScript(c), Empty, z)
    BY <2>1, <2>2, <2>3, <2>4
  <2> QED BY <1>3, <2>5 DEF CaseGoes, kind
<1> QED BY <1>13, <1>14

-----------------------------------------------------------------------------
(* What the other jobs answer *)

\* The result of a job that is not a case, as its worker posts it.
Posted(kind, input) ==
  IF kind = "session" THEN [rows |-> input.n, artifact |-> "canonical"] ELSE [of |-> "asked"]

\* A message of a worker says what is true of its input, or that a read failed.
MessageOk(kind, input, failed, m) ==
  \/ m.type = "progress"
  \/ /\ kind = "session" /\ m.type = "chunk" /\ m.start \in Nat /\ m.end \in Nat /\ m.start <= m.end
     /\ m.rows = [i \in 1..(m.end - m.start) |-> m.start + i]
  \/ m.type = "success" /\ Sound(kind, input) /\ m.value = Posted(kind, input)
  \/ /\ m.type = "error" /\ m.code # "worker-failure"
     /\ ~Sound(kind, input) \/ (m.code = "io-error" /\ failed)

AllOk(kind, input, failed, s) == IsSeq(s) /\ \A i \in 1..Len(s) : MessageOk(kind, input, failed, s[i])

LEMMA OkJoin ==
  ASSUME NEW kind, NEW input, NEW failed, NEW s, NEW t,
         AllOk(kind, input, failed, s), AllOk(kind, input, failed, t)
  PROVE  AllOk(kind, input, failed, s \o t)
<1> DEFINE u == s \o t
           n == Len(s)
<1>1. /\ IsSeq(u) /\ Len(u) = n + Len(t) /\ n \in Nat /\ Len(t) \in Nat
      /\ \A i \in 1..n : u[i] = s[i]
      /\ \A i \in 1..Len(t) : u[n + i] = t[i]
  BY JoinFacts DEF AllOk, IsSeq
<1> HIDE DEF u, n
<1>2. ASSUME NEW i \in 1..Len(u)  PROVE MessageOk(kind, input, failed, u[i])
  <2>1. PICK a \in Nat, b \in Nat : a = n /\ b = Len(t)
    BY <1>1
  <2>2. i \in 1..(a + b)
    BY <1>1, <2>1
  <2>3. CASE i <= a
    <3>1. i \in 1..n
      BY <2>1, <2>2, <2>3
    <3> QED BY <1>1, <3>1 DEF AllOk, n
  <2>4. CASE ~(i <= a)
    <3>1. PICK k : k = i - a
      OBVIOUS
    <3>2. k \in 1..b /\ i = a + k
      BY <2>1, <2>2, <2>4, <3>1
    <3>3. k \in 1..Len(t) /\ u[i] = t[k]
      BY <1>1, <2>1, <3>2
    <3> QED BY <3>3 DEF AllOk
  <2> QED BY <2>3, <2>4
<1> QED BY <1>1, <1>2 DEF AllOk, u

LEMMA OkTail ==
  ASSUME NEW kind, NEW input, NEW failed, NEW s, AllOk(kind, input, failed, s), s # <<>>
  PROVE  AllOk(kind, input, failed, Tail(s)) /\ MessageOk(kind, input, failed, Head(s))
<1> DEFINE u == Tail(s)
<1>1. /\ IsSeq(u) /\ Len(u) = Len(s) - 1 /\ Len(s) \in Nat /\ Len(s) >= 1 /\ Head(s) = s[1]
      /\ \A i \in 1..Len(u) : i + 1 \in 1..Len(s) /\ u[i] = s[i + 1]
  BY TailFacts DEF AllOk, IsSeq
<1> HIDE DEF u
<1>2. 1 \in 1..Len(s)
  BY <1>1
<1> QED BY <1>1, <1>2 DEF AllOk, u

LEMMA OkFew ==
  ASSUME NEW kind, NEW input, NEW failed, NEW m
  PROVE  /\ AllOk(kind, input, failed, <<>>)
         /\ MessageOk(kind, input, failed, m) => AllOk(kind, input, failed, <<m>>)
<1>1. PICK s, t : s = <<>> /\ t = <<m>>
  OBVIOUS
<1>2. IsSeq(s) /\ Len(s) = 0 /\ IsSeq(t) /\ Len(t) = 1 /\ t[1] = m
  BY <1>1, FewFacts
<1>3. AllOk(kind, input, failed, s)
  BY <1>2 DEF AllOk
<1>4. MessageOk(kind, input, failed, m) => AllOk(kind, input, failed, t)
  <2>1. \A i \in 1..Len(t) : i = 1
    BY <1>2
  <2> QED BY <1>2, <2>1 DEF AllOk
<1> QED BY <1>1, <1>3, <1>4

LEMMA OkProgress ==
  ASSUME NEW kind, NEW input, NEW failed, NEW ps, IsSeq(ps)
  PROVE  AllOk(kind, input, failed, [i \in DOMAIN ps |-> Progress(ps[i])])
<1> DEFINE s == [i \in DOMAIN ps |-> Progress(ps[i])]
<1>1. DOMAIN ps = 1..Len(ps) /\ Len(ps) \in Nat
  BY DEF IsSeq
<1>2. s = [i \in 1..Len(ps) |-> s[i]] /\ \A i \in 1..Len(ps) : s[i] = Progress(ps[i])
  BY <1>1
<1> HIDE DEF s
<1>3. IsSeq(s) /\ Len(s) = Len(ps)
  BY <1>1, <1>2, GivenFacts
<1>4. \A i \in 1..Len(s) : s[i].type = "progress"
  BY <1>2, <1>3, MessageFacts
<1>5. AllOk(kind, input, failed, s)
  BY <1>3, <1>4 DEF AllOk, MessageOk
<1> QED BY <1>5 DEF s

\* One report, refusal or result.
LEMMA OkOne ==
  ASSUME NEW kind, NEW input, NEW failed
  PROVE  /\ \A p : AllOk(kind, input, failed, <<Progress(p)>>)
         /\ \A code : code # "worker-failure" /\ ~Sound(kind, input) => AllOk(kind, input, failed, <<Failure(code)>>)
         /\ \A v : Sound(kind, input) /\ v = Posted(kind, input) => AllOk(kind, input, failed, <<Answer(v)>>)
<1>1. ASSUME NEW p  PROVE AllOk(kind, input, failed, <<Progress(p)>>)
  <2>1. PICK m : m = Progress(p) /\ m.type = "progress"
    BY MessageFacts
  <2>2. MessageOk(kind, input, failed, m)
    BY <2>1 DEF MessageOk
  <2> QED BY <2>1, <2>2, OkFew
<1>2. ASSUME NEW code, code # "worker-failure", ~Sound(kind, input)
      PROVE  AllOk(kind, input, failed, <<Failure(code)>>)
  <2>1. PICK m : m = Failure(code) /\ m.type = "error" /\ m.code = code
    BY MessageFacts
  <2>2. MessageOk(kind, input, failed, m)
    BY <1>2, <2>1 DEF MessageOk
  <2> QED BY <2>1, <2>2, OkFew
<1>3. ASSUME NEW v, Sound(kind, input), v = Posted(kind, input)
      PROVE  AllOk(kind, input, failed, <<Answer(v)>>)
  <2>1. PICK m : m = Answer(v) /\ m.type = "success" /\ m.value = v
    BY MessageFacts
  <2>2. MessageOk(kind, input, failed, m)
    BY <1>3, <2>1 DEF MessageOk
  <2> QED BY <2>1, <2>2, OkFew
<1> QED BY <1>1, <1>2, <1>3

\* The chunks of a replay hold its rows, each in its place.
LEMMA OkChunks ==
  ASSUME NEW input, NEW failed, NEW n \in Nat
  PROVE  AllOk("session", input, failed, Chunks(n))
<1> DEFINE s == Chunks(n)
           l == (n + ChunkRecords - 1) \div ChunkRecords
           at == Multiples(n, ChunkRecords)
<1>1. /\ l \in Nat /\ IsSeq(s) /\ Len(s) = l
      /\ \A i \in 1..l : /\ s[i] = Chunk(at[i], at[i + 1], n)
                         /\ at[i] \in Nat /\ at[i + 1] \in Nat /\ at[i] <= at[i + 1]
  BY ChunkFacts
<1> HIDE DEF s, l, at
<1>2. ASSUME NEW i \in 1..Len(s)  PROVE MessageOk("session", input, failed, s[i])
  <2>1. PICK a \in Nat, b \in Nat : a = at[i] /\ b = at[i + 1] /\ a <= b
    BY <1>1
  <2>2. PICK m : m = s[i]
    OBVIOUS
  <2>3. m = Chunk(a, b, n)
    BY <1>1, <2>1, <2>2
  <2>4. m.type = "chunk" /\ m.start = a /\ m.end = b /\ m.rows = [k \in 1..(b - a) |-> a + k]
    BY <2>3, MessageFacts
  <2>5. MessageOk("session", input, failed, m)
    BY <2>1, <2>4 DEF MessageOk
  <2> QED BY <2>2, <2>5
<1> QED BY <1>1, <1>2 DEF AllOk, s

\* What can be answered, for each kind of job.
LEMMA SoundFacts ==
  /\ \A r : Sound("session", r) <=> CoreEnd(r) = "ok"
  /\ \A r : Sound("bundle", r) <=> (CoreEnd(r) = "ok" /\ r.same /\ r.buildable)
  /\ \A c : Sound("case", c) <=> (c.stored /\ c.fault = "none" /\ Len(Merged(c)) <= MaxBundles)
  /\ \A ok \in BOOLEAN : Sound("comparison", ok) = ok /\ Sound("evidence", ok) = ok
BY DEF Sound

\* The artifact of a replay is canonical, whatever its source was.
LEMMA ArtifactIsCanonical == \A r : ArtifactText(r) = "canonical"
BY DEF ArtifactText

\* The worker of a replay answers what is true of it.
LEMMA SessionOk ==
  ASSUME NEW r, IsReplay(r), NEW failed
  PROVE  AllOk("session", r, failed, SessionScript(r))
<1> DEFINE kind == "session"
           s == [i \in DOMAIN CorePercents(r) |-> Progress(CorePercents(r)[i])]
           v == [rows |-> r.n, artifact |-> ArtifactText(r)]
           t == Chunks(r.n)
<1>1. SessionScript(r) = s \o (IF CoreEnd(r) # "ok" THEN <<Failure(CoreEnd(r))>> ELSE t \o <<Answer(v)>>)
  BY DEF SessionScript
<1>2. v = Posted(kind, r)
  BY ArtifactIsCanonical DEF Posted
<1>3. Sound(kind, r) <=> CoreEnd(r) = "ok"
  BY SoundFacts
<1>4. CoreEnd(r) # "worker-failure"
  BY EndFacts
<1>5. AllOk(kind, r, failed, s)
  <2>1. PICK ps : ps = CorePercents(r) /\ IsSeq(ps)
    BY CoreClimbs DEF Climbs
  <2> HIDE DEF kind
  <2> QED BY <2>1, OkProgress
<1>6. AllOk(kind, r, failed, t)
  <2>1. PICK n \in Nat : n = r.n
    BY DEF IsReplay
  <2> QED BY <2>1, OkChunks
<1> HIDE DEF s, t, v, kind
<1>7. CASE CoreEnd(r) # "ok"
  <2>1. AllOk(kind, r, failed, <<Failure(CoreEnd(r))>>)
    BY <1>3, <1>4, <1>7, OkOne
  <2>2. AllOk(kind, r, failed, s \o <<Failure(CoreEnd(r))>>)
    BY <1>5, <2>1, OkJoin
  <2> QED BY <1>1, <1>7, <2>2 DEF kind
<1>8. CASE CoreEnd(r) = "ok"
  <2>1. AllOk(kind, r, failed, <<Answer(v)>>)
    BY <1>2, <1>3, <1>8, OkOne
  <2>2. AllOk(kind, r, failed, t \o <<Answer(v)>>)
    BY <1>6, <2>1, OkJoin
  <2>3. AllOk(kind, r, failed, s \o (t \o <<Answer(v)>>))
    BY <1>5, <2>2, OkJoin
  <2> QED BY <1>1, <1>8, <2>3 DEF kind
<1> QED BY <1>7, <1>8

\* So does the worker of a bundle, which loads the replay it is asked for.
LEMMA BuiltOk ==
  ASSUME NEW r, IsReplay(r), CoreEnd(r) = "ok", NEW failed
  PROVE  AllOk("bundle", r, failed, Built(r))
<1> DEFINE kind == "bundle"
           asked == [of |-> "asked"]
           s == <<Progress(72), Progress(78)>>
           a == Progress(100)
           b == Answer(asked)
           identity == "identity"
           limit == "limit"
<1>1. Built(r) = IF ~r.same THEN <<Failure(identity)>>
                 ELSE s \o (IF r.buildable THEN <<a, b>> ELSE <<Failure(limit)>>)
  BY DEF Built
<1>2. asked = Posted(kind, r)
  BY DEF Posted
<1>3. Sound(kind, r) <=> (r.same /\ r.buildable)
  BY SoundFacts
<1>4. identity # "worker-failure" /\ limit # "worker-failure"
  OBVIOUS
<1>5. AllOk(kind, r, failed, s)
  <2>1. PICK m, k : m = Progress(72) /\ k = Progress(78) /\ m.type = "progress" /\ k.type = "progress"
    BY MessageFacts
  <2>2. MessageOk(kind, r, failed, m) /\ MessageOk(kind, r, failed, k)
    BY <2>1 DEF MessageOk
  <2>3. PICK u : u = <<m, k>>
    OBVIOUS
  <2>4. IsSeq(u) /\ Len(u) = 2 /\ u[1] = m /\ u[2] = k
    BY <2>3, FewFacts, Zenon
  <2>5. \A i \in 1..Len(u) : i = 1 \/ i = 2
    BY <2>4
  <2>6. AllOk(kind, r, failed, u)
    BY <2>2, <2>4, <2>5 DEF AllOk
  <2> QED BY <2>1, <2>3, <2>6
<1>6. Sound(kind, r) => AllOk(kind, r, failed, <<a, b>>)
  <2>1. ASSUME Sound(kind, r)  PROVE AllOk(kind, r, failed, <<a, b>>)
    <3>1. a.type = "progress" /\ b.type = "success" /\ b.value = asked
      BY MessageFacts
    <3> HIDE DEF a, b, asked
    <3>2. MessageOk(kind, r, failed, a) /\ MessageOk(kind, r, failed, b)
      BY <1>2, <2>1, <3>1 DEF MessageOk
    <3>3. PICK u : u = <<a, b>>
      OBVIOUS
    <3>4. IsSeq(u) /\ Len(u) = 2 /\ u[1] = a /\ u[2] = b
      BY <3>3, FewFacts, Zenon
    <3>5. \A i \in 1..Len(u) : i = 1 \/ i = 2
      BY <3>4
    <3>6. AllOk(kind, r, failed, u)
      BY <3>2, <3>4, <3>5 DEF AllOk
    <3> QED BY <3>3, <3>6
  <2> QED BY <2>1
<1> HIDE DEF s, a, b, kind, identity, limit
<1>7. ~Sound(kind, r) => AllOk(kind, r, failed, <<Failure(identity)>>) /\ AllOk(kind, r, failed, <<Failure(limit)>>)
  BY <1>4, OkOne
<1>8. CASE ~r.same
  BY <1>1, <1>3, <1>7, <1>8 DEF kind
<1>9. CASE r.same /\ r.buildable
  <2>1. AllOk(kind, r, failed, s \o <<a, b>>)
    BY <1>3, <1>5, <1>6, <1>9, OkJoin
  <2> QED BY <1>1, <1>9, <2>1 DEF kind
<1>10. CASE r.same /\ ~r.buildable
  <2>1. AllOk(kind, r, failed, s \o <<Failure(limit)>>)
    BY <1>3, <1>5, <1>7, <1>10, OkJoin
  <2> QED BY <1>1, <1>10, <2>1 DEF kind
<1> QED BY <1>8, <1>9, <1>10

LEMMA BundleOk ==
  ASSUME NEW r, IsReplay(r), NEW failed
  PROVE  AllOk("bundle", r, failed, BundleScript(r))
<1> DEFINE kind == "bundle"
           s == [i \in DOMAIN CorePercents(r) |-> Progress(Loading(CorePercents(r)[i]))]
<1>1. BundleScript(r) = s \o (IF CoreEnd(r) # "ok" THEN <<Failure(CoreEnd(r))>> ELSE Built(r))
  BY DEF BundleScript
<1>2. CoreEnd(r) # "ok" => ~Sound(kind, r)
  BY SoundFacts
<1>3. CoreEnd(r) # "worker-failure"
  BY EndFacts
<1>4. AllOk(kind, r, failed, s)
  <2>1. PICK ps : ps = CorePercents(r) /\ IsSeq(ps)
    BY CoreClimbs DEF Climbs
  <2>2. PICK qs : qs = [i \in DOMAIN ps |-> Loading(ps[i])]
    OBVIOUS
  <2>3. IsSeq(qs) /\ DOMAIN qs = DOMAIN ps
    <3>1. DOMAIN ps = 1..Len(ps) /\ Len(ps) \in Nat
      BY <2>1 DEF IsSeq
    <3>2. qs = [i \in 1..Len(ps) |-> qs[i]]
      BY <2>2, <3>1
    <3> QED BY <3>1, <3>2, GivenFacts
  <2>4. s = [i \in DOMAIN qs |-> Progress(qs[i])]
    BY <2>1, <2>2, <2>3
  <2> HIDE DEF kind, s
  <2> QED BY <2>3, <2>4, OkProgress
<1>5. CoreEnd(r) = "ok" => AllOk(kind, r, failed, Built(r))
  BY BuiltOk
<1> HIDE DEF s, kind
<1>6. CASE CoreEnd(r) # "ok"
  <2>1. AllOk(kind, r, failed, <<Failure(CoreEnd(r))>>)
    BY <1>2, <1>3, <1>6, OkOne
  <2>2. AllOk(kind, r, failed, s \o <<Failure(CoreEnd(r))>>)
    BY <1>4, <2>1, OkJoin
  <2> QED BY <1>1, <1>6, <2>2 DEF kind
<1>7. CASE CoreEnd(r) = "ok"
  <2>1. AllOk(kind, r, failed, s \o Built(r))
    BY <1>4, <1>5, <1>7, OkJoin
  <2> QED BY <1>1, <1>7, <2>1 DEF kind
<1> QED BY <1>6, <1>7

\* So do the workers that compare and verify.
LEMMA ShortOk ==
  ASSUME NEW ok \in BOOLEAN, NEW failed
  PROVE  AllOk("comparison", ok, failed, ComparisonScript(ok)) /\ AllOk("evidence", ok, failed, EvidenceScript(ok))
<1> DEFINE asked == [of |-> "asked"]
           c1 == "comparison"
           c2 == "verification"
           a == Progress(12)
           b == IF ok THEN Answer(asked) ELSE Failure(c1)
<1>1. ComparisonScript(ok) = <<a, b>>
  BY DEF ComparisonScript
<1>2. EvidenceScript(ok) = <<IF ok THEN Answer(asked) ELSE Failure(c2)>>
  BY DEF EvidenceScript
<1>3. asked = Posted("comparison", ok) /\ asked = Posted("evidence", ok)
  BY DEF Posted
<1>4. Sound("comparison", ok) = ok /\ Sound("evidence", ok) = ok
  BY SoundFacts
<1>5. AllOk("comparison", ok, failed, <<a, b>>)
  <2>1. MessageOk("comparison", ok, failed, a)
    BY MessageFacts DEF MessageOk
  <2>2. MessageOk("comparison", ok, failed, b)
    <3>1. CASE ok
      <4>1. b.type = "success" /\ b.value = asked
        BY <3>1, MessageFacts
      <4> HIDE DEF b, asked
      <4> QED BY <1>3, <1>4, <3>1, <4>1 DEF MessageOk
    <3>2. CASE ~ok
      <4>1. b.type = "error" /\ b.code = "comparison"
        BY <3>2, MessageFacts
      <4>2. "comparison" # "worker-failure"
        OBVIOUS
      <4> HIDE DEF b
      <4> QED BY <1>4, <3>2, <4>1, <4>2 DEF MessageOk
    <3> QED BY <3>1, <3>2
  <2> HIDE DEF a, b
  <2>3. PICK u : u = <<a, b>>
    OBVIOUS
  <2>4. IsSeq(u) /\ Len(u) = 2 /\ u[1] = a /\ u[2] = b
    BY <2>3, FewFacts, Zenon
  <2>5. \A i \in 1..Len(u) : i = 1 \/ i = 2
    BY <2>4
  <2>6. AllOk("comparison", ok, failed, u)
    BY <2>1, <2>2, <2>4, <2>5 DEF AllOk
  <2> QED BY <2>3, <2>6
<1>6. AllOk("evidence", ok, failed, <<IF ok THEN Answer(asked) ELSE Failure(c2)>>)
  <2>1. PICK kind : kind = "evidence"
    OBVIOUS
  <2>2. c2 # "worker-failure"
    OBVIOUS
  <2> HIDE DEF asked, c2
  <2>3. ok => AllOk(kind, ok, failed, <<Answer(asked)>>)
    BY <1>3, <1>4, <2>1, OkOne
  <2>4. ~ok => AllOk(kind, ok, failed, <<Failure(c2)>>)
    BY <1>4, <2>1, <2>2, OkOne
  <2> QED BY <2>1, <2>3, <2>4
<1> QED BY <1>1, <1>2, <1>5, <1>6

-----------------------------------------------------------------------------
(* What the page makes of a message *)

\* A job that has settled says what is true of its input.
Verdict(input, failed, k) ==
  /\ k.state = "resolved" => Sound(k.kind, input) /\ k.value = Whole(k.kind, input)
  /\ k.state = "rejected" => \/ k.why \in {"worker-failure", "io-error"} /\ failed
                             \/ ~Sound(k.kind, input) /\ k.why # "worker-failure"

\* What a job shows after the message m: what it reports, unless the job settles on it.
Shows(j, m, k) ==
  \/ k.percent = IF Reporting(j.kind, m) THEN Reported(m) ELSE j.percent
  \/ k.percent = j.percent /\ Settled(k)

\* A message that settles a job leaves the rest of it as it was.
LEMMA SettleFacts ==
  ASSUME NEW j, IsJob(j)
  PROVE  /\ \A why : LET k == Reject(j, why) IN
              k.state = "rejected" /\ k.why = why /\ k.kind = j.kind /\ k.percent = j.percent
         /\ \A v : LET k == Resolve(j, v) IN
              k.state = "resolved" /\ k.value = v /\ k.kind = j.kind /\ k.percent = j.percent
         /\ \A p : LET k == Report(j, p) IN k.percent = p /\ Same(k, j, {"percent"})
BY DEF IsJob, Same, Fields, Reject, Resolve, Report, Finish

\* The rows of a replay that have come, each in its place.
RowsOk(j) == IsSeq(j.rows) /\ j.rows = [i \in 1..Len(j.rows) |-> i] /\ j.frames = j.rows

\* The rows a+1 to b of a replay.
Counts(s, a, b) == s = [i \in 1..(b - a) |-> a + i]

\* The first b rows of a replay.
RowsTo(u, b) == IsSeq(u) /\ Len(u) = b /\ u = [i \in 1..b |-> i]

LEMMA RowsJoin ==
  ASSUME NEW s, NEW t, NEW a \in Nat, NEW b \in Nat, a <= b, RowsTo(s, a), Counts(t, a, b)
  PROVE  RowsTo(s \o t, b)
<1> DEFINE u == s \o t
<1>7. t = [i \in 1..(b - a) |-> a + i] /\ s = [i \in 1..a |-> i]
  BY DEF Counts, RowsTo
<1>1. IsSeq(s) /\ Len(s) = a
  BY DEF RowsTo
<1>2. IsSeq(t) /\ Len(t) = b - a
  <2>1. PICK d \in Nat : d = b - a
    OBVIOUS
  <2>2. t = [i \in 1..d |-> t[i]]
    BY <1>7, <2>1
  <2> QED BY <2>1, <2>2, GivenFacts
<1>3. \A i \in 1..(b - a) : t[i] = a + i
  BY <1>7
<1>4. /\ IsSeq(u) /\ Len(u) = b
      /\ \A i \in 1..a : u[i] = s[i]
      /\ \A i \in 1..(b - a) : u[a + i] = t[i]
  <2>1. /\ IsSeq(s \o t) /\ Len(s \o t) = Len(s) + Len(t)
        /\ \A i \in 1..Len(s) : (s \o t)[i] = s[i]
        /\ \A i \in 1..Len(t) : (s \o t)[Len(s) + i] = t[i]
    BY <1>1, <1>2, JoinFacts
  <2> QED BY <1>1, <1>2, <2>1
<1> HIDE DEF u
<1>5. ASSUME NEW i \in 1..b  PROVE u[i] = i
  <2>1. CASE i <= a
    BY <1>4, <1>7, <2>1
  <2>2. CASE ~(i <= a)
    <3>1. PICK k : k = i - a
      OBVIOUS
    <3>2. k \in 1..(b - a) /\ i = a + k
      BY <2>2, <3>1
    <3> QED BY <1>3, <1>4, <3>2
  <2> QED BY <2>1, <2>2
<1>6. u = [i \in 1..b |-> i]
  BY <1>4, <1>5 DEF IsSeq
<1> QED BY <1>4, <1>6 DEF u, RowsTo

\* A message of a replay.
LEMMA SessionTaken ==
  ASSUME NEW j, IsJob(j), j.kind = "session", j.state = "running", RowsOk(j), NEW r, IsReplay(r),
         NEW failed \in BOOLEAN, NEW m, MessageOk("session", r, failed, m),
         ~failed => \E z : SessionStep(Len(j.rows), m, z)
  PROVE  LET k == OnSessionMessage(j, m) IN
         /\ Verdict(r, failed, k) /\ Shows(j, m, k)
         /\ ~Settled(k) => RowsOk(k) /\ \A z : SessionStep(Len(j.rows), m, z) => Len(k.rows) = z
<1> SUFFICES ASSUME NEW k, k = OnSessionMessage(j, m)
             PROVE  /\ Verdict(r, failed, k) /\ Shows(j, m, k)
                    /\ ~Settled(k) => RowsOk(k) /\ \A z : SessionStep(Len(j.rows), m, z) => Len(k.rows) = z
  OBVIOUS
<1> DEFINE wf == "worker-failure"
<1>1. k = CASE m.type = "progress" -> Report(j, m.percent)
            [] m.type = "chunk" -> Take(j, m)
            [] m.type = "success" -> Hydrate(j, m.value)
            [] OTHER -> Reject(j, m.code)
  BY DEF OnSessionMessage
<1>2. m.type \in {"progress", "chunk", "success", "error"}
  BY DEF MessageOk
<1>3. ASSUME k = Reject(j, wf), failed
      PROVE  /\ Verdict(r, failed, k) /\ Shows(j, m, k)
             /\ ~Settled(k) => RowsOk(k) /\ \A z : SessionStep(Len(j.rows), m, z) => Len(k.rows) = z
  <2>1. k.state = "rejected" /\ k.why = wf /\ k.percent = j.percent
    BY <1>3, SettleFacts
  <2> QED BY <1>3, <2>1 DEF Verdict, Shows, Settled
<1>4. CASE m.type = "progress"
  <2>1. k.percent = m.percent /\ Same(k, j, {"percent"})
    BY <1>1, <1>4, SettleFacts
  <2>2. k.state = "running" /\ k.rows = j.rows /\ k.frames = j.frames
    BY <2>1 DEF Same, Fields
  <2>3. Shows(j, m, k)
    BY <1>4, <2>1 DEF Shows, Reporting, Reported
  <2>4. \A z : SessionStep(Len(j.rows), m, z) => Len(k.rows) = z
    BY <1>4, <2>2 DEF SessionStep
  <2> QED BY <2>2, <2>3, <2>4 DEF Verdict, RowsOk
<1>5. CASE m.type = "chunk"
  <2>1. k = Take(j, m)
    BY <1>1, <1>5
  <2>2. m.start \in Nat /\ m.end \in Nat /\ m.start <= m.end /\ m.rows = [i \in 1..(m.end - m.start) |-> m.start + i]
    BY <1>5 DEF MessageOk
  <2>3. CASE m.start # Len(j.rows)
    <3>1. k = Reject(j, wf)
      BY <2>1, <2>3 DEF Take
    <3>2. failed
      BY <1>5, <2>3 DEF SessionStep
    <3> QED BY <1>3, <3>1, <3>2
  <2>4. CASE m.start = Len(j.rows)
    <3> DEFINE l == [j EXCEPT !.rows = @ \o m.rows, !.frames = @ \o m.rows]
    <3>1. k = Report(l, Percent("transferring", m.end, m.total))
      BY <2>1, <2>4 DEF Take
    <3>2. Same(l, j, {"rows", "frames"}) /\ l.rows = j.rows \o m.rows /\ l.frames = j.frames \o m.rows
      BY DEF IsJob, Same, Fields
    <3> HIDE DEF l
    <3>3. IsJob(l)
      BY <3>2 DEF IsJob, Same, Fields
    <3>4. PICK p : p = Percent("transferring", m.end, m.total)
      OBVIOUS
    <3>5. k.percent = p /\ Same(k, l, {"percent"})
      BY <3>1, <3>3, <3>4, SettleFacts
    <3>6. k.state = "running" /\ k.rows = j.rows \o m.rows /\ k.frames = j.frames \o m.rows
      BY <3>2, <3>5 DEF Same, Fields
    <3>7. PICK a \in Nat, b \in Nat : a = m.start /\ b = m.end /\ a <= b
      BY <2>2
    <3>8. j.rows = [i \in 1..a |-> i] /\ m.rows = [i \in 1..(b - a) |-> a + i] /\ j.frames = j.rows
      BY <2>2, <2>4, <3>7 DEF RowsOk
    <3>9. IsSeq(k.rows) /\ Len(k.rows) = b /\ k.rows = [i \in 1..b |-> i]
      <4>1. PICK s, t : s = j.rows /\ t = m.rows
        OBVIOUS
      <4>2. RowsTo(s, a) /\ Counts(t, a, b)
        BY <2>4, <3>7, <3>8, <4>1 DEF Counts, RowsTo, RowsOk
      <4>3. RowsTo(s \o t, b)
        <5>1. a \in Nat /\ b \in Nat /\ a <= b
          BY <3>7
        <5>2. \A x, y : \A c, d \in Nat : c <= d /\ RowsTo(x, c) /\ Counts(y, c, d) => RowsTo(x \o y, d)
          BY RowsJoin, Zenon
        <5> QED BY <4>2, <5>1, <5>2
      <4> QED BY <3>6, <4>1, <4>3 DEF RowsTo
    <3>10. RowsOk(k)
      BY <3>6, <3>8, <3>9 DEF RowsOk
    <3>11. Shows(j, m, k)
      <4>1. m.type # "progress"
        BY <1>5
      <4> QED BY <1>5, <3>4, <3>5, <4>1 DEF Shows, Reporting, Reported
    <3>12. \A z : SessionStep(Len(j.rows), m, z) => Len(k.rows) = z
      BY <1>5, <3>7, <3>9 DEF SessionStep
    <3> QED BY <3>6, <3>10, <3>11, <3>12 DEF Verdict
  <2> QED BY <2>3, <2>4
<1>6. CASE m.type = "success"
  <2>1. k = Hydrate(j, m.value)
    BY <1>1, <1>6
  <2>2. Sound("session", r) /\ m.value = [rows |-> r.n, artifact |-> "canonical"]
    BY <1>6 DEF MessageOk, Posted
  <2>3. CASE Len(j.rows) # r.n
    <3>1. k = Reject(j, wf)
      BY <2>1, <2>2, <2>3 DEF Hydrate
    <3>2. failed
      BY <1>6, <2>2, <2>3 DEF SessionStep
    <3> QED BY <1>3, <3>1, <3>2
  <2>4. CASE Len(j.rows) = r.n
    <3> DEFINE v == [rows |-> j.rows, frames |-> j.frames, artifact |-> "canonical"]
    <3>1. k = Resolve(j, v)
      BY <2>1, <2>2, <2>4 DEF Hydrate, RowsOk
    <3>2. v = Whole("session", r)
      BY <2>4 DEF Whole, RowsOk
    <3> HIDE DEF v
    <3>3. k.state = "resolved" /\ k.value = v /\ k.kind = j.kind /\ k.percent = j.percent
      BY <3>1, SettleFacts
    <3> QED BY <2>2, <3>2, <3>3 DEF Verdict, Shows, Settled
  <2> QED BY <2>3, <2>4
<1>7. CASE m.type = "error"
  <2>1. k = Reject(j, m.code)
    BY <1>1, <1>7
  <2>2. k.state = "rejected" /\ k.why = m.code /\ k.kind = j.kind /\ k.percent = j.percent
    BY <2>1, SettleFacts
  <2>3. m.code # "worker-failure" /\ (~Sound("session", r) \/ (m.code = "io-error" /\ failed))
    BY <1>7 DEF MessageOk
  <2> QED BY <2>2, <2>3 DEF Verdict, Shows, Settled
<1> QED BY <1>2, <1>4, <1>5, <1>6, <1>7

\* A message of a job that answers with one result.
LEMMA AnswerTaken ==
  ASSUME NEW j, IsJob(j), j.kind \in {"bundle", "comparison", "evidence"}, j.state = "running",
         NEW input, NEW failed \in BOOLEAN, NEW m, MessageOk(j.kind, input, failed, m)
  PROVE  LET k == OnAnswer(j, m) IN Verdict(input, failed, k) /\ Shows(j, m, k)
<1> DEFINE k == OnAnswer(j, m)
<1>1. k = CASE m.type = "progress" -> Report(j, m.percent)
            [] m.type = "success" -> Resolve(j, m.value)
            [] OTHER -> Reject(j, m.code)
  BY DEF OnAnswer
<1>2. m.type \in {"progress", "success", "error"}
  BY DEF MessageOk
<1> HIDE DEF k
<1>3. CASE m.type = "progress"
  <2>1. k.percent = m.percent /\ Same(k, j, {"percent"})
    BY <1>1, <1>3, SettleFacts
  <2>2. k.state = "running"
    BY <2>1 DEF Same, Fields
  <2>3. Shows(j, m, k)
    BY <1>3, <2>1 DEF Shows, Reporting, Reported
  <2> QED BY <2>2, <2>3 DEF Verdict, k
<1>4. CASE m.type = "success"
  <2>1. Sound(j.kind, input) /\ m.value = [of |-> "asked"]
    BY <1>4 DEF MessageOk, Posted
  <2>2. m.value = Whole(j.kind, input)
    BY <2>1 DEF Whole
  <2>3. k.state = "resolved" /\ k.value = m.value /\ k.kind = j.kind /\ k.percent = j.percent
    BY <1>1, <1>4, SettleFacts
  <2> QED BY <2>1, <2>2, <2>3 DEF Verdict, Shows, Settled, k
<1>5. CASE m.type = "error"
  <2>1. k.state = "rejected" /\ k.why = m.code /\ k.kind = j.kind /\ k.percent = j.percent
    BY <1>1, <1>5, SettleFacts
  <2>2. m.code # "worker-failure" /\ (~Sound(j.kind, input) \/ (m.code = "io-error" /\ failed))
    BY <1>5 DEF MessageOk
  <2> QED BY <2>1, <2>2 DEF Verdict, Shows, Settled, k
<1> QED BY <1>2, <1>3, <1>4, <1>5

-----------------------------------------------------------------------------
(* What the page holds of a case *)

\* The rows of a bundle are a sequence of so many.
LEMMA RowsFacts ==
  ASSUME NEW h, NEW key, NEW n \in Nat
  PROVE  /\ IsSeq(Rows(h, key, n)) /\ Len(Rows(h, key, n)) = n
         /\ \A i \in 1..n : Rows(h, key, n)[i] = <<h, key, i>>
<1> DEFINE s == Rows(h, key, n)
<1>1. s = [i \in 1..n |-> <<h, key, i>>]
  BY DEF Rows
<1>2. s = [i \in 1..n |-> s[i]] /\ \A i \in 1..n : s[i] = <<h, key, i>>
  BY <1>1
<1> HIDE DEF s
<1> QED BY <1>2, GivenFacts DEF s

LEMMA PieceIs ==
  ASSUME NEW h, NEW key, NEW from \in Nat, NEW n \in Nat
  PROVE  /\ IsSeq(Piece(h, key, from, n)) /\ Len(Piece(h, key, from, n)) = n
         /\ \A i \in 1..n : Piece(h, key, from, n)[i] = <<h, key, from + i>>
<1> DEFINE s == Piece(h, key, from, n)
<1>1. s = [i \in 1..n |-> <<h, key, from + i>>]
  BY DEF Piece
<1>2. s = [i \in 1..n |-> s[i]] /\ \A i \in 1..n : s[i] = <<h, key, from + i>>
  BY <1>1
<1> HIDE DEF s
<1> QED BY <1>2, GivenFacts DEF s

\* No rows are the empty sequence, and the piece that follows what has come makes it longer.
LEMMA NoRows ==
  ASSUME NEW h, NEW key
  PROVE  Rows(h, key, 0) = <<>>
<1>1. PICK n \in Nat : n = 0
  OBVIOUS
<1>5. PICK s, e : s = Rows(h, key, n) /\ e = <<>>
  OBVIOUS
<1>2. IsSeq(s) /\ Len(s) = 0
  BY <1>1, <1>5, RowsFacts
<1>3. IsSeq(e) /\ Len(e) = 0
  BY <1>5, FewFacts
<1>4. s = e
  BY <1>2, <1>3 DEF IsSeq
<1> QED BY <1>1, <1>4, <1>5

LEMMA RowsGrow ==
  ASSUME NEW h, NEW key, NEW a \in Nat, NEW n \in Nat, NEW b \in Nat, b = a + n
  PROVE  Rows(h, key, a) \o Piece(h, key, a, n) = Rows(h, key, b)
<1> DEFINE s == Rows(h, key, a)
           t == Piece(h, key, a, n)
           u == s \o t
           w == Rows(h, key, b)
<1>1. IsSeq(s) /\ Len(s) = a /\ \A i \in 1..a : s[i] = <<h, key, i>>
  BY RowsFacts
<1>2. IsSeq(t) /\ Len(t) = n /\ \A i \in 1..n : t[i] = <<h, key, a + i>>
  BY PieceIs
<1>3. IsSeq(w) /\ Len(w) = b /\ \A i \in 1..b : w[i] = <<h, key, i>>
  BY RowsFacts
<1> HIDE DEF s, t, w
<1>4. /\ IsSeq(u) /\ Len(u) = Len(s) + Len(t)
      /\ \A i \in 1..Len(s) : u[i] = s[i]
      /\ \A i \in 1..Len(t) : u[Len(s) + i] = t[i]
  BY <1>1, <1>2, JoinFacts
<1> HIDE DEF u
<1>5. ASSUME NEW i \in 1..b  PROVE u[i] = w[i]
  <2>1. CASE i <= a
    <3>1. i \in 1..Len(s) /\ i \in 1..a
      BY <1>1, <2>1
    <3>2. u[i] = s[i] /\ s[i] = <<h, key, i>> /\ w[i] = <<h, key, i>>
      BY <1>1, <1>3, <1>4, <3>1, Zenon
    <3> QED BY <3>2
  <2>2. CASE ~(i <= a)
    <3>1. PICK k : k = i - a
      OBVIOUS
    <3>2. k \in 1..n /\ i = a + k
      BY <2>2, <3>1
    <3>3. u[i] = <<h, key, i>>
      BY <1>1, <1>2, <1>4, <3>2
    <3> QED BY <1>3, <3>3
  <2> QED BY <2>1, <2>2
<1>6. Len(u) = b
  BY <1>1, <1>2, <1>4
<1>7. u = w
  BY <1>3, <1>4, <1>5, <1>6 DEF IsSeq
<1> QED BY <1>7 DEF s, t, u, w

\* The bundle a case has at index, as far as the first f[key] rows of each kind.
Bundle(c, index, f) ==
  [hash |-> Merged(c)[index], rows |-> [key \in Range(Keys) |-> Rows(Merged(c)[index], key, f[key])]]

\* The rows of the bundle at index when the page holds x.
Come(c, x, index) == IF index = x.bundles THEN x.rows ELSE c.rows

\* What the page's side j of a case holds when it is at x.
Holds(c, j, x) ==
  /\ x = At(x.bundles, x.rows) /\ x.rows \in [Range(Keys) -> Nat] /\ x.bundles <= Len(Merged(c))
  /\ IsSeq(j.bundles) /\ IsSeq(j.counts) /\ Len(j.bundles) = x.bundles /\ Len(j.counts) = x.bundles
  /\ \A i \in 1..x.bundles : j.counts[i] = c.rows /\ j.bundles[i] = Bundle(c, i, Come(c, x, i))

LEMMA BundleRows ==
  ASSUME NEW c, NEW index, NEW f \in [Range(Keys) -> Nat], NEW key \in Range(Keys),
         NEW h, h = Merged(c)[index], NEW o, o = Bundle(c, index, f), NEW a \in Nat, a = f[key]
  PROVE  o.rows[key] = Rows(h, key, a) /\ Len(o.rows[key]) = a
<1>1. o = [hash |-> h, rows |-> [k \in Range(Keys) |-> Rows(h, k, f[k])]]
  BY DEF Bundle
<1>2. o.rows[key] = Rows(h, key, a) /\ Len(Rows(h, key, a)) = a
  BY <1>1, RowsFacts
<1> QED BY <1>2

\* A bundle of a case is added to those the page holds.
LEMMA BundleTaken ==
  ASSUME NEW c, IsCase(c), NEW j, IsJob(j), NEW x, NEW y, Holds(c, j, x), NEW m, CaseBundle(c, x, m, y)
  PROVE  LET k == OnCaseBundle(j, m) IN Same(k, j, {"bundles", "counts"}) /\ Holds(c, k, y)
<1> SUFFICES ASSUME NEW k, k = OnCaseBundle(j, m)
             PROVE  Same(k, j, {"bundles", "counts"}) /\ Holds(c, k, y)
  OBVIOUS
<1> DEFINE e == [hash |-> m.hash, rows |-> [key \in Range(Keys) |-> <<>>]]
<1>1. PICK n \in Nat : n = x.bundles /\ n = Len(j.bundles)
  BY DEF Holds, IsSeq
<1>2. /\ m.index = n + 1 /\ m.index \in 1..Len(Merged(c)) /\ m.hash = Merged(c)[m.index]
      /\ m.counts = c.rows /\ Complete(c, x)
  BY <1>1 DEF CaseBundle
<1>3. PICK zero : zero = [key \in Range(Keys) |-> 0]
  OBVIOUS
<1>4. zero \in [Range(Keys) -> Nat]
  BY <1>3
<1>5. y = At(n + 1, zero) /\ y.bundles = n + 1 /\ y.rows = zero
  BY <1>1, <1>3 DEF CaseBundle, At
<1>6. k = [j EXCEPT !.bundles = Append(@, e), !.counts = Append(@, m.counts)]
  BY <1>1, <1>2 DEF OnCaseBundle
<1>7. e = Bundle(c, n + 1, zero)
  <2>1. PICK h, i : h = Merged(c)[i] /\ i = n + 1
    OBVIOUS
  <2>2. \A key \in Range(Keys) : Rows(h, key, zero[key]) = <<>>
    <3>1. \A key : Rows(h, key, 0) = <<>>
      BY NoRows
    <3>2. \A key \in Range(Keys) : zero[key] = 0
      BY <1>3
    <3> QED BY <3>1, <3>2
  <2>3. [key \in Range(Keys) |-> Rows(h, key, zero[key])] = [key \in Range(Keys) |-> <<>>]
    BY <2>2
  <2>4. Bundle(c, i, zero) = [hash |-> h, rows |-> [key \in Range(Keys) |-> Rows(h, key, zero[key])]]
    BY <2>1 DEF Bundle
  <2>5. m.hash = h
    BY <1>2, <2>1
  <2>6. e = [hash |-> h, rows |-> [key \in Range(Keys) |-> <<>>]]
    BY <2>5
  <2> QED BY <2>1, <2>3, <2>4, <2>6
<1> HIDE DEF e
<1>8. Same(k, j, {"bundles", "counts"}) /\ k.bundles = Append(j.bundles, e) /\ k.counts = Append(j.counts, m.counts)
  BY <1>6 DEF IsJob, Same, Fields
<1>9. IsSeq(j.bundles) /\ IsSeq(j.counts) /\ Len(j.bundles) = n /\ Len(j.counts) = n
  BY <1>1 DEF Holds
<1>10. /\ IsSeq(k.bundles) /\ Len(k.bundles) = n + 1 /\ k.bundles[n + 1] = e
       /\ \A i \in 1..n : k.bundles[i] = j.bundles[i]
  BY <1>8, <1>9, AppendTo
<1>11. /\ IsSeq(k.counts) /\ Len(k.counts) = n + 1 /\ k.counts[n + 1] = m.counts
       /\ \A i \in 1..n : k.counts[i] = j.counts[i]
  BY <1>8, <1>9, AppendTo
<1>12. ASSUME NEW i \in 1..(n + 1)
       PROVE  k.counts[i] = c.rows /\ k.bundles[i] = Bundle(c, i, Come(c, y, i))
  <2>1. CASE i \in 1..n
    <3>1. j.counts[i] = c.rows /\ j.bundles[i] = Bundle(c, i, Come(c, x, i))
      BY <1>1, <2>1 DEF Holds
    <3>2. i # y.bundles /\ n # 0
      BY <1>5, <2>1
    <3>3. Come(c, y, i) = c.rows
      BY <3>2 DEF Come
    <3>4. Come(c, x, i) = c.rows
      BY <1>1, <1>2, <3>2 DEF Come, Complete
    <3> QED BY <1>10, <1>11, <2>1, <3>1, <3>3, <3>4
  <2>2. CASE i = n + 1
    <3>1. Come(c, y, i) = zero
      BY <1>5, <2>2 DEF Come
    <3> QED BY <1>2, <1>7, <1>10, <1>11, <2>2, <3>1
  <2> QED BY <2>1, <2>2
<1>13. n + 1 <= Len(Merged(c))
  BY <1>2, MergedTyped
<1> QED BY <1>4, <1>5, <1>8, <1>10, <1>11, <1>12, <1>13 DEF Holds

\* The d rows vs of one kind follow the a rows that the bundle o, the n-th of the case, has of it.
PieceOf(c, n, f, key, a, d, o, vs) ==
  /\ f \in [Range(Keys) -> Nat] /\ key \in Range(Keys) /\ a \in Nat /\ d \in Nat /\ a = f[key]
  /\ o = Bundle(c, n, f) /\ vs = Piece(Merged(c)[n], key, a, d)

Grown(c, n, f, key, a, d, o, vs) ==
  /\ Len(o.rows[key]) = a /\ Len(vs) = d
  /\ [o EXCEPT !.rows[key] = @ \o vs] = Bundle(c, n, [f EXCEPT ![key] = a + d])

LEMMA PieceGrows ==
  ASSUME NEW c, NEW n, NEW f, NEW key, NEW a, NEW d, NEW o, NEW vs, PieceOf(c, n, f, key, a, d, o, vs)
  PROVE  Grown(c, n, f, key, a, d, o, vs)
<1>1. /\ f \in [Range(Keys) -> Nat] /\ key \in Range(Keys) /\ a \in Nat /\ d \in Nat /\ a = f[key]
      /\ o = Bundle(c, n, f) /\ vs = Piece(Merged(c)[n], key, a, d)
  BY DEF PieceOf
<1>2. PICK h : h = Merged(c)[n]
  OBVIOUS
<1>3. PICK b \in Nat : b = a + d
  BY <1>1
<1>4. PICK g : g = [f EXCEPT ![key] = b]
  OBVIOUS
<1>5. o.rows[key] = Rows(h, key, a) /\ Len(o.rows[key]) = a
  BY <1>1, <1>2, BundleRows
<1>6. PICK v : v = o.rows[key] \o vs
  OBVIOUS
<1>7. v = Rows(h, key, b)
  <2>1. Rows(h, key, a) \o Piece(h, key, a, d) = Rows(h, key, b)
    BY <1>1, <1>3, RowsGrow
  <2> QED BY <1>1, <1>2, <1>5, <1>6, <2>1
<1>8. [o EXCEPT !.rows[key] = v] = Bundle(c, n, g)
  <2>1. o = [hash |-> h, rows |-> [k \in Range(Keys) |-> Rows(h, k, f[k])]]
    BY <1>1, <1>2 DEF Bundle
  <2>2. PICK r : r = [o.rows EXCEPT ![key] = v]
    OBVIOUS
  <2>3. [o EXCEPT !.rows[key] = v] = [hash |-> h, rows |-> r]
    BY <2>1, <2>2
  <2>4. r = [k \in Range(Keys) |-> Rows(h, k, g[k])]
    <3>1. o.rows = [k \in Range(Keys) |-> Rows(h, k, f[k])]
      BY <2>1
    <3>2. \A k \in Range(Keys) : g[k] = IF k = key THEN b ELSE f[k]
      BY <1>1, <1>4
    <3>3. r = [k \in Range(Keys) |-> IF k = key THEN v ELSE Rows(h, k, f[k])]
      BY <2>2, <3>1, Zenon
    <3>4. \A k \in Range(Keys) : (IF k = key THEN v ELSE Rows(h, k, f[k])) = Rows(h, k, g[k])
      BY <1>7, <3>2
    <3> QED BY <3>3, <3>4
  <2>5. Bundle(c, n, g) = [hash |-> h, rows |-> [k \in Range(Keys) |-> Rows(h, k, g[k])]]
    BY <1>2 DEF Bundle
  <2> QED BY <2>3, <2>4, <2>5
<1>9. Len(vs) = d
  <2>1. Len(Piece(h, key, a, d)) = d
    BY <1>1, PieceIs
  <2> QED BY <1>1, <1>2, <2>1
<1>10. [o EXCEPT !.rows[key] = @ \o vs] = [o EXCEPT !.rows[key] = v]
  BY <1>6
<1> QED BY <1>3, <1>4, <1>5, <1>8, <1>9, <1>10 DEF Grown

\* A chunk of it is added to the rows of the bundle that came last.
LEMMA ChunkTaken ==
  ASSUME NEW c, IsCase(c), NEW j, IsJob(j), NEW x, NEW y, Holds(c, j, x), NEW m, CaseChunk(c, x, m, y)
  PROVE  LET k == OnCaseChunk(j, m) IN Same(k, j, {"bundles"}) /\ Holds(c, k, y)
<1> SUFFICES ASSUME NEW k, k = OnCaseChunk(j, m)
             PROVE  Same(k, j, {"bundles"}) /\ Holds(c, k, y)
  OBVIOUS
<1>1. PICK n \in Nat : n = x.bundles /\ n = Len(j.bundles) /\ m.index = n
  BY DEF Holds, IsSeq, CaseChunk
<1>2. PICK key \in Range(Keys) : key = m.key /\ m.offset = x.rows[key]
  BY DEF CaseChunk
<1>3. PICK f \in [Range(Keys) -> Nat] : f = x.rows
  BY DEF Holds
<1>5. PICK a \in Nat : a = f[key] /\ a = m.offset
  BY <1>2, <1>3
<1>6. PICK d \in 0..ChunkRecords :
        m.values = Piece(Merged(c)[n], key, a, d) /\ a + d <= c.rows[key] /\ y = [x EXCEPT !.rows[key] = a + d]
  BY <1>1, <1>2, <1>5 DEF CaseChunk
<1>7. d \in Nat /\ d <= ChunkRecords /\ ChunkRecords \in Nat
  BY <1>6, JobsAssumption
<1>8. PICK b \in Nat : b = a + d
  BY <1>7
<1>9. PICK g : g = [f EXCEPT ![key] = b]
  OBVIOUS
<1>10. g \in [Range(Keys) -> Nat]
  BY <1>9
<1>11. y = At(n, g) /\ y.bundles = n /\ y.rows = g
  <2>1. x = [bundles |-> n, rows |-> f]
    BY <1>1, <1>3 DEF Holds, At
  <2>2. y = [bundles |-> n, rows |-> g]
    BY <1>6, <1>8, <1>9, <2>1
  <2> QED BY <2>2 DEF At
<1>12. n \in 1..n /\ n <= Len(Merged(c))
  BY <1>1, MergedTyped DEF CaseChunk
<1>13. PICK o : o = j.bundles[n] /\ o = Bundle(c, n, f)
  <2>1. j.bundles[n] = Bundle(c, n, Come(c, x, n))
    BY <1>1, <1>12 DEF Holds
  <2>2. Come(c, x, n) = f
    BY <1>1, <1>3 DEF Come
  <2> QED BY <2>1, <2>2
<1>14. Len(o.rows[key]) = a /\ Len(m.values) = d /\ [o EXCEPT !.rows[key] = @ \o m.values] = Bundle(c, n, g)
  <2>1. PICK vs : vs = m.values
    OBVIOUS
  <2>2. PieceOf(c, n, f, key, a, d, o, vs)
    BY <1>5, <1>6, <1>7, <1>13, <2>1 DEF PieceOf
  <2>3. Grown(c, n, f, key, a, d, o, vs)
    BY <2>2, PieceGrows
  <2> QED BY <1>8, <1>9, <2>1, <2>3 DEF Grown
<1>18. IsSeq(j.bundles) /\ DOMAIN j.bundles = 1..n
  BY <1>1 DEF Holds, IsSeq
<1>20. k = [j EXCEPT !.bundles[n].rows[key] = @ \o m.values]
  <2>1. m.index \in DOMAIN j.bundles /\ Len(j.bundles[m.index].rows[m.key]) = m.offset /\ ~(Len(m.values) > ChunkRecords)
    BY <1>1, <1>2, <1>5, <1>7, <1>12, <1>13, <1>14, <1>18
  <2>2. k = [j EXCEPT !.bundles[m.index].rows[m.key] = @ \o m.values]
    BY <2>1 DEF OnCaseChunk
  <2> QED BY <1>1, <1>2, <2>2
<1>21. Same(k, j, {"bundles"}) /\ k.bundles = [j.bundles EXCEPT ![n] = Bundle(c, n, g)]
  <2>1. j = [i \in Fields |-> j[i]] /\ "bundles" \in Fields
    BY DEF IsJob, Fields
  <2>2. Same(k, j, {"bundles"})
    BY <1>20, <2>1 DEF Same, Fields
  <2>3. k.bundles = [j.bundles EXCEPT ![n].rows[key] = @ \o m.values]
    BY <1>20, <2>1
  <2>4. [j.bundles EXCEPT ![n].rows[key] = @ \o m.values] = [j.bundles EXCEPT ![n] = Bundle(c, n, g)]
    BY <1>13, <1>14
  <2> QED BY <2>2, <2>3, <2>4
<1>22. /\ IsSeq(k.bundles) /\ Len(k.bundles) = n
       /\ \A i \in 1..n : k.bundles[i] = IF i = n THEN Bundle(c, n, g) ELSE j.bundles[i]
  <2>1. k.bundles = [i \in 1..n |-> IF i = n THEN Bundle(c, n, g) ELSE j.bundles[i]]
    BY <1>12, <1>18, <1>21
  <2>2. k.bundles = [i \in 1..n |-> k.bundles[i]] /\ \A i \in 1..n : k.bundles[i] = IF i = n THEN Bundle(c, n, g) ELSE j.bundles[i]
    BY <2>1
  <2> QED BY <2>2, GivenFacts
<1>23. k.counts = j.counts
  BY <1>21 DEF Same, Fields
<1>24. ASSUME NEW i \in 1..n  PROVE k.counts[i] = c.rows /\ k.bundles[i] = Bundle(c, i, Come(c, y, i))
  <2>1. j.counts[i] = c.rows /\ j.bundles[i] = Bundle(c, i, Come(c, x, i))
    BY <1>1 DEF Holds
  <2>2. CASE i = n
    <3>1. Come(c, y, i) = g
      BY <1>11, <2>2 DEF Come
    <3> QED BY <1>22, <1>23, <2>1, <2>2, <3>1
  <2>3. CASE i # n
    <3>1. Come(c, y, i) = Come(c, x, i)
      BY <1>1, <1>11, <2>3 DEF Come
    <3> QED BY <1>22, <1>23, <2>1, <2>3, <3>1
  <2> QED BY <2>2, <2>3
<1>25. IsSeq(j.counts) /\ Len(j.counts) = n
  BY <1>1 DEF Holds
<1> QED BY <1>10, <1>11, <1>12, <1>21, <1>22, <1>23, <1>24, <1>25 DEF Holds

\* What the page holds at the end of a case is the case.
LEMMA CompleteTaken ==
  ASSUME NEW c, IsCase(c), NEW j, IsJob(j), NEW x, Holds(c, j, x), NEW m,
         m.bundles = x.bundles, x.bundles = Len(Merged(c)), Complete(c, x)
  PROVE  OnCaseComplete(j, m) = Resolve(j, Whole("case", c))
<1>1. PICK n \in Nat : n = x.bundles /\ n = Len(j.bundles)
  BY DEF Holds, IsSeq
<1>2. PICK f : f = c.rows /\ f \in [Range(Keys) -> Nat]
  BY DEF IsCase
<1>3. ASSUME NEW i \in 1..n
      PROVE  j.counts[i] = f /\ j.bundles[i] = Bundle(c, i, f)
  <2>1. j.counts[i] = c.rows /\ j.bundles[i] = Bundle(c, i, Come(c, x, i))
    BY <1>1 DEF Holds
  <2>2. Come(c, x, i) = f
    BY <1>1, <1>2 DEF Come, Complete
  <2> QED BY <1>2, <2>1, <2>2
<1>4. DOMAIN j.bundles = 1..n /\ j.bundles = [i \in 1..n |-> j.bundles[i]]
  BY <1>1 DEF Holds, IsSeq
<1>5. ASSUME NEW i \in DOMAIN j.bundles, NEW key \in Range(Keys)
      PROVE  Len(j.bundles[i].rows[key]) = j.counts[i][key]
  <2>1. PICK o : o = j.bundles[i] /\ o = Bundle(c, i, f) /\ j.counts[i] = f
    BY <1>3, <1>4
  <2>2. PICK a \in Nat, d \in Nat : a = f[key] /\ d = 0
    BY <1>2
  <2>3. PICK vs : vs = Piece(Merged(c)[i], key, a, d)
    OBVIOUS
  <2>4. PieceOf(c, i, f, key, a, d, o, vs)
    BY <1>2, <2>1, <2>2, <2>3 DEF PieceOf
  <2>5. Grown(c, i, f, key, a, d, o, vs)
    BY <2>4, PieceGrows
  <2> QED BY <2>1, <2>2, <2>5 DEF Grown
<1>6. j.bundles = Whole("case", c)
  <2>1. Whole("case", c) = [i \in DOMAIN Merged(c) |->
          [hash |-> Merged(c)[i], rows |-> [key \in Range(Keys) |-> Rows(Merged(c)[i], key, c.rows[key])]]]
    BY DEF Whole
  <2>2. DOMAIN Merged(c) = 1..n
    BY <1>1, MergedTyped DEF IsSeq
  <2>3. \A i : [hash |-> Merged(c)[i], rows |-> [key \in Range(Keys) |-> Rows(Merged(c)[i], key, c.rows[key])]]
              = Bundle(c, i, f)
    BY <1>2 DEF Bundle
  <2>4. Whole("case", c) = [i \in 1..n |-> Bundle(c, i, f)]
    BY <2>1, <2>2, <2>3
  <2>5. j.bundles = [i \in 1..n |-> Bundle(c, i, f)]
    BY <1>3, <1>4
  <2> QED BY <2>4, <2>5
<1>7. Len(j.bundles) = m.bundles
  BY <1>1
<1> QED BY <1>5, <1>6, <1>7 DEF OnCaseComplete

\* A message of a case.
LEMMA CaseTaken ==
  ASSUME NEW c, IsCase(c), NEW j, IsJob(j), j.kind = "case", j.state = "running", NEW failed,
         NEW m, NEW x, NEW y, Holds(c, j, x), CaseStep(c, x, m, y),
         j.percent \in Int, Reporting("case", m) => Reported(m) \in Int /\ j.percent <= Reported(m)
  PROVE  LET k == OnCaseMessage(j, m) IN
         Verdict(c, failed, k) /\ Shows(j, m, k) /\ (~Settled(k) => Holds(c, k, y))
<1> SUFFICES ASSUME NEW k, k = OnCaseMessage(j, m)
             PROVE  Verdict(c, failed, k) /\ Shows(j, m, k) /\ (~Settled(k) => Holds(c, k, y))
  OBVIOUS
<1> DEFINE wf == "worker-failure"
<1>1. k = CASE m.type = "error" -> Reject(j, m.code)
            [] m.type = "progress" -> IF m.percent < j.percent THEN Reject(j, wf) ELSE Report(j, m.percent)
            [] m.type = "bundle" -> OnCaseBundle(j, m)
            [] m.type = "chunk" -> OnCaseChunk(j, m)
            [] OTHER -> OnCaseComplete(j, m)
  BY DEF OnCaseMessage
<1>2. m.type \in {"error", "progress", "bundle", "chunk", "complete"}
  BY DEF CaseStep
<1>3. CASE m.type = "error"
  <2>1. k = Reject(j, m.code)
    BY <1>1, <1>3
  <2>2. k.state = "rejected" /\ k.why = m.code /\ k.kind = j.kind /\ k.percent = j.percent
    BY <2>1, SettleFacts
  <2>3. m.code = "case" /\ ~Sound("case", c)
    BY <1>3 DEF CaseStep
  <2> QED BY <2>2, <2>3 DEF Verdict, Shows, Settled
<1>4. CASE m.type = "progress"
  <2>1. m.percent \in Int /\ j.percent <= m.percent /\ y = x
    BY <1>4 DEF Reporting, Reported, CaseStep
  <2>2. k = Report(j, m.percent)
    BY <1>1, <1>4, <2>1
  <2>3. k.percent = m.percent /\ Same(k, j, {"percent"})
    BY <2>2, SettleFacts
  <2>4. k.state = "running" /\ k.bundles = j.bundles /\ k.counts = j.counts
    BY <2>3 DEF Same, Fields
  <2>5. Shows(j, m, k)
    BY <1>4, <2>3 DEF Shows, Reporting, Reported
  <2>6. Holds(c, k, y)
    BY <2>1, <2>4 DEF Holds
  <2> QED BY <2>4, <2>5, <2>6 DEF Verdict
<1>5. CASE m.type = "bundle"
  <2>1. k = OnCaseBundle(j, m) /\ CaseBundle(c, x, m, y)
    BY <1>1, <1>5 DEF CaseStep
  <2>2. Same(k, j, {"bundles", "counts"}) /\ Holds(c, k, y)
    BY <2>1, BundleTaken
  <2>3. k.state = "running" /\ k.percent = j.percent
    BY <2>2 DEF Same, Fields
  <2>4. ~Reporting(j.kind, m)
    BY <1>5 DEF Reporting
  <2> QED BY <2>2, <2>3, <2>4 DEF Verdict, Shows
<1>6. CASE m.type = "chunk"
  <2>1. k = OnCaseChunk(j, m) /\ CaseChunk(c, x, m, y)
    BY <1>1, <1>6 DEF CaseStep
  <2>2. Same(k, j, {"bundles"}) /\ Holds(c, k, y)
    BY <2>1, ChunkTaken
  <2>3. k.state = "running" /\ k.percent = j.percent
    BY <2>2 DEF Same, Fields
  <2>4. ~Reporting(j.kind, m)
    BY <1>6 DEF Reporting
  <2> QED BY <2>2, <2>3, <2>4 DEF Verdict, Shows
<1>7. CASE m.type = "complete"
  <2>1. k = OnCaseComplete(j, m) /\ Sound("case", c) /\ m.bundles = x.bundles /\ x.bundles = Len(Merged(c)) /\ Complete(c, x)
    BY <1>1, <1>7 DEF CaseStep
  <2>2. k = Resolve(j, Whole("case", c))
    BY <2>1, CompleteTaken
  <2>3. k.state = "resolved" /\ k.value = Whole("case", c) /\ k.kind = j.kind /\ k.percent = j.percent
    BY <2>2, SettleFacts
  <2> QED BY <2>1, <2>3 DEF Verdict, Shows, Settled
<1> QED BY <1>2, <1>3, <1>4, <1>5, <1>6, <1>7

-----------------------------------------------------------------------------
(* A job that runs *)

\* What the job kind is given.
Given(kind, input) ==
  /\ kind \in {"session", "bundle"} => IsReplay(input)
  /\ kind = "case" => IsCase(input)
  /\ kind \in {"comparison", "evidence"} => input \in BOOLEAN

\* What a worker has reported after n of the bytes of r.
ReadTo(kind, r, n) ==
  IF kind = "session" THEN Percent("reading", n, r.size) ELSE Loading(Percent("reading", n, r.size))

\* The messages b are still to come: none reports less than the job j shows, or more than hi.
Coming(j, input, b, failed, hi) ==
  /\ j.percent \in Int /\ j.percent <= hi
  /\ Rises(j.kind, b, j.percent, hi)
  /\ j.kind # "case" => AllOk(j.kind, input, failed, b)
  /\ j.kind = "session" => RowsOk(j)

Reading(j, w, b, failed) ==
  /\ j.kind \in {"session", "bundle"} /\ w.read \in 0..w.input.size
  /\ Coming(j, w.input, b, failed, ReadTo(j.kind, w.input, w.read))
  /\ j.kind = "session" /\ ~failed => Leads("session", w.input, b, Len(j.rows), 0)

Done(j, w, b, failed) ==
  /\ Coming(j, w.input, b, failed, 100)
  /\ j.kind = "session" /\ ~failed => \E y : Leads("session", w.input, b, Len(j.rows), y)
  /\ j.kind = "case" => \E x, y : Holds(w.input, j, x) /\ Leads("case", w.input, b, x, y)

\* A job that runs, and its worker or the page in its place.
Underway(j, w, b, failed) ==
  /\ Given(j.kind, w.input) /\ j.kind \in Kinds \ {"none"}
  /\ w.pc \in {"reading", "done", "inline-reading", "inline-building"}
  /\ w.pc = "reading" => Reading(j, w, b, failed)
  /\ w.pc = "done" => Done(j, w, b, failed)
  /\ w.pc = "inline-reading" => /\ w.read \in 0..w.input.size
                                /\ j.percent <= Percent("reading", w.read, w.input.size)
  /\ w.pc = "inline-building" => CoreEnd(w.input) = "ok" /\ w.input.same /\ j.percent <= 100

LEMMA ReadToFacts ==
  ASSUME NEW kind \in {"session", "bundle"}, NEW r, IsReplay(r), NEW n \in Nat, n <= r.size
  PROVE  /\ ReadTo(kind, r, n) \in Nat /\ ReadTo(kind, r, n) <= 20
         /\ kind = "bundle" => ReadTo(kind, r, n) <= 13
         /\ \A m \in Nat : n <= m /\ m <= r.size => ReadTo(kind, r, n) <= ReadTo(kind, r, m)
         /\ n = 0 => ReadTo(kind, r, n) = 0
         /\ Percent("reading", n, r.size) \in 0..20
         /\ \A m \in Nat : n <= m /\ m <= r.size => Percent("reading", n, r.size) <= Percent("reading", m, r.size)
<1>1. PICK phase : phase = "reading"
  OBVIOUS
<1>2. PICK lo \in Nat, hi \in Nat, total \in Nat : lo = 0 /\ hi = 20 /\ lo <= hi /\ total = r.size
  BY DEF IsReplay
<1>3. Weight[phase] = <<lo, hi>>
  BY <1>1, <1>2, PhaseFacts
<1>4. ASSUME NEW m \in Nat, m <= total  PROVE Percent(phase, m, total) \in lo..hi
  <2>1. m \in 0..total
    BY <1>4
  <2> QED BY <1>2, <1>3, <2>1, PercentFacts
<1>5. ASSUME NEW l \in Nat, NEW m \in Nat, l <= m, m <= total
      PROVE  Percent(phase, l, total) <= Percent(phase, m, total)
  <2>1. l \in 0..total /\ m \in 0..total
    BY <1>5
  <2> QED BY <1>2, <1>3, <1>5, <2>1, PercentGrows
<1>6. Percent(phase, 0, total) = 0
  BY <1>2, <1>3, PercentEnds
<1>7. PICK p : p = Percent(phase, n, total)
  OBVIOUS
<1>8. p \in Nat /\ p <= 20
  BY <1>2, <1>4, <1>7
<1>9. Loading(p) \in Nat /\ Loading(p) <= 13
  <2>1. PICK q \in Nat : q = 20
    OBVIOUS
  <2>2. Loading(p) \in Nat /\ Loading(p) <= Loading(q)
    BY <1>8, <2>1, LoadingFacts
  <2> QED BY <2>1, <2>2, LoadingEnds
<1>10. ASSUME NEW m \in Nat, n <= m, m <= total
       PROVE  p <= Percent(phase, m, total) /\ Loading(p) <= Loading(Percent(phase, m, total))
  <2>1. PICK q : q = Percent(phase, m, total)
    OBVIOUS
  <2>2. q \in Nat /\ p <= q
    BY <1>2, <1>4, <1>5, <1>7, <1>10, <2>1
  <2>3. Loading(p) <= Loading(q)
    BY <1>8, <2>2, LoadingFacts
  <2> QED BY <2>1, <2>2, <2>3
<1>11. \A m : ReadTo(kind, r, m) = IF kind = "session" THEN Percent(phase, m, total) ELSE Loading(Percent(phase, m, total))
  BY <1>1, <1>2 DEF ReadTo
<1>12. \A m : Percent("reading", m, r.size) = Percent(phase, m, total)
  BY <1>1, <1>2
<1>13. ReadTo(kind, r, n) = IF kind = "session" THEN p ELSE Loading(p)
  BY <1>7, <1>11
<1>14. ReadTo(kind, r, n) \in Nat /\ ReadTo(kind, r, n) <= 20 /\ (kind = "bundle" => ReadTo(kind, r, n) <= 13)
  BY <1>8, <1>9, <1>13
<1>15. \A m \in Nat : n <= m /\ m <= r.size => ReadTo(kind, r, n) <= ReadTo(kind, r, m)
  BY <1>2, <1>10, <1>11, <1>13
<1>16. n = 0 => ReadTo(kind, r, n) = 0
  BY <1>6, <1>11, LoadingEnds
<1>17. Percent("reading", n, r.size) \in 0..20
  BY <1>7, <1>8, <1>12
<1>18. \A m \in Nat : n <= m /\ m <= r.size => Percent("reading", n, r.size) <= Percent("reading", m, r.size)
  BY <1>2, <1>7, <1>10, <1>12
<1> QED BY <1>14, <1>15, <1>16, <1>17, <1>18

\* A message taken: what is to come does not fall behind what the job shows.
LEMMA ComingTaken ==
  ASSUME NEW j, NEW input, NEW b, NEW failed, NEW hi \in Int, Coming(j, input, b, failed, hi), b # <<>>,
         NEW k, Shows(j, Head(b), k), k.kind = j.kind, ~Settled(k) /\ k.kind = "session" => RowsOk(k)
  PROVE  /\ k.percent \in Int /\ j.percent <= k.percent
         /\ ~Settled(k) => Coming(k, input, Tail(b), failed, hi)
<1>7. PICK kind : kind = j.kind
  OBVIOUS
<1>1. PICK p \in Int : p = j.percent /\ kind = j.kind
  BY <1>7 DEF Coming
<1>2. Rises(kind, b, p, hi) /\ p <= hi
  BY <1>1 DEF Coming
<1>3. PICK m, t : m = Head(b) /\ t = Tail(b)
  OBVIOUS
<1>4. /\ Rises(kind, t, p, hi)
      /\ Reporting(kind, m) => Reported(m) \in Int /\ p <= Reported(m) /\ Reported(m) <= hi /\ Rises(kind, t, Reported(m), hi)
  BY <1>2, <1>3, RiseTail
<1>5. k.percent \in Int /\ p <= k.percent
  BY <1>1, <1>3, <1>4 DEF Shows
<1>6. ASSUME ~Settled(k)  PROVE Coming(k, input, t, failed, hi)
  <2>1. k.percent = IF Reporting(kind, m) THEN Reported(m) ELSE p
    BY <1>1, <1>3, <1>6 DEF Shows
  <2>2. Rises(kind, t, k.percent, hi) /\ k.percent <= hi
    BY <1>2, <1>4, <2>1
  <2>3. kind # "case" => AllOk(kind, input, failed, t)
    <3>1. kind # "case" => AllOk(kind, input, failed, b)
      BY <1>1 DEF Coming
    <3>2. AllOk(kind, input, failed, b) => AllOk(kind, input, failed, Tail(b))
      BY OkTail
    <3> QED BY <1>3, <3>1, <3>2
  <2> QED BY <1>1, <1>5, <1>6, <2>2, <2>3 DEF Coming
<1> QED BY <1>1, <1>3, <1>5, <1>6

\* A message of a replay, of a case, or of one of the other jobs.
LEMMA SessionReceived ==
  ASSUME NEW j, IsJob(j), j.kind = "session", j.state = "running", NEW w, NEW b, NEW failed \in BOOLEAN,
         w.pc \in {"reading", "done"}, Underway(j, w, b, failed), b # <<>>,
         NEW k, k = OnSessionMessage(j, Head(b)), k.kind = j.kind
  PROVE  /\ k.percent \in Int /\ j.percent <= k.percent /\ Verdict(w.input, failed, k)
         /\ ~Settled(k) => Underway(k, w, Tail(b), failed)
<1>1. PICK kind, r, m, t : kind = "session" /\ r = w.input /\ m = Head(b) /\ t = Tail(b)
  OBVIOUS
<1>2. IsReplay(r)
  BY <1>1 DEF Underway, Given
<1>3. PICK hi \in Int : /\ Coming(j, r, b, failed, hi)
                        /\ w.pc = "reading" => hi = ReadTo(kind, r, w.read) /\ w.read \in 0..r.size
                        /\ w.pc = "done" => hi = 100
  <2>1. CASE w.pc = "reading"
    <3>1. Reading(j, w, b, failed)
      BY <2>1 DEF Underway
    <3>2. w.read \in Nat /\ w.read <= r.size
      BY <1>1, <1>2, <3>1 DEF Reading, IsReplay
    <3>3. PICK n \in Nat : n = w.read
      BY <3>2
    <3>4. ReadTo(kind, r, n) \in Nat
      BY <1>1, <1>2, <3>2, <3>3, ReadToFacts
    <3> QED BY <1>1, <2>1, <3>1, <3>3, <3>4 DEF Reading
  <2>2. CASE w.pc = "done"
    BY <1>1, <2>2 DEF Underway, Done
  <2> QED BY <2>1, <2>2
<1>4. RowsOk(j) /\ AllOk(kind, r, failed, b)
  BY <1>1, <1>3 DEF Coming
<1>5. MessageOk(kind, r, failed, m)
  BY <1>1, <1>4, OkTail
<1>6. PICK a : a = Len(j.rows)
  OBVIOUS
<1>7. ~failed => \E y : Leads(kind, r, b, a, y) /\ (w.pc = "reading" => y = 0)
  <2>1. CASE w.pc = "reading"
    BY <1>1, <1>6, <2>1 DEF Underway, Reading
  <2>2. CASE w.pc = "done"
    BY <1>1, <1>6, <2>2 DEF Underway, Done
  <2> QED BY <2>1, <2>2
<1>8. ASSUME ~failed
      PROVE  \E z, y : SessionStep(a, m, z) /\ Leads(kind, r, t, z, y) /\ (w.pc = "reading" => y = 0)
  <2>1. PICK y : Leads(kind, r, b, a, y) /\ (w.pc = "reading" => y = 0)
    BY <1>7, <1>8
  <2>2. PICK z : Step(kind, r, a, m, z) /\ Leads(kind, r, t, z, y)
    BY <1>1, <2>1, LeadsTail
  <2>3. SessionStep(a, m, z)
    BY <1>1, <2>2 DEF Step
  <2> QED BY <2>1, <2>2, <2>3
<1>9. /\ Verdict(r, failed, k) /\ Shows(j, m, k)
      /\ ~Settled(k) => RowsOk(k) /\ \A z : SessionStep(a, m, z) => Len(k.rows) = z
  <2>1. ~failed => \E z : SessionStep(Len(j.rows), m, z)
    BY <1>6, <1>8
  <2>2. MessageOk("session", r, failed, m)
    BY <1>1, <1>5
  <2> QED BY <1>1, <1>2, <1>4, <1>6, <2>1, <2>2, SessionTaken
<1>10. k.percent \in Int /\ j.percent <= k.percent /\ (~Settled(k) => Coming(k, r, t, failed, hi))
  BY <1>1, <1>3, <1>9, ComingTaken
<1>11. ASSUME ~Settled(k)  PROVE Underway(k, w, t, failed)
  <2>1. ~failed => \E y : Leads(kind, r, t, Len(k.rows), y) /\ (w.pc = "reading" => y = 0)
    BY <1>8, <1>9, <1>11
  <2>2. CASE w.pc = "reading"
    <3>1. Reading(k, w, t, failed)
      BY <1>1, <1>3, <1>10, <1>11, <2>1, <2>2 DEF Reading
    <3> QED BY <2>2, <3>1 DEF Underway
  <2>3. CASE w.pc = "done"
    <3>1. Done(k, w, t, failed)
      BY <1>1, <1>3, <1>10, <1>11, <2>1, <2>3 DEF Done
    <3> QED BY <2>3, <3>1 DEF Underway
  <2> QED BY <2>2, <2>3
<1> QED BY <1>1, <1>9, <1>10, <1>11

LEMMA CaseReceived ==
  ASSUME NEW j, IsJob(j), j.kind = "case", j.state = "running", NEW w, NEW b, NEW failed \in BOOLEAN,
         w.pc \in {"reading", "done"}, Underway(j, w, b, failed), b # <<>>,
         NEW k, k = OnCaseMessage(j, Head(b)), k.kind = j.kind
  PROVE  /\ k.percent \in Int /\ j.percent <= k.percent /\ Verdict(w.input, failed, k)
         /\ ~Settled(k) => Underway(k, w, Tail(b), failed)
<1>1. PICK kind, c, m, t : kind = "case" /\ c = w.input /\ m = Head(b) /\ t = Tail(b)
  OBVIOUS
<1>2. IsCase(c) /\ w.pc = "done"
  BY <1>1 DEF Underway, Given, Reading
<1>3. Done(j, w, b, failed)
  BY <1>2 DEF Underway
<1>4. PICK hi \in Int : hi = 100 /\ Coming(j, c, b, failed, hi)
  BY <1>1, <1>3 DEF Done
<1>5. PICK x, y : Holds(c, j, x) /\ Leads(kind, c, b, x, y)
  BY <1>1, <1>3 DEF Done
<1>6. PICK z : Step(kind, c, x, m, z) /\ Leads(kind, c, t, z, y)
  BY <1>1, <1>5, LeadsTail
<1>7. CaseStep(c, x, m, z)
  BY <1>1, <1>6 DEF Step
<1>8. j.percent \in Int /\ (Reporting(kind, m) => Reported(m) \in Int /\ j.percent <= Reported(m))
  <2>1. PICK p \in Int : p = j.percent
    BY <1>4 DEF Coming
  <2>2. Rises(kind, b, p, hi)
    BY <1>1, <1>4, <2>1 DEF Coming
  <2> QED BY <1>1, <2>1, <2>2, RiseTail
<1>9. Verdict(c, failed, k) /\ Shows(j, m, k) /\ (~Settled(k) => Holds(c, k, z))
  <2>1. Reporting("case", m) => Reported(m) \in Int /\ j.percent <= Reported(m)
    BY <1>1, <1>8
  <2> QED BY <1>1, <1>2, <1>5, <1>7, <1>8, <2>1, CaseTaken
<1>10. k.percent \in Int /\ j.percent <= k.percent /\ (~Settled(k) => Coming(k, c, t, failed, hi))
  <2>1. k.kind # "session"
    OBVIOUS
  <2> QED BY <1>1, <1>4, <1>9, <2>1, ComingTaken
<1>11. ASSUME ~Settled(k)  PROVE Underway(k, w, t, failed)
  <2>1. Done(k, w, t, failed)
    BY <1>1, <1>4, <1>6, <1>9, <1>10, <1>11 DEF Done
  <2> QED BY <1>2, <2>1 DEF Underway
<1> QED BY <1>1, <1>9, <1>10, <1>11

LEMMA AnswerReceived ==
  ASSUME NEW j, IsJob(j), j.kind \in {"bundle", "comparison", "evidence"}, j.state = "running",
         NEW w, NEW b, NEW failed \in BOOLEAN,
         w.pc \in {"reading", "done"}, Underway(j, w, b, failed), b # <<>>,
         NEW k, k = OnAnswer(j, Head(b)), k.kind = j.kind
  PROVE  /\ k.percent \in Int /\ j.percent <= k.percent /\ Verdict(w.input, failed, k)
         /\ ~Settled(k) => Underway(k, w, Tail(b), failed)
<1>1. PICK kind, r, m, t : kind = j.kind /\ r = w.input /\ m = Head(b) /\ t = Tail(b)
  OBVIOUS
<1>2. PICK hi \in Int : /\ Coming(j, r, b, failed, hi)
                        /\ w.pc = "reading" => hi = ReadTo(kind, r, w.read) /\ w.read \in 0..r.size
                                               /\ kind = "bundle"
                        /\ w.pc = "done" => hi = 100
  <2>1. CASE w.pc = "reading"
    <3>1. Reading(j, w, b, failed) /\ kind = "bundle"
      BY <1>1, <2>1 DEF Underway, Reading
    <3>2. IsReplay(r)
      BY <1>1, <3>1 DEF Underway, Given
    <3>3. w.read \in Nat /\ w.read <= r.size
      BY <1>1, <3>1, <3>2 DEF Reading, IsReplay
    <3>4. PICK n \in Nat : n = w.read
      BY <3>3
    <3>5. ReadTo(kind, r, n) \in Nat
      BY <3>1, <3>2, <3>3, <3>4, ReadToFacts
    <3> QED BY <1>1, <2>1, <3>1, <3>4, <3>5 DEF Reading
  <2>2. CASE w.pc = "done"
    BY <1>1, <2>2 DEF Underway, Done
  <2> QED BY <2>1, <2>2
<1>3. AllOk(kind, r, failed, b)
  BY <1>1, <1>2 DEF Coming
<1>4. MessageOk(kind, r, failed, m)
  BY <1>1, <1>3, OkTail
<1>5. Verdict(r, failed, k) /\ Shows(j, m, k)
  <2>1. MessageOk(j.kind, r, failed, m)
    BY <1>1, <1>4
  <2> QED BY <1>1, <2>1, AnswerTaken
<1>6. k.percent \in Int /\ j.percent <= k.percent /\ (~Settled(k) => Coming(k, r, t, failed, hi))
  <2>1. k.kind # "session"
    OBVIOUS
  <2> QED BY <1>1, <1>2, <1>5, <2>1, ComingTaken
<1>7. ASSUME ~Settled(k)  PROVE Underway(k, w, t, failed)
  <2>1. CASE w.pc = "reading"
    <3>1. Reading(k, w, t, failed)
      BY <1>1, <1>2, <1>6, <1>7, <2>1 DEF Reading
    <3> QED BY <2>1, <3>1 DEF Underway
  <2>2. CASE w.pc = "done"
    <3>1. Done(k, w, t, failed)
      BY <1>1, <1>2, <1>6, <1>7, <2>2 DEF Done
    <3> QED BY <2>2, <3>1 DEF Underway
  <2> QED BY <2>1, <2>2
<1> QED BY <1>1, <1>5, <1>6, <1>7

\* What can be said of a message can still be said after a failure.
LEMMA OkLater ==
  ASSUME NEW kind, NEW input, NEW failed, NEW s, AllOk(kind, input, failed, s)
  PROVE  AllOk(kind, input, TRUE, s)
BY DEF AllOk, MessageOk

LEMMA AppendJoins ==
  ASSUME NEW s, NEW m, IsSeq(s)
  PROVE  Append(s, m) = s \o <<m>>
<1>1. PICK t : t = <<m>>
  OBVIOUS
<1>2. IsSeq(t) /\ Len(t) = 1 /\ t[1] = m
  BY <1>1, FewFacts
<1>3. PICK n \in Nat : n = Len(s)
  BY DEF IsSeq
<1>4. PICK u, v : u = Append(s, m) /\ v = s \o t
  OBVIOUS
<1>5. IsSeq(u) /\ Len(u) = n + 1 /\ u[n + 1] = m /\ \A i \in 1..n : u[i] = s[i]
  BY <1>3, <1>4, AppendTo
<1>6. IsSeq(v) /\ Len(v) = n + 1 /\ (\A i \in 1..n : v[i] = s[i]) /\ v[n + 1] = m
  <2>1. /\ IsSeq(v) /\ Len(v) = Len(s) + Len(t)
        /\ \A i \in 1..Len(s) : v[i] = s[i]
        /\ \A i \in 1..Len(t) : v[Len(s) + i] = t[i]
    <3>1. /\ IsSeq(s \o t) /\ Len(s \o t) = Len(s) + Len(t)
          /\ \A i \in 1..Len(s) : (s \o t)[i] = s[i]
          /\ \A i \in 1..Len(t) : (s \o t)[Len(s) + i] = t[i]
      <4>1. IsSeq(t)
        BY <1>2
      <4> QED BY <4>1, JoinFacts
    <3> QED BY <1>4, <3>1
  <2>2. 1 \in 1..Len(t)
    BY <1>2
  <2> QED BY <1>2, <1>3, <2>1, <2>2
<1>7. \A i \in 1..(n + 1) : u[i] = v[i]
  BY <1>5, <1>6
<1>8. u = v
  BY <1>5, <1>6, <1>7 DEF IsSeq
<1> QED BY <1>1, <1>4, <1>8

\* More messages are posted, none of them less than what was reported.
LEMMA ComingMore ==
  ASSUME NEW j, NEW input, NEW b, NEW failed, NEW hi \in Int, Coming(j, input, b, failed, hi),
         NEW top \in Int, hi <= top, NEW s, NEW kind, kind = j.kind, Rises(kind, s, hi, top),
         kind # "case" => AllOk(kind, input, failed, s)
  PROVE  Coming(j, input, b \o s, failed, top)
<1>1. PICK p \in Int : p = j.percent
  BY DEF Coming
<1>2. Rises(kind, b, p, hi) /\ p <= hi /\ (kind # "case" => AllOk(kind, input, failed, b))
  BY <1>1 DEF Coming
<1>3. Rises(kind, b \o s, p, top)
  BY <1>2, RiseJoin
<1>4. kind # "case" => AllOk(kind, input, failed, b \o s)
  BY <1>2, OkJoin
<1>5. p <= top
  BY <1>2
<1>6. j.kind = "session" => RowsOk(j)
  BY DEF Coming
<1> QED BY <1>1, <1>3, <1>4, <1>5, <1>6 DEF Coming

\* A read, whatever becomes of it, leaves a job that runs.
LEMMA ReadUnderway ==
  ASSUME worker = [pc |-> worker.pc, input |-> worker.input, read |-> worker.read],
         NEW failed \in BOOLEAN, NEW later \in BOOLEAN, failed => later,
         Underway(job, worker, box, failed), ReadChunk \/ (ReadThrows /\ later) \/ ReadEnds
  PROVE  Underway(job', worker', box', later)
<1>1. PICK r, kind, n : r = worker.input /\ kind = job.kind /\ n = worker.read
  OBVIOUS
<1>2. worker.pc = "reading" /\ job' = job
  BY DEF ReadChunk, ReadThrows, ReadEnds
<1>3. Reading(job, worker, box, failed) /\ kind \in {"session", "bundle"}
  BY <1>1, <1>2 DEF Underway, Reading
<1>4. IsReplay(r)
  BY <1>1, <1>3 DEF Underway, Given
<1>5. n \in Nat /\ n <= r.size /\ r.size \in Nat /\ r.length \in Nat
  BY <1>1, <1>3, <1>4 DEF Reading, IsReplay
<1>6. PICK hi \in Int : hi = ReadTo(kind, r, n) /\ hi <= 20 /\ (kind = "bundle" => hi <= 13) /\ 0 <= hi
  <2>1. ReadTo(kind, r, n) \in Nat /\ ReadTo(kind, r, n) <= 20 /\ (kind = "bundle" => ReadTo(kind, r, n) <= 13)
    BY <1>3, <1>4, <1>5, ReadToFacts
  <2> QED BY <2>1
<1>7. Coming(job, r, box, failed, hi)
  BY <1>1, <1>3, <1>6 DEF Reading
<1>8. Coming(job, r, box, later, hi)
  <2>1. CASE later = failed
    BY <1>7, <2>1
  <2>2. CASE later # failed
    <3>1. later = TRUE
      BY <2>2
    <3>2. kind # "case" => AllOk(kind, r, later, box)
      BY <1>1, <1>7, <3>1, OkLater DEF Coming
    <3> QED BY <1>1, <1>7, <3>2 DEF Coming
  <2> QED BY <2>1, <2>2
<1>9. IsSeq(box)
  BY <1>7 DEF Coming, Rises
<1>10. PICK a : a = Len(job.rows)
  OBVIOUS
<1>11. kind = "session" /\ ~later => Leads(kind, r, box, a, 0)
  BY <1>1, <1>3, <1>10 DEF Reading
<1>18. PICK io : io = "io-error"
  OBVIOUS
<1>12. PICK top \in Int : top = 100 /\ io = "io-error" /\ hi <= top
  BY <1>6, <1>18
<1>13. \* The worker ends with the messages s.
       ASSUME NEW s, box' = box \o s, worker' = [worker EXCEPT !.pc = "done"],
              Rises(kind, s, hi, top), AllOk(kind, r, later, s),
              kind = "session" /\ ~later => \E y : Leads(kind, r, s, 0, y)
       PROVE  Underway(job', worker', box', later)
  <2>1. Coming(job, r, box \o s, later, top)
    BY <1>1, <1>8, <1>12, <1>13, ComingMore
  <2>2. ASSUME kind = "session", ~later
        PROVE  \E y : Leads(kind, r, box \o s, a, y)
    <3>1. PICK y, o : Leads(kind, r, s, o, y) /\ o = 0
      BY <1>13, <2>2
    <3>2. Leads(kind, r, box, a, o)
      BY <1>11, <2>2, <3>1
    <3> QED BY <3>1, <3>2, LeadsJoin
  <2>3. worker'.pc = "done" /\ worker'.input = r
    BY <1>1, <1>13
  <2>4. Done(job, worker', box', later)
    BY <1>1, <1>3, <1>10, <1>12, <1>13, <2>1, <2>2, <2>3 DEF Done
  <2>5. Given(job.kind, worker'.input) /\ job.kind \in Kinds \ {"none"}
    BY <1>1, <2>3 DEF Underway
  <2> QED BY <1>2, <2>3, <2>4, <2>5 DEF Underway
<1>14. ASSUME ~Sound(kind, r) \/ later, box' = Append(box, Failure(io)), worker' = [worker EXCEPT !.pc = "done"]
       PROVE  Underway(job', worker', box', later)
  <2>7. PICK m : m = Failure(io) /\ m.type = "error" /\ m.code = io
    BY MessageFacts
  <2>1. PICK s : m = Failure(io) /\ m.type = "error" /\ m.code = io /\ s = <<m>>
    BY <2>7
  <2>2. MessageOk(kind, r, later, m)
    BY <1>12, <1>14, <2>1 DEF MessageOk
  <2>3. AllOk(kind, r, later, s)
    BY <2>1, <2>2, OkFew
  <2>4. Rises(kind, s, hi, top)
    BY <2>1, EndRises
  <2>5. kind = "session" => \E y : Leads(kind, r, s, 0, y)
    <3>1. PICK o : o = 0
      OBVIOUS
    <3>2. Step("session", r, o, m, o)
      BY <2>1, SessionStays
    <3>3. Leads("session", r, s, o, o)
      BY <2>1, <3>2, LeadsFew
    <3> QED BY <3>1, <3>3
  <2>6. box' = box \o s
    BY <1>9, <1>14, <2>1, AppendJoins
  <2> QED BY <1>13, <1>14, <2>3, <2>4, <2>5, <2>6
<1>15. CASE ReadThrows /\ later
  <2>1. worker' = [worker EXCEPT !.pc = "done"] /\ box' = Append(box, Failure("io-error"))
    BY <1>15 DEF ReadThrows
  <2> QED BY <1>12, <1>14, <1>15, <2>1
<1>16. CASE ReadChunk
  <2>1. n < r.length
    BY <1>1, <1>16 DEF ReadChunk
  <2>2. CASE n + 1 > r.size
    <3>1. worker' = [worker EXCEPT !.pc = "done"] /\ box' = Append(box, Failure("io-error"))
      BY <1>1, <1>16, <2>2 DEF ReadChunk
    <3>2. r.length # r.size
      BY <1>5, <2>1, <2>2
    <3>3. CoreEnd(r) = "io-error"
      BY <1>4, <3>2, EndFacts
    <3>4. ~Sound(kind, r)
      BY <1>3, <3>3, SoundFacts
    <3> QED BY <1>12, <1>14, <3>1, <3>4
  <2>3. CASE ~(n + 1 > r.size)
    <3>14. PICK k \in Nat : k = n + 1
      BY <1>5
    <3>1. PICK p : k = n + 1 /\ p = ReadTo(kind, r, k)
      BY <3>14
    <3>2. worker' = [worker EXCEPT !.read = @ + 1] /\ box' = Append(box, Progress(p))
      <4>1. worker' = [worker EXCEPT !.read = @ + 1]
        BY <1>1, <1>16, <2>3 DEF ReadChunk
      <4>2. box' = Append(box, Progress(IF job.kind = "session" THEN Percent("reading", worker.read + 1, r.size)
                                        ELSE Loading(Percent("reading", worker.read + 1, r.size))))
        BY <1>1, <1>16, <2>3 DEF ReadChunk
      <4> QED BY <1>1, <3>1, <4>1, <4>2 DEF ReadTo
    <3>3. p \in Nat /\ hi <= p
      <4>1. p \in Nat
        BY <1>3, <1>4, <1>5, <2>3, <3>1, ReadToFacts
      <4>2. n <= k /\ k <= r.size
        BY <1>5, <2>3, <3>1
      <4>3. ReadTo(kind, r, n) <= ReadTo(kind, r, k)
        BY <1>3, <1>4, <1>5, <4>2, ReadToFacts
      <4> QED BY <1>6, <3>1, <4>1, <4>3
    <3>15. PICK m : m = Progress(p) /\ m.type = "progress"
      BY MessageFacts
    <3>4. PICK s : m = Progress(p) /\ s = <<m>> /\ m.type = "progress"
      BY <3>15
    <3>5. Rises(kind, s, hi, p)
      BY <3>3, <3>4, ReportRises
    <3>6. AllOk(kind, r, later, s)
      BY <3>4, OkOne
    <3>7. box' = box \o s
      BY <1>9, <3>2, <3>4, AppendJoins
    <3>8. Coming(job, r, box', later, p)
      BY <1>1, <1>8, <3>3, <3>5, <3>6, <3>7, ComingMore
    <3>9. kind = "session" /\ ~later => Leads(kind, r, box', a, 0)
      <4>1. PICK o : o = 0
        OBVIOUS
      <4>2. Step("session", r, o, m, o)
        BY <3>4, SessionStays
      <4>3. Leads("session", r, s, o, o)
        BY <3>4, <4>2, LeadsFew
      <4>4. kind = "session" /\ ~later => Leads(kind, r, box \o s, a, o)
        BY <1>11, <4>1, <4>3, LeadsJoin
      <4> QED BY <3>7, <4>1, <4>4
    <3>10. worker'.pc = "reading" /\ worker'.input = r /\ worker'.read = k
      BY <1>1, <1>2, <3>1, <3>2
    <3>11. k \in 0..r.size
      BY <1>5, <2>3, <3>1
    <3>12. Reading(job, worker', box', later)
      BY <1>1, <1>3, <1>10, <3>1, <3>8, <3>9, <3>10, <3>11 DEF Reading
    <3>13. Given(job.kind, worker'.input) /\ job.kind \in Kinds \ {"none"}
      BY <1>1, <3>10 DEF Underway
    <3> QED BY <1>2, <3>10, <3>12, <3>13 DEF Underway
  <2> QED BY <2>2, <2>3
<1>17. CASE ReadEnds
  <2>1. worker' = [worker EXCEPT !.pc = "done"] /\ box' = box \o (IF kind = "session" THEN SessionScript(r) ELSE BundleScript(r))
    BY <1>1, <1>17 DEF ReadEnds, Stream
  <2>2. CASE kind = "session"
    <3>1. PICK s : s = SessionScript(r)
      OBVIOUS
    <3>2. Rises(kind, s, hi, top)
      <4>1. PICK lo \in Int : lo = 20
        OBVIOUS
      <4>2. Rises(kind, s, lo, top)
        BY <1>4, <1>12, <2>2, <3>1, <4>1, SessionRises
      <4> QED BY <1>6, <4>1, <4>2, RiseWide
    <3>3. AllOk(kind, r, later, s)
      BY <1>4, <2>2, <3>1, SessionOk
    <3>4. \E y : Leads(kind, r, s, 0, y)
      BY <1>4, <2>2, <3>1, SessionLeads
    <3> QED BY <1>13, <2>1, <2>2, <3>1, <3>2, <3>3, <3>4
  <2>3. CASE kind = "bundle"
    <3>1. PICK s : s = BundleScript(r)
      OBVIOUS
    <3>2. Rises(kind, s, hi, top)
      <4>1. PICK lo \in Int : lo = 13
        OBVIOUS
      <4>2. Rises(kind, s, lo, top)
        BY <1>4, <1>12, <2>3, <3>1, <4>1, BundleRises
      <4> QED BY <1>6, <2>3, <4>1, <4>2, RiseWide
    <3>3. AllOk(kind, r, later, s)
      BY <1>4, <2>3, <3>1, BundleOk
    <3> QED BY <1>13, <2>1, <2>3, <3>1, <3>2, <3>3
  <2> QED BY <1>3, <2>2, <2>3
<1> QED BY <1>15, <1>16, <1>17

\* A message that is lost takes nothing else with it.
LEMMA DroppedUnderway ==
  ASSUME NEW j, NEW w, NEW b, NEW failed, Underway(j, w, b, failed), b # <<>>,
         w.pc \in {"reading", "done"}, j.kind # "case", NEW k, Same(k, j, {"unanswered"})
  PROVE  Underway(k, w, Tail(b), TRUE)
<1>1. PICK kind, r, t : kind = j.kind /\ r = w.input /\ t = Tail(b)
  OBVIOUS
<1>2. k.kind = kind /\ k.percent = j.percent /\ k.rows = j.rows /\ k.frames = j.frames
  BY <1>1 DEF Same, Fields
<1>3. ASSUME NEW hi \in Int, Coming(j, r, b, failed, hi)  PROVE Coming(k, r, t, TRUE, hi)
  <2>1. PICK p \in Int : p = j.percent
    BY <1>3 DEF Coming
  <2>2. Rises(kind, b, p, hi) /\ p <= hi /\ AllOk(kind, r, failed, b)
    BY <1>1, <1>3, <2>1 DEF Coming
  <2>3. Rises(kind, t, p, hi)
    BY <1>1, <2>2, RiseTail
  <2>4. AllOk(kind, r, failed, t)
    BY <1>1, <2>2, OkTail
  <2>5. AllOk(kind, r, TRUE, t)
    BY <2>4, OkLater
  <2>6. kind = "session" => RowsOk(k)
    BY <1>1, <1>2, <1>3 DEF Coming, RowsOk
  <2> QED BY <1>2, <2>1, <2>2, <2>3, <2>5, <2>6 DEF Coming
<1>4. CASE w.pc = "reading"
  <2>1. Reading(j, w, b, failed) /\ kind \in {"session", "bundle"}
    BY <1>1, <1>4 DEF Underway, Reading
  <2>2. IsReplay(r)
    BY <1>1, <2>1 DEF Underway, Given
  <2>3. w.read \in Nat /\ w.read <= r.size
    BY <1>1, <2>1, <2>2 DEF Reading, IsReplay
  <2>4. PICK n \in Nat : n = w.read
    BY <2>3
  <2>5. PICK hi \in Int : hi = ReadTo(kind, r, n)
    <3>1. ReadTo(kind, r, n) \in Nat
      BY <2>1, <2>2, <2>3, <2>4, ReadToFacts
    <3> QED BY <3>1
  <2>6. Coming(k, r, t, TRUE, hi)
    BY <1>1, <1>3, <2>1, <2>4, <2>5 DEF Reading
  <2>7. Reading(k, w, t, TRUE)
    BY <1>1, <1>2, <2>1, <2>4, <2>5, <2>6 DEF Reading
  <2> QED BY <1>1, <1>2, <1>4, <2>7 DEF Underway
<1>5. CASE w.pc = "done"
  <2>1. Done(j, w, b, failed)
    BY <1>5 DEF Underway
  <2>2. PICK hi \in Int : hi = 100 /\ Coming(j, r, b, failed, hi)
    BY <1>1, <2>1 DEF Done
  <2>3. Coming(k, r, t, TRUE, hi)
    BY <1>3, <2>2
  <2>4. Done(k, w, t, TRUE)
    BY <1>1, <1>2, <2>2, <2>3 DEF Done
  <2> QED BY <1>1, <1>2, <1>5, <2>4 DEF Underway
<1> QED BY <1>4, <1>5

\* A job that begins shows and holds nothing.
LEMMA BegunShows ==
  ASSUME NEW kind
  PROVE  LET j == Begun(kind) IN
         /\ j.kind = kind /\ j.percent = 0 /\ j.rows = <<>> /\ j.frames = <<>> /\ j.bundles = <<>> /\ j.counts = <<>>
         /\ j.state = "running" /\ j.aborted = FALSE
BY DEF Begun, NoJob

LEMMA BegunHolds ==
  ASSUME NEW j, j.rows = <<>>, j.frames = <<>>, j.bundles = <<>>, j.counts = <<>>
  PROVE  /\ RowsOk(j) /\ Len(j.rows) = 0
         /\ \A c : IsCase(c) => Holds(c, j, Empty)
<1>1. PICK e : e = <<>>
  OBVIOUS
<1>2. IsSeq(e) /\ Len(e) = 0
  BY <1>1, FewFacts
<1>3. e = [i \in 1..Len(e) |-> i]
  BY <1>2 DEF IsSeq
<1>4. RowsOk(j) /\ Len(j.rows) = 0
  BY <1>1, <1>2, <1>3 DEF RowsOk
<1>5. ASSUME NEW c, IsCase(c)  PROVE Holds(c, j, Empty)
  <2>1. PICK zero : zero = [key \in Range(Keys) |-> 0]
    OBVIOUS
  <2>2. zero \in [Range(Keys) -> Nat]
    BY <2>1
  <2>3. PICK x : x = Empty
    OBVIOUS
  <2>4. x = At(0, zero)
    BY <2>1, <2>3 DEF Empty
  <2>5. x.bundles = 0 /\ x.rows = zero
    BY <2>4 DEF At
  <2>6. 0 <= Len(Merged(c))
    BY <1>5, MergedTyped
  <2>7. j.bundles = e /\ j.counts = e
    BY <1>1
  <2>8. \A i \in 1..x.bundles : FALSE
    BY <2>5
  <2>9. Holds(c, j, x)
    BY <1>2, <2>2, <2>4, <2>5, <2>6, <2>7, <2>8 DEF Holds
  <2> QED BY <2>3, <2>9
<1> QED BY <1>4, <1>5

\* A job that begins with a worker is underway.
LEMMA StartUnderway ==
  ASSUME NEW kind \in Kinds \ {"none"}, NEW input, Given(kind, input), NEW script, NEW failed,
         Start(kind, input, script),
         kind \in {"comparison", "evidence"} => Rises(kind, script, 0, 100) /\ AllOk(kind, input, failed, script),
         kind = "case" => CaseGoes(input, script)
  PROVE  Underway(job', worker', box', failed)
<1>1. PICK j : j = Begun(kind) /\ job' = j
  BY DEF Start
<1>2. j.kind = kind /\ j.percent = 0 /\ RowsOk(j) /\ Len(j.rows) = 0 /\ (\A c : IsCase(c) => Holds(c, j, Empty))
  <2>1. j.kind = kind /\ j.percent = 0 /\ j.rows = <<>> /\ j.frames = <<>> /\ j.bundles = <<>> /\ j.counts = <<>>
    BY <1>1, BegunShows
  <2> QED BY <2>1, BegunHolds
<1>3. worker' = [pc |-> IF Streams(kind) THEN "reading" ELSE "done", input |-> input, read |-> 0]
      /\ box' = IF Streams(kind) THEN <<Progress(0)>> ELSE script
  BY DEF Start
<1>4. PICK w : w = worker' /\ w.input = input /\ w.read = 0
  BY <1>3
<1>5. CASE kind \in {"session", "bundle"}
  <2>1. PICK o \in Nat, hi \in Int : o = 0 /\ hi = 0 /\ o <= hi
    OBVIOUS
  <2>2. PICK s : s = <<Progress(o)>>
    OBVIOUS
  <2>3. IsReplay(input) /\ input.size \in Nat
    BY <1>5 DEF Given, IsReplay
  <2>4. hi = ReadTo(kind, input, o) /\ o \in 0..input.size
    <3>1. o <= input.size
      BY <2>1, <2>3
    <3>2. ReadTo(kind, input, o) = 0
      BY <1>5, <2>1, <2>3, <3>1, ReadToFacts
    <3> QED BY <2>1, <2>3, <3>2
  <2>5. w.pc = "reading" /\ box' = s
    BY <1>3, <1>4, <1>5, <2>1, <2>2 DEF Streams
  <2>6. Rises(kind, s, o, hi)
    BY <2>1, <2>2, ReportRises
  <2>7. AllOk(kind, input, failed, s)
    BY <2>2, OkOne
  <2>8. Coming(j, input, s, failed, hi)
    BY <1>2, <2>1, <2>6, <2>7 DEF Coming
  <2>9. Leads("session", input, s, o, o)
    <3>1. PICK m : m = Progress(o) /\ m.type = "progress"
      BY MessageFacts
    <3>2. Step("session", input, o, m, o)
      BY <3>1, SessionStays
    <3>3. Leads("session", input, <<m>>, o, o)
      BY <3>2, LeadsFew
    <3> QED BY <2>2, <3>1, <3>3
  <2>10. Reading(j, w, s, failed)
    BY <1>2, <1>4, <1>5, <2>1, <2>4, <2>8, <2>9 DEF Reading
  <2> QED BY <1>1, <1>2, <1>4, <2>5, <2>10 DEF Underway
<1>6. CASE kind \notin {"session", "bundle"}
  <2>1. w.pc = "done" /\ box' = script
    BY <1>3, <1>4, <1>6 DEF Streams
  <2>2. kind \in {"comparison", "evidence", "case"}
    BY <1>6 DEF Kinds
  <2>3. Rises(kind, script, 0, 100) /\ (kind # "case" => AllOk(kind, input, failed, script))
    BY <2>2 DEF CaseGoes
  <2>4. Coming(j, input, script, failed, 100)
    BY <1>2, <1>6, <2>3 DEF Coming
  <2>5. kind = "case" => \E x, y : Holds(input, j, x) /\ Leads("case", input, script, x, y)
    <3>1. ASSUME kind = "case"  PROVE \E x, y : Holds(input, j, x) /\ Leads("case", input, script, x, y)
      <4>1. Holds(input, j, Empty)
        BY <1>2, <3>1 DEF Given
      <4>2. \E y : Leads("case", input, script, Empty, y)
        BY <3>1 DEF CaseGoes
      <4> QED BY <4>1, <4>2
    <3> QED BY <3>1
  <2>6. Done(j, w, script, failed)
    BY <1>2, <1>4, <1>6, <2>4, <2>5 DEF Done
  <2> QED BY <1>1, <1>2, <1>4, <2>1, <2>6 DEF Underway
<1> QED BY <1>5, <1>6

-----------------------------------------------------------------------------
(* The invariant *)

\* A job that has settled says what is true of its input, was cancelled, or was refused for its file.
Answered(j, input, n) ==
  /\ j.state = "resolved" => Sound(j.kind, input) /\ j.value = Whole(j.kind, input)
  /\ j.state = "rejected" =>
       \/ j.aborted
       \/ j.why \in {"worker-failure", "io-error"} /\ n > 0
       \/ j.why \in {"empty", "large", "unreadable", "changed"}
       \/ ~Sound(j.kind, input) /\ j.why # "worker-failure"

TrueInv ==
  /\ JobInv /\ faults \in Nat /\ job.percent \in Int
  /\ job.state = "none" => job.percent = 0
  /\ Answered(job, worker.input, faults)
  /\ job.state = "running" => \E failed \in BOOLEAN : (failed => faults > 0) /\ Underway(job, worker, box, failed)

\* What every step keeps, and what a job shows.
Truthful == TrueInv' /\ job.percent <= job'.percent

\* A step after which the job runs, and one that settles it.
LEMMA RunsOn ==
  ASSUME TrueInv, Kept, job'.state = "running", job.percent <= job'.percent, job'.percent \in Int,
         faults' \in Nat, NEW failed \in BOOLEAN, failed => faults' > 0, Underway(job', worker', box', failed)
  PROVE  Truthful
BY DEF Truthful, TrueInv, Kept, Answered

LEMMA Settles ==
  ASSUME TrueInv, Kept, Settled(job'), job.percent <= job'.percent, job'.percent \in Int,
         faults' \in Nat, Answered(job', worker'.input, faults')
  PROVE  Truthful
<1>1. job'.state # "none" /\ job'.state # "running"
  BY DEF Settled
<1> QED BY <1>1 DEF Truthful, TrueInv, Kept

\* A job that settles on a failure, a cancellation or a message.
LEMMA RefusedTrue ==
  ASSUME TrueInv, Kept, NEW why, job' = Reject(job, why), faults' \in Nat,
         \/ why \in {"worker-failure", "io-error"} /\ faults' > 0
         \/ job.aborted
         \/ ~Sound(job.kind, worker'.input) /\ why # "worker-failure"
  PROVE  Truthful
<1>1. IsJob(job) /\ job.percent \in Int
  BY DEF TrueInv, JobInv, JobOk
<1>2. IsJob(job') /\ Same(job', job, {"listening", "state", "why"}) /\ job'.state = "rejected"
  BY <1>1, ChangeFacts
<1>3. job'.why = why
  BY <1>1, SettleFacts
<1>4. job'.percent = job.percent /\ job'.aborted = job.aborted /\ job'.kind = job.kind
  BY <1>2 DEF Same, Fields
<1>5. Answered(job', worker'.input, faults')
  BY <1>2, <1>3, <1>4 DEF Answered
<1>6. Settled(job') /\ job.percent <= job'.percent
  BY <1>1, <1>2, <1>4 DEF Settled
<1> QED BY <1>1, <1>4, <1>5, <1>6, Settles

LEMMA InitTrue == Init => TrueInv
<1> SUFFICES ASSUME Init  PROVE TrueInv
  OBVIOUS
<1>1. JobInv
  BY InitJob
<1>2. job = NoJob /\ faults = 0
  BY DEF Init
<1>3. NoJob.percent = 0 /\ NoJob.state = "none"
  BY DEF NoJob
<1> QED BY <1>1, <1>2, <1>3 DEF TrueInv, Answered

\* A job begins with a worker.
LEMMA StartTrue ==
  ASSUME TrueInv, Kept, Fresh, NEW kind \in Kinds \ {"none"}, NEW input, Given(kind, input), NEW script,
         Start(kind, input, script),
         kind \in {"comparison", "evidence"} => Rises(kind, script, 0, 100) /\ AllOk(kind, input, FALSE, script),
         kind = "case" => CaseGoes(input, script)
  PROVE  Truthful
<1>1. job' = Begun(kind) /\ faults' = faults
  BY DEF Start
<1>2. job'.percent = 0 /\ job'.state = "running"
  BY <1>1, BegunShows
<1>3. PICK failed \in BOOLEAN : failed = FALSE
  OBVIOUS
<1>4. Underway(job', worker', box', failed)
  <2>1. kind \in {"comparison", "evidence"} => Rises(kind, script, 0, 100) /\ AllOk(kind, input, failed, script)
    BY <1>3
  <2> QED BY <2>1, StartUnderway
<1>5. job.percent = 0 /\ faults \in Nat
  BY DEF TrueInv, Fresh
<1> QED BY <1>1, <1>2, <1>3, <1>4, <1>5, RunsOn

LEMMA BeginTrue ==
  ASSUME TrueInv, Kept, Begin
  PROVE  Truthful
<1>1. Fresh
  BY DEF Begin, StartSession, StartBundle, StartComparison, StartCase, StartEvidence, StartRefused, StartInline
<1>2. job.percent = 0 /\ faults \in Nat /\ worker.pc = "off"
  BY <1>1 DEF TrueInv, Fresh, JobInv, JobOk
<1>3. CASE StartSession
  <2>1. PICK r \in Replays : Start("session", r, <<>>)
    BY <1>3 DEF StartSession
  <2>2. PICK kind, s : kind = "session" /\ s = <<>>
    OBVIOUS
  <2>3. kind \in Kinds \ {"none"} /\ kind \notin {"comparison", "evidence"} /\ kind # "case"
    BY <2>2 DEF Kinds
  <2>4. Given(kind, r)
    BY <2>2, ReplaysTyped DEF Given
  <2> QED BY <1>1, <2>1, <2>2, <2>3, <2>4, StartTrue
<1>4. CASE StartBundle
  <2>1. PICK r \in Replays : Start("bundle", r, <<>>)
    BY <1>4 DEF StartBundle
  <2>2. PICK kind, s : kind = "bundle" /\ s = <<>>
    OBVIOUS
  <2>3. kind \in Kinds \ {"none"} /\ kind \notin {"comparison", "evidence"} /\ kind # "case"
    BY <2>2 DEF Kinds
  <2>4. Given(kind, r)
    BY <2>2, ReplaysTyped DEF Given
  <2> QED BY <1>1, <2>1, <2>2, <2>3, <2>4, StartTrue
<1>5. CASE StartComparison
  <2>1. PICK ok \in BOOLEAN : Start("comparison", ok, ComparisonScript(ok))
    BY <1>5 DEF StartComparison
  <2>2. PICK kind, s : kind = "comparison" /\ s = ComparisonScript(ok)
    OBVIOUS
  <2>3. kind \in Kinds \ {"none"} /\ kind # "case"
    BY <2>2 DEF Kinds
  <2>4. Given(kind, ok)
    BY <2>2 DEF Given
  <2>5. Rises(kind, s, 0, 100) /\ AllOk(kind, ok, FALSE, s)
    BY <2>2, ShortRises, ShortOk
  <2> QED BY <1>1, <2>1, <2>2, <2>3, <2>4, <2>5, StartTrue
<1>6. CASE StartCase
  <2>1. PICK c \in Cases : Start("case", c, CaseScript(c))
    BY <1>6 DEF StartCase
  <2>2. PICK kind, s : kind = "case" /\ s = CaseScript(c)
    OBVIOUS
  <2>3. kind \in Kinds \ {"none"} /\ kind \notin {"comparison", "evidence"}
    BY <2>2 DEF Kinds
  <2>4. IsCase(c)
    BY CasesTyped
  <2>5. Given(kind, c) /\ CaseGoes(c, s)
    BY <2>2, <2>4, CaseGoesOn DEF Given
  <2> QED BY <1>1, <2>1, <2>2, <2>3, <2>5, StartTrue
<1>7. CASE StartEvidence
  <2>1. PICK f \in Files :
          IF f.status = "whole" THEN Start("evidence", f.good, EvidenceScript(f.good))
          ELSE /\ f.good
               /\ job' = Reject(Begun("evidence"), f.status)
               /\ worker' = [Off EXCEPT !.input = f.good] /\ UNCHANGED <<box, faults>>
    BY <1>7 DEF StartEvidence
  <2>2. f.status \in {"empty", "large", "unreadable", "changed", "whole"} /\ f.good \in BOOLEAN
    BY DEF Files
  <2>3. CASE f.status = "whole"
    <3>1. PICK ok \in BOOLEAN : ok = f.good
      BY <2>2
    <3>2. PICK kind, s : kind = "evidence" /\ s = EvidenceScript(ok)
      OBVIOUS
    <3>3. kind \in Kinds \ {"none"} /\ kind # "case"
      BY <3>2 DEF Kinds
    <3>4. Given(kind, ok)
      BY <3>2 DEF Given
    <3>5. Rises(kind, s, 0, 100) /\ AllOk(kind, ok, FALSE, s)
      BY <3>2, ShortRises, ShortOk
    <3>6. Start(kind, ok, s)
      BY <2>1, <2>3, <3>1, <3>2
    <3> QED BY <1>1, <3>3, <3>4, <3>5, <3>6, StartTrue
  <2>4. CASE f.status # "whole"
    <3>1. PICK j, why : j = Begun("evidence") /\ why = f.status
      OBVIOUS
    <3>2. job' = Reject(j, why) /\ faults' = faults
      BY <2>1, <2>4, <3>1
    <3>3. IsJob(j) /\ j.percent = 0
      <4>1. "evidence" \in Kinds
        BY DEF Kinds
      <4> QED BY <3>1, <4>1, BegunFacts, BegunShows
    <3>4. job'.state = "rejected" /\ job'.why = why /\ job'.percent = 0
      BY <3>2, <3>3, SettleFacts
    <3>5. Answered(job', worker'.input, faults') /\ Settled(job')
      BY <2>2, <2>4, <3>1, <3>4 DEF Answered, Settled
    <3> QED BY <1>2, <3>2, <3>4, <3>5, Settles
  <2> QED BY <2>3, <2>4
<1>8. CASE StartRefused
  <2>1. PICK kind \in {"session", "bundle", "comparison", "case"} :
          /\ \/ job' = [Reject(Begun(kind), "cancelled") EXCEPT !.aborted = TRUE] /\ faults' = faults
             \/ Fault /\ job' = Reject(Begun(kind), "worker-failure")
          /\ worker' = worker
    BY <1>8 DEF StartRefused
  <2>2. PICK j : j = Begun(kind)
    OBVIOUS
  <2>3. IsJob(j) /\ j.percent = 0
    <3>1. kind \in Kinds
      BY DEF Kinds
    <3> QED BY <2>2, <3>1, BegunFacts, BegunShows
  <2>4. CASE job' = [Reject(j, "cancelled") EXCEPT !.aborted = TRUE] /\ faults' = faults
    <3>6. PICK why : why = "cancelled"
      OBVIOUS
    <3>1. PICK k : k = Reject(j, why) /\ job' = [k EXCEPT !.aborted = TRUE]
      BY <2>4, <3>6
    <3>2. IsJob(k) /\ k.state = "rejected" /\ k.percent = 0
      <4>1. IsJob(k) /\ k.state = "rejected"
        BY <2>3, <3>1, ChangeFacts
      <4>2. k.percent = j.percent
        BY <2>3, <3>1, SettleFacts
      <4> QED BY <2>3, <4>1, <4>2
    <3>3. Same(job', k, {"aborted"}) /\ job'.aborted = TRUE
      BY <3>1, <3>2 DEF IsJob, Same, Fields
    <3>4. job'.state = "rejected" /\ job'.percent = 0
      BY <3>2, <3>3 DEF Same, Fields
    <3>5. Answered(job', worker'.input, faults') /\ Settled(job')
      BY <3>3, <3>4 DEF Answered, Settled
    <3> QED BY <1>2, <2>4, <3>4, <3>5, Settles
  <2>5. CASE Fault /\ job' = Reject(j, "worker-failure")
    <3>1. PICK why : why = "worker-failure"
      OBVIOUS
    <3>2. job'.state = "rejected" /\ job'.why = why /\ job'.percent = 0
      BY <2>3, <2>5, <3>1, SettleFacts
    <3>3. faults' \in Nat /\ faults' > 0
      BY <1>2, <2>5 DEF Fault
    <3>4. Answered(job', worker'.input, faults') /\ Settled(job')
      BY <3>1, <3>2, <3>3 DEF Answered, Settled
    <3> QED BY <1>2, <3>2, <3>3, <3>4, Settles
  <2> QED BY <2>1, <2>2, <2>4, <2>5
<1>9. CASE StartInline
  <2>1. PICK r \in Replays :
    /\ r.same
    /\ \/ /\ job' = [Begun("session") EXCEPT !.listening = FALSE]
          /\ worker' = [pc |-> "inline-reading", input |-> r, read |-> 0]
       \/ /\ r.text = "canonical" /\ r.length = r.size
          /\ job' = [Begun("bundle") EXCEPT !.listening = FALSE]
          /\ worker' = [pc |-> "inline-building", input |-> r, read |-> 0]
    /\ faults' = faults
    BY <1>9 DEF StartInline
  <2>2. IsReplay(r)
    BY ReplaysTyped
  <2>3. ASSUME NEW kind \in {"session", "bundle"}, job' = [Begun(kind) EXCEPT !.listening = FALSE]
        PROVE  job'.kind = kind /\ job'.percent = 0 /\ job'.state = "running"
    <3>1. PICK j : j = Begun(kind)
      OBVIOUS
    <3>2. IsJob(j) /\ j.kind = kind /\ j.percent = 0 /\ j.state = "running"
      <4>1. kind \in Kinds
        BY DEF Kinds
      <4> QED BY <3>1, <4>1, BegunFacts, BegunShows
    <3>3. Same(job', j, {"listening"})
      BY <2>3, <3>1, <3>2 DEF IsJob, Same, Fields
    <3> QED BY <3>2, <3>3 DEF Same, Fields
  <2>4. PICK failed \in BOOLEAN : failed = FALSE
    OBVIOUS
  <2>5. CASE job' = [Begun("session") EXCEPT !.listening = FALSE] /\ worker' = [pc |-> "inline-reading", input |-> r, read |-> 0]
    <3>1. job'.kind = "session" /\ job'.percent = 0 /\ job'.state = "running"
      BY <2>3, <2>5
    <3>2. worker'.pc = "inline-reading" /\ worker'.input = r /\ worker'.read = 0
      BY <2>5
    <3>3. PICK n \in Nat, size \in Nat : n = 0 /\ size = r.size
      BY <2>2 DEF IsReplay
    <3>6. PICK p : p = Percent("reading", n, r.size)
      OBVIOUS
    <3>4. p \in 0..20
      <4>1. n <= r.size
        BY <3>3
      <4> QED BY <2>2, <3>6, <4>1, ReadToFacts
    <3>5. Underway(job', worker', box', failed)
      BY <2>2, <3>1, <3>2, <3>3, <3>4, <3>6 DEF Underway, Given, Kinds
    <3> QED BY <1>2, <2>1, <2>4, <3>1, <3>5, RunsOn
  <2>6. CASE /\ job' = [Begun("bundle") EXCEPT !.listening = FALSE] /\ worker' = [pc |-> "inline-building", input |-> r, read |-> 0]
             /\ r.text = "canonical" /\ r.length = r.size
    <3>1. job'.kind = "bundle" /\ job'.percent = 0 /\ job'.state = "running"
      BY <2>3, <2>6
    <3>2. worker'.pc = "inline-building" /\ worker'.input = r
      BY <2>6
    <3>3. CoreEnd(r) = "ok"
      BY <2>6 DEF CoreEnd
    <3>4. Underway(job', worker', box', failed)
      BY <2>1, <2>2, <3>1, <3>2, <3>3 DEF Underway, Given, Kinds
    <3> QED BY <1>2, <2>1, <2>4, <3>1, <3>4, RunsOn
  <2> QED BY <2>1, <2>5, <2>6
<1> QED BY <1>3, <1>4, <1>5, <1>6, <1>7, <1>8, <1>9 DEF Begin

\* What a job is given does not change when it settles.
LEMMA InputStays ==
  ASSUME TrueInv, worker' = Terminated(job')
  PROVE  /\ worker'.input = worker.input /\ worker'.read = worker.read
         /\ worker' = [pc |-> worker'.pc, input |-> worker'.input, read |-> worker'.read]
         /\ ~Settled(job') => worker' = worker
<1>1. worker = [pc |-> worker.pc, input |-> worker.input, read |-> worker.read]
  BY DEF TrueInv, JobInv, JobOk
<1>2. PICK j : j = job' /\ worker' = IF Settled(j) THEN [worker EXCEPT !.pc = "off"] ELSE worker
  BY DEF Terminated
<1>3. worker'.input = worker.input /\ worker'.read = worker.read
      /\ worker' = [pc |-> worker'.pc, input |-> worker'.input, read |-> worker'.read]
  BY <1>1, <1>2, TerminatedFacts
<1> QED BY <1>2, <1>3

\* A job that runs is underway.
LEMMA RunningFacts ==
  ASSUME TrueInv, job.state = "running"
  PROVE  /\ IsJob(job) /\ Downloads(job) /\ job.downloaded = FALSE /\ job.percent \in Int
         /\ job.kind \in Kinds \ {"none"} /\ ~Settled(job) /\ Given(job.kind, worker.input)
         /\ worker.pc \in {"reading", "done", "inline-reading", "inline-building"}
         /\ box # <<>> => worker.pc \in {"reading", "done"}
         /\ \E failed \in BOOLEAN : (failed => faults > 0) /\ Underway(job, worker, box, failed)
<1>1. PICK failed \in BOOLEAN : (failed => faults > 0) /\ Underway(job, worker, box, failed)
  BY DEF TrueInv
<1>2. IsJob(job) /\ Downloads(job) /\ job.percent \in Int /\ ~Settled(job)
  BY DEF TrueInv, JobInv, JobOk, Settled
<1>3. job.downloaded = FALSE
  BY <1>2 DEF Downloads
<1>4. worker.pc \in {"reading", "done", "inline-reading", "inline-building"} /\ job.kind \in Kinds \ {"none"}
      /\ Given(job.kind, worker.input)
  BY <1>1 DEF Underway
<1>5. box # <<>> => worker.pc \in {"reading", "done"}
  BY <1>4 DEF TrueInv, JobInv, JobOk
<1> QED BY <1>1, <1>2, <1>3, <1>4, <1>5

\* A message that a job takes is handled by the listener of its kind.
LEMMA HandledTrue ==
  ASSUME NEW j, IsJob(j), j.kind \in Kinds \ {"none"}, j.state = "running", NEW w, NEW b, NEW failed \in BOOLEAN,
         w.pc \in {"reading", "done"}, Underway(j, w, b, failed), b # <<>>, NEW k, k = Handled(j, Head(b))
  PROVE  /\ k.percent \in Int /\ j.percent <= k.percent /\ Verdict(w.input, failed, k)
         /\ ~Settled(k) => Underway(k, w, Tail(b), failed)
         /\ k.kind = j.kind /\ IsJob(k) /\ k.downloaded = j.downloaded /\ k.aborted = j.aborted
         /\ ~Settled(k) => k.state = "running"
<1>1. Proceeds(k, j)
  BY HandledFacts
<1>2. k.kind = j.kind /\ IsJob(k) /\ k.downloaded = j.downloaded /\ k.aborted = j.aborted /\ (~Settled(k) => k.state = "running")
  BY <1>1 DEF Proceeds, Settled
<1>3. k = CASE j.kind = "session" -> OnSessionMessage(j, Head(b))
            [] j.kind = "case" -> OnCaseMessage(j, Head(b))
            [] OTHER -> OnAnswer(j, Head(b))
  BY DEF Handled, Settled
<1>4. CASE j.kind = "session"
  <2>1. k = OnSessionMessage(j, Head(b))
    BY <1>3, <1>4
  <2> QED BY <1>2, <1>4, <2>1, SessionReceived
<1>5. CASE j.kind = "case"
  <2>1. k = OnCaseMessage(j, Head(b))
    BY <1>3, <1>5
  <2> QED BY <1>2, <1>5, <2>1, CaseReceived
<1>6. CASE j.kind \notin {"session", "case"}
  <2>1. k = OnAnswer(j, Head(b))
    BY <1>3, <1>6
  <2>2. j.kind \in {"bundle", "comparison", "evidence"}
    BY <1>6 DEF Kinds
  <2> QED BY <1>2, <2>1, <2>2, AnswerReceived
<1> QED BY <1>4, <1>5, <1>6

LEMMA DeliverTrue ==
  ASSUME TrueInv, Kept, Deliver
  PROVE  Truthful
<1>1. box # <<>> /\ job' = Delivered(Handled(job, Head(box))) /\ worker' = Terminated(job') /\ box' = Tail(box)
      /\ faults' = faults
  BY DEF Deliver
<1>2. worker'.input = worker.input /\ (~Settled(job') => worker' = worker)
  BY <1>1, InputStays
<1>3. faults \in Nat /\ job.percent \in Int
  BY DEF TrueInv
<1>4. CASE Settled(job)
  <2>1. job' = job
    BY <1>4 DEF Kept
  <2>2. Answered(job', worker'.input, faults')
    BY <1>1, <1>2, <2>1 DEF TrueInv
  <2> QED BY <1>1, <1>3, <1>4, <2>1, <2>2, Settles
<1>5. CASE ~Settled(job)
  <2>1. job.state = "running"
    BY <1>1, <1>5 DEF TrueInv, JobInv, JobOk, IsJob, Settled
  <2>2. /\ IsJob(job) /\ job.downloaded = FALSE /\ job.kind \in Kinds \ {"none"} /\ worker.pc \in {"reading", "done"}
        /\ \E failed \in BOOLEAN : (failed => faults > 0) /\ Underway(job, worker, box, failed)
    BY <1>1, <2>1, RunningFacts
  <2>3. PICK failed \in BOOLEAN : (failed => faults > 0) /\ Underway(job, worker, box, failed)
    BY <2>2
  <2>4. PICK k : k = Handled(job, Head(box))
    OBVIOUS
  <2>5. /\ k.percent \in Int /\ job.percent <= k.percent /\ Verdict(worker.input, failed, k)
        /\ ~Settled(k) => Underway(k, worker, Tail(box), failed)
        /\ k.kind = job.kind /\ IsJob(k) /\ k.downloaded = job.downloaded /\ k.aborted = job.aborted
        /\ ~Settled(k) => k.state = "running"
    BY <1>1, <2>1, <2>2, <2>3, <2>4, HandledTrue
  <2>6. job' = Delivered(k)
    BY <1>1, <2>4
  <2>7. Same(job', k, {"downloaded"}) /\ (Downloads(k) => job' = k)
    BY <2>5, <2>6, DeliveredFacts
  <2>8. job'.kind = k.kind /\ job'.state = k.state /\ job'.value = k.value /\ job'.why = k.why /\ job'.percent = k.percent
    BY <2>7 DEF Same, Fields
  <2>9. CASE Settled(k)
    <3>1. Settled(job')
      BY <2>8, <2>9 DEF Settled
    <3>2. Answered(job', worker'.input, faults')
      <4>1. failed => faults' > 0
        BY <1>1, <2>3
      <4>2. Verdict(worker'.input, failed, k)
        BY <1>2, <2>5
      <4> QED BY <2>8, <4>1, <4>2 DEF Verdict, Answered
    <3> QED BY <1>1, <1>3, <2>5, <2>8, <3>1, <3>2, Settles
  <2>10. CASE ~Settled(k)
    <3>1. Downloads(k)
      BY <2>2, <2>5, <2>10 DEF Downloads
    <3>2. job' = k
      BY <2>7, <3>1
    <3>3. worker' = worker
      BY <1>2, <2>10, <3>2
    <3>4. Underway(job', worker', box', failed)
      BY <1>1, <2>5, <2>10, <3>2, <3>3
    <3> QED BY <1>1, <1>3, <2>3, <2>5, <2>10, <3>2, <3>4, RunsOn
  <2> QED BY <2>9, <2>10
<1> QED BY <1>4, <1>5

\* A fault is counted.
LEMMA FaultCounts ==
  ASSUME TrueInv, Fault
  PROVE  faults' \in Nat /\ faults' > 0
BY DEF TrueInv, Fault

LEMMA UnreadableTrue ==
  ASSUME TrueInv, Kept, Unreadable
  PROVE  Truthful
<1>1. /\ box # <<>> /\ ~Settled(job) /\ Fault /\ worker' = Terminated(job') /\ box' = Tail(box)
      /\ job' = IF job.kind = "case" THEN Reject(job, "worker-failure")
                ELSE [job EXCEPT !.unanswered = Head(box).type \in {"success", "error"}]
  BY DEF Unreadable
<1>2. faults' \in Nat /\ faults' > 0
  BY <1>1, FaultCounts
<1>3. job.state = "running"
  BY <1>1 DEF TrueInv, JobInv, JobOk, IsJob, Settled
<1>4. CASE job.kind = "case"
  <2>1. PICK why : why = "worker-failure"
    OBVIOUS
  <2>2. job' = Reject(job, why)
    BY <1>1, <1>4, <2>1
  <2> QED BY <1>2, <2>1, <2>2, RefusedTrue
<1>5. CASE job.kind # "case"
  <2>1. /\ IsJob(job) /\ worker.pc \in {"reading", "done"} /\ job.percent \in Int
        /\ \E failed \in BOOLEAN : (failed => faults > 0) /\ Underway(job, worker, box, failed)
    BY <1>1, <1>3, RunningFacts
  <2>2. PICK failed \in BOOLEAN : Underway(job, worker, box, failed)
    BY <2>1
  <2>3. PICK u : job' = [job EXCEPT !.unanswered = u]
    BY <1>1, <1>5
  <2>4. Same(job', job, {"unanswered"})
    BY <2>1, <2>3 DEF IsJob, Same, Fields
  <2>5. job'.state = "running" /\ job'.percent = job.percent
    BY <1>3, <2>4 DEF Same, Fields
  <2>6. worker' = worker
    BY <1>1, <2>5, InputStays DEF Settled
  <2>7. PICK k : k = job'
    OBVIOUS
  <2>8. Underway(k, worker, Tail(box), TRUE)
    BY <1>1, <1>5, <2>1, <2>2, <2>4, <2>7, DroppedUnderway
  <2>9. PICK later \in BOOLEAN : later = TRUE
    OBVIOUS
  <2>10. Underway(job', worker', box', later)
    BY <1>1, <2>6, <2>7, <2>8, <2>9
  <2> QED BY <1>2, <2>1, <2>5, <2>10, RunsOn
<1> QED BY <1>4, <1>5

LEMMA CrashTrue ==
  ASSUME TrueInv, Kept, Crash
  PROVE  Truthful
<1>1. job' = Reject(job, "worker-failure") /\ Fault
  BY DEF Crash
<1>2. faults' \in Nat /\ faults' > 0
  BY <1>1, FaultCounts
<1>3. PICK why : why = "worker-failure"
  OBVIOUS
<1> QED BY <1>1, <1>2, <1>3, RefusedTrue

LEMMA ReadTrue ==
  ASSUME TrueInv, Kept, ReadChunk \/ ReadThrows \/ ReadEnds
  PROVE  Truthful
<1>1. worker.pc = "reading" /\ job' = job
  BY DEF ReadChunk, ReadThrows, ReadEnds
<1>2. job.state = "running" /\ worker = [pc |-> worker.pc, input |-> worker.input, read |-> worker.read]
      /\ faults \in Nat /\ job.percent \in Int
  <2>1. job.state # "running" => worker.pc = "off"
    BY DEF TrueInv, JobInv, JobOk
  <2>2. worker = [pc |-> worker.pc, input |-> worker.input, read |-> worker.read] /\ faults \in Nat /\ job.percent \in Int
    BY DEF TrueInv, JobInv, JobOk
  <2> QED BY <1>1, <2>1, <2>2
<1>3. PICK failed \in BOOLEAN : (failed => faults > 0) /\ Underway(job, worker, box, failed)
  BY <1>2, RunningFacts
<1>4. CASE ReadThrows
  <2>1. PICK later \in BOOLEAN : later = TRUE
    OBVIOUS
  <2>2. faults' \in Nat /\ faults' > 0
    BY <1>4, FaultCounts DEF ReadThrows
  <2>3. Underway(job', worker', box', later)
    BY <1>2, <1>3, <1>4, <2>1, ReadUnderway
  <2> QED BY <1>1, <1>2, <2>2, <2>3, RunsOn
<1>5. CASE ReadChunk \/ ReadEnds
  <2>1. faults' = faults
    BY <1>5 DEF ReadChunk, ReadEnds
  <2>2. Underway(job', worker', box', failed)
    BY <1>2, <1>3, <1>5, ReadUnderway
  <2>3. faults' \in Nat /\ (failed => faults' > 0)
    BY <1>2, <1>3, <2>1
  <2> QED BY <1>1, <1>2, <2>2, <2>3, RunsOn
<1> QED BY <1>4, <1>5

\* A cancelled job is rejected, or goes on without a worker.
LEMMA AbortTrue ==
  ASSUME TrueInv, Kept, Abort
  PROVE  Truthful
<1>1. /\ job.state = "running" /\ job.kind # "evidence" /\ worker' = Terminated(job') /\ box' = box /\ faults' = faults
      /\ job' = [(IF job.listening THEN Reject(job, "cancelled") ELSE job) EXCEPT !.aborted = TRUE]
  BY DEF Abort
<1>2. /\ IsJob(job) /\ job.percent \in Int /\ faults \in Nat
      /\ \E failed \in BOOLEAN : (failed => faults > 0) /\ Underway(job, worker, box, failed)
  BY <1>1, RunningFacts DEF TrueInv
<1>3. CASE job.listening
  <2>1. PICK why : why = "cancelled"
    OBVIOUS
  <2>2. PICK k : k = Reject(job, why)
    OBVIOUS
  <2>3. job' = [k EXCEPT !.aborted = TRUE]
    BY <1>1, <1>3, <2>1, <2>2
  <2>4. IsJob(k) /\ Same(k, job, {"listening", "state", "why"}) /\ k.state = "rejected"
    BY <1>2, <2>2, ChangeFacts
  <2>5. Same(job', k, {"aborted"}) /\ job'.aborted = TRUE
    BY <2>3, <2>4 DEF IsJob, Same, Fields
  <2>6. job'.state = "rejected" /\ job'.percent = job.percent
    BY <2>4, <2>5 DEF Same, Fields
  <2>7. Answered(job', worker'.input, faults') /\ Settled(job')
    BY <2>5, <2>6 DEF Answered, Settled
  <2> QED BY <1>1, <1>2, <2>6, <2>7, Settles
<1>4. CASE ~job.listening
  <2>1. job' = [job EXCEPT !.aborted = TRUE]
    BY <1>1, <1>4
  <2>2. Same(job', job, {"aborted"})
    BY <1>2, <2>1 DEF IsJob, Same, Fields
  <2>3. job'.state = "running" /\ job'.percent = job.percent /\ job'.kind = job.kind
    BY <1>1, <2>2 DEF Same, Fields
  <2>4. worker' = worker
    BY <1>1, <2>3, InputStays DEF Settled
  <2>5. worker.pc \in {"inline-reading", "inline-building"}
    BY <1>1, <1>4 DEF TrueInv, JobInv, JobOk
  <2>6. PICK failed \in BOOLEAN : (failed => faults > 0) /\ Underway(job, worker, box, failed)
    BY <1>2
  <2>7. Underway(job', worker', box', failed)
    BY <2>3, <2>4, <2>5, <2>6 DEF Underway
  <2>8. job.percent <= job'.percent /\ job'.percent \in Int /\ faults' \in Nat /\ (failed => faults' > 0)
    BY <1>1, <1>2, <2>3, <2>6
  <2> QED BY <2>3, <2>7, <2>8, RunsOn
<1> QED BY <1>3, <1>4

\* The page's own work.
LEMMA InlineTrue ==
  ASSUME TrueInv, Kept, InlineChunk \/ InlineThrows \/ InlineEnds \/ InlineBuilt
  PROVE  Truthful
<1>1. worker.pc \in {"inline-reading", "inline-building"}
  BY DEF InlineChunk, InlineThrows, InlineEnds, InlineBuilt
<1>2. /\ job.state = "running" /\ faults \in Nat
      /\ worker.pc = "inline-reading" => job.kind = "session"
      /\ worker.pc = "inline-building" => job.kind = "bundle"
  BY <1>1 DEF TrueInv, JobInv, JobOk
<1>3. /\ IsJob(job) /\ job.percent \in Int /\ ~Settled(job) /\ Given(job.kind, worker.input)
      /\ \E failed \in BOOLEAN : (failed => faults > 0) /\ Underway(job, worker, box, failed)
  BY <1>2, RunningFacts
<1>4. PICK failed \in BOOLEAN : (failed => faults > 0) /\ Underway(job, worker, box, failed)
  BY <1>3
<1>5. PICK r, n : r = worker.input /\ n = worker.read
  OBVIOUS
<1>6. IsReplay(r) /\ r.size \in Nat /\ r.length \in Nat
  BY <1>1, <1>2, <1>3, <1>5 DEF Given, IsReplay
<1>7. worker.pc = "inline-reading" => n \in Nat /\ n <= r.size /\ job.percent <= Percent("reading", n, r.size)
  BY <1>4, <1>5, <1>6 DEF Underway
<1>8. CASE InlineChunk
  <2>1. /\ worker.pc = "inline-reading" /\ n < r.length /\ faults' = faults /\ box' = box
        /\ job' = IF n + 1 > r.size \/ job.aborted THEN Reject(job, "io-error")
                  ELSE Report(job, Percent("reading", n + 1, r.size))
        /\ worker' = [Terminated(job') EXCEPT !.read = @ + 1]
    BY <1>5, <1>8 DEF InlineChunk
  <2>2. worker = [pc |-> worker.pc, input |-> worker.input, read |-> worker.read]
    BY DEF TrueInv, JobInv, JobOk
  <2>3. /\ worker'.input = r /\ worker'.read = n + 1
        /\ ~Settled(job') => worker'.pc = worker.pc
    <3>1. PICK w : w = Terminated(job') /\ worker' = [w EXCEPT !.read = @ + 1]
      BY <2>1
    <3>2. w = [pc |-> w.pc, input |-> w.input, read |-> w.read] /\ w.input = r /\ w.read = n /\ (~Settled(job') => w = worker)
      <4>1. CASE Settled(job')
        <5>1. w = [worker EXCEPT !.pc = "off"]
          BY <3>1, <4>1 DEF Terminated
        <5> QED BY <1>5, <2>2, <4>1, <5>1
      <4>2. CASE ~Settled(job')
        <5>1. w = worker
          BY <3>1, <4>2 DEF Terminated
        <5> QED BY <1>5, <2>2, <5>1
      <4> QED BY <4>1, <4>2
    <3> QED BY <3>1, <3>2
  <2>4. CASE n + 1 > r.size \/ job.aborted
    <3>1. PICK why : why = "io-error"
      OBVIOUS
    <3>2. job' = Reject(job, why)
      BY <2>1, <2>4, <3>1
    <3>3. job.aborted \/ ~Sound(job.kind, worker'.input)
      <4>1. CASE n + 1 > r.size
        <5>1. r.length # r.size
          BY <1>6, <1>7, <2>1, <4>1
        <5>2. CoreEnd(r) = "io-error"
          BY <1>6, <5>1, EndFacts
        <5> QED BY <1>2, <2>1, <2>3, <5>2, SoundFacts
      <4> QED BY <2>4, <4>1
    <3>4. faults' \in Nat /\ why # "worker-failure"
      BY <1>2, <2>1, <3>1
    <3> QED BY <3>2, <3>3, <3>4, RefusedTrue
  <2>5. CASE ~(n + 1 > r.size \/ job.aborted)
    <3>1. PICK k \in Nat : k = n + 1 /\ k <= r.size
      BY <1>6, <1>7, <2>1, <2>5
    <3>2. PICK p : p = Percent("reading", k, r.size)
      OBVIOUS
    <3>3. p \in 0..20
      BY <1>6, <3>1, <3>2, ReadToFacts
    <3>4. Percent("reading", n, r.size) \in Int /\ Percent("reading", n, r.size) <= p
      <4>1. PICK o \in Nat : o = n /\ o <= r.size /\ o <= k
        BY <1>7, <2>1, <3>1
      <4>2. Percent("reading", o, r.size) \in 0..20
        BY <1>6, <4>1, ReadToFacts
      <4>3. Percent("reading", o, r.size) <= Percent("reading", k, r.size)
        BY <1>6, <3>1, <4>1, ReadToFacts
      <4> QED BY <3>2, <4>1, <4>2, <4>3
    <3>5. job' = Report(job, p)
      BY <2>1, <2>5, <3>1, <3>2
    <3>6. job'.percent = p /\ Same(job', job, {"percent"})
      BY <1>3, <3>5, SettleFacts
    <3>7. job'.state = "running" /\ job'.kind = job.kind
      BY <1>2, <3>6 DEF Same, Fields
    <3>8. worker'.pc = "inline-reading" /\ worker'.input = r /\ worker'.read = k
      BY <2>1, <2>3, <3>1, <3>7 DEF Settled
    <3>9. Underway(job', worker', box', failed)
      <4>1. k \in 0..r.size /\ job'.percent <= Percent("reading", k, r.size)
        BY <1>6, <3>1, <3>2, <3>3, <3>6
      <4>2. Given(job'.kind, worker'.input) /\ job'.kind \in Kinds \ {"none"}
        BY <1>3, <1>4, <1>5, <3>7, <3>8 DEF Underway
      <4> QED BY <3>8, <4>1, <4>2 DEF Underway
    <3>10. job.percent <= job'.percent /\ job'.percent \in Int
      BY <1>3, <1>7, <2>1, <3>3, <3>4, <3>6
    <3> QED BY <1>2, <1>4, <2>1, <3>7, <3>9, <3>10, RunsOn
  <2> QED BY <2>4, <2>5
<1>9. CASE InlineThrows
  <2>1. job' = Reject(job, "io-error") /\ Fault
    BY <1>9 DEF InlineThrows
  <2>2. faults' \in Nat /\ faults' > 0
    BY <2>1, FaultCounts
  <2>3. PICK why : why = "io-error"
    OBVIOUS
  <2> QED BY <2>1, <2>2, <2>3, RefusedTrue
<1>10. CASE InlineEnds
  <2>1. PICK whole : whole = [i \in 1..r.n |-> i]
    OBVIOUS
  <2>2. PICK v : v = [rows |-> whole, frames |-> whole, artifact |-> ArtifactText(r)]
    OBVIOUS
  <2>3. /\ worker.pc = "inline-reading" /\ faults' = faults /\ worker' = Terminated(job')
        /\ job' = IF r.length # r.size THEN Reject(job, "io-error")
                  ELSE IF job.aborted THEN Reject(job, "cancelled")
                  ELSE IF CoreEnd(r) # "ok" THEN Reject(job, CoreEnd(r))
                  ELSE Resolve(Report(job, 100), v)
    BY <1>5, <1>10, <2>1, <2>2 DEF InlineEnds
  <2>4. worker'.input = r /\ faults' \in Nat /\ job.kind = "session"
    BY <1>2, <1>5, <2>3, InputStays
  <2>5. PICK io, cancelled, end : io = "io-error" /\ cancelled = "cancelled" /\ end = CoreEnd(r)
    OBVIOUS
  <2>6. CASE r.length # r.size
    <3>1. job' = Reject(job, io) /\ io # "worker-failure"
      BY <2>3, <2>5, <2>6
    <3>2. ~Sound(job.kind, worker'.input)
      <4>1. CoreEnd(r) = "io-error"
        BY <1>6, <2>6, EndFacts
      <4> QED BY <2>4, <4>1, SoundFacts
    <3> QED BY <2>4, <3>1, <3>2, RefusedTrue
  <2>7. CASE r.length = r.size /\ job.aborted
    <3>1. job' = Reject(job, cancelled)
      BY <2>3, <2>5, <2>7
    <3> QED BY <2>4, <2>7, <3>1, RefusedTrue
  <2>8. CASE r.length = r.size /\ ~job.aborted /\ CoreEnd(r) # "ok"
    <3>1. job' = Reject(job, end)
      BY <2>3, <2>5, <2>8
    <3>2. ~Sound(job.kind, worker'.input)
      BY <2>4, <2>8, SoundFacts
    <3>3. end # "worker-failure"
      BY <1>6, <2>5, EndFacts
    <3> QED BY <2>4, <3>1, <3>2, <3>3, RefusedTrue
  <2>9. CASE r.length = r.size /\ ~job.aborted /\ CoreEnd(r) = "ok"
    <3>1. PICK p, k : p = 100 /\ k = Report(job, p)
      OBVIOUS
    <3>2. job' = Resolve(k, v)
      BY <2>3, <2>9, <3>1
    <3>3. k.percent = p /\ Same(k, job, {"percent"}) /\ IsJob(k)
      <4>1. Same(k, job, {"percent"}) /\ IsJob(k)
        BY <1>3, <3>1, ChangeFacts
      <4>2. k.percent = p
        BY <1>3, <3>1, SettleFacts
      <4> QED BY <4>1, <4>2
    <3>4. job'.state = "resolved" /\ job'.value = v /\ job'.kind = k.kind /\ job'.percent = k.percent
      BY <3>2, <3>3, SettleFacts
    <3>5. job'.kind = "session" /\ job'.percent = 100
      BY <2>4, <3>1, <3>3, <3>4 DEF Same, Fields
    <3>6. v = Whole("session", r)
      <4>1. ArtifactText(r) = "canonical"
        BY ArtifactIsCanonical
      <4> QED BY <2>1, <2>2, <4>1 DEF Whole
    <3>7. Sound("session", r)
      BY <2>9, SoundFacts
    <3>8. Answered(job', worker'.input, faults') /\ Settled(job')
      BY <2>4, <3>4, <3>5, <3>6, <3>7 DEF Answered, Settled
    <3>9. job.percent <= job'.percent /\ job'.percent \in Int
      <4>1. PICK o \in Nat : o = n /\ o <= r.size
        BY <1>7, <2>3
      <4>2. Percent("reading", o, r.size) \in 0..20
        BY <1>6, <4>1, ReadToFacts
      <4> QED BY <1>3, <1>7, <2>3, <3>5, <4>1, <4>2
    <3> QED BY <2>4, <3>8, <3>9, Settles
  <2> QED BY <2>6, <2>7, <2>8, <2>9
<1>11. CASE InlineBuilt
  <2>1. /\ worker.pc = "inline-building" /\ faults' = faults /\ worker' = Terminated(job')
        /\ job' = Delivered(IF r.buildable THEN Resolve(job, [of |-> "asked"]) ELSE Reject(job, "limit"))
    BY <1>5, <1>11 DEF InlineBuilt
  <2>2. worker'.input = r /\ faults' \in Nat /\ job.kind = "bundle"
    BY <1>2, <1>5, <2>1, InputStays
  <2>3. CoreEnd(r) = "ok" /\ r.same
    BY <1>4, <1>5, <2>1 DEF Underway
  <2>4. Sound("bundle", r) <=> r.buildable
    BY <2>3, SoundFacts
  <2>5. PICK v, why : v = [of |-> "asked"] /\ why = "limit"
    OBVIOUS
  <2>6. PICK k : k = (IF r.buildable THEN Resolve(job, v) ELSE Reject(job, why))
    OBVIOUS
  <2>7. IsJob(k) /\ k.kind = job.kind /\ k.percent = job.percent
        /\ (IF r.buildable THEN k.state = "resolved" /\ k.value = v ELSE k.state = "rejected" /\ k.why = why)
    <3>1. CASE r.buildable
      <4>1. k = Resolve(job, v)
        BY <2>6, <3>1
      <4>2. IsJob(k)
        BY <1>3, <4>1, ChangeFacts
      <4>3. k.state = "resolved" /\ k.value = v /\ k.kind = job.kind /\ k.percent = job.percent
        BY <1>3, <4>1, SettleFacts
      <4> QED BY <3>1, <4>2, <4>3
    <3>2. CASE ~r.buildable
      <4>1. k = Reject(job, why)
        BY <2>6, <3>2
      <4>2. IsJob(k)
        BY <1>3, <4>1, ChangeFacts
      <4>3. k.state = "rejected" /\ k.why = why /\ k.kind = job.kind /\ k.percent = job.percent
        BY <1>3, <4>1, SettleFacts
      <4> QED BY <3>2, <4>2, <4>3
    <3> QED BY <3>1, <3>2
  <2>8. job' = Delivered(k)
    BY <2>1, <2>5, <2>6
  <2>9. Same(job', k, {"downloaded"})
    BY <2>7, <2>8, DeliveredFacts
  <2>10. job'.kind = k.kind /\ job'.state = k.state /\ job'.value = k.value /\ job'.why = k.why /\ job'.percent = k.percent
    BY <2>9 DEF Same, Fields
  <2>11. v = Whole("bundle", r)
    BY <2>5 DEF Whole
  <2>12. Answered(job', worker'.input, faults') /\ Settled(job')
    <3>1. CASE r.buildable
      BY <2>2, <2>4, <2>7, <2>10, <2>11, <3>1 DEF Answered, Settled
    <3>2. CASE ~r.buildable
      <4>1. why # "worker-failure"
        BY <2>5
      <4> QED BY <2>2, <2>4, <2>7, <2>10, <3>2, <4>1 DEF Answered, Settled
    <3> QED BY <3>1, <3>2
  <2> QED BY <1>3, <2>2, <2>7, <2>10, <2>12, Settles
<1> QED BY <1>8, <1>9, <1>10, <1>11

LEMMA NextTrue ==
  ASSUME TrueInv, Next
  PROVE  Truthful
<1>1. Kept
  BY NextJob DEF TrueInv
<1> QED BY <1>1, BeginTrue, DeliverTrue, UnreadableTrue, CrashTrue, ReadTrue, AbortTrue, InlineTrue DEF Next, Works

\* The invariant, of all behaviours.
LEMMA TrueInvHolds == Spec => []TrueInv
<1>1. ASSUME TrueInv, UNCHANGED vars  PROVE TrueInv'
  <2>1. job' = job /\ worker' = worker /\ box' = box /\ faults' = faults
    BY <1>1 DEF vars
  <2>2. JobInv'
    BY <1>1, <2>1 DEF TrueInv, JobInv
  <2> QED BY <1>1, <2>1, <2>2 DEF TrueInv
<1>2. TrueInv /\ [Next]_vars => TrueInv'
  BY <1>1, NextTrue DEF Truthful
<1> QED BY <1>2, InitTrue, PTL DEF Spec

\* What a job answers is true of what it was given: a result is whole and of the input that was asked
\* for, in whatever pieces it came, and what can be answered is refused only after a failure of a worker,
\* a message or a read, or by the user (process-session.ts, case-processing.ts, evidence-bundle.worker.ts).
THEOREM AnswersAreTrue == Spec => []AnswerIsTrue
<1>1. TrueInv => AnswerIsTrue
  BY DEF TrueInv, Answered, AnswerIsTrue
<1> QED BY <1>1, TrueInvHolds, PTL

\* The progress a job shows never falls, from the first read to the last chunk, however many messages
\* are lost on the way (case-workspace.md, "Processing reports monotonic progress").
THEOREM ProgressNeverFalls == Spec => ProgressRises
<1>1. TrueInv /\ [Next]_vars => [job'.percent >= job.percent]_vars
  <2>1. ASSUME TrueInv, Next  PROVE job'.percent >= job.percent
    <3>1. Truthful
      BY <2>1, NextTrue
    <3>2. job.percent \in Int /\ job'.percent \in Int /\ job.percent <= job'.percent
      BY <2>1, <3>1 DEF Truthful, TrueInv
    <3> QED BY <3>2
  <2> QED BY <2>1
<1> QED BY <1>1, TrueInvHolds, PTL DEF Spec, ProgressRises

================================================================================
