# A TLA+ verification project for ReplayCase

ReplayCase captures telemetry (UDP datagrams through a local bridge process,
serial bytes through Web Serial), records it with evidence of how complete the
capture was, and replays, compares, stores, packages and verifies the recorded
sessions.  This directory holds TLA+ models of the parts whose correctness
depends on the order of events, TLC runs over small instances of them, and
TLAPS proofs of what holds for all instances.  Paths below are relative to the
repository.

## Inventory

### UDP capture bridge: `scripts/capture-bridge.mjs`, `scripts/udp-kernel-drop-counter.mjs`

One Node process, reached over loopback HTTP.

- State: `state`, `udpSocket`, `udpAddress`, `multicastMembership`, `capture`,
  `captureJournal`, the lease and request that own the capture, the kernel drop
  counter and its evidence, `startPromise`, `shuttingDown`, and per event
  stream a bounded queue.
- Operations: start, stop, status, event stream, shutdown; callbacks of the
  socket (bind error, listening, message, error, close) and of the counter.
- Hard: every operation has awaits, between which any callback or request may
  run; starts are retried with a nonce; stops wait for starts; close() stops
  what is running; the journal is bounded and its last slot is reserved.
- Correct when: one capture at a time, ended only by its owner, by close() or
  by its socket's failure; no socket leaks; leases go only to the request that
  began the capture; the journal is always one the client's parser accepts and
  never hides an error; each stop, start and shutdown ends.

### UDP bridge client: `src/capture/udp-bridge.ts`

- State: the event source, the pending start's nonce and settings, the lease.
- Operations: connect (waits for `hello`), start with recovery by nonce when
  the answer is lost, stop, status, disconnect.
- Hard: lost answers, a stream that delivers `status` events behind an answer,
  reconnection, strict parsing of every document.
- Correct when: a capture it began is never left without an owner, and it never
  stops or adopts one it did not begin (CONTRIBUTING.md:146).

### Capture dialog and preflight: `src/capture/CaptureDialog.tsx`, `capture-preflight.ts`

- State: the phase of the workflow, the recorder, the owned capture, datagrams
  that came before the start's answer, the journal last seen, the finalisation
  a failed save left behind.
- Operations: start, cancel while starting, preflight, record, stop and save,
  retry of the save, unmount.
- Hard: the counters of the bridge and of the recorder meet only after the
  event stream has drained; cancelled starts answer late; saving is a chain of
  awaits any of which can fail.
- Correct when: a saved session has every datagram the bridge counted or says
  it is incomplete; nothing is saved twice; a cancelled start leaves no capture.

### Capture recorder: `src/capture/recorder.ts`

- State: records, transport events, byte budgets, `eventLogComplete`, `finalized`.
- Operations: append, appendTransportEvent, appendTerminalTransportEvent, finalize.
- Correct when: the finalised document never exceeds the importer's limits, a
  full capture can be finalised, a failed finalisation can be repeated, and a
  receipt "verified" means that counters, events and provenance agree.

### Web Serial capture: `src/capture/web-serial.ts` and the assemblers

- State: port, reader, read task, stop task, handlers; an assembler's buffer.
- Operations: start, stop, replaceHandlers, the read loop; push and finish.
- Correct when: after a stop no chunk is delivered and the port is released;
  one end is reported; the assembler emits every byte once and in order.

### Libraries: `src/storage/session-library.ts`, `case-library.ts`, `session-storage.ts`

- State: IndexedDB stores shared by tabs; a settings document in localStorage.
- Operations: save, load, list, remove; save and remove of a case carry the
  hash of the revision the tab believes is stored.
- Correct when: no update of another tab is lost, no corrupt record is served,
  and what is reported as saved was stored.

### Worker processing: `src/processing/*`, `src/cases/case-processing.ts`

- State: of a request, whether it settled and the chunks received so far.
- Operations: request, progress, chunk, result, error, abort.
- Correct when: one settlement, a result only from all chunks in order, and
  nothing after a cancellation.

### Replay clock: `src/replay/ReplayClock.ts`

- State: snapshot, anchors, the frame handle, listeners.
- Operations: play, pause, seek, setRate, reset, destroy, the frame callback.
- Correct when: the offset only moves back by a seek, a reset or a replay from
  the end, a playing clock always has a frame scheduled, and it ends.

### Application shell: `src/App.tsx`, `src/main.tsx`

- State: the replay on screen, the library's list and status, the pending
  action, two modal dialogs, the gates that make an operation current.
- Operations: open a file, evidence or a saved session, complete a capture,
  save, remove, cancel; each is a chain of awaits.
- Hard: an operation may be superseded between any two awaits, by another
  operation or by a cancel, and must then neither show nor release anything;
  another window changes the same database.
- Correct when: the screen shows what was asked for last, nothing stays busy for
  an operation nobody will hear of, the list is what is stored.

### Domain: `src/domain/session.ts`, `bundle.ts`, `comparison.ts`, `case.ts`

- State: none; pure functions over parsed documents.
- Operations: validate a session and derive frames, buckets, diagnostics and
  incidents; build an evidence bundle of a range; align and compare two sources.
- Hard: the same facts are decided twice by independent code, once by the side
  that makes a document and once by the side that checks it.
- Correct when: whatever this program makes, it accepts, and with the same
  verdict, from whatever part of the session was sent.

### Verifier and receiver: `verifier/*.ts`, `src/receiver/*`

- State: the file being verified, notes of the receiver.
- Operations: verify a bundle or a case, make a receiver's document of it.
- Correct when: every bundle the builder makes is accepted, and a verdict
  "verified" is never more than the session deserves.

### Other parts

Capture profiles, the preflight's statistic, operator runtime, command line and
release tools: validation of one document, a proxy, or sequential scripts.

### Interaction

The dialog calls the client, the client calls the bridge over HTTP and listens
to its event stream; datagrams go socket, bridge, stream, dialog, recorder.  At
a stop three counters meet (bridge, browser, recorder) and the receipt says
whether they agree.  The recorder's document goes through the worker to the
session library.  From there a bundle goes to a receiver, who verifies it without
the session and may compare it with another.  The operator runtime embeds the
bridge and closes it.

## Plan

| order | modules | content | what it is compared with |
|---|---|---|---|
| done | `CaptureBridge` | the bridge process | `CaptureLifecycle` |
| done | `EventStream` | the event streams: write, queue, drain, overflow, shutdown | events in order from the hello on (`InOrder`) |
| done | `CaptureReceipt`, `BridgeLink`, `CaptureDesk`, `UdpCapture` | recorder and validator, client, dialog | `CaptureLifecycle`; what the bridge received (`truth`) |
| done | `SerialCapture` | Web Serial and its workflow | what the device sent (`truth`) |
| done | `CaseLibrary` | transactions of several windows | `CaseRegister`, a compare-and-set register |
| done | `SessionShell` | the window and the session library | what the user asked for (`asked`) |
| done | `WorkerJobs` | pages, workers and their messages | the whole answer of each input (`Whole`) |
| done | `Lists`, `SessionDocument`, `EvidenceBundle`, `EvidenceVerifier`, `SourceComparison`, `EvidenceDesk` | the way of evidence | the session itself |
| done | `BridgeProofs`, `CaseLibraryProofs`, `SessionShellProofs`, `UdpCaptureProofs`, `UdpRefusalProofs`, `SerialCaptureProofs`, `WorkerJobsProofs`, `EvidenceProofs` | theorems | |
| next | `ReplayClock` | the clock and its re-entrant listeners | a position that follows time |

Runs use two of everything that can conflict (clients, starts, windows, sources)
and the smallest capacity that both fills and does not fill.

## What is modelled

### CaptureBridge

The variables have the names of the bridge's own and one action stands for the
code between two awaits:

| action | code in `scripts/capture-bridge.mjs` |
|---|---|
| `StartCapture`, `JoinStart`, `RetryStart` | `startCapture` up to its await, by the state it finds |
| `BindFails` | `onInitialError` |
| `MembershipFails` | `onListening` when `addMembership` throws |
| `Listening` | `onListening` up to the await of the drop counter |
| `CaptureBegins` | `onListening` after it, and the answer to every waiting caller |
| `HandleDatagram`, `MarkSocketFailure` | the socket's `message` and `error` handlers |
| `StopCapture`, `StopResumes` | `stopCapture` up to its first await, directly or after the start it waited for |
| `FinishCounter` | after the drop counter's last sample: `socket.close()` |
| `StopCompletes` | after the socket's close event |
| `Close` | `close()` |

`AppendEntry`, `FinishJournal`, `SetError`, `Overflow`, `LeaveMulticast` are the
functions that write the journal.  A broadcast may find a stream with a full
queue: `Overflow` is then the journal entry that `writeSubscriber` appends; which
stream is full, and when, is the business of `EventStream`.
The continuation of an awaited start runs as a microtask, before any other
event: `Quiet` makes every other action wait for it.

Left out: timestamps, byte counts (they move with the datagram counts), the
text of errors, the HTTP layer with its tokens and origins, the parsing of
`/proc`.  A lease is the number of its capture, and a stop presents a lease that
was handed out; one that was not is refused without effect.  When the process
meets an unhandled rejection it calls `close()`, which the model has at any time.

### CaptureLifecycle

What the bridge promises of its captures: one after the other, counted upwards,
ended once with a verdict and a count no later event changes, except that
"clean" may be withdrawn (an error reported after the end marks the journal
incomplete).  `CaptureBridge!ImplementsLifecycle` instantiates it.

### EventStream

The subscribers of `/v1/events`.  `Broadcast` is `broadcast` with every
`writeSubscriber` it calls: a stream that is not blocked is written to, a blocked
one queues the event or, when its queue is full, is cut off with `bridge-error`.
Whether a write is refused (`response.write` returns false) is nondeterministic;
a refused response owes a `drain`.  `Drain` is `flushSubscriber` up to its loop
and `FlushStep` one turn of the loop; as the loop does not await, nothing else
runs while a stream is unblocked with a queue (`NoneFlushing`).  The bridge's one
`shuttingDown` is `ending` here: the names of the two modules differ, so that both can be
extended by `BridgeProofs`.  `Join` is the handler,
`Disconnect` and `StreamCloses` are the reader leaving and the response's
`close`, `BeginShutdown` and `EndStreams` the two ends of `close()`.

An event is its number and weighs `Bytes(n)`; the constant `Total` gives the bytes
of the first n payloads, so that what a queue of consecutive events weighs is
a difference.  `joined` and `written` are history variables: where a stream began
and what it was given.  The hello counts as the beginning, not as an event.
Left out: payloads, headers, the journal entry of an overflow (in
`CaptureBridge`).  What a reader has in Node's own buffer counts as given.

### CaptureReceipt, BridgeLink, CaptureDesk, UdpCapture

UDP recording, from the operator's click to the saved session, in four layers.

- `CaptureReceipt` has no state: the recorder's limits (`AppendFault`), the budget a
  transport event may use, `finalize` with the receipt it builds, and the
  conditions `validateSessionDocument` puts on the result.  A record and an event
  each cost one unit of the file budget.
- `BridgeLink` is `udp-bridge.ts` and the bridge as a client sees it.  Requests are
  answered over one channel (`call`), events arrive over another (`sse`), so an
  answer may overtake what was sent before it.  `owned` is the lease in memory,
  `recovery` the nonce in session storage.  Faults: a request or answer is lost, the
  stream is cut, the socket fails, the bridge is restarted, another operator takes
  the bridge, the page is reloaded.  A request reported as lost is not served later.
- `CaptureDesk` is what the dialog does the same way for both transports: event
  offsets, freezing, the pause after a refused append, finalisation and its retry.
- `UdpCapture` is the dialog: `d.phase` is its phase, `d.pc` what it awaits, and an
  action what it does between two awaits (`StartAnswered`, `GotStop`, `Drain`, ...).

`truth` records what each capture really received; no code reads it.  Left out: a
second dialog of the same page that is opened while a dismissed one is still
canceling, the expiry of a recovery record, a start answered with other settings,
finalisation without adapter evidence.  Every datagram has one length.

### SerialCapture

The same workflow over `web-serial.ts`: choosing, opening and closing a port, the
read loop with its errors, the change of handlers at the boundary of preflight and
recording, the assembler, dismissal while the device chooser is open.  Bytes are
the times at which they arrived.  An assembler is any way to cut the bytes it holds
into records in order; which cuts is the device's choice, so that every framing rule
is covered and none is examined.  The preflight's assembler and the recording's are
one buffer, reset at the boundary.  `stop()` runs synchronously up to
`reader.cancel()`, so no chunk is taken after the duration is frozen.  Left out: the
20 second timer that fires between the opening of the port and the next rendering.

### CaseLibrary, CaseRegister

`case-library.ts` as several windows of the workspace use it on one case.  An action
is what happens between two awaits of a transaction or of the verification worker;
the commands lock their window, so what the worker does in between is one step.  A
revision is its own hash.  The stored record may be damaged from outside (`Damage`).
`CaseRegister` is what the library promises: one register, changed by compare-and-set.

### SessionShell

One window: `ops` holds an operation in flight from its first await to its last, with
its place on the two gates (`lib`, `ses`); `Begin` supersedes what ran there.  `screen`,
`entries`, `status`, `action`, `dialog`, `evidence`, `confirming` and `autosave` are the React
state of the same meaning, `store` and `notes` what is persistent.  Another window, or
the browser, changes the library at any time (`OtherWindow`).  An operation that was
cancelled runs on and ends without effect.  "unavailable" is an error status; the
comparison view and the capture dialog before it completes are left out.

### WorkerJobs

The five kinds of jobs (a replay, a bundle, a comparison, a case, a received bundle), one at a
time because their closures share nothing.  `job` is the call's closure and what became
of its promise, `worker` what the worker is doing, `box` the messages on their way.
Messages keep their order, and those of a terminated worker may still arrive.  Faults:
a read throws, a worker crashes, a message cannot be read.  Without workers the page
reads and derives a replay itself, and builds a bundle without a way to cancel it.

### Lists, SessionDocument, EvidenceBundle, EvidenceVerifier, SourceComparison, EvidenceDesk

The way of evidence.  All but the last have no state; an operator stands for a function:

- `Lists`: filter, reduce and loops over arrays, as recursive functions over prefixes, in which
  form they can be reasoned about.
- `SessionDocument`: `validateSessionDocument` and what `parseSession` derives (frames,
  one-second buckets, diagnostics, incidents, losses by sequence and by drop counter).
- `EvidenceBundle`: `buildEvidenceBundle`, the artifacts of a range and their counts.
- `EvidenceVerifier`: every rule of `verifyEvidenceBundleBytes` on the content of a bundle,
  and the receiver's document made of it.
- `SourceComparison`: `resolveAlignment`, `comparisonAreas`, `buildMetrics`,
  `overallAssessment`, the finding and `assertFindingSemantics`; `validateCaseContent` for a case
  of two bundles and a comparison.

`EvidenceDesk` composes them: each of two sides opens a session, builds a bundle, has it
received, and the two are compared.  The two sides of each decision are translated
separately, from the file that makes it, and the properties say that they agree.

A bundle is its content and its own identity: bytes, CSV, checksums, byte limits and the
entries of the journal are left out, and a receiver has the decoder.  A frame is what its
record decodes to; a failed checksum is one kind of failed integrity.

## Runs

| run | shows |
|---|---|
| `capture_bridge` | two starts with two nonces and two settings, two stop requests, a shutdown, datagrams, socket errors, failing multicast leaves, unavailable drop counters and full streams in every order keep all promises of the bridge |
| `event_stream` | two readers join, block, drain, leave and overflow during five broadcasts of different sizes and a shutdown: order, limits and ends hold |
| `udp_capture` | a preflight and a recording with cancel, stop, drain, finalisation and retry, and one fault anywhere: what is saved as verified is whole |
| `serial_capture` | the same over Web Serial with two faults: the saved session is true, can always be finalised, and no port stays open |
| `case_library` | two windows, three revisions and one damage: no update is lost, and the library is a compare-and-set register |
| `session_shell` | four operations on two replays, whatever is stored at first, and a change by another window: the screen, the list and the busy controls are right |
| `worker_jobs` | each kind of job with every outcome of its input and two faults: answers are whole, settle once and always come |
| `evidence` | bundles of 18,000 sessions of five series are built and verified and, for one series, compared: nothing the program makes is refused or overstated, and every loss is counted once |
| `failed_start_bind`, `early_socket_error`, `refused_finalization`, `removal_leaves_context` | violations, see Findings |

What the properties mean:

- `capture_bridge`: `JournalParses` (the journal is one `parseCaptureJournal` accepts);
  `SocketsOwned` (no socket leaks, a capturing bridge holds its own, one start at a
  time); `LeaseOnlyToStarter`; `MeasuredEvidenceIsOwn`; `EndedByOwner`; `ImplementsLifecycle`;
  liveness `CommandsEnd` (each stop, start and shutdown ends).
- `event_stream`: `InOrder` (each event once, in order, none missing from an open
  stream); `QueueBounded` (by the events queued, not by the counter); `EndsAreEarned` (a
  stream ends with an error or the shutdown's status, and only a slow one is cut);
  liveness `EventArrives`.
- `udp_capture`: `VerifiedIsWhole` (a session saved as verified holds every datagram its
  capture received, and the capture ended cleanly); `DoubtIsRecorded` (what the operator
  was warned of is in the receipt); `RecordingIsFresh` (nothing of a preflight is
  recorded); `CaptureIsAttended` (no capture without somebody who can stop it);
  `RefusalsKnown` (the four ways a capture with records is refused by its own validator);
  `BridgeAsPromised` (the bridge of this model implements `CaptureLifecycle`, as the
  real one does by `capture_bridge`).
- `serial_capture`: `SavedIsTrue`, `RetainedCanBeFinalized`, `NothingLeftOpen`.
- `case_library`: `NoLostUpdate`, `DamageIsKept`, `ImplementsRegister`.
- `session_shell`: `BusyHasOwner`, `ListIsTrue`, `OnlyWhatWasAsked`, `StoredIsKept`.
- `worker_jobs`: `AnswerIsTrue`, `CancelledYieldsNothing`, `SettledIsFinal`, `ProgressRises`;
  liveness `EveryJobEnds` (a job whose answer cannot be read is its one exception, and only
  for the clients that do not listen for `messageerror`).
- `evidence`: `BundleVerifies` (every bundle is accepted, with the verdict the whole
  session deserves); `FindingReproduces` (a finding passes its checks, is mirrored when
  the sources are exchanged, is reproduced by a case from its bundles alone, and
  complete bundles compare as their sessions do); `LossIsCountedOnce` (buckets and incidents
  count each loss once; they differ by the drops `Unseen` names and by nothing else).

### Bounds

- `MaxStarts = 2`: the second start meets everything the first one left behind
  (journal, address, lease, evidence, late stops); nothing in the code looks
  back further than one capture.
- `MaxEntries = 3` instead of 128: the journal fills with one error, so that
  the reserved terminal slot and omission both matter.
- `MaxDatagrams`, `MaxSequence` bound the counters only: `MaxSequence` stops
  streams from overflowing for ever, never an error.
- Two addresses and two settings, one of them multicast, so that a bind address
  can differ from the previous one.

- `event_stream`: `MaxQueueEvents = 2` and `MaxQueueBytes = 3` with payloads of one
  and two bytes, so that a queue can be full by either limit; `MaxEvents = 5` lets
  a stream fill, drain in part, be refused again and fill once more.

- `udp_capture`: two captures, two nonces and two datagrams let a recording follow a
  preflight and let what is late belong to either; one fault, because each is handled on
  its own path; limits of one record, three events and two units of time, so that each
  limit of the recorder is met.  It stops where the operator may stop.  One of the four ways of
  `RefusalsKnown`, a gap noted by a datagram that arrives after the duration was frozen, takes three
  datagrams: the theorem covers it (an instance of three datagrams and one unit of time, too
  large for the listed run, reaches it).
- `serial_capture`: two faults, since after a read error the loop reads on; chunks of two
  bytes, so that a record may end inside one.  Deadlock is checked.
- `case_library`: three revisions, so that a base can be stale by two; symmetric windows.
- `session_shell`: four operations in two slots over two replays, each stored at first or
  not; the slots are symmetric.  It may stop, because the user may.
- `worker_jobs`: five records in chunks of two, so that there is a partial last chunk.
- `evidence`: durations of four seconds of one unit, sequence numbers modulo 16, up to
  four records.  `udp` has every receipt the recorder could have reached on two records,
  `plain` serial, file and first-version sessions, `kinds` every course of RSSI and
  integrity over four records, and `paired` seven sessions of which every two are compared.
  Bundles of `udp` are built over four ranges and with every group of artifacts, those of `plain`
  and `kinds` over every range and with a choice of groups.  Of `losses` no bundle is built: its
  sessions have every course of sequence numbers with one course of the drop counter, and every
  course of the counter, absent ones included, with one of the sequence, and are asked about
  every range.  Sessions are compared before bundles are
  built of them.  The steps are functions of the documents, so the desk simply stops.

### Fairness

Weak fairness on what the runtime owes the process: a bind ends in `listening`
or `error`, the drop counter's file reads resolve, a closed socket emits
`close`, continuations run.  None is assumed of clients, senders or failures,
so a capture need never be stopped.  Only the liveness properties use it.
In `event_stream` the fairness of `Drain` is an assumption about the reader: one
that stays and reads gives the response its `drain`.  The bridge has no timeout
for a reader that stays and does not read; such a stream waits until its queue is
full or the bridge ends.

In `worker_jobs` a worker that is not terminated goes on and its messages arrive:
weak fairness of `Works` and `Deliver`.  The other runs state no fairness: what a user,
a device or a network owes nobody is not assumed.

`EarlySocketErrors` says whether a socket may fail while its start awaits the
drop counter.  The bridge does not survive that (`early_socket_error`), so the
other runs and the theorems that need it exclude this window.

## Findings

1. `failed_start_bind`: a bind error clears `udpAddress` (a membership error
   replaces it) and keeps the earlier capture's journal.  The client refuses
   every such status, so after a failed start it cannot reconnect until the
   bridge is restarted.
2. `early_socket_error`: `onListening` does not look again at the socket after
   its await, and the bridge is left "capturing" with nothing to stop.
3. `refused_finalization`: a capture that ran past the longest session is capped, its
   journal is not, and the validator refuses the document on every retry.
4. `removal_leaves_context`: a removal superseded while it commits removes the replay but
   neither clears its notes and ranges nor warns.
5. Stated by a property that holds, `LossIsCountedOnce` in `evidence`: where the record right
   before a range carries no drop counter and an earlier one does, `missingFramesInRange`
   (`src/domain/session.ts:1127`) loses the drops that `createMetricBuckets` (860-866) counts, and an
   incident reports fewer missing frames than its seconds do.  The property says which (`Unseen`)
   and that there is no other difference between frames whose device time comes with their
   sequence number (see below); its second mutant begins a range with the counter the
   buckets carry, and shows that the run reaches such sessions.  It takes an imported session
   of which only some records carry the counter, which the format admits.

Differences met while modelling that no run shows:

- The verifier's CSV reader refuses a carriage return (`verifier/evidence-verifier.ts:513`)
  that the builder quotes.
- A session may hold 200,000 records; a manifest counts at most 100,000, so a bundle
  of a longer one cannot be built.
- The event code "provenance-incomplete" and the diagnostic "transport-provenance-incomplete"
  get the same evidence id.
- Two observations of kernel drops in a document made before provenance was recorded pass the
  session's validator, and the verifier demands exactly one.  This program makes no such
  document.
- `createMetricBuckets` also wants a device time of a frame with a sequence number;
  `missingFramesInRange` does not.
- A Cancel during the await of the preflight's stop is forgotten when the dialog clears
  its state (`src/capture/CaptureDialog.tsx:1798`).
- `close()` during a stop ends the event streams with the status of a capture that has not
  ended (`scripts/capture-bridge.mjs:884`).
- Without a worker a cancel during the reading of a file is reported as an I/O error.
- An answer that cannot be read leaves every job but a case's waiting until it is cancelled.

## Proofs

TLAPS proves, for all values of the constants that satisfy the named assumptions
(`BridgeAssumption`, `LinkAssumption`, `StreamAssumption`, ...), every safety and action
property of `capture_bridge`, `event_stream`, `case_library`, `session_shell`, `udp_capture`,
`serial_capture`, `worker_jobs` and `evidence` with their refinements:

| module | theorem | property |
|---|---|---|
| `BridgeProofs` | `TypeCorrect` | `TypeOK` |
| | `LeasesAreOwn` | `LeaseOnlyToStarter` |
| | `SocketsAreOwned` | `SocketsOwned` |
| | `OnlyOwnersEnd` | `EndedByOwner` |
| | `JournalAlwaysParses` | `JournalParses` |
| | `BridgeImplementsLifecycle` | `ImplementsLifecycle` |
| | `MeasuredDropsAreOwn` | `MeasuredEvidenceIsOwn` |
| | `StreamTypeCorrect` | `StreamTypeOK` |
| | `StreamsInOrder` | `InOrder` |
| | `QueuesBounded` | `QueueBounded` |
| | `StreamEndsAreEarned` | `EndsAreEarned` |
| `CaseLibraryProofs` | `Typed` | `TypeOK` |
| | `UpdatesKept` | `NoLostUpdate` |
| | `DamageStays` | `DamageIsKept` |
| | `LibraryIsRegister` | `ImplementsRegister` |
| `SessionShellProofs` | `BusyIsOwned` | `BusyHasOwner` |
| | `ShownIsAsked` | `OnlyWhatWasAsked` |
| | `StoredStays` | `StoredIsKept` |
| | `ListIsStored` | `ListIsTrue` |
| `UdpCaptureProofs` | `LinkKeepsPromises` | `BridgeAsPromised` |
| | `DialogIsTyped` | `TypeOK` |
| | `NothingIsMissing` | `VerifiedIsWhole` |
| | `DoubtIsKept` | `DoubtIsRecorded` |
| | `RecordingsAreFresh` | `RecordingIsFresh` |
| | `CapturesAreAttended` | `CaptureIsAttended` |
| `UdpRefusalProofs` | `RefusalsAreKnown` | `RefusalsKnown` |
| `SerialCaptureProofs` | `SerialTypeOK` | `TypeOK` |
| | `PortIsClosed` | `NothingLeftOpen` |
| | `SavedSerialIsTrue` | `SavedIsTrue` |
| | `SerialCanBeFinalized` | `RetainedCanBeFinalized` |
| `WorkerJobsProofs` | `SettledStays` | `SettledIsFinal` |
| | `NothingAfterCancel` | `CancelledYieldsNothing` |
| | `AnswersAreTrue` | `AnswerIsTrue` |
| | `ProgressNeverFalls` | `ProgressRises` |
| `EvidenceProofs` | `BundlesVerify` | `BundleVerifies` |
| | `LossesAreCountedOnce` | `LossIsCountedOnce` |
| | `ComparedRangesAreCited` | part of `FindingReproduces` |
| | `FindingsAreMirrored` | part of `FindingReproduces` (`ExchangeMirrors`) |
| | `FindingsReproduce` | `FindingReproduces` |
| | `FindingsAgree` | part of `FindingReproduces` (`FindingHolds`) |

The theorems about `CaptureBridge` but the first two assume `EarlySocketErrors = FALSE`: the run
`early_socket_error` shows that with an early error a
capturing bridge has no socket.  Type correctness and the leases need no such assumption.

The argument about the bridge has three layers, each inductive on top of the one before.

- `TypeInv` is `TypeOK` with two facts: the request of every start that was
  accepted is known (else the address a socket is bound to has no range), and a
  capture with a known request has a lease.  `LeaseInv` adds that waiting callers
  and the owner have the nonce of their start.
- `ControlInv` says who holds the socket.  None of the properties is inductive
  alone: that a capture is open exactly while the bridge is capturing or stopping
  needs that the start in flight is the one awaited, that at most one stop is past
  its await and only while the bridge is stopping, and that between the end of
  a start and the stops that awaited it nothing else runs (`StopControl`).
- `BridgeInv` adds the journal.  Its invariant is stated for any journal and
  count (`Valid`), every operator that writes a journal is shown to keep it
  (`AppendValid`, `FinishValid`, ...), and `Valid` is stronger than what the
  client checks: sequence numbers stay below the next one, and the last slot
  stays free until the end.  Each action is then one of four steps on capture and
  journal (`Keeps`, `Receives`, `Ends`, `Begins`), from which both the invariant
  and the refinement follow.  `StartOrder` gives the abstract specification
  its increasing capture numbers.

The argument about the streams has one inductive invariant, `Inv`, about one
stream at a time: what it was given and what it has queued are runs of
consecutive events (`Run`), the second following the first, and an open stream's
byte counter is the difference of two totals (`Open`).  `QueueBounded` is not
inductive without the counter's exact value, and the value needs the order.  The
lemmas `OpenWrite`, `OpenQueue` and `OpenFlush` are the three ways one stream moves;
that an event written directly finds an empty queue comes from `NoneFlushing`.

The argument about the case library has one inductive invariant, `Inv`, in four parts
beside `TypeOK`: `StoreInv` (what is stored was built, and counted in `past`), `TxInv` (the
open transaction found in the store what it expected, and nothing has changed since),
`WindowInv` (the revision a window takes to be stored is the open one, or one it was
edited from) and `OpInv` (what each phase of an operation has read).  `NoLostUpdate` alone is
not inductive: that the base of a save is still stored when it commits is known only
because the transaction checked it and is exclusive.  For the refinement, the call of a
window is its operation and a transaction whose window has left is a call given up
(`GivenUp`); every action is a step of the register that asks, holds, fails or ends, or
a stutter (`HoldStep`, `FailStep`, `EndStep`).

The argument about the window has one inductive invariant, `Inv`: the gates (`GateInv`: what is
current is of a kind that begins there, and one operation at most is the latest), the
modal dialogs, which exclude each other and the first screen (`ModalInv`), and the latest
operation, which is the one shown and asked for (`LatestInv`).  `BusyHasOwner` alone is not
inductive: an operation may begin only where a dialog or the first screen waits for
nothing (`FreeScreen`), and that is known only of all three together.  `KeepInv`, `EndInv`,
`EndLatestInv`, `BeginInv` and `PersistInv` are the ways a step changes the operations; every
action is one of them.  `ShellAssumption` adds that the screens without a replay are no replay.

The list needs a second invariant, `ListInv`: an operation that is heeded knows what is stored
(`Knows`), and a list shown as ready differs from the store at most by the change that such an
operation has under way (`Underway`).  It holds until another window changes the library or an
operation that has changed it is superseded (`Lost`), which is what `ListIsTrue` excuses.

The argument about a UDP recording has two invariants.  `UdpInv` is about the channel between
page and bridge: `LifeInv` ties the bridge to what became of its captures (`truth`), and every
action begins, counts in, ends or leaves alone the latest of them (`BeginStep`, `SyncStep`,
`QuietStep`), which is the refinement; `AttendInv` is `NoOrphan` with what makes it inductive, that a
start in flight names the stored nonce and that an answer which lets the client drop the nonce is
still true when it is read.  `WholeInv` adds what the page is told and what it makes of it:

- `HonestInv`: every status on the stream or in an answer tells the truth (`Honest`): a clean
  journal is that of a capture that ended cleanly, with as many datagrams.  What became of a capture
  stays (`Keeps`), so a late status is as true as a prompt one (`TruthfulStays`).
- `PhaseInv` lists the ten situations of the dialog; the other parts are stated in their terms.
  `JournalInv` says that the journal it keeps is of the capture it owns, `FreshInv` that a recording
  asks with a nonce the bridge does not know, so that the capture is new, `AttendedInv`
  where the bridge is, without faults, in every situation.
- `DoubtInv`: whatever was noticed (`Suspect`) is in the log, or the log is marked incomplete
  (`Doubtful`), through full logs, full buffers and paused recorders (`Stage`, which every input of
  the dialog keeps); and as long as no gap was noticed the datagrams accepted are the first of
  their capture (`Counted`).  Finalisation keeps it (`Grown`, `DoubtGrows`), and what is verified has no event
  and as many records as a clean journal says (`VerifiedFacts`).  `VerifiedIsWhole` alone is nowhere
  near inductive: it speaks only of the last step.

The dialog's loops over buffered datagrams and events are recursive functions; that they exist
and what they keep is proved by induction on their length (`NatMin`, `FlushExists`,
`NotingExists`).

Which captures their validator refuses is a third invariant on top, `RefusalInv`.  `FinInv` is what it
is for: a refused capture passes every check of the validator but those `Excused` names.  That is a
fact about finalisation alone (`ClosedFacts`, `AttemptRefused`): what finalize appends says each thing
once and exactly when it is so, provided the log it finishes has no event at or past the capture's
end but a gap's (`Log`, `LogCloses`).  `LogInv` keeps it so: an event is noted at an offset before
`Reach`, the end as the dialog knows it, which only grows until it is frozen.  One thing could put an event
past it: the offset of an event is never less than the duration last told, and a status of another
capture tells a longer one (`Stale`).  `QueueInv` says why that does no harm: the bridge sends a
status of the capture that is open before its datagrams (`Fresh`, `Turned`), so that a dialog which is
behind is told of its own capture before the next datagram of it (`Preceded`), and while it listens
every error is fatal (`FatalOnly`) and freezes the duration before it is noted.  Every step of
the bridge and the network sends a datagram of the open capture, something harmless, or such a
status (`SseMoves`, `QueueMoves`).  An earlier form of `RefusalsKnown` had three ways;
the attempt to prove it showed the fourth, which takes one datagram more than the run has.

The argument about a serial recording follows the bytes: each one the device sent since the
recording began is in a record or held back by the assembler (`Tally`), unless the log has an event or is
marked incomplete (`Doubtful`).  This is shown of any way to cut a chunk into records.  `EventsOk` keeps
the events of the log in order and before the end, so that what finalisation appends completes a
document the validator accepts (`AcceptedFacts`).

The argument about the jobs has two invariants.  `JobInv`: a job that does not run has no worker and
does not listen, and one that cannot be stopped is a bundle built on the page.  Every action makes the
job proceed or leaves it alone (`Proceeds`, `Kept`).  `TrueInv` follows the messages on their way: what
they report never falls below what the job shows (`Rises`), each says what is true of the input
(`AllOk`), and one after the other they lead the page from what it has to the whole answer (`Leads`).
For a case, what the page has is the bundles so far, all complete but the last (`Holds`).  For a replay
`Leads` is given up when a message is lost; the page then refuses the chunk that
does not fit.  That each worker's script starts with these three facts is proved part by part:
percentages climb (`CoreClimbs`, `CaseClimbs`), chunks follow each other (`ChunkFacts`), a bundle's
pieces add up to its rows (`RowsLead`, `BundleLeads`, `BundlesLead`).  Statements about flattened and
recursive sequences are proved by induction on their length, from the least number of a set (`NatMin`).

The argument about bundles has a short invariant and a long operator lemma.  `DeskInv` says that what a side
holds was made of what it held before: its session by `ParseSession` of an accepted document, its bundle
by `BuildEvidenceBundle` of that session, what was received by `Verifies` of that bundle.  The lemma
`BundleIsVerified` says of every accepted document, range, choice of artifacts and list of marks that the
bundle passes.  It needs what the validator demands (`RowsFacts`, `EventsFacts`, `LiveFacts`, `UnassessedFacts`,
`JournalFacts`), and each condition of the verifier is then a lemma of its own, in the order of the
verifier: totals and order of the records, the diagnostics and their ids, the marks in their order, the
receipt and its events (`ReceiptVerifies`), the endpoints (`EndpointsVerify`), the journal's codes and the
drop counters (`UdpProvenanceVerifies`).  The validator looks at the whole session, the verifier at the
part sent; most lemmas say what a filter keeps of a fact about the whole.

Filters, sums and loops over sequences are recursive functions (`Lists`).  Each is described by its run, the
function from the length of a prefix to what the loop holds after it (`IsTaken`, `IsTotal`, `LinkNextTurns`,
...), and a fact about a run is proved by induction on the set of lengths at which it holds
(`SetInduction`).  That diagnostics have different ids, for one, needs to know of the loop over buckets
that a type of event is found at most once per second and dated back by a constant (`LinkFound`).

`EvidenceAssumption` says what documents, marks and ranges can be asked about.  It is what the schemas of
`src/domain/types.ts` and `src/domain/evidence-contract.ts` admit (numbers that are not negative, the
scope of each type of event, the states of a journal), and three facts no schema states: the frames
of one decoder all have a sequence number or none has; marks have different ids (they are random); and a
document without provenance has at most one event about kernel drops, because the recorder appends it
once.  The last is needed: of two such events the validator of such a document asks nothing
(`src/domain/session.ts:291`), and the verifier demands exactly one.

The argument about losses compares three loops over the frames of a session: the one that fills the buckets
(`Bucketed`) and those that count what a range misses (`SkippedNext`, `DroppedNext`).  After every prefix they
know the same and have counted the same, the first over all its buckets (`TurnsAgree`, `CountersEnd`).  A range
is a run of the last two between two cuts.  It begins with the sequence number the loop over all frames knows
there (`PrecedingKnows`), so it adds exactly what that loop adds from there on (`SkipsOfPart`).  The drop counter
it begins with is that of the record before it, and where that record has none, what the loop over all frames adds
at the first counter inside the range is `Unseen` (`DropsUnseen`): with it every range is accounted for
(`DropsAccount`, `RangeCounts`).  A bucket, turn by turn, has what its loop gained between the two ends
of its second (`SecondTurn`, `SecondsAccount`), and the second is such a range (`SecondsAgree`).  Over the
whole session the larger of two sums is the sum of the larger of each two exactly where one side is nowhere
below the other (`LargerSums`).  One fact of the model is needed that a reader may miss: a frame whose
integrity fails counts as untrusted in both loops only because the frames of one decoder all have a sequence
number or none has (`SkipsKnow`).  Healthy seconds are sums over a filter of a filter
(`NestedSum`) and correspond one to one to the healthy buckets (`HealthyAgree`).

The argument about comparisons begins with algebra: overlap, areas and the set of metrics are
symmetric in the two sources (`AreasExchanged`), a direction and its assessment are
mirrored (`DirectionExchanged`, `AssessmentExchanged`), hence the whole result
(`CompareExchanged`) where every value is a ratio or missing (`Measured`).  `FindingsAgree` says that the
checks of a finding, which see its counts only, decide what the comparison decided from its sources; it assumes
of each input what the checks demand (`InputHolds`) and that the counts of a metric are those of its input.

That the sources of the program are such that this applies is the rest.  `IsComparable` says what a source is:
a range within its duration, sequences of records, frames and diagnostics whose fields are numbers, and nothing
in the parts it does not have.  Sessions and received bundles are (`SessionIsComparable`, `ReceivedSource`),
and findings of such sources satisfy the hypotheses above (`FindingIsSound`).  The invariant is `FoundInv`
on top of `DeskInv`: the sources a finding was made of are still there (`FoundSource`), and it is
what `CompareSources` makes of them by some alignment (`FoundOf`).  A case knows only the alignment the
finding states, which is the resolved one.  Resolving that again gives the same ranges and anchors
(`ResolvedAgain`), so the comparison is the same.  That bundles which leave nothing out compare as
their sessions is not an identity: a bundle states its diagnostics in a form of its own.  `Equivalent` says
what remains equal of them (order, times, severity), `Sent` what a bundle keeps of the source its session
makes, and `SameEvidence` is all that `CompareSources` depends on (`WholeCompares`).

Only model-checked are the liveness properties (`CommandsEnd`, `EventArrives`,
`EveryJobEnds`), which need fairness and ENABLED.

## What is not modelled

- The replay clock and its listeners: one window, no storage, no messages.
- Capture profiles and the preflight's statistic, which decide nothing over time.
- The operator runtime, a proxy and a launcher, and the command line and release
  tools: sequential scripts.
- Of the modelled parts: the HTTP layer of the bridge, parsing and formatting (JSON, CSV,
  ZIP, `/proc`, payloads), byte limits, forms, layout and wording; each section above
  names what else it leaves out.
