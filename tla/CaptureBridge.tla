---------------------------- MODULE CaptureBridge ----------------------------
(***************************************************************************)
(* The UDP capture bridge (scripts/capture-bridge.mjs): one Node process   *)
(* that owns at most one UDP socket, records one capture at a time and     *)
(* keeps a bounded lifecycle journal of it.  Control clients start and     *)
(* stop captures over HTTP; datagrams, socket errors, the resolution of    *)
(* the kernel drop counter and the process shutdown interleave with them   *)
(* at every await of the code.                                             *)
(*                                                                         *)
(* A start is an operation: it creates one socket and, if it succeeds, one *)
(* capture, and all three share the operation's number.  Secrets are       *)
(* abstracted to what they identify: the lease of a capture is its number. *)
(* Timestamps, payload bytes and the text of errors are left out.          *)
(*                                                                         *)
(* Every broadcast may find one event stream whose queue is full; that     *)
(* stream is closed and the fact is journalled (writeSubscriber).          *)
(***************************************************************************)
EXTENDS Naturals, Sequences, FiniteSets

CONSTANTS
  Nonces,         \* requestNonce values the control clients send
  Keys,           \* bind settings of a start request (its canonical key)
  Addresses,      \* addresses a socket can be bound to
  BindsTo,        \* the addresses the settings of each key can be bound to
  MulticastKeys,  \* the keys that join a multicast group
  Stoppers,       \* control clients' stop requests in flight
  Shutdown,       \* the caller standing for close()
  MaxStarts,      \* bound: start operations in a behaviour
  MaxDatagrams,   \* bound: datagrams of one capture
  MaxSequence,    \* bound: journal sequence numbers broadcasts may reach
  MaxEntries,     \* MAX_CAPTURE_JOURNAL_ENTRIES
  EarlySocketErrors \* whether a socket may fail while its start is awaiting
                    \* the kernel drop counter's first sample

Ops == 1 .. MaxStarts
Callers == Stoppers \cup {Shutdown}
NoAddress == "no address"

ASSUME BridgeAssumption ==
  /\ MaxStarts \in Nat /\ MaxDatagrams \in Nat /\ MaxSequence \in Nat
  /\ MaxEntries \in Nat /\ MaxEntries >= 2
  /\ BindsTo \in [Keys -> SUBSET Addresses]
  /\ NoAddress \notin Addresses
  /\ MulticastKeys \subseteq Keys
  /\ Shutdown \notin Stoppers
  /\ EarlySocketErrors \in BOOLEAN

VARIABLES
  state,                \* idle, starting, capturing, stopping, stopped, error
  udpSocket,            \* the operation whose socket it is; 0 is null
  udpAddress,
  multicastMembership,  \* whether a group is joined
  capture,              \* [id, datagrams, ended]; id 0 is null
  captureJournal,       \* captureId 0 is null
  captureOwner,         \* captureLease, captureRequestNonce, captureRequestKey
  kernelDropEvidence,   \* [source, counter]: whose counter it came from
  udpKernelDropCounter, \* the operation that made the counter
  startPromise,         \* the start operation awaited; 0 is null
  phase,                \* per operation: how far its callbacks have come
  request,              \* per operation: the nonce and key of its request
  sampled,              \* operations whose counter has its first sample
  sockets,              \* sockets that are open
  waiters,              \* <<nonce, operation>>: callers awaiting a start
  granted,              \* <<nonce, capture>>: leases returned to callers
  pc,                   \* per stop caller: the await it is at
  claim,                \* per stop caller: the lease it presented
  held,                 \* per stop caller: the operation it waits for, then
                        \* the socket it is closing
  shuttingDown,
  shutdownActive,       \* close() found a capture in progress
  finalStatus           \* what close() sent last to the event streams

bridgeVars == <<state, udpSocket, udpAddress, multicastMembership, capture,
                captureJournal, captureOwner, kernelDropEvidence,
                udpKernelDropCounter>>
startVars  == <<startPromise, phase, request, sampled, sockets, waiters, granted>>
stopVars   == <<pc, claim, held, shuttingDown, shutdownActive, finalStatus>>
vars == <<bridgeVars, startVars, stopVars>>

States == {"idle", "starting", "capturing", "stopping", "stopped", "error"}
Phases == {"unused", "binding", "counting", "done", "failed", "faulted"}
EntryTypes == {"capture-started", "bridge-error", "subscriber-backpressure",
               "capture-stopped"}
ErrorTypes == {"bridge-error", "subscriber-backpressure"}

NoCapture == [id |-> 0, datagrams |-> 0, ended |-> FALSE]
NoJournal == [captureId |-> 0, ended |-> FALSE, state |-> "active",
              bind |-> NoAddress, entriesComplete |-> TRUE,
              omittedEntries |-> 0, entries |-> <<>>, nextSequence |-> 0]
NoOwner   == [lease |-> 0, by |-> <<>>]
-----------------------------------------------------------------------------
(* The lifecycle journal.                                                  *)

\* appendCaptureJournalEntry: j is the journal, n the live datagram count.
\* Faulty variant: numbered from the entry before.
Entry_Late(j, type, n) ==
  [sequence |-> j.nextSequence - 1, type |-> type, datagrams |-> n]

Entry(j, type, n) == [sequence |-> j.nextSequence, type |-> type, datagrams |-> n]

Omit(j) == [j EXCEPT !.nextSequence = @ + 1, !.entriesComplete = FALSE,
                     !.omittedEntries = @ + 1, !.state = "incomplete"]

Retain(j, type, n) ==
  [j EXCEPT !.nextSequence = @ + 1,
            !.entries = Append(@, Entry(j, type, n)),
            !.state = IF type \in ErrorTypes THEN "incomplete" ELSE @]

\* Faulty variant: no room is kept for the terminal entry.
RetainedLimit_Unreserved(type) == MaxEntries

RetainedLimit(type) ==
  IF type = "capture-stopped" THEN MaxEntries ELSE MaxEntries - 1

AppendEntry(j, type, n) ==
  IF j.captureId = 0 THEN j
  ELSE IF \/ j.ended /\ type # "capture-stopped"
          \/ Len(j.entries) >= RetainedLimit(type)
       THEN Omit(j)
       ELSE Retain(j, type, n)

\* createCaptureJournal
CreateJournal(op, address) ==
  AppendEntry([NoJournal EXCEPT !.captureId = op, !.bind = address],
              "capture-started", 0)

\* finishCaptureJournal: nothing when the journal has already ended.
FinishJournal(j, n, clean) ==
  IF j.captureId = 0 \/ j.ended THEN j
  ELSE AppendEntry([j EXCEPT !.ended = TRUE,
                             !.state = IF ~clean \/ ~j.entriesComplete
                                       THEN "incomplete"
                                       ELSE IF j.state = "active" THEN "clean"
                                       ELSE j.state],
                   "capture-stopped", n)

\* writeSubscriber on a full queue, when a broadcast finds one.
Overflow(j, n, lost) ==
  IF lost THEN AppendEntry(j, "subscriber-backpressure", n) ELSE j

\* setError: the journal entry, then the broadcast of the error.
SetError(j, n, lost) == Overflow(AppendEntry(j, "bridge-error", n), n, lost)

\* leaveMulticast, whose dropMembership may throw.
LeaveMulticast(j, n, throws, lost) ==
  IF multicastMembership /\ throws THEN SetError(j, n, lost) ELSE j

\* Bounds the broadcasts that overflow, not the code.
MayOverflow == IF captureJournal.nextSequence < MaxSequence THEN BOOLEAN ELSE {FALSE}
-----------------------------------------------------------------------------
(* Starting a capture.                                                     *)

Init ==
  /\ state = "idle" /\ udpSocket = 0 /\ udpAddress = NoAddress
  /\ multicastMembership = FALSE
  /\ capture = NoCapture /\ captureJournal = NoJournal /\ captureOwner = NoOwner
  /\ kernelDropEvidence = [source |-> "unavailable", counter |-> 0]
  /\ udpKernelDropCounter = 0
  /\ startPromise = 0
  /\ phase = [op \in Ops |-> "unused"] /\ request = [op \in Ops |-> <<>>]
  /\ sampled = {} /\ sockets = {} /\ waiters = {} /\ granted = {}
  /\ pc = [c \in Callers |-> "idle"]
  /\ claim = [c \in Callers |-> 0] /\ held = [c \in Callers |-> 0]
  /\ shuttingDown = FALSE /\ shutdownActive = FALSE
  /\ finalStatus = [state |-> "none", open |-> FALSE]

\* The promise continuation of a stop or of close() runs before the next
\* event of the process: nothing else happens while one is ready.
Ready(c) == pc[c] = "awaitStart" /\ phase[held[c]] \in {"done", "failed"}
Quiet == \A c \in Callers : ~Ready(c)

\* Faulty variant: only a stop in progress refuses a start.
MayStart_Overlapping == state # "stopping"

MayStart == state \in {"idle", "stopped", "error"}

\* A start accepted by startCapture, up to socket.bind.
StartCapture(n, k) ==
  \E op \in Ops, lost \in MayOverflow :
    /\ Quiet /\ ~shuttingDown /\ MayStart
    /\ phase[op] = "unused" /\ \A p \in Ops : p < op => phase[p] # "unused"
    /\ state' = "starting"
    /\ multicastMembership' = FALSE
    /\ captureJournal' = Overflow(captureJournal, capture.datagrams, lost)
    /\ udpSocket' = op /\ sockets' = sockets \cup {op}
    /\ phase' = [phase EXCEPT ![op] = "binding"]
    /\ request' = [request EXCEPT ![op] = <<n, k>>]
    /\ startPromise' = op
    /\ waiters' = waiters \cup {<<n, op>>}
    /\ UNCHANGED <<udpAddress, capture, captureOwner, kernelDropEvidence,
                   udpKernelDropCounter, sampled, granted, stopVars>>

\* Faulty variant: the settings alone identify a start.
SameStartRequest_Keyed(n, k, expected) == Len(expected) = 2 /\ expected[2] = k

SameStartRequest(n, k, expected) == expected = <<n, k>>

\* A retry while the same start is in progress awaits the same promise.
JoinStart(n, k) ==
  /\ Quiet /\ ~shuttingDown /\ state = "starting" /\ startPromise # 0
  /\ SameStartRequest(n, k, request[startPromise])
  /\ waiters' = waiters \cup {<<n, startPromise>>}
  /\ UNCHANGED <<bridgeVars, startPromise, phase, request, sampled, sockets,
                 granted, stopVars>>

\* A retry while capturing is answered with the same envelope.
RetryStart(n, k) ==
  /\ Quiet /\ ~shuttingDown /\ state = "capturing"
  /\ SameStartRequest(n, k, captureOwner.by)
  /\ granted' = granted \cup {<<n, captureOwner.lease>>}
  /\ UNCHANGED <<bridgeVars, startPromise, phase, request, sampled, sockets,
                 waiters, stopVars>>

\* The promise of a start settles: its callers are answered, and the start
\* that is still the latest one clears startPromise and the active nonce.
Settle(op) ==
  /\ startPromise' = IF startPromise = op THEN 0 ELSE startPromise
  /\ waiters' = {w \in waiters : w[2] # op}

\* A start fails on its socket: onInitialError (address forgotten), or the
\* group cannot be joined (address kept).
StartFails(op, address) ==
  \E lost, lostStatus \in MayOverflow :
    /\ Quiet
    /\ phase' = [phase EXCEPT ![op] = "failed"]
    /\ udpSocket' = 0 /\ udpAddress' = address /\ multicastMembership' = FALSE
    /\ sockets' = sockets \ {op}
    /\ state' = "error"
    /\ captureJournal' =
         Overflow(SetError(captureJournal, capture.datagrams, lost),
                  capture.datagrams, lostStatus)
    /\ Settle(op)
    /\ UNCHANGED <<capture, captureOwner, kernelDropEvidence,
                   udpKernelDropCounter, request, sampled, granted, stopVars>>

\* Faulty variant: the bind error closes the socket and is not reported.
BindFails_Silent(op) ==
  /\ phase[op] = "binding"
  /\ phase' = [phase EXCEPT ![op] = "failed"]
  /\ sockets' = sockets \ {op} /\ udpSocket' = 0
  /\ UNCHANGED <<state, udpAddress, multicastMembership, capture, captureJournal,
                 captureOwner, kernelDropEvidence, udpKernelDropCounter,
                 startPromise, request, sampled, waiters, granted, stopVars>>

BindFails(op) == phase[op] = "binding" /\ StartFails(op, NoAddress)

MembershipFails(op) ==
  /\ phase[op] = "binding" /\ request[op][2] \in MulticastKeys
  /\ \E a \in BindsTo[request[op][2]] : StartFails(op, a)

\* onListening up to its await: from here on the socket delivers datagrams
\* and errors, while udpKernelDropCounter.start is pending.
Listening(op) ==
  /\ Quiet /\ phase[op] = "binding"
  /\ udpAddress' \in BindsTo[request[op][2]]
  /\ multicastMembership' = (multicastMembership \/ request[op][2] \in MulticastKeys)
  /\ udpKernelDropCounter' = op
  /\ phase' = [phase EXCEPT ![op] = "counting"]
  /\ UNCHANGED <<state, udpSocket, capture, captureJournal, captureOwner,
                 kernelDropEvidence, startPromise, request, sampled, sockets,
                 waiters, granted, stopVars>>

\* Faulty variant: the evidence of the previous capture is kept.
FirstSample_Kept(op, source) == kernelDropEvidence

FirstSample(op, source) == [source |-> source, counter |-> op]

\* onListening after its await.  createCaptureJournal throws when no address
\* is bound: the capture is replaced, and the start never settles.
CaptureBegins(op) ==
  \E source \in {"unavailable", "capture-active"}, lost \in MayOverflow :
    /\ Quiet /\ phase[op] = "counting"
    /\ kernelDropEvidence' = FirstSample(op, source)
    /\ sampled' = IF source = "capture-active" THEN sampled \cup {op} ELSE sampled
    /\ capture' = [id |-> op, datagrams |-> 0, ended |-> FALSE]
    /\ IF udpAddress = NoAddress
       THEN /\ phase' = [phase EXCEPT ![op] = "faulted"]
            /\ UNCHANGED <<state, captureJournal, captureOwner, startPromise,
                           waiters, granted>>
       ELSE /\ phase' = [phase EXCEPT ![op] = "done"]
            /\ captureJournal' = Overflow(CreateJournal(op, udpAddress), 0, lost)
            /\ captureOwner' = [lease |-> op, by |-> request[op]]
            /\ state' = "capturing"
            /\ Settle(op)
            /\ granted' = granted \cup {w \in waiters : w[2] = op}
    /\ UNCHANGED <<udpSocket, udpAddress, multicastMembership,
                   udpKernelDropCounter, request, sockets, stopVars>>
-----------------------------------------------------------------------------
(* The socket.                                                             *)

\* An open socket whose message and error handlers are attached.
Delivers(op) == op \in sockets /\ phase[op] \in {"counting", "done", "faulted"}

Counts == state = "capturing" /\ capture.id # 0

HandleDatagram(op) ==
  \E lost \in MayOverflow :
    /\ Quiet /\ Delivers(op) /\ Counts
    /\ capture.datagrams < MaxDatagrams
    /\ capture' = [capture EXCEPT !.datagrams = @ + 1]
    /\ captureJournal' = Overflow(captureJournal, capture'.datagrams, lost)
    /\ UNCHANGED <<state, udpSocket, udpAddress, multicastMembership,
                   captureOwner, kernelDropEvidence, udpKernelDropCounter,
                   startVars, stopVars>>

IgnoresSocketErrors == state \in {"stopping", "stopped"} \/ shuttingDown

MarkSocketFailure(op) ==
  \E throws \in BOOLEAN, lostLeave, lost, lostStatus \in MayOverflow :
    LET n    == capture.datagrams
        left == IF udpSocket = 0 THEN captureJournal
                ELSE LeaveMulticast(captureJournal, n, throws, lostLeave)
        told == SetError(left, n, lost)
    IN /\ Quiet /\ Delivers(op) /\ ~IgnoresSocketErrors
       /\ EarlySocketErrors \/ phase[op] = "done"
       /\ state' = "error"
       /\ capture' = IF capture.id = 0 THEN capture
                     ELSE [capture EXCEPT !.ended = TRUE]
       /\ kernelDropEvidence' = [source |-> "unavailable", counter |-> 0]
       /\ udpSocket' = 0 /\ sockets' = sockets \ {udpSocket}
       /\ multicastMembership' = (multicastMembership /\ udpSocket = 0)
       /\ captureJournal' = Overflow(FinishJournal(told, n, FALSE), n, lostStatus)
       /\ UNCHANGED <<udpAddress, captureOwner, udpKernelDropCounter,
                      startPromise, phase, request, sampled, waiters, granted,
                      stopVars>>
-----------------------------------------------------------------------------
(* Stopping a capture and shutting the process down.                       *)

\* Faulty variant: any lease that was ever handed out stops the capture.
OwnsCapture_AnyLease(id) == capture.id # 0

OwnsCapture(id) == capture.id # 0 /\ capture.id = id /\ captureOwner.lease = id

\* stopCapture returns or throws; for close() the event streams then get the
\* status of that moment and are closed.
EndCall(c) ==
  /\ pc' = [pc EXCEPT ![c] = IF c = Shutdown THEN "closed" ELSE "idle"]
  /\ claim' = [claim EXCEPT ![c] = 0] /\ held' = [held EXCEPT ![c] = 0]
  /\ finalStatus' =
       IF c = Shutdown
       THEN [state |-> state', open |-> capture'.id # 0 /\ ~capture'.ended]
       ELSE finalStatus

\* stopCapture after awaiting the start: refused, answered at once, or the
\* socket is taken and the kernel drop counter asked for its last sample.
EnterStop(c, id) ==
  LET mine == c = Shutdown \/ OwnsCapture(id)
  IN \/ /\ ~mine \/ udpSocket = 0
        /\ UNCHANGED bridgeVars
        /\ EndCall(c)
     \/ /\ mine /\ udpSocket # 0
        /\ \E throws \in BOOLEAN, lost, lostLeave \in MayOverflow :
             captureJournal' =
               LeaveMulticast(Overflow(captureJournal, capture.datagrams, lost),
                              capture.datagrams, throws, lostLeave)
        /\ state' = "stopping"
        /\ udpSocket' = 0 /\ multicastMembership' = FALSE
        /\ pc' = [pc EXCEPT ![c] = "finishing"]
        /\ claim' = [claim EXCEPT ![c] = id]
        /\ held' = [held EXCEPT ![c] = udpSocket]
        /\ UNCHANGED <<udpAddress, capture, captureOwner, kernelDropEvidence,
                       udpKernelDropCounter, finalStatus>>

AwaitStart(c, id) ==
  /\ pc' = [pc EXCEPT ![c] = "awaitStart"]
  /\ claim' = [claim EXCEPT ![c] = id]
  /\ held' = [held EXCEPT ![c] = startPromise]
  /\ UNCHANGED <<bridgeVars, finalStatus>>

\* Faulty variant: a stop does not wait for the start in progress.
BeginCall_NoAwait(c, id) == EnterStop(c, id)

BeginCall(c, id) ==
  \/ startPromise = 0 /\ EnterStop(c, id)
  \/ startPromise # 0 /\ AwaitStart(c, id)

\* A stop request with a lease some caller was given.  It may have been
\* admitted before close() and its body read after.
StopCapture(c) ==
  /\ Quiet /\ pc[c] = "idle"
  /\ \E g \in granted : BeginCall(c, g[2])
  /\ UNCHANGED <<startVars, shuttingDown, shutdownActive>>

\* close(), which calls stopCapture(null, false, ...) itself.
Close ==
  /\ Quiet /\ ~shuttingDown
  /\ shuttingDown' = TRUE
  /\ shutdownActive' = (state \in {"starting", "capturing", "stopping"})
  /\ BeginCall(Shutdown, 0)
  /\ UNCHANGED startVars

\* The awaited start settled; had it failed, nothing is left to stop.
StopResumes(c) ==
  /\ Ready(c)
  /\ IF phase[held[c]] = "failed"
     THEN UNCHANGED bridgeVars /\ EndCall(c)
     ELSE EnterStop(c, claim[c])
  /\ UNCHANGED <<startVars, shuttingDown, shutdownActive>>

\* Faulty variant: a failed last sample is not caught, and the stop never goes on.
LastSamples_Uncaught == IF udpKernelDropCounter \in sampled THEN {"measured"} ELSE {}

LastSamples ==
  {"unavailable"} \cup IF udpKernelDropCounter \in sampled THEN {"measured"} ELSE {}

\* udpKernelDropCounter.finish resolves; the socket is closed and its close
\* event awaited.
FinishCounter(c) ==
  /\ Quiet /\ pc[c] = "finishing"
  /\ \E source \in LastSamples :
       kernelDropEvidence' = [source |-> source, counter |-> udpKernelDropCounter]
  /\ sockets' = sockets \ {held[c]}
  /\ pc' = [pc EXCEPT ![c] = "closing"]
  /\ UNCHANGED <<state, udpSocket, udpAddress, multicastMembership, capture,
                 captureJournal, captureOwner, udpKernelDropCounter,
                 startPromise, phase, request, sampled, waiters, granted,
                 claim, held, shuttingDown, shutdownActive, finalStatus>>

CleanStop(c) == ~(c = Shutdown /\ shutdownActive)

StopCompletes(c) ==
  \E lost \in MayOverflow :
    /\ Quiet /\ pc[c] = "closing"
    /\ capture' = IF capture.id = 0 THEN capture
                  ELSE [capture EXCEPT !.ended = TRUE]
    /\ captureJournal' =
         Overflow(FinishJournal(captureJournal, capture.datagrams, CleanStop(c)),
                  capture.datagrams, lost)
    /\ state' = "stopped"
    /\ EndCall(c)
    /\ UNCHANGED <<udpSocket, udpAddress, multicastMembership, captureOwner,
                   kernelDropEvidence, udpKernelDropCounter, startVars,
                   shuttingDown, shutdownActive>>
-----------------------------------------------------------------------------
Next ==
  \/ \E n \in Nonces, k \in Keys :
       StartCapture(n, k) \/ JoinStart(n, k) \/ RetryStart(n, k)
  \/ \E op \in Ops :
       \/ BindFails(op) \/ MembershipFails(op) \/ Listening(op)
       \/ CaptureBegins(op)
       \/ HandleDatagram(op) \/ MarkSocketFailure(op)
  \/ \E c \in Stoppers : StopCapture(c)
  \/ \E c \in Callers : FinishCounter(c) \/ StopCompletes(c) \/ StopResumes(c)
  \/ Close

Spec == Init /\ [][Next]_vars

\* The runtime settles what it was asked for: a bind succeeds or fails, the
\* drop counter's file reads resolve, a closed socket reports its close, and
\* promise continuations run.  Nothing is assumed of clients and senders.
Fairness ==
  /\ \A op \in Ops : /\ WF_vars(BindFails(op) \/ Listening(op))
                     /\ WF_vars(CaptureBegins(op))
  /\ \A c \in Callers : /\ WF_vars(StopResumes(c))
                        /\ WF_vars(FinishCounter(c))
                        /\ WF_vars(StopCompletes(c))

FairSpec == Spec /\ Fairness
-----------------------------------------------------------------------------
(* Properties.                                                             *)

Capture == [id : 0 .. MaxStarts, datagrams : Nat, ended : BOOLEAN]
JournalEntry == [sequence : Nat, type : EntryTypes, datagrams : Nat]
Journal == [captureId : 0 .. MaxStarts, ended : BOOLEAN,
            state : {"active", "clean", "incomplete"},
            bind : Addresses \cup {NoAddress}, entriesComplete : BOOLEAN,
            omittedEntries : Nat, entries : Seq(JournalEntry), nextSequence : Nat]

BridgeTypeOK ==
  /\ state \in States
  /\ udpSocket \in 0 .. MaxStarts
  /\ udpAddress \in Addresses \cup {NoAddress}
  /\ multicastMembership \in BOOLEAN
  /\ capture \in Capture
  /\ captureJournal \in Journal
  /\ captureOwner \in [lease : 0 .. MaxStarts, by : (Nonces \X Keys) \cup {<<>>}]
  /\ kernelDropEvidence \in [source : {"unavailable", "capture-active", "measured"},
                             counter : 0 .. MaxStarts]
  /\ udpKernelDropCounter \in 0 .. MaxStarts

StartTypeOK ==
  /\ startPromise \in 0 .. MaxStarts
  /\ phase \in [Ops -> Phases]
  /\ request \in [Ops -> (Nonces \X Keys) \cup {<<>>}]
  /\ sampled \subseteq Ops /\ sockets \subseteq Ops
  /\ waiters \subseteq Nonces \X Ops /\ granted \subseteq Nonces \X Ops

StopTypeOK ==
  /\ pc \in [Callers -> {"idle", "awaitStart", "finishing", "closing", "closed"}]
  /\ claim \in [Callers -> 0 .. MaxStarts]
  /\ held \in [Callers -> 0 .. MaxStarts]
  /\ shuttingDown \in BOOLEAN /\ shutdownActive \in BOOLEAN
  /\ finalStatus \in [state : States \cup {"none"}, open : BOOLEAN]

\* Every variable stays in its range.
TypeOK == BridgeTypeOK /\ StartTypeOK /\ StopTypeOK

\* What the client's parseCaptureJournal demands of a status document, apart
\* from the bind address: identity, state, totals and the order of the entries.
JournalTotals(j, c) ==
  /\ j.captureId = c.id /\ j.ended = c.ended
  /\ j.entriesComplete = (j.omittedEntries = 0)
  /\ j.state = "active" => ~j.ended
  /\ j.state = "clean" => j.ended /\ j.entriesComplete

JournalEntries(j, c) ==
  LET e == j.entries
  IN /\ Len(e) \in 1 .. MaxEntries
     /\ e[1] = [sequence |-> 0, type |-> "capture-started", datagrams |-> 0]
     /\ \A i \in 1 .. Len(e) :
          /\ e[i].datagrams <= c.datagrams
          /\ j.entriesComplete => e[i].sequence = i - 1
          /\ j.state = "clean" => e[i].type \notin ErrorTypes
     /\ \A i \in 1 .. Len(e) - 1 :
          e[i].sequence < e[i + 1].sequence /\ e[i].datagrams <= e[i + 1].datagrams
     /\ j.ended => /\ e[Len(e)].type = "capture-stopped"
                   /\ e[Len(e)].datagrams = c.datagrams

JournalBind(j, address) == j.bind = address

\* In every state the journal the bridge would serve is one the client's
\* parser accepts (up to the bind address): whatever interleaving of errors,
\* overflows, stops and shutdown produced it, its entries are in order, its
\* totals agree with the capture and a clean verdict hides no error.
JournalParses ==
  captureJournal.captureId # 0 =>
    JournalTotals(captureJournal, capture) /\ JournalEntries(captureJournal, capture)

\* The journal served also names the address the status document reports, as
\* parseCaptureJournal asserts of every status.
StatusNamesJournalBind ==
  captureJournal.captureId # 0 => JournalBind(captureJournal, udpAddress)

\* A bridge that reports "capturing" holds the open socket of that capture,
\* the capture has not ended, and its lease is the one that can stop it.
CapturingHoldsSocket ==
  state = "capturing" =>
    /\ capture.id # 0 /\ ~capture.ended
    /\ udpSocket = capture.id /\ udpSocket \in sockets
    /\ captureOwner.lease = capture.id

\* Every open socket can still be reached by a stop, or is being closed by
\* one: no path through a start, an error or a shutdown leaks a socket.
SocketsAccounted ==
  sockets = ({udpSocket} \cup {held[c] : c \in {d \in Callers : pc[d] = "finishing"}})
            \ {0}

\* At most one start is in progress, it is the one the bridge waits for, and
\* the bridge says so.
OneStartInProgress ==
  \A op \in Ops : phase[op] \in {"binding", "counting"} =>
    startPromise = op /\ udpSocket = op /\ state \in {"starting", "stopping"}

\* A capturing bridge holds the socket of its capture, every open socket can be reached by a stop,
\* and one start at most is in progress (startCapture, onInitialError, onListening, stopCapture):
\* no path of a start, a failure, a stop or the shutdown leaks a socket or reports one it lacks.
SocketsOwned == CapturingHoldsSocket /\ SocketsAccounted /\ OneStartInProgress

\* A caller is only ever given the lease of a capture its own nonce started,
\* also when it retries, joins a start in progress or comes late.
LeaseOnlyToStarter == \A g \in granted : request[g[2]][1] = g[1]

\* A measured kernel drop count is the count of the capture it is shown with,
\* and only shown once that capture's last sample was taken.
MeasuredEvidenceIsOwn ==
  kernelDropEvidence.source = "measured" =>
    /\ kernelDropEvidence.counter = capture.id
    /\ capture.ended \/ \E c \in Callers : pc[c] = "closing"

\* A capture ends only by a stop presenting its own lease, by close() or by
\* the failure of its socket.
EndedByOwner ==
  [][~capture.ended /\ capture'.ended =>
       \/ state' = "error"
       \/ pc[Shutdown] = "closing"
       \/ \E c \in Stoppers : pc[c] = "closing" /\ claim[c] = capture.id]_vars

\* A stop in progress finishes, a start in progress settles, and close() ends.
StopFinishes == (state = "stopping") ~> (state = "stopped")
StartSettles == (state = "starting") ~> (state # "starting")
CloseFinishes == shuttingDown ~> (pc[Shutdown] = "closed")

\* Every command ends: a stop whatever fails in it, a start whether it binds or not, and the
\* shutdown that awaits both (startPromise, stopCapture, close).
CommandsEnd == StopFinishes /\ StartSettles /\ CloseFinishes

\* A stop by the owner is refused as "No UDP capture is active" only when the
\* bridge does not claim to be capturing.
RefusedStopFindsNoCapture ==
  \A g \in granted :
    OwnsCapture(g[2]) /\ udpSocket = 0 /\ startPromise = 0 => state # "capturing"

\* The bridge implements the abstract life cycle of captures.
Verdict == IF capture.id = 0 THEN "none"
           ELSE IF ~capture.ended THEN "open" ELSE captureJournal.state

Lifecycle == INSTANCE CaptureLifecycle
  WITH current <- capture.id, verdict <- Verdict, count <- capture.datagrams

ImplementsLifecycle == Lifecycle!Spec
=============================================================================
