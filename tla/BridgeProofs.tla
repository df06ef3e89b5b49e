---------------------------- MODULE BridgeProofs ----------------------------
(***************************************************************************)
(* Proofs about the two halves of the UDP capture bridge: its control and  *)
(* its journal (CaptureBridge), for every number of clients, bind settings,*)
(* addresses and starts and every journal capacity; and its event streams  *)
(* (EventStream), for every number of readers and events, every size of    *)
(* the events and both queue limits.                                       *)
(***************************************************************************)
EXTENDS CaptureBridge, EventStream, TLAPS

-----------------------------------------------------------------------------
(* The journal operators map journals to journals.                         *)

\* Writing one field of a journal keeps its type.
LEMMA JournalUpdate ==
  ASSUME NEW j \in Journal
  PROVE  /\ [j EXCEPT !.nextSequence = @ + 1] \in Journal
         /\ [j EXCEPT !.omittedEntries = @ + 1] \in Journal
         /\ [j EXCEPT !.entriesComplete = FALSE] \in Journal
         /\ [j EXCEPT !.ended = TRUE] \in Journal
         /\ \A s \in {"active", "clean", "incomplete"} : [j EXCEPT !.state = s] \in Journal
         /\ \A e \in Seq(JournalEntry) : [j EXCEPT !.entries = e] \in Journal
<1>1. [j EXCEPT !.nextSequence = @ + 1] \in Journal  BY DEF Journal
<1>2. [j EXCEPT !.omittedEntries = @ + 1] \in Journal  BY DEF Journal
<1>3. [j EXCEPT !.entriesComplete = FALSE] \in Journal  BY DEF Journal
<1>4. [j EXCEPT !.ended = TRUE] \in Journal  BY DEF Journal
<1>5. \A s \in {"active", "clean", "incomplete"} : [j EXCEPT !.state = s] \in Journal
  BY DEF Journal
<1>6. \A e \in Seq(JournalEntry) : [j EXCEPT !.entries = e] \in Journal
  BY DEF Journal
<1> QED  BY <1>1, <1>2, <1>3, <1>4, <1>5, <1>6

\* Appending an entry of any kind, retained or omitted, keeps the journal's
\* type (appendCaptureJournalEntry).
LEMMA AppendEntryType ==
  ASSUME NEW j \in Journal, NEW type \in EntryTypes, NEW n \in Nat
  PROVE  AppendEntry(j, type, n) \in Journal
<1> DEFINE next == [j EXCEPT !.nextSequence = @ + 1]
           told == IF type \in ErrorTypes THEN "incomplete" ELSE j.state
<1>1. next \in Journal
  BY JournalUpdate
<1>2. Omit(j) \in Journal
  <2>1. Omit(j) = [[[next EXCEPT !.entriesComplete = FALSE]
                         EXCEPT !.omittedEntries = @ + 1]
                         EXCEPT !.state = "incomplete"]
    BY DEF Omit, Journal
  <2> HIDE DEF next
  <2> QED  BY <1>1, <2>1, JournalUpdate
<1>3. Retain(j, type, n) \in Journal
  <2>1. Entry(j, type, n) \in JournalEntry
    BY DEF Entry, Journal, JournalEntry
  <2>2. Append(j.entries, Entry(j, type, n)) \in Seq(JournalEntry)
    BY <2>1 DEF Journal
  <2>3. told \in {"active", "clean", "incomplete"}
    BY DEF Journal
  <2>4. Retain(j, type, n) = [[next EXCEPT !.entries = Append(j.entries, Entry(j, type, n))]
                                    EXCEPT !.state = told]
    BY DEF Retain, Journal
  <2> HIDE DEF next, told
  <2>5. [next EXCEPT !.entries = Append(j.entries, Entry(j, type, n))] \in Journal
    BY <1>1, <2>2, JournalUpdate
  <2> QED  BY <2>3, <2>4, <2>5, JournalUpdate
<1> QED  BY <1>2, <1>3 DEF AppendEntry

\* A broadcast keeps the journal's type, whether or not a stream is full
\* (writeSubscriber).
LEMMA OverflowType ==
  ASSUME NEW j \in Journal, NEW n \in Nat, NEW lost \in BOOLEAN
  PROVE  Overflow(j, n, lost) \in Journal
<1> "subscriber-backpressure" \in EntryTypes  BY DEF EntryTypes
<1> QED  BY AppendEntryType DEF Overflow

\* So does reporting an error (setError).
LEMMA SetErrorType ==
  ASSUME NEW j \in Journal, NEW n \in Nat, NEW lost \in BOOLEAN
  PROVE  SetError(j, n, lost) \in Journal
<1> "bridge-error" \in EntryTypes  BY DEF EntryTypes
<1> QED  BY AppendEntryType, OverflowType DEF SetError

\* So does leaving the multicast group, also when that fails
\* (leaveMulticast).
LEMMA LeaveMulticastType ==
  ASSUME NEW j \in Journal, NEW n \in Nat, NEW throws \in BOOLEAN, NEW lost \in BOOLEAN
  PROVE  LeaveMulticast(j, n, throws, lost) \in Journal
BY SetErrorType DEF LeaveMulticast

\* So does ending it (finishCaptureJournal).
LEMMA FinishJournalType ==
  ASSUME NEW j \in Journal, NEW n \in Nat, NEW clean \in BOOLEAN
  PROVE  FinishJournal(j, n, clean) \in Journal
<1> DEFINE ended == [j EXCEPT !.ended = TRUE,
                              !.state = IF ~clean \/ ~j.entriesComplete
                                        THEN "incomplete"
                                        ELSE IF j.state = "active" THEN "clean"
                                        ELSE j.state]
<1>1. ended \in Journal
  BY DEF Journal
<1>2. "capture-stopped" \in EntryTypes
  BY DEF EntryTypes
<1>3. AppendEntry(ended, "capture-stopped", n) \in Journal
  BY <1>1, <1>2, AppendEntryType
<1> QED  BY <1>3 DEF FinishJournal

\* The journal of a new capture is one (createCaptureJournal).
LEMMA CreateJournalType ==
  ASSUME NEW op \in Ops, NEW address \in Addresses
  PROVE  CreateJournal(op, address) \in Journal
<1> DEFINE fresh == [NoJournal EXCEPT !.captureId = op, !.bind = address]
<1>1. op \in 0 .. MaxStarts
  BY BridgeAssumption DEF Ops
<1>2. <<>> \in Seq(JournalEntry)
  OBVIOUS
<1>3. fresh \in Journal
  BY <1>1, <1>2 DEF NoJournal, Journal
<1>4. "capture-started" \in EntryTypes
  BY DEF EntryTypes
<1> QED  BY <1>3, <1>4, AppendEntryType DEF CreateJournal

\* A broadcast either finds a full stream or it does not.
LEMMA MayOverflowType == MayOverflow \subseteq BOOLEAN
BY DEF MayOverflow
-----------------------------------------------------------------------------
(* Type correctness.  A socket is bound to an address the settings of its  *)
(* request allow, and a retried start is answered with the lease of the    *)
(* capture it began, so the invariant also says that both are known.       *)

\* The nonce and settings of an accepted start are known.
RequestsKnown == \A op \in Ops : phase[op] # "unused" => request[op] \in Nonces \X Keys

\* The request that began a capture has its lease.
OwnerKnown == captureOwner.by # <<>> => captureOwner.lease \in Ops

TypeInv == TypeOK /\ RequestsKnown /\ OwnerKnown

\* The bridge begins in range.
LEMMA InitType == Init => TypeInv
<1> SUFFICES ASSUME Init PROVE TypeInv
  OBVIOUS
<1> USE BridgeAssumption DEF Init
<1>1. 0 \in 0 .. MaxStarts
  OBVIOUS
<1>2. BridgeTypeOK
  <2>1. <<>> \in Seq(JournalEntry)
    OBVIOUS
  <2>2. captureJournal \in Journal
    BY <1>1, <2>1 DEF Journal, NoJournal
  <2> QED  BY <1>1, <2>2 DEF BridgeTypeOK, States, Capture, NoCapture, NoOwner
<1>3. StartTypeOK
  BY <1>1 DEF StartTypeOK, Phases
<1>4. StopTypeOK
  BY <1>1 DEF StopTypeOK
<1>5. RequestsKnown
  BY DEF RequestsKnown
<1>6. OwnerKnown
  BY DEF OwnerKnown, NoOwner
<1> QED  BY <1>2, <1>3, <1>4, <1>5, <1>6 DEF TypeInv, TypeOK

\* The end of a stop keeps the callers in range.
LEMMA EndCallType ==
  ASSUME TypeOK, BridgeTypeOK', NEW c \in Callers, EndCall(c),
         shuttingDown' \in BOOLEAN, shutdownActive' \in BOOLEAN
  PROVE  StopTypeOK'
<1>1. pc' \in [Callers -> {"idle", "awaitStart", "finishing", "closing", "closed"}]
  BY DEF EndCall, TypeOK, StopTypeOK
<1>2. claim' \in [Callers -> 0 .. MaxStarts] /\ held' \in [Callers -> 0 .. MaxStarts]
  BY BridgeAssumption DEF EndCall, TypeOK, StopTypeOK
<1>3. finalStatus' \in [state : States \cup {"none"}, open : BOOLEAN]
  BY DEF EndCall, TypeOK, StopTypeOK, BridgeTypeOK
<1> QED  BY <1>1, <1>2, <1>3 DEF TypeOK, StopTypeOK

\* Entering a stop keeps the bridge and its callers in range.
LEMMA EnterStopType ==
  ASSUME TypeOK, NEW c \in Callers, NEW id \in 0 .. MaxStarts, EnterStop(c, id),
         shuttingDown' \in BOOLEAN, shutdownActive' \in BOOLEAN
  PROVE  BridgeTypeOK' /\ StopTypeOK'
<1> DEFINE mine == c = Shutdown \/ OwnsCapture(id)
<1>1. CASE ~mine \/ udpSocket = 0
  <2>1. UNCHANGED bridgeVars /\ EndCall(c)
    BY <1>1 DEF EnterStop
  <2>2. BridgeTypeOK'
    BY <2>1 DEF bridgeVars, TypeOK, BridgeTypeOK
  <2> QED  BY <2>1, <2>2, EndCallType
<1>2. CASE mine /\ udpSocket # 0
  <2>1. PICK throws \in BOOLEAN, lost \in MayOverflow, lostLeave \in MayOverflow :
          captureJournal' =
            LeaveMulticast(Overflow(captureJournal, capture.datagrams, lost),
                           capture.datagrams, throws, lostLeave)
    BY <1>2 DEF EnterStop
  <2>2. capture.datagrams \in Nat
    BY DEF TypeOK, BridgeTypeOK, Capture
  <2>3. captureJournal' \in Journal
    BY <2>1, <2>2, OverflowType, LeaveMulticastType, MayOverflowType
    DEF TypeOK, BridgeTypeOK
  <2>4. /\ state' = "stopping" /\ udpSocket' = 0 /\ multicastMembership' = FALSE
        /\ UNCHANGED <<udpAddress, capture, captureOwner, kernelDropEvidence,
                       udpKernelDropCounter>>
        /\ pc' = [pc EXCEPT ![c] = "finishing"]
        /\ claim' = [claim EXCEPT ![c] = id]
        /\ held' = [held EXCEPT ![c] = udpSocket]
        /\ finalStatus' = finalStatus
    BY <1>2 DEF EnterStop
  <2>5. 0 \in 0 .. MaxStarts
    BY BridgeAssumption
  <2>6. BridgeTypeOK'
    BY <2>3, <2>4, <2>5 DEF TypeOK, BridgeTypeOK, States
  <2>7. StopTypeOK'
    BY <2>4 DEF TypeOK, StopTypeOK, BridgeTypeOK
  <2> QED  BY <2>6, <2>7
<1> QED  BY <1>1, <1>2

\* So does a call of stopCapture, which enters a stop or awaits a start.
LEMMA BeginCallType ==
  ASSUME TypeOK, NEW c \in Callers, NEW id \in 0 .. MaxStarts, BeginCall(c, id),
         shuttingDown' \in BOOLEAN, shutdownActive' \in BOOLEAN
  PROVE  BridgeTypeOK' /\ StopTypeOK'
<1>1. CASE EnterStop(c, id)
  BY <1>1, EnterStopType
<1>2. CASE AwaitStart(c, id)
  <2>1. BridgeTypeOK'
    BY <1>2 DEF AwaitStart, bridgeVars, TypeOK, BridgeTypeOK
  <2>2. StopTypeOK'
    BY <1>2 DEF AwaitStart, TypeOK, StopTypeOK, StartTypeOK
  <2> QED  BY <2>1, <2>2
<1> QED  BY <1>1, <1>2 DEF BeginCall

\* No stop hands out a lease.
LEMMA StopKeepsOwner ==
  ASSUME NEW c \in Callers, NEW id,
         EnterStop(c, id) \/ BeginCall(c, id)
  PROVE  captureOwner' = captureOwner
BY DEF BeginCall, EnterStop, AwaitStart, bridgeVars

\* One step keeps every variable in range.
LEMMA NextType == TypeInv /\ [Next]_vars => TypeInv'
<1> SUFFICES ASSUME TypeInv, [Next]_vars PROVE TypeInv'
  OBVIOUS
<1> USE DEF TypeInv, TypeOK
<1>0. capture.datagrams \in Nat /\ capture.id \in 0 .. MaxStarts /\ 0 \in 0 .. MaxStarts
  BY BridgeAssumption DEF BridgeTypeOK, Capture
<1>1. ASSUME NEW n \in Nonces, NEW k \in Keys, StartCapture(n, k) PROVE TypeInv'
  <2>1. PICK op \in Ops, lost \in MayOverflow :
          /\ state' = "starting" /\ multicastMembership' = FALSE
          /\ captureJournal' = Overflow(captureJournal, capture.datagrams, lost)
          /\ udpSocket' = op /\ sockets' = sockets \cup {op}
          /\ phase' = [phase EXCEPT ![op] = "binding"]
          /\ request' = [request EXCEPT ![op] = <<n, k>>]
          /\ startPromise' = op
          /\ waiters' = waiters \cup {<<n, op>>}
          /\ UNCHANGED <<udpAddress, capture, captureOwner, kernelDropEvidence,
                         udpKernelDropCounter, sampled, granted, stopVars>>
    BY <1>1 DEF StartCapture
  <2>2. op \in 0 .. MaxStarts
    BY DEF Ops
  <2>3. captureJournal' \in Journal
    BY <1>0, <2>1, OverflowType, MayOverflowType DEF BridgeTypeOK
  <2>4. BridgeTypeOK'
    BY <2>1, <2>2, <2>3 DEF BridgeTypeOK, States
  <2>5. StartTypeOK'
    BY <2>1, <2>2 DEF StartTypeOK, Phases
  <2>6. StopTypeOK'
    BY <2>1 DEF StopTypeOK, stopVars
  <2>7. RequestsKnown'
    BY <2>1 DEF RequestsKnown, StartTypeOK
  <2>8. OwnerKnown'
    BY <2>1 DEF OwnerKnown
  <2> QED  BY <2>4, <2>5, <2>6, <2>7, <2>8
<1>2. ASSUME NEW n \in Nonces, NEW k \in Keys, JoinStart(n, k) PROVE TypeInv'
  <2>1. startPromise \in Ops
    BY <1>2 DEF JoinStart, StartTypeOK, Ops
  <2> QED  BY <1>2, <2>1 DEF JoinStart, bridgeVars, stopVars, BridgeTypeOK,
                             StartTypeOK, StopTypeOK, RequestsKnown, OwnerKnown
<1>3. ASSUME NEW n \in Nonces, NEW k \in Keys, RetryStart(n, k) PROVE TypeInv'
  <2>1. captureOwner.lease \in Ops
    BY <1>3 DEF RetryStart, SameStartRequest, OwnerKnown
  <2>2. granted' \subseteq Nonces \X Ops
    BY <1>3, <2>1 DEF RetryStart, StartTypeOK
  <2> QED  BY <1>3, <2>2 DEF RetryStart, bridgeVars, stopVars, BridgeTypeOK,
                             StartTypeOK, StopTypeOK, RequestsKnown, OwnerKnown
<1>4. ASSUME NEW op \in Ops, NEW a \in Addresses \cup {NoAddress},
             phase[op] = "binding", StartFails(op, a)
      PROVE  TypeInv'
  <2>1. PICK lost \in MayOverflow, lostStatus \in MayOverflow :
          /\ phase' = [phase EXCEPT ![op] = "failed"]
          /\ udpSocket' = 0 /\ udpAddress' = a /\ multicastMembership' = FALSE
          /\ sockets' = sockets \ {op}
          /\ state' = "error"
          /\ captureJournal' =
               Overflow(SetError(captureJournal, capture.datagrams, lost),
                        capture.datagrams, lostStatus)
          /\ Settle(op)
          /\ UNCHANGED <<capture, captureOwner, kernelDropEvidence,
                         udpKernelDropCounter, request, sampled, granted, stopVars>>
    BY <1>4 DEF StartFails
  <2>2. SetError(captureJournal, capture.datagrams, lost) \in Journal
    BY <1>0, SetErrorType, MayOverflowType DEF BridgeTypeOK
  <2>3. captureJournal' \in Journal
    BY <1>0, <2>1, <2>2, OverflowType, MayOverflowType
  <2>4. BridgeTypeOK'
    BY <1>0, <2>1, <2>3 DEF BridgeTypeOK, States
  <2>5. StartTypeOK'
    BY <1>0, <2>1 DEF StartTypeOK, Phases, Settle
  <2>6. StopTypeOK'
    BY <2>1 DEF StopTypeOK, stopVars
  <2>7. RequestsKnown' /\ OwnerKnown'
    BY <1>4, <2>1 DEF RequestsKnown, OwnerKnown, StartTypeOK
  <2> QED  BY <2>4, <2>5, <2>6, <2>7
<1>5. ASSUME NEW op \in Ops, BindFails(op) PROVE TypeInv'
  BY <1>4, <1>5 DEF BindFails
<1>6. ASSUME NEW op \in Ops, MembershipFails(op) PROVE TypeInv'
  <2>1. request[op] \in Nonces \X Keys
    BY <1>6 DEF MembershipFails, RequestsKnown
  <2>2. BindsTo[request[op][2]] \subseteq Addresses
    BY <2>1, BridgeAssumption
  <2> QED  BY <1>4, <1>6, <2>2 DEF MembershipFails
<1>7. ASSUME NEW op \in Ops, Listening(op) PROVE TypeInv'
  <2>1. request[op] \in Nonces \X Keys
    BY <1>7 DEF Listening, RequestsKnown
  <2>2. BindsTo[request[op][2]] \subseteq Addresses
    BY <2>1, BridgeAssumption
  <2>3. BridgeTypeOK'
    BY <1>7, <2>2 DEF Listening, BridgeTypeOK, Ops
  <2>4. StartTypeOK'
    BY <1>7 DEF Listening, StartTypeOK, Phases
  <2>5. StopTypeOK'
    BY <1>7 DEF Listening, StopTypeOK, stopVars
  <2>6. RequestsKnown' /\ OwnerKnown'
    BY <1>7 DEF Listening, RequestsKnown, OwnerKnown, StartTypeOK
  <2> QED  BY <2>3, <2>4, <2>5, <2>6
<1>8. ASSUME NEW op \in Ops, CaptureBegins(op) PROVE TypeInv'
  <2>1. PICK source \in {"unavailable", "capture-active"}, lost \in MayOverflow :
          /\ kernelDropEvidence' = [source |-> source, counter |-> op]
          /\ sampled' = IF source = "capture-active" THEN sampled \cup {op} ELSE sampled
          /\ capture' = [id |-> op, datagrams |-> 0, ended |-> FALSE]
          /\ \/ /\ udpAddress = NoAddress
                /\ phase' = [phase EXCEPT ![op] = "faulted"]
                /\ UNCHANGED <<state, captureJournal, captureOwner, startPromise,
                               waiters, granted>>
             \/ /\ udpAddress # NoAddress
                /\ phase' = [phase EXCEPT ![op] = "done"]
                /\ captureJournal' = Overflow(CreateJournal(op, udpAddress), 0, lost)
                /\ captureOwner' = [lease |-> op, by |-> request[op]]
                /\ state' = "capturing"
                /\ Settle(op)
                /\ granted' = granted \cup {w \in waiters : w[2] = op}
          /\ UNCHANGED <<udpSocket, udpAddress, multicastMembership,
                         udpKernelDropCounter, request, sockets, stopVars>>
    BY <1>8 DEF CaptureBegins, FirstSample
  <2>2. phase[op] = "counting" /\ request[op] \in Nonces \X Keys /\ op \in 0 .. MaxStarts
    BY <1>8 DEF CaptureBegins, RequestsKnown, Ops
  <2>3. captureJournal' \in Journal
    <3>1. CASE udpAddress = NoAddress
      BY <2>1, <3>1 DEF BridgeTypeOK
    <3>2. CASE udpAddress # NoAddress
      <4>1. CreateJournal(op, udpAddress) \in Journal
        BY <3>2, CreateJournalType DEF BridgeTypeOK
      <4> QED  BY <1>0, <2>1, <3>2, <4>1, OverflowType, MayOverflowType
    <3> QED  BY <3>1, <3>2
  <2>4. kernelDropEvidence' \in [source : {"unavailable", "capture-active", "measured"},
                                 counter : 0 .. MaxStarts]
    BY <2>1, <2>2
  <2>5. capture' \in Capture
    BY <2>1, <2>2 DEF Capture
  <2>6. captureOwner' \in [lease : 0 .. MaxStarts, by : (Nonces \X Keys) \cup {<<>>}]
    BY <2>1, <2>2 DEF BridgeTypeOK
  <2>7. BridgeTypeOK'
    BY <2>1, <2>3, <2>4, <2>5, <2>6 DEF BridgeTypeOK, States
  <2>8. StartTypeOK'
    BY <1>0, <2>1 DEF StartTypeOK, Phases, Settle
  <2>9. StopTypeOK'
    BY <2>1 DEF StopTypeOK, stopVars
  <2>10. RequestsKnown' /\ OwnerKnown'
    BY <2>1, <2>2 DEF RequestsKnown, OwnerKnown, StartTypeOK
  <2> QED  BY <2>7, <2>8, <2>9, <2>10
<1>9. ASSUME NEW op \in Ops, HandleDatagram(op) PROVE TypeInv'
  <2>1. PICK lost \in MayOverflow :
          /\ capture' = [capture EXCEPT !.datagrams = @ + 1]
          /\ captureJournal' = Overflow(captureJournal, capture'.datagrams, lost)
          /\ UNCHANGED <<state, udpSocket, udpAddress, multicastMembership,
                         captureOwner, kernelDropEvidence, udpKernelDropCounter,
                         startVars, stopVars>>
    BY <1>9 DEF HandleDatagram
  <2>2. capture' \in Capture /\ capture'.datagrams \in Nat
    BY <2>1 DEF BridgeTypeOK, Capture
  <2>3. captureJournal' \in Journal
    BY <2>1, <2>2, OverflowType, MayOverflowType DEF BridgeTypeOK
  <2> QED  BY <2>1, <2>2, <2>3 DEF BridgeTypeOK, StartTypeOK, StopTypeOK, startVars,
                                   stopVars, RequestsKnown, OwnerKnown
<1>10. ASSUME NEW op \in Ops, MarkSocketFailure(op) PROVE TypeInv'
  <2> DEFINE n == capture.datagrams
  <2>1. PICK throws \in BOOLEAN, lostLeave \in MayOverflow, lost \in MayOverflow,
             lostStatus \in MayOverflow :
          /\ state' = "error"
          /\ capture' = IF capture.id = 0 THEN capture
                        ELSE [capture EXCEPT !.ended = TRUE]
          /\ kernelDropEvidence' = [source |-> "unavailable", counter |-> 0]
          /\ udpSocket' = 0 /\ sockets' = sockets \ {udpSocket}
          /\ multicastMembership' = (multicastMembership /\ udpSocket = 0)
          /\ captureJournal' =
               Overflow(FinishJournal(
                 SetError(IF udpSocket = 0 THEN captureJournal
                          ELSE LeaveMulticast(captureJournal, n, throws, lostLeave),
                          n, lost), n, FALSE), n, lostStatus)
          /\ UNCHANGED <<udpAddress, captureOwner, udpKernelDropCounter,
                         startPromise, phase, request, sampled, waiters, granted,
                         stopVars>>
    BY <1>10 DEF MarkSocketFailure
  <2>2. captureJournal' \in Journal
    <3> DEFINE left == IF udpSocket = 0 THEN captureJournal
                       ELSE LeaveMulticast(captureJournal, n, throws, lostLeave)
               told == SetError(left, n, lost)
               done == FinishJournal(told, n, FALSE)
    <3>1. left \in Journal
      BY <1>0, LeaveMulticastType, MayOverflowType DEF BridgeTypeOK
    <3>2. told \in Journal
      BY <1>0, <3>1, SetErrorType, MayOverflowType
    <3>3. done \in Journal
      BY <1>0, <3>2, FinishJournalType
    <3> QED  BY <1>0, <2>1, <3>3, OverflowType, MayOverflowType
  <2>3. BridgeTypeOK'
    BY <1>0, <2>1, <2>2 DEF BridgeTypeOK, Capture, States
  <2> QED  BY <2>1, <2>3 DEF StartTypeOK, StopTypeOK, stopVars, RequestsKnown,
                             OwnerKnown
<1>11. ASSUME NEW c \in Stoppers, StopCapture(c) PROVE TypeInv'
  <2>1. PICK g \in granted : BeginCall(c, g[2])
    BY <1>11 DEF StopCapture
  <2>2. c \in Callers /\ g[2] \in 0 .. MaxStarts
    BY <2>1 DEF Callers, StartTypeOK, Ops
  <2>3. UNCHANGED startVars /\ shuttingDown' \in BOOLEAN /\ shutdownActive' \in BOOLEAN
    BY <1>11 DEF StopCapture, StopTypeOK
  <2>4. BridgeTypeOK' /\ StopTypeOK'
    BY <2>1, <2>2, <2>3, BeginCallType
  <2>5. captureOwner' = captureOwner
    BY <2>1, <2>2, StopKeepsOwner
  <2> QED  BY <2>3, <2>4, <2>5 DEF startVars, StartTypeOK, RequestsKnown, OwnerKnown
<1>12. CASE Close
  <2>1. Shutdown \in Callers
    BY DEF Callers
  <2>2. BeginCall(Shutdown, 0) /\ UNCHANGED startVars
        /\ shuttingDown' \in BOOLEAN /\ shutdownActive' \in BOOLEAN
    BY <1>12 DEF Close
  <2>3. BridgeTypeOK' /\ StopTypeOK'
    BY <1>0, <2>1, <2>2, BeginCallType
  <2>4. captureOwner' = captureOwner
    BY <2>1, <2>2, StopKeepsOwner
  <2> QED  BY <2>2, <2>3, <2>4 DEF startVars, StartTypeOK, RequestsKnown, OwnerKnown
<1>13. ASSUME NEW c \in Callers, StopResumes(c) PROVE TypeInv'
  <2>1. UNCHANGED startVars /\ shuttingDown' \in BOOLEAN /\ shutdownActive' \in BOOLEAN
    BY <1>13 DEF StopResumes, StopTypeOK
  <2>2. claim[c] \in 0 .. MaxStarts
    BY DEF StopTypeOK
  <2>3. BridgeTypeOK' /\ StopTypeOK' /\ captureOwner' = captureOwner
    <3>1. CASE UNCHANGED bridgeVars /\ EndCall(c)
      <4>1. BridgeTypeOK' /\ captureOwner' = captureOwner
        BY <3>1 DEF bridgeVars, BridgeTypeOK
      <4> QED  BY <2>1, <3>1, <4>1, EndCallType
    <3>2. CASE EnterStop(c, claim[c])
      BY <2>1, <2>2, <3>2, EnterStopType, StopKeepsOwner
    <3> QED  BY <1>13, <3>1, <3>2 DEF StopResumes
  <2> QED  BY <2>1, <2>3 DEF startVars, StartTypeOK, RequestsKnown, OwnerKnown
<1>14. ASSUME NEW c \in Callers, FinishCounter(c) PROVE TypeInv'
  <2>1. kernelDropEvidence' \in [source : {"unavailable", "capture-active", "measured"},
                                 counter : 0 .. MaxStarts]
    BY <1>14 DEF FinishCounter, LastSamples, BridgeTypeOK
  <2>2. BridgeTypeOK'
    BY <1>14, <2>1 DEF FinishCounter, BridgeTypeOK
  <2> QED  BY <1>14, <2>2 DEF FinishCounter, StartTypeOK, StopTypeOK, RequestsKnown,
                              OwnerKnown
<1>15. ASSUME NEW c \in Callers, StopCompletes(c) PROVE TypeInv'
  <2>1. PICK lost \in MayOverflow :
          /\ capture' = IF capture.id = 0 THEN capture
                        ELSE [capture EXCEPT !.ended = TRUE]
          /\ captureJournal' =
               Overflow(FinishJournal(captureJournal, capture.datagrams, CleanStop(c)),
                        capture.datagrams, lost)
          /\ state' = "stopped"
          /\ EndCall(c)
          /\ UNCHANGED <<udpSocket, udpAddress, multicastMembership, captureOwner,
                         kernelDropEvidence, udpKernelDropCounter, startVars,
                         shuttingDown, shutdownActive>>
    BY <1>15 DEF StopCompletes
  <2>2. CleanStop(c) \in BOOLEAN
    BY DEF CleanStop
  <2>3. FinishJournal(captureJournal, capture.datagrams, CleanStop(c)) \in Journal
    BY <1>0, <2>2, FinishJournalType DEF BridgeTypeOK
  <2>4. captureJournal' \in Journal
    BY <1>0, <2>1, <2>3, OverflowType, MayOverflowType
  <2>5. BridgeTypeOK'
    BY <2>1, <2>4 DEF BridgeTypeOK, Capture, States
  <2>6. StopTypeOK'
    BY <2>1, <2>5, EndCallType DEF StopTypeOK
  <2> QED  BY <2>1, <2>5, <2>6 DEF startVars, StartTypeOK, RequestsKnown, OwnerKnown
<1>16. CASE UNCHANGED vars
  BY <1>16 DEF vars, bridgeVars, startVars, stopVars, BridgeTypeOK, StartTypeOK,
               StopTypeOK, RequestsKnown, OwnerKnown
<1> QED
  BY <1>1, <1>2, <1>3, <1>5, <1>6, <1>7, <1>8, <1>9, <1>10, <1>11, <1>12, <1>13,
     <1>14, <1>15, <1>16 DEF Next

\* The strengthened invariant holds in every state.
LEMMA TypeInvariant == Spec => []TypeInv
BY InitType, NextType, PTL DEF Spec

\* Every variable stays in its range, for every number of starts, datagrams
\* and clients: no interleaving of the bridge's callbacks builds a status
\* document with a field of the wrong kind.
THEOREM TypeCorrect == Spec => []TypeOK
<1>1. TypeInv => TypeOK
  BY DEF TypeInv
<1> QED  BY <1>1, TypeInvariant, PTL
-----------------------------------------------------------------------------
(* Leases.  Who waits for a start, and who was answered, sent its nonce;   *)
(* a start keeps the nonce and settings it was accepted with.              *)

LeaseInv ==
  /\ \A w \in waiters \cup granted : phase[w[2]] # "unused" /\ request[w[2]][1] = w[1]
  /\ startPromise # 0 => phase[startPromise] # "unused"
  /\ captureOwner.lease # 0 =>
       /\ phase[captureOwner.lease] # "unused"
       /\ request[captureOwner.lease] = captureOwner.by

\* No step reuses the number of a start or changes what it was asked for.
LEMMA RequestsFixed ==
  ASSUME TypeOK, [Next]_vars, NEW op \in Ops, phase[op] # "unused"
  PROVE  phase'[op] # "unused" /\ request'[op] = request[op]
<1> USE DEF TypeOK, StartTypeOK
<1>1. ASSUME NEW n \in Nonces, NEW k \in Keys,
             StartCapture(n, k) \/ JoinStart(n, k) \/ RetryStart(n, k)
      PROVE  phase'[op] # "unused" /\ request'[op] = request[op]
  BY <1>1 DEF StartCapture, JoinStart, RetryStart
<1>2. ASSUME NEW p \in Ops,
             \/ BindFails(p) \/ MembershipFails(p) \/ Listening(p)
             \/ CaptureBegins(p) \/ HandleDatagram(p) \/ MarkSocketFailure(p)
      PROVE  phase'[op] # "unused" /\ request'[op] = request[op]
  BY <1>2 DEF BindFails, MembershipFails, StartFails, Listening, CaptureBegins,
              HandleDatagram, MarkSocketFailure, startVars
<1>3. ASSUME UNCHANGED startVars
      PROVE  phase'[op] # "unused" /\ request'[op] = request[op]
  BY <1>3 DEF startVars
<1>4. CASE UNCHANGED vars
  BY <1>4 DEF vars, startVars
<1>5. ASSUME NEW c \in Callers,
             \/ c \in Stoppers /\ StopCapture(c)
             \/ FinishCounter(c) \/ StopCompletes(c) \/ StopResumes(c) \/ Close
      PROVE  phase'[op] # "unused" /\ request'[op] = request[op]
  BY <1>3, <1>5 DEF StopCapture, FinishCounter, StopCompletes, StopResumes, Close,
                    startVars
<1> QED  BY <1>1, <1>2, <1>4, <1>5 DEF Next, Callers

\* What a step may add to those who wait for or hold a lease.
LEMMA LeaseStep ==
  ASSUME TypeInv, LeaseInv, [Next]_vars
  PROVE  LeaseInv'
<1> USE DEF TypeInv, TypeOK
<1>1. \A op \in Ops : phase[op] # "unused" =>
        phase'[op] # "unused" /\ request'[op] = request[op]
  BY RequestsFixed
<1>2. /\ waiters \subseteq Nonces \X Ops /\ granted \subseteq Nonces \X Ops
      /\ startPromise # 0 => startPromise \in Ops
      /\ captureOwner.lease # 0 => captureOwner.lease \in Ops
  BY DEF StartTypeOK, BridgeTypeOK, Ops
<1>3. ASSUME UNCHANGED <<waiters, granted, startPromise, captureOwner>> PROVE LeaseInv'
  BY <1>1, <1>2, <1>3 DEF LeaseInv
<1>4. ASSUME NEW n \in Nonces, NEW k \in Keys, StartCapture(n, k) PROVE LeaseInv'
  <2>1. PICK op \in Ops :
          /\ phase' = [phase EXCEPT ![op] = "binding"]
          /\ request' = [request EXCEPT ![op] = <<n, k>>]
          /\ startPromise' = op
          /\ waiters' = waiters \cup {<<n, op>>}
          /\ UNCHANGED <<granted, captureOwner>>
    BY <1>4 DEF StartCapture
  <2>2. phase'[op] = "binding" /\ request'[op] = <<n, k>>
    BY <2>1 DEF StartTypeOK
  <2> QED  BY <1>1, <1>2, <2>1, <2>2 DEF LeaseInv
<1>5. ASSUME NEW n \in Nonces, NEW k \in Keys, JoinStart(n, k) PROVE LeaseInv'
  <2>1. /\ startPromise # 0 /\ request[startPromise] = <<n, k>>
        /\ waiters' = waiters \cup {<<n, startPromise>>}
        /\ UNCHANGED <<granted, captureOwner, startPromise>>
    BY <1>5 DEF JoinStart, SameStartRequest, bridgeVars
  <2> QED  BY <1>1, <1>2, <2>1 DEF LeaseInv
<1>6. ASSUME NEW n \in Nonces, NEW k \in Keys, RetryStart(n, k) PROVE LeaseInv'
  <2>1. /\ captureOwner.by = <<n, k>>
        /\ granted' = granted \cup {<<n, captureOwner.lease>>}
        /\ UNCHANGED <<waiters, captureOwner, startPromise>>
    BY <1>6 DEF RetryStart, SameStartRequest, bridgeVars
  <2>2. captureOwner.lease \in Ops /\ captureOwner.lease # 0
    BY <2>1, BridgeAssumption DEF OwnerKnown, Ops
  <2> QED  BY <1>1, <1>2, <2>1, <2>2 DEF LeaseInv
<1>7. ASSUME NEW op \in Ops, BindFails(op) \/ MembershipFails(op) PROVE LeaseInv'
  <2>1. waiters' \subseteq waiters /\ startPromise' \in {0, startPromise}
        /\ UNCHANGED <<granted, captureOwner>>
    BY <1>7 DEF BindFails, MembershipFails, StartFails, Settle
  <2> QED  BY <1>1, <1>2, <2>1 DEF LeaseInv
<1>8. ASSUME NEW op \in Ops, CaptureBegins(op) PROVE LeaseInv'
  <2>1. phase[op] = "counting"
    BY <1>8 DEF CaptureBegins
  <2>2. \/ UNCHANGED <<waiters, granted, startPromise, captureOwner>>
        \/ /\ waiters' \subseteq waiters /\ granted' \subseteq waiters \cup granted
           /\ startPromise' \in {0, startPromise}
           /\ captureOwner' = [lease |-> op, by |-> request[op]]
    BY <1>8 DEF CaptureBegins, Settle
  <2>3. CASE captureOwner' = [lease |-> op, by |-> request[op]]
             /\ waiters' \subseteq waiters /\ granted' \subseteq waiters \cup granted
             /\ startPromise' \in {0, startPromise}
    BY <1>1, <1>2, <2>1, <2>3 DEF LeaseInv
  <2> QED  BY <1>3, <2>2, <2>3
<1>9. ASSUME NEW op \in Ops, Listening(op) \/ HandleDatagram(op) \/ MarkSocketFailure(op)
      PROVE  LeaseInv'
  BY <1>3, <1>9 DEF Listening, HandleDatagram, MarkSocketFailure, startVars
<1>10. ASSUME NEW c \in Callers,
              \/ c \in Stoppers /\ StopCapture(c)
              \/ FinishCounter(c) \/ StopCompletes(c) \/ StopResumes(c) \/ Close
       PROVE  LeaseInv'
  <2>1. captureOwner' = captureOwner
    BY <1>10, StopKeepsOwner
    DEF StopCapture, FinishCounter, StopCompletes, StopResumes, Close, Callers, bridgeVars
  <2>2. CASE FinishCounter(c)
    BY <1>3, <2>1, <2>2 DEF FinishCounter
  <2>3. CASE ~FinishCounter(c)
    <3>1. UNCHANGED startVars
      BY <1>10, <2>3 DEF StopCapture, StopCompletes, StopResumes, Close
    <3> QED  BY <1>3, <2>1, <3>1 DEF startVars
  <2> QED  BY <2>2, <2>3
<1>11. CASE UNCHANGED vars
  BY <1>3, <1>11 DEF vars, startVars, bridgeVars
<1> QED
  BY <1>4, <1>5, <1>6, <1>7, <1>8, <1>9, <1>10, <1>11 DEF Next, Callers

\* The bridge begins without leases.
LEMMA LeaseInit == Init => LeaseInv
BY DEF Init, LeaseInv, NoOwner

\* Whatever the interleaving of retries, failures, stops and later starts, a
\* caller is only given the lease of a capture its own nonce started: no
\* client ever adopts a capture it did not start.
THEOREM LeasesAreOwn == Spec => []LeaseOnlyToStarter
<1>1. Init => LeaseInv
  BY LeaseInit
<1>2. TypeInv /\ LeaseInv /\ [Next]_vars => LeaseInv'
  BY LeaseStep
<1>3. LeaseInv => LeaseOnlyToStarter
  BY DEF LeaseInv, LeaseOnlyToStarter
<1> QED  BY <1>1, <1>2, <1>3, TypeInvariant, PTL DEF Spec

-----------------------------------------------------------------------------
(***************************************************************************)
(* The control invariant, and what follows from it: one start at a time,   *)
(* no leaked socket, a capture that is what the bridge says it is.  It     *)
(* needs EarlySocketErrors = FALSE: a socket that fails while its start    *)
(* awaits the kernel drop counter breaks it.                               *)
(***************************************************************************)

InFlight == {"binding", "counting"}

Ending(c) == pc[c] \in {"finishing", "closing"}

\* The start in progress is the one awaited, the bridge says so, and its
\* address and its drop counter are known as soon as its socket listens.
StartControl ==
  /\ \A op \in Ops : phase[op] \in InFlight =>
       startPromise = op /\ udpSocket = op /\ state = "starting"
  /\ startPromise # 0 => phase[startPromise] \in InFlight
  /\ state = "starting" => startPromise # 0
  /\ \A op \in Ops : phase[op] = "counting" =>
       udpAddress # NoAddress /\ udpKernelDropCounter = op
  /\ \A op \in Ops : phase[op] # "faulted"

\* At most one stop is past its first await, with the lease of the capture
\* unless it is close()'s, and the bridge says so; when a start has settled, no other begins before those who awaited it resume.
StopControl ==
  /\ \A c \in Callers : Ending(c) => state = "stopping"
  /\ \A c, d \in Callers : Ending(c) /\ Ending(d) => c = d
  /\ \A c \in Callers : Ending(c) /\ c # Shutdown => claim[c] = capture.id
  /\ \A c \in Callers : pc[c] = "awaitStart" => held[c] \in Ops /\ phase[held[c]] # "unused"
  /\ \A c \in Callers : Ready(c) => startPromise = 0

\* The capture is open exactly while the bridge is capturing or stopping, and
\* then the socket, the lease and the kernel drop counter are the capture's.
CaptureControl ==
  /\ udpSocket # 0 => state \in {"starting", "capturing"}
  /\ capture.id # 0 => phase[capture.id] = "done"
  /\ (capture.id # 0 /\ ~capture.ended) <=> state \in {"capturing", "stopping"}
  /\ state = "capturing" => udpSocket = capture.id /\ captureOwner.lease = capture.id
  /\ state \in {"capturing", "stopping"} => udpKernelDropCounter = capture.id

\* A socket is open if the bridge holds it or a stop is about to close it.
SocketControl ==
  \A op \in Ops :
    op \in sockets <=> \/ op = udpSocket
                       \/ \E c \in Callers : pc[c] = "finishing" /\ held[c] = op

Control == StartControl /\ StopControl /\ CaptureControl /\ SocketControl

\* close() has its own call of stopCapture, and only once.
ShutdownControl == ~shuttingDown => pc[Shutdown] = "idle"

ControlInv == TypeInv /\ Control /\ ShutdownControl

\* The bridge begins without a start, a stop, a capture or a socket.
LEMMA ControlInit == Init => Control
<1> SUFFICES ASSUME Init PROVE Control
  OBVIOUS
<1> USE BridgeAssumption DEF Init
<1>1. StartControl
  BY DEF StartControl, InFlight
<1>2. StopControl
  BY DEF StopControl, Ending, Ready
<1>3. CaptureControl
  BY DEF CaptureControl, NoCapture
<1>4. SocketControl
  BY DEF SocketControl, Ops
<1> QED  BY <1>1, <1>2, <1>3, <1>4 DEF Control

\* A start is only accepted while none is in progress.
LEMMA StartCaptureControl ==
  ASSUME ControlInv, NEW n \in Nonces, NEW k \in Keys, StartCapture(n, k)
  PROVE  Control'
<1> USE DEF ControlInv, TypeInv, TypeOK, Control
<1>1. PICK op \in Ops :
        /\ Quiet /\ MayStart
        /\ phase[op] = "unused"
        /\ state' = "starting"
        /\ udpSocket' = op /\ sockets' = sockets \cup {op}
        /\ phase' = [phase EXCEPT ![op] = "binding"]
        /\ startPromise' = op
        /\ UNCHANGED <<udpAddress, capture, captureOwner, udpKernelDropCounter, stopVars>>
  BY DEF StartCapture
<1>2. op # 0 /\ 0 \notin Ops
  BY BridgeAssumption DEF Ops
<1>3. phase \in [Ops -> Phases] /\ startPromise = 0 /\ udpSocket = 0
  BY <1>1 DEF StartTypeOK, StartControl, CaptureControl, MayStart, InFlight, Ops
<1>4. StartControl'
  BY <1>1, <1>2, <1>3 DEF StartControl, MayStart, InFlight
<1>5. StopControl'
  BY <1>1, <1>2, <1>3 DEF StopControl, Quiet, Ready, Ending, MayStart, stopVars
<1>6. CaptureControl'
  BY <1>1, <1>2, <1>3 DEF CaptureControl, MayStart, BridgeTypeOK, Capture, Ops
<1>7. SocketControl'
  BY <1>1, <1>2, <1>3 DEF SocketControl, stopVars
<1> QED  BY <1>4, <1>5, <1>6, <1>7

\* The invariant speaks of these variables only.
LEMMA ControlFrame ==
  ASSUME Control, capture'.id = capture.id, capture'.ended = capture.ended,
         UNCHANGED <<state, udpSocket, udpAddress, captureOwner, udpKernelDropCounter,
                     startPromise, phase, sockets, pc, claim, held>>
  PROVE  Control'
BY DEF Control, StartControl, StopControl, CaptureControl, SocketControl, InFlight,
       Ending, Ready

\* A start that fails leaves no socket and wakes those who await it.
LEMMA StartFailsControl ==
  ASSUME ControlInv, NEW op \in Ops, NEW a, phase[op] = "binding", StartFails(op, a)
  PROVE  Control'
<1> USE DEF ControlInv, TypeInv, TypeOK, Control
<1>1. /\ Quiet
      /\ state' = "error"
      /\ udpSocket' = 0 /\ sockets' = sockets \ {op}
      /\ phase' = [phase EXCEPT ![op] = "failed"]
      /\ startPromise' = IF startPromise = op THEN 0 ELSE startPromise
      /\ UNCHANGED <<capture, captureOwner, udpKernelDropCounter, pc, claim, held>>
  BY DEF StartFails, Settle, stopVars
<1>2. op # 0 /\ 0 \notin Ops
  BY BridgeAssumption DEF Ops
<1>3. /\ phase \in [Ops -> Phases] /\ startPromise = op /\ udpSocket = op
      /\ state = "starting"
      /\ \A p \in Ops : p # op => phase[p] \notin InFlight
      /\ \A c \in Callers : ~Ending(c)
  BY <1>1 DEF StartTypeOK, StartControl, StopControl, InFlight
<1>4. StartControl'
  BY <1>1, <1>2, <1>3 DEF StartControl, InFlight
<1>5. StopControl'
  BY <1>1, <1>2, <1>3 DEF StopControl, Quiet, Ready, Ending
<1>6. CaptureControl'
  BY <1>1, <1>2, <1>3 DEF CaptureControl, BridgeTypeOK, Capture, Ops
<1>7. SocketControl'
  BY <1>1, <1>2, <1>3 DEF SocketControl, Ending
<1> QED  BY <1>4, <1>5, <1>6, <1>7

\* A socket that listens belongs to the start in progress.
LEMMA ListeningControl ==
  ASSUME ControlInv, NEW op \in Ops, Listening(op)
  PROVE  Control'
<1> USE DEF ControlInv, TypeInv, TypeOK, Control
<1>1. /\ phase[op] = "binding" /\ udpAddress' \in BindsTo[request[op][2]]
      /\ udpKernelDropCounter' = op
      /\ phase' = [phase EXCEPT ![op] = "counting"]
      /\ UNCHANGED <<state, udpSocket, capture, captureOwner, startPromise, sockets,
                     pc, claim, held>>
  BY DEF Listening, stopVars
<1>2. phase \in [Ops -> Phases] /\ state = "starting" /\ startPromise \in 0 .. MaxStarts
  BY <1>1 DEF StartTypeOK, StartControl, InFlight
<1>3. udpAddress' # NoAddress
  <2>1. request[op] \in Nonces \X Keys
    BY <1>1 DEF RequestsKnown
  <2> QED  BY <1>1, <2>1, BridgeAssumption
<1>4. StartControl'
  BY <1>1, <1>2, <1>3 DEF StartControl, InFlight, Ops
<1>5. StopControl'
  BY <1>1, <1>2 DEF StopControl, Ready, Ending
<1>6. CaptureControl'
  BY <1>1, <1>2 DEF CaptureControl, BridgeTypeOK, Capture, Ops
<1>7. SocketControl'
  BY <1>1 DEF SocketControl
<1> QED  BY <1>4, <1>5, <1>6, <1>7

\* A capture begins with the socket of its start, and the previous one has
\* ended.
LEMMA CaptureBeginsControl ==
  ASSUME ControlInv, NEW op \in Ops, CaptureBegins(op)
  PROVE  Control'
<1> USE DEF ControlInv, TypeInv, TypeOK, Control
<1>1. Quiet /\ phase[op] = "counting"
  BY DEF CaptureBegins
<1>2. /\ capture' = [id |-> op, datagrams |-> 0, ended |-> FALSE]
      /\ phase' = [phase EXCEPT ![op] = "done"]
      /\ captureOwner' = [lease |-> op, by |-> request[op]]
      /\ state' = "capturing"
      /\ startPromise' = IF startPromise = op THEN 0 ELSE startPromise
      /\ UNCHANGED <<udpSocket, udpAddress, udpKernelDropCounter, sockets, pc, claim, held>>
  BY <1>1 DEF CaptureBegins, StartControl, Settle, stopVars
<1>3. op # 0 /\ 0 \notin Ops
  BY BridgeAssumption DEF Ops
<1>4. /\ phase \in [Ops -> Phases] /\ startPromise = op /\ udpSocket = op
      /\ state = "starting"
      /\ \A p \in Ops : p # op => phase[p] \notin InFlight
      /\ \A c \in Callers : ~Ending(c)
  BY <1>1 DEF StartTypeOK, StartControl, StopControl, InFlight
<1>5. udpKernelDropCounter = op
  BY <1>1 DEF StartControl
<1>6. StartControl'
  BY <1>2, <1>3, <1>4 DEF StartControl, InFlight
<1>7. StopControl'
  BY <1>1, <1>2, <1>3, <1>4 DEF StopControl, Quiet, Ready, Ending
<1>8. CaptureControl'
  BY <1>2, <1>3, <1>4, <1>5 DEF CaptureControl
<1>9. SocketControl'
  BY <1>2 DEF SocketControl
<1> QED  BY <1>6, <1>7, <1>8, <1>9

\* A socket fails only while its capture is open: its start is over, and no
\* stop has taken it.
LEMMA SocketFailureControl ==
  ASSUME ControlInv, EarlySocketErrors = FALSE, NEW op \in Ops, MarkSocketFailure(op)
  PROVE  Control'
<1> USE DEF ControlInv, TypeInv, TypeOK, Control
<1>1. /\ Quiet /\ op \in sockets /\ phase[op] = "done"
      /\ state \notin {"stopping", "stopped"}
      /\ state' = "error"
      /\ capture' = IF capture.id = 0 THEN capture ELSE [capture EXCEPT !.ended = TRUE]
      /\ udpSocket' = 0 /\ sockets' = sockets \ {udpSocket}
      /\ UNCHANGED <<udpAddress, captureOwner, udpKernelDropCounter, startPromise,
                     phase, pc, claim, held>>
  BY DEF MarkSocketFailure, Delivers, IgnoresSocketErrors, stopVars
<1>2. op # 0 /\ 0 \notin Ops
  BY BridgeAssumption DEF Ops
<1>3. \A c \in Callers : ~Ending(c)
  BY <1>1 DEF StopControl
<1>4. udpSocket = op
  BY <1>1, <1>3 DEF SocketControl, Ending
<1>5. \A p \in Ops : phase[p] \notin InFlight
  BY <1>1, <1>4 DEF StartControl, InFlight
<1>6. startPromise = 0 /\ state = "capturing" /\ capture.id # 0
  BY <1>1, <1>2, <1>4, <1>5 DEF StartControl, CaptureControl, StartTypeOK, Ops
<1>7. capture'.id = capture.id /\ capture'.ended
  BY <1>1, <1>6 DEF BridgeTypeOK, Capture
<1>8. StartControl'
  BY <1>1, <1>5, <1>6 DEF StartControl, InFlight
<1>9. StopControl'
  BY <1>1, <1>3 DEF StopControl, Ready, Ending
<1>10. CaptureControl'
  BY <1>1, <1>6, <1>7 DEF CaptureControl
<1>11. SocketControl'
  BY <1>1, <1>2, <1>3, <1>4 DEF SocketControl, Ending
<1> QED  BY <1>8, <1>9, <1>10, <1>11

\* A stop is entered when no start is in progress; it takes the socket of the
\* capture, if there is one.
LEMMA EnterStopControl ==
  ASSUME ControlInv, NEW c \in Callers, NEW id, startPromise = 0,
         ~Ending(c), EnterStop(c, id), UNCHANGED startVars
  PROVE  Control'
<1> USE DEF ControlInv, TypeInv, TypeOK, Control
<1>1. phase \in [Ops -> Phases] /\ \A p \in Ops : phase[p] \notin InFlight
  BY BridgeAssumption DEF StartTypeOK, StartControl, Ops
<1>2. UNCHANGED <<startPromise, phase, sockets>> /\ \A d \in Callers : d # c =>
        pc'[d] = pc[d] /\ held'[d] = held[d] /\ claim'[d] = claim[d]
  BY DEF EnterStop, EndCall, startVars, StopTypeOK
<1>3. CASE UNCHANGED bridgeVars /\ EndCall(c)
  <2>1. pc'[c] \in {"idle", "closed"}
    BY <1>3 DEF EndCall, StopTypeOK
  <2>2. UNCHANGED <<state, udpSocket, udpAddress, capture, captureOwner,
                    udpKernelDropCounter>>
    BY <1>3 DEF bridgeVars
  <2>3. StartControl' /\ CaptureControl'
    BY <1>2, <2>2 DEF StartControl, CaptureControl
  <2>4. StopControl'
    BY <1>2, <2>1, <2>2 DEF StopControl, Ready, Ending
  <2>5. SocketControl'
    BY <1>2, <2>1, <2>2 DEF SocketControl, Ending
  <2> QED  BY <2>3, <2>4, <2>5
<1>4. CASE ~(UNCHANGED bridgeVars /\ EndCall(c))
  <2>1. /\ udpSocket # 0
        /\ state' = "stopping" /\ udpSocket' = 0
        /\ pc' = [pc EXCEPT ![c] = "finishing"]
        /\ held' = [held EXCEPT ![c] = udpSocket]
        /\ claim' = [claim EXCEPT ![c] = id]
        /\ c = Shutdown \/ capture.id = id
        /\ UNCHANGED <<udpAddress, capture, captureOwner, udpKernelDropCounter>>
    BY <1>4 DEF EnterStop, OwnsCapture
  <2>2. pc'[c] = "finishing" /\ held'[c] = udpSocket /\ claim'[c] = id
    BY <2>1 DEF StopTypeOK
  <2>3. state = "capturing" /\ \A d \in Callers : ~Ending(d)
    BY <2>1 DEF StartControl, CaptureControl, StopControl
  <2>4. StartControl'
    BY <1>1, <1>2, <2>1 DEF StartControl, InFlight
  <2>5. StopControl'
    BY <1>2, <2>1, <2>2, <2>3 DEF StopControl, Ready, Ending
  <2>6. CaptureControl'
    BY <1>2, <2>1, <2>3 DEF CaptureControl
  <2>7. SocketControl'
    BY <1>2, <2>1, <2>2, <2>3, BridgeAssumption DEF SocketControl, Ending, Ops
  <2> QED  BY <2>4, <2>5, <2>6, <2>7
<1> QED  BY <1>3, <1>4

\* A call of stopCapture enters a stop, or awaits the start in progress.
LEMMA BeginCallControl ==
  ASSUME ControlInv, Quiet, NEW c \in Callers, NEW id, pc[c] = "idle",
         BeginCall(c, id), UNCHANGED startVars
  PROVE  Control'
<1> USE DEF ControlInv, TypeInv, TypeOK, Control
<1>1. CASE startPromise = 0 /\ EnterStop(c, id)
  BY <1>1, EnterStopControl DEF Ending
<1>2. CASE startPromise # 0 /\ AwaitStart(c, id)
  <2>1. /\ pc'[c] = "awaitStart" /\ held'[c] = startPromise
        /\ \A d \in Callers : d # c =>
             pc'[d] = pc[d] /\ held'[d] = held[d] /\ claim'[d] = claim[d]
        /\ UNCHANGED <<state, udpSocket, udpAddress, capture, captureOwner,
                       udpKernelDropCounter, startPromise, phase, sockets>>
    BY <1>2 DEF AwaitStart, StopTypeOK, bridgeVars, startVars
  <2>2. startPromise \in Ops /\ phase[startPromise] \in InFlight
    BY <1>2 DEF StartTypeOK, StartControl, Ops
  <2>3. StartControl' /\ CaptureControl'
    BY <2>1 DEF StartControl, CaptureControl
  <2>4. StopControl'
    BY <2>1, <2>2 DEF StopControl, Ready, Ending, InFlight
  <2>5. SocketControl'
    BY <2>1 DEF SocketControl
  <2> QED  BY <2>3, <2>4, <2>5
<1> QED  BY <1>1, <1>2 DEF BeginCall

\* A stop resumes after its start settled, with nothing else in between.
LEMMA StopResumesControl ==
  ASSUME ControlInv, NEW c \in Callers, StopResumes(c)
  PROVE  Control'
<1>1. startPromise = 0 /\ ~Ending(c) /\ UNCHANGED startVars
  BY DEF StopResumes, Ready, ControlInv, Control, StopControl, Ending
<1>2. CASE EnterStop(c, claim[c])
  BY <1>1, <1>2, EnterStopControl
<1>3. CASE UNCHANGED bridgeVars /\ EndCall(c)
  <2>1. /\ pc'[c] \in {"idle", "closed"}
        /\ \A d \in Callers : d # c =>
             pc'[d] = pc[d] /\ held'[d] = held[d] /\ claim'[d] = claim[d]
        /\ UNCHANGED <<state, udpSocket, udpAddress, capture, captureOwner,
                       udpKernelDropCounter, startPromise, phase, sockets>>
    BY <1>1, <1>3 DEF EndCall, ControlInv, TypeInv, TypeOK, StopTypeOK, bridgeVars,
                      startVars
  <2> USE DEF ControlInv, Control
  <2>2. StartControl' /\ CaptureControl'
    BY <2>1 DEF StartControl, CaptureControl
  <2>3. StopControl'
    BY <2>1 DEF StopControl, Ready, Ending
  <2>4. SocketControl'
    BY <1>1, <2>1 DEF SocketControl, Ending
  <2> QED  BY <2>2, <2>3, <2>4
<1> QED  BY <1>2, <1>3 DEF StopResumes

\* A stop closes the socket it took, then ends the capture.
LEMMA FinishCounterControl ==
  ASSUME ControlInv, NEW c \in Callers, FinishCounter(c)
  PROVE  Control'
<1> USE DEF ControlInv, TypeInv, TypeOK, Control
<1>1. /\ pc[c] = "finishing" /\ pc' = [pc EXCEPT ![c] = "closing"]
      /\ sockets' = sockets \ {held[c]}
      /\ UNCHANGED <<state, udpSocket, udpAddress, capture, captureOwner,
                     udpKernelDropCounter, startPromise, phase, claim, held>>
  BY DEF FinishCounter
<1>2. pc'[c] = "closing" /\ \A d \in Callers : d # c => pc'[d] = pc[d]
  BY <1>1 DEF StopTypeOK
<1>3. udpSocket = 0 /\ \A d \in Callers : Ending(d) => d = c
  BY <1>1 DEF StopControl, CaptureControl, Ending
<1>4. StartControl' /\ CaptureControl'
  BY <1>1 DEF StartControl, CaptureControl
<1>5. StopControl'
  BY <1>1, <1>2 DEF StopControl, Ready, Ending
<1>6. SocketControl'
  BY <1>1, <1>2, <1>3, BridgeAssumption DEF SocketControl, Ending, Ops
<1> QED  BY <1>4, <1>5, <1>6

\* The end of a stop ends the capture it was for.
LEMMA StopCompletesControl ==
  ASSUME ControlInv, NEW c \in Callers, StopCompletes(c)
  PROVE  Control'
<1> USE DEF ControlInv, TypeInv, TypeOK, Control
<1>1. /\ pc[c] = "closing" /\ state' = "stopped"
      /\ capture' = IF capture.id = 0 THEN capture ELSE [capture EXCEPT !.ended = TRUE]
      /\ EndCall(c)
      /\ UNCHANGED <<udpSocket, udpAddress, captureOwner, udpKernelDropCounter,
                     startPromise, phase, sockets>>
  BY DEF StopCompletes, startVars
<1>2. /\ pc'[c] \in {"idle", "closed"}
      /\ \A d \in Callers : d # c =>
           pc'[d] = pc[d] /\ held'[d] = held[d] /\ claim'[d] = claim[d]
  BY <1>1 DEF EndCall, StopTypeOK
<1>3. state = "stopping" /\ \A d \in Callers : Ending(d) => d = c
  BY <1>1 DEF StopControl, Ending
<1>4. capture.id # 0 /\ capture'.id = capture.id /\ capture'.ended
  BY <1>1, <1>3 DEF CaptureControl, BridgeTypeOK, Capture
<1>5. StartControl'
  BY <1>1, <1>3 DEF StartControl
<1>6. StopControl'
  BY <1>1, <1>2, <1>3, <1>4 DEF StopControl, Ready, Ending
<1>7. CaptureControl'
  BY <1>1, <1>3, <1>4 DEF CaptureControl
<1>8. SocketControl'
  BY <1>1, <1>2 DEF SocketControl
<1> QED  BY <1>5, <1>6, <1>7, <1>8

\* Only close() moves its own call, and it sets shuttingDown first.
LEMMA ShutdownStep == ControlInv /\ [Next]_vars => ShutdownControl'
<1> SUFFICES ASSUME ControlInv, [Next]_vars, ~shuttingDown'
             PROVE  pc'[Shutdown] = "idle"
  BY DEF ShutdownControl
<1> USE DEF ControlInv, ShutdownControl, TypeInv, TypeOK, StopTypeOK
<1>1. ASSUME UNCHANGED <<pc, shuttingDown>> PROVE pc'[Shutdown] = "idle"
  BY <1>1
<1>2. ASSUME NEW c \in Callers, c # Shutdown, shuttingDown' = shuttingDown,
             EndCall(c) \/ \E id \in 0 .. MaxStarts : EnterStop(c, id) \/ BeginCall(c, id)
      PROVE  pc'[Shutdown] = "idle"
  <2>1. pc'[Shutdown] = pc[Shutdown]
    BY <1>2 DEF EndCall, EnterStop, AwaitStart, BeginCall, Callers
  <2> QED  BY <1>2, <2>1
<1>3. ASSUME NEW n \in Nonces, NEW k \in Keys,
             StartCapture(n, k) \/ JoinStart(n, k) \/ RetryStart(n, k)
      PROVE  pc'[Shutdown] = "idle"
  BY <1>1, <1>3 DEF StartCapture, JoinStart, RetryStart, stopVars
<1>4. ASSUME NEW op \in Ops,
             \/ BindFails(op) \/ MembershipFails(op) \/ Listening(op)
             \/ CaptureBegins(op) \/ HandleDatagram(op) \/ MarkSocketFailure(op)
      PROVE  pc'[Shutdown] = "idle"
  BY <1>1, <1>4 DEF BindFails, MembershipFails, StartFails, Listening, CaptureBegins,
                    HandleDatagram, MarkSocketFailure, stopVars
<1>5. ASSUME NEW c \in Stoppers, StopCapture(c) PROVE pc'[Shutdown] = "idle"
  <2>1. PICK g \in granted : BeginCall(c, g[2])
    BY <1>5 DEF StopCapture
  <2>2. g[2] \in 0 .. MaxStarts /\ c \in Callers /\ c # Shutdown
    BY <2>1, BridgeAssumption DEF StartTypeOK, Callers, Ops
  <2> QED  BY <1>2, <1>5, <2>1, <2>2 DEF StopCapture
<1>6. ASSUME NEW c \in Callers, FinishCounter(c) \/ StopCompletes(c) \/ StopResumes(c)
      PROVE  pc'[Shutdown] = "idle"
  <2>1. shuttingDown' = shuttingDown /\ pc[c] # "idle" /\ claim[c] \in 0 .. MaxStarts
    BY <1>6 DEF FinishCounter, StopCompletes, StopResumes, Ready
  <2>2. c # Shutdown
    BY <2>1
  <2>3. CASE FinishCounter(c)
    BY <2>1, <2>2, <2>3 DEF FinishCounter, Callers
  <2>4. CASE StopCompletes(c) \/ StopResumes(c)
    BY <1>2, <2>1, <2>2, <2>4 DEF StopCompletes, StopResumes
  <2> QED  BY <1>6, <2>3, <2>4
<1>7. CASE UNCHANGED vars
  BY <1>1, <1>7 DEF vars, stopVars
<1>8. ~Close
  BY DEF Close
<1> QED  BY <1>3, <1>4, <1>5, <1>6, <1>7, <1>8 DEF Next

\* One step keeps the control invariant.
LEMMA ControlStep ==
  ASSUME ControlInv, EarlySocketErrors = FALSE, [Next]_vars
  PROVE  ControlInv'
<1>1. TypeInv' /\ ShutdownControl'
  BY NextType, ShutdownStep DEF ControlInv
<1>2. ASSUME NEW n \in Nonces, NEW k \in Keys, StartCapture(n, k) PROVE Control'
  BY <1>2, StartCaptureControl
<1>3. ASSUME NEW n \in Nonces, NEW k \in Keys, JoinStart(n, k) \/ RetryStart(n, k)
      PROVE  Control'
  BY <1>3, ControlFrame DEF JoinStart, RetryStart, ControlInv, bridgeVars, stopVars
<1>4. ASSUME NEW op \in Ops, BindFails(op) \/ MembershipFails(op) PROVE Control'
  BY <1>4, StartFailsControl DEF BindFails, MembershipFails
<1>5. ASSUME NEW op \in Ops, Listening(op) PROVE Control'
  BY <1>5, ListeningControl
<1>6. ASSUME NEW op \in Ops, CaptureBegins(op) PROVE Control'
  BY <1>6, CaptureBeginsControl
<1>7. ASSUME NEW op \in Ops, HandleDatagram(op) PROVE Control'
  <2>1. capture'.id = capture.id /\ capture'.ended = capture.ended
    BY <1>7 DEF HandleDatagram, ControlInv, TypeInv, TypeOK, BridgeTypeOK, Capture
  <2> QED  BY <1>7, <2>1, ControlFrame DEF HandleDatagram, ControlInv, startVars, stopVars
<1>8. ASSUME NEW op \in Ops, MarkSocketFailure(op) PROVE Control'
  BY <1>8, SocketFailureControl
<1>9. ASSUME NEW c \in Stoppers, StopCapture(c) PROVE Control'
  <2>1. PICK g \in granted : BeginCall(c, g[2])
    BY <1>9 DEF StopCapture
  <2>2. c \in Callers /\ Quiet /\ pc[c] = "idle" /\ UNCHANGED startVars
    BY <1>9 DEF StopCapture, Callers
  <2> QED  BY <2>1, <2>2, BeginCallControl
<1>10. ASSUME Close PROVE Control'
  <2>1. Shutdown \in Callers /\ pc[Shutdown] = "idle"
    BY <1>10 DEF Close, Callers, ControlInv, ShutdownControl
  <2> QED  BY <1>10, <2>1, BeginCallControl DEF Close
<1>11. ASSUME NEW c \in Callers, FinishCounter(c) PROVE Control'
  BY <1>11, FinishCounterControl
<1>12. ASSUME NEW c \in Callers, StopCompletes(c) PROVE Control'
  BY <1>12, StopCompletesControl
<1>13. ASSUME NEW c \in Callers, StopResumes(c) PROVE Control'
  BY <1>13, StopResumesControl
<1>14. ASSUME UNCHANGED vars PROVE Control'
  BY <1>14, ControlFrame DEF ControlInv, vars, bridgeVars, startVars, stopVars
<1>15. Control'
  BY <1>2, <1>3, <1>4, <1>5, <1>6, <1>7, <1>8, <1>9, <1>10, <1>11, <1>12, <1>13, <1>14
  DEF Next
<1> QED  BY <1>1, <1>15 DEF ControlInv

\* The control invariant holds in every state.
LEMMA ControlInvariant ==
  ASSUME EarlySocketErrors = FALSE
  PROVE  Spec => []ControlInv
<1>1. Init => ControlInv
  BY InitType, ControlInit DEF ControlInv, ShutdownControl, Init, Callers
<1>2. ASSUME ControlInv, [Next]_vars PROVE ControlInv'
  BY <1>2, ControlStep
<1> QED  BY <1>1, <1>2, PTL DEF Spec
-----------------------------------------------------------------------------
(* What follows from it.                                                   *)

\* At most one start is in progress and it is the one the bridge waits for,
\* however requests, retries, failures and stops interleave.
THEOREM OneStart ==
  ASSUME EarlySocketErrors = FALSE
  PROVE  Spec => []OneStartInProgress
<1>1. ControlInv => OneStartInProgress
  BY DEF ControlInv, Control, StartControl, InFlight, OneStartInProgress
<1> QED  BY <1>1, ControlInvariant, PTL

\* No path through a start, a failure, a stop or the shutdown leaks a socket.
THEOREM NoSocketLeaks ==
  ASSUME EarlySocketErrors = FALSE
  PROVE  Spec => []SocketsAccounted
<1>1. ControlInv => SocketsAccounted
  <2> SUFFICES ASSUME ControlInv PROVE SocketsAccounted
    OBVIOUS
  <2> USE DEF ControlInv, TypeInv, TypeOK, Control
  <2>1. sockets \subseteq Ops /\ 0 \notin Ops
    BY BridgeAssumption DEF StartTypeOK, Ops
  <2>2. udpSocket \in 0 .. MaxStarts /\ \A c \in Callers : held[c] \in 0 .. MaxStarts
    BY DEF BridgeTypeOK, StopTypeOK
  <2>3. \A op : op \in Ops <=> op \in 0 .. MaxStarts /\ op # 0
    BY BridgeAssumption DEF Ops
  <2> QED  BY <2>1, <2>2, <2>3 DEF SocketControl, SocketsAccounted
<1> QED  BY <1>1, ControlInvariant, PTL

\* A bridge that reports "capturing" holds the open socket of the capture it
\* reports, and the lease it handed out is the one that can stop it.
THEOREM CapturingIsReal ==
  ASSUME EarlySocketErrors = FALSE
  PROVE  Spec => []CapturingHoldsSocket
<1>1. ControlInv => CapturingHoldsSocket
  <2> SUFFICES ASSUME ControlInv, state = "capturing"
               PROVE  /\ capture.id # 0 /\ ~capture.ended
                      /\ udpSocket = capture.id /\ udpSocket \in sockets
                      /\ captureOwner.lease = capture.id
    BY DEF CapturingHoldsSocket
  <2> USE DEF ControlInv, TypeInv, TypeOK, Control
  <2>1. /\ capture.id # 0 /\ ~capture.ended
        /\ udpSocket = capture.id /\ captureOwner.lease = capture.id
    BY DEF CaptureControl
  <2>2. udpSocket \in Ops
    BY <2>1, BridgeAssumption DEF BridgeTypeOK, Ops
  <2> QED  BY <2>1, <2>2 DEF SocketControl
<1> QED  BY <1>1, ControlInvariant, PTL

\* A capturing bridge holds its socket, every open socket is owned, and one start is in progress
\* at most: the three facts above together, for any number of starts, clients and datagrams.
THEOREM SocketsAreOwned ==
  ASSUME EarlySocketErrors = FALSE
  PROVE  Spec => []SocketsOwned
<1>1. CapturingHoldsSocket /\ SocketsAccounted /\ OneStartInProgress => SocketsOwned
  BY DEF SocketsOwned
<1> QED  BY <1>1, OneStart, NoSocketLeaks, CapturingIsReal, PTL

\* A capture ends only by a stop presenting its own lease, by close() or by
\* the failure of its socket, whichever stops were sent before it began.
THEOREM OnlyOwnersEnd ==
  ASSUME EarlySocketErrors = FALSE
  PROVE  Spec => EndedByOwner
<1> DEFINE Ends == \/ state' = "error"
                   \/ pc[Shutdown] = "closing"
                   \/ \E c \in Stoppers : pc[c] = "closing" /\ claim[c] = capture.id
<1>1. ASSUME ControlInv, [Next]_vars, ~capture.ended, capture'.ended PROVE Ends
  <2> USE DEF ControlInv, TypeInv, TypeOK
  <2>1. ASSUME UNCHANGED capture PROVE FALSE
    BY <1>1, <2>1
  <2>2. ASSUME NEW c \in Callers, EnterStop(c, claim[c]) \/ \E id : BeginCall(c, id)
        PROVE  UNCHANGED capture
    BY <2>2 DEF BeginCall, EnterStop, AwaitStart, bridgeVars
  <2>3. ASSUME NEW n \in Nonces, NEW k \in Keys,
               StartCapture(n, k) \/ JoinStart(n, k) \/ RetryStart(n, k)
        PROVE  Ends
    BY <2>1, <2>3 DEF StartCapture, JoinStart, RetryStart, bridgeVars
  <2>4. ASSUME NEW op \in Ops, BindFails(op) \/ MembershipFails(op) \/ Listening(op)
        PROVE  Ends
    BY <2>1, <2>4 DEF BindFails, MembershipFails, StartFails, Listening
  <2>5. ASSUME NEW op \in Ops, CaptureBegins(op) PROVE Ends
    BY <1>1, <2>5 DEF CaptureBegins
  <2>6. ASSUME NEW op \in Ops, HandleDatagram(op) PROVE Ends
    BY <1>1, <2>6 DEF HandleDatagram, BridgeTypeOK, Capture
  <2>7. ASSUME NEW op \in Ops, MarkSocketFailure(op) PROVE Ends
    BY <2>7 DEF MarkSocketFailure
  <2>8. ASSUME NEW c \in Callers, FinishCounter(c) \/ StopResumes(c) PROVE Ends
    <3>1. CASE FinishCounter(c)
      BY <2>1, <3>1 DEF FinishCounter
    <3>2. CASE StopResumes(c)
      BY <2>1, <2>2, <3>2 DEF StopResumes, bridgeVars
    <3> QED  BY <2>8, <3>1, <3>2
  <2>9. ASSUME NEW c \in Callers, StopCompletes(c) PROVE Ends
    <3>1. pc[c] = "closing"
      BY <2>9 DEF StopCompletes
    <3>2. c # Shutdown => c \in Stoppers
      BY DEF Callers
    <3>3. Ending(c)
      BY <3>1 DEF Ending
    <3>4. c # Shutdown => claim[c] = capture.id
      BY <1>1, <3>3 DEF Control, StopControl
    <3> QED  BY <3>1, <3>2, <3>4
  <2>10. ASSUME Close PROVE Ends
    <3>1. Shutdown \in Callers /\ BeginCall(Shutdown, 0)
      BY <2>10 DEF Close, Callers
    <3> QED  BY <2>1, <2>2, <3>1
  <2>11. ASSUME NEW c \in Stoppers, StopCapture(c) PROVE Ends
    <3>1. c \in Callers /\ \E id : BeginCall(c, id)
      BY <2>11 DEF StopCapture, Callers
    <3> QED  BY <2>1, <2>2, <3>1
  <2>12. ASSUME UNCHANGED vars PROVE Ends
    BY <2>1, <2>12 DEF vars, bridgeVars
  <2> QED
    BY <1>1, <2>3, <2>4, <2>5, <2>6, <2>7, <2>8, <2>9, <2>10, <2>11, <2>12
    DEF Next
<1>2. ControlInv /\ [Next]_vars =>
        [~capture.ended /\ capture'.ended =>
           \/ state' = "error"
           \/ pc[Shutdown] = "closing"
           \/ \E c \in Stoppers : pc[c] = "closing" /\ claim[c] = capture.id]_vars
  BY <1>1
<1> QED  BY <1>2, ControlInvariant, PTL DEF Spec, EndedByOwner

-----------------------------------------------------------------------------
(***************************************************************************)
(* The lifecycle journal is always one that the client's parser accepts,   *)
(* and the bridge implements CaptureLifecycle.                             *)
(*                                                                         *)
(* The journal's own invariant is stated for a journal and the live        *)
(* datagram count, so that the operators that write a journal can be       *)
(* shown to keep it one by one.                                            *)
(***************************************************************************)

\* The entries are in order, begin with capture-started and never run ahead
\* of the count; the sequence numbers have no gap unless one was omitted.
EntriesInOrder(j, n) ==
  LET e == j.entries
  IN /\ Len(e) \in 1 .. MaxEntries
     /\ e[1] = [sequence |-> 0, type |-> "capture-started", datagrams |-> 0]
     /\ \A i \in 1 .. Len(e) : e[i].datagrams <= n /\ e[i].sequence < j.nextSequence
     /\ \A i \in 1 .. Len(e) - 1 :
          e[i].sequence < e[i + 1].sequence /\ e[i].datagrams <= e[i + 1].datagrams
     /\ j.entriesComplete =>
          j.nextSequence = Len(e) /\ \A i \in 1 .. Len(e) : e[i].sequence = i - 1

\* The state hides neither an error nor an omission.
StateIsHonest(j) ==
  /\ j.entriesComplete <=> j.omittedEntries = 0
  /\ j.state # "incomplete" =>
       j.entriesComplete /\ \A i \in 1 .. Len(j.entries) : j.entries[i].type \notin ErrorTypes
  /\ j.state = "active" => ~j.ended
  /\ j.state = "clean" => j.ended

\* The last slot is free until the terminal entry takes it.
TerminalEntry(j, n) ==
  /\ ~j.ended => Len(j.entries) <= MaxEntries - 1
  /\ j.ended => /\ j.entries[Len(j.entries)].type = "capture-stopped"
                /\ j.entries[Len(j.entries)].datagrams = n

Valid(j, n) ==
  j.captureId # 0 => EntriesInOrder(j, n) /\ StateIsHonest(j) /\ TerminalEntry(j, n)

\* k is j after entries that neither begin nor end a capture.
Extends(j, k) ==
  /\ k.captureId = j.captureId /\ k.ended = j.ended
  /\ k.state \in {j.state, "incomplete"}

-----------------------------------------------------------------------------
(* Sequences and fields.                                                   *)

\* A sequence's elements, and those of a sequence with one appended.
LEMMA AppendFacts ==
  ASSUME NEW S, NEW s \in Seq(S), NEW x \in S
  PROVE  /\ Len(s) \in Nat /\ Len(Append(s, x)) = Len(s) + 1
         /\ \A i \in 1 .. Len(s) : Append(s, x)[i] = s[i]
         /\ Append(s, x)[Len(s) + 1] = x
OBVIOUS

\* The fields of a journal, and those of its entries.
LEMMA JournalFacts ==
  ASSUME NEW j \in Journal
  PROVE  /\ j.entries \in Seq(JournalEntry) /\ Len(j.entries) \in Nat
         /\ j.nextSequence \in Nat /\ j.omittedEntries \in Nat
         /\ j.entriesComplete \in BOOLEAN /\ j.ended \in BOOLEAN
         /\ \A i \in 1 .. Len(j.entries) :
              j.entries[i].sequence \in Nat /\ j.entries[i].datagrams \in Nat
<1>1. /\ j.entries \in Seq(JournalEntry)
      /\ j.nextSequence \in Nat /\ j.omittedEntries \in Nat
      /\ j.entriesComplete \in BOOLEAN /\ j.ended \in BOOLEAN
  BY DEF Journal
<1> DEFINE e == j.entries
<1> HIDE DEF e
<1>2. e \in Seq(JournalEntry) => Len(e) \in Nat /\ \A i \in 1 .. Len(e) : e[i] \in JournalEntry
  OBVIOUS
<1>3. \A x \in JournalEntry : x.sequence \in Nat /\ x.datagrams \in Nat
  BY DEF JournalEntry
<1> QED  BY <1>1, <1>2, <1>3 DEF e

\* What omitting an entry does to each field.
LEMMA OmitFields ==
  ASSUME NEW j \in Journal
  PROVE  /\ Omit(j).captureId = j.captureId /\ Omit(j).ended = j.ended
         /\ Omit(j).entries = j.entries /\ Omit(j).state = "incomplete"
         /\ Omit(j).entriesComplete = FALSE
         /\ Omit(j).omittedEntries = j.omittedEntries + 1
         /\ Omit(j).nextSequence = j.nextSequence + 1
BY DEF Omit, Journal

\* What retaining one does.
LEMMA RetainFields ==
  ASSUME NEW j \in Journal, NEW type, NEW n
  PROVE  LET k == Retain(j, type, n)
         IN /\ k.captureId = j.captureId /\ k.ended = j.ended
            /\ k.entries = Append(j.entries, Entry(j, type, n))
            /\ k.state = IF type \in ErrorTypes THEN "incomplete" ELSE j.state
            /\ k.entriesComplete = j.entriesComplete
            /\ k.omittedEntries = j.omittedEntries
            /\ k.nextSequence = j.nextSequence + 1
BY DEF Retain, Journal

\* An omitted entry leaves a valid journal.
LEMMA OmitValid ==
  ASSUME NEW j \in Journal, NEW n \in Nat, Valid(j, n)
  PROVE  Valid(Omit(j), n)
<1> SUFFICES ASSUME j.captureId # 0
             PROVE  /\ EntriesInOrder(Omit(j), n) /\ StateIsHonest(Omit(j))
                    /\ TerminalEntry(Omit(j), n)
  BY OmitFields DEF Valid
<1>1. EntriesInOrder(j, n) /\ StateIsHonest(j) /\ TerminalEntry(j, n)
  BY DEF Valid
<1> DEFINE k == Omit(j)
<1>2. /\ k.entries = j.entries /\ k.state = "incomplete" /\ k.entriesComplete = FALSE
      /\ k.omittedEntries = j.omittedEntries + 1 /\ k.nextSequence = j.nextSequence + 1
  BY OmitFields
<1> HIDE DEF k
<1>3. EntriesInOrder(k, n)
  <2>1. \A i \in 1 .. Len(j.entries) : j.entries[i].sequence < j.nextSequence + 1
    BY <1>1, JournalFacts DEF EntriesInOrder
  <2> QED  BY <1>1, <1>2, <2>1 DEF EntriesInOrder
<1>4. StateIsHonest(k)
  <2>1. k.omittedEntries # 0
    BY <1>2, JournalFacts
  <2> QED  BY <1>2, <2>1 DEF StateIsHonest
<1>5. TerminalEntry(Omit(j), n)
  BY <1>1, OmitFields DEF TerminalEntry
<1> QED  BY <1>3, <1>4, <1>5 DEF k

\* Retaining an entry that is neither the first nor beyond the limit keeps
\* the order of the entries.
LEMMA RetainOrder ==
  ASSUME NEW j \in Journal, NEW type \in EntryTypes, NEW n \in Nat,
         EntriesInOrder(j, n), Len(j.entries) <= MaxEntries - 1
  PROVE  EntriesInOrder(Retain(j, type, n), n)
<1> DEFINE e == j.entries
           x == Entry(j, type, n)
           f == Append(e, x)
           k == Retain(j, type, n)
<1>1. /\ e \in Seq(JournalEntry) /\ Len(e) \in Nat /\ j.nextSequence \in Nat
      /\ x \in JournalEntry /\ x.sequence = j.nextSequence /\ x.datagrams = n
  BY JournalFacts DEF JournalEntry, Entry
<1>2. \A i \in 1 .. Len(e) : e[i].sequence \in Nat /\ e[i].datagrams \in Nat
  BY JournalFacts
<1>3. /\ Len(f) = Len(e) + 1 /\ f[Len(e) + 1] = x
      /\ \A i \in 1 .. Len(e) : f[i] = e[i]
  BY <1>1, AppendFacts
<1>4. /\ k.entries = f /\ k.entriesComplete = j.entriesComplete
      /\ k.nextSequence = j.nextSequence + 1
  BY RetainFields
<1>5. /\ Len(e) \in 1 .. MaxEntries
      /\ e[1] = [sequence |-> 0, type |-> "capture-started", datagrams |-> 0]
      /\ \A i \in 1 .. Len(e) : e[i].datagrams <= n /\ e[i].sequence < j.nextSequence
      /\ \A i \in 1 .. Len(e) - 1 :
           e[i].sequence < e[i + 1].sequence /\ e[i].datagrams <= e[i + 1].datagrams
      /\ j.entriesComplete =>
           j.nextSequence = Len(e) /\ \A i \in 1 .. Len(e) : e[i].sequence = i - 1
  BY DEF EntriesInOrder
<1> HIDE DEF e, x, f, k
<1>6. Len(f) \in 1 .. MaxEntries /\ f[1] = e[1]
  <2>1. Len(e) <= MaxEntries - 1 /\ MaxEntries \in Nat /\ 1 \in 1 .. Len(e)
    BY <1>1, <1>5, BridgeAssumption DEF e
  <2> QED  BY <1>1, <1>3, <2>1
<1>7. \A i \in 1 .. Len(f) : f[i].datagrams <= n /\ f[i].sequence < k.nextSequence
  BY <1>1, <1>2, <1>3, <1>4, <1>5
<1>8. \A i \in 1 .. Len(f) - 1 :
        f[i].sequence < f[i + 1].sequence /\ f[i].datagrams <= f[i + 1].datagrams
  <2> SUFFICES ASSUME NEW i \in 1 .. Len(e)
               PROVE  f[i].sequence < f[i + 1].sequence /\ f[i].datagrams <= f[i + 1].datagrams
    BY <1>1, <1>3
  <2>1. CASE i = Len(e)
    BY <1>1, <1>2, <1>3, <1>5, <2>1
  <2>2. CASE i < Len(e)
    <3>1. i \in 1 .. Len(e) - 1 /\ i + 1 \in 1 .. Len(e)
      BY <1>1, <2>2
    <3>2. f[i] = e[i] /\ f[i + 1] = e[i + 1]
      BY <1>3, <3>1
    <3> QED  BY <1>5, <3>1, <3>2
  <2> QED  BY <1>1, <2>1, <2>2
<1>9. k.entriesComplete =>
        k.nextSequence = Len(f) /\ \A i \in 1 .. Len(f) : f[i].sequence = i - 1
  <2> SUFFICES ASSUME k.entriesComplete
               PROVE  k.nextSequence = Len(f) /\ \A i \in 1 .. Len(f) : f[i].sequence = i - 1
    OBVIOUS
  <2>1. Len(e) \in Nat /\ j.nextSequence = Len(e) /\ \A i \in 1 .. Len(e) : e[i].sequence = i - 1
    BY <1>1, <1>4, <1>5
  <2>2. k.nextSequence = Len(f)
    BY <1>3, <1>4, <2>1
  <2>3. ASSUME NEW i \in 1 .. Len(f)  PROVE f[i].sequence = i - 1
    <3>1. CASE i = Len(e) + 1
      BY <1>1, <1>3, <2>1, <3>1
    <3>2. CASE i # Len(e) + 1
      <4>1. i \in 1 .. Len(e)
        BY <1>3, <2>1, <3>2
      <4> QED  BY <1>3, <2>1, <4>1
    <3> QED  BY <3>1, <3>2
  <2> QED  BY <2>2, <2>3
<1> QED  BY <1>4, <1>5, <1>6, <1>7, <1>8, <1>9 DEF EntriesInOrder, k
-----------------------------------------------------------------------------
(* Every operator that writes a journal keeps it valid.                    *)

\* An error or an overflow is retained or omitted (appendCaptureJournalEntry);
\* either way the journal stays valid and its capture the same.
LEMMA AppendValid ==
  ASSUME NEW j \in Journal, NEW type \in ErrorTypes, NEW n \in Nat, Valid(j, n)
  PROVE  Valid(AppendEntry(j, type, n), n) /\ Extends(j, AppendEntry(j, type, n))
<1>1. type \in EntryTypes /\ type # "capture-stopped"
  BY DEF ErrorTypes, EntryTypes
<1>2. CASE j.captureId = 0
  BY <1>2 DEF AppendEntry, Extends
<1>3. CASE AppendEntry(j, type, n) = Omit(j)
  BY <1>3, OmitValid, OmitFields DEF Extends
<1>4. CASE j.captureId # 0 /\ AppendEntry(j, type, n) # Omit(j)
  <2> DEFINE k == Retain(j, type, n)
  <2>1. AppendEntry(j, type, n) = k /\ ~j.ended /\ ~(Len(j.entries) >= MaxEntries - 1)
    BY <1>1, <1>4 DEF AppendEntry, RetainedLimit
  <2>2. Len(j.entries) \in Nat /\ MaxEntries \in Nat /\ MaxEntries >= 2
    BY JournalFacts, BridgeAssumption
  <2>3. Len(j.entries) + 1 <= MaxEntries - 1
    BY <2>1, <2>2
  <2>4. EntriesInOrder(j, n) /\ StateIsHonest(j)
    BY <1>4 DEF Valid
  <2>5. EntriesInOrder(k, n)
    BY <1>1, <2>2, <2>3, <2>4, RetainOrder
  <2>6. /\ k.captureId = j.captureId /\ ~k.ended /\ k.ended = j.ended
        /\ k.state = "incomplete"
        /\ k.entriesComplete = j.entriesComplete /\ k.omittedEntries = j.omittedEntries
        /\ k.entries = Append(j.entries, Entry(j, type, n))
    BY <2>1, RetainFields
  <2>7. Len(k.entries) = Len(j.entries) + 1
    BY <2>6, JournalFacts
  <2> HIDE DEF k
  <2>8. StateIsHonest(k)
    BY <2>4, <2>6 DEF StateIsHonest
  <2>9. TerminalEntry(k, n)
    BY <2>3, <2>6, <2>7 DEF TerminalEntry
  <2>10. Valid(k, n) /\ Extends(j, k)
    BY <2>1, <2>5, <2>6, <2>8, <2>9 DEF Valid, Extends
  <2> QED  BY <2>1, <2>10
<1> QED  BY <1>2, <1>3, <1>4

\* Entries upon entries.
LEMMA ExtendsTransitive ==
  ASSUME NEW j, NEW k, NEW m, Extends(j, k), Extends(k, m)
  PROVE  Extends(j, m)
BY DEF Extends

\* So does a broadcast that finds a full stream (writeSubscriber) ...
LEMMA OverflowValid ==
  ASSUME NEW j \in Journal, NEW n \in Nat, NEW lost \in BOOLEAN, Valid(j, n)
  PROVE  Valid(Overflow(j, n, lost), n) /\ Extends(j, Overflow(j, n, lost))
<1>1. "subscriber-backpressure" \in ErrorTypes /\ Extends(j, j)
  BY DEF ErrorTypes, Extends
<1> QED  BY <1>1, AppendValid DEF Overflow

\* ... an error that is reported (setError) ...
LEMMA SetErrorValid ==
  ASSUME NEW j \in Journal, NEW n \in Nat, NEW lost \in BOOLEAN, Valid(j, n)
  PROVE  Valid(SetError(j, n, lost), n) /\ Extends(j, SetError(j, n, lost))
<1> DEFINE k == AppendEntry(j, "bridge-error", n)
<1>1. "bridge-error" \in ErrorTypes /\ "bridge-error" \in EntryTypes
  BY DEF ErrorTypes, EntryTypes
<1>2. k \in Journal /\ Valid(k, n) /\ Extends(j, k)
  BY <1>1, AppendValid, AppendEntryType
<1> HIDE DEF k
<1>3. Valid(Overflow(k, n, lost), n) /\ Extends(k, Overflow(k, n, lost))
  BY <1>2, OverflowValid
<1>4. Extends(j, Overflow(k, n, lost))
  BY <1>2, <1>3, ExtendsTransitive
<1> QED  BY <1>3, <1>4 DEF SetError, k

\* ... and a group that cannot be left (leaveMulticast).
LEMMA LeaveMulticastValid ==
  ASSUME NEW j \in Journal, NEW n \in Nat, NEW throws \in BOOLEAN,
         NEW lost \in BOOLEAN, Valid(j, n)
  PROVE  /\ Valid(LeaveMulticast(j, n, throws, lost), n)
         /\ Extends(j, LeaveMulticast(j, n, throws, lost))
BY SetErrorValid DEF LeaveMulticast, Extends

\* Ending a journal finds room for the terminal entry, and the verdict hides
\* nothing (finishCaptureJournal).
LEMMA FinishValid ==
  ASSUME NEW j \in Journal, NEW n \in Nat, NEW clean \in BOOLEAN, Valid(j, n)
  PROVE  LET k == FinishJournal(j, n, clean)
         IN /\ Valid(k, n) /\ k.captureId = j.captureId
            /\ IF j.captureId = 0 THEN k = j ELSE k.ended
<1> DEFINE verdict == IF ~clean \/ ~j.entriesComplete THEN "incomplete"
                      ELSE IF j.state = "active" THEN "clean" ELSE j.state
           m == [j EXCEPT !.ended = TRUE, !.state = verdict]
           x == Entry(m, "capture-stopped", n)
           k == Retain(m, "capture-stopped", n)
<1>1. CASE j.captureId = 0 \/ j.ended
  BY <1>1 DEF FinishJournal
<1>2. CASE j.captureId # 0 /\ ~j.ended
  <2>1. /\ m.captureId = j.captureId /\ m.ended /\ m.state = verdict
        /\ m.entries = j.entries /\ m.entriesComplete = j.entriesComplete
        /\ m.omittedEntries = j.omittedEntries /\ m.nextSequence = j.nextSequence
        /\ m \in Journal
    BY DEF Journal
  <2>2. EntriesInOrder(j, n) /\ StateIsHonest(j) /\ TerminalEntry(j, n)
    BY <1>2 DEF Valid
  <2>3. Len(j.entries) <= MaxEntries - 1 /\ Len(j.entries) \in Nat /\ MaxEntries \in Nat
    BY <1>2, <2>2, JournalFacts, BridgeAssumption DEF TerminalEntry
  <2>4. FinishJournal(j, n, clean) = AppendEntry(m, "capture-stopped", n)
    BY <1>2 DEF FinishJournal
  <2> HIDE DEF m
  <2>5. AppendEntry(m, "capture-stopped", n) = k
    BY <1>2, <2>1, <2>3 DEF AppendEntry, RetainedLimit
  <2>6. EntriesInOrder(m, n)
    BY <2>1, <2>2 DEF EntriesInOrder
  <2>7. "capture-stopped" \in EntryTypes /\ "capture-stopped" \notin ErrorTypes
    BY DEF EntryTypes, ErrorTypes
  <2>8. EntriesInOrder(k, n)
    BY <2>1, <2>3, <2>6, <2>7, RetainOrder
  <2>9. /\ k.captureId = j.captureId /\ k.ended /\ k.state = verdict
        /\ k.entriesComplete = j.entriesComplete /\ k.omittedEntries = j.omittedEntries
        /\ k.entries = Append(j.entries, x)
    BY <2>1, <2>7, RetainFields
  <2>10. x.type = "capture-stopped" /\ x.datagrams = n /\ x \in JournalEntry
    BY <2>1, <2>7, JournalFacts DEF Entry, JournalEntry
  <2> HIDE DEF k, x
  <2>11. /\ Len(k.entries) = Len(j.entries) + 1 /\ k.entries[Len(j.entries) + 1] = x
         /\ \A i \in 1 .. Len(j.entries) : k.entries[i] = j.entries[i]
    BY <2>9, <2>10, JournalFacts, AppendFacts
  <2>12. TerminalEntry(k, n)
    BY <2>9, <2>10, <2>11 DEF TerminalEntry
  <2>13. verdict # "active" /\ (verdict # "incomplete" => j.entriesComplete /\ j.state # "incomplete")
    BY DEF verdict
  <2> HIDE DEF verdict
  <2>14. verdict # "incomplete" =>
           \A i \in 1 .. Len(k.entries) : k.entries[i].type \notin ErrorTypes
    <3> SUFFICES ASSUME verdict # "incomplete", NEW i \in 1 .. Len(k.entries)
                 PROVE  k.entries[i].type \notin ErrorTypes
      OBVIOUS
    <3>1. CASE i = Len(j.entries) + 1
      BY <2>7, <2>10, <2>11, <3>1
    <3>2. CASE i # Len(j.entries) + 1
      <4>1. i \in 1 .. Len(j.entries)
        BY <2>3, <2>11, <3>2
      <4> QED  BY <2>2, <2>11, <2>13, <4>1 DEF StateIsHonest
    <3> QED  BY <3>1, <3>2
  <2>15. StateIsHonest(k)
    BY <2>2, <2>9, <2>13, <2>14 DEF StateIsHonest
  <2> QED  BY <1>2, <2>4, <2>5, <2>8, <2>9, <2>12, <2>15 DEF Valid
<1> QED  BY <1>1, <1>2

\* The journal of a new capture is valid (createCaptureJournal).
LEMMA CreateValid ==
  ASSUME NEW op \in Ops, NEW address \in Addresses
  PROVE  LET k == CreateJournal(op, address)
         IN Valid(k, 0) /\ k.captureId = op /\ ~k.ended
<1> DEFINE fresh == [NoJournal EXCEPT !.captureId = op, !.bind = address]
           x == Entry(fresh, "capture-started", 0)
           k == Retain(fresh, "capture-started", 0)
<1>1. /\ fresh.captureId = op /\ ~fresh.ended /\ fresh.state = "active"
      /\ fresh.entriesComplete /\ fresh.omittedEntries = 0
      /\ fresh.entries = <<>> /\ fresh.nextSequence = 0
  BY DEF NoJournal
<1>2. op \in 0 .. MaxStarts /\ op # 0
  BY BridgeAssumption DEF Ops
<1>3. fresh \in Journal
  <2>1. <<>> \in Seq(JournalEntry)
    OBVIOUS
  <2> QED  BY <1>2, <2>1 DEF NoJournal, Journal
<1>4. MaxEntries \in Nat /\ MaxEntries >= 2
  BY BridgeAssumption
<1>5. CreateJournal(op, address) = AppendEntry(fresh, "capture-started", 0)
  BY DEF CreateJournal
<1> HIDE DEF fresh
<1>6. AppendEntry(fresh, "capture-started", 0) = k
  BY <1>1, <1>2, <1>4 DEF AppendEntry, RetainedLimit
<1>7. "capture-started" \notin ErrorTypes
  BY DEF ErrorTypes
<1>8. x = [sequence |-> 0, type |-> "capture-started", datagrams |-> 0]
  BY <1>1 DEF Entry
<1>9. /\ k.captureId = op /\ ~k.ended /\ k.state = "active" /\ k.entriesComplete
      /\ k.omittedEntries = 0 /\ k.nextSequence = 1 /\ k.entries = <<x>>
  BY <1>1, <1>3, <1>7, RetainFields
<1> HIDE DEF k, x
<1>10. Len(k.entries) = 1 /\ k.entries[1] = x
  BY <1>9
<1>11. EntriesInOrder(k, 0)
  BY <1>4, <1>8, <1>9, <1>10 DEF EntriesInOrder
<1>12. StateIsHonest(k)
  BY <1>7, <1>8, <1>9, <1>10 DEF StateIsHonest
<1>13. TerminalEntry(k, 0)
  BY <1>4, <1>9, <1>10 DEF TerminalEntry
<1> QED  BY <1>5, <1>6, <1>9, <1>11, <1>12, <1>13 DEF Valid

\* An open journal may lag behind the count.
LEMMA ValidCounts ==
  ASSUME NEW j \in Journal, NEW n \in Nat, Valid(j, n), ~j.ended
  PROVE  Valid(j, n + 1)
<1> SUFFICES ASSUME j.captureId # 0
             PROVE  EntriesInOrder(j, n + 1) /\ StateIsHonest(j) /\ TerminalEntry(j, n + 1)
  BY DEF Valid
<1>1. EntriesInOrder(j, n) /\ StateIsHonest(j) /\ TerminalEntry(j, n)
  BY DEF Valid
<1>2. \A i \in 1 .. Len(j.entries) : j.entries[i].datagrams <= n + 1
  BY <1>1, JournalFacts DEF EntriesInOrder
<1>3. EntriesInOrder(j, n + 1)
  BY <1>1, <1>2 DEF EntriesInOrder
<1> QED  BY <1>1, <1>3 DEF TerminalEntry
-----------------------------------------------------------------------------
(* The journal follows the capture: every step of the bridge leaves the    *)
(* capture alone and extends its journal, counts a datagram of an open     *)
(* capture, ends one, or begins a later one when none is open.             *)

JournalInv ==
  /\ Valid(captureJournal, capture.datagrams)
  /\ captureJournal.captureId = capture.id /\ captureJournal.ended = capture.ended

\* Starts are numbered in the order they are made, after the last capture.
StartOrder ==
  /\ \A p, q \in Ops : p < q /\ phase[q] # "unused" => phase[p] # "unused"
  /\ \A op \in Ops : phase[op] \in InFlight => capture.id < op

CaptureOpen == capture.id # 0 /\ ~capture.ended

Keeps ==
  /\ UNCHANGED capture /\ Extends(captureJournal, captureJournal')
  /\ JournalInv'

Receives ==
  /\ CaptureOpen /\ capture' = [capture EXCEPT !.datagrams = @ + 1]
  /\ JournalInv'

Ends ==
  /\ CaptureOpen /\ capture' = [capture EXCEPT !.ended = TRUE]
  /\ JournalInv'

Begins ==
  /\ ~CaptureOpen /\ capture' = [id |-> capture'.id, datagrams |-> 0, ended |-> FALSE]
  /\ capture'.id \in Nat /\ capture'.id > capture.id
  /\ JournalInv'

Steps == Keeps \/ Receives \/ Ends \/ Begins

\* The types the operators on journals need.
LEMMA JournalTyped ==
  ASSUME ControlInv
  PROVE  captureJournal \in Journal /\ capture \in Capture /\ capture.datagrams \in Nat
BY DEF ControlInv, TypeInv, TypeOK, BridgeTypeOK, Capture

\* A step that touches neither the capture nor its journal.
LEMMA Untouched ==
  ASSUME JournalInv, UNCHANGED <<capture, captureJournal>>
  PROVE  Keeps
BY DEF JournalInv, Keeps, Extends, Valid, EntriesInOrder, StateIsHonest, TerminalEntry

\* A step that only writes entries.
LEMMA Extended ==
  ASSUME JournalInv, UNCHANGED capture, Valid(captureJournal', capture.datagrams),
         Extends(captureJournal, captureJournal')
  PROVE  Keeps
BY DEF JournalInv, Keeps, Extends

\* A start that begins, fails, or is joined or retried extends the journal of
\* the capture before it.
LEMMA StartsKeep ==
  ASSUME ControlInv, JournalInv, NEW n \in Nonces, NEW k \in Keys,
         StartCapture(n, k) \/ JoinStart(n, k) \/ RetryStart(n, k)
  PROVE  Keeps
<1>1. CASE StartCapture(n, k)
  <2>1. PICK lost \in BOOLEAN :
          /\ UNCHANGED capture
          /\ captureJournal' = Overflow(captureJournal, capture.datagrams, lost)
    BY <1>1, MayOverflowType DEF StartCapture
  <2> QED  BY <2>1, JournalTyped, OverflowValid, Extended DEF JournalInv
<1>2. CASE JoinStart(n, k) \/ RetryStart(n, k)
  BY <1>2, Untouched DEF JoinStart, RetryStart, bridgeVars
<1> QED  BY <1>1, <1>2

\* The failure of a start is reported, then its state.
LEMMA StartFailsKeeps ==
  ASSUME ControlInv, JournalInv, NEW op \in Ops, NEW a, StartFails(op, a)
  PROVE  Keeps
<1>1. PICK lost \in BOOLEAN, lostStatus \in BOOLEAN :
        /\ UNCHANGED capture
        /\ captureJournal' =
             Overflow(SetError(captureJournal, capture.datagrams, lost),
                      capture.datagrams, lostStatus)
  BY MayOverflowType DEF StartFails
<1> DEFINE n == capture.datagrams
           told == SetError(captureJournal, n, lost)
<1>2. told \in Journal /\ Valid(told, n) /\ Extends(captureJournal, told) /\ n \in Nat
  BY JournalTyped, SetErrorValid, SetErrorType DEF JournalInv
<1> HIDE DEF told, n
<1>3. Valid(Overflow(told, n, lostStatus), n) /\ Extends(told, Overflow(told, n, lostStatus))
  BY <1>2, OverflowValid
<1>4. Extends(captureJournal, Overflow(told, n, lostStatus))
  BY <1>2, <1>3, ExtendsTransitive
<1> QED  BY <1>1, <1>3, <1>4, Extended DEF told, n

\* A capture begins when none is open, with a number above the last one's.
LEMMA CaptureBeginsBegins ==
  ASSUME ControlInv, JournalInv, StartOrder, NEW op \in Ops, CaptureBegins(op)
  PROVE  Begins
<1> USE DEF ControlInv, Control
<1>1. phase[op] = "counting"
  BY DEF CaptureBegins
<1>2. udpAddress \in Addresses
  BY <1>1 DEF StartControl, TypeInv, TypeOK, BridgeTypeOK
<1>3. PICK lost \in BOOLEAN :
        /\ capture' = [id |-> op, datagrams |-> 0, ended |-> FALSE]
        /\ captureJournal' = Overflow(CreateJournal(op, udpAddress), 0, lost)
  BY <1>1, MayOverflowType DEF CaptureBegins, StartControl
<1> DEFINE j == CreateJournal(op, udpAddress)
<1>4. j \in Journal /\ Valid(j, 0) /\ j.captureId = op /\ ~j.ended /\ j.ended \in BOOLEAN
  <2>1. j \in Journal
    BY <1>2, CreateJournalType
  <2>2. Valid(j, 0) /\ j.captureId = op /\ ~j.ended
    BY <1>2, CreateValid
  <2> HIDE DEF j
  <2> QED  BY <2>1, <2>2, JournalFacts
<1> HIDE DEF j
<1>5. Valid(Overflow(j, 0, lost), 0) /\ Extends(j, Overflow(j, 0, lost))
  BY <1>4, OverflowValid
<1>6. capture'.id = op /\ capture'.datagrams = 0 /\ capture'.ended = FALSE
  BY <1>3
<1>7. captureJournal' = Overflow(j, 0, lost)
  BY <1>3 DEF j
<1>8. JournalInv'
  BY <1>4, <1>5, <1>6, <1>7 DEF JournalInv, Extends
<1>9. ~CaptureOpen
  BY <1>1 DEF StartControl, CaptureControl, InFlight, CaptureOpen
<1>10. op \in Nat /\ op > capture.id
  BY <1>1, JournalTyped, BridgeAssumption DEF StartOrder, InFlight, Ops, Capture
<1> QED  BY <1>3, <1>6, <1>8, <1>9, <1>10 DEF Begins

\* A datagram is counted before its broadcast is journalled.
LEMMA HandleDatagramReceives ==
  ASSUME ControlInv, JournalInv, NEW op \in Ops, HandleDatagram(op)
  PROVE  Receives
<1>1. PICK lost \in BOOLEAN :
        /\ state = "capturing" /\ capture.id # 0
        /\ capture' = [capture EXCEPT !.datagrams = @ + 1]
        /\ captureJournal' = Overflow(captureJournal, capture'.datagrams, lost)
  BY MayOverflowType DEF HandleDatagram, Counts
<1>2. CaptureOpen
  BY <1>1 DEF ControlInv, Control, CaptureControl, CaptureOpen
<1> DEFINE n == capture.datagrams + 1
<1>3. capture'.id = capture.id /\ capture'.ended = capture.ended /\ capture'.datagrams = n
  BY <1>1, JournalTyped DEF Capture
<1>4. n \in Nat /\ Valid(captureJournal, n)
  BY <1>2, JournalTyped, ValidCounts DEF JournalInv, CaptureOpen
<1>5. captureJournal' = Overflow(captureJournal, n, lost)
  BY <1>1, <1>3
<1> HIDE DEF n
<1>6. Valid(captureJournal', n) /\ Extends(captureJournal, captureJournal')
  BY <1>4, <1>5, JournalTyped, OverflowValid
<1>7. JournalInv'
  BY <1>3, <1>6 DEF JournalInv, Extends
<1> QED  BY <1>1, <1>2, <1>7 DEF Receives

\* Ending the capture and its journal, then a broadcast.
LEMMA EndsBoth ==
  ASSUME ControlInv, JournalInv, CaptureOpen, NEW j \in Journal, NEW clean \in BOOLEAN,
         NEW lost \in BOOLEAN,
         Valid(j, capture.datagrams), Extends(captureJournal, j),
         capture' = [capture EXCEPT !.ended = TRUE],
         captureJournal' = Overflow(FinishJournal(j, capture.datagrams, clean),
                                    capture.datagrams, lost)
  PROVE  Ends
<1> DEFINE n == capture.datagrams
           k == FinishJournal(j, n, clean)
<1>1. n \in Nat /\ k \in Journal
  BY JournalTyped, FinishJournalType
<1>2. Valid(k, n) /\ k.captureId = j.captureId /\ IF j.captureId = 0 THEN k = j ELSE k.ended
  BY JournalTyped, FinishValid
<1>3. /\ capture'.id = capture.id /\ capture'.ended = TRUE
      /\ capture'.datagrams = n
  BY JournalTyped DEF Capture
<1>4. j.captureId = capture.id /\ capture.id # 0
  BY DEF JournalInv, Extends, CaptureOpen
<1>5. captureJournal' = Overflow(k, n, lost)
  OBVIOUS
<1> HIDE DEF n, k
<1>6. k.ended = TRUE
  BY <1>1, <1>2, <1>4, JournalFacts
<1>7. Valid(captureJournal', n) /\ Extends(k, captureJournal')
  BY <1>1, <1>2, <1>5, OverflowValid
<1>8. JournalInv'
  BY <1>2, <1>3, <1>4, <1>6, <1>7 DEF JournalInv, Extends
<1> QED  BY <1>8 DEF Ends

\* The failure of a socket reports itself and ends the capture.
LEMMA SocketFailureEnds ==
  ASSUME ControlInv, JournalInv, EarlySocketErrors = FALSE, NEW op \in Ops,
         MarkSocketFailure(op)
  PROVE  Ends
<1> USE DEF ControlInv, Control
<1> DEFINE n == capture.datagrams
<1>1. PICK throws \in BOOLEAN, lostLeave \in BOOLEAN, lost \in BOOLEAN, lostStatus \in BOOLEAN :
        LET left == IF udpSocket = 0 THEN captureJournal
                    ELSE LeaveMulticast(captureJournal, n, throws, lostLeave)
        IN /\ op \in sockets /\ phase[op] = "done" /\ state \notin {"stopping", "stopped"}
           /\ capture' = IF capture.id = 0 THEN capture
                         ELSE [capture EXCEPT !.ended = TRUE]
           /\ captureJournal' =
                Overflow(FinishJournal(SetError(left, n, lost), n, FALSE), n, lostStatus)
  BY MayOverflowType DEF MarkSocketFailure, Delivers, IgnoresSocketErrors
<1>2. udpSocket = op
  <2>1. \A c \in Callers : ~Ending(c)
    BY <1>1 DEF StopControl
  <2> QED  BY <1>1, <2>1 DEF SocketControl, Ending
<1>3. CaptureOpen
  <2>1. op # 0 /\ state # "starting"
    BY <1>1, <1>2, BridgeAssumption
    DEF StartControl, InFlight, Ops, TypeInv, TypeOK, StartTypeOK
  <2> QED  BY <1>1, <1>2, <2>1 DEF CaptureControl, CaptureOpen
<1> DEFINE left == IF udpSocket = 0 THEN captureJournal
                   ELSE LeaveMulticast(captureJournal, n, throws, lostLeave)
           told == SetError(left, n, lost)
<1>4. left \in Journal /\ Valid(left, n) /\ Extends(captureJournal, left) /\ n \in Nat
  <2>1. captureJournal \in Journal /\ n \in Nat /\ Valid(captureJournal, n)
    BY JournalTyped DEF JournalInv
  <2> HIDE DEF n
  <2>2. CASE udpSocket = 0
    BY <2>1, <2>2 DEF Extends
  <2>3. CASE udpSocket # 0
    BY <2>1, <2>3, LeaveMulticastValid, LeaveMulticastType
  <2> QED  BY <2>1, <2>2, <2>3
<1>5. captureJournal' = Overflow(FinishJournal(told, n, FALSE), n, lostStatus)
  BY <1>1
<1> HIDE DEF left
<1>6. told \in Journal /\ Valid(told, n) /\ Extends(left, told)
  BY <1>4, SetErrorValid, SetErrorType
<1> HIDE DEF told
<1>7. Extends(captureJournal, told)
  BY <1>4, <1>6, ExtendsTransitive
<1>8. capture' = [capture EXCEPT !.ended = TRUE]
  BY <1>1, <1>3 DEF CaptureOpen
<1> QED  BY <1>3, <1>5, <1>6, <1>7, <1>8, EndsBoth

\* Entering a stop journals what goes wrong with the group.
LEMMA EnterStopKeeps ==
  ASSUME ControlInv, JournalInv, NEW c \in Callers, NEW id, EnterStop(c, id)
  PROVE  Keeps
<1>1. CASE UNCHANGED bridgeVars
  BY <1>1, Untouched DEF bridgeVars
<1>2. CASE ~UNCHANGED bridgeVars
  <2> DEFINE n == capture.datagrams
  <2>1. PICK throws \in BOOLEAN, lost \in BOOLEAN, lostLeave \in BOOLEAN :
          captureJournal' = LeaveMulticast(Overflow(captureJournal, n, lost), n, throws, lostLeave)
    BY <1>2, MayOverflowType DEF EnterStop
  <2>2. UNCHANGED capture
    BY <1>2 DEF EnterStop
  <2> DEFINE j == Overflow(captureJournal, n, lost)
  <2>3. j \in Journal /\ Valid(j, n) /\ Extends(captureJournal, j) /\ n \in Nat
    BY JournalTyped, OverflowValid, OverflowType DEF JournalInv
  <2>4. captureJournal' = LeaveMulticast(j, n, throws, lostLeave)
    BY <2>1
  <2> HIDE DEF j
  <2>5. Valid(captureJournal', n) /\ Extends(j, captureJournal')
    BY <2>3, <2>4, LeaveMulticastValid
  <2>6. Extends(captureJournal, captureJournal')
    BY <2>3, <2>5, ExtendsTransitive
  <2> QED  BY <2>2, <2>5, <2>6, Extended
<1> QED  BY <1>1, <1>2

\* So does a call of stopCapture, or nothing.
LEMMA BeginCallKeeps ==
  ASSUME ControlInv, JournalInv, NEW c \in Callers, NEW id, BeginCall(c, id)
  PROVE  Keeps
BY EnterStopKeeps, Untouched DEF BeginCall, AwaitStart, bridgeVars

\* A stop ends the capture it found open.
LEMMA StopCompletesEnds ==
  ASSUME ControlInv, JournalInv, NEW c \in Callers, StopCompletes(c)
  PROVE  Ends
<1>1. PICK lost \in BOOLEAN :
        /\ pc[c] = "closing"
        /\ capture' = IF capture.id = 0 THEN capture
                      ELSE [capture EXCEPT !.ended = TRUE]
        /\ captureJournal' =
             Overflow(FinishJournal(captureJournal, capture.datagrams, CleanStop(c)),
                      capture.datagrams, lost)
  BY MayOverflowType DEF StopCompletes
<1>2. CaptureOpen
  BY <1>1 DEF ControlInv, Control, StopControl, CaptureControl, Ending, CaptureOpen
<1>3. CleanStop(c) \in BOOLEAN
  BY DEF CleanStop
<1>4. Valid(captureJournal, capture.datagrams) /\ Extends(captureJournal, captureJournal)
  BY DEF JournalInv, Extends
<1>5. capture' = [capture EXCEPT !.ended = TRUE]
  BY <1>1, <1>2 DEF CaptureOpen
<1> QED  BY <1>1, <1>2, <1>3, <1>4, <1>5, JournalTyped, EndsBoth

\* Every step of the bridge is one of the four.
LEMMA BridgeSteps ==
  ASSUME ControlInv, JournalInv, StartOrder, EarlySocketErrors = FALSE, [Next]_vars
  PROVE  Steps
<1> USE DEF Steps
<1>1. ASSUME NEW n \in Nonces, NEW k \in Keys,
             StartCapture(n, k) \/ JoinStart(n, k) \/ RetryStart(n, k)
      PROVE  Steps
  BY <1>1, StartsKeep
<1>2. ASSUME NEW op \in Ops, BindFails(op) \/ MembershipFails(op) PROVE Steps
  <2>1. \E a : StartFails(op, a)
    BY <1>2 DEF BindFails, MembershipFails
  <2> QED  BY <2>1, StartFailsKeeps
<1>3. ASSUME NEW op \in Ops, Listening(op) PROVE Steps
  BY <1>3, Untouched DEF Listening
<1>4. ASSUME NEW op \in Ops, CaptureBegins(op) PROVE Steps
  BY <1>4, CaptureBeginsBegins
<1>5. ASSUME NEW op \in Ops, HandleDatagram(op) PROVE Steps
  BY <1>5, HandleDatagramReceives
<1>6. ASSUME NEW op \in Ops, MarkSocketFailure(op) PROVE Steps
  BY <1>6, SocketFailureEnds
<1>7. ASSUME NEW c \in Stoppers, StopCapture(c) PROVE Steps
  <2>1. c \in Callers /\ \E id : BeginCall(c, id)
    BY <1>7 DEF StopCapture, Callers
  <2> QED  BY <2>1, BeginCallKeeps
<1>8. ASSUME Close PROVE Steps
  <2>1. Shutdown \in Callers /\ BeginCall(Shutdown, 0)
    BY <1>8 DEF Close, Callers
  <2> QED  BY <2>1, BeginCallKeeps
<1>9. ASSUME NEW c \in Callers, FinishCounter(c) PROVE Steps
  BY <1>9, Untouched DEF FinishCounter
<1>10. ASSUME NEW c \in Callers, StopCompletes(c) PROVE Steps
  BY <1>10, StopCompletesEnds
<1>11. ASSUME NEW c \in Callers, StopResumes(c) PROVE Steps
  <2>1. CASE EnterStop(c, claim[c])
    BY <2>1, EnterStopKeeps
  <2>2. CASE UNCHANGED bridgeVars
    BY <2>2, Untouched DEF bridgeVars
  <2> QED  BY <1>11, <2>1, <2>2 DEF StopResumes
<1>12. ASSUME UNCHANGED vars PROVE Steps
  BY <1>12, Untouched DEF vars, bridgeVars
<1> QED
  BY <1>1, <1>2, <1>3, <1>4, <1>5, <1>6, <1>7, <1>8, <1>9, <1>10, <1>11, <1>12 DEF Next

\* The numbers of the starts stay in order.
LEMMA StartOrderStep ==
  ASSUME ControlInv, StartOrder, [Next]_vars
  PROVE  StartOrder'
<1> USE DEF ControlInv, TypeInv, TypeOK, Control, InFlight
<1>1. phase \in [Ops -> Phases] /\ capture \in Capture
  BY DEF StartTypeOK, BridgeTypeOK
<1>2. ASSUME UNCHANGED phase, capture'.id = capture.id PROVE StartOrder'
  BY <1>2 DEF StartOrder
<1>3. ASSUME NEW op \in Ops, NEW to \in {"counting", "failed"}, phase[op] \in InFlight,
             phase' = [phase EXCEPT ![op] = to], UNCHANGED capture
      PROVE  StartOrder'
  BY <1>1, <1>3 DEF StartOrder
<1>4. ASSUME NEW n \in Nonces, NEW k \in Keys, StartCapture(n, k) PROVE StartOrder'
  <2>1. PICK op \in Ops :
          /\ phase[op] = "unused" /\ \A p \in Ops : p < op => phase[p] # "unused"
          /\ phase' = [phase EXCEPT ![op] = "binding"] /\ UNCHANGED capture
    BY <1>4 DEF StartCapture
  <2>2. \A p, q \in Ops : p < q /\ phase'[q] # "unused" => phase'[p] # "unused"
    BY <1>1, <2>1 DEF StartOrder
  <2>3. capture.id < op
    <3>1. capture.id \in 0 .. MaxStarts /\ op \in 1 .. MaxStarts /\ MaxStarts \in Nat
      BY <1>1, BridgeAssumption DEF Capture, Ops
    <3>2. CASE capture.id # 0
      <4>1. capture.id \in Ops /\ phase[capture.id] = "done"
        BY <3>1, <3>2 DEF Ops, CaptureControl
      <4>2. ~(op < capture.id) /\ op # capture.id
        BY <2>1, <4>1 DEF StartOrder
      <4> QED  BY <3>1, <4>2
    <3> QED  BY <3>1, <3>2
  <2> QED  BY <1>1, <2>1, <2>2, <2>3 DEF StartOrder
<1>5. ASSUME NEW op \in Ops, CaptureBegins(op) PROVE StartOrder'
  <2>1. /\ phase[op] = "counting" /\ phase' = [phase EXCEPT ![op] = "done"]
    BY <1>5 DEF CaptureBegins, StartControl
  <2>2. \A p \in Ops : p # op => phase[p] \notin InFlight
    BY <2>1, BridgeAssumption DEF StartControl
  <2> QED  BY <1>1, <2>1, <2>2 DEF StartOrder
<1>6. ASSUME NEW op \in Ops, HandleDatagram(op) \/ MarkSocketFailure(op)
      PROVE  UNCHANGED phase /\ capture'.id = capture.id
  BY <1>1, <1>6 DEF HandleDatagram, MarkSocketFailure, startVars, Capture
<1>7. ASSUME NEW c \in Callers, FinishCounter(c) \/ StopCompletes(c)
      PROVE  UNCHANGED phase /\ capture'.id = capture.id
  BY <1>1, <1>7 DEF FinishCounter, StopCompletes, startVars, Capture
<1>8. ASSUME NEW c \in Callers, NEW id, EnterStop(c, id) \/ BeginCall(c, id)
      PROVE  UNCHANGED capture
  BY <1>8 DEF EnterStop, BeginCall, AwaitStart, bridgeVars
<1>9. ASSUME NEW c \in Callers, StopResumes(c) PROVE UNCHANGED phase /\ capture'.id = capture.id
  BY <1>8, <1>9 DEF StopResumes, bridgeVars, startVars
<1>10. ASSUME NEW c \in Stoppers, StopCapture(c) PROVE UNCHANGED phase /\ capture'.id = capture.id
  BY <1>8, <1>10 DEF StopCapture, Callers, startVars
<1>11. ASSUME Close PROVE UNCHANGED phase /\ capture'.id = capture.id
  BY <1>8, <1>11 DEF Close, Callers, startVars
<1>12. ASSUME NEW n \in Nonces, NEW k \in Keys, JoinStart(n, k) \/ RetryStart(n, k)
       PROVE  UNCHANGED phase /\ capture'.id = capture.id
  BY <1>12 DEF JoinStart, RetryStart, bridgeVars
<1>13. ASSUME NEW op \in Ops, BindFails(op) \/ MembershipFails(op) PROVE StartOrder'
  <2>1. phase[op] \in InFlight /\ phase' = [phase EXCEPT ![op] = "failed"] /\ UNCHANGED capture
    BY <1>13 DEF BindFails, MembershipFails, StartFails
  <2> QED  BY <1>3, <2>1
<1>14. ASSUME NEW op \in Ops, Listening(op) PROVE StartOrder'
  <2>1. phase[op] \in InFlight /\ phase' = [phase EXCEPT ![op] = "counting"] /\ UNCHANGED capture
    BY <1>14 DEF Listening
  <2> QED  BY <1>3, <2>1
<1>15. ASSUME UNCHANGED vars PROVE UNCHANGED phase /\ capture'.id = capture.id
  BY <1>15 DEF vars, bridgeVars, startVars
<1> QED
  BY <1>2, <1>4, <1>5, <1>6, <1>7, <1>9, <1>10, <1>11, <1>12, <1>13, <1>14, <1>15 DEF Next

\* The whole invariant of the bridge.
BridgeInv == ControlInv /\ JournalInv /\ StartOrder

\* It holds in every state.
LEMMA BridgeInvariant ==
  ASSUME EarlySocketErrors = FALSE
  PROVE  Spec => []BridgeInv
<1>1. Init => JournalInv /\ StartOrder
  BY DEF Init, JournalInv, Valid, NoJournal, NoCapture, StartOrder, InFlight
<1>2. ASSUME BridgeInv, [Next]_vars PROVE BridgeInv'
  <2>1. ControlInv' /\ StartOrder'
    BY <1>2, ControlStep, StartOrderStep DEF BridgeInv
  <2>2. JournalInv'
    BY <1>2, BridgeSteps DEF BridgeInv, Steps, Keeps, Receives, Ends, Begins
  <2> QED  BY <2>1, <2>2 DEF BridgeInv
<1>3. Init => ControlInv
  BY InitType, ControlInit DEF ControlInv, ShutdownControl, Init, Callers
<1> QED  BY <1>1, <1>2, <1>3, PTL DEF Spec, BridgeInv

\* An ended capture has a verdict.
LEMMA VerdictGiven ==
  BridgeInv => (capture.id # 0 /\ capture.ended => captureJournal.state \in {"clean", "incomplete"})
BY JournalTyped DEF BridgeInv, JournalInv, Valid, StateIsHonest, Journal
-----------------------------------------------------------------------------
(* What follows from it.                                                   *)

\* In every state the journal the bridge would serve passes the client's
\* parseCaptureJournal, whatever errors, overflows and stops produced it.
THEOREM JournalAlwaysParses ==
  ASSUME EarlySocketErrors = FALSE
  PROVE  Spec => []JournalParses
<1>1. BridgeInv => JournalParses
  <2> SUFFICES ASSUME BridgeInv, captureJournal.captureId # 0
               PROVE  JournalTotals(captureJournal, capture) /\ JournalEntries(captureJournal, capture)
    BY DEF JournalParses
  <2>1. captureJournal \in Journal
    BY JournalTyped DEF BridgeInv
  <2>2. /\ EntriesInOrder(captureJournal, capture.datagrams)
        /\ StateIsHonest(captureJournal)
        /\ TerminalEntry(captureJournal, capture.datagrams)
        /\ captureJournal.captureId = capture.id /\ captureJournal.ended = capture.ended
    BY DEF BridgeInv, JournalInv, Valid
  <2>3. JournalTotals(captureJournal, capture)
    BY <2>1, <2>2, JournalFacts DEF StateIsHonest, JournalTotals
  <2>4. JournalEntries(captureJournal, capture)
    BY <2>2 DEF EntriesInOrder, StateIsHonest, TerminalEntry, JournalEntries
  <2> QED  BY <2>3, <2>4
<1> QED  BY <1>1, BridgeInvariant, PTL

\* The bridge implements the life cycle of captures: each is opened once,
\* counts upwards, and ends with a count and a verdict nothing changes but to
\* withdraw a clean one.
THEOREM BridgeImplementsLifecycle ==
  ASSUME EarlySocketErrors = FALSE
  PROVE  Spec => ImplementsLifecycle
<1>1. Init => Lifecycle!Init
  BY DEF Init, NoCapture, Lifecycle!Init, Verdict
<1>2. ASSUME BridgeInv, BridgeInv', [Next]_vars
      PROVE  [Lifecycle!Next]_(Lifecycle!vars)
  <2> USE DEF CaptureOpen, Verdict, Lifecycle!Next, Lifecycle!vars
  <2>1. capture \in Capture
    BY <1>2, JournalTyped DEF BridgeInv
  <2>2. (capture.id # 0 /\ capture.ended => captureJournal.state \in {"clean", "incomplete"})'
    BY <1>2 DEF BridgeInv, JournalInv, Valid, StateIsHonest, ControlInv, TypeInv, TypeOK,
                BridgeTypeOK, Journal
  <2>3. CASE Keeps
    BY <1>2, <2>1, <2>2, <2>3, VerdictGiven DEF Keeps, Extends, Lifecycle!End
  <2>4. CASE Receives
    <3>1. /\ capture'.id = capture.id /\ capture'.ended = capture.ended
          /\ capture'.datagrams = capture.datagrams + 1
      BY <2>1, <2>4 DEF Receives, Capture
    <3>2. CaptureOpen
      BY <2>4 DEF Receives
    <3> QED  BY <3>1, <3>2 DEF Lifecycle!Receive
  <2>5. CASE Ends
    <3>1. /\ capture'.id = capture.id /\ capture'.ended
          /\ capture'.datagrams = capture.datagrams
      BY <2>1, <2>5 DEF Ends, Capture
    <3>2. CaptureOpen
      BY <2>5 DEF Ends
    <3> QED  BY <2>2, <3>1, <3>2 DEF Lifecycle!End
  <2>6. CASE Begins
    <3>1. /\ capture'.id \in Nat /\ capture'.id > capture.id
          /\ capture'.datagrams = 0 /\ ~capture'.ended /\ ~CaptureOpen
      BY <2>6 DEF Begins
    <3>2. capture'.id # 0
      BY <2>1, <3>1 DEF Capture
    <3>3. Verdict # "open" /\ Verdict' = "open"
      BY <1>2, <3>1, <3>2, VerdictGiven
    <3> QED  BY <3>1, <3>3 DEF Lifecycle!Open
  <2> QED  BY <1>2, <2>3, <2>4, <2>5, <2>6, BridgeSteps DEF BridgeInv, Steps
<1> QED  BY <1>1, <1>2, BridgeInvariant, PTL DEF Spec, ImplementsLifecycle, Lifecycle!Spec

\* A measured kernel drop count is the count of the capture it is shown with,
\* and only shown once that capture's last sample was taken.
THEOREM MeasuredDropsAreOwn ==
  ASSUME EarlySocketErrors = FALSE
  PROVE  Spec => []MeasuredEvidenceIsOwn
<1>1. Init => MeasuredEvidenceIsOwn
  BY DEF Init, MeasuredEvidenceIsOwn
<1>2. ASSUME BridgeInv, MeasuredEvidenceIsOwn, [Next]_vars PROVE MeasuredEvidenceIsOwn'
  <2> USE DEF BridgeInv, ControlInv, TypeInv, TypeOK, Control
  <2>1. capture \in Capture /\ pc \in [Callers -> {"idle", "awaitStart", "finishing", "closing", "closed"}]
    BY <1>2 DEF BridgeTypeOK, StopTypeOK
  <2>2. ASSUME kernelDropEvidence'.source # "measured" PROVE MeasuredEvidenceIsOwn'
    BY <2>2 DEF MeasuredEvidenceIsOwn
  <2>3. ASSUME UNCHANGED kernelDropEvidence, capture'.id = capture.id,
               capture.ended => capture'.ended,
               \A c \in Callers : pc[c] = "closing" => pc'[c] = "closing"
        PROVE  MeasuredEvidenceIsOwn'
    BY <1>2, <2>3 DEF MeasuredEvidenceIsOwn
  <2>4. ASSUME NEW c \in Callers, NEW id, pc[c] # "closing", EnterStop(c, id) \/ BeginCall(c, id)
        PROVE  /\ UNCHANGED <<kernelDropEvidence, capture>>
               /\ \A d \in Callers : pc[d] = "closing" => pc'[d] = "closing"
    <3>1. UNCHANGED <<kernelDropEvidence, capture>>
      BY <2>4 DEF EnterStop, BeginCall, AwaitStart, bridgeVars
    <3>2. \E p : pc' = [pc EXCEPT ![c] = p]
      BY <2>4 DEF EnterStop, BeginCall, AwaitStart, EndCall
    <3> QED  BY <2>1, <2>4, <3>1, <3>2
  <2>5. ASSUME NEW n \in Nonces, NEW k \in Keys,
               StartCapture(n, k) \/ JoinStart(n, k) \/ RetryStart(n, k)
        PROVE  MeasuredEvidenceIsOwn'
    BY <2>3, <2>5 DEF StartCapture, JoinStart, RetryStart, bridgeVars, stopVars
  <2>6. ASSUME NEW op \in Ops, BindFails(op) \/ MembershipFails(op) \/ Listening(op)
        PROVE  MeasuredEvidenceIsOwn'
    BY <2>3, <2>6 DEF BindFails, MembershipFails, StartFails, Listening, stopVars
  <2>7. ASSUME NEW op \in Ops, CaptureBegins(op) PROVE MeasuredEvidenceIsOwn'
    BY <2>2, <2>7 DEF CaptureBegins, FirstSample
  <2>8. ASSUME NEW op \in Ops, HandleDatagram(op) PROVE MeasuredEvidenceIsOwn'
    BY <2>1, <2>3, <2>8 DEF HandleDatagram, stopVars, Capture
  <2>9. ASSUME NEW op \in Ops, MarkSocketFailure(op) PROVE MeasuredEvidenceIsOwn'
    BY <2>2, <2>9 DEF MarkSocketFailure
  <2>10. ASSUME NEW c \in Stoppers, StopCapture(c) PROVE MeasuredEvidenceIsOwn'
    BY <2>3, <2>4, <2>10 DEF StopCapture, Callers
  <2>11. ASSUME Close PROVE MeasuredEvidenceIsOwn'
    <3>1. pc[Shutdown] = "idle" /\ Shutdown \in Callers /\ BeginCall(Shutdown, 0)
      BY <1>2, <2>11 DEF Close, ShutdownControl, Callers
    <3> QED  BY <2>3, <2>4, <3>1
  <2>12. ASSUME NEW c \in Callers, FinishCounter(c) PROVE MeasuredEvidenceIsOwn'
    <3>1. pc[c] = "finishing" /\ pc'[c] = "closing" /\ UNCHANGED capture
      BY <2>1, <2>12 DEF FinishCounter
    <3>2. kernelDropEvidence'.counter = udpKernelDropCounter
      BY <2>12 DEF FinishCounter
    <3>3. udpKernelDropCounter = capture.id
      BY <1>2, <3>1 DEF StopControl, CaptureControl, Ending
    <3> QED  BY <3>1, <3>2, <3>3 DEF MeasuredEvidenceIsOwn
  <2>13. ASSUME NEW c \in Callers, StopCompletes(c) PROVE MeasuredEvidenceIsOwn'
    <3>1. capture'.id = capture.id /\ capture'.ended
      BY <1>2, <2>1, <2>13, StopCompletesEnds DEF Ends, Capture
    <3>2. UNCHANGED kernelDropEvidence
      BY <2>13 DEF StopCompletes
    <3> QED  BY <1>2, <3>1, <3>2 DEF MeasuredEvidenceIsOwn
  <2>14. ASSUME NEW c \in Callers, StopResumes(c) PROVE MeasuredEvidenceIsOwn'
    <3>1. pc[c] # "closing"
      BY <2>14 DEF StopResumes, Ready
    <3>2. CASE EnterStop(c, claim[c])
      BY <2>3, <2>4, <3>1, <3>2
    <3>3. CASE UNCHANGED bridgeVars /\ EndCall(c)
      BY <2>1, <2>3, <3>1, <3>3 DEF bridgeVars, EndCall
    <3> QED  BY <2>14, <3>2, <3>3 DEF StopResumes
  <2>15. ASSUME UNCHANGED vars PROVE MeasuredEvidenceIsOwn'
    BY <2>3, <2>15 DEF vars, bridgeVars, stopVars
  <2> QED
    BY <1>2, <2>5, <2>6, <2>7, <2>8, <2>9, <2>10, <2>11, <2>12, <2>13, <2>14, <2>15
    DEF Next
<1> QED  BY <1>1, <1>2, BridgeInvariant, PTL DEF Spec

-----------------------------------------------------------------------------
(* The event streams.                                                      *)

\* The events of q are those that follow event number b, in order.
Run(q, b) == \A i \in 1..Len(q) : q[i] = b + i

\* One stream that joined after j events, was given w, has queued q and counts
\* b bytes, when n events were sent: the invariant of an open stream.
Open(j, w, q, b, n) ==
  /\ j + Len(w) + Len(q) = n
  /\ b = Total[n] - Total[n - Len(q)]
  /\ Len(q) <= MaxQueueEvents /\ b <= MaxQueueBytes

StreamInv(s) ==
  /\ Run(written[s], joined[s])
  /\ Run(queue[s], joined[s] + Len(written[s]))
  /\ s \in subscribers => /\ Open(joined[s], written[s], queue[s], queuedBytes[s], sent)
                          /\ final[s] = "none"
  /\ s \notin subscribers => queue[s] = <<>> /\ queuedBytes[s] = 0
  /\ s \notin subscribers \cup closed => written[s] = <<>> /\ final[s] = "none"

Inv == /\ StreamTypeOK
       /\ subscribers \cap closed = {}
       /\ \A s \in Streams : StreamInv(s)

-----------------------------------------------------------------------------
(* Sequences of consecutive events.                                        *)

\* The next event may be appended to a run.
LEMMA RunAppend ==
  ASSUME NEW q \in Seq(Nat), NEW b \in Nat, Run(q, b)
  PROVE  Run(Append(q, b + Len(q) + 1), b)
BY DEF Run

\* A run starts with the event after its base, and its tail goes on from there.
LEMMA RunTail ==
  ASSUME NEW q \in Seq(Nat), NEW b \in Nat, Run(q, b), q # <<>>
  PROVE  /\ Head(q) = b + 1
         /\ Run(Tail(q), b + 1)
         /\ Len(Tail(q)) = Len(q) - 1
         /\ Len(q) \in Nat \ {0}
<1>1. Len(q) \in Nat \ {0}  OBVIOUS
<1>2. Head(q) = q[1]  BY <1>1
<1>3. Len(Tail(q)) = Len(q) - 1  BY <1>1
<1>4. \A i \in 1..Len(Tail(q)) : Tail(q)[i] = q[i + 1]  BY <1>1
<1>5. Run(Tail(q), b + 1)
  <2> SUFFICES ASSUME NEW i \in 1..Len(Tail(q)) PROVE Tail(q)[i] = (b + 1) + i
    BY DEF Run
  <2>1. i + 1 \in 1..Len(q)  BY <1>1, <1>3
  <2> QED  BY <1>4, <2>1 DEF Run
<1> QED  BY <1>1, <1>2, <1>3, <1>5 DEF Run

\* The head and the tail of a sequence keep its type.
LEMMA HeadTail ==
  ASSUME NEW T, NEW q \in Seq(T), q # <<>>
  PROVE  Head(q) \in T /\ Tail(q) \in Seq(T)
OBVIOUS

\* The empty sequence is a run from anywhere.
LEMMA RunEmpty == \A b : Run(<<>>, b)
BY DEF Run

-----------------------------------------------------------------------------
(* The ways in which one open stream moves.                                *)

\* An event written past an empty queue (writeSubscriber, not blocked).
LEMMA OpenWrite ==
  ASSUME NEW j \in Nat, NEW w \in Seq(Nat), NEW b \in Nat, NEW n \in 0..(MaxEvents - 1),
         Open(j, w, <<>>, b, n)
  PROVE  Open(j, Append(w, n + 1), <<>>, b, n + 1)
<1>1. Len(Append(w, n + 1)) = Len(w) + 1 /\ Len(w) \in Nat  OBVIOUS
<1>2. Total[n] \in Nat /\ Total[n + 1] \in Nat  BY StreamAssumption
<1>3. Len(<<>>) = 0  OBVIOUS
<1> QED  BY <1>1, <1>2, <1>3 DEF Open

\* An event queued within both limits (writeSubscriber, blocked).
LEMMA OpenQueue ==
  ASSUME NEW j \in Nat, NEW w \in Seq(Nat), NEW q \in Seq(Nat), NEW b \in Nat,
         NEW n \in 0..(MaxEvents - 1), Open(j, w, q, b, n),
         Len(q) < MaxQueueEvents, b + Bytes(n + 1) <= MaxQueueBytes
  PROVE  Open(j, w, Append(q, n + 1), b + Bytes(n + 1), n + 1)
<1>1. Len(Append(q, n + 1)) = Len(q) + 1 /\ Len(q) \in Nat /\ Len(w) \in Nat  OBVIOUS
<1>2. n - Len(q) \in 0..MaxEvents
  <2>1. MaxEvents \in Nat /\ j + Len(w) + Len(q) = n  BY StreamAssumption DEF Open
  <2> QED  BY <1>1, <2>1
<1>3. Total[n] \in Nat /\ Total[n + 1] \in Nat /\ Total[n - Len(q)] \in Nat
  BY <1>2, StreamAssumption
<1>4. (n + 1) - (Len(q) + 1) = n - Len(q) /\ (n + 1) - 1 = n  BY <1>1
<1>5. Bytes(n + 1) = Total[n + 1] - Total[n]  BY <1>4 DEF Bytes
<1>6. b + Bytes(n + 1) = Total[n + 1] - Total[(n + 1) - Len(Append(q, n + 1))]
  BY <1>1, <1>3, <1>4, <1>5 DEF Open
<1>7. MaxQueueEvents \in Nat  BY StreamAssumption
<1>8. j + Len(w) + Len(Append(q, n + 1)) = n + 1
  <2>1. j + Len(w) + Len(q) = n  BY DEF Open
  <2> QED  BY <1>1, <2>1
<1>9. Len(Append(q, n + 1)) <= MaxQueueEvents  BY <1>1, <1>7
<1> QED  BY <1>6, <1>8, <1>9 DEF Open

\* An event moved from the queue to the response (flushSubscriber); what its
\* bytes leave of the count is not negative.
LEMMA OpenFlush ==
  ASSUME NEW j \in Nat, NEW w \in Seq(Nat), NEW q \in Seq(Nat), NEW b \in Nat,
         NEW n \in 0..MaxEvents, Open(j, w, q, b, n), q # <<>>, Run(q, j + Len(w))
  PROVE  /\ Open(j, Append(w, Head(q)), Tail(q), b - Bytes(Head(q)), n)
         /\ b - Bytes(Head(q)) \in Nat
<1> DEFINE m == n - Len(q)
<1>0. j + Len(w) \in Nat /\ Len(w) \in Nat  OBVIOUS
<1>1. /\ Head(q) = j + Len(w) + 1
      /\ Len(Tail(q)) = Len(q) - 1
      /\ Len(q) \in Nat \ {0}
  BY <1>0, RunTail
<1>2. b = Total[n] - Total[m] /\ b <= MaxQueueBytes  BY DEF Open
<1>3. m \in 0..MaxEvents /\ m + 1 \in 0..MaxEvents /\ m + 1 <= n /\ Head(q) = m + 1
  <2>1. MaxEvents \in Nat  BY StreamAssumption
  <2>2. j + Len(w) + Len(q) = n  BY DEF Open
  <2>3. m = j + Len(w)  BY <1>0, <1>1, <2>2
  <2> HIDE DEF m
  <2>4. m + Len(q) = n /\ m \in Nat  BY <1>0, <2>2, <2>3
  <2>5. m + 1 <= n /\ n <= MaxEvents  BY <1>1, <2>1, <2>4
  <2> QED  BY <1>1, <2>1, <2>3, <2>4, <2>5
<1>4. /\ Total[n] \in Nat /\ Total[m] \in Nat /\ Total[m + 1] \in Nat
      /\ Total[m] <= Total[m + 1] /\ Total[m + 1] <= Total[n]
  BY <1>3, StreamAssumption
<1>5. (m + 1) - 1 = m /\ n - (Len(q) - 1) = m + 1  BY <1>1, <1>3
<1>6. Bytes(Head(q)) = Total[m + 1] - Total[m]  BY <1>3, <1>5 DEF Bytes
<1>7. b - Bytes(Head(q)) = Total[n] - Total[m + 1]  BY <1>2, <1>4, <1>6
<1>8. Total[n] - Total[m + 1] \in Nat /\ Total[n] - Total[m + 1] <= b
  BY <1>2, <1>4
<1>9. Len(Append(w, Head(q))) = Len(w) + 1  OBVIOUS
<1>10. MaxQueueEvents \in Nat /\ MaxQueueBytes \in Nat  BY StreamAssumption
<1>11. j + Len(Append(w, Head(q))) + Len(Tail(q)) = n
  <2>1. j + Len(w) + Len(q) = n  BY DEF Open
  <2>2. j + (Len(w) + 1) + (Len(q) - 1) = n  BY <1>0, <1>1, <2>1
  <2> QED  BY <1>1, <1>9, <2>2
<1>12. Len(Tail(q)) <= MaxQueueEvents  BY <1>1, <1>10 DEF Open
<1>13. b - Bytes(Head(q)) = Total[n] - Total[n - Len(Tail(q))]
  BY <1>1, <1>5, <1>7
<1>14. b - Bytes(Head(q)) <= MaxQueueBytes
  <2> HIDE DEF m
  <2> QED  BY <1>2, <1>4, <1>7, <1>8, <1>10
<1> QED  BY <1>7, <1>8, <1>11, <1>12, <1>13, <1>14 DEF Open

-----------------------------------------------------------------------------
(* The actions that write events.                                          *)

\* A payload weighs a natural number of bytes.
LEMMA BytesType == \A n \in 1..MaxEvents : Bytes(n) \in Nat
<1> TAKE n \in 1..MaxEvents
<1>1. MaxEvents \in Nat  BY StreamAssumption
<1>2. n - 1 \in 0..MaxEvents /\ n \in 0..MaxEvents /\ n - 1 <= n  BY <1>1
<1>3. Total[n - 1] \in Nat /\ Total[n] \in Nat /\ Total[n - 1] <= Total[n]
  BY <1>2, StreamAssumption
<1> QED  BY <1>3 DEF Bytes

\* What the invariant says of one stream's variables.
LEMMA StreamTypes ==
  ASSUME StreamTypeOK, NEW s \in Streams
  PROVE  /\ joined[s] \in Nat /\ queuedBytes[s] \in Nat
         /\ written[s] \in Seq(1..MaxEvents) /\ queue[s] \in Seq(1..MaxEvents)
         /\ written[s] \in Seq(Nat) /\ queue[s] \in Seq(Nat)
         /\ Len(written[s]) \in Nat /\ Len(queue[s]) \in Nat
<1>1. MaxEvents \in Nat  BY StreamAssumption
<1>2. 1..MaxEvents \subseteq Nat  BY <1>1
<1>3. /\ joined[s] \in 0..MaxEvents /\ queuedBytes[s] \in Nat
      /\ written[s] \in Seq(1..MaxEvents) /\ queue[s] \in Seq(1..MaxEvents)
  BY DEF StreamTypeOK
<1> QED  BY <1>1, <1>2, <1>3

\* A broadcast keeps the variables in their ranges.
LEMMA BroadcastType ==
  ASSUME StreamTypeOK, Broadcast
  PROVE  StreamTypeOK'
<1>1. sent + 1 \in 1..MaxEvents /\ sent' \in 0..MaxEvents
  BY StreamAssumption DEF StreamTypeOK, Broadcast
<1>2. Bytes(sent + 1) \in Nat  BY <1>1, BytesType
<1>3. \A s \in Streams :
        /\ written[s] \in Seq(1..MaxEvents) /\ queue[s] \in Seq(1..MaxEvents)
        /\ queuedBytes[s] \in Nat /\ queuedBytes[s] + Bytes(sent + 1) \in Nat
        /\ <<>> \in Seq(1..MaxEvents)
        /\ Append(written[s], sent + 1) \in Seq(1..MaxEvents)
        /\ Append(queue[s], sent + 1) \in Seq(1..MaxEvents)
  <2> TAKE s \in Streams
  <2>1. queuedBytes[s] \in Nat  BY StreamTypes
  <2>2. written[s] \in Seq(1..MaxEvents) /\ queue[s] \in Seq(1..MaxEvents)  BY StreamTypes
  <2>3. queuedBytes[s] + Bytes(sent + 1) \in Nat  BY <1>2, <2>1
  <2> HIDE DEF StreamTypeOK
  <2> QED  BY <1>1, <2>1, <2>2, <2>3
<1>4. /\ queue' \in [Streams -> Seq(1..MaxEvents)]
      /\ queuedBytes' \in [Streams -> Nat]
      /\ written' \in [Streams -> Seq(1..MaxEvents)]
  BY <1>3 DEF Broadcast
<1>5. /\ blocked' \subseteq Streams /\ needDrain' \subseteq Streams
      /\ subscribers' \subseteq Streams /\ closed' \subseteq Streams
      /\ final' \in [Streams -> Final]
  BY DEF StreamTypeOK, Broadcast, Refuse, CloseSubscriber, OverflowPayload, Final
<1> QED  BY <1>1, <1>4, <1>5 DEF StreamTypeOK, Broadcast

\* What a broadcast does to one stream: it writes the event, queues it within
\* both limits, cuts the stream off, or has nothing to do with it.
LEMMA BroadcastStream ==
  ASSUME Inv, Broadcast, NEW s \in Streams
  PROVE  StreamInv(s)'
<1> DEFINE n == sent + 1
<1>1. sent \in 0..(MaxEvents - 1) /\ sent \in Nat /\ sent' = sent + 1
  BY StreamAssumption DEF Inv, StreamTypeOK, Broadcast
<1>2. StreamTypeOK /\ StreamInv(s)  BY DEF Inv
<1>3. joined' = joined /\ joined[s] \in Nat /\ queuedBytes[s] \in Nat
      /\ written[s] \in Seq(Nat) /\ queue[s] \in Seq(Nat)
      /\ Len(written[s]) \in Nat /\ Len(queue[s]) \in Nat
  BY <1>2, StreamTypes DEF Broadcast
<1>4. CASE s \in subscribers /\ s \notin blocked
  <2>1. queue[s] = <<>>  BY <1>4 DEF Broadcast, NoneFlushing, Flushing
  <2>2. /\ written'[s] = Append(written[s], sent + 1)
        /\ queue'[s] = <<>> /\ queuedBytes'[s] = queuedBytes[s]
        /\ s \in subscribers' /\ final'[s] = final[s]
    BY <1>4, <2>1 DEF Broadcast, CloseSubscriber
  <2>3. Open(joined[s], written[s], <<>>, queuedBytes[s], sent)
    BY <1>2, <1>4, <2>1 DEF StreamInv
  <2>4. Open(joined[s], written'[s], <<>>, queuedBytes[s], sent + 1)
    BY <1>1, <1>3, <2>2, <2>3, OpenWrite
  <2>5. sent + 1 = joined[s] + Len(written[s]) + 1
    <3>1. joined[s] + Len(written[s]) + Len(<<>>) = sent  BY <2>3 DEF Open
    <3> QED  BY <1>1, <1>3, <3>1
  <2>6. Run(written'[s], joined[s])
    BY <1>2, <1>3, <2>2, <2>5, RunAppend DEF StreamInv
  <2> QED
    BY <1>1, <1>2, <1>3, <1>4, <2>2, <2>4, <2>6, RunEmpty DEF StreamInv
<1>5. CASE s \in subscribers /\ s \in blocked /\ ~Full(s, sent + 1)
  <2>1. /\ written'[s] = written[s] /\ queue'[s] = Append(queue[s], sent + 1)
        /\ queuedBytes'[s] = queuedBytes[s] + Bytes(sent + 1)
        /\ s \in subscribers' /\ final'[s] = final[s]
    BY <1>5 DEF Broadcast, CloseSubscriber
  <2>2. Open(joined[s], written[s], queue[s], queuedBytes[s], sent)
    BY <1>2, <1>5 DEF StreamInv
  <2>3. Bytes(sent + 1) \in Nat /\ MaxQueueEvents \in Nat /\ MaxQueueBytes \in Nat
    <3>1. sent + 1 \in 1..MaxEvents  BY <1>1, StreamAssumption
    <3> QED  BY <3>1, BytesType, StreamAssumption
  <2>4. Len(queue[s]) < MaxQueueEvents /\ queuedBytes[s] + Bytes(sent + 1) <= MaxQueueBytes
    BY <1>3, <1>5, <2>3 DEF Full
  <2>5. Open(joined[s], written[s], queue'[s], queuedBytes'[s], sent + 1)
    BY <1>1, <1>3, <2>1, <2>2, <2>4, OpenQueue
  <2>6. sent + 1 = (joined[s] + Len(written[s])) + Len(queue[s]) + 1
    <3>1. joined[s] + Len(written[s]) + Len(queue[s]) = sent  BY <2>2 DEF Open
    <3> QED  BY <1>1, <1>3, <3>1
  <2>7. Run(queue'[s], joined[s] + Len(written[s]))
    <3>1. joined[s] + Len(written[s]) \in Nat  BY <1>3
    <3> QED  BY <1>2, <1>3, <2>1, <2>6, <3>1, RunAppend DEF StreamInv
  <2> QED
    BY <1>1, <1>2, <1>3, <1>5, <2>1, <2>5, <2>7 DEF StreamInv
<1>6. CASE s \in subscribers /\ s \in blocked /\ Full(s, sent + 1)
  <2>1. /\ written'[s] = written[s] /\ queue'[s] = <<>> /\ queuedBytes'[s] = 0
        /\ s \notin subscribers' /\ s \in closed'
    BY <1>6 DEF Broadcast, CloseSubscriber
  <2> QED  BY <1>2, <1>3, <2>1, RunEmpty DEF StreamInv
<1>7. CASE s \notin subscribers
  <2>1. /\ written'[s] = written[s] /\ queue'[s] = queue[s]
        /\ queuedBytes'[s] = queuedBytes[s] /\ final'[s] = final[s]
        /\ s \notin subscribers' /\ (s \in closed' <=> s \in closed)
    BY <1>7 DEF Broadcast, CloseSubscriber
  <2> QED  BY <1>2, <1>3, <1>7, <2>1 DEF StreamInv
<1> QED  BY <1>4, <1>5, <1>6, <1>7

\* A turn of the flush loop keeps the variables in their ranges and every
\* stream's invariant: the head of the queue is the next event to write.
LEMMA FlushInv ==
  ASSUME Inv, NEW r \in Streams, FlushStep(r)
  PROVE  Inv'
<1>1. r \in subscribers /\ queue[r] # <<>> /\ StreamTypeOK /\ StreamInv(r)
  BY DEF Inv, FlushStep, Flushing
<1>2. joined[r] \in Nat /\ queuedBytes[r] \in Nat /\ sent \in 0..MaxEvents
      /\ written[r] \in Seq(Nat) /\ queue[r] \in Seq(Nat) /\ queue[r] \in Seq(1..MaxEvents)
      /\ written[r] \in Seq(1..MaxEvents) /\ Len(written[r]) \in Nat
  BY <1>1, StreamTypes DEF StreamTypeOK
<1>3. /\ written'[r] = Append(written[r], Head(queue[r]))
      /\ queue'[r] = Tail(queue[r])
      /\ queuedBytes'[r] = queuedBytes[r] - Bytes(Head(queue[r]))
  BY <1>1 DEF FlushStep, Released, StreamTypeOK
<1>4. Open(joined[r], written[r], queue[r], queuedBytes[r], sent)
      /\ Run(written[r], joined[r]) /\ Run(queue[r], joined[r] + Len(written[r]))
  BY <1>1 DEF StreamInv
<1>5. Open(joined[r], written'[r], queue'[r], queuedBytes'[r], sent)
      /\ queuedBytes'[r] \in Nat
  BY <1>1, <1>2, <1>3, <1>4, OpenFlush
<1>6. /\ Head(queue[r]) = joined[r] + Len(written[r]) + 1
      /\ Run(queue'[r], joined[r] + Len(written[r]) + 1)
  <2>1. joined[r] + Len(written[r]) \in Nat  BY <1>2
  <2> QED  BY <1>1, <1>2, <1>3, <1>4, <2>1, RunTail
<1>7. Run(written'[r], joined[r])
  BY <1>2, <1>3, <1>4, <1>6, RunAppend
<1>8. joined[r] + Len(written[r]) + 1 = joined[r] + Len(written'[r])
  <2>1. Len(written'[r]) = Len(written[r]) + 1  BY <1>2, <1>3
  <2>2. joined[r] \in Nat /\ Len(written[r]) \in Nat  BY <1>2
  <2> DEFINE m == Len(written[r])  k == joined[r]
  <2>3. Len(written'[r]) = m + 1 /\ m \in Nat /\ k \in Nat  BY <2>1, <2>2
  <2> HIDE DEF m, k
  <2>4. k + m + 1 = k + (m + 1)  BY <2>3
  <2> QED  BY <2>3, <2>4 DEF m, k
<1>9. StreamInv(r)'
  BY <1>1, <1>5, <1>6, <1>7, <1>8 DEF FlushStep, ends, StreamInv
<1>10. ASSUME NEW s \in Streams, s # r PROVE StreamInv(s)'
  BY <1>10 DEF Inv, FlushStep, ends, StreamInv, StreamTypeOK
<1>11. StreamTypeOK'
  <2>1. Head(queue[r]) \in 1..MaxEvents /\ Tail(queue[r]) \in Seq(1..MaxEvents)
    BY <1>1, <1>2, HeadTail
  <2>2. written'[r] \in Seq(1..MaxEvents)  BY <1>2, <1>3, <2>1
  <2>3. /\ written' = [written EXCEPT ![r] = written'[r]]
        /\ queue' = [queue EXCEPT ![r] = queue'[r]]
        /\ queuedBytes' = [queuedBytes EXCEPT ![r] = queuedBytes'[r]]
    BY <1>1, <1>3 DEF FlushStep, StreamTypeOK
  <2>4. /\ written' \in [Streams -> Seq(1..MaxEvents)]
        /\ queue' \in [Streams -> Seq(1..MaxEvents)]
        /\ queuedBytes' \in [Streams -> Nat]
    <3>1. /\ written'[r] \in Seq(1..MaxEvents) /\ queue'[r] \in Seq(1..MaxEvents)
          /\ queuedBytes'[r] \in Nat
      BY <1>3, <1>5, <2>1, <2>2
    <3>2. /\ written \in [Streams -> Seq(1..MaxEvents)]
          /\ queue \in [Streams -> Seq(1..MaxEvents)]
          /\ queuedBytes \in [Streams -> Nat]
      BY <1>1 DEF StreamTypeOK
    <3> DEFINE w == written'[r]  q == queue'[r]  b == queuedBytes'[r]
    <3>3. w \in Seq(1..MaxEvents) /\ q \in Seq(1..MaxEvents) /\ b \in Nat  BY <3>1
    <3>4. /\ written' = [written EXCEPT ![r] = w]
          /\ queue' = [queue EXCEPT ![r] = q]
          /\ queuedBytes' = [queuedBytes EXCEPT ![r] = b]
      BY <2>3
    <3> HIDE DEF w, q, b
    <3> QED  BY <3>2, <3>3, <3>4
  <2> QED  BY <1>1, <2>4 DEF StreamTypeOK, FlushStep, Refuse, ends
<1> QED
  <2>1. subscribers' \cap closed' = {}  BY DEF Inv, FlushStep, ends
  <2> QED  BY <1>9, <1>10, <1>11, <2>1 DEF Inv

-----------------------------------------------------------------------------
(* The invariant.                                                          *)

\* Ending a set of streams, by their readers or by the shutdown, keeps the
\* invariant: an ended stream has nothing queued.
LEMMA EndInv ==
  ASSUME Inv, NEW S \in SUBSET subscribers, NEW payload \in Final,
         CloseSubscriber(S, payload), Emptied(S),
         UNCHANGED <<sent, ending, reader, blocked, joined, written>>
  PROVE  Inv'
<1>1. StreamTypeOK'
  <2>1. queue \in [Streams -> Seq(1..MaxEvents)] /\ queuedBytes \in [Streams -> Nat]
    BY DEF Inv, StreamTypeOK
  <2>2. <<>> \in Seq(1..MaxEvents)  OBVIOUS
  <2>3. queue' \in [Streams -> Seq(1..MaxEvents)] /\ queuedBytes' \in [Streams -> Nat]
    BY <2>1, <2>2 DEF Emptied
  <2>4. /\ subscribers' \subseteq Streams /\ closed' \subseteq Streams
        /\ final' \in [Streams -> Final]
    BY DEF Inv, StreamTypeOK, CloseSubscriber
  <2> QED  BY <2>3, <2>4 DEF Inv, StreamTypeOK, reader
<1>2. subscribers' \cap closed' = {}
  BY DEF Inv, CloseSubscriber
<1>3. ASSUME NEW s \in Streams PROVE StreamInv(s)'
  <2>1. StreamInv(s)  BY DEF Inv
  <2>2. CASE s \in S
    BY <2>1, <2>2, RunEmpty DEF StreamInv, CloseSubscriber, Emptied
  <2>3. CASE s \notin S
    BY <2>1, <2>3 DEF StreamInv, CloseSubscriber, Emptied
  <2> QED  BY <2>2, <2>3
<1> QED  BY <1>1, <1>2, <1>3 DEF Inv

\* A stream that joins was given nothing yet and misses nothing.
LEMMA JoinInv ==
  ASSUME Inv, NEW r \in Streams, Join(r)
  PROVE  Inv'
<1>1. StreamTypeOK'
  BY DEF Inv, StreamTypeOK, Join, Refuse
<1>2. subscribers' \cap closed' = {}
  BY DEF Inv, Join
<1>3. ASSUME NEW s \in Streams PROVE StreamInv(s)'
  <2>1. StreamInv(s) /\ StreamTypeOK  BY DEF Inv
  <2>2. CASE s = r
    <3>1. written[s] = <<>> /\ queue[s] = <<>> /\ queuedBytes[s] = 0
      BY <2>1, <2>2 DEF StreamInv, Join
    <3>2. joined'[s] = sent /\ sent \in 0..MaxEvents /\ s \in subscribers'
      BY <2>1, <2>2 DEF Join, StreamTypeOK
    <3>3. Open(sent, <<>>, <<>>, 0, sent)
      <4>1. Total[sent] \in Nat /\ sent \in Nat /\ MaxQueueEvents \in Nat /\ MaxQueueBytes \in Nat
        BY <3>2, StreamAssumption
      <4>2. Len(<<>>) = 0  OBVIOUS
      <4> QED  BY <4>1, <4>2 DEF Open
    <3>4. final'[s] = "none"
      BY <2>1, <2>2 DEF StreamInv, Join
    <3> QED  BY <3>1, <3>2, <3>3, <3>4, RunEmpty DEF StreamInv, Join
  <2>3. CASE s # r
    BY <2>1, <2>3 DEF StreamInv, Join, StreamTypeOK
  <2> QED  BY <2>2, <2>3
<1> QED  BY <1>1, <1>2, <1>3 DEF Inv

\* The invariant of the streams.
THEOREM StreamsInvariant == StreamSpec => []Inv
<1>1. InitStream => Inv
  <2> SUFFICES ASSUME InitStream PROVE Inv  OBVIOUS
  <2>1. MaxEvents \in Nat  BY StreamAssumption
  <2>2. StreamTypeOK
    <3>1. <<>> \in Seq(1..MaxEvents) /\ 0 \in 0..MaxEvents /\ 0 \in Nat  BY <2>1
    <3>2. /\ queue \in [Streams -> Seq(1..MaxEvents)]
          /\ written \in [Streams -> Seq(1..MaxEvents)]
          /\ queuedBytes \in [Streams -> Nat] /\ joined \in [Streams -> 0..MaxEvents]
          /\ final \in [Streams -> Final]
      BY <3>1 DEF InitStream, Final
    <3> QED  BY <3>1, <3>2 DEF InitStream, StreamTypeOK
  <2>3. ASSUME NEW s \in Streams PROVE StreamInv(s)
    BY RunEmpty DEF InitStream, StreamInv
  <2> QED  BY <2>2, <2>3 DEF InitStream, Inv
<1>2. Inv /\ [NextStream]_streamVars => Inv'
  <2> SUFFICES ASSUME Inv, [NextStream]_streamVars PROVE Inv'  OBVIOUS
  <2>1. ASSUME NEW s \in Streams, Join(s) PROVE Inv'
    BY <2>1, JoinInv
  <2>2. CASE Broadcast
    <3>1. StreamTypeOK'  BY <2>2, BroadcastType DEF Inv
    <3>2. subscribers' \cap closed' = {}  BY <2>2 DEF Inv, Broadcast, CloseSubscriber
    <3> QED  BY <2>2, <3>1, <3>2, BroadcastStream DEF Inv
  <2>3. ASSUME NEW s \in Streams, Drain(s) PROVE Inv'
    BY <2>3 DEF Inv, StreamTypeOK, StreamInv, Drain, Unblock, ends
  <2>4. ASSUME NEW s \in Streams, FlushStep(s) PROVE Inv'
    BY <2>4, FlushInv
  <2>5. ASSUME NEW s \in Streams, Disconnect(s) PROVE Inv'
    BY <2>5 DEF Inv, StreamTypeOK, StreamInv, Disconnect, buffer, ends
  <2>6. ASSUME NEW s \in Streams, StreamCloses(s) PROVE Inv'
    BY <2>6, EndInv DEF StreamCloses, Final
  <2>7. CASE BeginShutdown
    BY <2>7 DEF Inv, StreamTypeOK, StreamInv, BeginShutdown, reader, buffer, ends
  <2>8. CASE EndStreams
    BY <2>8, EndInv DEF EndStreams, Final
  <2>9. CASE UNCHANGED streamVars
    BY <2>9 DEF Inv, StreamTypeOK, StreamInv, streamVars, reader, buffer, ends
  <2> QED
    BY <2>1, <2>2, <2>3, <2>4, <2>5, <2>6, <2>7, <2>8, <2>9 DEF NextStream
<1> QED  BY <1>1, <1>2, PTL DEF StreamSpec

\* Every variable of the streams stays in its range; the byte count of a queue
\* is never negative (flushSubscriber subtracts what writeSubscriber added).
THEOREM StreamTypeCorrect == StreamSpec => []StreamTypeOK
<1>1. Inv => StreamTypeOK  BY DEF Inv
<1> QED  BY <1>1, StreamsInvariant, PTL

\* A reader gets the events from its hello on, once each and in order, and an
\* open stream has all of them written or queued.
THEOREM StreamsInOrder == StreamSpec => []InOrder
<1>1. Inv => InOrder
  <2> SUFFICES ASSUME Inv, NEW s \in Streams
               PROVE  LET given == written[s] \o queue[s]
                      IN /\ \A i \in 1..Len(given) : given[i] = joined[s] + i
                         /\ s \in subscribers => joined[s] + Len(given) = sent
    BY DEF InOrder
  <2> DEFINE w == written[s]  q == queue[s]  j == joined[s]  given == w \o q
  <2>1. j \in Nat /\ w \in Seq(Nat) /\ q \in Seq(Nat) /\ Len(w) \in Nat /\ Len(q) \in Nat
    BY StreamTypes DEF Inv
  <2>2. Run(w, j) /\ Run(q, j + Len(w)) /\ (s \in subscribers => j + Len(w) + Len(q) = sent)
    BY DEF Inv, StreamInv, Open
  <2> HIDE DEF w, q, j
  <2>3. Len(given) = Len(w) + Len(q)  BY <2>1
  <2>4. ASSUME NEW i \in 1..Len(given) PROVE given[i] = j + i
    <3>1. CASE i <= Len(w)
      BY <2>1, <2>2, <3>1 DEF Run
    <3>2. CASE i > Len(w)
      <4>1. i - Len(w) \in 1..Len(q)  BY <2>1, <2>3, <3>2
      <4>2. given[i] = q[i - Len(w)]  BY <2>1, <2>3, <3>2
      <4>3. q[i - Len(w)] = j + Len(w) + (i - Len(w))  BY <2>2, <4>1 DEF Run
      <4> QED  BY <2>1, <2>3, <4>2, <4>3
    <3> QED  BY <2>1, <2>3, <3>1, <3>2
  <2>5. s \in subscribers => j + Len(given) = sent  BY <2>1, <2>2, <2>3
  <2> QED  BY <2>4, <2>5 DEF w, q, j
<1> QED  BY <1>1, StreamsInvariant, PTL

\* The queue of a stream stays within both limits, by the events it really
\* holds (the check of writeSubscriber on a counter kept by three functions).
THEOREM QueuesBounded == StreamSpec => []QueueBounded
<1>1. Inv => QueueBounded
  BY DEF Inv, StreamTypeOK, StreamInv, Open, QueueBounded, Weight
<1> QED  BY <1>1, StreamsInvariant, PTL

\* A stream whose reader stayed ends with an error or the shutdown's status.
THEOREM NoStreamEndsSilently == StreamSpec => []NoSilentEnd
<1>1. InitStream => NoSilentEnd  BY DEF InitStream, NoSilentEnd
<1>2. Inv /\ NoSilentEnd /\ [NextStream]_streamVars => NoSilentEnd'
  <2> SUFFICES ASSUME Inv, NoSilentEnd, [NextStream]_streamVars PROVE NoSilentEnd'  OBVIOUS
  <2>1. ASSUME NEW s \in Streams, Join(s) PROVE NoSilentEnd'
    BY <2>1 DEF NoSilentEnd, Join
  <2>2. CASE Broadcast
    BY <2>2 DEF Inv, StreamTypeOK, NoSilentEnd, Broadcast, CloseSubscriber, OverflowPayload
  <2>3. ASSUME NEW s \in Streams, Drain(s) PROVE NoSilentEnd'
    BY <2>3 DEF NoSilentEnd, Drain, ends
  <2>4. ASSUME NEW s \in Streams, FlushStep(s) PROVE NoSilentEnd'
    BY <2>4 DEF NoSilentEnd, FlushStep, ends
  <2>5. ASSUME NEW s \in Streams, Disconnect(s) PROVE NoSilentEnd'
    BY <2>5 DEF NoSilentEnd, Disconnect, ends
  <2>6. ASSUME NEW s \in Streams, StreamCloses(s) PROVE NoSilentEnd'
    BY <2>6 DEF Inv, StreamTypeOK, NoSilentEnd, StreamCloses, CloseSubscriber, reader
  <2>7. CASE BeginShutdown
    BY <2>7 DEF NoSilentEnd, BeginShutdown, reader, ends
  <2>8. CASE EndStreams
    BY <2>8 DEF Inv, StreamTypeOK, NoSilentEnd, EndStreams, CloseSubscriber, reader
  <2>9. CASE UNCHANGED streamVars
    BY <2>9 DEF NoSilentEnd, streamVars, reader, ends
  <2> QED
    BY <2>1, <2>2, <2>3, <2>4, <2>5, <2>6, <2>7, <2>8, <2>9 DEF NextStream
<1> QED  BY <1>1, <1>2, StreamsInvariant, PTL DEF StreamSpec

\* Only a reader that is a full queue behind is cut off.
THEOREM CutMeansSlow == StreamSpec => [][SlowReadersCut]_streamVars
<1> DEFINE Cut(s) == final[s] = "none" /\ final'[s] = "bridge-error" =>
                       \/ Len(queue[s]) >= MaxQueueEvents
                       \/ Weight(s, sent + 1) > MaxQueueBytes
<1>1. Inv /\ [NextStream]_streamVars => \A s \in Streams : Cut(s)
  <2> SUFFICES ASSUME Inv, [NextStream]_streamVars, NEW s \in Streams,
                      final[s] = "none", final'[s] = "bridge-error"
               PROVE  \/ Len(queue[s]) >= MaxQueueEvents
                      \/ Weight(s, sent + 1) > MaxQueueBytes
    OBVIOUS
  <2>1. Broadcast
    BY DEF NextStream, Join, Drain, FlushStep, Disconnect, StreamCloses, BeginShutdown,
           EndStreams, CloseSubscriber, streamVars, ends
  <2>2. s \in subscribers /\ Full(s, sent + 1)
    BY <2>1 DEF Broadcast, CloseSubscriber
  <2>3. Open(joined[s], written[s], queue[s], queuedBytes[s], sent) /\ StreamTypeOK
    BY <2>2 DEF Inv, StreamInv
  <2>4. /\ joined[s] \in Nat /\ Len(written[s]) \in Nat /\ Len(queue[s]) \in Nat
        /\ sent \in 0..MaxEvents /\ sent + 1 \in 0..MaxEvents
    BY <2>1, <2>3, StreamTypes, StreamAssumption DEF StreamTypeOK, Broadcast
  <2>5. sent - Len(queue[s]) \in 0..MaxEvents
    <3>1. joined[s] + Len(written[s]) + Len(queue[s]) = sent  BY <2>3 DEF Open
    <3> QED  BY <2>4, <3>1, StreamAssumption
  <2> DEFINE a == Total[sent - Len(queue[s])]  b == Total[sent]  c == Total[sent + 1]
  <2>6. a \in Nat /\ b \in Nat /\ c \in Nat  BY <2>4, <2>5, StreamAssumption
  <2>7. queuedBytes[s] = b - a /\ Weight(s, sent + 1) = c - a  BY <2>3 DEF Open, Weight
  <2>8. Bytes(sent + 1) = c - b
    <3>1. (sent + 1) - 1 = sent  BY <2>4
    <3> QED  BY <3>1 DEF Bytes
  <2> HIDE DEF a, b, c
  <2>9. queuedBytes[s] + Bytes(sent + 1) = Weight(s, sent + 1)  BY <2>6, <2>7, <2>8
  <2> QED  BY <2>2, <2>9 DEF Full
<1>2. Inv /\ [NextStream]_streamVars => SlowReadersCut  BY <1>1 DEF SlowReadersCut
<1> QED  BY <1>2, StreamsInvariant, PTL DEF StreamSpec

\* No stream ends silently and only slow readers are cut off: the two theorems above as one.
THEOREM StreamEndsAreEarned == StreamSpec => EndsAreEarned
BY NoStreamEndsSilently, CutMeansSlow, PTL DEF EndsAreEarned
=============================================================================
