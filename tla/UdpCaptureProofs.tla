-------------------------- MODULE UdpCaptureProofs --------------------------
(***************************************************************************)
(* Proofs about a UDP recording, for any number of captures, nonces,       *)
(* datagrams, faults and any limits of the recorder: the bridge keeps the  *)
(* promises of CaptureLifecycle; session storage holds the nonce of every  *)
(* capture the bridge has begun for this page; the dialog and its recorder *)
(* stay within their types and limits; and a session saved as verified is  *)
(* the whole of a capture that ended cleanly, about which nothing was      *)
(* noticed that the session does not say.                                  *)
(*                                                                         *)
(* The sections build up as the code does: sequences and the recursive     *)
(* functions of the module by induction; the operators on the dialog and   *)
(* its recorder (Stage, what every input keeps); finalisation (Grown,      *)
(* DoubtGrows, VerifiedFacts); what the page is told (Told, Honest); and   *)
(* then every action, for the situations the dialog can be in (PhaseInv).  *)
(***************************************************************************)
EXTENDS UdpCapture, WellFoundedInduction, TLAPS

States == {"idle", "starting", "capturing", "stopping", "stopped", "error"}
Errors == {"none", "socket", "overflow", "bind", "leave"}

Bridges ==
  [state : States, cap : Nat, nonce : Int, starting : Int, datagrams : Nat, start : Int, dur : Int,
   tail : Int, ended : BOOLEAN, dirty : BOOLEAN, drops : Int, err : Errors]
Truths == [datagrams : Nat, ended : BOOLEAN, dirty : BOOLEAN, sampled : BOOLEAN]

-----------------------------------------------------------------------------
(* What became of the captures *)

LinkTyped ==
  /\ now \in Int /\ bridge \in Bridges
  /\ made \in [captures : Nat, nonces : Nat]
  /\ truth \in [1..MaxCaptures -> Truths]

\* The bridge knows what became of its capture; the latest one is open exactly while it captures.
CaptureInv ==
  /\ bridge.cap <= made.captures /\ made.captures <= MaxCaptures
  /\ bridge.cap # 0 => /\ truth[bridge.cap].datagrams = bridge.datagrams
                       /\ truth[bridge.cap].ended <=> bridge.ended
                       /\ truth[bridge.cap].dirty <=> bridge.dirty
                       /\ bridge.state # "capturing" => bridge.ended
  /\ bridge.state = "capturing" => bridge.cap = made.captures /\ bridge.cap # 0 /\ ~bridge.ended
  /\ bridge.state # "capturing" /\ made.captures # 0 => truth[made.captures].ended

LifeInv == LinkTyped /\ CaptureInv

LEMMA InitLife == InitLink => LifeInv
<1> SUFFICES ASSUME InitLink PROVE LifeInv
  OBVIOUS
<1>1. bridge \in Bridges /\ bridge.cap = 0 /\ bridge.state = "idle"
  BY DEF InitLink, Idle, Bridges, States, Errors
<1>2. truth \in [1..MaxCaptures -> Truths]
  BY DEF InitLink, Truths
<1>3. made \in [captures : Nat, nonces : Nat] /\ made.captures = 0 /\ now \in Int
  BY DEF InitLink
<1> QED
  BY <1>1, <1>2, <1>3, LinkAssumption DEF LifeInv, LinkTyped, CaptureInv

\* A capture begins: the first state of its bridge.
LEMMA CapturingTyped ==
  ASSUME LinkTyped, NEW n \in Int
  PROVE  /\ Capturing(n) \in Bridges
         /\ Capturing(n).cap = made.captures + 1 /\ Capturing(n).state = "capturing"
         /\ Capturing(n).nonce = n
         /\ Capturing(n).datagrams = 0 /\ Capturing(n).ended = FALSE /\ Capturing(n).dirty = FALSE
<1>1. /\ Idle \in Bridges /\ Idle.datagrams = 0
      /\ Idle.ended = FALSE /\ Idle.dirty = FALSE
  BY DEF Idle, Bridges, States, Errors
<1>2. made.captures + 1 \in Nat /\ now \in Int
  BY DEF LinkTyped
<1>3. "capturing" \in States
  BY DEF States
<1> QED
  BY <1>1, <1>2, <1>3 DEF Bridges, Capturing

\* A step of the abstract bridge, or none.
Step == [Lifecycle!Next]_(Lifecycle!vars)

\* The facts about a bridge that is capturing.
LEMMA OpenFacts ==
  ASSUME LifeInv, bridge.state = "capturing"
  PROVE  /\ bridge \in Bridges /\ bridge.cap \in 1..MaxCaptures /\ ~bridge.ended
         /\ bridge.datagrams \in Nat /\ now \in Int /\ made.captures = bridge.cap
  BY LinkAssumption DEF LifeInv, LinkTyped, CaptureInv, Bridges

\* A step that changes the bridge's capture and the record of it alike.
LEMMA SyncStep ==
  ASSUME LifeInv, NEW b \in Bridges, bridge' = b, truth' \in [1..MaxCaptures -> Truths], now' \in Int,
         made' = made, b.cap = bridge.cap, b.cap # 0, bridge.state = "capturing",
         \A c \in 1..MaxCaptures : c # b.cap => truth'[c] = truth[c],
         truth'[b.cap].datagrams = b.datagrams, truth'[b.cap].ended = b.ended,
         truth'[b.cap].dirty = b.dirty,
         b.ended <=> b.state # "capturing",
         \/ b.datagrams = bridge.datagrams + 1 /\ ~b.ended
         \/ b.datagrams = bridge.datagrams
  PROVE  LifeInv' /\ Step
<1>1. LifeInv'
  <2>1. LinkTyped'
    BY DEF LifeInv, LinkTyped
  <2>2. /\ bridge'.cap = made.captures /\ made'.captures = made.captures
        /\ made.captures <= MaxCaptures /\ bridge'.cap # 0
    BY DEF LifeInv, CaptureInv
  <2>3. /\ truth'[bridge'.cap].datagrams = bridge'.datagrams
        /\ truth'[bridge'.cap].ended <=> bridge'.ended
        /\ truth'[bridge'.cap].dirty <=> bridge'.dirty
        /\ bridge'.state # "capturing" <=> bridge'.ended
    OBVIOUS
  <2>4. bridge'.cap <= made'.captures
    BY <2>2 DEF LifeInv, CaptureInv
  <2>5. CaptureInv'
    BY <2>2, <2>3, <2>4 DEF CaptureInv
  <2> QED
    BY <2>1, <2>5 DEF LifeInv
<1>2. /\ made.captures = b.cap /\ b.cap \in 1..MaxCaptures /\ b.cap # 0
      /\ ~truth[b.cap].ended /\ truth[b.cap].datagrams = bridge.datagrams
      /\ bridge.datagrams \in Nat
  <2>1. bridge.cap \in 1..MaxCaptures /\ bridge.datagrams \in Nat /\ made.captures = bridge.cap
    BY OpenFacts
  <2>2. ~truth[bridge.cap].ended /\ truth[bridge.cap].datagrams = bridge.datagrams
    BY DEF LifeInv, CaptureInv
  <2> QED
    BY <2>1, <2>2
<1>3. CASE ~b.ended
  BY <1>1, <1>2, <1>3 DEF Step, Lifecycle!Next, Lifecycle!Receive, Lifecycle!vars
<1>4. CASE b.ended
  BY <1>1, <1>2, <1>4 DEF Step, Lifecycle!Next, Lifecycle!End, Lifecycle!vars
<1> QED
  BY <1>3, <1>4

\* The record of a capture follows the bridge.
LEMMA TruthFollows ==
  ASSUME LinkTyped, NEW b \in Bridges, b.cap \in 1..MaxCaptures, SetWithTruth(b)
  PROVE  /\ bridge' = b /\ truth' \in [1..MaxCaptures -> Truths]
         /\ \A c \in 1..MaxCaptures : c # b.cap => truth'[c] = truth[c]
         /\ truth'[b.cap].datagrams = b.datagrams /\ truth'[b.cap].ended = b.ended
         /\ truth'[b.cap].dirty = b.dirty
         /\ \A c \in 1..MaxCaptures : truth'[c].sampled = truth[c].sampled
<1> DEFINE new == [truth[b.cap] EXCEPT !.datagrams = b.datagrams, !.ended = b.ended, !.dirty = b.dirty]
<1>1. bridge' = b /\ truth' = [truth EXCEPT ![b.cap] = new]
  BY DEF SetWithTruth, Set
<1>2. truth[b.cap] \in Truths /\ b.datagrams \in Nat /\ b.ended \in BOOLEAN /\ b.dirty \in BOOLEAN
  BY DEF LinkTyped, Bridges
<1>3. /\ new \in Truths
      /\ new.datagrams = b.datagrams /\ new.ended = b.ended /\ new.dirty = b.dirty
      /\ new.sampled = truth[b.cap].sampled
  BY <1>2 DEF Truths
<1> HIDE DEF new
<1> QED
  BY <1>1, <1>3 DEF LinkTyped

\* Nothing changes that the captures depend on.
LEMMA QuietStep ==
  ASSUME LifeInv, bridge' \in Bridges, truth' = truth, now' \in Int,
         made' \in [captures : Nat, nonces : Nat], made'.captures = made.captures,
         bridge'.cap = bridge.cap, bridge'.datagrams = bridge.datagrams,
         bridge'.ended = bridge.ended, bridge'.dirty = bridge.dirty,
         bridge'.state = "capturing" <=> bridge.state = "capturing"
  PROVE  LifeInv' /\ Step
<1>1. LifeInv'
  BY DEF LifeInv, LinkTyped, CaptureInv
<1>2. UNCHANGED Lifecycle!vars
  BY DEF Lifecycle!vars
<1> QED
  BY <1>1, <1>2 DEF Step

LEMMA BeginStep ==
  ASSUME LifeInv, NEW n \in Int, SetWithTruth(Capturing(n)), now' = now,
         made' = [made EXCEPT !.captures = @ + 1],
         bridge.state # "capturing", made.captures < MaxCaptures
  PROVE  LifeInv' /\ Step
<1> DEFINE b == Capturing(n)
<1>1. /\ b \in Bridges /\ b.cap = made.captures + 1 /\ b.state = "capturing"
      /\ b.datagrams = 0 /\ b.ended = FALSE /\ b.dirty = FALSE
  BY CapturingTyped DEF LifeInv
<1>2. made.captures \in Nat /\ made' \in [captures : Nat, nonces : Nat] /\ made'.captures = b.cap
  BY <1>1 DEF LifeInv, LinkTyped
<1>3. b.cap \in 1..MaxCaptures
  BY <1>1, <1>2, LinkAssumption
<1> HIDE DEF b
<1>4. /\ bridge' = b /\ truth' \in [1..MaxCaptures -> Truths]
      /\ \A c \in 1..MaxCaptures : c # b.cap => truth'[c] = truth[c]
      /\ truth'[b.cap].datagrams = b.datagrams /\ truth'[b.cap].ended = b.ended
      /\ truth'[b.cap].dirty = b.dirty
  <2>1. SetWithTruth(b)
    BY DEF b
  <2> QED
    BY <2>1, <1>1, <1>3, TruthFollows DEF LifeInv
<1>5. LifeInv'
  BY <1>1, <1>2, <1>3, <1>4 DEF LifeInv, LinkTyped, CaptureInv
<1>6. /\ made.captures = 0 \/ truth[made.captures].ended
      /\ made'.captures = made.captures + 1 /\ made'.captures # 0
      /\ ~truth'[made'.captures].ended /\ truth'[made'.captures].datagrams = 0
  BY <1>1, <1>2, <1>4 DEF LifeInv, CaptureInv
<1>7. Lifecycle!Open
  BY <1>2, <1>6 DEF Lifecycle!Open
<1> QED
  BY <1>5, <1>7 DEF Step, Lifecycle!Next

-----------------------------------------------------------------------------
(* One lemma per group of actions *)

LEMMA DurationTyped == LinkTyped => DurationOf(bridge) \in Int
  BY DEF LinkTyped, Bridges, DurationOf

LEMMA CountStep == LifeInv /\ Datagram => LifeInv' /\ Step
<1> SUFFICES ASSUME LifeInv, Datagram PROVE LifeInv' /\ Step
  OBVIOUS
<1> DEFINE b == [bridge EXCEPT !.datagrams = @ + 1]
<1>1. bridge.state = "capturing" /\ SetWithTruth(b) /\ now' = now /\ made' = made
  BY DEF Datagram
<1>2. /\ b \in Bridges /\ b.cap = bridge.cap /\ b.datagrams = bridge.datagrams + 1
      /\ b.ended = bridge.ended /\ b.state = "capturing"
  BY <1>1, OpenFacts DEF Bridges
<1> HIDE DEF b
<1> QED
  BY <1>1, <1>2, OpenFacts, TruthFollows, SyncStep DEF LifeInv

\* A capture ends, with or without a fault.
LEMMA EndStep ==
  ASSUME LifeInv, NEW b \in Bridges, bridge.state = "capturing", SetWithTruth(b),
         now' = now, made' = made, b.cap = bridge.cap, b.datagrams = bridge.datagrams,
         b.ended <=> b.state # "capturing"
  PROVE  LifeInv' /\ Step
  BY OpenFacts, TruthFollows, SyncStep DEF LifeInv

LEMMA EndedTyped ==
  ASSUME NEW b \in Bridges, NEW dirty \in BOOLEAN, DurationOf(b) \in Int
  PROVE  /\ Ended(b, dirty) \in Bridges /\ Ended(b, dirty).cap = b.cap /\ Ended(b, dirty).ended
         /\ Ended(b, dirty).datagrams = b.datagrams /\ Ended(b, dirty).state = b.state
<1> DEFINE worse == b.dirty \/ dirty
           time == DurationOf(b)
<1>1. worse \in BOOLEAN /\ time \in Int
  OBVIOUS
<1>2. Ended(b, dirty) = [b EXCEPT !.ended = TRUE, !.dur = time, !.tail = time, !.dirty = worse]
  BY Zenon DEF Ended
<1> HIDE DEF worse, time
<1> QED
  BY <1>1, <1>2 DEF Bridges

LEMMA FailStep == LifeInv /\ SocketFails => LifeInv' /\ Step
<1> SUFFICES ASSUME LifeInv, SocketFails PROVE LifeInv' /\ Step
  OBVIOUS
<1> DEFINE e == Ended(bridge, TRUE)
           b == [e EXCEPT !.state = "error", !.err = "socket", !.drops = -1]
<1>1. bridge.state = "capturing" /\ SetWithTruth(b) /\ now' = now /\ made' = made
  BY DEF SocketFails
<1>2. e \in Bridges /\ e.cap = bridge.cap /\ e.ended /\ e.datagrams = bridge.datagrams
  BY <1>1, OpenFacts, DurationTyped, EndedTyped DEF LifeInv
<1> HIDE DEF e
<1>3. b \in Bridges /\ b.ended = e.ended /\ b.state = "error"
  <2>1. "error" \in States /\ "socket" \in Errors /\ -1 \in Int
    BY DEF States, Errors
  <2>2. b \in Bridges
    BY <2>1, <1>2 DEF Bridges
  <2>3. b.ended = e.ended
    BY <1>2 DEF Bridges
  <2>4. b.state = "error"
    BY <1>2 DEF Bridges
  <2> QED
    BY <2>2, <2>3, <2>4
<1>4. b.cap = bridge.cap /\ b.datagrams = bridge.datagrams
  BY <1>2 DEF Bridges
<1> HIDE DEF b
<1> QED
  BY <1>1, <1>2, <1>3, <1>4, EndStep

\* The stream is cut, perhaps because a subscriber was too slow for it.
LEMMA OverflowStep ==
  ASSUME LifeInv, bridge.state = "capturing", now' = now, made' = made,
         SetWithTruth([bridge EXCEPT !.err = "overflow", !.dirty = TRUE, !.tail = DurationOf(bridge)])
  PROVE  LifeInv' /\ Step
<1> DEFINE time == DurationOf(bridge)
           b == [bridge EXCEPT !.err = "overflow", !.dirty = TRUE, !.tail = time]
<1>1. time \in Int /\ "overflow" \in Errors
  BY DurationTyped DEF LifeInv, Errors
<1> HIDE DEF time
<1>2. bridge \in Bridges
  BY OpenFacts
<1>3. b \in Bridges
  BY <1>1, <1>2 DEF Bridges
<1>4. b.cap = bridge.cap /\ b.datagrams = bridge.datagrams /\ b.state = bridge.state
  BY <1>2 DEF Bridges
<1>5. b.ended = bridge.ended
  BY <1>2 DEF Bridges
<1>6. SetWithTruth(b)
  BY DEF time
<1> HIDE DEF b
<1> QED
  BY <1>3, <1>4, <1>5, <1>6, OpenFacts, EndStep

LEMMA CutStep == LifeInv /\ StreamCut => LifeInv' /\ Step
<1> SUFFICES ASSUME LifeInv, StreamCut PROVE LifeInv' /\ Step
  OBVIOUS
<1>1. /\ now' = now /\ made' = made
      /\ \/ /\ bridge.state = "capturing"
            /\ SetWithTruth([bridge EXCEPT !.err = "overflow", !.dirty = TRUE,
                                           !.tail = DurationOf(bridge)])
         \/ UNCHANGED <<bridge, truth>>
  BY Zenon DEF StreamCut
<1>2. CASE UNCHANGED <<bridge, truth>>
  BY <1>1, <1>2, QuietStep DEF LifeInv, LinkTyped
<1> QED
  BY <1>1, <1>2, OverflowStep

LEMMA RestartStep == LifeInv /\ BridgeRestarts => LifeInv' /\ Step
<1> SUFFICES ASSUME LifeInv, BridgeRestarts PROVE LifeInv' /\ Step
  OBVIOUS
<1>1. /\ bridge' = Idle /\ now' = now /\ made' = made
      /\ truth' = IF bridge.cap = 0 \/ bridge.ended THEN truth
                  ELSE [truth EXCEPT ![bridge.cap].ended = TRUE, ![bridge.cap].dirty = TRUE]
  BY DEF BridgeRestarts, Set
<1>2. Idle \in Bridges /\ Idle.cap = 0 /\ Idle.state = "idle"
  BY DEF Idle, Bridges, States, Errors
<1>3. CASE bridge.state # "capturing"
  <2>1. truth' = truth
    BY <1>1, <1>3 DEF LifeInv, CaptureInv
  <2>2. LifeInv'
    BY <1>1, <1>2, <1>3, <2>1 DEF LifeInv, LinkTyped, CaptureInv
  <2> QED
    BY <1>1, <2>1, <2>2 DEF Step, Lifecycle!vars
<1>4. CASE bridge.state = "capturing"
  <2> DEFINE c == bridge.cap
             lost == [truth[c] EXCEPT !.ended = TRUE, !.dirty = TRUE]
  <2>1. c \in 1..MaxCaptures /\ c # 0 /\ made.captures = c /\ ~bridge.ended
    BY <1>4, OpenFacts
  <2>2. truth[c] \in Truths /\ ~truth[c].ended
    BY <2>1 DEF LifeInv, LinkTyped, CaptureInv
  <2>3. truth' = [truth EXCEPT ![c] = lost]
    BY <1>1, <2>1 DEF LifeInv, LinkTyped
  <2>4. lost \in Truths /\ lost.datagrams = truth[c].datagrams /\ lost.ended /\ lost.dirty
    BY <2>2 DEF Truths
  <2> HIDE DEF lost
  <2>5. truth' \in [1..MaxCaptures -> Truths] /\ truth'[c] = lost
    BY <2>1, <2>3, <2>4 DEF LifeInv, LinkTyped
  <2>6. LifeInv'
    BY <1>1, <1>2, <2>1, <2>4, <2>5 DEF LifeInv, LinkTyped, CaptureInv
  <2>7. Lifecycle!End
    BY <1>1, <2>1, <2>2, <2>4, <2>5 DEF Lifecycle!End
  <2> QED
    BY <2>6, <2>7 DEF Step, Lifecycle!Next
<1> QED
  BY <1>3, <1>4

\* What a stop makes of the bridge.
StoppingOf(leaveFails) ==
  [bridge EXCEPT !.state = "stopping", !.dirty = bridge.dirty \/ leaveFails,
                 !.err = IF leaveFails THEN "leave" ELSE bridge.err,
                 !.tail = IF leaveFails THEN DurationOf(bridge) ELSE bridge.tail]
StoppedOf(drops, leaveFails) ==
  [Ended(StoppingOf(leaveFails), FALSE) EXCEPT !.state = "stopped", !.drops = drops]

LEMMA StoppingTyped ==
  ASSUME LinkTyped, NEW leaveFails \in BOOLEAN
  PROVE  /\ StoppingOf(leaveFails) \in Bridges
         /\ StoppingOf(leaveFails).cap = bridge.cap
         /\ StoppingOf(leaveFails).datagrams = bridge.datagrams
         /\ DurationOf(StoppingOf(leaveFails)) \in Int
<1> DEFINE worse == bridge.dirty \/ leaveFails
           why == IF leaveFails THEN "leave" ELSE bridge.err
           time == IF leaveFails THEN DurationOf(bridge) ELSE bridge.tail
           b == [bridge EXCEPT !.state = "stopping", !.dirty = worse, !.err = why, !.tail = time]
<1>1. "leave" \in Errors /\ "stopping" \in States
  BY DEF Errors, States
<1>2. bridge \in Bridges /\ bridge.err \in Errors /\ bridge.tail \in Int /\ worse \in BOOLEAN
  BY DEF LinkTyped, Bridges
<1>3. why \in Errors /\ time \in Int
  BY <1>1, <1>2, DurationTyped
<1>4. StoppingOf(leaveFails) = b
  BY Zenon DEF StoppingOf
<1> HIDE DEF worse, why, time
<1>5. b \in Bridges
  BY <1>1, <1>2, <1>3 DEF Bridges
<1>6. b.cap = bridge.cap /\ b.datagrams = bridge.datagrams
  BY <1>2 DEF Bridges
<1> HIDE DEF b
<1>7. DurationOf(b) \in Int
  BY <1>5 DEF DurationOf, Bridges, LinkTyped
<1> QED
  BY <1>4, <1>5, <1>6, <1>7

LEMMA StoppedTyped ==
  ASSUME LinkTyped, NEW leaveFails \in BOOLEAN, NEW drops \in {0, 1}
  PROVE  /\ StoppedOf(drops, leaveFails) \in Bridges
         /\ StoppedOf(drops, leaveFails).cap = bridge.cap
         /\ StoppedOf(drops, leaveFails).datagrams = bridge.datagrams
         /\ StoppedOf(drops, leaveFails).ended
         /\ StoppedOf(drops, leaveFails).state = "stopped"
<1> DEFINE e == Ended(StoppingOf(leaveFails), FALSE)
           b == [e EXCEPT !.state = "stopped", !.drops = drops]
<1>1. e \in Bridges /\ e.cap = bridge.cap /\ e.datagrams = bridge.datagrams /\ e.ended
  BY StoppingTyped, EndedTyped
<1>2. StoppedOf(drops, leaveFails) = b
  BY Zenon DEF StoppedOf
<1> HIDE DEF e
<1>3. "stopped" \in States /\ drops \in Int
  BY DEF States
<1>4. b \in Bridges
  BY <1>1, <1>3 DEF Bridges
<1>5. b.cap = e.cap /\ b.datagrams = e.datagrams /\ b.state = "stopped"
  BY <1>1 DEF Bridges
<1>6. b.ended = e.ended
  BY <1>1 DEF Bridges
<1> HIDE DEF b
<1> QED
  BY <1>1, <1>2, <1>4, <1>5, <1>6

LEMMA StopStep == LifeInv /\ ServeStop => LifeInv' /\ Step
<1> SUFFICES ASSUME LifeInv, ServeStop PROVE LifeInv' /\ Step
  OBVIOUS
<1>1. /\ now' = now /\ made' = made
      /\ \/ /\ bridge.state = "capturing"
            /\ \E drops \in {0, 1}, leaveFails \in BOOLEAN : SetWithTruth(StoppedOf(drops, leaveFails))
         \/ UNCHANGED <<bridge, truth>>
  BY Zenon DEF ServeStop, StoppedOf, StoppingOf
<1>2. CASE UNCHANGED <<bridge, truth>>
  BY <1>1, <1>2, QuietStep DEF LifeInv, LinkTyped
<1>3. ASSUME bridge.state = "capturing", NEW drops \in {0, 1}, NEW leaveFails \in BOOLEAN,
             SetWithTruth(StoppedOf(drops, leaveFails))
      PROVE  LifeInv' /\ Step
  <2> DEFINE b == StoppedOf(drops, leaveFails)
  <2>1. /\ b \in Bridges /\ b.cap = bridge.cap /\ b.datagrams = bridge.datagrams
        /\ b.ended /\ b.state = "stopped"
    BY StoppedTyped DEF LifeInv
  <2>2. SetWithTruth(b)
    BY <1>3
  <2> HIDE DEF b
  <2> QED
    BY <1>1, <1>3, <2>1, <2>2, EndStep
<1> QED
  BY <1>1, <1>2, <1>3

LEMMA ServeStartStep == LifeInv /\ ServeStart /\ call.nonce \in Int => LifeInv' /\ Step
<1> SUFFICES ASSUME LifeInv, ServeStart, call.nonce \in Int PROVE LifeInv' /\ Step
  OBVIOUS
<1> DEFINE b == [bridge EXCEPT !.state = "starting", !.starting = call.nonce, !.err = "none"]
<1>1. /\ now' = now /\ made' = made /\ truth' = truth
      /\ \/ bridge.state \in {"idle", "stopped", "error"} /\ bridge' = b
         \/ bridge' = bridge
  BY Zenon DEF ServeStart, Set
<1>2. bridge \in Bridges /\ "starting" \in States /\ "none" \in Errors
  BY DEF LifeInv, LinkTyped, States, Errors
<1>3. b \in Bridges
  BY <1>2 DEF Bridges
<1>4. b.cap = bridge.cap /\ b.datagrams = bridge.datagrams /\ b.state = "starting"
  BY <1>2 DEF Bridges
<1>5. b.ended = bridge.ended /\ b.dirty = bridge.dirty
  BY <1>2 DEF Bridges
<1> HIDE DEF b
<1> QED
  BY <1>1, <1>2, <1>3, <1>4, <1>5, QuietStep DEF LifeInv, LinkTyped

LEMMA BindFailsStep == LifeInv /\ BindFails => LifeInv' /\ Step
<1> SUFFICES ASSUME LifeInv, BindFails PROVE LifeInv' /\ Step
  OBVIOUS
<1> DEFINE no == 0
           b == [bridge EXCEPT !.state = "error", !.starting = no, !.err = "bind"]
<1>1. /\ now' = now /\ made' = made /\ truth' = truth
      /\ bridge.state = "starting" /\ bridge' = b
  BY Zenon DEF BindFails, Set
<1>2. bridge \in Bridges /\ "error" \in States /\ "bind" \in Errors /\ no \in Int
  BY DEF LifeInv, LinkTyped, States, Errors
<1> HIDE DEF no
<1>3. b \in Bridges
  BY <1>2 DEF Bridges
<1>4. b.cap = bridge.cap /\ b.datagrams = bridge.datagrams /\ b.state = "error"
  BY <1>2 DEF Bridges
<1>5. b.ended = bridge.ended /\ b.dirty = bridge.dirty
  BY <1>2 DEF Bridges
<1> HIDE DEF b
<1> QED
  BY <1>1, <1>2, <1>3, <1>4, <1>5, QuietStep DEF LifeInv, LinkTyped

LEMMA OpensStep == LifeInv /\ Opens => LifeInv' /\ Step
<1> SUFFICES ASSUME LifeInv, Opens PROVE LifeInv' /\ Step
  OBVIOUS
<1>1. /\ bridge.state = "starting" /\ made.captures < MaxCaptures /\ now' = now
      /\ SetWithTruth(Capturing(bridge.starting)) /\ made' = [made EXCEPT !.captures = @ + 1]
  BY DEF Opens
<1>2. bridge.starting \in Int
  BY DEF LifeInv, LinkTyped, Bridges
<1> QED
  BY <1>1, <1>2, BeginStep

LEMMA ForeignStep == LifeInv /\ ForeignStart => LifeInv' /\ Step
<1> SUFFICES ASSUME LifeInv, ForeignStart PROVE LifeInv' /\ Step
  OBVIOUS
<1>1. /\ bridge.state # "capturing" /\ made.captures + 1 < MaxCaptures /\ now' = now
      /\ SetWithTruth(Capturing(Foreign)) /\ made' = [made EXCEPT !.captures = @ + 1]
  BY DEF ForeignStart
<1>2. Foreign \in Int /\ made.captures < MaxCaptures
  BY <1>1, LinkAssumption DEF LifeInv, LinkTyped, Foreign
<1> QED
  BY <1>1, <1>2, BeginStep

-----------------------------------------------------------------------------
(* What the client changes *)

LEMMA SampledStep == LifeInv /\ StartAnswered => LifeInv' /\ Step
<1> SUFFICES ASSUME LifeInv, StartAnswered PROVE LifeInv' /\ Step
  OBVIOUS
<1> DEFINE c == call.ans.cap
           taken == truth[c].sampled \/ d.purpose = "preflight"
           t == [truth[c] EXCEPT !.sampled = taken]
<1>1. /\ UNCHANGED <<now, bridge, made>>
      /\ truth' = truth \/ truth' = [truth EXCEPT ![c].sampled = taken]
  BY Zenon DEF StartAnswered
<1>2. CASE truth' = truth
  BY <1>1, <1>2, QuietStep DEF LifeInv, LinkTyped
<1>3. CASE truth' = [truth EXCEPT ![c].sampled = taken]
  <2>1. CASE c \notin 1..MaxCaptures
    <3>1. truth' = truth
      BY <1>3, <2>1 DEF LifeInv, LinkTyped
    <3> QED
      BY <3>1, <1>2
  <2>2. CASE c \in 1..MaxCaptures
    <3>1. truth[c] \in Truths /\ taken \in BOOLEAN
      BY <2>2 DEF LifeInv, LinkTyped, Truths
    <3> HIDE DEF taken
    <3>2. truth' = [truth EXCEPT ![c] = t]
      BY <1>3
    <3>3. t \in Truths
      BY <3>1 DEF Truths
    <3>4. t.datagrams = truth[c].datagrams /\ t.ended = truth[c].ended /\ t.dirty = truth[c].dirty
      BY <3>1 DEF Truths
    <3> HIDE DEF t
    <3>5. /\ truth' \in [1..MaxCaptures -> Truths]
          /\ \A e \in 1..MaxCaptures : /\ truth'[e].datagrams = truth[e].datagrams
                                       /\ truth'[e].ended = truth[e].ended
                                       /\ truth'[e].dirty = truth[e].dirty
      BY <2>2, <3>2, <3>3, <3>4 DEF LifeInv, LinkTyped
    <3>6. /\ bridge.cap # 0 => bridge.cap \in 1..MaxCaptures
          /\ made.captures # 0 => made.captures \in 1..MaxCaptures
      BY LinkAssumption DEF LifeInv, LinkTyped, CaptureInv, Bridges
    <3>7. LifeInv'
      BY <1>1, <3>5, <3>6 DEF LifeInv, LinkTyped, CaptureInv
    <3>8. UNCHANGED Lifecycle!vars
      BY <1>1, <3>5, <3>6 DEF Lifecycle!vars
    <3> QED
      BY <3>7, <3>8 DEF Step
  <2> QED
    BY <2>1, <2>2
<1> QED
  BY <1>1, <1>2, <1>3

LEMMA PostTyped ==
  ASSUME LinkTyped, NEW kept, PostStart(kept)
  PROVE  made' \in [captures : Nat, nonces : Nat] /\ made'.captures = made.captures
  BY DEF PostStart, LinkTyped

\* The client's actions leave the bridge and its captures alone.
LEMMA ClientQuiet ==
  ASSUME LifeInv, UNCHANGED <<now, bridge, truth>>,
         UNCHANGED made \/ \E kept \in {0, recovery} : PostStart(kept)
  PROVE  LifeInv' /\ Step
<1>1. made' \in [captures : Nat, nonces : Nat] /\ made'.captures = made.captures
  BY PostTyped DEF LifeInv, LinkTyped
<1> QED
  BY <1>1, QuietStep DEF LifeInv, LinkTyped

LEMMA ConnectedFacts ==
  Connected => /\ UNCHANGED <<now, bridge, truth>>
               /\ \/ Ask("status", 0, 0) /\ UNCHANGED <<recovery, made>>
                  \/ recovery = 0 /\ PostStart(0)
  BY Zenon DEF Connected

LEMMA RefreshedFacts ==
  Refreshed => /\ UNCHANGED <<now, bridge, truth>>
               /\ PostStart(StillNeeded(recovery))
  BY Zenon DEF Refreshed

LEMMA GotStatusFacts ==
  GotStatus => /\ UNCHANGED <<now, bridge, made, truth>>
               /\ Hold \/ (call.at = "answered" /\ SeenStopped /\ Release)
               /\ call' = NoCall \/ Ask("stop", owned.nonce, owned.cap)
  BY Zenon DEF GotStatus, AfterThrow, AfterStop

LEMMA GotStopFacts ==
  GotStop => /\ UNCHANGED <<now, bridge, made, truth>>
             /\ Hold \/ (call.at = "answered" /\ StopAnswered /\ Release)
             /\ call' = NoCall
  BY Zenon DEF GotStop, AfterThrow, AfterStop

\* The operator's actions, with a reload of the page.
LEMMA OperatorFacts ==
  Operator \/ Reload => /\ UNCHANGED <<now, bridge, made, truth, recovery>>
                        /\ UNCHANGED call \/ call' = NoCall \/ Ask("status", 0, 0)
  BY Zenon DEF Operator, Reload, StartPreflight, Cancel, StopPreflight, BeginRecording, StopAndSave,
       DiscardCapture, RetryFinalization, RetryDownload, LeaveRetained, Stopping, link

-----------------------------------------------------------------------------
(* Who can stop what the bridge has begun *)

\* The bridge neither opens a capture for this page nor has one open.
OwnGone == bridge.state # "starting" /\ (bridge.state = "capturing" => bridge.nonce = Foreign)
Busy == {"starting", "capturing", "stopping"}

IsCall(c) ==
  c = [op |-> c.op, at |-> c.at, nonce |-> c.nonce, cap |-> c.cap, ok |-> c.ok, ans |-> c.ans]

\* What the bridge has begun is begun for the nonce that session storage holds.
KeyInv ==
  /\ recovery \in Nat
  /\ bridge.state = "starting" => recovery = bridge.starting /\ recovery # 0
  /\ bridge.state = "capturing" /\ bridge.nonce # Foreign => recovery = bridge.nonce /\ recovery # 0

\* A start asks for that nonce; an answer that lets the client drop it is not outrun by a new start.
CallInv ==
  /\ IsCall(call)
  /\ call.op = "start" => call.nonce = recovery /\ recovery # 0
  /\ call.at = "answered" /\ call.ans.state \notin Busy => OwnGone
  /\ call.op = "start" /\ call.at = "answered" /\ ~call.ok => OwnGone

AttendInv == KeyInv /\ CallInv
UdpInv == LifeInv /\ AttendInv

LEMMA NoCallFacts == IsCall(NoCall) /\ NoCall.op = "none" /\ NoCall.at = "idle"
  BY DEF IsCall, NoCall

LEMMA AskFacts ==
  ASSUME NEW op, NEW nonce, NEW cap, Ask(op, nonce, cap)
  PROVE  IsCall(call') /\ call'.op = op /\ call'.at = "sent" /\ call'.nonce = nonce
  BY DEF IsCall, NoCall, Ask

LEMMA AnswerFacts ==
  ASSUME IsCall(call), NEW ok, NEW b, call' = Answer(ok, b)
  PROVE  /\ IsCall(call') /\ call'.op = call.op /\ call'.nonce = call.nonce
         /\ call'.at = "answered" /\ call'.ok = ok /\ call'.ans.state = b.state
<1>1. StatusOf(b).state = b.state
  BY DEF StatusOf
<1> QED
  BY <1>1 DEF Answer, IsCall

\* The bridge keeps what it has begun, and the client what it has asked.
LEMMA SameKeys ==
  ASSUME AttendInv, UNCHANGED <<call, recovery>>, bridge'.state = bridge.state,
         bridge'.nonce = bridge.nonce, bridge'.starting = bridge.starting
  PROVE  AttendInv'
  BY DEF AttendInv, KeyInv, CallInv, OwnGone

\* Nothing that the bridge has begun for this page is left.
LEMMA GoneKeys ==
  ASSUME AttendInv, OwnGone', recovery' = recovery, IsCall(call'), call'.op = call.op,
         call'.nonce = call.nonce
  PROVE  AttendInv'
  BY DEF AttendInv, KeyInv, CallInv, OwnGone

\* The client drops the nonce only when nothing is left of what it asked for.
LEMMA ClientKeys ==
  ASSUME AttendInv, bridge' = bridge, recovery' = recovery \/ (recovery' = 0 /\ OwnGone),
         IsCall(call'), call'.op # "start", call'.at # "answered"
  PROVE  AttendInv'
  BY DEF AttendInv, KeyInv, CallInv, OwnGone

\* A start keeps its nonce before it asks.
LEMMA PostKeys ==
  ASSUME AttendInv, LinkTyped, bridge' = bridge, NEW kept \in {0, recovery}, PostStart(kept),
         kept = recovery \/ OwnGone
  PROVE  AttendInv'
<1> DEFINE n == IF kept # 0 THEN kept ELSE made.nonces + 1
<1>1. Ask("start", n, 0) /\ recovery' = n
  BY DEF PostStart
<1>2. /\ recovery \in Nat /\ made.nonces \in Nat
      /\ recovery = 0 => OwnGone
  BY DEF AttendInv, KeyInv, OwnGone, LinkTyped
<1>3. n \in Nat /\ n # 0 /\ (n = recovery \/ OwnGone)
  BY <1>2
<1> HIDE DEF n
<1>4. IsCall(call') /\ call'.op = "start" /\ call'.at = "sent" /\ call'.nonce = n
  BY <1>1, AskFacts
<1>5. KeyInv'
  BY <1>1, <1>3 DEF AttendInv, KeyInv, OwnGone
<1>6. CallInv'
  BY <1>1, <1>3, <1>4 DEF CallInv
<1> QED
  BY <1>5, <1>6 DEF AttendInv

-----------------------------------------------------------------------------
(* The bridge's steps *)

LEMMA CapturingKeys ==
  ASSUME NEW n PROVE Capturing(n).state = "capturing" /\ Capturing(n).nonce = n
  BY DEF Capturing, Idle

LEMMA DatagramKeys == UdpInv /\ Datagram => AttendInv'
<1> SUFFICES ASSUME UdpInv, Datagram PROVE AttendInv'
  OBVIOUS
<1>1. bridge' = [bridge EXCEPT !.datagrams = @ + 1] /\ UNCHANGED <<call, recovery>>
  BY DEF Datagram, SetWithTruth, Set
<1>2. bridge \in Bridges
  BY DEF UdpInv, LifeInv, LinkTyped
<1> QED
  BY <1>1, <1>2, SameKeys DEF UdpInv, Bridges

LEMMA SocketKeys == UdpInv /\ SocketFails => AttendInv'
<1> SUFFICES ASSUME UdpInv, SocketFails PROVE AttendInv'
  OBVIOUS
<1> DEFINE e == Ended(bridge, TRUE)
<1>1. /\ bridge' = [e EXCEPT !.state = "error", !.err = "socket", !.drops = -1]
      /\ UNCHANGED <<call, recovery>>
  BY DEF SocketFails, SetWithTruth, Set
<1>2. e \in Bridges
  BY DurationTyped, EndedTyped DEF UdpInv, LifeInv, LinkTyped
<1> HIDE DEF e
<1>3. bridge'.state = "error"
  BY <1>1, <1>2 DEF Bridges
<1> QED
  BY <1>1, <1>3, GoneKeys DEF UdpInv, AttendInv, CallInv, OwnGone

LEMMA ForeignKeys == UdpInv /\ ForeignStart => AttendInv'
<1> SUFFICES ASSUME UdpInv, ForeignStart PROVE AttendInv'
  OBVIOUS
<1>1. bridge' = Capturing(Foreign) /\ UNCHANGED <<call, recovery>>
  BY DEF ForeignStart, SetWithTruth, Set
<1> QED
  BY <1>1, CapturingKeys, GoneKeys DEF UdpInv, AttendInv, CallInv, OwnGone

LEMMA RestartKeys == UdpInv /\ BridgeRestarts => AttendInv'
<1> SUFFICES ASSUME UdpInv, BridgeRestarts PROVE AttendInv'
  OBVIOUS
<1>1. /\ bridge' = Idle /\ recovery' = recovery
      /\ call' = IF call.at = "sent" THEN [call EXCEPT !.at = "failed"] ELSE call
  BY DEF BridgeRestarts, Set
<1>2. Idle.state = "idle"
  BY DEF Idle
<1>3. IsCall(call') /\ call'.op = call.op /\ call'.nonce = call.nonce
  BY <1>1 DEF UdpInv, AttendInv, CallInv, IsCall
<1> QED
  BY <1>1, <1>2, <1>3, GoneKeys DEF UdpInv, OwnGone

LEMMA CutKeys == UdpInv /\ StreamCut => AttendInv'
<1> SUFFICES ASSUME UdpInv, StreamCut PROVE AttendInv'
  OBVIOUS
<1> DEFINE time == DurationOf(bridge)
<1>1. /\ UNCHANGED <<call, recovery>>
      /\ \/ bridge' = [bridge EXCEPT !.err = "overflow", !.dirty = TRUE, !.tail = time]
         \/ bridge' = bridge
  BY Zenon DEF StreamCut, SetWithTruth, Set
<1> HIDE DEF time
<1>2. bridge \in Bridges
  BY DEF UdpInv, LifeInv, LinkTyped
<1>3. bridge'.state = bridge.state /\ bridge'.nonce = bridge.nonce /\ bridge'.starting = bridge.starting
  BY <1>1, <1>2 DEF Bridges
<1> QED
  BY <1>1, <1>3, SameKeys DEF UdpInv

LEMMA LostKeys == UdpInv /\ CallLost => AttendInv'
<1> SUFFICES ASSUME UdpInv, CallLost PROVE AttendInv'
  OBVIOUS
<1>1. bridge' = bridge /\ recovery' = recovery /\ call' = [call EXCEPT !.at = "failed"]
  BY DEF CallLost
<1>2. IsCall(call') /\ call'.op = call.op /\ call'.nonce = call.nonce /\ call'.at = "failed"
  BY <1>1 DEF UdpInv, AttendInv, CallInv, IsCall
<1> QED
  BY <1>1, <1>2 DEF UdpInv, AttendInv, KeyInv, CallInv, OwnGone

LEMMA StatusKeys == UdpInv /\ ServeStatus => AttendInv'
<1> SUFFICES ASSUME UdpInv, ServeStatus PROVE AttendInv'
  OBVIOUS
<1>1. /\ bridge' = bridge /\ recovery' = recovery
      /\ call.op = "status" /\ call' = Answer(TRUE, bridge)
  BY DEF ServeStatus
<1>2. IsCall(call') /\ call'.op = "status" /\ call'.ans.state = bridge.state
  BY <1>1, AnswerFacts DEF UdpInv, AttendInv, CallInv
<1> QED
  BY <1>1, <1>2 DEF UdpInv, AttendInv, KeyInv, CallInv, OwnGone, Busy

\* A start is begun for the nonce it names, or refused because another operator captures.
LEMMA StartKeys == UdpInv /\ ServeStart => AttendInv'
<1> SUFFICES ASSUME UdpInv, ServeStart PROVE AttendInv'
  OBVIOUS
<1>1. /\ recovery' = recovery /\ call.op = "start" /\ call.at = "sent"
      /\ call.nonce = recovery /\ recovery # 0
  BY DEF ServeStart, UdpInv, AttendInv, CallInv
<1>2. CASE /\ bridge' = [bridge EXCEPT !.state = "starting", !.starting = call.nonce, !.err = "none"]
           /\ call' = call
  <2>1. bridge \in Bridges
    BY DEF UdpInv, LifeInv, LinkTyped
  <2>2. bridge'.state = "starting" /\ bridge'.starting = call.nonce
    BY <1>2, <2>1 DEF Bridges
  <2> QED
    BY <1>1, <1>2, <2>2 DEF UdpInv, AttendInv, KeyInv, CallInv
<1>3. CASE /\ bridge.state = "capturing" /\ bridge' = bridge
           /\ call' = Answer(bridge.nonce = call.nonce, bridge)
  <2>1. /\ IsCall(call') /\ call'.op = call.op /\ call'.nonce = call.nonce
        /\ call'.ok = (bridge.nonce = call.nonce) /\ call'.ans.state = "capturing"
    BY <1>3, AnswerFacts DEF UdpInv, AttendInv, CallInv
  <2>2. ~call'.ok => bridge.nonce = Foreign
    BY <1>1, <1>3, <2>1 DEF UdpInv, AttendInv, KeyInv
  <2> QED
    BY <1>1, <1>3, <2>1, <2>2 DEF UdpInv, AttendInv, KeyInv, CallInv, OwnGone, Busy
<1> QED
  BY <1>2, <1>3, Zenon DEF ServeStart, Set

LEMMA OpensKeys == UdpInv /\ Opens => AttendInv'
<1> SUFFICES ASSUME UdpInv, Opens PROVE AttendInv'
  OBVIOUS
<1> DEFINE b == Capturing(bridge.starting)
<1>1. /\ bridge.state = "starting" /\ bridge' = b /\ recovery' = recovery
      /\ call' = call \/ (Waiting /\ call' = Answer(TRUE, b))
  BY Zenon DEF Opens, SetWithTruth, Set
<1>2. b.state = "capturing" /\ b.nonce = bridge.starting
  BY CapturingKeys
<1> HIDE DEF b
<1>3. KeyInv'
  BY <1>1, <1>2 DEF UdpInv, AttendInv, KeyInv
<1>4. CASE call' = call
  BY <1>1, <1>3, <1>4 DEF UdpInv, AttendInv, CallInv, OwnGone
<1>5. CASE Waiting /\ call' = Answer(TRUE, b)
  <2>1. /\ IsCall(call') /\ call'.op = call.op /\ call'.nonce = call.nonce
        /\ call'.ok /\ call'.ans.state = "capturing"
    BY <1>2, <1>5, AnswerFacts DEF UdpInv, AttendInv, CallInv
  <2> QED
    BY <1>1, <1>3, <2>1 DEF UdpInv, AttendInv, CallInv, Busy
<1> QED
  BY <1>1, <1>3, <1>4, <1>5 DEF AttendInv

LEMMA BindKeys == UdpInv /\ BindFails => AttendInv'
<1> SUFFICES ASSUME UdpInv, BindFails PROVE AttendInv'
  OBVIOUS
<1> DEFINE no == 0
           b == [bridge EXCEPT !.state = "error", !.starting = no, !.err = "bind"]
<1>1. /\ bridge' = b /\ recovery' = recovery
      /\ call' = call \/ call' = Answer(FALSE, b)
  BY Zenon DEF BindFails, Set
<1> HIDE DEF no
<1>2. bridge \in Bridges
  BY DEF UdpInv, LifeInv, LinkTyped
<1>3. b.state = "error"
  BY <1>2 DEF Bridges
<1> HIDE DEF b
<1>4. IsCall(call') /\ call'.op = call.op /\ call'.nonce = call.nonce
  BY <1>1, AnswerFacts DEF UdpInv, AttendInv, CallInv
<1> QED
  BY <1>1, <1>3, <1>4, GoneKeys DEF UdpInv, OwnGone

LEMMA StopKeys == UdpInv /\ ServeStop => AttendInv'
<1> SUFFICES ASSUME UdpInv, ServeStop PROVE AttendInv'
  OBVIOUS
<1>1. /\ recovery' = recovery /\ call.op = "stop"
      /\ \/ \E drops \in {0, 1}, leaveFails \in BOOLEAN :
              /\ bridge' = StoppedOf(drops, leaveFails)
              /\ call' = Answer(TRUE, StoppedOf(drops, leaveFails))
         \/ call' = Answer(bridge.cap = call.cap, bridge) /\ bridge' = bridge
  BY Zenon DEF ServeStop, StoppedOf, StoppingOf, SetWithTruth, Set
<1>2. ASSUME NEW drops \in {0, 1}, NEW leaveFails \in BOOLEAN,
             bridge' = StoppedOf(drops, leaveFails),
             call' = Answer(TRUE, StoppedOf(drops, leaveFails))
      PROVE  AttendInv'
  <2>1. bridge'.state = "stopped"
    BY <1>2, StoppedTyped DEF UdpInv, LifeInv
  <2>2. IsCall(call') /\ call'.op = call.op /\ call'.nonce = call.nonce
    BY <1>2, AnswerFacts DEF UdpInv, AttendInv, CallInv
  <2> QED
    BY <1>1, <2>1, <2>2, GoneKeys DEF UdpInv, OwnGone
<1>3. CASE call' = Answer(bridge.cap = call.cap, bridge) /\ bridge' = bridge
  <2>1. IsCall(call') /\ call'.op = "stop" /\ call'.ans.state = bridge.state
    BY <1>1, <1>3, AnswerFacts DEF UdpInv, AttendInv, CallInv
  <2> QED
    BY <1>1, <1>3, <2>1 DEF UdpInv, AttendInv, KeyInv, CallInv, OwnGone, Busy
<1> QED
  BY <1>1, <1>2, <1>3

-----------------------------------------------------------------------------
(* The page's steps *)

LEMMA ConnectedKeys == UdpInv /\ Connected => UdpInv' /\ Step
<1> SUFFICES ASSUME UdpInv, Connected PROVE UdpInv' /\ Step
  OBVIOUS
<1>1. /\ UNCHANGED <<now, bridge, truth>>
      /\ \/ Ask("status", 0, 0) /\ UNCHANGED <<recovery, made>>
         \/ recovery = 0 /\ PostStart(0)
  BY ConnectedFacts
<1>2. LifeInv' /\ Step
  BY <1>1, ClientQuiet DEF UdpInv
<1>3. CASE Ask("status", 0, 0) /\ UNCHANGED <<recovery, made>>
  <2>1. IsCall(call') /\ call'.op = "status" /\ call'.at = "sent"
    BY <1>3, AskFacts
  <2>2. AttendInv'
    BY <1>1, <1>3, <2>1, ClientKeys DEF UdpInv
  <2> QED
    BY <1>2, <2>2 DEF UdpInv
<1>4. CASE recovery = 0 /\ PostStart(0)
  <2>1. AttendInv'
    BY <1>1, <1>4, PostKeys DEF UdpInv, LifeInv
  <2> QED
    BY <1>2, <2>1 DEF UdpInv
<1> QED
  BY <1>1, <1>3, <1>4

LEMMA RefreshedKeys == UdpInv /\ Refreshed => UdpInv' /\ Step
<1> SUFFICES ASSUME UdpInv, Refreshed PROVE UdpInv' /\ Step
  OBVIOUS
<1> DEFINE kept == StillNeeded(recovery)
<1>1. UNCHANGED <<now, bridge, truth>> /\ PostStart(kept)
  BY RefreshedFacts
<1>2. kept \in {0, recovery} /\ (kept = recovery \/ OwnGone)
  BY DEF StillNeeded, UdpInv, AttendInv, CallInv, Busy
<1> HIDE DEF kept
<1>3. LifeInv' /\ Step
  BY <1>1, <1>2, ClientQuiet DEF UdpInv
<1>4. AttendInv'
  BY <1>1, <1>2, PostKeys DEF UdpInv, LifeInv
<1> QED
  BY <1>3, <1>4 DEF UdpInv

LEMMA FailedKeys == UdpInv /\ StartFailed => UdpInv' /\ Step
<1> SUFFICES ASSUME UdpInv, StartFailed PROVE UdpInv' /\ Step
  OBVIOUS
<1>1. /\ UNCHANGED <<now, bridge, made, truth>> /\ call' = NoCall /\ call.op = "start"
      /\ call.at = "failed" \/ (call.at = "answered" /\ ~call.ok)
      /\ recovery' = IF call.at = "answered" THEN 0 ELSE recovery
  BY Zenon DEF StartFailed
<1>2. recovery' = recovery \/ (recovery' = 0 /\ OwnGone)
  BY <1>1 DEF UdpInv, AttendInv, CallInv
<1>3. AttendInv'
  BY <1>1, <1>2, NoCallFacts, ClientKeys DEF UdpInv
<1>4. LifeInv' /\ Step
  BY <1>1, ClientQuiet DEF UdpInv
<1> QED
  BY <1>3, <1>4 DEF UdpInv

LEMMA AnsweredKeys == UdpInv /\ StartAnswered => UdpInv' /\ Step
<1> SUFFICES ASSUME UdpInv, StartAnswered PROVE UdpInv' /\ Step
  OBVIOUS
<1>1. UNCHANGED <<bridge, recovery>> /\ (call' = NoCall \/ Ask("status", 0, 0))
  BY Zenon DEF StartAnswered
<1>2. IsCall(call') /\ call'.op # "start" /\ call'.at # "answered"
  BY <1>1, NoCallFacts, AskFacts
<1>3. AttendInv'
  BY <1>1, <1>2, ClientKeys DEF UdpInv
<1>4. LifeInv' /\ Step
  BY SampledStep DEF UdpInv
<1> QED
  BY <1>3, <1>4 DEF UdpInv

LEMMA GotStatusKeys == UdpInv /\ GotStatus => UdpInv' /\ Step
<1> SUFFICES ASSUME UdpInv, GotStatus PROVE UdpInv' /\ Step
  OBVIOUS
<1>1. /\ UNCHANGED <<now, bridge, made, truth>>
      /\ Hold \/ (call.at = "answered" /\ SeenStopped /\ Release)
      /\ call' = NoCall \/ Ask("stop", owned.nonce, owned.cap)
  BY GotStatusFacts
<1>2. recovery' = recovery \/ (recovery' = 0 /\ OwnGone)
  BY <1>1 DEF Hold, Release, SeenStopped, UdpInv, AttendInv, CallInv, Busy
<1>3. IsCall(call') /\ call'.op # "start" /\ call'.at # "answered"
  BY <1>1, NoCallFacts, AskFacts
<1>4. AttendInv'
  BY <1>1, <1>2, <1>3, ClientKeys DEF UdpInv
<1>5. LifeInv' /\ Step
  BY <1>1, ClientQuiet DEF UdpInv
<1> QED
  BY <1>4, <1>5 DEF UdpInv

LEMMA GotStopKeys == UdpInv /\ GotStop => UdpInv' /\ Step
<1> SUFFICES ASSUME UdpInv, GotStop PROVE UdpInv' /\ Step
  OBVIOUS
<1>1. /\ UNCHANGED <<now, bridge, made, truth>>
      /\ Hold \/ (call.at = "answered" /\ StopAnswered /\ Release)
      /\ call' = NoCall
  BY GotStopFacts
<1>2. recovery' = recovery \/ (recovery' = 0 /\ OwnGone)
  BY <1>1 DEF Hold, Release, StopAnswered, UdpInv, AttendInv, CallInv, Busy
<1>3. AttendInv'
  BY <1>1, <1>2, NoCallFacts, ClientKeys DEF UdpInv
<1>4. LifeInv' /\ Step
  BY <1>1, ClientQuiet DEF UdpInv
<1> QED
  BY <1>3, <1>4 DEF UdpInv

LEMMA OperatorKeys == UdpInv /\ (Operator \/ Reload) => UdpInv' /\ Step
<1> SUFFICES ASSUME UdpInv, Operator \/ Reload PROVE UdpInv' /\ Step
  OBVIOUS
<1>1. /\ UNCHANGED <<now, bridge, made, truth, recovery>>
      /\ UNCHANGED call \/ call' = NoCall \/ Ask("status", 0, 0)
  BY OperatorFacts
<1>2. LifeInv' /\ Step
  BY <1>1, ClientQuiet DEF UdpInv
<1>3. CASE UNCHANGED call
  BY <1>1, <1>2, <1>3, SameKeys DEF UdpInv
<1>4. CASE call' = NoCall \/ Ask("status", 0, 0)
  <2>1. IsCall(call') /\ call'.op # "start" /\ call'.at # "answered"
    BY <1>4, NoCallFacts, AskFacts
  <2> QED
    BY <1>1, <1>2, <2>1, ClientKeys DEF UdpInv
<1> QED
  BY <1>1, <1>3, <1>4

\* Steps after which the link is as it was, but for what is on its way to the page.
LEMMA DeskKeys ==
  UdpInv /\ (ConnectFails \/ Drain \/ DrainTimeout \/ Deliver \/ UNCHANGED vars) => UdpInv' /\ Step
<1> SUFFICES ASSUME UdpInv, ConnectFails \/ Drain \/ DrainTimeout \/ Deliver \/ UNCHANGED vars
             PROVE  UdpInv' /\ Step
  OBVIOUS
<1>1. UNCHANGED <<now, bridge, made, truth, recovery, call>>
  BY Zenon DEF ConnectFails, Drain, DrainTimeout, Deliver, vars, link
<1>2. LifeInv' /\ Step
  BY <1>1, ClientQuiet DEF UdpInv
<1> QED
  BY <1>1, <1>2, SameKeys DEF UdpInv

LEMMA TickKeys == UdpInv /\ Tick => UdpInv' /\ Step
<1> SUFFICES ASSUME UdpInv, Tick PROVE UdpInv' /\ Step
  OBVIOUS
<1>1. UNCHANGED <<bridge, made, truth, recovery, call>> /\ now' \in Int
  BY DEF Tick, UdpInv, LifeInv, LinkTyped
<1>2. LifeInv' /\ Step
  BY <1>1, QuietStep DEF UdpInv, LifeInv, LinkTyped
<1> QED
  BY <1>1, <1>2, SameKeys DEF UdpInv

LEMMA ServeKeys == UdpInv /\ Serve => UdpInv' /\ Step
<1> SUFFICES ASSUME UdpInv, Serve PROVE UdpInv' /\ Step
  OBVIOUS
<1>1. CASE ServeStatus
  <2>1. UNCHANGED <<now, bridge, made, truth>>
    BY <1>1 DEF ServeStatus
  <2> QED
    BY <1>1, <2>1, StatusKeys, ClientQuiet DEF UdpInv
<1>2. CASE ServeStart
  <2>1. call.nonce \in Int
    BY <1>2 DEF ServeStart, UdpInv, AttendInv, KeyInv, CallInv
  <2> QED
    BY <1>2, <2>1, StartKeys, ServeStartStep DEF UdpInv
<1>3. CASE Opens
  BY <1>3, OpensKeys, OpensStep DEF UdpInv
<1>4. CASE BindFails
  BY <1>4, BindKeys, BindFailsStep DEF UdpInv
<1>5. CASE ServeStop
  BY <1>5, StopKeys, StopStep DEF UdpInv
<1> QED
  BY <1>1, <1>2, <1>3, <1>4, <1>5 DEF Serve

LEMMA SurpriseKeys == UdpInv /\ Surprise => UdpInv' /\ Step
<1> SUFFICES ASSUME UdpInv, Surprise PROVE UdpInv' /\ Step
  OBVIOUS
<1>1. CASE Datagram
  BY <1>1, DatagramKeys, CountStep DEF UdpInv
<1>2. CASE SocketFails
  BY <1>2, SocketKeys, FailStep DEF UdpInv
<1>3. CASE ForeignStart
  BY <1>3, ForeignKeys, ForeignStep DEF UdpInv
<1>4. CASE BridgeRestarts
  BY <1>4, RestartKeys, RestartStep DEF UdpInv
<1>5. CASE StreamCut
  BY <1>5, CutKeys, CutStep DEF UdpInv
<1>6. CASE CallLost
  <2>1. UNCHANGED <<now, bridge, made, truth>>
    BY <1>6 DEF CallLost
  <2> QED
    BY <1>6, <2>1, LostKeys, ClientQuiet DEF UdpInv
<1> QED
  BY <1>1, <1>2, <1>3, <1>4, <1>5, <1>6 DEF Surprise

LEMMA InitUdp == Init => UdpInv /\ Lifecycle!Init
<1> SUFFICES ASSUME Init PROVE UdpInv /\ Lifecycle!Init
  OBVIOUS
<1>1. InitLink
  BY DEF Init
<1>2. LifeInv
  BY <1>1, InitLife
<1>3. recovery = 0 /\ call = NoCall /\ bridge = Idle /\ made.captures = 0
  BY <1>1 DEF InitLink
<1>4. AttendInv
  BY <1>3, NoCallFacts DEF AttendInv, KeyInv, CallInv, Idle
<1>5. Lifecycle!Init
  BY <1>3 DEF Lifecycle!Init
<1> QED
  BY <1>2, <1>4, <1>5 DEF UdpInv

LEMMA NextUdp == UdpInv /\ [Next]_vars => UdpInv' /\ Step
<1> SUFFICES ASSUME UdpInv, [Next]_vars PROVE UdpInv' /\ Step
  OBVIOUS
<1>1. CASE LinkStep
  BY <1>1, ServeKeys, SurpriseKeys, TickKeys DEF LinkStep
<1>2. CASE Operator \/ Reload
  BY <1>2, OperatorKeys
<1>3. CASE Await
  BY <1>3, ConnectedKeys, RefreshedKeys, FailedKeys, AnsweredKeys, GotStatusKeys, GotStopKeys, DeskKeys
     DEF Await
<1>4. CASE Deliver \/ UNCHANGED vars
  BY <1>4, DeskKeys
<1> QED
  BY <1>1, <1>2, <1>3, <1>4 DEF Next

THEOREM UdpInvariant == Spec => []UdpInv
<1>1. Init => UdpInv
  BY InitUdp
<1>2. UdpInv /\ [Next]_vars => UdpInv'
  BY NextUdp
<1> QED
  BY <1>1, <1>2, PTL DEF Spec

\* Session storage holds the nonce of every capture the bridge opens or has open for this page,
\* through lost requests and answers, cut streams, restarts of the bridge, reloads of the page and
\* other operators: the client's start stores it before it asks, and drops it only when the answer
\* to a status, a stop or a refused start shows that nothing of it is left (udp-bridge.ts).
THEOREM NothingIsOrphaned == Spec => []NoOrphan
<1>1. UdpInv => NoOrphan
  BY DEF UdpInv, AttendInv, KeyInv, NoOrphan
<1> QED
  BY <1>1, UdpInvariant, PTL

\* The bridge a recording dialog talks to in this model does nothing that the abstract bridge of
\* CaptureLifecycle does not: one capture after the other, counts that only grow while a capture
\* is open, and an end that stays (bridge/, as CaptureBridge models it in detail).
THEOREM LinkKeepsPromises == Spec => BridgeAsPromised
<1>1. Init => Lifecycle!Init
  BY InitUdp
<1>2. UdpInv /\ [Next]_vars => [Lifecycle!Next]_(Lifecycle!vars)
  BY NextUdp DEF Step
<1> QED
  BY <1>1, <1>2, UdpInvariant, PTL DEF Spec, BridgeAsPromised, Lifecycle!Spec

-----------------------------------------------------------------------------
(* Sequences *)

\* A sequence, of whatever elements.
IsSeq(s) == Len(s) \in Nat /\ s = [i \in 1..Len(s) |-> s[i]]

\* An append keeps a sequence and adds one element at its end.
LEMMA AppendTo ==
  ASSUME NEW s, NEW e, IsSeq(s)
  PROVE  /\ IsSeq(Append(s, e)) /\ Len(Append(s, e)) = Len(s) + 1
         /\ Append(s, e)[Len(s) + 1] = e
         /\ \A i \in 1..Len(s) : Append(s, e)[i] = s[i]
<1> DEFINE S == {s[i] : i \in 1..Len(s)} \cup {e}
<1>1. s \in Seq(S)
  BY DEF IsSeq
<1> HIDE DEF S
<1>2. e \in S
  BY DEF S
<1>3. /\ Append(s, e) \in Seq(S) /\ Len(Append(s, e)) = Len(s) + 1 /\ Append(s, e)[Len(s) + 1] = e
      /\ \A i \in 1..Len(s) : Append(s, e)[i] = s[i]
  BY <1>1, <1>2
<1>4. IsSeq(Append(s, e))
  <2> DEFINE t == Append(s, e)
  <2>1. t \in Seq(S)  BY <1>3
  <2> HIDE DEF t
  <2>2. Len(t) \in Nat /\ t = [i \in 1..Len(t) |-> t[i]]
    BY <2>1
  <2> QED  BY <2>2 DEF IsSeq, t
<1> QED  BY <1>3, <1>4

\* The elements of a concatenation are those of its parts.
LEMMA ConcatTo ==
  ASSUME NEW s, NEW t, IsSeq(s), IsSeq(t)
  PROVE  /\ IsSeq(s \o t)
         /\ \A i \in 1..Len(s \o t) : \/ \E j \in 1..Len(s) : (s \o t)[i] = s[j]
                                      \/ \E j \in 1..Len(t) : (s \o t)[i] = t[j]
<1> DEFINE S == {s[i] : i \in 1..Len(s)} \cup {t[i] : i \in 1..Len(t)}
           u == s \o t
<1>1. s \in Seq(S) /\ t \in Seq(S)
  BY DEF IsSeq
<1> HIDE DEF S
<1>2. /\ u \in Seq(S) /\ Len(u) = Len(s) + Len(t)
      /\ \A i \in 1..Len(u) : u[i] = IF i <= Len(s) THEN s[i] ELSE t[i - Len(s)]
  BY <1>1
<1> HIDE DEF u
<1>3. IsSeq(u)
  BY <1>2 DEF IsSeq
<1>4. ASSUME NEW i \in 1..Len(u)
      PROVE  (\E j \in 1..Len(s) : u[i] = s[j]) \/ (\E j \in 1..Len(t) : u[i] = t[j])
  <2>1. Len(s) \in Nat /\ Len(t) \in Nat
    BY DEF IsSeq
  <2>2. CASE i <= Len(s)
    <3>1. i \in 1..Len(s) /\ u[i] = s[i]
      BY <1>2, <2>1, <2>2
    <3> QED BY <3>1
  <2>3. CASE ~(i <= Len(s))
    <3>1. i - Len(s) \in 1..Len(t) /\ u[i] = t[i - Len(s)]
      BY <1>2, <2>1, <2>3
    <3> QED BY <3>1
  <2> QED BY <2>2, <2>3
<1> QED BY <1>3, <1>4 DEF u

\* The elements of a prefix are those of the sequence.
LEMMA PrefixTo ==
  ASSUME NEW s, IsSeq(s), NEW k \in 0..Len(s)
  PROVE  /\ IsSeq(SubSeq(s, 1, k))
         /\ \A i \in 1..Len(SubSeq(s, 1, k)) : \E j \in 1..Len(s) : SubSeq(s, 1, k)[i] = s[j]
<1> DEFINE S == {s[i] : i \in 1..Len(s)}
           u == SubSeq(s, 1, k)
<1>1. s \in Seq(S) /\ Len(s) \in Nat
  BY DEF IsSeq
<1> HIDE DEF S
<1>2. u = [i \in 1..k |-> s[i]] /\ Len(u) = k
  BY <1>1
<1> HIDE DEF u
<1>3. IsSeq(u)
  BY <1>1, <1>2 DEF IsSeq
<1>4. \A i \in 1..Len(u) : i \in 1..Len(s) /\ u[i] = s[i]
  BY <1>1, <1>2
<1> QED BY <1>3, <1>4 DEF u

\* The elements of a tail are those of the sequence, and the first is one of them.
LEMMA TailTo ==
  ASSUME NEW s, IsSeq(s), s # <<>>
  PROVE  /\ IsSeq(Tail(s)) /\ \E j \in 1..Len(s) : Head(s) = s[j]
         /\ \A i \in 1..Len(Tail(s)) : \E j \in 1..Len(s) : Tail(s)[i] = s[j]
<1> DEFINE S == {s[i] : i \in 1..Len(s)}
           u == Tail(s)
<1>1. s \in Seq(S) /\ Len(s) \in Nat
  BY DEF IsSeq
<1> HIDE DEF S
<1>2. /\ u \in Seq(S) /\ Len(u) = Len(s) - 1 /\ \A i \in 1..Len(u) : u[i] = s[i + 1]
      /\ Len(s) >= 1 /\ Head(s) = s[1]
  BY <1>1
<1> HIDE DEF u
<1>3. IsSeq(u)
  BY <1>2 DEF IsSeq
<1>4. \A i \in 1..Len(u) : i + 1 \in 1..Len(s) /\ u[i] = s[i + 1]
  BY <1>1, <1>2
<1>5. \A i \in 1..Len(u) : \E j \in 1..Len(s) : u[i] = s[j]
  BY <1>4
<1>6. 1 \in 1..Len(s) /\ Head(s) = s[1]
  BY <1>1, <1>2
<1> QED BY <1>3, <1>5, <1>6 DEF u

\* One and two messages.
LEMMA Messages ==
  ASSUME NEW a, NEW b
  PROVE  /\ IsSeq(<<>>) /\ Len(<<>>) = 0
         /\ IsSeq(<<a>>) /\ \A i \in 1..Len(<<a>>) : <<a>>[i] = a
         /\ IsSeq(<<a, b>>) /\ \A i \in 1..Len(<<a, b>>) : <<a, b>>[i] = a \/ <<a, b>>[i] = b
<1>1. Len(<<a, b>>) = 2 /\ <<a, b>> \in Seq({a, b}) /\ \A i \in 1..2 : <<a, b>>[i] \in {a, b}
  OBVIOUS
<1>2. Len(<<a>>) = 1 /\ <<a>> \in Seq({a}) /\ \A i \in 1..1 : <<a>>[i] = a
  OBVIOUS
<1> QED BY <1>1, <1>2 DEF IsSeq

\* A set of numbers has a least element.
LEMMA NatMin ==
  ASSUME NEW S \in SUBSET Nat, S # {}
  PROVE  \E n \in S : \A m \in S : n <= m
<1> DEFINE R == OpToRel(<, Nat)
<1>1. IsWellFoundedOn(R, Nat)
  BY NatLessThanWellFounded
<1>2. \A x, y \in Nat : <<x, y>> \in R <=> x < y
  BY DEF OpToRel
<1> HIDE DEF R
<1>3. \E x \in S : \A y \in S : ~(<<y, x>> \in R)
  BY <1>1, WFMin
<1>4. PICK x \in S : \A y \in S : ~(<<y, x>> \in R)
  BY <1>3
<1>5. \A y \in S : ~(y < x)
  BY <1>2, <1>4, Zenon
<1>6. \A y \in S : x <= y
  BY <1>5
<1> QED
  BY <1>6

\* Induction, for a set of numbers.
LEMMA SetInduction ==
  ASSUME NEW S, 0 \in S, \A n \in Nat : n \in S => n + 1 \in S
  PROVE  Nat \subseteq S
<1> SUFFICES ASSUME Nat \ S # {} PROVE FALSE
  OBVIOUS
<1>1. PICK n \in Nat \ S : \A m \in Nat \ S : n <= m
  BY NatMin
<1>2. n # 0 /\ n - 1 \in Nat /\ ~(n <= n - 1)
  BY <1>1
<1>3. n - 1 \in S
  BY <1>1, <1>2
<1>4. (n - 1) + 1 = n
  BY <1>1
<1>5. n \in S
  BY <1>2, <1>3, <1>4
<1> QED
  BY <1>1, <1>5

\* Top of a set that has a greatest element.
LEMMA TopFacts ==
  ASSUME NEW S, \E z \in S : \A y \in S : y <= z
  PROVE  Top(S) \in S /\ \A y \in S : y <= Top(S)
BY DEF Top

-----------------------------------------------------------------------------
(* The dialog and its recorder *)

\* The fields of the dialog.
Fields ==
  {"phase", "purpose", "pc", "cont", "cancelled", "client", "owned", "hasRec", "rec", "pend", "pendEvents",
   "seq", "seqIssue", "paused", "closed", "frozen", "last", "lastKept", "t0", "stDur", "units", "journal",
   "reported", "stop", "verified", "limitEvent", "logOk", "keys", "reason", "final", "ctx"}

\* A recorder within its limits, not finalised yet.
IsRecorder(r) ==
  /\ r = [records |-> r.records, bytes |-> r.bytes, last |-> r.last, events |-> r.events,
          complete |-> r.complete, finalized |-> r.finalized]
  /\ r.records \in Nat /\ r.bytes \in Nat /\ r.last \in Int /\ r.complete \in BOOLEAN
  /\ IsSeq(r.events) /\ ~r.finalized
  /\ r.records <= MaxRecords /\ r.bytes <= MaxBytes /\ Len(r.events) <= MaxEvents
  /\ r.records + Len(r.events) <= FileUnits

Journals ==
  [state : {"none", "active", "incomplete", "clean"}, datagrams : Nat, tail : Int, ended : BOOLEAN, drops : Int]
Statuses ==
  [state : States, cap : Nat, datagrams : Nat, dur : Int, err : Errors, journal : Journals]
IsDatagram(m) == m.cap \in Nat /\ m.seq \in Nat /\ m.at \in Int

\* A dialog of the right type.
IsDialog(x) ==
  /\ x = [f \in Fields |-> x[f]]
  /\ IsRecorder(x.rec) /\ IsSeq(x.pendEvents)
  /\ IsSeq(x.pend) /\ \A i \in 1..Len(x.pend) : IsDatagram(x.pend[i])
  /\ x.owned \in Nat /\ x.units \in Nat /\ x.seq \in Int /\ x.journal \in Journals
  /\ x.frozen \in Int /\ x.last \in Int /\ x.lastKept \in Int /\ x.stDur \in Int /\ x.t0 \in Int
  /\ x.verified \in Int
  /\ x.hasRec \in BOOLEAN /\ x.paused \in BOOLEAN /\ x.closed \in BOOLEAN /\ x.seqIssue \in BOOLEAN
  /\ x.limitEvent \in BOOLEAN /\ x.logOk \in BOOLEAN /\ x.reason \in BOOLEAN

\* y and x differ at most in the fields F.
Same(y, x, F) == y = [f \in Fields |-> y[f]] /\ \A f \in Fields \ F : y[f] = x[f]

\* Something went wrong, and the log says so or is incomplete: the session cannot be verified.
Doubtful(x) == (IF x.hasRec THEN x.rec.events ELSE x.pendEvents) # <<>> \/ ~x.logOk

\* The datagrams accepted so far are the first of their capture.
Counted(x) == ~x.seqIssue => x.seq = x.units - 1

\* The dialog has noticed something wrong.
Suspect(x) == x.reason \/ x.keys # {} \/ x.seqIssue

Inputs == {"rec", "pend", "pendEvents", "seq", "seqIssue", "paused", "closed", "frozen", "last", "lastKept",
           "stDur", "units", "limitEvent", "logOk", "keys", "reason", "journal"}

\* y is x after some input: what is noticed is recorded, and what was recorded stays.
Stage(y, x) ==
  /\ IsDialog(y) /\ Same(y, x, Inputs)
  /\ Counted(x) => Counted(y)
  /\ Doubtful(x) => Doubtful(y)
  /\ Suspect(y) => Doubtful(y) \/ Suspect(x)
  /\ x.keys \subseteq y.keys

LEMMA StageFacts ==
  ASSUME NEW x, NEW y, Stage(y, x)
  PROVE  /\ IsDialog(y) /\ y.hasRec = x.hasRec /\ y.owned = x.owned /\ y.purpose = x.purpose
         /\ y.phase = x.phase /\ y.pc = x.pc /\ y.cont = x.cont /\ y.cancelled = x.cancelled
         /\ y.client = x.client /\ y.ctx = x.ctx /\ y.final = x.final /\ y.stop = x.stop
         /\ y.reported = x.reported /\ y.verified = x.verified /\ y.t0 = x.t0
BY DEF Stage, Same, Fields, Inputs

LEMMA StageTrans ==
  ASSUME NEW x, NEW y, NEW z, Stage(y, x), Stage(z, y)
  PROVE  Stage(z, x)
BY DEF Stage, Same

LEMMA StageSelf ==
  ASSUME NEW x, IsDialog(x)
  PROVE  Stage(x, x)
BY DEF Stage, Same, IsDialog

\* AppendEvent keeps an event within the limits, or marks the log as incomplete; never neither.
LEMMA AppendEventFacts ==
  ASSUME NEW r, NEW e, NEW terminal \in BOOLEAN, IsRecorder(r)
  PROVE  LET q == AppendEvent(r, e, terminal) IN
         /\ IsRecorder(q)
         /\ q.records = r.records /\ q.bytes = r.bytes /\ q.last = r.last
         /\ \/ q.events = Append(r.events, e) /\ Len(q.events) = Len(r.events) + 1 /\ q.complete = r.complete
            \/ q.events = r.events /\ ~q.complete
<1> DEFINE q == AppendEvent(r, e, terminal)
<1>1. CASE Fits(r, terminal)
  <2>1. q = [r EXCEPT !.events = Append(@, e)]
    BY <1>1 DEF AppendEvent
  <2>2. q.records = r.records /\ q.bytes = r.bytes /\ q.last = r.last /\ q.finalized = r.finalized
        /\ q.complete = r.complete /\ q.events = Append(r.events, e)
        /\ q = [records |-> q.records, bytes |-> q.bytes, last |-> q.last, events |-> q.events,
          complete |-> q.complete, finalized |-> q.finalized]
    BY <2>1 DEF IsRecorder
  <2>3. IsSeq(q.events) /\ Len(q.events) = Len(r.events) + 1 
    BY <2>2, AppendTo DEF IsRecorder
  <2>4. Len(q.events) <= MaxEvents /\ r.records + Len(q.events) <= FileUnits
    BY <2>3, <1>1, LimitsAssumption DEF Fits, Projected, IsRecorder, IsSeq
  <2> QED
    BY <2>2, <2>3, <2>4 DEF IsRecorder
<1>2. CASE ~Fits(r, terminal)
  <2>1. q = [r EXCEPT !.complete = FALSE]
    BY <1>2 DEF AppendEvent
  <2> QED BY <2>1 DEF IsRecorder
<1> QED BY <1>1, <1>2

Bounded(e) == [e EXCEPT !.at = IF @ >= MaxDuration THEN MaxDuration - 1 ELSE @]
NotesLimit(e) == e.type = "capture-limit" /\ e.detail = <<"duration">>

\* What Recorded changes, and when it says that the log is still whole.
LEMMA RecordedFacts ==
  ASSUME NEW x, IsDialog(x), NEW e
  PROVE  LET y == Recorded(x, e) IN
         /\ IsDialog(y) /\ Same(y, x, {"rec", "logOk", "limitEvent"})
         /\ y.rec.events # <<>> \/ ~y.logOk
         /\ y.rec.records = x.rec.records /\ y.rec.bytes = x.rec.bytes
<1> DEFINE q == AppendEvent(x.rec, Bounded(e), FALSE)
           kept == Len(q.events) > Len(x.rec.events)
           y == Recorded(x, e)
<1>0. IsRecorder(x.rec) /\ FALSE \in BOOLEAN
  BY DEF IsDialog
<1>1. /\ IsRecorder(q) /\ q.records = x.rec.records /\ q.bytes = x.rec.bytes
      /\ \/ q.events = Append(x.rec.events, Bounded(e)) /\ Len(q.events) = Len(x.rec.events) + 1
         \/ q.events = x.rec.events
  BY <1>0, AppendEventFacts
<1>2. y = [x EXCEPT !.rec = q, !.logOk = @ /\ kept, !.limitEvent = @ \/ (kept /\ NotesLimit(e))]
  BY DEF Recorded, Bounded, NotesLimit
<1> HIDE DEF q, y, kept
<1>3. y = [f \in Fields |-> y[f]] /\ y.rec = q
  BY <1>2 DEF IsDialog, Fields
<1>4. Same(y, x, {"rec", "logOk", "limitEvent"})
  BY <1>2, <1>3 DEF IsDialog, Same, Fields
<1>5. y.logOk = (x.logOk /\ kept)
  BY <1>2 DEF IsDialog, Fields
<1>6. y.limitEvent = (x.limitEvent \/ (kept /\ NotesLimit(e)))
  BY <1>2 DEF IsDialog, Fields
<1>7. IsDialog(y)
  BY <1>1, <1>3, <1>4, <1>5, <1>6 DEF IsDialog, Same, Fields
<1>8. y.rec.events # <<>> \/ ~y.logOk
  <2>1. ASSUME kept  PROVE q.events # <<>>
    <3>1. Len(x.rec.events) \in Nat /\ Len(<<>>) = 0
      BY <1>0 DEF IsRecorder, IsSeq
    <3>2. Len(q.events) > Len(x.rec.events)
      BY <2>1 DEF kept
    <3> QED BY <3>1, <3>2
  <2>2. ~kept => ~y.logOk
    BY <1>5
  <2> QED BY <1>3, <2>1, <2>2
<1> QED BY <1>1, <1>3, <1>4, <1>7, <1>8 DEF y

\* A transport event is in the log, or waits for a recorder, or the log is known to be incomplete.
LEMMA RecordFacts ==
  ASSUME NEW x, IsDialog(x), NEW e
  PROVE  LET y == RecordEvent(x, e) IN
         /\ IsDialog(y) /\ Same(y, x, {"rec", "logOk", "limitEvent", "pendEvents"}) /\ Doubtful(y)
         /\ y.rec.records = x.rec.records /\ y.rec.bytes = x.rec.bytes
<1> DEFINE y == RecordEvent(x, e)
<1>1. CASE x.hasRec
  <2>1. y = Recorded(x, e)
    BY <1>1 DEF RecordEvent
  <2>2. /\ IsDialog(y) /\ Same(y, x, {"rec", "logOk", "limitEvent"}) /\ (y.rec.events # <<>> \/ ~y.logOk)
        /\ y.rec.records = x.rec.records /\ y.rec.bytes = x.rec.bytes
    BY <2>1, RecordedFacts
  <2> HIDE DEF y
  <2>3. y.hasRec = x.hasRec
    BY <2>2 DEF Same, Fields
  <2>4. Doubtful(y)
    BY <1>1, <2>2, <2>3 DEF Doubtful
  <2> QED BY <2>2, <2>4 DEF Same, y
<1>2. CASE ~x.hasRec /\ Len(x.pendEvents) < MaxPendingEvents
  <2> DEFINE s == x.pendEvents
             u == Append(s, e)
  <2>1. y = [x EXCEPT !.pendEvents = u]
    BY <1>2 DEF RecordEvent, IsDialog, Fields
  <2>2. IsSeq(s)
    BY DEF IsDialog
  <2>3. IsSeq(u) /\ u # <<>>
    <3>1. IsSeq(u) /\ Len(u) = Len(s) + 1 /\ Len(s) \in Nat
      BY <2>2, AppendTo DEF IsSeq
    <3>2. Len(<<>>) = 0
      OBVIOUS
    <3> HIDE DEF u, s
    <3> QED BY <3>1, <3>2
  <2> HIDE DEF u
  <2>4. Same(y, x, {"pendEvents"}) /\ y.pendEvents = u
    BY <2>1 DEF IsDialog, Same, Fields
  <2> HIDE DEF y
  <2>5. IsDialog(y) /\ y.hasRec = x.hasRec /\ y.rec = x.rec
    BY <2>3, <2>4 DEF IsDialog, Same, Fields
  <2>6. Doubtful(y)
    BY <1>2, <2>3, <2>4, <2>5 DEF Doubtful
  <2> QED BY <2>4, <2>5, <2>6 DEF Same, y
<1>3. CASE ~x.hasRec /\ ~(Len(x.pendEvents) < MaxPendingEvents)
  <2>1. y = [x EXCEPT !.logOk = FALSE]
    BY <1>3 DEF RecordEvent
  <2>2. Same(y, x, {"logOk"}) /\ y.logOk = FALSE
    BY <2>1 DEF IsDialog, Same, Fields
  <2> HIDE DEF y
  <2>3. IsDialog(y) /\ y.rec = x.rec
    BY <2>2 DEF IsDialog, Same, Fields
  <2> QED BY <2>2, <2>3 DEF Same, Doubtful, y
<1> QED BY <1>1, <1>2, <1>3

\* Something is noticed (F says where) and recorded at once.
LEMMA NoticeStage ==
  ASSUME NEW x, IsDialog(x), NEW z, IsDialog(z), NEW F, F \subseteq Inputs \ {"seq", "units", "rec"},
         Same(z, x, F), x.keys \subseteq z.keys, x.seqIssue => z.seqIssue, NEW e
  PROVE  LET y == RecordEvent(z, e) IN
         /\ Stage(y, x) /\ Doubtful(y) /\ y.rec.records = x.rec.records /\ y.rec.bytes = x.rec.bytes
         /\ Same(y, x, F \cup {"rec", "logOk", "limitEvent", "pendEvents"})
         /\ y.keys = z.keys /\ y.closed = z.closed /\ y.reason = z.reason /\ y.frozen = z.frozen /\ y.stop = z.stop
<1> DEFINE y == RecordEvent(z, e)
<1>1. /\ IsDialog(y) /\ Same(y, z, {"rec", "logOk", "limitEvent", "pendEvents"}) /\ Doubtful(y)
      /\ y.rec.records = z.rec.records /\ y.rec.bytes = z.rec.bytes
  BY RecordFacts
<1> HIDE DEF y
<1>2. z.rec = x.rec /\ z.seq = x.seq /\ z.units = x.units
  BY DEF Same, Fields
<1>3. /\ y.seq = x.seq /\ y.units = x.units /\ y.seqIssue = z.seqIssue /\ y.keys = z.keys /\ y.closed = z.closed
      /\ y.reason = z.reason /\ y.frozen = z.frozen /\ y.stop = z.stop
  BY <1>1, <1>2 DEF Same, Fields
<1>4. Same(y, x, F \cup {"rec", "logOk", "limitEvent", "pendEvents"})
  BY <1>1 DEF Same
<1>5. Same(y, x, Inputs)
  BY <1>4 DEF Same, Inputs
<1>6. Counted(x) => Counted(y)
  BY <1>3 DEF Counted
<1>7. Stage(y, x)
  BY <1>1, <1>3, <1>5, <1>6 DEF Stage
<1> QED BY <1>1, <1>2, <1>3, <1>4, <1>7 DEF y


-----------------------------------------------------------------------------
(* What the dialog does with an input *)

\* A pause says why in the log.
LEMMA PauseStage ==
  ASSUME NEW x, IsDialog(x), NEW t, NEW fault
  PROVE  LET y == PauseIngest(x, t, fault) IN
         /\ Stage(y, x) /\ y.rec.records = x.rec.records /\ y.rec.bytes = x.rec.bytes
         /\ Same(y, x, {"paused", "reason", "limitEvent", "rec", "logOk", "pendEvents"})
<1> DEFINE y == PauseIngest(x, t, fault)
           z == [x EXCEPT !.paused = TRUE, !.reason = TRUE, !.limitEvent = x.limitEvent \/ fault = "duration"]
           e == Event(IF fault \in Limits THEN "capture-limit" ELSE "capture-backpressure",
                      EventOffset(z, t), <<fault>>)
<1>1. CASE x.paused
  <2>1. y = x
    BY <1>1 DEF PauseIngest
  <2> QED BY <2>1, StageSelf DEF Stage, Same
<1>2. CASE ~x.paused
  <2>1. y = RecordEvent(z, e)
    BY <1>2 DEF PauseIngest
  <2>2. Same(z, x, {"paused", "reason", "limitEvent"}) /\ z.paused = TRUE /\ z.reason = TRUE
    BY DEF Same, IsDialog, Fields
  <2>3. z.limitEvent = (x.limitEvent \/ fault = "duration")
    BY DEF IsDialog, Fields
  <2> HIDE DEF z, e
  <2>4. IsDialog(z) /\ z.keys = x.keys /\ z.seqIssue = x.seqIssue
    BY <2>2, <2>3 DEF IsDialog, Same, Fields
  <2>5. PICK F : F = {"paused", "reason", "limitEvent"}
    OBVIOUS
  <2>6. F \subseteq Inputs \ {"seq", "units", "rec"} /\ Same(z, x, F)
    BY <2>2, <2>5 DEF Inputs
  <2> HIDE DEF y
  <2>7. /\ Stage(y, x) /\ y.rec.records = x.rec.records /\ y.rec.bytes = x.rec.bytes
        /\ Same(y, x, F \cup {"rec", "logOk", "limitEvent", "pendEvents"})
    BY <2>1, <2>4, <2>6, NoticeStage
  <2> QED BY <2>5, <2>7 DEF Same, y
<1> QED BY <1>1, <1>2

Kepts == {"rec", "lastKept", "paused", "reason", "limitEvent", "logOk", "pendEvents"}

\* A record is kept whole, or the pause it causes is noted.
LEMMA RetainStage ==
  ASSUME NEW x, IsDialog(x), NEW t, NEW at \in Int, NEW size \in Nat, NEW origin
  PROVE  LET y == Retain(x, t, at, size, origin) IN Stage(y, x) /\ Same(y, x, Kepts)
<1> DEFINE fault == AppendFault(x.rec, at, size)
           y == Retain(x, t, at, size, origin)
           r == x.rec
           q == Kept(r, at, size)
<1>1. IsRecorder(r)
  BY DEF IsDialog
<1>2. CASE ~CanRetain(x, origin) \/ ~x.hasRec
  <2>1. y = x  BY <1>2 DEF Retain
  <2> QED BY <2>1, StageSelf DEF Stage, Same
<1>3. CASE CanRetain(x, origin) /\ x.hasRec /\ fault = "none"
  <2>1. y = [x EXCEPT !.rec = q, !.lastKept = Top({@, at})]
    BY <1>3 DEF Retain
  <2>2. /\ r.records < MaxRecords /\ r.bytes + size <= MaxBytes /\ Projected(r) + 1 <= FileUnits
    <3>1. /\ ~(r.records >= MaxRecords)
          /\ ~(r.bytes + size > MaxBytes) /\ ~(Projected(r) + 1 > FileUnits)
      BY <1>3 DEF AppendFault
    <3> QED BY <1>1, <3>1, LimitsAssumption DEF IsRecorder, IsSeq, Projected
  <2>3. q = [r EXCEPT !.records = r.records + 1, !.bytes = r.bytes + size, !.last = at]
    BY <1>1 DEF Kept, IsRecorder
  <2> HIDE DEF q
  <2>4. /\ q.records = r.records + 1 /\ q.bytes = r.bytes + size /\ q.last = at /\ q.events = r.events
        /\ q.complete = r.complete /\ q.finalized = r.finalized
        /\ q = [records |-> q.records, bytes |-> q.bytes, last |-> q.last, events |-> q.events,
                complete |-> q.complete, finalized |-> q.finalized]
    BY <1>1, <2>3 DEF IsRecorder
  <2>5. IsRecorder(q)
    <3>1. Len(r.events) \in Nat /\ r.records \in Nat /\ r.bytes \in Nat /\ IsSeq(r.events)
          /\ Len(r.events) <= MaxEvents /\ r.complete \in BOOLEAN /\ ~r.finalized
      BY <1>1 DEF IsRecorder, IsSeq
    <3>2. r.records + 1 + Len(r.events) <= FileUnits
      <4>1. r.records + Len(r.events) + ReceiptReserve + 1 <= FileUnits
        BY <2>2 DEF Projected
      <4> HIDE DEF r
      <4> QED BY <3>1, <4>1, LimitsAssumption
    <3>3. r.records + 1 <= MaxRecords
      BY <2>2, <3>1, LimitsAssumption
    <3> HIDE DEF r
    <3> QED BY <2>2, <2>4, <3>1, <3>2, <3>3 DEF IsRecorder
  <2> DEFINE k == Top({x.lastKept, at})
  <2>6. k \in Int
    <3>1. x.lastKept \in Int
      BY DEF IsDialog
    <3>2. \E z \in {x.lastKept, at} : \A w \in {x.lastKept, at} : w <= z
      BY <3>1
    <3>3. k \in {x.lastKept, at}
      BY <3>2, TopFacts
    <3> QED BY <3>1, <3>3
  <2> HIDE DEF k
  <2>7. y = [x EXCEPT !.rec = q, !.lastKept = k]
    BY <2>1 DEF IsDialog, Fields, k
  <2> HIDE DEF y
  <2>8. Same(y, x, {"rec", "lastKept"}) /\ y.rec = q /\ y.lastKept = k
    BY <2>7 DEF IsDialog, Same, Fields
  <2>9. IsDialog(y)
    BY <2>5, <2>6, <2>8 DEF IsDialog, Same, Fields
  <2>10. /\ y.hasRec = x.hasRec /\ y.logOk = x.logOk /\ y.rec.events = r.events /\ y.pendEvents = x.pendEvents
         /\ y.seq = x.seq /\ y.units = x.units /\ y.seqIssue = x.seqIssue /\ y.keys = x.keys /\ y.reason = x.reason
    BY <2>4, <2>8 DEF Same, Fields
  <2>11. Same(y, x, Kepts) /\ Same(y, x, Inputs)
    BY <2>8 DEF Same, Kepts, Inputs
  <2> QED BY <2>9, <2>10, <2>11 DEF Stage, Counted, Doubtful, Suspect, y
<1>4. CASE CanRetain(x, origin) /\ x.hasRec /\ fault # "none"
  <2>1. y = PauseIngest(x, t, fault)
    BY <1>4 DEF Retain
  <2> HIDE DEF fault
  <2>2. Stage(y, x) /\ Same(y, x, {"paused", "reason", "limitEvent", "rec", "logOk", "pendEvents"})
    BY <2>1, PauseStage
  <2> QED BY <2>2 DEF Same, Kepts
<1> QED BY <1>2, <1>3, <1>4

\* The first error of a kind is recorded, once a capture is owned.
LEMMA ErrorStage ==
  ASSUME NEW x, IsDialog(x), NEW err
  PROVE  LET y == RecordUdpError(x, err) IN
         /\ Stage(y, x)
         /\ x.owned = 0 => y = x
         /\ x.owned # 0 => err \in y.keys
         /\ Same(y, x, {"keys", "rec", "logOk", "limitEvent", "pendEvents"})
<1> DEFINE y == RecordUdpError(x, err)
           z == [x EXCEPT !.keys = @ \cup {err}]
           e == Event(IF err = "end" THEN "udp-event-stream-disconnected" ELSE "udp-bridge-error",
                      EventOffset(x, now), <<err>>)
<1>1. CASE x.owned = 0 \/ err \in x.keys
  <2>1. y = x
    BY <1>1 DEF RecordUdpError
  <2> QED BY <1>1, <2>1, StageSelf DEF Stage, Same
<1>2. CASE ~(x.owned = 0 \/ err \in x.keys)
  <2>1. y = RecordEvent(z, e)
    BY <1>2 DEF RecordUdpError
  <2>2. Same(z, x, {"keys"}) /\ z.keys = x.keys \cup {err}
    BY DEF Same, IsDialog, Fields
  <2> HIDE DEF z, e
  <2>3. IsDialog(z) /\ z.seqIssue = x.seqIssue
    BY <2>2 DEF IsDialog, Same, Fields
  <2>4. PICK F : F = {"keys"}
    OBVIOUS
  <2>5. F \subseteq Inputs \ {"seq", "units", "rec"} /\ Same(z, x, F) /\ x.keys \subseteq z.keys
    BY <2>2, <2>4 DEF Inputs
  <2> HIDE DEF y
  <2>6. Stage(y, x) /\ y.keys = z.keys /\ Same(y, x, F \cup {"rec", "logOk", "limitEvent", "pendEvents"})
    BY <2>1, <2>3, <2>5, NoticeStage
  <2> QED BY <1>2, <2>2, <2>4, <2>6 DEF Same, y
<1> QED BY <1>1, <1>2

\* A datagram of the owned capture is counted; one out of order is noted.
LEMMA DatagramStage ==
  ASSUME NEW x, IsDialog(x), NEW m, IsDatagram(m), NEW origin
  PROVE  LET y == AcceptDatagram(x, m, origin) IN
         Stage(y, x) /\ y.keys = x.keys /\ y.journal = x.journal
<1> DEFINE y == AcceptDatagram(x, m, origin)
           gap == m.seq # x.seq + 1 /\ ~x.seqIssue
           e == Event("udp-event-sequence-discontinuity", m.at, <<x.seq + 1, m.seq>>)
           g == IF gap THEN RecordEvent([x EXCEPT !.seqIssue = TRUE], e) ELSE x
           late == IF x.frozen = -1 THEN Top({g.last, m.at + 1}) ELSE g.last
           z == [g EXCEPT !.seq = m.seq, !.units = g.units + 1, !.last = late]
<1>1. CASE m.cap # x.owned
  <2>1. y = x
    BY <1>1 DEF AcceptDatagram
  <2> QED BY <2>1, StageSelf
<1>2. CASE m.cap = x.owned
  <2>1. /\ Stage(g, x) /\ g.seq = x.seq /\ g.units = x.units /\ (x.seqIssue => g.seqIssue)
        /\ (gap => g.seqIssue /\ Doubtful(g)) /\ g.keys = x.keys /\ g.journal = x.journal
    <3>1. CASE gap
      <4> DEFINE w == [x EXCEPT !.seqIssue = TRUE]
      <4>1. Same(w, x, {"seqIssue"}) /\ w.seqIssue = TRUE
        BY DEF Same, IsDialog, Fields
      <4> HIDE DEF w
      <4>2. IsDialog(w) /\ w.keys = x.keys /\ w.journal = x.journal /\ w.seq = x.seq /\ w.units = x.units
        BY <4>1 DEF IsDialog, Same, Fields
      <4>3. g = RecordEvent(w, e)
        BY <3>1 DEF w
      <4>4. PICK F : F = {"seqIssue"}
        OBVIOUS
      <4>5. F \subseteq Inputs \ {"seq", "units", "rec"} /\ Same(w, x, F)
        BY <4>1, <4>4 DEF Inputs
      <4> HIDE DEF e, g
      <4>6. Stage(g, x) /\ Doubtful(g) /\ g.keys = w.keys
            /\ Same(g, w, {"rec", "logOk", "limitEvent", "pendEvents"})
        BY <4>1, <4>2, <4>3, <4>5, NoticeStage, RecordFacts
      <4>7. g.seqIssue = w.seqIssue /\ g.seq = w.seq /\ g.units = w.units /\ g.journal = w.journal
        BY <4>6 DEF Same, Fields
      <4> QED BY <4>1, <4>2, <4>6, <4>7
    <3>2. CASE ~gap
      <4>1. g = x
        BY <3>2
      <4> QED BY <3>2, <4>1, StageSelf
    <3> QED BY <3>1, <3>2
  <2>2. y = Retain(z, now, m.at, 1, origin)
    BY <1>2, Zenon DEF AcceptDatagram
  <2>3. IsDialog(g) /\ (gap \/ m.seq = x.seq + 1 \/ x.seqIssue)
    BY <2>1 DEF Stage
  <2> HIDE DEF g, gap
  <2>4. late \in Int /\ m.seq \in Int /\ m.at \in Int /\ g.units + 1 \in Nat
    <3>1. g.last \in Int /\ m.at + 1 \in Int /\ g.units \in Nat
      BY <2>3 DEF IsDialog, IsDatagram
    <3>2. \E k \in {g.last, m.at + 1} : \A w \in {g.last, m.at + 1} : w <= k
      BY <3>1
    <3>3. Top({g.last, m.at + 1}) \in {g.last, m.at + 1}
      BY <3>2, TopFacts
    <3> QED BY <3>1, <3>3 DEF IsDatagram
  <2> HIDE DEF late
  <2>5. Same(z, g, {"seq", "units", "last"}) /\ z.seq = m.seq /\ z.units = g.units + 1 /\ z.last = late
    BY <2>3 DEF IsDialog, Same, Fields
  <2> HIDE DEF z
  <2>6. IsDialog(z)
    BY <2>3, <2>4, <2>5 DEF IsDialog, Same, Fields
  <2>7. /\ z.seqIssue = g.seqIssue /\ z.rec = g.rec /\ z.hasRec = g.hasRec /\ z.pendEvents = g.pendEvents
        /\ z.logOk = g.logOk /\ z.keys = g.keys /\ z.reason = g.reason /\ z.journal = g.journal
    BY <2>5 DEF Same, Fields
  <2>8. Stage(z, x)
    <3>1. Same(z, x, Inputs)
      BY <2>1, <2>5 DEF Stage, Same, Inputs
    <3>2. x.seq \in Int /\ x.units \in Nat
      BY DEF IsDialog
    <3>3. Counted(x) => Counted(z)
      BY <2>1, <2>3, <2>5, <2>7, <3>2 DEF Counted
    <3>4. (Doubtful(g) <=> Doubtful(z)) /\ (Suspect(g) <=> Suspect(z))
      BY <2>7 DEF Doubtful, Suspect
    <3> QED BY <2>1, <2>6, <2>7, <3>1, <3>3, <3>4 DEF Stage
  <2>9. Stage(y, z) /\ Same(y, z, Kepts)
    <3>1. PICK size : size = 1
      OBVIOUS
    <3>2. size \in Nat /\ m.at \in Int
      BY <2>4, <3>1
    <3>3. PICK at : at = m.at
      OBVIOUS
    <3>4. y = Retain(z, now, at, size, origin)
      BY <2>2, <3>1, <3>3
    <3>5. at \in Int
      BY <3>2, <3>3
    <3> HIDE DEF y
    <3> QED BY <2>6, <3>2, <3>4, <3>5, RetainStage
  <2>10. y.keys = z.keys /\ y.journal = z.journal
    BY <2>9 DEF Same, Kepts, Fields
  <2> HIDE DEF y
  <2> QED BY <2>1, <2>7, <2>8, <2>9, <2>10, StageTrans DEF y
<1> QED BY <1>1, <1>2


\* One step of the flush: a datagram of another capture is passed over.
FlushOne(x, acc, m) ==
  LET y == AcceptDatagram(acc[1], m, IF acc[2] THEN "pre-status-buffer" ELSE "live") IN
  IF m.cap # x.owned THEN acc ELSE <<y, acc[2] /\ y.rec.records > acc[1].rec.records>>

\* f is the pass of Flush over the first n datagrams.
Flushing(f, x, pend, n) ==
  f = [i \in 0..n |-> IF i = 0 THEN <<x, TRUE>> ELSE FlushOne(x, f[i - 1], pend[i])]

\* The pass over the datagrams of the buffer is well defined.
LEMMA FlushExists ==
  ASSUME NEW x, NEW pend, NEW n \in Nat
  PROVE  \E f : Flushing(f, x, pend, n)
<1> DEFINE S == {k \in Nat : \E f : Flushing(f, x, pend, k)}
<1>1. 0 \in S
  <2> DEFINE f == [i \in 0..0 |-> <<x, TRUE>>]
  <2>1. Flushing(f, x, pend, 0)
    BY DEF Flushing
  <2> QED BY <2>1
<1>2. ASSUME NEW k \in Nat, k \in S  PROVE k + 1 \in S
  <2>1. PICK f : Flushing(f, x, pend, k)
    BY <1>2
  <2> DEFINE last == FlushOne(x, f[k], pend[k + 1])
             g == [i \in 0..(k + 1) |-> IF i <= k THEN f[i] ELSE last]
  <2>2. \A i \in 0..k : g[i] = f[i]
    OBVIOUS
  <2>3. g[k + 1] = last
    OBVIOUS
  <2> HIDE DEF last
  <2>4. ASSUME NEW i \in 0..(k + 1)
        PROVE  g[i] = IF i = 0 THEN <<x, TRUE>> ELSE FlushOne(x, g[i - 1], pend[i])
    <3> HIDE DEF g
    <3>1. CASE i = k + 1
      <4>1. i # 0 /\ i - 1 = k /\ k \in 0..k
        BY <3>1
      <4> QED BY <2>2, <2>3, <3>1, <4>1 DEF last
    <3>2. CASE i \in 0..k
      <4>1. i # 0 => i - 1 \in 0..k
        BY <3>2
      <4>2. f[i] = IF i = 0 THEN <<x, TRUE>> ELSE FlushOne(x, f[i - 1], pend[i])
        BY <2>1, <3>2 DEF Flushing
      <4> QED BY <2>2, <3>2, <4>1, <4>2
    <3>3. i = k + 1 \/ i \in 0..k
      OBVIOUS
    <3> QED BY <3>1, <3>2, <3>3
  <2>5. g = [i \in 0..(k + 1) |-> g[i]]
    OBVIOUS
  <2> HIDE DEF g
  <2>6. Flushing(g, x, pend, k + 1)
    BY <2>4, <2>5 DEF Flushing
  <2> QED BY <2>6
<1> HIDE DEF S
<1>3. Nat \subseteq S
  BY <1>1, <1>2, SetInduction
<1> QED BY <1>3 DEF S

\* The buffered datagrams are accepted, one after the other.
LEMMA FlushStage ==
  ASSUME NEW x, IsDialog(x), NEW pend, IsSeq(pend), \A i \in 1..Len(pend) : IsDatagram(pend[i])
  PROVE  LET y == Flush(x, pend) IN Stage(y, x) /\ y.keys = x.keys /\ y.journal = x.journal
<1> DEFINE n == Len(pend)
           f == CHOOSE f : Flushing(f, x, pend, n)
           Good(y) == Stage(y, x) /\ y.keys = x.keys /\ y.journal = x.journal
<1>1. Flush(x, pend) = f[n][1]
  BY DEF Flush, Flushing, FlushOne
<1>2. n \in Nat
  BY DEF IsSeq
<1>3. Flushing(f, x, pend, n)
  <2>1. \E h : Flushing(h, x, pend, n)
    BY <1>2, FlushExists
  <2> QED BY <2>1
<1> HIDE DEF f, n
<1> DEFINE S == {i \in Nat : i <= n => Good(f[i][1])}
<1>4. 0 \in S
  <2>1. f[0] = <<x, TRUE>>
    BY <1>2, <1>3 DEF Flushing
  <2> QED BY <2>1, StageSelf
<1>5. ASSUME NEW i \in Nat, i \in S  PROVE i + 1 \in S
  <2> SUFFICES ASSUME i + 1 <= n  PROVE Good(f[i + 1][1])
    BY <1>5
  <2> DEFINE acc == f[i]
             m == pend[i + 1]
             origin == IF acc[2] THEN "pre-status-buffer" ELSE "live"
             y == AcceptDatagram(acc[1], m, origin)
  <2>1. i + 1 \in 1..n /\ i + 1 \in 0..n /\ i + 1 # 0 /\ (i + 1) - 1 = i
    BY <1>2
  <2>2. Good(acc[1])
    BY <1>2, <1>5
  <2>3. f[i + 1] = FlushOne(x, acc, m)
    BY <1>3, <2>1 DEF Flushing
  <2>4. f[i + 1] = acc \/ f[i + 1][1] = y
    BY <2>3 DEF FlushOne
  <2>5. IsDatagram(m) /\ IsDialog(acc[1])
    BY <2>1, <2>2 DEF n, Stage
  <2> HIDE DEF acc, m, origin
  <2>6. Stage(y, acc[1]) /\ y.keys = acc[1].keys /\ y.journal = acc[1].journal
    <3>1. PICK x1 : x1 = acc[1]
      OBVIOUS
    <3>2. y = AcceptDatagram(x1, m, origin) /\ IsDialog(x1)
      BY <2>5, <3>1
    <3> HIDE DEF y
    <3>3. Stage(y, x1) /\ y.keys = x1.keys /\ y.journal = x1.journal
      BY <2>5, <3>2, DatagramStage
    <3> QED BY <3>1, <3>3
  <2> HIDE DEF y
  <2>7. Good(y)
    BY <2>2, <2>6, StageTrans
  <2> QED BY <2>2, <2>4, <2>7
<1> HIDE DEF S
<1>6. n \in S
  <2>1. Nat \subseteq S
    BY <1>4, <1>5, SetInduction
  <2> QED BY <1>2, <2>1
<1>7. Good(f[n][1])
  BY <1>2, <1>6 DEF S
<1> QED BY <1>1, <1>7

\* f is the pass of Establish over the first n events that waited for a recorder.
Noting(f, own, s, n) == f = [i \in 0..n |-> IF i = 0 THEN own ELSE Recorded(f[i - 1], s[i])]

\* The pass over the waiting events is well defined.
LEMMA NotingExists ==
  ASSUME NEW x, NEW s, NEW n \in Nat
  PROVE  \E f : Noting(f, x, s, n)
<1> DEFINE S == {k \in Nat : \E f : Noting(f, x, s, k)}
<1>1. 0 \in S
  <2> DEFINE f == [i \in 0..0 |-> x]
  <2>1. Noting(f, x, s, 0)
    BY DEF Noting
  <2> QED BY <2>1
<1>2. ASSUME NEW k \in Nat, k \in S  PROVE k + 1 \in S
  <2>1. PICK f : Noting(f, x, s, k)
    BY <1>2
  <2> DEFINE last == Recorded(f[k], s[k + 1])
             g == [i \in 0..(k + 1) |-> IF i <= k THEN f[i] ELSE last]
  <2>2. \A i \in 0..k : g[i] = f[i]
    OBVIOUS
  <2>3. g[k + 1] = last
    OBVIOUS
  <2> HIDE DEF last
  <2>4. ASSUME NEW i \in 0..(k + 1)
        PROVE  g[i] = IF i = 0 THEN x ELSE Recorded(g[i - 1], s[i])
    <3> HIDE DEF g
    <3>1. CASE i = k + 1
      <4>1. i # 0 /\ i - 1 = k /\ k \in 0..k
        BY <3>1
      <4> QED BY <2>2, <2>3, <3>1, <4>1 DEF last
    <3>2. CASE i \in 0..k
      <4>1. i # 0 => i - 1 \in 0..k
        BY <3>2
      <4>2. f[i] = IF i = 0 THEN x ELSE Recorded(f[i - 1], s[i])
        BY <2>1, <3>2 DEF Noting
      <4> QED BY <2>2, <3>2, <4>1, <4>2
    <3>3. i = k + 1 \/ i \in 0..k
      OBVIOUS
    <3> QED BY <3>1, <3>2, <3>3
  <2>5. g = [i \in 0..(k + 1) |-> g[i]]
    OBVIOUS
  <2> HIDE DEF g
  <2>6. Noting(g, x, s, k + 1)
    BY <2>4, <2>5 DEF Noting
  <2> QED BY <2>6
<1> HIDE DEF S
<1>3. Nat \subseteq S
  BY <1>1, <1>2, SetInduction
<1> QED BY <1>3 DEF S

\* The dialog with a recorder, before the waiting events are flushed to it, and after.
Owner(x, st) ==
  [x EXCEPT !.owned = st.cap, !.hasRec = TRUE, !.rec = NewRecorder, !.pendEvents = <<>>, !.pend = <<>>]
Noted(x, own) ==
  (CHOOSE f : Noting(f, own, x.pendEvents, Len(x.pendEvents)))[Len(x.pendEvents)]

LEMMA NotedFacts ==
  ASSUME NEW x, NEW own, IsDialog(own), IsSeq(x.pendEvents)
  PROVE  LET y == Noted(x, own) IN
         /\ IsDialog(y) /\ Same(y, own, {"rec", "logOk", "limitEvent"})
         /\ IF x.pendEvents = <<>> THEN y = own ELSE y.rec.events # <<>> \/ ~y.logOk
<1> DEFINE s == x.pendEvents
           n == Len(s)
           f == CHOOSE f : Noting(f, own, s, n)
           Good(y, i) == /\ IsDialog(y) /\ Same(y, own, {"rec", "logOk", "limitEvent"})
                         /\ IF i = 0 THEN y = own ELSE y.rec.events # <<>> \/ ~y.logOk
<1>1. Noted(x, own) = f[n] /\ IsSeq(s)
  BY DEF Noted
<1>2. n \in Nat /\ (s = <<>> => n = 0) /\ (n = 0 => s = <<>>)
  <2>1. n \in Nat /\ s = [i \in 1..n |-> s[i]]
    BY <1>1 DEF IsSeq
  <2>2. Len(<<>>) = 0
    OBVIOUS
  <2>3. ASSUME n = 0  PROVE s = <<>>
    BY <2>1, <2>3
  <2> QED BY <2>1, <2>2, <2>3
<1>3. Noting(f, own, s, n)
  <2>1. \E h : Noting(h, own, s, n)
    BY <1>2, NotingExists
  <2> QED BY <2>1
<1> HIDE DEF f, n, s
<1> DEFINE S == {i \in Nat : i <= n => Good(f[i], i)}
<1>4. 0 \in S
  <2>1. f[0] = own
    BY <1>2, <1>3 DEF Noting
  <2> QED BY <2>1 DEF Same, IsDialog
<1>5. ASSUME NEW i \in Nat, i \in S  PROVE i + 1 \in S
  <2> SUFFICES ASSUME i + 1 <= n  PROVE Good(f[i + 1], i + 1)
    BY <1>5
  <2>1. i + 1 \in 0..n /\ i + 1 # 0 /\ (i + 1) - 1 = i
    BY <1>2
  <2>2. Good(f[i], i)
    BY <1>2, <1>5
  <2>3. f[i + 1] = Recorded(f[i], s[i + 1])
    BY <1>3, <2>1 DEF Noting
  <2>4. PICK a, e : a = f[i] /\ e = s[i + 1]
    OBVIOUS
  <2>5. IsDialog(a) /\ Same(a, own, {"rec", "logOk", "limitEvent"})
    BY <2>2, <2>4
  <2>6. LET y == Recorded(a, e) IN
        /\ IsDialog(y) /\ Same(y, a, {"rec", "logOk", "limitEvent"}) /\ (y.rec.events # <<>> \/ ~y.logOk)
    BY <2>5, RecordedFacts
  <2> QED BY <2>1, <2>3, <2>4, <2>5, <2>6 DEF Same
<1> HIDE DEF S
<1>6. n \in S
  <2>1. Nat \subseteq S
    BY <1>4, <1>5, SetInduction
  <2> QED BY <1>2, <2>1
<1>7. Good(f[n], n)
  BY <1>2, <1>6 DEF S
<1> QED BY <1>1, <1>2, <1>7 DEF s

Unstarted(x) == ~x.hasRec /\ x.owned = 0 /\ x.keys = {} /\ ~x.seqIssue /\ x.units = 0 /\ x.seq = -1

LEMMA NewRecorderFacts ==
  /\ IsRecorder(NewRecorder) /\ NewRecorder.events = <<>> /\ NewRecorder.records = 0
<1>1. IsSeq(<<>>) /\ Len(<<>>) = 0
  BY DEF IsSeq
<1> QED BY <1>1, LimitsAssumption DEF IsRecorder, NewRecorder

\* A recording begins with what was noticed and buffered before its capture was known.
LEMMA EstablishFacts ==
  ASSUME NEW x, IsDialog(x), Unstarted(x), Suspect(x) => Doubtful(x), NEW st \in Statuses, now \in Int
  PROVE  LET y == Establish(x, st) IN
         /\ IsDialog(y) /\ Same(y, x, Inputs \cup {"owned", "hasRec", "t0"})
         /\ y.hasRec /\ y.owned = st.cap /\ y.journal = x.journal
         /\ Counted(y) /\ (Suspect(y) => Doubtful(y))
<1> DEFINE own == Owner(x, st)
           fl == Noted(x, own)
           r == [fl.rec EXCEPT !.complete = fl.rec.complete /\ fl.logOk]
           mk == [fl EXCEPT !.rec = r, !.t0 = now - st.dur]
           y == Establish(x, st)
<1>1. y = Flush(mk, x.pend)
  <2>1. fl = LET done[i \in 0..Len(x.pendEvents)] == IF i = 0 THEN own ELSE Recorded(done[i - 1], x.pendEvents[i])
             IN done[Len(x.pendEvents)]
    BY DEF Noted, Noting
  <2> QED BY <2>1 DEF Establish, Owner
<1>2. /\ st.cap \in Nat /\ st.dur \in Int
  BY DEF Statuses
<1>3. /\ own = [f \in Fields |-> own[f]] /\ Same(own, x, {"owned", "hasRec", "rec", "pendEvents", "pend"})
      /\ own.owned = st.cap /\ own.hasRec = TRUE /\ own.rec = NewRecorder /\ own.pendEvents = <<>> /\ own.pend = <<>>
  BY DEF Owner, IsDialog, Same, Fields
<1> HIDE DEF own
<1>4. IsDialog(own)
  <2>1. IsRecorder(NewRecorder) /\ IsSeq(<<>>) /\ Len(<<>>) = 0
    BY NewRecorderFacts DEF IsSeq
  <2>2. /\ own.units = x.units /\ own.seq = x.seq /\ own.journal = x.journal /\ own.frozen = x.frozen
        /\ own.last = x.last /\ own.lastKept = x.lastKept /\ own.stDur = x.stDur /\ own.t0 = x.t0
        /\ own.verified = x.verified /\ own.paused = x.paused /\ own.closed = x.closed
        /\ own.seqIssue = x.seqIssue /\ own.limitEvent = x.limitEvent /\ own.logOk = x.logOk
        /\ own.reason = x.reason
    BY <1>3 DEF Same, Fields
  <2>3. IsSeq(own.pend) /\ \A i \in 1..Len(own.pend) : IsDatagram(own.pend[i])
    BY <1>3, <2>1
  <2> QED BY <1>2, <1>3, <2>1, <2>2, <2>3 DEF IsDialog
<1>5. /\ IsDialog(fl) /\ Same(fl, own, {"rec", "logOk", "limitEvent"})
      /\ IF x.pendEvents = <<>> THEN fl = own ELSE fl.rec.events # <<>> \/ ~fl.logOk
  BY <1>4, NotedFacts DEF IsDialog
<1> HIDE DEF fl
<1>6. IsRecorder(r) /\ r.events = fl.rec.events
  <2>1. IsRecorder(fl.rec) /\ fl.logOk \in BOOLEAN
    BY <1>5 DEF IsDialog
  <2> DEFINE c == fl.rec.complete /\ fl.logOk
  <2>2. c \in BOOLEAN
    BY <2>1 DEF IsRecorder
  <2> HIDE DEF c
  <2>3. r = [fl.rec EXCEPT !.complete = c]
    BY DEF c
  <2> HIDE DEF r
  <2> QED BY <2>1, <2>2, <2>3 DEF IsRecorder
<1> HIDE DEF r
<1>7. Same(mk, fl, {"rec", "t0"}) /\ mk.rec = r /\ mk.t0 = now - st.dur
  BY <1>5 DEF IsDialog, Same, Fields
<1> HIDE DEF mk
<1>8. IsDialog(mk)
  <2>1. now - st.dur \in Int
    BY <1>2
  <2> QED BY <1>5, <1>6, <1>7, <2>1 DEF IsDialog, Same, Fields
<1>9. IsSeq(x.pend) /\ \A i \in 1..Len(x.pend) : IsDatagram(x.pend[i])
  BY DEF IsDialog
<1>10. Stage(y, mk) /\ y.keys = mk.keys /\ y.journal = mk.journal
  <2>1. PICK pend : pend = x.pend
    OBVIOUS
  <2>2. y = Flush(mk, pend) /\ IsSeq(pend) /\ \A i \in 1..Len(pend) : IsDatagram(pend[i])
    BY <1>1, <1>9, <2>1
  <2> HIDE DEF y
  <2> QED BY <1>8, <2>2, FlushStage
<1> HIDE DEF y
<1>11. /\ mk.keys = x.keys /\ mk.journal = x.journal /\ mk.hasRec = TRUE /\ mk.owned = st.cap
       /\ mk.seq = x.seq /\ mk.units = x.units /\ mk.seqIssue = x.seqIssue /\ mk.reason = x.reason
       /\ mk.logOk = fl.logOk /\ mk.rec.events = fl.rec.events
  BY <1>3, <1>5, <1>6, <1>7 DEF Same, Fields
<1>12. Suspect(mk) => Doubtful(mk)
  <2>1. Suspect(mk) <=> Suspect(x)
    BY <1>11 DEF Suspect
  <2>2. ASSUME Doubtful(x)  PROVE Doubtful(mk)
    <3>1. CASE x.pendEvents = <<>>
      <4>1. ~x.logOk /\ own.logOk = x.logOk
        BY <1>3, <2>2, <3>1 DEF Doubtful, Unstarted, Same, Fields
      <4> QED BY <1>5, <1>11, <3>1, <4>1 DEF Doubtful
    <3>2. CASE x.pendEvents # <<>>
      BY <1>5, <1>11, <3>2 DEF Doubtful
    <3> QED BY <3>1, <3>2
  <2> QED BY <2>1, <2>2
<1>13. Counted(mk)
  BY <1>11 DEF Counted, Unstarted
<1>14. Same(mk, x, Inputs \cup {"owned", "hasRec", "t0"})
  BY <1>3, <1>5, <1>7 DEF Same, Inputs
<1>15. Same(y, x, Inputs \cup {"owned", "hasRec", "t0"})
  BY <1>10, <1>14 DEF Same, Stage
<1>16. y.hasRec = mk.hasRec /\ y.owned = mk.owned
  BY <1>10, StageFacts
<1> QED BY <1>10, <1>11, <1>12, <1>13, <1>15, <1>16 DEF Stage, y


-----------------------------------------------------------------------------
(* What arrives *)

\* A duration that is frozen stays.
LEMMA FreezeStage ==
  ASSUME NEW x, IsDialog(x), NEW t \in Int
  PROVE  LET y == Freeze(x, t) IN Stage(y, x) /\ Same(y, x, {"frozen"})
<1> DEFINE y == Freeze(x, t)
           top == Top({1, x.last, t - x.t0})
<1>1. CASE x.frozen # -1
  <2>1. y = x
    BY <1>1 DEF Freeze
  <2> QED BY <2>1, StageSelf DEF Stage, Same
<1>2. CASE x.frozen = -1
  <2>1. x.last \in Int /\ x.t0 \in Int
    BY DEF IsDialog
  <2>2. top \in Int
    <3> DEFINE S == {1, x.last, t - x.t0}
    <3>1. S \subseteq Int /\ \E z \in S : \A v \in S : v <= z
      BY <2>1
    <3> HIDE DEF S
    <3>2. Top(S) \in S
      BY <3>1, TopFacts
    <3> QED BY <3>1, <3>2 DEF S
  <2>3. y = [x EXCEPT !.frozen = top]
    BY <1>2 DEF Freeze
  <2> HIDE DEF top
  <2>4. Same(y, x, {"frozen"}) /\ y.frozen = top
    BY <2>3 DEF IsDialog, Same, Fields
  <2> HIDE DEF y
  <2>5. /\ y.hasRec = x.hasRec /\ y.rec = x.rec /\ y.pendEvents = x.pendEvents /\ y.logOk = x.logOk
        /\ y.seq = x.seq /\ y.units = x.units /\ y.seqIssue = x.seqIssue /\ y.reason = x.reason /\ y.keys = x.keys
    BY <2>4 DEF Same, Fields
  <2>6. IsDialog(y)
    BY <2>2, <2>4 DEF IsDialog, Same, Fields
  <2>7. Same(y, x, Inputs)
    BY <2>4 DEF Same, Inputs
  <2>8. Stage(y, x)
    BY <2>5, <2>6, <2>7 DEF Stage, Counted, Doubtful, Suspect
  <2> QED BY <2>4, <2>8 DEF y
<1> QED BY <1>1, <1>2

\* A status of the owned capture brings its journal, and its error is recorded.
LEMMA StatusStage ==
  ASSUME NEW x, IsDialog(x), NEW st \in Statuses
  PROVE  LET y == AcceptStatus(x, st) IN
         /\ Stage(y, x)
         /\ Same(y, x, {"stDur", "journal", "last", "keys", "rec", "logOk", "limitEvent", "pendEvents"})
         /\ y.journal = x.journal \/ (y.journal = st.journal /\ st.cap = x.owned /\ x.owned # 0)
         /\ x.owned = 0 => y.keys = x.keys
         /\ x.purpose = "recording" /\ x.owned # 0 /\ st.cap = x.owned /\ st.err # "none" => y.keys # {}
<1> DEFINE y == AcceptStatus(x, st)
           F == {"stDur", "journal", "last"}
           late == IF x.frozen = -1 THEN Top({x.last, st.dur}) ELSE x.last
           u == [x EXCEPT !.stDur = st.dur]
           z == [u EXCEPT !.journal = st.journal, !.last = late]
           skip == x.purpose # "recording" \/ x.owned = 0 \/ st.cap # x.owned
<1>1. st.dur \in Int /\ st.journal \in Journals /\ x.last \in Int
  BY DEF Statuses, IsDialog
<1>2. late \in Int
  <2> DEFINE S == {x.last, st.dur}
  <2>1. S \subseteq Int /\ \E v \in S : \A w \in S : w <= v
    BY <1>1
  <2> HIDE DEF S
  <2>2. Top(S) \in S
    BY <2>1, TopFacts
  <2> QED BY <1>1, <2>1, <2>2 DEF S
<1>3. u.owned = x.owned /\ u.frozen = x.frozen /\ u.last = x.last /\ u.purpose = x.purpose
  BY DEF IsDialog, Fields
<1>4. y = IF skip THEN u ELSE IF st.err = "none" THEN z ELSE RecordUdpError(z, st.err)
  BY <1>3 DEF AcceptStatus, IsDialog, Fields
<1>5. Same(u, x, F) /\ u.stDur = st.dur /\ u.last = x.last /\ u.journal = x.journal
  BY DEF IsDialog, Same, Fields
<1>6. Same(z, x, F) /\ z.stDur = st.dur /\ z.last = late /\ z.journal = st.journal
  BY DEF IsDialog, Same, Fields
<1> HIDE DEF late, u, z
<1>7. ASSUME NEW w, Same(w, x, F), w.stDur \in Int, w.last \in Int, w.journal \in Journals
      PROVE  IsDialog(w) /\ Stage(w, x) /\ w.keys = x.keys
  <2>1. /\ w.hasRec = x.hasRec /\ w.rec = x.rec /\ w.pendEvents = x.pendEvents /\ w.logOk = x.logOk
        /\ w.seq = x.seq /\ w.units = x.units /\ w.seqIssue = x.seqIssue /\ w.reason = x.reason /\ w.keys = x.keys
    BY <1>7 DEF Same, Fields
  <2>2. IsDialog(w)
    BY <1>7 DEF IsDialog, Same, Fields
  <2>3. Same(w, x, Inputs)
    BY <1>7 DEF Same, Inputs
  <2> QED BY <2>1, <2>2, <2>3 DEF Stage, Counted, Doubtful, Suspect
<1>8. CASE skip
  <2>1. y = u
    BY <1>4, <1>8
  <2>2. Stage(u, x) /\ u.keys = x.keys
    <3>1. x.journal \in Journals
      BY DEF IsDialog
    <3> QED BY <1>1, <1>5, <1>7, <3>1
  <2> QED BY <1>5, <1>8, <2>1, <2>2 DEF Same
<1>9. CASE ~skip /\ st.err = "none"
  <2>1. y = z
    BY <1>4, <1>9
  <2>2. Stage(z, x) /\ z.keys = x.keys
    BY <1>1, <1>2, <1>6, <1>7
  <2> QED BY <1>6, <1>9, <2>1, <2>2 DEF Same
<1>10. CASE ~skip /\ st.err # "none"
  <2>1. PICK err : err = st.err
    OBVIOUS
  <2>2. y = RecordUdpError(z, err)
    BY <1>4, <1>10, <2>1
  <2>3. IsDialog(z) /\ Stage(z, x)
    BY <1>1, <1>2, <1>6, <1>7
  <2>4. z.owned = x.owned
    BY <1>6 DEF Same, Fields
  <2> HIDE DEF y
  <2>5. /\ Stage(y, z) /\ (z.owned # 0 => err \in y.keys)
        /\ Same(y, z, {"keys", "rec", "logOk", "limitEvent", "pendEvents"})
    BY <2>2, <2>3, ErrorStage
  <2>6. Stage(y, x)
    BY <2>3, <2>5, StageTrans
  <2>7. y.journal = st.journal
    BY <1>6, <2>5 DEF Same, Fields
  <2>8. Same(y, x, {"stDur", "journal", "last", "keys", "rec", "logOk", "limitEvent", "pendEvents"})
    BY <1>6, <2>5 DEF Same
  <2> QED BY <1>10, <2>4, <2>5, <2>6, <2>7, <2>8 DEF y
<1> QED BY <1>8, <1>9, <1>10

\* An error of the stream is recorded; a fatal one closes the capture's input.
LEMMA AcceptErrorStage ==
  ASSUME NEW x, IsDialog(x), NEW err, now \in Int
  PROVE  LET y == AcceptError(x, err) IN
         /\ Stage(y, x)
         /\ x.owned = 0 => y = x
         /\ y.journal = x.journal
<1> DEFINE y == AcceptError(x, err)
           fatal == x.owned # 0 /\ err \in Fatal
           fr == Freeze(x, now)
           z == IF fatal THEN [fr EXCEPT !.closed = TRUE, !.reason = TRUE] ELSE x
<1>1. y = RecordUdpError(z, err)
  BY DEF AcceptError
<1>2. Stage(fr, x) /\ Same(fr, x, {"frozen"}) /\ IsDialog(fr)
  BY FreezeStage DEF Stage
<1> HIDE DEF fr
<1>3. CASE ~fatal
  <2>1. y = RecordUdpError(x, err)
    BY <1>1, <1>3
  <2> HIDE DEF y
  <2>2. /\ Stage(y, x) /\ (x.owned = 0 => y = x)
        /\ Same(y, x, {"keys", "rec", "logOk", "limitEvent", "pendEvents"})
    BY <2>1, ErrorStage
  <2>3. y.journal = x.journal
    BY <2>2 DEF Same, Fields
  <2> QED BY <2>2, <2>3 DEF y
<1>4. CASE fatal
  <2>1. z = [fr EXCEPT !.closed = TRUE, !.reason = TRUE]
    BY <1>4
  <2>2. Same(z, fr, {"closed", "reason"}) /\ z.closed = TRUE /\ z.reason = TRUE
    BY <1>2, <2>1 DEF IsDialog, Same, Fields
  <2> HIDE DEF z
  <2>3. IsDialog(z)
    BY <1>2, <2>2 DEF IsDialog, Same, Fields
  <2>4. /\ z.keys = x.keys /\ z.owned = x.owned /\ z.hasRec = x.hasRec /\ z.rec = x.rec /\ z.journal = x.journal
        /\ z.pendEvents = x.pendEvents /\ z.logOk = x.logOk /\ z.seq = x.seq /\ z.units = x.units /\ z.seqIssue = x.seqIssue
    BY <1>2, <2>2 DEF Same, Fields
  <2>5. Same(z, x, {"frozen", "closed", "reason"})
    BY <1>2, <2>2 DEF Same
  <2> HIDE DEF y
  <2>6. CASE err \in x.keys
    <3>1. y = z
      BY <1>1, <2>4, <2>6 DEF RecordUdpError
    <3>2. Same(z, x, Inputs)
      BY <2>5 DEF Same, Inputs
    <3>3. Suspect(x)
      BY <2>6 DEF Suspect
    <3>4. Stage(z, x)
      BY <2>3, <2>4, <3>2, <3>3 DEF Stage, Counted, Doubtful
    <3> QED BY <1>4, <2>4, <3>1, <3>4 DEF y
  <2>7. CASE err \notin x.keys
    <3> DEFINE v == [z EXCEPT !.keys = @ \cup {err}]
               e == Event(IF err = "end" THEN "udp-event-stream-disconnected" ELSE "udp-bridge-error",
                          EventOffset(z, now), <<err>>)
    <3>1. y = RecordEvent(v, e)
      BY <1>1, <1>4, <2>4, <2>7 DEF RecordUdpError
    <3>2. Same(v, z, {"keys"}) /\ v.keys = z.keys \cup {err}
      BY <2>3 DEF IsDialog, Same, Fields
    <3> HIDE DEF v, e
    <3>3. IsDialog(v)
      BY <2>3, <3>2 DEF IsDialog, Same, Fields
    <3>4. PICK F : F = {"frozen", "closed", "reason", "keys"}
      OBVIOUS
    <3>5. Same(v, x, F) /\ F \subseteq Inputs \ {"seq", "units", "rec"} /\ x.keys \subseteq v.keys
          /\ v.seqIssue = x.seqIssue /\ v.journal = x.journal
      <4>1. Same(v, x, F)
        BY <2>5, <3>2, <3>4 DEF Same
      <4>2. F \subseteq Inputs \ {"seq", "units", "rec"}
        BY <3>4 DEF Inputs
      <4>3. v.seqIssue = x.seqIssue /\ v.journal = x.journal
        BY <2>4, <3>2 DEF Same, Fields
      <4> QED BY <2>4, <3>2, <4>1, <4>2, <4>3
    <3>6. Stage(y, x) /\ Same(y, x, F \cup {"rec", "logOk", "limitEvent", "pendEvents"})
      BY <3>1, <3>3, <3>5, NoticeStage
    <3>7. y.journal = x.journal
      BY <3>4, <3>6 DEF Same, Fields
    <3> QED BY <1>4, <3>6, <3>7 DEF y
  <2> QED BY <2>6, <2>7
<1> QED BY <1>3, <1>4

\* A datagram that comes before its capture is known waits, or the pause is recorded.
LEMMA BufferStage ==
  ASSUME NEW x, IsDialog(x), NEW m, IsDatagram(m)
  PROVE  LET y == BufferDatagram(x, m) IN
         /\ Stage(y, x)
         /\ Same(y, x, {"pend", "paused", "reason", "rec", "logOk", "limitEvent", "pendEvents"})
<1> DEFINE y == BufferDatagram(x, m)
<1>1. CASE Len(x.pend) < MaxBuffered
  <2> DEFINE s == x.pend
             u == Append(s, m)
  <2>1. y = [x EXCEPT !.pend = u]
    BY <1>1 DEF BufferDatagram, IsDialog, Fields
  <2>2. IsSeq(s) /\ \A i \in 1..Len(s) : IsDatagram(s[i])
    BY DEF IsDialog
  <2>3. IsSeq(u) /\ \A i \in 1..Len(u) : IsDatagram(u[i])
    <3>1. PICK t : t = s
      OBVIOUS
    <3>2. /\ IsSeq(Append(t, m)) /\ Len(Append(t, m)) = Len(t) + 1 /\ Append(t, m)[Len(t) + 1] = m
          /\ (\A i \in 1..Len(t) : Append(t, m)[i] = t[i]) /\ Len(t) \in Nat
      BY <2>2, <3>1, AppendTo DEF IsSeq
    <3>3. ASSUME NEW i \in 1..Len(u)  PROVE IsDatagram(u[i])
      <4>1. i = Len(t) + 1 \/ i \in 1..Len(t)
        BY <3>1, <3>2
      <4> HIDE DEF s
      <4> QED BY <2>2, <3>1, <3>2, <4>1
    <3> QED BY <3>1, <3>2, <3>3
  <2> HIDE DEF u
  <2>4. Same(y, x, {"pend"}) /\ y.pend = u
    BY <2>1 DEF IsDialog, Same, Fields
  <2> HIDE DEF y
  <2>5. /\ y.hasRec = x.hasRec /\ y.rec = x.rec /\ y.pendEvents = x.pendEvents /\ y.logOk = x.logOk
        /\ y.seq = x.seq /\ y.units = x.units /\ y.seqIssue = x.seqIssue /\ y.reason = x.reason /\ y.keys = x.keys
    BY <2>4 DEF Same, Fields
  <2>6. IsDialog(y)
    BY <2>3, <2>4 DEF IsDialog, Same, Fields
  <2>7. Same(y, x, Inputs)
    BY <2>4 DEF Same, Inputs
  <2>8. Stage(y, x)
    BY <2>5, <2>6, <2>7 DEF Stage, Counted, Doubtful, Suspect
  <2> QED BY <2>4, <2>8 DEF Same, y
<1>2. CASE ~(Len(x.pend) < MaxBuffered)
  <2> DEFINE z == [x EXCEPT !.paused = TRUE, !.reason = TRUE]
             e == Event("capture-backpressure", Session, <<"prestatus">>)
  <2>1. y = RecordEvent(z, e)
    BY <1>2 DEF BufferDatagram
  <2>2. Same(z, x, {"paused", "reason"}) /\ z.paused = TRUE /\ z.reason = TRUE
    BY DEF IsDialog, Same, Fields
  <2> HIDE DEF z, e
  <2>3. IsDialog(z) /\ z.keys = x.keys /\ z.seqIssue = x.seqIssue
    <3>1. IsDialog(z)
      BY <2>2 DEF IsDialog, Same, Fields
    <3> QED BY <2>2, <3>1 DEF Same, Fields
  <2>4. PICK F : F = {"paused", "reason"}
    OBVIOUS
  <2>5. F \subseteq Inputs \ {"seq", "units", "rec"}
    BY <2>4 DEF Inputs
  <2> HIDE DEF y
  <2>6. Stage(y, x) /\ Same(y, x, F \cup {"rec", "logOk", "limitEvent", "pendEvents"})
    BY <2>1, <2>2, <2>3, <2>4, <2>5, NoticeStage
  <2> QED BY <2>4, <2>6 DEF Same, y
<1> QED BY <1>1, <1>2


\* What a clean journal says of a capture is what became of it.
Truthful(cap, journal) ==
  journal.state = "clean" =>
    /\ cap \in 1..made.captures
    /\ truth[cap].ended /\ ~truth[cap].dirty /\ truth[cap].datagrams = journal.datagrams
Honest(st) == st \in Statuses /\ st.cap <= made.captures /\ Truthful(st.cap, st.journal)

\* What is on its way to the page.
Told(m) ==
  \/ m.k = "status" /\ Honest(m.st)
  \/ m.k = "datagram" /\ IsDatagram(m)
  \/ m.k = "error"
  \/ m.k = "end"

\* A message is taken in: the journal is the old one, or the one of a status of the owned capture.
LEMMA ReceivedStage ==
  ASSUME NEW x, IsDialog(x), NEW m, Told(m), now \in Int
  PROVE  LET y == Received(x, m) IN
         /\ Stage(y, x)
         /\ x.owned = 0 => y.keys = x.keys /\ y.seqIssue = x.seqIssue /\ y.units = x.units /\ y.seq = x.seq
         /\ \/ y.journal = x.journal
            \/ m.k = "status" /\ y.journal = m.st.journal /\ m.st.cap = x.owned /\ x.owned # 0
<1> DEFINE y == Received(x, m)
<1>1. CASE m.k = "status"
  <2>1. PICK st : st = m.st
    OBVIOUS
  <2>2. st \in Statuses
    BY <1>1, <2>1 DEF Told, Honest
  <2>3. y = AcceptStatus(x, st)
    BY <1>1, <2>1 DEF Received
  <2> HIDE DEF y
  <2>4. /\ Stage(y, x)
        /\ Same(y, x, {"stDur", "journal", "last", "keys", "rec", "logOk", "limitEvent", "pendEvents"})
        /\ y.journal = x.journal \/ (y.journal = st.journal /\ st.cap = x.owned /\ x.owned # 0)
        /\ x.owned = 0 => y.keys = x.keys
    BY <2>2, <2>3, StatusStage
  <2>5. y.seqIssue = x.seqIssue /\ y.units = x.units /\ y.seq = x.seq
    BY <2>4 DEF Same, Fields
  <2> QED BY <1>1, <2>1, <2>4, <2>5 DEF y
<1>2. CASE m.k # "status" /\ x.purpose = "preflight"
  <2>1. y = x
    BY <1>2 DEF Received
  <2> QED BY <2>1, StageSelf
<1>3. CASE m.k = "datagram" /\ x.purpose # "preflight" /\ x.owned # 0
  <2>1. PICK origin : origin = "live"
    OBVIOUS
  <2>2. y = AcceptDatagram(x, m, origin) /\ IsDatagram(m)
    BY <1>3, <2>1 DEF Received, Told
  <2> HIDE DEF y
  <2>3. Stage(y, x) /\ y.journal = x.journal
    BY <2>2, DatagramStage
  <2> QED BY <1>3, <2>3 DEF y
<1>4. CASE m.k = "datagram" /\ x.purpose # "preflight" /\ x.owned = 0
  <2>1. y = BufferDatagram(x, m) /\ IsDatagram(m)
    BY <1>4 DEF Received, Told
  <2> HIDE DEF y
  <2>2. /\ Stage(y, x)
        /\ Same(y, x, {"pend", "paused", "reason", "rec", "logOk", "limitEvent", "pendEvents"})
    BY <2>1, BufferStage
  <2>3. y.keys = x.keys /\ y.seqIssue = x.seqIssue /\ y.units = x.units /\ y.seq = x.seq /\ y.journal = x.journal
    BY <2>2 DEF Same, Fields
  <2> QED BY <2>2, <2>3 DEF y
<1>5. CASE m.k \in {"error", "end"} /\ x.purpose # "preflight"
  <2>1. PICK err : err = IF m.k = "error" THEN m.err ELSE "end"
    OBVIOUS
  <2>2. y = AcceptError(x, err)
    BY <1>5, <2>1 DEF Received
  <2> HIDE DEF y
  <2>3. Stage(y, x) /\ (x.owned = 0 => y = x) /\ y.journal = x.journal
    BY <2>2, AcceptErrorStage
  <2> QED BY <2>3 DEF y
<1> QED BY <1>1, <1>2, <1>3, <1>4, <1>5 DEF Told

-----------------------------------------------------------------------------
(* What finalisation makes of a recorder *)

\* r is q with more events, or with an incomplete log.
Grown(r, q) ==
  /\ IsRecorder(r) /\ r.records = q.records /\ r.bytes = q.bytes /\ r.last = q.last
  /\ q.events # <<>> => r.events # <<>>
  /\ ~q.complete => ~r.complete

LEMMA AppendGrows ==
  ASSUME NEW q, IsRecorder(q), NEW e, NEW terminal \in BOOLEAN
  PROVE  Grown(AppendEvent(q, e, terminal), q)
<1> DEFINE r == AppendEvent(q, e, terminal)
<1>1. /\ IsRecorder(r) /\ r.records = q.records /\ r.bytes = q.bytes /\ r.last = q.last
      /\ \/ r.events = Append(q.events, e) /\ Len(r.events) = Len(q.events) + 1 /\ r.complete = q.complete
         \/ r.events = q.events /\ ~r.complete
  BY AppendEventFacts
<1> HIDE DEF r
<1>2. r.events = <<>> => q.events = <<>>
  <2>1. Len(q.events) \in Nat /\ Len(<<>>) = 0
    BY DEF IsRecorder, IsSeq
  <2>2. ASSUME r.events = <<>>  PROVE ~(Len(r.events) = Len(q.events) + 1)
    BY <2>1, <2>2
  <2> QED BY <1>1, <2>2
<1> QED BY <1>1, <1>2 DEF Grown, r

LEMMA GrownTrans ==
  ASSUME NEW r, NEW q, NEW p, Grown(r, q), Grown(q, p)
  PROVE  Grown(r, p)
BY DEF Grown

LEMMA TerminalGrows ==
  ASSUME NEW q, IsRecorder(q), NEW e, NEW r, r = q \/ r = AppendEvent(q, e, TRUE)
  PROVE  IsRecorder(r) /\ Grown(r, q)
<1>1. PICK yes \in BOOLEAN : yes = TRUE
  OBVIOUS
<1>2. Grown(AppendEvent(q, e, yes), q)
  BY AppendGrows
<1>3. Grown(q, q)
  BY DEF Grown
<1>4. Grown(r, q)
  BY <1>1, <1>2, <1>3
<1> QED BY <1>4 DEF Grown

LEMMA ClosedGrows ==
  ASSUME NEW q, IsRecorder(q), NEW ev
  PROVE  Grown(Closed(q, ev), q)
<1> DEFINE e1 == Event("udp-kernel-drops-observed", Session, <<ev.journal.drops>>)
           r1 == WithDrops(q, ev)
           e2 == Event("shutdown-unconfirmed", Session, <<>>)
           r2 == Once(r1, StopOf(ev) = "unconfirmed", e2)
           e3 == Event(MismatchType(ev), Session, <<Reported(ev), ev.observed, <<q.records, q.bytes>>>>)
           r3 == Once(r2, Mismatch(q, ev), e3)
<1>1. Closed(q, ev) = r3
  BY DEF Closed
<1>2. r1 = q \/ r1 = AppendEvent(q, e1, TRUE)
  BY DEF WithDrops, Once
<1>3. r2 = r1 \/ r2 = AppendEvent(r1, e2, TRUE)
  BY DEF Once
<1>4. r3 = r2 \/ r3 = AppendEvent(r2, e3, TRUE)
  BY DEF Once
<1> HIDE DEF r1, r2, r3, e1, e2, e3
<1>5. IsRecorder(r1) /\ Grown(r1, q)
  BY <1>2, TerminalGrows
<1>6. IsRecorder(r2) /\ Grown(r2, r1)
  <2>1. PICK a : a = r1
    OBVIOUS
  <2>2. IsRecorder(r2) /\ Grown(r2, a)
    BY <1>3, <1>5, <2>1, TerminalGrows
  <2> QED BY <2>1, <2>2
<1>7. IsRecorder(r3) /\ Grown(r3, r2)
  <2>1. PICK a : a = r2
    OBVIOUS
  <2>2. IsRecorder(r3) /\ Grown(r3, a)
    BY <1>4, <1>6, <2>1, TerminalGrows
  <2> QED BY <2>1, <2>2
<1> QED BY <1>1, <1>5, <1>6, <1>7, GrownTrans

\* Evidence of a UDP recording.
IsEvidence(ev) ==
  /\ ev = [f \in {"source", "stop", "stopOffset", "complete", "observed", "reported", "codes", "journal"} |-> ev[f]]
  /\ ev.source = "udp"

\* Something in the recorder or in the evidence speaks against a verified session.
Doubted(r, ev) ==
  \/ r.events # <<>> \/ ~r.complete \/ ~ev.complete
  \/ StopOf(ev) # "confirmed" \/ ~Reconciled(r, ev)

\* ev and old tell the same story.
Alike(ev, old) ==
  /\ ev.source = old.source /\ ev.stop = old.stop /\ ev.complete = old.complete
  /\ ev.observed = old.observed /\ ev.reported = old.reported /\ ev.journal = old.journal

LEMMA DoubtGrows ==
  ASSUME NEW r, NEW q, NEW ev, NEW old, Grown(r, q), Alike(ev, old), Doubted(q, old)
  PROVE  Doubted(r, ev)
<1>1. StopOf(ev) = StopOf(old) /\ (Reconciled(r, ev) <=> Reconciled(q, old))
  BY DEF Grown, Alike, StopOf, Basis, Reconciled, Reported
<1> QED BY <1>1 DEF Grown, Alike, Doubted

\* A verified document says what a recorder without doubts and a clean journal say.
LEMMA VerifiedFacts ==
  ASSUME NEW c, IsRecorder(c), NEW requested, NEW ev, ev.source = "udp",
         Document(c, requested, ev).status = "verified"
  PROVE  ~Doubted(c, ev) /\ ev.journal.state = "clean" /\ Document(c, requested, ev).records = ev.journal.datagrams
<1> DEFINE prov == ProvenanceCodes(c, ev)
           doc == Document(c, requested, ev)
<1>1. Verified(c, ev) /\ ~Incomplete(prov) /\ doc.records = c.records
  BY DEF Document
<1>2. c.events = <<>>
  <2>1. {c.events[i].type : i \in DOMAIN c.events} = {}
    BY <1>1 DEF Verified, Codes
  <2>2. c.events = [i \in 1..Len(c.events) |-> c.events[i]] /\ Len(c.events) \in Nat
    BY DEF IsRecorder, IsSeq
  <2>3. DOMAIN c.events = 1..Len(c.events)
    BY <2>2
  <2>4. Len(c.events) = 0
    <3>1. ASSUME Len(c.events) # 0  PROVE FALSE
      <4>1. 1 \in DOMAIN c.events
        BY <2>2, <2>3, <3>1
      <4> QED BY <2>1, <4>1
    <3> QED BY <3>1
  <2> QED BY <2>2, <2>4
<1>3. ~Doubted(c, ev)
  BY <1>1, <1>2 DEF Verified, LogComplete, Doubted
<1>4. "udp-bridge-journal-unavailable" \notin prov /\ "udp-bridge-journal-incomplete" \notin prov
      /\ "udp-bridge-journal-counter-mismatch" \notin prov
  BY <1>1 DEF Incomplete
<1>5. ev.journal.state # "none"
  BY <1>4 DEF ProvenanceCodes
<1>6. ev.journal.state = "clean"
  BY <1>4, <1>5 DEF ProvenanceCodes
<1>7. <<ev.journal.datagrams, ev.journal.datagrams>> = <<c.records, c.bytes>>
  BY <1>4, <1>5 DEF ProvenanceCodes
<1> QED BY <1>1, <1>3, <1>6, <1>7


\* An attempt to finalise keeps what speaks against the session, and a document it verifies agrees
\* with a clean journal.
LEMMA AttemptFacts ==
  ASSUME NEW x, IsDialog(x), NEW duration, NEW ev, IsEvidence(ev)
  PROVE  LET a == Attempt(x, duration, ev) IN
         /\ IsDialog(a.d) /\ Same(a.d, x, {"rec", "pc", "limitEvent", "ctx"}) /\ a.d.pc = "idle"
         /\ IsEvidence(a.d.ctx[2]) /\ a.d.ctx[2].journal = ev.journal
         /\ Doubted(x.rec, ev) => Doubted(a.d.rec, a.d.ctx[2])
         /\ a.ok /\ a.doc.status = "verified" =>
              ~Doubted(x.rec, ev) /\ ev.journal.state = "clean" /\ a.doc.records = ev.journal.datagrams
<1> DEFINE a == Attempt(x, duration, ev)
           capped == duration > MaxDuration
           requested == IF capped THEN MaxDuration ELSE duration
           e == Event("capture-limit", Session, <<"duration">>)
           limited == IF capped /\ ~x.limitEvent THEN AppendEvent(x.rec, e, TRUE) ELSE x.rec
           codes == IF capped THEN ev.codes \cup {"duration-capped"} ELSE ev.codes
           offset == IF ev.stopOffset < requested THEN ev.stopOffset ELSE requested
           evidence == [ev EXCEPT !.codes = codes, !.stopOffset = offset]
           may == MayFinalize(limited, requested, evidence)
           closed == IF may THEN Closed(limited, evidence) ELSE limited
           noted == x.limitEvent \/ (capped /\ Len(limited.events) > Len(x.rec.events))
           y == [x EXCEPT !.rec = closed, !.pc = "idle", !.limitEvent = noted]
           z == IF x.rec.records = 0 THEN [x EXCEPT !.pc = "idle", !.ctx = <<duration, ev>>]
                ELSE [y EXCEPT !.ctx = <<requested, evidence>>]
<1>1. /\ a.doc = Document(closed, requested, evidence) /\ a.d = z
      /\ a.ok => may /\ Accepted(Document(closed, requested, evidence))
  <2>1. evidence = [ev EXCEPT !.codes = IF capped THEN @ \cup {"duration-capped"} ELSE @,
                              !.stopOffset = IF @ < requested THEN @ ELSE requested]
    BY Zenon DEF IsEvidence
  <2>2. y = [x EXCEPT !.rec = closed, !.pc = "idle", !.limitEvent =
               @ \/ (capped /\ Len(limited.events) > Len(x.rec.events))]
    BY Zenon
  <2> HIDE DEF evidence, y
  <2> QED BY <2>1, <2>2 DEF Attempt
<1>2. IsEvidence(evidence) /\ Alike(evidence, ev)
  <2>1. PICK c, o : c = codes /\ o = offset
    OBVIOUS
  <2>2. evidence = [ev EXCEPT !.codes = c, !.stopOffset = o]
    BY <2>1
  <2> HIDE DEF evidence
  <2> QED BY <2>2 DEF IsEvidence, Alike
<1>3. IsRecorder(x.rec) /\ x.limitEvent \in BOOLEAN
  BY DEF IsDialog
<1>4. IsRecorder(limited) /\ Grown(limited, x.rec)
  <2>1. PICK q : q = x.rec
    OBVIOUS
  <2>2. limited = q \/ limited = AppendEvent(q, e, TRUE)
    BY <2>1
  <2> HIDE DEF limited, e
  <2>3. IsRecorder(limited) /\ Grown(limited, q)
    BY <1>3, <2>1, <2>2, TerminalGrows
  <2> QED BY <2>1, <2>3
<1> HIDE DEF limited, evidence, requested, may
<1>5. IsRecorder(closed) /\ Grown(closed, limited)
  <2>1. PICK q, v : q = limited /\ v = evidence
    OBVIOUS
  <2>2. Grown(Closed(q, v), q) /\ Grown(q, q)
    BY <1>4, <2>1, ClosedGrows DEF Grown
  <2> QED BY <2>1, <2>2 DEF Grown
<1>6. Grown(closed, x.rec)
  BY <1>4, <1>5, GrownTrans
<1> HIDE DEF closed
<1>7. noted \in BOOLEAN
  BY <1>3
<1> HIDE DEF noted
<1>8. CASE x.rec.records = 0
  <2>1. z = [x EXCEPT !.pc = "idle", !.ctx = <<duration, ev>>]
    BY <1>8
  <2>2. Same(z, x, {"pc", "ctx"}) /\ z.pc = "idle" /\ z.ctx = <<duration, ev>>
    BY <2>1 DEF IsDialog, Same, Fields
  <2> HIDE DEF z
  <2>3. IsDialog(z)
    BY <2>2 DEF IsDialog, Same, Fields
  <2>4. z.rec = x.rec
    BY <2>2 DEF Same, Fields
  <2>5. ~may
    <3>1. limited.records = 0
      BY <1>4, <1>8 DEF Grown
    <3> QED BY <3>1 DEF may, MayFinalize
  <2>6. Same(z, x, {"rec", "pc", "limitEvent", "ctx"}) /\ z.ctx[2] = ev
    BY <2>2 DEF Same
  <2> HIDE DEF a
  <2> QED BY <1>1, <2>2, <2>3, <2>4, <2>5, <2>6 DEF a
<1>9. CASE x.rec.records # 0
  <2>1. Same(y, x, {"rec", "pc", "limitEvent"}) /\ y.rec = closed /\ y.pc = "idle" /\ y.limitEvent = noted
    BY DEF IsDialog, Same, Fields
  <2> HIDE DEF y
  <2>2. z = [y EXCEPT !.ctx = <<requested, evidence>>]
    BY <1>9
  <2>3. Same(z, y, {"ctx"}) /\ z.ctx = <<requested, evidence>>
    BY <2>1, <2>2 DEF Same, Fields
  <2> HIDE DEF z
  <2>4. z.rec = closed /\ z.pc = "idle" /\ z.limitEvent = noted /\ z.ctx[2] = evidence
    BY <2>1, <2>3 DEF Same, Fields
  <2>5. Same(z, x, {"rec", "pc", "limitEvent", "ctx"})
    BY <2>1, <2>3 DEF Same
  <2>6. IsDialog(z)
    BY <1>5, <1>7, <2>4, <2>5 DEF IsDialog, Same, Fields
  <2>7. evidence.journal = ev.journal /\ evidence.source = "udp"
    BY <1>2 DEF Alike, IsEvidence
  <2>8. Doubted(x.rec, ev) => Doubted(closed, evidence)
    <3>1. PICK q : q = x.rec
      OBVIOUS
    <3> QED BY <1>2, <1>6, <3>1, DoubtGrows
  <2>9. a.doc.status = "verified" =>
          ~Doubted(closed, evidence) /\ evidence.journal.state = "clean" /\ a.doc.records = evidence.journal.datagrams
    BY <1>1, <1>5, <2>7, VerifiedFacts
  <2> HIDE DEF a
  <2> QED BY <1>1, <1>2, <2>4, <2>5, <2>6, <2>7, <2>8, <2>9 DEF a
<1> QED BY <1>8, <1>9

\* What finalizing the recorder of x with evidence ev has led to.
Finished(x, ev) ==
  /\ IsDialog(d') /\ Same(d', x, {"rec", "pc", "limitEvent", "ctx", "phase", "hasRec"}) /\ d'.pc = "idle"
  /\ \/ /\ d'.phase = "finalize-error" /\ d'.hasRec = x.hasRec /\ saved' = saved
        /\ IsEvidence(d'.ctx[2]) /\ d'.ctx[2].journal = ev.journal
        /\ Doubted(x.rec, ev) => Doubted(d'.rec, d'.ctx[2])
     \/ /\ d'.phase \in {"saved", "save-error"} /\ ~d'.hasRec
        /\ saved'.cap = x.owned /\ saved'.reason = x.reason
        /\ saved'.status = "verified" =>
             ~Doubted(x.rec, ev) /\ ev.journal.state = "clean" /\ saved'.doc.records = ev.journal.datagrams

LEMMA FinishFacts ==
  ASSUME NEW x, IsDialog(x), NEW duration, NEW ev, IsEvidence(ev), Finish(x, duration, ev)
  PROVE  Finished(x, ev)
<1> DEFINE a == Attempt(x, duration, ev)
<1>1. /\ IsDialog(a.d) /\ Same(a.d, x, {"rec", "pc", "limitEvent", "ctx"}) /\ a.d.pc = "idle"
      /\ IsEvidence(a.d.ctx[2]) /\ a.d.ctx[2].journal = ev.journal
      /\ Doubted(x.rec, ev) => Doubted(a.d.rec, a.d.ctx[2])
      /\ a.ok /\ a.doc.status = "verified" =>
           ~Doubted(x.rec, ev) /\ ev.journal.state = "clean" /\ a.doc.records = ev.journal.datagrams
  BY AttemptFacts
<1> HIDE DEF a
<1>2. \/ /\ a.ok
         /\ \E phase \in {"saved", "save-error"} :
              /\ d' = [a.d EXCEPT !.phase = phase, !.hasRec = FALSE, !.rec = NewRecorder, !.ctx = <<>>]
              /\ saved' = [cap |-> x.owned, status |-> a.doc.status, reason |-> x.reason, doc |-> a.doc]
      \/ d' = [a.d EXCEPT !.phase = "finalize-error"] /\ saved' = saved
  BY Zenon DEF Finish, a
<1>3. PICK u : u = a.d
  OBVIOUS
<1>4. CASE d' = [u EXCEPT !.phase = "finalize-error"] /\ saved' = saved
  <2>1. Same(d', u, {"phase"}) /\ d'.phase = "finalize-error"
    BY <1>1, <1>3, <1>4 DEF IsDialog, Same, Fields
  <2>2. d'.pc = u.pc /\ d'.hasRec = u.hasRec /\ d'.rec = u.rec /\ d'.ctx = u.ctx /\ u.hasRec = x.hasRec
    BY <1>1, <1>3, <2>1 DEF Same, Fields
  <2>3. Same(d', x, {"rec", "pc", "limitEvent", "ctx", "phase", "hasRec"})
    BY <1>1, <1>3, <2>1 DEF Same
  <2>4. IsDialog(d')
    <3>1. PICK v : v = d'
      OBVIOUS
    <3>2. IsDialog(u) /\ Same(v, u, {"phase"})
      BY <1>1, <1>3, <2>1, <3>1
    <3>3. IsDialog(v)
      BY <3>2 DEF IsDialog, Same, Fields
    <3> QED BY <3>1, <3>3
  <2> QED BY <1>1, <1>3, <1>4, <2>1, <2>2, <2>3, <2>4 DEF Finished
<1>5. ASSUME NEW phase \in {"saved", "save-error"}, a.ok,
             d' = [u EXCEPT !.phase = phase, !.hasRec = FALSE, !.rec = NewRecorder, !.ctx = <<>>],
             saved' = [cap |-> x.owned, status |-> a.doc.status, reason |-> x.reason, doc |-> a.doc]
      PROVE  Finished(x, ev)
  <2>1. /\ Same(d', u, {"phase", "hasRec", "rec", "ctx"})
        /\ d'.phase = phase /\ d'.hasRec = FALSE /\ d'.rec = NewRecorder
    BY <1>1, <1>3, <1>5 DEF IsDialog, Same, Fields
  <2>2. d'.pc = u.pc
    BY <2>1 DEF Same, Fields
  <2>3. Same(d', x, {"rec", "pc", "limitEvent", "ctx", "phase", "hasRec"})
    BY <1>1, <1>3, <2>1 DEF Same
  <2>4. IsDialog(d')
    <3>1. PICK v : v = d'
      OBVIOUS
    <3>2. IsDialog(u) /\ Same(v, u, {"phase", "hasRec", "rec", "ctx"}) /\ v.hasRec = FALSE /\ v.rec = NewRecorder
      BY <1>1, <1>3, <2>1, <3>1
    <3>3. IsRecorder(v.rec)
      BY <3>2, NewRecorderFacts
    <3>4. IsDialog(v)
      BY <3>2, <3>3 DEF IsDialog, Same, Fields
    <3> QED BY <3>1, <3>4
  <2> QED BY <1>1, <1>3, <1>5, <2>1, <2>2, <2>3, <2>4 DEF Finished
<1> QED BY <1>2, <1>3, <1>4, <1>5


-----------------------------------------------------------------------------
(* The end of a recording *)

LEMMA EvidenceFacts ==
  ASSUME NEW x, NEW duration
  PROVE  LET ev == Evidence(x, duration) IN
         /\ IsEvidence(ev) /\ ev.journal = x.journal /\ ev.complete = x.logOk
         /\ ev.observed = <<x.units, x.units>> /\ ev.reported = x.reported
         /\ x.stop # "confirmed" => StopOf(ev) # "confirmed"
<1> DEFINE ev == Evidence(x, duration)
<1>1. /\ IsEvidence(ev) /\ ev.journal = x.journal /\ ev.complete = x.logOk
      /\ ev.observed = <<x.units, x.units>> /\ ev.reported = x.reported
      /\ ev.stop = IF x.stop = "not-observed" THEN "unconfirmed" ELSE x.stop
  BY DEF Evidence, IsEvidence
<1> HIDE DEF ev
<1>2. x.stop # "confirmed" => StopOf(ev) # "confirmed"
  BY <1>1 DEF StopOf
<1> QED BY <1>1, <1>2 DEF ev

\* The recording of x is over: discarded, finalised with the journal of x, or refused.
Changed == {"rec", "pc", "limitEvent", "ctx", "phase", "hasRec", "reason", "closed", "stop", "verified",
            "reported", "client", "logOk", "pendEvents"}
Outcome(x, journal) ==
  \/ d' = Ready /\ saved' = saved
  \/ /\ IsDialog(d') /\ Same(d', x, Changed) /\ d'.pc = "idle"
     /\ \/ /\ d'.phase = "finalize-error" /\ d'.hasRec = x.hasRec /\ saved' = saved
           /\ IsEvidence(d'.ctx[2]) /\ d'.ctx[2].journal = journal
           /\ d'.reason => Doubted(d'.rec, d'.ctx[2])
        \/ /\ d'.phase \in {"saved", "save-error"} /\ ~d'.hasRec /\ saved'.cap = x.owned
           /\ saved'.status = "verified" =>
                ~saved'.reason /\ journal.state = "clean" /\ saved'.doc.records = journal.datagrams
Over(x) == stream' = "off" /\ sse' = <<>> /\ Outcome(x, x.journal)

\* y is x at the end of its stop, and the doubts about it are recorded.
LEMMA OverFacts ==
  ASSUME NEW x, NEW y, IsDialog(y), Same(y, x, Changed \ {"hasRec", "phase", "ctx", "pc"}), NEW duration, NEW ev,
         IsEvidence(ev), ev.journal = y.journal, y.reason => Doubted(y.rec, ev),
         stream' = "off", sse' = <<>>, Finish(y, duration, ev)
  PROVE  Over(x)
<1>1. Finished(y, ev)
  BY FinishFacts
<1>2. y.journal = x.journal /\ y.owned = x.owned /\ y.hasRec = x.hasRec
  BY DEF Same, Fields, Changed
<1>3. Same(d', x, Changed)
  BY <1>1 DEF Finished, Same, Changed
<1>4. d'.phase = "finalize-error" => d'.reason = y.reason
  BY <1>1 DEF Finished, Same, Fields
<1> QED BY <1>1, <1>2, <1>3, <1>4 DEF Finished, Over, Outcome

\* The stop was answered, and the datagrams are there or were waited for.
LEMMA StoppedFacts ==
  ASSUME NEW x, IsDialog(x), x.hasRec, Counted(x), Suspect(x) => Doubtful(x),
         x.final \in Statuses, x.final.err = "none" \/ x.keys # {}, Stopped(x)
  PROVE  Over(x)
<1> DEFINE after == AfterDrain(x)
           holds == IntegrityHolds(x)
           y == [after EXCEPT !.reason = @ \/ ~holds]
           ev == Evidence(y, y.verified)
           n == x.final.datagrams
           F == {"closed", "reported", "client", "verified", "stop"}
<1>1. stream' = "off" /\ sse' = <<>> /\ ((d' = Ready /\ saved' = saved) \/ Finish(y, y.verified, ev))
  BY Zenon DEF Stopped, Disconnect
<1>2. n \in Nat /\ x.final.dur \in Int
  BY DEF Statuses
<1>3. Same(after, x, F) /\ after.closed = TRUE /\ after.reported = <<n, n>>
      /\ after.stop = (IF x.final.state = "stopped" THEN "confirmed" ELSE "unconfirmed")
  BY DEF AfterDrain, IsDialog, Same, Fields
<1>4. after.verified \in Int
  <2> DEFINE S == {1, x.frozen, x.lastKept + 1}
             base == Top(S)
             end == x.final.dur + (IF n > 0 THEN 1 ELSE 0)
             T == {base, end}
  <2>1. x.frozen \in Int /\ x.lastKept \in Int
    BY DEF IsDialog
  <2>2. base \in Int
    <3>1. S \subseteq Int /\ \E z \in S : \A v \in S : v <= z
      BY <2>1
    <3> HIDE DEF S
    <3> QED BY <3>1, TopFacts
  <2>3. end \in Int
    BY <1>2
  <2> HIDE DEF base, end
  <2>4. T \subseteq Int /\ \E z \in T : \A v \in T : v <= z
    BY <2>2, <2>3
  <2>5. after.verified = Top(T)
    BY DEF AfterDrain, IsDialog, Fields, base, end
  <2> HIDE DEF T
  <2> QED BY <2>4, <2>5, TopFacts
<1> HIDE DEF after
<1>5. /\ after.logOk = x.logOk /\ after.rec = x.rec /\ after.units = x.units /\ after.reason = x.reason
      /\ after.hasRec = x.hasRec /\ after.journal = x.journal
  BY <1>3 DEF Same, Fields
<1>6. IsDialog(after)
  BY <1>3, <1>4 DEF IsDialog, Same, Fields
<1>7. Same(y, after, {"reason"}) /\ y.reason = (after.reason \/ ~holds)
  <2> HIDE DEF holds
  <2> QED BY <1>6 DEF IsDialog, Same, Fields
<1> HIDE DEF y, holds
<1>8. /\ y.logOk = x.logOk /\ y.rec = x.rec /\ y.units = x.units /\ y.journal = x.journal
      /\ y.reported = after.reported /\ y.stop = after.stop
  BY <1>5, <1>7 DEF Same, Fields
<1>9. IsDialog(y)
  <2>1. y.reason \in BOOLEAN
    BY <1>7
  <2> QED BY <1>6, <1>7, <2>1 DEF IsDialog, Same, Fields
<1>10. Same(y, x, Changed \ {"hasRec", "phase", "ctx", "pc"})
  BY <1>3, <1>7 DEF Same, Changed
<1>11. /\ IsEvidence(ev) /\ ev.journal = y.journal /\ ev.complete = y.logOk
       /\ ev.observed = <<y.units, y.units>> /\ ev.reported = y.reported
       /\ y.stop # "confirmed" => StopOf(ev) # "confirmed"
  BY EvidenceFacts
<1> HIDE DEF ev
<1>12. Reported(ev) = <<n, n>>
  BY <1>2, <1>3, <1>8, <1>11 DEF Reported, NotReported, Null
<1>13. ASSUME y.reason  PROVE Doubted(y.rec, ev)
  <2>1. ASSUME Suspect(x)  PROVE Doubted(y.rec, ev)
    <3>1. x.rec.events # <<>> \/ ~x.logOk
      BY <2>1 DEF Doubtful
    <3> QED BY <1>8, <1>11, <3>1 DEF Doubted
  <2>2. CASE x.reason
    BY <2>1, <2>2 DEF Suspect
  <2>3. CASE ~holds /\ ~x.reason
    <3>1. CASE x.final.state # "stopped"
      BY <1>3, <1>8, <1>11, <3>1 DEF Doubted
    <3>2. CASE x.final.err \in Fatal
      BY <2>1, <3>2 DEF Suspect, Fatal
    <3>3. CASE x.units # n
      <4>1. ev.observed # Reported(ev)
        BY <1>8, <1>11, <1>12, <3>3
      <4> QED BY <1>11, <4>1 DEF Doubted, Reconciled, IsEvidence
    <3>4. CASE x.rec.records # x.units
      <4>1. <<y.rec.records, y.rec.bytes>> # ev.observed
        BY <1>8, <1>11, <3>4
      <4> QED BY <1>11, <4>1 DEF Doubted, Reconciled, IsEvidence
    <3>5. CASE x.seqIssue
      BY <2>1, <3>5 DEF Suspect
    <3>6. CASE ~x.seqIssue /\ x.units = n /\ x.seq # n - 1
      BY <3>6 DEF Counted
    <3> QED BY <2>3, <3>1, <3>2, <3>3, <3>4, <3>5, <3>6 DEF holds, IntegrityHolds
  <2>4. x.reason \/ ~holds
    BY <1>5, <1>7, <1>13
  <2> QED BY <2>2, <2>3, <2>4
<1>14. CASE d' = Ready /\ saved' = saved
  BY <1>1, <1>14 DEF Over, Outcome
<1>15. CASE Finish(y, y.verified, ev)
  <2>1. PICK duration : duration = y.verified
    OBVIOUS
  <2>2. Finish(y, duration, ev)
    BY <1>15, <2>1
  <2> QED BY <1>1, <1>9, <1>10, <1>11, <1>13, <2>2, OverFacts
<1> QED BY <1>1, <1>14, <1>15

\* The stop threw.
LEMMA StopThrewFacts ==
  ASSUME NEW x, IsDialog(x), StopThrew(x)
  PROVE  Over(x)
<1> DEFINE z == [x EXCEPT !.stop = "unconfirmed", !.closed = TRUE, !.reason = TRUE]
           e == Event("shutdown-unconfirmed", Session, <<>>)
           y == RecordEvent(z, e)
           duration == Top({x.frozen, x.verified, x.lastKept + 1})
           ev == Evidence(y, duration)
<1>1. stream' = "off" /\ sse' = <<>> /\ ((d' = Ready /\ saved' = saved) \/ Finish(y, duration, ev))
  BY Zenon DEF StopThrew, Disconnect
<1>2. Same(z, x, {"stop", "closed", "reason"}) /\ z.stop = "unconfirmed" /\ z.closed = TRUE /\ z.reason = TRUE
  BY DEF IsDialog, Same, Fields
<1> HIDE DEF z, e, duration
<1>3. IsDialog(z)
  BY <1>2 DEF IsDialog, Same, Fields
<1>4. IsDialog(y) /\ Same(y, z, {"rec", "logOk", "limitEvent", "pendEvents"})
  BY <1>3, RecordFacts
<1> HIDE DEF y
<1>5. y.stop = "unconfirmed"
  BY <1>2, <1>4 DEF Same, Fields
<1>6. Same(y, x, Changed \ {"hasRec", "phase", "ctx", "pc"})
  BY <1>2, <1>4 DEF Same, Changed
<1>7. IsEvidence(ev) /\ ev.journal = y.journal /\ StopOf(ev) # "confirmed"
  BY <1>5, EvidenceFacts
<1> HIDE DEF ev
<1>8. Doubted(y.rec, ev)
  BY <1>7 DEF Doubted
<1>9. CASE d' = Ready /\ saved' = saved
  BY <1>1, <1>9 DEF Over, Outcome
<1>10. CASE Finish(y, duration, ev)
  <2>1. PICK u : u = duration
    OBVIOUS
  <2>2. Finish(y, u, ev)
    BY <1>10, <2>1
  <2> QED BY <1>1, <1>4, <1>6, <1>7, <1>8, <2>2, OverFacts
<1> QED BY <1>1, <1>9, <1>10


-----------------------------------------------------------------------------
(* What the page is told is what became of the captures *)

SseOk == IsSeq(sse) /\ \A i \in 1..Len(sse) : Told(sse[i])
CallOk ==
  /\ call.at = "answered" => Honest(call.ans)
  /\ call.op = "start" /\ call.at = "answered" /\ call.ok => call.ans.cap # 0
ZeroOk == bridge.cap = 0 => ~bridge.ended

\* No input is sampled from a capture that has not begun.
UnsampledOk == \A c \in 1..MaxCaptures : c > made.captures => ~truth[c].sampled

HonestInv == SseOk /\ CallOk /\ ZeroOk /\ UnsampledOk

\* What became of a capture stays.
Keeps ==
  /\ made.captures <= made'.captures
  /\ \A c \in 1..made.captures :
       truth[c].ended => /\ truth'[c].ended /\ (truth'[c].dirty <=> truth[c].dirty)
                         /\ truth'[c].datagrams = truth[c].datagrams
SampledKept == \A c \in 1..MaxCaptures : truth'[c].sampled = truth[c].sampled

LEMMA TruthfulStays ==
  ASSUME LifeInv, LifeInv', Keeps, NEW cap, NEW journal, Truthful(cap, journal)
  PROVE  Truthful(cap, journal)'
<1>1. made.captures \in Nat /\ made'.captures \in Nat
  BY DEF LifeInv, LinkTyped
<1> QED BY <1>1 DEF Truthful, Keeps

LEMMA HonestStays ==
  ASSUME LifeInv, LifeInv', Keeps, NEW st, Honest(st)
  PROVE  Honest(st)'
<1>1. made.captures \in Nat /\ made'.captures \in Nat /\ st.cap \in Nat
  BY DEF LifeInv, LinkTyped, Honest, Statuses
<1>2. PICK cap, journal : cap = st.cap /\ journal = st.journal
  OBVIOUS
<1>3. Truthful(cap, journal)'
  BY <1>2, TruthfulStays DEF Honest
<1>4. st.cap <= made'.captures
  BY <1>1 DEF Honest, Keeps
<1> QED BY <1>2, <1>3, <1>4 DEF Honest

LEMMA ToldStays ==
  ASSUME LifeInv, LifeInv', Keeps, NEW m, Told(m)
  PROVE  Told(m)'
<1>1. PICK st : st = m.st
  OBVIOUS
<1>2. Honest(st) => Honest(st)'
  BY HonestStays
<1> QED BY <1>1, <1>2 DEF Told

\* The status of a bridge whose capture, if it ended cleanly, is told as it was.
LEMMA StatusTold ==
  ASSUME NEW b \in Bridges, now \in Int, LifeInv', b.cap <= made'.captures,
         b.ended /\ ~b.dirty =>
           b.cap # 0 /\ truth'[b.cap].ended /\ ~truth'[b.cap].dirty /\ truth'[b.cap].datagrams = b.datagrams
  PROVE  \E st : st = StatusOf(b) /\ Honest(st)' /\ st.state = b.state /\ st.cap = b.cap
<1>1. DurationOf(b) \in Int
  BY DEF DurationOf, Bridges
<1>2. PICK time : time = DurationOf(b)
  OBVIOUS
<1>3. PICK journal :
        journal = [state |-> IF ~b.ended THEN "active" ELSE IF b.dirty THEN "incomplete" ELSE "clean",
                   datagrams |-> b.datagrams, tail |-> b.tail, ended |-> b.ended, drops |-> b.drops]
  OBVIOUS
<1>4. /\ journal \in Journals /\ journal.datagrams = b.datagrams
      /\ journal.state = "clean" => b.ended /\ ~b.dirty
  BY <1>3 DEF Journals, Bridges
<1>5. PICK st : st = [state |-> b.state, cap |-> b.cap, datagrams |-> b.datagrams, dur |-> time, err |-> b.err,
                      journal |-> journal]
  OBVIOUS
<1>6. st = StatusOf(b)
  BY <1>2, <1>3, <1>5 DEF StatusOf
<1>7. st \in Statuses /\ st.state = b.state /\ st.cap = b.cap /\ st.journal = journal
  BY <1>1, <1>2, <1>4, <1>5 DEF Statuses, Bridges
<1>8. b.cap \in Nat /\ made'.captures \in Nat
  BY DEF Bridges, LifeInv, LinkTyped
<1>9. Truthful(b.cap, journal)'
  BY <1>4, <1>8 DEF Truthful
<1> QED BY <1>6, <1>7, <1>9 DEF Honest

LEMMA BridgeTold ==
  ASSUME now \in Int, LifeInv', ZeroOk', NEW b, bridge' = b
  PROVE  b \in Bridges /\ \E st : st = StatusOf(b) /\ Honest(st)' /\ st.state = b.state /\ st.cap = b.cap
<1>1. b \in Bridges /\ b.cap <= made'.captures
  BY DEF LifeInv, LinkTyped, CaptureInv
<1>2. b.ended /\ ~b.dirty =>
        b.cap # 0 /\ truth'[b.cap].ended /\ ~truth'[b.cap].dirty /\ truth'[b.cap].datagrams = b.datagrams
  BY DEF LifeInv, CaptureInv, ZeroOk
<1> QED BY <1>1, <1>2, StatusTold

\* The messages a bridge sends.
LEMMA ToldMessages ==
  /\ Told(Lost)' /\ \A e : Told(Error(e))'
  /\ \A b : (\E st : st = StatusOf(b) /\ Honest(st)') => \E m : m = Status(b) /\ Told(m)'
<1>1. ASSUME NEW b, NEW st, st = StatusOf(b), Honest(st)'
      PROVE  \E m : m = Status(b) /\ Told(m)'
  <2>1. PICK m : m = [k |-> "status", st |-> st]
    OBVIOUS
  <2>2. m = Status(b) /\ m.k = "status" /\ m.st = st
    BY <1>1, <2>1 DEF Status
  <2> QED BY <1>1, <2>2 DEF Told
<1>2. Told(Lost)' /\ \A e : Told(Error(e))'
  BY DEF Told, Lost, Error
<1> QED BY <1>1, <1>2

\* Messages are sent to a page that is connected.
LEMMA SseGrows ==
  ASSUME LifeInv, LifeInv', Keeps, SseOk, NEW old, IsSeq(old), \A i \in 1..Len(old) : Told(old[i]),
         NEW ms, IsSeq(ms), \A i \in 1..Len(ms) : Told(ms[i])', sse' = old \o ms
  PROVE  SseOk'
<1>1. /\ IsSeq(old \o ms)
      /\ \A i \in 1..Len(old \o ms) : \/ \E j \in 1..Len(old) : (old \o ms)[i] = old[j]
                                      \/ \E j \in 1..Len(ms) : (old \o ms)[i] = ms[j]
  BY ConcatTo
<1>2. ASSUME NEW i \in 1..Len(old \o ms)  PROVE Told((old \o ms)[i])'
  <2>1. CASE \E j \in 1..Len(old) : (old \o ms)[i] = old[j]
    <3>1. PICK m : m = (old \o ms)[i] /\ Told(m)
      BY <2>1
    <3> QED BY <3>1, ToldStays
  <2>2. CASE \E j \in 1..Len(ms) : (old \o ms)[i] = ms[j]
    BY <2>2
  <2> QED BY <1>1, <2>1, <2>2
<1>3. PICK s : s = old \o ms
  OBVIOUS
<1>4. sse' = s /\ IsSeq(s) /\ \A i \in 1..Len(s) : Told(s[i])'
  BY <1>1, <1>2, <1>3
<1> QED BY <1>4 DEF SseOk

LEMMA SseStays ==
  ASSUME LifeInv, LifeInv', Keeps, SseOk, sse' = sse
  PROVE  SseOk'
<1>1. PICK s : s = sse
  OBVIOUS
<1>2. ASSUME NEW i \in 1..Len(s)  PROVE Told(s[i])'
  <2>1. PICK m : m = s[i]
    OBVIOUS
  <2>2. Told(m)
    BY <1>1, <2>1 DEF SseOk
  <2> QED BY <2>1, <2>2, ToldStays
<1> QED BY <1>1, <1>2 DEF SseOk

LEMMA BroadcastTold ==
  ASSUME LifeInv, LifeInv', Keeps, SseOk, NEW ms, IsSeq(ms), \A i \in 1..Len(ms) : Told(ms[i])', Broadcast(ms)
  PROVE  SseOk'
<1>1. CASE sse' = sse
  BY <1>1, SseStays
<1>2. CASE sse' = sse \o ms
  <2>1. PICK old : old = sse
    OBVIOUS
  <2> QED BY <1>2, <2>1, SseGrows DEF SseOk
<1> QED BY <1>1, <1>2 DEF Broadcast

LEMMA CallStays ==
  ASSUME LifeInv, LifeInv', Keeps, CallOk, call' = call
  PROVE  CallOk'
<1>1. PICK st : st = call.ans
  OBVIOUS
<1>2. call.at = "answered" => Honest(st)'
  BY <1>1, HonestStays DEF CallOk
<1> QED BY <1>1, <1>2 DEF CallOk

LEMMA AnswerOk ==
  ASSUME IsCall(call), NEW ok, NEW b, call' = Answer(ok, b), \E st : st = StatusOf(b) /\ Honest(st)' /\ st.cap = b.cap,
         call.op = "start" /\ ok => b.cap # 0
  PROVE  CallOk'
<1>1. PICK st : st = StatusOf(b) /\ Honest(st)' /\ st.cap = b.cap
  OBVIOUS
<1>2. call'.at = "answered" /\ call'.ans = st /\ call'.ok = ok /\ call'.op = call.op
  BY <1>1 DEF Answer, IsCall
<1> QED BY <1>1, <1>2 DEF CallOk


LEMMA KeepsEnd ==
  ASSUME LifeInv, NEW b \in Bridges, bridge.state = "capturing", SetWithTruth(b), made' = made,
         b.cap = bridge.cap
  PROVE  Keeps /\ SampledKept /\ b.cap # 0
<1>1. /\ b.cap \in 1..MaxCaptures /\ b.cap # 0 /\ made.captures \in Nat /\ made.captures <= MaxCaptures
      /\ ~truth[b.cap].ended
  BY OpenFacts DEF LifeInv, LinkTyped, CaptureInv
<1>2. /\ \A c \in 1..MaxCaptures : c # b.cap => truth'[c] = truth[c]
      /\ \A c \in 1..MaxCaptures : truth'[c].sampled = truth[c].sampled
  BY <1>1, TruthFollows DEF LifeInv
<1>3. \A c \in 1..made.captures : c \in 1..MaxCaptures
  BY <1>1, LinkAssumption
<1> QED BY <1>1, <1>2, <1>3 DEF Keeps, SampledKept

LEMMA KeepsBegin ==
  ASSUME LifeInv, NEW n \in Int, SetWithTruth(Capturing(n)), made' = [made EXCEPT !.captures = @ + 1],
         made.captures < MaxCaptures
  PROVE  Keeps /\ SampledKept
<1>1. PICK b : b = Capturing(n)
  OBVIOUS
<1>2. b \in Bridges /\ b.cap = made.captures + 1 /\ SetWithTruth(b)
  BY <1>1, CapturingTyped DEF LifeInv
<1>3. made.captures \in Nat /\ made'.captures = made.captures + 1 /\ b.cap \in 1..MaxCaptures
  BY <1>2, LinkAssumption DEF LifeInv, LinkTyped
<1>4. /\ \A c \in 1..MaxCaptures : c # b.cap => truth'[c] = truth[c]
      /\ \A c \in 1..MaxCaptures : truth'[c].sampled = truth[c].sampled
  BY <1>2, <1>3, TruthFollows DEF LifeInv
<1>5. \A c \in 1..made.captures : c \in 1..MaxCaptures /\ c # b.cap
  BY <1>2, <1>3, LinkAssumption
<1> QED BY <1>3, <1>4, <1>5 DEF Keeps, SampledKept

LEMMA KeepsSame ==
  ASSUME LifeInv, truth' = truth, made'.captures = made.captures
  PROVE  Keeps /\ SampledKept
<1>1. made.captures \in Nat
  BY DEF LifeInv, LinkTyped
<1> QED BY <1>1 DEF Keeps, SampledKept

\* The four parts of a step.
LEMMA HonestFrom ==
  ASSUME HonestInv, LifeInv, LifeInv', Keeps, SampledKept, SseOk', CallOk', ZeroOk'
  PROVE  HonestInv' /\ Keeps /\ SampledKept
<1>1. made.captures \in Nat /\ made'.captures \in Nat
  BY DEF LifeInv, LinkTyped
<1>2. UnsampledOk'
  BY <1>1 DEF HonestInv, UnsampledOk, Keeps, SampledKept
<1> QED BY <1>2 DEF HonestInv

\* One message, or two.
LEMMA ToldList ==
  ASSUME NEW u, NEW m, Told(u)', Told(m)'
  PROVE  /\ \E ms : ms = <<m>> /\ IsSeq(ms) /\ \A i \in 1..Len(ms) : Told(ms[i])'
         /\ \E ms : ms = <<u, m>> /\ IsSeq(ms) /\ \A i \in 1..Len(ms) : Told(ms[i])'
<1>1. PICK one, two : one = <<m>> /\ two = <<u, m>>
  OBVIOUS
<1>2. IsSeq(one) /\ \A i \in 1..Len(one) : one[i] = m
  BY <1>1, Messages
<1>3. IsSeq(two) /\ \A i \in 1..Len(two) : two[i] = u \/ two[i] = m
  <2>1. IsSeq(<<u, m>>) /\ \A i \in 1..Len(<<u, m>>) : <<u, m>>[i] = u \/ <<u, m>>[i] = m
    BY Messages, Zenon
  <2> QED BY <1>1, <2>1, Zenon
<1>4. ASSUME NEW i \in 1..Len(one)  PROVE Told(one[i])'
  <2>1. one[i] = m
    BY <1>2
  <2> QED BY <2>1
<1>5. ASSUME NEW i \in 1..Len(two)  PROVE Told(two[i])'
  <2>1. two[i] = u \/ two[i] = m
    BY <1>3
  <2> QED BY <2>1
<1> QED BY <1>1, <1>2, <1>3, <1>4, <1>5

LEMMA DatagramHonest == UdpInv /\ HonestInv /\ Datagram => HonestInv' /\ Keeps /\ SampledKept
<1> SUFFICES ASSUME UdpInv, HonestInv, Datagram PROVE HonestInv' /\ Keeps /\ SampledKept
  OBVIOUS
<1> DEFINE b == [bridge EXCEPT !.datagrams = @ + 1]
           m == [k |-> "datagram", cap |-> b.cap, seq |-> bridge.datagrams, at |-> DurationOf(bridge)]
<1>1. /\ bridge.state = "capturing" /\ SetWithTruth(b) /\ made' = made /\ call' = call /\ Broadcast(<<m>>)
  BY DEF Datagram
<1>2. LifeInv' /\ LifeInv
  BY CountStep DEF UdpInv
<1>3. b \in Bridges /\ b.cap = bridge.cap /\ bridge' = b
  BY <1>1, OpenFacts DEF Bridges, UdpInv, SetWithTruth, Set
<1> HIDE DEF b
<1>4. Keeps /\ SampledKept /\ b.cap # 0
  BY <1>1, <1>2, <1>3, KeepsEnd
<1>5. PICK u : u = m
  OBVIOUS
<1>6. Told(u)'
  <2>1. b.cap \in Nat /\ bridge.datagrams \in Nat /\ DurationOf(bridge) \in Int
    BY <1>2, <1>3, DurationTyped DEF Bridges, LifeInv, LinkTyped
  <2>2. u.k = "datagram" /\ u.cap = b.cap /\ u.seq = bridge.datagrams /\ u.at = DurationOf(bridge)
    BY <1>5
  <2> QED BY <2>1, <2>2 DEF Told, IsDatagram
<1>7. SseOk'
  <2>1. PICK ms : ms = <<u>> /\ IsSeq(ms) /\ \A i \in 1..Len(ms) : Told(ms[i])'
    BY <1>6, ToldList
  <2> HIDE DEF m
  <2> QED BY <1>1, <1>2, <1>4, <1>5, <2>1, BroadcastTold DEF HonestInv
<1>8. CallOk'
  BY <1>1, <1>2, <1>4, CallStays DEF HonestInv
<1>9. ZeroOk'
  BY <1>3, <1>4 DEF ZeroOk
<1> QED BY <1>2, <1>4, <1>7, <1>8, <1>9, HonestFrom

\* Two messages, an error and the status of the bridge.
LEMMA PairTold ==
  ASSUME LifeInv, LifeInv', Keeps, SseOk, ZeroOk', now \in Int, NEW b, bridge' = b, NEW e,
         Broadcast(<<Error(e), Status(b)>>)
  PROVE  SseOk'
<1>1. \E st : st = StatusOf(b) /\ Honest(st)'
  BY BridgeTold
<1>2. PICK m : m = Status(b) /\ Told(m)'
  BY <1>1, ToldMessages
<1>3. PICK u : u = Error(e) /\ Told(u)'
  BY ToldMessages
<1>4. PICK ms : ms = <<u, m>> /\ IsSeq(ms) /\ \A i \in 1..Len(ms) : Told(ms[i])'
  BY <1>2, <1>3, ToldList
<1> QED BY <1>2, <1>3, <1>4, BroadcastTold

\* One message, the status of the bridge.
LEMMA StatusSent ==
  ASSUME LifeInv, LifeInv', Keeps, SseOk, ZeroOk', now \in Int, NEW b, bridge' = b, Broadcast(<<Status(b)>>)
  PROVE  SseOk'
<1>1. \E st : st = StatusOf(b) /\ Honest(st)'
  BY BridgeTold
<1>2. PICK m : m = Status(b) /\ Told(m)'
  BY <1>1, ToldMessages
<1>3. PICK ms : ms = <<m>> /\ IsSeq(ms) /\ \A i \in 1..Len(ms) : Told(ms[i])'
  BY <1>2, ToldList
<1> QED BY <1>2, <1>3, BroadcastTold

LEMMA SocketHonest == UdpInv /\ HonestInv /\ SocketFails => HonestInv' /\ Keeps /\ SampledKept
<1> SUFFICES ASSUME UdpInv, HonestInv, SocketFails PROVE HonestInv' /\ Keeps /\ SampledKept
  OBVIOUS
<1> DEFINE e == Ended(bridge, TRUE)
           b == [e EXCEPT !.state = "error", !.err = "socket", !.drops = -1]
<1>1. /\ bridge.state = "capturing" /\ SetWithTruth(b) /\ made' = made /\ call' = call
      /\ Broadcast(<<Error("socket"), Status(b)>>)
  BY DEF SocketFails
<1>2. LifeInv' /\ LifeInv
  BY FailStep DEF UdpInv
<1>3. e \in Bridges /\ e.cap = bridge.cap /\ e.ended
  BY <1>1, <1>2, OpenFacts, DurationTyped, EndedTyped DEF LifeInv
<1> HIDE DEF e
<1>4. PICK c : c = b
  OBVIOUS
<1>5. bridge' = c
  BY <1>1, <1>4 DEF SetWithTruth, Set
<1>6. c \in Bridges
  BY <1>2, <1>5 DEF LifeInv, LinkTyped
<1>7. c.cap = bridge.cap
  BY <1>3, <1>4 DEF Bridges
<1> HIDE DEF b
<1>8. Keeps /\ SampledKept /\ c.cap # 0
  BY <1>1, <1>2, <1>4, <1>6, <1>7, KeepsEnd
<1>9. ZeroOk'
  BY <1>5, <1>8 DEF ZeroOk
<1>10. PICK err : err = "socket"
  OBVIOUS
<1>11. SseOk'
  <2>1. now \in Int
    BY <1>2 DEF LifeInv, LinkTyped
  <2> QED BY <1>1, <1>2, <1>4, <1>5, <1>8, <1>9, <1>10, <2>1, PairTold DEF HonestInv
<1>12. CallOk'
  BY <1>1, <1>2, <1>8, CallStays DEF HonestInv
<1> QED BY <1>2, <1>8, <1>9, <1>11, <1>12, HonestFrom

LEMMA ForeignHonest == UdpInv /\ HonestInv /\ ForeignStart => HonestInv' /\ Keeps /\ SampledKept
<1> SUFFICES ASSUME UdpInv, HonestInv, ForeignStart PROVE HonestInv' /\ Keeps /\ SampledKept
  OBVIOUS
<1>1. /\ made.captures + 1 < MaxCaptures /\ SetWithTruth(Capturing(Foreign))
      /\ made' = [made EXCEPT !.captures = @ + 1] /\ call' = call /\ Broadcast(<<Status(Capturing(Foreign))>>)
  BY DEF ForeignStart
<1>2. LifeInv' /\ LifeInv /\ LinkTyped
  BY ForeignStep DEF UdpInv, LifeInv
<1>3. PICK n \in Int : n = Foreign
  BY DEF Foreign
<1>4. made.captures < MaxCaptures
  BY <1>1, <1>2, LinkAssumption DEF LinkTyped
<1>5. Keeps /\ SampledKept
  BY <1>1, <1>2, <1>3, <1>4, KeepsBegin
<1>6. PICK c : c = Capturing(n)
  OBVIOUS
<1>7. bridge' = c /\ c.cap = made.captures + 1 /\ c.cap # 0
  <2>1. Capturing(n).cap = made.captures + 1
    BY <1>2, CapturingTyped
  <2>2. made.captures + 1 # 0
    BY <1>2 DEF LinkTyped
  <2> QED BY <1>1, <1>3, <1>6, <2>1, <2>2 DEF SetWithTruth, Set
<1>8. ZeroOk'
  BY <1>7 DEF ZeroOk
<1>9. SseOk'
  BY <1>1, <1>2, <1>3, <1>5, <1>6, <1>7, <1>8, StatusSent DEF HonestInv, LinkTyped
<1>10. CallOk'
  BY <1>1, <1>2, <1>5, CallStays DEF HonestInv
<1> QED BY <1>2, <1>5, <1>8, <1>9, <1>10, HonestFrom

LEMMA OpensHonest == UdpInv /\ HonestInv /\ Opens => HonestInv' /\ Keeps /\ SampledKept
<1> SUFFICES ASSUME UdpInv, HonestInv, Opens PROVE HonestInv' /\ Keeps /\ SampledKept
  OBVIOUS
<1> DEFINE b == Capturing(bridge.starting)
<1>1. /\ made.captures < MaxCaptures /\ SetWithTruth(b)
      /\ made' = [made EXCEPT !.captures = @ + 1] /\ Broadcast(<<Status(b)>>)
      /\ call' = IF Waiting THEN Answer(TRUE, b) ELSE call
  BY DEF Opens
<1>2. LifeInv' /\ LifeInv /\ LinkTyped
  BY OpensStep DEF UdpInv, LifeInv
<1>3. PICK n \in Int : n = bridge.starting
  BY <1>2 DEF LinkTyped, Bridges
<1>4. Keeps /\ SampledKept
  BY <1>1, <1>2, <1>3, KeepsBegin
<1>5. PICK c : c = Capturing(n)
  OBVIOUS
<1>6. bridge' = c /\ c.cap = made.captures + 1 /\ c.cap # 0
  <2>1. Capturing(n).cap = made.captures + 1
    BY <1>2, CapturingTyped
  <2>2. made.captures + 1 # 0
    BY <1>2 DEF LinkTyped
  <2> QED BY <1>1, <1>3, <1>5, <2>1, <2>2 DEF SetWithTruth, Set
<1> HIDE DEF b
<1>7. c = b
  BY <1>3, <1>5 DEF b
<1>8. ZeroOk'
  BY <1>6 DEF ZeroOk
<1>9. SseOk'
  BY <1>1, <1>2, <1>4, <1>6, <1>7, <1>8, StatusSent DEF HonestInv, LinkTyped
<1>10. CallOk'
  <2>1. CASE Waiting
    <3>1. PICK ok : ok = TRUE
      OBVIOUS
    <3>2. call' = Answer(ok, c)
      BY <1>1, <1>7, <2>1, <3>1
    <3>3. \E st : st = StatusOf(c) /\ Honest(st)' /\ st.cap = c.cap
      BY <1>2, <1>6, <1>8, BridgeTold DEF LinkTyped
    <3> QED BY <1>6, <3>2, <3>3, AnswerOk DEF UdpInv, AttendInv, CallInv
  <2>2. CASE ~Waiting
    BY <1>1, <1>2, <1>4, <2>2, CallStays DEF HonestInv
  <2> QED BY <2>1, <2>2
<1> QED BY <1>2, <1>4, <1>8, <1>9, <1>10, HonestFrom


LEMMA RestartHonest == UdpInv /\ HonestInv /\ BridgeRestarts => HonestInv' /\ Keeps /\ SampledKept
<1> SUFFICES ASSUME UdpInv, HonestInv, BridgeRestarts PROVE HonestInv' /\ Keeps /\ SampledKept
  OBVIOUS
<1>1. /\ bridge' = Idle /\ made' = made
      /\ truth' = IF bridge.cap = 0 \/ bridge.ended THEN truth
                  ELSE [truth EXCEPT ![bridge.cap].ended = TRUE, ![bridge.cap].dirty = TRUE]
      /\ sse' = sse \/ sse' = Append(sse, Lost)
      /\ call' = IF call.at = "sent" THEN [call EXCEPT !.at = "failed"] ELSE call
  BY Zenon DEF BridgeRestarts, Set
<1>2. LifeInv' /\ LifeInv
  BY RestartStep DEF UdpInv
<1>3. made.captures \in Nat /\ made.captures <= MaxCaptures /\ truth \in [1..MaxCaptures -> Truths]
  BY <1>2 DEF LifeInv, LinkTyped, CaptureInv
<1>4. Keeps /\ SampledKept
  <2>1. CASE bridge.cap = 0 \/ bridge.ended
    BY <1>1, <1>2, <2>1, KeepsSame
  <2>2. CASE bridge.cap # 0 /\ ~bridge.ended
    <3> DEFINE b == bridge.cap
               lost == [truth[b] EXCEPT !.ended = TRUE, !.dirty = TRUE]
    <3>1. bridge.state = "capturing"
      BY <1>2, <2>2 DEF LifeInv, CaptureInv
    <3>2. b \in 1..MaxCaptures /\ ~truth[b].ended
      BY <1>2, <2>2, <3>1, OpenFacts DEF LifeInv, CaptureInv
    <3>3. truth' = [truth EXCEPT ![b] = lost]
      BY <1>1, <1>3, <2>2, <3>2
    <3>4. lost.sampled = truth[b].sampled
      BY <1>3, <3>2 DEF Truths
    <3> HIDE DEF lost
    <3>5. \A c \in 1..MaxCaptures : truth'[c].sampled = truth[c].sampled /\ (c # b => truth'[c] = truth[c])
      BY <1>3, <3>2, <3>3, <3>4
    <3>6. \A c \in 1..made.captures : c \in 1..MaxCaptures
      BY <1>3, LinkAssumption
    <3> QED BY <1>1, <1>3, <3>2, <3>5, <3>6 DEF Keeps, SampledKept
  <2> QED BY <2>1, <2>2
<1>5. SseOk'
  <2>1. CASE sse' = sse
    BY <1>2, <1>4, <2>1, SseStays DEF HonestInv
  <2>2. CASE sse' = Append(sse, Lost)
    <3>1. PICK old : old = sse
      OBVIOUS
    <3>2. PICK e : e = Lost /\ Told(e)'
      BY ToldMessages
    <3>3. IsSeq(old) /\ \A i \in 1..Len(old) : Told(old[i])
      BY <3>1 DEF HonestInv, SseOk
    <3>4. PICK s : s = Append(old, e)
      OBVIOUS
    <3>5. /\ IsSeq(s) /\ Len(s) = Len(old) + 1 /\ s[Len(old) + 1] = e /\ Len(old) \in Nat
          /\ \A i \in 1..Len(old) : s[i] = old[i]
      BY <3>3, <3>4, AppendTo DEF IsSeq
    <3>6. ASSUME NEW i \in 1..Len(s)  PROVE Told(s[i])'
      <4>1. CASE i = Len(old) + 1
        <5>1. s[i] = e
          BY <3>5, <4>1
        <5> QED BY <3>2, <5>1
      <4>2. CASE i \in 1..Len(old)
        <5>1. PICK m : m = old[i]
          OBVIOUS
        <5>2. Told(m) /\ s[i] = m
          BY <3>3, <3>5, <4>2, <5>1
        <5>3. Told(m)'
          BY <1>2, <1>4, <5>2, ToldStays
        <5> QED BY <5>2, <5>3
      <4> QED BY <3>5, <4>1, <4>2
    <3>7. sse' = s
      BY <2>2, <3>1, <3>2, <3>4
    <3> QED BY <3>5, <3>6, <3>7 DEF SseOk
  <2> QED BY <1>1, <2>1, <2>2
<1>6. CallOk'
  <2>1. CASE call.at = "sent"
    <3>1. call'.at = "failed"
      BY <1>1, <2>1 DEF UdpInv, AttendInv, CallInv, IsCall
    <3> QED BY <3>1 DEF CallOk
  <2>2. CASE call.at # "sent"
    BY <1>1, <1>2, <1>4, <2>2, CallStays DEF HonestInv
  <2> QED BY <2>1, <2>2
<1>7. ZeroOk'
  BY <1>1 DEF ZeroOk, Idle
<1> QED BY <1>2, <1>4, <1>5, <1>6, <1>7, HonestFrom

LEMMA CutHonest == UdpInv /\ HonestInv /\ StreamCut => HonestInv' /\ Keeps /\ SampledKept
<1> SUFFICES ASSUME UdpInv, HonestInv, StreamCut PROVE HonestInv' /\ Keeps /\ SampledKept
  OBVIOUS
<1> DEFINE b == [bridge EXCEPT !.err = "overflow", !.dirty = TRUE, !.tail = DurationOf(bridge)]
<1>1. PICK kept \in 0..Len(sse), overflow \in BOOLEAN :
        /\ overflow => bridge.state = "capturing"
        /\ sse' = SubSeq(sse, 1, kept) \o (IF overflow THEN <<Error("overflow"), Lost>> ELSE <<Lost>>)
        /\ IF overflow THEN SetWithTruth(b) ELSE UNCHANGED <<bridge, truth>>
  BY Zenon DEF StreamCut
<1>2. made' = made /\ call' = call
  BY Zenon DEF StreamCut
<1>3. LifeInv' /\ LifeInv
  BY CutStep DEF UdpInv
<1>4. Keeps /\ SampledKept /\ ZeroOk'
  <2>1. CASE ~overflow
    <3>1. truth' = truth /\ bridge' = bridge
      BY <1>1, <2>1
    <3> QED BY <1>2, <1>3, <3>1, KeepsSame DEF HonestInv, ZeroOk
  <2>2. CASE overflow
    <3>1. PICK c : c = b
      OBVIOUS
    <3>2. bridge.state = "capturing" /\ SetWithTruth(c) /\ bridge' = c
      BY <1>1, <2>2, <3>1 DEF SetWithTruth, Set
    <3>3. c \in Bridges
      BY <1>3, <3>2 DEF LifeInv, LinkTyped
    <3>4. c.cap = bridge.cap
      <4>1. bridge \in Bridges
        BY <1>3 DEF LifeInv, LinkTyped
      <4> QED BY <3>1, <4>1 DEF Bridges
    <3>5. Keeps /\ SampledKept /\ c.cap # 0
      BY <1>2, <1>3, <3>2, <3>3, <3>4, KeepsEnd
    <3> QED BY <3>2, <3>5 DEF ZeroOk
  <2> QED BY <2>1, <2>2
<1>5. SseOk'
  <2>1. PICK s, k : s = sse /\ k = kept
    OBVIOUS
  <2>2. IsSeq(s) /\ (\A i \in 1..Len(s) : Told(s[i])) /\ k \in 0..Len(s)
    BY <2>1 DEF HonestInv, SseOk
  <2>3. PICK old : old = SubSeq(s, 1, k)
    OBVIOUS
  <2>4. IsSeq(old) /\ \A i \in 1..Len(old) : \E j \in 1..Len(s) : old[i] = s[j]
    BY <2>2, <2>3, PrefixTo
  <2>5. \A i \in 1..Len(old) : Told(old[i])
    <3>1. ASSUME NEW i \in 1..Len(old)  PROVE Told(old[i])
      <4>1. PICK j \in 1..Len(s) : old[i] = s[j]
        BY <2>4
      <4> QED BY <2>2, <4>1
    <3> QED BY <3>1
  <2>6. PICK e : e = Lost /\ Told(e)'
    BY ToldMessages
  <2>7. PICK u : u = Error("overflow") /\ Told(u)'
    BY ToldMessages
  <2>8. PICK ms : ms = (IF overflow THEN <<u, e>> ELSE <<e>>) /\ IsSeq(ms) /\ \A i \in 1..Len(ms) : Told(ms[i])'
    BY <2>6, <2>7, ToldList
  <2>9. sse' = old \o ms
    BY <1>1, <2>1, <2>3, <2>6, <2>7, <2>8
  <2> QED BY <1>3, <1>4, <2>4, <2>5, <2>8, <2>9, SseGrows DEF HonestInv
<1>6. CallOk'
  BY <1>2, <1>3, <1>4, CallStays DEF HonestInv
<1> QED BY <1>3, <1>4, <1>5, <1>6, HonestFrom

LEMMA TickHonest == UdpInv /\ HonestInv /\ Tick => HonestInv' /\ Keeps /\ SampledKept
<1> SUFFICES ASSUME UdpInv, HonestInv, Tick PROVE HonestInv' /\ Keeps /\ SampledKept
  OBVIOUS
<1>1. UNCHANGED <<bridge, sse, call, made, truth>>
  BY DEF Tick
<1>2. LifeInv' /\ LifeInv
  BY TickKeys DEF UdpInv
<1>3. Keeps /\ SampledKept
  BY <1>1, <1>2, KeepsSame
<1> QED BY <1>1, <1>2, <1>3, SseStays, CallStays, HonestFrom DEF HonestInv, ZeroOk

LEMMA LostHonest == UdpInv /\ HonestInv /\ CallLost => HonestInv' /\ Keeps /\ SampledKept
<1> SUFFICES ASSUME UdpInv, HonestInv, CallLost PROVE HonestInv' /\ Keeps /\ SampledKept
  OBVIOUS
<1>1. UNCHANGED <<now, bridge, sse, made, truth>> /\ call' = [call EXCEPT !.at = "failed"]
  BY DEF CallLost
<1>2. LifeInv' /\ LifeInv
  BY <1>1, ClientQuiet DEF UdpInv
<1>3. Keeps /\ SampledKept
  BY <1>1, <1>2, KeepsSame
<1>4. CallOk'
  <2>1. call'.at = "failed"
    BY <1>1 DEF UdpInv, AttendInv, CallInv, IsCall
  <2> QED BY <2>1 DEF CallOk
<1> QED BY <1>1, <1>2, <1>3, <1>4, SseStays, HonestFrom DEF HonestInv, ZeroOk

LEMMA StatusHonest == UdpInv /\ HonestInv /\ ServeStatus => HonestInv' /\ Keeps /\ SampledKept
<1> SUFFICES ASSUME UdpInv, HonestInv, ServeStatus PROVE HonestInv' /\ Keeps /\ SampledKept
  OBVIOUS
<1>1. UNCHANGED <<now, bridge, sse, made, truth>> /\ call' = Answer(TRUE, bridge) /\ call.op = "status"
  BY DEF ServeStatus
<1>2. LifeInv' /\ LifeInv
  BY <1>1, ClientQuiet DEF UdpInv
<1>3. Keeps /\ SampledKept
  BY <1>1, <1>2, KeepsSame
<1>4. ZeroOk'
  BY <1>1 DEF HonestInv, ZeroOk
<1>5. CallOk'
  <2>1. PICK b, ok : b = bridge /\ ok = TRUE
    OBVIOUS
  <2>2. bridge' = b
    BY <1>1, <2>1
  <2>3. \E st : st = StatusOf(b) /\ Honest(st)' /\ st.cap = b.cap
    BY <1>2, <1>4, <2>2, BridgeTold DEF LifeInv, LinkTyped
  <2> QED BY <1>1, <2>1, <2>3, AnswerOk DEF UdpInv, AttendInv, CallInv
<1> QED BY <1>1, <1>2, <1>3, <1>4, <1>5, SseStays, HonestFrom DEF HonestInv

LEMMA StartHonest == UdpInv /\ HonestInv /\ ServeStart => HonestInv' /\ Keeps /\ SampledKept
<1> SUFFICES ASSUME UdpInv, HonestInv, ServeStart PROVE HonestInv' /\ Keeps /\ SampledKept
  OBVIOUS
<1> DEFINE b == [bridge EXCEPT !.state = "starting", !.starting = call.nonce, !.err = "none"]
<1>1. /\ made' = made /\ truth' = truth /\ now' = now
      /\ \/ bridge' = b /\ Broadcast(<<Status(b)>>) /\ call' = call
         \/ /\ bridge.state = "capturing" /\ bridge' = bridge /\ sse' = sse
            /\ call' = Answer(bridge.nonce = call.nonce, bridge)
  BY Zenon DEF ServeStart, Set
<1>2. LifeInv' /\ LifeInv
  <2>1. call.nonce \in Int
    BY DEF ServeStart, UdpInv, AttendInv, KeyInv, CallInv
  <2> QED BY <2>1, ServeStartStep DEF UdpInv
<1>3. bridge \in Bridges /\ now \in Int
  BY <1>2 DEF LifeInv, LinkTyped
<1>4. Keeps /\ SampledKept
  BY <1>1, <1>2, KeepsSame
<1>5. b.cap = bridge.cap /\ b.ended = bridge.ended
  BY <1>3 DEF Bridges
<1>6. ZeroOk'
  BY <1>1, <1>5 DEF HonestInv, ZeroOk
<1>7. CASE bridge' = b /\ Broadcast(<<Status(b)>>) /\ call' = call
  <2>1. PICK c : c = b
    OBVIOUS
  <2>2. bridge' = c /\ Broadcast(<<Status(c)>>)
    BY <1>7, <2>1
  <2>3. SseOk'
    BY <1>2, <1>3, <1>4, <1>6, <2>2, StatusSent DEF HonestInv
  <2>4. CallOk'
    BY <1>2, <1>4, <1>7, CallStays DEF HonestInv
  <2> QED BY <1>2, <1>4, <1>6, <2>3, <2>4, HonestFrom
<1>8. CASE bridge.state = "capturing" /\ bridge' = bridge /\ sse' = sse
           /\ call' = Answer(bridge.nonce = call.nonce, bridge)
  <2>1. PICK c, ok : c = bridge /\ ok = (bridge.nonce = call.nonce)
    OBVIOUS
  <2>2. bridge' = c /\ call' = Answer(ok, c) /\ c.cap # 0
    <3>1. Answer(bridge.nonce = call.nonce, bridge) = Answer(ok, c)
      BY <2>1
    <3>2. c.cap # 0
      BY <1>2, <1>8, <2>1 DEF LifeInv, CaptureInv
    <3> QED BY <1>8, <2>1, <3>1, <3>2
  <2>3. \E st : st = StatusOf(c) /\ Honest(st)' /\ st.cap = c.cap
    BY <1>2, <1>3, <1>6, <2>2, BridgeTold
  <2>4. CallOk'
    BY <2>2, <2>3, AnswerOk DEF UdpInv, AttendInv, CallInv
  <2> QED BY <1>2, <1>4, <1>6, <1>8, <2>4, SseStays, HonestFrom DEF HonestInv
<1> QED BY <1>1, <1>7, <1>8

LEMMA BindHonest == UdpInv /\ HonestInv /\ BindFails => HonestInv' /\ Keeps /\ SampledKept
<1> SUFFICES ASSUME UdpInv, HonestInv, BindFails PROVE HonestInv' /\ Keeps /\ SampledKept
  OBVIOUS
<1> DEFINE no == 0
           b == [bridge EXCEPT !.state = "error", !.starting = no, !.err = "bind"]
<1>1. /\ made' = made /\ truth' = truth /\ now' = now
      /\ bridge' = b /\ Broadcast(<<Error("bind"), Status(b)>>)
      /\ call' = IF Waiting THEN Answer(FALSE, b) ELSE call
  BY Zenon DEF BindFails, Set
<1>2. LifeInv' /\ LifeInv
  BY BindFailsStep DEF UdpInv
<1>3. bridge \in Bridges /\ now \in Int
  BY <1>2 DEF LifeInv, LinkTyped
<1>4. Keeps /\ SampledKept
  BY <1>1, <1>2, KeepsSame
<1> HIDE DEF no
<1>5. b.cap = bridge.cap /\ b.ended = bridge.ended
  BY <1>3 DEF Bridges
<1>6. ZeroOk'
  BY <1>1, <1>5 DEF HonestInv, ZeroOk
<1> HIDE DEF b
<1>7. PICK c, err : c = b /\ err = "bind"
  OBVIOUS
<1>8. bridge' = c /\ Broadcast(<<Error(err), Status(c)>>)
  BY <1>1, <1>7
<1>9. SseOk'
  BY <1>2, <1>3, <1>4, <1>6, <1>8, PairTold DEF HonestInv
<1>10. CallOk'
  <2>1. CASE Waiting
    <3>1. PICK ok : ok = FALSE
      OBVIOUS
    <3>2. call' = Answer(ok, c)
      BY <1>1, <1>7, <2>1, <3>1
    <3>3. \E st : st = StatusOf(c) /\ Honest(st)' /\ st.cap = c.cap
      BY <1>2, <1>3, <1>6, <1>8, BridgeTold
    <3> QED BY <3>1, <3>2, <3>3, AnswerOk DEF UdpInv, AttendInv, CallInv
  <2>2. CASE ~Waiting
    BY <1>1, <1>2, <1>4, <2>2, CallStays DEF HonestInv
  <2> QED BY <2>1, <2>2
<1> QED BY <1>2, <1>4, <1>6, <1>9, <1>10, HonestFrom


LEMMA ToldJoin ==
  ASSUME NEW s, NEW t, IsSeq(s), IsSeq(t), \A i \in 1..Len(s) : Told(s[i])', \A i \in 1..Len(t) : Told(t[i])'
  PROVE  \E u : u = s \o t /\ IsSeq(u) /\ \A i \in 1..Len(u) : Told(u[i])'
<1>1. PICK u : u = s \o t
  OBVIOUS
<1>2. /\ IsSeq(u)
      /\ \A i \in 1..Len(u) : (\E j \in 1..Len(s) : u[i] = s[j]) \/ (\E j \in 1..Len(t) : u[i] = t[j])
  BY <1>1, ConcatTo
<1>3. ASSUME NEW i \in 1..Len(u)  PROVE Told(u[i])'
  <2>1. CASE \E j \in 1..Len(s) : u[i] = s[j]
    BY <2>1
  <2>2. CASE \E j \in 1..Len(t) : u[i] = t[j]
    BY <2>2
  <2> QED BY <1>2, <2>1, <2>2
<1> QED BY <1>1, <1>2, <1>3

LEMMA StopHonest == UdpInv /\ HonestInv /\ ServeStop => HonestInv' /\ Keeps /\ SampledKept
<1> SUFFICES ASSUME UdpInv, HonestInv, ServeStop PROVE HonestInv' /\ Keeps /\ SampledKept
  OBVIOUS
<1> DEFINE early == [bridge EXCEPT !.state = "stopping"]
           Sent(leaveFails, b) == <<Status(early)>> \o (IF leaveFails THEN <<Error("leave")>> ELSE <<>>) \o <<Status(b)>>
<1>1. /\ made' = made /\ now' = now /\ call.op = "stop"
      /\ \/ /\ bridge.state = "capturing"
            /\ \E drops \in {0, 1}, leaveFails \in BOOLEAN :
                 /\ SetWithTruth(StoppedOf(drops, leaveFails))
                 /\ call' = Answer(TRUE, StoppedOf(drops, leaveFails))
                 /\ Broadcast(Sent(leaveFails, StoppedOf(drops, leaveFails)))
         \/ call' = Answer(bridge.cap = call.cap, bridge) /\ UNCHANGED <<bridge, sse, truth>>
  BY Zenon DEF ServeStop, StoppedOf, StoppingOf
<1>2. LifeInv' /\ LifeInv
  BY StopStep DEF UdpInv
<1>3. bridge \in Bridges /\ now \in Int
  BY <1>2 DEF LifeInv, LinkTyped
<1>4. CASE call' = Answer(bridge.cap = call.cap, bridge) /\ UNCHANGED <<bridge, sse, truth>>
  <2>1. Keeps /\ SampledKept
    BY <1>1, <1>2, <1>4, KeepsSame
  <2>2. ZeroOk'
    BY <1>4 DEF HonestInv, ZeroOk
  <2>3. PICK c, ok : c = bridge /\ ok = (bridge.cap = call.cap)
    OBVIOUS
  <2>4. bridge' = c /\ call' = Answer(ok, c)
    <3>1. Answer(bridge.cap = call.cap, bridge) = Answer(ok, c)
      BY <2>3
    <3> QED BY <1>4, <2>3, <3>1
  <2>5. \E st : st = StatusOf(c) /\ Honest(st)' /\ st.cap = c.cap
    BY <1>2, <1>3, <2>2, <2>4, BridgeTold
  <2>6. CallOk'
    BY <1>1, <2>4, <2>5, AnswerOk DEF UdpInv, AttendInv, CallInv
  <2> QED BY <1>2, <1>4, <2>1, <2>2, <2>6, SseStays, HonestFrom DEF HonestInv
<1>5. ASSUME bridge.state = "capturing", NEW drops \in {0, 1}, NEW leaveFails \in BOOLEAN,
             SetWithTruth(StoppedOf(drops, leaveFails)), call' = Answer(TRUE, StoppedOf(drops, leaveFails)),
             Broadcast(Sent(leaveFails, StoppedOf(drops, leaveFails)))
      PROVE  HonestInv' /\ Keeps /\ SampledKept
  <2>1. PICK c, ok : c = StoppedOf(drops, leaveFails) /\ ok = TRUE
    OBVIOUS
  <2>2. c \in Bridges /\ c.cap = bridge.cap /\ SetWithTruth(c) /\ bridge' = c
    BY <1>2, <1>5, <2>1, StoppedTyped DEF LifeInv, SetWithTruth, Set
  <2>3. Keeps /\ SampledKept /\ c.cap # 0
    BY <1>1, <1>2, <1>5, <2>2, KeepsEnd
  <2>4. ZeroOk'
    BY <2>2, <2>3 DEF ZeroOk
  <2>5. \E st : st = StatusOf(c) /\ Honest(st)' /\ st.cap = c.cap
    BY <1>2, <1>3, <2>2, <2>4, BridgeTold
  <2>6. CallOk'
    BY <1>1, <1>5, <2>1, <2>5, AnswerOk DEF UdpInv, AttendInv, CallInv
  <2>7. \E st : st = StatusOf(early) /\ Honest(st)'
    <3>1. PICK a : a = early
      OBVIOUS
    <3>2. "stopping" \in States
      BY DEF States
    <3>3. a \in Bridges
      BY <1>3, <3>1, <3>2 DEF Bridges
    <3>4. a.ended = bridge.ended /\ a.cap = bridge.cap
      BY <1>3, <3>1 DEF Bridges
    <3>5. ~bridge.ended /\ bridge.cap <= made'.captures
      BY <1>1, <1>2, <1>5 DEF LifeInv, CaptureInv
    <3> HIDE DEF early
    <3> QED BY <1>2, <1>3, <3>1, <3>3, <3>4, <3>5, StatusTold
  <2>8. PICK m1 : m1 = Status(early) /\ Told(m1)'
    BY <2>7, ToldMessages
  <2> HIDE DEF early
  <2>9. PICK m2 : m2 = Error("leave") /\ Told(m2)'
    BY ToldMessages
  <2>10. PICK m3 : m3 = Status(c) /\ Told(m3)'
    BY <2>5, ToldMessages
  <2>11. PICK s1 : s1 = <<m1>> /\ IsSeq(s1) /\ \A i \in 1..Len(s1) : Told(s1[i])'
    BY <2>8, ToldList
  <2>12. PICK s2 : s2 = (IF leaveFails THEN <<m2>> ELSE <<>>) /\ IsSeq(s2) /\ \A i \in 1..Len(s2) : Told(s2[i])'
    <3>1. CASE leaveFails
      <4>1. PICK s : s = <<m2>> /\ IsSeq(s) /\ \A i \in 1..Len(s) : Told(s[i])'
        BY <2>9, ToldList
      <4> QED BY <3>1, <4>1
    <3>2. CASE ~leaveFails
      <4>1. IsSeq(<<>>) /\ Len(<<>>) = 0
        BY Messages
      <4> QED BY <3>2, <4>1
    <3> QED BY <3>1, <3>2
  <2>13. PICK s3 : s3 = <<m3>> /\ IsSeq(s3) /\ \A i \in 1..Len(s3) : Told(s3[i])'
    BY <2>10, ToldList
  <2>14. PICK s4 : s4 = s1 \o s2 /\ IsSeq(s4) /\ \A i \in 1..Len(s4) : Told(s4[i])'
    BY <2>11, <2>12, ToldJoin
  <2>15. PICK s5 : s5 = s4 \o s3 /\ IsSeq(s5) /\ \A i \in 1..Len(s5) : Told(s5[i])'
    BY <2>13, <2>14, ToldJoin
  <2>16. Broadcast(s5)
    BY <1>5, <2>1, <2>8, <2>9, <2>10, <2>11, <2>12, <2>13, <2>14, <2>15
  <2>17. SseOk'
    BY <1>2, <2>3, <2>15, <2>16, BroadcastTold DEF HonestInv
  <2> QED BY <1>2, <2>3, <2>4, <2>6, <2>17, HonestFrom
<1> QED BY <1>1, <1>4, <1>5

\* The bridge, the network and the clock.
LEMMA LinkHonest ==
  UdpInv /\ HonestInv /\ LinkStep => UdpInv' /\ HonestInv' /\ Keeps /\ SampledKept
<1>1. UdpInv /\ LinkStep => UdpInv'
  BY NextUdp DEF Next
<1> QED BY <1>1, DatagramHonest, SocketHonest, ForeignHonest, RestartHonest, CutHonest, LostHonest, StatusHonest,
          StartHonest, OpensHonest, BindHonest, StopHonest, TickHonest DEF LinkStep, Serve, Surprise

\* The page asks, waits or goes on: nobody is told anything.
LEMMA PageHonest ==
  ASSUME LifeInv, LifeInv', HonestInv, truth' = truth, made'.captures = made.captures, bridge' = bridge,
         \/ sse' = sse \/ sse' = <<>> \/ (sse # <<>> /\ sse' = Tail(sse)),
         call' = call \/ call'.at # "answered"
  PROVE  HonestInv' /\ Keeps /\ SampledKept
<1>1. Keeps /\ SampledKept
  BY KeepsSame
<1>2. SseOk'
  <2>1. CASE sse' = sse
    BY <1>1, <2>1, SseStays DEF HonestInv
  <2>2. CASE sse' = <<>>
    <3>1. PICK s : s = <<>> /\ IsSeq(s) /\ Len(s) = 0
      BY Messages
    <3>2. ASSUME NEW i \in 1..Len(s)  PROVE Told(s[i])'
      BY <3>1
    <3> QED BY <2>2, <3>1, <3>2 DEF SseOk
  <2>3. CASE sse # <<>> /\ sse' = Tail(sse)
    <3>1. PICK s, t : s = sse /\ t = Tail(s)
      OBVIOUS
    <3>2. IsSeq(s) /\ s # <<>> /\ \A i \in 1..Len(s) : Told(s[i])
      BY <2>3, <3>1 DEF HonestInv, SseOk
    <3>3. IsSeq(t) /\ \A i \in 1..Len(t) : \E j \in 1..Len(s) : t[i] = s[j]
      BY <3>1, <3>2, TailTo
    <3>4. ASSUME NEW i \in 1..Len(t)  PROVE Told(t[i])'
      <4>1. PICK m : m = t[i]
        OBVIOUS
      <4>2. Told(m)
        BY <3>2, <3>3, <4>1
      <4> QED BY <1>1, <4>1, <4>2, ToldStays
    <3>5. sse' = t
      BY <2>3, <3>1
    <3> QED BY <3>3, <3>4, <3>5 DEF SseOk
  <2> QED BY <2>1, <2>2, <2>3
<1>3. CallOk'
  <2>1. CASE call' = call
    BY <1>1, <2>1, CallStays DEF HonestInv
  <2>2. CASE call'.at # "answered"
    BY <2>2 DEF CallOk
  <2> QED BY <2>1, <2>2
<1>4. ZeroOk'
  BY DEF HonestInv, ZeroOk
<1> QED BY <1>1, <1>2, <1>3, <1>4, HonestFrom


-----------------------------------------------------------------------------
(* Where the dialog is, and what it takes the bridge to be doing *)

\* The situations of the dialog.
AtRest == d = Ready /\ stream = "off"
Beginning ==
  /\ d.phase \in {"starting", "canceling"} /\ d.pc \in {"connect", "refresh", "start"} /\ d.cont = "none"
  /\ d.owned = 0 /\ ~d.hasRec /\ (d.cancelled <=> d.phase = "canceling")
  /\ d.purpose \in {"preflight", "recording"}
LettingGo ==
  /\ d.phase \in {"starting", "canceling"} /\ d.pc \in {"get", "stop"}
  /\ d.cont \in {"cancel", "beginRecording"} /\ d.owned # 0 /\ ~d.hasRec
Previewing ==
  /\ d.phase = "preflighting" /\ d.pc = "idle" /\ d.cont = "none"
  /\ d.owned # 0 /\ ~d.hasRec /\ d.purpose = "preflight"
Recording ==
  /\ d.phase = "capturing" /\ d.pc = "idle" /\ d.cont = "none"
  /\ d.owned # 0 /\ d.hasRec /\ d.purpose = "recording"
EndingPreview ==
  d.phase = "stopping" /\ d.pc \in {"get", "stop"} /\ d.cont = "stopPreflight" /\ d.owned # 0 /\ ~d.hasRec
EndingRecording ==
  /\ d.phase = "stopping" /\ d.pc \in {"get", "stop", "drain"} /\ d.cont \in {"save", "discard"}
  /\ d.owned # 0 /\ d.hasRec /\ d.purpose = "recording"
Leaving ==
  d.phase = "stopping" /\ d.pc \in {"get", "stop"} /\ d.cont = "leave" /\ d.owned # 0 /\ stream = "off"
Refused == d.phase = "finalize-error" /\ d.pc = "idle" /\ d.owned # 0 /\ d.hasRec /\ stream = "off"
Done == d.phase \in {"save-error", "saved"} /\ d.pc = "idle" /\ d.owned # 0 /\ ~d.hasRec /\ stream = "off"

PhaseInv ==
  \/ AtRest \/ Beginning \/ LettingGo \/ Previewing \/ Recording \/ EndingPreview \/ EndingRecording
  \/ Leaving \/ Refused \/ Done

\* The request in flight is the one that is awaited.
Asked(op) == call.op = op /\ call.at \in {"sent", "answered", "failed"}
CallPhase ==
  /\ d.pc \in {"idle", "connect", "drain"} => call = NoCall
  /\ d.pc \in {"refresh", "get"} => Asked("status")
  /\ d.pc = "start" => Asked("start")
  /\ d.pc = "stop" => Asked("stop")

\* The client holds the lease of the capture that the dialog owns.
Owning == d.phase \in {"preflighting", "capturing"} \/ (d.pc \in {"get", "stop"} /\ d.cont # "leave")
OwnedInv ==
  /\ Owning => owned.cap = d.owned /\ owned.nonce = recovery
  /\ Owning /\ d.pc = "stop" => call.cap = d.owned

\* The dialog's journal, and that of an evidence, are of the capture it owns.
JournalInv ==
  /\ d.owned <= made.captures /\ (d.owned = 0 => d.journal = NoJournal)
  /\ Truthful(d.owned, d.journal)
  /\ d.pc = "drain" => d.final \in Statuses
  /\ d.phase = "finalize-error" => IsEvidence(d.ctx[2]) /\ Truthful(d.owned, d.ctx[2].journal)

\* A recording never gets the capture of a preflight: its nonce is new.
FreshInv ==
  /\ d.hasRec => ~truth[d.owned].sampled
  /\ d.purpose = "recording" /\ d.pc = "connect" => recovery = 0
  /\ d.purpose = "recording" => d.pc # "refresh"
  /\ d.purpose = "recording" /\ d.pc = "start" =>
       /\ bridge.state = "capturing" /\ bridge.nonce # Foreign => ~truth[bridge.cap].sampled
       /\ call.at = "answered" /\ call.ok => ~truth[call.ans.cap].sampled

\* Without faults the bridge is where the dialog takes it to be.
Opened == bridge.state = "capturing" /\ bridge.cap = d.owned
Quiet == bridge.state \notin {"starting", "capturing"}
AttendedInv ==
  faults = 0 =>
    /\ call.at # "failed"
    /\ d.phase = "ready" \/ d.pc \in {"connect", "refresh"} => Quiet
    /\ d.pc = "start" =>
         /\ call.at = "sent" => bridge.state # "capturing"
         /\ call.at = "answered" /\ call.ok => bridge.state = "capturing" /\ bridge.cap = call.ans.cap
         /\ call.at = "answered" /\ ~call.ok => Quiet
    /\ d.phase \in {"preflighting", "capturing"} => Opened
    /\ d.pc = "get" /\ d.cont # "leave" =>
         /\ Opened
         /\ call.at = "answered" => call.ans.state = "capturing" /\ call.ans.cap = d.owned
    /\ d.pc = "stop" /\ d.cont # "leave" =>
         /\ call.at = "sent" => Opened
         /\ call.at = "answered" => call.ok /\ call.ans.state = "stopped" /\ call.ans.cap = d.owned /\ Quiet
    /\ d.pc = "drain" \/ d.phase \in {"finalize-error", "save-error", "saved"} \/ d.cont = "leave" => Quiet

\* Whatever the dialog has noticed is in the log, or the log is known to be incomplete.
DoubtInv ==
  /\ d.phase \notin {"finalize-error", "save-error", "saved"} /\ d.cont # "leave" =>
       Counted(d) /\ (Suspect(d) => Doubtful(d))
  /\ d.owned = 0 => d.keys = {} /\ ~d.seqIssue /\ d.units = 0 /\ d.seq = -1
  /\ d.pc = "drain" => d.final.err = "none" \/ d.keys # {}
  /\ d.phase = "finalize-error" => (d.reason => Doubted(d.rec, d.ctx[2]))

\* A session saved as verified is the whole of a capture that ended cleanly.
SavedInv ==
  saved.status = "verified" =>
    /\ ~saved.reason /\ saved.cap \in 1..made.captures
    /\ truth[saved.cap].ended /\ ~truth[saved.cap].dirty /\ saved.doc.records = truth[saved.cap].datagrams

DeskInv ==
  /\ IsDialog(d) /\ faults \in Nat
  /\ PhaseInv /\ CallPhase /\ OwnedInv /\ JournalInv /\ FreshInv /\ AttendedInv /\ DoubtInv /\ SavedInv


-----------------------------------------------------------------------------
(* The bridge, the network and the clock, as the dialog sees them *)

LEMMA ReadyFacts ==
  /\ IsDialog(Ready) /\ Ready.phase = "ready" /\ Ready.pc = "idle" /\ Ready.cont = "none"
  /\ Ready.owned = 0 /\ Ready.hasRec = FALSE /\ Ready.purpose = "none" /\ Ready.journal = NoJournal
  /\ Ready.keys = {} /\ Ready.seqIssue = FALSE /\ Ready.units = 0 /\ Ready.seq = -1 /\ Ready.reason = FALSE
<1>1. NoJournal \in Journals
  BY DEF NoJournal, Journals, Null
<1>2. IsSeq(<<>>) /\ Len(<<>>) = 0
  BY DEF IsSeq
<1>3. PICK x : x = Ready
  OBVIOUS
<1>4. /\ x = [f \in Fields |-> x[f]]
      /\ x.rec = NewRecorder /\ x.pendEvents = <<>> /\ x.pend = <<>> /\ x.owned = 0 /\ x.units = 0 /\ x.seq = -1
      /\ x.journal = NoJournal /\ x.frozen = -1 /\ x.last = 0 /\ x.lastKept = -1 /\ x.stDur = 0 /\ x.t0 = 0
      /\ x.verified = 0 /\ x.hasRec = FALSE /\ x.paused = FALSE /\ x.closed = FALSE /\ x.seqIssue = FALSE
      /\ x.limitEvent = FALSE /\ x.logOk = TRUE /\ x.reason = FALSE
      /\ x.phase = "ready" /\ x.pc = "idle" /\ x.cont = "none" /\ x.purpose = "none" /\ x.keys = {}
  BY <1>3 DEF Ready, Fields
<1>5. IsDialog(x)
  <2>1. IsSeq(x.pend) /\ \A i \in 1..Len(x.pend) : IsDatagram(x.pend[i])
    BY <1>2, <1>4
  <2>2. IsRecorder(x.rec) /\ IsSeq(x.pendEvents)
    BY <1>2, <1>4, NewRecorderFacts
  <2>3. /\ x.owned \in Nat /\ x.units \in Nat /\ x.seq \in Int /\ x.journal \in Journals
        /\ x.frozen \in Int /\ x.last \in Int /\ x.lastKept \in Int /\ x.stDur \in Int /\ x.t0 \in Int
        /\ x.verified \in Int
    BY <1>1, <1>4
  <2>4. /\ x.hasRec \in BOOLEAN /\ x.paused \in BOOLEAN /\ x.closed \in BOOLEAN /\ x.seqIssue \in BOOLEAN
        /\ x.limitEvent \in BOOLEAN /\ x.logOk \in BOOLEAN /\ x.reason \in BOOLEAN
    BY <1>4
  <2> QED BY <1>4, <2>1, <2>2, <2>3, <2>4 DEF IsDialog
<1> QED BY <1>3, <1>4, <1>5

LEMMA AnswerCap ==
  ASSUME IsCall(call), NEW ok, NEW b, call' = Answer(ok, b)
  PROVE  /\ call'.op = call.op /\ call'.cap = call.cap /\ call'.at = "answered" /\ call'.ok = ok
         /\ call'.ans.state = b.state /\ call'.ans.cap = b.cap
<1>1. StatusOf(b).state = b.state /\ StatusOf(b).cap = b.cap
  BY DEF StatusOf
<1> QED BY <1>1 DEF Answer, IsCall

\* The bridge goes on, has left its capture, serves another operator or has begun a new capture.
BridgeMoves ==
  \/ bridge'.state = bridge.state /\ bridge'.cap = bridge.cap /\ bridge'.nonce = bridge.nonce
  \/ bridge'.state # "capturing"
  \/ bridge'.nonce = Foreign
  \/ bridge'.cap = made.captures + 1
\* A request is answered once, or lost; a start that is granted names the capture of its nonce.
CallMoves ==
  \/ call' = call
  \/ /\ call'.op = call.op /\ call'.cap = call.cap
     /\ \/ call.at \in {"sent", "answered"} /\ call'.at = "failed"
        \/ /\ call.at = "sent" /\ call'.at = "answered"
           /\ call.op = "start" /\ call'.ok =>
                bridge'.state = "capturing" /\ bridge'.nonce # Foreign /\ call'.ans.cap = bridge'.cap
LinkMoves ==
  /\ UNCHANGED <<d, saved, owned, recovery>>
  /\ faults' \in Nat /\ (faults' = 0 => faults = 0)
  /\ stream = "off" => stream' = "off"
  /\ BridgeMoves /\ CallMoves

\* Every phase owns, records and waits as it should.
LEMMA PhaseFacts ==
  PhaseInv =>
    /\ d.pc = "start" => /\ d.phase \in {"starting", "canceling"} /\ d.cont = "none" /\ d.owned = 0 /\ ~d.hasRec
                         /\ (d.cancelled <=> d.phase = "canceling") /\ d.purpose \in {"preflight", "recording"}
    /\ d.hasRec => d.owned # 0
    /\ d.phase = "ready" => d = Ready
    /\ d.pc = "stop" \/ d.pc = "get" => d.phase \in {"starting", "canceling", "stopping"} /\ d.owned # 0
  BY ReadyFacts DEF PhaseInv, AtRest, Beginning, LettingGo, Previewing, Recording, EndingPreview,
    EndingRecording, Leaving, Refused, Done

LEMMA NoCallOp == NoCall.op = "none" /\ NoCall.at = "idle"
  BY DEF NoCall

\* What the dialog knows stays true, whatever the bridge does.
LEMMA LinkDesk ==
  ASSUME UdpInv, UdpInv', HonestInv, DeskInv, Keeps, SampledKept, LinkMoves, AttendedInv'
  PROVE  DeskInv'
<1>1. IsDialog(d)' /\ faults' \in Nat
  <2>1. PICK x : x = d
    OBVIOUS
  <2> QED BY <2>1 DEF LinkMoves, DeskInv
<1>2. PhaseInv'
  BY DEF LinkMoves, DeskInv, PhaseInv, AtRest, Beginning, LettingGo, Previewing, Recording, EndingPreview,
    EndingRecording, Leaving, Refused, Done
<1>3. CallPhase'
  BY NoCallOp DEF LinkMoves, CallMoves, DeskInv, CallPhase, Asked
<1>4. OwnedInv'
  BY DEF LinkMoves, CallMoves, DeskInv, OwnedInv, Owning
<1>5. /\ made.captures \in Nat /\ made'.captures \in Nat /\ made.captures <= made'.captures
      /\ made'.captures <= MaxCaptures /\ MaxCaptures \in Nat /\ d.owned \in Nat /\ d.owned <= made.captures
  BY LinkAssumption DEF UdpInv, LifeInv, LinkTyped, CaptureInv, Keeps, DeskInv, JournalInv, IsDialog
<1>6. JournalInv'
  <2>1. PICK x : x = d
    OBVIOUS
  <2>2. PICK cap, j, k : cap = x.owned /\ j = x.journal /\ k = x.ctx[2].journal
    OBVIOUS
  <2>3. /\ Truthful(cap, j) => Truthful(cap, j)'
        /\ Truthful(cap, k) => Truthful(cap, k)'
    BY TruthfulStays DEF UdpInv
  <2>4. d' = x
    BY <2>1 DEF LinkMoves
  <2> QED BY <1>5, <2>1, <2>2, <2>3, <2>4 DEF DeskInv, JournalInv
<1>7. FreshInv'
  <2>1. d.hasRec => ~truth'[d.owned].sampled
    BY <1>5, PhaseFacts DEF DeskInv, FreshInv, SampledKept
  <2>2. ASSUME d.purpose = "recording", d.pc = "start", bridge'.state = "capturing", bridge'.nonce # Foreign
        PROVE  ~truth'[bridge'.cap].sampled
    <3>1. bridge.cap \in Nat /\ bridge'.cap \in Nat
      BY DEF UdpInv, LifeInv, LinkTyped, Bridges
    <3>2. bridge'.cap # 0 /\ bridge'.cap \in 1..MaxCaptures
      BY <1>5, <2>2, <3>1 DEF UdpInv, LifeInv, CaptureInv
    <3>3. CASE bridge'.cap = made.captures + 1
      BY <1>5, <3>2, <3>3 DEF HonestInv, UnsampledOk, SampledKept
    <3>4. CASE bridge'.state = bridge.state /\ bridge'.cap = bridge.cap /\ bridge'.nonce = bridge.nonce
      BY <2>2, <3>2, <3>4 DEF DeskInv, FreshInv, SampledKept
    <3> QED BY <2>2, <3>3, <3>4 DEF LinkMoves, BridgeMoves
  <2>3. ASSUME d.purpose = "recording", d.pc = "start", call'.at = "answered", call'.ok
        PROVE  ~truth'[call'.ans.cap].sampled
    <3>1. call.op = "start"
      BY <2>3 DEF DeskInv, CallPhase, Asked
    <3>2. CASE call' = call
      <4>1. call.ans.cap \in 1..MaxCaptures
        <5>1. Honest(call.ans) /\ call.ans.cap # 0
          BY <2>3, <3>1, <3>2 DEF HonestInv, CallOk
        <5>2. call.ans.cap \in Nat /\ call.ans.cap <= made.captures
          BY <5>1 DEF Honest, Statuses
        <5> QED BY <1>5, <5>1, <5>2
      <4> QED BY <2>3, <3>2, <4>1 DEF DeskInv, FreshInv, SampledKept
    <3>3. CASE call.op = "start" /\ call'.ok =>
                 bridge'.state = "capturing" /\ bridge'.nonce # Foreign /\ call'.ans.cap = bridge'.cap
      BY <2>2, <2>3, <3>1, <3>3
    <3> QED BY <2>3, <3>2, <3>3 DEF LinkMoves, CallMoves
  <2> QED BY <2>1, <2>2, <2>3 DEF FreshInv, DeskInv, LinkMoves
<1>8. DoubtInv'
  <2>1. PICK x : x = d
    OBVIOUS
  <2>2. d' = x
    BY <2>1 DEF LinkMoves
  <2>3. DoubtInv
    BY DEF DeskInv
  <2> QED BY <2>1, <2>2, <2>3 DEF DoubtInv
<1>9. SavedInv'
  <2>1. SavedInv /\ saved' = saved
    BY DEF DeskInv, LinkMoves
  <2>2. saved.cap \in 1..made.captures => saved.cap \in 1..made'.captures
    BY <1>5
  <2> QED BY <2>1, <2>2 DEF SavedInv, Keeps
<1> QED BY <1>1, <1>2, <1>3, <1>4, <1>6, <1>7, <1>8, <1>9 DEF DeskInv


LEMMA FaultAttended == DeskInv /\ faults' = faults + 1 => faults' \in Nat /\ (faults' = 0 => faults = 0) /\ AttendedInv'
<1> SUFFICES ASSUME DeskInv, faults' = faults + 1
             PROVE  faults' \in Nat /\ (faults' = 0 => faults = 0) /\ AttendedInv'
  OBVIOUS
<1>1. faults \in Nat
  BY DEF DeskInv
<1>2. faults' \in Nat /\ faults' # 0
  BY <1>1
<1> QED BY <1>2 DEF AttendedInv

\* The steps that are faults.
FaultStep == SocketFails \/ ForeignStart \/ BridgeRestarts \/ StreamCut \/ CallLost
LEMMA FaultMoves == UdpInv /\ DeskInv /\ FaultStep /\ UNCHANGED <<d, saved>> => LinkMoves /\ AttendedInv'
<1> SUFFICES ASSUME UdpInv, DeskInv, FaultStep, UNCHANGED <<d, saved>>
             PROVE  LinkMoves /\ AttendedInv'
  OBVIOUS
<1>1. faults' = faults + 1 /\ UNCHANGED <<owned, recovery>> /\ (stream = "off" => stream' = "off")
  BY Zenon DEF FaultStep, SocketFails, ForeignStart, BridgeRestarts, StreamCut, CallLost, Fault
<1>2. faults' \in Nat /\ (faults' = 0 => faults = 0) /\ AttendedInv'
  BY <1>1, FaultAttended
<1>3. bridge \in Bridges /\ IsCall(call)
  BY DEF UdpInv, LifeInv, LinkTyped, AttendInv, CallInv
<1>4. BridgeMoves /\ CallMoves
  <2>1. CASE SocketFails
    <3> DEFINE e == Ended(bridge, TRUE)
    <3>1. bridge' = [e EXCEPT !.state = "error", !.err = "socket", !.drops = -1] /\ call' = call
      BY <2>1 DEF SocketFails, SetWithTruth, Set
    <3>2. e \in Bridges
      BY <1>3, TRUE \in BOOLEAN, EndedTyped, DurationTyped DEF UdpInv, LifeInv
    <3> HIDE DEF e
    <3>3. bridge'.state = "error"
      BY <3>1, <3>2 DEF Bridges
    <3> QED BY <3>1, <3>3 DEF BridgeMoves, CallMoves
  <2>2. CASE ForeignStart
    <3>1. bridge' = Capturing(Foreign) /\ call' = call
      BY <2>2 DEF ForeignStart, SetWithTruth, Set
    <3>2. bridge'.nonce = Foreign
      BY <3>1, CapturingKeys
    <3> QED BY <3>1, <3>2 DEF BridgeMoves, CallMoves
  <2>3. CASE BridgeRestarts
    <3>1. bridge' = Idle /\ (call' = call \/ (call.at = "sent" /\ call' = [call EXCEPT !.at = "failed"]))
      BY <2>3 DEF BridgeRestarts, Set
    <3>2. bridge'.state = "idle"
      BY <3>1 DEF Idle
    <3>3. CallMoves
      BY <1>3, <3>1 DEF CallMoves, IsCall
    <3> QED BY <3>2, <3>3 DEF BridgeMoves
  <2>4. CASE StreamCut
    <3> DEFINE time == DurationOf(bridge)
    <3>1. /\ call' = call
          /\ \/ bridge' = [bridge EXCEPT !.err = "overflow", !.dirty = TRUE, !.tail = time]
             \/ bridge' = bridge
      BY <2>4, Zenon DEF StreamCut, SetWithTruth, Set
    <3> HIDE DEF time
    <3>2. bridge'.state = bridge.state /\ bridge'.cap = bridge.cap /\ bridge'.nonce = bridge.nonce
      BY <1>3, <3>1 DEF Bridges
    <3> QED BY <3>1, <3>2 DEF BridgeMoves, CallMoves
  <2>5. CASE CallLost
    <3>1. call.at \in {"sent", "answered"} /\ bridge' = bridge /\ call' = [call EXCEPT !.at = "failed"]
      BY <2>5 DEF CallLost
    <3>2. call'.at = "failed" /\ call'.op = call.op /\ call'.cap = call.cap
      BY <1>3, <3>1 DEF IsCall
    <3> QED BY <3>1, <3>2 DEF BridgeMoves, CallMoves
  <2> QED BY <2>1, <2>2, <2>3, <2>4, <2>5 DEF FaultStep
<1> QED BY <1>1, <1>2, <1>4 DEF LinkMoves

\* Nothing moves that an attended capture depends on.
LEMMA CalmAttended ==
  ASSUME AttendedInv, UNCHANGED <<d, faults, call>>, bridge'.state = bridge.state, bridge'.cap = bridge.cap
  PROVE  AttendedInv'
  BY DEF AttendedInv, Quiet, Opened

LEMMA CalmMoves ==
  UdpInv /\ DeskInv /\ (Datagram \/ Tick) /\ UNCHANGED <<d, saved>> => LinkMoves /\ AttendedInv'
<1> SUFFICES ASSUME UdpInv, DeskInv, Datagram \/ Tick, UNCHANGED <<d, saved>>
             PROVE  LinkMoves /\ AttendedInv'
  OBVIOUS
<1>1. UNCHANGED <<owned, recovery, faults, call, stream>>
  BY Zenon DEF Datagram, Tick
<1>2. bridge'.state = bridge.state /\ bridge'.cap = bridge.cap /\ bridge'.nonce = bridge.nonce
  <2>1. bridge' = [bridge EXCEPT !.datagrams = @ + 1] \/ bridge' = bridge
    BY DEF Datagram, Tick, SetWithTruth, Set
  <2> QED BY <2>1 DEF UdpInv, LifeInv, LinkTyped, Bridges
<1>3. AttendedInv'
  BY <1>1, <1>2, CalmAttended DEF DeskInv
<1> QED BY <1>1, <1>2, <1>3 DEF LinkMoves, BridgeMoves, CallMoves, DeskInv

\* What the dialog awaits when it has asked for this.
LEMMA AwaitFacts ==
  DeskInv => /\ call.op = "status" => d.pc \in {"refresh", "get"}
             /\ call.op = "start" => d.pc = "start" /\ d.phase \in {"starting", "canceling"} /\ d.cont = "none"
             /\ call.op = "stop" => d.pc = "stop" /\ d.phase \in {"starting", "canceling", "stopping"}
             /\ d.pc \in {"refresh", "get"} =>
                  d.phase \in {"starting", "canceling", "stopping"} /\ (d.pc = "refresh" => d.cont # "leave")
<1>1. Ready.pc = "idle"
  BY ReadyFacts
<1>2. ASSUME DeskInv  PROVE d.pc \in {"idle", "connect", "drain", "refresh", "get", "start", "stop"}
  BY <1>1, <1>2 DEF DeskInv, PhaseInv, AtRest, Beginning, LettingGo, Previewing, Recording, EndingPreview,
    EndingRecording, Leaving, Refused, Done
<1>3. ASSUME DeskInv
      PROVE  /\ call.op = "status" => d.pc \in {"refresh", "get"}
             /\ call.op = "start" => d.pc = "start"
             /\ call.op = "stop" => d.pc = "stop"
  BY <1>2, <1>3, NoCallOp DEF DeskInv, CallPhase, Asked
<1> QED
  BY <1>1, <1>3 DEF DeskInv, PhaseInv, AtRest, Beginning, LettingGo, Previewing, Recording, EndingPreview,
    EndingRecording, Leaving, Refused, Done

LEMMA StatusMoves ==
  UdpInv /\ DeskInv /\ ServeStatus /\ UNCHANGED <<d, saved>> => LinkMoves /\ AttendedInv'
<1> SUFFICES ASSUME UdpInv, DeskInv, ServeStatus, UNCHANGED <<d, saved>>
             PROVE  LinkMoves /\ AttendedInv'
  OBVIOUS
<1>1. /\ UNCHANGED <<owned, recovery, faults, bridge, stream>>
      /\ call.op = "status" /\ call.at = "sent" /\ call' = Answer(TRUE, bridge)
  BY DEF ServeStatus
<1>2. /\ call'.op = call.op /\ call'.cap = call.cap /\ call'.at = "answered"
      /\ call'.ans.state = bridge.state /\ call'.ans.cap = bridge.cap
  BY <1>1, AnswerCap DEF UdpInv, AttendInv, CallInv
<1>3. d.pc \in {"refresh", "get"} /\ d.phase \in {"starting", "canceling", "stopping"}
  BY <1>1, AwaitFacts
<1>4. AttendedInv'
  BY <1>1, <1>2, <1>3 DEF DeskInv, AttendedInv, Quiet, Opened
<1> QED BY <1>1, <1>2, <1>4 DEF LinkMoves, BridgeMoves, CallMoves, DeskInv

LEMMA StartMoves ==
  UdpInv /\ DeskInv /\ ServeStart /\ UNCHANGED <<d, saved>> => LinkMoves /\ AttendedInv'
<1> SUFFICES ASSUME UdpInv, DeskInv, ServeStart, UNCHANGED <<d, saved>>
             PROVE  LinkMoves /\ AttendedInv'
  OBVIOUS
<1> DEFINE b == [bridge EXCEPT !.state = "starting", !.starting = call.nonce, !.err = "none"]
<1>1. /\ UNCHANGED <<owned, recovery, faults, stream>> /\ call.op = "start" /\ call.at = "sent"
      /\ \/ bridge' = b /\ call' = call
         \/ bridge.state = "capturing" /\ bridge' = bridge /\ call' = Answer(bridge.nonce = call.nonce, bridge)
  BY DEF ServeStart, Set
<1>2. b.state = "starting"
  BY DEF UdpInv, LifeInv, LinkTyped, Bridges
<1> HIDE DEF b
<1>3. d.pc = "start" /\ d.phase \in {"starting", "canceling"} /\ d.cont = "none"
  BY <1>1, AwaitFacts
<1>4. CASE bridge' = b /\ call' = call
  <2>1. AttendedInv'
    BY <1>1, <1>2, <1>3, <1>4 DEF DeskInv, AttendedInv, Quiet, Opened
  <2> QED BY <1>1, <1>2, <1>4, <2>1 DEF LinkMoves, BridgeMoves, CallMoves, DeskInv
<1>5. CASE bridge.state = "capturing" /\ bridge' = bridge /\ call' = Answer(bridge.nonce = call.nonce, bridge)
  <2>1. /\ call'.op = call.op /\ call'.cap = call.cap /\ call'.at = "answered"
        /\ call'.ok = (bridge.nonce = call.nonce)
        /\ call'.ans.state = bridge.state /\ call'.ans.cap = bridge.cap
    BY <1>5, AnswerCap DEF UdpInv, AttendInv, CallInv
  <2>2. call'.ok => bridge.nonce # Foreign
    <3>1. call.nonce # Foreign
      BY <1>1 DEF UdpInv, AttendInv, CallInv, KeyInv, Foreign
    <3>2. call'.ok = (bridge.nonce = call.nonce)
      BY <2>1
    <3> QED BY <3>1, <3>2, Zenon
  <2>3. AttendedInv'
    BY <1>1, <1>3, <1>5 DEF DeskInv, AttendedInv
  <2> QED BY <1>1, <1>5, <2>1, <2>2, <2>3 DEF LinkMoves, BridgeMoves, CallMoves, DeskInv
<1> QED BY <1>1, <1>4, <1>5

\* Without faults the bridge is starting only while the dialog waits for its start.
LEMMA StartingFacts ==
  UdpInv /\ DeskInv /\ faults = 0 /\ bridge.state = "starting" =>
    Waiting /\ d.pc = "start" /\ d.phase \in {"starting", "canceling"} /\ d.cont = "none"
<1> SUFFICES ASSUME UdpInv, DeskInv, faults = 0, bridge.state = "starting"
             PROVE  Waiting /\ d.pc = "start" /\ d.phase \in {"starting", "canceling"} /\ d.cont = "none"
  OBVIOUS
<1>1. ~Quiet /\ ~Opened
  BY DEF Quiet, Opened
<1>2. Ready.phase = "ready"
  BY ReadyFacts
<1>3. d.pc = "start"
  <2>1. d.pc \notin {"connect", "refresh", "drain"} /\ d.phase # "ready" /\ d.cont # "leave"
        /\ d.phase \notin {"preflighting", "capturing", "finalize-error", "save-error", "saved"}
    BY <1>1 DEF DeskInv, AttendedInv
  <2>2. d.pc # "get"
    BY <1>1, <2>1 DEF DeskInv, AttendedInv
  <2>3. d.pc # "stop"
    BY <1>1, <2>1 DEF DeskInv, AttendedInv, CallPhase, Asked
  <2> QED BY <1>2, <2>1, <2>2, <2>3 DEF DeskInv, PhaseInv, AtRest, Beginning, LettingGo, Previewing, Recording,
            EndingPreview, EndingRecording, Leaving, Refused, Done
<1>4. call.op = "start" /\ call.at = "sent"
  BY <1>1, <1>3 DEF DeskInv, AttendedInv, CallPhase, Asked
<1> QED BY <1>3, <1>4, AwaitFacts DEF Waiting

LEMMA OpensMoves ==
  UdpInv /\ DeskInv /\ Opens /\ UNCHANGED <<d, saved>> => LinkMoves /\ AttendedInv'
<1> SUFFICES ASSUME UdpInv, DeskInv, Opens, UNCHANGED <<d, saved>>
             PROVE  LinkMoves /\ AttendedInv'
  OBVIOUS
<1> DEFINE b == Capturing(bridge.starting)
<1>1. /\ UNCHANGED <<owned, recovery, faults, stream>> /\ bridge.state = "starting" /\ bridge' = b
      /\ call' = IF Waiting THEN Answer(TRUE, b) ELSE call
  BY DEF Opens, SetWithTruth, Set
<1>2. b.state = "capturing" /\ b.cap = made.captures + 1 /\ b.nonce = bridge.starting
  BY DEF Capturing, Idle
<1> HIDE DEF b
<1>3. bridge'.nonce # Foreign
  BY <1>1, <1>2 DEF UdpInv, AttendInv, KeyInv, Foreign
<1>4. ASSUME Waiting
      PROVE  /\ call'.op = call.op /\ call'.cap = call.cap /\ call'.at = "answered" /\ call'.ok = TRUE
             /\ call'.ans.state = b.state /\ call'.ans.cap = b.cap
  BY <1>1, <1>4, AnswerCap DEF UdpInv, AttendInv, CallInv
<1>5. CallMoves
  BY <1>1, <1>2, <1>3, <1>4 DEF CallMoves, Waiting
<1>6. AttendedInv'
  <2>1. CASE faults = 0
    <3>1. Waiting /\ d.pc = "start" /\ d.phase \in {"starting", "canceling"} /\ d.cont = "none"
      BY <1>1, <2>1, StartingFacts
    <3> QED BY <1>1, <1>2, <1>4, <3>1 DEF AttendedInv
  <2>2. CASE faults # 0
    BY <1>1, <2>2 DEF AttendedInv
  <2> QED BY <2>1, <2>2
<1> QED BY <1>1, <1>2, <1>5, <1>6 DEF LinkMoves, BridgeMoves, DeskInv

LEMMA BindMoves ==
  UdpInv /\ DeskInv /\ BindFails /\ UNCHANGED <<d, saved>> => LinkMoves /\ AttendedInv'
<1> SUFFICES ASSUME UdpInv, DeskInv, BindFails, UNCHANGED <<d, saved>>
             PROVE  LinkMoves /\ AttendedInv'
  OBVIOUS
<1> DEFINE b == [bridge EXCEPT !.state = "error", !.starting = 0, !.err = "bind"]
<1>1. /\ UNCHANGED <<owned, recovery, faults, stream>> /\ bridge.state = "starting" /\ bridge' = b
      /\ call' = IF Waiting THEN Answer(FALSE, b) ELSE call
  BY DEF BindFails, Set
<1>2. b.state = "error"
  BY DEF UdpInv, LifeInv, LinkTyped, Bridges
<1> HIDE DEF b
<1>3. ASSUME Waiting
      PROVE  /\ call'.op = call.op /\ call'.cap = call.cap /\ call'.at = "answered" /\ call'.ok = FALSE
             /\ call'.ans.state = b.state /\ call'.ans.cap = b.cap
  BY <1>1, <1>3, AnswerCap DEF UdpInv, AttendInv, CallInv
<1>4. CallMoves
  BY <1>1, <1>3 DEF CallMoves, Waiting
<1>5. AttendedInv'
  <2>1. CASE faults = 0
    <3>1. Waiting /\ d.pc = "start" /\ d.phase \in {"starting", "canceling"} /\ d.cont = "none"
      BY <1>1, <2>1, StartingFacts
    <3> QED BY <1>1, <1>2, <1>3, <3>1 DEF AttendedInv, Quiet
  <2>2. CASE faults # 0
    BY <1>1, <2>2 DEF AttendedInv
  <2> QED BY <2>1, <2>2
<1> QED BY <1>1, <1>2, <1>4, <1>5 DEF LinkMoves, BridgeMoves, DeskInv

LEMMA StopMoves ==
  UdpInv /\ DeskInv /\ ServeStop /\ UNCHANGED <<d, saved>> => LinkMoves /\ AttendedInv'
<1> SUFFICES ASSUME UdpInv, DeskInv, ServeStop, UNCHANGED <<d, saved>>
             PROVE  LinkMoves /\ AttendedInv'
  OBVIOUS
<1>1. /\ UNCHANGED <<owned, recovery, faults, stream>> /\ call.op = "stop" /\ call.at = "sent"
      /\ bridge.state # "starting"
      /\ \/ /\ bridge.cap = call.cap /\ bridge.state = "capturing"
            /\ \E drops \in {0, 1}, leaveFails \in BOOLEAN :
                 /\ bridge' = StoppedOf(drops, leaveFails)
                 /\ call' = Answer(TRUE, StoppedOf(drops, leaveFails))
         \/ /\ ~(bridge.cap = call.cap /\ bridge.state = "capturing")
            /\ call' = Answer(bridge.cap = call.cap, bridge) /\ bridge' = bridge
  BY Zenon DEF ServeStop, StoppedOf, StoppingOf, SetWithTruth, Set
<1>2. d.pc = "stop" /\ d.phase \in {"starting", "canceling", "stopping"} /\ IsCall(call)
  BY <1>1, AwaitFacts DEF UdpInv, AttendInv, CallInv
<1>3. ASSUME NEW drops \in {0, 1}, NEW leaveFails \in BOOLEAN, bridge' = StoppedOf(drops, leaveFails),
             call' = Answer(TRUE, StoppedOf(drops, leaveFails)), bridge.cap = call.cap, bridge.state = "capturing"
      PROVE  LinkMoves /\ AttendedInv'
  <2>1. PICK b : b = StoppedOf(drops, leaveFails)
    OBVIOUS
  <2>2. b.state = "stopped" /\ b.cap = bridge.cap
    BY <2>1, StoppedTyped DEF UdpInv, LifeInv
  <2>3. /\ call'.op = call.op /\ call'.cap = call.cap /\ call'.at = "answered" /\ call'.ok = TRUE
        /\ call'.ans.state = "stopped" /\ call'.ans.cap = bridge.cap
    <3>1. call' = Answer(TRUE, b)
      BY <1>3, <2>1
    <3> QED BY <1>2, <2>2, <3>1, AnswerCap
  <2>4. bridge' = b
    BY <1>3, <2>1
  <2>5. d.cont # "leave" => call.cap = d.owned
    BY <1>2 DEF DeskInv, OwnedInv, Owning
  <2>6. AttendedInv'
    BY <1>1, <1>2, <1>3, <2>2, <2>3, <2>4, <2>5 DEF AttendedInv, Quiet, Opened
  <2> QED BY <1>1, <2>2, <2>3, <2>4, <2>6 DEF LinkMoves, BridgeMoves, CallMoves, DeskInv
<1>4. CASE /\ ~(bridge.cap = call.cap /\ bridge.state = "capturing")
           /\ call' = Answer(bridge.cap = call.cap, bridge) /\ bridge' = bridge
  <2>1. call'.op = call.op /\ call'.cap = call.cap /\ call'.at = "answered"
    BY <1>2, <1>4, AnswerCap
  <2>2. AttendedInv'
    <3>1. faults = 0 => d.cont = "leave" /\ Quiet
      BY <1>1, <1>2, <1>4 DEF DeskInv, AttendedInv, OwnedInv, Owning, Opened
    <3> QED BY <1>1, <1>2, <1>4, <2>1, <3>1 DEF AttendedInv, Quiet, Opened
  <2> QED BY <1>1, <1>4, <2>1, <2>2 DEF LinkMoves, BridgeMoves, CallMoves, DeskInv
<1> QED BY <1>1, <1>3, <1>4

\* The desk's invariant through every step of the link.
WholeInv == UdpInv /\ HonestInv /\ DeskInv

LEMMA LinkWhole == WholeInv /\ LinkStep => WholeInv'
<1> SUFFICES ASSUME WholeInv, LinkStep PROVE WholeInv'
  OBVIOUS
<1>1. UdpInv' /\ HonestInv' /\ Keeps /\ SampledKept
  BY LinkHonest DEF WholeInv
<1>2. UNCHANGED <<d, saved>>
  BY DEF LinkStep
<1>3. LinkMoves /\ AttendedInv'
  BY <1>2, FaultMoves, CalmMoves, StatusMoves, StartMoves, OpensMoves, BindMoves, StopMoves
     DEF WholeInv, LinkStep, Serve, Surprise, FaultStep
<1>4. DeskInv'
  BY <1>1, <1>3, LinkDesk DEF WholeInv
<1> QED BY <1>1, <1>4 DEF WholeInv


-----------------------------------------------------------------------------
(* What the page makes of it *)

\* A step of the page that leaves the bridge and its captures alone.
PageStep ==
  /\ UNCHANGED <<bridge, truth>> /\ made'.captures = made.captures
  /\ sse' = sse \/ sse' = <<>> \/ (sse # <<>> /\ sse' = Tail(sse))
  /\ call' = call \/ call'.at # "answered"
  /\ faults' \in Nat /\ (faults' = 0 => faults = 0)

LEMMA PageWhole ==
  ASSUME WholeInv, Next, PageStep, DeskInv'
  PROVE  WholeInv'
<1>1. UdpInv'
  BY NextUdp DEF WholeInv
<1>2. HonestInv'
  BY <1>1, PageHonest DEF WholeInv, PageStep, UdpInv
<1> QED BY <1>1, <1>2 DEF WholeInv

LEMMA Counts == UdpInv => made.captures \in Nat /\ made.captures <= MaxCaptures /\ MaxCaptures \in Nat /\ now \in Int
  BY LinkAssumption DEF UdpInv, LifeInv, LinkTyped, CaptureInv

LEMMA NoJournalTruthful == NoJournal.state # "clean"
  BY DEF NoJournal

\* The dialog is back at its first screen.
LEMMA RestDesk ==
  ASSUME WholeInv, PageStep, d' = Ready, stream' = "off", call' = NoCall, faults' = 0 => Quiet,
         saved' = saved \/ saved' = Nobody
  PROVE  DeskInv'
<1>1. /\ d'.phase = "ready" /\ d'.pc = "idle" /\ d'.cont = "none" /\ d'.owned = 0 /\ d'.hasRec = FALSE
      /\ d'.purpose = "none" /\ d'.journal = NoJournal /\ d'.keys = {} /\ d'.seqIssue = FALSE
      /\ d'.units = 0 /\ d'.seq = -1 /\ d'.reason = FALSE
  BY ReadyFacts
<1>2. IsDialog(d)'
  <2>1. PICK x : x = Ready
    OBVIOUS
  <2> QED BY <2>1, ReadyFacts
<1>3. PhaseInv' /\ CallPhase' /\ OwnedInv'
  BY <1>1 DEF PhaseInv, AtRest, CallPhase, OwnedInv, Owning
<1>4. JournalInv'
  <2>1. PICK cap, j : cap = d'.owned /\ j = d'.journal
    OBVIOUS
  <2>2. Truthful(cap, j)'
    BY <1>1, <2>1, NoJournalTruthful DEF Truthful
  <2>3. 0 <= made'.captures
    BY Counts DEF WholeInv, PageStep
  <2> QED BY <1>1, <2>1, <2>2, <2>3 DEF JournalInv
<1>5. FreshInv' /\ DoubtInv'
  BY <1>1 DEF FreshInv, DoubtInv, Counted, Suspect
<1>6. AttendedInv'
  BY <1>1, NoCallOp DEF AttendedInv, Quiet, PageStep
<1>7. SavedInv'
  <2>1. CASE saved' = saved
    BY <2>1 DEF SavedInv, WholeInv, DeskInv, PageStep
  <2>2. CASE saved' = Nobody
    BY <2>2 DEF SavedInv, Nobody
  <2> QED BY <2>1, <2>2
<1> QED BY <1>2, <1>3, <1>4, <1>5, <1>6, <1>7 DEF DeskInv, PageStep

\* A start begins.
LEMMA BegunDesk ==
  ASSUME WholeInv, PageStep, NEW purpose \in {"preflight", "recording"}, Begin(purpose), call' = NoCall,
         faults' = 0 => Quiet, saved' = saved, purpose = "recording" => recovery' = 0
  PROVE  DeskInv'
<1>1. Same(d', Ready, {"phase", "purpose", "client", "pc"}) /\ d'.phase = "starting" /\ d'.purpose = purpose
      /\ d'.pc = "connect"
  BY ReadyFacts DEF Begin, IsDialog, Same, Fields
<1>2. /\ d'.cont = "none" /\ d'.owned = 0 /\ d'.hasRec = FALSE
      /\ d'.journal = NoJournal /\ d'.keys = {} /\ d'.seqIssue = FALSE
      /\ d'.units = 0 /\ d'.seq = -1 /\ d'.reason = FALSE /\ d'.cancelled = FALSE
  BY <1>1, ReadyFacts DEF Same, Fields, Ready
<1>3. IsDialog(d)'
  <2>1. PICK x, y : x = Ready /\ y = d'
    OBVIOUS
  <2>2. IsDialog(x) /\ Same(y, x, {"phase", "purpose", "client", "pc"})
    BY <1>1, <2>1, ReadyFacts
  <2>3. IsDialog(y)
    BY <2>2 DEF IsDialog, Same, Fields
  <2> QED BY <2>1, <2>3
<1>4. PhaseInv' /\ CallPhase' /\ OwnedInv'
  BY <1>1, <1>2 DEF PhaseInv, Beginning, CallPhase, OwnedInv, Owning
<1>5. JournalInv'
  <2>1. PICK cap, j : cap = d'.owned /\ j = d'.journal
    OBVIOUS
  <2>2. Truthful(cap, j)'
    BY <1>2, <2>1, NoJournalTruthful DEF Truthful
  <2>3. 0 <= made'.captures
    BY Counts DEF WholeInv, PageStep
  <2> QED BY <1>1, <1>2, <2>1, <2>2, <2>3 DEF JournalInv
<1>6. FreshInv' /\ DoubtInv'
  BY <1>1, <1>2 DEF FreshInv, DoubtInv, Counted, Suspect
<1>7. AttendedInv'
  BY <1>1, <1>2, NoCallOp DEF AttendedInv, Quiet, PageStep
<1>8. SavedInv'
  BY DEF SavedInv, WholeInv, DeskInv, PageStep
<1> QED BY <1>3, <1>4, <1>5, <1>6, <1>7, <1>8 DEF DeskInv, PageStep

\* A recording is over.
LEMMA OverDesk ==
  ASSUME WholeInv, PageStep, NEW x, Same(x, d, Inputs \cup {"final"}), NEW journal, Outcome(x, journal),
         Truthful(d.owned, x.journal), Truthful(d.owned, journal),
         d.owned # 0, d.hasRec, stream' = "off", call' = NoCall, faults' = 0 => Quiet
  PROVE  DeskInv'
<1>1. CASE d' = Ready /\ saved' = saved
  BY <1>1, RestDesk
<1>2. CASE ~(d' = Ready /\ saved' = saved)
  <2>1. /\ IsDialog(d') /\ Same(d', x, Changed) /\ d'.pc = "idle"
        /\ \/ /\ d'.phase = "finalize-error" /\ d'.hasRec = x.hasRec /\ saved' = saved
              /\ IsEvidence(d'.ctx[2]) /\ d'.ctx[2].journal = journal
              /\ d'.reason => Doubted(d'.rec, d'.ctx[2])
           \/ /\ d'.phase \in {"saved", "save-error"} /\ ~d'.hasRec /\ saved'.cap = x.owned
              /\ saved'.status = "verified" =>
                   ~saved'.reason /\ journal.state = "clean" /\ saved'.doc.records = journal.datagrams
    BY <1>2 DEF Outcome
  <2>2. /\ d'.owned = d.owned /\ d'.journal = x.journal /\ x.hasRec = d.hasRec /\ x.owned = d.owned
    BY <2>1 DEF Same, Fields, Inputs, Changed
  <2>3. PICK cap, j, k, y : cap = d.owned /\ j = x.journal /\ k = journal /\ y = d'
    OBVIOUS
  <2>4. Truthful(cap, j)' /\ Truthful(cap, k)'
    BY <2>3 DEF Truthful, PageStep
  <2>5. IsDialog(d)'
    BY <2>1, <2>3
  <2>6. PhaseInv' /\ CallPhase' /\ OwnedInv'
    BY <2>1, <2>2 DEF PhaseInv, Refused, Done, CallPhase, OwnedInv, Owning
  <2>7. JournalInv'
    <3>1. d'.owned <= made'.captures
      BY <2>2 DEF WholeInv, DeskInv, JournalInv, PageStep
    <3>2. d'.phase = "finalize-error" => IsEvidence(y.ctx[2]) /\ Truthful(cap, y.ctx[2].journal)'
      BY <2>1, <2>3, <2>4
    <3>3. /\ d'.phase = "finalize-error" => IsEvidence(d'.ctx[2]) /\ Truthful(d.owned, d.ctx[2].journal)'
          /\ Truthful(d.owned, d.journal)'
      BY <2>2, <2>3, <2>4, <3>2
    <3> QED BY <2>1, <2>2, <3>1, <3>3 DEF JournalInv
  <2>8. FreshInv'
    <3>1. ~truth'[d'.owned].sampled
      BY <2>2 DEF WholeInv, DeskInv, FreshInv, PageStep
    <3> QED BY <2>1, <3>1 DEF FreshInv
  <2>9. AttendedInv'
    BY <2>1, NoCallOp DEF AttendedInv, Quiet, PageStep
  <2>10. DoubtInv'
    BY <2>1, <2>2 DEF DoubtInv
  <2>11. SavedInv'
    <3>1. CASE saved' = saved
      BY <3>1 DEF SavedInv, WholeInv, DeskInv, PageStep
    <3>2. CASE /\ saved'.cap = x.owned
               /\ saved'.status = "verified" =>
                    ~saved'.reason /\ journal.state = "clean" /\ saved'.doc.records = journal.datagrams
      BY <2>2, <3>2 DEF SavedInv, Truthful, PageStep
    <3> QED BY <2>1, <3>1, <3>2
  <2> QED BY <2>5, <2>6, <2>7, <2>8, <2>9, <2>10, <2>11 DEF DeskInv, PageStep
<1> QED BY <1>1, <1>2


\* The dialog is as it was, but for its phase and what it waits for.
Guise == {"phase", "pc", "cont", "cancelled", "frozen", "closed", "stDur", "pend", "owned"}
LEMMA GuiseFacts ==
  ASSUME NEW x, NEW y, Same(y, x, Guise)
  PROVE  /\ y.purpose = x.purpose /\ y.hasRec = x.hasRec /\ y.journal = x.journal /\ y.keys = x.keys
         /\ y.seqIssue = x.seqIssue /\ y.units = x.units /\ y.seq = x.seq /\ y.reason = x.reason
         /\ y.final = x.final /\ y.rec = x.rec /\ y.ctx = x.ctx
         /\ (Counted(x) => Counted(y)) /\ (Suspect(y) => Suspect(x)) /\ (Doubtful(x) => Doubtful(y))
<1>1. /\ y.purpose = x.purpose /\ y.hasRec = x.hasRec /\ y.journal = x.journal /\ y.keys = x.keys
      /\ y.seqIssue = x.seqIssue /\ y.units = x.units /\ y.seq = x.seq /\ y.reason = x.reason
      /\ y.final = x.final /\ y.rec = x.rec /\ y.ctx = x.ctx /\ y.logOk = x.logOk /\ y.pendEvents = x.pendEvents
  BY DEF Same, Fields, Guise
<1> QED BY <1>1 DEF Counted, Suspect, Doubtful

LEMMA AskedFacts ==
  ASSUME NEW op, NEW nonce, NEW cap, Ask(op, nonce, cap)
  PROVE  call'.op = op /\ call'.at = "sent" /\ call'.cap = cap /\ call'.nonce = nonce
  BY DEF Ask, NoCall

\* The dialog in the phases from which a capture is stopped.
LEMMA PhaseOf ==
  PhaseInv =>
    /\ d.phase = "preflighting" => Previewing
    /\ d.phase = "capturing" => Recording
    /\ d.phase = "starting" \/ d.phase = "canceling" => Beginning \/ LettingGo
    /\ d.phase = "finalize-error" => Refused
    /\ d.phase \in {"save-error", "saved"} => Done
    /\ d.phase = "ready" => AtRest
  BY ReadyFacts DEF PhaseInv, AtRest, Beginning, LettingGo, Previewing, Recording, EndingPreview,
    EndingRecording, Leaving, Refused, Done

\* The status of a capture that is to be stopped is asked for.
LEMMA AskingDesk ==
  ASSUME WholeInv, PageStep, NEW y, d' = y, IsDialog(y), Same(y, d, Guise), y.pc = "get", y.owned = d.owned,
         \/ d.phase \in {"preflighting", "capturing"} /\ y.cont # "leave"
         \/ d.phase \in {"finalize-error", "save-error", "saved"} /\ y.cont = "leave",
         PhaseInv', y.phase \in {"starting", "stopping"}, UNCHANGED <<owned, recovery, saved>>, Ask("status", 0, 0)
  PROVE  DeskInv'
<1>1. call'.op = "status" /\ call'.at = "sent"
  BY AskedFacts
<1>2. CallPhase' /\ OwnedInv'
  BY <1>1 DEF CallPhase, Asked, OwnedInv, Owning, WholeInv, DeskInv
<1>3. JournalInv'
  <2>1. PICK cap, j : cap = d.owned /\ j = d.journal
    OBVIOUS
  <2>2. Truthful(cap, j)'
    BY <2>1 DEF Truthful, WholeInv, DeskInv, JournalInv, PageStep
  <2>3. d'.owned = cap /\ d'.journal = j
    BY <2>1, GuiseFacts
  <2>4. (d'.owned = 0 => d'.journal = NoJournal) /\ d'.owned <= made'.captures
    BY <2>1, <2>3 DEF WholeInv, DeskInv, JournalInv, PageStep
  <2> QED BY <2>2, <2>3, <2>4 DEF JournalInv
<1>4. FreshInv'
  BY GuiseFacts DEF FreshInv, WholeInv, DeskInv, PageStep
<1>5. AttendedInv'
  <2>1. faults' = 0 => IF y.cont = "leave" THEN Quiet ELSE Opened
    BY DEF WholeInv, DeskInv, AttendedInv, PageStep
  <2> QED BY <1>1, <2>1 DEF AttendedInv, Opened, Quiet, PageStep
<1>6. DoubtInv'
  <2>1. y.cont # "leave" => Counted(y) /\ (Suspect(y) => Doubtful(y))
    <3>1. y.cont # "leave" => d.cont # "leave" /\ d.phase \notin {"finalize-error", "save-error", "saved"}
      BY PhaseOf DEF WholeInv, DeskInv, Previewing, Recording
    <3> QED BY <3>1, GuiseFacts DEF WholeInv, DeskInv, DoubtInv
  <2>2. y.owned = 0 => y.keys = {} /\ ~y.seqIssue /\ y.units = 0 /\ y.seq = -1
    BY GuiseFacts DEF WholeInv, DeskInv, DoubtInv
  <2> QED BY <2>1, <2>2 DEF DoubtInv
<1>7. SavedInv'
  BY DEF SavedInv, WholeInv, DeskInv, PageStep
<1>8. IsDialog(d)'
  OBVIOUS
<1> QED BY <1>2, <1>3, <1>4, <1>5, <1>6, <1>7, <1>8 DEF DeskInv, PageStep

\* What the operator's stops have in common.
LEMMA StoppingPage ==
  ASSUME WholeInv, NEW x, NEW cont, Stopping(x, cont)
  PROVE  /\ d' = [x EXCEPT !.pc = "get", !.cont = cont] /\ Ask("status", 0, 0)
         /\ PageStep /\ UNCHANGED <<owned, recovery, saved>> /\ stream' = stream
<1>1. /\ d' = [x EXCEPT !.pc = "get", !.cont = cont] /\ Ask("status", 0, 0)
      /\ UNCHANGED <<now, bridge, stream, sse, owned, recovery, made, faults, truth, saved>>
  BY DEF Stopping
<1>2. call'.at = "sent"
  BY <1>1, AskedFacts
<1> QED BY <1>1, <1>2 DEF PageStep, WholeInv, DeskInv

LEMMA PreviewEnds == WholeInv /\ (StopPreflight \/ BeginRecording) => PageStep /\ DeskInv'
<1> SUFFICES ASSUME WholeInv, StopPreflight \/ BeginRecording PROVE PageStep /\ DeskInv'
  OBVIOUS
<1>1. d.phase = "preflighting" /\ Previewing /\ IsDialog(d)
  BY PhaseOf DEF StopPreflight, BeginRecording, WholeInv, DeskInv
<1>2. PICK phase, cont : /\ Stopping([d EXCEPT !.phase = phase], cont)
                         /\ \/ phase = "stopping" /\ cont = "stopPreflight"
                            \/ phase = "starting" /\ cont = "beginRecording"
  BY DEF StopPreflight, BeginRecording
<1>3. PICK x, y : x = [d EXCEPT !.phase = phase] /\ y = d'
  OBVIOUS
<1>4. /\ d' = [x EXCEPT !.pc = "get", !.cont = cont] /\ Ask("status", 0, 0)
      /\ PageStep /\ UNCHANGED <<owned, recovery, saved>>
  BY <1>2, <1>3, StoppingPage
<1>5. /\ Same(y, d, {"phase", "pc", "cont"}) /\ y.pc = "get" /\ y.cont = cont /\ y.phase = phase
  BY <1>1, <1>3, <1>4 DEF IsDialog, Same, Fields
<1>6. /\ y.owned = d.owned /\ y.hasRec = d.hasRec /\ Same(y, d, Guise)
  BY <1>5 DEF Same, Fields, Guise
<1>7. IsDialog(y)
  BY <1>1, <1>5 DEF IsDialog, Same, Fields
<1>8. PhaseInv'
  BY <1>1, <1>2, <1>3, <1>5, <1>6 DEF PhaseInv, Previewing, EndingPreview, LettingGo
<1>9. d.phase \in {"preflighting", "capturing"} /\ y.cont # "leave" /\ y.phase \in {"starting", "stopping"}
  BY <1>1, <1>2, <1>5
<1>10. d' = y /\ y.pc = "get" /\ PageStep /\ Ask("status", 0, 0) /\ UNCHANGED <<owned, recovery, saved>>
  BY <1>3, <1>4, <1>5
<1>11. DeskInv'
  BY <1>6, <1>7, <1>8, <1>9, <1>10, AskingDesk
<1> QED BY <1>10, <1>11

LEMMA RecordingEnds == WholeInv /\ (StopAndSave \/ DiscardCapture) => PageStep /\ DeskInv'
<1> SUFFICES ASSUME WholeInv, StopAndSave \/ DiscardCapture PROVE PageStep /\ DeskInv'
  OBVIOUS
<1>1. d.phase = "capturing" /\ Recording /\ IsDialog(d) /\ now \in Int
  BY PhaseOf, Counts DEF StopAndSave, DiscardCapture, WholeInv, DeskInv
<1> DEFINE fr == Freeze(d, now)
<1>2. IsDialog(fr) /\ Same(fr, d, {"frozen"})
  BY <1>1, FreezeStage DEF Stage
<1>3. PICK x, cont : /\ x = [fr EXCEPT !.phase = "stopping"] \/ x = [fr EXCEPT !.phase = "stopping", !.closed = TRUE]
                     /\ cont \in {"save", "discard"} /\ Stopping(x, cont)
  BY DEF StopAndSave, DiscardCapture
<1> HIDE DEF fr
<1>4. PICK y : y = d'
  OBVIOUS
<1>5. /\ d' = [x EXCEPT !.pc = "get", !.cont = cont] /\ Ask("status", 0, 0)
      /\ PageStep /\ UNCHANGED <<owned, recovery, saved>>
  BY <1>3, StoppingPage
<1>6. /\ Same(y, fr, {"phase", "pc", "cont", "closed"}) /\ y.pc = "get" /\ y.cont = cont /\ y.phase = "stopping"
      /\ y.closed \in BOOLEAN
  <2>1. Same(x, fr, {"phase", "closed"}) /\ x.phase = "stopping"
    BY <1>2, <1>3 DEF IsDialog, Same, Fields
  <2>2. x.closed \in BOOLEAN
    BY <1>2, <1>3 DEF IsDialog, Same, Fields
  <2>3. Same(y, x, {"pc", "cont"}) /\ y.pc = "get" /\ y.cont = cont
    BY <1>4, <1>5, <2>1 DEF Same, Fields
  <2> QED BY <2>1, <2>2, <2>3 DEF Same, Fields
<1>7. IsDialog(y)
  BY <1>2, <1>6 DEF IsDialog, Same, Fields
<1>8. Same(y, d, Guise)
  BY <1>2, <1>6 DEF Same, Guise
<1>9. /\ y.owned = d.owned /\ y.hasRec = d.hasRec /\ y.purpose = d.purpose
  BY <1>2, <1>6 DEF Same, Fields
<1>10. PhaseInv'
  BY <1>1, <1>3, <1>4, <1>6, <1>9 DEF PhaseInv, Recording, EndingRecording
<1>11. d.phase \in {"preflighting", "capturing"} /\ y.cont # "leave" /\ y.phase \in {"starting", "stopping"}
  BY <1>1, <1>3, <1>6
<1>12. d' = y /\ y.pc = "get" /\ PageStep /\ Ask("status", 0, 0) /\ UNCHANGED <<owned, recovery, saved>>
  BY <1>4, <1>5, <1>6
<1>13. DeskInv'
  BY <1>7, <1>8, <1>9, <1>10, <1>11, <1>12, AskingDesk
<1> QED BY <1>12, <1>13

LEMMA RestAfter == WholeInv /\ d.phase \in {"finalize-error", "save-error", "saved"} =>
  IsDialog(d) /\ (faults = 0 => Quiet) /\ call = NoCall /\ d.owned # 0 /\ stream = "off" /\ (Refused \/ Done)
<1> SUFFICES ASSUME WholeInv, d.phase \in {"finalize-error", "save-error", "saved"}
    PROVE IsDialog(d) /\ (faults = 0 => Quiet) /\ call = NoCall /\ d.owned # 0 /\ stream = "off" /\ (Refused \/ Done)
  OBVIOUS
<1>1. Refused \/ Done
  BY PhaseOf DEF WholeInv, DeskInv
<1>2. call = NoCall /\ d.owned # 0 /\ stream = "off"
  BY <1>1 DEF Refused, Done, WholeInv, DeskInv, CallPhase
<1>3. faults = 0 => Quiet
  BY DEF WholeInv, DeskInv, AttendedInv
<1> QED BY <1>1, <1>2, <1>3 DEF WholeInv, DeskInv

LEMMA RetainedLeft == WholeInv /\ LeaveRetained => PageStep /\ DeskInv'
<1> SUFFICES ASSUME WholeInv, LeaveRetained PROVE PageStep /\ DeskInv'
  OBVIOUS
<1>1. d.phase \in {"finalize-error", "save-error", "saved"}
  BY DEF LeaveRetained
<1>2. IsDialog(d) /\ (faults = 0 => Quiet) /\ call = NoCall /\ d.owned # 0 /\ stream = "off"
  BY <1>1, RestAfter
<1>3. CASE d.client /\ d.owned # 0
  <2>1. PICK x, y : x = [d EXCEPT !.phase = "stopping"] /\ y = d'
    OBVIOUS
  <2>2. Stopping(x, "leave")
    BY <1>3, <2>1 DEF LeaveRetained
  <2>3. /\ d' = [x EXCEPT !.pc = "get", !.cont = "leave"] /\ Ask("status", 0, 0)
        /\ PageStep /\ UNCHANGED <<owned, recovery, saved>> /\ stream' = stream
    <3>1. PICK cont : cont = "leave"
      OBVIOUS
    <3>2. Stopping(x, cont)
      BY <2>2, <3>1
    <3> QED BY <3>1, <3>2, StoppingPage
  <2>4. /\ Same(y, d, {"phase", "pc", "cont"}) /\ y.pc = "get" /\ y.cont = "leave" /\ y.phase = "stopping"
    BY <1>2, <2>1, <2>3 DEF IsDialog, Same, Fields
  <2>5. /\ y.owned = d.owned /\ y.hasRec = d.hasRec /\ Same(y, d, Guise)
    BY <2>4 DEF Same, Fields, Guise
  <2>6. IsDialog(y)
    BY <1>2, <2>4 DEF IsDialog, Same, Fields
  <2>7. PhaseInv'
    BY <1>2, <2>1, <2>3, <2>4, <2>5 DEF PhaseInv, Leaving
  <2> QED BY <1>1, <2>1, <2>3, <2>4, <2>5, <2>6, <2>7, AskingDesk
<1>4. CASE ~(d.client /\ d.owned # 0)
  <2>1. /\ d' = Ready /\ saved' = Nobody /\ stream' = "off" /\ sse' = <<>>
        /\ UNCHANGED <<bridge, call, made, faults, truth>>
    BY <1>4 DEF LeaveRetained, Disconnect
  <2>2. PageStep /\ call' = NoCall /\ (faults' = 0 => Quiet)
    BY <1>2, <2>1 DEF PageStep, WholeInv, DeskInv
  <2> QED BY <2>1, <2>2, RestDesk
<1> QED BY <1>3, <1>4

LEMMA DownloadRetried == WholeInv /\ RetryDownload => PageStep /\ DeskInv'
<1> SUFFICES ASSUME WholeInv, RetryDownload PROVE PageStep /\ DeskInv'
  OBVIOUS
<1>1. /\ d.phase = "save-error" /\ d' = [d EXCEPT !.phase = "saved"]
      /\ UNCHANGED <<saved, bridge, truth, made, sse, call, faults, stream, owned, recovery>>
  BY DEF RetryDownload, link
<1>2. IsDialog(d) /\ (faults = 0 => Quiet) /\ call = NoCall /\ d.owned # 0 /\ stream = "off" /\ Done
  BY <1>1, RestAfter, PhaseOf DEF WholeInv, DeskInv
<1>3. PICK y : y = d'
  OBVIOUS
<1>4. Same(y, d, {"phase"}) /\ y.phase = "saved"
  BY <1>1, <1>2, <1>3 DEF IsDialog, Same, Fields
<1>5. /\ y.pc = "idle" /\ ~y.hasRec /\ y.owned = d.owned /\ y.journal = d.journal
  BY <1>2, <1>4 DEF Same, Fields, Done
<1>6. IsDialog(y)
  BY <1>2, <1>4 DEF IsDialog, Same, Fields
<1>7. PageStep
  BY <1>1 DEF PageStep, WholeInv, DeskInv
<1>8. PhaseInv' /\ CallPhase' /\ OwnedInv'
  BY <1>1, <1>2, <1>3, <1>4, <1>5 DEF PhaseInv, Done, CallPhase, OwnedInv, Owning
<1>9. JournalInv'
  <2>1. PICK cap, j : cap = d.owned /\ j = d.journal
    OBVIOUS
  <2>2. Truthful(cap, j)'
    BY <2>1, <1>7 DEF Truthful, WholeInv, DeskInv, JournalInv, PageStep
  <2>3. d'.owned <= made'.captures
    BY <1>3, <1>5, <1>7 DEF WholeInv, DeskInv, JournalInv, PageStep
  <2> QED BY <1>2, <1>3, <1>4, <1>5, <2>1, <2>2, <2>3 DEF JournalInv
<1>10. FreshInv' /\ DoubtInv'
  BY <1>2, <1>3, <1>4, <1>5 DEF FreshInv, DoubtInv
<1>11. AttendedInv'
  BY <1>1, <1>2, <1>3, <1>4, <1>5, NoCallOp DEF AttendedInv, Quiet
<1>12. SavedInv'
  BY <1>1 DEF SavedInv, WholeInv, DeskInv
<1> QED BY <1>3, <1>6, <1>7, <1>8, <1>9, <1>10, <1>11, <1>12 DEF DeskInv, PageStep


LEMMA NoCallStep == call' = NoCall => call'.at = "idle"
  BY NoCallOp

LEMMA PreflightBegun == WholeInv /\ StartPreflight => PageStep /\ DeskInv'
<1> SUFFICES ASSUME WholeInv, StartPreflight PROVE PageStep /\ DeskInv'
  OBVIOUS
<1>1. /\ d.phase = "ready" /\ d.pc = "idle" /\ Begin("preflight") /\ stream' = "off" /\ sse' = <<>>
      /\ UNCHANGED <<bridge, call, made, faults, truth, saved>>
  BY DEF StartPreflight, Disconnect
<1>2. call' = NoCall /\ (faults' = 0 => Quiet)
  BY <1>1 DEF WholeInv, DeskInv, CallPhase, AttendedInv
<1>3. PageStep
  BY <1>1, <1>2 DEF PageStep, WholeInv, DeskInv
<1>4. PICK purpose : purpose = "preflight"
  OBVIOUS
<1>5. purpose \in {"preflight", "recording"} /\ Begin(purpose) /\ purpose # "recording"
  BY <1>1, <1>4
<1> QED BY <1>1, <1>2, <1>3, <1>5, BegunDesk

\* A cancelled start goes on until its answer.
LEMMA CancelDesk == WholeInv /\ Cancel => PageStep /\ DeskInv'
<1> SUFFICES ASSUME WholeInv, Cancel PROVE PageStep /\ DeskInv'
  OBVIOUS
<1>1. /\ d.phase = "starting" /\ d' = [d EXCEPT !.phase = "canceling", !.cancelled = TRUE]
      /\ stream' = "off" /\ sse' = <<>>
      /\ UNCHANGED <<bridge, call, made, faults, truth, saved, owned, recovery>>
  BY DEF Cancel, Disconnect
<1>2. IsDialog(d) /\ (Beginning \/ LettingGo)
  BY <1>1, PhaseOf DEF WholeInv, DeskInv
<1>3. PICK y : y = d'
  OBVIOUS
<1>4. Same(y, d, {"phase", "cancelled"}) /\ y.phase = "canceling" /\ y.cancelled = TRUE
  BY <1>1, <1>2, <1>3 DEF IsDialog, Same, Fields
<1>5. /\ y.pc = d.pc /\ y.cont = d.cont /\ y.owned = d.owned /\ Same(y, d, Guise)
  BY <1>4 DEF Same, Fields, Guise
<1>6. /\ y.hasRec = d.hasRec /\ y.purpose = d.purpose /\ y.journal = d.journal /\ y.keys = d.keys
      /\ y.seqIssue = d.seqIssue /\ y.units = d.units /\ y.seq = d.seq /\ y.final = d.final
      /\ (Counted(d) => Counted(y)) /\ (Suspect(y) => Suspect(d)) /\ (Doubtful(d) => Doubtful(y))
  BY <1>5, GuiseFacts
<1>7. IsDialog(y)
  BY <1>2, <1>4 DEF IsDialog, Same, Fields
<1>8. PageStep
  BY <1>1 DEF PageStep, WholeInv, DeskInv
<1>9. PhaseInv'
  BY <1>2, <1>3, <1>4, <1>5, <1>6 DEF PhaseInv, Beginning, LettingGo
<1>10. CallPhase' /\ OwnedInv'
  BY <1>1, <1>3, <1>4, <1>5 DEF CallPhase, Asked, OwnedInv, Owning, WholeInv, DeskInv
<1>11. JournalInv'
  <2>1. PICK cap, j : cap = d.owned /\ j = d.journal
    OBVIOUS
  <2>2. Truthful(cap, j)'
    BY <2>1, <1>8 DEF Truthful, WholeInv, DeskInv, JournalInv, PageStep
  <2>3. d'.owned = cap /\ d'.journal = j /\ d'.phase = "canceling" /\ d'.pc = d.pc /\ d'.final = d.final
    BY <1>3, <1>4, <1>5, <1>6, <2>1
  <2> QED BY <1>8, <2>1, <2>2, <2>3 DEF JournalInv, WholeInv, DeskInv, PageStep
<1>12. FreshInv'
  BY <1>1, <1>3, <1>5, <1>6 DEF FreshInv, WholeInv, DeskInv
<1>13. DoubtInv'
  BY <1>1, <1>3, <1>4, <1>5, <1>6 DEF DoubtInv, WholeInv, DeskInv
<1>14. AttendedInv'
  BY <1>1, <1>3, <1>4, <1>5 DEF AttendedInv, Quiet, Opened, WholeInv, DeskInv
<1>15. SavedInv'
  BY <1>1 DEF SavedInv, WholeInv, DeskInv
<1> QED BY <1>3, <1>7, <1>8, <1>9, <1>10, <1>11, <1>12, <1>13, <1>14, <1>15 DEF DeskInv, PageStep

LEMMA ReloadDesk == WholeInv /\ Reload => PageStep /\ DeskInv'
<1> SUFFICES ASSUME WholeInv, Reload PROVE PageStep /\ DeskInv'
  OBVIOUS
<1>1. /\ d' = Ready /\ stream' = "off" /\ sse' = <<>> /\ call' = NoCall /\ faults' = faults + 1
      /\ UNCHANGED <<bridge, made, truth, saved>>
  BY DEF Reload, Disconnect, Fault
<1>2. faults' \in Nat /\ faults' # 0
  BY <1>1 DEF WholeInv, DeskInv
<1>3. PageStep
  BY <1>1, <1>2, NoCallStep DEF PageStep
<1> QED BY <1>1, <1>2, <1>3, RestDesk

\* The validator is asked again, with the evidence that was kept.
LEMMA FinalizationRetried == WholeInv /\ RetryFinalization => PageStep /\ DeskInv'
<1> SUFFICES ASSUME WholeInv, RetryFinalization PROVE PageStep /\ DeskInv'
  OBVIOUS
<1>1. /\ d.phase = "finalize-error" /\ d.hasRec /\ Finish(d, d.ctx[1], d.ctx[2])
      /\ UNCHANGED <<bridge, call, made, faults, truth, stream, sse>>
  BY DEF RetryFinalization, link
<1>2. IsDialog(d) /\ (faults = 0 => Quiet) /\ call = NoCall /\ d.owned # 0 /\ stream = "off"
  BY <1>1, RestAfter
<1>3. PICK x, duration, ev : x = d /\ duration = d.ctx[1] /\ ev = d.ctx[2]
  OBVIOUS
<1>4. IsEvidence(ev) /\ Finish(x, duration, ev) /\ (d.reason => Doubted(d.rec, ev))
      /\ Truthful(d.owned, ev.journal) /\ Truthful(d.owned, d.journal)
  BY <1>1, <1>3 DEF WholeInv, DeskInv, JournalInv, DoubtInv
<1>5. Finished(x, ev)
  <2>1. IsDialog(x)
    BY <1>2, <1>3
  <2> QED BY <1>4, <2>1, FinishFacts
<1>6. Same(d', x, Changed)
  BY <1>5 DEF Finished, Same, Changed
<1>7. d'.phase = "finalize-error" => d'.reason = x.reason
  BY <1>5 DEF Finished, Same, Fields
<1>8. Outcome(x, ev.journal)
  BY <1>3, <1>4, <1>5, <1>6, <1>7 DEF Finished, Outcome
<1>9. PageStep
  BY <1>1 DEF PageStep, WholeInv, DeskInv
<1>10. Same(x, d, Inputs \cup {"final"})
  BY <1>2, <1>3 DEF Same, IsDialog
<1>11. PICK journal : journal = ev.journal
  OBVIOUS
<1>12. Outcome(x, journal) /\ Truthful(d.owned, x.journal) /\ Truthful(d.owned, journal)
  BY <1>3, <1>4, <1>8, <1>11
<1> QED BY <1>1, <1>2, <1>9, <1>10, <1>12, OverDesk

-----------------------------------------------------------------------------
(* A start, await by await *)

\* The dialog while it waits for its start.
LEMMA BeginningFacts ==
  WholeInv /\ d.pc \in {"connect", "refresh", "start"} =>
    /\ Beginning /\ IsDialog(d) /\ Unstarted(d) /\ Counted(d) /\ (Suspect(d) => Doubtful(d)) /\ d.journal = NoJournal
<1> SUFFICES ASSUME WholeInv, d.pc \in {"connect", "refresh", "start"}
             PROVE  /\ Beginning /\ IsDialog(d) /\ Unstarted(d) /\ Counted(d) /\ (Suspect(d) => Doubtful(d))
                    /\ d.journal = NoJournal
  OBVIOUS
<1>1. Beginning
  BY ReadyFacts DEF WholeInv, DeskInv, PhaseInv, AtRest, Beginning, LettingGo, Previewing, Recording, EndingPreview,
    EndingRecording, Leaving, Refused, Done
<1>2. d.owned = 0 /\ ~d.hasRec
  BY <1>1 DEF Beginning
<1> QED BY <1>1, <1>2 DEF Beginning, WholeInv, DeskInv, DoubtInv, JournalInv, Unstarted

LEMMA ConnectFailed == WholeInv /\ ConnectFails => PageStep /\ DeskInv'
<1> SUFFICES ASSUME WholeInv, ConnectFails PROVE PageStep /\ DeskInv'
  OBVIOUS
<1>1. /\ d.pc = "connect" /\ d' = Ready /\ stream' = "off" /\ sse' = <<>>
      /\ UNCHANGED <<bridge, call, made, faults, truth, saved>>
  BY DEF ConnectFails, StartThrows, Disconnect
<1>2. call' = NoCall /\ (faults' = 0 => Quiet)
  BY <1>1 DEF WholeInv, DeskInv, CallPhase, AttendedInv
<1>3. PageStep
  BY <1>1 DEF PageStep, WholeInv, DeskInv
<1> QED BY <1>1, <1>2, <1>3, RestDesk

LEMMA StartRefused == WholeInv /\ StartFailed => PageStep /\ DeskInv'
<1> SUFFICES ASSUME WholeInv, StartFailed PROVE PageStep /\ DeskInv'
  OBVIOUS
<1>1. /\ d.pc = "start" /\ (call.at = "failed" \/ (call.at = "answered" /\ ~call.ok))
      /\ d' = Ready /\ stream' = "off" /\ sse' = <<>> /\ call' = NoCall
      /\ UNCHANGED <<bridge, made, faults, truth, saved>>
  BY DEF StartFailed, StartThrows, Disconnect
<1>2. faults' = 0 => Quiet
  BY <1>1 DEF WholeInv, DeskInv, AttendedInv
<1>3. PageStep
  BY <1>1, NoCallStep DEF PageStep, WholeInv, DeskInv
<1> QED BY <1>1, <1>2, <1>3, RestDesk

\* A request goes out while the dialog starts.
LEMMA SendingDesk ==
  ASSUME WholeInv, PageStep, d.pc \in {"connect", "refresh"}, NEW y, d' = y, IsDialog(y), Same(y, d, {"pc", "stDur"}),
         UNCHANGED saved, call'.at = "sent",
         \/ y.pc = "refresh" /\ call'.op = "status" /\ d.purpose # "recording"
         \/ y.pc = "start" /\ call'.op = "start"
  PROVE  DeskInv'
<1>1. Beginning
  BY BeginningFacts
<1>2. /\ y.phase = d.phase /\ y.cont = d.cont /\ y.owned = d.owned /\ y.cancelled = d.cancelled
      /\ Same(y, d, Guise)
  BY DEF Same, Fields, Guise
<1>3. /\ y.hasRec = d.hasRec /\ y.purpose = d.purpose /\ y.journal = d.journal /\ y.keys = d.keys
      /\ y.seqIssue = d.seqIssue /\ y.units = d.units /\ y.seq = d.seq
      /\ (Counted(d) => Counted(y)) /\ (Suspect(y) => Suspect(d)) /\ (Doubtful(d) => Doubtful(y))
  BY <1>2, GuiseFacts
<1>4. PhaseInv'
  BY <1>1, <1>2, <1>3 DEF PhaseInv, Beginning
<1>5. CallPhase' /\ OwnedInv'
  BY <1>1, <1>2 DEF CallPhase, Asked, OwnedInv, Owning, Beginning
<1>6. JournalInv'
  <2>1. PICK cap, j : cap = d.owned /\ j = d.journal
    OBVIOUS
  <2>2. Truthful(cap, j)'
    BY <2>1 DEF Truthful, WholeInv, DeskInv, JournalInv, PageStep
  <2>3. d'.owned = cap /\ d'.journal = j /\ d'.phase = d.phase /\ d'.pc # "drain"
    BY <1>2, <1>3, <2>1
  <2> QED BY <1>1, <2>1, <2>2, <2>3 DEF JournalInv, WholeInv, DeskInv, PageStep, Beginning
<1>7. FreshInv'
  <2>1. bridge.state = "capturing" /\ bridge.nonce # Foreign /\ d.purpose = "recording" => FALSE
    BY DEF WholeInv, DeskInv, FreshInv, UdpInv, AttendInv, KeyInv
  <2> QED BY <1>1, <1>2, <1>3, <2>1 DEF FreshInv, PageStep, Beginning
<1>8. AttendedInv'
  <2>1. faults' = 0 => Quiet
    BY DEF WholeInv, DeskInv, AttendedInv, PageStep
  <2>2. y.phase \in {"starting", "canceling"} /\ y.cont = "none"
    BY <1>1, <1>2 DEF Beginning
  <2> QED BY <2>1, <2>2 DEF AttendedInv, Quiet, PageStep
<1>9. DoubtInv'
  BY <1>1, <1>2, <1>3 DEF DoubtInv, WholeInv, DeskInv, Beginning
<1>10. SavedInv'
  BY DEF SavedInv, WholeInv, DeskInv, PageStep
<1>11. IsDialog(d)'
  OBVIOUS
<1> QED BY <1>4, <1>5, <1>6, <1>7, <1>8, <1>9, <1>10, <1>11 DEF DeskInv, PageStep

LEMMA PostFacts ==
  ASSUME NEW kept, PostStart(kept)
  PROVE  call'.op = "start" /\ call'.at = "sent"
<1>1. PICK n : Ask("start", n, 0)
  BY DEF PostStart
<1> QED BY <1>1, AskedFacts

LEMMA ConnectedDesk == WholeInv /\ Connected => PageStep /\ DeskInv'
<1> SUFFICES ASSUME WholeInv, Connected PROVE PageStep /\ DeskInv'
  OBVIOUS
<1>1. /\ d.pc = "connect" /\ sse' = <<>> /\ UNCHANGED <<bridge, truth, faults, saved>>
      /\ \/ /\ recovery # 0 /\ Ask("status", 0, 0) /\ d' = [d EXCEPT !.pc = "refresh"] /\ made' = made
         \/ /\ PostStart(0) /\ d' = [d EXCEPT !.pc = "start"]
  BY DEF Connected, Connect
<1>2. IsDialog(d)
  BY DEF WholeInv, DeskInv
<1>3. PICK y : y = d'
  OBVIOUS
<1>4. CASE recovery # 0 /\ Ask("status", 0, 0) /\ d' = [d EXCEPT !.pc = "refresh"] /\ made' = made
  <2>1. call'.op = "status" /\ call'.at = "sent"
    BY <1>4, AskedFacts
  <2>2. Same(y, d, {"pc", "stDur"}) /\ y.pc = "refresh" /\ y.stDur = d.stDur
    BY <1>2, <1>3, <1>4 DEF IsDialog, Same, Fields
  <2>3. IsDialog(y)
    BY <1>2, <2>2 DEF IsDialog, Same, Fields
  <2>4. d.purpose # "recording"
    BY <1>1, <1>4 DEF WholeInv, DeskInv, FreshInv
  <2>5. PageStep
    BY <1>1, <1>4, <2>1 DEF PageStep, WholeInv, DeskInv
  <2> QED BY <1>1, <1>3, <2>1, <2>2, <2>3, <2>4, <2>5, SendingDesk
<1>5. CASE PostStart(0) /\ d' = [d EXCEPT !.pc = "start"]
  <2>1. call'.op = "start" /\ call'.at = "sent" /\ made'.captures = made.captures
    <3>1. PICK kept : kept = 0 /\ PostStart(kept)
      BY <1>5
    <3> QED BY <3>1, PostFacts, PostTyped DEF WholeInv, UdpInv, LifeInv
  <2>2. Same(y, d, {"pc", "stDur"}) /\ y.pc = "start" /\ y.stDur = d.stDur
    BY <1>2, <1>3, <1>5 DEF IsDialog, Same, Fields
  <2>3. IsDialog(y)
    BY <1>2, <2>2 DEF IsDialog, Same, Fields
  <2>4. PageStep
    BY <1>1, <2>1 DEF PageStep, WholeInv, DeskInv
  <2> QED BY <1>1, <1>3, <2>1, <2>2, <2>3, <2>4, SendingDesk
<1> QED BY <1>1, <1>4, <1>5

LEMMA RefreshedDesk == WholeInv /\ Refreshed => PageStep /\ DeskInv'
<1> SUFFICES ASSUME WholeInv, Refreshed PROVE PageStep /\ DeskInv'
  OBVIOUS
<1> DEFINE dur == IF call.at = "answered" THEN call.ans.dur ELSE d.stDur
<1>1. /\ d.pc = "refresh" /\ PostStart(StillNeeded(recovery)) /\ d' = [d EXCEPT !.pc = "start", !.stDur = dur]
      /\ UNCHANGED <<bridge, truth, faults, saved, sse>>
  BY DEF Refreshed
<1>2. IsDialog(d)
  BY DEF WholeInv, DeskInv
<1>3. dur \in Int
  BY <1>2 DEF IsDialog, WholeInv, HonestInv, CallOk, Honest, Statuses
<1> HIDE DEF dur
<1>4. PICK y : y = d'
  OBVIOUS
<1>5. Same(y, d, {"pc", "stDur"}) /\ y.pc = "start" /\ y.stDur = dur
  BY <1>1, <1>2, <1>4 DEF IsDialog, Same, Fields
<1>6. IsDialog(y)
  BY <1>2, <1>3, <1>5 DEF IsDialog, Same, Fields
<1>7. call'.op = "start" /\ call'.at = "sent" /\ made'.captures = made.captures
  <2>1. PICK kept : kept = StillNeeded(recovery) /\ PostStart(kept)
    BY <1>1
  <2> QED BY <2>1, PostFacts, PostTyped DEF WholeInv, UdpInv, LifeInv
<1>8. PageStep
  BY <1>1, <1>7 DEF PageStep, WholeInv, DeskInv
<1> QED BY <1>1, <1>4, <1>5, <1>6, <1>7, <1>8, SendingDesk


\* The start was granted: the dialog owns the capture that the bridge has open for it.
LEMMA OwningDesk ==
  ASSUME WholeInv, Keeps, UNCHANGED <<bridge, made, faults, saved, recovery>>,
         d.pc = "start", call.at = "answered", call.ok, NEW c \in 1..made.captures, call.ans.cap = c,
         owned' = [cap |-> c, nonce |-> call.nonce],
         NEW y, d' = y, IsDialog(y), y.owned = c, Truthful(c, y.journal)', Counted(y), Suspect(y) => Doubtful(y),
         y.hasRec => ~truth'[c].sampled, y.cont # "leave",
         \/ y.pc = "idle" /\ y.phase \in {"preflighting", "capturing"} /\ call' = NoCall
         \/ y.pc = "get" /\ y.phase \in {"starting", "canceling"} /\ Ask("status", 0, 0),
         PhaseInv'
  PROVE  DeskInv'
<1>1. call'.at # "answered" /\ call'.at # "failed" /\ (y.pc = "get" => call'.op = "status" /\ call'.at = "sent")
  BY NoCallOp, AskedFacts
<1>2. made.captures \in Nat /\ c # 0
  BY Counts DEF WholeInv
<1>3. call.nonce = recovery
  BY DEF WholeInv, UdpInv, AttendInv, CallInv, DeskInv, CallPhase, Asked
<1>4. CallPhase'
  BY <1>1 DEF CallPhase, Asked
<1>5. OwnedInv'
  BY <1>3 DEF OwnedInv, Owning
<1>6. JournalInv'
  <2>1. PICK j : j = y.journal
    OBVIOUS
  <2>2. Truthful(c, j)'
    BY <2>1
  <2>3. d'.owned = c /\ d'.journal = j /\ d'.phase # "finalize-error" /\ d'.pc # "drain"
    BY <2>1
  <2> QED BY <1>2, <2>2, <2>3 DEF JournalInv
<1>7. FreshInv'
  BY DEF FreshInv
<1>8. AttendedInv'
  <2>1. faults = 0 => bridge.state = "capturing" /\ bridge.cap = c
    BY DEF WholeInv, DeskInv, AttendedInv
  <2> QED BY <1>1, <2>1 DEF AttendedInv, Opened
<1>9. DoubtInv'
  BY <1>2 DEF DoubtInv
<1>10. SavedInv'
  BY DEF SavedInv, WholeInv, DeskInv, Keeps
<1>11. IsDialog(d)'
  OBVIOUS
<1> QED BY <1>4, <1>5, <1>6, <1>7, <1>8, <1>9, <1>10, <1>11 DEF DeskInv, WholeInv

\* The operator sees input of a capture.
LEMMA SampledFacts ==
  ASSUME WholeInv, NEW c \in 1..made.captures, NEW seen \in BOOLEAN, UNCHANGED <<bridge, made, sse>>, call' = NoCall,
         LifeInv', truth' = [truth EXCEPT ![c].sampled = @ \/ seen]
  PROVE  HonestInv' /\ Keeps /\ (truth'[c].sampled => truth[c].sampled \/ seen)
<1>1. made.captures \in Nat /\ made.captures <= MaxCaptures /\ MaxCaptures \in Nat /\ c \in 1..MaxCaptures
  BY Counts DEF WholeInv
<1> DEFINE taken == truth[c].sampled \/ seen
           t == [truth[c] EXCEPT !.sampled = taken]
<1>2. truth[c] \in Truths /\ taken \in BOOLEAN
  BY <1>1 DEF WholeInv, UdpInv, LifeInv, LinkTyped, Truths
<1>3. truth' = [truth EXCEPT ![c] = t]
  OBVIOUS
<1> HIDE DEF taken
<1>4. /\ t.datagrams = truth[c].datagrams /\ t.ended = truth[c].ended /\ t.dirty = truth[c].dirty
  BY <1>2 DEF Truths
<1>5. t.sampled = taken
  BY <1>2 DEF Truths
<1> HIDE DEF t
<1>6. /\ \A e \in 1..MaxCaptures : /\ truth'[e].datagrams = truth[e].datagrams
                                   /\ truth'[e].ended = truth[e].ended /\ truth'[e].dirty = truth[e].dirty
      /\ \A e \in 1..MaxCaptures : e # c => truth'[e] = truth[e]
      /\ truth'[c] = t
  BY <1>1, <1>3, <1>4 DEF WholeInv, UdpInv, LifeInv, LinkTyped
<1>7. Keeps
  BY <1>1, <1>6 DEF Keeps
<1>8. SseOk'
  BY <1>7, SseStays DEF WholeInv, UdpInv, HonestInv
<1>9. CallOk' /\ ZeroOk'
  BY NoCallOp DEF CallOk, ZeroOk, WholeInv, HonestInv
<1>10. UnsampledOk'
  BY <1>1, <1>6 DEF UnsampledOk, WholeInv, HonestInv
<1>11. truth'[c].sampled => truth[c].sampled \/ seen
  BY <1>5, <1>6 DEF taken
<1> QED BY <1>7, <1>8, <1>9, <1>10, <1>11 DEF HonestInv

LEMMA AnsweredFacts ==
  WholeInv /\ StartAnswered =>
    /\ Beginning /\ IsDialog(d) /\ Unstarted(d) /\ Counted(d) /\ (Suspect(d) => Doubtful(d)) /\ d.journal = NoJournal
    /\ d.pc = "start" /\ call.at = "answered" /\ call.ok /\ Honest(call.ans) /\ call.ans.cap \in 1..made.captures
    /\ owned' = [cap |-> call.ans.cap, nonce |-> call.nonce]
    /\ UNCHANGED <<bridge, made, faults, saved, recovery, sse>>
<1> SUFFICES ASSUME WholeInv, StartAnswered
    PROVE /\ Beginning /\ IsDialog(d) /\ Unstarted(d) /\ Counted(d) /\ (Suspect(d) => Doubtful(d))
          /\ d.journal = NoJournal
          /\ d.pc = "start" /\ call.at = "answered" /\ call.ok /\ Honest(call.ans)
          /\ call.ans.cap \in 1..made.captures
          /\ owned' = [cap |-> call.ans.cap, nonce |-> call.nonce]
          /\ UNCHANGED <<bridge, made, faults, saved, recovery, sse>>
  OBVIOUS
<1>1. /\ d.pc = "start" /\ call.at = "answered" /\ call.ok
      /\ owned' = [cap |-> call.ans.cap, nonce |-> call.nonce]
      /\ UNCHANGED <<bridge, made, faults, saved, recovery, sse>>
  BY DEF StartAnswered
<1>2. Honest(call.ans) /\ call.ans.cap # 0
  BY <1>1 DEF WholeInv, DeskInv, CallPhase, Asked, HonestInv, CallOk
<1>3. call.ans.cap \in 1..made.captures
  BY <1>2, Counts DEF WholeInv, Honest, Statuses
<1> QED BY <1>1, <1>2, <1>3, BeginningFacts

\* The operator had cancelled: what was opened is stopped at once.
LEMMA CancelledAnswered == WholeInv /\ StartAnswered /\ d.cancelled => WholeInv'
<1> SUFFICES ASSUME WholeInv, StartAnswered, d.cancelled PROVE WholeInv'
  OBVIOUS
<1>1. PICK c, y : c = call.ans.cap /\ y = d'
  OBVIOUS
<1>2. /\ d' = [d EXCEPT !.owned = c, !.pc = "get", !.cont = "cancel"] /\ Ask("status", 0, 0) /\ truth' = truth
  BY <1>1 DEF StartAnswered
<1>3. /\ Beginning /\ IsDialog(d) /\ Counted(d) /\ (Suspect(d) => Doubtful(d)) /\ d.journal = NoJournal
      /\ d.pc = "start" /\ call.at = "answered" /\ call.ok /\ c \in 1..made.captures /\ ~d.hasRec
      /\ owned' = [cap |-> c, nonce |-> call.nonce] /\ UNCHANGED <<bridge, made, faults, saved, recovery, sse>>
  BY <1>1, AnsweredFacts DEF Unstarted
<1>4. Same(y, d, {"owned", "pc", "cont"}) /\ y.owned = c /\ y.pc = "get" /\ y.cont = "cancel"
  BY <1>1, <1>2, <1>3 DEF IsDialog, Same, Fields
<1>5. y.phase = d.phase /\ Same(y, d, Guise)
  BY <1>4 DEF Same, Fields, Guise
<1>6. c \in Nat /\ c # 0 /\ made.captures \in Nat
  BY <1>3, Counts DEF WholeInv
<1>7. IsDialog(y)
  BY <1>3, <1>4, <1>6 DEF IsDialog, Same, Fields
<1>8. y.journal = NoJournal /\ ~y.hasRec /\ Counted(y) /\ (Suspect(y) => Doubtful(y))
  BY <1>3, <1>5, GuiseFacts
<1>9. call'.at = "sent"
  BY <1>2, AskedFacts
<1>10. PageStep
  BY <1>2, <1>3, <1>9 DEF PageStep, WholeInv, DeskInv
<1>11. Keeps
  BY <1>2, <1>3, KeepsSame DEF WholeInv, UdpInv
<1>12. PhaseInv'
  BY <1>1, <1>3, <1>4, <1>5, <1>6, <1>8 DEF PhaseInv, LettingGo, Beginning
<1>13. Truthful(c, y.journal)'
  BY <1>8, NoJournalTruthful DEF Truthful
<1>14. y.phase \in {"starting", "canceling"} /\ y.cont # "leave"
  BY <1>3, <1>4, <1>5 DEF Beginning
<1>15. DeskInv'
  BY <1>1, <1>2, <1>3, <1>4, <1>7, <1>8, <1>11, <1>12, <1>13, <1>14, OwningDesk
<1> QED BY <1>10, <1>15, PageWhole DEF Next, Await

LEMMA PreflightAnswered == WholeInv /\ StartAnswered /\ ~d.cancelled /\ d.purpose = "preflight" => WholeInv'
<1> SUFFICES ASSUME WholeInv, StartAnswered, ~d.cancelled, d.purpose = "preflight" PROVE WholeInv'
  OBVIOUS
<1>1. PICK c, y, seen : c = call.ans.cap /\ y = d' /\ seen = (d.purpose = "preflight") /\ seen \in BOOLEAN
  OBVIOUS
<1>2. /\ d' = [d EXCEPT !.owned = c, !.phase = "preflighting", !.pc = "idle", !.pend = <<>>]
      /\ call' = NoCall /\ truth' = [truth EXCEPT ![c].sampled = @ \/ seen]
  BY <1>1 DEF StartAnswered
<1>3. /\ Beginning /\ IsDialog(d) /\ Counted(d) /\ (Suspect(d) => Doubtful(d)) /\ d.journal = NoJournal
      /\ d.pc = "start" /\ call.at = "answered" /\ call.ok /\ c \in 1..made.captures /\ ~d.hasRec
      /\ owned' = [cap |-> c, nonce |-> call.nonce] /\ UNCHANGED <<bridge, made, faults, saved, recovery, sse>>
  BY <1>1, AnsweredFacts DEF Unstarted
<1>4. /\ Same(y, d, {"owned", "pc", "phase", "pend"}) /\ y.owned = c /\ y.pc = "idle" /\ y.phase = "preflighting"
      /\ y.pend = <<>>
  BY <1>1, <1>2, <1>3 DEF IsDialog, Same, Fields
<1>5. y.cont = d.cont /\ y.purpose = d.purpose /\ Same(y, d, Guise)
  BY <1>4 DEF Same, Fields, Guise
<1>6. c \in Nat /\ c # 0 /\ made.captures \in Nat
  BY <1>3, Counts DEF WholeInv
<1>7. IsDialog(y)
  <2>1. IsSeq(<<>>) /\ Len(<<>>) = 0
    BY DEF IsSeq
  <2>2. IsSeq(y.pend) /\ \A i \in 1..Len(y.pend) : IsDatagram(y.pend[i])
    BY <1>4, <2>1
  <2> QED BY <1>3, <1>4, <1>6, <2>2 DEF IsDialog, Same, Fields
<1>8. y.journal = NoJournal /\ ~y.hasRec /\ Counted(y) /\ (Suspect(y) => Doubtful(y))
  BY <1>3, <1>5, GuiseFacts
<1>9. UdpInv'
  BY AnsweredKeys DEF WholeInv
<1>10. HonestInv' /\ Keeps
  BY <1>1, <1>2, <1>3, <1>9, SampledFacts DEF UdpInv
<1>11. y.cont = "none"
  BY <1>3, <1>5 DEF Beginning
<1>12. PhaseInv'
  BY <1>1, <1>3, <1>4, <1>5, <1>6, <1>8, <1>11 DEF PhaseInv, Previewing
<1>13. Truthful(c, y.journal)'
  BY <1>8, NoJournalTruthful DEF Truthful
<1>14. y.phase \in {"preflighting", "capturing"} /\ y.cont # "leave"
  BY <1>4, <1>11
<1>15. DeskInv'
  BY <1>1, <1>2, <1>3, <1>4, <1>7, <1>8, <1>10, <1>12, <1>13, <1>14, OwningDesk
<1> QED BY <1>9, <1>10, <1>15 DEF WholeInv

LEMMA RecordingAnswered == WholeInv /\ StartAnswered /\ ~d.cancelled /\ d.purpose # "preflight" => WholeInv'
<1> SUFFICES ASSUME WholeInv, StartAnswered, ~d.cancelled, d.purpose # "preflight" PROVE WholeInv'
  OBVIOUS
<1>1. PICK c, y, seen, st : /\ c = call.ans.cap /\ y = d' /\ seen = (d.purpose = "preflight") /\ seen \in BOOLEAN
                            /\ st = call.ans
  OBVIOUS
<1>2. PICK x : x = [d EXCEPT !.stDur = st.dur]
  OBVIOUS
<1>3. PICK e : e = Establish(x, st)
  OBVIOUS
<1>4. PICK a : a = AcceptStatus(e, st)
  OBVIOUS
<1>5. /\ d' = [a EXCEPT !.phase = "capturing", !.pc = "idle"]
      /\ call' = NoCall /\ truth' = [truth EXCEPT ![c].sampled = @ \/ seen]
  BY <1>1, <1>2, <1>3, <1>4 DEF StartAnswered
<1>6. /\ Beginning /\ IsDialog(d) /\ Unstarted(d) /\ Counted(d) /\ (Suspect(d) => Doubtful(d)) /\ d.journal = NoJournal
      /\ d.pc = "start" /\ call.at = "answered" /\ call.ok /\ c \in 1..made.captures /\ Honest(st)
      /\ owned' = [cap |-> c, nonce |-> call.nonce] /\ UNCHANGED <<bridge, made, faults, saved, recovery, sse>>
  BY <1>1, AnsweredFacts
<1>7. st \in Statuses /\ st.dur \in Int /\ Truthful(st.cap, st.journal) /\ st.cap = c /\ now \in Int
  BY <1>1, <1>6, Counts DEF Honest, Statuses, WholeInv
<1>8. Same(x, d, {"stDur"}) /\ x.stDur = st.dur
  BY <1>2, <1>6 DEF IsDialog, Same, Fields
<1>9. IsDialog(x) /\ Same(x, d, Guise)
  BY <1>6, <1>7, <1>8 DEF IsDialog, Same, Fields, Guise
<1>10. Unstarted(x) /\ x.journal = NoJournal /\ (Suspect(x) => Doubtful(x))
  <2>1. x.owned = d.owned
    BY <1>8 DEF Same, Fields
  <2> QED BY <1>6, <1>9, <2>1, GuiseFacts DEF Unstarted
<1>11. /\ IsDialog(e) /\ Same(e, x, Inputs \cup {"owned", "hasRec", "t0"})
       /\ e.hasRec /\ e.owned = c /\ e.journal = NoJournal /\ Counted(e) /\ (Suspect(e) => Doubtful(e))
  BY <1>3, <1>7, <1>9, <1>10, EstablishFacts
<1>12. Stage(a, e) /\ (a.journal = e.journal \/ a.journal = st.journal)
  BY <1>4, <1>7, <1>11, StatusStage
<1>13. IsDialog(a) /\ Counted(a) /\ (Suspect(a) => Doubtful(a)) /\ a.hasRec = e.hasRec /\ a.owned = c
  <2>1. IsDialog(a) /\ Counted(a) /\ (Suspect(a) => Doubtful(a))
    BY <1>11, <1>12 DEF Stage
  <2>2. a.hasRec = e.hasRec /\ a.owned = e.owned
    BY <1>12, StageFacts
  <2> QED BY <1>11, <2>1, <2>2
<1>14. Same(y, a, {"phase", "pc"}) /\ y.phase = "capturing" /\ y.pc = "idle"
  BY <1>1, <1>5, <1>13 DEF IsDialog, Same, Fields
<1>15. IsDialog(y)
  BY <1>13, <1>14 DEF IsDialog, Same, Fields
<1>16. Same(y, a, Guise) /\ y.owned = c
  BY <1>13, <1>14 DEF Same, Fields, Guise
<1>17. y.journal = a.journal /\ y.hasRec /\ Counted(y) /\ (Suspect(y) => Doubtful(y))
  BY <1>11, <1>13, <1>16, GuiseFacts
<1>18. y.cont = d.cont /\ y.purpose = d.purpose
  <2>1. x.cont = d.cont /\ x.purpose = d.purpose
    BY <1>8 DEF Same, Fields
  <2>2. e.cont = x.cont /\ e.purpose = x.purpose
    BY <1>11 DEF Same, Fields, Inputs
  <2>3. a.cont = e.cont /\ a.purpose = e.purpose
    BY <1>12, StageFacts
  <2>4. y.cont = a.cont /\ y.purpose = a.purpose
    BY <1>14 DEF Same, Fields
  <2> QED BY <2>1, <2>2, <2>3, <2>4
<1>19. d.purpose = "recording" /\ y.cont = "none" /\ c # 0
  BY <1>6, <1>18, Counts DEF Beginning, WholeInv
<1>20. PhaseInv'
  BY <1>1, <1>14, <1>16, <1>17, <1>18, <1>19 DEF PhaseInv, Recording
<1>21. UdpInv'
  BY AnsweredKeys DEF WholeInv
<1>22. HonestInv' /\ Keeps /\ (truth'[c].sampled => truth[c].sampled)
  BY <1>1, <1>5, <1>6, <1>19, <1>21, SampledFacts DEF UdpInv
<1>23. ~truth'[c].sampled
  BY <1>1, <1>6, <1>19, <1>22 DEF WholeInv, DeskInv, FreshInv
<1>24. Truthful(c, y.journal)'
  <2>1. PICK j : j = y.journal
    OBVIOUS
  <2>2. Truthful(c, j)
    BY <1>7, <1>11, <1>12, <1>17, <2>1, NoJournalTruthful DEF Truthful
  <2> QED BY <1>21, <1>22, <2>1, <2>2, TruthfulStays DEF WholeInv, UdpInv
<1>25. y.phase \in {"preflighting", "capturing"} /\ y.cont # "leave"
  BY <1>14, <1>19
<1>26. call.ans.cap = c /\ d' = y
  BY <1>1
<1>27. DeskInv'
  BY <1>5, <1>6, <1>14, <1>15, <1>16, <1>17, <1>20, <1>22, <1>23, <1>24, <1>25, <1>26, OwningDesk
<1> QED BY <1>21, <1>22, <1>27 DEF WholeInv

LEMMA AnsweredWhole == WholeInv /\ StartAnswered => WholeInv'
  BY CancelledAnswered, PreflightAnswered, RecordingAnswered


-----------------------------------------------------------------------------
(* A stop, await by await *)

\* The dialog while a capture is stopped.
LEMMA EndingFacts ==
  WholeInv /\ d.pc \in {"get", "stop", "drain"} =>
    /\ IsDialog(d) /\ d.owned # 0 /\ Truthful(d.owned, d.journal)
    /\ d.pc = "drain" => d.cont \in {"save", "discard"}
    /\ d.cont \in {"save", "discard", "cancel", "beginRecording", "stopPreflight", "leave"}
    /\ d.cont \in {"save", "discard"} =>
         EndingRecording /\ d.hasRec /\ d.purpose = "recording" /\ Counted(d) /\ (Suspect(d) => Doubtful(d))
<1> SUFFICES ASSUME WholeInv, d.pc \in {"get", "stop", "drain"}
    PROVE /\ IsDialog(d) /\ d.owned # 0 /\ Truthful(d.owned, d.journal)
          /\ d.pc = "drain" => d.cont \in {"save", "discard"}
          /\ d.cont \in {"save", "discard", "cancel", "beginRecording", "stopPreflight", "leave"}
          /\ d.cont \in {"save", "discard"} =>
               EndingRecording /\ d.hasRec /\ d.purpose = "recording" /\ Counted(d) /\ (Suspect(d) => Doubtful(d))
  OBVIOUS
<1>1. LettingGo \/ EndingPreview \/ EndingRecording \/ Leaving
  BY ReadyFacts DEF WholeInv, DeskInv, PhaseInv, AtRest, Beginning, LettingGo, Previewing, Recording, EndingPreview,
    EndingRecording, Leaving, Refused, Done
<1>2. /\ d.owned # 0 /\ (d.pc = "drain" => d.cont \in {"save", "discard"})
      /\ d.cont \in {"save", "discard", "cancel", "beginRecording", "stopPreflight", "leave"}
      /\ d.cont \in {"save", "discard"} => EndingRecording
  BY <1>1 DEF LettingGo, EndingPreview, EndingRecording, Leaving
<1>3. EndingRecording => d.hasRec /\ d.purpose = "recording" /\ Counted(d) /\ (Suspect(d) => Doubtful(d))
  BY DEF EndingRecording, WholeInv, DeskInv, DoubtInv
<1> QED BY <1>2, <1>3 DEF WholeInv, DeskInv, JournalInv

\* Without faults a stop that is over has left nothing open.
LEMMA EndedQuiet ==
  WholeInv /\ faults = 0 /\ call.at \in {"answered", "failed"} =>
    /\ d.pc = "get" /\ (call.at = "failed" \/ call.ans.cap # d.owned \/ call.ans.state = "stopped") => Quiet
    /\ d.pc = "stop" => Quiet
  BY DEF WholeInv, DeskInv, AttendedInv

Still == UNCHANGED <<bridge, made, truth, faults>>

\* The stop threw.
LEMMA ThrownDesk ==
  ASSUME WholeInv, d.pc \in {"get", "stop"}, Still, NEW x, Stage(x, d), Truthful(d.owned, x.journal), AfterThrow(x),
         faults = 0 => Quiet
  PROVE  PageStep /\ DeskInv'
<1>1. /\ call' = NoCall
      /\ IF x.cont \in {"save", "discard"} THEN StopThrew(x)
         ELSE d' = Ready /\ stream' = "off" /\ sse' = <<>> /\ saved' = saved
  BY DEF AfterThrow, Disconnect
<1>2. x.cont = d.cont /\ IsDialog(x)
  BY StageFacts
<1>3. CASE x.cont \in {"save", "discard"}
  <2>1. Over(x)
    BY <1>1, <1>2, <1>3, StopThrewFacts
  <2>2. stream' = "off" /\ sse' = <<>> /\ Outcome(x, x.journal)
    BY <2>1 DEF Over
  <2>3. PageStep
    BY <1>1, <2>2, NoCallStep DEF PageStep, Still, WholeInv, DeskInv
  <2>4. Same(x, d, Inputs \cup {"final"})
    BY DEF Stage, Same
  <2>5. d.owned # 0 /\ d.hasRec
    BY <1>2, <1>3, EndingFacts
  <2>6. PICK journal : journal = x.journal
    OBVIOUS
  <2> QED BY <1>1, <2>2, <2>3, <2>4, <2>5, <2>6, OverDesk DEF Still
<1>4. CASE x.cont \notin {"save", "discard"}
  <2>1. d' = Ready /\ stream' = "off" /\ sse' = <<>> /\ saved' = saved
    BY <1>1, <1>4
  <2>2. PageStep
    BY <1>1, <2>1, NoCallStep DEF PageStep, Still, WholeInv, DeskInv
  <2> QED BY <1>1, <2>1, <2>2, RestDesk DEF Still
<1> QED BY <1>3, <1>4

\* The recording x of the dialog ends with everything that was said about it.
LEMMA StoppedDesk ==
  ASSUME WholeInv, d.cont \in {"save", "discard"}, d.pc \in {"get", "stop", "drain"}, Still, NEW x, IsDialog(x),
         Same(x, d, Inputs \cup {"final"}), Counted(x), Suspect(x) => Doubtful(x), x.final \in Statuses,
         x.final.err = "none" \/ x.keys # {}, Truthful(d.owned, x.journal), Stopped(x), call' = NoCall,
         faults = 0 => Quiet
  PROVE  PageStep /\ DeskInv'
<1>1. d.owned # 0 /\ d.hasRec
  BY EndingFacts
<1>2. x.hasRec
  BY <1>1 DEF Same, Fields, Inputs
<1>3. Over(x)
  BY <1>2, StoppedFacts
<1>4. stream' = "off" /\ sse' = <<>> /\ Outcome(x, x.journal)
  BY <1>3 DEF Over
<1>5. PageStep
  BY <1>4, NoCallStep DEF PageStep, Still, WholeInv, DeskInv
<1>6. PICK journal : journal = x.journal
  OBVIOUS
<1> QED BY <1>1, <1>4, <1>5, <1>6, OverDesk DEF Still

\* The capture has stopped, but its last datagrams are on their way.
LEMMA DrainingDesk ==
  ASSUME WholeInv, d.cont \in {"save", "discard"}, d.pc \in {"get", "stop"}, Still, NEW x, IsDialog(x),
         Same(x, d, Inputs \cup {"final"}), Counted(x), Suspect(x) => Doubtful(x), x.final \in Statuses,
         x.final.err = "none" \/ x.keys # {}, Truthful(d.owned, x.journal),
         d' = [x EXCEPT !.pc = "drain"], UNCHANGED <<sse, saved>>, call' = NoCall, faults = 0 => Quiet
  PROVE  PageStep /\ DeskInv'
<1>1. EndingRecording /\ d.owned # 0 /\ d.hasRec
  BY EndingFacts
<1>2. PICK y : y = d'
  OBVIOUS
<1>3. Same(y, x, {"pc"}) /\ y.pc = "drain"
  BY <1>2 DEF IsDialog, Same, Fields
<1>4. IsDialog(y) /\ Same(y, x, Guise) /\ Same(y, d, Inputs \cup {"final", "pc"})
  BY <1>3 DEF IsDialog, Same, Fields, Guise
<1>5. /\ y.phase = d.phase /\ y.cont = d.cont /\ y.owned = d.owned /\ y.hasRec = d.hasRec /\ y.purpose = d.purpose
  BY <1>4 DEF Same, Fields, Inputs
<1>6. /\ y.journal = x.journal /\ y.keys = x.keys /\ y.final = x.final /\ Counted(y) /\ (Suspect(y) => Doubtful(y))
  BY <1>4, GuiseFacts
<1>7. PageStep
  BY NoCallStep DEF PageStep, Still, WholeInv, DeskInv
<1>8. PhaseInv' /\ CallPhase' /\ OwnedInv'
  BY <1>1, <1>2, <1>3, <1>5 DEF PhaseInv, EndingRecording, CallPhase, OwnedInv, Owning
<1>9. JournalInv'
  <2>1. PICK cap, j : cap = d.owned /\ j = x.journal
    OBVIOUS
  <2>2. Truthful(cap, j)'
    BY <2>1 DEF Truthful, Still
  <2>3. d'.owned = cap /\ d'.journal = j /\ d'.phase = "stopping" /\ d'.final \in Statuses /\ d'.owned <= made'.captures
        /\ d'.owned # 0
    BY <1>1, <1>2, <1>5, <1>6, <2>1 DEF EndingRecording, WholeInv, DeskInv, JournalInv, Still
  <2> QED BY <2>2, <2>3 DEF JournalInv
<1>10. FreshInv'
  BY <1>1, <1>2, <1>3, <1>5 DEF FreshInv, WholeInv, DeskInv, Still
<1>11. AttendedInv'
  BY <1>1, <1>2, <1>3, <1>5, NoCallStep DEF AttendedInv, Quiet, Still, EndingRecording
<1>12. DoubtInv'
  BY <1>1, <1>2, <1>3, <1>5, <1>6 DEF DoubtInv, EndingRecording
<1>13. SavedInv'
  BY DEF SavedInv, WholeInv, DeskInv, Still
<1> QED BY <1>2, <1>4, <1>7, <1>8, <1>9, <1>10, <1>11, <1>12, <1>13 DEF DeskInv, PageStep

\* The stop returned the status of the capture.
LEMMA ReturnedDesk ==
  ASSUME WholeInv, d.pc \in {"get", "stop"}, Still, NEW x, Stage(x, d), Truthful(d.owned, x.journal), NEW st,
         Honest(st), d.cont \in {"save", "discard"} => st.cap = d.owned, d.cont = "beginRecording" => recovery' = 0,
         AfterStop(x, st), faults = 0 => Quiet
  PROVE  PageStep /\ DeskInv'
<1>1. call' = NoCall /\ x.cont = d.cont
  BY StageFacts DEF AfterStop
<1>2. /\ x.cont = "beginRecording" => Begin("recording") /\ stream' = "off" /\ sse' = <<>> /\ saved' = saved
      /\ x.cont \in {"save", "discard"} =>
            LET y == [AcceptStatus(x, st) EXCEPT !.final = st] IN
            IF Drained(y) THEN Stopped(y)
            ELSE d' = [y EXCEPT !.pc = "drain"] /\ UNCHANGED <<stream, sse, saved>>
      /\ x.cont \notin {"beginRecording", "save", "discard"} =>
            d' = Ready /\ stream' = "off" /\ sse' = <<>> /\ saved' = saved
  BY DEF AfterStop, Disconnect
<1>3. CASE x.cont = "beginRecording"
  <2>1. PICK purpose : purpose = "recording"
    OBVIOUS
  <2>2. PageStep
    BY <1>1, <1>2, <1>3, NoCallStep DEF PageStep, Still, WholeInv, DeskInv
  <2>3. purpose \in {"preflight", "recording"} /\ Begin(purpose) /\ recovery' = 0 /\ saved' = saved
    BY <1>1, <1>2, <1>3, <2>1
  <2> QED BY <1>1, <2>2, <2>3, BegunDesk DEF Still
<1>4. CASE x.cont \in {"save", "discard"}
  <2>1. PICK a, y : a = AcceptStatus(x, st) /\ y = [a EXCEPT !.final = st]
    OBVIOUS
  <2>2. (Drained(y) /\ Stopped(y)) \/ (d' = [y EXCEPT !.pc = "drain"] /\ UNCHANGED <<stream, sse, saved>>)
    BY <1>2, <1>4, <2>1
  <2>3. /\ EndingRecording /\ d.hasRec /\ d.purpose = "recording" /\ Counted(d) /\ (Suspect(d) => Doubtful(d))
        /\ d.owned # 0 /\ st.cap = d.owned /\ st \in Statuses /\ Truthful(st.cap, st.journal)
    BY <1>1, <1>4, EndingFacts DEF Honest
  <2>4. IsDialog(x) /\ x.purpose = d.purpose /\ x.owned = d.owned
    BY StageFacts
  <2>5. /\ Stage(a, x) /\ (a.journal = x.journal \/ a.journal = st.journal)
        /\ (st.err # "none" => a.keys # {})
    BY <2>1, <2>3, <2>4, StatusStage
  <2>6. Stage(a, d)
    BY <2>5, StageTrans
  <2>7. IsDialog(a) /\ Counted(a) /\ (Suspect(a) => Doubtful(a)) /\ Same(a, d, Inputs)
    BY <2>3, <2>6 DEF Stage
  <2>8. Same(y, a, {"final"}) /\ y.final = st
    BY <2>1, <2>7 DEF IsDialog, Same, Fields
  <2>9. IsDialog(y)
    BY <2>7, <2>8 DEF IsDialog, Same, Fields
  <2>10. /\ y.journal = a.journal /\ y.keys = a.keys /\ y.seqIssue = a.seqIssue /\ y.seq = a.seq /\ y.units = a.units
         /\ y.reason = a.reason /\ y.hasRec = a.hasRec /\ y.rec = a.rec /\ y.pendEvents = a.pendEvents
         /\ y.logOk = a.logOk
    BY <2>8 DEF Same, Fields
  <2>11. Counted(y) /\ (Suspect(y) => Doubtful(y)) /\ (y.final.err = "none" \/ y.keys # {}) /\ y.final \in Statuses
    <3>1. Counted(y)
      BY <2>7, <2>10 DEF Counted
    <3>2. Suspect(y) => Doubtful(y)
      BY <2>7, <2>10 DEF Suspect, Doubtful
    <3> QED BY <2>3, <2>5, <2>8, <2>10, <3>1, <3>2
  <2>12. Same(y, d, Inputs \cup {"final"})
    BY <2>7, <2>8 DEF Same
  <2>13. Truthful(d.owned, y.journal)
    BY <2>3, <2>5, <2>10
  <2>14. d.cont \in {"save", "discard"}
    BY <1>1, <1>4
  <2>15. CASE Drained(y) /\ Stopped(y)
    BY <1>1, <2>9, <2>11, <2>12, <2>13, <2>14, <2>15, StoppedDesk
  <2>16. CASE d' = [y EXCEPT !.pc = "drain"] /\ UNCHANGED <<stream, sse, saved>>
    BY <1>1, <2>9, <2>11, <2>12, <2>13, <2>14, <2>16, DrainingDesk
  <2> QED BY <2>2, <2>15, <2>16
<1>5. CASE x.cont \notin {"beginRecording", "save", "discard"}
  <2>1. PageStep
    BY <1>1, <1>2, <1>5, NoCallStep DEF PageStep, Still, WholeInv, DeskInv
  <2> QED BY <1>1, <1>2, <1>5, <2>1, RestDesk DEF Still
<1> QED BY <1>3, <1>4, <1>5

\* The client lets go of a lease: the nonce of a capture that has stopped is dropped.
LEMMA LetGo ==
  ASSUME WholeInv, d.pc \in {"get", "stop"}, d.cont = "beginRecording", Release
  PROVE  recovery' = 0
  BY DEF WholeInv, DeskInv, OwnedInv, Owning, Release

LEMMA OwnedCap == WholeInv /\ d.pc \in {"get", "stop"} /\ d.cont # "leave" => owned.cap = d.owned
  BY DEF WholeInv, DeskInv, OwnedInv, Owning


\* The answer that is awaited tells the truth, and so does the journal taken from it.
LEMMA TakenFacts ==
  ASSUME WholeInv, d.pc \in {"get", "stop"}, call.at = "answered", NEW st, st = call.ans
  PROVE  LET x == AcceptStatus(d, st) IN
         Honest(st) /\ Stage(x, d) /\ Truthful(d.owned, x.journal)
<1> DEFINE x == AcceptStatus(d, st)
<1>1. Honest(st)
  BY DEF WholeInv, HonestInv, CallOk
<1>2. /\ IsDialog(d) /\ Truthful(d.owned, d.journal) /\ st \in Statuses /\ Truthful(st.cap, st.journal)
  BY <1>1, EndingFacts DEF Honest
<1>3. /\ Stage(x, d)
      /\ x.journal = d.journal \/ (x.journal = st.journal /\ st.cap = d.owned)
  <2>1. PICK z : z = d
    OBVIOUS
  <2>2. IsDialog(z)
    BY <1>2, <2>1
  <2>3. LET y == AcceptStatus(z, st) IN
         /\ Stage(y, z)
         /\ y.journal = z.journal \/ (y.journal = st.journal /\ st.cap = z.owned /\ z.owned # 0)
    BY <1>2, <2>2, StatusStage
  <2> QED BY <2>1, <2>3
<1>4. Truthful(d.owned, x.journal)
  BY <1>2, <1>3
<1> QED BY <1>1, <1>3, <1>4

LEMMA SelfFacts ==
  ASSUME WholeInv, d.pc \in {"get", "stop", "drain"}
  PROVE  \E x : x = d /\ Stage(x, d) /\ Truthful(d.owned, x.journal)
<1>1. PICK x : x = d
  OBVIOUS
<1>2. IsDialog(x) /\ Truthful(d.owned, x.journal)
  BY <1>1, EndingFacts
<1>3. Stage(x, x)
  BY <1>2, StageSelf
<1> QED BY <1>1, <1>2, <1>3

\* The capture still runs: it is asked to stop.
LEMMA AskedToStop ==
  ASSUME WholeInv, d.pc = "get", call.at = "answered", Still, NEW x, Stage(x, d), Truthful(d.owned, x.journal),
         call.ans.state # "stopped",
         Ask("stop", owned.nonce, owned.cap), d' = [x EXCEPT !.pc = "stop"], UNCHANGED <<stream, sse, saved, owned, recovery>>
  PROVE  PageStep /\ DeskInv'
<1>1. call'.op = "stop" /\ call'.at = "sent" /\ call'.cap = owned.cap
  <2>1. PICK nonce, cap : nonce = owned.nonce /\ cap = owned.cap /\ Ask("stop", nonce, cap)
    OBVIOUS
  <2> QED BY <2>1, AskedFacts
<1>2. IsDialog(x)
  BY DEF Stage
<1>3. PICK y : y = d'
  OBVIOUS
<1>4. Same(y, x, {"pc"}) /\ y.pc = "stop"
  BY <1>2, <1>3 DEF IsDialog, Same, Fields
<1>5. IsDialog(y) /\ Same(y, x, Guise)
  BY <1>2, <1>4 DEF IsDialog, Same, Fields, Guise
<1>6. /\ y.phase = d.phase /\ y.cont = d.cont /\ y.owned = d.owned /\ y.hasRec = d.hasRec /\ y.purpose = d.purpose
  <2>1. y.phase = x.phase /\ y.cont = x.cont /\ y.owned = x.owned /\ y.hasRec = x.hasRec /\ y.purpose = x.purpose
    BY <1>4 DEF Same, Fields
  <2> QED BY <2>1, StageFacts
<1>7. /\ y.journal = x.journal
      /\ Counted(x) => Counted(y)
      /\ Suspect(y) => Suspect(x)
      /\ Doubtful(x) => Doubtful(y)
  BY <1>5, GuiseFacts
<1>8. PageStep
  BY <1>1 DEF PageStep, Still, WholeInv, DeskInv
<1>9. LettingGo \/ EndingPreview \/ EndingRecording \/ Leaving
  BY ReadyFacts DEF WholeInv, DeskInv, PhaseInv, AtRest, Beginning, LettingGo, Previewing, Recording, EndingPreview,
    EndingRecording, Leaving, Refused, Done
<1>10. PhaseInv'
  BY <1>3, <1>4, <1>6, <1>9 DEF PhaseInv, LettingGo, EndingPreview, EndingRecording, Leaving
<1>11. CallPhase' /\ OwnedInv'
  BY <1>1, <1>3, <1>4, <1>6 DEF CallPhase, Asked, OwnedInv, Owning, WholeInv, DeskInv
<1>12. d.owned # 0 /\ d.phase \in {"starting", "canceling", "stopping"}
  BY <1>9 DEF LettingGo, EndingPreview, EndingRecording, Leaving
<1>13. JournalInv'
  <2>1. PICK cap, j : cap = d.owned /\ j = x.journal
    OBVIOUS
  <2>2. Truthful(cap, j)'
    BY <2>1 DEF Truthful, Still
  <2>3. d'.owned = cap /\ d'.journal = j /\ d'.phase # "finalize-error" /\ d'.pc # "drain"
        /\ d'.owned <= made'.captures /\ d'.owned # 0
    BY <1>3, <1>4, <1>6, <1>7, <1>12, <2>1 DEF WholeInv, DeskInv, JournalInv, Still
  <2> QED BY <2>2, <2>3 DEF JournalInv
<1>14. FreshInv'
  BY <1>3, <1>4, <1>6 DEF FreshInv, WholeInv, DeskInv, Still
<1>15. AttendedInv'
  BY <1>1, <1>3, <1>4, <1>6, <1>12 DEF AttendedInv, Quiet, Opened, Still, WholeInv, DeskInv
<1>16. DoubtInv'
  <2>1. d.cont # "leave" => Counted(d) /\ (Suspect(d) => Doubtful(d))
    BY <1>12 DEF WholeInv, DeskInv, DoubtInv
  <2>2. d.cont # "leave" => Counted(x) /\ (Suspect(x) => Doubtful(x))
    BY <2>1 DEF Stage
  <2> QED BY <1>3, <1>4, <1>6, <1>7, <1>12, <2>2 DEF DoubtInv
<1>17. SavedInv'
  BY DEF SavedInv, WholeInv, DeskInv, Still
<1> QED BY <1>3, <1>5, <1>8, <1>10, <1>11, <1>13, <1>14, <1>15, <1>16, <1>17 DEF DeskInv, PageStep

LEMMA StatusGot == WholeInv /\ GotStatus => PageStep /\ DeskInv'
<1> SUFFICES ASSUME WholeInv, GotStatus PROVE PageStep /\ DeskInv'
  OBVIOUS
<1>1. PICK st : st = call.ans
  OBVIOUS
<1>2. PICK x : x = AcceptStatus(d, st)
  OBVIOUS
<1>3. /\ d.pc = "get" /\ call.at \in {"answered", "failed"} /\ Still
      /\ IF call.at = "failed" THEN AfterThrow(d)
         ELSE /\ IF SeenStopped THEN Release ELSE Hold
              /\ IF st.cap # d.owned THEN AfterThrow(x)
                 ELSE IF st.state = "stopped" THEN AfterStop(x, st)
                 ELSE Ask("stop", owned.nonce, owned.cap) /\ d' = [x EXCEPT !.pc = "stop"]
                      /\ UNCHANGED <<stream, sse, saved>>
  BY <1>1, <1>2, Zenon DEF GotStatus, Still
<1>4. ASSUME call.at = "failed" \/ st.cap # d.owned \/ st.state = "stopped", faults = 0
      PROVE  Quiet
  BY <1>1, <1>3, <1>4, EndedQuiet
<1>5. CASE call.at = "failed"
  <2>1. PICK z : z = d /\ Stage(z, d) /\ Truthful(d.owned, z.journal)
    BY <1>3, SelfFacts
  <2>2. AfterThrow(z)
    BY <1>3, <1>5, <2>1
  <2> QED BY <1>3, <1>4, <1>5, <2>1, <2>2, ThrownDesk
<1>6. CASE call.at = "answered"
  <2>1. Honest(st) /\ Stage(x, d) /\ Truthful(d.owned, x.journal)
    BY <1>1, <1>2, <1>3, <1>6, TakenFacts
  <2>2. CASE st.cap # d.owned
    <3>1. AfterThrow(x)
      BY <1>3, <1>6, <2>2
    <3> QED BY <1>3, <1>4, <2>1, <2>2, <3>1, ThrownDesk
  <2>3. CASE st.cap = d.owned /\ st.state = "stopped"
    <3>1. AfterStop(x, st)
      BY <1>3, <1>6, <2>3
    <3>2. ASSUME d.cont = "beginRecording"  PROVE recovery' = 0
      <4>1. SeenStopped
        BY <1>1, <1>3, <2>3, <3>2, OwnedCap DEF SeenStopped
      <4>2. Release
        BY <1>3, <1>6, <4>1
      <4> QED BY <1>3, <3>2, <4>2, LetGo
    <3> QED BY <1>3, <1>4, <2>1, <2>3, <3>1, <3>2, ReturnedDesk
  <2>4. CASE st.cap = d.owned /\ st.state # "stopped"
    <3>1. ~SeenStopped
      BY <1>1, <2>4 DEF SeenStopped
    <3>2. /\ Ask("stop", owned.nonce, owned.cap) /\ d' = [x EXCEPT !.pc = "stop"]
          /\ UNCHANGED <<stream, sse, saved, owned, recovery>>
      BY <1>3, <1>6, <2>4, <3>1 DEF Hold
    <3> QED BY <1>1, <1>3, <1>6, <2>1, <2>4, <3>2, AskedToStop
  <2> QED BY <2>2, <2>3, <2>4
<1> QED BY <1>3, <1>5, <1>6

LEMMA StopGot == WholeInv /\ GotStop => PageStep /\ DeskInv'
<1> SUFFICES ASSUME WholeInv, GotStop PROVE PageStep /\ DeskInv'
  OBVIOUS
<1>1. PICK st : st = call.ans
  OBVIOUS
<1>2. PICK x : x = AcceptStatus(d, st)
  OBVIOUS
<1>3. /\ d.pc = "stop" /\ call.at \in {"answered", "failed"} /\ Still
      /\ IF call.at = "failed" \/ ~call.ok THEN AfterThrow(d)
         ELSE /\ IF StopAnswered THEN Release ELSE Hold
              /\ IF StopAnswered /\ st.state = "stopped" THEN AfterStop(x, st) ELSE AfterThrow(x)
  BY <1>1, <1>2, Zenon DEF GotStop, Still
<1>4. faults = 0 => Quiet
  BY <1>3, EndedQuiet
<1>5. CASE call.at = "failed" \/ ~call.ok
  <2>1. PICK z : z = d /\ Stage(z, d) /\ Truthful(d.owned, z.journal)
    BY <1>3, SelfFacts
  <2>2. AfterThrow(z)
    BY <1>3, <1>5, <2>1
  <2> QED BY <1>3, <1>4, <2>1, <2>2, ThrownDesk
<1>6. CASE call.at = "answered" /\ call.ok
  <2>1. Honest(st) /\ Stage(x, d) /\ Truthful(d.owned, x.journal)
    BY <1>1, <1>2, <1>3, <1>6, TakenFacts
  <2>2. CASE StopAnswered /\ st.state = "stopped"
    <3>1. AfterStop(x, st) /\ Release
      BY <1>3, <1>6, <2>2
    <3>2. d.cont = "beginRecording" => recovery' = 0
      BY <1>3, <3>1, LetGo
    <3>3. d.cont \in {"save", "discard"} => st.cap = d.owned
      BY <1>1, <1>3, <2>2, OwnedCap DEF StopAnswered
    <3> QED BY <1>3, <1>4, <2>1, <3>1, <3>2, <3>3, ReturnedDesk
  <2>3. CASE ~(StopAnswered /\ st.state = "stopped")
    <3>1. AfterThrow(x)
      BY <1>3, <1>6, <2>3
    <3> QED BY <1>3, <1>4, <2>1, <3>1, ThrownDesk
  <2> QED BY <2>2, <2>3
<1> QED BY <1>3, <1>5, <1>6

\* What a dialog that waits for the last datagrams knows.
LEMMA DrainFacts ==
  WholeInv /\ d.pc = "drain" =>
    /\ d.cont \in {"save", "discard"} /\ (faults = 0 => Quiet) /\ call = NoCall
    /\ d.final \in Statuses /\ (d.final.err = "none" \/ d.keys # {})
<1>1. WholeInv /\ d.pc = "drain" => d.cont \in {"save", "discard"}
  BY EndingFacts
<1> QED BY <1>1 DEF WholeInv, DeskInv, AttendedInv, CallPhase, JournalInv, DoubtInv

LEMMA DrainDesk == WholeInv /\ Drain => PageStep /\ DeskInv'
<1> SUFFICES ASSUME WholeInv, Drain PROVE PageStep /\ DeskInv'
  OBVIOUS
<1>1. d.pc = "drain" /\ Stopped(d) /\ UNCHANGED <<bridge, call, made, faults, truth>>
  BY DEF Drain
<1>2. PICK x : x = d /\ Stage(x, d) /\ Truthful(d.owned, x.journal)
  BY <1>1, SelfFacts
<1>3. /\ d.cont \in {"save", "discard"} /\ (faults = 0 => Quiet) /\ call = NoCall
      /\ x.final \in Statuses /\ (x.final.err = "none" \/ x.keys # {})
  BY <1>1, <1>2, DrainFacts
<1>4. IsDialog(x) /\ Counted(x) /\ (Suspect(x) => Doubtful(x))
  BY <1>1, <1>2, <1>3, EndingFacts
<1>5. Same(x, d, Inputs \cup {"final"})
  BY <1>2 DEF Stage, Same
<1>6. Stopped(x) /\ Still /\ call' = NoCall
  BY <1>1, <1>2, <1>3 DEF Still
<1> QED BY <1>1, <1>2, <1>3, <1>4, <1>5, <1>6, StoppedDesk

LEMMA TimeoutDesk == WholeInv /\ DrainTimeout => PageStep /\ DeskInv'
<1> SUFFICES ASSUME WholeInv, DrainTimeout PROVE PageStep /\ DeskInv'
  OBVIOUS
<1>1. PICK z, e : /\ z = [d EXCEPT !.reason = TRUE]
                  /\ e = Event("udp-event-stream-disconnected", EventOffset(d, now), <<"drain">>)
  OBVIOUS
<1>2. PICK x : x = RecordEvent(z, e)
  OBVIOUS
<1>3. d.pc = "drain" /\ Stopped(x) /\ UNCHANGED <<bridge, call, made, faults, truth>>
  BY <1>1, <1>2 DEF DrainTimeout
<1>4. /\ d.cont \in {"save", "discard"} /\ (faults = 0 => Quiet) /\ call = NoCall
      /\ d.final \in Statuses /\ (d.final.err = "none" \/ d.keys # {})
  BY <1>3, DrainFacts
<1>5. IsDialog(d) /\ Counted(d) /\ Truthful(d.owned, d.journal)
  BY <1>3, <1>4, EndingFacts
<1>6. Same(z, d, {"reason"}) /\ z.reason = TRUE
  BY <1>1, <1>5 DEF IsDialog, Same, Fields
<1>7. IsDialog(z) /\ z.keys = d.keys /\ z.seqIssue = d.seqIssue
  BY <1>5, <1>6 DEF IsDialog, Same, Fields
<1>8. /\ Stage(x, d) /\ Doubtful(x) /\ Same(x, d, {"reason"} \cup {"rec", "logOk", "limitEvent", "pendEvents"})
  <2>1. PICK u, F : u = d /\ F = {"reason"}
    OBVIOUS
  <2>2. IsDialog(u) /\ Same(z, u, F) /\ F \subseteq Inputs \ {"seq", "units", "rec"} /\ u.keys \subseteq z.keys
        /\ (u.seqIssue => z.seqIssue)
    BY <1>5, <1>6, <1>7, <2>1 DEF Inputs
  <2>3. LET y == RecordEvent(z, e) IN
         /\ Stage(y, u) /\ Doubtful(y) /\ Same(y, u, F \cup {"rec", "logOk", "limitEvent", "pendEvents"})
    BY <1>7, <2>2, NoticeStage
  <2> QED BY <1>2, <2>1, <2>3
<1>9. x.final = d.final /\ x.keys = d.keys /\ x.journal = d.journal
  BY <1>8 DEF Same, Fields
<1>10. IsDialog(x) /\ Counted(x)
  BY <1>5, <1>8 DEF Stage
<1>11. Same(x, d, Inputs \cup {"final"})
  BY <1>8 DEF Stage, Same
<1>12. Still /\ call' = NoCall
  BY <1>3, <1>4 DEF Still
<1>13. x.final \in Statuses /\ (x.final.err = "none" \/ x.keys # {}) /\ Truthful(d.owned, x.journal)
  BY <1>4, <1>5, <1>9
<1>14. d.pc \in {"get", "stop", "drain"} /\ Stopped(x) /\ d.cont \in {"save", "discard"} /\ (faults = 0 => Quiet)
  BY <1>3, <1>4
<1> QED BY <1>8, <1>10, <1>11, <1>12, <1>13, <1>14, StoppedDesk


-----------------------------------------------------------------------------
(* The event stream, and the theorems *)

\* A dialog that listens: it has not finalised, and it does not leave a saved session.
LEMMA ListeningFacts ==
  WholeInv /\ stream # "off" =>
    /\ Beginning \/ LettingGo \/ Previewing \/ Recording \/ EndingPreview \/ EndingRecording
    /\ d.phase \in {"starting", "canceling", "preflighting", "capturing", "stopping"} /\ d.cont # "leave"
  BY DEF WholeInv, DeskInv, PhaseInv, AtRest, Beginning, LettingGo, Previewing, Recording, EndingPreview,
    EndingRecording, Leaving, Refused, Done

\* The message at the head of the stream tells the truth.
LEMMA HeadTold ==
  WholeInv /\ sse # <<>> => \E m : m = Head(sse) /\ Told(m)
<1> SUFFICES ASSUME WholeInv, sse # <<>> PROVE \E m : m = Head(sse) /\ Told(m)
  OBVIOUS
<1>1. PICK s : s = sse
  OBVIOUS
<1>2. IsSeq(s) /\ s # <<>> /\ \A i \in 1..Len(s) : Told(s[i])
  BY <1>1 DEF WholeInv, HonestInv, SseOk
<1>3. PICK j \in 1..Len(s) : Head(s) = s[j]
  BY <1>2, TailTo
<1> QED BY <1>1, <1>2, <1>3

LEMMA DeliverDesk == WholeInv /\ Deliver => PageStep /\ DeskInv'
<1> SUFFICES ASSUME WholeInv, Deliver PROVE PageStep /\ DeskInv'
  OBVIOUS
<1>1. /\ stream # "off" /\ sse # <<>> /\ sse' = Tail(sse)
      /\ UNCHANGED <<bridge, call, owned, recovery, made, faults, truth, saved>>
  BY DEF Deliver
<1>2. PICK m : m = Head(sse) /\ Told(m)
  BY <1>1, HeadTold
<1>3. PICK x : x = d
  OBVIOUS
<1>4. PICK y : y = Received(x, m)
  OBVIOUS
<1>5. d' = y
  BY <1>2, <1>3, <1>4 DEF Deliver
<1>6. IsDialog(x) /\ now \in Int
  BY <1>3, Counts DEF WholeInv, DeskInv
<1>7. /\ Stage(y, x)
      /\ x.owned = 0 => y.keys = x.keys /\ y.seqIssue = x.seqIssue /\ y.units = x.units /\ y.seq = x.seq
      /\ \/ y.journal = x.journal
         \/ m.k = "status" /\ y.journal = m.st.journal /\ m.st.cap = x.owned /\ x.owned # 0
  BY <1>2, <1>4, <1>6, ReceivedStage
<1>8. /\ IsDialog(y) /\ y.hasRec = d.hasRec /\ y.owned = d.owned /\ y.purpose = d.purpose
      /\ y.phase = d.phase /\ y.pc = d.pc /\ y.cont = d.cont /\ y.cancelled = d.cancelled /\ y.final = d.final
  BY <1>3, <1>7, StageFacts
<1>9. /\ Beginning \/ LettingGo \/ Previewing \/ Recording \/ EndingPreview \/ EndingRecording
      /\ d.phase \in {"starting", "canceling", "preflighting", "capturing", "stopping"} /\ d.cont # "leave"
  BY <1>1, ListeningFacts
<1>10. PageStep
  BY <1>1 DEF PageStep, WholeInv, DeskInv
<1>11. PhaseInv'
  BY <1>5, <1>8, <1>9 DEF PhaseInv, Beginning, LettingGo, Previewing, Recording, EndingPreview, EndingRecording
<1>12. CallPhase' /\ OwnedInv'
  BY <1>1, <1>5, <1>8 DEF CallPhase, Asked, OwnedInv, Owning, WholeInv, DeskInv
<1>13. JournalInv'
  <2>1. PICK cap, j : cap = d.owned /\ j = y.journal
    OBVIOUS
  <2>2. Truthful(cap, j)
    <3>1. PICK st : st = m.st
      OBVIOUS
    <3>2. CASE j = d.journal
      BY <2>1, <3>2 DEF WholeInv, DeskInv, JournalInv
    <3>3. CASE m.k = "status" /\ j = st.journal /\ st.cap = d.owned
      <4>1. Honest(st)
        BY <1>2, <3>1, <3>3 DEF Told
      <4> QED BY <2>1, <3>3, <4>1 DEF Honest
    <3> QED BY <1>3, <1>7, <2>1, <3>1, <3>2, <3>3
  <2>3. Truthful(cap, j)'
    BY <1>1, <2>2 DEF Truthful
  <2>4. d'.owned = cap /\ d'.journal = j /\ d'.phase # "finalize-error"
    BY <1>5, <1>8, <1>9, <2>1
  <2>5. /\ cap <= made'.captures /\ (cap = 0 => j = NoJournal)
        /\ d'.pc = "drain" => d'.final \in Statuses
    BY <1>1, <1>3, <1>5, <1>7, <1>8, <2>1 DEF WholeInv, DeskInv, JournalInv
  <2> QED BY <2>3, <2>4, <2>5 DEF JournalInv
<1>14. FreshInv'
  BY <1>1, <1>5, <1>8 DEF FreshInv, WholeInv, DeskInv
<1>15. AttendedInv'
  BY <1>1, <1>5, <1>8 DEF AttendedInv, Quiet, Opened, WholeInv, DeskInv
<1>16. DoubtInv'
  <2>1. Counted(x) /\ (Suspect(x) => Doubtful(x))
    BY <1>3, <1>9 DEF WholeInv, DeskInv, DoubtInv
  <2>2. Counted(y) /\ (Suspect(y) => Doubtful(y)) /\ x.keys \subseteq y.keys
    BY <1>7, <2>1 DEF Stage
  <2>3. y.owned = 0 => y.keys = {} /\ ~y.seqIssue /\ y.units = 0 /\ y.seq = -1
    BY <1>3, <1>7, <1>8 DEF WholeInv, DeskInv, DoubtInv
  <2>4. y.pc = "drain" => y.final.err = "none" \/ y.keys # {}
    BY <1>3, <1>8, <2>2 DEF WholeInv, DeskInv, DoubtInv
  <2> QED BY <1>5, <1>8, <1>9, <2>2, <2>3, <2>4 DEF DoubtInv
<1>17. SavedInv'
  BY <1>1 DEF SavedInv, WholeInv, DeskInv
<1> QED BY <1>5, <1>8, <1>10, <1>11, <1>12, <1>13, <1>14, <1>15, <1>16, <1>17 DEF DeskInv, PageStep

LEMMA InitWhole == Init => WholeInv
<1> SUFFICES ASSUME Init PROVE WholeInv
  OBVIOUS
<1>1. /\ stream = "off" /\ sse = <<>> /\ call = NoCall /\ recovery = 0 /\ faults = 0 /\ bridge = Idle
      /\ made.captures = 0 /\ d = Ready /\ saved = Nobody
      /\ truth = [c \in 1..MaxCaptures |-> [datagrams |-> 0, ended |-> FALSE, dirty |-> FALSE, sampled |-> FALSE]]
  BY DEF Init, InitLink
<1>2. HonestInv
  <2>1. PICK s : s = <<>> /\ IsSeq(s) /\ Len(s) = 0
    BY Messages
  <2>2. SseOk
    BY <1>1, <2>1 DEF SseOk
  <2>3. CallOk /\ ZeroOk /\ UnsampledOk
    BY <1>1, NoCallOp DEF CallOk, ZeroOk, UnsampledOk, Idle
  <2> QED BY <2>2, <2>3 DEF HonestInv
<1>3. /\ IsDialog(d) /\ d.phase = "ready" /\ d.pc = "idle" /\ d.cont = "none"
      /\ d.owned = 0 /\ d.hasRec = FALSE /\ d.purpose = "none" /\ d.journal = NoJournal
      /\ d.keys = {} /\ d.seqIssue = FALSE /\ d.units = 0 /\ d.seq = -1 /\ d.reason = FALSE
  BY <1>1, ReadyFacts
<1>4. PhaseInv /\ CallPhase /\ OwnedInv
  BY <1>1, <1>3 DEF PhaseInv, AtRest, CallPhase, OwnedInv, Owning
<1>5. JournalInv
  BY <1>1, <1>3, NoJournalTruthful DEF JournalInv, Truthful
<1>6. FreshInv /\ DoubtInv
  BY <1>3 DEF FreshInv, DoubtInv, Counted, Suspect
<1>7. AttendedInv
  BY <1>1, <1>3, NoCallOp DEF AttendedInv, Quiet, Idle
<1>8. SavedInv
  BY <1>1 DEF SavedInv, Nobody
<1> QED BY <1>1, <1>2, <1>3, <1>4, <1>5, <1>6, <1>7, <1>8, InitUdp DEF WholeInv, DeskInv

LEMMA StutterWhole == WholeInv /\ UNCHANGED vars => WholeInv'
<1> SUFFICES ASSUME WholeInv, UNCHANGED vars PROVE WholeInv'
  OBVIOUS
<1>1. UNCHANGED <<bridge, stream, sse, call, owned, recovery, made, faults, truth, d, saved>>
  BY DEF vars, link
<1>2. UdpInv'
  BY NextUdp DEF WholeInv
<1>3. HonestInv' /\ Keeps /\ SampledKept
  BY <1>1, <1>2, PageHonest DEF WholeInv, UdpInv
<1>4. LinkMoves
  BY <1>1 DEF LinkMoves, BridgeMoves, CallMoves, WholeInv, DeskInv
<1>5. AttendedInv'
  BY <1>1 DEF AttendedInv, Quiet, Opened, WholeInv, DeskInv
<1>6. DeskInv'
  BY <1>2, <1>3, <1>4, <1>5, LinkDesk DEF WholeInv
<1> QED BY <1>2, <1>3, <1>6 DEF WholeInv

LEMMA NextWhole == WholeInv /\ [Next]_vars => WholeInv'
<1> SUFFICES ASSUME WholeInv, [Next]_vars PROVE WholeInv'
  OBVIOUS
<1>1. CASE LinkStep
  BY <1>1, LinkWhole
<1>2. CASE Operator
  <2>1. PageStep /\ DeskInv'
    BY <1>2, PreflightBegun, CancelDesk, PreviewEnds, RecordingEnds, FinalizationRetried, DownloadRetried,
       RetainedLeft DEF Operator
  <2> QED BY <1>2, <2>1, PageWhole DEF Next
<1>3. CASE Await
  <2>1. CASE StartAnswered
    BY <2>1, AnsweredWhole
  <2>2. CASE Await /\ ~StartAnswered
    <3>1. PageStep /\ DeskInv'
      BY <2>2, ConnectedDesk, ConnectFailed, RefreshedDesk, StartRefused, StatusGot, StopGot, DrainDesk,
         TimeoutDesk DEF Await
    <3> QED BY <2>2, <3>1, PageWhole DEF Next
  <2> QED BY <1>3, <2>1, <2>2
<1>4. CASE Deliver
  BY <1>4, DeliverDesk, PageWhole DEF Next
<1>5. CASE Reload
  BY <1>5, ReloadDesk, PageWhole DEF Next
<1>6. CASE UNCHANGED vars
  BY <1>6, StutterWhole
<1> QED BY <1>1, <1>2, <1>3, <1>4, <1>5, <1>6 DEF Next

\* The situations of the dialog, what is told on the stream and in the answers, and what has become
\* of every capture always agree.
THEOREM WholeInvariant == Spec => []WholeInv
<1>1. Init => WholeInv
  BY InitWhole
<1>2. WholeInv /\ [Next]_vars => WholeInv'
  BY NextWhole
<1> QED BY <1>1, <1>2, PTL DEF Spec

\* The phase agrees with what is awaited, a recorder belongs to an owned capture, and a recorder
\* never holds more records or events than its limits, whichever of the dialog's many callers
\* appends to it (recorder.ts, appendInternal and appendTransportEvent).
THEOREM DialogIsTyped == Spec => []TypeOK
<1>1. WholeInv => TypeOK
  <2> SUFFICES ASSUME WholeInv PROVE TypeOK
    OBVIOUS
  <2>1. /\ d.phase \in {"ready", "starting", "canceling", "preflighting", "capturing", "stopping",
                        "finalize-error", "save-error", "saved"}
        /\ d.pc \in {"idle", "connect", "refresh", "start", "get", "stop", "drain"}
        /\ d.pc = "idle" <=>
             d.phase \in {"ready", "preflighting", "capturing", "finalize-error", "save-error", "saved"}
        /\ d.hasRec => d.owned # 0
    <3>1. PhaseInv
      BY DEF WholeInv, DeskInv
    <3> QED BY <3>1, ReadyFacts, PhaseFacts DEF PhaseInv, AtRest, Beginning, LettingGo, Previewing, Recording,
        EndingPreview, EndingRecording, Leaving, Refused, Done
  <2>2. d.pc \in {"refresh", "start", "get", "stop"} <=> call.op # "none"
    BY <2>1, NoCallOp DEF WholeInv, DeskInv, CallPhase, Asked
  <2>3. d.rec.records <= MaxRecords /\ Len(d.rec.events) <= MaxEvents
    BY DEF WholeInv, DeskInv, IsDialog, IsRecorder
  <2> QED BY <2>1, <2>2, <2>3 DEF TypeOK
<1> QED BY <1>1, WholeInvariant, PTL

\* A session saved as verified holds every datagram that its capture ever received at the bridge,
\* and that capture had ended cleanly, whatever was lost, cut or restarted on the way: the dialog
\* believes the journal of a status only for the capture it owns, and a recorder is verified only
\* when its records are as many as a clean journal says (assertUdpCaptureIntegrity, finalize).
THEOREM NothingIsMissing == Spec => []VerifiedIsWhole
<1>1. WholeInv => VerifiedIsWhole
  BY DEF WholeInv, DeskInv, SavedInv, VerifiedIsWhole
<1> QED BY <1>1, WholeInvariant, PTL

\* Whatever made the dialog tell the operator that the capture is incomplete keeps the saved session
\* from being verified: it was recorded as an event, or the log is known to be incomplete.
THEOREM DoubtIsKept == Spec => []DoubtIsRecorded
<1>1. WholeInv => DoubtIsRecorded
  BY DEF WholeInv, DeskInv, SavedInv, DoubtIsRecorded
<1> QED BY <1>1, WholeInvariant, PTL

\* Input sampled in a preflight never becomes part of a recording: the start of a recording asks with
\* a new nonce, and the bridge opens a new capture for a new nonce (beginUdpRecording).
THEOREM RecordingsAreFresh == Spec => []RecordingIsFresh
<1>1. WholeInv => RecordingIsFresh
  BY DEF WholeInv, DeskInv, FreshInv, RecordingIsFresh
<1> QED BY <1>1, WholeInvariant, PTL

\* No capture is left without an owner who can stop it, and without faults none is left running when
\* the dialog is back at its first screen: a start cancelled while its answer is on its way is stopped
\* by the late answer (startUdp, stopUdpCaptureIfOwned).
THEOREM CapturesAreAttended == Spec => []CaptureIsAttended
<1>1. WholeInv => CaptureIsAttended
  <2>1. WholeInv => NoOrphan
    BY DEF WholeInv, UdpInv, AttendInv, KeyInv, NoOrphan
  <2>2. WholeInv => NothingUnattended
    BY DEF WholeInv, DeskInv, AttendedInv, Quiet, NothingUnattended
  <2> QED BY <2>1, <2>2 DEF CaptureIsAttended
<1> QED BY <1>1, WholeInvariant, PTL
=============================================================================
