----------------------------- MODULE BridgeLink -----------------------------
(***************************************************************************)
(* A page's link to the capture bridge: the client of                      *)
(* src/capture/udp-bridge.ts, the bridge it talks to, and the two channels *)
(* between them.  Requests are answered over HTTP, one at a time; captured *)
(* datagrams, errors and status documents arrive over an event stream of   *)
(* their own, so an answer may overtake what was sent before it.  The      *)
(* bridge is the one of module CaptureBridge, reduced to what a client     *)
(* sees; property Lifecycle of module UdpCapture ties the two together.    *)
(*                                                                         *)
(* Faults are a request or an answer that is lost, a stream that is cut, a *)
(* socket that fails, a bridge that is restarted and another operator who  *)
(* takes the bridge: at most MaxFaults of them in a behaviour.  A request  *)
(* that is lost is never served later.  MaxCaptures, MaxNonces,            *)
(* MaxDatagrams and MaxTime bound the captures, the nonces, the datagrams  *)
(* of all captures and the clock.                                          *)
(***************************************************************************)
EXTENDS Integers, Sequences

CONSTANTS MaxCaptures, MaxNonces, MaxDatagrams, MaxTime, MaxFaults

ASSUME LinkAssumption ==
  {MaxCaptures, MaxNonces, MaxDatagrams, MaxTime, MaxFaults} \subseteq Nat

VARIABLES
  now,      \* the clock, in units of captured time
  bridge,   \* the bridge process: state and the capture it knows
  stream,   \* the client's event source: off, on, or cut by the bridge
  sse,      \* events on their way to the client
  call,     \* the request in flight
  owned,    \* ownedCapture: the capture and nonce whose lease the client holds
  recovery, \* the nonce kept in session storage, 0 for none
  made,     \* captures and nonces made so far
  faults,   \* faults so far
  truth     \* what became of every capture (no code reads it)

link == <<now, bridge, stream, sse, call, owned, recovery, made, faults, truth>>

Foreign == -1
NoCapture == [cap |-> 0, nonce |-> 0]
NoCall == [op |-> "none", at |-> "idle", nonce |-> 0, cap |-> 0, ok |-> FALSE, ans |-> <<>>]

Idle ==
  [state |-> "idle", cap |-> 0, nonce |-> 0, starting |-> 0, datagrams |-> 0, start |-> 0, dur |-> 0,
   tail |-> 0, ended |-> FALSE, dirty |-> FALSE, drops |-> 0, err |-> "none"]

DurationOf(b) == IF b.cap = 0 \/ b.ended THEN b.dur ELSE now - b.start

\* The status document, with the journal of its capture.
StatusOf(b) ==
  [state |-> b.state, cap |-> b.cap, datagrams |-> b.datagrams, dur |-> DurationOf(b), err |-> b.err,
   journal |-> [state |-> IF ~b.ended THEN "active" ELSE IF b.dirty THEN "incomplete" ELSE "clean",
                datagrams |-> b.datagrams, tail |-> b.tail, ended |-> b.ended, drops |-> b.drops]]

Status(b) == [k |-> "status", st |-> StatusOf(b)]
Error(e) == [k |-> "error", err |-> e]
Lost == [k |-> "end"]

Broadcast(messages) == sse' = IF stream = "on" THEN sse \o messages ELSE sse
Fault == faults < MaxFaults /\ faults' = faults + 1

InitLink ==
  /\ now = 0 /\ bridge = Idle /\ stream = "off" /\ sse = <<>> /\ call = NoCall
  /\ owned = NoCapture /\ recovery = 0 /\ faults = 0
  /\ made = [captures |-> 0, nonces |-> 0]
  /\ truth = [c \in 1..MaxCaptures |-> [datagrams |-> 0, ended |-> FALSE, dirty |-> FALSE, sampled |-> FALSE]]

-----------------------------------------------------------------------------
(* The bridge *)

Set(b) == bridge' = b
\* The bridge and the record of what became of its capture.
SetWithTruth(b) ==
  /\ Set(b)
  /\ truth' = IF b.cap = 0 THEN truth
              ELSE [truth EXCEPT ![b.cap] =
                   [@ EXCEPT !.datagrams = b.datagrams, !.ended = b.ended, !.dirty = b.dirty]]

Ended(b, dirty) ==
  [b EXCEPT !.ended = TRUE, !.dur = DurationOf(b), !.tail = DurationOf(b),
            !.dirty = b.dirty \/ dirty]

Tick ==
  /\ now < MaxTime /\ bridge.state = "capturing" /\ now' = now + 1
  /\ UNCHANGED <<bridge, stream, sse, call, owned, recovery, made, faults, truth>>

\* Mutant: the socket still counts after the capture was stopped.
Datagram_AfterStop ==
  LET b == [bridge EXCEPT !.datagrams = @ + 1] IN
  /\ bridge.state \in {"capturing", "stopped"} /\ bridge.datagrams < MaxDatagrams
  /\ SetWithTruth(b)
  /\ Broadcast(<<[k |-> "datagram", cap |-> b.cap, seq |-> bridge.datagrams, at |-> DurationOf(bridge)]>>)
  /\ UNCHANGED <<now, stream, call, owned, recovery, made, faults>>

Datagram ==
  LET b == [bridge EXCEPT !.datagrams = @ + 1]
      sent == [k |-> "datagram", cap |-> b.cap, seq |-> bridge.datagrams, at |-> DurationOf(bridge)]
  IN /\ bridge.state = "capturing" /\ bridge.datagrams < MaxDatagrams
     /\ SetWithTruth(b) /\ Broadcast(<<sent>>)
     /\ UNCHANGED <<now, stream, call, owned, recovery, made, faults>>

SocketFails ==
  LET b == [Ended(bridge, TRUE) EXCEPT !.state = "error", !.err = "socket", !.drops = -1] IN
  /\ Fault /\ bridge.state = "capturing" /\ bridge.nonce # Foreign
  /\ SetWithTruth(b) /\ Broadcast(<<Error("socket"), Status(b)>>)
  /\ UNCHANGED <<now, stream, call, owned, recovery, made>>

\* A capture begins: opened for nonce n, by the client or by another operator.
Capturing(n) ==
  [Idle EXCEPT !.state = "capturing", !.cap = made.captures + 1, !.nonce = n, !.start = now]

ForeignStart ==
  /\ Fault /\ bridge.state \in {"idle", "stopped", "error"} /\ made.captures + 1 < MaxCaptures
  /\ SetWithTruth(Capturing(Foreign)) /\ made' = [made EXCEPT !.captures = @ + 1]
  /\ Broadcast(<<Status(Capturing(Foreign))>>)
  /\ UNCHANGED <<now, stream, call, owned, recovery>>

\* The process is killed and started again: captures, leases and streams are gone.
BridgeRestarts ==
  /\ Fault /\ bridge.state # "idle" /\ Set(Idle)
  /\ truth' = IF bridge.cap = 0 \/ bridge.ended THEN truth
              ELSE [truth EXCEPT ![bridge.cap].ended = TRUE, ![bridge.cap].dirty = TRUE]
  /\ stream' = IF stream = "on" THEN "cut" ELSE stream
  /\ sse' = IF stream = "on" THEN Append(sse, Lost) ELSE sse
  /\ call' = IF call.at = "sent" THEN [call EXCEPT !.at = "failed"] ELSE call
  /\ UNCHANGED <<now, owned, recovery, made>>

\* The stream ends early: lost with some of what it carried, or closed by writeSubscriber.
StreamCut ==
  /\ Fault /\ stream = "on" /\ stream' = "cut"
  /\ \E kept \in 0..Len(sse), overflow \in BOOLEAN :
       /\ overflow => bridge.state = "capturing" /\ bridge.nonce # Foreign
       /\ sse' = SubSeq(sse, 1, kept) \o (IF overflow THEN <<Error("overflow"), Lost>> ELSE <<Lost>>)
       /\ IF overflow
          THEN SetWithTruth([bridge EXCEPT !.err = "overflow", !.dirty = TRUE, !.tail = DurationOf(bridge)])
          ELSE UNCHANGED <<bridge, truth>>
  /\ UNCHANGED <<now, call, owned, recovery, made>>

-----------------------------------------------------------------------------
(* Requests *)

Answer(ok, b) == [call EXCEPT !.at = "answered", !.ok = ok, !.ans = StatusOf(b)]

ServeStatus ==
  /\ call.op = "status" /\ call.at = "sent" /\ call' = Answer(TRUE, bridge)
  /\ UNCHANGED <<now, bridge, stream, sse, owned, recovery, made, faults, truth>>

\* POST /v1/start: the same request finds its capture, another one is refused.
ServeStart ==
  /\ call.op = "start" /\ call.at = "sent"
  /\ \/ /\ bridge.state \in {"idle", "stopped", "error"}
        /\ LET b == [bridge EXCEPT !.state = "starting", !.starting = call.nonce, !.err = "none"]
           IN Set(b) /\ Broadcast(<<Status(b)>>)
        /\ UNCHANGED call
     \/ /\ bridge.state = "capturing"
        /\ call' = Answer(bridge.nonce = call.nonce, bridge) /\ UNCHANGED <<bridge, sse>>
  /\ UNCHANGED <<now, stream, owned, recovery, made, faults, truth>>

Waiting == call.op = "start" /\ call.at = "sent"

Opens ==
  LET b == Capturing(bridge.starting) IN
  /\ bridge.state = "starting" /\ made.captures < MaxCaptures
  /\ SetWithTruth(b) /\ made' = [made EXCEPT !.captures = @ + 1]
  /\ Broadcast(<<Status(b)>>)
  /\ call' = IF Waiting THEN Answer(TRUE, b) ELSE call
  /\ UNCHANGED <<now, stream, owned, recovery, faults>>

BindFails ==
  LET b == [bridge EXCEPT !.state = "error", !.starting = 0, !.err = "bind"] IN
  /\ bridge.state = "starting" /\ Set(b) /\ Broadcast(<<Error("bind"), Status(b)>>)
  /\ call' = IF Waiting THEN Answer(FALSE, b) ELSE call
  /\ UNCHANGED <<now, stream, owned, recovery, made, faults, truth>>

\* POST /v1/stop, by the holder of the lease of call.cap.  The kernel may have dropped
\* datagrams, and leaving the multicast group may fail.
ServeStop ==
  /\ call.op = "stop" /\ call.at = "sent" /\ bridge.state # "starting"
  /\ IF bridge.cap = call.cap /\ bridge.state = "capturing"
     THEN \E drops \in {0, 1}, leaveFails \in BOOLEAN :
            LET stopping == [bridge EXCEPT !.state = "stopping", !.dirty = bridge.dirty \/ leaveFails,
                                           !.err = IF leaveFails THEN "leave" ELSE bridge.err,
                                           !.tail = IF leaveFails THEN DurationOf(bridge) ELSE bridge.tail]
                b == [Ended(stopping, FALSE) EXCEPT !.state = "stopped", !.drops = drops]
            IN /\ SetWithTruth(b) /\ call' = Answer(TRUE, b)
               /\ Broadcast(<<Status([bridge EXCEPT !.state = "stopping"])>>
                            \o (IF leaveFails THEN <<Error("leave")>> ELSE <<>>) \o <<Status(b)>>)
     ELSE call' = Answer(bridge.cap = call.cap, bridge) /\ UNCHANGED <<bridge, sse, truth>>
  /\ UNCHANGED <<now, stream, owned, recovery, made, faults>>

\* bridge-unreachable: the request or its answer is lost.
CallLost ==
  /\ Fault /\ call.at \in {"sent", "answered"} /\ call' = [call EXCEPT !.at = "failed"]
  /\ UNCHANGED <<now, bridge, stream, sse, owned, recovery, made, truth>>

Serve == ServeStatus \/ ServeStart \/ Opens \/ BindFails \/ ServeStop
Surprise == Datagram \/ SocketFails \/ ForeignStart \/ BridgeRestarts \/ StreamCut \/ CallLost

-----------------------------------------------------------------------------
(* The client.  Each operator sets some of call, stream, sse, owned, recovery *)

Ask(op, nonce, cap) ==
  call' = [NoCall EXCEPT !.op = op, !.at = "sent", !.nonce = nonce, !.cap = cap]

Connect == stream' = "on" /\ sse' = <<>>
Disconnect == stream' = "off" /\ sse' = <<>>

\* Mutant: the nonce of a start is not kept before the request is sent.
PostStart_Unkept(kept) ==
  LET n == IF kept # 0 THEN kept ELSE made.nonces + 1 IN
  /\ kept = 0 => made.nonces < MaxNonces
  /\ Ask("start", n, 0) /\ UNCHANGED recovery
  /\ made' = IF kept # 0 THEN made ELSE [made EXCEPT !.nonces = @ + 1]

\* start: the nonce of the pending start, if there is one, or a new one.
PostStart(kept) ==
  LET n == IF kept # 0 THEN kept ELSE made.nonces + 1 IN
  /\ kept = 0 => made.nonces < MaxNonces
  /\ Ask("start", n, 0) /\ recovery' = n
  /\ made' = IF kept # 0 THEN made ELSE [made EXCEPT !.nonces = @ + 1]

\* A start whose capture has ended, or was never begun, needs no recovery.
StillNeeded(nonce) ==
  IF call.at = "answered" /\ call.ans.state \in {"idle", "stopped", "error"} THEN 0 ELSE nonce

\* releaseOwnedCapture
Release ==
  /\ owned' = NoCapture
  /\ recovery' = IF recovery = owned.nonce THEN 0 ELSE recovery
Hold == UNCHANGED <<owned, recovery>>

\* getStatus has learnt that the owned capture has stopped; stop has been answered for it.
SeenStopped == call.ans.state = "stopped" /\ call.ans.cap = owned.cap
StopAnswered == call.ans.cap = owned.cap /\ call.ans.state \notin {"starting", "capturing", "stopping"}

=============================================================================
