---------------------------- MODULE EventStream ----------------------------
(***************************************************************************)
(* The event streams of the UDP capture bridge (scripts/capture-bridge.mjs *)
(* 389-439 and the /v1/events handler): every broadcast is written to each *)
(* subscriber, or queued while the subscriber's socket refuses data, and a *)
(* subscriber whose queue is full is cut off with an error.                *)
(*                                                                         *)
(* An event is its number in the order of the broadcasts.  The hello of a  *)
(* stream stands outside this order; it says from where the stream goes on.*)
(*                                                                         *)
(* This is one half of the bridge, CaptureBridge the other; each has names *)
(* of its own, so that a module may extend both, as BridgeProofs does.     *)
(***************************************************************************)
EXTENDS Integers, Sequences

CONSTANTS
  Streams,          \* the responses that may become event streams
  MaxEvents,        \* bound: broadcasts
  MaxQueueEvents,   \* MAX_SSE_QUEUE_EVENTS
  MaxQueueBytes,    \* MAX_SSE_QUEUE_BYTES
  Total             \* Total[n]: payload bytes of the first n broadcasts

ASSUME StreamAssumption ==
  /\ MaxEvents \in Nat /\ MaxQueueEvents \in Nat /\ MaxQueueBytes \in Nat
  /\ Total \in [0..MaxEvents -> Nat]
  /\ \A m, n \in 0..MaxEvents : m <= n => Total[m] <= Total[n]

VARIABLES
  sent,          \* broadcasts so far
  ending,        \* shuttingDown of the source
  subscribers,   \* the streams broadcast writes to
  closed,        \* subscriber.closed
  gone,          \* response.destroyed: the reader left
  blocked,       \* subscriber.blocked
  needDrain,     \* the response owes a "drain", having refused a write
  queue,         \* subscriber.queue
  queuedBytes,   \* subscriber.queuedBytes
  joined,        \* history: broadcasts before the stream's hello
  written,       \* history: events given to the response, in order
  final          \* what the response was ended with

reader == <<gone, needDrain>>
buffer == <<blocked, queue, queuedBytes>>
ends == <<subscribers, closed, final>>
streamVars == <<sent, ending, reader, buffer, ends, joined, written>>

Final == {"none", "bridge-error", "status"}
Bytes(n) == Total[n] - Total[n - 1]

InitStream ==
  /\ sent = 0 /\ ending = FALSE
  /\ subscribers = {} /\ closed = {} /\ gone = {}
  /\ blocked = {} /\ needDrain = {}
  /\ queue = [s \in Streams |-> <<>>] /\ queuedBytes = [s \in Streams |-> 0]
  /\ joined = [s \in Streams |-> 0] /\ written = [s \in Streams |-> <<>>]
  /\ final = [s \in Streams |-> "none"]

-----------------------------------------------------------------------------
(* The loop of flushSubscriber runs in one turn of the event loop: a stream *)
(* in it is one that is not blocked and has a queue, and nothing else runs. *)
Flushing(s) == s \in subscribers \ blocked /\ queue[s] # <<>>
\* Mutation: the loop awaits between its writes.
NoneFlushing_Always == TRUE

NoneFlushing == \A s \in Streams : ~Flushing(s)

\* Whether response.write returned false; the response then owes a drain.
Refuse(S) == /\ blocked' = blocked \cup S
             /\ needDrain' = needDrain \cup S

\* closeSubscriber for a set of streams, except that it empties their queues.
CloseSubscriber(S, payload) ==
  /\ subscribers' = subscribers \ S
  /\ closed' = closed \cup S
  /\ final' = [s \in Streams |-> IF s \in S \ gone THEN payload ELSE final[s]]

Emptied(S) ==
  /\ queue' = [s \in Streams |-> IF s \in S THEN <<>> ELSE queue[s]]
  /\ queuedBytes' = [s \in Streams |-> IF s \in S THEN 0 ELSE queuedBytes[s]]

Full(s, n) == \/ Len(queue[s]) >= MaxQueueEvents
              \/ queuedBytes[s] + Bytes(n) > MaxQueueBytes

\* Mutation: an overflowing stream is closed without a word.
OverflowPayload_None == "none"

OverflowPayload == "bridge-error"

\* The /v1/events handler.  Whether the comment before the hello was refused is
\* not looked at; the hello's own write is.
Join(s) ==
  /\ NoneFlushing /\ ~ending
  /\ s \notin subscribers \cup closed
  /\ subscribers' = subscribers \cup {s}
  /\ joined' = [joined EXCEPT ![s] = sent]
  /\ \E refused \in SUBSET {s} : Refuse(refused)
  /\ UNCHANGED <<sent, ending, gone, queue, queuedBytes, closed, final, written>>

\* broadcast and, for each subscriber, writeSubscriber.
Broadcast ==
  LET n == sent + 1
      direct == subscribers \ blocked
      over == {s \in subscribers \cap blocked : Full(s, n)}
      kept == (subscribers \cap blocked) \ over
  IN /\ NoneFlushing /\ sent < MaxEvents
     /\ sent' = n
     /\ \E refused \in SUBSET direct : Refuse(refused)
     /\ written' = [s \in Streams |->
                      IF s \in direct THEN Append(written[s], n) ELSE written[s]]
     /\ queue' = [s \in Streams |-> IF s \in kept THEN Append(queue[s], n)
                                    ELSE IF s \in over THEN <<>> ELSE queue[s]]
     /\ queuedBytes' = [s \in Streams |->
                          IF s \in kept THEN queuedBytes[s] + Bytes(n)
                          ELSE IF s \in over THEN 0 ELSE queuedBytes[s]]
     /\ CloseSubscriber(over, OverflowPayload)
     /\ UNCHANGED <<ending, gone, joined>>

\* Mutation: a drain does not unblock its stream.
Unblock_Kept(s) == UNCHANGED blocked

Unblock(s) == blocked' = blocked \ {s}

\* The response's "drain": flushSubscriber up to its loop.
Drain(s) ==
  /\ NoneFlushing
  /\ s \in (needDrain \cap subscribers) \ gone
  /\ needDrain' = needDrain \ {s}
  /\ Unblock(s)
  /\ UNCHANGED <<sent, ending, gone, queue, queuedBytes, ends, joined, written>>

\* Mutations: the bytes of a flushed event are kept, subtracted twice, or the
\* count starts again.
Released_Kept(s) == queuedBytes[s]
Released_Twice(s) == queuedBytes[s] - 2 * Bytes(Head(queue[s]))
Released_Reset(s) == 0

Released(s) == queuedBytes[s] - Bytes(Head(queue[s]))

\* One turn of the loop of flushSubscriber.
FlushStep(s) ==
  /\ Flushing(s)
  /\ queue' = [queue EXCEPT ![s] = Tail(@)]
  /\ queuedBytes' = [queuedBytes EXCEPT ![s] = Released(s)]
  /\ written' = [written EXCEPT ![s] = Append(@, Head(queue[s]))]
  /\ \E refused \in SUBSET {s} : Refuse(refused)
  /\ UNCHANGED <<sent, ending, gone, ends, joined>>

\* The reader goes away: the response is destroyed, its "close" is to come.
Disconnect(s) ==
  /\ NoneFlushing /\ s \in subscribers \ gone
  /\ gone' = gone \cup {s}
  /\ UNCHANGED <<sent, ending, needDrain, buffer, ends, joined, written>>

\* The response's "close".
StreamCloses(s) ==
  /\ NoneFlushing /\ s \in subscribers \cap gone
  /\ CloseSubscriber({s}, "none")
  /\ Emptied({s})
  /\ UNCHANGED <<sent, ending, reader, blocked, joined, written>>

\* close() up to its await.
BeginShutdown ==
  /\ NoneFlushing /\ ~ending
  /\ ending' = TRUE
  /\ UNCHANGED <<sent, reader, buffer, ends, joined, written>>

\* close() after its capture stopped: every stream ends with the last status.
EndStreams ==
  /\ NoneFlushing /\ ending /\ subscribers # {}
  /\ CloseSubscriber(subscribers, "status")
  /\ Emptied(subscribers)
  /\ UNCHANGED <<sent, ending, reader, blocked, joined, written>>

NextStream ==
  \/ \E s \in Streams : \/ Join(s) \/ Drain(s) \/ FlushStep(s)
                        \/ Disconnect(s) \/ StreamCloses(s)
  \/ Broadcast \/ BeginShutdown \/ EndStreams

StreamSpec == InitStream /\ [][NextStream]_streamVars

\* The runtime runs the loop and emits "close"; that "drain" comes is what a
\* reader who stays and reads gives the bridge.
FairStreamSpec ==
  /\ StreamSpec
  /\ \A s \in Streams : WF_streamVars(FlushStep(s)) /\ WF_streamVars(StreamCloses(s))
  /\ \A s \in Streams : WF_streamVars(Drain(s))

-----------------------------------------------------------------------------
\* Every variable stays in its range; the byte count is never negative.
StreamTypeOK ==
  /\ sent \in 0..MaxEvents /\ ending \in BOOLEAN
  /\ subscribers \subseteq Streams /\ closed \subseteq Streams
  /\ gone \subseteq Streams /\ blocked \subseteq Streams /\ needDrain \subseteq Streams
  /\ queue \in [Streams -> Seq(1..MaxEvents)]
  /\ queuedBytes \in [Streams -> Nat]
  /\ joined \in [Streams -> 0..MaxEvents]
  /\ written \in [Streams -> Seq(1..MaxEvents)]
  /\ final \in [Streams -> Final]

\* A reader gets the events from its hello on, each once and in order, and an
\* open stream has written or queued all of them (writeSubscriber against
\* flushSubscriber: nothing is written past a queue).
InOrder ==
  \A s \in Streams :
    LET given == written[s] \o queue[s]
    IN /\ \A i \in 1..Len(given) : given[i] = joined[s] + i
       /\ s \in subscribers => joined[s] + Len(given) = sent

\* What the queue of s and the events up to n weigh, whatever the counter says.
Weight(s, n) == Total[n] - Total[sent - Len(queue[s])]

\* The queue of a stream stays within its two limits in fact, not only by its
\* byte counter.
QueueBounded ==
  \A s \in subscribers : /\ Len(queue[s]) <= MaxQueueEvents
                         /\ Weight(s, sent) <= MaxQueueBytes

\* A stream whose reader stayed never just ends: it is cut with an error, or
\* ends with the status of the shutdown.
NoSilentEnd ==
  \A s \in closed \ gone : \/ final[s] = "bridge-error"
                           \/ final[s] = "status" /\ ending

\* Only a reader that is a full queue behind is cut off.
SlowReadersCut ==
  \A s \in Streams :
    final[s] = "none" /\ final'[s] = "bridge-error" =>
      \/ Len(queue[s]) >= MaxQueueEvents
      \/ Weight(s, sent + 1) > MaxQueueBytes

\* A stream never just ends and is cut off only when its reader is a full queue behind
\* (closeSubscriber against writeSubscriber and close).
EndsAreEarned == [][NoSilentEnd' /\ SlowReadersCut]_streamVars

\* What was queued for a reader who reads is written, unless the stream ends.
EventArrives ==
  \A s \in Streams : \A n \in 1..MaxEvents :
    (s \in subscribers /\ \E i \in DOMAIN queue[s] : queue[s][i] = n)
      ~> (s \in closed \/ \E i \in DOMAIN written[s] : written[s][i] = n)

=============================================================================
