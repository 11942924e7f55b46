----------------------------- MODULE AmqpServer -----------------------------
(***************************************************************************)
(* The consumer loop the amqp_rpc server macro emits                       *)
(* (src/src/service_schema/transport/amqp_rpc.rs): serve_until, which      *)
(* declares, sets the prefetch and consumes; serve_deliveries, the select  *)
(* loop that runs up to Prefetch deliveries at once and drains them before *)
(* it returns; serve_delivery, which dispatches one delivery, replies and  *)
(* acknowledges.                                                           *)
(*                                                                         *)
(* Several loops consume one queue, each over a channel of its own.  A     *)
(* delivery is one future of the loop's FuturesUnordered; a step of it is  *)
(* what it does between two awaits.  What a loop sends (a reply, an ack, a *)
(* reject, a cancel) travels its channel in order and is lost with the     *)
(* channel; the broker, which is not in this repository, then puts every   *)
(* delivery it has seen no settlement of back on the queue.                *)
(***************************************************************************)
EXTENDS Naturals, FiniteSets, Sequences

CONSTANTS
    Messages,   \* what publishers put on the queue
    Loops,      \* the calls to serve_until that consume it
    Prefetch,   \* the prefetch each loop is given, a NonZeroU16
    MaxServes,  \* how often a loop is started
    MaxLosses,  \* how many channels are lost
    Lost        \* a delivery that could not be read: the stream's Err item

ASSUME BoundsAssumption ==
    /\ Prefetch \in Nat \ {0}
    /\ MaxServes \in Nat
    /\ MaxLosses \in Nat

ASSUME MessagesAssumption == IsFiniteSet(Messages) /\ Lost \notin Messages

VARIABLES
    kind,      \* kind[m]: what message m asks for, see Kinds
    queue,     \* the broker: messages ready to be handed out
    unacked,   \* unacked[l]: handed to the consumer of l and not settled
    stranded,  \* stranded[l]: the same, of earlier consumers of l's channel
    consuming, \* consuming[l]: the broker hands deliveries to l's consumer
    open,      \* open[l]: the channel of l is up
    wire,      \* wire[l]: the frames on their way from l to the broker
    acked,     \* messages the broker has seen settled
    replied,   \* messages a reply of which has reached the broker
    losses,    \* how many channels were lost
    phase,     \* phase[l]: where serve_deliveries stands
    stopped,   \* stopped[l]: what serve_deliveries answers with
    stop,      \* stop[l]: where stop_consuming stands
    shutdown,  \* shutdown[l]: the shutdown future has completed
    pending,   \* pending[l]: it had not when this turn of the select polled it
    stream,    \* stream[l]: handed to l and not read by the loop yet
    step,      \* step[l][m]: where the future of delivery m stands in l
    begun,     \* begun[l]: the deliveries this serve_until has started
    late,      \* late[l]: those of them it started when shutdown had completed
    ran,       \* ran[m]: how often a handler was called with m
    silent,    \* messages that were dispatched and have no reply to send
    serves     \* serves[l]: how often l was started

broker == <<kind, queue, unacked, stranded, consuming, open, wire, acked, replied, losses>>
control == <<phase, stopped, stop, shutdown, pending, stream, begun, late, serves>>
work == <<step, ran, silent>>
vars == <<broker, control, work>>

-----------------------------------------------------------------------------
\* An ask is answered, a tell is a one-way operation; a refused message does
\* not decode, does not validate or names no operation, and is answered with a
\* fault; an unaddressed one carries no operation-name header.
Kinds == {"ask", "tell", "refused", "unaddressed"}

\* Where a delivery's future stands: not started; pushed and not polled; in the
\* handler; with a reply to publish; with an ack or a reject to send; complete.
Steps == {"none", "read", "running", "replying", "acking", "rejecting", "complete"}

ReplyTo(m) == [type |-> "reply", of |-> m]
Settle(m) == [type |-> "ack", of |-> m]       \* an ack, or a reject without requeue
Cancel == [type |-> "cancel", of |-> Lost]
Frames == {ReplyTo(m) : m \in Messages} \cup {Settle(m) : m \in Messages} \cup {Cancel}

Started(l) == {m \in Messages \cup {Lost} : step[l][m] # "none"}
Room(l) == Cardinality(Started(l)) < Prefetch

\* Deliveries of l the broker has not been told it may forget.
Busy(l) == {m \in Messages : step[l][m] \notin {"none", "complete"}}
OnWire(l, frame) == \E i \in DOMAIN wire[l] : wire[l][i] = frame

Advance(l, m, to) == step' = [step EXCEPT ![l][m] = to]

\* A frame leaves over the channel; over a channel that is gone the call
\* answers Err, which is logged and nothing more.
Send(l, frame) ==
    wire' = IF open[l] THEN [wire EXCEPT ![l] = Append(@, frame)] ELSE wire

-----------------------------------------------------------------------------
Init ==
    /\ kind \in [Messages -> Kinds]
    /\ queue = Messages
    /\ unacked = [l \in Loops |-> {}]
    /\ stranded = [l \in Loops |-> {}]
    /\ consuming = [l \in Loops |-> FALSE]
    /\ open = [l \in Loops |-> FALSE]
    /\ wire = [l \in Loops |-> <<>>]
    /\ acked = {}
    /\ replied = {}
    /\ losses = 0
    /\ phase = [l \in Loops |-> "idle"]
    /\ stopped = [l \in Loops |-> "none"]
    /\ stop = [l \in Loops |-> "unpolled"]
    /\ shutdown = [l \in Loops |-> FALSE]
    /\ pending = [l \in Loops |-> FALSE]
    /\ stream = [l \in Loops |-> {}]
    /\ step = [l \in Loops |-> [m \in Messages \cup {Lost} |-> "none"]]
    /\ begun = [l \in Loops |-> {}]
    /\ late = [l \in Loops |-> {}]
    /\ ran = [m \in Messages |-> 0]
    /\ silent = {}
    /\ serves = [l \in Loops |-> 0]

-----------------------------------------------------------------------------
\* The broker.

\* The broker hands a message to a consumer that holds fewer than Prefetch.
Push(l) ==
    /\ consuming[l]
    /\ Cardinality(unacked[l]) < Prefetch
    /\ \E m \in queue :
        /\ queue' = queue \ {m}
        /\ unacked' = [unacked EXCEPT ![l] = @ \cup {m}]
        /\ stream' = [stream EXCEPT ![l] = @ \cup {m}]
    /\ UNCHANGED <<kind, stranded, consuming, open, wire, acked, replied, losses,
                   phase, stopped, stop, shutdown, pending, begun, late, serves, work>>

\* The broker reads the next frame of a channel.
Read(l, frame) ==
    /\ wire[l] # <<>>
    /\ Head(wire[l]) = frame
    /\ wire' = [wire EXCEPT ![l] = Tail(@)]

\* A reply: it is put on the queue of whoever waits for it.
ReceiveReply(l, m) ==
    /\ Read(l, ReplyTo(m))
    /\ replied' = replied \cup {m}
    /\ UNCHANGED <<kind, queue, unacked, stranded, consuming, open, acked, losses,
                   control, work>>

\* A settlement: the delivery is forgotten.
ReceiveSettlement(l, m) ==
    /\ Read(l, Settle(m))
    /\ unacked' = [unacked EXCEPT ![l] = @ \ {m}]
    /\ stranded' = [stranded EXCEPT ![l] = @ \ {m}]
    /\ acked' = acked \cup {m}
    /\ UNCHANGED <<kind, queue, consuming, open, replied, losses, control, work>>

\* A cancel: no delivery follows, and its answer completes stop_consuming.
ReceiveCancel(l) ==
    /\ Read(l, Cancel)
    /\ consuming' = [consuming EXCEPT ![l] = FALSE]
    /\ stop' = [stop EXCEPT ![l] = "done"]
    /\ UNCHANGED <<kind, queue, unacked, stranded, open, acked, replied, losses, phase,
                   stopped, shutdown, pending, stream, begun, late, serves, work>>

Receive(l) ==
    \/ ReceiveCancel(l)
    \/ \E m \in Messages : ReceiveReply(l, m) \/ ReceiveSettlement(l, m)

\* The broker closes the consumer and leaves its channel up.
CancelConsumer(l) ==
    /\ consuming[l]
    /\ consuming' = [consuming EXCEPT ![l] = FALSE]
    /\ UNCHANGED <<kind, queue, unacked, stranded, open, wire, acked, replied, losses,
                   control, work>>

\* What a lost channel does at the broker: every delivery it has seen no
\* settlement of goes back on the queue, and what was on the wire is gone.
Requeue(l) ==
    /\ open[l]
    /\ losses < MaxLosses
    /\ losses' = losses + 1
    /\ queue' = queue \cup unacked[l] \cup stranded[l]
    /\ unacked' = [unacked EXCEPT ![l] = {}]
    /\ stranded' = [stranded EXCEPT ![l] = {}]
    /\ consuming' = [consuming EXCEPT ![l] = FALSE]
    /\ open' = [open EXCEPT ![l] = FALSE]
    /\ wire' = [wire EXCEPT ![l] = <<>>]

\* The channel of a loop is lost.  The stream may still yield what it was
\* handed, or an Err item; a cancel that waits for its answer fails.
LoseChannel(l) ==
    /\ Requeue(l)
    /\ \E kept \in {stream[l], {}, {Lost}} :
        /\ kept = {Lost} => phase[l] = "serving"
        /\ stream' = [stream EXCEPT ![l] = kept]
    /\ stop' = [stop EXCEPT ![l] = IF @ = "sent" THEN "done" ELSE @]
    /\ UNCHANGED <<kind, acked, replied, phase, stopped, shutdown, pending, begun, late,
                   serves, work>>

\* The process of a loop dies: its channel is lost and so is all it held.
Crash(l) ==
    /\ Requeue(l)
    /\ phase' = [phase EXCEPT ![l] = "idle"]
    /\ stopped' = [stopped EXCEPT ![l] = "none"]
    /\ stop' = [stop EXCEPT ![l] = "unpolled"]
    /\ shutdown' = [shutdown EXCEPT ![l] = FALSE]
    /\ pending' = [pending EXCEPT ![l] = FALSE]
    /\ stream' = [stream EXCEPT ![l] = {}]
    /\ begun' = [begun EXCEPT ![l] = {}]
    /\ late' = [late EXCEPT ![l] = {}]
    /\ step' = [step EXCEPT ![l] = [m \in Messages \cup {Lost} |-> "none"]]
    /\ UNCHANGED <<kind, acked, replied, serves, ran, silent>>

-----------------------------------------------------------------------------
\* serve_until and serve_deliveries.

\* serve_until starts over the loop's channel, or over a new one when the last
\* one is gone: declare, basic_qos, basic_consume.
Serve(l) ==
    /\ phase[l] \in {"idle", "returned"}
    /\ serves[l] < MaxServes
    /\ serves' = [serves EXCEPT ![l] = @ + 1]
    /\ open' = [open EXCEPT ![l] = TRUE]
    /\ consuming' = [consuming EXCEPT ![l] = TRUE]
    /\ stranded' = [stranded EXCEPT ![l] = @ \cup unacked[l]]
    /\ unacked' = [unacked EXCEPT ![l] = {}]
    /\ phase' = [phase EXCEPT ![l] = "serving"]
    /\ stopped' = [stopped EXCEPT ![l] = "none"]
    /\ stop' = [stop EXCEPT ![l] = "unpolled"]
    /\ shutdown' = [shutdown EXCEPT ![l] = FALSE]
    /\ pending' = [pending EXCEPT ![l] = FALSE]
    /\ stream' = [stream EXCEPT ![l] = {}]
    /\ begun' = [begun EXCEPT ![l] = {}]
    /\ late' = [late EXCEPT ![l] = {}]
    /\ UNCHANGED <<kind, queue, wire, acked, replied, losses, work>>

\* The caller's shutdown future completes, on whatever thread completes it:
\* also between two polls of one turn of the select.
RequestShutdown(l) ==
    /\ phase[l] = "serving"
    /\ ~shutdown[l]
    /\ shutdown' = [shutdown EXCEPT ![l] = TRUE]
    /\ UNCHANGED <<broker, phase, stopped, stop, pending, stream, begun, late, serves, work>>

\* What a turn can take beside the shutdown: a completed future, and while
\* there is room a delivery or the end of the stream.
Done(l) == {m \in Messages \cup {Lost} : step[l][m] = "complete"}
Ready(l) == Done(l) # {} \/ (Room(l) /\ (stream[l] # {} \/ ~consuming[l]))

\* Mutant: the select is not biased, and what is ready may win over shutdown.
PollUnbiased(l) ==
    /\ phase[l] = "serving"
    /\ ~pending[l]
    /\ Ready(l)
    /\ pending' = [pending EXCEPT ![l] = TRUE]
    /\ UNCHANGED <<broker, phase, stopped, stop, shutdown, stream, begun, late, serves, work>>

\* A turn of the biased select polls shutdown first: where it has not completed
\* the other arms are polled after it.  A turn in which none of them is ready
\* changes nothing, and is left out.
PollShutdown(l) ==
    /\ phase[l] = "serving"
    /\ ~pending[l]
    /\ ~shutdown[l]
    /\ Ready(l)
    /\ pending' = [pending EXCEPT ![l] = TRUE]
    /\ UNCHANGED <<broker, phase, stopped, stop, shutdown, stream, begun, late, serves, work>>

\* Where it has completed, that poll ends the loop.
NoticeShutdown(l) ==
    /\ phase[l] = "serving"
    /\ ~pending[l]
    /\ shutdown[l]
    /\ phase' = [phase EXCEPT ![l] = "draining"]
    /\ stopped' = [stopped EXCEPT ![l] = "ShutdownRequested"]
    /\ UNCHANGED <<broker, stop, shutdown, pending, stream, begun, late, serves, work>>

\* Mutant: the drain alone reads FuturesUnordered.
ReapInDrain(l, m) ==
    /\ phase[l] = "draining"
    /\ step[l][m] = "complete"
    /\ Advance(l, m, "none")
    /\ UNCHANGED <<broker, control, ran, silent>>

\* The second arm, and the drain: a completed future leaves FuturesUnordered.
Reap(l, m) ==
    /\ phase[l] = "draining" \/ (phase[l] = "serving" /\ pending[l])
    /\ step[l][m] = "complete"
    /\ Advance(l, m, "none")
    /\ pending' = [pending EXCEPT ![l] = FALSE]
    /\ UNCHANGED <<broker, phase, stopped, stop, shutdown, stream, begun, late, serves, ran, silent>>

\* The third arm, once the two before it had nothing, and only while there is
\* room: the next delivery is started, and the turn is over.
Start(l, m) ==
    /\ phase[l] = "serving"
    /\ pending[l] /\ Done(l) = {}
    /\ Room(l)
    /\ m \in stream[l]
    /\ stream' = [stream EXCEPT ![l] = @ \ {m}]
    /\ begun' = [begun EXCEPT ![l] = @ \cup {m}]
    /\ late' = [late EXCEPT ![l] = IF shutdown[l] THEN @ \cup {m} ELSE @]
    /\ Advance(l, m, IF m = Lost THEN "complete" ELSE "read")
    /\ pending' = [pending EXCEPT ![l] = FALSE]
    /\ UNCHANGED <<broker, phase, stopped, stop, shutdown, serves, ran, silent>>

\* The third arm once the stream has ended.
NoticeClosed(l) ==
    /\ phase[l] = "serving"
    /\ pending[l] /\ Done(l) = {}
    /\ Room(l)
    /\ ~consuming[l]
    /\ stream[l] = {}
    /\ phase' = [phase EXCEPT ![l] = "draining"]
    /\ stopped' = [stopped EXCEPT ![l] = "ConsumerClosed"]
    /\ pending' = [pending EXCEPT ![l] = FALSE]
    /\ UNCHANGED <<broker, stop, shutdown, stream, begun, late, serves, work>>

\* stop_consuming runs beside the drain, after a shutdown only.
StopConsuming(l) ==
    /\ phase[l] = "draining"
    /\ stopped[l] = "ShutdownRequested"
    /\ stop[l] = "unpolled"
    /\ stop' = [stop EXCEPT ![l] = IF open[l] THEN "sent" ELSE "done"]
    /\ Send(l, Cancel)
    /\ UNCHANGED <<kind, queue, unacked, stranded, consuming, open, acked, replied,
                   losses, phase, stopped, shutdown, pending, stream, begun, late, serves, work>>

\* Mutant: the futures still in flight are dropped instead of drained.
ReturnUndrained(l) ==
    /\ phase[l] = "draining"
    /\ stopped[l] = "ShutdownRequested" => stop[l] = "done"
    /\ phase' = [phase EXCEPT ![l] = "returned"]
    /\ stream' = [stream EXCEPT ![l] = {}]
    /\ step' = [step EXCEPT ![l] = [m \in Messages \cup {Lost} |-> "none"]]
    /\ UNCHANGED <<broker, stopped, stop, shutdown, pending, begun, late, serves, ran, silent>>

\* Mutant: the drain waits for the stream to end.
ReturnOnceStreamEnds(l) ==
    /\ phase[l] = "draining"
    /\ Started(l) = {}
    /\ stream[l] = {}
    /\ stopped[l] = "ShutdownRequested" => stop[l] = "done"
    /\ phase' = [phase EXCEPT ![l] = "returned"]
    /\ UNCHANGED <<broker, stopped, stop, shutdown, pending, stream, begun, late, serves, work>>

\* serve_deliveries returns: nothing is in flight, and the cancel is answered.
Return(l) ==
    /\ phase[l] = "draining"
    /\ Started(l) = {}
    /\ stopped[l] = "ShutdownRequested" => stop[l] = "done"
    /\ phase' = [phase EXCEPT ![l] = "returned"]
    /\ stream' = [stream EXCEPT ![l] = {}]
    /\ UNCHANGED <<broker, stopped, stop, shutdown, pending, begun, late, serves, work>>

-----------------------------------------------------------------------------
\* serve_delivery, one step of its future at a time.

\* Mutant: the delivery is acknowledged on receipt, before it is dispatched.
DispatchAcksFirst(l, m) ==
    /\ step[l][m] = "read"
    /\ Send(l, Settle(m))
    /\ Advance(l, m, CASE kind[m] = "unaddressed" -> "rejecting"
                       [] kind[m] = "refused" -> "replying"
                       [] OTHER -> "running")
    /\ ran' = IF kind[m] \in {"ask", "tell"} THEN [ran EXCEPT ![m] = @ + 1] ELSE ran
    /\ UNCHANGED <<kind, queue, unacked, stranded, consuming, open, acked, replied,
                   losses, control, silent>>

\* The operation is read off the header, then the payload is read and judged;
\* a message that passes is handed to its handler.
Dispatch(l, m) ==
    /\ step[l][m] = "read"
    /\ Advance(l, m, CASE kind[m] = "unaddressed" -> "rejecting"
                       [] kind[m] = "refused" -> "replying"
                       [] OTHER -> "running")
    /\ ran' = IF kind[m] \in {"ask", "tell"} THEN [ran EXCEPT ![m] = @ + 1] ELSE ran
    /\ UNCHANGED <<broker, control, silent>>

\* The handler answers: a one-way operation has nothing to send.
HandlerReturns(l, m) ==
    /\ step[l][m] = "running"
    /\ Advance(l, m, IF kind[m] = "ask" THEN "replying" ELSE "acking")
    /\ UNCHANGED <<broker, control, ran, silent>>

\* Mutant: a panicking handler's delivery is put back on the queue.
HandlerPanicsRequeues(l, m) ==
    /\ step[l][m] = "running"
    /\ Advance(l, m, "complete")
    /\ queue' = IF open[l] THEN queue \cup {m} ELSE queue
    /\ unacked' = [unacked EXCEPT ![l] = @ \ {m}]
    /\ UNCHANGED <<kind, stranded, consuming, open, wire, acked, replied, losses,
                   control, ran, silent>>

\* The handler panics and caught answers Err: an ask is answered with a fault,
\* a tell is recorded; either way the delivery goes on to be acknowledged.
HandlerPanics(l, m) ==
    /\ step[l][m] = "running"
    /\ Advance(l, m, IF kind[m] = "ask" THEN "replying" ELSE "acking")
    /\ UNCHANGED <<broker, control, ran, silent>>

\* ReplyHandle publishes the answer or the fault.
Publish(l, m) ==
    /\ step[l][m] = "replying"
    /\ Send(l, ReplyTo(m))
    /\ Advance(l, m, "acking")
    /\ UNCHANGED <<kind, queue, unacked, stranded, consuming, open, acked, replied,
                   losses, control, ran, silent>>

\* There is nowhere to publish, the delivery naming no reply_to, or nothing
\* that would encode: dispatch returns all the same.
PublishNothing(l, m) ==
    /\ step[l][m] = "replying"
    /\ silent' = silent \cup {m}
    /\ Advance(l, m, "acking")
    /\ UNCHANGED <<broker, control, ran>>

\* acknowledge, once dispatch has returned.
Acknowledge(l, m) ==
    /\ step[l][m] = "acking"
    /\ Send(l, Settle(m))
    /\ Advance(l, m, "complete")
    /\ UNCHANGED <<kind, queue, unacked, stranded, consuming, open, acked, replied,
                   losses, control, ran, silent>>

\* reject_unaddressed: rejected without being dispatched, and not requeued.
Reject(l, m) ==
    /\ step[l][m] = "rejecting"
    /\ Send(l, Settle(m))
    /\ Advance(l, m, "complete")
    /\ UNCHANGED <<kind, queue, unacked, stranded, consuming, open, acked, replied,
                   losses, control, ran, silent>>

-----------------------------------------------------------------------------
Broker(l) == Push(l) \/ Receive(l) \/ CancelConsumer(l) \/ LoseChannel(l) \/ Crash(l)

ServeDeliveries(l) ==
    \/ PollShutdown(l) \/ NoticeShutdown(l) \/ NoticeClosed(l) \/ StopConsuming(l) \/ Return(l)
    \/ \E m \in Messages \cup {Lost} : Start(l, m) \/ Reap(l, m)

ServeDelivery(l, m) ==
    \/ Dispatch(l, m) \/ HandlerReturns(l, m) \/ HandlerPanics(l, m)
    \/ Publish(l, m) \/ PublishNothing(l, m)
    \/ Acknowledge(l, m) \/ Reject(l, m)

Next ==
    \E l \in Loops :
        \/ Broker(l) \/ Serve(l) \/ RequestShutdown(l) \/ ServeDeliveries(l)
        \/ \E m \in Messages : ServeDelivery(l, m)

Spec == Init /\ [][Next]_vars

\* The executor polls what is ready, a handler answers or panics in the end,
\* and the broker reads what it is sent.
LiveSpec ==
    /\ Spec
    /\ \A l \in Loops :
        /\ WF_vars(ServeDeliveries(l))
        /\ WF_vars(Receive(l))
        /\ \A m \in Messages : WF_vars(ServeDelivery(l, m))

-----------------------------------------------------------------------------
\* Every variable keeps its type.
TypeOK ==
    /\ kind \in [Messages -> Kinds]
    /\ queue \subseteq Messages
    /\ unacked \in [Loops -> SUBSET Messages]
    /\ stranded \in [Loops -> SUBSET Messages]
    /\ consuming \in [Loops -> BOOLEAN]
    /\ open \in [Loops -> BOOLEAN]
    /\ wire \in [Loops -> Seq(Frames)]
    /\ acked \subseteq Messages
    /\ replied \subseteq Messages
    /\ losses \in Nat
    /\ phase \in [Loops -> {"idle", "serving", "draining", "returned"}]
    /\ stopped \in [Loops -> {"none", "ShutdownRequested", "ConsumerClosed"}]
    /\ stop \in [Loops -> {"unpolled", "sent", "done"}]
    /\ shutdown \in [Loops -> BOOLEAN]
    /\ pending \in [Loops -> BOOLEAN]
    /\ stream \in [Loops -> SUBSET (Messages \cup {Lost})]
    /\ step \in [Loops -> [Messages \cup {Lost} -> Steps]]
    /\ begun \in [Loops -> SUBSET (Messages \cup {Lost})]
    /\ late \in [Loops -> SUBSET (Messages \cup {Lost})]
    /\ ran \in [Messages -> Nat]
    /\ silent \subseteq Messages
    /\ serves \in [Loops -> Nat]

\* What dispatch owes a message before it is acknowledged: a handler call where
\* the message asks for one, and a reply at the broker where there is one.
Owed(m) ==
    /\ kind[m] \in {"ask", "tell"} => ran[m] > 0
    /\ kind[m] \in {"ask", "refused"} => m \in replied \cup silent

\* serve_delivery acknowledges once dispatch is done with the delivery: the
\* broker never forgets a message whose handler was not called or whose reply it
\* has not been sent, whatever channels and processes are lost on the way.
AckedAfterServed == \A m \in acked : Owed(m)

\* "so none waits behind another" (serve_until): the deliveries a loop was
\* handed fit in its slots beside those it has not yet settled.
NoneWaitsBehindAnother ==
    \A l \in Loops : Cardinality((stream[l] \ {Lost}) \cup Busy(l)) <= Prefetch

\* Stopped: every delivery already started was dispatched and acknowledged
\* first.  What a returned loop leaves unsettled on a channel that is up is only
\* what it never started.
DrainedBeforeReturn ==
    \A l \in Loops : phase[l] = "returned" =>
        \A m \in unacked[l] \cap begun[l] : OnWire(l, Settle(m))

\* A handler is called with a message once, and once more for a channel lost:
\* neither a fault, a panic nor a shutdown makes the broker hand it out again.
NoSpuriousRerun == \A m \in Messages : ran[m] <= 1 + losses

\* "Once `shutdown` completes no item is started" (serve_deliveries), as far as
\* it can be kept when shutdown completes on another thread: the turn that found
\* it pending may still start the one delivery it polls next, and no turn after
\* that one starts any, however many are ready and however slots come free.
AtMostOneLateStart == \A l \in Loops : Cardinality(late[l]) <= 1

\* serve_deliveries returns after a shutdown, whatever was in flight and
\* whatever became of the channel.
ShutdownReturns ==
    \A l \in Loops : shutdown[l] ~> phase[l] \in {"idle", "returned"}

\* A delivery handed to a loop that goes on serving is started: slots come free.
HandedIsStarted ==
    \A l \in Loops, m \in Messages :
        m \in stream[l] ~> (m \notin stream[l] \/ shutdown[l])

-----------------------------------------------------------------------------
\* The inductive invariant.

\* Each message is in one place: on the queue, with one channel, or settled.
OneCustodian ==
    /\ queue \cap acked = {}
    /\ \A l \in Loops :
        /\ (unacked[l] \cup stranded[l]) \cap (queue \cup acked) = {}
        /\ unacked[l] \cap stranded[l] = {}
        /\ \A k \in Loops \ {l} :
            (unacked[l] \cup stranded[l]) \cap (unacked[k] \cup stranded[k]) = {}

\* A lost channel carries nothing, and a loop that is not running holds nothing.
GoneIsEmpty ==
    \A l \in Loops :
        /\ ~open[l] => wire[l] = <<>> /\ ~consuming[l] /\ unacked[l] = {} /\ stranded[l] = {}
        /\ phase[l] \in {"idle", "returned"} =>
            stream[l] = {} /\ \A m \in Messages : step[l][m] = "none"

\* A loop that has stopped consuming has no consumer at the broker.
ConsumerIsGone ==
    \A l \in Loops :
        /\ stop[l] = "done" => ~consuming[l]
        /\ phase[l] = "draining" => stopped[l] # "none"
        /\ phase[l] = "draining" /\ stopped[l] = "ConsumerClosed" => ~consuming[l]
        /\ phase[l] \in {"idle", "returned"} => ~consuming[l]

\* While its channel is up, what a loop was handed and has not settled is its
\* own at the broker, and no settlement of it is on the way.
HandedIsHeld ==
    \A l \in Loops, m \in Messages :
        open[l] /\ (m \in stream[l] \/ m \in Busy(l)) =>
            m \in unacked[l] /\ ~OnWire(l, Settle(m))

\* What a loop has not read yet it has not started.
StreamIsUnbegun ==
    \A l \in Loops, m \in Messages :
        open[l] /\ m \in stream[l] => m \notin begun[l] /\ step[l][m] = "none"

\* What is in a loop's hands it has started, and that is its own until it is settled.
BegunIsHeld ==
    \A l \in Loops, m \in Messages :
        /\ step[l][m] # "none" => m \in begun[l]
        /\ open[l] /\ m \in begun[l] => m \in unacked[l] \cup acked

\* A settlement is for a delivery of its own channel.
SettledIsHeld ==
    \A l \in Loops, m \in Messages :
        OnWire(l, Settle(m)) => m \in unacked[l] \cup stranded[l] \cup acked

\* What a loop started and does not work on any more has its settlement sent.
BegunIsSettled ==
    \A l \in Loops, m \in Messages :
        open[l] /\ m \in begun[l] /\ m \in unacked[l] =>
            m \in Busy(l) \/ OnWire(l, Settle(m))

\* A delivery's future has done what the steps before its own owe the message.
StepsFollowDispatch ==
    \A l \in Loops, m \in Messages :
        /\ step[l][m] = "running" => kind[m] \in {"ask", "tell"}
        /\ step[l][m] = "replying" => kind[m] \in {"ask", "refused"}
        /\ step[l][m] = "rejecting" => kind[m] = "unaddressed"
        /\ step[l][m] \in {"running", "replying", "acking"} /\ kind[m] \in {"ask", "tell"} =>
            ran[m] > 0
        /\ step[l][m] = "acking" /\ kind[m] \in {"ask", "refused"} /\ open[l] =>
            m \in replied \cup silent \/ OnWire(l, ReplyTo(m))

\* A settlement on the wire comes after what the message is owed.
SettlementIsLast ==
    \A l \in Loops, m \in Messages : \A i \in DOMAIN wire[l] :
        wire[l][i] = Settle(m) =>
            /\ kind[m] \in {"ask", "tell"} => ran[m] > 0
            /\ kind[m] \in {"ask", "refused"} =>
                \/ m \in replied \cup silent
                \/ \E j \in 1..(i - 1) : wire[l][j] = ReplyTo(m)

\* What keeps a loop from starting a second delivery late: it starts one only in
\* a turn that found shutdown pending, and the turn that starts one late is over.
LateEndsTheTurn ==
    \A l \in Loops :
        /\ ~shutdown[l] \/ pending[l] => late[l] = {}
        /\ late[l] # {} => \E m \in Messages \cup {Lost} : late[l] = {m}

\* basic_qos: the broker hands a consumer no more than Prefetch at a time.
BrokerKeepsToPrefetch == \A l \in Loops : Cardinality(unacked[l]) <= Prefetch

\* The strengthening of AckedAfterServed, NoneWaitsBehindAnother and
\* DrainedBeforeReturn that every step keeps.
IndInv ==
    /\ TypeOK
    /\ OneCustodian
    /\ GoneIsEmpty
    /\ ConsumerIsGone
    /\ HandedIsHeld
    /\ StreamIsUnbegun
    /\ BegunIsHeld
    /\ SettledIsHeld
    /\ BegunIsSettled
    /\ StepsFollowDispatch
    /\ SettlementIsLast
    /\ AckedAfterServed
    /\ BrokerKeepsToPrefetch
    /\ NoneWaitsBehindAnother

=============================================================================
