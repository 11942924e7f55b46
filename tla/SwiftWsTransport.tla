-------------------------- MODULE SwiftWsTransport --------------------------
(***************************************************************************)
(* The Swift ws_rpc transport (src/src/features/service_schema/            *)
(* swift_ws_client.rs).  The transport is an actor: one method of it runs  *)
(* at a time and none of the methods below suspends, so a method is one    *)
(* step.  Frames wait in an AsyncStream until the one task that reads it   *)
(* enters the actor.  A timer is a task: it sleeps, tests whether it was   *)
(* cancelled, and then waits to enter the actor, where a cancellation no   *)
(* longer stops it.                                                        *)
(***************************************************************************)
EXTENDS MobileWs

VARIABLES
    started,         \* the task init leaves has scheduled the first ping
    entering,        \* the calls made, whose method has not entered the actor
    stream,          \* the frames in the AsyncStream
    finished,        \* the stream was finished: what it holds is read, what comes is not taken
    pingTask,        \* what is left of the sleep of the task pingTask names
    pingsAwake,      \* the ping tasks that passed their test and wait to enter
    deadlineTask,    \* what is left of the sleep of the task pongDeadlineTask names
    deadlinesAwake   \* the deadline tasks that passed their test and wait to enter

inbound == <<stream, finished>>
tasks == <<pingTask, pingsAwake, deadlineTask, deadlinesAwake>>
swiftVars == <<shared, started, entering, inbound, tasks>>

Init ==
    /\ NetworkInit
    /\ TransportInit(0)
    /\ started = FALSE
    /\ entering = {}
    /\ stream = <<>>
    /\ finished = FALSE
    /\ pingTask = Off
    /\ pingsAwake = 0
    /\ deadlineTask = Off
    /\ deadlinesAwake = 0

\* schedulePing: the task before is cancelled, which stops it while it sleeps.
SchedulePing == pingTask' = Interval

Start ==
    /\ ~started
    /\ started' = TRUE
    /\ SchedulePing
    /\ UNCHANGED <<shared, entering, inbound, pingsAwake, deadlineTask, deadlinesAwake>>

-----------------------------------------------------------------------------
\* handleClose and what leads to it.

\* Every waiting continuation is resumed with nil.
ResumeAll == pending' = {} /\ Complete(pending, "failed")

HandleClose(who) ==
    IF closed THEN UNCHANGED <<flags, calls, pingTask, deadlineTask, finished>>
    ELSE /\ closed' = TRUE
         /\ endedBy' = Cause(who)
         /\ pingTask' = Off
         /\ deadlineTask' = Off
         /\ finished' = TRUE
         /\ ResumeAll
         /\ UNCHANGED <<next, id, outcome>>

\* close()
Close ==
    /\ CloseSocket
    /\ HandleClose("app")
    /\ UNCHANGED <<alive, pongs, requests, replies, served, quiet, started, entering,
                   stream, pingsAwake, deadlinesAwake>>

\* socket.onClose finishes the stream; when it has been read to the end, the
\* task that read it enters handleClose.
FinishStream ==
    /\ sock = "closed" /\ ~finished
    /\ finished' = TRUE
    /\ UNCHANGED <<shared, started, entering, stream, tasks>>

StreamEnds ==
    /\ finished /\ stream = <<>> /\ ~closed
    /\ HandleClose("socket")
    /\ UNCHANGED <<network, quiet, started, entering, stream, pingsAwake, deadlinesAwake>>

-----------------------------------------------------------------------------
\* The heartbeat.

PingWakes ==
    /\ pingTask = 0
    /\ pingTask' = Off
    /\ pingsAwake' = pingsAwake + 1
    /\ UNCHANGED <<shared, started, entering, inbound, deadlineTask, deadlinesAwake>>

SendPing ==
    /\ pingsAwake > 0
    /\ pingsAwake' = pingsAwake - 1
    /\ \/ closed /\ UNCHANGED <<pongs, deadlineTask>>
       \/ ~closed /\ WritePing /\ deadlineTask' = Timeout
    /\ UNCHANGED <<sock, alive, requests, replies, served, flags, quiet, calls, started,
                   entering, inbound, pingTask, deadlinesAwake>>

DeadlineWakes ==
    /\ deadlineTask = 0
    /\ deadlineTask' = Off
    /\ deadlinesAwake' = deadlinesAwake + 1
    /\ UNCHANGED <<shared, started, entering, inbound, pingTask, pingsAwake>>

\* pongMissed tests closed, and nothing else.
PongMissed ==
    /\ deadlinesAwake > 0
    /\ deadlinesAwake' = deadlinesAwake - 1
    /\ \/ closed /\ UNCHANGED <<sock, flags, calls, pingTask, deadlineTask, finished>>
       \/ ~closed /\ CloseSocket /\ HandleClose("heartbeat")
    /\ UNCHANGED <<alive, pongs, requests, replies, served, quiet, started, entering,
                   stream, pingsAwake>>

-----------------------------------------------------------------------------
\* Frames.  socket.onMessage yields them to the stream, which a finished
\* stream does not take.

Yield(frame) == stream' = IF finished THEN stream ELSE Append(stream, frame)

ReceivePong ==
    /\ sock \in {"open", "closing"}
    /\ pongs # <<>>
    /\ pongs' = Tail(pongs)
    /\ Yield([kind |-> "pong"])
    /\ UNCHANGED <<sock, alive, requests, replies, served, flags, quiet, calls, started,
                   entering, finished, tasks>>

ReceiveReply(r) ==
    /\ sock \in {"open", "closing"}
    /\ r \in replies
    /\ replies' = replies \ {r}
    /\ Yield([kind |-> "reply", id |-> r.id, body |-> r.body])
    /\ UNCHANGED <<sock, alive, pongs, requests, served, flags, quiet, calls, started,
                   entering, finished, tasks>>

\* Mutant: a pong cancels the deadline and schedules no ping.
OnPongOnce == deadlineTask' = Off /\ UNCHANGED pingTask

\* A pong cancels the deadline and schedules the next ping, on a transport that
\* has closed too.
OnPong == deadlineTask' = Off /\ SchedulePing

\* handleMessage.
HandlePong ==
    /\ stream # <<>> /\ Head(stream).kind = "pong"
    /\ stream' = Tail(stream)
    /\ OnPong
    /\ quiet' = 0
    /\ UNCHANGED <<network, flags, calls, started, entering, finished, pingsAwake,
                   deadlinesAwake>>

HandleReply ==
    /\ stream # <<>> /\ Head(stream).kind = "reply"
    /\ stream' = Tail(stream)
    /\ LET answered == Under(Head(stream).id)
       IN  /\ pending' = pending \ answered
           /\ Complete(answered, Head(stream).body)
    /\ UNCHANGED <<network, flags, quiet, next, id, outcome, started, entering, finished, tasks>>

-----------------------------------------------------------------------------
\* A method of an operation: the caller, and then correlate in the actor.

Invoke(c) ==
    /\ outcome[c] = "unmade"
    /\ outcome' = [outcome EXCEPT ![c] = "waiting"]
    /\ entering' = entering \cup {c}
    /\ UNCHANGED <<network, flags, quiet, next, pending, id, promise, started, inbound, tasks>>

\* A payload that will not encode throws after the id is drawn, a closed
\* transport answers nil, and otherwise the call is registered and written in
\* one closure.
Correlate(c) ==
    /\ c \in entering
    /\ entering' = entering \ {c}
    /\ \/ /\ next' = next + 1
          /\ Complete({c}, "failed")
          /\ UNCHANGED <<requests, pending, id>>
       \/ ~closed /\ Register(c) /\ WriteRequest(c) /\ UNCHANGED promise
    /\ UNCHANGED <<sock, alive, pongs, replies, served, flags, quiet, outcome, started,
                   inbound, tasks>>

\* The method resumes.
Resume(c) == Return(c) /\ UNCHANGED <<started, entering, inbound, tasks>>

-----------------------------------------------------------------------------
\* Nothing is due and no task waits for the actor.
Rests ==
    /\ NothingArrives
    /\ started /\ entering = {} /\ stream = <<>>
    /\ pingTask # 0 /\ pingsAwake = 0
    /\ deadlineTask # 0 /\ deadlinesAwake = 0

Tick ==
    /\ Rests
    /\ TimePasses
    /\ pingTask' = Less(pingTask)
    /\ deadlineTask' = Less(deadlineTask)
    /\ UNCHANGED <<started, entering, inbound, pingsAwake, deadlinesAwake>>

\* What the runtime and the socket do in the end.
Scheduled ==
    \/ Tick \/ Start
    \/ FinishStream \/ StreamEnds
    \/ PingWakes \/ SendPing \/ DeadlineWakes \/ PongMissed
    \/ ReceivePong \/ HandlePong \/ HandleReply
    \/ \E c \in Calls : Correlate(c) \/ Resume(c)

Next ==
    \/ Peer /\ UNCHANGED <<started, entering, inbound, tasks>>
    \/ \E c \in Calls : Invoke(c)
    \/ \E r \in replies : ReceiveReply(r)
    \/ Close
    \/ Scheduled
=============================================================================
