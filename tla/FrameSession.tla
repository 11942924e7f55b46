---------------------------- MODULE FrameSession ----------------------------
(***************************************************************************)
(* FrameSession, the request-and-reply Transport the Rust ws_rpc client    *)
(* macro emits (src/src/service_schema/transport/ws_rpc.rs): one id        *)
(* counter, one correlation map and one send function, shared by every     *)
(* clone of the session.                                                   *)
(*                                                                         *)
(* Each step is one critical section or one await point of the code.  The  *)
(* tasks that make calls, the tasks that feed deliver and the tasks that   *)
(* call close run on several threads, and interleave between the steps:    *)
(*                                                                         *)
(*   request   fetch_add the id; insert a new slot under the map's lock;   *)
(*             encode the frame; await the send; poll the slot             *)
(*   deliver   remove the slot from the map under its lock; fill the slot  *)
(*             and wake its waiter under the slot's own lock               *)
(*   close     take the whole map under its lock; fail each slot and wake  *)
(*             its waiter under that slot's own lock                       *)
(*                                                                         *)
(* The peer is the environment: it answers a request it has read at most   *)
(* once, in any order, and a second service on the same socket, which      *)
(* numbers its own requests from 1 as well, sends replies of its own.      *)
(***************************************************************************)
EXTENDS Naturals, FiniteSets, Functions

CONSTANTS
    Calls,       \* the calls the clients of this session make
    Readers,     \* the tasks that feed deliver
    MaxForeign,  \* how many replies of another service share the socket
    MaxPings,    \* how many pings the peer sends
    MaxCloses    \* how often close is called while the socket is up

ASSUME BoundsAssumption ==
    /\ MaxForeign \in Nat
    /\ MaxPings \in Nat
    /\ MaxCloses \in Nat

\* No call is one of the marks an answer, an outcome or a reader's hand takes.
ASSUME MarksAssumption ==
    Calls \cap {"empty", "closed", "taken", "foreign", "refused", "nothing",
               "idle", "pong"} = {}

VARIABLES
    next,      \* SessionInner.next: the last id drawn
    pending,   \* SessionInner.pending: id -> the call whose slot waits under it
    answer,    \* answer[c]: Slot.answer of call c
    parked,    \* parked[c]: Slot.waker of call c holds its waker
    runnable,  \* runnable[c]: the executor will poll the task of call c
    pc,        \* pc[c]: where the task of call c stands in request
    id,        \* id[c]: the id call c drew, 0 before it draws one
    outcome,   \* outcome[c]: what request answered call c
    hand,      \* hand[r]: what reader r holds between its two critical sections
    draining,  \* the calls whose slots close has taken and not yet failed
    live,      \* the socket is up
    wire,      \* the calls whose request frame is on its way to the peer
    inbound,   \* the frames on their way to this session
    served,    \* the calls the peer has answered
    pongs,     \* how many pongs went out
    foreign,   \* how many replies of another service were sent
    pings,     \* how many pings the peer sent
    closes     \* how often close was called before the socket went away

session == <<next, pending, answer, parked, runnable, pc, id, outcome, hand, draining>>
peer == <<live, wire, inbound, served, pongs, foreign, pings, closes>>
vars == <<session, peer>>

-----------------------------------------------------------------------------
\* Data.  The body of a reply is the call it answers; Foreign is the body of
\* a reply another service sent.

Empty == "empty"       \* no answer in the slot
Closed == "closed"     \* the Err(detail) close writes
Taken == "taken"       \* the answer poll moved out
Foreign == "foreign"
Refused == "refused"   \* request answered Err before it waited
Nothing == "nothing"   \* request has answered nothing

This == "this"
Other == "other"

Bodies == Calls \cup {Foreign}
Answers == Bodies \cup {Empty, Closed, Taken}

Reply(service, number, body) ==
    [kind |-> "reply", service |-> service, id |-> number, body |-> body]
Ping(number) ==
    [kind |-> "ping", service |-> This, id |-> number, body |-> Foreign]

Idle == [at |-> "idle", body |-> Foreign]
Pong == [at |-> "pong", body |-> Foreign]
Filling(c, body) == [at |-> c, body |-> body]

\* The calls whose slot the correlation map holds.
Registered == {pending[i] : i \in DOMAIN pending}

\* Some reader has removed the slot of call c and will fill it.
Held(c) == \E r \in Readers : hand[r].at = c

Waiting == {"sending", "sent", "awaiting"}   \* the await points of request
Places == {"idle", "allocated", "registered", "done", "dropped"} \cup Waiting

-----------------------------------------------------------------------------
Init ==
    /\ next = 0
    /\ pending = [i \in {} |-> i]
    /\ answer = [c \in Calls |-> Empty]
    /\ parked = [c \in Calls |-> FALSE]
    /\ runnable = [c \in Calls |-> FALSE]
    /\ pc = [c \in Calls |-> "idle"]
    /\ id = [c \in Calls |-> 0]
    /\ outcome = [c \in Calls |-> Nothing]
    /\ hand = [r \in Readers |-> Idle]
    /\ draining = {}
    /\ live = TRUE
    /\ wire = {}
    /\ inbound = {}
    /\ served = {}
    /\ pongs = 0
    /\ foreign = 0
    /\ pings = 0
    /\ closes = 0

-----------------------------------------------------------------------------
\* request

\* Mutant: a load and a store in place of the fetch_add, the store lost.
AllocateLoaded(c) ==
    /\ pc[c] = "idle"
    /\ id' = [id EXCEPT ![c] = next + 1]
    /\ pc' = [pc EXCEPT ![c] = "allocated"]
    /\ UNCHANGED <<next, pending, answer, parked, runnable, outcome, hand, draining, peer>>

\* next.fetch_add(1) + 1
Allocate(c) ==
    /\ pc[c] = "idle"
    /\ next' = next + 1
    /\ id' = [id EXCEPT ![c] = next + 1]
    /\ pc' = [pc EXCEPT ![c] = "allocated"]
    /\ UNCHANGED <<pending, answer, parked, runnable, outcome, hand, draining, peer>>

\* A new, empty slot goes into the map under the id.
Register(c) ==
    /\ pc[c] = "allocated"
    /\ pending' = [i \in DOMAIN pending \cup {id[c]} |-> IF i = id[c] THEN c ELSE pending[i]]
    /\ pc' = [pc EXCEPT ![c] = "registered"]
    /\ UNCHANGED <<next, answer, parked, runnable, id, outcome, hand, draining, peer>>

\* request_frame: a payload that will not encode ends the call, its slot left
\* in the map.
Encode(c) ==
    /\ pc[c] = "registered"
    /\ \/ /\ pc' = [pc EXCEPT ![c] = "sending"]
          /\ UNCHANGED outcome
       \/ /\ pc' = [pc EXCEPT ![c] = "done"]
          /\ outcome' = [outcome EXCEPT ![c] = Refused]
    /\ UNCHANGED <<next, pending, answer, parked, runnable, id, hand, draining, peer>>

\* The send function takes the frame.  It puts it on the wire while the socket
\* is up; afterwards the writer behind it drops the frame, and says nothing.
Transmit(c) ==
    /\ pc[c] = "sending"
    /\ pc' = [pc EXCEPT ![c] = "sent"]
    /\ wire' = IF live THEN wire \cup {c} ELSE wire
    /\ UNCHANGED <<next, pending, answer, parked, runnable, id, outcome, hand, draining,
                   live, inbound, served, pongs, foreign, pings, closes>>

\* The send function answers Err: the frame never went out.
SendFails(c) ==
    /\ pc[c] = "sending"
    /\ pc' = [pc EXCEPT ![c] = "done"]
    /\ outcome' = [outcome EXCEPT ![c] = Refused]
    /\ UNCHANGED <<next, pending, answer, parked, runnable, id, hand, draining, peer>>

\* The send function answers Ok, and the task goes on to poll Awaiting.
SendReturns(c) ==
    /\ pc[c] = "sent"
    /\ pc' = [pc EXCEPT ![c] = "awaiting"]
    /\ runnable' = [runnable EXCEPT ![c] = TRUE]
    /\ UNCHANGED <<next, pending, answer, parked, id, outcome, hand, draining, peer>>

\* Mutant: an empty slot is left without the waker of this poll.
PollWithoutWaker(c) ==
    /\ pc[c] = "awaiting"
    /\ runnable[c]
    /\ runnable' = [runnable EXCEPT ![c] = FALSE]
    /\ \/ /\ answer[c] # Empty
          /\ outcome' = [outcome EXCEPT ![c] = answer[c]]
          /\ answer' = [answer EXCEPT ![c] = Taken]
          /\ pc' = [pc EXCEPT ![c] = "done"]
       \/ /\ answer[c] = Empty
          /\ UNCHANGED <<outcome, answer, pc>>
    /\ UNCHANGED <<next, pending, parked, id, hand, draining, peer>>

\* Awaiting::poll, under the slot's lock: the answer, or this poll's own waker
\* left in the slot.
Poll(c) ==
    /\ pc[c] = "awaiting"
    /\ runnable[c]
    /\ runnable' = [runnable EXCEPT ![c] = FALSE]
    /\ \/ /\ answer[c] # Empty
          /\ outcome' = [outcome EXCEPT ![c] = answer[c]]
          /\ answer' = [answer EXCEPT ![c] = Taken]
          /\ pc' = [pc EXCEPT ![c] = "done"]
          /\ UNCHANGED parked
       \/ /\ answer[c] = Empty
          /\ parked' = [parked EXCEPT ![c] = TRUE]
          /\ UNCHANGED <<outcome, answer, pc>>
    /\ UNCHANGED <<next, pending, id, hand, draining, peer>>

\* The caller drops the future at one of its await points.  The map keeps the
\* slot.
Drop(c) ==
    /\ pc[c] \in Waiting
    /\ pc' = [pc EXCEPT ![c] = "dropped"]
    /\ UNCHANGED <<next, pending, answer, parked, runnable, id, outcome, hand, draining, peer>>

-----------------------------------------------------------------------------
\* deliver

\* Mutant: the waker is taken and never woken.
FillSilently(c, filled) ==
    /\ answer' = [answer EXCEPT ![c] = filled]
    /\ parked' = [parked EXCEPT ![c] = FALSE]
    /\ UNCHANGED runnable

\* Under the slot's lock: the answer, and the waker taken and woken.
Fill(c, filled) ==
    /\ answer' = [answer EXCEPT ![c] = filled]
    /\ parked' = [parked EXCEPT ![c] = FALSE]
    /\ runnable' = [runnable EXCEPT ![c] = @ \/ parked[c]]

\* Mutant: the service the frame names is not looked at.
DeliverReplyOfAnyService(r, f) ==
    /\ hand[r] = Idle
    /\ f \in inbound
    /\ f.kind = "reply"
    /\ f.id \in DOMAIN pending
    /\ inbound' = inbound \ {f}
    /\ pending' = Restrict(pending, DOMAIN pending \ {f.id})
    /\ hand' = [hand EXCEPT ![r] = Filling(pending[f.id], f.body)]
    /\ UNCHANGED <<next, answer, parked, runnable, pc, id, outcome, draining,
                   live, wire, served, pongs, foreign, pings, closes>>

\* A reply for this service whose id the map holds: the slot is removed.
DeliverReply(r, f) ==
    /\ hand[r] = Idle
    /\ f \in inbound
    /\ f.kind = "reply"
    /\ f.service = This
    /\ f.id \in DOMAIN pending
    /\ inbound' = inbound \ {f}
    /\ pending' = Restrict(pending, DOMAIN pending \ {f.id})
    /\ hand' = [hand EXCEPT ![r] = Filling(pending[f.id], f.body)]
    /\ UNCHANGED <<next, answer, parked, runnable, pc, id, outcome, draining,
                   live, wire, served, pongs, foreign, pings, closes>>

\* A reply for another service, or under an id nothing waits on.
DeliverIgnored(r, f) ==
    /\ hand[r] = Idle
    /\ f \in inbound
    /\ f.kind = "reply"
    /\ f.service # This \/ f.id \notin DOMAIN pending
    /\ inbound' = inbound \ {f}
    /\ UNCHANGED <<session, live, wire, served, pongs, foreign, pings, closes>>

\* A ping: deliver awaits the send of the pong.
DeliverPing(r, f) ==
    /\ hand[r] = Idle
    /\ f \in inbound
    /\ f.kind = "ping"
    /\ inbound' = inbound \ {f}
    /\ hand' = [hand EXCEPT ![r] = Pong]
    /\ UNCHANGED <<next, pending, answer, parked, runnable, pc, id, outcome, draining,
                   live, wire, served, pongs, foreign, pings, closes>>

SendPong(r) ==
    /\ hand[r] = Pong
    /\ hand' = [hand EXCEPT ![r] = Idle]
    /\ pongs' = pongs + 1
    /\ UNCHANGED <<next, pending, answer, parked, runnable, pc, id, outcome, draining,
                   live, wire, inbound, served, foreign, pings, closes>>

\* The slot the reader removed is filled and its waiter woken.
DeliverFill(r) ==
    /\ hand[r].at \in Calls
    /\ Fill(hand[r].at, hand[r].body)
    /\ hand' = [hand EXCEPT ![r] = Idle]
    /\ UNCHANGED <<next, pending, pc, id, outcome, draining, peer>>

-----------------------------------------------------------------------------
\* close

\* Mutant: the map is cloned and keeps its slots.
CloseClone ==
    /\ live => closes < MaxCloses
    /\ ~live => closes <= MaxCloses
    /\ closes' = IF live THEN closes + 1 ELSE MaxCloses + 1
    /\ draining' = draining \cup Registered
    /\ UNCHANGED <<next, pending, answer, parked, runnable, pc, id, outcome, hand,
                   live, wire, inbound, served, pongs, foreign, pings>>

\* Mutant: the map is cleared and its slots are dropped unfilled.
CloseClear ==
    /\ live => closes < MaxCloses
    /\ ~live => closes <= MaxCloses
    /\ closes' = IF live THEN closes + 1 ELSE MaxCloses + 1
    /\ pending' = [i \in {} |-> i]
    /\ UNCHANGED <<next, answer, parked, runnable, pc, id, outcome, hand, draining,
                   live, wire, inbound, served, pongs, foreign, pings>>

\* mem::take of the whole map.  Any clone may call close; the driver that reads
\* the socket calls it once the socket is gone.
CloseTake ==
    /\ live => closes < MaxCloses
    /\ ~live => closes <= MaxCloses
    /\ closes' = IF live THEN closes + 1 ELSE MaxCloses + 1
    /\ draining' = draining \cup Registered
    /\ pending' = [i \in {} |-> i]
    /\ UNCHANGED <<next, answer, parked, runnable, pc, id, outcome, hand,
                   live, wire, inbound, served, pongs, foreign, pings>>

\* One slot close took is failed and its waiter woken.
CloseFill(c) ==
    /\ c \in draining
    /\ draining' = draining \ {c}
    /\ Fill(c, Closed)
    /\ UNCHANGED <<next, pending, pc, id, outcome, hand, peer>>

-----------------------------------------------------------------------------
\* The peer and the socket

\* The peer reads a request and answers it under the id it carried.
Serve(c) ==
    /\ live
    /\ c \in wire
    /\ wire' = wire \ {c}
    /\ served' = served \cup {c}
    /\ inbound' = inbound \cup {Reply(This, id[c], c)}
    /\ UNCHANGED <<session, live, pongs, foreign, pings, closes>>

\* Another service of the same socket answers a request of its own session,
\* whose ids start at 1 too.
ServeForeign ==
    /\ live
    /\ foreign < MaxForeign
    /\ foreign' = foreign + 1
    /\ inbound' = inbound \cup {Reply(Other, foreign + 1, Foreign)}
    /\ UNCHANGED <<session, live, wire, served, pongs, pings, closes>>

SendPing ==
    /\ live
    /\ pings < MaxPings
    /\ pings' = pings + 1
    /\ inbound' = inbound \cup {Ping(pings + 1)}
    /\ UNCHANGED <<session, live, wire, served, pongs, foreign, closes>>

\* The socket goes away, and every frame on it.
SocketGone ==
    /\ live
    /\ live' = FALSE
    /\ wire' = {}
    /\ inbound' = {}
    /\ UNCHANGED <<session, served, pongs, foreign, pings, closes>>

-----------------------------------------------------------------------------
Request(c) ==
    \/ Allocate(c) \/ Register(c) \/ Encode(c) \/ Transmit(c)
    \/ SendFails(c) \/ SendReturns(c) \/ Poll(c) \/ Drop(c)

Deliver(r) ==
    \/ \E f \in inbound : DeliverReply(r, f) \/ DeliverIgnored(r, f) \/ DeliverPing(r, f)
    \/ SendPong(r)
    \/ DeliverFill(r)

Close == CloseTake \/ \E c \in Calls : CloseFill(c)

Environment == (\E c \in Calls : Serve(c)) \/ ServeForeign \/ SendPing \/ SocketGone

Next ==
    \/ \E c \in Calls : Request(c)
    \/ \E r \in Readers : Deliver(r)
    \/ Close
    \/ Environment

Spec == Init /\ [][Next]_vars

\* The executor polls a task that was woken, a started critical section ends,
\* and the driver that saw the socket end calls close.  Nothing makes the peer
\* answer, and nothing makes a caller wait: it may drop its future.
Fairness ==
    /\ \A c \in Calls : WF_vars(SendReturns(c)) /\ WF_vars(Poll(c)) /\ WF_vars(CloseFill(c))
    /\ \A r \in Readers : WF_vars(DeliverFill(r))
    /\ WF_vars(~live /\ CloseTake)

FairSpec == Spec /\ Fairness

-----------------------------------------------------------------------------
(***************************************************************************)
(* Safety.                                                                 *)
(***************************************************************************)

Frames ==
    [kind : {"reply", "ping"}, service : {This, Other}, id : Nat, body : Bodies]

\* Every variable has its type.
TypeOK ==
    /\ next \in Nat
    /\ DOMAIN pending \subseteq Nat
    /\ Registered \subseteq Calls
    /\ answer \in [Calls -> Answers]
    /\ parked \in [Calls -> BOOLEAN]
    /\ runnable \in [Calls -> BOOLEAN]
    /\ pc \in [Calls -> Places]
    /\ id \in [Calls -> Nat]
    /\ outcome \in [Calls -> Answers \cup {Refused, Nothing}]
    /\ hand \in [Readers -> [at : Calls \cup {"idle", "pong"}, body : Bodies]]
    /\ draining \subseteq Calls
    /\ live \in BOOLEAN
    /\ wire \subseteq Calls
    /\ inbound \subseteq Frames
    /\ served \subseteq Calls
    /\ pongs \in Nat
    /\ foreign \in Nat
    /\ pings \in Nat
    /\ closes \in Nat

\* A request is answered with the reply to itself, whatever ids another service
\* of the socket uses and in whatever order the replies arrive: deliver fills
\* the slot its frame's id and service name, and no other.
AnswersItsOwnCall ==
    \A c \in Calls : outcome[c] \in Bodies => outcome[c] = c

\* A slot waits in the map, in one reader's hand or in close's hands, never in
\* two of them, and it is empty until whoever holds it fills it.  Otherwise a
\* reply and a close that race would both fill it, and the one that came
\* second would take the answer of the first away.
SlotHasOneOwner ==
    \A c \in Calls :
        /\ ~(c \in Registered /\ (Held(c) \/ c \in draining))
        /\ ~(Held(c) /\ c \in draining)
        /\ \A r, s \in Readers : hand[r].at = c /\ hand[s].at = c => r = s
        /\ c \in Registered \/ Held(c) \/ c \in draining => answer[c] = Empty

\* No wakeup is lost between poll, which looks at the slot and leaves its waker,
\* and deliver or close, which fill it and take the waker: a task that awaits a
\* filled slot will be polled.
NoLostWakeup ==
    \A c \in Calls :
        pc[c] = "awaiting" /\ answer[c] # Empty => runnable[c]

\* A task that awaits an empty slot has its waker there or is about to look.
ParkedOrRunnable ==
    \A c \in Calls : pc[c] = "awaiting" => runnable[c] \/ parked[c]

\* What a slot holds is moved out by its own call's poll and is otherwise never
\* replaced: a reply that lost the race against close, or close against it,
\* changes nothing.
AnswerIsFinal ==
    [][\A c \in Calls :
         answer[c] # Empty => answer'[c] \in {answer[c], Taken}]_vars

(***************************************************************************)
(* The inductive invariant behind the safety properties.  An id names one  *)
(* call, and every place a reply passes through on its way from the peer   *)
(* to the caller (wire, inbound, hand, answer, outcome) holds, under that  *)
(* id, a reply to that call.                                               *)
(***************************************************************************)

\* The call has no slot in the map yet.
Early(c) == pc[c] \in {"idle", "allocated"}

IdsAreDistinct ==
    /\ \A c \in Calls : pc[c] # "idle" => id[c] \in 1..next
    /\ \A c, d \in Calls : pc[c] # "idle" /\ pc[d] # "idle" /\ id[c] = id[d] => c = d

MapIsById ==
    \A i \in DOMAIN pending : id[pending[i]] = i /\ ~Early(pending[i])

RepliesNameTheirCall ==
    \A f \in inbound :
        f.kind = "reply" /\ f.service = This =>
            f.body \in served /\ id[f.body] = f.id /\ ~Early(f.body)

HandsHoldTheirCall ==
    /\ \A r \in Readers : hand[r].at \in Calls =>
          hand[r].body = hand[r].at /\ hand[r].at \in served /\ ~Early(hand[r].at)
    /\ \A c \in draining : ~Early(c)

SlotsHoldTheirCall ==
    \A c \in Calls :
        /\ answer[c] \in Bodies => answer[c] = c /\ c \in served
        /\ Early(c) => answer[c] = Empty
        /\ answer[c] = Taken => pc[c] = "done"

WireHoldsTheUnserved ==
    /\ \A c \in wire : ~Early(c) /\ c \notin served
    /\ \A c \in Calls : Early(c) \/ pc[c] \in {"registered", "sending"}
          => c \notin wire /\ c \notin served

OutcomesAreFinal ==
    \A c \in Calls :
        /\ pc[c] = "done" => outcome[c] \in {c, Closed, Refused}
        /\ pc[c] # "done" => outcome[c] = Nothing

IndInv ==
    /\ TypeOK
    /\ IdsAreDistinct
    /\ MapIsById
    /\ RepliesNameTheirCall
    /\ HandsHoldTheirCall
    /\ SlotsHoldTheirCall
    /\ WireHoldsTheUnserved
    /\ OutcomesAreFinal
    /\ SlotHasOneOwner
    /\ NoLostWakeup
    /\ ParkedOrRunnable

(***************************************************************************)
(* Liveness.                                                               *)
(***************************************************************************)

Over(c) == pc[c] \in {"done", "dropped"}

\* A call whose slot a reader or close has in hand is settled: the fill wakes
\* the task and the task reads it.
OwnedIsSettled ==
    \A c \in Calls :
        pc[c] \in {"sent", "awaiting"} /\ (Held(c) \/ c \in draining) ~> Over(c)

\* The close a driver makes once the socket is gone settles every call that was
\* in the map when it ran.
CloseSettlesTheRegistered ==
    \A c \in Calls :
        /\ ~live
        /\ closes <= MaxCloses
        /\ c \in Registered
        /\ pc[c] \in {"sent", "awaiting"}
        ~> Over(c)

(***************************************************************************)
(* What the code's own comments claim and the code does not do.            *)
(***************************************************************************)

\* "what a closed socket owes every call it will now never answer": once the
\* socket is gone every call that waits is settled.  A call that registers
\* itself after close took the map is not: nothing records the close.
EveryWaiterIsSettled ==
    \A c \in Calls : ~live /\ pc[c] = "awaiting" ~> Over(c)

(***************************************************************************)
(* The calls of a session are the calls of RpcCalls.                       *)
(***************************************************************************)

Phase(c) ==
    CASE pc[c] = "idle" -> "idle"
      [] pc[c] = "dropped" -> "abandoned"
      [] pc[c] = "done" /\ outcome[c] = c -> "answered"
      [] pc[c] = "done" /\ outcome[c] \in {Closed, Refused} -> "failed"
      [] pc[c] = "done" /\ outcome[c] \notin {c, Closed, Refused} -> "misdelivered"
      [] OTHER -> "waiting"

Rpc == INSTANCE RpcCalls WITH phase <- [c \in Calls |-> Phase(c)]

\* A session answers a call with its own reply, which the peer has sent, or
\* fails it, once; and the peer serves a call at most once.
ImplementsRpcCalls == Rpc!RpcSpec
=============================================================================
