------------------------------ MODULE MobileWs ------------------------------
(***************************************************************************)
(* What the Dart, Kotlin and Swift ws_rpc transports have in common        *)
(* (dart_ws_client.rs, kotlin_ws_client.rs and swift_ws_client.rs under    *)
(* src/src/features/service_schema/): one transport owns one socket,       *)
(* numbers its requests, keeps the waiting ones in a map, pings on a timer *)
(* of its own, and gives up on a pong that does not come in time.  Each    *)
(* of DartWsTransport, KotlinWsTransport and SwiftWsTransport extends this *)
(* module with the steps its platform runs them in, and owes what is       *)
(* stated at the end.                                                      *)
(*                                                                         *)
(* The socket and the far side are the application's: they are modelled    *)
(* from the calls the transports make on them.  Time passes one tick at a  *)
(* time, and only when nothing is due; Latency bounds the round trip of a  *)
(* probe, the wait for a thread, an event loop or an actor included.       *)
(***************************************************************************)
EXTENDS Integers, Sequences, FiniteSets

CONSTANTS
    Calls,     \* the requests the client makes
    Interval,  \* heartbeat.interval
    Timeout,   \* heartbeat.timeout
    Latency    \* what a living peer's pong takes at most

ASSUME TimesAssumption ==
    /\ Interval \in Nat \ {0}
    /\ Timeout \in Nat \ {0}
    /\ Latency \in Nat
    /\ Latency < Timeout

\* No call is one of the other marks an outcome takes.
ASSUME MarksAssumption == Calls \cap {"unmade", "waiting", "failed", "open"} = {}

VARIABLES
    sock,      \* the socket: open, closing by the transport's hand, or closed
    alive,     \* the peer answers
    pongs,     \* the pongs on their way, each with the time it may still take
    requests,  \* the calls whose request is on its way to the peer
    replies,   \* the reply frames on their way back
    served,    \* the calls the peer has answered
    closed,    \* the transport's closed flag
    endedBy,   \* what closed the transport
    quiet,     \* ticks since the transport was made or last handled a pong
    next,      \* the id the next request takes
    pending,   \* the calls the correlation map holds
    id,        \* id[c]: the id call c drew
    promise,   \* promise[c]: what the method of call c waits for was completed with
    outcome    \* outcome[c]: what the method of call c answered

network == <<sock, alive, pongs, requests, replies, served>>
flags == <<closed, endedBy>>
calls == <<next, pending, id, promise, outcome>>
shared == <<network, flags, quiet, calls>>

Off == -1    \* a timer that does not run

-----------------------------------------------------------------------------
\* The socket and the peer.

NetworkInit ==
    /\ sock = "open"
    /\ alive = TRUE
    /\ pongs = <<>>
    /\ requests = {}
    /\ replies = {}
    /\ served = {}

TransportInit(first) ==
    /\ closed = FALSE
    /\ endedBy = "nobody"
    /\ quiet = 0
    /\ next = first
    /\ pending = {}
    /\ id = [c \in Calls |-> 0]
    /\ promise = [c \in Calls |-> "open"]
    /\ outcome = [c \in Calls |-> "unmade"]

\* The peer goes silent while the transport is open: what it has sent arrives,
\* what it has not never does.
GoSilent ==
    /\ alive /\ ~closed
    /\ alive' = FALSE
    /\ \E n \in 0..Len(pongs) : pongs' = SubSeq(pongs, 1, n)
    /\ requests' = {}
    /\ UNCHANGED <<sock, replies, served, flags, quiet, calls>>

PeerAnswers(c) ==
    /\ alive
    /\ sock = "open"
    /\ c \in requests
    /\ requests' = requests \ {c}
    /\ served' = served \cup {c}
    /\ replies' = replies \cup {[id |-> id[c], body |-> c]}
    /\ UNCHANGED <<sock, alive, pongs, flags, quiet, calls>>

\* The connection is lost, or a close handshake ends.
SocketCloses ==
    /\ sock # "closed"
    /\ sock' = "closed"
    /\ pongs' = <<>>
    /\ requests' = {}
    /\ replies' = {}
    /\ UNCHANGED <<alive, served, flags, quiet, calls>>

Peer == GoSilent \/ SocketCloses \/ \E c \in Calls : PeerAnswers(c)

\* A frame handed to a socket that is not open goes nowhere.
Reaches == sock = "open" /\ alive
WriteRequest(c) == requests' = IF Reaches THEN requests \cup {c} ELSE requests
WritePing == pongs' = IF Reaches THEN Append(pongs, Latency) ELSE pongs

\* socket.close().
CloseSocket == sock' = IF sock = "open" THEN "closing" ELSE sock

\* No pong is due, no close event waits to be told, and no method to resume.
NothingArrives ==
    /\ \A c \in Calls : outcome[c] = "waiting" => promise[c] = "open"
    /\ sock = "open" => \A n \in 1..Len(pongs) : pongs[n] > 0
    /\ sock = "closed" => closed

Less(l) == IF l > 0 THEN l - 1 ELSE l

\* A tick, as far as the peer and the observer of its pongs are concerned.
TimePasses ==
    /\ ~closed
    /\ pongs' = [n \in 1..Len(pongs) |-> Less(pongs[n])]
    /\ quiet' = IF quiet <= Interval + Timeout THEN quiet + 1 ELSE quiet
    /\ UNCHANGED <<sock, alive, requests, replies, served, flags, calls>>

-----------------------------------------------------------------------------
\* The correlation map.

\* Call c draws the next id and enters the map under it.
Register(c) ==
    /\ id' = [id EXCEPT ![c] = next]
    /\ next' = next + 1
    /\ pending' = pending \cup {c}

\* The calls in the map under id i.
Under(i) == {c \in pending : id[c] = i}

\* What the completer, the deferred or the continuation of c holds: the first
\* value it is completed with.
Completed(c, with) == IF promise[c] = "open" THEN with ELSE promise[c]

\* All of C are completed with one value.
Complete(C, with) ==
    promise' = [c \in Calls |-> IF c \in C THEN Completed(c, with) ELSE promise[c]]

\* The method that awaits c resumes: a reply answers it, null or an error is
\* its transport failure.
Return(c) ==
    /\ outcome[c] = "waiting"
    /\ promise[c] # "open"
    /\ outcome' = [outcome EXCEPT ![c] = promise[c]]
    /\ UNCHANGED <<network, flags, quiet, next, pending, id, promise>>

\* What closed the transport: a heartbeat that runs out on a socket that has
\* closed already is not what closed it.
Cause(who) == IF who = "heartbeat" /\ sock # "open" THEN "socket" ELSE who

-----------------------------------------------------------------------------
\* What every transport owes.

\* A peer that answers every ping within the latency is never given up: only a
\* missing pong closes a transport (the options' own "how long it waits for
\* the answering pong before closing the connection").
HealthyStaysOpen == endedBy = "heartbeat" => ~alive

\* A peer that has been silent for longer than an interval and a timeout has
\* been given up.  It holds of a timeout shorter than the interval: the Dart
\* and Kotlin heartbeats put off the deadline with every ping.
DeadPeerIsClosed == Timeout < Interval /\ ~closed => quiet <= Interval + Timeout

\* A request made before the transport closes is settled, by its reply or by
\* the close, and the close comes when the peer falls silent.
RequestSettles ==
    \A c \in Calls : (outcome[c] = "waiting" /\ ~closed) ~> outcome[c] # "waiting"

Phase(c) ==
    CASE outcome[c] = "unmade" -> "idle"
      [] outcome[c] = "waiting" -> "waiting"
      [] outcome[c] = "failed" -> "failed"
      [] outcome[c] = c -> "answered"
      [] OTHER -> "misdelivered"

Rpc == INSTANCE RpcCalls WITH phase <- [c \in Calls |-> Phase(c)]

\* A transport answers a call with its own reply, which the peer has sent, or
\* fails it, once, whatever threads, timers and closes run beside it.
ImplementsRpcCalls == Rpc!RpcSpec
=============================================================================
