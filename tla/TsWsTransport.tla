--------------------------- MODULE TsWsTransport ---------------------------
(***************************************************************************)
(* The TypeScript transports create{Service}WsTransport binds to one       *)
(* socket (src/src/features/service_schema/ws_client.rs).  Each transport  *)
(* keeps a counter, a correlation map and two timers; all of them hear     *)
(* every message and the close event of the socket they share.             *)
(*                                                                         *)
(* JavaScript runs one callback at a time, so a callback is one step: a    *)
(* timer that fires, a frame that arrives, the close event reaching one    *)
(* listener, a call of the transport's own functions.  Time passes one     *)
(* tick at a time and never past a timer or a pong that is due; Latency    *)
(* bounds a probe's round trip, the wait for the event loop included.      *)
(*                                                                         *)
(* A timer whose handle is overwritten before it fires is a stray: nothing *)
(* can clear it any more, and it fires.  Strays are counted per remaining  *)
(* time.  Clearing a timer that has fired does nothing, so a handle is Off *)
(* as soon as its timer fires.                                             *)
(*                                                                         *)
(* Each transport is of a service of its own, as the README asks.  notify  *)
(* and the pong that answers an inbound ping only send a frame: they touch *)
(* no state of the transport and have no action here.                      *)
(***************************************************************************)
EXTENDS Integers, Sequences, FiniteSets

CONSTANTS
    Transports,  \* the transports that may be bound to the socket
    Probing,     \* those whose options.heartbeat is not false
    Calls,       \* the requests their clients make
    Interval,    \* heartbeat.intervalMs
    Timeout,     \* heartbeat.timeoutMs
    Latency,     \* what a living peer's pong takes at most
    MaxStrays    \* how many strays of one remaining time a transport can hold

ASSUME TransportsAssumption == Probing \subseteq Transports

ASSUME TimesAssumption ==
    /\ Interval \in Nat \ {0}
    /\ Timeout \in Nat \ {0}
    /\ Latency \in Nat
    /\ Latency < Timeout

ASSUME BoundsAssumption == MaxStrays \in Nat

\* No call is one of the other marks an outcome takes.
ASSUME MarksAssumption ==
    Calls \cap {"unmade", "waiting", "rejected", "failed", "invalid"} = {}

VARIABLES
    sock,           \* readyState of the socket
    alive,          \* the peer answers
    closedBy,       \* who closed the socket
    early,          \* the transports bound while the socket was still connecting
    stage,          \* stage[t]: absent, listening, ended by the close event, or closed
    nextPing,       \* nextPing[t]: what is left of the timer the handle names
    pongDeadline,   \* pongDeadline[t]: likewise
    strayPings,     \* strayPings[t][l]: ping timers with l left that no handle names
    strayDeadlines, \* strayDeadlines[t][l]: likewise for pong deadlines
    quiet,          \* quiet[t]: ticks since a probing t was bound or last heard a pong, while it listens
    pongs,          \* the pongs on their way, each with the time it may still take
    next,           \* next[t]: the last id drawn
    pending,        \* pending[t]: the calls the correlation map of t holds
    made,           \* made[c]: the transport call c went through
    id,             \* id[c]: the id c drew
    outcome,        \* outcome[c]: what the promise of c settled with
    requests,       \* the calls whose request is on its way to the peer
    replies         \* the reply frames on their way back

socket == <<sock, alive, closedBy>>
timers == <<nextPing, pongDeadline, strayPings, strayDeadlines>>
heartbeat == <<timers, quiet, pongs>>
calls == <<next, pending, made, id, outcome>>
frames == <<requests, replies>>
bound == <<early, stage>>
vars == <<socket, bound, heartbeat, calls, frames>>

-----------------------------------------------------------------------------
\* Data.

Off == -1       \* the handle is undefined

Outcomes == {"unmade", "waiting", "rejected", "failed", "invalid"} \cup Calls

\* A reply answers one call; fits says whether its envelope parses as what the
\* operation declares.
Replies == [service : Transports, id : Nat, body : Calls, fits : BOOLEAN]

Listening(t) == stage[t] = "listening"

\* The close event is being dispatched: no other task runs before its
\* listeners have, but the continuations of settled promises may.
Notifying == sock = "closed" /\ \E t \in Transports : Listening(t)

\* Strays after one with l left joins them, after one that is due fires, and a
\* tick later.
Joined(f, l) == [f EXCEPT ![l] = @ + 1]
Fired(f) == [f EXCEPT ![0] = @ - 1]
Earlier(f) == [l \in DOMAIN f |-> IF l + 1 \in DOMAIN f THEN f[l + 1] ELSE 0]

Init ==
    /\ sock \in {"connecting", "open"}
    /\ early = {}
    /\ alive = TRUE
    /\ closedBy = "nobody"
    /\ stage = [t \in Transports |-> "absent"]
    /\ nextPing = [t \in Transports |-> Off]
    /\ pongDeadline = [t \in Transports |-> Off]
    /\ strayPings = [t \in Transports |-> [l \in 0..Interval |-> 0]]
    /\ strayDeadlines = [t \in Transports |-> [l \in 0..Timeout |-> 0]]
    /\ quiet = [t \in Transports |-> 0]
    /\ pongs = <<>>
    /\ next = [t \in Transports |-> 0]
    /\ pending = [t \in Transports |-> {}]
    /\ made = [c \in Calls |-> "nobody"]
    /\ id = [c \in Calls |-> 0]
    /\ outcome = [c \in Calls |-> "unmade"]
    /\ requests = {}
    /\ replies = {}

-----------------------------------------------------------------------------
\* The socket and the peer.

Open ==
    /\ sock = "connecting"
    /\ sock' = "open"
    /\ UNCHANGED <<alive, closedBy, bound, heartbeat, calls, frames>>

\* The peer goes silent: what it has sent arrives, what it has not never does.
GoSilent ==
    /\ alive
    /\ alive' = FALSE
    /\ \E n \in 0..Len(pongs) : pongs' = SubSeq(pongs, 1, n)
    /\ requests' = {}
    /\ UNCHANGED <<sock, closedBy, bound, timers, quiet, calls, replies>>

PeerAnswers(c) ==
    /\ alive
    /\ sock = "open"
    /\ c \in requests
    /\ requests' = requests \ {c}
    /\ \E fits \in BOOLEAN :
        replies' = replies \cup
            {[service |-> made[c], id |-> id[c], body |-> c, fits |-> fits]}
    /\ UNCHANGED <<socket, bound, heartbeat, calls>>

\* The close handshake ends, or the connection is lost.
SocketCloses ==
    /\ sock # "closed"
    /\ sock' = "closed"
    /\ closedBy' = IF closedBy = "nobody" THEN "peer" ELSE closedBy
    /\ pongs' = <<>>
    /\ requests' = {}
    /\ replies' = {}
    /\ UNCHANGED <<alive, bound, timers, quiet, calls>>

-----------------------------------------------------------------------------
\* The heartbeat.

\* schedulePing in every transport of T: the handle takes the new timer, and a
\* ping timer it still named is a stray from now on.
SchedulePing(T) ==
    /\ nextPing' = [t \in Transports |->
                       IF t \in T \cap Probing THEN Interval ELSE nextPing[t]]
    /\ strayPings' = [t \in Transports |->
                         IF t \in T \cap Probing /\ nextPing[t] # Off
                         THEN Joined(strayPings[t], nextPing[t])
                         ELSE strayPings[t]]

\* The factory: the listeners are added and the first ping is scheduled.
Bind(t) ==
    /\ stage[t] = "absent"
    /\ sock # "closed"
    /\ stage' = [stage EXCEPT ![t] = "listening"]
    /\ early' = IF sock = "connecting" THEN early \cup {t} ELSE early
    /\ quiet' = [quiet EXCEPT ![t] = 0]
    /\ SchedulePing({t})
    /\ UNCHANGED <<socket, pongDeadline, strayDeadlines, pongs, calls, frames>>

\* What a ping timer does.  On a connecting socket send throws, and the
\* callback ends there; on a closing or closed one it drops the frame.
Ping(t) ==
    IF sock = "connecting"
    THEN UNCHANGED <<pongs, pongDeadline, strayDeadlines>>
    ELSE /\ pongs' = IF sock = "open" /\ alive THEN Append(pongs, Latency) ELSE pongs
         /\ pongDeadline' = [pongDeadline EXCEPT ![t] = Timeout]
         /\ strayDeadlines' =
                IF pongDeadline[t] = Off THEN strayDeadlines
                ELSE [strayDeadlines EXCEPT
                         ![t] = Joined(strayDeadlines[t], pongDeadline[t])]

FirePing(t) ==
    /\ ~Notifying
    /\ \/ /\ nextPing[t] = 0
          /\ nextPing' = [nextPing EXCEPT ![t] = Off]
          /\ UNCHANGED strayPings
       \/ /\ strayPings[t][0] > 0
          /\ strayPings' = [strayPings EXCEPT ![t] = Fired(strayPings[t])]
          /\ UNCHANGED nextPing
    /\ Ping(t)
    /\ UNCHANGED <<socket, bound, quiet, calls, frames>>

\* The pong did not come: socket.close().
FireDeadline(t) ==
    /\ ~Notifying
    /\ \/ /\ pongDeadline[t] = 0
          /\ pongDeadline' = [pongDeadline EXCEPT ![t] = Off]
          /\ UNCHANGED strayDeadlines
       \/ /\ strayDeadlines[t][0] > 0
          /\ strayDeadlines' = [strayDeadlines EXCEPT ![t] = Fired(strayDeadlines[t])]
          /\ UNCHANGED pongDeadline
    /\ IF sock \in {"connecting", "open"}
       THEN sock' = "closing" /\ closedBy' = "heartbeat"
       ELSE UNCHANGED <<sock, closedBy>>
    /\ UNCHANGED <<alive, bound, nextPing, strayPings, quiet, pongs, calls, frames>>

\* Mutant: a pong clears the deadline and schedules no ping.
DeliverLastPong ==
    /\ sock \in {"open", "closing"}
    /\ pongs # <<>>
    /\ pongDeadline' = [t \in Transports |->
                           IF Listening(t) THEN Off ELSE pongDeadline[t]]
    /\ pongs' = Tail(pongs)
    /\ UNCHANGED <<socket, bound, nextPing, strayPings, strayDeadlines, quiet, calls, frames>>

\* A pong reaches every listener: each clears its deadline and schedules its
\* next ping, whoever sent the ping that is answered.
DeliverPong ==
    /\ sock \in {"open", "closing"}
    /\ pongs # <<>>
    /\ LET hearing == {t \in Transports : Listening(t)}
       IN  /\ \A t \in hearing, l \in 0..Interval : strayPings[t][l] < MaxStrays
           /\ pongDeadline' = [t \in Transports |->
                                  IF t \in hearing THEN Off ELSE pongDeadline[t]]
           /\ SchedulePing(hearing)
           /\ quiet' = [t \in Transports |-> IF t \in hearing THEN 0 ELSE quiet[t]]
    /\ pongs' = Tail(pongs)
    /\ UNCHANGED <<socket, bound, strayDeadlines, calls, frames>>

Less(l) == IF l > 0 THEN l - 1 ELSE l

\* Nothing is due now.
Idle ==
    /\ ~Notifying
    /\ \A t \in Transports :
        /\ nextPing[t] # 0
        /\ pongDeadline[t] # 0
        /\ strayPings[t][0] = 0
        /\ strayDeadlines[t][0] = 0
    /\ sock = "open" => \A n \in 1..Len(pongs) : pongs[n] > 0

Tick ==
    /\ Idle
    /\ nextPing' = [t \in Transports |-> Less(nextPing[t])]
    /\ pongDeadline' = [t \in Transports |-> Less(pongDeadline[t])]
    /\ strayPings' = [t \in Transports |-> Earlier(strayPings[t])]
    /\ strayDeadlines' = [t \in Transports |-> Earlier(strayDeadlines[t])]
    /\ pongs' = [n \in 1..Len(pongs) |-> Less(pongs[n])]
    /\ quiet' = [t \in Transports |->
                    IF t \in Probing /\ Listening(t) /\ quiet[t] <= Interval + Timeout
                    THEN quiet[t] + 1 ELSE quiet[t]]
    /\ UNCHANGED <<socket, bound, calls, frames>>

\* Mutant: the pong deadline is not cleared.
StopPinging(t) ==
    /\ nextPing' = [nextPing EXCEPT ![t] = Off]
    /\ UNCHANGED pongDeadline

\* stopHeartbeat in transport t: strays have no handle to stop them by.
StopHeartbeat(t) ==
    /\ nextPing' = [nextPing EXCEPT ![t] = Off]
    /\ pongDeadline' = [pongDeadline EXCEPT ![t] = Off]

-----------------------------------------------------------------------------
\* The calls.

\* What a promise holds once it is settled with `with`: the first settling wins.
Settled(c, with) == IF outcome[c] = "waiting" THEN with ELSE outcome[c]

\* Mutant: the waiting calls are forgotten, not settled.
SettleNone(t) ==
    /\ pending' = [pending EXCEPT ![t] = {}]
    /\ UNCHANGED outcome

\* settleAll in transport t.
SettleAll(t) ==
    /\ outcome' = [c \in Calls |->
                      IF c \in pending[t] THEN Settled(c, "failed") ELSE outcome[c]]
    /\ pending' = [pending EXCEPT ![t] = {}]

\* request.  The entry is in the map before the send: when a connecting socket
\* throws, the promise is rejected and the entry stays.
Request(t, c) ==
    /\ stage[t] # "absent"
    /\ outcome[c] = "unmade"
    /\ next' = [next EXCEPT ![t] = @ + 1]
    /\ id' = [id EXCEPT ![c] = next[t] + 1]
    /\ made' = [made EXCEPT ![c] = t]
    /\ pending' = [pending EXCEPT ![t] = @ \cup {c}]
    /\ outcome' = [outcome EXCEPT ![c] =
                      IF sock = "connecting" THEN "rejected" ELSE "waiting"]
    /\ requests' = IF sock = "open" /\ alive THEN requests \cup {c} ELSE requests
    /\ UNCHANGED <<socket, bound, heartbeat, replies>>

\* Mutant: a reply is matched by its id alone.
SettledByIdAlone(r) ==
    {c \in Calls : \E t \in Transports :
        Listening(t) /\ c \in pending[t] /\ id[c] = r.id}

\* The calls reply r settles: those waiting under its id in a listening
\* transport of its service.
SettledBy(r) ==
    {c \in Calls : \E t \in Transports :
        Listening(t) /\ t = r.service /\ c \in pending[t] /\ id[c] = r.id}

DeliverReply(r) ==
    /\ sock \in {"open", "closing"}
    /\ r \in replies
    /\ replies' = replies \ {r}
    /\ outcome' = [c \in Calls |->
                      IF c \in SettledBy(r)
                      THEN Settled(c, IF r.fits THEN r.body ELSE "invalid")
                      ELSE outcome[c]]
    /\ pending' = [t \in Transports |-> pending[t] \ SettledBy(r)]
    /\ UNCHANGED <<socket, bound, heartbeat, next, made, id, requests>>

\* The "close" listener of transport t.
OnClose(t) ==
    /\ sock = "closed"
    /\ Listening(t)
    /\ stage' = [stage EXCEPT ![t] = "ended"]
    /\ StopHeartbeat(t)
    /\ SettleAll(t)
    /\ UNCHANGED <<socket, early, strayPings, strayDeadlines, quiet, pongs, next,
                   made, id, frames>>

\* The transport's own close().
Close(t) ==
    /\ stage[t] \in {"listening", "ended"}
    /\ stage' = [stage EXCEPT ![t] = "closed"]
    /\ StopHeartbeat(t)
    /\ SettleAll(t)
    /\ UNCHANGED <<socket, early, strayPings, strayDeadlines, quiet, pongs, next,
                   made, id, frames>>

-----------------------------------------------------------------------------
Peer == Open \/ GoSilent \/ SocketCloses \/ \E c \in Calls : PeerAnswers(c)

Timers == Tick \/ \E t \in Transports : FirePing(t) \/ FireDeadline(t)

Hear == DeliverPong \/ \E r \in replies : DeliverReply(r)

Use == \E t \in Transports :
    Bind(t) \/ OnClose(t) \/ Close(t) \/ \E c \in Calls : Request(t, c)

Next == Peer \/ Timers \/ Hear \/ Use

Spec == Init /\ [][Next]_vars

\* Time passes and due timers fire; a living peer answers each request it gets
\* and what it sends arrives; the platform ends a close handshake that the
\* peer does not; a close event reaches its listeners.
Fairness ==
    /\ WF_vars(Tick)
    /\ \A t \in Transports : WF_vars(FirePing(t)) /\ WF_vars(FireDeadline(t))
    /\ \A t \in Transports : WF_vars(OnClose(t))
    /\ \A c \in Calls : WF_vars(PeerAnswers(c))
    /\ \A c \in Calls : WF_vars(\E r \in replies : r.body = c /\ DeliverReply(r))
    /\ WF_vars(DeliverPong)
    /\ WF_vars(sock = "closing" /\ SocketCloses)

FairSpec == Spec /\ Fairness

-----------------------------------------------------------------------------
\* Properties.

TypeOK ==
    /\ sock \in {"connecting", "open", "closing", "closed"}
    /\ alive \in BOOLEAN
    /\ closedBy \in {"nobody", "heartbeat", "peer"}
    /\ early \subseteq Transports
    /\ stage \in [Transports -> {"absent", "listening", "ended", "closed"}]
    /\ nextPing \in [Transports -> {Off} \cup 0..Interval]
    /\ pongDeadline \in [Transports -> {Off} \cup 0..Timeout]
    /\ strayPings \in [Transports -> [0..Interval -> Nat]]
    /\ strayDeadlines \in [Transports -> [0..Timeout -> Nat]]
    /\ quiet \in [Transports -> 0..(Interval + Timeout + 1)]
    /\ pongs \in Seq(0..Latency)
    /\ next \in [Transports -> Nat]
    /\ pending \in [Transports -> SUBSET Calls]
    /\ made \in [Calls -> Transports \cup {"nobody"}]
    /\ id \in [Calls -> Nat]
    /\ outcome \in [Calls -> Outcomes]
    /\ requests \subseteq Calls
    /\ replies \subseteq Replies

\* A socket whose peer answers every ping within the latency is never closed by
\* a heartbeat: only a missed pong closes it (transport_header's "a socket that
\* misses one is closed").
HealthyStaysOpen == closedBy = "heartbeat" => ~alive

\* Transport t heard a pong, or was bound, no longer than an interval and a
\* timeout ago.
HeardInTime(t) == Listening(t) => quiet[t] <= Interval + Timeout

\* A peer that has been silent for longer than an interval and a timeout has
\* been found out and the socket closed, for every probing transport that was
\* bound to an open socket.
DeadPeerIsClosed == sock = "open" => \A t \in Probing \ early : HeardInTime(t)

\* The same of a transport bound at any time (transport_header's "a socket that
\* misses one is closed").
EveryDeadPeerIsClosed == sock = "open" => \A t \in Probing : HeardInTime(t)

\* A call is answered with the reply to its own request, though every service
\* on the socket numbers its requests from 1.
AnswersItsOwnCall == \A c \in Calls : outcome[c] \in Calls => outcome[c] = c

\* A request made through a listening transport that probes, and was bound to,
\* an open socket is settled: by its reply, by the transport's close, or, when the peer falls
\* silent, by the close the heartbeat brings about.
OpenRequestSettles ==
    \A c \in Calls, t \in Probing :
        (c \in pending[t] /\ Listening(t) /\ t \notin early /\ sock = "open")
            ~> outcome[c] # "waiting"

=============================================================================
