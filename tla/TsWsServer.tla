----------------------------- MODULE TsWsServer -----------------------------
(***************************************************************************)
(* One connection of the TypeScript server create{Service}WsServer         *)
(* (src/src/features/service_schema/ws_server.rs): the accepted socket,    *)
(* the server's own listeners and heartbeat, the attachment of its own     *)
(* service and those share hands the socket to (ws_service.rs).  The       *)
(* connections of a server touch one another in the set it holds them in   *)
(* alone, so one of them stands for all; held says it is in that set.      *)
(*                                                                         *)
(* A callback is one step, and the close event reaches onClose in the step *)
(* that closes the socket.  Time passes as in TsWsTransport: a tick at a   *)
(* time, never past a timer or a pong that is due.  Clearing a timer that  *)
(* has fired does nothing, so a handle is Off as soon as its timer fires.  *)
(***************************************************************************)
EXTENDS Integers, Sequences

CONSTANTS
    Services,  \* the services share may hand the socket to
    Requests,  \* the requests the peer sends
    Interval,  \* heartbeat.intervalMs
    Timeout,   \* heartbeat.timeoutMs
    Latency    \* what a living peer's pong takes at most

ASSUME TimesAssumption ==
    /\ Interval \in Nat \ {0}
    /\ Timeout \in Nat \ {0}
    /\ Latency \in Nat
    /\ Latency < Timeout

\* The server's own service is none of those that share the socket.
ASSUME ServicesAssumption == "own" \notin Services

VARIABLES
    sock,          \* readyState of the socket, "new" before accept
    alive,         \* the peer reads and answers
    closedBy,      \* who closed the socket
    stage,         \* how far accept and onClose got
    held,          \* connections holds this one
    aborted,       \* controller.signal.aborted
    attached,      \* the services whose attachment listens
    shared,        \* the services whose detach onClose will run
    idle,          \* what is left of the idle timer
    pongDeadline,  \* what is left of the deadline
    quiet,         \* ticks since the last inbound frame, or since accept
    pongs,         \* the pongs on their way, with the time each may still take
    to,            \* to[q]: the service request q names
    state,         \* state[q]: how far request q got
    late           \* the library was handed a frame for the closed socket

socket == <<sock, alive, closedBy>>
connection == <<stage, held, aborted, attached, shared>>
timers == <<idle, pongDeadline, quiet>>
work == <<to, state>>
vars == <<socket, connection, timers, pongs, work, late>>

-----------------------------------------------------------------------------
Off == -1

All == Services \cup {"own"}

Stages == {"new", "accepted", "refused", "gone", "stuck"}

\* accept ran, to its end or until contextFor threw, and the server's own
\* listeners are on the socket.
Listening == stage \in {"accepted", "refused"}

Init ==
    /\ sock = "open"
    /\ alive = TRUE
    /\ closedBy = "nobody"
    /\ stage = "new"
    /\ held = FALSE
    /\ aborted = FALSE
    /\ attached = {}
    /\ shared = {}
    /\ idle = Off
    /\ pongDeadline = Off
    /\ quiet = 0
    /\ pongs = <<>>
    /\ to = [q \in Requests |-> "own"]
    /\ state = [q \in Requests |-> "unsent"]
    /\ late = FALSE

-----------------------------------------------------------------------------
\* The peer.

Send(q) ==
    /\ alive
    /\ sock = "open"
    /\ state[q] = "unsent"
    /\ \E s \in All : to' = [to EXCEPT ![q] = s]
    /\ state' = [state EXCEPT ![q] = "sent"]
    /\ UNCHANGED <<socket, connection, timers, pongs, late>>

\* The peer falls silent: nothing it has not sent will come.
GoSilent ==
    /\ alive
    /\ alive' = FALSE
    /\ \E n \in 0..Len(pongs) : pongs' = SubSeq(pongs, 1, n)
    /\ UNCHANGED <<sock, closedBy, connection, timers, work, late>>

-----------------------------------------------------------------------------
\* accept and share.

\* Mutant: the idle timer is left to the first frame.
AcceptUnarmed ==
    /\ stage = "new"
    /\ stage' = "accepted"
    /\ held' = TRUE
    /\ \E S \in SUBSET Services : attached' = S \cup {"own"} /\ shared' = S
    /\ quiet' = 0
    /\ UNCHANGED <<socket, aborted, idle, pongDeadline, pongs, work, late>>

\* contextFor is handed the connection before accept is done with it, and may
\* share it.
Accept ==
    /\ stage = "new"
    /\ stage' = "accepted"
    /\ held' = TRUE
    /\ \E S \in SUBSET Services : attached' = S \cup {"own"} /\ shared' = S
    /\ idle' = Interval
    /\ quiet' = 0
    /\ UNCHANGED <<socket, aborted, pongDeadline, pongs, work, late>>

\* contextFor throws, and accept with it: the three listeners stay, and detach
\* never gets its value.
AcceptThrows ==
    /\ stage = "new"
    /\ stage' = "refused"
    /\ \E S \in SUBSET Services : attached' = S /\ shared' = S
    /\ quiet' = 0
    /\ UNCHANGED <<socket, held, aborted, idle, pongDeadline, pongs, work, late>>

\* Mutant: the signal is not asked.
ShareUnasked(s) ==
    /\ stage # "new"
    /\ s \notin attached
    /\ attached' = attached \cup {s}
    /\ shared' = shared \cup {s}
    /\ UNCHANGED <<socket, stage, held, aborted, timers, pongs, work, late>>

\* share throws, and changes nothing, once the signal is aborted.  Each service
\* is attached once at a time.
Share(s) ==
    /\ stage # "new"
    /\ ~aborted
    /\ s \notin attached
    /\ attached' = attached \cup {s}
    /\ shared' = shared \cup {s}
    /\ UNCHANGED <<socket, stage, held, aborted, timers, pongs, work, late>>

\* The caller runs the detach share returned; onClose will run it once more.
Detach(s) ==
    /\ s \in attached
    /\ attached' = attached \ {s}
    /\ UNCHANGED <<socket, stage, held, aborted, shared, timers, pongs, work, late>>

-----------------------------------------------------------------------------
\* Frames.

\* Mutant: only a pong re-arms the idle timer.
OnFrameOnlyPong(kind) ==
    /\ sock \in {"open", "closing"}
    /\ IF Listening
       THEN /\ pongDeadline' = Off
            /\ idle' = IF kind = "pong" THEN Interval ELSE idle
       ELSE UNCHANGED <<pongDeadline, idle>>
    /\ quiet' = 0

\* Mutant: the deadline the ping armed is left running.
OnFrameLeavingDeadline(kind) ==
    /\ sock \in {"open", "closing"}
    /\ idle' = IF Listening THEN Interval ELSE idle
    /\ quiet' = 0
    /\ UNCHANGED pongDeadline

\* onFrame, for a frame of any kind.  Its answer to a ping only sends.
OnFrame(kind) ==
    /\ sock \in {"open", "closing"}
    /\ IF Listening
       THEN pongDeadline' = Off /\ idle' = Interval
       ELSE UNCHANGED <<pongDeadline, idle>>
    /\ quiet' = 0

HearPong ==
    /\ pongs # <<>>
    /\ pongs' = Tail(pongs)
    /\ OnFrame("pong")
    /\ UNCHANGED <<socket, connection, work, late>>

\* A frame of the peer's that no attachment reads: a ping, another service's.
HearOther ==
    /\ alive
    /\ OnFrame("other")
    /\ UNCHANGED <<socket, connection, pongs, work, late>>

\* A request reaches onFrame and every attachment; the one it names dispatches.
HearRequest(q) ==
    /\ state[q] = "sent"
    /\ OnFrame("request")
    /\ state' = [state EXCEPT ![q] = IF to[q] \in attached THEN "served" ELSE "unheard"]
    /\ UNCHANGED <<socket, connection, pongs, to, late>>

\* Mutant: the attachment writes to the socket itself.
AnswerUnguarded(q) ==
    /\ state[q] = "served"
    /\ state' = [state EXCEPT ![q] = IF sock = "open" THEN "replied" ELSE "dropped"]
    /\ late' = (late \/ sock = "closed")
    /\ UNCHANGED <<socket, connection, timers, pongs, to>>

\* A handler ends: the guarded socket drops its reply once the signal is aborted.
Answer(q) ==
    /\ state[q] = "served"
    /\ state' = [state EXCEPT ![q] =
                    IF ~aborted /\ sock = "open" THEN "replied" ELSE "dropped"]
    /\ late' = (late \/ (~aborted /\ sock = "closed"))
    /\ UNCHANGED <<socket, connection, timers, pongs, to>>

-----------------------------------------------------------------------------
\* The heartbeat and the close.

\* The idle timer fires: a ping, which a living peer answers, and its deadline.
FireIdle ==
    /\ idle = 0
    /\ idle' = Off
    /\ pongs' = IF sock = "open" /\ alive THEN Append(pongs, Latency) ELSE pongs
    /\ pongDeadline' = Timeout
    /\ late' = (late \/ sock = "closed")
    /\ UNCHANGED <<socket, connection, quiet, work>>

CloseSocket(who) ==
    /\ sock' = IF sock = "open" THEN "closing" ELSE sock
    /\ closedBy' = IF sock = "open" THEN who ELSE closedBy

FireDeadline ==
    /\ pongDeadline = 0
    /\ pongDeadline' = Off
    /\ CloseSocket("heartbeat")
    /\ UNCHANGED <<alive, connection, idle, quiet, pongs, work, late>>

\* onError: onSocketError first, the close after it.  A hook that throws leaves
\* the socket as it is.
SocketError ==
    /\ Listening
    /\ sock # "closed"
    /\ CloseSocket("error") \/ UNCHANGED <<sock, closedBy>>
    /\ UNCHANGED <<alive, connection, timers, pongs, work, late>>

\* connection.close(), or closeAll where the set holds the connection.
Close ==
    /\ stage # "new"
    /\ CloseSocket("server")
    /\ UNCHANGED <<alive, connection, timers, pongs, work, late>>

\* Mutant: the connection stays in the set.
OnCloseHeld ==
    /\ idle' = Off
    /\ pongDeadline' = Off
    /\ stage' = IF stage = "accepted" THEN "gone" ELSE "stuck"
    /\ shared' = {}
    /\ attached' = IF stage = "accepted" THEN {} ELSE attached \ shared
    /\ aborted' = (aborted \/ stage = "accepted")
    /\ UNCHANGED held

\* onClose.  Where accept threw, detach is still unset when it is called: the
\* callback throws there, and neither the delete nor the abort is reached.
OnClose ==
    /\ idle' = Off
    /\ pongDeadline' = Off
    /\ shared' = {}
    /\ \/ /\ stage = "accepted"
          /\ stage' = "gone"
          /\ attached' = attached \ (shared \cup {"own"})
          /\ held' = FALSE
          /\ aborted' = TRUE
       \/ /\ stage = "refused"
          /\ stage' = "stuck"
          /\ attached' = attached \ shared
          /\ UNCHANGED <<held, aborted>>

\* The close handshake ends, or the connection is lost.
SocketCloses ==
    /\ Listening
    /\ sock # "closed"
    /\ sock' = "closed"
    /\ closedBy' = IF closedBy = "nobody" THEN "peer" ELSE closedBy
    /\ pongs' = <<>>
    /\ state' = [q \in Requests |-> IF state[q] = "sent" THEN "unheard" ELSE state[q]]
    /\ OnClose
    /\ UNCHANGED <<alive, quiet, to, late>>

Less(l) == IF l > 0 THEN l - 1 ELSE l

Tick ==
    /\ idle # 0
    /\ pongDeadline # 0
    /\ sock = "open" => \A n \in 1..Len(pongs) : pongs[n] > 0
    /\ idle' = Less(idle)
    /\ pongDeadline' = Less(pongDeadline)
    /\ pongs' = [n \in 1..Len(pongs) |-> Less(pongs[n])]
    /\ quiet' = IF quiet <= Interval + Timeout THEN quiet + 1 ELSE quiet
    /\ UNCHANGED <<socket, connection, work, late>>

-----------------------------------------------------------------------------
Peer == GoSilent \/ SocketCloses \/ SocketError \/ \E q \in Requests : Send(q)

Hear == HearPong \/ HearOther \/ \E q \in Requests : HearRequest(q)

Server ==
    \/ Accept \/ AcceptThrows \/ Close \/ FireIdle \/ FireDeadline
    \/ \E s \in Services : Share(s) \/ Detach(s)
    \/ \E q \in Requests : Answer(q)

Next == Peer \/ Hear \/ Server \/ Tick

Spec == Init /\ [][Next]_vars

\* Time passes and due timers fire; what a peer has sent arrives; handlers end;
\* the platform ends a close handshake that the peer does not.
Fairness ==
    /\ WF_vars(Tick)
    /\ WF_vars(FireIdle)
    /\ WF_vars(FireDeadline)
    /\ WF_vars(HearPong)
    /\ \A q \in Requests : WF_vars(Answer(q))
    /\ WF_vars(sock = "closing" /\ SocketCloses)

FairSpec == Spec /\ Fairness

-----------------------------------------------------------------------------
\* Properties.

TypeOK ==
    /\ sock \in {"open", "closing", "closed"}
    /\ alive \in BOOLEAN
    /\ closedBy \in {"nobody", "heartbeat", "error", "server", "peer"}
    /\ stage \in Stages
    /\ held \in BOOLEAN
    /\ aborted \in BOOLEAN
    /\ attached \subseteq All
    /\ shared \subseteq Services
    /\ idle \in {Off} \cup 0..Interval
    /\ pongDeadline \in {Off} \cup 0..Timeout
    /\ quiet \in 0..(Interval + Timeout + 1)
    /\ pongs \in Seq(0..Latency)
    /\ to \in [Requests -> All]
    /\ state \in [Requests -> {"unsent", "sent", "served", "unheard", "replied", "dropped"}]
    /\ late \in BOOLEAN

\* An accepted connection that has closed leaves nothing behind: its signal is
\* aborted, no timer of it runs, and nothing listens on its socket any more,
\* however it was shared ("Throws once the connection is closed").
NothingStays ==
    stage = "gone" => /\ aborted
                      /\ attached = {}
                      /\ shared = {}
                      /\ idle = Off
                      /\ pongDeadline = Off

\* The set holds exactly the connections accept returned whose close event has
\* not come: closeAll reaches every one of them.
HeldUntilClosed == held <=> stage = "accepted"

\* "A write after close is dropped rather than handed to the library": no reply
\* and no ping of an accepted connection is sent on its closed socket.
NothingSentAfterClose == late => stage # "gone"

\* A peer that answers every ping within the latency is never hung up on by the
\* heartbeat, whatever else it sends and however the answer crosses a timer.
HealthyStaysOpen == closedBy = "heartbeat" => ~alive

\* A peer that has been silent for longer than an interval and a timeout has
\* been found out and its socket closed.
SilentIsFoundOut ==
    stage = "accepted" /\ sock = "open" => quiet <= Interval + Timeout

\* README, "a busy connection is never probed": a ping goes out only once no frame of
\* any kind has arrived for an interval.
BusyIsNotProbed ==
    [][pongDeadline = Off /\ pongDeadline' # Off => quiet >= Interval]_vars

\* A held connection whose peer has fallen silent is dropped from the set.
SilentIsDropped == (held /\ ~alive) ~> ~held

=============================================================================
