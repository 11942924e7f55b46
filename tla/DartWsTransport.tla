-------------------------- MODULE DartWsTransport --------------------------
(***************************************************************************)
(* The Dart ws_rpc transport (src/src/features/service_schema/             *)
(* dart_ws_client.rs).  An isolate runs one callback at a time, so a       *)
(* callback is one step: a timer that fires, a frame or the end of the     *)
(* stream, a call of the transport's own methods.                          *)
(*                                                                         *)
(* The sink is the application's.  Once the socket is no longer open its   *)
(* add may drop the frame or throw; both are steps.                        *)
(***************************************************************************)
EXTENDS MobileWs

VARIABLES
    pingTimer,  \* what is left of the current period of _pingTimer
    pongTimer   \* what is left of _pongTimer

timers == <<pingTimer, pongTimer>>
dartVars == <<shared, timers>>

Init ==
    /\ NetworkInit
    /\ TransportInit(1)
    /\ pingTimer = Interval
    /\ pongTimer = Off

-----------------------------------------------------------------------------
\* request: the completer is registered before the frame is written, no flag is
\* read, and a send that throws leaves the entry in the map.
Request(c) ==
    /\ outcome[c] = "unmade"
    /\ Register(c)
    /\ outcome' = [outcome EXCEPT ![c] = "waiting"]
    /\ WriteRequest(c)
    /\ \/ UNCHANGED promise
       \/ sock # "open" /\ Complete({c}, "failed")
    /\ UNCHANGED <<sock, alive, pongs, replies, served, flags, quiet, timers>>

\* The method resumes.
Resume(c) == Return(c) /\ UNCHANGED timers

\* A reply is matched by its id alone, and its completer taken out of the map.
DeliverReply(r) ==
    /\ sock = "open" /\ ~closed
    /\ r \in replies
    /\ replies' = replies \ {r}
    /\ Complete(Under(r.id), r.body)
    /\ pending' = pending \ Under(r.id)
    /\ UNCHANGED <<sock, alive, pongs, requests, served, flags, quiet, next, id,
                   outcome, timers>>

-----------------------------------------------------------------------------
\* The heartbeat and the close.

\* The periodic timer: the deadline of the ping before is cancelled, and none
\* is set when the send throws.
FirePing ==
    /\ pingTimer = 0
    /\ pingTimer' = Interval
    /\ WritePing
    /\ \/ pongTimer' = Timeout
       \/ sock # "open" /\ UNCHANGED pongTimer
    /\ UNCHANGED <<sock, alive, requests, replies, served, flags, quiet, calls>>

\* Mutant: a pong leaves the deadline running.
NotePong == UNCHANGED pongTimer

\* A pong cancels the deadline.
CancelDeadline == pongTimer' = Off

DeliverPong ==
    /\ sock = "open" /\ ~closed
    /\ pongs # <<>>
    /\ pongs' = Tail(pongs)
    /\ quiet' = 0
    /\ CancelDeadline
    /\ UNCHANGED <<sock, alive, requests, replies, served, flags, calls, pingTimer>>

\* _onClose, once: the timers and the subscription are cancelled and what is
\* pending completes with null.  It leaves the sink as it is.
OnClose(who) ==
    /\ ~closed
    /\ closed' = TRUE
    /\ endedBy' = Cause(who)
    /\ pingTimer' = Off
    /\ pongTimer' = Off
    /\ Complete(pending, "failed")
    /\ pending' = {}
    /\ UNCHANGED <<network, quiet, next, id, outcome>>

FireDeadline == pongTimer = 0 /\ OnClose("heartbeat")
StreamDone == sock = "closed" /\ OnClose("socket")
Close == OnClose("app")

Tick ==
    /\ NothingArrives
    /\ pingTimer # 0 /\ pongTimer # 0
    /\ TimePasses
    /\ pingTimer' = Less(pingTimer)
    /\ pongTimer' = Less(pongTimer)

-----------------------------------------------------------------------------
Next ==
    \/ Peer /\ UNCHANGED timers
    \/ \E c \in Calls : Request(c) \/ Resume(c)
    \/ \E r \in replies : DeliverReply(r)
    \/ DeliverPong \/ FirePing \/ FireDeadline \/ StreamDone \/ Close \/ Tick

\* What the platform runs in the end: time, due timers, events and microtasks.
Scheduled ==
    \/ Tick \/ FirePing \/ FireDeadline \/ StreamDone \/ DeliverPong
    \/ \E c \in Calls : Resume(c)
=============================================================================
