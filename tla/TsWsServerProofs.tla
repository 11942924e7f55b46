--------------------------- MODULE TsWsServerProofs ---------------------------
EXTENDS TsWsServer, TLAPS

USE TimesAssumption, ServicesAssumption
USE DEF Off

-----------------------------------------------------------------------------
\* A pong that joins the others is one of the pongs.
LEMMA AppendType ==
    ASSUME NEW n \in Nat, NEW s \in Seq(0..n)
    PROVE  Append(s, n) \in Seq(0..n)
OBVIOUS

\* What the close finds and leaves: only what onClose will detach listens; once
\* it ran nothing does; a closed socket is one whose onClose was called; only
\* where it threw is a frame written after the close.
Lifecycle ==
    /\ attached \subseteq shared \cup {"own"}
    /\ stage = "gone" => aborted /\ attached = {} /\ shared = {}
    /\ sock = "closed" => stage \in {"gone", "stuck"}
    /\ late => stage = "stuck"
    /\ stage \notin {"accepted", "refused"} => idle = Off /\ pongDeadline = Off
    /\ HeldUntilClosed

\* One timer runs at a time.  The idle timer counts from the last frame, and so
\* does a running deadline while the socket is open; what is still to come of a
\* living peer's last pong is less than what is left of the deadline.
Clock ==
    /\ pongDeadline # Off => idle = Off
    /\ idle # Off => idle + quiet >= Interval
    /\ stage = "accepted" /\ sock = "open" =>
          \/ idle # Off /\ idle + quiet <= Interval
          \/ pongDeadline # Off /\ pongDeadline + quiet <= Interval + Timeout
    /\ alive /\ sock = "open" /\ pongDeadline # Off =>
          pongs # <<>> /\ pongs[Len(pongs)] < pongDeadline
    /\ HealthyStaysOpen

\* The types hold at the start.
LEMMA TypeInit == Init => TypeOK
<1> SUFFICES ASSUME Init PROVE TypeOK
  OBVIOUS
<1>1. pongs \in Seq(0..Latency)
  BY DEF Init
<1>2. quiet \in 0..(Interval + Timeout + 1)
  BY DEF Init
<1>3. to \in [Requests -> All] /\ attached \subseteq All /\ shared \subseteq Services
  BY DEF Init, All
<1> QED BY <1>1, <1>2, <1>3 DEF Init, TypeOK, Stages

\* Every step keeps the types.
LEMMA TypeStep ==
    ASSUME TypeOK, [Next]_vars
    PROVE  TypeOK'
<1>1. ASSUME NEW q \in Requests, Send(q)
      PROVE  TypeOK'
  BY <1>1 DEF Send, socket, connection, timers, work, TypeOK, All, Stages
<1>2. ASSUME GoSilent
      PROVE  TypeOK'
  <2> USE <1>2 DEF TypeOK, GoSilent
  <2>1. (pongs \in Seq(0..Latency))'
    OBVIOUS
  <2> QED BY <2>1 DEF socket, connection, timers, work
<1>3. ASSUME Accept
      PROVE  TypeOK'
  BY <1>3 DEF Accept, socket, connection, timers, work, TypeOK, All, Stages
<1>4. ASSUME AcceptThrows
      PROVE  TypeOK'
  BY <1>4 DEF AcceptThrows, socket, connection, timers, work, TypeOK, All,
     Stages
<1>5. ASSUME NEW s \in Services, Share(s)
      PROVE  TypeOK'
  BY <1>5 DEF Share, socket, connection, timers, work, TypeOK, All, Stages
<1>6. ASSUME NEW s \in Services, Detach(s)
      PROVE  TypeOK'
  BY <1>6 DEF Detach, socket, connection, timers, work, TypeOK, All, Stages
<1>7. ASSUME HearPong
      PROVE  TypeOK'
  BY <1>7 DEF HearPong, OnFrame, Listening, socket, connection, timers, work,
     TypeOK, All, Stages
<1>8. ASSUME HearOther
      PROVE  TypeOK'
  BY <1>8 DEF HearOther, OnFrame, Listening, socket, connection, timers, work,
     TypeOK, All, Stages
<1>9. ASSUME NEW q \in Requests, HearRequest(q)
      PROVE  TypeOK'
  BY <1>9 DEF HearRequest, OnFrame, Listening, socket, connection, timers,
     work, TypeOK, All, Stages
<1>10. ASSUME NEW q \in Requests, Answer(q)
      PROVE  TypeOK'
  BY <1>10 DEF Answer, socket, connection, timers, work, TypeOK, All, Stages
<1>11. ASSUME FireIdle
      PROVE  TypeOK'
  <2> USE <1>11 DEF TypeOK, FireIdle
  <2>1. (pongs \in Seq(0..Latency))'
    BY AppendType
  <2>2. (late \in BOOLEAN)'
    OBVIOUS
  <2> QED BY <2>1, <2>2 DEF socket, connection, timers, work
<1>12. ASSUME FireDeadline
      PROVE  TypeOK'
  BY <1>12 DEF FireDeadline, CloseSocket, socket, connection, timers, work,
     TypeOK, All, Stages
<1>13. ASSUME SocketError
      PROVE  TypeOK'
  BY <1>13 DEF SocketError, CloseSocket, Listening, socket, connection,
     timers, work, TypeOK, All, Stages
<1>14. ASSUME Close
      PROVE  TypeOK'
  BY <1>14 DEF Close, CloseSocket, socket, connection, timers, work, TypeOK,
     All, Stages
<1>15. ASSUME SocketCloses
      PROVE  TypeOK'
  <2> USE <1>15 DEF TypeOK, SocketCloses
  <2>1. (pongs \in Seq(0..Latency))'
    OBVIOUS
  <2>2. /\ (closedBy \in {"nobody", "heartbeat", "error", "server", "peer"})'
        /\ (state \in [Requests -> {"unsent", "sent", "served", "unheard", "replied", "dropped"}])'
    OBVIOUS
  <2>3. /\ (stage \in Stages)'
        /\ (held \in BOOLEAN)'
        /\ (aborted \in BOOLEAN)'
        /\ (attached \subseteq All)'
        /\ (shared \subseteq Services)'
        /\ (idle \in {Off} \cup 0..Interval)'
        /\ (pongDeadline \in {Off} \cup 0..Timeout)'
    BY DEF OnClose, Stages, All
  <2> QED BY <2>1, <2>2, <2>3
<1>16. ASSUME Tick
      PROVE  TypeOK'
  BY <1>16 DEF Tick, Less, socket, connection, timers, work, TypeOK, All,
     Stages
<1>17. ASSUME UNCHANGED vars
      PROVE  TypeOK'
  BY <1>17 DEF vars, socket, connection, timers, work, TypeOK, All, Stages,
     Listening
<1> QED BY <1>1, <1>2, <1>3, <1>4, <1>5, <1>6, <1>7, <1>8, <1>9, <1>10, <1>11,
   <1>12, <1>13, <1>14, <1>15, <1>16, <1>17 DEF Next, Peer, Hear, Server

\* The life cycle holds at the start.
LEMMA LifecycleInit == Init => Lifecycle
BY DEF Init, Lifecycle, HeldUntilClosed

\* Every step keeps the life cycle.
LEMMA LifecycleStep ==
    ASSUME TypeOK, Lifecycle, [Next]_vars
    PROVE  Lifecycle'
<1>1. ASSUME NEW q \in Requests, Send(q)
      PROVE  Lifecycle'
  BY <1>1 DEF Send, socket, connection, timers, work, Lifecycle,
     HeldUntilClosed
<1>2. ASSUME GoSilent
      PROVE  Lifecycle'
  BY <1>2 DEF GoSilent, socket, connection, timers, work, Lifecycle,
     HeldUntilClosed
<1>3. ASSUME Accept
      PROVE  Lifecycle'
  BY <1>3 DEF Accept, socket, connection, timers, work, Lifecycle,
     HeldUntilClosed
<1>4. ASSUME AcceptThrows
      PROVE  Lifecycle'
  BY <1>4 DEF AcceptThrows, socket, connection, timers, work, Lifecycle,
     HeldUntilClosed
<1>5. ASSUME NEW s \in Services, Share(s)
      PROVE  Lifecycle'
  BY <1>5 DEF Share, socket, connection, timers, work, Lifecycle,
     HeldUntilClosed
<1>6. ASSUME NEW s \in Services, Detach(s)
      PROVE  Lifecycle'
  BY <1>6 DEF Detach, socket, connection, timers, work, Lifecycle,
     HeldUntilClosed
<1>7. ASSUME HearPong
      PROVE  Lifecycle'
  BY <1>7 DEF HearPong, OnFrame, Listening, socket, connection, timers, work,
     Lifecycle, HeldUntilClosed
<1>8. ASSUME HearOther
      PROVE  Lifecycle'
  BY <1>8 DEF HearOther, OnFrame, Listening, socket, connection, timers, work,
     Lifecycle, HeldUntilClosed
<1>9. ASSUME NEW q \in Requests, HearRequest(q)
      PROVE  Lifecycle'
  BY <1>9 DEF HearRequest, OnFrame, Listening, socket, connection, timers,
     work, Lifecycle, HeldUntilClosed
<1>10. ASSUME NEW q \in Requests, Answer(q)
      PROVE  Lifecycle'
  BY <1>10 DEF Answer, socket, connection, timers, work, Lifecycle,
     HeldUntilClosed
<1>11. ASSUME FireIdle
      PROVE  Lifecycle'
  <2>1. Listening /\ sock # "closed" /\ stage # "stuck"
    BY <1>11 DEF FireIdle, Lifecycle, Listening
  <2>2. late' = FALSE
    BY <1>11, <2>1 DEF FireIdle, Lifecycle
  <2> QED BY <1>11, <2>1, <2>2 DEF FireIdle, Lifecycle, HeldUntilClosed, Listening, socket, connection
<1>12. ASSUME FireDeadline
      PROVE  Lifecycle'
  BY <1>12 DEF FireDeadline, CloseSocket, socket, connection, timers, work,
     Lifecycle, HeldUntilClosed
<1>13. ASSUME SocketError
      PROVE  Lifecycle'
  BY <1>13 DEF SocketError, CloseSocket, Listening, socket, connection,
     timers, work, Lifecycle, HeldUntilClosed
<1>14. ASSUME Close
      PROVE  Lifecycle'
  BY <1>14 DEF Close, CloseSocket, socket, connection, timers, work,
     Lifecycle, HeldUntilClosed
<1>15. ASSUME SocketCloses
      PROVE  Lifecycle'
  BY <1>15 DEF SocketCloses, OnClose, Listening, socket, connection, timers,
     work, Lifecycle, HeldUntilClosed
<1>16. ASSUME Tick
      PROVE  Lifecycle'
  BY <1>16 DEF Tick, Less, socket, connection, timers, work, Lifecycle,
     HeldUntilClosed
<1>17. ASSUME UNCHANGED vars
      PROVE  Lifecycle'
  BY <1>17 DEF vars, socket, connection, timers, work, Lifecycle,
     HeldUntilClosed, Listening
<1> QED BY <1>1, <1>2, <1>3, <1>4, <1>5, <1>6, <1>7, <1>8, <1>9, <1>10, <1>11,
   <1>12, <1>13, <1>14, <1>15, <1>16, <1>17 DEF Next, Peer, Hear, Server

\* The clock holds at the start.
LEMMA ClockInit == Init => Clock
BY DEF Init, Clock, HealthyStaysOpen

\* Every step keeps the clock.
LEMMA ClockStep ==
    ASSUME TypeOK, Lifecycle, Clock, [Next]_vars
    PROVE  Clock'
<1>1. ASSUME NEW q \in Requests, Send(q)
      PROVE  Clock'
  BY <1>1 DEF Send, socket, connection, timers, work, TypeOK, Lifecycle,
     Clock, HealthyStaysOpen
<1>2. ASSUME GoSilent
      PROVE  Clock'
  BY <1>2 DEF GoSilent, socket, connection, timers, work, TypeOK, Lifecycle,
     Clock, HealthyStaysOpen
<1>3. ASSUME Accept
      PROVE  Clock'
  BY <1>3 DEF Accept, socket, connection, timers, work, TypeOK, Lifecycle,
     Clock, HealthyStaysOpen
<1>4. ASSUME AcceptThrows
      PROVE  Clock'
  BY <1>4 DEF AcceptThrows, socket, connection, timers, work, TypeOK,
     Lifecycle, Clock, HealthyStaysOpen
<1>5. ASSUME NEW s \in Services, Share(s)
      PROVE  Clock'
  BY <1>5 DEF Share, socket, connection, timers, work, TypeOK, Lifecycle,
     Clock, HealthyStaysOpen
<1>6. ASSUME NEW s \in Services, Detach(s)
      PROVE  Clock'
  BY <1>6 DEF Detach, socket, connection, timers, work, TypeOK, Lifecycle,
     Clock, HealthyStaysOpen
<1>7. ASSUME HearPong
      PROVE  Clock'
  BY <1>7 DEF HearPong, OnFrame, Listening, socket, connection, timers, work,
     TypeOK, Lifecycle, Clock, HealthyStaysOpen
<1>8. ASSUME HearOther
      PROVE  Clock'
  BY <1>8 DEF HearOther, OnFrame, Listening, socket, connection, timers, work,
     TypeOK, Lifecycle, Clock, HealthyStaysOpen
<1>9. ASSUME NEW q \in Requests, HearRequest(q)
      PROVE  Clock'
  BY <1>9 DEF HearRequest, OnFrame, Listening, socket, connection, timers,
     work, TypeOK, Lifecycle, Clock, HealthyStaysOpen
<1>10. ASSUME NEW q \in Requests, Answer(q)
      PROVE  Clock'
  BY <1>10 DEF Answer, socket, connection, timers, work, TypeOK, Lifecycle,
     Clock, HealthyStaysOpen
<1>11. ASSUME FireIdle
      PROVE  Clock'
  BY <1>11 DEF FireIdle, socket, connection, timers, work, TypeOK, Lifecycle,
     Clock, HealthyStaysOpen
<1>12. ASSUME FireDeadline
      PROVE  Clock'
  BY <1>12 DEF FireDeadline, CloseSocket, socket, connection, timers, work,
     TypeOK, Lifecycle, Clock, HealthyStaysOpen
<1>13. ASSUME SocketError
      PROVE  Clock'
  BY <1>13 DEF SocketError, CloseSocket, Listening, socket, connection,
     timers, work, TypeOK, Lifecycle, Clock, HealthyStaysOpen
<1>14. ASSUME Close
      PROVE  Clock'
  BY <1>14 DEF Close, CloseSocket, socket, connection, timers, work, TypeOK,
     Lifecycle, Clock, HealthyStaysOpen
<1>15. ASSUME SocketCloses
      PROVE  Clock'
  BY <1>15 DEF SocketCloses, OnClose, Listening, socket, connection, timers,
     work, TypeOK, Lifecycle, Clock, HealthyStaysOpen
<1>16. ASSUME Tick
      PROVE  Clock'
  BY <1>16 DEF Tick, Less, socket, connection, timers, work, TypeOK,
     Lifecycle, Clock, HealthyStaysOpen
<1>17. ASSUME UNCHANGED vars
      PROVE  Clock'
  BY <1>17 DEF vars, socket, connection, timers, work, TypeOK, Lifecycle,
     Clock, HealthyStaysOpen, Listening
<1> QED BY <1>1, <1>2, <1>3, <1>4, <1>5, <1>6, <1>7, <1>8, <1>9, <1>10, <1>11,
   <1>12, <1>13, <1>14, <1>15, <1>16, <1>17 DEF Next, Peer, Hear, Server

-----------------------------------------------------------------------------
\* The theorems.

\* Every variable of the connection keeps its type (accept and its callbacks).
THEOREM TypeCorrect == Spec => []TypeOK
<1>1. TypeOK /\ [Next]_vars => TypeOK'
  BY TypeStep
<1> QED BY TypeInit, <1>1, PTL DEF Spec

\* The life cycle is kept by every step (accept, share, onClose).
THEOREM LifecycleKept == Spec => []Lifecycle
<1>1. TypeOK /\ Lifecycle /\ [Next]_vars => Lifecycle'
  BY LifecycleStep
<1> QED BY LifecycleInit, TypeCorrect, <1>1, PTL DEF Spec

\* The clock is kept by every step (armIdle, onFrame, onClose).
THEOREM ClockKept == Spec => []Clock
<1>1. TypeOK /\ Lifecycle /\ Clock /\ [Next]_vars => Clock'
  BY ClockStep
<1> QED BY ClockInit, TypeCorrect, LifecycleKept, <1>1, PTL DEF Spec

\* A connection that has closed leaves no timer, no listener and no attachment
\* behind, whoever shared it and whenever (onClose, share).
THEOREM NothingLeft == Spec => []NothingStays
<1>1. Lifecycle => NothingStays
  BY DEF Lifecycle, NothingStays
<1> QED BY LifecycleKept, <1>1, PTL

\* The set holds exactly the accepted connections that have not closed
\* (connections, closeAll).
THEOREM HeldExactly == Spec => []HeldUntilClosed
<1>1. Lifecycle => HeldUntilClosed
  BY DEF Lifecycle
<1> QED BY LifecycleKept, <1>1, PTL

\* No frame of an accepted connection is written after its close (guarded).
THEOREM NothingLate == Spec => []NothingSentAfterClose
<1>1. Lifecycle => NothingSentAfterClose
  BY DEF Lifecycle, NothingSentAfterClose
<1> QED BY LifecycleKept, <1>1, PTL

\* The heartbeat hangs up on no peer that answers within the latency, for every
\* interval, timeout and smaller latency (armIdle, onFrame).
THEOREM HealthyKept == Spec => []HealthyStaysOpen
<1>1. Clock => HealthyStaysOpen
  BY DEF Clock
<1> QED BY ClockKept, <1>1, PTL

\* A peer that is silent for an interval and a timeout is found out (armIdle).
THEOREM SilentFound == Spec => []SilentIsFoundOut
<1>1. TypeOK /\ Clock => SilentIsFoundOut
  BY DEF TypeOK, Clock, SilentIsFoundOut
<1> QED BY TypeCorrect, ClockKept, <1>1, PTL

\* A ping goes out only once an interval has passed without a frame (armIdle).
THEOREM NeverProbedBusy == Spec => BusyIsNotProbed
<1>1. TypeOK /\ Lifecycle /\ Clock /\ [Next]_vars =>
        [pongDeadline = Off /\ pongDeadline' # Off => quiet >= Interval]_vars
  <2> SUFFICES ASSUME TypeOK, Clock, Next, pongDeadline = Off, pongDeadline' # Off
               PROVE  quiet >= Interval
    OBVIOUS
  <2>1. FireIdle
    BY DEF Next, Peer, Hear, Server, Send, GoSilent, SocketCloses, OnClose, SocketError,
           Close, Accept, AcceptThrows, Share, Detach, HearPong, HearOther, HearRequest,
           OnFrame, Answer, FireDeadline, Tick, Less, timers
  <2> QED BY <2>1 DEF FireIdle, Clock, TypeOK
<1> QED BY TypeCorrect, LifecycleKept, ClockKept, <1>1, PTL DEF Spec, BusyIsNotProbed

=============================================================================
