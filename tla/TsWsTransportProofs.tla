------------------------ MODULE TsWsTransportProofs ------------------------
EXTENDS TsWsTransport, SequenceTheorems, TLAPS

USE TransportsAssumption, TimesAssumption, BoundsAssumption, MarksAssumption
USE DEF Off

-----------------------------------------------------------------------------
\* What the steps do to counts of strays and to the pongs on their way.

\* Strays are counted in natural numbers after every step.
LEMMA StraysType ==
    ASSUME NEW n \in Nat, NEW f \in [0..n -> Nat]
    PROVE  /\ Earlier(f) \in [0..n -> Nat]
           /\ f[0] > 0 => Fired(f) \in [0..n -> Nat]
           /\ \A l \in 0..n : Joined(f, l) \in [0..n -> Nat]
BY DEF Earlier, Fired, Joined

\* A pong that joins the others is one of the pongs.
LEMMA AppendType ==
    ASSUME NEW n \in Nat, NEW s \in Seq(0..n)
    PROVE  Append(s, n) \in Seq(0..n)
OBVIOUS

-----------------------------------------------------------------------------
\* The correlation of calls and replies.

\* Every entry, request and reply is of a call that was made, under the id it
\* drew from its own transport; no two calls of a transport share an id.
Correlated ==
    /\ \A t \in Transports : \A c \in pending[t] : made[c] = t /\ outcome[c] # "unmade"
    /\ \A c \in Calls : outcome[c] # "unmade" =>
           made[c] \in Transports /\ id[c] <= next[made[c]]
    /\ \A c, d \in Calls :
           (outcome[c] # "unmade" /\ outcome[d] # "unmade" /\ made[c] = made[d] /\ id[c] = id[d])
               => c = d
    /\ \A c \in requests : outcome[c] # "unmade"
    /\ \A r \in replies :
           outcome[r.body] # "unmade" /\ made[r.body] = r.service /\ id[r.body] = r.id
    /\ AnswersItsOwnCall

\* The types hold at the start.
LEMMA TypeInit == Init => TypeOK
BY DEF Init, TypeOK, Outcomes

\* Every step keeps the types.
LEMMA TypeStep ==
    ASSUME TypeOK, Correlated, [Next]_vars
    PROVE  TypeOK'
<1>1. ASSUME Open
      PROVE  TypeOK'
  <2> USE <1>1 DEF TypeOK
  <2>1. (sock \in {"connecting", "open", "closing", "closed"})'
    BY DEF Open
  <2> QED BY <2>1 DEF Open, socket, bound, timers, heartbeat, calls, frames
<1>2. ASSUME GoSilent
      PROVE  TypeOK'
  <2> USE <1>2 DEF TypeOK
  <2>1. (alive \in BOOLEAN)'
    BY DEF GoSilent
  <2>2. (pongs \in Seq(0..Latency))'
    BY DEF GoSilent
  <2>3. (requests \subseteq Calls)'
    BY DEF GoSilent
  <2> QED BY <2>1, <2>2, <2>3 DEF GoSilent, socket, bound, timers, heartbeat,
         calls, frames
<1>3. ASSUME SocketCloses
      PROVE  TypeOK'
  <2> USE <1>3 DEF TypeOK
  <2>1. (sock \in {"connecting", "open", "closing", "closed"})'
    BY DEF SocketCloses
  <2>2. (closedBy \in {"nobody", "heartbeat", "peer"})'
    BY DEF SocketCloses
  <2>3. (pongs \in Seq(0..Latency))'
    BY DEF SocketCloses
  <2>4. (requests \subseteq Calls)'
    BY DEF SocketCloses
  <2>5. (replies \subseteq Replies)'
    BY DEF SocketCloses
  <2> QED BY <2>1, <2>2, <2>3, <2>4, <2>5 DEF SocketCloses, socket, bound,
         timers, heartbeat, calls, frames
<1>4. ASSUME NEW c \in Calls, PeerAnswers(c)
      PROVE  TypeOK'
  <2> USE <1>4 DEF TypeOK
  <2>1. (requests \subseteq Calls)'
    BY DEF PeerAnswers
  <2>2. (replies \subseteq Replies)'
    <3>1. made[c] \in Transports
      BY DEF PeerAnswers, Correlated
    <3>2. PICK fits \in BOOLEAN : replies' = replies \cup
                {[service |-> made[c], id |-> id[c], body |-> c, fits |-> fits]}
      BY DEF PeerAnswers
    <3> QED BY <3>1, <3>2 DEF Replies
  <2> QED BY <2>1, <2>2 DEF PeerAnswers, socket, bound, timers, heartbeat,
         calls, frames
<1>5. ASSUME Tick
      PROVE  TypeOK'
  <2> USE <1>5 DEF TypeOK
  <2>1. (nextPing \in [Transports -> {Off} \cup 0..Interval])'
    <3>1. \A l \in {Off} \cup 0..Interval : Less(l) \in {Off} \cup 0..Interval
      BY DEF Less
    <3> QED BY <3>1 DEF Tick
  <2>2. (pongDeadline \in [Transports -> {Off} \cup 0..Timeout])'
    <3>1. \A l \in {Off} \cup 0..Timeout : Less(l) \in {Off} \cup 0..Timeout
      BY DEF Less
    <3> QED BY <3>1 DEF Tick
  <2>3. (strayPings \in [Transports -> [0..Interval -> Nat]])'
    <3>1. \A u \in Transports : Earlier(strayPings[u]) \in [0..Interval -> Nat]
      <4>1. \A u \in Transports : strayPings[u] \in [0..Interval -> Nat] /\ Interval \in Nat
        OBVIOUS
      <4> QED BY <4>1, StraysType
    <3> QED BY <3>1 DEF Tick
  <2>4. (strayDeadlines \in [Transports -> [0..Timeout -> Nat]])'
    <3>1. \A u \in Transports : Earlier(strayDeadlines[u]) \in [0..Timeout -> Nat]
      <4>1. \A u \in Transports : strayDeadlines[u] \in [0..Timeout -> Nat] /\ Timeout \in Nat
        OBVIOUS
      <4> QED BY <4>1, StraysType
    <3> QED BY <3>1 DEF Tick
  <2>5. (pongs \in Seq(0..Latency))'
    BY DEF Tick, Less
  <2>6. (quiet \in [Transports -> 0..(Interval + Timeout + 1)])'
    BY DEF Tick
  <2> QED BY <2>1, <2>2, <2>3, <2>4, <2>5, <2>6 DEF Tick, socket, bound,
         timers, heartbeat, calls, frames
<1>6. ASSUME NEW t \in Transports, FirePing(t)
      PROVE  TypeOK'
  <2> USE <1>6 DEF TypeOK
  <2>1. (nextPing \in [Transports -> {Off} \cup 0..Interval])'
    BY DEF FirePing
  <2>2. (strayPings \in [Transports -> [0..Interval -> Nat]])'
    <3>1. \/ UNCHANGED strayPings
          \/ strayPings[t][0] > 0 /\ strayPings' = [strayPings EXCEPT ![t] = Fired(strayPings[t])]
      <4> HIDE DEF TypeOK
      <4> QED BY <1>6 DEF FirePing
    <3>2. strayPings[t] \in [0..Interval -> Nat] /\ Interval \in Nat
      OBVIOUS
    <3>3. strayPings[t][0] > 0 => Fired(strayPings[t]) \in [0..Interval -> Nat]
      BY <3>2, StraysType
    <3>4. strayPings \in [Transports -> [0..Interval -> Nat]]
      OBVIOUS
    <3> HIDE <1>6 DEF TypeOK
    <3> QED BY <3>1, <3>3, <3>4
  <2>3. (pongs \in Seq(0..Latency))'
    <3>1. Append(pongs, Latency) \in Seq(0..Latency)
      BY AppendType
    <3> QED BY <3>1 DEF FirePing, Ping
  <2>4. (pongDeadline \in [Transports -> {Off} \cup 0..Timeout])'
    <3>1. [pongDeadline EXCEPT ![t] = Timeout] \in [Transports -> {Off} \cup 0..Timeout]
      OBVIOUS
    <3>2. \/ UNCHANGED pongDeadline
          \/ pongDeadline' = [pongDeadline EXCEPT ![t] = Timeout]
      BY DEF FirePing, Ping
    <3> QED BY <3>1, <3>2
  <2>5. (strayDeadlines \in [Transports -> [0..Timeout -> Nat]])'
    <3>1. \/ UNCHANGED strayDeadlines
          \/ /\ pongDeadline[t] # Off
             /\ strayDeadlines' = [strayDeadlines EXCEPT ![t] = Joined(strayDeadlines[t], pongDeadline[t])]
      BY DEF FirePing, Ping
    <3>2. strayDeadlines[t] \in [0..Timeout -> Nat] /\ Timeout \in Nat
      OBVIOUS
    <3>3. pongDeadline[t] # Off => pongDeadline[t] \in 0..Timeout
      OBVIOUS
    <3>4. pongDeadline[t] # Off => Joined(strayDeadlines[t], pongDeadline[t]) \in [0..Timeout -> Nat]
      BY <3>2, <3>3, StraysType
    <3>5. strayDeadlines \in [Transports -> [0..Timeout -> Nat]]
      OBVIOUS
    <3> HIDE <1>6 DEF TypeOK
    <3> QED BY <3>1, <3>4, <3>5
  <2> QED BY <2>1, <2>2, <2>3, <2>4, <2>5 DEF FirePing, socket, bound, timers,
         heartbeat, calls, frames
<1>7. ASSUME NEW t \in Transports, FireDeadline(t)
      PROVE  TypeOK'
  <2> USE <1>7 DEF TypeOK
  <2>1. (pongDeadline \in [Transports -> {Off} \cup 0..Timeout])'
    BY DEF FireDeadline
  <2>2. (strayDeadlines \in [Transports -> [0..Timeout -> Nat]])'
    <3>1. \/ UNCHANGED strayDeadlines
          \/ strayDeadlines[t][0] > 0 /\ strayDeadlines' = [strayDeadlines EXCEPT ![t] = Fired(strayDeadlines[t])]
      <4> HIDE DEF TypeOK
      <4> QED BY <1>7 DEF FireDeadline
    <3>2. strayDeadlines[t] \in [0..Timeout -> Nat] /\ Timeout \in Nat
      OBVIOUS
    <3>3. strayDeadlines[t][0] > 0 => Fired(strayDeadlines[t]) \in [0..Timeout -> Nat]
      BY <3>2, StraysType
    <3>4. strayDeadlines \in [Transports -> [0..Timeout -> Nat]]
      OBVIOUS
    <3> HIDE <1>7 DEF TypeOK
    <3> QED BY <3>1, <3>3, <3>4
  <2>3. (sock \in {"connecting", "open", "closing", "closed"})'
    BY DEF FireDeadline
  <2>4. (closedBy \in {"nobody", "heartbeat", "peer"})'
    BY DEF FireDeadline
  <2> QED BY <2>1, <2>2, <2>3, <2>4 DEF FireDeadline, socket, bound, timers,
         heartbeat, calls, frames
<1>8. ASSUME DeliverPong
      PROVE  TypeOK'
  <2> USE <1>8 DEF TypeOK
  <2>1. (pongDeadline \in [Transports -> {Off} \cup 0..Timeout])'
    BY DEF DeliverPong
  <2>2. (nextPing \in [Transports -> {Off} \cup 0..Interval])'
    BY DEF DeliverPong, SchedulePing
  <2>3. (strayPings \in [Transports -> [0..Interval -> Nat]])'
    <3>1. \A u \in Transports : strayPings[u] \in [0..Interval -> Nat] /\ Interval \in Nat
      OBVIOUS
    <3>2. \A u \in Transports : nextPing[u] # Off => nextPing[u] \in 0..Interval
      OBVIOUS
    <3>3. \A u \in Transports : nextPing[u] # Off =>
              Joined(strayPings[u], nextPing[u]) \in [0..Interval -> Nat]
      BY <3>1, <3>2, StraysType
    <3> QED BY <3>1, <3>3 DEF DeliverPong, SchedulePing
  <2>4. (quiet \in [Transports -> 0..(Interval + Timeout + 1)])'
    BY DEF DeliverPong
  <2>5. (pongs \in Seq(0..Latency))'
    BY DEF DeliverPong
  <2> QED BY <2>1, <2>2, <2>3, <2>4, <2>5 DEF DeliverPong, socket, bound,
         timers, heartbeat, calls, frames
<1>9. ASSUME NEW r \in replies, DeliverReply(r)
      PROVE  TypeOK'
  <2> USE <1>9 DEF TypeOK
  <2>1. (replies \subseteq Replies)'
    BY DEF DeliverReply
  <2>2. (outcome \in [Calls -> Outcomes])'
    BY DEF DeliverReply, Settled, Outcomes, Replies
  <2>3. (pending \in [Transports -> SUBSET Calls])'
    BY DEF DeliverReply
  <2> QED BY <2>1, <2>2, <2>3 DEF DeliverReply, socket, bound, timers,
         heartbeat, calls, frames
<1>10. ASSUME NEW t \in Transports, Bind(t)
      PROVE  TypeOK'
  <2> USE <1>10 DEF TypeOK
  <2>1. (early \subseteq Transports)'
    BY DEF Bind
  <2>2. (stage \in [Transports -> {"absent", "listening", "ended", "closed"}])'
    BY DEF Bind
  <2>3. (quiet \in [Transports -> 0..(Interval + Timeout + 1)])'
    BY DEF Bind
  <2>4. (nextPing \in [Transports -> {Off} \cup 0..Interval])'
    BY DEF Bind, SchedulePing
  <2>5. (strayPings \in [Transports -> [0..Interval -> Nat]])'
    <3>1. \A u \in Transports : strayPings[u] \in [0..Interval -> Nat] /\ Interval \in Nat
      OBVIOUS
    <3>2. \A u \in Transports : nextPing[u] # Off => nextPing[u] \in 0..Interval
      OBVIOUS
    <3>3. \A u \in Transports : nextPing[u] # Off =>
              Joined(strayPings[u], nextPing[u]) \in [0..Interval -> Nat]
      BY <3>1, <3>2, StraysType
    <3> QED BY <3>1, <3>3 DEF Bind, SchedulePing
  <2> QED BY <2>1, <2>2, <2>3, <2>4, <2>5 DEF Bind, socket, bound, timers,
         heartbeat, calls, frames
<1>11. ASSUME NEW t \in Transports, OnClose(t)
      PROVE  TypeOK'
  <2> USE <1>11 DEF TypeOK
  <2>1. (stage \in [Transports -> {"absent", "listening", "ended", "closed"}])'
    BY DEF OnClose
  <2>2. (nextPing \in [Transports -> {Off} \cup 0..Interval])'
    BY DEF OnClose, StopHeartbeat
  <2>3. (pongDeadline \in [Transports -> {Off} \cup 0..Timeout])'
    BY DEF OnClose, StopHeartbeat
  <2>4. (outcome \in [Calls -> Outcomes])'
    BY DEF OnClose, SettleAll, Settled, Outcomes
  <2>5. (pending \in [Transports -> SUBSET Calls])'
    BY DEF OnClose, SettleAll
  <2> QED BY <2>1, <2>2, <2>3, <2>4, <2>5 DEF OnClose, socket, bound, timers,
         heartbeat, calls, frames
<1>12. ASSUME NEW t \in Transports, Close(t)
      PROVE  TypeOK'
  <2> USE <1>12 DEF TypeOK
  <2>1. (stage \in [Transports -> {"absent", "listening", "ended", "closed"}])'
    BY DEF Close
  <2>2. (nextPing \in [Transports -> {Off} \cup 0..Interval])'
    BY DEF Close, StopHeartbeat
  <2>3. (pongDeadline \in [Transports -> {Off} \cup 0..Timeout])'
    BY DEF Close, StopHeartbeat
  <2>4. (outcome \in [Calls -> Outcomes])'
    BY DEF Close, SettleAll, Settled, Outcomes
  <2>5. (pending \in [Transports -> SUBSET Calls])'
    BY DEF Close, SettleAll
  <2> QED BY <2>1, <2>2, <2>3, <2>4, <2>5 DEF Close, socket, bound, timers,
         heartbeat, calls, frames
<1>13. ASSUME NEW t \in Transports, NEW c \in Calls, Request(t, c)
      PROVE  TypeOK'
  <2> USE <1>13 DEF TypeOK
  <2>1. (next \in [Transports -> Nat])'
    BY DEF Request
  <2>2. (id \in [Calls -> Nat])'
    BY DEF Request
  <2>3. (made \in [Calls -> Transports \cup {"nobody"}])'
    BY DEF Request
  <2>4. (pending \in [Transports -> SUBSET Calls])'
    BY DEF Request
  <2>5. (outcome \in [Calls -> Outcomes])'
    BY DEF Request, Outcomes
  <2>6. (requests \subseteq Calls)'
    BY DEF Request
  <2> QED BY <2>1, <2>2, <2>3, <2>4, <2>5, <2>6 DEF Request, socket, bound,
         timers, heartbeat, calls, frames
<1>14. ASSUME UNCHANGED vars
      PROVE  TypeOK'
  BY <1>14 DEF TypeOK, vars, socket, bound, timers, heartbeat, calls, frames, Listening
<1> QED BY <1>1, <1>2, <1>3, <1>4, <1>5, <1>6, <1>7, <1>8, <1>9, <1>10, <1>11,
       <1>12, <1>13, <1>14 DEF Next, Peer, Timers, Hear, Use

\* Calls are correlated at the start: none is made.
LEMMA CorrelatedInit == Init => Correlated
BY DEF Init, Correlated, AnswersItsOwnCall

\* What settling the calls of a set with failures does to the correlation.
LEMMA SettleAllCorrelated ==
    ASSUME TypeOK, Correlated, NEW t \in Transports, SettleAll(t),
           UNCHANGED <<next, made, id, requests, replies>>
    PROVE  Correlated'
<1>1. \A c \in Calls : /\ (outcome[c] = "unmade") = (outcome'[c] = "unmade")
                       /\ outcome'[c] # outcome[c] => outcome'[c] \notin Calls
  BY DEF SettleAll, Settled, Correlated, TypeOK
<1>2. \A u \in Transports : pending'[u] \subseteq pending[u]
  BY DEF SettleAll, TypeOK
<1>3. AnswersItsOwnCall'
  BY <1>1 DEF Correlated, AnswersItsOwnCall
<1>4. /\ \A r \in replies : r.body \in Calls
      /\ requests \subseteq Calls
      /\ \A u \in Transports : pending[u] \subseteq Calls
  BY DEF TypeOK, Replies
<1> QED BY <1>1, <1>2, <1>3, <1>4 DEF Correlated

\* Every step keeps the correlation.
LEMMA CorrelatedStep ==
    ASSUME TypeOK, Correlated, [Next]_vars
    PROVE  Correlated'
<1>1. ASSUME UNCHANGED calls, requests' \subseteq requests, replies' \subseteq replies
      PROVE  Correlated'
  BY <1>1 DEF Correlated, AnswersItsOwnCall, calls, TypeOK
<1>2. ASSUME Open \/ GoSilent \/ SocketCloses \/ Tick \/ DeliverPong
      PROVE  Correlated'
  BY <1>1, <1>2 DEF Open, GoSilent, SocketCloses, Tick, DeliverPong, frames
<1>3. ASSUME NEW t \in Transports, FirePing(t) \/ FireDeadline(t) \/ Bind(t)
      PROVE  Correlated'
  BY <1>1, <1>3 DEF FirePing, FireDeadline, Bind, frames
<1>4. ASSUME NEW c \in Calls, PeerAnswers(c)
      PROVE  Correlated'
  <2>1. PICK fits \in BOOLEAN : replies' = replies \cup
              {[service |-> made[c], id |-> id[c], body |-> c, fits |-> fits]}
    BY <1>4 DEF PeerAnswers
  <2>2. outcome[c] # "unmade"
    BY <1>4 DEF PeerAnswers, Correlated
  <2>3. requests' \subseteq requests /\ UNCHANGED calls
    BY <1>4 DEF PeerAnswers
  <2>4. \A r \in replies' :
          outcome[r.body] # "unmade" /\ made[r.body] = r.service /\ id[r.body] = r.id
    BY <2>1, <2>2 DEF Correlated
  <2> QED BY <2>3, <2>4 DEF Correlated, AnswersItsOwnCall, calls, TypeOK
<1>5. ASSUME NEW r \in replies, DeliverReply(r)
      PROVE  Correlated'
  <2>1. r.body \in Calls /\ r.service \in Transports
    BY DEF TypeOK, Replies
  <2>2. \A c \in SettledBy(r) : c = r.body
    BY <2>1 DEF SettledBy, Correlated, TypeOK
  <2>3. \A c \in Calls : /\ (outcome[c] = "unmade") = (outcome'[c] = "unmade")
                         /\ outcome'[c] # outcome[c] /\ outcome'[c] \in Calls => outcome'[c] = c
    BY <1>5, <2>1, <2>2 DEF DeliverReply, Settled, SettledBy, TypeOK, Outcomes
  <2>4. AnswersItsOwnCall'
    BY <2>3 DEF Correlated, AnswersItsOwnCall
  <2>5. \A t \in Transports : pending'[t] \subseteq pending[t]
    BY <1>5 DEF DeliverReply, TypeOK
  <2>6. replies' \subseteq replies /\ UNCHANGED <<next, made, id, requests>>
    BY <1>5 DEF DeliverReply
  <2>7. /\ \A s \in replies : s.body \in Calls
        /\ requests \subseteq Calls
        /\ \A t \in Transports : pending[t] \subseteq Calls
    BY DEF TypeOK, Replies
  <2> QED BY <2>3, <2>4, <2>5, <2>6, <2>7 DEF Correlated
<1>6. ASSUME NEW t \in Transports, OnClose(t) \/ Close(t)
      PROVE  Correlated'
  BY <1>6, SettleAllCorrelated DEF OnClose, Close, frames
<1>7. ASSUME NEW t \in Transports, NEW c \in Calls, Request(t, c)
      PROVE  Correlated'
  <2>1. /\ outcome[c] = "unmade"
        /\ outcome' = [outcome EXCEPT ![c] =
                          IF sock = "connecting" THEN "rejected" ELSE "waiting"]
        /\ next' = [next EXCEPT ![t] = @ + 1]
        /\ id' = [id EXCEPT ![c] = next[t] + 1]
        /\ made' = [made EXCEPT ![c] = t]
        /\ pending' = [pending EXCEPT ![t] = @ \cup {c}]
        /\ requests' \subseteq requests \cup {c}
        /\ replies' = replies
    BY <1>7 DEF Request
  <2>2. \A d \in Calls : d # c => /\ outcome'[d] = outcome[d]
                                  /\ made'[d] = made[d]
                                  /\ id'[d] = id[d]
    BY <2>1 DEF TypeOK
  <2>3. /\ outcome'[c] \in {"rejected", "waiting"}
        /\ made'[c] = t
        /\ id'[c] = next[t] + 1
    BY <2>1 DEF TypeOK
  <2>4. next'[t] = next[t] + 1 /\ \A u \in Transports : next'[u] >= next[u]
    <3>1. next \in [Transports -> Nat]
      BY DEF TypeOK
    <3> QED BY <2>1, <3>1
  <2>5. \A u \in Transports : \A d \in pending'[u] : made'[d] = u /\ outcome'[d] # "unmade"
    <3>1. \A u \in Transports : \A d \in pending[u] : d \in Calls /\ d # c
      BY <2>1 DEF Correlated, TypeOK
    <3>2. \A u \in Transports : \A d \in pending'[u] : d \in pending[u] \/ (d = c /\ u = t)
      BY <2>1 DEF TypeOK
    <3> QED BY <2>2, <2>3, <3>1, <3>2 DEF Correlated
  <2>6. \A d \in Calls : outcome'[d] # "unmade" =>
            made'[d] \in Transports /\ id'[d] <= next'[made'[d]]
    <3>1. \A d \in Calls : id[d] \in Nat
      BY DEF TypeOK
    <3>2. \A u \in Transports : next[u] \in Nat /\ next'[u] \in Nat
      BY <2>1 DEF TypeOK
    <3> QED BY <2>2, <2>3, <2>4, <3>1, <3>2 DEF Correlated
  <2>7. \A d, e \in Calls :
            (/\ outcome'[d] # "unmade"
             /\ outcome'[e] # "unmade"
             /\ made'[d] = made'[e]
             /\ id'[d] = id'[e]) => d = e
    <3>1. \A d \in Calls : d # c /\ outcome[d] # "unmade" /\ made[d] = t => id[d] <= next[t]
      BY DEF Correlated
    <3>2. next[t] \in Nat /\ \A d \in Calls : id[d] \in Nat
      BY DEF TypeOK
    <3> QED BY <2>2, <2>3, <3>1, <3>2 DEF Correlated
  <2>8. \A d \in requests' : outcome'[d] # "unmade"
    BY <2>1, <2>2, <2>3 DEF Correlated, TypeOK
  <2>9. \A r \in replies' :
            outcome'[r.body] # "unmade" /\ made'[r.body] = r.service /\ id'[r.body] = r.id
    <3>1. \A r \in replies : r.body \in Calls /\ r.body # c
      BY <2>1 DEF Correlated, TypeOK, Replies
    <3> QED BY <2>1, <2>2, <3>1 DEF Correlated
  <2>10. AnswersItsOwnCall'
    BY <2>2, <2>3 DEF Correlated, AnswersItsOwnCall
  <2> QED BY <2>5, <2>6, <2>7, <2>8, <2>9, <2>10 DEF Correlated
<1>8. ASSUME UNCHANGED vars
      PROVE  Correlated'
  BY <1>1, <1>8 DEF vars, frames
<1> QED BY <1>2, <1>3, <1>4, <1>5, <1>6, <1>7, <1>8 DEF Next, Peer, Timers, Hear, Use

\* The types and the correlation hold throughout.
LEMMA Invariance == Spec => [](TypeOK /\ Correlated)
<1>1. Init => TypeOK /\ Correlated
  BY TypeInit, CorrelatedInit
<1>2. TypeOK /\ Correlated /\ [Next]_vars => (TypeOK /\ Correlated)'
  BY TypeStep, CorrelatedStep
<1> QED BY <1>1, <1>2, PTL DEF Spec

\* Every variable keeps its type.
THEOREM TypeCorrect == Spec => []TypeOK
BY Invariance, PTL

\* A call is answered with the reply to its own request, whatever the services
\* on the socket and however many calls they make.
THEOREM OwnAnswer == Spec => []AnswersItsOwnCall
<1>1. Correlated => AnswersItsOwnCall
  BY DEF Correlated
<1> QED BY <1>1, Invariance, PTL

-----------------------------------------------------------------------------
\* A silent peer is found out, however many transports probe the socket.

\* What a probing transport that listens holds: a ping timer or a deadline, and
\* none of them later than the last pong allows.
Beating(t) ==
    /\ \A l \in 0..Interval : strayPings[t][l] > 0 => l + quiet[t] <= Interval
    /\ nextPing[t] # Off => nextPing[t] + quiet[t] <= Interval
    /\ pongDeadline[t] # Off => pongDeadline[t] + quiet[t] <= Interval + Timeout
    /\ nextPing[t] # Off \/ pongDeadline[t] # Off

Beats ==
    \A t \in Probing \ early :
        Listening(t) => sock # "connecting" /\ (sock = "open" => Beating(t))

\* Where strays are a tick later, and once one has fired, one was before.
LEMMA StraysLeft ==
    ASSUME NEW n \in Nat, NEW f \in [0..n -> Nat], NEW l \in 0..n
    PROVE  /\ Earlier(f)[l] > 0 => l + 1 \in 0..n /\ f[l + 1] > 0
           /\ Fired(f)[l] > 0 => f[l] > 0
BY DEF Earlier, Fired

\* The hearts beat at the start.
LEMMA BeatsInit == Init => Beats
BY DEF Init, Beats, Listening

\* A tick keeps the hearts beating.
LEMMA BeatsTick ==
    ASSUME TypeOK, NEW t \in Transports, Beating(t), Tick
    PROVE  Beating(t)'
<1>1. /\ nextPing[t] \in {Off} \cup 0..Interval
      /\ pongDeadline[t] \in {Off} \cup 0..Timeout
      /\ quiet[t] \in Nat
      /\ strayPings[t] \in [0..Interval -> Nat]
  BY DEF TypeOK
<1>2. /\ nextPing[t] # 0
      /\ pongDeadline[t] # 0
      /\ nextPing'[t] = Less(nextPing[t])
      /\ pongDeadline'[t] = Less(pongDeadline[t])
      /\ strayPings'[t] = Earlier(strayPings[t])
      /\ quiet'[t] \in {quiet[t], quiet[t] + 1}
  BY DEF Tick, Idle, TypeOK
<1>3. \A l \in 0..Interval : strayPings'[t][l] > 0 => l + quiet'[t] <= Interval
  <2>1. \A l \in 0..Interval : strayPings'[t][l] > 0 =>
            l + 1 \in 0..Interval /\ strayPings[t][l + 1] > 0
    BY <1>1, <1>2, StraysLeft
  <2>2. \A l \in 0..Interval : strayPings[t][l] > 0 => l + quiet[t] <= Interval
    BY DEF Beating
  <2>3. ASSUME NEW l \in 0..Interval, strayPings'[t][l] > 0
        PROVE  l + quiet'[t] <= Interval
    <3>1. (l + 1) + quiet[t] <= Interval
      BY <2>1, <2>2, <2>3
    <3>2. quiet[t] \in Nat /\ quiet'[t] \in {quiet[t], quiet[t] + 1}
      BY <1>1, <1>2
    <3> QED BY <3>1, <3>2
  <2> QED BY <2>3
<1>4. nextPing'[t] # Off => nextPing[t] # Off /\ nextPing'[t] = nextPing[t] - 1
  BY <1>1, <1>2 DEF Less
<1>5. pongDeadline'[t] # Off => pongDeadline[t] # Off /\ pongDeadline'[t] = pongDeadline[t] - 1
  BY <1>1, <1>2 DEF Less
<1>6. /\ nextPing[t] # Off => nextPing'[t] # Off
      /\ pongDeadline[t] # Off => pongDeadline'[t] # Off
  BY <1>1, <1>2 DEF Less
<1>7. nextPing'[t] # Off => nextPing'[t] + quiet'[t] <= Interval
  <2>1. nextPing[t] # Off => nextPing[t] + quiet[t] <= Interval
    BY DEF Beating
  <2> QED BY <1>1, <1>2, <1>4, <2>1
<1>8. pongDeadline'[t] # Off => pongDeadline'[t] + quiet'[t] <= Interval + Timeout
  <2>1. pongDeadline[t] # Off => pongDeadline[t] + quiet[t] <= Interval + Timeout
    BY DEF Beating
  <2> QED BY <1>1, <1>2, <1>5, <2>1
<1>9. nextPing'[t] # Off \/ pongDeadline'[t] # Off
  BY <1>6 DEF Beating
<1> QED BY <1>3, <1>7, <1>8, <1>9 DEF Beating

\* A ping keeps the hearts beating.
LEMMA BeatsPing ==
    ASSUME TypeOK, NEW t \in Transports, Beating(t), FirePing(t), sock = "open"
    PROVE  Beating(t)'
<1>1. /\ quiet[t] \in Nat
      /\ strayPings[t] \in [0..Interval -> Nat]
      /\ nextPing[t] \in {Off} \cup 0..Interval
  BY DEF TypeOK
<1>2. quiet'[t] = quiet[t] /\ pongDeadline'[t] = Timeout
  BY DEF FirePing, Ping, TypeOK
<1>3. \/ nextPing[t] = 0 /\ nextPing'[t] = Off /\ strayPings'[t] = strayPings[t]
      \/ /\ strayPings[t][0] > 0
         /\ strayPings'[t] = Fired(strayPings[t])
         /\ nextPing'[t] = nextPing[t]
  BY DEF FirePing, TypeOK
<1>4. quiet[t] <= Interval
  BY <1>1, <1>3 DEF Beating
<1>5. \A l \in 0..Interval : strayPings'[t][l] > 0 => strayPings[t][l] > 0
  BY <1>1, <1>3, StraysLeft
<1> QED BY <1>1, <1>2, <1>3, <1>4, <1>5 DEF Beating

\* Every step keeps the hearts beating.
LEMMA BeatsStep ==
    ASSUME TypeOK, Beats, [Next]_vars
    PROVE  Beats'
<1>1. ASSUME UNCHANGED <<sock, early, stage, nextPing, pongDeadline, strayPings, quiet>>
      PROVE  Beats'
  BY <1>1 DEF Beats, Beating, Listening
<1>2. ASSUME Open
      PROVE  Beats'
  BY <1>2 DEF Open, Beats, bound, Listening
<1>3. ASSUME GoSilent \/ (\E c \in Calls : PeerAnswers(c))
                      \/ (\E r \in replies : DeliverReply(r))
                      \/ (\E t \in Transports, c \in Calls : Request(t, c))
      PROVE  Beats'
  BY <1>1, <1>3 DEF GoSilent, PeerAnswers, DeliverReply, Request, socket, bound,
                     heartbeat, timers
<1>4. ASSUME SocketCloses
      PROVE  Beats'
  BY <1>4 DEF SocketCloses, Beats
<1>5. ASSUME Tick
      PROVE  Beats'
  <2>1. UNCHANGED <<sock, early, stage>>
    BY <1>5 DEF Tick, socket, bound
  <2> QED BY <1>5, <2>1, BeatsTick DEF Beats, Listening
<1>6. ASSUME NEW t \in Transports, FirePing(t)
      PROVE  Beats'
  <2>1. UNCHANGED <<sock, early, stage, quiet>>
    BY <1>6 DEF FirePing, socket, bound
  <2>2. ASSUME NEW u \in Transports, u # t
        PROVE  /\ nextPing'[u] = nextPing[u]
               /\ pongDeadline'[u] = pongDeadline[u]
               /\ strayPings'[u] = strayPings[u]
    BY <1>6, <2>2 DEF FirePing, Ping, TypeOK
  <2>3. \A u \in Transports : u # t /\ Beating(u) => Beating(u)'
    BY <2>1, <2>2 DEF Beating
  <2> QED BY <1>6, <2>1, <2>3, BeatsPing DEF Beats, Listening
<1>7. ASSUME NEW t \in Transports, FireDeadline(t)
      PROVE  Beats'
  <2>1. sock' = sock \/ sock' = "closing"
    BY <1>7 DEF FireDeadline
  <2>2. sock' # "open" /\ UNCHANGED <<early, stage>>
    BY <1>7 DEF FireDeadline, bound
  <2> QED BY <2>1, <2>2 DEF Beats, Listening
<1>8. ASSUME DeliverPong
      PROVE  Beats'
  <2>1. UNCHANGED <<sock, early, stage>>
    BY <1>8 DEF DeliverPong, socket, bound
  <2>2. ASSUME NEW t \in Probing, Listening(t)
        PROVE  Beating(t)'
    <3>1. quiet'[t] = 0 /\ pongDeadline'[t] = Off /\ nextPing'[t] = Interval
      BY <1>8, <2>2 DEF DeliverPong, SchedulePing
    <3> QED BY <3>1 DEF Beating
  <2> QED BY <2>1, <2>2 DEF Beats, Listening
<1>9. ASSUME NEW t \in Transports, Bind(t)
      PROVE  Beats'
  <2>1. /\ UNCHANGED <<sock, pongDeadline>>
        /\ stage' = [stage EXCEPT ![t] = "listening"]
        /\ quiet' = [quiet EXCEPT ![t] = 0]
        /\ early' = IF sock = "connecting" THEN early \cup {t} ELSE early
    BY <1>9 DEF Bind, socket
  <2>2. ASSUME NEW u \in Probing, u # t
        PROVE  (Listening(u)' => Listening(u)) /\ (Beating(u) => Beating(u)')
    <3>1. /\ nextPing'[u] = nextPing[u]
          /\ strayPings'[u] = strayPings[u]
      BY <1>9, <2>2 DEF Bind, SchedulePing
    <3> QED BY <2>1, <2>2, <3>1 DEF Beating, Listening, TypeOK
  <2>3. ASSUME t \in Probing
        PROVE  Beating(t)'
    <3>1. nextPing'[t] = Interval /\ quiet'[t] = 0 /\ pongDeadline'[t] = pongDeadline[t]
      BY <1>9, <2>1, <2>3 DEF Bind, SchedulePing, TypeOK
    <3>2. pongDeadline[t] \in {Off} \cup 0..Timeout
      BY DEF TypeOK
    <3> QED BY <3>1, <3>2 DEF Beating
  <2> QED BY <2>1, <2>2, <2>3 DEF Beats
<1>10. ASSUME NEW t \in Transports, OnClose(t)
       PROVE  Beats'
  <2>1. sock' = "closed" /\ UNCHANGED early
    BY <1>10 DEF OnClose, socket
  <2> QED BY <2>1 DEF Beats
<1>11. ASSUME NEW t \in Transports, Close(t)
       PROVE  Beats'
  <2>1. /\ UNCHANGED <<sock, early, quiet, strayPings>>
        /\ stage' = [stage EXCEPT ![t] = "closed"]
        /\ nextPing' = [nextPing EXCEPT ![t] = Off]
        /\ pongDeadline' = [pongDeadline EXCEPT ![t] = Off]
    BY <1>11 DEF Close, StopHeartbeat, socket
  <2>2. ~Listening(t)'
    BY <2>1 DEF Listening, TypeOK
  <2>3. ASSUME NEW u \in Transports, u # t
        PROVE  (Listening(u)' => Listening(u)) /\ (Beating(u) => Beating(u)')
    BY <2>1, <2>3 DEF Beating, Listening, TypeOK
  <2> QED BY <2>1, <2>2, <2>3 DEF Beats
<1>12. ASSUME UNCHANGED vars
       PROVE  Beats'
  BY <1>1, <1>12 DEF vars, socket, bound, heartbeat, timers
<1> QED BY <1>2, <1>3, <1>4, <1>5, <1>6, <1>7, <1>8, <1>9, <1>10, <1>11, <1>12
        DEF Next, Peer, Timers, Hear, Use

\* A probing transport that was bound to an open socket is never left without a
\* pong for longer than an interval and a timeout: any number of transports may
\* probe the socket.
THEOREM FoundOut == Spec => []DeadPeerIsClosed
<1>1. Beats /\ TypeOK => DeadPeerIsClosed
  <2> SUFFICES ASSUME Beats, TypeOK, sock = "open", NEW t \in Probing \ early, Listening(t)
               PROVE  quiet[t] <= Interval + Timeout
    BY DEF DeadPeerIsClosed, HeardInTime
  <2>1. Beating(t)
    BY DEF Beats
  <2>2. /\ nextPing[t] \in {Off} \cup 0..Interval
        /\ pongDeadline[t] \in {Off} \cup 0..Timeout
        /\ quiet[t] \in Nat
    BY DEF TypeOK
  <2> QED BY <2>1, <2>2 DEF Beating
<1>2. Beats /\ TypeOK /\ [Next]_vars => Beats'
  BY BeatsStep
<1> QED BY <1>1, <1>2, BeatsInit, Invariance, PTL DEF Spec

-----------------------------------------------------------------------------
\* A heartbeat that is alone on its socket closes it only for a silent peer.

OneProbes == \A t, u \in Probing : t = u

\* No timer is a stray; the one probing transport holds a ping timer or waits
\* for the one pong on its way, which comes before its deadline.
Alone ==
    /\ \A t \in Transports : \A l \in 0..Interval : strayPings[t][l] = 0
    /\ \A t \in Transports : \A l \in 0..Timeout : strayDeadlines[t][l] = 0
    /\ \A t \in Transports : nextPing[t] # Off =>
           t \in Probing /\ Listening(t) /\ pongDeadline[t] = Off /\ Len(pongs) = 0
    /\ \A t \in Transports : pongDeadline[t] # Off =>
           /\ t \in Probing
           /\ Listening(t)
           /\ sock # "connecting"
           /\ sock = "open" /\ alive => Len(pongs) = 1 /\ pongs[1] < pongDeadline[t]
    /\ \A t \in Probing : stage[t] = "absent" => Len(pongs) = 0
    /\ Len(pongs) \in {0, 1}
    /\ HealthyStaysOpen

\* Where one transport probes, a pong on its way is the only one.
LEMMA OnePong ==
    ASSUME NEW S, NEW s \in Seq(S), Len(s) \in {0, 1}
    PROVE  /\ s # <<>> => Len(s) = 1 /\ Len(Tail(s)) = 0
           /\ Len(s) = 1 => s[1] \in S
<1>1. Len(s) \in Nat /\ s \in [1..Len(s) -> S]
  OBVIOUS
<1>2. s # <<>> => Len(s) = 1
  BY <1>1, EmptySeq
<1>3. s # <<>> => Len(Tail(s)) = Len(s) - 1
  BY HeadTailProperties
<1> QED BY <1>1, <1>2, <1>3

\* Nothing is on its way at the start.
LEMMA AloneInit == Init => Alone
BY DEF Init, Alone, HealthyStaysOpen

\* A tick keeps the heartbeat alone.
LEMMA AloneTick ==
    ASSUME TypeOK, Alone, Tick
    PROVE  Alone'
<1>1. /\ UNCHANGED <<sock, alive, closedBy, stage>>
      /\ sock = "open" => \A n \in 1..Len(pongs) : pongs[n] > 0
      /\ pongs' = [n \in 1..Len(pongs) |-> Less(pongs[n])]
  BY DEF Tick, Idle, socket, bound
<1>2. pongs \in Seq(0..Latency)
  BY DEF TypeOK
<1>3. Len(pongs') = Len(pongs)
  BY <1>1, <1>2
<1>4. sock = "open" /\ Len(pongs) = 1 => pongs'[1] = pongs[1] - 1 /\ pongs[1] \in Nat
  BY <1>1, <1>2 DEF Less
<1>5. ASSUME NEW t \in Transports
      PROVE  /\ nextPing'[t] # Off => nextPing[t] # Off
             /\ pongDeadline'[t] # Off =>
                    pongDeadline[t] \in Nat /\ pongDeadline'[t] = pongDeadline[t] - 1
             /\ pongDeadline[t] = Off => pongDeadline'[t] = Off
  BY <1>5 DEF Tick, Idle, TypeOK, Less
<1>6. ASSUME NEW t \in Transports
      PROVE  /\ \A l \in 0..Interval : strayPings'[t][l] = 0
             /\ \A l \in 0..Timeout : strayDeadlines'[t][l] = 0
  <2>1. /\ strayPings[t] \in [0..Interval -> Nat]
        /\ strayDeadlines[t] \in [0..Timeout -> Nat]
    BY DEF TypeOK
  <2>2. /\ strayPings'[t] = Earlier(strayPings[t])
        /\ strayDeadlines'[t] = Earlier(strayDeadlines[t])
    BY DEF Tick
  <2>3. \A l \in 0..Interval : strayPings[t][l] = 0
    BY DEF Alone
  <2>4. \A l \in 0..Timeout : strayDeadlines[t][l] = 0
    BY DEF Alone
  <2> QED BY <2>1, <2>2, <2>3, <2>4 DEF Earlier
<1>7. \A t \in Transports : pongDeadline'[t] # Off =>
          /\ t \in Probing
          /\ Listening(t)
          /\ sock # "connecting"
          /\ sock = "open" /\ alive => Len(pongs') = 1 /\ pongs'[1] < pongDeadline'[t]
  BY <1>3, <1>4, <1>5 DEF Alone
<1> QED BY <1>1, <1>3, <1>5, <1>6, <1>7 DEF Alone, HealthyStaysOpen, Listening

\* A ping keeps the heartbeat alone.
LEMMA AlonePing ==
    ASSUME TypeOK, Alone, OneProbes, NEW t \in Transports, FirePing(t)
    PROVE  Alone'
<1>1. strayPings[t][0] = 0
  BY DEF Alone
<1>2. /\ nextPing[t] = 0
      /\ nextPing' = [nextPing EXCEPT ![t] = Off]
      /\ UNCHANGED <<strayPings, sock, alive, closedBy, stage>>
  BY <1>1 DEF FirePing, socket, bound
<1>3. t \in Probing /\ Listening(t) /\ pongDeadline[t] = Off /\ Len(pongs) = 0
  BY <1>2 DEF Alone
<1>4. strayDeadlines' = strayDeadlines
  BY <1>3 DEF FirePing, Ping
<1>5. \/ sock = "connecting" /\ UNCHANGED <<pongs, pongDeadline>>
      \/ /\ sock # "connecting"
         /\ pongDeadline' = [pongDeadline EXCEPT ![t] = Timeout]
         /\ pongs' = IF sock = "open" /\ alive THEN Append(pongs, Latency) ELSE pongs
  BY DEF FirePing, Ping
<1>6. pongs \in Seq(0..Latency)
  BY DEF TypeOK
<1>7. Len(Append(pongs, Latency)) = 1 /\ Append(pongs, Latency)[1] = Latency
  BY <1>3, <1>6
<1>8. /\ nextPing'[t] = Off
      /\ \A u \in Transports : u # t =>
             nextPing'[u] = nextPing[u] /\ pongDeadline'[u] = pongDeadline[u]
  BY <1>2, <1>5 DEF TypeOK
<1>9. \A u \in Transports : u # t => nextPing[u] = Off /\ pongDeadline[u] = Off
  BY <1>3 DEF Alone, OneProbes
<1>10. pongDeadline'[t] # Off =>
           /\ sock # "connecting"
           /\ sock = "open" /\ alive => Len(pongs') = 1 /\ pongs'[1] < pongDeadline'[t]
  BY <1>3, <1>5, <1>7 DEF TypeOK
<1>11. Len(pongs') \in {0, 1}
  BY <1>3, <1>5, <1>7
<1>12. \A u \in Probing : stage[u] # "absent"
  BY <1>3 DEF OneProbes, Listening
<1> QED BY <1>2, <1>3, <1>4, <1>8, <1>9, <1>10, <1>11, <1>12
        DEF Alone, HealthyStaysOpen, Listening

\* A pong that is heard keeps the heartbeat alone.
LEMMA AloneHear ==
    ASSUME TypeOK, Alone, OneProbes, DeliverPong
    PROVE  Alone'
<1>1. /\ UNCHANGED <<sock, alive, closedBy, stage, strayDeadlines>>
      /\ pongs # <<>>
      /\ pongs' = Tail(pongs)
  BY DEF DeliverPong, socket, bound
<1>2. pongs \in Seq(0..Latency) /\ Len(pongs) \in {0, 1}
  BY DEF TypeOK, Alone
<1>3. Len(pongs) = 1 /\ Len(pongs') = 0
  BY <1>1, <1>2, OnePong
<1>4. \A t \in Transports : nextPing[t] = Off
  BY <1>3 DEF Alone
<1>5. strayPings' = [t \in Transports |-> strayPings[t]]
  BY <1>4 DEF DeliverPong, SchedulePing
<1>6. \A t \in Transports : nextPing'[t] # Off => t \in Probing /\ Listening(t)
  BY <1>4 DEF DeliverPong, SchedulePing
<1>7. \A t \in Transports : pongDeadline'[t] = Off
  BY DEF DeliverPong, Alone
<1>8. \A t \in Transports : strayPings'[t] = strayPings[t]
  BY <1>5
<1>9. (\A t \in Transports : \A l \in 0..Interval : strayPings[t][l] = 0)'
  BY <1>8 DEF Alone
<1>10. (\A t \in Transports : \A l \in 0..Timeout : strayDeadlines[t][l] = 0)'
  BY <1>1 DEF Alone
<1>11. HealthyStaysOpen'
  BY <1>1 DEF Alone, HealthyStaysOpen
<1> QED BY <1>1, <1>3, <1>6, <1>7, <1>9, <1>10, <1>11 DEF Alone, Listening

\* Every step leaves the heartbeat alone.
LEMMA AloneStep ==
    ASSUME TypeOK, Alone, OneProbes, [Next]_vars
    PROVE  Alone'
<1>1. ASSUME UNCHANGED <<socket, stage, timers, pongs>>
      PROVE  Alone'
  BY <1>1 DEF Alone, HealthyStaysOpen, Listening, socket, timers
<1>2. ASSUME (\E c \in Calls : PeerAnswers(c)) \/ (\E r \in replies : DeliverReply(r))
             \/ (\E t \in Transports, c \in Calls : Request(t, c))
      PROVE  Alone'
  BY <1>1, <1>2 DEF PeerAnswers, DeliverReply, Request, bound, heartbeat
<1>3. ASSUME Open
      PROVE  Alone'
  <2>1. sock = "connecting" /\ sock' = "open" /\ UNCHANGED <<alive, closedBy, stage, timers, pongs>>
    BY <1>3 DEF Open, bound, heartbeat
  <2> QED BY <2>1 DEF Alone, HealthyStaysOpen, Listening, timers
<1>4. ASSUME GoSilent
      PROVE  Alone'
  <2>1. PICK n \in 0..Len(pongs) : pongs' = SubSeq(pongs, 1, n)
    BY <1>4 DEF GoSilent
  <2>2. pongs \in Seq(0..Latency)
    BY DEF TypeOK
  <2>3. Len(pongs') = n /\ Len(pongs) \in Nat
    BY <2>1, <2>2
  <2>4. alive' = FALSE /\ UNCHANGED <<sock, closedBy, stage, timers>>
    BY <1>4 DEF GoSilent, bound
  <2> QED BY <2>1, <2>3, <2>4 DEF Alone, HealthyStaysOpen, Listening, timers
<1>5. ASSUME SocketCloses
      PROVE  Alone'
  <2>1. /\ sock' = "closed"
        /\ closedBy' \in {"peer", closedBy}
        /\ pongs' = <<>>
        /\ UNCHANGED <<alive, stage, timers>>
    BY <1>5 DEF SocketCloses, bound
  <2> QED BY <2>1 DEF Alone, HealthyStaysOpen, Listening, timers
<1>6. ASSUME NEW t \in Transports, FireDeadline(t)
      PROVE  Alone'
  <2>1. strayDeadlines[t][0] = 0
    BY DEF Alone
  <2>2. /\ pongDeadline[t] = 0
        /\ pongDeadline' = [pongDeadline EXCEPT ![t] = Off]
        /\ UNCHANGED <<strayDeadlines, alive, stage, nextPing, strayPings, pongs>>
    BY <1>6, <2>1 DEF FireDeadline, bound
  <2>3. \/ UNCHANGED <<sock, closedBy>>
        \/ sock = "open" /\ sock' = "closing" /\ closedBy' = "heartbeat"
    BY <1>6, <2>2 DEF FireDeadline, Alone
  <2>4. sock = "open" => ~alive
    <3>1. Len(pongs) = 1 => pongs[1] \in 0..Latency
      <4>1. pongs \in Seq(0..Latency) /\ Len(pongs) \in {0, 1}
        BY DEF TypeOK, Alone
      <4> QED BY <4>1, OnePong
    <3> QED BY <2>2, <3>1 DEF Alone
  <2>5. /\ pongDeadline'[t] = Off
        /\ \A u \in Transports : u # t => pongDeadline'[u] = pongDeadline[u]
    BY <2>2 DEF TypeOK
  <2> QED BY <2>2, <2>3, <2>4, <2>5 DEF Alone, HealthyStaysOpen, Listening
<1>7. ASSUME NEW t \in Transports, Bind(t)
      PROVE  Alone'
  <2>1. /\ UNCHANGED <<sock, alive, closedBy, pongDeadline, strayDeadlines, pongs>>
        /\ stage[t] = "absent"
        /\ stage' = [stage EXCEPT ![t] = "listening"]
    BY <1>7 DEF Bind, socket
  <2>2. nextPing[t] = Off /\ pongDeadline[t] = Off
    BY <2>1 DEF Alone, Listening
  <2>3. strayPings' = [u \in Transports |-> strayPings[u]]
    BY <1>7, <2>2 DEF Bind, SchedulePing
  <2>4. /\ nextPing'[t] # Off => t \in Probing
        /\ \A u \in Transports : u # t => nextPing'[u] = nextPing[u]
    BY <1>7, <2>2 DEF Bind, SchedulePing
  <2>5. t \in Probing => Len(pongs) = 0
    BY <2>1 DEF Alone
  <2>6. /\ stage'[t] = "listening"
        /\ \A u \in Transports : u # t => stage'[u] = stage[u]
    BY <2>1 DEF TypeOK
  <2> QED BY <2>1, <2>2, <2>3, <2>4, <2>5, <2>6 DEF Alone, HealthyStaysOpen, Listening
<1>8. ASSUME NEW t \in Transports, OnClose(t) \/ Close(t)
      PROVE  Alone'
  <2>1. /\ nextPing' = [nextPing EXCEPT ![t] = Off]
        /\ pongDeadline' = [pongDeadline EXCEPT ![t] = Off]
        /\ UNCHANGED <<sock, alive, closedBy, strayPings, strayDeadlines, pongs>>
        /\ \E s \in {"ended", "closed"} : stage' = [stage EXCEPT ![t] = s]
    BY <1>8 DEF OnClose, Close, StopHeartbeat, socket
  <2>2. /\ nextPing'[t] = Off /\ pongDeadline'[t] = Off /\ stage'[t] # "absent"
        /\ \A u \in Transports : u # t =>
               /\ nextPing'[u] = nextPing[u]
               /\ pongDeadline'[u] = pongDeadline[u]
               /\ stage'[u] = stage[u]
    BY <2>1 DEF TypeOK
  <2> QED BY <2>1, <2>2 DEF Alone, HealthyStaysOpen, Listening
<1>9. ASSUME UNCHANGED vars
      PROVE  Alone'
  BY <1>1, <1>9 DEF vars, bound, heartbeat
<1> QED BY <1>2, <1>3, <1>4, <1>5, <1>6, <1>7, <1>8, <1>9, AloneTick, AlonePing, AloneHear
        DEF Next, Peer, Timers, Hear, Use

\* Where at most one transport probes the socket, a heartbeat closes it only
\* when the peer has fallen silent, whatever the interval and the timeout.
THEOREM OneHeartKeepsOpen ==
    ASSUME OneProbes
    PROVE  Spec => []HealthyStaysOpen
<1>1. Alone => HealthyStaysOpen
  BY DEF Alone
<1>2. TypeOK /\ Alone /\ [Next]_vars => Alone'
  BY AloneStep
<1> QED BY <1>1, <1>2, AloneInit, Invariance, PTL DEF Spec

=============================================================================
