--------------------------- MODULE MobileWsProofs ---------------------------
(***************************************************************************)
(* Proofs about the three app transports, for every set of calls, every    *)
(* number of watchers and every interval, timeout and smaller latency.     *)
(*                                                                         *)
(* Two invariants carry them.  Correlated follows a reply from the peer to *)
(* the method that waits for it: every request, reply and entry is of a    *)
(* call that was made, under an id no other of them has.  The other one is *)
(* of the heartbeat, and each platform's own: a deadline that runs against *)
(* a peer that lives has a pong ahead of it, and while the transport is    *)
(* open some timer runs that will find the peer out in time.               *)
(***************************************************************************)
EXTENDS MCMobileWs, SequenceTheorems, TLAPS

USE TimesAssumption, MarksAssumption, WatchersAssumption
USE DEF Off

-----------------------------------------------------------------------------
\* The calls.

\* The calls whose frame is between two steps: in Kotlin one that is registered
\* and not sent, in Swift one whose reply the stream holds.
Underway ==
    CASE platform = "kotlin" -> {c \in Calls : caller[c] = "registered"}
      [] platform = "swift" -> {c \in Calls : \E n \in DOMAIN stream : stream[n].kind = "reply" /\ stream[n].body = c}
      [] OTHER -> {}

\* The calls a frame or the map can name.
Named == pending \cup requests \cup {r.body : r \in replies} \cup Underway

\* What a completer and a method may hold.
Promises == Calls \cup {"open", "failed"}
Outcomes == Calls \cup {"unmade", "waiting", "failed"}

\* Every entry, request and reply is of a call that was made, under an id no
\* other of them has; a method is only ever handed a failure or its own reply.
Correlated ==
    /\ pending \subseteq Calls /\ requests \subseteq Calls /\ served \subseteq Calls
    /\ next \in Int
    /\ id \in [Calls -> Int]
    /\ promise \in [Calls -> Promises]
    /\ outcome \in [Calls -> Outcomes]
    /\ \A r \in replies : r.body \in served /\ r.id = id[r.body]
    /\ \A c \in Named : id[c] < next /\ outcome[c] # "unmade"
    /\ \A c, d \in Named : id[c] = id[d] => c = d
    /\ \A c \in Calls : promise[c] \in Calls => promise[c] = c /\ c \in served
    /\ \A c \in Calls : outcome[c] \in Calls => outcome[c] = c /\ c \in served

\* What else each platform holds of a call.
KotlinCalls ==
    platform = "kotlin" =>
        /\ caller \in [Calls -> {"idle", "registered", "sent"}]
        /\ \A c \in Calls : caller[c] = "idle" => outcome[c] = "unmade"
        /\ reader.frame = "reply" => reader.call \in served /\ reader.body = reader.call

Frames == [kind : {"pong"}] \cup [kind : {"reply"}, id : Int, body : Calls]

SwiftCalls ==
    platform = "swift" =>
        /\ stream \in Seq(Frames)
        /\ \A n \in DOMAIN stream : stream[n].kind = "reply" =>
               stream[n].body \in served /\ stream[n].id = id[stream[n].body]
        /\ entering \subseteq Calls
        /\ \A c \in entering : outcome[c] # "unmade" /\ c \notin Named

CallsInv == Correlated /\ KotlinCalls /\ SwiftCalls

-----------------------------------------------------------------------------
\* The heartbeat.

\* A peer that lives on a socket and a transport that are open.
Living == alive /\ sock = "open" /\ ~closed

\* The last pong on its way arrives before a timer with n left.
PongAhead(n) == pongs # <<>> /\ pongs[Len(pongs)] < n

BeatTypes ==
    /\ platform \in {"dart", "kotlin", "swift"}
    /\ pongs \in Seq(Nat)
    /\ quiet \in Nat
    /\ sock \in {"open", "closing", "closed"}
    /\ alive \in BOOLEAN /\ closed \in BOOLEAN
    /\ endedBy = "heartbeat" => ~alive

InTime == Timeout < Interval /\ ~closed => quiet <= Interval + Timeout

DartBeat ==
    /\ sock # "closing"
    /\ pingTimer \in Nat \cup {Off} /\ pongTimer \in Nat \cup {Off}
    /\ ~closed => pingTimer \in 0..Interval
    /\ Living /\ pongTimer # Off => PongAhead(pongTimer)
    /\ ~closed /\ sock = "open" =>
        /\ pongTimer = Off => pingTimer + quiet <= Interval
        /\ pongTimer # Off /\ Timeout < Interval =>
               pongTimer < pingTimer /\ pongTimer + quiet <= Interval + Timeout

SwiftBeat ==
    /\ sock = "closing" => closed
    /\ started \in BOOLEAN /\ finished \in BOOLEAN
    /\ finished => closed \/ sock # "open"
    /\ pingTask \in Nat \cup {Off} /\ deadlineTask \in Nat \cup {Off}
    /\ pingsAwake \in Nat /\ deadlinesAwake \in Nat
    /\ Living => deadlinesAwake = 0
    /\ Living /\ deadlineTask # Off =>
        /\ deadlineTask > 0
        /\ PongAhead(deadlineTask) \/ \E n \in DOMAIN stream : stream[n].kind = "pong"
    /\ ~closed =>
        /\ ~started => quiet = 0
        /\ started => pingTask # Off \/ pingsAwake > 0 \/ deadlineTask # Off \/ deadlinesAwake > 0
        /\ pingTask # Off => pingTask + quiet <= Interval
        /\ pingsAwake > 0 => quiet <= Interval
        /\ deadlineTask # Off => deadlineTask + quiet <= Interval + Timeout
        /\ quiet <= Interval + Timeout

Stages == {"idle", "test", "shut", "settle", "done"}

KotlinTypes ==
    /\ watcher \in [Watchers -> Nat \cup {Off}]
    /\ pongJob \in Watchers \cup {Nobody}
    /\ \/ \E n \in Nat : loop = [at |-> "delay", left |-> n]
       \/ \E w \in Watchers \cup {Nobody} : loop = [at |-> "armed", previous |-> w]
       \/ loop = [at |-> "ended"]
    /\ closing \in [Kotlin!Closers -> Stages]
    /\ \/ reader = [frame |-> "none"]
       \/ reader.frame = "reply"
       \/ \E w \in Watchers : reader = [frame |-> "pong", watcher |-> w]

\* Nobody is past the test of the flag while it is down, and the loop runs.
KotlinOpen ==
    /\ sock = "closing" => closed
    /\ ~closed => scope = TRUE /\ \A a \in Kotlin!Closers : closing[a] \in {"idle", "test"}
    /\ ~closed /\ sock = "open" => loop.at # "ended"

\* A watcher that runs is the one the field names, or about to be cancelled.
KotlinWatched ==
    /\ \A w \in Watchers : watcher[w] # Off =>
        \/ w = pongJob
        \/ loop.at = "armed" /\ loop.previous = w
        \/ reader.frame = "pong" /\ reader.watcher = w
    /\ loop.at = "armed" /\ loop.previous # Nobody => loop.previous # pongJob
    /\ reader.frame = "pong" => reader.watcher # pongJob

\* A living peer's pong is ahead of the watcher the field names.
KotlinAhead ==
    Living =>
        /\ \A w \in Watchers : closing[w] = "idle" /\ watcher[w] # 0
        /\ pongJob # Nobody /\ watcher[pongJob] # Off =>
            \/ loop.at = "armed" /\ watcher[pongJob] = Timeout
            \/ loop.at = "delay" /\ PongAhead(watcher[pongJob])

\* A silent one is found out in time.
KotlinFindsOut ==
    Timeout < Interval /\ ~closed /\ sock = "open" =>
        /\ loop.at = "delay" => loop.left <= Interval
        /\ pongJob = Nobody /\ loop.at = "delay" => loop.left + quiet <= Interval
        /\ pongJob = Nobody /\ loop.at = "armed" => quiet = 0
        /\ pongJob # Nobody /\ loop.at = "armed" => watcher[pongJob] = Timeout /\ quiet <= Interval
        /\ pongJob # Nobody /\ loop.at = "delay" =>
            \/ watcher[pongJob] # Off /\ watcher[pongJob] < loop.left /\ watcher[pongJob] + quiet <= Interval + Timeout
            \/ watcher[pongJob] = Off /\ closing[pongJob] = "test" /\ loop.left > 0

KotlinBeat == KotlinTypes /\ KotlinOpen /\ KotlinWatched /\ KotlinAhead /\ KotlinFindsOut

BeatInv ==
    /\ BeatTypes /\ InTime
    /\ platform = "dart" => DartBeat
    /\ platform = "kotlin" => KotlinBeat
    /\ platform = "swift" => SwiftBeat

-----------------------------------------------------------------------------
\* What a step may do to the calls.

\* The frames and entries of a step without a registration are those of before,
\* under the ids they had, and what a completer or a method gains is a failure
\* or the call's own reply.
LEMMA CorrelatedKept ==
    ASSUME Correlated,
           UNCHANGED id, next' \in Int, next <= next',
           Named' \subseteq Named,
           served \subseteq served', served' \subseteq Calls,
           \A r \in replies' : r \in replies \/ \E c \in served' : r = [id |-> id[c], body |-> c],
           promise' \in [Calls -> Promises],
           \A c \in Calls : promise'[c] \in {promise[c], "failed"} \/ (promise'[c] = c /\ c \in served'),
           outcome' \in [Calls -> Outcomes],
           \A c \in Calls : outcome'[c] \in {outcome[c], "waiting"} \/ (outcome'[c] = promise[c] /\ promise[c] # "open")
    PROVE  Correlated'
<1>1. Named \subseteq Calls
  BY DEF Correlated, Named, Underway
<1>2. pending' \subseteq Calls /\ requests' \subseteq Calls
  BY <1>1 DEF Named
<1>3. \A r \in replies' : r.body \in served' /\ r.id = id'[r.body]
  BY DEF Correlated
<1>4. \A c \in Named' : id'[c] < next' /\ outcome'[c] # "unmade"
  BY <1>1 DEF Correlated, Promises, Outcomes
<1>5. \A c, d \in Named' : id'[c] = id'[d] => c = d
  BY DEF Correlated
<1>6. \A c \in Calls : promise'[c] \in Calls => promise'[c] = c /\ c \in served'
  BY DEF Correlated
<1>7. \A c \in Calls : outcome'[c] \in Calls => outcome'[c] = c /\ c \in served'
  BY DEF Correlated
<1> QED BY <1>2, <1>3, <1>4, <1>5, <1>6, <1>7 DEF Correlated

\* A call that registers takes an id above all that are named.
LEMMA CorrelatedJoined ==
    ASSUME Correlated, NEW c \in Calls, c \notin Named,
           id' = [id EXCEPT ![c] = next], next' = next + 1,
           Named' \subseteq Named \cup {c},
           UNCHANGED <<served, replies>>,
           promise' \in [Calls -> Promises],
           \A d \in Calls : promise'[d] \in {promise[d], "failed"},
           outcome' \in [Calls -> Outcomes],
           \A d \in Calls : outcome'[d] \in {outcome[d], "waiting"},
           outcome'[c] # "unmade"
    PROVE  Correlated'
<1>1. Named \subseteq Calls
  BY DEF Correlated, Named, Underway
<1>2. pending' \subseteq Calls /\ requests' \subseteq Calls
  BY <1>1 DEF Named
<1>3. \A r \in replies' : r.body \in served' /\ r.id = id'[r.body]
  BY DEF Correlated, Named
<1>4. \A d \in Named' : id'[d] < next' /\ outcome'[d] # "unmade"
  BY <1>1 DEF Correlated, Outcomes
<1>5. \A d, e \in Named' : id'[d] = id'[e] => d = e
  BY <1>1 DEF Correlated
<1>6. \A d \in Calls : promise'[d] \in Calls => promise'[d] = d /\ d \in served'
  BY DEF Correlated
<1>7. \A d \in Calls : outcome'[d] \in Calls => outcome'[d] = d /\ d \in served'
  BY DEF Correlated
<1>8. next' \in Int /\ id' \in [Calls -> Int]
  BY DEF Correlated
<1> QED BY <1>2, <1>3, <1>4, <1>5, <1>6, <1>7, <1>8 DEF Correlated

\* The calls a reply takes out of the map are its own.
LEMMA UnderIsOwn ==
    ASSUME Correlated, NEW c \in Calls, c \in Named, NEW i, i = id[c]
    PROVE  \A d \in Under(i) : d = c
BY DEF Correlated, Under, Named

\* A step that tells nobody anything, and registers nobody.
LEMMA CorrelatedUntold ==
    ASSUME Correlated, UNCHANGED <<served, next, id, promise, outcome>>,
           replies' \subseteq replies, Named' \subseteq Named
    PROVE  Correlated'
<1>1. /\ next' \in Int /\ next <= next' /\ served \subseteq served' /\ served' \subseteq Calls
      /\ promise' \in [Calls -> Promises] /\ outcome' \in [Calls -> Outcomes]
  BY DEF Correlated
<1> QED BY <1>1, CorrelatedKept

\* A step that fails some of the calls.
LEMMA CorrelatedFailed ==
    ASSUME Correlated, UNCHANGED <<served, id, outcome>>, next' \in Int, next <= next',
           replies' \subseteq replies, Named' \subseteq Named,
           NEW C, Complete(C, "failed")
    PROVE  Correlated'
<1>1. /\ served \subseteq served' /\ served' \subseteq Calls /\ outcome' \in [Calls -> Outcomes]
      /\ promise' \in [Calls -> Promises]
  BY DEF Correlated, Complete, Completed, Promises
<1>2. \A c \in Calls : promise'[c] \in {promise[c], "failed"}
  BY DEF Complete, Completed
<1> QED BY <1>1, <1>2, CorrelatedKept

\* A step that answers the call whose reply it is.
LEMMA CorrelatedAnswered ==
    ASSUME Correlated, UNCHANGED <<served, next, id, outcome>>,
           replies' \subseteq replies, Named' \subseteq Named,
           NEW C, NEW d, d \in served, \A c \in C : c = d, Complete(C, d)
    PROVE  Correlated'
<1>1. /\ next' \in Int /\ next <= next'
      /\ served \subseteq served' /\ served' \subseteq Calls /\ outcome' \in [Calls -> Outcomes]
      /\ promise' \in [Calls -> Promises]
  BY DEF Correlated, Complete, Completed, Promises
<1>2. \A c \in Calls : promise'[c] = promise[c] \/ (promise'[c] = c /\ c \in served')
  BY DEF Complete, Completed
<1> QED BY <1>1, <1>2, CorrelatedKept

\* A method that resumes answers what its completer holds.
LEMMA CorrelatedReturned ==
    ASSUME Correlated, NEW c \in Calls, Return(c), Underway' = Underway
    PROVE  Correlated'
<1>1. /\ outcome' = [outcome EXCEPT ![c] = promise[c]] /\ promise[c] # "open"
      /\ UNCHANGED <<requests, replies, served, next, pending, id, promise>>
  BY DEF Return, network
<1>2. Named' = Named
  BY <1>1 DEF Named
<1>3. /\ next' \in Int /\ next <= next' /\ served \subseteq served' /\ served' \subseteq Calls
      /\ promise' \in [Calls -> Promises] /\ outcome' \in [Calls -> Outcomes]
  BY <1>1 DEF Correlated, Promises, Outcomes
<1> QED BY <1>1, <1>2, <1>3, CorrelatedKept

-----------------------------------------------------------------------------
\* The peer.

\* The peer and the socket do on each platform what they do.
LEMMA PeerIsShared ==
    /\ Dart!Peer => Peer
    /\ Kotlin!Peer => Peer
    /\ Swift!Peer => Peer
BY DEF Dart!Peer, Dart!GoSilent, Dart!SocketCloses, Dart!PeerAnswers, Dart!flags, Dart!calls,
       Kotlin!Peer, Kotlin!GoSilent, Kotlin!SocketCloses, Kotlin!PeerAnswers, Kotlin!flags, Kotlin!calls,
       Swift!Peer, Swift!GoSilent, Swift!SocketCloses, Swift!PeerAnswers, Swift!flags, Swift!calls,
       Peer, GoSilent, SocketCloses, PeerAnswers, flags, calls

\* What the peer does names no call that was not, and an answer is one's own.
LEMMA PeerKeepsCalls ==
    ASSUME CallsInv, Peer, UNCHANGED <<platform, dartOwn, kotlinOwn, swiftOwn>>
    PROVE  CallsInv'
<1>1. /\ UNCHANGED <<next, pending, id, promise, outcome>>
      /\ requests' \subseteq requests /\ served \subseteq served'
  BY DEF Peer, GoSilent, SocketCloses, PeerAnswers, flags, calls
<1>2. Underway' = Underway
  BY DEF Underway, kotlinOwn, swiftOwn
<1>3. /\ served' \subseteq Calls
      /\ \A r \in replies' : r \in replies \/ \E c \in served' : r = [id |-> id[c], body |-> c] /\ c \in requests
  BY DEF Peer, GoSilent, SocketCloses, PeerAnswers, CallsInv, Correlated
<1>4. Named' \subseteq Named
  BY <1>1, <1>2, <1>3 DEF Named
<1>5. Correlated'
  <2>1. next' \in Int /\ next <= next' /\ promise' \in [Calls -> Promises] /\ outcome' \in [Calls -> Outcomes]
    BY <1>1 DEF CallsInv, Correlated
  <2> QED BY <1>1, <1>3, <1>4, <2>1, CorrelatedKept DEF CallsInv
<1>6. KotlinCalls'
  BY <1>1 DEF CallsInv, KotlinCalls, kotlinOwn
<1>7. SwiftCalls'
  BY <1>1, <1>4 DEF CallsInv, SwiftCalls, swiftOwn
<1> QED BY <1>5, <1>6, <1>7 DEF CallsInv

-----------------------------------------------------------------------------
\* Each platform's parts of what they have in common.

LEMMA DartIsShared ==
    /\ \A c : Dart!Return(c) <=> Return(c)
    /\ \A C, with : Dart!Complete(C, with) <=> Complete(C, with)
    /\ \A i : Dart!Under(i) = Under(i)
BY DEF Dart!Return, Dart!network, Dart!flags, Dart!Complete, Dart!Completed, Dart!Under,
       Return, network, flags, Complete, Completed, Under

LEMMA KotlinIsShared ==
    /\ \A c : Kotlin!Return(c) <=> Return(c)
    /\ \A C, with : Kotlin!Complete(C, with) <=> Complete(C, with)
    /\ \A i : Kotlin!Under(i) = Under(i)
BY DEF Kotlin!Return, Kotlin!network, Kotlin!flags, Kotlin!Complete, Kotlin!Completed, Kotlin!Under,
       Return, network, flags, Complete, Completed, Under

LEMMA SwiftIsShared ==
    /\ \A c : Swift!Return(c) <=> Return(c)
    /\ \A C, with : Swift!Complete(C, with) <=> Complete(C, with)
    /\ \A i : Swift!Under(i) = Under(i)
BY DEF Swift!Return, Swift!network, Swift!flags, Swift!Complete, Swift!Completed, Swift!Under,
       Return, network, flags, Complete, Completed, Under

-----------------------------------------------------------------------------
\* The calls of the Dart transport.

LEMMA DartKeepsCalls ==
    ASSUME CallsInv, platform = "dart", UNCHANGED <<platform, kotlinOwn, swiftOwn>>, Dart!Next
    PROVE  CallsInv'
<1>1. KotlinCalls' /\ SwiftCalls' /\ Underway = {} /\ Underway' = {} /\ Correlated
  BY DEF KotlinCalls, SwiftCalls, Underway, CallsInv
<1>2. ASSUME NEW c \in Calls, Dart!Request(c)
      PROVE  Correlated'
  <2>1. c \notin Named
    BY <1>1, <1>2 DEF Dart!Request, Correlated
  <2>2. /\ id' = [id EXCEPT ![c] = next] /\ next' = next + 1
        /\ pending' = pending \cup {c} /\ requests' \subseteq requests \cup {c}
        /\ outcome' = [outcome EXCEPT ![c] = "waiting"]
        /\ UNCHANGED <<served, replies>>
    BY <1>2 DEF Dart!Request, Dart!Register, Dart!WriteRequest
  <2>3. Named' \subseteq Named \cup {c}
    BY <1>1, <2>2 DEF Named
  <2>4. promise' \in [Calls -> Promises] /\ \A d \in Calls : promise'[d] \in {promise[d], "failed"}
    BY <1>1, <1>2 DEF Dart!Request, Dart!Complete, Dart!Completed, Correlated, Promises
  <2>5. outcome' \in [Calls -> Outcomes] /\ outcome'[c] # "unmade" /\ \A d \in Calls : outcome'[d] \in {outcome[d], "waiting"}
    BY <1>1, <2>2 DEF Correlated, Outcomes
  <2> QED BY <1>1, <2>1, <2>2, <2>3, <2>4, <2>5, CorrelatedJoined
<1>3. ASSUME NEW c \in Calls, Dart!Resume(c)
      PROVE  Correlated'
  BY <1>1, <1>3, DartIsShared, CorrelatedReturned DEF Dart!Resume
<1>4. ASSUME NEW r \in replies, Dart!DeliverReply(r)
      PROVE  Correlated'
  <2>1. /\ replies' = replies \ {r} /\ pending' \subseteq pending
        /\ UNCHANGED <<requests, served, next, id, outcome>>
        /\ Complete(Under(r.id), r.body)
    BY <1>4, DartIsShared DEF Dart!DeliverReply
  <2>2. r.body \in served /\ r.body \in Named /\ r.id = id[r.body] /\ r.body \in Calls
    BY <1>1 DEF Correlated, Named
  <2>3. \A c \in Under(r.id) : c = r.body
    BY <1>1, <2>2, UnderIsOwn
  <2>4. Named' \subseteq Named
    BY <1>1, <2>1 DEF Named
  <2> QED BY <1>1, <2>1, <2>2, <2>3, <2>4, CorrelatedAnswered
<1>5. ASSUME Dart!DeliverPong \/ Dart!FirePing \/ Dart!Tick
      PROVE  Correlated'
  <2>1. UNCHANGED <<requests, replies, served, next, pending, id, promise, outcome>>
    BY <1>5 DEF Dart!DeliverPong, Dart!FirePing, Dart!Tick, Dart!TimePasses, Dart!calls
  <2>2. Named' = Named
    BY <1>1, <2>1 DEF Named
  <2> QED BY <1>1, <2>1, <2>2, CorrelatedUntold
<1>6. ASSUME Dart!FireDeadline \/ Dart!StreamDone \/ Dart!Close
      PROVE  Correlated'
  <2>1. /\ UNCHANGED <<requests, replies, served, next, id, outcome>> /\ pending' = {}
        /\ Complete(pending, "failed")
    BY <1>6, DartIsShared DEF Dart!FireDeadline, Dart!StreamDone, Dart!Close, Dart!OnClose, Dart!network
  <2>2. Named' \subseteq Named
    BY <1>1, <2>1 DEF Named
  <2>3. next' \in Int /\ next <= next'
    BY <1>1, <2>1 DEF Correlated
  <2> QED BY <1>1, <2>1, <2>2, <2>3, CorrelatedFailed
<1>7. ASSUME Dart!Peer, UNCHANGED Dart!timers
      PROVE  Correlated'
  <2>1. Peer /\ UNCHANGED <<platform, dartOwn, kotlinOwn, swiftOwn>>
    BY <1>7, PeerIsShared DEF Dart!timers, dartOwn
  <2> QED BY <2>1, PeerKeepsCalls DEF CallsInv
<1>8. Correlated'
  BY <1>2, <1>3, <1>4, <1>5, <1>6, <1>7 DEF Dart!Next
<1> QED BY <1>1, <1>8 DEF CallsInv

-----------------------------------------------------------------------------
\* The calls of the Kotlin transport.

LEMMA KotlinKeepsCalls ==
    ASSUME CallsInv, platform = "kotlin", UNCHANGED <<platform, dartOwn, swiftOwn>>, Kotlin!Next
    PROVE  CallsInv'
<1>1. SwiftCalls' /\ KotlinCalls /\ Correlated
  BY DEF SwiftCalls, CallsInv
<1> DEFINE Between == {c \in Calls : caller[c] = "registered"}
<1>2. Underway = Between /\ Underway' = Between'
  BY DEF Underway
<1>3. ASSUME NEW c \in Calls, Kotlin!Enter(c)
      PROVE  Correlated' /\ KotlinCalls'
  <2>1. outcome[c] = "unmade"
    BY <1>1, <1>3 DEF Kotlin!Enter, KotlinCalls
  <2>2. c \notin Named
    BY <1>1, <2>1 DEF Correlated
  <2>3. /\ id' = [id EXCEPT ![c] = next] /\ next' = next + 1
        /\ pending' = pending \cup {c} /\ caller' = [caller EXCEPT ![c] = "registered"]
        /\ outcome' = [outcome EXCEPT ![c] = "waiting"]
        /\ UNCHANGED <<requests, served, replies, promise, reader>>
    BY <1>3 DEF Kotlin!Enter, Kotlin!RegisterLocked, Kotlin!Register, Kotlin!network
  <2>4. Between' \subseteq Between \cup {c}
    BY <2>3
  <2>5. Named' \subseteq Named \cup {c}
    BY <1>2, <2>3, <2>4 DEF Named
  <2>6. promise' \in [Calls -> Promises] /\ \A d \in Calls : promise'[d] \in {promise[d], "failed"}
    BY <1>1, <2>3 DEF Correlated
  <2>7. outcome' \in [Calls -> Outcomes] /\ outcome'[c] # "unmade" /\ \A d \in Calls : outcome'[d] \in {outcome[d], "waiting"}
    BY <1>1, <2>3 DEF Correlated, Outcomes
  <2>8. KotlinCalls'
    BY <1>1, <1>3, <2>3 DEF Kotlin!Enter, KotlinCalls, Correlated
  <2> QED BY <1>1, <2>2, <2>3, <2>5, <2>6, <2>7, <2>8, CorrelatedJoined
<1>4. ASSUME NEW c \in Calls, Kotlin!SendRequest(c)
      PROVE  Correlated' /\ KotlinCalls'
  <2>1. /\ c \in Between /\ requests' \subseteq requests \cup {c}
        /\ caller' = [caller EXCEPT ![c] = "sent"]
        /\ UNCHANGED <<replies, served, next, pending, id, outcome, reader>>
        /\ \/ UNCHANGED promise
           \/ promise' = [promise EXCEPT ![c] = "failed"]
    BY <1>4 DEF Kotlin!SendRequest, Kotlin!WriteRequest
  <2>2. Between' \subseteq Between
    BY <2>1
  <2>3. Named' \subseteq Named
    BY <1>2, <2>1, <2>2 DEF Named
  <2>4. /\ promise' \in [Calls -> Promises] /\ next' \in Int /\ next <= next'
        /\ served \subseteq served' /\ served' \subseteq Calls /\ outcome' \in [Calls -> Outcomes]
        /\ \A d \in Calls : promise'[d] \in {promise[d], "failed"}
    BY <1>1, <2>1 DEF Correlated, Promises
  <2>5. KotlinCalls'
    BY <1>1, <2>1 DEF KotlinCalls
  <2> QED BY <1>1, <2>1, <2>3, <2>4, <2>5, CorrelatedKept
<1>5. ASSUME NEW c \in Calls, Kotlin!Await(c)
      PROVE  Correlated' /\ KotlinCalls'
  <2>1. Return(c) /\ UNCHANGED <<caller, reader>>
    BY <1>5, KotlinIsShared DEF Kotlin!Await
  <2>2. Correlated'
    BY <1>1, <1>2, <2>1, CorrelatedReturned
  <2>3. KotlinCalls'
    BY <1>1, <1>5, <2>1 DEF KotlinCalls, Kotlin!Await, Return, network
  <2> QED BY <2>2, <2>3
<1>6. ASSUME NEW r \in replies, Kotlin!TakeReply(r)
      PROVE  Correlated' /\ KotlinCalls'
  <2>1. /\ replies' = replies \ {r} /\ pending' \subseteq pending
        /\ UNCHANGED <<requests, served, next, id, promise, outcome, caller>>
        /\ \/ \E c \in Under(r.id) : reader' = [frame |-> "reply", call |-> c, body |-> r.body]
           \/ UNCHANGED reader
    BY <1>6, KotlinIsShared DEF Kotlin!TakeReply
  <2>2. r.body \in served /\ r.body \in Named /\ r.id = id[r.body] /\ r.body \in Calls
    BY <1>1 DEF Correlated, Named
  <2>3. \A c \in Under(r.id) : c = r.body
    BY <1>1, <2>2, UnderIsOwn
  <2>4. Named' \subseteq Named
    BY <1>2, <2>1 DEF Named
  <2>5. Correlated'
    BY <1>1, <2>1, <2>4, CorrelatedUntold
  <2>6. KotlinCalls'
    BY <1>1, <2>1, <2>2, <2>3 DEF KotlinCalls
  <2> QED BY <2>5, <2>6
<1>7. ASSUME Kotlin!CompleteReply
      PROVE  Correlated' /\ KotlinCalls'
  <2>1. /\ UNCHANGED <<requests, replies, served, next, pending, id, outcome, caller>>
        /\ Complete({reader.call}, reader.body)
        /\ reader.call \in served /\ reader.body = reader.call
        /\ reader' = [frame |-> "none"]
    BY <1>1, <1>7, KotlinIsShared DEF Kotlin!CompleteReply, Kotlin!network, Kotlin!NoFrame, KotlinCalls
  <2>2. Named' = Named
    BY <1>2, <2>1 DEF Named
  <2>3. Correlated'
    BY <1>1, <2>1, <2>2, CorrelatedAnswered
  <2>4. KotlinCalls'
    BY <1>1, <2>1 DEF KotlinCalls
  <2> QED BY <2>3, <2>4
<1>8. ASSUME Kotlin!TakePong \/ Kotlin!CancelWatcher
      PROVE  Correlated' /\ KotlinCalls'
  <2>1. /\ UNCHANGED <<requests, replies, served, next, pending, id, promise, outcome, caller>>
        /\ reader'.frame # "reply"
    BY <1>8 DEF Kotlin!TakePong, Kotlin!CancelWatcher, Kotlin!NoFrame, Kotlin!calls, Kotlin!shared, Kotlin!network
  <2>2. Named' = Named
    BY <1>2, <2>1 DEF Named
  <2>3. Correlated'
    BY <1>1, <2>1, <2>2, CorrelatedUntold
  <2>4. KotlinCalls'
    BY <1>1, <2>1 DEF KotlinCalls
  <2> QED BY <2>3, <2>4
<1>9. ASSUME \/ Kotlin!AppCloses \/ Kotlin!SocketTellsClose \/ Kotlin!Arm \/ Kotlin!SendPing \/ Kotlin!Tick
             \/ \E w \in Watchers : Kotlin!WatcherWakes(w)
             \/ \E a \in Kotlin!Closers : Kotlin!Begin(a) \/ Kotlin!Shut(a)
      PROVE  Correlated' /\ KotlinCalls'
  <2>1. UNCHANGED <<requests, replies, served, next, pending, id, promise, outcome, caller, reader>>
    BY <1>9 DEF Kotlin!AppCloses, Kotlin!SocketTellsClose, Kotlin!Arm, Kotlin!SendPing, Kotlin!Tick, Kotlin!WatcherWakes,
                Kotlin!Begin, Kotlin!Shut, Kotlin!calls, Kotlin!shared, Kotlin!network, Kotlin!TimePasses
  <2>2. Named' = Named
    BY <1>2, <2>1 DEF Named
  <2>3. Correlated'
    BY <1>1, <2>1, <2>2, CorrelatedUntold
  <2>4. KotlinCalls'
    BY <1>1, <2>1 DEF KotlinCalls
  <2> QED BY <2>3, <2>4
<1>10. ASSUME NEW a, Kotlin!Settle(a)
       PROVE  Correlated' /\ KotlinCalls'
  <2>1. /\ UNCHANGED <<requests, replies, served, next, id, outcome, caller, reader>> /\ pending' = {}
        /\ Complete(pending, "failed")
    BY <1>10, KotlinIsShared DEF Kotlin!Settle, Kotlin!SettleAll, Kotlin!network
  <2>2. Named' \subseteq Named
    BY <1>2, <2>1 DEF Named
  <2>3. next' \in Int /\ next <= next'
    BY <1>1, <2>1 DEF Correlated
  <2>4. Correlated'
    BY <1>1, <2>1, <2>2, <2>3, CorrelatedFailed
  <2>5. KotlinCalls'
    BY <1>1, <2>1 DEF KotlinCalls
  <2> QED BY <2>4, <2>5
<1>11. ASSUME Kotlin!Peer, UNCHANGED <<caller, reader, Kotlin!beat, Kotlin!closers>>
       PROVE  Correlated' /\ KotlinCalls'
  <2>1. Peer /\ UNCHANGED <<platform, dartOwn, kotlinOwn, swiftOwn>>
    BY <1>11, PeerIsShared DEF Kotlin!beat, Kotlin!closers, kotlinOwn
  <2> QED BY <2>1, PeerKeepsCalls DEF CallsInv
<1>12. Correlated' /\ KotlinCalls'
  BY <1>3, <1>4, <1>5, <1>6, <1>7, <1>8, <1>9, <1>10, <1>11 DEF Kotlin!Next, Kotlin!Scheduled, Kotlin!CloseStep
<1> QED BY <1>1, <1>12 DEF CallsInv

-----------------------------------------------------------------------------
\* The calls of the Swift transport.

\* What is left of a stream and what one more frame makes of it.
LEMMA StreamSteps ==
    ASSUME stream \in Seq(Frames)
    PROVE  /\ stream # <<>> =>
                  /\ Tail(stream) \in Seq(Frames)
                  /\ 1 \in DOMAIN stream /\ Head(stream) = stream[1]
                  /\ \A n \in DOMAIN Tail(stream) : n + 1 \in DOMAIN stream /\ Tail(stream)[n] = stream[n + 1]
           /\ \A f \in Frames :
                  /\ Append(stream, f) \in Seq(Frames)
                  /\ \A n \in DOMAIN Append(stream, f) :
                        \/ n \in DOMAIN stream /\ Append(stream, f)[n] = stream[n]
                        \/ Append(stream, f)[n] = f
<1>1. ASSUME stream # <<>>
      PROVE  /\ Tail(stream) \in Seq(Frames)
             /\ 1 \in DOMAIN stream /\ Head(stream) = stream[1]
             /\ \A n \in DOMAIN Tail(stream) : n + 1 \in DOMAIN stream /\ Tail(stream)[n] = stream[n + 1]
  BY <1>1
<1>2. ASSUME NEW f \in Frames
      PROVE  /\ Append(stream, f) \in Seq(Frames)
             /\ \A n \in DOMAIN Append(stream, f) :
                   \/ n \in DOMAIN stream /\ Append(stream, f)[n] = stream[n]
                   \/ Append(stream, f)[n] = f
  OBVIOUS
<1> QED BY <1>1, <1>2

LEMMA SwiftKeepsCalls ==
    ASSUME CallsInv, platform = "swift", UNCHANGED <<platform, dartOwn, kotlinOwn>>, Swift!Next
    PROVE  CallsInv'
<1>1. KotlinCalls' /\ SwiftCalls /\ Correlated
  BY DEF KotlinCalls, CallsInv
<1> DEFINE Read == {c \in Calls : \E n \in DOMAIN stream : stream[n].kind = "reply" /\ stream[n].body = c}
<1>2. Underway = Read /\ Underway' = Read'
  BY DEF Underway
<1>3. stream \in Seq(Frames) /\ entering \subseteq Calls
  BY <1>1 DEF SwiftCalls
<1>4. \A n \in DOMAIN stream : stream[n].kind = "reply" =>
         stream[n].body \in Calls /\ stream[n].body \in served /\ stream[n].body \in Named /\ stream[n].id = id[stream[n].body]
  BY <1>1, <1>2 DEF SwiftCalls, Correlated, Named
\* A step that leaves the stream or takes a frame off it.
<1>5. ASSUME \/ UNCHANGED stream
             \/ stream # <<>> /\ stream' = Tail(stream)
      PROVE  /\ stream' \in Seq(Frames) /\ Read' \subseteq Read
             /\ \A n \in DOMAIN stream' : \E k \in DOMAIN stream : stream'[n] = stream[k]
  BY <1>3, <1>5, StreamSteps
<1>6. ASSUME NEW c \in Calls, Swift!Invoke(c)
      PROVE  Correlated' /\ SwiftCalls'
  <2>1. /\ c \notin Named /\ entering' = entering \cup {c}
        /\ UNCHANGED <<requests, replies, served, next, pending, id, promise, stream>>
        /\ outcome' = [outcome EXCEPT ![c] = "waiting"]
    BY <1>1, <1>6 DEF Swift!Invoke, Correlated, Swift!network, Swift!inbound
  <2>2. Named' = Named
    BY <1>2, <2>1 DEF Named
  <2>3. /\ promise' \in [Calls -> Promises] /\ next' \in Int /\ next <= next'
        /\ served \subseteq served' /\ served' \subseteq Calls /\ outcome' \in [Calls -> Outcomes]
        /\ \A d \in Calls : outcome'[d] \in {outcome[d], "waiting"}
    BY <1>1, <2>1 DEF Correlated, Outcomes
  <2>4. Correlated'
    BY <1>1, <2>1, <2>2, <2>3, CorrelatedKept
  <2>5. SwiftCalls'
    BY <1>1, <2>1, <2>2 DEF SwiftCalls, Correlated
  <2> QED BY <2>4, <2>5
<1>7. ASSUME NEW c \in Calls, Swift!Correlate(c)
      PROVE  Correlated' /\ SwiftCalls'
  <2>1. /\ c \in entering /\ c \notin Named /\ entering' = entering \ {c}
        /\ UNCHANGED <<replies, served, outcome, stream>>
    BY <1>1, <1>7 DEF Swift!Correlate, SwiftCalls, Swift!inbound
  <2>2. CASE next' = next + 1 /\ Complete({c}, "failed") /\ UNCHANGED <<requests, pending, id>>
    <3>1. Named' = Named
      BY <1>2, <2>1, <2>2 DEF Named
    <3>2. next' \in Int /\ next <= next'
      BY <1>1, <2>2 DEF Correlated
    <3>3. Correlated'
      BY <1>1, <2>1, <2>2, <3>1, <3>2, CorrelatedFailed
    <3>4. SwiftCalls'
      BY <1>1, <2>1, <2>2, <3>1 DEF SwiftCalls
    <3> QED BY <3>3, <3>4
  <2>3. CASE Swift!Register(c) /\ Swift!WriteRequest(c) /\ UNCHANGED promise
    <3>1. /\ id' = [id EXCEPT ![c] = next] /\ next' = next + 1
          /\ pending' = pending \cup {c} /\ requests' \subseteq requests \cup {c}
      BY <2>3 DEF Swift!Register, Swift!WriteRequest
    <3>2. Named' \subseteq Named \cup {c}
      BY <1>2, <2>1, <3>1 DEF Named
    <3>3. promise' \in [Calls -> Promises] /\ \A d \in Calls : promise'[d] \in {promise[d], "failed"}
      BY <1>1, <2>3 DEF Correlated
    <3>4. outcome' \in [Calls -> Outcomes] /\ outcome'[c] # "unmade" /\ \A d \in Calls : outcome'[d] \in {outcome[d], "waiting"}
      BY <1>1, <2>1 DEF Correlated, Outcomes, SwiftCalls
    <3>5. Correlated'
      BY <1>1, <2>1, <3>1, <3>2, <3>3, <3>4, CorrelatedJoined
    <3>6. \A n \in DOMAIN stream' : stream'[n].kind = "reply" =>
             stream'[n].body \in served' /\ stream'[n].id = id'[stream'[n].body]
      BY <1>4, <2>1, <3>1 DEF Correlated
    <3>7. SwiftCalls'
      BY <1>1, <2>1, <3>2, <3>6 DEF SwiftCalls
    <3> QED BY <3>5, <3>7
  <2> QED BY <1>7, <2>2, <2>3, SwiftIsShared DEF Swift!Correlate
<1>8. ASSUME NEW c \in Calls, Swift!Resume(c)
      PROVE  Correlated' /\ SwiftCalls'
  <2>1. Return(c) /\ UNCHANGED <<entering, stream>>
    BY <1>8, SwiftIsShared DEF Swift!Resume, Swift!inbound
  <2>2. Correlated'
    BY <1>1, <1>2, <2>1, CorrelatedReturned
  <2>3. /\ outcome' = [outcome EXCEPT ![c] = promise[c]] /\ promise[c] # "open"
        /\ UNCHANGED <<requests, replies, served, next, pending, id, promise>>
    BY <2>1 DEF Return, network
  <2>4. Named' = Named
    BY <1>2, <2>1, <2>3 DEF Named
  <2>5. promise[c] # "unmade"
    BY <1>1 DEF Correlated, Promises
  <2>6. SwiftCalls'
    BY <1>1, <2>1, <2>3, <2>4, <2>5 DEF SwiftCalls, Correlated
  <2> QED BY <2>2, <2>6
<1>9. ASSUME NEW r \in replies, Swift!ReceiveReply(r)
      PROVE  Correlated' /\ SwiftCalls'
  <2> DEFINE f == [kind |-> "reply", id |-> r.id, body |-> r.body]
  <2>1. /\ replies' = replies \ {r} /\ stream' \in {stream, Append(stream, f)}
        /\ UNCHANGED <<requests, served, next, pending, id, promise, outcome, entering>>
    BY <1>9 DEF Swift!ReceiveReply, Swift!Yield, Swift!calls
  <2>2. r.body \in served /\ r.body \in Named /\ r.id = id[r.body] /\ r.body \in Calls /\ r.id \in Int
    BY <1>1 DEF Correlated, Named
  <2>3. f \in Frames
    BY <2>2 DEF Frames
  <2>4. stream' \in Seq(Frames) /\ \A n \in DOMAIN stream' : stream'[n] = f \/ (n \in DOMAIN stream /\ stream'[n] = stream[n])
    BY <1>3, <2>1, <2>3, StreamSteps
  <2>5. Read' \subseteq Read \cup {r.body}
    BY <2>4
  <2>6. Named' \subseteq Named
    BY <1>2, <2>1, <2>2, <2>5 DEF Named
  <2>7. Correlated'
    BY <1>1, <2>1, <2>6, CorrelatedUntold
  <2>8. \A n \in DOMAIN stream' : stream'[n].kind = "reply" =>
           stream'[n].body \in served' /\ stream'[n].id = id'[stream'[n].body]
    BY <1>4, <2>1, <2>2, <2>4
  <2>9. SwiftCalls'
    BY <1>1, <2>1, <2>4, <2>6, <2>8 DEF SwiftCalls
  <2> QED BY <2>7, <2>9
<1>10. ASSUME Swift!HandleReply
       PROVE  Correlated' /\ SwiftCalls'
  <2> DEFINE r == Head(stream)
  <2>1. /\ stream # <<>> /\ r.kind = "reply" /\ stream' = Tail(stream)
        /\ pending' \subseteq pending /\ Complete(Under(r.id), r.body)
        /\ UNCHANGED <<requests, replies, served, next, id, outcome, entering>>
    BY <1>10, SwiftIsShared DEF Swift!HandleReply, Swift!network
  <2>2. r.body \in Calls /\ r.body \in served /\ r.body \in Named /\ r.id = id[r.body]
    BY <1>3, <1>4, <2>1, StreamSteps
  <2>3. \A c \in Under(r.id) : c = r.body
    BY <1>1, <2>2, UnderIsOwn
  <2>4. Named' \subseteq Named
    BY <1>2, <1>5, <2>1 DEF Named
  <2>5. Correlated'
    BY <1>1, <2>1, <2>2, <2>3, <2>4, CorrelatedAnswered
  <2>6. SwiftCalls'
    BY <1>1, <1>5, <2>1, <2>4 DEF SwiftCalls
  <2> QED BY <2>5, <2>6
<1>11. ASSUME Swift!ReceivePong
       PROVE  Correlated' /\ SwiftCalls'
  <2> DEFINE f == [kind |-> "pong"]
  <2>1. /\ stream' \in {stream, Append(stream, f)}
        /\ UNCHANGED <<requests, replies, served, next, pending, id, promise, outcome, entering>>
    BY <1>11 DEF Swift!ReceivePong, Swift!Yield, Swift!calls
  <2>2. f \in Frames
    BY DEF Frames
  <2>3. stream' \in Seq(Frames) /\ \A n \in DOMAIN stream' : stream'[n] = f \/ (n \in DOMAIN stream /\ stream'[n] = stream[n])
    BY <1>3, <2>1, <2>2, StreamSteps
  <2>4. f.kind # "reply"
    OBVIOUS
  <2>5. Read' \subseteq Read
    BY <2>3, <2>4
  <2>6. Named' \subseteq Named
    BY <1>2, <2>1, <2>5 DEF Named
  <2>7. Correlated'
    BY <1>1, <2>1, <2>6, CorrelatedUntold
  <2>8. \A n \in DOMAIN stream' : stream'[n].kind = "reply" =>
           stream'[n].body \in served' /\ stream'[n].id = id'[stream'[n].body]
    BY <1>4, <2>1, <2>3, <2>4
  <2>9. SwiftCalls'
    BY <1>1, <2>1, <2>3, <2>6, <2>8 DEF SwiftCalls
  <2> QED BY <2>7, <2>9
<1>12. ASSUME Swift!HandlePong
       PROVE  Correlated' /\ SwiftCalls'
  <2>1. /\ stream # <<>> /\ stream' = Tail(stream)
        /\ UNCHANGED <<requests, replies, served, next, pending, id, promise, outcome, entering>>
    BY <1>12 DEF Swift!HandlePong, Swift!network, Swift!calls
  <2>2. Named' \subseteq Named
    BY <1>2, <1>5, <2>1 DEF Named
  <2>3. Correlated'
    BY <1>1, <2>1, <2>2, CorrelatedUntold
  <2>4. SwiftCalls'
    BY <1>1, <1>5, <2>1, <2>2 DEF SwiftCalls
  <2> QED BY <2>3, <2>4
<1>13. ASSUME Swift!Tick \/ Swift!Start \/ Swift!FinishStream \/ Swift!PingWakes \/ Swift!SendPing \/ Swift!DeadlineWakes
       PROVE  Correlated' /\ SwiftCalls'
  <2>1. UNCHANGED <<requests, replies, served, next, pending, id, promise, outcome, entering, stream>>
    BY <1>13 DEF Swift!Tick, Swift!Start, Swift!FinishStream, Swift!PingWakes, Swift!SendPing, Swift!DeadlineWakes,
                 Swift!TimePasses, Swift!shared, Swift!network, Swift!calls, Swift!inbound
  <2>2. Named' = Named
    BY <1>2, <2>1 DEF Named
  <2>3. Correlated'
    BY <1>1, <2>1, <2>2, CorrelatedUntold
  <2>4. SwiftCalls'
    BY <1>1, <2>1, <2>2 DEF SwiftCalls
  <2> QED BY <2>3, <2>4
<1>14. ASSUME Swift!Close \/ Swift!StreamEnds \/ Swift!PongMissed
       PROVE  Correlated' /\ SwiftCalls'
  <2>1. /\ UNCHANGED <<requests, replies, served, entering, stream, next, id, outcome>>
        /\ \/ UNCHANGED <<pending, promise>>
           \/ pending' = {} /\ Complete(pending, "failed")
    BY <1>14, SwiftIsShared DEF Swift!Close, Swift!StreamEnds, Swift!PongMissed, Swift!HandleClose, Swift!ResumeAll, Swift!network, Swift!calls
  <2>2. Named' \subseteq Named
    BY <1>2, <2>1 DEF Named
  <2>3. next' \in Int /\ next <= next'
    BY <1>1, <2>1 DEF Correlated
  <2>4. Correlated'
    BY <1>1, <2>1, <2>2, <2>3, CorrelatedFailed, CorrelatedUntold
  <2>5. SwiftCalls'
    BY <1>1, <2>1, <2>2 DEF SwiftCalls
  <2> QED BY <2>4, <2>5
<1>15. ASSUME Swift!Peer, UNCHANGED <<started, entering, Swift!inbound, Swift!tasks>>
       PROVE  Correlated' /\ SwiftCalls'
  <2>1. Peer /\ UNCHANGED <<platform, dartOwn, kotlinOwn, swiftOwn>>
    BY <1>15, PeerIsShared DEF Swift!inbound, Swift!tasks, swiftOwn
  <2> QED BY <2>1, PeerKeepsCalls DEF CallsInv
<1>16. Correlated' /\ SwiftCalls'
  BY <1>6, <1>7, <1>8, <1>9, <1>10, <1>11, <1>12, <1>13, <1>14, <1>15 DEF Swift!Next, Swift!Scheduled
<1> QED BY <1>1, <1>16 DEF CallsInv

-----------------------------------------------------------------------------
LEMMA CallsInitially == Init => CallsInv
<1> SUFFICES ASSUME Init PROVE CallsInv
  OBVIOUS
<1>1. \/ platform = "dart" /\ Dart!Init /\ KotlinAbsent /\ SwiftAbsent
      \/ platform = "kotlin" /\ Kotlin!Init /\ DartAbsent /\ SwiftAbsent
      \/ platform = "swift" /\ Swift!Init /\ DartAbsent /\ KotlinAbsent
  BY DEF Init
<1>2. /\ requests = {} /\ replies = {} /\ served = {} /\ pending = {} /\ next \in Int
      /\ id = [c \in Calls |-> 0]
      /\ promise = [c \in Calls |-> "open"]
      /\ outcome = [c \in Calls |-> "unmade"]
  BY <1>1 DEF Dart!Init, Dart!NetworkInit, Dart!TransportInit, Kotlin!Init, Kotlin!NetworkInit, Kotlin!TransportInit,
              Swift!Init, Swift!NetworkInit, Swift!TransportInit
<1>3. platform = "kotlin" => caller = [c \in Calls |-> "idle"] /\ reader.frame = "none"
  BY <1>1 DEF Kotlin!Init, Kotlin!NoFrame
<1>4. platform = "swift" => stream = <<>> /\ entering = {}
  BY <1>1 DEF Swift!Init
<1>5. Underway = {}
  BY <1>3, <1>4 DEF Underway
<1>6. Named = {}
  BY <1>2, <1>5 DEF Named
<1>7. Correlated
  BY <1>2, <1>6 DEF Correlated, Promises, Outcomes
<1>8. KotlinCalls
  BY <1>2, <1>3 DEF KotlinCalls
<1>9. <<>> \in Seq(Frames) /\ DOMAIN <<>> = {}
  OBVIOUS
<1>10. SwiftCalls
  BY <1>4, <1>9 DEF SwiftCalls
<1> QED BY <1>7, <1>8, <1>10 DEF CallsInv

LEMMA CallsStep == CallsInv /\ [Next]_vars => CallsInv'
<1> SUFFICES ASSUME CallsInv, [Next]_vars PROVE CallsInv'
  OBVIOUS
<1>1. CASE OnDart(Dart!Next)
  BY <1>1, DartKeepsCalls DEF OnDart
<1>2. CASE OnKotlin(Kotlin!Next)
  BY <1>2, KotlinKeepsCalls DEF OnKotlin
<1>3. CASE OnSwift(Swift!Next)
  BY <1>3, SwiftKeepsCalls DEF OnSwift
<1>4. CASE UNCHANGED vars
  <2>1. /\ UNCHANGED <<platform, requests, replies, served, next, pending, id, promise, outcome>>
        /\ UNCHANGED <<caller, reader, entering, stream>>
    BY <1>4 DEF vars, shared, network, calls, kotlinOwn, swiftOwn
  <2>2. Named' = Named
    BY <2>1 DEF Named, Underway
  <2> QED BY <2>1, <2>2 DEF CallsInv, Correlated, KotlinCalls, SwiftCalls
<1> QED BY <1>1, <1>2, <1>3, <1>4 DEF Next

LEMMA CallsInvariance == Spec => []CallsInv
BY CallsInitially, CallsStep, PTL DEF Spec

-----------------------------------------------------------------------------
\* The transports implement RpcCalls.

\* Call c is made.
Made(c) ==
    /\ outcome[c] = "unmade" /\ outcome' = [outcome EXCEPT ![c] = "waiting"]
    /\ UNCHANGED served

\* What a step can be to a caller.
Told ==
    \/ UNCHANGED <<outcome, served>>
    \/ \E c \in Calls : Made(c) \/ Return(c) \/ PeerAnswers(c)

LEMMA PeerTells == Peer => Told
BY DEF Peer, GoSilent, SocketCloses, Told, calls

LEMMA DartTells ==
    ASSUME Dart!Next
    PROVE  Told
<1>1. ASSUME NEW c \in Calls, Dart!Request(c)
      PROVE  Told
  BY <1>1 DEF Dart!Request, Told, Made
<1>2. ASSUME NEW c \in Calls, Dart!Resume(c)
      PROVE  Told
  BY <1>2, DartIsShared DEF Dart!Resume, Told
<1>3. ASSUME \/ Dart!DeliverPong \/ Dart!FirePing \/ Dart!FireDeadline \/ Dart!StreamDone \/ Dart!Close \/ Dart!Tick
             \/ \E r \in replies : Dart!DeliverReply(r)
      PROVE  UNCHANGED <<outcome, served>>
  BY <1>3 DEF Dart!DeliverPong, Dart!FirePing, Dart!FireDeadline, Dart!StreamDone, Dart!Close, Dart!OnClose, Dart!Tick,
              Dart!DeliverReply, Dart!TimePasses, Dart!calls, Dart!network
<1> QED BY <1>1, <1>2, <1>3, PeerIsShared, PeerTells DEF Dart!Next, Told

LEMMA KotlinTells ==
    ASSUME KotlinCalls, platform = "kotlin", Kotlin!Next
    PROVE  Told
<1>1. ASSUME NEW c \in Calls, Kotlin!Enter(c)
      PROVE  Told
  BY <1>1 DEF Kotlin!Enter, Kotlin!network, KotlinCalls, Told, Made
<1>2. ASSUME NEW c \in Calls, Kotlin!Await(c)
      PROVE  Told
  BY <1>2, KotlinIsShared DEF Kotlin!Await, Told
<1>3. ASSUME \/ \E c \in Calls : Kotlin!SendRequest(c)
             \/ \E r \in replies : Kotlin!TakeReply(r)
             \/ Kotlin!CompleteReply \/ Kotlin!TakePong \/ Kotlin!CancelWatcher
      PROVE  UNCHANGED <<outcome, served>>
  BY <1>3 DEF Kotlin!SendRequest, Kotlin!TakeReply, Kotlin!CompleteReply, Kotlin!TakePong, Kotlin!CancelWatcher,
              Kotlin!calls, Kotlin!shared, Kotlin!network
<1>4. ASSUME \/ Kotlin!AppCloses \/ Kotlin!SocketTellsClose \/ Kotlin!Arm \/ Kotlin!SendPing \/ Kotlin!Tick
             \/ \E w \in Watchers : Kotlin!WatcherWakes(w)
             \/ \E a \in Kotlin!Closers : Kotlin!CloseStep(a)
      PROVE  UNCHANGED <<outcome, served>>
  BY <1>4 DEF Kotlin!AppCloses, Kotlin!SocketTellsClose, Kotlin!Arm, Kotlin!SendPing, Kotlin!Tick, Kotlin!WatcherWakes,
              Kotlin!CloseStep, Kotlin!Begin, Kotlin!Shut, Kotlin!Settle, Kotlin!calls, Kotlin!shared, Kotlin!network,
              Kotlin!TimePasses
<1> QED BY <1>1, <1>2, <1>3, <1>4, PeerIsShared, PeerTells DEF Kotlin!Next, Kotlin!Scheduled, Told

LEMMA SwiftTells ==
    ASSUME Swift!Next
    PROVE  Told
<1>1. ASSUME NEW c \in Calls, Swift!Invoke(c)
      PROVE  Told
  BY <1>1 DEF Swift!Invoke, Swift!network, Told, Made
<1>2. ASSUME NEW c \in Calls, Swift!Resume(c)
      PROVE  Told
  BY <1>2, SwiftIsShared DEF Swift!Resume, Told
<1>3. ASSUME \/ Swift!Tick \/ Swift!Start \/ Swift!FinishStream \/ Swift!StreamEnds
             \/ Swift!PingWakes \/ Swift!SendPing \/ Swift!DeadlineWakes \/ Swift!PongMissed \/ Swift!Close
      PROVE  UNCHANGED <<outcome, served>>
  BY <1>3 DEF Swift!Tick, Swift!Start, Swift!FinishStream, Swift!StreamEnds, Swift!PingWakes, Swift!SendPing,
              Swift!DeadlineWakes, Swift!PongMissed, Swift!Close, Swift!HandleClose, Swift!TimePasses,
              Swift!calls, Swift!shared, Swift!network
<1>4. ASSUME \/ Swift!ReceivePong \/ Swift!HandlePong \/ Swift!HandleReply
             \/ \E c \in Calls : Swift!Correlate(c)
             \/ \E r \in replies : Swift!ReceiveReply(r)
      PROVE  UNCHANGED <<outcome, served>>
  BY <1>4 DEF Swift!ReceivePong, Swift!HandlePong, Swift!HandleReply, Swift!Correlate, Swift!ReceiveReply,
              Swift!calls, Swift!network
<1> QED BY <1>1, <1>2, <1>3, <1>4, PeerIsShared, PeerTells DEF Swift!Next, Swift!Scheduled, Told

\* A step that tells a caller something is one of RpcCalls'.
LEMMA ToldRefines ==
    ASSUME CallsInv, Told
    PROVE  [Rpc!RpcNext]_(Rpc!rpcVars)
<1>1. /\ outcome \in [Calls -> Outcomes] /\ promise \in [Calls -> Promises]
      /\ \A c \in Calls : outcome[c] \in Calls => outcome[c] = c
      /\ \A c \in Calls : promise[c] \in Calls => promise[c] = c /\ c \in served
  BY DEF CallsInv, Correlated
<1>2. CASE UNCHANGED <<outcome, served>>
  <2>1. \A c \in Calls : Phase(c)' = Phase(c)
    BY <1>2 DEF Phase
  <2> QED BY <1>2, <2>1 DEF Rpc!rpcVars
<1>3. ASSUME NEW c \in Calls, Made(c)
      PROVE  Rpc!RpcNext
  <2>1. Phase(c) = "idle" /\ Phase(c)' = "waiting" /\ \A d \in Calls \ {c} : Phase(d)' = Phase(d)
    BY <1>1, <1>3 DEF Made, Phase
  <2>2. Rpc!Issue(c)
    BY <1>3, <2>1 DEF Rpc!Issue, Made
  <2> QED BY <2>2 DEF Rpc!RpcNext
<1>4. ASSUME NEW c \in Calls, Return(c)
      PROVE  Rpc!RpcNext
  <2>1. UNCHANGED served /\ Phase(c) = "waiting" /\ \A d \in Calls \ {c} : Phase(d)' = Phase(d)
    BY <1>1, <1>4 DEF Return, Phase, network
  <2>2. CASE promise[c] = "failed"
    <3>1. Phase(c)' = "failed"
      BY <1>1, <1>4, <2>2 DEF Return, Phase
    <3>2. Rpc!Fail(c)
      BY <2>1, <3>1 DEF Rpc!Fail
    <3> QED BY <3>2 DEF Rpc!RpcNext
  <2>3. CASE promise[c] = c /\ c \in served
    <3>1. Phase(c)' = "answered"
      BY <1>1, <1>4, <2>3 DEF Return, Phase
    <3>2. Rpc!Answer(c)
      BY <2>1, <2>3, <3>1 DEF Rpc!Answer
    <3> QED BY <3>2 DEF Rpc!RpcNext
  <2> QED BY <1>1, <1>4, <2>2, <2>3 DEF Return, Promises
<1>5. ASSUME NEW c \in Calls, PeerAnswers(c)
      PROVE  [Rpc!RpcNext]_(Rpc!rpcVars)
  <2>1. UNCHANGED outcome /\ served' = served \cup {c} /\ c \in Named
    BY <1>5 DEF PeerAnswers, calls, Named
  <2>2. \A d \in Calls : Phase(d)' = Phase(d)
    BY <2>1 DEF Phase
  <2>3. CASE c \in served
    BY <2>1, <2>2, <2>3 DEF Rpc!rpcVars
  <2>4. CASE c \notin served
    <3>1. Phase(c) # "idle"
      BY <1>1, <2>1 DEF Phase, CallsInv, Correlated
    <3>2. Rpc!ServeCall(c)
      BY <2>1, <2>2, <2>4, <3>1 DEF Rpc!ServeCall
    <3> QED BY <3>2 DEF Rpc!RpcNext
  <2> QED BY <2>3, <2>4
<1> QED BY <1>2, <1>3, <1>4, <1>5 DEF Told

LEMMA RefinesInit == Init => Rpc!RpcInit
<1> SUFFICES ASSUME Init PROVE Rpc!RpcInit
  OBVIOUS
<1>1. outcome = [c \in Calls |-> "unmade"] /\ served = {}
  BY DEF Init, Dart!Init, Dart!NetworkInit, Dart!TransportInit, Kotlin!Init, Kotlin!NetworkInit, Kotlin!TransportInit,
         Swift!Init, Swift!NetworkInit, Swift!TransportInit
<1>2. \A c \in Calls : Phase(c) = "idle"
  BY <1>1 DEF Phase
<1> QED BY <1>1, <1>2 DEF Rpc!RpcInit

\* Each of the three transports implements RpcCalls: a call is answered with its
\* own reply, which the peer has sent, or failed, once and for good, whatever
\* threads, actors, timers and closes run beside it.
THEOREM Refinement == Spec => ImplementsRpcCalls
<1>1. ASSUME CallsInv, [Next]_vars PROVE [Rpc!RpcNext]_(Rpc!rpcVars)
  <2>1. Told
    <3>1. CASE UNCHANGED vars
      BY <3>1 DEF vars, shared, network, calls, Told
    <3>2. CASE Next
      BY <1>1, <3>2, DartTells, KotlinTells, SwiftTells DEF Next, OnDart, OnKotlin, OnSwift, CallsInv
    <3> QED BY <1>1, <3>1, <3>2
  <2> QED BY <1>1, <2>1, ToldRefines
<1> QED BY <1>1, RefinesInit, CallsInvariance, PTL DEF Spec, ImplementsRpcCalls, Rpc!RpcSpec

-----------------------------------------------------------------------------
\* The pongs on their way.

LEMMA PongsMove ==
    ASSUME pongs \in Seq(Nat)
    PROVE  /\ pongs' = pongs => pongs' \in Seq(Nat)
           /\ pongs' = Append(pongs, Latency) =>
                  pongs' \in Seq(Nat) /\ \A n \in Int : Latency < n => PongAhead(n)'
           /\ pongs' = [n \in 1..Len(pongs) |-> IF pongs[n] > 0 THEN pongs[n] - 1 ELSE pongs[n]] =>
                  /\ pongs' \in Seq(Nat)
                  /\ \A n \in Int : PongAhead(n) /\ (\A k \in 1..Len(pongs) : pongs[k] > 0) => PongAhead(n - 1)'
           /\ pongs # <<>> /\ pongs' = Tail(pongs) => pongs' \in Seq(Nat)
           /\ \A n \in 0..Len(pongs) : pongs' = SubSeq(pongs, 1, n) => pongs' \in Seq(Nat)
           /\ pongs' = <<>> => pongs' \in Seq(Nat)
<1>1. pongs' = Append(pongs, Latency) =>
          pongs' \in Seq(Nat) /\ \A n \in Int : Latency < n => PongAhead(n)'
  BY DEF PongAhead
<1>2. ASSUME pongs' = [n \in 1..Len(pongs) |-> IF pongs[n] > 0 THEN pongs[n] - 1 ELSE pongs[n]]
      PROVE  /\ pongs' \in Seq(Nat)
             /\ \A n \in Int : PongAhead(n) /\ (\A k \in 1..Len(pongs) : pongs[k] > 0) => PongAhead(n - 1)'
  <2>1. Len(pongs) \in Nat /\ pongs \in [1..Len(pongs) -> Nat]
    OBVIOUS
  <2>2. pongs' \in [1..Len(pongs) -> Nat]
    BY <1>2, <2>1
  <2>3. pongs' \in Seq(Nat) /\ Len(pongs') = Len(pongs)
    BY <2>1, <2>2
  <2>4. ASSUME NEW n \in Int, PongAhead(n), \A k \in 1..Len(pongs) : pongs[k] > 0
        PROVE  PongAhead(n - 1)'
    <3>1. Len(pongs) \in 1..Len(pongs) /\ pongs[Len(pongs)] \in Nat
      BY <2>1, <2>4 DEF PongAhead
    <3>2. pongs'[Len(pongs)] = pongs[Len(pongs)] - 1
      BY <1>2, <2>4, <3>1
    <3>3. pongs' # <<>>
      BY <2>3, <3>1
    <3> QED BY <2>3, <2>4, <3>1, <3>2, <3>3 DEF PongAhead
  <2> QED BY <2>3, <2>4
<1>3. pongs # <<>> /\ pongs' = Tail(pongs) => pongs' \in Seq(Nat)
  OBVIOUS
<1>4. \A n \in 0..Len(pongs) : SubSeq(pongs, 1, n) \in Seq(Nat)
  BY SubSeqProperties
<1>5. pongs' = <<>> => pongs' \in Seq(Nat)
  OBVIOUS
<1> QED BY <1>1, <1>2, <1>3, <1>4, <1>5

\* No pong is ahead of a timer that has run out.
LEMMA NoneIsAheadOfNow ==
    ASSUME pongs \in Seq(Nat)
    PROVE  ~PongAhead(0)
BY DEF PongAhead

-----------------------------------------------------------------------------
\* The heartbeat of the Dart transport.

LEMMA DartKeepsBeat ==
    ASSUME BeatInv, platform = "dart", UNCHANGED platform, Dart!Next
    PROVE  BeatInv'
<1> USE DEF Dart!Off
<1>1. BeatTypes /\ InTime /\ DartBeat
  BY DEF BeatInv
<1>2. Interval \in Nat \ {0} /\ Timeout \in Nat \ {0} /\ Latency \in Nat /\ Latency < Timeout
  OBVIOUS
<1> SUFFICES BeatTypes' /\ InTime' /\ DartBeat'
  BY DEF BeatInv
<1>3. ASSUME UNCHANGED <<sock, alive, pongs, closed, endedBy, quiet, pingTimer, pongTimer>>
      PROVE  BeatTypes' /\ InTime' /\ DartBeat'
  BY <1>1, <1>3 DEF BeatTypes, InTime, DartBeat, Living, PongAhead
<1>4. ASSUME \/ \E c \in Calls : Dart!Request(c) \/ Dart!Resume(c) \/ Dart!PeerAnswers(c)
             \/ \E r \in replies : Dart!DeliverReply(r)
             , UNCHANGED <<pingTimer, pongTimer>>
      PROVE  UNCHANGED <<sock, alive, pongs, closed, endedBy, quiet, pingTimer, pongTimer>>
  BY <1>4 DEF Dart!Request, Dart!Resume, Dart!Return, Dart!PeerAnswers, Dart!DeliverReply, Dart!flags, Dart!network
<1>5. ASSUME Dart!GoSilent, UNCHANGED <<pingTimer, pongTimer>>
      PROVE  BeatTypes' /\ InTime' /\ DartBeat'
  <2>1. pongs' \in Seq(Nat)
    BY <1>1, <1>5, PongsMove DEF Dart!GoSilent, BeatTypes
  <2> QED BY <1>1, <1>5, <2>1 DEF Dart!GoSilent, Dart!flags, BeatTypes, InTime, DartBeat, Living
<1>6. ASSUME Dart!SocketCloses, UNCHANGED <<pingTimer, pongTimer>>
      PROVE  BeatTypes' /\ InTime' /\ DartBeat'
  <2>1. pongs' \in Seq(Nat)
    BY <1>1, <1>6, PongsMove DEF Dart!SocketCloses, BeatTypes
  <2> QED BY <1>1, <1>6, <2>1 DEF Dart!SocketCloses, Dart!flags, BeatTypes, InTime, DartBeat, Living
<1>7. ASSUME Dart!FirePing
      PROVE  BeatTypes' /\ InTime' /\ DartBeat'
  <2>1. /\ pingTimer = 0 /\ pingTimer' = Interval
        /\ pongTimer' = Timeout \/ (sock # "open" /\ pongTimer' = pongTimer)
        /\ UNCHANGED <<sock, alive, closed, endedBy, quiet>>
        /\ pongs' = IF sock = "open" /\ alive THEN Append(pongs, Latency) ELSE pongs
    BY <1>7 DEF Dart!FirePing, Dart!flags, Dart!WritePing, Dart!Reaches
  <2>2. pongs' \in Seq(Nat) /\ (Living => PongAhead(Timeout)')
    BY <1>1, <1>2, <2>1, PongsMove DEF BeatTypes, Living
  <2>3. BeatTypes' /\ InTime'
    BY <1>1, <2>1, <2>2 DEF BeatTypes, InTime
  <2>4. ~closed /\ sock = "open" /\ Timeout < Interval => quiet <= Interval
    BY <1>1, <1>2, <2>1 DEF DartBeat, BeatTypes
  <2>5. Living' /\ pongTimer' # Off => PongAhead(pongTimer)'
    BY <2>1, <2>2 DEF Living, PongAhead
  <2> QED BY <1>1, <1>2, <2>1, <2>3, <2>4, <2>5 DEF DartBeat, BeatTypes
<1>8. ASSUME Dart!DeliverPong
      PROVE  BeatTypes' /\ InTime' /\ DartBeat'
  <2>1. /\ pongTimer' = Off /\ quiet' = 0 /\ pongs # <<>> /\ pongs' = Tail(pongs) /\ ~closed
        /\ UNCHANGED <<sock, alive, closed, endedBy, pingTimer>>
    BY <1>8 DEF Dart!DeliverPong, Dart!CancelDeadline, Dart!flags
  <2>2. pongs' \in Seq(Nat)
    BY <1>1, <2>1, PongsMove DEF BeatTypes
  <2> QED BY <1>1, <1>2, <2>1, <2>2 DEF BeatTypes, InTime, DartBeat
<1>9. ASSUME NEW who, Dart!OnClose(who), who = "heartbeat" => pongTimer = 0, who \in {"heartbeat", "socket", "app"}
      PROVE  BeatTypes' /\ InTime' /\ DartBeat'
  <2>1. /\ ~closed /\ closed' = TRUE /\ pingTimer' = Off /\ pongTimer' = Off
        /\ endedBy' = IF who = "heartbeat" /\ sock # "open" THEN "socket" ELSE who
        /\ UNCHANGED <<sock, alive, pongs, quiet>>
    BY <1>9 DEF Dart!OnClose, Dart!Cause, Dart!network
  <2>2. endedBy' = "heartbeat" => ~alive
    BY <1>1, <1>9, <2>1, NoneIsAheadOfNow DEF DartBeat, BeatTypes, Living
  <2> QED BY <1>1, <2>1, <2>2 DEF BeatTypes, InTime, DartBeat, Living
<1>10. ASSUME Dart!Tick
       PROVE  BeatTypes' /\ InTime' /\ DartBeat'
  <2>1. /\ ~closed /\ pingTimer # 0 /\ pongTimer # 0
        /\ pongs' = [n \in 1..Len(pongs) |-> IF pongs[n] > 0 THEN pongs[n] - 1 ELSE pongs[n]]
        /\ quiet' = IF quiet <= Interval + Timeout THEN quiet + 1 ELSE quiet
        /\ pingTimer' = IF pingTimer > 0 THEN pingTimer - 1 ELSE pingTimer
        /\ pongTimer' = IF pongTimer > 0 THEN pongTimer - 1 ELSE pongTimer
        /\ UNCHANGED <<sock, alive, closed, endedBy>>
        /\ sock # "closed" /\ (sock = "open" => \A n \in 1..Len(pongs) : pongs[n] > 0)
    BY <1>10 DEF Dart!Tick, Dart!TimePasses, Dart!Less, Dart!flags, Dart!NothingArrives
  <2>2. sock = "open" /\ pongs \in Seq(Nat) /\ quiet \in Nat
    BY <1>1, <2>1 DEF BeatTypes, DartBeat
  <2>3. pongs' \in Seq(Nat) /\ \A n \in Int : PongAhead(n) => PongAhead(n - 1)'
    BY <2>1, <2>2, PongsMove
  <2>4. pongTimer # Off => pongTimer \in Nat /\ pongTimer > 0 /\ pongTimer' = pongTimer - 1
    BY <1>1, <2>1 DEF DartBeat
  <2>5. pongTimer = Off => pongTimer' = Off
    BY <2>1
  <2>6. pingTimer \in 1..Interval /\ pingTimer' = pingTimer - 1
    BY <1>1, <1>2, <2>1 DEF DartBeat
  <2>7. Living' /\ pongTimer' # Off => PongAhead(pongTimer)'
    <3> SUFFICES ASSUME Living', pongTimer' # Off PROVE PongAhead(pongTimer)'
      OBVIOUS
    <3>1. PongAhead(pongTimer)
      BY <1>1, <2>1, <2>5 DEF DartBeat, Living
    <3>2. PICK n \in Nat : n = pongTimer
      BY <2>4, <2>5
    <3>3. PongAhead(n) /\ pongTimer' = n - 1
      BY <2>4, <2>5, <3>1, <3>2
    <3>4. PongAhead(n - 1)'
      BY <2>3, <3>3
    <3> QED BY <3>3, <3>4 DEF PongAhead
  <2>8. BeatTypes'
    BY <1>1, <2>1, <2>2, <2>3 DEF BeatTypes
  <2>9. InTime'
    BY <1>1, <1>2, <2>1, <2>2, <2>4, <2>6 DEF InTime, DartBeat
  <2>10. DartBeat'
    BY <1>1, <1>2, <2>1, <2>2, <2>4, <2>5, <2>6, <2>7 DEF DartBeat
  <2> QED BY <2>8, <2>9, <2>10
<1>11. ASSUME Dart!FireDeadline \/ Dart!StreamDone \/ Dart!Close
       PROVE  BeatTypes' /\ InTime' /\ DartBeat'
  BY <1>9, <1>11 DEF Dart!FireDeadline, Dart!StreamDone, Dart!Close
<1>12. ASSUME Dart!Peer, UNCHANGED <<pingTimer, pongTimer>>
       PROVE  BeatTypes' /\ InTime' /\ DartBeat'
  BY <1>3, <1>4, <1>5, <1>6, <1>12 DEF Dart!Peer
<1>13. ASSUME \/ \E c \in Calls : Dart!Request(c) \/ Dart!Resume(c)
              \/ \E r \in replies : Dart!DeliverReply(r)
       PROVE  UNCHANGED <<pingTimer, pongTimer>>
  BY <1>13 DEF Dart!Request, Dart!Resume, Dart!DeliverReply, Dart!timers
<1> QED BY <1>3, <1>4, <1>7, <1>8, <1>10, <1>11, <1>12, <1>13 DEF Dart!Next, Dart!timers

-----------------------------------------------------------------------------
\* The heartbeat of the Swift transport.

\* The stream holds a pong.
PongRead == \E n \in DOMAIN stream : stream[n].kind = "pong"

LEMMA PongStaysRead ==
    ASSUME stream \in Seq(Frames), PongRead,
           \/ UNCHANGED stream
           \/ \E f \in Frames : stream' = Append(stream, f)
           \/ stream # <<>> /\ Head(stream).kind # "pong" /\ stream' = Tail(stream)
    PROVE  PongRead'
<1>1. PICK n \in DOMAIN stream : stream[n].kind = "pong"
  BY DEF PongRead
<1>2. ASSUME NEW f \in Frames, stream' = Append(stream, f)
      PROVE  PongRead'
  <2>1. n \in DOMAIN stream' /\ stream'[n] = stream[n]
    BY <1>2
  <2> QED BY <1>1, <2>1 DEF PongRead
<1>3. ASSUME stream # <<>>, Head(stream).kind # "pong", stream' = Tail(stream)
      PROVE  PongRead'
  <2>1. n # 1
    BY <1>1, <1>3
  <2>2. n - 1 \in DOMAIN stream' /\ stream'[n - 1] = stream[n]
    BY <1>1, <1>3, <2>1
  <2> QED BY <1>1, <2>2 DEF PongRead
<1> QED BY <1>2, <1>3 DEF PongRead

LEMMA SwiftKeepsBeat ==
    ASSUME BeatInv, CallsInv, platform = "swift", UNCHANGED platform, Swift!Next
    PROVE  BeatInv'
<1> USE DEF Swift!Off
<1>1. BeatTypes /\ InTime /\ SwiftBeat /\ stream \in Seq(Frames)
  BY DEF BeatInv, CallsInv, SwiftCalls
<1>2. Interval \in Nat \ {0} /\ Timeout \in Nat \ {0} /\ Latency \in Nat /\ Latency < Timeout
  OBVIOUS
<1> SUFFICES BeatTypes' /\ InTime' /\ SwiftBeat'
  BY DEF BeatInv
<1>3. SwiftBeat <=>
        /\ sock = "closing" => closed
        /\ started \in BOOLEAN /\ finished \in BOOLEAN
        /\ finished => closed \/ sock # "open"
        /\ pingTask \in Nat \cup {Off} /\ deadlineTask \in Nat \cup {Off}
        /\ pingsAwake \in Nat /\ deadlinesAwake \in Nat
        /\ Living => deadlinesAwake = 0
        /\ Living /\ deadlineTask # Off => deadlineTask > 0 /\ (PongAhead(deadlineTask) \/ PongRead)
        /\ ~closed =>
            /\ ~started => quiet = 0
            /\ started => pingTask # Off \/ pingsAwake > 0 \/ deadlineTask # Off \/ deadlinesAwake > 0
            /\ pingTask # Off => pingTask + quiet <= Interval
            /\ pingsAwake > 0 => quiet <= Interval
            /\ deadlineTask # Off => deadlineTask + quiet <= Interval + Timeout
            /\ quiet <= Interval + Timeout
  BY DEF SwiftBeat, PongRead
<1>4. SwiftBeat' <=>
        /\ sock' = "closing" => closed'
        /\ started' \in BOOLEAN /\ finished' \in BOOLEAN
        /\ finished' => closed' \/ sock' # "open"
        /\ pingTask' \in Nat \cup {Off} /\ deadlineTask' \in Nat \cup {Off}
        /\ pingsAwake' \in Nat /\ deadlinesAwake' \in Nat
        /\ Living' => deadlinesAwake' = 0
        /\ Living' /\ deadlineTask' # Off => deadlineTask' > 0 /\ (PongAhead(deadlineTask)' \/ PongRead')
        /\ ~closed' =>
            /\ ~started' => quiet' = 0
            /\ started' => pingTask' # Off \/ pingsAwake' > 0 \/ deadlineTask' # Off \/ deadlinesAwake' > 0
            /\ pingTask' # Off => pingTask' + quiet' <= Interval
            /\ pingsAwake' > 0 => quiet' <= Interval
            /\ deadlineTask' # Off => deadlineTask' + quiet' <= Interval + Timeout
            /\ quiet' <= Interval + Timeout
  BY DEF SwiftBeat, PongRead
\* A step that leaves the heartbeat as it is, and a pong in the stream there.
<1>5. ASSUME UNCHANGED <<sock, alive, pongs, closed, endedBy, quiet, started, finished,
                         pingTask, pingsAwake, deadlineTask, deadlinesAwake>>,
             PongRead => PongRead'
      PROVE  BeatTypes' /\ InTime' /\ SwiftBeat'
  <2>1. BeatTypes' /\ InTime' /\ Living' = Living /\ (PongAhead(deadlineTask) => PongAhead(deadlineTask)')
    BY <1>1, <1>5 DEF BeatTypes, InTime, Living, PongAhead
  <2> QED BY <1>1, <1>3, <1>4, <1>5, <2>1
<1>6. ASSUME \E c \in Calls : Swift!Invoke(c) \/ Swift!Correlate(c) \/ Swift!Resume(c)
      PROVE  BeatTypes' /\ InTime' /\ SwiftBeat'
  <2>1. UNCHANGED <<sock, alive, pongs, closed, endedBy, quiet, started, finished, stream,
                    pingTask, pingsAwake, deadlineTask, deadlinesAwake>>
    BY <1>6 DEF Swift!Invoke, Swift!Correlate, Swift!Resume, Swift!Return, Swift!network, Swift!flags, Swift!inbound, Swift!tasks
  <2> QED BY <1>5, <2>1 DEF PongRead
<1>7. ASSUME NEW r \in replies, Swift!ReceiveReply(r)
      PROVE  BeatTypes' /\ InTime' /\ SwiftBeat'
  <2> DEFINE f == [kind |-> "reply", id |-> r.id, body |-> r.body]
  <2>1. UNCHANGED <<sock, alive, pongs, closed, endedBy, quiet, started, finished,
                    pingTask, pingsAwake, deadlineTask, deadlinesAwake>>
        /\ stream' \in {stream, Append(stream, f)}
    BY <1>7 DEF Swift!ReceiveReply, Swift!Yield, Swift!flags, Swift!tasks
  <2>2. f \in Frames
    BY <1>7 DEF Frames, CallsInv, Correlated
  <2>3. PongRead => PongRead'
    BY <1>1, <2>1, <2>2, PongStaysRead
  <2> QED BY <1>5, <2>1, <2>3
<1>8. ASSUME Swift!HandleReply
      PROVE  BeatTypes' /\ InTime' /\ SwiftBeat'
  <2>1. UNCHANGED <<sock, alive, pongs, closed, endedBy, quiet, started, finished,
                    pingTask, pingsAwake, deadlineTask, deadlinesAwake>>
        /\ stream # <<>> /\ Head(stream).kind # "pong" /\ stream' = Tail(stream)
    BY <1>8 DEF Swift!HandleReply, Swift!network, Swift!flags, Swift!tasks
  <2>2. PongRead => PongRead'
    BY <1>1, <2>1, PongStaysRead
  <2> QED BY <1>5, <2>1, <2>2
<1>9. ASSUME Swift!Peer, UNCHANGED <<started, entering, Swift!inbound, Swift!tasks>>
      PROVE  BeatTypes' /\ InTime' /\ SwiftBeat'
  <2>1. UNCHANGED <<closed, endedBy, quiet, started, stream, finished, pingTask, pingsAwake, deadlineTask, deadlinesAwake>>
    BY <1>9 DEF Swift!Peer, Swift!GoSilent, Swift!SocketCloses, Swift!PeerAnswers, Swift!flags, Swift!inbound, Swift!tasks
  <2>2. \/ UNCHANGED <<sock, alive, pongs>>
        \/ alive' = FALSE /\ ~closed /\ sock' = sock /\ pongs' \in Seq(Nat)
        \/ sock' = "closed" /\ alive' = alive /\ pongs' \in Seq(Nat)
    BY <1>1, <1>9, PongsMove DEF Swift!Peer, Swift!GoSilent, Swift!SocketCloses, Swift!PeerAnswers, BeatTypes
  <2>3. CASE UNCHANGED <<sock, alive, pongs>>
    BY <1>5, <2>1, <2>3 DEF PongRead
  <2>4. CASE alive' = FALSE /\ ~closed /\ sock' = sock /\ pongs' \in Seq(Nat)
    <3>1. BeatTypes' /\ InTime' /\ ~Living'
      BY <1>1, <2>1, <2>4 DEF BeatTypes, InTime, Living
    <3> QED BY <1>1, <1>3, <1>4, <2>1, <2>4, <3>1
  <2>5. CASE sock' = "closed" /\ alive' = alive /\ pongs' \in Seq(Nat)
    <3>1. BeatTypes' /\ InTime' /\ ~Living'
      BY <1>1, <2>1, <2>5 DEF BeatTypes, InTime, Living
    <3> QED BY <1>1, <1>3, <1>4, <2>1, <2>5, <3>1
  <2> QED BY <2>2, <2>3, <2>4, <2>5
<1>10. ASSUME Swift!Start
       PROVE  BeatTypes' /\ InTime' /\ SwiftBeat'
  <2>1. /\ ~started /\ started' = TRUE /\ pingTask' = Interval
        /\ UNCHANGED <<sock, alive, pongs, closed, endedBy, quiet, stream, finished, pingsAwake, deadlineTask, deadlinesAwake>>
    BY <1>10 DEF Swift!Start, Swift!SchedulePing, Swift!shared, Swift!network, Swift!flags, Swift!inbound
  <2>2. BeatTypes' /\ InTime' /\ Living' = Living /\ PongRead' = PongRead /\ (PongAhead(deadlineTask) => PongAhead(deadlineTask)')
    BY <1>1, <2>1 DEF BeatTypes, InTime, Living, PongAhead, PongRead
  <2> QED BY <1>1, <1>2, <1>3, <1>4, <2>1, <2>2
\* A step that closes: the socket may be closed with it.
<1>11. ASSUME NEW who \in {"app", "socket", "heartbeat"}, Swift!HandleClose(who),
              who = "heartbeat" /\ sock = "open" /\ ~closed => ~alive,
              closed' \/ UNCHANGED <<sock>>,
              sock' \in {sock, "closing"},
              UNCHANGED <<alive, pongs, quiet, started, stream, pingsAwake>>,
              deadlinesAwake' \in Nat
       PROVE  BeatTypes' /\ InTime' /\ SwiftBeat'
  <2>1. CASE closed
    <3>1. UNCHANGED <<closed, endedBy, pingTask, deadlineTask, finished>>
      BY <1>11, <2>1 DEF Swift!HandleClose, Swift!flags
    <3>2. BeatTypes' /\ InTime' /\ ~Living'
      BY <1>1, <1>11, <2>1, <3>1 DEF BeatTypes, InTime, Living
    <3> QED BY <1>1, <1>3, <1>4, <1>11, <2>1, <3>1, <3>2
  <2>2. CASE ~closed
    <3>1. /\ closed' = TRUE /\ pingTask' = Off /\ deadlineTask' = Off /\ finished' = TRUE
          /\ endedBy' = IF who = "heartbeat" /\ sock # "open" THEN "socket" ELSE who
      BY <1>11, <2>2 DEF Swift!HandleClose, Swift!Cause
    <3>2. BeatTypes' /\ InTime' /\ ~Living'
      BY <1>1, <1>11, <2>2, <3>1 DEF BeatTypes, InTime, Living
    <3> QED BY <1>1, <1>3, <1>4, <1>11, <3>1, <3>2
  <2> QED BY <2>1, <2>2
<1>12. Swift!CloseSocket => sock' \in {sock, "closing"}
  BY DEF Swift!CloseSocket
<1>13. \A who : Swift!HandleClose(who) => closed'
  BY <1>1 DEF Swift!HandleClose, Swift!flags, BeatTypes
<1>14. ASSUME Swift!Close
       PROVE  BeatTypes' /\ InTime' /\ SwiftBeat'
  <2>1. /\ Swift!CloseSocket /\ Swift!HandleClose("app")
        /\ UNCHANGED <<alive, pongs, quiet, started, stream, pingsAwake, deadlinesAwake>>
    BY <1>14 DEF Swift!Close
  <2>2. deadlinesAwake' \in Nat
    BY <1>1, <1>3, <2>1
  <2> QED BY <1>11, <1>12, <1>13, <2>1, <2>2
<1>15. ASSUME Swift!StreamEnds
       PROVE  BeatTypes' /\ InTime' /\ SwiftBeat'
  <2>1. /\ Swift!HandleClose("socket")
        /\ UNCHANGED <<sock, alive, pongs, quiet, started, stream, pingsAwake, deadlinesAwake>>
    BY <1>15 DEF Swift!StreamEnds, Swift!network
  <2>2. deadlinesAwake' \in Nat
    BY <1>1, <1>3, <2>1
  <2> QED BY <1>11, <2>1, <2>2
<1>16. ASSUME Swift!PongMissed
       PROVE  BeatTypes' /\ InTime' /\ SwiftBeat'
  <2>1. /\ deadlinesAwake > 0 /\ deadlinesAwake' = deadlinesAwake - 1
        /\ UNCHANGED <<alive, pongs, quiet, started, stream, pingsAwake>>
    BY <1>16 DEF Swift!PongMissed
  <2>2. deadlinesAwake' \in Nat /\ (sock = "open" /\ ~closed => ~alive)
    BY <1>1, <1>3, <2>1 DEF Living
  <2>3. CASE closed
    <3>1. Swift!HandleClose("heartbeat") /\ UNCHANGED sock
      BY <1>16, <2>3 DEF Swift!PongMissed, Swift!HandleClose
    <3> QED BY <1>11, <2>1, <2>2, <3>1
  <2>4. CASE ~closed
    <3>1. Swift!HandleClose("heartbeat") /\ Swift!CloseSocket
      BY <1>16, <2>4 DEF Swift!PongMissed
    <3> QED BY <1>11, <1>12, <1>13, <2>1, <2>2, <3>1
  <2> QED BY <2>3, <2>4
<1>17. ASSUME Swift!FinishStream
       PROVE  BeatTypes' /\ InTime' /\ SwiftBeat'
  <2>1. /\ sock = "closed" /\ finished' = TRUE
        /\ UNCHANGED <<sock, alive, pongs, closed, endedBy, quiet, started, stream, pingTask, pingsAwake, deadlineTask, deadlinesAwake>>
    BY <1>17 DEF Swift!FinishStream, Swift!shared, Swift!network, Swift!flags, Swift!tasks
  <2>2. BeatTypes' /\ InTime' /\ ~Living'
    BY <1>1, <2>1 DEF BeatTypes, InTime, Living
  <2> QED BY <1>1, <1>3, <1>4, <2>1, <2>2
<1>18. ASSUME Swift!PingWakes \/ Swift!DeadlineWakes
       PROVE  BeatTypes' /\ InTime' /\ SwiftBeat'
  <2>1. /\ UNCHANGED <<sock, alive, pongs, closed, endedBy, quiet, started, stream, finished>>
        /\ \/ /\ pingTask = 0 /\ pingTask' = Off /\ pingsAwake' = pingsAwake + 1
              /\ UNCHANGED <<deadlineTask, deadlinesAwake>>
           \/ /\ deadlineTask = 0 /\ deadlineTask' = Off /\ deadlinesAwake' = deadlinesAwake + 1
              /\ UNCHANGED <<pingTask, pingsAwake>>
    BY <1>18 DEF Swift!PingWakes, Swift!DeadlineWakes, Swift!shared, Swift!network, Swift!flags, Swift!inbound
  <2>2. BeatTypes' /\ InTime' /\ Living' = Living /\ PongRead' = PongRead
        /\ (UNCHANGED deadlineTask /\ PongAhead(deadlineTask) => PongAhead(deadlineTask)')
    BY <1>1, <2>1 DEF BeatTypes, InTime, Living, PongAhead, PongRead
  <2>3. CASE pingTask = 0 /\ pingTask' = Off /\ pingsAwake' = pingsAwake + 1 /\ UNCHANGED <<deadlineTask, deadlinesAwake>>
    BY <1>1, <1>2, <1>3, <1>4, <2>1, <2>2, <2>3 DEF BeatTypes
  <2>4. CASE deadlineTask = 0 /\ deadlineTask' = Off /\ deadlinesAwake' = deadlinesAwake + 1 /\ UNCHANGED <<pingTask, pingsAwake>>
    <3>1. ~Living
      BY <1>1, <1>3, <2>4
    <3> QED BY <1>1, <1>2, <1>3, <1>4, <2>1, <2>2, <2>4, <3>1
  <2> QED BY <2>1, <2>3, <2>4
<1>19. ASSUME Swift!SendPing
       PROVE  BeatTypes' /\ InTime' /\ SwiftBeat'
  <2>1. /\ pingsAwake > 0 /\ pingsAwake' = pingsAwake - 1
        /\ UNCHANGED <<sock, alive, closed, endedBy, quiet, started, stream, finished, pingTask, deadlinesAwake>>
        /\ \/ closed /\ UNCHANGED <<pongs, deadlineTask>>
           \/ /\ ~closed /\ deadlineTask' = Timeout
              /\ pongs' = IF sock = "open" /\ alive THEN Append(pongs, Latency) ELSE pongs
    BY <1>19 DEF Swift!SendPing, Swift!WritePing, Swift!Reaches, Swift!flags, Swift!inbound
  <2>2. pongs' \in Seq(Nat) /\ (Living => PongAhead(Timeout)')
    <3>1. pongs \in Seq(Nat)
      BY <1>1 DEF BeatTypes
    <3>2. Living => pongs' = Append(pongs, Latency)
      BY <2>1 DEF Living
    <3>3. pongs' = pongs \/ pongs' = Append(pongs, Latency)
      BY <2>1
    <3>4. Timeout \in Int
      BY <1>2
    <3>5. pongs' = Append(pongs, Latency) => pongs' \in Seq(Nat) /\ PongAhead(Timeout)'
      BY <1>2, <3>1, <3>4, PongsMove
    <3> QED BY <3>1, <3>2, <3>3, <3>5
  <2>3. BeatTypes' /\ InTime' /\ Living' = Living
    BY <1>1, <2>1, <2>2 DEF BeatTypes, InTime, Living
  <2>4. Living' /\ deadlineTask' # Off => deadlineTask' > 0 /\ PongAhead(deadlineTask)'
    BY <1>2, <2>1, <2>2, <2>3 DEF Living, PongAhead
  <2>5. CASE closed
    BY <1>1, <1>3, <1>4, <2>1, <2>3, <2>4, <2>5
  <2>6. CASE ~closed
    BY <1>1, <1>2, <1>3, <1>4, <2>1, <2>3, <2>4, <2>6 DEF BeatTypes
  <2> QED BY <2>5, <2>6
<1>20. ASSUME Swift!ReceivePong
       PROVE  BeatTypes' /\ InTime' /\ SwiftBeat'
  <2>1. /\ pongs # <<>> /\ pongs' = Tail(pongs)
        /\ stream' = IF finished THEN stream ELSE Append(stream, [kind |-> "pong"])
        /\ UNCHANGED <<sock, alive, closed, endedBy, quiet, started, finished, pingTask, pingsAwake, deadlineTask, deadlinesAwake>>
    BY <1>20 DEF Swift!ReceivePong, Swift!Yield, Swift!flags, Swift!tasks
  <2>2. pongs' \in Seq(Nat)
    BY <1>1, <2>1, PongsMove DEF BeatTypes
  <2>3. BeatTypes' /\ InTime' /\ Living' = Living
    BY <1>1, <2>1, <2>2 DEF BeatTypes, InTime, Living
  <2>4. ASSUME Living PROVE PongRead'
    <3>1. ~finished
      BY <1>1, <1>3, <2>4 DEF Living
    <3>2. Len(stream) + 1 \in DOMAIN stream' /\ stream'[Len(stream) + 1] = [kind |-> "pong"]
      BY <1>1, <2>1, <3>1
    <3> QED BY <3>2 DEF PongRead
  <2> QED BY <1>1, <1>3, <1>4, <2>1, <2>3, <2>4
<1>21. ASSUME Swift!HandlePong
       PROVE  BeatTypes' /\ InTime' /\ SwiftBeat'
  <2>1. /\ deadlineTask' = Off /\ pingTask' = Interval /\ quiet' = 0
        /\ UNCHANGED <<sock, alive, pongs, closed, endedBy, started, finished, pingsAwake, deadlinesAwake>>
    BY <1>21 DEF Swift!HandlePong, Swift!OnPong, Swift!SchedulePing, Swift!network, Swift!flags
  <2>2. BeatTypes' /\ InTime' /\ Living' = Living
    BY <1>1, <1>2, <2>1 DEF BeatTypes, InTime, Living
  <2> QED BY <1>1, <1>2, <1>3, <1>4, <2>1, <2>2
<1>22. ASSUME Swift!Tick
       PROVE  BeatTypes' /\ InTime' /\ SwiftBeat'
  <2>1. /\ ~closed /\ started /\ pingTask # 0 /\ deadlineTask # 0 /\ pingsAwake = 0 /\ deadlinesAwake = 0 /\ stream = <<>>
        /\ pongs' = [n \in 1..Len(pongs) |-> IF pongs[n] > 0 THEN pongs[n] - 1 ELSE pongs[n]]
        /\ quiet' = IF quiet <= Interval + Timeout THEN quiet + 1 ELSE quiet
        /\ pingTask' = IF pingTask > 0 THEN pingTask - 1 ELSE pingTask
        /\ deadlineTask' = IF deadlineTask > 0 THEN deadlineTask - 1 ELSE deadlineTask
        /\ UNCHANGED <<sock, alive, closed, endedBy, started, finished, pingsAwake, deadlinesAwake>>
        /\ sock # "closed" /\ (sock = "open" => \A n \in 1..Len(pongs) : pongs[n] > 0)
    <3>1. /\ Swift!NothingArrives /\ Swift!TimePasses
          /\ started /\ pingTask # 0 /\ deadlineTask # 0 /\ pingsAwake = 0 /\ deadlinesAwake = 0 /\ stream = <<>>
          /\ pingTask' = Swift!Less(pingTask) /\ deadlineTask' = Swift!Less(deadlineTask)
          /\ UNCHANGED <<started, finished, pingsAwake, deadlinesAwake>>
      BY <1>22 DEF Swift!Tick, Swift!Rests, Swift!inbound
    <3>2. /\ ~closed /\ UNCHANGED <<sock, alive, closed, endedBy>>
          /\ pongs' = [n \in 1..Len(pongs) |-> IF pongs[n] > 0 THEN pongs[n] - 1 ELSE pongs[n]]
          /\ quiet' = IF quiet <= Interval + Timeout THEN quiet + 1 ELSE quiet
      BY <3>1 DEF Swift!TimePasses, Swift!Less, Swift!flags
    <3>3. sock # "closed" /\ (sock = "open" => \A n \in 1..Len(pongs) : pongs[n] > 0)
      BY <3>1, <3>2 DEF Swift!NothingArrives
    <3> QED BY <3>1, <3>2, <3>3 DEF Swift!Less
  <2>2. sock = "open" /\ pongs \in Seq(Nat) /\ quiet \in Nat
    BY <1>1, <1>3, <2>1 DEF BeatTypes
  <2>3. pongs' \in Seq(Nat) /\ \A n \in Int : PongAhead(n) => PongAhead(n - 1)'
    BY <2>1, <2>2, PongsMove
  <2>4. /\ deadlineTask # Off => deadlineTask \in Nat /\ deadlineTask > 0 /\ deadlineTask' = deadlineTask - 1
        /\ deadlineTask = Off => deadlineTask' = Off
        /\ pingTask # Off => pingTask \in Nat /\ pingTask > 0 /\ pingTask' = pingTask - 1
        /\ pingTask = Off => pingTask' = Off
    BY <1>1, <1>3, <2>1
  <2>5. Living' /\ deadlineTask' # Off => deadlineTask' > 0 /\ PongAhead(deadlineTask)'
    <3> SUFFICES ASSUME Living', deadlineTask' # Off PROVE deadlineTask' > 0 /\ PongAhead(deadlineTask)'
      OBVIOUS
    <3>1. PongAhead(deadlineTask)
      BY <1>1, <1>3, <2>1, <2>4 DEF Living, PongRead
    <3>2. PICK n \in Nat : n = deadlineTask
      BY <2>4
    <3>3. PongAhead(n) /\ deadlineTask' = n - 1
      BY <2>4, <3>1, <3>2
    <3>4. PongAhead(n - 1)'
      BY <2>3, <3>3
    <3>5. n - 1 > 0
      <4>1. Len(pongs') \in 1..Len(pongs') /\ pongs'[Len(pongs')] \in Nat
        BY <2>3, <3>4 DEF PongAhead
      <4> QED BY <3>4, <4>1 DEF PongAhead
    <3> QED BY <3>3, <3>4, <3>5 DEF PongAhead
  <2>6. quiet' = quiet + 1 /\ quiet' <= Interval + Timeout
    BY <1>1, <1>2, <1>3, <2>1, <2>2, <2>4
  <2>7. BeatTypes' /\ InTime'
    BY <1>1, <1>2, <2>1, <2>2, <2>3, <2>6 DEF BeatTypes, InTime
  <2> QED BY <1>1, <1>2, <1>3, <1>4, <2>1, <2>2, <2>4, <2>5, <2>6, <2>7
<1> QED BY <1>6, <1>7, <1>8, <1>9, <1>10, <1>14, <1>15, <1>16, <1>17, <1>18, <1>19, <1>20, <1>21, <1>22
        DEF Swift!Next, Swift!Scheduled

-----------------------------------------------------------------------------
\* The heartbeat of the Kotlin transport.

LEMMA KotlinKeepsBeat ==
    ASSUME BeatInv, platform = "kotlin", UNCHANGED platform, Kotlin!Next
    PROVE  BeatInv'
<1> USE DEF Kotlin!Off
<1>1. BeatTypes /\ InTime /\ KotlinTypes /\ KotlinOpen /\ KotlinWatched /\ KotlinAhead /\ KotlinFindsOut
  BY DEF BeatInv, KotlinBeat
<1>2. /\ Interval \in Nat \ {0} /\ Timeout \in Nat \ {0} /\ Latency \in Nat /\ Latency < Timeout
      /\ Nobody \notin Watchers /\ "app" \notin Watchers /\ "socket" \notin Watchers
  OBVIOUS
<1> SUFFICES BeatTypes' /\ InTime' /\ KotlinBeat'
  BY DEF BeatInv
\* A step that leaves the heartbeat as it is, and the pong the reader holds.
<1>3. ASSUME UNCHANGED <<sock, alive, pongs, closed, endedBy, quiet, loop, watcher, pongJob, closing, scope>>,
             \/ UNCHANGED reader
             \/ reader.frame # "pong" /\ (reader' = [frame |-> "none"] \/ reader'.frame = "reply")
      PROVE  BeatTypes' /\ InTime' /\ KotlinBeat'
  <2>1. BeatTypes' /\ InTime' /\ KotlinTypes' /\ KotlinOpen'
    BY <1>1, <1>3 DEF BeatTypes, InTime, KotlinTypes, KotlinOpen
  <2>2. KotlinWatched'
    BY <1>1, <1>3 DEF KotlinWatched
  <2>3. KotlinAhead' /\ KotlinFindsOut'
    BY <1>1, <1>3 DEF KotlinAhead, KotlinFindsOut, Living, PongAhead
  <2> QED BY <2>1, <2>2, <2>3 DEF KotlinBeat
<1>4. ASSUME \/ \E c \in Calls : Kotlin!Enter(c) \/ Kotlin!SendRequest(c) \/ Kotlin!Await(c)
             \/ \E r \in replies : Kotlin!TakeReply(r)
             \/ Kotlin!CompleteReply
      PROVE  BeatTypes' /\ InTime' /\ KotlinBeat'
  <2>1. UNCHANGED <<sock, alive, pongs, closed, endedBy, quiet, loop, watcher, pongJob, closing, scope>>
    BY <1>4 DEF Kotlin!Enter, Kotlin!SendRequest, Kotlin!Await, Kotlin!Return, Kotlin!TakeReply, Kotlin!CompleteReply,
                Kotlin!network, Kotlin!flags, Kotlin!beat, Kotlin!closers
  <2>2. \/ UNCHANGED reader
        \/ reader.frame # "pong" /\ (reader' = [frame |-> "none"] \/ reader'.frame = "reply")
    BY <1>4 DEF Kotlin!Enter, Kotlin!SendRequest, Kotlin!Await, Kotlin!TakeReply, Kotlin!CompleteReply,
                Kotlin!Listens, Kotlin!NoFrame
  <2> QED BY <1>3, <2>1, <2>2
<1>5. ASSUME Kotlin!Peer, UNCHANGED <<caller, reader, Kotlin!beat, Kotlin!closers>>
      PROVE  BeatTypes' /\ InTime' /\ KotlinBeat'
  <2>1. UNCHANGED <<closed, endedBy, quiet, loop, watcher, pongJob, closing, scope, reader>>
    BY <1>5 DEF Kotlin!Peer, Kotlin!GoSilent, Kotlin!SocketCloses, Kotlin!PeerAnswers, Kotlin!flags, Kotlin!beat, Kotlin!closers
  <2>2. \/ UNCHANGED <<sock, alive, pongs>>
        \/ alive' = FALSE /\ ~closed /\ sock' = sock /\ pongs' \in Seq(Nat)
        \/ sock' = "closed" /\ alive' = alive /\ pongs' \in Seq(Nat)
    BY <1>1, <1>5, PongsMove DEF Kotlin!Peer, Kotlin!GoSilent, Kotlin!SocketCloses, Kotlin!PeerAnswers, BeatTypes
  <2>3. CASE UNCHANGED <<sock, alive, pongs>>
    BY <1>3, <2>1, <2>3
  <2>4. KotlinTypes' /\ KotlinWatched'
    BY <1>1, <2>1 DEF KotlinTypes, KotlinWatched
  <2>5. CASE alive' = FALSE /\ ~closed /\ sock' = sock /\ pongs' \in Seq(Nat)
    <3>1. BeatTypes' /\ InTime' /\ KotlinAhead'
      BY <1>1, <2>1, <2>5 DEF BeatTypes, InTime, KotlinAhead, Living
    <3>2. KotlinOpen' /\ KotlinFindsOut'
      BY <1>1, <2>1, <2>5 DEF KotlinOpen, KotlinFindsOut
    <3> QED BY <2>4, <3>1, <3>2 DEF KotlinBeat
  <2>6. CASE sock' = "closed" /\ alive' = alive /\ pongs' \in Seq(Nat)
    <3>1. BeatTypes' /\ InTime' /\ KotlinAhead'
      BY <1>1, <2>1, <2>6 DEF BeatTypes, InTime, KotlinAhead, Living
    <3>2. KotlinOpen' /\ KotlinFindsOut'
      BY <1>1, <2>1, <2>6 DEF KotlinOpen, KotlinFindsOut
    <3> QED BY <2>4, <3>1, <3>2 DEF KotlinBeat
  <2> QED BY <2>2, <2>3, <2>5, <2>6
<1>6. ASSUME Kotlin!TakePong
      PROVE  BeatTypes' /\ InTime' /\ KotlinBeat'
  <2>1. /\ pongs # <<>> /\ pongs' = Tail(pongs) /\ quiet' = 0 /\ reader = [frame |-> "none"]
        /\ reader' = IF pongJob = Nobody THEN [frame |-> "none"] ELSE [frame |-> "pong", watcher |-> pongJob]
        /\ pongJob' = Nobody
        /\ UNCHANGED <<sock, alive, closed, endedBy, loop, watcher, closing, scope>>
    BY <1>6 DEF Kotlin!TakePong, Kotlin!Listens, Kotlin!NoFrame, Kotlin!flags, Kotlin!closers
  <2>2. pongs' \in Seq(Nat)
    BY <1>1, <2>1, PongsMove DEF BeatTypes
  <2>3. BeatTypes' /\ InTime'
    BY <1>1, <1>2, <2>1, <2>2 DEF BeatTypes, InTime
  <2>4. KotlinTypes' /\ KotlinOpen'
    BY <1>1, <2>1 DEF KotlinTypes, KotlinOpen
  <2>5. KotlinWatched'
    BY <1>1, <1>2, <2>1 DEF KotlinTypes, KotlinWatched
  <2>6. KotlinAhead' /\ KotlinFindsOut'
    BY <1>1, <1>2, <2>1 DEF KotlinTypes, KotlinAhead, KotlinFindsOut, Living
  <2> QED BY <2>3, <2>4, <2>5, <2>6 DEF KotlinBeat
<1>7. ASSUME Kotlin!CancelWatcher
      PROVE  BeatTypes' /\ InTime' /\ KotlinBeat'
  <2>1. PICK w \in Watchers : reader = [frame |-> "pong", watcher |-> w] /\ w # pongJob
    BY <1>1, <1>7 DEF Kotlin!CancelWatcher, KotlinTypes, KotlinWatched
  <2>2. /\ watcher' = [watcher EXCEPT ![w] = Off] /\ reader' = [frame |-> "none"]
        /\ UNCHANGED <<sock, alive, pongs, closed, endedBy, quiet, loop, pongJob, closing, scope>>
    BY <1>7, <2>1 DEF Kotlin!CancelWatcher, Kotlin!NoFrame, Kotlin!shared, Kotlin!network, Kotlin!flags, Kotlin!closers
  <2>3. \A v \in Watchers : watcher'[v] = IF v = w THEN Off ELSE watcher[v]
    BY <1>1, <2>2 DEF KotlinTypes
  <2>4. BeatTypes' /\ InTime' /\ KotlinTypes' /\ KotlinOpen'
    BY <1>1, <2>2 DEF BeatTypes, InTime, KotlinTypes, KotlinOpen
  <2>5. KotlinWatched'
    BY <1>1, <2>1, <2>2, <2>3 DEF KotlinWatched
  <2>6. KotlinAhead'
    BY <1>1, <2>1, <2>2, <2>3 DEF KotlinTypes, KotlinAhead, Living, PongAhead
  <2>7. KotlinFindsOut'
    BY <1>1, <2>1, <2>2, <2>3 DEF KotlinTypes, KotlinFindsOut
  <2> QED BY <2>4, <2>5, <2>6, <2>7 DEF KotlinBeat
<1>8. ASSUME Kotlin!Arm
      PROVE  BeatTypes' /\ InTime' /\ KotlinBeat'
  <2>1. PICK w \in Watchers :
            /\ watcher[w] = Off /\ w # pongJob /\ reader # [frame |-> "pong", watcher |-> w]
            /\ pongJob' = w /\ watcher' = [watcher EXCEPT ![w] = Timeout]
    BY <1>8 DEF Kotlin!Arm, Kotlin!Free
  <2>2. /\ loop = [at |-> "delay", left |-> 0] /\ loop' = [at |-> "armed", previous |-> pongJob]
        /\ UNCHANGED <<sock, alive, pongs, closed, endedBy, quiet, reader, closing, scope>>
    BY <1>8 DEF Kotlin!Arm, Kotlin!Delay, Kotlin!Armed, Kotlin!shared, Kotlin!network, Kotlin!flags, Kotlin!closers
  <2>3. \A v \in Watchers : watcher'[v] = IF v = w THEN Timeout ELSE watcher[v]
    BY <1>1, <2>1 DEF KotlinTypes
  <2>4. BeatTypes' /\ InTime' /\ KotlinTypes' /\ KotlinOpen'
    BY <1>1, <1>2, <2>1, <2>2 DEF BeatTypes, InTime, KotlinTypes, KotlinOpen
  <2>5. KotlinWatched'
    BY <1>1, <2>1, <2>2, <2>3 DEF KotlinTypes, KotlinWatched
  <2>6. KotlinAhead'
    BY <1>1, <1>2, <2>1, <2>2, <2>3 DEF KotlinAhead, Living
  <2>7. KotlinFindsOut'
    BY <1>1, <1>2, <2>1, <2>2, <2>3 DEF KotlinTypes, KotlinFindsOut, BeatTypes
  <2> QED BY <2>4, <2>5, <2>6, <2>7 DEF KotlinBeat
<1>9. ASSUME Kotlin!SendPing
      PROVE  BeatTypes' /\ InTime' /\ KotlinBeat'
  <2>1. /\ loop.at = "armed"
        /\ watcher' = IF loop.previous = Nobody THEN watcher ELSE [watcher EXCEPT ![loop.previous] = Off]
        /\ pongs' = IF sock = "open" /\ alive THEN Append(pongs, Latency) ELSE pongs
        /\ \/ loop' = IF scope THEN [at |-> "delay", left |-> Interval] ELSE [at |-> "ended"]
           \/ sock # "open" /\ loop' = [at |-> "ended"]
        /\ UNCHANGED <<sock, alive, closed, endedBy, quiet, reader, pongJob, closing, scope>>
    BY <1>9 DEF Kotlin!SendPing, Kotlin!CancelPrevious, Kotlin!WritePing, Kotlin!Reaches, Kotlin!Delay, Kotlin!Ended,
                Kotlin!flags, Kotlin!closers
  <2>2. loop.previous \in Watchers \cup {Nobody}
    BY <1>1, <2>1 DEF KotlinTypes
  <2>3. \A v \in Watchers : watcher'[v] = IF v = loop.previous THEN Off ELSE watcher[v]
    BY <1>1, <1>2, <2>1, <2>2 DEF KotlinTypes
  <2>4. pongs' \in Seq(Nat) /\ (Living => PongAhead(Timeout)')
    <3>1. pongs \in Seq(Nat) /\ Timeout \in Int
      BY <1>1, <1>2 DEF BeatTypes
    <3>2. (Living => pongs' = Append(pongs, Latency)) /\ (pongs' = pongs \/ pongs' = Append(pongs, Latency))
      BY <2>1 DEF Living
    <3>3. pongs' = Append(pongs, Latency) => pongs' \in Seq(Nat) /\ PongAhead(Timeout)'
      BY <1>2, <3>1, PongsMove
    <3> QED BY <3>1, <3>2, <3>3
  <2>5. BeatTypes' /\ InTime'
    BY <1>1, <2>1, <2>4 DEF BeatTypes, InTime
  <2>6. KotlinTypes'
    BY <1>1, <1>2, <2>1, <2>2 DEF KotlinTypes
  <2>7. KotlinOpen'
    BY <1>1, <2>1 DEF KotlinOpen
  <2>8. KotlinWatched'
    BY <1>1, <1>2, <2>1, <2>2, <2>3 DEF KotlinWatched
  <2>9. pongJob # Nobody => pongJob \in Watchers /\ watcher'[pongJob] = watcher[pongJob]
    BY <1>1, <2>1, <2>3 DEF KotlinTypes, KotlinWatched
  <2>10. KotlinAhead'
    <3> SUFFICES ASSUME Living' PROVE
            /\ \A w \in Watchers : closing'[w] = "idle" /\ watcher'[w] # 0
            /\ pongJob' # Nobody /\ watcher'[pongJob'] # Off => loop'.at = "delay" /\ PongAhead(watcher[pongJob])'
      BY DEF KotlinAhead
    <3>1. Living /\ loop'.at = "delay"
      BY <1>1, <2>1 DEF Living, KotlinOpen
    <3>2. \A w \in Watchers : closing'[w] = "idle" /\ watcher'[w] # 0
      BY <1>1, <2>1, <2>3, <3>1 DEF KotlinAhead
    <3>3. pongJob' # Nobody /\ watcher'[pongJob'] # Off => watcher'[pongJob'] = Timeout
      BY <1>1, <2>1, <2>9, <3>1 DEF KotlinAhead
    <3> QED BY <2>4, <3>1, <3>2, <3>3 DEF PongAhead
  <2>11. KotlinFindsOut'
    BY <1>1, <1>2, <2>1, <2>9 DEF KotlinFindsOut, KotlinOpen, BeatTypes
  <2> QED BY <2>5, <2>6, <2>7, <2>8, <2>10, <2>11 DEF KotlinBeat
<1>10. ASSUME Kotlin!AppCloses \/ Kotlin!SocketTellsClose
       PROVE  BeatTypes' /\ InTime' /\ KotlinBeat'
  <2>1. PICK a \in {"app", "socket"} : closing' = [closing EXCEPT ![a] = "test"]
    BY <1>10 DEF Kotlin!AppCloses, Kotlin!SocketTellsClose, Kotlin!Steps
  <2>2. UNCHANGED <<sock, alive, pongs, closed, endedBy, quiet, reader, loop, watcher, pongJob, scope>>
    BY <1>10 DEF Kotlin!AppCloses, Kotlin!SocketTellsClose, Kotlin!shared, Kotlin!network, Kotlin!flags, Kotlin!beat
  <2>3. /\ closing' \in [Kotlin!Closers -> Stages] /\ \A w \in Watchers : closing'[w] = closing[w]
        /\ \A b \in Kotlin!Closers : closing'[b] \in {closing[b], "test"}
    BY <1>1, <1>2, <2>1 DEF KotlinTypes, Stages, Kotlin!Closers
  <2>4. BeatTypes' /\ InTime' /\ KotlinTypes' /\ KotlinOpen'
    BY <1>1, <2>2, <2>3 DEF BeatTypes, InTime, KotlinTypes, KotlinOpen
  <2>5. KotlinWatched'
    BY <1>1, <2>2 DEF KotlinWatched
  <2>6. KotlinAhead' /\ KotlinFindsOut'
    BY <1>1, <2>2, <2>3 DEF KotlinTypes, KotlinAhead, KotlinFindsOut, Living, PongAhead
  <2> QED BY <2>4, <2>5, <2>6 DEF KotlinBeat
<1>11. ASSUME NEW w \in Watchers, Kotlin!WatcherWakes(w)
       PROVE  BeatTypes' /\ InTime' /\ KotlinBeat'
  <2>1. /\ watcher[w] = 0 /\ watcher' = [watcher EXCEPT ![w] = Off] /\ closing' = [closing EXCEPT ![w] = "test"]
        /\ UNCHANGED <<sock, alive, pongs, closed, endedBy, quiet, reader, loop, pongJob, scope>>
    BY <1>11 DEF Kotlin!WatcherWakes, Kotlin!Steps, Kotlin!shared, Kotlin!network, Kotlin!flags
  <2>2. ~Living /\ ~Living'
    BY <1>1, <2>1 DEF KotlinAhead, Living
  <2>3. /\ \A v \in Watchers : watcher'[v] = IF v = w THEN Off ELSE watcher[v]
        /\ \A b \in Kotlin!Closers : closing'[b] = IF b = w THEN "test" ELSE closing[b]
        /\ closing' \in [Kotlin!Closers -> Stages] /\ w \in Kotlin!Closers
    BY <1>1, <2>1 DEF KotlinTypes, Stages, Kotlin!Closers
  <2>4. BeatTypes' /\ InTime' /\ KotlinTypes' /\ KotlinOpen'
    BY <1>1, <2>1, <2>3 DEF BeatTypes, InTime, KotlinTypes, KotlinOpen
  <2>5. KotlinWatched'
    BY <1>1, <2>1, <2>3 DEF KotlinWatched
  <2>6. KotlinAhead'
    BY <2>2 DEF KotlinAhead
  <2>7. KotlinFindsOut'
    <3>1. pongJob = w \/ pongJob = Nobody \/ (pongJob \in Watchers /\ pongJob \in Kotlin!Closers /\ pongJob # w)
      BY <1>1 DEF KotlinTypes, Kotlin!Closers
    <3> QED BY <1>1, <1>2, <2>1, <2>3, <3>1 DEF KotlinTypes, KotlinFindsOut
  <2> QED BY <2>4, <2>5, <2>6, <2>7 DEF KotlinBeat
<1>12. ASSUME NEW a \in Kotlin!Closers, Kotlin!Begin(a)
       PROVE  BeatTypes' /\ InTime' /\ KotlinBeat'
  <2>1. /\ closing[a] = "test" /\ closing' \in {[closing EXCEPT ![a] = "shut"], [closing EXCEPT ![a] = "done"]}
        /\ closed' = TRUE /\ endedBy' = IF closed THEN endedBy ELSE Kotlin!CauseOf(a)
        /\ UNCHANGED <<sock, alive, pongs, quiet, reader, loop, watcher, pongJob, scope>>
    BY <1>1, <1>12 DEF Kotlin!Begin, Kotlin!Steps, Kotlin!network, Kotlin!beat, BeatTypes
  <2>2. ~Living'
    BY <2>1 DEF Living
  <2>3. endedBy' = "heartbeat" => ~alive
    <3>1. CASE closed
      BY <1>1, <2>1, <3>1 DEF BeatTypes
    <3>2. CASE ~closed /\ a \in Watchers
      BY <1>1, <2>1, <3>2 DEF Kotlin!CauseOf, Kotlin!Cause, KotlinAhead, Living, BeatTypes
    <3>3. CASE ~closed /\ a \notin Watchers
      BY <1>12, <2>1, <3>3 DEF Kotlin!CauseOf, Kotlin!Closers
    <3> QED BY <3>1, <3>2, <3>3
  <2>4. closing' \in [Kotlin!Closers -> Stages]
    BY <1>1, <2>1 DEF KotlinTypes, Stages
  <2>5. BeatTypes' /\ InTime'
    BY <1>1, <2>1, <2>3 DEF BeatTypes, InTime
  <2>6. KotlinTypes' /\ KotlinOpen'
    BY <1>1, <2>1, <2>4 DEF KotlinTypes, KotlinOpen
  <2>7. KotlinWatched'
    BY <1>1, <2>1 DEF KotlinWatched
  <2>8. KotlinAhead' /\ KotlinFindsOut'
    BY <2>1, <2>2 DEF KotlinAhead, KotlinFindsOut
  <2> QED BY <2>5, <2>6, <2>7, <2>8 DEF KotlinBeat
<1>13. ASSUME NEW a \in Kotlin!Closers, Kotlin!Shut(a) \/ Kotlin!Settle(a)
       PROVE  BeatTypes' /\ InTime' /\ KotlinBeat'
  <2>1. closed /\ closed'
    BY <1>1, <1>13 DEF Kotlin!Shut, Kotlin!Settle, Kotlin!Steps, Kotlin!flags, KotlinOpen
  <2>2. /\ closing' \in {[closing EXCEPT ![a] = "settle"], [closing EXCEPT ![a] = "done"]}
        /\ UNCHANGED <<alive, pongs, closed, endedBy, quiet, reader, pongJob>> /\ sock' \in {sock, "closing"}
    BY <1>13 DEF Kotlin!Shut, Kotlin!Settle, Kotlin!Steps, Kotlin!CloseSocket, Kotlin!flags, Kotlin!network
  <2>3. loop' \in {loop, [at |-> "ended"]}
    BY <1>13 DEF Kotlin!Shut, Kotlin!Settle, Kotlin!Ended
  <2>4. watcher' \in [Watchers -> Nat \cup {Off}] /\ \A w \in Watchers : watcher'[w] \in {watcher[w], Off}
    BY <1>1, <1>13 DEF Kotlin!Shut, Kotlin!Settle, KotlinTypes
  <2>5. closing' \in [Kotlin!Closers -> Stages]
    BY <1>1, <2>2 DEF KotlinTypes, Stages
  <2>6. BeatTypes' /\ InTime' /\ KotlinAhead' /\ KotlinFindsOut'
    BY <1>1, <2>1, <2>2 DEF BeatTypes, InTime, KotlinAhead, KotlinFindsOut, Living
  <2>7. KotlinTypes' /\ KotlinOpen'
    BY <1>1, <2>1, <2>2, <2>3, <2>4, <2>5 DEF KotlinTypes, KotlinOpen
  <2>8. KotlinWatched'
    BY <1>1, <1>13, <2>2, <2>3, <2>4 DEF KotlinWatched, Kotlin!Settle, Kotlin!Shut, Kotlin!Ended
  <2> QED BY <2>6, <2>7, <2>8 DEF KotlinBeat
<1>14. ASSUME Kotlin!Tick
       PROVE  BeatTypes' /\ InTime' /\ KotlinBeat'
  <2>1. /\ Kotlin!NothingArrives /\ Kotlin!TimePasses
        /\ reader = [frame |-> "none"] /\ loop # [at |-> "delay", left |-> 0] /\ loop.at \in {"delay", "ended"}
        /\ \A w \in Watchers : watcher[w] # 0
        /\ \A a \in Kotlin!Closers : closing[a] \in {"idle", "done"}
        /\ loop' = IF loop.at = "delay" THEN [at |-> "delay", left |-> Kotlin!Less(loop.left)] ELSE loop
        /\ watcher' = [w \in Watchers |-> Kotlin!Less(watcher[w])]
        /\ UNCHANGED <<reader, pongJob, closing, scope>>
    BY <1>14 DEF Kotlin!Tick, Kotlin!Rests, Kotlin!NoFrame, Kotlin!Delay, Kotlin!closers
  <2>2. /\ ~closed /\ UNCHANGED <<sock, alive, closed, endedBy>>
        /\ pongs' = [n \in 1..Len(pongs) |-> IF pongs[n] > 0 THEN pongs[n] - 1 ELSE pongs[n]]
        /\ quiet' = IF quiet <= Interval + Timeout THEN quiet + 1 ELSE quiet
    BY <2>1 DEF Kotlin!TimePasses, Kotlin!Less, Kotlin!flags
  <2>3. sock # "closed" /\ (sock = "open" => \A n \in 1..Len(pongs) : pongs[n] > 0)
    BY <2>1, <2>2 DEF Kotlin!NothingArrives
  <2>4. sock = "open" /\ pongs \in Seq(Nat) /\ quiet \in Nat
    BY <1>1, <2>2, <2>3 DEF BeatTypes, KotlinOpen
  <2>5. PICK n \in Nat : loop = [at |-> "delay", left |-> n] /\ n > 0
    BY <1>1, <2>1, <2>2, <2>4 DEF KotlinTypes, KotlinOpen
  <2>6. loop' = [at |-> "delay", left |-> n - 1]
    BY <2>1, <2>5 DEF Kotlin!Less
  <2>7. \A w \in Watchers : watcher'[w] = IF watcher[w] # Off THEN watcher[w] - 1 ELSE Off
    BY <1>1, <2>1 DEF KotlinTypes, Kotlin!Less
  <2>8. \A w \in Watchers : watcher[w] # Off => watcher[w] \in Nat /\ watcher[w] > 0 /\ w = pongJob
    BY <1>1, <2>1, <2>5 DEF KotlinTypes, KotlinWatched
  <2>9. pongs' \in Seq(Nat) /\ \A k \in Int : PongAhead(k) => PongAhead(k - 1)'
    BY <2>2, <2>3, <2>4, PongsMove
  <2>10. KotlinTypes' /\ KotlinOpen'
    <3>1. watcher' \in [Watchers -> Nat \cup {Off}]
      BY <2>1, <2>7, <2>8
    <3>2. n - 1 \in Nat
      BY <2>5
    <3>3. KotlinTypes'
      BY <1>1, <2>1, <2>6, <3>1, <3>2 DEF KotlinTypes
    <3> QED BY <1>1, <2>1, <2>2, <2>6, <3>3 DEF KotlinOpen
  <2>11. KotlinWatched'
    BY <1>1, <2>1, <2>5, <2>6, <2>7, <2>8 DEF KotlinWatched
  <2>12. ASSUME Living, NEW w \in Watchers, watcher[w] # Off
         PROVE  watcher'[w] # 0 /\ \E k \in Int : k = watcher'[w] /\ PongAhead(k)'
    <3>1. PongAhead(watcher[w]) /\ w = pongJob
      BY <1>1, <1>2, <2>5, <2>8, <2>12 DEF KotlinAhead
    <3>2. PICK k \in Nat : k = watcher[w]
      BY <2>8, <2>12
    <3>3. PongAhead(k) /\ watcher'[w] = k - 1
      BY <2>7, <2>12, <3>1, <3>2
    <3>4. PongAhead(k - 1)'
      BY <2>9, <3>3
    <3>5. k - 1 # 0
      <4>1. Len(pongs') \in 1..Len(pongs') /\ pongs'[Len(pongs')] \in Nat
        BY <2>9, <3>4 DEF PongAhead
      <4> QED BY <3>4, <4>1 DEF PongAhead
    <3> QED BY <3>3, <3>4, <3>5
  <2>13. KotlinAhead'
    <3> SUFFICES ASSUME Living' PROVE
            /\ \A w \in Watchers : closing'[w] = "idle" /\ watcher'[w] # 0
            /\ pongJob' # Nobody /\ watcher'[pongJob'] # Off => loop'.at = "delay" /\ PongAhead(watcher[pongJob])'
      BY DEF KotlinAhead
    <3>1. Living
      BY <2>2 DEF Living
    <3>2. \A w \in Watchers : closing'[w] = "idle" /\ watcher'[w] # 0
      BY <1>1, <2>1, <2>7, <2>12, <3>1 DEF KotlinAhead
    <3>3. pongJob' # Nobody /\ watcher'[pongJob'] # Off => pongJob \in Watchers /\ watcher[pongJob] # Off
      BY <1>1, <2>1, <2>7 DEF KotlinTypes
    <3>4. pongJob' # Nobody /\ watcher'[pongJob'] # Off => \E k \in Int : k = watcher'[pongJob] /\ PongAhead(k)'
      BY <2>12, <3>1, <3>3
    <3> QED BY <2>1, <2>6, <3>2, <3>4 DEF PongAhead
  <2>14. /\ Timeout < Interval => quiet' = quiet + 1 /\ quiet' <= Interval + Timeout
         /\ KotlinFindsOut'
    <3>1. pongJob = Nobody \/ (pongJob \in Watchers /\ closing[pongJob] # "test")
      BY <1>1, <2>1 DEF KotlinTypes, Kotlin!Closers
    <3>2. Timeout < Interval => quiet' = quiet + 1 /\ quiet' <= Interval + Timeout
      BY <1>1, <1>2, <2>2, <2>4, <2>5, <2>8, <3>1 DEF KotlinFindsOut
    <3>3. KotlinFindsOut'
      BY <1>1, <1>2, <2>1, <2>2, <2>4, <2>5, <2>6, <2>7, <2>8, <3>1, <3>2 DEF KotlinFindsOut
    <3> QED BY <3>2, <3>3
  <2>15. BeatTypes' /\ InTime'
    BY <1>1, <1>2, <2>2, <2>4, <2>9, <2>14 DEF BeatTypes, InTime
  <2> QED BY <2>10, <2>11, <2>13, <2>14, <2>15 DEF KotlinBeat
<1> QED BY <1>4, <1>5, <1>6, <1>7, <1>8, <1>9, <1>10, <1>11, <1>12, <1>13, <1>14
        DEF Kotlin!Next, Kotlin!Scheduled, Kotlin!CloseStep

-----------------------------------------------------------------------------
LEMMA BeatInitially == Init => BeatInv
<1> SUFFICES ASSUME Init PROVE BeatInv
  OBVIOUS
<1> USE DEF Dart!Off, Kotlin!Off, Swift!Off
<1>1. Interval \in Nat \ {0} /\ Timeout \in Nat \ {0} /\ Latency \in Nat /\ <<>> \in Seq(Nat)
  OBVIOUS
<1>2. /\ sock = "open" /\ alive = TRUE /\ pongs = <<>> /\ closed = FALSE /\ endedBy = "nobody" /\ quiet = 0
      /\ platform \in {"dart", "kotlin", "swift"}
  BY DEF Init, Dart!Init, Dart!NetworkInit, Dart!TransportInit, Kotlin!Init, Kotlin!NetworkInit, Kotlin!TransportInit,
         Swift!Init, Swift!NetworkInit, Swift!TransportInit
<1>3. BeatTypes /\ InTime
  <2>1. 0 <= Interval + Timeout
    BY <1>1
  <2>2. BeatTypes
    BY <1>1, <1>2 DEF BeatTypes
  <2> QED BY <1>2, <2>1, <2>2 DEF InTime
<1>4. ASSUME platform = "dart" PROVE DartBeat
  <2>1. pingTimer = Interval /\ pongTimer = Off
    BY <1>4 DEF Init, Dart!Init
  <2> QED BY <1>1, <1>2, <2>1 DEF DartBeat
<1>5. ASSUME platform = "kotlin" PROVE KotlinBeat
  <2>1. /\ reader = [frame |-> "none"] /\ loop = [at |-> "delay", left |-> Interval]
        /\ watcher = [w \in Watchers |-> Off] /\ pongJob = Nobody
        /\ closing = [a \in Kotlin!Closers |-> "idle"] /\ scope = TRUE
    BY <1>5 DEF Init, Kotlin!Init, Kotlin!NoFrame, Kotlin!Delay
  <2>2. KotlinTypes
    BY <1>1, <2>1 DEF KotlinTypes, Stages
  <2>3. KotlinOpen /\ KotlinWatched
    BY <1>2, <2>1 DEF KotlinOpen, KotlinWatched
  <2>4. \A w \in Watchers : w \in Kotlin!Closers
    BY DEF Kotlin!Closers
  <2>5. KotlinAhead /\ KotlinFindsOut
    BY <1>1, <1>2, <2>1, <2>4 DEF KotlinAhead, KotlinFindsOut
  <2> QED BY <2>2, <2>3, <2>5 DEF KotlinBeat
<1>6. ASSUME platform = "swift" PROVE SwiftBeat
  <2>1. /\ started = FALSE /\ finished = FALSE /\ pingTask = Off /\ pingsAwake = 0
        /\ deadlineTask = Off /\ deadlinesAwake = 0
    BY <1>6 DEF Init, Swift!Init
  <2>2. 0 <= Interval + Timeout
    BY <1>1
  <2>3. deadlineTask = -1 /\ pingTask = -1 /\ started \in BOOLEAN /\ finished \in BOOLEAN /\ ~started /\ ~finished
    BY <2>1
  <2> QED BY <1>2, <2>1, <2>2, <2>3 DEF SwiftBeat
<1> QED BY <1>3, <1>4, <1>5, <1>6 DEF BeatInv

LEMMA BeatStep == CallsInv /\ BeatInv /\ [Next]_vars => BeatInv'
<1> SUFFICES ASSUME CallsInv, BeatInv, [Next]_vars PROVE BeatInv'
  OBVIOUS
<1>1. CASE Next
  BY <1>1, DartKeepsBeat, KotlinKeepsBeat, SwiftKeepsBeat DEF Next, OnDart, OnKotlin, OnSwift
<1>2. CASE UNCHANGED vars
  <2>1. /\ UNCHANGED <<platform, sock, alive, pongs, closed, endedBy, quiet>>
        /\ UNCHANGED dartOwn /\ UNCHANGED kotlinOwn /\ UNCHANGED swiftOwn
    BY <1>2 DEF vars, shared, network, flags
  <2>2. BeatTypes' /\ InTime' /\ (DartBeat => DartBeat')
    BY <2>1 DEF BeatInv, BeatTypes, InTime, DartBeat, dartOwn, Living, PongAhead
  <2>3. SwiftBeat => SwiftBeat'
    BY <2>1 DEF SwiftBeat, swiftOwn, Living, PongAhead
  <2>4. KotlinBeat => KotlinBeat'
    BY <2>1 DEF KotlinBeat, KotlinTypes, KotlinOpen, KotlinWatched, KotlinAhead, KotlinFindsOut, kotlinOwn, Living, PongAhead
  <2> QED BY <2>1, <2>2, <2>3, <2>4 DEF BeatInv
<1> QED BY <1>1, <1>2

LEMMA BeatInvariance == Spec => []BeatInv
BY CallsInitially, CallsStep, BeatInitially, BeatStep, PTL DEF Spec

\* Whatever threads, actors and timers run: a transport whose heartbeat closed it
\* has a peer that no longer answers.
THEOREM HealthyPeerIsKept == Spec => []HealthyStaysOpen
<1>1. BeatInv => HealthyStaysOpen
  BY DEF BeatInv, BeatTypes, HealthyStaysOpen
<1> QED BY <1>1, BeatInvariance, PTL

\* With a timeout shorter than the interval, no transport is open after an
\* interval and a timeout without a pong.
THEOREM DeadPeerIsFoundOut == Spec => []DeadPeerIsClosed
<1>1. BeatInv => DeadPeerIsClosed
  BY DEF BeatInv, InTime, DeadPeerIsClosed
<1> QED BY <1>1, BeatInvariance, PTL
=============================================================================
