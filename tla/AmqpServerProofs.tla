-------------------------- MODULE AmqpServerProofs --------------------------
(***************************************************************************)
(* Proofs about AmqpServer, for every set of messages and loops and every  *)
(* prefetch.                                                               *)
(*                                                                         *)
(* IndInv follows a message from hand to hand: it is on the queue, with    *)
(* one channel, or settled (OneCustodian); what a loop was handed over a   *)
(* channel that is up, and has not settled, is that channel's own          *)
(* (HandedIsHeld); and a settlement leaves a loop behind the reply    *)
(* and after the handler call the message is owed (StepsFollowDispatch,    *)
(* SettlementIsLast).  The broker reads a channel in order, so what it     *)
(* sees settled has been served.                                           *)
(***************************************************************************)
EXTENDS AmqpServer, FiniteSetTheorems, TLAPS

USE BoundsAssumption, MessagesAssumption

-----------------------------------------------------------------------------
\* The frames are told apart by their type and by their message.
LEMMA FramesDiffer ==
    /\ \A m \in Messages : /\ ReplyTo(m) \in Frames /\ Settle(m) \in Frames
                           /\ ReplyTo(m) # Cancel /\ Settle(m) # Cancel
    /\ Cancel \in Frames
    /\ \A m, n : ReplyTo(m) # Settle(n)
    /\ \A m, n : Settle(m) = Settle(n) => m = n
    /\ \A m, n : ReplyTo(m) = ReplyTo(n) => m = n
  BY DEF ReplyTo, Settle, Cancel, Frames

\* An empty wire is a wire.
LEMMA EmptyWire == <<>> \in Seq(Frames)
  OBVIOUS

\* Advance moves one delivery of one loop.
LEMMA Advanced ==
    ASSUME TypeOK, NEW l \in Loops, NEW m \in Messages \cup {Lost},
           NEW to \in Steps, step' = [step EXCEPT ![l][m] = to]
    PROVE  /\ step' \in [Loops -> [Messages \cup {Lost} -> Steps]]
           /\ \A k \in Loops, n \in Messages \cup {Lost} :
                step'[k][n] = IF k = l /\ n = m THEN to ELSE step[k][n]
<1>1. step \in [Loops -> [Messages \cup {Lost} -> Steps]]
  BY DEF TypeOK
<1>2. step' = [step EXCEPT ![l] = [step[l] EXCEPT ![m] = to]]
  BY <1>1
<1>3. [step[l] EXCEPT ![m] = to] \in [Messages \cup {Lost} -> Steps]
  BY <1>1
<1>4. step' \in [Loops -> [Messages \cup {Lost} -> Steps]]
  BY <1>1, <1>2, <1>3
<1>5. ASSUME NEW k \in Loops, NEW n \in Messages \cup {Lost}
      PROVE  step'[k][n] = IF k = l /\ n = m THEN to ELSE step[k][n]
  <2>1. CASE k = l
    BY <1>1, <1>2, <2>1
  <2>2. CASE k # l
    BY <1>1, <1>2, <2>2
  <2> QED
    BY <2>1, <2>2
<1> QED
  BY <1>4, <1>5

\* Send puts one frame behind those of its channel, if the channel is up.
LEMMA Sent ==
    ASSUME TypeOK, NEW l \in Loops, NEW frame \in Frames,
           wire' = IF open[l] THEN [wire EXCEPT ![l] = Append(@, frame)] ELSE wire
    PROVE  /\ wire' \in [Loops -> Seq(Frames)]
           /\ \A k \in Loops : wire'[k] = IF k = l /\ open[l] THEN Append(wire[l], frame)
                                                              ELSE wire[k]
           /\ \A k \in Loops : \A i \in 1..Len(wire[k]) :
                i \in DOMAIN wire'[k] /\ wire'[k][i] = wire[k][i]
           /\ \A k \in Loops : \A i \in DOMAIN wire'[k] :
                \/ i \in 1..Len(wire[k])
                \/ k = l /\ open[l] /\ i = Len(wire[l]) + 1 /\ wire'[k][i] = frame
           /\ open[l] => wire'[l][Len(wire[l]) + 1] = frame /\ Len(wire[l]) + 1 \in DOMAIN wire'[l]
<1>1. wire[l] \in Seq(Frames) /\ Append(wire[l], frame) \in Seq(Frames)
  BY DEF TypeOK
<1>2. \A k \in Loops : wire'[k] = IF k = l /\ open[l] THEN Append(wire[l], frame) ELSE wire[k]
  BY DEF TypeOK
<1>3. wire' \in [Loops -> Seq(Frames)]
  BY <1>1 DEF TypeOK
<1>4. ASSUME NEW k \in Loops PROVE wire[k] \in Seq(Frames)
  BY DEF TypeOK
<1> QED
  BY <1>1, <1>2, <1>3, <1>4

\* What Send does to the frames on the wires.
LEMMA SentOnWire ==
    ASSUME TypeOK, NEW l \in Loops, NEW frame \in Frames,
           wire' = IF open[l] THEN [wire EXCEPT ![l] = Append(@, frame)] ELSE wire,
           NEW k \in Loops, NEW other \in Frames
    PROVE  (\E i \in DOMAIN wire'[k] : wire'[k][i] = other) <=>
              \/ \E i \in DOMAIN wire[k] : wire[k][i] = other
              \/ k = l /\ open[l] /\ other = frame
<1>1. DOMAIN wire[k] = 1..Len(wire[k]) /\ Len(wire[l]) \in Nat
  BY DEF TypeOK
<1>2. ASSUME NEW i \in DOMAIN wire'[k], wire'[k][i] = other
      PROVE  \/ \E j \in DOMAIN wire[k] : wire[k][j] = other
             \/ k = l /\ open[l] /\ other = frame
  BY <1>1, <1>2, Sent
<1>3. ASSUME NEW i \in DOMAIN wire[k]
      PROVE  i \in DOMAIN wire'[k] /\ wire'[k][i] = wire[k][i]
  BY <1>1, Sent
<1>4. ASSUME k = l, open[l]
      PROVE  \E j \in DOMAIN wire'[k] : wire'[k][j] = frame
  <2>1. Len(wire[l]) + 1 \in DOMAIN wire'[l] /\ wire'[l][Len(wire[l]) + 1] = frame
    BY <1>4, Sent
  <2> QED
    BY <1>4, <2>1
<1> QED
  BY <1>2, <1>3, <1>4

\* A set no larger than one that fits within the prefetch fits.
LEMMA SmallerFits ==
    ASSUME NEW S \in SUBSET Messages, NEW T \in SUBSET S, Cardinality(S) <= Prefetch
    PROVE  Cardinality(T) <= Prefetch
<1>1. IsFiniteSet(S) /\ IsFiniteSet(T)
  BY FS_Subset
<1> QED
  BY <1>1, FS_Subset, FS_CardinalityType

\* A step that hands a loop nothing keeps its deliveries within its slots.
LEMMA FitsStill ==
    ASSUME IndInv, stream' \in [Loops -> SUBSET (Messages \cup {Lost})],
           \A k \in Loops : (stream'[k] \ {Lost}) \cup Busy(k)' \subseteq
                            (stream[k] \ {Lost}) \cup Busy(k)
    PROVE  NoneWaitsBehindAnother'
<1> SUFFICES ASSUME NEW k \in Loops
             PROVE  Cardinality((stream'[k] \ {Lost}) \cup Busy(k)') <= Prefetch
  BY DEF NoneWaitsBehindAnother
<1> DEFINE S == (stream[k] \ {Lost}) \cup Busy(k)
           T == (stream'[k] \ {Lost}) \cup Busy(k)'
<1>1. S \in SUBSET Messages
  BY DEF IndInv, TypeOK, Busy
<1>2. T \in SUBSET S
  BY DEF Busy
<1>3. Cardinality(S) <= Prefetch
  BY DEF IndInv, NoneWaitsBehindAnother
<1> HIDE DEF S, T
<1>4. Cardinality(T) <= Prefetch
  BY <1>1, <1>2, <1>3, SmallerFits
<1> QED
  BY <1>4 DEF T

\* The first frame of a wire is read.
LEMMA Received ==
    ASSUME TypeOK, NEW l \in Loops, wire[l] # <<>>,
           wire' = [wire EXCEPT ![l] = Tail(@)]
    PROVE  /\ wire' \in [Loops -> Seq(Frames)]
           /\ Head(wire[l]) = wire[l][1] /\ 1 \in DOMAIN wire[l]
           /\ \A k \in Loops \ {l} : wire'[k] = wire[k]
           /\ \A i \in DOMAIN wire'[l] :
                i + 1 \in DOMAIN wire[l] /\ wire'[l][i] = wire[l][i + 1]
           /\ \A i \in DOMAIN wire[l] :
                i = 1 \/ (i - 1 \in DOMAIN wire'[l] /\ wire'[l][i - 1] = wire[l][i])
<1>1. wire \in [Loops -> Seq(Frames)] /\ wire[l] \in Seq(Frames)
  BY DEF TypeOK
<1>2. /\ wire'[l] = Tail(wire[l]) /\ Tail(wire[l]) \in Seq(Frames)
      /\ \A k \in Loops \ {l} : wire'[k] = wire[k]
      /\ wire' \in [Loops -> Seq(Frames)]
  BY <1>1
<1>3. /\ Len(wire[l]) \in Nat \ {0} /\ DOMAIN wire[l] = 1..Len(wire[l])
      /\ DOMAIN wire'[l] = 1..(Len(wire[l]) - 1)
      /\ \A i \in 1..(Len(wire[l]) - 1) : wire'[l][i] = wire[l][i + 1]
  BY <1>1, <1>2
<1> QED
  BY <1>1, <1>2, <1>3

-----------------------------------------------------------------------------
\* The broker hands out a message: it was on the queue, so nothing of it is
\* in the loop or on a wire.
LEMMA PushStep ==
    ASSUME IndInv, NEW l \in Loops, Push(l)
    PROVE  IndInv'
<1>t. TypeOK
  BY DEF IndInv
<1>y. /\ queue \subseteq Messages
      /\ unacked \in [Loops -> SUBSET Messages]
      /\ stream \in [Loops -> SUBSET (Messages \cup {Lost})]
  BY DEF IndInv, TypeOK
<1>p. PICK m \in queue : /\ queue' = queue \ {m}
                       /\ unacked' = [unacked EXCEPT ![l] = @ \cup {m}]
                       /\ stream' = [stream EXCEPT ![l] = @ \cup {m}]
  BY DEF Push
<1>q. /\ m \in Messages /\ m \notin acked /\ m \notin unacked[l] /\ m \notin stranded[l]
      /\ open[l] /\ phase[l] \in {"serving", "draining"}
      /\ m \notin begun[l] /\ m \notin stream[l] /\ step[l][m] = "none"
  <2>1. m \in Messages /\ m \notin acked /\ m \notin unacked[l] /\ m \notin stranded[l]
    BY <1>p, <1>t DEF IndInv, TypeOK, OneCustodian
  <2>2. open[l] /\ phase[l] \in {"serving", "draining"}
    BY <1>t DEF IndInv, TypeOK, GoneIsEmpty, ConsumerIsGone, Push
  <2>3. m \notin begun[l] /\ m \notin stream[l]
    BY <2>1, <2>2 DEF IndInv, BegunIsHeld, HandedIsHeld
  <2> QED
    BY <2>1, <2>2, <2>3 DEF IndInv, BegunIsHeld
<1>1. TypeOK'
  <2>1. queue' \subseteq Messages
    BY <1>y DEF Push
  <2>2. unacked' \in [Loops -> SUBSET Messages]
    BY <1>y DEF Push
  <2>3. stream' \in [Loops -> SUBSET (Messages \cup {Lost})]
    BY <1>y DEF Push
  <2> QED
    BY <2>1, <2>2, <2>3 DEF IndInv, TypeOK, Push, broker, control, work
<1>2. OneCustodian'
  BY <1>y, <1>p, <1>q DEF IndInv, OneCustodian, Push, broker, control, work
<1>3. GoneIsEmpty'
  BY <1>y, <1>p, <1>q DEF IndInv, GoneIsEmpty, Push, broker, control, work
<1>4. HandedIsHeld'
  BY <1>y, <1>p, <1>q DEF IndInv, HandedIsHeld, Push, broker, control, work,
         Busy, OnWire, OneCustodian, SettledIsHeld
<1>5. StreamIsUnbegun'
  BY <1>y, <1>p, <1>q DEF IndInv, StreamIsUnbegun, Push, broker, control,
         work, OneCustodian, BegunIsHeld, GoneIsEmpty, HandedIsHeld, Busy
<1>6. BegunIsHeld'
  BY <1>y DEF IndInv, BegunIsHeld, Push, broker, control, work, Busy
<1>7. SettledIsHeld'
  BY <1>y DEF IndInv, SettledIsHeld, Push, broker, control, work, OnWire
<1>8. BegunIsSettled'
  BY <1>y, <1>p, <1>q DEF IndInv, BegunIsSettled, Push, broker, control, work,
         Busy, OnWire
<1>9. BrokerKeepsToPrefetch'
  <2>1. unacked[l] \in SUBSET Messages /\ IsFiniteSet(unacked[l])
    BY <1>y, FS_Subset
  <2>2. Cardinality(unacked[l] \cup {m}) = Cardinality(unacked[l]) + 1
    BY <1>q, <2>1, FS_AddElement
  <2>3. Cardinality(unacked[l]) \in Nat /\ Cardinality(unacked[l]) < Prefetch
    BY <2>1, FS_CardinalityType DEF Push
  <2>4. \A k \in Loops : unacked'[k] = IF k = l THEN unacked[l] \cup {m} ELSE unacked[k]
    BY <1>y, <1>p
  <2>5. Cardinality(unacked[l] \cup {m}) <= Prefetch
    BY <2>2, <2>3
  <2> QED
    BY <2>4, <2>5 DEF IndInv, BrokerKeepsToPrefetch
<1>10. NoneWaitsBehindAnother'
  <2> SUFFICES ASSUME NEW k \in Loops
               PROVE  Cardinality((stream'[k] \ {Lost}) \cup Busy(k)') <= Prefetch
    BY DEF NoneWaitsBehindAnother
  <2>1. Busy(k)' = Busy(k)
    BY DEF Busy, Push, work
  <2>2. CASE k # l
    <3>1. stream'[k] = stream[k]
      BY <1>y, <1>p, <2>2
    <3> QED
      BY <2>1, <3>1 DEF IndInv, NoneWaitsBehindAnother
  <2>3. CASE k = l
    <3>1. unacked'[l] \in SUBSET Messages /\ Cardinality(unacked'[l]) <= Prefetch
      BY <1>1, <1>9 DEF TypeOK, BrokerKeepsToPrefetch
    <3>2. (stream'[k] \ {Lost}) \cup Busy(k)' \in SUBSET unacked'[l]
      BY <1>1, <1>q, <1>4, <2>3 DEF TypeOK, Busy, HandedIsHeld, Push
    <3> QED
      BY <3>1, <3>2, SmallerFits
  <2> QED
    BY <2>2, <2>3
<1>11. ConsumerIsGone' /\ StepsFollowDispatch' /\ SettlementIsLast' /\
      AckedAfterServed'
  BY DEF IndInv, Push, broker, control, work, ConsumerIsGone,
         StepsFollowDispatch, SettlementIsLast, AckedAfterServed, OnWire, Owed
<1> QED BY <1>1, <1>2, <1>3, <1>4, <1>5, <1>6, <1>7, <1>8, <1>9, <1>10, <1>11
       DEF IndInv

\* The broker reads a reply.
LEMMA ReceiveReplyStep ==
    ASSUME IndInv, NEW l \in Loops, NEW m \in Messages, ReceiveReply(l, m)
    PROVE  IndInv'
<1>t. TypeOK
  BY DEF IndInv
<1>s. /\ wire[l] # <<>> /\ Head(wire[l]) = ReplyTo(m)
      /\ wire' = [wire EXCEPT ![l] = Tail(@)]
  BY DEF ReceiveReply, Read
<1>w. /\ wire' \in [Loops -> Seq(Frames)]
      /\ wire[l][1] = ReplyTo(m) /\ 1 \in DOMAIN wire[l] /\ open[l]
      /\ \A k \in Loops \ {l} : wire'[k] = wire[k]
      /\ \A i \in DOMAIN wire'[l] : i + 1 \in DOMAIN wire[l] /\ wire'[l][i] = wire[l][i + 1]
      /\ \A i \in DOMAIN wire[l] : i = 1 \/ (i - 1 \in DOMAIN wire'[l] /\ wire'[l][i - 1] = wire[l][i])
  BY <1>t, <1>s, Received DEF IndInv, GoneIsEmpty
<1>x. ASSUME NEW k \in Loops, NEW other \in Frames
      PROVE  /\ (\E i \in DOMAIN wire'[k] : wire'[k][i] = other) =>
                (\E i \in DOMAIN wire[k] : wire[k][i] = other)
             /\ (\E i \in DOMAIN wire[k] : wire[k][i] = other) =>
                \/ \E i \in DOMAIN wire'[k] : wire'[k][i] = other
                \/ k = l /\ other = ReplyTo(m)
  BY <1>w
<1>v. open[l] /\ (\A k \in Loops : k # l => wire'[k] = wire[k])
  BY <1>w
<1>z. \A k \in Loops, n \in Messages :
        /\ (\E i \in DOMAIN wire'[k] : wire'[k][i] = Settle(n)) <=>
             (\E i \in DOMAIN wire[k] : wire[k][i] = Settle(n))
        /\ (\E i \in DOMAIN wire'[k] : wire'[k][i] = ReplyTo(n)) =>
             (\E i \in DOMAIN wire[k] : wire[k][i] = ReplyTo(n))
        /\ (\E i \in DOMAIN wire[k] : wire[k][i] = ReplyTo(n)) =>
             (\E i \in DOMAIN wire'[k] : wire'[k][i] = ReplyTo(n)) \/ (k = l /\ n = m)
  BY <1>x, FramesDiffer
<1>y. /\ replied \subseteq Messages
  BY DEF IndInv, TypeOK
<1>1. TypeOK'
  <2>1. wire' \in [Loops -> Seq(Frames)]
    BY <1>y, <1>w DEF ReceiveReply
  <2>2. replied' \subseteq Messages
    BY <1>y, <1>w DEF ReceiveReply
  <2> QED
    BY <2>1, <2>2 DEF IndInv, TypeOK, ReceiveReply, broker, control, work
<1>2. GoneIsEmpty'
  BY <1>y, <1>v DEF IndInv, GoneIsEmpty, ReceiveReply, broker, control, work
<1>3. HandedIsHeld'
  BY <1>y, <1>z DEF IndInv, HandedIsHeld, ReceiveReply, broker, control, work,
         Busy, OnWire
<1>4. SettledIsHeld'
  BY <1>y, <1>z DEF IndInv, SettledIsHeld, ReceiveReply, broker, control,
         work, OnWire
<1>5. BegunIsSettled'
  BY <1>y, <1>z DEF IndInv, BegunIsSettled, ReceiveReply, broker, control,
         work, Busy, OnWire
<1>6. StepsFollowDispatch'
  BY <1>y, <1>z DEF IndInv, StepsFollowDispatch, ReceiveReply, broker,
         control, work, OnWire
<1>7. SettlementIsLast'
  <2> SUFFICES ASSUME NEW k \in Loops, NEW n \in Messages, NEW i \in DOMAIN wire'[k],
                      wire'[k][i] = Settle(n)
               PROVE  /\ kind[n] \in {"ask", "tell"} => ran[n] > 0
                      /\ kind[n] \in {"ask", "refused"} =>
                          \/ n \in replied' \cup silent
                          \/ \E j \in 1..(i - 1) : wire'[k][j] = ReplyTo(n)
    BY DEF SettlementIsLast, ReceiveReply, control, work
  <2>1. CASE k # l
    BY <1>v, <2>1 DEF IndInv, SettlementIsLast, ReceiveReply, control, work
  <2>2. CASE k = l
    <3>1. i + 1 \in DOMAIN wire[l] /\ wire[l][i + 1] = Settle(n)
      BY <1>w, <2>2
    <3>2. /\ kind[n] \in {"ask", "tell"} => ran[n] > 0
          /\ kind[n] \in {"ask", "refused"} =>
              \/ n \in replied \cup silent
              \/ \E j \in 1..((i + 1) - 1) : wire[l][j] = ReplyTo(n)
      BY <3>1 DEF IndInv, SettlementIsLast
    <3>3. /\ DOMAIN wire[l] = 1..Len(wire[l]) /\ DOMAIN wire'[l] = 1..Len(wire'[l])
          /\ Len(wire[l]) \in Nat /\ Len(wire'[l]) \in Nat
      BY <1>t, <1>w DEF TypeOK
    <3>4. ASSUME NEW j \in 1..((i + 1) - 1), wire[l][j] = ReplyTo(n)
          PROVE  n \in replied' \/ \E h \in 1..(i - 1) : wire'[l][h] = ReplyTo(n)
      <4>1. CASE j = 1
        BY <1>w, <3>4, <4>1, FramesDiffer DEF ReceiveReply
      <4>2. CASE j # 1
        <5>1. j \in DOMAIN wire[l] /\ j - 1 \in 1..(i - 1)
          BY <2>2, <3>1, <3>3, <4>2
        <5>2. wire'[l][j - 1] = ReplyTo(n)
          BY <1>w, <3>4, <4>2, <5>1
        <5> QED
          BY <5>1, <5>2
      <4> QED
        BY <4>1, <4>2
    <3>5. replied \subseteq replied'
      BY DEF ReceiveReply
    <3> QED
      BY <2>2, <3>2, <3>4, <3>5
  <2> QED
    BY <2>1, <2>2
<1>8. AckedAfterServed'
  BY <1>y, <1>v, <1>z DEF IndInv, AckedAfterServed, ReceiveReply, broker,
         control, work, Owed
<1>9. OneCustodian' /\ ConsumerIsGone' /\ StreamIsUnbegun' /\ BegunIsHeld' /\
      BrokerKeepsToPrefetch' /\ NoneWaitsBehindAnother'
  BY DEF IndInv, ReceiveReply, broker, control, work, OneCustodian,
         ConsumerIsGone, StreamIsUnbegun, BegunIsHeld, BrokerKeepsToPrefetch,
         NoneWaitsBehindAnother, Busy
<1> QED BY <1>1, <1>2, <1>3, <1>4, <1>5, <1>6, <1>7, <1>8, <1>9 DEF IndInv

\* The broker reads a settlement: what the message is owed came before it.
LEMMA ReceiveSettlementStep ==
    ASSUME IndInv, NEW l \in Loops, NEW m \in Messages, ReceiveSettlement(l, m)
    PROVE  IndInv'
<1>t. TypeOK
  BY DEF IndInv
<1>s. /\ wire[l] # <<>> /\ Head(wire[l]) = Settle(m)
      /\ wire' = [wire EXCEPT ![l] = Tail(@)]
  BY DEF ReceiveSettlement, Read
<1>w. /\ wire' \in [Loops -> Seq(Frames)]
      /\ wire[l][1] = Settle(m) /\ 1 \in DOMAIN wire[l] /\ open[l]
      /\ \A k \in Loops \ {l} : wire'[k] = wire[k]
      /\ \A i \in DOMAIN wire'[l] : i + 1 \in DOMAIN wire[l] /\ wire'[l][i] = wire[l][i + 1]
      /\ \A i \in DOMAIN wire[l] : i = 1 \/ (i - 1 \in DOMAIN wire'[l] /\ wire'[l][i - 1] = wire[l][i])
  BY <1>t, <1>s, Received DEF IndInv, GoneIsEmpty
<1>x. ASSUME NEW k \in Loops, NEW other \in Frames
      PROVE  /\ (\E i \in DOMAIN wire'[k] : wire'[k][i] = other) =>
                (\E i \in DOMAIN wire[k] : wire[k][i] = other)
             /\ (\E i \in DOMAIN wire[k] : wire[k][i] = other) =>
                \/ \E i \in DOMAIN wire'[k] : wire'[k][i] = other
                \/ k = l /\ other = Settle(m)
  BY <1>w
<1>v. open[l] /\ (\A k \in Loops : k # l => wire'[k] = wire[k])
  BY <1>w
<1>z. \A k \in Loops, n \in Messages :
        /\ (\E i \in DOMAIN wire'[k] : wire'[k][i] = Settle(n)) =>
             (\E i \in DOMAIN wire[k] : wire[k][i] = Settle(n))
        /\ (\E i \in DOMAIN wire[k] : wire[k][i] = Settle(n)) =>
             (\E i \in DOMAIN wire'[k] : wire'[k][i] = Settle(n)) \/ (k = l /\ n = m)
        /\ (\E i \in DOMAIN wire'[k] : wire'[k][i] = ReplyTo(n)) <=>
             (\E i \in DOMAIN wire[k] : wire[k][i] = ReplyTo(n))
  BY <1>x, FramesDiffer
<1>y. /\ unacked \in [Loops -> SUBSET Messages]
      /\ stranded \in [Loops -> SUBSET Messages]
      /\ acked \subseteq Messages
  BY DEF IndInv, TypeOK
<1>1. TypeOK'
  <2>1. unacked' \in [Loops -> SUBSET Messages]
    BY <1>y, <1>w DEF ReceiveSettlement
  <2>2. stranded' \in [Loops -> SUBSET Messages]
    BY <1>y, <1>w DEF ReceiveSettlement
  <2>3. wire' \in [Loops -> Seq(Frames)]
    BY <1>y, <1>w DEF ReceiveSettlement
  <2>4. acked' \subseteq Messages
    BY <1>y, <1>w DEF ReceiveSettlement
  <2> QED
    BY <2>1, <2>2, <2>3, <2>4 DEF IndInv, TypeOK, ReceiveSettlement, broker,
           control, work
<1>2. OneCustodian'
  BY <1>y, <1>v, <1>z, <1>w DEF IndInv, OneCustodian, ReceiveSettlement,
         broker, control, work, SettledIsHeld, OnWire
<1>3. GoneIsEmpty'
  BY <1>y, <1>v DEF IndInv, GoneIsEmpty, ReceiveSettlement, broker, control,
         work
<1>4. HandedIsHeld'
  BY <1>y, <1>z, <1>w DEF IndInv, HandedIsHeld, ReceiveSettlement, broker,
         control, work, Busy, OnWire, OneCustodian
<1>5. BegunIsHeld'
  BY <1>y DEF IndInv, BegunIsHeld, ReceiveSettlement, broker, control, work,
         Busy
<1>6. SettledIsHeld'
  BY <1>y, <1>z DEF IndInv, SettledIsHeld, ReceiveSettlement, broker, control,
         work, OnWire
<1>7. BegunIsSettled'
  BY <1>y, <1>z DEF IndInv, BegunIsSettled, ReceiveSettlement, broker,
         control, work, Busy, OnWire
<1>8. StepsFollowDispatch'
  BY <1>y, <1>z DEF IndInv, StepsFollowDispatch, ReceiveSettlement, broker,
         control, work, OnWire
<1>9. SettlementIsLast'
  <2> SUFFICES ASSUME NEW k \in Loops, NEW n \in Messages, NEW i \in DOMAIN wire'[k],
                      wire'[k][i] = Settle(n)
               PROVE  /\ kind[n] \in {"ask", "tell"} => ran[n] > 0
                      /\ kind[n] \in {"ask", "refused"} =>
                          \/ n \in replied' \cup silent
                          \/ \E j \in 1..(i - 1) : wire'[k][j] = ReplyTo(n)
    BY DEF SettlementIsLast, ReceiveSettlement, control, work
  <2>1. CASE k # l
    BY <1>v, <2>1 DEF IndInv, SettlementIsLast, ReceiveSettlement, control, work
  <2>2. CASE k = l
    <3>1. i + 1 \in DOMAIN wire[l] /\ wire[l][i + 1] = Settle(n)
      BY <1>w, <2>2
    <3>2. /\ kind[n] \in {"ask", "tell"} => ran[n] > 0
          /\ kind[n] \in {"ask", "refused"} =>
              \/ n \in replied \cup silent
              \/ \E j \in 1..((i + 1) - 1) : wire[l][j] = ReplyTo(n)
      BY <3>1 DEF IndInv, SettlementIsLast
    <3>3. /\ DOMAIN wire[l] = 1..Len(wire[l]) /\ DOMAIN wire'[l] = 1..Len(wire'[l])
          /\ Len(wire[l]) \in Nat /\ Len(wire'[l]) \in Nat
      BY <1>t, <1>w DEF TypeOK
    <3>4. ASSUME NEW j \in 1..((i + 1) - 1), wire[l][j] = ReplyTo(n)
          PROVE  n \in replied' \/ \E h \in 1..(i - 1) : wire'[l][h] = ReplyTo(n)
      <4>1. CASE j = 1
        BY <1>w, <3>4, <4>1, FramesDiffer DEF ReceiveSettlement
      <4>2. CASE j # 1
        <5>1. j \in DOMAIN wire[l] /\ j - 1 \in 1..(i - 1)
          BY <2>2, <3>1, <3>3, <4>2
        <5>2. wire'[l][j - 1] = ReplyTo(n)
          BY <1>w, <3>4, <4>2, <5>1
        <5> QED
          BY <5>1, <5>2
      <4> QED
        BY <4>1, <4>2
    <3>5. replied \subseteq replied'
      BY DEF ReceiveSettlement
    <3> QED
      BY <2>2, <3>2, <3>4, <3>5
  <2> QED
    BY <2>1, <2>2
<1>10. AckedAfterServed'
  BY <1>y, <1>v, <1>z, <1>w DEF IndInv, AckedAfterServed, ReceiveSettlement,
         broker, control, work, Owed, SettlementIsLast
<1>11. BrokerKeepsToPrefetch'
  <2> SUFFICES ASSUME NEW k \in Loops PROVE Cardinality(unacked'[k]) <= Prefetch
    BY DEF BrokerKeepsToPrefetch
  <2>1. unacked[k] \in SUBSET Messages /\ Cardinality(unacked[k]) <= Prefetch
    BY <1>y DEF IndInv, BrokerKeepsToPrefetch
  <2>2. unacked'[k] \in SUBSET unacked[k]
    BY <1>y DEF ReceiveSettlement
  <2> QED
    BY <2>1, <2>2, SmallerFits
<1>12. ConsumerIsGone' /\ StreamIsUnbegun' /\ NoneWaitsBehindAnother'
  BY DEF IndInv, ReceiveSettlement, broker, control, work, ConsumerIsGone,
         StreamIsUnbegun, NoneWaitsBehindAnother, Busy
<1> QED BY <1>1, <1>2, <1>3, <1>4, <1>5, <1>6, <1>7, <1>8, <1>9, <1>10, <1>11,
       <1>12 DEF IndInv

\* The broker reads a cancel.
LEMMA ReceiveCancelStep ==
    ASSUME IndInv, NEW l \in Loops, ReceiveCancel(l)
    PROVE  IndInv'
<1>t. TypeOK
  BY DEF IndInv
<1>s. /\ wire[l] # <<>> /\ Head(wire[l]) = Cancel
      /\ wire' = [wire EXCEPT ![l] = Tail(@)]
  BY DEF ReceiveCancel, Read
<1>w. /\ wire' \in [Loops -> Seq(Frames)]
      /\ wire[l][1] = Cancel /\ 1 \in DOMAIN wire[l] /\ open[l]
      /\ \A k \in Loops \ {l} : wire'[k] = wire[k]
      /\ \A i \in DOMAIN wire'[l] : i + 1 \in DOMAIN wire[l] /\ wire'[l][i] = wire[l][i + 1]
      /\ \A i \in DOMAIN wire[l] : i = 1 \/ (i - 1 \in DOMAIN wire'[l] /\ wire'[l][i - 1] = wire[l][i])
  BY <1>t, <1>s, Received DEF IndInv, GoneIsEmpty
<1>x. ASSUME NEW k \in Loops, NEW other \in Frames
      PROVE  /\ (\E i \in DOMAIN wire'[k] : wire'[k][i] = other) =>
                (\E i \in DOMAIN wire[k] : wire[k][i] = other)
             /\ (\E i \in DOMAIN wire[k] : wire[k][i] = other) =>
                \/ \E i \in DOMAIN wire'[k] : wire'[k][i] = other
                \/ k = l /\ other = Cancel
  BY <1>w
<1>v. open[l] /\ (\A k \in Loops : k # l => wire'[k] = wire[k])
  BY <1>w
<1>z. \A k \in Loops, n \in Messages :
        /\ (\E i \in DOMAIN wire'[k] : wire'[k][i] = Settle(n)) <=>
             (\E i \in DOMAIN wire[k] : wire[k][i] = Settle(n))
        /\ (\E i \in DOMAIN wire'[k] : wire'[k][i] = ReplyTo(n)) <=>
             (\E i \in DOMAIN wire[k] : wire[k][i] = ReplyTo(n))
  BY <1>x, FramesDiffer
<1>y. /\ consuming \in [Loops -> BOOLEAN]
      /\ stop \in [Loops -> {"unpolled", "sent", "done"}]
  BY DEF IndInv, TypeOK
<1>1. TypeOK'
  <2>1. consuming' \in [Loops -> BOOLEAN]
    BY <1>y, <1>w DEF ReceiveCancel
  <2>2. wire' \in [Loops -> Seq(Frames)]
    BY <1>y, <1>w DEF ReceiveCancel
  <2>3. stop' \in [Loops -> {"unpolled", "sent", "done"}]
    BY <1>y, <1>w DEF ReceiveCancel
  <2> QED
    BY <2>1, <2>2, <2>3 DEF IndInv, TypeOK, ReceiveCancel, broker, control,
           work
<1>2. GoneIsEmpty'
  BY <1>y, <1>v DEF IndInv, GoneIsEmpty, ReceiveCancel, broker, control, work
<1>3. ConsumerIsGone'
  BY <1>y, <1>v, <1>z DEF IndInv, ConsumerIsGone, ReceiveCancel, broker,
         control, work
<1>4. HandedIsHeld'
  BY <1>y, <1>z DEF IndInv, HandedIsHeld, ReceiveCancel, broker, control,
         work, Busy, OnWire
<1>5. SettledIsHeld'
  BY <1>y, <1>z DEF IndInv, SettledIsHeld, ReceiveCancel, broker, control,
         work, OnWire
<1>6. BegunIsSettled'
  BY <1>y, <1>z DEF IndInv, BegunIsSettled, ReceiveCancel, broker, control,
         work, Busy, OnWire
<1>7. StepsFollowDispatch'
  BY <1>y, <1>z DEF IndInv, StepsFollowDispatch, ReceiveCancel, broker,
         control, work, OnWire
<1>8. SettlementIsLast'
  <2> SUFFICES ASSUME NEW k \in Loops, NEW n \in Messages, NEW i \in DOMAIN wire'[k],
                      wire'[k][i] = Settle(n)
               PROVE  /\ kind[n] \in {"ask", "tell"} => ran[n] > 0
                      /\ kind[n] \in {"ask", "refused"} =>
                          \/ n \in replied' \cup silent
                          \/ \E j \in 1..(i - 1) : wire'[k][j] = ReplyTo(n)
    BY DEF SettlementIsLast, ReceiveCancel, control, work
  <2>1. CASE k # l
    BY <1>v, <2>1 DEF IndInv, SettlementIsLast, ReceiveCancel, control, work
  <2>2. CASE k = l
    <3>1. i + 1 \in DOMAIN wire[l] /\ wire[l][i + 1] = Settle(n)
      BY <1>w, <2>2
    <3>2. /\ kind[n] \in {"ask", "tell"} => ran[n] > 0
          /\ kind[n] \in {"ask", "refused"} =>
              \/ n \in replied \cup silent
              \/ \E j \in 1..((i + 1) - 1) : wire[l][j] = ReplyTo(n)
      BY <3>1 DEF IndInv, SettlementIsLast
    <3>3. /\ DOMAIN wire[l] = 1..Len(wire[l]) /\ DOMAIN wire'[l] = 1..Len(wire'[l])
          /\ Len(wire[l]) \in Nat /\ Len(wire'[l]) \in Nat
      BY <1>t, <1>w DEF TypeOK
    <3>4. ASSUME NEW j \in 1..((i + 1) - 1), wire[l][j] = ReplyTo(n)
          PROVE  n \in replied' \/ \E h \in 1..(i - 1) : wire'[l][h] = ReplyTo(n)
      <4>1. CASE j = 1
        BY <1>w, <3>4, <4>1, FramesDiffer DEF ReceiveCancel
      <4>2. CASE j # 1
        <5>1. j \in DOMAIN wire[l] /\ j - 1 \in 1..(i - 1)
          BY <2>2, <3>1, <3>3, <4>2
        <5>2. wire'[l][j - 1] = ReplyTo(n)
          BY <1>w, <3>4, <4>2, <5>1
        <5> QED
          BY <5>1, <5>2
      <4> QED
        BY <4>1, <4>2
    <3>5. replied \subseteq replied'
      BY DEF ReceiveCancel
    <3> QED
      BY <2>2, <3>2, <3>4, <3>5
  <2> QED
    BY <2>1, <2>2
<1>9. OneCustodian' /\ StreamIsUnbegun' /\ BegunIsHeld' /\ AckedAfterServed' /\
      BrokerKeepsToPrefetch' /\ NoneWaitsBehindAnother'
  BY DEF IndInv, ReceiveCancel, broker, control, work, OneCustodian,
         StreamIsUnbegun, BegunIsHeld, AckedAfterServed,
         BrokerKeepsToPrefetch, NoneWaitsBehindAnother, Busy, Owed
<1> QED BY <1>1, <1>2, <1>3, <1>4, <1>5, <1>6, <1>7, <1>8, <1>9 DEF IndInv

\* The broker closes a consumer.
LEMMA CancelConsumerStep ==
    ASSUME IndInv, NEW l \in Loops, CancelConsumer(l)
    PROVE  IndInv'
<1>t. TypeOK
  BY DEF IndInv
<1>y. /\ consuming \in [Loops -> BOOLEAN]
  BY DEF IndInv, TypeOK
<1>1. TypeOK'
  <2>1. consuming' \in [Loops -> BOOLEAN]
    BY <1>y DEF CancelConsumer
  <2> QED
    BY <2>1 DEF IndInv, TypeOK, CancelConsumer, broker, control, work
<1>2. GoneIsEmpty'
  BY <1>y DEF IndInv, GoneIsEmpty, CancelConsumer, broker, control, work
<1>3. ConsumerIsGone'
  BY <1>y DEF IndInv, ConsumerIsGone, CancelConsumer, broker, control, work
<1>4. OneCustodian' /\ HandedIsHeld' /\ StreamIsUnbegun' /\ BegunIsHeld' /\
      SettledIsHeld' /\ BegunIsSettled' /\ StepsFollowDispatch' /\
      SettlementIsLast' /\ AckedAfterServed' /\ BrokerKeepsToPrefetch' /\
      NoneWaitsBehindAnother'
  BY DEF IndInv, CancelConsumer, broker, control, work, OneCustodian,
         HandedIsHeld, StreamIsUnbegun, BegunIsHeld, SettledIsHeld,
         BegunIsSettled, StepsFollowDispatch, SettlementIsLast,
         AckedAfterServed, BrokerKeepsToPrefetch, NoneWaitsBehindAnother,
         Busy, OnWire, Owed
<1> QED BY <1>1, <1>2, <1>3, <1>4 DEF IndInv

\* A channel is lost: its deliveries go back, and its frames with it.
LEMMA LoseChannelStep ==
    ASSUME IndInv, NEW l \in Loops, LoseChannel(l)
    PROVE  IndInv'
<1>t. TypeOK
  BY DEF IndInv
<1>y. /\ queue \subseteq Messages
      /\ unacked \in [Loops -> SUBSET Messages]
      /\ stranded \in [Loops -> SUBSET Messages]
      /\ consuming \in [Loops -> BOOLEAN]
      /\ open \in [Loops -> BOOLEAN]
      /\ wire \in [Loops -> Seq(Frames)]
      /\ losses \in Nat
      /\ stop \in [Loops -> {"unpolled", "sent", "done"}]
      /\ stream \in [Loops -> SUBSET (Messages \cup {Lost})]
  BY DEF IndInv, TypeOK
<1>1. TypeOK'
  <2>1. queue' \subseteq Messages
    BY <1>y DEF LoseChannel, Requeue
  <2>2. unacked' \in [Loops -> SUBSET Messages]
    BY <1>y DEF LoseChannel, Requeue
  <2>3. stranded' \in [Loops -> SUBSET Messages]
    BY <1>y DEF LoseChannel, Requeue
  <2>4. consuming' \in [Loops -> BOOLEAN]
    BY <1>y DEF LoseChannel, Requeue
  <2>5. open' \in [Loops -> BOOLEAN]
    BY <1>y DEF LoseChannel, Requeue
  <2>6. wire' \in [Loops -> Seq(Frames)]
    BY <1>y, EmptyWire DEF LoseChannel, Requeue
  <2>7. losses' \in Nat
    BY <1>y DEF LoseChannel, Requeue
  <2>8. stop' \in [Loops -> {"unpolled", "sent", "done"}]
    BY <1>y DEF LoseChannel, Requeue
  <2>9. stream' \in [Loops -> SUBSET (Messages \cup {Lost})]
    BY <1>y DEF LoseChannel, Requeue
  <2> QED
    BY <2>1, <2>2, <2>3, <2>4, <2>5, <2>6, <2>7, <2>8, <2>9 DEF IndInv,
           TypeOK, LoseChannel, broker, control, work, Requeue
<1>2. OneCustodian'
  BY <1>y DEF IndInv, OneCustodian, LoseChannel, broker, control, work,
         Requeue
<1>3. GoneIsEmpty'
  BY <1>y DEF IndInv, GoneIsEmpty, LoseChannel, broker, control, work, Requeue
<1>4. ConsumerIsGone'
  BY <1>y DEF IndInv, ConsumerIsGone, LoseChannel, broker, control, work,
         Requeue
<1>5. HandedIsHeld'
  BY <1>y DEF IndInv, HandedIsHeld, LoseChannel, broker, control, work,
         Requeue, Busy, OnWire
<1>6. StreamIsUnbegun'
  BY <1>y DEF IndInv, StreamIsUnbegun, LoseChannel, broker, control, work,
         Requeue
<1>7. BegunIsHeld'
  BY <1>y DEF IndInv, BegunIsHeld, LoseChannel, broker, control, work,
         Requeue, Busy
<1>8. SettledIsHeld'
  BY <1>y DEF IndInv, SettledIsHeld, LoseChannel, broker, control, work,
         Requeue, OnWire
<1>9. BegunIsSettled'
  BY <1>y DEF IndInv, BegunIsSettled, LoseChannel, broker, control, work,
         Requeue, Busy, OnWire
<1>10. StepsFollowDispatch'
  BY <1>y DEF IndInv, StepsFollowDispatch, LoseChannel, broker, control, work,
         Requeue, OnWire
<1>11. SettlementIsLast'
  <2>1. DOMAIN wire'[l] = {} /\ \A k \in Loops : k # l => wire'[k] = wire[k]
    BY <1>y DEF LoseChannel, Requeue
  <2>2. UNCHANGED <<kind, ran, replied, silent>>
    BY DEF LoseChannel, Requeue, work
  <2> QED
    BY <2>1, <2>2 DEF IndInv, SettlementIsLast
<1>12. BrokerKeepsToPrefetch'
  <2>1. \A k \in Loops : unacked'[k] = unacked[k] \/ unacked'[k] = {}
    BY <1>y DEF LoseChannel, Requeue
  <2> QED
    BY <2>1, FS_EmptySet DEF IndInv, BrokerKeepsToPrefetch
<1>13. NoneWaitsBehindAnother'
  <2>1. stream' \in [Loops -> SUBSET (Messages \cup {Lost})]
    BY <1>1 DEF TypeOK
  <2>2. \A k \in Loops : (stream'[k] \ {Lost}) \cup Busy(k)' \subseteq
                          (stream[k] \ {Lost}) \cup Busy(k)
    BY <1>t, <1>y DEF TypeOK, Busy, LoseChannel, broker, control, work, Requeue
  <2> QED
    BY <2>1, <2>2, FitsStill DEF Busy
<1>14. AckedAfterServed'
  BY DEF IndInv, LoseChannel, broker, control, work, Requeue,
         AckedAfterServed, Owed
<1> QED BY <1>1, <1>2, <1>3, <1>4, <1>5, <1>6, <1>7, <1>8, <1>9, <1>10, <1>11,
       <1>12, <1>13, <1>14 DEF IndInv

\* A process dies with its channel.
LEMMA CrashStep ==
    ASSUME IndInv, NEW l \in Loops, Crash(l)
    PROVE  IndInv'
<1>t. TypeOK
  BY DEF IndInv
<1>y. /\ queue \subseteq Messages
      /\ unacked \in [Loops -> SUBSET Messages]
      /\ stranded \in [Loops -> SUBSET Messages]
      /\ consuming \in [Loops -> BOOLEAN]
      /\ open \in [Loops -> BOOLEAN]
      /\ wire \in [Loops -> Seq(Frames)]
      /\ losses \in Nat
      /\ phase \in [Loops -> {"idle", "serving", "draining", "returned"}]
      /\ stopped \in [Loops -> {"none", "ShutdownRequested", "ConsumerClosed"}]
      /\ stop \in [Loops -> {"unpolled", "sent", "done"}]
      /\ shutdown \in [Loops -> BOOLEAN]
      /\ stream \in [Loops -> SUBSET (Messages \cup {Lost})]
      /\ step \in [Loops -> [Messages \cup {Lost} -> Steps]]
      /\ begun \in [Loops -> SUBSET (Messages \cup {Lost})]
  BY DEF IndInv, TypeOK
<1>1. TypeOK'
  <2>1. queue' \subseteq Messages
    BY <1>y DEF Crash, Requeue
  <2>2. unacked' \in [Loops -> SUBSET Messages]
    BY <1>y DEF Crash, Requeue
  <2>3. stranded' \in [Loops -> SUBSET Messages]
    BY <1>y DEF Crash, Requeue
  <2>4. consuming' \in [Loops -> BOOLEAN]
    BY <1>y DEF Crash, Requeue
  <2>5. open' \in [Loops -> BOOLEAN]
    BY <1>y DEF Crash, Requeue
  <2>6. wire' \in [Loops -> Seq(Frames)]
    BY <1>y, EmptyWire DEF Crash, Requeue
  <2>7. losses' \in Nat
    BY <1>y DEF Crash, Requeue
  <2>8. phase' \in [Loops -> {"idle", "serving", "draining", "returned"}]
    BY <1>y DEF Crash, Requeue
  <2>9. stopped' \in [Loops -> {"none", "ShutdownRequested", "ConsumerClosed"}]
    BY <1>y DEF Crash, Requeue
  <2>10. stop' \in [Loops -> {"unpolled", "sent", "done"}]
    BY <1>y DEF Crash, Requeue
  <2>11. shutdown' \in [Loops -> BOOLEAN]
    BY <1>y DEF Crash, Requeue
  <2>12. stream' \in [Loops -> SUBSET (Messages \cup {Lost})]
    BY <1>y DEF Crash, Requeue
  <2>13. step' \in [Loops -> [Messages \cup {Lost} -> Steps]]
    BY <1>y DEF Crash, Requeue, Steps
  <2>14. begun' \in [Loops -> SUBSET (Messages \cup {Lost})]
    BY <1>y DEF Crash, Requeue
  <2> QED
    BY <2>1, <2>2, <2>3, <2>4, <2>5, <2>6, <2>7, <2>8, <2>9, <2>10, <2>11,
           <2>12, <2>13, <2>14 DEF IndInv, TypeOK, Crash, broker, control,
           work, Requeue
<1>2. OneCustodian'
  BY <1>y DEF IndInv, OneCustodian, Crash, broker, control, work, Requeue
<1>3. GoneIsEmpty'
  BY <1>y DEF IndInv, GoneIsEmpty, Crash, broker, control, work, Requeue
<1>4. ConsumerIsGone'
  BY <1>y DEF IndInv, ConsumerIsGone, Crash, broker, control, work, Requeue
<1>5. HandedIsHeld'
  BY <1>y DEF IndInv, HandedIsHeld, Crash, broker, control, work, Requeue,
         Busy, OnWire
<1>6. StreamIsUnbegun'
  BY <1>y DEF IndInv, StreamIsUnbegun, Crash, broker, control, work, Requeue
<1>7. BegunIsHeld'
  BY <1>y DEF IndInv, BegunIsHeld, Crash, broker, control, work, Requeue, Busy
<1>8. SettledIsHeld'
  BY <1>y DEF IndInv, SettledIsHeld, Crash, broker, control, work, Requeue,
         OnWire
<1>9. BegunIsSettled'
  BY <1>y DEF IndInv, BegunIsSettled, Crash, broker, control, work, Requeue,
         Busy, OnWire
<1>10. StepsFollowDispatch'
  BY <1>y DEF IndInv, StepsFollowDispatch, Crash, broker, control, work,
         Requeue, OnWire
<1>11. SettlementIsLast'
  <2>1. DOMAIN wire'[l] = {} /\ \A k \in Loops : k # l => wire'[k] = wire[k]
    BY <1>y DEF Crash, Requeue
  <2>2. UNCHANGED <<kind, ran, replied, silent>>
    BY DEF Crash, Requeue, work
  <2> QED
    BY <2>1, <2>2 DEF IndInv, SettlementIsLast
<1>12. BrokerKeepsToPrefetch'
  <2>1. \A k \in Loops : unacked'[k] = unacked[k] \/ unacked'[k] = {}
    BY <1>y DEF Crash, Requeue
  <2> QED
    BY <2>1, FS_EmptySet DEF IndInv, BrokerKeepsToPrefetch
<1>13. NoneWaitsBehindAnother'
  <2>1. stream' \in [Loops -> SUBSET (Messages \cup {Lost})]
    BY <1>1 DEF TypeOK
  <2>2. \A k \in Loops : (stream'[k] \ {Lost}) \cup Busy(k)' \subseteq
                          (stream[k] \ {Lost}) \cup Busy(k)
    BY <1>t, <1>y DEF TypeOK, Busy, Crash, broker, control, work, Requeue
  <2> QED
    BY <2>1, <2>2, FitsStill DEF Busy
<1>14. AckedAfterServed'
  BY DEF IndInv, Crash, broker, control, work, Requeue, AckedAfterServed, Owed
<1> QED BY <1>1, <1>2, <1>3, <1>4, <1>5, <1>6, <1>7, <1>8, <1>9, <1>10, <1>11,
       <1>12, <1>13, <1>14 DEF IndInv

\* A loop starts: nothing of an earlier one is still in it.
LEMMA ServeStep ==
    ASSUME IndInv, NEW l \in Loops, Serve(l)
    PROVE  IndInv'
<1>t. TypeOK
  BY DEF IndInv
<1>y. /\ unacked \in [Loops -> SUBSET Messages]
      /\ stranded \in [Loops -> SUBSET Messages]
      /\ consuming \in [Loops -> BOOLEAN]
      /\ open \in [Loops -> BOOLEAN]
      /\ phase \in [Loops -> {"idle", "serving", "draining", "returned"}]
      /\ stopped \in [Loops -> {"none", "ShutdownRequested", "ConsumerClosed"}]
      /\ stop \in [Loops -> {"unpolled", "sent", "done"}]
      /\ shutdown \in [Loops -> BOOLEAN]
      /\ stream \in [Loops -> SUBSET (Messages \cup {Lost})]
      /\ begun \in [Loops -> SUBSET (Messages \cup {Lost})]
      /\ serves \in [Loops -> Nat]
  BY DEF IndInv, TypeOK
<1>1. TypeOK'
  <2>1. unacked' \in [Loops -> SUBSET Messages]
    BY <1>y DEF Serve
  <2>2. stranded' \in [Loops -> SUBSET Messages]
    BY <1>y DEF Serve
  <2>3. consuming' \in [Loops -> BOOLEAN]
    BY <1>y DEF Serve
  <2>4. open' \in [Loops -> BOOLEAN]
    BY <1>y DEF Serve
  <2>5. phase' \in [Loops -> {"idle", "serving", "draining", "returned"}]
    BY <1>y DEF Serve
  <2>6. stopped' \in [Loops -> {"none", "ShutdownRequested", "ConsumerClosed"}]
    BY <1>y DEF Serve
  <2>7. stop' \in [Loops -> {"unpolled", "sent", "done"}]
    BY <1>y DEF Serve
  <2>8. shutdown' \in [Loops -> BOOLEAN]
    BY <1>y DEF Serve
  <2>9. stream' \in [Loops -> SUBSET (Messages \cup {Lost})]
    BY <1>y DEF Serve
  <2>10. begun' \in [Loops -> SUBSET (Messages \cup {Lost})]
    BY <1>y DEF Serve
  <2>11. serves' \in [Loops -> Nat]
    BY <1>y DEF Serve
  <2> QED
    BY <2>1, <2>2, <2>3, <2>4, <2>5, <2>6, <2>7, <2>8, <2>9, <2>10, <2>11 DEF
           IndInv, TypeOK, Serve, broker, control, work
<1>2. OneCustodian'
  BY <1>y DEF IndInv, OneCustodian, Serve, broker, control, work
<1>3. GoneIsEmpty'
  BY <1>y DEF IndInv, GoneIsEmpty, Serve, broker, control, work
<1>4. ConsumerIsGone'
  BY <1>y DEF IndInv, ConsumerIsGone, Serve, broker, control, work
<1>5. HandedIsHeld'
  BY <1>y DEF IndInv, HandedIsHeld, Serve, broker, control, work, Busy,
         OnWire, GoneIsEmpty
<1>6. StreamIsUnbegun'
  BY <1>y DEF IndInv, StreamIsUnbegun, Serve, broker, control, work,
         GoneIsEmpty
<1>7. BegunIsHeld'
  BY <1>y DEF IndInv, BegunIsHeld, Serve, broker, control, work, Busy,
         GoneIsEmpty
<1>8. SettledIsHeld'
  BY <1>y DEF IndInv, SettledIsHeld, Serve, broker, control, work, OnWire
<1>9. BegunIsSettled'
  BY <1>y DEF IndInv, BegunIsSettled, Serve, broker, control, work, Busy,
         OnWire, GoneIsEmpty
<1>10. StepsFollowDispatch'
  <2>1. \A n \in Messages : step[l][n] = "none"
    BY DEF IndInv, GoneIsEmpty, Serve
  <2>2. \A k \in Loops : k # l => open'[k] = open[k]
    BY <1>y DEF Serve
  <2>3. UNCHANGED <<step, kind, ran, replied, silent, wire>>
    BY DEF Serve, work
  <2> QED
    BY <2>1, <2>2, <2>3 DEF IndInv, StepsFollowDispatch, OnWire
<1>11. BrokerKeepsToPrefetch'
  <2>1. \A k \in Loops : unacked'[k] = unacked[k] \/ unacked'[k] = {}
    BY <1>y DEF Serve, Requeue
  <2> QED
    BY <2>1, FS_EmptySet DEF IndInv, BrokerKeepsToPrefetch
<1>12. NoneWaitsBehindAnother'
  <2>1. stream' \in [Loops -> SUBSET (Messages \cup {Lost})]
    BY <1>1 DEF TypeOK
  <2>2. \A k \in Loops : (stream'[k] \ {Lost}) \cup Busy(k)' \subseteq
                          (stream[k] \ {Lost}) \cup Busy(k)
    BY <1>t, <1>y DEF TypeOK, Busy, Serve, broker, control, work
  <2> QED
    BY <2>1, <2>2, FitsStill DEF Busy
<1>13. SettlementIsLast' /\ AckedAfterServed'
  BY DEF IndInv, Serve, broker, control, work, SettlementIsLast,
         AckedAfterServed, Owed
<1> QED BY <1>1, <1>2, <1>3, <1>4, <1>5, <1>6, <1>7, <1>8, <1>9, <1>10, <1>11,
       <1>12, <1>13 DEF IndInv

\* The shutdown future completes.
LEMMA RequestShutdownStep ==
    ASSUME IndInv, NEW l \in Loops, RequestShutdown(l)
    PROVE  IndInv'
<1>t. TypeOK
  BY DEF IndInv
<1>y. /\ shutdown \in [Loops -> BOOLEAN]
  BY DEF IndInv, TypeOK
<1>1. TypeOK'
  <2>1. shutdown' \in [Loops -> BOOLEAN]
    BY <1>y DEF RequestShutdown
  <2> QED
    BY <2>1 DEF IndInv, TypeOK, RequestShutdown, broker, control, work
<1>2. OneCustodian' /\ GoneIsEmpty' /\ ConsumerIsGone' /\ HandedIsHeld' /\
      StreamIsUnbegun' /\ BegunIsHeld' /\ SettledIsHeld' /\ BegunIsSettled'
      /\ StepsFollowDispatch' /\ SettlementIsLast' /\ AckedAfterServed' /\
      BrokerKeepsToPrefetch' /\ NoneWaitsBehindAnother'
  BY DEF IndInv, RequestShutdown, broker, control, work, OneCustodian,
         GoneIsEmpty, ConsumerIsGone, HandedIsHeld, StreamIsUnbegun,
         BegunIsHeld, SettledIsHeld, BegunIsSettled, StepsFollowDispatch,
         SettlementIsLast, AckedAfterServed, BrokerKeepsToPrefetch,
         NoneWaitsBehindAnother, Busy, OnWire, Owed
<1> QED BY <1>1, <1>2 DEF IndInv

\* A turn of the select finds the shutdown pending.
LEMMA PollShutdownStep ==
    ASSUME IndInv, NEW l \in Loops, PollShutdown(l)
    PROVE  IndInv'
<1>1. TypeOK'
  <2>1. pending \in [Loops -> BOOLEAN]
    BY DEF IndInv, TypeOK
  <2>2. pending' \in [Loops -> BOOLEAN]
    BY <2>1 DEF PollShutdown
  <2> QED
    BY <2>2 DEF IndInv, TypeOK, PollShutdown, broker, control, work
<1>2. OneCustodian' /\ GoneIsEmpty' /\ ConsumerIsGone' /\ HandedIsHeld' /\
      StreamIsUnbegun' /\ BegunIsHeld' /\ SettledIsHeld' /\ BegunIsSettled'
      /\ StepsFollowDispatch' /\ SettlementIsLast' /\ AckedAfterServed' /\
      BrokerKeepsToPrefetch' /\ NoneWaitsBehindAnother'
  BY DEF IndInv, PollShutdown, broker, work, OneCustodian,
         GoneIsEmpty, ConsumerIsGone, HandedIsHeld, StreamIsUnbegun,
         BegunIsHeld, SettledIsHeld, BegunIsSettled, StepsFollowDispatch,
         SettlementIsLast, AckedAfterServed, BrokerKeepsToPrefetch,
         NoneWaitsBehindAnother, Busy, OnWire, Owed
<1> QED BY <1>1, <1>2 DEF IndInv

\* The loop notices the shutdown.
LEMMA NoticeShutdownStep ==
    ASSUME IndInv, NEW l \in Loops, NoticeShutdown(l)
    PROVE  IndInv'
<1>t. TypeOK
  BY DEF IndInv
<1>y. /\ phase \in [Loops -> {"idle", "serving", "draining", "returned"}]
      /\ stopped \in [Loops -> {"none", "ShutdownRequested", "ConsumerClosed"}]
  BY DEF IndInv, TypeOK
<1>1. TypeOK'
  <2>1. phase' \in [Loops -> {"idle", "serving", "draining", "returned"}]
    BY <1>y DEF NoticeShutdown
  <2>2. stopped' \in [Loops -> {"none", "ShutdownRequested", "ConsumerClosed"}]
    BY <1>y DEF NoticeShutdown
  <2> QED
    BY <2>1, <2>2 DEF IndInv, TypeOK, NoticeShutdown, broker, control, work
<1>2. GoneIsEmpty'
  BY <1>y DEF IndInv, GoneIsEmpty, NoticeShutdown, broker, control, work
<1>3. ConsumerIsGone'
  BY <1>y DEF IndInv, ConsumerIsGone, NoticeShutdown, broker, control, work
<1>4. OneCustodian' /\ HandedIsHeld' /\ StreamIsUnbegun' /\ BegunIsHeld' /\
      SettledIsHeld' /\ BegunIsSettled' /\ StepsFollowDispatch' /\
      SettlementIsLast' /\ AckedAfterServed' /\ BrokerKeepsToPrefetch' /\
      NoneWaitsBehindAnother'
  BY DEF IndInv, NoticeShutdown, broker, control, work, OneCustodian,
         HandedIsHeld, StreamIsUnbegun, BegunIsHeld, SettledIsHeld,
         BegunIsSettled, StepsFollowDispatch, SettlementIsLast,
         AckedAfterServed, BrokerKeepsToPrefetch, NoneWaitsBehindAnother,
         Busy, OnWire, Owed
<1> QED BY <1>1, <1>2, <1>3, <1>4 DEF IndInv

\* A completed future leaves: its settlement is on the wire.
LEMMA ReapStep ==
    ASSUME IndInv, NEW l \in Loops, NEW m \in Messages \cup {Lost}, Reap(l, m)
    PROVE  IndInv'
<1>t. TypeOK
  BY DEF IndInv
<1>b. step' = [step EXCEPT ![l][m] = "none"] /\ "none" \in Steps
  BY DEF Reap, Advance, Steps
<1>c. /\ step' \in [Loops -> [Messages \cup {Lost} -> Steps]]
      /\ \A k \in Loops, n \in Messages \cup {Lost} :
           step'[k][n] = IF k = l /\ n = m THEN "none" ELSE step[k][n]
  BY <1>t, <1>b, Advanced
<1>1. TypeOK'
  <2>1. step' \in [Loops -> [Messages \cup {Lost} -> Steps]]
    BY <1>c DEF Reap
  <2> QED
    BY <2>1 DEF IndInv, TypeOK, Reap, broker, control, work
<1>2. GoneIsEmpty'
  BY <1>c DEF IndInv, GoneIsEmpty, Reap, broker, control, work
<1>3. HandedIsHeld'
  BY <1>c DEF IndInv, HandedIsHeld, Reap, broker, control, work, Busy, OnWire
<1>4. StreamIsUnbegun'
  BY <1>c DEF IndInv, StreamIsUnbegun, Reap, broker, control, work
<1>5. BegunIsHeld'
  BY <1>c DEF IndInv, BegunIsHeld, Reap, broker, control, work, Busy
<1>6. BegunIsSettled'
  BY <1>c DEF IndInv, BegunIsSettled, Reap, broker, control, work, Busy,
         OnWire
<1>7. StepsFollowDispatch'
  BY <1>c DEF IndInv, StepsFollowDispatch, Reap, broker, control, work, OnWire
<1>8. NoneWaitsBehindAnother'
  <2>1. stream' \in [Loops -> SUBSET (Messages \cup {Lost})]
    BY <1>1 DEF TypeOK
  <2>2. \A k \in Loops : (stream'[k] \ {Lost}) \cup Busy(k)' \subseteq
                          (stream[k] \ {Lost}) \cup Busy(k)
    BY <1>t, <1>c DEF TypeOK, Busy, Reap, broker, control, work
  <2> QED
    BY <2>1, <2>2, FitsStill DEF Busy
<1>9. OneCustodian' /\ ConsumerIsGone' /\ SettledIsHeld' /\ SettlementIsLast' /\
      AckedAfterServed' /\ BrokerKeepsToPrefetch'
  BY DEF IndInv, Reap, broker, control, work, OneCustodian, ConsumerIsGone,
         SettledIsHeld, SettlementIsLast, AckedAfterServed,
         BrokerKeepsToPrefetch, OnWire, Owed
<1> QED BY <1>1, <1>2, <1>3, <1>4, <1>5, <1>6, <1>7, <1>8, <1>9 DEF IndInv

\* A delivery is started: it was handed over and not started before.
LEMMA StartStep ==
    ASSUME IndInv, NEW l \in Loops, NEW m \in Messages \cup {Lost}, Start(l, m)
    PROVE  IndInv'
<1>t. TypeOK
  BY DEF IndInv
<1>a. PICK to \in Steps : step' = [step EXCEPT ![l][m] = to] /\ to =
            (IF m = Lost THEN "complete" ELSE "read")
  BY DEF Start, Advance, Steps
<1>b. to =
            (IF m = Lost THEN "complete" ELSE "read")
  BY <1>a
<1>d. step' = [step EXCEPT ![l][m] = to]
  BY <1>a
<1>c. /\ step' \in [Loops -> [Messages \cup {Lost} -> Steps]]
      /\ \A k \in Loops, n \in Messages \cup {Lost} :
           step'[k][n] = IF k = l /\ n = m THEN to ELSE step[k][n]
  BY <1>t, <1>d, Advanced
<1>y. /\ stream \in [Loops -> SUBSET (Messages \cup {Lost})]
      /\ begun \in [Loops -> SUBSET (Messages \cup {Lost})]
  BY DEF IndInv, TypeOK
<1>1. TypeOK'
  <2>1. stream' \in [Loops -> SUBSET (Messages \cup {Lost})]
    BY <1>y, <1>b, <1>c DEF Start
  <2>2. step' \in [Loops -> [Messages \cup {Lost} -> Steps]]
    BY <1>y, <1>b, <1>c DEF Start
  <2>3. begun' \in [Loops -> SUBSET (Messages \cup {Lost})]
    BY <1>y, <1>b, <1>c DEF Start
  <2> QED
    BY <2>1, <2>2, <2>3 DEF IndInv, TypeOK, Start, broker, control, work
<1>2. GoneIsEmpty'
  BY <1>y, <1>c DEF IndInv, GoneIsEmpty, Start, broker, control, work
<1>3. HandedIsHeld'
  BY <1>y, <1>b, <1>c DEF IndInv, HandedIsHeld, Start, broker, control, work,
         Busy, OnWire
<1>4. StreamIsUnbegun'
  BY <1>y, <1>b, <1>c DEF IndInv, StreamIsUnbegun, Start, broker, control,
         work
<1>5. BegunIsHeld'
  BY <1>y, <1>b, <1>c DEF IndInv, BegunIsHeld, Start, broker, control, work,
         Busy, HandedIsHeld
<1>6. BegunIsSettled'
  BY <1>y, <1>b, <1>c DEF IndInv, BegunIsSettled, Start, broker, control,
         work, Busy, OnWire
<1>7. StepsFollowDispatch'
  BY <1>y, <1>b, <1>c DEF IndInv, StepsFollowDispatch, Start, broker, control,
         work, OnWire
<1>8. NoneWaitsBehindAnother'
  <2>1. stream' \in [Loops -> SUBSET (Messages \cup {Lost})]
    BY <1>1 DEF TypeOK
  <2>2. \A k \in Loops : (stream'[k] \ {Lost}) \cup Busy(k)' \subseteq
                          (stream[k] \ {Lost}) \cup Busy(k)
    BY <1>t, <1>y, <1>b, <1>c DEF TypeOK, Busy, Start, broker, control, work
  <2> QED
    BY <2>1, <2>2, FitsStill DEF Busy
<1>9. OneCustodian' /\ ConsumerIsGone' /\ SettledIsHeld' /\ SettlementIsLast' /\
      AckedAfterServed' /\ BrokerKeepsToPrefetch'
  BY DEF IndInv, Start, broker, control, work, OneCustodian, ConsumerIsGone,
         SettledIsHeld, SettlementIsLast, AckedAfterServed,
         BrokerKeepsToPrefetch, OnWire, Owed
<1> QED BY <1>1, <1>2, <1>3, <1>4, <1>5, <1>6, <1>7, <1>8, <1>9 DEF IndInv

\* The loop notices the end of the stream.
LEMMA NoticeClosedStep ==
    ASSUME IndInv, NEW l \in Loops, NoticeClosed(l)
    PROVE  IndInv'
<1>t. TypeOK
  BY DEF IndInv
<1>y. /\ phase \in [Loops -> {"idle", "serving", "draining", "returned"}]
      /\ stopped \in [Loops -> {"none", "ShutdownRequested", "ConsumerClosed"}]
  BY DEF IndInv, TypeOK
<1>1. TypeOK'
  <2>1. phase' \in [Loops -> {"idle", "serving", "draining", "returned"}]
    BY <1>y DEF NoticeClosed
  <2>2. stopped' \in [Loops -> {"none", "ShutdownRequested", "ConsumerClosed"}]
    BY <1>y DEF NoticeClosed
  <2> QED
    BY <2>1, <2>2 DEF IndInv, TypeOK, NoticeClosed, broker, control, work
<1>2. GoneIsEmpty'
  BY <1>y DEF IndInv, GoneIsEmpty, NoticeClosed, broker, control, work
<1>3. ConsumerIsGone'
  BY <1>y DEF IndInv, ConsumerIsGone, NoticeClosed, broker, control, work
<1>4. OneCustodian' /\ HandedIsHeld' /\ StreamIsUnbegun' /\ BegunIsHeld' /\
      SettledIsHeld' /\ BegunIsSettled' /\ StepsFollowDispatch' /\
      SettlementIsLast' /\ AckedAfterServed' /\ BrokerKeepsToPrefetch' /\
      NoneWaitsBehindAnother'
  BY DEF IndInv, NoticeClosed, broker, control, work, OneCustodian,
         HandedIsHeld, StreamIsUnbegun, BegunIsHeld, SettledIsHeld,
         BegunIsSettled, StepsFollowDispatch, SettlementIsLast,
         AckedAfterServed, BrokerKeepsToPrefetch, NoneWaitsBehindAnother,
         Busy, OnWire, Owed
<1> QED BY <1>1, <1>2, <1>3, <1>4 DEF IndInv

\* The cancel is sent.
LEMMA StopConsumingStep ==
    ASSUME IndInv, NEW l \in Loops, StopConsuming(l)
    PROVE  IndInv'
<1>t. TypeOK
  BY DEF IndInv
<1>s. /\ Cancel \in Frames
      /\ wire' = IF open[l] THEN [wire EXCEPT ![l] = Append(@, Cancel)] ELSE wire
  BY FramesDiffer DEF StopConsuming, Send
<1>w. /\ wire' \in [Loops -> Seq(Frames)]
  BY <1>t, <1>s, Sent
<1>u. \A k \in Loops : ~open[k] => wire'[k] = wire[k]
  BY <1>t, <1>s, Sent
<1>x. ASSUME NEW k \in Loops, NEW other \in Frames
      PROVE  (\E i \in DOMAIN wire'[k] : wire'[k][i] = other) <=>
                \/ \E i \in DOMAIN wire[k] : wire[k][i] = other
                \/ k = l /\ open[l] /\ other = Cancel
  BY <1>t, <1>s, SentOnWire
<1>z. \A k \in Loops, n \in Messages :
        /\ (\E i \in DOMAIN wire'[k] : wire'[k][i] = Settle(n)) <=>
             (\E i \in DOMAIN wire[k] : wire[k][i] = Settle(n))
        /\ (\E i \in DOMAIN wire'[k] : wire'[k][i] = ReplyTo(n)) <=>
             (\E i \in DOMAIN wire[k] : wire[k][i] = ReplyTo(n))
  BY <1>x, FramesDiffer
<1>y. /\ stop \in [Loops -> {"unpolled", "sent", "done"}]
  BY DEF IndInv, TypeOK
<1>1. TypeOK'
  <2>1. wire' \in [Loops -> Seq(Frames)]
    BY <1>y, <1>w DEF StopConsuming
  <2>2. stop' \in [Loops -> {"unpolled", "sent", "done"}]
    BY <1>y, <1>w DEF StopConsuming
  <2> QED
    BY <2>1, <2>2 DEF IndInv, TypeOK, StopConsuming, broker, control, work
<1>2. GoneIsEmpty'
  BY <1>y, <1>u DEF IndInv, GoneIsEmpty, StopConsuming, broker, control, work
<1>3. ConsumerIsGone'
  BY <1>y, <1>w, <1>z DEF IndInv, ConsumerIsGone, StopConsuming, broker,
         control, work, GoneIsEmpty
<1>4. HandedIsHeld'
  BY <1>y, <1>z DEF IndInv, HandedIsHeld, StopConsuming, broker, control,
         work, Busy, OnWire
<1>5. SettledIsHeld'
  BY <1>y, <1>z DEF IndInv, SettledIsHeld, StopConsuming, broker, control,
         work, OnWire
<1>6. BegunIsSettled'
  BY <1>y, <1>z DEF IndInv, BegunIsSettled, StopConsuming, broker, control,
         work, Busy, OnWire
<1>7. StepsFollowDispatch'
  BY <1>y, <1>z DEF IndInv, StepsFollowDispatch, StopConsuming, broker,
         control, work, OnWire
<1>8. SettlementIsLast'
  <2> SUFFICES ASSUME NEW k \in Loops, NEW n \in Messages, NEW i \in DOMAIN wire'[k],
                      wire'[k][i] = Settle(n)
               PROVE  /\ kind[n] \in {"ask", "tell"} => ran[n] > 0
                      /\ kind[n] \in {"ask", "refused"} =>
                          \/ n \in replied \cup silent
                          \/ \E j \in 1..(i - 1) : wire'[k][j] = ReplyTo(n)
    BY DEF SettlementIsLast, StopConsuming, control, work
  <2>1. DOMAIN wire[k] = 1..Len(wire[k]) /\ Len(wire[k]) \in Nat
    BY DEF IndInv, TypeOK
  <2>2. CASE i \in 1..Len(wire[k])
    <3>1. wire[k][i] = Settle(n)
      BY <1>s, <2>2, <1>t, Sent
    <3>2. \A j \in 1..(i - 1) : wire'[k][j] = wire[k][j]
      BY <1>s, <2>1, <2>2, <1>t, Sent
    <3> QED
      BY <2>1, <2>2, <3>1, <3>2 DEF IndInv, SettlementIsLast
  <2>3. CASE k = l /\ open[l] /\ i = Len(wire[l]) + 1 /\ wire'[k][i] = Cancel
    BY <2>3, FramesDiffer
  <2>4. i \in 1..Len(wire[k]) \/ (k = l /\ open[l] /\ i = Len(wire[l]) + 1 /\ wire'[k][i] = Cancel)
    BY <1>s, <1>t, Sent, FramesDiffer
  <2> QED
    BY <2>2, <2>3, <2>4
<1>9. OneCustodian' /\ StreamIsUnbegun' /\ BegunIsHeld' /\ AckedAfterServed' /\
      BrokerKeepsToPrefetch' /\ NoneWaitsBehindAnother'
  BY DEF IndInv, StopConsuming, broker, control, work, OneCustodian,
         StreamIsUnbegun, BegunIsHeld, AckedAfterServed,
         BrokerKeepsToPrefetch, NoneWaitsBehindAnother, Busy, Owed
<1> QED BY <1>1, <1>2, <1>3, <1>4, <1>5, <1>6, <1>7, <1>8, <1>9 DEF IndInv

\* The loop returns with nothing in flight.
LEMMA ReturnStep ==
    ASSUME IndInv, NEW l \in Loops, Return(l)
    PROVE  IndInv'
<1>t. TypeOK
  BY DEF IndInv
<1>y. /\ phase \in [Loops -> {"idle", "serving", "draining", "returned"}]
      /\ stream \in [Loops -> SUBSET (Messages \cup {Lost})]
  BY DEF IndInv, TypeOK
<1>1. TypeOK'
  <2>1. phase' \in [Loops -> {"idle", "serving", "draining", "returned"}]
    BY <1>y DEF Return, Started
  <2>2. stream' \in [Loops -> SUBSET (Messages \cup {Lost})]
    BY <1>y DEF Return, Started
  <2> QED
    BY <2>1, <2>2 DEF IndInv, TypeOK, Return, broker, control, work, Started
<1>2. GoneIsEmpty'
  BY <1>y DEF IndInv, GoneIsEmpty, Return, broker, control, work, Started
<1>3. ConsumerIsGone'
  BY <1>y, <1>t DEF IndInv, ConsumerIsGone, Return, broker, control, work,
         Started, TypeOK
<1>4. HandedIsHeld'
  BY <1>y DEF IndInv, HandedIsHeld, Return, broker, control, work, Started,
         Busy, OnWire
<1>5. StreamIsUnbegun'
  BY <1>y DEF IndInv, StreamIsUnbegun, Return, broker, control, work, Started
<1>6. NoneWaitsBehindAnother'
  <2>1. stream' \in [Loops -> SUBSET (Messages \cup {Lost})]
    BY <1>1 DEF TypeOK
  <2>2. \A k \in Loops : (stream'[k] \ {Lost}) \cup Busy(k)' \subseteq
                          (stream[k] \ {Lost}) \cup Busy(k)
    BY <1>t, <1>y DEF TypeOK, Busy, Return, broker, control, work, Started
  <2> QED
    BY <2>1, <2>2, FitsStill DEF Busy
<1>7. OneCustodian' /\ BegunIsHeld' /\ SettledIsHeld' /\ BegunIsSettled' /\
      StepsFollowDispatch' /\ SettlementIsLast' /\ AckedAfterServed' /\
      BrokerKeepsToPrefetch'
  BY DEF IndInv, Return, broker, control, work, Started, OneCustodian,
         BegunIsHeld, SettledIsHeld, BegunIsSettled, StepsFollowDispatch,
         SettlementIsLast, AckedAfterServed, BrokerKeepsToPrefetch, Busy,
         OnWire, Owed
<1> QED BY <1>1, <1>2, <1>3, <1>4, <1>5, <1>6, <1>7 DEF IndInv

\* A delivery is dispatched: the handler it asks for is called.
LEMMA DispatchStep ==
    ASSUME IndInv, NEW l \in Loops, NEW m \in Messages, Dispatch(l, m)
    PROVE  IndInv'
<1>t. TypeOK
  BY DEF IndInv
<1>a. PICK to \in Steps : step' = [step EXCEPT ![l][m] = to] /\ to =
            (CASE kind[m] = "unaddressed" -> "rejecting"
            [] kind[m] = "refused" -> "replying"
            [] OTHER -> "running")
  BY DEF Dispatch, Advance, Steps
<1>b. to =
            (CASE kind[m] = "unaddressed" -> "rejecting"
            [] kind[m] = "refused" -> "replying"
            [] OTHER -> "running")
  BY <1>a
<1>d. step' = [step EXCEPT ![l][m] = to]
  BY <1>a
<1>c. /\ step' \in [Loops -> [Messages \cup {Lost} -> Steps]]
      /\ \A k \in Loops, n \in Messages \cup {Lost} :
           step'[k][n] = IF k = l /\ n = m THEN to ELSE step[k][n]
  BY <1>t, <1>d, Advanced
<1>y. /\ ran \in [Messages -> Nat]
  BY DEF IndInv, TypeOK
<1>1. TypeOK'
  <2>1. step' \in [Loops -> [Messages \cup {Lost} -> Steps]]
    BY <1>y, <1>b, <1>c DEF Dispatch, Kinds
  <2>2. ran' \in [Messages -> Nat]
    BY <1>y, <1>b, <1>c DEF Dispatch, Kinds
  <2> QED
    BY <2>1, <2>2 DEF IndInv, TypeOK, Dispatch, broker, control, work, Kinds
<1>2. GoneIsEmpty'
  BY <1>y, <1>b, <1>c DEF IndInv, GoneIsEmpty, Dispatch, broker, control,
         work, Kinds
<1>3. HandedIsHeld'
  BY <1>y, <1>b, <1>c DEF IndInv, HandedIsHeld, Dispatch, broker, control,
         work, Kinds, Busy, OnWire
<1>4. StreamIsUnbegun'
  BY <1>y, <1>b, <1>c DEF IndInv, StreamIsUnbegun, Dispatch, broker, control,
         work, Kinds
<1>5. BegunIsHeld'
  BY <1>y, <1>b, <1>c DEF IndInv, BegunIsHeld, Dispatch, broker, control,
         work, Kinds, Busy
<1>6. BegunIsSettled'
  BY <1>y, <1>b, <1>c DEF IndInv, BegunIsSettled, Dispatch, broker, control,
         work, Kinds, Busy, OnWire
<1>7. StepsFollowDispatch'
  <2>1. \A n \in Messages : ran'[n] > 0 \/ (ran'[n] = ran[n] /\ (n = m => kind[m] \notin {"ask", "tell"}))
    BY <1>y DEF Dispatch
  <2>2. \A n \in Messages : ran[n] > 0 => ran'[n] > 0
    BY <1>y DEF Dispatch
  <2>3. /\ to = "running" => kind[m] \in {"ask", "tell"}
        /\ to = "replying" => kind[m] = "refused"
        /\ to = "rejecting" => kind[m] = "unaddressed"
        /\ to # "acking"
    BY <1>a, <1>t DEF TypeOK, Kinds
  <2>4. UNCHANGED <<kind, open, replied, silent, wire>>
    BY DEF Dispatch, broker, work
  <2> QED
    BY <1>c, <2>1, <2>2, <2>3, <2>4 DEF IndInv, StepsFollowDispatch, OnWire
<1>8. SettlementIsLast'
  BY <1>y, <1>b, <1>c DEF IndInv, SettlementIsLast, Dispatch, broker, control,
         work, Kinds
<1>9. AckedAfterServed'
  BY <1>y, <1>b, <1>c DEF IndInv, AckedAfterServed, Dispatch, broker, control,
         work, Kinds, Owed
<1>10. NoneWaitsBehindAnother'
  <2>1. stream' \in [Loops -> SUBSET (Messages \cup {Lost})]
    BY <1>1 DEF TypeOK
  <2>2. \A k \in Loops : (stream'[k] \ {Lost}) \cup Busy(k)' \subseteq
                          (stream[k] \ {Lost}) \cup Busy(k)
    BY <1>t, <1>y, <1>b, <1>c DEF TypeOK, Busy, Dispatch, broker, control, work, Kinds
  <2> QED
    BY <2>1, <2>2, FitsStill DEF Busy
<1>11. OneCustodian' /\ ConsumerIsGone' /\ SettledIsHeld' /\ BrokerKeepsToPrefetch'
  BY DEF IndInv, Dispatch, broker, control, work, Kinds, OneCustodian,
         ConsumerIsGone, SettledIsHeld, BrokerKeepsToPrefetch, OnWire
<1> QED BY <1>1, <1>2, <1>3, <1>4, <1>5, <1>6, <1>7, <1>8, <1>9, <1>10, <1>11
       DEF IndInv

\* A handler returns.
LEMMA HandlerReturnsStep ==
    ASSUME IndInv, NEW l \in Loops, NEW m \in Messages, HandlerReturns(l, m)
    PROVE  IndInv'
<1>t. TypeOK
  BY DEF IndInv
<1>a. PICK to \in Steps : step' = [step EXCEPT ![l][m] = to] /\ to =
            (IF kind[m] = "ask" THEN "replying" ELSE "acking")
  BY DEF HandlerReturns, Advance, Steps
<1>b. to =
            (IF kind[m] = "ask" THEN "replying" ELSE "acking")
  BY <1>a
<1>d. step' = [step EXCEPT ![l][m] = to]
  BY <1>a
<1>c. /\ step' \in [Loops -> [Messages \cup {Lost} -> Steps]]
      /\ \A k \in Loops, n \in Messages \cup {Lost} :
           step'[k][n] = IF k = l /\ n = m THEN to ELSE step[k][n]
  BY <1>t, <1>d, Advanced
<1>1. TypeOK'
  <2>1. step' \in [Loops -> [Messages \cup {Lost} -> Steps]]
    BY <1>b, <1>c DEF HandlerReturns
  <2> QED
    BY <2>1 DEF IndInv, TypeOK, HandlerReturns, broker, control, work
<1>2. GoneIsEmpty'
  BY <1>b, <1>c DEF IndInv, GoneIsEmpty, HandlerReturns, broker, control, work
<1>3. HandedIsHeld'
  BY <1>b, <1>c DEF IndInv, HandedIsHeld, HandlerReturns, broker, control,
         work, Busy, OnWire
<1>4. StreamIsUnbegun'
  BY <1>b, <1>c DEF IndInv, StreamIsUnbegun, HandlerReturns, broker, control,
         work
<1>5. BegunIsHeld'
  BY <1>b, <1>c DEF IndInv, BegunIsHeld, HandlerReturns, broker, control,
         work, Busy
<1>6. BegunIsSettled'
  BY <1>b, <1>c DEF IndInv, BegunIsSettled, HandlerReturns, broker, control,
         work, Busy, OnWire
<1>7. StepsFollowDispatch'
  BY <1>b, <1>c DEF IndInv, StepsFollowDispatch, HandlerReturns, broker,
         control, work, OnWire
<1>8. NoneWaitsBehindAnother'
  <2>1. stream' \in [Loops -> SUBSET (Messages \cup {Lost})]
    BY <1>1 DEF TypeOK
  <2>2. \A k \in Loops : (stream'[k] \ {Lost}) \cup Busy(k)' \subseteq
                          (stream[k] \ {Lost}) \cup Busy(k)
    BY <1>t, <1>b, <1>c DEF TypeOK, Busy, HandlerReturns, broker, control, work
  <2> QED
    BY <2>1, <2>2, FitsStill DEF Busy
<1>9. OneCustodian' /\ ConsumerIsGone' /\ SettledIsHeld' /\ SettlementIsLast' /\
      AckedAfterServed' /\ BrokerKeepsToPrefetch'
  BY DEF IndInv, HandlerReturns, broker, control, work, OneCustodian,
         ConsumerIsGone, SettledIsHeld, SettlementIsLast, AckedAfterServed,
         BrokerKeepsToPrefetch, OnWire, Owed
<1> QED BY <1>1, <1>2, <1>3, <1>4, <1>5, <1>6, <1>7, <1>8, <1>9 DEF IndInv

\* A handler panics.
LEMMA HandlerPanicsStep ==
    ASSUME IndInv, NEW l \in Loops, NEW m \in Messages, HandlerPanics(l, m)
    PROVE  IndInv'
<1>t. TypeOK
  BY DEF IndInv
<1>a. PICK to \in Steps : step' = [step EXCEPT ![l][m] = to] /\ to =
            (IF kind[m] = "ask" THEN "replying" ELSE "acking")
  BY DEF HandlerPanics, Advance, Steps
<1>b. to =
            (IF kind[m] = "ask" THEN "replying" ELSE "acking")
  BY <1>a
<1>d. step' = [step EXCEPT ![l][m] = to]
  BY <1>a
<1>c. /\ step' \in [Loops -> [Messages \cup {Lost} -> Steps]]
      /\ \A k \in Loops, n \in Messages \cup {Lost} :
           step'[k][n] = IF k = l /\ n = m THEN to ELSE step[k][n]
  BY <1>t, <1>d, Advanced
<1>1. TypeOK'
  <2>1. step' \in [Loops -> [Messages \cup {Lost} -> Steps]]
    BY <1>b, <1>c DEF HandlerPanics
  <2> QED
    BY <2>1 DEF IndInv, TypeOK, HandlerPanics, broker, control, work
<1>2. GoneIsEmpty'
  BY <1>b, <1>c DEF IndInv, GoneIsEmpty, HandlerPanics, broker, control, work
<1>3. HandedIsHeld'
  BY <1>b, <1>c DEF IndInv, HandedIsHeld, HandlerPanics, broker, control,
         work, Busy, OnWire
<1>4. StreamIsUnbegun'
  BY <1>b, <1>c DEF IndInv, StreamIsUnbegun, HandlerPanics, broker, control,
         work
<1>5. BegunIsHeld'
  BY <1>b, <1>c DEF IndInv, BegunIsHeld, HandlerPanics, broker, control, work,
         Busy
<1>6. BegunIsSettled'
  BY <1>b, <1>c DEF IndInv, BegunIsSettled, HandlerPanics, broker, control,
         work, Busy, OnWire
<1>7. StepsFollowDispatch'
  BY <1>b, <1>c DEF IndInv, StepsFollowDispatch, HandlerPanics, broker,
         control, work, OnWire
<1>8. NoneWaitsBehindAnother'
  <2>1. stream' \in [Loops -> SUBSET (Messages \cup {Lost})]
    BY <1>1 DEF TypeOK
  <2>2. \A k \in Loops : (stream'[k] \ {Lost}) \cup Busy(k)' \subseteq
                          (stream[k] \ {Lost}) \cup Busy(k)
    BY <1>t, <1>b, <1>c DEF TypeOK, Busy, HandlerPanics, broker, control, work
  <2> QED
    BY <2>1, <2>2, FitsStill DEF Busy
<1>9. OneCustodian' /\ ConsumerIsGone' /\ SettledIsHeld' /\ SettlementIsLast' /\
      AckedAfterServed' /\ BrokerKeepsToPrefetch'
  BY DEF IndInv, HandlerPanics, broker, control, work, OneCustodian,
         ConsumerIsGone, SettledIsHeld, SettlementIsLast, AckedAfterServed,
         BrokerKeepsToPrefetch, OnWire, Owed
<1> QED BY <1>1, <1>2, <1>3, <1>4, <1>5, <1>6, <1>7, <1>8, <1>9 DEF IndInv

\* The reply is published, ahead of the acknowledgement.
LEMMA PublishStep ==
    ASSUME IndInv, NEW l \in Loops, NEW m \in Messages, Publish(l, m)
    PROVE  IndInv'
<1>t. TypeOK
  BY DEF IndInv
<1>b. step' = [step EXCEPT ![l][m] = "acking"] /\ "acking" \in Steps
  BY DEF Publish, Advance, Steps
<1>c. /\ step' \in [Loops -> [Messages \cup {Lost} -> Steps]]
      /\ \A k \in Loops, n \in Messages \cup {Lost} :
           step'[k][n] = IF k = l /\ n = m THEN "acking" ELSE step[k][n]
  BY <1>t, <1>b, Advanced
<1>s. /\ ReplyTo(m) \in Frames
      /\ wire' = IF open[l] THEN [wire EXCEPT ![l] = Append(@, ReplyTo(m))] ELSE wire
  BY FramesDiffer DEF Publish, Send
<1>w. /\ wire' \in [Loops -> Seq(Frames)]
  BY <1>t, <1>s, Sent
<1>u. \A k \in Loops : ~open[k] => wire'[k] = wire[k]
  BY <1>t, <1>s, Sent
<1>x. ASSUME NEW k \in Loops, NEW other \in Frames
      PROVE  (\E i \in DOMAIN wire'[k] : wire'[k][i] = other) <=>
                \/ \E i \in DOMAIN wire[k] : wire[k][i] = other
                \/ k = l /\ open[l] /\ other = ReplyTo(m)
  BY <1>t, <1>s, SentOnWire
<1>z. \A k \in Loops, n \in Messages :
        /\ (\E i \in DOMAIN wire'[k] : wire'[k][i] = Settle(n)) <=>
             (\E i \in DOMAIN wire[k] : wire[k][i] = Settle(n))
        /\ (\E i \in DOMAIN wire'[k] : wire'[k][i] = ReplyTo(n)) <=>
             (\E i \in DOMAIN wire[k] : wire[k][i] = ReplyTo(n)) \/ (k = l /\ open[l] /\ n = m)
  BY <1>x, FramesDiffer
<1>1. TypeOK'
  <2>1. wire' \in [Loops -> Seq(Frames)]
    BY <1>c, <1>w DEF Publish
  <2>2. step' \in [Loops -> [Messages \cup {Lost} -> Steps]]
    BY <1>c, <1>w DEF Publish
  <2> QED
    BY <2>1, <2>2 DEF IndInv, TypeOK, Publish, broker, control, work
<1>2. GoneIsEmpty'
  BY <1>c, <1>u DEF IndInv, GoneIsEmpty, Publish, broker, control, work
<1>3. HandedIsHeld'
  BY <1>c, <1>z DEF IndInv, HandedIsHeld, Publish, broker, control, work,
         Busy, OnWire
<1>4. StreamIsUnbegun'
  BY <1>c DEF IndInv, StreamIsUnbegun, Publish, broker, control, work
<1>5. BegunIsHeld'
  BY <1>c DEF IndInv, BegunIsHeld, Publish, broker, control, work, Busy
<1>6. SettledIsHeld'
  BY <1>c, <1>z DEF IndInv, SettledIsHeld, Publish, broker, control, work,
         OnWire
<1>7. BegunIsSettled'
  BY <1>c, <1>z DEF IndInv, BegunIsSettled, Publish, broker, control, work,
         Busy, OnWire
<1>8. StepsFollowDispatch'
  BY <1>c, <1>z DEF IndInv, StepsFollowDispatch, Publish, broker, control,
         work, OnWire
<1>9. SettlementIsLast'
  <2> SUFFICES ASSUME NEW k \in Loops, NEW n \in Messages, NEW i \in DOMAIN wire'[k],
                      wire'[k][i] = Settle(n)
               PROVE  /\ kind[n] \in {"ask", "tell"} => ran[n] > 0
                      /\ kind[n] \in {"ask", "refused"} =>
                          \/ n \in replied \cup silent
                          \/ \E j \in 1..(i - 1) : wire'[k][j] = ReplyTo(n)
    BY DEF SettlementIsLast, Publish, control, work
  <2>1. DOMAIN wire[k] = 1..Len(wire[k]) /\ Len(wire[k]) \in Nat
    BY DEF IndInv, TypeOK
  <2>2. CASE i \in 1..Len(wire[k])
    <3>1. wire[k][i] = Settle(n)
      BY <1>s, <2>2, <1>t, Sent
    <3>2. \A j \in 1..(i - 1) : wire'[k][j] = wire[k][j]
      BY <1>s, <2>1, <2>2, <1>t, Sent
    <3> QED
      BY <2>1, <2>2, <3>1, <3>2 DEF IndInv, SettlementIsLast
  <2>3. CASE k = l /\ open[l] /\ i = Len(wire[l]) + 1 /\ wire'[k][i] = ReplyTo(m)
    BY <2>3, FramesDiffer
  <2> QED
    BY <1>s, <2>2, <2>3, <1>t, Sent
<1>10. NoneWaitsBehindAnother'
  <2>1. stream' \in [Loops -> SUBSET (Messages \cup {Lost})]
    BY <1>1 DEF TypeOK
  <2>2. \A k \in Loops : (stream'[k] \ {Lost}) \cup Busy(k)' \subseteq
                          (stream[k] \ {Lost}) \cup Busy(k)
    BY <1>t, <1>c DEF TypeOK, Busy, Publish, broker, control, work
  <2> QED
    BY <2>1, <2>2, FitsStill DEF Busy
<1>11. OneCustodian' /\ ConsumerIsGone' /\ AckedAfterServed' /\
      BrokerKeepsToPrefetch'
  BY DEF IndInv, Publish, broker, control, work, OneCustodian, ConsumerIsGone,
         AckedAfterServed, BrokerKeepsToPrefetch, Owed
<1> QED BY <1>1, <1>2, <1>3, <1>4, <1>5, <1>6, <1>7, <1>8, <1>9, <1>10, <1>11
       DEF IndInv

\* There is no reply to publish.
LEMMA PublishNothingStep ==
    ASSUME IndInv, NEW l \in Loops, NEW m \in Messages, PublishNothing(l, m)
    PROVE  IndInv'
<1>t. TypeOK
  BY DEF IndInv
<1>b. step' = [step EXCEPT ![l][m] = "acking"] /\ "acking" \in Steps
  BY DEF PublishNothing, Advance, Steps
<1>c. /\ step' \in [Loops -> [Messages \cup {Lost} -> Steps]]
      /\ \A k \in Loops, n \in Messages \cup {Lost} :
           step'[k][n] = IF k = l /\ n = m THEN "acking" ELSE step[k][n]
  BY <1>t, <1>b, Advanced
<1>y. /\ silent \subseteq Messages
  BY DEF IndInv, TypeOK
<1>1. TypeOK'
  <2>1. step' \in [Loops -> [Messages \cup {Lost} -> Steps]]
    BY <1>y, <1>c DEF PublishNothing
  <2>2. silent' \subseteq Messages
    BY <1>y, <1>c DEF PublishNothing
  <2> QED
    BY <2>1, <2>2 DEF IndInv, TypeOK, PublishNothing, broker, control, work
<1>2. GoneIsEmpty'
  BY <1>y, <1>c DEF IndInv, GoneIsEmpty, PublishNothing, broker, control, work
<1>3. HandedIsHeld'
  BY <1>y, <1>c DEF IndInv, HandedIsHeld, PublishNothing, broker, control,
         work, Busy, OnWire
<1>4. StreamIsUnbegun'
  BY <1>y, <1>c DEF IndInv, StreamIsUnbegun, PublishNothing, broker, control,
         work
<1>5. BegunIsHeld'
  BY <1>y, <1>c DEF IndInv, BegunIsHeld, PublishNothing, broker, control,
         work, Busy
<1>6. BegunIsSettled'
  BY <1>y, <1>c DEF IndInv, BegunIsSettled, PublishNothing, broker, control,
         work, Busy, OnWire
<1>7. StepsFollowDispatch'
  BY <1>y, <1>c DEF IndInv, StepsFollowDispatch, PublishNothing, broker,
         control, work, OnWire
<1>8. SettlementIsLast'
  BY <1>y, <1>c DEF IndInv, SettlementIsLast, PublishNothing, broker, control,
         work
<1>9. AckedAfterServed'
  BY <1>y, <1>c DEF IndInv, AckedAfterServed, PublishNothing, broker, control,
         work, Owed
<1>10. NoneWaitsBehindAnother'
  <2>1. stream' \in [Loops -> SUBSET (Messages \cup {Lost})]
    BY <1>1 DEF TypeOK
  <2>2. \A k \in Loops : (stream'[k] \ {Lost}) \cup Busy(k)' \subseteq
                          (stream[k] \ {Lost}) \cup Busy(k)
    BY <1>t, <1>y, <1>c DEF TypeOK, Busy, PublishNothing, broker, control, work
  <2> QED
    BY <2>1, <2>2, FitsStill DEF Busy
<1>11. OneCustodian' /\ ConsumerIsGone' /\ SettledIsHeld' /\ BrokerKeepsToPrefetch'
  BY DEF IndInv, PublishNothing, broker, control, work, OneCustodian,
         ConsumerIsGone, SettledIsHeld, BrokerKeepsToPrefetch, OnWire
<1> QED BY <1>1, <1>2, <1>3, <1>4, <1>5, <1>6, <1>7, <1>8, <1>9, <1>10, <1>11
       DEF IndInv

\* The acknowledgement goes out behind all it owes.
LEMMA AcknowledgeStep ==
    ASSUME IndInv, NEW l \in Loops, NEW m \in Messages, Acknowledge(l, m)
    PROVE  IndInv'
<1>t. TypeOK
  BY DEF IndInv
<1>b. step' = [step EXCEPT ![l][m] = "complete"] /\ "complete" \in Steps
  BY DEF Acknowledge, Advance, Steps
<1>c. /\ step' \in [Loops -> [Messages \cup {Lost} -> Steps]]
      /\ \A k \in Loops, n \in Messages \cup {Lost} :
           step'[k][n] = IF k = l /\ n = m THEN "complete" ELSE step[k][n]
  BY <1>t, <1>b, Advanced
<1>s. /\ Settle(m) \in Frames
      /\ wire' = IF open[l] THEN [wire EXCEPT ![l] = Append(@, Settle(m))] ELSE wire
  BY FramesDiffer DEF Acknowledge, Send
<1>w. /\ wire' \in [Loops -> Seq(Frames)]
  BY <1>t, <1>s, Sent
<1>u. \A k \in Loops : ~open[k] => wire'[k] = wire[k]
  BY <1>t, <1>s, Sent
<1>x. ASSUME NEW k \in Loops, NEW other \in Frames
      PROVE  (\E i \in DOMAIN wire'[k] : wire'[k][i] = other) <=>
                \/ \E i \in DOMAIN wire[k] : wire[k][i] = other
                \/ k = l /\ open[l] /\ other = Settle(m)
  BY <1>t, <1>s, SentOnWire
<1>z. \A k \in Loops, n \in Messages :
        /\ (\E i \in DOMAIN wire'[k] : wire'[k][i] = Settle(n)) <=>
             (\E i \in DOMAIN wire[k] : wire[k][i] = Settle(n)) \/ (k = l /\ open[l] /\ n = m)
        /\ (\E i \in DOMAIN wire'[k] : wire'[k][i] = ReplyTo(n)) <=>
             (\E i \in DOMAIN wire[k] : wire[k][i] = ReplyTo(n))
  BY <1>x, FramesDiffer
<1>1. TypeOK'
  <2>1. wire' \in [Loops -> Seq(Frames)]
    BY <1>c, <1>w DEF Acknowledge
  <2>2. step' \in [Loops -> [Messages \cup {Lost} -> Steps]]
    BY <1>c, <1>w DEF Acknowledge
  <2> QED
    BY <2>1, <2>2 DEF IndInv, TypeOK, Acknowledge, broker, control, work
<1>2. GoneIsEmpty'
  BY <1>c, <1>u DEF IndInv, GoneIsEmpty, Acknowledge, broker, control, work
<1>3. HandedIsHeld'
  BY <1>c, <1>z DEF IndInv, HandedIsHeld, Acknowledge, broker, control, work,
         Busy, OnWire, StreamIsUnbegun
<1>4. StreamIsUnbegun'
  BY <1>c DEF IndInv, StreamIsUnbegun, Acknowledge, broker, control, work
<1>5. BegunIsHeld'
  BY <1>c DEF IndInv, BegunIsHeld, Acknowledge, broker, control, work, Busy
<1>6. SettledIsHeld'
  BY <1>c, <1>z DEF IndInv, SettledIsHeld, Acknowledge, broker, control, work,
         OnWire, HandedIsHeld, Busy
<1>7. BegunIsSettled'
  BY <1>c, <1>z DEF IndInv, BegunIsSettled, Acknowledge, broker, control,
         work, Busy, OnWire
<1>8. StepsFollowDispatch'
  BY <1>c, <1>z DEF IndInv, StepsFollowDispatch, Acknowledge, broker, control,
         work, OnWire
<1>9. SettlementIsLast'
  <2> SUFFICES ASSUME NEW k \in Loops, NEW n \in Messages, NEW i \in DOMAIN wire'[k],
                      wire'[k][i] = Settle(n)
               PROVE  /\ kind[n] \in {"ask", "tell"} => ran[n] > 0
                      /\ kind[n] \in {"ask", "refused"} =>
                          \/ n \in replied \cup silent
                          \/ \E j \in 1..(i - 1) : wire'[k][j] = ReplyTo(n)
    BY DEF SettlementIsLast, Acknowledge, control, work
  <2>1. DOMAIN wire[k] = 1..Len(wire[k]) /\ Len(wire[k]) \in Nat
    BY DEF IndInv, TypeOK
  <2>2. CASE i \in 1..Len(wire[k])
    <3>1. wire[k][i] = Settle(n)
      BY <1>s, <2>2, <1>t, Sent
    <3>2. \A j \in 1..(i - 1) : wire'[k][j] = wire[k][j]
      BY <1>s, <2>1, <2>2, <1>t, Sent
    <3> QED
      BY <2>1, <2>2, <3>1, <3>2 DEF IndInv, SettlementIsLast
  <2>3. CASE k = l /\ open[l] /\ i = Len(wire[l]) + 1 /\ wire'[k][i] = Settle(m)
    <3>1. n = m
      BY <2>3, FramesDiffer
    <3>2. /\ kind[m] \in {"ask", "tell"} => ran[m] > 0
          /\ kind[m] \in {"ask", "refused"} =>
              m \in replied \cup silent \/ OnWire(l, ReplyTo(m))
      BY <2>3 DEF Acknowledge, IndInv, StepsFollowDispatch
    <3>3. OnWire(l, ReplyTo(m)) => \E j \in 1..(i - 1) : wire'[l][j] = ReplyTo(m)
      <4>1. SUFFICES ASSUME NEW j \in DOMAIN wire[l], wire[l][j] = ReplyTo(m)
                     PROVE  j \in 1..(i - 1) /\ wire'[l][j] = ReplyTo(m)
        BY DEF OnWire
      <4> QED
        BY <1>s, <2>1, <2>3, <4>1, <1>t, Sent
    <3> QED
      BY <2>3, <3>1, <3>2, <3>3
  <2> QED
    BY <1>s, <2>2, <2>3, <1>t, Sent
<1>10. NoneWaitsBehindAnother'
  <2>1. stream' \in [Loops -> SUBSET (Messages \cup {Lost})]
    BY <1>1 DEF TypeOK
  <2>2. \A k \in Loops : (stream'[k] \ {Lost}) \cup Busy(k)' \subseteq
                          (stream[k] \ {Lost}) \cup Busy(k)
    BY <1>t, <1>c DEF TypeOK, Busy, Acknowledge, broker, control, work
  <2> QED
    BY <2>1, <2>2, FitsStill DEF Busy
<1>11. OneCustodian' /\ ConsumerIsGone' /\ AckedAfterServed' /\
      BrokerKeepsToPrefetch'
  BY DEF IndInv, Acknowledge, broker, control, work, OneCustodian,
         ConsumerIsGone, AckedAfterServed, BrokerKeepsToPrefetch, Owed
<1> QED BY <1>1, <1>2, <1>3, <1>4, <1>5, <1>6, <1>7, <1>8, <1>9, <1>10, <1>11
       DEF IndInv

\* The rejection of an unaddressed delivery goes out.
LEMMA RejectStep ==
    ASSUME IndInv, NEW l \in Loops, NEW m \in Messages, Reject(l, m)
    PROVE  IndInv'
<1>t. TypeOK
  BY DEF IndInv
<1>b. step' = [step EXCEPT ![l][m] = "complete"] /\ "complete" \in Steps
  BY DEF Reject, Advance, Steps
<1>c. /\ step' \in [Loops -> [Messages \cup {Lost} -> Steps]]
      /\ \A k \in Loops, n \in Messages \cup {Lost} :
           step'[k][n] = IF k = l /\ n = m THEN "complete" ELSE step[k][n]
  BY <1>t, <1>b, Advanced
<1>s. /\ Settle(m) \in Frames
      /\ wire' = IF open[l] THEN [wire EXCEPT ![l] = Append(@, Settle(m))] ELSE wire
  BY FramesDiffer DEF Reject, Send
<1>w. /\ wire' \in [Loops -> Seq(Frames)]
  BY <1>t, <1>s, Sent
<1>u. \A k \in Loops : ~open[k] => wire'[k] = wire[k]
  BY <1>t, <1>s, Sent
<1>x. ASSUME NEW k \in Loops, NEW other \in Frames
      PROVE  (\E i \in DOMAIN wire'[k] : wire'[k][i] = other) <=>
                \/ \E i \in DOMAIN wire[k] : wire[k][i] = other
                \/ k = l /\ open[l] /\ other = Settle(m)
  BY <1>t, <1>s, SentOnWire
<1>z. \A k \in Loops, n \in Messages :
        /\ (\E i \in DOMAIN wire'[k] : wire'[k][i] = Settle(n)) <=>
             (\E i \in DOMAIN wire[k] : wire[k][i] = Settle(n)) \/ (k = l /\ open[l] /\ n = m)
        /\ (\E i \in DOMAIN wire'[k] : wire'[k][i] = ReplyTo(n)) <=>
             (\E i \in DOMAIN wire[k] : wire[k][i] = ReplyTo(n))
  BY <1>x, FramesDiffer
<1>1. TypeOK'
  <2>1. wire' \in [Loops -> Seq(Frames)]
    BY <1>c, <1>w DEF Reject
  <2>2. step' \in [Loops -> [Messages \cup {Lost} -> Steps]]
    BY <1>c, <1>w DEF Reject
  <2> QED
    BY <2>1, <2>2 DEF IndInv, TypeOK, Reject, broker, control, work
<1>2. GoneIsEmpty'
  BY <1>c, <1>u DEF IndInv, GoneIsEmpty, Reject, broker, control, work
<1>3. HandedIsHeld'
  BY <1>c, <1>z DEF IndInv, HandedIsHeld, Reject, broker, control, work, Busy,
         OnWire, StreamIsUnbegun
<1>4. StreamIsUnbegun'
  BY <1>c DEF IndInv, StreamIsUnbegun, Reject, broker, control, work
<1>5. BegunIsHeld'
  BY <1>c DEF IndInv, BegunIsHeld, Reject, broker, control, work, Busy
<1>6. SettledIsHeld'
  BY <1>c, <1>z DEF IndInv, SettledIsHeld, Reject, broker, control, work,
         OnWire, HandedIsHeld, Busy
<1>7. BegunIsSettled'
  BY <1>c, <1>z DEF IndInv, BegunIsSettled, Reject, broker, control, work,
         Busy, OnWire
<1>8. StepsFollowDispatch'
  BY <1>c, <1>z DEF IndInv, StepsFollowDispatch, Reject, broker, control,
         work, OnWire
<1>9. SettlementIsLast'
  <2> SUFFICES ASSUME NEW k \in Loops, NEW n \in Messages, NEW i \in DOMAIN wire'[k],
                      wire'[k][i] = Settle(n)
               PROVE  /\ kind[n] \in {"ask", "tell"} => ran[n] > 0
                      /\ kind[n] \in {"ask", "refused"} =>
                          \/ n \in replied \cup silent
                          \/ \E j \in 1..(i - 1) : wire'[k][j] = ReplyTo(n)
    BY DEF SettlementIsLast, Reject, control, work
  <2>1. DOMAIN wire[k] = 1..Len(wire[k]) /\ Len(wire[k]) \in Nat
    BY DEF IndInv, TypeOK
  <2>2. CASE i \in 1..Len(wire[k])
    <3>1. wire[k][i] = Settle(n)
      BY <1>s, <2>2, <1>t, Sent
    <3>2. \A j \in 1..(i - 1) : wire'[k][j] = wire[k][j]
      BY <1>s, <2>1, <2>2, <1>t, Sent
    <3> QED
      BY <2>1, <2>2, <3>1, <3>2 DEF IndInv, SettlementIsLast
  <2>3. CASE k = l /\ open[l] /\ i = Len(wire[l]) + 1 /\ wire'[k][i] = Settle(m)
    <3>1. n = m
      BY <2>3, FramesDiffer
    <3>2. /\ kind[m] \in {"ask", "tell"} => ran[m] > 0
          /\ kind[m] \in {"ask", "refused"} =>
              m \in replied \cup silent \/ OnWire(l, ReplyTo(m))
      BY <2>3 DEF Reject, IndInv, StepsFollowDispatch
    <3>3. OnWire(l, ReplyTo(m)) => \E j \in 1..(i - 1) : wire'[l][j] = ReplyTo(m)
      <4>1. SUFFICES ASSUME NEW j \in DOMAIN wire[l], wire[l][j] = ReplyTo(m)
                     PROVE  j \in 1..(i - 1) /\ wire'[l][j] = ReplyTo(m)
        BY DEF OnWire
      <4> QED
        BY <1>s, <2>1, <2>3, <4>1, <1>t, Sent
    <3> QED
      BY <2>3, <3>1, <3>2, <3>3
  <2> QED
    BY <1>s, <2>2, <2>3, <1>t, Sent
<1>10. NoneWaitsBehindAnother'
  <2>1. stream' \in [Loops -> SUBSET (Messages \cup {Lost})]
    BY <1>1 DEF TypeOK
  <2>2. \A k \in Loops : (stream'[k] \ {Lost}) \cup Busy(k)' \subseteq
                          (stream[k] \ {Lost}) \cup Busy(k)
    BY <1>t, <1>c DEF TypeOK, Busy, Reject, broker, control, work
  <2> QED
    BY <2>1, <2>2, FitsStill DEF Busy
<1>11. OneCustodian' /\ ConsumerIsGone' /\ AckedAfterServed' /\
      BrokerKeepsToPrefetch'
  BY DEF IndInv, Reject, broker, control, work, OneCustodian, ConsumerIsGone,
         AckedAfterServed, BrokerKeepsToPrefetch, Owed
<1> QED BY <1>1, <1>2, <1>3, <1>4, <1>5, <1>6, <1>7, <1>8, <1>9, <1>10, <1>11
       DEF IndInv

-----------------------------------------------------------------------------
\* Every message starts on the queue, and no loop holds anything.
LEMMA InitEstablishes == Init => IndInv
<1> SUFFICES ASSUME Init PROVE IndInv
  OBVIOUS
<1>1. TypeOK
  BY EmptyWire DEF Init, TypeOK, Steps
<1>2. OneCustodian /\ GoneIsEmpty /\ ConsumerIsGone
  BY DEF Init, OneCustodian, GoneIsEmpty, ConsumerIsGone
<1>3. HandedIsHeld /\ StreamIsUnbegun /\ BegunIsHeld /\ BegunIsSettled
  BY DEF Init, HandedIsHeld, StreamIsUnbegun, BegunIsHeld, BegunIsSettled, Busy
<1>4. \A l \in Loops : DOMAIN wire[l] = {}
  BY DEF Init
<1>5. SettledIsHeld /\ StepsFollowDispatch /\ SettlementIsLast /\ AckedAfterServed
  BY <1>4 DEF Init, SettledIsHeld, StepsFollowDispatch, SettlementIsLast,
     AckedAfterServed, OnWire
<1>6. BrokerKeepsToPrefetch
  BY FS_EmptySet DEF Init, BrokerKeepsToPrefetch
<1>7. \A l \in Loops : (stream[l] \ {Lost}) \cup Busy(l) = {}
  BY DEF Init, Busy
<1>8. NoneWaitsBehindAnother
  BY <1>7, FS_EmptySet DEF NoneWaitsBehindAnother
<1> QED
  BY <1>1, <1>2, <1>3, <1>5, <1>6, <1>8 DEF IndInv

\* A stutter keeps the invariant.
LEMMA StutterStep == IndInv /\ UNCHANGED vars => IndInv'
<1> SUFFICES ASSUME IndInv, UNCHANGED vars PROVE IndInv'
  OBVIOUS
<1> USE DEF IndInv, vars, broker, control, work
<1>1. TypeOK'
  BY DEF TypeOK
<1>2. OneCustodian' /\ GoneIsEmpty' /\ ConsumerIsGone' /\ BrokerKeepsToPrefetch'
  BY DEF OneCustodian, GoneIsEmpty, ConsumerIsGone, BrokerKeepsToPrefetch
<1>3. HandedIsHeld' /\ StreamIsUnbegun' /\ BegunIsHeld' /\ SettledIsHeld' /\ BegunIsSettled'
  BY DEF HandedIsHeld, StreamIsUnbegun, BegunIsHeld, SettledIsHeld, BegunIsSettled,
     Busy, OnWire
<1>4. StepsFollowDispatch' /\ SettlementIsLast' /\ AckedAfterServed'
  BY DEF StepsFollowDispatch, SettlementIsLast, AckedAfterServed, Owed, OnWire
<1>5. NoneWaitsBehindAnother'
  BY DEF NoneWaitsBehindAnother, Busy
<1> QED
  BY <1>1, <1>2, <1>3, <1>4, <1>5

\* The inductive invariant holds of every behaviour, for every set of messages
\* and loops and every prefetch.
THEOREM Invariance == Spec => []IndInv
<1>1. ASSUME IndInv, Next PROVE IndInv'
  <2>1. ASSUME NEW l \in Loops, Broker(l) PROVE IndInv'
    BY <1>1, <2>1, PushStep, ReceiveReplyStep, ReceiveSettlementStep, ReceiveCancelStep,
       CancelConsumerStep, LoseChannelStep, CrashStep DEF Broker, Receive
  <2>2. ASSUME NEW l \in Loops, Serve(l) \/ RequestShutdown(l) PROVE IndInv'
    BY <1>1, <2>2, ServeStep, RequestShutdownStep
  <2>3. ASSUME NEW l \in Loops, ServeDeliveries(l) PROVE IndInv'
    BY <1>1, <2>3, PollShutdownStep, NoticeShutdownStep, NoticeClosedStep, StopConsumingStep, ReturnStep,
       StartStep, ReapStep DEF ServeDeliveries
  <2>4. ASSUME NEW l \in Loops, NEW m \in Messages, ServeDelivery(l, m) PROVE IndInv'
    BY <1>1, <2>4, DispatchStep, HandlerReturnsStep, HandlerPanicsStep, PublishStep,
       PublishNothingStep, AcknowledgeStep, RejectStep DEF ServeDelivery
  <2> QED
    BY <1>1, <2>1, <2>2, <2>3, <2>4 DEF Next
<1> QED
  BY <1>1, InitEstablishes, StutterStep, PTL DEF Spec

\* Every variable of the loops and of the broker keeps its type.
THEOREM TypeCorrect == Spec => []TypeOK
<1>1. IndInv => TypeOK
  BY DEF IndInv
<1> QED
  BY <1>1, Invariance, PTL

\* The broker forgets a message only when its handler was called and its reply
\* is with the broker: acknowledge comes after dispatch, on one channel.
THEOREM Served == Spec => []AckedAfterServed
<1>1. IndInv => AckedAfterServed
  BY DEF IndInv
<1> QED
  BY <1>1, Invariance, PTL

\* The prefetch serve_until sets is the number of its slots, so a delivery it is
\* handed never waits behind another.
THEOREM NoneWaits == Spec => []NoneWaitsBehindAnother
<1>1. IndInv => NoneWaitsBehindAnother
  BY DEF IndInv
<1> QED
  BY <1>1, Invariance, PTL

\* serve_deliveries returns with every delivery it started settled.
THEOREM Drained == Spec => []DrainedBeforeReturn
<1>1. IndInv => DrainedBeforeReturn
  <2> SUFFICES ASSUME IndInv, NEW l \in Loops, phase[l] = "returned",
                      NEW m \in unacked[l] \cap begun[l]
               PROVE  OnWire(l, Settle(m))
    BY DEF DrainedBeforeReturn
  <2>1. m \in Messages /\ open[l] /\ step[l][m] = "none"
    BY DEF IndInv, TypeOK, GoneIsEmpty
  <2> QED
    BY <2>1 DEF IndInv, BegunIsSettled, Busy
<1> QED
  BY <1>1, Invariance, PTL

\* What a step does to the turn of a loop and to what the loop started late.
LEMMA LateStep ==
    ASSUME TypeOK, LateEndsTheTurn, Next
    PROVE  LateEndsTheTurn'
<1>1. /\ shutdown \in [Loops -> BOOLEAN] /\ pending \in [Loops -> BOOLEAN]
      /\ late \in [Loops -> SUBSET (Messages \cup {Lost})]
  BY DEF TypeOK
<1>2. CASE UNCHANGED <<shutdown, pending, late>>
  BY <1>2 DEF LateEndsTheTurn
<1>3. ASSUME NEW l \in Loops, Broker(l)
      PROVE  \/ UNCHANGED <<shutdown, pending, late>>
             \/ Crash(l)
  BY <1>3 DEF Broker, Push, Receive, ReceiveReply, ReceiveSettlement, ReceiveCancel,
         CancelConsumer, LoseChannel, control
<1>4. ASSUME NEW l \in Loops, Crash(l) \/ Serve(l)
      PROVE  LateEndsTheTurn'
  <2>1. /\ pending' = [pending EXCEPT ![l] = FALSE]
        /\ shutdown' = [shutdown EXCEPT ![l] = FALSE]
        /\ late' = [late EXCEPT ![l] = {}]
    BY <1>4 DEF Crash, Serve
  <2> QED
    BY <1>1, <2>1 DEF LateEndsTheTurn
<1>5. ASSUME NEW l \in Loops, RequestShutdown(l)
      PROVE  LateEndsTheTurn'
  <2>1. ~shutdown[l] /\ shutdown' = [shutdown EXCEPT ![l] = TRUE] /\ UNCHANGED <<pending, late>>
    BY <1>5 DEF RequestShutdown
  <2> QED
    BY <1>1, <2>1 DEF LateEndsTheTurn
<1>6. ASSUME NEW l \in Loops, PollShutdown(l)
      PROVE  LateEndsTheTurn'
  <2>1. ~shutdown[l] /\ pending' = [pending EXCEPT ![l] = TRUE] /\ UNCHANGED <<shutdown, late>>
    BY <1>6 DEF PollShutdown
  <2> QED
    BY <1>1, <2>1 DEF LateEndsTheTurn
<1>7. ASSUME NEW l \in Loops, NEW m \in Messages \cup {Lost}, Start(l, m)
      PROVE  LateEndsTheTurn'
  <2>1. /\ pending[l] /\ pending' = [pending EXCEPT ![l] = FALSE] /\ UNCHANGED shutdown
        /\ late' = [late EXCEPT ![l] = IF shutdown[l] THEN @ \cup {m} ELSE @]
    BY <1>7 DEF Start
  <2>2. late[l] = {}
    BY <2>1 DEF LateEndsTheTurn
  <2>3. late'[l] = IF shutdown[l] THEN {m} ELSE {}
    BY <1>1, <2>1, <2>2
  <2>4. \A k \in Loops : k # l => late'[k] = late[k] /\ pending'[k] = pending[k]
    BY <1>1, <2>1
  <2>5. ~pending'[l] /\ shutdown' = shutdown
    BY <1>1, <2>1
  <2> QED
    BY <2>3, <2>4, <2>5 DEF LateEndsTheTurn
<1>8. ASSUME NEW l \in Loops, NoticeClosed(l) \/ \E m \in Messages \cup {Lost} : Reap(l, m)
      PROVE  LateEndsTheTurn'
  <2>1. pending' = [pending EXCEPT ![l] = FALSE] /\ UNCHANGED <<shutdown, late>>
    BY <1>8 DEF NoticeClosed, Reap
  <2> QED
    BY <1>1, <2>1 DEF LateEndsTheTurn
<1>9. ASSUME NEW l \in Loops, NoticeShutdown(l) \/ StopConsuming(l) \/ Return(l)
      PROVE  UNCHANGED <<shutdown, pending, late>>
  BY <1>9 DEF NoticeShutdown, StopConsuming, Return
<1>10. ASSUME NEW l \in Loops, NEW m \in Messages, ServeDelivery(l, m)
       PROVE  UNCHANGED <<shutdown, pending, late>>
  BY <1>10 DEF ServeDelivery, Dispatch, HandlerReturns, HandlerPanics, Publish,
         PublishNothing, Acknowledge, Reject, control
<1> QED
  BY <1>2, <1>3, <1>4, <1>5, <1>6, <1>7, <1>8, <1>9, <1>10 DEF Next, ServeDeliveries

\* A shutdown that completes between two polls of one turn costs one delivery
\* more at most: for any number of loops and messages, and however many slots
\* there are, come free or are found free, no second one is started after it.
THEOREM OneLateStart == Spec => []AtMostOneLateStart
<1>1. Init => LateEndsTheTurn
  BY DEF Init, LateEndsTheTurn
<1>2. TypeOK /\ LateEndsTheTurn /\ [Next]_vars => LateEndsTheTurn'
  <2>1. CASE UNCHANGED vars
    BY <2>1 DEF vars, control, LateEndsTheTurn
  <2> QED
    BY <2>1, LateStep
<1>3. LateEndsTheTurn => AtMostOneLateStart
  <2> SUFFICES ASSUME LateEndsTheTurn, NEW l \in Loops
               PROVE  Cardinality(late[l]) <= 1
    BY DEF AtMostOneLateStart
  <2>1. CASE late[l] = {}
    BY <2>1, FS_EmptySet
  <2>2. CASE late[l] # {}
    <3>1. PICK m \in Messages \cup {Lost} : late[l] = {m}
      BY <2>2 DEF LateEndsTheTurn
    <3>2. Cardinality({m}) = 1
      BY FS_Singleton
    <3> QED BY <3>1, <3>2
  <2> QED BY <2>1, <2>2
<1> QED
  BY <1>1, <1>2, <1>3, TypeCorrect, PTL DEF Spec

-----------------------------------------------------------------------------
\* How often a handler is called.

\* The loops that have a call of m's handler ahead of them, over a channel that is
\* up or over one that is not.
Holders(m) == {l \in Loops : m \in stream[l] \/ step[l][m] = "read"}

\* The calls of m's handler that were made and those that may still come of the
\* loops and of the queue.
Turns(m) == ran[m] + Cardinality(Holders(m)) + IF m \in queue THEN 1 ELSE 0

\* What a loop has not read it does not work on, whatever became of its channel.
StreamIsIdle == \A l \in Loops, m \in Messages : m \in stream[l] => step[l][m] = "none"

\* The first turn is the publisher's, and every other one is a loss's.
EachLossIsATurn == \A m \in Messages : IsFiniteSet(Holders(m)) /\ Turns(m) <= 1 + losses

\* Only a loss makes a turn: what else happens moves one from the queue to a
\* loop, from a loop to its handler, or takes one away.
LEMMA TurnsKept ==
    ASSUME TypeOK, TypeOK', NEW m \in Messages, IsFiniteSet(Holders(m)), Turns(m) <= 1 + losses,
           \/ /\ ran'[m] = ran[m] /\ Holders(m)' \subseteq Holders(m)
              /\ m \in queue' => m \in queue
              /\ losses' = losses
           \/ /\ ran'[m] = ran[m] /\ Holders(m)' \subseteq Holders(m)
              /\ losses' = losses + 1
           \/ /\ ran'[m] = ran[m] /\ \E l \in Loops : Holders(m)' \subseteq Holders(m) \cup {l}
              /\ m \in queue /\ m \notin queue'
              /\ losses' = losses
           \/ /\ ran'[m] \in {ran[m], ran[m] + 1} /\ \E l \in Holders(m) : Holders(m)' \subseteq Holders(m) \ {l}
              /\ m \in queue' => m \in queue
              /\ losses' = losses
    PROVE  IsFiniteSet(Holders(m)') /\ Turns(m)' <= 1 + losses'
<1> DEFINE S == Holders(m)
           T == Holders(m)'
           q == IF m \in queue THEN 1 ELSE 0
           p == IF m \in queue' THEN 1 ELSE 0
<1>1. ran[m] \in Nat /\ ran'[m] \in Nat /\ losses \in Nat /\ losses' \in Nat
  BY DEF TypeOK
<1>2. IsFiniteSet(S) /\ Cardinality(S) \in Nat
  BY FS_CardinalityType
<1>3. q \in 0..1 /\ p \in 0..1 /\ Turns(m) = ran[m] + Cardinality(S) + q
  BY DEF Turns
<1>4. Turns(m)' = ran'[m] + Cardinality(T) + p
  BY DEF Turns
<1> HIDE DEF S, T
<1>5. CASE T \subseteq S
  <2>1. IsFiniteSet(T) /\ Cardinality(T) \in Nat /\ Cardinality(T) <= Cardinality(S)
    BY <1>2, <1>5, FS_Subset, FS_CardinalityType
  <2>2. CASE ran'[m] = ran[m] /\ ((p <= q /\ losses' = losses) \/ losses' = losses + 1)
    BY <1>1, <1>2, <1>3, <1>4, <2>1, <2>2 DEF T
  <2>3. CASE \E l \in S : ran'[m] \in {ran[m], ran[m] + 1} /\ T \subseteq S \ {l} /\ p <= q /\ losses' = losses
    <3>1. PICK l \in S : T \subseteq S \ {l} /\ ran'[m] <= ran[m] + 1 /\ p <= q /\ losses' = losses
      BY <1>1, <2>3
    <3>2. IsFiniteSet(S \ {l}) /\ Cardinality(S \ {l}) = Cardinality(S) - 1
      BY <1>2, FS_RemoveElement
    <3>3. Cardinality(T) <= Cardinality(S) - 1
      BY <3>1, <3>2, FS_Subset
    <3> QED BY <1>1, <1>2, <1>3, <1>4, <2>1, <3>1, <3>3 DEF T
  <2>4. CASE ran'[m] = ran[m] /\ m \in queue /\ m \notin queue' /\ losses' = losses
    BY <1>1, <1>2, <1>3, <1>4, <2>1, <2>4 DEF T
  <2> QED BY <2>2, <2>3, <2>4 DEF S, T
<1>6. CASE \E l \in Loops : T \subseteq S \cup {l} /\ ran'[m] = ran[m] /\ m \in queue /\ m \notin queue' /\ losses' = losses
  <2>1. PICK l \in Loops : T \subseteq S \cup {l}
    BY <1>6
  <2>2. IsFiniteSet(S \cup {l}) /\ Cardinality(S \cup {l}) \in Nat /\ Cardinality(S \cup {l}) <= Cardinality(S) + 1
    <3>1. IsFiniteSet(S \cup {l}) /\ Cardinality(S \cup {l}) = IF l \in S THEN Cardinality(S) ELSE Cardinality(S) + 1
      BY <1>2, FS_AddElement
    <3>2. Cardinality(S) \in Nat
      BY <1>2, FS_CardinalityType
    <3> HIDE DEF S
    <3> QED BY <3>1, <3>2
  <2>3. IsFiniteSet(T) /\ Cardinality(T) \in Nat /\ Cardinality(T) <= Cardinality(S) + 1
    BY <1>2, <2>1, <2>2, FS_Subset, FS_CardinalityType
  <2> QED BY <1>1, <1>2, <1>3, <1>4, <1>6, <2>3 DEF T
<1> QED BY <1>5, <1>6 DEF S, T

\* What a step of the broker does to the turns.
LEMMA BrokerTurns ==
    ASSUME IndInv, IndInv', StreamIsIdle, EachLossIsATurn, NEW l \in Loops, Broker(l)
    PROVE  StreamIsIdle' /\ EachLossIsATurn'
<1>0. TypeOK /\ TypeOK'
  BY DEF IndInv
<1>1. /\ stream \in [Loops -> SUBSET (Messages \cup {Lost})] /\ queue \subseteq Messages
      /\ step \in [Loops -> [Messages \cup {Lost} -> Steps]]
  BY <1>0 DEF TypeOK
<1>2. CASE Push(l)
  <2>1. PICK m \in queue : queue' = queue \ {m} /\ stream' = [stream EXCEPT ![l] = @ \cup {m}]
    BY <1>2 DEF Push
  <2>2. UNCHANGED <<step, ran, losses>>
    BY <1>2 DEF Push, work
  <2>3. \A k \in Loops : stream'[k] = IF k = l THEN stream[l] \cup {m} ELSE stream[k]
    BY <1>1, <2>1
  <2>4. step[l][m] = "none"
    <3>1. m \in stream'[l] /\ m \in Messages /\ open'[l]
      BY <1>0, <1>1, <1>2, <2>1 DEF TypeOK, Push, IndInv, GoneIsEmpty
    <3> QED BY <2>2, <3>1 DEF IndInv, StreamIsUnbegun
  <2>5. StreamIsIdle'
    BY <2>2, <2>3, <2>4 DEF StreamIsIdle
  <2>6. Holders(m)' \subseteq Holders(m) \cup {l}
    BY <2>2, <2>3 DEF Holders
  <2>7. \A n \in Messages : n # m => Holders(n)' \subseteq Holders(n)
    BY <2>2, <2>3 DEF Holders
  <2>8. \A n \in Messages : IsFiniteSet(Holders(n)') /\ Turns(n)' <= 1 + losses'
    BY <1>0, <1>1, <2>1, <2>2, <2>6, <2>7, TurnsKept DEF EachLossIsATurn
  <2> QED BY <2>5, <2>8 DEF EachLossIsATurn
<1>3. CASE LoseChannel(l) \/ Crash(l)
  <2>1. /\ losses' = losses + 1 /\ UNCHANGED ran
        /\ \/ UNCHANGED step
           \/ step' = [step EXCEPT ![l] = [m \in Messages \cup {Lost} |-> "none"]]
        /\ \E kept \in {stream[l], {}, {Lost}} : stream' = [stream EXCEPT ![l] = kept]
    BY <1>3 DEF LoseChannel, Crash, Requeue, work
  <2>2. \A k \in Loops, n \in Messages : n \in stream'[k] => n \in stream[k]
    BY <1>1, <2>1, MessagesAssumption
  <2>3. \A k \in Loops, n \in Messages : step'[k][n] \in {step[k][n], "none"}
    BY <1>1, <2>1
  <2>4. StreamIsIdle'
    BY <2>2, <2>3 DEF StreamIsIdle
  <2>5. \A n \in Messages : Holders(n)' \subseteq Holders(n)
    BY <2>2, <2>3 DEF Holders
  <2>6. \A n \in Messages : IsFiniteSet(Holders(n)') /\ Turns(n)' <= 1 + losses'
    BY <1>0, <2>1, <2>5, TurnsKept DEF EachLossIsATurn
  <2> QED BY <2>4, <2>6 DEF EachLossIsATurn
<1>4. CASE Receive(l) \/ CancelConsumer(l)
  <2>1. UNCHANGED <<queue, losses, stream, step, ran>>
    BY <1>4 DEF Receive, ReceiveReply, ReceiveSettlement, ReceiveCancel, CancelConsumer, control, work
  <2>2. StreamIsIdle' /\ \A n \in Messages : Holders(n)' = Holders(n)
    BY <2>1 DEF StreamIsIdle, Holders
  <2>3. \A n \in Messages : IsFiniteSet(Holders(n)') /\ Turns(n)' <= 1 + losses'
    BY <1>0, <2>1, <2>2, TurnsKept DEF EachLossIsATurn
  <2> QED BY <2>2, <2>3 DEF EachLossIsATurn
<1> QED BY <1>2, <1>3, <1>4 DEF Broker

\* What a step of a loop does to them.
LEMMA LoopTurns ==
    ASSUME IndInv, IndInv', StreamIsIdle, EachLossIsATurn, NEW l \in Loops,
           Serve(l) \/ RequestShutdown(l) \/ ServeDeliveries(l)
    PROVE  StreamIsIdle' /\ EachLossIsATurn'
<1>0. TypeOK /\ TypeOK'
  BY DEF IndInv
<1>1. /\ stream \in [Loops -> SUBSET (Messages \cup {Lost})]
      /\ step \in [Loops -> [Messages \cup {Lost} -> Steps]]
  BY <1>0 DEF TypeOK
<1>2. UNCHANGED <<queue, losses, ran>>
  BY DEF Serve, RequestShutdown, ServeDeliveries, PollShutdown, NoticeShutdown, NoticeClosed, StopConsuming, Return,
         Start, Reap, broker, work
<1>3. \A k \in Loops, n \in Messages :
         /\ n \in stream'[k] => n \in stream[k] /\ step'[k][n] = step[k][n]
         /\ step'[k][n] = "read" => step[k][n] = "read" \/ n \in stream[k]
  <2>1. CASE Serve(l) \/ RequestShutdown(l) \/ PollShutdown(l) \/ NoticeShutdown(l) \/ NoticeClosed(l) \/ StopConsuming(l) \/ Return(l)
    <3>1. UNCHANGED step /\ (UNCHANGED stream \/ stream' = [stream EXCEPT ![l] = {}])
      BY <2>1 DEF Serve, RequestShutdown, PollShutdown, NoticeShutdown, NoticeClosed, StopConsuming, Return, work
    <3> QED BY <1>1, <3>1
  <2>2. ASSUME NEW m \in Messages \cup {Lost}, Start(l, m)
        PROVE  \A k \in Loops, n \in Messages :
                  /\ n \in stream'[k] => n \in stream[k] /\ step'[k][n] = step[k][n]
                  /\ step'[k][n] = "read" => step[k][n] = "read" \/ n \in stream[k]
    <3> DEFINE to == IF m = Lost THEN "complete" ELSE "read"
    <3>1. m \in stream[l] /\ stream' = [stream EXCEPT ![l] = @ \ {m}] /\ step' = [step EXCEPT ![l][m] = to] /\ to \in Steps
      BY <2>2 DEF Start, Advance, Steps
    <3> HIDE DEF to
    <3>2. \A k \in Loops, n \in Messages \cup {Lost} : step'[k][n] = IF k = l /\ n = m THEN to ELSE step[k][n]
      BY <1>0, <3>1, Advanced
    <3> USE DEF to
    <3>3. \A k \in Loops : stream'[k] = IF k = l THEN stream[l] \ {m} ELSE stream[k]
      BY <1>1, <3>1
    <3> QED BY <3>1, <3>2, <3>3
  <2>3. ASSUME NEW m \in Messages \cup {Lost}, Reap(l, m)
        PROVE  \A k \in Loops, n \in Messages :
                  /\ n \in stream'[k] => n \in stream[k] /\ step'[k][n] = step[k][n]
                  /\ step'[k][n] = "read" => step[k][n] = "read" \/ n \in stream[k]
    <3>1. step[l][m] = "complete" /\ UNCHANGED stream /\ step' = [step EXCEPT ![l][m] = "none"] /\ "none" \in Steps
      BY <2>3 DEF Reap, Advance, Steps, control
    <3>2. \A k \in Loops, n \in Messages \cup {Lost} : step'[k][n] = IF k = l /\ n = m THEN "none" ELSE step[k][n]
      BY <1>0, <3>1, Advanced
    <3> QED BY <3>1, <3>2 DEF StreamIsIdle
  <2> QED BY <2>1, <2>2, <2>3 DEF ServeDeliveries
<1>4. StreamIsIdle' /\ \A n \in Messages : Holders(n)' \subseteq Holders(n)
  BY <1>3 DEF StreamIsIdle, Holders
<1>5. \A n \in Messages : IsFiniteSet(Holders(n)') /\ Turns(n)' <= 1 + losses'
  BY <1>0, <1>2, <1>4, TurnsKept DEF EachLossIsATurn
<1> QED BY <1>4, <1>5 DEF EachLossIsATurn

\* What a step of a delivery does to them: Dispatch spends the turn of its loop.
LEMMA DeliveryTurns ==
    ASSUME IndInv, IndInv', StreamIsIdle, EachLossIsATurn, NEW l \in Loops, NEW m \in Messages, ServeDelivery(l, m)
    PROVE  StreamIsIdle' /\ EachLossIsATurn'
<1>0. TypeOK /\ TypeOK'
  BY DEF IndInv
<1>1. step \in [Loops -> [Messages \cup {Lost} -> Steps]] /\ ran \in [Messages -> Nat]
  BY <1>0 DEF TypeOK
<1>2. UNCHANGED <<queue, losses, stream>> /\ step[l][m] # "none"
  BY DEF ServeDelivery, Dispatch, HandlerReturns, HandlerPanics, Publish, PublishNothing, Acknowledge, Reject,
         broker, control
<1>3. PICK to \in Steps \ {"none", "read"} : step' = [step EXCEPT ![l][m] = to]
  BY DEF ServeDelivery, Dispatch, HandlerReturns, HandlerPanics, Publish, PublishNothing, Acknowledge, Reject,
         Advance, Steps
<1>4. \A k \in Loops, n \in Messages \cup {Lost} : step'[k][n] = IF k = l /\ n = m THEN to ELSE step[k][n]
  <2>1. to \in Steps /\ m \in Messages \cup {Lost}
    OBVIOUS
  <2> QED BY <1>0, <1>3, <2>1, Advanced
<1>5. StreamIsIdle' /\ \A n \in Messages : Holders(n)' \subseteq Holders(n)
  BY <1>2, <1>3, <1>4 DEF StreamIsIdle, Holders
<1>6. \A n \in Messages : n # m => ran'[n] = ran[n]
  BY <1>1 DEF ServeDelivery, Dispatch, HandlerReturns, HandlerPanics, Publish, PublishNothing, Acknowledge, Reject
<1>7. \/ ran'[m] = ran[m]
      \/ ran'[m] = ran[m] + 1 /\ l \in Holders(m) /\ Holders(m)' \subseteq Holders(m) \ {l}
  <2>1. CASE Dispatch(l, m)
    <3>1. ran'[m] \in {ran[m], ran[m] + 1} /\ step[l][m] = "read"
      BY <1>1, <2>1 DEF Dispatch
    <3>2. l \in Holders(m) /\ l \notin Holders(m)'
      BY <1>2, <1>3, <1>4, <3>1 DEF Holders, StreamIsIdle
    <3> QED BY <1>5, <3>1, <3>2
  <2>2. CASE ~Dispatch(l, m)
    BY <2>2 DEF ServeDelivery, HandlerReturns, HandlerPanics, Publish, PublishNothing, Acknowledge, Reject
  <2> QED BY <2>1, <2>2
<1>8. \A n \in Messages : IsFiniteSet(Holders(n)') /\ Turns(n)' <= 1 + losses'
  BY <1>0, <1>2, <1>5, <1>6, <1>7, TurnsKept DEF EachLossIsATurn
<1> QED BY <1>5, <1>8 DEF EachLossIsATurn

\* A handler is called with a message once, and once more for a channel lost.
THEOREM RunAgainForALossOnly == Spec => []NoSpuriousRerun
<1>1. Init => StreamIsIdle /\ EachLossIsATurn
  <2> SUFFICES ASSUME Init PROVE StreamIsIdle /\ EachLossIsATurn
    OBVIOUS
  <2>1. \A m \in Messages : Holders(m) = {} /\ ran[m] = 0
    BY DEF Init, Holders
  <2>2. IsFiniteSet({}) /\ Cardinality({}) = 0
    BY FS_EmptySet
  <2>3. losses = 0
    BY DEF Init
  <2>4. \A m \in Messages : IsFiniteSet(Holders(m)) /\ Turns(m) <= 1 + losses
    <3> TAKE m \in Messages
    <3>1. Holders(m) = {} /\ ran[m] = 0 /\ Cardinality(Holders(m)) = 0
      BY <2>1, <2>2
    <3>2. (IF m \in queue THEN 1 ELSE 0) \in {0, 1}
      OBVIOUS
    <3> QED BY <2>2, <2>3, <3>1, <3>2 DEF Turns
  <2> QED BY <2>4 DEF Init, StreamIsIdle, EachLossIsATurn
<1>2. ASSUME IndInv, IndInv', StreamIsIdle, EachLossIsATurn, [Next]_vars
      PROVE  StreamIsIdle' /\ EachLossIsATurn'
  <2>1. CASE Next
    BY <1>2, <2>1, BrokerTurns, LoopTurns, DeliveryTurns DEF Next
  <2>2. CASE UNCHANGED vars
    BY <1>2, <2>2 DEF vars, broker, control, work, StreamIsIdle, EachLossIsATurn, Turns, Holders
  <2> QED BY <1>2, <2>1, <2>2
<1>3. IndInv /\ EachLossIsATurn => NoSpuriousRerun
  <2> SUFFICES ASSUME IndInv, EachLossIsATurn, NEW m \in Messages PROVE ran[m] <= 1 + losses
    BY DEF NoSpuriousRerun
  <2>1. ran[m] \in Nat /\ losses \in Nat /\ Cardinality(Holders(m)) \in Nat
    BY FS_CardinalityType DEF IndInv, TypeOK, EachLossIsATurn
  <2>2. ran[m] + Cardinality(Holders(m)) + (IF m \in queue THEN 1 ELSE 0) <= 1 + losses
    BY DEF EachLossIsATurn, Turns
  <2> QED BY <2>1, <2>2
<1> QED BY <1>1, <1>2, <1>3, Invariance, PTL DEF Spec
=============================================================================
