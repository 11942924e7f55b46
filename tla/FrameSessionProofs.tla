------------------------- MODULE FrameSessionProofs -------------------------
(***************************************************************************)
(* Proofs about FrameSession, for every set of calls and readers.          *)
(*                                                                         *)
(* The invariant IndInv is inductive: one lemma per action shows that the  *)
(* action keeps it, one leaf per part the action can disturb and one leaf  *)
(* for the parts whose variables it leaves alone.  Its heart is the way a  *)
(* reply is followed: ids are distinct, so the id in a frame names one     *)
(* call (IdsAreDistinct, RepliesNameTheirCall), the map holds that call's  *)
(* own slot under it (MapIsById), and so the reader that removes the slot  *)
(* holds the reply and the slot of one call (HandsHoldTheirCall).          *)
(*                                                                         *)
(* From IndInv follow the safety properties of FrameSession and the        *)
(* refinement of RpcCalls.                                                 *)
(***************************************************************************)
EXTENDS FrameSession, TLAPS

USE MarksAssumption
    DEF Empty, Closed, Taken, Foreign, Refused, Nothing, This, Other

\* Drawing an id keeps the invariant: fetch_add hands out an id no call has.
LEMMA AllocateStep ==
    ASSUME IndInv, NEW c \in Calls, Allocate(c)
    PROVE  IndInv'
<1>1. TypeOK'
  BY DEF IndInv, TypeOK, Allocate, session, peer, Frames, Registered, Bodies,
         Answers, Places
<1>2. IdsAreDistinct'
  BY DEF IndInv, TypeOK, IdsAreDistinct, Allocate, session, peer
<1>3. MapIsById'
  BY DEF IndInv, TypeOK, MapIsById, Allocate, session, peer, Early,
         Registered, IdsAreDistinct
<1>4. RepliesNameTheirCall'
  BY DEF IndInv, TypeOK, RepliesNameTheirCall, Allocate, session, peer, Early,
         Bodies, Frames
<1>5. HandsHoldTheirCall'
  BY DEF IndInv, TypeOK, HandsHoldTheirCall, Allocate, session, peer, Early
<1>6. SlotsHoldTheirCall'
  BY DEF IndInv, TypeOK, SlotsHoldTheirCall, Allocate, session, peer, Early,
         Bodies
<1>7. WireHoldsTheUnserved'
  BY DEF IndInv, TypeOK, WireHoldsTheUnserved, Allocate, session, peer, Early
<1>8. OutcomesAreFinal'
  BY DEF IndInv, TypeOK, OutcomesAreFinal, Allocate, session, peer
<1>9. NoLostWakeup'
  BY DEF IndInv, TypeOK, NoLostWakeup, Allocate, session, peer,
         ParkedOrRunnable
<1>10. ParkedOrRunnable'
  BY DEF IndInv, TypeOK, ParkedOrRunnable, Allocate, session, peer
<1>11. SlotHasOneOwner'
  BY DEF IndInv, Allocate, session, peer, SlotHasOneOwner, Registered, Held
<1> QED BY <1>1, <1>2, <1>3, <1>4, <1>5, <1>6, <1>7, <1>8, <1>9, <1>10, <1>11
       DEF IndInv

\* Inserting a slot keeps the invariant: the call owned no slot before.
LEMMA RegisterStep ==
    ASSUME IndInv, NEW c \in Calls, Register(c)
    PROVE  IndInv'
<1>1. TypeOK'
  <2>1. /\ DOMAIN pending' = DOMAIN pending \cup {id[c]}
        /\ \A i \in DOMAIN pending' :
             pending'[i] = IF i = id[c] THEN c ELSE pending[i]
    BY DEF Register
  <2>2. DOMAIN pending' \subseteq Nat
    BY <2>1 DEF IndInv, TypeOK
  <2>3. Registered' \subseteq Calls
    BY <2>1 DEF IndInv, TypeOK, Registered
  <2> QED
    BY <2>2, <2>3 DEF IndInv, TypeOK, Register, peer, Places
<1>2. IdsAreDistinct'
  BY DEF IndInv, TypeOK, IdsAreDistinct, Register, session, peer
<1>3. MapIsById'
  BY DEF IndInv, TypeOK, MapIsById, Register, session, peer, Early,
         Registered, IdsAreDistinct
<1>4. RepliesNameTheirCall'
  BY DEF IndInv, TypeOK, RepliesNameTheirCall, Register, session, peer, Early,
         Bodies, Frames
<1>5. HandsHoldTheirCall'
  BY DEF IndInv, TypeOK, HandsHoldTheirCall, Register, session, peer, Early
<1>6. SlotsHoldTheirCall'
  BY DEF IndInv, TypeOK, SlotsHoldTheirCall, Register, session, peer, Early,
         Bodies
<1>7. WireHoldsTheUnserved'
  BY DEF IndInv, TypeOK, WireHoldsTheUnserved, Register, session, peer, Early
<1>8. OutcomesAreFinal'
  BY DEF IndInv, TypeOK, OutcomesAreFinal, Register, session, peer
<1>9. SlotHasOneOwner'
  <2>1. /\ DOMAIN pending' = DOMAIN pending \cup {id[c]}
        /\ \A i \in DOMAIN pending' :
             pending'[i] = IF i = id[c] THEN c ELSE pending[i]
    BY DEF Register
  <2>2. Registered' \subseteq Registered \cup {c}
    BY <2>1 DEF Registered
  <2>3. ~Held(c) /\ c \notin draining /\ answer[c] = Empty
    BY DEF IndInv, HandsHoldTheirCall, SlotsHoldTheirCall, Early, Held, Register
  <2>4. UNCHANGED <<answer, hand, draining>>
    BY DEF Register
  <2> QED
    BY <2>2, <2>3, <2>4 DEF IndInv, SlotHasOneOwner, Held
<1>10. NoLostWakeup'
  BY DEF IndInv, TypeOK, NoLostWakeup, Register, session, peer,
         ParkedOrRunnable
<1>11. ParkedOrRunnable'
  BY DEF IndInv, TypeOK, ParkedOrRunnable, Register, session, peer
<1> QED BY <1>1, <1>2, <1>3, <1>4, <1>5, <1>6, <1>7, <1>8, <1>9, <1>10, <1>11
       DEF IndInv

\* Encoding the frame, or failing to, keeps the invariant.
LEMMA EncodeStep ==
    ASSUME IndInv, NEW c \in Calls, Encode(c)
    PROVE  IndInv'
<1>1. TypeOK'
  BY DEF IndInv, TypeOK, Encode, session, peer, Frames, Registered, Bodies,
         Answers, Places, Waiting
<1>2. IdsAreDistinct'
  BY DEF IndInv, TypeOK, IdsAreDistinct, Encode, session, peer
<1>3. MapIsById'
  BY DEF IndInv, TypeOK, MapIsById, Encode, session, peer, Early, Registered,
         IdsAreDistinct
<1>4. RepliesNameTheirCall'
  BY DEF IndInv, TypeOK, RepliesNameTheirCall, Encode, session, peer, Early,
         Bodies, Frames
<1>5. HandsHoldTheirCall'
  BY DEF IndInv, TypeOK, HandsHoldTheirCall, Encode, session, peer, Early
<1>6. SlotsHoldTheirCall'
  BY DEF IndInv, TypeOK, SlotsHoldTheirCall, Encode, session, peer, Early,
         Bodies
<1>7. WireHoldsTheUnserved'
  BY DEF IndInv, TypeOK, WireHoldsTheUnserved, Encode, session, peer, Early
<1>8. OutcomesAreFinal'
  BY DEF IndInv, TypeOK, OutcomesAreFinal, Encode, session, peer
<1>9. NoLostWakeup'
  BY DEF IndInv, TypeOK, NoLostWakeup, Encode, session, peer, ParkedOrRunnable
<1>10. ParkedOrRunnable'
  BY DEF IndInv, TypeOK, ParkedOrRunnable, Encode, session, peer
<1>11. SlotHasOneOwner'
  BY DEF IndInv, Encode, session, peer, SlotHasOneOwner, Registered, Held
<1> QED BY <1>1, <1>2, <1>3, <1>4, <1>5, <1>6, <1>7, <1>8, <1>9, <1>10, <1>11
       DEF IndInv

\* Handing the frame to the send function keeps the invariant: the call was
\* not on the wire and not served before.
LEMMA TransmitStep ==
    ASSUME IndInv, NEW c \in Calls, Transmit(c)
    PROVE  IndInv'
<1>1. TypeOK'
  BY DEF IndInv, TypeOK, Transmit, session, peer, Frames, Registered, Bodies,
         Answers, Places, Waiting
<1>2. IdsAreDistinct'
  BY DEF IndInv, TypeOK, IdsAreDistinct, Transmit, session, peer
<1>3. MapIsById'
  BY DEF IndInv, TypeOK, MapIsById, Transmit, session, peer, Early,
         Registered, IdsAreDistinct
<1>4. RepliesNameTheirCall'
  BY DEF IndInv, TypeOK, RepliesNameTheirCall, Transmit, session, peer, Early,
         Bodies, Frames
<1>5. HandsHoldTheirCall'
  BY DEF IndInv, TypeOK, HandsHoldTheirCall, Transmit, session, peer, Early
<1>6. SlotsHoldTheirCall'
  BY DEF IndInv, TypeOK, SlotsHoldTheirCall, Transmit, session, peer, Early,
         Bodies
<1>7. WireHoldsTheUnserved'
  BY DEF IndInv, TypeOK, WireHoldsTheUnserved, Transmit, session, peer, Early
<1>8. OutcomesAreFinal'
  BY DEF IndInv, TypeOK, OutcomesAreFinal, Transmit, session, peer
<1>9. NoLostWakeup'
  BY DEF IndInv, TypeOK, NoLostWakeup, Transmit, session, peer,
         ParkedOrRunnable
<1>10. ParkedOrRunnable'
  BY DEF IndInv, TypeOK, ParkedOrRunnable, Transmit, session, peer
<1>11. SlotHasOneOwner'
  BY DEF IndInv, Transmit, session, peer, SlotHasOneOwner, Registered, Held
<1> QED BY <1>1, <1>2, <1>3, <1>4, <1>5, <1>6, <1>7, <1>8, <1>9, <1>10, <1>11
       DEF IndInv

\* A send that fails keeps the invariant.
LEMMA SendFailsStep ==
    ASSUME IndInv, NEW c \in Calls, SendFails(c)
    PROVE  IndInv'
<1>1. TypeOK'
  BY DEF IndInv, TypeOK, SendFails, session, peer, Frames, Registered, Bodies,
         Answers, Places
<1>2. IdsAreDistinct'
  BY DEF IndInv, TypeOK, IdsAreDistinct, SendFails, session, peer
<1>3. MapIsById'
  BY DEF IndInv, TypeOK, MapIsById, SendFails, session, peer, Early,
         Registered, IdsAreDistinct
<1>4. RepliesNameTheirCall'
  BY DEF IndInv, TypeOK, RepliesNameTheirCall, SendFails, session, peer,
         Early, Bodies, Frames
<1>5. HandsHoldTheirCall'
  BY DEF IndInv, TypeOK, HandsHoldTheirCall, SendFails, session, peer, Early
<1>6. SlotsHoldTheirCall'
  BY DEF IndInv, TypeOK, SlotsHoldTheirCall, SendFails, session, peer, Early,
         Bodies
<1>7. WireHoldsTheUnserved'
  BY DEF IndInv, TypeOK, WireHoldsTheUnserved, SendFails, session, peer, Early
<1>8. OutcomesAreFinal'
  BY DEF IndInv, TypeOK, OutcomesAreFinal, SendFails, session, peer
<1>9. NoLostWakeup'
  BY DEF IndInv, TypeOK, NoLostWakeup, SendFails, session, peer,
         ParkedOrRunnable
<1>10. ParkedOrRunnable'
  BY DEF IndInv, TypeOK, ParkedOrRunnable, SendFails, session, peer
<1>11. SlotHasOneOwner'
  BY DEF IndInv, SendFails, session, peer, SlotHasOneOwner, Registered, Held
<1> QED BY <1>1, <1>2, <1>3, <1>4, <1>5, <1>6, <1>7, <1>8, <1>9, <1>10, <1>11
       DEF IndInv

\* A send that returns keeps the invariant: the task is polled at once.
LEMMA SendReturnsStep ==
    ASSUME IndInv, NEW c \in Calls, SendReturns(c)
    PROVE  IndInv'
<1>1. TypeOK'
  BY DEF IndInv, TypeOK, SendReturns, session, peer, Frames, Registered,
         Bodies, Answers, Places, Waiting
<1>2. IdsAreDistinct'
  BY DEF IndInv, TypeOK, IdsAreDistinct, SendReturns, session, peer
<1>3. MapIsById'
  BY DEF IndInv, TypeOK, MapIsById, SendReturns, session, peer, Early,
         Registered, IdsAreDistinct
<1>4. RepliesNameTheirCall'
  BY DEF IndInv, TypeOK, RepliesNameTheirCall, SendReturns, session, peer,
         Early, Bodies, Frames
<1>5. HandsHoldTheirCall'
  BY DEF IndInv, TypeOK, HandsHoldTheirCall, SendReturns, session, peer, Early
<1>6. SlotsHoldTheirCall'
  BY DEF IndInv, TypeOK, SlotsHoldTheirCall, SendReturns, session, peer,
         Early, Bodies
<1>7. WireHoldsTheUnserved'
  BY DEF IndInv, TypeOK, WireHoldsTheUnserved, SendReturns, session, peer,
         Early
<1>8. OutcomesAreFinal'
  BY DEF IndInv, TypeOK, OutcomesAreFinal, SendReturns, session, peer
<1>9. NoLostWakeup'
  BY DEF IndInv, TypeOK, NoLostWakeup, SendReturns, session, peer,
         ParkedOrRunnable
<1>10. ParkedOrRunnable'
  BY DEF IndInv, TypeOK, ParkedOrRunnable, SendReturns, session, peer
<1>11. SlotHasOneOwner'
  BY DEF IndInv, SendReturns, session, peer, SlotHasOneOwner, Registered, Held
<1> QED BY <1>1, <1>2, <1>3, <1>4, <1>5, <1>6, <1>7, <1>8, <1>9, <1>10, <1>11
       DEF IndInv

\* A poll keeps the invariant: it takes its own call's answer or parks.
LEMMA PollStep ==
    ASSUME IndInv, NEW c \in Calls, Poll(c)
    PROVE  IndInv'
<1>1. TypeOK'
  <2>1. answer[c] \in Answers
    BY DEF IndInv, TypeOK
  <2>2. outcome' \in [Calls -> Answers \cup {Refused, Nothing}]
    BY <2>1 DEF IndInv, TypeOK, Poll
  <2>3. answer' \in [Calls -> Answers]
    BY DEF IndInv, TypeOK, Poll, Answers
  <2>4. pc' \in [Calls -> Places]
    BY DEF IndInv, TypeOK, Poll, Places
  <2>5. parked' \in [Calls -> BOOLEAN] /\ runnable' \in [Calls -> BOOLEAN]
    BY DEF IndInv, TypeOK, Poll
  <2>6. UNCHANGED <<next, pending, id, hand, draining, peer>> /\ UNCHANGED Registered
    BY DEF Poll, Registered
  <2> QED
    BY <2>2, <2>3, <2>4, <2>5, <2>6 DEF IndInv, TypeOK, peer
<1>2. IdsAreDistinct'
  BY DEF IndInv, TypeOK, IdsAreDistinct, Poll, session, peer, Answers
<1>3. MapIsById'
  BY DEF IndInv, TypeOK, MapIsById, Poll, session, peer, Answers, Early,
         Registered, IdsAreDistinct
<1>4. RepliesNameTheirCall'
  BY DEF IndInv, TypeOK, RepliesNameTheirCall, Poll, session, peer, Answers,
         Early, Bodies, Frames
<1>5. HandsHoldTheirCall'
  BY DEF IndInv, TypeOK, HandsHoldTheirCall, Poll, session, peer, Answers,
         Early
<1>6. SlotsHoldTheirCall'
  BY DEF IndInv, TypeOK, SlotsHoldTheirCall, Poll, session, peer, Answers,
         Early, Bodies
<1>7. WireHoldsTheUnserved'
  BY DEF IndInv, TypeOK, WireHoldsTheUnserved, Poll, session, peer, Answers,
         Early
<1>8. OutcomesAreFinal'
  BY DEF IndInv, TypeOK, OutcomesAreFinal, Poll, session, peer, Answers,
         SlotsHoldTheirCall, Bodies
<1>9. SlotHasOneOwner'
  BY DEF IndInv, TypeOK, SlotHasOneOwner, Poll, session, peer, Answers,
         Registered, Held
<1>10. NoLostWakeup'
  BY DEF IndInv, TypeOK, NoLostWakeup, Poll, session, peer, Answers,
         ParkedOrRunnable
<1>11. ParkedOrRunnable'
  BY DEF IndInv, TypeOK, ParkedOrRunnable, Poll, session, peer, Answers
<1> QED BY <1>1, <1>2, <1>3, <1>4, <1>5, <1>6, <1>7, <1>8, <1>9, <1>10, <1>11
       DEF IndInv

\* Dropping the future keeps the invariant.
LEMMA DropStep ==
    ASSUME IndInv, NEW c \in Calls, Drop(c)
    PROVE  IndInv'
<1>1. TypeOK'
  BY DEF IndInv, TypeOK, Drop, session, peer, Waiting, Frames, Registered,
         Bodies, Answers, Places
<1>2. IdsAreDistinct'
  BY DEF IndInv, TypeOK, IdsAreDistinct, Drop, session, peer, Waiting
<1>3. MapIsById'
  BY DEF IndInv, TypeOK, MapIsById, Drop, session, peer, Waiting, Early,
         Registered, IdsAreDistinct
<1>4. RepliesNameTheirCall'
  BY DEF IndInv, TypeOK, RepliesNameTheirCall, Drop, session, peer, Waiting,
         Early, Bodies, Frames
<1>5. HandsHoldTheirCall'
  BY DEF IndInv, TypeOK, HandsHoldTheirCall, Drop, session, peer, Waiting,
         Early
<1>6. SlotsHoldTheirCall'
  BY DEF IndInv, TypeOK, SlotsHoldTheirCall, Drop, session, peer, Waiting,
         Early, Bodies
<1>7. WireHoldsTheUnserved'
  BY DEF IndInv, TypeOK, WireHoldsTheUnserved, Drop, session, peer, Waiting,
         Early
<1>8. OutcomesAreFinal'
  BY DEF IndInv, TypeOK, OutcomesAreFinal, Drop, session, peer, Waiting
<1>9. NoLostWakeup'
  BY DEF IndInv, TypeOK, NoLostWakeup, Drop, session, peer, Waiting,
         ParkedOrRunnable
<1>10. ParkedOrRunnable'
  BY DEF IndInv, TypeOK, ParkedOrRunnable, Drop, session, peer, Waiting
<1>11. SlotHasOneOwner'
  BY DEF IndInv, Drop, session, peer, Waiting, SlotHasOneOwner, Registered,
         Held
<1> QED BY <1>1, <1>2, <1>3, <1>4, <1>5, <1>6, <1>7, <1>8, <1>9, <1>10, <1>11
       DEF IndInv

\* Removing the slot a reply names keeps the invariant: the slot is the one of
\* the call the reply answers, and the map was its only owner.
LEMMA DeliverReplyStep ==
    ASSUME IndInv, NEW r \in Readers, NEW f \in inbound, DeliverReply(r, f)
    PROVE  IndInv'
<1>1. TypeOK'
  <2>1. pending[f.id] \in Calls /\ f.body \in Bodies
    BY DEF IndInv, TypeOK, Frames, Registered, DeliverReply
  <2>2. /\ DOMAIN pending' \subseteq DOMAIN pending
        /\ \A i \in DOMAIN pending' : pending'[i] = pending[i]
    BY DEF DeliverReply, Restrict
  <2>3. Registered' \subseteq Calls
    BY <2>2 DEF IndInv, TypeOK, Registered
  <2>4. hand' \in [Readers -> [at : Calls \cup {"idle", "pong"}, body : Bodies]]
    BY <2>1 DEF IndInv, TypeOK, DeliverReply, Filling
  <2> QED
    BY <2>2, <2>3, <2>4 DEF IndInv, TypeOK, DeliverReply
<1>2. MapIsById'
  BY DEF IndInv, TypeOK, MapIsById, DeliverReply, session, peer, Filling,
         Restrict, Idle, Early, Registered, IdsAreDistinct
<1>3. RepliesNameTheirCall'
  BY DEF IndInv, TypeOK, RepliesNameTheirCall, DeliverReply, session, peer,
         Filling, Restrict, Idle, Early, Bodies, Frames
<1>4. HandsHoldTheirCall'
  BY DEF IndInv, TypeOK, HandsHoldTheirCall, DeliverReply, session, peer,
         Filling, Restrict, Idle, Early, RepliesNameTheirCall, MapIsById,
         IdsAreDistinct, Bodies, Registered, Frames
<1>5. SlotHasOneOwner'
  <2> DEFINE d == pending[f.id]
  <2>1. /\ DOMAIN pending' = DOMAIN pending \ {f.id}
        /\ \A i \in DOMAIN pending' : pending'[i] = pending[i]
    BY DEF DeliverReply, Restrict
  <2>2. d \in Registered /\ d \in Calls
    BY DEF IndInv, TypeOK, DeliverReply, Registered
  <2>3. Registered' \subseteq Registered \ {d}
    BY <2>1 DEF IndInv, MapIsById, Registered, DeliverReply
  <2>4. ~Held(d) /\ d \notin draining /\ answer[d] = Empty
    BY <2>2 DEF IndInv, SlotHasOneOwner
  <2>5. \A s \in Readers : hand'[s].at = IF s = r THEN d ELSE hand[s].at
    BY DEF IndInv, TypeOK, DeliverReply, Filling
  <2>6. UNCHANGED <<answer, draining>>
    BY DEF DeliverReply
  <2>7. hand[r].at \notin Calls
    BY DEF DeliverReply, Idle
  <2> QED
    BY <2>2, <2>3, <2>4, <2>5, <2>6, <2>7 DEF IndInv, SlotHasOneOwner, Held
<1>6. IdsAreDistinct' /\ SlotsHoldTheirCall' /\ WireHoldsTheUnserved' /\
      OutcomesAreFinal' /\ NoLostWakeup' /\ ParkedOrRunnable'
  BY DEF IndInv, DeliverReply, session, peer, Filling, Restrict, Idle,
         IdsAreDistinct, SlotsHoldTheirCall, WireHoldsTheUnserved,
         OutcomesAreFinal, NoLostWakeup, ParkedOrRunnable, Early, Bodies
<1> QED BY <1>1, <1>2, <1>3, <1>4, <1>5, <1>6 DEF IndInv

\* Ignoring a frame keeps the invariant.
LEMMA DeliverIgnoredStep ==
    ASSUME IndInv, NEW r \in Readers, NEW f \in inbound, DeliverIgnored(r, f)
    PROVE  IndInv'
<1>1. TypeOK'
  BY DEF IndInv, TypeOK, DeliverIgnored, session, peer, Frames, Registered,
         Bodies, Answers, Places
<1>2. RepliesNameTheirCall'
  BY DEF IndInv, TypeOK, RepliesNameTheirCall, DeliverIgnored, session, peer,
         Early, Bodies, Frames
<1>3. IdsAreDistinct' /\ MapIsById' /\ HandsHoldTheirCall' /\ SlotsHoldTheirCall' /\
      WireHoldsTheUnserved' /\ OutcomesAreFinal' /\ SlotHasOneOwner' /\
      NoLostWakeup' /\ ParkedOrRunnable'
  BY DEF IndInv, DeliverIgnored, session, peer, IdsAreDistinct, MapIsById,
         HandsHoldTheirCall, SlotsHoldTheirCall, WireHoldsTheUnserved,
         OutcomesAreFinal, SlotHasOneOwner, NoLostWakeup, ParkedOrRunnable,
         Early, Registered, Bodies, Held
<1> QED BY <1>1, <1>2, <1>3 DEF IndInv

\* Reading a ping keeps the invariant.
LEMMA DeliverPingStep ==
    ASSUME IndInv, NEW r \in Readers, NEW f \in inbound, DeliverPing(r, f)
    PROVE  IndInv'
<1>1. TypeOK'
  BY DEF IndInv, TypeOK, DeliverPing, session, peer, Pong, Idle, Frames,
         Registered, Bodies, Answers, Places
<1>2. RepliesNameTheirCall'
  BY DEF IndInv, TypeOK, RepliesNameTheirCall, DeliverPing, session, peer,
         Pong, Idle, Early, Bodies, Frames
<1>3. HandsHoldTheirCall'
  BY DEF IndInv, TypeOK, HandsHoldTheirCall, DeliverPing, session, peer, Pong,
         Idle, Early
<1>4. SlotHasOneOwner'
  BY DEF IndInv, TypeOK, SlotHasOneOwner, DeliverPing, session, peer, Pong,
         Idle, Registered, Held
<1>5. IdsAreDistinct' /\ MapIsById' /\ SlotsHoldTheirCall' /\ WireHoldsTheUnserved'
      /\ OutcomesAreFinal' /\ NoLostWakeup' /\ ParkedOrRunnable'
  BY DEF IndInv, DeliverPing, session, peer, Pong, Idle, IdsAreDistinct,
         MapIsById, SlotsHoldTheirCall, WireHoldsTheUnserved,
         OutcomesAreFinal, NoLostWakeup, ParkedOrRunnable, Early, Registered,
         Bodies
<1> QED BY <1>1, <1>2, <1>3, <1>4, <1>5 DEF IndInv

\* Sending the pong keeps the invariant.
LEMMA SendPongStep ==
    ASSUME IndInv, NEW r \in Readers, SendPong(r)
    PROVE  IndInv'
<1>1. TypeOK'
  BY DEF IndInv, TypeOK, SendPong, session, peer, Pong, Idle, Frames,
         Registered, Bodies, Answers, Places
<1>2. HandsHoldTheirCall'
  BY DEF IndInv, TypeOK, HandsHoldTheirCall, SendPong, session, peer, Pong,
         Idle, Early
<1>3. SlotHasOneOwner'
  BY DEF IndInv, TypeOK, SlotHasOneOwner, SendPong, session, peer, Pong, Idle,
         Registered, Held
<1>4. IdsAreDistinct' /\ MapIsById' /\ RepliesNameTheirCall' /\ SlotsHoldTheirCall'
      /\ WireHoldsTheUnserved' /\ OutcomesAreFinal' /\ NoLostWakeup' /\
      ParkedOrRunnable'
  BY DEF IndInv, SendPong, session, peer, Pong, Idle, IdsAreDistinct,
         MapIsById, RepliesNameTheirCall, SlotsHoldTheirCall,
         WireHoldsTheUnserved, OutcomesAreFinal, NoLostWakeup,
         ParkedOrRunnable, Early, Registered, Bodies, Frames
<1> QED BY <1>1, <1>2, <1>3, <1>4 DEF IndInv

\* Filling the slot in a reader's hand keeps the invariant: the slot is empty,
\* nobody else has it, and a parked waiter is woken.
LEMMA DeliverFillStep ==
    ASSUME IndInv, NEW r \in Readers, DeliverFill(r)
    PROVE  IndInv'
<1>1. TypeOK'
  BY DEF IndInv, TypeOK, DeliverFill, session, peer, Fill, Idle, Frames,
         Registered, Bodies, Answers, Places
<1>2. HandsHoldTheirCall'
  BY DEF IndInv, TypeOK, HandsHoldTheirCall, DeliverFill, session, peer, Fill,
         Idle, Early
<1>3. SlotsHoldTheirCall'
  BY DEF IndInv, TypeOK, SlotsHoldTheirCall, DeliverFill, session, peer, Fill,
         Idle, Early, Bodies, HandsHoldTheirCall
<1>4. SlotHasOneOwner'
  BY DEF IndInv, TypeOK, SlotHasOneOwner, DeliverFill, session, peer, Fill,
         Idle, Registered, Held
<1>5. NoLostWakeup'
  BY DEF IndInv, TypeOK, NoLostWakeup, DeliverFill, session, peer, Fill, Idle,
         ParkedOrRunnable
<1>6. ParkedOrRunnable'
  BY DEF IndInv, TypeOK, ParkedOrRunnable, DeliverFill, session, peer, Fill,
         Idle
<1>7. IdsAreDistinct' /\ MapIsById' /\ RepliesNameTheirCall' /\
      WireHoldsTheUnserved' /\ OutcomesAreFinal'
  BY DEF IndInv, DeliverFill, session, peer, Fill, Idle, IdsAreDistinct,
         MapIsById, RepliesNameTheirCall, WireHoldsTheUnserved,
         OutcomesAreFinal, Early, Registered, Bodies, Frames
<1> QED BY <1>1, <1>2, <1>3, <1>4, <1>5, <1>6, <1>7 DEF IndInv

\* Taking the map keeps the invariant: its slots change owner.
LEMMA CloseTakeStep ==
    ASSUME IndInv, CloseTake
    PROVE  IndInv'
<1>1. TypeOK'
  <2>1. Registered' = {}
    BY DEF CloseTake, Registered
  <2>2. closes' \in Nat
    BY BoundsAssumption DEF IndInv, TypeOK, CloseTake
  <2> QED
    BY <2>1, <2>2 DEF IndInv, TypeOK, CloseTake
<1>2. MapIsById'
  BY DEF IndInv, TypeOK, MapIsById, CloseTake, session, peer, Early,
         Registered, IdsAreDistinct
<1>3. HandsHoldTheirCall'
  BY DEF IndInv, TypeOK, HandsHoldTheirCall, CloseTake, session, peer, Early,
         MapIsById, Registered
<1>4. SlotHasOneOwner'
  BY DEF IndInv, TypeOK, SlotHasOneOwner, CloseTake, session, peer,
         Registered, Held
<1>5. IdsAreDistinct' /\ RepliesNameTheirCall' /\ SlotsHoldTheirCall' /\
      WireHoldsTheUnserved' /\ OutcomesAreFinal' /\ NoLostWakeup' /\
      ParkedOrRunnable'
  BY DEF IndInv, CloseTake, session, peer, IdsAreDistinct,
         RepliesNameTheirCall, SlotsHoldTheirCall, WireHoldsTheUnserved,
         OutcomesAreFinal, NoLostWakeup, ParkedOrRunnable, Early, Bodies,
         Frames
<1> QED BY <1>1, <1>2, <1>3, <1>4, <1>5 DEF IndInv

\* Failing a slot close took keeps the invariant.
LEMMA CloseFillStep ==
    ASSUME IndInv, NEW c \in Calls, CloseFill(c)
    PROVE  IndInv'
<1>1. TypeOK'
  BY DEF IndInv, TypeOK, CloseFill, session, peer, Fill, Frames, Registered,
         Bodies, Answers, Places
<1>2. HandsHoldTheirCall'
  BY DEF IndInv, TypeOK, HandsHoldTheirCall, CloseFill, session, peer, Fill,
         Early
<1>3. SlotsHoldTheirCall'
  BY DEF IndInv, TypeOK, SlotsHoldTheirCall, CloseFill, session, peer, Fill,
         Early, Bodies, HandsHoldTheirCall
<1>4. SlotHasOneOwner'
  BY DEF IndInv, TypeOK, SlotHasOneOwner, CloseFill, session, peer, Fill,
         Registered, Held
<1>5. NoLostWakeup'
  BY DEF IndInv, TypeOK, NoLostWakeup, CloseFill, session, peer, Fill,
         ParkedOrRunnable
<1>6. ParkedOrRunnable'
  BY DEF IndInv, TypeOK, ParkedOrRunnable, CloseFill, session, peer, Fill
<1>7. IdsAreDistinct' /\ MapIsById' /\ RepliesNameTheirCall' /\
      WireHoldsTheUnserved' /\ OutcomesAreFinal'
  BY DEF IndInv, CloseFill, session, peer, Fill, IdsAreDistinct, MapIsById,
         RepliesNameTheirCall, WireHoldsTheUnserved, OutcomesAreFinal, Early,
         Registered, Bodies, Frames
<1> QED BY <1>1, <1>2, <1>3, <1>4, <1>5, <1>6, <1>7 DEF IndInv

\* An answer of the peer keeps the invariant: it names the call it answers.
LEMMA ServeStep ==
    ASSUME IndInv, NEW c \in Calls, Serve(c)
    PROVE  IndInv'
<1>1. TypeOK'
  BY DEF IndInv, TypeOK, Serve, session, peer, Reply, Frames, Registered,
         Bodies, Answers, Places
<1>2. RepliesNameTheirCall'
  BY DEF IndInv, TypeOK, RepliesNameTheirCall, Serve, session, peer, Reply,
         Early, Bodies, Frames, WireHoldsTheUnserved
<1>3. HandsHoldTheirCall'
  BY DEF IndInv, TypeOK, HandsHoldTheirCall, Serve, session, peer, Reply,
         Early
<1>4. SlotsHoldTheirCall'
  BY DEF IndInv, TypeOK, SlotsHoldTheirCall, Serve, session, peer, Reply,
         Early, Bodies
<1>5. WireHoldsTheUnserved'
  BY DEF IndInv, TypeOK, WireHoldsTheUnserved, Serve, session, peer, Reply,
         Early
<1>6. IdsAreDistinct' /\ MapIsById' /\ OutcomesAreFinal' /\ SlotHasOneOwner' /\
      NoLostWakeup' /\ ParkedOrRunnable'
  BY DEF IndInv, Serve, session, peer, Reply, IdsAreDistinct, MapIsById,
         OutcomesAreFinal, SlotHasOneOwner, NoLostWakeup, ParkedOrRunnable,
         Early, Registered, Held
<1> QED BY <1>1, <1>2, <1>3, <1>4, <1>5, <1>6 DEF IndInv

\* A reply of another service keeps the invariant, whatever its id.
LEMMA ServeForeignStep ==
    ASSUME IndInv, ServeForeign
    PROVE  IndInv'
<1>1. TypeOK'
  BY DEF IndInv, TypeOK, ServeForeign, session, peer, Reply, Frames,
         Registered, Bodies, Answers, Places
<1>2. RepliesNameTheirCall'
  BY DEF IndInv, TypeOK, RepliesNameTheirCall, ServeForeign, session, peer,
         Reply, Early, Bodies, Frames
<1>3. IdsAreDistinct' /\ MapIsById' /\ HandsHoldTheirCall' /\ SlotsHoldTheirCall' /\
      WireHoldsTheUnserved' /\ OutcomesAreFinal' /\ SlotHasOneOwner' /\
      NoLostWakeup' /\ ParkedOrRunnable'
  BY DEF IndInv, ServeForeign, session, peer, Reply, IdsAreDistinct,
         MapIsById, HandsHoldTheirCall, SlotsHoldTheirCall,
         WireHoldsTheUnserved, OutcomesAreFinal, SlotHasOneOwner,
         NoLostWakeup, ParkedOrRunnable, Early, Registered, Bodies, Held
<1> QED BY <1>1, <1>2, <1>3 DEF IndInv

\* A ping keeps the invariant.
LEMMA SendPingStep ==
    ASSUME IndInv, SendPing
    PROVE  IndInv'
<1>1. TypeOK'
  BY DEF IndInv, TypeOK, SendPing, session, peer, Ping, Frames, Registered,
         Bodies, Answers, Places
<1>2. RepliesNameTheirCall'
  BY DEF IndInv, TypeOK, RepliesNameTheirCall, SendPing, session, peer, Ping,
         Early, Bodies, Frames
<1>3. IdsAreDistinct' /\ MapIsById' /\ HandsHoldTheirCall' /\ SlotsHoldTheirCall' /\
      WireHoldsTheUnserved' /\ OutcomesAreFinal' /\ SlotHasOneOwner' /\
      NoLostWakeup' /\ ParkedOrRunnable'
  BY DEF IndInv, SendPing, session, peer, Ping, IdsAreDistinct, MapIsById,
         HandsHoldTheirCall, SlotsHoldTheirCall, WireHoldsTheUnserved,
         OutcomesAreFinal, SlotHasOneOwner, NoLostWakeup, ParkedOrRunnable,
         Early, Registered, Bodies, Held
<1> QED BY <1>1, <1>2, <1>3 DEF IndInv

\* Losing the socket keeps the invariant.
LEMMA SocketGoneStep ==
    ASSUME IndInv, SocketGone
    PROVE  IndInv'
<1>1. TypeOK'
  BY DEF IndInv, TypeOK, SocketGone, session, peer, Frames, Registered,
         Bodies, Answers, Places
<1>2. RepliesNameTheirCall'
  BY DEF IndInv, TypeOK, RepliesNameTheirCall, SocketGone, session, peer,
         Early, Bodies, Frames
<1>3. WireHoldsTheUnserved'
  BY DEF IndInv, TypeOK, WireHoldsTheUnserved, SocketGone, session, peer,
         Early
<1>4. IdsAreDistinct' /\ MapIsById' /\ HandsHoldTheirCall' /\ SlotsHoldTheirCall' /\
      OutcomesAreFinal' /\ SlotHasOneOwner' /\ NoLostWakeup' /\
      ParkedOrRunnable'
  BY DEF IndInv, SocketGone, session, peer, IdsAreDistinct, MapIsById,
         HandsHoldTheirCall, SlotsHoldTheirCall, OutcomesAreFinal,
         SlotHasOneOwner, NoLostWakeup, ParkedOrRunnable, Early, Registered,
         Bodies, Held
<1> QED BY <1>1, <1>2, <1>3, <1>4 DEF IndInv

\* The initial state satisfies the invariant.
LEMMA InitInd == Init => IndInv
<1> SUFFICES ASSUME Init PROVE IndInv
  OBVIOUS
<1> USE DEF Init
<1>1. TypeOK
  BY DEF TypeOK, Registered, Answers, Places, Idle, Bodies
<1>2. /\ IdsAreDistinct /\ MapIsById /\ RepliesNameTheirCall
      /\ HandsHoldTheirCall /\ WireHoldsTheUnserved /\ OutcomesAreFinal
      /\ NoLostWakeup /\ ParkedOrRunnable
  BY DEF IdsAreDistinct, MapIsById, RepliesNameTheirCall, HandsHoldTheirCall,
         WireHoldsTheUnserved, OutcomesAreFinal, NoLostWakeup, ParkedOrRunnable,
         Idle
<1>3. SlotsHoldTheirCall
  BY DEF SlotsHoldTheirCall, Bodies
<1>4. SlotHasOneOwner
  BY DEF SlotHasOneOwner, Registered, Held, Idle
<1> QED
  BY <1>1, <1>2, <1>3, <1>4 DEF IndInv

\* Every step keeps the invariant.
LEMMA NextInd == IndInv /\ [Next]_vars => IndInv'
<1> SUFFICES ASSUME IndInv, [Next]_vars PROVE IndInv'
  OBVIOUS
<1>1. ASSUME NEW c \in Calls, Request(c) PROVE IndInv'
  BY <1>1, AllocateStep, RegisterStep, EncodeStep, TransmitStep, SendFailsStep,
     SendReturnsStep, PollStep, DropStep DEF Request
<1>2. ASSUME NEW r \in Readers, Deliver(r) PROVE IndInv'
  BY <1>2, DeliverReplyStep, DeliverIgnoredStep, DeliverPingStep, SendPongStep,
     DeliverFillStep DEF Deliver
<1>3. CASE Close
  BY <1>3, CloseTakeStep, CloseFillStep DEF Close
<1>4. CASE Environment
  BY <1>4, ServeStep, ServeForeignStep, SendPingStep, SocketGoneStep DEF Environment
<1>5. CASE UNCHANGED vars
  BY <1>5 DEF vars, session, peer, IndInv, TypeOK, Registered, IdsAreDistinct,
     MapIsById, Early, RepliesNameTheirCall, HandsHoldTheirCall,
     SlotsHoldTheirCall, WireHoldsTheUnserved, OutcomesAreFinal,
     SlotHasOneOwner, Held, NoLostWakeup, ParkedOrRunnable
<1> QED
  BY <1>1, <1>2, <1>3, <1>4, <1>5 DEF Next

\* The invariant holds in every state of a session.
THEOREM Invariance == Spec => []IndInv
<1> QED
  BY InitInd, NextInd, PTL DEF Spec

\* Every variable keeps its type.
THEOREM TypeCorrect == Spec => []TypeOK
<1>1. IndInv => TypeOK
  BY DEF IndInv
<1> QED
  BY <1>1, Invariance, PTL

\* A request is answered with the reply to itself and with no other, whatever
\* frames share the socket.
THEOREM OwnAnswers == Spec => []AnswersItsOwnCall
<1>1. IndInv => AnswersItsOwnCall
  BY DEF IndInv, TypeOK, OutcomesAreFinal, AnswersItsOwnCall, Bodies, Places
<1> QED
  BY <1>1, Invariance, PTL

\* No slot is ever in two hands, so none is filled twice.
THEOREM OneOwner == Spec => []SlotHasOneOwner
<1>1. IndInv => SlotHasOneOwner
  BY DEF IndInv
<1> QED
  BY <1>1, Invariance, PTL

\* A task that awaits a filled slot will be polled: no wakeup is lost.
THEOREM WakeupsKept == Spec => []NoLostWakeup
<1>1. IndInv => NoLostWakeup
  BY DEF IndInv
<1> QED
  BY <1>1, Invariance, PTL

\* What fills a slot stays there until its own call takes it.
THEOREM AnswersKept == Spec => AnswerIsFinal
<1>1. ASSUME IndInv, [Next]_vars, NEW c \in Calls, answer[c] # Empty
      PROVE  answer'[c] \in {answer[c], Taken}
  <2>1. ASSUME NEW d \in Calls, Request(d) PROVE answer'[c] \in {answer[c], Taken}
    BY <1>1, <2>1 DEF IndInv, TypeOK, Request, Allocate, Register, Encode, Transmit,
       SendFails, SendReturns, Poll, Drop
  <2>2. ASSUME NEW r \in Readers, Deliver(r) PROVE answer'[c] \in {answer[c], Taken}
    <3>1. ASSUME DeliverFill(r) PROVE answer'[c] \in {answer[c], Taken}
      BY <1>1, <3>1 DEF IndInv, TypeOK, SlotHasOneOwner, Held, DeliverFill, Fill
    <3> QED
      BY <2>2, <3>1 DEF Deliver, DeliverReply, DeliverIgnored, DeliverPing,
         SendPong, session
  <2>3. CASE Close
    BY <1>1, <2>3 DEF Close, CloseTake, CloseFill, Fill, IndInv, TypeOK, SlotHasOneOwner
  <2>4. CASE Environment \/ UNCHANGED vars
    BY <2>4 DEF Environment, Serve, ServeForeign, SendPing, SocketGone, vars, session
  <2> QED
    BY <1>1, <2>1, <2>2, <2>3, <2>4 DEF Next
<1>2. IndInv /\ [Next]_vars =>
        [\A c \in Calls : answer[c] # Empty => answer'[c] \in {answer[c], Taken}]_vars
  BY <1>1
<1> QED
  BY <1>2, Invariance, PTL DEF Spec, AnswerIsFinal

\* A session starts where RpcCalls starts.
LEMMA RefinesInit == Init => Rpc!RpcInit
  BY DEF Init, Rpc!RpcInit, Phase

\* A call's phase is read off pc and outcome alone.
LEMMA SamePhases ==
    ASSUME UNCHANGED <<pc, outcome>>
    PROVE  \A c \in Calls : Phase(c)' = Phase(c)
  BY DEF Phase

\* A step of one call leaves the phase of every other call alone.
LEMMA OthersKeepTheirPhase ==
    ASSUME IndInv, NEW c \in Calls,
           \A d \in Calls \ {c} : pc'[d] = pc[d] /\ outcome'[d] = outcome[d]
    PROVE  \A d \in Calls \ {c} : Phase(d)' = Phase(d)
  BY DEF Phase

\* A step of a task that makes a call is a step of RpcCalls, or a stutter.
LEMMA RequestRefines ==
    ASSUME IndInv, NEW c \in Calls, Request(c)
    PROVE  [Rpc!RpcNext]_(Rpc!rpcVars)
<1> DEFINE phases == [d \in Calls |-> Phase(d)]
<1>1. UNCHANGED served /\ \A d \in Calls \ {c} : Phase(d)' = Phase(d)
  BY OthersKeepTheirPhase DEF IndInv, TypeOK, Request, Allocate, Register, Encode,
     Transmit, SendFails, SendReturns, Poll, Drop, peer
<1>2. CASE Allocate(c)
  <2>1. Phase(c) = "idle" /\ Phase(c)' = "waiting"
    BY <1>2 DEF Allocate, Phase, IndInv, TypeOK
  <2>2. Rpc!Issue(c)
    BY <1>1, <2>1 DEF Rpc!Issue
  <2> QED
    BY <2>2 DEF Rpc!RpcNext
<1>3. CASE Drop(c)
  <2>1. Phase(c) = "waiting" /\ Phase(c)' = "abandoned"
    BY <1>3 DEF Drop, Waiting, Phase, IndInv, TypeOK
  <2>2. Rpc!Abandon(c)
    BY <1>1, <2>1 DEF Rpc!Abandon
  <2> QED
    BY <2>2 DEF Rpc!RpcNext
<1>4. CASE SendFails(c)
  <2>1. Phase(c) = "waiting" /\ Phase(c)' = "failed"
    BY <1>4 DEF SendFails, Phase, IndInv, TypeOK
  <2>2. Rpc!Fail(c)
    BY <1>1, <2>1 DEF Rpc!Fail
  <2> QED
    BY <2>2 DEF Rpc!RpcNext
<1>5. CASE Encode(c) /\ pc'[c] = "done"
  <2>1. Phase(c) = "waiting" /\ Phase(c)' = "failed"
    BY <1>5 DEF Encode, Phase, IndInv, TypeOK
  <2>2. Rpc!Fail(c)
    BY <1>1, <2>1 DEF Rpc!Fail
  <2> QED
    BY <2>2 DEF Rpc!RpcNext
<1>6. CASE Poll(c) /\ answer[c] = Closed
  <2>1. Phase(c) = "waiting" /\ Phase(c)' = "failed"
    BY <1>6 DEF Poll, Phase, IndInv, TypeOK
  <2>2. Rpc!Fail(c)
    BY <1>1, <2>1 DEF Rpc!Fail
  <2> QED
    BY <2>2 DEF Rpc!RpcNext
<1>7. CASE Poll(c) /\ answer[c] \in Bodies
  <2>1. answer[c] = c /\ c \in served
    BY <1>7 DEF IndInv, SlotsHoldTheirCall
  <2>2. Phase(c) = "waiting" /\ Phase(c)' = "answered"
    BY <1>7, <2>1 DEF Poll, Phase, IndInv, TypeOK
  <2>3. Rpc!Answer(c)
    BY <1>1, <2>1, <2>2 DEF Rpc!Answer
  <2> QED
    BY <2>3 DEF Rpc!RpcNext
<1>8. CASE Poll(c) /\ answer[c] \notin Bodies \cup {Closed}
  <2>1. answer[c] = Empty
    BY <1>8 DEF Poll, IndInv, TypeOK, Answers, SlotsHoldTheirCall
  <2>2. UNCHANGED <<pc, outcome>>
    BY <1>8, <2>1 DEF Poll
  <2> QED
    BY <1>1, <2>2, SamePhases DEF Rpc!rpcVars
<1>9. CASE Register(c) \/ (Encode(c) /\ pc'[c] # "done") \/ Transmit(c) \/ SendReturns(c)
  <2>1. Phase(c) = "waiting" /\ Phase(c)' = "waiting"
    BY <1>9 DEF Register, Encode, Transmit, SendReturns, Phase, IndInv, TypeOK
  <2> QED
    BY <1>1, <2>1 DEF Rpc!rpcVars
<1> QED
  BY <1>2, <1>3, <1>4, <1>5, <1>6, <1>7, <1>8, <1>9 DEF Request

\* A session implements RpcCalls: every call is answered with its own reply,
\* which the peer has sent, or failed, or abandoned, once and for good.
THEOREM Refinement == Spec => ImplementsRpcCalls
<1>1. ASSUME IndInv, [Next]_vars PROVE [Rpc!RpcNext]_(Rpc!rpcVars)
  <2>1. ASSUME NEW c \in Calls, Request(c) PROVE [Rpc!RpcNext]_(Rpc!rpcVars)
    BY <1>1, <2>1, RequestRefines
  <2>2. ASSUME NEW c \in Calls, Serve(c) PROVE [Rpc!RpcNext]_(Rpc!rpcVars)
    <3>1. Phase(c) # "idle" /\ c \notin served
      BY <1>1, <2>2 DEF Serve, IndInv, WireHoldsTheUnserved, Early, Phase
    <3>2. \A d \in Calls : Phase(d)' = Phase(d)
      BY <2>2, SamePhases DEF Serve, session
    <3>3. Rpc!ServeCall(c)
      BY <2>2, <3>1, <3>2 DEF Serve, Rpc!ServeCall
    <3> QED
      BY <3>3 DEF Rpc!RpcNext
  <2>3. CASE (\E r \in Readers : Deliver(r)) \/ Close \/ UNCHANGED vars
    <3>1. UNCHANGED <<pc, outcome, served>>
      BY <2>3 DEF Deliver, DeliverReply, DeliverIgnored, DeliverPing, SendPong,
         DeliverFill, Close, CloseTake, CloseFill, session, peer, vars
    <3> QED
      BY <3>1, SamePhases DEF Rpc!rpcVars
  <2>4. CASE ServeForeign \/ SendPing \/ SocketGone
    <3>1. UNCHANGED <<pc, outcome, served>>
      BY <2>4 DEF ServeForeign, SendPing, SocketGone, session
    <3> QED
      BY <3>1, SamePhases DEF Rpc!rpcVars
  <2> QED
    BY <1>1, <2>1, <2>2, <2>3, <2>4 DEF Next, Environment
<1> QED
  BY <1>1, RefinesInit, Invariance, PTL DEF Spec, ImplementsRpcCalls, Rpc!RpcSpec
=============================================================================
