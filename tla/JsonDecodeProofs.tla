--------------------------- MODULE JsonDecodeProofs --------------------------
(* First what holds of every decode: whatever the type's own code answers, whatever a walk lists,  *)
(* and whatever any number of resolvers do to the value they are handed. Then what the walk of the *)
(* declared types lists of any JSON value.                                                        *)
EXTENDS JsonDecode, WellFoundedInduction, FiniteSetTheorems, TLAPS

Answers == {"NotTouched", "Settled", "Rejected"}
Questions == [by : Nat, issue : Nat, answer : Answers]
Asking == {"pipe", "second", "done"}

(* All that is assumed of the parameters: a read of a value of some set, which holds what a caller *)
(* hands in and is left neither by a correction nor by a rewriting, lists a sequence; and a        *)
(* resolver answers with one of the three answers there are, whatever it makes of the value.      *)
(* Resolvers are counted where the pipe has to reach the last one.                                *)
ReadsList(Values, Issues) ==
  \A asks \in Taken :
    /\ asks.raw \in Values
    /\ \A value \in Values :
         /\ Lists(asks.type, value) \in Seq(Issues)
         /\ Correction(asks.type, value) \in Values /\ Rewritten(value, Lists(asks.type, value)) \in Values
Counted == \A asks \in Taken : asks.resolvers \in Nat
Answering == \A asks, value, issue : \A resolution \in Resolutions(asks, value, issue) : resolution.answer \in Answers

(* The questions of a pipe lie before its cursor, in the order they were asked, and an issue that  *)
(* a question decided is no longer open.                                                         *)
Before(question, at) == question.by < at[1] \/ (question.by = at[1] /\ question.issue < at[2])
Cursor ==
  /\ cursor \in (Nat \ {0}) \X (Nat \ {0})
  /\ phase \notin Asking => cursor = <<1, 1>> /\ asked = <<>>
  /\ phase \in {"decide", "pipe"} => found # <<>>
  /\ phase = "pipe" => cursor[2] \in 1 .. Len(found)
Past ==
  /\ asked \in Seq(Questions)
  /\ \A n \in DOMAIN asked : Before(asked[n], cursor)
Decided ==
  phase = "pipe" =>
    \A n \in DOMAIN asked : asked[n].answer # "NotTouched" => asked[n].issue \in DOMAIN answers /\ answers[asked[n].issue] # "NotTouched"
(* What a decision leaves behind it: an issue is settled where a resolver settled it, decided where *)
(* one decided it, and every place the cursor has passed is a turn that was had.                  *)
Answered ==
  phase = "pipe" =>
    \A i \in DOMAIN found :
      /\ answers[i] = "Settled" <=> SettledByOne(i)
      /\ answers[i] # "NotTouched" => \E n \in DOMAIN asked : asked[n].issue = i /\ asked[n].answer # "NotTouched"
TurnsHad ==
  phase = "pipe" =>
    \A by \in 1 .. call.resolvers, i \in DOMAIN found :
      by < cursor[1] \/ (by = cursor[1] /\ i < cursor[2]) => HadItsTurn(by, i)
WholePipe ==
  /\ call \in Taken
  /\ phase = "decide" => call.entry = "with"
  /\ Answered /\ TurnsHad /\ PipeEnded
(* Until it is handed over a value is one of those, and the list is what the last read made of it. *)
Reading(Values) ==
  /\ call \in Taken
  /\ phase \in {"taken", "first", "found"} => raw \in Values
  /\ phase = "found" => found = Lists(call.type, raw)
InTurn(Issues) ==
  /\ found \in Seq(Issues)
  /\ phase \in {"decide", "pipe"} => DOMAIN answers = DOMAIN found
  /\ Cursor /\ Past /\ Decided /\ AskedInTurn

(* A value is answered only from a read of it, as the digits, the callback and the resolvers left  *)
(* it, that listed nothing, and that serde accepted where an earlier read had found something.    *)
(* (recovering_decode.rs:3629, second_read.)                                                     *)
AnsweredFromACleanRead ==
  outcome = Ok => Lists(call.type, raw) = <<>> /\ (found # <<>> => IsRead(call.type, raw))
Standing ==
  /\ phase = "found" => found = Lists(call.type, raw)
  /\ phase # "done" => outcome = Pending
  /\ AnsweredFromACleanRead

----------------------------------------------------------------------------
(* The three outcomes are told apart by their result.                                            *)
LEMMA OutcomesDiffer ==
  /\ Ok # Pending
  /\ \A issues : Unrecovered(issues) # Pending /\ Unrecovered(issues) # Ok
<1>1. Ok.result = "ok" /\ Pending.result = "pending" /\ \A issues : Unrecovered(issues).result = "unrecovered"
  BY DEF Ok, Pending, Unrecovered
<1> QED BY <1>1

(* Every variable of a decode keeps its type (from_value_with and from_value_piped), for resolvers *)
(* that answer with one of the three answers.                                                    *)
THEOREM TypeCorrect ==
  ASSUME Answering PROVE Spec => []TypeOK
<1>1. Init => TypeOK
  <2> SUFFICES ASSUME Init PROVE TypeOK
    OBVIOUS
  <2>1. call \in Taken /\ phase = "taken" /\ settled = FALSE /\ outcome = Pending /\ answers = <<>>
    BY DEF Init
  <2>2. \A i \in DOMAIN answers : answers[i] \in {"NotTouched", "Settled", "Rejected"}
    BY <2>1
  <2>3. (phase = "done") = (outcome # Pending)
    BY <2>1
  <2> QED BY <2>1, <2>2, <2>3 DEF TypeOK, Phases
<1>2. TypeOK /\ [Next]_vars => TypeOK'
  <2> SUFFICES ASSUME TypeOK, [Next]_vars PROVE TypeOK'
    OBVIOUS
  <2> USE OutcomesDiffer DEF TypeOK, Phases
  <2>1. CASE Correct
    BY <2>1 DEF Correct
  <2>2. CASE FirstRead
    BY <2>2 DEF FirstRead
  <2>3. CASE ReadClean
    BY <2>3 DEF ReadClean
  <2>4. CASE SettleDigits
    BY <2>4 DEF SettleDigits
  <2>5. CASE HandOver
    BY <2>5 DEF HandOver
  <2>6. CASE Decide
    BY <2>6 DEF Decide
  <2>7. CASE Resolve
    <3>1. PICK resolution \in Resolutions(call, raw, found[cursor[2]]) :
             answers' = [answers EXCEPT ![cursor[2]] = resolution.answer]
      BY <2>7 DEF Resolve
    <3>2. resolution.answer \in Answers
      BY <3>1, Answering DEF Answering
    <3> QED BY <2>7, <3>1, <3>2 DEF Resolve, Piping, Answers
  <2>8. CASE PassOver
    BY <2>8 DEF PassOver
  <2>9. CASE EndPipe
    BY <2>9 DEF EndPipe, Piping
  <2>10. CASE SecondRead
    BY <2>10 DEF SecondRead
  <2>11. CASE UNCHANGED vars
    BY <2>11 DEF vars
  <2> QED BY <2>1, <2>2, <2>3, <2>4, <2>5, <2>6, <2>7, <2>8, <2>9, <2>10, <2>11 DEF Next
<1> QED BY <1>1, <1>2, PTL DEF Spec

(* What a decode answers is the value it last read, and that read found nothing wrong with it:     *)
(* whatever a callback or a resolver wrote, and whatever the digits were rewritten to.            *)
THEOREM AnsweredCleanly ==
  Spec => []AnsweredFromACleanRead
<1>1. Init => Standing
  BY OutcomesDiffer DEF Init, Standing, AnsweredFromACleanRead
<1>2. Standing /\ [Next]_vars => Standing'
  <2> SUFFICES ASSUME Standing, [Next]_vars PROVE Standing'
    OBVIOUS
  <2> USE OutcomesDiffer DEF Standing, AnsweredFromACleanRead
  <2>1. CASE Correct
    BY <2>1 DEF Correct
  <2>2. CASE FirstRead
    BY <2>2 DEF FirstRead
  <2>3. CASE ReadClean
    BY <2>3 DEF ReadClean
  <2>4. CASE SettleDigits
    BY <2>4 DEF SettleDigits
  <2>5. CASE HandOver
    BY <2>5 DEF HandOver
  <2>6. CASE Decide
    BY <2>6 DEF Decide
  <2>7. CASE Resolve
    BY <2>7 DEF Resolve, Piping
  <2>8. CASE PassOver
    BY <2>8 DEF PassOver, Piping
  <2>9. CASE EndPipe
    BY <2>9 DEF EndPipe
  <2>10. CASE SecondRead
    BY <2>10 DEF SecondRead
  <2>11. CASE UNCHANGED vars
    BY <2>11 DEF vars
  <2> QED BY <2>1, <2>2, <2>3, <2>4, <2>5, <2>6, <2>7, <2>8, <2>9, <2>10, <2>11 DEF Next
<1>3. Standing => AnsweredFromACleanRead
  BY DEF Standing
<1> QED BY <1>1, <1>2, <1>3, PTL DEF Spec

----------------------------------------------------------------------------
(* The cursor goes forward: what lies before it lies before what comes after it.                  *)
LEMMA CursorGoesOn ==
  ASSUME Cursor, Piping
  PROVE  /\ After(cursor) \in (Nat \ {0}) \X (Nat \ {0})
         /\ phase = "pipe" => After(cursor)[2] \in 1 .. Len(found)
         /\ \A question \in Questions : Before(question, cursor) => Before(question, After(cursor))
         /\ \A answer : Before([by |-> cursor[1], issue |-> cursor[2], answer |-> answer], After(cursor))
<1>1. cursor = <<cursor[1], cursor[2]>> /\ cursor[1] \in Nat \ {0} /\ cursor[2] \in Nat \ {0}
  BY DEF Cursor
<1>2. CASE cursor[2] = Len(found)
  BY <1>1, <1>2 DEF After, Before, Questions, Cursor, Piping
<1>3. CASE cursor[2] # Len(found)
  BY <1>1, <1>3 DEF After, Before, Questions, Cursor, Piping
<1> QED BY <1>2, <1>3

(* A question that is asked comes after all that were, of an issue none of them decided.          *)
LEMMA ResolveKeepsTurn ==
  ASSUME NEW Issues, Answering, InTurn(Issues), Resolve
  PROVE  InTurn(Issues)'
<1> DEFINE at == cursor[2]
<1>1. PICK resolution \in Resolutions(call, raw, found[at]) :
         /\ answers' = [answers EXCEPT ![at] = resolution.answer]
         /\ asked' = Append(asked, [by |-> cursor[1], issue |-> at, answer |-> resolution.answer])
  BY DEF Resolve
<1> DEFINE question == [by |-> cursor[1], issue |-> at, answer |-> resolution.answer]
<1>2. question \in Questions
  BY Answering DEF Answering, Questions, InTurn, Cursor
<1>3. phase = "pipe" /\ phase' = "pipe" /\ found' = found /\ cursor' = After(cursor) /\ Piping /\ answers[at] = "NotTouched"
  BY DEF Resolve, Piping, Open
<1>4. asked \in Seq(Questions) /\ asked' = Append(asked, question)
  BY <1>1 DEF InTurn, Past
<1>5. /\ asked' \in Seq(Questions)
      /\ Len(asked') = Len(asked) + 1
      /\ \A n \in DOMAIN asked : asked'[n] = asked[n]
      /\ asked'[Len(asked) + 1] = question
      /\ DOMAIN asked = 1 .. Len(asked) /\ DOMAIN asked' = 1 .. Len(asked) + 1
      /\ Len(asked) \in Nat
  BY <1>2, <1>4
<1>6. Cursor'
  BY <1>3, CursorGoesOn DEF InTurn, Cursor, Asking
<1>7. Past'
  <2>1. ASSUME NEW n \in DOMAIN asked' PROVE Before(asked'[n], After(cursor))
    <3>1. CASE n \in DOMAIN asked
      <4>1. asked[n] \in Questions /\ Before(asked[n], cursor) /\ asked'[n] = asked[n]
        BY <3>1, <1>4, <1>5 DEF InTurn, Past
      <4> QED BY <4>1, <1>3, CursorGoesOn DEF InTurn
    <3>2. CASE n = Len(asked) + 1
      BY <3>2, <1>3, <1>5, CursorGoesOn DEF InTurn
    <3> QED BY <3>1, <3>2, <1>5
  <2> QED BY <2>1, <1>3, <1>5 DEF Past, Before
<1>8. at \in DOMAIN answers /\ DOMAIN answers' = DOMAIN answers /\ DOMAIN answers = DOMAIN found
  <2>1. DOMAIN answers = DOMAIN found /\ found \in Seq(Issues) /\ at \in 1 .. Len(found)
    BY <1>3 DEF InTurn, Cursor
  <2>2. DOMAIN found = 1 .. Len(found)
    BY <2>1
  <2>3. DOMAIN answers' = DOMAIN answers
    BY <1>1
  <2> QED BY <2>1, <2>2, <2>3
<1>9. Decided'
  <2>1. ASSUME NEW n \in DOMAIN asked', asked'[n].answer # "NotTouched"
        PROVE  asked'[n].issue \in DOMAIN answers' /\ answers'[asked'[n].issue] # "NotTouched"
    <3>1. CASE n \in DOMAIN asked
      <4>1. asked[n].issue \in DOMAIN answers /\ answers[asked[n].issue] # "NotTouched" /\ asked'[n] = asked[n]
        BY <3>1, <2>1, <1>3, <1>5 DEF InTurn, Decided
      <4>2. asked[n].issue # at
        BY <4>1, <1>3
      <4> QED BY <4>1, <4>2, <1>1, <1>8
    <3>2. CASE n = Len(asked) + 1
      BY <3>2, <2>1, <1>1, <1>5, <1>8
    <3> QED BY <3>1, <3>2, <1>5
  <2> QED BY <2>1 DEF Decided
<1>10. AskedInTurn'
  <2>1. ASSUME NEW m \in DOMAIN asked', NEW n \in DOMAIN asked', m < n
        PROVE  /\ asked'[m].by < asked'[n].by \/ (asked'[m].by = asked'[n].by /\ asked'[m].issue < asked'[n].issue)
               /\ asked'[m].issue = asked'[n].issue => asked'[m].answer = "NotTouched"
    <3>1. m \in DOMAIN asked /\ asked'[m] = asked[m]
      BY <2>1, <1>5
    <3>2. CASE n \in DOMAIN asked
      BY <3>1, <3>2, <2>1, <1>5 DEF InTurn, AskedInTurn
    <3>3. CASE n = Len(asked) + 1
      <4>1. Before(asked[m], cursor)
        BY <3>1 DEF InTurn, Past
      <4>2. asked[m].issue = at => asked[m].answer = "NotTouched"
        BY <3>1, <1>3 DEF InTurn, Decided
      <4>3. asked'[n].by = cursor[1] /\ asked'[n].issue = at
        BY <3>3, <1>5
      <4> QED BY <3>1, <4>1, <4>2, <4>3 DEF Before
    <3> QED BY <3>2, <3>3, <1>5
  <2> QED BY <2>1 DEF AskedInTurn
<1> QED BY <1>3, <1>6, <1>7, <1>8, <1>9, <1>10 DEF InTurn

LEMMA InTurnAtFirst ==
  ASSUME NEW Issues, Init PROVE InTurn(Issues)
BY DEF Init, InTurn, Cursor, Past, Decided, AskedInTurn, Asking

(* Nobody writes to a value before its list is handed over but the decode itself.                 *)
LEMMA ReadingIsKept ==
  ASSUME NEW Values, NEW Issues, ReadsList(Values, Issues), Reading(Values), [Next]_vars PROVE Reading(Values)'
<1> USE DEF Reading, ReadsList
<1>1. CASE Correct
  BY <1>1 DEF Correct
<1>2. CASE FirstRead
  BY <1>2 DEF FirstRead
<1>3. CASE ReadClean
  BY <1>3 DEF ReadClean
<1>4. CASE SettleDigits
  BY <1>4 DEF SettleDigits
<1>5. CASE HandOver
  BY <1>5 DEF HandOver
<1>6. CASE Decide
  BY <1>6 DEF Decide
<1>7. CASE Resolve
  BY <1>7 DEF Resolve, Piping
<1>8. CASE PassOver
  BY <1>8 DEF PassOver, Piping
<1>9. CASE EndPipe
  BY <1>9 DEF EndPipe
<1>10. CASE SecondRead
  BY <1>10 DEF SecondRead
<1>11. CASE UNCHANGED vars
  BY <1>11 DEF vars
<1> QED BY <1>1, <1>2, <1>3, <1>4, <1>5, <1>6, <1>7, <1>8, <1>9, <1>10, <1>11 DEF Next

(* A decode starts from what the caller handed in. *)
LEMMA ReadingAtFirst ==
  ASSUME NEW Values, NEW Issues, ReadsList(Values, Issues), Init PROVE Reading(Values)
BY DEF Init, Reading, ReadsList

(* Every other step leaves the questions asked as they are.                                       *)
LEMMA InTurnIsKept ==
  ASSUME NEW Values, NEW Issues, ReadsList(Values, Issues), Answering, Reading(Values), InTurn(Issues), [Next]_vars
  PROVE  InTurn(Issues)'
<1>1. ASSUME UNCHANGED <<asked, cursor>>, phase \notin Asking, found' \in Seq(Issues), phase' \notin Asking \/ found' = found,
             phase' \in {"decide", "pipe"} => found' # <<>> /\ DOMAIN answers' = DOMAIN found'
      PROVE  InTurn(Issues)'
  <2>1. asked = <<>> /\ cursor = <<1, 1>>
    BY <1>1 DEF InTurn, Cursor
  <2>2. phase' = "pipe" => 1 \in 1 .. Len(found')
    BY <1>1
  <2> QED BY <1>1, <2>1, <2>2 DEF InTurn, Cursor, Past, Decided, AskedInTurn, Asking, Before
<1>2. ASSUME UNCHANGED <<asked, cursor, found>>, phase \in Asking, phase' \in {"second", "done"}
      PROVE  InTurn(Issues)'
  BY <1>2 DEF InTurn, Cursor, Past, Decided, AskedInTurn, Asking, Before
<1>3. CASE Correct
  BY <1>3, <1>1 DEF Correct, InTurn, Asking
<1>4. CASE FirstRead
  BY <1>4, <1>1 DEF FirstRead, InTurn, Asking, Reading, ReadsList
<1>5. CASE ReadClean
  BY <1>5, <1>1 DEF ReadClean, InTurn, Asking
<1>6. CASE SettleDigits
  BY <1>6, <1>1 DEF SettleDigits, InTurn, Asking
<1>7. CASE HandOver
  BY <1>7, <1>1 DEF HandOver, InTurn, Asking
<1>8. CASE Decide
  BY <1>8, <1>1 DEF Decide, InTurn, Asking
<1>9. CASE Resolve
  BY <1>9, ResolveKeepsTurn
<1>10. CASE PassOver
  <2>1. phase = "pipe" /\ cursor' = After(cursor) /\ Piping /\ UNCHANGED <<phase, found, answers, asked>>
    BY <1>10 DEF PassOver, Piping
  <2>2. Cursor'
    BY <2>1, CursorGoesOn DEF InTurn, Cursor, Asking
  <2>3. Past'
    <3>1. ASSUME NEW n \in DOMAIN asked PROVE Before(asked[n], After(cursor))
      <4>1. asked[n] \in Questions /\ Before(asked[n], cursor)
        BY DEF InTurn, Past
      <4> QED BY <4>1, <2>1, CursorGoesOn DEF InTurn
    <3> QED BY <3>1, <2>1 DEF InTurn, Past, Before
  <2> QED BY <2>1, <2>2, <2>3 DEF InTurn, Decided, AskedInTurn
<1>11. CASE EndPipe
  BY <1>11, <1>2 DEF EndPipe, Asking
<1>12. CASE SecondRead
  BY <1>12, <1>2 DEF SecondRead, Asking
<1>13. CASE UNCHANGED vars
  BY <1>13 DEF vars, InTurn, Cursor, Past, Decided, AskedInTurn, Before
<1> QED BY <1>3, <1>4, <1>5, <1>6, <1>7, <1>8, <1>9, <1>10, <1>11, <1>12, <1>13 DEF Next

(* For every type and every number of resolvers: they are asked in their order, each under the      *)
(* issues in the order of the list, and an issue that was settled or rejected is handed to nobody  *)
(* after. With AskedInTurn, the part of PipeKeepsItsOrder that is about who is asked what.         *)
THEOREM ResolversTakeTurns ==
  ASSUME NEW CONSTANT Values, NEW CONSTANT Issues, ReadsList(Values, Issues), Answering
  PROVE  Spec => []AskedInTurn
<1>1. Init => Reading(Values) /\ InTurn(Issues)
  BY ReadingAtFirst, InTurnAtFirst
<1>2. Reading(Values) /\ InTurn(Issues) /\ [Next]_vars => Reading(Values)' /\ InTurn(Issues)'
  BY ReadingIsKept, InTurnIsKept
<1>3. InTurn(Issues) => AskedInTurn
  BY DEF InTurn
<1> QED BY <1>1, <1>2, <1>3, PTL DEF Spec

----------------------------------------------------------------------------
(* An issue that is kept has its place, after those of the kept ones found before it.             *)
LEMMA PlacesInOrder ==
  ASSUME NEW Issues, found \in Seq(Issues)
  PROVE  /\ IsFiniteSet(Kept) /\ Cardinality(Kept) \in Nat
         /\ \A i \in Kept : PlaceOf(i) \in 1 .. Cardinality(Kept)
         /\ \A i, j \in Kept : i < j => PlaceOf(i) < PlaceOf(j)
         /\ \A k \in 1 .. Cardinality(Kept) : \E i \in Kept : PlaceOf(i) = k
<1> DEFINE UpTo(i) == {j \in Kept : j <= i}
<1>1. Kept \subseteq 1 .. Len(found) /\ Len(found) \in Nat
  BY DEF Kept
<1>2. IsFiniteSet(Kept) /\ Cardinality(Kept) \in Nat
  <2>1. IsFiniteSet(1 .. Len(found))
    BY <1>1, FS_Interval
  <2>2. IsFiniteSet(Kept)
    BY <1>1, <2>1, FS_Subset
  <2> QED BY <2>2, FS_CardinalityType
<1>3. ASSUME NEW i PROVE /\ UpTo(i) \subseteq Kept /\ IsFiniteSet(UpTo(i)) /\ PlaceOf(i) = Cardinality(UpTo(i))
                         /\ PlaceOf(i) \in Nat /\ PlaceOf(i) <= Cardinality(Kept)
  <2>1. UpTo(i) \subseteq Kept
    OBVIOUS
  <2>2. IsFiniteSet(UpTo(i)) /\ Cardinality(UpTo(i)) <= Cardinality(Kept) /\ Cardinality(UpTo(i)) \in Nat
    BY <1>2, <2>1, FS_Subset, FS_CardinalityType
  <2> QED BY <2>1, <2>2 DEF PlaceOf
<1>4. ASSUME NEW i \in Kept PROVE PlaceOf(i) \in 1 .. Cardinality(Kept)
  <2>1. i \in UpTo(i)
    BY <1>1
  <2>2. Cardinality(UpTo(i)) # 0 /\ PlaceOf(i) = Cardinality(UpTo(i))
    BY <1>3, <2>1, FS_EmptySet
  <2>3. PlaceOf(i) \in Nat /\ PlaceOf(i) <= Cardinality(Kept) /\ PlaceOf(i) # 0
    BY <1>3, <2>2
  <2> HIDE DEF UpTo
  <2> QED BY <1>2, <2>3
<1>5. ASSUME NEW i \in Kept, NEW j \in Kept, i < j PROVE PlaceOf(i) < PlaceOf(j)
  <2>1. UpTo(i) \subseteq UpTo(j) /\ j \in UpTo(j) /\ j \notin UpTo(i)
    <3>1. i \in Nat /\ j \in Nat /\ i <= j /\ ~(j <= i) /\ \A k \in Kept : k \in Nat
      BY <1>1, <1>5
    <3>2. \A k \in Kept : k <= i => k <= j
      BY <3>1
    <3>3. UpTo(i) \subseteq UpTo(j)
      BY <3>2
    <3>4. j \in UpTo(j) /\ j \notin UpTo(i)
      BY <3>1
    <3> QED BY <3>3, <3>4
  <2>2. Cardinality(UpTo(i)) <= Cardinality(UpTo(j)) /\ Cardinality(UpTo(j)) # Cardinality(UpTo(i))
    BY <1>3, <2>1, FS_Subset
  <2>3. PlaceOf(i) \in Nat /\ PlaceOf(j) \in Nat /\ PlaceOf(i) = Cardinality(UpTo(i)) /\ PlaceOf(j) = Cardinality(UpTo(j))
    BY <1>3
  <2> QED BY <2>2, <2>3
<1>6. ASSUME NEW k \in 1 .. Cardinality(Kept) PROVE \E i \in Kept : PlaceOf(i) = k
  <2> DEFINE place == [i \in Kept |-> PlaceOf(i)]
             T == 1 .. Cardinality(Kept)
  <2>1. place \in [Kept -> T]
    BY <1>4
  <2>2. \A i, j \in Kept : place[i] = place[j] => i = j
    <3>1. ASSUME NEW i \in Kept, NEW j \in Kept, PlaceOf(i) = PlaceOf(j) PROVE i = j
      <4>1. ~(PlaceOf(i) < PlaceOf(j)) /\ ~(PlaceOf(j) < PlaceOf(i))
        <5>1. PlaceOf(i) \in Nat
          BY <1>3
        <5> QED BY <3>1, <5>1
      <4>2. i \in Nat /\ j \in Nat
        BY <1>1
      <4> QED BY <1>5, <4>1, <4>2
    <3> QED BY <3>1
  <2>3. IsFiniteSet(T) /\ Cardinality(T) = Cardinality(Kept)
    BY <1>2, FS_Interval
  <2> HIDE DEF place, T
  <2>4. place \in Injection(Kept, T)
    BY <2>1, <2>2 DEF Injection, IsInjective
  <2>5. place \in Surjection(Kept, T)
    BY <2>3, <2>4, FS_Injection
  <2> QED BY <2>5 DEF Surjection, place, T
<1> QED BY <1>2, <1>4, <1>5, <1>6

(* What is left is the issues that are kept, each once and in the order they were found.           *)
LEMMA LeftInOrder ==
  ASSUME NEW Issues, found \in Seq(Issues)
  PROVE  /\ Left = <<>> <=> Kept = {}
         /\ \E place \in [DOMAIN Left -> DOMAIN found] :
              /\ \A k \in DOMAIN Left : Left[k] = found[place[k]]
              /\ \A k, l \in DOMAIN Left : k < l => place[k] < place[l]
              /\ \A i \in DOMAIN found : i \in Kept <=> \E k \in DOMAIN Left : place[k] = i
<1> DEFINE N == Cardinality(Kept)
           place == [k \in 1 .. N |-> CHOOSE i \in Kept : PlaceOf(i) = k]
<1>1. /\ IsFiniteSet(Kept) /\ N \in Nat
      /\ \A i \in Kept : PlaceOf(i) \in 1 .. N
      /\ \A i, j \in Kept : i < j => PlaceOf(i) < PlaceOf(j)
      /\ \A k \in 1 .. N : \E i \in Kept : PlaceOf(i) = k
  BY PlacesInOrder
<1>2. Kept \subseteq DOMAIN found /\ DOMAIN found = 1 .. Len(found) /\ Len(found) \in Nat
  BY DEF Kept
<1>3. DOMAIN Left = 1 .. N /\ \A k \in 1 .. N : Left[k] = found[place[k]]
  BY DEF Left
<1>4. \A k \in 1 .. N : place[k] \in Kept /\ PlaceOf(place[k]) = k
  BY <1>1
<1>5. place \in [DOMAIN Left -> DOMAIN found]
  BY <1>2, <1>3, <1>4
<1> HIDE DEF place, N
<1>6. ASSUME NEW k \in 1 .. N, NEW l \in 1 .. N, k < l PROVE place[k] < place[l]
  <2>1. /\ place[k] \in Kept /\ place[l] \in Kept /\ place[k] \in 1 .. Len(found) /\ place[l] \in 1 .. Len(found)
        /\ PlaceOf(place[k]) = k /\ PlaceOf(place[l]) = l
    BY <1>2, <1>4
  <2>2. place[k] # place[l]
    BY <1>1, <1>6, <2>1
  <2>3. ~(place[l] < place[k])
    <3> SUFFICES ASSUME place[l] < place[k] PROVE FALSE
      OBVIOUS
    <3>1. l < k
      BY <1>1, <2>1
    <3> QED BY <1>1, <1>6, <3>1
  <2> QED BY <1>2, <2>1, <2>2, <2>3
<1>7. ASSUME NEW i \in Kept PROVE \E k \in 1 .. N : place[k] = i
  <2>1. PlaceOf(i) \in 1 .. N
    BY <1>1
  <2>2. place[PlaceOf(i)] \in Kept /\ PlaceOf(place[PlaceOf(i)]) = PlaceOf(i)
    BY <1>4, <2>1
  <2>3. PlaceOf(i) \in Nat /\ i \in Nat /\ place[PlaceOf(i)] \in Nat
    BY <1>2, <2>1, <2>2
  <2>4. ~(i < place[PlaceOf(i)]) /\ ~(place[PlaceOf(i)] < i)
    BY <1>1, <2>2, <2>3
  <2>5. place[PlaceOf(i)] = i
    BY <2>3, <2>4
  <2> QED BY <2>1, <2>5
<1>8. Left = <<>> <=> Kept = {}
  <2>1. Kept = {} <=> N = 0
    BY <1>1, FS_EmptySet DEF N
  <2>2. Left = <<>> <=> 1 .. N = {}
    <3>1. Left = [k \in 1 .. N |-> Left[k]]
      BY <1>3 DEF Left, N
    <3>2. CASE N = 0
      BY <3>1, <3>2, <1>3
    <3>3. CASE N # 0
      <4>1. 1 \in DOMAIN Left
        BY <1>1, <1>3, <3>3
      <4>2. 1 \in 1 .. N
        BY <1>3, <4>1
      <4>3. Left # <<>>
        <5>1. DOMAIN <<>> = {}
          OBVIOUS
        <5> QED BY <4>1, <5>1
      <4> QED BY <4>2, <4>3
    <3> QED BY <3>2, <3>3
  <2> QED BY <1>1, <2>1, <2>2
<1>9. \A i \in DOMAIN found : i \in Kept <=> \E k \in 1 .. N : place[k] = i
  BY <1>4, <1>7
<1>10. /\ \A k \in DOMAIN Left : Left[k] = found[place[k]]
       /\ \A k, l \in DOMAIN Left : k < l => place[k] < place[l]
       /\ \A i \in DOMAIN found : i \in Kept <=> \E k \in DOMAIN Left : place[k] = i
  BY <1>3, <1>6, <1>9
<1> QED BY <1>5, <1>8, <1>10

----------------------------------------------------------------------------
(* Where the cursor stands when a pipe is read off: past its last resolver.                       *)
LEMMA PipeIsOver ==
  ASSUME NEW Issues, Counted, InTurn(Issues), call \in Taken, phase = "pipe", ~Piping
  PROVE  \A by \in 1 .. call.resolvers : by < cursor[1]
<1>1. call.resolvers \in Nat /\ cursor[1] \in Nat
  BY DEF Counted, InTurn, Cursor
<1>2. cursor[2] <= Len(found)
  BY DEF InTurn, Cursor
<1> QED BY <1>1, <1>2 DEF Piping

(* A place that lies before the next one lies before this one, or is this one.                    *)
LEMMA CursorGoesByOne ==
  ASSUME NEW Issues, InTurn(Issues), Piping, NEW by \in Nat, NEW i \in DOMAIN found,
         by < After(cursor)[1] \/ (by = After(cursor)[1] /\ i < After(cursor)[2])
  PROVE  by < cursor[1] \/ (by = cursor[1] /\ i < cursor[2]) \/ (by = cursor[1] /\ i = cursor[2])
<1>1. cursor[1] \in Nat /\ cursor[2] \in 1 .. Len(found) /\ Len(found) \in Nat /\ i \in 1 .. Len(found)
  BY DEF InTurn, Cursor, Piping
<1>2. CASE cursor[2] = Len(found)
  <2>1. After(cursor) = <<cursor[1] + 1, 1>>
    BY <1>2 DEF After
  <2> QED BY <1>1, <1>2, <2>1
<1>3. CASE cursor[2] # Len(found)
  <2>1. After(cursor) = <<cursor[1], cursor[2] + 1>>
    BY <1>3 DEF After
  <2> QED BY <1>1, <1>3, <2>1
<1> QED BY <1>2, <1>3

(* The question that is asked is the turn its resolver had.                                       *)
LEMMA ResolveKeepsThePipe ==
  ASSUME NEW Issues, Answering, Counted, InTurn(Issues), WholePipe, Resolve
  PROVE  WholePipe'
<1> DEFINE at == cursor[2]
<1>1. PICK resolution \in Resolutions(call, raw, found[at]) :
         /\ answers' = [answers EXCEPT ![at] = resolution.answer]
         /\ asked' = Append(asked, [by |-> cursor[1], issue |-> at, answer |-> resolution.answer])
  BY DEF Resolve
<1> DEFINE question == [by |-> cursor[1], issue |-> at, answer |-> resolution.answer]
<1>2. phase = "pipe" /\ phase' = "pipe" /\ found' = found /\ call' = call /\ cursor' = After(cursor) /\ Piping /\ answers[at] = "NotTouched"
  BY DEF Resolve, Piping, Open
<1>3. asked \in Seq(Questions) /\ asked' = Append(asked, question)
  BY <1>1 DEF InTurn, Past
<1>4. /\ Len(asked) \in Nat /\ DOMAIN asked = 1 .. Len(asked) /\ DOMAIN asked' = 1 .. Len(asked) + 1
      /\ \A n \in DOMAIN asked : n \in DOMAIN asked' /\ asked'[n] = asked[n]
      /\ Len(asked) + 1 \in DOMAIN asked' /\ asked'[Len(asked) + 1] = question
  BY <1>3
<1>5. \A n \in DOMAIN asked' : n \in DOMAIN asked \/ n = Len(asked) + 1
  BY <1>4
<1>6. /\ at \in DOMAIN found /\ DOMAIN answers = DOMAIN found
      /\ \A i \in DOMAIN found : answers'[i] = IF i = at THEN resolution.answer ELSE answers[i]
  <2>1. DOMAIN answers = DOMAIN found /\ found \in Seq(Issues) /\ at \in 1 .. Len(found)
    BY <1>2 DEF InTurn, Cursor
  <2> QED BY <1>1, <2>1
<1>7. Answered'
  <2>1. ASSUME NEW i \in DOMAIN found
        PROVE  /\ answers'[i] = "Settled" <=> SettledByOne(i)'
               /\ answers'[i] # "NotTouched" => \E n \in DOMAIN asked' : asked'[n].issue = i /\ asked'[n].answer # "NotTouched"
    <3>1. CASE i = at
      <4>1. \A n \in DOMAIN asked : ~(asked[n].issue = at /\ asked[n].answer = "Settled")
        BY <1>2, <1>6 DEF WholePipe, Answered, SettledByOne
      <4>2. answers'[i] = resolution.answer /\ question.issue = i /\ question.answer = resolution.answer
        BY <1>6, <3>1
      <4>3. answers'[i] = "Settled" <=> \E n \in DOMAIN asked' : asked'[n].issue = i /\ asked'[n].answer = "Settled"
        BY <1>4, <1>5, <3>1, <4>1, <4>2
      <4> QED BY <1>4, <4>2, <4>3 DEF SettledByOne
    <3>2. CASE i # at
      <4>1. answers'[i] = answers[i] /\ question.issue # i
        BY <1>6, <3>2
      <4>2. SettledByOne(i)' <=> SettledByOne(i)
        BY <1>4, <1>5, <4>1 DEF SettledByOne
      <4> QED BY <1>2, <1>4, <4>1, <4>2 DEF WholePipe, Answered
    <3> QED BY <3>1, <3>2
  <2> QED BY <1>2, <2>1 DEF Answered
<1>8. TurnsHad'
  <2>1. ASSUME NEW by \in 1 .. call.resolvers, NEW i \in DOMAIN found,
               by < cursor'[1] \/ (by = cursor'[1] /\ i < cursor'[2])
        PROVE  HadItsTurn(by, i)'
    <3>1. by \in Nat
      BY DEF WholePipe, Counted
    <3>2. by < cursor[1] \/ (by = cursor[1] /\ i < cursor[2]) \/ (by = cursor[1] /\ i = cursor[2])
      BY <1>2, <2>1, <3>1, CursorGoesByOne
    <3>3. CASE by = cursor[1] /\ i = cursor[2]
      BY <1>4, <3>3 DEF HadItsTurn
    <3>4. CASE by < cursor[1] \/ (by = cursor[1] /\ i < cursor[2])
      <4>1. HadItsTurn(by, i)
        BY <1>2, <3>4 DEF WholePipe, TurnsHad
      <4> QED BY <1>4, <4>1 DEF HadItsTurn
    <3> QED BY <3>2, <3>3, <3>4
  <2> QED BY <1>2, <2>1 DEF TurnsHad
<1> QED BY <1>2, <1>7, <1>8 DEF WholePipe, PipeEnded

(* An issue that is passed over was decided by a resolver before.                                 *)
LEMMA PassOverKeepsThePipe ==
  ASSUME NEW Issues, Counted, InTurn(Issues), WholePipe, PassOver
  PROVE  WholePipe'
<1>1. /\ phase = "pipe" /\ phase' = "pipe" /\ cursor' = After(cursor) /\ Piping /\ answers[cursor[2]] # "NotTouched"
      /\ UNCHANGED <<call, found, answers, asked>>
  BY DEF PassOver, Piping, Open
<1>2. cursor[2] \in DOMAIN found
  BY <1>1 DEF InTurn, Cursor
<1>3. PICK n \in DOMAIN asked : asked[n].issue = cursor[2] /\ asked[n].answer # "NotTouched"
  BY <1>1, <1>2 DEF WholePipe, Answered
<1>4. asked[n].by < cursor[1]
  <2>1. Before(asked[n], cursor) /\ cursor[2] \in Nat
    BY <1>3 DEF InTurn, Past, Cursor
  <2> QED BY <1>3, <2>1 DEF Before
<1>5. Answered'
  BY <1>1 DEF WholePipe, Answered, SettledByOne
<1>6. TurnsHad'
  <2>1. ASSUME NEW by \in 1 .. call.resolvers, NEW i \in DOMAIN found,
               by < cursor'[1] \/ (by = cursor'[1] /\ i < cursor'[2])
        PROVE  HadItsTurn(by, i)
    <3>1. by \in Nat
      BY DEF WholePipe, Counted
    <3>2. by < cursor[1] \/ (by = cursor[1] /\ i < cursor[2]) \/ (by = cursor[1] /\ i = cursor[2])
      BY <1>1, <2>1, <3>1, CursorGoesByOne
    <3> QED BY <1>1, <1>3, <1>4, <3>2 DEF WholePipe, TurnsHad, HadItsTurn
  <2> QED BY <1>1, <2>1 DEF TurnsHad, HadItsTurn
<1> QED BY <1>1, <1>5, <1>6 DEF WholePipe, PipeEnded

(* A pipe ends with a read that goes on, all settled, or with those left.                         *)
LEMMA EndPipeEnds ==
  ASSUME NEW Issues, Counted, InTurn(Issues), WholePipe, EndPipe
  PROVE  WholePipe'
<1>1. phase = "pipe" /\ ~Piping /\ UNCHANGED <<call, found, answers, asked, cursor>> /\ found \in Seq(Issues)
  BY DEF EndPipe, InTurn
<1>2. \/ Left # <<>> /\ outcome' = Unrecovered(Left) /\ phase' = "done"
      \/ Left = <<>> /\ phase' = "second"
  BY DEF EndPipe
<1>3. \A by \in 1 .. call.resolvers, i \in DOMAIN found : HadItsTurn(by, i)
  BY <1>1, PipeIsOver DEF WholePipe, TurnsHad
<1>4. \A i \in DOMAIN found : i \in Kept <=> ~SettledByOne(i)
  BY <1>1 DEF Kept, WholePipe, Answered
<1>5. PICK place \in [DOMAIN Left -> DOMAIN found] :
        /\ \A k \in DOMAIN Left : Left[k] = found[place[k]]
        /\ \A k, l \in DOMAIN Left : k < l => place[k] < place[l]
        /\ \A i \in DOMAIN found : i \in Kept <=> \E k \in DOMAIN Left : place[k] = i
  BY <1>1, LeftInOrder
<1>6. NamesTheUnsettled(Left)
  BY <1>4, <1>5 DEF NamesTheUnsettled
<1>7. CASE Left # <<>> /\ outcome' = Unrecovered(Left) /\ phase' = "done"
  <2>1. outcome'.result = "unrecovered" /\ outcome'.issues = Left
    BY <1>7 DEF Unrecovered
  <2>2. NamesTheUnsettled(outcome.issues)'
    BY <1>1, <1>6, <2>1 DEF NamesTheUnsettled, SettledByOne
  <2>3. \A by \in 1 .. call.resolvers, i \in DOMAIN found : HadItsTurn(by, i)'
    BY <1>1, <1>3 DEF HadItsTurn
  <2> QED BY <1>1, <1>7, <2>1, <2>2, <2>3 DEF WholePipe, Answered, TurnsHad, PipeEnded
<1>8. CASE Left = <<>> /\ phase' = "second"
  <2>1. Kept = {}
    BY <1>1, <1>8, LeftInOrder
  <2>2. \A i \in DOMAIN found : SettledByOne(i)'
    BY <1>1, <1>4, <2>1 DEF SettledByOne
  <2>3. \A by \in 1 .. call.resolvers, i \in DOMAIN found : HadItsTurn(by, i)'
    BY <1>1, <1>3 DEF HadItsTurn
  <2> QED BY <1>1, <1>8, <2>2, <2>3 DEF WholePipe, Answered, TurnsHad, PipeEnded
<1> QED BY <1>2, <1>7, <1>8

(* For every type, every list of issues and every number of resolvers: they are asked in turn, each *)
(* has its turn at every issue, a read that goes on had each of them settled, and one that fails in *)
(* the pipe names those nobody settled, in the order they were found.                             *)
THEOREM PipeIsKept ==
  ASSUME NEW CONSTANT Values, NEW CONSTANT Issues, ReadsList(Values, Issues), Answering, Counted
  PROVE  Spec => []PipeKeepsItsOrder
<1>1. Init => Reading(Values) /\ InTurn(Issues) /\ WholePipe
  <2> SUFFICES ASSUME Init PROVE Reading(Values) /\ InTurn(Issues) /\ WholePipe
    OBVIOUS
  <2>1. Reading(Values) /\ InTurn(Issues)
    BY ReadingAtFirst, InTurnAtFirst
  <2> QED BY <2>1 DEF Init, WholePipe, Answered, TurnsHad, PipeEnded
<1>2. Reading(Values) /\ InTurn(Issues) /\ WholePipe /\ [Next]_vars => Reading(Values)' /\ InTurn(Issues)' /\ WholePipe'
  <2> SUFFICES ASSUME InTurn(Issues), WholePipe, [Next]_vars PROVE WholePipe'
    BY ReadingIsKept, InTurnIsKept
  <2>1. ASSUME call' = call, phase \notin Asking, phase' \notin Asking, phase' = "decide" => call.entry = "with"
        PROVE  WholePipe'
    BY <2>1 DEF WholePipe, Answered, TurnsHad, PipeEnded, Asking
  <2>2. CASE Correct
    BY <2>2, <2>1 DEF Correct, Asking
  <2>3. CASE FirstRead
    BY <2>3, <2>1 DEF FirstRead, Asking
  <2>4. CASE ReadClean
    BY <2>4 DEF ReadClean, WholePipe, Answered, TurnsHad, PipeEnded
  <2>5. CASE SettleDigits
    BY <2>5, <2>1 DEF SettleDigits, Asking
  <2>6. CASE HandOver
    <3>1. /\ UNCHANGED <<call, found, asked, cursor>> /\ phase = "found" /\ answers' = [i \in DOMAIN found |-> "NotTouched"]
          /\ phase' = IF call.entry = "with" THEN "decide" ELSE "pipe"
      BY <2>6 DEF HandOver
    <3>2. asked = <<>> /\ cursor = <<1, 1>> /\ found \in Seq(Issues)
      BY <3>1 DEF InTurn, Cursor, Asking
    <3>3. Answered'
      BY <3>1, <3>2 DEF Answered, SettledByOne
    <3>4. TurnsHad'
      <4>1. \A by \in 1 .. call.resolvers, i \in DOMAIN found : ~(by < cursor[1] \/ (by = cursor[1] /\ i < cursor[2]))
        BY <3>2 DEF WholePipe, Counted
      <4> QED BY <3>1, <4>1 DEF TurnsHad
    <3> QED BY <3>1, <3>3, <3>4 DEF WholePipe, PipeEnded
  <2>7. CASE Decide
    BY <2>7 DEF Decide, WholePipe, Answered, TurnsHad, PipeEnded
  <2>8. CASE Resolve
    BY <2>8, ResolveKeepsThePipe
  <2>9. CASE PassOver
    BY <2>9, PassOverKeepsThePipe
  <2>10. CASE EndPipe
    BY <2>10, EndPipeEnds
  <2>11. CASE SecondRead
    BY <2>11 DEF SecondRead, WholePipe, Answered, TurnsHad, PipeEnded, SettledByOne, HadItsTurn
  <2>12. CASE UNCHANGED vars
    BY <2>12 DEF vars, WholePipe, Answered, TurnsHad, PipeEnded, SettledByOne, HadItsTurn, NamesTheUnsettled
  <2> QED BY <2>2, <2>3, <2>4, <2>5, <2>6, <2>7, <2>8, <2>9, <2>10, <2>11, <2>12 DEF Next
<1>3. InTurn(Issues) /\ WholePipe => PipeKeepsItsOrder
  BY DEF InTurn, WholePipe, PipeKeepsItsOrder
<1> QED BY <1>1, <1>2, <1>3, PTL DEF Spec

-----------------------------------------------------------------------------
(* Every nonempty set of naturals has a least member, so what holds of 0 and of each next number    *)
(* holds of all.                                                                                 *)
LEMMA Least ==
  ASSUME NEW S, S \subseteq Nat, S # {}
  PROVE  \E n \in S : \A m \in S : n <= m
<1> DEFINE Less == {pair \in Nat \X Nat : pair[1] < pair[2]}
<1>1. IsWellFoundedOn(Less, Nat)
  BY NatLessThanWellFounded DEF OpToRel
<1>2. PICK n \in S : \A m \in S : <<m, n>> \notin Less
  <2> HIDE DEF Less
  <2> QED BY <1>1, WFMin
<1>3. ASSUME NEW m \in S PROVE n <= m
  <2>1. n \in Nat /\ m \in Nat /\ ~(m < n)
    BY <1>2
  <2> QED BY <2>1
<1> QED BY <1>3

(* What holds of 0 and of each next number holds of all.                                       *)
LEMMA Induct ==
  ASSUME NEW S, 0 \in S, \A n \in Nat : n \in S => n + 1 \in S
  PROVE  Nat \subseteq S
<1> SUFFICES ASSUME Nat \ S # {} PROVE FALSE
  OBVIOUS
<1>1. PICK n \in Nat \ S : \A m \in Nat \ S : n <= m
  BY Least
<1>2. n # 0 /\ n - 1 \in Nat
  BY <1>1
<1>3. n - 1 \in S
  BY <1>1, <1>2
<1> QED BY <1>1, <1>2, <1>3

(* A function that is recursive over 0..N exists, and its values are those of its steps.          *)
Stays(N, V, step) == \A n \in 1..N : \A v \in V : step[n][v] \in V
Recurs(N, V, first, step, f) ==
  f \in [0..N -> V] /\ f[0] = first /\ \A n \in 1..N : f[n] = step[n][f[n - 1]]
(* A function that recurs over 0..N exists, and is what the recursion says.                     *)
LEMMA RecursionIsDefined ==
  ASSUME NEW N \in Nat, NEW V, NEW first \in V,
         NEW step, Stays(N, V, step)
  PROVE  \E f : Recurs(N, V, first, step, f)
<1> DEFINE Runs(f, m) == f[0] = first /\ \A n \in 1..m : f[n] = step[n][f[n - 1]]
           S == {m \in Nat : m <= N => \E f \in [0..m -> V] : Runs(f, m)}
<1>1. 0 \in S
  <2> DEFINE f == [n \in 0..0 |-> first]
  <2>1. f \in [0..0 -> V] /\ Runs(f, 0)
    OBVIOUS
  <2> QED BY <2>1
<1>2. ASSUME NEW m \in Nat, m \in S PROVE m + 1 \in S
  <2> SUFFICES ASSUME m + 1 <= N PROVE \E f \in [0..m + 1 -> V] : Runs(f, m + 1)
    OBVIOUS
  <2>1. PICK f \in [0..m -> V] : Runs(f, m)
    BY <1>2
  <2> DEFINE next == [n \in 0..m + 1 |-> IF n = m + 1 THEN step[m + 1][f[m]] ELSE f[n]]
  <2>2. f[m] \in V /\ m + 1 \in 1..N
    OBVIOUS
  <2>3. step[m + 1][f[m]] \in V
    BY <2>2 DEF Stays
  <2>4. \A n \in 0..m : next[n] = f[n] /\ f[n] \in V
    OBVIOUS
  <2>5. next[m + 1] = step[m + 1][f[m]]
    OBVIOUS
  <2>6. next \in [0..m + 1 -> V]
    BY <2>3
  <2> HIDE DEF next
  <2>7. ASSUME NEW n \in 1..m + 1 PROVE next[n] = step[n][next[n - 1]]
    <3>1. CASE n \in 1..m
      BY <3>1, <2>1, <2>4
    <3>2. CASE n = m + 1
      BY <3>2, <2>4, <2>5
    <3> QED BY <3>1, <3>2
  <2>8. next[0] = first
    BY <2>1, <2>4
  <2> QED BY <2>6, <2>7, <2>8
<1> HIDE DEF S
<1>3. N \in S
  BY <1>1, <1>2, Induct
<1> QED BY <1>3 DEF S, Recurs

(* A list of lists in one: its items are theirs, and it is empty where each of them is.           *)
LEMMA Flattened ==
  ASSUME NEW S, NEW seqs \in Seq(Seq(S))
  PROVE  /\ FlattenSeq(seqs) \in Seq(S)
         /\ FlattenSeq(seqs) = <<>> => \A i \in DOMAIN seqs : seqs[i] = <<>>
         /\ (\A i \in DOMAIN seqs : seqs[i] = <<>>) => FlattenSeq(seqs) = <<>>
<1> DEFINE N == Len(seqs)
           V == Seq(S)
           step == [n \in 1..N |-> [before \in V |-> before \o seqs[n]]]
           Flat(f) == f = [i \in 1..N |-> IF i = 1 THEN seqs[i] ELSE f[i - 1] \o seqs[i]]
<1>1. N \in Nat /\ (\A n \in 1..N : seqs[n] \in V) /\ <<>> \in V /\ DOMAIN seqs = 1..N
  OBVIOUS
<1>2. CASE N = 0
  <2>1. seqs = <<>> /\ FlattenSeq(seqs) = seqs
    BY <1>2 DEF FlattenSeq
  <2>2. FlattenSeq(seqs) \in Seq(S)
    <3>1. <<>> \in Seq(S)
      OBVIOUS
    <3> QED BY <2>1, <3>1
  <2>3. DOMAIN seqs = {}
    BY <1>1, <1>2
  <2> QED BY <2>1, <2>2, <2>3
<1>3. CASE N # 0
  <2>1. \A n \in 1..N : \A before \in V : step[n][before] = before \o seqs[n] /\ before \o seqs[n] \in V
    BY <1>1
  <2>2. PICK f : Recurs(N, V, <<>>, step, f)
    <3>1. Stays(N, V, step)
      BY <2>1 DEF Stays
    <3> DEFINE start == <<>>
    <3>2. start \in V
      BY <1>1
    <3> HIDE DEF V, N, step, start
    <3>3. \E f : Recurs(N, V, start, step, f)
      BY <3>1, <3>2, <1>1, RecursionIsDefined
    <3> QED BY <3>3 DEF start
  <2>3. f \in [0..N -> V] /\ f[0] = <<>> /\ \A n \in 1..N : f[n] = f[n - 1] \o seqs[n]
    <3>1. f \in [0..N -> V] /\ f[0] = <<>> /\ \A n \in 1..N : f[n] = step[n][f[n - 1]]
      BY <2>2 DEF Recurs
    <3>2. \A n \in 1..N : f[n - 1] \in V
      <4> TAKE n \in 1..N
      <4>1. n - 1 \in 0..N
        BY <1>1
      <4> HIDE DEF V
      <4> QED BY <4>1, <3>1
    <3> HIDE DEF step
    <3> QED BY <3>1, <3>2, <2>1
  <2> DEFINE g == [i \in 1..N |-> f[i]]
  <2>4. Flat(g)
    <3>1. \A i \in 1..N : g[i] = IF i = 1 THEN seqs[i] ELSE g[i - 1] \o seqs[i]
      <4> TAKE i \in 1..N
      <4>1. CASE i = 1
        <5> HIDE DEF N, V, step
        <5>1. f[1] = <<>> \o seqs[1]
          <6>1. f[1] = f[1 - 1] \o seqs[1]
            BY <4>1, <2>3
          <6>2. f[1 - 1] = f[0] /\ f[0] = <<>>
            BY <2>3
          <6> QED BY <6>1, <6>2
        <5>2. <<>> \o seqs[1] = seqs[1]
          <6>1. seqs[1] \in Seq(S)
            BY <4>1, <1>1 DEF V
          <6> HIDE DEF g
          <6> QED BY <6>1
        <5> QED BY <4>1, <5>1, <5>2
      <4>2. CASE i # 1
        <5>1. i - 1 \in 1..N
          BY <4>2, <1>1
        <5> QED BY <5>1, <2>3, <4>2
      <4> QED BY <4>1, <4>2
    <3> QED BY <3>1
  <2> DEFINE h == CHOOSE f_1 : Flat(f_1)
  <2>5. Flat(h)
    BY <2>4
  <2>6. FlattenSeq(seqs) = h[N]
    BY <1>3 DEF FlattenSeq
  <2> HIDE DEF h, g
  <2>7. \A i \in 1..N : h[i] = IF i = 1 THEN seqs[i] ELSE h[i - 1] \o seqs[i]
    BY <2>5
  <2>12. \A i \in 1..N : i # 1 => h[i] = h[i - 1] \o seqs[i]
    BY <2>7
  <2> DEFINE Empty(n) == \A i \in 1..n : seqs[i] = <<>>
             T == {n \in Nat : n + 1 <= N => h[n + 1] \in V /\ (h[n + 1] = <<>> <=> Empty(n + 1))}
  <2>8. 0 \in T
    <3>1. h[1] = seqs[1] /\ seqs[1] \in V
      BY <2>7, <1>1, <1>3
    <3> QED BY <3>1
  <2>9. ASSUME NEW n \in Nat, n \in T PROVE n + 1 \in T
    <3> SUFFICES ASSUME n + 2 <= N PROVE h[n + 2] \in V /\ (h[n + 2] = <<>> <=> Empty(n + 2))
      OBVIOUS
    <3>1. h[n + 1] \in V /\ (h[n + 1] = <<>> <=> Empty(n + 1))
      BY <2>9
    <3>2. n + 2 \in 1..N /\ n + 2 # 1 /\ n + 2 - 1 = n + 1
      BY <1>1
    <3>3. h[n + 2] = h[n + 1] \o seqs[n + 2] /\ seqs[n + 2] \in V
      <4>1. h[n + 2] = h[n + 1] \o seqs[n + 2]
        <5>1. PICK k \in 1..N : k = n + 2 /\ k # 1 /\ k - 1 = n + 1
          BY <3>2
        <5> HIDE DEF N
        <5>2. h[k] = h[k - 1] \o seqs[k]
          BY <5>1, <2>12
        <5> QED BY <5>1, <5>2
      <4>2. seqs[n + 2] \in V
        BY <3>2, <1>1
      <4> QED BY <4>1, <4>2, <3>2
    <3>4. h[n + 2] \in V /\ Len(h[n + 2]) = Len(h[n + 1]) + Len(seqs[n + 2])
      BY <3>1, <3>3
    <3>5. h[n + 2] = <<>> <=> h[n + 1] = <<>> /\ seqs[n + 2] = <<>>
      BY <3>1, <3>3, <3>4
    <3>6. Empty(n + 2) <=> Empty(n + 1) /\ seqs[n + 2] = <<>>
      <4>1. 1..n + 2 = (1..n + 1) \cup {n + 2}
        OBVIOUS
      <4> QED BY <4>1
    <3> QED BY <3>1, <3>4, <3>5, <3>6
  <2> HIDE DEF T
  <2>10. N - 1 \in T
    <3>1. N - 1 \in Nat
      BY <1>1, <1>3
    <3> QED BY <3>1, <2>8, <2>9, Induct
  <2>11. h[N] \in V /\ (h[N] = <<>> <=> Empty(N))
    <3>1. N - 1 + 1 = N /\ N <= N
      BY <1>1
    <3> QED BY <2>10, <3>1 DEF T
  <2> QED BY <2>6, <2>11, <1>1
<1> QED BY <1>2, <1>3

(* A list, of whatever items.                                                                   *)
LEMMA Listing ==
  ASSUME NEW S, NEW s \in Seq(S)
  PROVE  IsListed(s)
BY DEF IsListed, ToSet

(* Two lists, one after the other.                                                              *)
LEMMA Appended ==
  ASSUME NEW s, NEW t, IsListed(s), IsListed(t)
  PROVE  IsListed(s \o t) /\ (s \o t = <<>> <=> s = <<>> /\ t = <<>>)
<1> DEFINE S == ToSet(s) \cup ToSet(t)
<1>1. s \in Seq(S) /\ t \in Seq(S)
  BY DEF IsListed
<1> HIDE DEF S
<1>2. s \o t \in Seq(S) /\ Len(s \o t) = Len(s) + Len(t)
  BY <1>1
<1>3. IsListed(s \o t)
  BY <1>2, Listing
<1> QED BY <1>1, <1>2, <1>3

(* The keys an object lists are its own.                                                        *)
LEMMA ListedAreItsOwn ==
  ASSUME NEW entries
  PROVE  Listed(entries) \in Seq(DOMAIN entries)
<1> DEFINE D == DOMAIN entries
           Of(i) == IF KeyOrder[i] \in D THEN <<KeyOrder[i]>> ELSE <<>>
           seqs == [i \in DOMAIN KeyOrder |-> Of(i)]
<1>1. PICK n \in Nat : DOMAIN KeyOrder = 1..n
  BY KeysAreListed DEF IsListed
<1>2. \A i \in 1..n : Of(i) \in Seq(D)
  <2> TAKE i \in 1..n
  <2>1. \A x \in D : <<x>> \in Seq(D)
    OBVIOUS
  <2>2. <<>> \in Seq(D)
    OBVIOUS
  <2> QED BY <2>1, <2>2
<1> HIDE DEF Of, D
<1>3. seqs \in Seq(Seq(D))
  BY <1>1, <1>2
<1>4. Listed(entries) = FlattenSeq(seqs)
  BY DEF Listed, Of, D
<1> HIDE DEF seqs
<1>5. FlattenSeq(seqs) \in Seq(D)
  BY <1>3, Flattened
<1> QED BY <1>4, <1>5 DEF D

(* What holds of a type where it holds of each that nests less deep, holds of all.                *)
LEMMA TypesNest ==
  ASSUME NEW S, S \subseteq AllTypes,
         \A ty \in AllTypes : (\A of \in AllTypes : Depth[of] < Depth[ty] => of \in S) => ty \in S
  PROVE  S = AllTypes
<1> DEFINE T == {d \in Nat : \A ty \in AllTypes : Depth[ty] < d => ty \in S}
<1>1. \A ty \in AllTypes : Depth[ty] \in Nat
  BY TypesAreNested
<1>2. 0 \in T
  BY <1>1
<1>3. ASSUME NEW d \in Nat, d \in T PROVE d + 1 \in T
  <2>1. ASSUME NEW ty \in AllTypes, Depth[ty] < d + 1 PROVE ty \in S
    <3>1. \A of \in AllTypes : Depth[of] < Depth[ty] => Depth[of] < d
      BY <1>1, <2>1
    <3> QED BY <1>3, <3>1
  <2> QED BY <2>1
<1> HIDE DEF T
<1>4. Nat \subseteq T
  BY <1>2, <1>3, Induct
<1>5. ASSUME NEW ty \in AllTypes PROVE ty \in S
  <2>1. Depth[ty] + 1 \in T /\ Depth[ty] < Depth[ty] + 1
    BY <1>1, <1>4
  <2> QED BY <2>1 DEF T
<1> QED BY <1>5

(* Following a path is a function of the prefixes of its steps, which exists whatever it is followed *)
(* in.                                                                                           *)
Follows(value, path, n, f) ==
  f = [s \in SUBSET (1..n) |-> IF s = {} THEN {value} ELSE LET x == Max(s) IN UNION {Child(slot, path[x]) : slot \in f[s \ {x}]}]
(* Such a function exists for a path of any length.                                              *)
LEMMA PathIsFollowed ==
  ASSUME NEW value, NEW path, NEW N \in Nat
  PROVE  \E f : Follows(value, path, N, f)
<1> DEFINE T == {n \in Nat : \E f : Follows(value, path, n, f)}
<1>1. 0 \in T
  <2> DEFINE f == [s \in SUBSET (1..0) |-> {value}]
  <2>1. 1..0 = {} /\ \A s \in SUBSET (1..0) : s = {}
    OBVIOUS
  <2>2. Follows(value, path, 0, f)
    BY <2>1 DEF Follows
  <2> QED BY <2>2
<1>2. ASSUME NEW n \in Nat, n \in T PROVE n + 1 \in T
  <2>1. PICK f : Follows(value, path, n, f)
    BY <1>2
  <2> DEFINE last == n + 1
             g == [s \in SUBSET (1..last) |-> IF last \in s THEN UNION {Child(slot, path[last]) : slot \in f[s \ {last}]} ELSE f[s]]
  <2>2. ASSUME NEW s \in SUBSET (1..last)
        PROVE  g[s] = IF s = {} THEN {value} ELSE LET x == Max(s) IN UNION {Child(slot, path[x]) : slot \in g[s \ {x}]}
    <3>1. CASE last \in s
      <4>1. Max(s) = last
        <5>1. \A y \in s : last >= y
          BY <3>1
        <5>2. \A x \in s : (\A y \in s : x >= y) => x = last
          BY <3>1, <5>1
        <5> QED BY <3>1, <5>1, <5>2 DEF Max
      <4>2. s \ {last} \in SUBSET (1..n) /\ last \notin s \ {last} /\ s \ {last} \in SUBSET (1..last)
        OBVIOUS
      <4>3. g[s \ {last}] = f[s \ {last}]
        BY <4>2
      <4>4. g[s] = UNION {Child(slot, path[last]) : slot \in f[s \ {last}]}
        BY <3>1
      <4> HIDE DEF g, last
      <4> QED BY <3>1, <4>1, <4>3, <4>4
    <3>2. CASE last \notin s
      <4>1. s \in SUBSET (1..n)
        BY <3>2
      <4>2. f[s] = IF s = {} THEN {value} ELSE LET x == Max(s) IN UNION {Child(slot, path[x]) : slot \in f[s \ {x}]}
        BY <2>1, <4>1 DEF Follows
      <4>3. \A x : s \ {x} \in SUBSET (1..last) /\ last \notin s \ {x}
        BY <3>2
      <4>4. \A x : g[s \ {x}] = f[s \ {x}]
        BY <4>3
      <4>5. g[s] = f[s]
        BY <3>2
      <4> HIDE DEF g, last
      <4> QED BY <4>2, <4>4, <4>5
    <3> QED BY <3>1, <3>2
  <2>3. Follows(value, path, last, g)
    <3>1. g = [s \in SUBSET (1..last) |-> g[s]]
      OBVIOUS
    <3> HIDE DEF g, last
    <3> QED BY <2>2, <3>1 DEF Follows
  <2> HIDE DEF g
  <2> QED BY <2>3
<1> HIDE DEF T
<1>3. N \in T
  BY <1>1, <1>2, Induct
<1> QED BY <1>3 DEF T

(* Two functions that follow one path agree on its prefixes.                                      *)
LEMMA PathIsFollowedOnce ==
  ASSUME NEW value, NEW path, NEW other, NEW n \in Nat, NEW m \in Nat, n <= m,
         \A i \in 1..n : path[i] = other[i],
         NEW f, Follows(value, path, n, f), NEW g, Follows(value, other, m, g)
  PROVE  \A k \in 0..n : f[1..k] = g[1..k]
<1> DEFINE T == {k \in Nat : k <= n => f[1..k] = g[1..k]}
<1>1. \A s \in SUBSET (1..n) : f[s] = IF s = {} THEN {value} ELSE LET x == Max(s) IN UNION {Child(slot, path[x]) : slot \in f[s \ {x}]}
  BY DEF Follows
<1>2. \A s \in SUBSET (1..m) : g[s] = IF s = {} THEN {value} ELSE LET x == Max(s) IN UNION {Child(slot, other[x]) : slot \in g[s \ {x}]}
  BY DEF Follows
<1>3. 0 \in T
  <2>1. 1..0 = {} /\ {} \in SUBSET (1..n) /\ {} \in SUBSET (1..m)
    OBVIOUS
  <2>2. f[{}] = {value} /\ g[{}] = {value}
    BY <2>1, <1>1, <1>2
  <2> QED BY <2>1, <2>2
<1>4. ASSUME NEW k \in Nat, k \in T PROVE k + 1 \in T
  <2> SUFFICES ASSUME k + 1 <= n PROVE f[1..k + 1] = g[1..k + 1]
    OBVIOUS
  <2> DEFINE s == 1..k + 1
  <2>1. s \in SUBSET (1..n) /\ s \in SUBSET (1..m) /\ s # {} /\ s \ {k + 1} = 1..k /\ k + 1 \in s
    OBVIOUS
  <2>2. Max(s) = k + 1
    <3>1. \A y \in s : k + 1 >= y
      OBVIOUS
    <3>2. \A x \in s : (\A y \in s : x >= y) => x = k + 1
      BY <2>1, <3>1
    <3> HIDE DEF s
    <3> QED BY <2>1, <3>1, <3>2 DEF Max
  <2>3. f[1..k] = g[1..k] /\ path[k + 1] = other[k + 1]
    BY <1>4
  <2> HIDE DEF s
  <2>4. f[s] = UNION {Child(slot, path[k + 1]) : slot \in f[1..k]}
    <3>1. f[s] = LET x == Max(s) IN UNION {Child(slot, path[x]) : slot \in f[s \ {x}]}
      BY <1>1, <2>1
    <3> QED BY <3>1, <2>1, <2>2
  <2>5. g[s] = UNION {Child(slot, other[k + 1]) : slot \in g[1..k]}
    <3>1. g[s] = LET x == Max(s) IN UNION {Child(slot, other[x]) : slot \in g[s \ {x}]}
      BY <1>2, <2>1
    <3> QED BY <3>1, <2>1, <2>2
  <2> QED BY <2>3, <2>4, <2>5 DEF s
<1> HIDE DEF T
<1>5. Nat \subseteq T
  BY <1>3, <1>4, Induct
<1> QED BY <1>5 DEF T

(* What is at a path is what a function that follows it says of all its steps.                     *)
LEMMA AtIsFollowed ==
  ASSUME NEW value, NEW path, NEW n \in Nat, DOMAIN path = 1..n
  PROVE  \E f : Follows(value, path, n, f) /\ At(value, path) = f[1..n]
<1> DEFINE f == CHOOSE f : Follows(value, path, n, f)
<1>1. Follows(value, path, n, f)
  BY PathIsFollowed
<1>2. At(value, path) = f[1..n]
  BY DEF At, FoldLeft, MapThenFoldSet, Follows
<1> QED BY <1>1, <1>2

(* What is at no step is the value, and what is one step further is what the step leads to.        *)
LEMMA AtNothing ==
  ASSUME NEW value
  PROVE  At(value, <<>>) = {value}
<1>1. DOMAIN <<>> = 1..0 /\ 1..0 = {}
  OBVIOUS
<1>2. PICK f : Follows(value, <<>>, 0, f) /\ At(value, <<>>) = f[1..0]
  <2> DEFINE path == <<>>
  <2>1. DOMAIN path = 1..0
    OBVIOUS
  <2> HIDE DEF path
  <2>2. \E f : Follows(value, path, 0, f) /\ At(value, path) = f[1..0]
    BY <2>1, AtIsFollowed
  <2> QED BY <2>2 DEF path
<1>3. {} \in SUBSET (1..0)
  OBVIOUS
<1>4. f[{}] = {value}
  BY <1>2, <1>3 DEF Follows
<1> QED BY <1>1, <1>2, <1>4

(* What is one step further along a path.                                                       *)
LEMMA AtOneMore ==
  ASSUME NEW value, NEW path, IsListed(path), NEW step
  PROVE  At(value, Append(path, step)) = UNION {Child(slot, step) : slot \in At(value, path)}
<1> DEFINE longer == Append(path, step)
           S == ToSet(path) \cup {step}
<1>1. path \in Seq(S)
  <2>1. path \in Seq(ToSet(path)) /\ ToSet(path) \subseteq S
    BY DEF IsListed
  <2> HIDE DEF S
  <2> QED BY <2>1
<1> HIDE DEF S
<1>2. PICK n \in Nat : DOMAIN path = 1..n /\ Len(path) = n
  BY <1>1
<1>3. DOMAIN longer = 1..n + 1 /\ (\A i \in 1..n : path[i] = longer[i]) /\ longer[n + 1] = step
  <2>1. step \in S
    BY DEF S
  <2> QED BY <1>1, <1>2, <2>1
<1> HIDE DEF longer
<1>4. PICK f : Follows(value, path, n, f) /\ At(value, path) = f[1..n]
  BY <1>2, AtIsFollowed
<1>5. PICK g : Follows(value, longer, n + 1, g) /\ At(value, longer) = g[1..n + 1]
  <2>1. n + 1 \in Nat
    OBVIOUS
  <2> QED BY <1>3, <2>1, AtIsFollowed
<1>6. f[1..n] = g[1..n]
  <2>1. n + 1 \in Nat /\ n <= n + 1 /\ n \in 0..n
    OBVIOUS
  <2>2. \A k \in 0..n : f[1..k] = g[1..k]
    BY <1>3, <1>4, <1>5, <2>1, PathIsFollowedOnce
  <2> QED BY <2>1, <2>2
<1>7. g[1..n + 1] = UNION {Child(slot, longer[n + 1]) : slot \in g[1..n]}
  <2> DEFINE s == 1..n + 1
  <2>1. s \in SUBSET (1..n + 1) /\ s # {} /\ s \ {n + 1} = 1..n /\ n + 1 \in s
    OBVIOUS
  <2>2. Max(s) = n + 1
    <3>1. \A y \in s : n + 1 >= y
      OBVIOUS
    <3>2. \A x \in s : (\A y \in s : x >= y) => x = n + 1
      BY <2>1, <3>1
    <3> HIDE DEF s
    <3> QED BY <2>1, <3>1, <3>2 DEF Max
  <2> HIDE DEF s
  <2>3. g[s] = LET x == Max(s) IN UNION {Child(slot, longer[x]) : slot \in g[s \ {x}]}
    BY <1>5, <2>1 DEF Follows
  <2> QED BY <2>1, <2>2, <2>3 DEF s
<1> QED BY <1>3, <1>4, <1>5, <1>6, <1>7 DEF longer

----------------------------------------------------------------------------
(* A JSON value, as a set of them closed under what is held has it.                               *)
AreJson(Json) ==
  \A json \in Json :
    /\ json.kind = "list" => json.items \in Seq(Json)
    /\ json.kind = "object" => \A key \in DOMAIN json.entries : json.entries[key] \in Json

(* An issue of the walk points at what it speaks of, and so does each of a list.                   *)
PointsAt(root, issue) ==
  issue.by = "walk" /\ (issue.kind \notin {"Missing", "Undescribed"} => At(root, issue.path) = issue.found)
Point(root, issues) == IsListed(issues) /\ \A i \in DOMAIN issues : PointsAt(root, issues[i])

(* What a list or an object at a path holds is there, one step further.                            *)
ItemsAt(root, path, items) == \A i \in DOMAIN items : At(root, Append(path, Index(i - 1))) = {items[i]}
EntriesAt(root, path, entries) == \A key \in DOMAIN entries : At(root, Append(path, Key(key))) = {entries[key]}
HoldsJson(Json, entries) == \A key \in DOMAIN entries : entries[key] \in Json

(* A path goes on.                                                                             *)
LEMMA PathGrows ==
  ASSUME NEW path, IsListed(path), NEW step
  PROVE  IsListed(Append(path, step))
<1> DEFINE S == ToSet(path) \cup {step}
<1>1. path \in Seq(S) /\ step \in S
  <2>1. path \in Seq(ToSet(path)) /\ ToSet(path) \subseteq S
    BY DEF IsListed
  <2> HIDE DEF S
  <2>2. path \in Seq(S)
    BY <2>1
  <2> QED BY <2>2 DEF S
<1> HIDE DEF S
<1>2. Append(path, step) \in Seq(S)
  BY <1>1
<1> QED BY <1>2, Listing

(* A list at a path holds each of its items one step further.                                     *)
LEMMA ItemsAreThere ==
  ASSUME NEW Json, AreJson(Json), NEW root, NEW path, IsListed(path),
         NEW value \in Json, At(root, path) = {value}, value.kind = "list"
  PROVE  /\ \E n \in Nat : DOMAIN value.items = 1..n /\ Len(value.items) = n
         /\ \A i \in DOMAIN value.items : value.items[i] \in Json
         /\ ItemsAt(root, path, value.items)
<1>1. value.items \in Seq(Json)
  BY DEF AreJson
<1>2. PICK n \in Nat : DOMAIN value.items = 1..n /\ Len(value.items) = n
  BY <1>1
<1>3. ASSUME NEW i \in 1..n PROVE At(root, Append(path, Index(i - 1))) = {value.items[i]}
  <2>1. ~IsKey(Index(i - 1)) /\ Index(i - 1).index = i - 1
    BY DEF IsKey, Index
  <2>2. Child(value, Index(i - 1)) = {value.items[i - 1 + 1]}
    BY <2>1, <1>2 DEF Child
  <2>3. Child(value, Index(i - 1)) = {value.items[i]}
    BY <2>2
  <2>4. At(root, Append(path, Index(i - 1))) = UNION {Child(slot, Index(i - 1)) : slot \in {value}}
    BY AtOneMore
  <2> QED BY <2>3, <2>4
<1> QED BY <1>1, <1>2, <1>3 DEF ItemsAt

(* An object at a path holds each of its entries one step further.                                *)
LEMMA EntriesAreThere ==
  ASSUME NEW Json, AreJson(Json), NEW root, NEW path, IsListed(path),
         NEW value \in Json, At(root, path) = {value}, value.kind = "object"
  PROVE  EntriesAt(root, path, value.entries) /\ HoldsJson(Json, value.entries)
<1>1. HoldsJson(Json, value.entries)
  BY DEF AreJson, HoldsJson
<1>2. ASSUME NEW key \in DOMAIN value.entries PROVE At(root, Append(path, Key(key))) = {value.entries[key]}
  <2>1. IsKey(Key(key)) /\ Key(key).key = key
    BY DEF IsKey, Key
  <2>2. Child(value, Key(key)) = {value.entries[key]}
    BY <2>1 DEF Child
  <2>4. At(root, Append(path, Key(key))) = UNION {Child(slot, Key(key)) : slot \in {value}}
    BY AtOneMore
  <2> QED BY <2>2, <2>4
<1> QED BY <1>1, <1>2 DEF EntriesAt

(* So does the part of an object that is handed on.                                             *)
LEMMA SomeAreThere ==
  ASSUME NEW Json, NEW root, NEW path, NEW entries, EntriesAt(root, path, entries), HoldsJson(Json, entries), NEW keys
  PROVE  EntriesAt(root, path, Without(entries, keys)) /\ HoldsJson(Json, Without(entries, keys))
BY DEF EntriesAt, HoldsJson, Without

(* No issue at all points at anything else.                                                     *)
LEMMA NonePoints ==
  ASSUME NEW root
  PROVE  Point(root, <<>>)
<1>1. <<>> \in Seq({}) /\ DOMAIN <<>> = {}
  OBVIOUS
<1>2. IsListed(<<>>)
  BY <1>1, Listing
<1> QED BY <1>1, <1>2 DEF Point

(* One issue of what is at its own path.                                                        *)
LEMMA OnePoints ==
  ASSUME NEW root, NEW kind, NEW path, NEW expected, NEW held, kind \notin {"Missing", "Undescribed"} => At(root, path) = held
  PROVE  Point(root, <<Issue(kind, path, expected, held)>>)
<1> DEFINE issue == Issue(kind, path, expected, held)
<1>1. PointsAt(root, issue)
  BY DEF PointsAt, Issue
<1> HIDE DEF issue
<1>2. <<issue>> \in Seq({issue}) /\ DOMAIN <<issue>> = {1} /\ <<issue>>[1] = issue
  OBVIOUS
<1>3. IsListed(<<issue>>)
  BY <1>2, Listing
<1> QED BY <1>1, <1>2, <1>3 DEF Point, issue

(* Two lists, one after the other.                                                              *)
LEMMA BothPoint ==
  ASSUME NEW root, NEW one, NEW two, Point(root, one), Point(root, two)
  PROVE  Point(root, one \o two)
<1> DEFINE S == {issue \in ToSet(one) \cup ToSet(two) : PointsAt(root, issue)}
<1>1. one \in Seq(S) /\ two \in Seq(S)
  <2>1. one \in Seq(ToSet(one)) /\ \A i \in DOMAIN one : one[i] \in S
    BY DEF Point, IsListed, ToSet
  <2>2. two \in Seq(ToSet(two)) /\ \A i \in DOMAIN two : two[i] \in S
    BY DEF Point, IsListed, ToSet
  <2> HIDE DEF S
  <2>3. one \in Seq(S)
    BY <2>1
  <2>4. two \in Seq(S)
    BY <2>2
  <2> QED BY <2>3, <2>4
<1>2. \A issue \in S : PointsAt(root, issue)
  OBVIOUS
<1> HIDE DEF S
<1>3. one \o two \in Seq(S)
  BY <1>1
<1>4. \A i \in DOMAIN (one \o two) : (one \o two)[i] \in S
  BY <1>3
<1>5. IsListed(one \o two)
  BY <1>3, Listing
<1> QED BY <1>2, <1>4, <1>5 DEF Point

(* As many lists as there are, in one.                                                          *)
LEMMA AllPoint ==
  ASSUME NEW root, NEW n \in Nat, NEW lists, lists = [i \in 1..n |-> lists[i]], \A i \in 1..n : Point(root, lists[i])
  PROVE  Point(root, FlattenSeq(lists))
<1> DEFINE S == {issue \in UNION {ToSet(lists[i]) : i \in 1..n} : PointsAt(root, issue)}
<1>1. ASSUME NEW i \in 1..n PROVE lists[i] \in Seq(S)
  <2>1. lists[i] \in Seq(ToSet(lists[i])) /\ \A k \in DOMAIN lists[i] : lists[i][k] \in S
    BY DEF Point, IsListed, ToSet
  <2> HIDE DEF S
  <2> QED BY <2>1
<1>2. \A issue \in S : PointsAt(root, issue)
  OBVIOUS
<1> HIDE DEF S
<1>3. lists \in Seq(Seq(S))
  BY <1>1
<1>4. FlattenSeq(lists) \in Seq(S)
  BY <1>3, Flattened
<1>5. \A i \in DOMAIN FlattenSeq(lists) : FlattenSeq(lists)[i] \in S
  BY <1>4
<1>6. IsListed(FlattenSeq(lists))
  BY <1>4, Listing
<1> QED BY <1>2, <1>5, <1>6 DEF Point

(* One value read whole: each issue holds the value, at its own path.                              *)
LEMMA LeafPoints ==
  ASSUME NEW root, NEW ty, NEW expected, NEW value, NEW path, At(root, path) = {value}
  PROVE  Point(root, Leaf(ty, expected, value, path))
<1>1. Point(root, Invalid(path, expected, value)) /\ Point(root, Mistyped(path, expected, value))
  BY OnePoints DEF Invalid, Mistyped
<1>2. Point(root, <<>>)
  BY NonePoints
<1> QED BY <1>1, <1>2 DEF Leaf, LeafOf

(* A bound that is broken is an issue of the value that broke it.                                  *)
LEMMA BoundedPoints ==
  ASSUME NEW root, NEW bound, NEW ty, NEW value, NEW path, At(root, path) = {value}
  PROVE  Point(root, Bounded(bound, ty, value, path))
BY OnePoints, NonePoints DEF Bounded, Invalid

(* The keys an object lists are its own, in a list.                                               *)
LEMMA KeysOf ==
  ASSUME NEW entries
  PROVE  \E n \in Nat : DOMAIN Listed(entries) = 1..n /\ \A i \in 1..n : Listed(entries)[i] \in DOMAIN entries
<1>1. Listed(entries) \in Seq(DOMAIN entries)
  BY ListedAreItsOwn
<1> DEFINE keys == Listed(entries)
           D == DOMAIN entries
<1> HIDE DEF keys, D
<1>2. keys \in Seq(D)
  BY <1>1 DEF keys, D
<1>3. DOMAIN keys = 1..Len(keys) /\ Len(keys) \in Nat /\ \A i \in 1..Len(keys) : keys[i] \in D
  BY <1>2
<1> QED BY <1>3 DEF keys, D

(* A key that nothing declares is an issue where it is held.                                      *)
LEMMA UnclaimedPoint ==
  ASSUME NEW root, NEW entries, NEW claimed, NEW path, EntriesAt(root, path, entries)
  PROVE  Point(root, Unclaimed(entries, claimed, path))
<1> DEFINE keys == Listed(Without(entries, claimed))
           Of(i) == Unknown(Under(path, keys[i]), entries[keys[i]])
<1>1. PICK n \in Nat : DOMAIN keys = 1..n /\ \A i \in 1..n : keys[i] \in DOMAIN Without(entries, claimed)
  BY KeysOf
<1>2. \A i \in 1..n : keys[i] \in DOMAIN entries
  BY <1>1 DEF Without
<1>3. \A i \in 1..n : At(root, Under(path, keys[i])) = {entries[keys[i]]}
  BY <1>2 DEF EntriesAt, Under
<1> DEFINE lists == [i \in 1..n |-> Of(i)]
<1>4. Unclaimed(entries, claimed, path) = FlattenSeq(lists)
  BY <1>1 DEF Unclaimed
<1> HIDE DEF keys
<1>5. \A i \in 1..n : Point(root, lists[i])
  BY <1>3, OnePoints DEF Unknown
<1>6. lists = [i \in 1..n |-> lists[i]]
  OBVIOUS
<1> HIDE DEF lists
<1> QED BY <1>4, <1>5, <1>6, AllPoint

(* The walk of a type points at what it speaks of, where it walks a value by itself, and where it   *)
(* walks the entries of an object that holds more.                                                *)
ArmsPoint(Json, ty) ==
  ~HoldsCorrectedBelow(ty) =>
    \A root, reported, bound, path : \A value \in Json :
      IsListed(path) /\ At(root, path) = {value} => Point(root, ArmsBelow(ty, reported, value, path, bound))
FieldsPoint(Json, ty) ==
  InAnObject(ty) /\ ~HoldsCorrectedBelow(ty) =>
    \A root, entries, path :
      IsListed(path) /\ EntriesAt(root, path, entries) /\ HoldsJson(Json, entries) => Point(root, FieldsBelow(ty, entries, path))
WalkPoints(Json, ty) == ty \in AllTypes /\ ~HoldsCorrectedBelow(ty) /\ ArmsPoint(Json, ty) /\ FieldsPoint(Json, ty)

(* The entries of a map, each walked where it is held.                                           *)
LEMMA EntriesWalkPoints ==
  ASSUME NEW Json, NEW root, NEW of, WalkPoints(Json, of), NEW entries, NEW claimed, NEW path, IsListed(path),
         EntriesAt(root, path, entries), HoldsJson(Json, entries)
  PROVE  Point(root, EntriesWalk(of, entries, claimed, path))
<1> DEFINE keys == Listed(Without(entries, claimed))
           Of(i) == ArmsBelow(of, of, entries[keys[i]], Under(path, keys[i]), "none")
<1>1. PICK n \in Nat : DOMAIN keys = 1..n /\ \A i \in 1..n : keys[i] \in DOMAIN Without(entries, claimed)
  BY KeysOf
<1>2. \A i \in 1..n : keys[i] \in DOMAIN entries
  BY <1>1 DEF Without
<1>3. \A i \in 1..n : At(root, Under(path, keys[i])) = {entries[keys[i]]} /\ entries[keys[i]] \in Json
  BY <1>2 DEF EntriesAt, HoldsJson, Under
<1> DEFINE lists == [i \in 1..n |-> Of(i)]
<1>4. EntriesWalk(of, entries, claimed, path) = FlattenSeq(lists)
  BY <1>1 DEF EntriesWalk
<1> HIDE DEF keys
<1>5. ASSUME NEW i \in 1..n PROVE Point(root, lists[i])
  <2>1. IsListed(Under(path, keys[i]))
    BY PathGrows DEF Under
  <2>2. Point(root, Of(i))
    BY <1>3, <2>1 DEF WalkPoints, ArmsPoint
  <2> QED BY <2>2
<1>6. lists = [i \in 1..n |-> lists[i]]
  OBVIOUS
<1> HIDE DEF lists
<1> QED BY <1>4, <1>5, <1>6, AllPoint

(* Each member of a struct is looked up where it is held.                                          *)
LEMMA LookedUpPoints ==
  ASSUME NEW Json, NEW root, NEW field, WalkPoints(Json, field.ty), IsListed(field.aliases), NEW entries, NEW path, IsListed(path),
         EntriesAt(root, path, entries), HoldsJson(Json, entries)
  PROVE  Point(root, LookedUp(field, entries, path))
<1> DEFINE names == <<field.key>> \o field.aliases
           stored == {i \in DOMAIN names : names[i] \in DOMAIN entries}
           name == names[Min(stored)]
<1>1. CASE stored # {}
  <2>1. Min(stored) \in stored
    <3>1. stored \subseteq Nat
      <4> DEFINE S == ToSet(field.aliases) \cup {field.key}
      <4>1. field.aliases \in Seq(S)
        <5>1. field.aliases \in Seq(ToSet(field.aliases)) /\ ToSet(field.aliases) \subseteq S
          BY DEF IsListed
        <5> HIDE DEF S
        <5> QED BY <5>1
      <4>2. field.key \in S
        OBVIOUS
      <4> HIDE DEF S
      <4>3. names \in Seq(S)
        BY <4>1, <4>2
      <4> HIDE DEF names
      <4>4. DOMAIN names \subseteq Nat
        BY <4>3
      <4> QED BY <4>4
    <3> HIDE DEF stored
    <3>2. \E n \in stored : \A m \in stored : n <= m
      BY <1>1, <3>1, Least
    <3> QED BY <3>2 DEF Min
  <2>2. name \in DOMAIN entries
    BY <2>1
  <2> HIDE DEF name
  <2>3. At(root, Under(path, name)) = {entries[name]} /\ entries[name] \in Json /\ IsListed(Under(path, name))
    BY <2>2, PathGrows DEF EntriesAt, HoldsJson, Under
  <2>4. Point(root, ArmsBelow(field.ty, field.ty, entries[name], Under(path, name), field.bound))
    BY <2>3 DEF WalkPoints, ArmsPoint
  <2> QED BY <1>1, <2>4 DEF LookedUp, name
<1>2. CASE stored = {}
  BY <1>2, OnePoints, NonePoints DEF LookedUp, Missing
<1> QED BY <1>1, <1>2

(* The places of a list, and the items left over.                                                *)
LEMMA PositionsPoint ==
  ASSUME NEW Json, NEW root, NEW slots, IsListed(slots), \A i \in DOMAIN slots : WalkPoints(Json, slots[i].ty),
         NEW path, IsListed(path), NEW n \in Nat, NEW items, DOMAIN items = 1..n, Len(items) = n,
         \A i \in DOMAIN items : items[i] \in Json, ItemsAt(root, path, items)
  PROVE  Point(root, Positions(slots, items, path))
<1> DEFINE Place(i) == Append(path, Index(i - 1))
           Of(i) == IF i <= Len(items) THEN ArmsBelow(slots[i].ty, slots[i].ty, items[i], Place(i), slots[i].bound)
                    ELSE IF slots[i].absent THEN <<>> ELSE Missing(Place(i), slots[i].ty)
           Extra(i) == Unknown(Place(Len(slots) + i), items[Len(slots) + i])
<1>1. PICK m \in Nat : DOMAIN slots = 1..m /\ Len(slots) = m
  <2>1. slots \in Seq(ToSet(slots))
    BY DEF IsListed
  <2> QED BY <2>1
<1> DEFINE held == [i \in 1..m |-> Of(i)]
           over == [i \in 1..n - m |-> Extra(i)]
<1>2. Positions(slots, items, path) = FlattenSeq(held) \o FlattenSeq(over)
  BY <1>1 DEF Positions
<1>3. ASSUME NEW i \in 1..m PROVE Point(root, held[i])
  <2>1. CASE i <= n
    <3>1. i \in DOMAIN items
      BY <2>1
    <3>2. At(root, Place(i)) = {items[i]} /\ items[i] \in Json
      BY <3>1 DEF ItemsAt
    <3>3. IsListed(Place(i))
      BY PathGrows
    <3>4. WalkPoints(Json, slots[i].ty)
      BY <1>1
    <3>5. Point(root, ArmsBelow(slots[i].ty, slots[i].ty, items[i], Place(i), slots[i].bound))
      BY <3>2, <3>3, <3>4 DEF WalkPoints, ArmsPoint
    <3> QED BY <2>1, <3>5
  <2>2. CASE ~(i <= n)
    <3>1. Point(root, Missing(Place(i), slots[i].ty)) /\ Point(root, <<>>)
      BY OnePoints, NonePoints DEF Missing
    <3> QED BY <2>2, <3>1
  <2> QED BY <2>1, <2>2
<1>4. Point(root, FlattenSeq(held))
  <2>1. held = [i \in 1..m |-> held[i]]
    OBVIOUS
  <2> HIDE DEF held
  <2> QED BY <1>3, <2>1, AllPoint
<1>5. Point(root, FlattenSeq(over))
  <2>1. CASE n - m \in Nat
    <3>1. ASSUME NEW i \in 1..n - m PROVE Point(root, over[i])
      <4>1. m + i \in DOMAIN items
        BY <2>1
      <4>2. At(root, Append(path, Index(m + i - 1))) = {items[m + i]}
        BY <4>1 DEF ItemsAt
      <4>3. At(root, Place(m + i)) = {items[m + i]}
        BY <4>2
      <4> DEFINE place == Place(m + i)
                 item == items[m + i]
      <4>4. Extra(i) = Unknown(place, item)
        BY <1>1
      <4>5. At(root, place) = {item}
        BY <4>3
      <4> HIDE DEF place, item
      <4>6. Point(root, Unknown(place, item))
        BY <4>5, OnePoints DEF Unknown
      <4> QED BY <4>4, <4>6
    <3>2. over = [i \in 1..n - m |-> over[i]]
      OBVIOUS
    <3> HIDE DEF over
    <3> QED BY <2>1, <3>1, <3>2, AllPoint
  <2>2. CASE n - m \notin Nat
    <3>1. 1..n - m = {} /\ 1..0 = {}
      BY <2>2
    <3>2. over = [i \in 1..0 |-> over[i]]
      BY <3>1
    <3> HIDE DEF over
    <3> QED BY <3>1, <3>2, AllPoint
  <2> QED BY <2>1, <2>2
<1> QED BY <1>2, <1>4, <1>5, BothPoint


----------------------------------------------------------------------------
(* All that is assumed beside the types: a definition that is told what it answers of the types     *)
(* below is told what it answers, and the values are JSON, whatever is corrected or rewritten.     *)
WalkIsItself ==
  \A ty \in AllTypes :
    /\ \A reported, value, path, bound : ArmsBelow(ty, reported, value, path, bound) = Arms(ty, reported, value, path, bound)
    /\ \A entries, path : FieldsBelow(ty, entries, path) = Fields(ty, entries, path)
HoldsCorrectedIsItself == \A ty \in AllTypes : HoldsCorrectedBelow(ty) = HoldsCorrected(ty)

(* What a type holds is walked as it should be, where each type that nests less deep is.           *)
WalksBeneath(Json, ty) ==
  /\ ty \in AllTypes /\ ~HoldsCorrectedBelow(ty)
  /\ \A of \in AllTypes : Depth[of] < Depth[ty] => ArmsPoint(Json, of) /\ FieldsPoint(Json, of)

(* A type that another is written over.                                                         *)
LEMMA BeneathPoint ==
  ASSUME HoldsCorrectedIsItself, NEW Json, NEW ty, WalksBeneath(Json, ty), NEW of \in Beneath(ty)
  PROVE  WalkPoints(Json, of) /\ WalksBeneath(Json, of)
<1>1. of \in AllTypes /\ Depth[of] < Depth[ty]
  BY TypesAreNested DEF WalksBeneath
<1>2. ~HoldsCorrectedBelow(of)
  BY DEF HoldsCorrectedIsItself, HoldsCorrected, WalksBeneath
<1>3. ASSUME NEW other \in AllTypes, Depth[other] < Depth[of] PROVE Depth[other] < Depth[ty]
  <2>1. Depth[other] \in Nat /\ Depth[of] \in Nat /\ Depth[ty] \in Nat
    BY <1>1, TypesAreNested DEF WalksBeneath
  <2> QED BY <1>1, <1>3, <2>1
<1> QED BY <1>1, <1>2, <1>3 DEF WalksBeneath, WalkPoints

(* The members of a struct, whatever type the struct itself is of.                                *)
MembersPoint(Json, ty) ==
  /\ IsListed(ty.fields) /\ \A i \in DOMAIN ty.fields : IsListed(ty.fields[i].aliases) /\ WalkPoints(Json, ty.fields[i].ty)
  /\ IsListed(ty.flat) /\ \A i \in DOMAIN ty.flat : WalkPoints(Json, ty.flat[i]) /\ InAnObject(ty.flat[i])
  /\ IsFiniteSet(ty.rest) /\ \A of \in ty.rest : WalkPoints(Json, of)

(* A struct that corrects nothing, walked as it is declared.                                      *)
LEMMA StructPoints ==
  ASSUME HoldsCorrectedIsItself, NEW Json, NEW ty, WalksBeneath(Json, ty), ty.t = "struct"
  PROVE  /\ MembersPoint(Json, ty) /\ MembersPoint(Json, Bare(ty))
         /\ Bare(ty).t = "struct" /\ Bare(ty).corrects = FALSE
<1>1. IsDeclared(ty)
  BY TypesAreNested DEF WalksBeneath
<1>2. /\ {"t", "fields", "flat", "rest", "corrects"} \subseteq DOMAIN ty /\ IsFiniteSet(ty.rest)
      /\ IsListed(ty.fields) /\ IsListed(ty.flat) /\ \A field \in ToSet(ty.fields) : IsListed(field.aliases)
      /\ \A inner \in ToSet(ty.flat) : inner.t = "struct"
  BY <1>1 DEF IsDeclared
<1>3. Beneath(ty) = TypesOf(ty.fields) \union ToSet(ty.flat) \union ty.rest
  BY DEF Beneath
<1>4. ASSUME NEW i \in DOMAIN ty.fields PROVE IsListed(ty.fields[i].aliases) /\ WalkPoints(Json, ty.fields[i].ty)
  <2>1. ty.fields[i] \in ToSet(ty.fields)
    BY DEF ToSet
  <2>2. ty.fields[i].ty \in Beneath(ty)
    BY <1>3 DEF TypesOf
  <2> QED BY <1>2, <2>1, <2>2, BeneathPoint
<1>5. ASSUME NEW i \in DOMAIN ty.flat PROVE WalkPoints(Json, ty.flat[i]) /\ InAnObject(ty.flat[i])
  <2>1. ty.flat[i] \in ToSet(ty.flat)
    BY DEF ToSet
  <2>2. ty.flat[i] \in Beneath(ty)
    BY <1>3, <2>1
  <2> QED BY <1>2, <2>1, <2>2, BeneathPoint DEF InAnObject
<1>6. ASSUME NEW of \in ty.rest PROVE WalkPoints(Json, of)
  <2>1. of \in Beneath(ty)
    BY <1>3
  <2> QED BY <2>1, BeneathPoint
<1>7. MembersPoint(Json, ty)
  BY <1>2, <1>4, <1>5, <1>6 DEF MembersPoint
<1>8. /\ Bare(ty).fields = ty.fields /\ Bare(ty).flat = ty.flat /\ Bare(ty).rest = ty.rest
      /\ Bare(ty).t = "struct" /\ Bare(ty).corrects = FALSE
  BY <1>2 DEF Bare
<1> QED BY <1>7, <1>8 DEF MembersPoint

(* The keyed walk: the members, the flattened structs, and the map of the rest.                    *)
LEMMA KeyedPoint ==
  ASSUME NEW Json, NEW root, NEW ty, MembersPoint(Json, ty), NEW tag, NEW entries, NEW path, IsListed(path),
         EntriesAt(root, path, entries), HoldsJson(Json, entries)
  PROVE  Point(root, Keyed(ty, tag, entries, path))
<1>1. PICK n \in Nat : DOMAIN ty.fields = 1..n
  BY DEF MembersPoint, IsListed
<1>2. PICK m \in Nat : DOMAIN ty.flat = 1..m
  BY DEF MembersPoint, IsListed
<1> DEFINE own == [i \in 1..n |-> LookedUp(ty.fields[i], entries, path)]
           flat == [i \in 1..m |-> FieldsBelow(ty.flat[i], Without(HandedOn(ty, entries, i), tag), path)]
           rest == [i \in 1 .. Cardinality(ty.rest) |-> EntriesWalk(CHOOSE of \in ty.rest : TRUE, entries, Declares(ty, tag, entries), path)]
<1>3. Keyed(ty, tag, entries, path) = FlattenSeq(own) \o FlattenSeq(flat) \o FlattenSeq(rest)
  BY <1>1, <1>2 DEF Keyed, OwnIssues
<1>4. Point(root, FlattenSeq(own))
  <2>1. ASSUME NEW i \in 1..n PROVE Point(root, own[i])
    <3>1. Point(root, LookedUp(ty.fields[i], entries, path))
      BY <1>1, LookedUpPoints DEF MembersPoint
    <3> QED BY <3>1
  <2>2. own = [i \in 1..n |-> own[i]]
    OBVIOUS
  <2> HIDE DEF own
  <2> QED BY <2>1, <2>2, AllPoint
<1>5. Point(root, FlattenSeq(flat))
  <2>1. ASSUME NEW i \in 1..m PROVE Point(root, flat[i])
    <3> DEFINE handed == Without(HandedOn(ty, entries, i), tag)
    <3>1. EntriesAt(root, path, handed) /\ HoldsJson(Json, handed)
      <4> DEFINE before == OwnKeys(ty.fields) \union UNION {OwnKeys(ty.flat[j].fields) : j \in 1 .. i - 1}
      <4>1. HandedOn(ty, entries, i) = Without(entries, before)
        BY DEF HandedOn
      <4> HIDE DEF before
      <4>2. EntriesAt(root, path, Without(entries, before)) /\ HoldsJson(Json, Without(entries, before))
        BY SomeAreThere
      <4> QED BY <4>1, <4>2, SomeAreThere
    <3> HIDE DEF handed
    <3>2. FieldsPoint(Json, ty.flat[i]) /\ InAnObject(ty.flat[i]) /\ ~HoldsCorrectedBelow(ty.flat[i])
      BY <1>2 DEF MembersPoint, WalkPoints
    <3>3. Point(root, FieldsBelow(ty.flat[i], handed, path))
      BY <3>1, <3>2 DEF FieldsPoint
    <3> QED BY <3>3 DEF handed
  <2>2. flat = [i \in 1..m |-> flat[i]]
    OBVIOUS
  <2> HIDE DEF flat
  <2> QED BY <2>1, <2>2, AllPoint
<1>6. Point(root, FlattenSeq(rest))
  <2>1. PICK c \in Nat : c = Cardinality(ty.rest)
    BY FS_CardinalityType DEF MembersPoint
  <2>2. ASSUME NEW i \in 1..c PROVE Point(root, rest[i])
    <3>1. ty.rest # {}
      <4>1. c # 0
        BY <2>2
      <4> QED BY <2>1, <4>1, FS_EmptySet
    <3> DEFINE of == CHOOSE of \in ty.rest : TRUE
               claimed == Declares(ty, tag, entries)
    <3>2. of \in ty.rest
      BY <3>1
    <3>3. rest[i] = EntriesWalk(of, entries, claimed, path)
      BY <2>1
    <3> HIDE DEF of, claimed
    <3>4. WalkPoints(Json, of)
      BY <3>2 DEF MembersPoint
    <3>5. Point(root, EntriesWalk(of, entries, claimed, path))
      BY <3>4, EntriesWalkPoints
    <3> QED BY <3>3, <3>5
  <2>3. rest = [i \in 1..c |-> rest[i]]
    BY <2>1
  <2> HIDE DEF rest
  <2> QED BY <2>2, <2>3, AllPoint
<1> HIDE DEF own, flat, rest
<1>7. Point(root, FlattenSeq(own) \o FlattenSeq(flat))
  BY <1>4, <1>5, BothPoint
<1> QED BY <1>3, <1>6, <1>7, BothPoint

(* What a variant holds, where it holds something.                                               *)
ContentPoints(Json, content) ==
  content.shape # "unit" =>
    /\ content.shape \in {"fields", "held", "slots"}
    /\ WalkPoints(Json, content.ty)
    /\ content.shape = "fields" => MembersPoint(Json, content.ty)
    /\ content.shape = "slots" => IsListed(content.ty.slots) /\ \A i \in DOMAIN content.ty.slots : WalkPoints(Json, content.ty.slots[i].ty)

(* The places of a tuple, or of a tuple struct.                                                 *)
LEMMA SlotsPoint ==
  ASSUME HoldsCorrectedIsItself, NEW Json, NEW ty, WalksBeneath(Json, ty), ty.t \in {"tuple", "slots"}
  PROVE  IsListed(ty.slots) /\ \A i \in DOMAIN ty.slots : WalkPoints(Json, ty.slots[i].ty)
<1>1. IsListed(ty.slots)
  BY TypesAreNested DEF WalksBeneath, IsDeclared
<1>2. ASSUME NEW i \in DOMAIN ty.slots PROVE WalkPoints(Json, ty.slots[i].ty)
  <2>1. ty.slots[i].ty \in Beneath(ty)
    BY DEF Beneath, TypesOf
  <2> QED BY <2>1, BeneathPoint
<1> QED BY <1>1, <1>2

(* Every variant of a declared enum.                                                           *)
LEMMA EachContentPoints ==
  ASSUME HoldsCorrectedIsItself, NEW Json, NEW ty, WalksBeneath(Json, ty), ty.t = "enum", NEW i \in DOMAIN ty.variants
  PROVE  /\ ContentPoints(Json, ty.variants[i].content)
         /\ ty.variants[i].content.shape # "unit" /\ ty.tagging = "internal" =>
              ty.variants[i].content.shape # "slots" /\ InAnObject(ty.variants[i].content.ty)
<1> DEFINE content == ty.variants[i].content
<1> SUFFICES ASSUME content.shape # "unit"
             PROVE  /\ ContentPoints(Json, content)
                    /\ ty.tagging = "internal" => content.shape # "slots" /\ InAnObject(content.ty)
  BY DEF ContentPoints
<1>1. content \in ContentsOf(ty)
  BY DEF ContentsOf
<1>2. content.ty \in Beneath(ty)
  BY <1>1 DEF Beneath
<1>3. IsDeclared(ty)
  BY TypesAreNested DEF WalksBeneath
<1>4. /\ content.shape \in {"fields", "held", "slots"}
      /\ content.shape = "fields" => content.ty.t = "struct"
      /\ content.shape = "slots" => content.ty.t = "slots"
      /\ ty.tagging = "internal" => content.shape # "slots" /\ InAnObject(content.ty)
  BY <1>1, <1>3 DEF IsDeclared
<1>5. WalkPoints(Json, content.ty) /\ WalksBeneath(Json, content.ty)
  BY <1>2, BeneathPoint
<1> HIDE DEF content
<1>6. content.shape = "fields" => MembersPoint(Json, content.ty)
  BY <1>4, <1>5, StructPoints
<1>7. content.shape = "slots" => IsListed(content.ty.slots) /\ \A k \in DOMAIN content.ty.slots : WalkPoints(Json, content.ty.slots[k].ty)
  BY <1>4, <1>5, SlotsPoint
<1> QED BY <1>4, <1>5, <1>6, <1>7 DEF ContentPoints

(* What a variant holds, walked where it is held.                                                *)
LEMMA ContentArmsPoint ==
  ASSUME NEW Json, AreJson(Json), NEW root, NEW content, ContentPoints(Json, content), NEW path, IsListed(path),
         NEW value \in Json, At(root, path) = {value}
  PROVE  Point(root, ContentArms(content, value, path))
<1>1. CASE content.shape = "fields"
  <2>1. CASE value.kind = "object"
    <3>1. EntriesAt(root, path, value.entries) /\ HoldsJson(Json, value.entries)
      BY <2>1, EntriesAreThere
    <3>2. MembersPoint(Json, content.ty)
      BY <1>1 DEF ContentPoints
    <3> DEFINE claimed == ClaimedKeys(content.ty, {}, value.entries)
    <3>3. ContentArms(content, value, path) = Keyed(content.ty, {}, value.entries, path) \o Unclaimed(value.entries, claimed, path)
      BY <1>1, <2>1 DEF ContentArms
    <3> HIDE DEF claimed
    <3>4. Point(root, Keyed(content.ty, {}, value.entries, path))
      BY <3>1, <3>2, KeyedPoint
    <3>5. Point(root, Unclaimed(value.entries, claimed, path))
      BY <3>1, UnclaimedPoint
    <3> QED BY <3>3, <3>4, <3>5, BothPoint
  <2>2. CASE value.kind # "object"
    BY <1>1, <2>2, NonePoints DEF ContentArms
  <2> QED BY <2>1, <2>2
<1>2. CASE content.shape = "held"
  <2>1. Point(root, ArmsBelow(content.ty, content.ty, value, path, content.bound))
    BY <1>2 DEF ContentPoints, WalkPoints, ArmsPoint
  <2> QED BY <1>2, <2>1 DEF ContentArms
<1>3. CASE content.shape = "slots"
  <2>1. CASE value.kind = "list"
    <3>1. /\ \E n \in Nat : DOMAIN value.items = 1..n /\ Len(value.items) = n
          /\ \A i \in DOMAIN value.items : value.items[i] \in Json
          /\ ItemsAt(root, path, value.items)
      BY <2>1, ItemsAreThere
    <3>2. IsListed(content.ty.slots) /\ \A i \in DOMAIN content.ty.slots : WalkPoints(Json, content.ty.slots[i].ty)
      BY <1>3 DEF ContentPoints
    <3>3. Point(root, Positions(content.ty.slots, value.items, path))
      BY <3>1, <3>2, PositionsPoint
    <3> QED BY <1>3, <2>1, <3>3 DEF ContentArms
  <2>2. CASE value.kind # "list"
    <3>1. Point(root, Invalid(path, content.ty, value))
      BY OnePoints DEF Invalid
    <3> QED BY <1>3, <2>2, <3>1 DEF ContentArms
  <2> QED BY <2>1, <2>2
<1>4. CASE content.shape = "unit"
  BY <1>4, NonePoints DEF ContentArms
<1> QED BY <1>1, <1>2, <1>3, <1>4 DEF ContentPoints

(* A tag that is absent, or names no variant.                                                    *)
LEMMA TagIssuesPoint ==
  ASSUME NEW root, NEW ty, NEW entries, NEW path, EntriesAt(root, path, entries)
  PROVE  Point(root, TagIssues(ty, entries, path))
<1> DEFINE at == Under(path, ty.tag)
           held == entries[ty.tag]
           expected == Variants(ty)
<1>1. ty.tag \in DOMAIN entries => At(root, at) = {held}
  BY DEF EntriesAt, Under
<1>2. /\ ty.tag \notin DOMAIN entries => TagIssues(ty, entries, path) = Missing(at, expected)
      /\ ty.tag \in DOMAIN entries => TagIssues(ty, entries, path) \in {Mistyped(at, expected, held), Invalid(at, expected, held)}
  BY DEF TagIssues
<1> HIDE DEF at, held, expected
<1>3. Point(root, Missing(at, expected))
  BY OnePoints DEF Missing
<1>4. ty.tag \in DOMAIN entries => Point(root, Mistyped(at, expected, held)) /\ Point(root, Invalid(at, expected, held))
  BY <1>1, OnePoints DEF Mistyped, Invalid
<1> QED BY <1>2, <1>3, <1>4

(* The variant a tag names.                                                                    *)
LEMMA ContentNamedPoints ==
  ASSUME HoldsCorrectedIsItself, NEW Json, NEW ty, WalksBeneath(Json, ty), ty.t = "enum",
         NEW entries, TaggedAs(ty, entries) # {}
  PROVE  /\ ContentPoints(Json, ContentNamed(ty, entries))
         /\ ContentNamed(ty, entries).shape # "unit" /\ ty.tagging = "internal" =>
              ContentNamed(ty, entries).shape # "slots" /\ InAnObject(ContentNamed(ty, entries).ty)
<1> DEFINE i == CHOOSE i \in TaggedAs(ty, entries) : TRUE
<1>1. i \in TaggedAs(ty, entries)
  OBVIOUS
<1>2. TaggedAs(ty, entries) \subseteq DOMAIN ty.variants
  BY DEF TaggedAs, NamedBy, Named
<1>3. ContentNamed(ty, entries) = ty.variants[i].content
  BY DEF ContentNamed
<1> HIDE DEF i
<1>4. i \in DOMAIN ty.variants
  BY <1>1, <1>2
<1> QED BY <1>3, <1>4, EachContentPoints

(* What a variant holds beside its tag.                                                         *)
LEMMA InternalPoints ==
  ASSUME NEW Json, NEW root, NEW ty, NEW content, ContentPoints(Json, content),
         content.shape # "unit" => content.shape # "slots" /\ InAnObject(content.ty),
         NEW entries, NEW path, IsListed(path), EntriesAt(root, path, entries), HoldsJson(Json, entries)
  PROVE  Point(root, InternalFields(ty, content, entries, path))
<1>1. CASE content.shape = "fields"
  <2>1. Point(root, Keyed(content.ty, {ty.tag}, entries, path))
    <3>1. MembersPoint(Json, content.ty)
      BY <1>1 DEF ContentPoints
    <3> QED BY <3>1, KeyedPoint
  <2> QED BY <1>1, <2>1 DEF InternalFields
<1>2. CASE content.shape = "held"
  <2> DEFINE rest == Without(entries, {ty.tag})
  <2>1. EntriesAt(root, path, rest) /\ HoldsJson(Json, rest)
    BY SomeAreThere
  <2>2. FieldsPoint(Json, content.ty) /\ ~HoldsCorrectedBelow(content.ty) /\ InAnObject(content.ty)
    BY <1>2 DEF ContentPoints, WalkPoints
  <2> HIDE DEF rest
  <2>3. Point(root, FieldsBelow(content.ty, rest, path))
    BY <2>1, <2>2 DEF FieldsPoint
  <2> QED BY <1>2, <2>3 DEF InternalFields, rest
<1>3. CASE content.shape = "unit"
  BY <1>3, NonePoints DEF InternalFields
<1> QED BY <1>1, <1>2, <1>3 DEF ContentPoints

(* What a variant holds under its content key.                                                   *)
LEMMA AdjacentPoints ==
  ASSUME NEW Json, AreJson(Json), NEW root, NEW ty, NEW content, ContentPoints(Json, content),
         NEW entries, NEW path, IsListed(path), EntriesAt(root, path, entries), HoldsJson(Json, entries)
  PROVE  Point(root, AdjacentFields(ty, content, entries, path))
<1> DEFINE at == Under(path, ty.under)
           held == entries[ty.under]
<1>1. AdjacentFields(ty, content, entries, path) = <<>>
      \/ (ty.under \in DOMAIN entries /\ AdjacentFields(ty, content, entries, path) = ContentArms(content, held, at))
      \/ AdjacentFields(ty, content, entries, path) = Missing(at, content.ty)
  BY DEF AdjacentFields
<1>2. ty.under \in DOMAIN entries => At(root, at) = {held} /\ held \in Json
  BY DEF EntriesAt, HoldsJson, Under
<1>3. IsListed(at)
  BY PathGrows DEF Under
<1> HIDE DEF at, held
<1>4. ty.under \in DOMAIN entries => Point(root, ContentArms(content, held, at))
  BY <1>2, <1>3, ContentArmsPoint
<1>5. Point(root, Missing(at, content.ty)) /\ Point(root, <<>>)
  BY OnePoints, NonePoints DEF Missing
<1> QED BY <1>1, <1>4, <1>5

(* The walk of an enum inside an object.                                                        *)
LEMMA EnumFieldsPoint ==
  ASSUME HoldsCorrectedIsItself, NEW Json, AreJson(Json), NEW root, NEW ty, WalksBeneath(Json, ty), ty.t = "enum",
         NEW entries, NEW path, IsListed(path), EntriesAt(root, path, entries), HoldsJson(Json, entries)
  PROVE  Point(root, Fields(ty, entries, path))
<1>1. CASE TaggedAs(ty, entries) = {}
  <2>1. Fields(ty, entries, path) = TagIssues(ty, entries, path)
    BY <1>1 DEF Fields
  <2> QED BY <2>1, TagIssuesPoint
<1>2. CASE TaggedAs(ty, entries) # {}
  <2> DEFINE content == ContentNamed(ty, entries)
  <2>1. ContentPoints(Json, content)
        /\ (content.shape # "unit" /\ ty.tagging = "internal" => content.shape # "slots" /\ InAnObject(content.ty))
    BY <1>2, ContentNamedPoints
  <2>2. Fields(ty, entries, path) = IF ty.tagging = "internal" THEN InternalFields(ty, content, entries, path)
                                    ELSE AdjacentFields(ty, content, entries, path)
    BY <1>2 DEF Fields
  <2> HIDE DEF content
  <2>3. ty.tagging = "internal" => Point(root, InternalFields(ty, content, entries, path))
    BY <2>1, InternalPoints
  <2>4. Point(root, AdjacentFields(ty, content, entries, path))
    BY <2>1, AdjacentPoints
  <2> QED BY <2>2, <2>3, <2>4
<1> QED BY <1>1, <1>2

(* The walk of a struct inside an object: none that corrects what it reads is left.               *)
LEMMA StructFieldsPoint ==
  ASSUME NEW Json, NEW root, NEW ty, MembersPoint(Json, ty), ty.t = "struct", ~ty.corrects,
         NEW entries, NEW path, IsListed(path), EntriesAt(root, path, entries), HoldsJson(Json, entries)
  PROVE  Point(root, Fields(ty, entries, path))
<1>1. Corrected(ty, Object(entries)).entries = entries
  BY DEF Corrected, Object
<1>2. Fields(ty, entries, path) = Keyed(ty, {}, entries, path)
  BY <1>1 DEF Fields
<1> QED BY <1>2, KeyedPoint

(* A model that holds its object alone.                                                          *)
LEMMA ObjectPoints ==
  ASSUME NEW Json, AreJson(Json), NEW root, NEW ty, NEW path, IsListed(path), NEW value \in Json, At(root, path) = {value},
         value.kind = "object" => Point(root, Fields(ty, value.entries, path))
  PROVE  Point(root, ObjectIssues(ty, value, path))
<1>1. CASE value.kind # "object"
  BY <1>1, LeafPoints DEF ObjectIssues
<1>2. CASE value.kind = "object"
  <2> DEFINE claimed == Claimed(ty, value.entries)
  <2>1. ObjectIssues(ty, value, path) = Fields(ty, value.entries, path) \o Unclaimed(value.entries, claimed, path)
    BY <1>2 DEF ObjectIssues
  <2> HIDE DEF claimed
  <2>2. Point(root, Unclaimed(value.entries, claimed, path))
    BY <1>2, EntriesAreThere, UnclaimedPoint
  <2> QED BY <1>2, <2>1, <2>2, BothPoint
<1> QED BY <1>1, <1>2

(* An enum tagged by its one key.                                                              *)
LEMMA ExternalPoints ==
  ASSUME HoldsCorrectedIsItself, NEW Json, AreJson(Json), NEW root, NEW ty, WalksBeneath(Json, ty), ty.t = "enum",
         NEW path, IsListed(path), NEW value \in Json, At(root, path) = {value}
  PROVE  Point(root, ExternalIssues(ty, value, path))
<1> DEFINE Unit(i) == ty.variants[i].content.shape = "unit"
           keys == IF value.kind = "object" THEN DOMAIN value.entries ELSE {}
           holding == UNION {{i \in Named(ty, key) : ~Unit(i)} : key \in keys}
           one == CHOOSE k \in keys : TRUE
           which == CHOOSE i \in holding : TRUE
           content == ty.variants[which].content
           expected == Variants(ty)
<1>1. \/ ExternalIssues(ty, value, path) = <<>>
      \/ holding # {} /\ ExternalIssues(ty, value, path) = ContentArms(content, value.entries[one], Under(path, one))
      \/ ExternalIssues(ty, value, path) = Leaf(ty, expected, value, path)
  BY DEF ExternalIssues
<1>2. ASSUME holding # {} PROVE Point(root, ContentArms(content, value.entries[one], Under(path, one)))
  <2>1. which \in holding
    BY <1>2
  <2>2. which \in DOMAIN ty.variants
    <3> HIDE DEF which
    <3> QED BY <2>1 DEF Named
  <2>3. keys # {}
    <3> HIDE DEF keys
    <3> QED BY <1>2
  <2>4. one \in keys
    BY <2>3
  <2>5. value.kind = "object" /\ one \in DOMAIN value.entries
    <3> HIDE DEF one
    <3> QED BY <2>4
  <2> HIDE DEF which, one
  <2>6. ContentPoints(Json, content)
    BY <2>2, EachContentPoints
  <2>7. EntriesAt(root, path, value.entries) /\ HoldsJson(Json, value.entries)
    BY <2>5, EntriesAreThere
  <2>8. At(root, Under(path, one)) = {value.entries[one]} /\ value.entries[one] \in Json
    BY <2>5, <2>7 DEF EntriesAt, HoldsJson, Under
  <2>9. IsListed(Under(path, one))
    BY PathGrows DEF Under
  <2> HIDE DEF content
  <2> QED BY <2>6, <2>8, <2>9, ContentArmsPoint
<1>3. Point(root, Leaf(ty, expected, value, path))
  BY LeafPoints
<1> HIDE DEF holding, content, one, expected
<1> QED BY <1>1, <1>2, <1>3, NonePoints

(* An enum without a tag.                                                                      *)
LEMMA UntaggedPoints ==
  ASSUME HoldsCorrectedIsItself, NEW Json, AreJson(Json), NEW root, NEW ty, WalksBeneath(Json, ty), ty.t = "enum",
         NEW path, IsListed(path), NEW value \in Json, At(root, path) = {value}
  PROVE  Point(root, UntaggedIssues(ty, value, path))
<1> DEFINE which == CHOOSE i \in PickedOf(ty, value) : TRUE
           content == ty.variants[which].content
<1>1. CASE PickedOf(ty, value) = {}
  <2>1. Point(root, <<Issue("NoVariant", path, ty, {value})>>)
    BY OnePoints
  <2> QED BY <1>1, <2>1 DEF UntaggedIssues
<1>2. CASE PickedOf(ty, value) # {}
  <2>1. which \in DOMAIN ty.variants
    <3>1. which \in PickedOf(ty, value)
      BY <1>2
    <3>2. PickedOf(ty, value) \subseteq DOMAIN ty.variants
      BY DEF PickedOf
    <3> HIDE DEF which
    <3> QED BY <3>1, <3>2
  <2>2. UntaggedIssues(ty, value, path) = VariantIssues(ty, content, value, path)
    BY <1>2 DEF UntaggedIssues
  <2> HIDE DEF which
  <2>3. ContentPoints(Json, content)
    BY <2>1, EachContentPoints
  <2> HIDE DEF content
  <2>4. Point(root, ContentArms(content, value, path))
    BY <2>3, ContentArmsPoint
  <2>5. Point(root, Leaf(ty, ty, value, path))
    BY LeafPoints
  <2>6. VariantIssues(ty, content, value, path) \in {Leaf(ty, ty, value, path), ContentArms(content, value, path)}
    BY <2>3 DEF VariantIssues, ContentPoints
  <2> QED BY <2>2, <2>4, <2>5, <2>6
<1> QED BY <1>1, <1>2

(* Every model: a struct, a tuple struct and each kind of enum.                                    *)
LEMMA ModelPoints ==
  ASSUME HoldsCorrectedIsItself, NEW Json, AreJson(Json), NEW root, NEW ty, WalksBeneath(Json, ty), IsModel(ty),
         NEW path, IsListed(path), NEW value \in Json, At(root, path) = {value}
  PROVE  Point(root, ModelIssues(ty, value, path))
<1>0. IsDeclared(ty) /\ ~HoldsCorrected(ty)
  BY TypesAreNested DEF WalksBeneath, HoldsCorrectedIsItself
<1>1. CASE ty.t = "struct"
  <2>1. ~ty.corrects
    BY <1>0, <1>1 DEF HoldsCorrected
  <2>2. Corrected(ty, value) = value
    BY <2>1 DEF Corrected
  <2> DEFINE bare == Bare(ty)
  <2>3. MembersPoint(Json, bare) /\ bare.t = "struct" /\ bare.corrects = FALSE
    BY <1>1, StructPoints
  <2>4. ModelIssues(ty, value, path) = ObjectIssues(bare, value, path)
    BY <1>1, <2>2 DEF ModelIssues
  <2> HIDE DEF bare
  <2>5. value.kind = "object" => Point(root, Fields(bare, value.entries, path))
    BY <2>3, EntriesAreThere, StructFieldsPoint
  <2> QED BY <2>4, <2>5, ObjectPoints
<1>2. CASE ty.t = "slots"
  <2>1. CASE value.kind = "list"
    <3>1. /\ \E n \in Nat : DOMAIN value.items = 1..n /\ Len(value.items) = n
          /\ \A i \in DOMAIN value.items : value.items[i] \in Json
          /\ ItemsAt(root, path, value.items)
      BY <2>1, ItemsAreThere
    <3>2. Point(root, Positions(ty.slots, value.items, path))
      BY <1>2, <3>1, SlotsPoint, PositionsPoint
    <3> QED BY <1>2, <2>1, <3>2 DEF ModelIssues
  <2>2. CASE value.kind # "list"
    BY <1>2, <2>2, LeafPoints DEF ModelIssues
  <2> QED BY <2>1, <2>2
<1>3. CASE ty.t = "enum"
  <2>1. CASE ty.tagging = "plain"
    BY <1>3, <2>1, LeafPoints DEF ModelIssues
  <2>2. CASE ty.tagging = "external"
    BY <1>3, <2>2, ExternalPoints DEF ModelIssues
  <2>3. CASE ty.tagging = "untagged"
    BY <1>3, <2>3, UntaggedPoints DEF ModelIssues
  <2>4. CASE ty.tagging \in {"internal", "adjacent"}
    <3>1. value.kind = "object" => Point(root, Fields(ty, value.entries, path))
      BY <1>3, EntriesAreThere, EnumFieldsPoint
    <3>2. Point(root, ObjectIssues(ty, value, path))
      BY <3>1, ObjectPoints
    <3> QED BY <1>3, <2>4, <3>2 DEF ModelIssues
  <2> QED BY <1>0, <1>3, <2>1, <2>2, <2>3, <2>4 DEF IsDeclared
<1> QED BY <1>1, <1>2, <1>3 DEF IsModel

(* The items of a list, each walked where it is held.                                           *)
LEMMA ItemsPoint ==
  ASSUME NEW Json, AreJson(Json), NEW root, NEW of, WalkPoints(Json, of), NEW path, IsListed(path),
         NEW value \in Json, At(root, path) = {value}, value.kind = "list"
  PROVE  Point(root, FlattenSeq([i \in DOMAIN value.items |-> ArmsBelow(of, of, value.items[i], Append(path, Index(i - 1)), "none")]))
<1> DEFINE items == value.items
           Place(i) == Append(path, Index(i - 1))
<1>1. PICK n \in Nat : DOMAIN items = 1..n
  BY ItemsAreThere
<1>2. \A i \in 1..n : items[i] \in Json /\ At(root, Place(i)) = {items[i]}
  BY <1>1, ItemsAreThere DEF ItemsAt
<1> HIDE DEF items
<1> DEFINE lists == [i \in 1..n |-> ArmsBelow(of, of, items[i], Place(i), "none")]
<1>3. ASSUME NEW i \in 1..n PROVE Point(root, lists[i])
  <2>1. IsListed(Place(i))
    BY PathGrows
  <2>2. Point(root, ArmsBelow(of, of, items[i], Place(i), "none"))
    BY <1>2, <2>1 DEF WalkPoints, ArmsPoint
  <2> QED BY <2>2
<1>4. lists = [i \in 1..n |-> lists[i]]
  OBVIOUS
<1>5. FlattenSeq([i \in DOMAIN items |-> ArmsBelow(of, of, items[i], Place(i), "none")]) = FlattenSeq(lists)
  BY <1>1
<1>6. Point(root, FlattenSeq(lists))
  <2> HIDE DEF lists
  <2> QED BY <1>3, <1>4, AllPoint
<1> QED BY <1>5, <1>6 DEF items

(* The walk of each type points, where the walk of each type that nests less deep does.            *)
LEMMA WalkOfAll ==
  ASSUME HoldsCorrectedIsItself, NEW Json, AreJson(Json), NEW root, NEW ty, WalksBeneath(Json, ty), NEW reported, NEW bound,
         NEW path, IsListed(path), NEW value \in Json, At(root, path) = {value}
  PROVE  Point(root, Arms(ty, reported, value, path, bound))
<1>1. IsDeclared(ty) /\ ty.t \in Kinds
  BY TypesAreNested DEF WalksBeneath, IsDeclared
<1>2. Point(root, Bounded(bound, ty, value, path)) /\ Point(root, Leaf(ty, ty, value, path)) /\ Point(root, Invalid(path, reported, value))
  BY BoundedPoints, LeafPoints, OnePoints DEF Invalid
<1>3. CASE ReadsWhole(ty)
  <2>1. Arms(ty, reported, value, path, bound) = Leaf(ty, ty, value, path) \o Bounded(bound, ty, value, path)
    BY <1>3 DEF Arms, ReadsWhole, IsModel
  <2> QED BY <1>2, <2>1, BothPoint
<1>4. CASE IsModel(ty)
  <2>1. Arms(ty, reported, value, path, bound) = ModelIssues(ty, value, path) \o Bounded(bound, ty, value, path)
    BY <1>4 DEF Arms, ReadsWhole, IsModel
  <2>2. Point(root, ModelIssues(ty, value, path))
    BY <1>4, ModelPoints
  <2> QED BY <1>2, <2>1, <2>2, BothPoint
<1>5. CASE ty.t = "option" /\ ~ReadsWhole(ty)
  <2>1. Arms(ty, reported, value, path, bound) = IF value = Null THEN <<>> ELSE ArmsBelow(ty.of, ty, value, path, bound)
    BY <1>5 DEF Arms, IsModel
  <2>2. ty.of \in Beneath(ty)
    BY <1>5 DEF Beneath
  <2>3. Point(root, ArmsBelow(ty.of, ty, value, path, bound))
    BY <2>2, BeneathPoint DEF WalkPoints, ArmsPoint
  <2> QED BY <2>1, <2>3, NonePoints
<1>6. CASE ty.t = "list"
  <2> DEFINE items == FlattenSeq([i \in DOMAIN value.items |-> ArmsBelow(ty.of, ty.of, value.items[i], Append(path, Index(i - 1)), "none")])
  <2>1. Arms(ty, reported, value, path, bound) =
          IF value.kind # "list" THEN Invalid(path, reported, value) ELSE items \o Bounded(bound, ty, value, path)
    BY <1>6 DEF Arms, ReadsWhole, IsModel
  <2>2. ty.of \in Beneath(ty)
    BY <1>6 DEF Beneath
  <2>3. WalkPoints(Json, ty.of)
    BY <2>2, BeneathPoint
  <2>4. value.kind = "list" => Point(root, items)
    BY <2>3, ItemsPoint
  <2> HIDE DEF items
  <2> QED BY <1>2, <2>1, <2>4, BothPoint
<1>7. CASE ty.t = "map"
  <2>1. Arms(ty, reported, value, path, bound) =
          IF value.kind # "object" THEN Invalid(path, reported, value) ELSE EntriesWalk(ty.of, value.entries, {}, path)
    BY <1>7 DEF Arms, ReadsWhole, IsModel
  <2>2. ty.of \in Beneath(ty)
    BY <1>7 DEF Beneath
  <2>3. WalkPoints(Json, ty.of)
    BY <2>2, BeneathPoint
  <2>4. value.kind = "object" => Point(root, EntriesWalk(ty.of, value.entries, {}, path))
    BY <2>3, EntriesAreThere, EntriesWalkPoints
  <2> QED BY <1>2, <2>1, <2>4
<1>8. CASE ty.t = "tuple"
  <2>1. Arms(ty, reported, value, path, bound) =
          IF value.kind # "list" THEN Invalid(path, reported, value) ELSE Positions(ty.slots, value.items, path)
    BY <1>8 DEF Arms, ReadsWhole, IsModel
  <2>2. ASSUME value.kind = "list" PROVE Point(root, Positions(ty.slots, value.items, path))
    <3>1. /\ \E n \in Nat : DOMAIN value.items = 1..n /\ Len(value.items) = n
          /\ \A i \in DOMAIN value.items : value.items[i] \in Json
          /\ ItemsAt(root, path, value.items)
      BY <2>2, ItemsAreThere
    <3>2. IsListed(ty.slots) /\ \A i \in DOMAIN ty.slots : WalkPoints(Json, ty.slots[i].ty)
      BY <1>8, SlotsPoint
    <3> QED BY <3>1, <3>2, PositionsPoint
  <2> QED BY <1>2, <2>1, <2>2
<1>9. CASE ty.t = "result"
  <2> DEFINE Alone(key) == value.kind = "object" /\ DOMAIN value.entries = {key}
             arm == CHOOSE key \in DOMAIN value.entries : TRUE
             held == value.entries[arm]
             of == ty.arms[arm]
  <2>1. \/ Arms(ty, reported, value, path, bound) = Invalid(path, reported, value)
        \/ /\ Alone("Ok") \/ Alone("Err")
           /\ Arms(ty, reported, value, path, bound) = ArmsBelow(of, of, held, Under(path, arm), "none")
    BY <1>9 DEF Arms, ReadsWhole, IsModel
  <2>2. ASSUME Alone("Ok") \/ Alone("Err") PROVE Point(root, ArmsBelow(of, of, held, Under(path, arm), "none"))
    <3>1. DOMAIN value.entries # {} /\ value.kind = "object" /\ DOMAIN value.entries \subseteq {"Ok", "Err"}
      BY <2>2
    <3>2. arm \in DOMAIN value.entries
      BY <3>1
    <3> HIDE DEF arm
    <3>3. of \in Beneath(ty)
      BY <1>9, <3>1, <3>2 DEF Beneath
    <3>4. ArmsPoint(Json, of) /\ ~HoldsCorrectedBelow(of)
      BY <3>3, BeneathPoint DEF WalkPoints
    <3>5. At(root, Under(path, arm)) = {held} /\ held \in Json
      BY <3>1, <3>2, EntriesAreThere DEF EntriesAt, HoldsJson, Under
    <3>6. IsListed(Under(path, arm))
      BY PathGrows DEF Under
    <3> HIDE DEF of, held
    <3> QED BY <3>4, <3>5, <3>6 DEF ArmsPoint
  <2> HIDE DEF arm, held, of, Alone
  <2> QED BY <1>2, <2>1, <2>2
<1> QED BY <1>1, <1>3, <1>4, <1>5, <1>6, <1>7, <1>8, <1>9 DEF Kinds, ReadsWhole, IsModel

(* However deep the types nest.                                                                  *)
LEMMA WalksPoint ==
  ASSUME WalkIsItself, HoldsCorrectedIsItself, NEW Json, AreJson(Json)
  PROVE  \A ty \in AllTypes : ArmsPoint(Json, ty) /\ FieldsPoint(Json, ty)
<1> DEFINE S == {ty \in AllTypes : ArmsPoint(Json, ty) /\ FieldsPoint(Json, ty)}
<1>1. ASSUME NEW ty \in AllTypes, \A of \in AllTypes : Depth[of] < Depth[ty] => of \in S PROVE ty \in S
  <2>1. ~HoldsCorrectedBelow(ty) => WalksBeneath(Json, ty)
    BY <1>1 DEF WalksBeneath
  <2>2. ArmsPoint(Json, ty)
    <3> SUFFICES ASSUME ~HoldsCorrectedBelow(ty), NEW root, NEW reported, NEW bound, NEW path, NEW value \in Json,
                        IsListed(path), At(root, path) = {value}
                 PROVE  Point(root, ArmsBelow(ty, reported, value, path, bound))
      BY DEF ArmsPoint
    <3>1. ArmsBelow(ty, reported, value, path, bound) = Arms(ty, reported, value, path, bound)
      BY DEF WalkIsItself
    <3> QED BY <2>1, <3>1, WalkOfAll
  <2>3. FieldsPoint(Json, ty)
    <3> SUFFICES ASSUME InAnObject(ty), ~HoldsCorrectedBelow(ty), NEW root, NEW entries, NEW path,
                        IsListed(path), EntriesAt(root, path, entries), HoldsJson(Json, entries)
                 PROVE  Point(root, FieldsBelow(ty, entries, path))
      BY DEF FieldsPoint
    <3>1. FieldsBelow(ty, entries, path) = Fields(ty, entries, path)
      BY DEF WalkIsItself
    <3>2. CASE ty.t = "struct"
      <4>1. ~ty.corrects
        BY <3>2 DEF HoldsCorrectedIsItself, HoldsCorrected
      <4>2. MembersPoint(Json, ty)
        BY <2>1, <3>2, StructPoints
      <4>3. Point(root, Fields(ty, entries, path))
        BY <3>2, <4>1, <4>2, StructFieldsPoint
      <4> QED BY <3>1, <4>3
    <3>3. CASE ty.t = "enum"
      <4>1. Point(root, Fields(ty, entries, path))
        BY <2>1, <3>3, EnumFieldsPoint
      <4> QED BY <3>1, <4>1
    <3> QED BY <3>2, <3>3 DEF InAnObject
  <2> QED BY <2>2, <2>3
<1>2. S \subseteq AllTypes
  OBVIOUS
<1> HIDE DEF S
<1>3. S = AllTypes
  BY <1>1, <1>2, TypesNest
<1> QED BY <1>3 DEF S

(* What a read lists, the checks' issues beside: every issue of the walk points.                   *)
LEMMA ReportPoints ==
  ASSUME WalkIsItself, HoldsCorrectedIsItself, NEW Json, AreJson(Json), NEW ty \in AllTypes, ~HoldsCorrected(ty), NEW value \in Json
  PROVE  Point(value, Report(ty, value))
<1>1. At(value, <<>>) = {value} /\ IsListed(<<>>)
  BY AtNothing, NonePoints DEF Point
<1>2. Point(value, Walk(ty, value))
  <2>1. ArmsPoint(Json, ty) /\ ~HoldsCorrectedBelow(ty)
    BY WalksPoint DEF HoldsCorrectedIsItself
  <2> DEFINE start == <<>>
  <2>2. Walk(ty, value) = ArmsBelow(ty, ty, value, start, "none")
    BY DEF WalkIsItself, Walk
  <2>3. At(value, start) = {value} /\ IsListed(start)
    BY <1>1
  <2> HIDE DEF start
  <2> QED BY <2>1, <2>2, <2>3 DEF ArmsPoint
<1>3. Point(value, Undescribed) /\ Point(value, <<>>)
  BY OnePoints, NonePoints DEF Undescribed
<1>4. Point(value, Refusal(ty, value, Walk(ty, value)))
  BY <1>3 DEF Refusal
<1> QED BY <1>2, <1>4, BothPoint DEF Report, Reported

(* What FoundIsThere asks of a list of issues.                                                   *)
Pointing(value, issues) ==
  \A i \in DOMAIN issues :
    issues[i].kind \notin {"Missing", "Undescribed"} /\ issues[i].by = "walk" => At(value, issues[i].path) = issues[i].found

(* A check's issue is no issue of the walk, so it needs no place.                                 *)
LEMMA ListsPoint ==
  ASSUME NEW value, NEW one, Point(value, one), NEW two, IsListed(two), \A i \in DOMAIN two : two[i].by = "check"
  PROVE  Pointing(value, one \o two)
<1> DEFINE S == {issue \in ToSet(one) \cup ToSet(two) : PointsAt(value, issue) \/ issue.by = "check"}
<1>1. one \in Seq(S) /\ two \in Seq(S)
  <2>1. one \in Seq(ToSet(one)) /\ \A i \in DOMAIN one : one[i] \in S
    BY DEF Point, IsListed, ToSet
  <2>2. two \in Seq(ToSet(two)) /\ \A i \in DOMAIN two : two[i] \in S
    BY DEF Point, IsListed, ToSet
  <2> HIDE DEF S
  <2>3. one \in Seq(S)
    BY <2>1
  <2>4. two \in Seq(S)
    BY <2>2
  <2> QED BY <2>3, <2>4
<1>2. \A issue \in S : PointsAt(value, issue) \/ issue.by = "check"
  OBVIOUS
<1> HIDE DEF S
<1>3. one \o two \in Seq(S)
  BY <1>1
<1>4. \A i \in DOMAIN (one \o two) : (one \o two)[i] \in S
  BY <1>3
<1> DEFINE both == one \o two
<1>5. \A i \in DOMAIN both : PointsAt(value, both[i]) \/ both[i].by = "check"
  BY <1>2, <1>4
<1> HIDE DEF both
<1>6. Pointing(value, both)
  BY <1>5 DEF Pointing, PointsAt
<1> QED BY <1>6 DEF both

(* What the checks say is told apart from what the walk says.                                      *)
LEMMA ChecksAreTheirOwn ==
  ASSUME NEW ty, NEW value, NEW i \in DOMAIN CheckIssues(ty, value)
  PROVE  CheckIssues(ty, value)[i].by = "check"
<1> DEFINE places == FlattenSeq(SetToSeq({Complaints(ty, form, <<>>) : form \in Forms(ty, value)}))
           Held(path) == IF At(value, path) = {} THEN {Null} ELSE At(value, path)
           Complaint(path) == [Issue("Invalid", path, Untold, Held(path)) EXCEPT !.by = "check"]
<1>1. CheckIssues(ty, value) = [k \in DOMAIN places |-> Complaint(Placed(value, places[k]))]
  BY DEF CheckIssues
<1>2. \A path : Complaint(path).by = "check"
  BY DEF Issue
<1> HIDE DEF places, Complaint
<1> QED BY <1>1, <1>2

(* All that is assumed of a decode of JSON: its read is the one of this module, a caller hands in a *)
(* value of a declared type, and neither a correction nor a rewriting makes anything but JSON.     *)
DecodesJson(Json) ==
  /\ \A name \in DOMAIN Types : \A value \in Json : Lists(name, value) = ListsOf(name, value) /\ IsListed(CheckIssues(Declared(name), value))
  /\ \A asks \in Taken : asks.type \in DOMAIN Types /\ asks.raw \in Json
  /\ \A name \in DOMAIN Types : \A value \in Json :
       Correction(name, value) \in Json /\ Rewritten(value, ListsOf(name, value)) \in Json

(* The whole list one read is handed over with.                                                  *)
LEMMA FoundPoint ==
  ASSUME WalkIsItself, HoldsCorrectedIsItself, NEW Json, AreJson(Json), DecodesJson(Json),
         NEW name \in DOMAIN Types, ~HoldsCorrected(Declared(name)), NEW value \in Json
  PROVE  Pointing(value, Lists(name, value))
<1>1. Declared(name) \in AllTypes
  BY TypesAreNested DEF Declared
<1>2. Point(value, Report(Declared(name), value))
  BY <1>1, ReportPoints
<1>3. IsListed(CheckIssues(Declared(name), value)) /\ Lists(name, value) = Report(Declared(name), value) \o CheckIssues(Declared(name), value)
  BY DEF DecodesJson, ListsOf
<1>4. \A i \in DOMAIN CheckIssues(Declared(name), value) : CheckIssues(Declared(name), value)[i].by = "check"
  BY ChecksAreTheirOwn
<1> QED BY <1>2, <1>3, <1>4, ListsPoint

(* Until a callback or a resolver writes to it, the value is JSON, and what was found is what the   *)
(* last read listed of it.                                                                        *)
FoundInRaw(Json) ==
  /\ call.type \in DOMAIN Types
  /\ IsListed(asked)
  /\ phase \in {"taken", "first", "found"} => asked = <<>> /\ raw \in Json
  /\ phase = "found" \/ Handed => raw \in Json /\ found = Lists(call.type, raw)

(* Every issue the walk hands over points at what it speaks of: of any declared types, however deep *)
(* they nest, of any JSON value, whatever its keys and items, save for types that hold one that    *)
(* names a preprocess.                                                                            *)
THEOREM FoundPointsAtWhatIsThere ==
  ASSUME WalkIsItself, HoldsCorrectedIsItself, NEW Json, AreJson(Json), DecodesJson(Json)
  PROVE  Spec => []FoundIsThere
<1> DEFINE IInv == FoundInRaw(Json)
<1>1. Init => IInv
  <2>1. IsListed(<<>>)
    BY NonePoints DEF Point
  <2> QED BY <2>1 DEF Init, FoundInRaw, DecodesJson, Handed
<1>2. IInv /\ [Next]_vars => IInv'
  <2> SUFFICES ASSUME IInv, [Next]_vars PROVE IInv'
    OBVIOUS
  <2> USE DEF FoundInRaw, Handed
  <2>1. CASE Correct
    BY <2>1 DEF Correct, DecodesJson
  <2>2. CASE FirstRead
    BY <2>2 DEF FirstRead
  <2>3. CASE ReadClean
    BY <2>3 DEF ReadClean
  <2>4. CASE SettleDigits
    BY <2>4 DEF SettleDigits, DecodesJson
  <2>5. CASE HandOver
    BY <2>5 DEF HandOver
  <2>6. CASE Decide
    BY <2>6 DEF Decide
  <2>7. CASE Resolve
    <3>1. PICK question : asked' = Append(asked, question)
      BY <2>7 DEF Resolve
    <3>2. IsListed(asked')
      BY <3>1, PathGrows
    <3>3. asked' # <<>>
      <4>1. asked \in Seq(ToSet(asked))
        BY DEF IsListed
      <4>2. DOMAIN Append(asked, question) = 1..Len(asked) + 1 /\ Len(asked) \in Nat
        BY <4>1
      <4> QED BY <3>1, <4>2
    <3> QED BY <2>7, <3>2, <3>3 DEF Resolve, Piping
  <2>8. CASE PassOver
    BY <2>8 DEF PassOver, Piping
  <2>9. CASE EndPipe
    BY <2>9 DEF EndPipe
  <2>10. CASE SecondRead
    BY <2>10 DEF SecondRead
  <2>11. CASE UNCHANGED vars
    BY <2>11 DEF vars
  <2> QED BY <2>1, <2>2, <2>3, <2>4, <2>5, <2>6, <2>7, <2>8, <2>9, <2>10, <2>11 DEF Next
<1>3. IInv => FoundIsThere
  BY FoundPoint DEF FoundInRaw, FoundIsThere, Pointing
<1> QED BY <1>1, <1>2, <1>3, PTL DEF Spec
=============================================================================
