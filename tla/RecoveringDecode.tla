--------------------------- MODULE RecoveringDecode --------------------------
(* from_value_with and from_value_piped: one raw value, read, listed, handed over once, and read   *)
(* once more. What the type's own code answers of a value is a parameter of the module: the        *)
(* functions it names in `preprocess`, whether serde reads it, what a read lists of it, and what   *)
(* its digits are rewritten to. So is what a callback or a resolver may do.                        *)
EXTENDS Naturals, Sequences, FiniteSets

CONSTANTS Taken,             \* what a caller may hand in: [type, raw, entry, resolvers]
          Correction(_, _),  \* the value once the type's own functions have corrected it
          IsRead(_, _),      \* serde reads it
          Lists(_, _),       \* every issue of the read: of the walk, of the refusal, of the checks
          Rewritten(_, _),   \* the value with the digits among the issues written as numbers
          Decisions(_, _, _),   \* what a call's callback may answer of a value: [verdict, raw]
          Resolutions(_, _, _)  \* what its resolvers may answer of one issue: [answer, raw]

VARIABLES call, raw, phase, settled, found, answers, cursor, asked, outcome
vars == <<call, raw, phase, settled, found, answers, cursor, asked, outcome>>

Pending == [result |-> "pending", issues |-> <<>>]
Ok == [result |-> "ok", issues |-> <<>>]
Unrecovered(issues) == [result |-> "unrecovered", issues |-> issues]
Phases == {"taken", "first", "found", "decide", "pipe", "second", "done"}

TypeOK ==
  /\ call \in Taken
  /\ phase \in Phases
  /\ settled \in BOOLEAN
  /\ phase \in {"decide", "pipe"} => DOMAIN answers = DOMAIN found
  /\ \A i \in DOMAIN answers : answers[i] \in {"NotTouched", "Settled", "Rejected"}
  /\ (phase = "done") = (outcome # Pending)

Init ==
  /\ call \in Taken
  /\ raw = call.raw
  /\ phase = "taken" /\ settled = FALSE
  /\ found = <<>> /\ answers = <<>> /\ cursor = <<1, 1>> /\ asked = <<>>
  /\ outcome = Pending

(* The functions a type names for itself are called once, on the value as it is taken. *)
Correct ==
  /\ phase = "taken"
  /\ raw' = Correction(call.type, raw)
  /\ phase' = "first"
  /\ UNCHANGED <<call, settled, found, answers, cursor, asked, outcome>>

(* One read lists what it finds, and nothing below it is judged as it is read. *)
FirstRead ==
  /\ phase = "first"
  /\ found' = Lists(call.type, raw)
  /\ phase' = "found"
  /\ UNCHANGED <<call, raw, settled, answers, cursor, asked, outcome>>

ReadClean ==
  /\ phase = "found" /\ found = <<>>
  /\ outcome' = Ok /\ phase' = "done"
  /\ UNCHANGED <<call, raw, settled, found, answers, cursor, asked>>

(* A u64 held as its digits is read as its number before any issue is handed on, once. *)
SettleDigits ==
  /\ phase = "found" /\ found # <<>> /\ ~settled
  /\ raw' = Rewritten(raw, found)
  /\ raw' # raw
  /\ settled' = TRUE
  /\ phase' = "first"
  /\ UNCHANGED <<call, found, answers, cursor, asked, outcome>>

HandOver ==
  /\ phase = "found" /\ found # <<>>
  /\ settled \/ Rewritten(raw, found) = raw
  /\ answers' = [i \in DOMAIN found |-> "NotTouched"]
  /\ phase' = IF call.entry = "with" THEN "decide" ELSE "pipe"
  /\ UNCHANGED <<call, raw, settled, found, cursor, asked, outcome>>

(* The callback is handed the raw value and the whole list, once. *)
Decide ==
  /\ phase = "decide"
  /\ \E decision \in Decisions(call, raw, found) :
       /\ raw' = decision.raw
       /\ IF decision.verdict = "Reject" THEN outcome' = Unrecovered(found) /\ phase' = "done"
          ELSE phase' = "second" /\ UNCHANGED outcome
  /\ UNCHANGED <<call, settled, found, answers, cursor, asked>>

(* The pipe goes resolver by resolver, and under each issue by issue. *)
After(at) == IF at[2] = Len(found) THEN <<at[1] + 1, 1>> ELSE <<at[1], at[2] + 1>>

Piping == phase = "pipe" /\ cursor[1] <= call.resolvers /\ cursor[2] <= Len(found)

(* Mutant: an issue that was rejected is offered to the resolvers after. *)
OpenUntilSettled(answer) == answer # "Settled"

(* An issue no resolver before has decided. *)
Open(answer) == answer = "NotTouched"

Resolve ==
  /\ Piping
  /\ Open(answers[cursor[2]])
  /\ \E resolution \in Resolutions(call, raw, found[cursor[2]]) :
       /\ raw' = resolution.raw
       /\ answers' = [answers EXCEPT ![cursor[2]] = resolution.answer]
       /\ asked' = Append(asked, [by |-> cursor[1], issue |-> cursor[2], answer |-> resolution.answer])
  /\ cursor' = After(cursor)
  /\ UNCHANGED <<call, phase, settled, found, outcome>>

PassOver ==
  /\ Piping
  /\ ~Open(answers[cursor[2]])
  /\ cursor' = After(cursor)
  /\ UNCHANGED <<call, raw, phase, settled, found, answers, asked, outcome>>

(* The issues nobody settled, in the order they were found. *)
Kept == {i \in DOMAIN found : answers[i] # "Settled"}
PlaceOf(i) == Cardinality({j \in Kept : j <= i})
Left == [k \in 1 .. Cardinality(Kept) |-> found[CHOOSE i \in Kept : PlaceOf(i) = k]]

(* An issue nobody settled fails the read; with every one settled the second read follows. *)
EndPipe ==
  /\ phase = "pipe" /\ ~Piping
  /\ IF Left # <<>> THEN outcome' = Unrecovered(Left) /\ phase' = "done"
     ELSE phase' = "second" /\ UNCHANGED outcome
  /\ UNCHANGED <<call, raw, settled, found, answers, cursor, asked>>

(* One more read of the value as it was left: nobody is asked again, and no digits rewritten. *)
SecondRead ==
  /\ phase = "second"
  /\ LET issues == Lists(call.type, raw)
     IN outcome' = IF IsRead(call.type, raw) /\ issues = <<>> THEN Ok ELSE Unrecovered(issues)
  /\ phase' = "done"
  /\ UNCHANGED <<call, raw, settled, found, answers, cursor, asked>>

Next == Correct \/ FirstRead \/ ReadClean \/ SettleDigits \/ HandOver \/ Decide \/ Resolve \/ PassOver \/ EndPipe \/ SecondRead
Spec == Init /\ [][Next]_vars
-----------------------------------------------------------------------------
(* Resolvers are asked in their order, each under the issues in the order the walk found them, and  *)
(* none is asked of an issue that one before it decided. (recovering_decode.rs:4619, unsettled.)   *)
AskedInTurn ==
  \A m, n \in DOMAIN asked : m < n =>
    /\ asked[m].by < asked[n].by \/ (asked[m].by = asked[n].by /\ asked[m].issue < asked[n].issue)
    /\ asked[m].issue = asked[n].issue => asked[m].answer = "NotTouched"

(* A resolver has had its turn at an issue: it was asked of it, or one before it had decided it. *)
HadItsTurn(by, i) ==
  \E n \in DOMAIN asked :
    /\ asked[n].issue = i
    /\ asked[n].by = by \/ (asked[n].by < by /\ asked[n].answer # "NotTouched")

SettledByOne(i) == \E n \in DOMAIN asked : asked[n].issue = i /\ asked[n].answer = "Settled"

(* The issues are those nobody settled, each once and in the order they were found. *)
NamesTheUnsettled(issues) ==
  \E place \in [DOMAIN issues -> DOMAIN found] :
    /\ \A k \in DOMAIN issues : issues[k] = found[place[k]]
    /\ \A k, l \in DOMAIN issues : k < l => place[k] < place[l]
    /\ \A i \in DOMAIN found : ~SettledByOne(i) <=> \E k \in DOMAIN issues : place[k] = i

(* A pipe that has ended: each resolver had its turn at every issue; a read that goes on had each   *)
(* issue settled, and one that fails in the pipe names those nobody settled.                      *)
PipeEnded ==
  call.entry = "piped" /\ phase \in {"second", "done"} /\ found # <<>> =>
    /\ \A by \in 1 .. call.resolvers, i \in DOMAIN found : HadItsTurn(by, i)
    /\ phase = "second" => \A i \in DOMAIN found : SettledByOne(i)
    /\ (\E i \in DOMAIN found : ~SettledByOne(i)) => outcome.result = "unrecovered" /\ NamesTheUnsettled(outcome.issues)

(* What a pipe promises of its resolvers: they are asked in turn, none of them is passed over, and  *)
(* what it answers is what they settled. (recovering_decode.rs:4619, unsettled.)                  *)
PipeKeepsItsOrder == AskedInTurn /\ PipeEnded
=============================================================================
