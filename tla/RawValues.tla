------------------------------ MODULE RawValues ------------------------------
(* A JSON value as a decode holds it, the path of a place inside it, and the three operations    *)
(* of Stored a repair goes through: what is at a path, a value put there, a value taken out.      *)
(* An operation that may answer nothing is the set of what it answers.                            *)
EXTENDS Naturals, Sequences, SequencesExt

CONSTANT KeyOrder      \* every key of the instance, in the order an object lists its entries

Null == [kind |-> "null"]
Number(n) == [kind |-> "number", number |-> n]
Text(text) == [kind |-> "text", text |-> text]
List(items) == [kind |-> "list", items |-> items]
Object(entries) == [kind |-> "object", entries |-> entries]

Listed(entries) == FlattenSeq([i \in DOMAIN KeyOrder |-> IF KeyOrder[i] \in DOMAIN entries THEN <<KeyOrder[i]>> ELSE <<>>])
Without(entries, keys) == [key \in DOMAIN entries \ keys |-> entries[key]]

(* One of each, where each answers something. *)
Together(answers) ==
  IF \E x \in DOMAIN answers : answers[x] = {} THEN {} ELSE {[x \in DOMAIN answers |-> CHOOSE one \in answers[x] : TRUE]}

Key(key) == [key |-> key]
Index(index) == [index |-> index]
IsKey(segment) == "key" \in DOMAIN segment

Child(value, segment) ==
  IF IsKey(segment)
  THEN IF value.kind = "object" /\ segment.key \in DOMAIN value.entries THEN {value.entries[segment.key]} ELSE {}
  ELSE IF value.kind = "list" /\ segment.index < Len(value.items) THEN {value.items[segment.index + 1]} ELSE {}

At(value, path) ==
  FoldLeft(LAMBDA slots, segment : UNION {Child(slot, segment) : slot \in slots}, {value}, path)

(* A key is inserted where it is absent; an item has to be there to be replaced. *)
WithChild(value, segment, new) ==
  IF IsKey(segment)
  THEN IF value.kind = "object" THEN {Object((segment.key :> new) @@ value.entries)} ELSE {}
  ELSE IF Child(value, segment) # {} THEN {[value EXCEPT !.items[segment.index + 1] = new]} ELSE {}

WithoutChild(value, segment) ==
  IF Child(value, segment) = {} THEN {}
  ELSE IF IsKey(segment) THEN {Object(Without(value.entries, {segment.key}))}
  ELSE {List(RemoveAt(value.items, segment.index + 1))}

(* Every parent on the way has to be there: a missing one makes the whole write answer false. *)
SetAt(value, path, new) ==
  LET Put(depth, below) ==
        {UNION {WithChild(parent, path[depth], child) : parent \in At(value, SubSeq(path, 1, depth - 1))} : child \in below}
  IN FoldRight(LAMBDA depth, below : UNION Put(depth, below), [depth \in DOMAIN path |-> depth], {new})

(* The value itself is not removed. *)
TakeAt(value, path) ==
  IF path = <<>> THEN {}
  ELSE UNION {SetAt(value, Front(path), rest) :
                rest \in UNION {WithoutChild(parent, Last(path)) : parent \in At(value, Front(path))}}
=============================================================================
