---------------------------- MODULE MCJudgedRead -----------------------------
(* JudgedRead for TLC: one type for each place a model or a brand may be held in, its members      *)
(* bounded, checked and corrected, and payloads that break each rule in each place, and none.      *)
EXTENDS JudgedRead

Order == <<"kind", "content", "whole", "named", "calm", "maybe", "a", "b", "c", "start", "end", "Ok", "Err">>

Option(of) == [t |-> "option", of |-> of]
ListOf(of) == [t |-> "list", of |-> of]
MapOf(of) == [t |-> "map", of |-> of]
Tuple(slots) == [t |-> "tuple", slots |-> slots]
RangeOf(of) == [t |-> "range", of |-> of]
Result(slots) == [t |-> "result", slots |-> slots]
Filled(of) == [t |-> "filled", of |-> of]

Written(at, ty, rules) == [at |-> at, ty |-> ty, bound |-> "bound" \in rules, check |-> "check" \in rules, pre |-> "pre" \in rules]
At_(key, ty, rules) == Written(<<Key(key)>>, ty, rules)
Nth(index, ty, rules) == Written(<<Index(index)>>, ty, rules)
Slot(ty, rules) == Written(<<>>, ty, rules)
Flat(ty) == Written(<<>>, ty, {})
Model(shape, members, rules) == [shape |-> shape, members |-> members, check |-> "check" \in rules, pre |-> "pre" \in rules]
Struct(members) == Model("struct", members, {})
Enum(shape, variants, rules) == [shape |-> shape, variants |-> variants, check |-> "check" \in rules, pre |-> "pre" \in rules]
Untagged(variants) == Enum("untagged", variants, {})
Named(called, shape, members) == [name |-> called, shape |-> shape, members |-> members]

Declared ==
  [Leaf   |-> Struct(<<At_("a", Plain, {"bound", "pre"}), At_("b", Option(Plain), {"check"})>>),
   Mark   |-> Model("brand", <<Slot(Plain, {"bound"})>>, {"check", "pre"}),
   Marks  |-> Model("brand", <<Slot(ListOf(Ref("Mark")), {"bound"})>>, {}),
   Count  |-> Model("slot", <<Slot(Plain, {"bound", "check", "pre"})>>, {}),
   Crate  |-> Struct(<<At_("a", ListOf(Ref("Leaf")), {"bound"}), At_("b", MapOf(Ref("Mark")), {})>>),
   Pair   |-> Struct(<<At_("a", Tuple(<<Ref("Mark"), Ref("Leaf")>>), {}), At_("b", Option(RangeOf(Ref("Count"))), {})>>),
   Either |-> Model("struct", <<At_("a", Result(<<Ref("Leaf"), Ref("Mark")>>), {}), At_("c", Option(Plain), {"check"})>>, {"check", "pre"}),
   Filling |-> Struct(<<At_("a", Filled(Ref("Mark")), {"pre"}), At_("b", ListOf(Filled(Ref("Leaf"))), {})>>),
   Joined |-> Model("struct", <<Flat(Ref("Leaf")), At_("c", Option(Ref("Marks")), {})>>, {"pre"}),
   Shelf  |-> Struct(<<At_("a", ListOf(Option(Ref("Pair"))), {}), At_("b", Ref("Picker"), {})>>),
   Picker |-> Untagged(<<[shape |-> "slot", members |-> <<Slot(Ref("Leaf"), {"pre"})>>],
                         [shape |-> "slot", members |-> <<Slot(Ref("Mark"), {})>>],
                         [shape |-> "struct", members |-> <<At_("c", ListOf(Ref("Mark")), {})>>],
                         [shape |-> "struct", members |-> <<At_("c", Plain, {"bound", "check"})>>],
                         [shape |-> "slot", members |-> <<Slot(Plain, {"check"})>>],
                         [shape |-> "struct", members |-> <<At_("c", ListOf(Plain), {})>>]>>),
   Bounded |-> Untagged(<<[shape |-> "struct", members |-> <<At_("a", ListOf(Ref("Leaf")), {"bound"})>>],
                          [shape |-> "struct", members |-> <<At_("a", ListOf(MapOf(Plain)), {})>>]>>),
   Twofold |-> Untagged(<<[shape |-> "slot", members |-> <<Slot(Tuple(<<Ref("Mark"), Plain>>), {})>>],
                          [shape |-> "slot", members |-> <<Slot(Tuple(<<Plain, Plain>>), {})>>]>>),
   Row    |-> Model("tuple", <<Nth(0, Ref("Mark"), {"pre"}), Nth(1, Option(Ref("Leaf")), {}), Nth(2, Plain, {"bound", "check"})>>, {"check"}),
   Posted |-> Enum("external", <<Named("whole", "slot", <<Slot(ListOf(Ref("Leaf")), {"bound"})>>),
                                 Named("named", "struct", <<At_("a", Ref("Mark"), {}), At_("b", Option(Ref("Row")), {})>>),
                                 Named("calm", "unit", <<>>),
                                 Named("maybe", "slot", <<Slot(Option(Plain), {"bound", "pre"})>>)>>, {"check", "pre"}),
   Lettered |-> Enum("internal", <<Named("whole", "slot", <<Slot(Ref("Leaf"), {"pre"})>>),
                                   Named("named", "struct", <<At_("a", ListOf(Ref("Mark")), {"bound"}), At_("c", Plain, {"check", "pre"})>>),
                                   Named("calm", "unit", <<>>)>>, {}),
   Sealed |-> Enum("adjacent", <<Named("whole", "slot", <<Slot(Ref("Mark"), {"pre"})>>),
                                 Named("named", "struct", <<At_("a", Ref("Posted"), {}), At_("b", Plain, {"bound"})>>),
                                 Named("calm", "unit", <<>>)>>, {"check"}),
   Nested |-> Struct(<<At_("a", Tuple(<<Tuple(<<Ref("Leaf"), Ref("Mark")>>), Ref("Mark")>>), {})>>)]

Absent == [kind |-> "absent"]
Present(entries) == Object([key \in {held \in DOMAIN entries : entries[held] # Absent} |-> entries[key]])
One(key, values) == {Present(key :> value) : value \in values}
Two(key, values, other, others) == {Present((key :> value) @@ (other :> held)) : value \in values, held \in others}
Lists(least, most, items) == {List(listed) : listed \in UNION {[1 .. n -> items] : n \in least .. most}}

Texts == {Text("ok"), Text("low"), Text("bad"), Text("raw")}
Atoms == Texts \cup {Number(1), Null}
Leaves == Two("a", Atoms \cup {Absent}, "b", {Text("ok"), Text("bad"), Null, Absent})
SomeLeaves == Two("a", {Text("ok"), Text("low"), Text("raw")}, "b", {Text("bad"), Absent}) \cup One("b", {Text("ok")})
Pairs == Two("a", Lists(2, 2, Texts \cup One("a", {Text("ok"), Text("low")})), 
             "b", {Null, Absent} \cup Two("start", {Text("ok"), Text("low")}, "end", {Text("raw"), Text("bad")}))
SomePairs == Two("a", {List(<<Text(t), Present("a" :> Text("low"))>>) : t \in {"ok", "bad"}},
                 "b", {Absent} \cup Two("start", {Text("low")}, "end", {Text("bad")}))
Picked == Atoms \cup SomeLeaves \cup One("c", Texts \cup Lists(0, 2, Texts \cup {Number(1)}))
SomePicked == {Text("low"), Text("bad"), Present("a" :> Text("low")),
               Present("c" :> List(<<Text("ok"), Text("bad")>>)), Present("c" :> List(<<Text("low")>>))}

Rows == {List(<<mark, leaf, text>>) : mark \in Texts, leaf \in SomeLeaves \cup {Null}, text \in Texts \ {Text("raw")}}
        \cup {List(<<Text("ok"), Null>>)}
SomeRows == {List(<<Text("low"), Present("b" :> Text("bad")), Text("ok")>>), List(<<Text("ok"), Null, Text("bad")>>)}
Posts == {Text("calm"), Text("maybe"), Present(("calm" :> Null) @@ ("maybe" :> Null))}
         \cup One("whole", Lists(0, 2, SomeLeaves)) \cup One("calm", {Null, Text("ok")}) \cup One("maybe", Atoms)
         \cup One("named", Two("a", Texts, "b", {Absent, Null} \cup SomeRows))
SomePosts == {Text("calm")} \cup One("whole", {List(<<leaf>>) : leaf \in SomeLeaves}) \cup One("maybe", {Text("low"), Text("raw")})
Tagged(called, beside) == {Object(("kind" :> Text(called)) @@ object.entries) : object \in beside}
Content(called, contents) == Tagged(called, One("content", contents))

Given ==
  [Leaf |-> Leaves \cup {Text("ok")},
   Mark |-> Atoms,
   Marks |-> Lists(0, 2, Atoms),
   Count |-> Atoms,
   Crate |-> Two("a", Lists(0, 2, SomeLeaves), "b", {Present(<<>>)} \cup Two("a", Texts, "b", {Text("low"), Absent}) \cup One("c", {Number(1)})),
   Pair |-> Pairs,
   Either |-> Two("a", One("Ok", SomeLeaves) \cup One("Err", Texts), "c", Texts \cup {Absent}) \cup One("c", {Text("ok")}),
   Filling |-> Two("a", Texts, "b", Lists(0, 2, SomeLeaves)),
   Joined |-> {Present(leaf.entries @@ joined.entries) : leaf \in Leaves, joined \in One("c", {Absent, Null} \cup Lists(0, 2, Texts))},
   Shelf |-> Two("a", Lists(0, 2, {Null} \cup SomePairs), "b", SomePicked),
   Picker |-> Picked,
   Bounded |-> One("a", Lists(0, 2, SomeLeaves)),
   Twofold |-> Lists(1, 2, Texts),
   Row |-> Rows,
   Posted |-> Posts,
   Lettered |-> Tagged("whole", Leaves) \cup Tagged("named", Two("a", Lists(0, 2, Texts), "c", Texts))
               \cup Tagged("calm", {Object(<<>>)}) \cup Leaves,
   Sealed |-> Content("whole", Atoms) \cup Content("calm", {Null, Absent}) \cup Content("named", Two("a", SomePosts, "b", Texts \cup {Absent})),
   Nested |-> One("a", {List(<<List(<<leaf, mark>>), other>>) : leaf \in SomeLeaves, mark \in Texts, other \in Texts})]

(* The declared models and what their members are written over, to the depth of three. *)
Nested(types) == types \cup UNION {Over(ty) : ty \in types}
AllTypes == Nested(Nested(Nested({Ref(called) : called \in DOMAIN Declared} \cup UNION {{member.ty : member \in MembersOf(Declared[called])} : called \in DOMAIN Declared})))
DepthOf[ty \in AllTypes] ==
  LET beneath == {DepthOf[of] : of \in Within(ty)} IN IF beneath = {} THEN 0 ELSE 1 + Max(beneath)

(* Each definition calls itself of the types below. Where TLC lists how often each expression is     *)
(* evaluated (-coverage), it follows a parameter into the operator it is bound to, without end; it   *)
(* does not follow it into a LET.                                                                  *)
BrokenInAgain(ty, value) == LET below == BrokenIn(ty, value) IN below
WalksAgain(ty) == LET below == Walks(ty) IN below
HeldSaysAgain(ty, value) == LET below == HeldSays(ty, value) IN below
ReadAsAgain(ty, json, how) == LET below == ReadAs(ty, json, how) IN below
HeldElementsAgain(ty, value, asked) == LET below == HeldElements(ty, value, asked) IN below
DecodeExprAgain(ty, json, read) == LET below == DecodeExpr(ty, json, read) IN below
ReachesAgain(ty) == LET below == Reaches(ty) IN below
HeldWalkAgain(walk, ty, value) == LET below == HeldWalk(walk, ty, value) IN below
ReadAgain(ty, json, unjudged) == LET below == Read(ty, json, unjudged) IN below
HeldStatementsAgain(ty, value, asked) == LET below == HeldStatements(ty, value, asked) IN below
InnermostAgain(ty) == LET below == Innermost(ty) IN below
HoldsAnUnjudgedAgain(ty) == LET below == HoldsAnUnjudged(ty) IN below
DecodedAgain(ty, json, unjudged) == LET below == Decoded(ty, json, unjudged) IN below
=============================================================================
