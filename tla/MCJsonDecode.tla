---------------------------- MODULE MCJsonDecode -----------------------------
(* One flagged type for each shape the walker walks, and the raw values a store may hold for it:  *)
(* every combination of what each of its places may hold.                                        *)
EXTENDS JsonDecode

MCNumerals == "7" :> 7
MCKeyOrder == <<"Err", "Ok", "a", "b", "c", "content", "extra", "k", "n", "nm", "old", "tag">>

Opt(ty) == [t |-> "option", of |-> ty]
Many(ty) == [t |-> "list", of |-> ty]
MapOf(ty) == [t |-> "map", of |-> ty]
Whole(ty) == [t |-> "whole", of |-> ty]
Slot(ty) == [ty |-> ty, absent |-> FALSE, bound |-> "none"]
Tuple(types) == [t |-> "tuple", slots |-> [i \in DOMAIN types |-> Slot(types[i])]]
Slots(types) == [t |-> "slots", slots |-> [i \in DOMAIN types |-> Slot(types[i])]]
Field(key, ty) == [key |-> key, aliases |-> <<>>, ty |-> ty, absent |-> FALSE, bound |-> "none", check |-> FALSE]
Filled(field) == [field EXCEPT !.bound = "filled"]
Defaulted(field) == [field EXCEPT !.absent = TRUE]
CheckedText(field) == [field EXCEPT !.check = TRUE]
Alias(field, alias) == [field EXCEPT !.aliases = <<alias>>]
Struct(fields) == [t |-> "struct", fields |-> fields, flat |-> <<>>, rest |-> {}, corrects |-> FALSE]
Variant(tag, content) == [tags |-> <<tag>>, content |-> content]
UnitOf == [shape |-> "unit"]
Holds(ty) == [shape |-> "held", ty |-> ty, bound |-> "none"]
Inside(fields) == [shape |-> "fields", ty |-> Struct(fields)]
Enum(tagging, variants) == [t |-> "enum", tagging |-> tagging, variants |-> variants, tag |-> "tag", under |-> "content"]

Version == Struct(<<Field("n", U64)>>)
Name == Struct(<<Filled(CheckedText(Field("n", String)))>>)
Plain1 == Enum("plain", <<Variant("a", UnitOf), Variant("b", UnitOf)>>)

MCTypes ==
  [ Ids |-> Struct(<<Field("a", U64), Field("b", Opt(U64)), Field("c", Whole(Many(U64)))>>),
    Label |-> Struct(<<Filled(CheckedText(Alias(Field("n", String), "nm"))), Defaulted(Field("b", Lenient))>>),
    Record |-> Struct(<<Field("a", Many(Version)), Field("b", Opt(Version))>>),
    Held |-> Struct(<<Field("a", MapOf(Name)), Filled(Field("b", Many(Lenient)))>>),
    Pairs |-> Struct(<<Field("a", Tuple(<<U64, Opt(String)>>)), Field("b", [t |-> "result", arms |-> [Ok |-> U64, Err |-> Plain1]])>>),
    Flat |-> [Struct(<<Field("a", U64)>>) EXCEPT !.flat = <<Version, Struct(<<Alias(Field("k", Opt(String)), "n")>>)>>],
    Rest |-> [Struct(<<Field("a", U64)>>) EXCEPT !.flat = <<Version>>, !.rest = {U64}],
    Moved |-> [Version EXCEPT !.corrects = TRUE],
    HoldsMoved |-> Struct(<<Field("a", [Version EXCEPT !.corrects = TRUE])>>),
    Position |-> Slots(<<U64, Version>>),
    Choice |-> Plain1,
    External |-> Enum("external", <<Variant("a", UnitOf), Variant("b", Inside(<<Field("n", U64)>>)), Variant("c", Holds(Lenient))>>),
    Internal |-> Enum("internal", <<Variant("a", UnitOf), Variant("b", Inside(<<Field("n", U64)>>)), Variant("c", Holds(Version))>>),
    Adjacent |-> Enum("adjacent", <<Variant("a", UnitOf), Variant("b", Inside(<<Field("n", U64)>>)), Variant("c", Holds(Opt(Version)))>>),
    Untagged |-> Enum("untagged", <<Variant("A", Holds(Version)), Variant("B", Inside(<<Field("k", String)>>)), Variant("C", Holds(Many(Lenient)))>>) ]

(* What one place of a type may hold. *)
Strange == {Null, Text("a"), Number(7)}
RECURSIVE MayHold(_)
Objects(fields, extra) ==
  LET keys == SetToSeq(UNION {Names(fields[i]) : i \in DOMAIN fields} \union extra)
      Of(key) == LET own == {i \in DOMAIN fields : key \in Names(fields[i])}
                 IN IF own = {} THEN {Number(7), Text(IF key = "old" THEN "a" ELSE "7")} ELSE UNION {MayHold(fields[i].ty) : i \in own}
      With(entries, key) == entries \union {(key :> held) @@ one : held \in Of(key), one \in entries}
  IN {Object(entries) : entries \in FoldLeft(With, {<<>>}, keys)}
EveryField(ty) == FoldLeft(LAMBDA fields, inner : fields \o inner.fields, ty.fields, ty.flat)
Contents(ty) == UNION {IF ty.variants[i].content.shape = "unit" THEN {} ELSE MayHold(ty.variants[i].content.ty) : i \in DOMAIN ty.variants}
TagTexts(ty) == UNION {Tags(ty.variants[i]) : i \in DOMAIN ty.variants}

MayHold(ty) ==
  CASE ty.t = "string" -> {Text("a"), Text(""), Text("bad"), Number(7)}
    [] ty.t \in {"u64", "lenient"} -> {Number(7), Text("7"), Text("a")}
    [] ty.t = "whole" -> MayHold(ty.of)
    [] ty.t = "option" -> {Null} \union MayHold(ty.of)
    [] ty.t = "list" -> {Null, List(<<>>)} \union {List(<<Sound(ty.of), one>>) : one \in MayHold(ty.of)}
    [] ty.t = "map" -> {Null, Object(<<>>)} \union {Object("k" :> one) : one \in MayHold(ty.of)}
    [] ty.t \in {"tuple", "slots"} -> {Null, List(<<>>), List(<<Number(7), Null, Number(7), Text("a")>>)}
                                      \union {List(<<one, two>>) : one \in MayHold(ty.slots[1].ty), two \in MayHold(ty.slots[2].ty)}
    [] ty.t = "result" -> {Null, Object(<<>>)} \union UNION {{Object(arm :> one) : one \in MayHold(ty.arms[arm])} : arm \in {"Ok", "Err"}}
    [] ty.t = "struct" -> Objects(EveryField(ty), {"extra"} \union IF ty.corrects THEN {"old"} ELSE {})
                          \union {Text("a"), List(<<Number(7)>>)}
    [] ty.t = "enum" /\ ty.tagging \in {"plain", "external"} ->
         {Text(tag) : tag \in TagTexts(ty) \union {"k"}} \union {Object("a" :> Null), Object(<<>>)}
         \union {Object(tag :> held) : tag \in TagTexts(ty) \union {"k"}, held \in Contents(ty)}
    [] ty.t = "enum" /\ ty.tagging = "internal" ->
         Strange \union Contents(ty)
         \union {Object(("tag" :> tag) @@ inner.entries) : tag \in {Text(t) : t \in TagTexts(ty)} \union {Number(7)}, inner \in {c \in Contents(ty) : c.kind = "object"}}
    [] ty.t = "enum" /\ ty.tagging = "adjacent" ->
         Strange \union {Object("tag" :> Text(tag)) : tag \in TagTexts(ty)}
         \union {Object("content" :> held) : held \in Contents(ty)}
         \union {Object(("tag" :> tag) @@ ("content" :> held)) : tag \in {Text(t) : t \in TagTexts(ty)} \union {Number(7)}, held \in Contents(ty)}
    [] ty.t = "enum" /\ ty.tagging = "untagged" -> Contents(ty) \union Strange

(* Values with an issue of three kinds, for callbacks and resolvers that do anything. *)
Troubled ==
  {<<"Label", Object(("n" :> Number(7)) @@ ("b" :> Text("a")) @@ ("extra" :> Null))>>,
   <<"Rest", Object(("a" :> Text("a")) @@ ("k" :> Text("a")))>>,
   <<"Flat", Object(("a" :> Number(7)) @@ ("n" :> Text("7")) @@ ("extra" :> Null))>>}

MCCalls ==
  UNION {{[type |-> name, raw |-> held, entry |-> entry, resolvers |-> 1, manner |-> "honest"] :
            held \in MayHold(MCTypes[name]), entry \in {"with", "piped"}} : name \in DOMAIN MCTypes}
  \union {[type |-> one[1], raw |-> one[2], entry |-> entry, resolvers |-> 2, manner |-> "any"] :
            one \in Troubled, entry \in {"with", "piped"}}

(* The types, and what they are written over, to the depth of four. *)
Nested(types) == types \union UNION {Beneath(ty) : ty \in types}
MCAllTypes == Nested(Nested(Nested(Nested({Bare(MCTypes[name]) : name \in DOMAIN MCTypes}))))
MCDepth[ty \in MCAllTypes] ==
  LET beneath == {MCDepth[of] : of \in Beneath(ty)} IN IF beneath = {} THEN 0 ELSE 1 + Max(beneath)

(* Each definition calls itself of the types below. Where TLC lists how often each expression is     *)
(* evaluated (-coverage), it follows a parameter into the operator it is bound to, without end; it   *)
(* does not follow it into a LET.                                                                  *)
SoundAgain(ty) == LET below == Sound(ty) IN below
FormsAgain(ty, value) == LET below == Forms(ty, value) IN below
ReadsWholeAgain(ty) == LET below == ReadsWhole(ty) IN below
ClaimedAgain(ty, entries) == LET below == Claimed(ty, entries) IN below
ArmsAgain(ty, reported, value, path, bound) == LET below == Arms(ty, reported, value, path, bound) IN below
FieldsAgain(ty, entries, path) == LET below == Fields(ty, entries, path) IN below
ComplaintsAgain(ty, form, place) == LET below == Complaints(ty, form, place) IN below
DigitsAsNumbersAgain(ty, value) == LET below == DigitsAsNumbers(ty, value) IN below
KeptInAgain(value, form) == LET below == KeptIn(value, form) IN below
LawfulAgain(ty, form) == LET below == Lawful(ty, form) IN below
HoldsCorrectedAgain(ty) == LET below == HoldsCorrected(ty) IN below
=============================================================================
