------------------------------ MODULE SerdeForms -----------------------------
(* What serde's derive makes of a declared type: the form it writes back what it read of a raw    *)
(* value in (Forms, the empty set where it refuses the value). The recovering decode calls it and *)
(* it is no code of this repository: the walk of TypedWalk is what is set beside it.              *)
(*                                                                                               *)
(* A type is a record: "string", "u64", "lenient" (a hook that reads a number from its digits too *)
(* and writes the number), "whole" (a hook that reads what it holds), "option", "list", "map",    *)
(* "tuple", "result", "struct" (named fields, flattened structs, a flattened map of the rest),    *)
(* "slots" (a tuple struct) and "enum". A struct that names a preprocess corrects what it reads.  *)
EXTENDS RawValues

CONSTANT Numerals      \* the texts that are digits, each with its number

(* A definition that calls itself takes the call as a parameter: Below is what the same definition *)
(* answers of the types below.                                                                    *)
CONSTANTS SoundBelow(_), FormsBelow(_, _)

String == [t |-> "string"]
U64 == [t |-> "u64"]
Lenient == [t |-> "lenient"]
Digits(value) == value.kind = "text" /\ value.text \in DOMAIN Numerals

Names(field) == {field.key} \union ToSet(field.aliases)
OwnKeys(fields) == UNION {Names(fields[i]) : i \in DOMAIN fields}
AbsenceIsRead(field) == field.absent \/ field.ty.t = "option"
FieldAt(fields, key) == CHOOSE field \in ToSet(fields) : field.key = key
Stored(field, entries) == Names(field) \intersect DOMAIN entries

(* What the functions a struct names in `preprocess` make of a value: here one moves what an      *)
(* older build stored under `old` to the struct's first key, where that holds nothing.            *)
Corrected(ty, value) ==
  IF ty.t = "struct" /\ ty.corrects /\ value.kind = "object"
     /\ "old" \in DOMAIN value.entries /\ ty.fields[1].key \notin DOMAIN value.entries
  THEN Object((ty.fields[1].key :> value.entries["old"]) @@ Without(value.entries, {"old"}))
  ELSE value
Bare(ty) == IF ty.t = "struct" THEN [ty EXCEPT !.corrects = FALSE] ELSE ty

(* What is left of an object for the i-th flattened struct, and after the last for the map. *)
HandedOn(ty, entries, i) ==
  Without(entries, OwnKeys(ty.fields) \union UNION {OwnKeys(ty.flat[j].fields) : j \in 1 .. i - 1})

Tags(variant) == ToSet(variant.tags)
Named(ty, tag) == {i \in DOMAIN ty.variants : tag \in Tags(ty.variants[i])}
TagOf(value) == IF value.kind = "text" THEN {value.text} ELSE {}
NamedBy(ty, tag) == UNION {Named(ty, text) : text \in TagOf(tag)}

TaggedAs(ty, entries) == IF ty.tag \in DOMAIN entries THEN NamedBy(ty, entries[ty.tag]) ELSE {}

(* What is written of a variant: its tag, beside, over or around the form of what it holds. *)
Written(ty, variant, form) ==
  LET tag == Head(variant.tags)
      unit == variant.content.shape = "unit"
  IN CASE ty.tagging = "untagged" -> form
       [] ty.tagging = "internal" -> Object((ty.tag :> Text(tag)) @@ IF unit THEN <<>> ELSE form.entries)
       [] ty.tagging = "adjacent" -> Object((ty.tag :> Text(tag)) @@ IF unit THEN <<>> ELSE ty.under :> form)
       [] OTHER -> IF unit THEN Text(tag) ELSE Object(tag :> form)

SoundFields(fields) == [key \in {fields[i].key : i \in DOMAIN fields} |-> SoundBelow(FieldAt(fields, key).ty)]
SoundContent(content) == IF content.shape = "unit" THEN Null ELSE SoundBelow(content.ty)

(* One value of a type as it is written, with every bound and every check kept. *)
Sound(ty) ==
  CASE ty.t \in {"string", "untold"} -> Text("a")
    [] ty.t \in {"u64", "lenient"} -> Number(7)
    [] ty.t \in {"whole", "option"} -> SoundBelow(ty.of)
    [] ty.t = "list" -> List(<<SoundBelow(ty.of)>>)
    [] ty.t = "map" -> Object(<<>>)
    [] ty.t \in {"tuple", "slots"} -> List([i \in DOMAIN ty.slots |-> SoundBelow(ty.slots[i].ty)])
    [] ty.t = "result" -> Object("Ok" :> SoundBelow(ty.arms["Ok"]))
    [] ty.t = "struct" -> Object(FoldLeft(LAMBDA entries, inner : SoundFields(inner.fields) @@ entries, SoundFields(ty.fields), ty.flat))
    [] ty.t = "enum" -> Written(ty, ty.variants[1], SoundContent(ty.variants[1].content))
    [] ty.t = "variants" -> Text(Head(ty.tags))

FormsOfFields(fields, entries) ==
  LET Held(field, stored) ==
        IF stored = {} THEN IF field.absent THEN {SoundBelow(field.ty)} ELSE IF AbsenceIsRead(field) THEN {Null} ELSE {}
        ELSE IF Cardinality(stored) > 1 THEN {} ELSE UNION {FormsBelow(field.ty, entries[key]) : key \in stored}
      Of(field) == Held(field, Stored(field, entries))
  IN Together([key \in {fields[i].key : i \in DOMAIN fields} |-> Of(FieldAt(fields, key))])

(* One item for each place of a list: one that is absent has its default, and none is left over. *)
FormsOfItems(slots, value) ==
  LET Held(i) == IF i <= Len(value.items) THEN FormsBelow(slots[i].ty, value.items[i])
                 ELSE IF slots[i].absent THEN {SoundBelow(slots[i].ty)} ELSE {}
  IN IF value.kind # "list" \/ (value.kind = "list" => Len(value.items) > Len(slots)) THEN {}
     ELSE Together([i \in DOMAIN slots |-> Held(i)])

FormsOfEntries(of, entries) == Together([key \in DOMAIN entries |-> FormsBelow(of, entries[key])])

(* The fields, then each flattened struct and the map in what is left for them; or, for a struct  *)
(* that flattens nothing, the fields in their order.                                              *)
FormsOfStruct(ty, value) ==
  LET Parts(entries) ==
        <<FormsOfFields(ty.fields, entries)>>
        \o [i \in DOMAIN ty.flat |-> FormsOfFields(ty.flat[i].fields, HandedOn(ty, entries, i))]
        \o [i \in 1 .. Cardinality(ty.rest) |-> FormsOfEntries(CHOOSE of \in ty.rest : TRUE, HandedOn(ty, entries, Len(ty.flat) + 1))]
      InOrder(items) == [key \in {ty.fields[i].key : i \in DOMAIN ty.fields} |-> items[CHOOSE i \in DOMAIN ty.fields : ty.fields[i].key = key]]
  IN CASE value.kind = "object" ->
            {Object(FoldLeft(LAMBDA entries, part : entries @@ part, <<>>, parts)) : parts \in Together(Parts(value.entries))}
       [] value.kind = "list" /\ ty.flat = <<>> /\ ty.rest = {} -> {Object(InOrder(items)) : items \in FormsOfItems(ty.fields, value)}
       [] OTHER -> {}

(* The named fields of a variant are read from an object alone, never from a list. *)
FormsOfContent(content, held) ==
  IF content.shape = "unit" THEN IF held = Null THEN {Null} ELSE {}
  ELSE IF content.shape = "fields" /\ held.kind # "object" THEN {} ELSE FormsBelow(content.ty, held)

(* The variant an untagged enum's value is read as: the first that reads it. *)
PickedOf(ty, value) ==
  LET reading == {i \in DOMAIN ty.variants : FormsOfContent(ty.variants[i].content, value) # {}}
  IN {i \in reading : \A j \in reading : i <= j}

(* The form of what a variant holds, in a value that names it. *)
FormsOfVariant(ty, content, value) ==
  LET unit == content.shape = "unit"
  IN CASE ty.tagging = "untagged" -> FormsOfContent(content, value)
       [] ty.tagging = "internal" -> IF unit THEN {Null} ELSE FormsBelow(content.ty, Object(Without(value.entries, {ty.tag})))
       [] ty.tagging = "adjacent" -> IF ty.under \in DOMAIN value.entries THEN FormsOfContent(content, value.entries[ty.under])
                                     ELSE IF unit \/ (content.shape = "held" /\ content.ty.t = "option") THEN {Null} ELSE {}
       [] OTHER -> IF value.kind = "text" THEN IF unit THEN {Null} ELSE {}
                   ELSE UNION {FormsOfContent(content, value.entries[key]) : key \in DOMAIN value.entries}

(* The variants a value names: by its one text or its one key, by its tag, or by being read as it. *)
VariantNamed(ty, value) ==
  CASE ty.tagging = "untagged" -> PickedOf(ty, value)
    [] ty.tagging \in {"internal", "adjacent"} -> IF value.kind = "object" THEN TaggedAs(ty, value.entries) ELSE {}
    [] OTHER -> NamedBy(ty, value) \union IF value.kind # "object" THEN {}
                                          ELSE UNION {Named(ty, key) : key \in {k \in DOMAIN value.entries : DOMAIN value.entries = {k}}}

Forms(ty, value) ==
  CASE ty.t = "string" -> IF value.kind = "text" THEN {value} ELSE {}
    [] ty.t = "u64" -> IF value.kind = "number" THEN {value} ELSE {}
    [] ty.t = "lenient" -> IF value.kind = "number" THEN {value} ELSE IF Digits(value) THEN {Number(Numerals[value.text])} ELSE {}
    [] ty.t = "whole" -> FormsBelow(ty.of, value)
    [] ty.t = "option" -> IF value = Null THEN {Null} ELSE FormsBelow(ty.of, value)
    [] ty.t = "list" -> IF value.kind # "list" THEN {} ELSE {List(items) : items \in Together([i \in DOMAIN value.items |-> FormsBelow(ty.of, value.items[i])])}
    [] ty.t = "map" -> IF value.kind # "object" THEN {} ELSE {Object(entries) : entries \in FormsOfEntries(ty.of, value.entries)}
    [] ty.t \in {"tuple", "slots"} -> {List(items) : items \in FormsOfItems(ty.slots, value)}
    [] ty.t = "result" -> IF value.kind # "object" THEN {}
                          ELSE UNION {{Object(arm :> form) : form \in FormsBelow(ty.arms[arm], value.entries[arm])} :
                                        arm \in {arm \in {"Ok", "Err"} : DOMAIN value.entries = {arm}}}
    [] ty.t = "struct" -> FormsOfStruct(Bare(ty), Corrected(ty, value))
    [] ty.t = "enum" -> UNION {{Written(ty, ty.variants[i], form) : form \in FormsOfVariant(ty, ty.variants[i].content, value)} : i \in VariantNamed(ty, value)}

Reads(ty, value) == Forms(ty, value) # {}
=============================================================================
