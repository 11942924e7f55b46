------------------------------ MODULE TypedWalk ------------------------------
(* The walker the recovering decode generates for a flagged type: every issue of a raw value read *)
(* as that type, in the order the walk meets them, each at the path a repair would write to. With *)
(* it what turns the checks of a read value into issues, and what a `u64` an older build wrote as *)
(* its digits is rewritten to before anyone is asked. A path is the model's; reasons, and the     *)
(* lists inside a NoVariant, are left out.                                                        *)
EXTENDS SerdeForms, TLC

CONSTANTS ReadsWholeBelow(_), ClaimedBelow(_, _), ArmsBelow(_, _, _, _, _), FieldsBelow(_, _, _),
          ComplaintsBelow(_, _, _), DigitsAsNumbersBelow(_, _)

Issue(kind, path, expected, found) == [kind |-> kind, path |-> path, expected |-> expected, found |-> found, by |-> "walk"]
Invalid(path, expected, held) == <<Issue("Invalid", path, expected, {held})>>
Mistyped(path, expected, held) == <<Issue("Mistyped", path, expected, {held})>>
Missing(path, expected) == <<Issue("Missing", path, expected, {})>>
Unknown(path, held) == <<Issue("Unknown", path, [t |-> "none"], {held})>>
Undescribed == <<Issue("Undescribed", <<>>, [t |-> "none"], {})>>
Under(path, key) == Append(path, Key(key))

(* One value read whole: serde's refusal, or a form the type does not write. *)
LeafOf(forms, expected, held, path) ==
  IF forms = {} THEN Invalid(path, expected, held)
  ELSE IF \A form \in forms : form.kind # held.kind THEN Mistyped(path, expected, held) ELSE <<>>
Leaf(ty, expected, held, path) == LeafOf(Forms(ty, held), expected, held, path)

Broken(bound, form) == bound = "filled" /\ form \in {Text(""), List(<<>>)}

(* The bound a field declares is no part of serde's read: a value that reads is held to it here. *)
Bounded(bound, ty, held, path) ==
  IF \E form \in Forms(ty, held) : Broken(bound, form) THEN Invalid(path, ty, held) ELSE <<>>

ReadsWhole(ty) == ty.t \in {"string", "u64", "lenient", "whole"} \/ (ty.t = "option" /\ ReadsWholeBelow(ty.of))
IsModel(ty) == ty.t \in {"struct", "slots", "enum"}
Variants(ty) == [t |-> "variants", tags |-> FlattenSeq([i \in DOMAIN ty.variants |-> ty.variants[i].tags])]
Unclaimed(entries, claimed, path) ==
  LET keys == Listed(Without(entries, claimed))
  IN FlattenSeq([i \in DOMAIN keys |-> Unknown(Under(path, keys[i]), entries[keys[i]])])

(* Mutant: an issue is listed at the name the field is declared under, and not where it is stored. *)
LookedUpAtItsName(field, entries, path) ==
  LET names == <<field.key>> \o field.aliases
      stored == {i \in DOMAIN names : names[i] \in DOMAIN entries}
  IN IF stored # {} THEN ArmsBelow(field.ty, field.ty, entries[names[Min(stored)]], Under(path, field.key), field.bound)
     ELSE IF AbsenceIsRead(field) THEN <<>> ELSE Missing(Under(path, field.key), field.ty)

(* A key is looked up under its name and then every alias, and its absence is an issue where      *)
(* serde does not read it.                                                                        *)
LookedUp(field, entries, path) ==
  LET names == <<field.key>> \o field.aliases
      stored == {i \in DOMAIN names : names[i] \in DOMAIN entries}
      name == names[Min(stored)]
  IN IF stored # {} THEN ArmsBelow(field.ty, field.ty, entries[name], Under(path, name), field.bound)
     ELSE IF AbsenceIsRead(field) THEN <<>> ELSE Missing(Under(path, field.key), field.ty)

Positions(slots, items, path) ==
  LET At1(i) == Append(path, Index(i - 1))
  IN FlattenSeq([i \in DOMAIN slots |->
        IF i <= Len(items) THEN ArmsBelow(slots[i].ty, slots[i].ty, items[i], At1(i), slots[i].bound)
        ELSE IF slots[i].absent THEN <<>> ELSE Missing(At1(i), slots[i].ty)])
     \o FlattenSeq([i \in 1 .. Len(items) - Len(slots) |-> Unknown(At1(Len(slots) + i), items[Len(slots) + i])])

EntriesWalk(of, entries, claimed, path) ==
  LET keys == Listed(Without(entries, claimed))
  IN FlattenSeq([i \in DOMAIN keys |-> ArmsBelow(of, of, entries[keys[i]], Under(path, keys[i]), "none")])

OwnIssues(fields, entries, path) == FlattenSeq([i \in DOMAIN fields |-> LookedUp(fields[i], entries, path)])

(* The keys of an object that are the struct's own: every one where a flattened map takes the     *)
(* rest.                                                                                          *)
Declares(ty, tag, entries) ==
  OwnKeys(ty.fields) \union tag \union UNION {ClaimedBelow(ty.flat[i], Without(HandedOn(ty, entries, i), tag)) : i \in DOMAIN ty.flat}
ClaimedKeys(ty, tag, entries) == IF ty.rest # {} THEN DOMAIN entries ELSE Declares(ty, tag, entries)

(* The fields, then each flattened struct in what serde hands it, then the flattened map over the *)
(* keys nothing else declares.                                                                    *)
Keyed(ty, tag, entries, path) ==
  OwnIssues(ty.fields, entries, path)
  \o FlattenSeq([i \in DOMAIN ty.flat |-> FieldsBelow(ty.flat[i], Without(HandedOn(ty, entries, i), tag), path)])
  \o FlattenSeq([i \in 1 .. Cardinality(ty.rest) |-> EntriesWalk(CHOOSE of \in ty.rest : TRUE, entries, Declares(ty, tag, entries), path)])

(* The content of an external or adjacent variant. Named fields held in any form but an object    *)
(* list nothing, and the read carries serde's refusal alone.                                      *)
ContentArms(content, held, path) ==
  CASE content.shape = "fields" -> IF held.kind # "object" THEN <<>>
                                   ELSE Keyed(content.ty, {}, held.entries, path)
                                        \o Unclaimed(held.entries, ClaimedKeys(content.ty, {}, held.entries), path)
    [] content.shape = "held" -> ArmsBelow(content.ty, content.ty, held, path, content.bound)
    [] content.shape = "slots" -> IF held.kind # "list" THEN Invalid(path, content.ty, held)
                                  ELSE Positions(content.ty.slots, held.items, path)
    [] content.shape = "unit" -> <<>>

(* A tag that is absent, or names no variant. *)
TagIssues(ty, entries, path) ==
  LET at == Under(path, ty.tag)
  IN IF ty.tag \notin DOMAIN entries THEN Missing(at, Variants(ty))
     ELSE IF Reads(ty, Object(entries)) THEN Mistyped(at, Variants(ty), entries[ty.tag])
     ELSE Invalid(at, Variants(ty), entries[ty.tag])

ContentNamed(ty, entries) == ty.variants[CHOOSE i \in TaggedAs(ty, entries) : TRUE].content

InternalFields(ty, content, entries, path) ==
  CASE content.shape = "fields" -> Keyed(content.ty, {ty.tag}, entries, path)
    [] content.shape = "held" -> FieldsBelow(content.ty, Without(entries, {ty.tag}), path)
    [] content.shape = "unit" -> <<>>

(* A content's key may be absent where serde reads its absence: under one optional value. *)
AdjacentFields(ty, content, entries, path) ==
  IF content.shape = "unit" THEN <<>>
  ELSE IF ty.under \in DOMAIN entries THEN ContentArms(content, entries[ty.under], Under(path, ty.under))
  ELSE IF content.shape = "held" /\ content.ty.t = "option" THEN <<>> ELSE Missing(Under(path, ty.under), content.ty)

(* The fields of a type inside an object it does not hold alone. A struct with a preprocess walks *)
(* its corrected copy, and the keys its functions took out are its own.                           *)
Fields(ty, entries, path) ==
  CASE ty.t = "struct" -> Keyed(ty, {}, Corrected(ty, Object(entries)).entries, path)
    [] ty.t = "enum" /\ TaggedAs(ty, entries) = {} -> TagIssues(ty, entries, path)
    [] ty.t = "enum" /\ TaggedAs(ty, entries) # {} ->
         IF ty.tagging = "internal" THEN InternalFields(ty, ContentNamed(ty, entries), entries, path)
         ELSE AdjacentFields(ty, ContentNamed(ty, entries), entries, path)

(* The keys of such an object that are the type's own. *)
ClaimedInternal(ty, content, entries) ==
  CASE content.shape = "fields" -> ClaimedKeys(content.ty, {ty.tag}, entries)
    [] content.shape = "held" -> {ty.tag} \union ClaimedBelow(content.ty, Without(entries, {ty.tag}))
    [] content.shape = "unit" -> {ty.tag}
ClaimedCorrected(ty, entries, corrected) ==
  {key \in DOMAIN entries : key \notin DOMAIN corrected \/ key \in ClaimedKeys(ty, {}, corrected)}

Claimed(ty, entries) ==
  CASE ty.t = "struct" /\ ~ty.corrects -> ClaimedKeys(ty, {}, entries)
    [] ty.t = "struct" /\ ty.corrects -> ClaimedCorrected(ty, entries, Corrected(ty, Object(entries)).entries)
    [] ty.t = "enum" /\ ty.tagging = "adjacent" -> {ty.tag, ty.under}
    [] ty.t = "enum" /\ ty.tagging = "internal" ->
         IF TaggedAs(ty, entries) = {} THEN DOMAIN entries ELSE ClaimedInternal(ty, ContentNamed(ty, entries), entries)

(* Mutant: the keys nothing declares are passed over. *)
ObjectIssuesOfFields(ty, value, path) ==
  IF value.kind # "object" THEN Leaf(ty, ty, value, path) ELSE Fields(ty, value.entries, path)

ObjectIssues(ty, value, path) ==
  IF value.kind # "object" THEN Leaf(ty, ty, value, path)
  ELSE Fields(ty, value.entries, path) \o Unclaimed(value.entries, Claimed(ty, value.entries), path)

(* A unit variant's tag as text, or one key naming a variant over what it holds. *)
ExternalIssues(ty, value, path) ==
  LET Unit(i) == ty.variants[i].content.shape = "unit"
      keys == IF value.kind = "object" THEN DOMAIN value.entries ELSE {}
      holding == UNION {{i \in Named(ty, key) : ~Unit(i)} : key \in keys}
  IN IF \E i \in NamedBy(ty, value) : Unit(i) THEN <<>>
     ELSE IF Cardinality(keys) = 1 /\ holding # {}
     THEN LET key == CHOOSE k \in keys : TRUE
          IN ContentArms(ty.variants[CHOOSE i \in holding : TRUE].content, value.entries[key], Under(path, key))
     ELSE Leaf(ty, Variants(ty), value, path)

VariantIssues(ty, content, value, path) ==
  CASE content.shape = "unit" -> Leaf(ty, ty, value, path)
    [] content.shape = "fields" -> IF value.kind = "object" THEN ContentArms(content, value, path) ELSE Leaf(ty, ty, value, path)
    [] OTHER -> ContentArms(content, value, path)

(* The walk of the variant serde reads the value as, or one issue where it reads it as none. *)
UntaggedIssues(ty, value, path) ==
  LET picked == PickedOf(ty, value)
  IN IF picked = {} THEN <<Issue("NoVariant", path, ty, {value})>>
     ELSE VariantIssues(ty, ty.variants[CHOOSE i \in picked : TRUE].content, value, path)

ModelIssues(ty, value, path) ==
  CASE ty.t = "struct" -> ObjectIssues(Bare(ty), Corrected(ty, value), path)
    [] ty.t = "slots" -> IF value.kind = "list" THEN Positions(ty.slots, value.items, path) ELSE Leaf(ty, ty, value, path)
    [] ty.t = "enum" /\ ty.tagging = "plain" -> Leaf(ty, ty, value, path)
    [] ty.t = "enum" /\ ty.tagging = "external" -> ExternalIssues(ty, value, path)
    [] ty.t = "enum" /\ ty.tagging = "untagged" -> UntaggedIssues(ty, value, path)
    [] ty.t = "enum" /\ ty.tagging \in {"internal", "adjacent"} -> ObjectIssues(ty, value, path)

(* The issues of one value; `reported` is the type an arm names where the value has not its       *)
(* shape, which under an Option is the Option.                                                    *)
Arms(ty, reported, value, path, bound) ==
  CASE ReadsWhole(ty) -> Leaf(ty, ty, value, path) \o Bounded(bound, ty, value, path)
    [] IsModel(ty) -> ModelIssues(ty, value, path) \o Bounded(bound, ty, value, path)
    [] ty.t = "option" /\ ~ReadsWhole(ty) -> IF value = Null THEN <<>> ELSE ArmsBelow(ty.of, ty, value, path, bound)
    [] ty.t = "list" -> IF value.kind # "list" THEN Invalid(path, reported, value)
                        ELSE FlattenSeq([i \in DOMAIN value.items |-> ArmsBelow(ty.of, ty.of, value.items[i], Append(path, Index(i - 1)), "none")])
                             \o Bounded(bound, ty, value, path)
    [] ty.t = "map" -> IF value.kind # "object" THEN Invalid(path, reported, value) ELSE EntriesWalk(ty.of, value.entries, {}, path)
    [] ty.t = "tuple" -> IF value.kind # "list" THEN Invalid(path, reported, value) ELSE Positions(ty.slots, value.items, path)
    [] ty.t = "result" -> IF value.kind = "object" /\ (DOMAIN value.entries = {"Ok"} \/ DOMAIN value.entries = {"Err"})
                          THEN LET arm == CHOOSE key \in DOMAIN value.entries : TRUE
                               IN ArmsBelow(ty.arms[arm], ty.arms[arm], value.entries[arm], Under(path, arm), "none")
                          ELSE Invalid(path, reported, value)

Walk(ty, value) == Arms(ty, ty, value, <<>>, "none")

(* Mutant: serde's refusal is kept only where the walk found nothing at all. *)
RefusalIfEmpty(ty, value, walked) ==
  IF ~Reads(ty, value) /\ walked = <<>> THEN Undescribed ELSE <<>>

(* serde's own refusal of a value, where nothing the walk found says why. *)
Refusal(ty, value, walked) ==
  IF ~Reads(ty, value) /\ \A issue \in ToSet(walked) : issue.kind \in {"Unknown", "Mistyped"} THEN Undescribed ELSE <<>>

Reported(ty, value, walked) == walked \o Refusal(ty, value, walked)
-----------------------------------------------------------------------------
(* The places a read value's checks complain of: its members' own, then those of the models it    *)
(* holds, each under the keys serde writes.                                                       *)
ComplaintsOfFields(fields, entries, place) ==
  LET Held(i) == entries[fields[i].key]
      Here(i) == Under(place, fields[i].key)
  IN FlattenSeq([i \in DOMAIN fields |-> IF fields[i].check /\ Held(i) = Text("bad") THEN <<Here(i)>> ELSE <<>>])
     \o FlattenSeq([i \in DOMAIN fields |-> ComplaintsBelow(fields[i].ty, Held(i), Here(i))])

(* The report of one read. *)
Report(ty, value) == Reported(ty, value, Walk(ty, value))

Complaints(ty, form, place) ==
  CASE ty.t = "option" -> IF form = Null THEN <<>> ELSE ComplaintsBelow(ty.of, form, place)
    [] ty.t = "list" -> FlattenSeq([i \in DOMAIN form.items |-> ComplaintsBelow(ty.of, form.items[i], Append(place, Index(i - 1)))])
    [] ty.t = "map" -> LET keys == Listed(form.entries)
                       IN FlattenSeq([i \in DOMAIN keys |-> ComplaintsBelow(ty.of, form.entries[keys[i]], Under(place, keys[i]))])
    [] ty.t \in {"tuple", "slots"} -> FlattenSeq([i \in DOMAIN ty.slots |-> ComplaintsBelow(ty.slots[i].ty, form.items[i], Append(place, Index(i - 1)))])
    [] ty.t = "result" -> LET arm == CHOOSE key \in DOMAIN form.entries : TRUE
                          IN ComplaintsBelow(ty.arms[arm], form.entries[arm], Under(place, arm))
    [] ty.t = "struct" -> ComplaintsOfFields(ty.fields, form.entries, place)
                          \o FlattenSeq([i \in DOMAIN ty.flat |-> ComplaintsOfFields(ty.flat[i].fields, form.entries, place)])
    [] OTHER -> <<>>

(* A check says nothing of the type it wants. *)
Untold == [t |-> "untold"]

(* A complaint's place read against the raw value: a number is an index only where a list is held. *)
Placed(raw, place) ==
  FoldLeft(LAMBDA path, segment :
             Append(path, IF ~IsKey(segment) /\ \A held \in At(raw, path) : held.kind # "list" THEN Key(ToString(segment.index)) ELSE segment),
           <<>>, place)

CheckIssues(ty, raw) ==
  LET Held(path) == IF At(raw, path) = {} THEN {Null} ELSE At(raw, path)
      Complaint(path) == [Issue("Invalid", path, Untold, Held(path)) EXCEPT !.by = "check"]
      Of(places) == [i \in DOMAIN places |-> Complaint(Placed(raw, places[i]))]
  IN Of(FlattenSeq(SetToSeq({Complaints(ty, form, <<>>) : form \in Forms(ty, raw)})))

(* A value with each u64 it holds as its digits written as the number, or nothing where such a    *)
(* text holds none.                                                                               *)
DigitsAsNumbers(ty, value) ==
  CASE ty.t = "u64" /\ value.kind = "text" -> IF Digits(value) THEN {Number(Numerals[value.text])} ELSE {}
    [] ty.t \in {"option", "whole"} -> DigitsAsNumbersBelow(ty.of, value)
    [] ty.t = "list" /\ value.kind = "list" ->
         {List(items) : items \in Together([i \in DOMAIN value.items |-> DigitsAsNumbersBelow(ty.of, value.items[i])])}
    [] ty.t = "map" /\ value.kind = "object" ->
         {Object(entries) : entries \in Together([key \in DOMAIN value.entries |-> DigitsAsNumbersBelow(ty.of, value.entries[key])])}
    [] ty.t = "tuple" /\ value.kind = "list" /\ (value.kind = "list" => Len(value.items) = Len(ty.slots)) ->
         {List(items) : items \in Together([i \in DOMAIN ty.slots |-> DigitsAsNumbersBelow(ty.slots[i].ty, value.items[i])])}
    [] OTHER -> {value}

(* The value with each refused value written so, in the order listed. *)
DigitsSettled(raw, issues) ==
  FoldLeft(LAMBDA root, issue :
             IF issue.kind # "Invalid" THEN root
             ELSE LET held == CHOOSE value \in issue.found : TRUE
                      set == UNION {SetAt(root, issue.path, written) : written \in DigitsAsNumbers(issue.expected, held) \ {held}}
                  IN IF set = {} THEN root ELSE CHOOSE value \in set : TRUE,
           raw, issues)
=============================================================================
