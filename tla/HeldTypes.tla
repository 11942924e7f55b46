------------------------------ MODULE HeldTypes ------------------------------
(* The types a judged read reads, the payloads it reads them from, and the values it answers. A  *)
(* type is a text, a wrapper over types, a declared model, or the filling of a type parameter;   *)
(* a model declares members, or variants of members, each under a key, flattened or as a slot,   *)
(* with the bound, the check and the preprocess written on it. One text stands for a broken      *)
(* bound, one for a failed check.                                                                *)
EXTENDS Naturals, Sequences, SequencesExt, RawValues

CONSTANT Models      \* each declared model, by its name

Plain == [t |-> "text"]
Ref(name) == [t |-> "model", name |-> name]
Wrappers == {"option", "list", "map", "tuple", "range", "result"}

(* What a type is written over. *)
Over(ty) ==
  CASE ty.t \in {"option", "list", "map", "range", "filled"} -> {ty.of}
    [] ty.t \in {"tuple", "result"} -> Range(ty.slots)
    [] OTHER -> {}

Bounds == <<"start", "end">>
Arms == <<"Ok", "Err">>

(* A wrapper's payload has its form: a pair of bounds has both, a result has one arm, a tuple has *)
(* each of its positions. What a null stands for is an option's to say.                           *)
Fits(ty, raw) ==
  CASE ty.t = "option" -> TRUE
    [] ty.t = "list" -> raw.kind = "list"
    [] ty.t = "map" -> raw.kind = "object"
    [] ty.t = "tuple" -> raw.kind = "list" /\ Len(raw.items) = Len(ty.slots)
    [] ty.t = "range" -> raw.kind = "object" /\ {"start", "end"} \subseteq DOMAIN raw.entries
    [] ty.t = "result" -> raw.kind = "object" /\ \E arm \in {"Ok", "Err"} : DOMAIN raw.entries = {arm}

Place(ty, held, at) == [ty |-> ty, held |-> held, at |-> at]

(* What a wrapper holds, in order, each with what the path to it gains: the index of a list's item *)
(* and of a tuple's position, the key of an entry, of a bound and of an arm.                      *)
Places(ty, held) ==
  CASE ty.t = "option" -> IF held = Null THEN <<>> ELSE <<Place(ty.of, held, <<>>)>>
    [] ty.t = "list" -> [i \in DOMAIN held.items |-> Place(ty.of, held.items[i], <<Index(i - 1)>>)]
    [] ty.t = "map" -> LET keys == Listed(held.entries)
                       IN [i \in DOMAIN keys |-> Place(ty.of, held.entries[keys[i]], <<Key(keys[i])>>)]
    [] ty.t = "tuple" -> [i \in DOMAIN held.items |-> Place(ty.slots[i], held.items[i], <<Index(i - 1)>>)]
    [] ty.t = "range" -> [i \in 1 .. 2 |-> Place(ty.of, held.entries[Bounds[i]], <<Key(Bounds[i])>>)]
    [] ty.t = "result" -> LET arm == CHOOSE i \in 1 .. 2 : Arms[i] \in DOMAIN held.entries
                          IN <<Place(ty.slots[arm], held.entries[Arms[arm]], <<Key(Arms[arm])>>)>>

(* The payload with what was read of each of its places. *)
Rebuilt(ty, raw, values) ==
  CASE ty.t = "option" -> IF raw = Null THEN Null ELSE values[1]
    [] ty.t \in {"list", "tuple"} -> List(values)
    [] OTHER -> LET places == Places(ty, raw)
                    KeyOf(i) == places[i].at[1].key
                IN Object([key \in {KeyOf(i) : i \in DOMAIN places} |-> values[CHOOSE i \in DOMAIN places : KeyOf(i) = key]])

(* A value of a model: the variant it is, and what each member was read to, none for an absent key. *)
Value(variant, members) == [kind |-> "model", variant |-> variant, members |-> members]

Broken(held) ==
  \/ held \in {Text("low"), List(<<>>)}
  \/ held.kind = "model" /\ {Text("low"), List(<<>>)} \intersect held.members[1] # {}
Fails(held) ==
  LET bad == Text("bad")
  IN \/ held = bad
     \/ held.kind = "list" /\ bad \in Range(held.items)
     \/ held.kind = "model" /\ \E i \in DOMAIN held.members : bad \in held.members[i]

(* A preprocess function is no fixed point: called twice, it answers something else again. *)
Correction(raw) == CASE raw = Text("raw") -> Text("ok") [] raw = Text("ok") -> Text("twice") [] OTHER -> raw
CorrectedBy(named, raw) ==
  IF ~named THEN raw
  ELSE IF raw.kind = "object" THEN Object([key \in DOMAIN raw.entries |-> Correction(raw.entries[key])])
  ELSE Correction(raw)

(* The payload a member is read from, in what its type is handed: what is at its key or its index, *)
(* the whole of it for a lone slot and a flattened member, and none where its key is absent.       *)
PayloadOf(member, handed) == UNION {At(raw, member.at) : raw \in handed}

(* Named members are read from an object, several slots from a list of just these, no member from  *)
(* a null, and a lone slot from what its type reads.                                              *)
Formed(content, raw) ==
  CASE content.shape = "struct" -> raw.kind = "object"
    [] content.shape = "tuple" -> raw.kind = "list" /\ Len(raw.items) = Len(content.members)
    [] content.shape = "unit" -> raw = Null
    [] OTHER -> TRUE

Said(at, rule) == [at |-> at, rule |-> rule]
Under(at, said) == [i \in DOMAIN said |-> Said(at \o said[i].at, said[i].rule)]

(* What a type is written as: an enum as any of its variants, another type as its members.         *)
Contents(model) == IF "variants" \in DOMAIN model THEN model.variants ELSE <<model>>

(* The tag of an enum, where it is read from an entry, and what is beside it.                     *)
TagKey == "kind"
ContentKey == "content"
IsUnit(content) == content.shape = "unit"
IsTagged(content, raw) == At(raw, <<Key(TagKey)>>) = {Text(content.name)}

(* What holds a variant: the one entry of its name, the object beside its tag, what is under the    *)
(* content key beside the tag, or the tag with no content.                                        *)
EntryOf(content, raw) ==
  IF raw.kind = "object" /\ DOMAIN raw.entries = {content.name} THEN {raw.entries[content.name]} ELSE {}
BesideTag(content, raw) ==
  IF ~IsTagged(content, raw) THEN {} ELSE IF IsUnit(content) THEN {Null} ELSE {Object(Without(raw.entries, {TagKey}))}
ContentOf(content, raw) == IF IsTagged(content, raw) THEN At(raw, <<Key(ContentKey)>>) ELSE {}
TagAlone(content, raw) == IF IsTagged(content, raw) /\ ContentOf(content, raw) = {} THEN {Null} ELSE {}

(* What serde writes on the way to the members of a variant.                                      *)
Steps(model, content) ==
  CASE model.shape = "external" -> <<Key(content.name)>>
    [] model.shape = "adjacent" -> <<Key(ContentKey)>>
    [] OTHER -> <<>>

(* What a read answers: a value, or a refusal with what validate() says of the value. A read that   *)
(* ends before validate(), on a form no type reads or on a model that judges itself, says no more.  *)
Ok(value) == [ok |-> TRUE, value |-> value]
Refused(says) == [ok |-> FALSE, says |-> says]
Ended == Refused(<<>>)
Reported(read, says) == IF ~read.ok \/ says = <<>> THEN read ELSE Refused(says)

AllRead(reads) == \A i \in DOMAIN reads : reads[i].ok
Gathered(ty, raw, reads) ==
  IF AllRead(reads) THEN Ok(Rebuilt(ty, raw, [i \in DOMAIN reads |-> reads[i].value])) ELSE Ended

(* The members of a type, of what it is handed: nothing, where it is another variant.              *)
MembersRead(content, handed, reads) ==
  IF AllRead(reads) /\ \E raw \in handed : Formed(content, raw)
  THEN Ok([i \in DOMAIN reads |-> IF PayloadOf(content.members[i], handed) = {} THEN {} ELSE {reads[i].value}])
  ELSE Ended

(* The first of what a type is written as that reads is what the value is. *)
FirstRead(reads) ==
  IF \A i \in DOMAIN reads : ~reads[i].ok THEN Ended
  ELSE LET first == CHOOSE i \in DOMAIN reads : reads[i].ok /\ \A j \in 1 .. i - 1 : ~reads[j].ok
       IN Ok(Value(first, reads[first].value))
=============================================================================
