----------------------------- MODULE JudgedRead ------------------------------
(* One type declared in Rust is read in four languages, by code written for each: serde's         *)
(* Deserialize, a Dart class, a Swift Decodable and a Kotlin serializer. Each reads the members    *)
(* with no judgement where the holder's validate() reaches them, and judges the value whole, once. *)
EXTENDS RustRead, DartRead, SwiftRead, KotlinRead

CONSTANTS Types, Depth,    \* every type that is read, and how deep it nests
          Payloads         \* the payloads each model that is read alone is read from

CONSTANT BrokenInBelow(_, _)     \* what BrokenIn answers of the types below

MembersOf(model) == UNION {Range(content.members) : content \in Range(Contents(model))}

(* The types a type is written over, and those of the members of a model: none holds itself. *)
Within(ty) == IF ty.t = "model" THEN {member.ty : member \in MembersOf(Models[ty.name])} ELSE Over(ty)
ASSUME TypesAreNested ==
  /\ Depth \in [Types -> Nat]
  /\ \A ty \in Types :
       /\ ty.t \in {"text", "filled", "model"} \cup Wrappers
       /\ ty.t \in {"tuple", "result"} => ty.slots \in Seq(Types)
       /\ ty.t = "result" => Len(ty.slots) = 2
       /\ ty.t = "model" => ty.name \in DOMAIN Models
       /\ \A of \in Within(ty) : of \in Types /\ Depth[of] < Depth[ty]
  /\ \A given \in DOMAIN Payloads : Ref(given) \in Types

(* A member is under one key or one index, or is the whole of what its holder is handed. A brand    *)
(* holds one member, with the bound of a text or a list; its checks are the brand's.               *)
IsListed(s) == s \in Seq(Range(s))
IsDeclared(member) ==
  /\ member.at = <<>> \/ \E step \in Range(member.at) : member.at = <<step>> /\ (IsKey(step) \/ step.index \in Nat)
  /\ {member.bound, member.check, member.pre} \subseteq BOOLEAN
ASSUME ModelsAreDeclared ==
  \A model \in Range(Models) :
    /\ {model.check, model.pre} \subseteq BOOLEAN
    /\ IsListed(Contents(model)) /\ \A content \in Range(Contents(model)) : IsListed(content.members)
    /\ \A member \in MembersOf(model) : IsDeclared(member)
    /\ \/ model.shape # "brand"
       \/ /\ "variants" \notin DOMAIN model /\ Len(model.members) = 1
          /\ \A brand \in Range(model.members) : ~brand.check /\ (brand.bound => brand.ty.t \in {"text", "list"})
ASSUME KeysAreListed == IsListed(KeyOrder)

VARIABLES reader, name, raw, answer
vars == <<reader, name, raw, answer>>

Init == reader = "none" /\ name \in DOMAIN Payloads /\ raw \in Payloads[name] /\ answer = {}

Reads(language, read) == reader = "none" /\ reader' = language /\ answer' = {read} /\ UNCHANGED <<name, raw>>
ReadByRust == Reads("Rust", Deserialized(name, raw))
ReadByDart == Reads("Dart", FromJson(name, raw))
ReadBySwift == Reads("Swift", SwiftJudged(name, raw))
ReadByKotlin == Reads("Kotlin", KotlinJudged(name, raw))
Next == ReadByRust \/ ReadByDart \/ ReadBySwift \/ ReadByKotlin
Spec == Init /\ [][Next]_vars

(* Every rule a value breaks, at its place: of the members of a model its own bound and its check, *)
(* what the models in it break, whether validate() walks to them or not, and the check of a model. *)
BrokenIn(ty, value) ==
  LET Where(broken, rule) == IF broken THEN {Said(<<>>, rule)} ELSE {}
      Beneath(at, said) == {Said(at \o one.at, one.rule) : one \in said}
      model == Models[ty.name]
      content == Contents(model)[value.variant]
      OfMember(member, held) ==
        Beneath(Steps(model, content) \o member.at, BrokenInBelow(member.ty, held)
                                  \cup Where(member.bound /\ held # Null /\ Broken(held), "bound")
                                  \cup Where(member.check /\ held # Null /\ Fails(held), "check"))
      places == Places(ty, value)
  IN CASE ty.t = "text" -> {}
       [] ty.t = "filled" -> BrokenInBelow(ty.of, value)
       [] ty.t = "model" -> Where(model.check /\ Fails(value), "check")
                            \cup UNION {UNION {OfMember(content.members[i], held) : held \in value.members[i]} : i \in DOMAIN value.members}
       [] OTHER -> UNION {Beneath(places[i].at, BrokenInBelow(places[i].ty, places[i].held)) : i \in DOMAIN places}

(* Where the four reads are known to part. A bounded member of an untagged variant is read in Rust *)
(* by its bound's hook alone, which reads the models it holds judged; Swift asks no brand in a      *)
(* tuple for the bound that chooses; Kotlin reads a tuple in a tuple's position judged. serde      *)
(* reads a unit variant of a null too, where Swift reads none under its name and none of the three *)
(* as a content; and Kotlin reads the bare name of a variant that holds an Option.                 *)
BoundsWhatItHolds(model) == model.shape = "untagged" /\ \E member \in MembersOf(model) : member.bound /\ Walks(member.ty)
ChoosesInATuple(model) == model.shape = "untagged" /\ \E member \in MembersOf(model) : member.ty.t = "tuple" /\ Walks(member.ty)
TupleInATuple(model) ==
  \E member \in MembersOf(model) : member.ty.t = "tuple" /\ \E of \in Range(member.ty.slots) : Innermost(of).t = "tuple"
UnitUnderItsName(model) == model.shape = "external" /\ \E unit \in Range(model.variants) : IsUnit(unit) /\ EntryOf(unit, raw) = {Null}
UnitOverContent(model) == model.shape = "adjacent" /\ \E unit \in Range(model.variants) : IsUnit(unit) /\ ContentOf(unit, raw) = {Null}
BareOfAValue(model) == model.shape = "external" /\ \E held \in Range(model.variants) : ~IsUnit(held) /\ raw = Text(held.name)
Parts ==
  \/ BoundsWhatItHolds(Models[name])
  \/ reader = "Swift" /\ (ChoosesInATuple(Models[name]) \/ UnitUnderItsName(Models[name]))
  \/ reader = "Kotlin" /\ (TupleInATuple(Models[name]) \/ BareOfAValue(Models[name]))
  \/ reader # "Rust" /\ UnitOverContent(Models[name])

(* What any of the four accepts breaks no rule anywhere in it, behind a type parameter and in a    *)
(* brand too, where no holder's validate() looks: a model is left unjudged by its read only where  *)
(* another read judges it.                                                                        *)
AcceptedBreaksNoRule ==
  \A read \in answer : read.ok => BrokenIn(Ref(name), read.value) = {}

(* A value whose form reads, and in which nothing judges itself, is refused with every rule it     *)
(* breaks, each once and at its whole path, however deep the model that breaks it is held, and is  *)
(* accepted where it breaks none.                                                                 *)
NamedOnce(read, broken) == IF broken = {} THEN read.ok ELSE ~read.ok /\ IsInjective(read.says) /\ Range(read.says) = broken
WhereFormed(read, formed) == formed.ok => NamedOnce(read, BrokenIn(Ref(name), formed.value))
EachRuleIsNamedOnce == \A read \in answer : ~Parts => WhereFormed(read, ReadAlone(name, raw))

(* The four reads answer alike: what one refuses the others refuse, and what they accept is the    *)
(* same value, of the same variant, with each function that corrects a payload called once.        *)
Alike(read, serdes) == read.ok = serdes.ok /\ (read.ok => read.value = serdes.value)
ReadersAgree == \A read \in answer : ~Parts => Alike(read, Deserialized(name, raw))
=============================================================================
