------------------------------ MODULE JsonDecode -----------------------------
(* The recovering decode of a JSON value: the reads and the pipe of RecoveringDecode over the      *)
(* walk of TypedWalk, and what the two together promise. Callbacks and resolvers are the caller's: *)
(* an honest one does what each issue asks for through Stored, another answers anything. The        *)
(* parameters of RecoveringDecode are the operators of this module that JsonDecode.cfg names.     *)
EXTENDS TypedWalk, RecoveringDecode

CONSTANTS Types,                \* each flagged type, by its name
          AllTypes, Depth       \* every type that is read, and how deep it nests
CONSTANTS KeptInBelow(_, _), LawfulBelow(_, _), HoldsCorrectedBelow(_)

(* The types a type is written over. *)
TypesOf(slots) == {slots[i].ty : i \in DOMAIN slots}
ContentsOf(ty) == {content \in {ty.variants[i].content : i \in DOMAIN ty.variants} : content.shape # "unit"}
Beneath(ty) ==
  CASE ty.t \in {"option", "list", "map", "whole"} -> {ty.of}
    [] ty.t \in {"tuple", "slots"} -> TypesOf(ty.slots)
    [] ty.t = "result" -> {ty.arms["Ok"], ty.arms["Err"]}
    [] ty.t = "struct" -> TypesOf(ty.fields) \union ToSet(ty.flat) \union ty.rest
    [] ty.t = "enum" -> {content.ty : content \in ContentsOf(ty)}
    [] OTHER -> {}

(* None holds itself, and each is declared as the macro accepts it: what is flattened into an       *)
(* object is a struct, or an enum whose tag is one of its keys.                                    *)
Kinds == {"string", "u64", "lenient", "whole", "option", "list", "map", "tuple", "slots", "result", "struct", "enum"}
InAnObject(ty) == ty.t = "struct" \/ (ty.t = "enum" /\ ty.tagging \in {"internal", "adjacent"})
IsListed(s) == s \in Seq(ToSet(s))
IsDeclared(ty) ==
  /\ ty.t \in Kinds
  /\ ty.t \in {"tuple", "slots"} => IsListed(ty.slots)
  /\ ty.t = "struct" =>
       /\ {"t", "fields", "flat", "rest", "corrects"} \subseteq DOMAIN ty
       /\ ty.corrects \in BOOLEAN /\ IsFiniteSet(ty.rest)
       /\ IsListed(ty.fields) /\ IsListed(ty.flat) /\ \A field \in ToSet(ty.fields) : IsListed(field.aliases)
       /\ \A inner \in ToSet(ty.flat) : inner.t = "struct"
  /\ ty.t = "enum" =>
       /\ ty.tagging \in {"plain", "external", "internal", "adjacent", "untagged"}
       /\ \A content \in ContentsOf(ty) :
            /\ content.shape \in {"fields", "held", "slots"}
            /\ content.shape = "fields" => content.ty.t = "struct"
            /\ content.shape = "slots" => content.ty.t = "slots"
            /\ ty.tagging = "internal" => content.shape # "slots" /\ InAnObject(content.ty)
ASSUME TypesAreNested ==
  /\ \A name \in DOMAIN Types : Bare(Types[name]) \in AllTypes
  /\ Depth \in [AllTypes -> Nat]
  /\ \A ty \in AllTypes : IsDeclared(ty) /\ \A of \in Beneath(ty) : of \in AllTypes /\ Depth[of] < Depth[ty]
ASSUME KeysAreListed == IsListed(KeyOrder)

(* The type's own functions are run once by the decode, so every read of it is of the bare type. *)
Declared(name) == Bare(Types[name])
CorrectedOf(name, value) == Corrected(Types[name], value)
ReadsOf(name, value) == Reads(Declared(name), value)

(* Every issue of one read. *)
ListsOf(name, value) == Report(Declared(name), value) \o CheckIssues(Declared(name), value)

(* What an issue asks for: a value of the expected type written where it points, an absent item   *)
(* put at the end of its list, an undeclared key or item taken out. Nothing where the write       *)
(* answers false.                                                                                 *)
Repaired(value, issue) ==
  LET sound == Sound(issue.expected)
  IN CASE issue.kind = "Unknown" -> TakeAt(value, issue.path)
       [] issue.kind = "Undescribed" -> {}
       [] issue.kind = "Missing" /\ ~IsKey(Last(issue.path)) ->
            UNION {SetAt(value, Front(issue.path), List(Append(held.items, sound))) : held \in At(value, Front(issue.path))}
       [] OTHER -> SetAt(value, issue.path, sound)

Answer(answer, value) == [answer |-> answer, raw |-> value]
ResolutionsOf(asks, value, issue) ==
  LET honest == {Answer("Settled", repaired) : repaired \in Repaired(value, issue)}
  IN IF asks.manner = "honest" THEN IF honest = {} THEN {Answer("Rejected", value)} ELSE honest
     ELSE honest \union {Answer("NotTouched", value), Answer("Rejected", value), Answer("Settled", value)}
                 \union {Answer("Settled", broken) : broken \in SetAt(value, issue.path, Text("bad"))}

RepairedAll(value, issues) ==
  FoldLeft(LAMBDA values, issue : UNION {Repaired(v, issue) : v \in values}, {value}, issues)
DecisionsOf(asks, value, issues) ==
  LET fixes == {[verdict |-> "Fixed", raw |-> repaired] : repaired \in RepairedAll(value, issues)}
      reject == [verdict |-> "Reject", raw |-> value]
  IN IF asks.manner = "honest" THEN IF fixes = {} THEN {reject} ELSE fixes
     ELSE fixes \union {reject, [verdict |-> "Fixed", raw |-> value], [verdict |-> "Fixed", raw |-> Null]}
-----------------------------------------------------------------------------
(* Nothing of a raw value is lost or changed in a form: every item, and every key that does not    *)
(* hold null, under its own name or another, and no value in another kind.                        *)
KeptIn(value, form) ==
  \/ value.kind = "null"
  \/ value.kind \in {"text", "number"} /\ value = form
  \/ /\ value.kind = "list" /\ form.kind = "list"
     /\ Len(value.items) = Len(form.items)
     /\ \A i \in DOMAIN value.items : KeptInBelow(value.items[i], form.items[i])
  \/ /\ value.kind = "object" /\ form.kind = "object"
     /\ \A key \in DOMAIN value.entries : value.entries[key] = Null \/ \E k \in DOMAIN form.entries : KeptInBelow(value.entries[key], form.entries[k])

(* No bound and no check is broken anywhere in a form of the type. *)
Lawful(ty, form) ==
  CASE ty.t = "option" -> form = Null \/ LawfulBelow(ty.of, form)
    [] ty.t = "list" -> \A i \in DOMAIN form.items : LawfulBelow(ty.of, form.items[i])
    [] ty.t = "map" -> \A key \in DOMAIN form.entries : LawfulBelow(ty.of, form.entries[key])
    [] ty.t \in {"tuple", "slots"} -> \A i \in DOMAIN ty.slots : ~Broken(ty.slots[i].bound, form.items[i]) /\ LawfulBelow(ty.slots[i].ty, form.items[i])
    [] ty.t = "struct" -> \A fields \in {ty.fields} \union {ty.flat[i].fields : i \in DOMAIN ty.flat} :
                            \A i \in DOMAIN fields : LET held == form.entries[fields[i].key]
                                                     IN /\ ~Broken(fields[i].bound, held)
                                                        /\ ~(fields[i].check /\ held = Text("bad"))
                                                        /\ LawfulBelow(fields[i].ty, held)
    [] OTHER -> TRUE

(* A decoded value is the value that was held, as the decode last left it: nothing of it dropped,  *)
(* no part of it in a form its type does not write, no bound and no check broken, however the      *)
(* first read went and whatever the callback or the resolvers did. (recovering_decode.rs:3629,     *)
(* README.md:7096.)                                                                               *)
AcceptedIsWhatWasHeld ==
  outcome.result = "ok" =>
    \E form \in Forms(Declared(call.type), raw) : KeptIn(raw, form) /\ Lawful(Declared(call.type), form)

HoldsCorrected(ty) == (ty.t = "struct" /\ ty.corrects) \/ \E of \in Beneath(ty) : HoldsCorrectedBelow(of)

(* The issues handed over point at what they speak of: where one holds a value, that value is at   *)
(* its path. A type held by another that names a preprocess is left out: it is walked as          *)
(* corrected, and its issues point into the copy. (recovering_decode.rs:1814, README.md:7411.)     *)
Handed == phase \in {"decide", "pipe"} /\ asked = <<>>
FoundIsThere ==
  Handed /\ ~HoldsCorrected(Declared(call.type)) =>
    \A i \in DOMAIN found :
      found[i].kind \notin {"Missing", "Undescribed"} /\ found[i].by = "walk" => At(raw, found[i].path) = found[i].found

(* What the first read could not see: what is under a tag it could not follow, what the checks    *)
(* say of a value serde refused, and serde's own refusal where another issue explained it.        *)
Unseen(issue, refused) ==
  \/ \E i \in DOMAIN found : found[i].expected.t = "variants" /\ IsPrefix(Front(found[i].path), issue.path)
  \/ issue.by = "check" /\ refused
  \/ issue.kind = "Undescribed" /\ \E i \in DOMAIN found : found[i].kind \notin {"Unknown", "Mistyped"} /\ found[i].by = "walk"

HandedOver ==
  LET taken == CorrectedOf(call.type, call.raw)
  IN IF settled THEN DigitsSettled(taken, ListsOf(call.type, taken)) ELSE taken

(* Two items of one list that are both to be taken out: the first removal moves the second. *)
ShiftsAnother ==
  \E i, j \in DOMAIN found :
    /\ i < j /\ found[i].kind = "Unknown" /\ found[j].kind = "Unknown"
    /\ Front(found[i].path) = Front(found[j].path) /\ ~IsKey(Last(found[i].path))

(* A check names its member as serde writes it, also where the raw value holds it under an alias:  *)
(* a repair there stands beside what was held, and serde refuses the key stored twice.            *)
OffItsKey(issue) == issue.by = "check" /\ At(HandedOver, issue.path) = {}

(* Repairing each issue as it asks is enough: a second read that still refuses speaks of nothing  *)
(* the first could have seen. (README.md:7096, recovering_decode.rs:3629.)                        *)
RepairsSuffice ==
  /\ call.manner = "honest" /\ phase = "done" /\ found # <<>>
  /\ ~HoldsCorrected(Declared(call.type)) /\ ~ShiftsAnother
  /\ \A i \in DOMAIN found : found[i].kind # "Undescribed" /\ ~OffItsKey(found[i])
  => LET refused == ~ReadsOf(call.type, HandedOver)
     IN \A i \in DOMAIN outcome.issues : Unseen(outcome.issues[i], refused)
=============================================================================
