------------------------------ MODULE RustRead -------------------------------
(* The Deserialize that model_schema writes in Rust: the members are read, each model that        *)
(* validate() walks to through its read alone, and validate() then judges the whole value once.    *)
(* A model the walk does not reach, behind a type parameter or in a brand, is judged by its own    *)
(* Deserialize as it is read.                                                                     *)
(* A definition that calls itself takes the call as a parameter: Below is what the same definition  *)
(* answers of the types below.                                                                    *)
EXTENDS HeldTypes

CONSTANTS WalksBelow(_), HeldSaysBelow(_, _), ReadAsBelow(_, _, _)

(* validate() walks from a type to a declared model, through every wrapper it reads. *)
Walks(ty) == ty.t = "model" \/ (ty.t \in Wrappers /\ \E of \in Over(ty) : WalksBelow(of))

(* What validate() reports of a value: of a member, what the models it holds report, then its own *)
(* bound, then its checks, all under its key; of the type, its members as declared, then its own   *)
(* checks. A brand answers for its bound and its checks, and nothing its value holds is walked.    *)
BoundSays(bound, value) == IF bound /\ value # Null /\ Broken(value) THEN <<Said(<<>>, "bound")>> ELSE <<>>
ChecksSay(check, value) == IF check /\ value # Null /\ Fails(value) THEN <<Said(<<>>, "check")>> ELSE <<>>
MemberSays(member, value) ==
  Under(member.at, HeldSaysBelow(member.ty, value)
                          \o BoundSays(member.bound, value)
                          \o ChecksSay(member.check, value))
ContentSays(model, content, members) ==
  LET OfMember(member, held) == IF held = {} THEN <<>> ELSE MemberSays(member, CHOOSE value \in held : TRUE)
  IN Under(Steps(model, content), FlattenSeq([i \in DOMAIN members |-> OfMember(content.members[i], members[i])]))

BrandSays(model, value) == BoundSays(model.members[1].bound, value) \o ChecksSay(model.check, value)
Validated(name, value) ==
  IF Models[name].shape = "brand" THEN BrandSays(Models[name], value)
  ELSE ContentSays(Models[name], Contents(Models[name])[value.variant], value.members) \o ChecksSay(Models[name].check, value)
HeldSays(ty, value) ==
  CASE ty.t = "model" -> Validated(ty.name, value)
    [] ty.t \in Wrappers -> LET places == Places(ty, value)
                            IN FlattenSeq([i \in DOMAIN places |->
                                              Under(places[i].at, HeldSaysBelow(places[i].ty, places[i].held))])
    [] OTHER -> <<>>

(* A read whose value a hook holds to a bound. *)
HeldTo(bound, read) == Reported(read, BoundSays(bound, read.value))

(* Mutant: what a brand holds is read through a hook as well, though validate() does not walk it. *)
HookOfAny(content, member, how) ==
  CASE how = "choosing" /\ member.bound -> "bound" [] Walks(member.ty) -> how [] OTHER -> "own"

(* A value is read "own" where its type's Deserialize reads it, "unjudged" where a hook of its     *)
(* holder does, and "choosing" where that hook chooses a variant: a brand is then held to its      *)
(* bound alone. The hook of a member is its bound's own in a variant to be chosen, one that reads   *)
(* the models it holds unjudged where validate() walks to any, and none in a brand.                *)
HookOf(content, member, how) ==
  CASE how = "choosing" /\ member.bound -> "bound"
    [] content.shape # "brand" /\ Walks(member.ty) -> how
    [] OTHER -> "own"

(* The payload is the one the member's own functions corrected. A bound's hook reads the type as   *)
(* it is declared, and refuses what breaks the bound.                                              *)
MemberRead(member, raw, hook) ==
  HeldTo(hook = "bound", ReadAsBelow(member.ty, CorrectedBy(member.pre, raw), IF hook = "bound" THEN "own" ELSE hook))

(* Of the keys that are absent, an Option's alone is read. *)
ContentRead(content, handed, how) ==
  LET ReadOf(member, held) ==
        IF held # {} THEN MemberRead(member, CHOOSE raw \in held : TRUE, HookOf(content, member, how))
        ELSE IF member.ty.t = "option" THEN Ok(Null) ELSE Ended
      Reading(member) == ReadOf(member, PayloadOf(member, handed))
  IN MembersRead(content, handed, [i \in DOMAIN content.members |-> Reading(content.members[i])])

(* What serde hands a variant: what is under its name, beside its tag or under the content key. A  *)
(* unit variant is its name alone, or a null where its content would be.                          *)
Handed(model, content, raw) ==
  CASE model.shape = "external" -> IF IsUnit(content) /\ raw = Text(content.name) THEN {Null} ELSE EntryOf(content, raw)
    [] model.shape = "internal" -> BesideTag(content, raw)
    [] model.shape = "adjacent" -> ContentOf(content, raw) \cup (IF IsUnit(content) THEN TagAlone(content, raw) ELSE {})
    [] OTHER -> {raw}

(* The read alone: the type's own functions correct the payload, and its members are read from it. *)
(* The first variant of an untagged enum that reads is the one a payload is.                       *)
RustVariantRead(model, raw) ==
  LET how == IF model.shape = "untagged" THEN "choosing" ELSE "unjudged"
  IN FirstRead([i \in DOMAIN Contents(model) |-> ContentRead(Contents(model)[i], Handed(model, Contents(model)[i], raw), how)])
ReadAlone(name, raw) == RustVariantRead(Models[name], CorrectedBy(Models[name].pre, raw))

(* The Deserialize of a model: its read alone, then validate(). *)
RustJudged(name, read) == Reported(read, Validated(name, read.value))
Deserialized(name, raw) == RustJudged(name, ReadAlone(name, raw))

(* What a hook reads a model as. *)
HeldLeaf(name, raw, how) ==
  HeldTo(how = "choosing" /\ Models[name].shape = "brand" /\ Models[name].members[1].bound, ReadAlone(name, raw))

ReadAs(ty, raw, how) ==
  CASE ty.t = "text" -> IF raw.kind = "text" THEN Ok(raw) ELSE Ended
    [] ty.t = "filled" -> ReadAsBelow(ty.of, raw, "own")
    [] ty.t = "model" -> IF how = "own" THEN Deserialized(ty.name, raw) ELSE HeldLeaf(ty.name, raw, how)
    [] OTHER -> IF ~Fits(ty, raw) THEN Ended
                ELSE LET places == Places(ty, raw)
                     IN Gathered(ty, raw, [i \in DOMAIN places |-> ReadAsBelow(places[i].ty, places[i].held, how)])
=============================================================================
