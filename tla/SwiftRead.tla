----------------------------- MODULE SwiftRead -------------------------------
(* The two initializers of a Swift type: the unjudged one reads the members, each that validate()  *)
(* walks through the unjudged initializers of the models it holds, and init(from:) judges what it   *)
(* read. A type argument, and the value of a brand, is decoded by init(from:).                     *)
(* A definition that calls itself takes the call as a parameter: Below is what the same definition  *)
(* answers of the types below.                                                                    *)
EXTENDS HeldTypes

CONSTANTS ReachesBelow(_), HeldWalkBelow(_, _, _), ReadBelow(_, _, _)

(* Whether a walk of a type reaches a value whose validate() it runs. *)
Reaches(ty) == ty.t = "model" \/ (ty.t \in Wrappers /\ \E of \in Over(ty) : ReachesBelow(of))

(* swiftSchemaValidateBound: a brand's bounds, and nothing of any other model. *)
ValidateBound(name, value) ==
  LET model == Models[name]
  IN IF model.shape = "brand" /\ model.members[1].bound /\ Broken(value) THEN <<Said(<<>>, "bound")>> ELSE <<>>

BoundRules(member, value) == IF member.bound /\ value # Null /\ Broken(value) THEN <<Said(<<>>, "bound")>> ELSE <<>>
CheckRules(check, value) == IF check /\ value # Null /\ Fails(value) THEN <<Said(<<>>, "check")>> ELSE <<>>

(* What the values it holds report, then its own bounds, then its checks. *)
MemberRules(member, value) ==
  Under(member.at, HeldWalkBelow("rules", member.ty, value) \o BoundRules(member, value) \o CheckRules(member.check, value))

(* What chooses a variant, of one member. *)
BoundAlone(member, value) == BoundRules(member, value) \o HeldWalkBelow("bound", member.ty, value)

FieldRules(model, content, members) ==
  LET OfMember(member, held) == IF held = {} THEN <<>> ELSE MemberRules(member, CHOOSE value \in held : TRUE)
  IN Under(Steps(model, content), FlattenSeq([i \in DOMAIN members |-> OfMember(content.members[i], members[i])]))
ChoosesNot(content, members) ==
  \E i \in DOMAIN members : members[i] # {} /\ BoundAlone(content.members[i], CHOOSE v \in members[i] : TRUE) # <<>>

BrandRules(model, value) == BoundRules(model.members[1], CHOOSE v \in value.members[1] : TRUE) \o CheckRules(model.check, value)
SwiftValidate(name, value) ==
  IF Models[name].shape = "brand" THEN BrandRules(Models[name], value)
  ELSE FieldRules(Models[name], Contents(Models[name])[value.variant], value.members) \o CheckRules(Models[name].check, value)

(* What the values a member holds report, each under its place. A tuple reports its rules alone: a *)
(* brand in one of its positions chooses nothing.                                                 *)
HeldWalk(walk, ty, value) ==
  CASE ty.t = "model" -> IF walk = "rules" THEN SwiftValidate(ty.name, value) ELSE ValidateBound(ty.name, value)
    [] ty.t \in Wrappers -> LET places == IF walk = "bound" /\ ty.t = "tuple" THEN <<>> ELSE Places(ty, value)
                            IN FlattenSeq([i \in DOMAIN places |->
                                              Under(places[i].at, HeldWalkBelow(walk, places[i].ty, places[i].held))])
    [] OTHER -> <<>>

(* A member that names functions is read from what they answer, and one whose key is absent is nil. *)
DecodeStatement(content, member, held) ==
  IF held # {}
  THEN ReadBelow(member.ty, CorrectedBy(member.pre, CHOOSE raw \in held : TRUE), content.shape # "brand" /\ Reaches(member.ty))
  ELSE IF member.ty.t = "option" THEN Ok(Null) ELSE Ended
FieldReads(content, handed) ==
  LET ReadOf(member) == DecodeStatement(content, member, PayloadOf(member, handed))
  IN MembersRead(content, handed, [i \in DOMAIN content.members |-> ReadOf(content.members[i])])

(* What a variant is read from. A name alone is a unit variant, and an entry any other variant; a   *)
(* unit variant under a content key takes none.                                                   *)
SwiftVariantRead(model, content, decoder) ==
  CASE model.shape = "external" -> IF ~IsUnit(content) THEN EntryOf(content, decoder)
                                   ELSE IF decoder = Text(content.name) THEN {Null} ELSE {}
    [] model.shape = "internal" -> BesideTag(content, decoder)
    [] model.shape = "adjacent" -> IF IsUnit(content) THEN TagAlone(content, decoder) ELSE ContentOf(content, decoder)
    [] OTHER -> {decoder}

(* Each untagged variant is attempted in turn, and the first that reads and whose bounds hold is taken. *)
Attempt(model, content, read) ==
  IF model.shape = "untagged" /\ read.ok /\ ChoosesNot(content, read.value) THEN Ended ELSE read
SwiftVariantReads(model, raw) ==
  LET ReadOf(content) == Attempt(model, content, FieldReads(content, SwiftVariantRead(model, content, raw)))
  IN FirstRead([i \in DOMAIN Contents(model) |-> ReadOf(Contents(model)[i])])

(* The unjudged initializer reads what the type's own functions answer. *)
SwiftUnjudged(name, raw) == SwiftVariantReads(Models[name], CorrectedBy(Models[name].pre, raw))

(* init(from:): the value the unjudged initializer reads, and what it reports thrown. *)
SwiftJudging(name, read) == Reported(read, SwiftValidate(name, read.value))
SwiftJudged(name, raw) == SwiftJudging(name, SwiftUnjudged(name, raw))

Read(ty, raw, unjudged) ==
  CASE ty.t = "text" -> IF raw.kind = "text" THEN Ok(raw) ELSE Ended
    [] ty.t = "filled" -> ReadBelow(ty.of, raw, FALSE)
    [] ty.t = "model" -> IF unjudged THEN SwiftUnjudged(ty.name, raw) ELSE SwiftJudged(ty.name, raw)
    [] OTHER -> IF ~Fits(ty, raw) THEN Ended
                ELSE LET places == Places(ty, raw)
                     IN Gathered(ty, raw, [i \in DOMAIN places |-> ReadBelow(places[i].ty, places[i].held, unjudged)])
=============================================================================
