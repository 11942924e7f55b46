------------------------------ MODULE DartRead -------------------------------
(* The two constructors of a Dart class: fromJsonUnjudged reads the members, each model below read *)
(* by its own fromJsonUnjudged, and fromJson asks validate() of the whole value it read. What      *)
(* fills a type parameter, and what a brand holds, is read by fromJson.                           *)
(* A definition that calls itself takes the call as a parameter: Below is what the same definition  *)
(* answers of the types below.                                                                    *)
EXTENDS HeldTypes

CONSTANTS HeldElementsBelow(_, _, _), DecodeExprBelow(_, _, _)

OwnBoundElements(member, value) == IF member.bound /\ value # Null /\ Broken(value) THEN <<Said(<<>>, "bound")>> ELSE <<>>
CheckElements(check, value) == IF check /\ value # Null /\ Fails(value) THEN <<Said(<<>>, "check")>> ELSE <<>>

(* What a member holds, then its own bound, then its checks. *)
MemberElements(member, value, asked) ==
  Under(member.at,
        HeldElementsBelow(member.ty, value, asked)
        \o OwnBoundElements(member, value)
        \o (IF asked = "rules" THEN CheckElements(member.check, value) ELSE <<>>))
VariantElements(model, content, members, asked) ==
  LET OfMember(member, held) == IF held = {} THEN <<>> ELSE MemberElements(member, CHOOSE value \in held : TRUE, asked)
  IN Under(Steps(model, content), FlattenSeq([i \in DOMAIN members |-> OfMember(content.members[i], members[i])]))

BrandValidate(model, value) == OwnBoundElements(model.members[1], value) \o CheckElements(model.check, value)
DartValidate(name, value) ==
  IF Models[name].shape = "brand" THEN BrandValidate(Models[name], value)
  ELSE VariantElements(Models[name], Contents(Models[name])[value.variant], value.members, "rules")
       \o CheckElements(Models[name].check, value)

(* What is listed of a value a member holds: every rule of the models it holds, or the bounds its  *)
(* brands carry, with nothing of any other model.                                                 *)
HeldElements(ty, value, asked) ==
  CASE ty.t = "model" -> IF asked = "rules" THEN DartValidate(ty.name, value)
                         ELSE IF Models[ty.name].shape = "brand" /\ Models[ty.name].members[1].bound /\ Broken(value)
                              THEN <<Said(<<>>, "bound")>> ELSE <<>>
    [] ty.t \in Wrappers -> LET places == Places(ty, value)
                            IN FlattenSeq([i \in DOMAIN places |->
                                              Under(places[i].at, HeldElementsBelow(places[i].ty, places[i].held, asked))])
    [] OTHER -> <<>>

(* Mutant: a member's functions are called again where the payload is used again. *)
MemberDecodeTwice(member, held, read) ==
  IF held # {} THEN DecodeExprBelow(member.ty, CorrectedBy(member.pre, CorrectedBy(member.pre, CHOOSE raw \in held : TRUE)), read)
  ELSE IF member.ty.t = "option" THEN Ok(Null) ELSE Ended

(* A member's functions correct what its key holds, once, and nothing where the key is absent. *)
MemberDecode(member, held, read) ==
  IF held # {} THEN DecodeExprBelow(member.ty, CorrectedBy(member.pre, CHOOSE raw \in held : TRUE), read)
  ELSE IF member.ty.t = "option" THEN Ok(Null) ELSE Ended

(* The members of a class, or of a variant, as they are declared. *)
ClassReads(content, handed) ==
  LET ReadOf(member) == MemberDecode(member, PayloadOf(member, handed), IF content.shape = "brand" THEN "judged" ELSE "unjudged")
  IN MembersRead(content, handed, [i \in DOMAIN content.members |-> ReadOf(content.members[i])])

(* What the dispatch on the tag hands a variant. A unit variant under a content key takes none.    *)
TaggedPayload(model, content, json) ==
  CASE model.shape = "external" -> IF IsUnit(content) /\ json = Text(content.name) THEN {Null} ELSE EntryOf(content, json)
    [] model.shape = "internal" -> BesideTag(content, json)
    [] model.shape = "adjacent" -> IF IsUnit(content) THEN TagAlone(content, json) ELSE ContentOf(content, json)
    [] OTHER -> {json}

(* The first variant that reads, and whose bounds hold, is taken. *)
VariantBounds(model, content, read) ==
  IF model.shape = "untagged" /\ read.ok /\ VariantElements(model, content, read.value, "bounds") # <<>> THEN Ended ELSE read
DartVariantReads(model, raw) ==
  LET Read(content) == VariantBounds(model, content, ClassReads(content, TaggedPayload(model, content, raw)))
  IN FirstRead([i \in DOMAIN Contents(model) |-> Read(Contents(model)[i])])

(* The type's own functions correct the payload its members are read from. *)
FromJsonUnjudged(name, raw) == DartVariantReads(Models[name], CorrectedBy(Models[name].pre, raw))

(* fromJson: the value read, and the violations of it thrown. *)
JudgedBody(name, read) == Reported(read, DartValidate(name, read.value))
FromJson(name, raw) == JudgedBody(name, FromJsonUnjudged(name, raw))

DecodeExpr(ty, raw, read) ==
  CASE ty.t = "text" -> IF raw.kind = "text" THEN Ok(raw) ELSE Ended
    [] ty.t = "filled" -> DecodeExprBelow(ty.of, raw, "judged")
    [] ty.t = "model" -> IF read = "judged" THEN FromJson(ty.name, raw) ELSE FromJsonUnjudged(ty.name, raw)
    [] OTHER -> IF ~Fits(ty, raw) THEN Ended
                ELSE LET places == Places(ty, raw)
                     IN Gathered(ty, raw, [i \in DOMAIN places |-> DecodeExprBelow(places[i].ty, places[i].held, read)])
=============================================================================
