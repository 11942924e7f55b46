----------------------------- MODULE KotlinRead ------------------------------
(* The two serializers of a Kotlin type: {Type}Unjudged reads the members, each model that         *)
(* validate() asks through its own {Type}Unjudged, and {Type}Serializer throws what validate()      *)
(* answers of the value it read. A type argument, and the value of a brand, is read by the judged   *)
(* serializer of its own.                                                                         *)
(* A definition that calls itself takes the call as a parameter: Below is what the same definition  *)
(* answers of the types below.                                                                    *)
EXTENDS HeldTypes

CONSTANTS HeldStatementsBelow(_, _, _), InnermostBelow(_), HoldsAnUnjudgedBelow(_), DecodedBelow(_, _, _)

BoundStatements(member, value) == IF member.bound /\ value # Null /\ Broken(value) THEN <<Said(<<>>, "bound")>> ELSE <<>>
CheckStatements(check, value) == IF check /\ value # Null /\ Fails(value) THEN <<Said(<<>>, "check")>> ELSE <<>>

(* What a member adds to validate(): what the value it holds reports, its bounds, then its checks;  *)
(* and what it adds to the bounds that choose a variant, its own and those of each brand it holds.  *)
Member(member, value, asked) ==
  IF asked = "report"
  THEN Under(member.at, HeldStatementsBelow(member.ty, value, "report")
                        \o BoundStatements(member, value) \o CheckStatements(member.check, value))
  ELSE BoundStatements(member, value) \o HeldStatementsBelow(member.ty, value, "bound")
VariantRules(model, content, members, asked) ==
  LET OfMember(member, held) == IF held = {} THEN <<>> ELSE Member(member, CHOOSE value \in held : TRUE, asked)
  IN Under(Steps(model, content), FlattenSeq([i \in DOMAIN members |-> OfMember(content.members[i], members[i])]))

Brand(model, value) == BoundStatements(model.members[1], CHOOSE v \in value.members[1] : TRUE)
RulesOf(model, value) ==
  IF model.shape = "brand" THEN Brand(model, value)
  ELSE VariantRules(model, Contents(model)[value.variant], value.members, "report")
KotlinValidate(name, value) == RulesOf(Models[name], value) \o CheckStatements(Models[name].check, value)

(* What the value a member holds answers: every rule of the models under it, or the bounds of the   *)
(* brands under it.                                                                               *)
HeldStatements(ty, value, asked) ==
  CASE ty.t = "model" ->
         LET model == Models[ty.name]
         IN IF asked = "report" THEN KotlinValidate(ty.name, value)
            ELSE IF model.shape = "brand" /\ model.members[1].bound /\ Broken(value) THEN <<Said(<<>>, "bound")>> ELSE <<>>
    [] ty.t \in Wrappers -> LET places == Places(ty, value)
                            IN FlattenSeq([i \in DOMAIN places |->
                                              Under(places[i].at, HeldStatementsBelow(places[i].ty, places[i].held, asked))])
    [] OTHER -> <<>>

(* A list, a list of optional items and an option are levels of the type they are written over. *)
Innermost(ty) == IF ty.t \in {"option", "list"} THEN InnermostBelow(ty.of) ELSE ty

(* Whether a value holds a model an unjudged serializer reads. A tuple in the position of a tuple   *)
(* keeps the serializer of its own.                                                               *)
InAPosition(ty) == Innermost(ty).t # "tuple" /\ HoldsAnUnjudgedBelow(ty)
HoldsAnUnjudged(ty) ==
  CASE ty.t = "model" -> TRUE
    [] ty.t = "tuple" -> \E of \in Range(ty.slots) : InAPosition(of)
    [] ty.t \in Wrappers -> \E of \in Over(ty) : HoldsAnUnjudgedBelow(of)
    [] OTHER -> FALSE

(* Mutant: a member is read by the judged serializers of the models it holds. *)
MemberSerializerJudged(content, member) == FALSE
MemberSerializer(content, member) == content.shape # "brand" /\ HoldsAnUnjudged(member.ty)

(* The functions a member names correct what its key holds, and nothing where the key is absent. *)
MemberDecoded(content, member, held) ==
  IF held # {} THEN DecodedBelow(member.ty, CorrectedBy(member.pre, CHOOSE raw \in held : TRUE), MemberSerializer(content, member))
  ELSE IF member.ty.t = "option" THEN Ok(Null) ELSE Ended

Members(content, handed) ==
  LET ReadOf(member) == MemberDecoded(content, member, PayloadOf(member, handed))
  IN MembersRead(content, handed, [i \in DOMAIN content.members |-> ReadOf(content.members[i])])

(* What a variant is handed. A primitive is a name over null, whatever the variant of that name     *)
(* holds; a unit variant under a content key takes none.                                          *)
DataOf(model, content, element) ==
  CASE model.shape = "external" -> IF element = Text(content.name) THEN {Null} ELSE EntryOf(content, element)
    [] model.shape = "internal" -> BesideTag(content, element)
    [] model.shape = "adjacent" -> IF IsUnit(content) THEN TagAlone(content, element) ELSE ContentOf(content, element)
    [] OTHER -> {element}

(* The first untagged variant that decodes and whose bounds hold is taken. *)
HeldToItsBounds(model, content, read) ==
  IF model.shape = "untagged" /\ read.ok /\ VariantRules(model, content, read.value, "bound") # <<>> THEN Ended ELSE read
DeserializeChain(model, element) ==
  LET ReadOf(content) == HeldToItsBounds(model, content, Members(content, DataOf(model, content, element)))
  IN FirstRead([i \in DOMAIN Contents(model) |-> ReadOf(Contents(model)[i])])

(* {Type}Unjudged: it reads what the type's own functions answer. *)
KotlinUnjudged(name, raw) == DeserializeChain(Models[name], CorrectedBy(Models[name].pre, raw))

(* {Type}Serializer. *)
KotlinJudging(name, read) == Reported(read, KotlinValidate(name, read.value))
KotlinJudged(name, raw) == KotlinJudging(name, KotlinUnjudged(name, raw))

(* A value read by the serializer its type is given: unjudged, or each type's own. *)
Decoded(ty, raw, unjudged) ==
  CASE ty.t = "text" -> IF raw.kind = "text" THEN Ok(raw) ELSE Ended
    [] ty.t = "filled" -> DecodedBelow(ty.of, raw, FALSE)
    [] ty.t = "model" -> IF unjudged THEN KotlinUnjudged(ty.name, raw) ELSE KotlinJudged(ty.name, raw)
    [] OTHER -> LET Position(of) == unjudged /\ (ty.t = "tuple" => InAPosition(of))
                    places == Places(ty, raw)
                IN IF ~Fits(ty, raw) THEN Ended
                   ELSE Gathered(ty, raw, [i \in DOMAIN places |-> DecodedBelow(places[i].ty, places[i].held, Position(places[i].ty))])
=============================================================================
