------------------------- MODULE ServiceDeclaration -------------------------
(* What #[service_schema] accepts: the operations an author declares, the shape http_rest gives *)
(* each, and the refusals the macro stops the build with.  The state machine of an exchange     *)
(* (HttpExchange) runs over accepted services only, so every property it keeps is a statement   *)
(* about these refusals too.                                                                    *)
(*                                                                                              *)
(* An operation is a record                                                                     *)
(*   wire, ts          its two names                                                            *)
(*   args              its arguments after the context: a sequence of [name, type]              *)
(*   bound             whether it wrote http(...); the fields below are read only if it did     *)
(*   method, path, body, headerIn, parts, headerOut, errorHeaderOut, errors, ok                 *)
(*                     what http(...) said: body is json, bytes, stream or multipart, headerIn  *)
(*                     and parts are sequences of [name, parameter], errors the status of each  *)
(*                     variant of the declared error, ok is 0 where ok_status was not written   *)
(*   oneWay, success, error                                                                     *)
(*                     its outcome: success is [is, extras] (unit, value, bytes or stream, and  *)
(*                     the types beside it in a tuple), error is [extras, untagged]             *)
EXTENDS HttpWire

CarriesABody(method) == method \in {"POST", "PUT", "PATCH"}

IsUnit(op) == op.success.is = "unit" /\ op.success.extras = <<>>

DefaultOkStatus(op) == IF op.oneWay \/ IsUnit(op) THEN 204 ELSE 200

(* HttpShape::of: what http(...) said, or POST to the wire name.            *)
Shape(op) ==
  IF op.bound
  THEN [method |-> op.method, path |-> op.path, body |-> op.body,
        headerIn |-> op.headerIn, parts |-> op.parts,
        headerOut |-> op.headerOut, errorHeaderOut |-> op.errorHeaderOut, errors |-> op.errors,
        ok |-> IF op.ok = 0 THEN DefaultOkStatus(op) ELSE op.ok]
  ELSE [method |-> "POST", path |-> <<Literal("/"), Literal(op.wire)>>, body |-> "json",
        headerIn |-> <<>>, parts |-> <<>>, headerOut |-> <<>>, errorHeaderOut |-> <<>>,
        errors |-> <<>>, ok |-> DefaultOkStatus(op)]

(* header_types: the elements of the success and error tuples that travel as headers, which are    *)
(* none where no header_out explains them.                                                      *)
HeaderTypes(op) == IF Shape(op).headerOut = <<>> THEN <<>> ELSE op.success.extras
ErrorHeaderTypes(op) == IF Shape(op).errorHeaderOut = <<>> THEN <<>> ELSE op.error.extras

Named(bindings) == {bindings[i].parameter : i \in DOMAIN bindings}

ArgumentNames(op) == {op.args[i].name : i \in DOMAIN op.args}
TypeOfArgument(op, name) == op.args[CHOOSE i \in DOMAIN op.args : op.args[i].name = name].type

(* operation_inputs: the arguments header_in and part leave to the message.  None is an empty    *)
(* message, exactly one is the message itself, more are the fields of a generated one.          *)
MessageArguments(op) ==
  LET claimed == IF op.bound THEN Named(op.headerIn) \cup Named(op.parts) ELSE {}
  IN  Only(op.args, {arg \in ToSet(op.args) : arg.name \notin claimed})

Inputs(op) ==
  CASE MessageArguments(op) = <<>>     -> "empty"
    [] Len(MessageArguments(op)) = 1   -> "named"
    [] OTHER                           -> "generated"

(* A named message that is itself a scalar of the wire.                     *)
IsScalarMessage(op) ==
  /\ Inputs(op) = "named"
  /\ Head(MessageArguments(op)).type.holds \in {"text", "number"}
  /\ ~Head(MessageArguments(op)).type.list /\ ~Head(MessageArguments(op)).type.optional

(* The message is the one placeholder.                                      *)
BoundWhole(op) == IsScalarMessage(op) /\ Len(PlaceholderNames(Shape(op).path)) = 1

----------------------------------------------------------------------------
(* The refusals, one conjunct of Accepted each: an accepted operation is one none of them names. *)

HeadersNameArguments(op) == Named(op.headerIn) \subseteq ArgumentNames(op)

MultipartIsReadable(op) ==
  /\ Named(op.parts) \subseteq ArgumentNames(op)
  /\ op.body = "multipart" => CarriesABody(op.method) /\ Inputs(op) # "named"
  /\ \A i \in DOMAIN MessageArguments(op) : MessageArguments(op)[i].type.holds # "file"

PlaceholdersBindFields(op) ==
  LET fields == {MessageArguments(op)[i].name : i \in DOMAIN MessageArguments(op)}
      bound == ToSet(PlaceholderNames(op.path))
  IN  Inputs(op) # "named" =>
        /\ bound \subseteq fields
        /\ ~CarriesABody(op.method) =>
             \A name \in fields \ bound : TypeOfArgument(op, name).optional

(* Mutant: the scalar of a bodyless method need not be in its path.          *)
BodylessSingleIsScalar(op) ==
  Inputs(op) = "named" /\ ~CarriesABody(op.method) => IsScalarMessage(op)

BodylessSingleIsThePath(op) ==
  Inputs(op) = "named" /\ ~CarriesABody(op.method) =>
    /\ IsScalarMessage(op)
    /\ PlaceholderNames(op.path) = <<Head(MessageArguments(op)).name>>

HeadersOutFitTheTuple(op) ==
  IF op.oneWay THEN op.headerOut = <<>> /\ op.errorHeaderOut = <<>>
  ELSE /\ Len(op.headerOut) = Len(op.success.extras)
       /\ Len(op.errorHeaderOut) = Len(op.error.extras)

BodyFitsTheSuccess(op) ==
  /\ op.body = "bytes"  => ~op.oneWay /\ op.success.is = "bytes"
  /\ op.body = "stream" => ~op.oneWay /\ op.success.is = "stream"

(* Mutant: only the length of the body is reserved.                         *)
ReservedLengthOnly(op, name, errorSide) == name = "content-length"

(* transport_reserved_header_writer: what http_rest writes under a name of its own.              *)
Reserved(op, name, errorSide) ==
  \/ name \in {"content-type", "content-length"}
  \/ name = "content-range" /\ ~errorSide /\ op.body = "stream"

(* Every header name legal for its side, and none twice in one list; a name stands for itself   *)
(* and every spelling of it that differs in case.                                               *)
HeaderNamesAreSafe(op) ==
  LET In == [i \in DOMAIN op.headerIn |-> op.headerIn[i].name]
  IN  /\ \A name \in ToSet(In) \cup ToSet(op.headerOut) : ~Reserved(op, name, FALSE)
      /\ \A name \in ToSet(op.errorHeaderOut) : ~Reserved(op, name, TRUE)
      /\ IsInjective(In) /\ IsInjective(op.headerOut) /\ IsInjective(op.errorHeaderOut)

UntaggedHasOneStatus(op) ==
  ~op.oneWay /\ op.error.untagged => Cardinality(ToSet(op.errors)) < 2

AcceptedOperation(op) ==
  op.bound =>
    /\ HeadersNameArguments(op)
    /\ MultipartIsReadable(op)
    /\ PlaceholdersBindFields(op)
    /\ BodylessSingleIsThePath(op)
    /\ HeadersOutFitTheTuple(op)
    /\ BodyFitsTheSuccess(op)
    /\ HeaderNamesAreSafe(op)
    /\ UntaggedHasOneStatus(op)

(* service_refusals: a wire name and a TypeScript spelling each name one operation.              *)
NamesAreDistinct(operations) ==
  \A i, j \in DOMAIN operations :
    i # j => operations[i].wire # operations[j].wire /\ operations[i].ts # operations[j].ts

(* openapi_path_refusal: no operation answers GET where the document is served; <<>> is a        *)
(* service that serves none.                                                                    *)
DocumentIsAlone(operations, document) ==
  \A i \in DOMAIN operations :
    Shape(operations[i]).method = "GET" => MatchPath(Shape(operations[i]).path, document) = NoMatch

Accepted(service) ==
  /\ \A i \in DOMAIN service.operations : AcceptedOperation(service.operations[i])
  /\ NamesAreDistinct(service.operations)
  /\ DocumentIsAlone(service.operations, service.document)
=============================================================================
