---------------------------- MODULE HttpExchange ----------------------------
(* One http_rest call from end to end: a generated client builds a request out of its           *)
(* arguments, the transport carries it or fails, the generated dispatcher of a Rust or a         *)
(* TypeScript server matches the route, reads the arguments back, runs the implementation and   *)
(* answers, and the client reads its outcome off the status.  The service is any accepted one   *)
(* of Services, so routes may overlap, statuses may collide and names may meet wherever the      *)
(* macro lets them.                                                                             *)
EXTENDS ServiceDeclaration

CONSTANTS Services,      \* the services under consideration, before the macro judges them
          Texts,         \* the texts an argument, a header or a list element may hold
          Lists,         \* the lists of such texts an argument may hold
          Refused        \* a text the message's own validation refuses

(* A service is a sequence of operations, each bound to a template or to its wire name.          *)
ASSUME ServicesAreSequences ==
  \A s \in Services :
    /\ Len(s.operations) \in Nat /\ DOMAIN s.operations = 1..Len(s.operations)
    /\ \A i \in DOMAIN s.operations : Shape(s.operations[i]).path \in Templates

(* A type is recorded under the kind its text is read as (scalar_kind), and an answer's headers and *)
(* their types are lists.                                                                        *)
ASSUME HeadersAreTyped ==
  \A s \in Services :
    \A i \in DOMAIN s.operations :
      LET op == s.operations[i]
      IN  /\ Shape(op).headerOut \in Seq(STRING) /\ Shape(op).errorHeaderOut \in Seq(STRING)
          /\ \A types \in {op.success.extras, op.error.extras} :
               /\ Len(types) \in Nat /\ DOMAIN types = 1..Len(types)
               /\ \A k \in DOMAIN types : types[k].reads \in {"text", "number"}

ASSUME TextsAreSequences ==
  Numerals \subseteq STRING /\ Texts \subseteq Seq(STRING) /\ Lists \subseteq Seq(Seq(STRING))

(* The arguments of an operation and what binds them are lists.  Arguments differ in name, as do the *)
(* members of a message; a list is of texts or numbers.                                          *)
ASSUME ArgumentsAreTyped ==
  \A s \in Services :
    \A i \in DOMAIN s.operations :
      LET op == s.operations[i]
      IN  /\ \A list \in {op.args, Shape(op).headerIn, Shape(op).parts} : list \in Seq(ToSet(list))
          /\ IsInjective([k \in DOMAIN op.args |-> op.args[k].name])
          /\ \A arg \in ToSet(op.args) :
               /\ arg.type.holds \in {"text", "number", "file", "object"}
               /\ arg.type.reads \in {"text", "number"}
               /\ arg.type.list => arg.type.holds \in {"text", "number"}
               /\ IsInjective([m \in DOMAIN arg.type.fields |-> arg.type.fields[m].name])

(* A text holds characters, and no escape of one.                           *)
ASSUME TextsAreUnescaped ==
  LET Codes == {e[2] : e \in Escapes}
  IN  /\ Numerals \cap Codes = {}
      /\ \A text \in Texts \cup UNION {ToSet(list) : list \in Lists} : ToSet(text) \cap Codes = {}

Clients == [rust |-> RustClient, ts |-> TsClient,
            dart |-> DartClient, kotlin |-> KotlinClient, swift |-> SwiftClient]

VARIABLES service,       \* the service both sides were generated from
          client,        \* the language of the client
          server,        \* the language of the server: rust or ts
          called,        \* the operation called, by its place in the service
          args,          \* the caller's arguments: name -> value
          phase,         \* calling, sent, handling, answered or over
          request,       \* what the client put on the wire
          ran,           \* the operation whose implementation was called, and its arguments
          result,        \* what the implementation answered
          response,      \* what the server put on the wire
          outcome        \* what the client's method answered

vars == <<service, client, server, called, args, phase, request, ran, result, response, outcome>>
call == <<service, client, server, called, args>>

Nothing == [is |-> "none"]
Op == service.operations[called]
Fault(kind) == [is |-> "fault", kind |-> kind]

----------------------------------------------------------------------------
(* Values of a type, as a caller or an implementation may hold them.        *)

ScalarValues(type) ==
  CASE type.holds = "text"   -> {TextValue(t) : t \in Texts}
    [] type.holds = "number" -> {NumberValue(n) : n \in Numerals}
    [] OTHER                 -> {FileValue("f")}

ListValues(type) ==
  IF type.holds = "number"
  THEN {ListValue(<<>>)} \cup {ListValue(<<NumberValue(n), NumberValue(n)>>) : n \in Numerals}
  ELSE {ListValue([i \in DOMAIN list |-> TextValue(list[i])]) : list \in Lists}

MessageValues(type) ==
  LET members == {type.fields[i].name : i \in DOMAIN type.fields}
      Type(m) == type.fields[CHOOSE i \in DOMAIN type.fields : type.fields[i].name = m].type
  IN  {ObjectValue(f) : f \in {f \in [members -> UNION {ScalarValues(Type(m)) : m \in members}] :
                                 \A m \in members : Conforms(Type(m), f[m])}}

Values(type) ==
  (IF type.optional THEN {Null} ELSE {}) \cup
  (CASE type.holds = "object" -> MessageValues(type)
     [] type.list             -> ListValues(type)
     [] OTHER                 -> ScalarValues(type))

----------------------------------------------------------------------------
(* The message of an operation, and its validation.                         *)

MessageFields(op) == {MessageArguments(op)[i].name : i \in DOMAIN MessageArguments(op)}

MessageOf(op, given) ==
  IF Inputs(op) = "named" THEN given[Head(MessageArguments(op)).name]
  ELSE ObjectValue([name \in MessageFields(op) |-> given[name]])

Valid(message) ==
  LET Fine(value) == value # TextValue(Refused)
  IN  IF message.is = "object" THEN \A name \in DOMAIN message.of : Fine(message.of[name])
      ELSE Fine(message)

----------------------------------------------------------------------------
(* The client: the request of a call.                                       *)

(* An entry of a query, a header list or a part list.                      *)
Entry(name, value) == [name |-> name, of |-> value]
TextEntry(name, text) == Entry(name, TextValue(text))

PlaceholderValue(op, message, name) ==
  IF BoundWhole(op) THEN message ELSE message.of[name]

(* path_build: the template's literals, each placeholder percent-encoded, one token after another. *)
TokenText(op, lang, message, token) ==
  IF token.is = "literal" THEN <<token.of>>
  ELSE PercentEncoded(SegmentText(Clients[lang], PlaceholderValue(op, message, token.of)))

TokensWritten(op, lang, message) ==
  LET written[n \in 0..Len(Shape(op).path)] ==
        IF n = 0 THEN <<>> ELSE written[n - 1] \o TokenText(op, lang, message, Shape(op).path[n])
  IN  written

PathOf(op, lang, message) == TokensWritten(op, lang, message)[Len(Shape(op).path)]

(* The arguments of the message no placeholder binds, in declaration order, and held.            *)
Loose(op, given) ==
  Only(MessageArguments(op),
       {arg \in ToSet(MessageArguments(op)) :
          arg.name \notin ToSet(PlaceholderNames(Shape(op).path)) /\ given[arg.name] # Null})

(* query_build: each of them on a bodyless method, under its key.           *)
QueryOf(op, lang, given) ==
  IF CarriesABody(Shape(op).method) \/ Inputs(op) # "generated" THEN <<>>
  ELSE [i \in DOMAIN Loose(op, given) |->
          TextEntry(Loose(op, given)[i].name,
                    PercentEncoded(FieldText(Clients[lang], given[Loose(op, given)[i].name])))]

(* header_in_build: one header per binding that holds a value.              *)
HeadersOf(op, lang, given) ==
  LET held == Only(Shape(op).headerIn, {h \in ToSet(Shape(op).headerIn) : given[h.parameter] # Null})
  IN  [i \in DOMAIN held |->
         TextEntry(held[i].name, SegmentText(Clients[lang], given[held[i].parameter]))]

(* multipart_parts_build: a text part per held field, then a file part per binding.              *)
PartsOf(op, lang, given) ==
  IF Shape(op).body # "multipart" THEN <<>>
  ELSE [i \in DOMAIN Loose(op, given) |->
          TextEntry(Loose(op, given)[i].name,
                    FieldText(Clients[lang], given[Loose(op, given)[i].name]))]
       \o [i \in DOMAIN Shape(op).parts |->
             Entry(Shape(op).parts[i].name, given[Shape(op).parts[i].parameter])]

BodyOf(op, message) ==
  IF CarriesABody(Shape(op).method) /\ Shape(op).body # "multipart" THEN message ELSE Nothing

RequestOf(op, lang, given) ==
  [method |-> Shape(op).method, path |-> PathOf(op, lang, MessageOf(op, given)),
   query |-> QueryOf(op, lang, given), headers |-> HeadersOf(op, lang, given),
   parts |-> PartsOf(op, lang, given), body |-> BodyOf(op, MessageOf(op, given))]

LegalHeaders(headers) == \A i \in DOMAIN headers : LegalHeaderValue(headers[i].of.of)

(* What stops a call before the transport is reached: a message its own validation refuses, for  *)
(* the two clients that check it, and a header value with a character no header may hold.        *)
StopsItself(op, lang, given) ==
  \/ Clients[lang].validates /\ ~Valid(MessageOf(op, given))
  \/ ~LegalHeaders(HeadersOf(op, lang, given))

----------------------------------------------------------------------------
(* The server: the route, and the arguments read back.                      *)

(* The first entry under a name, as a header list, a query or a part list is looked up.          *)
Find(entries, name, nth) ==
  LET those == Only(entries, {entry \in ToSet(entries) : entry.name = name})
  IN  IF nth <= Len(those) THEN those[nth].of ELSE Nothing

(* The arm a request reaches: 0 where no route answers it.                  *)
RouteOf(operations, req) ==
  SelectInSeq(operations,
              LAMBDA op : op.method = req.method /\ MatchPath(op.path, req.path) # NoMatch)

Routes(operations) ==
  [i \in DOMAIN operations |->
     [method |-> Shape(operations[i]).method, path |-> Shape(operations[i]).path]]

(* header_in_let and RequestHeader: an absent header is null, for an optional binding to accept. *)
HeaderValue(type, name, headers) ==
  LET header == Find(headers, name, 1)
  IN  IF header = Nothing THEN Null ELSE Decoded(type, header.of)

(* take_part removes what it finds, so in Rust a second reader of one name gets the second part  *)
(* of that name; the TypeScript dispatcher finds the first each time.                            *)
PartValue(lang, op, index, parts) ==
  LET name == Shape(op).parts[index].name
      earlier == {j \in 1..(index - 1) : Shape(op).parts[j].name = name}
  IN  Find(parts, name, IF lang = "rust" THEN Cardinality(earlier) + 1 ELSE 1)

FieldPart(lang, op, name, parts) ==
  LET bindings == {j \in DOMAIN Shape(op).parts : Shape(op).parts[j].name = name}
  IN  Find(parts, name, IF lang = "rust" THEN Cardinality(bindings) + 1 ELSE 1)

CapturedText(op, name, captured) ==
  captured[SelectInSeq(PlaceholderNames(Shape(op).path), LAMBDA each : each = name)]

(* message_value_for_generated: each field from its placeholder, its part, the query or the body. *)
GeneratedField(lang, op, req, captured, name) ==
  LET type == TypeOfArgument(op, name)
      part == FieldPart(lang, op, name, req.parts)
      query == Find(req.query, name, 1)
  IN  IF name \in ToSet(PlaceholderNames(Shape(op).path))
      THEN Decoded(type, CapturedText(op, name, captured))
      ELSE IF Shape(op).body = "multipart"
      THEN IF part.is = "string" THEN Decoded(type, part.of) ELSE Null
      ELSE IF CarriesABody(Shape(op).method)
      THEN IF req.body.is = "object" /\ name \in DOMAIN req.body.of THEN req.body.of[name] ELSE Null
      ELSE IF query = Nothing THEN Null ELSE Decoded(type, PercentDecoded(query.of))

(* message_value_for_named: the whole body, the one placeholder, or the body with each           *)
(* placeholder's text over the member it names, as a string.                                     *)
NamedValue(op, req, captured) ==
  LET names == PlaceholderNames(Shape(op).path)
      base == IF req.body.is = "object" THEN req.body.of ELSE <<>>
  IN  IF names = <<>> THEN req.body
      ELSE IF BoundWhole(op) THEN Decoded(Head(MessageArguments(op)).type, captured[1])
      ELSE ObjectValue([n \in DOMAIN base \cup ToSet(names) |->
             IF n \in ToSet(names) THEN TextValue(CapturedText(op, n, captured)) ELSE base[n]])

(* message_value: what is handed to the message's own reader; nothing where the whole body is    *)
(* the message and does not parse.                                                               *)
MessageRead(lang, op, req, captured) ==
  CASE Inputs(op) = "empty" ->
         IF CarriesABody(Shape(op).method) /\ Shape(op).body # "multipart" THEN req.body
         ELSE ObjectValue([n \in {} |-> Null])
    [] Inputs(op) = "named" -> NamedValue(op, req, captured)
    [] OTHER -> ObjectValue([n \in MessageFields(op) |-> GeneratedField(lang, op, req, captured, n)])

(* Whether the message's own type takes the value: serde's reader, and the Zod schema.           *)
Reads(op, value) ==
  CASE Inputs(op) = "empty" -> value.is = "object"
    [] Inputs(op) = "named" ->
         LET type == Head(MessageArguments(op)).type
         IN  IF type.holds = "object"
             THEN \/ type.optional /\ value = Null
                  \/ /\ value.is = "object"
                     /\ \A i \in DOMAIN type.fields :
                          LET member == type.fields[i]
                          IN  IF member.name \in DOMAIN value.of
                              THEN Conforms(member.type, value.of[member.name]) ELSE member.type.optional
             ELSE Conforms(type, value)
    [] OTHER -> \A name \in MessageFields(op) : Conforms(TypeOfArgument(op, name), value.of[name])

(* What the arm makes of the request: the arguments of the implementation, or the first of its   *)
(* refusals.  Rust reads headers, then parts, then the message, and tells a value that will not  *)
(* read from one that will not validate; TypeScript has one kind for both.                       *)
ArgumentsRead(lang, op, req, captured) ==
  LET header == [i \in DOMAIN Shape(op).headerIn |->
                   HeaderValue(TypeOfArgument(op, Shape(op).headerIn[i].parameter),
                               Shape(op).headerIn[i].name, req.headers)]
      part == [i \in DOMAIN Shape(op).parts |-> PartValue(lang, op, i, req.parts)]
      message == MessageRead(lang, op, req, captured)
      unread == IF lang = "rust" THEN "undeserializable_payload" ELSE "failed_validation"
      Misfit(i) == ~Conforms(TypeOfArgument(op, Shape(op).headerIn[i].parameter), header[i])
      refusals ==
        << [if |-> message = Nothing, kind |-> "undeserializable_payload"],
           [if |-> \E i \in DOMAIN header : Misfit(i) /\ header[i] = Null, kind |-> "failed_validation"],
           [if |-> \E i \in DOMAIN header : Misfit(i), kind |-> unread],
           [if |-> \E i \in DOMAIN part :
                     IF lang = "rust" THEN part[i].is # "file" ELSE part[i] = Nothing,
            kind |-> "failed_validation"],
           [if |-> ~Reads(op, message), kind |-> unread],
           [if |-> ~Valid(message), kind |-> "failed_validation"] >>
      first == SelectInSeq(refusals, LAMBDA refusal : refusal.if)
      Binding(bindings, name) == SelectInSeq(bindings, LAMBDA b : b.parameter = name)
  IN  IF first # 0 THEN Fault(refusals[first].kind)
      ELSE [is |-> "arguments",
            of |-> [name \in ArgumentNames(op) |->
              IF Binding(Shape(op).headerIn, name) # 0 THEN header[Binding(Shape(op).headerIn, name)]
              ELSE IF Binding(Shape(op).parts, name) # 0 THEN part[Binding(Shape(op).parts, name)]
              ELSE IF Inputs(op) = "named" THEN message
              ELSE message.of[name]]]

----------------------------------------------------------------------------
(* The server: what an implementation may answer, and the response to it.   *)

HeaderTexts == {<<"w">>} \cup {<<atom>> : atom \in Illegal}

Tuples(types) ==
  {t \in [DOMAIN types -> UNION {Values(types[i]) : i \in DOMAIN types}] :
     \A i \in DOMAIN types : t[i] \in Values(types[i])}

(* An implementation answers its success, one of its declared errors, or panics.  `type` is the   *)
(* content type of a bytes or stream answer, `range` the content range of a partial one.         *)
Results(op) ==
  LET types == IF Shape(op).body \in {"bytes", "stream"} THEN HeaderTexts ELSE {<<>>}
      ranges == {<<>>} \cup (IF Shape(op).body = "stream" THEN HeaderTexts ELSE {})
      variants == IF Shape(op).errors = <<>> THEN {1} ELSE DOMAIN Shape(op).errors
  IN  {[is |-> "panic"]} \cup
      (IF op.oneWay THEN {[is |-> "ok", headers |-> <<>>, type |-> <<>>, range |-> <<>>]}
       ELSE [is : {"ok"}, headers : Tuples(HeaderTypes(op)), type : types, range : ranges]
            \cup [is : {"declared"}, variant : variants, headers : Tuples(ErrorHeaderTypes(op))])

DefaultErrorStatus == 422

(* The status of a declared error: its variant's, or the fixed one.         *)
ErrorStatus(op, variant) ==
  IF Shape(op).errors = <<>> THEN DefaultErrorStatus ELSE Shape(op).errors[variant]

(* The default fault handler.                                               *)
FaultStatus(kind) ==
  CASE kind = "unknown_operation" -> 404 [] kind = "handler_panic" -> 500 [] OTHER -> 400

FaultResponse(kind) == [status |-> FaultStatus(kind), headers |-> <<>>, body |-> Fault(kind)]

(* checked_header_pushes: an absent optional element is pushed nowhere.     *)
HeadersPushed(lang, names, values) ==
  LET rule == IF lang = "rust" THEN RustClient.segment ELSE TsClient.segment
      all == [i \in DOMAIN names |-> Entry(names[i], IF values[i] = Null THEN Nothing
                                                     ELSE TextValue(Rendered(rule, <<>>, values[i])))]
  IN  Only(all, {header \in ToSet(all) : header.of # Nothing})

AnswerBody(op) == IF op.oneWay \/ IsUnit(op) THEN Nothing ELSE [is |-> "answer", of |-> op.wire]
ErrorBody(op, variant) == [is |-> "error", of |-> op.wire, variant |-> variant]

OkHeaders(lang, op, answered) ==
  (IF Shape(op).body \in {"bytes", "stream"} THEN <<TextEntry("content-type", answered.type)>> ELSE <<>>)
  \o (IF answered.range # <<>> THEN <<TextEntry("content-range", answered.range)>> ELSE <<>>)
  \o HeadersPushed(lang, Shape(op).headerOut, answered.headers)

(* Mutant: an answer with a header that cannot go out is refused as a call that is not valid.    *)
CheckedAsValidation(status, headers, body) ==
  IF LegalHeaders(headers) THEN [status |-> status, headers |-> headers, body |-> body]
  ELSE FaultResponse("failed_validation")

(* checked_header_push: every header the arm writes is judged before the response is built.      *)
Checked(status, headers, body) ==
  IF LegalHeaders(headers)
  THEN [status |-> status, headers |-> headers, body |-> body]
  ELSE FaultResponse("handler_panic")

(* answer_block: one-way and unit, JSON, bytes and stream, the declared error, the panic.         *)
ResponseTo(lang, op, answered) ==
  CASE answered.is = "panic" -> FaultResponse("handler_panic")
    [] answered.is = "declared" ->
         Checked(ErrorStatus(op, answered.variant),
                 HeadersPushed(lang, Shape(op).errorHeaderOut, answered.headers),
                 ErrorBody(op, answered.variant))
    [] op.oneWay /\ answered.is = "ok" -> Checked(Shape(op).ok, <<>>, Nothing)
    [] OTHER -> Checked(IF answered.range # <<>> THEN 206 ELSE Shape(op).ok,
                        OkHeaders(lang, op, answered), AnswerBody(op))

----------------------------------------------------------------------------
(* The client: the outcome of a response, by its status.                    *)

(* header_value_read_lets: an absent header is null, for an optional element to accept.           *)
HeadersRead(names, types, headers) ==
  [i \in DOMAIN names |-> HeaderValue(types[i], names[i], headers)]

HeaderText(headers, name) ==
  IF Find(headers, name, 1) = Nothing THEN <<>> ELSE Find(headers, name, 1).of

HeadersFit(types, values) == \A i \in DOMAIN values : Conforms(types[i], values[i])

(* reply_decode's success arm: the body read as the success type, except where the type has no   *)
(* JSON body to read, and every declared header read back.                                       *)
SuccessRead(op, reply, partial) ==
  LET values == HeadersRead(Shape(op).headerOut, HeaderTypes(op), reply.headers)
      typed == Shape(op).body \in {"bytes", "stream"}
      bare == op.oneWay \/ IsUnit(op) \/ typed
  IN  IF (~bare /\ reply.body # AnswerBody(op)) \/ ~HeadersFit(HeaderTypes(op), values)
      THEN Fault("undeserializable_payload")
      ELSE [is |-> "ok", body |-> IF op.oneWay \/ IsUnit(op) THEN Nothing ELSE reply.body, headers |-> values,
            type |-> IF typed THEN HeaderText(reply.headers, "content-type") ELSE <<>>,
            range |-> IF partial THEN HeaderText(reply.headers, "content-range") ELSE <<>>]

DeclaredRead(op, reply) ==
  LET values == HeadersRead(Shape(op).errorHeaderOut, ErrorHeaderTypes(op), reply.headers)
  IN  IF reply.body.is # "error" THEN Fault("undeserializable_payload")
      ELSE IF reply.body.of # op.wire \/ ~HeadersFit(ErrorHeaderTypes(op), values)
      THEN Fault("undeserializable_payload")
      ELSE [is |-> "declared", variant |-> reply.body.variant, headers |-> values]

FaultRead(reply) == IF reply.body.is = "fault" THEN reply.body ELSE Fault("undeserializable_payload")

Declares(op, status) ==
  ~op.oneWay /\ status \in (IF Shape(op).errors = <<>> THEN {DefaultErrorStatus} ELSE ToSet(Shape(op).errors))

(* The ladder every client reads a status by: a partial stream, the declared success, a declared  *)
(* error, the fixed fault statuses, and a fault for any other.                                   *)
OutcomeOf(op, reply) ==
  IF Shape(op).body = "stream" /\ reply.status = 206 THEN SuccessRead(op, reply, TRUE)
  ELSE IF reply.status = Shape(op).ok THEN SuccessRead(op, reply, FALSE)
  ELSE IF Declares(op, reply.status) THEN DeclaredRead(op, reply)
  ELSE IF reply.status \in {400, 404, 500} THEN FaultRead(reply)
  ELSE Fault("undeserializable_payload")

----------------------------------------------------------------------------
Init ==
  /\ service \in {s \in Services : Accepted(s)}
  /\ client \in DOMAIN Clients
  /\ server \in {"rust", "ts"}
  /\ called \in DOMAIN service.operations
  /\ args \in {a \in [ArgumentNames(Op) -> UNION {Values(Op.args[i].type) : i \in DOMAIN Op.args}] :
                 \A name \in ArgumentNames(Op) : a[name] \in Values(TypeOfArgument(Op, name))}
  /\ phase = "calling"
  /\ request = Nothing /\ ran = Nothing /\ result = Nothing
  /\ response = Nothing /\ outcome = Nothing

(* client_method up to the transport: a call that stops itself answers a fault of its own.        *)
Call ==
  /\ phase = "calling"
  /\ IF StopsItself(Op, client, args)
     THEN /\ phase' = "over" /\ outcome' = Fault("failed_validation")
          /\ UNCHANGED request
     ELSE /\ phase' = "sent" /\ request' = RequestOf(Op, client, args)
          /\ UNCHANGED outcome
  /\ UNCHANGED <<call, ran, result, response>>

Answer(reply) == phase' = "answered" /\ response' = reply

(* dispatch: the document, the first arm whose method and template fit, or no route at all; then  *)
(* the arm's own reading of the request, up to the call of the implementation.                   *)
Dispatch ==
  LET operations == service.operations
      arm == RouteOf(Routes(operations), request)
      captured == MatchPath(Shape(operations[arm]).path, request.path).captured
      arguments == ArgumentsRead(server, operations[arm], request, captured)
  IN  /\ phase = "sent"
      /\ IF request.method = "GET" /\ request.path = service.document
         THEN Answer([status |-> 200, headers |-> <<>>, body |-> [is |-> "document"]]) /\ UNCHANGED ran
         ELSE IF arm = 0
         THEN Answer(FaultResponse("unknown_operation")) /\ UNCHANGED ran
         ELSE IF arguments.is = "fault"
         THEN Answer(FaultResponse(arguments.kind)) /\ UNCHANGED ran
         ELSE /\ phase' = "handling" /\ ran' = [is |-> "call", op |-> arm, args |-> arguments.of]
              /\ UNCHANGED response
      /\ UNCHANGED <<call, request, result, outcome>>

(* The implementation answers or panics, and the arm writes the response.   *)
Handle ==
  /\ phase = "handling"
  /\ \E answered \in Results(service.operations[ran.op]) :
       /\ result' = answered
       /\ Answer(ResponseTo(server, service.operations[ran.op], answered))
  /\ UNCHANGED <<call, request, ran, outcome>>

(* The request or the response is lost on the way.                          *)
Lose ==
  /\ phase \in {"sent", "answered"}
  /\ phase' = "over"
  /\ UNCHANGED <<call, request, ran, result, response, outcome>>

(* The transport fails under the client, whatever has become of the request.                     *)
TransportFails ==
  /\ phase # "calling" /\ outcome = Nothing
  /\ outcome' = Fault("transport_failure")
  /\ UNCHANGED <<call, phase, request, ran, result, response>>

(* client_method after the transport.                                       *)
Read ==
  /\ phase = "answered" /\ outcome = Nothing
  /\ phase' = "over" /\ outcome' = OutcomeOf(Op, response)
  /\ UNCHANGED <<call, request, ran, result, response>>

Next == Call \/ Dispatch \/ Handle \/ Lose \/ TransportFails \/ Read

Spec == Init /\ [][Next]_vars

----------------------------------------------------------------------------
(* What an author may and may not rely on, stated over declarations alone.  *)

(* Every path segment is one literal or one placeholder.  The macro takes a template with more in *)
(* a segment: what a placeholder reads up to the next slash is then not what was written for it.  *)
Segmented(path) ==
  \A i \in DOMAIN path : (path[i] = Literal("/")) <=> (i % 2 = 1)

(* Two templates some path could both answer; of one that is not read by segments, any path.      *)
Overlap(a, b) ==
  /\ a.method = b.method
  /\ Segmented(a.path) =>
       /\ Len(a.path) = Len(b.path)
       /\ \A i \in DOMAIN a.path :
            \/ a.path[i] = b.path[i]
            \/ a.path[i] # Literal("/") /\ b.path[i].is = "placeholder"
            \/ b.path[i] # Literal("/") /\ a.path[i].is = "placeholder"

(* An operation declared above answers paths of this one: the author wrote two routes that meet,  *)
(* and the first is the one that answers.  Two operations with no http(...) never do.            *)
Shadowed(index) ==
  \E j \in 1..(index - 1) :
    /\ service.operations[j].bound \/ service.operations[index].bound
    /\ Overlap(Shape(service.operations[j]), Shape(service.operations[index]))

(* Every placeholder of the template is written with at least one atom.  One that is not leaves   *)
(* its segment empty, and the path may be one another operation answers.                         *)
Filled(op, lang, given) ==
  \A i \in DOMAIN Shape(op).path :
    Shape(op).path[i].is = "placeholder" =>
      Len(SegmentText(Clients[lang], PlaceholderValue(op, MessageOf(op, given), Shape(op).path[i].of)))
        \in Nat \ {0}

(* A list the client joins with commas is the list the server splits; an empty one, and one whose *)
(* elements hold commas, is not.                                                                 *)
ListTravels(rule, value) ==
  value.is = "list" =>
    /\ rule = "joined" /\ value.of # <<>>
    /\ \A i \in DOMAIN value.of : Comma \notin ToSet(Scalar(value.of[i]))

TextTravels(rule, type, value) == ListTravels(rule, value) /\ type.reads = type.holds

(* Where each argument travels, and whether it can there.  A placeholder is filled, is not absent, *)
(* and on a message of its own type is a text member of it; a part is a file of a multipart        *)
(* operation, and two readers do not share a part's name.                                        *)
Carried(op, lang, given) ==
  LET shape == Shape(op)
      holes == ToSet(PlaceholderNames(shape.path))
      message == MessageOf(op, given)
      partNames == {shape.parts[i].name : i \in DOMAIN shape.parts}
  IN  /\ Segmented(shape.path) /\ Filled(op, lang, given)
      /\ \A i \in DOMAIN shape.headerIn :
           LET name == shape.headerIn[i].parameter
           IN  TextTravels(Clients[lang].segment, TypeOfArgument(op, name), given[name])
      /\ IF Inputs(op) = "named"
         THEN \A name \in holes :
                /\ BoundWhole(op) => TextTravels(Clients[lang].segment, Head(MessageArguments(op)).type, message)
                /\ ~BoundWhole(op) =>
                     message.is = "object" /\ name \in DOMAIN message.of /\ message.of[name].is = "string"
         ELSE \A name \in MessageFields(op) :
                IF name \in holes
                THEN /\ given[name] # Null
                     /\ TextTravels(Clients[lang].segment, TypeOfArgument(op, name), given[name])
                ELSE shape.body = "multipart" \/ ~CarriesABody(shape.method) =>
                       TextTravels(Clients[lang].value, TypeOfArgument(op, name), given[name])
      /\ shape.parts # <<>> => shape.body = "multipart"
      /\ \A i \in DOMAIN shape.parts : given[shape.parts[i].parameter].is = "file"
      /\ IsInjective([i \in DOMAIN shape.parts |-> shape.parts[i].name])
      /\ partNames \cap MessageFields(op) = {}

(* The headers of an answer that come back as they were written.            *)
HeadersTravel(lang, types, values) ==
  \A i \in DOMAIN values :
    TextTravels(IF lang = "rust" THEN RustClient.segment ELSE TsClient.segment, types[i], values[i])

(* What the client is owed for an answer of the implementation.             *)
Owed(op, lang, answered) ==
  CASE answered.is = "panic" -> Fault("handler_panic")
    [] answered.is = "declared" ->
         IF \A i \in DOMAIN answered.headers :
              answered.headers[i] # Null =>
                LegalHeaderValue(Rendered("joined", <<>>, answered.headers[i]))
         THEN answered ELSE Fault("handler_panic")
    [] OTHER ->
         IF /\ LegalHeaderValue(answered.type) /\ LegalHeaderValue(answered.range)
            /\ \A i \in DOMAIN answered.headers :
                 answered.headers[i] # Null =>
                   LegalHeaderValue(Rendered("joined", <<>>, answered.headers[i]))
         THEN [is |-> "ok", body |-> AnswerBody(op), headers |-> answered.headers,
               type |-> answered.type, range |-> answered.range]
         ELSE Fault("handler_panic")

(* The status of an answer says which answer it is: the author may declare an ok_status, an       *)
(* error_status or a 206 that another answer of the operation goes out under.                    *)
Unambiguous(op, answered) ==
  LET successes == {Shape(op).ok} \cup (IF Shape(op).body = "stream" THEN {206} ELSE {})
      panics == 500 \notin successes /\ ~Declares(op, 500)
  IN  CASE answered.is = "panic"    -> panics
        [] answered.is = "declared" -> ErrorStatus(op, answered.variant) \notin successes /\ panics
        [] OTHER -> (Shape(op).body = "stream" /\ answered.range = <<>> => Shape(op).ok # 206) /\ panics

----------------------------------------------------------------------------
(* The properties.                                                          *)

TypeOK ==
  /\ service \in Services /\ called \in DOMAIN service.operations
  /\ phase \in {"calling", "sent", "handling", "answered", "over"}
  /\ ran # Nothing => ran.op \in DOMAIN service.operations
  /\ phase = "handling" => ran # Nothing /\ result = Nothing
  /\ (ran # Nothing /\ phase = "answered") => result # Nothing
  /\ outcome # Nothing => outcome.is \in {"ok", "declared", "fault"}

(* A request whose placeholders are filled reaches the operation it was made for, whatever else   *)
(* its arguments hold, unless an operation declared above it answers the same paths; nor is it    *)
(* answered with the service's OpenAPI document.  It is percent-encoding, the greed of a          *)
(* placeholder, the order of the arms and three refusals of the macro that make it so.            *)
RightHandler ==
  Segmented(Shape(Op).path) /\ Filled(Op, client, args) /\ ~Shadowed(called) =>
    /\ ran # Nothing => ran.op = called
    /\ response # Nothing => response.body.is # "document"

(* The implementation is called with the caller's own arguments, whichever two languages speak    *)
(* and wherever each argument travels, as long as Carried: path, query, header, part and body.    *)
ArgumentsArrive ==
  (ran # Nothing /\ ran.op = called /\ Carried(Op, client, args)) => ran.args = args

(* No server refuses a call it can read: a request whose arguments are carried, whose message is  *)
(* valid and whose route is its own is handed to the implementation.                             *)
ReachesTheHandler ==
  (phase = "answered" /\ ran = Nothing /\ Carried(Op, client, args) /\ Valid(MessageOf(Op, args))) =>
    Shadowed(called)

(* The answer is not the document's, nor another operation's.               *)
ItsOwnAnswer ==
  /\ response # Nothing => response.body.is # "document"
  /\ ran # Nothing => ran.op = called

(* The client's outcome is the implementation's answer: the same success or declared error, its   *)
(* headers, its content type and range, or the panic; and an outcome that is no fault was         *)
(* answered by the implementation.                                                               *)
OutcomeIsTheHandlers ==
  outcome \notin {Nothing, Fault("transport_failure")} /\ ItsOwnAnswer =>
    IF result = Nothing
    THEN Shape(Op).ok \notin {400, 404, 500} => outcome.is = "fault"
    ELSE /\ Unambiguous(Op, result)
         /\ result.is # "panic" =>
              HeadersTravel(server, IF result.is = "ok" THEN HeaderTypes(Op) ELSE ErrorHeaderTypes(Op),
                            result.headers)
         => outcome = Owed(Op, server, result)

(* A client told that its message did not validate, or that no route answers, may call again: the *)
(* implementation has not run and never will for this call.                                      *)
FaultMeansNotRun ==
  outcome \in {Fault("failed_validation"), Fault("unknown_operation")} =>
    ran = Nothing /\ phase # "sent"

(* No header goes out, in either direction, with a character no header may hold, whatever the     *)
(* caller and the implementation hold.                                                           *)
HeadersAreLegal ==
  LET Clean(headers) == \A i \in DOMAIN headers : ToSet(headers[i].of.of) \cap Illegal = {}
  IN  /\ request # Nothing => Clean(request.headers)
      /\ response # Nothing => Clean(response.headers)
=============================================================================
