------------------------------ MODULE HttpWire ------------------------------
(* The texts one http_rest request or response carries outside its body, and the two judgements *)
(* every side makes of them: how a value becomes the text of a path segment, a query value, a   *)
(* header or a text part, and how that text is read back by the declared type of the argument.  *)
(*                                                                                              *)
(* A text is a sequence of atoms.  An atom is a run of characters the wire does not tell apart  *)
(* ("w", "7"), or one character it does: the comma that separates a list, the slash that        *)
(* separates path segments, a character no header value may hold, a percent escape.             *)
EXTENDS Naturals, SequencesExt

CONSTANTS Numerals,      \* the atoms that read as a number
          Illegal        \* the atoms no header value may hold

----------------------------------------------------------------------------
(* JSON values, as serde_json and JSON.parse hold them.                     *)

Null == [is |-> "null"]
TextValue(text) == [is |-> "string", of |-> text]
NumberValue(numeral) == [is |-> "number", of |-> numeral]
ListValue(values) == [is |-> "list", of |-> values]
ObjectValue(members) == [is |-> "object", of |-> members]
FileValue(handle) == [is |-> "file", of |-> handle]

(* The declared type of an argument, as a macro reads it off the signature: `holds` is what the *)
(* type accepts, `reads` the kind the type is recorded under, which is "text" for a brand over  *)
(* a number the macro has not seen; `fields` are the members of a message type.                 *)
Conforms(type, value) ==
  LET Holds(each) == CASE type.holds = "text"   -> each.is = "string"
                       [] type.holds = "number" -> each.is = "number"
                       [] type.holds = "file"   -> each.is = "file"
                       [] OTHER                 -> each.is = "object"
  IN  \/ type.optional /\ value = Null
      \/ type.list /\ value.is = "list" /\ \A i \in DOMAIN value.of : Holds(value.of[i])
      \/ ~type.list /\ Holds(value)

----------------------------------------------------------------------------
(* Sequences and texts, as functions of how much of them has been read: the form the proofs need. *)

(* The elements of a sequence that are wanted, in their order.              *)
KeptOf(seq, wanted) ==
  LET kept[n \in 0..Len(seq)] ==
        IF n = 0 THEN <<>>
        ELSE LET before == kept[n - 1] IN IF seq[n] \in wanted THEN Append(before, seq[n]) ELSE before
  IN  kept

Only(seq, wanted) == KeptOf(seq, wanted)[Len(seq)]

(* The character between the elements of a list.                            *)
Comma == ","

(* Texts with a comma between any two of them, and a text cut at its commas. *)
JoinedOf(texts) ==
  LET joined[n \in 0..Len(texts)] ==
        IF n = 0 THEN <<>> ELSE IF n = 1 THEN texts[1] ELSE joined[n - 1] \o <<Comma>> \o texts[n]
  IN  joined

Join(texts) == JoinedOf(texts)[Len(texts)]

PiecesOf(text) ==
  LET pieces[n \in 0..Len(text)] ==
        IF n = 0 THEN << <<>> >>
        ELSE LET before == pieces[n - 1]
             IN  IF text[n] = Comma THEN Append(before, <<>>)
                 ELSE [before EXCEPT ![Len(before)] = Append(@, text[n])]
  IN  pieces

Split(text) == PiecesOf(text)[Len(text)]

----------------------------------------------------------------------------
(* From value to text.                                                      *)

Scalar(value) == IF value.is = "number" THEN <<value.of>> ELSE value.of

(* serde_json's rendering of a list: brackets, and each string in quotes.   *)
JsonList(values) ==
  LET Element(v) == IF v.is = "string" THEN <<"quote">> \o v.of \o <<"quote">> ELSE Scalar(v)
  IN  <<"[">> \o Join([i \in DOMAIN values |-> Element(values[i])]) \o <<"]">>

JoinedList(values) == Join([i \in DOMAIN values |-> Scalar(values[i])])

(* What each client writes of a list and of an absent value, position by position: the path and *)
(* a header are rendered by one rule, a query value and a text part by another.  An absent query *)
(* value, header or part is left out of the request by all of them; `validates` says whether the *)
(* client checks its message before it sends it.                                                *)
RustClient   == [segment |-> "json", value |-> "joined", absent |-> <<"null">>, validates |-> TRUE]
TsClient     == [segment |-> "joined", value |-> "joined", absent |-> <<"undefined">>, validates |-> TRUE]
DartClient   == [segment |-> "joined", value |-> "joined", absent |-> <<>>, validates |-> FALSE]
KotlinClient == [segment |-> "joined", value |-> "joined", absent |-> <<>>, validates |-> FALSE]
SwiftClient  == [segment |-> "joined", value |-> "joined", absent |-> <<>>, validates |-> FALSE]

Rendered(rule, absent, value) ==
  CASE value.is = "null"                    -> absent
    [] value.is = "list" /\ rule = "json"   -> JsonList(value.of)
    [] value.is = "list" /\ rule = "joined" -> JoinedList(value.of)
    [] OTHER                                -> Scalar(value)

SegmentText(client, value) == Rendered(client.segment, client.absent, value)
FieldText(client, value) == Rendered(client.value, client.absent, value)

(* percent_encoded, encodeURIComponent and their mobile twins.              *)
Escapes == {<<"/", "%2F">>, <<Comma, "%2C">>, <<" ", "%20">>}

(* Mutant: the client writes the value into the path as it stands.          *)
PercentEncodedNot(text) == text

PercentEncoded(text) ==
  [i \in 1..Len(text) |->
     IF \E e \in Escapes : e[1] = text[i] THEN (CHOOSE e \in Escapes : e[1] = text[i])[2]
     ELSE text[i]]

LegalHeaderValue(text) == \A i \in DOMAIN text : text[i] \notin Illegal

----------------------------------------------------------------------------
(* From text to value.                                                      *)

(* Mutant: a path is handed to the handler as the wire carried it.          *)
PercentDecodedNot(text) == text

PercentDecoded(text) ==
  [i \in DOMAIN text |->
     IF \E e \in Escapes : e[2] = text[i] THEN (CHOOSE e \in Escapes : e[2] = text[i])[1]
     ELSE text[i]]

Coerced(type, text) ==
  IF type.reads = "number" /\ Len(text) = 1 /\ text[1] \in Numerals
  THEN NumberValue(text[1]) ELSE TextValue(text)

Decoded(type, text) ==
  IF type.list THEN ListValue([i \in DOMAIN Split(text) |-> Coerced(type, Split(text)[i])])
  ELSE Coerced(type, text)

----------------------------------------------------------------------------
(* Path templates: a sequence of literal atoms and of placeholders.         *)

Literal(atom) == [is |-> "literal", of |-> atom]
Placeholder(name) == [is |-> "placeholder", of |-> name]

PlaceholderNames(template) ==
  LET holes == Only(template, {token \in ToSet(template) : token.is = "placeholder"})
  IN  [i \in DOMAIN holes |-> holes[i].of]

(* A template as parse_path_template leaves it: a sequence of tokens.         *)
Templates == Seq([is : {"literal", "placeholder"}, of : STRING])

NoMatch == [is |-> "none"]
Match(captured, at) == [is |-> "match", captured |-> captured, at |-> at]

(* One token of match_path, after `at` atoms of the path: a literal strips its text, a placeholder *)
(* takes everything up to the next slash, at least one atom.                                    *)
MatchToken(path, matched, token) ==
  LET slashes == {j \in matched.at + 1 .. Len(path) : path[j] = "/"}
      end == IF slashes = {} THEN Len(path) ELSE Min(slashes) - 1
  IN  IF matched = NoMatch \/ matched.at = Len(path) THEN NoMatch
      ELSE IF token.is = "literal"
      THEN IF path[matched.at + 1] = token.of THEN Match(matched.captured, matched.at + 1) ELSE NoMatch
      ELSE IF end = matched.at THEN NoMatch
      ELSE Match(Append(matched.captured, PercentDecoded(SubSeq(path, matched.at + 1, end))), end)

(* What the first n tokens of a template make of a path.                                        *)
TokensRead(template, path) ==
  LET read[n \in 0..Len(template)] ==
        IF n = 0 THEN Match(<<>>, 0) ELSE MatchToken(path, read[n - 1], template[n])
  IN  read

(* match_path: the captured texts in the template's order, or NoMatch where a literal disagrees, *)
(* a placeholder captures nothing, or text remains.                                             *)
MatchPath(template, path) ==
  LET matched == TokensRead(template, path)[Len(template)]
  IN  IF matched # NoMatch /\ matched.at = Len(path) THEN matched ELSE NoMatch
=============================================================================
