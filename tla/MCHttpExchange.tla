--------------------------- MODULE MCHttpExchange ---------------------------
(* Services small enough for TLC, each declared for a case of the transport: the ones the macro  *)
(* refuses are candidates as well, so that Accepted is what keeps them out.                      *)
EXTENDS HttpExchange

Scalar1(holds) == [holds |-> holds, reads |-> holds, list |-> FALSE, optional |-> FALSE, fields |-> <<>>]
Txt == Scalar1("text")
Num == Scalar1("number")
File == [Scalar1("file") EXCEPT !.reads = "text"]
Opt(type) == [type EXCEPT !.optional = TRUE]
Many(type) == [type EXCEPT !.list = TRUE]
Brand == [Num EXCEPT !.reads = "text"]     \* a brand over a number, declared below the service
Msg(fields) == [holds |-> "object", reads |-> "text", list |-> FALSE, optional |-> FALSE, fields |-> fields]

Arg(name, type) == [name |-> name, type |-> type]
Binds(name, parameter) == [name |-> name, parameter |-> parameter]
Path(segments) == FlattenSeq([i \in DOMAIN segments |-> <<Literal("/"), segments[i]>>])

Plain == [wire |-> "op", ts |-> "op", args |-> <<>>, bound |-> TRUE, method |-> "GET",
          path |-> Path(<<Literal("w")>>), body |-> "json", headerIn |-> <<>>, parts |-> <<>>,
          headerOut |-> <<>>, errorHeaderOut |-> <<>>, errors |-> <<>>, ok |-> 0, oneWay |-> FALSE,
          success |-> [is |-> "value", extras |-> <<>>], error |-> [extras |-> <<>>, untagged |-> FALSE]]

Get(path, arguments) == [Plain EXCEPT !.path = Path(path), !.args = arguments]
Post(path, arguments) == [Get(path, arguments) EXCEPT !.method = "POST"]
As(op, name) == [op EXCEPT !.wire = name, !.ts = name]
Default(name, arguments) == As([Plain EXCEPT !.bound = FALSE, !.args = arguments], name)
Succeeds(op, is, extras) == [op EXCEPT !.success = [is |-> is, extras |-> extras]]
Alone(op) == [operations |-> <<op>>, document |-> <<>>]
Pair(one, two) == [operations |-> <<As(one, "first"), As(two, "second")>>, document |-> <<>>]

Id == Placeholder("id")
W == Literal("w")

(* Where an argument may travel. *)
Arguments ==
  { Alone(Get(<<W, Id>>, <<Arg("id", Txt), Arg("q", Opt(Txt))>>)),
    Alone(Get(<<Id>>, <<Arg("id", Num), Arg("q", Opt(Many(Txt)))>>)),
    Alone(Get(<<Id>>, <<Arg("id", Txt)>>)),
    Alone(Get(<<Id>>, <<Arg("id", Brand), Arg("q", Opt(Brand))>>)),
    Alone(Get(<<Id>>, <<Arg("id", Many(Num)), Arg("q", Opt(Many(Num)))>>)),
    Alone(Get(<<Id>>, <<Arg("id", Opt(Txt)), Arg("q", Opt(Num))>>)),
    Alone(Get(<<W>>, <<Arg("q", Txt), Arg("r", Opt(Txt))>>)),
    Alone(Get(<<W>>, <<Arg("q", Txt)>>)),
    Alone([Get(<<W>>, <<Arg("h", Opt(Txt)), Arg("l", Many(Txt))>>) EXCEPT
             !.headerIn = <<Binds("h", "h"), Binds("l", "l")>>]),
    Alone([Post(<<W>>, <<Arg("h", Num), Arg("q", Txt)>>) EXCEPT !.headerIn = <<Binds("h", "h")>>]),
    Alone([Post(<<W>>, <<Arg("h", Txt), Arg("i", Txt), Arg("q", Num)>>) EXCEPT
             !.headerIn = <<Binds("h", "h"), Binds("h", "i")>>]),
    Alone(Post(<<W, Id>>, <<Arg("id", Txt), Arg("q", Num)>>)),
    Alone(Post(<<Id>>, <<Arg("m", Msg(<<Arg("id", Txt), Arg("n", Num)>>))>>)),
    Alone(Post(<<Id>>, <<Arg("m", Msg(<<Arg("id", Num), Arg("t", Opt(Txt))>>))>>)),
    Alone(Post(<<W>>, <<Arg("m", Msg(<<Arg("t", Txt)>>))>>)),
    Alone(Post(<<W>>, <<Arg("m", Opt(Msg(<<Arg("t", Txt)>>)))>>)),
    Alone([Post(<<W>>, <<Arg("f", File), Arg("t", Txt), Arg("l", Opt(Many(Txt)))>>) EXCEPT
             !.body = "multipart", !.parts = <<Binds("f", "f")>>]),
    Alone([Post(<<W>>, <<Arg("f", File), Arg("t", Txt), Arg("u", Opt(Num))>>) EXCEPT
             !.body = "multipart", !.parts = <<Binds("t", "f")>>]),
    Alone([Post(<<W>>, <<Arg("f", File), Arg("g", File)>>) EXCEPT
             !.body = "multipart", !.parts = <<Binds("f", "f"), Binds("f", "g")>>]),
    Alone([Post(<<W>>, <<Arg("f", File), Arg("t", Txt)>>) EXCEPT
             !.body = "multipart", !.parts = <<Binds("f", "f")>>]),
    Alone([Post(<<Placeholder("x"), Literal("w")>>, <<Arg("x", Txt), Arg("y", Txt)>>) EXCEPT
             !.path = <<Literal("/"), Placeholder("x"), Literal("w"), Placeholder("y")>>]) }

(* What an operation may answer. *)
OneWay(op) == [op EXCEPT !.oneWay = TRUE]
Errors(op, statuses) == [op EXCEPT !.errors = statuses]
Out(op, names) == [op EXCEPT !.headerOut = names]
ErrorOut(op, names, types) == [op EXCEPT !.errorHeaderOut = names, !.error.extras = types]

Answers ==
  { Alone(Plain), Alone(OneWay(Plain)), Alone(Succeeds(Plain, "unit", <<>>)),
    Alone(Default("op", <<>>)),
    Alone(Succeeds(Default("op", <<>>), "value", <<Txt>>)),
    Alone(Succeeds(Plain, "bytes", <<>>)),
    Alone(Errors(Plain, <<404, 410>>)),
    Alone(Errors(Plain, <<200, 500>>)),
    Alone(Errors([Plain EXCEPT !.error.untagged = TRUE], <<404, 410>>)),
    Alone([Succeeds(Plain, "unit", <<>>) EXCEPT !.ok = 404]),
    Alone(Out(Succeeds(Plain, "value", <<Txt, Opt(Num)>>), <<"e", "n">>)),
    Alone(Out(Succeeds(Plain, "value", <<Txt, Num>>), <<"e", "e">>)),
    Alone(Out(Succeeds(Plain, "value", <<Txt>>), <<"e", "n">>)),
    Alone(Out(Succeeds(Plain, "value", <<Opt(Many(Txt))>>), <<"e">>)),
    Alone(ErrorOut(Errors(Plain, <<404, 416>>), <<"content-range">>, <<Txt>>)),
    Alone([Succeeds(Plain, "bytes", <<>>) EXCEPT !.body = "bytes"]),
    Alone([Out(Succeeds(Plain, "bytes", <<Txt>>), <<"content-type">>) EXCEPT !.body = "bytes"]),
    Alone([Out(Succeeds(Plain, "bytes", <<Num>>), <<"e">>) EXCEPT !.body = "bytes"]),
    Alone([Out(Succeeds(Plain, "stream", <<Txt>>), <<"e">>) EXCEPT !.body = "stream"]),
    Alone([Out(Succeeds(Plain, "stream", <<Txt>>), <<"content-range">>) EXCEPT !.body = "stream"]),
    Alone([Errors(Succeeds(Plain, "stream", <<>>), <<206>>) EXCEPT !.body = "stream"]),
    Alone([Succeeds(Plain, "stream", <<>>) EXCEPT !.body = "stream", !.ok = 206]) }

(* Several operations, and the document. *)
Routing ==
  { Pair(Get(<<W, Id>>, <<Arg("id", Txt)>>), Get(<<W>>, <<>>)),
    Pair(Get(<<W, W>>, <<>>), Get(<<W, Id>>, <<Arg("id", Txt)>>)),
    Pair(Get(<<Id, W>>, <<Arg("id", Txt)>>), Get(<<Id>>, <<Arg("id", Txt)>>)),
    Pair(Get(<<W, Id>>, <<Arg("id", Txt)>>), Get(<<W, Id, W>>, <<Arg("id", Txt)>>)),
    Pair(Get(<<W, Id>>, <<Arg("id", Txt)>>), Post(<<W, Id>>, <<Arg("id", Txt)>>)),
    Pair(Get(<<Id>>, <<Arg("id", Txt)>>), [Plain EXCEPT !.path = <<Literal("/")>>]),
    Pair([Get(<<W>>, <<Arg("id", Txt)>>) EXCEPT !.path = <<Literal("/"), W, Id>>], Get(<<Id>>, <<Arg("id", Txt)>>)),
    [operations |-> <<Default("w", <<>>), Default("v", <<>>)>>, document |-> <<>>],
    [operations |-> <<Default("w", <<>>), [Default("w", <<>>) EXCEPT !.ts = "v"]>>, document |-> <<>>],
    [operations |-> <<Default("w", <<>>), As(Post(<<Id>>, <<Arg("id", Txt)>>), "second")>>, document |-> <<>>],
    [operations |-> <<As(Get(<<W, Id>>, <<Arg("id", Txt)>>), "first")>>, document |-> <<"/", "w", "/", "w">>],
    [operations |-> <<As(Get(<<W>>, <<>>), "first")>>, document |-> <<"/", "w", "/", "w">>] }

MCServices == Arguments \cup Answers \cup Routing
MCTexts == { <<"w">>, <<"7">>, <<"w", "/", "w">>, <<>>, <<"bad">>, <<"w", ",", "7">>, <<"bell">> }
MCLists == { <<>>, << <<"w">>, <<"7">> >>, << <<"w", ",", "7">> >> }
MCRefused == <<"bad">>
=============================================================================
