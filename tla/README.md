# Verification of tixschema

tixschema is a Rust macro crate. From one declaration it writes types, schemas and codecs for six
languages, and from a trait a *service*: its messages, its dispatchers and its clients over
`amqp_rpc`, `http_rest` and `ws_rpc`. Nothing of it runs in a program of its own: what runs, keeps
state, waits and fails is the code it writes. That code is what is modelled here, read off the
templates in `src/src` that hold it. Most of the crate is text generation without state, which its
own snapshot tests compare line by line; what those tests cannot reach are the transports, where
tasks, timers, frames and closes meet in any order, the two ends of an HTTP call, written by one
half of the crate and read by another in any pair of languages, the recovering decode, where the
caller's own functions change a value between two reads of it, and the judged read, which four
emitters write down for four languages and which must answer alike in all of them.

Run everything from this directory: `tlc -workers 2 -config X.cfg M` checks a model, `tlapm M.tla`
checks the proofs of a module. `PROJECT.json` lists components, runs, mutants, theorems and hazards,
and maps every definition to the lines it models.

## The system

| Component | Source (below `src/src/`) | State | Operations | Modelled in |
|---|---|---|---|---|
| Rust `ws_rpc` session | `service_schema/transport/ws_rpc.rs` | id counter, correlation map, one slot and waker per call | `request`, `deliver`, `close`, the `Waiting` future | `FrameSession` |
| Rust `amqp_rpc` server | `service_schema/transport/amqp_rpc.rs` | consumer, slots in use, what each delivery has come to, shutdown and cancel | `serve_until`, `serve_deliveries`, `serve_delivery`, `stop_consuming`, `dispatch` | `AmqpServer` |
| TypeScript `ws_rpc` transport | `features/service_schema/ws_client.rs` | id counter, correlation map, ping and pong timers | `request`, `notify`, `close`, `onMessage`, `onClose`, both timers | `TsWsTransport` |
| TypeScript `ws_rpc` server | `features/service_schema/ws_server.rs` | the set of connections; each with its timers, signal and attachments | `accept`, `share`, `closeAll`, `onFrame`, `onError`, `onClose`, both timers | `TsWsServer` |
| TypeScript attachment | `features/service_schema/ws_service.rs` | a listener | dispatch a frame, reply, detach | `TsWsServer`, in part |
| Dart, Kotlin, Swift transports | `features/service_schema/{dart,kotlin,swift}_ws_client.rs` | id counter, correlation map, timers or tasks, a closed flag | as the TypeScript one, over a stream, over threads and a lock, over an actor | `MobileWs` and one module each |
| `http_rest` declaration | `service_schema/parse.rs`, `service_schema.rs` | none | shape and refusals of an operation | `ServiceDeclaration` |
| `http_rest` clients and servers | `service_schema/transport/http_rest.rs`, `features/service_schema/http_{client,server,service}.rs`, `{dart,kotlin,swift}_http_client.rs` | one request and one response | build, route, read back, call, answer, read the outcome | `HttpWire`, `HttpExchange` |
| Recovering decode | `features/recovering_decode.rs`, `recovering_decode/checks.rs` | the raw value, the issues and what each resolver answered | read, walk, call back or resolve, read again | `RecoveringDecode`, `TypedWalk`, `JsonDecode` |
| Judged read | `model_schema/{judged_read,preprocess,checks}.rs`, `model_schema.rs`, `features/dart.rs`, `features/swift.rs`, `swift/{read,validate,preprocess}.rs`, `features/kotlin.rs`, `kotlin/{read,validate,preprocess}.rs` | one payload | correct, read unjudged, choose a variant, judge once | `JudgedRead` and one module per language |
| Rust `ws_rpc` dispatcher | `service_schema/transport/ws_rpc.rs` | one reply per frame | `answer` | not modelled |
| Registries of declarations | `utils.rs` | thread-local records of what earlier expansions declared | register, look up | not modelled |
| The rest of the emitters, names and defaults, MongoDB layer, conversions | the rest | none | functions of a declaration or a value | not modelled, see below |

A service interacts with its transports by call: a generated client calls `request` or `notify`; a
generated dispatcher calls the implementation. The two ends meet over frames: on a WebSocket JSON
texts of kind request, reply, notify, ping and pong; on AMQP deliveries, publishes and
acknowledgements; on HTTP one request and one response. Several services may share one socket, each
numbering its requests from 1; several loops may consume one queue; several operations may answer
one path. What lies between (the peer, the broker, the executor, the event loop's clock, serde) is
not in the repository: the models give it every behaviour the code must cope with and mark it
external.

### What is hard, and what makes it correct

- **Concurrency.** `deliver`, `close` and `poll` meet in one slot: it has one owner, is filled once,
  and no wakeup is lost. A queue's deliveries run side by side: none waits behind another. In Kotlin
  the closed flag is tested outside the lock that guards the map.
- **Ordering.** A reply may come before its caller waits; the reply to a message goes out before its
  acknowledgement; a frame may cross the timer it would have cleared. Resolvers repair one value in
  turn, over a list of issues made before the first repair.
- **Failure.** A send fails, a handler panics, `contextFor` throws, a channel, a process or a peer is
  lost at any step: nobody else's call is settled by it, and nothing is forgotten unserved. A caller
  whose answer says that its call never ran may make it again.
- **Ends.** Shutdown, close and drop race what they end: started work is finished, waiting callers are
  told, nothing is left behind in a map, on a timer or on a socket.
- **Time.** A heartbeat finds out every silent peer in time and hangs up on no other.
- **Two readers of one text.** A header, a segment or a query is written by one language and read by
  another, guessing its type; routes may overlap, statuses may collide, names may meet.
- **One judge.** A model inside another is read without judgement because its holder will judge it: two
  walks, one over types when the code is written and one over values when it runs, have to reach the
  same models, in each language, or a rule is skipped, or told twice, or told without its path.

## The modules

    RpcCalls              what callers are promised (abstract)
       ^ refined by
    FrameSession                            the Rust session         FrameSessionProofs
    MobileWs <- DartWsTransport   \
             <- KotlinWsTransport  > MCMobileWs   the app transports   MobileWsProofs
             <- SwiftWsTransport  /
    AmqpServer     <-- MCAmqpServer         the AMQP server          AmqpServerProofs
    TsWsTransport                           the TypeScript client    TsWsTransportProofs
    TsWsServer                              the TypeScript server    TsWsServerProofs
    HttpWire <- ServiceDeclaration <- HttpExchange <-- MCHttpExchange    HttpExchangeProofs
    RawValues <- SerdeForms <- TypedWalk <- JsonDecode <-- MCJsonDecode      JsonDecodeProofs
                        RecoveringDecode <--^
    RawValues <- HeldTypes <- RustRead   \
                           <- DartRead    \
                           <- SwiftRead    > JudgedRead <-- MCJudgedRead     JudgedReadProofs
                           <- KotlinRead  /

An arrow is EXTENDS. An `MC` module adds what TLC enumerates: symmetry
sets, services, types and values. A `Proofs` module extends its component's module and holds the
theorems; `MobileWsProofs` extends the three platforms' modules, as `MCMobileWs` does. The definitions marked *Mutant* stand beside
the definition they would replace and belong to no specification: each is a plausible mistake, and
the property its row in `PROJECT.json` names catches it.

### RpcCalls

A call is issued once; the far side serves it at most once; its caller gets its own answer, a
failure, or nothing when it gave up. `FrameSession` maps `pc` and `outcome` to `phase`, `MobileWs` maps
`outcome`; a reply in the wrong hands maps to a phase `RpcCalls` does not have.

### FrameSession

A step is a critical section or the stretch between two awaits. `Allocate`, `Register`, `Encode`,
`Transmit`, `SendReturns` and `SendFails` are `request` up to its await; `Poll` and `Drop` are the
`Waiting` future. `DeliverReply` takes the slot out of the map under its lock and `DeliverFill` fills
it under the slot's, so that anything can happen in between; `CloseTake` and `CloseFill` split
`close` likewise. `runnable[c]` says the executor will poll the task, `parked[c]` that its waker is
in the slot. The peer answers in any order, pings, and carries a second service's replies under the
same ids.

### AmqpServer

Several loops (`serve_until` over a channel each, in processes that may die) consume one queue. A
delivery is a future of the loop's `FuturesUnordered`: `none`, `read`, `running`, `replying`, `acking`
or `rejecting`, `complete`. What a loop publishes or settles goes through `wire[l]`, in order, and is
lost with the channel; the broker then requeues what it has seen no settlement of. `HandlerPanics`
leads where `HandlerReturns` does: `caught` makes a fault of the panic, and the delivery goes on. `stop` is where
`stop_consuming` stands, `phase` where `serve_deliveries` does. `MaxServes` bounds how often a loop is
started and `MaxLosses` how many channels are lost.

A turn of the biased `select!` is several polls, and the caller's shutdown may complete on another
thread between any two. `PollShutdown` is the first poll finding it pending (`pending[l]`),
`NoticeShutdown` the one that ends the loop; after the first the other arms are read in their order,
`Reap` and, where no future is done, `Start` or `NoticeClosed`, and whichever is taken ends the turn.
The doc of `serve_deliveries` says "Once `shutdown` completes no item is started". To the letter no
loop can keep that of a shutdown completed between its poll and the deliveries'; `late[l]` records
what was started so, and the property says how much it may be.

### TsWsTransport

A callback is a step. The clock ticks only when no timer and no pong is due, so timers fire in time
but in either order when due together. A timer whose handle was overwritten is a *stray*: it can no
longer be cleared and it fires. This is how two transports of one socket disturb each other: both
hear each pong, and each schedules a ping for it. `quiet[t]` measures the silence a listening, probing
transport has heard and is never read by the code; `Latency` is the longest a living peer's pong takes, and is less than `Timeout`.

### TsWsServer

One connection stands for all: they share nothing but the set, and `held` says this one is in it.
`contextFor` may share the socket before `accept` is done with it, and may throw: `accept` then throws
with its three listeners on the socket and `detach` without a value, so that the close event throws
inside `onClose` (stage `stuck`). Handlers may end after the close; `late` records a frame handed to
a closed socket.

### MobileWs, DartWsTransport, KotlinWsTransport, SwiftWsTransport

`MobileWs` holds what the three app transports have in common: the socket and its peer, the
correlation map, and what they owe. Each platform's module adds the steps its runtime takes.

- *Dart*: one isolate, a callback at a time, two timers. A ping cancels the deadline of the ping before.
- *Kotlin*: a caller, a reader, the ping loop, the pong watcher and `close` each on a thread of its own,
  one step between two locks. `closed` is a flag that is read before the lock is taken, so that two
  closes, a request and a reply can each have read it as false. `watcher` is the job that waits for a
  pong; the one a new ping replaces is cancelled, which stops it only if it has not woken yet.
- *Swift*: an actor. What calls it waits to enter (`entering`, `pingsAwake`, `deadlinesAwake`) and is
  taken in any order; a task tests its cancellation before it waits, not after. Frames wait in a stream
  and are read one by one.

`MCMobileWs` runs one platform per behaviour, the variables of the other two standing still. The clock
ticks only when the platform has run what is due; a wait for a thread, the event loop or the actor is
part of the round trip that `Latency` bounds. A frame read in a loop beside others needs strong
fairness to be read: each of the reader's turns may go to another frame, but not for ever.
`DeadPeerIsClosed` carries the condition `Timeout < Interval`: Dart and Kotlin put the deadline off with
each ping, and with a longer timeout no deadline ever runs out. A Dart or Kotlin request made after
the close is never settled and `RequestSettles` does not claim it.

### HttpWire, ServiceDeclaration, HttpExchange

`HttpWire` holds the texts (sequences of characters that matter: a slash, a comma, a percent sign, one
no header may hold), how each language writes a value into a segment, a query or a header, and how
`decode_expr` guesses one back: a comma splits, a numeral becomes a number, an empty text is an
element. `ServiceDeclaration` is what `parse.rs` and `service_schema.rs` make of an `http(...)`
attribute, and every refusal an exchange depends on. `HttpExchange` is one call: `Call` (validation,
path, query, headers, parts, body), `Dispatch` (route, headers, parts, message, each of which may
refuse), `Handle` (the implementation answers, declares an error or panics), `Read` (outcome by
status), with `Lose` and `TransportFails` on either leg. The five clients share one definition with a
record each (`RustClient`, `TsClient`, `DartClient`, `KotlinClient`, `SwiftClient`) of what differs:
whether it validates, and how it writes a list and an absent value.

`MCHttpExchange` gives 55 services: one for each way an argument travels, each pair of routes
that meet, each status and header that may collide, and those the macro refuses, which `Services` then
drops. A property that does not hold of every call says so in a hypothesis with a name: `Shadowed`
(an operation declared above answers the same paths), `Filled` (no placeholder is written with an
empty text), `ItsOwnAnswer` (the answer is the called operation's), `Carried` (each argument can travel
where it is bound: no placeholder empty, no list with commas or written as JSON, no type the reader guesses
wrongly, a part only in a multipart body, a placeholder on a message of a type of its own only over a text
member), `Unambiguous` (the status tells the answer), `HeadersTravel` (the same of an answer's
headers). Each is a limit of the generated code, and the list of them is a result of the model.

### RawValues, SerdeForms, TypedWalk, RecoveringDecode, JsonDecode

`RecoveringDecode` is the control of a decode, over any types: correct the payload, read, list the
issues, settle the digits an older build wrote as text, then one callback (`decode_with`) or a pipe of
resolvers (`decode_piped`), then one read more. `TypedWalk` is the walk that lists the issues of every
shape: structs with aliases, defaults and flattened members, tuples, slots, maps, lists, results, the
five taggings of an enum; and `CheckIssues`, the issues of bounds and rules. `SerdeForms` is the read
itself. `JsonDecode` extends both and gives `RecoveringDecode` its types, reads and resolvers in its
configuration. serde is external: `Forms(type, value)` is the set of what the type would write for what it
read, which is empty where it refuses and never has two members. `JsonDecode` puts the three
together: an *honest* callback or resolver writes what each issue asks for through `Stored`
(`SetAt`, `TakeAt`), another answers anything.

A walk of a type walks the types it is written over, and so does a read of one. No definition is
declared RECURSIVE: what it takes of the types below is a parameter beside it (`ArmsBelow` beside `Arms`,
`FormsBelow` beside `Forms`), which `JsonDecode.cfg` binds to the definition itself (`ArmsAgain` in
`MCJsonDecode` is `Arms`). TLC computes the recursion so, and a proof may state it as an equation. What
makes it end is assumed by name and evaluated by TLC: no type holds itself, by a `Depth`, and each is
declared as the macro accepts it (`TypesAreNested`, `IsDeclared`), and keys have an order
(`KeysAreListed`).

`MCJsonDecode` has fifteen types and, for each, every combination of what each of its places may hold;
three values with an issue of three kinds also meet two resolvers that do anything.
`RepairsSuffice` names what it leaves out: `Unseen` (what is under a tag the walk could not follow, and
what the checks say of a value serde refused), `ShiftsAnother` (two undeclared items of one list: the
first removal moves the second), `OffItsKey` (a check names its member by the key serde writes, not by
the alias the value is under) and `HoldsCorrected` (a type with a preprocess inside another is walked
as a corrected copy, and its issues point into the copy).

### HeldTypes, RustRead, DartRead, SwiftRead, KotlinRead, JudgedRead

A declared type writes two reads. One is *unjudged*: the functions the type names in `preprocess`
correct the payload, its members are read from it, and each model that `validate()` will walk to is
read unjudged in its turn. The other is what the type's own decoder runs: the unjudged read, then
`validate()` of the whole value, each message under its path. What `validate()` does not walk, the
filling of a type parameter and what a brand holds, is read judged. An untagged enum is the first of
its variants that reads and whose bounds hold; checks do not choose.

`HeldTypes` has the types (a text, wrappers, models that are structs, tuples, brands, slots or enums of
the four taggings), payloads, values, and what serde reads of a form. Each language is a module under
its own names: `RustRead` (`HookOf` is `hook_member`: which members are read through a hook),
`DartRead` (`fromJson` and `fromJsonUnjudged`), `SwiftRead` (`init(from:)` and the unjudged
initializer), `KotlinRead` (`{Type}Serializer` and `{Type}Unjudged`). They are written down apart, as
the emitters are, so that they can disagree. One text stands for a broken bound, one for a failed
check, and a correction is no fixed point, so that a function called twice shows. `JudgedRead` reads
one payload in one language and compares: what is accepted with every rule of the declaration,
wherever it is (`BrokenIn`, which knows nothing of who judges what), what is refused with the list of
those rules, and the answer with Rust's.

A read of a type reads the types it is written over, so nearly every definition of these modules calls
itself. None is declared RECURSIVE: what a definition takes of the types below is a parameter beside
it (`ReadAsBelow` beside `ReadAs`, `BrokenInBelow` beside `BrokenIn`), and `JudgedRead.cfg` binds each to
the definition itself (`ReadAsAgain` in `MCJudgedRead` is `ReadAs`). TLC computes the recursion so, and
a proof may state it as an equation. What makes it end is assumed by name and evaluated by TLC: no
type holds itself (`TypesAreNested`, by a `Depth`), a model is one the modules can read
(`ModelsAreDeclared`, which is narrower than the macro: a bound on a brand only where the brand is over
a text or a list), and keys have an order (`KeysAreListed`).

`MCJudgedRead` has eighteen types, one for each place a model or a brand may be held in. `Parts` names
where the languages do part: each disjunct is a disagreement the run found, and the last two
properties leave out just these. `AcceptedBreaksNoRule` leaves out none. What the four share is in `HeldTypes`:
the places of a wrapper (`Places`), and where a tagged payload keeps its tag and content (`IsTagged`,
`ContentOf`). On these they agree because they are written once, and the comparison says nothing of
them; it is about who corrects, chooses and judges.

## The runs

| Run | Asks | Bounds |
|---|---|---|
| `frame_session` | Is each call settled with its own reply, once, with no wakeup lost, as `RpcCalls` says, and is one whose slot was taken, or that is in the map at a close, settled in the end? | 2 calls, 2 readers, 1 foreign reply, 1 ping, 1 close beside the driver's |
| `frame_session_hang` | (violated) Does a closed session settle every waiter? | 2 calls |
| `amqp_server` | Is nothing acknowledged unserved, left undrained or run again without a loss, and how much is started once shutdown completes? | 2 loops started twice, 1 message, 1 lost channel |
| `amqp_server_live` | Does no delivery wait behind another, and do a shutdown and a started loop get on? | 1 loop, 2 messages, prefetch 1, 1 lost channel |
| `ts_ws_transport` | Do services on one socket get their own replies, does a lone heartbeat leave a healthy peer and find a silent one out in time, and is a request on an open socket settled whatever it does? | 2 services, 1 probing, 2 calls |
| `ts_ws_shared` | (violated) Do two heartbeats leave a healthy peer alone? | 2 services, both probing |
| `ts_ws_connecting` | (violated) Is a silent peer found out on a socket bound while it connects? | 1 transport |
| `ts_ws_server` | Does a connection leave nothing behind, whoever shares it, and does its heartbeat do right? | 2 services, 1 request |
| `mobile_ws` | Does each app transport implement `RpcCalls`, settle its calls and judge its peer rightly? | 2 calls, 2 watchers, each platform in turn |
| `http_exchange` | Does a call reach its own handler with its own arguments, and its answer the caller? | 55 services, 5 clients, 2 servers, 1 call |
| `json_decode` | Is what a decode accepts what was held, do issues point at what they speak of, and are their repairs enough? | 15 types, every value of their places, 1 honest or 2 arbitrary resolvers |
| `judged_read` | Is nothing broken ever accepted, is each broken rule told once at its path, and do four languages read alike? | 18 types, every value of their places, 4 languages |

Why the bounds are enough. Two calls make every conflict over ids, slots and the map; two readers and
a close make every race for a slot, which has two contenders at most. One foreign reply is what a
mix-up needs. Two loops that are each started twice let a message move, come back to the
same channel or process, and meet its own earlier settlement; one prefetch slot and two messages make
one wait if anything can. `Interval` 3, `Timeout` 2 and `Latency` 1 let a frame fall before, on and
after every deadline, the interval be longer than the timeout, and a pong be in time by one tick or
arrive on the tick it is due. Two Kotlin watchers are one more than can wait at a time. `MaxStrays`
bounds the strays of one remaining time in a transport: one in the passing runs, two in
`ts_ws_shared`. An exchange is one call: calls share nothing but the service. A type of
`MCJsonDecode` nests at most two levels deep, which is where one shape meets another; a walk deeper
down is the same walk under a longer path. Two resolvers are enough for one to undo, to uncover or
to pass by what the other did. The types of `MCJudgedRead` put each of the six wrappers, a type
parameter, a brand, a flattened member and each tagging around a model or a brand, to a depth of
three, with lists of up to two items: a place further down is reached by the same two recursions. The theorems hold for every value of the constants, where they cover
the property. Deadlock is not checked: calls, messages, losses and closes run out, and then every one
of these systems stops.

**Fairness.** `FrameSession`: the executor polls a task that was woken, a reader goes on with the frame
it has, a `close` that began goes on, and the driver calls `close` once its socket is gone
(`connect`, the README's reference for whoever holds a session, does; its other loop, `ledger_socket`,
holds none). No call need be made and no peer need answer. `AmqpServer`: the
executor polls the loop, which takes whichever arm it comes to, and each delivery's future; handlers end, the broker reads what it is sent and closes a consumer it was told to
cancel. No message need come, and no shutdown. `TsWsTransport`, `TsWsServer` and `MobileWs`: time
passes and due timers fire (the event loop, the dispatcher's threads, the actor's executor), what was
sent arrives, handlers end, the platform ends a close handshake the peer does not, and a close event
reaches its listeners. A peer that falls silent owes nothing any more. `HttpExchange`, `JsonDecode`
and `JudgedRead` claim no liveness: each is a call that returns.

## What the checks found

1. `frame_session_hang`. `close` records nothing, so a `request` that registers after it is never
   settled, where the comment on `close` has every waiting call told.
2. `ts_ws_shared`. Two transports on one socket, each with its heartbeat, as the README describes: each
   hears the other's pong, schedules one more ping for it and overwrites a handle, and in the end a
   deadline that nothing can clear closes the socket of a healthy peer.
3. `ts_ws_connecting`. On a socket that is still connecting the first ping throws, and neither its
   deadline nor another ping is ever armed.

Met while modelling or proving and not shown by a run:

- `request` of the Rust session inserts its slot before it encodes and sends, and neither `?` takes it
  out: the map keeps slots of requests that have already answered `Err`.
- `onSocketError` runs before the close its comments place first, and a hook that throws leaves the
  socket open; after a `contextFor` that throws, `share` no longer refuses the closed connection; a
  socket closed before `accept` stays in the set.
- A TypeScript, Dart or Kotlin request made after the close is never settled; the Dart and Kotlin
  heartbeats never find out a dead peer when the interval is no longer than the timeout.
- A placeholder written with an empty text leaves its segment empty, and the path may then be one that
  another operation answers, or none does. The proof of `RightHandler` failed there, and `Filled` is
  the hypothesis it lacked.
- The Rust HTTP client writes a list in a placeholder or a header as JSON (`http_rest.rs`, `encode_expr`,
  96-110, and `header_in_build`, 2148-2192), the servers split it on commas (`decode_expr`, 50-94, and
  the repository's README.md:3245): `Carried` leaves it out.
- An operation with a `part(...)` and another body than multipart is accepted (`multipart_refusals`,
  parse.rs:2410, asks the converse only). Its client sends no parts (`http_rest.rs`, 2266-2292), its
  dispatcher demands each (905-929), and every call is refused. The proof of `ReachesTheHandler` failed
  there, and `Carried` leaves it out.
- A check's issue is listed at the key serde writes, where README.md:7411 has an issue at the key its
  value is under; the issues of a nested type with a preprocess point into its corrected copy; two
  undeclared items of one list shift under removal. The last three are the hypotheses of
  `RepairsSuffice`.
- Where the four languages part (the disjuncts of `Parts`): a *bounded* member of an untagged variant is
  read in Rust by its bound's hook (`list_deserializer`), which reads the models it holds judged, so
  that a rule of theirs removes the variant (`BoundsWhatItHolds`), where README.md:4762-4764 and
  docs/field-validation.md:637-642 have bounds alone choose; Swift's `held_walk` asks no brand in a tuple for
  the bound that chooses (`ChoosesInATuple`); Kotlin reads a tuple in a tuple's position judged
  (`TupleInATuple`), where docs/kotlin-client.md:485-486 says otherwise and names a function that does not
  exist; Kotlin reads the bare name of an externally tagged variant that holds an Option as that
  variant over null (`BareOfAValue`), which the others refuse. `UnitUnderItsName` and `UnitOverContent`, a unit
  variant over an explicit null, are documented.

## What is proved

For every number of calls, readers, loops, messages, transports, services and requests, and every
bound, prefetch, interval, timeout and smaller latency. The only assumptions are those named in the
modules: the bounds are natural numbers, the prefetch, intervals and timeouts positive, the latency
less than the timeout, `Messages` finite, and the constants distinct from the marks the models use.

**FrameSession** (`FrameSessionProofs`): the types, own answers, one owner of each slot, no lost wakeup,
the finality of an answer, and the refinement of `RpcCalls`. What a caller gets depends on every place
a reply passes through, so the induction carries them all (`IndInv`): ids are distinct, the map is
keyed by its calls' ids, and each of wire, inbound, hand and slot holds, under an id, what belongs to
the call of that id. One owner per slot is what makes two fills of it impossible, and with it a
wakeup that the second would lose; `ParkedOrRunnable`, that a waiting call has a waker in its slot or
is about to be polled, is the part of `IndInv` that says so.

**AmqpServer** (`AmqpServerProofs`): the types, `AckedAfterServed`, `NoneWaitsBehindAnother`,
`NoSpuriousRerun`, `DrainedBeforeReturn` and `AtMostOneLateStart`. `IndInv` follows a message from
custodian to custodian: it is on the queue, with one channel, or settled (`OneCustodian`); what a loop holds is its own at the broker while its channel
is up (`HandedIsHeld`, `BegunIsHeld`, `SettledIsHeld`); and on the wire a settlement stands behind all
the message is owed (`SettlementIsLast`), which is what the order of publish and acknowledge buys.
`AtMostOneLateStart` rests on `LateEndsTheTurn`: a loop starts a delivery only in a turn that found
shutdown pending, so one started late was the last of its turn, and the next turn finds it complete.
That slots and prefetch count the same deliveries needs the broker's own bound
(`BrokerKeepsToPrefetch`). `NoSpuriousRerun` counts turns (`EachLossIsATurn`): the runs a message has
had, the loops that still hold it unserved and its place on the queue come to no more than one and the
channels lost. A loop runs what it holds once, so only a requeue adds a turn, and each costs a loss.

**TsWsTransport** (`TsWsTransportProofs`): the types; own answers, from `Correlated` (every entry, request and
reply is of a call that was made, under the id its own transport drew); a silent peer found out in
time though any number of transports probe, from `Beats` (a probing transport always has a timer
ahead, a stray one perhaps, that is early enough); and a healthy peer left alone where at most one
transport probes, from `Alone` (no strays, at most one pong on its way, and that one due before its
deadline). The hypothesis is needed: `ts_ws_shared` is the counterexample without it.

**TsWsServer** (`TsWsServerProofs`): every safety property of its run, and the types, which the run leaves
to the proof. `Lifecycle` says what `onClose` finds and leaves: only what it will detach listens, and a
closed socket has had its `onClose` called. `Clock` says one timer runs at a time, the idle timer counts
exactly from the last frame, and a living peer's last pong is due before the deadline; the three
heartbeat properties are read off it.

**MobileWs** (`MobileWsProofs`): the refinement of `RpcCalls`, `HealthyStaysOpen` and `DeadPeerIsClosed`, of
each platform and for any number of calls and of Kotlin's watchers. `CallsInv` says, as in the other
clients, that every entry, request, reply and frame read is of a call that was made, under an id no
other of them has, and adds what each runtime lets stand in between: a Kotlin caller between two
locks, a reader with a frame in its hand, a Swift call that waits to enter the actor, a frame in the
stream. `BeatInv` says of each platform's timers, jobs or tasks that while the peer lives a pong is
due before whatever would close the socket, and that an open transport has something ahead of it that
is early enough. In Kotlin, where a job that was replaced may wake before it is cancelled, it says
which watcher can still run (`KotlinWatched`), and that only the one the field names matters.

**HttpExchange** (`HttpExchangeProofs`), its routing: `RightHandler`, from the assumption that a service is a list of
operations with templates (`ServicesAreSequences`). A path is laid out token by token: a literal is one
atom, a filled placeholder some, none a slash, since percent-encoding leaves no slash (`PathIsLaidOut`).
A template whose segments are whole reads what was written for it back at the same places, so it
matches (`ReadByItsOwn`); another that matches it too must have its slashes where this one has, and so
overlaps it (`ReadByAnother`), which is a route declared above, since the first that matches
answers. The document and the default routes are kept apart from every other by three refusals of the
macro, which `Accepted` states.

Its headers, faults and arguments: for every set of services, texts and lists, `FaultMeansNotRun`
(a caller told that its message did not validate, or that nothing answers, was never heard by an
implementation) and `HeadersAreLegal` (no header leaves either side with a character none may hold).
The first needs that a fault of that kind is only ever made by the client before it sends or by a
dispatcher before it calls, and that reading a response makes no such fault of another: `Standing`
says that nothing has run before the dispatcher is left, and that a refusal is only on its way where
nothing ran. The second is `Judged`: both messages, once written, hold legal headers.
`OutcomeIsTheHandlers` rests on what a header makes of a value. A list that was joined with commas is
the list when it is split (`SplitUndoesJoin`), so a value that can travel is read back as itself
(`TravelsBack`). The headers of an answer have names of their own, which none of the transport's is,
since the macro refuses them: each is found, once, and an absent one is not (`HeadersComeBack`). Then the ladder
of statuses picks the answer's own reader wherever the status says which answer it is
(`AnswerComesBack`). The induction is `Replied`: behind a response is a fault, the document or what the
arm made of the implementation's answer. It assumes that a type is recorded under the kind its text is
read as (`HeadersAreTyped`) and that texts are sequences (`TextsAreSequences`).
`ArgumentsArrive` and `ReachesTheHandler` follow each argument to the server. What is escaped into a
placeholder is unescaped to itself, as no text holds an escape already (`UndoesEscapes`), and is captured
where the path was laid out for it (`CapturedAsWritten`). A header, a query key and a part are each found
under a name nothing else in their list has: a list of entries is treated as the set of what it holds
(`Catalogue`), since the readers ask of a name only which entry it has. A named message is the body, the
placeholder, or the body with what was captured over members that already say it (`NamedArrives`); a
generated one is put together field by field (`FieldArrives`). So an arm gathers what was given
(`GatheredIsGiven`), and since every value its type holds is one its type takes (`EveryHeldConforms`), none of
the six refusals applies (`NothingIsRefused`). `Delivered` carries it over the steps, and for the route asks
`RouteIsItsOwn` of the routing. Assumed are lists where lists are declared, distinct names of
arguments and of members (`ArgumentsAreTyped`), and that an escape is no character of a text
(`TextsAreUnescaped`).

**RecoveringDecode** (`JsonDecodeProofs`, first part): for any types, any callback and any number of resolvers,
the types; `AnsweredFromACleanRead`, that a value is answered only as the last read found it; and
`AskedInTurn`, the part of `PipeKeepsItsOrder` that says which resolver is asked what, and that nobody
is asked of an issue one before decided. Each theorem states what it assumes of the parameters, as
their meaning is the type's: that the reads of a set of values, which the callback, the resolvers and the rewriting of digits do
not leave, list sequences of issues (`ReadsList`; `Reading` is the induction that they stay in it) and a resolver answers
with one of the three answers (`Answering`). `InTurn` is the induction: the questions asked lie before
the cursor, and what one of them decided is no longer open. `PipeKeepsItsOrder` as a whole needs two
things more, and that resolvers are counted (`Counted`). Every place the cursor has passed is a turn that was had
(`TurnsHad`), and an issue is settled exactly where a question settled it (`Answered`). And the issues a
failed pipe names are those left of the list, in its order: `Left` numbers what it keeps by rank, and
that ranks count up by one with no gap is an induction over finite sets' cardinalities.

**JsonDecode** (`JsonDecodeProofs`, second part): `FoundIsThere`, of every set of declared types and every
JSON value. A path is followed by a fold, so what is at a path one step longer is what the step leads to
(`AtOneMore`), and an item or an entry of what is at a path is at the path and its index or key. Every
arm of the walk then makes issues of what is at the path it was given, or one step below
(`LookedUpPoints`, `PositionsPoint`, `KeyedPoint`: a member under the name it is stored under, an item at its
own index also where it is left over, a flattened struct at its holder's path in the part of the
object that is handed on). The induction is on `Depth`, over both walks at once: `ArmsPoint` of a value by
itself, `FieldsPoint` of the entries of an object that holds more. Nothing is asked of what serde reads,
so it holds whatever a form is. Over the steps `FoundInRaw` says that until somebody answers, the issues
are those the last read listed of the value as it now is: the digits are rewritten between two reads,
and never after. Assumed are that the definitions call themselves (`WalkIsItself`,
`HoldsCorrectedIsItself`), that values stay JSON (`AreJson`, `DecodesJson`), and that a read's checks make a
list. A type that holds one with a preprocess is left out by the property's name, and the proof shows
where: the corrected copy is no longer what is at the path.

**JudgedRead** (`JudgedReadProofs`): `AcceptedBreaksNoRule`, of every set of declared types, however deep,
and every set of payloads closed under what a read goes on with (`AreJson`: an item, an entry, an
object without its tag, a corrected payload, null for what is absent). That each definition calls
itself is the theorem's hypothesis (`BrokenInIsItself`, `RustIsItself` and so on); where types are
nested there are such operators, one depth after another, and the configuration's are these. The
induction is on `Depth`, once per language over one lemma for each place a model can be in, and what
it carries is `Sound`: what a read judged breaks nothing at any depth, and what it read unjudged breaks
nothing of which the walk of `validate()` says nothing. It says nothing of where that walk goes, and
need not: a read asks of a type whether the walk reaches it and judges what it does not reach,
so whatever the walk leaves out was judged as it was read. A member that was
judged as it was read and is walked to all the same (a bounded one of an untagged variant) is sound
twice over, which costs nothing here and is what `ReadersAgree` stumbles on.

**Model-checked only.** Liveness (`OwnedIsSettled`, `CloseSettlesTheRegistered`, `ShutdownReturns`,
`HandedIsStarted`, `OpenRequestSettles`, `SilentIsDropped`, `RequestSettles`), which the prover does not
reach. What a decode accepts of a value (`AcceptedIsWhatWasHeld`), which needs what serde makes of every
shape beside what the walk says of it, and `RepairsSuffice`, which follows a repair through a second
read. And of the judged read the two that compare with another read,
`EachRuleIsNamedOnce` and `ReadersAgree`. They hold of types among whose *top* model no form is in
`Parts`; a theorem over nested types would have to carry each disjunct of `Parts` down to every
depth, and the first would need that no two paths of a value are the same besides. Induction along a
list or a number, or over nested types, needs no RECURSIVE operator: a recursive function is unfolded
step by step (`Join`, `TokensWritten`, `TokensRead`), and a definition that calls itself through a
parameter by its equation, over a set of naturals and by the first-order form of well-founded
induction.

## Not modelled

Left out of the modules above:

- **Sessions.** A payload is the call it answers, except that a reply may not fit its schema
  (TypeScript) or a message not decode (AMQP). `notify` sends and keeps nothing. A poisoned mutex, an
  id counter that wraps after 2^64 requests, and timers a blocked event loop delays beyond `Latency`
  are not modelled. `heartbeat: false` is a transport outside `Probing`; for the server it is not
  instantiated. One transport per service and socket is assumed, as the repository's README asks,
  and a socket is open when the server accepts it. The broker keeps its own rules.
- **HTTP.** OpenAPI documents, bodies that stream, a caller's own fault handler, and the encoding of a
  body by serde.
- **Decode.** The BSON source, flattened enums and options, checks inside enums, lists below a variant
  nobody knows, and types read through a type parameter.
- **Judged read.** TypeScript, whose reading is Zod's. A variant of several slots, flattened enums,
  recursive types, aliases, structs read from a JSON array, an Option as adjacent content, unknown
  keys, the repeats of a set; the bounds by number and pattern, for which one broken text stands; which of
  several malformed forms is told of first; and Kotlin's types that are declared after their holder.

Left out as a whole:

- **The Rust `ws_rpc` dispatcher, the Dart attachment, the Kotlin mini server, the Rust `amqp_rpc`
  client.** The first three answer one frame at a time and keep no state of their own; the client
  is a publish and a wait on the broker. They come with the composition (1) of the plan.
- **Registries.** What one macro expansion sees of another depends on the order in which the compiler
  expands, which no source of the repository fixes.
- **What else the emitters write, names and defaults, the MongoDB layer, conversions.** Declarations,
  writes, JSON schemas and literals are text written from a declaration, and the rest pure functions of
  one value: most of the lines of the crate. A model of them would say what they say, and the snapshot
  tests compare them already. Where one of them decides something that moves between two parties (a
  header, a segment, a status, a route, a variant's shape, a rule), it is part of `HttpWire`,
  `ServiceDeclaration`, `SerdeForms` or the four `Read` modules.

## Plan

1. `WsRpcConnection`: a Rust session, a dispatcher's `answer` and the README's two reference loops on
   one socket; what a handler that calls back does to the loop that awaits it. It refines `RpcCalls`
   end to end.
2. Several-slot variants, flattened enums and aliases in `JudgedRead`, and the write of what was read: a
   value written by one language is read by the others.
3. `Registry`: what an expansion sees of the others, in every order of declaration.
4. Proofs: an abstract heartbeat, which spares the living and
   finds out the silent, that `TsWsServer`, a lone `TsWsTransport` and the app transports implement.
