----------------------------- MODULE MCMobileWs -----------------------------
(* The three app transports for TLC, one at a time: every behaviour is one platform's, and the
   variables of the other two stay as they are. *)
EXTENDS MobileWs

CONSTANTS Watchers, Nobody

ASSUME WatchersAssumption ==
    /\ Watchers # {}
    /\ ({Nobody, "app", "socket"} \cap Watchers) = {}

VARIABLES
    platform,
    pingTimer, pongTimer,
    caller, reader, loop, watcher, pongJob, closing, scope,
    started, entering, stream, finished, pingTask, pingsAwake, deadlineTask, deadlinesAwake

Dart == INSTANCE DartWsTransport
Kotlin == INSTANCE KotlinWsTransport
Swift == INSTANCE SwiftWsTransport

dartOwn == <<pingTimer, pongTimer>>
kotlinOwn == <<caller, reader, loop, watcher, pongJob, closing, scope>>
swiftOwn ==
    <<started, entering, stream, finished, pingTask, pingsAwake, deadlineTask, deadlinesAwake>>
vars == <<platform, shared, dartOwn, kotlinOwn, swiftOwn>>

DartAbsent == pingTimer = Off /\ pongTimer = Off

KotlinAbsent ==
    /\ caller = Off /\ reader = Off
    /\ loop = Off /\ watcher = Off /\ pongJob = Off
    /\ closing = Off /\ scope = Off

SwiftAbsent ==
    /\ started = FALSE /\ entering = {} /\ stream = <<>> /\ finished = FALSE
    /\ pingTask = Off /\ pingsAwake = 0 /\ deadlineTask = Off /\ deadlinesAwake = 0

Init ==
    \/ platform = "dart" /\ Dart!Init /\ KotlinAbsent /\ SwiftAbsent
    \/ platform = "kotlin" /\ Kotlin!Init /\ DartAbsent /\ SwiftAbsent
    \/ platform = "swift" /\ Swift!Init /\ DartAbsent /\ KotlinAbsent

\* A step of one platform's transport.
OnDart(A) == platform = "dart" /\ A /\ UNCHANGED <<platform, kotlinOwn, swiftOwn>>
OnKotlin(A) == platform = "kotlin" /\ A /\ UNCHANGED <<platform, dartOwn, swiftOwn>>
OnSwift(A) == platform = "swift" /\ A /\ UNCHANGED <<platform, dartOwn, kotlinOwn>>

Next ==
    \/ OnDart(Dart!Next)
    \/ OnKotlin(Kotlin!Next)
    \/ OnSwift(Swift!Next)

\* The platform runs what is due, time passes, the platform ends a close handshake, and a living
\* peer answers each request and what it sent arrives.
Runs ==
    \/ OnDart(Dart!Scheduled)
    \/ OnKotlin(Kotlin!Scheduled)
    \/ OnSwift(Swift!Scheduled)

Answers(c) ==
    \/ OnDart(PeerAnswers(c) /\ UNCHANGED dartOwn)
    \/ OnKotlin(PeerAnswers(c) /\ UNCHANGED kotlinOwn)
    \/ OnSwift(PeerAnswers(c) /\ UNCHANGED swiftOwn)

Arrives(c) ==
    \/ OnDart(\E r \in replies : r.body = c /\ Dart!DeliverReply(r))
    \/ OnKotlin(\E r \in replies : r.body = c /\ Kotlin!TakeReply(r))
    \/ OnSwift(\E r \in replies : r.body = c /\ Swift!ReceiveReply(r))

Spec == Init /\ [][Next]_vars

FairSpec ==
    /\ Spec
    /\ WF_vars(Runs)
    /\ \A c \in Calls : WF_vars(Answers(c)) /\ SF_vars(Arrives(c))
=============================================================================
