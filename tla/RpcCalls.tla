------------------------------ MODULE RpcCalls ------------------------------
(***************************************************************************)
(* What a request-and-reply transport promises the callers of a service.   *)
(*                                                                         *)
(* A call is issued once.  The far side serves it at most once, and may do *)
(* so after its caller gave up.  The caller gets one outcome, for good:    *)
(* the answer to its own call, which the far side then has produced; a     *)
(* failure; or nothing, when it abandoned the call.                        *)
(*                                                                         *)
(* The transports this repository generates are checked against this       *)
(* module: the specification of each one maps its own state to phase and   *)
(* served, and a reply handed to the wrong caller maps to a phase this     *)
(* module never takes.                                                     *)
(***************************************************************************)
CONSTANT Calls

VARIABLES
    phase,    \* phase[c]: how far call c has come, as its caller sees it
    served    \* the calls the far side has produced an answer for

rpcVars == <<phase, served>>

Phases == {"idle", "waiting", "answered", "failed", "abandoned"}

RpcTypeOK ==
    /\ phase \in [Calls -> Phases]
    /\ served \subseteq Calls

RpcInit ==
    /\ phase = [c \in Calls |-> "idle"]
    /\ served = {}

\* The caller makes its call.
Issue(c) ==
    /\ phase[c] = "idle"
    /\ phase' = [phase EXCEPT ![c] = "waiting"]
    /\ UNCHANGED served

\* The far side produces the answer to a call that was made.
ServeCall(c) ==
    /\ phase[c] # "idle"
    /\ c \notin served
    /\ served' = served \cup {c}
    /\ UNCHANGED phase

\* The caller is handed the answer to its own call.
Answer(c) ==
    /\ phase[c] = "waiting"
    /\ c \in served
    /\ phase' = [phase EXCEPT ![c] = "answered"]
    /\ UNCHANGED served

\* The caller is told that no answer will come.
Fail(c) ==
    /\ phase[c] = "waiting"
    /\ phase' = [phase EXCEPT ![c] = "failed"]
    /\ UNCHANGED served

\* The caller stops waiting.
Abandon(c) ==
    /\ phase[c] = "waiting"
    /\ phase' = [phase EXCEPT ![c] = "abandoned"]
    /\ UNCHANGED served

RpcNext == \E c \in Calls :
    Issue(c) \/ ServeCall(c) \/ Answer(c) \/ Fail(c) \/ Abandon(c)

RpcSpec == RpcInit /\ [][RpcNext]_rpcVars
=============================================================================
