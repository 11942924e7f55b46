------------------------- MODULE KotlinWsTransport -------------------------
(***************************************************************************)
(* The Kotlin ws_rpc transport (src/src/features/service_schema/           *)
(* kotlin_ws_client.rs).  Callers, the socket's thread, the heartbeat      *)
(* loop, the watchers it launches and whoever closes run side by side.     *)
(* What stands inside one synchronized block is one step; a call of the    *)
(* socket, a cancellation or a completion outside it is a step of its own. *)
(*                                                                         *)
(* closed is read and written outside the lock: who reads it late may see  *)
(* the old value, here until the first who closes is done.                 *)
(*                                                                         *)
(* A watcher that was cancelled before it resumed does not resume; one     *)
(* that has resumed runs close() to the end, cancelled or not, since       *)
(* nothing in it suspends.  Once the socket is no longer open, its send    *)
(* may drop the frame or throw.                                            *)
(***************************************************************************)
EXTENDS MobileWs

CONSTANTS
    Watchers,  \* the watchers the loop can have launched
    Nobody     \* no watcher

VARIABLES
    caller,    \* caller[c]: where the method of call c stands
    reader,    \* the frame the socket's thread has taken, with what it will end
    loop,      \* the heartbeat loop
    watcher,   \* watcher[w]: what is left of the delay of watcher w
    pongJob,   \* the watcher the field names
    closing,   \* closing[a]: where a stands in close()
    scope      \* the scope is active

beat == <<loop, watcher, pongJob>>
closers == <<closing, scope>>
kotlinVars == <<shared, caller, reader, beat, closers>>

Closers == {"app", "socket"} \cup Watchers

\* The socket's thread is not between two steps with a frame.
NoFrame == [frame |-> "none"]

\* The loop waits out its delay, has armed a watcher, or has ended.
Delay(n) == [at |-> "delay", left |-> n]
Armed(w) == [at |-> "armed", previous |-> w]
Ended == [at |-> "ended"]

Init ==
    /\ NetworkInit
    /\ TransportInit(1)
    /\ caller = [c \in Calls |-> "idle"]
    /\ reader = NoFrame
    /\ loop = Delay(Interval)
    /\ watcher = [w \in Watchers |-> Off]
    /\ pongJob = Nobody
    /\ closing = [a \in Closers |-> "idle"]
    /\ scope = TRUE

-----------------------------------------------------------------------------
\* request.

\* Mutant: the id is taken and the counter left to be counted up later.
RegisterUncounted(c) ==
    /\ id' = [id EXCEPT ![c] = next]
    /\ next' = next
    /\ pending' = (pending \ Under(next)) \cup {c}

\* Under one lock: the id, the count and the entry.
RegisterLocked(c) == Register(c)

Enter(c) ==
    /\ caller[c] = "idle"
    /\ caller' = [caller EXCEPT ![c] = "registered"]
    /\ outcome' = [outcome EXCEPT ![c] = "waiting"]
    /\ RegisterLocked(c)
    /\ UNCHANGED <<network, flags, quiet, promise, reader, beat, closers>>

\* socket.send, outside the lock.
SendRequest(c) ==
    /\ caller[c] = "registered"
    /\ caller' = [caller EXCEPT ![c] = "sent"]
    /\ WriteRequest(c)
    /\ \/ UNCHANGED promise
       \/ sock # "open" /\ promise' = [promise EXCEPT ![c] = "failed"]
    /\ UNCHANGED <<sock, alive, pongs, replies, served, flags, quiet, next, pending, id,
                   outcome, reader, beat, closers>>

\* await, once the frame is sent.
Await(c) ==
    /\ caller[c] = "sent"
    /\ Return(c)
    /\ UNCHANGED <<caller, reader, beat, closers>>

-----------------------------------------------------------------------------
\* onFrame, one frame at a time on the socket's thread.

Listens ==
    /\ sock \in {"open", "closing"}
    /\ reader = NoFrame
    /\ closing["socket"] = "idle"

\* A pong takes the watcher under the lock, and cancels it outside.
TakePong ==
    /\ Listens
    /\ pongs # <<>>
    /\ pongs' = Tail(pongs)
    /\ quiet' = 0
    /\ reader' = IF pongJob = Nobody THEN NoFrame
                 ELSE [frame |-> "pong", watcher |-> pongJob]
    /\ pongJob' = Nobody
    /\ UNCHANGED <<sock, alive, requests, replies, served, flags, calls, caller, loop,
                   watcher, closers>>

CancelWatcher ==
    /\ reader.frame = "pong"
    /\ watcher' = [watcher EXCEPT ![reader.watcher] = Off]
    /\ reader' = NoFrame
    /\ UNCHANGED <<shared, caller, loop, pongJob, closers>>

\* A reply takes its call out of the map under the lock, and completes it
\* outside; one that nobody waits for goes to frames.
TakeReply(r) ==
    /\ Listens
    /\ r \in replies
    /\ replies' = replies \ {r}
    /\ pending' = pending \ Under(r.id)
    /\ \/ \E c \in Under(r.id) : reader' = [frame |-> "reply", call |-> c, body |-> r.body]
       \/ Under(r.id) = {} /\ UNCHANGED reader
    /\ UNCHANGED <<sock, alive, pongs, requests, served, flags, quiet, next, id, promise, outcome,
                   caller, beat, closers>>

CompleteReply ==
    /\ reader.frame = "reply"
    /\ Complete({reader.call}, reader.body)
    /\ reader' = NoFrame
    /\ UNCHANGED <<network, flags, quiet, next, pending, id, outcome, caller, beat, closers>>

-----------------------------------------------------------------------------
\* The heartbeat.

\* The names no watcher has any more.
Free == {w \in Watchers :
    /\ watcher[w] = Off /\ closing[w] = "idle" /\ w # pongJob
    /\ reader # [frame |-> "pong", watcher |-> w]}

\* The delay is over: under the lock, a new watcher is launched and the one
\* before is taken.
Arm ==
    /\ scope
    /\ loop = Delay(0)
    /\ Free # {}
    /\ LET w == CHOOSE f \in Free : TRUE
       IN  pongJob' = w /\ watcher' = [watcher EXCEPT ![w] = Timeout]
    /\ loop' = Armed(pongJob)
    /\ UNCHANGED <<shared, caller, reader, closers>>

\* Mutant: the watcher of the ping before is left to run.
LeavePrevious == UNCHANGED watcher

\* previous?.cancel()
CancelPrevious ==
    watcher' = IF loop.previous = Nobody THEN watcher
               ELSE [watcher EXCEPT ![loop.previous] = Off]

\* Outside the lock, the watcher before is cancelled and the ping sent.  The
\* loop ends when the send throws or the scope is no longer active.
SendPing ==
    /\ loop.at = "armed"
    /\ CancelPrevious
    /\ WritePing
    /\ \/ loop' = IF scope THEN Delay(Interval) ELSE Ended
       \/ sock # "open" /\ loop' = Ended
    /\ UNCHANGED <<sock, alive, requests, replies, served, flags, quiet, calls, caller,
                   reader, pongJob, closers>>

-----------------------------------------------------------------------------
\* close.

Steps(a, from, to) ==
    /\ closing[a] = from
    /\ closing' = [closing EXCEPT ![a] = to]

\* Who closes: the application, the socket's close event on the socket's
\* thread, or a watcher whose delay is over.
AppCloses ==
    /\ Steps("app", "idle", "test")
    /\ UNCHANGED <<shared, caller, reader, beat, scope>>

SocketTellsClose ==
    /\ sock = "closed" /\ reader = NoFrame
    /\ Steps("socket", "idle", "test")
    /\ UNCHANGED <<shared, caller, reader, beat, scope>>

WatcherWakes(w) ==
    /\ watcher[w] = 0
    /\ watcher' = [watcher EXCEPT ![w] = Off]
    /\ Steps(w, "idle", "test")
    /\ UNCHANGED <<shared, caller, reader, loop, pongJob, scope>>

CauseOf(a) == IF a \in Watchers THEN Cause("heartbeat") ELSE a

\* if (closed) return; closed = true.  Who reads the old value goes on too.
Begin(a) ==
    /\ \/ ~(\E b \in Closers : closing[b] = "done") /\ Steps(a, "test", "shut") /\ closed' = TRUE
       \/ closed /\ Steps(a, "test", "done") /\ UNCHANGED closed
    /\ endedBy' = IF closed THEN endedBy ELSE CauseOf(a)
    /\ UNCHANGED <<network, quiet, calls, caller, reader, beat, scope>>

\* The socket is closed, and the watcher the field names cancelled.
Shut(a) ==
    /\ Steps(a, "shut", "settle")
    /\ CloseSocket
    /\ watcher' = IF pongJob = Nobody THEN watcher ELSE [watcher EXCEPT ![pongJob] = Off]
    /\ UNCHANGED <<alive, pongs, requests, replies, served, flags, quiet, calls, caller,
                   reader, loop, pongJob, scope>>

\* Mutant: the map is emptied and nothing of it completed.
Drop == pending' = {} /\ UNCHANGED promise

\* What is waiting leaves the map under the lock, and is completed after it.
SettleAll == pending' = {} /\ Complete(pending, "failed")

\* The waiting calls are settled, and scope.cancel() ends what is in a delay.
Settle(a) ==
    /\ Steps(a, "settle", "done")
    /\ SettleAll
    /\ scope' = FALSE
    /\ watcher' = [w \in Watchers |-> Off]
    /\ loop' = IF loop.at = "delay" THEN Ended ELSE loop
    /\ UNCHANGED <<network, flags, quiet, next, id, outcome, caller, reader, pongJob>>

CloseStep(a) ==
    Begin(a) \/ Shut(a) \/ Settle(a)

-----------------------------------------------------------------------------
\* Nothing is due and no thread is between two steps.
Rests ==
    /\ NothingArrives
    /\ reader = NoFrame
    /\ loop.at \in {"delay", "ended"} /\ loop # Delay(0)
    /\ \A w \in Watchers : watcher[w] # 0
    /\ \A a \in Closers : closing[a] \in {"idle", "done"}
    /\ \A c \in Calls : caller[c] # "registered"

Tick ==
    /\ Rests
    /\ TimePasses
    /\ loop' = IF loop.at = "delay" THEN Delay(Less(loop.left)) ELSE loop
    /\ watcher' = [w \in Watchers |-> Less(watcher[w])]
    /\ UNCHANGED <<caller, reader, pongJob, closers>>

\* What the threads and the dispatcher do in the end.
Scheduled ==
    \/ Tick
    \/ \E c \in Calls : SendRequest(c) \/ Await(c)
    \/ TakePong \/ CancelWatcher \/ CompleteReply
    \/ Arm \/ SendPing
    \/ SocketTellsClose \/ \E w \in Watchers : WatcherWakes(w)
    \/ \E a \in Closers : CloseStep(a)

Next ==
    \/ Peer /\ UNCHANGED <<caller, reader, beat, closers>>
    \/ \E c \in Calls : Enter(c)
    \/ \E r \in replies : TakeReply(r)
    \/ AppCloses
    \/ Scheduled
=============================================================================
