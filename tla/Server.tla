------------------------------- MODULE Server -------------------------------
(***************************************************************************)
(* serve(): the main thread from listen() to its return, the signal        *)
(* watcher, the handlers of POST /generate and POST /generate/stream, the  *)
(* request queue with its condition variable, and the worker thread.       *)
(*                                                                         *)
(* The scheduler is what the handlers see of it: it takes requests from    *)
(* the queue, generates tokens, reads cancel flags, tells the sink the end *)
(* and fulfils the promise (modules Scheduler and StaticScheduler have the *)
(* rest, module Streaming the sink's own condition variable).  httplib is  *)
(* external: listen() returns once stop() was called and every handler has *)
(* returned, and stop() before listen() has no effect.                     *)
(***************************************************************************)
EXTENDS Naturals, Sequences, FiniteSets

CONSTANTS
  Req,         \* the requests that may arrive
  Streamed,    \* those of them for /generate/stream
  QueueDepth,  \* config.max_queue_depth
  MaxBatch,    \* config.max_batch_size
  MaxTokens    \* bound: tokens a request generates

ASSUME ServerAssumption ==
  /\ Streamed \subseteq Req
  /\ QueueDepth \in Nat /\ MaxBatch \in Nat \ {0} /\ MaxTokens \in Nat

VARIABLES
  main, watcher, worker,  \* the three threads of serve()
  handler,                \* [Req -> the place of the request's handler]
  signal,                 \* g_signal_received
  shutting,               \* shutting_down
  watcherDone,            \* watcher_done
  accepting,              \* httplib's accept loop runs
  queue, closed,          \* RequestQueue
  status,                 \* [Req -> what became of the request: "bad" (400), "full" (503), "queued"]
  cancel,                 \* requests whose cancel flag is up
  hungup,                 \* requests whose client has closed the connection
  active,                 \* requests the scheduler is working on
  tokens,                 \* [Req -> tokens generated]
  outcome,                \* [Req -> how the sequence ended, "none" before]
  events,                 \* [Req -> the streaming sink's events_]
  promise                 \* [Req -> the reason in the promise, "none" before]

http == <<handler, status, hungup>>
threads == <<main, watcher, signal, shutting, watcherDone, accepting>>
generation == <<active, tokens, outcome, events, promise>>
vars == <<http, threads, worker, queue, closed, cancel, generation>>

Init ==
  /\ main = "start" /\ watcher = "poll" /\ worker = "run"
  /\ handler = [r \in Req |-> "none"]
  /\ signal = FALSE /\ shutting = FALSE /\ watcherDone = FALSE /\ accepting = FALSE
  /\ queue = << >> /\ closed = FALSE
  /\ status = [r \in Req |-> "none"]
  /\ cancel = {} /\ hungup = {} /\ active = {}
  /\ tokens = [r \in Req |-> 0] /\ outcome = [r \in Req |-> "none"]
  /\ events = [r \in Req |-> << >>] /\ promise = [r \in Req |-> "none"]

Go(r, place) == handler' = [handler EXCEPT ![r] = place]
Becomes(r, s) == status' = [status EXCEPT ![r] = s]
InHandler(r) == handler[r] \notin {"none", "returned"}
Woken == IF worker = "asleep" THEN "run" ELSE worker

-----------------------------------------------------------------------------
(* The handlers. *)

Parse(r) ==
  /\ accepting /\ handler[r] = "none" /\ Go(r, "push")
  /\ UNCHANGED <<status, hungup, threads, worker, queue, closed, cancel, generation>>

(* BadRequest, answered 400. *)
ParseFails(r) ==
  /\ accepting /\ handler[r] = "none" /\ Go(r, "returned") /\ Becomes(r, "bad")
  /\ UNCHANGED <<hungup, threads, worker, queue, closed, cancel, generation>>

(* Mutant of Push: one request too many. *)
PushTooMany(r) ==
  /\ handler[r] = "push"
  /\ IF closed \/ Len(queue) > QueueDepth
     THEN Go(r, "returned") /\ Becomes(r, "full") /\ UNCHANGED queue
     ELSE Go(r, "notify") /\ Becomes(r, "queued") /\ queue' = Append(queue, r)
  /\ UNCHANGED <<hungup, threads, worker, closed, cancel, generation>>

(* try_push(); a refusal is answered 503. *)
Push(r) ==
  /\ handler[r] = "push"
  /\ IF closed \/ Len(queue) >= QueueDepth
     THEN Go(r, "returned") /\ Becomes(r, "full") /\ UNCHANGED queue
     ELSE Go(r, "notify") /\ Becomes(r, "queued") /\ queue' = Append(queue, r)
  /\ UNCHANGED <<hungup, threads, worker, closed, cancel, generation>>

(* Mutant of NotifyOne: the waiting worker is not told. *)
NotifyNobody(r) ==
  /\ handler[r] = "notify" /\ Go(r, IF r \in Streamed THEN "next" ELSE "wait")
  /\ UNCHANGED <<status, hungup, threads, worker, queue, closed, cancel, generation>>

(* try_push()'s notify_one(), after the mutex is released. *)
NotifyOne(r) ==
  /\ handler[r] = "notify" /\ Go(r, IF r \in Streamed THEN "next" ELSE "wait")
  /\ worker' = Woken
  /\ UNCHANGED <<status, hungup, threads, queue, closed, cancel, generation>>

(* wait_for() timed out: a disconnect or a shutdown raises the flag. *)
WaitTimesOut(r) ==
  /\ handler[r] = "wait" /\ promise[r] = "none"
  /\ r \in hungup \/ shutting
  /\ cancel' = cancel \cup {r}
  /\ UNCHANGED <<http, threads, worker, queue, closed, generation>>

Respond(r) ==
  /\ handler[r] = "wait" /\ promise[r] # "none" /\ Go(r, "returned")
  /\ UNCHANGED <<status, hungup, threads, worker, queue, closed, cancel, generation>>

(* The provider writes a delta, and honours a drain. *)
WriteDelta(r) ==
  /\ handler[r] = "next" /\ events[r] # << >> /\ Head(events[r]) = "delta"
  /\ events' = [events EXCEPT ![r] = Tail(@)]
  /\ cancel' = IF shutting THEN cancel \cup {r} ELSE cancel
  /\ UNCHANGED <<http, threads, worker, queue, closed, active, tokens, outcome, promise>>

(* Mutant of WriteFails: returns without raising the flag. *)
WriteFailsSilently(r) ==
  /\ handler[r] = "next" /\ events[r] # << >> /\ Head(events[r]) = "delta" /\ r \in hungup
  /\ events' = [events EXCEPT ![r] = Tail(@)]
  /\ Go(r, "returned")
  /\ UNCHANGED <<status, hungup, threads, worker, queue, closed, cancel, active, tokens, outcome, promise>>

(* The client hung up. *)
WriteFails(r) ==
  /\ handler[r] = "next" /\ events[r] # << >> /\ Head(events[r]) = "delta" /\ r \in hungup
  /\ events' = [events EXCEPT ![r] = Tail(@)]
  /\ cancel' = cancel \cup {r}
  /\ Go(r, "returned")
  /\ UNCHANGED <<status, hungup, threads, worker, queue, closed, active, tokens, outcome, promise>>

WriteTail(r) ==
  /\ handler[r] = "next" /\ events[r] # << >> /\ Head(events[r]) = "end"
  /\ events' = [events EXCEPT ![r] = Tail(@)]
  /\ Go(r, "returned")
  /\ UNCHANGED <<status, hungup, threads, worker, queue, closed, cancel, active, tokens, outcome, promise>>

HangUp(r) ==
  /\ InHandler(r) /\ r \notin hungup
  /\ hungup' = hungup \cup {r}
  /\ UNCHANGED <<handler, status, threads, worker, queue, closed, cancel, generation>>

-----------------------------------------------------------------------------
(* The worker thread: the queue's pop() and try_pop(), and the scheduler.  *)

Take ==
  /\ worker = "run" /\ queue # << >> /\ Cardinality(active) < MaxBatch
  /\ active' = active \cup {Head(queue)} /\ queue' = Tail(queue)
  /\ UNCHANGED <<http, threads, worker, closed, cancel, tokens, outcome, events, promise>>

(* An idle scheduler blocks in pop(). *)
Sleep ==
  /\ worker = "run" /\ active = {} /\ queue = << >> /\ ~closed
  /\ worker' = "asleep"
  /\ UNCHANGED <<http, threads, queue, closed, cancel, generation>>

SpuriousWakeup ==
  /\ worker = "asleep" /\ worker' = "run"
  /\ UNCHANGED <<http, threads, queue, closed, cancel, generation>>

Exit ==
  /\ worker = "run" /\ active = {} /\ queue = << >> /\ closed
  /\ worker' = "gone"
  /\ UNCHANGED <<http, threads, queue, closed, cancel, generation>>

(* What a streaming sink may get of one step: the stop strings may hold    *)
(* all of it back.                                                         *)
Deltas(r) == IF r \in Streamed THEN {<< >>, <<"delta">>} ELSE {<< >>}

(* A token accepted with the cancel flag down. *)
Token(r) ==
  /\ worker = "run" /\ r \in active /\ outcome[r] = "none" /\ tokens[r] < MaxTokens
  /\ r \notin cancel
  /\ tokens' = [tokens EXCEPT ![r] = @ + 1]
  /\ \E delta \in Deltas(r) : events' = [events EXCEPT ![r] = @ \o delta]
  /\ UNCHANGED <<http, threads, worker, queue, closed, cancel, active, outcome, promise>>

(* The sequence ends, flushes what is left and tells the sink; it ends     *)
(* with "cancelled" at the first token accepted with the flag up.          *)
End(r, why) ==
  /\ worker = "run" /\ r \in active /\ outcome[r] = "none"
  /\ why = "cancelled" => r \in cancel
  /\ outcome' = [outcome EXCEPT ![r] = why]
  /\ \E delta \in Deltas(r) :
       events' = [events EXCEPT ![r] = IF r \in Streamed THEN @ \o delta \o <<"end">> ELSE @]
  /\ UNCHANGED <<http, threads, worker, queue, closed, cancel, active, tokens, promise>>

(* retire() and deliver(). *)
Deliver(r) ==
  /\ worker = "run" /\ r \in active /\ outcome[r] # "none"
  /\ promise' = [promise EXCEPT ![r] = outcome[r]]
  /\ active' = active \ {r}
  /\ UNCHANGED <<http, threads, worker, queue, closed, cancel, tokens, outcome, events>>

-----------------------------------------------------------------------------
(* The signal handler, the watcher and the main thread. *)

Signal ==
  /\ ~signal /\ main \in {"start", "listening", "unwind", "join watcher"}
  /\ signal' = TRUE
  /\ UNCHANGED <<http, main, watcher, shutting, watcherDone, accepting, worker, queue, closed,
                 cancel, generation>>

WatcherSees ==
  /\ watcher = "poll" /\ signal
  /\ shutting' = TRUE /\ watcher' = "stop"
  /\ UNCHANGED <<http, main, signal, watcherDone, accepting, worker, queue, closed, cancel, generation>>

WatcherStops ==
  /\ watcher = "stop" /\ watcher' = "gone" /\ accepting' = FALSE
  /\ UNCHANGED <<http, main, signal, shutting, watcherDone, worker, queue, closed, cancel, generation>>

WatcherLeaves ==
  /\ watcher = "poll" /\ watcherDone /\ watcher' = "gone"
  /\ UNCHANGED <<http, main, signal, shutting, watcherDone, accepting, worker, queue, closed,
                 cancel, generation>>

Listen ==
  /\ main = "start" /\ main' = "listening" /\ accepting' = TRUE
  /\ UNCHANGED <<http, watcher, signal, shutting, watcherDone, worker, queue, closed, cancel, generation>>

(* The port cannot be bound: listen() returns at once. *)
ListenFails ==
  /\ main = "start" /\ main' = "unwind"
  /\ UNCHANGED <<http, watcher, signal, shutting, watcherDone, accepting, worker, queue, closed,
                 cancel, generation>>

(* Mutant of ListenReturns: the handlers are not waited for. *)
ListenReturnsEarly ==
  /\ main = "listening" /\ ~accepting /\ main' = "unwind"
  /\ UNCHANGED <<http, watcher, signal, shutting, watcherDone, accepting, worker, queue, closed,
                 cancel, generation>>

ListenReturns ==
  /\ main = "listening" /\ ~accepting /\ \A r \in Req : ~InHandler(r)
  /\ main' = "unwind"
  /\ UNCHANGED <<http, watcher, signal, shutting, watcherDone, accepting, worker, queue, closed,
                 cancel, generation>>

StopWatcher ==
  /\ main = "unwind" /\ main' = "join watcher" /\ watcherDone' = TRUE
  /\ UNCHANGED <<http, watcher, signal, shutting, accepting, worker, queue, closed, cancel, generation>>

JoinWatcher ==
  /\ main = "join watcher" /\ watcher = "gone" /\ main' = "close"
  /\ UNCHANGED <<http, watcher, signal, shutting, watcherDone, accepting, worker, queue, closed,
                 cancel, generation>>

(* RequestQueue::close(): the flag under the mutex, then notify_all(). *)
CloseQueue ==
  /\ main = "close" /\ main' = "notify all" /\ closed' = TRUE
  /\ UNCHANGED <<http, watcher, signal, shutting, watcherDone, accepting, worker, queue, cancel, generation>>

NotifyAll ==
  /\ main = "notify all" /\ main' = "join worker" /\ worker' = Woken
  /\ UNCHANGED <<http, watcher, signal, shutting, watcherDone, accepting, queue, closed, cancel, generation>>

(* Mutant of JoinWorker: serve() returns without the worker. *)
DetachWorker ==
  /\ main = "join worker" /\ main' = "returned"
  /\ UNCHANGED <<http, watcher, signal, shutting, watcherDone, accepting, worker, queue, closed,
                 cancel, generation>>

JoinWorker ==
  /\ main = "join worker" /\ worker = "gone" /\ main' = "returned"
  /\ UNCHANGED <<http, watcher, signal, shutting, watcherDone, accepting, worker, queue, closed,
                 cancel, generation>>

-----------------------------------------------------------------------------
Reason == {"finished", "cancelled"}

Handle(r) ==
  \/ Push(r) \/ NotifyOne(r)
  \/ WaitTimesOut(r) \/ Respond(r)
  \/ WriteDelta(r) \/ WriteFails(r) \/ WriteTail(r)

Work ==
  \/ Take \/ Sleep \/ Exit
  \/ \E r \in Req : Token(r) \/ Deliver(r) \/ \E why \in Reason : End(r, why)

Watch == WatcherSees \/ WatcherStops \/ WatcherLeaves

Serve ==
  \/ Listen \/ ListenFails \/ ListenReturns
  \/ StopWatcher \/ JoinWatcher \/ CloseQueue \/ NotifyAll \/ JoinWorker

(* serve() has returned. *)
Stopped == main = "returned" /\ UNCHANGED vars

Next ==
  \/ \E r \in Req : Parse(r) \/ ParseFails(r) \/ HangUp(r) \/ Handle(r)
  \/ Work \/ SpuriousWakeup
  \/ Signal \/ Watch \/ Serve
  \/ Stopped

Spec == Init /\ [][Next]_vars

(* Every thread is always scheduled again; clients and the sender of the   *)
(* signal owe nothing.                                                     *)
FairSpec ==
  /\ Spec
  /\ WF_vars(Work) /\ WF_vars(Watch) /\ WF_vars(Serve)
  /\ \A r \in Req : WF_vars(Handle(r))

-----------------------------------------------------------------------------
Events == Seq({"delta", "end"})
Status == {"none", "bad", "full", "queued"}
Outcome == Reason \cup {"none"}
Place == {"none", "push", "notify", "wait", "next", "returned"}

(* The variables have their types, and the queue its capacity. *)
TypeOK ==
  /\ main \in {"start", "listening", "unwind", "join watcher", "close", "notify all",
               "join worker", "returned"}
  /\ watcher \in {"poll", "stop", "gone"} /\ worker \in {"run", "asleep", "gone"}
  /\ handler \in [Req -> Place]
  /\ signal \in BOOLEAN /\ shutting \in BOOLEAN /\ watcherDone \in BOOLEAN
  /\ accepting \in BOOLEAN /\ closed \in BOOLEAN
  /\ queue \in Seq(Req) /\ Len(queue) <= QueueDepth
  /\ status \in [Req -> Status]
  /\ cancel \subseteq Req /\ hungup \subseteq Req /\ active \subseteq Req
  /\ tokens \in [Req -> 0..MaxTokens]
  /\ outcome \in [Req -> Outcome] /\ promise \in [Req -> Outcome]
  /\ events \in [Req -> Events]

(* server.cpp: "cancel->store(true); client hung up": no sequence runs on   *)
(* for a handler that is gone.  A request the scheduler still has to end,   *)
(* queued or active, has its handler or its cancel flag up.                 *)
OrphansCancelled ==
  \A r \in active \cup {queue[i] : i \in 1..Len(queue)} :
    outcome[r] = "none" => InHandler(r) \/ r \in cancel

(* What the unwinding of serve() is for: when it returns, the handlers and  *)
(* the other threads are gone and every request that entered the queue has  *)
(* its promise fulfilled, also one whose handler left before its end.       *)
DrainedAtReturn ==
  main = "returned" =>
    /\ worker = "gone" /\ watcher = "gone" /\ queue = << >> /\ active = {}
    /\ \A r \in Req : ~InHandler(r)
    /\ \A r \in Req : status[r] = "queued" => promise[r] # "none"

(* The queue is closed only after every handler has returned: a 503 always  *)
(* means "server at capacity", never a queue closed under a live handler.   *)
RefusedOnlyAtCapacity == 
  [][\A r \in Req : status'[r] = "full" /\ status[r] # "full" => Len(queue) = QueueDepth]_vars

(* Every handler returns, and a signal makes serve() return.  The signal    *)
(* counts once listen() is entered: stop() before that has no effect.       *)
ServesAndStops ==
  /\ \A r \in Req : handler[r] = "push" ~> handler[r] = "returned"
  /\ (signal /\ main = "listening" /\ watcher = "poll") ~> main = "returned"
=============================================================================
