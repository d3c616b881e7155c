---------------------------- MODULE ServerProofs ----------------------------
(***************************************************************************)
(* serve() drains: for every set of requests, queue depth and batch size,  *)
(* no sequence runs on without a handler or a raised cancel flag, the      *)
(* queue closes under no live handler, and every request that entered the  *)
(* queue has its promise fulfilled when serve() returns.                   *)
(***************************************************************************)
EXTENDS Server, SequenceTheorems, TLAPS

Queued == {queue[i] : i \in 1..Len(queue)}

(* The main thread's place and what the other threads can still do. *)
Unwinding ==
  /\ main # "listening" => ~accepting /\ \A r \in Req : ~InHandler(r)
  /\ main = "start" => \A r \in Req : handler[r] = "none"
  /\ main \in {"close", "notify all", "join worker", "returned"} => watcher = "gone"
  /\ closed <=> main \in {"notify all", "join worker", "returned"}
  /\ worker = "gone" => closed /\ queue = << >> /\ active = {}
  /\ main = "returned" => worker = "gone"

(* A request in the queue is there once and not yet active. *)
QueuedOnce ==
  /\ \A i, j \in 1..Len(queue) : queue[i] = queue[j] => i = j
  /\ Queued \cap active = {}

(* A request that entered the queue is queued, active or answered. *)
Accounted ==
  \A r \in Req :
    /\ status[r] = "queued" <=> (r \in Queued \cup active \/ promise[r] # "none")
    /\ status[r] = "queued" => handler[r] \in {"notify", "wait", "next", "returned"}
    /\ r \in Queued \cup active => promise[r] = "none"

(* The sink is told the end only of a sequence that has ended. *)
EndTold ==
  \A r \in Req : \A i \in 1..Len(events[r]) : events[r][i] = "end" => outcome[r] # "none"

IInv == TypeOK /\ OrphansCancelled /\ Unwinding /\ QueuedOnce /\ Accounted /\ EndTold

-----------------------------------------------------------------------------
(* The initial state satisfies the inductive invariant. *)
LEMMA InitIInv == Init => IInv
<1> SUFFICES ASSUME Init
             PROVE  IInv
  OBVIOUS
<1> USE DEF Init
<1>1. TypeOK
  <2>1. handler \in [Req -> Place] /\ status \in [Req -> Status]
    BY DEF Place, Status
  <2>2. tokens \in [Req -> 0..MaxTokens]
    BY ServerAssumption
  <2>3. /\ outcome \in [Req -> Outcome] /\ promise \in [Req -> Outcome]
        /\ events \in [Req -> Events]
    BY DEF Events, Outcome
  <2>4. queue \in Seq(Req) /\ Len(queue) <= QueueDepth
    BY ServerAssumption
  <2> QED
    BY <2>1, <2>2, <2>3, <2>4 DEF TypeOK
<1>2. queue = << >> /\ Queued = {} /\ active = {}
  BY DEF Queued
<1>3. OrphansCancelled /\ QueuedOnce /\ EndTold
  BY <1>2 DEF OrphansCancelled, QueuedOnce, EndTold
<1>4. Accounted
  BY <1>2 DEF Accounted
<1>5. Unwinding
  BY DEF Unwinding, InHandler
<1> QED
  BY <1>1, <1>3, <1>4, <1>5 DEF IInv

(* A step of the main thread, the watcher or the worker that touches no    *)
(* request only has to keep the threads in step.                           *)
LEMMA ThreadsOnly ==
  ASSUME IInv, TypeOK', Unwinding', UNCHANGED <<http, queue, cancel, generation>>
  PROVE  IInv'
BY DEF IInv, http, generation, OrphansCancelled, QueuedOnce, Queued, Accounted, EndTold, InHandler

(* The steps of serve()'s main thread. *)
LEMMA ServeStep ==
  ASSUME IInv, Serve
  PROVE  IInv'
<1> USE DEF http, generation, Woken
<1>1. UNCHANGED <<http, queue, cancel, generation>>
  BY DEF Serve, Listen, ListenFails, ListenReturns, StopWatcher, JoinWatcher, CloseQueue, NotifyAll,
         JoinWorker
<1>2. TypeOK'
  <2>1. /\ main' \in {"start", "listening", "unwind", "join watcher", "close", "notify all",
                      "join worker", "returned"}
        /\ watcher' = watcher /\ worker' \in {"run", "asleep", "gone"}
    BY DEF IInv, TypeOK, Serve, Listen, ListenFails, ListenReturns, StopWatcher, JoinWatcher,
           CloseQueue, NotifyAll, JoinWorker
  <2>2. signal' = signal /\ shutting' = shutting
    BY DEF Serve, Listen, ListenFails, ListenReturns, StopWatcher, JoinWatcher, CloseQueue,
           NotifyAll, JoinWorker
  <2>3. watcherDone' \in BOOLEAN /\ accepting' \in BOOLEAN /\ closed' \in BOOLEAN
    BY Zenon DEF IInv, TypeOK, Serve, Listen, ListenFails, ListenReturns, StopWatcher, JoinWatcher,
           CloseQueue, NotifyAll, JoinWorker
  <2> QED
    BY <1>1, <2>1, <2>2, <2>3 DEF IInv, TypeOK
<1>3. Unwinding'
  <2>1. CASE Listen
    BY <2>1 DEF IInv, Unwinding, Listen, InHandler
  <2>2. CASE ListenFails
    BY <2>2 DEF IInv, Unwinding, ListenFails, InHandler
  <2>3. CASE ListenReturns
    BY <2>3 DEF IInv, Unwinding, ListenReturns, InHandler
  <2>4. CASE StopWatcher
    BY <2>4 DEF IInv, Unwinding, StopWatcher, InHandler
  <2>5. CASE JoinWatcher
    BY <2>5 DEF IInv, Unwinding, JoinWatcher, InHandler
  <2>6. CASE CloseQueue
    BY <2>6 DEF IInv, Unwinding, CloseQueue, InHandler
  <2>7. CASE NotifyAll
    BY <2>7 DEF IInv, Unwinding, NotifyAll, InHandler
  <2>8. CASE JoinWorker
    BY <2>8 DEF IInv, Unwinding, JoinWorker, InHandler
  <2> QED
    BY <2>1, <2>2, <2>3, <2>4, <2>5, <2>6, <2>7, <2>8 DEF Serve
<1> QED
  BY <1>1, <1>2, <1>3, ThreadsOnly

(* The signal, the watcher, and the worker's sleep, wakeup and exit. *)
LEMMA WatchStep ==
  ASSUME IInv, Signal \/ Watch \/ Sleep \/ SpuriousWakeup \/ Exit \/ UNCHANGED vars
  PROVE  IInv'
<1> USE DEF http, generation, threads, vars, Watch
<1>1. UNCHANGED <<http, queue, cancel, generation, main, watcherDone, closed>>
  BY DEF Signal, WatcherSees, WatcherStops, WatcherLeaves, Sleep, SpuriousWakeup, Exit
<1>2. TypeOK'
  <2>1. watcher' \in {"poll", "stop", "gone"} /\ worker' \in {"run", "asleep", "gone"}
    BY DEF IInv, TypeOK, Signal, WatcherSees, WatcherStops, WatcherLeaves, Sleep, SpuriousWakeup, Exit
  <2>2. signal' \in BOOLEAN /\ shutting' \in BOOLEAN /\ accepting' \in BOOLEAN
    BY Zenon DEF IInv, TypeOK, Signal, WatcherSees, WatcherStops, WatcherLeaves, Sleep,
           SpuriousWakeup, Exit
  <2> QED
    BY <1>1, <2>1, <2>2 DEF IInv, TypeOK
<1>3. Unwinding'
  <2>1. accepting' => accepting
    BY DEF Signal, WatcherSees, WatcherStops, WatcherLeaves, Sleep, SpuriousWakeup, Exit
  <2>2. watcher = "gone" => watcher' = "gone"
    BY DEF Signal, WatcherSees, WatcherStops, WatcherLeaves, Sleep, SpuriousWakeup, Exit
  <2>3. worker' = "gone" => worker = "gone" \/ (closed /\ queue = << >> /\ active = {})
    BY DEF Signal, WatcherSees, WatcherStops, WatcherLeaves, Sleep, SpuriousWakeup, Exit
  <2>4. worker = "gone" => worker' = "gone"
    BY DEF Signal, WatcherSees, WatcherStops, WatcherLeaves, Sleep, SpuriousWakeup, Exit
  <2> QED
    BY <1>1, <2>1, <2>2, <2>3, <2>4 DEF IInv, Unwinding, InHandler
<1> QED
  BY <1>1, <1>2, <1>3, ThreadsOnly

-----------------------------------------------------------------------------
(* A live handler, or an accept loop, means serve() is in listen() and the *)
(* queue is open.                                                          *)
LEMMA LiveMeansListening ==
  ASSUME IInv, NEW r \in Req, InHandler(r) \/ accepting
  PROVE  main = "listening" /\ ~closed /\ worker # "gone"
BY DEF IInv, Unwinding

(* The queue holds requests. *)
LEMMA QueuedAreRequests ==
  ASSUME TypeOK
  PROVE  /\ queue \in Seq(Req) /\ Len(queue) \in Nat /\ Len(queue) <= QueueDepth
         /\ Queued \subseteq Req /\ active \subseteq Req
<1>1. queue \in Seq(Req) /\ Len(queue) <= QueueDepth /\ active \subseteq Req
  BY Zenon DEF TypeOK
<1>2. Len(queue) \in Nat /\ \A i \in 1..Len(queue) : queue[i] \in Req
  BY <1>1
<1> QED
  BY <1>1, <1>2 DEF Queued

(* The types of what belongs to the requests. *)
LEMMA RequestTypes ==
  ASSUME TypeOK
  PROVE  /\ worker \in {"run", "asleep", "gone"} /\ handler \in [Req -> Place]
         /\ queue \in Seq(Req) /\ Len(queue) <= QueueDepth /\ status \in [Req -> Status]
         /\ cancel \subseteq Req /\ hungup \subseteq Req /\ active \subseteq Req
         /\ tokens \in [Req -> 0..MaxTokens] /\ outcome \in [Req -> Outcome]
         /\ promise \in [Req -> Outcome] /\ events \in [Req -> Events]
BY Zenon DEF TypeOK

(* A step that leaves the other threads alone keeps their types. *)
LEMMA RequestTypesSuffice ==
  ASSUME TypeOK,
         UNCHANGED <<main, watcher, signal, shutting, watcherDone, accepting, closed>>,
         worker' \in {"run", "asleep", "gone"}, handler' \in [Req -> Place],
         queue' \in Seq(Req), Len(queue') <= QueueDepth, status' \in [Req -> Status],
         cancel' \subseteq Req, hungup' \subseteq Req, active' \subseteq Req,
         tokens' \in [Req -> 0..MaxTokens], outcome' \in [Req -> Outcome],
         promise' \in [Req -> Outcome], events' \in [Req -> Events]
  PROVE  TypeOK'
<1>1. /\ main' = main /\ watcher' = watcher /\ signal' = signal /\ shutting' = shutting
      /\ watcherDone' = watcherDone /\ accepting' = accepting /\ closed' = closed
  OBVIOUS
<1> QED
  BY <1>1, Zenon DEF TypeOK

(* A handler may return when the scheduler has no business left with its   *)
(* request, the sequence has ended or the cancel flag is up.               *)
LEMMA HandlerMoves ==
  ASSUME IInv, TypeOK', EndTold', NEW r \in Req, NEW p \in Place,
         InHandler(r) \/ accepting,
         handler' = [handler EXCEPT ![r] = p],
         UNCHANGED <<main, watcher, accepting, queue, closed, active, outcome, promise>>,
         worker' = "gone" => worker = "gone",
         cancel \subseteq cancel',
         \A q \in Req : status'[q] = "queued" <=> status[q] = "queued",
         status[r] = "queued" => p \in {"notify", "wait", "next", "returned"},
         p \in {"none", "returned"} => r \notin Queued \cup active \/ outcome[r] # "none" \/ r \in cancel'
  PROVE  IInv'
<1>1. main = "listening" /\ ~closed /\ worker # "gone"
  BY LiveMeansListening
<1>2. \A q \in Req : handler'[q] = IF q = r THEN p ELSE handler[q]
  BY DEF IInv, TypeOK
<1>3. Queued' = Queued /\ Queued \subseteq Req /\ active \subseteq Req
  <2>1. Queued' = Queued
    BY DEF Queued
  <2> QED
    BY <2>1, QueuedAreRequests DEF IInv
<1>4. OrphansCancelled'
  <2> SUFFICES ASSUME NEW q \in Queued \cup active, outcome[q] = "none"
               PROVE  InHandler(q)' \/ q \in cancel'
    BY <1>3 DEF OrphansCancelled, Queued
  <2>1. q \in Req /\ (InHandler(q) \/ q \in cancel)
    BY <1>3 DEF IInv, OrphansCancelled, Queued
  <2> QED
    BY <1>2, <2>1 DEF InHandler
<1>5. Unwinding'
  BY <1>1 DEF IInv, Unwinding, InHandler
<1>6. QueuedOnce'
  BY <1>3 DEF IInv, QueuedOnce
<1>7. Accounted'
  BY <1>2, <1>3 DEF IInv, Accounted
<1> QED
  BY <1>4, <1>5, <1>6, <1>7 DEF IInv

(* The arrival of a request, and its handler up to try_push(). *)
LEMMA ArriveStep ==
  ASSUME IInv, NEW r \in Req, Parse(r) \/ ParseFails(r) \/ NotifyOne(r)
  PROVE  IInv'
<1> USE DEF Go, Becomes, threads, generation
<1>0. TypeOK
  BY DEF IInv
<1>1. EndTold'
  BY DEF IInv, EndTold, Parse, ParseFails, NotifyOne
<1>2. CASE Parse(r)
  <2>1. TypeOK'
    <3>1. handler' \in [Req -> Place]
      BY <1>0, <1>2, RequestTypes DEF Parse, Place
    <3> QED
      BY <1>0, <1>2, <3>1, RequestTypes, RequestTypesSuffice DEF Parse
  <2>2. status[r] # "queued"
    BY <1>2 DEF IInv, Accounted, Parse
  <2> QED
    BY <1>1, <1>2, <2>1, <2>2, HandlerMoves DEF Parse, Place
<1>3. CASE ParseFails(r)
  <2>1. TypeOK'
    <3>1. handler' \in [Req -> Place] /\ status' \in [Req -> Status]
      BY <1>0, <1>3, RequestTypes DEF ParseFails, Place, Status
    <3> QED
      BY <1>0, <1>3, <3>1, RequestTypes, RequestTypesSuffice DEF ParseFails
  <2>2. status[r] # "queued" /\ r \notin Queued \cup active
    BY <1>3 DEF IInv, Accounted, ParseFails
  <2>3. \A q \in Req : status'[q] = "queued" <=> status[q] = "queued"
    BY <1>3, <2>2 DEF IInv, TypeOK, ParseFails
  <2> QED
    BY <1>1, <1>3, <2>1, <2>2, <2>3, HandlerMoves DEF ParseFails, Place
<1>4. CASE NotifyOne(r)
  <2>1. InHandler(r) /\ (worker' = "gone" => worker = "gone")
    BY <1>4 DEF InHandler, NotifyOne, Woken
  <2>2. TypeOK'
    <3>1. handler' \in [Req -> Place] /\ worker' \in {"run", "asleep", "gone"}
      BY <1>0, <1>4, RequestTypes DEF NotifyOne, Place, Woken
    <3> QED
      BY <1>0, <1>4, <3>1, RequestTypes, RequestTypesSuffice DEF NotifyOne
  <2>3. PICK p \in {"next", "wait"} : handler' = [handler EXCEPT ![r] = p]
    BY <1>4 DEF NotifyOne
  <2> QED
    BY <1>1, <1>4, <2>1, <2>2, <2>3, HandlerMoves DEF NotifyOne, Place
<1> QED
  BY <1>2, <1>3, <1>4

(* try_push(): a refused request is nowhere; an accepted one is at the end *)
(* of the queue and has its handler.                                       *)
LEMMA PushStep ==
  ASSUME IInv, NEW r \in Req, Push(r)
  PROVE  IInv'
<1> USE DEF Go, Becomes, threads, generation
<1>0. TypeOK
  BY DEF IInv
<1>1. InHandler(r) /\ status[r] # "queued" /\ r \notin Queued \cup active /\ promise[r] = "none"
  BY DEF IInv, Accounted, InHandler, Push
<1>2. main = "listening" /\ ~closed /\ worker # "gone"
  BY <1>1, LiveMeansListening
<1>3. EndTold'
  BY DEF IInv, EndTold, Push
<1>4. CASE Len(queue) >= QueueDepth
  <2>1. /\ handler' = [handler EXCEPT ![r] = "returned"] /\ status' = [status EXCEPT ![r] = "full"]
        /\ queue' = queue
    BY <1>4 DEF Push
  <2>2. TypeOK'
    <3>1. handler' \in [Req -> Place] /\ status' \in [Req -> Status]
      BY <1>0, <2>1, RequestTypes DEF Place, Status
    <3> QED
      BY <1>0, <2>1, <3>1, RequestTypes, RequestTypesSuffice DEF Push
  <2>3. \A q \in Req : status'[q] = "queued" <=> status[q] = "queued"
    BY <1>0, <1>1, <2>1 DEF TypeOK
  <2> QED
    BY <1>1, <1>3, <2>1, <2>2, <2>3, HandlerMoves DEF Push, Place
<1>5. CASE ~(Len(queue) >= QueueDepth)
  <2>1. /\ handler' = [handler EXCEPT ![r] = "notify"] /\ status' = [status EXCEPT ![r] = "queued"]
        /\ queue' = Append(queue, r)
        /\ UNCHANGED <<main, watcher, accepting, worker, closed, cancel, active, outcome, promise>>
    BY <1>2, <1>5 DEF Push
  <2>2. PICK n \in Nat : n = Len(queue)
    BY <1>0, QueuedAreRequests
  <2>3. /\ queue' \in Seq(Req) /\ Len(queue') = n + 1 /\ queue'[n + 1] = r
        /\ \A i \in 1..n : queue'[i] = queue[i]
    BY <1>0, <2>1, <2>2, QueuedAreRequests
  <2>4. TypeOK'
    <3>1. Len(queue') <= QueueDepth
      BY <1>5, <2>2, <2>3, ServerAssumption
    <3>2. handler' \in [Req -> Place] /\ status' \in [Req -> Status]
      BY <1>0, <2>1, RequestTypes DEF Place, Status
    <3> QED
      BY <1>0, <2>3, <3>1, <3>2, RequestTypes, RequestTypesSuffice DEF Push
  <2>5. Queued' = Queued \cup {r}
    <3>1. \A q \in Queued' : q \in Queued \cup {r}
      BY <2>2, <2>3 DEF Queued
    <3>2. \A q \in Queued \cup {r} : q \in Queued'
      BY <2>2, <2>3 DEF Queued
    <3> QED
      BY <3>1, <3>2
  <2>6. \A q \in Req : /\ handler'[q] = IF q = r THEN "notify" ELSE handler[q]
                       /\ status'[q] = IF q = r THEN "queued" ELSE status[q]
    BY <1>0, <2>1 DEF TypeOK
  <2>7. OrphansCancelled'
    <3> SUFFICES ASSUME NEW q \in Queued' \cup active, outcome[q] = "none"
                 PROVE  InHandler(q)' \/ q \in cancel
      BY <2>1 DEF OrphansCancelled, Queued
    <3>1. CASE q = r
      BY <2>6, <3>1 DEF InHandler
    <3>2. CASE q # r
      <4>1. q \in Queued \cup active /\ q \in Req
        BY <1>0, <2>5, <3>2, QueuedAreRequests
      <4>2. InHandler(q) \/ q \in cancel
        BY <4>1 DEF IInv, OrphansCancelled, Queued
      <4> QED
        BY <2>6, <3>2, <4>1, <4>2 DEF InHandler
    <3> QED
      BY <3>1, <3>2
  <2>8. QueuedOnce'
    <3>1. \A i \in 1..n : queue[i] # r
      BY <1>1, <2>2 DEF Queued
    <3>2. ASSUME NEW i \in 1..(n + 1), NEW j \in 1..(n + 1), queue'[i] = queue'[j]
          PROVE  i = j
      <4>1. (i \in 1..n \/ i = n + 1) /\ (j \in 1..n \/ j = n + 1)
        BY <2>2
      <4> QED
        BY <2>2, <2>3, <3>1, <3>2, <4>1 DEF IInv, QueuedOnce
    <3>3. Queued' \cap active' = {}
      BY <1>1, <2>1, <2>5 DEF IInv, QueuedOnce
    <3> QED
      BY <2>3, <3>2, <3>3 DEF QueuedOnce
  <2>9. Accounted'
    BY <1>1, <2>1, <2>5, <2>6 DEF IInv, Accounted
  <2>10. Unwinding'
    BY <1>2, <2>1 DEF IInv, Unwinding
  <2> QED
    BY <1>3, <2>4, <2>7, <2>8, <2>9, <2>10 DEF IInv
<1> QED
  BY <1>4, <1>5

(* A blocking handler leaves once the promise is fulfilled, a streaming    *)
(* one at the terminal event or, with the flag raised, at a failed write.  *)
LEMMA AnswerStep ==
  ASSUME IInv, NEW r \in Req,
         \/ WaitTimesOut(r) \/ Respond(r) \/ HangUp(r)
         \/ WriteDelta(r) \/ WriteFails(r) \/ WriteTail(r)
  PROVE  IInv'
<1> USE DEF Go, threads, generation, http
<1>0. TypeOK /\ Accounted /\ EndTold
  BY DEF IInv
<1>1. InHandler(r)
  BY DEF InHandler, WaitTimesOut, Respond, HangUp, WriteDelta, WriteFails, WriteTail
<1>2. /\ UNCHANGED <<main, watcher, accepting, worker, queue, closed, active, outcome, promise, status>>
      /\ cancel \subseteq cancel'
  BY DEF WaitTimesOut, Respond, HangUp, WriteDelta, WriteFails, WriteTail
<1>3. TypeOK' /\ EndTold'
  <2>1. CASE WaitTimesOut(r) \/ Respond(r) \/ HangUp(r)
    <3>1. TypeOK'
      <4>1. handler' \in [Req -> Place]
        BY <1>0, <2>1, RequestTypes DEF WaitTimesOut, Respond, HangUp, Place
      <4>2. cancel' \subseteq Req /\ hungup' \subseteq Req
        BY <1>0, <2>1, RequestTypes DEF WaitTimesOut, Respond, HangUp
      <4>3. UNCHANGED <<status, signal, shutting, watcherDone, tokens, events>>
        BY <2>1 DEF WaitTimesOut, Respond, HangUp
      <4> QED
        BY <1>0, <1>2, <4>1, <4>2, <4>3, RequestTypes, RequestTypesSuffice
    <3>2. UNCHANGED <<events, outcome>>
      BY <2>1 DEF WaitTimesOut, Respond, HangUp
    <3> QED
      BY <1>0, <3>1, <3>2 DEF EndTold
  <2>2. CASE WriteDelta(r) \/ WriteFails(r) \/ WriteTail(r)
    <3>1. events[r] # << >> /\ events' = [events EXCEPT ![r] = Tail(events[r])]
          /\ events[r] \in Events /\ events \in [Req -> Events]
      BY <1>0, <2>2 DEF WriteDelta, WriteFails, WriteTail, TypeOK
    <3>2. PICK ev \in Seq({"delta", "end"}) : ev = events[r]
      BY <3>1 DEF Events
    <3>3. /\ Tail(ev) \in Seq({"delta", "end"}) /\ Len(ev) \in Nat /\ Len(Tail(ev)) = Len(ev) - 1
          /\ \A i \in 1..(Len(ev) - 1) : Tail(ev)[i] = ev[i + 1]
      BY <3>1, <3>2
    <3>4. events' \in [Req -> Events]
          /\ \A q \in Req : events'[q] = IF q = r THEN Tail(ev) ELSE events[q]
      <4>1. Tail(ev) \in Events
        BY <3>3 DEF Events
      <4> QED
        BY <3>1, <3>2, <4>1
    <3>5. TypeOK'
      <4>1. handler' \in [Req -> Place]
        BY <1>0, <2>2, RequestTypes DEF WriteDelta, WriteFails, WriteTail, Place
      <4>2. cancel' \subseteq Req
        <5>1. cancel' = cancel \/ cancel' = cancel \cup {r}
          BY <2>2 DEF WriteDelta, WriteFails, WriteTail
        <5>2. cancel \subseteq Req
          BY <1>0, RequestTypes
        <5> QED
          BY <5>1, <5>2
      <4>3. UNCHANGED <<status, hungup, signal, shutting, watcherDone, tokens>>
        BY <2>2 DEF WriteDelta, WriteFails, WriteTail
      <4> QED
        BY <1>0, <1>2, <3>4, <4>1, <4>2, <4>3, RequestTypes, RequestTypesSuffice
    <3>6. ASSUME NEW i \in 1..Len(Tail(ev)), Tail(ev)[i] = "end"
          PROVE  outcome[r] # "none"
      <4>1. i \in 1..(Len(ev) - 1) /\ i + 1 \in 1..Len(ev)
        BY <3>3, <3>6
      <4>2. events[r][i + 1] = "end"
        BY <3>2, <3>3, <3>6, <4>1
      <4> QED
        BY <1>0, <3>2, <4>1, <4>2 DEF EndTold
    <3>7. EndTold'
      <4> SUFFICES ASSUME NEW q \in Req, NEW i \in 1..Len(events'[q]), events'[q][i] = "end"
                   PROVE  outcome'[q] # "none"
        BY DEF EndTold
      <4> QED
        BY <1>0, <1>2, <3>4, <3>6 DEF EndTold
    <3> QED
      BY <3>5, <3>7
  <2> QED
    BY <2>1, <2>2
<1>4. CASE WaitTimesOut(r) \/ HangUp(r) \/ WriteDelta(r)
  <2>1. handler' = [handler EXCEPT ![r] = handler[r]] /\ handler[r] \in Place
    BY <1>0, <1>4 DEF WaitTimesOut, HangUp, WriteDelta, TypeOK
  <2>2. PICK p \in Place : p = handler[r]
    BY <2>1
  <2>3. p \notin {"none", "returned"}
    BY <1>1, <2>2 DEF InHandler
  <2>4. status[r] = "queued" => p \in {"notify", "wait", "next", "returned"}
    BY <1>0, <2>2 DEF Accounted
  <2> QED
    BY <1>0, <1>1, <1>2, <1>3, <2>1, <2>2, <2>3, <2>4, HandlerMoves
<1>5. CASE Respond(r)
  <2>1. r \notin Queued \cup active
    BY <1>0, <1>5 DEF Accounted, Respond
  <2> QED
    BY <1>1, <1>2, <1>3, <1>5, <2>1, HandlerMoves DEF Respond, Place
<1>6. CASE WriteFails(r)
  BY <1>1, <1>2, <1>3, <1>6, HandlerMoves DEF WriteFails, Place
<1>7. CASE WriteTail(r)
  <2>1. outcome[r] # "none"
    <3>1. events[r] \in Events /\ events[r] # << >> /\ Head(events[r]) = "end"
      BY <1>0, <1>7 DEF TypeOK, WriteTail
    <3>2. 1 \in 1..Len(events[r]) /\ events[r][1] = "end"
      BY <3>1 DEF Events
    <3> QED
      BY <1>0, <3>2 DEF EndTold
  <2> QED
    BY <1>1, <1>2, <1>3, <1>7, <2>1, HandlerMoves DEF WriteTail, Place
<1> QED
  BY <1>4, <1>5, <1>6, <1>7

-----------------------------------------------------------------------------
(* pop() and try_pop() move the head of the queue to the scheduler. *)
LEMMA TakeStep ==
  ASSUME IInv, Take
  PROVE  IInv'
<1>0. TypeOK /\ QueuedOnce /\ OrphansCancelled /\ Accounted
  BY DEF IInv
<1>1. PICK q \in Seq(Req), n \in Nat : q = queue /\ n = Len(q) /\ n <= QueueDepth
  BY <1>0, QueuedAreRequests
<1>2. PICK r \in Req : r = Head(q)
  BY <1>1 DEF Take
<1>3. /\ queue' = Tail(q) /\ active' = active \cup {r} /\ worker = "run" /\ q # << >>
      /\ UNCHANGED <<handler, status, hungup, threads, worker, closed, cancel, tokens, outcome,
                     events, promise>>
  BY <1>1, <1>2 DEF Take, http
<1>4. /\ queue' \in Seq(Req) /\ n > 0 /\ Len(queue') = n - 1 /\ q[1] = r
      /\ \A i \in 1..(n - 1) : queue'[i] = q[i + 1]
  BY <1>1, <1>2, <1>3
<1>5. r \in Queued /\ r \notin active
  <2>1. r \in Queued
    BY <1>1, <1>4 DEF Queued
  <2> QED
    BY <1>0, <2>1 DEF QueuedOnce
<1>6. \A i, j \in 1..n : q[i] = q[j] => i = j
  BY <1>0, <1>1 DEF QueuedOnce
<1>7. Queued' = Queued \ {r}
  <2>1. ASSUME NEW x \in Queued'
        PROVE  x \in Queued \ {r}
    <3>1. PICK i \in 1..(n - 1) : x = q[i + 1]
      BY <1>4, <2>1 DEF Queued
    <3>2. i + 1 \in 1..n /\ 1 \in 1..n /\ i + 1 # 1
      BY <1>1, <1>4, <3>1
    <3>3. x # r
      BY <1>4, <1>6, <3>1, <3>2
    <3> QED
      BY <1>1, <3>1, <3>2, <3>3 DEF Queued
  <2>2. ASSUME NEW x \in Queued, x # r
        PROVE  x \in Queued'
    <3>1. PICK k \in 1..n : x = q[k]
      BY <1>1 DEF Queued
    <3>2. k - 1 \in 1..(n - 1) /\ (k - 1) + 1 = k
      BY <1>1, <1>4, <2>2, <3>1
    <3>3. x = queue'[k - 1] /\ k - 1 \in 1..Len(queue')
      BY <1>4, <3>1, <3>2
    <3> QED
      BY <3>3 DEF Queued
  <2> QED
    BY <2>1, <2>2
<1>8. TypeOK'
  <2>1. active' \subseteq Req /\ Len(queue') <= QueueDepth
    BY <1>0, <1>1, <1>3, <1>4, QueuedAreRequests, ServerAssumption
  <2> QED
    BY <1>0, <1>3, <1>4, <2>1, RequestTypes, RequestTypesSuffice DEF threads
<1>9. QueuedOnce'
  <2>1. ASSUME NEW i \in 1..(n - 1), NEW j \in 1..(n - 1), queue'[i] = queue'[j]
        PROVE  i = j
    <3>1. i + 1 \in 1..n /\ j + 1 \in 1..n
      BY <1>1, <1>4, <2>1
    <3>2. q[i + 1] = q[j + 1]
      BY <1>4, <2>1
    <3>3. i + 1 = j + 1
      BY <1>6, <3>1, <3>2
    <3> QED
      BY <2>1, <3>3
  <2>2. Queued' \cap active' = {}
    BY <1>0, <1>3, <1>7 DEF QueuedOnce
  <2> QED
    BY <1>4, <2>1, <2>2 DEF QueuedOnce
<1>10. Queued' \cup active' = Queued \cup active
  BY <1>3, <1>5, <1>7
<1>11. OrphansCancelled'
  BY <1>0, <1>3, <1>10 DEF OrphansCancelled, Queued, InHandler
<1>12. Accounted'
  BY <1>0, <1>3, <1>10 DEF Accounted
<1>13. Unwinding'
  BY <1>3 DEF IInv, Unwinding, threads, InHandler
<1>14. EndTold'
  BY <1>3 DEF IInv, EndTold
<1> QED
  BY <1>8, <1>9, <1>11, <1>12, <1>13, <1>14 DEF IInv

(* What a step may append to a sink holds no terminal event. *)
LEMMA DeltasQuiet ==
  ASSUME NEW r \in Req, NEW delta \in Deltas(r), NEW old \in Events
  PROVE  /\ old \o delta \in Events /\ old \o delta \o <<"end">> \in Events
         /\ \A i \in 1..Len(old \o delta) :
              (old \o delta)[i] = "end" => \E j \in 1..Len(old) : old[j] = "end"
<1>1. delta = << >> \/ delta = <<"delta">>
  BY DEF Deltas
<1>2. CASE delta = << >>
  <2>1. old \o delta = old
    BY <1>2 DEF Events
  <2> QED
    BY <2>1 DEF Events
<1>3. CASE delta = <<"delta">>
  <2>1. /\ old \o delta \in Events /\ Len(old \o delta) = Len(old) + 1 /\ Len(old) \in Nat
        /\ (old \o delta)[Len(old) + 1] = "delta"
        /\ \A i \in 1..Len(old) : (old \o delta)[i] = old[i]
    BY <1>3 DEF Events
  <2>2. old \o delta \o <<"end">> \in Events
    BY <2>1 DEF Events
  <2>3. ASSUME NEW i \in 1..(Len(old) + 1), (old \o delta)[i] = "end"
        PROVE  \E j \in 1..Len(old) : old[j] = "end"
    <3>1. i \in 1..Len(old)
      BY <2>1, <2>3
    <3> QED
      BY <2>1, <2>3, <3>1
  <2> QED
    BY <2>1, <2>2, <2>3
<1> QED
  BY <1>1, <1>2, <1>3

(* A token, or the end of a sequence, changes the sink of its request only. *)
LEMMA GenerateStep ==
  ASSUME IInv, NEW r \in Req, Token(r) \/ \E why \in Reason : End(r, why)
  PROVE  IInv'
<1>0. TypeOK /\ EndTold
  BY DEF IInv
<1>1. PICK old \in Events : old = events[r]
  BY <1>0 DEF TypeOK
<1>2. UNCHANGED <<http, threads, worker, queue, closed, cancel, active, promise>>
  BY DEF Token, End
<1>3. /\ outcome' \in [Req -> Outcome]
      /\ \A q \in Req : outcome[q] # "none" => outcome'[q] # "none"
      /\ tokens' \in [Req -> 0..MaxTokens]
  <2>1. CASE Token(r)
    <3>1. outcome' = outcome
      BY <2>1 DEF Token
    <3>2. tokens[r] \in 0..MaxTokens /\ tokens[r] < MaxTokens /\ tokens \in [Req -> 0..MaxTokens]
          /\ tokens' = [tokens EXCEPT ![r] = tokens[r] + 1]
      BY <1>0, <2>1 DEF Token, TypeOK
    <3>3. tokens[r] + 1 \in 0..MaxTokens
      BY <3>2, ServerAssumption
    <3> QED
      BY <1>0, <3>1, <3>2, <3>3 DEF TypeOK
  <2>2. ASSUME NEW why \in Reason, End(r, why)
        PROVE  <1>3!1 /\ <1>3!2 /\ <1>3!3
    <3>1. outcome' = [outcome EXCEPT ![r] = why] /\ tokens' = tokens /\ why # "none"
          /\ why \in Outcome
      BY <2>2 DEF End, Reason, Outcome
    <3> QED
      BY <1>0, <3>1 DEF TypeOK
  <2> QED
    BY <2>1, <2>2
<1>4. events' \in [Req -> Events] /\ EndTold'
  <2>1. CASE Token(r)
    <3>1. PICK delta \in Deltas(r) : events' = [events EXCEPT ![r] = events[r] \o delta]
      BY <2>1 DEF Token
    <3>2. /\ old \o delta \in Events
          /\ \A i \in 1..Len(old \o delta) :
               (old \o delta)[i] = "end" => \E j \in 1..Len(old) : old[j] = "end"
      BY <1>1, <3>1, DeltasQuiet
    <3>3. /\ events' \in [Req -> Events]
          /\ \A q \in Req : events'[q] = IF q = r THEN old \o delta ELSE events[q]
      BY <1>0, <1>1, <3>1, <3>2 DEF TypeOK
    <3>4. ASSUME NEW q \in Req, NEW i \in 1..Len(events'[q]), events'[q][i] = "end"
          PROVE  outcome[q] # "none"
      <4>1. CASE q = r
        BY <1>0, <1>1, <3>2, <3>3, <3>4, <4>1 DEF EndTold
      <4>2. CASE q # r
        BY <1>0, <3>3, <3>4, <4>2 DEF EndTold
      <4> QED
        BY <4>1, <4>2
    <3> QED
      BY <1>3, <3>3, <3>4 DEF EndTold
  <2>2. ASSUME NEW why \in Reason, End(r, why)
        PROVE  events' \in [Req -> Events] /\ EndTold'
    <3>1. PICK delta \in Deltas(r) :
            events' = [events EXCEPT ![r] =
                         IF r \in Streamed THEN events[r] \o delta \o <<"end">> ELSE events[r]]
      BY <2>2 DEF End
    <3>2. old \o delta \o <<"end">> \in Events
      BY <1>1, <3>1, DeltasQuiet
    <3>3. /\ events' \in [Req -> Events]
          /\ \A q \in Req : q # r => events'[q] = events[q]
      BY <1>0, <1>1, <3>1, <3>2 DEF TypeOK
    <3>4. outcome'[r] # "none"
      BY <1>0, <2>2 DEF TypeOK, End, Reason
    <3>5. ASSUME NEW q \in Req, NEW i \in 1..Len(events'[q]), events'[q][i] = "end"
          PROVE  outcome'[q] # "none"
      <4>1. CASE q = r
        BY <3>4, <4>1
      <4>2. CASE q # r
        BY <1>0, <1>3, <3>3, <3>5, <4>2 DEF EndTold
      <4> QED
        BY <4>1, <4>2
    <3> QED
      BY <3>3, <3>5 DEF EndTold
  <2> QED
    BY <2>1, <2>2
<1>5. TypeOK'
  BY <1>0, <1>2, <1>3, <1>4, RequestTypes, RequestTypesSuffice DEF http, threads
<1>6. OrphansCancelled'
  <2> SUFFICES ASSUME NEW q \in Queued \cup active, outcome'[q] = "none"
               PROVE  InHandler(q) \/ q \in cancel
    BY <1>2 DEF OrphansCancelled, Queued, InHandler, http
  <2>1. q \in Req
    BY <1>0, QueuedAreRequests
  <2> QED
    BY <1>3, <2>1 DEF IInv, OrphansCancelled, Queued
<1>7. Unwinding'
  BY <1>2 DEF IInv, Unwinding, InHandler, http, threads
<1>8. Queued' = Queued
  BY <1>2 DEF Queued
<1>9. QueuedOnce' /\ Accounted'
  BY <1>2, <1>8 DEF IInv, QueuedOnce, Accounted, http
<1> QED
  BY <1>4, <1>5, <1>6, <1>7, <1>9 DEF IInv

(* retire() and deliver(): the request leaves the scheduler as its promise *)
(* is fulfilled.                                                           *)
LEMMA DeliverStep ==
  ASSUME IInv, NEW r \in Req, Deliver(r)
  PROVE  IInv'
<1>0. TypeOK /\ Accounted /\ QueuedOnce
  BY DEF IInv
<1>1. /\ r \in active /\ worker = "run" /\ outcome[r] # "none"
      /\ promise' = [promise EXCEPT ![r] = outcome[r]] /\ active' = active \ {r}
      /\ UNCHANGED <<http, threads, worker, queue, closed, cancel, tokens, outcome, events>>
  BY DEF Deliver
<1>2. /\ promise' \in [Req -> Outcome]
      /\ \A q \in Req : promise'[q] = IF q = r THEN outcome[r] ELSE promise[q]
  BY <1>0, <1>1 DEF TypeOK
<1>3. TypeOK'
  <2>1. active' \subseteq Req
    BY <1>0, <1>1, QueuedAreRequests
  <2> QED
    BY <1>0, <1>1, <1>2, <2>1, RequestTypes, RequestTypesSuffice DEF http, threads
<1>4. Queued' = Queued /\ r \notin Queued
  BY <1>0, <1>1 DEF Queued, QueuedOnce
<1>5. OrphansCancelled'
  BY <1>1 DEF IInv, OrphansCancelled, InHandler, http
<1>6. QueuedOnce'
  BY <1>0, <1>1, <1>4 DEF QueuedOnce
<1>7. Accounted'
  BY <1>0, <1>1, <1>2, <1>4 DEF Accounted, http
<1>8. Unwinding' /\ EndTold'
  BY <1>1 DEF IInv, Unwinding, EndTold, InHandler, http, threads
<1> QED
  BY <1>3, <1>5, <1>6, <1>7, <1>8 DEF IInv

-----------------------------------------------------------------------------
(* Every step keeps the inductive invariant. *)
LEMMA NextIInv == IInv /\ [Next]_vars => IInv'
<1> SUFFICES ASSUME IInv, [Next]_vars
             PROVE  IInv'
  OBVIOUS
<1>1. CASE \E r \in Req : Parse(r) \/ ParseFails(r) \/ HangUp(r) \/ Handle(r)
  BY <1>1, ArriveStep, PushStep, AnswerStep DEF Handle
<1>2. CASE Work
  BY <1>2, TakeStep, WatchStep, GenerateStep, DeliverStep DEF Work
<1>3. CASE Signal \/ Watch \/ SpuriousWakeup \/ Stopped \/ UNCHANGED vars
  BY <1>3, WatchStep DEF Stopped
<1>4. CASE Serve
  BY <1>4, ServeStep
<1> QED
  BY <1>1, <1>2, <1>3, <1>4 DEF Next

(* What holds on every behaviour of serve(). *)
THEOREM ServerInvariant == Spec => []IInv
<1>1. Init => IInv
  BY InitIInv
<1>2. IInv /\ [Next]_vars => IInv'
  BY NextIInv
<1> QED
  BY <1>1, <1>2, PTL DEF Spec

(* The queue never holds more than max_queue_depth. *)
THEOREM ServerTypes == Spec => []TypeOK
<1>1. IInv => TypeOK
  BY DEF IInv
<1> QED
  BY <1>1, ServerInvariant, PTL

(* No sequence runs on for a handler that is gone, unless its cancel flag  *)
(* is up.                                                                  *)
THEOREM NoOrphans == Spec => []OrphansCancelled
<1>1. IInv => OrphansCancelled
  BY DEF IInv
<1> QED
  BY <1>1, ServerInvariant, PTL

(* When serve() returns, the handlers and the other threads are gone and   *)
(* every request that entered the queue has its promise fulfilled.         *)
THEOREM ServeDrains == Spec => []DrainedAtReturn
<1>1. IInv => DrainedAtReturn
  <2> SUFFICES ASSUME IInv, main = "returned"
               PROVE  /\ worker = "gone" /\ watcher = "gone" /\ queue = << >> /\ active = {}
                      /\ \A r \in Req : ~InHandler(r)
                      /\ \A r \in Req : status[r] = "queued" => promise[r] # "none"
    BY DEF DrainedAtReturn
  <2>1. /\ worker = "gone" /\ watcher = "gone" /\ queue = << >> /\ active = {}
        /\ \A r \in Req : ~InHandler(r)
    BY DEF IInv, Unwinding
  <2>2. Queued \cup active = {}
    BY <2>1 DEF Queued
  <2> QED
    BY <2>1, <2>2 DEF IInv, Accounted
<1> QED
  BY <1>1, ServerInvariant, PTL

(* A 503 always means a full queue, never one closed under a live handler. *)
THEOREM RefusalsMeanFull == Spec => RefusedOnlyAtCapacity
<1>1. ASSUME IInv, [Next]_vars, NEW r \in Req, status'[r] = "full", status[r] # "full"
      PROVE  Len(queue) = QueueDepth
  <2>0. TypeOK
    BY <1>1 DEF IInv
  <2>1. PICK q \in Req : Push(q) \/ ParseFails(q)
    BY <1>1 DEF Next, Handle, Parse, NotifyOne, WaitTimesOut, Respond, WriteDelta, WriteFails,
         WriteTail, HangUp, Work, Take, Sleep, Exit, Token, End, Deliver, SpuriousWakeup, Signal,
         Watch, WatcherSees, WatcherStops, WatcherLeaves, Serve, Listen, ListenFails,
         ListenReturns, StopWatcher, JoinWatcher, CloseQueue, NotifyAll, JoinWorker, Stopped,
         vars, http
  <2>2. Push(q) /\ q = r
    BY <1>1, <2>0, <2>1 DEF Push, ParseFails, Becomes, TypeOK
  <2>3. InHandler(r)
    BY <2>2 DEF Push, InHandler
  <2>4. ~closed
    BY <1>1, <2>3, LiveMeansListening
  <2>5. Len(queue) >= QueueDepth
    BY <1>1, <2>0, <2>2, <2>4 DEF Push, Becomes, TypeOK
  <2> QED
    BY <2>0, <2>5, QueuedAreRequests, ServerAssumption
<1>2. IInv /\ [Next]_vars =>
        [\A r \in Req : status'[r] = "full" /\ status[r] # "full" => Len(queue) = QueueDepth]_vars
  BY <1>1
<1> QED
  BY <1>2, ServerInvariant, PTL DEF Spec, RefusedOnlyAtCapacity
=============================================================================
