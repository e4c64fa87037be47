------------------------- MODULE NodeShutdownProofs -------------------------
(* Proofs about NodeShutdown, for any number of service threads, tasks,     *)
(* HTTP workers and requests and every depth of the work queue: whoever the *)
(* main thread can wait for is gone when the queue and the scheduler are    *)
(* destroyed, no request is answered twice, and none is left unanswered in  *)
(* the server.  The scheduler runs no task early as long as one thread      *)
(* serves it, which is what the node starts.                                *)
EXTENDS NodeShutdown, FiniteSetTheorems, TLAPS

USE SchedulerAssumption, WorkQueueAssumption

ServiceLabels == {"starting", "test", "wait", "wait_until", "late", "running", "gone"}
WorkLabels == {"starting", "test", "lock", "wait", "working", "leaving", "gone"}

(* The threads the counters count.                                          *)
Serving == {t \in ServiceThread : service[t] \notin {"starting", "gone"}}
Counted == {w \in Worker : work[w] \notin {"starting", "gone"}}

(* One thread more, and one less.                                           *)
LEMMA Counting ==
  ASSUME NEW S, IsFiniteSet(S), NEW A \in SUBSET S, NEW x \in S
  PROVE  /\ Cardinality(A) \in Nat
         /\ x \notin A => Cardinality(A \union {x}) = Cardinality(A) + 1
         /\ x \in A => Cardinality(A \ {x}) = Cardinality(A) - 1 /\ Cardinality(A) > 0
         /\ Cardinality(A) = 0 => A = {}
<1>1. IsFiniteSet(A)
  BY FS_Subset
<1>2. Cardinality(A) \in Nat
  BY <1>1, FS_CardinalityType
<1>3. x \notin A => Cardinality(A \union {x}) = Cardinality(A) + 1
  BY <1>1, FS_AddElement
<1>4. x \in A => Cardinality(A \ {x}) = Cardinality(A) - 1
  BY <1>1, FS_RemoveElement
<1>5. Cardinality(A) = 0 => A = {}
  BY <1>1, FS_EmptySet
<1> QED
  BY <1>2, <1>3, <1>4, <1>5

-----------------------------------------------------------------------------
(* The scheduler                                                            *)

(* notify_one wakes a thread that sleeps, if there is one.                  *)
LEMMA Notified ==
  ASSUME NEW s \in [ServiceThread -> ServiceLabels], NotifyOne(s)
  PROVE  /\ service' \in [ServiceThread -> ServiceLabels]
         /\ \A t \in ServiceThread : service'[t] = s[t] \/ (t \in Sleeping /\ service'[t] = "test")
         /\ Sleeping # {} => \E t \in Sleeping : service'[t] = "test"
  BY DEF NotifyOne, Sleeping, ServiceLabels

(* What a step of the scheduler has to keep.                                *)
LEMMA ScheduleOnly ==
  ASSUME IInv, UNCHANGED <<server, main, failed>>,
         now' \in Nat, due' \in [Task -> Nat \union {NotQueued}],
         service' \in [ServiceThread -> ServiceLabels],
         deadline' \in [ServiceThread -> Nat],
         task' \in [ServiceThread -> Task \union {NoTask}],
         \A t \in ServiceThread : service'[t] = "running" => task'[t] \in Task,
         interrupted' = interrupted,
         \A t \in ServiceThread : service[t] = "gone" => service'[t] = "gone",
         nThreads' = Cardinality(Serving')
  PROVE  IInv'
<1> USE DEF server
<1>1. IsFiniteSet(Serving')
  BY FS_Subset DEF Serving
<1>2. TypeOK'
  BY <1>1, FS_CardinalityType DEF IInv, TypeOK, ServiceLabels
<1>3. CountsExact'
  BY DEF IInv, CountsExact, Serving
<1>4. StagesReached'
  BY DEF IInv, StagesReached
<1>5. WorkersSound'
  BY DEF IInv, WorkersSound
<1>6. HeldOnce'
  BY DEF IInv, HeldOnce, Held
<1> QED
  BY <1>2, <1>3, <1>4, <1>5, <1>6 DEF IInv

LEMMA ScheduleTypes ==
  ASSUME IInv
  PROVE  /\ now \in Nat /\ due \in [Task -> Nat \union {NotQueued}]
         /\ service \in [ServiceThread -> ServiceLabels]
         /\ deadline \in [ServiceThread -> Nat]
         /\ task \in [ServiceThread -> Task \union {NoTask}]
         /\ \A t \in ServiceThread : service[t] = "running" => task[t] \in Task
         /\ nThreads = Cardinality(Serving)
         /\ \A k \in Task : Period[k] \in Nat /\ now + Period[k] \in Nat
  BY DEF IInv, TypeOK, CountsExact, Serving, ServiceLabels

LEMMA StartNodeInv ==
  ASSUME IInv, NEW k \in Task, StartNode(k)
  PROVE  IInv'
<1>1. /\ UNCHANGED <<server, main, failed, now, deadline, task, nThreads, interrupted>>
      /\ due' = [due EXCEPT ![k] = now + Period[k]] /\ NotifyOne(service)
  BY DEF StartNode, ScheduleEvery
<1>2. /\ service' \in [ServiceThread -> ServiceLabels]
      /\ \A t \in ServiceThread : service'[t] = service[t]
            \/ (service[t] \in {"wait", "wait_until"} /\ service'[t] = "test")
  BY <1>1, ScheduleTypes, Notified DEF Sleeping
<1>3. Serving' = Serving
  BY <1>2 DEF Serving
<1>4. \A t \in ServiceThread : service'[t] = "running" => task'[t] \in Task
  BY <1>1, <1>2, ScheduleTypes
<1> QED
  BY <1>1, <1>2, <1>3, <1>4, ScheduleTypes, ScheduleOnly

LEMMA TickInv == ASSUME IInv, Tick, UNCHANGED <<server, main, failed>> PROVE IInv'
<1>1. Serving' = Serving
  BY DEF Tick, Serving
<1> QED
  BY <1>1, ScheduleTypes, ScheduleOnly DEF Tick

LEMMA ServeInv ==
  ASSUME IInv, NEW t \in ServiceThread, Serve(t), UNCHANGED <<server, main, failed>>
  PROVE  IInv'
<1> USE DEF ServiceLabels
<1>1. CASE StartService(t)
  <2>1. /\ service[t] = "starting" /\ service' = [service EXCEPT ![t] = "test"]
        /\ nThreads' = nThreads + 1 /\ UNCHANGED <<now, due, deadline, task, interrupted>>
    BY <1>1 DEF StartService
  <2>2. Serving' = Serving \union {t} /\ t \notin Serving
    BY <2>1, ScheduleTypes DEF Serving
  <2>3. nThreads' = Cardinality(Serving')
    BY <2>1, <2>2, ScheduleTypes, Counting DEF Serving
  <2> QED
    BY <2>1, <2>3, ScheduleTypes, ScheduleOnly
<1>2. CASE LoopTest(t)
  <2>1. /\ service[t] = "test" /\ UNCHANGED <<now, due, task, nThreads, interrupted>>
        /\ service' \in {[service EXCEPT ![t] = "wait"], [service EXCEPT ![t] = "wait_until"]}
    BY <1>2 DEF LoopTest
  <2>2. deadline' \in [ServiceThread -> Nat]
    BY <1>2, ScheduleTypes DEF LoopTest, First, Queued
  <2>3. Serving' = Serving
    BY <2>1, ScheduleTypes DEF Serving
  <2> QED
    BY <2>1, <2>2, <2>3, ScheduleTypes, ScheduleOnly
<1>3. CASE TimeOut(t)
  <2>1. /\ service[t] = "wait_until" /\ service' = [service EXCEPT ![t] = "late"]
        /\ deadline' = [deadline EXCEPT ![t] = 0]
        /\ UNCHANGED <<now, due, task, nThreads, interrupted>>
    BY <1>3 DEF TimeOut
  <2>2. Serving' = Serving
    BY <2>1, ScheduleTypes DEF Serving
  <2> QED
    BY <2>1, <2>2, ScheduleTypes, ScheduleOnly
<1>4. CASE TakeTask(t)
  <2>1. service[t] = "late" /\ UNCHANGED <<now, deadline, nThreads, interrupted>>
    BY <1>4 DEF TakeTask
  <2>2. \/ service' = [service EXCEPT ![t] = "test"] /\ UNCHANGED <<due, task>>
        \/ \E k \in Task : /\ due' = [due EXCEPT ![k] = NotQueued]
                           /\ task' = [task EXCEPT ![t] = k]
                           /\ service' = [service EXCEPT ![t] = "running"]
    BY <1>4 DEF TakeTask, First, Queued
  <2>3. Serving' = Serving
    BY <2>1, <2>2, ScheduleTypes DEF Serving
  <2> QED
    BY <2>1, <2>2, <2>3, ScheduleTypes, ScheduleOnly
<1>5. CASE FinishTask(t)
  <2>1. /\ service[t] = "running" /\ task[t] \in Task
        /\ due' = [due EXCEPT ![task[t]] = now + Period[task[t]]]
        /\ task' = [task EXCEPT ![t] = NoTask]
        /\ NotifyOne([service EXCEPT ![t] = "test"])
        /\ UNCHANGED <<now, deadline, nThreads, interrupted>>
    BY <1>5, ScheduleTypes DEF FinishTask
  <2>2. [service EXCEPT ![t] = "test"] \in [ServiceThread -> ServiceLabels]
    BY ScheduleTypes
  <2>3. /\ service' \in [ServiceThread -> ServiceLabels] /\ service'[t] = "test"
        /\ \A u \in ServiceThread \ {t} : service'[u] = service[u]
              \/ (service[u] \in {"wait", "wait_until"} /\ service'[u] = "test")
    BY <2>1, <2>2, Notified, ScheduleTypes DEF Sleeping
  <2>4. Serving' = Serving
    BY <2>1, <2>3, ScheduleTypes DEF Serving
  <2>5. \A u \in ServiceThread : service'[u] = "running" => task'[u] \in Task
    BY <2>1, <2>3, ScheduleTypes
  <2> QED
    BY <2>1, <2>3, <2>4, <2>5, ScheduleTypes, ScheduleOnly
<1>6. CASE BeInterrupted(t)
  <2>1. /\ service[t] \notin {"starting", "gone"} /\ service' = [service EXCEPT ![t] = "gone"]
        /\ deadline' = [deadline EXCEPT ![t] = 0] /\ task' = [task EXCEPT ![t] = NoTask]
        /\ nThreads' = nThreads - 1 /\ UNCHANGED <<now, due, interrupted>>
    BY <1>6 DEF BeInterrupted
  <2>2. Serving' = Serving \ {t} /\ t \in Serving
    BY <2>1, ScheduleTypes DEF Serving
  <2>3. nThreads' = Cardinality(Serving')
    BY <2>1, <2>2, ScheduleTypes, Counting DEF Serving
  <2> QED
    BY <2>1, <2>3, ScheduleTypes, ScheduleOnly
<1> QED
  BY <1>1, <1>2, <1>3, <1>4, <1>5, <1>6 DEF Serve

-----------------------------------------------------------------------------
(* The event loop's thread                                                  *)

LEMMA ServerTypes ==
  ASSUME IInv
  PROVE  /\ queue \in Seq(Request) /\ DOMAIN queue = 1 .. Len(queue) /\ Len(queue) \in Nat
         /\ callback \in Request \union {Nothing}
         /\ work \in [Worker -> WorkLabels] /\ item \in [Worker -> Request \union {Nothing}]
         /\ replies \in [Request -> Nat]
         /\ \A i \in 1 .. Len(queue) : queue[i] \in Request /\ queue[i] \in Held
         /\ \A w \in Worker : item[w] \in Held
         /\ callback \in Held
         /\ numThreads = Cardinality(Counted)
  BY DEF IInv, TypeOK, Held, WorkLabels, CountsExact, Counted

(* A reply is one reply more.                                               *)
LEMMA Replied ==
  ASSUME IInv, NEW r \in Request, WriteReply(r)
  PROVE  /\ replies' \in [Request -> Nat]
         /\ \A q \in Request : replies'[q] = IF q = r THEN replies[q] + 1 ELSE replies[q]
<1>1. replies \in [Request -> Nat] /\ replies[r] + 1 \in Nat
  BY ServerTypes
<1> QED
  BY <1>1 DEF WriteReply

(* What a step of the server has to keep.                                   *)
LEMMA ServerOnly ==
  ASSUME IInv, UNCHANGED <<schedule, main, failed, alive, running, accepting, loop, begun>>,
         waiting' \in BOOLEAN, late' \in SUBSET Request,
         work' \in [Worker -> WorkLabels], numThreads' = Cardinality(Counted'),
         \A w \in Worker : work[w] = "gone" => work'[w] = "gone",
         \A w \in Worker : work[w] # "starting" => work'[w] # "starting",
         item' \in [Worker -> Request \union {Nothing}],
         \A w \in Worker : item'[w] # Nothing <=> work'[w] = "working",
         \A w \in Worker : work'[w] = "working" => work[w] = "working" \/ running,
         queue' \in Seq(Request), callback' \in Request \union {Nothing},
         queue' = <<>> \/ alive \/ queue' = queue,
         callback' = Nothing \/ loop \/ callback' = callback,
         replies' \in [Request -> Nat],
         HeldOnce'
  PROVE  IInv'
<1> USE DEF schedule
<1>1. IsFiniteSet(Counted')
  BY FS_Subset DEF Counted
<1>2. TypeOK'
  BY <1>1, FS_CardinalityType DEF IInv, TypeOK, WorkLabels
<1>3. CountsExact'
  BY DEF IInv, CountsExact, Counted
<1>4. StagesReached'
  <2>1. \A w \in begun : w \in Worker
    BY DEF IInv, TypeOK
  <2> QED
    BY <2>1 DEF IInv, StagesReached, AfterDelete, AfterLoop
<1>5. WorkersSound'
  <2>1. \A w \in begun : w \in Worker /\ work[w] # "starting"
    BY DEF IInv, TypeOK, WorkersSound
  <2>2. ~ running => \A w \in Worker : work[w] = "working" => w \in begun
    BY DEF IInv, WorkersSound
  <2> QED
    BY <2>1, <2>2 DEF WorkersSound
<1> QED
  BY <1>2, <1>3, <1>4, <1>5 DEF IInv

LEMMA ArrivalInv ==
  ASSUME IInv, NEW r \in Request, Receive(r) \/ Reject(r), UNCHANGED <<schedule, main, failed>>
  PROVE  IInv'
<1> USE DEF server
<1>1. loop /\ callback = Nothing /\ replies[r] = 0 /\ r \notin Held /\ r # Nothing
  BY DEF Receive, Reject, Arrives, New, LoopFree
<1>2. UNCHANGED <<alive, running, queue, numThreads, accepting, loop, work, item,
                  waiting, late, begun>>
  BY DEF Receive, Reject
<1>3. \/ callback' = r /\ replies' = replies
      \/ callback' = callback /\ replies' = [replies EXCEPT ![r] = @ + 1]
  BY DEF Receive, Reject, WriteReply
<1>4. HeldOnce'
  <2>1. \A q \in Request : replies'[q] <= 1 /\ (q \in Held' => replies'[q] = 0)
    <3>1. \A q \in Request : replies[q] <= 1 /\ (q \in Held => replies[q] = 0)
      BY DEF IInv, HeldOnce
    <3>2. Held' = (Held \ {callback}) \union {callback'} \/ Held' = Held \union {callback'}
      BY <1>2 DEF Held
    <3> QED
      BY <1>1, <1>3, <3>1, <3>2, ServerTypes
  <2>2. /\ \A i \in DOMAIN queue : queue[i] # callback'
        /\ \A w \in Worker : item[w] # Nothing => item[w] # callback'
    BY <1>1, <1>3, ServerTypes DEF IInv, HeldOnce
  <2> QED
    BY <1>2, <2>1, <2>2 DEF IInv, HeldOnce
<1>5. Counted' = Counted
  BY <1>2 DEF Counted
<1>6. replies' \in [Request -> Nat] /\ callback' \in Request \union {Nothing}
  BY <1>3, ServerTypes
<1> QED
  BY <1>1, <1>2, <1>4, <1>5, <1>6, ServerTypes, ServerOnly DEF IInv, TypeOK, WorkersSound

LEMMA EnqueueInv ==
  ASSUME IInv, Enqueue, UNCHANGED <<schedule, main, failed>>
  PROVE  IInv'
<1>1. /\ callback \in Request /\ callback # Nothing /\ alive
      /\ queue' = Append(queue, callback) /\ callback' = Nothing
      /\ UNCHANGED <<alive, running, numThreads, accepting, loop, item, replies, late, begun>>
  BY ServerTypes DEF Enqueue
<1>2. /\ work' \in [Worker -> WorkLabels] /\ waiting' \in BOOLEAN
      /\ \A w \in Worker : work'[w] = work[w] \/ (work[w] = "wait" /\ work'[w] = "lock")
  <2>1. work' = work \/ \E w \in Worker : work[w] = "wait" /\ work' = [work EXCEPT ![w] = "lock"]
    BY DEF Enqueue, Waiters
  <2>2. waiting' \in BOOLEAN
    BY DEF Enqueue, IInv, TypeOK
  <2> QED
    BY <2>1, <2>2, ServerTypes DEF WorkLabels
<1>3. /\ queue' \in Seq(Request) /\ DOMAIN queue' = 1 .. (Len(queue) + 1)
      /\ \A i \in 1 .. Len(queue) : queue'[i] = queue[i]
      /\ queue'[Len(queue) + 1] = callback
  BY <1>1, ServerTypes
<1>4. Held' \subseteq Held \union {Nothing}
  <2>1. \A i \in DOMAIN queue' : queue'[i] \in Held
    BY <1>3, ServerTypes
  <2> QED
    BY <1>1, <2>1, ServerTypes DEF Held
<1>5. HeldOnce'
  <2>1. /\ \A i, j \in 1 .. Len(queue) : i # j => queue[i] # queue[j]
        /\ \A i \in 1 .. Len(queue) : queue[i] # callback /\ \A w \in Worker : queue[i] # item[w]
        /\ \A w \in Worker : item[w] # callback
        /\ \A v, w \in Worker : item[w] # Nothing /\ v # w => item[v] # item[w]
        /\ \A r \in Request : replies[r] <= 1 /\ (r \in Held => replies[r] = 0)
    BY <1>1, ServerTypes DEF IInv, HeldOnce
  <2>2. \A i, j \in DOMAIN queue' : i # j => queue'[i] # queue'[j]
    BY <1>3, <2>1, ServerTypes
  <2>3. \A i \in DOMAIN queue' : queue'[i] # Nothing /\ \A w \in Worker : queue'[i] # item[w]
    BY <1>1, <1>3, <2>1, ServerTypes
  <2>4. \A r \in Request : r \in Held' => r \in Held
    BY <1>4
  <2> QED
    BY <1>1, <2>1, <2>2, <2>3, <2>4 DEF HeldOnce
<1>6. Counted' = Counted
  BY <1>2 DEF Counted
<1>7. \A w \in Worker : item[w] # Nothing <=> work[w] = "working"
  BY DEF IInv, WorkersSound
<1>8. late \in SUBSET Request
  BY DEF IInv, TypeOK
<1> QED
  BY <1>1, <1>2, <1>3, <1>5, <1>6, <1>7, <1>8, ServerTypes, ServerOnly

LEMMA RefuseInv ==
  ASSUME IInv, Refuse \/ EnqueueLate, UNCHANGED <<schedule, main, failed>>
  PROVE  IInv'
<1>1. /\ callback \in Request /\ callback # Nothing /\ callback' = Nothing
      /\ UNCHANGED <<alive, running, queue, numThreads, accepting, loop, work, item,
                      waiting, begun>>
      /\ late' \in {late, late \union {callback}}
      /\ WriteReply(callback) \/ replies' = replies
  BY ServerTypes DEF Refuse, EnqueueLate
<1>2. /\ \A i \in DOMAIN queue : queue[i] # callback /\ queue[i] # Nothing
      /\ \A w \in Worker : item[w] # callback
      /\ \A r \in Request : replies[r] <= 1 /\ (r \in Held => replies[r] = 0)
  BY <1>1, ServerTypes DEF IInv, HeldOnce
<1>3. Held' \subseteq (Held \ {callback}) \union {Nothing}
  BY <1>1, <1>2 DEF Held
<1>4. \A r \in Request : replies'[r] <= 1 /\ (r \in Held' => replies'[r] = 0)
  BY <1>1, <1>2, <1>3, Replied, ServerTypes
<1>5. HeldOnce'
  <2>1. /\ \A i, j \in DOMAIN queue : i # j => queue[i] # queue[j]
        /\ \A i \in DOMAIN queue : \A w \in Worker : queue[i] # item[w]
        /\ \A v, w \in Worker : item[w] # Nothing /\ v # w => item[v] # item[w]
    BY DEF IInv, HeldOnce
  <2> QED
    BY <1>1, <1>2, <1>4, <2>1 DEF HeldOnce
<1>6. Counted' = Counted
  BY <1>1 DEF Counted
<1>7. replies' \in [Request -> Nat] /\ late' \in SUBSET Request
  BY <1>1, Replied, ServerTypes DEF IInv, TypeOK
<1> QED
  BY <1>1, <1>5, <1>6, <1>7, ServerTypes, ServerOnly DEF IInv, TypeOK, WorkersSound

-----------------------------------------------------------------------------
(* The workers                                                              *)

LEMMA HeldParts ==
  ASSUME IInv
  PROVE  /\ \A i, j \in DOMAIN queue : i # j => queue[i] # queue[j]
         /\ \A i \in DOMAIN queue : queue[i] # callback
         /\ \A i \in DOMAIN queue : \A w \in Worker : queue[i] # item[w]
         /\ \A w \in Worker : item[w] # Nothing => item[w] # callback
         /\ \A v, w \in Worker : item[w] # Nothing /\ v # w => item[v] # item[w]
         /\ \A r \in Request : replies[r] <= 1 /\ (r \in Held => replies[r] = 0)
         /\ \A w \in Worker : item[w] # Nothing <=> work[w] = "working"
<1>1. /\ \A i, j \in DOMAIN queue : i # j => queue[i] # queue[j]
      /\ \A i \in DOMAIN queue : queue[i] # callback /\ \A w \in Worker : queue[i] # item[w]
      /\ \A r \in Request : replies[r] <= 1 /\ (r \in Held => replies[r] = 0)
  BY DEF IInv, HeldOnce
<1>2. /\ \A w \in Worker : item[w] # Nothing => item[w] # callback
      /\ \A v, w \in Worker : item[w] # Nothing /\ v # w => item[v] # item[w]
  BY DEF IInv, HeldOnce
<1>3. \A w \in Worker : item[w] # Nothing <=> work[w] = "working"
  BY DEF IInv, WorkersSound
<1> QED
  BY <1>1, <1>2, <1>3

LEMMA StartWorkerInv ==
  ASSUME IInv, NEW w \in Worker, StartWorker(w), UNCHANGED <<schedule, main, failed>>
  PROVE  IInv'
<1>1. /\ work[w] = "starting" /\ work' = [work EXCEPT ![w] = "test"]
      /\ numThreads' = numThreads + 1
      /\ UNCHANGED <<alive, running, queue, accepting, callback, loop, item, replies, waiting,
                      late, begun>>
  BY DEF StartWorker
<1>2. Counted' = Counted \union {w} /\ w \notin Counted
  BY <1>1, ServerTypes DEF Counted, WorkLabels
<1>3. numThreads' = Cardinality(Counted')
  BY <1>1, <1>2, ServerTypes, Counting DEF Counted
<1>4. HeldOnce'
  BY <1>1 DEF IInv, HeldOnce, Held
<1>5. \A v \in Worker : work'[v] = work[v] \/ (v = w /\ work'[v] = "test")
  BY <1>1, ServerTypes
<1>6. work' \in [Worker -> WorkLabels]
  BY <1>1, ServerTypes DEF WorkLabels
<1> QED
  BY <1>1, <1>3, <1>4, <1>5, <1>6, HeldParts, ServerTypes, ServerOnly DEF IInv, TypeOK

LEMMA TestRunningInv ==
  ASSUME IInv, NEW w \in Worker, TestRunning(w), UNCHANGED <<schedule, main, failed>>
  PROVE  IInv'
<1>1. /\ work[w] = "test"
      /\ work' \in {[work EXCEPT ![w] = "lock"], [work EXCEPT ![w] = "leaving"]}
      /\ UNCHANGED <<alive, running, queue, numThreads, accepting, callback, loop, item,
                      replies, waiting, late, begun>>
  BY DEF TestRunning
<1>2. Counted' = Counted
  BY <1>1, ServerTypes DEF Counted, WorkLabels
<1>3. HeldOnce'
  BY <1>1 DEF IInv, HeldOnce, Held
<1>4. /\ work' \in [Worker -> WorkLabels]
      /\ \A v \in Worker : work'[v] = work[v] \/ (v = w /\ work'[v] \in {"lock", "leaving"})
  BY <1>1, ServerTypes DEF WorkLabels
<1> QED
  BY <1>1, <1>2, <1>3, <1>4, HeldParts, ServerTypes, ServerOnly DEF IInv, TypeOK

LEMMA TakeItemInv ==
  ASSUME IInv, NEW w \in Worker, TakeItem(w), UNCHANGED <<schedule, main, failed>>
  PROVE  IInv'
<1>1. /\ work[w] = "lock" /\ item[w] = Nothing
      /\ UNCHANGED <<alive, running, numThreads, accepting, callback, loop, replies, waiting,
                      late, begun>>
  BY HeldParts DEF TakeItem
<1>2. late \in SUBSET Request /\ waiting \in BOOLEAN
  BY DEF IInv, TypeOK
<1>3. CASE /\ UNCHANGED <<queue, item>>
           /\ work' \in {[work EXCEPT ![w] = "leaving"], [work EXCEPT ![w] = "wait"]}
  <2>1. Counted' = Counted
    BY <1>1, <1>3, ServerTypes DEF Counted, WorkLabels
  <2>2. HeldOnce'
    BY <1>1, <1>3 DEF IInv, HeldOnce, Held
  <2>3. /\ work' \in [Worker -> WorkLabels]
        /\ \A v \in Worker : work'[v] = work[v] \/ (v = w /\ work'[v] \in {"wait", "leaving"})
    BY <1>3, ServerTypes DEF WorkLabels
  <2> QED
    BY <1>1, <1>2, <1>3, <2>1, <2>2, <2>3, HeldParts, ServerTypes, ServerOnly
<1>4. CASE /\ running /\ queue # <<>> /\ work' = [work EXCEPT ![w] = "working"]
           /\ item' = [item EXCEPT ![w] = Head(queue)] /\ queue' = Tail(queue)
  <2>1. Counted' = Counted
    BY <1>1, <1>4, ServerTypes DEF Counted, WorkLabels
  <2>2. /\ Len(queue) > 0 /\ Head(queue) = queue[1] /\ queue[1] \in Request
        /\ queue' \in Seq(Request) /\ DOMAIN queue' = 1 .. (Len(queue) - 1)
        /\ \A i \in 1 .. (Len(queue) - 1) : queue'[i] = queue[i + 1]
    BY <1>4, ServerTypes
  <2>3. /\ work' \in [Worker -> WorkLabels] /\ item' \in [Worker -> Request \union {Nothing}]
        /\ \A v \in Worker \ {w} : work'[v] = work[v] /\ item'[v] = item[v]
        /\ work'[w] = "working" /\ item'[w] = queue[1]
    BY <1>4, <2>2, ServerTypes DEF WorkLabels
  <2>4. Held' \subseteq Held
    <3>1. \A i \in DOMAIN queue' : queue'[i] \in Held
      <4>1. \A i \in 1 .. (Len(queue) - 1) : i + 1 \in 1 .. Len(queue)
        BY ServerTypes
      <4> QED
        BY <2>2, <4>1, ServerTypes
    <3>2. \A v \in Worker : item'[v] \in Held
      <4>1. queue[1] \in Held
        BY <2>2, ServerTypes
      <4> QED
        BY <2>3, <4>1, ServerTypes
    <3> QED
      BY <1>1, <3>1, <3>2, ServerTypes DEF Held
  <2>5. HeldOnce'
    <3>1. /\ Len(queue) \in Nat /\ DOMAIN queue = 1 .. Len(queue) /\ 1 \in DOMAIN queue
          /\ DOMAIN queue' = 1 .. (Len(queue) - 1)
      BY <2>2, ServerTypes
    <3>2. \A i \in DOMAIN queue' : /\ i \in Nat /\ i + 1 \in DOMAIN queue /\ i + 1 # 1
                                   /\ queue'[i] = queue[i + 1]
      BY <2>2, <3>1
    <3>3. \A i, j \in DOMAIN queue' : i # j => queue'[i] # queue'[j]
      <4>1. \A i, j \in DOMAIN queue' : i # j => i + 1 # j + 1
        BY <3>2
      <4> QED
        BY <3>2, <4>1, HeldParts
    <3>4. /\ \A i \in DOMAIN queue' : queue'[i] # callback
          /\ \A i \in DOMAIN queue' : \A v \in Worker : queue'[i] # item'[v]
      <4>1. \A i \in DOMAIN queue' : queue'[i] # queue[1]
        BY <3>1, <3>2, HeldParts
      <4>2. \A i \in DOMAIN queue' : /\ queue'[i] # callback
                                     /\ \A v \in Worker : queue'[i] # item[v]
        BY <3>2, HeldParts
      <4> QED
        BY <2>3, <4>1, <4>2
    <3>5. \A v \in Worker : item'[v] # Nothing => item'[v] # callback
      BY <2>3, <3>1, HeldParts
    <3>6. \A u, v \in Worker : item'[v] # Nothing /\ u # v => item'[u] # item'[v]
      <4>1. \A v \in Worker : item[v] # queue[1]
        BY <3>1, HeldParts
      <4> QED
        BY <2>3, <4>1, HeldParts
    <3> QED
      BY <1>1, <2>4, <3>3, <3>4, <3>5, <3>6, HeldParts DEF HeldOnce
  <2>6. \A v \in Worker : item'[v] # Nothing <=> work'[v] = "working"
    BY <2>2, <2>3, HeldParts
  <2>7. alive
    <3>1. main \notin AfterInterrupt
      BY <1>4 DEF IInv, StagesReached
    <3> QED
      BY <3>1 DEF IInv, StagesReached, AfterInterrupt, AfterDelete, TypeOK
  <2>8. /\ \A v \in Worker : work[v] = "gone" => work'[v] = "gone"
        /\ \A v \in Worker : work[v] # "starting" => work'[v] # "starting"
    BY <1>1, <2>3
  <2> QED
    BY <1>1, <1>2, <1>4, <2>1, <2>2, <2>3, <2>5, <2>6, <2>7, <2>8, ServerTypes, ServerOnly
<1> QED
  BY <1>3, <1>4 DEF TakeItem

LEMMA RunItemInv ==
  ASSUME IInv, NEW w \in Worker, RunItem(w), UNCHANGED <<schedule, main, failed>>
  PROVE  IInv'
<1>1. /\ work[w] = "working" /\ item[w] # Nothing /\ item[w] \in Request
      /\ WriteReply(item[w])
      /\ item' = [item EXCEPT ![w] = Nothing] /\ work' = [work EXCEPT ![w] = "test"]
      /\ UNCHANGED <<alive, running, queue, numThreads, accepting, callback, loop, waiting,
                      late, begun>>
  BY HeldParts, ServerTypes DEF RunItem
<1>2. /\ work' \in [Worker -> WorkLabels] /\ item' \in [Worker -> Request \union {Nothing}]
      /\ \A v \in Worker \ {w} : work'[v] = work[v] /\ item'[v] = item[v]
      /\ work'[w] = "test" /\ item'[w] = Nothing
  BY <1>1, ServerTypes DEF WorkLabels
<1>3. /\ replies' \in [Request -> Nat]
      /\ \A r \in Request : replies'[r] = IF r = item[w] THEN replies[r] + 1 ELSE replies[r]
  BY <1>1, Replied
<1>4. Held' \subseteq (Held \ {item[w]}) \union {Nothing}
  <2>1. /\ \A i \in DOMAIN queue : queue[i] # item[w]
        /\ \A v \in Worker \ {w} : item[v] # item[w]
        /\ callback # item[w]
    BY <1>1, HeldParts
  <2> QED
    BY <1>1, <1>2, <2>1 DEF Held
<1>5. \A r \in Request : replies'[r] <= 1 /\ (r \in Held' => replies'[r] = 0)
  <2>1. replies[item[w]] = 0
    BY <1>1, HeldParts, ServerTypes
  <2>2. \A r \in Request : replies[r] <= 1 /\ (r \in Held => replies[r] = 0)
    BY HeldParts
  <2>3. ASSUME NEW r \in Request
        PROVE  replies'[r] <= 1 /\ (r \in Held' => replies'[r] = 0)
    <3>1. CASE r = item[w]
      BY <1>3, <1>4, <2>1, <3>1
    <3>2. CASE r # item[w]
      BY <1>3, <1>4, <2>2, <3>2
    <3> QED
      BY <3>1, <3>2
  <2> QED
    BY <2>3
<1>6. HeldOnce'
  <2>1. \A i \in DOMAIN queue : queue[i] # Nothing
    BY ServerTypes
  <2>2. \A i \in DOMAIN queue : \A v \in Worker : queue[i] # item'[v]
    BY <1>2, <2>1, HeldParts
  <2>3. /\ \A v \in Worker : item'[v] # Nothing => item'[v] # callback
        /\ \A u, v \in Worker : item'[v] # Nothing /\ u # v => item'[u] # item'[v]
    BY <1>2, HeldParts
  <2> QED
    BY <1>1, <1>5, <2>2, <2>3, HeldParts DEF HeldOnce
<1>7. Counted' = Counted
  BY <1>1, <1>2 DEF Counted
<1>8. \A v \in Worker : item'[v] # Nothing <=> work'[v] = "working"
  BY <1>2, HeldParts
<1>9. late \in SUBSET Request /\ waiting \in BOOLEAN
  BY DEF IInv, TypeOK
<1>10. /\ \A v \in Worker : work[v] = "gone" => work'[v] = "gone"
       /\ \A v \in Worker : work[v] # "starting" => work'[v] # "starting"
       /\ \A v \in Worker : work'[v] = "working" => work[v] = "working"
  BY <1>1, <1>2
<1> QED
  BY <1>1, <1>2, <1>3, <1>6, <1>7, <1>8, <1>9, <1>10, ServerTypes, ServerOnly

LEMMA LeaveInv ==
  ASSUME IInv, NEW w \in Worker, Leave(w), UNCHANGED <<schedule, main, failed>>
  PROVE  IInv'
<1>1. /\ work[w] = "leaving" /\ numThreads' = numThreads - 1 /\ waiting' = FALSE
      /\ work' = Woken([work EXCEPT ![w] = "gone"])
      /\ UNCHANGED <<alive, running, queue, accepting, callback, loop, item, replies, late, begun>>
  BY DEF Leave
<1>2. /\ work' \in [Worker -> WorkLabels] /\ work'[w] = "gone"
      /\ \A v \in Worker \ {w} : work'[v] = work[v] \/ (work[v] = "wait" /\ work'[v] = "lock")
  BY <1>1, ServerTypes DEF Woken, WorkLabels
<1>3. Counted' = Counted \ {w} /\ w \in Counted
  BY <1>1, <1>2 DEF Counted
<1>4. numThreads' = Cardinality(Counted')
  <2>1. Counted \in SUBSET Worker
    BY DEF Counted
  <2>2. Cardinality(Counted \ {w}) = Cardinality(Counted) - 1
    BY <1>3, <2>1, Counting
  <2>3. numThreads' = Cardinality(Counted) - 1
    BY <1>1, ServerTypes
  <2> QED
    BY <1>3, <2>2, <2>3
<1>5. HeldOnce'
  BY <1>1 DEF IInv, HeldOnce, Held
<1>6. /\ \A v \in Worker : work[v] = "gone" => work'[v] = "gone"
      /\ \A v \in Worker : work[v] # "starting" => work'[v] # "starting"
      /\ \A v \in Worker : work'[v] = "working" <=> work[v] = "working"
  BY <1>1, <1>2
<1> QED
  BY <1>1, <1>2, <1>4, <1>5, <1>6, HeldParts, ServerTypes, ServerOnly DEF IInv, TypeOK

-----------------------------------------------------------------------------
(* The main thread                                                          *)

(* Steps that only move on.                                                 *)
LEMMA MainOnly ==
  ASSUME IInv,
         UNCHANGED <<now, due, service, deadline, task, nThreads, alive, running, queue,
                     numThreads, callback, loop, work, item, replies, late, begun>>,
         interrupted' \in BOOLEAN, accepting' \in BOOLEAN, waiting' \in BOOLEAN,
         failed' \in BOOLEAN,
         main' \in {"loading", "interrupt", "interruptQueue"} \union AfterInterrupt,
         StagesReached'
  PROVE  IInv'
<1>1. TypeOK'
  BY DEF IInv, TypeOK
<1>2. CountsExact' /\ WorkersSound' /\ HeldOnce'
  BY DEF IInv, CountsExact, WorkersSound, HeldOnce, Held
<1> QED
  BY <1>1, <1>2 DEF IInv

LEMMA Stages ==
  ASSUME IInv
  PROVE  /\ main \in {"loading", "interrupt", "interruptQueue"} \union AfterInterrupt
         /\ interrupted \in BOOLEAN /\ accepting \in BOOLEAN /\ waiting \in BOOLEAN
         /\ failed \in BOOLEAN /\ alive \in BOOLEAN
         /\ main \in AfterInterrupt => ~ running
         /\ main \in AfterJoin /\ ~ failed => \A t \in ServiceThread : service[t] = "gone"
         /\ main \in AfterExit => \A w \in begun : work[w] = "gone"
         /\ ~ alive <=> main \in AfterDelete
         /\ main \in AfterDelete => queue = <<>>
         /\ main \in AfterLoop => ~ loop /\ callback = Nothing
  BY DEF IInv, TypeOK, StagesReached

(* Nobody is counted any more, so those that had begun are gone.            *)
LEMMA NoneCounted ==
  ASSUME IInv, ~ (numThreads > 0)
  PROVE  \A w \in begun : work[w] = "gone"
<1>1. Counted \in SUBSET Worker /\ begun \subseteq Worker
  BY DEF Counted, IInv, TypeOK
<1>2. numThreads \in Nat /\ numThreads = Cardinality(Counted)
  BY DEF IInv, TypeOK, CountsExact, Counted
<1>3. \A w \in Worker : w \notin Counted
  BY <1>1, <1>2, Counting
<1>4. \A w \in begun : work[w] # "starting"
  BY DEF IInv, WorkersSound
<1> QED
  BY <1>1, <1>3, <1>4 DEF Counted

LEMMA MovesInv ==
  ASSUME IInv,
         \/ LoadFails \/ ShutdownRequested \/ RejectRequests \/ InterruptThreads
         \/ JoinAll \/ WaitExit \/ LeaveAppInit
  PROVE  IInv'
<1> USE DEF schedule, server, AfterInterrupt, AfterJoin, AfterExit, AfterDelete, AfterLoop
<1>1. CASE LoadFails
  <2>1. StagesReached'
    BY <1>1, Stages DEF LoadFails, StagesReached
  <2> QED
    BY <1>1, <2>1, Stages, MainOnly DEF LoadFails
<1>2. CASE ShutdownRequested
  <2>1. StagesReached'
    BY <1>2, Stages DEF ShutdownRequested, StagesReached
  <2> QED
    BY <1>2, <2>1, Stages, MainOnly DEF ShutdownRequested
<1>3. CASE RejectRequests
  <2>1. StagesReached'
    BY <1>3, Stages DEF RejectRequests, StagesReached
  <2> QED
    BY <1>3, <2>1, Stages, MainOnly DEF RejectRequests
<1>4. CASE InterruptThreads
  <2>1. StagesReached'
    BY <1>4, Stages DEF InterruptThreads, StagesReached
  <2> QED
    BY <1>4, <2>1, Stages, MainOnly DEF InterruptThreads
<1>5. CASE JoinAll
  <2>1. StagesReached'
    BY <1>5, Stages DEF JoinAll, StagesReached
  <2> QED
    BY <1>5, <2>1, Stages, MainOnly DEF JoinAll
<1>6. CASE WaitExit
  <2>1. StagesReached'
    <3>1. main = "waitExit" /\ UNCHANGED <<schedule, alive, running, queue, callback, loop,
                                          work, begun, failed>>
      BY <1>6 DEF WaitExit
    <3>2. main' = main \/ (main' = "delete" /\ \A w \in begun : work[w] = "gone")
      BY <1>6, NoneCounted DEF WaitExit
    <3> QED
      BY <3>1, <3>2, Stages DEF StagesReached
  <2> QED
    BY <1>6, <2>1, Stages, MainOnly DEF WaitExit
<1>7. CASE LeaveAppInit
  <2>1. StagesReached'
    BY <1>7, Stages DEF LeaveAppInit, StagesReached
  <2> QED
    BY <1>7, <2>1, Stages, MainOnly DEF LeaveAppInit
<1> QED
  BY <1>1, <1>2, <1>3, <1>4, <1>5, <1>6, <1>7

LEMMA InterruptQueueInv == ASSUME IInv, InterruptQueue PROVE IInv'
<1> USE DEF schedule, AfterInterrupt, AfterJoin, AfterExit, AfterDelete, AfterLoop
<1>1. /\ main = "interruptQueue" /\ main' = "interruptThreads" /\ running' = FALSE
      /\ begun' = {w \in Worker : work[w] # "starting"} /\ work' = Woken(work)
      /\ UNCHANGED <<schedule, alive, queue, numThreads, accepting, callback, loop, item,
                      replies, waiting, late, failed>>
  BY DEF InterruptQueue
<1>2. /\ work' \in [Worker -> WorkLabels]
      /\ \A w \in Worker : work'[w] = work[w] \/ (work[w] = "wait" /\ work'[w] = "lock")
  BY <1>1, ServerTypes DEF Woken, WorkLabels
<1>3. TypeOK'
  BY <1>1, <1>2 DEF IInv, TypeOK, WorkLabels
<1>4. CountsExact'
  <2>1. Counted' = Counted /\ Serving' = Serving
    BY <1>1, <1>2 DEF Counted, Serving
  <2> QED
    BY <1>1, <2>1 DEF IInv, CountsExact, Counted, Serving
<1>5. StagesReached'
  BY <1>1, Stages DEF StagesReached
<1>6. WorkersSound'
  BY <1>1, <1>2, HeldParts DEF WorkersSound
<1>7. HeldOnce'
  BY <1>1 DEF IInv, HeldOnce, Held
<1> QED
  BY <1>3, <1>4, <1>5, <1>6, <1>7 DEF IInv

LEMMA DeleteQueueInv == ASSUME IInv, DeleteQueue PROVE IInv'
<1> USE DEF schedule, AfterInterrupt, AfterJoin, AfterExit, AfterDelete, AfterLoop
<1> DEFINE left == {queue[i] : i \in DOMAIN queue}
<1>1. /\ main = "delete" /\ main' = "stopLoop" /\ alive' = FALSE /\ queue' = <<>>
      /\ replies' = [r \in Request |-> replies[r] + (IF r \in left THEN 1 ELSE 0)]
      /\ UNCHANGED <<schedule, running, numThreads, accepting, callback, loop, work, item,
                      waiting, late, begun, failed>>
  BY DEF DeleteQueue
<1>2. /\ replies' \in [Request -> Nat]
      /\ \A r \in Request : replies'[r] = IF r \in left THEN replies[r] + 1 ELSE replies[r]
  <2>1. \A r \in Request : /\ replies[r] \in Nat /\ replies[r] + 0 = replies[r]
                           /\ replies[r] + 1 \in Nat
    BY ServerTypes
  <2> QED
    BY <1>1, <2>1
<1>3. TypeOK'
  <2>1. queue' \in Seq(Request)
    BY <1>1
  <2> QED
    BY <1>1, <1>2, <2>1 DEF IInv, TypeOK
<1>4. CountsExact' /\ WorkersSound'
  BY <1>1 DEF IInv, CountsExact, WorkersSound
<1>5. StagesReached'
  BY <1>1, Stages DEF StagesReached
<1>6. HeldOnce'
  <2>1. DOMAIN queue' = {}
    BY <1>1
  <2>2. Held' \subseteq Held \ (left \ {Nothing})
    <3>1. \A r \in left : r # callback /\ \A w \in Worker : r # item[w]
      BY HeldParts
    <3> QED
      BY <1>1, <2>1, <3>1 DEF Held
  <2>3. Nothing \notin left /\ left \subseteq Held
    BY ServerTypes
  <2>4. \A r \in Request : replies'[r] <= 1 /\ (r \in Held' => replies'[r] = 0)
    <3>1. \A r \in Request \cap left : replies[r] = 0
      BY <2>3, HeldParts
    <3> QED
      BY <1>2, <2>2, <2>3, <3>1, HeldParts
  <2> QED
    BY <1>1, <2>1, <2>4, HeldParts DEF HeldOnce
<1> QED
  BY <1>3, <1>4, <1>5, <1>6 DEF IInv

LEMMA StopLoopInv == ASSUME IInv, StopLoop PROVE IInv'
<1> USE DEF schedule, AfterInterrupt, AfterJoin, AfterExit, AfterDelete, AfterLoop
<1>1. /\ main = "stopLoop" /\ main' = "leave" /\ loop' = FALSE /\ callback = Nothing
      /\ UNCHANGED <<schedule, alive, running, queue, numThreads, accepting, callback, work,
                      item, replies, waiting, late, begun, failed>>
  BY DEF StopLoop
<1>2. TypeOK'
  BY <1>1 DEF IInv, TypeOK
<1>3. CountsExact' /\ WorkersSound' /\ HeldOnce'
  BY <1>1 DEF IInv, CountsExact, WorkersSound, HeldOnce, Held
<1>4. StagesReached'
  BY <1>1, Stages DEF StagesReached
<1> QED
  BY <1>2, <1>3, <1>4 DEF IInv

-----------------------------------------------------------------------------

LEMMA InitInv == Init => IInv
<1> SUFFICES ASSUME Init PROVE IInv
  OBVIOUS
<1> USE DEF Init, SchedulerInit, WorkQueueInit
<1>1. TypeOK
  <2>1. /\ now \in Nat /\ due \in [Task -> Nat \union {NotQueued}]
        /\ deadline \in [ServiceThread -> Nat]
        /\ task \in [ServiceThread -> Task \union {NoTask}]
        /\ nThreads \in Nat /\ numThreads \in Nat
    OBVIOUS
  <2>2. /\ queue \in Seq(Request) /\ replies \in [Request -> Nat]
        /\ item \in [Worker -> Request \union {Nothing}]
        /\ callback \in Request \union {Nothing}
        /\ late \in SUBSET Request /\ begun \in SUBSET Worker
    OBVIOUS
  <2> QED
    BY <2>1, <2>2 DEF TypeOK
<1>2. CountsExact
  <2>1. Serving = {} /\ Counted = {}
    BY DEF Serving, Counted
  <2> QED
    BY <2>1, FS_EmptySet DEF CountsExact, Serving, Counted
<1>3. StagesReached
  BY DEF StagesReached, AfterInterrupt, AfterJoin, AfterExit, AfterDelete, AfterLoop
<1>4. WorkersSound
  BY DEF WorkersSound
<1>5. HeldOnce
  BY DEF HeldOnce, Held
<1> QED
  BY <1>1, <1>2, <1>3, <1>4, <1>5 DEF IInv

LEMMA NextInv == IInv /\ [Next]_vars => IInv'
<1> SUFFICES ASSUME IInv, [Next]_vars PROVE IInv'
  OBVIOUS
<1>1. ASSUME Main \/ LoadFails \/ ShutdownRequested PROVE IInv'
  BY <1>1, MovesInv, InterruptQueueInv, DeleteQueueInv, StopLoopInv DEF Main
<1>2. ASSUME NEW k \in Task, StartNode(k) PROVE IInv'
  BY <1>2, StartNodeInv
<1>3. ASSUME UNCHANGED <<server, main, failed>>,
             Tick \/ \E t \in ServiceThread : Serve(t)
      PROVE  IInv'
  BY <1>3, TickInv, ServeInv
<1>4. ASSUME UNCHANGED <<schedule, main, failed>>, HttpThread PROVE IInv'
  BY <1>4, ArrivalInv, EnqueueInv, RefuseInv DEF HttpThread
<1>5. ASSUME UNCHANGED <<schedule, main, failed>>, NEW w \in Worker, Work(w) PROVE IInv'
  BY <1>5, StartWorkerInv, TestRunningInv, TakeItemInv, RunItemInv, LeaveInv DEF Work
<1>6. CASE UNCHANGED vars
  BY <1>6, Stages, MainOnly DEF vars, schedule, server, StagesReached
<1> QED
  BY <1>1, <1>2, <1>3, <1>4, <1>5, <1>6 DEF Next

(* The invariant holds of every reachable state.                            *)
THEOREM Invariance == Spec => []IInv
  BY InitInv, NextInv, PTL DEF Spec

(* Nobody works with the queue or the scheduler when they are destroyed,    *)
(* whatever the main thread, the workers and the service threads do in      *)
(* which order: workers that had begun are gone once the queue is deleted,  *)
(* and the service threads once AppInit is left after a join.               *)
THEOREM NobodyIsLeftBehind == Spec => []NobodyLeftBehind
<1>1. IInv => NobodyLeftBehind
  <2> SUFFICES ASSUME IInv PROVE NobodyLeftBehind
    OBVIOUS
  <2>1. ~ alive => \A w \in begun : work[w] = "gone"
    BY Stages DEF AfterDelete, AfterExit
  <2>2. ASSUME main = "done", ~ failed
        PROVE  (\A t \in ServiceThread : service[t] = "gone") /\ nThreads = 0
    <3>1. \A t \in ServiceThread : service[t] = "gone"
      BY <2>2, Stages DEF AfterJoin
    <3>2. Serving = {}
      BY <3>1 DEF Serving
    <3> QED
      BY <3>1, <3>2, ScheduleTypes, FS_EmptySet
  <2> QED
    BY <2>1, <2>2 DEF NobodyLeftBehind
<1> QED
  BY <1>1, Invariance, PTL

(* No request is answered twice or held after it was answered, and a node   *)
(* that has stopped holds none, except what came to a deleted queue.        *)
THEOREM EveryoneIsAnsweredOnce == Spec => []AnsweredOnce
<1>1. IInv => AnsweredOnce
  <2> SUFFICES ASSUME IInv PROVE AnsweredOnce
    OBVIOUS
  <2>1. \A r \in Request : replies[r] <= 1 /\ (r \in Held => replies[r] = 0)
    BY HeldParts
  <2>2. ASSUME main = "done" PROVE \A r \in Request : r \notin Held
    <3>1. /\ queue = <<>> /\ callback = Nothing /\ ~ running
          /\ \A w \in begun : work[w] = "gone"
      BY <2>2, Stages DEF AfterInterrupt, AfterExit, AfterDelete, AfterLoop
    <3>2. \A w \in Worker : item[w] = Nothing
      BY <3>1 DEF IInv, WorkersSound
    <3> QED
      BY <3>1, <3>2 DEF Held
  <2> QED
    BY <2>1, <2>2 DEF AnsweredOnce
<1> QED
  BY <1>1, Invariance, PTL

-----------------------------------------------------------------------------
(* One service thread never runs a task early.  With two, one may take the  *)
(* task the other timed out for, and the other then takes the next one, for *)
(* it does not look at the time again (scheduler.cpp:60): the node starts   *)
(* one (init.cpp:988).                                                      *)

LEMMA TimeHasComeInv ==
  ASSUME NEW s, ServiceThread = {s}, IInv, TimeHasCome, [Next]_vars
  PROVE  TimeHasCome'
<1> USE DEF TimeHasCome, Queued
<1>1. /\ \A k \in Queued : due[k] \in Nat
      /\ service \in [ServiceThread -> ServiceLabels] /\ s \in ServiceThread
      /\ now \in Nat /\ deadline[s] \in Nat
  BY ScheduleTypes
<1>2. CASE UNCHANGED <<now, due, service, deadline>>
  BY <1>2
<1>3. ASSUME NEW k \in Task, StartNode(k) PROVE TimeHasCome'
  <2>1. /\ due[k] = NotQueued /\ due' = [due EXCEPT ![k] = now + Period[k]]
        /\ NotifyOne(service) /\ UNCHANGED <<now, deadline>>
    BY <1>3 DEF StartNode, ScheduleEvery
  <2>2. service'[s] = service[s] \/ service'[s] = "test"
    BY <2>1, ScheduleTypes, Notified
  <2>3. \A j \in Queued : j \in Queued' /\ due'[j] = due[j]
    BY <2>1, ScheduleTypes
  <2> QED
    BY <2>1, <2>2, <2>3
<1>4. CASE Tick
  <2>1. now' = now + 1 /\ UNCHANGED <<due, service, deadline>>
    BY <1>4 DEF Tick
  <2>2. \A k \in Queued : due[k] <= now => due[k] <= now'
    BY <1>1, <2>1
  <2> QED
    BY <2>1, <2>2
<1>5. ASSUME Serve(s) PROVE TimeHasCome'
  <2>1. CASE StartService(s) \/ BeInterrupted(s)
    <3>1. service'[s] \in {"test", "gone"}
      BY <1>1, <2>1 DEF StartService, BeInterrupted
    <3> QED
      BY <3>1
  <2>2. CASE LoopTest(s)
    <3>1. UNCHANGED <<now, due>>
      BY <2>2 DEF LoopTest
    <3>2. \/ service'[s] = "wait"
          \/ \E k \in Queued : service'[s] = "wait_until" /\ deadline'[s] = due[k]
      BY <1>1, <2>2, ScheduleTypes DEF LoopTest, First
    <3> QED
      BY <1>1, <3>1, <3>2
  <2>3. CASE TimeOut(s)
    <3>1. /\ service[s] = "wait_until" /\ deadline[s] <= now /\ service'[s] = "late"
          /\ UNCHANGED <<now, due>>
      BY <1>1, <2>3 DEF TimeOut
    <3>2. \E k \in Queued : due[k] <= now
      BY <1>1, <3>1
    <3> QED
      BY <3>1, <3>2
  <2>4. CASE TakeTask(s)
    <3>1. service'[s] \in {"test", "running"}
      BY <1>1, <2>4 DEF TakeTask
    <3> QED
      BY <3>1
  <2>5. CASE FinishTask(s)
    <3>1. service[s] = "running" /\ NotifyOne([service EXCEPT ![s] = "test"])
      BY <2>5 DEF FinishTask
    <3>2. Sleeping = {}
      BY <3>1 DEF Sleeping
    <3>3. service'[s] = "test"
      BY <1>1, <3>1, <3>2 DEF NotifyOne
    <3> QED
      BY <3>3
  <2> QED
    BY <1>5, <2>1, <2>2, <2>3, <2>4, <2>5 DEF Serve
<1>6. CASE Main \/ LoadFails \/ ShutdownRequested
  <2>1. UNCHANGED <<now, due, service, deadline>>
    BY <1>6 DEF Main, LoadFails, ShutdownRequested, RejectRequests, InterruptQueue,
         InterruptThreads, JoinAll, WaitExit, DeleteQueue, StopLoop, LeaveAppInit, schedule
  <2> QED
    BY <1>2, <2>1
<1> QED
  BY <1>2, <1>3, <1>4, <1>5, <1>6 DEF Next, vars, schedule

LEMMA TimeHasComeInit == Init => TimeHasCome
  BY DEF Init, SchedulerInit, TimeHasCome

(* Only the thread that serves the queue takes a task, and of those whose   *)
(* time has come it takes one of the first.                                 *)
LEMMA TakenInTime ==
  ASSUME NEW s, ServiceThread = {s}, IInv, TimeHasCome, [Next]_vars,
         NEW k \in Task, due[k] # NotQueued, due'[k] = NotQueued
  PROVE  due[k] <= now
<1>1. /\ due \in [Task -> Nat \union {NotQueued}] /\ task \in [ServiceThread -> Task \union {NoTask}]
      /\ now \in Nat /\ \A j \in Queued : due[j] \in Nat
      /\ \A j \in Task : now + Period[j] \in Nat
  BY ScheduleTypes DEF Queued
<1>2. \A j \in Task : ~ StartNode(j)
  BY <1>1 DEF StartNode, ScheduleEvery
<1>3. ~ FinishTask(s)
  <2>1. service[s] = "running" => task[s] \in Task
    BY ScheduleTypes
  <2> QED
    BY <1>1, <2>1 DEF FinishTask
<1>4. CASE TakeTask(s)
  <2>1. service[s] = "late" /\ k \in First
    BY <1>1, <1>4 DEF TakeTask, First, Queued
  <2>2. \E j \in Queued : due[j] <= now
    BY <2>1 DEF TimeHasCome
  <2>3. k \in Queued /\ \A j \in Queued : due[k] <= due[j]
    BY <2>1 DEF First
  <2> QED
    BY <1>1, <2>2, <2>3
<1>5. TakeTask(s)
  <2>1. due' # due
    OBVIOUS
  <2>2. ~ (Main \/ LoadFails \/ ShutdownRequested)
    BY <2>1 DEF Main, LoadFails, ShutdownRequested, RejectRequests, InterruptQueue,
         InterruptThreads, JoinAll, WaitExit, DeleteQueue, StopLoop, LeaveAppInit, schedule
  <2>3. ~ (UNCHANGED schedule) /\ ~ Tick
    BY <2>1 DEF schedule, Tick
  <2>4. Serve(s)
    BY <1>2, <2>2, <2>3 DEF Next, vars
  <2>5. ~ (StartService(s) \/ LoopTest(s) \/ TimeOut(s) \/ BeInterrupted(s))
    BY <2>1 DEF StartService, LoopTest, TimeOut, BeInterrupted
  <2> QED
    BY <1>3, <2>4, <2>5 DEF Serve
<1> QED
  BY <1>4, <1>5

(* With one service thread no task is run before its time, whatever wakes   *)
(* the thread and whenever tasks are added.                                 *)
THEOREM OneThreadIsNeverEarly ==
  ASSUME NEW s, ServiceThread = {s}
  PROVE  Spec => NeverEarly
<1>1. IInv /\ TimeHasCome /\ [Next]_vars => TimeHasCome'
  BY TimeHasComeInv
<1>2. IInv /\ TimeHasCome /\ [Next]_vars
      => [\A k \in Task : due[k] # NotQueued /\ due'[k] = NotQueued => due[k] <= now]_vars
  BY TakenInTime
<1> QED
  BY <1>1, <1>2, TimeHasComeInit, Invariance, PTL DEF Spec, NeverEarly

=============================================================================
