---------------------------- MODULE NodeShutdown ----------------------------
(***************************************************************************)
(* The end of the node (src/src/dapscoind.cpp, src/src/init.cpp): the main *)
(* thread interrupts the HTTP server and the thread group, joins the       *)
(* group, waits for the HTTP workers, deletes their queue, stops the event *)
(* loop, and leaves AppInit, where the scheduler is a local variable.  If  *)
(* AppInit2 fails, it does the same without the join.                      *)
(***************************************************************************)
EXTENDS Scheduler, WorkQueue

VARIABLES
    main,    \* where the main thread is
    failed   \* AppInit2 returned false

vars == <<schedule, server, main, failed>>

Init ==
    /\ SchedulerInit /\ WorkQueueInit
    /\ main = "loading"
    /\ failed = FALSE

(* AppInit2 has started the service thread and the HTTP server; StartNode  *)
(* schedules what has to be done from time to time.                        *)
StartNode(k) ==
    /\ main = "loading"
    /\ due[k] = NotQueued /\ \A t \in ServiceThread : service[t] # "running" /\ now = 0
    /\ ScheduleEvery(k)
    /\ UNCHANGED <<server, main, failed>>

LoadFails ==
    /\ main = "loading"
    /\ failed' = TRUE
    /\ main' = "interrupt"
    /\ UNCHANGED <<schedule, server>>

(* WaitForShutdown: StartShutdown was called.                              *)
ShutdownRequested ==
    /\ main = "loading"
    /\ main' = "interrupt"
    /\ UNCHANGED <<schedule, server, failed>>

(* InterruptHTTPServer, with two effects that others see one by one.       *)
RejectRequests ==
    /\ main = "interrupt"
    /\ accepting' = FALSE
    /\ main' = "interruptQueue"
    /\ UNCHANGED <<schedule, alive, running, queue, numThreads, callback, loop, work, item,
                   replies, waiting, late, begun, failed>>

InterruptQueue ==
    /\ main = "interruptQueue"
    /\ running' = FALSE
    /\ begun' = {w \in Worker : work[w] # "starting"}
    /\ work' = Woken(work)
    /\ main' = "interruptThreads"
    /\ UNCHANGED <<schedule, alive, queue, numThreads, accepting, callback, loop, item,
                   replies, waiting, late, failed>>

(* threadGroup.interrupt_all(); join_all is left out if AppInit2 failed.   *)
InterruptThreads ==
    /\ main = "interruptThreads"
    /\ interrupted' = TRUE
    /\ main' = IF failed THEN "waitExit" ELSE "join"
    /\ UNCHANGED <<now, due, service, deadline, task, nThreads, server, failed>>

JoinAll ==
    /\ main = "join"
    /\ \A t \in ServiceThread : service[t] = "gone"
    /\ main' = "waitExit"
    /\ UNCHANGED <<schedule, server, failed>>

(* Bug: WaitExit asks for an empty queue instead of no threads.            *)
WaitExitForQueue ==
    /\ main = "waitExit" /\ ~ waiting
    /\ IF queue # <<>> THEN waiting' = TRUE /\ UNCHANGED main
                       ELSE main' = "delete" /\ UNCHANGED waiting
    /\ UNCHANGED <<schedule, alive, running, queue, numThreads, accepting, callback, loop,
                   work, item, replies, late, begun, failed>>

(* StopHTTPServer: WaitExit ...                                            *)
WaitExit ==
    /\ main = "waitExit" /\ ~ waiting
    /\ IF numThreads > 0 THEN waiting' = TRUE /\ UNCHANGED main
                         ELSE main' = "delete" /\ UNCHANGED waiting
    /\ UNCHANGED <<schedule, alive, running, queue, numThreads, accepting, callback, loop,
                   work, item, replies, late, begun, failed>>

(* ... delete workQueue: ~HTTPRequest answers those left in it with        *)
(* "Unhandled request" ...                                                 *)
DeleteQueue ==
    /\ main = "delete"
    /\ LET left == {queue[i] : i \in DOMAIN queue}
       IN  replies' = [r \in Request |-> replies[r] + (IF r \in left THEN 1 ELSE 0)]
    /\ alive' = FALSE /\ queue' = <<>>
    /\ main' = "stopLoop"
    /\ UNCHANGED <<schedule, running, numThreads, accepting, callback, loop, work, item,
                   waiting, late, begun, failed>>

(* ... and the event loop gets two seconds for the replies, after which it *)
(* is broken off.                                                          *)
StopLoop ==
    /\ main = "stopLoop" /\ callback = Nothing
    /\ loop' = FALSE
    /\ main' = "leave"
    /\ UNCHANGED <<schedule, alive, running, queue, numThreads, accepting, callback, work,
                   item, replies, waiting, late, begun, failed>>

(* The rest of Shutdown, and ~CScheduler.                                  *)
LeaveAppInit ==
    /\ main = "leave"
    /\ main' = "done"
    /\ UNCHANGED <<schedule, server, failed>>

Main ==
    \/ RejectRequests \/ InterruptQueue \/ InterruptThreads \/ JoinAll
    \/ WaitExit \/ DeleteQueue \/ StopLoop \/ LeaveAppInit

Next ==
    \/ Main \/ LoadFails \/ ShutdownRequested \/ \E k \in Task : StartNode(k)
    \/ (Tick \/ \E t \in ServiceThread : Serve(t)) /\ UNCHANGED <<server, main, failed>>
    \/ (HttpThread \/ \E w \in Worker : Work(w)) /\ UNCHANGED <<schedule, main, failed>>

Spec == Init /\ [][Next]_vars

(* Threads that can go on do; nothing makes the node stop, the clock or a  *)
(* client go on.                                                           *)
FairSpec ==
    /\ Spec
    /\ WF_vars(Main)
    /\ WF_vars(HttpThread /\ UNCHANGED <<schedule, main, failed>>)
    /\ \A t \in ServiceThread : WF_vars(Serve(t) /\ UNCHANGED <<server, main, failed>>)
    /\ \A w \in Worker : WF_vars(Work(w) /\ UNCHANGED <<schedule, main, failed>>)

-----------------------------------------------------------------------------
(* Properties.                                                             *)

(* "Call func at/after time t" (scheduler.h:43): one thread in             *)
(* serviceQueue, and there is only one, never runs a task before its time, *)
(* whatever wakes it.                                                      *)
NeverEarly ==
    [][\A k \in Task : due[k] # NotQueued /\ due'[k] = NotQueued => due[k] <= now]_vars

(* "Precondition: worker threads have all stopped (call WaitExit)"         *)
(* (httpserver.cpp:109), and "Must be done after thread is                 *)
(* interrupted/joined" (scheduler.h:34): nobody works with the queue or    *)
(* the scheduler when they are destroyed.  Exempt are workers that had not *)
(* begun when the queue was interrupted (a thread counts itself, when it   *)
(* runs, and WaitExit can only wait for what is counted), and a service    *)
(* thread that is not joined because AppInit2 failed.                      *)
NobodyLeftBehind ==
    /\ ~ alive => \A w \in begun : work[w] = "gone"
    /\ main = "done" /\ ~ failed => /\ \A t \in ServiceThread : service[t] = "gone"
                                    /\ nThreads = 0

(* Every request the server took gets one reply and not more, whether it   *)
(* was run, refused, or still queued when the node stopped.                *)
AnsweredOnce ==
    /\ \A r \in Request : replies[r] <= 1 /\ (r \in Held => replies[r] = 0)
    /\ main = "done" => \A r \in Request \ late : r \notin Held

(* A request that was taken is answered, unless it came to a deleted       *)
(* queue; and a node that is to stop stops.                                *)
EverythingEnds ==
    /\ \A r \in Request : r \in Held ~> replies[r] > 0 \/ r \in late
    /\ main = "interrupt" ~> main = "done"

-----------------------------------------------------------------------------
(* The inductive invariant behind NobodyLeftBehind and AnsweredOnce, and    *)
(* the one behind NeverEarly.                                               *)

(* The order of the main thread's steps.                                    *)
AfterInterrupt == {"interruptThreads", "join", "waitExit", "delete", "stopLoop", "leave", "done"}
AfterJoin == {"waitExit", "delete", "stopLoop", "leave", "done"}
AfterExit == {"delete", "stopLoop", "leave", "done"}
AfterDelete == {"stopLoop", "leave", "done"}
AfterLoop == {"leave", "done"}

TypeOK ==
    /\ now \in Nat /\ due \in [Task -> Nat \union {NotQueued}]
    /\ service \in [ServiceThread ->
          {"starting", "test", "wait", "wait_until", "late", "running", "gone"}]
    /\ deadline \in [ServiceThread -> Nat]
    /\ task \in [ServiceThread -> Task \union {NoTask}]
    /\ \A t \in ServiceThread : service[t] = "running" => task[t] \in Task
    /\ nThreads \in Nat /\ interrupted \in BOOLEAN
    /\ alive \in BOOLEAN /\ running \in BOOLEAN /\ accepting \in BOOLEAN
    /\ loop \in BOOLEAN /\ waiting \in BOOLEAN /\ failed \in BOOLEAN
    /\ queue \in Seq(Request) /\ numThreads \in Nat
    /\ callback \in Request \union {Nothing}
    /\ work \in [Worker ->
          {"starting", "test", "lock", "wait", "working", "leaving", "gone"}]
    /\ item \in [Worker -> Request \union {Nothing}]
    /\ replies \in [Request -> Nat]
    /\ late \in SUBSET Request /\ begun \in SUBSET Worker
    /\ main \in {"loading", "interrupt", "interruptQueue"} \union AfterInterrupt

(* The two counters count the threads between their start and their end.    *)
CountsExact ==
    /\ nThreads = Cardinality({t \in ServiceThread : service[t] \notin {"starting", "gone"}})
    /\ numThreads = Cardinality({w \in Worker : work[w] \notin {"starting", "gone"}})

(* What the main thread has done by where it is.                            *)
StagesReached ==
    /\ main \in AfterInterrupt => ~ running
    /\ main \in AfterJoin /\ ~ failed => \A t \in ServiceThread : service[t] = "gone"
    /\ main \in AfterExit => \A w \in begun : work[w] = "gone"
    /\ ~ alive <=> main \in AfterDelete
    /\ main \in AfterDelete => queue = <<>>
    /\ main \in AfterLoop => ~ loop /\ callback = Nothing

(* The workers the main thread has to wait for, and what they hold.         *)
WorkersSound ==
    /\ \A w \in begun : work[w] # "starting"
    /\ \A w \in Worker : item[w] # Nothing <=> work[w] = "working"
    /\ ~ running => \A w \in Worker : work[w] = "working" => w \in begun

(* A request is in one place, and unanswered as long as it is there.        *)
HeldOnce ==
    /\ \A i, j \in DOMAIN queue : i # j => queue[i] # queue[j]
    /\ \A i \in DOMAIN queue : queue[i] # callback /\ \A w \in Worker : queue[i] # item[w]
    /\ \A v, w \in Worker : item[w] # Nothing => item[w] # callback /\ (v # w => item[v] # item[w])
    /\ \A r \in Request : replies[r] <= 1 /\ (r \in Held => replies[r] = 0)

IInv == TypeOK /\ CountsExact /\ StagesReached /\ WorkersSound /\ HeldOnce

(* A thread that is about to take a task has one whose time has come.       *)
TimeHasCome ==
    \A t \in ServiceThread :
        /\ service[t] = "wait_until" => \E k \in Queued : due[k] <= deadline[t]
        /\ service[t] = "late" => \E k \in Queued : due[k] <= now
=============================================================================
