----------------------------- MODULE WorkQueue -----------------------------
(***************************************************************************)
(* The HTTP server (src/src/httpserver.cpp): the event loop's thread,      *)
(* which takes requests and sends replies, the work queue, and the worker  *)
(* threads that run requests.  What the main thread does to them when the  *)
(* node stops is in NodeShutdown.                                          *)
(***************************************************************************)
EXTENDS Naturals, FiniteSets, Sequences

CONSTANTS
    Worker,      \* threads in HTTPWorkQueueRun
    Request,     \* HTTP requests, numbered in the order they arrive in
    MaxDepth,    \* -rpcworkqueue
    Nothing

ASSUME WorkQueueAssumption ==
    /\ IsFiniteSet(Worker) /\ Request \subseteq Nat
    /\ MaxDepth \in Nat \ {0}
    /\ Nothing \notin Request

VARIABLES
    alive,       \* workQueue has not been deleted
    running, queue, numThreads,   \* its members
    accepting,   \* requests go to http_request_cb, not to http_reject_request_cb
    callback,    \* the request http_request_cb is working on
    loop,        \* the event loop runs
    work,        \* where a worker is: "starting", at the "test" of running, at the
                 \* "lock", in "wait", "working", "leaving", "gone"
    item,        \* the request a worker took
    replies,     \* replies made to a request
    waiting,     \* the main thread waits in WaitExit
    late,        \* history: requests handed to the queue after it was deleted
    begun        \* history: workers that had counted themselves when the queue was
                 \* interrupted

server == <<alive, running, queue, numThreads, accepting, callback, loop,
            work, item, replies, waiting, late, begun>>

WorkQueueInit ==
    /\ alive = TRUE /\ running = TRUE /\ queue = <<>> /\ numThreads = 0
    /\ accepting = TRUE /\ callback = Nothing /\ loop = TRUE
    /\ work = [w \in Worker |-> "starting"]
    /\ item = [w \in Worker |-> Nothing]
    /\ replies = [r \in Request |-> 0]
    /\ waiting = FALSE
    /\ late = {} /\ begun = {}

-----------------------------------------------------------------------------
(* The thread of the event loop.                                           *)

Held == {queue[i] : i \in DOMAIN queue} \union {item[w] : w \in Worker} \union {callback}
New == {r \in Request : replies[r] = 0 /\ r \notin Held /\ r \notin late}
Arrives(r) == r \in New /\ \A q \in New : r <= q
LoopFree == loop /\ callback = Nothing

(* The event loop sends what WriteReply triggers.                          *)
WriteReply(r) == replies' = [replies EXCEPT ![r] = @ + 1]

Receive(r) ==
    /\ LoopFree /\ accepting /\ Arrives(r)
    /\ callback' = r
    /\ UNCHANGED <<alive, running, queue, numThreads, accepting, loop, work, item,
                   replies, waiting, late, begun>>

(* http_reject_request_cb answers on the spot.                             *)
Reject(r) ==
    /\ LoopFree /\ ~ accepting /\ Arrives(r)
    /\ WriteReply(r)
    /\ UNCHANGED <<alive, running, queue, numThreads, accepting, callback, loop, work,
                   item, waiting, late, begun>>

Waiters == {w \in Worker : work[w] = "wait"}

(* Enqueue, and notify_one: a worker, or the main thread in WaitExit.      *)
Enqueue ==
    /\ callback # Nothing /\ alive
    /\ Len(queue) < MaxDepth
    /\ queue' = Append(queue, callback)
    /\ callback' = Nothing
    /\ \/ /\ Waiters = {} /\ ~ waiting
          /\ UNCHANGED <<work, waiting>>
       \/ \E w \in Waiters : work' = [work EXCEPT ![w] = "lock"] /\ UNCHANGED waiting
       \/ waiting /\ waiting' = FALSE /\ UNCHANGED work
    /\ UNCHANGED <<alive, running, numThreads, accepting, loop, item, replies, late, begun>>

(* "Work queue depth exceeded".                                            *)
Refuse ==
    /\ callback # Nothing /\ alive
    /\ Len(queue) >= MaxDepth
    /\ WriteReply(callback)
    /\ callback' = Nothing
    /\ UNCHANGED <<alive, running, queue, numThreads, accepting, loop, work, item, waiting, late, begun>>

(* The pointer is not reset when the queue is deleted: the request is put  *)
(* where nobody will find it.                                              *)
EnqueueLate ==
    /\ callback # Nothing /\ ~ alive
    /\ late' = late \union {callback}
    /\ callback' = Nothing
    /\ UNCHANGED <<alive, running, queue, numThreads, accepting, loop, work, item, replies, waiting, begun>>

-----------------------------------------------------------------------------
(* A worker thread, in Run.                                                *)

(* ThreadCounter, as long as there is a queue to count in.                 *)
StartWorker(w) ==
    /\ work[w] = "starting" /\ alive
    /\ work' = [work EXCEPT ![w] = "test"]
    /\ numThreads' = numThreads + 1
    /\ UNCHANGED <<alive, running, queue, accepting, callback, loop, item, replies, waiting, late, begun>>

(* "while (running)" is read without the lock, so an old TRUE may be seen; *)
(* the lock shows the new value.                                           *)
TestRunning(w) ==
    /\ work[w] = "test"
    /\ \/ work' = [work EXCEPT ![w] = "lock"]
       \/ ~ running /\ work' = [work EXCEPT ![w] = "leaving"]
    /\ UNCHANGED <<alive, running, queue, numThreads, accepting, callback, loop, item,
                   replies, waiting, late, begun>>

(* Bug: the request is taken off the queue later than it is read.          *)
TakeItemKept(w) ==
    /\ work[w] = "lock"
    /\ \/ /\ ~ running
          /\ work' = [work EXCEPT ![w] = "leaving"]
          /\ UNCHANGED item
       \/ /\ running /\ queue = <<>>
          /\ work' = [work EXCEPT ![w] = "wait"]
          /\ UNCHANGED item
       \/ /\ running /\ queue # <<>>
          /\ work' = [work EXCEPT ![w] = "working"]
          /\ item' = [item EXCEPT ![w] = Head(queue)]
    /\ UNCHANGED <<alive, running, queue, numThreads, accepting, callback, loop, replies,
                   waiting, late, begun>>

TakeItem(w) ==
    /\ work[w] = "lock"
    /\ \/ /\ ~ running
          /\ work' = [work EXCEPT ![w] = "leaving"]
          /\ UNCHANGED <<queue, item>>
       \/ /\ running /\ queue = <<>>
          /\ work' = [work EXCEPT ![w] = "wait"]
          /\ UNCHANGED <<queue, item>>
       \/ /\ running /\ queue # <<>>
          /\ work' = [work EXCEPT ![w] = "working"]
          /\ item' = [item EXCEPT ![w] = Head(queue)]
          /\ queue' = Tail(queue)
    /\ UNCHANGED <<alive, running, numThreads, accepting, callback, loop, replies,
                   waiting, late, begun>>

(* The handler replies, and the item is deleted.                           *)
RunItem(w) ==
    /\ work[w] = "working"
    /\ WriteReply(item[w])
    /\ item' = [item EXCEPT ![w] = Nothing]
    /\ work' = [work EXCEPT ![w] = "test"]
    /\ UNCHANGED <<alive, running, queue, numThreads, accepting, callback, loop, waiting, late, begun>>

(* Bug: the counter is taken down without telling anyone.                  *)
LeaveQuietly(w) ==
    /\ work[w] = "leaving"
    /\ numThreads' = numThreads - 1
    /\ work' = [work EXCEPT ![w] = "gone"]
    /\ UNCHANGED <<alive, running, queue, accepting, callback, loop, item, replies,
                   waiting, late, begun>>

Woken(s) == [w \in Worker |-> IF s[w] = "wait" THEN "lock" ELSE s[w]]

(* ~ThreadCounter, with its notify_all.                                    *)
Leave(w) ==
    /\ work[w] = "leaving"
    /\ numThreads' = numThreads - 1
    /\ work' = Woken([work EXCEPT ![w] = "gone"])
    /\ waiting' = FALSE
    /\ UNCHANGED <<alive, running, queue, accepting, callback, loop, item, replies, late, begun>>

Work(w) == StartWorker(w) \/ TestRunning(w) \/ TakeItem(w) \/ RunItem(w) \/ Leave(w)

HttpThread ==
    Enqueue \/ Refuse \/ EnqueueLate \/ \E r \in Request : Receive(r) \/ Reject(r)
=============================================================================
