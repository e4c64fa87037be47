----------------------------- MODULE Scheduler -----------------------------
(***************************************************************************)
(* CScheduler (src/src/scheduler.cpp) as the node uses it: tasks that      *)
(* repeat, the threads in serviceQueue, and their interruption by          *)
(* boost::thread_group.  Everything but the waits and the tasks happens    *)
(* under newTaskMutex, so an action is what a thread does between two      *)
(* times it gives it away.                                                 *)
(***************************************************************************)
EXTENDS Naturals, FiniteSets

CONSTANTS
    ServiceThread,   \* threads that run serviceQueue
    Task,            \* tasks given to scheduleEvery
    Period,          \* deltaSeconds of each
    MaxTime,         \* bound: the clock stops here
    NotQueued,
    NoTask

ASSUME SchedulerAssumption ==
    /\ IsFiniteSet(ServiceThread) /\ IsFiniteSet(Task)
    /\ Period \in [Task -> Nat \ {0}]
    /\ MaxTime \in Nat
    /\ NotQueued \notin Nat /\ NoTask \notin Task

VARIABLES
    now,
    due,             \* taskQueue: when a task is to run, or NotQueued
    service,         \* where a thread is: "starting", at the loop "test", in "wait",
                     \* in "wait_until", "late" (it timed out), "running", "gone"
    deadline,        \* the time a thread in wait_until waits for
    task,            \* the task a running thread took
    nThreads,        \* nThreadsServicingQueue
    interrupted      \* thread_group::interrupt_all was called

schedule == <<now, due, service, deadline, task, nThreads, interrupted>>

Queued == {k \in Task : due[k] # NotQueued}
First == {k \in Queued : \A j \in Queued : due[k] <= due[j]}

SchedulerInit ==
    /\ now = 0
    /\ due = [k \in Task |-> NotQueued]
    /\ service = [t \in ServiceThread |-> "starting"]
    /\ deadline = [t \in ServiceThread |-> 0]
    /\ task = [t \in ServiceThread |-> NoTask]
    /\ nThreads = 0
    /\ interrupted = FALSE

Sleeping == {t \in ServiceThread : service[t] \in {"wait", "wait_until"}}

(* newTaskScheduled.notify_one(): the thread goes back to the while it     *)
(* waits in, which does what the loop does.                                *)
NotifyOne(s) ==
    IF Sleeping = {} THEN service' = s
    ELSE \E t \in Sleeping : service' = [s EXCEPT ![t] = "test"]

(* scheduleEvery.                                                          *)
ScheduleEvery(k) ==
    /\ due' = [due EXCEPT ![k] = now + Period[k]]
    /\ NotifyOne(service)
    /\ UNCHANGED <<now, deadline, task, nThreads, interrupted>>

(* Once the waits are interrupted, the time does not matter any more.      *)
Tick ==
    /\ now < MaxTime /\ ~ interrupted
    /\ now' = now + 1
    /\ UNCHANGED <<due, service, deadline, task, nThreads, interrupted>>

StartService(t) ==
    /\ service[t] = "starting"
    /\ service' = [service EXCEPT ![t] = "test"]
    /\ nThreads' = nThreads + 1
    /\ UNCHANGED <<now, due, deadline, task, interrupted>>

(* Wait until there is something to do, or until the first task's time.    *)
LoopTest(t) ==
    /\ service[t] = "test" /\ ~ interrupted
    /\ IF Queued = {}
       THEN /\ service' = [service EXCEPT ![t] = "wait"]
            /\ UNCHANGED deadline
       ELSE \E k \in First :
            /\ service' = [service EXCEPT ![t] = "wait_until"]
            /\ deadline' = [deadline EXCEPT ![t] = due[k]]
    /\ UNCHANGED <<now, due, task, nThreads, interrupted>>

(* Bug: any return of wait_until counts as a timeout (no inner loop).      *)
TimeOutOnWake(t) ==
    /\ service[t] = "wait_until"
    /\ service' = [service EXCEPT ![t] = "late"]
    /\ deadline' = [deadline EXCEPT ![t] = 0]
    /\ UNCHANGED <<now, due, task, nThreads, interrupted>>

(* wait_until times out; the thread still has to get newTaskMutex back.    *)
TimeOut(t) ==
    /\ service[t] = "wait_until" /\ deadline[t] <= now
    /\ service' = [service EXCEPT ![t] = "late"]
    /\ deadline' = [deadline EXCEPT ![t] = 0]
    /\ UNCHANGED <<now, due, task, nThreads, interrupted>>

(* It has it, and takes whatever is first.                                 *)
TakeTask(t) ==
    /\ service[t] = "late"
    /\ \/ /\ Queued = {}
          /\ service' = [service EXCEPT ![t] = "test"]
          /\ UNCHANGED <<due, task>>
       \/ \E k \in First :
          /\ due' = [due EXCEPT ![k] = NotQueued]
          /\ task' = [task EXCEPT ![t] = k]
          /\ service' = [service EXCEPT ![t] = "running"]
    /\ UNCHANGED <<now, deadline, nThreads, interrupted>>

(* Repeat: the task is done, and scheduled again.                          *)
FinishTask(t) ==
    /\ service[t] = "running"
    /\ due' = [due EXCEPT ![task[t]] = now + Period[task[t]]]
    /\ task' = [task EXCEPT ![t] = NoTask]
    /\ NotifyOne([service EXCEPT ![t] = "test"])
    /\ UNCHANGED <<now, deadline, nThreads, interrupted>>

(* The waits, from the moment they are entered, and any in the task, are   *)
(* interruption points: the catch takes the thread off the count and       *)
(* throws on.                                                              *)
BeInterrupted(t) ==
    /\ interrupted
    /\ service[t] \in {"test", "wait", "wait_until", "late", "running"}
    /\ service' = [service EXCEPT ![t] = "gone"]
    /\ deadline' = [deadline EXCEPT ![t] = 0] /\ task' = [task EXCEPT ![t] = NoTask]
    /\ nThreads' = nThreads - 1
    /\ UNCHANGED <<now, due, interrupted>>

Serve(t) ==
    \/ StartService(t) \/ LoopTest(t) \/ TimeOut(t) \/ TakeTask(t)
    \/ FinishTask(t) \/ BeInterrupted(t)
=============================================================================
