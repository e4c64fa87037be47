----------------------------- MODULE CheckQueue -----------------------------
(***************************************************************************)
(* CCheckQueue of src/src/checkqueue.h: the script checks of a block are   *)
(* spread over worker threads, and the thread in ConnectBlock, the master, *)
(* helps and then waits for the verdict.  Every step below is one hold of  *)
(* the queue's mutex.  ConnectBlock runs under cs_main, so there is one    *)
(* master at a time.                                                       *)
(***************************************************************************)
EXTENDS Integers, FiniteSets

CONSTANTS
    Worker,      \* threads in ThreadScriptCheck
    Master,      \* the thread in ConnectBlock
    Check,       \* script checks
    nBatchSize,  \* most checks one thread takes at once
    MaxRounds    \* bound on the blocks connected

Thread == Worker \union {Master}

ASSUME CheckQueueAssumption ==
    /\ IsFiniteSet(Worker) /\ IsFiniteSet(Check)
    /\ Master \notin Worker
    /\ nBatchSize \in Nat \ {0}
    /\ MaxRounds \in Nat

VARIABLES
    queue,        \* checks no thread has taken yet; any order will do
    nIdle, nTotal, fAllOk, nTodo,
    pc,           \* where each thread is
    batch,        \* vChecks of each thread
    fOk,          \* fOk of each thread
    interrupted,  \* threads that interrupt_all has thrown out of a wait
    good,         \* checks of this block that succeed
    added,        \* history: checks added for this block
    ran,          \* history: checks of it that ran and succeeded
    result,       \* what Wait returned for the last block
    rounds        \* blocks so far

counters == <<nIdle, nTotal, fAllOk, nTodo>>
local    == <<batch, fOk, interrupted>>
round    == <<good, added, ran, result, rounds>>
vars     == <<queue, counters, pc, local, round>>

Init ==
    /\ queue = {}
    /\ nIdle = 0 /\ nTotal = 0 /\ fAllOk = TRUE /\ nTodo = 0
    /\ pc = [t \in Thread |-> IF t = Master THEN "outside" ELSE "enter"]
    /\ batch = [t \in Thread |-> {}]
    /\ fOk = [t \in Thread |-> TRUE]
    /\ interrupted = {}
    /\ good = {} /\ added = {} /\ ran = {} /\ result = TRUE /\ rounds = 0

-----------------------------------------------------------------------------
(* The master outside Loop *)

(* CCheckQueueControl is created, for a block of which only some checks    *)
(* succeed.                                                                *)
NewBlock ==
    /\ pc[Master] = "outside"
    /\ rounds < MaxRounds
    /\ rounds' = rounds + 1
    /\ good' \in SUBSET Check
    /\ added' = {} /\ ran' = {}
    /\ pc' = [pc EXCEPT ![Master] = "adding"]
    /\ UNCHANGED <<queue, counters, local, result>>

(* condWorker.notify_one() or notify_all().                                *)
Sleeping == {w \in Worker : pc[w] = "waiting"}
WokenFor(S) ==
    IF S = {} \/ Sleeping = {} THEN {{}}
    ELSE IF Cardinality(S) = 1 THEN {{w} : w \in Sleeping}
    ELSE {Sleeping}

(* The checks of one transaction are added.                                *)
Add(S) ==
    /\ pc[Master] = "adding"
    /\ S \cap added = {}
    /\ queue' = queue \union S
    /\ nTodo' = nTodo + Cardinality(S)
    /\ added' = added \union S
    /\ \E W \in WokenFor(S) :
          pc' = [t \in Thread |-> IF t \in W THEN "woken" ELSE pc[t]]
    /\ UNCHANGED <<nIdle, nTotal, fAllOk, local, good, ran, result, rounds>>

(* Wait(), called by ConnectBlock or by the destructor of the control when *)
(* ConnectBlock gives up early.                                            *)
Wait ==
    /\ pc[Master] = "adding"
    /\ pc' = [pc EXCEPT ![Master] = "enter"]
    /\ UNCHANGED <<queue, counters, local, round>>

-----------------------------------------------------------------------------
(* Loop *)

(* A thread comes to the critical section of Loop: for the first time, out *)
(* of a wait, or with a batch done.  The counters as it then leaves them.  *)
AtSection(t) == pc[t] \in {"enter", "woken", "checked"}
Done(t) == IF pc[t] = "checked" THEN batch[t] ELSE {}

TotalAt(t) == IF pc[t] = "enter" THEN nTotal + 1 ELSE nTotal

(* Bug: nIdle is not taken back after the wait.                            *)
IdleKept(t) == nIdle
IdleAt(t) == IF pc[t] = "woken" THEN nIdle - 1 ELSE nIdle

(* Bug: one check is counted as done whenever a thread comes by.           *)
TodoAtLeastOne(t) == nTodo - (IF Done(t) = {} THEN 1 ELSE Cardinality(Done(t)))
TodoAt(t) == nTodo - Cardinality(Done(t))

(* Bug: the verdict of the batch replaces the others.                      *)
LastOk(t) == IF pc[t] = "checked" THEN fOk[t] ELSE fAllOk
AllOkAt(t) == fAllOk /\ (pc[t] = "checked" => fOk[t])

(* Bug: the master is not told.                                            *)
NobodyNotified(t) == pc

(* The worker that did the last check notifies the master.                 *)
Notified(t) ==
    IF Done(t) # {} /\ TodoAt(t) = 0 /\ t # Master /\ pc[Master] = "waiting"
    THEN [pc EXCEPT ![Master] = "woken"] ELSE pc

(* nNow; the division spreads what is left over the threads.               *)
BatchSize(t) ==
    LET share == Cardinality(queue) \div (TotalAt(t) + IdleAt(t) + 1)
    IN  IF share = 0 THEN 1 ELSE IF share > nBatchSize THEN nBatchSize ELSE share

Take(t) ==
    /\ AtSection(t)
    /\ queue # {}
    /\ nTotal' = TotalAt(t) /\ nIdle' = IdleAt(t)
    /\ nTodo' = TodoAt(t) /\ fAllOk' = AllOkAt(t)
    /\ \E S \in SUBSET queue :
          /\ Cardinality(S) = BatchSize(t)
          /\ batch' = [batch EXCEPT ![t] = S]
          /\ queue' = queue \ S
    /\ fOk' = [fOk EXCEPT ![t] = AllOkAt(t)]
    /\ pc' = [Notified(t) EXCEPT ![t] = "checking"]
    /\ UNCHANGED <<interrupted, round>>

Sleep(t) ==
    /\ AtSection(t)
    /\ queue = {} /\ ~ (t = Master /\ TodoAt(t) = 0)
    /\ nTotal' = TotalAt(t) /\ nIdle' = IdleAt(t) + 1
    /\ nTodo' = TodoAt(t) /\ fAllOk' = AllOkAt(t)
    /\ batch' = [batch EXCEPT ![t] = {}]
    /\ pc' = [Notified(t) EXCEPT ![t] = "waiting"]
    /\ UNCHANGED <<queue, fOk, interrupted, round>>

(* Bugs: the master leaves while others still check; it does not reset the *)
(* verdict.                                                                *)
ReturnOnEmptyQueue ==
    /\ AtSection(Master)
    /\ queue = {}
    /\ nTotal' = TotalAt(Master) - 1 /\ nIdle' = IdleAt(Master)
    /\ nTodo' = TodoAt(Master) /\ fAllOk' = TRUE
    /\ result' = AllOkAt(Master)
    /\ batch' = [batch EXCEPT ![Master] = {}]
    /\ pc' = [pc EXCEPT ![Master] = "outside"]
    /\ UNCHANGED <<queue, fOk, interrupted, good, added, ran, rounds>>

ReturnKeepsFailure ==
    /\ AtSection(Master)
    /\ queue = {} /\ TodoAt(Master) = 0
    /\ nTotal' = TotalAt(Master) - 1 /\ nIdle' = IdleAt(Master)
    /\ nTodo' = 0 /\ fAllOk' = AllOkAt(Master)
    /\ result' = AllOkAt(Master)
    /\ batch' = [batch EXCEPT ![Master] = {}]
    /\ pc' = [pc EXCEPT ![Master] = "outside"]
    /\ UNCHANGED <<queue, fOk, interrupted, good, added, ran, rounds>>

(* The master has the verdict; fQuit is never set, so no worker gets here. *)
Return ==
    /\ AtSection(Master)
    /\ queue = {} /\ TodoAt(Master) = 0
    /\ nTotal' = TotalAt(Master) - 1 /\ nIdle' = IdleAt(Master)
    /\ nTodo' = 0 /\ fAllOk' = TRUE
    /\ result' = AllOkAt(Master)
    /\ batch' = [batch EXCEPT ![Master] = {}]
    /\ pc' = [pc EXCEPT ![Master] = "outside"]
    /\ UNCHANGED <<queue, fOk, interrupted, good, added, ran, rounds>>

(* The batch is executed outside the mutex; after a failure the rest is    *)
(* skipped.                                                                *)
Execute(t) ==
    /\ pc[t] = "checking"
    /\ fOk' = [fOk EXCEPT ![t] = @ /\ batch[t] \subseteq good]
    /\ ran' = IF fOk'[t] THEN ran \union batch[t] ELSE ran
    /\ pc' = [pc EXCEPT ![t] = "checked"]
    /\ UNCHANGED <<queue, counters, batch, interrupted, good, added, result, rounds>>

(* A condition variable may wake without being notified.                   *)
SpuriousWake(t) ==
    /\ pc[t] = "waiting"
    /\ pc' = [pc EXCEPT ![t] = "woken"]
    /\ UNCHANGED <<queue, counters, local, round>>

(* interrupt_all at shutdown: the wait throws, even in a thread that has   *)
(* been notified.  A worker ends; the master leaves ConnectBlock, and the  *)
(* destructor of the control enters Loop once more.  Neither takes back    *)
(* its share of nIdle and nTotal.                                          *)
Interrupt(t) ==
    /\ pc[t] \in {"waiting", "woken"} /\ t \notin interrupted
    /\ interrupted' = interrupted \union {t}
    /\ pc' = [pc EXCEPT ![t] = IF t = Master THEN "enter" ELSE "gone"]
    /\ UNCHANGED <<queue, counters, batch, fOk, round>>

InLoop(t) == Take(t) \/ Sleep(t) \/ Execute(t)

Next ==
    \/ NewBlock \/ Wait \/ Return
    \/ \E S \in SUBSET Check : Add(S)
    \/ \E t \in Thread : InLoop(t) \/ SpuriousWake(t) \/ Interrupt(t)

Spec == Init /\ [][Next]_vars

(* The mutex is free between sections and a check comes to an end: no      *)
(* thread in Loop stands still for ever.  ConnectBlock adds what it has    *)
(* and then waits.                                                         *)
FairSpec ==
    /\ Spec
    /\ \A w \in Worker : WF_vars(InLoop(w))
    /\ WF_vars(InLoop(Master) \/ Return)
    /\ WF_vars(Wait)

-----------------------------------------------------------------------------
(* Properties *)

Labels == {"outside", "adding", "enter", "waiting", "woken", "checking", "checked", "gone"}

(* Types of the variables; nTodo is unsigned and must not pass below 0.    *)
TypeOK ==
    /\ queue \in SUBSET Check
    /\ nIdle \in Nat /\ nTotal \in Nat /\ fAllOk \in BOOLEAN /\ nTodo \in Nat
    /\ pc \in [Thread -> Labels]
    /\ batch \in [Thread -> SUBSET Check] /\ fOk \in [Thread -> BOOLEAN]
    /\ interrupted \in SUBSET Thread
    /\ good \in SUBSET Check /\ added \in SUBSET Check /\ ran \in SUBSET Check
    /\ result \in BOOLEAN /\ rounds \in 0 .. MaxRounds

(* The assertion of CCheckQueueControl (checkqueue.h:183-190): whenever    *)
(* ConnectBlock may begin a new block, IsIdle() holds, whatever threads    *)
(* came late, woke for nothing or were interrupted.                        *)
IdleBetweenBlocks ==
    pc[Master] = "outside" => nTotal = nIdle /\ nTodo = 0 /\ fAllOk

(* Wait answers TRUE exactly when every check that was added succeeds.     *)
VerdictExact ==
    pc[Master] = "outside" /\ rounds > 0 => (result <=> added \subseteq good)

(* A block is not called good before every check of it has run.            *)
GoodMeansChecked ==
    pc[Master] = "outside" /\ rounds > 0 /\ result => ran = added

AnswerExact == VerdictExact /\ GoodMeansChecked

(* Wait returns, even when workers sleep, come late or are gone.           *)
WaitReturns ==
    (pc[Master] \notin {"outside", "adding"}) ~> pc[Master] = "outside"
=============================================================================
