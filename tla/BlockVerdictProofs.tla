------------------------- MODULE BlockVerdictProofs -------------------------
(* Proofs about the two verdicts that ConnectBlock takes from elsewhere and *)
(* does not compute from the block and its coins alone.                     *)
(*                                                                          *)
(* First CheckQueue: the verdict of Wait is exact and the queue is idle     *)
(* between blocks, for every number of workers, every batch size and every  *)
(* number of checks.  Then PoAAudit: the audit accepts what the miner makes *)
(* and lets no block be audited twice, for every tree of blocks, every      *)
(* choice of lists and every order in which the node hears of them.         *)
EXTENDS CheckQueue, PoAAudit, BlockTreeTheorems

-----------------------------------------------------------------------------
(* The script checks                                                        *)

USE CheckQueueAssumption

Idling  == {t \in Thread : pc[t] \in {"waiting", "woken"}}
Working == {t \in Thread : pc[t] \in {"checking", "checked"}}

(* The checks that nTodo counts: queued or in the batch of a thread.       *)
Outstanding == {c \in Check : c \in queue \/ \E t \in Thread : c \in batch[t]}

(* An interrupted wait leaves its share of nIdle and of nTotal behind.     *)
CountersExact ==
    /\ nIdle = Cardinality(Idling) + Cardinality(interrupted)
    /\ nTotal = nIdle + Cardinality(Working)
    /\ nTodo = Cardinality(Outstanding)

ChecksOwned ==
    /\ \A t \in Thread : batch[t] \intersect queue = {}
    /\ \A t, u \in Thread : t # u => batch[t] \intersect batch[u] = {}
    /\ \A t \in Thread : batch[t] # {} <=> t \in Working
    /\ Outstanding \subseteq added
    /\ ran \subseteq added

(* No failure is claimed without one, and no success.                      *)
FailuresReal ==
    /\ ~ fAllOk => ~ (added \subseteq good)
    /\ \A t \in Working : ~ fOk[t] => ~ (added \subseteq good)

SuccessesReal ==
    /\ fAllOk /\ pc[Master] # "outside" =>
          added \ Outstanding \subseteq good \intersect ran
    /\ \A t \in Working :
          pc[t] = "checked" /\ fOk[t] => batch[t] \subseteq good \intersect ran

OutsideIsIdle == pc[Master] = "outside" => Outstanding = {} /\ fAllOk

LabelsApart == \A t \in Thread :
    IF t = Master THEN pc[t] # "gone" ELSE pc[t] \notin {"outside", "adding"}

(* The types of TypeOK but for the counters, which CountersExact gives.    *)
TypesOfData ==
    /\ queue \in SUBSET Check /\ fAllOk \in BOOLEAN
    /\ pc \in [Thread -> Labels]
    /\ batch \in [Thread -> SUBSET Check] /\ fOk \in [Thread -> BOOLEAN]
    /\ interrupted \in SUBSET Thread
    /\ good \in SUBSET Check /\ added \in SUBSET Check /\ ran \in SUBSET Check
    /\ result \in BOOLEAN /\ rounds \in 0 .. MaxRounds

IInv ==
    /\ TypesOfData
    /\ CountersExact
    /\ ChecksOwned
    /\ FailuresReal
    /\ SuccessesReal
    /\ OutsideIsIdle
    /\ LabelsApart
    /\ VerdictExact
    /\ GoodMeansChecked

-----------------------------------------------------------------------------
(* Sets of threads and checks are finite.                                   *)
LEMMA Finite ==
  /\ IsFiniteSet(Thread)
  /\ \A S \in SUBSET Thread : IsFiniteSet(S) /\ Cardinality(S) \in Nat
  /\ \A S \in SUBSET Check : IsFiniteSet(S) /\ Cardinality(S) \in Nat
<1>1. IsFiniteSet(Thread)
  BY FS_AddElement DEF Thread
<1>2. \A S \in SUBSET Thread : IsFiniteSet(S) /\ Cardinality(S) \in Nat
  BY <1>1, FS_Subset, FS_CardinalityType
<1>3. \A S \in SUBSET Check : IsFiniteSet(S) /\ Cardinality(S) \in Nat
  BY FS_Subset, FS_CardinalityType
<1>4. QED
  BY <1>1, <1>2, <1>3

(* Taking one thread out of a set of threads.                               *)
LEMMA CountWithout ==
  ASSUME NEW S \in SUBSET Thread, NEW t
  PROVE  /\ t \in S => Cardinality(S) = Cardinality(S \ {t}) + 1
         /\ t \notin S => Cardinality(S) = Cardinality(S \ {t})
<1>1. IsFiniteSet(S) /\ Cardinality(S) \in Nat
  BY Finite
<1>2. Cardinality(S \ {t}) = IF t \in S THEN Cardinality(S) - 1 ELSE Cardinality(S)
  BY <1>1, FS_RemoveElement, Zenon
<1>3. QED
  BY <1>1, <1>2

(* Putting one in.                                                          *)
LEMMA CountWith ==
  ASSUME NEW S \in SUBSET Thread, NEW t \in Thread, t \notin S
  PROVE  Cardinality(S \union {t}) = Cardinality(S) + 1
<1>1. IsFiniteSet(S)
  BY Finite
<1>2. QED
  BY <1>1, FS_AddElement

(* Types of the derived sets.                                               *)
LEMMA SetsTyped ==
  /\ Idling \in SUBSET Thread /\ Working \in SUBSET Thread
  /\ Outstanding \in SUBSET Check
BY DEF Idling, Working, Outstanding

(* The master's and the workers' counters are numbers.                      *)
LEMMA CountersTyped ==
  ASSUME IInv
  PROVE  nIdle \in Nat /\ nTotal \in Nat /\ nTodo \in Nat
<1>1. interrupted \in SUBSET Thread
  BY DEF IInv, TypesOfData
<1>2. QED
  BY <1>1, SetsTyped, Finite DEF IInv, CountersExact

(* What a thread finds when it comes to the critical section of Loop.       *)
LEMMA AtTheSection ==
  ASSUME IInv, NEW t \in Thread, AtSection(t)
  PROVE  /\ Done(t) = batch[t] /\ Done(t) \subseteq Outstanding
         /\ TodoAt(t) = Cardinality(Outstanding \ Done(t))
         /\ TodoAt(t) = 0 <=> Outstanding = Done(t)
         /\ IdleAt(t) = Cardinality(Idling \ {t}) + Cardinality(interrupted)
         /\ TotalAt(t) = IdleAt(t) + Cardinality(Working \ {t}) + 1
<1> USE DEF IInv
<1>1. Done(t) = batch[t]
  BY DEF AtSection, Done, ChecksOwned, Working
<1>2. Done(t) \subseteq Outstanding /\ Done(t) \in SUBSET Check
  BY <1>1 DEF Outstanding, TypesOfData
<1>3. TodoAt(t) = Cardinality(Outstanding \ Done(t))
  <2>1. IsFiniteSet(Outstanding)
    BY SetsTyped, Finite
  <2>2. Outstanding \intersect Done(t) = Done(t)
    BY <1>2
  <2>3. QED
    BY <2>1, <2>2, FS_Difference DEF TodoAt, CountersExact
<1>4. TodoAt(t) = 0 <=> Outstanding = Done(t)
  <2>1. IsFiniteSet(Outstanding \ Done(t))
    BY SetsTyped, Finite
  <2>2. Cardinality(Outstanding \ Done(t)) = 0 <=> Outstanding \ Done(t) = {}
    BY <2>1, FS_EmptySet
  <2>3. QED
    BY <1>2, <1>3, <2>2
<1>5. /\ Cardinality(Idling) \in Nat /\ Cardinality(Idling \ {t}) \in Nat
      /\ Cardinality(Working) \in Nat /\ Cardinality(Working \ {t}) \in Nat
      /\ Cardinality(interrupted) \in Nat
  BY SetsTyped, Finite DEF TypesOfData
<1>6. IdleAt(t) = Cardinality(Idling \ {t}) + Cardinality(interrupted)
  <2>1. pc[t] = "woken" => t \in Idling
    BY DEF Idling
  <2>2. pc[t] # "woken" => t \notin Idling
    BY DEF Idling, AtSection
  <2>3. QED
    BY <1>5, <2>1, <2>2, CountWithout, SetsTyped DEF IdleAt, CountersExact
<1>7. TotalAt(t) = IdleAt(t) + Cardinality(Working \ {t}) + 1
  <2>1. CASE pc[t] = "enter"
    <3>1. t \notin Working
      BY <2>1 DEF Working
    <3>2. QED
      BY <1>5, <2>1, <3>1, CountWithout, SetsTyped DEF TotalAt, IdleAt, CountersExact
  <2>2. CASE pc[t] = "woken"
    <3>1. t \notin Working
      BY <2>2 DEF Working
    <3>2. QED
      BY <1>5, <2>2, <3>1, CountWithout, SetsTyped DEF TotalAt, IdleAt, CountersExact
  <2>3. CASE pc[t] = "checked"
    <3>1. t \in Working
      BY <2>3 DEF Working
    <3>2. QED
      BY <1>5, <2>3, <3>1, CountWithout, SetsTyped DEF TotalAt, IdleAt, CountersExact
  <2>4. QED
    BY <2>1, <2>2, <2>3 DEF AtSection
<1>8. QED
  BY <1>1, <1>2, <1>3, <1>4, <1>6, <1>7

(* The verdict a thread leaves in the section is that of every check done.  *)
LEMMA VerdictAtTheSection ==
  ASSUME IInv, NEW t \in Thread, AtSection(t)
  PROVE  /\ AllOkAt(t) \in BOOLEAN
         /\ ~ AllOkAt(t) => ~ (added \subseteq good)
         /\ AllOkAt(t) /\ pc[Master] # "outside" =>
               added \ (Outstanding \ Done(t)) \subseteq good \intersect ran
<1>1. AllOkAt(t) \in BOOLEAN
  BY DEF AllOkAt, IInv, TypesOfData
<1>2. pc[t] = "checked" => t \in Working
  BY DEF Working
<1>3. ~ AllOkAt(t) => ~ (added \subseteq good)
  BY <1>2 DEF AllOkAt, IInv, FailuresReal
<1>4. ASSUME AllOkAt(t), pc[Master] # "outside",
             NEW c \in added \ (Outstanding \ Done(t))
      PROVE  c \in good \intersect ran
  <2>1. CASE c \in Done(t)
    <3>1. pc[t] = "checked" /\ c \in batch[t]
      BY <2>1 DEF Done
    <3>2. QED
      BY <3>1, <1>2, <1>4 DEF AllOkAt, IInv, SuccessesReal
  <2>2. CASE c \notin Outstanding
    BY <2>2, <1>4 DEF AllOkAt, IInv, SuccessesReal
  <2>3. QED
    BY <2>1, <2>2, <1>4
<1>5. QED
  BY <1>1, <1>3, <1>4

(* Telling the master does not change who works and who does not.           *)
LEMMA TellingTheMaster ==
  ASSUME IInv, NEW t \in Thread, AtSection(t)
  PROVE  /\ Notified(t) \in [Thread -> Labels]
         /\ Notified(t)[t] = pc[t]
         /\ \A u \in Thread :
              \/ Notified(t)[u] = pc[u]
              \/ pc[u] = "waiting" /\ Notified(t)[u] = "woken"
<1>1. pc \in [Thread -> Labels] /\ Master \in Thread
  BY DEF IInv, TypesOfData, Thread
<1>2. CASE Notified(t) = pc
  BY <1>1, <1>2
<1>3. CASE /\ t # Master /\ pc[Master] = "waiting"
           /\ Notified(t) = [pc EXCEPT ![Master] = "woken"]
  BY <1>1, <1>3 DEF Labels
<1>4. QED
  BY <1>2, <1>3 DEF Notified

-----------------------------------------------------------------------------
(* The steps outside the critical section of Loop                           *)

LEMMA NewBlockPreserves ==
  ASSUME IInv, NewBlock
  PROVE  IInv'
<1> USE DEF IInv, NewBlock, counters, local
<1>1. Master \in Thread
  BY DEF Thread
<1>2. Outstanding = {} /\ fAllOk
  BY DEF OutsideIsIdle
<1>3. TypesOfData'
  BY <1>1 DEF TypesOfData, Labels
<1>4. \A t \in Thread : t # Master => pc'[t] = pc[t]
  BY DEF TypesOfData
<1>5. pc'[Master] = "adding"
  BY <1>1 DEF TypesOfData
<1>6. Idling' = Idling /\ Working' = Working /\ Outstanding' = Outstanding
  BY <1>4, <1>5 DEF Idling, Working, Outstanding
<1>7. Working = {}
  BY <1>2 DEF ChecksOwned, Outstanding, TypesOfData, Working
<1>8. CountersExact'
  BY <1>6 DEF CountersExact
<1>9. ChecksOwned'
  BY <1>2, <1>6 DEF ChecksOwned
<1>10. FailuresReal' /\ SuccessesReal'
  BY <1>2, <1>6, <1>7 DEF FailuresReal, SuccessesReal
<1>11. OutsideIsIdle' /\ VerdictExact' /\ GoodMeansChecked'
  BY <1>5 DEF OutsideIsIdle, VerdictExact, GoodMeansChecked
<1>12. LabelsApart'
  BY <1>4, <1>5 DEF LabelsApart
<1>13. QED
  BY <1>3, <1>8, <1>9, <1>10, <1>11, <1>12

(* Add wakes workers and makes new checks outstanding.                      *)
LEMMA AddPreserves ==
  ASSUME IInv, NEW S \in SUBSET Check, Add(S)
  PROVE  IInv'
<1> USE DEF IInv, Add, local
<1>1. Master \in Thread
  BY DEF Thread
<1>2. PICK W \in WokenFor(S) : pc' = [t \in Thread |-> IF t \in W THEN "woken" ELSE pc[t]]
  OBVIOUS
<1>3. W \subseteq Sleeping
  BY DEF WokenFor
<1>4. \A t \in Thread : pc'[t] = pc[t] \/ (pc[t] = "waiting" /\ pc'[t] = "woken" /\ t # Master)
  BY <1>2, <1>3 DEF Sleeping
<1>5. pc'[Master] = "adding"
  BY <1>1, <1>4
<1>6. TypesOfData'
  BY <1>2, <1>3 DEF TypesOfData, Labels
<1>7. Idling' = Idling /\ Working' = Working
  BY <1>4 DEF Idling, Working
<1>8. Outstanding' = Outstanding \union S /\ Outstanding \intersect S = {}
  BY DEF Outstanding, ChecksOwned
<1>9. CountersExact'
  <2>1. Cardinality(Outstanding') = Cardinality(Outstanding) + Cardinality(S)
    <3>1. IsFiniteSet(S) /\ IsFiniteSet(Outstanding) /\ Cardinality(S) \in Nat
          /\ Cardinality(Outstanding) \in Nat
      BY Finite, SetsTyped
    <3>2. Cardinality(Outstanding \union S)
            = Cardinality(Outstanding) + Cardinality(S) - Cardinality({})
      BY <1>8, <3>1, FS_Union
    <3>3. QED
      BY <1>8, <3>1, <3>2, FS_EmptySet
  <2>2. QED
    BY <1>7, <2>1 DEF CountersExact
<1>10. ChecksOwned'
  <2>1. \A t \in Thread : batch[t] \subseteq Outstanding
    BY DEF Outstanding, TypesOfData
  <2>2. QED
    BY <1>7, <1>8, <2>1 DEF ChecksOwned
<1>11. FailuresReal'
  BY <1>7 DEF FailuresReal
<1>12. SuccessesReal'
  BY <1>4, <1>7, <1>8 DEF SuccessesReal, Working
<1>13. OutsideIsIdle' /\ VerdictExact' /\ GoodMeansChecked'
  BY <1>5 DEF OutsideIsIdle, VerdictExact, GoodMeansChecked
<1>14. LabelsApart'
  BY <1>4 DEF LabelsApart
<1>15. QED
  BY <1>6, <1>9, <1>10, <1>11, <1>12, <1>13, <1>14

(* A step that moves one thread between labels of the same kind.            *)
LEMMA RelabelPreserves ==
  ASSUME IInv, UNCHANGED <<queue, counters, local, round>>,
         NEW t \in Thread, NEW l \in Labels, pc' = [pc EXCEPT ![t] = l],
         pc[t] \notin {"checking", "checked", "gone"},
         l \notin {"outside", "checking", "checked", "gone"},
         t # Master => l # "adding",
         pc[t] \in {"waiting", "woken"} <=> l \in {"waiting", "woken"},
         pc[t] # "outside"
  PROVE  IInv'
<1> USE DEF IInv, counters, local, round
<1>1. TypesOfData'
  BY DEF TypesOfData
<1>2. pc'[t] = l /\ \A u \in Thread : u # t => pc'[u] = pc[u]
  BY DEF TypesOfData
<1>3. Idling' = Idling /\ Working' = Working /\ Outstanding' = Outstanding
  BY <1>2 DEF Idling, Working, Outstanding
<1>4. pc'[Master] = "outside" <=> pc[Master] = "outside"
  BY <1>2 DEF Thread
<1>5. CountersExact' /\ ChecksOwned'
  BY <1>3 DEF CountersExact, ChecksOwned
<1>6. FailuresReal'
  BY <1>3 DEF FailuresReal
<1>7. SuccessesReal'
  BY <1>2, <1>3, <1>4 DEF SuccessesReal, Working
<1>8. OutsideIsIdle' /\ VerdictExact' /\ GoodMeansChecked'
  BY <1>3, <1>4 DEF OutsideIsIdle, VerdictExact, GoodMeansChecked
<1>9. LabelsApart'
  BY <1>2 DEF LabelsApart
<1>10. QED
  BY <1>1, <1>5, <1>6, <1>7, <1>8, <1>9

(* An interrupted thread leaves the idle ones and is counted apart.         *)
LEMMA InterruptPreserves ==
  ASSUME IInv, NEW t \in Thread, Interrupt(t)
  PROVE  IInv'
<1> USE DEF IInv, Interrupt, counters, round
<1>1. TypesOfData'
  BY DEF TypesOfData, Labels
<1>2. /\ pc'[t] \in {"enter", "gone"} /\ (t = Master => pc'[t] = "enter")
      /\ \A u \in Thread : u # t => pc'[u] = pc[u]
  BY DEF TypesOfData
<1>3. Idling' = Idling \ {t} /\ t \in Idling
  BY <1>2 DEF Idling
<1>4. Working' = Working /\ Outstanding' = Outstanding
  BY <1>2 DEF Working, Outstanding
<1>5. pc'[Master] = "outside" <=> pc[Master] = "outside"
  BY <1>2 DEF Thread
<1>6. CountersExact'
  <2>1. Cardinality(Idling) = Cardinality(Idling') + 1
    BY <1>3, CountWithout, SetsTyped
  <2>2. Cardinality(interrupted') = Cardinality(interrupted) + 1
    BY CountWith DEF TypesOfData
  <2>3. Cardinality(Idling') \in Nat /\ Cardinality(interrupted) \in Nat
    BY <1>3, SetsTyped, Finite DEF TypesOfData
  <2>4. QED
    BY <1>4, <2>1, <2>2, <2>3 DEF CountersExact
<1>7. ChecksOwned' /\ FailuresReal'
  BY <1>4 DEF ChecksOwned, FailuresReal
<1>8. SuccessesReal'
  BY <1>2, <1>4, <1>5 DEF SuccessesReal, Working
<1>9. OutsideIsIdle' /\ VerdictExact' /\ GoodMeansChecked'
  BY <1>4, <1>5 DEF OutsideIsIdle, VerdictExact, GoodMeansChecked
<1>10. LabelsApart'
  BY <1>2 DEF LabelsApart
<1>11. QED
  BY <1>1, <1>6, <1>7, <1>8, <1>9, <1>10

(* Execute settles the verdict of a batch; its checks stay outstanding.     *)
LEMMA ExecutePreserves ==
  ASSUME IInv, NEW t \in Thread, Execute(t)
  PROVE  IInv'
<1> USE DEF IInv, Execute, counters
<1>1. t \in Working /\ batch[t] # {} /\ batch[t] \subseteq Outstanding
  BY DEF Working, ChecksOwned, Outstanding, TypesOfData
<1>2. pc[Master] # "outside"
  BY <1>1 DEF OutsideIsIdle
<1>3. pc'[t] = "checked" /\ \A u \in Thread : u # t => pc'[u] = pc[u]
  BY DEF TypesOfData, Labels
<1>4. Idling' = Idling /\ Working' = Working /\ Outstanding' = Outstanding
  BY <1>3 DEF Idling, Working, Outstanding
<1>5. fOk'[t] = (fOk[t] /\ batch[t] \subseteq good) /\ \A u \in Thread : u # t => fOk'[u] = fOk[u]
  BY DEF TypesOfData
<1>6. ran \subseteq ran' /\ ran' \subseteq ran \union batch[t]
      /\ (fOk'[t] => batch[t] \subseteq ran')
  OBVIOUS
<1>7. batch[t] \subseteq added
  BY <1>1 DEF ChecksOwned
<1>8. TypesOfData'
  <2>1. ran' \in SUBSET Check
    BY <1>6 DEF TypesOfData
  <2>2. fOk' \in [Thread -> BOOLEAN]
    BY DEF TypesOfData
  <2>3. pc' \in [Thread -> Labels]
    BY DEF TypesOfData, Labels
  <2>4. QED
    BY <2>1, <2>2, <2>3 DEF TypesOfData
<1>9. CountersExact'
  BY <1>4 DEF CountersExact
<1>10. ChecksOwned'
  BY <1>4, <1>6, <1>7 DEF ChecksOwned
<1>11. FailuresReal'
  <2>1. ASSUME NEW u \in Working, ~ fOk'[u]
        PROVE  ~ (added \subseteq good)
    <3>1. CASE u = t
      BY <1>1, <1>5, <1>7, <2>1, <3>1 DEF FailuresReal
    <3>2. CASE u # t
      <4>1. u \in Thread
        BY DEF Working
      <4>2. QED
        BY <1>5, <2>1, <3>2, <4>1 DEF FailuresReal
    <3>3. QED
      BY <3>1, <3>2
  <2>2. ~ fAllOk => ~ (added \subseteq good)
    BY DEF FailuresReal
  <2>3. QED
    BY <1>4, <2>1, <2>2 DEF FailuresReal
<1>12. SuccessesReal'
  <2>1. fAllOk => added \ Outstanding \subseteq good \intersect ran'
    BY <1>2, <1>6 DEF SuccessesReal
  <2>2. ASSUME NEW u \in Working, pc'[u] = "checked", fOk'[u]
        PROVE  batch[u] \subseteq good \intersect ran'
    <3>1. CASE u = t
      BY <1>5, <1>6, <2>2, <3>1
    <3>2. CASE u # t
      <4>1. u \in Thread
        BY DEF Working
      <4>2. QED
        BY <1>3, <1>5, <1>6, <2>2, <3>2, <4>1 DEF SuccessesReal
    <3>3. QED
      BY <3>1, <3>2
  <2>3. QED
    BY <1>4, <2>1, <2>2 DEF SuccessesReal
<1>13. pc'[Master] # "outside"
  BY <1>2, <1>3 DEF Thread
<1>14. OutsideIsIdle' /\ VerdictExact' /\ GoodMeansChecked'
  BY <1>13 DEF OutsideIsIdle, VerdictExact, GoodMeansChecked
<1>15. LabelsApart'
  BY <1>1, <1>3 DEF LabelsApart, Working
<1>16. QED
  BY <1>8, <1>9, <1>10, <1>11, <1>12, <1>14, <1>15

-----------------------------------------------------------------------------
(* The critical section                                                     *)

(* BatchSize is never zero, so that Take makes progress.                    *)
LEMMA BatchNotEmpty ==
  ASSUME NEW t \in Thread, NEW S, Cardinality(S) = BatchSize(t)
  PROVE  S # {}
<1>1. BatchSize(t) # 0
  BY DEF BatchSize
<1>2. QED
  BY <1>1, FS_EmptySet

(* What Take does to the checks: the thread's batch is done, a part of the  *)
(* queue is its next batch.                                                 *)
LEMMA TakeMoves ==
  ASSUME IInv, NEW t \in Thread, Take(t)
  PROVE  /\ batch'[t] \subseteq queue /\ batch'[t] # {} /\ queue' = queue \ batch'[t]
         /\ \A u \in Thread : u # t => batch'[u] = batch[u]
         /\ batch' \in [Thread -> SUBSET Check]
         /\ Outstanding' = Outstanding \ Done(t)
<1>1. PICK S \in SUBSET queue :
          /\ Cardinality(S) = BatchSize(t)
          /\ batch' = [batch EXCEPT ![t] = S]
          /\ queue' = queue \ S
  BY DEF Take
<1>2. S # {}
  BY <1>1, BatchNotEmpty
<1>3. /\ queue \in SUBSET Check /\ batch \in [Thread -> SUBSET Check]
      /\ \A u \in Thread : batch[u] \intersect queue = {}
      /\ \A u, v \in Thread : u # v => batch[u] \intersect batch[v] = {}
  BY DEF IInv, TypesOfData, ChecksOwned
<1>4. batch'[t] = S /\ \A u \in Thread : u # t => batch'[u] = batch[u]
  BY <1>1, <1>3
<1>5. Done(t) = batch[t]
  BY AtTheSection DEF Take
<1>6. ASSUME NEW c \in Check
      PROVE  c \in Outstanding' <=> c \in Outstanding \ Done(t)
  <2>1. CASE c \in queue
    BY <1>1, <1>3, <1>4, <1>5, <2>1 DEF Outstanding
  <2>2. CASE c \notin queue
    BY <1>1, <1>3, <1>4, <1>5, <2>2 DEF Outstanding
  <2>3. QED
    BY <2>1, <2>2
<1>7. Outstanding' = Outstanding \ Done(t)
  BY <1>6 DEF Outstanding
<1>8. QED
  BY <1>1, <1>2, <1>3, <1>4, <1>7

LEMMA TakePreserves ==
  ASSUME IInv, NEW t \in Thread, Take(t)
  PROVE  IInv'
<1>1. AtSection(t) /\ UNCHANGED <<interrupted, round>>
  BY DEF Take
<1>2. /\ pc'[t] = "checking"
      /\ \A u \in Thread : u # t =>
            pc'[u] = pc[u] \/ (pc[u] = "waiting" /\ pc'[u] = "woken")
      /\ pc' \in [Thread -> Labels]
  BY <1>1, TellingTheMaster DEF Take, Labels
<1>3. Idling' = Idling \ {t} /\ Working' = Working \union {t}
  BY <1>2 DEF Idling, Working
<1>4. /\ batch'[t] \subseteq queue /\ batch'[t] # {} /\ queue' = queue \ batch'[t]
      /\ \A u \in Thread : u # t => batch'[u] = batch[u]
      /\ batch' \in [Thread -> SUBSET Check]
      /\ Outstanding' = Outstanding \ Done(t)
  BY TakeMoves
<1>5. pc[Master] # "outside" /\ pc'[Master] # "outside"
  <2>1. queue # {} /\ queue \subseteq Outstanding
    BY DEF Take, IInv, TypesOfData, Outstanding
  <2>2. pc[Master] # "outside"
    BY <2>1 DEF IInv, OutsideIsIdle
  <2>3. QED
    BY <2>2, <1>2 DEF Thread
<1>6. /\ fAllOk' = AllOkAt(t) /\ fOk'[t] = AllOkAt(t)
      /\ fOk' \in [Thread -> BOOLEAN]
      /\ \A u \in Thread : u # t => fOk'[u] = fOk[u]
  BY <1>1, VerdictAtTheSection DEF Take, IInv, TypesOfData
<1>7. TypesOfData'
  <2>1. queue' \in SUBSET Check
    BY <1>4 DEF IInv, TypesOfData
  <2>2. fAllOk' \in BOOLEAN
    BY <1>1, <1>6, VerdictAtTheSection
  <2>3. QED
    BY <1>1, <1>2, <1>4, <1>6, <2>1, <2>2 DEF IInv, TypesOfData, round
<1>8. CountersExact'
  <2>1. nTodo' = Cardinality(Outstanding')
    BY <1>1, <1>4, AtTheSection DEF Take
  <2>2. nIdle' = Cardinality(Idling') + Cardinality(interrupted')
    BY <1>1, <1>3, AtTheSection DEF Take
  <2>3. Cardinality(Working') = Cardinality(Working \ {t}) + 1
    <3>1. Working' = (Working \ {t}) \union {t} /\ Working \ {t} \in SUBSET Thread
      BY <1>3, SetsTyped
    <3>2. QED
      BY <3>1, CountWith
  <2>4. Cardinality(Working \ {t}) \in Nat /\ nIdle' \in Nat
    BY <1>1, <1>3, <2>2, SetsTyped, Finite DEF IInv, TypesOfData
  <2>5. nTotal' = nIdle' + Cardinality(Working \ {t}) + 1
    BY <1>1, AtTheSection DEF Take
  <2>6. QED
    BY <2>1, <2>2, <2>3, <2>4, <2>5 DEF CountersExact
<1>9. ChecksOwned'
  BY <1>1, <1>3, <1>4 DEF IInv, ChecksOwned, TypesOfData, round
<1>10. FailuresReal'
  <2>1. ~ AllOkAt(t) => ~ (added \subseteq good)
    BY <1>1, VerdictAtTheSection
  <2>2. ASSUME NEW u \in Working \union {t}, ~ fOk'[u]
        PROVE  ~ (added \subseteq good)
    <3>1. CASE u = t
      BY <1>6, <2>1, <2>2, <3>1
    <3>2. CASE u # t
      <4>1. u \in Working /\ u \in Thread
        BY <3>2 DEF Working
      <4>2. QED
        BY <1>6, <2>2, <3>2, <4>1 DEF IInv, FailuresReal
    <3>3. QED
      BY <3>1, <3>2
  <2>3. QED
    BY <1>1, <1>3, <1>6, <2>1, <2>2 DEF FailuresReal, round
<1>11. SuccessesReal'
  <2>1. fAllOk' => added \ Outstanding' \subseteq good \intersect ran
    BY <1>1, <1>4, <1>5, <1>6, VerdictAtTheSection
  <2>2. \A u \in Thread : pc'[u] = "checked" => u # t /\ pc[u] = "checked"
    BY <1>2
  <2>3. QED
    BY <1>1, <1>4, <1>6, <2>1, <2>2 DEF IInv, SuccessesReal, Working, round
<1>12. OutsideIsIdle' /\ VerdictExact' /\ GoodMeansChecked'
  BY <1>5 DEF OutsideIsIdle, VerdictExact, GoodMeansChecked
<1>13. LabelsApart'
  BY <1>2 DEF IInv, LabelsApart
<1>14. QED
  BY <1>7, <1>8, <1>9, <1>10, <1>11, <1>12, <1>13 DEF IInv

(* A thread that leaves the section without checks: asleep, or the master   *)
(* with its verdict.                                                        *)
LEMMA EmptyHanded ==
  ASSUME IInv, NEW t \in Thread, AtSection(t), queue = {}, UNCHANGED queue,
         batch' = [batch EXCEPT ![t] = {}]
  PROVE  /\ Outstanding' = Outstanding \ Done(t)
         /\ batch' \in [Thread -> SUBSET Check]
         /\ batch'[t] = {} /\ \A u \in Thread : u # t => batch'[u] = batch[u]
<1>1. /\ batch \in [Thread -> SUBSET Check]
      /\ \A u, v \in Thread : u # v => batch[u] \intersect batch[v] = {}
  BY DEF IInv, TypesOfData, ChecksOwned
<1>2. batch'[t] = {} /\ \A u \in Thread : u # t => batch'[u] = batch[u]
  BY <1>1
<1>3. Done(t) = batch[t]
  BY AtTheSection
<1>4. \A c \in Check : c \in Outstanding' <=> c \in Outstanding \ Done(t)
  BY <1>1, <1>2, <1>3 DEF Outstanding
<1>5. QED
  BY <1>1, <1>2, <1>4 DEF Outstanding

LEMMA SleepPreserves ==
  ASSUME IInv, NEW t \in Thread, Sleep(t)
  PROVE  IInv'
<1>1. AtSection(t) /\ UNCHANGED <<queue, fOk, interrupted, round>> /\ queue = {}
  BY DEF Sleep
<1>2. /\ pc'[t] = "waiting"
      /\ \A u \in Thread : u # t =>
            pc'[u] = pc[u] \/ (pc[u] = "waiting" /\ pc'[u] = "woken")
      /\ pc' \in [Thread -> Labels]
  BY <1>1, TellingTheMaster DEF Sleep, Labels
<1>3. Idling' = (Idling \ {t}) \union {t} /\ Working' = Working \ {t}
  BY <1>2 DEF Idling, Working
<1>4. /\ Outstanding' = Outstanding \ Done(t)
      /\ batch' \in [Thread -> SUBSET Check]
      /\ batch'[t] = {} /\ \A u \in Thread : u # t => batch'[u] = batch[u]
  BY <1>1, EmptyHanded DEF Sleep
<1>5. fAllOk' = AllOkAt(t)
  BY DEF Sleep
<1>6. TypesOfData'
  BY <1>1, <1>2, <1>4, <1>5, VerdictAtTheSection DEF IInv, TypesOfData, round
<1>7. CountersExact'
  <2>1. nTodo' = Cardinality(Outstanding')
    BY <1>1, <1>4, AtTheSection DEF Sleep
  <2>2. Cardinality(Idling') = Cardinality(Idling \ {t}) + 1
    <3>1. Idling \ {t} \in SUBSET Thread
      BY SetsTyped
    <3>2. QED
      BY <1>3, <3>1, CountWith
  <2>3. /\ Cardinality(Working \ {t}) \in Nat /\ Cardinality(Idling \ {t}) \in Nat
        /\ Cardinality(interrupted) \in Nat
    BY SetsTyped, Finite DEF IInv, TypesOfData
  <2>4. /\ nIdle' = Cardinality(Idling \ {t}) + Cardinality(interrupted) + 1
        /\ nTotal' = Cardinality(Idling \ {t}) + Cardinality(interrupted)
                        + Cardinality(Working \ {t}) + 1
    BY <1>1, AtTheSection DEF Sleep
  <2>5. QED
    BY <1>1, <1>3, <2>1, <2>2, <2>3, <2>4 DEF CountersExact
<1>8. ChecksOwned'
  BY <1>1, <1>3, <1>4 DEF IInv, ChecksOwned, TypesOfData, round
<1>9. FailuresReal'
  BY <1>1, <1>3, <1>5, VerdictAtTheSection DEF IInv, FailuresReal, round
<1>10. \A u \in Thread : pc'[u] = "outside" <=> pc[u] = "outside"
  BY <1>1, <1>2 DEF AtSection
<1>11. SuccessesReal'
  <2>1. fAllOk' /\ pc'[Master] # "outside" =>
           added \ Outstanding' \subseteq good \intersect ran
    BY <1>1, <1>4, <1>5, <1>10, VerdictAtTheSection DEF Thread
  <2>2. \A u \in Thread : pc'[u] = "checked" => u # t /\ pc[u] = "checked"
    BY <1>2
  <2>3. QED
    BY <1>1, <1>3, <1>4, <2>1, <2>2 DEF IInv, SuccessesReal, Working, round
<1>12. OutsideIsIdle'
  <2>1. ASSUME pc[Master] = "outside"
        PROVE  AllOkAt(t) /\ Outstanding \ Done(t) = {}
    <3>1. Outstanding = {} /\ fAllOk
      BY <2>1 DEF IInv, OutsideIsIdle
    <3>2. batch[t] = {}
      BY <3>1 DEF IInv, TypesOfData, Outstanding
    <3>3. pc[t] # "checked"
      BY <3>2 DEF IInv, ChecksOwned, Working
    <3>4. QED
      BY <3>1, <3>3 DEF AllOkAt
  <2>2. QED
    BY <1>4, <1>5, <1>10, <2>1 DEF OutsideIsIdle, Thread
<1>13. VerdictExact' /\ GoodMeansChecked'
  BY <1>1, <1>10 DEF IInv, VerdictExact, GoodMeansChecked, round, Thread
<1>14. LabelsApart'
  BY <1>2 DEF IInv, LabelsApart
<1>15. QED
  BY <1>6, <1>7, <1>8, <1>9, <1>11, <1>12, <1>13, <1>14 DEF IInv

LEMMA ReturnPreserves ==
  ASSUME IInv, Return
  PROVE  IInv'
<1>1. /\ AtSection(Master) /\ Master \in Thread /\ queue = {} /\ TodoAt(Master) = 0
      /\ UNCHANGED <<queue, fOk, interrupted, good, added, ran, rounds>>
      /\ batch' = [batch EXCEPT ![Master] = {}] /\ nTodo' = 0
      /\ fAllOk' = TRUE /\ result' = AllOkAt(Master)
  BY DEF Return, Thread
<1>2. /\ pc'[Master] = "outside" /\ \A u \in Thread : u # Master => pc'[u] = pc[u]
      /\ pc' \in [Thread -> Labels]
  BY <1>1 DEF Return, IInv, TypesOfData, Labels
<1>3. Idling' = Idling \ {Master} /\ Working' = Working \ {Master}
  BY <1>2 DEF Idling, Working
<1>4. /\ Outstanding' = Outstanding \ Done(Master)
      /\ batch' \in [Thread -> SUBSET Check]
      /\ batch'[Master] = {} /\ \A u \in Thread : u # Master => batch'[u] = batch[u]
  BY <1>1, EmptyHanded
<1>5. Outstanding' = {}
  BY <1>1, <1>4, AtTheSection
<1>6. TypesOfData'
  BY <1>1, <1>2, <1>4, VerdictAtTheSection DEF IInv, TypesOfData
<1>7. CountersExact'
  <2>1. nTodo' = Cardinality(Outstanding')
    BY <1>1, <1>5, FS_EmptySet
  <2>2. /\ nIdle' = IdleAt(Master) /\ nTotal' = TotalAt(Master) - 1
        /\ IdleAt(Master) = Cardinality(Idling') + Cardinality(interrupted)
        /\ TotalAt(Master) = IdleAt(Master) + Cardinality(Working') + 1
    BY <1>1, <1>3, AtTheSection DEF Return
  <2>3. /\ Cardinality(Working') \in Nat /\ Cardinality(Idling') \in Nat
        /\ Cardinality(interrupted) \in Nat
    BY <1>3, SetsTyped, Finite DEF IInv, TypesOfData
  <2>4. QED
    BY <1>1, <2>1, <2>2, <2>3 DEF CountersExact
<1>8. ChecksOwned'
  BY <1>1, <1>3, <1>4, <1>5 DEF IInv, ChecksOwned, TypesOfData
<1>9. FailuresReal'
  BY <1>1, <1>3 DEF IInv, FailuresReal
<1>10. SuccessesReal'
  BY <1>1, <1>2, <1>3, <1>4 DEF IInv, SuccessesReal, Working
<1>11. OutsideIsIdle'
  BY <1>1, <1>5 DEF OutsideIsIdle
<1>12. VerdictExact' /\ GoodMeansChecked'
  <2>1. /\ AllOkAt(Master) \in BOOLEAN
        /\ ~ AllOkAt(Master) => ~ (added \subseteq good)
        /\ AllOkAt(Master) => added \subseteq good \intersect ran
    BY <1>1, <1>4, <1>5, VerdictAtTheSection DEF AtSection
  <2>2. ran \subseteq added
    BY DEF IInv, ChecksOwned
  <2>3. QED
    BY <1>1, <2>1, <2>2 DEF VerdictExact, GoodMeansChecked
<1>13. LabelsApart'
  BY <1>2 DEF IInv, LabelsApart
<1>14. QED
  BY <1>6, <1>7, <1>8, <1>9, <1>10, <1>11, <1>12, <1>13 DEF IInv

-----------------------------------------------------------------------------
(* The theorems                                                             *)

LEMMA InitIInv == Init => IInv
<1>1. SUFFICES ASSUME Init PROVE IInv
  OBVIOUS
<1>2. Idling = {} /\ Working = {} /\ Outstanding = {}
  BY <1>1 DEF Init, Idling, Working, Outstanding
<1>3. TypesOfData
  BY <1>1 DEF Init, TypesOfData, Labels
<1>4. CountersExact
  BY <1>1, <1>2, FS_EmptySet DEF Init, CountersExact
<1>5. ChecksOwned /\ FailuresReal /\ SuccessesReal
  BY <1>1, <1>2 DEF Init, ChecksOwned, FailuresReal, SuccessesReal
<1>6. OutsideIsIdle /\ VerdictExact /\ GoodMeansChecked
  BY <1>1, <1>2 DEF Init, OutsideIsIdle, VerdictExact, GoodMeansChecked
<1>7. LabelsApart
  BY <1>1 DEF Init, LabelsApart
<1>8. QED
  BY <1>3, <1>4, <1>5, <1>6, <1>7 DEF IInv

LEMMA NextIInv == IInv /\ [Next]_vars => IInv'
<1>1. SUFFICES ASSUME IInv, [Next]_vars PROVE IInv'
  OBVIOUS
<1>2. CASE NewBlock
  BY <1>1, <1>2, NewBlockPreserves
<1>3. CASE Wait
  <2>1. Master \in Thread
    BY DEF Thread
  <2>2. QED
    BY <1>1, <1>3, <2>1, RelabelPreserves DEF Wait, Labels
<1>4. CASE Return
  BY <1>1, <1>4, ReturnPreserves
<1>5. ASSUME NEW S \in SUBSET Check, Add(S) PROVE IInv'
  BY <1>1, <1>5, AddPreserves
<1>6. ASSUME NEW t \in Thread, InLoop(t) PROVE IInv'
  BY <1>1, <1>6, TakePreserves, SleepPreserves, ExecutePreserves DEF InLoop
<1>7. ASSUME NEW t \in Thread, SpuriousWake(t) PROVE IInv'
  BY <1>1, <1>7, RelabelPreserves DEF SpuriousWake, Labels
<1>8. ASSUME NEW t \in Thread, Interrupt(t) PROVE IInv'
  BY <1>1, <1>8, InterruptPreserves
<1>9. CASE UNCHANGED vars
  BY <1>1, <1>9 DEF vars, counters, local, round, IInv, TypesOfData, CountersExact,
     ChecksOwned, FailuresReal, SuccessesReal, OutsideIsIdle, LabelsApart,
     VerdictExact, GoodMeansChecked, Idling, Working, Outstanding
<1>10. QED
  BY <1>1, <1>2, <1>3, <1>4, <1>5, <1>6, <1>7, <1>8, <1>9 DEF Next

(* The inductive invariant of the check queue.                              *)
THEOREM Invariance == Spec => []IInv
<1>1. QED
  BY InitIInv, NextIInv, PTL DEF Spec

(* Every variable of the queue keeps its type; the unsigned nTodo does not  *)
(* pass below 0 (checkqueue.h:82).                                          *)
THEOREM TypeCorrect == Spec => []TypeOK
<1>1. IInv => TypeOK
  <2>1. SUFFICES ASSUME IInv PROVE TypeOK
    OBVIOUS
  <2>2. nIdle \in Nat /\ nTotal \in Nat /\ nTodo \in Nat
    BY <2>1, CountersTyped
  <2>3. QED
    BY <2>1, <2>2 DEF IInv, TypesOfData, TypeOK
<1>2. QED
  BY <1>1, Invariance, PTL

(* The assertion of CCheckQueueControl holds for every number of workers.   *)
THEOREM AlwaysIdleBetweenBlocks == Spec => []IdleBetweenBlocks
<1>1. IInv => IdleBetweenBlocks
  <2>1. SUFFICES ASSUME IInv, pc[Master] = "outside"
                 PROVE  nTotal = nIdle /\ nTodo = 0 /\ fAllOk
    BY DEF IdleBetweenBlocks
  <2>2. Outstanding = {} /\ fAllOk
    BY <2>1 DEF IInv, OutsideIsIdle
  <2>3. Working = {}
    BY <2>1, <2>2 DEF IInv, TypesOfData, ChecksOwned, Outstanding, Working
  <2>4. QED
    BY <2>1, <2>2, <2>3, FS_EmptySet, CountersTyped DEF IInv, CountersExact
<1>2. QED
  BY <1>1, Invariance, PTL

(* Wait's answer is that of all checks together (checkqueue.h:94), and no   *)
(* block passes before every check of it has run (checkqueue.h:92).         *)
THEOREM AnswerIsExact == Spec => []AnswerExact
<1>1. IInv => AnswerExact
  BY DEF IInv, AnswerExact
<1>2. QED
  BY <1>1, Invariance, PTL

-----------------------------------------------------------------------------
(* The audit                                                                *)

HIDE CheckQueueAssumption

USE BlockTreeAssumption, PoAAuditAssumption

-----------------------------------------------------------------------------
(* Lists and their predecessors                                             *)

(* A proof-of-audit block is not the root; a list that is not empty names   *)
(* blocks, its last among them.                                             *)
LEMMA ListedBlocks ==
  ASSUME NEW b \in PoA
  PROVE  /\ b \in Block \ {Genesis} /\ Parent[b] \in Block
         /\ Audits[b] \in Seq(Block) /\ Listed(b) \subseteq Block
         /\ Len(Audits[b]) >= MinAudited => LastAudited(b) \in Listed(b)
<1>1. b \in Block /\ Height[b] \in Nat /\ Height[b] > StartPoA
  OBVIOUS
<1>2. b # Genesis
  BY <1>1
<1>3. Audits[b] \in Seq(Block) /\ Len(Audits[b]) \in Nat /\ DOMAIN Audits[b] = 1 .. Len(Audits[b])
  OBVIOUS
<1>4. \A i \in DOMAIN Audits[b] : Audits[b][i] \in Block
  BY <1>3
<1>5. ASSUME Len(Audits[b]) >= MinAudited PROVE Len(Audits[b]) \in DOMAIN Audits[b]
  BY <1>3, <1>5
<1>6. QED
  BY <1>1, <1>2, <1>3, <1>4, <1>5 DEF Listed, LastAudited

(* The block before b that PrevPoA finds is the highest of the              *)
(* proof-of-audit blocks below b.                                           *)
LEMMA PrevPoAFound ==
  ASSUME NEW b \in PoA
  PROVE  /\ PrevPoA(b) = NoBlock <=> PoA \cap Anc[Parent[b]] = {}
         /\ PrevPoA(b) # NoBlock =>
               /\ PrevPoA(b) \in PoA \cap Anc[Parent[b]]
               /\ \A q \in PoA \cap Anc[Parent[b]] : Height[q] <= Height[PrevPoA(b)]
<1> DEFINE E == PoA \cap Anc[Parent[b]]
<1>1. E \in SUBSET Block
  OBVIOUS
<1>2. CASE E = {}
  BY <1>2 DEF PrevPoA
<1>3. CASE E # {}
  <2>1. \E p \in E : \A q \in E : Height[q] <= Height[p]
    BY <1>1, <1>3, MaxExists
  <2>2. PrevPoA(b) = CHOOSE p \in E : \A q \in E : Height[q] <= Height[p]
    BY <1>3 DEF PrevPoA
  <2>3. PrevPoA(b) \in E /\ \A q \in E : Height[q] <= Height[PrevPoA(b)]
    <3> HIDE DEF E
    <3>1. QED
      BY <2>1, <2>2
  <2>4. PrevPoA(b) # NoBlock
    BY <2>3
  <2>5. QED
    BY <1>3, <2>3, <2>4
<1>4. QED
  BY <1>2, <1>3

(* On the path to d the predecessor is on the path too, and lower.          *)
LEMMA PrevPoAOnPath ==
  ASSUME NEW d \in Block, NEW b \in PoA \cap Anc[d]
  PROVE  /\ PrevPoA(b) # NoBlock =>
               PrevPoA(b) \in PoA \cap Anc[d] /\ Height[PrevPoA(b)] < Height[b]
         /\ \A c \in PoA \cap Anc[d] : Height[c] < Height[b] =>
               /\ PrevPoA(b) # NoBlock
               /\ c = PrevPoA(b) \/ Height[c] < Height[PrevPoA(b)]
<1>1. b \in Block \ {Genesis} /\ Parent[b] \in Block
  BY ListedBlocks
<1>2. Anc[Parent[b]] \subseteq Anc[d] /\ Anc[d] \subseteq Block
  <2>1. Parent[b] \in Anc[d]
    BY <1>1, AncClosed DEF ClosedUnderParent
  <2>2. QED
    BY <2>1, AncTransitive, AncSelf
<1>3. \A p \in Anc[Parent[b]] : Height[p] < Height[b]
  <2>1. \A p \in Anc[Parent[b]] : p # b /\ p \in Anc[b]
    BY <1>1, AncParent
  <2>2. QED
    BY <1>1, <2>1, AncLower
<1>4. PrevPoA(b) # NoBlock => PrevPoA(b) \in PoA \cap Anc[d] /\ Height[PrevPoA(b)] < Height[b]
  BY <1>2, <1>3, PrevPoAFound
<1>5. ASSUME NEW c \in PoA \cap Anc[d], Height[c] < Height[b]
      PROVE  PrevPoA(b) # NoBlock /\ (c = PrevPoA(b) \/ Height[c] < Height[PrevPoA(b)])
  <2>1. c \in Block /\ Height[c] \in Nat /\ Height[b] \in Nat
    BY <1>1
  <2>2. c \in Anc[b]
    BY <1>5, <2>1, LowerIsAncestor
  <2>3. c \in PoA \cap Anc[Parent[b]]
    BY <1>1, <1>5, <2>1, <2>2, AncParent
  <2>4. PrevPoA(b) # NoBlock /\ PrevPoA(b) \in PoA \cap Anc[d] /\ Height[c] <= Height[PrevPoA(b)]
    BY <1>4, <2>3, PrevPoAFound
  <2>5. PrevPoA(b) \in Block /\ Height[PrevPoA(b)] \in Nat
    BY <2>4
  <2>6. Height[c] = Height[PrevPoA(b)] => c = PrevPoA(b)
    BY <2>4, OnePerHeight
  <2>7. QED
    BY <2>1, <2>4, <2>5, <2>6
<1>6. QED
  BY <1>4, <1>5

-----------------------------------------------------------------------------
(* The inductive invariant                                                  *)

LEMMA AuditInitInv == AuditInit => AuditInv
<1> SUFFICES ASSUME AuditInit PROVE AuditInv
  OBVIOUS
<1> USE DEF AuditInit
<1>1. AuditTypeOK /\ Genesis \in indexed /\ ClosedUnderParent(known)
  BY DEF AuditTypeOK, ClosedUnderParent
<1>2. PnextSound
  BY DEF PnextSound, Children
<1>3. PoA \cap Anc[tip] = {}
  BY AncGenesis, ListedBlocks
<1>4. QED
  BY <1>1, <1>2, <1>3 DEF AuditInv

(* The chain stays as it is, or what is new on it passes.                   *)
LEMMA ResumesKept ==
  ASSUME \A b \in PoA \cap Anc[tip] : Resumes(b), UNCHANGED tip
  PROVE  (\A b \in PoA \cap Anc[tip] : Resumes(b))'
  BY DEF Resumes, PrevPoA, LastAudited, Lists, Listed, Auditable, Above

LEMMA AddToBlockIndexInv ==
  ASSUME AuditInv, NEW b \in Block \ {Genesis}, AddToBlockIndex(b)
  PROVE  AuditInv'
<1> USE DEF AuditInv, AddToBlockIndex
<1>1. AuditTypeOK' /\ (Genesis \in indexed)'
  BY DEF AuditTypeOK
<1>2. ClosedUnderParent(known)'
  BY DEF ClosedUnderParent
<1>3. ASSUME NEW a \in known', a # b, a # Parent[b]
      PROVE  pnext'[a] = pnext[a] /\ Children(a)' = Children(a) /\ a \in known
  BY <1>3 DEF AuditTypeOK, Children
<1>4. pnext'[b] = Unset /\ Children(b)' = {}
  <2>1. Parent[b] # b
    <3>1. Height[b] = Height[Parent[b]] + 1 /\ Height[b] \in Nat
      OBVIOUS
    <3>2. QED
      BY <3>1
  <2>2. \A c \in known \ {Genesis} : Parent[c] # b
    BY DEF ClosedUnderParent
  <2>3. QED
    BY <2>1, <2>2 DEF AuditTypeOK, Children
<1>5. Parent[b] # b => pnext'[Parent[b]] = b /\ b \in Children(Parent[b])' /\ b \notin indexed'
  BY DEF AuditTypeOK, Children
<1>6. PnextSound'
  <2>1. SUFFICES ASSUME NEW a \in known'
                 PROVE  /\ pnext'[a] \in Block => pnext'[a] \in Children(a)' \ indexed'
                        /\ pnext'[a] = NoBlock => Children(a)' \subseteq indexed'
                        /\ pnext'[a] = Unset => Children(a)' = {}
    BY DEF PnextSound
  <2>2. CASE a = b
    BY <1>4, <2>2
  <2>3. CASE a # b /\ a = Parent[b]
    BY <1>5, <2>3
  <2>4. CASE a # b /\ a # Parent[b]
    BY <1>3, <2>4 DEF PnextSound
  <2>5. QED
    BY <2>2, <2>3, <2>4
<1>7. (\A p \in PoA \cap Anc[tip] : Resumes(p))'
  BY ResumesKept
<1>8. QED
  BY <1>1, <1>2, <1>6, <1>7

LEMMA ConnectTipInv ==
  ASSUME AuditInv, NEW b \in Block \ {Genesis}, ConnectTip(b)
  PROVE  AuditInv'
<1> USE DEF AuditInv, ConnectTip
<1>1. AuditTypeOK' /\ (Genesis \in indexed /\ ClosedUnderParent(known))'
  BY DEF AuditTypeOK, ClosedUnderParent
<1>2. PnextSound'
  BY DEF PnextSound, Children
<1>3. Anc[tip'] = Anc[tip] \union {b}
  BY AncParent
<1>4. b \in PoA => Resumes(b)
  <2>1. SUFFICES ASSUME b \in PoA, NEW u \in Garbage, AuditPasses(b, u)
                 PROVE  Resumes(b)
    OBVIOUS
  <2>2. Len(Audits[b]) >= MinAudited /\ Audits[b] # << >>
    BY <2>1, ListedBlocks DEF AuditPasses
  <2>3. QED
    BY <2>1, <2>2 DEF AuditPasses, ContainsRecent, WalkReaches, Resumes
<1>5. \A p \in PoA \cap Anc[tip'] : Resumes(p)
  BY <1>3, <1>4
<1>6. (\A p \in PoA \cap Anc[tip] : Resumes(p))'
  BY <1>5 DEF Resumes, PrevPoA, LastAudited, Lists, Listed, Auditable, Above
<1>7. QED
  BY <1>1, <1>2, <1>6

LEMMA DisconnectTipInv ==
  ASSUME AuditInv, DisconnectTip
  PROVE  AuditInv'
<1> USE DEF AuditInv, DisconnectTip
<1>1. tip \in Block \ {Genesis} /\ Parent[tip] \in known
  BY DEF AuditTypeOK, ClosedUnderParent
<1>2. AuditTypeOK' /\ (Genesis \in indexed /\ ClosedUnderParent(known))'
  BY <1>1 DEF AuditTypeOK, ClosedUnderParent
<1>3. PnextSound'
  BY DEF PnextSound, Children
<1>4. Anc[tip'] \subseteq Anc[tip]
  BY <1>1, AncParent
<1>5. \A p \in PoA \cap Anc[tip'] : Resumes(p)
  BY <1>4
<1>6. (\A p \in PoA \cap Anc[tip] : Resumes(p))'
  BY <1>5 DEF Resumes, PrevPoA, LastAudited, Lists, Listed, Auditable, Above
<1>7. QED
  BY <1>2, <1>3, <1>6

LEMMA RestartInv ==
  ASSUME AuditInv, Restart
  PROVE  AuditInv'
<1> USE DEF AuditInv, Restart
<1>1. AuditTypeOK' /\ (Genesis \in indexed /\ ClosedUnderParent(known))'
  BY DEF AuditTypeOK, ClosedUnderParent
<1>2. ASSUME NEW a \in known' PROVE pnext'[a] = NoBlock /\ Children(a)' \subseteq indexed'
  BY <1>2 DEF AuditTypeOK, Children
<1>3. PnextSound'
  BY <1>2 DEF PnextSound
<1>4. (\A p \in PoA \cap Anc[tip] : Resumes(p))'
  BY ResumesKept
<1>5. QED
  BY <1>1, <1>3, <1>4

(* A mark, or an entry without a block, changes neither index nor chain.    *)
LEMMA OtherInv ==
  ASSUME AuditInv, UNCHANGED <<known, pnext, tip, indexed>>,
         blank' \subseteq Block, failed' \subseteq known
  PROVE  AuditInv'
<1> USE DEF AuditInv
<1>1. AuditTypeOK' /\ (Genesis \in indexed /\ ClosedUnderParent(known))'
  BY DEF AuditTypeOK, ClosedUnderParent
<1>2. PnextSound'
  BY DEF PnextSound, Children
<1>3. (\A p \in PoA \cap Anc[tip] : Resumes(p))'
  BY ResumesKept
<1>4. QED
  BY <1>1, <1>2, <1>3

LEMMA RefuseBlockInv ==
  ASSUME AuditInv, NEW b \in Block \ {Genesis}, RefuseBlock(b)
  PROVE  AuditInv'
<1>1. b \in PoA /\ b \in known /\ failed' = failed \union {b}
  BY DEF RefuseBlock
<1>2. \A i \in DOMAIN Audits[b] : Audits[b][i] \in Block
  BY <1>1, ListedBlocks
<1>3. blank' \subseteq Block
  <2> DEFINE unknown == {i \in DOMAIN Audits[b] : Audits[b][i] \notin known}
             first == {i \in unknown : \A j \in unknown : i <= j}
  <2>1. blank' = IF PrevPoA(b) = NoBlock THEN blank \union {Audits[b][i] : i \in first} ELSE blank
    BY DEF RefuseBlock
  <2>2. first \subseteq DOMAIN Audits[b]
    OBVIOUS
  <2> HIDE DEF first
  <2>3. QED
    BY <1>2, <2>1, <2>2 DEF AuditInv, AuditTypeOK
<1>4. QED
  BY <1>1, <1>3, OtherInv DEF RefuseBlock, AuditInv, AuditTypeOK

LEMMA AuditNextInv == AuditInv /\ [AuditNext]_auditVars => AuditInv'
<1> SUFFICES ASSUME AuditInv, [AuditNext]_auditVars PROVE AuditInv'
  OBVIOUS
<1>1. ASSUME NEW b \in Block \ {Genesis}, EraseBlank(b) PROVE AuditInv'
  BY <1>1, OtherInv DEF EraseBlank, AuditInv, AuditTypeOK
<1>2. CASE UNCHANGED auditVars
  BY <1>2, OtherInv DEF auditVars, AuditInv, AuditTypeOK
<1>3. QED
  BY <1>1, <1>2, AddToBlockIndexInv, ConnectTipInv, RefuseBlockInv, DisconnectTipInv, RestartInv
     DEF AuditNext

(* The index and its forward pointers stay sound, and the lists on the      *)
(* chain follow one another without a gap, for every tree of blocks, every  *)
(* choice of lists and every order of headers, restarts and reorganisations. *)
THEOREM AuditInvariance == AuditSpec => []AuditInv
<1>1. QED
  BY AuditInitInv, AuditNextInv, PTL DEF AuditSpec

-----------------------------------------------------------------------------
(* No block is audited twice                                                *)

(* What lies above a on the path to c is what is higher than a on it.       *)
LEMMA AboveIsHigher ==
  ASSUME NEW c \in Block, NEW a \in Anc[c]
  PROVE  Above(a, c) = {x \in Anc[c] : Height[x] > Height[a]}
<1>1. a \in Block /\ Anc[c] \subseteq Block
  BY AncSelf
<1>2. ASSUME NEW x \in Anc[c] PROVE x \in Anc[a] <=> ~ (Height[x] > Height[a])
  <2>1. Height[x] \in Nat /\ Height[a] \in Nat
    BY <1>1
  <2>2. x \in Anc[a] => x = a \/ Height[x] < Height[a]
    BY <1>1, AncLower
  <2>3. Height[x] <= Height[a] => x \in Anc[a]
    BY LowerIsAncestor
  <2>4. QED
    BY <2>1, <2>2, <2>3
<1>3. QED
  BY <1>2 DEF Above

(* Each list of the chain ends with its highest block and lies above the    *)
(* end of the one before it.                                                *)
LEMMA ListClimbs ==
  ASSUME AuditInv, FirstEndsHighest, NEW b \in PoA \cap Anc[tip]
  PROVE  /\ LastAudited(b) \in Listed(b) /\ Listed(b) \subseteq Block
         /\ \A x \in Listed(b) : Height[x] <= Height[LastAudited(b)]
         /\ PrevPoA(b) # NoBlock =>
               /\ LastAudited(PrevPoA(b)) \in Block
               /\ \A x \in Listed(b) : Height[x] > Height[LastAudited(PrevPoA(b))]
<1>1. tip \in Block
  BY DEF AuditInv, AuditTypeOK
<1>2. LastAudited(b) \in Listed(b) /\ Listed(b) \subseteq Block
  BY ListedBlocks DEF AuditInv, Resumes
<1>3. CASE PrevPoA(b) = NoBlock
  BY <1>2, <1>3 DEF FirstEndsHighest
<1>4. CASE PrevPoA(b) # NoBlock
  <2> DEFINE start == LastAudited(PrevPoA(b))
             last == LastAudited(b)
  <2>1. PrevPoA(b) \in PoA \cap Anc[tip]
    BY <1>1, <1>4, PrevPoAOnPath
  <2>2. start \in Block
    BY <2>1, ListedBlocks DEF AuditInv, Resumes
  <2>3. start \in Anc[last] /\ Lists(b, Above(start, last))
    BY <1>4 DEF AuditInv, Resumes
  <2>4. Listed(b) \subseteq Above(start, last)
    BY <2>3 DEF Lists
  <2>5. \A x \in Listed(b) : x \in Anc[last] /\ Height[x] > Height[start]
    BY <1>2, <2>3, <2>4, AboveIsHigher
  <2>6. ASSUME NEW x \in Listed(b) PROVE Height[x] <= Height[last]
    <3>1. x = last \/ Height[x] < Height[last]
      BY <1>2, <2>5, AncLower
    <3>2. Height[x] \in Nat /\ Height[last] \in Nat
      BY <1>2
    <3>3. QED
      BY <3>1, <3>2
  <2>7. QED
    BY <1>2, <2>2, <2>5, <2>6
<1>5. QED
  BY <1>3, <1>4

(* A list lies above the ends of all the lists below it: look at the lowest *)
(* block whose list does not.                                               *)
LEMMA ListAboveEarlier ==
  ASSUME AuditInv, FirstEndsHighest, NEW b \in PoA \cap Anc[tip], NEW c \in PoA \cap Anc[tip],
         Height[c] < Height[b]
  PROVE  /\ PrevPoA(b) # NoBlock
         /\ Height[LastAudited(c)] <= Height[LastAudited(PrevPoA(b))]
<1> DEFINE A == PoA \cap Anc[tip]
           Low(x, y) == Height[LastAudited(y)] <= Height[LastAudited(PrevPoA(x))]
           Bad == {x \in A : \E y \in A : Height[y] < Height[x] /\ ~ Low(x, y)}
<1>1. tip \in Block /\ Bad \in SUBSET Block
  BY DEF AuditInv, AuditTypeOK
<1>2. ASSUME Bad # {} PROVE FALSE
  <2>1. PICK x \in Bad : \A z \in Bad : Height[x] <= Height[z]
    <3> HIDE DEF Bad
    <3>1. QED
      BY <1>1, <1>2, LowestExists
  <2>2. PICK y \in A : Height[y] < Height[x] /\ ~ Low(x, y)
    OBVIOUS
  <2> DEFINE p == PrevPoA(x)
  <2>3. x \in A /\ p # NoBlock /\ p \in A /\ Height[p] < Height[x]
        /\ (y = p \/ Height[y] < Height[p])
    BY <1>1, <2>2, PrevPoAOnPath
  <2>4. \A z \in A : LastAudited(z) \in Block /\ Height[LastAudited(z)] \in Nat
    BY ListClimbs
  <2>5. y # p
    <3>1. Height[LastAudited(p)] \in Nat
      BY <2>3, <2>4
    <3>2. \A n \in Nat : n <= n
      OBVIOUS
    <3>3. Low(x, p)
      BY <3>1, <3>2
    <3> HIDE DEF Low
    <3>4. QED
      BY <2>2, <3>3
  <2>6. p \notin Bad
    <3>1. Height[p] \in Nat /\ Height[x] \in Nat
      BY <2>3
    <3> HIDE DEF Bad, p, A
    <3>2. QED
      BY <2>1, <2>3, <3>1
  <2>7. Low(p, y) /\ PrevPoA(p) # NoBlock
    BY <1>1, <2>3, <2>5, <2>6, PrevPoAOnPath
  <2>8. PrevPoA(p) \in A
    BY <1>1, <2>3, <2>7, PrevPoAOnPath
  <2>9. Height[LastAudited(p)] > Height[LastAudited(PrevPoA(p))]
    BY <2>3, <2>7, ListClimbs
  <2>10. Low(x, y)
    <3> DEFINE End(z) == Height[LastAudited(z)]
    <3>1. End(y) \in Nat /\ End(p) \in Nat /\ End(PrevPoA(p)) \in Nat
      BY <2>3, <2>4, <2>8
    <3>2. End(y) <= End(PrevPoA(p)) /\ End(p) > End(PrevPoA(p))
      BY <2>7, <2>9
    <3>3. End(y) <= End(p)
      <4> HIDE DEF End, p
      <4>1. QED
        BY <3>1, <3>2
    <3>4. QED
      BY <3>3
  <2>11. QED
    BY <2>2, <2>10
<1>3. PrevPoA(b) # NoBlock
  BY <1>1, PrevPoAOnPath
<1>4. QED
  BY <1>2, <1>3

LEMMA AuditsApart ==
  ASSUME AuditInv, FirstEndsHighest, NEW b \in PoA \cap Anc[tip], NEW c \in PoA \cap Anc[tip],
         Height[c] < Height[b]
  PROVE  Listed(b) \cap Listed(c) = {}
<1>1. SUFFICES ASSUME NEW x \in Listed(b), x \in Listed(c) PROVE FALSE
  OBVIOUS
<1>2. /\ x \in Block /\ LastAudited(c) \in Block
      /\ Height[x] <= Height[LastAudited(c)]
  BY <1>1, ListClimbs
<1>3. PrevPoA(b) # NoBlock /\ Height[LastAudited(c)] <= Height[LastAudited(PrevPoA(b))]
  BY ListAboveEarlier
<1>4. LastAudited(PrevPoA(b)) \in Block /\ Height[x] > Height[LastAudited(PrevPoA(b))]
  BY <1>1, <1>3, ListClimbs
<1>5. Height[x] \in Nat /\ Height[LastAudited(c)] \in Nat /\ Height[LastAudited(PrevPoA(b))] \in Nat
  BY <1>2, <1>4
<1>6. QED
  BY <1>2, <1>3, <1>4, <1>5

LEMMA AuditInvOnce == AuditInv => AuditedOnce
<1>1. SUFFICES ASSUME AuditInv, FirstEndsHighest,
                      NEW b \in PoA \cap Anc[tip], NEW c \in PoA \cap Anc[tip], b # c
               PROVE  Listed(b) \cap Listed(c) = {}
  BY DEF AuditedOnce
<1>2. tip \in Block /\ Height[b] \in Nat /\ Height[c] \in Nat
  <2>1. tip \in Block
    BY <1>1 DEF AuditInv, AuditTypeOK
  <2>2. QED
    BY <2>1
<1>3. Height[b] # Height[c]
  BY <1>1, <1>2, OnePerHeight
<1>4. CASE Height[c] < Height[b]
  BY <1>1, <1>4, AuditsApart
<1>5. CASE Height[b] < Height[c]
  BY <1>1, <1>5, AuditsApart
<1>6. QED
  BY <1>2, <1>3, <1>4, <1>5

(* However many proof-of-audit blocks a chain holds, no proof-of-stake      *)
(* block is audited, and paid for, twice on it, although ConnectBlock       *)
(* compares each with its predecessor alone.                                *)
THEOREM NothingIsAuditedTwice == AuditSpec => []AuditedOnce
<1>1. QED
  BY AuditInvariance, AuditInvOnce, PTL

-----------------------------------------------------------------------------
(* The verdict is the miner's                                               *)

LEMMA ChainKnown == AuditInv => tip \in Block /\ Anc[tip] \subseteq known
  BY AncLeast DEF AuditInv, AuditTypeOK

(* Where the chain goes on and no fork is known the walk follows it:        *)
(* pnext, if it is there at all, is the chain's, and chainActive is else.   *)
LEMMA ChainSuccessor ==
  ASSUME AuditInv, NEW b \in known \cap PoA, Parent[b] = tip, PrevPoA(b) # NoBlock,
         Undisputed(b), NEW u \in Garbage, NEW a \in Anc[tip], a # tip,
         Height[LastAudited(PrevPoA(b))] <= Height[a]
  PROVE  Successor(a, u) \in Anc[tip] \ {Genesis} /\ Parent[Successor(a, u)] = a
<1> DEFINE above == {c \in Anc[tip] \ {Genesis} : Parent[c] = a}
<1>1. tip \in Block /\ Anc[tip] \subseteq known /\ known \subseteq Block /\ a \in known
  BY ChainKnown DEF AuditInv, AuditTypeOK
<1>2. above # {}
  BY <1>1, ChildOnPath
<1>3. Children(a) \subseteq above
  <2>1. SUFFICES ASSUME NEW c \in Children(a) PROVE c \in Anc[tip]
    BY DEF Children
  <2>2. c \in Anc[b]
    BY DEF Undisputed, Children
  <2>3. c # b
    BY DEF Children
  <2>4. QED
    BY <2>2, <2>3, ListedBlocks, AncParent
<1>4. above \subseteq Children(a)
  BY <1>1 DEF Children
<1>5. pnext[a] \in Block \union {NoBlock, Unset}
  BY <1>1 DEF AuditInv, AuditTypeOK
<1>6. CASE pnext[a] = NoBlock
  <2>1. Successor(a, u) = CHOOSE c \in above : TRUE
    BY <1>2, <1>6 DEF Successor
  <2>2. Successor(a, u) \in above
    <3> HIDE DEF above
    <3>1. QED
      BY <1>2, <2>1
  <2>3. QED
    BY <2>2
<1>7. CASE pnext[a] = Unset
  BY <1>1, <1>2, <1>4, <1>7 DEF AuditInv, PnextSound
<1>8. CASE pnext[a] \in Block
  <2>1. pnext[a] \in Children(a)
    BY <1>1, <1>8 DEF AuditInv, PnextSound
  <2>2. Successor(a, u) = pnext[a]
    BY <1>8 DEF Successor
  <2>3. QED
    BY <1>3, <2>1, <2>2
<1>9. QED
  BY <1>5, <1>6, <1>7, <1>8

(* Beyond the tip the walk finds a block only if one was indexed since the  *)
(* node started.                                                            *)
LEMMA TipSuccessor ==
  ASSUME AuditInv, NEW b \in known \cap PoA, Parent[b] = tip, NEW u \in Garbage
  PROVE  Successor(tip, u) # NoBlock <=> \E c \in known \ indexed : Parent[c] = tip
<1>1. tip \in known /\ known \subseteq Block /\ Genesis \in indexed
  BY DEF AuditInv, AuditTypeOK
<1>2. b \in Children(tip)
  BY ListedBlocks DEF Children
<1>3. {c \in Anc[tip] \ {Genesis} : Parent[c] = tip} = {}
  BY <1>1, AncSelf, AncParent
<1>4. pnext[tip] \in Block \union {NoBlock, Unset} /\ pnext[tip] # Unset
  BY <1>1, <1>2 DEF AuditInv, AuditTypeOK, PnextSound
<1>5. CASE pnext[tip] = NoBlock
  <2>1. Successor(tip, u) = NoBlock
    BY <1>3, <1>5 DEF Successor
  <2>2. Children(tip) \subseteq indexed
    BY <1>1, <1>5 DEF AuditInv, PnextSound
  <2>3. QED
    BY <1>1, <2>1, <2>2 DEF Children
<1>6. CASE pnext[tip] \in Block
  <2>1. Successor(tip, u) = pnext[tip]
    BY <1>6 DEF Successor
  <2>2. pnext[tip] \in Children(tip) \ indexed
    BY <1>1, <1>6 DEF AuditInv, PnextSound
  <2>3. QED
    BY <1>6, <2>1, <2>2 DEF Children
<1>7. QED
  BY <1>4, <1>5, <1>6

(* So a walk that is no higher than the tip has not left the chain: look at *)
(* the lowest block where it would have.                                    *)
LEMMA WalkOnChain ==
  ASSUME AuditInv, NEW b \in known \cap PoA, Parent[b] = tip, PrevPoA(b) # NoBlock,
         Undisputed(b), NEW u \in Garbage, NEW last \in Block,
         WalkReaches(LastAudited(PrevPoA(b)), last, u), Height[last] <= Height[tip]
  PROVE  last \in Anc[tip]
<1> DEFINE start == LastAudited(PrevPoA(b))
           Off == {x \in Anc[last] : x \notin Anc[tip]}
<1>1. tip \in Block /\ start \in Anc[tip] /\ start \in Anc[last]
  BY ChainKnown DEF Undisputed, WalkReaches
<1>2. start \in Block /\ Anc[last] \subseteq Block /\ Anc[start] \subseteq Anc[tip]
  BY <1>1, AncSelf, AncTransitive
<1>3. SUFFICES ASSUME Off # {} PROVE FALSE
  BY AncSelf
<1>4. PICK x \in Off : \A y \in Off : Height[x] <= Height[y]
  <2> HIDE DEF Off
  <2>1. Off \in SUBSET Block
    BY <1>2 DEF Off
  <2>2. QED
    BY <1>3, <2>1, LowestExists
<1>5. x \in Above(start, last) /\ x \in Block \ {Genesis} /\ Parent[x] \in Anc[last]
  <2>1. x \in Above(start, last) /\ x \in Block
    BY <1>2 DEF Above
  <2>2. x # Genesis
    BY <1>1, AncRoot
  <2>3. QED
    BY <2>1, <2>2, AncClosed DEF ClosedUnderParent
<1>6. /\ Height[x] = Height[Parent[x]] + 1 /\ Height[Parent[x]] \in Nat
      /\ Height[x] \in Nat /\ Height[last] \in Nat /\ Height[tip] \in Nat /\ Height[start] \in Nat
  BY <1>1, <1>2, <1>5
<1>7. Parent[x] \in Anc[tip]
  <2>1. Parent[x] \notin Off
    <3> HIDE DEF Off
    <3>1. QED
      BY <1>4, <1>6
  <2>2. QED
    BY <1>5, <2>1
<1>8. Height[x] > Height[start] /\ Height[x] <= Height[last]
  <2>1. Height[x] > Height[start]
    BY <1>1, <1>5, AboveIsHigher
  <2>2. x = last \/ Height[x] < Height[last]
    BY AncLower
  <2>3. QED
    BY <1>6, <2>1, <2>2
<1>9. Height[start] <= Height[Parent[x]] /\ Parent[x] # tip
  <2> HIDE DEF start, Off
  <2>1. Height[start] <= Height[Parent[x]]
    BY <1>6, <1>8
  <2>2. Height[Parent[x]] < Height[last]
    BY <1>6, <1>8
  <2>3. Height[Parent[x]] # Height[tip]
    BY <1>6, <2>2
  <2>4. QED
    BY <2>1, <2>3
<1>10. Successor(Parent[x], u) \in Anc[tip]
  BY <1>7, <1>9, ChainSuccessor
<1>11. QED
  BY <1>5, <1>10 DEF WalkReaches

(* Lists is about the set of blocks and not about how it is written.        *)
LEMMA MinedSet ==
  ASSUME NEW d \in Block, NEW start \in Anc[d], NEW last \in Anc[d], start \in Anc[last]
  PROVE  Above(start, last) = {a \in Anc[d] : /\ Height[a] > Height[start]
                                               /\ Height[a] <= Height[last]}
<1>1. Anc[d] \subseteq Block /\ Anc[last] \subseteq Anc[d]
  BY AncSelf, AncTransitive
<1>2. ASSUME NEW a \in Anc[d] PROVE a \in Anc[last] <=> Height[a] <= Height[last]
  <2>1. Height[a] \in Nat /\ Height[last] \in Nat
    BY <1>1
  <2>2. a \in Anc[last] => a = last \/ Height[a] < Height[last]
    BY <1>1, AncLower
  <2>3. Height[a] <= Height[last] => a \in Anc[last]
    BY LowerIsAncestor
  <2>4. QED
    BY <2>1, <2>2, <2>3
<1>3. Above(start, last) = {x \in Anc[last] : Height[x] > Height[start]}
  BY <1>1, AboveIsHigher
<1>4. QED
  BY <1>1, <1>2, <1>3

(* What is accepted is what the miner makes.                                *)
LEMMA AcceptedIsMined ==
  ASSUME AuditInv, NEW b \in known \cap PoA, Parent[b] = tip, PrevPoA(b) # NoBlock,
         Undisputed(b), NEW u \in Garbage, AuditPasses(b, u)
  PROVE  /\ AsMined(b)
         /\ LastAudited(b) = Parent[b] => \E c \in known \ indexed : Parent[c] = Parent[b]
<1> DEFINE start == LastAudited(PrevPoA(b))
           last == LastAudited(b)
<1>1. tip \in Block /\ start \in Anc[tip]
  BY ChainKnown DEF Undisputed
<1>2. Len(Audits[b]) >= MinAudited /\ last \in Block
  BY ListedBlocks DEF AuditPasses
<1>3. /\ WalkReaches(start, last, u) /\ Lists(b, Above(start, last))
      /\ Height[last] <= Height[Parent[b]] /\ Successor(last, u) # NoBlock
  <2>1. Audits[b] # << >>
    BY <1>2
  <2>2. QED
    BY <2>1 DEF AuditPasses, ContainsRecent
<1>4. last \in Anc[tip]
  BY <1>2, <1>3, WalkOnChain
<1>5. start \in Anc[last]
  BY <1>3 DEF WalkReaches
<1>6. AsMined(b)
  <2>1. Above(start, last) = {a \in Anc[tip] : /\ Height[a] > Height[start]
                                               /\ Height[a] <= Height[last]}
    BY <1>1, <1>4, <1>5, MinedSet
  <2>2. QED
    BY <1>2, <1>3, <2>1 DEF AsMined
<1>7. last = Parent[b] => \E c \in known \ indexed : Parent[c] = Parent[b]
  BY <1>3, TipSuccessor
<1>8. QED
  BY <1>6, <1>7

(* The list of the predecessor stays below its end, and so does not overlap *)
(* with what lies above it.                                                 *)
LEMMA PredecessorBelow ==
  ASSUME AuditInv, FirstEndsHighest, NEW b \in known \cap PoA, Parent[b] = tip,
         PrevPoA(b) # NoBlock, Undisputed(b),
         \A x \in Listed(b) : Height[x] > Height[LastAudited(PrevPoA(b))]
  PROVE  NotAuditingOverlap(b)
<1>1. PrevPoA(b) \in PoA \cap Anc[tip]
  BY PrevPoAFound
<1>2. ASSUME NEW x \in Listed(PrevPoA(b)), x \in Listed(b) PROVE FALSE
  <2>1. /\ x \in Block /\ LastAudited(PrevPoA(b)) \in Block
        /\ Height[x] <= Height[LastAudited(PrevPoA(b))]
    BY <1>1, <1>2, ListClimbs
  <2>2. Height[x] > Height[LastAudited(PrevPoA(b))]
    BY <1>2
  <2>3. Height[x] \in Nat /\ Height[LastAudited(PrevPoA(b))] \in Nat
    BY <2>1
  <2>4. QED
    BY <2>1, <2>2, <2>3
<1>3. QED
  BY <1>2 DEF NotAuditingOverlap

(* What the miner makes is accepted.                                        *)
LEMMA MinedIsAccepted ==
  ASSUME AuditInv, FirstEndsHighest, NEW b \in known \cap PoA, Parent[b] = tip,
         PrevPoA(b) # NoBlock, Undisputed(b), NEW u \in Garbage, AsMined(b),
         LastAudited(b) = Parent[b] => \E c \in known \ indexed : Parent[c] = Parent[b]
  PROVE  AuditPasses(b, u)
<1> DEFINE start == LastAudited(PrevPoA(b))
           last == LastAudited(b)
           S == {a \in Anc[tip] : Height[a] > Height[start] /\ Height[a] <= Height[last]}
<1>1. tip \in Block /\ Anc[tip] \subseteq known /\ known \subseteq Block /\ start \in Anc[tip]
  BY ChainKnown DEF Undisputed, AuditInv, AuditTypeOK
<1>2. Len(Audits[b]) >= MinAudited /\ Lists(b, S)
  BY DEF AsMined
<1>3. last \in Listed(b) /\ Listed(b) = {c \in S : Auditable(c)}
  BY <1>2, ListedBlocks DEF Lists
<1>4. last \in Anc[tip] /\ Height[last] > Height[start]
  BY <1>3
<1>5. start \in Block /\ last \in Block /\ Height[start] \in Nat /\ Height[last] \in Nat /\ Height[tip] \in Nat
  BY <1>1, <1>4
<1>6. start \in Anc[last]
  <2>1. Height[start] <= Height[last]
    BY <1>4, <1>5
  <2>2. QED
    BY <1>1, <1>4, <2>1, LowerIsAncestor
<1>7. S = Above(start, last)
  BY <1>1, <1>4, <1>6, MinedSet
<1>8. Height[last] <= Height[tip]
  <2>1. last = tip \/ Height[last] < Height[tip]
    BY <1>1, <1>4, AncLower
  <2>2. QED
    BY <1>5, <2>1
<1>9. WalkReaches(start, last, u)
  <2>1. SUFFICES ASSUME NEW x \in S PROVE Successor(Parent[x], u) = x
    <3> HIDE DEF S, start, last
    <3>1. QED
      BY <1>6, <1>7 DEF WalkReaches
  <2>2. x \in Anc[tip] /\ Height[x] > Height[start]
    OBVIOUS
  <2>3. x \in Block \ {Genesis}
    BY <1>1, <1>5, <2>2
  <2>4. Height[x] = Height[Parent[x]] + 1 /\ Height[Parent[x]] \in Nat /\ Height[x] \in Nat
    BY <2>3
  <2>5. Parent[x] \in Anc[tip]
    BY <1>1, <2>2, <2>3, AncClosed DEF ClosedUnderParent
  <2>6. Height[start] <= Height[Parent[x]]
    BY <1>5, <2>2, <2>4
  <2>7. Parent[x] # tip
    BY <1>1, <2>2, <2>3, AncSelf, AncParent
  <2>8. /\ Successor(Parent[x], u) \in Anc[tip] \ {Genesis}
        /\ Parent[Successor(Parent[x], u)] = Parent[x]
    <3> HIDE DEF S, last
    <3>1. QED
      BY <2>5, <2>6, <2>7, ChainSuccessor
  <2>9. Height[Successor(Parent[x], u)] = Height[x]
    BY <1>1, <2>4, <2>8
  <2>10. QED
    BY <1>1, <2>2, <2>8, <2>9, OnePerHeight
<1>10. Successor(last, u) # NoBlock
  <2>1. CASE last = tip
    BY <2>1, TipSuccessor
  <2>2. CASE last # tip
    <3>1. Height[start] <= Height[last]
      BY <1>4, <1>5
    <3>2. Successor(last, u) \in Anc[tip]
      BY <1>4, <2>2, <3>1, ChainSuccessor
    <3>3. QED
      BY <1>1, <3>2
  <2>3. QED
    BY <2>1, <2>2
<1>11. ContainsRecent(b, u)
  <2>1. Lists(b, Above(start, last))
    BY <1>2, <1>7
  <2>2. QED
    BY <1>8, <1>9, <1>10, <2>1 DEF ContainsRecent
<1>12. Listed(b) \subseteq known \ PoA
  BY <1>1, <1>3 DEF Auditable
<1>13. NotAuditingOverlap(b)
  <2>1. \A x \in Listed(b) : Height[x] > Height[start]
    BY <1>3
  <2>2. QED
    BY <2>1, PredecessorBelow
<1>14. QED
  BY <1>2, <1>11, <1>12, <1>13 DEF AuditPasses

LEMMA AuditInvDecision == AuditInv => DecisionExact
<1>1. QED
  BY AcceptedIsMined, MinedIsAccepted DEF DecisionExact

(* Where no fork is known among the blocks to audit, what a node accepts is *)
(* what the miner makes, whatever came before and whatever unassigned       *)
(* pointers hold: the walk over pnext finds the chain.                      *)
THEOREM DecisionIsExact == AuditSpec => []DecisionExact
<1>1. QED
  BY AuditInvariance, AuditInvDecision, PTL
=============================================================================
