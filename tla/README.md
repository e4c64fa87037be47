# A TLA+ model of the DAPS node

DAPS (`src/src`, a C++ node descended from PIVX and Bitcoin Core 0.12) keeps a
block chain with proof of work, proof of stake and proof of audit, and spends
its coins through ring signatures, so that a double spend is recognised by its
*key image* and no longer by the output it names.

This directory holds TLA+ modules for the parts of the node that decide which
chain is active and what is spent on it, TLC configurations that check them on
small instances, and theorems that TLAPS has proved for every instance.
`PROJECT.json` ties every definition to the lines it models. Line numbers below
are lines of files under `src/src` unless another path is given.

    tlc -config MCChainState_threads.cfg MCChainState.tla
    tlapm ChainStateProofs.tla

## 1. The system

| component | state | operations | hard behaviours |
|---|---|---|---|
| Block index and active chain (`main.cpp`, `chain.h`) | `mapBlockIndex`, `nStatus`, `nChainTx`, `nSequenceId`, `mapBlocksUnlinked`, `setBlockIndexCandidates`, `chainActive`, `cs_main` | `AcceptBlock`, `ReceivedBlockTransactions`, `FindMostWorkChain`, `ActivateBestChain(Step)`, `ConnectTip`, `DisconnectTip`, `InvalidateBlock`, `ReconsiderBlock` | `cs_main` is released between the steps of one reorganisation; data in any order; failures half way |
| Key-image ledger (`txdb.cpp:191-220`, `main.cpp:312-375`) | one list of block hashes per key image, in LevelDB | `WriteKeyImage`, `IsKeyImageSpend1`, `CheckKeyImageSpendInMainChain` | lists only grow; written before the block is known to be valid; crashes; the wallet writes too |
| Coins (`coins.cpp`, `txdb.cpp:33-74`) | database, `pcoinsTip`, a view per connection, with DIRTY and FRESH flags | `FetchCoins`, `ModifyCoins`, `BatchWrite`, `Flush` | flags that allow an entry to vanish; a write that fails after the cache was emptied |
| State flushing and recovery (`main.cpp:3256-3312`, 4880-5060, 5085-5170) | block records, coins, best block and the flag `shutdown` on disk; what of it is only in memory | `FlushStateToDisk`, `LoadBlockIndexDB`, `VerifyDB`, `PrepareShutdown`, `-reindex` | a crash or a full disk between two writes; a replay by height |
| Memory pool (`txmempool.cpp`, `main.cpp:1700-1960`, `miner.cpp`) | `mapTx`, `mapNextTx` | accept, remove on connection, resurrect on disconnection, `CreateNewBlock` | nothing excludes two spends of one key image; the order in which pool and chain are updated |
| Script check queue (`checkqueue.h`) | `queue`, `nTodo`, `nIdle`, `nTotal`, `fAllOk` | `Add`, `Loop`, `Wait` | workers that come late, sleep, wake for nothing or are interrupted |
| Proof of audit (`pow.cpp`, `main.cpp:3009`) | `CBlockIndex::pnext`, the audited blocks named in a PoA block | `CheckPrevPoABlockHash`, `CheckPoAContainRecentHash`, `CheckPoABlockNotAuditingOverlap` | `pnext` names the child indexed last, is not initialised, and is lost on restart |
| Block download and peers (`main.cpp:780-1070`, `net.cpp`) | `mapBlocksInFlight`, `mapNodeState` with its per-peer queues and clocks | `FindNextBlocksToDownload`, `MarkBlockAsInFlight`, `MarkBlockAsReceived`, `FinalizeNode` | late answers, stalling, disconnections by another thread |
| Task scheduler (`scheduler.cpp`) | the task map, its service threads | `schedule`, `serviceQueue`, interruption | lost wake-ups, a task run before its time, destruction under a thread |
| HTTP server and its work queue (`httpserver.cpp`) | the queue, its workers, `evhttp`'s callbacks | `Enqueue`, `Run`, `Interrupt`, `WaitExit`, `StopHTTPServer` | requests that are queued, running or arriving when the node stops |
| Script and block rules (`main.cpp`, `script/`) | none | `CheckBlock`, `ContextualCheckBlock`, `ConnectBlock`'s checks | arithmetic and cryptography |
| Staking and mining (`kernel.cpp`, `miner.cpp`) | stake seen, modifiers | `CreateNewBlock`, staker thread | a caller of `ProcessNewBlock` on its own thread |
| Orphan pool (`main.cpp:1120-1220`) | orphans by previous transaction | add, erase, evict | never filled, see section 7 |
| Masternodes: list, synchronisation, payments, budget, instant transactions, obfuscation | lists, votes, phases with timeouts | many message handlers | votes from peers in any order, time windows |
| Wallet, RPC, REST, GUI, alerts, Tor, ZeroMQ | their own | readers and clients of the above | mostly I/O |

How they interact: every block comes to `ProcessNewBlock` from the message
handler, the staker or miner, RPC or a block file, each on its own thread;
`ProcessNewBlock` stores it under `cs_main`, and then calls `ActivateBestChain`,
which takes and releases `cs_main` once per step. `ConnectTip` runs
`ConnectBlock` on a coins view over `pcoinsTip`, which reads and writes the
key-image lists and hands the script checks to the queue's workers; then the
view is flushed into `pcoinsTip`, and `FlushStateToDisk` may move block index,
key images and coins to disk. The
memory pool asks the key-image lists what is spent, gives its transactions to the
miner, and is told of every block that is connected or disconnected. The main thread
ends the node: it interrupts the thread group that holds the scheduler's thread and
the script checkers, waits for the HTTP workers, and flushes what is left.

What makes it correct, and where a test would hardly look, is the list of
hazards in `PROJECT.json`, each at its line with the properties that would catch
it.

## 2. The modules

    BlockTree ---------- ChainState ---- ChainStateProofs
        |  \                 \-- MCChainState
        |   \-- BlockTreeTheorems (used by the proofs)
        |-- KeyImages ------ TxPool ------ MCTxPool          (refines KeyImages)
        |                       \-- TxPoolProofs              (about both)
        |-- CoinsCache ----- CoinsCacheProofs, MCCoinsCache    (refines CoinsStore)
        |-- ChainRecovery -- ChainRecoveryProofs, MCChainRecovery
        |-- BlockDownload -- BlockDownloadProofs, MCBlockDownload
        \-- PoAAudit ------- MCPoAAudit
                     \------ BlockVerdictProofs                (about both)
            CheckQueue ----- MCCheckQueue
            Scheduler --\
            WorkQueue ---\-- NodeShutdown -- NodeShutdownProofs, MCNodeShutdown

* **BlockTree** has the constants that describe the blocks that can reach the
  node: a tree with `Parent`, `Height`, `ChainWork`, and the ancestor function
  `Anc`, the blocks that `GetAncestor` can answer. `BlockTreeTheorems` proves about it
  what the other proofs cite.
* **ChainState** models the block index and `ActivateBestChain` as it is
  scheduled. A variable per data structure: `known` is the key set of
  `mapBlockIndex`, `level`, `haveData`, `failedValid`, `failedChild` are the
  parts of `nStatus`, `linked` is `nChainTx != 0`, `seqId` is `nSequenceId`,
  `unlinked`, `candidates`, `tip`, `bestInvalid` are what their names say, `lock`
  is the holder of `cs_main` (recursive, taken with `TRY_LOCK`). A thread's `pc`
  says where it is: `activate` (before the lock), `step` (inside
  `ActivateBestChainStep`), `looptest` (the `while` condition, evaluated after
  `cs_main` was released), `invalidate`. `verdict` fixes once what `ConnectBlock`
  will say of each block, `"ok"`, `"invalid"` or `"corrupt"`; the runs range
  over every assignment. `nested` marks the `ActivateBestChain` that
  `AcceptBlock` calls with the lock held when a checkpoint block had failed
  (4503-4510).
* **KeyImages** models the records `<<key image, block>>` in the order they are
  written, how many are synced, the tip, and every best block a crash could
  bring back. `ConnectBlock` checks and records one input at a time and may
  fail after any of them. A restart goes back to any best block the coins may
  have reached and keeps any prefix of the records beyond the synced ones.
* **CoinsCache** models database, `pcoinsTip` and one view with entries
  `[coin, dirty, fresh]`, down to the entries a read leaves behind. Its abstract
  specification **CoinsStore** is three plain sets of coins: what is on disk, at
  the tip, and in the open view. `ImplementsStore` says that the caches with
  their flags are invisible.
* **BlockDownload** models how missing blocks are asked of peers. `inFlight` is
  `mapBlocksInFlight` (the peer for a hash), `blocksInFlight`, `nInFlight`,
  `stalling`, `bestKnown`, `lastUnknown` and `lastCommon` are the fields of
  `CNodeState`, `nQueued` is `nQueuedValidatedHeaders`, and `requests` remembers
  what a peer was asked and has not answered. One action per handler: an inv
  (`Announce`), a block message (`DeliverBlock`), the end of `SendMessages`
  (`RequestBlocks` or `NothingInteresting`, and `TimeOut`), `InitializeNode`,
  `FinalizeNode`, and `ProcessNewBlock` called without a peer
  (`ProcessOwnBlock`). `FindNextBlocksToDownload` is a handful of sets: what the
  search looks at, what of it is missing, wanted and within the window.
* **CheckQueue** models `CCheckQueue`: each action is one hold of its mutex, the
  counters are computed as the thread leaves them, the batch size by the
  division of line 110. `good` is the set of checks that will succeed; `added`
  and `ran` are history variables.
* **TxPool** adds the memory pool to KeyImages, so that each action of the
  ledger has its effect on the pool: `ConnectTip` removes the block's transactions and
  what `removeConflicts` finds, `DisconnectTip` offers the block's transactions
  again while its key images still count, a restart empties the pool. `Templates` is
  what `CreateNewBlock` may choose. Fees, sizes and priorities are left out: they make
  the code refuse more and choose among what the model allows.
* **ChainRecovery** follows one `ConnectTip` or `DisconnectTip` through `pcoinsTip`,
  the two writes of `FlushStateToDisk` and `UpdateTip`. `dIndex`, `dUndo`, `dFileHeight`,
  `dCoins`, `dBest` and `prepared` are what a restart finds. `Start` is a start after
  a recorded shutdown; `StartReplaying` and `StartReplayingGenesis` are the two ways
  the loop of `LoadBlockIndexDB` ends when the shutdown was not recorded; `VerifyDB`
  says whether the node refuses to run. Coins are plain sets here, as
  CoinsStore allows. `replayed` is a history variable.
* **Scheduler** and **WorkQueue** model the two services with threads of their own, and
  **NodeShutdown** composes them with the main thread, from `AppInit2` to the
  destruction of the scheduler. A service thread's wait is timed: it may wake when the
  time of the first task has come, when another thread changes the queue, or for nothing.
  A request is held by the queue, by a worker or by nobody; `replies` counts what its
  client got. `begun` is the set of workers that ran before the queue was
  interrupted, `late` the requests that came when the queue was deleted.
* **PoAAudit** models `pnext` as a function that starts as `Unset`, for which
  `ConnectBlock` may read anything, and is forgotten by a restart; the walk over it, which
  goes from child to child and so comes to a block exactly if it takes each step of that block's
  chain (`WalkReaches`); the comparison with the predecessor's list; `known`, `tip`, `failed`, and the NULL entries
  (`blank`) that the audit leaves in `mapBlockIndex` for hashes it does not find.

Definitions named "Bug: ..." in the modules are deliberate mistakes a programmer
could make. They are used by no action; replacing the real definition with
one of them must make TLC refute the property that is meant to notice it. The
list is `mutants` in `PROJECT.json`.

## 3. The runs

| run | what it shows | distinct states |
|---|---|---|
| chain_threads | two fair threads deliver blocks of two branches, activate, invalidate and reconsider; the last blocks tie, one of them and one below the other may be invalid; each `ActivateBestChain` ends | 211,672 |
| chain_faults | a fork above the first block; headers without data, a stake seen before, a failed checkpoint, blocks that turn out invalid or no longer pass `CheckBlock`, disk errors half way through a step or an invalidation | 1,901,194 |
| tx_pool | two branches sharing key images, with a pool that may hold double spends, failed connections, wallet duplicates, crashes; what the miner makes of the pool connects | 2,136,813 |
| coins | the caches implement plain sets of coins, refused batches included; only a refused batch leaves a level with other coins than its block's | 16,135 |
| recovery | crashes and a full disk between any two writes, restarts, replays and reindexing; the coins on disk always have their chain on disk | 49,241 |
| block_download | two peers announce, answer late or never, stall and disconnect while the node's own threads bring the same blocks; no block stays with a silent peer | 142,348 |
| check_queue | verdict, idleness and termination of the check queue | 414,775 |
| shutdown | the scheduler, the HTTP server and its workers while the main thread ends the node at any moment; nobody uses what is destroyed, each request is answered once, the node ends | 549,297 |
| poa_audit | three audits on a chain, three bad ones beside them, a fork among the audited blocks; indexing, restarts and reorganisations in any order | 191,266 |
| chain_corrupt, download_answered, recovery_replay | refute what a comment of the code says, see section 6 | |

**Bounds, and why they are enough.** Five blocks, of which two branches of two,
give every situation `FindMostWorkChain` and `ActivateBestChainStep` tell apart: a tie,
a reorganisation with more than one block to disconnect and to connect, a
failure in its first or second block, a fork at genesis or above
(`MCSiblings`). Two threads suffice for one to act between any two sections of
the other. `MaxRpc` bounds
operator calls at 2: one invalidation and one reconsideration. `MaxRecords = 5`
is room for every key image of the instance on both branches and for a
duplicate. The pool has six transactions over three key images: one image is spent on
both branches and again further down one of them, one on a single branch, one only by
two transactions in no block, of which one spends an output of a block's transaction
and one has it as a decoy; with `MaxReorgDepth = 1` the second block of a branch
makes the first one deep, so that the pool gives up what depends on it. The coins runs have three
transactions over four blocks in two branches: one coin that is created and spent
within the cache's lifetime (so that FRESH matters), one that is created on both
branches with different outputs left, one that the database holds from the start.
In the recovery runs a transaction is in the first block of both branches, so that
the coins of one branch are not simply added to those of the other; the second blocks differ
in work, the first do not, and both branches can be on disk. Three checks for three threads let a batch of
two, an idle thread and a queue that runs dry happen at once; two blocks show
what the first leaves to the second. The block download has five blocks: a
branch of one that is active and a branch of three, of which the index has two,
stored but for a hole or not at all; `Window = 2` puts the third block outside
the window, so that a stall is noticed; one block in transit per peer
makes the limit bite with two peers; three connections let one
peer come back after it was forgotten. Time is left out there: a clock that runs may go
off at once, and the length of a timeout does not matter to the properties. In the
shutdown run two workers and two requests for a queue of one give a full queue,
a request that waits behind another, and one that comes too late; two tasks and
`MaxTime = 2` let one task become the first while the thread waits for the other.
The audits need fourteen blocks: each rule of the audit has a list that passes it and one
that breaks it, and the fork `f5`, `f6` can be indexed before and after the blocks it
competes with.

**Fairness.** `ActivateBestChain` polls `TRY_LOCK(cs_main)` every 50 ms
(3785-3790), so a thread is enabled again and again and not continuously:
`FairSpec` of ChainState is strong fairness of each thread's own steps. It
asks for nothing of the network or the operator. In CheckQueue weak
fairness is enough: each thread that is not in a wait can always take its next
section, waits are left only by notification, and the run shows that no
wake-up is lost although spurious wake-ups and interrupts, which have no
fairness, may take others away. In BlockDownload weak fairness of `TimeOut` says
that the message handler comes back to each peer while time passes (each
entry of `vBlocksInFlight` has its deadline, and the entries before it are finitely
many), and weak fairness of `FinalizeNode` that the socket thread deletes a peer
once no handler holds it. A peer is never required to answer. In NodeShutdown the main
thread, the event loop, the workers and the service thread each are weakly fair:
the operating system lets a thread that can go on go on. Nothing makes the clock
tick, a client send a request or the node stop.

**Deadlock** is checked where the model cannot stop. `CHECK_DEADLOCK FALSE`
appears in runs where no block or round is left, and in the shutdown run, where the
node has ended.

## 4. Properties

Of ChainState: `LinkedIffAllData` (linking is exact in every order of arrival),
`MarksSound` (what is connected was linked, and a block is marked as the child of a failed one
only if it is), `CandidatesSound` (candidates have data, are no worse than the
tip, and the comparator tells them apart), `OrderStable` (a set's sort key does not
change under it), `TargetSound` (what a step works towards stays a clean
candidate under the lock; it implies the assertion of
`PruneBlockIndexCandidates`), `ActiveChainClean`, `BestReachable` (from any moment at
which `cs_main` is free an activation would
reach the best chain there is), `QuiescentBest` (when all threads are done it has been
reached), `ActivationTerminates`.

Of KeyImages: `NoDoubleSpend` (no chain that was ever active spends a key image
twice), `MainChainAnswerExact` (the mempool is told the truth),
`FlushedIsRecorded` (after any crash the surviving chain's key images survive
too), `RecordsClean` (a record is never about a double spend, so the order in which a
list is read does not matter).

Of TxPool: `PoolFollowsChain` (nothing in the pool is confirmed, and what its transactions
say they spend is), `TemplatesConnect` (the miner's blocks spend no key image twice
and use rings the chain has, whatever double spends the pool holds).

Of CoinsCache: `CachesSound` (what DIRTY and FRESH promise, and with it the assertion at
`coins.cpp:179`), `OnlyRefusalCorrupts` (no other step leaves disk or tip with coins
of another block), `ImplementsStore`.

Of ChainRecovery: `DiskChainWhole` (whenever the process dies, the best block of the
coins, its ancestors and, unless blocks were ever replayed, their undo data are on disk), `CoinsMatchBest` (without a
replay coins and best block agree, and `VerifyDB` refuses nothing), `ViewAtTip` (the
assertions of `ConnectBlock` and `DisconnectBlock` on the view's best block),
`ReplayMovesForward` (on an index without forks a replay does what it is for).

Of BlockDownload: `DownloadsConsistent` (the map, the lists and the counters agree, name
only peers that `State()` finds and no stored block, and `nQueuedValidatedHeaders` is
never too small), `StallersOwe` (a
peer is only held for stalling while it owes a block), `LastCommonFull` (the search
never starts above a hole), `TransitBounded`, `SlotReleased` (a
block does not stay with a peer that does not answer).

Of CheckQueue: `AnswerExact` (`Wait` tells the truth, and says yes only of checks that
ran), `IdleBetweenBlocks` (the assertion of `CCheckQueueControl`), `WaitReturns`.

Of NodeShutdown: `NobodyLeftBehind` (nobody uses the work queue or the scheduler when they are
destroyed, but for the two exceptions named in section 7), `AnsweredOnce`,
`NeverEarly` (a task does not run before its time, whatever woke the thread), `EverythingEnds`.

Of PoAAudit: `DecisionExact` (where no fork is known among the blocks to be audited, the
walk accepts what the miner makes, but for one case that depends on a restart), `AuditedOnce`
(no block is audited twice in a chain, forks or not). Both ask that the first list of the chain, which
nobody checks, ends with its highest block (`FirstEndsHighest`).

## 5. What is proved

The proofs hold for every finite block tree, every set of threads, every
assignment of verdicts, every number of transactions, workers and checks. They rest on the named ASSUMEs of the modules and,
where a theorem says so, on hypotheses of its own, which are explained below.

* **ChainStateProofs.** The invariant `IInv` is inductive. `CandidatesSound` and
  `TargetSound` are not so by themselves: a candidate's `nSequenceId` is new only because
  ids are issued in order (`SeqIdsIssued`); the tip can be compared only because it is
  linked (`ActiveLinked`, from `LinkedIffAllData`); a target survives to the end
  of the step only because nobody else holds `cs_main` (`LockDiscipline`); and a failed
  block in the active chain is always on the way out of a running
  `InvalidateBlock` (`FailuresLeave`), unless system errors are allowed, which is
  why `ActiveChainIsClean` assumes `SystemErrors = FALSE`. From it follow
  `TypeCorrect`, `LinksComplete`, `CandidatesAreSound`, `TargetsAreSound`,
  `NestedKeepsLock`, `ActiveChainIsClean` and, for each step, `OrderIsStable`.

  What failures leave behind needs more. `MarksInv` relates the marks to the rest of the
  index: what was connected once was linked and still has only connected blocks below it
  (`ConnectedSound`), and without an operator's call nothing in the active chain is marked
  (`UntouchedClean`). `MarksAreSound` follows for every history in which no block is reconsidered
  below a marked one (`TopReconsidered`), and unconditionally `ScriptsStayClosed`.
  `BestStaysReachable` says that the candidates never lose the best chain. A set that is only
  known to hold the best block is no invariant: when that block turns out invalid, the next
  best has to be there. So `BestCovered` says that some candidate that *was connected before*
  is no worse than anything the candidates miss: a failed connection cannot take such a block
  away, and pruning keeps everything that is no worse than it.
  `QuiescentIsBest` adds that whatever is better than the tip is some thread's
  business (`PursuitInv`): a thread in a step works towards the best candidate there is; one at the
  `while`, which it evaluates without `cs_main`, goes round again unless the tip is its
  target; and whoever made a better block a candidate meanwhile has yet to look itself.

  Each hypothesis is needed, and TLC shows the counterexample when it is dropped. `VerdictsFixed`
  asks that `ConnectBlock` does not accept a block and find it invalid at another time; a block
  that was connected, disconnected, and refused the second time would take the
  best chain with it. It is a property of the rules and not of the code modelled here:
  section 6 names two places where the answer depends on more than the chain.
  `TopReconsidered` excludes the states described in section 6 under `ReconsiderBlock`; the corollaries
  `FirstReconsidered...` replace it with the assumption on constants that the runs make. And a system error
  may end an `ActivateBestChain` before it is done, so that `QuiescentIsBest` assumes
  `SystemErrors = FALSE`; `BestStaysReachable` does not.
* **TxPoolProofs** proves KeyImages' properties first. `NoChainDoubleSpends` needs to know that the active
  chain is always recorded (`ActiveIsRecorded`), also after a crash, hence
  `FlushedIsRecorded`; that the inputs a running `ConnectBlock` is done with are
  recorded and were unspent (`ConnectingIsRecorded`); that records are clean, so that
  the first record found decides (`RecordsClean`).

  Every step of the node with its pool is a step of the ledger
  (`PoolRefinesLedger`), so the ledger's invariant holds beside the pool without a second
  proof. With it, what a connection adds to the active chain and what a disconnection
  takes from it decide `PoolKeepsUp`; `MinedBlocksConnect` needs that a key image the
  miner found unspent is on no block of the chain. `NoneComesBack` states what the
  resurrection of transactions amounts to, see section 6.
* **BlockVerdictProofs** is about the two verdicts `ConnectBlock` waits for or looks up.
  Of CheckQueue: the counters equal the sizes of the sets they count
  (`CountersExact`, where an interrupted wait leaves one in both `nIdle` and
  `nTotal`), each check belongs to the queue or to one thread (`ChecksOwned`),
  and failures and successes are real (`FailuresReal`, `SuccessesReal`). They give
  `AnswerIsExact` and `AlwaysIdleBetweenBlocks`.

  Of PoAAudit: `AuditInv` is inductive. It says what indexing, a fork and a restart leave of `pnext`
  (`PnextSound`: NULL above what was loaded, unassigned above a block without children, and else a
  child indexed since the start), and that each list of the chain but the first holds exactly what lies between
  the end of its predecessor's list and its own end (`Resumes`). `NothingIsAuditedTwice`
  looks at the lowest list that does not lie above the ends of all earlier ones; it is there
  that comparing a list with its predecessor alone suffices. `DecisionIsExact` shows both
  directions: a walk that is no higher than the tip has not left the chain (`WalkOnChain`, again by the
  lowest block where it would), and the miner's list is walked step by step (`ChainSuccessor`), the block
  beyond the tip being the one place where a restart shows (`TipSuccessor`). The proof needs
  `FirstEndsHighest`: with the first list reversed TLC finds a list the miner makes and the
  overlap check refuses.
* **CoinsCacheProofs.** The flags need two facts about the view: it exists only
  while a block is at hand (`ViewLifecycle`), and whatever it holds `pcoinsTip` holds
  too unless it was new there (`ReadsLeaveCopies`): that is the reason the comment at
  `coins.cpp:177` gives for its assertion, and it makes erasing a fresh
  entry harmless. From them follow `CachesAreSound`,
  `OnlyRefusalsCorrupt` and the refinement `CachesImplementStore`, all of them in
  every history, refused batches included; with `DbErrors = FALSE` also
  `DiskIsConsistent`. Each step lemma says what a step does to the three sets of
  coins, and `StepsRefine` reads off it which step of CoinsStore that is.
* **BlockDownloadProofs.** The invariants of the run are inductive together with
  `IndexClosed`: the index is closed under `pprev`, and the active chain is stored and
  free of failed blocks, so that the search starts from a linked block
  (`CommonLinked`). The blocks it looks at lie on one branch and are told apart by
  their heights (`SearchedBranch`): that is why no more are asked for than there is
  room for (`DownloadsFit`). Counters are compared with the cardinalities of the sets
  they count.
* **ChainRecoveryProofs.** `IInv` is inductive: types (`Shape`), the index on disk closed under
  `pprev` and part of the one in memory (`IndexOnDisk`), best blocks and tips in
  their index (`StandsOnDisk`), undo data as far as the coins (`UndoFollows`), and
  `CoinsMatchBest`. It rests on two facts about coins: applying a block to its
  parent's coins gives its own, and undoing it gives them back. From it follow
  `DiskStaysWhole`, `OnlyReplayCorrupts` and `ViewStaysAtTip`, for every block tree and every set of
  outputs. `ReplayOfLineIsExact` is about the replay itself: on an index that is a line of any
  length the list of blocks sorted by height names each block right after its parent
  (`OrderOfLine`), so the replay connects one block after the other
  (`ReplayConnects`), and by pigeonhole a list that is longer than the last file is high has a block
  above the coins (`NothingAbove`): the accident of `recovery_replay` needs a fork, or a last file that
  does not reach up to the coins.
* **NodeShutdownProofs.** `IInv` is inductive for any number of service threads, tasks, workers and
  requests and every depth of the queue: the two counters are exactly the threads between their
  start and their end (`CountsExact`), what the main thread has done is known from where it is
  (`StagesReached`), nobody begins to work who had not begun when the queue was
  interrupted (`WorkersSound`), and a request is in the queue, with one worker, or in the
  callback, but in no two of them, and unanswered (`HeldOnce`). That the counter reached zero then
  means that those who had begun are gone (`NoneCounted`), whence `NobodyIsLeftBehind`
  and `EveryoneIsAnsweredOnce`. `OneThreadIsNeverEarly` assumes one service thread, since with two
  TLC finds a task that is run early (section 6); its invariant `TimeHasCome` says that a thread whose wait
  has timed out finds a task that is due, whatever was added meanwhile.

`BlockTreeTheorems` has what these proofs need to know of ancestors. `Anc[b]` is
defined as the least set that holds `b` and is closed under `Parent`, so that
"holds of a block and is handed down to its parent" proves a fact of all
ancestors without induction over data, which the prover does not support.

`Replayed` is a recursive function, and the provers cannot instantiate the induction theorems of
the library: `ReplayConnects` guesses the function in closed form, shows that it
satisfies the recursion, and takes the least place where another solution could differ
(`MinIn`, from the well-foundedness of finite sets).

Only model-checked: `ActivationTerminates`, `WaitReturns`, `SlotReleased` and `EverythingEnds`, since
liveness under fairness and ENABLED are out of the prover's reach. Every invariant and every action property
that a run checks is stated by a theorem.
No module declares a RECURSIVE operator.

## 6. Disagreements met

Three runs refute a statement found in the code.

* `chain_corrupt`: a block that `CheckBlock` calls possibly corrupted is neither
  marked nor removed from the candidates, and the step counts as success (3742-3746), so
  `ActivateBestChain` repeats it for ever.
* `download_answered`: the `block` handler passes a block to `ProcessNewBlock`, and with
  it to `MarkBlockAsReceived`, only when its hash is not in `mapBlockIndex` (6452).
  `FindNextBlocksToDownload` asks only for blocks that are in it. A requested block
  that arrives is dropped, stays in flight, and the peer that sent it is
  disconnected by the timeout. Indexed blocks without data exist after a failed write
  or a `ContextualCheckBlock` that said no for a possibly corrupted block.
* `recovery_replay`: after an unclean shutdown `LoadBlockIndexDB` takes the block one higher
  than the coins' best block as the place to start (5005). With two blocks of the last
  height on disk there may be none: the replay begins and ends with genesis,
  and the node runs at genesis with the coins of the old tip.

More observations have no run of their own.

* When a block of a new branch fails after the old one was
  disconnected, `ActivateBestChainStep` returns true (3742) with the tip on a
  lower block, and `cs_main` is released. A second thread's `CheckBlockIndex`
  (run with `-checkblockindex`) would assert at 5433: blocks of the old branch are
  at least as good as the tip and no candidates. The chain itself recovers:
  `BestReachable` holds.
* `ReconsiderBlock` clears ancestors and descendants of a
  block (3872-3898), and makes only the block and its descendants candidates. Siblings
  keep `BLOCK_FAILED_CHILD` with no failed
  ancestor, against 5429; and the ancestors, unmarked, are missing among the candidates even if
  they are better than the tip. `MarksAreSound` and `BestStaysReachable` give the exact condition: neither
  happens as long as nothing above the reconsidered block is marked.
* `CCoinsViewDB::BatchWrite` empties `pcoinsTip` while it builds the batch
  (`txdb.cpp:57-67`). If the write fails, a later flush, the one of `PrepareShutdown`
  (`init.cpp:218`), writes the best block without the coins. `OnlyRefusalCorrupts` says that
  nothing else does such a thing.
* `nQueuedValidatedHeaders`, "Number of blocks
  in flight with validated headers" (174), is not lowered by `FinalizeNode` for the
  blocks of the peer it forgets: it only ever exceeds that number, and the timeouts
  computed from it (6972) grow.
* `ConnectTip` runs `CheckBlock` on every block it reads from disk
  (3413-3423), where the answer may depend on the clock and on the tip of that moment.
* "Resurrect mempool transactions from the disconnected block" (3374):
  `DisconnectTip` offers the transactions to the pool before `UpdateTip` moves to
  `pprev` (3386). `IsKeyImageSpend1` (1819) still finds them spent, and all of them
  are removed. `NoneComesBack` proves it of every reachable state.
* `CreateNewBlock` does not put the key image of the coinstake it makes into the set by which
  it avoids duplicates.
* A proof-of-audit block is compared with what `pnext` leads to. A fork that is indexed after the
  blocks it competes with diverts the walk: an honest proof-of-audit block is then refused, and marked
  as failed for ever, and one that lists blocks of the other branch can be
  accepted. `pnext` is not initialised by `SetNull` (`chain.h:187-220`), and
  `hashNext`, which is read from disk (`chain.h:442-450`, `txdb.cpp:272`), is never set before it is written,
  so that the walk ends elsewhere after a restart; `DecisionExact` names the one case where the verdict depends
  on it. A listed block with `nTime == 0`, the mark of a failed
  re-verification, cannot be accepted, since its time is compared with the index first
  (`pow.cpp:201-215`, 244-258). The first list of a chain is checked for existence only. A list with a hash that
  is not known leaves a NULL entry in `mapBlockIndex`, until the header comes.
* A worker of the HTTP server is detached and counts itself when it begins to run; `WaitExit`
  cannot wait for one that has not begun. `workQueue` is not reset when it is deleted
  (`late`). When `AppInit2` fails the thread group is not joined, so that the assertion of
  `~CScheduler` (`scheduler.cpp:17`) may meet a thread that is counted.
* `serviceQueue` allows for several threads, but a thread that timed out takes the first task without
  a look at its time (`scheduler.cpp:58-61`): if another thread took the one that was due, it
  runs the next one early. The node starts one thread (`init.cpp:988`), and then `NeverEarly` holds.

## 7. Scope of the models

* `invalidateblock` and `reconsiderblock` exist as handlers
  (`rpcblockchain.cpp:785-856`), but their entries in the RPC table are commented out
  (`rpcserver.cpp:301-302`). `ReconsiderBlock` is still reached through
  `AcceptBlock` (4503-4510); with `-checkpoints=0` every block counts as a checkpoint
  (`checkpoints.cpp:33`). The runs with operator calls check more than the
  daemon can do today.
* Verdicts of blocks are inputs. Block headers and transactions have no contents.
* `KeyImages` lets a crash lose coins batches that were written without sync.
  `CoinsCache` has no crash that loses a completed write; its `Restart` drops the caches.
  `ChainRecovery` has crashes between writes and none that loses a completed one.
* ChainRecovery leaves out an index write that fails (it stops the node as a full disk
  does), `-forcestart`, records of headers alone, and what is in the block files.
* TxPool lets the removal of invalid transactions happen at any time, and
  an entry be abandoned once all blocks that held it are deep. After a machine crash the index of
  transactions may name a block of another branch; that is not modelled.
* BlockDownload leaves out the headers messages (`fHeadersFirstSyncingActive` is false on
  every network, `chainparams.cpp:223`), the `getblocks` conversation and `vBlockRequested`,
  which keep no download state, bans, and one-shot and SPV peers. A peer counts for `fFetch`
  from its connection on, not from its version message. `DisconnectOldProtocol`, which
  the block handler calls, also resets `fDisconnect`; in the model a disconnection that
  falls within the handler comes after it.
* In CheckQueue a batch executes in one step, since nothing outside sees its parts, and
  the order of the stack is left open.
* The daemon runs one service thread and schedules one task, `DumpData`; the instance has two.
  `CScheduler::stop`, with and without draining, is called by tests only and is
  left out. Requests have no contents; a handler is a step that may come at any time.
* PoAAudit leaves out the time between two proof-of-audit blocks, the Merkle root and the hash that
  is mined, and takes the verdict of `ReVerifyPoSBlock` as given. The thread
  that would mine such blocks is a TODO in the code; `AsMined` is what `GetListOfPoSInfo` would give it.

**Not modelled.**

* The orphan pool is never filled: `AcceptToMemoryPool` sets `*pfMissingInputs` to
  false and never to true, so `AddOrphanTx` is not reached.
* Masternode payments elect a payee by votes, but `IsBlockPayeeValid` says yes in every case
  (`masternode-payments.cpp:218-235`). The masternode list, the synchronisation and the
  budget change at most the verdict of a block, which is an input of ChainState; they
  are tallies of signed messages against clocks. The scan for locked inputs of instant transactions is
  empty (1781), and the mixing of the obfuscation pool is disabled.
* Ring signatures, bulletproofs, hash targets and stake modifiers are arithmetic outside TLC's reach.
* Address tables choose peers at random, and nothing else depends on them; sockets are I/O. The race of
  `DisconnectOldProtocol` with the socket thread (`net.cpp:441`) ends with a peer that does
  not answer, which BlockDownload has.
* The wallet's coin selection, RPC, REST, GUI, alerts, Tor and ZeroMQ read the state that is modelled.

## 8. Plan

Done: the block index and the active chain, key images and the memory pool, coins and their
recovery, block download, script checks, the scheduler and the HTTP server with the end of the
node, the audit walk; their runs; proofs of every safety and action property that a run checks.

Left, in order of what would add most:

1. The life of a `CNode` between the socket thread, the message handler and `DisconnectOldProtocol`.
2. The synchronisation of masternodes with its phases and timeouts, if it should come to decide
   more than a verdict.
