# TLA+ verification of DAST

DAST (`deptran/chronos`; *chronos* is the code's name for it) is a replicated,
sharded transactional store for edge deployments.  The repository also holds the
protocols it is compared with, and the storage, runtime, workloads and scripts they all
share.  This directory holds TLA+ modules that model them, TLC configurations that check
them on small deployments, and theorems that TLAPS proves for every deployment.  Paths below are relative to the repository's `src/`, and within it to
`deptran/` where no other directory is named.

## 1. Inventory

### The system

A deployment has *regions*; a region has `n_shard_per_region_` *partitions*; a
partition has `N_REP_PER_SHARD` *sites*, which are its replicas.  In the process of the
first site of every region runs a second service, the region's *manager*.  A client
submits a transaction, a set of *pieces* each bound to a partition, to one site of a
partition it touches.  A transaction that touches one region is an *IRT*, any other a
*CRT*.

| Component | State | Operations | Talks to |
|---|---|---|---|
| Timestamps, `chronos/types.h` | `timestamp_`, `stretch_counter_`, `site_id_` | order, generate, anticipate | everything |
| Scheduler of a site, `chronos/scheduler.cc` | clock (`last_clock_`, `clock_offset_`), floors (`dist_txn_tss_`), ready queue (`ready_txns_`), own IRTs (`my_txns_`), what peers said and were told (`ir_site_max_ts`, `ir_site_notified_ts`, `ir_synced`, `ir_site_wait_ts_`), transaction table | `HandleIRT`, `OnPrepareIRT`, `PrepareIRTACK`, `IRSyncLoop`, `OnIRSync`, `OnSubmitCRT`, `OnPrepareCRT`, `OnRemotePrepared`, `OnDistExe`, `DistExeAck`, `OnNotiCRT`, `OnNotiCommit`, `OnSendOutput` | sites of its region (requests and replies), sites of other regions and managers (CRTs) |
| Transaction record, `chronos/tx.{h,cc}` | phase, partition status, acknowledgements, pieces, input readiness, callbacks | run ready pieces, merge input, answer the client | its scheduler |
| Manager, `chronos/manager.cc` | its own clock, floors, `max_future_ts_` | `PrepareCRT`, `NotiWait`, the inherited `IRSyncLoop` | the sites of its region |
| Communication, `chronos/commo.cc`, `rcc_service.cc` | connections | one send per message, one handler per request | |
| Client coordinator, `chronos/coordinator.cc` | the transaction in progress | `SubmitReq`, `SubmitAck` | one site |
| Configuration, `config.cc`, `server_worker.cc` | the deployment | site/partition/region arithmetic, wiring | |
| Chopping, `txn_chopper.cc`, `bench/` | pieces, variables, conflicts | which variable goes to which partition | |

The protocols DAST is compared with, and what all of them run on:

| Component | State | Operations |
|---|---|---|
| SLOG, `slog/` | per region a manager with its log and a backup; one replicated global log; per site an execution queue, values received from other regions, outputs owed | submit, insert locally or globally, replicate, batch to the sites, execute the queue, send dependency values and outputs |
| Ocean Vista, `ocean_vista/` | timestamps in the store phase, server watermarks, one gossiper per data centre with what it heard of the others, a queue of transactions waiting for visibility | create a timestamp, dispatch, store, stored, execute, publish, aggregate, exchange |
| Janus, `brq/`, `rcc/` | a dependency graph per replica, rows with their last readers and writers, a waitlist | pre-accept, accept, commit, inquire, execute strongly connected components |
| Multi-Paxos, `multi_paxos/` | slots, ballots, decided and executed positions | submit, accept, decide, learn, on top of prepare and commit of `classic/` |
| Locks and 2PL, `rrr/misc/alock.*`, `tpl/` | lock queues, lock groups, executors | lock, refuse, wound, grant, abort, from inside each other's callbacks |
| 2PC, OCC, none, `classic/`, `occ/`, `none/`, `memdb/txn_occ.cc` | coordinator stages, staged writes, read versions, column locks | dispatch, prepare, commit, abort, retry |
| TAPIR, `tapir/` | as OCC, at every replica | dispatch at the nearest replica, fast accept, decide |
| Epochs, `scheduler.cc`, `epochs.h` | current and oldest epoch per site, the answers of a round | trigger, upgrade, acknowledge |
| memdb, `memdb/` | sorted tables with an index, staging areas of nested transactions; versioned maps and the ring of their snapshots | insert, update, remove, query, commit, abort; snapshot, collect, iterate |
| rrr, `rrr/` | futures and pending calls, connections with their counts, the poll set, byte buffers, thread queues | call, reply, time out, close, destroy; marshal, cut packets; run, steal, stop |
| TPC-C, `bench/tpcc` | pieces with inputs and outputs, the table of conflicts | generate, chop, execute pieces |
| Commands, `txn_chopper.cc`, `bench/tpcc/chopper.cc` | status of the pieces, counters, the shared workspace | dispatch, merge answers, reset, retry |
| Addresses, `config.cc`, `communicator.cc`, `run.py` | sites, processes, ports, connections | number, listen, dial |
| Population, `sharding.cc`, `bench/*/sharding.cc` | tables of a partition | fill tables, route keys |
| Processes, `s_main.cc`, `server_worker.cc`, `client_worker.cc`, `benchmark_control_rpc.cc`, `run.py` | setup stages, start barrier, request loops, reports, alarms | set up, connect, start, issue, report, shut down, die |

### What is hard, and what makes it correct

* **Two directions of one conversation.**  A clock value can reach a peer in a request
  or in a reply, on connections that do not order each other, and the transactions it
  implies are announced by piggybacking.  Correct: whoever has heard clock value T of a
  peer knows every transaction of the peer up to T (`Awareness`).
* **Stretchable clocks.**  While a CRT's timestamp lies in the future, the sites of its
  region keep handing out timestamps below it, however fast their physical clocks run.
  Correct: no clock passes a floor (`ClockStaysBelowFloors`), timestamps are unique
  (`TimestampsUnique`), and floors go away (`FloorsReleased`).
* **Two-round cross-region commitment.**  Managers anticipate, replicas acknowledge in
  any order, the coordinator decides the maximum; the decision and the transaction
  travel on different connections.  Correct: one decision, never before an anticipation
  (`DecisionAgreement`), stored at a majority (`RepliedIsReplicated`), executed before
  the answer (`ReplyAfterExecution`), executed by every replica (`AllReplicasExecute`)
  in one order (`ReplicasAgree`).
* **Execution is retried only on events.**  Correct: everybody gets an answer
  (`EveryTxnAnswered`).
* **Assertions.**  The handlers are full of `verify(...)` about message order.  Correct:
  none fires (`NoVerifyFails`).

* **Deterministic execution behind a log (SLOG).**  A queue lets a transaction that
  conflicts with nothing overtake one that waits for values from another region; values
  and outputs arrive several times, early or late.  Correct: one order at every replica
  (`SlSerializable`), one answer, after execution (`SlAnswers`).
* **Watermarks through two levels of gossip (Ocean Vista).**  Correct: below a watermark
  nothing new ever appears (`OvOrderFinal`), and who executes runs every piece of the
  transaction there (`OvRunsAllPieces`).
* **Callbacks out of locks, version checks column by column, retries under a new id.**
  Correct: what commits is serializable (`Serializable`), by all or by nobody
  (`Agreement`), and nobody waits for ever (`NoneStuck`).
* **Dependency cycles across partitions (Janus).**  Correct: nothing runs before its
  ancestors (`JaRunsAfterAncestors`).
* **Hand-written conflict tables and key arithmetic.**  Correct: pieces touch a shared
  row in the order of their transactions (`TcTouchedInOrder`), rows are where requests
  look for them (`ShPopulated`).
* **A command that is reset and tried again.**  Correct: in every attempt a piece is
  dispatched once, after what gives its inputs (`ChRight`).
* **Addresses computed three times.**  Correct: every connection reaches the service it
  is taken for (`DpReaches`).
* **Shared versions and nested staging.**  Correct: a snapshot or cursor shows what was
  there when it was taken (`SnReads`), a transaction sees its own writes and its commit
  is all or nothing (`MtTransactions`).
* **Threads that close, time out and destroy.**  Correct: nothing happens
  more often than it was caused (`OncePerCause`), counts agree with holders (`RpInStep`), waiters are released
  (`WaitersReleased`), what is told to stop stops (`StopsEnd`).

`PROJECT.json` lists every hazard with its source line and the property aimed at it.
Its map gives the lines each definition stands for; constants and one-line helpers share
the entry of the definition that uses them.
The protocols have no timeouts, no retransmission and no recovery: nothing is
persisted, and they have no path for a broken connection.  Faults are therefore modelled
where the code handles them: slow replicas in DAST, aborts and retries in the commit
protocols, late messages in Janus, any order of delivery in Multi-Paxos, closed
connections, timeouts and partial reads and writes in rrr, and in the processes a
controller that dies, after which an alarm ends the servers.

## 2. Modules

| Module | Models |
|---|---|
| `ChrTs` | `chr_ts_t`, its order, `GenerateChrTs`, the clock-offset correction, `CalculateAnticipatedTs`: pure operators on timestamps |
| `DastConfig` | deployment arithmetic and the workload as CONSTANTS |
| `TxChronos` | the transaction record, which pieces an execution attempt runs, merging of input |
| `Dast` | schedulers, managers and connections: the state machine and its properties |
| `MCDast` | workloads and bounds of DAST for TLC |
| `*_proofs` | theorems and proofs, see section 4 |
| `Messages` | FIFO connections between processes, used by the protocols below |
| `Slog` | the SLOG sites, managers and global log |
| `OceanVista` | the Ocean Vista coordinators, sites and gossipers |
| `Tpl` | the two lock classes of `alock` that rows create, lock groups, the 2PL executor and its batches of pieces |
| `Commit` | the two-phase commit of `classic/` with OCC, 2PL or no concurrency control |
| `Tapir` | the TAPIR coordinator and replicas |
| `MultiPaxos` | the log of one partition under two-phase commit |
| `Janus` | coordinators, dependency graphs, inquiry and execution |
| `Tpcc` | TPC-C requests, pieces and the conflict table under an agreed order |
| `Chopper` | a client's command with the pieces of `Tpcc`: dispatch, answers, reset |
| `Deployment` | which service listens where and who dials it |
| `Snapshot` | `memdb/snapshot.h` and `SnapshotTable` |
| `MemTxn` | `Txn2PL`, `TxnUnsafe`, `TxnNested` over an indexed sorted table |
| `Sharding` | table population and routing |
| `Rpc` | client, futures, server connections and the poll thread |
| `PacketQueue` | the abstract connection: packets delivered whole, once, in order |
| `Marshal` | byte buffers and sockets, which implement `PacketQueue` |
| `SparseInt` | the integers of variable length |
| `Threads` | `ThreadPool` and its destruction |
| `Epochs` | the upgrade rounds of site 0 |
| `Lifecycle` | processes of an experiment and the script that drives them |
| `Protocols` | `Commit`, `Tapir` and `MultiPaxos` together: those who take part in a decision agree |
| `Runtime` | `Rpc`, `Threads`, `Epochs` and `Lifecycle` together: what is promised of all of them |
| `MCProtocols`, `MCStorage`, `MCRuntime` | workloads for TLC, see below |

Three MC modules put components with a common theme beside each other: `MCProtocols`
extends `Slog`, `OceanVista`, `Tpl`, `Janus` and `Protocols`;
`MCStorage` extends `Chopper` (and with it `Tpcc`), `Snapshot`, `MemTxn`, `Sharding` and
`Deployment`; `MCRuntime`
extends `Rpc`, `Marshal`, `SparseInt`, `Threads`, `Epochs` and `Lifecycle`.  These
components do not run together in the program, or not on the state that is modelled, so
their behaviours are not interleaved: the variable `part`, chosen in `Init`, says which
component a behaviour runs, and the others stay in one initial state, in which no fair
action of theirs is enabled.  A property of such a module is the conjunction of what its
components promise in one respect; each conjunct is a definition of its component.
Interaction is inside the modules: `Commit` with mode `2pl` gets the answers that `Tpl`
explains, `MultiPaxos` carries the prepares and commits of `classic/`, `Tpcc` runs its
pieces under the queue that DAST and SLOG share, `Lifecycle` has the servers, the
clients and the script.

### How state and actions correspond to the code

* A variable has the name of the field it models, as a function of the site.  `tx[s][t]`
  is the record of `t` at `s`; `dtxns[s]` are the ids `s` has a record of.  In a record,
  `role` stands for the function that last assigned `execute_callback_` and `pieces_`,
  `owes` for the reply that `send_output_to_handler_` holds back.
* `ready_txns`, `my_txns` are maps keyed by timestamp: sets of `[ts, id]`, with
  `PutReady` replacing the entry under the same key, as `std::map::operator[]` does.
* A scheduler's handler holds `mtx_` throughout, so it is one action, including the
  `HandlePiggyInfo` and `CheckExecutableTxns` it calls.  A manager's handlers send their
  messages first and take `mtx_` for their last statements only; `mgr_todo` holds those
  statements and `MgrFinish` runs them, so the manager's sync thread can get in between.
  One thread serves a manager, so its handlers do not overlap.
* The loop of `CheckExecutableTxns` and the recursion of `RecursiveExecuteReadyPieces`
  are the solution of an equation (`IsOutcome`, `IsRunOf`) over the set of pieces that
  run: the visit of an entry depends on earlier entries only, so there is exactly one.
  No recursive operator is needed, and the module can be proved about.
* Connections are FIFO.  `req[<<p, d>>]` is the queue from the process of site p to
  service d; a manager sends through the connections of the process it lives in
  (`Proc`, from `SetupCommo`).  Replies travel in `rep`.  Replies whose callback does
  nothing are left out.
* A `verify()` that fails puts the site into `aborted`; it takes no further step.
* `commit_ts_` is read by the execution loop and assigned by no reachable function, so
  `CommitTs` is the default timestamp.  `clock_offset_` has no initialiser, so `Init`
  chooses it.  `is_irt_` of a record nobody has filled in is read by `OnSendOutput`: both
  values are tried.

The same conventions hold in the other modules, whose variables carry a prefix:

* A handler that holds the mutex of its object, or runs on the one thread that owns it,
  is one action.  Where several threads meet (`Rpc`, `Threads`, `Lifecycle`) an action
  is what happens between two lock operations, and locals that live across them are in
  the state.
* A `verify()` that fails sets the component's `*_bad` or `*_aborted` variable, and the
  `*NoVerifyFails` definitions say that none does.
* Fields without an initialiser are choices: `SlFresh`, `SlGarbage`, `OvFresh`,
  `OvFlags` are the values they may have.
* `Tpl` passes the state of the server through the nested callbacks in the order of the
  calls, with the call stack of the thread as part of it: a lock calls groups back from
  inside `lock` and `abort`, and those enter other locks, or the same one.  `MultiPaxos` delivers in any order; the others have FIFO connections.
* Commands of the commit protocols read `piece_input_ready_`, which no constructor sets:
  where it is 0 the lookup in `input_var_ready_` throws and the client ends (phase
  "thrown" in `Chopper`).
* History variables serve properties only: `cm_hist`, `cm_seen`, `ta_seen` (versions read
  and written), `tp_log`, `ov_ran`, `snWant` and `mtRef` (what a copy of the table
  would hold).
* The slot a component was given at start (`sl_load`, `cm_load`, `lc_load`, ...) is
  constant in a behaviour, so that one run covers several workloads.

### Abstractions

Values, rows and the code of a piece are left out: a piece needs and gives variables.
`Conflicts` and `WaitTypes` stand for `TpccPiece::conflicts_` and the hard-coded piece
type 204.  Latency measurements and logs are left out.  64-bit timestamps in
microseconds do not overflow in any realistic time and are integers.

A row of the baselines is a name, and a version where a protocol compares versions;
`Tpcc` knows the columns a piece reads and writes, not their values.  `Marshal` has
chunks of 3 bytes instead of 8192 and sizes of 2 bytes instead of 4; `SparseInt` has the
real widths, as functions from bit positions to bits.  `n_concurrent_` of a client
worker wraps, as its `uint32_t` does, at `LcWrap`.

Left out because no caller reaches it in this build: `SubmitLocal`, `ProposeRemote`,
`ProposeLocal`, `StoreRemote` and their acknowledgements.

## 3. Runs

Bounds of the DAST runs: `PhysTimes` are the readings of the physical clock (any reading
may follow any other, so a jump is two readings far apart); `MaxSync` bounds the rounds of
`IRSyncLoop`; `InitOffsets` the initial clock offsets.  `Warm` starts a run after every
site has heard from every peer once, which the first sync round achieves and `cold`
checks without; otherwise nothing executes before a full round and small runs would
spend their states on it.  `Stalled` sites take no step during the run: they are
slow replicas, whose acknowledgements the protocol must be able to do without, or sites
that have no part in the question, and they keep the instances small.  Where liveness is
checked (`shards`, `crt`) a majority of every partition runs; runs with two replicas per
partition check safety only (`(n_replicas + 1) / 2` is then one acknowledgement).

| Run | Instance | Checks |
|---|---|---|
| `irt` | 1 region, 3 replicas, 2 conflicting IRTs, 1 sync round, 2 clock readings | `Awareness`, `TimestampsUnique`, `RepliedIsReplicated` |
| `cold` | 1 region, 3 replicas, 1 IRT, offsets 0 and 3, sync for ever | `EveryTxnAnswered` |
| `shards` | 1 region, 2 shards, an IRT that waits for the other shard's variable, either shard handles it; a second IRT behind it; `MaxPending` 0; one replica of each shard stalled | `EveryTxnAnswered` |
| `crt` | 2 regions, 3 replicas, 1 CRT, one replica of the coordinator's partition stalled | `DecisionAgreement`, `ReplyAfterExecution`, `RepliedIsReplicated`, `EveryTxnAnswered` |
| `stretch` | 2 regions of 2 shards, a CRT whose coordinator waits for a remote variable, clock jumps from 2 to 9, an uninvolved site syncs once | `FloorsReleased`, `ClockStaysBelowFloors` |
| `pair` | 2 regions, 2 conflicting CRTs, coordinated from either region | `NoVerifyFails`, `TimestampsUnique` |
| `mixed` | 2 regions, 2 replicas, a CRT and a conflicting IRT, all sites running | `TypeOK`, `NoVerifyFails` |
| `protocols` | SLOG: 2 regions of 1 shard with 2 replicas, two conflicting CRTs from different regions, or a CRT that passes a variable and a conflicting local transaction. Ocean Vista: 2 data centres of 1 site as 2 partitions or 2 replicas, up to 2 transactions, up to 2 aggregation rounds and an exchange per gossiper. 2PL: 3 locks, 7 pieces in 5 batches of 4 transactions, both policies. 2PC: 2 partitions, 2 conflicting transactions with retry under OCC (every pair of 3), none and 2PL. TAPIR: partitions of 1 and 2 replicas, crossing reads, a write conflict with retry, a read against a write. Multi-Paxos: 3 and 2 replicas, 2 transactions aborted before or after prepare. Janus: 2 replicas, or 1 with late messages and dependency cycles, visited in either order | `SlSerializable`, `SlAnswers`, `OvOrderFinal`, `OvRunsAllPieces`, `Serializable`, `Agreement`, `AnswersFinal`, `JaRunsAfterAncestors`, `NoneStuck`, `NoVerifyFails` |
| `storage` | TPC-C: 2 regions of 2 warehouses, 4 loads with every type of transaction. Snapshots: 2 rows, a snapshot and a cursor, 5 operations. Transactions: 2 rows, 5 operations, 2 nesting levels, both orders of addresses. Population: 5 configurations of TPC-C, TPC-C by district, TPC-A, rw. Commands: every type of TPC-C and TPC-A, home shard 1 of 4, dispatched in rounds, by TAPIR or at once, 1 retry, up to 2 order lines found. Addresses: 4 deployment files with up to 4 partitions of 2 replicas, one process that does not answer | `TcTouchedInOrder`, `TcPiecesRight`, `ChRight`, `SnReads`, `MtTransactions`, `ShPopulated`, `DpReaches` |
| `runtime` | RPC: 2 calls on a connection, one to an unknown rpc; a call and a second connection; a call with a timed wait; the server may stop at any point. Marshal: 3 sequences of packets. Integers: every power of two, its neighbours and complements in 32 and 64 bits. Threads: 2 threads, 4 jobs. Epochs: 3 sites, 3 rounds. Processes: 4 experiments | `RpInStep`, `OncePerCause`, `Decodable`, `EpSkew`, `LcMeasures`, `MaIsAQueue`, `WaitersReleased`, `StopsEnd` |
| `order` | as `irt` | `ReplicasAgree`, violated |
| `readers` | the instances of `protocols` | `TpReadersKeep`, violated by 2PL |

What the conjunctions hold:

* `SlAnswers`: nothing runs before its log entry is replicated; an answer comes after
  execution, and once.
  `OvOrderFinal`: nothing appears below a watermark, timestamps are unique.
* `Serializable`: locks exclude each other; 2PL is serializable in commit
  order; OCC and TAPIR are strictly serializable, by the versions that committed
  attempts read and wrote.  `Agreement`: partitions of a 2PC, replicas of TAPIR and of a
  Paxos log.  `AnswersFinal`: Multi-Paxos answers what a quorum has, Janus what has run.
* `TcPiecesRight`: when nothing can move every piece has run; the local flag of a request
  is right; the history row of a payment names the customer that paid.  `SnReads`, `MtTransactions`,
  `ShPopulated`: see the comments of the modules.
* `RpInStep`: framing, reference counts and poll set.  `OncePerCause`: the
  callback of a future once for its answer and once for its timeout, and no answer after a
  timeout; a job; a latency.  `Decodable`: chunks well formed, no complete packet waits, integers survive.
  `LcMeasures`: no request before all sites are connected, none under way at the end.
* `WaitersReleased`, `StopsEnd` (temporal): callers, epoch rounds, the script and the
  client workers; `~Server`, `~ThreadPool`, servers whose script died.

**The refinement.**  `MaIsAQueue` is `PacketQueue`'s specification under the mapping
*queue* = packets finished and not cut off by the reader, *delivered* = packets cut off.
However writes, sockets and reads cut the bytes, a step of `Marshal` adds one whole
packet, delivers some from the front, or changes nothing of the queue.

Why the bounds are enough for the question asked: in DAST the orderings that matter
involve one announcement and one clock value per direction (`irt`: two handlers, so every
site is sender and receiver), one decision and one preparation per replica (`crt`,
`pair`), two anticipations at one manager within one clock reading (`pair`), one reading
below and one above the floor (`stretch`; the anticipated time is between 2 and 9), and
one unfinished transaction in front of another when `max_pending_txns_` is reached
(`shards`; the code's limit of 5 is lowered to 0).  In the others, a conflict needs two
transactions and two partitions or replicas, a cycle of dependencies or of waits two
transactions on two rows, a nested callback chain a third lock; a retry needs one
retry; `SnGcAt` 2 (16 in the code) makes collections happen within 5 operations, a
nested transaction with its own insert, update and remove takes 5; chunks of 3 bytes make
every packet cross one; a stolen death pill needs two threads; a round that overlaps the
next needs two rounds; what a reset forgets shows in the second attempt; two replicas
(`N_REP_PER_SHARD` is 3) and two regions are enough for an address to be the wrong one of
its partition or of its region.  `SlFresh` is 0 in the run: no constructor sets
`next_execute_index_`, and with 1 the first transaction is never executed (`SlNoneStuck`
fails), so the code relies on zeroed memory.  `OvFresh` and `OvFlags` are one value in
the run to keep it short; `{0, 2}`, and both values of the flags on two of the three
layouts, give the same verdict.

Every property has a variant of the code (operators with a suffix, next to the
definition they change) under which the same run finds a violation, and so has every
conjunct of the conjunctions: each variant breaks the conjunction in its own part.

The models may stop: clients submit finitely many transactions and rounds are
bounded, so the configurations turn deadlock checking off; `NoneStuck` and the temporal
properties say what must not be left waiting.

**Fairness.**  `FairSpec` assumes `WF_vars(Deliver)`: some message that can be handled is
handled.  It is the poll thread and the service threads running; no assumption is made
on clients.  `cold` also needs the sync threads, `WF_vars(Sync)`: the loop in
`IRSyncLoop` never ends.  Because a bounded run cannot have infinitely many rounds, the
last two rounds of each node are kept for the moment when every message has been
delivered (`KeepLastRounds`): two, because `ir_synced` makes the first one skip peers.
In `MCRuntime`: `RpFairness` lets the threads of the runtime go on (among them the accept
loop and, once a wait has expired, the caller), and lets a process end whose server was
destroyed, as `main` does; nobody has to call, close or stop, and no wait has to expire; `ThFairness` lets the pool's threads go on, nobody has
to submit a job or end the pool; `EpFairness` delivers messages, no transaction has to
arrive; `LcFairness` lets threads go on, requests be answered, time pass and alarms ring.
Only `LcRecordEnds` is strongly fair: the controller looks whether to end after every
round of `client_response`, and the clients' answers enable and disable it in between.

### Disagreements with what the repository says

Two runs end in a violation.

* `order`, `ReplicasAgree`.  The execution loop waits until the clock of every peer is
  past `commit_ts_`, which is never assigned (`chronos/tx.h:134`,
  `chronos/scheduler.cc:706`), so after the first sync round nothing is waited for.
  Replicas run two conflicting IRTs in opposite orders; the README promises
  serializability.
* `readers`, `TpReadersKeep`.  A write lock that is released goes to the readers at the
  head of the queue, and once their callbacks have run `abort` asserts
  `verify(status_ == RLOCKED)` (`rrr/misc/alock.cpp:175`, `:376`).  The group of such a
  reader may have been refused another lock meanwhile; this was the answer it waited for,
  so it gives the lock back from inside the callback, and with no reader left the lock is
  free, or already the next writer's.  The server ends.  In `Tpl` the server takes no
  further step then, and the properties of the passing run are about servers that are up.

Three further configurations of `MCDast` end in a violation.

* `MCDast_backup.cfg`, `AllReplicasExecute`.  `DistExe` that overtakes `PrepareCRT`
  creates an empty record (`chronos/scheduler.cc:1256`); `PrepareCRT` then finds a record
  and stores nothing.  The replica never executes the transaction.
* `MCDast_far.cfg`, `ReplyAfterExecution`.  `OnSubmitCRT` computes its region as
  `partition_id_ / (n_replicas * n_shard_per_region_)` (`chronos/scheduler.cc:513`).  A
  coordinator outside region 0 finds no pieces of its own, counts them as finished and
  answers the client before its partition has run.
* `MCDast_majority.cfg`, `RepliedIsReplicated`.  `all_par_majority_acks` asks for
  `(n_replicas - 1) / 2` acknowledgements (`chronos/scheduler.cc:664`): a majority in the
  handler's own partition, one replica of three in the others.

The passing runs use workloads that do not meet these: where they check the same
property (`crt` for `ReplyAfterExecution`, `irt` and `crt` for `RepliedIsReplicated`),
the coordinator is in region 0 and the IRT has one partition.

In the other components TLC refutes the following when the constant or property named
here is put into the configuration; the passing runs leave these cases out.

* `CmNoVerifyFails` under `occ` for a transaction with two dependent pieces at one
  partition: the second dispatch finds the executor of the first and trips an assertion.
* `OvStoredAtQuorum`, two replicas: the comment "Received quorum ACK from all
  participating partitions." (`ocean_vista/ov-coordinator.cc:68`) stands where one
  acknowledgement per partition suffices.
* `JaReplicasAgree` and, with late messages, `JaAnswerAfterExecution`, with two replicas:
  two transactions that write one row run in different orders at the two replicas of its
  partition, and a transaction is answered that no replica has run in full.
* `TcTouchedInOrder` with `TcPerRegion` 1: the generator draws from `0 .. -1`.
* `RpOneCallback`: `timed_wait` does not look at `ready_` again when its time is up
  (`rrr/rpc/client.cpp:39`).  A reply, or a close, that gets the mutex before it makes the
  future ready and runs the callback (`:62`); `timed_wait` then sets `timed_out_` and runs
  it once more (`:50`).  `OncePerCause` says what holds.
* `RpOneRefPending`: between "one ref is already in pending_fu_"
  (`rrr/rpc/client.cpp:259`) and the reference taken for the caller, a close may release
  the first one.
* `status_` of a server is read before and after `accept` (`rrr/rpc/server.cpp:359`,
  `:364`).  If `~Server` sets STOPPING in between, the socket is neither registered nor
  closed, and its caller waits until the process ends; `RpAnswered` holds because it does
  (`s_main.cc:167`).  `~Server` closes connections through a copy of `sconns_` that holds
  no references (`:293`): one that the poll thread has released meanwhile is freed memory.
  The close finds it CLOSED still and does nothing (`RpStopClose`), or ends the process
  (`RpFreedClose`); `RpServerEnds` counts both as an end.
* `ChFresh`, in `MCStorage_retry.cfg`: all workspaces of a command share one map of
  values, assignment copies the pointer, `insert` does not overwrite and `Reset` restores
  the keys only (`txn_chopper.h`).  A dependent piece of a retried transaction is sent
  values of the aborted attempt: the amounts and the customer of a delivery, the order of
  an order-status.
* `SnRemovesTheRow`: `SnapshotTable::remove(row)` (`memdb/table.h:539`) removes the first
  row of the same key.  `SnNoneDangling`: a collection frees entries an open cursor's
  iterator stands on.  The comment at `memdb/snapshot.h:483` and the condition at `:487`
  differ; the model has the condition.
* `MtNoStaleIndex`: `Txn2PL::commit` takes rows out of a table and leaves their index
  entries.  `MtQueryOrdered`: the merge of staged and stored rows compares addresses, so
  an ordered query need not be in key order.
* `LcNoVerifyFails` with two sites in one process: the setup threads share the index `i`
  of `svr_workers_g[i++]` (`s_main.cc:78`), so two may take one worker
  (`server_worker.cc:45`).  `LcEndsIdle` with `early`: a duration that ends while the
  coordinators are still being made leaves `n_concurrent_` counting something else; in an
  open loop, or with forwarded requests, it does so anyway, so the property is about
  the closed loop without forwarding.
* `ShStoredWhereRouted` for TPC-C with two warehouses per partition: the rows a partition
  holds are not the rows whose keys are routed to it.  `ShNoVerifyFails` with fewer items than partitions.
* `SiRoundTrip` leaves out integers of 8 bytes: `SparseInt::dump` fills 9 bytes and
  returns 8 (`rrr/base/basetypes.cpp`).  rrr writes no value that large.

## 4. Proofs

| Module | Theorems |
|---|---|
| `Dast_proofs` | `GenerateAdvances`, `AnticipatedIsFresh`, `TypeCorrect`, `StretchHolds` |
| `DastAwareness_proofs` | `AwarenessHolds` |
| `DastDecision_proofs` | `TimestampsUniqueHolds`, `DecisionAgreementHolds` |
| `DastReply_proofs` | `ReplyAfterExecutionHolds`, `RepliedIsReplicatedHolds` |
| `DastVerify_proofs` | `NoVerifyFailsHolds` |
| `Runtime_proofs` | `EpSkewHolds`, `ThRunsOnceHolds`, `RpInStepHolds`, `RpCallbacksHold`, `LcMeasuresHolds`, `OncePerCauseHolds` |
| `OceanVista_proofs` | `OvOrderFinalHolds`, `OvRunsAllPiecesHolds` |
| `Protocols_proofs` | `MpReplicatesHolds`, `AgreementHolds` |

The assumptions are those of the modules: in `DastConfig` and `Dast` sizes are positive,
the workload is well formed, and a physical clock plus its initial offset is positive (the
clock counts microseconds since 1970); in `Epochs` the sites are finitely many; in
`Threads` there is a thread and a job submits at most one other; in `Rpc` connections are
finitely many naturals and the client's is one of them; in `Lifecycle` the number of
concurrent requests fits the width of `n_concurrent_` and no client has the name of a
site; in `MultiPaxos` the partition has a replica; in `OceanVista` sites and
transactions are naturals, clock readings too, a coordinator's data centre has a site, and
every partition that a transaction touches has a replica (`OvPlacement`); in `Commit` the
pieces of a transaction do not wait for each other in a circle, so that dispatch comes to
its end; in `Tapir` every partition of a piece has its finite set of replicas.  Every inductive
invariant below was also an invariant of TLC runs before it was proved.

**Timestamps.**  `LessIsStrictOrder`, `LowTsIsLowest`, `MaxTsIsHighest`: the order is a
strict total order, and nonempty finite sets have a lowest and a highest member (by a
smallest counterexample, as induction over data is out of the prover's reach).
`GenerateAdvances`, `GenerateStaysBelowFloors`, `AnticipatedIsFresh`: what one call of
`GenerateChrTs` and `CalculateAnticipatedTs` returns.

**`TypeCorrect`**: `Spec => []TypeOK`.  One lemma per action, on lemmas about
`CheckExecutableTxns`, `HandlePiggyInfo`, `CheckRemotePrepared` and the connections.  It
is more than types: whatever is in `dist_txn_tss_`, in a manager's `max_future_ts_` or on
its way to either has stretch counter 0, also when a decision or a `NotiCommit` moves it.

**`StretchHolds`**: `Spec => ClockStaysBelowFloors`.  A reading that ties with the floor in
its time is pulled back only if its stretch counter, which `GenerateChrTs` sets to the
same reading, is not below the floor's.  So the proof needs that floors have stretch 0
(from `TypeOK`) and that a reading is positive.  The second is the invariant
`ClocksPositive`, `now + clock_offset[n] > 0`: `HandlePiggyInfo` only ever adds to the
offset.  `TypeOK /\ ClocksPositive` is inductive, and under it every call of
`GenerateChrTs` in every action stays below every floor that is there before and after
the step; `CheckRemotePrepared`, which replaces a floor and then reads the clock in one
step, is the case that takes care.

**Steps.**  The theorems about `Dast` that follow relate records of several sites and messages
between them.  The first part of `DastAwareness_proofs` says once, for every handler, which entries a queue may
gain, what may become of a record, and that what is in flight afterwards was there before
or is one of the messages the handler sends.

**`AwarenessHolds`**: `Spec => []Awareness`.  `AwareInv` adds the messages: one that is on
its way from r to s announces, or s knows already, every transaction of r up to the
timestamp it carries (`ReqsGood`, `RepsGood`); so does what r believes s was told
(`MarksGood`, `ir_site_notified_ts`).  It stays true while the message is delayed, because
what r adds is later than its clock, and its clock is not before anything it sent
(`ClocksAhead`).

**`TimestampsUniqueHolds`**: `Spec => []TimestampsUnique`.  `UniqueInv` is about every pair
of timestamp and transaction in use anywhere, in a queue, a record or a message: a
timestamp is used for one transaction (`UsedOnce`), the counter of whoever handed it out
has reached it (`UsedHandedOut`), and it names that site or manager.  Timestamps of IRTs
and CRTs are told apart by the stretch counter.  That a site's clock carries the site's
own id needs that it is never pulled back to the zero it starts from, hence `FloorsHigh`.

**`DecisionAgreementHolds`**: `Spec => []DecisionAgreement`.  `DecidedInv`: a transaction
has one coordinator, and every record, message or queue entry that says a transaction is
decided says what the coordinator's record says, which no longer changes.  `OffersInv`: a
manager is asked once and makes one offer, and every offer, wherever it is, is not later
than the decision.  The last rests on `DecisionIsHighest`, that the coordinator decides
with an offer of every region.

**`ReplyAfterExecutionHolds`, `RepliedIsReplicatedHolds`**.  `ReplyInv`: a record with a
role holds the pieces of its partition; who acknowledged has a record; the coordinator has
noted an output only of a partition some replica of which ran; what was run stays run.
The theorems have the hypotheses under which the code keeps the promise:
`CoordinatorsInPlace`, that `OnSubmitCRT` finds the pieces of its own partition, which
holds for coordinators in region 0, and for the second also `SimpleReplication`, an odd
number of replicas and one partition per IRT.  Without the first TLC refutes
`ReplyAfterExecution` (`MCDast_far.cfg`), without the second `RepliedIsReplicated`
(`MCDast_majority.cfg`); the instances of `irt` and `crt` satisfy both.

**`NoVerifyFailsHolds`**: `Spec => []NoVerifyFails`, without those hypotheses.  Most
`verify`s of the scheduler say that something is new to a site: a record, a timestamp in its
queue or among its floors, the output of a partition.  Timestamps are settled by `UniqueInv`
(an equal timestamp belongs to the same transaction), the rest by the order in which the
messages of one transaction can meet:
* `KnownInv`: a site has records only of submitted transactions that touch its partition,
  and of every transaction for which it asked its region.
* `TidyInv`: no connection carries a second `PrepareCRT` or `DistExe` of a transaction, nor
  a `PrepareCRT` behind the `NotiCommit` of a decision that waits for its input.
* `LeadersInv`: replicas and requests agree on the leader of a partition, and the
  coordinator leads its own.
* `CrtInv`: how far each site has got with a cross-region transaction, given what is on its
  way there.  A `PrepareCRT` is under way only to a site whose record has no role yet, or
  to a coordinator that has not counted itself; its timestamp is none of the site's floors;
  a `DistExe` only to a site that owes no answer; an entry of the queue has the timestamp of
  its record; a leader answers once, after it has run its pieces, and until then no
  coordinator has noted the output of that partition.

`PrepareCRT` comes from the manager and `DistExe` from the coordinator, so a site may hear
the decision first.  It then has a record without a role, which the late `PrepareCRT` only
updates; that no `verify` fails there either is part of the theorem.

**`EpSkewHolds`**: `EpSpec => []EpSkew`.  `EpInv`: during a round each site is in exactly
one of three situations, call under way, answer under way or answer counted, and its epoch
says which.

**`ThRunsOnceHolds`**: `ThSpec => []ThRunsOnce`.  `ThInv` gives each job that was accepted
exactly one place: one position of one queue, one thread, or done.  Pops, thefts and the
last sweep of `~ThreadPool` move it along and never copy or drop it.

**`RpInStepHolds`**: `RpSpec => []RpInStep`.  `RpInv`: while the client is open, a call is in
exactly one of its output buffer, the wire, the server's work, the replies and its input
buffer, and its future is in `pending_fu_`.  Replies are taken whole, so a header always
finds its future.  On the server a connection's count is the number of its holders, open
connections have different descriptors, and `accept` finds a free one because a
descriptor belongs to an open connection (by counting).

**`RpCallbacksHold`**: `RpSpec => []RpOncePerOutcome /\ RpTimeoutFinal`.  `RpFuturesOK`: a
future that is pending is not ready, one that has timed out belongs to a caller on its way
out of `timed_wait`, and its callback has run once for being ready and once for a timeout
that was carried through.  So `notify_ready` finds a future that timed out before it was
ready only to leave it as it is, and one that was ready before only after it was taken
from `pending_fu_`.

**`LcMeasuresHolds`**: `LcPunctual` implies `LcSpec => []LcMeasures`.  The hypothesis is
that the duration is not over before the closed loop's coordinators are made; without it
TLC refutes the property (`early`, above).  A request exists only behind a chain of
barriers: a site is ready only when it is connected, whoever passes the barrier knows all
sites up, and the controller's flag, `client_start`, the worker's thread and the request
follow one another (`LcSetupOK`, `LcBarrierOK`).  While the loop is being started, the
requests under way are the coordinators made so far; after that `n_concurrent_` is their
number, so the unsigned counter never wraps (`LcCountsOK`).

**`OncePerCauseHolds`**: `RpSpec /\ ThSpec /\ LcSpec => OncePerCause`.  Callbacks and
jobs are the two theorems above.  For latencies, `LcLatencyOK`: the requests answered in a
process are those in either buffer and those reported, and no request is in two of the
three.  Between copying a buffer and clearing it the collector has read all there is in
it, since coordinators write to the other one; and a number is a request of its own client
or a forwarded one, not both.

**`MpReplicatesHolds`**: `MpSpec => [](MpSameLog /\ MpAnswerIsReplicated /\ MpNoVerifyFails)`,
the Multi-Paxos parts of `Agreement`, `AnswersFinal` and `NoVerifyFails`.  `MpNetOK`: a message
carries the command of its slot and finds its replica as the handler asserts.
`MpReplicasOK`: what a replica keeps or has applied are decided commands of their slots,
and its log is as long as `max_executed_slot_` says, whatever order decisions came in.
`MpVotesOK`: a slot's acknowledgements are no more than the replicas that have accepted it and
have none on its way, so a decided slot has a quorum.  `MpOrderOK`: a transaction is prepared
and committed once, in this order.

**`OvOrderFinalHolds`**: `OvSpec => []OvOrderFinal`.  A watermark is the minimum of what the
sites reported at different moments, and it is adopted when they have moved on.  `OvInv`
says when a value is final for a site: no timestamp the site holds or will give out is
below it.  `GetServerVWatermark` reports only such values and every later step of the site
keeps them final, so they still are in messages, in the gossipers' tables and at the sites
that adopt them.  The other half follows one timestamp: its entry at the site that gave
it out stays until the transaction is stored in all of its partitions, because the call
that removes it is made after the last `OVStoreACK`.

**`OvRunsAllPiecesHolds`**: `OvSpec => []OvRunsAllPieces`.  One acknowledgement per
partition lets the coordinator go on, so the call to execute may reach a replica that has
acknowledged nothing.  `OvRunInv` says that it finds the call to store handled or before it
on the same connection, and that this call carries what the replica must hold.  The second
needs that no call of the dispatch is left when the coordinator starts to store: two
messages of a transaction are never about one piece (`OvApart`), and a piece that is on its
way is sent and not acknowledged, so none is when all that was sent is acknowledged.

**`AgreementHolds`**: `CmSpec /\ TaSpec /\ MpSpec => []Agreement`.  The Paxos part is the
theorem above.

* Two-phase commit: `CmInv` says that a decision on its way to a partition, or carried out
  there, is the one the coordinator took for that attempt.  That no partition is left out
  when the client has its answer needs three more facts: `partition_ids_` holds the
  partitions of what was sent, the coordinator prepares only when it has sent everything
  (a piece waits for answers, and they do not wait in a circle), and a commit that was
  decided has arrived or is on its way.
* TAPIR: a retry reuses the coordinator under a new id while answers and decisions of the
  old attempt are still on their way, and a replica decides on its own whether an attempt
  gets its locks.  `TaInv` orders the calls on a connection by attempt and, within it, by
  dispatch, fast accept, decide (`TaRank`), so that a decision finds its attempt in the
  state in which the replica left it.  A replica that agreed holds the locks on what the
  attempt writes until the decision arrives (`TaLiveOK`), and a commit needs every replica
  of the partition to have agreed.  So the histories of a row differ by at most one write,
  whose lock the replica that lags behind still holds (`TaPairsOK`), and no other attempt
  can be agreed to before it catches up.

Only model-checked: the other properties of section 3.  Liveness under fairness and
`ENABLED` are outside what the prover does, and so is what a recursive definition computes
for every input: the recursion of `Marshal` (and with it the refinement `MaIsAQueue`),
`Tpl`, `Janus`, `MemTxn` and `Tpcc` (hence `Chopper`), the folds of `Sharding`.  Of `Dast`,
`FloorsReleased` is open: its invariant has to follow every floor through every message
that will release it.

### Not modelled

* MDCC and RO6: inherited modes DAST neither uses nor is compared with; the scheduler of
  RO6 is `verify(0)` (`frame.cc:387`).  ROCOCO itself: `RccCoord::Finish` and
  `RccSched::OnInquire` are `verify(0)`; the graph and its execution are in `Janus`.
* Frames and registries (object construction), YAML parsing, statistics, logs, plotting
  and deployment scripts: input and output.
* `TimeoutALock` (a row that is told to use it ends the process, `memdb/row.h:403`), the
  group of row locks (no piece sets `row_lock_`) and accesses with `TXN_BYPASS`.
* The multi-version rows of memdb and the values of columns: no module distinguishes
  values.  Unsorted tables.
* Coroutines, message queues and `rlog` of rrr: not used by the protocols of this tree.
  `RunLater`, `SpinLock`.
* The requests of workloads other than TPC-C and TPC-A: they set no home region, and
  `ClassicCoord::do_one` verifies that there is one.  The zipf sampler (`zipf.h`): any of
  its results is allowed.  Deployment files without `n_shard_per_region`, and two clients
  in one process, end in a `verify` of `config.cc`.
* Functions without a caller: the slow paths of TAPIR, the prepare phases of Janus and
  Multi-Paxos, epoch truncation, the handlers SLOG copied from DAST, and those of DAST
  named in section 2.

## 5. Plan

1. (done) `ChrTs`, `DastConfig`, `TxChronos`, `Dast` and their runs.
2. (done) The baselines, the commit protocols, the storage, the runtime, the workload,
   the addresses and the processes; the refinement of `PacketQueue` by `Marshal`.
3. (done) Proofs on `Dast`: the theorems of section 4.
4. (done) Proofs on the runtime and the protocols: `EpSkew`, `ThRunsOnce`,
   `RpInStep`, `LcMeasures`, `OncePerCause`, `OvOrderFinal`, `OvRunsAllPieces`, `Agreement`.
5. An abstract specification of cross-region commitment (anticipate, decide once,
   execute) that `Dast` implements; `DecidedInv` and `OffersInv` are its step simulation.
