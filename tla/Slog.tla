----- MODULE Slog -----
(* The SLOG baseline, deptran/slog.  A client hands its transaction to a site of its
   home partition.  The manager of the region orders the transactions that stay in the
   region, a replicated global log orders the others and feeds them to the managers, and
   every manager feeds the one log of its region in batches to the sites, which execute
   it. Every handler holds the mutex of its object, so it is one action; a connection
   delivers in order.  Replies without a callback are left out. *)
EXTENDS Messages, Naturals, FiniteSets, SequencesExt, TLC

CONSTANTS
  SlRegions,     \* number of regions
  SlShards,      \* n_shard_per_region_
  SlReps,        \* N_REP_PER_SHARD
  SlFollowers,   \* number of followers of the global log
  SlTxns,        \* the transactions, bound
  SlLoads,       \* workloads: piece -> [txn, par, type, needs, gives]
  SlConflicts,   \* TpccPiece::conflicts_, pairs <<pending, to_check>>
  SlHome,        \* transaction -> the sites a client may submit it to
  SlMaxPending,  \* max_pending_txns_
  SlFresh,       \* values of next_execute_index_, which no constructor sets
  SlGarbage      \* values of n_local_pieces_ where nothing assigns it

SlPars  == 0..(SlRegions * SlShards - 1)
SlSites == 0..(SlRegions * SlShards * SlReps - 1)

ASSUME SlogAssumption ==
  /\ {SlRegions, SlShards, SlReps, SlFollowers} \subseteq Nat \ {0}
  /\ \A load \in SlLoads : \A p \in DOMAIN load : load[p].txn \in SlTxns /\ load[p].par \in SlPars
  /\ \A t \in SlTxns : SlHome[t] \subseteq SlSites

(* Who can hold or receive a message. *)
SlSite(s)   == <<"site", s>>
SlMgr(r)    == <<"manager", r>>
SlBackup(r) == <<"backup", r>>
SlRaft(i)   == <<"raft", i>>

SlParOf(s) == s \div SlReps
SlRegionOf(par) == par \div SlShards
SlParSites(par) == {s \in SlSites : SlParOf(s) = par}
SlRegionSites(r) == {s \in SlSites : SlRegionOf(SlParOf(s)) = r}

VARIABLES
  raft_log,   \* leader: entries [txn, coord, committed]
  raft_next,  \* next_send_index_
  raft_copy,  \* log_ of every follower
  rm_log,     \* per region: entries [txn, coord, committed]
  rm_commit,  \* next_commit_index_
  rm_sent,    \* next_send_index_
  rm_global,  \* global_log_: index -> entry, holes left out
  rm_insert,  \* global_next_insert_index_
  rm_copy,    \* log_ of the backup manager
  sl_queue,   \* txn_queue_ of every site: index -> transaction
  sl_next,    \* next_execute_index_
  sl_tx,      \* the records of every site
  sl_deps,    \* pending_dep_values_
  sl_net,     \* the connections
  sl_load,    \* the workload of the run, never changed
  sl_submitted, sl_replied,
  sl_ran,     \* history: the pieces every site ran, in order
  sl_aborted  \* nodes where a verify() failed

raftVars == <<raft_log, raft_next, raft_copy>>
rmVars   == <<rm_log, rm_commit, rm_sent, rm_global, rm_insert, rm_copy>>
siteVars == <<sl_queue, sl_next, sl_tx, sl_deps, sl_ran, sl_replied>>
slVars   == <<raftVars, rmVars, siteVars, sl_net, sl_submitted, sl_aborted, sl_load>>

(* The pieces of the workload.  A home site is_irt when no piece leaves its region. *)
SlPiece == sl_load
SlPieces == DOMAIN sl_load
SlPiecesAt(t, par) == {p \in SlPieces : SlPiece[p].txn = t /\ SlPiece[p].par = par}
SlTouched(t) == {SlPiece[p].par : p \in {q \in SlPieces : SlPiece[q].txn = t}}
SlTouchedRegions(t) == {SlRegionOf(par) : par \in SlTouched(t)}
SlIsIrt(t, home) == SlTouchedRegions(t) = {SlRegionOf(SlParOf(home))}

(* TxSlog: known is "GetDTxn(id) is not null", n_local is n_local_pieces_, coord is
   coord_site_, waits are the partitions whose par_output_received_ is false, have are
   the variables that arrived for waiting pieces. *)
SlNoTx == [known |-> FALSE, coord |-> 0, pieces |-> {}, n_local |-> 0, done |-> {},
           have |-> {}, executed |-> FALSE, waits |-> {}]

-----
(* The connections. *)

SlConns == ({SlSite(s) : s \in SlSites} \X
              ({SlSite(s) : s \in SlSites} \cup {SlMgr(r) : r \in 0..(SlRegions - 1)} \cup {SlRaft(0)}))
      \cup ({SlMgr(r) : r \in 0..(SlRegions - 1)} \X
              ({SlSite(s) : s \in SlSites} \cup {SlBackup(r) : r \in 0..(SlRegions - 1)}))
      \cup {<<SlBackup(r), SlMgr(r)>> : r \in 0..(SlRegions - 1)}
      \cup {<<SlRaft(0), SlMgr(r)>> : r \in 0..(SlRegions - 1)}
      \cup {<<SlRaft(0), SlRaft(i)>> : i \in 1..SlFollowers}
      \cup {<<SlRaft(i), SlRaft(0)>> : i \in 1..SlFollowers}

(* verify(cond) in a handler of node n. *)
SlVerify(n, cond) == IF cond THEN sl_aborted ELSE sl_aborted \cup {n}
SlTaken(c) == Taken(sl_net, c)
SlReceives(c, type) == Receives(sl_net, c, type)

-----
(* Execution of one transaction, tx.cc. *)

SlGives(P) == UNION {SlPiece[p].gives : p \in P}

(* Variant that the runs must reject: pending pieces are not looked at. *)
SlCanExeWoConflict_Never(p, pending) == TRUE

(* can_exe_wo_conflict: no pending piece type conflicts with the piece. *)
SlCanExeWoConflict(p, pending) ==
  \A type \in pending : <<type, SlPiece[p].type>> \notin SlConflicts

(* RecursiveExecuteReadyPieces: one pass of the loop over pieces_, the pieces of run
   having been executed by this call already. *)
SlPass(x, run, pending) ==
  run \cup {p \in x.pieces \ x.done : /\ SlPiece[p].needs \subseteq x.have \cup SlGives(run)
                                      /\ SlCanExeWoConflict(p, pending)}
(* The passes repeat until no output makes another piece ready. *)
SlRunOf(x, pending) ==
  LET pass[n \in 0..Cardinality(x.pieces)] ==
        IF n = 0 THEN {} ELSE SlPass(x, pass[n - 1], pending)
  IN  pass[Cardinality(x.pieces)]

SlAfterRun(x, run) == [x EXCEPT !.done = @ \cup run, !.have = @ \cup SlGives(run)]

(* GetOutputsTargets: the partitions with a piece that waits for an output. *)
SlTargets(t, p) ==
  {SlPiece[q].par : q \in {q \in SlPieces : /\ SlPiece[q].txn = t
                                            /\ SlPiece[q].needs \cap SlPiece[p].gives # {}}}

(* MergeCheckReadyPieces: a piece became ready. *)
SlMerge(x, vs) == [x EXCEPT !.have = @ \cup vs]
SlMoreToRun(x, vs) ==
  \E p \in x.pieces : /\ ~(SlPiece[p].needs \subseteq x.have)
                      /\ SlPiece[p].needs \subseteq x.have \cup vs

(* ExecTxnQueue of site s.  The accumulator is the state of the loop: the records,
   next_execute_index_, pending_pieces, found_pending, whether the loop has ended, and
   what it sent, ran and answered. *)
SlTypesOf(P) == {SlPiece[p].type : p \in P}

(* What a finished or a partly run transaction sends: SendTxnOutput goes to the
   coordinator of another partition, from a site that ran a piece; SendDependentValues
   goes to every site of a partition that waits. *)
SlOutput(s, t, x) ==
  IF SlParOf(x.coord) = SlParOf(s) \/ x.pieces = {} THEN <<>>
  ELSE <<To({SlSite(x.coord)}, [type |-> "TxnOutput", txn |-> t, par |-> SlParOf(s)])>>

SlDepValues(s, t, run) ==
  LET targets == (UNION {SlTargets(t, p) : p \in run}) \ {SlParOf(s)}
      to(par) == To({SlSite(u) : u \in SlParSites(par)},
                         [type |-> "DepValues", txn |-> t,
                          vars |-> SlGives({p \in run : par \in SlTargets(t, p)})])
  IN  SetToSeq({to(par) : par \in targets})

(* TryExecute.  The reply_callback of the coordinator answers the client when no
   partition's output is missing. Variant that the runs must reject: the own output
   completes the reply. *)
SlWaits_Own(s, x) == {}

SlWaits(s, x) == IF x.pieces = {} THEN x.waits ELSE x.waits \ {SlParOf(s)}

SlTry(s, acc, t) ==
  LET x == acc.tx[t]
      run == SlRunOf(x, acc.pending)
      y == SlAfterRun(x, run)
      finished == y.n_local = Cardinality(y.done)
      waits == SlWaits(s, y)
  IN  [acc EXCEPT
        !.tx[t] = IF finished THEN [y EXCEPT !.executed = TRUE, !.waits = waits] ELSE y,
        !.ran = @ \o SetToSeq(run),
        !.pending = @ \cup SlTypesOf(y.pieces \ y.done),
        !.sends = @ \o (IF finished THEN SlOutput(s, t, y) ELSE <<>>) \o SlDepValues(s, t, run),
        !.replied = IF finished /\ y.coord = s /\ waits = {} THEN Append(@, t) ELSE @,
        !.found = IF finished THEN @ ELSE @ + 1,
        !.stop = ~finished /\ acc.found + 1 > SlMaxPending,
        !.next = IF finished /\ acc.found = 0 THEN @ + 1 ELSE @]

SlVisit(s, q, acc, i) ==
  CASE acc.stop -> acc
    [] ~acc.stop /\ i \notin DOMAIN q -> [acc EXCEPT !.stop = TRUE]
    [] ~acc.stop /\ i \in DOMAIN q /\ ~acc.tx[q[i]].executed -> SlTry(s, acc, q[i])
    [] OTHER -> [acc EXCEPT !.next = IF acc.found = 0 THEN @ + 1 ELSE @]

(* A handler that does not run the queue. *)
SlNoExec(tx, next) ==
  [tx |-> tx, next |-> next, pending |-> {}, found |-> 0, stop |-> TRUE,
   sends |-> <<>>, replied |-> <<>>, ran |-> <<>>]

SlQueueLen(q) == IF q = <<>> THEN 0 ELSE 1 + CHOOSE n \in DOMAIN q : \A i \in DOMAIN q : i <= n

SlExecTxnQueue(s, q, tx, next) ==
  LET len == IF SlQueueLen(q) > next THEN SlQueueLen(q) - next ELSE 0
      visited[n \in 0..len] ==
        IF n = 0 THEN [SlNoExec(tx, next) EXCEPT !.stop = FALSE]
        ELSE LET acc == visited[n - 1] IN SlVisit(s, q, acc, next + n - 1)
  IN  visited[len]

(* What an execution r of site s leaves behind. *)
SlEffects(s, r, net) ==
  /\ sl_tx' = [sl_tx EXCEPT ![s] = r.tx]
  /\ sl_next' = [sl_next EXCEPT ![s] = r.next]
  /\ sl_ran' = [sl_ran EXCEPT ![s] = @ \o r.ran]
  /\ sl_replied' = sl_replied \o r.replied
  /\ sl_net' = SendFrom(net, SlSite(s), r.sends)

-----
(* The sites. *)

(* OnSubmitTxn.  A record is written in full, but nothing assigns n_local_pieces_ when
   the partition of the site has no piece. *)
SlOnSubmitTxn(t, s) ==
  /\ t \in {SlPiece[p].txn : p \in SlPieces} \ sl_submitted /\ s \in SlHome[t]
  /\ sl_submitted' = sl_submitted \cup {t}
  /\ LET mine == SlPiecesAt(t, SlParOf(s))
         to == IF SlIsIrt(t, s) THEN SlMgr(SlRegionOf(SlParOf(s))) ELSE SlRaft(0)
     IN  /\ \E n \in IF mine = {} THEN SlGarbage ELSE {Cardinality(mine)} :
              sl_tx' = [sl_tx EXCEPT ![s][t] =
                [SlNoTx EXCEPT !.known = TRUE, !.coord = s, !.pieces = mine, !.n_local = n,
                               !.waits = SlTouched(t)]]
         /\ sl_net' = SendFrom(sl_net, SlSite(s), <<To({to}, [type |-> "Submit", txn |-> t, coord |-> s])>>)
  /\ UNCHANGED <<raftVars, rmVars, sl_queue, sl_next, sl_deps, sl_ran, sl_replied, sl_aborted>>

(* The record that OnSendBatch makes for a transaction of another site. *)
SlBatchTx(s, e) ==
  LET mine == SlPiecesAt(e.txn, SlParOf(s))
  IN  [SlNoTx EXCEPT !.known = TRUE, !.coord = e.coord, !.pieces = mine,
                     !.n_local = Cardinality(mine)]

(* SlMergePending_Dropped, which the runs must reject, loses what came before its
   transaction did. CheckPendingDeps: merge what came before its transaction did; the
   queue runs again when that made a piece ready. *)
SlMergePending_Dropped(s, tx) == tx

SlMergePending(s, tx) ==
  [t \in SlTxns |-> IF tx[t].known
                    THEN SlMerge(tx[t], UNION {d.vars : d \in {d \in sl_deps[s] : d.txn = t}})
                    ELSE tx[t]]
SlPendingReady(s, tx) ==
  \E t \in SlTxns : tx[t].known /\ SlMoreToRun(tx[t], UNION {d.vars : d \in {d \in sl_deps[s] : d.txn = t}})

(* Two executions of one handler, one after the other. *)
SlThen(r1, r2) == [r2 EXCEPT !.sends = r1.sends \o @, !.replied = r1.replied \o @,
                             !.ran = r1.ran \o @]

SlOnSendBatch(c) ==
  /\ SlReceives(c, "SendBatch")
  /\ LET m == Head(sl_net[c])   s == c[2][2]
         slots == m.start..(m.start + Len(m.txns) - 1)
         entry(i) == m.txns[i - m.start + 1]
         q == [i \in DOMAIN sl_queue[s] \cup slots |->
                 IF i \in slots THEN entry(i).txn ELSE sl_queue[s][i]]
         news == {entry(i) : i \in {j \in slots : ~sl_tx[s][entry(j).txn].known}}
         tx == [t \in SlTxns |-> IF \E e \in news : e.txn = t
                                 THEN SlBatchTx(s, CHOOSE e \in news : e.txn = t) ELSE sl_tx[s][t]]
         r1 == SlExecTxnQueue(s, q, tx, sl_next[s])
         merged == SlMergePending(s, r1.tx)
         r2 == IF SlPendingReady(s, r1.tx) THEN SlExecTxnQueue(s, q, merged, r1.next)
               ELSE SlNoExec(merged, r1.next)
     IN  /\ sl_aborted' = SlVerify(c[2], \A i \in slots :
                            /\ i \notin DOMAIN sl_queue[s]
                            /\ sl_tx[s][entry(i).txn].known => entry(i).coord = s)
         /\ sl_queue' = [sl_queue EXCEPT ![s] = q]
         /\ sl_deps' = [sl_deps EXCEPT ![s] = {d \in @ : ~tx[d.txn].known}]
         /\ SlEffects(s, SlThen(r1, r2), SlTaken(c))
  /\ UNCHANGED <<raftVars, rmVars, sl_submitted>>

(* Variant that the runs must reject: the output of every replica counts. *)
SlOnSendTxnOutput_EveryReplica(c) ==
  /\ SlReceives(c, "TxnOutput")
  /\ LET m == Head(sl_net[c])   s == c[2][2]   waits == sl_tx[s][m.txn].waits \ {m.par}
     IN  /\ sl_tx' = [sl_tx EXCEPT ![s][m.txn].waits = waits]
         /\ sl_replied' = IF waits = {} THEN Append(sl_replied, m.txn) ELSE sl_replied
         /\ sl_net' = SlTaken(c)
  /\ UNCHANGED <<raftVars, rmVars, sl_queue, sl_next, sl_deps, sl_ran, sl_submitted, sl_aborted>>

(* OnSendTxnOutput: only the first of the replicas that send it counts. *)
SlOnSendTxnOutput(c) ==
  /\ SlReceives(c, "TxnOutput")
  /\ LET m == Head(sl_net[c])   s == c[2][2]   x == sl_tx[s][m.txn]
     IN  /\ sl_aborted' = SlVerify(c[2], x.known /\ m.par \in SlTouched(m.txn))
         /\ sl_tx' = [sl_tx EXCEPT ![s][m.txn].waits = @ \ {m.par}]
         /\ sl_replied' = IF m.par \in x.waits /\ x.waits = {m.par}
                          THEN Append(sl_replied, m.txn) ELSE sl_replied
         /\ sl_net' = SlTaken(c)
  /\ UNCHANGED <<raftVars, rmVars, sl_queue, sl_next, sl_deps, sl_ran, sl_submitted>>

(* OnSendDepValues. *)
SlOnSendDepValues(c) ==
  /\ SlReceives(c, "DepValues")
  /\ LET m == Head(sl_net[c])   s == c[2][2]   x == sl_tx[s][m.txn]
         tx == [sl_tx[s] EXCEPT ![m.txn] = SlMerge(@, m.vars)]
     IN  IF ~x.known
         THEN /\ sl_deps' = [sl_deps EXCEPT ![s] = @ \cup {[txn |-> m.txn, vars |-> m.vars]}]
              /\ SlEffects(s, SlNoExec(sl_tx[s], sl_next[s]), SlTaken(c))
         ELSE /\ sl_deps' = sl_deps
              /\ SlEffects(s, IF SlMoreToRun(x, m.vars)
                              THEN SlExecTxnQueue(s, sl_queue[s], tx, sl_next[s])
                              ELSE SlNoExec(tx, sl_next[s]), SlTaken(c))
  /\ UNCHANGED <<raftVars, rmVars, sl_queue, sl_submitted, sl_aborted>>

-----
(* The manager of a region. *)

SlEntry(m) == [txn |-> m.txn, coord |-> m.coord, committed |-> FALSE]

(* InsertLocalLog for the entries es, one RmReplicate each. *)
SlInsertLocalLog(r, es, net) ==
  /\ rm_log' = [rm_log EXCEPT ![r] = @ \o es]
  /\ sl_net' = SendFrom(net, SlMgr(r), [i \in 1..Len(es) |-> To({SlBackup(r)},
                  [type |-> "RmReplicate", txn |-> es[i].txn, index |-> Len(rm_log[r]) + i])])

(* SendRmIRT. *)
SlSendRmIRT(c) ==
  /\ SlReceives(c, "Submit") /\ c[2][1] = "manager"
  /\ SlInsertLocalLog(c[2][2], <<SlEntry(Head(sl_net[c]))>>, SlTaken(c))
  /\ UNCHANGED <<raftVars, rm_commit, rm_sent, rm_global, rm_insert, rm_copy, siteVars, sl_submitted, sl_aborted>>

(* SlogSendOrderedCRT.  An entry waits in global_log_ until the ones before it are
   there; an entry that does not touch the region only closes its gap. *)
SlRelevant(r, e) == r \in SlTouchedRegions(e.txn)
SlUpTo(g, n) == CHOOSE k \in n..(n + Cardinality(DOMAIN g)) :
                  n..(k - 1) \subseteq DOMAIN g /\ k \notin DOMAIN g

SlSendOrderedCRT(c) ==
  /\ SlReceives(c, "OrderedCRT")
  /\ LET m == Head(sl_net[c])   r == c[2][2]
         g == rm_global[r] @@ (m.index :> SlEntry(m))
         upto == SlUpTo(g, rm_insert[r])
         ready == [i \in 1..(upto - rm_insert[r]) |-> g[rm_insert[r] + i - 1]]
     IN  /\ rm_global' = [rm_global EXCEPT ![r] = g]
         /\ rm_insert' = [rm_insert EXCEPT ![r] = upto]
         /\ sl_aborted' = SlVerify(c[2], m.index \notin DOMAIN rm_global[r])
         /\ SlInsertLocalLog(r, SelectSeq(ready, LAMBDA e : SlRelevant(r, e)), SlTaken(c))
  /\ UNCHANGED <<raftVars, rm_commit, rm_sent, rm_copy, siteVars, sl_submitted>>

(* RmReplicate at the backup, which acknowledges. *)
SlRmReplicate(c) ==
  /\ SlReceives(c, "RmReplicate")
  /\ LET m == Head(sl_net[c])   r == c[2][2]
     IN  /\ rm_copy' = [rm_copy EXCEPT ![r] = Append(@, m.txn)]
         /\ sl_net' = SendFrom(SlTaken(c), SlBackup(r),
                             <<To({SlMgr(r)}, [type |-> "RmAck", index |-> m.index])>>)
  /\ UNCHANGED <<raftVars, rm_log, rm_commit, rm_sent, rm_global, rm_insert, siteVars, sl_submitted, sl_aborted>>

(* ReplicateACK: commit the entry, and all committed entries behind the last one that
   was committed in order. *)
SlCommitted(log) == {i \in DOMAIN log : log[i].committed}
SlReplicateACK(c) ==
  /\ SlReceives(c, "RmAck")
  /\ LET m == Head(sl_net[c])   r == c[2][2]
         log == [rm_log[r] EXCEPT ![m.index].committed = TRUE]
     IN  /\ rm_log' = [rm_log EXCEPT ![r] = log]
         /\ rm_commit' = [rm_commit EXCEPT ![r] =
              CHOOSE k \in rm_commit[r]..Len(log) :
                /\ (rm_commit[r] + 1)..k \subseteq SlCommitted(log)
                /\ k + 1 \notin SlCommitted(log)]
         /\ sl_net' = SlTaken(c)
  /\ UNCHANGED <<raftVars, rm_sent, rm_global, rm_insert, rm_copy, siteVars, sl_submitted, sl_aborted>>

(* Variant that the runs must reject: entries are sent before they commit. *)
SlCheckAndSendBatch_Early(r) ==
  /\ rm_sent[r] < Len(rm_log[r])
  /\ sl_net' = SendFrom(sl_net, SlMgr(r), <<To({SlSite(s) : s \in SlRegionSites(r)},
                 [type |-> "SendBatch", start |-> rm_sent[r],
                  txns |-> SubSeq(rm_log[r], rm_sent[r] + 1, Len(rm_log[r]))])>>)
  /\ rm_sent' = [rm_sent EXCEPT ![r] = Len(rm_log[r])]
  /\ UNCHANGED <<raftVars, rm_log, rm_commit, rm_global, rm_insert, rm_copy, siteVars, sl_submitted, sl_aborted>>

(* The index of the first entry of a batch; the variant sends one again. *)
SlBatchStart_Again(r) == IF rm_sent[r] = 0 THEN 0 ELSE rm_sent[r] - 1
SlBatchStart(r) == rm_sent[r]

(* CheckAndSendBacth: one round of the thread that has something to send. *)
SlCheckAndSendBatch(r) ==
  /\ rm_sent[r] < rm_commit[r]
  /\ sl_net' = SendFrom(sl_net, SlMgr(r), <<To({SlSite(s) : s \in SlRegionSites(r)},
                 [type |-> "SendBatch", start |-> SlBatchStart(r),
                  txns |-> SubSeq(rm_log[r], SlBatchStart(r) + 1, rm_commit[r])])>>)
  /\ rm_sent' = [rm_sent EXCEPT ![r] = rm_commit[r]]
  /\ UNCHANGED <<raftVars, rm_log, rm_commit, rm_global, rm_insert, rm_copy, siteVars, sl_submitted, sl_aborted>>

-----
(* The global log, auxiliary_raft.cc. *)

SlRaftSubmit(c) ==
  /\ SlReceives(c, "Submit") /\ c[2] = SlRaft(0)
  /\ LET m == Head(sl_net[c])
     IN  /\ raft_log' = Append(raft_log, SlEntry(m))
         /\ sl_net' = SendFrom(SlTaken(c), SlRaft(0), <<To({SlRaft(i) : i \in 1..SlFollowers},
              [type |-> "AppendEntries", txn |-> m.txn, index |-> Len(raft_log) + 1])>>)
  /\ UNCHANGED <<raft_next, raft_copy, rmVars, siteVars, sl_submitted, sl_aborted>>

SlRaftAppendEntries(c) ==
  /\ SlReceives(c, "AppendEntries")
  /\ LET m == Head(sl_net[c])   f == c[2][2]
     IN  /\ raft_copy' = [raft_copy EXCEPT ![f] = Append(@, m.txn)]
         /\ sl_net' = SendFrom(SlTaken(c), SlRaft(f),
                             <<To({SlRaft(0)}, [type |-> "AppendAck", index |-> m.index])>>)
  /\ UNCHANGED <<raft_log, raft_next, rmVars, siteVars, sl_submitted, sl_aborted>>

(* RaftAppendAck: the first acknowledgement of an entry commits it; the committed
   entries go out in order, to the manager of every region. *)
SlRaftAppendAck(c) ==
  /\ SlReceives(c, "AppendAck")
  /\ LET m == Head(sl_net[c])
         log == [raft_log EXCEPT ![m.index].committed = TRUE]
         upto == CHOOSE k \in raft_next..Len(log) :
                   (raft_next + 1)..k \subseteq SlCommitted(log) /\ k + 1 \notin SlCommitted(log)
     IN  IF raft_log[m.index].committed
         THEN sl_net' = SlTaken(c) /\ UNCHANGED <<raft_log, raft_next>>
         ELSE /\ raft_log' = log
              /\ raft_next' = upto
              /\ sl_net' = SendFrom(SlTaken(c), SlRaft(0), [j \in 1..(upto - raft_next) |->
                   LET i == raft_next + j
                   IN  To({SlMgr(r) : r \in 0..(SlRegions - 1)},
                            [type |-> "OrderedCRT", txn |-> log[i].txn, coord |-> log[i].coord, index |-> i])])
  /\ UNCHANGED <<raft_copy, rmVars, siteVars, sl_submitted, sl_aborted>>

-----
SlInit ==
  /\ sl_load \in SlLoads
  /\ raft_log = <<>> /\ raft_next = 0 /\ raft_copy = [f \in 1..SlFollowers |-> <<>>]
  /\ rm_log = [r \in 0..(SlRegions - 1) |-> <<>>]
  /\ rm_commit = [r \in 0..(SlRegions - 1) |-> 0] /\ rm_sent = rm_commit
  /\ rm_global = [r \in 0..(SlRegions - 1) |-> <<>>]
  /\ rm_insert = [r \in 0..(SlRegions - 1) |-> 1]
  /\ rm_copy = [r \in 0..(SlRegions - 1) |-> <<>>]
  /\ sl_queue = [s \in SlSites |-> <<>>]
  /\ sl_next \in [SlSites -> SlFresh]
  /\ sl_tx = [s \in SlSites |-> [t \in SlTxns |-> SlNoTx]]
  /\ sl_deps = [s \in SlSites |-> {}]
  /\ sl_net = [c \in SlConns |-> <<>>]
  /\ sl_submitted = {} /\ sl_replied = <<>> /\ sl_aborted = {}
  /\ sl_ran = [s \in SlSites |-> <<>>]

SlDeliver == \E c \in DOMAIN sl_net :
  \/ SlOnSendBatch(c) \/ SlOnSendTxnOutput(c) \/ SlOnSendDepValues(c)
  \/ SlSendRmIRT(c) \/ SlSendOrderedCRT(c) \/ SlRmReplicate(c) \/ SlReplicateACK(c)
  \/ SlRaftSubmit(c) \/ SlRaftAppendEntries(c) \/ SlRaftAppendAck(c)
SlSubmit == \E t \in SlTxns, s \in SlSites : SlOnSubmitTxn(t, s)
SlBatch == \E r \in 0..(SlRegions - 1) : SlCheckAndSendBatch(r)
SlNext == (SlSubmit \/ SlDeliver \/ SlBatch) /\ UNCHANGED sl_load

-----
(* Two transactions that touch common data are executed in one order, at every replica
   of every partition they share, although the regions insert cross-region transactions
   into their logs independently and a site runs past a transaction that waits for
   values: the order in which conflicting pieces ran anywhere has no cycle
   (ExecTxnQueue). *)
SlConflict(p, q) ==
  /\ SlPiece[p].txn # SlPiece[q].txn /\ SlPiece[p].par = SlPiece[q].par
  /\ <<SlPiece[p].type, SlPiece[q].type>> \in SlConflicts
SlBefore == {<<SlPiece[sl_ran[s][i]].txn, SlPiece[sl_ran[s][j]].txn>> :
               <<s, i, j>> \in {x \in SlSites \X (1..Cardinality(SlPieces)) \X (1..Cardinality(SlPieces)) :
                   /\ x[2] < x[3] /\ x[3] <= Len(sl_ran[x[1]])
                   /\ SlConflict(sl_ran[x[1]][x[2]], sl_ran[x[1]][x[3]])}}
SlSerializable == \E rank \in [SlTxns -> 1..Cardinality(SlTxns)] :
                    \A e \in SlBefore : rank[e[1]] < rank[e[2]]

(* A client sees its answer only after some replica of every partition the transaction
   touches has run all its pieces there (reply_callback of OnSubmitTxn, TryExecute and
   OnSendTxnOutput). *)
SlAnswered == {sl_replied[i] : i \in DOMAIN sl_replied}
SlAnswerAfterExecution ==
  \A t \in SlAnswered : \A par \in SlTouched(t) :
    \E s \in SlParSites(par) : SlPiecesAt(t, par) \subseteq sl_tx[s][t].done

(* Nothing runs before the backup of the region's manager has it, and a cross-region
   transaction not before a follower of the global log has it (ReplicateACK,
   RaftAppendAck, CheckAndSendBacth). *)
SlRunIsReplicated ==
  \A s \in SlSites : \A i \in DOMAIN sl_ran[s] :
    LET t == SlPiece[sl_ran[s][i]].txn   r == SlRegionOf(SlParOf(s))
    IN  /\ Contains(rm_copy[r], t)
        /\ \/ Cardinality(SlTouchedRegions(t)) = 1
           \/ \E f \in 1..SlFollowers : Contains(raft_copy[f], t)

(* A transaction with a piece in the partition of its coordinator is answered at most
   once: every replica of every other partition sends its output, the own partition may
   finish last (OnSendTxnOutput, TryExecute). *)
SlAnsweredOnce == IsInjective(sl_replied)

(* No verify() of the batches, the outputs and the global log fails. *)
SlNoVerifyFails == sl_aborted = {}

(* When no message is on its way and no manager has a batch to send, every transaction
   that was submitted has been answered: none is stuck behind a hole, a value that came
   before its transaction, or a full window of pending transactions (CheckPendingDeps,
   ExecTxnQueue). *)
SlQuiet == (\A c \in DOMAIN sl_net : sl_net[c] = <<>>) /\ rm_sent = rm_commit
SlNoneStuck == SlQuiet => sl_submitted \subseteq SlAnswered

(* What a client of SLOG may rely on when OnSubmitTxn answers: what it sees is
   replicated and executed at every partition, and it sees it once. *)
SlAnswers == SlRunIsReplicated /\ SlAnswerAfterExecution /\ SlAnsweredOnce

=====
