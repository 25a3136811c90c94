----- MODULE Dast -----
(* DAST, deptran/chronos: the scheduler of every site (scheduler.cc), the manager of
   every region (manager.cc), and the connections between them. Every handler of a
   scheduler holds mtx_ from its first to its last statement, so it is one action.  A
   manager's handlers take mtx_ only for their last statements, which are an action of
   their own, MgrFinish. A connection delivers in order; a request travels on the
   connection from the calling process to the called service, its reply comes back in
   the other direction, so a request and a reply may overtake each other. Replies whose
   callback does nothing are left out. *)
EXTENDS TxChronos, Sequences

CONSTANTS
  PhysTimes,     \* the readings of system_clock, bound
  InitOffsets,   \* the values of clock_offset_, which no constructor sets
  EstimatedRtt,  \* estimated_rtt of CalculateAnticipatedTs
  MaxPending,    \* max_pending_txns_
  MaxSync,       \* rounds of IRSyncLoop of every node, bound
  Warm,          \* TRUE: every peer has been heard from once before
  Stalled        \* sites that take no step during the run

ASSUME ClockAssumption ==
  /\ PhysTimes \subseteq Nat /\ InitOffsets \subseteq Int
  /\ \A now \in PhysTimes, offset \in InitOffsets : now + offset > 0
  /\ EstimatedRtt \in Nat \ {0} /\ MaxPending \in Nat /\ MaxSync \in [Nodes -> Nat]
  /\ Warm \in BOOLEAN /\ Stalled \subseteq Sites

VARIABLES
  last_clock, clock_offset, dist_txn_tss,  \* of every site and manager
  max_future_ts,  \* of every manager
  mgr_todo,       \* what its handler has yet to do
  ir_site_max_ts, ir_site_notified_ts,  \* per site, of every peer
  ir_synced, ir_site_wait_ts,
  my_txns, ready_txns,  \* sets of [ts, id]
  dtxns,                \* ids the site has a record of
  tx,                   \* the records
  distributed_txns_by_me, new_input,
  req, rep,            \* the connections
  submitted, replied,  \* what clients did and saw
  syncs,               \* rounds of IRSyncLoop so far
  order,               \* history: <<p, q>>: p ran before q
  aborted              \* sites where a verify() failed

clockVars == <<last_clock, clock_offset, dist_txn_tss, max_future_ts, mgr_todo>>
syncVars  == <<ir_site_max_ts, ir_site_notified_ts, ir_synced, ir_site_wait_ts, syncs>>
tableVars == <<my_txns, dtxns>>
execVars  == <<ready_txns, tx, distributed_txns_by_me, new_input, replied, order>>
vars == <<clockVars, syncVars, tableVars, execVars, req, rep, submitted, aborted>>

(* Elements of the maps from timestamps to transactions, and of their images in
   messages; sets of timestamps that hold a clock back. *)
Entry   == [ts : ChrTsType, id : Txns]
Entries == {N \in SUBSET Entry : IsFiniteSet(N)}
Floors  == {F \in SUBSET AnticipatedType : IsFiniteSet(F)}

(* The requests and the replies, with the fields the handlers read.  noti, ts and
   delivered are the piggybacked part of ChronosStoreLocalReq and of its reply, and of
   DastIRSyncReq. *)
ReqMsg ==
       [type : {"PrepareIRT"}, txn : Txns, ts : ChrTsType, delivered : ChrTsType,
        noti : Entries]
  \cup [type : {"IRSync"}, from : Nodes, ts : ChrTsType, delivered : ChrTsType,
        noti : Entries]
  \cup [type : {"PrepareRemote"}, txn : Txns, ts : ChrTsType, wait : BOOLEAN]
  \cup [type : {"PrepareCRT"}, txn : Txns, ts : AnticipatedType, coord : Int,
        leader : Sites, input_ready : 0..1]
  \cup [type : {"NotiCRT"}, txn : Txns, ts : AnticipatedType, touched : SUBSET Sites]
  \cup [type : {"RemotePrepared"}, txn : Txns, ts : AnticipatedType, leads : BOOLEAN]
  \cup [type : {"DistExe"}, txn : Txns, ts : AnticipatedType]
  \cup [type : {"NotiWait", "NotiCommit"}, txn : Txns, orig : ChrTsType, wait : BOOLEAN,
        new : AnticipatedType, touched : SUBSET Sites]
  \cup [type : {"SendOutput"}, txn : Txns, vars : SUBSET Vars]

RepMsg ==
       [type : {"PrepareIRTRes"}, txn : Txns, ts : ChrTsType, delivered : ChrTsType,
        noti : Entries]
  \cup [type : {"DistExeRes"}, txn : Txns]

-----
(* Connections. *)

Proc(n) == IF n \in Sites THEN n ELSE MgrHost(n)
NoMsgs == [d \in Nodes |-> <<>>]
ToAll(D, m) == [d \in Nodes |-> IF d \in D THEN <<m>> ELSE <<>>]
Then(out1, out2) == [d \in Nodes |-> out1[d] \o out2[d]]

(* Requests out[d] go from the process of n to every node d. *)
Send(q, n, out) ==
  [c \in DOMAIN q |-> IF c[1] = Proc(n) THEN q[c] \o out[c[2]] ELSE q[c]]
Taken(q, c) == [q EXCEPT ![c] = Tail(@)]

Up(s) == s \notin Stalled /\ s \notin aborted
Receives(src, dst, type) ==
  /\ req[<<src, dst>>] # <<>> /\ Head(req[<<src, dst>>]).type = type
  /\ dst \in Sites => Up(dst)

(* verify(cond) in a handler of s: the process ends when cond is false. *)
Verify(s, cond) == aborted' = IF cond THEN aborted ELSE aborted \cup {s}

-----
(* GenerateChrTs(true) of node n; a manager's site_id_ is still -1. *)
Generate(n, now, floors) ==
  GenerateChrTs(IF n \in Sites THEN n ELSE -1, now, clock_offset[n], last_clock[n], floors)

PutReady(R, ts, t) == {e \in R : e.ts # ts} \cup {[ts |-> ts, id |-> t]}
HasTs(R, ts) == \E e \in R : e.ts = ts

(* Variant that the runs must reject: what was heard counts as what was told. *)
CollectNotifyTxns_Heard(s, d, mine, notified) ==
  {e \in mine : Less(ir_site_max_ts[s][d], e.ts) /\ ParOf(d) \in Touched(e.id)}

(* CollectNotifyTxns: the transactions mine of s that d may not know of, d having
   acknowledged the timestamps up to notified. *)
CollectNotifyTxns(s, d, mine, notified) ==
  {e \in mine : Less(notified, e.ts) /\ ParOf(d) \in Touched(e.id)}

-----
(* CheckExecutableTxns of site s.  R, x and ni are ready_txns_, the records and
   new_input_ at the call.  The loop visits R in timestamp order and run is the set of
   pieces it executes: the one solution of IsOutcome, in which the visit of an entry
   depends on earlier ones only. *)
Earlier(R, e) == {d \in R : Less(d.ts, e.ts)}
RunIn(run, e) == {p \in run : Piece[p].txn = e.id}

(* The region handler erases an entry once it is finished. *)
Ends(s, run, x, e) ==
  x[e.id].region_handler = s /\ Finished(AfterRun(x[e.id], RunIn(run, e)))

(* Variant that the runs must reject: the manager has to be heard as well. *)
Visited_Manager(s, run, R, x, e, maxTs) ==
  /\ \A r \in Peers(s) \cup {MgrOf(SiteRegion(s))} : Greater(maxTs[r], CommitTs(x[e.id]))
  /\ \A d \in Earlier(R, e) \cup {e} : x[d.id].phase >= PHASE_CAN_EXE

(* The loop gets as far as e. *)
Visited(s, run, R, x, e, maxTs) ==
  /\ \A r \in Peers(s) : Greater(maxTs[r], CommitTs(x[e.id]))
  /\ \A d \in Earlier(R, e) \cup {e} : x[d.id].phase >= PHASE_CAN_EXE
  /\ Cardinality({d \in Earlier(R, e) : /\ x[d.id].region_handler = s
                                        /\ ~Ends(s, run, x, d)}) <= MaxPending

(* Variant that the runs must reject: new input is no reason to try again. *)
Attempted_Once(s, run, R, x, ni, e, maxTs) ==
  /\ Visited(s, run, R, x, e, maxTs)
  /\ x[e.id].region_handler # s \/ ~x[e.id].exe_tried

(* The loop calls execute_callback_ of e. *)
Attempted(s, run, R, x, ni, e, maxTs) ==
  /\ Visited(s, run, R, x, e, maxTs)
  /\ \/ x[e.id].region_handler # s
     \/ ~x[e.id].exe_tried
     \/ ni
     \/ \E d \in Earlier(R, e) : Ends(s, run, x, d)

(* pending_pieces when the loop gets to e. *)
PendingTypes(s, run, R, x, ni, e, maxTs) ==
  UNION {{Piece[p].type : p \in x[d.id].pieces \ (x[d.id].done \cup RunIn(run, d))} :
           d \in {c \in Earlier(R, e) : Attempted(s, run, R, x, ni, c, maxTs)}}

IsOutcome(s, run, R, x, ni, maxTs) ==
  \A e \in R :
    IF Attempted(s, run, R, x, ni, e, maxTs)
    THEN IsRunOf(RunIn(run, e), x[e.id], PendingTypes(s, run, R, x, ni, e, maxTs))
    ELSE RunIn(run, e) = {}

Runnable(R, x) == UNION {x[e.id].pieces \ x[e.id].done : e \in R}

(* Variant that the runs must reject: one partition's output is enough. *)
CheckSendOutputToClient_Any(t, y) ==
  IF \E par \in Touched(t) : y.status[par] >= P_OUTPUT_RECEIVED
  THEN [y EXCEPT !.phase = OUTPUT_SENT] ELSE y

(* The record of t afterwards; a coordinator that finished its own pieces goes through
   CheckSendOutputToClient. *)
CheckSendOutputToClient(t, y) ==
  IF \A par \in Touched(t) : y.status[par] >= P_OUTPUT_RECEIVED
  THEN [y EXCEPT !.phase = OUTPUT_SENT] ELSE y

Executed(s, run, x, e) ==
  LET y == AfterRun(x[e.id], RunIn(run, e))
  IN  IF y.role = "crtCoord" /\ Ends(s, run, x, e)
      THEN CheckSendOutputToClient(e.id, [y EXCEPT !.status[ParOf(s)] = P_OUTPUT_RECEIVED])
      ELSE y

(* The members of a set of entries in the order of ready_txns_. *)
InTsOrder(R) ==
  CHOOSE q \in [1..Cardinality(R) -> R] :
    \A i, j \in 1..Cardinality(R) : i < j => ~Less(q[j].ts, q[i].ts) /\ q[i] # q[j]

(* What the callbacks send: SendOutput to every replica of the partitions that wait for
   a variable, and the deferred reply of DistExe. *)
OutputMsgs(s, run, R) ==
  [d \in Nodes |->
     IF d \in Managers \/ SitesForSamePar(s, d) THEN <<>>
     ELSE LET q == InTsOrder({e \in R : OutputTo(RunIn(run, e), ParOf(d)) # {}})
          IN  [i \in 1..Len(q) |-> [type |-> "SendOutput", txn |-> q[i].id,
                                    vars |-> OutputTo(RunIn(run, q[i]), ParOf(d))]]]

DistExeReplies(s, run, R, x) ==
  [d \in Nodes |->
     LET q == InTsOrder({e \in R : x[e.id].owes = d /\ Ends(s, run, x, e)})
     IN  [i \in 1..Len(q) |-> [type |-> "DistExeRes", txn |-> q[i].id]]]

CheckExecutableTxns(s, run, R, x, ni, floors, maxTs) ==
  LET tried == {e \in R : Attempted(s, run, R, x, ni, e, maxTs)}
      ended == {e \in tried : Ends(s, run, x, e)}
      mine  == {e.id : e \in {c \in ended : x[c.id].role = "crtCoord"}}
      txns  == [t \in Txns |-> IF \E e \in tried : e.id = t /\ x[t].role # "unset"
                               THEN Executed(s, run, x, CHOOSE e \in tried : e.id = t)
                               ELSE x[t]]
      before == UNION {x[t].done : t \in Txns}
      sooner(p, q) == \E d, e \in tried : /\ Piece[p].txn = d.id /\ Piece[q].txn = e.id
                                          /\ Less(d.ts, e.ts)
  IN  /\ IsOutcome(s, run, R, x, ni, maxTs)
      /\ ready_txns' = [ready_txns EXCEPT ![s] =
           R \ (ended \cup {e \in tried : x[e.id].region_handler # s})]
      /\ tx' = [tx EXCEPT ![s] = txns]
      /\ new_input' = [new_input EXCEPT ![s] = FALSE]
      /\ distributed_txns_by_me' = [distributed_txns_by_me EXCEPT ![s] = @ \ mine]
      /\ dist_txn_tss' = [dist_txn_tss EXCEPT ![s] = floors \ {x[t].ts : t \in mine}]
      /\ replied' = replied \cup {e.id : e \in {c \in ended : x[c.id].role = "irtHandler"}}
                            \cup {t \in mine : txns[t].phase = OUTPUT_SENT}
      /\ order' = [order EXCEPT ![s] = @ \cup (before \X run)
                     \cup {w \in run \X run : sooner(w[1], w[2])}]

(* A handler that does not reach CheckExecutableTxns. *)
NoExecution(s, R, x, ni, floors) ==
  /\ ready_txns' = [ready_txns EXCEPT ![s] = R]
  /\ tx' = [tx EXCEPT ![s] = x]
  /\ new_input' = [new_input EXCEPT ![s] = ni]
  /\ dist_txn_tss' = [dist_txn_tss EXCEPT ![s] = floors]
  /\ UNCHANGED <<distributed_txns_by_me, replied, order>>

-----
(* HandlePiggyInfo(from, ts, noti, delivered) at s.  The records, the ready transactions
   and the floors go on to CheckExecutableTxns, so they are returned; what nothing else
   in the handler touches is primed. *)
Unknown(known, noti) == {e \in noti : e.id \notin known}

PiggyTx(x, from, fresh) ==
  [t \in Txns |->
     IF \E e \in fresh : e.id = t
     THEN [x[t] EXCEPT !.ts = (CHOOSE e \in fresh : e.id = t).ts,
                       !.region_handler = from, !.phase = LOCAL_CAN_EXE]
     ELSE x[t]]

PiggyReady(R, fresh) == {e \in R : ~HasTs(fresh, e.ts)} \cup fresh

Heard(s, from, ts) == Less(ir_site_max_ts[s][from], ts)
Passed(s, from, ts) == {w \in ir_site_wait_ts[s] : w.site = from /\ ~Less(ts, w.ts)}

(* Floors that waited for nobody but from. *)
PiggyFloors(s, from, ts) ==
  IF ~Heard(s, from, ts) THEN dist_txn_tss[s]
  ELSE dist_txn_tss[s] \ {w.ts : w \in {v \in Passed(s, from, ts) :
                             \A u \in ir_site_wait_ts[s] : u.ts = v.ts => u.site = from}}

HandlePiggyInfo(s, from, ts, noti, delivered, known, now) ==
  /\ dtxns' = [dtxns EXCEPT ![s] = known \cup {e.id : e \in noti}]
  /\ ir_site_notified_ts' = [ir_site_notified_ts EXCEPT ![s][from] =
                               IF Less(@, delivered) THEN delivered ELSE @]
  /\ ir_site_max_ts' = [ir_site_max_ts EXCEPT ![s][from] = IF Less(@, ts) THEN ts ELSE @]
  /\ clock_offset' = [clock_offset EXCEPT ![s] =
       IF Heard(s, from, ts) THEN AdjustedOffset(s, now, @, last_clock[s], ts) ELSE @]
  /\ ir_site_wait_ts' = [ir_site_wait_ts EXCEPT ![s] =
       IF Heard(s, from, ts) THEN @ \ Passed(s, from, ts) ELSE @]

-----
(* Intra-region transactions. *)

(* HandleIRT: a client submits t to s.  A timestamp that is in the ready queue already
   is skipped if a decided CRT holds it; skips counts them. *)
After(ts, k) == ChrTsOf(ts.time, ts.stretch + k, ts.site)

HandleIRT(s, t, now, skips) ==
  LET first == Generate(s, now, dist_txn_tss[s])
      ts    == After(first, skips)
      mine  == my_txns[s] \cup {[ts |-> ts, id |-> t]}
      targets == (UNION {SitesByPartitionId(par) : par \in Touched(t)}) \ {s}
  IN  /\ Up(s) /\ t \notin submitted /\ IsIrt(t) /\ s \in Handlers[t]
      /\ ~HasTs(ready_txns[s], ts)
      /\ \A k \in 0 .. skips - 1 : HasTs(ready_txns[s], After(first, k))
      /\ Verify(s, /\ t \notin dtxns[s]
                   /\ \A e \in ready_txns[s], k \in 0 .. skips - 1 :
                        e.ts = After(first, k) => tx[s][e.id].phase = DIST_CAN_EXE)
      /\ submitted' = submitted \cup {t}
      /\ last_clock' = [last_clock EXCEPT ![s] = ts]
      /\ dtxns' = [dtxns EXCEPT ![s] = @ \cup {t}]
      /\ my_txns' = [my_txns EXCEPT ![s] = mine]
      /\ ready_txns' = [ready_txns EXCEPT ![s] = PutReady(@, ts, t)]
      /\ tx' = [tx EXCEPT ![s][t] =
           [FreshTx EXCEPT !.phase = LOCAL_NOT_STORED, !.ts = ts, !.region_handler = s,
                           !.role = "irtHandler", !.pieces = PiecesAt(t, ParOf(s))]]
      /\ ir_synced' = [ir_synced EXCEPT ![s] = @ \cup targets]
      /\ req' = Send(req, s, [d \in Nodes |->
           IF d \in targets
           THEN <<[type |-> "PrepareIRT", txn |-> t, ts |-> ts, delivered |-> ZeroTs,
                   noti |-> CollectNotifyTxns(s, d, mine, ir_site_notified_ts[s][d])]>>
           ELSE <<>>])
      /\ UNCHANGED <<clock_offset, dist_txn_tss, max_future_ts, mgr_todo, ir_site_max_ts,
                     ir_site_notified_ts, ir_site_wait_ts, syncs, distributed_txns_by_me,
                     new_input, replied, order, rep>>

(* OnPrepareIRT: s stores its pieces of an IRT that src handles. *)
OnPrepareIRT(src, s, now) ==
  LET m     == Head(req[<<src, s>>])
      t     == m.txn
      known == dtxns[s] \cup {t}
      fresh == Unknown(known, m.noti)
      x1    == [tx[s] EXCEPT ![t] = [@ EXCEPT
                  !.ts = m.ts, !.region_handler = IF SitesForSamePar(s, src) THEN src ELSE s,
                  !.phase = LOCAL_CAN_EXE, !.role = "irtReplica",
                  !.pieces = PiecesAt(t, ParOf(s)), !.done = {}, !.have = {}]]
      x2    == PiggyTx(x1, src, fresh)
      R     == PiggyReady(PutReady(ready_txns[s], m.ts, t), fresh)
  IN  /\ Receives(src, s, "PrepareIRT")
      /\ Verify(s, \A e \in ready_txns[s] : e.ts = m.ts => e.id = t)
      /\ HandlePiggyInfo(s, src, m.ts, m.noti, m.delivered, known, now)
      /\ \E run \in SUBSET Runnable(R, x2) :
           /\ CheckExecutableTxns(s, run, R, x2, new_input[s],
                                  PiggyFloors(s, src, m.ts), ir_site_max_ts'[s])
           /\ req' = Send(Taken(req, <<src, s>>), s, OutputMsgs(s, run, R))
           /\ LET ts == GenerateChrTs(s, now, clock_offset'[s], last_clock[s], dist_txn_tss'[s])
              IN  /\ last_clock' = [last_clock EXCEPT ![s] = ts]
                  /\ rep' = Send(rep, s, Then(DistExeReplies(s, run, R, x2), ToAll({src},
                       [type |-> "PrepareIRTRes", txn |-> t, ts |-> ts, delivered |-> m.ts,
                        noti |-> CollectNotifyTxns(s, src, my_txns[s],
                                                   ir_site_notified_ts'[s][src])])))
      /\ ir_synced' = [ir_synced EXCEPT ![s] = @ \cup {src}]
      /\ UNCHANGED <<max_future_ts, mgr_todo, syncs, my_txns, submitted>>

(* PrepareIRTACK: the reply of OnPrepareIRT is back at the handler s. *)
StoredEverywhere(t, y) ==
  \A par \in Touched(t) : Cardinality(AcksOf(y, par)) >= (NReplicas - 1) \div 2

PrepareIRTACK(src, s, now) ==
  LET m     == Head(rep[<<src, s>>])
      t     == m.txn
      fresh == Unknown(dtxns[s], m.noti)
      x1    == PiggyTx(tx[s], src, fresh)
      R     == PiggyReady(ready_txns[s], fresh)
      x2    == IF x1[t].phase = LOCAL_CAN_EXE THEN x1
               ELSE [x1 EXCEPT ![t] = [x1[t] EXCEPT !.acks = @ \cup {src}]]
      commits == x1[t].phase # LOCAL_CAN_EXE /\ StoredEverywhere(t, x2[t])
      x3    == [x2 EXCEPT ![t] = [@ EXCEPT !.phase = LOCAL_CAN_EXE]]
      floors == PiggyFloors(s, src, m.ts)
  IN  /\ Up(s) /\ rep[<<src, s>>] # <<>> /\ m.type = "PrepareIRTRes"
      /\ Verify(s, t \in dtxns[s])
      /\ HandlePiggyInfo(s, src, m.ts, m.noti, m.delivered, dtxns[s], now)
      /\ \/ /\ ~commits
            /\ NoExecution(s, R, x2, new_input[s], floors)
            /\ rep' = Taken(rep, <<src, s>>)
            /\ UNCHANGED req
         \/ /\ commits
            /\ \E run \in SUBSET Runnable(R, x3) :
                 /\ CheckExecutableTxns(s, run, R, x3, new_input[s], floors, ir_site_max_ts'[s])
                 /\ req' = Send(req, s, OutputMsgs(s, run, R))
                 /\ rep' = Send(Taken(rep, <<src, s>>), s, DistExeReplies(s, run, R, x3))
      /\ UNCHANGED <<last_clock, max_future_ts, mgr_todo, ir_synced, syncs, my_txns, submitted>>

-----
(* Intra-region clock synchronisation. *)

(* One round of IRSyncLoop, at a site or at the scheduler inside a manager (whose
   ir_synced flags are never set).  GenerateChrTs is called once per target, in the
   order of the site ids. *)
IRSyncLoop(n, now) ==
  LET region  == IF n \in Sites THEN SiteRegion(n) ELSE MgrRegion(n)
      targets == IF n \in Sites THEN Peers(n) \ ir_synced[n]
                                ELSE SitesInRegion(region) \ {MgrHost(n)}
      first   == Generate(n, now, dist_txn_tss[n])
      tsOf(d) == ChrTsOf(first.time,
                         first.stretch + Cardinality({c \in targets : c < d}), first.site)
  IN  /\ n \in Sites => Up(n)
      /\ syncs[n] < MaxSync[n]
      /\ syncs' = [syncs EXCEPT ![n] = @ + 1]
      /\ last_clock' = [last_clock EXCEPT ![n] =
           IF targets = {} THEN @
           ELSE ChrTsOf(first.time, first.stretch + Cardinality(targets) - 1, first.site)]
      /\ ir_synced' = IF n \in Sites THEN [ir_synced EXCEPT ![n] = {}] ELSE ir_synced
      /\ req' = Send(req, n, [d \in Nodes |->
           IF d \in targets
           THEN <<[type |-> "IRSync", from |-> n, ts |-> tsOf(d),
                   delivered |-> IF n \in Sites THEN ir_site_max_ts[n][d] ELSE ZeroTs,
                   noti |-> IF n \in Sites THEN CollectNotifyTxns(n, d, my_txns[n], ir_site_notified_ts[n][d])
                                       ELSE {}]>>
           ELSE <<>>])
      /\ UNCHANGED <<clock_offset, dist_txn_tss, max_future_ts, mgr_todo, ir_site_max_ts,
                     ir_site_notified_ts, ir_site_wait_ts, tableVars, execVars, rep,
                     submitted, aborted>>

OnIRSync(src, s, now) ==
  LET m     == Head(req[<<src, s>>])
      fresh == Unknown(dtxns[s], m.noti)
      x     == PiggyTx(tx[s], m.from, fresh)
      R     == PiggyReady(ready_txns[s], fresh)
  IN  /\ Receives(src, s, "IRSync")
      /\ HandlePiggyInfo(s, m.from, m.ts, m.noti, m.delivered, dtxns[s], now)
      /\ \E run \in SUBSET Runnable(R, x) :
           /\ CheckExecutableTxns(s, run, R, x, new_input[s],
                                  PiggyFloors(s, m.from, m.ts), ir_site_max_ts'[s])
           /\ req' = Send(Taken(req, <<src, s>>), s, OutputMsgs(s, run, R))
           /\ rep' = Send(rep, s, DistExeReplies(s, run, R, x))
      /\ UNCHANGED <<last_clock, max_future_ts, mgr_todo, ir_synced, syncs, my_txns, submitted, aborted>>

-----
(* Cross-region transactions. *)

(* A piece of a type that waits for input, in any partition. *)
WaitsForInput(t) ==
  \E p \in PiecesOf(t) : Piece[p].type \in WaitTypes /\ Piece[p].needs # {}

(* The pieces the coordinator keeps for itself.  The code looks them up under region
   partition_id_ / (n_replicas * n_shard_per_region_). *)
CoordPieces(t, par) ==
  IF RegionOf(par) = par \div (NReplicas * NShards) THEN PiecesAt(t, par) ELSE {}

(* OnSubmitCRT: a client submits t to s, which becomes its coordinator. *)
OnSubmitCRT(s, t, now) ==
  LET ts == Generate(s, now, dist_txn_tss[s])
  IN  /\ Up(s) /\ t \notin submitted /\ ~IsIrt(t) /\ s \in Handlers[t]
      /\ Verify(s, t \notin distributed_txns_by_me[s])
      /\ submitted' = submitted \cup {t}
      /\ last_clock' = [last_clock EXCEPT ![s] = ts]
      /\ dtxns' = [dtxns EXCEPT ![s] = @ \cup {t}]
      /\ distributed_txns_by_me' = [distributed_txns_by_me EXCEPT ![s] = @ \cup {t}]
      /\ tx' = [tx EXCEPT ![s][t] =
           [FreshTx EXCEPT !.phase = DIST_REMOTE_SENT, !.region_handler = s, !.role = "crtCoord",
                           !.pieces = CoordPieces(t, ParOf(s)),
                           !.input_ready = IF WaitsForInput(t) THEN 0 ELSE 1,
                           !.status = [par \in Pars |-> IF par \in Touched(t) THEN P_REMOTE_SENT
                                                                           ELSE P_NOT_RECEIVED]]]
      /\ req' = Send(req, s, ToAll({MgrOf(r) : r \in TouchedRegions(t)},
           [type |-> "PrepareRemote", txn |-> t, ts |-> ts, wait |-> WaitsForInput(t)]))
      /\ UNCHANGED <<clock_offset, dist_txn_tss, max_future_ts, mgr_todo, syncVars, my_txns, ready_txns,
                     new_input, replied, order, rep>>

(* The timestamps that the handler at work, if any, will take out of and put into
   dist_txn_tss_ of manager mgr.  One thread serves a manager. *)
Todo(erase, insert) == [erase |-> erase, insert |-> insert]
Idle == Todo({}, {})

(* DastManager::PrepareCRT: the manager anticipates a timestamp and picks the replica of
   every touched partition that answers the coordinator. *)
MgrPrepareCRT(src, mgr, now) ==
  LET m     == Head(req[<<src, mgr>>])
      coord == m.ts.site
      pars  == {par \in Touched(m.txn) : RegionOf(par) = MgrRegion(mgr)}
      touched == UNION {SitesByPartitionId(par) : par \in pars}
      mine  == Generate(mgr, now, dist_txn_tss[mgr])
      ant   == AnticipatedTs(mgr, m.ts, mine, max_future_ts[mgr], EstimatedRtt)
  IN  /\ Receives(src, mgr, "PrepareRemote") /\ mgr_todo[mgr] = Idle
      /\ \E leader \in [pars -> touched] :
           /\ \A par \in pars :
                IF ParOf(coord) = par THEN leader[par] = coord ELSE ParOf(leader[par]) = par
           /\ req' = Send(Taken(req, <<src, mgr>>), mgr, [d \in Nodes |->
                IF d \in touched
                THEN <<[type |-> "PrepareCRT", txn |-> m.txn, ts |-> ant, coord |-> coord,
                        leader |-> leader[ParOf(d)],
                        input_ready |-> IF m.wait /\ ParOf(d) = ParOf(coord) THEN 0 ELSE 1]>>
                ELSE IF d \in SitesInRegion(MgrRegion(mgr))
                THEN <<[type |-> "NotiCRT", txn |-> m.txn, ts |-> ant, touched |-> touched]>>
                ELSE <<>>])
      /\ last_clock' = [last_clock EXCEPT ![mgr] = mine]
      /\ max_future_ts' = [max_future_ts EXCEPT ![mgr] = ant]
      /\ mgr_todo' = [mgr_todo EXCEPT ![mgr] = Todo({}, {ant})]
      /\ UNCHANGED <<clock_offset, dist_txn_tss, syncVars, tableVars, execVars, rep, submitted, aborted>>

(* OnNotiCRT: s has no piece of the transaction but must not pass it. *)
OnNotiCRT(src, s) ==
  LET m == Head(req[<<src, s>>])
  IN  /\ Receives(src, s, "NotiCRT")
      /\ Verify(s, m.txn \notin dtxns[s])
      /\ dist_txn_tss' = [dist_txn_tss EXCEPT ![s] = @ \cup {m.ts}]
      /\ ir_site_wait_ts' = [ir_site_wait_ts EXCEPT ![s] =
                               @ \cup {[ts |-> m.ts, site |-> x] : x \in m.touched}]
      /\ req' = Taken(req, <<src, s>>)
      /\ UNCHANGED <<last_clock, clock_offset, max_future_ts, mgr_todo, ir_site_max_ts,
                     ir_site_notified_ts, ir_synced, syncs, tableVars, execVars, rep, submitted>>

(* Variants that the runs must reject: a partition is completed again by every further
   acknowledgement; by one too few; by one too many. *)
Prepared_Again(y, par) ==
  Cardinality(AcksOf(y, par)) >= (NReplicas + 1) \div 2 /\ par \in y.mgr_acked
Prepared_Minority(y, par) ==
  /\ y.status[par] = P_REMOTE_SENT
  /\ Cardinality(AcksOf(y, par)) >= NReplicas \div 2
  /\ par \in y.mgr_acked
Prepared_Over(y, par) ==
  /\ y.status[par] = P_REMOTE_SENT
  /\ Cardinality(AcksOf(y, par)) > (NReplicas + 1) \div 2
  /\ par \in y.mgr_acked

(* Enough replicas of par, its leader among them, have acknowledged. *)
Prepared(y, par) ==
  /\ y.status[par] = P_REMOTE_SENT
  /\ Cardinality(AcksOf(y, par)) >= (NReplicas + 1) \div 2
  /\ par \in y.mgr_acked
WithPrepared(y, par) ==
  IF Prepared(y, par) THEN [y EXCEPT !.status[par] = P_REMOTE_PREPARED] ELSE y
AllPrepared(t, y) == \A par \in Touched(t) : y.status[par] >= P_REMOTE_PREPARED

(* Variant that the runs must reject: the coordinator's own region decides. *)
DecisionTs_Own(t, y) == y.ts

DecisionTs(t, y) == MaxTs({y.anticipated[r] : r \in TouchedRegions(t)})

(* Variant that the runs must reject: the decision, not the anticipation, ends. *)
NotiWaitMsg_New(s, t, y, r) ==
  LET waits == ~AllPiecesInputReady(y) /\ r = SiteRegion(s)
  IN  [type |-> "NotiWait", txn |-> t, orig |-> DecisionTs(t, y), wait |-> waits,
       new |-> IF waits THEN DecisionTs(t, y) ELSE ZeroTs,
       touched |-> IF waits THEN SitesByPartitionId(ParOf(s)) ELSE {}]

(* The NotiWait of a decision for the manager of region r: only the coordinator's own
   region goes on waiting, for the input. *)
NotiWaitMsg(s, t, y, r) ==
  LET waits == ~AllPiecesInputReady(y) /\ r = SiteRegion(s)
  IN  [type |-> "NotiWait", txn |-> t, orig |-> y.anticipated[r], wait |-> waits,
       new |-> IF waits THEN DecisionTs(t, y) ELSE ZeroTs,
       touched |-> IF waits THEN SitesByPartitionId(ParOf(s)) ELSE {}]

(* The coordinator s has put an acknowledgement of par into t's record, now acked.  If
   that completes par, CheckRemotePrepared decides as soon as every partition is
   complete.  q are the requests left. *)
CheckRemotePrepared(s, t, acked, par, floors, q, now) ==
  LET y        == WithPrepared(acked, par)
      decides  == Prepared(acked, par) /\ AllPrepared(t, y)
      decision == DecisionTs(t, y)
      floors1  == (floors \ {y.ts}) \cup (IF AllPiecesInputReady(y) THEN {} ELSE {decision})
      x        == [tx[s] EXCEPT ![t] = [y EXCEPT !.ts = decision, !.phase = DIST_CAN_EXE]]
      R        == PutReady(ready_txns[s], decision, t)
      sites    == (UNION {SitesByPartitionId(p) : p \in Touched(t)}) \ {s}
      out      == [d \in Nodes |->
                     IF d \in sites
                     THEN <<[type |-> "DistExe", txn |-> t, ts |-> decision]>>
                     ELSE IF d \in Managers /\ MgrRegion(d) \in TouchedRegions(t)
                     THEN <<NotiWaitMsg(s, t, y, MgrRegion(d))>>
                     ELSE <<>>]
  IN  \/ /\ ~decides
         /\ NoExecution(s, ready_txns[s], [tx[s] EXCEPT ![t] = y], new_input[s], floors)
         /\ req' = q
         /\ UNCHANGED <<last_clock, rep>>
      \/ /\ decides
         /\ last_clock' = [last_clock EXCEPT ![s] = Generate(s, now, floors1)]
         /\ \E run \in SUBSET Runnable(R, x) :
              /\ CheckExecutableTxns(s, run, R, x, new_input[s], floors1, ir_site_max_ts[s])
              /\ req' = Send(q, s, Then(out, OutputMsgs(s, run, R)))
              /\ rep' = Send(rep, s, DistExeReplies(s, run, R, x))

(* The verify()s of CheckRemotePrepared. *)
MayDecide(s, t, acked, par) ==
  LET y == WithPrepared(acked, par)
  IN  Prepared(acked, par) /\ AllPrepared(t, y) =>
        ~HasTs(ready_txns[s], DecisionTs(t, y)) /\ y.phase = DIST_REMOTE_SENT

(* OnPrepareCRT: the coordinator counts itself, any other replica stores its pieces and
   acknowledges; one that heard DistExe first does neither. *)
OnPrepareCRT(src, s, now) ==
  LET m     == Head(req[<<src, s>>])
      t     == m.txn
      y     == tx[s][t]
      acked == [y EXCEPT !.mgr_acked = @ \cup {ParOf(s)}, !.acks = @ \cup {s}, !.ts = m.ts,
                         !.anticipated[SiteRegion(s)] = m.ts]
      isNew == ~HasTs(ready_txns[s], m.ts) /\ m.ts \notin dist_txn_tss[s]
      q     == Taken(req, <<src, s>>)
  IN  /\ Receives(src, s, "PrepareCRT")
      /\ \/ /\ t \in dtxns[s] /\ y.phase = DIST_REMOTE_SENT
            /\ Verify(s, isNew /\ MayDecide(s, t, acked, ParOf(s)))
            /\ CheckRemotePrepared(s, t, acked, ParOf(s), dist_txn_tss[s] \cup {m.ts}, q, now)
            /\ UNCHANGED dtxns
         \/ /\ t \in dtxns[s] /\ y.phase # DIST_REMOTE_SENT
            /\ Verify(s, isNew)
            /\ tx' = [tx EXCEPT ![s][t] =
                  [y EXCEPT !.input_ready = IF @ = 1 THEN m.input_ready ELSE @]]
            /\ req' = q
            /\ UNCHANGED <<last_clock, dist_txn_tss, dtxns, ready_txns, distributed_txns_by_me,
                           new_input, replied, order, rep>>
         \/ /\ t \notin dtxns[s]
            /\ Verify(s, isNew)
            /\ dtxns' = [dtxns EXCEPT ![s] = @ \cup {t}]
            /\ NoExecution(s, PutReady(ready_txns[s], m.ts, t),
                 [tx[s] EXCEPT ![t] = [FreshTx EXCEPT !.ts = m.ts, !.region_handler = m.leader,
                    !.role = "crtReplica", !.pieces = PiecesAt(t, ParOf(s)),
                    !.input_ready = m.input_ready]],
                 new_input[s], dist_txn_tss[s] \cup {m.ts})
            /\ req' = Send(q, s, ToAll({m.coord},
                 [type |-> "RemotePrepared", txn |-> t, ts |-> m.ts, leads |-> m.leader = s]))
            /\ UNCHANGED <<last_clock, rep>>
      /\ UNCHANGED <<clock_offset, max_future_ts, mgr_todo, syncVars, my_txns, submitted>>

(* OnRemotePrepared: a replica has stored its pieces of s's transaction. *)
OnRemotePrepared(src, s, now) ==
  LET m     == Head(req[<<src, s>>])
      t     == m.txn
      par   == ParOf(src)
      acked == [tx[s][t] EXCEPT !.acks = @ \cup {src}, !.anticipated[RegionOf(par)] = m.ts,
                                !.mgr_acked = IF m.leads THEN @ \cup {par} ELSE @]
  IN  /\ Receives(src, s, "RemotePrepared")
      /\ Verify(s, /\ t \in dtxns[s] /\ tx[s][t].role = "crtCoord" /\ par \in Touched(t)
                   /\ MayDecide(s, t, acked, par))
      /\ CheckRemotePrepared(s, t, acked, par, dist_txn_tss[s], Taken(req, <<src, s>>), now)
      /\ UNCHANGED <<clock_offset, max_future_ts, mgr_todo, syncVars, tableVars, submitted>>

(* OnDistExe: the coordinator src has decided.  A site that has not got PrepareCRT yet
   creates an empty record and never replies. *)
OnDistExe(src, s) ==
  LET m  == Head(req[<<src, s>>])
      t  == m.txn
      y  == tx[s][t]
      R0 == {e \in ready_txns[s] : e.ts # y.ts}
      R  == PutReady(R0, m.ts, t)
      x  == [tx[s] EXCEPT ![t] = [y EXCEPT !.phase = DIST_CAN_EXE, !.ts = m.ts,
                                           !.owes = IF y.region_handler = s THEN src ELSE @]]
      floors == (dist_txn_tss[s] \ {y.ts}) \cup (IF AllPiecesInputReady(y) THEN {} ELSE {m.ts})
      q  == Taken(req, <<src, s>>)
  IN  /\ Receives(src, s, "DistExe")
      /\ Verify(s, t \in dtxns[s] => ~HasTs(R0, m.ts))
      /\ \/ /\ t \in dtxns[s]
            /\ \E run \in SUBSET Runnable(R, x) :
                 /\ CheckExecutableTxns(s, run, R, x, new_input[s], floors, ir_site_max_ts[s])
                 /\ req' = Send(q, s, OutputMsgs(s, run, R))
                 /\ rep' = Send(rep, s, DistExeReplies(s, run, R, x))
            /\ UNCHANGED dtxns
         \/ /\ t \notin dtxns[s]
            /\ dtxns' = [dtxns EXCEPT ![s] = @ \cup {t}]
            /\ req' = q
            /\ UNCHANGED <<dist_txn_tss, execVars, rep>>
      /\ UNCHANGED <<last_clock, clock_offset, max_future_ts, mgr_todo, syncVars, my_txns, submitted>>

(* DistExeAck: the outputs of the partition of src are back. *)
DistExeAck(src, s) ==
  LET m == Head(rep[<<src, s>>])
      y == [tx[s][m.txn] EXCEPT !.status[ParOf(src)] = P_OUTPUT_RECEIVED]
      z == IF y.phase = OUTPUT_SENT THEN y ELSE CheckSendOutputToClient(m.txn, y)
  IN  /\ Up(s) /\ rep[<<src, s>>] # <<>> /\ m.type = "DistExeRes"
      /\ Verify(s, tx[s][m.txn].status[ParOf(src)] # P_OUTPUT_RECEIVED)
      /\ tx' = [tx EXCEPT ![s][m.txn] = z]
      /\ replied' = IF z.phase = OUTPUT_SENT THEN replied \cup {m.txn} ELSE replied
      /\ rep' = Taken(rep, <<src, s>>)
      /\ UNCHANGED <<clockVars, syncVars, tableVars, ready_txns, distributed_txns_by_me,
                     new_input, order, req, submitted>>

(* DastManager::NotiWait: the region may pass the old timestamp, and has to wait for the
   new one if input is missing. *)
NotiWait(src, mgr) ==
  LET m == Head(req[<<src, mgr>>])
  IN  /\ Receives(src, mgr, "NotiWait") /\ mgr_todo[mgr] = Idle
      /\ req' = Send(Taken(req, <<src, mgr>>), mgr,
           ToAll(SitesInRegion(MgrRegion(mgr)) \ m.touched, [m EXCEPT !.type = "NotiCommit"]))
      /\ mgr_todo' = [mgr_todo EXCEPT ![mgr] = Todo({m.orig}, IF m.wait THEN {m.new} ELSE {})]
      /\ UNCHANGED <<last_clock, clock_offset, dist_txn_tss, max_future_ts, syncVars, tableVars, execVars,
                     rep, submitted, aborted>>

(* The last statements of a manager's handler, under mtx_. *)
MgrFinish(mgr) ==
  /\ mgr_todo[mgr] # Idle
  /\ dist_txn_tss' = [dist_txn_tss EXCEPT ![mgr] =
                        (@ \ mgr_todo[mgr].erase) \cup mgr_todo[mgr].insert]
  /\ mgr_todo' = [mgr_todo EXCEPT ![mgr] = Idle]
  /\ UNCHANGED <<last_clock, clock_offset, max_future_ts, syncVars, tableVars, execVars,
                 req, rep, submitted, aborted>>

OnNotiCommit(src, s) ==
  LET m == Head(req[<<src, s>>])
  IN  /\ Receives(src, s, "NotiCommit")
      /\ dist_txn_tss' = [dist_txn_tss EXCEPT ![s] =
           (@ \ {m.orig}) \cup (IF m.wait THEN {m.new} ELSE {})]
      /\ ir_site_wait_ts' = [ir_site_wait_ts EXCEPT ![s] =
           {w \in @ : w.ts # m.orig}
             \cup (IF m.wait THEN {[ts |-> m.new, site |-> x] : x \in m.touched} ELSE {})]
      /\ req' = Taken(req, <<src, s>>)
      /\ UNCHANGED <<last_clock, clock_offset, max_future_ts, mgr_todo, ir_site_max_ts,
                     ir_site_notified_ts, ir_synced, syncs, tableVars, execVars, rep,
                     submitted, aborted>>

(* OnSendOutput: variables from another partition.  is_irt_ of a record that nobody
   filled in is an uninitialised read. *)
OnSendOutput(src, s) ==
  LET m   == Head(req[<<src, s>>])
      t   == m.txn
      x1  == [tx[s] EXCEPT ![t] = [@ EXCEPT !.input_ready = 2]]
      x2  == [x1 EXCEPT ![t] = Merge(x1[t], m.vars)]
      R   == ready_txns[s]
      q   == Taken(req, <<src, s>>)
      irts == {b \in BOOLEAN : tx[s][t].role # "unset" =>
                               (b <=> tx[s][t].role \in {"irtHandler", "irtReplica"})}
  IN  /\ Receives(src, s, "SendOutput")
      /\ \/ /\ t \notin dtxns[s]
            /\ req' = q
            /\ UNCHANGED <<dist_txn_tss, execVars, rep>>
         \/ /\ t \in dtxns[s]
            /\ \E irt \in irts :
                 LET floors == IF irt THEN dist_txn_tss[s] ELSE dist_txn_tss[s] \ {tx[s][t].ts}
                     out == IF irt THEN NoMsgs ELSE ToAll({MgrOf(SiteRegion(s))},
                              [type |-> "NotiWait", txn |-> t, orig |-> tx[s][t].ts,
                               wait |-> FALSE, new |-> ZeroTs, touched |-> {}])
                 IN  IF MoreToRun(x1[t], m.vars) /\ x1[t].phase >= LOCAL_CAN_EXE
                     THEN \E run \in SUBSET Runnable(R, x2) :
                            /\ CheckExecutableTxns(s, run, R, x2, TRUE, floors, ir_site_max_ts[s])
                            /\ req' = Send(q, s, Then(out, OutputMsgs(s, run, R)))
                            /\ rep' = Send(rep, s, DistExeReplies(s, run, R, x2))
                     ELSE /\ NoExecution(s, R, x2, TRUE, floors)
                          /\ req' = Send(q, s, out)
                          /\ UNCHANGED rep
      /\ UNCHANGED <<last_clock, clock_offset, max_future_ts, mgr_todo, syncVars, tableVars, submitted,
                     aborted>>

-----
WarmTs(s) == IF Warm THEN ChrTsOf(1, 1, s) ELSE ZeroTs

Init ==
  /\ last_clock = [n \in Nodes |-> IF n \in Sites THEN WarmTs(n) ELSE ZeroTs]
  /\ clock_offset \in [Nodes -> InitOffsets]
  /\ dist_txn_tss = [n \in Nodes |-> {}]
  /\ max_future_ts = [m \in Managers |-> ZeroTs]
  /\ mgr_todo = [m \in Managers |-> Idle]
  /\ ir_site_max_ts = [s \in Sites |-> [n \in Nodes |-> IF n \in Peers(s) THEN WarmTs(n) ELSE ZeroTs]]
  /\ ir_site_notified_ts = [s \in Sites |-> [n \in Nodes |-> ZeroTs]]
  /\ ir_synced = [s \in Sites |-> {}]
  /\ ir_site_wait_ts = [s \in Sites |-> {}]
  /\ syncs = [n \in Nodes |-> 0]
  /\ my_txns = [s \in Sites |-> {}] /\ ready_txns = [s \in Sites |-> {}]
  /\ dtxns = [s \in Sites |-> {}]
  /\ tx = [s \in Sites |-> [t \in Txns |-> FreshTx]]
  /\ distributed_txns_by_me = [s \in Sites |-> {}]
  /\ new_input = [s \in Sites |-> FALSE]
  /\ req = [c \in Sites \X Nodes |-> <<>>] /\ rep = [c \in Sites \X Sites |-> <<>>]
  /\ submitted = {} /\ replied = {} /\ aborted = {}
  /\ order = [s \in Sites |-> {}]

Submit ==
  \E s \in Sites, t \in Txns, now \in PhysTimes :
    \/ \E skips \in 0 .. Cardinality(Txns) : HandleIRT(s, t, now, skips)
    \/ OnSubmitCRT(s, t, now)

Sync == \E n \in Nodes, now \in PhysTimes : IRSyncLoop(n, now)

Deliver ==
  \/ \E src \in Sites, s \in Sites, now \in PhysTimes :
       \/ OnPrepareIRT(src, s, now) \/ PrepareIRTACK(src, s, now) \/ OnIRSync(src, s, now)
       \/ OnPrepareCRT(src, s, now) \/ OnRemotePrepared(src, s, now)
  \/ \E src \in Sites, s \in Sites :
       \/ OnNotiCRT(src, s) \/ OnDistExe(src, s) \/ DistExeAck(src, s)
       \/ OnNotiCommit(src, s) \/ OnSendOutput(src, s)
  \/ \E src \in Sites, m \in Managers :
       NotiWait(src, m) \/ \E now \in PhysTimes : MgrPrepareCRT(src, m, now)
  \/ \E m \in Managers : MgrFinish(m)

Next == Submit \/ Sync \/ Deliver

Spec == Init /\ [][Next]_vars

(* Connections deliver and the threads that serve them run. *)
FairSpec == Spec /\ WF_vars(Deliver)

-----
(* The type invariant: the fields of every site, manager, transaction record and
   message.  What holds a clock back, in dist_txn_tss_, on its way there or in a record,
   is an anticipated timestamp. *)
TypeOK ==
  /\ last_clock \in [Nodes -> ChrTsType] /\ clock_offset \in [Nodes -> Int]
  /\ dist_txn_tss \in [Nodes -> Floors]
  /\ max_future_ts \in [Managers -> AnticipatedType]
  /\ mgr_todo \in [Managers -> [erase : SUBSET ChrTsType, insert : Floors]]
  /\ ir_site_max_ts \in [Sites -> [Nodes -> ChrTsType]]
  /\ ir_site_notified_ts \in [Sites -> [Nodes -> ChrTsType]]
  /\ ir_synced \in [Sites -> SUBSET Sites]
  /\ ir_site_wait_ts \in [Sites -> SUBSET [ts : ChrTsType, site : Sites]]
  /\ syncs \in [Nodes -> Nat]
  /\ my_txns \in [Sites -> Entries] /\ ready_txns \in [Sites -> Entries]
  /\ dtxns \in [Sites -> SUBSET Txns]
  /\ tx \in [Sites -> [Txns -> TxType]]
  /\ distributed_txns_by_me \in [Sites -> SUBSET Txns]
  /\ new_input \in [Sites -> BOOLEAN]
  /\ req \in [Sites \X Nodes -> Seq(ReqMsg)] /\ rep \in [Sites \X Sites -> Seq(RepMsg)]
  /\ submitted \in SUBSET Txns /\ replied \in SUBSET Txns /\ aborted \in SUBSET Sites
  /\ order \in [Sites -> SUBSET (PieceIds \X PieceIds)]

(* No verify() in a handler fires, in whatever order messages arrive. *)
NoVerifyFails == aborted = {}

(* The promise of HandlePiggyInfo: once s has heard timestamp T from its peer r, it
   knows every transaction of r that touches its partition and is not later than T,
   although requests and replies may overtake each other.  It is what waiting for
   ir_site_max_ts is good for. *)
Awareness ==
  \A s \in Sites : \A r \in Peers(s) : \A e \in my_txns[r] :
    ParOf(s) \in Touched(e.id) /\ LessEq(e.ts, ir_site_max_ts[s][r]) => e.id \in dtxns[s]

(* The stretch: a node whose clock lies before a cross-region transaction that is not
   ready does not pass it while it stays not ready. *)
ClockStaysBelowFloors ==
  [][\A n \in Nodes : \A f \in dist_txn_tss[n] \cap dist_txn_tss'[n] :
       last_clock[n].time < f.time => last_clock'[n].time < f.time]_vars

(* No two transactions are ever at the same place of a ready queue: every transaction
   known anywhere has a timestamp of its own. *)
TimestampsUnique ==
  \A s, r \in Sites : \A d \in ready_txns[s] \cup my_txns[s], e \in ready_txns[r] \cup my_txns[r] :
    d.ts = e.ts => d.id = e.id

(* The client hears of a cross-region transaction only after every partition it touches
   has executed all its pieces at some replica, and of an intra-region one after the
   handler's partition has. *)
ExecutedAt(s, t) == PiecesAt(t, ParOf(s)) \subseteq tx[s][t].done

ReplyAfterExecution ==
  \A t \in replied :
    IF IsIrt(t)
    THEN \E s \in Sites : tx[s][t].role = "irtHandler" /\ ExecutedAt(s, t)
    ELSE \A par \in Touched(t) : \E s \in SitesByPartitionId(par) : ExecutedAt(s, t)

(* What the client has heard of is stored at a majority of the replicas of every
   partition it touches. *)
StoredAt(s, t) == tx[s][t].pieces = PiecesAt(t, ParOf(s))

RepliedIsReplicated ==
  \A t \in replied : \A par \in Touched(t) :
    2 * Cardinality({s \in SitesByPartitionId(par) : StoredAt(s, t)}) > NReplicas

(* All sites that have a decision for a cross-region transaction agree on its timestamp,
   and it is not before what any region anticipated. *)
DecisionAgreement ==
  \A t \in Txns : \A s, r \in Sites :
    /\ tx[s][t].phase >= DIST_CAN_EXE /\ tx[r][t].phase >= DIST_CAN_EXE
         => tx[s][t].ts = tx[r][t].ts
    /\ tx[s][t].phase >= DIST_CAN_EXE /\ tx[r][t].role = "crtReplica"
         => LessEq(tx[r][t].ts, tx[s][t].ts)

(* When everything has been delivered and answered, no timestamp still holds a clock
   back. *)
Quiet == /\ \A c \in DOMAIN req : req[c] = <<>> \/ c[2] \in Stalled
         /\ \A c \in DOMAIN rep : rep[c] = <<>> \/ c[2] \in Stalled
         /\ \A m \in Managers : mgr_todo[m] = Idle
FloorsReleased ==
  Quiet /\ replied = submitted => \A n \in Nodes \ Stalled : dist_txn_tss[n] = {}

(* Replicas of a partition run conflicting pieces of different transactions in the same
   order. *)
Conflict(p, q) == \/ <<Piece[p].type, Piece[q].type>> \in Conflicts
                  \/ <<Piece[q].type, Piece[p].type>> \in Conflicts
ReplicasAgree ==
  \A s, r \in Sites : \A w \in order[s] :
    ParOf(s) = ParOf(r) /\ Conflict(w[1], w[2]) => <<w[2], w[1]>> \notin order[r]

(* Once everything is delivered and the client has its answer, every replica of the
   partitions that a transaction touches has executed it. *)
AllReplicasExecute ==
  Quiet => \A t \in replied : \A s \in Sites \ Stalled :
             ExecutedAt(s, t)

(* Every transaction that a client submits is answered. *)
EveryTxnAnswered == \A t \in Txns : t \in submitted ~> t \in replied
=====
