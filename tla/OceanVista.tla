----- MODULE OceanVista -----
(* The Ocean Vista baseline, deptran/ocean_vista.  A coordinator takes a timestamp from
   a site near it, dispatches the pieces, stores them at every replica, gives the
   timestamp back and asks every replica to execute.  A replica waits until its
   visibility watermark has passed the timestamp; the gossipers, one per data centre,
   keep the watermark the minimum of the timestamps that are still being stored
   anywhere. *)
EXTENDS Messages, Naturals, FiniteSets, SequencesExt

CONSTANTS
  OvSites,    \* siteid_t, naturals
  OvDcs,      \* data centres
  OvDcOf,     \* site -> data centre
  OvLayouts,  \* deployments [par: site -> partition, txns, aggregates, gossips];
                   \* the last two bound the rounds of the loops of a gossiper
  OvTxns,     \* transactions, naturals; a coordinator runs one
  OvPieceOf,  \* piece -> [txn, par, needs]; needs are pieces
  OvNear,     \* transaction -> sites of the coordinator's data centre
  OvNow,      \* readings of the system clock with drift, bound
  OvFresh,    \* values of last_clock_, which no constructor sets
  OvFlags     \* values of the flags of OVGossiper, which none sets

VARIABLES
  ov_lay,    \* the deployment of the run, never changed
  ov_coord,  \* CoordinatorOV of every transaction
  ov_site,   \* SchedulerOV and its TidMgr
  ov_goss,   \* OVGossiper of every data centre
  ov_ran,    \* history: the transactions every site executed
  ov_net, ov_aborted

ovVars == <<ov_lay, ov_coord, ov_site, ov_goss, ov_ran, ov_net, ov_aborted>>

ASSUME OvAssumption ==
  /\ OvSites \subseteq Nat /\ OvDcOf \in [OvSites -> OvDcs]
  /\ OvTxns \subseteq Nat /\ IsFiniteSet(OvTxns)
  /\ OvNow \subseteq Nat /\ OvFresh \subseteq Nat /\ OvFlags \subseteq BOOLEAN
  /\ \A t \in OvTxns : OvNear[t] # {} /\ OvNear[t] \subseteq OvSites

(* Every partition that a transaction of the run touches has a replica. *)
ASSUME OvPlacement ==
  \A l \in OvLayouts : \A p \in DOMAIN OvPieceOf :
    OvPieceOf[p].txn \in l.txns => \E s \in OvSites : l.par[s] = OvPieceOf[p].par

(* ov_ts_t: a clock reading and the site that took it. *)
OvZero == <<0, 0>>
OvLess(a, b) == a[1] < b[1] \/ (a[1] = b[1] /\ a[2] < b[2])
OvLeast(S) == CHOOSE a \in S : \A b \in S : ~OvLess(b, a)
OvRaise(a, b) == IF OvLess(a, b) THEN b ELSE a

OvSite(s)  == <<"site", s>>
OvCoord(t) == <<"coord", t>>
OvGoss(d)  == <<"gossiper", d>>

OvDcSites(d) == {s \in OvSites : OvDcOf[s] = d}
OvReplicas(par) == {s \in OvSites : ov_lay.par[s] = par}
(* The first site of a data centre runs its gossiper. *)
OvGossiperSite(d) == CHOOSE s \in OvDcSites(d) : \A u \in OvDcSites(d) : s <= u

OvPieces(t) == {p \in DOMAIN OvPieceOf : OvPieceOf[p].txn = t}
OvPars(t) == {OvPieceOf[p].par : p \in OvPieces(t)}
OvPiecesAt(t, par) == {p \in OvPieces(t) : OvPieceOf[p].par = par}

OvNodes == {OvSite(s) : s \in OvSites} \cup {OvCoord(t) : t \in OvTxns} \cup {OvGoss(d) : d \in OvDcs}
OvConns ==
  {c \in OvNodes \X OvNodes :
     c[1] # c[2] /\ {c[1][1], c[2][1]} \in {{"coord", "site"}, {"gossiper", "site"}, {"gossiper"}}}

OvVerify(n, cond) == IF cond THEN ov_aborted ELSE ov_aborted \cup {n}
OvTaken(c) == Taken(ov_net, c)

OvReply(c, m) == Calls(OvTaken(c), c[2], {To({c[1]}, m)})

-----
(* TidMgr. *)

(* Variant that the runs must reject: two readings of one millisecond give one
   timestamp. *)
OvMonotTimestamp_SameClock(last, now) == IF now < last THEN last ELSE now

(* GetMonotTimestamp: the new last_clock_. *)
OvMonotTimestamp(last, now) == IF now <= last THEN last + 1 ELSE now

(* GetServerVWatermark: the timestamps of s_phase_txns_, or a new one. *)
OvServerVWatermark_Fresh(x, s, now) ==
  [ts |-> <<OvMonotTimestamp(x.last, now), s>>, last |-> OvMonotTimestamp(x.last, now)]
OvServerVWatermark(x, s, now) ==
  IF x.sphase = {} THEN [ts |-> <<OvMonotTimestamp(x.last, now), s>>,
                         last |-> OvMonotTimestamp(x.last, now)]
  ELSE [ts |-> OvLeast({e.ts : e \in x.sphase}), last |-> x.last]

-----
(* TxOV, and SchedulerOV with the timestamps it has given out. *)

OvNoTx == [status |-> "INIT", ts |-> OvZero, has |-> {}, dispatched |-> FALSE, asked |-> FALSE]
OvFreshSite(last) == [last |-> last, sphase |-> {}, vw |-> OvZero, inited |-> FALSE,
                      stored |-> {}, tx |-> [t \in OvTxns |-> OvNoTx]]

(* OnCreateTs. *)
OvOnCreateTs(c) ==
  /\ Receives(ov_net, c, "CreateTs")
  /\ \E now \in OvNow :
       LET s == c[2][2]   t == c[1][2]   clock == OvMonotTimestamp(ov_site[s].last, now)
       IN  /\ ov_site' = [ov_site EXCEPT ![s].last = clock,
                                         ![s].sphase = @ \cup {[ts |-> <<clock, s>>, txn |-> t]}]
           /\ ov_net' = OvReply(c, [type |-> "CreateTsAck", ts |-> <<clock, s>>])
  /\ UNCHANGED <<ov_coord, ov_goss, ov_ran, ov_aborted>>

(* OnStoredRemoveTs, TidMgr::StoredTs. *)
OvOnStoredRemoveTs(c) ==
  /\ Receives(ov_net, c, "StoredRemoveTs")
  /\ LET s == c[2][2]   entry == [ts |-> Head(ov_net[c]).ts, txn |-> c[1][2]]
     IN  /\ ov_site' = [ov_site EXCEPT ![s].sphase = @ \ {entry}]
         /\ ov_aborted' = OvVerify(c[2], entry \in ov_site[s].sphase)
         /\ ov_net' = OvReply(c, [type |-> "StoredRemoveTsAck"])
  /\ UNCHANGED <<ov_coord, ov_goss, ov_ran>>

(* OnDispatch, DispatchExecute: every piece is kept for CommitExecute. *)
OvOnDispatch(c) ==
  /\ Receives(ov_net, c, "Dispatch")
  /\ LET s == c[2][2]   t == c[1][2]   m == Head(ov_net[c])
     IN  /\ ov_site' = [ov_site EXCEPT ![s].tx[t].has = @ \cup m.pieces]
         /\ ov_net' = OvReply(c, [type |-> "DispatchAck", pieces |-> m.pieces])
         /\ ov_aborted' = OvVerify(c[2], \A p \in m.pieces : OvPieceOf[p].par = ov_lay.par[s])
  /\ UNCHANGED <<ov_coord, ov_goss, ov_ran>>

(* OnStore, PreAcceptExecute.  The first one starts the loops of the gossiper, when the
   site has it. *)
OvStarted(goss, s) ==
  IF OvGossiperSite(OvDcOf[s]) # s \/ ov_site[s].inited THEN goss
  ELSE [goss EXCEPT ![OvDcOf[s]].agg = "ready", ![OvDcOf[s]].gos = "ready"]

OvOnStore(c) ==
  /\ Receives(ov_net, c, "Store")
  /\ LET s == c[2][2]   t == c[1][2]   m == Head(ov_net[c])   x == ov_site[s].tx[t]
     IN  /\ ov_site' = [ov_site EXCEPT ![s].inited = TRUE, ![s].stored = @ \cup {t},
                                       ![s].tx[t] = [x EXCEPT !.status = "STORED", !.ts = m.ts,
                                                              !.has = @ \cup m.pieces, !.dispatched = TRUE]]
         /\ ov_goss' = OvStarted(ov_goss, s)
         /\ ov_aborted' = OvVerify(c[2], ~x.dispatched)
         /\ ov_net' = OvReply(c, [type |-> "StoreAck", par |-> ov_lay.par[s]])
  /\ UNCHANGED <<ov_coord, ov_ran>>

(* OnExecute: now, when the watermark has reached the timestamp, or when OnPublish
   raises it. *)
OvOnExecute(c) ==
  /\ Receives(ov_net, c, "Execute")
  /\ LET s == c[2][2]   t == c[1][2]   x == ov_site[s].tx[t]
     IN  /\ ov_aborted' = OvVerify(c[2], ~x.asked /\ ~Contains(ov_ran[s], t))
         /\ IF OvLess(ov_site[s].vw, x.ts)
            THEN /\ ov_site' = [ov_site EXCEPT ![s].tx[t].status = "CAN_EXECUTE", ![s].tx[t].asked = TRUE]
                 /\ ov_net' = OvTaken(c) /\ ov_ran' = ov_ran
            ELSE /\ ov_site' = [ov_site EXCEPT ![s].tx[t].status = "EXECUTED", ![s].tx[t].asked = TRUE,
                                               ![s].stored = @ \ {t}]
                 /\ ov_ran' = [ov_ran EXCEPT ![s] = Append(@, t)]
                 /\ ov_net' = OvReply(c, [type |-> "ExecuteAck"])
  /\ UNCHANGED <<ov_coord, ov_goss>>

(* What OnPublish executes: stored_txns_by_id_ is a map ordered by id. *)
OvReleased(x, vw) ==
  LET S == {t \in x.stored : OvLess(x.tx[t].ts, vw) /\ x.tx[t].status = "CAN_EXECUTE"}
  IN  CHOOSE q \in [1 .. Cardinality(S) -> S] : \A i, j \in DOMAIN q : i < j => q[i] < q[j]

(* OnPublish. *)
OvOnPublish(c) ==
  /\ Receives(ov_net, c, "Publish")
  /\ \E now \in OvNow :
       LET s == c[2][2]   m == Head(ov_net[c])   x == ov_site[s]
           raised == OvLess(x.vw, m.ts)
           run == IF raised THEN OvReleased(x, m.ts) ELSE <<>>
           wm == OvServerVWatermark(x, s, now)
       IN  /\ ov_site' = [ov_site EXCEPT ![s].vw = OvRaise(x.vw, m.ts), ![s].last = wm.last,
                                         ![s].stored = @ \ Range(run)]
           /\ ov_ran' = [ov_ran EXCEPT ![s] = @ \o run]
           /\ ov_aborted' = OvVerify(c[2], \A t \in Range(run) : ~Contains(ov_ran[s], t))
           /\ ov_net' = Calls(OvTaken(c), c[2],
                {To({OvCoord(t) : t \in Range(run)}, [type |-> "ExecuteAck"]),
                 To({c[1]}, [type |-> "PublishAck", ts |-> wm.ts])})
  /\ UNCHANGED <<ov_coord, ov_goss>>

-----
(* OVGossiper.  Each loop is a thread: it runs its round, waits for the flag of the
   round ("wait"), clears it and sleeps ("ready"). *)

OvFreshGoss(d, flags) ==
  [site_wm |-> [s \in OvDcSites(d) |-> OvZero], dc_wm |-> [e \in OvDcs |-> OvZero], vw |-> OvZero,
   agg |-> "off", agg_flag |-> flags[1], agg_acks |-> {}, agg_rounds |-> 0,
   gos |-> "off", gos_flag |-> flags[2], gos_acks |-> {}, gos_rounds |-> 0]

OvAggregate(d) ==
  /\ ov_goss[d].agg = "ready" /\ ov_goss[d].agg_rounds < ov_lay.aggregates
  /\ ov_goss' = [ov_goss EXCEPT ![d].agg = "wait", ![d].agg_acks = {}, ![d].agg_rounds = @ + 1]
  /\ ov_net' = Calls(ov_net, OvGoss(d), {To({OvSite(s) : s \in OvDcSites(d)},
                                             [type |-> "Publish", ts |-> ov_goss[d].vw])})
  /\ UNCHANGED <<ov_coord, ov_site, ov_ran, ov_aborted>>

(* The wait of AggregateLoop. *)
OvAggregateLoop(d) ==
  /\ ov_goss[d].agg = "wait" /\ ov_goss[d].agg_flag
  /\ ov_goss' = [ov_goss EXCEPT ![d].agg = "ready", ![d].agg_flag = FALSE]
  /\ UNCHANGED <<ov_coord, ov_site, ov_ran, ov_net, ov_aborted>>

OvPublishAck(c) ==
  /\ Receives(ov_net, c, "PublishAck")
  /\ LET d == c[2][2]   s == c[1][2]   g == ov_goss[d]
         wm == [g.site_wm EXCEPT ![s] = OvRaise(@, Head(ov_net[c]).ts)]
         acks == g.agg_acks \cup {s}
     IN  ov_goss' = [ov_goss EXCEPT ![d] =
           IF acks # DOMAIN wm THEN [g EXCEPT !.site_wm = wm, !.agg_acks = acks]
           ELSE [g EXCEPT !.site_wm = wm, !.agg_acks = acks, !.agg_flag = TRUE,
                          !.dc_wm[d] = OvLeast(Range(wm))]]
  /\ ov_net' = OvTaken(c)
  /\ UNCHANGED <<ov_coord, ov_site, ov_ran, ov_aborted>>

OvGossip(d) ==
  /\ ov_goss[d].gos = "ready" /\ ov_goss[d].gos_rounds < ov_lay.gossips
  /\ ov_goss' = [ov_goss EXCEPT ![d].gos = "wait", ![d].gos_acks = {}, ![d].gos_rounds = @ + 1]
  /\ ov_net' = Calls(ov_net, OvGoss(d), {To({OvGoss(e) : e \in OvDcs \ {d}},
                                             [type |-> "Exchange", ts |-> ov_goss[d].dc_wm[d]])})
  /\ UNCHANGED <<ov_coord, ov_site, ov_ran, ov_aborted>>

(* The wait of GossipLoop. *)
OvGossipLoop(d) ==
  /\ ov_goss[d].gos = "wait" /\ ov_goss[d].gos_flag
  /\ ov_goss' = [ov_goss EXCEPT ![d].gos = "ready", ![d].gos_flag = FALSE]
  /\ UNCHANGED <<ov_coord, ov_site, ov_ran, ov_net, ov_aborted>>

OvOnExchange(c) ==
  /\ Receives(ov_net, c, "Exchange")
  /\ LET d == c[2][2]   e == c[1][2]
     IN  /\ ov_goss' = [ov_goss EXCEPT ![d].dc_wm[e] = OvRaise(@, Head(ov_net[c]).ts)]
         /\ ov_net' = OvReply(c, [type |-> "ExchangeAck", ts |-> ov_goss[d].dc_wm[d]])
  /\ UNCHANGED <<ov_coord, ov_site, ov_ran, ov_aborted>>

OvExchangeAck(c) ==
  /\ Receives(ov_net, c, "ExchangeAck")
  /\ LET d == c[2][2]   e == c[1][2]   g == ov_goss[d]
         wm == [g.dc_wm EXCEPT ![e] = OvRaise(@, Head(ov_net[c]).ts)]
         acks == g.gos_acks \cup {e}
     IN  ov_goss' = [ov_goss EXCEPT ![d] =
           IF acks # OvDcs \ {d} THEN [g EXCEPT !.dc_wm = wm, !.gos_acks = acks]
           ELSE [g EXCEPT !.dc_wm = wm, !.gos_acks = acks, !.gos_flag = TRUE,
                          !.vw = OvLeast(Range(wm))]]
  /\ ov_net' = OvTaken(c)
  /\ UNCHANGED <<ov_coord, ov_site, ov_ran, ov_aborted>>

-----
(* CoordinatorOV.  phase is what phase_ % 6 was when the phase began; out and acked are
   the pieces sent and acknowledged by Dispatch. *)

OvFreshCoord == [phase |-> "OV_INIT", ts |-> OvZero, out |-> {}, acked |-> {}, stores |-> {}]

(* Dispatch: the ready pieces, one call per partition, to a nearest replica. *)
OvReady(t, x) == {p \in OvPieces(t) \ x.out : OvPieceOf[p].needs \subseteq x.acked}
OvDispatch(t, x) ==
  LET ready == OvReady(t, x)
      site(par) == CHOOSE s \in OvReplicas(par) : OvReplicas(par) \cap OvNear[t] = {} \/ s \in OvNear[t]
  IN  {To({OvSite(site(par))}, [type |-> "Dispatch", pieces |-> ready \cap OvPiecesAt(t, par)]) :
         par \in {OvPieceOf[p].par : p \in ready}}

(* OVStore and BroadcastStore; Execute and BroadcastExecute. *)
OvStoreTo_Nearest(t) == [par \in OvPars(t) |-> {CHOOSE s \in OvReplicas(par) : TRUE}]
OvStoreTo(t) == [par \in OvPars(t) |-> OvReplicas(par)]
OvStore(t, ts) ==
  {To({OvSite(s) : s \in OvStoreTo(t)[par]},
      [type |-> "Store", ts |-> ts, pieces |-> OvPiecesAt(t, par)]) : par \in OvPars(t)}

(* Variant that the runs must reject: only the coordinator's data centre is told. *)
OvExecute_Near(t) ==
  {To({OvSite(s) : s \in OvNear[t] \cap UNION {OvReplicas(par) : par \in OvPars(t)}}, [type |-> "Execute"])}
OvExecute(t) == {To({OvSite(s) : s \in UNION {OvReplicas(par) : par \in OvPars(t)}}, [type |-> "Execute"])}

(* The phase of transaction t becomes ph, its record x, and it makes calls. *)
OvGoto(t, x, ph, net, calls) ==
  /\ ov_coord' = [ov_coord EXCEPT ![t] = [x EXCEPT !.phase = ph]]
  /\ ov_net' = Calls(net, OvCoord(t), calls)
  /\ UNCHANGED <<ov_site, ov_goss, ov_ran>>

OvCreateTs(t) ==
  /\ t \in ov_lay.txns /\ ov_coord[t].phase = "OV_INIT"
  /\ \E s \in OvNear[t] : OvGoto(t, ov_coord[t], "OV_CREATED_TS", ov_net, {To({OvSite(s)}, [type |-> "CreateTs"])})
  /\ UNCHANGED ov_aborted

OvCreateTsAck(c) ==
  /\ Receives(ov_net, c, "CreateTsAck")
  /\ LET t == c[2][2]
         x == [ov_coord[t] EXCEPT !.ts = Head(ov_net[c]).ts]
     IN  /\ OvGoto(t, [x EXCEPT !.out = OvReady(t, x)], "OV_DISPATHED", OvTaken(c), OvDispatch(t, x))
         /\ ov_aborted' = OvVerify(c[2], x.phase = "OV_CREATED_TS")

OvDispatchAck(c) ==
  /\ Receives(ov_net, c, "DispatchAck")
  /\ LET t == c[2][2]   m == Head(ov_net[c])
         x == [ov_coord[t] EXCEPT !.acked = @ \cup m.pieces]
     IN  /\ ov_aborted' = OvVerify(c[2], x.phase = "OV_DISPATHED" /\ m.pieces \cap ov_coord[t].acked = {})
         /\ CASE OvReady(t, x) # {} ->
                   OvGoto(t, [x EXCEPT !.out = @ \cup OvReady(t, x)], "OV_DISPATHED", OvTaken(c), OvDispatch(t, x))
              [] OvReady(t, x) = {} /\ x.acked = x.out ->
                   OvGoto(t, x, "OV_STORED", OvTaken(c), OvStore(t, x.ts))
              [] OTHER -> OvGoto(t, x, x.phase, OvTaken(c), {})

(* TxnStored: the acknowledgement of one replica of each partition. *)
OvTxnStored(t, stores) == OvPars(t) \subseteq stores

(* Variant that the runs must reject: an acknowledgement of an old phase counts. *)
OvStoreACK_Late(c) ==
  /\ Receives(ov_net, c, "StoreAck")
  /\ LET t == c[2][2]   x == ov_coord[t]
     IN  OvGoto(t, x, "OV_EXECUTE", OvTaken(c),
                {To({OvSite(x.ts[2])}, [type |-> "StoredRemoveTs", ts |-> x.ts])})
  /\ UNCHANGED ov_aborted

OvStoreACK(c) ==
  /\ Receives(ov_net, c, "StoreAck")
  /\ LET t == c[2][2]
         x == [ov_coord[t] EXCEPT !.stores = @ \cup {Head(ov_net[c]).par}]
     IN  CASE ov_coord[t].phase # "OV_STORED" -> OvGoto(t, ov_coord[t], ov_coord[t].phase, OvTaken(c), {})
           [] ov_coord[t].phase = "OV_STORED" /\ OvTxnStored(t, x.stores) ->
                OvGoto(t, x, "OV_EXECUTE", OvTaken(c),
                       {To({OvSite(x.ts[2])}, [type |-> "StoredRemoveTs", ts |-> x.ts])})
           [] OTHER -> OvGoto(t, x, x.phase, OvTaken(c), {})
  /\ UNCHANGED ov_aborted

OvStoredRemoveTsAck(c) ==
  /\ Receives(ov_net, c, "StoredRemoveTsAck")
  /\ LET t == c[2][2]
     IN  /\ OvGoto(t, ov_coord[t], "OV_END", OvTaken(c), OvExecute(t))
         /\ ov_aborted' = OvVerify(c[2], ov_coord[t].phase = "OV_EXECUTE")

(* ExecuteAck.  The replies carry no output (OnExecute fills in none), and OutputReady
   counts the outputs of Dispatch: the first one ends. *)
OvExecuteAck(c) ==
  /\ Receives(ov_net, c, "ExecuteAck")
  /\ LET t == c[2][2]
     IN  OvGoto(t, ov_coord[t], IF ov_coord[t].phase = "OV_END" THEN "done" ELSE ov_coord[t].phase,
                OvTaken(c), {})
  /\ UNCHANGED ov_aborted

-----
OvInit ==
  /\ ov_lay \in OvLayouts
  /\ ov_coord = [t \in OvTxns |-> OvFreshCoord]
  /\ \E last \in [OvSites -> OvFresh] : ov_site = [s \in OvSites |-> OvFreshSite(last[s])]
  /\ \E flags \in [OvDcs -> OvFlags \X OvFlags] : ov_goss = [d \in OvDcs |-> OvFreshGoss(d, flags[d])]
  /\ ov_ran = [s \in OvSites |-> <<>>]
  /\ ov_net = [c \in OvConns |-> <<>>]
  /\ ov_aborted = {}

OvDeliver == \E c \in {k \in DOMAIN ov_net : ov_net[k] # <<>>} :
  \/ OvOnCreateTs(c) \/ OvOnStoredRemoveTs(c) \/ OvOnDispatch(c) \/ OvOnStore(c) \/ OvOnExecute(c)
  \/ OvOnPublish(c) \/ OvPublishAck(c) \/ OvOnExchange(c) \/ OvExchangeAck(c)
  \/ OvCreateTsAck(c) \/ OvDispatchAck(c) \/ OvStoreACK(c) \/ OvStoredRemoveTsAck(c) \/ OvExecuteAck(c)
OvLoops == \E d \in OvDcs : OvAggregate(d) \/ OvAggregateLoop(d) \/ OvGossip(d) \/ OvGossipLoop(d)
OvNext == /\ (OvDeliver \/ OvLoops \/ \E t \in OvTxns : OvCreateTs(t))
          /\ UNCHANGED ov_lay

OvSpec == OvInit /\ [][OvNext]_ovVars

-----
(* A watermark that some site has adopted is final: every transaction with a smaller
   timestamp is stored, and no timestamp given out later is smaller.  The watermark of
   one site travels through two gossipers and their unsynchronised rounds, while new
   timestamps are taken elsewhere (GetServerVWatermark, PublishAck, ExchangeAck,
   OnPublish). *)
OvWatermarkFinal ==
  \A s \in OvSites : \A u \in OvSites :
    /\ \A e \in ov_site[u].sphase : ~OvLess(e.ts, ov_site[s].vw)
    /\ \A t \in OvTxns : OvLess(OvZero, ov_coord[t].ts) /\ OvLess(ov_coord[t].ts, ov_site[s].vw)
         => \A par \in OvPars(t) : \E r \in OvReplicas(par) : ov_site[r].tx[t].dispatched

(* A replica executes all pieces of the transaction there: the call to execute never
   finds a transaction that is not stored, although one acknowledgement per partition
   lets the coordinator go on (OnExecute). *)
OvRunsAllPieces ==
  \A s \in OvSites : \A t \in Range(ov_ran[s]) :
    ov_site[s].tx[t].has = OvPiecesAt(t, ov_lay.par[s]) /\ ov_site[s].tx[t].ts = ov_coord[t].ts

(* Two transactions never get one timestamp, whatever the clocks do (GetMonotTimestamp). *)
OvTimestampsUnique ==
  \A t, u \in OvTxns : t # u /\ ov_coord[t].ts = ov_coord[u].ts => ov_coord[t].ts = OvZero

(* When nothing is on its way and every watermark has passed every timestamp, all
   transactions are answered and every replica has executed its own: the calls that
   waited in OnExecute were all released by OnPublish, which is strict where OnExecute
   is not. *)
OvQuiet == AllHandled(ov_net) /\ \A t \in ov_lay.txns : ov_coord[t].phase # "OV_INIT"
OvNoneStuck ==
  OvQuiet /\ (\A s \in OvSites, t \in ov_lay.txns : OvLess(ov_coord[t].ts, ov_site[s].vw))
    => \A t \in ov_lay.txns : /\ ov_coord[t].phase = "done"
                         /\ \A par \in OvPars(t) : \A s \in OvReplicas(par) : Contains(ov_ran[s], t)

(* No verify() fails: not the phase tests of the acknowledgements, not StoredTs, not a
   second store or execution of a transaction. *)
OvNoVerifyFails == ov_aborted = {}

(* "Received quorum ACK from all participating partitions": past OVStoreACK more than
   half of the replicas of every partition hold the transaction. *)
OvStoredAtQuorum ==
  \A t \in OvTxns : ov_coord[t].phase \in {"OV_EXECUTE", "OV_END", "done"} =>
    \A par \in OvPars(t) :
      2 * Cardinality({s \in OvReplicas(par) : ov_site[s].tx[t].dispatched}) > Cardinality(OvReplicas(par))

(* Below a visibility watermark the order of transactions is final and total
   (GetServerVWatermark, GetMonotTimestamp). *)
OvOrderFinal == OvWatermarkFinal /\ OvTimestampsUnique

=====
