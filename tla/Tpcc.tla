----- MODULE Tpcc -----
(* The TPC-C workload (src/bench/tpcc): the request generator, the chopper that cuts a
   transaction into pieces and gives each a shard, what every piece reads, writes and
   passes on, and the table conflicts_ by which DAST and SLOG let the pieces of a later
   transaction run past the pieces of an earlier one that still wait for their inputs.
   The order of the transactions is the one the protocol agreed on (modules Dast and
   Slog). Pieces carry the numbers of piece.h; a variable is <<name, index>>. *)
EXTENDS Integers, FiniteSets, Sequences, FiniteSetsExt, SequencesExt

CONSTANTS
  TcPerRegion,  \* n_shard_per_region_
  TcRegions,    \* the number of regions
  TcLines,      \* ol_cnt, and SUPPLIER_FRACTION, the suppliers of query 2
  TcLoads       \* sequences of [type, home]: which transactions arrive where

TcShards == TcPerRegion * TcRegions  \* one warehouse per shard: n_w_id_
TcW == 0 .. TcShards - 1
TcL == 0 .. TcLines - 1
TcMaxPending == 5  \* max_pending_txns_

VARIABLES tcLoad,  \* the transactions still to be requested
          tcTxns,  \* [req, cmds] in the order the protocol agreed on
          tcDone,  \* shard -> the sequence of <<transaction, piece>> it ran
          tcIn,  \* shard -> the <<transaction, variable, value>> it received
          tcWire  \* <<from, to>> -> outputs under way, first sent first
tpccVars == <<tcLoad, tcTxns, tcDone, tcIn, tcWire>>

-----
(* The generator. *)

TcRegionOf(w) == w \div TcPerRegion
TcSameRegion(a, b) == TcRegionOf(a) = TcRegionOf(b)

TcRequest(type, home) ==
  [type |-> type, home |-> home, byLast |-> FALSE, cw |-> home,
   supply |-> [i \in TcL |-> home], local |-> TRUE]

\* Every line may be supplied by any warehouse; one in another region makes
\* the transaction a cross-region one.
TcNewOrderReqs(home) ==
  {[TcRequest("new_order", home) EXCEPT !.supply = s,
       !.local = \A i \in TcL : TcSameRegion(s[i], home)] : s \in [TcL -> TcW]}

\* The shard an intra-region payment draws when it leaves its home.
TcOtherInRegion_OneMore(home) ==
  {LET c == TcRegionOf(home) * TcPerRegion + r
   IN  IF c >= home THEN c + 1 ELSE c : r \in 0 .. TcPerRegion - 1}
TcOtherInRegion(home) ==
  {LET c == TcRegionOf(home) * TcPerRegion + r
   IN  IF c >= home THEN c + 1 ELSE c : r \in 0 .. TcPerRegion - 2}

\* The shards of the payment's customer: a test of the CRT ratio draws another
\* region or this one on purpose, the normal test any other shard.
TcPaymentReqs(home) ==
  {[TcRequest("payment", home) EXCEPT !.byLast = b, !.cw = c.w, !.local = c.local] :
      b \in BOOLEAN,
      c \in {[w |-> w, local |-> FALSE] : w \in {x \in TcW : ~TcSameRegion(x, home)}}
            \cup {[w |-> w, local |-> TRUE] : w \in TcOtherInRegion(home) \cup {home}}
            \cup {[w |-> w, local |-> TcSameRegion(w, home)] : w \in TcW \ {home}}}

TcOrderStatusReqs(home) ==
  {[TcRequest("order_status", home) EXCEPT !.byLast = b] : b \in BOOLEAN}
TcDeliveryReqs(home) == {TcRequest("delivery", home)}
TcStockLevelReqs(home) == {TcRequest("stock_level", home)}
TcQuery2Reqs(home) == {[TcRequest("query2", home) EXCEPT !.local = FALSE]}

TcGetTxnReq(type, home) ==
  CASE type = "new_order" -> TcNewOrderReqs(home)
    [] type = "payment" -> TcPaymentReqs(home)
    [] type = "order_status" -> TcOrderStatusReqs(home)
    [] type = "delivery" -> TcDeliveryReqs(home)
    [] type = "stock_level" -> TcStockLevelReqs(home)
    [] type = "query2" -> TcQuery2Reqs(home)

-----
(* The pieces: number, shard, registered inputs, outputs and footprint. A cell is
   <<table, column, warehouse, key>>; an insert meets readers of the table but no other
   insert. *)

V(name) == <<name, 0>>
Vars(names) == {V(n) : n \in names}
Cells(table, cols, w, k) == {<<table, c, w, k>> : c \in cols}

TcPiece(id, shard, ins, outs, reads, writes) ==
  [id |-> id, shard |-> shard, ins |-> ins, outs |-> outs,
   reads |-> reads, writes |-> writes, adds |-> {}, asap |-> FALSE]

TcNewOrder0(r) ==
  TcPiece(1000, r.home, Vars({"W_ID", "D_ID"}), Vars({"O_ID", "D_TAX"}),
          Cells("district", {"tax", "next_o_id"}, r.home, 0),
          Cells("district", {"next_o_id"}, r.home, 0))
TcNewOrder1(r) ==
  TcPiece(1001, r.home, Vars({"W_ID"}), Vars({"W_TAX"}),
          Cells("warehouse", {"tax"}, r.home, 0), {})
TcNewOrder2(r) ==
  TcPiece(1002, r.home, Vars({"W_ID", "D_ID", "C_ID"}),
          Vars({"C_LAST", "C_CREDIT", "C_DISCOUNT"}),
          Cells("customer", {"last", "credit", "discount"}, r.home, 0), {})
\* The order's row, its customer column overwritten with the warehouse: the row
\* of the secondary index was meant.  Dispatched without the order's number.
TcNewOrder3(r) ==
  [TcPiece(1003, r.home, Vars({"W_ID", "D_ID", "C_ID", "OL_CNT"}), {},
           Cells("order_sec", {"o_id"}, r.home, 0), {})
     EXCEPT !.adds = Cells("order", {"c_id", "carrier"}, r.home, 0), !.asap = TRUE]
TcNewOrder4(r) ==
  [TcPiece(1004, r.home, Vars({"W_ID", "D_ID", "O_ID"}), {}, {}, {})
     EXCEPT !.adds = Cells("new_order", {"o_id"}, r.home, 0), !.asap = TRUE]
TcNewOrderRI(r, i) ==
  TcPiece(15000 + i, r.home, {<<"I_ID", i>>}, {<<"I_PRICE", i>>},
          Cells("item", {"name", "price", "data"}, r.home, i), {})
TcNewOrderRS(r, i) ==
  TcPiece(16000 + i, r.home, {<<"I_ID", i>>} \cup Vars({"W_ID", "D_ID"}),
          {<<"OL_DIST_INFO", i>>, <<"S_DATA", i>>},
          Cells("stock", {"dist", "data"}, r.home, i), {})
TcNewOrderWS(r, i) ==
  LET cells == Cells("stock", {"quantity", "ytd", "order_cnt"}, r.supply[i], i)
  IN  TcPiece(17000 + i, r.supply[i],
              {<<n, i>> : n \in {"I_ID", "S_W_ID", "OL_QUANTITY"}}, {},
              cells, cells)
TcNewOrderWOL(r, i) ==
  [TcPiece(18000 + i, r.home,
           {<<n, i>> : n \in {"I_ID", "S_W_ID", "OL_DIST_INFO"}} \cup Vars({"O_ID"}),
           {}, {}, {})
     EXCEPT !.adds = Cells("order_line", {"i_id", "amount", "delivery_d"}, r.home, 0),
            !.asap = TRUE]

TcPayment0(r) ==
  TcPiece(200, r.home, Vars({"W_ID", "H_AMOUNT"}), Vars({"W_NAME"}),
          Cells("warehouse", {"name", "address"}, r.home, 0), {})
TcPayment1(r) ==
  TcPiece(201, r.home, Vars({"W_ID", "D_ID"}), Vars({"D_NAME"}),
          Cells("district", {"name", "address"}, r.home, 0), {})
TcPayment2(r) ==
  TcPiece(202, r.home, Vars({"W_ID", "D_ID", "H_AMOUNT"}), {},
          Cells("district", {"ytd"}, r.home, 0), Cells("district", {"ytd"}, r.home, 0))
TcPayment3(r) ==
  TcPiece(203, r.cw, Vars({"C_W_ID", "C_D_ID", "C_LAST"}), Vars({"C_ID"}),
          Cells("customer", {"by_last"}, r.cw, 0), {})
TcPayment4(r) ==
  LET cells == Cells("customer", {"balance", "ytd", "data"}, r.cw, 0)
  IN  TcPiece(204, r.cw, Vars({"H_AMOUNT", "C_ID", "C_W_ID", "C_D_ID"}),
              Vars({"C_ID", "C_CREDIT", "C_BALANCE"}),
              cells \cup Cells("customer", {"last", "credit"}, r.cw, 0), cells)
TcPayment5(r) ==
  [TcPiece(205, r.home, Vars({"W_NAME", "D_NAME", "C_ID", "H_KEY", "H_AMOUNT"}), {},
           {}, {})
     EXCEPT !.adds = Cells("history", {"row"}, r.home, 0)]

TcOrderStatus0(r) ==
  TcPiece(300, r.home, Vars({"W_ID", "D_ID", "C_LAST"}), Vars({"C_ID"}),
          Cells("customer", {"by_last"}, r.home, 0), {})
TcOrderStatus1(r) ==
  TcPiece(301, r.home, Vars({"W_ID", "D_ID", "C_ID"}), Vars({"C_BALANCE"}),
          Cells("customer", {"last", "balance"}, r.home, 0), {})
TcOrderStatus2(r) ==
  TcPiece(302, r.home, Vars({"W_ID", "D_ID", "C_ID"}), Vars({"O_ID"}),
          Cells("order_sec", {"o_id"}, r.home, 0)
            \cup Cells("order", {"carrier"}, r.home, 0), {})
TcOrderStatus3(r) ==
  TcPiece(303, r.home, Vars({"W_ID", "D_ID", "O_ID"}), {},
          Cells("order_line", {"i_id", "amount", "delivery_d"}, r.home, 0), {})

\* The oldest new_order row is looked up and stays in the table.
TcDelivery0(r) ==
  TcPiece(400, r.home, Vars({"W_ID", "D_ID", "O_CARRIER_ID"}), Vars({"O_ID"}),
          Cells("new_order", {"o_id"}, r.home, 0), {})
TcDelivery1(r) ==
  TcPiece(401, r.home, Vars({"W_ID", "D_ID", "O_ID", "O_CARRIER_ID"}), Vars({"C_ID"}),
          Cells("order", {"c_id"}, r.home, 0), Cells("order", {"carrier"}, r.home, 0))
TcDelivery2(r) ==
  TcPiece(402, r.home, Vars({"W_ID", "D_ID", "O_ID"}), Vars({"OL_AMOUNT"}),
          Cells("order_line", {"amount"}, r.home, 0),
          Cells("order_line", {"delivery_d"}, r.home, 0))
TcDelivery3(r) ==
  LET cells == Cells("customer", {"balance", "delivery_cnt"}, r.home, 0)
  IN  TcPiece(403, r.home, Vars({"W_ID", "D_ID", "C_ID", "OL_AMOUNT"}), {}, cells, cells)

TcStockLevel0(r) ==
  TcPiece(500, r.home, Vars({"W_ID", "D_ID"}), Vars({"D_NEXT_O_ID"}),
          Cells("district", {"next_o_id"}, r.home, 0), {})
TcStockLevel1(r) ==
  TcPiece(501, r.home, Vars({"W_ID", "D_ID", "D_NEXT_O_ID"}), Vars({"OL_AMOUNT"}),
          Cells("order_line", {"i_id"}, r.home, 0), {})

TcQuery20(r) ==
  TcPiece(600, r.home, Vars({"W_ID", "R_ID"}), {<<"N_KEY", i>> : i \in TcL},
          Cells("nation", {"key"}, r.home, 0), {})
TcQuery2RSU(r, i) ==
  TcPiece(61000 + i, r.home, {V("W_ID"), <<"N_KEY", i>>},
          {<<n, i * TcLines + j>> : n \in {"SU_KEY", "OUT_NATION_KEY"}, j \in TcL},
          Cells("supplier", {"key"}, r.home, i), {})
TcQuery2RS(r, i, w) ==
  TcPiece(62000 + i * TcShards + w, w, {<<"SU_KEY", i>>, <<"RS_W_ID", w>>},
          {<<"MIN", i * TcShards + w>>},
          UNION {Cells("stock", {"quantity"}, w, k) : k \in TcL}, {})
TcQuery2WS(r, i) ==
  TcPiece(63000 + i, r.home,
          {V("W_ID"), <<"SU_KEY", i>>, <<"OUT_NATION_KEY", i>>}
            \cup {<<"MIN", i * TcShards + w>> : w \in TcW}, {}, {},
          Cells("supplier", {"min"}, r.home, i))

\* The pieces of a request; one found OUTPUT_READY at the start is not needed.
\* The stock pieces of stock-level are made by a callback of the client that
\* DAST and SLOG never call.
TcNewOrderInit(r) ==
  {TcNewOrder0(r), TcNewOrder1(r), TcNewOrder2(r), TcNewOrder3(r), TcNewOrder4(r)}
  \cup UNION {{TcNewOrderRI(r, i), TcNewOrderRS(r, i), TcNewOrderWS(r, i),
               TcNewOrderWOL(r, i)} : i \in TcL}
TcPaymentInit(r) ==
  {TcPayment0(r), TcPayment1(r), TcPayment2(r), TcPayment4(r), TcPayment5(r)}
  \cup (IF r.byLast THEN {TcPayment3(r)} ELSE {})
TcOrderStatusInit(r) ==
  {TcOrderStatus1(r), TcOrderStatus2(r), TcOrderStatus3(r)}
  \cup (IF r.byLast THEN {TcOrderStatus0(r)} ELSE {})
TcDeliveryInit(r) == {TcDelivery0(r), TcDelivery1(r), TcDelivery2(r), TcDelivery3(r)}
TcStockLevelInit(r) == {TcStockLevel0(r), TcStockLevel1(r)}
TcQuery2Init(r) ==
  {TcQuery20(r)} \cup (UNION {{TcQuery2RSU(r, i), TcQuery2WS(r, i)} : i \in TcL})
  \cup {TcQuery2RS(r, i, w) : i \in TcL, w \in TcW}

TcPieces(r) ==
  CASE r.type = "new_order" -> TcNewOrderInit(r)
    [] r.type = "payment" -> TcPaymentInit(r)
    [] r.type = "order_status" -> TcOrderStatusInit(r)
    [] r.type = "delivery" -> TcDeliveryInit(r)
    [] r.type = "stock_level" -> TcStockLevelInit(r)
    [] r.type = "query2" -> TcQuery2Init(r)

\* What the request itself carries.
TcGiven(r) ==
  Vars({"W_ID", "D_ID"}) \cup
  CASE r.type = "new_order" ->
         Vars({"C_ID", "OL_CNT"}) \cup
         {<<n, i>> : n \in {"I_ID", "S_W_ID", "OL_QUANTITY"}, i \in TcL}
    [] r.type = "payment" ->
         Vars({"H_AMOUNT", "H_KEY", "C_W_ID", "C_D_ID"})
         \cup Vars(IF r.byLast THEN {"C_LAST"} ELSE {"C_ID"})
    [] r.type = "order_status" -> Vars(IF r.byLast THEN {"C_LAST"} ELSE {"C_ID"})
    [] r.type = "delivery" -> Vars({"O_CARRIER_ID"})
    [] r.type = "stock_level" -> Vars({"THRESHOLD"})
    [] r.type = "query2" -> {V("R_ID")} \cup {<<"RS_W_ID", w>> : w \in TcW}

\* What a piece waits for.  CheckReady makes a piece DISPATCHABLE once the
\* workspace has its inputs; PrepareAllCmds gives the waiting ones their keys;
\* GetAllCmds notes in waiting_var_par_map which shard misses which variable.
TcAwaits(r, p) == IF p.asap THEN {} ELSE p.ins \ TcGiven(r)
TcGetAllCmds(r) ==
  [req |-> r, cmds |-> {[id |-> p.id, shard |-> p.shard, outs |-> p.outs,
                         awaits |-> TcAwaits(r, p)] : p \in TcPieces(r)}]
TcTargets_Here(x, p) == {p.shard} \cap {q.shard : q \in {c \in x.cmds : (c.awaits \cap p.outs) # {}}}
TcTargets(x, p) == {q.shard : q \in {c \in x.cmds : (c.awaits \cap p.outs) # {}}}

\* TpccPiece::conflicts_: may q not run while p of an earlier one is pending?
TcConflicts_NoStock(p, q) == p \in 63000 .. 63999 /\ q \in 61000 .. 61999
TcConflicts(p, q) ==
  \/ p \in 18000 .. 18999 /\ q \in {303, 402, 501} \cup 1000 .. 1999
  \/ p \in 52000 .. 52999 \cup 62000 .. 62999 /\ q \in 17000 .. 17999
  \/ p \in 61000 .. 61999 /\ q \in 63000 .. 63999
  \/ p \in 63000 .. 63999 /\ q \in 61000 .. 61999 \cup 63000 .. 63999
  \/ p \in {303, 402, 501} /\ q \in 18000 .. 18999
  \/ p = 1004 /\ q \in {1000, 1004, 400}
  \/ p = 204 /\ q \in {1002, 203, 204, 301, 302, 403}
  \/ p = 205 /\ q = 205
  \/ p = 301 /\ q \in {204, 403}
  \/ p = 302 /\ q \in {1003, 401}
  \/ p = 303 /\ q = 402
  \/ p = 401 /\ q \in {1003, 302, 401}
  \/ p = 402 /\ q \in {303, 402, 501}
  \/ p = 403 /\ q \in {1002, 203, 204, 301, 302, 403}
  \/ p = 501 /\ q = 402

-----
(* A shard executes: one pass over the transactions in their order, each running its
   ready pieces until none is left and adding the others to the pending ones of the
   transactions after it, as SLOG's queue does (DAST counts the pending pieces of a
   transaction only after a new input). *)

TcHere(t, k) == {p \in tcTxns[t].cmds : p.shard = k}
TcRan(s, t) == {e[2] : e \in {x \in Range(s.done) : x[1] = t}}
TcLeft(s, t, k) == {p \in TcHere(t, k) : p.id \notin TcRan(s, t)}

\* What a piece gives, as <<transaction, variable, value>>: payment's piece 204
\* returns the district's number under the customer's name.
TcOutput(t, p) ==
  {<<t, v, IF p.id = 204 /\ v = V("C_ID") THEN "district" ELSE "right">> : v \in p.outs}

\* The first value a waiting piece gets for a variable stays.
TcMerge_Last(known, new) ==
  {x \in known : \A y \in new : <<x[1], x[2]>> # <<y[1], y[2]>>} \cup new
TcMerge(known, new) ==
  known \cup {x \in new : \A y \in known : <<x[1], x[2]>> # <<y[1], y[2]>>}
TcKnows(s, t, var) == \E x \in s.in : x[1] = t /\ x[2] = var

\* A piece runs: a shard that waits for one of its outputs is sent them all.
TcRun(s, t, k, p) ==
  LET out == TcOutput(t, p)
      to  == TcTargets(tcTxns[t], p)
      far == {<<<<t, d>>, x[2], x[3]>> : d \in to \ {k}, x \in out}
  IN  [done |-> Append(s.done, <<t, p.id>>),
       in   |-> IF k \in to THEN TcMerge(s.in, out) ELSE s.in,
       out  |-> TcMerge(s.out, far)]

RECURSIVE TcRecursiveExecuteReadyPieces(_, _, _, _, _)
TcRecursiveExecuteReadyPieces(s, t, k, pending, last) ==
  LET can == {p \in TcLeft(s, t, k) :
                /\ \A v \in p.awaits : TcKnows(s, t, v)
                /\ \A q \in pending : ~TcConflicts(q, p.id)}
      ids == {p.id : p \in can}
      nxt == IF \E i \in ids : i > last THEN Min({i \in ids : i > last}) ELSE Min(ids)
  IN  IF can = {} THEN s
      ELSE TcRecursiveExecuteReadyPieces(
             TcRun(s, t, k, CHOOSE p \in can : p.id = nxt), t, k, pending, nxt)

RECURSIVE TcExecTxnQueue(_, _, _, _, _)
TcExecTxnQueue(s, t, k, pending, found) ==
  IF t > Len(tcTxns) \/ found > TcMaxPending THEN s
  ELSE LET s1 == TcRecursiveExecuteReadyPieces(s, t, k, pending, 0)
           left == {p.id : p \in TcLeft(s1, t, k)}
       IN  TcExecTxnQueue(s1, t + 1, k, pending \cup left, found + (IF left = {} THEN 0 ELSE 1))

TcScanned(k) ==
  TcExecTxnQueue([done |-> tcDone[k], in |-> tcIn[k], out |-> {}], 1, k, {}, 0)

TcExecute(k) ==
  LET s == TcScanned(k)
      To(d, t) == {<<t, x[2], x[3]>> : x \in {y \in s.out : y[1] = <<t, d>>}}
  IN  /\ s.done # tcDone[k]
      /\ tcDone' = [tcDone EXCEPT ![k] = s.done]
      /\ tcIn' = [tcIn EXCEPT ![k] = s.in]
      /\ tcWire' = [c \in DOMAIN tcWire |->
                      IF c[1] # k THEN tcWire[c]
                      ELSE tcWire[c] \o SelectSeq([t \in 1 .. Len(tcTxns) |-> To(c[2], t)],
                                                  LAMBDA m : m # {})]
      /\ UNCHANGED <<tcLoad, tcTxns>>

\* The outputs of a transaction reach a shard that waits for them.
TcOnSendDepValues(c) ==
  /\ tcWire[c] # << >>
  /\ tcIn' = [tcIn EXCEPT ![c[2]] = TcMerge(@, Head(tcWire[c]))]
  /\ tcWire' = [tcWire EXCEPT ![c] = Tail(@)]
  /\ UNCHANGED <<tcLoad, tcTxns, tcDone>>

\* The client's next request, cut into pieces, takes its place in the order.
TcSubmit ==
  /\ tcLoad # << >>
  /\ \E r \in TcGetTxnReq(Head(tcLoad).type, Head(tcLoad).home) :
        tcTxns' = Append(tcTxns, TcGetAllCmds(r))
  /\ tcLoad' = Tail(tcLoad)
  /\ UNCHANGED <<tcDone, tcIn, tcWire>>

TcInit ==
  /\ tcLoad \in TcLoads
  /\ tcTxns = << >>
  /\ tcDone = [k \in TcW |-> << >>]
  /\ tcIn = [k \in TcW |-> {}]
  /\ tcWire = [c \in TcW \X TcW |-> << >>]

TcNext ==
  \/ TcSubmit
  \/ \E k \in TcW : TcExecute(k)
  \/ \E c \in TcW \X TcW : TcOnSendDepValues(c)

-----

TcPieceOf(e) == CHOOSE p \in TcPieces(tcTxns[e[1]].req) : p.id = e[2]
TcClash(p, q) ==
  \/ (p.writes \cap (q.reads \cup q.writes \cup q.adds)) # {}
  \/ (q.writes \cap (p.reads \cup p.writes \cup p.adds)) # {}
  \/ (p.adds \cap q.reads) # {} \/ (q.adds \cap p.reads) # {}

\* What two transactions both touch at a shard, one of them writing, they touch
\* in the order the protocol agreed on, whatever piece waited for its input.
TcTouchedInOrder ==
  \A k \in TcW : \A i, j \in 1 .. Len(tcDone[k]) :
    i < j /\ tcDone[k][i][1] > tcDone[k][j][1] =>
      ~TcClash(TcPieceOf(tcDone[k][i]), TcPieceOf(tcDone[k][j]))

\* A transaction the generator calls local keeps to the shards of its home
\* region, and any other one leaves it: the client picks the protocol by that.
TcLocalFlag ==
  \A t \in 1 .. Len(tcTxns) :
    LET r == tcTxns[t].req
    IN  r.local <=> \A p \in TcPieces(r) : TcSameRegion(p.shard, r.home)

\* Payment's history row names the customer that paid, though piece 204 gives
\* the district's number back under the customer's name.
TcHistoryNamesCustomer ==
  \A k \in TcW : \A x \in tcIn[k] :
    tcTxns[x[1]].req.type = "payment" /\ k = tcTxns[x[1]].req.home /\ x[2] = V("C_ID")
      => x[3] = "right"

\* When nothing can move, every piece of every transaction has run.
TcAllRun ==
  (/\ tcLoad = << >>
   /\ \A c \in DOMAIN tcWire : tcWire[c] = << >>
   /\ \A k \in TcW : TcScanned(k).done = tcDone[k]) =>
    \A t \in 1 .. Len(tcTxns) : \A p \in tcTxns[t].cmds :
      <<t, p.id>> \in Range(tcDone[p.shard])

\* Every piece runs, where the generator's classification of the transaction
\* says, and with the values its input rules promise (TpccTxn::CheckReady).
TcPiecesRight == TcAllRun /\ TcLocalFlag /\ TcHistoryNamesCustomer

=====
