----- MODULE Chopper -----
(* The command object of a client (deptran/txn_chopper, bench/tpcc and bench/tpca): it
   keeps a status for every piece, four counters and a workspace of variables.  Under
   two-phase locking, OCC and TAPIR the coordinator dispatches the pieces whose inputs
   are there, merges the answers into the workspace, which makes further pieces ready,
   prepares when all are answered and, if that fails, resets the object for the next
   attempt; DAST, SLOG and Janus take all pieces out of it at once. What the pieces are,
   their inputs and shards comes from module Tpcc. All workspaces of one command share
   one map of values: an assignment copies the pointer.  A value is known here by the
   attempt whose answer brought it, 0 for the request. *)
EXTENDS Tpcc, Functions

CONSTANTS
  ChLoads,  \* [type, home, mode]; mode: "classic" (2PL and OCC), "tapir"
               \* or "all" (DAST, SLOG, Janus)
  ChMaxRetry,  \* max_retry_
  ChMaxRows    \* bound: the order lines that stock-level finds

ASSUME ChAssumption ==
  /\ ChMaxRetry \in Nat /\ ChMaxRows \in Nat
  /\ \A l \in ChLoads : l.mode \in {"classic", "tapir", "all"}

VARIABLES
  chCmd,  \* the TxnCommand, and the phase of its coordinator
  chNet,  \* the dispatches not yet answered: [shard, ids]
  chSent  \* history: the [try, id, shard, from] sent, from: variable -> attempt
chopperVars == <<chCmd, chNet, chSent>>

-----
(* The requests.  TPC-A draws three rows, the first, second or third of them at the
   client's own shard; whether the others leave the region makes the transaction local
   or not. *)

ChTpcaReqs(home) ==
  {[TcRequest("tpca", home) EXCEPT !.supply = s, !.local = \A i \in 1..3 : TcSameRegion(s[i], home)] :
      s \in {k \in [1..3 -> TcW] : home \in Range(k)}}
ChGetTxnReq(type, home) == IF type = "tpca" THEN ChTpcaReqs(home) ELSE TcGetTxnReq(type, home)

ChTpcaPiece(r, i) ==
  TcPiece(10 + i, r.supply[i], {<<"TPCA_VAR", i>>}, IF i = 1 THEN {<<"TPCA_VAR", 1>>} ELSE {},
          Cells("account", {"balance"}, r.supply[i], i), Cells("account", {"balance"}, r.supply[i], i))
ChStockLevelRS(r, i) ==
  TcPiece(52000 + i, r.home, {<<"OL_I_ID", i>>, V("W_ID"), V("THRESHOLD")}, {V("UNKOWN")},
          Cells("stock", {"quantity"}, r.home, 0), {})

(* Every piece a command of this request can have, and those it starts with. *)
ChFirstPieces(r) == IF r.type = "tpca" THEN {ChTpcaPiece(r, i) : i \in 1..3} ELSE TcPieces(r)
ChPieces(r) ==
  ChFirstPieces(r) \cup IF r.type = "stock_level" THEN {ChStockLevelRS(r, i) : i \in 0..ChMaxRows - 1} ELSE {}
ChPiece(r, id) == CHOOSE p \in ChPieces(r) : p.id = id
ChIds(pieces) == {p.id : p \in pieces}
ChGiven(r) == IF r.type = "tpca" THEN {<<"TPCA_VAR", i>> : i \in 1..3} ELSE TcGiven(r)

(* keys_ of a piece: its registered inputs; a new-order piece that is made dispatchable
   by hand gets keys of the request only. *)
ChKeys(r, p) == IF p.asap THEN p.ins \cap ChGiven(r) ELSE p.ins

-----
(* Init and Retry of a transaction type. *)

(* The pieces set to DISPATCHABLE by hand; the one that an order-status or a payment by
   customer number does not need counts as answered. *)
ChByHand(r) ==
  CASE r.type = "new_order" -> {p.id : p \in {q \in TcPieces(r) : q.asap}}
    [] r.type = "order_status" -> IF r.byLast THEN {300} ELSE {301, 302}
    [] r.type = "stock_level" -> {500}
    [] r.type = "tpca" -> {11, 12, 13}
    [] OTHER -> {}
ChNotNeeded(r) ==
  CASE r.type = "payment" /\ ~r.byLast -> {203}
    [] r.type = "order_status" /\ ~r.byLast -> {300}
    [] OTHER -> {}
ChNPiecesAll(r) ==
  CASE r.type = "new_order" -> 5 + 4 * TcLines
    [] r.type = "payment" -> 6
    [] r.type \in {"order_status", "delivery"} -> 4
    [] r.type = "stock_level" -> 2
    [] r.type = "query2" -> 1 + TcLines + TcLines + TcLines * TcShards
    [] r.type = "tpca" -> 3

ChVerify(c, cond) == [c EXCEPT !.bad = @ \/ ~cond]

(* Variant that the runs must reject: the search stops at an input found. *)
ChCheckReady_Any(c) ==
  LET ready == {id \in DOMAIN c.status :
                  c.status[id] = "WAITING" /\ (ChPiece(c.req, id).ins \cap c.keys) # {}}
  IN  [c EXCEPT !.status = [id \in ready |-> "DISPATCHABLE"] @@ @,
                !.dispatchable = @ + Cardinality(ready)]

(* CheckReady: a waiting piece whose inputs are all in the workspace. *)
ChCheckReady(c) ==
  LET ready == {id \in DOMAIN c.status :
                  c.status[id] = "WAITING" /\ ChPiece(c.req, id).ins \subseteq c.keys}
  IN  [c EXCEPT !.status = [id \in ready |-> "DISPATCHABLE"] @@ @,
                !.dispatchable = @ + Cardinality(ready)]

(* The statuses are assigned one by one, so those of the stock pieces of an earlier
   attempt stay. *)
ChSetUp(c) ==
  LET r == c.req
      ids == ChIds(ChFirstPieces(r)) \cup ChNotNeeded(r)
      s == [c EXCEPT
              !.status = [id \in ids |-> IF id \in ChNotNeeded(r) THEN "OUTPUT_READY"
                                         ELSE IF id \in ChByHand(r) THEN "DISPATCHABLE" ELSE "WAITING"] @@ @,
              !.all = ChNPiecesAll(r),
              !.dispatchable = Cardinality(ChByHand(r)) + Cardinality(ChNotNeeded(r)),
              !.dispatched = Cardinality(ChNotNeeded(r)), !.acked = Cardinality(ChNotNeeded(r))]
      ready == IF r.type \in {"order_status", "stock_level", "tpca"} THEN s ELSE ChCheckReady(s)
  IN  ChVerify(ready, ready.dispatchable > 0)

ChCommand(r, mode) ==
  [req |-> r, mode |-> mode, phase |-> "init", try |-> 0, aborted |-> FALSE, reply |-> "none",
   status |-> << >>, keys |-> ChGiven(r), values |-> [v \in ChGiven(r) |-> 0],
   all |-> 0, dispatchable |-> 0, dispatched |-> 0, acked |-> 0, outputs |-> {}, parts |-> {}, bad |-> FALSE]

(* Reset: ws_ = ws_init_ brings the first keys back; the values are shared with ws_init_
   and stay. *)
ChReset(c) ==
  ChSetUp([c EXCEPT !.try = @ + 1, !.aborted = FALSE, !.outputs = {}, !.keys = ChGiven(c.req), !.parts = {}])

-----
(* Taking pieces out. *)

ChWith(c, status) == {id \in DOMAIN c.status : c.status[id] = status}
ChOut(c, ids) ==
  [c EXCEPT !.status = [id \in ids |-> "DISPATCHED"] @@ @, !.dispatched = @ + Cardinality(ids),
            !.parts = @ \cup {ChPiece(c.req, id).shard : id \in ids}]
ChShards(c, ids) == {ChPiece(c.req, id).shard : id \in ids}
ChBatches(c, ids) ==
  {[shard |-> s, ids |-> {id \in ids : ChPiece(c.req, id).shard = s}] : s \in ChShards(c, ids)}
ChSends(c, ids) ==
  {[try |-> c.try, id |-> id, shard |-> ChPiece(c.req, id).shard,
    from |-> Restrict(c.values, ChKeys(c.req, ChPiece(c.req, id)) \cap DOMAIN c.values)] : id \in ids}
ChHasAll(c, ids) == \A id \in ids : ChKeys(c.req, ChPiece(c.req, id)) \subseteq DOMAIN c.values

(* GetReadyCmds and Dispatch.  Marshalling a piece looks every key up in the values.
   piece_input_ready_ is not initialised on this path: with a zero there,
   input_var_ready_.at throws and the client ends; TAPIR does not look at it. *)
ChGetReadyCmds(c) ==
  LET ready == ChWith(c, "DISPATCHABLE")
  IN  ChVerify(ChOut(c, ready), c.dispatched < c.dispatchable /\ c.dispatched < c.all /\ ready # {}
                                /\ ChHasAll(c, ready))
ChDispatch(c, net) ==
  LET ready == ChWith(c, "DISPATCHABLE")
  IN  \/ /\ chCmd' = [ChGetReadyCmds(c) EXCEPT !.phase = "dispatch"]
         /\ chNet' = net \cup ChBatches(c, ready)
         /\ chSent' = chSent \cup ChSends(c, ready)
      \/ /\ c.mode = "classic"
         /\ chCmd' = [c EXCEPT !.phase = "thrown"]
         /\ chNet' = {}
         /\ UNCHANGED chSent

(* PrepareAllCmds and GetAllCmds: whatever is needed leaves, ready or not; the shards
   pass each other the missing values. *)
ChGetAllCmds(c) ==
  LET ids == DOMAIN c.status \ ChWith(c, "OUTPUT_READY")
  IN  ChVerify(ChOut(c, ids), /\ c.dispatched < c.dispatchable /\ c.dispatched < c.all /\ ids # {}
                              /\ \A id \in ids : c.status[id] \in {"DISPATCHABLE", "WAITING"}
                              /\ ChHasAll(c, ChWith(c, "DISPATCHABLE")))

-----
(* The answers. *)

(* ws_.insert: a variable that has a value keeps it. *)
ChInsert(c, vars) ==
  [c EXCEPT !.keys = @ \cup vars, !.values = @ @@ [v \in vars |-> c.try]]

(* The callback of stock-level's second piece: a piece per order line found. *)
ChStockLevelFound(c, n) ==
  LET ids == {52000 + i : i \in 0..n - 1}
  IN  [c EXCEPT !.all = @ + n, !.dispatchable = @ + n, !.keys = @ \cup {V("N_PIECE_ALL")},
                !.values = (V("N_PIECE_ALL") :> c.try) @@ @,
                !.status = [id \in ids |-> "DISPATCHABLE"] @@ @]

(* Merge and start_callback, for the pieces of one answer. *)
ChOutputs(r, ids, n) ==
  UNION {ChPiece(r, id).outs : id \in ids}
  \cup IF 501 \in ids THEN {<<"OL_I_ID", i>> : i \in 0..n - 1} ELSE {}
ChInOrder(c) == c.all >= c.dispatchable /\ c.dispatchable >= c.dispatched /\ c.dispatched >= c.acked
ChMerge(c, ids, n) ==
  LET a == ChVerify([c EXCEPT !.acked = @ + Cardinality(ids), !.outputs = @ \cup ids],
                    ids \cap c.outputs = {})
      i == IF c.req.type = "tpca" THEN a ELSE ChInsert(a, ChOutputs(c.req, ids, n))
      m == IF c.req.type = "tpca" THEN i
           ELSE IF 501 \in ids THEN ChStockLevelFound(i, n) ELSE ChCheckReady(i)
  IN  ChVerify(m, ChInOrder(a) /\ (500 \in ids => m.status[501] = "DISPATCHABLE"))

(* HasMoreSubCmdReadyNotOut. *)
ChHasMore(c) == c.dispatchable > c.dispatched
ChHasMoreVerified(c) ==
  ChVerify(c, ChInOrder(c) /\ (c.dispatchable = c.dispatched => c.all = c.dispatched \/ c.acked < c.dispatched))

ChEnd(c, reply) ==
  /\ chCmd' = [c EXCEPT !.phase = "end", !.reply = reply]
  /\ chNet' = {}
  /\ UNCHANGED chSent
ChRestart(c) == IF c.try > ChMaxRetry THEN ChEnd(c, "REJECT") ELSE ChDispatch(ChReset(c), {})

(* do_one: the command is made and its first pieces leave. *)
ChDoOne ==
  LET c == ChSetUp([chCmd EXCEPT !.try = 1])
  IN  /\ chCmd.phase = "init"
      /\ IF c.mode # "all" THEN ChDispatch(c, {})
         ELSE /\ chCmd' = [ChGetAllCmds(c) EXCEPT !.phase = "end", !.reply = "SUCCESS"]
              /\ chSent' = ChSends(c, DOMAIN c.status \ ChWith(c, "OUTPUT_READY"))
              /\ UNCHANGED chNet

(* DispatchAck: an answer of one partition; after a refusal the outputs are not merged,
   and all answers are waited for.  n: the order lines found. *)
ChDispatchAck(b, ok, n) ==
  LET left == chNet \ {b}
      c == [chCmd EXCEPT !.aborted = @ \/ ~ok]
      m == ChHasMoreVerified(ChMerge(c, b.ids, n))
  IN  /\ chCmd.phase = "dispatch"
      /\ ok \/ chCmd.mode = "classic"
      /\ (501 \in b.ids /\ ok) \/ n = 0
      /\ IF c.aborted /\ left # {} THEN chCmd' = c /\ chNet' = left /\ UNCHANGED chSent
         ELSE IF c.aborted THEN ChRestart(c)
         ELSE IF ChHasMore(m) THEN ChDispatch(m, left)
         ELSE /\ chCmd' = [m EXCEPT !.phase = IF left = {} THEN "prepare" ELSE @]
              /\ chNet' = left
              /\ UNCHANGED chSent

(* The last PrepareAck, or TAPIR's last FastAcceptAck. *)
ChPrepareAck(ok) ==
  /\ chCmd.phase = "prepare"
  /\ IF ok THEN ChEnd(chCmd, "SUCCESS") ELSE ChRestart([chCmd EXCEPT !.aborted = TRUE])

ChInit ==
  /\ chCmd \in UNION {{ChCommand(r, l.mode) : r \in ChGetTxnReq(l.type, l.home)} : l \in ChLoads}
  /\ chNet = {}
  /\ chSent = {}

ChNext ==
  \/ ChDoOne
  \/ \E b \in chNet, ok \in BOOLEAN, n \in 0..ChMaxRows : ChDispatchAck(b, ok, n)
  \/ \E ok \in BOOLEAN : ChPrepareAck(ok)

-----

ChSentNow == {x \in chSent : x.try = chCmd.try}
ChNeeded ==
  ChIds(ChFirstPieces(chCmd.req))
  \cup IF chCmd.req.type = "stock_level" THEN {52000 + i : i \in 0..chCmd.all - 3} ELSE {}

(* In every attempt, whatever is left over from the aborted ones, a piece is dispatched
   once, after the pieces of this attempt that give its inputs have answered; the
   transaction is prepared and answered once every piece has answered, at exactly the
   partitions that were sent some of them; the generator called it local if these lie in
   one region; and none of the verifies on the counters and statuses fails. *)
ChRight ==
  LET c == chCmd
      given == ChGiven(c.req) \cup ChOutputs(c.req, c.outputs, ChMaxRows)
  IN  /\ ~c.bad
      /\ c.phase # "init" =>
           /\ c.dispatched = Cardinality(ChIds(ChSentNow)) + Cardinality(ChNotNeeded(c.req))
           /\ c.parts = {x.shard : x \in ChSentNow}
      /\ c.mode # "all" => \A x \in ChSentNow : ChKeys(c.req, ChPiece(c.req, x.id)) \subseteq given
      /\ c.phase = "prepare" \/ c.reply = "SUCCESS" =>
           /\ ChIds(ChSentNow) = ChNeeded
           /\ c.mode # "all" => c.outputs = ChNeeded
           /\ c.req.local <=> \A s \in c.parts : TcSameRegion(s, c.req.home)

(* What a piece is sent comes from the request or from this attempt.  It does not hold:
   the first value of a variable survives the reset. *)
ChFresh == \A x \in chSent : \A v \in DOMAIN x.from : x.from[v] \in {0, x.try}

=====
