----- MODULE MCStorage -----
(* Workloads for the data of a server: the TPC-C transactions and their pieces, the
   client's command that gives the pieces out, the snapshots and the staging
   transactions of memdb, the population of sharded tables, and the addresses of a
   deployment.  A behaviour runs one of them; the others stay in one of their initial
   states. *)
EXTENDS Chopper, Snapshot, MemTxn, Sharding, Deployment

VARIABLE part
mcVars == <<part, tpccVars, chopperVars, snapshotVars, memTxnVars, shardVars, deployVars>>

(* Two regions of two warehouses; every type of transaction, local and cross region
   ones. *)
Tx(type, home) == [type |-> type, home |-> home]
TcPayments == <<Tx("payment", 1), Tx("payment", 2)>>
MCTcLoads == {TcPayments, <<Tx("order_status", 0), Tx("delivery", 0), Tx("stock_level", 0)>>,
              <<Tx("new_order", 0), Tx("query2", 0)>>, <<Tx("query2", 0), Tx("new_order", 1)>>}

(* Every type under every way of dispatching; TPC-A at one of the shards. *)
MCChLoads == {[type |-> t, home |-> 1, mode |-> m] :
                t \in {"new_order", "payment", "order_status", "delivery", "stock_level", "query2", "tpca"},
                m \in {"classic", "tapir", "all"}}

Qry(kind, low, high) == [kind |-> kind, low |-> low, high |-> high]

(* A table of two rows, with equal keys or not, one snapshot and one cursor. *)
MCSnQueries == {Qry("all", 0, 0), Qry("lt", 2, 0), Qry("in", 1, 3)}
SnDistinct == <<1, 2>>
MCSnLoads == {SnDistinct, <<2, 2>>}

(* A table of two rows; new rows at higher or at lower addresses. *)
MCMtQueries == {Qry("all", 0, 0), Qry("eq", 2, 0), Qry("lt", 2, 0), Qry("gt", 1, 0), Qry("in", 0, 2)}
MCMtLoads == {<< <<1, 1>>, <<2, 1>> >>}
MCMtAddrs == {<<1, 2, 3, 4>>, <<4, 3, 2, 1>>}

(* The schemas of config/, reduced to the columns that population uses, and a few
   records per table. *)
Column(name, pk, ref, of) == [name |-> name, pk |-> pk, ref |-> ref, of |-> of]
Key(name, of) == Column(name, TRUE, <<>>, of)
ForeignKey(name, table, col, of) == Column(name, TRUE, <<table, col>>, of)
Foreign(name, table, col, of) == Column(name, FALSE, <<table, col>>, of)
Plain(name) == Column(name, FALSE, <<>>, "")
Table(name, cols) == [name |-> name, cols |-> cols]

TpccSchema == <<
  Table("customer", <<Key("c_id", "c"), ForeignKey("c_d_id", "district", "d_id", "d"),
                      ForeignKey("c_w_id", "district", "d_w_id", "w"), Plain("c_last")>>),
  Table("district", <<Key("d_id", "d"), ForeignKey("d_w_id", "warehouse", "w_id", "w"), Plain("d_next_o_id")>>),
  Table("history", <<Key("h_key", "h"), Foreign("h_c_id", "customer", "c_id", "c"),
                     Foreign("h_d_id", "district", "d_id", "d"), Foreign("h_w_id", "district", "d_w_id", "w")>>),
  Table("item", <<Key("i_id", "i")>>),
  Table("new_order", <<ForeignKey("no_d_id", "order", "o_d_id", "d"), ForeignKey("no_w_id", "order", "o_w_id", "w"),
                       ForeignKey("no_o_id", "order", "o_id", "o")>>),
  Table("order", <<ForeignKey("o_d_id", "district", "d_id", "d"), ForeignKey("o_w_id", "district", "d_w_id", "w"),
                   Key("o_id", "o"), Foreign("o_c_id", "customer", "c_id", "c")>>),
  Table("order_line", <<ForeignKey("ol_d_id", "order", "o_d_id", "d"), ForeignKey("ol_w_id", "order", "o_w_id", "w"),
                        ForeignKey("ol_o_id", "order", "o_id", "o"), Key("ol_number", "l"),
                        Foreign("ol_i_id", "stock", "s_i_id", "i"), Foreign("ol_supply_w_id", "stock", "s_w_id", "w")>>),
  Table("stock", <<ForeignKey("s_i_id", "item", "i_id", "i"), ForeignKey("s_w_id", "warehouse", "w_id", "w")>>),
  Table("warehouse", <<Key("w_id", "w")>>) >>
TpcaSchema == <<
  Table("branch", <<Key("branch_id", "b")>>),
  Table("customer", <<Key("customer_id", "c"), Foreign("branch_id", "branch", "branch_id", "b")>>),
  Table("teller", <<Key("teller_id", "t"), Foreign("branch_id", "branch", "branch_id", "b")>>) >>
RwSchema == << Table("rw", <<Key("id", "r")>>) >>
MCShSchema == ("tpcc" :> TpccSchema) @@ ("tpccd" :> TpccSchema) @@ ("tpca" :> TpcaSchema) @@ ("rw" :> RwSchema)

Records(w, d, c, h, o, no, i, s, ol) ==
  ("warehouse" :> w) @@ ("district" :> d) @@ ("customer" :> c) @@ ("history" :> h) @@ ("order" :> o) @@
  ("new_order" :> no) @@ ("item" :> i) @@ ("stock" :> s) @@ ("order_line" :> ol)
Populate(bench, n, recs) == [bench |-> bench, n |-> n, recs |-> recs]
ShRw == Populate("rw", 2, "rw" :> 5)
MCShLoads == {
  Populate("tpcc", 2, Records(1, 2, 4, 3, 4, 3, 3, 3, 4)),
  Populate("tpccd", 2, Records(1, 2, 4, 3, 4, 3, 4, 4, 4)),
  Populate("tpccd", 2, Records(2, 2, 4, 2, 4, 2, 2, 4, 4)),
  Populate("tpca", 3, ("branch" :> 4) @@ ("teller" :> 4) @@ ("customer" :> 5)),
  ShRw}

(* Deployments the way genConfig.py writes them: a partition to a host, a process to a
   site or (packed, as in config/edge.yml) to a partition, partitions of two replicas,
   N_REP_PER_SHARD taken as two. *)
MCDpReps == 2
Named(kind, n) == <<kind, n>>
DpGenerated(pars, shards, clients, hosts, packed, raft, mode, forwarding) ==
  LET site(g, k) == Named("s", MCDpReps * (g - 1) + k - 1)
      sites  == {Named("s", n) : n \in 0..MCDpReps * pars - 1}
      cs     == {Named("c", n) : n \in 0..clients - 1}
      procOf(s) == IF s[1] = "s" /\ packed THEN Named("S", s[2] \div MCDpReps) ELSE s
      parOf(p)  == IF p[1] = "s" THEN p[2] \div MCDpReps ELSE p[2]
  IN  [server |-> [g \in 1..pars |-> [k \in 1..MCDpReps |-> [name |-> site(g, k), port |-> 8000 + site(g, k)[2]]]],
       client |-> [g \in 1..clients |-> <<Named("c", g - 1)>>],
       process |-> [s \in sites \cup cs |-> procOf(s)],
       host |-> [p \in {procOf(s) : s \in sites \cup cs} |-> hosts[parOf(p) + 1]],
       raft |-> raft, shards |-> shards, mode |-> mode, forwarding |-> forwarding]
DpEachItsProcess == DpGenerated(2, 1, 2, <<"h1", "h2">>, FALSE, <<>>, "dast", FALSE)
MCDpLayouts == {
 DpEachItsProcess,
 DpGenerated(4, 2, 1, <<"h1", "h2", "h1", "h2">>, TRUE, <<>>, "dast", FALSE),
 DpGenerated(2, 1, 2, <<"h1", "h1">>, TRUE, <<>>, "dast", TRUE),
 DpGenerated(2, 1, 1, <<"h1", "h1">>, FALSE, Named("s", 0) :> 25000 @@ Named("s", 2) :> 25001, "slog", FALSE)}

Init ==
  /\ part \in {"tpcc", "chopper", "snapshot", "memtxn", "sharding", "deploy"}
  /\ TcInit /\ (part = "tpcc" \/ tcLoad = TcPayments)
  /\ ChInit /\ (part = "chopper" \/ (chCmd.req.type = "delivery" /\ chCmd.mode = "all"))
  /\ SnInit /\ (part = "snapshot" \/ snWant[SnTable] = {<<SnDistinct[j], j>> : j \in 1..2})
  /\ MtInit /\ (part = "memtxn" \/ (mtBase = "unsafe" /\ mtAddr = <<1, 2, 3, 4>>))
  /\ ShInit /\ (part = "sharding" \/ shLoad = ShRw)
  /\ DpInit /\ (part = "deploy" \/ dpLay = DpEachItsProcess)

Next ==
  \/ part = "tpcc" /\ TcNext /\ UNCHANGED <<part, chopperVars, snapshotVars, memTxnVars, shardVars, deployVars>>
  \/ part = "chopper" /\ ChNext /\ UNCHANGED <<part, tpccVars, snapshotVars, memTxnVars, shardVars, deployVars>>
  \/ part = "snapshot" /\ SnNextStep /\ UNCHANGED <<part, tpccVars, chopperVars, memTxnVars, shardVars, deployVars>>
  \/ part = "memtxn" /\ MtNext /\ UNCHANGED <<part, tpccVars, chopperVars, snapshotVars, shardVars, deployVars>>
  \/ part = "sharding" /\ ShNext /\ UNCHANGED <<part, tpccVars, chopperVars, snapshotVars, memTxnVars, deployVars>>
  \/ part = "deploy" /\ DpNext /\ UNCHANGED <<part, tpccVars, chopperVars, snapshotVars, memTxnVars, shardVars>>

Spec == Init /\ [][Next]_mcVars
=====
