----- MODULE Sharding -----
(* How a server fills the tables of its partition before it serves (deptran/sharding.cc
   and the benchmarks' sharding.cc), and how requests are routed to the rows
   (PartitionFromKey, the generators' parameters). A table is filled by running through
   its own key and, for each of its values, through all combinations of the values its
   foreign key columns may take: an index with one digit per foreign column.  TPC-C
   proper (TpccSharding) and TPC-C by district (TpccdSharding, which also fills the rw
   benchmark's table) differ in where the digits range; TPC-A (TpcaSharding) has no
   foreign key in a key. A column drawn at random from the keys of another table holds
   the set of values it may be given. *)
EXTENDS Integers, Sequences, FiniteSets, SequencesExt, FiniteSetsExt, TLC

CONSTANTS
    ShSchema,  \* benchmark -> its tables in the order of their names, each
                  \* [name, cols]; a column is [name, pk, ref, of]: ref is <<>> or
                  \* <<table, column>>, of what the column identifies
    ShLoads,  \* [bench, n, recs]: benchmark, partitions, num_records of each table
    ShLastNames  \* how many last names there are (1000 in the code)

VARIABLES
    shLoad,  \* the configuration
    shVals,  \* partition -> column -> values other tables' columns refer to
    shRows,  \* partition -> table -> rows
    shSec,  \* partition -> order_c_id_secondary: <<d, w, c>> -> newest order
    shLast,  \* partition -> g_c_last2id: <<last name, d, w, c>>
    shScan,  \* partition -> PopulateTables: [at, pos, moved, done]
    shRun  \* partition -> PopulateTable: [key, max, self, digits, dims, count, fresh]

shardVars == <<shLoad, shVals, shRows, shSec, shLast, shScan, shRun>>

-----
(* The schema. *)

ShPars == 0 .. shLoad.n - 1
ShTabs == ShSchema[shLoad.bench]
ShTables == {ShTabs[i].name : i \in DOMAIN ShTabs}
ShColumns(t) == (CHOOSE tab \in Range(ShTabs) : tab.name = t).cols
ShKeyCols(t) == SelectSeq(ShColumns(t), LAMBDA c : c.pk)
ShForeignKeys(t) == SelectSeq(ShKeyCols(t), LAMBDA c : c.ref # <<>>)
ShRecs(t) == shLoad.recs[t]
ShByDistrict == shLoad.bench \in {"tpccd", "rw"}

\* The columns that keep their values: those some column refers to.
ShBuildTableInfoPtr ==
  {ref \in {c.ref : c \in UNION {Range(ShColumns(t)) : t \in ShTables}} : ref # <<>>}

-----
(* Routing. *)

ShModulus(key, n) == FoldLeft(LAMBDA sum, k : (sum + (k % n)) % n, 0, key)

\* InitTPCCD numbers districts and stocks, warehouse last; a key it did not
\* number maps to the empty value.
ShNumbered(key, n) ==
  IF Len(key) = 2 /\ key[1] < n /\ key[2] < ShRecs("warehouse")
  THEN <<key[1] * ShRecs("warehouse") + key[2]>> ELSE <<>>
ShDistMapping(key) ==
  ShNumbered(key, (shLoad.n * ShRecs("district")) \div ShRecs("warehouse"))
ShStockMapping(key) == ShNumbered(key, ShRecs("item"))

ShPartitionFromKey(t, key) ==
  ShModulus(IF shLoad.bench # "tpccd" \/ t = "history" THEN key
            ELSE IF t \in {"stock", "item"} THEN ShStockMapping(key)
            ELSE ShDistMapping(key), shLoad.n)

-----
(* The index over the combinations of foreign keys. *)

\* The next combination, the first digit fastest; overflow is Len 0.
ShIndexIncrease_Carry(digits, sizes) ==
  LET more == {i \in DOMAIN digits : digits[i] + 1 < sizes[i]}
  IN  IF more = {} THEN <<>>
      ELSE [digits EXCEPT ![Min(more)] = @ + 1]
ShIndexIncrease(digits, sizes) ==
  LET more == {i \in DOMAIN digits : digits[i] + 1 < sizes[i]}
  IN  IF more = {} THEN <<>>
      ELSE [i \in DOMAIN digits |-> CASE i < Min(more) -> 0
                                      [] i = Min(more) -> digits[i] + 1
                                      [] OTHER -> digits[i]]

\* A foreign key that ranges over every record of its table, not over the
\* values of this partition.
ShGlobal(c) ==
  \/ c.ref[2] = "i_id"
  \/ (ShByDistrict /\ c.ref[2] = "w_id")

ShSize(p, c) == IF ShGlobal(c) THEN ShRecs(c.ref[1]) ELSE Len(shVals[p][c.ref])

\* The district and the warehouse of a local foreign key move together when
\* the tables are sharded by district: their columns share a digit.
ShBound(c) == ShByDistrict /\ ~ShGlobal(c) /\ c.of \in {"d", "w"}
ShBoundCols(t) == {c.name : c \in {x \in Range(ShForeignKeys(t)) : ShBound(x)}}

\* One [cols, size] per digit.
ShDims_Apart(p, t) ==
  [i \in DOMAIN ShForeignKeys(t) |->
     [cols |-> {ShForeignKeys(t)[i].name}, size |-> ShSize(p, ShForeignKeys(t)[i])]]
ShDims(p, t) ==
  LET bound == ShBoundCols(t)
      Dim(c) == [cols |-> IF ShBound(c) THEN bound ELSE {c.name}, size |-> ShSize(p, c)]
      Add(dims, c) ==
        IF ShBound(c) /\ \E i \in DOMAIN dims : dims[i].cols = bound THEN dims
        ELSE Append(dims, Dim(c))
  IN  FoldLeft(Add, <<>>, ShForeignKeys(t))

\* num_foreign_row: by district, the first local foreign key counts all
\* records of its table, the later ones nothing.
ShForeignRows(p, t) ==
  LET Times(n, c) ==
        IF ~ShByDistrict THEN n * ShSize(p, c)
        ELSE IF ShGlobal(c) \/ n = 1 THEN n * ShRecs(c.ref[1])
        ELSE n
  IN  FoldLeft(Times, 1, ShForeignKeys(t))

\* The values the table's own columns offer once it is prepared.
ShPrepared(p, t) ==
  LET vals == shVals[p]
      mine == {c \in Range(ShKeyCols(t)) : <<t, c.name>> \in DOMAIN vals}
      gone == {<<t, c.name>> : c \in
                 {x \in mine : /\ ShByDistrict
                               /\ IF x.ref = <<>> THEN x.name \in {"i_id", "w_id"}
                                  ELSE \/ x.ref[2] = "i_id"
                                       \/ (x.ref[2] = "w_id" /\ t = "stock")}}
      given == {c \in mine : c.ref # <<>> /\ ~(ShByDistrict /\ ShGlobal(c))}
      Given(ref) == CHOOSE c \in given : ref = <<t, c.name>>
  IN  [ref \in DOMAIN vals \ gone |->
         IF \E c \in given : ref = <<t, c.name>>
         THEN IF ShGlobal(Given(ref)) THEN [i \in 1 .. ShRecs("item") |-> i - 1]
              ELSE vals[Given(ref).ref]
         ELSE vals[ref]]

\* What the preparation verifies.
ShPrepareOk(p, t) ==
  LET keys == Range(ShForeignKeys(t))
      rows == ShForeignRows(p, t)
      loc == IF ShByDistrict /\ t = "district" THEN ShRecs(t) * shLoad.n ELSE ShRecs(t)
  IN  \/ shLoad.bench = "tpca"
      \/ /\ \A c \in keys : ShSize(p, c) > 0
         /\ \A c, d \in keys : ShBound(c) /\ ShBound(d) => ShSize(p, c) = ShSize(p, d)
         /\ loc % rows = 0 \/ ShRecs(t) < rows

\* num_self_primary: how many values the table's own key takes.
ShNumSelf(p, t) ==
  CASE shLoad.bench = "tpca" -> ShRecs(t)
    [] shLoad.bench = "tpcc" /\ t = "warehouse" -> ShRecs(t) * shLoad.n
    [] ShByDistrict /\ t = "district" -> (ShRecs(t) * shLoad.n) \div ShForeignRows(p, t)
    [] OTHER -> ShRecs(t) \div ShForeignRows(p, t)

-----
(* One row. *)

ShSelfKey(t) == {c.name : c \in {x \in Range(ShKeyCols(t)) : x.ref = <<>>}}

\* The range a foreign column outside the key is drawn from.
ShDrawn_AnyRecord(c, key) ==
  IF c.name = "o_c_id" THEN {key} ELSE 0 .. ShRecs(c.ref[1]) - 1
ShDrawn(c, key) ==
  CASE c.of = "i" -> 0 .. ShRecs("item") - 1
    [] c.of = "w" -> 0 .. ShRecs("warehouse") * (IF ShByDistrict THEN 1 ELSE shLoad.n) - 1
    [] c.of = "c" /\ c.name = "o_c_id" -> {key}
    [] c.of = "c" -> 0 .. (ShRecs("customer") \div ShRecs("district")) - 1
    [] c.of = "d" -> 0 .. (((IF ShByDistrict THEN shLoad.n ELSE 1) * ShRecs("district"))
                              \div ShRecs("warehouse")) - 1
    [] OTHER -> 0 .. ShRecs(c.ref[1]) - 1

\* The value of a column in the row the run is at.
ShColumnValue(p, run, c) ==
  LET digit == run.digits[CHOOSE i \in DOMAIN run.dims : c.name \in run.dims[i].cols]
  IN  CASE c.pk /\ (run.dims = <<>> \/ c.ref = <<>>) -> run.key
        [] c.pk -> IF ShGlobal(c) THEN digit ELSE shVals[p][c.ref][digit + 1]
        [] c.ref # <<>> -> ShDrawn(c, run.key)
        [] c.name = "d_next_o_id" -> ShRecs("order") \div ShRecs("district")
        [] c.name = "c_last" -> run.key % ShLastNames

ShRow(p, run, t) ==
  [name \in {c.name : c \in Range(ShColumns(t))} |->
     ShColumnValue(p, run, CHOOSE c \in Range(ShColumns(t)) : c.name = name)]

ShKeyOf(t, row) == [i \in DOMAIN ShKeyCols(t) |-> row[ShKeyCols(t)[i].name]]

\* GenerateRowData: a key that stands alone decides where its row goes.
ShGenerated(p, t, run) ==
  \/ run.dims # <<>>
  \/ (ShByDistrict /\ t \in {"warehouse", "item"})
  \/ ShPartitionFromKey(t, <<run.key>>) = p

\* InsertRowData: sharded by district, the whole key does.
ShInserted(p, t, run) ==
  /\ ShGenerated(p, t, run)
  /\ ShByDistrict /\ t \in {"stock", "district"} =>
       ShPartitionFromKey(t, ShKeyOf(t, ShRow(p, run, t))) = p

\* The columns of the row whose value is remembered for the tables that refer
\* to them: its own key once per value, a district's both columns per row.
ShRecorded(p, t, run) ==
  LET own == IF ShByDistrict /\ t = "district"
             THEN IF ShInserted(p, t, run) THEN {"d_id", "d_w_id"} ELSE {}
             ELSE IF shLoad.bench # "tpca" /\ ShGenerated(p, t, run) /\ run.fresh
             THEN ShSelfKey(t) ELSE {}
  IN  {<<t, name>> : name \in own} \cap DOMAIN shVals[p]

\* The newest order of a customer.
ShNewest(sec, k, o) ==
  IF k \in DOMAIN sec THEN [sec EXCEPT ![k] = IF @ < o THEN o ELSE @]
  ELSE (k :> o) @@ sec

-----
(* The server of a partition. *)

ShInit ==
  /\ shLoad \in ShLoads
  /\ shVals = [p \in ShPars |-> [ref \in ShBuildTableInfoPtr |-> <<>>]]
  /\ shRows = [p \in ShPars |-> [t \in ShTables |-> {}]]
  /\ shSec = [p \in ShPars |-> <<>>]
  /\ shLast = [p \in ShPars |-> {}]
  /\ shScan = [p \in ShPars |-> [at |-> "scan", pos |-> 1, moved |-> FALSE, done |-> {}]]
  /\ shRun = [p \in ShPars |-> [key |-> 0, max |-> 0, self |-> 0, digits |-> <<>>,
                                dims |-> <<>>, count |-> 0, fresh |-> TRUE]]

\* Every column it refers to that keeps values has some.
ShReady2Populate_Always(p, t) == TRUE
ShReady2Populate(p, t) ==
  \/ shLoad.bench = "tpca"
  \/ \A c \in Range(ShColumns(t)) :
       c.ref # <<>> /\ c.ref \in DOMAIN shVals[p] => shVals[p][c.ref] # <<>>

\* The tables left in this sweep that can be filled, by position.
ShFillable(p) ==
  {i \in shScan[p].pos .. Len(ShTabs) :
     ShTabs[i].name \notin shScan[p].done /\ ShReady2Populate(p, ShTabs[i].name)}

\* PopulateTable up to its loop.
ShPopulateTable(p) ==
  /\ shScan[p].at = "scan" /\ ShFillable(p) # {}
  /\ LET i == Min(ShFillable(p))
         t == ShTabs[i].name
         dims == ShDims(p, t)
         self == ShNumSelf(p, t)
     IN  IF ShPrepareOk(p, t)
         THEN /\ shScan' = [shScan EXCEPT ![p].at = "rows", ![p].pos = i]
              /\ shVals' = [shVals EXCEPT ![p] = ShPrepared(p, t)]
              /\ shRun' = [shRun EXCEPT ![p] =
                    [key |-> 0, max |-> self, self |-> self, dims |-> dims,
                     digits |-> [d \in DOMAIN dims |-> 0], count |-> 0, fresh |-> TRUE]]
         ELSE /\ shScan' = [shScan EXCEPT ![p].at = "failed"]
              /\ UNCHANGED <<shVals, shRun>>
  /\ UNCHANGED <<shLoad, shRows, shSec, shLast>>

\* A table without a key of its own stops at its number of records.
ShEnough(t, run, count) == run.self = 0 /\ count >= ShRecs(t)

\* A turn of InsertRow's loop, and what follows it when it ends.
ShInsertRow(p) ==
  /\ shScan[p].at = "rows"
  /\ LET t == ShTabs[shScan[p].pos].name
         run == shRun[p]
         row == ShRow(p, run, t)
         in == ShInserted(p, t, run)
         count == run.count + (IF in THEN 1 ELSE 0)
         enough == in /\ ShEnough(t, run, count)
         next == ShIndexIncrease(run.digits, [d \in DOMAIN run.dims |-> run.dims[d].size])
         self == IF enough THEN 1 ELSE run.self
         more == run.key + 1 < run.max \/ self = 0
     IN  /\ shRows' = IF in THEN [shRows EXCEPT ![p][t] = @ \cup {row}] ELSE shRows
         /\ shSec' = IF in /\ t = "order" THEN
              [shSec EXCEPT ![p] = ShNewest(@, <<row["o_d_id"], row["o_w_id"], run.key>>, row["o_id"])]
              ELSE shSec
         /\ shLast' = IF in /\ t = "customer" /\ shLoad.bench # "tpca" THEN
              [shLast EXCEPT ![p] = @ \cup {<<row["c_last"], row["c_d_id"], row["c_w_id"], row["c_id"]>>}]
              ELSE shLast
         /\ shVals' = [shVals EXCEPT ![p] = [ref \in DOMAIN @ |->
              IF ref \in ShRecorded(p, t, run) THEN Append(@[ref], row[ref[2]]) ELSE @[ref]]]
         /\ shRun' = [shRun EXCEPT ![p] =
              IF ~enough /\ next # <<>>
              THEN [run EXCEPT !.digits = next, !.count = count, !.fresh = FALSE]
              ELSE [run EXCEPT !.key = @ + 1, !.self = self, !.count = 0, !.fresh = TRUE,
                               !.digits = [d \in DOMAIN run.digits |-> 0]]]
         /\ shScan' = [shScan EXCEPT ![p] =
              CASE ~enough /\ next # <<>> -> @
                [] ~enough /\ next = <<>> /\ self = 0 -> [@ EXCEPT !.at = "failed"]
                [] OTHER -> IF more THEN @ ELSE
                     [at |-> "scan", pos |-> @.pos + 1, moved |-> TRUE, done |-> @.done \cup {t}]]
  /\ UNCHANGED shLoad

ShReleaseForeignValues == <<>>

\* The end of a sweep over the tables: every sweep has to fill one.
ShEndSweep(p) ==
  /\ shScan[p].at = "scan" /\ ShFillable(p) = {}
  /\ IF ~shScan[p].moved
     THEN shScan' = [shScan EXCEPT ![p].at = "failed"] /\ UNCHANGED shVals
     ELSE IF shScan[p].done = ShTables
     THEN /\ shScan' = [shScan EXCEPT ![p].at = "done"]
          /\ shVals' = [shVals EXCEPT ![p] = ShReleaseForeignValues]
     ELSE /\ shScan' = [shScan EXCEPT ![p].pos = 1, ![p].moved = FALSE]
          /\ UNCHANGED shVals
  /\ UNCHANGED <<shLoad, shRows, shSec, shLast, shRun>>

ShNext == \E p \in ShPars : ShPopulateTable(p) \/ ShInsertRow(p) \/ ShEndSweep(p)

ShSpec == ShInit /\ [][ShNext]_shardVars

-----
(* What the servers promise the generators. *)

\* The parameters of the request generators: warehouses, districts of each,
\* customers of each district, items.
ShPara ==
  [w |-> 0 .. ShRecs("warehouse") * (IF ShByDistrict THEN 1 ELSE shLoad.n) - 1,
   d |-> 0 .. (IF ShByDistrict THEN (ShRecs("district") * shLoad.n) \div ShRecs("warehouse")
               ELSE ShRecs("district")) - 1,
   c |-> 0 .. (ShRecs("customer") \div ShRecs("district")) - 1,
   i |-> 0 .. ShRecs("item") - 1]

ShDone(p) == shScan[p].at = "done"
ShTpcc == shLoad.bench \in {"tpcc", "tpccd"}
ShOrders == 0 .. (ShRecs("order") \div ShRecs("district")) - 1
ShLines == 0 .. (ShRecs("order_line") \div ShRecs("order")) - 1

\* The keys that requests name, with the values the piece is sharded by.
ShAsked(t) ==
  LET P == ShPara
      D(d, w) == IF ShByDistrict THEN <<d, w>> ELSE <<w>>
  IN  CASE ~ShTpcc \/ t = "history" -> {[key |-> <<k>>, by |-> <<k>>] : k \in 0 .. ShRecs(t) - 1}
        [] t = "warehouse" -> {[key |-> <<w>>, by |-> <<w>>] : w \in P.w}
        [] t = "item" -> {[key |-> <<i>>, by |-> <<i>>] : i \in P.i}
        [] t = "stock" -> {[key |-> <<i, w>>, by |-> IF ShByDistrict THEN <<i, w>> ELSE <<w>>] :
                             i \in P.i, w \in P.w}
        [] t = "district" -> {[key |-> <<d, w>>, by |-> D(d, w)] : d \in P.d, w \in P.w}
        [] t = "customer" -> {[key |-> <<c, d, w>>, by |-> D(d, w)] :
                                c \in P.c, d \in P.d, w \in P.w}
        [] t = "order" -> {[key |-> <<d, w, o>>, by |-> D(d, w)] :
                             o \in ShOrders, d \in P.d, w \in P.w}
        [] t = "order_line" -> {[key |-> <<d, w, o, l>>, by |-> D(d, w)] :
                                  o \in ShOrders, l \in ShLines, d \in P.d, w \in P.w}

\* Sharded by district, warehouses and items are on every partition.
ShHere(p, t, by) ==
  \/ (shLoad.bench = "tpccd" /\ t \in {"warehouse", "item"})
  \/ ShPartitionFromKey(t, by) = p

\* A filled partition holds exactly the rows whose requests are routed to it:
\* no piece finds its row missing, and no row is held twice.
ShStoredWhereRouted ==
  \A p \in ShPars : ShDone(p) =>
    \A t \in ShTables \ {"new_order"} :
      {ShKeyOf(t, row) : row \in shRows[p][t]} =
        {a.key : a \in {x \in ShAsked(t) : ShHere(p, t, x.by)}}

\* The counter of a district is the first number no order has; the secondary
\* index names every customer's newest order; a new order is an order; and
\* every last name that requests draw finds a customer in every district.
ShIndexesComplete ==
  \A p \in ShPars : ShDone(p) /\ ShTpcc =>
    LET rows == shRows[p]
        orders == {ShKeyOf("order", row) : row \in rows["order"]}
    IN  /\ \A d \in rows["district"] :
             {o[3] : o \in {x \in orders : x[1] = d["d_id"] /\ x[2] = d["d_w_id"]}}
               = 0 .. d["d_next_o_id"] - 1
        /\ \A row \in rows["order"] : \A c \in row["o_c_id"] :
             LET k == <<row["o_d_id"], row["o_w_id"], c>>
             IN  k \in DOMAIN shSec[p] /\ shSec[p][k] >= row["o_id"]
        /\ {ShKeyOf("new_order", row) : row \in rows["new_order"]} \subseteq orders
        /\ Cardinality(rows["new_order"]) = ShRecs("new_order")
        /\ \A d \in rows["district"], name \in 0 .. ShLastNames - 1 :
             \E e \in shLast[p] : e[1] = name /\ e[2] = d["d_id"] /\ e[3] = d["d_w_id"]

\* A column that refers to another table only names rows that some partition
\* holds; the customer of an order lives in the order's district.
ShRefersToRows ==
  (\A p \in ShPars : ShDone(p)) =>
    \A p \in ShPars, t \in ShTables : \A row \in shRows[p][t] :
      \A c \in {x \in Range(ShColumns(t)) : x.ref # <<>> /\ ~x.pk} :
        \A v \in row[c.name] : \E q \in ShPars : \E r \in shRows[q][c.ref[1]] :
          /\ r[c.ref[2]] = v
          /\ t = "order" => r["c_d_id"] = row["o_d_id"] /\ r["c_w_id"] = row["o_w_id"]

\* No assertion of the population fails: every sweep fills a table, every
\* foreign key has values, and the numbers of records fit each other.
ShNoVerifyFails == \A p \in ShPars : shScan[p].at # "failed"

\* Population ends without a failed assertion, with the rows, references and
\* counters that the request generators rely on (ShardingPop, LoadTable).
ShPopulated == ShNoVerifyFails /\ ShStoredWhereRouted /\ ShIndexesComplete /\ ShRefersToRows

=====
