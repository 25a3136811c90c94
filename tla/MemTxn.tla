----- MODULE MemTxn -----
(* Transactions over memdb tables: Txn2PL stages its inserts, updates and removes until
   commit, TxnNested stages on top of another transaction, TxnUnsafe works on the table
   at once (memdb/txn*.cc, memdb/table.cc, memdb/row.cc).  The table is sorted on a key
   and, as an IndexedTable, keeps a secondary index on a second column.  A multimap's
   key is a set of pointers into the row's own memory, so a row is taken out of the
   table around an update of an indexed column. *)
EXTENDS Integers, FiniteSets, Sequences, SequencesExt

CONSTANTS
    MtKeys, MtVals,  \* values of the key column and of the indexed column
    MtBases,  \* kinds of base transaction: "2pl", "unsafe"
    MtLoads,  \* populations: sequences of <<key, val>>
    MtAddrs,  \* placements of the rows in memory: sequences of addresses, by row number
    MtQueries,  \* queries: [kind, low, high]
    MtMaxRows,  \* bound: rows ever created
    MtMaxOps  \* bound: operations in a behaviour

VARIABLES
    mtMem,  \* what is in memory: rows, the table and its index
    mtBase,  \* kind of the base transaction
    mtAddr,  \* where rows are
    mtTxn,  \* the staging areas: 1 is the base transaction, 2 the one nested in it
    mtLevel,  \* the transaction in use: 1 or 2
    mtOps,  \* operations so far, for the bound
    mtRef  \* history: the table each level should see, row -> <<key, val>>; 0 is what is committed

memTxnVars == <<mtMem, mtBase, mtAddr, mtTxn, mtLevel, mtOps, mtRef>>

MtNoRow == [key |-> 0, val |-> 0, inTable |-> FALSE, indexed |-> FALSE, freed |-> FALSE]
MtFresh == [inserts |-> {}, updates |-> {}, removes |-> {}, outcome |-> "none"]
MtRows(mem) == DOMAIN mem.rows

(* The table.  table: <<key, row>> as the map orders them; index: the index rows,
   <<value, base row>>. *)

(* SortedTable::insert *)
MtSortedInsert(mem, r) ==
    [mem EXCEPT !.table = @ \cup {<<mem.rows[r].key, r>>}, !.rows[r].inTable = TRUE]

(* make_index_row, and its insertion into the index table *)
MtMakeIndexRow(mem, r) == [mem EXCEPT !.index = @ \cup {<<mem.rows[r].val, r>>}]

(* IndexedTable::insert: index rows are made once, when the row has no master index yet. *)
MtTableInsert(mem, r) ==
    IF mem.rows[r].indexed THEN MtSortedInsert(mem, r)
    ELSE MtSortedInsert([MtMakeIndexRow(mem, r) EXCEPT !.rows[r].indexed = TRUE], r)

(* destroy_secondary_indices *)
MtDropIndices(mem, r) == [mem EXCEPT !.index = {e \in @ : e[2] # r}]

(* SortedTable::remove: the map entry of exactly that row *)
MtSortedRemove(mem, r) == [mem EXCEPT !.table = {e \in @ : e[2] # r}, !.rows[r].inTable = FALSE]

(* IndexedTable::remove(row, do_free): freeing the row takes its index rows along, not
   freeing it leaves them. *)
MtTableRemove(mem, r, free) ==
    LET out == MtSortedRemove(mem, r)
    IN  IF ~free \/ <<mem.rows[r].key, r>> \notin mem.table THEN out
        ELSE [MtDropIndices(out, r) EXCEPT !.rows[r].freed = TRUE]

MtNotifyAfter_Never(mem, r, col) == mem

(* notify_before_update and notify_after_update, for the indexed column *)
MtNotifyBefore(mem, r, col) ==
    IF col # "val" THEN mem ELSE [mem EXCEPT !.index = @ \ {<<mem.rows[r].val, r>>}]
MtNotifyAfter(mem, r, col) ==
    IF col # "val" THEN mem ELSE MtMakeIndexRow(mem, r)

MtSetColumn(mem, r, col, v) ==
    IF col = "key" THEN [mem EXCEPT !.rows[r].key = v] ELSE [mem EXCEPT !.rows[r].val = v]

(* Row::update: both columns are indexed, so a row of a table leaves it and comes back. *)
MtRowUpdate(mem, r, col, v) ==
    CASE mem.rows[r][col] = v -> mem
      [] ~mem.rows[r].inTable -> MtSetColumn(mem, r, col, v)
      [] OTHER ->
            LET gone == MtTableRemove(MtNotifyBefore(mem, r, col), r, FALSE)
            IN  MtNotifyAfter(MtTableInsert(MtSetColumn(gone, r, col, v), r), r, col)

(* Reading. *)
MtGetColumn(r, col) == mtMem.rows[r][col]
MtStaged(t, r, col) == {u \in t.updates : u.row = r /\ u.col = col}

(* read_column of Txn2PL: rows outside a table are its own *)
MtBaseRead(r, col) ==
    LET mine == MtStaged(mtTxn[1], r, col)
    IN  IF mtBase = "2pl" /\ mtMem.rows[r].inTable /\ mine # {}
        THEN (CHOOSE u \in mine : TRUE).v ELSE MtGetColumn(r, col)

MtNestedRead_Table(r, col) ==
    LET mine == MtStaged(mtTxn[2], r, col)
    IN  CASE ~mtMem.rows[r].inTable -> MtGetColumn(r, col)
          [] mtMem.rows[r].inTable /\ mine # {} -> (CHOOSE u \in mine : TRUE).v
          [] OTHER -> MtBaseRead(r, col)

(* read_column of TxnNested: a row outside a table may be the base's, so its own inserts
   are looked up. *)
MtNestedRead(r, col) ==
    LET mine == MtStaged(mtTxn[2], r, col)
    IN  CASE r \in mtTxn[2].inserts -> MtGetColumn(r, col)
          [] r \notin mtTxn[2].inserts /\ mine # {} -> (CHOOSE u \in mine : TRUE).v
          [] OTHER -> MtBaseRead(r, col)

MtRead(r, col) == IF mtLevel = 2 THEN MtNestedRead(r, col) ELSE MtBaseRead(r, col)

(* The keys of a query's range: query, query_lt, query_gt, query_in, all. *)
MtInRange(q, k) ==
    CASE q.kind = "all" -> TRUE
      [] q.kind = "eq" -> k = q.low
      [] q.kind = "lt" -> k < q.low
      [] q.kind = "gt" -> k > q.low
      [] q.kind = "in" -> q.low < k /\ k < q.high

(* SortedMultiKey::compare, on <<key, row>>; equal keys stay in insertion order *)
MtKeyBefore(a, b) == a[1] < b[1] \/ (a[1] = b[1] /\ a[2] < b[2])
MtByKey(S) == SetToSortSeq(S, MtKeyBefore)

(* A cursor over the table: rows of the range in map order. *)
MtTableCursor(q, desc) ==
    LET asc == MtByKey({e \in mtMem.table : MtInRange(q, e[1])})
        rows == [i \in DOMAIN asc |-> asc[i][2]]
    IN  IF desc THEN Reverse(rows) ELSE rows

(* The staged inserts of the range, in key order. *)
MtStagedCursor(t, q, desc) ==
    LET asc == MtByKey({<<mtMem.rows[r].key, r>> : r \in {s \in t.inserts : MtInRange(q, mtMem.rows[s].key)}})
        rows == [i \in DOMAIN asc |-> asc[i][2]]
    IN  IF desc THEN Reverse(rows) ELSE rows

(* MergedCursor: rows removed are passed over; of the two candidates the one at the
   lower address is next. *)
RECURSIVE MtMerge(_, _)
MtMerge(rows, staged) ==
    CASE rows = <<>> -> staged
      [] rows # <<>> /\ staged = <<>> -> rows
      [] OTHER -> IF mtAddr[Head(rows)] < mtAddr[Head(staged)]
                  THEN <<Head(rows)>> \o MtMerge(Tail(rows), staged)
                  ELSE <<Head(staged)>> \o MtMerge(rows, Tail(staged))

MtMergedCursor_Shows(rows, t, q, desc) == MtMerge(rows, MtStagedCursor(t, q, desc))

MtMergedCursor(rows, t, q, desc) ==
    MtMerge(SelectSeq(rows, LAMBDA r : r \notin t.removes), MtStagedCursor(t, q, desc))

(* The queries of TxnUnsafe, of Txn2PL and of TxnNested. *)
MtUnsafeQuery(q, desc) == MtTableCursor(q, desc)
MtBaseQuery(q, desc) ==
    IF mtBase = "unsafe" THEN MtUnsafeQuery(q, desc)
    ELSE MtMergedCursor(MtTableCursor(q, desc), mtTxn[1], q, desc)
MtNestedQuery(q, desc) == MtMergedCursor(MtBaseQuery(q, desc), mtTxn[2], q, desc)
MtQuery(q, desc) == IF mtLevel = 2 THEN MtNestedQuery(q, desc) ELSE MtBaseQuery(q, desc)

(* Writing: the operations of one level, on memory m and staging areas t. *)
MtState == [mem |-> mtMem, txn |-> mtTxn]

MtStageUpdate(st, l, r, col, v) ==
    [st EXCEPT !.txn[l].updates =
        {u \in @ : ~(u.row = r /\ u.col = col)} \cup {[row |-> r, col |-> col, v |-> v]}]

MtUpdateRow(st, r, col, v) == [st EXCEPT !.mem = MtRowUpdate(@, r, col, v)]

(* write_column *)
MtWriteColumn(st, l, r, col, v) ==
    CASE l = 1 /\ (mtBase = "unsafe" \/ ~st.mem.rows[r].inTable) -> MtUpdateRow(st, r, col, v)
      [] l = 2 /\ r \in st.txn[2].inserts -> MtUpdateRow(st, r, col, v)
      [] OTHER -> MtStageUpdate(st, l, r, col, v)

(* insert_row *)
MtInsertRow(st, l, r) ==
    IF l = 1 /\ mtBase = "unsafe" THEN [st EXCEPT !.mem = MtTableInsert(@, r)]
    ELSE [st EXCEPT !.txn[l].inserts = @ \cup {r}, !.txn[l].removes = @ \ {r}]

MtRemoveRow_Stays(st, l, r) ==
    CASE l = 1 /\ mtBase = "unsafe" -> [st EXCEPT !.mem = MtTableRemove(@, r, TRUE)]
      [] r \in st.txn[l].inserts -> [st EXCEPT !.mem.rows[r].freed = TRUE]
      [] OTHER -> [st EXCEPT !.txn[l].removes = @ \cup {r}]

(* remove_row: a row staged here is released, another one is noted *)
MtRemoveRow(st, l, r) ==
    IF l = 1 /\ mtBase = "unsafe" THEN [st EXCEPT !.mem = MtTableRemove(@, r, TRUE)]
    ELSE LET own == r \in st.txn[l].inserts
             un == [st EXCEPT !.txn[l].updates = {u \in @ : u.row # r}]
         IN  IF own THEN [un EXCEPT !.txn[l].inserts = @ \ {r}, !.mem.rows[r].freed = TRUE]
             ELSE [un EXCEPT !.txn[l].removes = @ \cup {r}]

(* Every element of a set, in a fixed order: op(state, element). *)
MtAll(op(_, _), S, st) == FoldLeft(op, st, SetToSeq(S))

(* Txn2PL::commit: inserts, then updates, then removes; removed rows are freed once they
   are out of every table. *)
MtBaseCommit(st) ==
    LET t == st.txn[1]
        ins(s, r) == [s EXCEPT !.mem = MtTableInsert(@, r)]
        upd(s, u) == [s EXCEPT !.mem = MtRowUpdate(@, u.row, u.col, u.v)]
        rem(s, r) == [s EXCEPT !.mem = [MtTableRemove(@, r, FALSE) EXCEPT !.rows[r].freed = TRUE]]
        done == MtAll(rem, t.removes, MtAll(upd, t.updates, MtAll(ins, t.inserts, st)))
    IN  [done EXCEPT !.txn[1] = [MtFresh EXCEPT !.outcome = "commit"]]

MtNestedCommit_Updates(st) ==
    LET t == st.txn[2]
        upd(s, u) == MtUpdateRow(s, u.row, u.col, u.v)
        ins(s, r) == MtInsertRow(s, 1, r)
        rem(s, r) == MtRemoveRow(s, 1, r)
        done == MtAll(rem, t.removes, MtAll(upd, t.updates, MtAll(ins, t.inserts, st)))
    IN  [done EXCEPT !.txn[2] = [MtFresh EXCEPT !.outcome = "commit"]]

(* TxnNested::commit: the same operations, of the base transaction *)
MtNestedCommit(st) ==
    LET t == st.txn[2]
        ins(s, r) == MtInsertRow(s, 1, r)
        upd(s, u) == MtWriteColumn(s, 1, u.row, u.col, u.v)
        rem(s, r) == MtRemoveRow(s, 1, r)
        done == MtAll(rem, t.removes, MtAll(upd, t.updates, MtAll(ins, t.inserts, st)))
    IN  [done EXCEPT !.txn[2] = [MtFresh EXCEPT !.outcome = "commit"]]

(* Behaviours. *)
MtPopulated(keys) ==
    LET n == Len(keys)
        rows == [r \in 1 .. MtMaxRows |->
                    IF r > n THEN MtNoRow ELSE [MtNoRow EXCEPT !.key = keys[r][1], !.val = keys[r][2]]]
        add(mem, r) == MtTableInsert(mem, r)
    IN  FoldLeft(add, [rows |-> rows, table |-> {}, index |-> {}], [i \in 1 .. n |-> i])

MtInit ==
    /\ mtBase \in MtBases /\ mtAddr \in MtAddrs
    /\ \E keys \in MtLoads :
          /\ mtMem = MtPopulated(keys)
          /\ mtRef = [l \in 0 .. 2 |-> [r \in DOMAIN keys |-> keys[r]]]
    /\ mtTxn = [l \in 1 .. 2 |-> MtFresh]
    /\ mtLevel = 1
    /\ mtOps = 0

(* Row::create gives the next row. *)
MtUnused == {r \in MtRows(mtMem) : mtMem.rows[r] = MtNoRow}

MtBecomes(st) == mtMem' = st.mem /\ mtTxn' = st.txn
MtRefers(f) == mtRef' = [mtRef EXCEPT ![mtLevel] = f,
                                      ![0] = IF mtLevel = 1 /\ mtBase = "unsafe" THEN f ELSE @]
MtSees(r) == r \in DOMAIN mtRef[mtLevel]
MtOpen == mtTxn[mtLevel].outcome = "none"

MtInsert(k, v) ==
    /\ MtOpen /\ MtUnused # {}
    /\ LET r == CHOOSE r \in MtUnused : \A s \in MtUnused : r <= s
           made == [MtState EXCEPT !.mem.rows[r].key = k, !.mem.rows[r].val = v]
       IN  /\ MtBecomes(MtInsertRow(made, mtLevel, r))
           /\ MtRefers([s \in DOMAIN mtRef[mtLevel] \cup {r} |->
                            IF s = r THEN <<k, v>> ELSE mtRef[mtLevel][s]])
    /\ UNCHANGED mtLevel

(* Key columns are written by TxnUnsafe only: a staged key is not searched for, and the
   key of a staged row orders the staging area. *)
MtWrite(r, col, v) ==
    /\ MtOpen /\ MtSees(r)
    /\ col = "key" => mtLevel = 1 /\ mtBase = "unsafe"
    /\ MtBecomes(MtWriteColumn(MtState, mtLevel, r, col, v))
    /\ MtRefers([mtRef[mtLevel] EXCEPT ![r] = IF col = "key" THEN <<v, @[2]>> ELSE <<@[1], v>>])
    /\ UNCHANGED mtLevel

MtRemove(r) ==
    /\ MtOpen /\ MtSees(r)
    /\ MtBecomes(MtRemoveRow(MtState, mtLevel, r))
    /\ MtRefers([s \in DOMAIN mtRef[mtLevel] \ {r} |-> mtRef[mtLevel][s]])
    /\ UNCHANGED mtLevel

(* TxnMgr::start_nested *)
MtNest ==
    /\ mtLevel = 1 /\ MtOpen /\ mtTxn[2].outcome = "none"
    /\ mtLevel' = 2
    /\ mtRef' = [mtRef EXCEPT ![2] = mtRef[1]]
    /\ UNCHANGED <<mtMem, mtTxn>>

MtCommitNested ==
    /\ mtLevel = 2
    /\ MtBecomes(MtNestedCommit(MtState))
    /\ mtRef' = [mtRef EXCEPT ![1] = mtRef[2], ![0] = IF mtBase = "unsafe" THEN mtRef[2] ELSE @]
    /\ mtLevel' = 1

MtAbortNested ==
    /\ mtLevel = 2
    /\ mtTxn' = [mtTxn EXCEPT ![2].outcome = "abort"]
    /\ mtLevel' = 1
    /\ UNCHANGED <<mtMem, mtRef>>

MtCommit ==
    /\ mtLevel = 1 /\ MtOpen /\ mtBase = "2pl"
    /\ MtBecomes(MtBaseCommit(MtState))
    /\ mtRef' = [mtRef EXCEPT ![0] = mtRef[1]]
    /\ UNCHANGED mtLevel

(* Txn2PL::abort: the staging areas are cleared *)
MtAbort ==
    /\ mtLevel = 1 /\ MtOpen /\ mtBase = "2pl"
    /\ mtTxn' = [mtTxn EXCEPT ![1] = [MtFresh EXCEPT !.outcome = "abort"]]
    /\ mtRef' = [mtRef EXCEPT ![1] = mtRef[0]]
    /\ UNCHANGED <<mtMem, mtLevel>>

MtNext ==
    /\ mtOps < MtMaxOps
    /\ mtOps' = mtOps + 1
    /\ UNCHANGED <<mtBase, mtAddr>>
    /\ \/ \E k \in MtKeys, v \in MtVals : MtInsert(k, v)
       \/ \E r \in MtRows(mtMem) : \/ \E k \in MtKeys : MtWrite(r, "key", k)
                                   \/ \E v \in MtVals : MtWrite(r, "val", v)
                                   \/ MtRemove(r)
       \/ MtNest \/ MtCommitNested \/ MtAbortNested \/ MtCommit \/ MtAbort

(* Properties. *)

(* A transaction sees the table as its own operations, and those of the transaction it
   is nested in, left it: each query finds the rows of its range and each column reads
   as last written. *)
MtReadsOwnWrites ==
    MtOpen =>
        /\ \A q \in MtQueries, d \in BOOLEAN :
              ToSet(MtQuery(q, d)) = {r \in DOMAIN mtRef[mtLevel] : MtInRange(q, mtRef[mtLevel][r][1])}
        /\ \A r \in DOMAIN mtRef[mtLevel] : <<MtRead(r, "key"), MtRead(r, "val")>> = mtRef[mtLevel][r]

(* The table holds what was committed and nothing of what is staged or was aborted:
   commit makes all of a transaction's operations visible in the table, with the rows at
   their current keys. *)
MtAllOrNothing ==
    /\ mtMem.table = {<<mtRef[0][r][1], r>> : r \in DOMAIN mtRef[0]}
    /\ \A r \in DOMAIN mtRef[0] : mtMem.rows[r].val = mtRef[0][r][2] /\ mtMem.rows[r].inTable

(* Every row of the table is in the secondary index once, under the value it has now,
   whichever way it was inserted or updated. *)
MtIndexFollows ==
    \A r \in DOMAIN mtRef[0] : {e \in mtMem.index : e[2] = r} = {<<mtMem.rows[r].val, r>>}

(* A freed row is in no table and in no staging area that will be used. *)
MtFreedIsGone ==
    \A r \in MtRows(mtMem) : mtMem.rows[r].freed =>
        /\ \A e \in mtMem.table : e[2] # r
        /\ \A l \in 1 .. 2 : mtTxn[l].outcome = "none" =>
              r \notin mtTxn[l].inserts \cup mtTxn[l].removes \cup {u.row : u \in mtTxn[l].updates}

(* The secondary index names no freed row.  Txn2PL::commit takes removed rows out of the
   table without freeing them, which leaves index rows. *)
MtNoStaleIndex == \A e \in mtMem.index : ~mtMem.rows[e[2]].freed

(* Ordered queries return rows in key order (table.h: ORD_ASC, ORD_DESC). The merge of
   staged and stored rows compares addresses instead. *)
MtQueryOrdered ==
    MtOpen => \A q \in MtQueries :
        LET rows == MtQuery(q, FALSE)
        IN  \A i, j \in DOMAIN rows : i < j => mtRef[mtLevel][rows[i]][1] <= mtRef[mtLevel][rows[j]][1]

(* Transactions over a table are atomic, read their own writes, keep the secondary index
   in step and never use a freed row (Txn2PL, TxnNested). *)
MtTransactions == MtAllOrNothing /\ MtReadsOwnWrites /\ MtIndexFollows /\ MtFreedIsGone

=====
