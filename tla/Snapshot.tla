----- MODULE Snapshot -----
(* The multi-version sorted map of memdb and the table over it (memdb/snapshot.h,
   SnapshotTable of memdb/table.h).  All snapshots of a map share one container; each
   sees the entries valid at its version. A group has at most one writer, and its
   members form a ring in version order.  Cursors are snapshots that also hold iterators
   into the shared container. An entry's place in the container is its key and, among
   equal keys, the order of insertion, which is the order of the row numbers.  An
   iterator is a place, or SnEnd. *)
EXTENDS Integers, FiniteSets, Sequences, SequencesExt

CONSTANTS
    SnKeys,  \* keys, a set of positive integers
    SnLoads,  \* the keys a populated table may start with, in order of insertion
    SnSnaps,  \* names of further maps: snapshots or copies of the table
    SnCursors,  \* names of cursors
    SnQueries,  \* the queries cursors are opened with: [kind, low, high]
    SnGcAt,  \* operations since the last snapshot that start a collection (16 in the code)
    SnMaxRows,  \* bound: rows ever inserted
    SnMaxOps  \* bound: operations in a behaviour

VARIABLES
    snMap,  \* per map object: its version and its group; version -1 when it does not exist
    snGrp,  \* per group: container, writer, operation counters and ring
    snCur,  \* per cursor: query, direction, iterators and what it returned
    snRows,  \* rows inserted so far
    snOps,  \* operations so far, for the bound
    snWant  \* history: what each map should show, as <<key, row>> pairs

snapshotVars == <<snMap, snGrp, snCur, snRows, snOps, snWant>>

SnTable == "table"
SnMaps == {SnTable} \cup SnSnaps \cup SnCursors
SnGroups == 1 .. Cardinality(SnMaps)
SnNobody == "nobody"

SnEnd == 1000
SnAt(e) == e.key * (SnMaxRows + 1) + e.row
SnPairOf(e) == <<e.key, e.row>>

(* versioned_value *)
SnValidAt(e, v) == e.created <= v /\ (e.removed = -1 \/ v < e.removed)

SnExists(h) == snMap[h].ver # -1
SnGroupOf(h) == snGrp[snMap[h].group]
SnWritable(h) == SnExists(h) /\ SnGroupOf(h).writer = h

(* What a map shows: the entries of its group's container valid at its version. *)
SnVisible(h) == {e \in SnGroupOf(h).data : SnValidAt(e, snMap[h].ver)}
SnShown(h) == {SnPairOf(e) : e \in SnVisible(h)}

(* The writer asks its left neighbour; a snapshot always has a reader, itself. *)
SnHasReadonlySnapshot(h) ==
    LET r == SnGroupOf(h).ring
        i == CHOOSE i \in DOMAIN r : r[i] = h
        prev == IF i = 1 THEN r[Len(r)] ELSE r[i - 1]
    IN  ~SnWritable(h) \/ prev # SnGroupOf(h).writer

SnFreshGroup(h) == [data |-> {}, writer |-> h, ins |-> 0, era |-> 0, ring |-> <<h>>]
SnNoGroup == [data |-> {}, writer |-> SnNobody, ins |-> 0, era |-> 0, ring |-> <<>>]

(* Ring and collection. *)

SnCollected_Writer(g, vers) ==
    LET high == CHOOSE v \in vers : \A w \in vers : v >= w
    IN  [g EXCEPT !.data = {e \in @ : e.created <= high /\ e.removed = -1}, !.ins = 0, !.era = 0]

(* gc_run: entries no member of the ring can see any more. *)
SnCollected(g, vers) ==
    LET low == CHOOSE v \in vers : \A w \in vers : v <= w
        high == CHOOSE v \in vers : \A w \in vers : v >= w
    IN  [g EXCEPT !.data = {e \in @ : e.created <= high /\ (e.removed = -1 \/ e.removed >= low)},
                  !.ins = 0, !.era = 0]

SnVersions(g, maps) == {maps[g.ring[i]].ver : i \in DOMAIN g.ring}

SnGcRun(g, maps) == SnCollected(g, SnVersions(g, maps))

(* destroy_me: leave the ring; a departing writer with enough operations since the last
   snapshot has the neighbour collect. *)
SnDestroyMe(h, st) ==
    LET i == st.maps[h].group
        g == st.grps[i]
        wasWriter == g.writer = h
        autoGc == wasWriter /\ g.ins + g.era >= SnGcAt
                  /\ g.ins + g.era >= Cardinality(g.data) \div 2
        left == [g EXCEPT !.ring = SelectSeq(@, LAMBDA x : x # h),
                          !.writer = IF wasWriter THEN SnNobody ELSE @]
    IN  [maps |-> [st.maps EXCEPT ![h] = [ver |-> -1, group |-> 0]],
         grps |-> [st.grps EXCEPT ![i] =
             CASE left.ring = <<>> -> SnNoGroup
               [] autoGc /\ left.ring # <<>> -> SnGcRun(left, st.maps)
               [] OTHER -> left]]

SnMakeMeSnapshotOf_Right(h, src, st) ==
    LET i == st.maps[src].group
        g == st.grps[i]
        at == CHOOSE j \in DOMAIN g.ring : g.ring[j] = src
    IN  [maps |-> [st.maps EXCEPT ![h] = [ver |-> st.maps[src].ver, group |-> i]],
         grps |-> [st.grps EXCEPT ![i].ring = InsertAt(@, at + 1, h)]]

(* make_me_snapshot_of: join to the left of the source, at its version; a snapshot of
   the writer restarts the operation counters. *)
SnMakeMeSnapshotOf(h, src, st) ==
    LET i == st.maps[src].group
        g == st.grps[i]
        at == CHOOSE j \in DOMAIN g.ring : g.ring[j] = src
        joined == [g EXCEPT !.ring = InsertAt(@, at, h)]
    IN  [maps |-> [st.maps EXCEPT ![h] = [ver |-> st.maps[src].ver, group |-> i]],
         grps |-> [st.grps EXCEPT ![i] =
                      IF g.writer = src THEN [joined EXCEPT !.ins = 0, !.era = 0] ELSE joined]]

(* A writer of its own, holding a copy of the pairs shown: one version for the whole range. *)
SnCopyEverything(h, pairs, st) ==
    LET i == CHOOSE i \in SnGroups : st.grps[i].ring = <<>>
    IN  [maps |-> [st.maps EXCEPT ![h] = [ver |-> 1, group |-> i]],
         grps |-> [st.grps EXCEPT ![i] = [SnFreshGroup(h) EXCEPT
                      !.data = {[key |-> p[1], row |-> p[2], created |-> 1, removed |-> -1] : p \in pairs},
                      !.ins = Cardinality(pairs)]]]

(* The copy constructor and operator=: a snapshot of a snapshot, a copy of a writer,
   read through a snapshot of its own that restarts the counters. *)
SnCopyOf(h, src, pairs, st) ==
    LET i == st.maps[src].group
    IN  IF st.grps[i].writer = src
        THEN SnCopyEverything(h, pairs, [st EXCEPT !.grps[i].ins = 0, !.grps[i].era = 0])
        ELSE SnMakeMeSnapshotOf(h, src, st)

(* Iterators and queries. *)
SnLeast(S) == CHOOSE x \in S : \A y \in S : x <= y
SnGreatest(S) == CHOOSE x \in S : \A y \in S : x >= y
SnFirst(data) == SnLeast({SnEnd} \cup {SnAt(e) : e \in data})
SnLowerBound(data, k) == SnFirst({e \in data : e.key >= k})
SnUpperBound(data, k) == SnFirst({e \in data : e.key > k})

SnBounds_Inclusive(data, q) ==
    CASE q.kind = "all" -> <<SnFirst(data), SnEnd>>
      [] q.kind = "eq" -> <<SnLowerBound(data, q.low), SnUpperBound(data, q.low)>>
      [] q.kind = "lt" -> <<SnFirst(data), SnUpperBound(data, q.low)>>
      [] q.kind = "gt" -> <<SnUpperBound(data, q.low), SnEnd>>
      [] q.kind = "in" -> <<SnUpperBound(data, q.low), SnLowerBound(data, q.high)>>

(* The pair of iterators of all, query, query_lt, query_gt and query_in. *)
SnBounds(data, q) ==
    CASE q.kind = "all" -> <<SnFirst(data), SnEnd>>
      [] q.kind = "eq" -> <<SnLowerBound(data, q.low), SnUpperBound(data, q.low)>>
      [] q.kind = "lt" -> <<SnFirst(data), SnLowerBound(data, q.low)>>
      [] q.kind = "gt" -> <<SnUpperBound(data, q.low), SnEnd>>
      [] q.kind = "in" -> <<SnUpperBound(data, q.low), SnLowerBound(data, q.high)>>

SnInQuery(q, k) ==
    CASE q.kind = "all" -> TRUE
      [] q.kind = "eq" -> k = q.low
      [] q.kind = "lt" -> k < q.low
      [] q.kind = "gt" -> k > q.low
      [] q.kind = "in" -> q.low < k /\ k < q.high

SnBetween(data, lo, hi) == {e \in data : lo <= SnAt(e) /\ SnAt(e) < hi}

(* What a cursor still has in front of it: forward from next_, or, in descending order,
   backward from the base of next_. *)
SnAhead(c) ==
    LET cu == snCur[c] IN
    {e \in SnVisible(c) : IF cu.desc THEN cu.lo <= SnAt(e) /\ SnAt(e) < cu.next
                        ELSE cu.next <= SnAt(e) /\ SnAt(e) < cu.hi}

SnNoCursor == [query |-> [kind |-> "none", low |-> 0, high |-> 0], desc |-> FALSE,
             lo |-> 0, hi |-> 0, next |-> 0, out |-> <<>>, done |-> FALSE, standing |-> TRUE]

(* Iterators of a cursor whose entry a collection has freed. *)
SnStanding(cu, data) == {cu.lo, cu.hi, cu.next} \subseteq {SnEnd} \cup {SnAt(e) : e \in data}

(* The cursors after the containers changed: dangling ones are noted. *)
SnRecheck(st) ==
    [c \in SnCursors |->
        IF st.maps[c].ver = -1 THEN SnNoCursor
        ELSE [snCur[c] EXCEPT !.standing = @ /\ SnStanding(snCur[c], st.grps[st.maps[c].group].data)]]

SnBecomes(st) == snMap' = st.maps /\ snGrp' = st.grps /\ snCur' = SnRecheck(st)
SnNow == [maps |-> snMap, grps |-> snGrp]

(* Operations. The table as it stands once populated, one insert per key. *)
SnInit ==
    \E keys \in SnLoads :
        /\ snMap = [h \in SnMaps |-> IF h = SnTable THEN [ver |-> Len(keys), group |-> 1]
                                    ELSE [ver |-> -1, group |-> 0]]
        /\ snGrp = [i \in SnGroups |->
              IF i # 1 THEN SnNoGroup
              ELSE [SnFreshGroup(SnTable) EXCEPT
                       !.data = {[key |-> keys[j], row |-> j, created |-> j, removed |-> -1] : j \in DOMAIN keys},
                       !.ins = Len(keys)]]
        /\ snCur = [c \in SnCursors |-> SnNoCursor]
        /\ snRows = Len(keys)
        /\ snOps = 0
        /\ snWant = [h \in SnMaps |-> IF h = SnTable THEN {<<keys[j], j>> : j \in DOMAIN keys} ELSE {}]

(* A write of map h: the next version, and the container it leaves. *)
SnWritten(h, data, ins, era) ==
    SnBecomes([maps |-> [snMap EXCEPT ![h].ver = @ + 1],
             grps |-> [snGrp EXCEPT ![snMap[h].group] =
                          [@ EXCEPT !.data = data, !.ins = @ + ins, !.era = @ + era]]])

SnStamped(data, gone, v) == {IF e \in gone THEN [e EXCEPT !.removed = v] ELSE e : e \in data}

(* insert: rows are made read-only first, so an entry never changes. *)
SnInsert(h, k) ==
    /\ SnWritable(h) /\ snRows < SnMaxRows
    /\ snRows' = snRows + 1
    /\ SnWritten(h, SnGroupOf(h).data \cup
               {[key |-> k, row |-> snRows + 1, created |-> snMap[h].ver + 1, removed |-> -1]}, 1, 0)
    /\ snWant' = [snWant EXCEPT ![h] = @ \cup {<<k, snRows + 1>>}]

SnErased_Always(h, S) == SnGroupOf(h).data \ S

(* The entries an erase takes out: stamped while somebody may still see them, freed
   otherwise.  Only visible entries are stamped; all are freed. *)
SnErased(h, S) ==
    LET v == snMap[h].ver
        gone == {e \in S : SnValidAt(e, v)}
    IN  IF SnHasReadonlySnapshot(h) THEN SnStamped(SnGroupOf(h).data, gone, v + 1)
        ELSE SnGroupOf(h).data \ S

SnStamps(h, S) == IF SnHasReadonlySnapshot(h) THEN Cardinality(S \cap SnVisible(h)) ELSE 0

(* SnapshotTable::remove(key) *)
SnRemove(h, k) ==
    LET S == {e \in SnGroupOf(h).data : e.key = k}
    IN  /\ SnWritable(h)
        /\ SnWritten(h, SnErased(h, S), 0, SnStamps(h, S))
        /\ snWant' = [snWant EXCEPT ![h] = {p \in @ : p[1] # k}]
        /\ UNCHANGED snRows

(* SnapshotTable::remove(row): the pointer converts to the flag first_match_only of
   erase(key, flag) before it converts to a value, so the first entry of the key goes:
   the first visible one while there are readers, the first one of the container
   otherwise. *)
SnRemoveRow(h, p) ==
    LET same == {e \in SnGroupOf(h).data : e.key = p[1]}
        pool == IF SnHasReadonlySnapshot(h) THEN same \cap SnVisible(h) ELSE same
        hit == {CHOOSE e \in pool : \A f \in pool : SnAt(e) <= SnAt(f)}
    IN  /\ SnWritable(h)
        /\ p \in SnShown(h)
        /\ SnWritten(h, SnErased(h, hit), 0, SnStamps(h, hit))
        /\ snWant' = [snWant EXCEPT ![h] = @ \ {SnPairOf(e) : e \in hit}]
        /\ UNCHANGED snRows

(* SnapshotTable::remove(cursor): everything visible between the cursor's iterators now,
   later insertions included.  It does not count. *)
SnRemoveRange(h, c) ==
    LET S == SnBetween(SnGroupOf(h).data, snCur[c].lo, snCur[c].hi)
    IN  /\ SnWritable(h)
        /\ SnExists(c) /\ snMap[c].group = snMap[h].group /\ snCur[c].standing
        /\ SnWritten(h, SnErased(h, S), 0, 0)
        /\ snWant' = [snWant EXCEPT ![h] =
              {p \in @ : p \notin snWant[c] \/ ~SnInQuery(snCur[c].query, p[1])} \ {SnPairOf(e) : e \in S}]
        /\ UNCHANGED snRows

(* SnapshotTable::snapshot *)
SnSnapshot(h, src) ==
    /\ SnExists(src) /\ ~SnExists(h)
    /\ SnBecomes(SnMakeMeSnapshotOf(h, src, SnNow))
    /\ snWant' = [snWant EXCEPT ![h] = snWant[src]]
    /\ UNCHANGED snRows

(* operator= and the copy constructor; the target leaves its group first. *)
SnCopy(h, src) ==
    /\ SnExists(src) /\ h # src
    /\ LET st == IF SnExists(h) THEN SnDestroyMe(h, SnNow) ELSE SnNow
       IN  SnBecomes(SnCopyOf(h, src, SnShown(src), st))
    /\ snWant' = [snWant EXCEPT ![h] = snWant[src]]
    /\ UNCHANGED snRows

(* SnapshotTable::clear: assign an empty map; readers keep the old group. *)
SnClear(h) ==
    /\ SnWritable(h)
    /\ SnBecomes(SnCopyEverything(h, {}, SnDestroyMe(h, SnNow)))
    /\ snWant' = [snWant EXCEPT ![h] = {}]
    /\ UNCHANGED snRows

(* query, query_lt, query_gt, query_in and all, either way round. *)
SnQuery(c, src, q, desc) ==
    /\ SnExists(src) /\ ~SnExists(c)
    /\ LET st == SnMakeMeSnapshotOf(c, src, SnNow)
           b == SnBounds(SnGroupOf(src).data, q)
       IN  /\ snMap' = st.maps /\ snGrp' = st.grps
           /\ snCur' = [snCur EXCEPT ![c] = [SnNoCursor EXCEPT
                  !.query = q, !.desc = desc, !.lo = b[1], !.hi = b[2],
                  !.next = IF desc THEN b[2] ELSE b[1]]]
    /\ snWant' = [snWant EXCEPT ![c] = snWant[src]]
    /\ UNCHANGED snRows

(* has_next and next: on to the next entry valid at the snapshot's version. *)
SnNext(c) ==
    /\ SnExists(c) /\ snCur[c].standing /\ ~snCur[c].done
    /\ IF SnAhead(c) = {} THEN snCur' = [snCur EXCEPT ![c].done = TRUE]
       ELSE LET at == IF snCur[c].desc THEN SnGreatest({SnAt(e) : e \in SnAhead(c)})
                      ELSE SnLeast({SnAt(e) : e \in SnAhead(c)})
                hit == CHOOSE e \in SnAhead(c) : SnAt(e) = at
                after == IF snCur[c].desc THEN at ELSE SnFirst({e \in SnGroupOf(c).data : SnAt(e) > at})
            IN  snCur' = [snCur EXCEPT ![c].out = Append(@, SnPairOf(hit)), ![c].next = after]
    /\ UNCHANGED <<snMap, snGrp, snRows, snWant>>

(* A map, a snapshot or a cursor goes out of scope. *)
SnDestroy(h) ==
    /\ SnExists(h)
    /\ SnBecomes(SnDestroyMe(h, SnNow))
    /\ snWant' = [snWant EXCEPT ![h] = {}]
    /\ UNCHANGED snRows

(* gc_run, called explicitly *)
SnGc(h) ==
    /\ SnExists(h)
    /\ SnBecomes([SnNow EXCEPT !.grps[snMap[h].group] = SnGcRun(@, snMap)])
    /\ UNCHANGED <<snRows, snWant>>

SnNextStep ==
    /\ snOps < SnMaxOps
    /\ snOps' = snOps + 1
    /\ \/ \E h \in SnMaps \ SnCursors, k \in SnKeys : SnInsert(h, k) \/ SnRemove(h, k)
       \/ \E h \in SnMaps \ SnCursors : \E p \in snWant[h] : SnRemoveRow(h, p)
       \/ \E h \in SnMaps \ SnCursors, c \in SnCursors : SnRemoveRange(h, c)
       \/ \E h \in SnSnaps, src \in SnMaps \ SnCursors : SnSnapshot(h, src)
       \/ \E h \in SnSnaps, src \in SnMaps \ SnCursors : SnCopy(h, src)
       \/ \E c \in SnCursors, src \in SnMaps \ SnCursors, q \in SnQueries, d \in BOOLEAN : SnQuery(c, src, q, d)
       \/ \E c \in SnCursors : SnNext(c)
       \/ \E h \in SnMaps : SnClear(h) \/ SnDestroy(h) \/ SnGc(h)

SnSpec == SnInit /\ [][SnNextStep]_snapshotVars

(* Properties. *)

(* Every snapshot goes on showing what its source showed when it was taken, and the
   writer shows what its own operations left, whatever others insert, erase, clear,
   destroy or collect in the shared container. *)
SnIsolated == \A h \in SnMaps : SnExists(h) => SnShown(h) = snWant[h]

(* What a cursor should return: the pairs of its snapshot in the query's range, in key
   order. *)
SnExpected(c) ==
    LET S == {p \in snWant[c] : SnInQuery(snCur[c].query, p[1])}
        asc == SetToSortSeq(S, LAMBDA p, q : p[1] < q[1] \/ (p[1] = q[1] /\ p[2] < q[2]))
    IN  IF snCur[c].desc THEN Reverse(asc) ELSE asc

(* A cursor returns exactly the rows its snapshot has in the range of the query, in
   order, while the writer goes on inserting into and erasing from that range
   (snapshot_range over shared iterators). *)
SnCursorShows ==
    \A c \in SnCursors :
        SnExists(c) /\ snCur[c].standing =>
            /\ IsPrefix(snCur[c].out, SnExpected(c))
            /\ snCur[c].done => snCur[c].out = SnExpected(c)
            /\ Cardinality(SnBetween(SnVisible(c), snCur[c].lo, snCur[c].hi)) = Len(SnExpected(c))

(* debug_group_sanity_check, of one group *)
SnGroupSane(i) ==
    LET r == snGrp[i].ring
        succ(j) == IF j = Len(r) THEN 1 ELSE j + 1
        ver(j) == snMap[r[j]].ver
    IN  /\ Cardinality({j \in DOMAIN r : ver(j) > ver(succ(j))}) < 2
        /\ snGrp[i].writer # SnNobody =>
              \E j \in DOMAIN r : r[j] = snGrp[i].writer /\ \A k \in DOMAIN r : ver(j) >= ver(k)

(* Around a ring versions fall at most once, and a writer is in its ring and has the
   highest version there: what the code verifies at every join and departure holds in
   every state. *)
SnRingOrdered == \A i \in SnGroups : SnGroupSane(i)

(* remove(row) takes that row out of the table (table.h:539-545).  The code removes the
   first row of the same key instead. *)
SnRemovesTheRow ==
    [][\A h \in SnMaps \ SnCursors : \A p \in snWant[h] :
          SnRemoveRow(h, p) => p \notin SnShown(h)']_snapshotVars

(* No cursor is left with an iterator into an entry a collection freed. *)
SnNoneDangling == \A c \in SnCursors : snCur[c].standing

(* A snapshot and the cursors over it are isolated from the writer, and the ring that
   the collector relies on stays in order (SnapshotTable). *)
SnReads == SnIsolated /\ SnCursorShows /\ SnRingOrdered

=====
