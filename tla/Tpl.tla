----- MODULE Tpl -----
(* Two-phase locking at one server: the locks and lock groups of rrr/misc/alock, the
   executor of deptran/tpl and the batch of pieces that ClassicSched::OnDispatch gives
   it.  A lock calls back the groups it grants, refuses or wounds from inside lock and
   abort; a group that is refused aborts its other locks from inside the callback, and
   one that has its locks runs its piece and asks for the locks of the next. The
   operators below take the state of the server, s, through the same calls in the same
   order; s.calls is the stack of the thread. Rows create wait-die or wound-wait locks
   only (FineLockedRow::init_lock ends the process for TimeoutALock), and no piece sets
   row_lock_, so there is no group of row locks. *)
EXTENDS Integers, Sequences, SequencesExt, FiniteSets, FiniteSetsExt

CONSTANTS
  TpLocks,     \* columns, in the order of the addresses of their locks
  TpPieceOf,   \* piece -> [batch, acc]; acc: its accesses, <<column, "R" or "W">>
  TpBatchOf,   \* batch -> [txn, pieces, after]; after: batches acked before
  TpPriority,  \* transaction -> swap_bits(timestamp_), lower is older
  TpKinds      \* lock classes: "wait-die", "wound-wait"

VARIABLES
  tp_kind,  \* type_2pl_, set once
  tp,       \* the server, see TpInit
  tp_log    \* history: the committed transactions, in order

tplVars == <<tp_kind, tp, tp_log>>

TpPieces == DOMAIN TpPieceOf
TpBatches == DOMAIN TpBatchOf
TpTxns == {TpBatchOf[b].txn : b \in TpBatches}
TpTxnOf(p) == TpBatchOf[TpPieceOf[p].batch].txn
TpBatchesOf(t) == {b \in TpBatches : TpBatchOf[b].txn = t}
TpPrio(p) == TpPriority[TpTxnOf(p)]

ASSUME TpAssumption ==
  /\ TpLocks \subseteq Nat
  /\ TpKinds \subseteq {"wait-die", "wound-wait"}
  /\ \A p \in TpPieces : \A i \in DOMAIN TpPieceOf[p].acc : TpPieceOf[p].acc[i][1] \in TpLocks
  /\ \A b \in TpBatches : ToSet(TpBatchOf[b].pieces) = {p \in TpPieces : TpPieceOf[p].batch = b}

(* The accesses of a piece.  locking_ collects one lock for each; the map of the group
   keeps the type that was added last. *)
TpTouches(p, type) == {x \in TpLocks : \E i \in DOMAIN TpPieceOf[p].acc : TpPieceOf[p].acc[i] = <<x, type>>}
TpToLock(p) ==
  LET acc == TpPieceOf[p].acc
  IN  [x \in TpTouches(p, "R") \cup TpTouches(p, "W") |-> acc[Max({i \in DOMAIN acc : acc[i][1] = x})][2]]

(* lk: an ALock; n: n_rlock_, nw: n_w_in_queue_ (wait-die only), q: requests_ pc: a
   PieceStatus with its group and the DragonBall of the group ex: a TplExecutor;  bt: a
   batch: pieces started, *res, answered or not db: the transaction that wrote a column
   last;  read: what a transaction read of it;  bad: a verify failed;  dead: the one of
   TpRegranted did *)
TpInit ==
  /\ tp_kind \in TpKinds
  /\ tp = [lk   |-> [x \in TpLocks |-> [status |-> "FREE", n |-> 0, nw |-> 0, q |-> <<>>]],
           pc   |-> [p \in TpPieces |-> [status |-> "INIT", locked |-> {}, ready |-> 0,
                                         made |-> FALSE, finish |-> FALSE, rw_succ |-> FALSE]],
           ex   |-> [t \in TpTxns |-> [prepared |-> FALSE, wounded |-> FALSE, state |-> "run"]],
           bt   |-> [b \in TpBatches |-> [state |-> "none", i |-> 0, res |-> "ok"]],
           db   |-> [x \in TpLocks |-> 0],
           read |-> [t \in TpTxns |-> [x \in {} |-> 0]],
           calls |-> <<>>,
           bad  |-> FALSE,
           dead |-> FALSE]
  /\ tp_log = <<>>

TpVerify(s, cond) == [s EXCEPT !.bad = @ \/ (~s.dead /\ ~cond)]
TpIndex(q, p) == CHOOSE i \in DOMAIN q : q[i].p = p
TpIds(q) == [i \in DOMAIN q |-> q[i].p]
TpAscending(S) == SetToSortSeq(S, LAMBDA a, b : a < b)

(* A call and what is left to do after it are kept on a stack: <<function, lock, piece,
   index>>. *)
TpCalls(s, cs) == [s EXCEPT !.calls = cs \o @]
TpCallEach(op, xs, ps) == [i \in DOMAIN xs |-> <<op, xs[i], ps[i], 0>>]
TpSame(y, n) == [i \in 1..n |-> y]

-----
(* Granting.  All the requests are marked before the first callback runs. *)

TpGrant(q, S) == [i \in DOMAIN q |-> IF q[i].p \in S THEN [q[i] EXCEPT !.status = "LOCK"] ELSE q[i]]
TpGrantable(q, S, type) == \A i \in DOMAIN q : q[i].p \in S => q[i].type = type /\ q[i].status = "WAIT"

TpWriteAcquire(s, x, p) ==
  TpCalls(TpVerify([s EXCEPT !.lk[x].status = "WLOCKED", !.lk[x].q = TpGrant(@, {p})],
                   TpGrantable(s.lk[x].q, {p}, "W")), << <<"yes", x, p, 0>> >>)
TpReadAcquire(s, x, ps) ==
  IF ps = <<>> THEN s
  ELSE TpCalls(TpVerify([s EXCEPT !.lk[x].status = IF s.lk[x].n = 0 THEN "RLOCKED" ELSE @,
                                  !.lk[x].n = @ + Len(ps), !.lk[x].q = TpGrant(@, ToSet(ps))],
                        TpGrantable(s.lk[x].q, ToSet(ps), "R")), TpCallEach("yes", TpSame(x, Len(ps)), ps))

(* The readers of q from index i to the next writer. *)
TpReadersFrom(q, i) ==
  LET ws == {j \in i..Len(q) : q[j].type = "W"}
  IN  TpIds(SubSeq(q, i, IF ws = {} THEN Len(q) ELSE Min(ws) - 1))

-----
(* abort: takes a request out and grants the lock to those it held up. *)

TpUnlockRead(s, x, i) ==
  LET q  == s.lk[x].q
      s1 == [s EXCEPT !.lk[x].n = @ - 1]
  IN  IF s1.lk[x].n # 0 THEN s1
      ELSE IF i > Len(q) THEN TpVerify([s1 EXCEPT !.lk[x].status = "FREE"], q = <<>>)
      ELSE TpWriteAcquire(s1, x, q[i].p)

(* After the readers have run their callbacks abort verifies that the lock is read
   locked, which is wrong: see TpReadersKeep. *)
TpUnlockWrite(s, x, i) ==
  LET q == s.lk[x].q
  IN  IF i > Len(q) THEN TpVerify([s EXCEPT !.lk[x].status = "FREE"], q = <<>>)
      ELSE IF q[i].type = "W" THEN TpWriteAcquire(s, x, q[i].p)
      ELSE TpReadAcquire(TpCalls(s, << <<"regranted", x, 0, 0>> >>), x, TpReadersFrom(q, i))
TpRegranted(s, x) == [s EXCEPT !.dead = @ \/ (~s.bad /\ s.lk[x].status # "RLOCKED")]

(* A waiting writer that no writer precedes held up the readers behind it. *)
TpAbortWaiting(s, x, r, i, first) ==
  LET s1 == TpCalls(s, << <<"no", x, r.p, 0>> >>)
  IN  IF r.type = "R" \/ ~first THEN s1
      ELSE TpReadAcquire(TpVerify(s1, s.lk[x].status = "RLOCKED"), x, TpReadersFrom(s.lk[x].q, i))

TpAbort(s, x, p) ==
  LET q == s.lk[x].q
      i == TpIndex(q, p)
      r == q[i]
      s1 == [s EXCEPT !.lk[x].q  = RemoveAt(@, i),
                      !.lk[x].nw = IF tp_kind = "wait-die" /\ r.type = "W" THEN @ - 1 ELSE @]
  IN  IF p \notin ToSet(TpIds(q)) THEN s
      ELSE IF r.status = "WAIT" THEN TpAbortWaiting(s1, x, r, i, \A j \in 1..(i - 1) : q[j].type # "W")
      ELSE IF r.type = "R" THEN TpUnlockRead(s1, x, i) ELSE TpUnlockWrite(s1, x, i)

TpAbortAllLocked(s, p) ==
  LET xs == TpAscending(s.pc[p].locked)
  IN  TpCalls(s, TpCallEach("abort", xs, TpSame(p, Len(xs))))

(* commit and abort of a PieceStatus. *)
TpRelease(s, p) ==
  LET s1 == TpVerify(s, s.pc[p].finish)
  IN  IF ~s.pc[p].rw_succ THEN s1
      ELSE TpAbortAllLocked(TpVerify([s1 EXCEPT !.pc[p].status = "UNLOCK"], s.pc[p].status = "LOCK"), p)

-----
(* The callbacks of the executor and the wish of a group. *)

TpFinish(s, p, res) ==
  TpCalls(TpVerify([s EXCEPT !.pc[p].finish = TRUE, !.bt[TpPieceOf[p].batch].res = res], ~s.pc[p].finish),
          << <<"func", 0, p, 0>> >>)

(* LockSucceeded runs the piece unless the executor was wounded. *)
TpLockSucceeded(s, p) ==
  LET t  == TpTxnOf(p)
      s1 == [s EXCEPT !.pc[p].rw_succ = DOMAIN TpToLock(p) # {}]
  IN  IF s.ex[t].wounded THEN TpFinish(s1, p, "reject")
      ELSE TpFinish([s1 EXCEPT !.read[t] = [x \in DOMAIN @ \cup TpTouches(p, "R") |->
                                               IF x \in DOMAIN @ THEN @[x] ELSE s.db[x]]], p, "ok")
TpLockFailed(s, p) == TpFinish(s, p, "reject")

(* Variant that the runs must reject: a group that was refused a lock keeps the others. *)
TpTrigger_Keeps(s, p) ==
  LET s1 == [s EXCEPT !.pc[p].ready = @ + 1]
  IN  IF s1.pc[p].ready # Cardinality(DOMAIN TpToLock(p)) THEN s1
      ELSE IF s1.pc[p].status = "WAIT"
           THEN TpLockSucceeded([s1 EXCEPT !.pc[p].status = "LOCK"], p) ELSE TpLockFailed(s1, p)

(* Every request answered: the wish of the DragonBall runs once. *)
TpTrigger(s, p) ==
  LET wait == Cardinality(DOMAIN TpToLock(p))
      s1   == TpVerify([s EXCEPT !.pc[p].ready = @ + 1], s.pc[p].ready < wait)
  IN  IF s1.pc[p].ready # wait THEN s1
      ELSE IF s1.pc[p].status = "WAIT"
           THEN TpLockSucceeded([s1 EXCEPT !.pc[p].status = "LOCK"], p)
           ELSE TpLockFailed(TpCalls(TpVerify(s1, s1.pc[p].status = "TIMEOUT"), << <<"release", 0, p, 0>> >>), p)

(* The callbacks a group gives to a lock. *)
TpYes(s, x, p) == TpTrigger([s EXCEPT !.pc[p].locked = @ \cup {x}], p)
TpNo(s, p) == TpTrigger([s EXCEPT !.pc[p].status = "TIMEOUT"], p)

(* OnDispatch of the executor: a first run of the piece collects the locks; the group
   asks for all of them, also after a refusal. *)
TpLockAll(s, p) ==
  LET xs == TpAscending(DOMAIN TpToLock(p))
  IN  TpCalls(TpVerify([s EXCEPT !.pc[p].status = "WAIT"], s.pc[p].status = "INIT"),
              TpCallEach("lock", xs, TpSame(p, Len(xs))))
TpExecDispatch(s, p) ==
  LET s1 == [s EXCEPT !.pc[p].made = TRUE]
  IN  IF s.ex[TpTxnOf(p)].wounded
      THEN TpCalls([s EXCEPT !.bt[TpPieceOf[p].batch].res = "reject"], << <<"func", 0, p, 0>> >>)
      ELSE IF DOMAIN TpToLock(p) = {} THEN TpLockSucceeded(s1, p) ELSE TpLockAll(s1, p)

(* The function ClassicSched::OnDispatch runs first and after each piece: it answers
   after a refusal or the last piece, or starts the next one. *)
TpFunc(s, b) ==
  LET ps == TpBatchOf[b].pieces
      i  == s.bt[b].i
  IN  IF s.bt[b].res = "reject" \/ i = Len(ps)
      THEN TpVerify([s EXCEPT !.bt[b].state = "acked"], s.bt[b].state = "sent")
      ELSE TpExecDispatch([s EXCEPT !.bt[b].i = i + 1], ps[i + 1])

-----
(* vlock of the two classes. *)

TpRequest(x, p) == [p |-> p, type |-> TpToLock(p)[x], status |-> "WAIT"]

(* A writer waits for younger requests only, back to the last writer; a reader for the
   last writer if that is younger. *)
TpWaitDie(q, type, prio) ==
  LET ws   == {i \in DOMAIN q : q[i].type = "W"}
      from == IF ws = {} THEN 1 ELSE Max(ws)
  IN  IF type = "W" THEN \A i \in from..Len(q) : prio < TpPrio(q[i].p)
      ELSE ws # {} /\ prio < TpPrio(q[from].p)

TpLockWaitDie(s, x, p) ==
  LET r  == TpRequest(x, p)
      l  == s.lk[x]
      s1 == [s EXCEPT !.lk[x].q  = Append(@, r),
                      !.lk[x].nw = IF r.type = "W" THEN @ + 1 ELSE @]
      ok == r.type = "R" => \E i \in DOMAIN l.q : l.q[i].type = "W"
  IN  IF l.status = "FREE" \/ (l.status = "RLOCKED" /\ r.type = "R" /\ l.nw = 0)
      THEN IF r.type = "R" THEN TpReadAcquire(s1, x, <<p>>) ELSE TpWriteAcquire(s1, x, p)
      ELSE IF TpWaitDie(l.q, r.type, TpPrio(p)) THEN TpVerify(s1, ok)
      ELSE TpCalls(TpVerify(s, ok), << <<"no", x, p, 0>> >>)

(* After wound_die: a free lock goes to the front of the queue; a read lock is shared
   with the readers before the first waiting writer. *)
TpQueueUp(s0, x, p) ==
  LET s  == [s0 EXCEPT !.lk[x].q = Append(@, TpRequest(x, p))]
      q  == s.lk[x].q
      ww == {i \in DOMAIN q : q[i].status = "WAIT" /\ q[i].type = "W"}
      scan == 1..(IF ww = {} THEN Len(q) ELSE Min(ww) - 1)
      held == {i \in scan : q[i].status = "LOCK"}
      readers == SelectSeq(SubSeq(q, 1, Cardinality(scan)), LAMBDA e : e.status = "WAIT")
      front == q[1].status = "LOCK" /\ q[1].type = (IF s.lk[x].status = "RLOCKED" THEN "R" ELSE "W")
  IN  CASE s.lk[x].status = "FREE" /\ q[1].type = "W" -> TpWriteAcquire(s, x, q[1].p)
        [] s.lk[x].status = "FREE" /\ q[1].type = "R" -> TpReadAcquire(s, x, TpReadersFrom(q, 1))
        [] s.lk[x].status = "RLOCKED" ->
             TpReadAcquire(TpVerify(s, front /\ \A i \in held : q[i].type = "R" /\ 1..i \subseteq held),
                           x, TpIds(readers))
        [] OTHER -> TpVerify(s, front)

(* wound: a waiting request is refused; a holder loses the lock unless its executor is
   prepared.  What the refused group does meanwhile must leave the queue alone, for
   wound_die is walking it. *)
TpMayWound(s, p) == ~s.ex[TpTxnOf(p)].prepared
TpWound(s, x, i) ==
  LET r == s.lk[x].q[i]
      n == IF r.type = "R" THEN s.lk[x].n - 1 ELSE s.lk[x].n
  IN  IF r.status = "WAIT" THEN TpCalls(s, << <<"no", x, r.p, 0>>, <<"erase", x, TpIds(s.lk[x].q), i>> >>)
      ELSE IF ~TpMayWound(s, r.p) THEN s
      ELSE TpVerify([s EXCEPT !.ex[TpTxnOf(r.p)].wounded = TRUE,
                              !.pc[r.p].locked = @ \ {x},
                              !.lk[x].n        = n,
                              !.lk[x].status   = IF r.type = "W" \/ n = 0 THEN "FREE" ELSE @,
                              !.lk[x].q        = RemoveAt(@, i)],
                    s.lk[x].status = (IF r.type = "W" THEN "WLOCKED" ELSE "RLOCKED"))
TpErase(s, x, ids, i) == TpVerify([s EXCEPT !.lk[x].q = RemoveAt(@, i)], TpIds(s.lk[x].q) = ids)

(* wound_die, at index i, from the back; a writer stops at an older writer, a reader at
   any older request and wounds writers only. *)
TpWoundDie(s, x, p, i) ==
  LET r     == s.lk[x].q[i]
      type  == TpToLock(p)[x]
      older == TpPrio(r.p) < TpPrio(p)
      s1    == TpCalls(s, << <<"wound_die", x, p, i - 1>> >>)
  IN  IF i = 0 \/ (older /\ (type = "R" \/ r.type = "W")) THEN TpQueueUp(s, x, p)
      ELSE IF ~older /\ (type = "W" \/ r.type = "W") THEN TpWound(s1, x, i) ELSE s1

TpLock(s, x, p) ==
  IF tp_kind = "wait-die" THEN TpLockWaitDie(s, x, p) ELSE TpWoundDie(s, x, p, Len(s.lk[x].q))

-----
(* The server runs a call to its end before it takes the next request. *)

TpCall(s, op, x, p, i) ==
  CASE op = "yes"       -> TpYes(s, x, p)
    [] op = "no"        -> TpNo(s, p)
    [] op = "func"      -> TpFunc(s, TpPieceOf[p].batch)
    [] op = "lock"      -> TpLock(s, x, p)
    [] op = "wound_die" -> TpWoundDie(s, x, p, i)
    [] op = "erase"     -> TpErase(s, x, p, i)
    [] op = "abort"     -> TpAbort(s, x, p)
    [] op = "regranted" -> TpRegranted(s, x)
    [] op = "release"   -> TpAbortAllLocked(s, p)
    [] op = "finish"    -> TpRelease(s, p)
RECURSIVE TpRun(_)
TpRun(s) ==
  LET c == Head(s.calls)
  IN  IF s.calls = <<>> THEN s ELSE TpRun(TpCall([s EXCEPT !.calls = Tail(@)], c[1], c[2], c[3], c[4]))

-----
(* What the coordinator asks of the server. *)

TpSent(t) == {b \in TpBatchesOf(t) : tp.bt[b].state # "none"}
TpAnswered(t) == \A b \in TpSent(t) : tp.bt[b].state = "acked"
TpRejected(t) == \E b \in TpSent(t) : tp.bt[b].res = "reject"

(* OnDispatch of the scheduler, for a batch whose inputs are there.  The coordinator may
   not have heard yet that another batch was refused. *)
TpOnDispatch(b) ==
  /\ tp.ex[TpBatchOf[b].txn].state = "run" /\ tp.bt[b].state = "none"
  /\ \A d \in TpBatchOf[b].after : tp.bt[d].state = "acked" /\ tp.bt[d].res = "ok"
  /\ tp' = TpRun(TpFunc([tp EXCEPT !.bt[b].state = "sent"], b))
  /\ UNCHANGED <<tp_kind, tp_log>>

(* Prepare: from here on no lock of the executor can be taken away. *)
TpPrepare(t) ==
  /\ tp.ex[t].state = "run" /\ TpSent(t) = TpBatchesOf(t) /\ TpAnswered(t) /\ ~TpRejected(t)
  /\ tp' = [tp EXCEPT !.ex[t].prepared = TRUE,
                      !.ex[t].state = IF tp.ex[t].wounded THEN "no" ELSE "yes"]
  /\ UNCHANGED <<tp_kind, tp_log>>

(* release_piece_map: a piece that got its locks unlocks them.  The map is unordered:
   the pieces come in any order. *)
TpReleaseMap(s, ps) == TpRun(TpCalls(s, TpCallEach("finish", TpSame(0, Len(ps)), ps)))
TpReleaseOrders(t) == SetToSeqs({p \in TpPieces : TpTxnOf(p) = t /\ tp.pc[p].made})

TpWrites(t) == UNION {TpTouches(p, "W") : p \in {p \in TpPieces : TpTxnOf(p) = t}}

TpCommit(t) ==
  /\ tp.ex[t].state = "yes"
  /\ \E ps \in TpReleaseOrders(t) :
       tp' = TpReleaseMap([tp EXCEPT !.ex[t].state = "done",
                                  !.db = [x \in TpLocks |-> IF x \in TpWrites(t) THEN t ELSE @[x]]], ps)
  /\ tp_log' = Append(tp_log, [txn |-> t, read |-> tp.read[t]])
  /\ UNCHANGED tp_kind

(* A refusal here or at another server, when every batch is answered. *)
TpAbortTxn(t) ==
  /\ tp.ex[t].state # "done" /\ TpSent(t) # {} /\ TpAnswered(t)
  /\ \E ps \in TpReleaseOrders(t) : tp' = TpReleaseMap([tp EXCEPT !.ex[t].state = "done"], ps)
  /\ UNCHANGED <<tp_kind, tp_log>>

TpNext ==
  /\ ~tp.dead
  /\ \/ \E b \in TpBatches : TpOnDispatch(b)
     \/ \E t \in TpTxns : TpPrepare(t) \/ TpCommit(t) \/ TpAbortTxn(t)

-----
(* Properties. *)

(* The committed transactions are equivalent to running them one after the other in the
   order of their commits: what each one read of a column is the write of the last one
   committed before it. *)
TpSerialInCommitOrder ==
  \A i \in DOMAIN tp_log : \A x \in DOMAIN tp_log[i].read :
    LET before == {j \in 1..(i - 1) : x \in TpWrites(tp_log[j].txn)}
    IN  tp_log[i].read[x] = IF before = {} THEN 0 ELSE tp_log[Max(before)].txn

(* sanity_check of the lock classes: a free lock has no queue, the holders come first
   and are one writer or the counted readers, and the queue is ordered by priority so
   that no request waits for one it may not wait for: younger ones under wait-die, older
   ones under wound-wait. *)
TpSane(x) ==
  LET l == tp.lk[x]
      q == l.q
      held == {i \in DOMAIN q : q[i].status = "LOCK"}
      ranked == IF tp_kind = "wait-die" THEN DOMAIN q ELSE DOMAIN q \ held
      behind(i, j) == i < j /\ (q[i].type = "W" \/ q[j].type = "W")
  IN  /\ l.status = "FREE" => q = <<>>
      /\ l.status = "WLOCKED" => held = {1} /\ q[1].type = "W"
      /\ l.status = "RLOCKED" => held = 1..l.n /\ \A i \in held : q[i].type = "R"
      /\ l.status = "RLOCKED" /\ Len(q) > l.n => q[l.n + 1].type = "W"
      /\ tp_kind = "wait-die" => l.nw = Cardinality({i \in DOMAIN q : q[i].type = "W"})
      /\ \A i, j \in ranked : behind(i, j) =>
           IF tp_kind = "wait-die" THEN TpPrio(q[i].p) > TpPrio(q[j].p)
                                   ELSE TpPrio(q[i].p) < TpPrio(q[j].p)
TpLocksSane == ~tp.dead => \A x \in TpLocks : TpSane(x)

(* Deadlock freedom: while a batch waits for locks, some transaction has every answer
   and can go on. *)
TpNoDeadlock ==
  ~tp.dead /\ (\E b \in TpBatches : tp.bt[b].state = "sent") =>
    \E t \in TpTxns : tp.ex[t].state # "done" /\ TpSent(t) # {} /\ TpAnswered(t)

(* Every verify of the locks and of the executor holds, also when a callback re-enters a
   lock: every request is answered once. *)
TpNoVerifyFails == ~tp.bad

(* verify(status_ == RLOCKED) of abort: readers that a released write lock is granted to
   still hold it when their callbacks have run.  They do not when each was refused
   another lock before: its group gives the lock back from inside the callback, the lock
   is free again or goes to the next writer, and the assertion ends the server. *)
TpReadersKeep == ~tp.dead
=====
