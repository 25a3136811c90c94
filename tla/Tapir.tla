----- MODULE Tapir -----
(* TAPIR as deptran/tapir runs it: a transaction is executed at the nearest replica of
   each partition, then offered to every replica, which executes it again, compares the
   versions it returns with the first execution and takes row locks; the coordinator
   needs the agreement of all replicas, sends its decision to all of them and is done.
   The slow path (Accept) has no caller. *)
EXTENDS Messages, Naturals, FiniteSets, SequencesExt

CONSTANTS
  TaPieceOf,  \* piece -> [txn, par, reads, writes, outs, needs]: outs are
                   \* the rows whose values it returns, needs the pieces whose
                   \* output it takes
  TaReps,  \* partition -> its replicas
  TaNear,  \* transaction -> partition -> the replica nearest to its coordinator
  TaLoads  \* [txns, retry] of a run; retry is max_retry_

VARIABLES
  ta_load,   \* the transactions of the run, never changed
  ta_coord,  \* TapirCoord and its TxnCommand, one per transaction
  ta_srv,    \* <<partition, replica>> -> executors, rows and row locks
  ta_seen,   \* history: attempt -> versions read and written
  ta_net, ta_bad

tapirVars == <<ta_load, ta_coord, ta_srv, ta_seen, ta_net, ta_bad>>

TaAllTxns == {TaPieceOf[p].txn : p \in DOMAIN TaPieceOf}
TaTxns == ta_load.txns
TaPieces(t) == {p \in DOMAIN TaPieceOf : TaPieceOf[p].txn = t}
TaParsOf(ps) == {TaPieceOf[p].par : p \in ps}
TaRows == UNION {TaPieceOf[p].reads \cup TaPieceOf[p].writes : p \in DOMAIN TaPieceOf}
TaServers == UNION {{<<"srv", s, r>> : r \in TaReps[s]} : s \in DOMAIN TaReps}
TaReplicasOf(s) == {v \in TaServers : v[2] = s}
TaCoord(t) == <<"coord", t>>
TaConns == {<<TaCoord(t), v>> : t \in TaTxns, v \in TaServers} \cup
           {<<v, TaCoord(t)>> : t \in TaTxns, v \in TaServers}
TaAttempts == TaTxns \X (0..ta_load.retry)
TaVerify(cond) == ta_bad' = (ta_bad \/ ~cond)

ASSUME TaAssumption ==
  /\ \A l \in TaLoads : l.retry \in Nat /\ l.txns \subseteq TaAllTxns
  /\ \A p \in DOMAIN TaPieceOf : /\ TaPieceOf[p].outs \subseteq TaPieceOf[p].reads
                                  /\ TaPieceOf[p].par \in DOMAIN TaReps
  /\ \A s \in DOMAIN TaReps : IsFiniteSet(TaReps[s])

(* rows: the attempts whose writes a row holds, so its column version is the number of
   them. *)
TaInit ==
  /\ ta_load \in TaLoads
  /\ ta_coord = [t \in TaTxns |-> [phase |-> "init", try |-> 0, out |-> {}, acked |-> {},
                                   vers |-> {}, oks |-> {}, rejects |-> {},
                                   reply |-> "none", started |-> {}]]
  /\ ta_srv = [v \in TaServers |-> [exec |-> [i \in {} |-> {}], rows |-> [x \in TaRows |-> <<>>],
                                    w |-> [x \in TaRows |-> <<>>], r |-> [x \in TaRows |-> {}]]]
  /\ ta_seen = [i \in TaAttempts |-> [read |-> {}, write |-> {}]]
  /\ ta_net = [c \in TaConns |-> <<>>]
  /\ ta_bad = FALSE

-----
(* TapirCoord. *)

TaId(t) == <<t, ta_coord[t].try>>
TaReady(t, c) == {p \in TaPieces(t) \ c.out : TaPieceOf[p].needs \subseteq c.acked}
(* What a handler makes of the coordinator: its new state c, the calls it makes, and
   those it makes then, when the transaction starts again. *)
TaNoCalls(c) == [c |-> c, calls |-> {}, then |-> {}]
TaTell(net, t, n) == Calls(Calls(net, TaCoord(t), n.calls), TaCoord(t), n.then)

(* Dispatch, to the nearest replica of each partition. *)
TaDispatch(t, c) ==
  LET ready == TaReady(t, c)
      call(s) == To({<<"srv", s, TaNear[t][s]>>},
                    [type |-> "Dispatch", id |-> <<t, c.try>>,
                     pieces |-> {p \in ready : TaPieceOf[p].par = s}])
  IN  [c |-> [c EXCEPT !.phase = "dispatch", !.out = @ \cup ready],
       calls |-> {call(s) : s \in TaParsOf(ready)}, then |-> {}]

(* FastAccept: to every replica, with the outputs of the first execution. *)
TaFastAccept(t, c) ==
  LET call(s) == To(TaReplicasOf(s),
                    [type |-> "FastAccept", id |-> <<t, c.try>>, vers |-> c.vers,
                     pieces |-> {p \in TaPieces(t) : TaPieceOf[p].par = s}])
  IN  [c |-> [c EXCEPT !.phase = "fast", !.oks = {}, !.rejects = {}],
       calls |-> {call(s) : s \in TaParsOf(TaPieces(t))}, then |-> {}]

(* Restart: a new id, at most max_retry_ times; then End with REJECT. *)
TaRestart(t, c) ==
  IF c.try = ta_load.retry THEN TaNoCalls([c EXCEPT !.phase = "end", !.reply = "REJECT"])
  ELSE TaDispatch(t, [c EXCEPT !.try = @ + 1, !.out = {}, !.acked = {}, !.vers = {}])

(* Decide: the decision goes to every replica, the client is answered. *)
TaDecide(t, c, commit) ==
  LET m == {To(UNION {TaReplicasOf(s) : s \in TaParsOf(TaPieces(t))},
               [type |-> "Decide", id |-> <<t, c.try>>, commit |-> commit])}
      r == TaRestart(t, c)
  IN  IF commit THEN [c |-> [c EXCEPT !.phase = "end", !.reply = "SUCCESS"], calls |-> m, then |-> {}]
      ELSE [c |-> r.c, calls |-> m, then |-> r.calls]

(* GetFastQuorum is the size of the partition. *)
TaFastQuorum(s) == Cardinality(TaReps[s])
TaAllFastQuorumReached(t, c) ==
  \A s \in TaParsOf(TaPieces(t)) : Cardinality(c.oks \cap TaReplicasOf(s)) >= TaFastQuorum(s)

(* Variant that the runs must reject: refusals below a majority are waited out. *)
TaFastQuorumPossible_Slow(t, c) ==
  \A s \in TaParsOf(TaPieces(t)) :
    Cardinality(c.rejects \cap TaReplicasOf(s)) <= Cardinality(TaReps[s]) - (Cardinality(TaReps[s]) \div 2)

TaFastQuorumPossible(t, c) ==
  \A s \in TaParsOf(TaPieces(t)) :
    Cardinality(c.rejects \cap TaReplicasOf(s)) <= Cardinality(TaReps[s]) - TaFastQuorum(s)

TaDoOne(t) ==
  /\ ta_coord[t].phase = "init"
  /\ LET answered == {u \in TaTxns : ta_coord[u].reply = "SUCCESS"}
         d == TaDispatch(t, [ta_coord[t] EXCEPT !.started = answered])
     IN  /\ ta_coord' = [ta_coord EXCEPT ![t] = d.c]
         /\ ta_net' = TaTell(ta_net, t, d)
  /\ UNCHANGED <<ta_load, ta_srv, ta_seen, ta_bad>>

TaStep(t, k, new, n) ==
  /\ ta_coord' = IF new THEN [ta_coord EXCEPT ![t] = n.c] ELSE ta_coord
  /\ ta_net' = IF new THEN TaTell(Taken(ta_net, k), t, n) ELSE Taken(ta_net, k)

(* DispatchAck: outputs merged; more pieces, or on to FastAccept. *)
TaDispatchAck(t, v) ==
  LET k == <<v, TaCoord(t)>>
      m == Head(ta_net[k])
      c == ta_coord[t]
      a == [c EXCEPT !.acked = @ \cup m.pieces, !.vers = @ \cup m.vers]
      n == IF TaReady(t, a) # {} THEN TaDispatch(t, a)
           ELSE IF a.acked = a.out THEN TaFastAccept(t, a) ELSE TaNoCalls(a)
      new == m.id = TaId(t) /\ c.phase = "dispatch"
  IN  /\ Receives(ta_net, k, "DispatchAck")
      /\ TaStep(t, k, new, n)
      /\ TaVerify(new => m.pieces \cap c.acked = {})
      /\ UNCHANGED <<ta_load, ta_srv, ta_seen>>

(* FastAcceptAck: answers of an attempt already decided are ignored. *)
TaFastAcceptAck(t, v) ==
  LET k == <<v, TaCoord(t)>>
      m == Head(ta_net[k])
      c == ta_coord[t]
      a == IF m.res = "SUCCESS" THEN [c EXCEPT !.oks = @ \cup {v}] ELSE [c EXCEPT !.rejects = @ \cup {v}]
      n == IF ~TaFastQuorumPossible(t, a) THEN TaDecide(t, a, FALSE)
           ELSE IF TaAllFastQuorumReached(t, a) THEN TaDecide(t, a, TRUE) ELSE TaNoCalls(a)
      new == m.id = TaId(t) /\ c.phase = "fast"
  IN  /\ Receives(ta_net, k, "FastAcceptAck")
      /\ TaStep(t, k, new, n)
      /\ ta_seen' = IF new /\ n.c.reply = "SUCCESS"
                    THEN [ta_seen EXCEPT ![m.id].read = @ \cup c.vers] ELSE ta_seen
      /\ UNCHANGED <<ta_load, ta_srv, ta_bad>>

-----
(* TapirSched and TapirExecutor. *)

TaVer(v, x) == Len(ta_srv[v].rows[x])
TaReadsOf(ps) == UNION {TaPieceOf[p].reads : p \in ps}
TaWritesOf(ps) == UNION {TaPieceOf[p].writes : p \in ps}
(* The versions of the values that the pieces return. *)
TaOutput(v, ps) == {<<x, TaVer(v, x)>> : x \in UNION {TaPieceOf[p].outs : p \in ps}}

TaFreshExec == [reads |-> [x \in {} |-> 0], upd |-> {}, locked |-> {}]
TaExec(v, i) == IF i \in DOMAIN ta_srv[v].exec THEN ta_srv[v].exec[i] ELSE TaFreshExec
(* Execute with ReadColumn and WriteColumn of TapirDTxn: the version is that of the last
   read, writes are buffered. *)
TaExecute(v, e, ps) ==
  [e EXCEPT !.reads = [x \in DOMAIN @ \cup TaReadsOf(ps) |-> IF x \in TaReadsOf(ps) THEN TaVer(v, x) ELSE @[x]],
            !.upd = @ \cup TaWritesOf(ps)]
TaPutExec(srv, i, e) == [srv EXCEPT !.exec = [j \in DOMAIN @ \cup {i} |-> IF j = i THEN e ELSE @[j]]]
TaAnswer(v, t, k, m) == ta_net' = Calls(Taken(ta_net, k), v, {To({TaCoord(t)}, m)})

TaOnDispatch(v, t) ==
  LET k == <<TaCoord(t), v>>
      m == Head(ta_net[k])
  IN  /\ Receives(ta_net, k, "Dispatch")
      /\ ta_srv' = [ta_srv EXCEPT ![v] = TaPutExec(@, m.id, TaExecute(v, TaExec(v, m.id), m.pieces))]
      /\ TaAnswer(v, t, k, [type |-> "DispatchAck", id |-> m.id, pieces |-> m.pieces,
                            vers |-> TaOutput(v, m.pieces)])
      /\ UNCHANGED <<ta_load, ta_coord, ta_seen, ta_bad>>

(* rlock_row_by and wlock_row_by: the rows of S that i can lock. *)
TaCanRead(srv, i, S) == {x \in S : srv.w[x] \in {<<>>, i}}
TaCanWrite(srv, i, S) == {x \in S : srv.w[x] = i \/ (srv.w[x] = <<>> /\ srv.r[x] \subseteq {i})}

(* Variant that the runs must reject: a row is remembered as locked though the lock was
   refused. *)
TaLock_Noted(srv, i, e) ==
  LET rd == TaCanRead(srv, i, DOMAIN e.reads)
      s1 == [srv EXCEPT !.r = [x \in TaRows |-> IF x \in rd /\ srv.w[x] = <<>> THEN @[x] \cup {i} ELSE @[x]]]
      wr == TaCanWrite(s1, i, e.upd)
      s2 == [s1 EXCEPT !.w = [x \in TaRows |-> IF x \in wr THEN i ELSE @[x]],
                       !.r = [x \in TaRows |-> IF x \in wr THEN @[x] \ {i} ELSE @[x]]]
  IN  [srv |-> TaPutExec(s2, i, [e EXCEPT !.locked = DOMAIN e.reads \cup e.upd]),
       ok |-> rd = DOMAIN e.reads /\ wr = e.upd]

(* Variant that the runs must reject: a refused write lock is not noticed. *)
TaLock_Silent(srv, i, e) ==
  LET rd == TaCanRead(srv, i, DOMAIN e.reads)
      s1 == [srv EXCEPT !.r = [x \in TaRows |-> IF x \in rd /\ srv.w[x] = <<>> THEN @[x] \cup {i} ELSE @[x]]]
      wr == TaCanWrite(s1, i, e.upd)
      s2 == [s1 EXCEPT !.w = [x \in TaRows |-> IF x \in wr THEN i ELSE @[x]],
                       !.r = [x \in TaRows |-> IF x \in wr THEN @[x] \ {i} ELSE @[x]]]
  IN  [srv |-> TaPutExec(s2, i, [e EXCEPT !.locked = @ \cup rd \cup wr]),
       ok |-> rd = DOMAIN e.reads]

(* The lock phase of FastAccept: a refused lock does not end it, and the locks taken
   stay until the decision. *)
TaLock(srv, i, e) ==
  LET rd == TaCanRead(srv, i, DOMAIN e.reads)
      s1 == [srv EXCEPT !.r = [x \in TaRows |-> IF x \in rd /\ srv.w[x] = <<>> THEN @[x] \cup {i} ELSE @[x]]]
      wr == TaCanWrite(s1, i, e.upd)
      s2 == [s1 EXCEPT !.w = [x \in TaRows |-> IF x \in wr THEN i ELSE @[x]],
                       !.r = [x \in TaRows |-> IF x \in wr THEN @[x] \ {i} ELSE @[x]]]
  IN  [srv |-> TaPutExec(s2, i, [e EXCEPT !.locked = @ \cup rd \cup wr]),
       ok |-> rd = DOMAIN e.reads /\ wr = e.upd]

(* Variant that the runs must reject: the second execution is not compared with the
   first. *)
TaSameOutput_Skipped(v, m) == TRUE

TaSameOutput(v, m) == TaOutput(v, m.pieces) \subseteq m.vers

TaOnFastAccept(v, t) ==
  LET k == <<TaCoord(t), v>>
      m == Head(ta_net[k])
      e == TaExecute(v, TaExec(v, m.id), m.pieces)
      l == IF TaSameOutput(v, m) THEN TaLock(ta_srv[v], m.id, e)
           ELSE [srv |-> TaPutExec(ta_srv[v], m.id, e), ok |-> FALSE]
  IN  /\ Receives(ta_net, k, "FastAccept")
      /\ ta_srv' = [ta_srv EXCEPT ![v] = l.srv]
      /\ TaAnswer(v, t, k, [type |-> "FastAcceptAck", id |-> m.id,
                            res |-> IF l.ok THEN "SUCCESS" ELSE "REJECT"])
      /\ TaVerify(\A x \in DOMAIN e.reads : TaVer(v, x) <= e.reads[x])
      /\ UNCHANGED <<ta_load, ta_coord, ta_seen>>

(* Commit applies the writes, Commit and Abort unlock; TrashExecutor. *)
TaDecided(srv, i, e, commit) ==
  [srv EXCEPT !.rows = [x \in TaRows |-> IF commit /\ x \in e.upd THEN Append(srv.rows[x], i) ELSE srv.rows[x]],
              !.w = [x \in TaRows |-> IF x \in e.locked /\ srv.w[x] = i THEN <<>> ELSE srv.w[x]],
              !.r = [x \in TaRows |-> IF x \in e.locked THEN srv.r[x] \ {i} ELSE srv.r[x]],
              !.exec = [j \in DOMAIN srv.exec \ {i} |-> srv.exec[j]]]

(* OnDecide. *)
TaOnDecide(v, t) ==
  LET k == <<TaCoord(t), v>>
      m == Head(ta_net[k])
      i == m.id
      e == TaExec(v, i)
      held == {x \in TaRows : ta_srv[v].w[x] = i \/ i \in ta_srv[v].r[x]}
  IN  /\ Receives(ta_net, k, "Decide")
      /\ ta_srv' = [ta_srv EXCEPT ![v] = TaDecided(ta_srv[v], i, e, m.commit)]
      /\ ta_net' = Taken(ta_net, k)
      /\ ta_seen' = IF ~m.commit THEN ta_seen
                    ELSE [ta_seen EXCEPT ![i].read  = @ \cup {<<x, e.reads[x]>> : x \in DOMAIN e.reads},
                                         ![i].write = @ \cup {<<x, TaVer(v, x) + 1>> : x \in e.upd}]
      /\ TaVerify(i \in DOMAIN ta_srv[v].exec /\ e.locked \subseteq held)
      /\ UNCHANGED <<ta_load, ta_coord>>

TaNext ==
  \/ \E t \in TaTxns : TaDoOne(t)
  \/ \E t \in TaTxns, v \in TaServers :
       \/ TaDispatchAck(t, v) \/ TaFastAcceptAck(t, v)
       \/ TaOnDispatch(v, t) \/ TaOnFastAccept(v, t) \/ TaOnDecide(v, t)

TaSpec == TaInit /\ [][TaNext]_tapirVars

-----
(* Properties. *)

TaQuiet == AllHandled(ta_net) /\ \A t \in TaTxns : ta_coord[t].phase # "init"
TaCommitted == {i \in TaAttempts : ta_seen[i].write \cup ta_seen[i].read # {}}

(* Strict serializability over all replicas: the versions read (by the execution whose
   outputs were used and by the ones that were locked) and written, with "answered
   before the other began", order the committed transactions without a cycle. *)
TaBefore(i, j) ==
  LET a == ta_seen[i]
      b == ta_seen[j]
  IN  \/ \E p \in a.write, q \in b.write : p[1] = q[1] /\ p[2] < q[2]
      \/ \E p \in a.write, q \in b.read : p[1] = q[1] /\ p[2] <= q[2]
      \/ \E p \in a.read, q \in b.write : p[1] = q[1] /\ p[2] < q[2]
      \/ i[1] \in ta_coord[j[1]].started
TaStrictlySerializable ==
  \A C \in SUBSET TaCommitted : C # {} => \E i \in C : \A j \in C \ {i} : ~TaBefore(j, i)

(* The replicas of a partition apply the writes of a row in one order, though nothing
   orders the decisions of different coordinators. *)
TaReplicasAgree ==
  \A v, u \in TaServers : v[2] = u[2] =>
    \A x \in TaRows : IsPrefix(ta_srv[v].rows[x], ta_srv[u].rows[x]) \/
                      IsPrefix(ta_srv[u].rows[x], ta_srv[v].rows[x])

(* When no call is on its way every transaction is answered and no replica keeps an
   executor or a row lock of any attempt. *)
TaNoneStuck ==
  TaQuiet => /\ \A t \in TaTxns : ta_coord[t].reply # "none"
             /\ \A v \in TaServers : /\ DOMAIN ta_srv[v].exec = {}
                                     /\ \A x \in TaRows : ta_srv[v].w[x] = <<>> /\ ta_srv[v].r[x] = {}

(* The verify calls hold: a row in locked_rows_ is still locked when the decision comes,
   the executor exists, and no piece is answered twice. *)
TaNoVerifyFails == ~ta_bad
=====
