----- MODULE Commit -----
(* Transactions over several partitions with two-phase commit: deptran/classic
   (coordinator, scheduler), deptran/occ with the staging area of memdb/txn_occ,
   deptran/none, and under "2pl" the answers that module Tpl explains.  A coordinator
   dispatches the pieces whose inputs it has, prepares at every partition it dispatched
   to, sends the decision and answers the client at once; an aborted transaction is
   tried again under a new id. *)
EXTENDS Messages, Naturals, FiniteSets

CONSTANTS
  CmLoads,  \* [mode: "occ", "2pl" or "none", txns, retry] of a run;
                   \* retry is max_retry_
  CmPieceOf  \* piece -> [txn, par, reads, writes, needs]

VARIABLES
  cm_load,   \* the mode and transactions of the run, never changed
  cm_coord,  \* ClassicCoord and its TxnCommand, one per transaction
  cm_srv,    \* partition -> executors, row versions and row locks
  cm_hist,   \* history: attempt -> partitions that committed, aborted
  cm_seen,   \* history: attempt -> versions read and written
  cm_net, cm_bad

commitVars == <<cm_load, cm_coord, cm_srv, cm_hist, cm_seen, cm_net, cm_bad>>

CmTxns == cm_load.txns
CmPieces(t) == {p \in DOMAIN CmPieceOf : CmPieceOf[p].txn = t}
CmAllTxns == {CmPieceOf[p].txn : p \in DOMAIN CmPieceOf}
CmPars == {CmPieceOf[p].par : p \in DOMAIN CmPieceOf}
CmRows == UNION {CmPieceOf[p].reads \cup CmPieceOf[p].writes : p \in DOMAIN CmPieceOf}
CmAttempts == CmTxns \X (0..cm_load.retry)
CmSrv(s) == <<"srv", s>>
CmCoord(t) == <<"coord", t>>
CmConns == {c \in (({"srv"} \X CmPars) \cup ({"coord"} \X CmAllTxns)) \X
                  (({"srv"} \X CmPars) \cup ({"coord"} \X CmAllTxns)) : c[1][1] # c[2][1]}
CmNothing == [x \in {} |-> 0]
CmVerify(cond) == cm_bad' = (cm_bad \/ ~cond)

ASSUME CmAssumption ==
  /\ \A l \in CmLoads : l.mode \in {"occ", "2pl", "none"} /\ l.retry \in Nat /\ l.txns \subseteq CmAllTxns
  /\ \A t \in CmAllTxns : \A S \in SUBSET CmPieces(t) :  \* the pieces do not wait in a circle
       S # CmPieces(t) => \E p \in CmPieces(t) \ S : CmPieceOf[p].needs \subseteq S

(* started: the transactions answered before this one began. *)
CmInit ==
  /\ cm_load \in CmLoads
  /\ cm_coord = [t \in CmTxns |-> [phase |-> "init", try |-> 0, out |-> {}, acked |-> {},
                                   aborted |-> FALSE, parts |-> {}, votes |-> 0,
                                   reply |-> "none", started |-> {}]]
  /\ cm_srv = [s \in CmPars |-> [exec |-> CmNothing,
                                 ver |-> [x \in CmRows |-> 0],
                                 w |-> [x \in CmRows |-> <<>>], r |-> [x \in CmRows |-> {}]]]
  /\ cm_hist = [i \in CmAttempts |-> [commit |-> {}, abort |-> {}]]
  /\ cm_seen = [i \in CmAttempts |-> [read |-> CmNothing, write |-> CmNothing]]
  /\ cm_net = [c \in CmConns |-> <<>>]
  /\ cm_bad = FALSE

-----
(* ClassicCoord. *)

CmId(t) == <<t, cm_coord[t].try>>
(* HasMoreSubCmdReadyNotOut and GetReadyCmds: the inputs have arrived. *)
CmReady(t, c) == {p \in CmPieces(t) \ c.out : CmPieceOf[p].needs \subseteq c.acked}

(* What a handler makes of the coordinator: its new state c, the calls it makes, and
   those it makes then, when the transaction starts again. *)
CmNoCalls(c) == [c |-> c, calls |-> {}, then |-> {}]
CmTell(net, t, n) == Calls(Calls(net, CmCoord(t), n.calls), CmCoord(t), n.then)

(* Variant that the runs must reject: partition_ids_ holds every partition of the
   transaction from the start. *)
CmDispatchOf_UpFront(t, c) ==
  LET ready == CmReady(t, c)
      pars  == {CmPieceOf[p].par : p \in ready}
  IN  [c |-> [c EXCEPT !.phase = "dispatch", !.out = @ \cup ready,
                       !.parts = {CmPieceOf[p].par : p \in CmPieces(t)}],
       calls |-> {To({CmSrv(s)}, [type |-> "Dispatch", id |-> <<t, c.try>>,
                                  pieces |-> {p \in ready : CmPieceOf[p].par = s}]) : s \in pars},
       then |-> {}]

(* Dispatch: one call per partition, which joins partition_ids_. *)
CmDispatchOf(t, c) ==
  LET ready == CmReady(t, c)
      pars  == {CmPieceOf[p].par : p \in ready}
      at(s) == {p \in ready : CmPieceOf[p].par = s}
  IN  [c |-> [c EXCEPT !.phase = "dispatch", !.out = @ \cup ready, !.parts = @ \cup pars],
       calls |-> {To({CmSrv(s)}, [type |-> "Dispatch", id |-> <<t, c.try>>, pieces |-> at(s)]) : s \in pars},
       then |-> {}]

(* Variant that the runs must reject: the client is told of a commit though a
   participant refused. *)
CmDecide_AnyYes(t, c, commit) ==
  [c |-> [c EXCEPT !.phase = "end", !.reply = "SUCCESS"],
   calls |-> {To({CmSrv(s) : s \in c.parts},
                 [type |-> IF commit THEN "Commit" ELSE "Abort", id |-> <<t, c.try>>])},
   then |-> {}]

(* Restart: a new id; Reset clears the counters, the outputs and partition_ids_. *)
CmRestart(t, c) ==
  CmDispatchOf(t, [c EXCEPT !.try = @ + 1, !.out = {}, !.acked = {}, !.aborted = FALSE,
                              !.parts = {}, !.votes = 0])

(* Commit, and GotoNextPhase at its end: the decision leaves and the client is answered,
   or the transaction starts again. *)
CmDecide(t, c, commit) ==
  LET m == {To({CmSrv(s) : s \in c.parts},
               [type |-> IF commit THEN "Commit" ELSE "Abort", id |-> <<t, c.try>>])}
      r == CmRestart(t, c)
      ends(reply) == [c |-> [c EXCEPT !.phase = "end", !.reply = reply], calls |-> m, then |-> {}]
  IN  IF commit THEN ends("SUCCESS")
      ELSE IF c.try = cm_load.retry THEN ends("REJECT")
      ELSE [c |-> r.c, calls |-> m, then |-> r.calls]

(* Prepare, at every partition in partition_ids_; NoneCoord ends here. *)
CmPrepareOf(t, c) ==
  IF cm_load.mode = "none" THEN CmNoCalls([c EXCEPT !.phase = "end", !.reply = "SUCCESS"])
  ELSE [c |-> [c EXCEPT !.phase = "prepare"],
        calls |-> {To({CmSrv(s) : s \in c.parts}, [type |-> "Prepare", id |-> <<t, c.try>>])},
        then |-> {}]

CmDoOne(t) ==
  /\ cm_coord[t].phase = "init"
  /\ LET answered == {u \in CmTxns : cm_coord[u].reply = "SUCCESS"}
         d == CmDispatchOf(t, [cm_coord[t] EXCEPT !.started = answered])
     IN  /\ cm_coord' = [cm_coord EXCEPT ![t] = d.c]
         /\ cm_net' = CmTell(cm_net, t, d)
  /\ UNCHANGED <<cm_load, cm_srv, cm_hist, cm_seen, cm_bad>>

(* DispatchAck: outputs are merged unless the transaction is aborted; an aborted one
   still waits for every answer. *)
CmDispatchAck(t, s) ==
  LET k == <<CmSrv(s), CmCoord(t)>>
      m == Head(cm_net[k])
      c == cm_coord[t]
      a == [c EXCEPT !.aborted = @ \/ m.res = "REJECT", !.acked = @ \cup m.pieces]
      n == IF a.aborted
           THEN IF a.acked = a.out THEN CmDecide(t, a, FALSE) ELSE CmNoCalls(a)
           ELSE IF CmReady(t, a) # {} THEN CmDispatchOf(t, a)
           ELSE IF a.acked = a.out THEN CmPrepareOf(t, a) ELSE CmNoCalls(a)
      new == m.id = CmId(t) /\ c.phase = "dispatch"
  IN  /\ Receives(cm_net, k, "DispatchAck")
      /\ cm_coord' = IF new THEN [cm_coord EXCEPT ![t] = n.c] ELSE cm_coord
      /\ cm_net' = IF new THEN CmTell(Taken(cm_net, k), t, n) ELSE Taken(cm_net, k)
      /\ CmVerify(new => m.pieces \cap c.acked = {})
      /\ UNCHANGED <<cm_load, cm_srv, cm_hist, cm_seen>>

CmPrepareAck(t, s) ==
  LET k == <<CmSrv(s), CmCoord(t)>>
      m == Head(cm_net[k])
      c == cm_coord[t]
      a == [c EXCEPT !.aborted = @ \/ m.res = "REJECT", !.votes = @ + 1]
      n == IF a.votes = Cardinality(c.parts) THEN CmDecide(t, a, ~a.aborted) ELSE CmNoCalls(a)
      new == m.id = CmId(t) /\ c.phase = "prepare"
  IN  /\ Receives(cm_net, k, "PrepareAck")
      /\ cm_coord' = IF new THEN [cm_coord EXCEPT ![t] = n.c] ELSE cm_coord
      /\ cm_net' = IF new THEN CmTell(Taken(cm_net, k), t, n) ELSE Taken(cm_net, k)
      /\ UNCHANGED <<cm_load, cm_srv, cm_hist, cm_seen, cm_bad>>

-----
(* The servers. *)

CmFreshExec == [reads |-> CmNothing, upd |-> {}, verified |-> FALSE, phase |-> 0]
CmExec(s, i) == IF i \in DOMAIN cm_srv[s].exec THEN cm_srv[s].exec[i] ELSE CmFreshExec
CmWithExec(srv, i, e) == [srv EXCEPT !.exec = [j \in DOMAIN @ \cup {i} |-> IF j = i THEN e ELSE @[j]]]

(* read_column and write_column of TxnOCC: the first read of a row fixes the version to
   be checked, a row it wrote is read from updates_. *)
CmReadsOf(e, ps) == (UNION {CmPieceOf[p].reads : p \in ps}) \ e.upd
CmWritesOf(ps) == UNION {CmPieceOf[p].writes : p \in ps}
CmExecute(s, e, ps) ==
  LET new == CmReadsOf(e, ps)
  IN  [e EXCEPT !.reads = [x \in DOMAIN @ \cup new |-> IF x \in DOMAIN @ THEN @[x] ELSE cm_srv[s].ver[x]],
                !.upd   = @ \cup CmWritesOf(ps)]
(* __DebugCheckReadVersion: a row read before is still at that version. *)
CmCheckReadVersion(s, e, ps) ==
  \A x \in DOMAIN e.reads \cap (CmReadsOf(e, ps) \cup CmWritesOf(ps)) : e.reads[x] >= cm_srv[s].ver[x]

(* OnDispatch; without concurrency control the pieces write the tables. *)
CmOnDispatch(s, t) ==
  LET k == <<CmCoord(t), CmSrv(s)>>
      m == Head(cm_net[k])
      e == CmExec(s, m.id)
      ack(res) == Calls(Taken(cm_net, k), CmSrv(s), {To({CmCoord(t)},
                    [type |-> "DispatchAck", id |-> m.id, pieces |-> m.pieces, res |-> res])})
  IN  /\ Receives(cm_net, k, "Dispatch")
      /\ IF cm_load.mode = "none"
         THEN cm_srv' = [cm_srv EXCEPT ![s].ver = [x \in CmRows |->
                            IF x \in CmWritesOf(m.pieces) THEN @[x] + 1 ELSE @[x]]]
         ELSE cm_srv' = [cm_srv EXCEPT ![s] = CmWithExec(@, m.id, CmExecute(s, e, m.pieces))]
      /\ \E res \in IF cm_load.mode = "2pl" THEN {"SUCCESS", "REJECT"} ELSE {"SUCCESS"} : cm_net' = ack(res)
      /\ CmVerify(cm_load.mode = "occ" => CmCheckReadVersion(s, e, m.pieces))
      /\ UNCHANGED <<cm_load, cm_coord, cm_hist, cm_seen>>

(* Variant that the runs must reject: rows that were only read are not checked against
   rows being written. *)
CmCanLock_Writes(srv, i, e) ==
  /\ \A x \in DOMAIN e.reads : srv.ver[x] = e.reads[x]
  /\ \A x \in e.upd : srv.w[x] \in {<<>>, i} /\ srv.r[x] \subseteq {i}

(* OCCExecutor::Prepare: the versions are as read, and every row is locked or none is; a
   reader that writes upgrades its lock. *)
CmCanLock(srv, i, e) ==
  /\ \A x \in DOMAIN e.reads : srv.ver[x] = e.reads[x] /\ srv.w[x] \in {<<>>, i}
  /\ \A x \in e.upd : srv.w[x] \in {<<>>, i} /\ srv.r[x] \subseteq {i}
CmLocked(srv, i, e) ==
  [srv EXCEPT !.w = [x \in CmRows |-> IF x \in e.upd THEN i ELSE @[x]],
              !.r = [x \in CmRows |-> IF x \in e.upd THEN @[x] \ {i}
                                      ELSE IF x \in DOMAIN e.reads THEN @[x] \cup {i} ELSE @[x]],
              !.exec[i].verified = TRUE]

CmOnPrepare(s, t) ==
  LET k == <<CmCoord(t), CmSrv(s)>>
      i == Head(cm_net[k]).id
      e == CmExec(s, i)
      occ == CmCanLock(cm_srv[s], i, e)
      votes == IF cm_load.mode = "2pl" THEN {TRUE, FALSE} ELSE {occ}
  IN  /\ Receives(cm_net, k, "Prepare")
      /\ \E yes \in votes :
           /\ cm_srv' = IF cm_load.mode = "occ" /\ yes
                        THEN [cm_srv EXCEPT ![s] = CmLocked(@, i, e)] ELSE cm_srv
           /\ cm_net' = Calls(Taken(cm_net, k), CmSrv(s), {To({CmCoord(t)},
                [type |-> "PrepareAck", id |-> i, res |-> IF yes THEN "SUCCESS" ELSE "REJECT"])})
      /\ CmVerify(i \in DOMAIN cm_srv[s].exec /\ ~e.verified)
      /\ UNCHANGED <<cm_load, cm_coord, cm_hist, cm_seen>>

(* Variant that the runs must reject: read locks outlive the transaction. *)
CmReleased_Reads(srv, i) ==
  [srv EXCEPT !.w = [x \in CmRows |-> IF @[x] = i THEN <<>> ELSE @[x]],
              !.exec = [j \in DOMAIN @ \ {i} |-> @[j]]]

(* release_resource: the locks of the transaction are dropped. *)
CmReleased(srv, i) ==
  [srv EXCEPT !.w = [x \in CmRows |-> IF @[x] = i THEN <<>> ELSE @[x]],
              !.r = [x \in CmRows |-> @[x] \ {i}],
              !.exec = [j \in DOMAIN @ \ {i} |-> @[j]]]

CmBumped(srv, rows) == [srv EXCEPT !.ver = [x \in CmRows |-> IF x \in rows THEN @[x] + 1 ELSE @[x]]]

(* OnCommit with Commit or Abort of the executor, which is then removed. *)
CmOnCommit(s, t, type) ==
  LET k == <<CmCoord(t), CmSrv(s)>>
      i == Head(cm_net[k]).id
      e == CmExec(s, i)
      commit == type = "Commit"
      merge(f, g) == [x \in DOMAIN f \cup DOMAIN g |-> IF x \in DOMAIN f THEN f[x] ELSE g[x]]
  IN  /\ Receives(cm_net, k, type)
      /\ cm_srv' = [cm_srv EXCEPT ![s] = CmReleased(IF commit THEN CmBumped(@, e.upd) ELSE @, i)]
      /\ cm_net' = Taken(cm_net, k)
      /\ cm_hist' = [cm_hist EXCEPT ![i].commit = IF commit THEN @ \cup {s} ELSE @,
                                    ![i].abort  = IF commit THEN @ ELSE @ \cup {s}]
      /\ cm_seen' = IF ~commit THEN cm_seen
                    ELSE [cm_seen EXCEPT ![i].read  = merge(@, e.reads),
                                         ![i].write = merge(@, [x \in e.upd |-> cm_srv[s].ver[x] + 1])]
      /\ CmVerify(i \in DOMAIN cm_srv[s].exec /\ (commit /\ cm_load.mode = "occ" => e.verified))
      /\ UNCHANGED <<cm_load, cm_coord>>

CmNext ==
  \/ \E t \in CmTxns : CmDoOne(t)
  \/ \E t \in CmTxns, s \in CmPars :
       \/ CmDispatchAck(t, s) \/ CmPrepareAck(t, s)
       \/ CmOnDispatch(s, t) \/ CmOnPrepare(s, t)
       \/ CmOnCommit(s, t, "Commit") \/ CmOnCommit(s, t, "Abort")

CmSpec == CmInit /\ [][CmNext]_commitVars

-----
(* Properties. *)

CmQuiet == AllHandled(cm_net) /\ \A t \in CmTxns : cm_coord[t].phase # "init"
CmCommitted == {i \in CmAttempts : cm_hist[i].commit # {}}

(* Strict serializability of what OCC commits: the order that the versions read and
   written impose on the transactions, together with "answered before the other began",
   has no cycle, though the client is answered before any participant has committed. *)
CmBefore(i, j) ==
  LET a == cm_seen[i]
      b == cm_seen[j]
  IN  \/ \E x \in DOMAIN a.write \cap DOMAIN b.write : a.write[x] < b.write[x]
      \/ \E x \in DOMAIN a.write \cap DOMAIN b.read : a.write[x] <= b.read[x]
      \/ \E x \in DOMAIN a.read \cap DOMAIN b.write : a.read[x] < b.write[x]
      \/ i[1] \in cm_coord[j[1]].started
CmStrictlySerializable ==
  cm_load.mode = "occ" =>
    \A C \in SUBSET CmCommitted : C # {} => \E i \in C : \A j \in C \ {i} : ~CmBefore(j, i)

(* Atomic commitment: the participants of an attempt never decide differently, and an
   answer SUCCESS is a commit at every partition that executed a piece once the decision
   has arrived. *)
CmAtomic ==
  \A t \in CmTxns : \A n \in 0..cm_load.retry :
    /\ cm_hist[<<t, n>>].commit = {} \/ cm_hist[<<t, n>>].abort = {}
    /\ n < cm_coord[t].try => cm_hist[<<t, n>>].commit = {}
    /\ CmQuiet /\ cm_coord[t].reply = "SUCCESS" /\ cm_load.mode # "none" /\ n = cm_coord[t].try
         => cm_hist[<<t, n>>].commit = {CmPieceOf[p].par : p \in CmPieces(t)}

(* Nobody is left behind: when no call is on its way every transaction is answered, and
   no server keeps an executor or a row lock. *)
CmNoneStuck ==
  CmQuiet => /\ \A t \in CmTxns : cm_coord[t].reply # "none"
             /\ \A s \in CmPars : /\ DOMAIN cm_srv[s].exec = {}
                                  /\ \A x \in CmRows : cm_srv[s].w[x] = <<>> /\ cm_srv[s].r[x] = {}

(* The verify calls of coordinator, scheduler and executor hold. *)
CmNoVerifyFails == ~cm_bad
=====
