----- MODULE Janus -----
(* The Janus baseline ("brq"): a coordinator collects, from every replica of every
   partition, the transactions that came before its own; commits the dependency graph it
   puts together; and each replica runs the strongly connected components of its copy of
   the graph in order. Modelled from src/deptran/brq and src/deptran/rcc.  ROCOCO itself
   cannot run in this tree (RccCoord::Finish and RccSched::OnInquire are verify(0));
   what Janus inherits from it is here. Ballots are always 0 and the graph of a
   PreAccept always holds the one transaction, so OnPreAcceptWoGraph is the only
   first-phase handler. *)
EXTENDS Naturals, FiniteSets, SequencesExt, Messages

CONSTANTS
    JaPieceOf,  \* piece -> [txn, par, rows, needs, gives]
    JaLoads  \* set of [txns, reps, rank, late]: transactions, replicas per partition, order
                \* of the vertices' addresses, whether a message may take 100 ms

VARIABLES
    ja_load,  \* the load this behaviour runs
    ja_coord,  \* transaction -> its coordinator
    ja_srv,  \* server -> its scheduler: vertices, rows, waitlist, pieces run
    ja_net,  \* FIFO connections between coordinators and servers
    ja_bad  \* a verify() of the code failed

janusVars == <<ja_load, ja_coord, ja_srv, ja_net, ja_bad>>

JaTxns == ja_load.txns
JaPieces(t) == {p \in DOMAIN JaPieceOf : JaPieceOf[p].txn = t}
JaPiecesAt(t, s) == {p \in JaPieces(t) : JaPieceOf[p].par = s}
JaPars(t) == {JaPieceOf[p].par : p \in JaPieces(t)}
JaServers == UNION {{<<"srv", s, r>> : r \in 1..ja_load.reps} : s \in UNION {JaPars(t) : t \in JaTxns}}
JaCoord(t) == <<"coord", t>>
JaReplicas(s) == {v \in JaServers : v[2] = s}
JaRows == UNION {JaPieceOf[p].rows : p \in DOMAIN JaPieceOf}
JaNodes == JaServers \cup {JaCoord(t) : t \in JaTxns}
JaAscending(S) == SetToSortSeq(S, LAMBDA a, b : a < b)
JaByAddress(S) == SetToSortSeq(S, LAMBDA a, b : ja_load.rank[a] < ja_load.rank[b])

(* Vertices and graphs *)
\* A status is a set of bits, compared as the number it stands for.
JaVal(st) == (IF "PAC" \in st THEN 2 ELSE 0) + (IF "CMT" \in st THEN 8 ELSE 0) + (IF "DCD" \in st THEN 16 ELSE 0)
JaCommitted(d) == JaVal(d.st) >= 8

JaVertex == [st |-> {}, parents |-> {}, pars |-> {}]
JaFreshTx == [st |-> {}, parents |-> {}, pars |-> {}, inv |-> "UNKNOWN", fd |-> FALSE, pieces |-> {},
              have |-> {}, executed |-> FALSE, commit |-> FALSE, replied |-> FALSE, asked |-> FALSE,
              asking |-> FALSE, inquirers |-> {}, to_checks |-> {}, timer |-> "off", scc |-> <<>>]

\* The statuses decide whose parents survive: united only while both are
\* below PAC, else the newcomer's replace the ones known here.
JaAggregateVertex(l, r) ==
    LET kept == CASE JaVal(l.st) <= 1 /\ JaVal(r.st) <= 1 -> l.parents \cup r.parents
                  [] JaVal(r.st) >= 8 /\ JaVal(r.st) > JaVal(l.st) -> r.parents
                  [] JaVal(r.st) \in 2..7 /\ JaVal(r.st) >= JaVal(l.st) -> r.parents
                  [] OTHER -> l.parents
    IN  [l EXCEPT !.parents = kept, !.pars = @ \cup r.pars, !.st = @ \cup r.st]

\* The coordinator's graph copies a vertex it has not seen ...
JaAggregate(g, h) ==
    [t \in DOMAIN g \cup DOMAIN h |->
        IF t \notin DOMAIN h THEN g[t]
        ELSE JaAggregateVertex(IF t \in DOMAIN g THEN g[t] ELSE h[t], h[t])]
\* ... a scheduler creates it with the status and the partitions, not the parents.
JaAggregateAt(S, h) ==
    LET lhs(t) == IF t \in DOMAIN S.tx THEN S.tx[t]
                  ELSE [JaFreshTx EXCEPT !.st = h[t].st, !.pars = h[t].pars]
    IN  [S EXCEPT !.tx = [t \in DOMAIN @ \cup DOMAIN h |->
            IF t \in DOMAIN h THEN JaAggregateVertex(lhs(t), h[t]) ELSE @[t]]]

JaCopyOf(d) == [st |-> d.st, parents |-> d.parents, pars |-> d.pars]
\* MinItfrGraph: the transaction and, with nothing but a name, its parents.
JaMinItfrGraph(S, t) ==
    [u \in {t} \cup S.tx[t].parents |->
        IF u = t THEN [JaCopyOf(S.tx[t]) EXCEPT !.st = IF JaVal(@) >= 16 THEN {"CMT"} ELSE @]
        ELSE [JaVertex EXCEPT !.pars = S.tx[u].pars]]

(* Schedulers.  An operation maps a scheduler's state, with the messages it has sent so
   far in .out, to the state after it. *)
JaFreshServer == [tx |-> [t \in {} |-> JaFreshTx], last |-> [x \in JaRows |-> 0], waitlist |-> {},
                  unknown |-> <<>>, ran |-> <<>>, out |-> <<>>, bad |-> FALSE]

JaVerify(S, cond) == [S EXCEPT !.bad = @ \/ ~cond]
JaSend(S, D, m) == [S EXCEPT !.out = Append(@, To(D, m))]
JaGetOrCreate(S, s, t) ==
    [S EXCEPT !.tx = [u \in DOMAIN @ \cup {t} |->
        LET d == IF u \in DOMAIN @ THEN @[u] ELSE JaFreshTx
        IN  IF u = t THEN [d EXCEPT !.pars = @ \cup {s}] ELSE d]]

JaInvolves(d, s) == d.inv = "INVOLVED" \/ (d.inv = "UNKNOWN" /\ s \in d.pars)
\* The answer is remembered once the transaction is committing.
JaInvolve(S, s, t) ==
    IF S.tx[t].inv = "UNKNOWN" /\ "CMT" \in S.tx[t].st
    THEN [S EXCEPT !.tx[t].inv = IF s \in S.tx[t].pars THEN "INVOLVED" ELSE "FOREIGN"]
    ELSE S

\* RecursiveExecuteReadyPieces: run what has its inputs until nothing new has.
RECURSIVE JaReadyFrom(_, _, _)
JaReadyFrom(ps, have, s) ==
    LET run == {p \in ps : JaPieceOf[p].needs \subseteq have}
        got == have \cup UNION {JaPieceOf[p].gives : p \in run}
    IN  IF got = have THEN [run |-> run, have |-> have] ELSE JaReadyFrom(ps, got, s)

\* TraceDep: the last transaction on each row becomes a parent, unless executed.
JaTraceDep(S, t, rows) ==
    LET before == {S.last[x] : x \in rows} \ {0, t}
    IN  [S EXCEPT !.tx[t].parents = @ \cup {u \in before : ~S.tx[u].executed},
                  !.last = [x \in JaRows |-> IF x \in rows THEN t ELSE @[x]]]
\* TraceDepUnkKey: the last transaction whose keys are not all known.
JaTraceDepUnkKey(S, t) ==
    IF S.unknown = <<>> \/ Last(S.unknown) = t \/ S.tx[Last(S.unknown)].executed THEN S
    ELSE [S EXCEPT !.tx[t].parents = @ \cup {Last(S.unknown)}]

\* DispatchExec: trace the rows of the pieces that can run already.  A piece whose
\* inputs were not there on arrival, even if another piece here gives them, comes
\* after the last transaction with unknown keys.
JaDispatchExec(S, s, t) ==
    LET r == JaReadyFrom(S.tx[t].pieces, S.tx[t].have, s)
        waits == r.run # S.tx[t].pieces
        inputNotReady == \E p \in S.tx[t].pieces : ~(JaPieceOf[p].needs \subseteq S.tx[t].have)
        S1 == IF inputNotReady THEN JaTraceDepUnkKey(S, t) ELSE S
        S2 == JaTraceDep(S1, t, UNION {JaPieceOf[p].rows : p \in r.run})
    IN  [S2 EXCEPT !.tx[t].have = r.have,
                   !.unknown = IF waits /\ t \notin ToSet(@) THEN Append(@, t) ELSE @]

\* Values other partitions wait for.
JaTargets(t, ps, s) == {u \in JaPars(t) \ {s} : \E p \in ps, q \in JaPiecesAt(t, u) :
                            JaPieceOf[p].gives \cap JaPieceOf[q].needs # {}}
JaOutputs(ps) == UNION {JaPieceOf[p].gives : p \in ps}

\* One run of the pieces in r, with what it sends to other partitions.
JaSendOutput(S, s, t, run) ==
    LET to == UNION {JaReplicas(u) : u \in JaTargets(t, run, s)}
    IN  IF to = {} THEN S ELSE JaSend(S, to, [type |-> "SendOutput", txn |-> t, vars |-> JaOutputs(run)])
JaRunPieces(S, s, t, r) ==
    JaSendOutput([JaVerify(S, "DCD" \in S.tx[t].st) EXCEPT !.ran = @ \o JaAscending(r.run), !.tx[t].have = r.have],
                 s, t, r.run)
\* ReplyFinishOk: the coordinator is told once.
JaFinished(S, s, t) ==
    LET d == S.tx[t]
        S1 == [S EXCEPT !.tx[t].executed = TRUE, !.tx[t].replied = @ \/ d.commit]
    IN  IF d.commit /\ ~d.replied THEN JaSend(S1, {JaCoord(t)}, [type |-> "CommitAck", par |-> s]) ELSE S1

\* TryExecReadyPieces: every ready piece runs (again), and the transaction
\* is executed once all its pieces have, unless this is speculative.
JaTryExecReadyPieces(S, s, t, spec) ==
    LET d == S.tx[t]
        r == JaReadyFrom(d.pieces, d.have, s)
    IN  IF ~JaInvolves(d, s) THEN S
        ELSE IF spec \/ r.run # d.pieces THEN JaRunPieces(S, s, t, r)
        ELSE JaFinished(JaRunPieces(S, s, t, r), s, t)

(* The waitlist *)
\* Mutant: the clock is never started.
JaStartTimer_Never(S, t) == S
\* checkInquire: the first call starts the clock; true 100 ms later.
JaStartTimer(S, t) == [S EXCEPT !.tx[t].timer = IF @ = "off" THEN "on" ELSE @]

\* Mutant: an ancestor that has not committed does not stop the search.
JaHint_Executed(d, t, why, scc) == IF d.executed THEN "skip" ELSE "ok"

\* What the searches of AllAncCmt ("cmt") and AllAncFns ("fns") say of a vertex.
JaHint(d, t, why, scc) ==
    CASE d.executed -> "skip"
      [] ~d.executed /\ d.inv # "INVOLVED" -> IF d.timer = "late" THEN "skip" ELSE "wait"
      [] OTHER -> IF JaVal(d.st) >= (IF why = "cmt" THEN 8 ELSE 16) \/ (why = "fns" /\ t \in scc)
                  THEN "ok" ELSE "exit"

\* TraversePred: depth first over the parents; .stop is the vertex that ends it.
RECURSIVE JaTraverse(_, _, _, _, _)
JaTraverse(S, acc, todo, why, scc) ==
    IF todo = <<>> \/ acc.stop # 0 THEN acc
    ELSE LET u == Head(todo)
             hint == IF u \in DOMAIN S.tx THEN JaHint(S.tx[u], u, why, scc) ELSE "skip"
             deeper == IF hint # "ok" \/ u \in acc.walked THEN acc
                       ELSE JaTraverse(S, [acc EXCEPT !.walked = @ \cup {u}],
                                       JaAscending(S.tx[u].parents), why, scc)
         IN  IF hint \in {"exit", "wait"} THEN [acc EXCEPT !.stop = u, !.hint = hint]
             ELSE JaTraverse(S, IF hint = "skip" /\ u \in DOMAIN S.tx /\ why = "fns"
                                THEN [deeper EXCEPT !.done = @ \cup {u}] ELSE deeper,
                             Tail(todo), why, scc)
JaSearch(S, t, why, scc) ==
    JaTraverse(S, [walked |-> {t}, stop |-> 0, hint |-> "ok", done |-> {}], JaAscending(S.tx[t].parents), why, scc)

\* FindSccPred: the component of t among the vertices without one, in the
\* order Tarjan's stack gives them back.
RECURSIVE JaDiscover(_, _, _)
JaDiscover(S, seen, todo) ==
    IF todo = <<>> THEN seen
    ELSE IF Head(todo) \in ToSet(seen) \/ Head(todo) \notin DOMAIN S.tx \/ S.tx[Head(todo)].scc # <<>>
         THEN JaDiscover(S, seen, Tail(todo))
         ELSE JaDiscover(S, JaDiscover(S, Append(seen, Head(todo)), JaAscending(S.tx[Head(todo)].parents)), Tail(todo))
JaScc(S, t) ==
    IF S.tx[t].scc # <<>> THEN S.tx[t].scc
    ELSE Reverse(SelectSeq(JaDiscover(S, <<>>, <<t>>), LAMBDA u : t \in ToSet(JaDiscover(S, <<>>, <<u>>))))
JaNoteScc(S, scc) ==
    [S EXCEPT !.tx = [u \in DOMAIN @ |-> IF u \in ToSet(scc) THEN [@[u] EXCEPT !.scc = scc] ELSE @[u]]]
JaFindSccPred(S, t) == JaNoteScc(S, JaScc(S, t))

JaDecide(S, scc) ==
    [S EXCEPT !.tx = [u \in DOMAIN @ |-> IF u \in ToSet(scc) THEN [@[u] EXCEPT !.st = @ \cup {"DCD"}] ELSE @[u]]]

\* What is executed has no unknown keys any more.
JaForgetUnknown(S, u) ==
    IF S.tx[u].executed THEN [S EXCEPT !.unknown = SelectSeq(@, LAMBDA w : w # u)] ELSE S
\* A foreign vertex counts as executed.
JaNoteExecuted(S, u) ==
    IF S.tx[u].executed \/ S.tx[u].inv = "INVOLVED" THEN JaForgetUnknown(S, u)
    ELSE [S EXCEPT !.tx[u].executed = TRUE]

\* ExecuteScc: after one that cannot finish the rest only runs speculatively.
RECURSIVE JaExecuteScc(_, _, _, _)
JaExecuteScc(S, s, scc, spec) ==
    IF scc = <<>> THEN S
    ELSE LET u == Head(scc)
             S1 == JaNoteExecuted(JaTryExecReadyPieces(S, s, u, spec), u)
         IN  JaExecuteScc(S1, s, Tail(scc), spec \/ ~S1.tx[u].executed)

JaFullyDispatched(S, s, scc) == \A u \in ToSet(scc) : JaInvolves(S.tx[u], s) => S.tx[u].fd

\* InquiredGraph: the component of a decided transaction, else its parents' names.
JaInquiredGraph(S, t) ==
    IF "DCD" \in S.tx[t].st THEN [u \in ToSet(JaScc(S, t)) |-> JaCopyOf(S.tx[u])] ELSE JaMinItfrGraph(S, t)
JaAnswerIfInquired(S, t) ==
    IF S.tx[t].inquirers = {} \/ ~JaCommitted(S.tx[t]) THEN S
    ELSE [JaSend(S, S.tx[t].inquirers, [type |-> "InquireAck", txn |-> t, graph |-> JaInquiredGraph(S, t)])
              EXCEPT !.tx[t].inquirers = {}]

\* The vertex that ends the search remembers whom to check again.
JaBlocked(S, t, a, why) ==
    LET S1 == IF a.hint = "wait" THEN JaStartTimer(S, a.stop) ELSE S
    IN  IF why = "cmt" \/ a.hint = "exit" THEN [S1 EXCEPT !.tx[a.stop].to_checks = @ \cup {t}] ELSE S1
\* AllAncFns marks what it skips as executed.
JaSkipped(S, a) == [S EXCEPT !.tx = [u \in DOMAIN @ |-> IF u \in a.done THEN [@[u] EXCEPT !.executed = TRUE] ELSE @[u]]]

\* The component scc is decided, and runs when all ancestors outside it have.
JaRunScc(S, s, scc, f) ==
    IF f.stop # 0 THEN JaBlocked(S, scc[1], f, "fns")
    ELSE IF JaFullyDispatched(S, s, scc) THEN JaExecuteScc(S, s, scc, FALSE) ELSE S
JaTryScc(S, s, scc) ==
    LET f == JaSearch(S, scc[1], "fns", ToSet(scc)) IN JaRunScc(JaSkipped(S, f), s, scc, f)
JaCheckScc(S, s, t) == JaTryScc(JaDecide(S, JaScc(S, t)), s, JaScc(S, t))

\* AllAncCmt, whose search is a, then the rest.
JaCheckAncestors(S, s, t, a) ==
    IF a.stop # 0 THEN JaBlocked(S, t, a, "cmt") ELSE JaCheckScc(JaFindSccPred(S, t), s, t)
JaCheckOne(S, s, t) ==
    IF ~JaCommitted(S.tx[t]) \/ S.tx[t].executed THEN S
    ELSE JaAnswerIfInquired(JaCheckAncestors(S, s, t, JaSearch(S, t, "cmt", {})), t)

JaInquireAboutIfNeeded(S, s, t) ==
    IF JaVal(S.tx[t].st) > 1 \/ S.tx[t].asking \/ JaInvolves(S.tx[t], s) THEN S
    ELSE [JaSend(S, {<<"srv", Head(JaAscending(S.tx[t].pars)), 1>>}, [type |-> "Inquire", txn |-> t])
              EXCEPT !.tx[t].asking = TRUE]

\* Who waited for an executed or foreign transaction is checked in its place.
JaLeaveWaitlist(S, s, t) ==
    IF S.tx[t].executed \/ ~JaInvolves(S.tx[t], s)
    THEN [S EXCEPT !.waitlist = (@ \cup S.tx[t].to_checks) \ {t}, !.tx[t].to_checks = {}]
    ELSE S

JaCheckEntry(S, s, t) ==
    JaLeaveWaitlist(JaCheckOne(JaInquireAboutIfNeeded(JaInvolve(S, s, t), s, t), s, t), s, t)

RECURSIVE JaCheckFrom(_, _, _)
JaCheckFrom(S, s, after) ==
    LET rest == JaByAddress({t \in S.waitlist : ja_load.rank[t] > after})
        t == Head(rest)
    IN  IF rest = <<>> THEN S ELSE JaCheckFrom(JaCheckEntry(S, s, t), s, ja_load.rank[t])
JaCheckWaitlist(S, s) == JaCheckFrom(S, s, 0)
JaTriggerCheck(S, s, g) == JaCheckWaitlist([S EXCEPT !.waitlist = @ \cup DOMAIN g], s)

(* Handlers of a scheduler *)
JaOnPreAccept(S, s, t) ==
    LET S1 == JaGetOrCreate(S, s, t)
        S2 == [S1 EXCEPT !.tx[t].st = IF JaVal(@) < 2 THEN {"PAC"} ELSE @, !.tx[t].inv = "INVOLVED",
                         !.tx[t].pieces = JaPiecesAt(t, s)]
        S3 == IF JaCommitted(S2.tx[t]) THEN [S2 EXCEPT !.waitlist = @ \cup {t}] ELSE JaDispatchExec(S2, s, t)
        S4 == [JaVerify(S3, ~S2.tx[t].fd) EXCEPT !.tx[t].fd = TRUE]
    IN  JaSend(S4, {JaCoord(t)}, [type |-> "PreAcceptAck", par |-> s, graph |-> JaMinItfrGraph(S4, t)])

JaOnAccept(S, s, t, m) ==
    JaSend(JaAggregateAt(JaGetOrCreate(S, s, t), m.graph), {JaCoord(t)}, [type |-> "AcceptAck", par |-> s])

\* A graph of the transaction alone: nothing to wait for.
JaCommitAlone(S, s, t) ==
    JaForgetUnknown(JaTryExecReadyPieces([JaVerify(S, S.tx[t].fd) EXCEPT !.tx[t].st = @ \cup {"DCD"}], s, t, FALSE), t)
JaReleaseWaiting(S, s, t) ==
    IF S.tx[t].to_checks = {} THEN S ELSE JaCheckWaitlist([S EXCEPT !.waitlist = @ \cup S.tx[t].to_checks], s)

JaCommitAt(S, s, t, m) ==
    IF S.tx[t].executed THEN JaSend(S, {JaCoord(t)}, [type |-> "CommitAck", par |-> s])
    ELSE LET S1 == [S EXCEPT !.tx[t].commit = TRUE]
         IN  IF DOMAIN m.graph # {t} THEN JaTriggerCheck(JaAggregateAt(S1, m.graph), s, m.graph)
             ELSE JaReleaseWaiting(JaCommitAlone(S1, s, t), s, t)
JaOnCommit(S, s, t, m) ==
    LET S1 == JaGetOrCreate(S, s, t)
    IN  JaCommitAt([JaVerify(S1, ~S1.tx[t].asked) EXCEPT !.tx[t].asked = TRUE], s, t, m)

\* Mutant: an inquiry is answered before the transaction commits.
JaOnInquire_Now(S, s, t, from) ==
    LET S1 == JaGetOrCreate(S, s, t)
    IN  JaSend(S1, {from}, [type |-> "InquireAck", txn |-> t, graph |-> JaInquiredGraph(S1, t)])

\* An inquiry about a transaction that has not committed waits for it.
JaOnInquire(S, s, t, from) ==
    LET S1 == JaGetOrCreate(S, s, t)
        S2 == JaVerify(S1, JaInvolves(S1.tx[t], s))
    IN  IF JaCommitted(S2.tx[t])
        THEN JaSend(S2, {from}, [type |-> "InquireAck", txn |-> t, graph |-> JaInquiredGraph(S2, t)])
        ELSE [S2 EXCEPT !.tx[t].inquirers = @ \cup {from}, !.waitlist = @ \cup {t}]

JaVerifyCommitted(S, t) == JaVerify(S, JaCommitted(S.tx[t]))
JaInquireAck(S, s, t, m) ==
    JaVerifyCommitted(JaTriggerCheck(JaAggregateAt(S, m.graph), s, m.graph), t)

\* OnSendOutput: every replica of the sender sends; the first copy counts.
JaOnSendOutput(S, s, t, m) ==
    LET S1 == JaGetOrCreate(S, s, t)
        d == S1.tx[t]
        more == \E p \in d.pieces : ~(JaPieceOf[p].needs \subseteq d.have) /\ JaPieceOf[p].needs \subseteq d.have \cup m.vars
        S2 == [S1 EXCEPT !.tx[t].have = @ \cup (m.vars \cap UNION {JaPieceOf[p].needs : p \in d.pieces})]
    IN  IF d.executed THEN S1
        ELSE IF more THEN JaCheckWaitlist([S2 EXCEPT !.waitlist = @ \cup {t}], s) ELSE S2

\* Server v goes on as S and sends what S lists.
JaBecomes(v, S, net) ==
    /\ ja_srv' = [ja_srv EXCEPT ![v] = [S EXCEPT !.out = <<>>, !.bad = FALSE]]
    /\ ja_net' = SendFrom(net, v, S.out)
    /\ ja_bad' = (ja_bad \/ S.bad)
    /\ UNCHANGED <<ja_load, ja_coord>>

\* One message handled by a server of partition s, which took it from c[1].
JaHandled(S, s, m, c) ==
    CASE m.type = "PreAccept" -> JaOnPreAccept(S, s, m.txn)
      [] m.type = "Accept" -> JaOnAccept(S, s, m.txn, m)
      [] m.type = "Commit" -> JaOnCommit(S, s, m.txn, m)
      [] m.type = "Inquire" -> JaOnInquire(S, s, m.txn, c[1])
      [] m.type = "InquireAck" -> JaInquireAck(S, s, m.txn, m)
      [] m.type = "SendOutput" -> JaOnSendOutput(S, s, m.txn, m)
JaHandle(v, c) ==
    /\ ja_net[c] # <<>>
    /\ JaBecomes(v, JaHandled([ja_srv[v] EXCEPT !.out = <<>>], v[2], Head(ja_net[c]), c), Taken(ja_net, c))

\* 100 ms pass on a foreign ancestor; the calls of later transactions
\* look at the waitlist again.
JaLate(v, t) ==
    /\ ja_load.late
    /\ t \in DOMAIN ja_srv[v].tx /\ ja_srv[v].tx[t].timer = "on"
    /\ ja_srv' = [ja_srv EXCEPT ![v].tx[t].timer = "late"]
    /\ UNCHANGED <<ja_load, ja_coord, ja_net, ja_bad>>
JaChecked(v) == JaCheckWaitlist([ja_srv[v] EXCEPT !.out = <<>>], v[2])
JaLaterTraffic(v) ==
    /\ JaChecked(v) # ja_srv[v]
    /\ JaBecomes(v, JaChecked(v), ja_net)

(* Coordinators *)
JaFreshCoord(t) == [phase |-> "INIT_END", graph |-> [u \in {t} |-> JaVertex],
                    graphs |-> [s \in JaPars(t) |-> <<>>], oks |-> [s \in JaPars(t) |-> 0], acks |-> {}]
JaToAll(t, type, g) ==
    <<To(UNION {JaReplicas(s) : s \in JaPars(t)}, [type |-> type, txn |-> t, graph |-> g])>>
JaStepTo(t, c, net, sends) ==
    /\ ja_coord' = [ja_coord EXCEPT ![t] = c]
    /\ ja_net' = SendFrom(net, JaCoord(t), sends)
    /\ UNCHANGED <<ja_load, ja_srv>>

JaPreAccept(t) ==
    /\ ja_coord[t].phase = "INIT_END"
    /\ JaStepTo(t, [ja_coord[t] EXCEPT !.phase = "PRE_ACCEPT"], ja_net, JaToAll(t, "PreAccept", <<>>))
    /\ UNCHANGED ja_bad

JaFastQuorum == ja_load.reps
JaSlowQuorum == ja_load.reps \div 2 + 1
\* FastQuorumGraphCheck: 1 the same parents everywhere, 2 not, 3 replies missing.
JaFastQuorumGraphCheck(c, t, s) ==
    IF Len(c.graphs[s]) < JaFastQuorum THEN 3
    ELSE IF \A i \in DOMAIN c.graphs[s] : c.graphs[s][i][t].parents = c.graphs[s][1][t].parents THEN 1 ELSE 2

\* ChooseGraph: partitions in ascending order; on the fast path one graph each.
RECURSIVE JaAggregateAll(_, _)
JaAggregateAll(g, gs) == IF gs = <<>> THEN g ELSE JaAggregateAll(JaAggregate(g, Head(gs)), Tail(gs))
JaChooseGraph(c, t, fast) ==
    LET pars == JaAscending(JaPars(t))
        gs == FlattenSeq([i \in DOMAIN pars |-> IF fast THEN <<c.graphs[pars[i]][1]>> ELSE c.graphs[pars[i]]])
    IN  JaAggregateAll(c.graph, gs)
JaCommitGraph(g, t) == [g EXCEPT ![t].st = @ \cup {"CMT"}]

JaPreAcceptAck(t, k) ==
    LET m == Head(ja_net[k])
        c == [ja_coord[t] EXCEPT !.graphs[m.par] = Append(@, m.graph)]
        check == {JaFastQuorumGraphCheck(c, t, s) : s \in JaPars(t)}
        chosen == JaCommitGraph(JaChooseGraph(c, t, check = {1}), t)
        fast == check = {1}
        slow == 2 \in check /\ \A s \in JaPars(t) : Len(c.graphs[s]) >= JaSlowQuorum
        next == [c EXCEPT !.phase = IF fast THEN "COMMIT" ELSE "ACCEPT", !.graph = chosen]
        step == ja_coord[t].phase = "PRE_ACCEPT" /\ (fast \/ slow)
    IN  /\ Receives(ja_net, k, "PreAcceptAck")
        /\ JaStepTo(t, IF step THEN next ELSE c, Taken(ja_net, k),
                    IF step THEN JaToAll(t, IF fast THEN "Commit" ELSE "Accept", chosen) ELSE <<>>)
        /\ ja_bad' = (ja_bad \/ (step /\ chosen[t].pars # JaPars(t)))

JaAcceptAck(t, k) ==
    LET m == Head(ja_net[k])
        c == [ja_coord[t] EXCEPT !.oks[m.par] = @ + 1]
    IN  /\ Receives(ja_net, k, "AcceptAck")
        /\ IF c.phase = "ACCEPT" /\ \A s \in JaPars(t) : c.oks[s] >= JaSlowQuorum
           THEN JaStepTo(t, [c EXCEPT !.phase = "COMMIT"], Taken(ja_net, k), JaToAll(t, "Commit", c.graph))
           ELSE JaStepTo(t, IF c.phase = "ACCEPT" THEN c ELSE ja_coord[t], Taken(ja_net, k), <<>>)
        /\ UNCHANGED ja_bad

\* Mutant: any first answer ends it.
JaAllAcked_One(t, c) == c.acks # {}
\* CommitAck: the first answer of every partition ends the transaction.
JaAllAcked(t, c) == c.acks = JaPars(t)
JaCommitAck(t, k) ==
    LET m == Head(ja_net[k])
        c == [ja_coord[t] EXCEPT !.acks = @ \cup {m.par}]
    IN  /\ Receives(ja_net, k, "CommitAck")
        /\ JaStepTo(t, IF c.phase = "COMMIT" /\ JaAllAcked(t, c) THEN [c EXCEPT !.phase = "END"] ELSE c, Taken(ja_net, k), <<>>)
        /\ UNCHANGED ja_bad

JaInit ==
    /\ ja_load \in JaLoads
    /\ ja_coord = [t \in JaTxns |-> JaFreshCoord(t)]
    /\ ja_srv = [v \in JaServers |-> JaFreshServer]
    /\ ja_net = [c \in JaNodes \X JaNodes |-> <<>>]
    /\ ja_bad = FALSE

JaNext ==
    \/ \E t \in JaTxns : JaPreAccept(t) \/ \E v \in JaServers :
            LET k == <<v, JaCoord(t)>> IN JaPreAcceptAck(t, k) \/ JaAcceptAck(t, k) \/ JaCommitAck(t, k)
    \/ \E v \in JaServers : \/ \E n \in JaNodes : JaHandle(v, <<n, v>>)
                            \/ \E t \in JaTxns : JaLate(v, t)
                            \/ JaLaterTraffic(v)

(* Properties *)
JaRan(v, t) == {i \in DOMAIN ja_srv[v].ran : JaPieceOf[ja_srv[v].ran[i]].txn = t}

\* CommitAck (brq/coord.cc): when the coordinator ends a transaction, every
\* partition it touched has a replica that ran all of its pieces there.
JaAnswerAfterExecution ==
    \A t \in JaTxns : ja_coord[t].phase = "END" =>
        \A s \in JaPars(t) : \E v \in JaReplicas(s) : JaPiecesAt(t, s) \subseteq {ja_srv[v].ran[i] : i \in JaRan(v, t)}

\* A replica runs a transaction after the ancestors its graph gives it,
\* except those of its own component: what AllAncCmt and AllAncFns wait for.
JaRunsAfterAncestors ==
    \A v \in JaServers : \A t \in DOMAIN ja_srv[v].tx : \A u \in ja_srv[v].tx[t].parents :
        (JaRan(v, t) # {} /\ u \in DOMAIN ja_srv[v].tx /\ ja_srv[v].tx[u].inv = "INVOLVED"
            /\ u \notin ToSet(ja_srv[v].tx[t].scc))
        => \E i \in JaRan(v, u) : \A j \in JaRan(v, t) : i < j

\* Replicas of a partition run transactions that write the same row in the
\* same order ("brq is equivalent to Janus", README.md).
JaConflict(t, u, s) == \E p \in JaPiecesAt(t, s), q \in JaPiecesAt(u, s) : JaPieceOf[p].rows \cap JaPieceOf[q].rows # {}
JaFirst(v, t) == CHOOSE i \in JaRan(v, t) : \A j \in JaRan(v, t) : i <= j
JaReplicasAgree ==
    \A v, w \in JaServers : \A t, u \in JaTxns :
        (v[2] = w[2] /\ t # u /\ JaConflict(t, u, v[2])
            /\ \A x \in {v, w} : JaRan(x, t) # {} /\ JaRan(x, u) # {})
        => ((JaFirst(v, t) < JaFirst(v, u)) <=> (JaFirst(w, t) < JaFirst(w, u)))

\* When no message is left and every timer that was started has expired, every
\* transaction has ended, or looking at the waitlists again changes something.
JaQuiet ==
    /\ AllHandled(ja_net)
    /\ \A v \in JaServers : \A t \in DOMAIN ja_srv[v].tx : ja_srv[v].tx[t].timer # "on" \/ ~ja_load.late
JaEnded == \A t \in JaTxns : ja_coord[t].phase \in {"INIT_END", "END"}
JaNoneStuck == JaQuiet => JaEnded \/ \E v \in JaServers : JaChecked(v) # ja_srv[v]

\* No verify() of the protocol fails.
JaNoVerifyFails == ~ja_bad
=====
