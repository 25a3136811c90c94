----- MODULE MCProtocols -----
(* Workloads for the protocols DAST is compared with and those it was built from: SLOG,
   Ocean Vista, the locks of 2PL, the two-phase commit of ClassicCoord, TAPIR, the
   Multi-Paxos log under two-phase commit and the dependency graphs of Janus.  A
   behaviour runs one of them; the others stay in one of their initial states. *)
EXTENDS Slog, OceanVista, Tpl, Janus, Protocols

VARIABLE part
mcVars == <<part, slVars, ovVars, tplVars, commitVars, tapirVars, paxosVars, janusVars>>

(* SLOG: two regions of one shard with two replicas.  t1 and t2 span both regions, are
   submitted in different ones and conflict on both shards; t1 passes a variable from
   one shard to the other; t3 is local and conflicts. *)
Pc(t, par, type, needs, gives) ==
  [txn |-> t, par |-> par, type |-> type, needs |-> needs, gives |-> gives]
SlCross == (1 :> Pc("t1", 0, "a", {"v"}, {})) @@ (2 :> Pc("t1", 1, "b", {}, {"v"}))
SlTwo   == SlCross @@ (3 :> Pc("t2", 0, "a", {}, {})) @@ (4 :> Pc("t2", 1, "b", {}, {}))
SlMixed == SlCross @@ (5 :> Pc("t3", 0, "a", {}, {}))
MCSlLoads == {SlTwo, SlMixed}
MCSlHome == ("t1" :> {0}) @@ ("t2" :> {2}) @@ ("t3" :> {1})
MCSlConflicts == {<<"a", "a">>, <<"b", "b">>}

(* Ocean Vista: two data centres of one site, which hold two partitions or two replicas
   of one.  Transaction 1 touches both partitions, the second piece takes the output of
   the first; 2 touches one partition. *)
OvPc(t, par, needs) == [txn |-> t, par |-> par, needs |-> needs]
MCOvPieceOf == (1 :> OvPc(1, 0, {})) @@ (2 :> OvPc(1, 1, {1})) @@ (3 :> OvPc(2, 0, {}))
MCOvDcOf == (0 :> "d0") @@ (1 :> "d1")
MCOvNear == [t \in OvTxns |-> {0}]
OvTwoPars == (0 :> 0) @@ (1 :> 1)
OvTwoReps == (0 :> 0) @@ (1 :> 0)
OvLayout(par, txns, aggregates, gossips) ==
  [par |-> par, txns |-> txns, aggregates |-> aggregates, gossips |-> gossips]
MCOvLayouts == {OvLayout(OvTwoPars, {1}, 2, 1), OvLayout(OvTwoReps, {2}, 2, 0), OvLayout(OvTwoPars, {1, 2}, 0, 0)}

(* Three columns.  1 updates the first and reads the second; 2 does the reverse and
   reads the third in a second piece of its batch; 3 sends two batches and conflicts
   with both; 4 updates the third column in two pieces, as an order with the same item
   in two lines does. *)
TpPc(b, acc) == [batch |-> b, acc |-> acc]
TpBt(t, pieces) == [txn |-> t, pieces |-> pieces, after |-> {}]
Reads(x) == << <<x, "R">> >>
Updates(x) == << <<x, "R">>, <<x, "W">> >>
MCTpPieceOf ==
  (1 :> TpPc(1, Updates(1) \o Reads(2))) @@ (2 :> TpPc(2, Updates(2) \o Reads(1))) @@ (3 :> TpPc(2, Reads(3))) @@
  (4 :> TpPc(3, Updates(3) \o Reads(1))) @@ (5 :> TpPc(4, Updates(2))) @@
  (6 :> TpPc(5, Reads(1) \o Updates(3))) @@ (7 :> TpPc(5, Updates(3)))
MCTpBatchOf ==
  (1 :> TpBt(1, <<1>>)) @@ (2 :> TpBt(2, <<2, 3>>)) @@ (3 :> TpBt(3, <<4>>)) @@
  (4 :> TpBt(3, <<5>>)) @@ (5 :> TpBt(4, <<6, 7>>))
MCTpPriority == (1 :> 4) @@ (2 :> 2) @@ (3 :> 1) @@ (4 :> 3)

(* 1 updates x, then writes y with what it read; 2 updates y and reads x; 3 reads both;
   every two of them conflict. *)
CmPc(t, par, reads, writes, needs) ==
  [txn |-> t, par |-> par, reads |-> reads, writes |-> writes, needs |-> needs]
MCCmPieceOf ==
  (1 :> CmPc(1, 0, {"x"}, {"x"}, {})) @@ (2 :> CmPc(1, 1, {}, {"y"}, {1})) @@
  (3 :> CmPc(2, 1, {"y"}, {"y"}, {})) @@ (4 :> CmPc(2, 0, {"x"}, {}, {})) @@
  (5 :> CmPc(3, 0, {"x"}, {}, {})) @@ (6 :> CmPc(3, 1, {"y"}, {}, {}))
CmLoad(mode, txns, retry) == [mode |-> mode, txns |-> txns, retry |-> retry]
MCCmLoads == {CmLoad("2pl", {1, 2}, 1), CmLoad("2pl", {2, 3}, 1), CmLoad("none", {1, 2}, 1),
              CmLoad("occ", {1, 2}, 1), CmLoad("occ", {1, 3}, 1), CmLoad("occ", {2, 3}, 1)}

(* Partition 0 has two replicas, the others one.  1 and 2 read what the other writes on
   partitions 1 and 2; 3 and 4 write the same row from different replicas; 5 reads it
   and writes what it read elsewhere. *)
TaPc(t, par, reads, writes, outs, needs) ==
  [txn |-> t, par |-> par, reads |-> reads, writes |-> writes, outs |-> outs, needs |-> needs]
MCTaPieceOf ==
  (1 :> TaPc(1, 1, {"y"}, {}, {"y"}, {})) @@ (2 :> TaPc(1, 2, {}, {"z"}, {}, {1})) @@
  (3 :> TaPc(2, 2, {"z"}, {}, {"z"}, {})) @@ (4 :> TaPc(2, 1, {}, {"y"}, {}, {3})) @@
  (5 :> TaPc(3, 0, {}, {"x"}, {}, {})) @@ (6 :> TaPc(4, 0, {}, {"x"}, {}, {})) @@
  (7 :> TaPc(5, 0, {"x"}, {}, {"x"}, {})) @@ (8 :> TaPc(5, 1, {}, {"y"}, {}, {7}))
MCTaReps == (0 :> {0, 1}) @@ (1 :> {0}) @@ (2 :> {0})
MCTaNear == [t \in 1..5 |-> (0 :> (IF t = 4 THEN 1 ELSE 0)) @@ (1 :> 0) @@ (2 :> 0)]
MCTaLoads == {[txns |-> {1, 2}, retry |-> 0], [txns |-> {3, 4}, retry |-> 1], [txns |-> {4, 5}, retry |-> 0]}

(* One transaction on three replicas; two, aborted before or after they are prepared, on
   three and on two. *)
MpLoad(n, txns, early) == [replicas |-> n, txns |-> txns, early |-> early]
MCMpLoads == {MpLoad(3, {1}, {}), MpLoad(3, {1, 2}, {1, 2}), MpLoad(2, {1, 2}, {2})}

(* 1 and 2 write x on two replicas; 3 and 5 write x and y, 5 passes a value from x to y;
   4 writes y.  With one replica a message may be late, and the components of a cycle
   are visited in either order. *)
JaPc(t, par, rows, needs, gives) ==
  [txn |-> t, par |-> par, rows |-> rows, needs |-> needs, gives |-> gives]
MCJaPieceOf ==
  (1 :> JaPc(1, 0, {"x"}, {}, {})) @@ (2 :> JaPc(2, 0, {"x"}, {}, {})) @@
  (3 :> JaPc(3, 0, {"x"}, {}, {})) @@ (4 :> JaPc(3, 1, {"y"}, {}, {})) @@ (5 :> JaPc(4, 1, {"y"}, {}, {})) @@
  (6 :> JaPc(5, 0, {"x"}, {}, {"a"})) @@ (7 :> JaPc(5, 1, {"y"}, {"a"}, {}))
Upward   == [t \in 1..5 |-> t]
Downward == [t \in 1..5 |-> 6 - t]
JaLoad(txns, reps, late, rank) == [txns |-> txns, reps |-> reps, late |-> late, rank |-> rank]
MCJaLoads == {JaLoad({1, 2}, 2, FALSE, Upward), JaLoad({3, 4}, 1, TRUE, Upward), JaLoad({3, 4}, 1, TRUE, Downward),
              JaLoad({4, 5}, 1, TRUE, Upward), JaLoad({3, 5}, 1, TRUE, Upward)}

Init ==
  /\ part \in {"slog", "ov", "tpl", "commit", "tapir", "paxos", "janus"}
  /\ SlInit /\ OvInit /\ TpInit /\ CmInit /\ TaInit /\ MpInit /\ JaInit
  /\ part = "slog" \/ sl_load = SlTwo
  /\ part = "ov" \/ ov_lay.par = OvTwoReps
  /\ part = "tpl" \/ tp_kind = "wait-die"
  /\ part = "commit" \/ cm_load = CmLoad("2pl", {1, 2}, 1)
  /\ part = "tapir" \/ ta_load = [txns |-> {1, 2}, retry |-> 0]
  /\ part = "paxos" \/ mp_load = MpLoad(3, {1}, {})
  /\ part = "janus" \/ ja_load = JaLoad({1, 2}, 2, FALSE, Upward)

Next ==
  \/ part = "slog" /\ SlNext /\ UNCHANGED <<part, ovVars, tplVars, commitVars, tapirVars, paxosVars, janusVars>>
  \/ part = "ov" /\ OvNext /\ UNCHANGED <<part, slVars, tplVars, commitVars, tapirVars, paxosVars, janusVars>>
  \/ part = "tpl" /\ TpNext /\ UNCHANGED <<part, slVars, ovVars, commitVars, tapirVars, paxosVars, janusVars>>
  \/ part = "commit" /\ CmNext /\ UNCHANGED <<part, slVars, ovVars, tplVars, tapirVars, paxosVars, janusVars>>
  \/ part = "tapir" /\ TaNext /\ UNCHANGED <<part, slVars, ovVars, tplVars, commitVars, paxosVars, janusVars>>
  \/ part = "paxos" /\ MpNext /\ UNCHANGED <<part, slVars, ovVars, tplVars, commitVars, tapirVars, janusVars>>
  \/ part = "janus" /\ JaNext /\ UNCHANGED <<part, slVars, ovVars, tplVars, commitVars, tapirVars, paxosVars>>

Spec == Init /\ [][Next]_mcVars

(* Locks exclude each other and what commits is serializable: under the locking policies
   of alock in commit order, under OCC and TAPIR also in real time. *)
Serializable ==
  /\ part = "tpl" => TpLocksSane /\ TpSerialInCommitOrder
  /\ part = "commit" => CmStrictlySerializable
  /\ part = "tapir" => TaStrictlySerializable

(* An answer is not taken back: what Multi-Paxos answers is at a quorum, what Janus
   answers has run. *)
AnswersFinal ==
  /\ part = "paxos" => MpAnswerIsReplicated
  /\ part = "janus" => JaAnswerAfterExecution

(* No verify() of any of the protocols fires. *)
NoVerifyFails ==
  /\ SlNoVerifyFails /\ OvNoVerifyFails
  /\ TpNoVerifyFails /\ CmNoVerifyFails /\ TaNoVerifyFails /\ MpNoVerifyFails /\ JaNoVerifyFails

(* No transaction is left waiting when everything that was sent has been handled: no
   deadlock of locks, no lost wakeup, no inquiry unanswered. *)
NoneStuck ==
  /\ SlNoneStuck /\ OvNoneStuck
  /\ part = "tpl" => TpNoDeadlock
  /\ part = "commit" => CmNoneStuck
  /\ part = "tapir" => TaNoneStuck
  /\ part = "paxos" => MpNoneStuck
  /\ part = "janus" => JaNoneStuck

=====
