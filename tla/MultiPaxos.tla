----- MODULE MultiPaxos -----
(* The replication of one partition in deptran/multi_paxos, with the scheduler of
   deptran/classic on both sides of it: the leader (locale 0) turns each Prepare and
   Commit of two-phase commit into a slot, and each replica applies the decided slots in
   order (OnLearn).  Only the leader proposes, always with ballot 1, so a coordinator
   begins in the accept phase; the prepare phase ends in verify(0) and has no caller.
   Calls are delivered in any order: OnCommit buffers decisions that come early, so
   nothing here is meant to rest on the order of a connection. *)
EXTENDS Integers, FiniteSets, Sequences

CONSTANTS
  MpLoads  \* [replicas, txns, early] of a run: how many replicas, the
                   \* transactions whose participant this partition is, and
                   \* those of them aborted before they are prepared

VARIABLES
  mp_load,  \* the setting of the run, never changed
  mp_tpc,   \* transaction -> what the two-phase-commit coordinator awaits
  mp_slot,  \* sequence of MultiPaxosCoord, indexed by slot_id_
  mp_rep,   \* replica -> MultiPaxosSched and the executors of ClassicSched
  mp_net,   \* calls and answers on their way
  mp_bad

paxosVars == <<mp_load, mp_tpc, mp_slot, mp_rep, mp_net, mp_bad>>

ASSUME MpAssumption == \A l \in MpLoads : l.replicas \in Nat \ {0} /\ l.early \subseteq l.txns

MpReplicas == mp_load.replicas
MpTxns == mp_load.txns
MpNodes == 0..(MpReplicas - 1)
MpLeader == 0
MpVerify(cond) == mp_bad' = (mp_bad \/ ~cond)

MpInit ==
  /\ mp_load \in MpLoads
  /\ mp_tpc = [t \in MpTxns |-> "idle"]
  /\ mp_slot = <<>>
  /\ mp_rep = [v \in MpNodes |-> [accepted |-> {}, committed |-> 0, executed |-> 0,
                                  buffer |-> [n \in {} |-> 0], log |-> <<>>, exec |-> {}, done |-> {}]]
  /\ mp_net = {}
  /\ mp_bad = FALSE

-----
(* MultiPaxosCoord. *)

(* Variant that the runs must reject: half of the replicas are a quorum. *)
MpQuorum_Half == MpReplicas \div 2

(* GetQuorum. *)
MpQuorum == MpReplicas \div 2 + 1

MpToAll(type, n, cmd) == {[type |-> type, slot |-> n, cmd |-> cmd, rep |-> v] : v \in MpNodes}

(* CreateRepCoord and Submit: the next slot of the frame, and Accept. *)
MpSubmit(cmd) ==
  LET n == Len(mp_slot) + 1
  IN  /\ mp_slot' = Append(mp_slot, [cmd |-> cmd, phase |-> "accept", acks |-> 0])
      /\ mp_net' = mp_net \cup MpToAll("Accept", n, cmd)

(* OnDispatch at the leader, which only makes the executor here. *)
MpDispatch(t) ==
  /\ mp_tpc[t] = "idle"
  /\ mp_tpc' = [mp_tpc EXCEPT ![t] = IF t \in mp_load.early THEN "prepared" ELSE "dispatched"]
  /\ mp_rep' = [mp_rep EXCEPT ![MpLeader].exec = @ \cup {t}]
  /\ UNCHANGED <<mp_load, mp_slot, mp_net, mp_bad>>

(* ClassicSched::OnPrepare, replicated. *)
MpOnPrepare(t) ==
  /\ mp_tpc[t] = "dispatched"
  /\ mp_tpc' = [mp_tpc EXCEPT ![t] = "preparing"]
  /\ MpSubmit([type |-> "prepare", txn |-> t])
  /\ MpVerify(t \in mp_rep[MpLeader].exec)
  /\ UNCHANGED <<mp_load, mp_rep>>

(* ClassicSched::OnCommit, replicated. *)
MpOnCommit(t) ==
  /\ mp_tpc[t] = "prepared"
  /\ mp_tpc' = [mp_tpc EXCEPT ![t] = "committing"]
  /\ MpSubmit([type |-> "commit", txn |-> t])
  /\ MpVerify(t \in mp_rep[MpLeader].exec)
  /\ UNCHANGED <<mp_load, mp_rep>>

(* AcceptAck, and with a quorum Commit: the decision goes to all. *)
MpAcceptAck(m) ==
  LET n == m.slot
      s == mp_slot[n]
      chosen == s.acks + 1 >= MpQuorum
  IN  /\ m.type = "AcceptAck"
      /\ IF s.phase = "accept"
         THEN /\ mp_slot' = [mp_slot EXCEPT ![n].acks = @ + 1, ![n].phase = IF chosen THEN "end" ELSE @]
              /\ mp_net' = (mp_net \ {m}) \cup IF chosen THEN MpToAll("Decide", n, s.cmd) ELSE {}
         ELSE /\ mp_net' = mp_net \ {m}
              /\ UNCHANGED mp_slot
      /\ UNCHANGED <<mp_load, mp_tpc, mp_rep, mp_bad>>

-----
(* The replicas. *)

(* OnAccept: the executor of a slot has not accepted this ballot before. *)
MpOnAccept(m) ==
  /\ m.type = "Accept"
  /\ mp_rep' = [mp_rep EXCEPT ![m.rep].accepted = @ \cup {m.slot}]
  /\ mp_net' = (mp_net \ {m}) \cup {[m EXCEPT !.type = "AcceptAck"]}
  /\ MpVerify(m.slot \notin mp_rep[m.rep].accepted)
  /\ UNCHANGED <<mp_load, mp_tpc, mp_slot>>

(* Variant that the runs must reject: a slot is applied when it arrives. *)
MpRunnable_Now(r, n) == {n}

(* Variant that the runs must reject: buffered slots are left where they are once the
   gap before them is filled. *)
MpRunnable_One(r, n) == IF n = r.executed + 1 THEN {n} ELSE {}

(* OnCommit of MultiPaxosSched: the slots that can be applied when slot n is decided; n
   and the buffered ones after it, up to the first gap. *)
MpRunnable(r, n) ==
  IF n # r.executed + 1 THEN {}
  ELSE {m \in n..(IF n > r.committed THEN n ELSE r.committed) :
          \A j \in (n + 1)..m : j \in DOMAIN r.buffer}

(* Variant that the runs must reject: max_executed_slot_ jumps to the last decided slot,
   over a gap. *)
MpApply_Jump(r, cmds) ==
  LET commits == {cmds[i].txn : i \in {j \in DOMAIN cmds : cmds[j].type = "commit"}}
      all     == {cmds[i].txn : i \in DOMAIN cmds}
  IN  [r EXCEPT !.log = @ \o cmds, !.executed = IF cmds = <<>> THEN @ ELSE r.committed,
                !.exec = (@ \cup all) \ commits, !.done = @ \cup commits]

(* OnLearn: PrepareReplicated makes the executor where there is none and
   CommitReplicated removes it. *)
MpApply(r, cmds) ==
  LET commits == {cmds[i].txn : i \in {j \in DOMAIN cmds : cmds[j].type = "commit"}}
      all     == {cmds[i].txn : i \in DOMAIN cmds}
  IN  [r EXCEPT !.log = @ \o cmds, !.executed = @ + Len(cmds),
                !.exec = (@ \cup all) \ commits, !.done = @ \cup commits]

MpReply(t, cmds) ==
  IF \E i \in DOMAIN cmds : cmds[i] = [type |-> "commit", txn |-> t] THEN "done"
  ELSE IF \E i \in DOMAIN cmds : cmds[i] = [type |-> "prepare", txn |-> t] THEN "prepared"
  ELSE mp_tpc[t]

(* Decide: applied in the order of the slots or kept in committed_cmd_. The leader's
   executors answer the coordinator, the others nobody. *)
MpOnDecide(m) ==
  LET v == m.rep
      r == mp_rep[v]
      k == Cardinality(MpRunnable(r, m.slot))
      cmds == [i \in 1..k |-> IF i = 1 THEN m.cmd ELSE r.buffer[m.slot + i - 1]]
      c == [r EXCEPT !.committed = IF m.slot > @ THEN m.slot ELSE @,
                     !.buffer = IF k = 0
                                THEN [j \in DOMAIN @ \cup {m.slot} |-> IF j = m.slot THEN m.cmd ELSE @[j]]
                                ELSE @]
  IN  /\ m.type = "Decide"
      /\ mp_rep' = [mp_rep EXCEPT ![v] = MpApply(c, cmds)]
      /\ mp_tpc' = IF v = MpLeader THEN [t \in MpTxns |-> MpReply(t, cmds)] ELSE mp_tpc
      /\ mp_net' = mp_net \ {m}
      /\ MpVerify(/\ m.slot > r.executed
                  /\ \A i \in DOMAIN cmds : cmds[i].type = "commit" => cmds[i].txn \notin r.done)
      /\ UNCHANGED <<mp_load, mp_slot>>

MpNext ==
  \/ \E t \in MpTxns : MpDispatch(t) \/ MpOnPrepare(t) \/ MpOnCommit(t)
  \/ \E m \in mp_net : MpAcceptAck(m) \/ MpOnAccept(m) \/ MpOnDecide(m)

MpSpec == MpInit /\ [][MpNext]_paxosVars

-----
(* Properties. *)

(* Every replica applies the decided commands in the order of their slots, whatever the
   order in which the decisions of several coordinators are reached and arrive. *)
MpSameLog ==
  \A v \in MpNodes : \A i \in DOMAIN mp_rep[v].log :
    i \in DOMAIN mp_slot /\ mp_rep[v].log[i] = mp_slot[i].cmd

(* A participant answers Prepare or Commit only once more than half of the replicas have
   accepted the command. *)
MpAnswerIsReplicated ==
  \A i \in DOMAIN mp_rep[MpLeader].log :
    2 * Cardinality({v \in MpNodes : i \in mp_rep[v].accepted}) > MpReplicas

(* When no call is on its way every replica has applied every command, no executor is
   left, and the coordinator has its answers. *)
MpNoneStuck ==
  mp_net = {} =>
    /\ \A v \in MpNodes : mp_rep[v].executed = Len(mp_slot)
    /\ \A t \in MpTxns : mp_tpc[t] \in {"idle", "dispatched", "prepared", "done"}
    /\ (\A t \in MpTxns : mp_tpc[t] = "done") => \A v \in MpNodes : mp_rep[v].exec = {}

(* The verify calls of schedulers and executors hold: no slot is applied or accepted
   twice, and no transaction is finished twice. *)
MpNoVerifyFails == ~mp_bad
=====
