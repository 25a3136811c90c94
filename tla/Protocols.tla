----- MODULE Protocols -----
(* The protocols of deptran in which several servers carry out what one coordinator or
   leader decides, taken together: the two-phase commit of ClassicCoord, TAPIR and the
   Multi-Paxos log. *)
EXTENDS Commit, Tapir, MultiPaxos

(* All who take part carry out one outcome: the partitions of a two-phase commit, the
   replicas of TAPIR, and the replicas of a Paxos log. *)
Agreement == CmAtomic /\ TaReplicasAgree /\ MpSameLog
=====
