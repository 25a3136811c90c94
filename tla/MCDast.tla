----- MODULE MCDast -----
(* Workloads for model checking Dast. *)
EXTENDS Dast, TLC

Pc(t, par, type, needs, gives) ==
  [txn |-> t, par |-> par, type |-> type, needs |-> needs, gives |-> gives]

(* Two conflicting single-partition transactions, submitted to two sites. *)
IrtPiece == (1 :> Pc("t1", 0, "w", {}, {})) @@ (2 :> Pc("t2", 0, "w", {}, {}))
IrtHandlers == ("t1" :> {0}) @@ ("t2" :> {1})
WriteConflicts == {<<"w", "w">>}

NoSync  == [n \in Nodes |-> 0]
IrtSync == [n \in Nodes |-> IF n = 1 THEN 1 ELSE 0]

(* One cross-region transaction over a partition of either region. *)
CrtPiece == (1 :> Pc("t1", 0, "w", {}, {})) @@ (2 :> Pc("t1", 1, "w", {}, {}))
CrtHandlers == "t1" :> {0}
FarHandlers == "t1" :> {3}

(* The coordinator's piece waits for a variable of the other region. *)
InputPiece == (1 :> Pc("t1", 0, "i", {"v"}, {})) @@ (2 :> Pc("t1", 2, "w", {}, {"v"}))
StretchSync == [n \in Nodes |-> IF n = 2 THEN 1 ELSE 0]

(* IRSyncLoop never stops, so rounds always follow the last message.  A bounded run
   keeps the last two of every node for that moment: the first of them skips the peers
   that ir_synced says have been told already. *)
ColdPiece == 1 :> Pc("t1", 0, "w", {}, {})
ColdHandlers == "t1" :> {0}
ColdSync == [n \in Nodes |-> IF n = 2 THEN 3 ELSE 2]

LastRound == submitted = Txns /\ Quiet
KeepLastRounds ==
  \A n \in Nodes : syncs'[n] # syncs[n] /\ syncs'[n] > MaxSync[n] - 2 => LastRound

ColdSpec ==
  /\ Init /\ [][Submit \/ Deliver \/ (Sync /\ KeepLastRounds)]_vars
  /\ WF_vars(Deliver) /\ WF_vars(Sync /\ KeepLastRounds)

(* An intra-region transaction whose second partition waits for a variable of the first,
   and another one behind it in the second partition.  Either partition may be the
   handler's. *)
ShardsPiece == (1 :> Pc("t1", 0, "w", {}, {"v"})) @@ (2 :> Pc("t1", 1, "w", {"v"}, {}))
LimitPiece == ShardsPiece @@ (3 :> Pc("t2", 1, "r", {}, {}))
ShardsHandlers == "t1" :> {0, 3}
LimitHandlers == ("t1" :> {0, 3}) @@ ("t2" :> {3})

(* Two conflicting cross-region transactions. *)
PairPiece == (1 :> Pc("t1", 0, "w", {}, {})) @@ (2 :> Pc("t1", 1, "w", {}, {}))
          @@ (3 :> Pc("t2", 0, "w", {}, {})) @@ (4 :> Pc("t2", 1, "w", {}, {}))
PairHandlers == ("t1" :> {0}) @@ ("t2" :> {0, 2})

(* A cross-region transaction and a conflicting intra-region one. *)
MixedPiece == (1 :> Pc("t1", 0, "w", {}, {})) @@ (2 :> Pc("t1", 1, "w", {}, {}))
           @@ (3 :> Pc("t2", 0, "w", {}, {}))
MixedHandlers == ("t1" :> {0}) @@ ("t2" :> {1})
=====
