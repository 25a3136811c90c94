----- MODULE TxChronos -----
(* What one site keeps about one transaction, class TxChronos of deptran/chronos/tx.h,
   and how its pieces run, deptran/chronos/tx.cc. *)
EXTENDS DastConfig, ChrTs

(* enum TxnPhase; PHASE_CAN_EXE is LOCAL_CAN_EXE. *)
PHASE_EMPTY       == 0
DIST_REMOTE_SENT  == 1
LOCAL_NOT_STORED  == 3
LOCAL_CAN_EXE     == 4
DIST_CAN_EXE      == 5
OUTPUT_SENT       == 6
(* Variant that the runs must reject: execution before the pieces are stored. *)
PHASE_CAN_EXE_Early == LOCAL_NOT_STORED

PHASE_CAN_EXE     == LOCAL_CAN_EXE
TxnPhase == 0..6

(* The values of enum DistPartStatus that the live code assigns. *)
P_NOT_RECEIVED    == 0
P_REMOTE_SENT     == 1
P_REMOTE_PREPARED == 2
P_OUTPUT_RECEIVED == 6
DistPartStatus == {P_NOT_RECEIVED, P_REMOTE_SENT, P_REMOTE_PREPARED, P_OUTPUT_RECEIVED}

(* The fields the protocol reads.  role says which function wrote pieces_ and
   execute_callback_, and with it is_irt_; a record that is "unset" still has the
   default callback, which runs nothing.  owes is the site that send_output_to_handler_
   replies to, -1 while it is the default. have are the variables that arrived after
   pieces_ was written. *)
Roles == {"unset", "irtHandler", "irtReplica", "crtCoord", "crtReplica"}

StatusOfPars == [Pars -> DistPartStatus]
TsOfRegions  == [Regions -> AnticipatedType]
InputReadyType == 0..2

TxType ==
  [ts : ChrTsType, phase : TxnPhase, role : Roles, region_handler : Nodes \cup {-1},
   pieces : SUBSET PieceIds, done : SUBSET PieceIds, have : SUBSET Vars,
   exe_tried : BOOLEAN, input_ready : InputReadyType, owes : Sites \cup {-1},
   acks : SUBSET Sites, mgr_acked : SUBSET Pars,
   status : StatusOfPars, anticipated : TsOfRegions]

FreshTx ==
  [ts |-> ZeroTs, phase |-> PHASE_EMPTY, role |-> "unset", region_handler |-> -1,
   pieces |-> {}, done |-> {}, have |-> {},
   exe_tried |-> FALSE, input_ready |-> 1, owes |-> -1,
   acks |-> {}, mgr_acked |-> {},
   status |-> [par \in Pars |-> P_NOT_RECEIVED],
   anticipated |-> [r \in Regions |-> ZeroTs]]

(* commit_ts_: no function that is reachable in this build assigns it. *)
CommitTs(x) == ZeroTs

AllPiecesInputReady(x) == x.input_ready > 0
AcksOf(x, par) == {s \in x.acks : ParOf(s) = par}
(* Variant that the runs must reject: finished after the first try. *)
Finished_Tried(x) == x.role # "unset"

Finished(x) == x.role # "unset" /\ x.pieces = x.done

-----
Gives(P) == UNION {Piece[p].gives : p \in P}
InputReady(p, have) == Piece[p].needs \subseteq have

(* can_exe_wo_conflict: the piece conflicts with no pending piece type. *)
CanExeWoConflict(p, pending) ==
  \A type \in pending : <<type, Piece[p].type>> \notin Conflicts

(* RecursiveExecuteReadyPieces: the pieces that one call runs.  A piece runs when its
   input is there, and the output of a piece may complete the input of another one, so
   run is the outcome iff it solves this equation (dependencies are acyclic, hence
   exactly one set does). *)
IsRunOf(run, x, pending) ==
  run = {p \in x.pieces \ x.done : /\ InputReady(p, x.have \cup Gives(run))
                                   /\ CanExeWoConflict(p, pending)}

(* The record afterwards. *)
AfterRun(x, run) ==
  [x EXCEPT !.done = @ \cup run, !.have = @ \cup Gives(run), !.exe_tried = TRUE]

(* The partitions that wait for an output of p, GetOutputsTargets, and what one call
   sends to par. *)
OutputsTargets(p) ==
  {Piece[q].par : q \in {r \in PiecesOf(Piece[p].txn) : Piece[r].needs \cap Piece[p].gives # {}}}
OutputTo(run, par) == Gives({p \in run : par \in OutputsTargets(p)})

(* MergeCheckReadyPieces: the record afterwards, and whether a piece became ready. *)
Merge(x, vars) ==
  [x EXCEPT !.have = IF x.pieces = {} THEN @ ELSE @ \cup vars]
MoreToRun(x, vars) ==
  \E p \in x.pieces : ~InputReady(p, x.have) /\ InputReady(p, x.have \cup vars)
=====
