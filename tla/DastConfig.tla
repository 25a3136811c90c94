----- MODULE DastConfig -----
(* The deployment and the workload of DAST. Deployment (deptran/config.cc,
   deptran/server_worker.cc): regions of NShards partitions, partitions of NReplicas
   sites, numbered so that the partition and the region of a site are divisions of its
   id.  Every region has one manager, a second service in the process of its first site.
   Workload: transactions are sets of pieces.  A piece runs on one partition, has a
   type, and reads variables that other pieces of the transaction produce.  Values are
   left out: whether a variable has arrived is all that the protocol looks at. *)
EXTENDS Integers, FiniteSets

CONSTANTS
  NRegions,   \* number of regions
  NShards,    \* Config::n_shard_per_region_
  NReplicas,  \* N_REP_PER_SHARD, and n_replicas of the scheduler
  Txns,       \* the transactions that clients submit
  PieceIds,   \* their pieces
  Vars,       \* the variables that pieces hand to each other
  Types,      \* piece types, inn_id()
  Piece,      \* [PieceIds -> [txn, par, type, needs, gives]]
  Conflicts,  \* TpccPiece::conflicts_, pairs of piece types
  WaitTypes,  \* the types that make a CRT wait for input (204, TPC-C)
  Handlers    \* [Txns -> sites the client may submit it to]

Regions == 0 .. NRegions - 1
Pars    == 0 .. NRegions * NShards - 1
Sites   == 0 .. NRegions * NShards * NReplicas - 1

(* Site, partition and region arithmetic of config.cc. *)
ParOf(s)    == s \div NReplicas
RegionOf(p) == p \div NShards
SiteRegion(s) == RegionOf(ParOf(s))
SitesByPartitionId(p) == {s \in Sites : ParOf(s) = p}
SitesInRegion(r) == {s \in Sites : SiteRegion(s) = r}
SitesForSamePar(a, b) == ParOf(a) = ParOf(b)
Peers(s) == SitesInRegion(SiteRegion(s)) \ {s}

(* mgr_siteid_ of a region's manager, and the site whose process, and therefore whose
   connections, it shares. *)
MgrOf(r)   == NRegions * NShards * NReplicas + r
Managers   == {MgrOf(r) : r \in Regions}
MgrRegion(m) == m - NRegions * NShards * NReplicas
MgrHost(m) == MgrRegion(m) * NShards * NReplicas
Nodes == Sites \cup Managers

-----
PieceType ==
  [txn : Txns, par : Pars, type : Types, needs : SUBSET Vars, gives : SUBSET Vars]

PiecesOf(t)     == {p \in PieceIds : Piece[p].txn = t}
PiecesAt(t, par) == {p \in PiecesOf(t) : Piece[p].par = par}
Touched(t)      == {Piece[p].par : p \in PiecesOf(t)}
TouchedRegions(t) == {RegionOf(par) : par \in Touched(t)}

(* The client's classification of a transaction. *)
IsIrt(t) == Cardinality(TouchedRegions(t)) = 1

ASSUME SizesAssumption ==
  NRegions \in Nat \ {0} /\ NShards \in Nat \ {0} /\ NReplicas \in Nat \ {0}

(* Every transaction has a piece, and is handled by a site of one of its partitions
   (CoordinatorChronos::SubmitReq). *)
ASSUME WorkloadAssumption ==
  /\ Piece \in [PieceIds -> PieceType]
  /\ Conflicts \subseteq Types \X Types
  /\ WaitTypes \subseteq Types
  /\ Handlers \in [Txns -> SUBSET Sites]
  /\ \A t \in Txns : /\ PiecesOf(t) # {}
                     /\ \A s \in Handlers[t] : ParOf(s) \in Touched(t)
=====
