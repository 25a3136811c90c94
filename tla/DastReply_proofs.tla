----- MODULE DastReply_proofs -----
(* What a client has heard of was executed before and is stored at the replicas, for
   every workload, order of messages and size of the deployment for which the
   coordinator finds the pieces of its own partition (CoordinatorsInPlace). Both rest on
   ReplyInv: a record with a role holds the pieces of its partition; whoever
   acknowledged a transaction has a record of it; the coordinator has noted the output
   of a partition only if a replica of it ran its pieces, and prepared it only with the
   acknowledgements it needs; and no record loses what it ran, but for a copy of an
   intra-region transaction that its handler has yet to prepare. *)
EXTENDS DastDecision_proofs

(* OnSubmitCRT of the coordinator stores the pieces of the partitions of its region,
   which it computes from the partition as CoordPieces does. Where that is not the
   region of the partition it stores nothing. *)
CoordinatorsInPlace ==
  \A t \in Txns : ~IsIrt(t) => \A s \in Handlers[t] : CoordPieces(t, ParOf(s)) = PiecesAt(t, ParOf(s))

-----
(* Execution and storage.  x stands for the records, tx or tx'. *)

RanAt(x, s, t) == x[s][t].role # "unset" /\ PiecesAt(t, ParOf(s)) \subseteq x[s][t].done
RanIn(x, par, t) == \E r \in SitesByPartitionId(par) : RanAt(x, r, t)
Holders(x, par, t) == {r \in SitesByPartitionId(par) : x[r][t].role # "unset"}
Copies(x, par, t) == {r \in SitesByPartitionId(par) : x[r][t].role = "irtReplica"}

(* The record y of t at s: sub are the submitted transactions, known those that s has a
   record of. *)
Recorded(y, s, t, sub, known) ==
  y.role # "unset" => y.pieces = PiecesAt(t, ParOf(s)) /\ t \in known /\ t \in sub
Acked(x, y, t) ==
  \A a \in y.acks : /\ x[a][t].role # "unset"
                    /\ y.role = "irtHandler" => x[a][t].role = "irtReplica"
Handled(y, s, t) ==
  ParOf(s) \in Touched(t) /\ (y.phase >= PHASE_CAN_EXE => StoredEverywhere(t, y))
Collects(x, y, t) ==
  /\ \A par \in Touched(t) :
       /\ y.status[par] >= P_OUTPUT_RECEIVED => RanIn(x, par, t)
       /\ y.status[par] >= P_REMOTE_PREPARED => Cardinality(AcksOf(y, par)) >= (NReplicas + 1) \div 2
  /\ y.phase = OUTPUT_SENT => \A par \in Touched(t) : y.status[par] >= P_OUTPUT_RECEIVED

Sound(x, y, s, t, sub, known) ==
  /\ Recorded(y, s, t, sub, known) /\ Acked(x, y, t)
  /\ y.role \in {"irtHandler", "irtReplica"} => IsIrt(t)
  /\ y.role = "irtHandler" => Handled(y, s, t)
  /\ y.role = "crtCoord" => Collects(x, y, t)

(* A request m from the process of a to b, a reply m of a. *)
SoundReq(x, sub, m, a, b) ==
  /\ m.type = "PrepareIRT" => b \in Sites /\ m.txn \in sub /\ x[b][m.txn].role # "irtHandler"
  /\ m.type = "RemotePrepared" => x[a][m.txn].role # "unset"
SoundRep(x, m, a) ==
  /\ m.type = "DistExeRes" => RanAt(x, a, m.txn)
  /\ m.type = "PrepareIRTRes" => x[a][m.txn].role = "irtReplica"

(* What the client may hear of. *)
Served(x, t) ==
  IF IsIrt(t)
  THEN /\ \E s \in Sites : /\ x[s][t].role = "irtHandler" /\ RanAt(x, s, t)
                           /\ ParOf(s) \in Touched(t)
       /\ \A par \in Touched(t) : Cardinality(Copies(x, par, t)) >= (NReplicas - 1) \div 2
  ELSE \A par \in Touched(t) : /\ RanIn(x, par, t)
                               /\ Cardinality(Holders(x, par, t)) >= (NReplicas + 1) \div 2

ReplyInv ==
  /\ \A s \in Sites, t \in Txns : Sound(tx, tx[s][t], s, t, submitted, dtxns[s])
  /\ \A c \in Sites \X Nodes : \A m \in MsgsIn(req[c]) : SoundReq(tx, submitted, m, c[1], c[2])
  /\ \A c \in Sites \X Sites : \A m \in MsgsIn(rep[c]) : SoundRep(tx, m, c[1])
  /\ \A t \in replied : Served(tx, t)

(* Sites are finitely many, and more acknowledgements count for more. *)
LEMMA CountSites ==
  /\ IsFiniteSet(Sites)
  /\ \A A, B : A \subseteq B /\ B \subseteq Sites =>
       /\ Cardinality(A) \in Nat /\ Cardinality(B) \in Nat /\ Cardinality(A) <= Cardinality(B)
<1>1. NRegions * NShards * NReplicas \in Int BY SizesAssumption
<1>2. IsFiniteSet(Sites) BY <1>1, FS_Interval DEF Sites
<1>3. ASSUME NEW A, NEW B, A \subseteq B, B \subseteq Sites
      PROVE Cardinality(A) \in Nat /\ Cardinality(B) \in Nat /\ Cardinality(A) <= Cardinality(B)
 <2>1. IsFiniteSet(B) BY <1>2, <1>3, FS_Subset
 <2> QED BY <1>3, <2>1, FS_Subset, FS_CardinalityType
<1> QED BY <1>2, <1>3

(* ReplyInv states ReplyAfterExecution. *)
LEMMA ReplyInvExecuted ==
  ASSUME ReplyInv
  PROVE ReplyAfterExecution BY DEF ReplyInv, Served, RanIn, RanAt, ReplyAfterExecution, ExecutedAt

(* With an odd number of replicas, and intra-region transactions of one partition, it
   also makes RepliedIsReplicated true. *)
LEMMA ReplyInvReplicated ==
  ASSUME ReplyInv, NReplicas % 2 = 1,
         \A t \in Txns : IsIrt(t) => \A p, q \in Touched(t) : p = q,
         replied \subseteq Txns
  PROVE RepliedIsReplicated
<1> SUFFICES ASSUME NEW t \in replied, NEW par \in Touched(t)
             PROVE 2 * Cardinality({s \in SitesByPartitionId(par) : StoredAt(s, t)}) > NReplicas
  BY DEF RepliedIsReplicated
<1> DEFINE S == {s \in SitesByPartitionId(par) : StoredAt(s, t)}
<1>1. t \in Txns /\ Served(tx, t) /\ S \subseteq Sites /\ SitesByPartitionId(par) \subseteq Sites
  BY DEF ReplyInv, SitesByPartitionId
<1>2. Holders(tx, par, t) \subseteq S BY <1>1 DEF Holders, StoredAt, ReplyInv, Sound, Recorded
<1>3. NReplicas \in Nat \ {0} BY SizesAssumption
<1> HIDE DEF S
<1>4. CASE ~IsIrt(t)
 <2>1. Cardinality(Holders(tx, par, t)) >= (NReplicas + 1) \div 2 BY <1>1, <1>4 DEF Served
 <2>2. Cardinality(S) \in Nat /\ Cardinality(Holders(tx, par, t)) \in Nat
       /\ Cardinality(Holders(tx, par, t)) <= Cardinality(S) BY <1>1, <1>2, CountSites
 <2> QED BY <1>3, <2>1, <2>2 DEF S
<1>5. CASE IsIrt(t)
 <2>1. PICK h \in Sites : tx[h][t].role = "irtHandler" /\ ParOf(h) \in Touched(t) BY <1>1, <1>5 DEF Served
 <2>2. h \in Holders(tx, par, t) /\ h \notin Copies(tx, par, t) /\ Copies(tx, par, t) \subseteq Holders(tx, par, t)
   BY <1>1, <1>5, <2>1 DEF Holders, Copies, SitesByPartitionId
 <2>3. Cardinality(Copies(tx, par, t)) >= (NReplicas - 1) \div 2 BY <1>1, <1>5 DEF Served
 <2>4. IsFiniteSet(Copies(tx, par, t)) BY <1>1, CountSites, FS_Subset DEF Copies
 <2>5. Cardinality(Copies(tx, par, t) \cup {h}) = Cardinality(Copies(tx, par, t)) + 1 BY <2>2, <2>4, FS_AddElement
 <2>6. Copies(tx, par, t) \cup {h} \subseteq S BY <1>2, <2>2
 <2>7. /\ Cardinality(S) \in Nat /\ Cardinality(Copies(tx, par, t)) \in Nat
       /\ Cardinality(Copies(tx, par, t) \cup {h}) <= Cardinality(S) BY <1>1, <2>4, <2>6, CountSites, FS_CardinalityType
 <2> QED BY <1>3, <2>3, <2>5, <2>7 DEF S
<1> QED BY <1>4, <1>5

-----
(* Steps keep roles, and what the replicas ran.  y and z are a record of t before and
   after the step. *)
Lasts(y, z, t) ==
  /\ y.role # "unset" => z.role # "unset"
  /\ y.role = "irtHandler" => z.role = "irtHandler"
  /\ y.role = "irtReplica" => z.role = "irtReplica"
  /\ y.role # "unset" /\ (~IsIrt(t) \/ y.role = "irtHandler") => y.done \subseteq z.done
AllLast == \A s \in Sites, t \in Txns : Lasts(tx[s][t], tx'[s][t], t)

(* The record of t at s is sound after the step if the others last. *)
Advances(s, t) ==
  /\ Lasts(tx[s][t], tx'[s][t], t)
  /\ tx'[s][t].role = "irtHandler" => tx[s][t].role = "irtHandler" \/ t \notin submitted
  /\ AllLast => Sound(tx', tx'[s][t], s, t, submitted', dtxns'[s])

(* What was executed or stored still is. *)
LEMMA ServedLasts ==
  ASSUME AllLast, NEW t \in Txns
  PROVE  /\ \A r \in Sites : ~IsIrt(t) /\ RanAt(tx, r, t) => RanAt(tx', r, t)
         /\ \A par : ~IsIrt(t) /\ RanIn(tx, par, t) => RanIn(tx', par, t)
         /\ Served(tx, t) => Served(tx', t)
<1>1. ASSUME NEW r \in Sites, ~IsIrt(t) \/ tx[r][t].role = "irtHandler", RanAt(tx, r, t) PROVE RanAt(tx', r, t)
 <2>1. Lasts(tx[r][t], tx'[r][t], t) BY DEF AllLast
 <2> QED BY <1>1, <2>1 DEF RanAt, Lasts
<1>2. \A par : SitesByPartitionId(par) \subseteq Sites BY DEF SitesByPartitionId
<1>3. ASSUME NEW par, ~IsIrt(t), RanIn(tx, par, t) PROVE RanIn(tx', par, t) BY <1>1, <1>2, <1>3 DEF RanIn
<1>4. ASSUME NEW par
      PROVE  /\ Cardinality(Holders(tx, par, t)) \in Nat /\ Cardinality(Holders(tx', par, t)) \in Nat
             /\ Cardinality(Holders(tx, par, t)) <= Cardinality(Holders(tx', par, t))
             /\ Cardinality(Copies(tx, par, t)) \in Nat /\ Cardinality(Copies(tx', par, t)) \in Nat
             /\ Cardinality(Copies(tx, par, t)) <= Cardinality(Copies(tx', par, t))
 <2>1. /\ Holders(tx, par, t) \subseteq Holders(tx', par, t) /\ Holders(tx', par, t) \subseteq Sites
       /\ Copies(tx, par, t) \subseteq Copies(tx', par, t) /\ Copies(tx', par, t) \subseteq Sites
   BY <1>2 DEF Holders, Copies, AllLast, Lasts
 <2> QED BY <2>1, CountSites
<1>5. ASSUME Served(tx, t), IsIrt(t) PROVE Served(tx', t)
 <2>1. PICK s \in Sites : /\ tx[s][t].role = "irtHandler" /\ RanAt(tx, s, t)
                          /\ ParOf(s) \in Touched(t) BY <1>5 DEF Served
 <2>2. tx'[s][t].role = "irtHandler" /\ RanAt(tx', s, t) BY <1>1, <2>1 DEF AllLast, Lasts
 <2>3. \A par \in Touched(t) : Cardinality(Copies(tx', par, t)) >= (NReplicas - 1) \div 2
  <3>1. (NReplicas - 1) \div 2 \in Int BY SizesAssumption
  <3>2. \A par \in Touched(t) : Cardinality(Copies(tx, par, t)) >= (NReplicas - 1) \div 2 BY <1>5 DEF Served
  <3> HIDE DEF Copies
  <3> QED BY <1>4, <3>1, <3>2
 <2> QED BY <1>5, <2>1, <2>2, <2>3 DEF Served
<1>6. ASSUME Served(tx, t), ~IsIrt(t) PROVE Served(tx', t)
 <2>1. (NReplicas + 1) \div 2 \in Int BY SizesAssumption
 <2>2. \A par \in Touched(t) : RanIn(tx, par, t) /\ Cardinality(Holders(tx, par, t)) >= (NReplicas + 1) \div 2
   BY <1>6 DEF Served
 <2>3. \A par \in Touched(t) : RanIn(tx', par, t) /\ Cardinality(Holders(tx', par, t)) >= (NReplicas + 1) \div 2
   BY <1>3, <1>4, <1>6, <2>1, <2>2
 <2> QED BY <1>6, <2>3 DEF Served
<1> QED BY <1>1, <1>3, <1>5, <1>6

(* A record that the step does not touch stays sound. *)
LEMMA SoundStays ==
  ASSUME AllLast, Learns, NEW s \in Sites, NEW t \in Txns, NEW y \in TxType,
         y.role = "crtCoord" => ~IsIrt(t), Sound(tx, y, s, t, submitted, dtxns[s])
  PROVE Sound(tx', y, s, t, submitted', dtxns'[s])
<1>1. y.acks \subseteq Sites BY DEF TxType
<1>2. Recorded(y, s, t, submitted', dtxns'[s]) BY DEF Sound, Recorded, Learns
<1>3. Acked(tx', y, t) BY <1>1 DEF Sound, Acked, AllLast, Lasts
<1>4. y.role = "crtCoord" => Collects(tx', y, t)
 <2>1. \A par : ~IsIrt(t) /\ RanIn(tx, par, t) => RanIn(tx', par, t) BY ServedLasts
 <2> QED BY <2>1 DEF Sound, Collects
<1> QED BY <1>2, <1>3, <1>4 DEF Sound

(* Nor does a run of its pieces disturb it. *)
LEMMA SoundRuns ==
  ASSUME NEW s \in Sites, NEW t \in Txns, NEW y \in TxType, tx'[s][t] \in TxType,
         y.role = "crtCoord" /\ y.phase >= PHASE_CAN_EXE => AllPrepared(t, y),
         Sound(tx', y, s, t, submitted', dtxns'[s]),
         SameRecord(y, tx'[s][t]), SameProgress(t, y, tx'[s][t], ParOf(s))
  PROVE Sound(tx', tx'[s][t], s, t, submitted', dtxns'[s])
<1> DEFINE z == tx'[s][t]
<1>1. /\ z.role = y.role /\ z.pieces = y.pieces /\ z.acks = y.acks
      /\ y.status \in [Pars -> DistPartStatus] /\ y.phase \in 0..6 /\ z.phase \in 0..6
  BY DEF TxType, TxnPhase, StatusOfPars, SameRecord
<1>2. \A p : AcksOf(z, p) = AcksOf(y, p) BY <1>1 DEF AcksOf
<1>3. CASE z.phase = y.phase /\ z.status = y.status
 <2> HIDE DEF z
 <2>1. y.role = "irtHandler" => Handled(z, s, t) BY <1>1, <1>2, <1>3 DEF Sound, Handled, StoredEverywhere
 <2>2. y.role = "crtCoord" => Collects(tx', z, t) BY <1>1, <1>2, <1>3 DEF Sound, Collects
 <2>3. Recorded(z, s, t, submitted', dtxns'[s]) /\ Acked(tx', z, t) BY <1>1 DEF Sound, Recorded, Acked
 <2>4. Sound(tx', z, s, t, submitted', dtxns'[s]) BY <1>1, <2>1, <2>2, <2>3 DEF Sound
 <2> QED BY <2>4 DEF z
<1>4. CASE /\ y.role = "crtCoord" /\ y.phase >= PHASE_CAN_EXE /\ Finished(z)
           /\ z.status = [y.status EXCEPT ![ParOf(s)] = P_OUTPUT_RECEIVED]
           /\ \/ z.phase = y.phase
              \/ z.phase = OUTPUT_SENT /\ \A p \in Touched(t) : z.status[p] >= P_OUTPUT_RECEIVED
 <2>1. RanIn(tx', ParOf(s), t)
  <3>1. RanAt(tx', s, t) BY <1>1, <1>4 DEF Finished, RanAt, Sound, Recorded
  <3> QED BY <3>1 DEF RanIn, SitesByPartitionId
 <2>3. \A p \in Touched(t) : y.status[p] >= P_REMOTE_PREPARED BY <1>4 DEF AllPrepared
 <2>4. Touched(t) \subseteq Pars BY Workload
 <2>5. \A p \in Touched(t) : z.status[p] = y.status[p] \/ (p = ParOf(s) /\ z.status[p] = P_OUTPUT_RECEIVED)
   BY <1>1, <1>4, <2>4
 <2>6. P_OUTPUT_RECEIVED >= P_OUTPUT_RECEIVED BY DEF P_OUTPUT_RECEIVED
 <2> HIDE DEF z
 <2>7. Collects(tx', y, t) BY <1>4 DEF Sound
 <2>8. \A p \in Touched(t) : z.status[p] >= P_OUTPUT_RECEIVED => RanIn(tx', p, t) BY <2>1, <2>5, <2>7 DEF Collects
 <2>9. \A p \in Touched(t) : Cardinality(AcksOf(z, p)) >= (NReplicas + 1) \div 2 BY <1>2, <2>3, <2>7 DEF Collects
 <2>10. z.phase = OUTPUT_SENT => \A p \in Touched(t) : z.status[p] >= P_OUTPUT_RECEIVED
  <3>1. ASSUME z.phase = y.phase, z.phase = OUTPUT_SENT
        PROVE \A p \in Touched(t) : z.status[p] >= P_OUTPUT_RECEIVED BY <2>5, <2>6, <2>7, <3>1 DEF Collects
  <3> QED BY <1>4, <3>1
 <2>11. Collects(tx', z, t) BY <2>8, <2>9, <2>10 DEF Collects
 <2>12. Recorded(z, s, t, submitted', dtxns'[s]) /\ Acked(tx', z, t) BY <1>1 DEF Sound, Recorded, Acked
 <2>13. Sound(tx', z, s, t, submitted', dtxns'[s]) BY <1>1, <1>4, <2>11, <2>12 DEF Sound
 <2> QED BY <2>13 DEF z
<1> QED BY <1>3, <1>4 DEF SameProgress

(* What is known of the record of t at s before the step. *)
LEMMA RecordBefore ==
  ASSUME TypeOK, DecidedInv, ReplyInv, NEW s \in Sites, NEW t \in Txns
  PROVE  /\ tx[s][t] \in TxType
         /\ Sound(tx, tx[s][t], s, t, submitted, dtxns[s])
         /\ tx[s][t].role = "crtCoord" => Coordinates(tx[s][t], t, submitted, dtxns[s]) /\ ~IsIrt(t)
         /\ t \notin submitted \/ t \notin dtxns[s] => tx[s][t].role = "unset"
  BY DEF TypeOK, DecidedInv, LawfulTx, Coordinates, ReplyInv, Sound, Recorded

(* A record that at most ran pieces. *)
LEMMA KeptAdvances ==
  ASSUME TypeOK, TypeOK', DecidedInv, ReplyInv, Learns, NEW s \in Sites, NEW t \in Txns, Kept(s, t)
  PROVE Advances(s, t)
<1>1. /\ tx[s][t] \in TxType /\ tx'[s][t] \in TxType
      /\ Sound(tx, tx[s][t], s, t, submitted, dtxns[s])
      /\ tx[s][t].role = "crtCoord" => Coordinates(tx[s][t], t, submitted, dtxns[s]) /\ ~IsIrt(t)
  BY RecordBefore DEF TypeOK
<1>2. tx[s][t].role = "crtCoord" /\ tx[s][t].phase >= PHASE_CAN_EXE => AllPrepared(t, tx[s][t])
  BY <1>1 DEF Coordinates, PHASE_CAN_EXE, LOCAL_CAN_EXE, DIST_REMOTE_SENT, DIST_CAN_EXE, OUTPUT_SENT
<1>3. /\ Lasts(tx[s][t], tx'[s][t], t)
      /\ tx'[s][t].role = tx[s][t].role BY DEF Kept, SameRecord, Lasts
<1>4. ASSUME AllLast PROVE Sound(tx', tx'[s][t], s, t, submitted', dtxns'[s])
 <2>1. Sound(tx', tx[s][t], s, t, submitted', dtxns'[s]) BY <1>1, <1>4, SoundStays
 <2> QED BY <1>1, <1>2, <2>1, SoundRuns DEF Kept
<1> QED BY <1>3, <1>4 DEF Advances

(* A record of a transaction that the site has only heard of. *)
LEMMA FirstHeardAdvances ==
  ASSUME TypeOK, TypeOK', DecidedInv, ReplyInv, Learns, NEW s \in Sites, NEW t \in Txns, FirstHeard(s, t)
  PROVE Advances(s, t)
<1>1. /\ tx[s][t] \in TxType /\ Sound(tx, tx[s][t], s, t, submitted, dtxns[s])
      /\ tx[s][t].role = "unset" /\ tx'[s][t].role = "unset" /\ tx'[s][t].acks = tx[s][t].acks
  BY RecordBefore DEF FirstHeard
<1>2. ASSUME AllLast PROVE Sound(tx', tx'[s][t], s, t, submitted', dtxns'[s])
 <2>1. Sound(tx', tx[s][t], s, t, submitted', dtxns'[s]) BY <1>1, <1>2, SoundStays
 <2> QED BY <1>1, <2>1 DEF Sound, Recorded, Acked
<1> QED BY <1>1, <1>2 DEF Advances, Lasts

(* What was sent before is still true. *)
LEMMA SoundMessages ==
  ASSUME TypeOK, DecidedInv, ReplyInv, AllLast, Learns,
         \A s \in Sites, t \in Txns :
           tx'[s][t].role = "irtHandler" => tx[s][t].role = "irtHandler" \/ t \notin submitted
  PROVE  /\ \A c \in Sites \X Nodes : \A m \in MsgsIn(req[c]) : SoundReq(tx', submitted', m, c[1], c[2])
         /\ \A c \in Sites \X Sites : \A m \in MsgsIn(rep[c]) : SoundRep(tx', m, c[1])
<1>1. ASSUME NEW c \in Sites \X Nodes, NEW m \in MsgsIn(req[c]) PROVE SoundReq(tx', submitted', m, c[1], c[2])
 <2>1. SoundReq(tx, submitted, m, c[1], c[2]) /\ c[1] \in Sites BY DEF ReplyInv
 <2>2. req[c] \in Seq(ReqMsg) BY DEF TypeOK
 <2>3. m \in ReqMsg BY <2>2 DEF MsgsIn
 <2>4. m.type \in {"PrepareIRT", "RemotePrepared"} => m.txn \in Txns BY <2>3 DEF ReqMsg
 <2>5. m.type = "PrepareIRT" =>
         /\ c[2] \in Sites /\ m.txn \in submitted' /\ tx'[c[2]][m.txn].role # "irtHandler"
   BY <2>1, <2>4 DEF SoundReq, Learns
 <2>6. m.type = "RemotePrepared" => tx'[c[1]][m.txn].role # "unset" BY <2>1, <2>4 DEF SoundReq, AllLast, Lasts
 <2> QED BY <2>5, <2>6 DEF SoundReq
<1>2. ASSUME NEW c \in Sites \X Sites, NEW m \in MsgsIn(rep[c]) PROVE SoundRep(tx', m, c[1])
 <2>1. SoundRep(tx, m, c[1]) /\ LawfulRep(tx, m, c[2]) /\ c[1] \in Sites /\ c[2] \in Sites BY DEF ReplyInv, DecidedInv
 <2>2. rep[c] \in Seq(RepMsg) BY DEF TypeOK
 <2>3. m \in RepMsg BY <2>2 DEF MsgsIn
 <2>4. m.txn \in Txns BY <2>3 DEF RepMsg
 <2>5. ASSUME m.type = "DistExeRes" PROVE RanAt(tx', c[1], m.txn)
  <3>1. RanAt(tx, c[1], m.txn) /\ tx[c[2]][m.txn].role = "crtCoord" BY <2>1, <2>5 DEF SoundRep, LawfulRep, DecidedAs
  <3>2. ~IsIrt(m.txn) BY <2>1, <2>4, <3>1, RecordBefore
  <3> QED BY <2>1, <2>4, <3>1, <3>2, ServedLasts
 <2>6. m.type = "PrepareIRTRes" => tx'[c[1]][m.txn].role = "irtReplica" BY <2>1, <2>4 DEF SoundRep, AllLast, Lasts
 <2> QED BY <2>5, <2>6 DEF SoundRep
<1> QED BY <1>1, <1>2

(* Who is answered in a step of s has been served. *)
LEMMA AnsweredServed ==
  ASSUME TypeOK', DecidedInv', NEW s \in Sites, NEW t \in Txns, Answered(s, t),
         \A r \in Sites : Sound(tx', tx'[r][t], r, t, submitted', dtxns'[r])
  PROVE Served(tx', t)
<1> DEFINE y == tx'[s][t]
<1>1. y \in TxType /\ Sound(tx', y, s, t, submitted', dtxns'[s]) BY DEF TypeOK
<1>2. y.acks \subseteq Sites /\ Acked(tx', y, t) BY <1>1 DEF TxType, Sound
<1>3. CASE y.role = "irtHandler" /\ Finished(y) /\ y.phase >= PHASE_CAN_EXE
 <2>1. IsIrt(t) /\ ParOf(s) \in Touched(t) /\ StoredEverywhere(t, y) /\ y.pieces = PiecesAt(t, ParOf(s))
   BY <1>1, <1>3 DEF Sound, Handled, Recorded
 <2>2. RanAt(tx', s, t) BY <1>3, <2>1 DEF RanAt, Finished
 <2>3. ASSUME NEW par \in Touched(t) PROVE Cardinality(Copies(tx', par, t)) >= (NReplicas - 1) \div 2
  <3>1. AcksOf(y, par) \subseteq Copies(tx', par, t) /\ Copies(tx', par, t) \subseteq Sites
    BY <1>2, <1>3 DEF AcksOf, Copies, Acked, SitesByPartitionId
  <3>2. /\ Cardinality(AcksOf(y, par)) \in Nat /\ Cardinality(Copies(tx', par, t)) \in Nat
        /\ Cardinality(AcksOf(y, par)) <= Cardinality(Copies(tx', par, t)) BY <3>1, CountSites
  <3>3. Cardinality(AcksOf(y, par)) >= (NReplicas - 1) \div 2 /\ (NReplicas - 1) \div 2 \in Int
    BY <2>1, SizesAssumption DEF StoredEverywhere
  <3> QED BY <3>2, <3>3
 <2> QED BY <1>3, <2>1, <2>2, <2>3 DEF Served
<1>4. CASE y.role = "crtCoord" /\ y.phase = OUTPUT_SENT
 <2>1. ~IsIrt(t) BY <1>4 DEF DecidedInv, LawfulTx, Coordinates
 <2>2. \A par \in Touched(t) : y.status[par] >= P_OUTPUT_RECEIVED BY <1>1, <1>4 DEF Sound, Collects
 <2>3. ASSUME NEW par \in Touched(t)
       PROVE RanIn(tx', par, t) /\ Cardinality(Holders(tx', par, t)) >= (NReplicas + 1) \div 2
  <3>1. y.status[par] >= P_REMOTE_PREPARED
   <4>1. par \in Pars /\ y.status \in [Pars -> DistPartStatus] BY <1>1, Workload DEF TxType, StatusOfPars
   <4>2. y.status[par] \in DistPartStatus BY <4>1
   <4> QED BY <2>2, <4>2 DEF P_NOT_RECEIVED, P_REMOTE_SENT, P_OUTPUT_RECEIVED, P_REMOTE_PREPARED, DistPartStatus
  <3>2. RanIn(tx', par, t) /\ Cardinality(AcksOf(y, par)) >= (NReplicas + 1) \div 2
    BY <1>1, <1>4, <2>2, <3>1 DEF Sound, Collects
  <3>3. AcksOf(y, par) \subseteq Holders(tx', par, t) /\ Holders(tx', par, t) \subseteq Sites
    BY <1>2 DEF AcksOf, Holders, Acked, SitesByPartitionId
  <3>4. /\ Cardinality(AcksOf(y, par)) \in Nat /\ Cardinality(Holders(tx', par, t)) \in Nat
        /\ Cardinality(AcksOf(y, par)) <= Cardinality(Holders(tx', par, t)) BY <3>3, CountSites
  <3>5. (NReplicas + 1) \div 2 \in Int BY SizesAssumption
  <3> QED BY <3>2, <3>4, <3>5
 <2> QED BY <2>1, <2>3 DEF Served
<1> QED BY <1>3, <1>4 DEF Answered

(* After a handler of s. *)
LEMMA HandlerReplies ==
  ASSUME TypeOK, TypeOK', DecidedInv, DecidedInv', ReplyInv, NEW s \in Sites, OthersKept(s), Learns,
         OnlyAnswers(s), \A u \in Txns : Advances(s, u),
         \A c \in Sites \X Nodes : \A m \in NewReqs(c) : SoundReq(tx', submitted', m, c[1], c[2]),
         \A c \in Sites \X Sites : \A m \in NewReps(c) : IsAnswer(m, s, c) \/ SoundRep(tx', m, c[1])
  PROVE ReplyInv'
<1>1. \A r \in Sites, u \in Txns : Advances(r, u)
 <2> SUFFICES ASSUME NEW r \in Sites, NEW u \in Txns, r # s PROVE Advances(r, u) OBVIOUS
 <2>1. tx'[r][u] = tx[r][u] BY DEF OthersKept
 <2> QED BY <2>1, SameIsKept, KeptAdvances
<1>2. AllLast BY <1>1 DEF AllLast, Advances
<1>3. \A r \in Sites, u \in Txns : Sound(tx', tx'[r][u], r, u, submitted', dtxns'[r]) BY <1>1, <1>2 DEF Advances
<1>4. /\ \A c \in Sites \X Nodes : \A m \in MsgsIn(req[c]) : SoundReq(tx', submitted', m, c[1], c[2])
      /\ \A c \in Sites \X Sites : \A m \in MsgsIn(rep[c]) : SoundRep(tx', m, c[1])
 <2>1. \A r \in Sites, u \in Txns :
         tx'[r][u].role = "irtHandler" => tx[r][u].role = "irtHandler" \/ u \notin submitted BY <1>1 DEF Advances
 <2> QED BY <1>2, <2>1, SoundMessages
<1>5. ASSUME NEW c \in Sites \X Sites, NEW m, IsAnswer(m, s, c) PROVE SoundRep(tx', m, c[1])
 <2>1. m.type = "DistExeRes" /\ m.txn \in Txns /\ c[1] = s /\ Finished(tx'[s][m.txn]) BY <1>5 DEF IsAnswer
 <2>2. Sound(tx', tx'[s][m.txn], s, m.txn, submitted', dtxns'[s]) BY <1>3, <2>1
 <2>3. RanAt(tx', s, m.txn) BY <2>1, <2>2 DEF Finished, RanAt, Sound, Recorded
 <2> QED BY <2>1, <2>3 DEF SoundRep
<1>6. \A c \in Sites \X Nodes : \A m \in MsgsIn(req'[c]) : SoundReq(tx', submitted', m, c[1], c[2]) BY <1>4 DEF NewReqs
<1>7. \A c \in Sites \X Sites : \A m \in MsgsIn(rep'[c]) : SoundRep(tx', m, c[1]) BY <1>4, <1>5 DEF NewReps
<1>8. ASSUME NEW u \in replied' PROVE Served(tx', u)
 <2>1. CASE u \in replied
  <3>1. u \in Txns /\ Served(tx, u) BY <2>1 DEF TypeOK, ReplyInv
  <3> QED BY <1>2, <3>1, ServedLasts
 <2>2. CASE Answered(s, u)
  <3>1. u \in Txns BY <2>2 DEF Answered
  <3> QED BY <1>3, <2>2, <3>1, AnsweredServed
 <2> QED BY <2>1, <2>2 DEF OnlyAnswers
<1> QED BY <1>3, <1>6, <1>7, <1>8 DEF ReplyInv

(* A step that touches no record and asks for none. *)
LEMMA QuietReplies ==
  ASSUME TypeOK, TypeOK', DecidedInv, DecidedInv', ReplyInv,
         UNCHANGED <<tx, dtxns, submitted, rep, replied, ready_txns>>,
         \A c \in Sites \X Nodes : \A m \in NewReqs(c) : m.type \notin {"PrepareIRT", "RemotePrepared"}
  PROVE ReplyInv'
<1>1. OthersKept(0) /\ OnlyAnswers(0) /\ Learns BY DEF OthersKept, OnlyAnswers, Learns
<1>2. \A u \in Txns : Advances(0, u) BY <1>1, FirstSite, SameIsKept, KeptAdvances
<1>3. \A c \in Sites \X Nodes : \A m \in NewReqs(c) : SoundReq(tx', submitted', m, c[1], c[2]) BY DEF SoundReq
<1>4. \A c \in Sites \X Sites : NewReps(c) = {} BY DEF NewReps
<1> QED BY <1>1, <1>2, <1>3, <1>4, FirstSite, HandlerReplies

-----
(* HandleIRT: a transaction that nobody submitted has no record. *)
LEMMA HandleIRTReplies ==
  ASSUME TypeOK, TypeOK', DecidedInv, DecidedInv', ReplyInv, NEW s \in Sites, NEW t \in Txns,
         NEW now \in PhysTimes, NEW skips \in Nat, HandleIRT(s, t, now, skips)
  PROVE ReplyInv'
<1>1. /\ IsIrt(t) /\ t \notin submitted /\ s \in Handlers[t] /\ replied' = replied
      /\ submitted' = submitted \cup {t} /\ dtxns' = [dtxns EXCEPT ![s] = @ \cup {t}] BY DEF HandleIRT
<1>2. /\ OthersKept(s)
      /\ \A u \in Txns \ {t} : tx'[s][u] = tx[s][u]
      /\ IsSubmitted(tx'[s][t], s, t, last_clock'[s])
      /\ \A c \in Sites \X Nodes : \A m \in NewReqs(c) :
           /\ c[1] = s /\ c[2] \in Sites /\ c[2] # s
           /\ IsPiggy(m, "PrepareIRT", last_clock'[s], ZeroTs,
                      CollectNotifyTxns(s, c[2], my_txns'[s], ir_site_notified_ts[s][c[2]]))
           /\ m.txn = t
      /\ rep' = rep BY HandleIRTStep
<1>3. Learns /\ OnlyAnswers(s) /\ t \in dtxns'[s] BY <1>1 DEF Learns, TypeOK, OnlyAnswers
<1>4. \A r \in Sites : tx[r][t].role = "unset" BY <1>1, RecordBefore
<1>5. Advances(s, t)
 <2> DEFINE y == tx'[s][t]
 <2>1. y.role = "irtHandler" /\ y.pieces = PiecesAt(t, ParOf(s)) /\ y.acks = {} /\ y.phase = LOCAL_NOT_STORED
   BY <1>2 DEF IsSubmitted
 <2>2. ~(LOCAL_NOT_STORED >= PHASE_CAN_EXE) BY DEF LOCAL_NOT_STORED, PHASE_CAN_EXE, LOCAL_CAN_EXE
 <2>3. ParOf(s) \in Touched(t) BY <1>1, WorkloadAssumption
 <2>4. Recorded(y, s, t, submitted', dtxns'[s]) /\ Acked(tx', y, t) /\ Handled(y, s, t)
   BY <1>1, <1>3, <2>1, <2>2, <2>3 DEF Recorded, Acked, Handled
 <2>5. Sound(tx', y, s, t, submitted', dtxns'[s]) BY <1>1, <2>1, <2>4 DEF Sound
 <2> QED BY <1>1, <1>4, <2>5 DEF Advances, Lasts
<1>6. \A u \in Txns : Advances(s, u) BY <1>2, <1>3, <1>5, SameIsKept, KeptAdvances
<1>7. ASSUME NEW c \in Sites \X Nodes, NEW m \in NewReqs(c) PROVE SoundReq(tx', submitted', m, c[1], c[2])
 <2>1. m.type = "PrepareIRT" /\ m.txn = t /\ c[2] \in Sites \ {s} BY <1>2 DEF IsPiggy
 <2>2. tx'[c[2]][t].role = "unset" BY <1>2, <1>4, <2>1 DEF OthersKept
 <2> QED BY <1>1, <2>1, <2>2 DEF SoundReq
<1>8. \A c \in Sites \X Sites : NewReps(c) = {} BY <1>2 DEF NewReps
<1> QED BY <1>2, <1>3, <1>6, <1>7, <1>8, HandlerReplies

(* OnSubmitCRT. *)
LEMMA OnSubmitCRTReplies ==
  ASSUME TypeOK, TypeOK', DecidedInv, DecidedInv', ReplyInv, CoordinatorsInPlace,
         NEW s \in Sites, NEW t \in Txns, NEW now \in PhysTimes, OnSubmitCRT(s, t, now)
  PROVE ReplyInv'
<1>1. /\ ~IsIrt(t) /\ t \notin submitted /\ s \in Handlers[t] /\ replied' = replied /\ rep' = rep
      /\ submitted' = submitted \cup {t} /\ dtxns' = [dtxns EXCEPT ![s] = @ \cup {t}] BY DEF OnSubmitCRT
<1>2. /\ OthersKept(s)
      /\ \A u \in Txns \ {t} : tx'[s][u] = tx[s][u]
      /\ IsCoordinated(tx'[s][t], s, t)
      /\ \A c \in Sites \X Nodes : \A m \in NewReqs(c) : m.type = "PrepareRemote" BY OnSubmitCRTStep
<1>3. Learns /\ OnlyAnswers(s) /\ t \in dtxns'[s] BY <1>1 DEF Learns, TypeOK, OnlyAnswers
<1>4. tx[s][t].role = "unset" BY <1>1, RecordBefore
<1>5. Advances(s, t)
 <2> DEFINE y == tx'[s][t]
 <2>1. /\ y.role = "crtCoord" /\ y.pieces = PiecesAt(t, ParOf(s)) /\ y.acks = {}
       /\ y.phase = DIST_REMOTE_SENT
       /\ y.status = [par \in Pars |-> IF par \in Touched(t) THEN P_REMOTE_SENT ELSE P_NOT_RECEIVED]
   BY <1>1, <1>2 DEF IsCoordinated, CoordinatorsInPlace
 <2> HIDE DEF y
 <2>2. \A par \in Touched(t) : y.status[par] = P_REMOTE_SENT BY <2>1, Workload
 <2>3. /\ ~(P_REMOTE_SENT >= P_REMOTE_PREPARED) /\ ~(P_REMOTE_SENT >= P_OUTPUT_RECEIVED)
       /\ DIST_REMOTE_SENT # OUTPUT_SENT
   BY DEF P_REMOTE_SENT, P_REMOTE_PREPARED, P_OUTPUT_RECEIVED, DIST_REMOTE_SENT, OUTPUT_SENT
 <2>4. Recorded(y, s, t, submitted', dtxns'[s]) /\ Acked(tx', y, t) /\ Collects(tx', y, t)
   BY <1>1, <1>3, <2>1, <2>2, <2>3 DEF Recorded, Acked, Collects
 <2>5. Sound(tx', y, s, t, submitted', dtxns'[s]) BY <2>1, <2>4 DEF Sound
 <2> QED BY <1>4, <2>1, <2>5 DEF Advances, Lasts, y
<1>6. \A u \in Txns : Advances(s, u) BY <1>2, <1>3, <1>5, SameIsKept, KeptAdvances
<1>7. \A c \in Sites \X Nodes : \A m \in NewReqs(c) : SoundReq(tx', submitted', m, c[1], c[2]) BY <1>2 DEF SoundReq
<1>8. \A c \in Sites \X Sites : NewReps(c) = {} BY <1>1 DEF NewReps
<1> QED BY <1>2, <1>3, <1>6, <1>7, <1>8, HandlerReplies

(* What HandlePiggyInfo leaves of dtxns. *)
LEMMA PiggyLearns ==
  ASSUME TypeOK, NEW s \in Sites, NEW from, NEW ts, NEW noti, NEW delivered, NEW known, NEW now,
         dtxns[s] \subseteq known, UNCHANGED submitted,
         HandlePiggyInfo(s, from, ts, noti, delivered, known, now)
  PROVE Learns /\ known \subseteq dtxns'[s]
<1> DEFINE K == known \cup {e.id : e \in noti}
<1>1. dtxns' = [dtxns EXCEPT ![s] = K] BY DEF HandlePiggyInfo
<1>2. known \subseteq K OBVIOUS
<1> HIDE DEF K
<1> QED BY <1>1, <1>2 DEF Learns, TypeOK

(* OnPrepareIRT: the receiver does not handle the transaction. *)
LEMMA OnPrepareIRTReplies ==
  ASSUME TypeOK, TypeOK', DecidedInv, DecidedInv', ReplyInv, NEW src \in Sites, NEW s \in Sites,
         NEW now \in PhysTimes, OnPrepareIRT(src, s, now)
  PROVE ReplyInv'
<1> DEFINE m == ReqAt(src, s)
           t == m.txn
<1>1. UNCHANGED submitted /\ HandlePiggyInfo(s, src, m.ts, m.noti, m.delivered, dtxns[s] \cup {t}, now)
  BY DEF OnPrepareIRT, ReqAt
<1>2. /\ m \in MsgsIn(req[<<src, s>>]) /\ m \in ReqMsg /\ m.type = "PrepareIRT"
      /\ OthersKept(s)
      /\ \A u \in Txns \ {t} : Kept(s, u) \/ FirstHeard(s, u)
      /\ tx'[s][t].role = "irtReplica" /\ tx'[s][t].acks = tx[s][t].acks
      /\ tx'[s][t].pieces = PiecesAt(t, ParOf(s))
      /\ OnlyAnswers(s)
      /\ \A c \in Sites \X Nodes : \A w \in NewReqs(c) : w.type = "SendOutput"
      /\ \A c \in Sites \X Sites : \A w \in NewReps(c) :
           \/ IsAnswer(w, s, c)
           \/ /\ c[1] = s /\ c[2] = src
              /\ IsPiggy(w, "PrepareIRTRes", last_clock'[s], m.ts,
                         CollectNotifyTxns(s, src, my_txns[s], ir_site_notified_ts'[s][src]))
              /\ w.txn = t BY OnPrepareIRTStep
<1> HIDE DEF m
<1>3. Learns /\ t \in dtxns'[s] BY <1>1, PiggyLearns
<1>4. t \in Txns /\ s \in Nodes /\ <<src, s>> \in Sites \X Nodes BY <1>2, Placement DEF ReqMsg
<1>5. IsIrt(t) BY <1>2, <1>4, TakenLawful DEF LawfulReq
<1>6. t \in submitted /\ tx[s][t].role # "irtHandler"
 <2>1. SoundReq(tx, submitted, m, <<src, s>>[1], <<src, s>>[2]) BY <1>2, <1>4 DEF ReplyInv
 <2> QED BY <1>2, <2>1 DEF SoundReq
<1> HIDE DEF t
<1>7. Advances(s, t)
 <2>1. tx[s][t] \in TxType /\ Sound(tx, tx[s][t], s, t, submitted, dtxns[s])
       /\ (tx[s][t].role = "crtCoord" => ~IsIrt(t)) BY <1>4, RecordBefore
 <2>2. ASSUME AllLast PROVE Sound(tx', tx'[s][t], s, t, submitted', dtxns'[s])
  <3>1. Sound(tx', tx[s][t], s, t, submitted', dtxns'[s]) BY <1>3, <1>4, <2>1, <2>2, SoundStays
  <3>2. Acked(tx', tx'[s][t], t) BY <1>2, <3>1 DEF Sound, Acked
  <3>3. Recorded(tx'[s][t], s, t, submitted', dtxns'[s]) BY <1>1, <1>2, <1>3, <1>6 DEF Recorded
  <3> QED BY <1>2, <1>5, <3>2, <3>3 DEF Sound
 <2> QED BY <1>2, <1>5, <1>6, <2>2 DEF Advances, Lasts
<1>8. \A u \in Txns : Advances(s, u) BY <1>2, <1>3, <1>7, KeptAdvances, FirstHeardAdvances
<1>9. \A c \in Sites \X Nodes : \A w \in NewReqs(c) : SoundReq(tx', submitted', w, c[1], c[2]) BY <1>2 DEF SoundReq
<1>10. \A c \in Sites \X Sites : \A w \in NewReps(c) : IsAnswer(w, s, c) \/ SoundRep(tx', w, c[1])
  BY <1>2 DEF IsPiggy, SoundRep
<1> QED BY <1>2, <1>3, <1>8, <1>9, <1>10, HandlerReplies

(* PrepareIRTACK: an acknowledgement comes from a replica that stored. *)
LEMMA PrepareIRTACKReplies ==
  ASSUME TypeOK, TypeOK', DecidedInv, DecidedInv', ReplyInv, NEW src \in Sites, NEW s \in Sites,
         NEW now \in PhysTimes, PrepareIRTACK(src, s, now)
  PROVE ReplyInv'
<1> DEFINE m == RepAt(src, s)
           t == m.txn
<1>1. UNCHANGED submitted /\ HandlePiggyInfo(s, src, m.ts, m.noti, m.delivered, dtxns[s], now)
  BY DEF PrepareIRTACK, RepAt
<1>2. /\ m \in MsgsIn(rep[<<src, s>>]) /\ m \in RepMsg /\ m.type = "PrepareIRTRes"
      /\ OthersKept(s)
      /\ \A u \in Txns \ {t} : Kept(s, u) \/ FirstHeard(s, u)
      /\ CountsAck(s, t, src)
      /\ OnlyAnswers(s)
      /\ \A c \in Sites \X Nodes : \A w \in NewReqs(c) : w.type = "SendOutput"
      /\ \A c \in Sites \X Sites : \A w \in NewReps(c) : IsAnswer(w, s, c) BY PrepareIRTACKStep
<1> HIDE DEF m
<1>3. Learns BY <1>1, PiggyLearns
<1>4. t \in Txns /\ <<src, s>> \in Sites \X Sites BY <1>2 DEF RepMsg
<1>5. IsIrt(t) BY <1>2, TakenLawful DEF LawfulRep
<1>6. tx[src][t].role = "irtReplica"
 <2>1. SoundRep(tx, m, <<src, s>>[1]) BY <1>2, <1>4 DEF ReplyInv
 <2> QED BY <1>2, <2>1 DEF SoundRep
<1> HIDE DEF t
<1>7. Advances(s, t)
 <2> DEFINE y == tx[s][t]
            z == tx'[s][t]
 <2>1. /\ y \in TxType /\ z \in TxType /\ Sound(tx, y, s, t, submitted, dtxns[s])
       /\ y.role # "crtCoord" /\ (t \notin dtxns[s] => y.role = "unset") BY <1>4, <1>5, RecordBefore DEF TypeOK
 <2>2. /\ z.role = y.role /\ z.pieces = y.pieces /\ y.done \subseteq z.done
       /\ y.acks \subseteq z.acks /\ z.acks \subseteq y.acks \cup {src}
       /\ y.role = "irtHandler" => z.phase = y.phase \/ StoredEverywhere(t, z) BY <1>2, <2>1 DEF CountsAck
 <2> HIDE DEF y, z
 <2>3. ASSUME AllLast PROVE Sound(tx', z, s, t, submitted', dtxns'[s])
  <3>1. Sound(tx', y, s, t, submitted', dtxns'[s]) BY <1>3, <1>4, <2>1, <2>3, SoundStays
  <3>2. tx'[src][t].role = "irtReplica" BY <1>4, <1>6, <2>3 DEF AllLast, Lasts
  <3>3. Acked(tx', z, t) BY <2>2, <3>1, <3>2 DEF Sound, Acked
  <3>4. Recorded(z, s, t, submitted', dtxns'[s]) BY <2>2, <3>1 DEF Sound, Recorded
  <3>5. ASSUME y.role = "irtHandler", z.phase = y.phase, z.phase >= PHASE_CAN_EXE PROVE StoredEverywhere(t, z)
   <4>1. StoredEverywhere(t, y) BY <3>1, <3>5 DEF Sound, Handled
   <4>2. ASSUME NEW par PROVE /\ Cardinality(AcksOf(y, par)) \in Nat /\ Cardinality(AcksOf(z, par)) \in Nat
                              /\ Cardinality(AcksOf(y, par)) <= Cardinality(AcksOf(z, par))
    <5>1. AcksOf(y, par) \subseteq AcksOf(z, par) /\ AcksOf(z, par) \subseteq Sites BY <2>1, <2>2 DEF AcksOf, TxType
    <5> QED BY <5>1, CountSites
   <4>3. (NReplicas - 1) \div 2 \in Int BY SizesAssumption
   <4> QED BY <4>1, <4>2, <4>3 DEF StoredEverywhere
  <3>6. y.role = "irtHandler" => Handled(z, s, t) BY <2>2, <3>1, <3>5 DEF Sound, Handled
  <3> QED BY <1>5, <2>1, <2>2, <3>3, <3>4, <3>6 DEF Sound
 <2> QED BY <2>2, <2>3 DEF Advances, Lasts, y, z
<1>8. \A u \in Txns : Advances(s, u) BY <1>2, <1>3, <1>7, KeptAdvances, FirstHeardAdvances
<1>9. \A c \in Sites \X Nodes : \A w \in NewReqs(c) : SoundReq(tx', submitted', w, c[1], c[2]) BY <1>2 DEF SoundReq
<1> QED BY <1>2, <1>3, <1>8, <1>9, HandlerReplies

(* OnIRSync. *)
LEMMA OnIRSyncReplies ==
  ASSUME TypeOK, TypeOK', DecidedInv, DecidedInv', ReplyInv, NEW src \in Sites, NEW s \in Sites,
         NEW now \in PhysTimes, OnIRSync(src, s, now)
  PROVE ReplyInv'
<1> DEFINE m == ReqAt(src, s)
<1>1. UNCHANGED submitted /\ HandlePiggyInfo(s, m.from, m.ts, m.noti, m.delivered, dtxns[s], now) BY DEF OnIRSync, ReqAt
<1>2. /\ OthersKept(s)
      /\ \A u \in Txns : Kept(s, u) \/ FirstHeard(s, u)
      /\ OnlyAnswers(s)
      /\ \A c \in Sites \X Nodes : \A w \in NewReqs(c) : w.type = "SendOutput"
      /\ \A c \in Sites \X Sites : \A w \in NewReps(c) : IsAnswer(w, s, c) BY OnIRSyncStep
<1> HIDE DEF m
<1>3. Learns BY <1>1, PiggyLearns
<1>4. \A u \in Txns : Advances(s, u) BY <1>2, <1>3, KeptAdvances, FirstHeardAdvances
<1>5. \A c \in Sites \X Nodes : \A w \in NewReqs(c) : SoundReq(tx', submitted', w, c[1], c[2]) BY <1>2 DEF SoundReq
<1> QED BY <1>2, <1>3, <1>4, <1>5, HandlerReplies

(* IRSyncLoop and the handlers of the managers. *)
LEMMA ManagersReply ==
  ASSUME TypeOK, TypeOK', DecidedInv, DecidedInv', ReplyInv,
         \/ \E n \in Nodes, now \in PhysTimes : IRSyncLoop(n, now)
         \/ \E src \in Sites, mgr \in Managers, now \in PhysTimes : MgrPrepareCRT(src, mgr, now)
         \/ \E src \in Sites, mgr \in Managers : NotiWait(src, mgr) \/ MgrFinish(mgr)
         \/ \E src \in Sites, s \in Sites : OnNotiCRT(src, s) \/ OnNotiCommit(src, s)
  PROVE ReplyInv'
<1>1. ASSUME NEW n \in Nodes, NEW now \in PhysTimes, IRSyncLoop(n, now) PROVE ReplyInv'
 <2>1. UNCHANGED <<tx, dtxns, submitted, rep, replied, ready_txns>> BY <1>1 DEF IRSyncLoop, tableVars, execVars
 <2>2. \A c \in Sites \X Nodes : \A m \in NewReqs(c) : m.type = "IRSync" BY <1>1, IRSyncLoopStep
 <2> QED BY <2>1, <2>2, QuietReplies
<1>2. ASSUME NEW src \in Sites, NEW mgr \in Managers, NEW now \in PhysTimes, MgrPrepareCRT(src, mgr, now)
      PROVE ReplyInv'
 <2>1. UNCHANGED <<tx, dtxns, submitted, rep, replied, ready_txns>> BY <1>2 DEF MgrPrepareCRT, tableVars, execVars
 <2>2. \A c \in Sites \X Nodes : \A w \in NewReqs(c) : CrtMsg(w, ReqAt(src, mgr), mgr, c[2]) BY <1>2, MgrPrepareCRTStep
 <2>3. \A c \in Sites \X Nodes : \A w \in NewReqs(c) : w.type \in {"PrepareCRT", "NotiCRT"} BY <2>2 DEF CrtMsg
 <2> QED BY <2>1, <2>3, QuietReplies
<1>3. ASSUME NEW src \in Sites, NEW mgr \in Managers, NotiWait(src, mgr) PROVE ReplyInv'
 <2>1. UNCHANGED <<tx, dtxns, submitted, rep, replied, ready_txns>> BY <1>3 DEF NotiWait, tableVars, execVars
 <2>2. \A c \in Sites \X Nodes : \A w \in NewReqs(c) : w.type = "NotiCommit" BY <1>3, NotiWaitStep, Zenon
 <2>3. \A c \in Sites \X Nodes : \A w \in NewReqs(c) : w.type \notin {"PrepareIRT", "RemotePrepared"} BY <2>2
 <2> QED BY <2>1, <2>3, QuietReplies
<1>4. ASSUME NEW mgr \in Managers, MgrFinish(mgr) PROVE ReplyInv'
 <2>1. UNCHANGED <<tx, dtxns, submitted, rep, replied, ready_txns, req>> BY <1>4 DEF MgrFinish, tableVars, execVars
 <2>2. \A c \in Sites \X Nodes : NewReqs(c) = {} BY <2>1 DEF NewReqs
 <2> QED BY <2>1, <2>2, QuietReplies
<1>5. ASSUME NEW src \in Sites, NEW s \in Sites, OnNotiCRT(src, s) \/ OnNotiCommit(src, s) PROVE ReplyInv'
 <2>1. /\ UNCHANGED <<tx, dtxns, submitted, rep, replied, ready_txns>>
       /\ req' = Taken(req, <<src, s>>)
       /\ Receives(src, s, "NotiCRT") \/ Receives(src, s, "NotiCommit")
   BY <1>5 DEF OnNotiCRT, OnNotiCommit, tableVars, execVars
 <2>2. NoNewReqs BY <2>1, Placement, OnlyTaken
 <2> QED BY <2>1, <2>2, QuietReplies DEF NoNewReqs
<1> QED BY <1>1, <1>2, <1>3, <1>4, <1>5

-----
(* One more acknowledgement, of site a that has a record of t, in the record of the
   coordinator: w counts it, and z decides. *)
LEMMA AckSound ==
  ASSUME NEW s \in Sites, NEW t \in Txns, NEW y \in TxType, NEW acked \in TxType, NEW a \in Sites, NEW ts,
         Acks(y, acked, a, ts), acked.pieces = y.pieces, y.role = "crtCoord",
         NEW sub, NEW known, Sound(tx', y, s, t, sub, known), tx'[a][t].role # "unset"
  PROVE  LET w == WithPrepared(acked, ParOf(a))
             z == Decided(t, w)
         IN  Sound(tx', w, s, t, sub, known) /\ Sound(tx', z, s, t, sub, known)
<1> DEFINE par == ParOf(a)
           w   == WithPrepared(acked, par)
           z   == Decided(t, w)
<1>1. /\ w \in TxType /\ z \in TxType /\ w.phase = acked.phase /\ w.role = acked.role
      /\ w.pieces = acked.pieces /\ w.acks = acked.acks
      /\ w.status = IF Prepared(acked, par)
                    THEN [acked.status EXCEPT ![par] = P_REMOTE_PREPARED] ELSE acked.status
      /\ z.phase = DIST_CAN_EXE /\ z.role = w.role /\ z.status = w.status
      /\ z.pieces = w.pieces /\ z.acks = w.acks BY DecidedRecord
<1>2. /\ y.status \in [Pars -> DistPartStatus] /\ y.acks \subseteq Sites /\ par \in Pars
      /\ Touched(t) \subseteq Pars BY Placement, Workload DEF TxType, StatusOfPars
<1> HIDE DEF w, z
<1>3. /\ w.role = "crtCoord" /\ w.phase = y.phase /\ w.pieces = y.pieces /\ w.acks = y.acks \cup {a}
      /\ acked.status = y.status BY <1>1 DEF Acks
<1>4. \A p \in Touched(t) :
        \/ w.status[p] = y.status[p]
        \/ /\ p = par /\ w.status[p] = P_REMOTE_PREPARED /\ y.status[p] = P_REMOTE_SENT
           /\ Cardinality(AcksOf(w, p)) >= (NReplicas + 1) \div 2
 <2>1. CASE Prepared(acked, par)
  <3>1. w.status = [y.status EXCEPT ![par] = P_REMOTE_PREPARED] /\ y.status[par] = P_REMOTE_SENT
    BY <1>1, <1>3, <2>1 DEF Prepared
  <3>2. Cardinality(AcksOf(w, par)) >= (NReplicas + 1) \div 2 BY <1>1, <2>1 DEF Prepared, AcksOf
  <3> QED BY <1>2, <3>1, <3>2
 <2>2. CASE ~Prepared(acked, par) BY <1>1, <1>3, <2>2
 <2> QED BY <2>1, <2>2
<1>5. /\ ~(P_REMOTE_PREPARED >= P_OUTPUT_RECEIVED) /\ ~(P_REMOTE_SENT >= P_OUTPUT_RECEIVED)
      /\ DIST_CAN_EXE # OUTPUT_SENT
  BY DEF P_REMOTE_SENT, P_REMOTE_PREPARED, P_OUTPUT_RECEIVED, DIST_CAN_EXE, OUTPUT_SENT
<1>6. Collects(tx', y, t) BY DEF Sound
<1>7. ASSUME NEW p \in Touched(t)
      PROVE  /\ w.status[p] >= P_OUTPUT_RECEIVED => RanIn(tx', p, t)
             /\ w.status[p] >= P_REMOTE_PREPARED => Cardinality(AcksOf(w, p)) >= (NReplicas + 1) \div 2
 <2>1. w.status[p] >= P_OUTPUT_RECEIVED => RanIn(tx', p, t) BY <1>4, <1>5, <1>6 DEF Collects
 <2>2. ASSUME y.status[p] >= P_REMOTE_PREPARED PROVE Cardinality(AcksOf(w, p)) >= (NReplicas + 1) \div 2
  <3>1. Cardinality(AcksOf(y, p)) >= (NReplicas + 1) \div 2 /\ (NReplicas + 1) \div 2 \in Int
    BY <1>6, <2>2, SizesAssumption DEF Collects
  <3>2. AcksOf(y, p) \subseteq AcksOf(w, p) /\ AcksOf(w, p) \subseteq Sites BY <1>2, <1>3 DEF AcksOf
  <3>3. /\ Cardinality(AcksOf(y, p)) \in Nat /\ Cardinality(AcksOf(w, p)) \in Nat
        /\ Cardinality(AcksOf(y, p)) <= Cardinality(AcksOf(w, p)) BY <3>2, CountSites
  <3> QED BY <3>1, <3>3
 <2> QED BY <1>4, <2>1, <2>2
<1>8. Collects(tx', w, t)
 <2>1. w.phase = OUTPUT_SENT => \A p \in Touched(t) : w.status[p] >= P_OUTPUT_RECEIVED
   BY <1>3, <1>4, <1>5, <1>6 DEF Collects
 <2> QED BY <1>7, <2>1 DEF Collects
<1>9. \A p : AcksOf(z, p) = AcksOf(w, p) BY <1>1 DEF AcksOf
<1>10. Collects(tx', z, t) BY <1>1, <1>5, <1>7, <1>9 DEF Collects
<1>11. Recorded(w, s, t, sub, known) /\ Acked(tx', w, t) BY <1>3 DEF Sound, Recorded, Acked
<1>12. Recorded(z, s, t, sub, known) /\ Acked(tx', z, t) BY <1>1, <1>3, <1>11 DEF Recorded, Acked
<1>13. Sound(tx', w, s, t, sub, known) /\ Sound(tx', z, s, t, sub, known)
  BY <1>1, <1>3, <1>8, <1>10, <1>11, <1>12 DEF Sound
<1> QED BY <1>13 DEF w, z

(* The step of the coordinator. *)
LEMMA AcknowledgedReplies ==
  ASSUME TypeOK, TypeOK', DecidedInv, DecidedInv', ReplyInv, NEW s \in Sites, NEW t \in Txns, NEW now,
         OthersKept(s), OnlyAnswers(s), \A u \in Txns \ {t} : Kept(s, u), UNCHANGED <<dtxns, submitted>>,
         NEW acked \in TxType, NEW a \in Sites, NEW ts, Acks(tx[s][t], acked, a, ts),
         acked.pieces = tx[s][t].pieces, acked.done = tx[s][t].done,
         tx[s][t].role = "crtCoord", tx[a][t].role # "unset",
         Acknowledged(s, t, acked, ParOf(a), now)
  PROVE ReplyInv'
<1> DEFINE y == tx[s][t]
           w == WithPrepared(acked, ParOf(a))
           z == Decided(t, w)
<1>1. Learns BY DEF Learns
<1>2. /\ y \in TxType /\ tx'[s][t] \in TxType /\ ~IsIrt(t)
      /\ Sound(tx, y, s, t, submitted, dtxns[s]) BY RecordBefore DEF TypeOK
<1>3. /\ w \in TxType /\ z \in TxType
      /\ w.role = acked.role /\ w.done = acked.done
      /\ z.role = w.role /\ z.done = w.done /\ z.status = w.status
 <2>1. w \in TxType /\ z \in TxType BY DecidedRecord
 <2>2. w.role = acked.role /\ w.done = acked.done BY DEF WithPrepared, TxType
 <2> HIDE DEF w
 <2> QED BY <2>1, <2>2 DEF Decided, TxType
<1>4. acked.role = "crtCoord" BY DEF Acks
<1>5. \/ ~Decides(t, acked, ParOf(a)) /\ tx'[s][t] = w /\ rep' = rep /\ NoNewReqs
      \/ /\ Decides(t, acked, ParOf(a))
         /\ SameRecord(z, tx'[s][t]) /\ SameProgress(t, z, tx'[s][t], ParOf(s))
         /\ \A c \in Sites \X Nodes : \A m \in NewReqs(c) :
              m.type = "SendOutput" \/ (c[1] = s /\ DecisionMsg(m, s, t, w, c[2]))
         /\ \A c \in Sites \X Sites : \A m \in NewReps(c) : IsAnswer(m, s, c) BY DEF Acknowledged
<1>6. Decides(t, acked, ParOf(a)) => AllPrepared(t, w) BY DEF Decides
<1>7. ASSUME AllLast
      PROVE  /\ Sound(tx', w, s, t, submitted', dtxns'[s])
             /\ Sound(tx', z, s, t, submitted', dtxns'[s])
 <2>1. Sound(tx', y, s, t, submitted', dtxns'[s]) BY <1>1, <1>2, <1>7, SoundStays
 <2>2. tx'[a][t].role # "unset" BY <1>7 DEF AllLast, Lasts
 <2> QED BY <1>2, <2>1, <2>2, AckSound
<1> HIDE DEF w, z
<1>8. /\ tx'[s][t].role = "crtCoord" /\ y.done \subseteq tx'[s][t].done
      /\ AllLast => Sound(tx', tx'[s][t], s, t, submitted', dtxns'[s])
 <2>1. CASE tx'[s][t] = w BY <1>3, <1>4, <1>7, <2>1
 <2>2. CASE /\ Decides(t, acked, ParOf(a))
            /\ SameRecord(z, tx'[s][t]) /\ SameProgress(t, z, tx'[s][t], ParOf(s))
  <3>1. AllPrepared(t, z) BY <1>3, <1>6, <2>2 DEF AllPrepared
  <3>2. AllLast => Sound(tx', tx'[s][t], s, t, submitted', dtxns'[s]) BY <1>2, <1>3, <1>7, <2>2, <3>1, SoundRuns
  <3> QED BY <1>3, <1>4, <2>2, <3>2 DEF SameRecord
 <2> QED BY <1>5, <2>1, <2>2
<1>9. Advances(s, t) BY <1>8 DEF Advances, Lasts
<1>10. \A u \in Txns : Advances(s, u) BY <1>1, <1>9, KeptAdvances
<1>11. \A c \in Sites \X Nodes : \A m \in NewReqs(c) : SoundReq(tx', submitted', m, c[1], c[2])
  BY <1>5 DEF SoundReq, DecisionMsg, NoNewReqs
<1>12. \A c \in Sites \X Sites : \A m \in NewReps(c) : IsAnswer(m, s, c) BY <1>5 DEF NewReps
<1> QED BY <1>1, <1>10, <1>11, <1>12, HandlerReplies

(* OnRemotePrepared: the sender has stored the transaction. *)
LEMMA OnRemotePreparedReplies ==
  ASSUME TypeOK, TypeOK', DecidedInv, DecidedInv', ReplyInv, NEW src \in Sites, NEW s \in Sites,
         NEW now \in PhysTimes, OnRemotePrepared(src, s, now)
  PROVE ReplyInv'
<1> DEFINE m     == ReqAt(src, s)
           t     == m.txn
           acked == Ack(tx[s][t], src, m.ts, m.leads)
<1>1. UNCHANGED <<dtxns, submitted>> BY DEF OnRemotePrepared, tableVars
<1>2. /\ m \in MsgsIn(req[<<src, s>>]) /\ m \in ReqMsg /\ m.type = "RemotePrepared"
      /\ OthersKept(s) /\ OnlyAnswers(s) /\ \A u \in Txns \ {t} : Kept(s, u)
      /\ Acknowledged(s, t, acked, ParOf(src), now) BY OnRemotePreparedStep
<1> HIDE DEF m
<1>3. s \in Nodes /\ <<src, s>> \in Sites \X Nodes BY Placement
<1>4. m.ts \in AnticipatedType /\ t \in Txns BY <1>2, ReqFields
<1>5. tx[s][t].role = "crtCoord" BY <1>2, <1>3, TakenLawful DEF LawfulReq, Coord
<1>6. tx[src][t].role # "unset"
 <2>1. SoundReq(tx, submitted, m, <<src, s>>[1], <<src, s>>[2]) BY <1>2, <1>3 DEF ReplyInv
 <2> QED BY <1>2, <2>1 DEF SoundReq
<1>7. tx[s][t] \in TxType BY <1>4 DEF TypeOK
<1>8. acked \in TxType /\ Acks(tx[s][t], acked, src, m.ts) BY <1>4, <1>7, AckAdds
<1>9. acked.pieces = tx[s][t].pieces /\ acked.done = tx[s][t].done BY <1>7 DEF Ack, TxType
<1> HIDE DEF acked, t
<1> QED BY <1>1, <1>2, <1>4, <1>5, <1>6, <1>8, <1>9, AcknowledgedReplies

(* OnPrepareCRT: the coordinator acknowledges its own record, a replica stores its
   pieces before it answers. *)
LEMMA OnPrepareCRTReplies ==
  ASSUME TypeOK, TypeOK', DecidedInv, DecidedInv', ReplyInv, NEW src \in Sites, NEW s \in Sites,
         NEW now \in PhysTimes, OnPrepareCRT(src, s, now)
  PROVE ReplyInv'
<1> DEFINE m     == ReqAt(src, s)
           t     == m.txn
           acked == OwnAck(tx[s][t], s, m.ts)
<1>1. UNCHANGED submitted BY DEF OnPrepareCRT
<1>2. /\ m \in MsgsIn(req[<<src, s>>]) /\ m \in ReqMsg /\ m.type = "PrepareCRT"
      /\ OthersKept(s) /\ OnlyAnswers(s) /\ \A u \in Txns \ {t} : Kept(s, u)
      /\ \/ /\ tx[s][t].phase = DIST_REMOTE_SENT
            /\ Acknowledged(s, t, acked, ParOf(s), now)
            /\ UNCHANGED dtxns
         \/ Kept(s, t) /\ UNCHANGED <<rep, dtxns>> /\ NoNewReqs
         \/ /\ t \notin dtxns[s]
            /\ IsPrepared(tx'[s][t], s, m)
            /\ dtxns' = [dtxns EXCEPT ![s] = @ \cup {t}]
            /\ rep' = rep
            /\ \A c \in Sites \X Nodes : \A w \in NewReqs(c) :
                 c[1] = s /\ c[2] = m.coord /\ PreparedMsg(w, s, m) BY OnPrepareCRTStep
<1> HIDE DEF m
<1>3. s \in Nodes /\ <<src, s>> \in Sites \X Nodes BY Placement
<1>4. m.ts \in AnticipatedType /\ t \in Txns BY <1>2, ReqFields
<1>5. Coord(tx, m.coord, t) BY <1>2, <1>3, TakenLawful DEF LawfulReq
<1>6. t \in submitted /\ ~IsIrt(t) BY <1>4, <1>5, RecordBefore DEF Coord, Coordinates
<1>7. tx[s][t] \in TxType /\ LawfulTx(tx, submitted, dtxns, s, t) BY <1>4 DEF TypeOK, DecidedInv
<1>8. CASE /\ tx[s][t].phase = DIST_REMOTE_SENT
           /\ Acknowledged(s, t, acked, ParOf(s), now)
           /\ UNCHANGED dtxns
 <2>1. tx[s][t].role = "crtCoord" BY <1>7, <1>8 DEF LawfulTx, Follows
 <2>2. acked \in TxType /\ Acks(tx[s][t], acked, s, m.ts) BY <1>4, <1>7, <1>8, AckAdds
 <2>3. acked.pieces = tx[s][t].pieces /\ acked.done = tx[s][t].done BY <1>7 DEF OwnAck, TxType
 <2>4. tx[s][t].role # "unset" BY <2>1
 <2> HIDE DEF acked, t
 <2> QED BY <1>1, <1>2, <1>4, <1>8, <2>1, <2>2, <2>3, <2>4, AcknowledgedReplies
<1>9. CASE Kept(s, t) /\ UNCHANGED <<rep, dtxns>> /\ NoNewReqs
 <2>1. Learns BY <1>1, <1>9 DEF Learns
 <2>2. \A u \in Txns : Advances(s, u) BY <1>2, <1>9, <2>1, KeptAdvances
 <2> QED BY <1>2, <1>9, <2>1, <2>2, HandlerReplies DEF NoNewReqs, NewReps
<1>10. CASE /\ t \notin dtxns[s]
            /\ IsPrepared(tx'[s][t], s, m)
            /\ dtxns' = [dtxns EXCEPT ![s] = @ \cup {t}]
            /\ rep' = rep
            /\ \A c \in Sites \X Nodes : \A w \in NewReqs(c) :
                 c[1] = s /\ c[2] = m.coord /\ PreparedMsg(w, s, m)
 <2>1. Learns /\ t \in dtxns'[s] BY <1>1, <1>10 DEF Learns, TypeOK
 <2>2. tx[s][t].role = "unset" BY <1>4, <1>10, RecordBefore
 <2>3. tx'[s][t].role = "crtReplica" /\ tx'[s][t].pieces = PiecesAt(t, ParOf(s)) /\ tx'[s][t].acks = {}
   BY <1>10 DEF IsPrepared
 <2>4. Sound(tx', tx'[s][t], s, t, submitted', dtxns'[s]) BY <1>1, <1>6, <2>1, <2>3 DEF Sound, Recorded, Acked
 <2>5. Advances(s, t) BY <2>2, <2>3, <2>4 DEF Advances, Lasts
 <2>6. \A u \in Txns : Advances(s, u) BY <1>2, <2>1, <2>5, KeptAdvances
 <2>7. \A c \in Sites \X Nodes : \A w \in NewReqs(c) : SoundReq(tx', submitted', w, c[1], c[2])
   BY <1>10, <2>3 DEF SoundReq, PreparedMsg
 <2>8. \A c \in Sites \X Sites : NewReps(c) = {} BY <1>10 DEF NewReps
 <2> QED BY <1>2, <2>1, <2>6, <2>7, <2>8, HandlerReplies
<1> QED BY <1>2, <1>8, <1>9, <1>10

-----
(* OnDistExe: the receiver does not coordinate the transaction. *)
LEMMA OnDistExeReplies ==
  ASSUME TypeOK, TypeOK', DecidedInv, DecidedInv', ReplyInv, NEW src \in Sites, NEW s \in Sites,
         OnDistExe(src, s)
  PROVE ReplyInv'
<1> DEFINE m == ReqAt(src, s)
           t == m.txn
           z == Told(tx[s][t], s, src, m.ts)
<1>1. UNCHANGED submitted BY DEF OnDistExe
<1>2. /\ m \in MsgsIn(req[<<src, s>>]) /\ m \in ReqMsg /\ m.type = "DistExe"
      /\ OthersKept(s) /\ OnlyAnswers(s) /\ \A u \in Txns \ {t} : Kept(s, u)
      /\ \/ /\ UNCHANGED dtxns
            /\ SameRecord(z, tx'[s][t]) /\ SameProgress(t, z, tx'[s][t], ParOf(s))
            /\ \A c \in Sites \X Nodes : \A w \in NewReqs(c) : w.type = "SendOutput"
            /\ \A c \in Sites \X Sites : \A w \in NewReps(c) : IsAnswer(w, s, c)
         \/ /\ dtxns' = [dtxns EXCEPT ![s] = @ \cup {t}]
            /\ UNCHANGED <<tx, rep>> /\ NoNewReqs BY OnDistExeStep
<1> HIDE DEF m
<1>3. s \in Nodes /\ t \in Txns /\ m.ts \in ChrTsType BY <1>2, Placement, ReqFields, TsFacts
<1>4. src # s /\ DecidedAs(tx, src, t, m.ts) BY <1>2, <1>3, TakenLawful DEF LawfulReq
<1>5. tx[s][t].role # "crtCoord" /\ ~IsIrt(t)
 <2>1. tx[s][t].role # "crtCoord" BY <1>3, <1>4 DEF DecidedInv, OneCoordinator, DecidedAs, Coord
 <2> QED BY <1>3, <1>4, <2>1, RecordBefore DEF DecidedAs
<1>6. Learns
 <2>1. \A r \in Sites : dtxns[r] \subseteq dtxns'[r]
  <3>1. CASE UNCHANGED dtxns BY <3>1
  <3>2. CASE dtxns' = [dtxns EXCEPT ![s] = @ \cup {t}] BY <3>2 DEF TypeOK
  <3> QED BY <1>2, <3>1, <3>2
 <2> QED BY <1>1, <2>1 DEF Learns
<1>7. CASE /\ SameRecord(z, tx'[s][t]) /\ SameProgress(t, z, tx'[s][t], ParOf(s))
           /\ \A c \in Sites \X Nodes : \A w \in NewReqs(c) : w.type = "SendOutput"
           /\ \A c \in Sites \X Sites : \A w \in NewReps(c) : IsAnswer(w, s, c)
 <2>1. tx[s][t] \in TxType /\ tx'[s][t] \in TxType /\ Sound(tx, tx[s][t], s, t, submitted, dtxns[s])
   BY <1>3, RecordBefore DEF TypeOK
 <2>2. z.role = tx[s][t].role /\ z.pieces = tx[s][t].pieces /\ z.done = tx[s][t].done
       /\ z.acks = tx[s][t].acks BY <2>1 DEF Told, TxType
 <2> HIDE DEF z
 <2>3. /\ tx'[s][t].role = tx[s][t].role /\ tx'[s][t].pieces = tx[s][t].pieces
       /\ tx'[s][t].acks = tx[s][t].acks /\ tx[s][t].done \subseteq tx'[s][t].done BY <1>7, <2>2 DEF SameRecord
 <2>4. ASSUME AllLast PROVE Sound(tx', tx'[s][t], s, t, submitted', dtxns'[s])
  <3>1. Sound(tx', tx[s][t], s, t, submitted', dtxns'[s]) BY <1>3, <1>5, <1>6, <2>1, <2>4, SoundStays
  <3> QED BY <1>5, <2>3, <3>1 DEF Sound, Recorded, Acked
 <2>5. Advances(s, t) BY <2>3, <2>4 DEF Advances, Lasts
 <2>6. \A u \in Txns : Advances(s, u) BY <1>2, <1>6, <2>5, KeptAdvances
 <2>7. \A c \in Sites \X Nodes : \A w \in NewReqs(c) : SoundReq(tx', submitted', w, c[1], c[2]) BY <1>7 DEF SoundReq
 <2> QED BY <1>2, <1>6, <1>7, <2>6, <2>7, HandlerReplies
<1>8. CASE UNCHANGED <<tx, rep>> /\ NoNewReqs
 <2>1. \A u \in Txns : Advances(s, u) BY <1>6, <1>8, SameIsKept, KeptAdvances
 <2> QED BY <1>2, <1>6, <1>8, <2>1, HandlerReplies DEF NoNewReqs, NewReps
<1> QED BY <1>2, <1>7, <1>8

(* DistExeAck: the sender ran the pieces of its partition. *)
LEMMA DistExeAckReplies ==
  ASSUME TypeOK, TypeOK', DecidedInv, DecidedInv', ReplyInv, NEW src \in Sites, NEW s \in Sites,
         DistExeAck(src, s)
  PROVE ReplyInv'
<1> DEFINE m == RepAt(src, s)
           t == m.txn
           y == tx[s][t]
           z == tx'[s][t]
<1>1. UNCHANGED <<submitted, dtxns, req>> BY DEF DistExeAck, tableVars
<1>2. /\ m \in MsgsIn(rep[<<src, s>>]) /\ m \in RepMsg /\ m.type = "DistExeRes"
      /\ OthersKept(s) /\ \A u \in Txns \ {t} : Kept(s, u)
      /\ SameRecord(y, z)
      /\ z.phase \in {y.phase, OUTPUT_SENT}
      /\ z.status = [y.status EXCEPT ![ParOf(src)] = P_OUTPUT_RECEIVED]
      /\ z.phase = y.phase \/ \A par \in Touched(t) : z.status[par] >= P_OUTPUT_RECEIVED
      /\ \A u \in replied' : u \in replied \/ (u = t /\ tx'[s][u].phase = OUTPUT_SENT)
      /\ NoNewReps BY DistExeAckStep
<1> HIDE DEF m
<1>3. t \in Txns /\ <<src, s>> \in Sites \X Sites BY <1>2 DEF RepMsg
<1>4. y.role = "crtCoord" /\ y.phase >= DIST_CAN_EXE BY <1>2, TakenLawful DEF LawfulRep, DecidedAs
<1>5. RanAt(tx, src, t)
 <2>1. SoundRep(tx, m, <<src, s>>[1]) BY <1>2, <1>3 DEF ReplyInv
 <2> QED BY <1>2, <2>1 DEF SoundRep
<1>6. /\ y \in TxType /\ Sound(tx, y, s, t, submitted, dtxns[s])
      /\ Coordinates(y, t, submitted, dtxns[s]) /\ ~IsIrt(t) BY <1>3, <1>4, RecordBefore
<1>7. Learns BY <1>1 DEF Learns
<1> HIDE DEF t
<1>8. /\ y.status \in [Pars -> DistPartStatus] /\ Touched(t) \subseteq Pars
      /\ \A p \in Touched(t) : y.status[p] >= P_REMOTE_PREPARED
  BY <1>3, <1>4, <1>6, Workload DEF TxType, StatusOfPars, Coordinates, AllPrepared
<1>9. /\ z.role = "crtCoord" /\ z.pieces = y.pieces /\ z.acks = y.acks /\ y.done \subseteq z.done
  BY <1>2, <1>4 DEF SameRecord
<1>10. \A p \in Touched(t) : z.status[p] = y.status[p] \/ (p = ParOf(src) /\ z.status[p] = P_OUTPUT_RECEIVED)
  BY <1>2, <1>8
<1> HIDE DEF y, z
<1>11. ASSUME AllLast PROVE Sound(tx', z, s, t, submitted', dtxns'[s])
 <2>1. Sound(tx', y, s, t, submitted', dtxns'[s]) BY <1>3, <1>6, <1>7, <1>11, SoundStays
 <2>2. RanIn(tx', ParOf(src), t)
  <3>1. RanAt(tx', src, t) BY <1>3, <1>5, <1>6, <1>11, ServedLasts
  <3> QED BY <3>1 DEF RanIn, SitesByPartitionId
 <2>3. \A p : AcksOf(z, p) = AcksOf(y, p) BY <1>9 DEF AcksOf
 <2>4. Collects(tx', y, t) /\ P_OUTPUT_RECEIVED >= P_OUTPUT_RECEIVED BY <1>4, <2>1 DEF Sound, P_OUTPUT_RECEIVED
 <2>5. \A p \in Touched(t) :
         /\ z.status[p] >= P_OUTPUT_RECEIVED => RanIn(tx', p, t)
         /\ Cardinality(AcksOf(z, p)) >= (NReplicas + 1) \div 2 BY <1>8, <1>10, <2>2, <2>3, <2>4 DEF Collects
 <2>6. z.phase = OUTPUT_SENT => \A p \in Touched(t) : z.status[p] >= P_OUTPUT_RECEIVED BY <1>2, <1>10, <2>4 DEF Collects
 <2>7. Collects(tx', z, t) BY <2>5, <2>6 DEF Collects
 <2> QED BY <1>4, <1>9, <2>1, <2>7 DEF Sound, Recorded, Acked
<1>12. Advances(s, t) BY <1>4, <1>9, <1>11 DEF Advances, Lasts, y, z
<1>13. \A u \in Txns : Advances(s, u) BY <1>2, <1>7, <1>12, KeptAdvances
<1>14. OnlyAnswers(s) BY <1>2, <1>3, <1>9 DEF OnlyAnswers, Answered, z
<1> QED BY <1>1, <1>2, <1>7, <1>13, <1>14, HandlerReplies DEF NewReqs, NoNewReps

(* OnSendOutput. *)
LEMMA OnSendOutputReplies ==
  ASSUME TypeOK, TypeOK', DecidedInv, DecidedInv', ReplyInv, NEW src \in Sites, NEW s \in Sites,
         OnSendOutput(src, s)
  PROVE ReplyInv'
<1>1. UNCHANGED <<submitted, dtxns>> BY DEF OnSendOutput, tableVars
<1>2. /\ OthersKept(s) /\ OnlyAnswers(s) /\ \A u \in Txns : Kept(s, u)
      /\ \A c \in Sites \X Nodes : \A w \in NewReqs(c) : w.type \in {"SendOutput", "NotiWait"}
      /\ \A c \in Sites \X Sites : \A w \in NewReps(c) : IsAnswer(w, s, c) BY OnSendOutputStep
<1>3. Learns BY <1>1 DEF Learns
<1>4. \A u \in Txns : Advances(s, u) BY <1>2, <1>3, KeptAdvances
<1>5. \A c \in Sites \X Nodes : \A w \in NewReqs(c) : SoundReq(tx', submitted', w, c[1], c[2]) BY <1>2 DEF SoundReq
<1> QED BY <1>2, <1>3, <1>4, <1>5, HandlerReplies

-----
(* Nobody has a record, and no client an answer, at the start. *)
LEMMA InitReply == Init => ReplyInv
<1> SUFFICES ASSUME Init PROVE ReplyInv OBVIOUS
<1>1. MsgsIn(<<>>) = {} BY OutMsgs
<1>2. /\ \A c \in Sites \X Nodes : MsgsIn(req[c]) = {}
      /\ \A c \in Sites \X Sites : MsgsIn(rep[c]) = {}
      /\ replied = {} BY <1>1 DEF Init
<1>3. \A s \in Sites, t \in Txns : tx[s][t].role = "unset" /\ tx[s][t].acks = {} BY DEF Init, FreshTx
<1>4. \A s \in Sites, t \in Txns : Sound(tx, tx[s][t], s, t, submitted, dtxns[s]) BY <1>3 DEF Sound, Recorded, Acked
<1> QED BY <1>2, <1>4 DEF ReplyInv

(* Every step keeps the invariant. *)
LEMMA NextReply ==
  ASSUME CoordinatorsInPlace, TypeOK, TypeOK', DecidedInv, DecidedInv', ReplyInv, [Next]_vars
  PROVE ReplyInv'
<1>1. ASSUME NEW s \in Sites, NEW t \in Txns, NEW now \in PhysTimes,
             \/ \E skips \in 0 .. Cardinality(Txns) : HandleIRT(s, t, now, skips)
             \/ OnSubmitCRT(s, t, now)
      PROVE ReplyInv'
 <2>1. \A skips \in 0 .. Cardinality(Txns) : skips \in Nat OBVIOUS
 <2> QED BY <1>1, <2>1, HandleIRTReplies, OnSubmitCRTReplies
<1>2. ASSUME NEW n \in Nodes, NEW now \in PhysTimes, IRSyncLoop(n, now) PROVE ReplyInv' BY <1>2, ManagersReply
<1>3. ASSUME NEW src \in Sites, NEW s \in Sites, NEW now \in PhysTimes,
             \/ OnPrepareIRT(src, s, now) \/ PrepareIRTACK(src, s, now) \/ OnIRSync(src, s, now)
             \/ OnPrepareCRT(src, s, now) \/ OnRemotePrepared(src, s, now)
      PROVE  ReplyInv' BY <1>3, OnPrepareIRTReplies, PrepareIRTACKReplies, OnIRSyncReplies, OnPrepareCRTReplies,
     OnRemotePreparedReplies
<1>4. ASSUME NEW src \in Sites, NEW s \in Sites,
             \/ OnNotiCRT(src, s) \/ OnDistExe(src, s) \/ DistExeAck(src, s)
             \/ OnNotiCommit(src, s) \/ OnSendOutput(src, s)
      PROVE ReplyInv' BY <1>4, ManagersReply, OnDistExeReplies, DistExeAckReplies, OnSendOutputReplies
<1>5. ASSUME NEW src \in Sites, NEW m \in Managers,
             NotiWait(src, m) \/ \E now \in PhysTimes : MgrPrepareCRT(src, m, now)
      PROVE ReplyInv' BY <1>5, ManagersReply
<1>6. ASSUME NEW m \in Managers, MgrFinish(m) PROVE ReplyInv' BY <1>6, FirstSite, ManagersReply
<1>7. CASE UNCHANGED vars
 <2>1. UNCHANGED <<tx, dtxns, submitted, rep, replied, ready_txns, req>> BY <1>7 DEF vars, tableVars, execVars
 <2>2. \A c \in Sites \X Nodes : NewReqs(c) = {} BY <2>1 DEF NewReqs
 <2> QED BY <2>1, <2>2, QuietReplies
<1>8. CASE Submit BY <1>1, <1>8 DEF Submit
<1>9. CASE Sync BY <1>2, <1>9 DEF Sync
<1>10. CASE Deliver BY <1>3, <1>4, <1>5, <1>6, <1>10 DEF Deliver
<1> QED BY <1>7, <1>8, <1>9, <1>10 DEF Next

(* The invariant of a deployment in which coordinators are in place. *)
LEMMA ReplyInvHolds ==
  ASSUME CoordinatorsInPlace
  PROVE Spec => [](TypeOK /\ ReplyInv)
<1> DEFINE Inv == TypeOK /\ UniqueInv /\ DecidedInv /\ ReplyInv
<1>1. Init => Inv BY InitType, InitUnique, InitDecided, InitReply
<1>2. Inv /\ [Next]_vars => Inv' BY NextType, NextUnique, NextDecided, NextReply
<1> QED BY <1>1, <1>2, PTL DEF Spec

(* A client hears of its transaction (HandleIRT's callback, CheckSendOutputToClient)
   only when its handler has run all its pieces of it, or, across regions, when a
   replica of every partition it touches has run all of the partition's pieces.  It
   holds for every order of messages and every workload whose coordinators find the
   pieces of their own partition; where they do not, the answer may come too early. *)
THEOREM ReplyAfterExecutionHolds == CoordinatorsInPlace => (Spec => []ReplyAfterExecution)
<1> SUFFICES ASSUME CoordinatorsInPlace PROVE Spec => []ReplyAfterExecution OBVIOUS
<1>1. Spec => [](TypeOK /\ ReplyInv) BY ReplyInvHolds
<1>2. ReplyInv => ReplyAfterExecution BY ReplyInvExecuted
<1> QED BY <1>1, <1>2, PTL

(* An odd number of replicas, and intra-region transactions that touch one partition
   each. *)
SimpleReplication ==
  NReplicas % 2 = 1 /\ \A t \in Txns : IsIrt(t) => \A p, q \in Touched(t) : p = q

(* What the client has heard of is stored at a majority of the replicas of every
   partition it touches (PrepareIRTACK and CheckRemotePrepared count the
   acknowledgements), for an odd number of replicas and intra-region transactions of one
   partition; without these two it is not, because the handler is no replica of the
   other partitions and half of an even number is no majority. *)
THEOREM RepliedIsReplicatedHolds ==
  CoordinatorsInPlace /\ SimpleReplication => (Spec => []RepliedIsReplicated)
<1> SUFFICES ASSUME CoordinatorsInPlace, SimpleReplication PROVE Spec => []RepliedIsReplicated OBVIOUS
<1>1. Spec => [](TypeOK /\ ReplyInv) BY ReplyInvHolds
<1>2. TypeOK /\ ReplyInv => RepliedIsReplicated BY ReplyInvReplicated DEF SimpleReplication, TypeOK
<1> QED BY <1>1, <1>2, PTL

-----
(* The messages of one transaction. *)
(*  - KnownInv: a site has records of submitted transactions that touch *)
(*    its partition, and of those it sent intra-region requests for. *)
(*  - TidyInv: no connection carries PrepareCRT or DistExe twice for a *)
(*    transaction, nor PrepareCRT behind a NotiCommit that still waits. *)
(*  - LeadersInv: the replicas of a partition and the requests to them *)
(*    agree on the leader, and the coordinator leads its own partition. *)

-----
(* What sites have a record of.  sub are the submitted transactions, dt the records; m
   is a message from a to b. *)
KnownEntries(N, sub, b) == \A e \in N : e.id \in sub /\ ParOf(b) \in Touched(e.id)
KnownReq(sub, dt, m, a, b) ==
  /\ m.type \in {"PrepareIRT", "IRSync"} => b \in Sites /\ KnownEntries(m.noti, sub, b)
  /\ m.type = "PrepareIRT" => m.txn \in sub /\ m.txn \in dt[a] /\ ParOf(b) \in Touched(m.txn)
  /\ m.type = "DistExe" => b \in Sites /\ ParOf(b) \in Touched(m.txn)
  /\ m.type = "NotiCRT" => b \in Sites /\ ParOf(b) \notin Touched(m.txn)
KnownRep(sub, dt, m, b) ==
  m.type = "PrepareIRTRes" => KnownEntries(m.noti, sub, b) /\ m.txn \in dt[b]
KnownAt(s) ==
  /\ dtxns[s] \subseteq submitted /\ \A t \in dtxns[s] : ParOf(s) \in Touched(t)
  /\ distributed_txns_by_me[s] \subseteq submitted
  /\ \A e \in my_txns[s] : e.id \in submitted

KnownInv ==
  /\ \A s \in Sites : KnownAt(s)
  /\ \A c \in Sites \X Nodes : \A m \in MsgsIn(req[c]) : KnownReq(submitted, dtxns, m, c[1], c[2])
  /\ \A c \in Sites \X Sites : \A m \in MsgsIn(rep[c]) : KnownRep(submitted, dtxns, m, c[2])

(* What a step adds. *)
LearnsRight ==
  \A s \in Sites :
    /\ dtxns[s] \subseteq dtxns'[s]
    /\ \A t \in dtxns'[s] : t \in dtxns[s] \/ (t \in submitted' /\ ParOf(s) \in Touched(t))
    /\ \A t \in distributed_txns_by_me'[s] : t \in distributed_txns_by_me[s] \/ t \in submitted'
    /\ \A e \in my_txns'[s] : e \in my_txns[s] \/ e.id \in submitted'
NewReqsKnown ==
  \A c \in Sites \X Nodes : \A m \in NewReqs(c) : KnownReq(submitted', dtxns', m, c[1], c[2])
NewRepsKnown ==
  \A c \in Sites \X Sites : \A m \in NewReps(c) : KnownRep(submitted', dtxns', m, c[2])

(* KnownInv is kept by a step that adds only what is right. *)
LEMMA KnownStep ==
  ASSUME KnownInv, submitted \subseteq submitted', LearnsRight, NewReqsKnown, NewRepsKnown
  PROVE KnownInv'
<1>1. \A s \in Sites : KnownAt(s)' BY DEF KnownInv, KnownAt, LearnsRight
<1>2. \A s \in Sites : dtxns[s] \subseteq dtxns'[s] BY DEF LearnsRight
<1>3. ASSUME NEW c \in Sites \X Nodes, NEW m \in MsgsIn(req'[c]) PROVE KnownReq(submitted', dtxns', m, c[1], c[2])
 <2>1. CASE m \in MsgsIn(req[c])
  <3>1. KnownReq(submitted, dtxns, m, c[1], c[2]) /\ c[1] \in Sites BY <2>1 DEF KnownInv
  <3> QED BY <1>2, <3>1 DEF KnownReq, KnownEntries
 <2>2. CASE m \notin MsgsIn(req[c]) BY <1>3, <2>2 DEF NewReqs, NewReqsKnown
 <2> QED BY <2>1, <2>2
<1>4. ASSUME NEW c \in Sites \X Sites, NEW m \in MsgsIn(rep'[c]) PROVE KnownRep(submitted', dtxns', m, c[2])
 <2>1. CASE m \in MsgsIn(rep[c])
  <3>1. KnownRep(submitted, dtxns, m, c[2]) /\ c[2] \in Sites BY <2>1 DEF KnownInv
  <3> QED BY <1>2, <3>1 DEF KnownRep, KnownEntries
 <2>2. CASE m \notin MsgsIn(rep[c]) BY <1>4, <2>2 DEF NewReps, NewRepsKnown
 <2> QED BY <2>1, <2>2
<1> QED BY <1>1, <1>3, <1>4 DEF KnownInv

(* Messages that say nothing of who has a record. *)
LEMMA SaysNothing ==
  /\ \A m, a, b : m.type \notin {"PrepareIRT", "IRSync", "DistExe", "NotiCRT"} =>
       KnownReq(submitted', dtxns', m, a, b)
  /\ \A m, b : m.type # "PrepareIRTRes" => KnownRep(submitted', dtxns', m, b) BY DEF KnownReq, KnownRep

(* A message that is taken is known. *)
LEMMA TakenKnown ==
  ASSUME KnownInv
  PROVE  /\ \A a \in Sites, b \in Nodes : \A m \in MsgsIn(req[<<a, b>>]) : KnownReq(submitted, dtxns, m, a, b)
         /\ \A a \in Sites, b \in Sites : \A m \in MsgsIn(rep[<<a, b>>]) : KnownRep(submitted, dtxns, m, b)
<1>1. ASSUME NEW a \in Sites, NEW b \in Nodes, NEW m \in MsgsIn(req[<<a, b>>]) PROVE KnownReq(submitted, dtxns, m, a, b)
 <2>1. <<a, b>> \in Sites \X Nodes OBVIOUS
 <2>2. \A w \in MsgsIn(req[<<a, b>>]) : KnownReq(submitted, dtxns, w, <<a, b>>[1], <<a, b>>[2]) BY <2>1 DEF KnownInv
 <2> QED BY <2>2
<1>2. ASSUME NEW a \in Sites, NEW b \in Sites, NEW m \in MsgsIn(rep[<<a, b>>]) PROVE KnownRep(submitted, dtxns, m, b)
 <2>1. <<a, b>> \in Sites \X Sites OBVIOUS
 <2>2. \A w \in MsgsIn(rep[<<a, b>>]) : KnownRep(submitted, dtxns, w, <<a, b>>[2]) BY <2>1 DEF KnownInv
 <2> QED BY <2>2
<1> QED BY <1>1, <1>2

(* What CollectNotifyTxns puts in a message to d. *)
LEMMA CollectedKnown ==
  ASSUME NEW s, NEW d, NEW mine, NEW ts, NEW sub, \A e \in mine : e.id \in sub
  PROVE KnownEntries(CollectNotifyTxns(s, d, mine, ts), sub, d) BY DEF KnownEntries, CollectNotifyTxns

(* The coordinated transactions of the other handlers only become fewer. *)
LEMMA CoordinatesFewer ==
  ASSUME TypeOK, NEW s \in Sites, NEW run, NEW R, NEW x, NEW ni, NEW floors, NEW maxTs,
         \/ CheckExecutableTxns(s, run, R, x, ni, floors, maxTs)
         \/ NoExecution(s, R, x, ni, floors)
  PROVE \A r \in Sites : distributed_txns_by_me'[r] \subseteq distributed_txns_by_me[r]
<1>1. distributed_txns_by_me \in [Sites -> SUBSET Txns] BY DEF TypeOK
<1>2. \/ \E S : distributed_txns_by_me' = [distributed_txns_by_me EXCEPT ![s] = @ \ S]
      \/ distributed_txns_by_me' = distributed_txns_by_me BY DEF CheckExecutableTxns, NoExecution
<1> QED BY <1>1, <1>2

(* HandleIRT sends to the replicas of the transaction's partitions. *)
LEMMA HandleIRTTargets ==
  ASSUME TypeOK, NEW s \in Sites, NEW t \in Txns, NEW now \in PhysTimes, NEW skips \in Nat,
         HandleIRT(s, t, now, skips), NEW c \in Sites \X Nodes, NEW m \in NewReqs(c)
  PROVE ParOf(c[2]) \in Touched(t)
<1> DEFINE first == Generate(s, now, dist_txn_tss[s])
           ts    == After(first, skips)
           mine  == my_txns[s] \cup {[ts |-> ts, id |-> t]}
           targets == (UNION {SitesByPartitionId(par) : par \in Touched(t)}) \ {s}
           out == [d \in Nodes |->
         IF d \in targets
         THEN <<[type |-> "PrepareIRT", txn |-> t, ts |-> ts, delivered |-> ZeroTs,
                 noti |-> CollectNotifyTxns(s, d, mine, ir_site_notified_ts[s][d])]>>
         ELSE <<>>]
<1>1. req' = Send(req, s, out) BY DEF HandleIRT
<1>2. \A d \in targets : ParOf(d) \in Touched(t) BY TouchedSites
<1> HIDE DEF targets, mine, ts
<1>3. c[2] \in targets \/ out[c[2]] = <<>> OBVIOUS
<1> HIDE DEF out
<1>4. c[2] \notin targets => MsgsIn(out[c[2]]) = {} BY <1>3, OutMsgs
<1>5. m \in MsgsIn(req'[c]) /\ m \notin MsgsIn(req[c]) BY DEF NewReqs
<1>6. CASE c[2] \notin targets
 <2>1. req'[c] = req[c] \/ req'[c] = req[c] \o <<>> BY <1>1, <1>3, <1>6 DEF Send, TypeOK
 <2>2. req[c] \in Seq(ReqMsg) BY DEF TypeOK
 <2>3. req[c] \o <<>> = req[c] BY <2>2
 <2> QED BY <1>5, <2>1, <2>3
<1> QED BY <1>2, <1>6

(* HandleIRT. *)
LEMMA HandleIRTKnown ==
  ASSUME TypeOK, KnownInv, NEW s \in Sites, NEW t \in Txns, NEW now \in PhysTimes, NEW skips \in Nat,
         HandleIRT(s, t, now, skips)
  PROVE KnownInv'
<1>1. /\ dtxns \in [Sites -> SUBSET Txns] /\ my_txns \in [Sites -> Entries]
      /\ distributed_txns_by_me' = distributed_txns_by_me
      /\ submitted' = submitted \cup {t} /\ dtxns' = [dtxns EXCEPT ![s] = @ \cup {t}]
      /\ s \in Handlers[t] BY DEF TypeOK, HandleIRT
<1>2. /\ my_txns' = [my_txns EXCEPT ![s] = @ \cup {[ts |-> last_clock'[s], id |-> t]}]
      /\ \A c \in Sites \X Nodes : \A m \in NewReqs(c) :
           /\ c[1] = s /\ c[2] \in Sites /\ m.type = "PrepareIRT" /\ m.txn = t
           /\ m.noti = CollectNotifyTxns(s, c[2], my_txns'[s], ir_site_notified_ts[s][c[2]])
      /\ rep' = rep BY HandleIRTStep DEF IsPiggy
<1>3. ParOf(s) \in Touched(t) BY <1>1, WorkloadAssumption
<1>4. LearnsRight BY <1>1, <1>2, <1>3 DEF LearnsRight
<1>5. \A e \in my_txns'[s] : e.id \in submitted' BY <1>1, <1>2 DEF KnownInv, KnownAt
<1>6. ASSUME NEW c \in Sites \X Nodes, NEW m \in NewReqs(c) PROVE KnownReq(submitted', dtxns', m, c[1], c[2])
 <2>1. KnownEntries(m.noti, submitted', c[2]) BY <1>2, <1>5, CollectedKnown
 <2>2. ParOf(c[2]) \in Touched(t) BY HandleIRTTargets
 <2>3. t \in submitted' /\ t \in dtxns'[s] BY <1>1
 <2> QED BY <1>2, <2>1, <2>2, <2>3 DEF KnownReq
<1>7. NewRepsKnown BY <1>2 DEF NewRepsKnown, NewReps
<1> QED BY <1>1, <1>4, <1>6, <1>7, KnownStep DEF NewReqsKnown

(* The records after a piggyback. *)
LEMMA PiggyKnown ==
  ASSUME TypeOK, KnownInv, NEW s \in Sites, NEW from, NEW ts, NEW noti, NEW delivered, NEW known, NEW now,
         HandlePiggyInfo(s, from, ts, noti, delivered, known, now),
         KnownEntries(noti, submitted, s), dtxns[s] \subseteq known,
         \A t \in known : t \in dtxns[s] \/ (t \in submitted /\ ParOf(s) \in Touched(t)),
         submitted' = submitted, my_txns' = my_txns,
         \A r \in Sites : distributed_txns_by_me'[r] \subseteq distributed_txns_by_me[r]
  PROVE LearnsRight
<1>1. /\ dtxns \in [Sites -> SUBSET Txns]
      /\ dtxns' = [dtxns EXCEPT ![s] = known \cup {e.id : e \in noti}] BY DEF TypeOK, HandlePiggyInfo
<1>2. \A r \in Sites : dtxns'[r] = IF r = s THEN known \cup {e.id : e \in noti} ELSE dtxns[r] BY <1>1
<1>3. \A t \in {e.id : e \in noti} : t \in submitted /\ ParOf(s) \in Touched(t) BY DEF KnownEntries
<1> QED BY <1>2, <1>3 DEF LearnsRight

(* OnPrepareIRT, PrepareIRTACK and OnIRSync. *)
LEMMA HearingKnown ==
  ASSUME TypeOK, KnownInv, NEW src \in Sites, NEW s \in Sites, NEW now \in PhysTimes,
         OnPrepareIRT(src, s, now) \/ PrepareIRTACK(src, s, now) \/ OnIRSync(src, s, now)
  PROVE KnownInv'
<1>1. s \in Nodes /\ src \in Nodes BY Placement
<1>2. ASSUME OnPrepareIRT(src, s, now) PROVE KnownInv'
 <2> DEFINE m == ReqAt(src, s)
 <2>1. /\ m \in MsgsIn(req[<<src, s>>]) /\ m.type = "PrepareIRT"
       /\ \A c \in Sites \X Nodes : \A w \in NewReqs(c) : w.type = "SendOutput"
       /\ \A c \in Sites \X Sites : \A w \in NewReps(c) :
            \/ IsAnswer(w, s, c)
            \/ /\ c[1] = s /\ c[2] = src
               /\ IsPiggy(w, "PrepareIRTRes", last_clock'[s], m.ts,
                          CollectNotifyTxns(s, src, my_txns[s], ir_site_notified_ts'[s][src]))
               /\ w.txn = m.txn BY <1>2, OnPrepareIRTStep
 <2>2. /\ HandlePiggyInfo(s, src, m.ts, m.noti, m.delivered, dtxns[s] \cup {m.txn}, now)
       /\ UNCHANGED <<my_txns, submitted>>
       /\ \E run, R, x, ni, floors, maxTs : CheckExecutableTxns(s, run, R, x, ni, floors, maxTs)
   BY <1>2 DEF OnPrepareIRT, ReqAt
 <2> HIDE DEF m
 <2>3. KnownReq(submitted, dtxns, m, src, s) BY <1>1, <2>1, TakenKnown
 <2>4. /\ KnownEntries(m.noti, submitted, s) /\ m.txn \in submitted /\ m.txn \in dtxns[src]
       /\ ParOf(s) \in Touched(m.txn) BY <2>1, <2>3 DEF KnownReq
 <2>5. \A r \in Sites : distributed_txns_by_me'[r] \subseteq distributed_txns_by_me[r] BY <2>2, CoordinatesFewer
 <2>6. LearnsRight BY <2>2, <2>4, <2>5, PiggyKnown
 <2>7. NewReqsKnown BY <2>1, SaysNothing DEF NewReqsKnown
 <2>8. ASSUME NEW c \in Sites \X Sites, NEW w \in NewReps(c) PROVE KnownRep(submitted', dtxns', w, c[2])
  <3>1. CASE IsAnswer(w, s, c) BY <3>1, SaysNothing DEF IsAnswer
  <3>2. CASE ~IsAnswer(w, s, c)
   <4>1. /\ c[2] = src /\ w.txn = m.txn
         /\ w.noti = CollectNotifyTxns(s, src, my_txns[s], ir_site_notified_ts'[s][src]) BY <2>1, <3>2 DEF IsPiggy
   <4>2. \A e \in my_txns[s] : e.id \in submitted BY DEF KnownInv, KnownAt
   <4>3. KnownEntries(w.noti, submitted, src) BY <4>1, <4>2, CollectedKnown
   <4>4. m.txn \in dtxns'[src] BY <2>4, <2>6 DEF LearnsRight
   <4> QED BY <2>2, <4>1, <4>3, <4>4 DEF KnownRep
  <3> QED BY <3>1, <3>2
 <2> QED BY <2>2, <2>6, <2>7, <2>8, KnownStep DEF NewRepsKnown
<1>3. ASSUME PrepareIRTACK(src, s, now) PROVE KnownInv'
 <2> DEFINE m == RepAt(src, s)
 <2>1. /\ m \in MsgsIn(rep[<<src, s>>]) /\ m.type = "PrepareIRTRes"
       /\ \A c \in Sites \X Nodes : \A w \in NewReqs(c) : w.type = "SendOutput"
       /\ \A c \in Sites \X Sites : \A w \in NewReps(c) : IsAnswer(w, s, c) BY <1>3, PrepareIRTACKStep
 <2>2. /\ HandlePiggyInfo(s, src, m.ts, m.noti, m.delivered, dtxns[s], now)
       /\ UNCHANGED <<my_txns, submitted>>
       /\ \E run, R, x, ni, floors, maxTs :
            CheckExecutableTxns(s, run, R, x, ni, floors, maxTs) \/ NoExecution(s, R, x, ni, floors)
   BY <1>3 DEF PrepareIRTACK, RepAt
 <2> HIDE DEF m
 <2>3. KnownEntries(m.noti, submitted, s) BY <2>1, TakenKnown DEF KnownRep
 <2>4. \A r \in Sites : distributed_txns_by_me'[r] \subseteq distributed_txns_by_me[r] BY <2>2, CoordinatesFewer
 <2>5. LearnsRight BY <2>2, <2>3, <2>4, PiggyKnown
 <2> QED BY <2>1, <2>2, <2>5, SaysNothing, KnownStep DEF IsAnswer, NewReqsKnown, NewRepsKnown
<1>4. ASSUME OnIRSync(src, s, now) PROVE KnownInv'
 <2> DEFINE m == ReqAt(src, s)
 <2>1. /\ m \in MsgsIn(req[<<src, s>>]) /\ m.type = "IRSync"
       /\ \A c \in Sites \X Nodes : \A w \in NewReqs(c) : w.type = "SendOutput"
       /\ \A c \in Sites \X Sites : \A w \in NewReps(c) : IsAnswer(w, s, c) BY <1>4, OnIRSyncStep
 <2>2. /\ HandlePiggyInfo(s, m.from, m.ts, m.noti, m.delivered, dtxns[s], now)
       /\ UNCHANGED <<my_txns, submitted>>
       /\ \E run, R, x, ni, floors, maxTs : CheckExecutableTxns(s, run, R, x, ni, floors, maxTs)
   BY <1>4 DEF OnIRSync, ReqAt
 <2> HIDE DEF m
 <2>3. KnownEntries(m.noti, submitted, s) BY <1>1, <2>1, TakenKnown DEF KnownReq
 <2>4. \A r \in Sites : distributed_txns_by_me'[r] \subseteq distributed_txns_by_me[r] BY <2>2, CoordinatesFewer
 <2>5. LearnsRight BY <2>2, <2>3, <2>4, PiggyKnown
 <2> QED BY <2>1, <2>2, <2>5, SaysNothing, KnownStep DEF IsAnswer, NewReqsKnown, NewRepsKnown
<1> QED BY <1>2, <1>3, <1>4

(* Steps that record nothing. *)
LEMMA QuietKnown ==
  ASSUME KnownInv, UNCHANGED <<dtxns, my_txns, submitted>>, NewReqsKnown, NewRepsKnown,
         \A r \in Sites : distributed_txns_by_me'[r] \subseteq distributed_txns_by_me[r]
  PROVE KnownInv'
<1>1. LearnsRight BY DEF LearnsRight
<1> QED BY <1>1, KnownStep

(* IRSyncLoop. *)
LEMMA IRSyncLoopKnown ==
  ASSUME TypeOK, KnownInv, NEW n \in Nodes, NEW now \in PhysTimes, IRSyncLoop(n, now)
  PROVE KnownInv'
<1>1. UNCHANGED <<dtxns, my_txns, submitted, distributed_txns_by_me, rep>> BY DEF IRSyncLoop, tableVars, execVars
<1>2. \A c \in Sites \X Nodes : \A m \in NewReqs(c) :
        /\ c[2] \in Sites /\ m.type = "IRSync"
        /\ m.noti = IF n \in Sites
                    THEN CollectNotifyTxns(n, c[2], my_txns[n], ir_site_notified_ts[n][c[2]])
                    ELSE {} BY IRSyncLoopStep
<1>3. ASSUME NEW c \in Sites \X Nodes, NEW m \in NewReqs(c) PROVE KnownReq(submitted', dtxns', m, c[1], c[2])
 <2>1. n \in Sites => \A e \in my_txns[n] : e.id \in submitted BY DEF KnownInv, KnownAt
 <2>2. CASE n \in Sites
  <3>1. KnownEntries(m.noti, submitted, c[2]) BY <1>2, <2>1, <2>2, CollectedKnown
  <3> QED BY <1>1, <1>2, <3>1 DEF KnownReq
 <2>3. CASE n \notin Sites BY <1>2, <2>3 DEF KnownReq, KnownEntries
 <2> QED BY <2>2, <2>3
<1>4. NewRepsKnown BY <1>1 DEF NewRepsKnown, NewReps
<1> QED BY <1>1, <1>3, <1>4, QuietKnown DEF NewReqsKnown

(* OnSubmitCRT. *)
LEMMA OnSubmitCRTKnown ==
  ASSUME TypeOK, KnownInv, NEW s \in Sites, NEW t \in Txns, NEW now \in PhysTimes, OnSubmitCRT(s, t, now)
  PROVE KnownInv'
<1>1. /\ dtxns \in [Sites -> SUBSET Txns] /\ distributed_txns_by_me \in [Sites -> SUBSET Txns]
      /\ distributed_txns_by_me' = [distributed_txns_by_me EXCEPT ![s] = @ \cup {t}]
      /\ submitted' = submitted \cup {t} /\ dtxns' = [dtxns EXCEPT ![s] = @ \cup {t}]
      /\ s \in Handlers[t] /\ UNCHANGED <<my_txns, rep>> BY DEF TypeOK, OnSubmitCRT
<1>2. ParOf(s) \in Touched(t) BY <1>1, WorkloadAssumption
<1>3. LearnsRight BY <1>1, <1>2 DEF LearnsRight
<1>4. \A c \in Sites \X Nodes : \A m \in NewReqs(c) : m.type = "PrepareRemote" BY OnSubmitCRTStep
<1>5. NewReqsKnown /\ NewRepsKnown BY <1>1, <1>4, SaysNothing DEF NewReqsKnown, NewRepsKnown, NewReps
<1> QED BY <1>1, <1>3, <1>5, KnownStep

(* The message w for d with which mgr answers the coordinator's request m: one leader
   per partition, the coordinator for its own. *)
AskMsg(w, m, mgr, d, leader) ==
  /\ w \in ReqMsg /\ d \in Sites /\ SiteRegion(d) = MgrRegion(mgr)
  /\ w.txn = m.txn /\ w.ts = max_future_ts'[mgr]
  /\ \/ /\ w.type = "PrepareCRT" /\ ParOf(d) \in Touched(m.txn)
        /\ w.leader = leader[ParOf(d)]
        /\ ParOf(m.ts.site) = ParOf(d) => w.leader = m.ts.site
     \/ w.type = "NotiCRT" /\ ParOf(d) \notin Touched(m.txn)

(* A manager that is asked sends each site of its region one request at most, and names
   one leader for a partition. *)
LEMMA MgrPrepareCRTSends ==
  ASSUME TypeOK, NEW src \in Sites, NEW mgr \in Managers, NEW now \in PhysTimes,
         MgrPrepareCRT(src, mgr, now)
  PROVE  \E out \in [Nodes -> Seq(ReqMsg)] : \E leader :
           /\ req' = Send(Taken(req, <<src, mgr>>), mgr, out)
           /\ \A d \in Nodes : \/ out[d] = <<>>
                               \/ \E w : out[d] = <<w>> /\ AskMsg(w, ReqAt(src, mgr), mgr, d, leader)
<1> DEFINE m     == ReqAt(src, mgr)
           coord == m.ts.site
           pars  == {par \in Touched(m.txn) : RegionOf(par) = MgrRegion(mgr)}
           touched == UNION {SitesByPartitionId(par) : par \in pars}
           mine  == Generate(mgr, now, dist_txn_tss[mgr])
           ant   == AnticipatedTs(mgr, m.ts, mine, max_future_ts[mgr], EstimatedRtt)
           ready(d) == IF m.wait /\ ParOf(d) = ParOf(coord) THEN 0 ELSE 1
           prep(d, leader) == [type |-> "PrepareCRT", txn |-> m.txn, ts |-> ant, coord |-> coord,
                               leader |-> leader[ParOf(d)], input_ready |-> ready(d)]
           noti  == [type |-> "NotiCRT", txn |-> m.txn, ts |-> ant, touched |-> touched]
           all(leader) == [d \in Nodes |->
                IF d \in touched THEN <<prep(d, leader)>>
                ELSE IF d \in SitesInRegion(MgrRegion(mgr)) THEN <<noti>> ELSE <<>>]
<1>1. mgr \in Nodes /\ TypeOK' BY Placement, MgrPrepareCRTType
<1>2. m \in ReqMsg /\ m.type = "PrepareRemote"
 <2>1. Receives(src, mgr, "PrepareRemote") BY DEF MgrPrepareCRT
 <2> QED BY <1>1, <2>1, ReceivesType DEF ReqAt
<1>3. m.txn \in Txns /\ m.ts \in ChrTsType /\ coord \in Int BY <1>2, ReqFields DEF ChrTsType
<1>4. PICK leader \in [pars -> touched] :
        /\ \A par \in pars :
             IF ParOf(coord) = par THEN leader[par] = coord ELSE ParOf(leader[par]) = par
        /\ req' = Send(Taken(req, <<src, mgr>>), mgr, all(leader)) BY DEF MgrPrepareCRT, ReqAt
<1>5. max_future_ts' = [max_future_ts EXCEPT ![mgr] = ant] BY DEF MgrPrepareCRT, ReqAt
<1> HIDE DEF m, mine
<1>6. max_future_ts'[mgr] = ant /\ ant \in AnticipatedType BY <1>1, <1>5 DEF TypeOK
<1> HIDE DEF ant, coord
<1>7. /\ touched \in SUBSET Sites
      /\ \A d \in touched : ParOf(d) \in pars /\ ParOf(d) \in Touched(m.txn)
                            /\ SiteRegion(d) = MgrRegion(mgr)
      /\ \A d \in SitesInRegion(MgrRegion(mgr)) :
           d \in Sites /\ SiteRegion(d) = MgrRegion(mgr) /\ (d \notin touched => ParOf(d) \notin Touched(m.txn))
  BY DEF SitesByPartitionId, SiteRegion, SitesInRegion
<1>8. \A d \in touched : /\ leader[ParOf(d)] \in Sites
                         /\ ParOf(coord) = ParOf(d) => leader[ParOf(d)] = coord BY <1>4, <1>7
<1> HIDE DEF touched, pars
<1>9. ASSUME NEW d \in touched PROVE prep(d, leader) \in ReqMsg /\ AskMsg(prep(d, leader), m, mgr, d, leader)
 <2>1. leader[ParOf(d)] \in Sites /\ ready(d) \in 0..1 /\ d \in Sites BY <1>7, <1>8
 <2> HIDE DEF ready
 <2>2. prep(d, leader) \in ReqMsg BY <1>3, <1>6, <2>1 DEF ReqMsg
 <2> QED BY <1>6, <1>7, <1>8, <2>1, <2>2 DEF AskMsg, coord
<1>10. ASSUME NEW d \in SitesInRegion(MgrRegion(mgr)), d \notin touched
       PROVE noti \in ReqMsg /\ AskMsg(noti, m, mgr, d, leader)
 <2>1. noti \in ReqMsg BY <1>3, <1>6, <1>7 DEF ReqMsg
 <2> QED BY <1>6, <1>7, <1>10, <2>1 DEF AskMsg
<1> HIDE DEF prep, noti
<1> DEFINE out == all(leader)
<1>11. out \in [Nodes -> Seq(ReqMsg)] BY <1>9, <1>10
<1>12. \A d \in Nodes : \/ out[d] = <<>>
                        \/ \E w : out[d] = <<w>> /\ AskMsg(w, m, mgr, d, leader) BY <1>9, <1>10
<1> HIDE DEF out
<1> QED BY <1>4, <1>11, <1>12 DEF m, out

(* What it adds to the connections. *)
LEMMA MgrPrepareCRTNew ==
  ASSUME TypeOK, NEW src \in Sites, NEW mgr \in Managers, NEW now \in PhysTimes,
         MgrPrepareCRT(src, mgr, now)
  PROVE  \E leader : \A c \in Sites \X Nodes : \A w \in NewReqs(c) :
           c[1] = MgrHost(mgr) /\ AskMsg(w, ReqAt(src, mgr), mgr, c[2], leader)
<1> DEFINE m == ReqAt(src, mgr)
           q == Taken(req, <<src, mgr>>)
<1>0. PICK out \in [Nodes -> Seq(ReqMsg)] : \E leader :
           /\ req' = Send(q, mgr, out)
           /\ \A d \in Nodes : \/ out[d] = <<>>
                               \/ \E w : out[d] = <<w>> /\ AskMsg(w, m, mgr, d, leader) BY MgrPrepareCRTSends
<1>1. PICK leader :
           /\ req' = Send(q, mgr, out)
           /\ \A d \in Nodes : \/ out[d] = <<>>
                               \/ \E w : out[d] = <<w>> /\ AskMsg(w, m, mgr, d, leader) BY <1>0
<1>2. mgr \in Nodes /\ Receives(src, mgr, "PrepareRemote") /\ Proc(mgr) = MgrHost(mgr)
  BY Placement, ManagerFacts DEF MgrPrepareCRT, Proc
<1>3. /\ q \in [Sites \X Nodes -> Seq(ReqMsg)]
      /\ \A c \in Sites \X Nodes : MsgsIn(q[c]) \subseteq MsgsIn(req[c]) BY <1>2, ReceivesType, ReceivesMsgs
<1> HIDE DEF q, m
<1>4. ASSUME NEW c \in Sites \X Nodes, NEW w \in NewReqs(c) PROVE c[1] = MgrHost(mgr) /\ AskMsg(w, m, mgr, c[2], leader)
 <2>1. c[1] = Proc(mgr) /\ w \in MsgsIn(out[c[2]]) BY <1>1, <1>3, RequestsAfter
 <2>2. c[2] \in Nodes OBVIOUS
 <2>3. \/ out[c[2]] = <<>>
       \/ \E v : out[c[2]] = <<v>> /\ AskMsg(v, m, mgr, c[2], leader) BY <1>1, <2>2
 <2>4. MsgsIn(<<>>) = {} /\ \A v : MsgsIn(<<v>>) = {v} BY OutMsgs
 <2>5. PICK v : out[c[2]] = <<v>> /\ AskMsg(v, m, mgr, c[2], leader) BY <2>1, <2>3, <2>4
 <2>6. w = v BY <2>1, <2>4, <2>5
 <2> QED BY <1>2, <2>1, <2>5, <2>6
<1> QED BY <1>4 DEF m

(* The managers, and OnNotiCRT and OnNotiCommit. *)
LEMMA ManagersKnown ==
  ASSUME TypeOK, KnownInv, NEW src \in Sites,
         \/ \E mgr \in Managers : \/ NotiWait(src, mgr) \/ MgrFinish(mgr)
                                  \/ \E now \in PhysTimes : MgrPrepareCRT(src, mgr, now)
         \/ \E s \in Sites : OnNotiCRT(src, s) \/ OnNotiCommit(src, s)
  PROVE KnownInv'
<1>1. UNCHANGED <<dtxns, my_txns, submitted, distributed_txns_by_me, rep>>
  BY DEF NotiWait, MgrFinish, MgrPrepareCRT, OnNotiCRT, OnNotiCommit, tableVars, execVars
<1>2. NewRepsKnown BY <1>1 DEF NewRepsKnown, NewReps
<1>3. ASSUME NEW mgr \in Managers, NEW now \in PhysTimes, MgrPrepareCRT(src, mgr, now) PROVE NewReqsKnown
 <2>1. PICK leader : \A c \in Sites \X Nodes : \A w \in NewReqs(c) :
                       AskMsg(w, ReqAt(src, mgr), mgr, c[2], leader) BY <1>3, MgrPrepareCRTNew
 <2>2. \A c \in Sites \X Nodes : \A w \in NewReqs(c) :
         /\ w.type \in {"PrepareCRT", "NotiCRT"}
         /\ w.type = "NotiCRT" => c[2] \in Sites /\ ParOf(c[2]) \notin Touched(w.txn) BY <2>1 DEF AskMsg
 <2> QED BY <2>2 DEF NewReqsKnown, KnownReq
<1>4. ASSUME NEW mgr \in Managers, NotiWait(src, mgr) PROVE NewReqsKnown
 <2>1. \A c \in Sites \X Nodes : \A w \in NewReqs(c) : w.type = "NotiCommit" BY <1>4, NotiWaitStep
 <2> QED BY <2>1, SaysNothing DEF NewReqsKnown
<1>5. ASSUME NEW mgr \in Managers, MgrFinish(mgr) PROVE NewReqsKnown BY <1>5 DEF MgrFinish, NewReqsKnown, NewReqs
<1>6. ASSUME NEW s \in Sites, OnNotiCRT(src, s) \/ OnNotiCommit(src, s) PROVE NewReqsKnown
 <2>1. /\ req' = Taken(req, <<src, s>>)
       /\ Receives(src, s, "NotiCRT") \/ Receives(src, s, "NotiCommit") BY <1>6 DEF OnNotiCRT, OnNotiCommit
 <2>2. NoNewReqs BY <2>1, Placement, OnlyTaken
 <2> QED BY <2>2 DEF NewReqsKnown, NoNewReqs
<1> QED BY <1>1, <1>2, <1>3, <1>4, <1>5, <1>6, QuietKnown

(* The acknowledgements, at the coordinator. *)
LEMMA AcknowledgedKnown ==
  ASSUME TypeOK, NEW s \in Sites, NEW t \in Txns, NEW acked, NEW par, NEW now,
         Acknowledged(s, t, acked, par, now)
  PROVE NewReqsKnown /\ NewRepsKnown
<1> DEFINE y == WithPrepared(acked, par)
<1>1. /\ \A c \in Sites \X Nodes : \A m \in NewReqs(c) :
           m.type = "SendOutput" \/ (c[1] = s /\ DecisionMsg(m, s, t, y, c[2]))
      /\ \A c \in Sites \X Sites : \A m \in NewReps(c) : IsAnswer(m, s, c) BY DEF Acknowledged, NoNewReqs, NewReps
<1> HIDE DEF y
<1>2. \A c \in Sites \X Nodes : \A m \in NewReqs(c) :
        /\ m.type \in {"SendOutput", "DistExe", "NotiWait"}
        /\ m.type = "DistExe" => c[2] \in Sites /\ ParOf(c[2]) \in Touched(m.txn) BY <1>1 DEF DecisionMsg
<1> QED BY <1>1, <1>2, SaysNothing DEF NewReqsKnown, NewRepsKnown, KnownReq, IsAnswer

(* OnPrepareCRT and OnRemotePrepared. *)
LEMMA PreparedKnown ==
  ASSUME TypeOK, UniqueInv, DecidedInv, KnownInv, NEW src \in Sites, NEW s \in Sites, NEW now \in PhysTimes,
         OnPrepareCRT(src, s, now) \/ OnRemotePrepared(src, s, now)
  PROVE KnownInv'
<1> DEFINE m == ReqAt(src, s)
<1>1. s \in Nodes /\ <<src, s>> \in Sites \X Nodes /\ dtxns \in [Sites -> SUBSET Txns] BY Placement DEF TypeOK
<1>2. ASSUME OnPrepareCRT(src, s, now) PROVE KnownInv'
 <2>1. UNCHANGED <<my_txns, submitted>> BY <1>2 DEF OnPrepareCRT
 <2>2. \A r \in Sites : distributed_txns_by_me'[r] \subseteq distributed_txns_by_me[r]
  <3>1. \/ \E run, R, x, ni, floors, maxTs :
             CheckExecutableTxns(s, run, R, x, ni, floors, maxTs) \/ NoExecution(s, R, x, ni, floors)
        \/ UNCHANGED distributed_txns_by_me BY <1>2 DEF OnPrepareCRT, CheckRemotePrepared
  <3> QED BY <3>1, CoordinatesFewer
 <2>3. /\ m \in MsgsIn(req[<<src, s>>]) /\ m \in ReqMsg /\ m.type = "PrepareCRT"
       /\ \/ /\ Acknowledged(s, m.txn, OwnAck(tx[s][m.txn], s, m.ts), ParOf(s), now)
             /\ UNCHANGED dtxns
          \/ UNCHANGED <<rep, dtxns>> /\ NoNewReqs
          \/ /\ dtxns' = [dtxns EXCEPT ![s] = @ \cup {m.txn}]
             /\ UNCHANGED rep
             /\ \A c \in Sites \X Nodes : \A w \in NewReqs(c) : PreparedMsg(w, s, m) BY <1>2, OnPrepareCRTStep
 <2> HIDE DEF m
 <2>4. m.txn \in Txns BY <2>3, ReqFields
 <2>5. CASE Acknowledged(s, m.txn, OwnAck(tx[s][m.txn], s, m.ts), ParOf(s), now) /\ UNCHANGED dtxns
   BY <2>1, <2>2, <2>4, <2>5, AcknowledgedKnown, QuietKnown
 <2>6. CASE UNCHANGED <<rep, dtxns>> /\ NoNewReqs
  <3>1. NewReqsKnown /\ NewRepsKnown BY <2>6 DEF NoNewReqs, NewReqsKnown, NewRepsKnown, NewReps
  <3> QED BY <2>1, <2>2, <2>6, <3>1, QuietKnown
 <2>7. CASE /\ dtxns' = [dtxns EXCEPT ![s] = @ \cup {m.txn}] /\ UNCHANGED rep
            /\ \A c \in Sites \X Nodes : \A w \in NewReqs(c) : PreparedMsg(w, s, m)
  <3>1. NewReqsKnown /\ NewRepsKnown BY <2>7, SaysNothing DEF PreparedMsg, NewReqsKnown, NewRepsKnown, NewReps
  <3>2. LawfulReq(tx, m, src, s) /\ RightReq(m, src, s) BY <1>1, <2>3, TakenLawful DEF UniqueInv, ReqsRight
  <3>3. Coord(tx, m.coord, m.txn) /\ ParOf(s) \in Touched(m.txn) BY <2>3, <3>2 DEF LawfulReq, RightReq
  <3>4. m.txn \in submitted BY <2>4, <3>3 DEF Coord, DecidedInv, LawfulTx, Coordinates
  <3>5. LearnsRight BY <1>1, <2>1, <2>2, <2>7, <3>3, <3>4 DEF LearnsRight
  <3> QED BY <2>1, <3>1, <3>5, KnownStep
 <2> QED BY <2>3, <2>5, <2>6, <2>7
<1>3. ASSUME OnRemotePrepared(src, s, now) PROVE KnownInv'
 <2>1. UNCHANGED <<dtxns, my_txns, submitted>> BY <1>3 DEF OnRemotePrepared, tableVars
 <2>2. \A r \in Sites : distributed_txns_by_me'[r] \subseteq distributed_txns_by_me[r]
  <3>1. \E run, R, x, ni, floors, maxTs :
             CheckExecutableTxns(s, run, R, x, ni, floors, maxTs) \/ NoExecution(s, R, x, ni, floors)
    BY <1>3 DEF OnRemotePrepared, CheckRemotePrepared
  <3> QED BY <3>1, CoordinatesFewer
 <2>3. /\ m \in ReqMsg /\ m.type = "RemotePrepared"
       /\ Acknowledged(s, m.txn, Ack(tx[s][m.txn], src, m.ts, m.leads), ParOf(src), now) BY <1>3, OnRemotePreparedStep
 <2> HIDE DEF m
 <2>4. m.txn \in Txns BY <2>3, ReqFields
 <2> QED BY <2>1, <2>2, <2>3, <2>4, AcknowledgedKnown, QuietKnown
<1> QED BY <1>2, <1>3

(* OnDistExe, DistExeAck and OnSendOutput. *)
LEMMA OutputKnown ==
  ASSUME TypeOK, DecidedInv, KnownInv, NEW src \in Sites, NEW s \in Sites,
         OnDistExe(src, s) \/ DistExeAck(src, s) \/ OnSendOutput(src, s)
  PROVE KnownInv'
<1>1. s \in Nodes /\ <<src, s>> \in Sites \X Nodes /\ dtxns \in [Sites -> SUBSET Txns] BY Placement DEF TypeOK
<1>2. ASSUME OnDistExe(src, s) PROVE KnownInv'
 <2> DEFINE m == ReqAt(src, s)
 <2>1. UNCHANGED <<my_txns, submitted>> BY <1>2 DEF OnDistExe
 <2>2. \A r \in Sites : distributed_txns_by_me'[r] \subseteq distributed_txns_by_me[r]
  <3>1. \/ \E run, R, x, ni, floors, maxTs : CheckExecutableTxns(s, run, R, x, ni, floors, maxTs)
        \/ UNCHANGED distributed_txns_by_me BY <1>2 DEF OnDistExe, execVars
  <3> QED BY <3>1, CoordinatesFewer
 <2>3. /\ m \in MsgsIn(req[<<src, s>>]) /\ m \in ReqMsg /\ m.type = "DistExe"
       /\ \/ /\ UNCHANGED dtxns
             /\ \A c \in Sites \X Nodes : \A w \in NewReqs(c) : w.type = "SendOutput"
             /\ \A c \in Sites \X Sites : \A w \in NewReps(c) : IsAnswer(w, s, c)
          \/ dtxns' = [dtxns EXCEPT ![s] = @ \cup {m.txn}] /\ UNCHANGED rep /\ NoNewReqs BY <1>2, OnDistExeStep
 <2> HIDE DEF m
 <2>4. NewReqsKnown /\ NewRepsKnown BY <2>3, SaysNothing DEF NoNewReqs, IsAnswer, NewReqsKnown, NewRepsKnown, NewReps
 <2>5. KnownReq(submitted, dtxns, m, src, s) /\ LawfulReq(tx, m, src, s) /\ m.txn \in Txns
   BY <1>1, <2>3, TakenKnown, TakenLawful, ReqFields
 <2>6. ParOf(s) \in Touched(m.txn) /\ Coord(tx, src, m.txn) BY <2>3, <2>5 DEF KnownReq, LawfulReq, DecidedAs, Coord
 <2>7. m.txn \in submitted BY <2>5, <2>6 DEF Coord, DecidedInv, LawfulTx, Coordinates
 <2>8. LearnsRight BY <1>1, <2>1, <2>2, <2>3, <2>6, <2>7 DEF LearnsRight
 <2> QED BY <2>1, <2>4, <2>8, KnownStep
<1>3. ASSUME DistExeAck(src, s) PROVE KnownInv'
 <2>1. UNCHANGED <<dtxns, my_txns, submitted, distributed_txns_by_me, req>> BY <1>3 DEF DistExeAck, tableVars
 <2>2. NoNewReps BY <1>3, DistExeAckStep
 <2>3. NewReqsKnown /\ NewRepsKnown BY <2>1, <2>2 DEF NoNewReps, NewReqsKnown, NewRepsKnown, NewReqs
 <2> QED BY <2>1, <2>3, QuietKnown
<1>4. ASSUME OnSendOutput(src, s) PROVE KnownInv'
 <2>1. UNCHANGED <<dtxns, my_txns, submitted>> BY <1>4 DEF OnSendOutput, tableVars
 <2>2. \A r \in Sites : distributed_txns_by_me'[r] \subseteq distributed_txns_by_me[r]
  <3>1. \/ \E run, R, x, ni, floors, maxTs :
             CheckExecutableTxns(s, run, R, x, ni, floors, maxTs) \/ NoExecution(s, R, x, ni, floors)
        \/ UNCHANGED distributed_txns_by_me BY <1>4 DEF OnSendOutput, execVars
  <3> QED BY <3>1, CoordinatesFewer
 <2>3. /\ \A c \in Sites \X Nodes : \A w \in NewReqs(c) : w.type \in {"SendOutput", "NotiWait"}
       /\ \A c \in Sites \X Sites : \A w \in NewReps(c) : IsAnswer(w, s, c) BY <1>4, OnSendOutputStep
 <2>4. NewReqsKnown /\ NewRepsKnown BY <2>3, SaysNothing DEF IsAnswer, NewReqsKnown, NewRepsKnown
 <2> QED BY <2>1, <2>2, <2>4, QuietKnown
<1> QED BY <1>2, <1>3, <1>4

(* Nothing is known initially. *)
LEMMA InitKnown == Init => KnownInv
<1> SUFFICES ASSUME Init PROVE KnownInv OBVIOUS
<1>1. MsgsIn(<<>>) = {} BY OutMsgs
<1>2. /\ \A c \in Sites \X Nodes : MsgsIn(req[c]) = {}
      /\ \A c \in Sites \X Sites : MsgsIn(rep[c]) = {} BY <1>1 DEF Init
<1>3. \A s \in Sites : KnownAt(s) BY DEF Init, KnownAt
<1> QED BY <1>2, <1>3 DEF KnownInv

(* Every step keeps the records known. *)
LEMMA NextKnown ==
  ASSUME TypeOK, UniqueInv, DecidedInv, KnownInv, [Next]_vars
  PROVE KnownInv'
<1>1. ASSUME NEW s \in Sites, NEW t \in Txns, NEW now \in PhysTimes,
             \/ \E skips \in 0 .. Cardinality(Txns) : HandleIRT(s, t, now, skips)
             \/ OnSubmitCRT(s, t, now)
      PROVE KnownInv'
 <2>1. \A skips \in 0 .. Cardinality(Txns) : skips \in Nat OBVIOUS
 <2> QED BY <1>1, <2>1, HandleIRTKnown, OnSubmitCRTKnown
<1>2. ASSUME NEW n \in Nodes, NEW now \in PhysTimes, IRSyncLoop(n, now) PROVE KnownInv' BY <1>2, IRSyncLoopKnown
<1>3. ASSUME NEW src \in Sites, NEW s \in Sites, NEW now \in PhysTimes,
             \/ OnPrepareIRT(src, s, now) \/ PrepareIRTACK(src, s, now) \/ OnIRSync(src, s, now)
             \/ OnPrepareCRT(src, s, now) \/ OnRemotePrepared(src, s, now)
      PROVE KnownInv' BY <1>3, HearingKnown, PreparedKnown
<1>4. ASSUME NEW src \in Sites, NEW s \in Sites,
             \/ OnNotiCRT(src, s) \/ OnDistExe(src, s) \/ DistExeAck(src, s)
             \/ OnNotiCommit(src, s) \/ OnSendOutput(src, s)
      PROVE KnownInv' BY <1>4, ManagersKnown, OutputKnown
<1>5. ASSUME NEW src \in Sites, NEW m \in Managers,
             NotiWait(src, m) \/ \E now \in PhysTimes : MgrPrepareCRT(src, m, now)
      PROVE KnownInv' BY <1>5, ManagersKnown
<1>6. ASSUME NEW m \in Managers, MgrFinish(m) PROVE KnownInv' BY <1>6, FirstSite, ManagersKnown
<1>7. CASE UNCHANGED vars
 <2>1. UNCHANGED <<my_txns, dtxns, submitted, distributed_txns_by_me, rep, req>> BY <1>7 DEF vars, tableVars, execVars
 <2>2. NewReqsKnown /\ NewRepsKnown BY <2>1 DEF NewReqsKnown, NewRepsKnown, NewReqs, NewReps
 <2> QED BY <2>1, <2>2, QuietKnown
<1>8. CASE Submit BY <1>1, <1>8 DEF Submit
<1>9. CASE Sync BY <1>2, <1>9 DEF Sync
<1>10. CASE Deliver BY <1>3, <1>4, <1>5, <1>6, <1>10 DEF Deliver
<1> QED BY <1>7, <1>8, <1>9, <1>10 DEF Next
-----
(* The leader of a partition, as the replicas that stored their pieces and those that
   have yet to hear PrepareCRT know it. *)
LeaderMsg(m, b, t, par, l) ==
  m.type = "PrepareCRT" /\ m.txn = t /\ ParOf(b) = par /\ m.leader = l
HasLeader(y, s, par, l) == y.role = "crtReplica" /\ ParOf(s) = par /\ y.region_handler = l
Led(x, q, t, par, l) ==
  \/ \E s \in Sites : HasLeader(x[s][t], s, par, l)
  \/ \E c \in Sites \X Nodes : \E m \in MsgsIn(q[c]) : LeaderMsg(m, c[2], t, par, l)

LeadersInv ==
  /\ \A s \in Sites, t \in Txns : tx[s][t].role = "crtReplica" => t \in dtxns[s] /\ ~IsIrt(t)
  /\ \A t \in Txns : \A par, l, k : Led(tx, req, t, par, l) /\ Led(tx, req, t, par, k) => l = k
  /\ \A t \in Txns, k \in Sites : \A l :
       tx[k][t].role = "crtCoord" /\ Led(tx, req, t, ParOf(k), l) => l = k
  /\ \A c \in Sites \X Nodes : \A m \in MsgsIn(req[c]) :
       m.type = "RemotePrepared" /\ m.leads => HasLeader(tx[c[1]][m.txn], c[1], ParOf(c[1]), c[1])

-----
(* The order on a connection.  w may not follow v: no PrepareCRT and no DistExe is sent
   twice, and no PrepareCRT after the NotiCommit of the same transaction.  A manager has
   one connection to a site. *)
Clash(v, w) ==
  \/ v.type = "PrepareCRT" /\ w.type = "PrepareCRT" /\ v.txn = w.txn
  \/ v.type = "NotiCommit" /\ w.type = "PrepareCRT" /\ v.wait /\ v.txn = w.txn
  \/ v.type = "DistExe" /\ w.type = "DistExe" /\ v.txn = w.txn
Tidy(q) == \A i, j \in 1 .. Len(q) : i < j => ~Clash(q[i], q[j])

Ruled(x, t) == \E k \in Sites : x[k][t].role = "crtCoord" /\ x[k][t].phase >= DIST_CAN_EXE
TidyReq(x, m, a, b) ==
  /\ m.type \in {"PrepareCRT", "NotiCommit"} =>
       b \in Sites /\ a = MgrHost(MgrOf(SiteRegion(b)))
  /\ m.type \in {"NotiWait", "NotiCommit"} => (m.wait => Ruled(x, m.txn))

TidyInv ==
  /\ \A c \in Sites \X Nodes : Tidy(req[c])
  /\ \A c \in Sites \X Nodes : \A m \in MsgsIn(req[c]) : TidyReq(tx, m, c[1], c[2])

-----
(* Cross-region transactions at a site.  R are the ready transactions, F the floors, dt
   the records. *)
InQueue(R, t) == \E e \in R : e.id = t

(* The leader has not executed its pieces. *)
Leads(y, s) == y.role = "crtReplica" /\ y.region_handler = s
Open(y, s, t, R) == Leads(y, s) /\ (y.owes = -1 \/ InQueue(R, t))
(* Nobody has noted the output of par. *)
NoOutput(x, t, par) ==
  \A k \in Sites : x[k][t].role = "crtCoord" => x[k][t].status[par] # P_OUTPUT_RECEIVED

CrtReq(x, dt, F, m, b) ==
  /\ m.type = "PrepareCRT" =>
       /\ b \in Sites /\ m.ts \notin F[b]
       /\ \/ x[b][m.txn].role = "unset"
          \/ /\ x[b][m.txn].role = "crtCoord" /\ x[b][m.txn].phase = DIST_REMOTE_SENT
             /\ ParOf(b) \notin x[b][m.txn].mgr_acked
       /\ m.leader = b => NoOutput(x, m.txn, ParOf(b))
  /\ m.type = "DistExe" =>
       b \in Sites /\ x[b][m.txn].owes = -1 /\ (m.txn \in dt[b] => x[b][m.txn].role = "crtReplica")
CrtRep(x, R, m, a) ==
  m.type = "DistExeRes" =>
    /\ Leads(x[a][m.txn], a) /\ ~Open(x[a][m.txn], a, m.txn, R[a])
    /\ NoOutput(x, m.txn, ParOf(a))

CrtEntry(y, e) ==
  ~IsIrt(e.id) =>
    /\ e.ts = y.ts
    /\ y.role = "crtReplica" \/ (y.role = "crtCoord" /\ y.phase >= DIST_CAN_EXE)
(* The partitions whose leader has acknowledged. *)
HeardLeaders(y, t) ==
  /\ \A par \in y.mgr_acked : AcksOf(y, par) # {}
  /\ \A par \in Touched(t) : y.status[par] >= P_REMOTE_PREPARED => par \in y.mgr_acked
CrtTx(x, dt, R, s, t) ==
  /\ t \in dt[s] /\ ~IsIrt(t) => x[s][t].role \in {"crtCoord", "crtReplica"} \/ Ruled(x, t)
  /\ x[s][t].role \in {"irtHandler", "irtReplica"} => IsIrt(t)
  /\ x[s][t].role = "crtCoord" => HeardLeaders(x[s][t], t)
  /\ Leads(x[s][t], s) /\ x[s][t].phase >= PHASE_CAN_EXE => x[s][t].owes # -1
  /\ x[s][t].owes # -1 => x[s][t].role = "crtReplica"
  /\ Open(x[s][t], s, t, R[s]) => x[s][t].pieces # x[s][t].done /\ NoOutput(x, t, ParOf(s))

(* A partition answers once. *)
OneAnswer(q) ==
  \A i, j \in 1 .. Len(q) :
    q[i].type = "DistExeRes" /\ q[j].type = "DistExeRes" /\ q[i].txn = q[j].txn => i = j

FloorsOut == \A s \in Sites : \A f \in dist_txn_tss[s] : HandedOut(f, last_clock, max_future_ts)
CrtAll(x, dt, R, F, q, p) ==
  /\ \A s \in Sites : \A e \in R[s] : CrtEntry(x[s][e.id], e)
  /\ \A s \in Sites, t \in Txns : CrtTx(x, dt, R, s, t)
  /\ \A c \in Sites \X Nodes : \A m \in MsgsIn(q[c]) : CrtReq(x, dt, F, m, c[2])
  /\ \A c \in Sites \X Sites : \A m \in MsgsIn(p[c]) : CrtRep(x, R, m, c[1])
  /\ \A c \in Sites \X Sites : OneAnswer(p[c])
CrtInv == FloorsOut /\ CrtAll(tx, dtxns, ready_txns, dist_txn_tss, req, rep)
-----
(* What CheckExecutableTxns does to cross-region transactions.  An entry has the
   timestamp of the record; a leader's entry is unfinished. *)
QueueRight(s, R, x) ==
  /\ \A e \in R : ~IsIrt(e.id) => e.ts = x[e.id].ts
  /\ \A e \in R : x[e.id].owes # -1 => ~IsIrt(e.id) /\ x[e.id].role = "crtReplica"
  /\ \A t \in Txns : Leads(x[t], s) /\ InQueue(R, t) => x[t].pieces # x[t].done

(* A leader that has executed its pieces has them out of its queue; one that cannot
   execute yet keeps its record. *)
LEMMA LeaderRuns ==
  ASSUME NEW s \in Sites, NEW R \in Entries, NEW x \in [Txns -> TxType], NEW run \in SUBSET PieceIds,
         NEW ni, NEW floors, NEW maxTs,
         tx \in [Sites -> [Txns -> TxType]], ready_txns \in [Sites -> Entries],
         CheckExecutableTxns(s, run, R, x, ni, floors, maxTs), QueueRight(s, R, x),
         NEW t \in Txns, ~IsIrt(t)
  PROVE  /\ Leads(x[t], s) /\ InQueue(ready_txns'[s], t) => tx'[s][t].pieces # tx'[s][t].done
         /\ ~(x[t].phase >= PHASE_CAN_EXE) => tx'[s][t] = x[t]
         /\ \A e \in R : e.id = t /\ x[t].owes # -1 /\ Ends(s, run, x, e)
              => Leads(x[t], s) /\ ~InQueue(ready_txns'[s], t)
<1> DEFINE tried == {e \in R : Attempted(s, run, R, x, ni, e, maxTs)}
           ended == {e \in tried : Ends(s, run, x, e)}
           txns  == [u \in Txns |-> IF \E e \in tried : e.id = u /\ x[u].role # "unset"
                                    THEN Executed(s, run, x, CHOOSE e \in tried : e.id = u)
                                    ELSE x[u]]
<1>1. /\ IsOutcome(s, run, R, x, ni, maxTs)
      /\ ready_txns' = [ready_txns EXCEPT ![s] =
           R \ (ended \cup {e \in tried : x[e.id].region_handler # s})]
      /\ tx' = [tx EXCEPT ![s] = txns] BY DEF CheckExecutableTxns
<1>2. /\ ready_txns'[s] = R \ (ended \cup {e \in tried : x[e.id].region_handler # s})
      /\ tx'[s][t] = IF \E e \in tried : e.id = t /\ x[t].role # "unset"
                     THEN Executed(s, run, x, CHOOSE e \in tried : e.id = t)
                     ELSE x[t] BY <1>1
<1>3. \A e \in tried : e \in R /\ x[e.id].phase >= PHASE_CAN_EXE BY DEF Attempted, Visited
<1>4. \A e \in R : e \notin tried => RunIn(run, e) = {} BY <1>1 DEF IsOutcome
<1>5. x[t] \in TxType /\ R \subseteq Entry BY EntryFacts
<1>6. \A d, e \in R : d.id = t /\ e.id = t => d = e BY <1>5 DEF QueueRight, Entry
<1> HIDE DEF tried
<1>7. ~(x[t].phase >= PHASE_CAN_EXE) => tx'[s][t] = x[t] BY <1>2, <1>3
<1>8. ASSUME NEW e \in ready_txns'[s], e.id = t, Leads(x[t], s) PROVE tx'[s][t].pieces # tx'[s][t].done
 <2>1. e \in R /\ e \notin ended /\ x[t].role = "crtReplica" /\ x[t].region_handler = s BY <1>2, <1>8 DEF Leads
 <2>2. CASE e \in tried
  <3>1. (CHOOSE d \in tried : d.id = t) = e BY <1>3, <1>6, <1>8, <2>1, <2>2
  <3>2. tx'[s][t] = Executed(s, run, x, e) BY <1>2, <1>8, <2>1, <2>2, <3>1
  <3> DEFINE z == AfterRun(x[t], RunIn(run, e))
  <3>3. z.role = "crtReplica" /\ ~Finished(z)
   <4>1. z.role = x[t].role BY <1>5 DEF AfterRun, TxType
   <4> QED BY <1>8, <2>1, <2>2, <4>1 DEF Ends
  <3> HIDE DEF z
  <3>4. Executed(s, run, x, e) = z BY <1>8, <3>3 DEF Executed, z
  <3> QED BY <3>2, <3>3, <3>4 DEF Finished
 <2>3. CASE e \notin tried
  <3>1. tx'[s][t] = x[t] BY <1>2, <1>3, <1>6, <1>8, <2>1, <2>3
  <3> QED BY <1>8, <2>1, <3>1 DEF QueueRight, InQueue
 <2> QED BY <2>2, <2>3
<1>9. ASSUME NEW e \in R, e.id = t, x[t].owes # -1, Ends(s, run, x, e)
      PROVE Leads(x[t], s) /\ ~InQueue(ready_txns'[s], t)
 <2>1. Leads(x[t], s) BY <1>9 DEF Leads, Ends, QueueRight
 <2>2. x[t].pieces # x[t].done BY <1>9, <2>1 DEF QueueRight, InQueue
 <2>3. e \in tried
  <3>1. SUFFICES ASSUME RunIn(run, e) = {} PROVE FALSE BY <1>4
  <3>2. Finished(AfterRun(x[t], {})) BY <1>9, <3>1 DEF Ends
  <3> QED BY <1>5, <2>2, <3>2 DEF Finished, AfterRun, TxType
 <2>4. e \notin ready_txns'[s] BY <1>2, <1>9, <2>3
 <2> QED BY <1>2, <1>6, <1>9, <2>1, <2>4 DEF InQueue
<1> QED BY <1>7, <1>8, <1>9 DEF InQueue

(* Nodes are natural numbers, so none of them is the -1 of a record that owes no answer. *)
LEMMA NodesFrom0 == \A n \in Nodes : n \in Nat
<1>1. NRegions \in Nat /\ NShards \in Nat /\ NReplicas \in Nat BY SizesAssumption
<1>2. NRegions * NShards \in Nat BY <1>1
<1>3. NRegions * NShards * NReplicas \in Nat BY <1>1, <1>2
<1>4. \A r \in Regions : r \in Nat BY <1>1 DEF Regions
<1> QED BY <1>3, <1>4 DEF Nodes, Sites, Managers, MgrOf

(* It answers for a transaction once. *)
LEMMA OneReply ==
  ASSUME NEW s \in Sites, NEW R \in Entries, NEW x \in [Txns -> TxType], NEW run \in SUBSET PieceIds,
         QueueRight(s, R, x), NEW d \in Nodes
  PROVE OneAnswer(DistExeReplies(s, run, R, x)[d])
<1> DEFINE S == {e \in R : x[e.id].owes = d /\ Ends(s, run, x, e)}
           q == InTsOrder(S)
           f == [i \in 1..Len(q) |-> [type |-> "DistExeRes", txn |-> q[i].id]]
<1>1. S \in Entries /\ R \subseteq Entry BY EntryFacts
<1>2. DistExeReplies(s, run, R, x)[d] = f BY DEF DistExeReplies
<1>3. \A a, b \in S : a.id = b.id => a = b
 <2>1. d # -1 BY NodesFrom0
 <2>2. \A a \in S : a \in R /\ a.ts = x[a.id].ts BY <2>1 DEF QueueRight
 <2> QED BY <1>1, <2>2 DEF Entry
<1> HIDE DEF S
<1>4. q \in [1..Cardinality(S) -> S] /\ Cardinality(S) \in Nat BY <1>1, SortedExists
<1>5. \A i, j \in 1..Cardinality(S) : i < j => q[i] # q[j] BY <1>1, SortedOnce
<1> HIDE DEF q
<1>6. Len(q) = Cardinality(S) /\ Len(f) = Len(q) /\ Len(q) \in Nat BY <1>4
<1>7. \A i \in 1..Len(f) : f[i].txn = q[i].id /\ q[i] \in S BY <1>4, <1>6
<1>8. \A i, j \in 1..Len(f) : q[i] = q[j] => i = j BY <1>5, <1>6
<1> HIDE DEF f
<1> QED BY <1>2, <1>3, <1>7, <1>8 DEF OneAnswer
-----
(* The shape of the handlers that end in CheckExecutableTxns.  all are connections, of
   which at most one message is taken. *)
Rest(q, all) == q = all \/ \E k \in DOMAIN all : all[k] # <<>> /\ q = Taken(all, k)

Executes(s, run, R, x) ==
  /\ R \in Entries /\ x \in [Txns -> TxType] /\ run \in SUBSET PieceIds
  /\ \E ni, floors, maxTs : CheckExecutableTxns(s, run, R, x, ni, floors, maxTs)

(* The answers to DistExe, and replies that are none behind them. *)
Answering(out, s, run, R, x) ==
  /\ out \in [Nodes -> Seq(RepMsg)]
  /\ \A d \in Nodes : \E o \in Seq(RepMsg) :
       /\ out[d] = DistExeReplies(s, run, R, x)[d] \o o
       /\ \A w \in MsgsIn(o) : w.type # "DistExeRes"
Answers(p, s, run, R, x) == \E out : Answering(out, s, run, R, x) /\ rep' = Send(p, s, out)

(* Nothing of a cross-region transaction is touched before. *)
Local(s, R, x) ==
  /\ \A t \in Txns : ~IsIrt(t) => x[t] = tx[s][t]
  /\ \A e \in R : ~IsIrt(e.id) => e \in ready_txns[s]

HeardLocally(s) ==
  \E R, x :
    /\ Local(s, R, x) /\ R \in Entries /\ x \in [Txns -> TxType]
    /\ \/ \E run, q, p : /\ Executes(s, run, R, x)
                         /\ Rest(q, req) /\ req' = Send(q, s, OutputMsgs(s, run, R))
                         /\ Rest(p, rep) /\ Answers(p, s, run, R, x)
       \/ /\ tx'[s] = x /\ ready_txns'[s] = R /\ OthersKept(s)
          /\ req' = req /\ Rest(rep', rep)

(* The replies to the coordinator are the only DistExeRes among what a handler sends. *)
LEMMA AnswersAlone ==
  ASSUME NEW s, NEW run, NEW R \in Entries, NEW x
  PROVE  /\ Answering(DistExeReplies(s, run, R, x), s, run, R, x)
         /\ \A D : \A w \in RepMsg : w.type # "DistExeRes" =>
              Answering(Then(DistExeReplies(s, run, R, x), ToAll(D, w)), s, run, R, x)
<1> DEFINE a == DistExeReplies(s, run, R, x)
<1>1. a \in [Nodes -> Seq(RepMsg)] BY DistExeRepliesType
<1>2. <<>> \in Seq(RepMsg) /\ MsgsIn(<<>>) = {} /\ \A w : MsgsIn(<<w>>) = {w} BY OutMsgs
<1> HIDE DEF a
<1>3. \A d \in Nodes : a[d] = a[d] \o <<>> BY <1>1
<1>4. Answering(a, s, run, R, x)
 <2>1. ASSUME NEW d \in Nodes
       PROVE \E o \in Seq(RepMsg) : a[d] = a[d] \o o /\ \A w \in MsgsIn(o) : w.type # "DistExeRes" BY <1>2, <1>3
 <2> QED BY <1>1, <2>1 DEF Answering, a
<1>5. ASSUME NEW D, NEW w \in RepMsg, w.type # "DistExeRes" PROVE Answering(Then(a, ToAll(D, w)), s, run, R, x)
 <2> DEFINE b == ToAll(D, w)
 <2>1. b \in [Nodes -> Seq(RepMsg)] BY OutType
 <2>2. \A d \in Nodes : MsgsIn(b[d]) = IF d \in D THEN {w} ELSE {} BY OutMsgs
 <2> HIDE DEF b
 <2>3. Then(a, b) \in [Nodes -> Seq(RepMsg)] /\ \A d \in Nodes : Then(a, b)[d] = a[d] \o b[d]
   BY <1>1, <2>1, OutType DEF Then
 <2>4. ASSUME NEW d \in Nodes
       PROVE  \E o \in Seq(RepMsg) : /\ Then(a, b)[d] = a[d] \o o
                                     /\ \A v \in MsgsIn(o) : v.type # "DistExeRes"
  <3>1. b[d] \in Seq(RepMsg) /\ \A v \in MsgsIn(b[d]) : v.type # "DistExeRes" BY <1>5, <2>1, <2>2
  <3> QED BY <2>3, <3>1
 <2>5. Answering(Then(a, b), s, run, R, x) BY <2>3, <2>4 DEF Answering, a
 <2> QED BY <2>5 DEF b
<1> QED BY <1>4, <1>5 DEF a

(* What a piggyback leaves of the records and of the queue. *)
LEMMA PiggyLocal ==
  ASSUME TypeOK, NEW s \in Sites, NEW from \in Nodes, NEW known, NEW noti \in Entries, IrtEntries(noti),
         NEW x \in [Txns -> TxType], NEW R \in Entries, Local(s, R, x)
  PROVE  LET fresh == Unknown(known, noti)
         IN  /\ PiggyTx(x, from, fresh) \in [Txns -> TxType] /\ PiggyReady(R, fresh) \in Entries
             /\ Local(s, PiggyReady(R, fresh), PiggyTx(x, from, fresh))
<1> DEFINE fresh == Unknown(known, noti)
<1>1. fresh \subseteq noti /\ fresh \in Entries /\ fresh \in SUBSET Entry BY QueueGains, EntryFacts
<1>2. \A e \in fresh : IsIrt(e.id) BY <1>1 DEF IrtEntries
<1> HIDE DEF fresh
<1>3. PiggyTx(x, from, fresh) \in [Txns -> TxType] /\ PiggyReady(R, fresh) \in Entries BY <1>1, PiggyTxType, EntryFacts
<1>4. \A t \in Txns : ~IsIrt(t) => PiggyTx(x, from, fresh)[t] = x[t] BY <1>2 DEF PiggyTx
<1>5. PiggyReady(R, fresh) \subseteq R \cup fresh BY QueueGains
<1>6. Local(s, PiggyReady(R, fresh), PiggyTx(x, from, fresh)) BY <1>2, <1>4, <1>5 DEF Local
<1> QED BY <1>3, <1>6 DEF fresh

(* Preparing an intra-region transaction touches no cross-region record. *)
LEMMA OnPrepareIRTShape ==
  ASSUME TypeOK, DecidedInv, NEW src \in Sites, NEW s \in Sites, NEW now \in PhysTimes, OnPrepareIRT(src, s, now)
  PROVE HeardLocally(s)
<1> DEFINE m     == ReqAt(src, s)
           t     == m.txn
           known == dtxns[s] \cup {t}
           fresh == Unknown(known, m.noti)
           h     == IF SitesForSamePar(s, src) THEN src ELSE s
           y     == ReplicaOf(tx[s][t], m.ts, h, PiecesAt(t, ParOf(s)))
           x1    == [tx[s] EXCEPT ![t] = y]
           R1    == PutReady(ready_txns[s], m.ts, t)
           x2    == PiggyTx(x1, src, fresh)
           R     == PiggyReady(R1, fresh)
           q     == Taken(req, <<src, s>>)
           ts    == GenerateChrTs(s, now, clock_offset'[s], last_clock[s], dist_txn_tss'[s])
<1>1. s \in Nodes /\ src \in Nodes /\ TypeOK' /\ <<src, s>> \in Sites \X Nodes BY Placement, OnPrepareIRTType
<1>2. /\ m \in ReqMsg /\ m.type = "PrepareIRT" /\ m \in MsgsIn(req[<<src, s>>]) /\ req[<<src, s>>] # <<>>
 <2>1. Receives(src, s, "PrepareIRT") BY DEF OnPrepareIRT
 <2> QED BY <1>1, <2>1, ReceivesType, ReceivesMsgs DEF ReqAt, Receives
<1>3. t \in Txns /\ m.ts \in ChrTsType /\ m.delivered \in ChrTsType /\ m.noti \in Entries BY <1>2, ReqFields
<1>4. PICK run \in SUBSET Runnable(R, x2) :
        /\ CheckExecutableTxns(s, run, R, x2, new_input[s],
                               PiggyFloors(s, src, m.ts), ir_site_max_ts'[s])
        /\ req' = Send(q, s, OutputMsgs(s, run, R))
        /\ last_clock' = [last_clock EXCEPT ![s] = ts]
        /\ rep' = Send(rep, s, Then(DistExeReplies(s, run, R, x2), ToAll({src},
                    [type |-> "PrepareIRTRes", txn |-> t, ts |-> ts, delivered |-> m.ts,
                     noti |-> CollectNotifyTxns(s, src, my_txns[s], ir_site_notified_ts'[s][src])])))
  BY DEF OnPrepareIRT, ReqAt, ReplicaOf
<1>5. /\ tx[s] \in [Txns -> TxType] /\ ready_txns[s] \in Entries /\ tx[s][t] \in TxType
      /\ my_txns[s] \in Entries /\ ts \in ChrTsType /\ DOMAIN req = Sites \X Nodes
 <2>1. last_clock'[s] = ts /\ last_clock'[s] \in ChrTsType BY <1>1, <1>4 DEF TypeOK
 <2> QED BY <1>3, <2>1 DEF TypeOK
<1> HIDE DEF ts
<1>6. LawfulReq(tx, m, src, s) BY <1>1, <1>2, TakenLawful
<1>7. IsIrt(t) /\ IrtEntries(m.noti) BY <1>2, <1>6 DEF LawfulReq
<1>8. y \in TxType
 <2>1. h \in Nodes /\ PiecesAt(t, ParOf(s)) \in SUBSET PieceIds BY <1>1, <1>3, PieceFacts
 <2> HIDE DEF h, t
 <2> QED BY <1>3, <1>5, <2>1, ReplicaRecord
<1> HIDE DEF m, y
<1>9. /\ x1 \in [Txns -> TxType] /\ R1 \in Entries /\ R1 \subseteq ready_txns[s] \cup {[ts |-> m.ts, id |-> t]}
  BY <1>3, <1>5, <1>8, EntryFacts, QueueGains
<1>10. Local(s, R1, x1) BY <1>3, <1>5, <1>7, <1>9 DEF Local
<1> HIDE DEF x1, R1
<1>11. x2 \in [Txns -> TxType] /\ R \in Entries /\ Local(s, R, x2) BY <1>1, <1>3, <1>7, <1>9, <1>10, PiggyLocal
<1> HIDE DEF x2, R
<1>12. run \in SUBSET PieceIds BY <1>11, RunnableType
<1>13. Executes(s, run, R, x2) BY <1>4, <1>11, <1>12 DEF Executes
<1>14. Answers(rep, s, run, R, x2)
 <2> DEFINE N == CollectNotifyTxns(s, src, my_txns[s], ir_site_notified_ts'[s][src])
            w == [type |-> "PrepareIRTRes", txn |-> t, ts |-> ts, delivered |-> m.ts, noti |-> N]
 <2>1. N \in Entries BY <1>5, CollectType
 <2> HIDE DEF N
 <2>2. w \in RepMsg /\ w.type # "DistExeRes" BY <1>3, <1>5, <2>1 DEF RepMsg
 <2>3. rep' = Send(rep, s, Then(DistExeReplies(s, run, R, x2), ToAll({src}, w))) BY <1>4 DEF N
 <2> HIDE DEF w
 <2>4. Answering(Then(DistExeReplies(s, run, R, x2), ToAll({src}, w)), s, run, R, x2) BY <1>11, <2>2, AnswersAlone
 <2> QED BY <2>3, <2>4 DEF Answers
<1>15. Rest(q, req) /\ Rest(rep, rep) BY <1>1, <1>2, <1>5 DEF Rest
<1>16. req' = Send(q, s, OutputMsgs(s, run, R)) BY <1>4
<1> HIDE DEF q
<1> QED BY <1>11, <1>13, <1>14, <1>15, <1>16 DEF HeardLocally

(* Its acknowledgement does not either. *)
LEMMA PrepareIRTACKShape ==
  ASSUME TypeOK, DecidedInv, NEW src \in Sites, NEW s \in Sites, NEW now \in PhysTimes, PrepareIRTACK(src, s, now)
  PROVE HeardLocally(s)
<1> DEFINE m     == RepAt(src, s)
           t     == m.txn
           fresh == Unknown(dtxns[s], m.noti)
           x1    == PiggyTx(tx[s], src, fresh)
           R     == PiggyReady(ready_txns[s], fresh)
           x2    == IF x1[t].phase = LOCAL_CAN_EXE THEN x1
                    ELSE [x1 EXCEPT ![t] = [x1[t] EXCEPT !.acks = @ \cup {src}]]
           x3    == [x2 EXCEPT ![t] = [@ EXCEPT !.phase = LOCAL_CAN_EXE]]
           floors == PiggyFloors(s, src, m.ts)
           p     == Taken(rep, <<src, s>>)
<1>1. s \in Nodes /\ src \in Nodes /\ <<src, s>> \in Sites \X Sites BY Placement
<1>2. m \in RepMsg /\ m.type = "PrepareIRTRes" /\ m \in MsgsIn(rep[<<src, s>>]) /\ rep[<<src, s>>] # <<>>
 <2>1. rep \in [Sites \X Sites -> Seq(RepMsg)] /\ <<src, s>> \in Sites \X Sites BY DEF TypeOK
 <2>2. rep[<<src, s>>] # <<>> /\ m.type = "PrepareIRTRes" BY DEF PrepareIRTACK, RepAt
 <2> QED BY <2>1, <2>2, TakenType, TakenMsgs DEF RepAt
<1>3. /\ t \in Txns /\ m.ts \in ChrTsType /\ m.noti \in Entries BY <1>2, RepFields
<1>4. \/ /\ NoExecution(s, R, x2, new_input[s], floors)
         /\ rep' = p
         /\ UNCHANGED req
      \/ \E run \in SUBSET Runnable(R, x3) :
           /\ CheckExecutableTxns(s, run, R, x3, new_input[s], floors, ir_site_max_ts'[s])
           /\ req' = Send(req, s, OutputMsgs(s, run, R))
           /\ rep' = Send(p, s, DistExeReplies(s, run, R, x3)) BY DEF PrepareIRTACK, RepAt
<1>5. /\ tx[s] \in [Txns -> TxType] /\ ready_txns[s] \in Entries
      /\ tx \in [Sites -> [Txns -> TxType]] /\ ready_txns \in [Sites -> Entries]
      /\ DOMAIN rep = Sites \X Sites BY DEF TypeOK
<1>6. LawfulRep(tx, m, s) BY <1>1, <1>2, TakenLawful
<1>7. IsIrt(t) /\ IrtEntries(m.noti) BY <1>2, <1>6 DEF LawfulRep
<1> HIDE DEF m
<1>8. Local(s, ready_txns[s], tx[s]) BY DEF Local
<1>9. x1 \in [Txns -> TxType] /\ R \in Entries /\ Local(s, R, x1)
 <2> DEFINE x0 == tx[s]
            R0 == ready_txns[s]
 <2>1. x0 \in [Txns -> TxType] /\ R0 \in Entries /\ Local(s, R0, x0) BY <1>5, <1>8
 <2>2. x1 = PiggyTx(x0, src, fresh) /\ R = PiggyReady(R0, fresh) OBVIOUS
 <2> HIDE DEF x0, R0, x1, R
 <2> QED BY <1>1, <1>3, <1>7, <2>1, <2>2, PiggyLocal
<1> HIDE DEF x1, R
<1>10. x2 \in [Txns -> TxType] /\ Local(s, R, x2)
 <2> DEFINE y == [x1[t] EXCEPT !.acks = @ \cup {src}]
 <2>1. x1[t] \in TxType BY <1>3, <1>9
 <2>2. y \in TxType BY <2>1 DEF TxType
 <2>3. x2 = IF x1[t].phase = LOCAL_CAN_EXE THEN x1 ELSE [x1 EXCEPT ![t] = y] OBVIOUS
 <2> HIDE DEF y, x2
 <2> QED BY <1>3, <1>7, <1>9, <2>2, <2>3 DEF Local
<1> HIDE DEF x2
<1>11. x3 \in [Txns -> TxType] /\ Local(s, R, x3)
 <2> DEFINE y == [x2[t] EXCEPT !.phase = LOCAL_CAN_EXE]
 <2>1. x2[t] \in TxType BY <1>3, <1>10
 <2>2. y \in TxType BY <2>1, PhaseFacts DEF TxType
 <2>3. x3 = [x2 EXCEPT ![t] = y] BY <1>10
 <2> HIDE DEF y, x3
 <2> QED BY <1>3, <1>7, <1>10, <2>2, <2>3 DEF Local
<1> HIDE DEF x3, floors
<1>12. Rest(p, rep) /\ Rest(req, req) BY <1>1, <1>2, <1>5 DEF Rest
<1> HIDE DEF p
<1>13. CASE NoExecution(s, R, x2, new_input[s], floors) /\ rep' = p /\ UNCHANGED req
 <2>1. tx'[s] = x2 /\ ready_txns'[s] = R /\ OthersKept(s) BY <1>5, <1>13, NoExecutionKeeps DEF OthersKept
 <2> QED BY <1>9, <1>10, <1>12, <1>13, <2>1 DEF HeardLocally
<1>14. ASSUME NEW run \in SUBSET Runnable(R, x3),
              CheckExecutableTxns(s, run, R, x3, new_input[s], floors, ir_site_max_ts'[s]),
              req' = Send(req, s, OutputMsgs(s, run, R)),
              rep' = Send(p, s, DistExeReplies(s, run, R, x3))
       PROVE HeardLocally(s)
 <2>1. run \in SUBSET PieceIds BY <1>9, <1>11, RunnableType
 <2>2. Executes(s, run, R, x3) /\ Answers(p, s, run, R, x3)
   BY <1>9, <1>11, <1>14, <2>1, AnswersAlone DEF Executes, Answers
 <2> QED BY <1>9, <1>11, <1>12, <1>14, <2>2 DEF HeardLocally
<1> QED BY <1>4, <1>13, <1>14

(* A synchronisation does not either. *)
LEMMA OnIRSyncShape ==
  ASSUME TypeOK, DecidedInv, NEW src \in Sites, NEW s \in Sites, NEW now \in PhysTimes, OnIRSync(src, s, now)
  PROVE HeardLocally(s)
<1> DEFINE m     == ReqAt(src, s)
           from  == m.from
           fresh == Unknown(dtxns[s], m.noti)
           x     == PiggyTx(tx[s], from, fresh)
           R     == PiggyReady(ready_txns[s], fresh)
           floors == PiggyFloors(s, from, m.ts)
           q     == Taken(req, <<src, s>>)
<1>1. s \in Nodes /\ <<src, s>> \in Sites \X Nodes BY Placement
<1>2. m \in ReqMsg /\ m.type = "IRSync" /\ m \in MsgsIn(req[<<src, s>>]) /\ req[<<src, s>>] # <<>>
 <2>1. Receives(src, s, "IRSync") BY DEF OnIRSync
 <2> QED BY <1>1, <2>1, ReceivesType, ReceivesMsgs DEF ReqAt, Receives
<1>3. from \in Nodes /\ m.ts \in ChrTsType /\ m.noti \in Entries BY <1>2, ReqFields
<1>4. PICK run \in SUBSET Runnable(R, x) :
        /\ CheckExecutableTxns(s, run, R, x, new_input[s], floors, ir_site_max_ts'[s])
        /\ req' = Send(q, s, OutputMsgs(s, run, R))
        /\ rep' = Send(rep, s, DistExeReplies(s, run, R, x)) BY DEF OnIRSync, ReqAt
<1>5. /\ tx[s] \in [Txns -> TxType] /\ ready_txns[s] \in Entries /\ DOMAIN req = Sites \X Nodes BY DEF TypeOK
<1>6. LawfulReq(tx, m, src, s) BY <1>1, <1>2, TakenLawful
<1>7. IrtEntries(m.noti) BY <1>2, <1>6 DEF LawfulReq
<1> HIDE DEF m, from
<1>8. Local(s, ready_txns[s], tx[s]) BY DEF Local
<1>9. x \in [Txns -> TxType] /\ R \in Entries /\ Local(s, R, x)
 <2> DEFINE x0 == tx[s]
            R0 == ready_txns[s]
 <2>1. x0 \in [Txns -> TxType] /\ R0 \in Entries /\ Local(s, R0, x0) BY <1>5, <1>8
 <2>2. x = PiggyTx(x0, from, fresh) /\ R = PiggyReady(R0, fresh) OBVIOUS
 <2> HIDE DEF x0, R0, x, R
 <2> QED BY <1>3, <1>7, <2>1, <2>2, PiggyLocal
<1> HIDE DEF x, R, floors
<1>10. run \in SUBSET PieceIds BY <1>9, RunnableType
<1>11. Rest(q, req) /\ Rest(rep, rep) BY <1>1, <1>2, <1>5 DEF Rest
<1> HIDE DEF q
<1>12. Executes(s, run, R, x) /\ Answers(rep, s, run, R, x) BY <1>4, <1>9, <1>10, AnswersAlone DEF Executes, Answers
<1> QED BY <1>4, <1>9, <1>11, <1>12 DEF HeardLocally
-----
(* Requests that order nothing, and the shape of a handler of s in which R and x are the
   queue and the records at the call of CheckExecutableTxns. *)
Calm(m) == m.type \notin {"PrepareCRT", "DistExe"}
CalmOut(out) ==
  out \in [Nodes -> Seq(ReqMsg)] /\ \A d \in Nodes : \A w \in MsgsIn(out[d]) : Calm(w)
CalmReqs(n) ==
  \E q : Rest(q, req) /\ (req' = q \/ \E out : CalmOut(out) /\ req' = Send(q, n, out))

Handler(s, R, x) ==
  /\ R \in Entries /\ x \in [Txns -> TxType] /\ OthersKept(s)
  /\ \E p : /\ Rest(p, rep)
            /\ \/ \E run : Executes(s, run, R, x) /\ Answers(p, s, run, R, x)
               \/ tx'[s] = x /\ ready_txns'[s] = R /\ rep' = p

(* Outputs and replies to managers are no news about a cross-region transaction. *)
LEMMA CalmOuts ==
  /\ \A s \in Sites : \A run \in SUBSET PieceIds : \A R \in Entries : CalmOut(OutputMsgs(s, run, R))
  /\ \A D : \A w \in ReqMsg : Calm(w) => CalmOut(ToAll(D, w))
  /\ CalmOut(NoMsgs)
  /\ \A a, b : CalmOut(a) /\ CalmOut(b) => CalmOut(Then(a, b))
<1>1. ASSUME NEW s \in Sites, NEW run \in SUBSET PieceIds, NEW R \in Entries PROVE CalmOut(OutputMsgs(s, run, R))
 <2>1. OutputMsgs(s, run, R) \in [Nodes -> Seq(ReqMsg)] BY OutputMsgsType
 <2>2. \A d \in Nodes : \A w \in MsgsIn(OutputMsgs(s, run, R)[d]) : w.type = "SendOutput" BY OutputsSent
 <2> QED BY <2>1, <2>2 DEF CalmOut, Calm
<1>2. ASSUME NEW D, NEW w \in ReqMsg, Calm(w) PROVE CalmOut(ToAll(D, w))
 <2>1. ToAll(D, w) \in [Nodes -> Seq(ReqMsg)] BY OutType
 <2>2. \A d \in Nodes : MsgsIn(ToAll(D, w)[d]) = IF d \in D THEN {w} ELSE {} BY OutMsgs
 <2> QED BY <1>2, <2>1, <2>2 DEF CalmOut
<1>3. CalmOut(NoMsgs)
 <2>1. NoMsgs \in [Nodes -> Seq(ReqMsg)] BY DEF NoMsgs
 <2> QED BY <2>1, OutMsgs DEF CalmOut
<1>4. ASSUME NEW a, NEW b, CalmOut(a), CalmOut(b) PROVE CalmOut(Then(a, b))
 <2>1. a \in [Nodes -> Seq(ReqMsg)] /\ b \in [Nodes -> Seq(ReqMsg)] BY <1>4 DEF CalmOut
 <2>2. Then(a, b) \in [Nodes -> Seq(ReqMsg)] BY <2>1, OutType
 <2>3. \A d \in Nodes : \A m \in MsgsIn(Then(a, b)[d]) : m \in MsgsIn(a[d]) \/ m \in MsgsIn(b[d]) BY <2>1, ThenMsgs
 <2> QED BY <1>4, <2>2, <2>3 DEF CalmOut
<1> QED BY <1>1, <1>2, <1>3, <1>4

(* Running, with the answers. *)
LEMMA Runs1 ==
  ASSUME TypeOK, NEW s \in Sites, NEW R \in Entries, NEW x \in [Txns -> TxType], NEW ni, NEW floors, NEW maxTs,
         NEW run \in SUBSET Runnable(R, x), CheckExecutableTxns(s, run, R, x, ni, floors, maxTs),
         rep' = Send(rep, s, DistExeReplies(s, run, R, x))
  PROVE  /\ Handler(s, R, x) /\ CalmOut(OutputMsgs(s, run, R)) /\ run \in SUBSET PieceIds
         /\ dist_txn_tss'[s] \subseteq floors /\ \A r \in Sites \ {s} : dist_txn_tss'[r] = dist_txn_tss[r]
<1>1. run \in SUBSET PieceIds BY RunnableType
<1>2. Executes(s, run, R, x) /\ Answers(rep, s, run, R, x) BY <1>1, AnswersAlone DEF Executes, Answers
<1>3. tx \in [Sites -> [Txns -> TxType]] /\ ready_txns \in [Sites -> Entries] BY DEF TypeOK
<1>4. OthersKept(s) BY <1>1, <1>3, ExecutionKeeps DEF OthersKept
<1>5. Rest(rep, rep) BY DEF Rest
<1>6. Handler(s, R, x) BY <1>2, <1>4, <1>5 DEF Handler
<1>7. CalmOut(OutputMsgs(s, run, R)) BY <1>1, CalmOuts
<1>8. dist_txn_tss'[s] \subseteq floors /\ \A r \in Sites \ {s} : dist_txn_tss'[r] = dist_txn_tss[r] BY FloorsLeft
<1> QED BY <1>1, <1>6, <1>7, <1>8

(* A handler that executes nothing leaves what it computed. *)
LEMMA RunsNot ==
  ASSUME TypeOK, NEW s \in Sites, NEW R \in Entries, NEW x \in [Txns -> TxType], NEW ni, NEW floors,
         NoExecution(s, R, x, ni, floors), rep' = rep
  PROVE  /\ Handler(s, R, x) /\ tx'[s] = x /\ ready_txns'[s] = R
         /\ dist_txn_tss'[s] \subseteq floors /\ \A r \in Sites \ {s} : dist_txn_tss'[r] = dist_txn_tss[r]
<1>1. tx \in [Sites -> [Txns -> TxType]] /\ ready_txns \in [Sites -> Entries] BY DEF TypeOK
<1>2. tx'[s] = x /\ ready_txns'[s] = R /\ OthersKept(s) BY <1>1, NoExecutionKeeps DEF OthersKept
<1>3. Rest(rep, rep) BY DEF Rest
<1>4. Handler(s, R, x) BY <1>2, <1>3 DEF Handler
<1>5. dist_txn_tss'[s] \subseteq floors /\ \A r \in Sites \ {s} : dist_txn_tss'[r] = dist_txn_tss[r] BY FloorsLeft
<1> QED BY <1>2, <1>4, <1>5

(* HeardLocally in these terms. *)
LEMMA HeardHandler ==
  ASSUME TypeOK, NEW s \in Sites, HeardLocally(s)
  PROVE CalmReqs(s) /\ \E R, x : Local(s, R, x) /\ Handler(s, R, x)
<1>1. PICK R, x :
    /\ Local(s, R, x) /\ R \in Entries /\ x \in [Txns -> TxType]
    /\ \/ \E run, q, p : /\ Executes(s, run, R, x)
                         /\ Rest(q, req) /\ req' = Send(q, s, OutputMsgs(s, run, R))
                         /\ Rest(p, rep) /\ Answers(p, s, run, R, x)
       \/ /\ tx'[s] = x /\ ready_txns'[s] = R /\ OthersKept(s)
          /\ req' = req /\ Rest(rep', rep) BY DEF HeardLocally
<1>2. tx \in [Sites -> [Txns -> TxType]] /\ ready_txns \in [Sites -> Entries] /\ Rest(req, req) BY DEF TypeOK, Rest
<1>3. ASSUME NEW run, NEW q, NEW p, Executes(s, run, R, x), Rest(q, req),
             req' = Send(q, s, OutputMsgs(s, run, R)), Rest(p, rep), Answers(p, s, run, R, x)
      PROVE CalmReqs(s) /\ Handler(s, R, x)
 <2>1. run \in SUBSET PieceIds /\ \E ni, floors, maxTs : CheckExecutableTxns(s, run, R, x, ni, floors, maxTs)
   BY <1>3 DEF Executes
 <2>2. PICK ni, floors, maxTs : CheckExecutableTxns(s, run, R, x, ni, floors, maxTs) BY <2>1
 <2>3. OthersKept(s) BY <1>1, <1>2, <2>1, <2>2, ExecutionKeeps DEF OthersKept
 <2>4. CalmOut(OutputMsgs(s, run, R)) BY <1>1, <2>1, CalmOuts
 <2> QED BY <1>1, <1>3, <2>3, <2>4 DEF CalmReqs, Handler
<1>4. CASE tx'[s] = x /\ ready_txns'[s] = R /\ OthersKept(s) /\ req' = req /\ Rest(rep', rep)
  BY <1>1, <1>2, <1>4 DEF CalmReqs, Handler
<1> QED BY <1>1, <1>3, <1>4
-----
(* The floors of s grow by at most N. *)
FloorsGain(s, N) ==
  /\ dist_txn_tss'[s] \subseteq dist_txn_tss[s] \cup N
  /\ \A r \in Sites \ {s} : dist_txn_tss'[r] = dist_txn_tss[r]

(* Taking a request leaves the rest of its connection. *)
LEMMA TakenRest ==
  ASSUME TypeOK, NEW src \in Sites, NEW dst \in Nodes, NEW type, Receives(src, dst, type)
  PROVE  /\ Rest(Taken(req, <<src, dst>>), req)
         /\ Taken(req, <<src, dst>>) \in [Sites \X Nodes -> Seq(ReqMsg)]
<1>1. req[<<src, dst>>] # <<>> /\ <<src, dst>> \in DOMAIN req BY DEF Receives, TypeOK
<1> QED BY <1>1, ReceivesType DEF Rest

(* OnDistExe of a transaction that s has a record of. *)
LEMMA OnDistExeShape ==
  ASSUME TypeOK, NEW src \in Sites, NEW s \in Sites, OnDistExe(src, s), ReqAt(src, s).txn \in dtxns[s]
  PROVE  LET m == ReqAt(src, s)
             y == tx[s][m.txn]
         IN  /\ Handler(s, PutReady({e \in ready_txns[s] : e.ts # y.ts}, m.ts, m.txn),
                        [tx[s] EXCEPT ![m.txn] = Told(y, s, src, m.ts)])
             /\ CalmReqs(s) /\ FloorsGain(s, {m.ts})
<1> DEFINE m  == ReqAt(src, s)
           t  == m.txn
           y  == tx[s][t]
           R0 == {e \in ready_txns[s] : e.ts # y.ts}
           R  == PutReady(R0, m.ts, t)
           z  == Told(y, s, src, m.ts)
           x  == [tx[s] EXCEPT ![t] = z]
           floors == (dist_txn_tss[s] \ {y.ts}) \cup (IF AllPiecesInputReady(y) THEN {} ELSE {m.ts})
           q  == Taken(req, <<src, s>>)
<1>1. s \in Nodes /\ Receives(src, s, "DistExe") BY Placement DEF OnDistExe
<1>2. m \in ReqMsg /\ m.type = "DistExe" BY <1>1, ReceivesType DEF ReqAt
<1>3. t \in Txns /\ m.ts \in ChrTsType BY <1>2, ReqFields, TsFacts
<1>4. PICK run \in SUBSET Runnable(R, x) :
        /\ CheckExecutableTxns(s, run, R, x, new_input[s], floors, ir_site_max_ts[s])
        /\ req' = Send(q, s, OutputMsgs(s, run, R))
        /\ rep' = Send(rep, s, DistExeReplies(s, run, R, x)) BY DEF OnDistExe, ReqAt, Told
<1>5. Rest(q, req) BY <1>1, TakenRest
<1>6. tx[s] \in [Txns -> TxType] /\ y \in TxType /\ ready_txns[s] \in Entries BY <1>3 DEF TypeOK
<1> HIDE DEF m, q
<1>7. R \in Entries
 <2>1. R0 \in Entries BY <1>6, EntryFacts
 <2> HIDE DEF R0
 <2> QED BY <1>3, <2>1, EntryFacts
<1>8. x \in [Txns -> TxType]
 <2>1. z \in TxType BY <1>3, <1>6, ToldRecord
 <2> HIDE DEF z
 <2> QED BY <1>6, <2>1
<1>9. floors \subseteq dist_txn_tss[s] \cup {m.ts} OBVIOUS
<1> HIDE DEF x, R, floors
<1>10. /\ Handler(s, R, x) /\ CalmOut(OutputMsgs(s, run, R))
       /\ dist_txn_tss'[s] \subseteq floors /\ \A r \in Sites \ {s} : dist_txn_tss'[r] = dist_txn_tss[r]
  BY <1>4, <1>7, <1>8, Runs1
<1>11. CalmReqs(s) BY <1>4, <1>5, <1>10 DEF CalmReqs
<1>12. FloorsGain(s, {m.ts}) BY <1>9, <1>10 DEF FloorsGain
<1> QED BY <1>10, <1>11, <1>12 DEF x, R, m

(* The requests of a decision, before the outputs. *)
DecisionOut(out, s, t) ==
  /\ out \in [Nodes -> Seq(ReqMsg)]
  /\ \A d \in Nodes : \/ out[d] = <<>>
                      \/ \E w : /\ out[d] = <<w>>
                                /\ w.type = "NotiWait" \/ (w.type = "DistExe" /\ w.txn = t)

(* A decision sends one DistExe to each other replica and one NotiWait to each manager. *)
LEMMA DecisionOuts ==
  ASSUME NEW s \in Sites, NEW t \in Txns, NEW y \in TxType
  PROVE  DecisionOut([d \in Nodes |->
           IF d \in (UNION {SitesByPartitionId(p) : p \in Touched(t)}) \ {s}
           THEN <<[type |-> "DistExe", txn |-> t, ts |-> DecisionTs(t, y)]>>
           ELSE IF d \in Managers /\ MgrRegion(d) \in TouchedRegions(t)
           THEN <<NotiWaitMsg(s, t, y, MgrRegion(d))>>
           ELSE <<>>], s, t)
<1> DEFINE sites == (UNION {SitesByPartitionId(p) : p \in Touched(t)}) \ {s}
           exe == [type |-> "DistExe", txn |-> t, ts |-> DecisionTs(t, y)]
           out == [d \in Nodes |->
                     IF d \in sites THEN <<exe>>
                     ELSE IF d \in Managers /\ MgrRegion(d) \in TouchedRegions(t)
                     THEN <<NotiWaitMsg(s, t, y, MgrRegion(d))>> ELSE <<>>]
<1>1. DecisionTs(t, y) \in AnticipatedType BY DecisionType
<1>2. exe \in ReqMsg /\ exe.type = "DistExe" /\ exe.txn = t BY <1>1 DEF ReqMsg
<1>3. \A r \in TouchedRegions(t) : /\ NotiWaitMsg(s, t, y, r) \in ReqMsg
                                   /\ NotiWaitMsg(s, t, y, r).type = "NotiWait" BY NotiWaitFields
<1> HIDE DEF exe, sites
<1>4. \A d \in Nodes : \/ out[d] = <<>>
                       \/ \E w \in ReqMsg : /\ out[d] = <<w>>
                                            /\ w.type = "NotiWait" \/ (w.type = "DistExe" /\ w.txn = t)
 <2> SUFFICES ASSUME NEW d \in Nodes
              PROVE  \/ out[d] = <<>>
                     \/ \E w \in ReqMsg : /\ out[d] = <<w>>
                                          /\ w.type = "NotiWait" \/ (w.type = "DistExe" /\ w.txn = t) OBVIOUS
 <2>1. \/ out[d] = <<exe>>
       \/ MgrRegion(d) \in TouchedRegions(t) /\ out[d] = <<NotiWaitMsg(s, t, y, MgrRegion(d))>>
       \/ out[d] = <<>> OBVIOUS
 <2> HIDE DEF out
 <2> QED BY <1>2, <1>3, <2>1
<1>5. out = [d \in Nodes |-> out[d]] OBVIOUS
<1> HIDE DEF out
<1>6. \A d \in Nodes : out[d] \in Seq(ReqMsg)
 <2>1. <<>> \in Seq(ReqMsg) /\ \A w \in ReqMsg : <<w>> \in Seq(ReqMsg) OBVIOUS
 <2> QED BY <1>4, <2>1
<1>7. out \in [Nodes -> Seq(ReqMsg)] BY <1>5, <1>6
<1>8. DecisionOut(out, s, t) BY <1>4, <1>7 DEF DecisionOut
<1> QED BY <1>8 DEF out, sites, exe

(* The decision of coordinator s. *)
LEMMA DecisionShape ==
  ASSUME TypeOK, NEW s \in Sites, NEW t \in Txns, NEW acked \in TxType, NEW par,
         NEW floors, NEW q, NEW now, Decides(t, acked, par),
         CheckRemotePrepared(s, t, acked, par, floors, q, now)
  PROVE  LET y == WithPrepared(acked, par)
         IN  /\ Handler(s, PutReady(ready_txns[s], DecisionTs(t, y), t), [tx[s] EXCEPT ![t] = Decided(t, y)])
             /\ \E out, more : /\ DecisionOut(out, s, t) /\ CalmOut(more)
                               /\ req' = Send(q, s, Then(out, more))
             /\ dist_txn_tss'[s] \subseteq floors \cup {DecisionTs(t, y)}
             /\ \A r \in Sites \ {s} : dist_txn_tss'[r] = dist_txn_tss[r]
<1> DEFINE y        == WithPrepared(acked, par)
           decision == DecisionTs(t, y)
           floors1  == (floors \ {y.ts}) \cup (IF AllPiecesInputReady(y) THEN {} ELSE {decision})
           z        == Decided(t, y)
           x        == [tx[s] EXCEPT ![t] = z]
           R        == PutReady(ready_txns[s], decision, t)
           out      == [d \in Nodes |->
                         IF d \in (UNION {SitesByPartitionId(p) : p \in Touched(t)}) \ {s}
                         THEN <<[type |-> "DistExe", txn |-> t, ts |-> DecisionTs(t, y)]>>
                         ELSE IF d \in Managers /\ MgrRegion(d) \in TouchedRegions(t)
                         THEN <<NotiWaitMsg(s, t, y, MgrRegion(d))>>
                         ELSE <<>>]
<1>1. PICK run \in SUBSET Runnable(R, x) :
        /\ CheckExecutableTxns(s, run, R, x, new_input[s], floors1, ir_site_max_ts[s])
        /\ req' = Send(q, s, Then(out, OutputMsgs(s, run, R)))
        /\ rep' = Send(rep, s, DistExeReplies(s, run, R, x)) BY DEF CheckRemotePrepared, Decides, Decided
<1>2. y \in TxType /\ z \in TxType BY DecidedRecord
<1>3. tx[s] \in [Txns -> TxType] /\ ready_txns[s] \in Entries BY DEF TypeOK
<1> HIDE DEF y
<1>4. DecisionOut(out, s, t) BY <1>2, DecisionOuts
<1> HIDE DEF out, z
<1>5. x \in [Txns -> TxType] BY <1>2, <1>3
<1>6. R \in Entries
 <2>1. decision \in ChrTsType BY <1>2, DecisionType, TsFacts
 <2> HIDE DEF decision
 <2> QED BY <1>3, <2>1, EntryFacts
<1>7. floors1 \subseteq floors \cup {decision} OBVIOUS
<1> HIDE DEF x, R, floors1
<1>8. /\ Handler(s, R, x) /\ CalmOut(OutputMsgs(s, run, R))
      /\ dist_txn_tss'[s] \subseteq floors1 /\ \A r \in Sites \ {s} : dist_txn_tss'[r] = dist_txn_tss[r]
  BY <1>1, <1>5, <1>6, Runs1
<1>9. \E o, more : DecisionOut(o, s, t) /\ CalmOut(more) /\ req' = Send(q, s, Then(o, more)) BY <1>1, <1>4, <1>8
<1>10. dist_txn_tss'[s] \subseteq floors \cup {decision} BY <1>7, <1>8
<1> QED BY <1>8, <1>9, <1>10 DEF x, R, z, y

(* An acknowledgement that decides nothing. *)
LEMMA NoDecisionShape ==
  ASSUME TypeOK, NEW s \in Sites, NEW t \in Txns, NEW acked \in TxType, NEW par,
         NEW floors, NEW q, NEW now, ~Decides(t, acked, par),
         CheckRemotePrepared(s, t, acked, par, floors, q, now)
  PROVE  /\ Handler(s, ready_txns[s], [tx[s] EXCEPT ![t] = WithPrepared(acked, par)])
         /\ req' = q
         /\ dist_txn_tss'[s] \subseteq floors
         /\ \A r \in Sites \ {s} : dist_txn_tss'[r] = dist_txn_tss[r]
<1> DEFINE y == WithPrepared(acked, par)
           x == [tx[s] EXCEPT ![t] = y]
<1>1. /\ NoExecution(s, ready_txns[s], x, new_input[s], floors)
      /\ req' = q /\ rep' = rep BY DEF CheckRemotePrepared, Decides
<1>2. y \in TxType BY DecidedRecord
<1>3. tx[s] \in [Txns -> TxType] /\ ready_txns[s] \in Entries BY DEF TypeOK
<1> HIDE DEF y
<1>4. x \in [Txns -> TxType] BY <1>2, <1>3
<1> HIDE DEF x
<1>5. /\ Handler(s, ready_txns[s], x)
      /\ dist_txn_tss'[s] \subseteq floors /\ \A r \in Sites \ {s} : dist_txn_tss'[r] = dist_txn_tss[r]
  BY <1>1, <1>3, <1>4, RunsNot
<1> QED BY <1>1, <1>5 DEF x, y

(* OnPrepareCRT at a site other than the coordinator. *)
FreshReplica(m, s) ==
  [FreshTx EXCEPT !.ts = m.ts, !.region_handler = m.leader, !.role = "crtReplica",
                  !.pieces = PiecesAt(m.txn, ParOf(s)), !.input_ready = m.input_ready]
Restated(y, m) == [y EXCEPT !.input_ready = IF @ = 1 THEN m.input_ready ELSE @]

(* The three ways in which OnPrepareCRT goes: the coordinator counts itself, the
   transaction is known, or the replica stores its pieces. *)
LEMMA OnPrepareCRTShape ==
  ASSUME TypeOK, NEW src \in Sites, NEW s \in Sites, NEW now \in PhysTimes, OnPrepareCRT(src, s, now)
  PROVE  LET m == ReqAt(src, s)
             t == m.txn
             q == Taken(req, <<src, s>>)
         IN  \/ /\ t \in dtxns[s] /\ tx[s][t].phase = DIST_REMOTE_SENT /\ dtxns' = dtxns
                /\ CheckRemotePrepared(s, t, OwnAck(tx[s][t], s, m.ts), ParOf(s),
                                       dist_txn_tss[s] \cup {m.ts}, q, now)
             \/ /\ t \in dtxns[s] /\ tx[s][t].phase # DIST_REMOTE_SENT /\ dtxns' = dtxns
                /\ Handler(s, ready_txns[s], [tx[s] EXCEPT ![t] = Restated(tx[s][t], m)])
                /\ req' = q /\ dist_txn_tss' = dist_txn_tss
             \/ /\ t \notin dtxns[s] /\ dtxns' = [dtxns EXCEPT ![s] = @ \cup {t}]
                /\ Handler(s, PutReady(ready_txns[s], m.ts, t), [tx[s] EXCEPT ![t] = FreshReplica(m, s)])
                /\ FloorsGain(s, {m.ts})
                /\ \E out : CalmOut(out) /\ req' = Send(q, s, out)
<1> DEFINE m == ReqAt(src, s)
           t == m.txn
           y == tx[s][t]
           q == Taken(req, <<src, s>>)
           w == [type |-> "RemotePrepared", txn |-> t, ts |-> m.ts, leads |-> m.leader = s]
           x2 == [tx[s] EXCEPT ![t] = Restated(y, m)]
           R3 == PutReady(ready_txns[s], m.ts, t)
           x3 == [tx[s] EXCEPT ![t] = FreshReplica(m, s)]
<1>1. s \in Nodes /\ Receives(src, s, "PrepareCRT") BY Placement DEF OnPrepareCRT
<1>2. m \in ReqMsg /\ m.type = "PrepareCRT" BY <1>1, ReceivesType DEF ReqAt
<1>3. /\ t \in Txns /\ m.ts \in ChrTsType /\ m.ts \in AnticipatedType /\ m.leader \in Sites
      /\ m.input_ready \in 0..1 BY <1>2, TsFacts DEF ReqMsg
<1>4. /\ tx[s] \in [Txns -> TxType] /\ y \in TxType /\ ready_txns[s] \in Entries
      /\ tx \in [Sites -> [Txns -> TxType]] BY <1>3 DEF TypeOK
<1>5. \/ /\ t \in dtxns[s] /\ y.phase = DIST_REMOTE_SENT
         /\ CheckRemotePrepared(s, t, OwnAck(y, s, m.ts), ParOf(s), dist_txn_tss[s] \cup {m.ts}, q, now)
         /\ UNCHANGED dtxns
      \/ /\ t \in dtxns[s] /\ y.phase # DIST_REMOTE_SENT
         /\ tx' = [tx EXCEPT ![s][t] = Restated(y, m)]
         /\ req' = q
         /\ UNCHANGED <<last_clock, dist_txn_tss, dtxns, ready_txns, distributed_txns_by_me,
                        new_input, replied, order, rep>>
      \/ /\ t \notin dtxns[s]
         /\ dtxns' = [dtxns EXCEPT ![s] = @ \cup {t}]
         /\ NoExecution(s, R3, x3, new_input[s], dist_txn_tss[s] \cup {m.ts})
         /\ req' = Send(q, s, ToAll({m.coord}, w))
         /\ UNCHANGED <<last_clock, rep>> BY DEF OnPrepareCRT, ReqAt, OwnAck, Restated, FreshReplica
<1>6. CASE /\ t \in dtxns[s] /\ y.phase # DIST_REMOTE_SENT
           /\ tx' = [tx EXCEPT ![s][t] = Restated(y, m)]
           /\ req' = q
           /\ UNCHANGED <<last_clock, dist_txn_tss, dtxns, ready_txns, distributed_txns_by_me,
                          new_input, replied, order, rep>>
 <2> DEFINE z == Restated(y, m)
 <2>1. z \in TxType
  <3> DEFINE i == IF y.input_ready = 1 THEN m.input_ready ELSE y.input_ready
  <3>1. i \in InputReadyType BY <1>3, <1>4 DEF TxType, InputReadyType
  <3>2. z = [y EXCEPT !.input_ready = i] BY <1>4 DEF Restated, TxType
  <3> HIDE DEF i, z, y
  <3> QED BY <1>4, <3>1, <3>2 DEF TxType
 <2> HIDE DEF z
 <2>2. tx'[s] = x2 /\ x2 \in [Txns -> TxType] /\ OthersKept(s) /\ ready_txns'[s] = ready_txns[s]
   BY <1>3, <1>4, <1>6, <2>1 DEF OthersKept, z
 <2>3. Rest(rep, rep) /\ rep' = rep BY <1>6 DEF Rest
 <2>4. Handler(s, ready_txns[s], x2) BY <1>4, <2>2, <2>3 DEF Handler
 <2> QED BY <1>6, <2>4
<1>7. CASE /\ t \notin dtxns[s]
           /\ dtxns' = [dtxns EXCEPT ![s] = @ \cup {t}]
           /\ NoExecution(s, R3, x3, new_input[s], dist_txn_tss[s] \cup {m.ts})
           /\ req' = Send(q, s, ToAll({m.coord}, w))
           /\ UNCHANGED <<last_clock, rep>>
 <2>1. w \in ReqMsg /\ Calm(w) BY <1>3 DEF ReqMsg, Calm
 <2>2. FreshReplica(m, s) \in TxType
  <3>1. PiecesAt(t, ParOf(s)) \in SUBSET PieceIds /\ m.leader \in Nodes BY <1>3, PieceFacts, Placement
  <3>2. m.input_ready \in InputReadyType BY <1>3 DEF InputReadyType
  <3> HIDE DEF m
  <3> QED BY <1>3, <3>1, <3>2, FreshTxType DEF TxType, FreshReplica, Roles
 <2>3. R3 \in Entries BY <1>3, <1>4, EntryFacts
 <2> HIDE DEF R3, w, m
 <2>4. x3 \in [Txns -> TxType] BY <1>4, <2>2
 <2> HIDE DEF x3
 <2>5. /\ Handler(s, R3, x3) /\ dist_txn_tss'[s] \subseteq dist_txn_tss[s] \cup {m.ts}
       /\ \A r \in Sites \ {s} : dist_txn_tss'[r] = dist_txn_tss[r] BY <1>7, <2>3, <2>4, RunsNot
 <2>6. CalmOut(ToAll({m.coord}, w)) BY <2>1, CalmOuts
 <2> QED BY <1>7, <2>5, <2>6 DEF FloorsGain, x3, R3, m
<1> QED BY <1>5, <1>6, <1>7

(* What CrtInv says of a record reads only these fields. *)
SameCrt(y, z) ==
  /\ z.ts = y.ts /\ z.phase = y.phase /\ z.role = y.role /\ z.region_handler = y.region_handler
  /\ z.pieces = y.pieces /\ z.done = y.done /\ z.owes = y.owes /\ z.acks = y.acks
  /\ z.mgr_acked = y.mgr_acked /\ z.status = y.status

(* An output that arrives completes inputs; it changes no role, phase or timestamp. *)
LEMMA OnSendOutputShape ==
  ASSUME TypeOK, NEW src \in Sites, NEW s \in Sites, OnSendOutput(src, s)
  PROVE  /\ CalmReqs(s) /\ FloorsGain(s, {})
         /\ \E x : /\ Handler(s, ready_txns[s], x)
                   /\ \A u \in Txns : SameCrt(tx[s][u], x[u])
<1> DEFINE m == ReqAt(src, s)
           t == m.txn
           w == [type |-> "NotiWait", txn |-> t, orig |-> tx[s][t].ts,
                 wait |-> FALSE, new |-> ZeroTs, touched |-> {}]
           out(irt) == IF irt THEN NoMsgs ELSE ToAll({MgrOf(SiteRegion(s))}, w)
           q == Taken(req, <<src, s>>)
           x1  == [tx[s] EXCEPT ![t] = [@ EXCEPT !.input_ready = 2]]
           x2  == [x1 EXCEPT ![t] = Merge(x1[t], m.vars)]
           R   == ready_txns[s]
           irts == {b \in BOOLEAN : tx[s][t].role # "unset" =>
                           (b <=> tx[s][t].role \in {"irtHandler", "irtReplica"})}
           floors(irt) == IF irt THEN dist_txn_tss[s] ELSE dist_txn_tss[s] \ {tx[s][t].ts}
           Case(irt) == IF MoreToRun(x1[t], m.vars) /\ x1[t].phase >= LOCAL_CAN_EXE
                 THEN \E run \in SUBSET Runnable(R, x2) :
                        /\ CheckExecutableTxns(s, run, R, x2, TRUE, floors(irt), ir_site_max_ts[s])
                        /\ req' = Send(q, s, Then(out(irt), OutputMsgs(s, run, R)))
                        /\ rep' = Send(rep, s, DistExeReplies(s, run, R, x2))
                 ELSE /\ NoExecution(s, R, x2, TRUE, floors(irt))
                      /\ req' = Send(q, s, out(irt))
                      /\ UNCHANGED rep
<1>1. s \in Nodes /\ Receives(src, s, "SendOutput") BY Placement DEF OnSendOutput
<1>2. m \in ReqMsg /\ m.type = "SendOutput" BY <1>1, ReceivesType DEF ReqAt
<1>3. t \in Txns /\ m.vars \in SUBSET Vars BY <1>2, ReqFields
<1>4. \/ req' = q /\ UNCHANGED <<dist_txn_tss, execVars, rep>>
      \/ \E irt \in irts : Case(irt) BY DEF OnSendOutput, ReqAt
<1>5. Rest(q, req) /\ Rest(rep, rep) BY <1>1, TakenRest DEF Rest
<1>6. /\ tx[s] \in [Txns -> TxType] /\ tx[s][t] \in TxType /\ R \in Entries BY <1>3 DEF TypeOK
<1>7. w \in ReqMsg /\ Calm(w) BY <1>3, <1>6, TsFacts DEF ReqMsg, TxType, Calm
<1>8. x2 \in [Txns -> TxType] /\ \A u \in Txns : SameCrt(tx[s][u], x2[u])
 <2> DEFINE y == [tx[s][t] EXCEPT !.input_ready = 2]
            z == Merge(y, m.vars)
 <2>1. y \in TxType /\ SameCrt(tx[s][t], y) BY <1>6 DEF TxType, SameCrt, InputReadyType
 <2> HIDE DEF y, m
 <2>2. z \in TxType /\ SameCrt(y, z) BY <1>3, <2>1, MergeType DEF SameCrt, Merge, TxType
 <2>3. x1 = [tx[s] EXCEPT ![t] = y] /\ x1[t] = y BY <1>3, <1>6 DEF y
 <2>4. x2 = [tx[s] EXCEPT ![t] = z] BY <1>3, <1>6, <2>3
 <2> HIDE DEF x1, x2, z
 <2>5. SameCrt(tx[s][t], z) BY <2>1, <2>2 DEF SameCrt
 <2>6. \A u \in Txns : u # t => x2[u] = tx[s][u] BY <1>3, <1>6, <2>4
 <2>7. x2[t] = z /\ x2 \in [Txns -> TxType] BY <1>3, <1>6, <2>2, <2>4
 <2>8. \A v : SameCrt(v, v) BY DEF SameCrt
 <2> QED BY <2>5, <2>6, <2>7, <2>8
<1> HIDE DEF w, q, m, x1, x2, irts
<1>9. \A irt : CalmOut(out(irt)) /\ floors(irt) \subseteq dist_txn_tss[s] BY <1>7, CalmOuts
<1> HIDE DEF out, floors
<1>10. CASE req' = q /\ UNCHANGED <<dist_txn_tss, execVars, rep>>
 <2>1. Handler(s, R, tx[s]) BY <1>5, <1>6, <1>10 DEF Handler, execVars, OthersKept
 <2>2. CalmReqs(s) /\ FloorsGain(s, {}) BY <1>5, <1>10 DEF CalmReqs, FloorsGain
 <2> QED BY <2>1, <2>2 DEF SameCrt
<1>11. ASSUME NEW irt, Case(irt) PROVE CalmReqs(s) /\ FloorsGain(s, {}) /\ Handler(s, R, x2)
 <2>1. ASSUME NEW run \in SUBSET Runnable(R, x2),
              CheckExecutableTxns(s, run, R, x2, TRUE, floors(irt), ir_site_max_ts[s]),
              req' = Send(q, s, Then(out(irt), OutputMsgs(s, run, R))),
              rep' = Send(rep, s, DistExeReplies(s, run, R, x2))
       PROVE CalmReqs(s) /\ FloorsGain(s, {}) /\ Handler(s, R, x2)
  <3>1. /\ Handler(s, R, x2) /\ CalmOut(OutputMsgs(s, run, R))
        /\ dist_txn_tss'[s] \subseteq floors(irt) /\ \A r \in Sites \ {s} : dist_txn_tss'[r] = dist_txn_tss[r]
    BY <1>6, <1>8, <2>1, Runs1
  <3>2. CalmOut(Then(out(irt), OutputMsgs(s, run, R))) BY <1>9, <3>1, CalmOuts
  <3>3. CalmReqs(s) BY <1>5, <2>1, <3>2 DEF CalmReqs
  <3>4. FloorsGain(s, {}) BY <1>9, <3>1 DEF FloorsGain
  <3> QED BY <3>1, <3>3, <3>4
 <2>2. CASE NoExecution(s, R, x2, TRUE, floors(irt)) /\ req' = Send(q, s, out(irt)) /\ rep' = rep
  <3>1. /\ Handler(s, R, x2)
        /\ dist_txn_tss'[s] \subseteq floors(irt) /\ \A r \in Sites \ {s} : dist_txn_tss'[r] = dist_txn_tss[r]
    BY <1>6, <1>8, <2>2, RunsNot
  <3>2. CalmReqs(s) BY <1>5, <1>9, <2>2 DEF CalmReqs
  <3>3. FloorsGain(s, {}) BY <1>9, <3>1 DEF FloorsGain
  <3> QED BY <3>1, <3>2, <3>3
 <2> QED BY <1>11, <2>1, <2>2
<1> HIDE DEF Case
<1> QED BY <1>4, <1>8, <1>10, <1>11
-----
(* Requests that order nothing.  HandleIRT, IRSyncLoop and OnSubmitCRT. *)
LEMMA LocalCalm ==
  ASSUME TypeOK, NEW now \in PhysTimes
  PROVE  /\ \A s \in Sites, t \in Txns : \A skips \in Nat : HandleIRT(s, t, now, skips) => CalmReqs(s)
         /\ \A n \in Nodes : IRSyncLoop(n, now) => CalmReqs(n)
         /\ \A s \in Sites, t \in Txns : OnSubmitCRT(s, t, now) => CalmReqs(s)
<1>0. Rest(req, req) BY DEF Rest
<1>1. ASSUME NEW s \in Sites, NEW t \in Txns, NEW skips \in Nat, HandleIRT(s, t, now, skips) PROVE CalmReqs(s)
 <2> DEFINE ts   == After(Generate(s, now, dist_txn_tss[s]), skips)
            mine == my_txns[s] \cup {[ts |-> ts, id |-> t]}
            targets == (UNION {SitesByPartitionId(par) : par \in Touched(t)}) \ {s}
            msg(d) == [type |-> "PrepareIRT", txn |-> t, ts |-> ts, delivered |-> ZeroTs,
                       noti |-> CollectNotifyTxns(s, d, mine, ir_site_notified_ts[s][d])]
            out  == [d \in Nodes |-> IF d \in targets THEN <<msg(d)>> ELSE <<>>]
 <2>1. req' = Send(req, s, out) BY <1>1 DEF HandleIRT
 <2>2. ts \in ChrTsType
  <3>1. s \in Nodes BY Placement
  <3>2. dist_txn_tss[s] \in Floors /\ skips \in Int BY <3>1 DEF TypeOK
  <3>3. Generate(s, now, dist_txn_tss[s]) \in ChrTsType BY <3>1, <3>2, GenerateType DEF TypeOK
  <3> QED BY <3>2, <3>3, AfterType
 <2> HIDE DEF ts, targets
 <2>3. mine \in Entries
  <3>1. my_txns[s] \in Entries BY DEF TypeOK
  <3>2. {[ts |-> ts, id |-> t]} \in Entries BY <2>2, <3>1, EntryFacts
  <3> QED BY <3>1, <3>2, EntryFacts
 <2> HIDE DEF mine
 <2>4. ASSUME NEW d \in Nodes PROVE msg(d) \in ReqMsg /\ Calm(msg(d))
  <3>1. CollectNotifyTxns(s, d, mine, ir_site_notified_ts[s][d]) \in Entries BY <2>3, CollectType
  <3>2. msg(d) \in ReqMsg BY <2>2, <3>1, TsFacts DEF ReqMsg
  <3> QED BY <3>2 DEF Calm
 <2> HIDE DEF msg
 <2>5. \A d \in Nodes : out[d] = <<>> \/ out[d] = <<msg(d)>> OBVIOUS
 <2>6. out \in [Nodes -> Seq(ReqMsg)] BY <2>4
 <2> HIDE DEF out
 <2>7. CalmOut(out)
  <3>0. MsgsIn(<<>>) = {} /\ \A w : MsgsIn(<<w>>) = {w} BY OutMsgs
  <3>1. ASSUME NEW d \in Nodes PROVE MsgsIn(out[d]) \subseteq {msg(d)}
   <4>1. CASE out[d] = <<>> BY <3>0, <4>1
   <4>2. CASE out[d] = <<msg(d)>> BY <3>0, <4>2
   <4> QED BY <2>5, <4>1, <4>2
  <3> QED BY <2>4, <2>6, <3>1 DEF CalmOut
 <2> QED BY <1>0, <2>1, <2>7 DEF CalmReqs
<1>2. ASSUME NEW n \in Nodes, IRSyncLoop(n, now) PROVE CalmReqs(n)
 <2> DEFINE targets == IF n \in Sites THEN Peers(n) \ ir_synced[n]
                     ELSE SitesInRegion(MgrRegion(n)) \ {MgrHost(n)}
          first   == Generate(n, now, dist_txn_tss[n])
          count(d) == Cardinality({c \in targets : c < d})
          tsOf(d) == ChrTsOf(first.time, first.stretch + count(d), first.site)
          msg(d)  == [type |-> "IRSync", from |-> n, ts |-> tsOf(d),
                      delivered |-> IF n \in Sites THEN ir_site_max_ts[n][d] ELSE ZeroTs,
                      noti |-> IF n \in Sites THEN CollectNotifyTxns(n, d, my_txns[n], ir_site_notified_ts[n][d])
                                              ELSE {}]
          out     == [d \in Nodes |-> IF d \in targets THEN <<msg(d)>> ELSE <<>>]
 <2>1. req' = Send(req, n, out) BY <1>2 DEF IRSyncLoop
 <2>2. first \in ChrTsType
  <3>1. dist_txn_tss[n] \in Floors BY DEF TypeOK
  <3> QED BY <3>1, GenerateType DEF TypeOK
 <2>3. \A d : count(d) \in Nat
  <3>1. targets \subseteq Sites BY DEF Peers, SitesInRegion
  <3>2. IsFiniteSet(Sites)
   <4>1. NRegions * NShards * NReplicas - 1 \in Int BY SizesAssumption
   <4> QED BY <4>1, FS_Interval DEF Sites
  <3> HIDE DEF targets
  <3>3. \A d : {c \in targets : c < d} \in SUBSET Sites BY <3>1
  <3> QED BY <3>1, <3>2, <3>3, FS_Subset, FS_CardinalityType
 <2> HIDE DEF first, targets, count
 <2>4. \A d : tsOf(d) \in ChrTsType BY <2>2, <2>3 DEF ChrTsOf, ChrTsType
 <2> HIDE DEF tsOf
 <2>5. ASSUME NEW d \in Nodes PROVE msg(d) \in ReqMsg /\ Calm(msg(d))
  <3>1. (IF n \in Sites THEN ir_site_max_ts[n][d] ELSE ZeroTs) \in ChrTsType BY TsFacts DEF TypeOK
  <3>2. (IF n \in Sites THEN CollectNotifyTxns(n, d, my_txns[n], ir_site_notified_ts[n][d])
                        ELSE {}) \in Entries BY CollectType, FS_EmptySet DEF TypeOK, Entries
  <3>3. msg(d) \in ReqMsg BY <2>4, <3>1, <3>2 DEF ReqMsg
  <3> QED BY <3>3 DEF Calm
 <2> HIDE DEF msg
 <2>6. \A d \in Nodes : out[d] = <<>> \/ out[d] = <<msg(d)>> OBVIOUS
 <2>7. out \in [Nodes -> Seq(ReqMsg)] BY <2>5
 <2> HIDE DEF out
 <2>8. CalmOut(out)
  <3>0. MsgsIn(<<>>) = {} /\ \A w : MsgsIn(<<w>>) = {w} BY OutMsgs
  <3>1. ASSUME NEW d \in Nodes PROVE MsgsIn(out[d]) \subseteq {msg(d)}
   <4>1. CASE out[d] = <<>> BY <3>0, <4>1
   <4>2. CASE out[d] = <<msg(d)>> BY <3>0, <4>2
   <4> QED BY <2>6, <4>1, <4>2
  <3> QED BY <2>5, <2>7, <3>1 DEF CalmOut
 <2> QED BY <1>0, <2>1, <2>8 DEF CalmReqs
<1>3. ASSUME NEW s \in Sites, NEW t \in Txns, OnSubmitCRT(s, t, now) PROVE CalmReqs(s)
 <2> DEFINE ts == Generate(s, now, dist_txn_tss[s])
            D  == {MgrOf(r) : r \in TouchedRegions(t)}
            w  == [type |-> "PrepareRemote", txn |-> t, ts |-> ts, wait |-> WaitsForInput(t)]
 <2>1. req' = Send(req, s, ToAll(D, w)) BY <1>3 DEF OnSubmitCRT
 <2>2. ts \in ChrTsType
  <3>1. s \in Nodes BY Placement
  <3>2. dist_txn_tss[s] \in Floors BY <3>1 DEF TypeOK
  <3> QED BY <3>1, <3>2, GenerateType DEF TypeOK
 <2> HIDE DEF ts
 <2>3. w \in ReqMsg /\ Calm(w)
  <3>1. WaitsForInput(t) \in BOOLEAN BY DEF WaitsForInput
  <3>2. w \in ReqMsg BY <2>2, <3>1 DEF ReqMsg
  <3> QED BY <3>2 DEF Calm
 <2> HIDE DEF w, D
 <2> QED BY <1>0, <2>1, <2>3, CalmOuts DEF CalmReqs
<1> QED BY <1>1, <1>2, <1>3

(* The managers' other handlers, and those that send nothing. *)
LEMMA NotiCalm ==
  ASSUME TypeOK, NEW src \in Sites
  PROVE  /\ \A mgr \in Managers : NotiWait(src, mgr) => CalmReqs(mgr)
         /\ \A mgr \in Managers : MgrFinish(mgr) => CalmReqs(mgr)
         /\ \A s \in Sites : OnNotiCRT(src, s) \/ OnNotiCommit(src, s) \/ DistExeAck(src, s) => CalmReqs(s)
<1>0. Rest(req, req) /\ \A mgr \in Managers : mgr \in Nodes /\ \A s \in Sites : s \in Nodes BY Placement DEF Rest
<1>1. ASSUME NEW mgr \in Managers, NotiWait(src, mgr) PROVE CalmReqs(mgr)
 <2> DEFINE m == ReqAt(src, mgr)
            w == [m EXCEPT !.type = "NotiCommit"]
            D == SitesInRegion(MgrRegion(mgr)) \ m.touched
 <2>1. req' = Send(Taken(req, <<src, mgr>>), mgr, ToAll(D, w)) /\ Receives(src, mgr, "NotiWait")
   BY <1>1 DEF NotiWait, ReqAt
 <2>2. m \in ReqMsg /\ m.type = "NotiWait" BY <1>0, <2>1, ReceivesType DEF ReqAt
 <2> HIDE DEF m
 <2>3. w \in ReqMsg /\ Calm(w)
  <3>1. m \in [type : {"NotiWait", "NotiCommit"}, txn : Txns, orig : ChrTsType, wait : BOOLEAN,
               new : AnticipatedType, touched : SUBSET Sites] BY <2>2 DEF ReqMsg
  <3>2. w \in ReqMsg BY <3>1 DEF ReqMsg
  <3> QED BY <3>1, <3>2 DEF Calm
 <2> HIDE DEF w, D
 <2> QED BY <1>0, <2>1, <2>3, CalmOuts, TakenRest DEF CalmReqs
<1>2. ASSUME NEW mgr \in Managers, MgrFinish(mgr) PROVE CalmReqs(mgr) BY <1>0, <1>2 DEF MgrFinish, CalmReqs
<1>3. ASSUME NEW s \in Sites, OnNotiCRT(src, s) \/ OnNotiCommit(src, s) \/ DistExeAck(src, s) PROVE CalmReqs(s)
 <2>1. s \in Nodes BY Placement
 <2>2. CASE DistExeAck(src, s) BY <1>0, <2>2 DEF DistExeAck, CalmReqs
 <2>3. CASE OnNotiCRT(src, s)
  <3>1. req' = Taken(req, <<src, s>>) /\ Receives(src, s, "NotiCRT") BY <2>3 DEF OnNotiCRT
  <3> QED BY <2>1, <3>1, TakenRest DEF CalmReqs
 <2>4. CASE OnNotiCommit(src, s)
  <3>1. req' = Taken(req, <<src, s>>) /\ Receives(src, s, "NotiCommit") BY <2>4 DEF OnNotiCommit
  <3> QED BY <2>1, <3>1, TakenRest DEF CalmReqs
 <2> QED BY <1>3, <2>2, <2>3, <2>4
<1> QED BY <1>1, <1>2, <1>3
-----
(* The order on a connection, as messages are taken and appended. *)
LEMMA TidyTail ==
  ASSUME NEW a \in Seq(ReqMsg), Tidy(a), a # <<>>
  PROVE  /\ Tidy(Tail(a)) /\ Tail(a) \in Seq(ReqMsg)
         /\ \A w \in MsgsIn(Tail(a)) : w \in MsgsIn(a) /\ ~Clash(Head(a), w)
<1>1. /\ Len(a) \in Nat /\ Len(a) >= 1 /\ Head(a) = a[1]
      /\ Tail(a) \in Seq(ReqMsg) /\ Len(Tail(a)) = Len(a) - 1
      /\ \A i \in 1 .. Len(Tail(a)) : Tail(a)[i] = a[i + 1] /\ i + 1 \in 1 .. Len(a) OBVIOUS
<1> DEFINE b == Tail(a)
           n == Len(a)
<1>2. /\ n \in Nat /\ n >= 1 /\ Head(a) = a[1] /\ Len(b) = n - 1 /\ b \in Seq(ReqMsg)
      /\ \A i \in 1 .. Len(b) : b[i] = a[i + 1] /\ i + 1 \in 1 .. n
      /\ \A i, j \in 1 .. n : i < j => ~Clash(a[i], a[j]) BY <1>1 DEF Tidy
<1>3. MsgsIn(b) = {b[i] : i \in 1 .. Len(b)} /\ MsgsIn(a) = {a[i] : i \in 1 .. n} BY DEF MsgsIn
<1> HIDE DEF b, n
<1>4. Tidy(b)
 <2> SUFFICES ASSUME NEW i \in 1 .. Len(b), NEW j \in 1 .. Len(b), i < j PROVE ~Clash(b[i], b[j]) BY DEF Tidy
 <2>1. i + 1 < j + 1 /\ i + 1 \in 1 .. n /\ j + 1 \in 1 .. n BY <1>2
 <2>2. b[i] = a[i + 1] /\ b[j] = a[j + 1] BY <1>2
 <2> QED BY <1>2, <2>1, <2>2
<1>5. ASSUME NEW w \in MsgsIn(b) PROVE w \in MsgsIn(a) /\ ~Clash(Head(a), w)
 <2>1. PICK i \in 1 .. Len(b) : w = b[i] BY <1>3
 <2>2. i + 1 \in 1 .. n /\ 1 \in 1 .. n /\ 1 < i + 1 /\ w = a[i + 1] BY <1>2, <2>1
 <2> QED BY <1>2, <1>3, <2>2
<1> QED BY <1>2, <1>4, <1>5 DEF b

(* Tidy connections go on tidily if nothing new clashes with what is there. *)
LEMMA TidyMore ==
  ASSUME NEW a \in Seq(ReqMsg), Tidy(a), NEW b \in Seq(ReqMsg), Tidy(b),
         \A v \in MsgsIn(a), w \in MsgsIn(b) : ~Clash(v, w)
  PROVE Tidy(a \o b)
<1> DEFINE q == a \o b
           n == Len(a)
           k == Len(b)
<1>1. /\ n \in Nat /\ k \in Nat /\ Len(q) = n + k
      /\ \A i \in 1 .. n : q[i] = a[i]
      /\ \A i \in 1 .. (n + k) : i \notin 1 .. n => i - n \in 1 .. k /\ q[i] = b[i - n] OBVIOUS
<1>2. /\ \A i, j \in 1 .. n : i < j => ~Clash(a[i], a[j])
      /\ \A i, j \in 1 .. k : i < j => ~Clash(b[i], b[j]) BY DEF Tidy
<1>3. \A i \in 1 .. n, j \in 1 .. k : ~Clash(a[i], b[j]) BY DEF MsgsIn
<1> HIDE DEF q, n, k
<1>4. ASSUME NEW i \in 1 .. (n + k), NEW j \in 1 .. (n + k), i < j PROVE ~Clash(q[i], q[j])
 <2>1. CASE j \in 1 .. n
  <3>1. i \in 1 .. n BY <1>1, <1>4, <2>1
  <3> QED BY <1>1, <1>2, <1>4, <2>1, <3>1
 <2>2. CASE i \in 1 .. n /\ j \notin 1 .. n
  <3>1. j - n \in 1 .. k /\ q[j] = b[j - n] /\ q[i] = a[i] BY <1>1, <2>2
  <3> QED BY <1>3, <2>2, <3>1
 <2>3. CASE i \notin 1 .. n /\ j \notin 1 .. n
  <3>1. /\ j - n \in 1 .. k /\ q[j] = b[j - n] /\ i - n \in 1 .. k /\ q[i] = b[i - n]
        /\ i - n < j - n BY <1>1, <1>4, <2>3
  <3> QED BY <1>2, <3>1
 <2> QED BY <1>1, <1>4, <2>1, <2>2, <2>3
<1> QED BY <1>1, <1>4 DEF Tidy, q

(* Calm requests clash with nothing. *)
LEMMA CalmTidies ==
  /\ \A v, w : Calm(w) => ~Clash(v, w)
  /\ \A b \in Seq(ReqMsg) : (\A w \in MsgsIn(b) : Calm(w)) => Tidy(b)
  /\ \A w : Tidy(<<w>>)
<1>1. \A v, w : Calm(w) => ~Clash(v, w) BY DEF Calm, Clash
<1>2. ASSUME NEW b \in Seq(ReqMsg), \A w \in MsgsIn(b) : Calm(w) PROVE Tidy(b) BY <1>1, <1>2 DEF Tidy, MsgsIn
<1>3. \A w : Tidy(<<w>>) BY DEF Tidy
<1> QED BY <1>1, <1>2, <1>3

(* Every connection of q is tidy. *)
AllTidy(q) == \A c \in Sites \X Nodes : Tidy(q[c])

(* Taking a message leaves nothing that it clashes with. *)
LEMMA TidyTaken ==
  ASSUME NEW q \in [Sites \X Nodes -> Seq(ReqMsg)], AllTidy(q), NEW k \in Sites \X Nodes, q[k] # <<>>
  PROVE  /\ AllTidy(Taken(q, k)) /\ Taken(q, k) \in [Sites \X Nodes -> Seq(ReqMsg)]
         /\ \A w \in MsgsIn(Taken(q, k)[k]) : ~Clash(Head(q[k]), w)
<1>1. q[k] \in Seq(ReqMsg) /\ Tidy(q[k]) BY DEF AllTidy
<1>2. /\ Tidy(Tail(q[k])) /\ Tail(q[k]) \in Seq(ReqMsg)
      /\ \A w \in MsgsIn(Tail(q[k])) : ~Clash(Head(q[k]), w) BY <1>1, TidyTail
<1>3. \A c \in Sites \X Nodes : Taken(q, k)[c] = IF c = k THEN Tail(q[k]) ELSE q[c] BY DEF Taken
<1>4. Taken(q, k) \in [Sites \X Nodes -> Seq(ReqMsg)] BY <1>2 DEF Taken
<1> QED BY <1>2, <1>3, <1>4 DEF AllTidy

(* Sending what clashes with nothing. *)
LEMMA TidySent ==
  ASSUME NEW q \in [Sites \X Nodes -> Seq(ReqMsg)], AllTidy(q), NEW n, NEW out \in [Nodes -> Seq(ReqMsg)],
         \A d \in Nodes : Tidy(out[d]),
         \A a \in Sites, d \in Nodes : a = Proc(n) =>
           \A v \in MsgsIn(q[<<a, d>>]), w \in MsgsIn(out[d]) : ~Clash(v, w)
  PROVE AllTidy(Send(q, n, out))
<1> SUFFICES ASSUME NEW c \in Sites \X Nodes PROVE Tidy(Send(q, n, out)[c]) BY DEF AllTidy
<1>1. PICK a \in Sites, d \in Nodes : c = <<a, d>> OBVIOUS
<1>2. Send(q, n, out)[c] = IF a = Proc(n) THEN q[c] \o out[d] ELSE q[c] BY <1>1 DEF Send
<1>3. q[c] \in Seq(ReqMsg) /\ Tidy(q[c]) /\ out[d] \in Seq(ReqMsg) /\ Tidy(out[d]) BY DEF AllTidy
<1>4. CASE a = Proc(n)
 <2>1. \A v \in MsgsIn(q[c]), w \in MsgsIn(out[d]) : ~Clash(v, w) BY <1>1, <1>4
 <2>2. Tidy(q[c] \o out[d]) BY <1>3, <2>1, TidyMore
 <2> QED BY <1>2, <1>4, <2>2
<1> QED BY <1>2, <1>3, <1>4

(* Sending calm requests keeps every connection tidy. *)
LEMMA CalmSent ==
  ASSUME NEW q \in [Sites \X Nodes -> Seq(ReqMsg)], AllTidy(q), NEW n, NEW out, CalmOut(out)
  PROVE AllTidy(Send(q, n, out))
<1>1. out \in [Nodes -> Seq(ReqMsg)] /\ \A d \in Nodes : \A w \in MsgsIn(out[d]) : Calm(w) BY DEF CalmOut
<1>2. \A d \in Nodes : Tidy(out[d]) BY <1>1, CalmTidies
<1>3. \A d \in Nodes : \A v, w : w \in MsgsIn(out[d]) => ~Clash(v, w) BY <1>1, CalmTidies
<1> QED BY <1>1, <1>2, <1>3, TidySent

(* So does a step that sends nothing else. *)
LEMMA CalmTidy ==
  ASSUME TypeOK, AllTidy(req), NEW n, CalmReqs(n)
  PROVE AllTidy(req')
<1>1. req \in [Sites \X Nodes -> Seq(ReqMsg)] /\ DOMAIN req = Sites \X Nodes BY DEF TypeOK
<1>2. PICK q : Rest(q, req) /\ (req' = q \/ \E out : CalmOut(out) /\ req' = Send(q, n, out)) BY DEF CalmReqs
<1>3. AllTidy(q) /\ q \in [Sites \X Nodes -> Seq(ReqMsg)] BY <1>1, <1>2, TidyTaken DEF Rest
<1> QED BY <1>2, <1>3, CalmSent
-----
(* A decided transaction has been offered in every region it touches. *)
LEMMA RuledOffered ==
  ASSUME TypeOK, DecidedInv, NEW t \in Txns, Ruled(tx, t), NEW r \in TouchedRegions(t)
  PROVE \E a : Offered(tx, req, t, r, a)
<1>1. PICK k \in Sites : tx[k][t].role = "crtCoord" /\ tx[k][t].phase >= DIST_CAN_EXE BY DEF Ruled
<1>2. tx[k][t] \in TxType BY DEF TypeOK
<1>3. Coordinates(tx[k][t], t, submitted, dtxns[k]) BY <1>1 DEF DecidedInv, LawfulTx
<1>4. AllPrepared(t, tx[k][t]) BY <1>1, <1>3 DEF Coordinates
<1>5. r \in Regions /\ tx[k][t].anticipated[r] # ZeroTs BY <1>2, <1>3, <1>4, PreparedOffers
<1> QED BY <1>5 DEF Offered, HasOffer

(* A manager's requests go from the site whose process it shares. *)
LEMMA MgrPlaces ==
  \A mgr \in Managers : /\ Proc(mgr) = MgrHost(mgr) /\ MgrOf(MgrRegion(mgr)) = mgr
                        /\ \A d \in Sites : SiteRegion(d) = MgrRegion(mgr) => MgrOf(SiteRegion(d)) = mgr
<1> SUFFICES ASSUME NEW mgr \in Managers PROVE Proc(mgr) = MgrHost(mgr) /\ MgrOf(MgrRegion(mgr)) = mgr OBVIOUS
<1>1. PICK r \in Regions : mgr = MgrOf(r) BY DEF Managers
<1> QED BY <1>1, ManagerFacts DEF Proc

(* DastManager::PrepareCRT asks for a transaction once. *)
LEMMA MgrPrepareCRTTidy ==
  ASSUME TypeOK, DecidedInv, OffersInv, TidyInv, NEW src \in Sites, NEW mgr \in Managers,
         NEW now \in PhysTimes, MgrPrepareCRT(src, mgr, now)
  PROVE AllTidy(req')
<1> DEFINE m == ReqAt(src, mgr)
           q == Taken(req, <<src, mgr>>)
<1>1. /\ m \in MsgsIn(req[<<src, mgr>>]) /\ m \in ReqMsg /\ m.type = "PrepareRemote"
      /\ mgr \in Nodes /\ <<src, mgr>> \in Sites \X Nodes /\ <<src, mgr>> \in Sites \X Managers
  BY MgrPrepareCRTStep, Placement
<1>2. Receives(src, mgr, "PrepareRemote") BY DEF MgrPrepareCRT
<1>3. PICK out \in [Nodes -> Seq(ReqMsg)] : \E leader :
        /\ req' = Send(q, mgr, out)
        /\ \A d \in Nodes : \/ out[d] = <<>>
                            \/ \E w : out[d] = <<w>> /\ AskMsg(w, m, mgr, d, leader) BY MgrPrepareCRTSends
<1>4. PICK leader : /\ req' = Send(q, mgr, out)
                    /\ \A d \in Nodes : \/ out[d] = <<>>
                                        \/ \E w : out[d] = <<w>> /\ AskMsg(w, m, mgr, d, leader) BY <1>3
<1>5. AllTidy(req) /\ req \in [Sites \X Nodes -> Seq(ReqMsg)] /\ req[<<src, mgr>>] # <<>>
  BY <1>2 DEF TidyInv, AllTidy, TypeOK, Receives
<1>6. AllTidy(q) /\ q \in [Sites \X Nodes -> Seq(ReqMsg)] BY <1>1, <1>5, TidyTaken
<1>7. \A c \in Sites \X Nodes : MsgsIn(q[c]) \subseteq MsgsIn(req[c]) BY <1>1, <1>2, ReceivesMsgs
<1>8. m.txn \in Txns /\ \A a : ~Offered(tx, req, m.txn, MgrRegion(mgr), a)
 <2>1. m.txn \in Txns BY <1>1, ReqFields
 <2> QED BY <1>1, <2>1 DEF OffersInv, AskedOnce
<1> HIDE DEF m, q
<1>9. \A d \in Nodes : \A w \in MsgsIn(out[d]) : AskMsg(w, m, mgr, d, leader)
 <2>0. MsgsIn(<<>>) = {} /\ \A w : MsgsIn(<<w>>) = {w} BY OutMsgs
 <2> SUFFICES ASSUME NEW d \in Nodes, NEW w \in MsgsIn(out[d]) PROVE AskMsg(w, m, mgr, d, leader) OBVIOUS
 <2>1. out[d] # <<>> BY <2>0
 <2>2. PICK v : out[d] = <<v>> /\ AskMsg(v, m, mgr, d, leader) BY <1>4, <2>1
 <2>3. w = v BY <2>0, <2>2
 <2> QED BY <2>2, <2>3
<1>10. \A d \in Nodes : Tidy(out[d])
 <2> SUFFICES ASSUME NEW d \in Nodes PROVE Tidy(out[d]) OBVIOUS
 <2>1. Tidy(<<>>) BY DEF Tidy
 <2> QED BY <1>4, <2>1, CalmTidies
<1>11. ASSUME NEW a \in Sites, NEW d \in Nodes, a = Proc(mgr), NEW v \in MsgsIn(q[<<a, d>>]),
              NEW w \in MsgsIn(out[d])
       PROVE ~Clash(v, w)
 <2>1. AskMsg(w, m, mgr, d, leader) /\ v \in MsgsIn(req[<<a, d>>]) /\ <<a, d>> \in Sites \X Nodes BY <1>7, <1>9, <1>11
 <2>2. SUFFICES ASSUME Clash(v, w) PROVE FALSE OBVIOUS
 <2>3. w.txn = m.txn /\ d \in Sites /\ SiteRegion(d) = MgrRegion(mgr) /\ w.type \in {"PrepareCRT", "NotiCRT"}
   BY <2>1 DEF AskMsg
 <2>4. w.type = "PrepareCRT" /\ v.txn = m.txn /\ ParOf(d) \in Touched(m.txn) BY <2>1, <2>2, <2>3 DEF Clash, AskMsg
 <2>5. CASE v.type = "PrepareCRT"
  <3>1. Offered(tx, req, m.txn, SiteRegion(d), v.ts) BY <2>1, <2>4, <2>5, OffersSent
  <3> QED BY <1>8, <2>3, <3>1
 <2>6. CASE v.type = "NotiCommit" /\ v.wait
  <3>1. TidyReq(tx, v, a, d) BY <2>1 DEF TidyInv
  <3>2. Ruled(tx, m.txn) BY <2>4, <2>6, <3>1 DEF TidyReq
  <3>3. MgrRegion(mgr) \in TouchedRegions(m.txn) BY <2>3, <2>4 DEF TouchedRegions, SiteRegion
  <3> QED BY <1>8, <3>2, <3>3, RuledOffered
 <2> QED BY <2>2, <2>4, <2>5, <2>6 DEF Clash
<1> QED BY <1>4, <1>6, <1>10, <1>11, TidySent

(* A decision is sent once. *)
LEMMA DecisionTidy ==
  ASSUME NEW q \in [Sites \X Nodes -> Seq(ReqMsg)], AllTidy(q), NEW s \in Sites, NEW t, NEW out, NEW more,
         DecisionOut(out, s, t), CalmOut(more),
         \A d \in Nodes : \A v \in MsgsIn(q[<<s, d>>]) : v.type = "DistExe" => v.txn # t
  PROVE AllTidy(Send(q, s, Then(out, more)))
<1>1. /\ out \in [Nodes -> Seq(ReqMsg)] /\ more \in [Nodes -> Seq(ReqMsg)]
      /\ \A d \in Nodes : \A w \in MsgsIn(more[d]) : Calm(w) BY DEF DecisionOut, CalmOut
<1>2. \A d \in Nodes : \A w \in MsgsIn(out[d]) : w.type = "NotiWait" \/ (w.type = "DistExe" /\ w.txn = t)
 <2>0. MsgsIn(<<>>) = {} /\ \A w : MsgsIn(<<w>>) = {w} BY OutMsgs
 <2> SUFFICES ASSUME NEW d \in Nodes, NEW w \in MsgsIn(out[d])
              PROVE w.type = "NotiWait" \/ (w.type = "DistExe" /\ w.txn = t) OBVIOUS
 <2>1. out[d] # <<>> BY <2>0
 <2>2. PICK v : out[d] = <<v>> /\ (v.type = "NotiWait" \/ (v.type = "DistExe" /\ v.txn = t)) BY <2>1 DEF DecisionOut
 <2>3. w = v BY <2>0, <2>2
 <2> QED BY <2>2, <2>3
<1>3. \A d \in Nodes : Tidy(out[d])
 <2>1. Tidy(<<>>) BY DEF Tidy
 <2> QED BY <2>1, CalmTidies DEF DecisionOut
<1> DEFINE both == Then(out, more)
<1>4. both \in [Nodes -> Seq(ReqMsg)] BY <1>1 DEF Then
<1>5. ASSUME NEW d \in Nodes PROVE Tidy(both[d])
 <2>1. both[d] = out[d] \o more[d] BY DEF Then
 <2>2. out[d] \in Seq(ReqMsg) /\ more[d] \in Seq(ReqMsg) /\ Tidy(out[d]) /\ Tidy(more[d]) BY <1>1, <1>3, CalmTidies
 <2>3. \A v \in MsgsIn(out[d]), w \in MsgsIn(more[d]) : ~Clash(v, w) BY <1>1, CalmTidies
 <2>4. Tidy(out[d] \o more[d]) BY <2>2, <2>3, TidyMore
 <2> QED BY <2>1, <2>4
<1>6. ASSUME NEW d \in Nodes, NEW v \in MsgsIn(q[<<s, d>>]), NEW w \in MsgsIn(both[d]) PROVE ~Clash(v, w)
 <2>1. w \in MsgsIn(out[d]) \/ w \in MsgsIn(more[d]) BY <1>1, <1>6, ThenMsgs
 <2>2. CASE w \in MsgsIn(more[d]) BY <1>1, <2>2, CalmTidies
 <2>3. CASE w \in MsgsIn(out[d])
  <3>1. w.type = "NotiWait" \/ (w.type = "DistExe" /\ w.txn = t) BY <1>2, <2>3
  <3>2. v.type = "DistExe" => v.txn # t BY <1>6
  <3> QED BY <3>1, <3>2 DEF Clash
 <2> QED BY <2>1, <2>2, <2>3
<1> HIDE DEF both
<1>7. \A a \in Sites, d \in Nodes : a = Proc(s) =>
        \A v \in MsgsIn(q[<<a, d>>]), w \in MsgsIn(both[d]) : ~Clash(v, w) BY <1>6, ProcOfSite
<1>8. AllTidy(Send(q, s, both)) BY <1>4, <1>5, <1>7, TidySent
<1> QED BY <1>8 DEF both
-----
(* An acknowledgement comes to the coordinator, and the one that decides comes before
   the decision. *)
LEMMA RemotePreparedFacts ==
  ASSUME TypeOK, UniqueInv, DecidedInv, NEW src \in Sites, NEW s \in Sites, NEW now \in PhysTimes,
         OnRemotePrepared(src, s, now)
  PROVE  LET m == ReqAt(src, s)
             t == m.txn
             acked == Ack(tx[s][t], src, m.ts, m.leads)
         IN  /\ m \in MsgsIn(req[<<src, s>>]) /\ m \in ReqMsg /\ m.type = "RemotePrepared" /\ t \in Txns
             /\ Receives(src, s, "RemotePrepared")
             /\ tx[s][t] \in TxType /\ acked \in TxType /\ Acks(tx[s][t], acked, src, m.ts)
             /\ tx[s][t].role = "crtCoord" /\ Coordinates(tx[s][t], t, submitted, dtxns[s])
             /\ ParOf(src) \in Touched(t) /\ m.ts # ZeroTs /\ m.ts \in AnticipatedType
             /\ Decides(t, acked, ParOf(src)) => tx[s][t].phase = DIST_REMOTE_SENT
             /\ CheckRemotePrepared(s, t, acked, ParOf(src), dist_txn_tss[s], Taken(req, <<src, s>>), now)
             /\ dtxns' = dtxns
<1> DEFINE m == ReqAt(src, s)
           t == m.txn
           acked == Ack(tx[s][t], src, m.ts, m.leads)
<1>1. m \in MsgsIn(req[<<src, s>>]) /\ m \in ReqMsg /\ m.type = "RemotePrepared" /\ s \in Nodes
      /\ <<src, s>> \in Sites \X Nodes BY OnRemotePreparedStep, Placement
<1>2. /\ Receives(src, s, "RemotePrepared") /\ dtxns' = dtxns
      /\ CheckRemotePrepared(s, t, acked, ParOf(src), dist_txn_tss[s], Taken(req, <<src, s>>), now)
  BY DEF OnRemotePrepared, Ack, ReqAt, tableVars
<1>3. t \in Txns /\ m.ts # ZeroTs /\ m.ts \in AnticipatedType BY <1>1, OfferNotZero
<1>4. LawfulReq(tx, m, src, s) /\ RightReq(m, src, s) BY <1>1, TakenLawful DEF UniqueInv, ReqsRight
<1> HIDE DEF m
<1>5. tx[s][t].role = "crtCoord" /\ ParOf(src) \in Touched(t) BY <1>1, <1>4 DEF LawfulReq, RightReq, Coord
<1>6. tx[s][t] \in TxType /\ Coordinates(tx[s][t], t, submitted, dtxns[s])
  BY <1>3, <1>5 DEF TypeOK, DecidedInv, LawfulTx
<1>7. acked \in TxType /\ Acks(tx[s][t], acked, src, m.ts) BY <1>3, <1>6, AckAdds
<1> HIDE DEF acked, t
<1>8. Prepared(acked, ParOf(src)) => tx[s][t].phase = DIST_REMOTE_SENT BY <1>3, <1>5, <1>6, <1>7, AcksCoordinate
<1>9. Decides(t, acked, ParOf(src)) => tx[s][t].phase = DIST_REMOTE_SENT BY <1>8 DEF Decides
<1> QED BY <1>1, <1>2, <1>3, <1>5, <1>6, <1>7, <1>9 DEF m, t, acked

(* CheckRemotePrepared keeps the order on the connections. *)
LEMMA AckedTidy ==
  ASSUME TypeOK, DecidedInv, AllTidy(req), NEW src \in Sites, NEW s \in Sites, NEW type,
         Receives(src, s, type), NEW t \in Txns, NEW acked \in TxType, NEW par, NEW floors, NEW now,
         CheckRemotePrepared(s, t, acked, par, floors, Taken(req, <<src, s>>), now),
         Decides(t, acked, par) => tx[s][t].phase = DIST_REMOTE_SENT
  PROVE AllTidy(req')
<1> DEFINE q == Taken(req, <<src, s>>)
<1>1. s \in Nodes /\ <<src, s>> \in Sites \X Nodes BY Placement
<1>2. req \in [Sites \X Nodes -> Seq(ReqMsg)] /\ req[<<src, s>>] # <<>> BY DEF TypeOK, Receives
<1>3. AllTidy(q) /\ q \in [Sites \X Nodes -> Seq(ReqMsg)] BY <1>1, <1>2, TidyTaken
<1>4. \A c \in Sites \X Nodes : MsgsIn(q[c]) \subseteq MsgsIn(req[c]) BY <1>1, ReceivesMsgs
<1>5. CASE ~Decides(t, acked, par)
 <2>1. /\ Handler(s, ready_txns[s], [tx[s] EXCEPT ![t] = WithPrepared(acked, par)])
       /\ req' = q
       /\ dist_txn_tss'[s] \subseteq floors
       /\ \A r \in Sites \ {s} : dist_txn_tss'[r] = dist_txn_tss[r] BY <1>5, NoDecisionShape
 <2> QED BY <1>3, <2>1
<1>6. CASE Decides(t, acked, par)
 <2> DEFINE y == WithPrepared(acked, par)
 <2>1. /\ Handler(s, PutReady(ready_txns[s], DecisionTs(t, y), t), [tx[s] EXCEPT ![t] = Decided(t, y)])
       /\ \E out, more : /\ DecisionOut(out, s, t) /\ CalmOut(more)
                         /\ req' = Send(q, s, Then(out, more))
       /\ dist_txn_tss'[s] \subseteq floors \cup {DecisionTs(t, y)}
       /\ \A r \in Sites \ {s} : dist_txn_tss'[r] = dist_txn_tss[r] BY <1>6, DecisionShape
 <2> HIDE DEF y
 <2>2. ASSUME NEW d \in Nodes, NEW v \in MsgsIn(q[<<s, d>>]), v.type = "DistExe" PROVE v.txn # t
  <3>1. v \in MsgsIn(req[<<s, d>>]) BY <1>4, <2>2
  <3>2. LawfulReq(tx, v, s, d) BY <3>1, TakenLawful
  <3>3. DecidedAs(tx, s, v.txn, v.ts) BY <2>2, <3>2 DEF LawfulReq
  <3> QED BY <1>6, <3>3 DEF DecidedAs, DIST_CAN_EXE, DIST_REMOTE_SENT
 <2> HIDE DEF q
 <2> QED BY <1>3, <2>1, <2>2, DecisionTidy
<1> QED BY <1>5, <1>6

(* OnPrepareCRT and OnRemotePrepared. *)
LEMMA PrepareTidy ==
  ASSUME TypeOK, UniqueInv, DecidedInv, AllTidy(req), NEW src \in Sites, NEW s \in Sites, NEW now \in PhysTimes,
         OnPrepareCRT(src, s, now) \/ OnRemotePrepared(src, s, now)
  PROVE AllTidy(req')
<1> DEFINE m == ReqAt(src, s)
           t == m.txn
           q == Taken(req, <<src, s>>)
<1>0. s \in Nodes /\ <<src, s>> \in Sites \X Nodes BY Placement
<1>1. ASSUME OnRemotePrepared(src, s, now) PROVE AllTidy(req')
 <2> DEFINE acked == Ack(tx[s][t], src, m.ts, m.leads)
 <2>1. /\ Receives(src, s, "RemotePrepared") /\ t \in Txns /\ acked \in TxType
       /\ Decides(t, acked, ParOf(src)) => tx[s][t].phase = DIST_REMOTE_SENT
       /\ CheckRemotePrepared(s, t, acked, ParOf(src), dist_txn_tss[s], q, now) BY <1>1, RemotePreparedFacts
 <2> HIDE DEF acked, t, m
 <2> QED BY <2>1, AckedTidy
<1>2. ASSUME OnPrepareCRT(src, s, now) PROVE AllTidy(req')
 <2> DEFINE acked == OwnAck(tx[s][t], s, m.ts)
 <2>1. /\ m \in MsgsIn(req[<<src, s>>]) /\ m \in ReqMsg /\ m.type = "PrepareCRT"
       /\ Receives(src, s, "PrepareCRT")
  <3>1. Receives(src, s, "PrepareCRT") BY <1>2 DEF OnPrepareCRT
  <3>2. m \in MsgsIn(req[<<src, s>>]) /\ m \in ReqMsg /\ m.type = "PrepareCRT" BY <1>2, OnPrepareCRTStep
  <3> HIDE DEF m
  <3> QED BY <3>1, <3>2
 <2>2. \/ /\ tx[s][t].phase = DIST_REMOTE_SENT
          /\ CheckRemotePrepared(s, t, acked, ParOf(s), dist_txn_tss[s] \cup {m.ts}, q, now)
       \/ req' = q
       \/ \E out : CalmOut(out) /\ req' = Send(q, s, out) BY <1>2, OnPrepareCRTShape
 <2>3. t \in Txns /\ m.ts \in AnticipatedType BY <1>0, <2>1, ReqFields
 <2>4. tx[s][t] \in TxType BY <2>3 DEF TypeOK
 <2>5. acked \in TxType BY <2>3, <2>4, AckAdds
 <2>6. Rest(q, req) BY <1>0, <2>1, TakenRest
 <2> HIDE DEF acked, t, m
 <2>7. CASE /\ tx[s][t].phase = DIST_REMOTE_SENT
            /\ CheckRemotePrepared(s, t, acked, ParOf(s), dist_txn_tss[s] \cup {m.ts}, q, now)
   BY <2>1, <2>3, <2>5, <2>7, AckedTidy
 <2>8. CASE req' = q \/ \E out : CalmOut(out) /\ req' = Send(q, s, out)
  <3>1. CalmReqs(s) BY <2>6, <2>8 DEF CalmReqs
  <3> QED BY <3>1, CalmTidy
 <2> QED BY <2>2, <2>7, <2>8
<1> QED BY <1>1, <1>2

(* Every step keeps the order on the connections. *)
LEMMA NextAllTidy ==
  ASSUME TypeOK, UniqueInv, DecidedInv, OffersInv, TidyInv, [Next]_vars
  PROVE AllTidy(req')
<1>0. AllTidy(req) BY DEF TidyInv, AllTidy
<1>1. ASSUME NEW s \in Sites, NEW t \in Txns, NEW now \in PhysTimes,
             \/ \E skips \in 0 .. Cardinality(Txns) : HandleIRT(s, t, now, skips)
             \/ OnSubmitCRT(s, t, now)
      PROVE AllTidy(req')
 <2>1. \A skips \in 0 .. Cardinality(Txns) : skips \in Nat OBVIOUS
 <2> QED BY <1>0, <1>1, <2>1, LocalCalm, CalmTidy
<1>2. ASSUME NEW n \in Nodes, NEW now \in PhysTimes, IRSyncLoop(n, now) PROVE AllTidy(req')
  BY <1>0, <1>2, LocalCalm, CalmTidy
<1>3. ASSUME NEW src \in Sites, NEW s \in Sites, NEW now \in PhysTimes,
             OnPrepareIRT(src, s, now) \/ PrepareIRTACK(src, s, now) \/ OnIRSync(src, s, now)
      PROVE AllTidy(req')
 <2>1. HeardLocally(s) BY <1>3, OnPrepareIRTShape, PrepareIRTACKShape, OnIRSyncShape
 <2> QED BY <1>0, <2>1, HeardHandler, CalmTidy
<1>4. ASSUME NEW src \in Sites, NEW s \in Sites, NEW now \in PhysTimes,
             OnPrepareCRT(src, s, now) \/ OnRemotePrepared(src, s, now)
      PROVE AllTidy(req') BY <1>0, <1>4, PrepareTidy
<1>5. ASSUME NEW src \in Sites, NEW s \in Sites,
             OnNotiCRT(src, s) \/ DistExeAck(src, s) \/ OnNotiCommit(src, s)
      PROVE AllTidy(req') BY <1>0, <1>5, NotiCalm, CalmTidy
<1>6. ASSUME NEW src \in Sites, NEW s \in Sites, OnSendOutput(src, s) PROVE AllTidy(req')
  BY <1>0, <1>6, OnSendOutputShape, CalmTidy
<1>7. ASSUME NEW src \in Sites, NEW s \in Sites, OnDistExe(src, s) PROVE AllTidy(req')
 <2>1. CASE ReqAt(src, s).txn \in dtxns[s]
  <3>1. CalmReqs(s) BY <1>7, <2>1, OnDistExeShape
  <3> QED BY <1>0, <3>1, CalmTidy
 <2>2. CASE ReqAt(src, s).txn \notin dtxns[s]
  <3>1. req' = Taken(req, <<src, s>>) /\ Receives(src, s, "DistExe") /\ s \in Nodes
    BY <1>7, <2>2, Placement DEF OnDistExe, ReqAt
  <3>2. CalmReqs(s) BY <3>1, TakenRest DEF CalmReqs
  <3> QED BY <1>0, <3>2, CalmTidy
 <2> QED BY <2>1, <2>2
<1>8. ASSUME NEW src \in Sites, NEW mgr \in Managers, NotiWait(src, mgr) PROVE AllTidy(req')
  BY <1>0, <1>8, NotiCalm, CalmTidy
<1>9. ASSUME NEW src \in Sites, NEW mgr \in Managers, NEW now \in PhysTimes, MgrPrepareCRT(src, mgr, now)
      PROVE AllTidy(req') BY <1>9, MgrPrepareCRTTidy
<1>10. ASSUME NEW mgr \in Managers, MgrFinish(mgr) PROVE AllTidy(req') BY <1>0, <1>10, FirstSite, NotiCalm, CalmTidy
<1>11. CASE UNCHANGED vars BY <1>0, <1>11 DEF vars
<1>12. CASE Submit BY <1>1, <1>12 DEF Submit
<1>13. CASE Sync BY <1>2, <1>13 DEF Sync
<1>14. CASE Deliver BY <1>3, <1>4, <1>5, <1>6, <1>7, <1>8, <1>9, <1>10, <1>14 DEF Deliver
<1> QED BY <1>11, <1>12, <1>13, <1>14 DEF Next
-----
(* What travels is typed. *)
LEMMA MsgTypes ==
  ASSUME TypeOK
  PROVE  /\ \A c \in Sites \X Nodes : \A m \in MsgsIn(req[c]) : m \in ReqMsg
         /\ \A c \in Sites \X Sites : \A m \in MsgsIn(rep[c]) : m \in RepMsg
<1>1. /\ \A c \in Sites \X Nodes : req[c] \in Seq(ReqMsg)
      /\ \A c \in Sites \X Sites : rep[c] \in Seq(RepMsg) BY DEF TypeOK
<1> QED BY <1>1 DEF MsgsIn

(* TidyReq of the messages that a step sends. *)
NewTidy == \A c \in Sites \X Nodes : \A m \in NewReqs(c) : TidyReq(tx', m, c[1], c[2])

(* Requests that TidyReq says nothing of, and those in flight. *)
LEMMA PlainTidy ==
  \A x, m, a, b : m.type \notin {"PrepareCRT", "NotiCommit", "NotiWait"} => TidyReq(x, m, a, b) BY DEF TidyReq

(* A decision is never taken back. *)
LEMMA RuledKept ==
  ASSUME AllSteady, NEW t \in Txns, Ruled(tx, t)
  PROVE Ruled(tx', t) BY DEF Ruled, AllSteady, Steady

(* TidyInv survives a step that keeps the connections tidy and whose new requests are
   right. *)
LEMMA TidyStep ==
  ASSUME TypeOK, TidyInv, AllTidy(req'), AllSteady, NewTidy
  PROVE TidyInv'
<1>1. \A c \in Sites \X Nodes : Tidy(req'[c]) BY DEF AllTidy
<1>2. ASSUME NEW c \in Sites \X Nodes, NEW m \in MsgsIn(req'[c]) PROVE TidyReq(tx', m, c[1], c[2])
 <2>1. CASE m \in NewReqs(c) BY <2>1 DEF NewTidy
 <2>2. CASE m \in MsgsIn(req[c])
  <3>1. TidyReq(tx, m, c[1], c[2]) BY <2>2 DEF TidyInv
  <3>2. m \in ReqMsg BY <2>2, MsgTypes
  <3>3. m.type # "IRSync" => m.txn \in Txns BY <3>2, ReqFields
  <3>4. m.type \in {"NotiWait", "NotiCommit"} /\ m.wait => Ruled(tx', m.txn) BY <3>1, <3>3, RuledKept DEF TidyReq
  <3> QED BY <3>1, <3>4 DEF TidyReq
 <2> QED BY <1>2, <2>1, <2>2 DEF NewReqs
<1> QED BY <1>1, <1>2 DEF TidyInv

(* The decision is the coordinator's. *)
LEMMA AcknowledgedTidy ==
  ASSUME NEW s \in Sites, NEW t \in Txns, NEW acked \in TxType, NEW par, NEW now,
         Acknowledged(s, t, acked, par, now), acked.role = "crtCoord"
  PROVE NewTidy
<1> DEFINE y == WithPrepared(acked, par)
           z == Decided(t, y)
<1>1. CASE ~Decides(t, acked, par) BY <1>1 DEF Acknowledged, NoNewReqs, NewTidy
<1>2. CASE Decides(t, acked, par)
 <2>1. /\ SameRecord(z, tx'[s][t]) /\ SameProgress(t, z, tx'[s][t], ParOf(s))
       /\ \A c \in Sites \X Nodes : \A m \in NewReqs(c) :
            m.type = "SendOutput" \/ (c[1] = s /\ DecisionMsg(m, s, t, y, c[2])) BY <1>2 DEF Acknowledged
 <2>2. y.role = acked.role /\ z.role = y.role /\ z.phase = DIST_CAN_EXE
  <3>1. y \in TxType /\ z \in TxType BY DecidedRecord
  <3> QED BY <3>1 DEF WithPrepared, Decided, TxType
 <2> HIDE DEF z, y
 <2>3. tx'[s][t].role = "crtCoord" /\ tx'[s][t].phase >= DIST_CAN_EXE
   BY <2>1, <2>2 DEF SameRecord, SameProgress, DIST_CAN_EXE, OUTPUT_SENT
 <2>4. Ruled(tx', t) BY <2>3 DEF Ruled
 <2>5. ASSUME NEW c \in Sites \X Nodes, NEW m \in NewReqs(c) PROVE TidyReq(tx', m, c[1], c[2])
   BY <2>1, <2>4 DEF DecisionMsg, TidyReq
 <2> QED BY <2>5 DEF NewTidy
<1> QED BY <1>1, <1>2

(* A coordinator is at work on what it has not decided. *)
LEMMA PrepareNewTidy ==
  ASSUME TypeOK, UniqueInv, DecidedInv, NEW src \in Sites, NEW s \in Sites, NEW now \in PhysTimes,
         OnPrepareCRT(src, s, now) \/ OnRemotePrepared(src, s, now)
  PROVE NewTidy
<1> DEFINE m == ReqAt(src, s)
           t == m.txn
<1>1. ASSUME OnRemotePrepared(src, s, now) PROVE NewTidy
 <2> DEFINE acked == Ack(tx[s][t], src, m.ts, m.leads)
 <2>1. /\ t \in Txns /\ acked \in TxType /\ Acks(tx[s][t], acked, src, m.ts) /\ tx[s][t].role = "crtCoord"
       /\ Acknowledged(s, t, acked, ParOf(src), now) BY <1>1, RemotePreparedFacts, OnRemotePreparedStep
 <2> HIDE DEF acked, t, m
 <2> QED BY <2>1, AcknowledgedTidy DEF Acks
<1>2. ASSUME OnPrepareCRT(src, s, now) PROVE NewTidy
 <2> DEFINE acked == OwnAck(tx[s][t], s, m.ts)
 <2>1. /\ m \in ReqMsg /\ m.type = "PrepareCRT"
       /\ \/ /\ tx[s][t].phase = DIST_REMOTE_SENT
             /\ Acknowledged(s, t, acked, ParOf(s), now)
          \/ NoNewReqs
          \/ \A c \in Sites \X Nodes : \A w \in NewReqs(c) : PreparedMsg(w, s, m) BY <1>2, OnPrepareCRTStep
 <2>2. t \in Txns /\ m.ts \in AnticipatedType BY <2>1, ReqFields
 <2>3. tx[s][t] \in TxType BY <2>2 DEF TypeOK
 <2>4. tx[s][t].phase = DIST_REMOTE_SENT => tx[s][t].role = "crtCoord" BY <2>2 DEF DecidedInv, LawfulTx, Follows
 <2>5. acked \in TxType /\ (tx[s][t].phase = DIST_REMOTE_SENT => Acks(tx[s][t], acked, s, m.ts)) BY <2>2, <2>3, AckAdds
 <2> HIDE DEF acked, t, m
 <2>6. CASE tx[s][t].phase = DIST_REMOTE_SENT /\ Acknowledged(s, t, acked, ParOf(s), now)
  <3>1. acked.role = "crtCoord" BY <2>4, <2>5, <2>6 DEF Acks
  <3> QED BY <2>2, <2>5, <2>6, <3>1, AcknowledgedTidy
 <2>7. CASE NoNewReqs BY <2>7 DEF NoNewReqs, NewTidy
 <2>8. CASE \A c \in Sites \X Nodes : \A w \in NewReqs(c) : PreparedMsg(w, s, m)
   BY <2>8, PlainTidy DEF PreparedMsg, NewTidy
 <2> QED BY <2>1, <2>6, <2>7, <2>8
<1> QED BY <1>1, <1>2

(* DastManager::NotiWait passes on what the coordinator said. *)
LEMMA NotiWaitTidy ==
  ASSUME TypeOK, TidyInv, AllSteady, NEW src \in Sites, NEW mgr \in Managers, NotiWait(src, mgr)
  PROVE NewTidy
<1> DEFINE m == ReqAt(src, mgr)
           q == Taken(req, <<src, mgr>>)
           D == SitesInRegion(MgrRegion(mgr)) \ m.touched
           w == [m EXCEPT !.type = "NotiCommit"]
<1>1. /\ Receives(src, mgr, "NotiWait") /\ mgr \in Nodes /\ <<src, mgr>> \in Sites \X Nodes
      /\ req' = Send(q, mgr, ToAll(D, w)) BY Placement DEF NotiWait, ReqAt
<1>2. m \in MsgsIn(req[<<src, mgr>>]) /\ m \in ReqMsg /\ m.type = "NotiWait" BY NotiWaitStep
<1>3. q \in [Sites \X Nodes -> Seq(ReqMsg)] /\ \A c \in Sites \X Nodes : MsgsIn(q[c]) \subseteq MsgsIn(req[c])
  BY <1>1, ReceivesMsgs, ReceivesType
<1>4. TidyReq(tx, m, src, mgr) BY <1>1, <1>2 DEF TidyInv
<1>5. D \subseteq SitesInRegion(MgrRegion(mgr)) OBVIOUS
<1> HIDE DEF m, q, D
<1>6. w \in ReqMsg /\ w.type = "NotiCommit" /\ w.txn = m.txn /\ w.wait = m.wait /\ m.txn \in Txns
 <2>1. m \in [type : {"NotiWait", "NotiCommit"}, txn : Txns, orig : ChrTsType, wait : BOOLEAN,
              new : AnticipatedType, touched : SUBSET Sites] BY <1>2 DEF ReqMsg
 <2>2. w \in [type : {"NotiWait", "NotiCommit"}, txn : Txns, orig : ChrTsType, wait : BOOLEAN,
              new : AnticipatedType, touched : SUBSET Sites] BY <2>1
 <2> QED BY <2>1, <2>2 DEF ReqMsg
<1> HIDE DEF w
<1>7. ToAll(D, w) \in [Nodes -> Seq(ReqMsg)]
 <2>1. <<w>> \in Seq(ReqMsg) /\ <<>> \in Seq(ReqMsg) BY <1>6
 <2> QED BY <2>1 DEF ToAll
<1>8. ASSUME NEW c \in Sites \X Nodes, NEW v \in NewReqs(c) PROVE TidyReq(tx', v, c[1], c[2])
 <2>1. c[1] = Proc(mgr) /\ v \in MsgsIn(ToAll(D, w)[c[2]]) BY <1>1, <1>3, <1>7, <1>8, RequestsAfter
 <2>2. v = w /\ c[2] \in D
  <3>1. c[2] \in Nodes OBVIOUS
  <3>2. MsgsIn(ToAll(D, w)[c[2]]) = IF c[2] \in D THEN {w} ELSE {} BY <3>1, OutMsgs
  <3> QED BY <2>1, <3>2
 <2>3. c[2] \in Sites /\ SiteRegion(c[2]) = MgrRegion(mgr) BY <1>5, <2>2 DEF SitesInRegion
 <2>4. c[1] = MgrHost(MgrOf(SiteRegion(c[2]))) BY <2>1, <2>3, MgrPlaces
 <2>5. w.wait => Ruled(tx', m.txn) BY <1>2, <1>4, <1>6, RuledKept DEF TidyReq
 <2> QED BY <1>6, <2>2, <2>3, <2>4, <2>5 DEF TidyReq
<1> QED BY <1>8 DEF NewTidy

(* Every other step. *)
LEMMA OtherNewTidy ==
  ASSUME TypeOK
  PROVE  /\ \A s \in Sites, t \in Txns, now \in PhysTimes : \A skips \in Nat :
              HandleIRT(s, t, now, skips) => NewTidy
         /\ \A s \in Sites, t \in Txns, now \in PhysTimes : OnSubmitCRT(s, t, now) => NewTidy
         /\ \A n \in Nodes, now \in PhysTimes : IRSyncLoop(n, now) => NewTidy
         /\ \A src, s \in Sites, now \in PhysTimes :
              OnPrepareIRT(src, s, now) \/ PrepareIRTACK(src, s, now) \/ OnIRSync(src, s, now) => NewTidy
         /\ \A src, s \in Sites :
              \/ OnNotiCRT(src, s) \/ OnDistExe(src, s) \/ DistExeAck(src, s)
              \/ OnNotiCommit(src, s) \/ OnSendOutput(src, s)
              => NewTidy
         /\ \A src \in Sites, mgr \in Managers, now \in PhysTimes : MgrPrepareCRT(src, mgr, now) => NewTidy
         /\ \A mgr \in Managers : MgrFinish(mgr) => NewTidy
<1>1. ASSUME NEW s \in Sites, NEW t \in Txns, NEW now \in PhysTimes, NEW skips \in Nat,
             HandleIRT(s, t, now, skips)
      PROVE NewTidy BY <1>1, HandleIRTStep, PlainTidy DEF IsPiggy, NewTidy
<1>2. ASSUME NEW s \in Sites, NEW t \in Txns, NEW now \in PhysTimes, OnSubmitCRT(s, t, now) PROVE NewTidy
  BY <1>2, OnSubmitCRTStep, PlainTidy DEF NewTidy
<1>3. ASSUME NEW n \in Nodes, NEW now \in PhysTimes, IRSyncLoop(n, now) PROVE NewTidy
  BY <1>3, IRSyncLoopStep, PlainTidy DEF NewTidy
<1>4. ASSUME NEW src \in Sites, NEW s \in Sites, NEW now \in PhysTimes,
             OnPrepareIRT(src, s, now) \/ PrepareIRTACK(src, s, now) \/ OnIRSync(src, s, now)
      PROVE NewTidy
 <2>1. \A c \in Sites \X Nodes : \A w \in NewReqs(c) : w.type = "SendOutput"
   BY <1>4, OnPrepareIRTStep, PrepareIRTACKStep, OnIRSyncStep
 <2> QED BY <2>1, PlainTidy DEF NewTidy
<1>5. ASSUME NEW src \in Sites, NEW s \in Sites,
             OnNotiCRT(src, s) \/ OnNotiCommit(src, s) \/ DistExeAck(src, s)
      PROVE NewTidy
 <2>1. s \in Nodes BY Placement
 <2>2. \/ req' = req
       \/ \E type : Receives(src, s, type) /\ req' = Taken(req, <<src, s>>)
   BY <1>5 DEF OnNotiCRT, OnNotiCommit, DistExeAck
 <2>3. NoNewReqs BY <2>1, <2>2, OnlyTaken DEF NoNewReqs, NewReqs
 <2> QED BY <2>3 DEF NoNewReqs, NewTidy
<1>6. ASSUME NEW src \in Sites, NEW s \in Sites, OnDistExe(src, s) PROVE NewTidy
 <2>1. \A c \in Sites \X Nodes : \A w \in NewReqs(c) : w.type = "SendOutput" BY <1>6, OnDistExeStep DEF NoNewReqs
 <2> QED BY <2>1, PlainTidy DEF NewTidy
<1>7. ASSUME NEW src \in Sites, NEW s \in Sites, OnSendOutput(src, s) PROVE NewTidy
 <2>1. \A c \in Sites \X Nodes : \A w \in NewReqs(c) :
         \/ w.type = "SendOutput"
         \/ /\ w.type = "NotiWait" /\ w.wait = FALSE
            /\ c[1] = s /\ c[2] = MgrOf(SiteRegion(s)) /\ w.orig = tx[s][w.txn].ts BY <1>7, OnSendOutputStep
 <2> QED BY <2>1 DEF TidyReq, NewTidy
<1>8. ASSUME NEW src \in Sites, NEW mgr \in Managers, NEW now \in PhysTimes, MgrPrepareCRT(src, mgr, now) PROVE NewTidy
 <2>1. PICK leader : \A c \in Sites \X Nodes : \A w \in NewReqs(c) :
                       c[1] = MgrHost(mgr) /\ AskMsg(w, ReqAt(src, mgr), mgr, c[2], leader) BY <1>8, MgrPrepareCRTNew
 <2>2. \A c \in Sites \X Nodes : \A w \in NewReqs(c) :
         /\ c[1] = MgrHost(mgr) /\ c[2] \in Sites /\ SiteRegion(c[2]) = MgrRegion(mgr)
         /\ w.type \in {"PrepareCRT", "NotiCRT"} BY <2>1 DEF AskMsg
 <2>3. ASSUME NEW c \in Sites \X Nodes, NEW w \in NewReqs(c) PROVE TidyReq(tx', w, c[1], c[2])
   BY <2>2, <2>3, MgrPlaces DEF TidyReq
 <2> QED BY <2>3 DEF NewTidy
<1>9. ASSUME NEW mgr \in Managers, MgrFinish(mgr) PROVE NewTidy BY <1>9 DEF MgrFinish, NewReqs, NewTidy
<1> QED BY <1>1, <1>2, <1>3, <1>4, <1>5, <1>6, <1>7, <1>8, <1>9

(* Nothing is on the way initially. *)
LEMMA InitTidy == Init => TidyInv
<1> SUFFICES ASSUME Init PROVE TidyInv OBVIOUS
<1>1. \A c \in Sites \X Nodes : req[c] = <<>> BY DEF Init
<1>2. MsgsIn(<<>>) = {} /\ Tidy(<<>>) BY OutMsgs DEF Tidy
<1> QED BY <1>1, <1>2 DEF TidyInv

(* Every step keeps TidyInv. *)
LEMMA NextTidy ==
  ASSUME TypeOK, UniqueInv, DecidedInv, OffersInv, TidyInv, [Next]_vars
  PROVE TidyInv'
<1>1. AllTidy(req') /\ AllSteady BY NextAllTidy, NextDecided
<1>2. NewTidy
 <2>1. \A skips \in 0 .. Cardinality(Txns) : skips \in Nat OBVIOUS
 <2>2. CASE UNCHANGED vars BY <2>2 DEF vars, NewTidy, NewReqs
 <2>3. CASE Submit BY <2>1, <2>3, OtherNewTidy DEF Submit
 <2>4. CASE Sync BY <2>4, OtherNewTidy DEF Sync
 <2>5. CASE Deliver BY <1>1, <2>5, OtherNewTidy, PrepareNewTidy, NotiWaitTidy DEF Deliver
 <2> QED BY <2>2, <2>3, <2>4, <2>5 DEF Next
<1> QED BY <1>1, <1>2, TidyStep
-----
(* A site never forgets a record. *)
LEMMA NextLearns ==
  ASSUME TypeOK, [Next]_vars
  PROVE \A s \in Sites : dtxns[s] \subseteq dtxns'[s]
<1>0. dtxns \in [Sites -> SUBSET Txns] BY DEF TypeOK
<1>1. SUFFICES \/ dtxns' = dtxns
               \/ \E s \in Sites : \E K : dtxns[s] \subseteq K /\ dtxns' = [dtxns EXCEPT ![s] = K] BY <1>0
<1>2. CASE UNCHANGED vars BY <1>2 DEF vars, tableVars
<1>3. CASE Submit
 <2>1. ASSUME NEW s \in Sites, NEW t \in Txns, NEW now \in PhysTimes,
              (\E skips \in 0 .. Cardinality(Txns) : HandleIRT(s, t, now, skips)) \/ OnSubmitCRT(s, t, now)
       PROVE dtxns' = [dtxns EXCEPT ![s] = dtxns[s] \cup {t}] BY <2>1 DEF HandleIRT, OnSubmitCRT
 <2>2. \A s \in Sites, t \in Txns : dtxns[s] \subseteq dtxns[s] \cup {t} OBVIOUS
 <2> QED BY <1>3, <2>1, <2>2 DEF Submit
<1>4. CASE Sync BY <1>4 DEF Sync, IRSyncLoop, tableVars
<1>5. ASSUME NEW src \in Sites, NEW s \in Sites, NEW now \in PhysTimes,
             OnPrepareIRT(src, s, now) \/ PrepareIRTACK(src, s, now) \/ OnIRSync(src, s, now)
      PROVE \E K : dtxns[s] \subseteq K /\ dtxns' = [dtxns EXCEPT ![s] = K]
 <2>1. \E from, ts, noti, delivered, known : /\ dtxns[s] \subseteq known
                                             /\ HandlePiggyInfo(s, from, ts, noti, delivered, known, now)
  <3>1. CASE OnPrepareIRT(src, s, now) BY <3>1 DEF OnPrepareIRT
  <3>2. CASE PrepareIRTACK(src, s, now) BY <3>2 DEF PrepareIRTACK
  <3>3. CASE OnIRSync(src, s, now) BY <3>3 DEF OnIRSync
  <3> QED BY <1>5, <3>1, <3>2, <3>3
 <2> QED BY <2>1, PiggyKnows
<1>6. ASSUME NEW src \in Sites, NEW s \in Sites, NEW now \in PhysTimes,
             OnPrepareCRT(src, s, now) \/ OnRemotePrepared(src, s, now)
      PROVE  \/ dtxns' = dtxns
             \/ \E K : dtxns[s] \subseteq K /\ dtxns' = [dtxns EXCEPT ![s] = K]
 <2>1. CASE OnPrepareCRT(src, s, now) BY <1>0, <2>1 DEF OnPrepareCRT
 <2>2. CASE OnRemotePrepared(src, s, now) BY <2>2 DEF OnRemotePrepared, tableVars
 <2> QED BY <1>6, <2>1, <2>2
<1>7. ASSUME NEW src \in Sites, NEW s \in Sites,
             \/ OnNotiCRT(src, s) \/ OnDistExe(src, s) \/ DistExeAck(src, s)
             \/ OnNotiCommit(src, s) \/ OnSendOutput(src, s)
      PROVE  \/ dtxns' = dtxns
             \/ \E K : dtxns[s] \subseteq K /\ dtxns' = [dtxns EXCEPT ![s] = K]
 <2>1. CASE OnDistExe(src, s) BY <1>0, <2>1 DEF OnDistExe
 <2> QED BY <1>7, <2>1 DEF OnNotiCRT, DistExeAck, OnNotiCommit, OnSendOutput, tableVars
<1>8. ASSUME NEW src \in Sites, NEW mgr \in Managers,
             NotiWait(src, mgr) \/ \E now \in PhysTimes : MgrPrepareCRT(src, mgr, now)
      PROVE dtxns' = dtxns BY <1>8 DEF NotiWait, MgrPrepareCRT, tableVars
<1>9. ASSUME NEW mgr \in Managers, MgrFinish(mgr) PROVE dtxns' = dtxns BY <1>9 DEF MgrFinish, tableVars
<1>10. CASE Deliver BY <1>5, <1>6, <1>7, <1>8, <1>9, <1>10 DEF Deliver
<1> QED BY <1>2, <1>3, <1>4, <1>10 DEF Next

(* Hearing of intra-region transactions. *)
LEMMA HearingKeeps ==
  ASSUME TypeOK, DecidedInv, NEW src \in Sites, NEW s \in Sites, NEW now \in PhysTimes,
         OnPrepareIRT(src, s, now) \/ PrepareIRTACK(src, s, now) \/ OnIRSync(src, s, now)
  PROVE  /\ OthersKept(s)
         /\ \A u \in Txns : Kept(s, u) \/ (IsIrt(u) /\ Retouched(tx[s][u], tx'[s][u]))
         /\ \A c \in Sites \X Nodes : \A w \in NewReqs(c) : w.type = "SendOutput"
<1>0. s \in Nodes BY Placement
<1>1. ASSUME PrepareIRTACK(src, s, now)
      PROVE  /\ OthersKept(s)
             /\ \A u \in Txns : Kept(s, u) \/ (IsIrt(u) /\ Retouched(tx[s][u], tx'[s][u]))
             /\ \A c \in Sites \X Nodes : \A w \in NewReqs(c) : w.type = "SendOutput"
 <2> DEFINE m == RepAt(src, s)
            N == {m.txn} \cup {e.id : e \in m.noti}
 <2>3. /\ m \in MsgsIn(rep[<<src, s>>]) /\ m \in RepMsg /\ m.type = "PrepareIRTRes"
       /\ OthersKept(s)
       /\ \A u \in Txns : \/ Retouched(tx[s][u], tx'[s][u]) /\ u \in N
                          \/ Kept(s, u)
       /\ \A c \in Sites \X Nodes : \A w \in NewReqs(c) : w.type = "SendOutput" BY <1>1, PrepareIRTACKStep
 <2> HIDE DEF m
 <2>4. \A u \in N : IsIrt(u) BY <2>3, TakenLawful DEF LawfulRep, IrtEntries
 <2> HIDE DEF N
 <2> QED BY <2>3, <2>4
<1>2. ASSUME OnIRSync(src, s, now)
      PROVE  /\ OthersKept(s)
             /\ \A u \in Txns : Kept(s, u) \/ (IsIrt(u) /\ Retouched(tx[s][u], tx'[s][u]))
             /\ \A c \in Sites \X Nodes : \A w \in NewReqs(c) : w.type = "SendOutput"
 <2> DEFINE m == ReqAt(src, s)
            N == {e.id : e \in m.noti}
 <2>3. /\ m \in MsgsIn(req[<<src, s>>]) /\ m \in ReqMsg /\ m.type = "IRSync"
       /\ OthersKept(s)
       /\ \A u \in Txns : \/ Retouched(tx[s][u], tx'[s][u]) /\ u \in N
                          \/ Kept(s, u)
       /\ \A c \in Sites \X Nodes : \A w \in NewReqs(c) : w.type = "SendOutput" BY <1>2, OnIRSyncStep
 <2> HIDE DEF m
 <2>4. \A u \in N : IsIrt(u) BY <1>0, <2>3, TakenLawful DEF LawfulReq, IrtEntries
 <2> HIDE DEF N
 <2> QED BY <2>3, <2>4
<1>3. ASSUME OnPrepareIRT(src, s, now)
      PROVE  /\ OthersKept(s)
             /\ \A u \in Txns : Kept(s, u) \/ (IsIrt(u) /\ Retouched(tx[s][u], tx'[s][u]))
             /\ \A c \in Sites \X Nodes : \A w \in NewReqs(c) : w.type = "SendOutput"
 <2> DEFINE m == ReqAt(src, s)
            N == {m.txn} \cup {e.id : e \in m.noti}
 <2>3. /\ m \in MsgsIn(req[<<src, s>>]) /\ m \in ReqMsg /\ m.type = "PrepareIRT"
       /\ OthersKept(s)
       /\ \A u \in Txns : \/ Retouched(tx[s][u], tx'[s][u]) /\ u \in N
                          \/ Kept(s, u)
       /\ \A c \in Sites \X Nodes : \A w \in NewReqs(c) : w.type = "SendOutput" BY <1>3, OnPrepareIRTStep
 <2> HIDE DEF m
 <2>4. \A u \in N : IsIrt(u) BY <1>0, <2>3, TakenLawful DEF LawfulReq, IrtEntries
 <2> HIDE DEF N
 <2> QED BY <2>3, <2>4
<1> QED BY <1>1, <1>2, <1>3

-----
(* How a step may change who leads. *)
LeadMoves(s, t) ==
  /\ tx[s][t].role = "crtReplica" =>
       tx'[s][t].role = "crtReplica" /\ tx'[s][t].region_handler = tx[s][t].region_handler
  /\ tx'[s][t].role = "crtReplica" =>
       t \in dtxns'[s] /\ ~IsIrt(t) /\ Led(tx, req, t, ParOf(s), tx'[s][t].region_handler)
  /\ tx'[s][t].role = "crtCoord" =>
       tx[s][t].role = "crtCoord" \/ \A par, l : ~Led(tx, req, t, par, l)
LeadReq(m, c) ==
  /\ m.type # "PrepareCRT"
  /\ m.type = "RemotePrepared" /\ m.leads => HasLeader(tx'[c[1]][m.txn], c[1], ParOf(c[1]), c[1])

(* LeadersInv survives a step whose records and new requests name leaders that are
   there. *)
LEMMA LeadersStep ==
  ASSUME TypeOK, LeadersInv, \A s \in Sites, t \in Txns : LeadMoves(s, t),
         \A c \in Sites \X Nodes : \A m \in NewReqs(c) : LeadReq(m, c)
  PROVE LeadersInv'
<1>1. \A s \in Sites, t \in Txns : tx'[s][t].role = "crtReplica" => t \in dtxns'[s] /\ ~IsIrt(t) BY DEF LeadMoves
<1>2. ASSUME NEW t \in Txns, NEW par, NEW l, Led(tx', req', t, par, l) PROVE Led(tx, req, t, par, l)
 <2>1. CASE \E s \in Sites : HasLeader(tx'[s][t], s, par, l) BY <2>1 DEF LeadMoves, HasLeader
 <2>2. CASE \E c \in Sites \X Nodes : \E m \in MsgsIn(req'[c]) : LeaderMsg(m, c[2], t, par, l)
  <3>1. PICK c \in Sites \X Nodes : \E m \in MsgsIn(req'[c]) : LeaderMsg(m, c[2], t, par, l) BY <2>2
  <3>2. PICK m \in MsgsIn(req'[c]) : LeaderMsg(m, c[2], t, par, l) BY <3>1
  <3>3. m \notin NewReqs(c) BY <3>2 DEF LeadReq, LeaderMsg
  <3>4. m \in MsgsIn(req[c]) BY <3>2, <3>3 DEF NewReqs
  <3> QED BY <3>2, <3>4 DEF Led
 <2> QED BY <1>2, <2>1, <2>2 DEF Led
<1>3. \A t \in Txns : \A par, l, k : Led(tx', req', t, par, l) /\ Led(tx', req', t, par, k) => l = k
  BY <1>2 DEF LeadersInv
<1>4. ASSUME NEW t \in Txns, NEW k \in Sites, NEW l, tx'[k][t].role = "crtCoord",
             Led(tx', req', t, ParOf(k), l)
      PROVE l = k
 <2>1. Led(tx, req, t, ParOf(k), l) BY <1>2, <1>4
 <2>2. tx[k][t].role = "crtCoord" BY <1>4, <2>1 DEF LeadMoves
 <2> QED BY <2>1, <2>2 DEF LeadersInv
<1>5. ASSUME NEW c \in Sites \X Nodes, NEW m \in MsgsIn(req'[c]), m.type = "RemotePrepared", m.leads
      PROVE HasLeader(tx'[c[1]][m.txn], c[1], ParOf(c[1]), c[1])
 <2>1. CASE m \in NewReqs(c) BY <1>5, <2>1 DEF LeadReq
 <2>2. CASE m \in MsgsIn(req[c])
  <3>1. HasLeader(tx[c[1]][m.txn], c[1], ParOf(c[1]), c[1]) BY <1>5, <2>2 DEF LeadersInv
  <3>2. m \in ReqMsg BY <2>2, MsgTypes
  <3>3. m.txn \in Txns /\ c[1] \in Sites BY <1>5, <3>2, ReqFields
  <3> QED BY <3>1, <3>3 DEF LeadMoves, HasLeader
 <2> QED BY <2>1, <2>2 DEF NewReqs
<1> QED BY <1>1, <1>3, <1>4, <1>5 DEF LeadersInv

(* Records that keep their leader, and those of intra-region transactions. *)
LEMMA SameLead ==
  ASSUME LeadersInv, NEW s \in Sites, NEW t \in Txns, dtxns[s] \subseteq dtxns'[s],
         tx'[s][t].role = tx[s][t].role, tx'[s][t].region_handler = tx[s][t].region_handler
  PROVE LeadMoves(s, t) BY DEF LeadMoves, LeadersInv, Led, HasLeader

(* A record that a step leaves names the leader it named. *)
LEMMA KeptLead ==
  ASSUME LeadersInv, NEW s \in Sites, NEW t \in Txns, dtxns[s] \subseteq dtxns'[s], Kept(s, t)
  PROVE LeadMoves(s, t) BY SameLead DEF Kept, SameRecord

(* An intra-region record names no leader. *)
LEMMA IrtLead ==
  ASSUME TypeOK, DecidedInv, LeadersInv, NEW s \in Sites, NEW t \in Txns, IsIrt(t),
         tx'[s][t].role \in {tx[s][t].role, "irtReplica", "irtHandler"}
  PROVE LeadMoves(s, t)
<1>1. tx[s][t].role \notin {"crtReplica", "crtCoord"} BY IrtUndecided DEF LeadersInv
<1> QED BY <1>1 DEF LeadMoves

(* A handler of s that sends no acknowledgement. *)
LEMMA HandlerLeads ==
  ASSUME TypeOK, LeadersInv, NEW s \in Sites, OthersKept(s), \A r \in Sites : dtxns[r] \subseteq dtxns'[r],
         \A u \in Txns : LeadMoves(s, u),
         \A c \in Sites \X Nodes : \A m \in NewReqs(c) : LeadReq(m, c)
  PROVE LeadersInv'
<1>1. ASSUME NEW r \in Sites, NEW u \in Txns PROVE LeadMoves(r, u)
 <2>1. CASE r = s BY <2>1
 <2>2. CASE r # s
  <3>1. tx'[r] = tx[r] BY <2>2 DEF OthersKept
  <3> QED BY <3>1, SameLead
 <2> QED BY <2>1, <2>2
<1> QED BY <1>1, LeadersStep

(* A step that changes no record keeps LeadersInv. *)
LEMMA QuietLeads ==
  ASSUME TypeOK, LeadersInv, tx' = tx, \A r \in Sites : dtxns[r] \subseteq dtxns'[r],
         \A c \in Sites \X Nodes : \A m \in NewReqs(c) : LeadReq(m, c)
  PROVE LeadersInv'
<1>1. ASSUME NEW r \in Sites, NEW u \in Txns PROVE LeadMoves(r, u) BY SameLead
<1> QED BY <1>1, LeadersStep
-----
(* Nobody has heard of a transaction that no client has submitted. *)
LEMMA NothingLed ==
  ASSUME TypeOK, DecidedInv, KnownInv, LeadersInv, NEW t \in Txns, t \notin submitted
  PROVE  /\ \A par, l : ~Led(tx, req, t, par, l)
         /\ \A s \in Sites : tx[s][t].role \notin {"crtReplica", "crtCoord"}
<1>1. \A s \in Sites : tx[s][t].role \notin {"crtReplica", "crtCoord"}
  BY DEF DecidedInv, LawfulTx, Coordinates, LeadersInv, KnownInv, KnownAt
<1>2. ASSUME NEW c \in Sites \X Nodes, NEW m \in MsgsIn(req[c]), m.type = "PrepareCRT" PROVE m.txn # t
 <2>1. LawfulReq(tx, m, c[1], c[2]) BY <1>2 DEF DecidedInv
 <2> QED BY <1>1, <1>2, <2>1 DEF LawfulReq, Coord
<1> QED BY <1>1, <1>2 DEF Led, HasLeader, LeaderMsg

(* A request of a client keeps LeadersInv. *)
LEMMA LocalLeads ==
  ASSUME TypeOK, DecidedInv, KnownInv, LeadersInv, NEW s \in Sites, NEW t \in Txns, NEW now \in PhysTimes,
         (\E skips \in Nat : HandleIRT(s, t, now, skips)) \/ OnSubmitCRT(s, t, now),
         \A r \in Sites : dtxns[r] \subseteq dtxns'[r]
  PROVE LeadersInv'
<1>1. ASSUME NEW skips \in Nat, HandleIRT(s, t, now, skips) PROVE LeadersInv'
 <2>1. /\ OthersKept(s) /\ \A u \in Txns \ {t} : tx'[s][u] = tx[s][u]
       /\ IsSubmitted(tx'[s][t], s, t, last_clock'[s])
       /\ \A c \in Sites \X Nodes : \A m \in NewReqs(c) : m.type = "PrepareIRT" BY <1>1, HandleIRTStep DEF IsPiggy
 <2>2. IsIrt(t) BY <1>1 DEF HandleIRT
 <2>3. \A u \in Txns : LeadMoves(s, u) BY <2>1, <2>2, SameLead, IrtLead DEF IsSubmitted
 <2>4. \A c \in Sites \X Nodes : \A m \in NewReqs(c) : LeadReq(m, c) BY <2>1 DEF LeadReq
 <2> QED BY <2>1, <2>3, <2>4, HandlerLeads
<1>2. ASSUME OnSubmitCRT(s, t, now) PROVE LeadersInv'
 <2>1. /\ OthersKept(s) /\ \A u \in Txns \ {t} : tx'[s][u] = tx[s][u]
       /\ IsCoordinated(tx'[s][t], s, t)
       /\ \A c \in Sites \X Nodes : \A m \in NewReqs(c) : m.type = "PrepareRemote" BY <1>2, OnSubmitCRTStep
 <2>2. t \notin submitted BY <1>2 DEF OnSubmitCRT
 <2>3. (\A par, l : ~Led(tx, req, t, par, l)) /\ tx[s][t].role \notin {"crtReplica", "crtCoord"} BY <2>2, NothingLed
 <2>4. LeadMoves(s, t) BY <2>1, <2>3 DEF LeadMoves, IsCoordinated
 <2>5. \A u \in Txns : LeadMoves(s, u) BY <2>1, <2>4, SameLead
 <2>6. \A c \in Sites \X Nodes : \A m \in NewReqs(c) : LeadReq(m, c) BY <2>1 DEF LeadReq
 <2> QED BY <2>1, <2>5, <2>6, HandlerLeads
<1> QED BY <1>1, <1>2

(* The intra-region handlers keep it. *)
LEMMA HearingLeads ==
  ASSUME TypeOK, DecidedInv, LeadersInv, NEW src \in Sites, NEW s \in Sites, NEW now \in PhysTimes,
         OnPrepareIRT(src, s, now) \/ PrepareIRTACK(src, s, now) \/ OnIRSync(src, s, now),
         \A r \in Sites : dtxns[r] \subseteq dtxns'[r]
  PROVE LeadersInv'
<1>1. /\ OthersKept(s)
      /\ \A u \in Txns : Kept(s, u) \/ (IsIrt(u) /\ Retouched(tx[s][u], tx'[s][u]))
      /\ \A c \in Sites \X Nodes : \A w \in NewReqs(c) : w.type = "SendOutput" BY HearingKeeps
<1>2. \A u \in Txns : LeadMoves(s, u) BY <1>1, KeptLead, IrtLead DEF Retouched
<1>3. \A c \in Sites \X Nodes : \A m \in NewReqs(c) : LeadReq(m, c) BY <1>1 DEF LeadReq
<1> QED BY <1>1, <1>2, <1>3, HandlerLeads

(* An acknowledgement leaves most of the record alone. *)
LEMMA AckSame ==
  ASSUME NEW y \in TxType, NEW s \in Sites, NEW ts \in AnticipatedType, NEW leads
  PROVE  /\ OwnAck(y, s, ts).role = y.role /\ OwnAck(y, s, ts).region_handler = y.region_handler
         /\ Ack(y, s, ts, leads).role = y.role /\ Ack(y, s, ts, leads).region_handler = y.region_handler
         /\ OwnAck(y, s, ts) \in TxType /\ Ack(y, s, ts, leads) \in TxType
<1>1. OwnAck(y, s, ts) \in TxType /\ Ack(y, s, ts, leads) \in TxType BY AckAdds
<1> QED BY <1>1 DEF OwnAck, Ack, TxType

(* What CheckRemotePrepared leaves alone. *)
LEMMA AcknowledgedSame ==
  ASSUME NEW s \in Sites, NEW t \in Txns, NEW acked \in TxType, NEW par, NEW now,
         Acknowledged(s, t, acked, par, now)
  PROVE  /\ tx'[s][t].role = acked.role /\ tx'[s][t].region_handler = acked.region_handler
         /\ \A c \in Sites \X Nodes : \A m \in NewReqs(c) : m.type \in {"SendOutput", "DistExe", "NotiWait"}
<1> DEFINE y == WithPrepared(acked, par)
           z == Decided(t, y)
<1>1. y \in TxType /\ z \in TxType BY DecidedRecord
<1>2. y.role = acked.role /\ z.role = y.role /\ y.region_handler = acked.region_handler
      /\ z.region_handler = y.region_handler BY <1>1 DEF WithPrepared, Decided, TxType
<1>3. CASE ~Decides(t, acked, par)
 <2>1. tx'[s][t] = y /\ NoNewReqs BY <1>3 DEF Acknowledged
 <2> QED BY <1>2, <2>1 DEF NoNewReqs
<1>4. CASE Decides(t, acked, par)
 <2>1. /\ SameRecord(z, tx'[s][t])
       /\ \A c \in Sites \X Nodes : \A m \in NewReqs(c) :
            m.type = "SendOutput" \/ (c[1] = s /\ DecisionMsg(m, s, t, y, c[2])) BY <1>4 DEF Acknowledged
 <2> HIDE DEF y, z
 <2> QED BY <1>2, <2>1 DEF SameRecord, DecisionMsg
<1> QED BY <1>3, <1>4

(* A site that stores its pieces takes over the leader of the request, and tells the
   coordinator so. *)
LEMMA PrepareLeads ==
  ASSUME TypeOK, UniqueInv, DecidedInv, LeadersInv, NEW src \in Sites, NEW s \in Sites, NEW now \in PhysTimes,
         OnPrepareCRT(src, s, now) \/ OnRemotePrepared(src, s, now),
         \A r \in Sites : dtxns[r] \subseteq dtxns'[r]
  PROVE LeadersInv'
<1> DEFINE m == ReqAt(src, s)
           t == m.txn
<1>0. s \in Nodes /\ <<src, s>> \in Sites \X Nodes BY Placement
<1>1. ASSUME OnRemotePrepared(src, s, now) PROVE LeadersInv'
 <2> DEFINE acked == Ack(tx[s][t], src, m.ts, m.leads)
 <2>1. /\ t \in Txns /\ tx[s][t] \in TxType /\ m.ts \in AnticipatedType
       /\ Acknowledged(s, t, acked, ParOf(src), now) /\ OthersKept(s)
       /\ \A u \in Txns \ {t} : Kept(s, u) BY <1>1, RemotePreparedFacts, OnRemotePreparedStep
 <2>2. acked \in TxType /\ acked.role = tx[s][t].role /\ acked.region_handler = tx[s][t].region_handler
  <3> HIDE DEF t, m
  <3> QED BY <2>1, AckSame
 <2> HIDE DEF acked, t, m
 <2>3. /\ tx'[s][t].role = acked.role /\ tx'[s][t].region_handler = acked.region_handler
       /\ \A c \in Sites \X Nodes : \A w \in NewReqs(c) : w.type \in {"SendOutput", "DistExe", "NotiWait"}
   BY <2>1, <2>2, AcknowledgedSame
 <2>4. \A u \in Txns : LeadMoves(s, u) BY <2>1, <2>2, <2>3, SameLead, KeptLead
 <2>5. \A c \in Sites \X Nodes : \A w \in NewReqs(c) : LeadReq(w, c) BY <2>3 DEF LeadReq
 <2> QED BY <2>1, <2>4, <2>5, HandlerLeads
<1>2. ASSUME OnPrepareCRT(src, s, now) PROVE LeadersInv'
 <2> DEFINE acked == OwnAck(tx[s][t], s, m.ts)
 <2>1. /\ m \in MsgsIn(req[<<src, s>>]) /\ m \in ReqMsg /\ m.type = "PrepareCRT" /\ OthersKept(s)
       /\ \A u \in Txns \ {t} : Kept(s, u)
       /\ \/ Acknowledged(s, t, acked, ParOf(s), now)
          \/ Kept(s, t) /\ NoNewReqs
          \/ /\ t \notin dtxns[s] /\ IsPrepared(tx'[s][t], s, m)
             /\ dtxns' = [dtxns EXCEPT ![s] = @ \cup {t}]
             /\ \A c \in Sites \X Nodes : \A w \in NewReqs(c) :
                  c[1] = s /\ c[2] = m.coord /\ PreparedMsg(w, s, m) BY <1>2, OnPrepareCRTStep
 <2>2. t \in Txns /\ m.ts \in AnticipatedType BY <2>1, ReqFields
 <2>3. tx[s][t] \in TxType BY <2>2 DEF TypeOK
 <2>4. acked \in TxType /\ acked.role = tx[s][t].role /\ acked.region_handler = tx[s][t].region_handler
  <3> HIDE DEF t, m
  <3> QED BY <2>2, <2>3, AckSame
 <2> HIDE DEF acked, m
 <2>5. CASE Acknowledged(s, t, acked, ParOf(s), now)
  <3>1. /\ tx'[s][t].role = acked.role /\ tx'[s][t].region_handler = acked.region_handler
        /\ \A c \in Sites \X Nodes : \A w \in NewReqs(c) : w.type \in {"SendOutput", "DistExe", "NotiWait"}
    BY <2>2, <2>4, <2>5, AcknowledgedSame
  <3>2. \A u \in Txns : LeadMoves(s, u) BY <2>1, <2>4, <3>1, SameLead, KeptLead
  <3>3. \A c \in Sites \X Nodes : \A w \in NewReqs(c) : LeadReq(w, c) BY <3>1 DEF LeadReq
  <3> QED BY <2>1, <3>2, <3>3, HandlerLeads
 <2>6. CASE Kept(s, t) /\ NoNewReqs
  <3>1. \A u \in Txns : LeadMoves(s, u) BY <2>1, <2>6, KeptLead
  <3>2. \A c \in Sites \X Nodes : \A w \in NewReqs(c) : LeadReq(w, c) BY <2>6 DEF NoNewReqs
  <3> QED BY <2>1, <3>1, <3>2, HandlerLeads
 <2>7. CASE /\ t \notin dtxns[s] /\ IsPrepared(tx'[s][t], s, m)
            /\ dtxns' = [dtxns EXCEPT ![s] = @ \cup {t}]
            /\ \A c \in Sites \X Nodes : \A w \in NewReqs(c) :
                 c[1] = s /\ c[2] = m.coord /\ PreparedMsg(w, s, m)
  <3>1. LawfulReq(tx, m, src, s) BY <1>0, <2>1, TakenLawful
  <3>2. ~IsIrt(t) BY <2>1, <2>2, <3>1 DEF LawfulReq, Coord, DecidedInv, LawfulTx, Coordinates
  <3>3. LeaderMsg(m, s, t, ParOf(s), m.leader) BY <2>1 DEF LeaderMsg
  <3>4. Led(tx, req, t, ParOf(s), m.leader) BY <1>0, <2>1, <3>3 DEF Led
  <3>5. t \in dtxns'[s] /\ tx[s][t].role # "crtReplica" BY <2>2, <2>7 DEF TypeOK, LeadersInv
  <3>6. tx'[s][t].role = "crtReplica" /\ tx'[s][t].region_handler = m.leader BY <2>7 DEF IsPrepared
  <3>7. LeadMoves(s, t) BY <3>2, <3>4, <3>5, <3>6 DEF LeadMoves
  <3>8. \A u \in Txns : LeadMoves(s, u) BY <2>1, <3>7, KeptLead
  <3>9. ASSUME NEW c \in Sites \X Nodes, NEW w \in NewReqs(c) PROVE LeadReq(w, c)
   <4>1. c[1] = s /\ w.type = "RemotePrepared" /\ w.txn = t /\ w.leads = (m.leader = s) BY <2>7, <3>9 DEF PreparedMsg
   <4> QED BY <3>6, <4>1 DEF LeadReq, HasLeader
  <3> QED BY <2>1, <3>8, <3>9, HandlerLeads
 <2> QED BY <2>1, <2>5, <2>6, <2>7
<1> QED BY <1>1, <1>2

(* The handlers of decisions and outputs keep it. *)
LEMMA OutputLeads ==
  ASSUME TypeOK, LeadersInv, NEW src \in Sites, NEW s \in Sites,
         OnDistExe(src, s) \/ DistExeAck(src, s) \/ OnSendOutput(src, s),
         \A r \in Sites : dtxns[r] \subseteq dtxns'[r]
  PROVE LeadersInv'
<1>1. ASSUME OnDistExe(src, s) PROVE LeadersInv'
 <2> DEFINE m == ReqAt(src, s)
            t == m.txn
 <2>1. /\ m \in ReqMsg /\ m.type = "DistExe" /\ OthersKept(s)
       /\ \A u \in Txns \ {t} : Kept(s, u)
       /\ \/ /\ SameRecord(Told(tx[s][t], s, src, m.ts), tx'[s][t])
             /\ \A c \in Sites \X Nodes : \A w \in NewReqs(c) : w.type = "SendOutput"
          \/ UNCHANGED tx /\ NoNewReqs BY <1>1, OnDistExeStep
 <2>2. t \in Txns BY <2>1, ReqFields
 <2> HIDE DEF m
 <2>3. tx[s][t] \in TxType BY <2>2 DEF TypeOK
 <2>4. Told(tx[s][t], s, src, m.ts).role = tx[s][t].role
       /\ Told(tx[s][t], s, src, m.ts).region_handler = tx[s][t].region_handler BY <2>3 DEF Told, TxType
 <2>5. tx'[s][t].role = tx[s][t].role /\ tx'[s][t].region_handler = tx[s][t].region_handler BY <2>1, <2>4 DEF SameRecord
 <2>6. \A u \in Txns : LeadMoves(s, u) BY <2>1, <2>5, SameLead, KeptLead
 <2>7. \A c \in Sites \X Nodes : \A w \in NewReqs(c) : LeadReq(w, c) BY <2>1 DEF NoNewReqs, LeadReq
 <2> QED BY <2>1, <2>6, <2>7, HandlerLeads
<1>2. ASSUME DistExeAck(src, s) PROVE LeadersInv'
 <2> DEFINE t == RepAt(src, s).txn
 <2>1. OthersKept(s) /\ (\A u \in Txns \ {t} : Kept(s, u)) /\ SameRecord(tx[s][t], tx'[s][t]) BY <1>2, DistExeAckStep
 <2>2. req' = req BY <1>2 DEF DistExeAck
 <2> HIDE DEF t
 <2>3. \A u \in Txns : LeadMoves(s, u) BY <2>1, SameLead, KeptLead DEF SameRecord
 <2>4. \A c \in Sites \X Nodes : \A w \in NewReqs(c) : LeadReq(w, c) BY <2>2 DEF NewReqs
 <2> QED BY <2>1, <2>3, <2>4, HandlerLeads
<1>3. ASSUME OnSendOutput(src, s) PROVE LeadersInv'
 <2>1. /\ OthersKept(s) /\ \A u \in Txns : Kept(s, u)
       /\ \A c \in Sites \X Nodes : \A w \in NewReqs(c) : w.type \in {"SendOutput", "NotiWait"}
   BY <1>3, OnSendOutputStep
 <2>2. \A u \in Txns : LeadMoves(s, u) BY <2>1, KeptLead
 <2>3. \A c \in Sites \X Nodes : \A w \in NewReqs(c) : LeadReq(w, c) BY <2>1 DEF LeadReq
 <2> QED BY <2>1, <2>2, <2>3, HandlerLeads
<1> QED BY <1>1, <1>2, <1>3
-----
(* A region that a manager has yet to ask has no leaders. *)
LEMMA UnaskedUnled ==
  ASSUME TypeOK, DecidedInv, OffersInv, NEW src \in Sites, NEW mgr \in Managers,
         NEW m \in MsgsIn(req[<<src, mgr>>]), m.type = "PrepareRemote", m.txn \in Txns,
         NEW par \in Touched(m.txn), RegionOf(par) = MgrRegion(mgr), NEW l
  PROVE ~Led(tx, req, m.txn, par, l)
<1> DEFINE r == MgrRegion(mgr)
<1>1. \A a : ~Offered(tx, req, m.txn, r, a)
 <2>1. <<src, mgr>> \in Sites \X Managers OBVIOUS
 <2> QED BY <2>1 DEF OffersInv, AskedOnce
<1>2. r \in TouchedRegions(m.txn) BY DEF TouchedRegions
<1> HIDE DEF r
<1>3. ~Ruled(tx, m.txn) BY <1>1, <1>2, RuledOffered
<1>4. ASSUME NEW s \in Sites PROVE ~HasLeader(tx[s][m.txn], s, par, l)
 <2>1. SUFFICES ASSUME HasLeader(tx[s][m.txn], s, par, l) PROVE FALSE OBVIOUS
 <2>2. tx[s][m.txn].role = "crtReplica" /\ SiteRegion(s) = r BY <2>1 DEF HasLeader, SiteRegion, r
 <2>3. CASE ~(tx[s][m.txn].phase >= DIST_CAN_EXE) BY <1>1, <2>2, <2>3 DEF Offered, HasOffer
 <2>4. CASE tx[s][m.txn].phase >= DIST_CAN_EXE
  <3>1. \E k \in Sites : DecidedAs(tx, k, m.txn, tx[s][m.txn].ts) BY <2>4 DEF DecidedInv, LawfulTx, Follows
  <3> QED BY <1>3, <3>1 DEF DecidedAs, Ruled
 <2> QED BY <2>3, <2>4
<1>5. ASSUME NEW c \in Sites \X Nodes, NEW w \in MsgsIn(req[c]) PROVE ~LeaderMsg(w, c[2], m.txn, par, l)
 <2>1. SUFFICES ASSUME LeaderMsg(w, c[2], m.txn, par, l) PROVE FALSE OBVIOUS
 <2>2. c = <<c[1], c[2]>> /\ c[1] \in Sites /\ c[2] \in Nodes OBVIOUS
 <2>3. w.type = "PrepareCRT" /\ w.txn = m.txn /\ SiteRegion(c[2]) = r BY <2>1 DEF LeaderMsg, SiteRegion, r
 <2>4. Offered(tx, req, w.txn, SiteRegion(c[2]), w.ts) BY <2>2, <2>3, OffersSent
 <2> QED BY <1>1, <2>3, <2>4
<1> QED BY <1>4, <1>5 DEF Led

(* DastManager::PrepareCRT picks the leaders. *)
LEMMA MgrPrepareCRTLeads ==
  ASSUME TypeOK, UniqueInv, DecidedInv, OffersInv, LeadersInv, NEW src \in Sites, NEW mgr \in Managers,
         NEW now \in PhysTimes, MgrPrepareCRT(src, mgr, now)
  PROVE LeadersInv'
<1> DEFINE m == ReqAt(src, mgr)
<1>1. /\ m \in MsgsIn(req[<<src, mgr>>]) /\ m \in ReqMsg /\ m.type = "PrepareRemote"
      /\ mgr \in Nodes /\ <<src, mgr>> \in Sites \X Nodes BY MgrPrepareCRTStep, Placement
<1>2. PICK leader : \A c \in Sites \X Nodes : \A w \in NewReqs(c) :
                      c[1] = MgrHost(mgr) /\ AskMsg(w, m, mgr, c[2], leader) BY MgrPrepareCRTNew
<1>3. UNCHANGED <<tx, dtxns>> BY DEF MgrPrepareCRT, tableVars, execVars
<1>4. LawfulReq(tx, m, src, mgr) /\ RightReq(m, src, mgr) /\ m.txn \in Txns
  BY <1>1, TakenLawful, ReqFields DEF UniqueInv, ReqsRight
<1> HIDE DEF m
<1>5. Coord(tx, src, m.txn) /\ m.ts.site = src BY <1>1, <1>4 DEF LawfulReq, RightReq
<1> DEFINE New(par) == par \in Touched(m.txn) /\ RegionOf(par) = MgrRegion(mgr)
<1>6. ASSUME NEW par, New(par), NEW l PROVE ~Led(tx, req, m.txn, par, l) BY <1>1, <1>4, <1>6, UnaskedUnled
<1>7. ASSUME NEW t \in Txns, NEW par, NEW l, Led(tx', req', t, par, l)
      PROVE  \/ Led(tx, req, t, par, l)
             \/ /\ t = m.txn /\ New(par) /\ l = leader[par]
                /\ ParOf(src) = par => l = src
 <2>1. CASE \E s \in Sites : HasLeader(tx'[s][t], s, par, l) BY <1>3, <2>1 DEF Led
 <2>2. CASE \E c \in Sites \X Nodes : \E w \in MsgsIn(req'[c]) : LeaderMsg(w, c[2], t, par, l)
  <3>1. PICK c \in Sites \X Nodes : \E w \in MsgsIn(req'[c]) : LeaderMsg(w, c[2], t, par, l) BY <2>2
  <3>2. PICK w \in MsgsIn(req'[c]) : LeaderMsg(w, c[2], t, par, l) BY <3>1
  <3>3. CASE w \in MsgsIn(req[c]) BY <3>2, <3>3 DEF Led
  <3>4. CASE w \in NewReqs(c)
   <4>1. AskMsg(w, m, mgr, c[2], leader) BY <1>2, <3>4
   <4>2. w.type = "PrepareCRT" /\ w.txn = t /\ ParOf(c[2]) = par /\ w.leader = l BY <3>2 DEF LeaderMsg
   <4>3. /\ t = m.txn /\ par \in Touched(m.txn) /\ SiteRegion(c[2]) = MgrRegion(mgr)
         /\ l = leader[par] BY <1>5, <4>1, <4>2 DEF AskMsg
   <4>4. RegionOf(par) = MgrRegion(mgr) BY <4>2, <4>3 DEF SiteRegion
   <4>5. ParOf(src) = par => l = src BY <1>5, <4>1, <4>2 DEF AskMsg
   <4> QED BY <4>3, <4>4, <4>5
  <3> QED BY <3>2, <3>3, <3>4 DEF NewReqs
 <2> QED BY <1>7, <2>1, <2>2 DEF Led
<1>8. \A t \in Txns : \A par, l, k : Led(tx', req', t, par, l) /\ Led(tx', req', t, par, k) => l = k
 <2> SUFFICES ASSUME NEW t \in Txns, NEW par, NEW l, NEW k, Led(tx', req', t, par, l), Led(tx', req', t, par, k)
              PROVE l = k OBVIOUS
 <2>1. CASE t = m.txn /\ New(par)
  <3>1. l = leader[par] /\ k = leader[par] BY <1>6, <1>7, <2>1
  <3> QED BY <3>1
 <2>2. CASE ~(t = m.txn /\ New(par))
  <3>1. Led(tx, req, t, par, l) /\ Led(tx, req, t, par, k) BY <1>7, <2>2
  <3> QED BY <3>1 DEF LeadersInv
 <2> QED BY <2>1, <2>2
<1>9. ASSUME NEW t \in Txns, NEW k \in Sites, NEW l, tx'[k][t].role = "crtCoord",
             Led(tx', req', t, ParOf(k), l)
      PROVE l = k
 <2>1. tx[k][t].role = "crtCoord" BY <1>3, <1>9
 <2>2. CASE Led(tx, req, t, ParOf(k), l) BY <2>1, <2>2 DEF LeadersInv
 <2>3. CASE t = m.txn /\ (ParOf(src) = ParOf(k) => l = src)
  <3>1. k = src BY <1>5, <2>1, <2>3 DEF DecidedInv, OneCoordinator, Coord
  <3> QED BY <2>3, <3>1
 <2> QED BY <1>7, <1>9, <2>2, <2>3
<1>10. ASSUME NEW c \in Sites \X Nodes, NEW w \in MsgsIn(req'[c]), w.type = "RemotePrepared", w.leads
       PROVE HasLeader(tx'[c[1]][w.txn], c[1], ParOf(c[1]), c[1])
 <2>1. w \notin NewReqs(c) BY <1>2, <1>10 DEF AskMsg
 <2>2. w \in MsgsIn(req[c]) BY <1>10, <2>1 DEF NewReqs
 <2>3. HasLeader(tx[c[1]][w.txn], c[1], ParOf(c[1]), c[1]) BY <1>10, <2>2 DEF LeadersInv
 <2> QED BY <1>3, <2>3
<1>11. \A s \in Sites, t \in Txns : tx'[s][t].role = "crtReplica" => t \in dtxns'[s] /\ ~IsIrt(t) BY <1>3 DEF LeadersInv
<1> QED BY <1>8, <1>9, <1>10, <1>11 DEF LeadersInv

(* There is no leader initially. *)
LEMMA InitLeaders == Init => LeadersInv
<1> SUFFICES ASSUME Init PROVE LeadersInv OBVIOUS
<1>1. \A c \in Sites \X Nodes : MsgsIn(req[c]) = {}
 <2>1. MsgsIn(<<>>) = {} BY OutMsgs
 <2> QED BY <2>1 DEF Init
<1>2. \A s \in Sites, t \in Txns : tx[s][t].role = "unset" BY DEF Init, FreshTx
<1>3. \A t \in Txns : \A par, l : ~Led(tx, req, t, par, l) BY <1>1, <1>2 DEF Led, HasLeader
<1> QED BY <1>1, <1>2, <1>3 DEF LeadersInv

(* Every step keeps one leader per partition. *)
LEMMA NextLeaders ==
  ASSUME TypeOK, UniqueInv, DecidedInv, OffersInv, KnownInv, LeadersInv, [Next]_vars
  PROVE LeadersInv'
<1>0. \A r \in Sites : dtxns[r] \subseteq dtxns'[r] BY NextLearns
<1>1. CASE UNCHANGED vars
 <2>1. UNCHANGED <<tx, dtxns, req>> BY <1>1 DEF vars, tableVars, execVars
 <2>2. \A c \in Sites \X Nodes : \A m \in NewReqs(c) : LeadReq(m, c) BY <2>1 DEF NewReqs
 <2> QED BY <1>0, <2>1, <2>2, QuietLeads
<1>2. CASE Submit
 <2>1. \A skips \in 0 .. Cardinality(Txns) : skips \in Nat OBVIOUS
 <2> QED BY <1>0, <1>2, <2>1, LocalLeads DEF Submit
<1>3. ASSUME NEW n \in Nodes, NEW now \in PhysTimes, IRSyncLoop(n, now) PROVE LeadersInv'
 <2>1. \A c \in Sites \X Nodes : \A m \in NewReqs(c) : m.type = "IRSync" BY <1>3, IRSyncLoopStep
 <2>2. tx' = tx BY <1>3 DEF IRSyncLoop, execVars
 <2>3. \A c \in Sites \X Nodes : \A m \in NewReqs(c) : LeadReq(m, c) BY <2>1 DEF LeadReq
 <2> QED BY <1>0, <2>2, <2>3, QuietLeads
<1>4. ASSUME NEW src \in Sites, NEW mgr \in Managers, NotiWait(src, mgr) PROVE LeadersInv'
 <2>1. \A c \in Sites \X Nodes : \A m \in NewReqs(c) : m.type = "NotiCommit" BY <1>4, NotiWaitStep
 <2>2. tx' = tx BY <1>4 DEF NotiWait, execVars
 <2>3. \A c \in Sites \X Nodes : \A m \in NewReqs(c) : LeadReq(m, c) BY <2>1 DEF LeadReq
 <2> QED BY <1>0, <2>2, <2>3, QuietLeads
<1>5. ASSUME NEW mgr \in Managers, MgrFinish(mgr) PROVE LeadersInv'
 <2>1. tx' = tx /\ req' = req BY <1>5 DEF MgrFinish, execVars
 <2>2. \A c \in Sites \X Nodes : \A m \in NewReqs(c) : LeadReq(m, c) BY <2>1 DEF NewReqs
 <2> QED BY <1>0, <2>1, <2>2, QuietLeads
<1>6. ASSUME NEW src \in Sites, NEW s \in Sites, OnNotiCRT(src, s) \/ OnNotiCommit(src, s) PROVE LeadersInv'
 <2>1. tx' = tx /\ s \in Nodes BY <1>6, Placement DEF OnNotiCRT, OnNotiCommit, execVars
 <2>2. \E type : Receives(src, s, type) /\ req' = Taken(req, <<src, s>>) BY <1>6 DEF OnNotiCRT, OnNotiCommit
 <2>3. \A c \in Sites \X Nodes : \A m \in NewReqs(c) : LeadReq(m, c) BY <2>1, <2>2, OnlyTaken DEF NoNewReqs
 <2> QED BY <1>0, <2>1, <2>3, QuietLeads
<1>7. CASE Sync BY <1>3, <1>7 DEF Sync
<1>8. CASE Deliver
  BY <1>0, <1>4, <1>5, <1>6, <1>8, HearingLeads, PrepareLeads, OutputLeads, MgrPrepareCRTLeads DEF Deliver
<1> QED BY <1>1, <1>2, <1>7, <1>8 DEF Next
=====
