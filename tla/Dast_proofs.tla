----- MODULE Dast_proofs -----
(* Proofs about Dast for every deployment, workload and clock. *)
EXTENDS Dast, FiniteSetTheorems, SequenceTheorems, TLAPS

-----
(* Timestamps: the order is a strict total order, a nonempty finite set has a lowest
   member, and what GenerateChrTs and CalculateAnticipatedTs promise. *)

(* operator< of chr_ts_t is a strict total order: std::map and std::set keyed by
   chr_ts_t (ready_txns_, dist_txn_tss_) depend on it. *)
LEMMA LessIsStrictOrder ==
  ASSUME NEW a \in ChrTsType, NEW b \in ChrTsType, NEW c \in ChrTsType
  PROVE  /\ ~Less(a, a)
         /\ Less(a, b) /\ Less(b, c) => Less(a, c)
         /\ Less(a, b) \/ a = b \/ Less(b, a) BY DEF Less, ChrTsType

(* A nonempty finite set of timestamps, such as dist_txn_tss_, has a lowest member:
   *dist_txn_tss_.begin() is one of the floors and bounds them all.  By a smallest
   counterexample, the library's induction theorems being out of reach of the installed
   provers. *)
LEMMA LowTsIsLowest ==
  ASSUME NEW S \in SUBSET ChrTsType, IsFiniteSet(S), S # {}
  PROVE  /\ LowTs(S) \in S
         /\ \A f \in S : LessEq(LowTs(S), f)
<1> DEFINE HasLow(U) == \E low \in U : \A f \in U : LessEq(low, f)
           Bad == {U \in FiniteSubsetsOf(S) : U # {} /\ ~HasLow(U)}
<1>1. SUFFICES ASSUME ~HasLow(S) PROVE FALSE BY DEF LowTs
<1>2. Bad \subseteq FiniteSubsetsOf(S) /\ Bad # {} BY <1>1 DEF FiniteSubsetsOf
<1>3. PICK U \in Bad :
        \A V \in Bad : ~(<<V, U>> \in StrictSubsetOrdering(S)) BY <1>2, WFMin, FS_StrictSubsetOrderingWellFounded
<1>4. PICK x \in U : TRUE BY <1>3
<1>5. /\ U \in SUBSET S /\ IsFiniteSet(U)
      /\ U \ {x} \in FiniteSubsetsOf(S)
      /\ <<U \ {x}, U>> \in StrictSubsetOrdering(S) BY <1>3, <1>4, FS_RemoveElement
     DEF FiniteSubsetsOf, StrictSubsetOrdering
<1>6. U \ {x} # {}
 <2>1. SUFFICES ASSUME U \ {x} = {} PROVE HasLow(U) BY <1>3
 <2>2. \A f \in U : f = x BY <2>1
 <2> QED BY <1>4, <2>2 DEF LessEq
<1>7. PICK low \in U \ {x} : \A f \in U \ {x} : LessEq(low, f) BY <1>3, <1>5, <1>6
<1>8. low \in ChrTsType /\ x \in ChrTsType /\ U \subseteq ChrTsType BY <1>4, <1>5, <1>7
<1>9. CASE LessEq(low, x) BY <1>3, <1>4, <1>7, <1>9
<1>10. CASE ~LessEq(low, x)
 <2>1. Less(x, low) BY <1>8, <1>10, LessIsStrictOrder DEF LessEq
 <2>2. ASSUME NEW f \in U, f # x PROVE Less(x, f)
  <3>1. LessEq(low, f) /\ f \in ChrTsType BY <1>7, <1>8, <2>2
  <3> QED BY <1>8, <2>1, <3>1, LessIsStrictOrder DEF LessEq
 <2> QED BY <1>3, <1>4, <2>2 DEF LessEq
<1> QED BY <1>9, <1>10
(* It has a highest member as well: the loop of CheckRemotePrepared over the anticipated
   timestamps returns one of them that bounds them all. *)
LEMMA MaxTsIsHighest ==
  ASSUME NEW S \in SUBSET ChrTsType, IsFiniteSet(S), S # {}
  PROVE  /\ MaxTs(S) \in S
         /\ \A f \in S : LessEq(f, MaxTs(S))
<1> DEFINE HasHigh(U) == \E high \in U : \A f \in U : LessEq(f, high)
           Bad == {U \in FiniteSubsetsOf(S) : U # {} /\ ~HasHigh(U)}
<1>1. SUFFICES ASSUME ~HasHigh(S) PROVE FALSE BY DEF MaxTs
<1>2. Bad \subseteq FiniteSubsetsOf(S) /\ Bad # {} BY <1>1 DEF FiniteSubsetsOf
<1>3. PICK U \in Bad :
        \A V \in Bad : ~(<<V, U>> \in StrictSubsetOrdering(S)) BY <1>2, WFMin, FS_StrictSubsetOrderingWellFounded
<1>4. PICK x \in U : TRUE BY <1>3
<1>5. /\ U \in SUBSET S /\ IsFiniteSet(U)
      /\ U \ {x} \in FiniteSubsetsOf(S)
      /\ <<U \ {x}, U>> \in StrictSubsetOrdering(S) BY <1>3, <1>4, FS_RemoveElement
     DEF FiniteSubsetsOf, StrictSubsetOrdering
<1>6. U \ {x} # {}
 <2>1. SUFFICES ASSUME U \ {x} = {} PROVE HasHigh(U) BY <1>3
 <2>2. \A f \in U : f = x BY <2>1
 <2> QED BY <1>4, <2>2 DEF LessEq
<1>7. PICK high \in U \ {x} : \A f \in U \ {x} : LessEq(f, high) BY <1>3, <1>5, <1>6
<1>8. high \in ChrTsType /\ x \in ChrTsType /\ U \subseteq ChrTsType BY <1>4, <1>5, <1>7
<1>9. CASE LessEq(x, high) BY <1>3, <1>4, <1>7, <1>9
<1>10. CASE ~LessEq(x, high)
 <2>1. Less(high, x) BY <1>8, <1>10, LessIsStrictOrder DEF LessEq
 <2>2. ASSUME NEW f \in U, f # x PROVE Less(f, x)
  <3>1. LessEq(f, high) /\ f \in ChrTsType BY <1>7, <1>8, <2>2
  <3> QED BY <1>8, <2>1, <3>1, LessIsStrictOrder DEF LessEq
 <2> QED BY <1>3, <1>4, <2>2 DEF LessEq
<1> QED BY <1>9, <1>10
-----
(* What GenerateChrTs(true) returns: a timestamp later than the last one handed out,
   whatever the physical clock reads and whatever the offset. *)
LEMMA GenerateAdvances ==
  ASSUME NEW site \in Int, NEW now \in Int, NEW offset \in Int,
         NEW last \in ChrTsType, NEW floors \in SUBSET ChrTsType,
         IsFiniteSet(floors)
  PROVE  /\ GenerateChrTs(site, now, offset, last, floors) \in ChrTsType
         /\ Less(last, GenerateChrTs(site, now, offset, last, floors))
<1> DEFINE ret == StretchTs(PhysicalTs(site, now, offset), floors)
<1>1. ret \in ChrTsType BY LowTsIsLowest DEF StretchTs, PhysicalTs, ChrTsOf, ChrTsType
<1> HIDE DEF ret
<1>2. MonotonicTs(ret, last) \in ChrTsType /\ Less(last, MonotonicTs(ret, last))
  BY <1>1 DEF MonotonicTs, ChrTsOf, ChrTsType, Less, Greater
<1> QED BY <1>2 DEF GenerateChrTs, ret

(* The stretch: while the last timestamp handed out lies before the floor of every
   not-ready cross-region transaction, so does the next one.  It is why an intra-region
   transaction never has to wait for them.  Floors are anticipated timestamps, whose
   stretch counter is 0. *)
LEMMA GenerateStaysBelowFloors ==
  ASSUME NEW site \in Int, NEW now \in Int, NEW offset \in Int,
         NEW last \in ChrTsType, NEW floors \in SUBSET ChrTsType,
         IsFiniteSet(floors), \A g \in floors : g.stretch = 0,
         now + offset > 0,
         NEW f \in floors, last.time < f.time
  PROVE GenerateChrTs(site, now, offset, last, floors).time < f.time
<1> DEFINE ret == StretchTs(PhysicalTs(site, now, offset), floors)
<1>1. /\ LowTs(floors) \in floors /\ LowTs(floors) \in ChrTsType
      /\ LessEq(LowTs(floors), f) /\ f \in ChrTsType BY LowTsIsLowest
<1>2. LowTs(floors).time <= f.time /\ LowTs(floors).stretch = 0 BY <1>1 DEF LessEq, Less, ChrTsType
<1>3. ret \in ChrTsType /\ ret.time < f.time BY <1>1, <1>2 DEF StretchTs, PhysicalTs, ChrTsOf, ChrTsType, Less
<1> HIDE DEF ret
<1>4. MonotonicTs(ret, last).time < f.time BY <1>1, <1>3 DEF MonotonicTs, ChrTsOf, ChrTsType
<1> QED BY <1>4 DEF GenerateChrTs, ret

(* CalculateAnticipatedTs never returns a timestamp twice at one manager, and
   anticipates at least a round trip ahead of the coordinator's clock, however far the
   two clocks are apart. *)
LEMMA AnticipatedIsFresh ==
  ASSUME NEW mgr \in Int, NEW srcTs \in ChrTsType, NEW recvTs \in ChrTsType,
         NEW maxFuture \in ChrTsType, NEW rtt \in Nat
  PROVE  LET a == AnticipatedTs(mgr, srcTs, recvTs, maxFuture, rtt)
         IN  /\ a \in ChrTsType
             /\ Less(maxFuture, a)
             /\ srcTs.time + rtt <= a.time
             /\ recvTs.time + rtt <= a.time BY DEF AnticipatedTs, ChrTsOf, ChrTsType, Less, Greater

-----
(* Deployment and workload. *)

(* Quotients of the id arithmetic stay in range. *)
LEMMA DivInRange ==
  ASSUME NEW a \in Nat \ {0}, NEW b \in Nat \ {0}, NEW s \in 0 .. a * b - 1
  PROVE s \div b \in 0 .. a - 1
<1> DEFINE q == s \div b
<1>1. q \in Int /\ b * q <= s /\ q >= 0 OBVIOUS
<1> HIDE DEF q
<1>2. ASSUME q >= a PROVE FALSE
 <2>1. b * q >= b * a BY <1>1, <1>2
 <2> QED BY <1>1, <2>1
<1> QED BY <1>1, <1>2 DEF q

(* Every site has a partition, every partition a region (config.cc). *)
LEMMA Placement ==
  /\ \A s \in Sites : ParOf(s) \in Pars /\ s \in Int
  /\ \A par \in Pars : RegionOf(par) \in Regions
  /\ Sites \subseteq Nodes /\ Managers \subseteq Nodes
  /\ Nodes \subseteq Int
  /\ IsFiniteSet(Regions) /\ IsFiniteSet(Pars)
<1>1. NRegions \in Nat \ {0} /\ NShards \in Nat \ {0} /\ NReplicas \in Nat \ {0} BY SizesAssumption
<1>2. NRegions * NShards \in Nat \ {0} BY <1>1
<1>3. \A s \in Sites : ParOf(s) \in Pars /\ s \in Int BY <1>1, <1>2, DivInRange DEF Sites, ParOf, Pars
<1>4. \A par \in Pars : RegionOf(par) \in Regions BY <1>1, DivInRange DEF Pars, RegionOf, Regions
<1>5. Nodes \subseteq Int BY <1>1, <1>3 DEF Nodes, Managers, MgrOf, Regions
<1>6. IsFiniteSet(Regions) /\ IsFiniteSet(Pars) BY <1>1, <1>2, FS_Interval DEF Regions, Pars
<1> QED BY <1>3, <1>4, <1>5, <1>6 DEF Nodes

(* A transaction touches partitions and regions of the deployment, at least one and
   finitely many. *)
LEMMA Workload ==
  ASSUME NEW t \in Txns
  PROVE  /\ Touched(t) \subseteq Pars
         /\ TouchedRegions(t) \subseteq Regions
         /\ TouchedRegions(t) # {} /\ IsFiniteSet(TouchedRegions(t))
<1>1. \A p \in PiecesOf(t) : Piece[p].par \in Pars BY WorkloadAssumption DEF PiecesOf, PieceType
<1>2. Touched(t) \subseteq Pars /\ Touched(t) # {} BY <1>1, WorkloadAssumption DEF Touched
<1>3. TouchedRegions(t) \subseteq Regions /\ TouchedRegions(t) # {} BY <1>2, Placement DEF TouchedRegions
<1> QED BY <1>2, <1>3, Placement, FS_Subset

(* The variables that pieces hand on, and the pieces of a partition. *)
LEMMA PieceFacts ==
  /\ \A P \in SUBSET PieceIds : Gives(P) \in SUBSET Vars
  /\ \A t, par : PiecesAt(t, par) \in SUBSET PieceIds
<1>1. \A p \in PieceIds : Piece[p].gives \in SUBSET Vars BY WorkloadAssumption DEF PieceType
<1> QED BY <1>1 DEF Gives, PiecesAt, PiecesOf

-----
(* Sets of entries and of floors. *)

(* The image of a finite set under a function is finite. *)
LEMMA ImageIsFinite ==
  ASSUME NEW S, IsFiniteSet(S), NEW f
  PROVE IsFiniteSet({f[x] : x \in S})
<1> DEFINE T == {f[x] : x \in S}
           g == [x \in S |-> f[x]]
<1>1. g \in Surjection(S, T) BY DEF Surjection
<1> HIDE DEF g, T
<1>2. IsFiniteSet(T) BY <1>1, FS_Surjection
<1> QED BY <1>2 DEF T

(* A finite set of entries can be listed in the order of ready_txns_, so InTsOrder lists
   its members, each of them once. *)
LEMMA SortedOnce ==
  ASSUME NEW R \in Entries
  PROVE  /\ InTsOrder(R) \in [1..Cardinality(R) -> R] /\ Cardinality(R) \in Nat
         /\ \A i, j \in 1..Cardinality(R) : i < j => InTsOrder(R)[i] # InTsOrder(R)[j]
<1> DEFINE Sorted(q, n) == \A i, j \in 1..n : i < j => ~Less(q[j].ts, q[i].ts) /\ q[i] # q[j]
           HasOrder(U) == \E q \in [1..Cardinality(U) -> U] : Sorted(q, Cardinality(U))
           Bad == {U \in FiniteSubsetsOf(R) : ~HasOrder(U)}
<1>1. IsFiniteSet(R) /\ R \subseteq Entry BY DEF Entries
<1>2. SUFFICES ASSUME ~HasOrder(R) PROVE FALSE BY <1>1, FS_CardinalityType DEF InTsOrder
<1>3. Bad \subseteq FiniteSubsetsOf(R) /\ Bad # {} BY <1>1, <1>2 DEF FiniteSubsetsOf
<1>4. PICK U \in Bad : \A V \in Bad : ~(<<V, U>> \in StrictSubsetOrdering(R))
  BY <1>1, <1>3, WFMin, FS_StrictSubsetOrderingWellFounded
<1>5. IsFiniteSet(U) /\ U \subseteq R /\ Cardinality(U) \in Nat /\ ~HasOrder(U)
  BY <1>4, FS_CardinalityType DEF FiniteSubsetsOf
<1>6. U # {}
 <2>1. SUFFICES ASSUME U = {} PROVE HasOrder(U) BY <1>5
 <2>2. Cardinality(U) = 0 BY <2>1, FS_EmptySet
 <2>3. \A q : Sorted(q, 0) OBVIOUS
 <2>4. [i \in 1..0 |-> i] \in [1..0 -> U] OBVIOUS
 <2> QED BY <2>2, <2>3, <2>4
<1> DEFINE T == {e.ts : e \in U}
<1>7. T \in SUBSET ChrTsType /\ IsFiniteSet(T) /\ T # {}
 <2> DEFINE g == [e \in U |-> e.ts]
            I == {g[x] : x \in U}
 <2>1. T = I OBVIOUS
 <2>2. IsFiniteSet(I)
  <3> HIDE DEF g
  <3> QED BY <1>5, ImageIsFinite
 <2>3. IsFiniteSet(T) BY <2>1, <2>2
 <2> QED BY <1>1, <1>5, <1>6, <2>3 DEF Entry
<1>8. PICK x \in U : \A e \in U : ~Less(x.ts, e.ts)
 <2>1. PICK x \in U : x.ts = MaxTs(T) BY <1>7, MaxTsIsHighest
 <2>2. \A e \in U : LessEq(e.ts, x.ts) /\ e.ts \in ChrTsType BY <1>7, <2>1, MaxTsIsHighest
 <2>3. \A e \in U : ~Less(x.ts, e.ts) BY <2>2, LessIsStrictOrder DEF LessEq
 <2> QED BY <2>3
<1> DEFINE V == U \ {x}
           n == Cardinality(V)
<1>9. IsFiniteSet(V) /\ n \in Nat /\ Cardinality(U) = n + 1
 <2>1. IsFiniteSet(V) /\ Cardinality(V) = Cardinality(U) - 1 BY <1>5, <1>8, FS_RemoveElement
 <2>2. Cardinality(V) \in Nat BY <2>1, FS_CardinalityType
 <2> QED BY <1>5, <2>1, <2>2
<1>10. V \in FiniteSubsetsOf(R) /\ <<V, U>> \in StrictSubsetOrdering(R)
  BY <1>5, <1>8, <1>9 DEF FiniteSubsetsOf, StrictSubsetOrdering
<1>11. V \notin Bad BY <1>4, <1>10
<1>12. HasOrder(V) BY <1>10, <1>11
<1>13. PICK q \in [1..n -> V] : Sorted(q, n) BY <1>12
<1>14. V \subseteq U /\ x \notin V OBVIOUS
<1> HIDE DEF n, V
<1> DEFINE p == [i \in 1..(n + 1) |-> IF i = n + 1 THEN x ELSE q[i]]
<1>15. \A i \in 1..(n + 1) : i # n + 1 => i \in 1..n /\ p[i] = q[i] /\ q[i] \in V BY <1>9, <1>13
<1>16. p[n + 1] = x BY <1>9
<1>17. p \in [1..(n + 1) -> U] BY <1>8, <1>14, <1>15, <1>16
<1> HIDE DEF p
<1>18. Sorted(p, n + 1)
 <2> SUFFICES ASSUME NEW i \in 1..(n + 1), NEW j \in 1..(n + 1), i < j
              PROVE ~Less(p[j].ts, p[i].ts) /\ p[i] # p[j] OBVIOUS
 <2>1. i \in 1..n /\ p[i] = q[i] /\ q[i] \in V BY <1>9, <1>15
 <2>2. CASE j = n + 1 BY <1>8, <1>14, <1>16, <2>1, <2>2
 <2>3. CASE j # n + 1 BY <1>13, <1>15, <2>1, <2>3
 <2> QED BY <2>2, <2>3
<1>19. HasOrder(U) BY <1>9, <1>17, <1>18
<1> QED BY <1>5, <1>19

LEMMA SortedExists ==
  ASSUME NEW R \in Entries
  PROVE InTsOrder(R) \in [1..Cardinality(R) -> R] /\ Cardinality(R) \in Nat BY SortedOnce

(* dist_txn_tss_ stays a finite set of anticipated timestamps. *)
LEMMA FloorFacts ==
  ASSUME NEW F \in Floors
  PROVE  /\ F \in SUBSET ChrTsType /\ IsFiniteSet(F) /\ \A f \in F : f.stretch = 0
         /\ \A X : F \ X \in Floors
         /\ \A G \in Floors : F \cup G \in Floors
         /\ \A f \in AnticipatedType : {f} \in Floors
         /\ {} \in Floors
<1>1. F \in SUBSET AnticipatedType /\ IsFiniteSet(F) BY DEF Floors
<1>2. \A X : F \ X \in Floors BY <1>1, FS_Difference DEF Floors
<1>3. \A G \in Floors : F \cup G \in Floors BY <1>1, FS_Union DEF Floors
<1>4. \A f \in AnticipatedType : {f} \in Floors BY FS_Singleton DEF Floors
<1>5. {} \in Floors BY FS_EmptySet DEF Floors
<1>6. F \in SUBSET ChrTsType /\ \A f \in F : f.stretch = 0 BY <1>1 DEF AnticipatedType, ChrTsType
<1> QED BY <1>1, <1>2, <1>3, <1>4, <1>5, <1>6

(* ready_txns_ and my_txns_ stay finite maps from timestamps. *)
LEMMA EntryFacts ==
  ASSUME NEW R \in Entries
  PROVE  /\ R \subseteq Entry /\ IsFiniteSet(R)
         /\ \A S \in SUBSET R : S \in Entries
         /\ \A S \in Entries : R \cup S \in Entries /\ PiggyReady(R, S) \in Entries
         /\ \A ts \in ChrTsType, t \in Txns :
              {[ts |-> ts, id |-> t]} \in Entries /\ PutReady(R, ts, t) \in Entries
         /\ {} \in Entries
<1>1. R \subseteq Entry /\ IsFiniteSet(R) BY DEF Entries
<1>2. \A S \in SUBSET R : S \in Entries BY <1>1, FS_Subset DEF Entries
<1>3. \A S, T \in Entries : S \cup T \in Entries BY FS_Union DEF Entries
<1>4. \A ts \in ChrTsType, t \in Txns : {[ts |-> ts, id |-> t]} \in Entries
 <2> TAKE ts \in ChrTsType, t \in Txns
 <2>1. [ts |-> ts, id |-> t] \in Entry BY DEF Entry
 <2> QED BY <2>1, FS_Singleton DEF Entries
<1>5. \A S \in Entries : PiggyReady(R, S) \in Entries
 <2> TAKE S \in Entries
 <2>1. {e \in R : ~HasTs(S, e.ts)} \in Entries BY <1>2
 <2> QED BY <1>3, <2>1 DEF PiggyReady
<1>6. \A ts \in ChrTsType, t \in Txns : PutReady(R, ts, t) \in Entries
 <2> TAKE ts \in ChrTsType, t \in Txns
 <2>1. {e \in R : e.ts # ts} \in Entries BY <1>2
 <2> QED BY <1>3, <1>4, <2>1 DEF PutReady
<1>7. {} \in Entries BY FS_EmptySet DEF Entries
<1> QED BY <1>1, <1>2, <1>3, <1>4, <1>5, <1>6, <1>7

-----
(* Timestamps. *)

(* Anticipated timestamps are timestamps, and so is what the constructor returns. *)
LEMMA TsFacts ==
  /\ AnticipatedType \subseteq ChrTsType
  /\ ZeroTs \in AnticipatedType
  /\ \A time, stretch, site \in Int : ChrTsOf(time, stretch, site) \in ChrTsType
  BY DEF AnticipatedType, ChrTsType, ZeroTs, ChrTsOf

(* A node's next timestamp, at any reading of its clock. *)
LEMMA GenerateType ==
  ASSUME NEW n \in Nodes, NEW now \in PhysTimes, NEW floors \in Floors,
         clock_offset \in [Nodes -> Int], last_clock \in [Nodes -> ChrTsType]
  PROVE Generate(n, now, floors) \in ChrTsType
<1>1. now \in Int /\ n \in Int BY ClockAssumption, Placement
<1>2. floors \in SUBSET ChrTsType /\ IsFiniteSet(floors) BY FloorFacts
<1>3. (IF n \in Sites THEN n ELSE -1) \in Int BY <1>1
<1> QED BY <1>1, <1>2, <1>3, GenerateAdvances DEF Generate

(* The decision of CheckRemotePrepared is an anticipated timestamp, the highest one. *)
LEMMA DecisionIsHighest ==
  ASSUME NEW t \in Txns, NEW y \in TxType
  PROVE  /\ \E r \in TouchedRegions(t) : r \in Regions /\ DecisionTs(t, y) = y.anticipated[r]
         /\ \A r \in TouchedRegions(t) : LessEq(y.anticipated[r], DecisionTs(t, y))
         /\ DecisionTs(t, y) \in AnticipatedType
<1> DEFINE D == {y.anticipated[r] : r \in TouchedRegions(t)}
           ant == y.anticipated
<1>1. ant \in [Regions -> AnticipatedType] BY DEF TxType, TsOfRegions
<1>2. D \in SUBSET AnticipatedType /\ D # {} BY <1>1, Workload
<1>3. IsFiniteSet(D)
 <2> HIDE DEF ant
 <2>1. D = {ant[r] : r \in TouchedRegions(t)} BY DEF ant
 <2> HIDE DEF D
 <2> QED BY <2>1, Workload, ImageIsFinite
<1>4. MaxTs(D) \in D /\ \A f \in D : LessEq(f, MaxTs(D))
 <2> HIDE DEF D
 <2> QED BY <1>2, <1>3, TsFacts, MaxTsIsHighest
<1>5. DecisionTs(t, y) \in D /\ \A f \in D : LessEq(f, DecisionTs(t, y)) BY <1>4 DEF DecisionTs
<1> QED BY <1>2, <1>5, Workload

(* So it has the type of one. *)
LEMMA DecisionType ==
  ASSUME NEW t \in Txns, NEW y \in TxType
  PROVE DecisionTs(t, y) \in AnticipatedType BY DecisionIsHighest

-----
(* Transaction records. *)

(* The phases, the statuses of partitions and the anticipated timestamps of regions are
   closed under the assignments of the handlers. *)
LEMMA PhaseFacts ==
  /\ PHASE_EMPTY \in TxnPhase /\ DIST_REMOTE_SENT \in TxnPhase /\ LOCAL_NOT_STORED \in TxnPhase
  /\ LOCAL_CAN_EXE \in TxnPhase /\ DIST_CAN_EXE \in TxnPhase /\ OUTPUT_SENT \in TxnPhase
  /\ 0 \in InputReadyType /\ 1 \in InputReadyType /\ 2 \in InputReadyType
  /\ \A st \in StatusOfPars : \A par : \A v \in DistPartStatus :
       [st EXCEPT ![par] = v] \in StatusOfPars
  /\ \A a \in TsOfRegions : \A r : \A ts \in AnticipatedType :
       [a EXCEPT ![r] = ts] \in TsOfRegions
  /\ \A f \in [Pars -> DistPartStatus] : f \in StatusOfPars
  /\ \A f \in [Regions -> AnticipatedType] : f \in TsOfRegions
  /\ {P_NOT_RECEIVED, P_REMOTE_SENT, P_REMOTE_PREPARED, P_OUTPUT_RECEIVED} \subseteq DistPartStatus
<1>1. /\ PHASE_EMPTY \in TxnPhase /\ DIST_REMOTE_SENT \in TxnPhase /\ LOCAL_NOT_STORED \in TxnPhase
      /\ LOCAL_CAN_EXE \in TxnPhase /\ DIST_CAN_EXE \in TxnPhase /\ OUTPUT_SENT \in TxnPhase
      /\ 0 \in InputReadyType /\ 1 \in InputReadyType /\ 2 \in InputReadyType
  BY DEF TxnPhase, PHASE_EMPTY, DIST_REMOTE_SENT, LOCAL_NOT_STORED, LOCAL_CAN_EXE, DIST_CAN_EXE, OUTPUT_SENT,
    InputReadyType
<1>2. /\ \A st \in StatusOfPars : \A par : \A v \in DistPartStatus :
            [st EXCEPT ![par] = v] \in StatusOfPars
      /\ \A f \in [Pars -> DistPartStatus] : f \in StatusOfPars BY DEF StatusOfPars
<1>3. /\ \A a \in TsOfRegions : \A r : \A ts \in AnticipatedType :
            [a EXCEPT ![r] = ts] \in TsOfRegions
      /\ \A f \in [Regions -> AnticipatedType] : f \in TsOfRegions BY DEF TsOfRegions
<1>4. {P_NOT_RECEIVED, P_REMOTE_SENT, P_REMOTE_PREPARED, P_OUTPUT_RECEIVED} \subseteq DistPartStatus
  BY DEF DistPartStatus
<1> QED BY <1>1, <1>2, <1>3, <1>4

(* A record as the constructor leaves it. *)
LEMMA FreshTxType == FreshTx \in TxType
<1>1. [par \in Pars |-> P_NOT_RECEIVED] \in StatusOfPars BY PhaseFacts
<1>2. [r \in Regions |-> ZeroTs] \in TsOfRegions BY TsFacts, PhaseFacts
<1>3. ZeroTs \in ChrTsType BY TsFacts
<1> QED BY <1>1, <1>2, <1>3, PhaseFacts DEF FreshTx, TxType, Roles

(* Running pieces, merging input and answering keep a record well formed. *)
LEMMA AfterRunType ==
  ASSUME NEW y \in TxType, NEW run \in SUBSET PieceIds
  PROVE AfterRun(y, run) \in TxType
<1>1. Gives(run) \in SUBSET Vars BY PieceFacts
<1> QED BY <1>1 DEF AfterRun, TxType

(* Merging the variables of an OutputMsg. *)
LEMMA MergeType ==
  ASSUME NEW y \in TxType, NEW vs \in SUBSET Vars
  PROVE Merge(y, vs) \in TxType BY DEF Merge, TxType

(* CheckSendOutputToClient. *)
LEMMA AnswerType ==
  ASSUME NEW y \in TxType, NEW t
  PROVE CheckSendOutputToClient(t, y) \in TxType BY PhaseFacts DEF CheckSendOutputToClient, TxType

(* Noting that a partition's output has arrived. *)
LEMMA OutputReceivedType ==
  ASSUME NEW y \in TxType, NEW par
  PROVE [y EXCEPT !.status[par] = P_OUTPUT_RECEIVED] \in TxType
<1> DEFINE st == [y.status EXCEPT ![par] = P_OUTPUT_RECEIVED]
<1>1. st \in StatusOfPars BY PhaseFacts DEF TxType
<1>2. [y EXCEPT !.status[par] = P_OUTPUT_RECEIVED] = [y EXCEPT !.status = st] BY DEF TxType
<1> HIDE DEF st
<1> QED BY <1>1, <1>2 DEF TxType

(* The record after a visit of CheckExecutableTxns. *)
LEMMA ExecutedType ==
  ASSUME NEW x \in [Txns -> TxType], NEW e \in Entry, NEW run \in SUBSET PieceIds, NEW s
  PROVE Executed(s, run, x, e) \in TxType
<1> DEFINE y == AfterRun(x[e.id], RunIn(run, e))
           z == [y EXCEPT !.status[ParOf(s)] = P_OUTPUT_RECEIVED]
<1>1. y \in TxType
 <2>1. x[e.id] \in TxType /\ RunIn(run, e) \in SUBSET PieceIds BY DEF Entry, RunIn
 <2> QED BY <2>1, AfterRunType
<1> HIDE DEF y
<1>2. z \in TxType BY <1>1, OutputReceivedType
<1> HIDE DEF z
<1>3. CheckSendOutputToClient(e.id, z) \in TxType BY <1>2, AnswerType
<1> QED BY <1>1, <1>3 DEF Executed, y, z

(* The records that HandlePiggyInfo creates. *)
LEMMA PiggyTxType ==
  ASSUME NEW x \in [Txns -> TxType], NEW from \in Nodes, NEW fresh \in SUBSET Entry
  PROVE PiggyTx(x, from, fresh) \in [Txns -> TxType]
<1> DEFINE ts(t) == (CHOOSE e \in fresh : e.id = t).ts
           new(t) == [x[t] EXCEPT !.ts = ts(t), !.region_handler = from, !.phase = LOCAL_CAN_EXE]
<1>1. ASSUME NEW t \in Txns, \E e \in fresh : e.id = t PROVE new(t) \in TxType
 <2>1. ts(t) \in ChrTsType BY <1>1 DEF Entry
 <2>2. x[t] \in TxType /\ from \in Nodes \cup {-1} OBVIOUS
 <2>3. \A y \in TxType, c \in ChrTsType, h \in Nodes \cup {-1} :
         [y EXCEPT !.ts = c, !.region_handler = h, !.phase = LOCAL_CAN_EXE] \in TxType BY PhaseFacts DEF TxType
 <2> HIDE DEF ts
 <2> QED BY <2>1, <2>2, <2>3
<1> HIDE DEF new
<1> QED BY <1>1 DEF PiggyTx, new

-----
(* Connections. *)

(* Sending and receiving keep every message of a connection well formed; what is
   received was sent.  Msg is the kind of messages, D the nodes that get them. *)
LEMMA SendType ==
  ASSUME NEW Msg, NEW D \in SUBSET Nodes, NEW q \in [Sites \X D -> Seq(Msg)],
         NEW out \in [Nodes -> Seq(Msg)], NEW n
  PROVE Send(q, n, out) \in [Sites \X D -> Seq(Msg)]
<1>1. \A c \in Sites \X D : q[c] \o out[c[2]] \in Seq(Msg)
 <2> TAKE c \in Sites \X D
 <2>1. q[c] \in Seq(Msg) /\ out[c[2]] \in Seq(Msg) OBVIOUS
 <2> QED BY <2>1, ConcatProperties
<1> QED BY <1>1 DEF Send

(* Taking the first message off a connection. *)
LEMMA TakenType ==
  ASSUME NEW Msg, NEW D, NEW q \in [Sites \X D -> Seq(Msg)],
         NEW c \in Sites \X D, q[c] # <<>>
  PROVE Taken(q, c) \in [Sites \X D -> Seq(Msg)] /\ Head(q[c]) \in Msg
<1>1. q[c] \in Seq(Msg) OBVIOUS
<1>2. Tail(q[c]) \in Seq(Msg) /\ Head(q[c]) \in Msg BY <1>1, HeadTailProperties
<1> QED BY <1>2 DEF Taken

(* The messages of a handler, put together from parts. *)
LEMMA OutType ==
  ASSUME NEW Msg
  PROVE  /\ NoMsgs \in [Nodes -> Seq(Msg)]
         /\ \A D : \A m \in Msg : ToAll(D, m) \in [Nodes -> Seq(Msg)]
         /\ \A a, b \in [Nodes -> Seq(Msg)] : Then(a, b) \in [Nodes -> Seq(Msg)]
<1>1. NoMsgs \in [Nodes -> Seq(Msg)] BY DEF NoMsgs
<1>2. \A D : \A m \in Msg : ToAll(D, m) \in [Nodes -> Seq(Msg)] BY DEF ToAll
<1>3. ASSUME NEW a \in [Nodes -> Seq(Msg)], NEW b \in [Nodes -> Seq(Msg)] PROVE Then(a, b) \in [Nodes -> Seq(Msg)]
 <2>1. \A d \in Nodes : a[d] \o b[d] \in Seq(Msg) BY <1>3, ConcatProperties
 <2> QED BY <2>1 DEF Then
<1> QED BY <1>1, <1>2, <1>3

(* What the execution of pieces sends. *)
LEMMA OutputMsgsType ==
  ASSUME NEW s, NEW run \in SUBSET PieceIds, NEW R \in Entries
  PROVE OutputMsgs(s, run, R) \in [Nodes -> Seq(ReqMsg)]
<1> DEFINE S(d) == {e \in R : OutputTo(RunIn(run, e), ParOf(d)) # {}}
           q(d) == InTsOrder(S(d))
           msg(d, i) == [type |-> "SendOutput", txn |-> q(d)[i].id,
                         vars |-> OutputTo(RunIn(run, q(d)[i]), ParOf(d))]
           ms(d) == [i \in 1..Len(q(d)) |-> msg(d, i)]
<1>1. ASSUME NEW d \in Nodes PROVE ms(d) \in Seq(ReqMsg)
 <2>1. S(d) \in Entries BY EntryFacts
 <2>2. q(d) \in [1..Cardinality(S(d)) -> S(d)] /\ Cardinality(S(d)) \in Nat
  <3> HIDE DEF S
  <3> QED BY <2>1, SortedExists
 <2>3. S(d) \subseteq Entry BY <2>1, EntryFacts
 <2> HIDE DEF S, q
 <2>4. q(d) \in Seq(Entry) /\ Len(q(d)) \in Nat BY <2>2, <2>3
 <2>5. ASSUME NEW i \in 1..Len(q(d)) PROVE msg(d, i) \in ReqMsg
  <3>1. q(d)[i] \in Entry BY <2>4, <2>5
  <3>2. q(d)[i].id \in Txns BY <3>1 DEF Entry
  <3>3. OutputTo(RunIn(run, q(d)[i]), ParOf(d)) \in SUBSET Vars BY PieceFacts DEF OutputTo, RunIn
  <3> QED BY <3>2, <3>3 DEF ReqMsg
 <2> HIDE DEF msg
 <2> QED BY <2>4, <2>5, IsASeq
<1> HIDE DEF ms
<1> QED BY <1>1 DEF OutputMsgs, ms, q, S

(* The deferred replies of DistExe. *)
LEMMA DistExeRepliesType ==
  ASSUME NEW s, NEW run, NEW R \in Entries, NEW x
  PROVE DistExeReplies(s, run, R, x) \in [Nodes -> Seq(RepMsg)]
<1> DEFINE S(d) == {e \in R : x[e.id].owes = d /\ Ends(s, run, x, e)}
           q(d) == InTsOrder(S(d))
           msg(d, i) == [type |-> "DistExeRes", txn |-> q(d)[i].id]
           ms(d) == [i \in 1..Len(q(d)) |-> msg(d, i)]
<1>1. ASSUME NEW d \in Nodes PROVE ms(d) \in Seq(RepMsg)
 <2>1. S(d) \in Entries BY EntryFacts
 <2>2. q(d) \in [1..Cardinality(S(d)) -> S(d)] /\ Cardinality(S(d)) \in Nat
  <3> HIDE DEF S
  <3> QED BY <2>1, SortedExists
 <2>3. S(d) \subseteq Entry BY <2>1, EntryFacts
 <2> HIDE DEF S, q
 <2>4. q(d) \in Seq(Entry) /\ Len(q(d)) \in Nat BY <2>2, <2>3
 <2>5. ASSUME NEW i \in 1..Len(q(d)) PROVE msg(d, i) \in RepMsg
  <3>1. q(d)[i] \in Entry BY <2>4, <2>5
  <3>2. q(d)[i].id \in Txns BY <3>1 DEF Entry
  <3> QED BY <3>2 DEF RepMsg
 <2> HIDE DEF msg
 <2> QED BY <2>4, <2>5, IsASeq
<1> HIDE DEF ms
<1> QED BY <1>1 DEF DistExeReplies, ms, q, S

-----
(* The part of the type invariant that the execution of transactions is about, and the
   part that HandlePiggyInfo is about. *)
ExecTypeOK ==
  /\ ready_txns \in [Sites -> Entries]
  /\ tx \in [Sites -> [Txns -> TxType]]
  /\ new_input \in [Sites -> BOOLEAN]
  /\ distributed_txns_by_me \in [Sites -> SUBSET Txns]
  /\ dist_txn_tss \in [Nodes -> Floors]
  /\ replied \in SUBSET Txns
  /\ order \in [Sites -> SUBSET (PieceIds \X PieceIds)]

PiggyTypeOK ==
  /\ dtxns \in [Sites -> SUBSET Txns]
  /\ ir_site_notified_ts \in [Sites -> [Nodes -> ChrTsType]]
  /\ ir_site_max_ts \in [Sites -> [Nodes -> ChrTsType]]
  /\ clock_offset \in [Nodes -> Int]
  /\ ir_site_wait_ts \in [Sites -> SUBSET [ts : ChrTsType, site : Sites]]

(* The pieces that a call of CheckExecutableTxns may run. *)
LEMMA RunnableType ==
  ASSUME NEW R \in Entries, NEW x \in [Txns -> TxType]
  PROVE Runnable(R, x) \in SUBSET PieceIds
<1>1. \A e \in R : e.id \in Txns BY EntryFacts DEF Entry
<1>2. \A e \in R : x[e.id].pieces \in SUBSET PieceIds BY <1>1 DEF TxType
<1> QED BY <1>2 DEF Runnable

(* CheckExecutableTxns and the handlers that do not reach it keep the types of what they
   write. *)
LEMMA CheckExecutableTxnsType ==
  ASSUME ExecTypeOK, NEW s \in Sites, NEW run \in SUBSET PieceIds, NEW R \in Entries,
         NEW x \in [Txns -> TxType], NEW ni, NEW floors \in Floors, NEW maxTs,
         CheckExecutableTxns(s, run, R, x, ni, floors, maxTs)
  PROVE ExecTypeOK'
<1> DEFINE tried == {e \in R : Attempted(s, run, R, x, ni, e, maxTs)}
           ended == {e \in tried : Ends(s, run, x, e)}
           mine  == {e.id : e \in {c \in ended : x[c.id].role = "crtCoord"}}
           txns  == [t \in Txns |-> IF \E e \in tried : e.id = t /\ x[t].role # "unset"
                                    THEN Executed(s, run, x, CHOOSE e \in tried : e.id = t)
                                    ELSE x[t]]
           before == UNION {x[t].done : t \in Txns}
           done  == {e.id : e \in {c \in ended : x[c.id].role = "irtHandler"}}
           left  == R \ (ended \cup {e \in tried : x[e.id].region_handler # s})
           sooner(p, q) == \E d, e \in tried : /\ Piece[p].txn = d.id /\ Piece[q].txn = e.id
                                               /\ Less(d.ts, e.ts)
           pairs == (before \X run) \cup {w \in run \X run : sooner(w[1], w[2])}
<1>1. R \subseteq Entry /\ tried \subseteq Entry /\ left \in Entries BY EntryFacts
<1>2. mine \in SUBSET Txns /\ done \in SUBSET Txns BY <1>1 DEF Entry
<1>3. txns \in [Txns -> TxType]
 <2>1. ASSUME NEW t \in Txns, \E e \in tried : e.id = t
       PROVE Executed(s, run, x, CHOOSE e \in tried : e.id = t) \in TxType
  <3>1. (CHOOSE e \in tried : e.id = t) \in Entry BY <1>1, <2>1
  <3> QED BY <3>1, ExecutedType
 <2> HIDE DEF tried
 <2> QED BY <2>1
<1>4. before \in SUBSET PieceIds BY DEF TxType
<1>5. pairs \in SUBSET (PieceIds \X PieceIds) BY <1>4
<1>6. {t \in mine : txns[t].phase = OUTPUT_SENT} \in SUBSET Txns BY <1>2
<1>7. /\ ready_txns' = [ready_txns EXCEPT ![s] = left]
      /\ tx' = [tx EXCEPT ![s] = txns]
      /\ new_input' = [new_input EXCEPT ![s] = FALSE]
      /\ distributed_txns_by_me' = [distributed_txns_by_me EXCEPT ![s] = @ \ mine]
      /\ dist_txn_tss' = [dist_txn_tss EXCEPT ![s] = floors \ {x[t].ts : t \in mine}]
      /\ replied' = replied \cup done \cup {t \in mine : txns[t].phase = OUTPUT_SENT}
      /\ order' = [order EXCEPT ![s] = @ \cup (before \X run)
                     \cup {w \in run \X run : sooner(w[1], w[2])}] BY DEF CheckExecutableTxns
<1>8. floors \ {x[t].ts : t \in mine} \in Floors BY FloorFacts
<1>9. order' = [order EXCEPT ![s] = @ \cup pairs] BY <1>7 DEF ExecTypeOK
<1> HIDE DEF tried, ended, mine, txns, before, done, left, sooner, pairs
<1> QED BY <1>1, <1>2, <1>3, <1>5, <1>6, <1>7, <1>8, <1>9, Placement DEF ExecTypeOK

(* A handler that does not reach CheckExecutableTxns. *)
LEMMA NoExecutionType ==
  ASSUME ExecTypeOK, NEW s \in Sites, NEW R \in Entries, NEW x \in [Txns -> TxType],
         NEW ni \in BOOLEAN, NEW floors \in Floors, NoExecution(s, R, x, ni, floors)
  PROVE ExecTypeOK' BY Placement DEF ExecTypeOK, NoExecution

(* HandlePiggyInfo keeps the types of what it writes, and hands well-typed records,
   queue and floors to the rest of the handler. *)
LEMMA AdjustedOffsetType ==
  ASSUME NEW site \in Int, NEW now \in Int, NEW offset \in Int,
         NEW last \in ChrTsType, NEW remote \in ChrTsType
  PROVE  /\ AdjustedOffset(site, now, offset, last, remote) \in Int
         /\ AdjustedOffset(site, now, offset, last, remote) >= offset
  BY DEF AdjustedOffset, PeekChrTs, PhysicalTs, ChrTsOf, ChrTsType

(* The piggybacked part of a message is applied. *)
LEMMA HandlePiggyInfoType ==
  ASSUME PiggyTypeOK, ExecTypeOK, last_clock \in [Nodes -> ChrTsType],
         NEW s \in Sites, NEW from \in Nodes, NEW ts \in ChrTsType, NEW noti \in Entries,
         NEW delivered \in ChrTsType, NEW known \in SUBSET Txns, NEW now \in PhysTimes,
         HandlePiggyInfo(s, from, ts, noti, delivered, known, now)
  PROVE  /\ PiggyTypeOK'
         /\ Unknown(known, noti) \in Entries
         /\ PiggyFloors(s, from, ts) \in Floors
<1> USE DEF PiggyTypeOK, ExecTypeOK
<1>1. now \in Int /\ s \in Int /\ s \in Nodes BY ClockAssumption, Placement
<1>2. {e.id : e \in noti} \in SUBSET Txns BY EntryFacts DEF Entry
<1>3. dtxns' \in [Sites -> SUBSET Txns] BY <1>2 DEF HandlePiggyInfo
<1>4. ir_site_notified_ts' \in [Sites -> [Nodes -> ChrTsType]] BY DEF HandlePiggyInfo
<1>5. ir_site_max_ts' \in [Sites -> [Nodes -> ChrTsType]] BY DEF HandlePiggyInfo
<1>6. clock_offset' \in [Nodes -> Int]
 <2>1. AdjustedOffset(s, now, clock_offset[s], last_clock[s], ts) \in Int BY <1>1, AdjustedOffsetType
 <2> QED BY <1>1, <2>1 DEF HandlePiggyInfo
<1>7. ir_site_wait_ts' \in [Sites -> SUBSET [ts : ChrTsType, site : Sites]] BY DEF HandlePiggyInfo
<1>8. Unknown(known, noti) \in Entries BY EntryFacts DEF Unknown
<1>9. PiggyFloors(s, from, ts) \in Floors BY <1>1, FloorFacts DEF PiggyFloors
<1> QED BY <1>3, <1>4, <1>5, <1>6, <1>7, <1>8, <1>9

-----
(* Every action keeps the type invariant. *)

(* The parts of the type invariant. *)
LEMMA TypeParts ==
  ASSUME TypeOK
  PROVE ExecTypeOK /\ PiggyTypeOK /\ last_clock \in [Nodes -> ChrTsType] BY DEF TypeOK, ExecTypeOK, PiggyTypeOK

(* A verify() stops sites only. *)
LEMMA VerifyType ==
  ASSUME aborted \in SUBSET Sites, NEW s \in Sites, NEW cond, Verify(s, cond)
  PROVE aborted' \in SUBSET Sites BY DEF Verify

(* A timestamp further on in the stretch. *)
LEMMA AfterType ==
  ASSUME NEW ts \in ChrTsType, NEW k \in Int
  PROVE After(ts, k) \in ChrTsType BY DEF After, ChrTsOf, ChrTsType

(* What CollectNotifyTxns returns. *)
LEMMA CollectType ==
  ASSUME NEW mine \in Entries, NEW s, NEW d, NEW notified
  PROVE CollectNotifyTxns(s, d, mine, notified) \in Entries BY EntryFacts DEF CollectNotifyTxns

(* CheckExecutableTxns with all the messages of its callbacks. *)
LEMMA ExecutionType ==
  ASSUME ExecTypeOK, NEW s \in Sites, NEW R \in Entries, NEW x \in [Txns -> TxType], NEW ni,
         NEW floors \in Floors, NEW maxTs, NEW run \in SUBSET Runnable(R, x),
         CheckExecutableTxns(s, run, R, x, ni, floors, maxTs)
  PROVE  /\ ExecTypeOK'
         /\ OutputMsgs(s, run, R) \in [Nodes -> Seq(ReqMsg)]
         /\ DistExeReplies(s, run, R, x) \in [Nodes -> Seq(RepMsg)]
<1>1. run \in SUBSET PieceIds BY RunnableType
<1> QED BY <1>1, CheckExecutableTxnsType, OutputMsgsType, DistExeRepliesType

(* The fields of a message that is received. *)
LEMMA ReqFields ==
  ASSUME NEW m \in ReqMsg
  PROVE  /\ m.type \in {"PrepareIRT", "IRSync"} =>
              /\ m.ts \in ChrTsType /\ m.delivered \in ChrTsType /\ m.noti \in Entries
         /\ m.type = "IRSync" => m.from \in Nodes
         /\ m.type # "IRSync" => m.txn \in Txns
         /\ m.type = "PrepareRemote" => m.ts \in ChrTsType /\ m.wait \in BOOLEAN
         /\ m.type = "PrepareCRT" => /\ m.ts \in AnticipatedType /\ m.coord \in Int
                                     /\ m.leader \in Sites /\ m.input_ready \in 0..1
         /\ m.type = "NotiCRT" => m.ts \in AnticipatedType /\ m.touched \in SUBSET Sites
         /\ m.type = "RemotePrepared" => m.ts \in AnticipatedType /\ m.leads \in BOOLEAN
         /\ m.type = "DistExe" => m.ts \in AnticipatedType
         /\ m.type \in {"NotiWait", "NotiCommit"} =>
              /\ m.orig \in ChrTsType /\ m.wait \in BOOLEAN /\ m.new \in AnticipatedType
              /\ m.touched \in SUBSET Sites
              /\ [m EXCEPT !.type = "NotiCommit"] \in ReqMsg
         /\ m.type = "SendOutput" => m.vars \in SUBSET Vars BY DEF ReqMsg

(* The fields of a reply. *)
LEMMA RepFields ==
  ASSUME NEW m \in RepMsg
  PROVE  /\ m.txn \in Txns
         /\ m.type = "PrepareIRTRes" =>
              /\ m.ts \in ChrTsType /\ m.delivered \in ChrTsType /\ m.noti \in Entries BY DEF RepMsg

(* The request that a handler takes is well formed. *)
LEMMA ReceivesType ==
  ASSUME TypeOK, NEW src \in Sites, NEW dst \in Nodes, NEW type, Receives(src, dst, type)
  PROVE  /\ Head(req[<<src, dst>>]) \in ReqMsg
         /\ Head(req[<<src, dst>>]).type = type
         /\ Taken(req, <<src, dst>>) \in [Sites \X Nodes -> Seq(ReqMsg)]
<1>1. req \in [Sites \X Nodes -> Seq(ReqMsg)] BY DEF TypeOK
<1>2. req[<<src, dst>>] # <<>> /\ Head(req[<<src, dst>>]).type = type BY DEF Receives
<1>3. <<src, dst>> \in Sites \X Nodes OBVIOUS
<1> QED BY <1>1, <1>2, <1>3, TakenType

(* TypeOK is kept by HandleIRT. *)
LEMMA HandleIRTType ==
  ASSUME TypeOK, NEW s \in Sites, NEW t \in Txns, NEW now \in PhysTimes, NEW skips \in Nat,
         HandleIRT(s, t, now, skips)
  PROVE TypeOK'
<1> DEFINE ts   == After(Generate(s, now, dist_txn_tss[s]), skips)
           mine == my_txns[s] \cup {[ts |-> ts, id |-> t]}
           targets == (UNION {SitesByPartitionId(par) : par \in Touched(t)}) \ {s}
           y    == [FreshTx EXCEPT !.phase = LOCAL_NOT_STORED, !.ts = ts, !.region_handler = s,
                      !.role = "irtHandler", !.pieces = PiecesAt(t, ParOf(s))]
           msg(d) == [type |-> "PrepareIRT", txn |-> t, ts |-> ts, delivered |-> ZeroTs,
                      noti |-> CollectNotifyTxns(s, d, mine, ir_site_notified_ts[s][d])]
           out  == [d \in Nodes |-> IF d \in targets THEN <<msg(d)>> ELSE <<>>]
<1>1. s \in Nodes /\ targets \in SUBSET Sites BY Placement DEF SitesByPartitionId
<1>2. ts \in ChrTsType
 <2>1. dist_txn_tss[s] \in Floors /\ skips \in Int BY <1>1 DEF TypeOK
 <2>2. Generate(s, now, dist_txn_tss[s]) \in ChrTsType BY <1>1, <2>1, GenerateType DEF TypeOK
 <2> QED BY <2>1, <2>2, AfterType
<1>3. /\ aborted' \in SUBSET Sites
      /\ submitted' = submitted \cup {t}
      /\ last_clock' = [last_clock EXCEPT ![s] = ts]
      /\ dtxns' = [dtxns EXCEPT ![s] = @ \cup {t}]
      /\ my_txns' = [my_txns EXCEPT ![s] = mine]
      /\ ready_txns' = [ready_txns EXCEPT ![s] = PutReady(@, ts, t)]
      /\ tx' = [tx EXCEPT ![s][t] = y]
      /\ ir_synced' = [ir_synced EXCEPT ![s] = @ \cup targets]
      /\ req' = Send(req, s, out)
      /\ UNCHANGED <<clock_offset, dist_txn_tss, max_future_ts, mgr_todo, ir_site_max_ts,
                     ir_site_notified_ts, ir_site_wait_ts, syncs, distributed_txns_by_me,
                     new_input, replied, order, rep>> BY VerifyType DEF HandleIRT, TypeOK
<1> HIDE DEF ts, targets
<1>4. mine \in Entries /\ PutReady(ready_txns[s], ts, t) \in Entries
 <2>1. my_txns[s] \in Entries /\ ready_txns[s] \in Entries BY DEF TypeOK
 <2>2. {[ts |-> ts, id |-> t]} \in Entries /\ PutReady(ready_txns[s], ts, t) \in Entries BY <1>2, <2>1, EntryFacts
 <2> QED BY <2>1, <2>2, EntryFacts
<1> HIDE DEF mine
<1>5. y \in TxType BY <1>1, <1>2, FreshTxType, PhaseFacts, PieceFacts DEF TxType, Roles
<1>6. out \in [Nodes -> Seq(ReqMsg)]
 <2>1. ASSUME NEW d \in Nodes PROVE msg(d) \in ReqMsg
  <3>1. CollectNotifyTxns(s, d, mine, ir_site_notified_ts[s][d]) \in Entries BY <1>4, CollectType
  <3> QED BY <1>2, <3>1, TsFacts DEF ReqMsg
 <2> HIDE DEF msg
 <2> QED BY <2>1
<1>7. req' \in [Sites \X Nodes -> Seq(ReqMsg)]
 <2> HIDE DEF out
 <2> QED BY <1>3, <1>6, SendType DEF TypeOK
<1> HIDE DEF y
<1>8. tx' \in [Sites -> [Txns -> TxType]] BY <1>3, <1>5 DEF TypeOK
<1> QED BY <1>1, <1>2, <1>3, <1>4, <1>7, <1>8 DEF TypeOK

(* TypeOK is kept by OnPrepareIRT. *)
LEMMA OnPrepareIRTType ==
  ASSUME TypeOK, NEW src \in Sites, NEW s \in Sites, NEW now \in PhysTimes,
         OnPrepareIRT(src, s, now)
  PROVE TypeOK'
<1> DEFINE m     == Head(req[<<src, s>>])
           t     == m.txn
           known == dtxns[s] \cup {t}
           fresh == Unknown(known, m.noti)
           h     == IF SitesForSamePar(s, src) THEN src ELSE s
           x1    == [tx[s] EXCEPT ![t] = [@ EXCEPT !.ts = m.ts, !.region_handler = h,
                       !.phase = LOCAL_CAN_EXE, !.role = "irtReplica",
                       !.pieces = PiecesAt(t, ParOf(s)), !.done = {}, !.have = {}]]
           x2    == PiggyTx(x1, src, fresh)
           R     == PiggyReady(PutReady(ready_txns[s], m.ts, t), fresh)
<1>1. s \in Nodes /\ src \in Nodes BY Placement
<1>2. /\ m \in ReqMsg /\ m.type = "PrepareIRT"
      /\ Taken(req, <<src, s>>) \in [Sites \X Nodes -> Seq(ReqMsg)] BY <1>1, ReceivesType DEF OnPrepareIRT
<1>3. /\ t \in Txns /\ m.ts \in ChrTsType /\ m.delivered \in ChrTsType /\ m.noti \in Entries BY <1>2, ReqFields
<1>4. /\ HandlePiggyInfo(s, src, m.ts, m.noti, m.delivered, known, now)
      /\ Verify(s, \A e \in ready_txns[s] : e.ts = m.ts => e.id = t)
      /\ ir_synced' = [ir_synced EXCEPT ![s] = @ \cup {src}]
      /\ UNCHANGED <<max_future_ts, mgr_todo, syncs, my_txns, submitted>> BY DEF OnPrepareIRT
<1>5. PICK run \in SUBSET Runnable(R, x2) :
        /\ CheckExecutableTxns(s, run, R, x2, new_input[s],
                               PiggyFloors(s, src, m.ts), ir_site_max_ts'[s])
        /\ req' = Send(Taken(req, <<src, s>>), s, OutputMsgs(s, run, R))
        /\ LET ts == GenerateChrTs(s, now, clock_offset'[s], last_clock[s], dist_txn_tss'[s])
           IN  /\ last_clock' = [last_clock EXCEPT ![s] = ts]
               /\ rep' = Send(rep, s, Then(DistExeReplies(s, run, R, x2), ToAll({src},
                    [type |-> "PrepareIRTRes", txn |-> t, ts |-> ts, delivered |-> m.ts,
                     noti |-> CollectNotifyTxns(s, src, my_txns[s],
                                                ir_site_notified_ts'[s][src])]))) BY DEF OnPrepareIRT
<1> HIDE DEF m
<1>6. /\ PiggyTypeOK' /\ fresh \in Entries /\ PiggyFloors(s, src, m.ts) \in Floors
 <2>1. known \in SUBSET Txns BY <1>3 DEF TypeOK
 <2> HIDE DEF known
 <2> QED BY <1>1, <1>3, <1>4, <2>1, TypeParts, HandlePiggyInfoType
<1>7. x2 \in [Txns -> TxType]
 <2>1. tx[s] \in [Txns -> TxType] /\ h \in Nodes BY <1>1 DEF TypeOK
 <2>2. x1 \in [Txns -> TxType]
  <3> DEFINE y == [tx[s][t] EXCEPT !.ts = m.ts, !.region_handler = h,
                     !.phase = LOCAL_CAN_EXE, !.role = "irtReplica",
                     !.pieces = PiecesAt(t, ParOf(s)), !.done = {}, !.have = {}]
  <3>1. tx[s][t] \in TxType BY <1>3, <2>1
  <3>2. y \in TxType BY <1>3, <2>1, <3>1, PhaseFacts, PieceFacts DEF TxType, Roles
  <3>3. x1 = [tx[s] EXCEPT ![t] = y] BY <2>1
  <3> HIDE DEF x1, y
  <3> QED BY <2>1, <3>2, <3>3
 <2> HIDE DEF x1
 <2>3. fresh \in SUBSET Entry BY <1>6, EntryFacts
 <2> HIDE DEF fresh
 <2> QED BY <1>1, <2>2, <2>3, PiggyTxType
<1>8. R \in Entries
 <2>1. ready_txns[s] \in Entries BY DEF TypeOK
 <2>2. PutReady(ready_txns[s], m.ts, t) \in Entries BY <1>3, <2>1, EntryFacts
 <2> QED BY <1>6, <2>2, EntryFacts
<1> HIDE DEF x2, R, t, fresh, known
<1>9. /\ ExecTypeOK' /\ OutputMsgs(s, run, R) \in [Nodes -> Seq(ReqMsg)]
      /\ DistExeReplies(s, run, R, x2) \in [Nodes -> Seq(RepMsg)] BY <1>5, <1>6, <1>7, <1>8, TypeParts, ExecutionType
<1> DEFINE ts == GenerateChrTs(s, now, clock_offset'[s], last_clock[s], dist_txn_tss'[s])
           res == [type |-> "PrepareIRTRes", txn |-> t, ts |-> ts, delivered |-> m.ts,
                   noti |-> CollectNotifyTxns(s, src, my_txns[s], ir_site_notified_ts'[s][src])]
<1>10. ts \in ChrTsType
 <2>1. dist_txn_tss'[s] \in Floors /\ clock_offset'[s] \in Int /\ last_clock[s] \in ChrTsType
   BY <1>1, <1>6, <1>9 DEF ExecTypeOK, PiggyTypeOK, TypeOK
 <2>2. dist_txn_tss'[s] \in SUBSET ChrTsType /\ IsFiniteSet(dist_txn_tss'[s]) BY <2>1, FloorFacts
 <2>3. s \in Int /\ now \in Int BY Placement, ClockAssumption
 <2> QED BY <2>1, <2>2, <2>3, GenerateAdvances
<1> HIDE DEF ts
<1>11. res \in RepMsg
 <2>1. CollectNotifyTxns(s, src, my_txns[s], ir_site_notified_ts'[s][src]) \in Entries BY CollectType DEF TypeOK
 <2> QED BY <1>3, <1>10, <2>1 DEF RepMsg, t
<1>12. req' \in [Sites \X Nodes -> Seq(ReqMsg)] BY <1>2, <1>5, <1>9, SendType
<1>13. rep' \in [Sites \X Sites -> Seq(RepMsg)]
 <2>1. rep' = Send(rep, s, Then(DistExeReplies(s, run, R, x2), ToAll({src}, res))) BY <1>5 DEF ts
 <2> HIDE DEF res
 <2>2. Then(DistExeReplies(s, run, R, x2), ToAll({src}, res)) \in [Nodes -> Seq(RepMsg)] BY <1>9, <1>11, OutType
 <2> QED BY <2>1, <2>2, SendType, Placement DEF TypeOK
<1>14. last_clock' \in [Nodes -> ChrTsType] BY <1>5, <1>10 DEF ts, TypeOK
<1>15. aborted' \in SUBSET Sites BY <1>4, VerifyType DEF TypeOK
<1> QED BY <1>4, <1>6, <1>9, <1>12, <1>13, <1>14, <1>15 DEF TypeOK, ExecTypeOK, PiggyTypeOK

(* TypeOK is kept by PrepareIRTACK. *)
LEMMA PrepareIRTACKType ==
  ASSUME TypeOK, NEW src \in Sites, NEW s \in Sites, NEW now \in PhysTimes,
         PrepareIRTACK(src, s, now)
  PROVE TypeOK'
<1> DEFINE m     == Head(rep[<<src, s>>])
           t     == m.txn
           fresh == Unknown(dtxns[s], m.noti)
           x1    == PiggyTx(tx[s], src, fresh)
           R     == PiggyReady(ready_txns[s], fresh)
           x2    == IF x1[t].phase = LOCAL_CAN_EXE THEN x1
                    ELSE [x1 EXCEPT ![t] = [x1[t] EXCEPT !.acks = @ \cup {src}]]
           commits == x1[t].phase # LOCAL_CAN_EXE /\ StoredEverywhere(t, x2[t])
           x3    == [x2 EXCEPT ![t] = [@ EXCEPT !.phase = LOCAL_CAN_EXE]]
           floors == PiggyFloors(s, src, m.ts)
<1>1. s \in Nodes /\ src \in Nodes /\ Sites \in SUBSET Nodes BY Placement
<1>2. /\ m \in RepMsg /\ m.type = "PrepareIRTRes"
      /\ Taken(rep, <<src, s>>) \in [Sites \X Sites -> Seq(RepMsg)]
 <2>1. rep \in [Sites \X Sites -> Seq(RepMsg)] /\ <<src, s>> \in Sites \X Sites BY DEF TypeOK
 <2>2. rep[<<src, s>>] # <<>> /\ m.type = "PrepareIRTRes" BY DEF PrepareIRTACK
 <2> QED BY <2>1, <2>2, TakenType
<1>3. /\ t \in Txns /\ m.ts \in ChrTsType /\ m.delivered \in ChrTsType /\ m.noti \in Entries BY <1>2, RepFields
<1>4. /\ HandlePiggyInfo(s, src, m.ts, m.noti, m.delivered, dtxns[s], now)
      /\ Verify(s, t \in dtxns[s])
      /\ UNCHANGED <<last_clock, max_future_ts, mgr_todo, ir_synced, syncs, my_txns, submitted>> BY DEF PrepareIRTACK
<1>5. \/ /\ NoExecution(s, R, x2, new_input[s], floors)
         /\ rep' = Taken(rep, <<src, s>>)
         /\ UNCHANGED req
      \/ \E run \in SUBSET Runnable(R, x3) :
           /\ CheckExecutableTxns(s, run, R, x3, new_input[s], floors, ir_site_max_ts'[s])
           /\ req' = Send(req, s, OutputMsgs(s, run, R))
           /\ rep' = Send(Taken(rep, <<src, s>>), s, DistExeReplies(s, run, R, x3)) BY DEF PrepareIRTACK
<1> HIDE DEF m
<1>6. PiggyTypeOK' /\ fresh \in Entries /\ floors \in Floors
 <2>1. dtxns[s] \in SUBSET Txns BY DEF TypeOK
 <2> QED BY <1>1, <1>3, <1>4, <2>1, TypeParts, HandlePiggyInfoType
<1>7. x1 \in [Txns -> TxType]
 <2>1. tx[s] \in [Txns -> TxType] /\ fresh \in SUBSET Entry BY <1>6, EntryFacts DEF TypeOK
 <2> HIDE DEF fresh
 <2> QED BY <1>1, <2>1, PiggyTxType
<1>8. x2 \in [Txns -> TxType]
 <2> HIDE DEF x1
 <2> DEFINE y == [x1[t] EXCEPT !.acks = @ \cup {src}]
 <2>1. x1[t] \in TxType BY <1>3, <1>7
 <2>2. y \in TxType BY <2>1 DEF TxType
 <2>3. x2 = IF x1[t].phase = LOCAL_CAN_EXE THEN x1 ELSE [x1 EXCEPT ![t] = y] OBVIOUS
 <2> HIDE DEF y, x2
 <2> QED BY <1>3, <1>7, <2>2, <2>3
<1>9. x3 \in [Txns -> TxType]
 <2> HIDE DEF x2
 <2>1. \A y \in TxType : [y EXCEPT !.phase = LOCAL_CAN_EXE] \in TxType BY PhaseFacts DEF TxType
 <2> QED BY <1>3, <1>8, <2>1
<1>10. R \in Entries
 <2>1. ready_txns[s] \in Entries BY DEF TypeOK
 <2> HIDE DEF fresh
 <2> QED BY <1>6, <2>1, EntryFacts
<1> HIDE DEF x1, x2, x3, R, t, fresh, floors
<1>11. new_input[s] \in BOOLEAN BY DEF TypeOK
<1>12. /\ ExecTypeOK'
       /\ req' \in [Sites \X Nodes -> Seq(ReqMsg)] /\ rep' \in [Sites \X Sites -> Seq(RepMsg)]
 <2>1. CASE /\ NoExecution(s, R, x2, new_input[s], floors)
            /\ rep' = Taken(rep, <<src, s>>)
            /\ UNCHANGED req
  <3>1. ExecTypeOK' BY <1>6, <1>8, <1>10, <1>11, <2>1, TypeParts, NoExecutionType
  <3> QED BY <1>2, <2>1, <3>1 DEF TypeOK
 <2>2. ASSUME NEW run \in SUBSET Runnable(R, x3),
              CheckExecutableTxns(s, run, R, x3, new_input[s], floors, ir_site_max_ts'[s]),
              req' = Send(req, s, OutputMsgs(s, run, R)),
              rep' = Send(Taken(rep, <<src, s>>), s, DistExeReplies(s, run, R, x3))
       PROVE  /\ ExecTypeOK'
              /\ req' \in [Sites \X Nodes -> Seq(ReqMsg)]
              /\ rep' \in [Sites \X Sites -> Seq(RepMsg)]
  <3>1. /\ ExecTypeOK' /\ OutputMsgs(s, run, R) \in [Nodes -> Seq(ReqMsg)]
        /\ DistExeReplies(s, run, R, x3) \in [Nodes -> Seq(RepMsg)] BY <1>6, <1>9, <1>10, <2>2, TypeParts, ExecutionType
  <3> QED BY <1>1, <1>2, <2>2, <3>1, SendType DEF TypeOK
 <2> QED BY <1>5, <2>1, <2>2
<1>13. aborted' \in SUBSET Sites BY <1>4, VerifyType DEF TypeOK
<1> QED BY <1>4, <1>6, <1>12, <1>13 DEF TypeOK, ExecTypeOK, PiggyTypeOK

(* TypeOK is kept by OnIRSync. *)
LEMMA OnIRSyncType ==
  ASSUME TypeOK, NEW src \in Sites, NEW s \in Sites, NEW now \in PhysTimes,
         OnIRSync(src, s, now)
  PROVE TypeOK'
<1> DEFINE m     == Head(req[<<src, s>>])
           fresh == Unknown(dtxns[s], m.noti)
           x     == PiggyTx(tx[s], m.from, fresh)
           R     == PiggyReady(ready_txns[s], fresh)
           floors == PiggyFloors(s, m.from, m.ts)
<1>1. s \in Nodes /\ Sites \in SUBSET Nodes BY Placement
<1>2. /\ m \in ReqMsg /\ m.type = "IRSync"
      /\ Taken(req, <<src, s>>) \in [Sites \X Nodes -> Seq(ReqMsg)] BY <1>1, ReceivesType DEF OnIRSync
<1>3. /\ m.from \in Nodes /\ m.ts \in ChrTsType /\ m.delivered \in ChrTsType
      /\ m.noti \in Entries BY <1>2, ReqFields
<1>4. /\ HandlePiggyInfo(s, m.from, m.ts, m.noti, m.delivered, dtxns[s], now)
      /\ UNCHANGED <<last_clock, max_future_ts, mgr_todo, ir_synced, syncs, my_txns,
                     submitted, aborted>> BY DEF OnIRSync
<1>5. PICK run \in SUBSET Runnable(R, x) :
        /\ CheckExecutableTxns(s, run, R, x, new_input[s], floors, ir_site_max_ts'[s])
        /\ req' = Send(Taken(req, <<src, s>>), s, OutputMsgs(s, run, R))
        /\ rep' = Send(rep, s, DistExeReplies(s, run, R, x)) BY DEF OnIRSync
<1> HIDE DEF m
<1>6. PiggyTypeOK' /\ fresh \in Entries /\ floors \in Floors
 <2>1. dtxns[s] \in SUBSET Txns BY DEF TypeOK
 <2> QED BY <1>3, <1>4, <2>1, TypeParts, HandlePiggyInfoType
<1>7. x \in [Txns -> TxType]
 <2>1. tx[s] \in [Txns -> TxType] /\ fresh \in SUBSET Entry BY <1>6, EntryFacts DEF TypeOK
 <2> HIDE DEF fresh
 <2> QED BY <1>3, <2>1, PiggyTxType
<1>8. R \in Entries
 <2>1. ready_txns[s] \in Entries BY DEF TypeOK
 <2> HIDE DEF fresh
 <2> QED BY <1>6, <2>1, EntryFacts
<1> HIDE DEF x, R, fresh, floors
<1>9. /\ ExecTypeOK' /\ OutputMsgs(s, run, R) \in [Nodes -> Seq(ReqMsg)]
      /\ DistExeReplies(s, run, R, x) \in [Nodes -> Seq(RepMsg)] BY <1>5, <1>6, <1>7, <1>8, TypeParts, ExecutionType
<1>10. /\ req' \in [Sites \X Nodes -> Seq(ReqMsg)] /\ rep' \in [Sites \X Sites -> Seq(RepMsg)]
  BY <1>1, <1>2, <1>5, <1>9, SendType DEF TypeOK
<1> QED BY <1>4, <1>6, <1>9, <1>10 DEF TypeOK, ExecTypeOK, PiggyTypeOK

(* TypeOK is kept by a round of IRSyncLoop. *)
LEMMA IRSyncLoopType ==
  ASSUME TypeOK, NEW n \in Nodes, NEW now \in PhysTimes, IRSyncLoop(n, now)
  PROVE TypeOK'
<1> DEFINE targets == IF n \in Sites THEN Peers(n) \ ir_synced[n]
                      ELSE SitesInRegion(MgrRegion(n)) \ {MgrHost(n)}
           first   == Generate(n, now, dist_txn_tss[n])
           count(d) == Cardinality({c \in targets : c < d})
           tsOf(d) == ChrTsOf(first.time, first.stretch + count(d), first.site)
           last    == ChrTsOf(first.time, first.stretch + Cardinality(targets) - 1, first.site)
           msg(d)  == [type |-> "IRSync", from |-> n, ts |-> tsOf(d),
                       delivered |-> IF n \in Sites THEN ir_site_max_ts[n][d] ELSE ZeroTs,
                       noti |-> IF n \in Sites THEN CollectNotifyTxns(n, d, my_txns[n], ir_site_notified_ts[n][d])
                                               ELSE {}]
           out     == [d \in Nodes |-> IF d \in targets THEN <<msg(d)>> ELSE <<>>]
<1>1. /\ syncs' = [syncs EXCEPT ![n] = @ + 1]
      /\ last_clock' = [last_clock EXCEPT ![n] = IF targets = {} THEN @ ELSE last]
      /\ ir_synced' = IF n \in Sites THEN [ir_synced EXCEPT ![n] = {}] ELSE ir_synced
      /\ req' = Send(req, n, out)
      /\ UNCHANGED <<clock_offset, dist_txn_tss, max_future_ts, mgr_todo, ir_site_max_ts,
                     ir_site_notified_ts, ir_site_wait_ts, tableVars, execVars, rep,
                     submitted, aborted>> BY DEF IRSyncLoop
<1>2. first \in ChrTsType
 <2>1. dist_txn_tss[n] \in Floors BY DEF TypeOK
 <2> QED BY <2>1, GenerateType DEF TypeOK
<1>3. Cardinality(targets) \in Nat /\ \A d : count(d) \in Nat
 <2>1. targets \subseteq Sites BY DEF Peers, SitesInRegion
 <2>2. IsFiniteSet(Sites)
  <3>1. NRegions * NShards * NReplicas - 1 \in Int BY SizesAssumption
  <3> QED BY <3>1, FS_Interval DEF Sites
 <2> HIDE DEF targets
 <2>3. \A d : {c \in targets : c < d} \in SUBSET Sites BY <2>1
 <2> QED BY <2>1, <2>2, <2>3, FS_Subset, FS_CardinalityType
<1> HIDE DEF first, targets, count
<1>4. last \in ChrTsType /\ \A d : tsOf(d) \in ChrTsType BY <1>2, <1>3 DEF ChrTsOf, ChrTsType
<1> HIDE DEF last, tsOf
<1>5. out \in [Nodes -> Seq(ReqMsg)]
 <2>1. ASSUME NEW d \in Nodes PROVE msg(d) \in ReqMsg
  <3>1. (IF n \in Sites THEN ir_site_max_ts[n][d] ELSE ZeroTs) \in ChrTsType BY TsFacts DEF TypeOK
  <3>2. (IF n \in Sites THEN CollectNotifyTxns(n, d, my_txns[n], ir_site_notified_ts[n][d])
                        ELSE {}) \in Entries BY CollectType, FS_EmptySet DEF TypeOK, Entries
  <3> QED BY <1>4, <3>1, <3>2 DEF ReqMsg
 <2> HIDE DEF msg
 <2> QED BY <2>1
<1> HIDE DEF out
<1>6. req' \in [Sites \X Nodes -> Seq(ReqMsg)] BY <1>1, <1>5, SendType DEF TypeOK
<1>7. last_clock' \in [Nodes -> ChrTsType] BY <1>1, <1>4 DEF TypeOK
<1>8. syncs' \in [Nodes -> Nat] /\ ir_synced' \in [Sites -> SUBSET Sites] BY <1>1 DEF TypeOK
<1> QED BY <1>1, <1>6, <1>7, <1>8 DEF TypeOK, tableVars, execVars

(* TypeOK is kept by OnSubmitCRT. *)
LEMMA OnSubmitCRTType ==
  ASSUME TypeOK, NEW s \in Sites, NEW t \in Txns, NEW now \in PhysTimes,
         OnSubmitCRT(s, t, now)
  PROVE TypeOK'
<1> DEFINE ts == Generate(s, now, dist_txn_tss[s])
           ready == IF WaitsForInput(t) THEN 0 ELSE 1
           st == [par \in Pars |-> IF par \in Touched(t) THEN P_REMOTE_SENT ELSE P_NOT_RECEIVED]
           y  == [FreshTx EXCEPT !.phase = DIST_REMOTE_SENT, !.region_handler = s,
                    !.role = "crtCoord", !.pieces = CoordPieces(t, ParOf(s)),
                    !.input_ready = ready, !.status = st]
           msg == [type |-> "PrepareRemote", txn |-> t, ts |-> ts, wait |-> WaitsForInput(t)]
           D  == {MgrOf(r) : r \in TouchedRegions(t)}
<1>1. /\ Verify(s, t \notin distributed_txns_by_me[s])
      /\ submitted' = submitted \cup {t}
      /\ last_clock' = [last_clock EXCEPT ![s] = ts]
      /\ dtxns' = [dtxns EXCEPT ![s] = @ \cup {t}]
      /\ distributed_txns_by_me' = [distributed_txns_by_me EXCEPT ![s] = @ \cup {t}]
      /\ tx' = [tx EXCEPT ![s][t] = y]
      /\ req' = Send(req, s, ToAll(D, msg))
      /\ UNCHANGED <<clock_offset, dist_txn_tss, max_future_ts, mgr_todo, syncVars, my_txns,
                     ready_txns, new_input, replied, order, rep>> BY DEF OnSubmitCRT
<1>2. s \in Nodes BY Placement
<1>3. ts \in ChrTsType
 <2>1. dist_txn_tss[s] \in Floors BY <1>2 DEF TypeOK
 <2> QED BY <1>2, <2>1, GenerateType DEF TypeOK
<1> HIDE DEF ts
<1>4. st \in StatusOfPars /\ ready \in InputReadyType /\ CoordPieces(t, ParOf(s)) \in SUBSET PieceIds
  BY PhaseFacts, PieceFacts DEF CoordPieces
<1> HIDE DEF st, ready
<1>5. y \in TxType BY <1>2, <1>4, FreshTxType, PhaseFacts DEF TxType, Roles
<1> HIDE DEF y
<1>6. msg \in ReqMsg BY <1>3 DEF ReqMsg, WaitsForInput
<1> HIDE DEF msg, D
<1>7. req' \in [Sites \X Nodes -> Seq(ReqMsg)]
 <2>1. ToAll(D, msg) \in [Nodes -> Seq(ReqMsg)] BY <1>6, OutType
 <2> QED BY <1>1, <2>1, SendType DEF TypeOK
<1>8. tx' \in [Sites -> [Txns -> TxType]] BY <1>1, <1>5 DEF TypeOK
<1>9. aborted' \in SUBSET Sites BY <1>1, VerifyType DEF TypeOK
<1>10. last_clock' \in [Nodes -> ChrTsType] BY <1>1, <1>3 DEF TypeOK
<1>11. /\ dtxns' \in [Sites -> SUBSET Txns] /\ submitted' \in SUBSET Txns
       /\ distributed_txns_by_me' \in [Sites -> SUBSET Txns] BY <1>1 DEF TypeOK
<1> QED BY <1>1, <1>7, <1>8, <1>9, <1>10, <1>11 DEF TypeOK, syncVars

(* The anticipated timestamp has stretch counter 0, whatever clocks it is from. *)
LEMMA AnticipatedTsType ==
  ASSUME NEW mgr \in Int, NEW srcTs \in ChrTsType, NEW recvTs \in ChrTsType,
         NEW maxFuture \in AnticipatedType, NEW rtt \in Nat
  PROVE AnticipatedTs(mgr, srcTs, recvTs, maxFuture, rtt) \in AnticipatedType
  BY DEF AnticipatedTs, AnticipatedType, ChrTsOf, ChrTsType

(* The unfinished work of a manager. *)
LEMMA TodoType ==
  ASSUME NEW E \in SUBSET ChrTsType, NEW F \in Floors
  PROVE Todo(E, F) \in [erase : SUBSET ChrTsType, insert : Floors] BY DEF Todo

(* TypeOK is kept by DastManager::PrepareCRT. *)
LEMMA MgrPrepareCRTType ==
  ASSUME TypeOK, NEW src \in Sites, NEW mgr \in Managers, NEW now \in PhysTimes,
         MgrPrepareCRT(src, mgr, now)
  PROVE TypeOK'
<1> DEFINE m     == Head(req[<<src, mgr>>])
           coord == m.ts.site
           pars  == {par \in Touched(m.txn) : RegionOf(par) = MgrRegion(mgr)}
           touched == UNION {SitesByPartitionId(par) : par \in pars}
           mine  == Generate(mgr, now, dist_txn_tss[mgr])
           ant   == AnticipatedTs(mgr, m.ts, mine, max_future_ts[mgr], EstimatedRtt)
           ready(d) == IF m.wait /\ ParOf(d) = ParOf(coord) THEN 0 ELSE 1
           prep(d, leader) == [type |-> "PrepareCRT", txn |-> m.txn, ts |-> ant, coord |-> coord,
                               leader |-> leader[ParOf(d)], input_ready |-> ready(d)]
           noti  == [type |-> "NotiCRT", txn |-> m.txn, ts |-> ant, touched |-> touched]
           out(leader) == [d \in Nodes |->
                IF d \in touched THEN <<prep(d, leader)>>
                ELSE IF d \in SitesInRegion(MgrRegion(mgr)) THEN <<noti>> ELSE <<>>]
<1>1. mgr \in Nodes /\ mgr \in Int BY Placement
<1>2. /\ m \in ReqMsg /\ m.type = "PrepareRemote"
      /\ Taken(req, <<src, mgr>>) \in [Sites \X Nodes -> Seq(ReqMsg)] BY <1>1, ReceivesType DEF MgrPrepareCRT
<1>3. m.txn \in Txns /\ m.ts \in ChrTsType /\ coord \in Int BY <1>2, ReqFields DEF ChrTsType
<1>4. PICK leader \in [pars -> touched] : req' = Send(Taken(req, <<src, mgr>>), mgr, out(leader)) BY DEF MgrPrepareCRT
<1>5. /\ last_clock' = [last_clock EXCEPT ![mgr] = mine]
      /\ max_future_ts' = [max_future_ts EXCEPT ![mgr] = ant]
      /\ mgr_todo' = [mgr_todo EXCEPT ![mgr] = Todo({}, {ant})]
      /\ UNCHANGED <<clock_offset, dist_txn_tss, syncVars, tableVars, execVars, rep, submitted,
                     aborted>> BY DEF MgrPrepareCRT
<1>6. mine \in ChrTsType
 <2>1. dist_txn_tss[mgr] \in Floors BY <1>1 DEF TypeOK
 <2> QED BY <1>1, <2>1, GenerateType DEF TypeOK
<1> HIDE DEF m, mine
<1>7. ant \in AnticipatedType
 <2>1. max_future_ts[mgr] \in AnticipatedType /\ EstimatedRtt \in Nat BY ClockAssumption DEF TypeOK
 <2> QED BY <1>1, <1>3, <1>6, <2>1, AnticipatedTsType
<1> HIDE DEF ant, coord
<1>8. touched \in SUBSET Sites /\ \A d \in touched : ParOf(d) \in pars BY DEF SitesByPartitionId
<1>9. out(leader) \in [Nodes -> Seq(ReqMsg)]
 <2>1. ASSUME NEW d \in touched PROVE prep(d, leader) \in ReqMsg
  <3>1. leader[ParOf(d)] \in Sites /\ ready(d) \in 0..1 BY <1>4, <1>8, <2>1
  <3> HIDE DEF ready
  <3> QED BY <1>3, <1>7, <3>1 DEF ReqMsg
 <2> HIDE DEF touched
 <2>2. noti \in ReqMsg BY <1>3, <1>7, <1>8 DEF ReqMsg
 <2> HIDE DEF prep, noti
 <2> QED BY <2>1, <2>2
<1> HIDE DEF out
<1>10. req' \in [Sites \X Nodes -> Seq(ReqMsg)] BY <1>2, <1>4, <1>9, SendType
<1>11. Todo({}, {ant}) \in [erase : SUBSET ChrTsType, insert : Floors] BY <1>7, FS_Singleton, TodoType DEF Floors
<1> QED BY <1>1, <1>5, <1>6, <1>7, <1>10, <1>11 DEF TypeOK, syncVars, tableVars, execVars

(* TypeOK is kept by OnNotiCRT. *)
LEMMA OnNotiCRTType ==
  ASSUME TypeOK, NEW src \in Sites, NEW s \in Sites, OnNotiCRT(src, s)
  PROVE TypeOK'
<1> DEFINE m == Head(req[<<src, s>>])
           W == {[ts |-> m.ts, site |-> x] : x \in m.touched}
<1>1. s \in Nodes BY Placement
<1>2. /\ m \in ReqMsg /\ m.type = "NotiCRT"
      /\ Taken(req, <<src, s>>) \in [Sites \X Nodes -> Seq(ReqMsg)] BY <1>1, ReceivesType DEF OnNotiCRT
<1>3. m.ts \in AnticipatedType /\ m.touched \in SUBSET Sites BY <1>2, ReqFields
<1>4. /\ Verify(s, m.txn \notin dtxns[s])
      /\ dist_txn_tss' = [dist_txn_tss EXCEPT ![s] = @ \cup {m.ts}]
      /\ ir_site_wait_ts' = [ir_site_wait_ts EXCEPT ![s] = @ \cup W]
      /\ req' = Taken(req, <<src, s>>)
      /\ UNCHANGED <<last_clock, clock_offset, max_future_ts, mgr_todo, ir_site_max_ts,
                     ir_site_notified_ts, ir_synced, syncs, tableVars, execVars, rep, submitted>> BY DEF OnNotiCRT
<1> HIDE DEF m
<1>5. dist_txn_tss[s] \cup {m.ts} \in Floors
 <2>1. dist_txn_tss[s] \in Floors BY <1>1 DEF TypeOK
 <2> QED BY <1>3, <2>1, FloorFacts
<1>6. W \in SUBSET [ts : ChrTsType, site : Sites] BY <1>3, TsFacts
<1>7. aborted' \in SUBSET Sites BY <1>4, VerifyType DEF TypeOK
<1> HIDE DEF W
<1> QED BY <1>1, <1>2, <1>4, <1>5, <1>6, <1>7 DEF TypeOK, tableVars, execVars

(* CheckRemotePrepared, given a record with one more acknowledgement. *)
LEMMA CheckRemotePreparedType ==
  ASSUME TypeOK, NEW s \in Sites, NEW t \in Txns, NEW acked \in TxType, NEW par,
         NEW floors \in Floors, NEW q \in [Sites \X Nodes -> Seq(ReqMsg)],
         NEW now \in PhysTimes, CheckRemotePrepared(s, t, acked, par, floors, q, now)
  PROVE  /\ ExecTypeOK' /\ last_clock' \in [Nodes -> ChrTsType]
         /\ req' \in [Sites \X Nodes -> Seq(ReqMsg)] /\ rep' \in [Sites \X Sites -> Seq(RepMsg)]
<1> DEFINE y        == WithPrepared(acked, par)
           decides  == Prepared(acked, par) /\ AllPrepared(t, y)
           decision == DecisionTs(t, y)
           floors1  == (floors \ {y.ts}) \cup (IF AllPiecesInputReady(y) THEN {} ELSE {decision})
           z        == [y EXCEPT !.ts = decision, !.phase = DIST_CAN_EXE]
           x        == [tx[s] EXCEPT ![t] = z]
           R        == PutReady(ready_txns[s], decision, t)
           sites    == (UNION {SitesByPartitionId(p) : p \in Touched(t)}) \ {s}
           exe      == [type |-> "DistExe", txn |-> t, ts |-> decision]
           out      == [d \in Nodes |->
                          IF d \in sites THEN <<exe>>
                          ELSE IF d \in Managers /\ MgrRegion(d) \in TouchedRegions(t)
                          THEN <<NotiWaitMsg(s, t, y, MgrRegion(d))>>
                          ELSE <<>>]
<1>1. s \in Nodes /\ Sites \in SUBSET Nodes BY Placement
<1>2. /\ tx[s] \in [Txns -> TxType] /\ ready_txns[s] \in Entries /\ new_input[s] \in BOOLEAN
      /\ ir_site_max_ts[s] \in [Nodes -> ChrTsType] BY DEF TypeOK
<1>3. \/ /\ NoExecution(s, ready_txns[s], [tx[s] EXCEPT ![t] = y], new_input[s], floors)
         /\ req' = q
         /\ UNCHANGED <<last_clock, rep>>
      \/ /\ last_clock' = [last_clock EXCEPT ![s] = Generate(s, now, floors1)]
         /\ \E run \in SUBSET Runnable(R, x) :
              /\ CheckExecutableTxns(s, run, R, x, new_input[s], floors1, ir_site_max_ts[s])
              /\ req' = Send(q, s, Then(out, OutputMsgs(s, run, R)))
              /\ rep' = Send(rep, s, DistExeReplies(s, run, R, x)) BY DEF CheckRemotePrepared
<1>4. y \in TxType
 <2> DEFINE st == [acked.status EXCEPT ![par] = P_REMOTE_PREPARED]
 <2>1. st \in StatusOfPars BY PhaseFacts DEF TxType
 <2>2. [acked EXCEPT !.status[par] = P_REMOTE_PREPARED] = [acked EXCEPT !.status = st] BY DEF TxType
 <2> HIDE DEF st
 <2>3. [acked EXCEPT !.status = st] \in TxType BY <2>1 DEF TxType
 <2> QED BY <2>2, <2>3 DEF WithPrepared
<1> HIDE DEF y
<1>5. decision \in AnticipatedType /\ decision \in ChrTsType BY <1>4, DecisionType, TsFacts
<1>6. \A r \in TouchedRegions(t) : NotiWaitMsg(s, t, y, r) \in ReqMsg
 <2> TAKE r \in TouchedRegions(t)
 <2> DEFINE waits == ~AllPiecesInputReady(y) /\ r = SiteRegion(s)
            new == IF waits THEN decision ELSE ZeroTs
            touched == IF waits THEN SitesByPartitionId(ParOf(s)) ELSE {}
 <2>1. y.anticipated \in TsOfRegions /\ r \in Regions BY <1>4, Workload DEF TxType
 <2>2. y.anticipated[r] \in ChrTsType BY <2>1, TsFacts DEF TsOfRegions
 <2>3. waits \in BOOLEAN /\ new \in AnticipatedType /\ touched \in SUBSET Sites BY <1>5, TsFacts DEF SitesByPartitionId
 <2>4. NotiWaitMsg(s, t, y, r) = [type |-> "NotiWait", txn |-> t, orig |-> y.anticipated[r],
                                  wait |-> waits, new |-> new, touched |-> touched] BY DEF NotiWaitMsg
 <2> HIDE DEF waits, new, touched
 <2> QED BY <2>2, <2>3, <2>4 DEF ReqMsg
<1> HIDE DEF decision
<1>7. out \in [Nodes -> Seq(ReqMsg)]
 <2>1. exe \in ReqMsg BY <1>5 DEF ReqMsg
 <2> HIDE DEF exe, sites
 <2> QED BY <1>6, <2>1
<1> HIDE DEF out
<1>8. floors1 \in Floors
 <2>1. floors \ {y.ts} \in Floors /\ {} \in Floors /\ {decision} \in Floors BY <1>5, FloorFacts
 <2> QED BY <2>1, FloorFacts
<1>9. x \in [Txns -> TxType] /\ [tx[s] EXCEPT ![t] = y] \in [Txns -> TxType]
 <2>1. z \in TxType BY <1>4, <1>5, PhaseFacts DEF TxType
 <2> HIDE DEF z
 <2> QED BY <1>2, <1>4, <2>1
<1>10. R \in Entries BY <1>2, <1>5, EntryFacts
<1> HIDE DEF x, R, floors1
<1>11. CASE /\ NoExecution(s, ready_txns[s], [tx[s] EXCEPT ![t] = y], new_input[s], floors)
            /\ req' = q
            /\ UNCHANGED <<last_clock, rep>>
 <2> DEFINE xy == [tx[s] EXCEPT ![t] = y]
 <2>1. xy \in [Txns -> TxType] /\ NoExecution(s, ready_txns[s], xy, new_input[s], floors) BY <1>9, <1>11
 <2> HIDE DEF xy
 <2>2. ExecTypeOK' BY <1>2, <2>1, TypeParts, NoExecutionType
 <2> QED BY <1>11, <2>2 DEF TypeOK
<1>12. ASSUME last_clock' = [last_clock EXCEPT ![s] = Generate(s, now, floors1)],
              NEW run \in SUBSET Runnable(R, x),
              CheckExecutableTxns(s, run, R, x, new_input[s], floors1, ir_site_max_ts[s]),
              req' = Send(q, s, Then(out, OutputMsgs(s, run, R))),
              rep' = Send(rep, s, DistExeReplies(s, run, R, x))
       PROVE  /\ ExecTypeOK' /\ last_clock' \in [Nodes -> ChrTsType]
              /\ req' \in [Sites \X Nodes -> Seq(ReqMsg)]
              /\ rep' \in [Sites \X Sites -> Seq(RepMsg)]
 <2>1. /\ ExecTypeOK' /\ OutputMsgs(s, run, R) \in [Nodes -> Seq(ReqMsg)]
       /\ DistExeReplies(s, run, R, x) \in [Nodes -> Seq(RepMsg)] BY <1>8, <1>9, <1>10, <1>12, TypeParts, ExecutionType
 <2>2. Then(out, OutputMsgs(s, run, R)) \in [Nodes -> Seq(ReqMsg)] BY <1>7, <2>1, OutType
 <2>3. Generate(s, now, floors1) \in ChrTsType BY <1>1, <1>8, GenerateType DEF TypeOK
 <2>4. last_clock' \in [Nodes -> ChrTsType] BY <1>12, <2>3 DEF TypeOK
 <2>5. req' \in [Sites \X Nodes -> Seq(ReqMsg)] BY <1>12, <2>2, SendType
 <2>6. rep' \in [Sites \X Sites -> Seq(RepMsg)] BY <1>1, <1>12, <2>1, SendType DEF TypeOK
 <2> QED BY <2>1, <2>4, <2>5, <2>6
<1> QED BY <1>3, <1>11, <1>12

(* A record stays well formed when the coordinator counts its own acknowledgement, and
   when it counts that of another replica. *)
LEMMA OwnAckType ==
  ASSUME NEW y \in TxType, NEW s \in Sites, NEW ts \in AnticipatedType
  PROVE  [y EXCEPT !.mgr_acked = @ \cup {ParOf(s)}, !.acks = @ \cup {s}, !.ts = ts,
                   !.anticipated[SiteRegion(s)] = ts] \in TxType
<1> DEFINE a == [y.anticipated EXCEPT ![SiteRegion(s)] = ts]
<1>1. a \in TsOfRegions /\ ts \in ChrTsType /\ ParOf(s) \in Pars BY PhaseFacts, TsFacts, Placement DEF TxType
<1>2. [y EXCEPT !.mgr_acked = @ \cup {ParOf(s)}, !.acks = @ \cup {s}, !.ts = ts,
                !.anticipated[SiteRegion(s)] = ts]
        = [y EXCEPT !.mgr_acked = @ \cup {ParOf(s)}, !.acks = @ \cup {s}, !.ts = ts,
                    !.anticipated = a] BY DEF TxType
<1> HIDE DEF a
<1> QED BY <1>1, <1>2 DEF TxType

(* The same for the acknowledgement of another replica. *)
LEMMA AckType ==
  ASSUME NEW y \in TxType, NEW src \in Sites, NEW ts \in AnticipatedType, NEW leads
  PROVE  [y EXCEPT !.acks = @ \cup {src}, !.anticipated[RegionOf(ParOf(src))] = ts,
                   !.mgr_acked = IF leads THEN @ \cup {ParOf(src)} ELSE @] \in TxType
<1> DEFINE a == [y.anticipated EXCEPT ![RegionOf(ParOf(src))] = ts]
<1>1. a \in TsOfRegions /\ ParOf(src) \in Pars BY PhaseFacts, Placement DEF TxType
<1>2. [y EXCEPT !.acks = @ \cup {src}, !.anticipated[RegionOf(ParOf(src))] = ts,
                !.mgr_acked = IF leads THEN @ \cup {ParOf(src)} ELSE @]
        = [y EXCEPT !.acks = @ \cup {src}, !.anticipated = a,
                    !.mgr_acked = IF leads THEN @ \cup {ParOf(src)} ELSE @] BY DEF TxType
<1> HIDE DEF a
<1> QED BY <1>1, <1>2 DEF TxType

(* TypeOK is kept by OnPrepareCRT. *)
LEMMA OnPrepareCRTType ==
  ASSUME TypeOK, NEW src \in Sites, NEW s \in Sites, NEW now \in PhysTimes,
         OnPrepareCRT(src, s, now)
  PROVE TypeOK'
<1> DEFINE m     == Head(req[<<src, s>>])
           t     == m.txn
           y     == tx[s][t]
           acked == [y EXCEPT !.mgr_acked = @ \cup {ParOf(s)}, !.acks = @ \cup {s}, !.ts = m.ts,
                              !.anticipated[SiteRegion(s)] = m.ts]
           isNew == ~HasTs(ready_txns[s], m.ts) /\ m.ts \notin dist_txn_tss[s]
           q     == Taken(req, <<src, s>>)
           waits == [y EXCEPT !.input_ready = IF @ = 1 THEN m.input_ready ELSE @]
           new   == [FreshTx EXCEPT !.ts = m.ts, !.region_handler = m.leader,
                       !.role = "crtReplica", !.pieces = PiecesAt(t, ParOf(s)),
                       !.input_ready = m.input_ready]
           msg   == [type |-> "RemotePrepared", txn |-> t, ts |-> m.ts, leads |-> m.leader = s]
           floors == dist_txn_tss[s] \cup {m.ts}
<1>1. s \in Nodes /\ Sites \in SUBSET Nodes /\ ParOf(s) \in Pars BY Placement
<1>2. m \in ReqMsg /\ m.type = "PrepareCRT" /\ q \in [Sites \X Nodes -> Seq(ReqMsg)]
  BY <1>1, ReceivesType DEF OnPrepareCRT
<1>3. /\ t \in Txns /\ m.ts \in AnticipatedType /\ m.coord \in Int /\ m.leader \in Sites
      /\ m.input_ready \in 0..1 /\ m.ts \in ChrTsType BY <1>2, ReqFields, TsFacts
<1>4. UNCHANGED <<clock_offset, max_future_ts, mgr_todo, syncVars, my_txns, submitted>> BY DEF OnPrepareCRT
<1>5. \/ /\ \E cond : Verify(s, cond)
         /\ CheckRemotePrepared(s, t, acked, ParOf(s), floors, q, now)
         /\ UNCHANGED dtxns
      \/ /\ Verify(s, isNew)
         /\ tx' = [tx EXCEPT ![s][t] = waits]
         /\ req' = q
         /\ UNCHANGED <<last_clock, dist_txn_tss, dtxns, ready_txns, distributed_txns_by_me,
                        new_input, replied, order, rep>>
      \/ /\ Verify(s, isNew)
         /\ dtxns' = [dtxns EXCEPT ![s] = @ \cup {t}]
         /\ NoExecution(s, PutReady(ready_txns[s], m.ts, t), [tx[s] EXCEPT ![t] = new],
                        new_input[s], floors)
         /\ req' = Send(q, s, ToAll({m.coord}, msg))
         /\ UNCHANGED <<last_clock, rep>> BY DEF OnPrepareCRT
<1> HIDE DEF m, q, isNew
<1>6. /\ tx[s] \in [Txns -> TxType] /\ y \in TxType /\ ready_txns[s] \in Entries
      /\ new_input[s] \in BOOLEAN /\ dist_txn_tss[s] \in Floors BY <1>1, <1>3 DEF TypeOK
<1>7. floors \in Floors BY <1>3, <1>6, FloorFacts
<1>8. acked \in TxType BY <1>3, <1>6, OwnAckType
<1>9. waits \in TxType
 <2>1. m.input_ready \in InputReadyType BY <1>3 DEF InputReadyType
 <2> HIDE DEF y
 <2> QED BY <1>6, <2>1 DEF TxType
<1>10. new \in TxType
 <2>1. m.input_ready \in InputReadyType BY <1>3 DEF InputReadyType
 <2> QED BY <1>1, <1>3, <2>1, FreshTxType, PieceFacts DEF TxType, Roles
<1>11. msg \in ReqMsg BY <1>3 DEF ReqMsg
<1> HIDE DEF acked, waits, new, msg, floors, t
<1> DEFINE Rest == /\ ExecTypeOK' /\ last_clock' \in [Nodes -> ChrTsType]
                   /\ req' \in [Sites \X Nodes -> Seq(ReqMsg)]
                   /\ rep' \in [Sites \X Sites -> Seq(RepMsg)]
                   /\ dtxns' \in [Sites -> SUBSET Txns] /\ aborted' \in SUBSET Sites
<1> SUFFICES Rest BY <1>4 DEF TypeOK, ExecTypeOK, syncVars
<1>12. CASE /\ \E cond : Verify(s, cond)
            /\ CheckRemotePrepared(s, t, acked, ParOf(s), floors, q, now)
            /\ UNCHANGED dtxns
 <2>1. /\ ExecTypeOK' /\ last_clock' \in [Nodes -> ChrTsType]
       /\ req' \in [Sites \X Nodes -> Seq(ReqMsg)] /\ rep' \in [Sites \X Sites -> Seq(RepMsg)]
   BY <1>2, <1>3, <1>7, <1>8, <1>12, CheckRemotePreparedType DEF t
 <2>2. aborted' \in SUBSET Sites BY <1>12 DEF Verify, TypeOK
 <2> QED BY <1>12, <2>1, <2>2 DEF TypeOK
<1>13. CASE /\ Verify(s, isNew)
            /\ tx' = [tx EXCEPT ![s][t] = waits]
            /\ req' = q
            /\ UNCHANGED <<last_clock, dist_txn_tss, dtxns, ready_txns, distributed_txns_by_me,
                           new_input, replied, order, rep>>
 <2>1. tx' \in [Sites -> [Txns -> TxType]] BY <1>9, <1>13 DEF TypeOK
 <2>2. aborted' \in SUBSET Sites BY <1>13, VerifyType DEF TypeOK
 <2> QED BY <1>2, <1>13, <2>1, <2>2 DEF TypeOK, ExecTypeOK
<1>14. CASE /\ Verify(s, isNew)
            /\ dtxns' = [dtxns EXCEPT ![s] = @ \cup {t}]
            /\ NoExecution(s, PutReady(ready_txns[s], m.ts, t), [tx[s] EXCEPT ![t] = new],
                           new_input[s], floors)
            /\ req' = Send(q, s, ToAll({m.coord}, msg))
            /\ UNCHANGED <<last_clock, rep>>
 <2> DEFINE x == [tx[s] EXCEPT ![t] = new]
            R == PutReady(ready_txns[s], m.ts, t)
 <2>1. x \in [Txns -> TxType] BY <1>6, <1>10
 <2>2. R \in Entries BY <1>3, <1>6, EntryFacts DEF t
 <2>3. ExecTypeOK'
  <3>1. NoExecution(s, R, x, new_input[s], floors) BY <1>14
  <3> HIDE DEF x, R
  <3> QED BY <1>6, <1>7, <2>1, <2>2, <3>1, TypeParts, NoExecutionType
 <2>4. ToAll({m.coord}, msg) \in [Nodes -> Seq(ReqMsg)] BY <1>11, OutType
 <2>5. req' \in [Sites \X Nodes -> Seq(ReqMsg)] BY <1>2, <1>14, <2>4, SendType
 <2>6. aborted' \in SUBSET Sites BY <1>14, VerifyType DEF TypeOK
 <2>7. dtxns' \in [Sites -> SUBSET Txns] BY <1>3, <1>14 DEF TypeOK, t
 <2> QED BY <1>14, <2>3, <2>5, <2>6, <2>7 DEF TypeOK
<1> QED BY <1>5, <1>12, <1>13, <1>14

(* TypeOK is kept by OnRemotePrepared. *)
LEMMA OnRemotePreparedType ==
  ASSUME TypeOK, NEW src \in Sites, NEW s \in Sites, NEW now \in PhysTimes,
         OnRemotePrepared(src, s, now)
  PROVE TypeOK'
<1> DEFINE m     == Head(req[<<src, s>>])
           t     == m.txn
           par   == ParOf(src)
           y     == tx[s][t]
           acked == [y EXCEPT !.acks = @ \cup {src}, !.anticipated[RegionOf(par)] = m.ts,
                              !.mgr_acked = IF m.leads THEN @ \cup {par} ELSE @]
           q     == Taken(req, <<src, s>>)
<1>1. s \in Nodes /\ par \in Pars BY Placement
<1>2. m \in ReqMsg /\ m.type = "RemotePrepared" /\ q \in [Sites \X Nodes -> Seq(ReqMsg)]
  BY <1>1, ReceivesType DEF OnRemotePrepared
<1>3. t \in Txns /\ m.ts \in AnticipatedType BY <1>2, ReqFields
<1>4. /\ \E cond : Verify(s, cond)
      /\ CheckRemotePrepared(s, t, acked, par, dist_txn_tss[s], q, now)
      /\ UNCHANGED <<clock_offset, max_future_ts, mgr_todo, syncVars, tableVars, submitted>> BY DEF OnRemotePrepared
<1> HIDE DEF m, q
<1>5. y \in TxType /\ dist_txn_tss[s] \in Floors BY <1>1, <1>3 DEF TypeOK
<1>6. acked \in TxType BY <1>3, <1>5, AckType
<1> HIDE DEF acked, t, par
<1>7. /\ ExecTypeOK' /\ last_clock' \in [Nodes -> ChrTsType]
      /\ req' \in [Sites \X Nodes -> Seq(ReqMsg)] /\ rep' \in [Sites \X Sites -> Seq(RepMsg)]
  BY <1>2, <1>3, <1>4, <1>5, <1>6, CheckRemotePreparedType
<1>8. aborted' \in SUBSET Sites BY <1>4 DEF Verify, TypeOK
<1> QED BY <1>4, <1>7, <1>8 DEF TypeOK, ExecTypeOK, syncVars, tableVars

(* TypeOK is kept by OnDistExe. *)
LEMMA OnDistExeType ==
  ASSUME TypeOK, NEW src \in Sites, NEW s \in Sites, OnDistExe(src, s)
  PROVE TypeOK'
<1> DEFINE m  == Head(req[<<src, s>>])
           t  == m.txn
           y  == tx[s][t]
           R0 == {e \in ready_txns[s] : e.ts # y.ts}
           R  == PutReady(R0, m.ts, t)
           z  == [y EXCEPT !.phase = DIST_CAN_EXE, !.ts = m.ts,
                           !.owes = IF y.region_handler = s THEN src ELSE @]
           x  == [tx[s] EXCEPT ![t] = z]
           floors == (dist_txn_tss[s] \ {y.ts}) \cup (IF AllPiecesInputReady(y) THEN {} ELSE {m.ts})
           q  == Taken(req, <<src, s>>)
<1>1. s \in Nodes /\ Sites \in SUBSET Nodes BY Placement
<1>2. m \in ReqMsg /\ m.type = "DistExe" /\ q \in [Sites \X Nodes -> Seq(ReqMsg)] BY <1>1, ReceivesType DEF OnDistExe
<1>3. t \in Txns /\ m.ts \in AnticipatedType /\ m.ts \in ChrTsType BY <1>2, ReqFields, TsFacts
<1>4. /\ Verify(s, t \in dtxns[s] => ~HasTs(R0, m.ts))
      /\ UNCHANGED <<last_clock, clock_offset, max_future_ts, mgr_todo, syncVars, my_txns, submitted>> BY DEF OnDistExe
<1>5. \/ /\ \E run \in SUBSET Runnable(R, x) :
              /\ CheckExecutableTxns(s, run, R, x, new_input[s], floors, ir_site_max_ts[s])
              /\ req' = Send(q, s, OutputMsgs(s, run, R))
              /\ rep' = Send(rep, s, DistExeReplies(s, run, R, x))
         /\ UNCHANGED dtxns
      \/ /\ dtxns' = [dtxns EXCEPT ![s] = @ \cup {t}]
         /\ req' = q
         /\ UNCHANGED <<dist_txn_tss, execVars, rep>> BY DEF OnDistExe
<1> HIDE DEF m, q
<1>6. /\ tx[s] \in [Txns -> TxType] /\ y \in TxType /\ ready_txns[s] \in Entries
      /\ dist_txn_tss[s] \in Floors BY <1>1, <1>3 DEF TypeOK
<1>7. R \in Entries
 <2>1. R0 \in Entries BY <1>6, EntryFacts
 <2> HIDE DEF R0
 <2> QED BY <1>3, <2>1, EntryFacts
<1>8. floors \in Floors
 <2>1. dist_txn_tss[s] \ {y.ts} \in Floors /\ {} \in Floors /\ {m.ts} \in Floors BY <1>3, <1>6, FloorFacts
 <2> QED BY <2>1, FloorFacts
<1>9. x \in [Txns -> TxType]
 <2>1. z \in TxType
  <3> HIDE DEF y
  <3> QED BY <1>3, <1>6, PhaseFacts DEF TxType
 <2> HIDE DEF z
 <2> QED BY <1>6, <2>1
<1> HIDE DEF x, R, floors
<1> DEFINE Rest == /\ ExecTypeOK' /\ req' \in [Sites \X Nodes -> Seq(ReqMsg)]
                   /\ rep' \in [Sites \X Sites -> Seq(RepMsg)]
                   /\ dtxns' \in [Sites -> SUBSET Txns]
<1> SUFFICES Rest
 <2>1. aborted' \in SUBSET Sites BY <1>4, VerifyType DEF TypeOK
 <2> QED BY <1>4, <2>1 DEF TypeOK, ExecTypeOK, syncVars
<1>10. ASSUME NEW run \in SUBSET Runnable(R, x),
              CheckExecutableTxns(s, run, R, x, new_input[s], floors, ir_site_max_ts[s]),
              req' = Send(q, s, OutputMsgs(s, run, R)),
              rep' = Send(rep, s, DistExeReplies(s, run, R, x)),
              UNCHANGED dtxns
       PROVE Rest
 <2>1. /\ ExecTypeOK' /\ OutputMsgs(s, run, R) \in [Nodes -> Seq(ReqMsg)]
       /\ DistExeReplies(s, run, R, x) \in [Nodes -> Seq(RepMsg)] BY <1>7, <1>8, <1>9, <1>10, TypeParts, ExecutionType
 <2> QED BY <1>1, <1>2, <1>10, <2>1, SendType DEF TypeOK
<1>11. CASE /\ dtxns' = [dtxns EXCEPT ![s] = @ \cup {t}]
            /\ req' = q
            /\ UNCHANGED <<dist_txn_tss, execVars, rep>> BY <1>2, <1>3, <1>11 DEF TypeOK, ExecTypeOK, execVars
<1> QED BY <1>5, <1>10, <1>11

(* TypeOK is kept by DistExeAck. *)
LEMMA DistExeAckType ==
  ASSUME TypeOK, NEW src \in Sites, NEW s \in Sites, DistExeAck(src, s)
  PROVE TypeOK'
<1> DEFINE m == Head(rep[<<src, s>>])
           y == [tx[s][m.txn] EXCEPT !.status[ParOf(src)] = P_OUTPUT_RECEIVED]
           z == IF y.phase = OUTPUT_SENT THEN y ELSE CheckSendOutputToClient(m.txn, y)
<1>1. m \in RepMsg /\ Taken(rep, <<src, s>>) \in [Sites \X Sites -> Seq(RepMsg)]
 <2>1. rep \in [Sites \X Sites -> Seq(RepMsg)] /\ <<src, s>> \in Sites \X Sites BY DEF TypeOK
 <2>2. rep[<<src, s>>] # <<>> BY DEF DistExeAck
 <2> QED BY <2>1, <2>2, TakenType
<1>2. m.txn \in Txns BY <1>1, RepFields
<1>3. /\ \E cond : Verify(s, cond)
      /\ tx' = [tx EXCEPT ![s][m.txn] = z]
      /\ replied' = IF z.phase = OUTPUT_SENT THEN replied \cup {m.txn} ELSE replied
      /\ rep' = Taken(rep, <<src, s>>)
      /\ UNCHANGED <<clockVars, syncVars, tableVars, ready_txns, distributed_txns_by_me,
                     new_input, order, req, submitted>> BY DEF DistExeAck
<1> HIDE DEF m
<1>4. z \in TxType
 <2>1. tx[s][m.txn] \in TxType BY <1>2 DEF TypeOK
 <2>2. y \in TxType BY <2>1, OutputReceivedType
 <2> HIDE DEF y
 <2> QED BY <2>2, AnswerType
<1> HIDE DEF z
<1>5. tx' \in [Sites -> [Txns -> TxType]] /\ replied' \in SUBSET Txns BY <1>2, <1>3, <1>4 DEF TypeOK
<1>6. aborted' \in SUBSET Sites BY <1>3 DEF Verify, TypeOK
<1> QED BY <1>1, <1>3, <1>5, <1>6 DEF TypeOK, clockVars, syncVars, tableVars

(* DastManager::NotiWait forwards the release and defers its last statements. *)
LEMMA NotiWaitType ==
  ASSUME TypeOK, NEW src \in Sites, NEW mgr \in Managers, NotiWait(src, mgr)
  PROVE TypeOK'
<1> DEFINE m   == Head(req[<<src, mgr>>])
           msg == [m EXCEPT !.type = "NotiCommit"]
           D   == SitesInRegion(MgrRegion(mgr)) \ m.touched
           F   == IF m.wait THEN {m.new} ELSE {}
<1>1. mgr \in Nodes BY Placement
<1>2. /\ m \in ReqMsg /\ m.type = "NotiWait"
      /\ Taken(req, <<src, mgr>>) \in [Sites \X Nodes -> Seq(ReqMsg)] BY <1>1, ReceivesType DEF NotiWait
<1>3. m.orig \in ChrTsType /\ m.new \in AnticipatedType /\ msg \in ReqMsg BY <1>2, ReqFields
<1>4. /\ req' = Send(Taken(req, <<src, mgr>>), mgr, ToAll(D, msg))
      /\ mgr_todo' = [mgr_todo EXCEPT ![mgr] = Todo({m.orig}, F)]
      /\ UNCHANGED <<last_clock, clock_offset, dist_txn_tss, max_future_ts, syncVars, tableVars,
                     execVars, rep, submitted, aborted>> BY DEF NotiWait
<1> HIDE DEF m, D, msg
<1>5. ToAll(D, msg) \in [Nodes -> Seq(ReqMsg)] BY <1>3, OutType
<1>6. req' \in [Sites \X Nodes -> Seq(ReqMsg)] BY <1>2, <1>4, <1>5, SendType
<1>7. F \in Floors BY <1>3, FS_Singleton, FS_EmptySet DEF Floors
<1> HIDE DEF F
<1>8. Todo({m.orig}, F) \in [erase : SUBSET ChrTsType, insert : Floors] BY <1>3, <1>7, TodoType
<1> QED BY <1>4, <1>6, <1>8 DEF TypeOK, syncVars, tableVars, execVars

(* The last statements of a manager's handler. *)
LEMMA MgrFinishType ==
  ASSUME TypeOK, NEW mgr \in Managers, MgrFinish(mgr)
  PROVE TypeOK'
<1> DEFINE F == (dist_txn_tss[mgr] \ mgr_todo[mgr].erase) \cup mgr_todo[mgr].insert
<1>1. mgr \in Nodes BY Placement
<1>2. /\ dist_txn_tss' = [dist_txn_tss EXCEPT ![mgr] = F]
      /\ mgr_todo' = [mgr_todo EXCEPT ![mgr] = Idle]
      /\ UNCHANGED <<last_clock, clock_offset, max_future_ts, syncVars, tableVars, execVars,
                     req, rep, submitted, aborted>> BY DEF MgrFinish
<1>3. dist_txn_tss[mgr] \in Floors /\ mgr_todo[mgr].insert \in Floors BY <1>1 DEF TypeOK
<1>4. F \in Floors
 <2>1. dist_txn_tss[mgr] \ mgr_todo[mgr].erase \in Floors BY <1>3, FloorFacts
 <2> QED BY <1>3, <2>1, FloorFacts
<1>5. Idle \in [erase : SUBSET ChrTsType, insert : Floors] BY FS_EmptySet, TodoType DEF Idle, Floors
<1> HIDE DEF F
<1> QED BY <1>2, <1>4, <1>5 DEF TypeOK, syncVars, tableVars, execVars

(* OnNotiCommit replaces one floor by another. *)
LEMMA OnNotiCommitType ==
  ASSUME TypeOK, NEW src \in Sites, NEW s \in Sites, OnNotiCommit(src, s)
  PROVE TypeOK'
<1> DEFINE m == Head(req[<<src, s>>])
           F == IF m.wait THEN {m.new} ELSE {}
           G == (dist_txn_tss[s] \ {m.orig}) \cup F
           W == IF m.wait THEN {[ts |-> m.new, site |-> x] : x \in m.touched} ELSE {}
<1>1. s \in Nodes BY Placement
<1>2. /\ m \in ReqMsg /\ m.type = "NotiCommit"
      /\ Taken(req, <<src, s>>) \in [Sites \X Nodes -> Seq(ReqMsg)] BY <1>1, ReceivesType DEF OnNotiCommit
<1>3. m.new \in AnticipatedType /\ m.touched \in SUBSET Sites BY <1>2, ReqFields
<1>4. /\ dist_txn_tss' = [dist_txn_tss EXCEPT ![s] = G]
      /\ ir_site_wait_ts' = [ir_site_wait_ts EXCEPT ![s] = {w \in @ : w.ts # m.orig} \cup W]
      /\ req' = Taken(req, <<src, s>>)
      /\ UNCHANGED <<last_clock, clock_offset, max_future_ts, mgr_todo, ir_site_max_ts,
                     ir_site_notified_ts, ir_synced, syncs, tableVars, execVars, rep,
                     submitted, aborted>> BY DEF OnNotiCommit
<1> HIDE DEF m
<1>5. G \in Floors
 <2>1. F \in Floors BY <1>3, FS_Singleton, FS_EmptySet DEF Floors
 <2>2. dist_txn_tss[s] \in Floors BY <1>1 DEF TypeOK
 <2>3. dist_txn_tss[s] \ {m.orig} \in Floors BY <2>2, FloorFacts
 <2> HIDE DEF F
 <2> QED BY <2>1, <2>3, FloorFacts
<1>6. W \in SUBSET [ts : ChrTsType, site : Sites] BY <1>3, TsFacts
<1> HIDE DEF G, W
<1>7. ir_site_wait_ts' \in [Sites -> SUBSET [ts : ChrTsType, site : Sites]] BY <1>4, <1>6 DEF TypeOK
<1> QED BY <1>2, <1>4, <1>5, <1>7 DEF TypeOK, tableVars, execVars

(* OnSendOutput, whether or not the input completes a piece. *)
LEMMA OnSendOutputType ==
  ASSUME TypeOK, NEW src \in Sites, NEW s \in Sites, OnSendOutput(src, s)
  PROVE TypeOK'
<1> DEFINE m   == Head(req[<<src, s>>])
           t   == m.txn
           x1  == [tx[s] EXCEPT ![t] = [@ EXCEPT !.input_ready = 2]]
           x2  == [x1 EXCEPT ![t] = Merge(x1[t], m.vars)]
           R   == ready_txns[s]
           q   == Taken(req, <<src, s>>)
           floors(irt) == IF irt THEN dist_txn_tss[s] ELSE dist_txn_tss[s] \ {tx[s][t].ts}
           msg == [type |-> "NotiWait", txn |-> t, orig |-> tx[s][t].ts, wait |-> FALSE,
                   new |-> ZeroTs, touched |-> {}]
           out(irt) == IF irt THEN NoMsgs ELSE ToAll({MgrOf(SiteRegion(s))}, msg)
<1>1. s \in Nodes /\ Sites \in SUBSET Nodes BY Placement
<1>2. m \in ReqMsg /\ m.type = "SendOutput" /\ q \in [Sites \X Nodes -> Seq(ReqMsg)]
  BY <1>1, ReceivesType DEF OnSendOutput
<1>3. t \in Txns /\ m.vars \in SUBSET Vars BY <1>2, ReqFields
<1>4. UNCHANGED <<last_clock, clock_offset, max_future_ts, mgr_todo, syncVars, tableVars, submitted,
                  aborted>> BY DEF OnSendOutput
<1>5. \/ req' = q /\ UNCHANGED <<dist_txn_tss, execVars, rep>>
      \/ \E irt \in BOOLEAN, run \in SUBSET Runnable(R, x2) :
           /\ CheckExecutableTxns(s, run, R, x2, TRUE, floors(irt), ir_site_max_ts[s])
           /\ req' = Send(q, s, Then(out(irt), OutputMsgs(s, run, R)))
           /\ rep' = Send(rep, s, DistExeReplies(s, run, R, x2))
      \/ \E irt \in BOOLEAN :
           /\ NoExecution(s, R, x2, TRUE, floors(irt))
           /\ req' = Send(q, s, out(irt))
           /\ UNCHANGED rep
 <2> DEFINE irts == {b \in BOOLEAN : tx[s][t].role # "unset" =>
                              (b <=> tx[s][t].role \in {"irtHandler", "irtReplica"})}
            Case(irt) == IF MoreToRun(x1[t], m.vars) /\ x1[t].phase >= LOCAL_CAN_EXE
                    THEN \E run \in SUBSET Runnable(R, x2) :
                           /\ CheckExecutableTxns(s, run, R, x2, TRUE, floors(irt), ir_site_max_ts[s])
                           /\ req' = Send(q, s, Then(out(irt), OutputMsgs(s, run, R)))
                           /\ rep' = Send(rep, s, DistExeReplies(s, run, R, x2))
                    ELSE /\ NoExecution(s, R, x2, TRUE, floors(irt))
                         /\ req' = Send(q, s, out(irt))
                         /\ UNCHANGED rep
 <2>1. \/ req' = q /\ UNCHANGED <<dist_txn_tss, execVars, rep>>
       \/ \E irt \in irts : Case(irt) BY DEF OnSendOutput
 <2>2. \A b \in irts : b \in BOOLEAN BY Zenon
 <2> HIDE DEF irts, floors, out, x1, x2, R, q
 <2> QED BY <2>1, <2>2
<1> HIDE DEF m, q
<1>6. /\ tx[s] \in [Txns -> TxType] /\ R \in Entries /\ dist_txn_tss[s] \in Floors
      /\ tx[s][t] \in TxType /\ tx[s][t].ts \in ChrTsType BY <1>1, <1>3 DEF TypeOK, TxType
<1>7. x2 \in [Txns -> TxType]
 <2> DEFINE y == [tx[s][t] EXCEPT !.input_ready = 2]
 <2>1. y \in TxType BY <1>6, PhaseFacts DEF TxType
 <2>2. x1 = [tx[s] EXCEPT ![t] = y] BY <1>6
 <2> HIDE DEF y
 <2>3. x1 \in [Txns -> TxType] BY <1>6, <2>1, <2>2
 <2> HIDE DEF x1
 <2>4. Merge(x1[t], m.vars) \in TxType BY <1>3, <2>3, MergeType
 <2> QED BY <2>3, <2>4
<1>8. \A irt \in BOOLEAN : floors(irt) \in Floors BY <1>6, FloorFacts
<1>9. msg \in ReqMsg BY <1>3, <1>6, TsFacts DEF ReqMsg
<1> HIDE DEF msg
<1>10. \A irt \in BOOLEAN : out(irt) \in [Nodes -> Seq(ReqMsg)] BY <1>9, OutType
<1> HIDE DEF x2, R, floors, out
<1> DEFINE Rest == /\ ExecTypeOK' /\ req' \in [Sites \X Nodes -> Seq(ReqMsg)]
                   /\ rep' \in [Sites \X Sites -> Seq(RepMsg)]
<1> SUFFICES Rest BY <1>4 DEF TypeOK, ExecTypeOK, syncVars, tableVars
<1>11. CASE req' = q /\ UNCHANGED <<dist_txn_tss, execVars, rep>> BY <1>2, <1>11 DEF TypeOK, ExecTypeOK, execVars
<1>12. ASSUME NEW irt \in BOOLEAN, NEW run \in SUBSET Runnable(R, x2),
              CheckExecutableTxns(s, run, R, x2, TRUE, floors(irt), ir_site_max_ts[s]),
              req' = Send(q, s, Then(out(irt), OutputMsgs(s, run, R))),
              rep' = Send(rep, s, DistExeReplies(s, run, R, x2))
       PROVE Rest
 <2>1. /\ ExecTypeOK' /\ OutputMsgs(s, run, R) \in [Nodes -> Seq(ReqMsg)]
       /\ DistExeReplies(s, run, R, x2) \in [Nodes -> Seq(RepMsg)] BY <1>6, <1>7, <1>8, <1>12, TypeParts, ExecutionType
 <2>2. Then(out(irt), OutputMsgs(s, run, R)) \in [Nodes -> Seq(ReqMsg)] BY <1>10, <2>1, OutType
 <2>3. req' \in [Sites \X Nodes -> Seq(ReqMsg)] BY <1>2, <1>12, <2>2, SendType
 <2>4. rep' \in [Sites \X Sites -> Seq(RepMsg)] BY <1>1, <1>12, <2>1, SendType DEF TypeOK
 <2> QED BY <2>1, <2>3, <2>4
<1>13. ASSUME NEW irt \in BOOLEAN, NoExecution(s, R, x2, TRUE, floors(irt)),
              req' = Send(q, s, out(irt)), UNCHANGED rep
       PROVE Rest
 <2>1. ExecTypeOK' BY <1>6, <1>7, <1>8, <1>13, TypeParts, NoExecutionType
 <2>2. req' \in [Sites \X Nodes -> Seq(ReqMsg)] BY <1>2, <1>10, <1>13, SendType
 <2> QED BY <1>13, <2>1, <2>2 DEF TypeOK
<1> QED BY <1>5, <1>11, <1>12, <1>13

-----
(* A freshly started system is well typed. *)
LEMMA InitType == Init => TypeOK
<1> SUFFICES ASSUME Init PROVE TypeOK OBVIOUS
<1>1. /\ \A s \in Sites : WarmTs(s) \in ChrTsType
      /\ ZeroTs \in ChrTsType /\ ZeroTs \in AnticipatedType BY TsFacts, Placement DEF WarmTs
<1>2. {} \in Floors /\ {} \in Entries BY FS_EmptySet DEF Floors, Entries
<1>3. Idle \in [erase : SUBSET ChrTsType, insert : Floors] BY <1>2, TodoType DEF Idle
<1>4. clock_offset \in [Nodes -> Int] BY ClockAssumption DEF Init
<1>5. last_clock \in [Nodes -> ChrTsType] BY <1>1 DEF Init
<1>6. ir_site_max_ts \in [Sites -> [Nodes -> ChrTsType]] BY <1>1 DEF Init, Peers, SitesInRegion
<1>7. tx \in [Sites -> [Txns -> TxType]] BY FreshTxType DEF Init
<1>8. /\ dist_txn_tss \in [Nodes -> Floors] /\ max_future_ts \in [Managers -> AnticipatedType]
      /\ mgr_todo \in [Managers -> [erase : SUBSET ChrTsType, insert : Floors]]
      /\ ir_site_notified_ts \in [Sites -> [Nodes -> ChrTsType]]
      /\ ir_synced \in [Sites -> SUBSET Sites]
      /\ ir_site_wait_ts \in [Sites -> SUBSET [ts : ChrTsType, site : Sites]] BY <1>1, <1>2, <1>3 DEF Init
<1>9. /\ syncs \in [Nodes -> Nat]
      /\ my_txns \in [Sites -> Entries] /\ ready_txns \in [Sites -> Entries]
      /\ dtxns \in [Sites -> SUBSET Txns]
      /\ distributed_txns_by_me \in [Sites -> SUBSET Txns]
      /\ new_input \in [Sites -> BOOLEAN] BY <1>2 DEF Init
<1>10. /\ req \in [Sites \X Nodes -> Seq(ReqMsg)] /\ rep \in [Sites \X Sites -> Seq(RepMsg)]
       /\ submitted \in SUBSET Txns /\ replied \in SUBSET Txns /\ aborted \in SUBSET Sites
       /\ order \in [Sites -> SUBSET (PieceIds \X PieceIds)] BY DEF Init
<1> QED BY <1>4, <1>5, <1>6, <1>7, <1>8, <1>9, <1>10 DEF TypeOK

(* Every step keeps the types, whoever takes it. *)
LEMMA NextType ==
  ASSUME TypeOK, [Next]_vars
  PROVE TypeOK'
<1>1. ASSUME NEW s \in Sites, NEW t \in Txns, NEW now \in PhysTimes,
             \/ \E skips \in 0 .. Cardinality(Txns) : HandleIRT(s, t, now, skips)
             \/ OnSubmitCRT(s, t, now)
      PROVE TypeOK'
 <2>1. \A skips \in 0 .. Cardinality(Txns) : skips \in Nat OBVIOUS
 <2> QED BY <1>1, <2>1, HandleIRTType, OnSubmitCRTType
<1>2. ASSUME NEW n \in Nodes, NEW now \in PhysTimes, IRSyncLoop(n, now) PROVE TypeOK' BY <1>2, IRSyncLoopType
<1>3. ASSUME NEW src \in Sites, NEW s \in Sites, NEW now \in PhysTimes,
             \/ OnPrepareIRT(src, s, now) \/ PrepareIRTACK(src, s, now) \/ OnIRSync(src, s, now)
             \/ OnPrepareCRT(src, s, now) \/ OnRemotePrepared(src, s, now)
      PROVE  TypeOK' BY <1>3, OnPrepareIRTType, PrepareIRTACKType, OnIRSyncType, OnPrepareCRTType,
     OnRemotePreparedType
<1>4. ASSUME NEW src \in Sites, NEW s \in Sites,
             \/ OnNotiCRT(src, s) \/ OnDistExe(src, s) \/ DistExeAck(src, s)
             \/ OnNotiCommit(src, s) \/ OnSendOutput(src, s)
      PROVE TypeOK' BY <1>4, OnNotiCRTType, OnDistExeType, DistExeAckType, OnNotiCommitType, OnSendOutputType
<1>5. ASSUME NEW src \in Sites, NEW m \in Managers,
             NotiWait(src, m) \/ \E now \in PhysTimes : MgrPrepareCRT(src, m, now)
      PROVE TypeOK' BY <1>5, NotiWaitType, MgrPrepareCRTType
<1>6. ASSUME NEW m \in Managers, MgrFinish(m) PROVE TypeOK' BY <1>6, MgrFinishType
<1>7. CASE UNCHANGED vars BY <1>7 DEF TypeOK, vars, clockVars, syncVars, tableVars, execVars
<1>8. CASE Submit BY <1>1, <1>8 DEF Submit
<1>9. CASE Sync BY <1>2, <1>9 DEF Sync
<1>10. CASE Deliver BY <1>3, <1>4, <1>5, <1>6, <1>10 DEF Deliver
<1> QED BY <1>7, <1>8, <1>9, <1>10 DEF Next

(* Type correctness of the schedulers, the managers, the transaction records and the
   messages between them, for every deployment, workload and behaviour of the clocks:
   whatever holds a clock back is an anticipated timestamp, and only finitely many do. *)
THEOREM TypeCorrect == Spec => []TypeOK
<1>1. Init => TypeOK BY InitType
<1>2. TypeOK /\ [Next]_vars => TypeOK' BY NextType
<1> QED BY <1>1, <1>2, PTL DEF Spec

-----
(* The stretch.  A reading of a clock is pulled back by comparing it with the lowest
   floor; a reading that ties with the floor in time is pulled back only if its stretch
   counter, a copy of its time, is not below the floor's, which is 0.  So the argument
   needs, besides the types, that corrected clocks read more than 0: the inductive
   invariant is TypeOK with ClocksPositive. *)
ClocksPositive ==
  \A n \in Nodes, now \in PhysTimes : now + clock_offset[n] > 0

BelowFloors ==
  \A n \in Nodes : \A f \in dist_txn_tss[n] \cap dist_txn_tss'[n] :
    last_clock[n].time < f.time => last_clock'[n].time < f.time

(* HandlePiggyInfo only moves a clock forward. *)
LEMMA PiggyOffset ==
  ASSUME TypeOK, ClocksPositive, NEW s \in Sites, NEW from, NEW ts \in ChrTsType, NEW noti,
         NEW delivered, NEW known, NEW now \in PhysTimes,
         HandlePiggyInfo(s, from, ts, noti, delivered, known, now)
  PROVE ClocksPositive'
<1> DEFINE new == IF Heard(s, from, ts)
                  THEN AdjustedOffset(s, now, clock_offset[s], last_clock[s], ts)
                  ELSE clock_offset[s]
<1>1. /\ s \in Nodes /\ s \in Int /\ now \in Int /\ \A p \in PhysTimes : p \in Int
      /\ clock_offset \in [Nodes -> Int] /\ last_clock \in [Nodes -> ChrTsType] BY ClockAssumption, Placement DEF TypeOK
<1>2. clock_offset' = [clock_offset EXCEPT ![s] = new] BY DEF HandlePiggyInfo
<1>3. new \in Int /\ new >= clock_offset[s]
 <2> DEFINE adjusted == AdjustedOffset(s, now, clock_offset[s], last_clock[s], ts)
 <2>1. clock_offset[s] \in Int /\ last_clock[s] \in ChrTsType BY <1>1
 <2>2. adjusted \in Int /\ adjusted >= clock_offset[s] BY <1>1, <2>1, AdjustedOffsetType
 <2> HIDE DEF adjusted
 <2>3. new = adjusted \/ new = clock_offset[s] BY DEF adjusted
 <2> HIDE DEF new
 <2> QED BY <2>1, <2>2, <2>3
<1> HIDE DEF new
<1>4. \A n \in Nodes : clock_offset'[n] \in Int /\ clock_offset'[n] >= clock_offset[n] BY <1>1, <1>2, <1>3
<1>5. ASSUME NEW n \in Nodes, NEW p \in PhysTimes PROVE p + clock_offset'[n] > 0
 <2>1. p + clock_offset[n] > 0 /\ p \in Int /\ clock_offset[n] \in Int BY <1>1 DEF ClocksPositive
 <2> QED BY <1>4, <2>1
<1> QED BY <1>5 DEF ClocksPositive

(* No step moves a clock to a reading that is not positive. *)
LEMMA NextPositive ==
  ASSUME TypeOK, ClocksPositive, [Next]_vars
  PROVE ClocksPositive'
<1>1. CASE UNCHANGED clock_offset BY <1>1 DEF ClocksPositive
<1>2. ASSUME NEW src \in Sites, NEW s \in Sites, NEW now \in PhysTimes,
             OnPrepareIRT(src, s, now)
      PROVE ClocksPositive'
 <2> DEFINE m == Head(req[<<src, s>>])
 <2>1. m.ts \in ChrTsType
  <3>1. Receives(src, s, "PrepareIRT") BY <1>2 DEF OnPrepareIRT
  <3>2. m \in ReqMsg /\ m.type = "PrepareIRT" BY <3>1, Placement, ReceivesType
  <3> HIDE DEF m
  <3> QED BY <3>2, ReqFields
 <2>2. HandlePiggyInfo(s, src, m.ts, m.noti, m.delivered, dtxns[s] \cup {m.txn}, now) BY <1>2 DEF OnPrepareIRT
 <2> HIDE DEF m
 <2> QED BY <2>1, <2>2, PiggyOffset
<1>3. ASSUME NEW src \in Sites, NEW s \in Sites, NEW now \in PhysTimes,
             PrepareIRTACK(src, s, now)
      PROVE ClocksPositive'
 <2> DEFINE m == Head(rep[<<src, s>>])
 <2>1. m.ts \in ChrTsType
  <3>1. rep \in [Sites \X Sites -> Seq(RepMsg)] /\ <<src, s>> \in Sites \X Sites BY DEF TypeOK
  <3>2. rep[<<src, s>>] # <<>> /\ m.type = "PrepareIRTRes" BY <1>3 DEF PrepareIRTACK
  <3>3. m \in RepMsg BY <3>1, <3>2, TakenType
  <3> QED BY <3>2, <3>3, RepFields
 <2>2. HandlePiggyInfo(s, src, m.ts, m.noti, m.delivered, dtxns[s], now) BY <1>3 DEF PrepareIRTACK
 <2> HIDE DEF m
 <2> QED BY <2>1, <2>2, PiggyOffset
<1>4. ASSUME NEW src \in Sites, NEW s \in Sites, NEW now \in PhysTimes, OnIRSync(src, s, now) PROVE ClocksPositive'
 <2> DEFINE m == Head(req[<<src, s>>])
 <2>1. m.ts \in ChrTsType BY <1>4, Placement, ReceivesType, ReqFields DEF OnIRSync
 <2>2. HandlePiggyInfo(s, m.from, m.ts, m.noti, m.delivered, dtxns[s], now) BY <1>4 DEF OnIRSync
 <2> HIDE DEF m
 <2> QED BY <2>1, <2>2, PiggyOffset
<1>5. CASE Submit
 <2>1. ASSUME NEW s, NEW t, NEW now, NEW skips, HandleIRT(s, t, now, skips)
       PROVE UNCHANGED clock_offset BY <2>1 DEF HandleIRT
 <2>2. ASSUME NEW s, NEW t, NEW now, OnSubmitCRT(s, t, now) PROVE UNCHANGED clock_offset BY <2>2 DEF OnSubmitCRT
 <2> QED BY <1>1, <1>5, <2>1, <2>2 DEF Submit
<1>6. CASE Sync
 <2>1. UNCHANGED clock_offset BY <1>6 DEF Sync, IRSyncLoop
 <2> QED BY <1>1, <2>1
<1>7. ASSUME NEW src \in Sites, NEW s \in Sites,
             \/ \E now \in PhysTimes : OnPrepareCRT(src, s, now) \/ OnRemotePrepared(src, s, now)
             \/ OnNotiCRT(src, s) \/ OnDistExe(src, s) \/ DistExeAck(src, s)
             \/ OnNotiCommit(src, s) \/ OnSendOutput(src, s)
      PROVE UNCHANGED clock_offset
  BY <1>7 DEF OnPrepareCRT, OnRemotePrepared, OnNotiCRT, OnDistExe, DistExeAck, OnNotiCommit, OnSendOutput, clockVars
<1>8. ASSUME NEW m \in Managers,
             \/ \E src \in Sites : NotiWait(src, m) \/ \E now \in PhysTimes : MgrPrepareCRT(src, m, now)
             \/ MgrFinish(m)
      PROVE UNCHANGED clock_offset BY <1>8 DEF NotiWait, MgrPrepareCRT, MgrFinish
<1>9. CASE Deliver BY <1>1, <1>2, <1>3, <1>4, <1>7, <1>8, <1>9 DEF Deliver
<1>10. CASE UNCHANGED vars BY <1>1, <1>10 DEF vars, clockVars
<1> QED BY <1>5, <1>6, <1>9, <1>10 DEF Next

(* A timestamp that a node generates under floors stays below them. *)
LEMMA GenerateBelow ==
  ASSUME NEW n \in Nodes, NEW now \in PhysTimes, NEW offset \in Int, now + offset > 0,
         NEW last \in ChrTsType, NEW F \in Floors, NEW f \in F, last.time < f.time
  PROVE  /\ GenerateChrTs(n, now, offset, last, F).time < f.time
         /\ GenerateChrTs(-1, now, offset, last, F).time < f.time
<1>1. n \in Int /\ now \in Int /\ -1 \in Int BY ClockAssumption, Placement
<1>2. F \in SUBSET ChrTsType /\ IsFiniteSet(F) /\ \A g \in F : g.stretch = 0 BY FloorFacts
<1> QED BY <1>1, <1>2, GenerateStaysBelowFloors

(* The same for the fields of a node. *)
LEMMA NodeGeneratesBelow ==
  ASSUME TypeOK, ClocksPositive, NEW n \in Nodes, NEW now \in PhysTimes,
         NEW F \in Floors, NEW f \in F, last_clock[n].time < f.time
  PROVE Generate(n, now, F).time < f.time
<1>1. clock_offset[n] \in Int /\ last_clock[n] \in ChrTsType /\ now + clock_offset[n] > 0 BY DEF TypeOK, ClocksPositive
<1> QED BY <1>1, GenerateBelow DEF Generate

(* Only one node's clock moves in a step that generates a timestamp. *)
LEMMA OneClock ==
  ASSUME TypeOK, NEW n \in Nodes, NEW ts, last_clock' = [last_clock EXCEPT ![n] = ts],
         \A f \in dist_txn_tss[n] \cap dist_txn_tss'[n] :
           last_clock[n].time < f.time => ts.time < f.time
  PROVE BelowFloors BY DEF TypeOK, BelowFloors

(* The decision: the clock is read under the floors of the decided record. *)
LEMMA DecideBelow ==
  ASSUME TypeOK, ClocksPositive, NEW s \in Sites, NEW t \in Txns, NEW acked \in TxType, NEW par,
         NEW floors \in Floors, NEW q, NEW now \in PhysTimes,
         CheckRemotePrepared(s, t, acked, par, floors, q, now)
  PROVE BelowFloors
<1> DEFINE y  == WithPrepared(acked, par)
           F  == (floors \ {y.ts}) \cup (IF AllPiecesInputReady(y) THEN {} ELSE {DecisionTs(t, y)})
           ts == Generate(s, now, F)
<1>1. s \in Nodes BY Placement
<1>2. \/ UNCHANGED last_clock
      \/ /\ last_clock' = [last_clock EXCEPT ![s] = ts]
         /\ \E G : dist_txn_tss' = [dist_txn_tss EXCEPT ![s] = F \ G] BY DEF CheckRemotePrepared, CheckExecutableTxns
<1>3. F \in Floors
 <2>1. y \in TxType
  <3> DEFINE st == [acked.status EXCEPT ![par] = P_REMOTE_PREPARED]
  <3>1. st \in StatusOfPars BY PhaseFacts DEF TxType
  <3>2. [acked EXCEPT !.status[par] = P_REMOTE_PREPARED] = [acked EXCEPT !.status = st] BY DEF TxType
  <3> HIDE DEF st
  <3>3. [acked EXCEPT !.status = st] \in TxType BY <3>1 DEF TxType
  <3> QED BY <3>2, <3>3 DEF WithPrepared
 <2>2. DecisionTs(t, y) \in AnticipatedType BY <2>1, DecisionType
 <2>3. floors \ {y.ts} \in Floors /\ {} \in Floors /\ {DecisionTs(t, y)} \in Floors BY <2>2, FloorFacts
 <2> QED BY <2>3, FloorFacts
<1> HIDE DEF F
<1>4. CASE UNCHANGED last_clock BY <1>4 DEF BelowFloors
<1>5. ASSUME last_clock' = [last_clock EXCEPT ![s] = ts],
             NEW G, dist_txn_tss' = [dist_txn_tss EXCEPT ![s] = F \ G]
      PROVE BelowFloors
 <2>1. \A f \in F : last_clock[s].time < f.time => ts.time < f.time BY <1>1, <1>3, NodeGeneratesBelow
 <2>2. dist_txn_tss'[s] \subseteq F BY <1>1, <1>5 DEF TypeOK
 <2> HIDE DEF ts
 <2> QED BY <1>1, <1>5, <2>1, <2>2, OneClock
<1> QED BY <1>2, <1>4, <1>5

(* One step: every handler that reads the clock reads it under the floors it had, or
   under the ones it leaves behind. *)
LEMMA NextBelow ==
  ASSUME TypeOK, ClocksPositive, [Next]_vars
  PROVE BelowFloors
<1>1. CASE UNCHANGED last_clock BY <1>1 DEF BelowFloors
<1>2. ASSUME NEW n \in Nodes, NEW now \in PhysTimes, NEW ts,
             ts.time = Generate(n, now, dist_txn_tss[n]).time,
             last_clock' = [last_clock EXCEPT ![n] = ts]
      PROVE BelowFloors
 <2>1. dist_txn_tss[n] \in Floors BY DEF TypeOK
 <2>2. \A f \in dist_txn_tss[n] : last_clock[n].time < f.time => ts.time < f.time BY <1>2, <2>1, NodeGeneratesBelow
 <2> QED BY <1>2, <2>2, OneClock
<1>3. ASSUME NEW s \in Sites, NEW t \in Txns, NEW now \in PhysTimes, NEW skips,
             HandleIRT(s, t, now, skips)
      PROVE BelowFloors
 <2> DEFINE ts == After(Generate(s, now, dist_txn_tss[s]), skips)
 <2>1. last_clock' = [last_clock EXCEPT ![s] = ts] BY <1>3 DEF HandleIRT
 <2>2. ts.time = Generate(s, now, dist_txn_tss[s]).time BY DEF After, ChrTsOf
 <2> HIDE DEF ts
 <2> QED BY <1>2, <2>1, <2>2, Placement
<1>4. ASSUME NEW s \in Sites, NEW t \in Txns, NEW now \in PhysTimes, OnSubmitCRT(s, t, now) PROVE BelowFloors
 <2>1. last_clock' = [last_clock EXCEPT ![s] = Generate(s, now, dist_txn_tss[s])] BY <1>4 DEF OnSubmitCRT
 <2> QED BY <1>2, <2>1, Placement
<1>5. ASSUME NEW n \in Nodes, NEW now \in PhysTimes, IRSyncLoop(n, now) PROVE BelowFloors
 <2> DEFINE first == Generate(n, now, dist_txn_tss[n])
 <2>1. \/ UNCHANGED last_clock
       \/ \E k : last_clock' = [last_clock EXCEPT ![n] = ChrTsOf(first.time, k, first.site)]
  <3> DEFINE region  == IF n \in Sites THEN SiteRegion(n) ELSE MgrRegion(n)
             targets == IF n \in Sites THEN Peers(n) \ ir_synced[n]
                                       ELSE SitesInRegion(region) \ {MgrHost(n)}
             last    == ChrTsOf(first.time, first.stretch + Cardinality(targets) - 1, first.site)
  <3>1. last_clock' = [last_clock EXCEPT ![n] = IF targets = {} THEN @ ELSE last] BY <1>5 DEF IRSyncLoop
  <3>2. CASE targets = {} BY <3>1, <3>2 DEF TypeOK
  <3>3. CASE targets # {} BY <3>1, <3>3
  <3> QED BY <3>2, <3>3
 <2>2. ASSUME NEW k, last_clock' = [last_clock EXCEPT ![n] = ChrTsOf(first.time, k, first.site)] PROVE BelowFloors
  <3>1. ChrTsOf(first.time, k, first.site).time = first.time BY DEF ChrTsOf
  <3> QED BY <1>2, <2>2, <3>1
 <2> QED BY <1>1, <2>1, <2>2
<1>6. ASSUME NEW src \in Sites, NEW m \in Managers, NEW now \in PhysTimes,
             MgrPrepareCRT(src, m, now)
      PROVE BelowFloors
 <2>1. last_clock' = [last_clock EXCEPT ![m] = Generate(m, now, dist_txn_tss[m])] BY <1>6 DEF MgrPrepareCRT
 <2> QED BY <1>2, <2>1, Placement
<1>7. ASSUME NEW src \in Sites, NEW s \in Sites, NEW now \in PhysTimes,
             OnPrepareIRT(src, s, now)
      PROVE BelowFloors
 <2> DEFINE ts == GenerateChrTs(s, now, clock_offset'[s], last_clock[s], dist_txn_tss'[s])
 <2>1. last_clock' = [last_clock EXCEPT ![s] = ts] BY <1>7 DEF OnPrepareIRT
 <2>2. /\ clock_offset'[s] \in Int /\ dist_txn_tss'[s] \in Floors /\ last_clock[s] \in ChrTsType
       /\ now + clock_offset'[s] > 0 /\ s \in Nodes
  <3>1. s \in Nodes /\ TypeOK' /\ ClocksPositive'
   <4>1. Next BY <1>7 DEF Next, Deliver
   <4> QED BY <1>7, <4>1, Placement, OnPrepareIRTType, NextPositive
  <3> QED BY <3>1 DEF TypeOK, ClocksPositive
 <2>3. \A f \in dist_txn_tss'[s] : last_clock[s].time < f.time => ts.time < f.time BY <2>2, GenerateBelow
 <2> HIDE DEF ts
 <2> QED BY <2>1, <2>2, <2>3, OneClock
<1>8. ASSUME NEW src \in Sites, NEW s \in Sites, NEW now \in PhysTimes,
             OnPrepareCRT(src, s, now)
      PROVE BelowFloors
 <2> DEFINE m     == Head(req[<<src, s>>])
            t     == m.txn
            y     == tx[s][t]
            acked == [y EXCEPT !.mgr_acked = @ \cup {ParOf(s)}, !.acks = @ \cup {s},
                               !.ts = m.ts, !.anticipated[SiteRegion(s)] = m.ts]
            q     == Taken(req, <<src, s>>)
 <2>1. \/ CheckRemotePrepared(s, t, acked, ParOf(s), dist_txn_tss[s] \cup {m.ts}, q, now)
       \/ UNCHANGED last_clock BY <1>8 DEF OnPrepareCRT
 <2>2. m \in ReqMsg /\ m.type = "PrepareCRT" BY <1>8, Placement, ReceivesType DEF OnPrepareCRT
 <2>3. t \in Txns /\ m.ts \in AnticipatedType /\ m.ts \in ChrTsType BY <2>2, ReqFields, TsFacts
 <2> HIDE DEF m, q
 <2>4. acked \in TxType
  <3>1. y \in TxType BY <2>3 DEF TypeOK
  <3> QED BY <2>3, <3>1, OwnAckType
 <2>5. dist_txn_tss[s] \cup {m.ts} \in Floors
  <3>1. dist_txn_tss[s] \in Floors BY Placement DEF TypeOK
  <3> QED BY <2>3, <3>1, FloorFacts
 <2> HIDE DEF acked
 <2> QED BY <1>1, <2>1, <2>3, <2>4, <2>5, DecideBelow
<1>9. ASSUME NEW src \in Sites, NEW s \in Sites, NEW now \in PhysTimes,
             OnRemotePrepared(src, s, now)
      PROVE BelowFloors
 <2> DEFINE m     == Head(req[<<src, s>>])
            t     == m.txn
            par   == ParOf(src)
            y     == tx[s][t]
            acked == [y EXCEPT !.acks = @ \cup {src}, !.anticipated[RegionOf(par)] = m.ts,
                               !.mgr_acked = IF m.leads THEN @ \cup {par} ELSE @]
            q     == Taken(req, <<src, s>>)
 <2>1. CheckRemotePrepared(s, t, acked, par, dist_txn_tss[s], q, now) BY <1>9 DEF OnRemotePrepared
 <2>2. m \in ReqMsg /\ m.type = "RemotePrepared" BY <1>9, Placement, ReceivesType DEF OnRemotePrepared
 <2>3. t \in Txns /\ m.ts \in AnticipatedType BY <2>2, ReqFields
 <2> HIDE DEF m, q
 <2>4. acked \in TxType
  <3>1. y \in TxType BY <2>3 DEF TypeOK
  <3> QED BY <2>3, <3>1, AckType
 <2>5. dist_txn_tss[s] \in Floors BY Placement DEF TypeOK
 <2> HIDE DEF acked
 <2> QED BY <2>1, <2>3, <2>4, <2>5, DecideBelow
<1>10. ASSUME NEW src \in Sites, NEW s \in Sites,
              \/ \E now \in PhysTimes : PrepareIRTACK(src, s, now) \/ OnIRSync(src, s, now)
              \/ OnNotiCRT(src, s) \/ OnDistExe(src, s) \/ DistExeAck(src, s)
              \/ OnNotiCommit(src, s) \/ OnSendOutput(src, s)
       PROVE UNCHANGED last_clock
 <2>1. ASSUME NEW now, PrepareIRTACK(src, s, now) PROVE UNCHANGED last_clock BY <2>1 DEF PrepareIRTACK
 <2>2. ASSUME NEW now, OnIRSync(src, s, now) PROVE UNCHANGED last_clock BY <2>2 DEF OnIRSync
 <2>3. ASSUME OnNotiCRT(src, s) \/ OnDistExe(src, s) PROVE UNCHANGED last_clock BY <2>3 DEF OnNotiCRT, OnDistExe
 <2>4. ASSUME DistExeAck(src, s) \/ OnNotiCommit(src, s) PROVE UNCHANGED last_clock
   BY <2>4 DEF DistExeAck, OnNotiCommit, clockVars
 <2>5. ASSUME OnSendOutput(src, s) PROVE UNCHANGED last_clock BY <2>5 DEF OnSendOutput
 <2> QED BY <1>10, <2>1, <2>2, <2>3, <2>4, <2>5
<1>11. ASSUME NEW m \in Managers, (\E src \in Sites : NotiWait(src, m)) \/ MgrFinish(m)
       PROVE UNCHANGED last_clock BY <1>11 DEF NotiWait, MgrFinish
<1>12. CASE Submit BY <1>3, <1>4, <1>12 DEF Submit
<1>13. CASE Sync BY <1>5, <1>13 DEF Sync
<1>14. CASE Deliver BY <1>1, <1>6, <1>7, <1>8, <1>9, <1>10, <1>11, <1>14 DEF Deliver
<1>15. CASE UNCHANGED vars BY <1>1, <1>15 DEF vars, clockVars
<1> QED BY <1>12, <1>13, <1>14, <1>15 DEF Next

(* Stretching works: a clock that lies before a cross-region transaction that is not
   ready stays before it for as long as it is not ready, for every deployment, workload,
   offset and order of messages.  The step of GenerateChrTs that compares time, stretch
   and site against the lowest floor, and every handler that calls it, are behind it. *)
THEOREM StretchHolds == Spec => ClockStaysBelowFloors
<1>1. Init => TypeOK /\ ClocksPositive
 <2>1. Init => ClocksPositive BY ClockAssumption DEF Init, ClocksPositive
 <2> QED BY <2>1, InitType
<1>2. TypeOK /\ ClocksPositive /\ [Next]_vars => (TypeOK /\ ClocksPositive)' BY NextType, NextPositive
<1>3. TypeOK /\ ClocksPositive /\ [Next]_vars => [BelowFloors]_vars BY NextBelow
<1> QED BY <1>1, <1>2, <1>3, PTL DEF Spec, ClockStaysBelowFloors, BelowFloors
=====
