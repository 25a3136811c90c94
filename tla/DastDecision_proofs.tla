----- MODULE DastDecision_proofs -----
(* No two transactions share a timestamp, anywhere and at any time, for every
   deployment, workload and order of messages. The queues alone do not explain it: a
   timestamp travels in messages and in the records of the coordinators before it gets
   into a queue, and a decision is the highest of several.  The invariant is about every
   pair of a timestamp and a transaction that is in use anywhere.  An IRT's timestamp
   names the site that handed it out, a CRT's the manager, and each counter is at least
   as far as everything it handed out; the two kinds are told apart by the stretch
   counter.  That a site's clock carries the site's own id in turn needs that it was
   never pulled back to the zero that a clock starts from, hence what is said of floors. *)
EXTENDS DastAwareness_proofs

At(ts, t) == [ts |-> ts, id |-> t]

(* The pairs in a message. *)
Carried(m) ==
  {e \in Entry :
     \/ m.type \in {"PrepareIRT", "IRSync", "PrepareIRTRes"} /\ e \in m.noti
     \/ /\ m.type \in {"PrepareIRT", "PrepareCRT", "NotiCRT", "RemotePrepared", "DistExe"}
        /\ e = At(m.ts, m.txn)
     \/ m.type \in {"NotiWait", "NotiCommit"} /\ m.wait /\ e = At(m.new, m.txn)}

(* The pairs in use. *)
Used ==
  {e \in Entry :
     \/ \E s \in Sites : e \in ready_txns[s] \cup my_txns[s]
     \/ \E s \in Sites, r \in Regions : e.ts # ZeroTs /\ tx[s][e.id].anticipated[r] = e.ts
     \/ \E c \in Sites \X Nodes : \E m \in MsgsIn(req[c]) : e \in Carried(m)
     \/ \E c \in Sites \X Sites : \E m \in MsgsIn(rep[c]) : e \in Carried(m)}

(* ts has been handed out: by a site, whose clock is lc[site], or by a manager, whose
   max_future_ts_ is mf[site]. *)
HandedOut(ts, lc, mf) ==
  \/ ts.stretch >= 1 /\ ts.site \in Sites /\ LessEq(ts, lc[ts.site])
  \/ ts.stretch = 0 /\ ts.time >= 2 /\ ts.site \in Managers /\ LessEq(ts, mf[ts.site])

UsedOnce == \A d, e \in Used : d.ts = e.ts => d.id = e.id
UsedHandedOut == \A e \in Used : HandedOut(e.ts, last_clock, max_future_ts)

GoodClock(ts, s) == ts = ZeroTs \/ (ts.time >= 1 /\ ts.stretch >= 1 /\ ts.site = s)
GoodFuture(ts, mgr) == ts = ZeroTs \/ (ts.time >= 2 /\ ts.stretch = 0 /\ ts.site = mgr)

ClocksGood == \A s \in Sites : GoodClock(last_clock[s], s)
FuturesGood == \A mgr \in Managers : GoodFuture(max_future_ts[mgr], mgr)
FloorsHigh == \A s \in Sites : \A f \in dist_txn_tss[s] : f.time >= 2

(* A request m from the process of a to b. *)
RightReq(m, a, b) ==
  /\ m.type = "PrepareRemote" => m.ts.time >= 1 /\ m.ts.site = a
  /\ m.type = "PrepareCRT" => b \in Sites /\ ParOf(b) \in Touched(m.txn)
  /\ m.type = "RemotePrepared" => ParOf(a) \in Touched(m.txn)
ReqsRight == \A c \in Sites \X Nodes : \A m \in MsgsIn(req[c]) : RightReq(m, c[1], c[2])

(* The inductive invariant. *)
UniqueInv ==
  /\ ClocksPositive /\ UsedOnce /\ UsedHandedOut
  /\ ClocksGood /\ FuturesGood /\ FloorsHigh /\ ReqsRight

(* TimestampsUnique is about the pairs in the queues. *)
LEMMA UniqueInvImplies ==
  ASSUME TypeOK, UniqueInv
  PROVE TimestampsUnique
<1>1. \A s \in Sites : ready_txns[s] \cup my_txns[s] \subseteq Used
 <2> SUFFICES ASSUME NEW s \in Sites, NEW e \in ready_txns[s] \cup my_txns[s] PROVE e \in Used OBVIOUS
 <2>1. ready_txns[s] \in Entries /\ my_txns[s] \in Entries BY DEF TypeOK
 <2>2. e \in Entry BY <2>1, EntryFacts
 <2> QED BY <2>2 DEF Used
<1> QED BY <1>1 DEF UniqueInv, UsedOnce, TimestampsUnique

-----
(* The anticipated timestamps in the record y of t are in U. *)
AntIn(y, t, U) ==
  \A r \in Regions : y.anticipated[r] = ZeroTs \/ At(y.anticipated[r], t) \in U

(* The pairs that a state has in its several places. *)
LEMMA UsedPairs ==
  ASSUME TypeOK
  PROVE  /\ \A s \in Sites : ready_txns[s] \subseteq Used /\ my_txns[s] \subseteq Used
         /\ \A s \in Sites, t \in Txns : AntIn(tx[s][t], t, Used)
         /\ \A c \in Sites \X Nodes : \A m \in MsgsIn(req[c]) : Carried(m) \subseteq Used
         /\ \A c \in Sites \X Sites : \A m \in MsgsIn(rep[c]) : Carried(m) \subseteq Used
<1>1. \A s \in Sites : ready_txns[s] \subseteq Used /\ my_txns[s] \subseteq Used
 <2>1. \A s \in Sites : ready_txns[s] \in Entries /\ my_txns[s] \in Entries BY DEF TypeOK
 <2>2. \A s \in Sites : ready_txns[s] \subseteq Entry /\ my_txns[s] \subseteq Entry BY <2>1, EntryFacts
 <2> QED BY <2>2 DEF Used
<1>2. ASSUME NEW s \in Sites, NEW t \in Txns, NEW r \in Regions, tx[s][t].anticipated[r] # ZeroTs
      PROVE At(tx[s][t].anticipated[r], t) \in Used
 <2> DEFINE a == tx[s][t].anticipated[r]
 <2>1. tx[s][t].anticipated \in [Regions -> AnticipatedType] BY DEF TypeOK, TxType, TsOfRegions
 <2>2. a \in ChrTsType BY <2>1, TsFacts
 <2> HIDE DEF a
 <2>3. At(a, t) \in Entry /\ At(a, t).ts = a /\ At(a, t).id = t BY <2>2 DEF At, Entry
 <2>4. a # ZeroTs /\ tx[s][t].anticipated[r] = a BY <1>2 DEF a
 <2> QED BY <2>3, <2>4 DEF Used, a
<1>3. \A m : Carried(m) \subseteq Entry BY DEF Carried
<1> QED BY <1>1, <1>2, <1>3 DEF Used, AntIn

(* A step brings pairs into use only where it puts them; N is what is new. *)
LEMMA UsedGrows ==
  ASSUME TypeOK, TypeOK', NEW N,
         \A s \in Sites : ready_txns'[s] \subseteq Used \cup N /\ my_txns'[s] \subseteq Used \cup N,
         \A s \in Sites, t \in Txns : AntIn(tx'[s][t], t, Used \cup N),
         \A c \in Sites \X Nodes : \A m \in NewReqs(c) : Carried(m) \subseteq Used \cup N,
         \A c \in Sites \X Sites : \A m \in NewReps(c) : Carried(m) \subseteq Used \cup N
  PROVE Used' \subseteq Used \cup N
<1> SUFFICES ASSUME NEW e \in Used' PROVE e \in Used \cup N OBVIOUS
<1>1. e \in Entry /\ e.id \in Txns BY DEF Used, Entry
<1>2. CASE \E s \in Sites : e \in ready_txns'[s] \cup my_txns'[s] BY <1>2
<1>3. ASSUME NEW s \in Sites, NEW r \in Regions, e.ts # ZeroTs, tx'[s][e.id].anticipated[r] = e.ts
      PROVE e \in Used \cup N
 <2>1. e = At(e.ts, e.id) BY <1>1 DEF Entry, At
 <2>2. At(tx'[s][e.id].anticipated[r], e.id) \in Used \cup N BY <1>1, <1>3 DEF AntIn
 <2> QED BY <1>3, <2>1, <2>2
<1>4. ASSUME NEW c \in Sites \X Nodes, NEW m \in MsgsIn(req'[c]), e \in Carried(m)
      PROVE e \in Used \cup N BY <1>4, UsedPairs DEF NewReqs
<1>5. ASSUME NEW c \in Sites \X Sites, NEW m \in MsgsIn(rep'[c]), e \in Carried(m)
      PROVE e \in Used \cup N BY <1>5, UsedPairs DEF NewReps
<1>6. \/ \E s \in Sites : e \in ready_txns'[s] \cup my_txns'[s]
      \/ \E s \in Sites, r \in Regions : e.ts # ZeroTs /\ tx'[s][e.id].anticipated[r] = e.ts
      \/ \E c \in Sites \X Nodes : \E m \in MsgsIn(req'[c]) : e \in Carried(m)
      \/ \E c \in Sites \X Sites : \E m \in MsgsIn(rep'[c]) : e \in Carried(m) BY DEF Used
<1> QED BY <1>2, <1>3, <1>4, <1>5, <1>6

(* Counters go forward only, and stay what they are counters of. *)
CountersForward ==
  /\ \A s \in Sites : LessEq(last_clock[s], last_clock'[s])
  /\ \A mgr \in Managers : LessEq(max_future_ts[mgr], max_future_ts'[mgr])

(* What was handed out stays handed out. *)
LEMMA HandedOutKept ==
  ASSUME TypeOK, TypeOK', CountersForward, NEW ts \in ChrTsType,
         HandedOut(ts, last_clock, max_future_ts)
  PROVE HandedOut(ts, last_clock', max_future_ts')
<1>1. ASSUME NEW s \in Sites, LessEq(ts, last_clock[s]) PROVE LessEq(ts, last_clock'[s])
 <2>1. last_clock' \in [Nodes -> ChrTsType] /\ last_clock \in [Nodes -> ChrTsType] BY DEF TypeOK
 <2>2. last_clock'[s] \in ChrTsType /\ last_clock[s] \in ChrTsType BY <2>1, Placement
 <2> QED BY <1>1, <2>2, LessEqOrder DEF CountersForward
<1>2. ASSUME NEW mgr \in Managers, LessEq(ts, max_future_ts[mgr]) PROVE LessEq(ts, max_future_ts'[mgr])
 <2>1. /\ max_future_ts' \in [Managers -> AnticipatedType]
       /\ max_future_ts \in [Managers -> AnticipatedType] BY DEF TypeOK
 <2>2. max_future_ts'[mgr] \in ChrTsType /\ max_future_ts[mgr] \in ChrTsType BY <2>1, TsFacts
 <2> QED BY <1>2, <2>2, LessEqOrder DEF CountersForward
<1> QED BY <1>1, <1>2 DEF HandedOut

(* A pair whose timestamp is handed out in this step does not clash. *)
LEMMA UniqueKept ==
  ASSUME TypeOK, TypeOK', UniqueInv, CountersForward, NEW N \in SUBSET Entry,
         Used' \subseteq Used \cup N, \A d, e \in N : d = e,
         \A e \in N : /\ ~HandedOut(e.ts, last_clock, max_future_ts)
                      /\ HandedOut(e.ts, last_clock', max_future_ts')
  PROVE (UsedOnce /\ UsedHandedOut)'
<1>1. ASSUME NEW e \in Used' PROVE HandedOut(e.ts, last_clock', max_future_ts')
 <2>1. CASE e \in Used
  <3>1. e.ts \in ChrTsType /\ HandedOut(e.ts, last_clock, max_future_ts)
    BY <2>1 DEF Used, Entry, UniqueInv, UsedHandedOut
  <3> QED BY <3>1, HandedOutKept
 <2>2. CASE e \in N BY <2>2
 <2> QED BY <2>1, <2>2
<1>2. ASSUME NEW d \in Used', NEW e \in Used', d.ts = e.ts PROVE d.id = e.id
 <2>1. CASE d \in Used /\ e \in Used BY <1>2, <2>1 DEF UniqueInv, UsedOnce
 <2>2. CASE d \in N /\ e \in N BY <2>2
 <2>3. CASE d \in N /\ e \in Used BY <1>2, <2>3 DEF UniqueInv, UsedHandedOut
 <2>4. CASE d \in Used /\ e \in N BY <1>2, <2>4 DEF UniqueInv, UsedHandedOut
 <2> QED BY <2>1, <2>2, <2>3, <2>4
<1> QED BY <1>1, <1>2 DEF UsedOnce, UsedHandedOut

-----
(* The counters. *)

(* ts is one that s may hand out. *)
SiteStamp(ts, s) == ts \in ChrTsType /\ ts.time >= 1 /\ ts.stretch >= 1 /\ ts.site = s

(* GenerateChrTs at a site whose floors are not too low. *)
LEMMA GenerateStamps ==
  ASSUME NEW s \in Sites, NEW now \in PhysTimes, NEW offset \in Int, now + offset > 0,
         NEW last \in ChrTsType, GoodClock(last, s), NEW F \in Floors, \A f \in F : f.time >= 2,
         NEW k \in Nat
  PROVE  LET g == GenerateChrTs(s, now, offset, last, F)
         IN  SiteStamp(g, s) /\ SiteStamp(After(g, k), s)
<1> DEFINE g == GenerateChrTs(s, now, offset, last, F)
           ret == StretchTs(PhysicalTs(s, now, offset), F)
<1>1. s \in Int /\ now \in Int BY ClockAssumption, Placement
<1>2. F \in SUBSET ChrTsType /\ IsFiniteSet(F) BY FloorFacts
<1>3. F # {} => LowTs(F) \in F BY <1>2, LowTsIsLowest
<1>4. F # {} => LowTs(F).time \in Int /\ LowTs(F).time >= 2 BY <1>2, <1>3 DEF ChrTsType
<1>5. SiteStamp(ret, s) BY <1>1, <1>4 DEF SiteStamp, StretchTs, PhysicalTs, ChrTsOf, ChrTsType
<1> HIDE DEF ret
<1>6. SiteStamp(MonotonicTs(ret, last), s)
  BY <1>5 DEF SiteStamp, MonotonicTs, GoodClock, Greater, Less, ZeroTs, ChrTsOf, ChrTsType
<1>7. g = MonotonicTs(ret, last) BY DEF GenerateChrTs, ret
<1> HIDE DEF g
<1>8. SiteStamp(g, s) BY <1>6, <1>7
<1>9. SiteStamp(After(g, k), s) BY <1>8 DEF SiteStamp, After, ChrTsOf, ChrTsType
<1> QED BY <1>8, <1>9 DEF g

(* The same of a site's fields. *)
LEMMA SiteGenerates ==
  ASSUME TypeOK, UniqueInv, NEW s \in Sites, NEW now \in PhysTimes, NEW F \in Floors,
         \A f \in F : f.time >= 2, NEW k \in Nat
  PROVE  /\ SiteStamp(Generate(s, now, F), s) /\ SiteStamp(After(Generate(s, now, F), k), s)
         /\ Less(last_clock[s], Generate(s, now, F))
         /\ Less(last_clock[s], After(Generate(s, now, F), k))
<1>1. /\ s \in Nodes /\ clock_offset[s] \in Int /\ last_clock[s] \in ChrTsType
      /\ now + clock_offset[s] > 0 /\ GoodClock(last_clock[s], s)
  BY Placement DEF TypeOK, UniqueInv, ClocksPositive, ClocksGood
<1>2. Generate(s, now, F) = GenerateChrTs(s, now, clock_offset[s], last_clock[s], F) BY DEF Generate
<1>3. SiteStamp(Generate(s, now, F), s) /\ SiteStamp(After(Generate(s, now, F), k), s) BY <1>1, <1>2, GenerateStamps
<1> QED BY <1>1, <1>3, ClockAdvances

(* CalculateAnticipatedTs. *)
LEMMA ManagerAnticipates ==
  ASSUME NEW mgr \in Managers, NEW srcTs \in ChrTsType, srcTs.time >= 1, NEW recvTs \in ChrTsType,
         NEW future \in ChrTsType, GoodFuture(future, mgr)
  PROVE  LET a == AnticipatedTs(mgr, srcTs, recvTs, future, EstimatedRtt)
         IN  /\ a \in ChrTsType /\ a.time >= 2 /\ a.stretch = 0 /\ a.site = mgr
             /\ Less(future, a)
<1> DEFINE a == AnticipatedTs(mgr, srcTs, recvTs, future, EstimatedRtt)
<1>1. mgr \in Int /\ EstimatedRtt \in Nat /\ EstimatedRtt >= 1 BY ClockAssumption, Placement
<1>2. a \in ChrTsType /\ Less(future, a) /\ srcTs.time + EstimatedRtt <= a.time BY <1>1, AnticipatedIsFresh
<1>3. a.time \in Int /\ srcTs.time \in Int BY <1>2 DEF ChrTsType
<1>4. a.time >= 2 BY <1>1, <1>2, <1>3
<1>5. a.stretch = 0 /\ a.site = mgr BY <1>1 DEF AnticipatedTs, GoodFuture, ChrTsOf, ZeroTs, ChrTsType, Greater, Less
<1> QED BY <1>2, <1>4, <1>5

(* A timestamp ahead of the counter of its site was not handed out, and is handed out
   once the counter stands there. *)
LEMMA StampFresh ==
  ASSUME TypeOK, NEW s \in Sites, NEW ts, SiteStamp(ts, s), Less(last_clock[s], ts),
         NEW lc, lc[s] = ts, NEW mf
  PROVE  /\ ~HandedOut(ts, last_clock, max_future_ts)
         /\ HandedOut(ts, lc, mf)
<1>1. last_clock[s] \in ChrTsType /\ ts.stretch \in Int BY Placement DEF TypeOK, SiteStamp, ChrTsType
<1>2. ts.stretch # 0 /\ ts.site = s /\ ts \in ChrTsType /\ ts.stretch >= 1 BY <1>1 DEF SiteStamp
<1>3. ~LessEq(ts, last_clock[s]) BY <1>1, <1>2, LessEqOrder
<1> QED BY <1>2, <1>3 DEF HandedOut, LessEq

(* A handler that leaves the counters alone. *)
LEMMA CountersStill ==
  ASSUME UniqueInv, UNCHANGED <<last_clock, max_future_ts>>
  PROVE CountersForward /\ ClocksGood' /\ FuturesGood'
  BY DEF UniqueInv, CountersForward, ClocksGood, FuturesGood, LessEq

(* A handler that moves the clock of one site. *)
LEMMA SiteCounts ==
  ASSUME TypeOK, UniqueInv, NEW s \in Sites, NEW ts, SiteStamp(ts, s), Less(last_clock[s], ts),
         last_clock' = [last_clock EXCEPT ![s] = ts], UNCHANGED max_future_ts
  PROVE CountersForward /\ ClocksGood' /\ FuturesGood'
<1>1. s \in Nodes /\ \A r \in Sites : r \in Nodes BY Placement
<1>2. last_clock'[s] = ts /\ \A r \in Sites \ {s} : last_clock'[r] = last_clock[r] BY <1>1 DEF TypeOK
<1>3. \A r \in Sites : LessEq(last_clock[r], last_clock'[r]) BY <1>2 DEF LessEq
<1>4. GoodClock(ts, s) BY DEF SiteStamp, GoodClock
<1>5. ClocksGood' BY <1>2, <1>4 DEF UniqueInv, ClocksGood
<1> QED BY <1>3, <1>5 DEF UniqueInv, CountersForward, FuturesGood, LessEq

-----
(* One step. *)
NewReqsRight == \A c \in Sites \X Nodes : \A m \in NewReqs(c) : RightReq(m, c[1], c[2])

(* What a handler has to keep besides the pairs. *)
CountersKept ==
  /\ CountersForward /\ ClocksGood' /\ FuturesGood' /\ FloorsHigh' /\ NewReqsRight

(* The invariant after a handler that hands out the timestamps in N. *)
LEMMA UniqueStep ==
  ASSUME TypeOK, TypeOK', UniqueInv, ClocksPositive', CountersKept, NEW N \in SUBSET Entry,
         Used' \subseteq Used \cup N, \A d, e \in N : d = e,
         \A e \in N : /\ ~HandedOut(e.ts, last_clock, max_future_ts)
                      /\ HandedOut(e.ts, last_clock', max_future_ts')
  PROVE UniqueInv'
<1>1. (UsedOnce /\ UsedHandedOut)' BY UniqueKept DEF CountersKept
<1>2. ReqsRight' BY DEF UniqueInv, CountersKept, ReqsRight, NewReqsRight, NewReqs
<1> QED BY <1>1, <1>2 DEF UniqueInv, CountersKept

(* The invariant after a handler that hands out none. *)
LEMMA UniqueStill ==
  ASSUME TypeOK, TypeOK', UniqueInv, ClocksPositive', CountersKept, Used' \subseteq Used
  PROVE UniqueInv'
<1>1. {} \in SUBSET Entry /\ Used' \subseteq Used \cup {} /\ \A d, e \in {} : d = e OBVIOUS
<1>2. \A e \in {} : /\ ~HandedOut(e.ts, last_clock, max_future_ts)
                    /\ HandedOut(e.ts, last_clock', max_future_ts') OBVIOUS
<1> QED BY <1>1, <1>2, UniqueStep

(* Messages that carry no timestamp of a transaction. *)
LEMMA CarriesNothing ==
  /\ \A m : m.type \in {"SendOutput", "PrepareRemote", "DistExeRes"} => Carried(m) = {}
  /\ \A m : m.type \in {"NotiWait", "NotiCommit"} /\ m.wait = FALSE => Carried(m) = {}
  /\ \A m, a, b : m.type \notin {"PrepareRemote", "PrepareCRT", "RemotePrepared"} => RightReq(m, a, b)
  BY DEF Carried, RightReq

(* Records that have the same anticipated timestamps, or none. *)
LEMMA AntKept ==
  /\ \A y, z, t, U : z.anticipated = y.anticipated /\ AntIn(y, t, U) => AntIn(z, t, U)
  /\ \A z, t, U : z.anticipated = [r \in Regions |-> ZeroTs] => AntIn(z, t, U)
  /\ \A y, t, U, V : AntIn(y, t, U) /\ U \subseteq V => AntIn(y, t, V) BY DEF AntIn

(* A handler of s that changes no record's anticipated timestamps, queues only pairs in
   use, and sends only such pairs. *)
LEMMA NothingNew ==
  ASSUME TypeOK, TypeOK', NEW s \in Sites, OthersKept(s), UNCHANGED my_txns,
         ready_txns'[s] \subseteq Used,
         \A t \in Txns : AntIn(tx'[s][t], t, Used),
         \A c \in Sites \X Nodes : \A m \in NewReqs(c) : Carried(m) \subseteq Used,
         \A c \in Sites \X Sites : \A m \in NewReps(c) : Carried(m) \subseteq Used
  PROVE Used' \subseteq Used
<1>1. \A r \in Sites : ready_txns'[r] \subseteq Used /\ my_txns'[r] \subseteq Used BY UsedPairs DEF OthersKept
<1>2. \A r \in Sites, t \in Txns : AntIn(tx'[r][t], t, Used) BY UsedPairs DEF OthersKept
<1>3. Used' \subseteq Used \cup {}
 <2>1. Used \cup {} = Used OBVIOUS
 <2> QED BY <1>1, <1>2, <2>1, UsedGrows
<1> QED BY <1>3

(* What CollectNotifyTxns returns is in use. *)
LEMMA CollectUsed ==
  \A s, d, mine, notified : CollectNotifyTxns(s, d, mine, notified) \subseteq mine BY DEF CollectNotifyTxns

(* The pairs of a piggyback. *)
LEMMA CarriedPiggy ==
  \A m, type, ts, delivered, noti :
    /\ IsPiggy(m, type, ts, delivered, noti) /\ type \in {"IRSync", "PrepareIRTRes"}
         => Carried(m) \subseteq noti
    /\ IsPiggy(m, type, ts, delivered, noti) /\ type = "PrepareIRT"
         => Carried(m) \subseteq noti \cup {At(ts, m.txn)} BY DEF Carried, IsPiggy

(* HandleIRT hands out the timestamp of the new transaction. *)
LEMMA HandleIRTUnique ==
  ASSUME TypeOK, UniqueInv, ClocksPositive', NEW s \in Sites, NEW t \in Txns, NEW now \in PhysTimes,
         NEW skips \in Nat, HandleIRT(s, t, now, skips)
  PROVE UniqueInv'
<1> DEFINE ts == After(Generate(s, now, dist_txn_tss[s]), skips)
           N  == {At(ts, t)}
<1>1. TypeOK' BY HandleIRTType
<1>2. SiteStamp(ts, s) /\ Less(last_clock[s], ts)
 <2>1. dist_txn_tss[s] \in Floors /\ \A f \in dist_txn_tss[s] : f.time >= 2
   BY Placement DEF TypeOK, UniqueInv, FloorsHigh
 <2> QED BY <2>1, SiteGenerates
<1>3. /\ last_clock' = [last_clock EXCEPT ![s] = ts] /\ UNCHANGED <<max_future_ts, dist_txn_tss>> BY DEF HandleIRT
<1>4. /\ last_clock'[s] = ts
      /\ my_txns' = [my_txns EXCEPT ![s] = @ \cup {At(ts, t)}]
      /\ ready_txns'[s] \subseteq ready_txns[s] \cup {At(ts, t)}
      /\ OthersKept(s) /\ \A u \in Txns \ {t} : tx'[s][u] = tx[s][u]
      /\ IsSubmitted(tx'[s][t], s, t, ts)
      /\ rep' = rep BY HandleIRTStep DEF At
<1>5. \A c \in Sites \X Nodes : \A m \in NewReqs(c) :
        /\ IsPiggy(m, "PrepareIRT", ts, ZeroTs,
                   CollectNotifyTxns(s, c[2], my_txns'[s], ir_site_notified_ts[s][c[2]]))
        /\ m.txn = t
 <2>1. \A c \in Sites \X Nodes : \A m \in NewReqs(c) :
         /\ c[1] = s /\ c[2] \in Sites
         /\ IsPiggy(m, "PrepareIRT", last_clock'[s], ZeroTs,
                    CollectNotifyTxns(s, c[2], my_txns'[s], ir_site_notified_ts[s][c[2]]))
         /\ m.txn = t BY HandleIRTStep
 <2> HIDE DEF ts
 <2> QED BY <1>4, <2>1
<1> HIDE DEF ts
<1>6. N \in SUBSET Entry /\ \A d, e \in N : d = e BY <1>2 DEF SiteStamp, Entry, At
<1>7. \A e \in N : /\ ~HandedOut(e.ts, last_clock, max_future_ts)
                   /\ HandedOut(e.ts, last_clock', max_future_ts')
 <2>1. \A e \in N : e.ts = ts BY DEF At
 <2> HIDE DEF N
 <2>2. /\ ~HandedOut(ts, last_clock, max_future_ts)
       /\ HandedOut(ts, last_clock', max_future_ts') BY <1>2, <1>4, StampFresh
 <2> QED BY <2>1, <2>2
<1>8. CountersKept
 <2>1. CountersForward /\ ClocksGood' /\ FuturesGood' BY <1>2, <1>3, SiteCounts
 <2>2. FloorsHigh' BY <1>3 DEF UniqueInv, FloorsHigh
 <2>3. NewReqsRight BY <1>5, CarriesNothing DEF NewReqsRight, IsPiggy
 <2> QED BY <2>1, <2>2, <2>3 DEF CountersKept
<1>9. Used' \subseteq Used \cup N
 <2>1. \A r \in Sites : my_txns'[r] \subseteq my_txns[r] \cup N BY <1>4 DEF TypeOK
 <2>2. \A r \in Sites : ready_txns'[r] \subseteq ready_txns[r] \cup N BY <1>4 DEF OthersKept
 <2>3. ASSUME NEW r \in Sites, NEW u \in Txns PROVE AntIn(tx'[r][u], u, Used \cup N)
  <3>1. AntIn(tx[r][u], u, Used) BY UsedPairs
  <3>2. CASE r = s /\ u = t BY <1>4, <3>2, AntKept DEF IsSubmitted
  <3>3. CASE ~(r = s /\ u = t)
   <4>1. tx'[r][u] = tx[r][u] BY <1>4, <3>3 DEF OthersKept
   <4>2. Used \subseteq Used \cup N OBVIOUS
   <4> HIDE DEF N
   <4> QED BY <3>1, <4>1, <4>2, AntKept
  <3> QED BY <3>2, <3>3
 <2>4. ASSUME NEW c \in Sites \X Nodes, NEW m \in NewReqs(c) PROVE Carried(m) \subseteq Used \cup N
  <3>1. Carried(m) \subseteq my_txns'[s] \cup {At(ts, t)} BY <1>5, CarriedPiggy, CollectUsed
  <3> QED BY <2>1, <3>1, UsedPairs
 <2>5. \A c \in Sites \X Sites : NewReps(c) = {} BY <1>4 DEF NewReps
 <2> HIDE DEF N
 <2> QED BY <1>1, <2>1, <2>2, <2>3, <2>4, <2>5, UsedPairs, UsedGrows
<1> HIDE DEF N
<1> QED BY <1>1, <1>6, <1>7, <1>8, <1>9, UniqueStep

(* CheckExecutableTxns, and a handler that does not reach it, leave at s floors among
   those they are given. *)
LEMMA FloorsLeft ==
  ASSUME TypeOK, NEW s \in Sites, NEW run, NEW R, NEW x, NEW ni, NEW floors, NEW maxTs,
         CheckExecutableTxns(s, run, R, x, ni, floors, maxTs) \/ NoExecution(s, R, x, ni, floors)
  PROVE  /\ dist_txn_tss'[s] \subseteq floors
         /\ \A r \in Sites \ {s} : dist_txn_tss'[r] = dist_txn_tss[r]
<1>1. \E G : dist_txn_tss' = [dist_txn_tss EXCEPT ![s] = floors \ G]
 <2>1. CASE NoExecution(s, R, x, ni, floors)
  <3>1. dist_txn_tss' = [dist_txn_tss EXCEPT ![s] = floors \ {}] BY <2>1 DEF NoExecution
  <3> QED BY <3>1
 <2>2. CASE CheckExecutableTxns(s, run, R, x, ni, floors, maxTs) BY <2>2 DEF CheckExecutableTxns
 <2> QED BY <2>1, <2>2
<1>2. s \in Nodes /\ \A r \in Sites : r \in Nodes BY Placement
<1> QED BY <1>1, <1>2 DEF TypeOK

(* Hearing from a peer only releases floors. *)
LEMMA PiggyReleases ==
  ASSUME TypeOK, NEW src \in Sites, NEW s \in Sites, NEW now \in PhysTimes,
         OnPrepareIRT(src, s, now) \/ PrepareIRTACK(src, s, now) \/ OnIRSync(src, s, now)
  PROVE \A r \in Sites : dist_txn_tss'[r] \subseteq dist_txn_tss[r]
<1>1. \A from, ts : PiggyFloors(s, from, ts) \subseteq dist_txn_tss[s] BY DEF PiggyFloors
<1>2. ASSUME NEW run, NEW R, NEW x, NEW ni, NEW maxTs, NEW from, NEW ts,
             \/ CheckExecutableTxns(s, run, R, x, ni, PiggyFloors(s, from, ts), maxTs)
             \/ NoExecution(s, R, x, ni, PiggyFloors(s, from, ts))
      PROVE \A r \in Sites : dist_txn_tss'[r] \subseteq dist_txn_tss[r]
 <2>1. /\ dist_txn_tss'[s] \subseteq PiggyFloors(s, from, ts)
       /\ \A r \in Sites \ {s} : dist_txn_tss'[r] = dist_txn_tss[r] BY <1>2, FloorsLeft
 <2> QED BY <1>1, <2>1
<1>3. CASE OnPrepareIRT(src, s, now)
 <2>1. \E run, R, x, ni, ts, maxTs :
         CheckExecutableTxns(s, run, R, x, ni, PiggyFloors(s, src, ts), maxTs) BY <1>3 DEF OnPrepareIRT
 <2> QED BY <1>2, <2>1
<1>4. CASE PrepareIRTACK(src, s, now)
 <2>1. \E run, R, x, ni, ts, maxTs :
         \/ CheckExecutableTxns(s, run, R, x, ni, PiggyFloors(s, src, ts), maxTs)
         \/ NoExecution(s, R, x, ni, PiggyFloors(s, src, ts)) BY <1>4 DEF PrepareIRTACK
 <2> QED BY <1>2, <2>1
<1>5. CASE OnIRSync(src, s, now)
 <2>1. \E run, R, x, ni, from, ts, maxTs :
         CheckExecutableTxns(s, run, R, x, ni, PiggyFloors(s, from, ts), maxTs) BY <1>5 DEF OnIRSync
 <2> QED BY <1>2, <2>1
<1> QED BY <1>3, <1>4, <1>5

(* The same, of the floors of the invariant. *)
LEMMA FloorsStayHigh ==
  ASSUME UniqueInv, \A r \in Sites : dist_txn_tss'[r] \subseteq dist_txn_tss[r]
  PROVE FloorsHigh' BY DEF UniqueInv, FloorsHigh

(* Outputs and deferred replies carry no pair. *)
LEMMA OutputsCarry ==
  ASSUME NEW s
  PROVE  /\ \A m : m.type = "SendOutput" => Carried(m) \subseteq Used /\ \A a, b : RightReq(m, a, b)
         /\ \A c \in Sites \X Sites : \A m : IsAnswer(m, s, c) => Carried(m) \subseteq Used
<1>1. \A m : m.type = "SendOutput" => Carried(m) \subseteq Used /\ \A a, b : RightReq(m, a, b) BY CarriesNothing
<1>2. \A c \in Sites \X Sites : \A m : IsAnswer(m, s, c) => m.type = "DistExeRes" BY DEF IsAnswer
<1> QED BY <1>1, <1>2, CarriesNothing

(* OnPrepareIRT queues what its request carries. *)
LEMMA OnPrepareIRTUnique ==
  ASSUME TypeOK, UniqueInv, ClocksPositive', NEW src \in Sites, NEW s \in Sites, NEW now \in PhysTimes,
         OnPrepareIRT(src, s, now)
  PROVE UniqueInv'
<1> DEFINE m  == ReqAt(src, s)
           ts == GenerateChrTs(s, now, clock_offset'[s], last_clock[s], dist_txn_tss'[s])
<1>1. TypeOK' /\ UNCHANGED <<my_txns, max_future_ts>> BY OnPrepareIRTType DEF OnPrepareIRT
<1>2. /\ m \in MsgsIn(req[<<src, s>>]) /\ m \in ReqMsg /\ m.type = "PrepareIRT"
      /\ ready_txns'[s] \subseteq ready_txns[s] \cup m.noti \cup {At(m.ts, m.txn)}
      /\ OthersKept(s)
      /\ \A u \in Txns : Retouched(tx[s][u], tx'[s][u]) \/ Kept(s, u)
      /\ \A c \in Sites \X Nodes : \A w \in NewReqs(c) : w.type = "SendOutput" BY OnPrepareIRTStep DEF At
<1>3. \A c \in Sites \X Sites : \A w \in NewReps(c) :
        \/ IsAnswer(w, s, c)
        \/ IsPiggy(w, "PrepareIRTRes", last_clock'[s], m.ts,
                   CollectNotifyTxns(s, src, my_txns[s], ir_site_notified_ts'[s][src])) BY OnPrepareIRTStep
<1>4. last_clock' = [last_clock EXCEPT ![s] = ts] BY DEF OnPrepareIRT
<1> HIDE DEF m
<1>5. m.noti \subseteq Used /\ At(m.ts, m.txn) \in Used
 <2>1. <<src, s>> \in Sites \X Nodes BY Placement
 <2>2. Carried(m) \subseteq Used BY <1>2, <2>1, UsedPairs
 <2>3. m.noti \in Entries /\ m.ts \in ChrTsType /\ m.txn \in Txns BY <1>2, ReqFields
 <2>4. m.noti \subseteq Entry /\ At(m.ts, m.txn) \in Entry BY <2>3, EntryFacts DEF At, Entry
 <2> QED BY <1>2, <2>2, <2>4 DEF Carried
<1>6. \A u \in Txns : AntIn(tx'[s][u], u, Used)
 <2>1. \A u \in Txns : tx'[s][u].anticipated = tx[s][u].anticipated BY <1>2 DEF Retouched, Kept, SameRecord
 <2> QED BY <2>1, UsedPairs, AntKept
<1>7. \A c \in Sites \X Sites : \A w \in NewReps(c) : Carried(w) \subseteq Used
 <2>1. \A w : IsPiggy(w, "PrepareIRTRes", last_clock'[s], m.ts,
                     CollectNotifyTxns(s, src, my_txns[s], ir_site_notified_ts'[s][src]))
               => Carried(w) \subseteq my_txns[s] BY CarriedPiggy, CollectUsed
 <2> QED BY <1>3, <2>1, UsedPairs, OutputsCarry
<1>8. Used' \subseteq Used
 <2>1. ready_txns'[s] \subseteq Used BY <1>2, <1>5, UsedPairs
 <2> QED BY <1>1, <1>2, <1>6, <1>7, <2>1, OutputsCarry, NothingNew
<1>9. \A r \in Sites : dist_txn_tss'[r] \subseteq dist_txn_tss[r] BY PiggyReleases
<1>10. SiteStamp(ts, s) /\ Less(last_clock[s], ts)
 <2>1. /\ clock_offset'[s] \in Int /\ now + clock_offset'[s] > 0 /\ dist_txn_tss'[s] \in Floors
       /\ last_clock[s] \in ChrTsType /\ GoodClock(last_clock[s], s)
       /\ \A f \in dist_txn_tss'[s] : f.time >= 2
  <3>1. clock_offset' \in [Nodes -> Int] /\ dist_txn_tss' \in [Nodes -> Floors] BY <1>1 DEF TypeOK
  <3> QED BY <1>9, <3>1, Placement DEF TypeOK, UniqueInv, ClocksPositive, ClocksGood, FloorsHigh
 <2>2. SiteStamp(ts, s) BY <2>1, GenerateStamps, 0 \in Nat
 <2>3. s \in Int /\ now \in Int /\ dist_txn_tss'[s] \in SUBSET ChrTsType /\ IsFiniteSet(dist_txn_tss'[s])
   BY <2>1, ClockAssumption, Placement, FloorFacts
 <2> QED BY <2>1, <2>2, <2>3, GenerateAdvances
<1> HIDE DEF ts
<1>11. CountersKept
 <2>1. CountersForward /\ ClocksGood' /\ FuturesGood' BY <1>1, <1>4, <1>10, SiteCounts
 <2>2. FloorsHigh' BY <1>9, FloorsStayHigh
 <2>3. NewReqsRight BY <1>2, OutputsCarry DEF NewReqsRight
 <2> QED BY <2>1, <2>2, <2>3 DEF CountersKept
<1> QED BY <1>1, <1>8, <1>11, UniqueStill

(* PrepareIRTACK and OnIRSync queue what they hear of. *)
LEMMA HearingUnique ==
  ASSUME TypeOK, UniqueInv, ClocksPositive', NEW src \in Sites, NEW s \in Sites, NEW now \in PhysTimes,
         PrepareIRTACK(src, s, now) \/ OnIRSync(src, s, now)
  PROVE UniqueInv'
<1>1. /\ TypeOK' /\ UNCHANGED <<my_txns, max_future_ts, last_clock>>
 <2>1. CASE PrepareIRTACK(src, s, now) BY <2>1, PrepareIRTACKType DEF PrepareIRTACK
 <2>2. CASE OnIRSync(src, s, now) BY <2>2, OnIRSyncType DEF OnIRSync
 <2> QED BY <2>1, <2>2
<1>2. \E noti :
        /\ noti \subseteq Used /\ ready_txns'[s] \subseteq ready_txns[s] \cup noti /\ OthersKept(s)
        /\ \A u \in Txns : Retouched(tx[s][u], tx'[s][u]) \/ Kept(s, u)
        /\ \A c \in Sites \X Nodes : \A w \in NewReqs(c) : w.type = "SendOutput"
        /\ \A c \in Sites \X Sites : \A w \in NewReps(c) : IsAnswer(w, s, c)
 <2>1. CASE PrepareIRTACK(src, s, now)
  <3> DEFINE m == RepAt(src, s)
  <3>1. /\ m \in MsgsIn(rep[<<src, s>>]) /\ m \in RepMsg /\ m.type = "PrepareIRTRes"
        /\ ready_txns'[s] \subseteq ready_txns[s] \cup m.noti /\ OthersKept(s)
        /\ \A u \in Txns : Retouched(tx[s][u], tx'[s][u]) \/ Kept(s, u)
        /\ \A c \in Sites \X Nodes : \A w \in NewReqs(c) : w.type = "SendOutput"
        /\ \A c \in Sites \X Sites : \A w \in NewReps(c) : IsAnswer(w, s, c) BY <2>1, PrepareIRTACKStep
  <3> HIDE DEF m
  <3>2. Carried(m) \subseteq Used BY <3>1, UsedPairs
  <3>3. m.noti \in Entries BY <3>1, RepFields
  <3>4. m.noti \subseteq Used BY <3>1, <3>2, <3>3, EntryFacts DEF Carried
  <3> QED BY <3>1, <3>4
 <2>2. CASE OnIRSync(src, s, now)
  <3> DEFINE m == ReqAt(src, s)
  <3>1. /\ m \in MsgsIn(req[<<src, s>>]) /\ m \in ReqMsg /\ m.type = "IRSync"
        /\ ready_txns'[s] \subseteq ready_txns[s] \cup m.noti /\ OthersKept(s)
        /\ \A u \in Txns : Retouched(tx[s][u], tx'[s][u]) \/ Kept(s, u)
        /\ \A c \in Sites \X Nodes : \A w \in NewReqs(c) : w.type = "SendOutput"
        /\ \A c \in Sites \X Sites : \A w \in NewReps(c) : IsAnswer(w, s, c) BY <2>2, OnIRSyncStep
  <3> HIDE DEF m
  <3>2. <<src, s>> \in Sites \X Nodes BY Placement
  <3>3. Carried(m) \subseteq Used BY <3>1, <3>2, UsedPairs
  <3>4. m.noti \in Entries BY <3>1, ReqFields
  <3>5. m.noti \subseteq Used BY <3>1, <3>3, <3>4, EntryFacts DEF Carried
  <3> QED BY <3>1, <3>5
 <2> QED BY <2>1, <2>2
<1>3. \A u \in Txns : AntIn(tx'[s][u], u, Used)
 <2>1. \A u \in Txns : tx'[s][u].anticipated = tx[s][u].anticipated BY <1>2 DEF Retouched, Kept, SameRecord
 <2> QED BY <2>1, UsedPairs, AntKept
<1>4. Used' \subseteq Used
 <2>1. ready_txns'[s] \subseteq Used BY <1>2, UsedPairs
 <2> QED BY <1>1, <1>2, <1>3, <2>1, OutputsCarry, NothingNew
<1>5. CountersKept
 <2>1. CountersForward /\ ClocksGood' /\ FuturesGood' BY <1>1, CountersStill
 <2>2. FloorsHigh' BY PiggyReleases, FloorsStayHigh
 <2>3. NewReqsRight BY <1>2, OutputsCarry DEF NewReqsRight
 <2> QED BY <2>1, <2>2, <2>3 DEF CountersKept
<1> QED BY <1>1, <1>4, <1>5, UniqueStill

(* IRSyncLoop: a site's round, or a manager's, tells only what is in use. *)
LEMMA IRSyncLoopUnique ==
  ASSUME TypeOK, UniqueInv, ClocksPositive', NEW n \in Nodes, NEW now \in PhysTimes, IRSyncLoop(n, now)
  PROVE UniqueInv'
<1>1. /\ TypeOK' /\ UNCHANGED <<my_txns, ready_txns, tx, rep, max_future_ts, dist_txn_tss>>
  BY IRSyncLoopType DEF IRSyncLoop, tableVars, execVars
<1>2. /\ \A k \in Nodes \ {n} : last_clock'[k] = last_clock[k]
      /\ \/ last_clock'[n] = last_clock[n]
         \/ \E k \in Nat : last_clock'[n] = After(Generate(n, now, dist_txn_tss[n]), k) BY IRSyncLoopStep
<1>3. \A c \in Sites \X Nodes : \A m \in NewReqs(c) :
        /\ m.type = "IRSync"
        /\ m.noti = IF n \in Sites
                    THEN CollectNotifyTxns(n, c[2], my_txns[n], ir_site_notified_ts[n][c[2]])
                    ELSE {} BY IRSyncLoopStep
<1>4. ASSUME n \in Sites PROVE LessEq(last_clock[n], last_clock'[n]) /\ GoodClock(last_clock'[n], n)
 <2>1. dist_txn_tss[n] \in Floors /\ \A f \in dist_txn_tss[n] : f.time >= 2 BY <1>4 DEF TypeOK, UniqueInv, FloorsHigh
 <2>2. ASSUME NEW k \in Nat, last_clock'[n] = After(Generate(n, now, dist_txn_tss[n]), k)
       PROVE LessEq(last_clock[n], last_clock'[n]) /\ GoodClock(last_clock'[n], n)
  <3>1. SiteStamp(last_clock'[n], n) /\ Less(last_clock[n], last_clock'[n]) BY <1>4, <2>1, <2>2, SiteGenerates
  <3> QED BY <3>1 DEF LessEq, SiteStamp, GoodClock
 <2>3. CASE last_clock'[n] = last_clock[n] BY <1>4, <2>3 DEF LessEq, UniqueInv, ClocksGood
 <2> QED BY <1>2, <2>2, <2>3
<1>5. \A s \in Sites : LessEq(last_clock[s], last_clock'[s]) /\ GoodClock(last_clock'[s], s)
  BY <1>2, <1>4, Placement DEF LessEq, UniqueInv, ClocksGood
<1>6. CountersKept
 <2>1. NewReqsRight BY <1>3, CarriesNothing DEF NewReqsRight
 <2> QED BY <1>1, <1>5, <2>1 DEF CountersKept, CountersForward, ClocksGood, FuturesGood, FloorsHigh, UniqueInv, LessEq
<1>7. Used' \subseteq Used
 <2>1. ASSUME NEW c \in Sites \X Nodes, NEW m \in NewReqs(c) PROVE Carried(m) \subseteq Used
  <3>1. Carried(m) \subseteq m.noti BY <1>3 DEF Carried
  <3>2. m.noti = {} \/ (n \in Sites /\ m.noti \subseteq my_txns[n]) BY <1>3, CollectUsed
  <3> QED BY <3>1, <3>2, UsedPairs
 <2>2. \A c \in Sites \X Sites : NewReps(c) = {} BY <1>1 DEF NewReps
 <2>3. Used \cup {} = Used OBVIOUS
 <2>4. \A s \in Sites : ready_txns'[s] \subseteq Used /\ my_txns'[s] \subseteq Used BY <1>1, UsedPairs
 <2>5. \A s \in Sites, t \in Txns : AntIn(tx'[s][t], t, Used) BY <1>1, UsedPairs
 <2>6. Used' \subseteq Used \cup {} BY <1>1, <2>1, <2>2, <2>3, <2>4, <2>5, UsedGrows
 <2> QED BY <2>6
<1> QED BY <1>1, <1>6, <1>7, UniqueStill

(* OnSubmitCRT hands out no timestamp of a transaction: its PrepareRemote only tells the
   managers how late it is at the coordinator. *)
LEMMA OnSubmitCRTUnique ==
  ASSUME TypeOK, UniqueInv, ClocksPositive', NEW s \in Sites, NEW t \in Txns, NEW now \in PhysTimes,
         OnSubmitCRT(s, t, now)
  PROVE UniqueInv'
<1> DEFINE ts == Generate(s, now, dist_txn_tss[s])
<1>1. /\ TypeOK' /\ UNCHANGED <<my_txns, ready_txns, rep, max_future_ts, dist_txn_tss>>
      /\ last_clock' = [last_clock EXCEPT ![s] = ts] BY OnSubmitCRTType DEF OnSubmitCRT
<1>2. /\ \A u \in Txns \ {t} : tx'[s][u] = tx[s][u]
      /\ IsCoordinated(tx'[s][t], s, t)
      /\ OthersKept(s)
      /\ last_clock'[s] = ts BY OnSubmitCRTStep
<1>3. \A c \in Sites \X Nodes : \A m \in NewReqs(c) :
        c[1] = s /\ m.type = "PrepareRemote" /\ m.ts = last_clock'[s] BY OnSubmitCRTStep
<1>4. SiteStamp(ts, s) /\ Less(last_clock[s], ts)
 <2>1. dist_txn_tss[s] \in Floors /\ \A f \in dist_txn_tss[s] : f.time >= 2
   BY Placement DEF TypeOK, UniqueInv, FloorsHigh
 <2> QED BY <2>1, SiteGenerates, 0 \in Nat
<1> HIDE DEF ts
<1>5. CountersKept
 <2>1. CountersForward /\ ClocksGood' /\ FuturesGood' BY <1>1, <1>4, SiteCounts
 <2>2. FloorsHigh' BY <1>1 DEF UniqueInv, FloorsHigh
 <2>3. NewReqsRight BY <1>2, <1>3, <1>4 DEF NewReqsRight, RightReq, SiteStamp
 <2> QED BY <2>1, <2>2, <2>3 DEF CountersKept
<1>6. Used' \subseteq Used
 <2>1. \A c \in Sites \X Nodes : \A m \in NewReqs(c) : Carried(m) \subseteq Used BY <1>3, CarriesNothing
 <2>2. \A c \in Sites \X Sites : \A m \in NewReps(c) : Carried(m) \subseteq Used BY <1>1 DEF NewReps
 <2>3. \A u \in Txns : AntIn(tx'[s][u], u, Used) BY <1>2, UsedPairs, AntKept DEF IsCoordinated
 <2>4. ready_txns'[s] \subseteq Used BY <1>1, UsedPairs
 <2> QED BY <1>1, <1>2, <2>1, <2>2, <2>3, <2>4, NothingNew
<1> QED BY <1>1, <1>5, <1>6, UniqueStill

(* DastManager::PrepareCRT hands out the anticipated timestamp. *)
LEMMA MgrPrepareCRTUnique ==
  ASSUME TypeOK, UniqueInv, ClocksPositive', NEW src \in Sites, NEW mgr \in Managers,
         NEW now \in PhysTimes, MgrPrepareCRT(src, mgr, now)
  PROVE UniqueInv'
<1> DEFINE m   == ReqAt(src, mgr)
           ant == AnticipatedTs(mgr, m.ts, last_clock'[mgr], max_future_ts[mgr], EstimatedRtt)
           N   == {At(ant, m.txn)}
<1>1. TypeOK' /\ UNCHANGED <<my_txns, ready_txns, tx, rep, dist_txn_tss>>
  BY MgrPrepareCRTType DEF MgrPrepareCRT, tableVars, execVars
<1>2. /\ m \in MsgsIn(req[<<src, mgr>>]) /\ m \in ReqMsg /\ m.type = "PrepareRemote"
      /\ \A k \in Nodes \ {mgr} : last_clock'[k] = last_clock[k]
      /\ max_future_ts'[mgr] = ant
      /\ \A k \in Managers \ {mgr} : max_future_ts'[k] = max_future_ts[k] BY MgrPrepareCRTStep
<1>3. \A c \in Sites \X Nodes : \A w \in NewReqs(c) :
        c[2] \in Sites /\ CrtMsg(w, m, mgr, c[2]) /\ w.ts = max_future_ts'[mgr] BY MgrPrepareCRTStep
<1> HIDE DEF m
<1>4. mgr \in Nodes /\ mgr \notin Sites /\ <<src, mgr>> \in Sites \X Nodes BY Placement, ManagerFacts
<1>5. m.ts \in ChrTsType /\ m.ts.time >= 1 /\ m.txn \in Txns BY <1>2, <1>4, ReqFields DEF UniqueInv, ReqsRight, RightReq
<1>6. /\ ant \in ChrTsType /\ ant.time >= 2 /\ ant.stretch = 0 /\ ant.site = mgr
      /\ Less(max_future_ts[mgr], ant)
 <2>1. max_future_ts[mgr] \in ChrTsType /\ GoodFuture(max_future_ts[mgr], mgr)
   BY TsFacts DEF TypeOK, UniqueInv, FuturesGood
 <2>2. last_clock' \in [Nodes -> ChrTsType] BY <1>1 DEF TypeOK
 <2>3. last_clock'[mgr] \in ChrTsType BY <1>4, <2>2
 <2> QED BY <1>5, <2>1, <2>3, ManagerAnticipates
<1> HIDE DEF ant
<1>7. N \in SUBSET Entry /\ \A d, e \in N : d = e BY <1>5, <1>6 DEF Entry, At
<1>8. /\ ~HandedOut(ant, last_clock, max_future_ts)
      /\ HandedOut(ant, last_clock', max_future_ts')
 <2>1. max_future_ts[mgr] \in ChrTsType BY TsFacts DEF TypeOK
 <2>2. ~LessEq(ant, max_future_ts[mgr]) BY <1>6, <2>1, LessEqOrder
 <2> QED BY <1>2, <1>6, <2>2 DEF HandedOut, LessEq
<1>9. \A e \in N : /\ ~HandedOut(e.ts, last_clock, max_future_ts)
                   /\ HandedOut(e.ts, last_clock', max_future_ts')
 <2>1. \A e \in N : e.ts = ant BY DEF At
 <2> HIDE DEF N
 <2> QED BY <1>8, <2>1
<1>10. CountersKept
 <2>1. \A s \in Sites : last_clock'[s] = last_clock[s] BY <1>2, <1>4, Placement
 <2>2. GoodFuture(ant, mgr) BY <1>6 DEF GoodFuture
 <2>3. \A k \in Managers : /\ LessEq(max_future_ts[k], max_future_ts'[k])
                           /\ GoodFuture(max_future_ts'[k], k) BY <1>2, <1>6, <2>2 DEF LessEq, UniqueInv, FuturesGood
 <2>4. NewReqsRight BY <1>3 DEF NewReqsRight, RightReq, CrtMsg
 <2> QED BY <1>1, <2>1, <2>3, <2>4 DEF CountersKept, CountersForward, ClocksGood, FuturesGood, FloorsHigh, UniqueInv,
     LessEq
<1>11. Used' \subseteq Used \cup N
 <2>1. ASSUME NEW c \in Sites \X Nodes, NEW w \in NewReqs(c) PROVE Carried(w) \subseteq Used \cup N
  <3>1. w.type \in {"PrepareCRT", "NotiCRT"} /\ w.txn = m.txn /\ w.ts = ant BY <1>2, <1>3 DEF CrtMsg
  <3> QED BY <3>1 DEF Carried
 <2>2. \A c \in Sites \X Sites : NewReps(c) = {} BY <1>1 DEF NewReps
 <2>3. \A s \in Sites : ready_txns'[s] \subseteq Used /\ my_txns'[s] \subseteq Used BY <1>1, UsedPairs
 <2>4. \A s \in Sites, t \in Txns : AntIn(tx'[s][t], t, Used \cup N) BY <1>1, UsedPairs, AntKept
 <2> HIDE DEF N
 <2> QED BY <1>1, <2>1, <2>2, <2>3, <2>4, UsedGrows
<1> HIDE DEF N
<1> QED BY <1>1, <1>7, <1>9, <1>10, <1>11, UniqueStep

(* A pair that a message in use carries is handed out by a manager. *)
LEMMA AnticipatedHigh ==
  ASSUME UniqueInv, NEW ts \in AnticipatedType, NEW t, At(ts, t) \in Used
  PROVE ts.time >= 2
<1>1. HandedOut(At(ts, t).ts, last_clock, max_future_ts) /\ At(ts, t).ts = ts BY DEF UniqueInv, UsedHandedOut, At
<1>2. ts.stretch = 0 BY DEF AnticipatedType
<1> QED BY <1>1, <1>2 DEF HandedOut

(* The pair that a request carries. *)
LEMMA ReqPair ==
  ASSUME TypeOK, NEW c \in Sites \X Nodes, NEW m \in MsgsIn(req[c])
  PROVE  /\ m.type \in {"PrepareCRT", "NotiCRT", "RemotePrepared", "DistExe"}
              => m.ts \in AnticipatedType /\ m.txn \in Txns /\ At(m.ts, m.txn) \in Used
         /\ m.type \in {"NotiWait", "NotiCommit"} /\ m.wait
              => m.new \in AnticipatedType /\ m.txn \in Txns /\ At(m.new, m.txn) \in Used
<1>1. m \in ReqMsg
 <2>1. req[c] \in Seq(ReqMsg) BY DEF TypeOK
 <2> QED BY <2>1 DEF MsgsIn
<1>2. Carried(m) \subseteq Used BY UsedPairs
<1>3. \A ts \in AnticipatedType : \A t \in Txns : At(ts, t) \in Entry BY TsFacts DEF At, Entry
<1>4. ASSUME m.type \in {"PrepareCRT", "NotiCRT", "RemotePrepared", "DistExe"}
      PROVE m.ts \in AnticipatedType /\ m.txn \in Txns /\ At(m.ts, m.txn) \in Used
 <2>1. m.ts \in AnticipatedType /\ m.txn \in Txns BY <1>1, <1>4, ReqFields
 <2> QED BY <1>2, <1>3, <1>4, <2>1 DEF Carried
<1>5. ASSUME m.type \in {"NotiWait", "NotiCommit"}, m.wait
      PROVE m.new \in AnticipatedType /\ m.txn \in Txns /\ At(m.new, m.txn) \in Used
 <2>1. m.new \in AnticipatedType /\ m.txn \in Txns BY <1>1, <1>5, ReqFields
 <2> QED BY <1>2, <1>3, <1>5, <2>1 DEF Carried
<1> QED BY <1>4, <1>5

(* A handler that touches no queue, no record and no counter. *)
LEMMA QuietUnique ==
  ASSUME TypeOK, TypeOK', UniqueInv, ClocksPositive', FloorsHigh',
         UNCHANGED <<my_txns, ready_txns, tx, rep, last_clock, max_future_ts>>,
         \A c \in Sites \X Nodes : \A m \in NewReqs(c) :
           Carried(m) \subseteq Used /\ RightReq(m, c[1], c[2])
  PROVE UniqueInv'
<1>1. CountersKept BY CountersStill DEF CountersKept, NewReqsRight
<1>2. Used' \subseteq Used
 <2>1. \A c \in Sites \X Sites : NewReps(c) = {} BY DEF NewReps
 <2>2. Used \cup {} = Used OBVIOUS
 <2>3. \A s \in Sites : ready_txns'[s] \subseteq Used /\ my_txns'[s] \subseteq Used BY UsedPairs
 <2>4. \A s \in Sites, t \in Txns : AntIn(tx'[s][t], t, Used) BY UsedPairs
 <2>5. Used' \subseteq Used \cup {} BY <2>1, <2>2, <2>3, <2>4, UsedGrows
 <2> QED BY <2>5
<1> QED BY <1>1, <1>2, UniqueStill

(* The manager's NotiWait and MgrFinish, and the replicas' OnNotiCRT and OnNotiCommit,
   pass on pairs in use. *)
LEMMA NotiUnique ==
  ASSUME TypeOK, UniqueInv, ClocksPositive', NEW src \in Sites,
         \/ \E mgr \in Managers : NotiWait(src, mgr) \/ MgrFinish(mgr)
         \/ \E s \in Sites : OnNotiCRT(src, s) \/ OnNotiCommit(src, s)
  PROVE UniqueInv'
<1>1. ASSUME NEW mgr \in Managers, NotiWait(src, mgr) PROVE UniqueInv'
 <2> DEFINE m == ReqAt(src, mgr)
 <2>1. /\ TypeOK' /\ UNCHANGED <<my_txns, ready_txns, tx, rep, last_clock, max_future_ts>>
       /\ UNCHANGED dist_txn_tss BY <1>1, NotiWaitType DEF NotiWait, tableVars, execVars
 <2>2. /\ m \in MsgsIn(req[<<src, mgr>>]) /\ m.type = "NotiWait"
       /\ \A c \in Sites \X Nodes : \A w \in NewReqs(c) :
            w.type = "NotiCommit" /\ w.txn = m.txn /\ w.wait = m.wait /\ w.new = m.new BY <1>1, NotiWaitStep
 <2> HIDE DEF m
 <2>3. <<src, mgr>> \in Sites \X Nodes BY Placement
 <2>4. m.wait => At(m.new, m.txn) \in Used BY <2>2, <2>3, ReqPair
 <2>5. ASSUME NEW c \in Sites \X Nodes, NEW w \in NewReqs(c) PROVE Carried(w) \subseteq Used /\ RightReq(w, c[1], c[2])
  <3>1. w.type = "NotiCommit" /\ w.txn = m.txn /\ w.wait = m.wait /\ w.new = m.new BY <2>2
  <3> QED BY <2>4, <3>1, CarriesNothing DEF Carried
 <2>6. FloorsHigh' BY <2>1 DEF UniqueInv, FloorsHigh
 <2> QED BY <2>1, <2>5, <2>6, QuietUnique
<1>2. ASSUME NEW mgr \in Managers, MgrFinish(mgr) PROVE UniqueInv'
 <2>1. /\ TypeOK' /\ UNCHANGED <<my_txns, ready_txns, tx, rep, last_clock, max_future_ts>>
       /\ UNCHANGED req
       /\ dist_txn_tss' = [dist_txn_tss EXCEPT ![mgr] =
                             (@ \ mgr_todo[mgr].erase) \cup mgr_todo[mgr].insert]
   BY <1>2, MgrFinishType DEF MgrFinish, tableVars, execVars
 <2>2. \A r \in Sites : dist_txn_tss'[r] \subseteq dist_txn_tss[r] BY <2>1, ManagerFacts DEF TypeOK
 <2>3. FloorsHigh' BY <2>2, FloorsStayHigh
 <2>4. \A c \in Sites \X Nodes : NewReqs(c) = {} BY <2>1 DEF NewReqs
 <2> QED BY <2>1, <2>3, <2>4, QuietUnique
<1>3. ASSUME NEW s \in Sites, OnNotiCRT(src, s) PROVE UniqueInv'
 <2> DEFINE m == ReqAt(src, s)
 <2>1. /\ TypeOK' /\ UNCHANGED <<my_txns, ready_txns, tx, rep, last_clock, max_future_ts>>
       /\ dist_txn_tss' = [dist_txn_tss EXCEPT ![s] = @ \cup {m.ts}]
       /\ req' = Taken(req, <<src, s>>) /\ Receives(src, s, "NotiCRT")
   BY <1>3, OnNotiCRTType DEF OnNotiCRT, tableVars, execVars, ReqAt
 <2>2. NoNewReqs /\ m \in MsgsIn(req[<<src, s>>]) /\ m.type = "NotiCRT" /\ <<src, s>> \in Sites \X Nodes
   BY <2>1, Placement, OnlyTaken, ReceivesMsgs, ReceivesType DEF ReqAt
 <2> HIDE DEF m
 <2>3. m.ts.time >= 2 BY <2>2, ReqPair, AnticipatedHigh
 <2>4. FloorsHigh' BY <2>1, <2>3, Placement DEF TypeOK, UniqueInv, FloorsHigh
 <2> QED BY <2>1, <2>2, <2>4, QuietUnique DEF NoNewReqs
<1>4. ASSUME NEW s \in Sites, OnNotiCommit(src, s) PROVE UniqueInv'
 <2> DEFINE m == ReqAt(src, s)
 <2>1. /\ TypeOK' /\ UNCHANGED <<my_txns, ready_txns, tx, rep, last_clock, max_future_ts>>
       /\ dist_txn_tss' = [dist_txn_tss EXCEPT ![s] =
                             (@ \ {m.orig}) \cup (IF m.wait THEN {m.new} ELSE {})]
       /\ req' = Taken(req, <<src, s>>) /\ Receives(src, s, "NotiCommit")
   BY <1>4, OnNotiCommitType DEF OnNotiCommit, tableVars, execVars, ReqAt
 <2>2. NoNewReqs /\ m \in MsgsIn(req[<<src, s>>]) /\ m.type = "NotiCommit" /\ <<src, s>> \in Sites \X Nodes
   BY <2>1, Placement, OnlyTaken, ReceivesMsgs, ReceivesType DEF ReqAt
 <2> HIDE DEF m
 <2>3. m.wait => m.new.time >= 2 BY <2>2, ReqPair, AnticipatedHigh
 <2>4. FloorsHigh' BY <2>1, <2>3, Placement DEF TypeOK, UniqueInv, FloorsHigh
 <2> QED BY <2>1, <2>2, <2>4, QuietUnique DEF NoNewReqs
<1> QED BY <1>1, <1>2, <1>3, <1>4

-----
(* The decision of a transaction is one of the timestamps that managers anticipated for
   it, since one of its regions has answered. *)
LEMMA DecisionUsed ==
  ASSUME UniqueInv, NEW t \in Txns, NEW y \in TxType, AntIn(y, t, Used),
         NEW r0 \in TouchedRegions(t), y.anticipated[r0].time >= 2
  PROVE  /\ DecisionTs(t, y) \in AnticipatedType /\ At(DecisionTs(t, y), t) \in Used
         /\ DecisionTs(t, y).time >= 2
<1> DEFINE d == DecisionTs(t, y)
<1>1. /\ \E r \in TouchedRegions(t) : r \in Regions /\ d = y.anticipated[r]
      /\ LessEq(y.anticipated[r0], d) /\ d \in AnticipatedType BY DecisionIsHighest
<1> HIDE DEF d
<1>2. y.anticipated[r0].time \in Int /\ d.time \in Int
 <2>1. y.anticipated \in [Regions -> AnticipatedType] BY DEF TxType, TsOfRegions
 <2>2. y.anticipated[r0] \in AnticipatedType BY <2>1, Workload
 <2> QED BY <1>1, <2>2 DEF AnticipatedType
<1>3. d.time >= 2 BY <1>1, <1>2 DEF LessEq, Less
<1>4. d # ZeroTs BY <1>3 DEF ZeroTs, ChrTsOf
<1>5. At(d, t) \in Used BY <1>1, <1>4 DEF AntIn
<1> QED BY <1>1, <1>3, <1>5 DEF d

(* The clock and the floors that CheckRemotePrepared leaves. *)
LEMMA DecideCounts ==
  ASSUME TypeOK, UniqueInv, NEW s \in Sites, NEW t \in Txns, NEW acked \in TxType, NEW par,
         NEW floors \in Floors, \A f \in floors : f.time >= 2, NEW q, NEW now \in PhysTimes,
         CheckRemotePrepared(s, t, acked, par, floors, q, now), UNCHANGED max_future_ts,
         NEW y, y = WithPrepared(acked, par), y \in TxType,
         DecisionTs(t, y) \in AnticipatedType, DecisionTs(t, y).time >= 2
  PROVE CountersForward /\ ClocksGood' /\ FuturesGood' /\ FloorsHigh'
<1> DEFINE F  == (floors \ {y.ts}) \cup (IF AllPiecesInputReady(y) THEN {} ELSE {DecisionTs(t, y)})
           ts == Generate(s, now, F)
<1>1. \/ /\ UNCHANGED last_clock
         /\ \E R, x, ni : NoExecution(s, R, x, ni, floors)
      \/ /\ last_clock' = [last_clock EXCEPT ![s] = ts]
         /\ \E run, R, x, ni, maxTs : CheckExecutableTxns(s, run, R, x, ni, F, maxTs) BY DEF CheckRemotePrepared
<1>2. F \in Floors /\ \A f \in F : f.time >= 2
 <2>1. floors \ {y.ts} \in Floors /\ {} \in Floors /\ {DecisionTs(t, y)} \in Floors BY FloorFacts
 <2> QED BY <2>1, FloorFacts
<1> HIDE DEF F
<1>3. SiteStamp(ts, s) /\ Less(last_clock[s], ts) BY <1>2, SiteGenerates, 0 \in Nat
<1> HIDE DEF ts
<1>4. ASSUME NEW G, \A f \in G : f.time >= 2, dist_txn_tss'[s] \subseteq G,
             \A r \in Sites \ {s} : dist_txn_tss'[r] = dist_txn_tss[r]
      PROVE FloorsHigh' BY <1>4 DEF UniqueInv, FloorsHigh
<1>5. CASE /\ UNCHANGED last_clock
           /\ \E R, x, ni : NoExecution(s, R, x, ni, floors)
 <2>1. /\ dist_txn_tss'[s] \subseteq floors
       /\ \A r \in Sites \ {s} : dist_txn_tss'[r] = dist_txn_tss[r] BY <1>5, FloorsLeft
 <2>2. FloorsHigh' BY <1>4, <2>1
 <2> QED BY <1>5, <2>2, CountersStill
<1>6. CASE /\ last_clock' = [last_clock EXCEPT ![s] = ts]
           /\ \E run, R, x, ni, maxTs : CheckExecutableTxns(s, run, R, x, ni, F, maxTs)
 <2>1. /\ dist_txn_tss'[s] \subseteq F
       /\ \A r \in Sites \ {s} : dist_txn_tss'[r] = dist_txn_tss[r] BY <1>6, FloorsLeft
 <2>2. FloorsHigh' BY <1>2, <1>4, <2>1
 <2> QED BY <1>3, <1>6, <2>2, SiteCounts
<1> QED BY <1>1, <1>5, <1>6

(* The coordinator has put an acknowledgement into the record of t. *)
LEMMA AcknowledgedUnique ==
  ASSUME TypeOK, TypeOK', UniqueInv, ClocksPositive', UNCHANGED <<max_future_ts, my_txns>>,
         NEW s \in Sites, NEW t \in Txns, NEW acked \in TxType, NEW par, AntIn(acked, t, Used),
         NEW r0 \in TouchedRegions(t), acked.anticipated[r0].time >= 2,
         NEW floors \in Floors, \A f \in floors : f.time >= 2,
         NEW q \in [Sites \X Nodes -> Seq(ReqMsg)],
         \A c \in Sites \X Nodes : MsgsIn(q[c]) \subseteq MsgsIn(req[c]),
         NEW now \in PhysTimes, CheckRemotePrepared(s, t, acked, par, floors, q, now)
  PROVE UniqueInv'
<1> DEFINE y == WithPrepared(acked, par)
           d == DecisionTs(t, y)
<1>1. y \in TxType /\ y.anticipated = acked.anticipated BY DecidedRecord
<1>2. OthersKept(s) /\ (\A u \in Txns \ {t} : Kept(s, u)) /\ Acknowledged(s, t, acked, par, now)
  BY CheckRemotePreparedLeaves
<1>3. \/ /\ tx'[s][t] = y /\ ready_txns'[s] = ready_txns[s] /\ rep' = rep /\ NoNewReqs
      \/ /\ SameRecord(Decided(t, y), tx'[s][t])
         /\ ready_txns'[s] \subseteq ready_txns[s] \cup {At(d, t)}
         /\ \A c \in Sites \X Nodes : \A m \in NewReqs(c) :
              m.type = "SendOutput" \/ (c[1] = s /\ DecisionMsg(m, s, t, y, c[2]))
         /\ \A c \in Sites \X Sites : \A m \in NewReps(c) : IsAnswer(m, s, c) BY <1>2 DEF Acknowledged, At
<1>4. Decided(t, y).anticipated = y.anticipated BY DecidedRecord
<1>5. AntIn(y, t, Used) /\ y.anticipated[r0].time >= 2 BY <1>1 DEF AntIn
<1> HIDE DEF y
<1>6. d \in AnticipatedType /\ At(d, t) \in Used /\ d.time >= 2 BY <1>1, <1>5, DecisionUsed
<1>7. CountersForward /\ ClocksGood' /\ FuturesGood' /\ FloorsHigh'
 <2>1. y = WithPrepared(acked, par) BY DEF y
 <2> QED BY <1>1, <1>6, <2>1, DecideCounts
<1>8. \A u \in Txns : AntIn(tx'[s][u], u, Used)
 <2>1. AntIn(tx'[s][t], t, Used) BY <1>3, <1>4, <1>5, AntKept DEF SameRecord
 <2>2. \A u \in Txns \ {t} : tx'[s][u].anticipated = tx[s][u].anticipated BY <1>2 DEF Kept, SameRecord
 <2> QED BY <2>1, <2>2, UsedPairs, AntKept
<1>9. \A c \in Sites \X Nodes : \A m \in NewReqs(c) : Carried(m) \subseteq Used /\ RightReq(m, c[1], c[2])
 <2>1. \A m, e : DecisionMsg(m, s, t, y, e) =>
          /\ m.txn = t
          /\ (m.type = "DistExe" /\ m.ts = d) \/ (m.type = "NotiWait" /\ (m.wait => m.new = d)) BY DEF DecisionMsg
 <2> HIDE DEF d
 <2>2. \A m, e : DecisionMsg(m, s, t, y, e) => Carried(m) \subseteq Used BY <1>6, <2>1 DEF Carried
 <2>3. \A m, e, a, b : DecisionMsg(m, s, t, y, e) => RightReq(m, a, b) BY <2>1, CarriesNothing
 <2> QED BY <1>3, <2>2, <2>3, OutputsCarry DEF NoNewReqs
<1>10. \A c \in Sites \X Sites : \A m \in NewReps(c) : Carried(m) \subseteq Used BY <1>3, OutputsCarry DEF NewReps
<1>11. ready_txns'[s] \subseteq Used BY <1>3, <1>6, UsedPairs
<1>12. Used' \subseteq Used BY <1>2, <1>8, <1>9, <1>10, <1>11, NothingNew
<1>13. CountersKept BY <1>7, <1>9 DEF CountersKept, NewReqsRight
<1> QED BY <1>12, <1>13, UniqueStill

(* An acknowledgement with ts leaves only pairs in use in the record of t. *)
LEMMA AckAntIn ==
  ASSUME NEW y \in TxType, NEW s \in Sites, NEW ts \in AnticipatedType, NEW t, AntIn(y, t, Used),
         At(ts, t) \in Used, NEW leads
  PROVE  /\ OwnAck(y, s, ts) \in TxType /\ AntIn(OwnAck(y, s, ts), t, Used)
         /\ OwnAck(y, s, ts).anticipated[SiteRegion(s)] = ts
         /\ Ack(y, s, ts, leads) \in TxType /\ AntIn(Ack(y, s, ts, leads), t, Used)
         /\ Ack(y, s, ts, leads).anticipated[SiteRegion(s)] = ts
<1>1. y.anticipated \in [Regions -> AnticipatedType] /\ SiteRegion(s) \in Regions
  BY Placement DEF TxType, TsOfRegions, SiteRegion
<1>2. OwnAck(y, s, ts) \in TxType /\ Ack(y, s, ts, leads) \in TxType BY AckRecords
<1>3. /\ OwnAck(y, s, ts).anticipated = [y.anticipated EXCEPT ![SiteRegion(s)] = ts]
      /\ Ack(y, s, ts, leads).anticipated = [y.anticipated EXCEPT ![SiteRegion(s)] = ts]
  BY <1>2 DEF OwnAck, Ack, TxType, SiteRegion
<1> QED BY <1>1, <1>2, <1>3 DEF AntIn

(* OnRemotePrepared: the acknowledgement carries the anticipated timestamp of a region
   that the transaction touches. *)
LEMMA OnRemotePreparedUnique ==
  ASSUME TypeOK, UniqueInv, ClocksPositive', NEW src \in Sites, NEW s \in Sites, NEW now \in PhysTimes,
         OnRemotePrepared(src, s, now)
  PROVE UniqueInv'
<1> DEFINE m     == ReqAt(src, s)
           t     == m.txn
           acked == Ack(tx[s][t], src, m.ts, m.leads)
           q     == Taken(req, <<src, s>>)
<1>1. TypeOK' /\ UNCHANGED <<max_future_ts, my_txns>> /\ Receives(src, s, "RemotePrepared")
  BY OnRemotePreparedType DEF OnRemotePrepared, tableVars
<1>2. s \in Nodes /\ <<src, s>> \in Sites \X Nodes BY Placement
<1>3. /\ m \in ReqMsg /\ m.type = "RemotePrepared" /\ m \in MsgsIn(req[<<src, s>>])
      /\ q \in [Sites \X Nodes -> Seq(ReqMsg)]
      /\ \A c \in Sites \X Nodes : MsgsIn(q[c]) \subseteq MsgsIn(req[c])
  BY <1>1, <1>2, ReceivesType, ReceivesMsgs DEF ReqAt
<1>4. CheckRemotePrepared(s, t, acked, ParOf(src), dist_txn_tss[s], q, now) BY DEF OnRemotePrepared, ReqAt, Ack
<1> HIDE DEF m, q
<1>5. m.ts \in AnticipatedType /\ t \in Txns /\ At(m.ts, t) \in Used BY <1>2, <1>3, ReqPair
<1>6. m.ts.time >= 2 BY <1>5, AnticipatedHigh
<1>7. ParOf(src) \in Touched(t) BY <1>2, <1>3 DEF UniqueInv, ReqsRight, RightReq
<1>8. SiteRegion(src) \in TouchedRegions(t) BY <1>7 DEF TouchedRegions, SiteRegion
<1>9. tx[s][t] \in TxType /\ AntIn(tx[s][t], t, Used) BY <1>5, UsedPairs DEF TypeOK
<1> HIDE DEF t
<1>10. acked \in TxType /\ AntIn(acked, t, Used) /\ acked.anticipated[SiteRegion(src)] = m.ts BY <1>5, <1>9, AckAntIn
<1> HIDE DEF acked
<1>12. acked.anticipated[SiteRegion(src)].time >= 2 BY <1>6, <1>10
<1>13. dist_txn_tss[s] \in Floors /\ \A f \in dist_txn_tss[s] : f.time >= 2 BY <1>2 DEF TypeOK, UniqueInv, FloorsHigh
<1> QED BY <1>1, <1>3, <1>4, <1>5, <1>8, <1>10, <1>12, <1>13, AcknowledgedUnique

(* OnPrepareCRT puts the pair that the manager sent into the record of the coordinator,
   or into the queue of another replica and into its answer. *)
LEMMA OnPrepareCRTUnique ==
  ASSUME TypeOK, UniqueInv, ClocksPositive', NEW src \in Sites, NEW s \in Sites, NEW now \in PhysTimes,
         OnPrepareCRT(src, s, now)
  PROVE UniqueInv'
<1> DEFINE m     == ReqAt(src, s)
           t     == m.txn
           acked == OwnAck(tx[s][t], s, m.ts)
           floors == dist_txn_tss[s] \cup {m.ts}
           q     == Taken(req, <<src, s>>)
<1>1. TypeOK' /\ UNCHANGED <<max_future_ts, my_txns>> /\ Receives(src, s, "PrepareCRT")
  BY OnPrepareCRTType DEF OnPrepareCRT
<1>2. s \in Nodes /\ <<src, s>> \in Sites \X Nodes BY Placement
<1>3. /\ m \in ReqMsg /\ m.type = "PrepareCRT" /\ m \in MsgsIn(req[<<src, s>>])
      /\ q \in [Sites \X Nodes -> Seq(ReqMsg)]
      /\ \A c \in Sites \X Nodes : MsgsIn(q[c]) \subseteq MsgsIn(req[c])
  BY <1>1, <1>2, ReceivesType, ReceivesMsgs DEF ReqAt
<1>4. \/ t \in dtxns[s] /\ tx[s][t].phase = DIST_REMOTE_SENT
         /\ CheckRemotePrepared(s, t, acked, ParOf(s), floors, q, now)
      \/ t \in dtxns[s] /\ tx[s][t].phase # DIST_REMOTE_SENT /\ UNCHANGED <<last_clock, dist_txn_tss>>
      \/ t \notin dtxns[s] /\ UNCHANGED last_clock /\ \E R, x, ni : NoExecution(s, R, x, ni, floors)
  BY DEF OnPrepareCRT, ReqAt, OwnAck
<1>5. /\ OthersKept(s) /\ \A u \in Txns \ {t} : Kept(s, u)
      /\ \/ t \in dtxns[s] /\ tx[s][t].phase = DIST_REMOTE_SENT
         \/ /\ t \in dtxns[s] /\ tx[s][t].phase # DIST_REMOTE_SENT
            /\ Kept(s, t) /\ ready_txns'[s] = ready_txns[s] /\ rep' = rep /\ NoNewReqs
         \/ /\ t \notin dtxns[s] /\ IsPrepared(tx'[s][t], s, m)
            /\ ready_txns'[s] \subseteq ready_txns[s] \cup {At(m.ts, t)}
            /\ rep' = rep
            /\ \A c \in Sites \X Nodes : \A w \in NewReqs(c) :
                 c[1] = s /\ c[2] = m.coord /\ PreparedMsg(w, s, m) BY OnPrepareCRTStep DEF At
<1> HIDE DEF m, q
<1>6. m.ts \in AnticipatedType /\ t \in Txns /\ At(m.ts, t) \in Used BY <1>2, <1>3, ReqPair
<1>7. m.ts.time >= 2 BY <1>6, AnticipatedHigh
<1>8. ParOf(s) \in Touched(t) BY <1>2, <1>3 DEF UniqueInv, ReqsRight, RightReq
<1>9. tx[s][t] \in TxType /\ AntIn(tx[s][t], t, Used) BY <1>6, UsedPairs DEF TypeOK
<1>10. floors \in Floors /\ \A f \in floors : f.time >= 2
 <2>1. dist_txn_tss[s] \in Floors /\ \A f \in dist_txn_tss[s] : f.time >= 2 BY <1>2 DEF TypeOK, UniqueInv, FloorsHigh
 <2> QED BY <1>6, <1>7, <2>1, FloorFacts
<1> HIDE DEF t, floors
<1>11. CASE CheckRemotePrepared(s, t, acked, ParOf(s), floors, q, now)
 <2>1. SiteRegion(s) \in TouchedRegions(t) BY <1>8 DEF TouchedRegions, SiteRegion
 <2>3. acked \in TxType /\ AntIn(acked, t, Used) /\ acked.anticipated[SiteRegion(s)] = m.ts BY <1>6, <1>9, AckAntIn
 <2> HIDE DEF acked
 <2>4. acked.anticipated[SiteRegion(s)].time >= 2 BY <1>7, <2>3
 <2> QED BY <1>1, <1>3, <1>6, <1>10, <1>11, <2>1, <2>3, <2>4, AcknowledgedUnique
<1>12. \A u \in Txns \ {t} : AntIn(tx'[s][u], u, Used)
 <2>1. \A u \in Txns \ {t} : tx'[s][u].anticipated = tx[s][u].anticipated BY <1>5 DEF Kept, SameRecord
 <2> QED BY <2>1, UsedPairs, AntKept
<1>13. CASE t \in dtxns[s] /\ tx[s][t].phase # DIST_REMOTE_SENT
 <2>1. /\ Kept(s, t) /\ ready_txns'[s] = ready_txns[s] /\ rep' = rep /\ NoNewReqs
       /\ UNCHANGED <<last_clock, dist_txn_tss>> BY <1>4, <1>5, <1>13
 <2>2. AntIn(tx'[s][t], t, Used) BY <1>9, <2>1, AntKept DEF Kept, SameRecord
 <2>3. \A u \in Txns : AntIn(tx'[s][u], u, Used) BY <1>12, <2>2
 <2>4. ready_txns'[s] \subseteq Used BY <2>1, UsedPairs
 <2>5. Used' \subseteq Used BY <1>1, <1>5, <2>1, <2>3, <2>4, NothingNew DEF NoNewReqs, NewReps
 <2>6. FloorsHigh' /\ NewReqsRight BY <2>1 DEF UniqueInv, FloorsHigh, NewReqsRight, NoNewReqs
 <2>7. CountersKept BY <1>1, <2>1, <2>6, CountersStill DEF CountersKept
 <2> QED BY <1>1, <2>5, <2>7, UniqueStill
<1>14. CASE t \notin dtxns[s]
 <2>1. /\ IsPrepared(tx'[s][t], s, m) /\ ready_txns'[s] \subseteq ready_txns[s] \cup {At(m.ts, t)}
       /\ rep' = rep /\ UNCHANGED last_clock /\ \E R, x, ni : NoExecution(s, R, x, ni, floors) BY <1>4, <1>5, <1>14
 <2>2. \A c \in Sites \X Nodes : \A w \in NewReqs(c) :
         c[1] = s /\ c[2] = m.coord /\ PreparedMsg(w, s, m) BY <1>5, <1>14
 <2>3. AntIn(tx'[s][t], t, Used) BY <2>1, AntKept DEF IsPrepared
 <2>4. \A u \in Txns : AntIn(tx'[s][u], u, Used) BY <1>12, <2>3
 <2>5. ready_txns'[s] \subseteq Used BY <1>6, <2>1, UsedPairs
 <2>6. \A c \in Sites \X Nodes : \A w \in NewReqs(c) : Carried(w) \subseteq Used
   BY <1>6, <2>2 DEF PreparedMsg, Carried, t
 <2>7. Used' \subseteq Used BY <1>1, <1>5, <2>1, <2>4, <2>5, <2>6, NothingNew DEF NewReps
 <2>8. FloorsHigh'
  <3>1. /\ dist_txn_tss'[s] \subseteq floors
        /\ \A r \in Sites \ {s} : dist_txn_tss'[r] = dist_txn_tss[r] BY <2>1, FloorsLeft
  <3> QED BY <1>10, <3>1 DEF UniqueInv, FloorsHigh
 <2>9. NewReqsRight BY <1>8, <2>2 DEF NewReqsRight, RightReq, PreparedMsg, t
 <2>10. CountersKept BY <1>1, <2>1, <2>8, <2>9, CountersStill DEF CountersKept
 <2> QED BY <1>1, <2>7, <2>10, UniqueStill
<1> QED BY <1>4, <1>11, <1>13, <1>14

(* A handler of s that runs pieces, with no timestamp that is not in use. *)
LEMMA RunningUnique ==
  ASSUME TypeOK, TypeOK', UniqueInv, ClocksPositive', NEW s \in Sites, OthersKept(s),
         UNCHANGED <<my_txns, last_clock, max_future_ts>>, FloorsHigh',
         ready_txns'[s] \subseteq Used,
         \A u \in Txns : tx'[s][u].anticipated = tx[s][u].anticipated,
         \A c \in Sites \X Nodes : \A w \in NewReqs(c) : Carried(w) \subseteq Used /\ RightReq(w, c[1], c[2]),
         \A c \in Sites \X Sites : \A w \in NewReps(c) : IsAnswer(w, s, c)
  PROVE UniqueInv'
<1>1. \A u \in Txns : AntIn(tx'[s][u], u, Used) BY UsedPairs, AntKept
<1>2. Used' \subseteq Used BY <1>1, OutputsCarry, NothingNew
<1>3. CountersKept BY CountersStill DEF CountersKept, NewReqsRight
<1> QED BY <1>2, <1>3, UniqueStill

(* OnDistExe queues the decision. *)
LEMMA OnDistExeUnique ==
  ASSUME TypeOK, UniqueInv, ClocksPositive', NEW src \in Sites, NEW s \in Sites, OnDistExe(src, s)
  PROVE UniqueInv'
<1> DEFINE m == ReqAt(src, s)
<1>1. TypeOK' /\ UNCHANGED <<my_txns, last_clock, max_future_ts>> BY OnDistExeType DEF OnDistExe
<1>2. /\ m \in MsgsIn(req[<<src, s>>]) /\ m \in ReqMsg /\ m.type = "DistExe" /\ OthersKept(s)
      /\ \A u \in Txns \ {m.txn} : Kept(s, u)
      /\ \/ /\ m.txn \in dtxns[s]
            /\ SameRecord(Told(tx[s][m.txn], s, src, m.ts), tx'[s][m.txn])
            /\ ready_txns'[s] \subseteq ready_txns[s] \cup {At(m.ts, m.txn)}
            /\ \A c \in Sites \X Nodes : \A w \in NewReqs(c) : w.type = "SendOutput"
            /\ \A c \in Sites \X Sites : \A w \in NewReps(c) : IsAnswer(w, s, c)
         \/ m.txn \notin dtxns[s] /\ UNCHANGED <<tx, ready_txns, rep>> /\ NoNewReqs BY OnDistExeStep DEF At
<1> DEFINE t  == m.txn
           y  == tx[s][t]
           R  == PutReady({e \in ready_txns[s] : e.ts # y.ts}, m.ts, t)
           x  == [tx[s] EXCEPT ![t] = Told(y, s, src, m.ts)]
           floors == (dist_txn_tss[s] \ {y.ts}) \cup (IF AllPiecesInputReady(y) THEN {} ELSE {m.ts})
<1>3. \/ /\ t \in dtxns[s]
         /\ \E run \in SUBSET Runnable(R, x) :
              CheckExecutableTxns(s, run, R, x, new_input[s], floors, ir_site_max_ts[s])
      \/ t \notin dtxns[s] /\ UNCHANGED dist_txn_tss BY DEF OnDistExe, ReqAt, Told
<1> HIDE DEF m
<1>4. <<src, s>> \in Sites \X Nodes /\ s \in Nodes BY Placement
<1>5. m.ts \in AnticipatedType /\ m.txn \in Txns /\ At(m.ts, m.txn) \in Used BY <1>2, <1>4, ReqPair
<1>6. m.ts.time >= 2 BY <1>5, AnticipatedHigh
<1>7. FloorsHigh'
 <2>1. floors \subseteq dist_txn_tss[s] \cup {m.ts} OBVIOUS
 <2> HIDE DEF floors, R, x
 <2>2. ASSUME NEW run, CheckExecutableTxns(s, run, R, x, new_input[s], floors, ir_site_max_ts[s]) PROVE FloorsHigh'
  <3>1. /\ dist_txn_tss'[s] \subseteq floors
        /\ \A r \in Sites \ {s} : dist_txn_tss'[r] = dist_txn_tss[r] BY <2>2, FloorsLeft
  <3> QED BY <1>6, <2>1, <3>1 DEF UniqueInv, FloorsHigh
 <2>3. CASE UNCHANGED dist_txn_tss BY <2>3 DEF UniqueInv, FloorsHigh
 <2> QED BY <1>3, <2>2, <2>3
<1>8. CASE m.txn \in dtxns[s]
 <2>1. tx'[s][m.txn].anticipated = tx[s][m.txn].anticipated
  <3>1. tx[s][m.txn] \in TxType /\ m.ts \in ChrTsType BY <1>5, TsFacts DEF TypeOK
  <3>2. Told(tx[s][m.txn], s, src, m.ts).anticipated = tx[s][m.txn].anticipated BY <3>1, ToldRecord
  <3> QED BY <1>2, <1>8, <3>2 DEF SameRecord
 <2>2. \A u \in Txns : tx'[s][u].anticipated = tx[s][u].anticipated BY <1>2, <2>1 DEF Kept, SameRecord
 <2>3. ready_txns'[s] \subseteq Used BY <1>2, <1>5, <1>8, UsedPairs
 <2> QED BY <1>1, <1>2, <1>7, <1>8, <2>2, <2>3, OutputsCarry, RunningUnique
<1>9. CASE m.txn \notin dtxns[s] BY <1>1, <1>2, <1>7, <1>9, QuietUnique DEF NoNewReqs
<1> QED BY <1>8, <1>9

(* DistExeAck and OnSendOutput. *)
LEMMA OutputUnique ==
  ASSUME TypeOK, UniqueInv, ClocksPositive', NEW src \in Sites, NEW s \in Sites,
         DistExeAck(src, s) \/ OnSendOutput(src, s)
  PROVE UniqueInv'
<1>1. ASSUME DistExeAck(src, s) PROVE UniqueInv'
 <2> DEFINE m == RepAt(src, s)
 <2>1. TypeOK' /\ UNCHANGED <<my_txns, last_clock, max_future_ts, dist_txn_tss, req, ready_txns>>
   BY <1>1, DistExeAckType DEF DistExeAck, clockVars, tableVars
 <2>2. /\ OthersKept(s) /\ NoNewReps
       /\ \A u \in Txns \ {m.txn} : Kept(s, u)
       /\ SameRecord(tx[s][m.txn], tx'[s][m.txn]) BY <1>1, DistExeAckStep
 <2> HIDE DEF m
 <2>3. \A u \in Txns : tx'[s][u].anticipated = tx[s][u].anticipated BY <2>2 DEF Kept, SameRecord
 <2>4. ready_txns'[s] \subseteq Used /\ FloorsHigh' BY <2>1, UsedPairs DEF UniqueInv, FloorsHigh
 <2>5. \A c \in Sites \X Nodes : NewReqs(c) = {} BY <2>1 DEF NewReqs
 <2> QED BY <2>1, <2>2, <2>3, <2>4, <2>5, RunningUnique DEF NoNewReps
<1>2. ASSUME OnSendOutput(src, s) PROVE UniqueInv'
 <2>1. TypeOK' /\ UNCHANGED <<my_txns, last_clock, max_future_ts>> BY <1>2, OnSendOutputType DEF OnSendOutput, tableVars
 <2>2. /\ OthersKept(s) /\ \A u \in Txns : Kept(s, u)
       /\ ready_txns'[s] \subseteq ready_txns[s]
       /\ \A c \in Sites \X Sites : \A w \in NewReps(c) : IsAnswer(w, s, c) BY <1>2, OnSendOutputStep
 <2>3. \A c \in Sites \X Nodes : \A w \in NewReqs(c) :
         \/ w.type = "SendOutput"
         \/ /\ w.type = "NotiWait" /\ w.wait = FALSE
            /\ c[1] = s /\ c[2] = MgrOf(SiteRegion(s)) /\ w.orig = tx[s][w.txn].ts BY <1>2, OnSendOutputStep
 <2>4. \A c \in Sites \X Nodes : \A w \in NewReqs(c) : Carried(w) \subseteq Used /\ RightReq(w, c[1], c[2])
   BY <2>3, CarriesNothing, OutputsCarry
 <2>5. \A u \in Txns : tx'[s][u].anticipated = tx[s][u].anticipated BY <2>2 DEF Kept, SameRecord
 <2>6. ready_txns'[s] \subseteq Used BY <2>2, UsedPairs
 <2>7. \A r \in Sites : dist_txn_tss'[r] \subseteq dist_txn_tss[r]
  <3>1. \/ UNCHANGED dist_txn_tss
        \/ \E run, R, x, ni, maxTs, F :
             /\ F \subseteq dist_txn_tss[s]
             /\ CheckExecutableTxns(s, run, R, x, ni, F, maxTs) \/ NoExecution(s, R, x, ni, F)
   <4> DEFINE m   == Head(req[<<src, s>>])
              t   == m.txn
              x1  == [tx[s] EXCEPT ![t] = [@ EXCEPT !.input_ready = 2]]
              x2  == [x1 EXCEPT ![t] = Merge(x1[t], m.vars)]
              R   == ready_txns[s]
              irts == {b \in BOOLEAN : tx[s][t].role # "unset" =>
                                (b <=> tx[s][t].role \in {"irtHandler", "irtReplica"})}
              floors(irt) == IF irt THEN dist_txn_tss[s] ELSE dist_txn_tss[s] \ {tx[s][t].ts}
              Case(irt) ==
                IF MoreToRun(x1[t], m.vars) /\ x1[t].phase >= LOCAL_CAN_EXE
                THEN \E run \in SUBSET Runnable(R, x2) :
                       CheckExecutableTxns(s, run, R, x2, TRUE, floors(irt), ir_site_max_ts[s])
                ELSE NoExecution(s, R, x2, TRUE, floors(irt))
   <4>1. UNCHANGED dist_txn_tss \/ \E irt \in irts : Case(irt) BY <1>2 DEF OnSendOutput
   <4>2. \A irt : floors(irt) \subseteq dist_txn_tss[s] OBVIOUS
   <4> HIDE DEF floors, irts, x1, x2, R, m
   <4> QED BY <4>1, <4>2
  <3>2. ASSUME NEW run, NEW R, NEW x, NEW ni, NEW maxTs, NEW F, F \subseteq dist_txn_tss[s],
               CheckExecutableTxns(s, run, R, x, ni, F, maxTs) \/ NoExecution(s, R, x, ni, F)
        PROVE \A r \in Sites : dist_txn_tss'[r] \subseteq dist_txn_tss[r]
   <4>1. /\ dist_txn_tss'[s] \subseteq F
         /\ \A r \in Sites \ {s} : dist_txn_tss'[r] = dist_txn_tss[r] BY <3>2, FloorsLeft
   <4> QED BY <3>2, <4>1
  <3> QED BY <3>1, <3>2
 <2>8. FloorsHigh' BY <2>7, FloorsStayHigh
 <2> QED BY <2>1, <2>2, <2>4, <2>5, <2>6, <2>8, RunningUnique
<1> QED BY <1>1, <1>2

-----
(* At the start nothing is in use; a warm clock carries its site's id. *)
LEMMA InitUnique == Init => UniqueInv
<1> SUFFICES ASSUME Init PROVE UniqueInv OBVIOUS
<1>1. MsgsIn(<<>>) = {} BY OutMsgs
<1>2. /\ \A c \in Sites \X Nodes : MsgsIn(req[c]) = {}
      /\ \A c \in Sites \X Sites : MsgsIn(rep[c]) = {} BY <1>1 DEF Init
<1>3. \A s \in Sites : ready_txns[s] \cup my_txns[s] = {} BY DEF Init
<1>4. \A s \in Sites, t \in Txns, r \in Regions : tx[s][t].anticipated[r] = ZeroTs BY DEF Init, FreshTx
<1>5. Used = {}
 <2>1. \A e \in Entry : e.id \in Txns BY DEF Entry
 <2> QED BY <1>2, <1>3, <1>4, <2>1 DEF Used
<1>6. ClocksGood
 <2>1. \A s \in Sites : last_clock[s] = WarmTs(s) BY Placement DEF Init
 <2>2. \A s \in Sites : GoodClock(WarmTs(s), s) BY DEF WarmTs, GoodClock, ChrTsOf
 <2> QED BY <2>1, <2>2 DEF ClocksGood
<1>7. FuturesGood /\ FloorsHigh BY Placement DEF Init, FuturesGood, FloorsHigh, GoodFuture
<1>8. ClocksPositive BY ClockAssumption DEF Init, ClocksPositive
<1>9. UsedOnce /\ UsedHandedOut /\ ReqsRight BY <1>2, <1>5 DEF UsedOnce, UsedHandedOut, ReqsRight
<1> QED BY <1>6, <1>7, <1>8, <1>9 DEF UniqueInv

(* Every step keeps the invariant. *)
LEMMA NextUnique ==
  ASSUME TypeOK, UniqueInv, [Next]_vars
  PROVE UniqueInv'
<1>0. ClocksPositive' BY NextPositive DEF UniqueInv
<1>1. ASSUME NEW s \in Sites, NEW t \in Txns, NEW now \in PhysTimes,
             \/ \E skips \in 0 .. Cardinality(Txns) : HandleIRT(s, t, now, skips)
             \/ OnSubmitCRT(s, t, now)
      PROVE UniqueInv'
 <2>1. \A skips \in 0 .. Cardinality(Txns) : skips \in Nat OBVIOUS
 <2> QED BY <1>0, <1>1, <2>1, HandleIRTUnique, OnSubmitCRTUnique
<1>2. ASSUME NEW n \in Nodes, NEW now \in PhysTimes, IRSyncLoop(n, now) PROVE UniqueInv' BY <1>0, <1>2, IRSyncLoopUnique
<1>3. ASSUME NEW src \in Sites, NEW s \in Sites, NEW now \in PhysTimes,
             \/ OnPrepareIRT(src, s, now) \/ PrepareIRTACK(src, s, now) \/ OnIRSync(src, s, now)
             \/ OnPrepareCRT(src, s, now) \/ OnRemotePrepared(src, s, now)
      PROVE UniqueInv' BY <1>0, <1>3, OnPrepareIRTUnique, HearingUnique, OnPrepareCRTUnique, OnRemotePreparedUnique
<1>4. ASSUME NEW src \in Sites, NEW s \in Sites,
             \/ OnNotiCRT(src, s) \/ OnDistExe(src, s) \/ DistExeAck(src, s)
             \/ OnNotiCommit(src, s) \/ OnSendOutput(src, s)
      PROVE UniqueInv' BY <1>0, <1>4, NotiUnique, OnDistExeUnique, OutputUnique
<1>5. ASSUME NEW src \in Sites, NEW m \in Managers,
             NotiWait(src, m) \/ \E now \in PhysTimes : MgrPrepareCRT(src, m, now)
      PROVE UniqueInv' BY <1>0, <1>5, NotiUnique, MgrPrepareCRTUnique
<1>6. ASSUME NEW m \in Managers, MgrFinish(m) PROVE UniqueInv'
 <2>1. 0 \in Sites
  <3>1. NRegions \in Nat \ {0} /\ NShards \in Nat \ {0} /\ NReplicas \in Nat \ {0} BY SizesAssumption
  <3>2. NRegions * NShards \in Nat \ {0} BY <3>1
  <3>3. NRegions * NShards * NReplicas \in Nat \ {0} BY <3>1, <3>2
  <3> QED BY <3>3 DEF Sites
 <2> QED BY <1>0, <1>6, <2>1, NotiUnique
<1>7. CASE UNCHANGED vars
 <2>1. UNCHANGED <<my_txns, ready_txns, tx, rep, req, last_clock, max_future_ts, dist_txn_tss>>
   BY <1>7 DEF vars, clockVars, tableVars, execVars
 <2>2. TypeOK' /\ FloorsHigh' BY <2>1, NextType DEF UniqueInv, FloorsHigh
 <2>3. \A c \in Sites \X Nodes : NewReqs(c) = {} BY <2>1 DEF NewReqs
 <2> QED BY <1>0, <2>1, <2>2, <2>3, QuietUnique
<1>8. CASE Submit BY <1>1, <1>8 DEF Submit
<1>9. CASE Sync BY <1>2, <1>9 DEF Sync
<1>10. CASE Deliver BY <1>3, <1>4, <1>5, <1>6, <1>10 DEF Deliver
<1> QED BY <1>7, <1>8, <1>9, <1>10 DEF Next

(* No two transactions are ever at one place of the ready queues or of the lists of what
   a site announces.  ready_txns_ and my_txns_ are maps from timestamps, which lose an
   entry when two transactions share one; that it cannot happen rests on what
   GenerateChrTs and CalculateAnticipatedTs put into a timestamp, on a decision being
   one of the timestamps that managers handed out for the same transaction, and on no
   clock being pulled back to the zero it started from. *)
THEOREM TimestampsUniqueHolds == Spec => []TimestampsUnique
<1>1. Init => TypeOK /\ UniqueInv BY InitType, InitUnique
<1>2. TypeOK /\ UniqueInv /\ [Next]_vars => (TypeOK /\ UniqueInv)' BY NextType, NextUnique
<1>3. TypeOK /\ UniqueInv => TimestampsUnique BY UniqueInvImplies
<1> QED BY <1>1, <1>2, <1>3, PTL DEF Spec

-----
(* The sites that have a decision for a cross-region transaction agree on its timestamp,
   and no region is surprised by one before what its manager anticipated, for every
   deployment, workload and order of messages. A transaction has one coordinator, and
   what a site knows of a decision it was told by the coordinator, whose record does not
   change any more: that is the first half of the invariant, DecidedInv.  The second
   half, OffersInv, is about the timestamps that managers offer: one for every region,
   which travels in PrepareCRT and RemotePrepared, sits in the records of the replicas
   and ends up in the coordinator's.  A manager is asked once, and the coordinator
   decides when it has an offer from every region, so that the highest it has is the
   highest there is. *)

-----
(* Decisions.  x stands for the records, tx or tx'. *)

Coord(x, k, t) == k \in Sites /\ x[k][t].role = "crtCoord"
DecidedAs(x, k, t, ts) ==
  k \in Sites /\ x[k][t].role = "crtCoord" /\ x[k][t].phase >= DIST_CAN_EXE /\ x[k][t].ts = ts

IrtEntries(N) == \A e \in N : IsIrt(e.id)

(* A request m from the process of a to b, a reply m to b. *)
LawfulReq(x, m, a, b) ==
  /\ m.type \in {"PrepareIRT", "IRSync"} => IrtEntries(m.noti)
  /\ m.type = "PrepareIRT" => IsIrt(m.txn)
  /\ m.type = "PrepareRemote" => b \in Managers /\ Coord(x, a, m.txn)
  /\ m.type = "PrepareCRT" => Coord(x, m.coord, m.txn)
  /\ m.type = "RemotePrepared" => Coord(x, b, m.txn)
  /\ m.type = "DistExe" => a # b /\ DecidedAs(x, a, m.txn, m.ts)
LawfulRep(x, m, b) ==
  /\ m.type = "PrepareIRTRes" => IsIrt(m.txn) /\ IrtEntries(m.noti)
  /\ m.type = "DistExeRes" => DecidedAs(x, b, m.txn, x[b][m.txn].ts)

(* The record y of a coordinator of t: sub are the submitted transactions, known the
   ones the site has a record of. *)
Coordinates(y, t, sub, known) ==
  /\ t \in sub /\ t \in known /\ ~IsIrt(t)
  /\ y.phase \in {DIST_REMOTE_SENT, DIST_CAN_EXE, OUTPUT_SENT}
  /\ \A a \in y.acks : y.anticipated[SiteRegion(a)] # ZeroTs
  /\ \A par \in Touched(t) : y.status[par] >= P_REMOTE_PREPARED => AcksOf(y, par) # {}
  /\ y.phase >= DIST_CAN_EXE => AllPrepared(t, y)

(* The record y of t at any site. *)
Follows(x, y, t) ==
  /\ y.phase = DIST_REMOTE_SENT => y.role = "crtCoord"
  /\ y.owes # -1 => DecidedAs(x, y.owes, t, x[y.owes][t].ts)
  /\ y.phase >= DIST_CAN_EXE => \E k \in Sites : DecidedAs(x, k, t, y.ts)

LawfulTx(x, sub, dt, s, t) ==
  /\ x[s][t].role = "crtCoord" => Coordinates(x[s][t], t, sub, dt[s])
  /\ Follows(x, x[s][t], t)

OneCoordinator ==
  \A t \in Txns : \A k, l \in Sites : Coord(tx, k, t) /\ Coord(tx, l, t) => k = l

DecidedInv ==
  /\ OneCoordinator
  /\ \A s \in Sites : IrtEntries(my_txns[s])
  /\ \A s \in Sites, t \in Txns : LawfulTx(tx, submitted, dtxns, s, t)
  /\ \A c \in Sites \X Nodes : \A m \in MsgsIn(req[c]) : LawfulReq(tx, m, c[1], c[2])
  /\ \A c \in Sites \X Sites : \A m \in MsgsIn(rep[c]) : LawfulRep(tx, m, c[2])

(* The first half of DecisionAgreement. *)
LEMMA DecidedInvAgrees ==
  ASSUME DecidedInv, NEW t \in Txns, NEW s \in Sites, NEW r \in Sites,
         tx[s][t].phase >= DIST_CAN_EXE, tx[r][t].phase >= DIST_CAN_EXE
  PROVE tx[s][t].ts = tx[r][t].ts
<1>1. PICK k \in Sites : DecidedAs(tx, k, t, tx[s][t].ts) BY DEF DecidedInv, LawfulTx, Follows
<1>2. PICK l \in Sites : DecidedAs(tx, l, t, tx[r][t].ts) BY DEF DecidedInv, LawfulTx, Follows
<1>3. k = l BY <1>1, <1>2 DEF DecidedInv, OneCoordinator, DecidedAs, Coord
<1> QED BY <1>1, <1>2, <1>3 DEF DecidedAs

(* An intra-region transaction has no coordinator and no decision. *)
LEMMA IrtUndecided ==
  ASSUME DecidedInv, NEW t \in Txns, IsIrt(t), NEW s \in Sites
  PROVE  /\ tx[s][t].role # "crtCoord" /\ ~(tx[s][t].phase >= DIST_CAN_EXE)
         /\ tx[s][t].phase # DIST_REMOTE_SENT /\ tx[s][t].owes = -1
<1>1. \A k \in Sites : tx[k][t].role # "crtCoord" BY DEF DecidedInv, LawfulTx, Coordinates
<1> QED BY <1>1 DEF DecidedInv, LawfulTx, Follows, DecidedAs

-----
(* Steps keep coordinators and decisions.  y and z are a record before and after the
   step. *)
Steady(y, z) ==
  /\ y.role = "crtCoord" => z.role = "crtCoord"
  /\ y.role = "crtCoord" /\ y.phase >= DIST_CAN_EXE => z.phase >= DIST_CAN_EXE /\ z.ts = y.ts
AllSteady == \A s \in Sites, t \in Txns : Steady(tx[s][t], tx'[s][t])

(* What is decided stays decided. *)
LEMMA SteadyKeeps ==
  ASSUME AllSteady, NEW t \in Txns
  PROVE  /\ \A k : Coord(tx, k, t) => Coord(tx', k, t)
         /\ \A k, ts : DecidedAs(tx, k, t, ts) => DecidedAs(tx', k, t, ts)
         /\ \A k : DecidedAs(tx, k, t, tx[k][t].ts) => DecidedAs(tx', k, t, tx'[k][t].ts)
  BY DEF AllSteady, Steady, Coord, DecidedAs

(* So what messages and records say of it stays true. *)
LEMMA LawfulKept ==
  ASSUME AllSteady
  PROVE  /\ \A m, a, b : m.txn \in Txns /\ LawfulReq(tx, m, a, b) => LawfulReq(tx', m, a, b)
         /\ \A m, a, b : m.type = "IRSync" /\ LawfulReq(tx, m, a, b) => LawfulReq(tx', m, a, b)
         /\ \A m, b : m.txn \in Txns /\ LawfulRep(tx, m, b) => LawfulRep(tx', m, b)
         /\ \A y, t : t \in Txns /\ Follows(tx, y, t) => Follows(tx', y, t)
<1>1. \A t \in Txns : /\ \A k : Coord(tx, k, t) => Coord(tx', k, t)
                      /\ \A k, ts : DecidedAs(tx, k, t, ts) => DecidedAs(tx', k, t, ts)
                      /\ \A k : DecidedAs(tx, k, t, tx[k][t].ts) => DecidedAs(tx', k, t, tx'[k][t].ts) BY SteadyKeeps
<1>2. ASSUME NEW m, NEW a, NEW b, m.txn \in Txns, LawfulReq(tx, m, a, b) PROVE LawfulReq(tx', m, a, b)
  BY <1>1, <1>2 DEF LawfulReq
<1>3. ASSUME NEW m, NEW b, m.txn \in Txns, LawfulRep(tx, m, b) PROVE LawfulRep(tx', m, b) BY <1>1, <1>3 DEF LawfulRep
<1>4. ASSUME NEW y, NEW t \in Txns, Follows(tx, y, t) PROVE Follows(tx', y, t) BY <1>1, <1>4 DEF Follows
<1> QED BY <1>2, <1>3, <1>4 DEF LawfulReq

(* A record y and what it is after pieces may have run, z. *)
Progress(y, z, par) ==
  \/ z.phase = y.phase /\ z.status = y.status
  \/ /\ y.role = "crtCoord" /\ y.phase >= PHASE_CAN_EXE /\ z.phase \in {y.phase, OUTPUT_SENT}
     /\ z.status = [y.status EXCEPT ![par] = P_OUTPUT_RECEIVED]
Runs(y, z, par) == SameRecord(y, z) /\ Progress(y, z, par)

(* Running pieces keeps what is said of a record. *)
LEMMA RunsLawful ==
  ASSUME NEW t \in Txns, NEW y \in TxType, NEW z \in TxType, NEW par, Runs(y, z, par), NEW sub, NEW known,
         y.role = "crtCoord" => Coordinates(y, t, sub, known)
  PROVE  /\ z.role = "crtCoord" => Coordinates(z, t, sub, known)
         /\ y.phase >= DIST_CAN_EXE <=> z.phase >= DIST_CAN_EXE
         /\ y.phase = DIST_REMOTE_SENT <=> z.phase = DIST_REMOTE_SENT
         /\ \A x : Follows(x, y, t) => Follows(x, z, t)
<1>1. y.phase \in 0..6 /\ z.phase \in 0..6 /\ y.status \in [Pars -> DistPartStatus]
      /\ y.ts = z.ts /\ y.role = z.role /\ y.owes = z.owes /\ y.acks = z.acks
      /\ y.anticipated = z.anticipated BY DEF TxType, TxnPhase, StatusOfPars, Runs, SameRecord
<1>2. \A p : AcksOf(z, p) = AcksOf(y, p) BY <1>1 DEF AcksOf
<1>3. CASE z.phase = y.phase /\ z.status = y.status
 <2>1. z.role = "crtCoord" => Coordinates(z, t, sub, known) BY <1>1, <1>2, <1>3 DEF Coordinates, AllPrepared
 <2> QED BY <1>1, <1>3, <2>1 DEF Follows
<1>4. CASE /\ y.role = "crtCoord" /\ y.phase >= PHASE_CAN_EXE /\ z.phase \in {y.phase, OUTPUT_SENT}
           /\ z.status = [y.status EXCEPT ![par] = P_OUTPUT_RECEIVED]
 <2>1. y.phase \in {5, 6} /\ z.phase \in {5, 6} /\ y.phase >= DIST_CAN_EXE /\ z.phase >= DIST_CAN_EXE
   BY <1>4 DEF Coordinates, PHASE_CAN_EXE, LOCAL_CAN_EXE, DIST_REMOTE_SENT, DIST_CAN_EXE, OUTPUT_SENT
 <2>2. Touched(t) \subseteq Pars BY Workload
 <2>3. \A p \in Touched(t) : z.status[p] = y.status[p] \/ z.status[p] = P_OUTPUT_RECEIVED BY <1>1, <1>4, <2>2
 <2>4. \A p \in Touched(t) : y.status[p] >= P_REMOTE_PREPARED BY <1>4, <2>1 DEF Coordinates, AllPrepared
 <2>5. \A p \in Touched(t) : z.status[p] >= P_REMOTE_PREPARED /\ AcksOf(z, p) # {}
   BY <1>2, <1>4, <2>3, <2>4 DEF Coordinates, P_OUTPUT_RECEIVED, P_REMOTE_PREPARED
 <2>6. z.phase \in {DIST_REMOTE_SENT, DIST_CAN_EXE, OUTPUT_SENT} /\ z.phase # DIST_REMOTE_SENT
       /\ y.phase # DIST_REMOTE_SENT BY <2>1 DEF DIST_CAN_EXE, OUTPUT_SENT, DIST_REMOTE_SENT
 <2>7. Coordinates(z, t, sub, known) BY <1>1, <1>4, <2>5, <2>6 DEF Coordinates, AllPrepared
 <2> QED BY <1>1, <2>1, <2>6, <2>7 DEF Follows
<1> QED BY <1>3, <1>4 DEF Runs, Progress

(* Clients submit more and sites get to know more. *)
Learns == submitted \subseteq submitted' /\ \A s \in Sites : dtxns[s] \subseteq dtxns'[s]

(* A record that at most ran pieces. *)
LEMMA KeptSteady ==
  ASSUME TypeOK, TypeOK', DecidedInv, NEW s \in Sites, NEW t \in Txns, Kept(s, t)
  PROVE Steady(tx[s][t], tx'[s][t])
<1>1. tx[s][t] \in TxType /\ tx'[s][t] \in TxType BY DEF TypeOK
<1>2. tx[s][t].role = "crtCoord" => Coordinates(tx[s][t], t, submitted, dtxns[s]) BY DEF DecidedInv, LawfulTx
<1>3. Runs(tx[s][t], tx'[s][t], ParOf(s)) BY DEF Kept, Runs, SameProgress, Progress
<1> QED BY <1>1, <1>2, <1>3, RunsLawful DEF Steady, Runs, SameRecord

(* The record y at s, and with it what pieces may have run since. *)
LEMMA RunsOn ==
  ASSUME TypeOK', NEW s \in Sites, NEW t \in Txns, NEW y \in TxType, NEW par, Runs(y, tx'[s][t], par),
         y.role = "crtCoord" => Coordinates(y, t, submitted', dtxns'[s]), Follows(tx', y, t)
  PROVE LawfulTx(tx', submitted', dtxns', s, t)
<1>1. tx'[s][t] \in TxType BY DEF TypeOK
<1> QED BY <1>1, RunsLawful DEF LawfulTx

(* What is said of it stays true. *)
LEMMA KeptLawful ==
  ASSUME TypeOK, TypeOK', DecidedInv, AllSteady, Learns, NEW s \in Sites, NEW t \in Txns, Kept(s, t)
  PROVE LawfulTx(tx', submitted', dtxns', s, t)
<1>1. tx[s][t] \in TxType BY DEF TypeOK
<1>2. LawfulTx(tx, submitted, dtxns, s, t) BY DEF DecidedInv
<1>3. tx[s][t].role = "crtCoord" => Coordinates(tx[s][t], t, submitted', dtxns'[s])
  BY <1>2 DEF LawfulTx, Coordinates, Learns
<1>4. Follows(tx', tx[s][t], t) BY <1>2, LawfulKept DEF LawfulTx
<1>5. Runs(tx[s][t], tx'[s][t], ParOf(s)) BY DEF Kept, Runs, SameProgress, Progress
<1> QED BY <1>1, <1>3, <1>4, <1>5, RunsOn

(* A record that the step does not touch. *)
LEMMA SameIsKept ==
  ASSUME NEW s, NEW t, tx'[s][t] = tx[s][t]
  PROVE Kept(s, t) BY DEF Kept, SameRecord, SameProgress

(* The record of an intra-region transaction, stored or handed on. *)
IrtRecord(z) ==
  /\ z.role # "crtCoord" /\ z.owes = -1
  /\ ~(z.phase >= DIST_CAN_EXE) /\ z.phase # DIST_REMOTE_SENT

(* It has no part in decisions. *)
LEMMA IrtLawful ==
  ASSUME DecidedInv, NEW s \in Sites, NEW t \in Txns, IsIrt(t), IrtRecord(tx'[s][t])
  PROVE  /\ Steady(tx[s][t], tx'[s][t])
         /\ LawfulTx(tx', submitted', dtxns', s, t)
<1>1. tx[s][t].role # "crtCoord" BY IrtUndecided
<1> QED BY <1>1 DEF IrtRecord, Steady, LawfulTx, Follows

-----
(* A record of a site is lawful after the step if coordinators and decisions elsewhere
   are kept. *)
Moves(s, t) ==
  /\ Steady(tx[s][t], tx'[s][t])
  /\ tx'[s][t].role = "crtCoord" => tx[s][t].role = "crtCoord"
  /\ AllSteady => LawfulTx(tx', submitted', dtxns', s, t)

(* A record that at most ran pieces. *)
LEMMA KeptMoves ==
  ASSUME TypeOK, TypeOK', DecidedInv, Learns, NEW s \in Sites, NEW t \in Txns, Kept(s, t)
  PROVE Moves(s, t)
<1>1. Steady(tx[s][t], tx'[s][t]) BY KeptSteady
<1>2. tx'[s][t].role = tx[s][t].role BY DEF Kept, SameRecord
<1> QED BY <1>1, <1>2, KeptLawful DEF Moves

(* The record of an intra-region transaction. *)
LEMMA IrtMoves ==
  ASSUME TypeOK, DecidedInv, NEW s \in Sites, NEW t \in Txns, IsIrt(t),
         IrtRecord(tx'[s][t]) \/ Retouched(tx[s][t], tx'[s][t])
  PROVE Moves(s, t)
<1>1. /\ tx[s][t].role # "crtCoord" /\ ~(tx[s][t].phase >= DIST_CAN_EXE)
      /\ tx[s][t].phase # DIST_REMOTE_SENT /\ tx[s][t].owes = -1 BY IrtUndecided
<1>2. IrtRecord(tx'[s][t])
 <2>1. ASSUME Retouched(tx[s][t], tx'[s][t]) PROVE IrtRecord(tx'[s][t])
  <3>1. tx'[s][t].role # "crtCoord" /\ tx'[s][t].owes = -1
        /\ tx'[s][t].phase \in {tx[s][t].phase, LOCAL_CAN_EXE} BY <1>1, <2>1 DEF Retouched
  <3>2. ~(LOCAL_CAN_EXE >= DIST_CAN_EXE) /\ LOCAL_CAN_EXE # DIST_REMOTE_SENT
    BY DEF LOCAL_CAN_EXE, DIST_CAN_EXE, DIST_REMOTE_SENT
  <3> QED BY <1>1, <3>1, <3>2 DEF IrtRecord
 <2> QED BY <2>1
<1>3. Steady(tx[s][t], tx'[s][t]) /\ LawfulTx(tx', submitted', dtxns', s, t) BY <1>2, IrtLawful
<1> QED BY <1>2, <1>3 DEF Moves, IrtRecord

(* The invariant after any step. *)
LEMMA DecidedStep ==
  ASSUME TypeOK, DecidedInv, AllSteady, OneCoordinator', \A s \in Sites : IrtEntries(my_txns'[s]),
         \A s \in Sites, t \in Txns : LawfulTx(tx', submitted', dtxns', s, t),
         \A c \in Sites \X Nodes : \A m \in NewReqs(c) : LawfulReq(tx', m, c[1], c[2]),
         \A c \in Sites \X Sites : \A m \in NewReps(c) : LawfulRep(tx', m, c[2])
  PROVE DecidedInv'
<1>1. ASSUME NEW c \in Sites \X Nodes, NEW m \in MsgsIn(req[c]) PROVE LawfulReq(tx', m, c[1], c[2])
 <2>1. req[c] \in Seq(ReqMsg) BY DEF TypeOK
 <2>2. m \in ReqMsg BY <2>1 DEF MsgsIn
 <2>3. m.type = "IRSync" \/ m.txn \in Txns BY <2>2 DEF ReqMsg
 <2>4. LawfulReq(tx, m, c[1], c[2]) BY DEF DecidedInv
 <2> QED BY <2>3, <2>4, LawfulKept
<1>2. ASSUME NEW c \in Sites \X Sites, NEW m \in MsgsIn(rep[c]) PROVE LawfulRep(tx', m, c[2])
 <2>1. rep[c] \in Seq(RepMsg) BY DEF TypeOK
 <2>2. m \in RepMsg BY <2>1 DEF MsgsIn
 <2>3. m.txn \in Txns BY <2>2 DEF RepMsg
 <2>4. LawfulRep(tx, m, c[2]) BY DEF DecidedInv
 <2> QED BY <2>3, <2>4, LawfulKept
<1>3. \A c \in Sites \X Nodes : \A m \in MsgsIn(req'[c]) : LawfulReq(tx', m, c[1], c[2]) BY <1>1 DEF NewReqs
<1>4. \A c \in Sites \X Sites : \A m \in MsgsIn(rep'[c]) : LawfulRep(tx', m, c[2]) BY <1>2 DEF NewReps
<1> QED BY <1>3, <1>4 DEF DecidedInv

(* After a handler of s: the deferred replies go to who decided. *)
LEMMA HandlerDecided ==
  ASSUME TypeOK, TypeOK', DecidedInv, NEW s \in Sites, OthersKept(s), Learns,
         \A r \in Sites : IrtEntries(my_txns'[r]), \A u \in Txns : Moves(s, u),
         \A c \in Sites \X Nodes : \A m \in NewReqs(c) : AllSteady => LawfulReq(tx', m, c[1], c[2]),
         \A c \in Sites \X Sites : \A m \in NewReps(c) :
           IsAnswer(m, s, c) \/ (AllSteady => LawfulRep(tx', m, c[2]))
  PROVE DecidedInv' /\ AllSteady
<1>1. \A r \in Sites, u \in Txns : Moves(r, u)
 <2> SUFFICES ASSUME NEW r \in Sites, NEW u \in Txns, r # s PROVE Moves(r, u) OBVIOUS
 <2>1. tx'[r][u] = tx[r][u] BY DEF OthersKept
 <2> QED BY <2>1, SameIsKept, KeptMoves
<1>2. AllSteady BY <1>1 DEF AllSteady, Moves
<1>3. \A r \in Sites, u \in Txns : LawfulTx(tx', submitted', dtxns', r, u) BY <1>1, <1>2 DEF Moves
<1>4. OneCoordinator' BY <1>1 DEF Moves, DecidedInv, OneCoordinator, Coord
<1>6. ASSUME NEW c \in Sites \X Sites, NEW m, IsAnswer(m, s, c) PROVE LawfulRep(tx', m, c[2])
 <2>1. m.type = "DistExeRes" /\ m.txn \in Txns /\ tx'[s][m.txn].owes = c[2] /\ c[2] \in Sites BY <1>6 DEF IsAnswer
 <2>2. c[2] # -1 BY <2>1 DEF Sites
 <2>3. Follows(tx', tx'[s][m.txn], m.txn) BY <1>3, <2>1 DEF LawfulTx
 <2> QED BY <2>1, <2>2, <2>3 DEF Follows, LawfulRep
<1>7. \A c \in Sites \X Sites : \A m \in NewReps(c) : LawfulRep(tx', m, c[2]) BY <1>2, <1>6
<1>8. \A c \in Sites \X Nodes : \A m \in NewReqs(c) : LawfulReq(tx', m, c[1], c[2]) BY <1>2
<1> QED BY <1>2, <1>3, <1>4, <1>7, <1>8, DecidedStep

(* What says nothing of decisions. *)
LEMMA OtherReqs ==
  \A x, m, a, b : m.type \in {"SendOutput", "NotiWait", "NotiCommit", "NotiCRT"} => LawfulReq(x, m, a, b)
  BY DEF LawfulReq

(* The request and the reply that a handler takes. *)
LEMMA TakenLawful ==
  ASSUME DecidedInv, NEW src \in Sites
  PROVE  /\ \A dst \in Nodes : \A m \in MsgsIn(req[<<src, dst>>]) : LawfulReq(tx, m, src, dst)
         /\ \A dst \in Sites : \A m \in MsgsIn(rep[<<src, dst>>]) : LawfulRep(tx, m, dst)
<1>1. ASSUME NEW dst \in Nodes, NEW m \in MsgsIn(req[<<src, dst>>]) PROVE LawfulReq(tx, m, src, dst)
 <2>1. <<src, dst>> \in Sites \X Nodes OBVIOUS
 <2>2. LawfulReq(tx, m, <<src, dst>>[1], <<src, dst>>[2]) BY <2>1 DEF DecidedInv
 <2> QED BY <2>2
<1>2. ASSUME NEW dst \in Sites, NEW m \in MsgsIn(rep[<<src, dst>>]) PROVE LawfulRep(tx, m, dst)
 <2>1. <<src, dst>> \in Sites \X Sites OBVIOUS
 <2>2. LawfulRep(tx, m, <<src, dst>>[2]) BY <2>1 DEF DecidedInv
 <2> QED BY <2>2
<1> QED BY <1>1, <1>2

(* HandleIRT. *)
LEMMA HandleIRTDecided ==
  ASSUME TypeOK, DecidedInv, NEW s \in Sites, NEW t \in Txns, NEW now \in PhysTimes, NEW skips \in Nat,
         HandleIRT(s, t, now, skips)
  PROVE DecidedInv' /\ AllSteady
<1>1. TypeOK' /\ IsIrt(t) /\ submitted' = submitted \cup {t} /\ dtxns' = [dtxns EXCEPT ![s] = @ \cup {t}]
  BY HandleIRTType DEF HandleIRT
<1>2. /\ my_txns' = [my_txns EXCEPT ![s] = @ \cup {[ts |-> last_clock'[s], id |-> t]}]
      /\ OthersKept(s)
      /\ \A u \in Txns \ {t} : tx'[s][u] = tx[s][u]
      /\ IsSubmitted(tx'[s][t], s, t, last_clock'[s])
      /\ \A c \in Sites \X Nodes : \A m \in NewReqs(c) :
           /\ c[1] = s /\ c[2] \in Sites
           /\ IsPiggy(m, "PrepareIRT", last_clock'[s], ZeroTs,
                      CollectNotifyTxns(s, c[2], my_txns'[s], ir_site_notified_ts[s][c[2]]))
           /\ m.txn = t
      /\ rep' = rep BY HandleIRTStep
<1>3. Learns BY <1>1 DEF Learns, TypeOK
<1>4. \A r \in Sites : IrtEntries(my_txns'[r])
 <2> DEFINE e == [ts |-> last_clock'[s], id |-> t]
 <2>1. IsIrt(e.id) BY <1>1
 <2>2. my_txns'[s] = my_txns[s] \cup {e} /\ \A r \in Sites \ {s} : my_txns'[r] = my_txns[r] BY <1>2 DEF TypeOK
 <2> HIDE DEF e
 <2> QED BY <2>1, <2>2 DEF DecidedInv, IrtEntries
<1>5. ASSUME NEW u \in Txns PROVE Moves(s, u)
 <2>1. CASE u = t
  <3>1. IrtRecord(tx'[s][t]) BY <1>2 DEF IsSubmitted, IrtRecord, LOCAL_NOT_STORED, DIST_CAN_EXE, DIST_REMOTE_SENT
  <3> QED BY <1>1, <2>1, <3>1, IrtMoves
 <2>2. CASE u # t BY <1>1, <1>2, <1>3, <2>2, SameIsKept, KeptMoves
 <2> QED BY <2>1, <2>2
<1>6. ASSUME NEW c \in Sites \X Nodes, NEW m \in NewReqs(c) PROVE LawfulReq(tx', m, c[1], c[2])
 <2>1. m.type = "PrepareIRT" /\ m.txn = t
       /\ m.noti = CollectNotifyTxns(s, c[2], my_txns'[s], ir_site_notified_ts[s][c[2]]) BY <1>2 DEF IsPiggy
 <2>2. m.noti \subseteq my_txns'[s] BY <2>1 DEF CollectNotifyTxns
 <2>3. IrtEntries(m.noti) BY <1>4, <2>2 DEF IrtEntries
 <2> QED BY <1>1, <2>1, <2>3 DEF LawfulReq
<1>7. \A c \in Sites \X Sites : NewReps(c) = {} BY <1>2 DEF NewReps
<1> QED BY <1>1, <1>2, <1>3, <1>4, <1>5, <1>6, <1>7, HandlerDecided

(* A handler that takes in intra-region transactions: those of noti and t. *)
LEMMA PiggyDecided ==
  ASSUME TypeOK, TypeOK', DecidedInv, NEW s \in Sites, OthersKept(s), UNCHANGED <<my_txns, submitted>>,
         \E K : dtxns[s] \subseteq K /\ dtxns' = [dtxns EXCEPT ![s] = K],
         NEW N, \A u \in N : IsIrt(u),
         \A u \in Txns : (Retouched(tx[s][u], tx'[s][u]) /\ u \in N) \/ Kept(s, u),
         \A c \in Sites \X Nodes : \A m \in NewReqs(c) : m.type = "SendOutput",
         \A c \in Sites \X Sites : \A m \in NewReps(c) : IsAnswer(m, s, c) \/ LawfulRep(tx', m, c[2])
  PROVE DecidedInv' /\ AllSteady
<1>1. Learns BY DEF Learns, TypeOK
<1>2. \A r \in Sites : IrtEntries(my_txns'[r]) BY DEF DecidedInv
<1>3. \A u \in Txns : Moves(s, u) BY <1>1, IrtMoves, KeptMoves
<1> QED BY <1>1, <1>2, <1>3, OtherReqs, HandlerDecided

(* HandlePiggyInfo only adds to what a site knows. *)
LEMMA PiggyKnows ==
  ASSUME NEW s, NEW from, NEW ts, NEW noti, NEW delivered, NEW known, NEW now, dtxns[s] \subseteq known,
         HandlePiggyInfo(s, from, ts, noti, delivered, known, now)
  PROVE \E K : dtxns[s] \subseteq K /\ dtxns' = [dtxns EXCEPT ![s] = K]
<1> DEFINE K == known \cup {e.id : e \in noti}
<1>1. dtxns' = [dtxns EXCEPT ![s] = K] BY DEF HandlePiggyInfo
<1>2. dtxns[s] \subseteq K OBVIOUS
<1> HIDE DEF K
<1> QED BY <1>1, <1>2

(* OnPrepareIRT. *)
LEMMA OnPrepareIRTDecided ==
  ASSUME TypeOK, DecidedInv, NEW src \in Sites, NEW s \in Sites, NEW now \in PhysTimes,
         OnPrepareIRT(src, s, now)
  PROVE DecidedInv' /\ AllSteady
<1> DEFINE m == ReqAt(src, s)
           N == {m.txn} \cup {e.id : e \in m.noti}
<1>1. TypeOK' /\ UNCHANGED <<my_txns, submitted>> /\ s \in Nodes BY OnPrepareIRTType, Placement DEF OnPrepareIRT
<1>2. \E K : dtxns[s] \subseteq K /\ dtxns' = [dtxns EXCEPT ![s] = K]
 <2>1. HandlePiggyInfo(s, src, m.ts, m.noti, m.delivered, dtxns[s] \cup {m.txn}, now) BY DEF OnPrepareIRT, ReqAt
 <2> HIDE DEF m
 <2> QED BY <2>1, PiggyKnows
<1>3. /\ m \in MsgsIn(req[<<src, s>>]) /\ m \in ReqMsg /\ m.type = "PrepareIRT"
      /\ OthersKept(s)
      /\ \A u \in Txns : \/ Retouched(tx[s][u], tx'[s][u]) /\ u \in N
                         \/ Kept(s, u)
      /\ \A c \in Sites \X Nodes : \A w \in NewReqs(c) : w.type = "SendOutput"
      /\ \A c \in Sites \X Sites : \A w \in NewReps(c) :
           \/ IsAnswer(w, s, c)
           \/ /\ c[1] = s /\ c[2] = src
              /\ IsPiggy(w, "PrepareIRTRes", last_clock'[s], m.ts,
                         CollectNotifyTxns(s, src, my_txns[s], ir_site_notified_ts'[s][src]))
              /\ w.txn = m.txn BY OnPrepareIRTStep
<1> HIDE DEF m
<1>4. IsIrt(m.txn) /\ IrtEntries(m.noti) BY <1>1, <1>3, TakenLawful DEF LawfulReq
<1>5. \A u \in N : IsIrt(u) BY <1>4 DEF IrtEntries
<1> HIDE DEF N
<1>6. ASSUME NEW c \in Sites \X Sites, NEW w \in NewReps(c) PROVE IsAnswer(w, s, c) \/ LawfulRep(tx', w, c[2])
 <2> SUFFICES ASSUME w.type = "PrepareIRTRes", w.txn = m.txn,
                     w.noti = CollectNotifyTxns(s, src, my_txns[s], ir_site_notified_ts'[s][src])
              PROVE LawfulRep(tx', w, c[2]) BY <1>3 DEF IsPiggy
 <2>1. w.noti \subseteq my_txns[s] BY DEF CollectNotifyTxns
 <2>2. IrtEntries(w.noti) BY <2>1 DEF IrtEntries, DecidedInv
 <2> QED BY <1>4, <2>2 DEF LawfulRep
<1> QED BY <1>1, <1>2, <1>3, <1>5, <1>6, PiggyDecided

(* PrepareIRTACK and OnIRSync. *)
LEMMA HearingDecided ==
  ASSUME TypeOK, DecidedInv, NEW src \in Sites, NEW s \in Sites, NEW now \in PhysTimes,
         PrepareIRTACK(src, s, now) \/ OnIRSync(src, s, now)
  PROVE DecidedInv' /\ AllSteady
<1>1. ASSUME PrepareIRTACK(src, s, now) PROVE DecidedInv' /\ AllSteady
 <2> DEFINE m == RepAt(src, s)
            N == {m.txn} \cup {e.id : e \in m.noti}
 <2>1. TypeOK' /\ UNCHANGED <<my_txns, submitted>> BY <1>1, PrepareIRTACKType DEF PrepareIRTACK
 <2>2. \E K : dtxns[s] \subseteq K /\ dtxns' = [dtxns EXCEPT ![s] = K]
  <3>1. HandlePiggyInfo(s, src, m.ts, m.noti, m.delivered, dtxns[s], now) BY <1>1 DEF PrepareIRTACK, RepAt
  <3> HIDE DEF m
  <3> QED BY <3>1, PiggyKnows
 <2>3. /\ m \in MsgsIn(rep[<<src, s>>]) /\ m \in RepMsg /\ m.type = "PrepareIRTRes"
       /\ OthersKept(s)
       /\ \A u \in Txns : \/ Retouched(tx[s][u], tx'[s][u]) /\ u \in N
                          \/ Kept(s, u)
       /\ \A c \in Sites \X Nodes : \A w \in NewReqs(c) : w.type = "SendOutput"
       /\ \A c \in Sites \X Sites : \A w \in NewReps(c) : IsAnswer(w, s, c) BY <1>1, PrepareIRTACKStep
 <2> HIDE DEF m
 <2>4. \A u \in N : IsIrt(u) BY <2>3, TakenLawful DEF LawfulRep, IrtEntries
 <2> HIDE DEF N
 <2> QED BY <2>1, <2>2, <2>3, <2>4, PiggyDecided
<1>2. ASSUME OnIRSync(src, s, now) PROVE DecidedInv' /\ AllSteady
 <2> DEFINE m == ReqAt(src, s)
            N == {e.id : e \in m.noti}
 <2>1. TypeOK' /\ UNCHANGED <<my_txns, submitted>> /\ s \in Nodes BY <1>2, OnIRSyncType, Placement DEF OnIRSync
 <2>2. \E K : dtxns[s] \subseteq K /\ dtxns' = [dtxns EXCEPT ![s] = K]
  <3>1. HandlePiggyInfo(s, m.from, m.ts, m.noti, m.delivered, dtxns[s], now) BY <1>2 DEF OnIRSync, ReqAt
  <3> HIDE DEF m
  <3> QED BY <3>1, PiggyKnows
 <2>3. /\ m \in MsgsIn(req[<<src, s>>]) /\ m \in ReqMsg /\ m.type = "IRSync"
       /\ OthersKept(s)
       /\ \A u \in Txns : \/ Retouched(tx[s][u], tx'[s][u]) /\ u \in N
                          \/ Kept(s, u)
       /\ \A c \in Sites \X Nodes : \A w \in NewReqs(c) : w.type = "SendOutput"
       /\ \A c \in Sites \X Sites : \A w \in NewReps(c) : IsAnswer(w, s, c) BY <1>2, OnIRSyncStep
 <2> HIDE DEF m
 <2>4. \A u \in N : IsIrt(u) BY <2>1, <2>3, TakenLawful DEF LawfulReq, IrtEntries
 <2> HIDE DEF N
 <2> QED BY <2>1, <2>2, <2>3, <2>4, PiggyDecided
<1> QED BY <1>1, <1>2

-----
(* A step that touches no record. *)
LEMMA QuietDecided ==
  ASSUME TypeOK, TypeOK', DecidedInv, UNCHANGED <<tx, my_txns, dtxns, submitted, rep>>,
         \A c \in Sites \X Nodes : \A m \in NewReqs(c) : LawfulReq(tx, m, c[1], c[2])
  PROVE DecidedInv' /\ AllSteady
<1>1. AllSteady BY DEF AllSteady, Steady
<1>2. OneCoordinator' /\ \A s \in Sites : IrtEntries(my_txns'[s]) BY DEF DecidedInv, OneCoordinator, Coord
<1>3. \A s \in Sites, t \in Txns : LawfulTx(tx', submitted', dtxns', s, t) BY DEF DecidedInv
<1>4. \A c \in Sites \X Sites : NewReps(c) = {} BY DEF NewReps
<1>5. \A c \in Sites \X Nodes : \A m \in NewReqs(c) : LawfulReq(tx', m, c[1], c[2]) OBVIOUS
<1> QED BY <1>1, <1>2, <1>3, <1>4, <1>5, DecidedStep

(* IRSyncLoop. *)
LEMMA IRSyncLoopDecided ==
  ASSUME TypeOK, DecidedInv, NEW n \in Nodes, NEW now \in PhysTimes, IRSyncLoop(n, now)
  PROVE DecidedInv' /\ AllSteady
<1>1. TypeOK' /\ UNCHANGED <<tx, my_txns, dtxns, submitted, rep>> BY IRSyncLoopType DEF IRSyncLoop, tableVars, execVars
<1>2. \A c \in Sites \X Nodes : \A m \in NewReqs(c) :
        /\ m.type = "IRSync"
        /\ m.noti = IF n \in Sites
                    THEN CollectNotifyTxns(n, c[2], my_txns[n], ir_site_notified_ts[n][c[2]])
                    ELSE {} BY IRSyncLoopStep
<1>3. ASSUME NEW c \in Sites \X Nodes, NEW m \in NewReqs(c) PROVE LawfulReq(tx, m, c[1], c[2])
 <2>1. n \in Sites => m.noti \subseteq my_txns[n] BY <1>2 DEF CollectNotifyTxns
 <2>2. IrtEntries(m.noti) BY <1>2, <2>1 DEF IrtEntries, DecidedInv
 <2> QED BY <1>2, <2>2 DEF LawfulReq
<1> QED BY <1>1, <1>3, QuietDecided

(* DastManager::PrepareCRT. *)
LEMMA MgrPrepareCRTDecided ==
  ASSUME TypeOK, UniqueInv, DecidedInv, NEW src \in Sites, NEW mgr \in Managers, NEW now \in PhysTimes,
         MgrPrepareCRT(src, mgr, now)
  PROVE DecidedInv' /\ AllSteady
<1> DEFINE m == ReqAt(src, mgr)
<1>1. TypeOK' /\ UNCHANGED <<tx, my_txns, dtxns, submitted, rep>>
  BY MgrPrepareCRTType DEF MgrPrepareCRT, tableVars, execVars
<1>2. /\ m \in MsgsIn(req[<<src, mgr>>]) /\ m.type = "PrepareRemote"
      /\ \A c \in Sites \X Nodes : \A w \in NewReqs(c) : CrtMsg(w, m, mgr, c[2]) BY MgrPrepareCRTStep
<1> HIDE DEF m
<1>3. mgr \in Nodes /\ <<src, mgr>> \in Sites \X Nodes BY Placement
<1>4. Coord(tx, src, m.txn) BY <1>2, <1>3, TakenLawful DEF LawfulReq
<1>5. RightReq(m, src, mgr) BY <1>2, <1>3 DEF UniqueInv, ReqsRight
<1>6. m.ts.site = src BY <1>2, <1>5 DEF RightReq
<1>7. \A c \in Sites \X Nodes : \A w \in NewReqs(c) : LawfulReq(tx, w, c[1], c[2])
  BY <1>2, <1>4, <1>6 DEF CrtMsg, LawfulReq
<1> QED BY <1>1, <1>7, QuietDecided

(* NotiWait, MgrFinish, OnNotiCRT and OnNotiCommit. *)
LEMMA NotiDecided ==
  ASSUME TypeOK, DecidedInv, NEW src \in Sites,
         \/ \E mgr \in Managers : NotiWait(src, mgr) \/ MgrFinish(mgr)
         \/ \E s \in Sites : OnNotiCRT(src, s) \/ OnNotiCommit(src, s)
  PROVE DecidedInv' /\ AllSteady
<1>1. ASSUME NEW mgr \in Managers, NotiWait(src, mgr) PROVE DecidedInv' /\ AllSteady
 <2>1. TypeOK' /\ UNCHANGED <<tx, my_txns, dtxns, submitted, rep>>
   BY <1>1, NotiWaitType DEF NotiWait, tableVars, execVars
 <2>2. \A c \in Sites \X Nodes : \A w \in NewReqs(c) : w.type = "NotiCommit" BY <1>1, NotiWaitStep
 <2> QED BY <2>1, <2>2, OtherReqs, QuietDecided
<1>2. ASSUME NEW mgr \in Managers, MgrFinish(mgr) PROVE DecidedInv' /\ AllSteady
 <2>1. TypeOK' /\ UNCHANGED <<tx, my_txns, dtxns, submitted, rep, req>>
   BY <1>2, MgrFinishType DEF MgrFinish, tableVars, execVars
 <2>2. \A c \in Sites \X Nodes : NewReqs(c) = {} BY <2>1 DEF NewReqs
 <2> QED BY <2>1, <2>2, QuietDecided
<1>3. ASSUME NEW s \in Sites, OnNotiCRT(src, s) \/ OnNotiCommit(src, s) PROVE DecidedInv' /\ AllSteady
 <2>1. /\ TypeOK' /\ UNCHANGED <<tx, my_txns, dtxns, submitted, rep>>
       /\ req' = Taken(req, <<src, s>>)
       /\ Receives(src, s, "NotiCRT") \/ Receives(src, s, "NotiCommit")
   BY <1>3, OnNotiCRTType, OnNotiCommitType DEF OnNotiCRT, OnNotiCommit, tableVars, execVars
 <2>2. NoNewReqs BY <2>1, Placement, OnlyTaken
 <2> QED BY <2>1, <2>2, QuietDecided DEF NoNewReqs
<1> QED BY <1>1, <1>2, <1>3

(* OnSubmitCRT: nobody coordinates a transaction before it is submitted. *)
LEMMA OnSubmitCRTDecided ==
  ASSUME TypeOK, DecidedInv, NEW s \in Sites, NEW t \in Txns, NEW now \in PhysTimes,
         OnSubmitCRT(s, t, now)
  PROVE DecidedInv' /\ AllSteady
<1>1. /\ TypeOK' /\ UNCHANGED <<my_txns, rep>> /\ ~IsIrt(t) /\ t \notin submitted
      /\ submitted' = submitted \cup {t} /\ dtxns' = [dtxns EXCEPT ![s] = @ \cup {t}] BY OnSubmitCRTType DEF OnSubmitCRT
<1>2. /\ \A u \in Txns \ {t} : tx'[s][u] = tx[s][u]
      /\ IsCoordinated(tx'[s][t], s, t)
      /\ OthersKept(s)
      /\ \A c \in Sites \X Nodes : \A m \in NewReqs(c) :
           /\ c[1] = s /\ m.type = "PrepareRemote" /\ m.txn = t
           /\ \E r \in TouchedRegions(t) : c[2] = MgrOf(r) BY OnSubmitCRTStep
<1>3. Learns /\ t \in dtxns'[s] /\ t \in submitted' BY <1>1 DEF Learns, TypeOK
<1>4. \A k \in Sites : tx[k][t].role # "crtCoord" BY <1>1 DEF DecidedInv, LawfulTx, Coordinates
<1>5. \A k \in Sites, u \in Txns : k # s \/ u # t => tx'[k][u] = tx[k][u] BY <1>2 DEF OthersKept
<1>6. AllSteady BY <1>4, <1>5 DEF AllSteady, Steady
<1>7. OneCoordinator' BY <1>4, <1>5 DEF OneCoordinator, Coord, DecidedInv
<1>8. LawfulTx(tx', submitted', dtxns', s, t)
 <2> DEFINE y == tx'[s][t]
 <2>1. /\ y.phase = DIST_REMOTE_SENT /\ y.acks = {} /\ y.owes = -1 /\ y.role = "crtCoord"
       /\ y.status = [par \in Pars |-> IF par \in Touched(t) THEN P_REMOTE_SENT ELSE P_NOT_RECEIVED]
   BY <1>2 DEF IsCoordinated
 <2> HIDE DEF y
 <2>2. \A par \in Touched(t) : y.status[par] = P_REMOTE_SENT BY <2>1, Workload
 <2>3. ~(P_REMOTE_SENT >= P_REMOTE_PREPARED) /\ ~(DIST_REMOTE_SENT >= DIST_CAN_EXE)
   BY DEF P_REMOTE_SENT, P_REMOTE_PREPARED, DIST_REMOTE_SENT, DIST_CAN_EXE
 <2>4. Coordinates(y, t, submitted', dtxns'[s]) BY <1>1, <1>3, <2>1, <2>2, <2>3 DEF Coordinates
 <2>5. Follows(tx', y, t) BY <2>1, <2>3 DEF Follows
 <2> QED BY <2>4, <2>5 DEF LawfulTx, y
<1>9. \A k \in Sites, u \in Txns : LawfulTx(tx', submitted', dtxns', k, u)
  BY <1>1, <1>3, <1>5, <1>6, <1>8, SameIsKept, KeptLawful
<1>10. \A c \in Sites \X Nodes : \A m \in NewReqs(c) : LawfulReq(tx', m, c[1], c[2])
 <2>1. Coord(tx', s, t) BY <1>2 DEF Coord, IsCoordinated
 <2>2. \A r \in TouchedRegions(t) : MgrOf(r) \in Managers BY Workload, ManagerFacts
 <2> QED BY <1>2, <2>1, <2>2 DEF LawfulReq
<1>11. \A c \in Sites \X Sites : NewReps(c) = {} BY <1>1 DEF NewReps
<1>12. \A r \in Sites : IrtEntries(my_txns'[r]) BY <1>1 DEF DecidedInv
<1> QED BY <1>6, <1>7, <1>9, <1>10, <1>11, <1>12, DecidedStep

-----
(* One more acknowledgement, of site a, with the timestamp of its region. A record that
   is decided does not decide again. *)
Acks(y, acked, a, ts) ==
  /\ acked.role = y.role /\ acked.phase = y.phase /\ acked.status = y.status /\ acked.owes = y.owes
  /\ acked.acks = y.acks \cup {a} /\ acked.anticipated = [y.anticipated EXCEPT ![SiteRegion(a)] = ts]
  /\ acked.ts = y.ts \/ y.phase = DIST_REMOTE_SENT

(* Both kinds of acknowledgement do that. *)
LEMMA AckAdds ==
  ASSUME NEW y \in TxType, NEW a \in Sites, NEW ts \in AnticipatedType, NEW leads
  PROVE  /\ Ack(y, a, ts, leads) \in TxType /\ Acks(y, Ack(y, a, ts, leads), a, ts)
         /\ OwnAck(y, a, ts) \in TxType
         /\ y.phase = DIST_REMOTE_SENT => Acks(y, OwnAck(y, a, ts), a, ts)
<1> DEFINE o == OwnAck(y, a, ts)
           b == Ack(y, a, ts, leads)
<1>1. /\ o \in TxType /\ b \in TxType /\ b.ts = y.ts
      /\ o.phase = y.phase /\ b.phase = y.phase /\ o.role = y.role /\ b.role = y.role
      /\ o.owes = y.owes /\ b.owes = y.owes /\ o.status = y.status /\ b.status = y.status
      /\ o.acks = y.acks \cup {a} /\ b.acks = y.acks \cup {a}
      /\ o.anticipated = [y.anticipated EXCEPT ![SiteRegion(a)] = ts]
      /\ b.anticipated = [y.anticipated EXCEPT ![SiteRegion(a)] = ts]
 <2>1. OwnAck(y, a, ts) \in TxType /\ Ack(y, a, ts, leads) \in TxType BY AckRecords
 <2> QED BY <2>1 DEF OwnAck, Ack, TxType, SiteRegion
<1> HIDE DEF o, b
<1>2. Acks(y, b, a, ts) /\ (y.phase = DIST_REMOTE_SENT => Acks(y, o, a, ts)) BY <1>1 DEF Acks
<1> QED BY <1>1, <1>2 DEF o, b

(* What the coordinator's record is then. *)
LEMMA AcksCoordinate ==
  ASSUME NEW t \in Txns, NEW y \in TxType, NEW acked \in TxType, NEW a \in Sites, NEW ts, ts # ZeroTs,
         Acks(y, acked, a, ts), NEW sub, NEW known, y.role = "crtCoord", Coordinates(y, t, sub, known),
         ParOf(a) \in Touched(t)
  PROVE  /\ Coordinates(WithPrepared(acked, ParOf(a)), t, sub, known)
         /\ Prepared(acked, ParOf(a)) => y.phase = DIST_REMOTE_SENT
<1> DEFINE par == ParOf(a)
           z   == WithPrepared(acked, par)
<1>1. /\ z.phase = y.phase /\ z.acks = y.acks \cup {a}
      /\ z.anticipated = [y.anticipated EXCEPT ![SiteRegion(a)] = ts]
      /\ z.status = IF Prepared(acked, par)
                    THEN [y.status EXCEPT ![par] = P_REMOTE_PREPARED] ELSE y.status
 <2>1. /\ z.phase = acked.phase /\ z.acks = acked.acks /\ z.anticipated = acked.anticipated
       /\ z.status = IF Prepared(acked, par)
                     THEN [acked.status EXCEPT ![par] = P_REMOTE_PREPARED] ELSE acked.status BY DEF WithPrepared, TxType
 <2> HIDE DEF z
 <2> QED BY <2>1 DEF Acks
<1>2. y.status \in [Pars -> DistPartStatus] /\ y.anticipated \in [Regions -> AnticipatedType]
  BY DEF TxType, StatusOfPars, TsOfRegions
<1>3. par \in Pars /\ SiteRegion(a) \in Regions /\ Touched(t) \subseteq Pars BY Placement, Workload DEF SiteRegion
<1>4. Prepared(acked, par) => y.status[par] = P_REMOTE_SENT BY DEF Prepared, Acks
<1>5. P_REMOTE_PREPARED >= P_REMOTE_PREPARED /\ ~(P_REMOTE_SENT >= P_REMOTE_PREPARED)
  BY DEF P_REMOTE_PREPARED, P_REMOTE_SENT
<1>6. Prepared(acked, par) => y.phase = DIST_REMOTE_SENT
 <2>1. y.phase \in {DIST_REMOTE_SENT, DIST_CAN_EXE, OUTPUT_SENT} BY DEF Coordinates
 <2>2. y.phase # DIST_REMOTE_SENT => y.phase >= DIST_CAN_EXE BY <2>1 DEF DIST_CAN_EXE, OUTPUT_SENT
 <2>3. y.phase # DIST_REMOTE_SENT => y.status[par] >= P_REMOTE_PREPARED BY <2>2 DEF Coordinates, AllPrepared
 <2> QED BY <1>4, <1>5, <2>3
<1> HIDE DEF z
<1>7. \A b \in z.acks : z.anticipated[SiteRegion(b)] # ZeroTs
 <2> SUFFICES ASSUME NEW b \in z.acks PROVE z.anticipated[SiteRegion(b)] # ZeroTs OBVIOUS
 <2>1. CASE SiteRegion(b) = SiteRegion(a) BY <1>1, <1>2, <1>3, <2>1
 <2>2. CASE SiteRegion(b) # SiteRegion(a)
  <3>1. b \in y.acks BY <1>1, <2>2
  <3>2. y.anticipated[SiteRegion(b)] # ZeroTs BY <3>1 DEF Coordinates
  <3>3. z.anticipated[SiteRegion(b)] = y.anticipated[SiteRegion(b)] BY <1>1, <1>2, <2>2
  <3> QED BY <3>2, <3>3
 <2> QED BY <2>1, <2>2
<1>8. \A p \in Touched(t) : z.status[p] = y.status[p] \/ (p = par /\ z.status[p] = P_REMOTE_PREPARED)
  BY <1>1, <1>2, <1>3
<1>9. a \in AcksOf(z, par) /\ \A p : AcksOf(y, p) \subseteq AcksOf(z, p) BY <1>1 DEF AcksOf
<1>10. \A p \in Touched(t) : z.status[p] >= P_REMOTE_PREPARED => AcksOf(z, p) # {} BY <1>8, <1>9 DEF Coordinates
<1>11. z.phase >= DIST_CAN_EXE => AllPrepared(t, z)
 <2>1. z.phase >= DIST_CAN_EXE => \A p \in Touched(t) : y.status[p] >= P_REMOTE_PREPARED
   BY <1>1 DEF Coordinates, AllPrepared
 <2> QED BY <1>5, <1>8, <2>1 DEF AllPrepared
<1>12. Coordinates(z, t, sub, known) BY <1>1, <1>7, <1>10, <1>11 DEF Coordinates
<1> QED BY <1>6, <1>12 DEF z

(* The step of the coordinator. *)
LEMMA AcknowledgedDecided ==
  ASSUME TypeOK, TypeOK', DecidedInv, NEW s \in Sites, NEW t \in Txns, NEW now, OthersKept(s),
         \A u \in Txns \ {t} : Kept(s, u), UNCHANGED <<my_txns, dtxns, submitted>>,
         NEW acked \in TxType, NEW a \in Sites, NEW ts, ts # ZeroTs, Acks(tx[s][t], acked, a, ts),
         tx[s][t].role = "crtCoord", ParOf(a) \in Touched(t),
         Acknowledged(s, t, acked, ParOf(a), now)
  PROVE DecidedInv' /\ AllSteady
<1> DEFINE y0  == tx[s][t]
           par == ParOf(a)
           y   == WithPrepared(acked, par)
           z   == Decided(t, y)
<1>1. Learns /\ \A r \in Sites : IrtEntries(my_txns'[r]) BY DEF Learns, DecidedInv
<1>2. y0 \in TxType /\ Coordinates(y0, t, submitted', dtxns'[s]) /\ LawfulTx(tx, submitted, dtxns, s, t)
  BY DEF TypeOK, DecidedInv, LawfulTx
<1>3. Coordinates(y, t, submitted', dtxns'[s]) /\ (Prepared(acked, par) => y0.phase = DIST_REMOTE_SENT)
  BY <1>2, AcksCoordinate
<1>4. /\ y \in TxType /\ z \in TxType /\ y.ts = acked.ts /\ y.phase = y0.phase /\ y.role = "crtCoord"
      /\ y.owes = y0.owes /\ z.ts = DecisionTs(t, y) /\ z.phase = DIST_CAN_EXE /\ z.role = "crtCoord"
      /\ z.owes = y0.owes /\ z.anticipated = y.anticipated /\ z.status = y.status /\ z.acks = y.acks
 <2>1. /\ y \in TxType /\ z \in TxType /\ y.ts = acked.ts /\ y.phase = acked.phase
       /\ y.role = acked.role /\ y.owes = acked.owes
       /\ z.ts = DecisionTs(t, y) /\ z.phase = DIST_CAN_EXE /\ z.role = y.role
       /\ z.owes = y.owes /\ z.anticipated = y.anticipated /\ z.status = y.status /\ z.acks = y.acks
  <3>1. y \in TxType /\ z \in TxType BY DecidedRecord
  <3>2. y.ts = acked.ts /\ y.phase = acked.phase /\ y.role = acked.role /\ y.owes = acked.owes
    BY DEF WithPrepared, TxType
  <3> HIDE DEF y
  <3> QED BY <3>1, <3>2 DEF Decided, TxType
 <2> HIDE DEF y, z
 <2> QED BY <2>1 DEF Acks
<1>5. acked.ts = y0.ts \/ y0.phase = DIST_REMOTE_SENT BY DEF Acks
<1>6. ~(DIST_REMOTE_SENT >= DIST_CAN_EXE) /\ DIST_CAN_EXE >= DIST_CAN_EXE /\ DIST_CAN_EXE # DIST_REMOTE_SENT
  BY DEF DIST_REMOTE_SENT, DIST_CAN_EXE
<1>7. y0.role = "crtCoord" /\ Follows(tx, y0, t) /\ (AllSteady => Follows(tx', y0, t)) BY <1>2, LawfulKept DEF LawfulTx
<1>8. \/ /\ ~Decides(t, acked, par) /\ tx'[s][t] = y /\ rep' = rep /\ NoNewReqs
      \/ /\ Decides(t, acked, par)
         /\ SameRecord(z, tx'[s][t]) /\ SameProgress(t, z, tx'[s][t], ParOf(s))
         /\ \A c \in Sites \X Nodes : \A m \in NewReqs(c) :
              m.type = "SendOutput" \/ (c[1] = s /\ DecisionMsg(m, s, t, y, c[2]))
         /\ \A c \in Sites \X Sites : \A m \in NewReps(c) : IsAnswer(m, s, c) BY DEF Acknowledged
<1>9. Decides(t, acked, par) => Prepared(acked, par) /\ AllPrepared(t, y) BY DEF Decides
<1>10. \A u \in Txns \ {t} : Moves(s, u) BY <1>1, KeptMoves
<1> HIDE DEF y, z
<1>11. CASE ~Decides(t, acked, par)
 <2>1. tx'[s][t] = y /\ rep' = rep /\ NoNewReqs BY <1>8, <1>11
 <2>2. Steady(y0, y) BY <1>4, <1>5, <1>6 DEF Steady
 <2>3. AllSteady => Follows(tx', y, t) BY <1>4, <1>5, <1>6, <1>7 DEF Follows
 <2>4. Moves(s, t) BY <1>3, <1>4, <1>7, <2>1, <2>2, <2>3 DEF Moves, LawfulTx
 <2>5. \A u \in Txns : Moves(s, u) BY <1>10, <2>4
 <2> QED BY <1>1, <2>1, <2>5, HandlerDecided DEF NoNewReqs, NewReps
<1>12. CASE Decides(t, acked, par)
 <2>1. Runs(z, tx'[s][t], ParOf(s)) /\ y0.phase = DIST_REMOTE_SENT /\ AllPrepared(t, y)
   BY <1>3, <1>8, <1>9, <1>12 DEF Runs, SameProgress, Progress
 <2>2. Coordinates(z, t, submitted', dtxns'[s])
  <3>1. \A p : AcksOf(z, p) = AcksOf(y, p) BY <1>4 DEF AcksOf
  <3> QED BY <1>3, <1>4, <2>1, <3>1 DEF Coordinates, AllPrepared
 <2>3. tx'[s][t] \in TxType BY DEF TypeOK
 <2>4. tx'[s][t].role = "crtCoord" /\ tx'[s][t].phase >= DIST_CAN_EXE /\ tx'[s][t].ts = z.ts
   BY <1>4, <1>6, <2>1, <2>2, <2>3, RunsLawful DEF Runs, SameRecord
 <2>5. DecidedAs(tx', s, t, z.ts) BY <2>4 DEF DecidedAs
 <2>6. AllSteady => Follows(tx', z, t) BY <1>4, <1>6, <1>7, <2>5 DEF Follows
 <2>7. AllSteady => LawfulTx(tx', submitted', dtxns', s, t) BY <1>4, <2>1, <2>2, <2>6, RunsOn
 <2>8. Moves(s, t) BY <1>6, <1>7, <2>1, <2>4, <2>7 DEF Moves, Steady
 <2>9. \A u \in Txns : Moves(s, u) BY <1>10, <2>8
 <2>10. ASSUME NEW c \in Sites \X Nodes, NEW m \in NewReqs(c) PROVE LawfulReq(tx', m, c[1], c[2])
  <3>1. CASE m.type = "SendOutput" BY <3>1, OtherReqs
  <3>2. CASE c[1] = s /\ DecisionMsg(m, s, t, y, c[2])
   <4>1. CASE m.type = "NotiWait" BY <4>1, OtherReqs
   <4>2. CASE /\ m.txn = t /\ m.type = "DistExe" /\ m.ts = DecisionTs(t, y)
              /\ c[2] \in Sites \ {s} BY <1>4, <2>5, <3>2, <4>2 DEF LawfulReq
   <4> QED BY <3>2, <4>1, <4>2 DEF DecisionMsg
  <3> QED BY <1>8, <1>12, <3>1, <3>2
 <2>11. \A c \in Sites \X Sites : \A m \in NewReps(c) : IsAnswer(m, s, c) BY <1>8, <1>12
 <2> QED BY <1>1, <2>9, <2>10, <2>11, HandlerDecided
<1> QED BY <1>11, <1>12

(* A timestamp that a manager handed out is not zero. *)
LEMMA OfferNotZero ==
  ASSUME TypeOK, UniqueInv, NEW c \in Sites \X Nodes, NEW m \in MsgsIn(req[c]),
         m.type \in {"PrepareCRT", "RemotePrepared"}
  PROVE m.ts # ZeroTs /\ m.ts \in AnticipatedType /\ m.txn \in Txns
<1>1. m.ts \in AnticipatedType /\ m.txn \in Txns /\ At(m.ts, m.txn) \in Used BY ReqPair
<1>2. m.ts.time >= 2 BY <1>1, AnticipatedHigh
<1>3. ~(ZeroTs.time >= 2) BY DEF ZeroTs, ChrTsOf
<1> QED BY <1>1, <1>2, <1>3

(* OnRemotePrepared. *)
LEMMA OnRemotePreparedDecided ==
  ASSUME TypeOK, UniqueInv, DecidedInv, NEW src \in Sites, NEW s \in Sites, NEW now \in PhysTimes,
         OnRemotePrepared(src, s, now)
  PROVE DecidedInv' /\ AllSteady
<1> DEFINE m     == ReqAt(src, s)
           t     == m.txn
           acked == Ack(tx[s][t], src, m.ts, m.leads)
<1>1. TypeOK' /\ UNCHANGED <<my_txns, dtxns, submitted>> BY OnRemotePreparedType DEF OnRemotePrepared, tableVars
<1>2. /\ m \in MsgsIn(req[<<src, s>>]) /\ m.type = "RemotePrepared"
      /\ OthersKept(s) /\ \A u \in Txns \ {t} : Kept(s, u)
      /\ Acknowledged(s, t, acked, ParOf(src), now) BY OnRemotePreparedStep
<1> HIDE DEF m
<1>3. s \in Nodes /\ <<src, s>> \in Sites \X Nodes BY Placement
<1>4. m.ts # ZeroTs /\ m.ts \in AnticipatedType /\ t \in Txns BY <1>2, <1>3, OfferNotZero
<1>5. tx[s][t].role = "crtCoord" BY <1>2, <1>3, TakenLawful DEF LawfulReq, Coord
<1>6. ParOf(src) \in Touched(t) BY <1>2, <1>3 DEF UniqueInv, ReqsRight, RightReq
<1>7. tx[s][t] \in TxType BY <1>4 DEF TypeOK
<1>8. acked \in TxType /\ Acks(tx[s][t], acked, src, m.ts) BY <1>4, <1>7, AckAdds
<1> HIDE DEF acked, t
<1> QED BY <1>1, <1>2, <1>4, <1>5, <1>6, <1>8, AcknowledgedDecided

(* OnPrepareCRT. *)
LEMMA OnPrepareCRTDecided ==
  ASSUME TypeOK, UniqueInv, DecidedInv, NEW src \in Sites, NEW s \in Sites, NEW now \in PhysTimes,
         OnPrepareCRT(src, s, now)
  PROVE DecidedInv' /\ AllSteady
<1> DEFINE m     == ReqAt(src, s)
           t     == m.txn
           acked == OwnAck(tx[s][t], s, m.ts)
<1>1. TypeOK' /\ UNCHANGED <<my_txns, submitted>> BY OnPrepareCRTType DEF OnPrepareCRT
<1>2. /\ m \in MsgsIn(req[<<src, s>>]) /\ m.type = "PrepareCRT"
      /\ OthersKept(s) /\ \A u \in Txns \ {t} : Kept(s, u)
      /\ \/ /\ tx[s][t].phase = DIST_REMOTE_SENT
            /\ Acknowledged(s, t, acked, ParOf(s), now)
            /\ UNCHANGED dtxns
         \/ Kept(s, t) /\ UNCHANGED <<rep, dtxns>> /\ NoNewReqs
         \/ /\ t \notin dtxns[s]
            /\ IsPrepared(tx'[s][t], s, m)
            /\ dtxns' = [dtxns EXCEPT ![s] = @ \cup {t}]
            /\ rep' = rep
            /\ \A c \in Sites \X Nodes : \A w \in NewReqs(c) :
                 c[1] = s /\ c[2] = m.coord /\ PreparedMsg(w, s, m) BY OnPrepareCRTStep
<1> HIDE DEF m
<1>3. s \in Nodes /\ <<src, s>> \in Sites \X Nodes BY Placement
<1>4. m.ts # ZeroTs /\ m.ts \in AnticipatedType /\ t \in Txns BY <1>2, <1>3, OfferNotZero
<1>5. Coord(tx, m.coord, t) BY <1>2, <1>3, TakenLawful DEF LawfulReq
<1>6. ParOf(s) \in Touched(t) BY <1>2, <1>3 DEF UniqueInv, ReqsRight, RightReq
<1>7. tx[s][t] \in TxType /\ LawfulTx(tx, submitted, dtxns, s, t) BY <1>4 DEF TypeOK, DecidedInv
<1>8. \A r \in Sites : IrtEntries(my_txns'[r]) BY <1>1 DEF DecidedInv
<1>9. CASE /\ tx[s][t].phase = DIST_REMOTE_SENT
           /\ Acknowledged(s, t, acked, ParOf(s), now)
           /\ UNCHANGED dtxns
 <2>1. tx[s][t].role = "crtCoord" BY <1>7, <1>9 DEF LawfulTx, Follows
 <2>2. acked \in TxType /\ Acks(tx[s][t], acked, s, m.ts) BY <1>4, <1>7, <1>9, AckAdds
 <2> HIDE DEF acked, t
 <2> QED BY <1>1, <1>2, <1>4, <1>6, <1>9, <2>1, <2>2, AcknowledgedDecided
<1>10. CASE Kept(s, t) /\ UNCHANGED <<rep, dtxns>> /\ NoNewReqs
 <2>1. Learns BY <1>1, <1>10 DEF Learns
 <2>2. \A u \in Txns : Moves(s, u) BY <1>1, <1>2, <1>10, <2>1, KeptMoves
 <2> QED BY <1>1, <1>2, <1>8, <1>10, <2>1, <2>2, HandlerDecided DEF NoNewReqs, NewReps
<1>11. CASE /\ t \notin dtxns[s]
            /\ IsPrepared(tx'[s][t], s, m)
            /\ dtxns' = [dtxns EXCEPT ![s] = @ \cup {t}]
            /\ rep' = rep
            /\ \A c \in Sites \X Nodes : \A w \in NewReqs(c) :
                 c[1] = s /\ c[2] = m.coord /\ PreparedMsg(w, s, m)
 <2>1. Learns BY <1>1, <1>11 DEF Learns, TypeOK
 <2>2. tx[s][t].role # "crtCoord" BY <1>7, <1>11 DEF LawfulTx, Coordinates
 <2>3. IrtRecord(tx'[s][t]) BY <1>11 DEF IsPrepared, IrtRecord, PHASE_EMPTY, DIST_CAN_EXE, DIST_REMOTE_SENT
 <2>4. Moves(s, t) BY <2>2, <2>3 DEF Moves, Steady, IrtRecord, LawfulTx, Follows
 <2>5. \A u \in Txns : Moves(s, u) BY <1>1, <1>2, <2>1, <2>4, KeptMoves
 <2>6. ASSUME NEW c \in Sites \X Nodes, NEW w \in NewReqs(c), AllSteady PROVE LawfulReq(tx', w, c[1], c[2])
  <3>1. c[2] = m.coord /\ w.type = "RemotePrepared" /\ w.txn = t BY <1>11 DEF PreparedMsg
  <3>2. Coord(tx', c[2], t) BY <1>4, <1>5, <2>6, <3>1, SteadyKeeps
  <3> QED BY <3>1, <3>2 DEF LawfulReq
 <2>7. \A c \in Sites \X Sites : NewReps(c) = {} BY <1>11 DEF NewReps
 <2> QED BY <1>1, <1>2, <1>8, <2>1, <2>5, <2>6, <2>7, HandlerDecided
<1> QED BY <1>2, <1>9, <1>10, <1>11

-----
(* OnDistExe: the sender coordinates the transaction, so the receiver does not. *)
LEMMA OnDistExeDecided ==
  ASSUME TypeOK, DecidedInv, NEW src \in Sites, NEW s \in Sites, OnDistExe(src, s)
  PROVE DecidedInv' /\ AllSteady
<1> DEFINE m == ReqAt(src, s)
           t == m.txn
           z == Told(tx[s][t], s, src, m.ts)
<1>1. TypeOK' /\ UNCHANGED <<my_txns, submitted>> BY OnDistExeType DEF OnDistExe
<1>2. /\ m \in MsgsIn(req[<<src, s>>]) /\ m \in ReqMsg /\ m.type = "DistExe"
      /\ OthersKept(s) /\ \A u \in Txns \ {t} : Kept(s, u)
      /\ \/ /\ UNCHANGED dtxns
            /\ SameRecord(z, tx'[s][t]) /\ SameProgress(t, z, tx'[s][t], ParOf(s))
            /\ \A c \in Sites \X Nodes : \A w \in NewReqs(c) : w.type = "SendOutput"
            /\ \A c \in Sites \X Sites : \A w \in NewReps(c) : IsAnswer(w, s, c)
         \/ /\ dtxns' = [dtxns EXCEPT ![s] = @ \cup {t}]
            /\ UNCHANGED <<tx, rep>> /\ NoNewReqs BY OnDistExeStep
<1> HIDE DEF m
<1>3. s \in Nodes /\ t \in Txns /\ m.ts \in ChrTsType BY <1>2, Placement, ReqFields, TsFacts
<1>4. src # s /\ DecidedAs(tx, src, t, m.ts) BY <1>2, <1>3, TakenLawful DEF LawfulReq
<1>5. tx[s][t].role # "crtCoord" BY <1>3, <1>4 DEF DecidedInv, OneCoordinator, DecidedAs, Coord
<1>6. \A r \in Sites : IrtEntries(my_txns'[r]) BY <1>1 DEF DecidedInv
<1>7. Learns
 <2>1. \A r \in Sites : dtxns[r] \subseteq dtxns'[r]
  <3>1. CASE UNCHANGED dtxns BY <3>1
  <3>2. CASE dtxns' = [dtxns EXCEPT ![s] = @ \cup {t}] BY <3>2 DEF TypeOK
  <3> QED BY <1>2, <3>1, <3>2
 <2> QED BY <1>1, <2>1 DEF Learns
<1>8. \A u \in Txns \ {t} : Moves(s, u) BY <1>1, <1>2, <1>7, KeptMoves
<1>9. CASE /\ SameRecord(z, tx'[s][t]) /\ SameProgress(t, z, tx'[s][t], ParOf(s))
           /\ \A c \in Sites \X Nodes : \A w \in NewReqs(c) : w.type = "SendOutput"
           /\ \A c \in Sites \X Sites : \A w \in NewReps(c) : IsAnswer(w, s, c)
 <2>1. tx[s][t] \in TxType BY <1>3 DEF TypeOK
 <2>2. /\ z \in TxType /\ z.ts = m.ts /\ z.phase = DIST_CAN_EXE /\ z.role = tx[s][t].role
       /\ z.owes \in {tx[s][t].owes, src} BY <1>3, <2>1, ToldRecord
 <2> HIDE DEF z
 <2>3. Runs(z, tx'[s][t], ParOf(s)) /\ tx'[s][t].role # "crtCoord"
   BY <1>5, <1>9, <2>2 DEF Runs, SameRecord, SameProgress, Progress
 <2>4. ASSUME AllSteady PROVE LawfulTx(tx', submitted', dtxns', s, t)
  <3>1. DecidedAs(tx', src, t, m.ts) /\ DecidedAs(tx', src, t, tx'[src][t].ts)
   <4>1. DecidedAs(tx, src, t, tx[src][t].ts) BY <1>4 DEF DecidedAs
   <4> QED BY <1>3, <1>4, <2>4, <4>1, SteadyKeeps
  <3>2. tx[s][t].owes # -1 => DecidedAs(tx', tx[s][t].owes, t, tx'[tx[s][t].owes][t].ts)
   <4>1. LawfulTx(tx, submitted, dtxns, s, t) BY <1>3 DEF DecidedInv
   <4>2. Follows(tx', tx[s][t], t) BY <1>3, <2>4, <4>1, LawfulKept DEF LawfulTx
   <4> QED BY <4>2 DEF Follows
  <3>3. DIST_CAN_EXE # DIST_REMOTE_SENT BY DEF DIST_CAN_EXE, DIST_REMOTE_SENT
  <3>4. Follows(tx', z, t) BY <2>2, <3>1, <3>2, <3>3 DEF Follows
  <3> QED BY <1>1, <1>3, <1>5, <2>2, <2>3, <3>4, RunsOn
 <2>5. Moves(s, t) BY <1>5, <2>3, <2>4 DEF Moves, Steady
 <2>6. \A u \in Txns : Moves(s, u) BY <1>8, <2>5
 <2> QED BY <1>1, <1>2, <1>6, <1>7, <1>9, <2>6, OtherReqs, HandlerDecided
<1>10. CASE UNCHANGED <<tx, rep>> /\ NoNewReqs
 <2>1. \A u \in Txns : Moves(s, u) BY <1>1, <1>7, <1>10, SameIsKept, KeptMoves
 <2> QED BY <1>1, <1>2, <1>6, <1>7, <1>10, <2>1, HandlerDecided DEF NoNewReqs, NewReps
<1> QED BY <1>2, <1>9, <1>10

(* DistExeAck and OnSendOutput. *)
LEMMA OutputDecided ==
  ASSUME TypeOK, DecidedInv, NEW src \in Sites, NEW s \in Sites,
         DistExeAck(src, s) \/ OnSendOutput(src, s)
  PROVE DecidedInv' /\ AllSteady
<1>1. ASSUME DistExeAck(src, s) PROVE DecidedInv' /\ AllSteady
 <2> DEFINE m == RepAt(src, s)
            t == m.txn
 <2>1. TypeOK' /\ UNCHANGED <<my_txns, submitted, dtxns, req>> BY <1>1, DistExeAckType DEF DistExeAck, tableVars
 <2>2. /\ m \in MsgsIn(rep[<<src, s>>]) /\ m \in RepMsg /\ m.type = "DistExeRes"
       /\ OthersKept(s) /\ \A u \in Txns \ {t} : Kept(s, u)
       /\ SameRecord(tx[s][t], tx'[s][t])
       /\ tx'[s][t].phase \in {tx[s][t].phase, OUTPUT_SENT}
       /\ tx'[s][t].status = [tx[s][t].status EXCEPT ![ParOf(src)] = P_OUTPUT_RECEIVED]
       /\ NoNewReps BY <1>1, DistExeAckStep
 <2> HIDE DEF m
 <2>3. t \in Txns BY <2>2 DEF RepMsg
 <2>4. tx[s][t].role = "crtCoord" /\ tx[s][t].phase >= DIST_CAN_EXE BY <2>2, TakenLawful DEF LawfulRep, DecidedAs
 <2>5. tx[s][t] \in TxType /\ tx'[s][t] \in TxType /\ LawfulTx(tx, submitted, dtxns, s, t)
   BY <2>1, <2>3 DEF TypeOK, DecidedInv
 <2> HIDE DEF t
 <2>6. tx[s][t].phase >= PHASE_CAN_EXE
  <3>1. tx[s][t].phase \in 0..6 BY <2>5 DEF TxType, TxnPhase
  <3> QED BY <2>4, <3>1 DEF PHASE_CAN_EXE, LOCAL_CAN_EXE, DIST_CAN_EXE
 <2>7. Runs(tx[s][t], tx'[s][t], ParOf(src)) BY <2>2, <2>4, <2>6 DEF Runs, Progress
 <2>8. Coordinates(tx[s][t], t, submitted', dtxns'[s]) BY <2>1, <2>4, <2>5 DEF LawfulTx
 <2>9. Steady(tx[s][t], tx'[s][t]) /\ (tx'[s][t].role = "crtCoord" => tx[s][t].role = "crtCoord")
   BY <2>3, <2>5, <2>7, <2>8, RunsLawful DEF Steady, Runs, SameRecord
 <2>10. AllSteady => LawfulTx(tx', submitted', dtxns', s, t)
  <3>1. AllSteady => Follows(tx', tx[s][t], t) BY <2>3, <2>5, LawfulKept DEF LawfulTx
  <3> QED BY <2>1, <2>3, <2>5, <2>7, <2>8, <3>1, RunsOn
 <2>11. Learns /\ \A r \in Sites : IrtEntries(my_txns'[r]) BY <2>1 DEF Learns, DecidedInv
 <2>12. \A u \in Txns : Moves(s, u)
  <3>1. Moves(s, t) BY <2>9, <2>10 DEF Moves
  <3> QED BY <2>1, <2>2, <2>11, <3>1, KeptMoves
 <2> QED BY <2>1, <2>2, <2>11, <2>12, HandlerDecided DEF NewReqs, NoNewReps
<1>2. ASSUME OnSendOutput(src, s) PROVE DecidedInv' /\ AllSteady
 <2>1. TypeOK' /\ UNCHANGED <<my_txns, submitted, dtxns>> BY <1>2, OnSendOutputType DEF OnSendOutput, tableVars
 <2>2. /\ OthersKept(s) /\ \A u \in Txns : Kept(s, u)
       /\ \A c \in Sites \X Nodes : \A w \in NewReqs(c) : w.type \in {"SendOutput", "NotiWait"}
       /\ \A c \in Sites \X Sites : \A w \in NewReps(c) : IsAnswer(w, s, c) BY <1>2, OnSendOutputStep
 <2>3. Learns /\ \A r \in Sites : IrtEntries(my_txns'[r]) BY <2>1 DEF Learns, DecidedInv
 <2>4. \A u \in Txns : Moves(s, u) BY <2>1, <2>2, <2>3, KeptMoves
 <2>5. \A c \in Sites \X Nodes : \A w \in NewReqs(c) : LawfulReq(tx', w, c[1], c[2]) BY <2>2, OtherReqs
 <2> QED BY <2>1, <2>2, <2>3, <2>4, <2>5, HandlerDecided
<1> QED BY <1>1, <1>2

(* Nothing is decided at the start. *)
LEMMA InitDecided == Init => DecidedInv
<1> SUFFICES ASSUME Init PROVE DecidedInv OBVIOUS
<1>1. MsgsIn(<<>>) = {} BY OutMsgs
<1>2. /\ \A c \in Sites \X Nodes : MsgsIn(req[c]) = {}
      /\ \A c \in Sites \X Sites : MsgsIn(rep[c]) = {} BY <1>1 DEF Init
<1>3. \A s \in Sites, t \in Txns : IrtRecord(tx[s][t])
  BY DEF Init, FreshTx, IrtRecord, PHASE_EMPTY, DIST_CAN_EXE, DIST_REMOTE_SENT
<1>4. OneCoordinator BY <1>3 DEF OneCoordinator, Coord, IrtRecord
<1>5. \A s \in Sites, t \in Txns : LawfulTx(tx, submitted, dtxns, s, t) BY <1>3 DEF LawfulTx, Follows, IrtRecord
<1>6. \A s \in Sites : IrtEntries(my_txns[s]) BY DEF Init, IrtEntries
<1> QED BY <1>2, <1>4, <1>5, <1>6 DEF DecidedInv

(* There is a site, whose connections a step of a manager may use. *)
LEMMA FirstSite == 0 \in Sites
<1>1. NRegions \in Nat \ {0} /\ NShards \in Nat \ {0} /\ NReplicas \in Nat \ {0} BY SizesAssumption
<1>2. NRegions * NShards \in Nat \ {0} BY <1>1
<1>3. NRegions * NShards * NReplicas \in Nat \ {0} BY <1>1, <1>2
<1> QED BY <1>3 DEF Sites

(* Every step keeps the first half of the invariant. *)
LEMMA NextDecided ==
  ASSUME TypeOK, UniqueInv, DecidedInv, [Next]_vars
  PROVE DecidedInv' /\ AllSteady
<1>1. ASSUME NEW s \in Sites, NEW t \in Txns, NEW now \in PhysTimes,
             \/ \E skips \in 0 .. Cardinality(Txns) : HandleIRT(s, t, now, skips)
             \/ OnSubmitCRT(s, t, now)
      PROVE DecidedInv' /\ AllSteady
 <2>1. \A skips \in 0 .. Cardinality(Txns) : skips \in Nat OBVIOUS
 <2> QED BY <1>1, <2>1, HandleIRTDecided, OnSubmitCRTDecided
<1>2. ASSUME NEW n \in Nodes, NEW now \in PhysTimes, IRSyncLoop(n, now)
      PROVE DecidedInv' /\ AllSteady BY <1>2, IRSyncLoopDecided
<1>3. ASSUME NEW src \in Sites, NEW s \in Sites, NEW now \in PhysTimes,
             \/ OnPrepareIRT(src, s, now) \/ PrepareIRTACK(src, s, now) \/ OnIRSync(src, s, now)
             \/ OnPrepareCRT(src, s, now) \/ OnRemotePrepared(src, s, now)
      PROVE DecidedInv' /\ AllSteady
  BY <1>3, OnPrepareIRTDecided, HearingDecided, OnPrepareCRTDecided, OnRemotePreparedDecided
<1>4. ASSUME NEW src \in Sites, NEW s \in Sites,
             \/ OnNotiCRT(src, s) \/ OnDistExe(src, s) \/ DistExeAck(src, s)
             \/ OnNotiCommit(src, s) \/ OnSendOutput(src, s)
      PROVE DecidedInv' /\ AllSteady BY <1>4, NotiDecided, OnDistExeDecided, OutputDecided
<1>5. ASSUME NEW src \in Sites, NEW m \in Managers,
             NotiWait(src, m) \/ \E now \in PhysTimes : MgrPrepareCRT(src, m, now)
      PROVE DecidedInv' /\ AllSteady BY <1>5, NotiDecided, MgrPrepareCRTDecided
<1>6. ASSUME NEW m \in Managers, MgrFinish(m) PROVE DecidedInv' /\ AllSteady BY <1>6, FirstSite, NotiDecided
<1>7. CASE UNCHANGED vars
 <2>1. UNCHANGED <<tx, my_txns, dtxns, submitted, rep, req>> BY <1>7 DEF vars, tableVars, execVars
 <2>2. \A c \in Sites \X Nodes : NewReqs(c) = {} BY <2>1 DEF NewReqs
 <2> QED BY <2>1, <2>2, NextType, QuietDecided
<1>8. CASE Submit BY <1>1, <1>8 DEF Submit
<1>9. CASE Sync BY <1>2, <1>9 DEF Sync
<1>10. CASE Deliver BY <1>3, <1>4, <1>5, <1>6, <1>10 DEF Deliver
<1> QED BY <1>7, <1>8, <1>9, <1>10 DEF Next

-----
(* Offers.  A manager offers a timestamp ts for its region r of a transaction t: in a
   message m on connection c, or in the record y of site s, where a replica keeps it
   until it hears of the decision. *)
OfferMsg(m, c, t, r, ts) ==
  /\ m.txn = t /\ m.ts = ts
  /\ \/ m.type = "PrepareCRT" /\ SiteRegion(c[2]) = r
     \/ m.type = "RemotePrepared" /\ SiteRegion(c[1]) = r
HasOffer(y, s, r, ts) ==
  \/ /\ y.role = "crtReplica" /\ ~(y.phase >= DIST_CAN_EXE)
     /\ SiteRegion(s) = r /\ y.ts = ts
  \/ r \in Regions /\ ts # ZeroTs /\ y.anticipated[r] = ts
Offered(x, q, t, r, ts) ==
  \/ \E s \in Sites : HasOffer(x[s][t], s, r, ts)
  \/ \E c \in Sites \X Nodes : \E m \in MsgsIn(q[c]) : OfferMsg(m, c, t, r, ts)

OneOffer ==
  \A t \in Txns : \A r, a, b : Offered(tx, req, t, r, a) /\ Offered(tx, req, t, r, b) => a = b
OffersAsked ==
  \A t \in Txns : \A r, a : Offered(tx, req, t, r, a) =>
    r \in TouchedRegions(t) /\ t \in submitted /\ ~IsIrt(t)
OffersBelow ==
  \A t \in Txns : \A r, a, k, ts :
    Offered(tx, req, t, r, a) /\ DecidedAs(tx, k, t, ts) => LessEq(a, ts)
AskedOnce ==
  \A c \in Sites \X Managers : \A m \in MsgsIn(req[c]) :
    m.type = "PrepareRemote" => \A a : ~Offered(tx, req, m.txn, MgrRegion(c[2]), a)

(* A transaction asks a manager once. *)
Single(q) ==
  \A i, j \in 1 .. Len(q) :
    /\ q[i].type = "PrepareRemote" /\ q[j].type = "PrepareRemote"
    /\ q[i].txn = q[j].txn
    => i = j

OffersInv ==
  /\ OneOffer /\ OffersAsked /\ OffersBelow /\ AskedOnce
  /\ \A c \in Sites \X Managers : Single(req[c])

(* The second half of DecisionAgreement. *)
LEMMA OffersInvBelow ==
  ASSUME DecidedInv, OffersInv, NEW t \in Txns, NEW s \in Sites, NEW r \in Sites,
         tx[s][t].phase >= DIST_CAN_EXE, tx[r][t].role = "crtReplica"
  PROVE LessEq(tx[r][t].ts, tx[s][t].ts)
<1>1. CASE tx[r][t].phase >= DIST_CAN_EXE BY <1>1, DecidedInvAgrees DEF LessEq
<1>2. CASE ~(tx[r][t].phase >= DIST_CAN_EXE)
 <2>1. HasOffer(tx[r][t], r, SiteRegion(r), tx[r][t].ts) BY <1>2 DEF HasOffer
 <2>2. Offered(tx, req, t, SiteRegion(r), tx[r][t].ts) BY <2>1 DEF Offered
 <2>3. PICK k \in Sites : DecidedAs(tx, k, t, tx[s][t].ts) BY DEF DecidedInv, LawfulTx, Follows
 <2> QED BY <2>2, <2>3 DEF OffersInv, OffersBelow
<1> QED BY <1>1, <1>2

(* What is sent to the managers, by whoever sends out, asks none of them. *)
Singles(q) == \A c \in Sites \X Managers : Single(q[c])
Plain(out) ==
  \A d \in Managers : out[d] \in Seq(ReqMsg) /\ \A w \in MsgsIn(out[d]) : w.type # "PrepareRemote"

(* Taking from a connection leaves no request twice. *)
LEMMA SinglesTaken ==
  ASSUME NEW q \in [Sites \X Nodes -> Seq(ReqMsg)], Singles(q), NEW k \in Sites \X Nodes, q[k] # <<>>
  PROVE Singles(Taken(q, k)) /\ Taken(q, k) \in [Sites \X Nodes -> Seq(ReqMsg)]
<1>1. q[k] \in Seq(ReqMsg) OBVIOUS
<1>2. Taken(q, k) \in [Sites \X Nodes -> Seq(ReqMsg)] BY <1>1 DEF Taken
<1>3. ASSUME NEW c \in Sites \X Managers PROVE Single(Taken(q, k)[c])
 <2>1. c \in Sites \X Nodes BY Placement
 <2>2. CASE c = k
  <3>1. Taken(q, k)[c] = Tail(q[k]) /\ Single(q[k]) BY <2>1, <2>2 DEF Taken, Singles
  <3>2. /\ Len(Tail(q[k])) = Len(q[k]) - 1 /\ Len(q[k]) \in Nat
        /\ \A i \in 1 .. Len(Tail(q[k])) : Tail(q[k])[i] = q[k][i + 1] /\ i + 1 \in 1 .. Len(q[k]) BY <1>1
  <3> QED BY <3>1, <3>2 DEF Single
 <2>3. CASE c # k BY <2>1, <2>3 DEF Taken, Singles
 <2> QED BY <2>2, <2>3
<1> QED BY <1>2, <1>3 DEF Singles

(* Nor does sending what asks no manager. *)
LEMMA SinglesSent ==
  ASSUME NEW q \in [Sites \X Nodes -> Seq(ReqMsg)], Singles(q), NEW n, NEW out, Plain(out)
  PROVE Singles(Send(q, n, out))
<1> SUFFICES ASSUME NEW c \in Sites \X Managers PROVE Single(Send(q, n, out)[c]) BY DEF Singles
<1> DEFINE a == q[c]
           b == out[c[2]]
<1>1. /\ a \in Seq(ReqMsg) /\ Single(a)
      /\ b \in Seq(ReqMsg) /\ \A w \in MsgsIn(b) : w.type # "PrepareRemote" BY Placement DEF Singles, Plain
<1>2. Send(q, n, out)[c] = IF c[1] = Proc(n) THEN a \o b ELSE a BY Placement DEF Send
<1> HIDE DEF a, b
<1>3. /\ Len(a \o b) = Len(a) + Len(b) /\ Len(a) \in Nat /\ Len(b) \in Nat
      /\ \A i \in 1 .. Len(a) : (a \o b)[i] = a[i]
      /\ \A i \in 1 .. Len(a \o b) : i \notin 1 .. Len(a) => (a \o b)[i] \in MsgsIn(b)
 <2>1. \A i \in 1 .. Len(a \o b) : i \notin 1 .. Len(a) =>
          i - Len(a) \in 1 .. Len(b) /\ (a \o b)[i] = b[i - Len(a)] BY <1>1
 <2> QED BY <1>1, <2>1 DEF MsgsIn
<1>4. \A i \in 1 .. Len(a \o b) : (a \o b)[i].type = "PrepareRemote" => i \in 1 .. Len(a) BY <1>1, <1>3
<1>5. Single(a \o b) BY <1>1, <1>3, <1>4 DEF Single
<1> QED BY <1>1, <1>2, <1>5

(* The outputs that ask no manager. *)
LEMMA PlainOuts ==
  /\ \A out : (\A d \in Managers : out[d] = <<>>) => Plain(out)
  /\ \A D, m : D \subseteq Sites \/ (m \in ReqMsg /\ m.type # "PrepareRemote") => Plain(ToAll(D, m))
  /\ \A s, run, R : Plain(OutputMsgs(s, run, R))
  /\ \A out, s, run, R : Plain(out) => Plain(Then(out, OutputMsgs(s, run, R)))
  /\ Plain(NoMsgs)
<1>1. <<>> \in Seq(ReqMsg) /\ MsgsIn(<<>>) = {} /\ \A m : MsgsIn(<<m>>) = {m} BY OutMsgs
<1>2. \A d \in Managers : d \in Nodes /\ d \notin Sites BY Placement, ManagerFacts
<1>3. ASSUME NEW out, \A d \in Managers : out[d] = <<>> PROVE Plain(out) BY <1>1, <1>3 DEF Plain
<1>4. ASSUME NEW D, NEW m, D \subseteq Sites \/ (m \in ReqMsg /\ m.type # "PrepareRemote") PROVE Plain(ToAll(D, m))
 <2>1. \A d \in Managers : ToAll(D, m)[d] = IF d \in D THEN <<m>> ELSE <<>> BY <1>2 DEF ToAll
 <2>2. CASE D \subseteq Sites BY <1>2, <1>3, <2>1, <2>2
 <2>3. CASE m \in ReqMsg /\ m.type # "PrepareRemote"
  <3>1. <<m>> \in Seq(ReqMsg) BY <2>3
  <3> QED BY <1>1, <2>1, <2>3, <3>1 DEF Plain
 <2> QED BY <1>4, <2>2, <2>3
<1>5. \A s, run, R : \A d \in Managers : OutputMsgs(s, run, R)[d] = <<>> BY <1>2 DEF OutputMsgs
<1>6. ASSUME NEW out, NEW s, NEW run, NEW R, Plain(out) PROVE Plain(Then(out, OutputMsgs(s, run, R)))
 <2> DEFINE o == OutputMsgs(s, run, R)
 <2>1. \A d \in Managers : o[d] = <<>> BY <1>5
 <2> HIDE DEF o
 <2>2. \A d \in Managers : Then(out, o)[d] = out[d] \o o[d] BY <1>2 DEF Then
 <2>3. ASSUME NEW d \in Managers PROVE Then(out, o)[d] = out[d]
  <3>1. out[d] \in Seq(ReqMsg) BY <1>6 DEF Plain
  <3>2. out[d] \o <<>> = out[d] BY <3>1
  <3> QED BY <2>1, <2>2, <3>2
 <2>4. Plain(Then(out, o)) BY <1>6, <2>3 DEF Plain
 <2> QED BY <2>4 DEF o
<1>7. \A d \in Managers : NoMsgs[d] = <<>> BY <1>2 DEF NoMsgs
<1> QED BY <1>3, <1>4, <1>5, <1>6, <1>7

(* The record of t at s offers nothing but what was offered, and decides nothing new but
   above all that was. *)
Still(s, t) ==
  /\ \A r, a : HasOffer(tx'[s][t], s, r, a) => Offered(tx, req, t, r, a)
  /\ \A ts : DecidedAs(tx', s, t, ts) =>
       \/ DecidedAs(tx, s, t, ts)
       \/ \A r, a : Offered(tx, req, t, r, a) => LessEq(a, ts)

(* A message that asks a manager for its first offer; one that repeats an offer, or is
   none. *)
AsksFirst(m, c) ==
  m.type = "PrepareRemote" => m.txn \in Txns /\ \A a : ~Offered(tx, req, m.txn, MgrRegion(c[2]), a)
Repeats(m, c) == \A t \in Txns : \A r, a : OfferMsg(m, c, t, r, a) => Offered(tx, req, t, r, a)

(* Then every offer is an old one. *)
LEMMA OfferedStill ==
  ASSUME NEW t \in Txns, NEW r, NEW a, Offered(tx', req', t, r, a),
         \A s \in Sites : \A b : HasOffer(tx'[s][t], s, r, b) => Offered(tx, req, t, r, b),
         \A c \in Sites \X Nodes : \A m \in NewReqs(c) : Repeats(m, c)
  PROVE Offered(tx, req, t, r, a)
<1>1. ASSUME NEW c \in Sites \X Nodes, NEW m \in MsgsIn(req'[c]), OfferMsg(m, c, t, r, a)
      PROVE Offered(tx, req, t, r, a)
 <2>1. CASE m \in MsgsIn(req[c]) BY <1>1, <2>1 DEF Offered
 <2>2. CASE m \in NewReqs(c) BY <1>1, <2>2 DEF Repeats
 <2> QED BY <2>1, <2>2 DEF NewReqs
<1> QED BY <1>1 DEF Offered

(* The invariant after a step in which no manager answers. *)
LEMMA OffersStep ==
  ASSUME TypeOK, OffersInv, submitted \subseteq submitted',
         \A s \in Sites, t \in Txns : Still(s, t),
         \A c \in Sites \X Nodes : \A m \in NewReqs(c) : AsksFirst(m, c) /\ Repeats(m, c),
         Singles(req')
  PROVE OffersInv'
<1>1. ASSUME NEW t \in Txns, NEW r, NEW a, Offered(tx', req', t, r, a)
      PROVE Offered(tx, req, t, r, a) BY <1>1, OfferedStill DEF Still
<1>2. OneOffer' /\ OffersAsked' BY <1>1 DEF OffersInv, OneOffer, OffersAsked
<1>3. OffersBelow'
 <2>1. \A t \in Txns : \A k, ts : DecidedAs(tx', k, t, ts) =>
         DecidedAs(tx, k, t, ts) \/ \A r, a : Offered(tx, req, t, r, a) => LessEq(a, ts) BY DEF Still, DecidedAs
 <2> QED BY <1>1, <2>1 DEF OffersInv, OffersBelow
<1>4. AskedOnce'
 <2> SUFFICES ASSUME NEW c \in Sites \X Managers, NEW m \in MsgsIn(req'[c]), m.type = "PrepareRemote",
                     NEW a, Offered(tx', req', m.txn, MgrRegion(c[2]), a)
              PROVE FALSE BY DEF AskedOnce
 <2>1. c \in Sites \X Nodes BY Placement
 <2>2. CASE m \in MsgsIn(req[c])
  <3>1. req[c] \in Seq(ReqMsg) BY <2>1 DEF TypeOK
  <3>2. m \in ReqMsg BY <2>2, <3>1 DEF MsgsIn
  <3>3. m.txn \in Txns BY <3>2, ReqFields
  <3> QED BY <1>1, <2>2, <3>3 DEF OffersInv, AskedOnce
 <2>3. CASE m \in NewReqs(c) BY <1>1, <2>1, <2>3 DEF AsksFirst
 <2> QED BY <2>2, <2>3 DEF NewReqs
<1>5. \A c \in Sites \X Managers : Single(req'[c]) BY DEF Singles
<1> QED BY <1>2, <1>3, <1>4, <1>5 DEF OffersInv

-----
(* What a handler that took a request leaves on the connections to the managers. *)
LEMMA SinglesAfter ==
  ASSUME TypeOK, Singles(req), NEW src \in Sites, NEW dst \in Nodes, NEW type, Receives(src, dst, type)
  PROVE  /\ req' = Taken(req, <<src, dst>>) => Singles(req')
         /\ \A n, out : Plain(out) /\ req' = Send(Taken(req, <<src, dst>>), n, out) => Singles(req')
<1>1. /\ req \in [Sites \X Nodes -> Seq(ReqMsg)] /\ <<src, dst>> \in Sites \X Nodes
      /\ req[<<src, dst>>] # <<>> BY DEF TypeOK, Receives
<1> DEFINE q == Taken(req, <<src, dst>>)
<1>2. Singles(q) /\ q \in [Sites \X Nodes -> Seq(ReqMsg)] BY <1>1, SinglesTaken
<1> HIDE DEF q
<1>3. \A n, out : Plain(out) /\ req' = Send(q, n, out) => Singles(req') BY <1>2, SinglesSent
<1> QED BY <1>2, <1>3 DEF q

(* Clients' intra-region transactions and clock synchronisation. *)
LEMMA LocalSingles ==
  ASSUME TypeOK, Singles(req), NEW now \in PhysTimes,
         \/ \E s \in Sites, t \in Txns, skips \in Nat : HandleIRT(s, t, now, skips)
         \/ \E n \in Nodes : IRSyncLoop(n, now)
  PROVE Singles(req')
<1>1. req \in [Sites \X Nodes -> Seq(ReqMsg)] /\ \A d \in Managers : d \in Nodes /\ d \notin Sites
  BY Placement, ManagerFacts DEF TypeOK
<1>2. ASSUME NEW s \in Sites, NEW t \in Txns, NEW skips \in Nat, HandleIRT(s, t, now, skips) PROVE Singles(req')
 <2> DEFINE first == Generate(s, now, dist_txn_tss[s])
            ts    == After(first, skips)
            mine  == my_txns[s] \cup {[ts |-> ts, id |-> t]}
            targets == (UNION {SitesByPartitionId(par) : par \in Touched(t)}) \ {s}
            out == [d \in Nodes |->
          IF d \in targets
          THEN <<[type |-> "PrepareIRT", txn |-> t, ts |-> ts, delivered |-> ZeroTs,
                  noti |-> CollectNotifyTxns(s, d, mine, ir_site_notified_ts[s][d])]>>
          ELSE <<>>]
 <2>1. req' = Send(req, s, out) BY <1>2 DEF HandleIRT
 <2>2. targets \subseteq Sites BY DEF SitesByPartitionId
 <2> HIDE DEF targets, mine, ts
 <2>3. \A d \in Managers : out[d] = <<>> BY <1>1, <2>2
 <2> HIDE DEF out
 <2> QED BY <1>1, <2>1, <2>3, PlainOuts, SinglesSent
<1>3. ASSUME NEW n \in Nodes, IRSyncLoop(n, now) PROVE Singles(req')
 <2> DEFINE region  == IF n \in Sites THEN SiteRegion(n) ELSE MgrRegion(n)
            targets == IF n \in Sites THEN Peers(n) \ ir_synced[n]
                               ELSE SitesInRegion(region) \ {MgrHost(n)}
            first   == Generate(n, now, dist_txn_tss[n])
            tsOf(d) == ChrTsOf(first.time,
                        first.stretch + Cardinality({c \in targets : c < d}), first.site)
            out == [d \in Nodes |->
          IF d \in targets
          THEN <<[type |-> "IRSync", from |-> n, ts |-> tsOf(d),
                  delivered |-> IF n \in Sites THEN ir_site_max_ts[n][d] ELSE ZeroTs,
                  noti |-> IF n \in Sites THEN CollectNotifyTxns(n, d, my_txns[n], ir_site_notified_ts[n][d])
                                      ELSE {}]>>
          ELSE <<>>]
 <2>1. req' = Send(req, n, out) BY <1>3 DEF IRSyncLoop
 <2>2. targets \subseteq Sites BY DEF Peers, SitesInRegion
 <2> HIDE DEF targets, tsOf
 <2>3. \A d \in Managers : out[d] = <<>> BY <1>1, <2>2
 <2> HIDE DEF out
 <2> QED BY <1>1, <2>1, <2>3, PlainOuts, SinglesSent
<1> QED BY <1>2, <1>3

(* The handlers of a site that only run pieces, or take note. *)
LEMMA RunSingles ==
  ASSUME TypeOK, Singles(req), NEW src \in Sites, NEW s \in Sites,
         \/ \E now \in PhysTimes : \/ OnPrepareIRT(src, s, now) \/ PrepareIRTACK(src, s, now)
                                   \/ OnIRSync(src, s, now)
         \/ OnNotiCRT(src, s) \/ OnDistExe(src, s) \/ OnNotiCommit(src, s) \/ DistExeAck(src, s)
  PROVE Singles(req')
<1>1. req \in [Sites \X Nodes -> Seq(ReqMsg)] /\ s \in Nodes BY Placement DEF TypeOK
<1>2. ASSUME NEW now \in PhysTimes, OnPrepareIRT(src, s, now) PROVE Singles(req')
 <2>1. \E run, R : req' = Send(Taken(req, <<src, s>>), s, OutputMsgs(s, run, R)) BY <1>2 DEF OnPrepareIRT
 <2>2. Receives(src, s, "PrepareIRT") BY <1>2 DEF OnPrepareIRT
 <2> QED BY <1>1, <2>1, <2>2, PlainOuts, SinglesAfter
<1>3. ASSUME NEW now \in PhysTimes, PrepareIRTACK(src, s, now) PROVE Singles(req')
 <2>1. req' = req \/ \E run, R : req' = Send(req, s, OutputMsgs(s, run, R)) BY <1>3 DEF PrepareIRTACK
 <2> QED BY <1>1, <2>1, PlainOuts, SinglesSent
<1>4. ASSUME NEW now \in PhysTimes, OnIRSync(src, s, now) PROVE Singles(req')
 <2>1. \E run, R : req' = Send(Taken(req, <<src, s>>), s, OutputMsgs(s, run, R)) BY <1>4 DEF OnIRSync
 <2>2. Receives(src, s, "IRSync") BY <1>4 DEF OnIRSync
 <2> QED BY <1>1, <2>1, <2>2, PlainOuts, SinglesAfter
<1>5. ASSUME OnNotiCRT(src, s) \/ OnNotiCommit(src, s) PROVE Singles(req')
 <2>1. req' = Taken(req, <<src, s>>) /\ \E type : Receives(src, s, type) BY <1>5 DEF OnNotiCRT, OnNotiCommit
 <2> QED BY <1>1, <2>1, SinglesAfter
<1>6. ASSUME OnDistExe(src, s) PROVE Singles(req')
 <2>1. \/ req' = Taken(req, <<src, s>>)
       \/ \E run, R : req' = Send(Taken(req, <<src, s>>), s, OutputMsgs(s, run, R)) BY <1>6 DEF OnDistExe
 <2>2. Receives(src, s, "DistExe") BY <1>6 DEF OnDistExe
 <2> QED BY <1>1, <2>1, <2>2, PlainOuts, SinglesAfter
<1>7. ASSUME DistExeAck(src, s) PROVE Singles(req') BY <1>7 DEF DistExeAck
<1> QED BY <1>2, <1>3, <1>4, <1>5, <1>6, <1>7

(* A decision asks no manager. *)
LEMMA DecisionSingles ==
  ASSUME TypeOK, NEW s \in Sites, NEW t \in Txns, NEW acked \in TxType, NEW par, NEW floors, NEW now,
         NEW q \in [Sites \X Nodes -> Seq(ReqMsg)], Singles(q),
         CheckRemotePrepared(s, t, acked, par, floors, q, now)
  PROVE Singles(req')
<1> DEFINE y == WithPrepared(acked, par)
           decision == DecisionTs(t, y)
           sites    == (UNION {SitesByPartitionId(p) : p \in Touched(t)}) \ {s}
           out      == [d \in Nodes |->
                          IF d \in sites
                          THEN <<[type |-> "DistExe", txn |-> t, ts |-> decision]>>
                          ELSE IF d \in Managers /\ MgrRegion(d) \in TouchedRegions(t)
                          THEN <<NotiWaitMsg(s, t, y, MgrRegion(d))>>
                          ELSE <<>>]
<1>1. req' = q \/ \E run, R : req' = Send(q, s, Then(out, OutputMsgs(s, run, R))) BY DEF CheckRemotePrepared
<1>2. y \in TxType BY DecidedRecord
<1>3. sites \subseteq Sites BY DEF SitesByPartitionId
<1> HIDE DEF y, decision, sites
<1>4. \A r \in TouchedRegions(t) : /\ NotiWaitMsg(s, t, y, r) \in ReqMsg
                                   /\ NotiWaitMsg(s, t, y, r).type = "NotiWait" BY <1>2, NotiWaitFields
<1>5. ASSUME NEW d \in Managers PROVE out[d] \in Seq(ReqMsg) /\ \A w \in MsgsIn(out[d]) : w.type # "PrepareRemote"
 <2>1. d \in Nodes /\ d \notin sites BY <1>3, Placement, ManagerFacts
 <2>2. \/ out[d] = <<>>
       \/ MgrRegion(d) \in TouchedRegions(t) /\ out[d] = <<NotiWaitMsg(s, t, y, MgrRegion(d))>> BY <2>1
 <2> HIDE DEF out
 <2>3. CASE out[d] = <<>> BY <2>3, OutMsgs
 <2>4. CASE MgrRegion(d) \in TouchedRegions(t) /\ out[d] = <<NotiWaitMsg(s, t, y, MgrRegion(d))>>
  <3> DEFINE w == NotiWaitMsg(s, t, y, MgrRegion(d))
  <3>1. w \in ReqMsg /\ w.type = "NotiWait" /\ out[d] = <<w>> BY <1>4, <2>4
  <3> HIDE DEF w
  <3>2. MsgsIn(out[d]) = {w} /\ out[d] \in Seq(ReqMsg) BY <3>1, OutMsgs
  <3> QED BY <3>1, <3>2
 <2> QED BY <2>2, <2>3, <2>4
<1>6. Plain(out) BY <1>5 DEF Plain
<1> HIDE DEF out
<1> QED BY <1>1, <1>6, PlainOuts, SinglesSent

(* Prepared transactions and their acknowledgements. *)
LEMMA PrepareSingles ==
  ASSUME TypeOK, Singles(req), NEW src \in Sites, NEW s \in Sites, NEW now \in PhysTimes,
         OnPrepareCRT(src, s, now) \/ OnRemotePrepared(src, s, now)
  PROVE Singles(req')
<1> DEFINE m == ReqAt(src, s)
           t == m.txn
           q == Taken(req, <<src, s>>)
<1>1. s \in Nodes /\ \E type \in {"PrepareCRT", "RemotePrepared"} : Receives(src, s, type)
  BY Placement DEF OnPrepareCRT, OnRemotePrepared
<1>2. m \in ReqMsg /\ m.type \in {"PrepareCRT", "RemotePrepared"} BY <1>1, ReceivesType DEF ReqAt
<1>3. t \in Txns /\ m.ts \in AnticipatedType BY <1>2, ReqFields
<1>4. Singles(q) /\ q \in [Sites \X Nodes -> Seq(ReqMsg)] BY <1>1, SinglesTaken DEF Receives, TypeOK
<1>5. tx[s][t] \in TxType BY <1>3 DEF TypeOK
<1>6. ASSUME OnPrepareCRT(src, s, now) PROVE Singles(req')
 <2> DEFINE acked == OwnAck(tx[s][t], s, m.ts)
            w == [type |-> "RemotePrepared", txn |-> t, ts |-> m.ts, leads |-> m.leader = s]
 <2>1. \/ CheckRemotePrepared(s, t, acked, ParOf(s), dist_txn_tss[s] \cup {m.ts}, q, now)
       \/ req' = q
       \/ req' = Send(q, s, ToAll({m.coord}, w)) BY <1>6 DEF OnPrepareCRT, ReqAt, OwnAck
 <2>2. acked \in TxType BY <1>3, <1>5, AckRecords
 <2>3. w \in ReqMsg /\ w.type = "RemotePrepared" BY <1>3 DEF ReqMsg
 <2> HIDE DEF acked, w, q, m, t
 <2>4. Plain(ToAll({m.coord}, w)) BY <2>3, PlainOuts
 <2> QED BY <1>3, <1>4, <2>1, <2>2, <2>4, DecisionSingles, SinglesSent
<1>7. ASSUME OnRemotePrepared(src, s, now) PROVE Singles(req')
 <2> DEFINE acked == Ack(tx[s][t], src, m.ts, m.leads)
 <2>1. CheckRemotePrepared(s, t, acked, ParOf(src), dist_txn_tss[s], q, now) BY <1>7 DEF OnRemotePrepared, ReqAt, Ack
 <2>2. acked \in TxType BY <1>3, <1>5, AckRecords
 <2> HIDE DEF acked, q, m, t
 <2> QED BY <1>3, <1>4, <2>1, <2>2, DecisionSingles
<1> QED BY <1>6, <1>7

(* A manager prepares at the sites of its region. *)
LEMMA PrepareRegion ==
  ASSUME NEW src \in Sites, NEW mgr \in Managers, NEW now \in PhysTimes, MgrPrepareCRT(src, mgr, now)
  PROVE  \E out : /\ \A d \in Managers : out[d] = <<>>
                 /\ req' = Send(Taken(req, <<src, mgr>>), mgr, out)
<1> DEFINE m     == ReqAt(src, mgr)
           coord == m.ts.site
           pars  == {par \in Touched(m.txn) : RegionOf(par) = MgrRegion(mgr)}
           touched == UNION {SitesByPartitionId(par) : par \in pars}
           mine  == Generate(mgr, now, dist_txn_tss[mgr])
           ant   == AnticipatedTs(mgr, m.ts, mine, max_future_ts[mgr], EstimatedRtt)
           prep(d, leader) == [type |-> "PrepareCRT", txn |-> m.txn, ts |-> ant, coord |-> coord,
                      leader |-> leader[ParOf(d)],
                      input_ready |-> IF m.wait /\ ParOf(d) = ParOf(coord) THEN 0 ELSE 1]
           noti == [type |-> "NotiCRT", txn |-> m.txn, ts |-> ant, touched |-> touched]
           all(leader) == [d \in Nodes |->
              IF d \in touched THEN <<prep(d, leader)>>
              ELSE IF d \in SitesInRegion(MgrRegion(mgr)) THEN <<noti>> ELSE <<>>]
<1>1. PICK leader : req' = Send(Taken(req, <<src, mgr>>), mgr, all(leader)) BY DEF MgrPrepareCRT, ReqAt
<1> HIDE DEF prep, noti
<1> DEFINE out == all(leader)
<1>2. touched \subseteq Sites /\ SitesInRegion(MgrRegion(mgr)) \subseteq Sites BY DEF SitesByPartitionId, SitesInRegion
<1> HIDE DEF touched
<1>3. \A d \in Managers : out[d] = <<>> BY <1>2, Placement, ManagerFacts
<1> HIDE DEF out
<1> QED BY <1>1, <1>3 DEF out

(* Variables from another partition, and the managers. *)
LEMMA ManagerSingles ==
  ASSUME TypeOK, Singles(req), NEW src \in Sites,
         \/ \E s \in Sites : OnSendOutput(src, s)
         \/ \E mgr \in Managers : \/ NotiWait(src, mgr) \/ MgrFinish(mgr)
                                  \/ \E now \in PhysTimes : MgrPrepareCRT(src, mgr, now)
  PROVE Singles(req')
<1>1. req \in [Sites \X Nodes -> Seq(ReqMsg)] BY DEF TypeOK
<1>2. ASSUME NEW s \in Sites, OnSendOutput(src, s) PROVE Singles(req')
 <2> DEFINE m == ReqAt(src, s)
            t == m.txn
            w == [type |-> "NotiWait", txn |-> t, orig |-> tx[s][t].ts,
                              wait |-> FALSE, new |-> ZeroTs, touched |-> {}]
            out(irt) == IF irt THEN NoMsgs ELSE ToAll({MgrOf(SiteRegion(s))}, w)
            q == Taken(req, <<src, s>>)
 <2>1. s \in Nodes /\ Receives(src, s, "SendOutput") BY <1>2, Placement DEF OnSendOutput
 <2>2. m \in ReqMsg /\ m.type = "SendOutput" BY <2>1, ReceivesType DEF ReqAt
 <2>3. t \in Txns BY <2>2, ReqFields
 <2>4. \/ req' = q
       \/ \E irt, run, R : \/ req' = Send(q, s, out(irt))
                           \/ req' = Send(q, s, Then(out(irt), OutputMsgs(s, run, R)))
  <3> DEFINE x1  == [tx[s] EXCEPT ![t] = [@ EXCEPT !.input_ready = 2]]
             x2  == [x1 EXCEPT ![t] = Merge(x1[t], m.vars)]
             R   == ready_txns[s]
             irts == {b \in BOOLEAN : tx[s][t].role # "unset" =>
                             (b <=> tx[s][t].role \in {"irtHandler", "irtReplica"})}
             floors(irt) == IF irt THEN dist_txn_tss[s] ELSE dist_txn_tss[s] \ {tx[s][t].ts}
             Case(irt) == IF MoreToRun(x1[t], m.vars) /\ x1[t].phase >= LOCAL_CAN_EXE
                   THEN \E run \in SUBSET Runnable(R, x2) :
                          /\ CheckExecutableTxns(s, run, R, x2, TRUE, floors(irt), ir_site_max_ts[s])
                          /\ req' = Send(q, s, Then(out(irt), OutputMsgs(s, run, R)))
                          /\ rep' = Send(rep, s, DistExeReplies(s, run, R, x2))
                   ELSE /\ NoExecution(s, R, x2, TRUE, floors(irt))
                        /\ req' = Send(q, s, out(irt))
                        /\ UNCHANGED rep
  <3>1. req' = q \/ \E irt \in irts : Case(irt) BY <1>2 DEF OnSendOutput, ReqAt
  <3> HIDE DEF irts, floors, out, x1, x2, R, q, m
  <3> QED BY <3>1
 <2>5. tx[s][t] \in TxType BY <2>3 DEF TypeOK
 <2>6. w \in ReqMsg /\ w.type = "NotiWait" BY <2>3, <2>5, TsFacts DEF ReqMsg, TxType
 <2> HIDE DEF w, q, m
 <2>7. \A irt : Plain(out(irt)) BY <2>6, PlainOuts
 <2> HIDE DEF out
 <2> QED BY <2>1, <2>4, <2>7, PlainOuts, SinglesAfter DEF q
<1>3. ASSUME NEW mgr \in Managers, NotiWait(src, mgr) PROVE Singles(req')
 <2> DEFINE m == ReqAt(src, mgr)
            D == SitesInRegion(MgrRegion(mgr)) \ m.touched
            w == [m EXCEPT !.type = "NotiCommit"]
 <2>1. mgr \in Nodes /\ Receives(src, mgr, "NotiWait") BY <1>3, Placement DEF NotiWait
 <2>2. req' = Send(Taken(req, <<src, mgr>>), mgr, ToAll(D, w)) BY <1>3 DEF NotiWait, ReqAt
 <2>3. D \subseteq Sites BY DEF SitesInRegion
 <2> HIDE DEF D, w
 <2>4. Plain(ToAll(D, w)) BY <2>3, PlainOuts
 <2> QED BY <2>1, <2>2, <2>4, SinglesAfter
<1>4. ASSUME NEW mgr \in Managers, MgrFinish(mgr) PROVE Singles(req') BY <1>4 DEF MgrFinish
<1>5. ASSUME NEW mgr \in Managers, NEW now \in PhysTimes, MgrPrepareCRT(src, mgr, now) PROVE Singles(req')
 <2>1. mgr \in Nodes /\ Receives(src, mgr, "PrepareRemote") BY <1>5, Placement DEF MgrPrepareCRT
 <2>2. PICK out : /\ \A d \in Managers : out[d] = <<>>
                  /\ req' = Send(Taken(req, <<src, mgr>>), mgr, out) BY <1>5, PrepareRegion
 <2>3. Plain(out) BY <2>2, PlainOuts
 <2> QED BY <2>1, <2>2, <2>3, SinglesAfter
<1> QED BY <1>2, <1>3, <1>4, <1>5

-----
(* A record that at most ran pieces offers what it did. *)
LEMMA KeptStill ==
  ASSUME TypeOK, TypeOK', DecidedInv, NEW s \in Sites, NEW t \in Txns, Kept(s, t)
  PROVE Still(s, t)
<1>1. tx[s][t] \in TxType /\ tx'[s][t] \in TxType BY DEF TypeOK
<1>2. tx[s][t].role = "crtCoord" => Coordinates(tx[s][t], t, submitted, dtxns[s]) BY DEF DecidedInv, LawfulTx
<1>3. Runs(tx[s][t], tx'[s][t], ParOf(s)) BY DEF Kept, Runs, SameProgress, Progress
<1>4. /\ tx[s][t].phase >= DIST_CAN_EXE <=> tx'[s][t].phase >= DIST_CAN_EXE
      /\ tx'[s][t].role = tx[s][t].role /\ tx'[s][t].ts = tx[s][t].ts
      /\ tx'[s][t].anticipated = tx[s][t].anticipated BY <1>1, <1>2, <1>3, RunsLawful DEF Runs, SameRecord
<1>5. \A r, a : HasOffer(tx'[s][t], s, r, a) => HasOffer(tx[s][t], s, r, a) BY <1>4 DEF HasOffer
<1> QED BY <1>4, <1>5 DEF Still, Offered, DecidedAs

(* Nor does one of no replica and no coordinator offer anything new. *)
LEMMA PlainStill ==
  ASSUME NEW s \in Sites, NEW t \in Txns, tx'[s][t].role \notin {"crtReplica", "crtCoord"},
         \/ tx'[s][t].anticipated = tx[s][t].anticipated
         \/ tx'[s][t].anticipated = [r \in Regions |-> ZeroTs]
  PROVE Still(s, t)
<1>1. ASSUME NEW r, NEW a, HasOffer(tx'[s][t], s, r, a) PROVE HasOffer(tx[s][t], s, r, a)
 <2>1. r \in Regions /\ a # ZeroTs /\ tx'[s][t].anticipated[r] = a BY <1>1 DEF HasOffer
 <2>2. tx'[s][t].anticipated # [q \in Regions |-> ZeroTs] BY <2>1
 <2> QED BY <2>1, <2>2 DEF HasOffer
<1> QED BY <1>1 DEF Still, Offered, DecidedAs

(* The record of an intra-region transaction. *)
LEMMA IrtStill ==
  ASSUME DecidedInv, OffersInv, NEW s \in Sites, NEW t \in Txns, IsIrt(t),
         Retouched(tx[s][t], tx'[s][t])
  PROVE Still(s, t)
<1>1. tx[s][t].role # "crtCoord" /\ ~(tx[s][t].phase >= DIST_CAN_EXE) BY IrtUndecided
<1>2. tx[s][t].role # "crtReplica"
 <2> SUFFICES ASSUME tx[s][t].role = "crtReplica" PROVE FALSE OBVIOUS
 <2>1. HasOffer(tx[s][t], s, SiteRegion(s), tx[s][t].ts) BY <1>1 DEF HasOffer
 <2>2. Offered(tx, req, t, SiteRegion(s), tx[s][t].ts) BY <2>1 DEF Offered
 <2> QED BY <2>2 DEF OffersInv, OffersAsked
<1>3. /\ tx'[s][t].role \notin {"crtReplica", "crtCoord"}
      /\ tx'[s][t].anticipated = tx[s][t].anticipated BY <1>1, <1>2 DEF Retouched
<1> QED BY <1>3, PlainStill

(* A handler of s that prepares nothing. *)
LEMMA HandlerOffers ==
  ASSUME TypeOK, OffersInv, NEW s \in Sites, OthersKept(s), submitted \subseteq submitted',
         \A u \in Txns : Still(s, u), Singles(req'),
         \A c \in Sites \X Nodes : \A m \in NewReqs(c) :
           m.type \notin {"PrepareRemote", "PrepareCRT", "RemotePrepared"}
  PROVE OffersInv'
<1>1. ASSUME NEW r \in Sites, NEW u \in Txns, r # s PROVE Still(r, u)
 <2>1. tx'[r][u] = tx[r][u] BY <1>1 DEF OthersKept
 <2> QED BY <2>1 DEF Still, Offered, DecidedAs
<1>2. \A r \in Sites, u \in Txns : Still(r, u) BY <1>1
<1>3. \A c \in Sites \X Nodes : \A m \in NewReqs(c) : AsksFirst(m, c) /\ Repeats(m, c)
  BY DEF AsksFirst, Repeats, OfferMsg
<1> QED BY <1>2, <1>3, OffersStep

(* A step that touches no record and prepares nothing. *)
LEMMA QuietOffers ==
  ASSUME TypeOK, OffersInv, UNCHANGED <<tx, submitted>>, Singles(req'),
         \A c \in Sites \X Nodes : \A m \in NewReqs(c) :
           m.type \notin {"PrepareRemote", "PrepareCRT", "RemotePrepared"}
  PROVE OffersInv'
<1>1. \A r \in Sites, u \in Txns : Still(r, u) BY DEF Still, Offered, DecidedAs
<1>2. \A c \in Sites \X Nodes : \A m \in NewReqs(c) : AsksFirst(m, c) /\ Repeats(m, c)
  BY DEF AsksFirst, Repeats, OfferMsg
<1> QED BY <1>1, <1>2, OffersStep

(* HandleIRT and IRSyncLoop. *)
LEMMA LocalOffers ==
  ASSUME TypeOK, DecidedInv, OffersInv, NEW now \in PhysTimes,
         \/ \E s \in Sites, t \in Txns, skips \in Nat : HandleIRT(s, t, now, skips)
         \/ \E n \in Nodes : IRSyncLoop(n, now)
  PROVE OffersInv'
<1>1. Singles(req') BY LocalSingles DEF OffersInv, Singles
<1>2. ASSUME NEW s \in Sites, NEW t \in Txns, NEW skips \in Nat, HandleIRT(s, t, now, skips) PROVE OffersInv'
 <2>1. TypeOK' /\ submitted' = submitted \cup {t} BY <1>2, HandleIRTType DEF HandleIRT
 <2>2. /\ OthersKept(s) /\ \A u \in Txns \ {t} : tx'[s][u] = tx[s][u]
       /\ IsSubmitted(tx'[s][t], s, t, last_clock'[s])
       /\ \A c \in Sites \X Nodes : \A m \in NewReqs(c) :
            IsPiggy(m, "PrepareIRT", last_clock'[s], ZeroTs,
                    CollectNotifyTxns(s, c[2], my_txns'[s], ir_site_notified_ts[s][c[2]])) BY <1>2, HandleIRTStep
 <2>3. Still(s, t)
  <3>1. tx'[s][t].role = "irtHandler" /\ tx'[s][t].anticipated = [r \in Regions |-> ZeroTs] BY <2>2 DEF IsSubmitted
  <3> QED BY <3>1, PlainStill
 <2>4. \A u \in Txns : Still(s, u) BY <2>1, <2>2, <2>3, SameIsKept, KeptStill
 <2>5. \A c \in Sites \X Nodes : \A m \in NewReqs(c) : m.type = "PrepareIRT" BY <2>2 DEF IsPiggy
 <2> QED BY <1>1, <2>1, <2>2, <2>4, <2>5, HandlerOffers
<1>3. ASSUME NEW n \in Nodes, IRSyncLoop(n, now) PROVE OffersInv'
 <2>1. UNCHANGED <<tx, submitted>> BY <1>3 DEF IRSyncLoop, execVars
 <2>2. \A c \in Sites \X Nodes : \A m \in NewReqs(c) : m.type = "IRSync" BY <1>3, IRSyncLoopStep
 <2> QED BY <1>1, <2>1, <2>2, QuietOffers
<1> QED BY <1>2, <1>3

(* OnPrepareIRT, PrepareIRTACK and OnIRSync: intra-region transactions. *)
LEMMA HearingOffers ==
  ASSUME TypeOK, DecidedInv, OffersInv, NEW src \in Sites, NEW s \in Sites, NEW now \in PhysTimes,
         OnPrepareIRT(src, s, now) \/ PrepareIRTACK(src, s, now) \/ OnIRSync(src, s, now)
  PROVE OffersInv'
<1>1. Singles(req') /\ s \in Nodes BY RunSingles, Placement DEF OffersInv, Singles
<1>2. ASSUME TypeOK', UNCHANGED submitted, OthersKept(s), NEW N, \A u \in N : IsIrt(u),
             \A u \in Txns : (Retouched(tx[s][u], tx'[s][u]) /\ u \in N) \/ Kept(s, u),
             \A c \in Sites \X Nodes : \A w \in NewReqs(c) : w.type = "SendOutput"
      PROVE OffersInv'
 <2>1. \A u \in Txns : Still(s, u) BY <1>2, IrtStill, KeptStill
 <2> QED BY <1>1, <1>2, <2>1, HandlerOffers
<1>3. ASSUME OnPrepareIRT(src, s, now) PROVE OffersInv'
 <2> DEFINE m == ReqAt(src, s)
            N == {m.txn} \cup {e.id : e \in m.noti}
 <2>1. TypeOK' /\ UNCHANGED submitted BY <1>3, OnPrepareIRTType DEF OnPrepareIRT
 <2>2. /\ m \in MsgsIn(req[<<src, s>>]) /\ m.type = "PrepareIRT" /\ OthersKept(s)
       /\ \A u \in Txns : \/ Retouched(tx[s][u], tx'[s][u]) /\ u \in N
                          \/ Kept(s, u)
       /\ \A c \in Sites \X Nodes : \A w \in NewReqs(c) : w.type = "SendOutput" BY <1>3, OnPrepareIRTStep
 <2> HIDE DEF m
 <2>3. \A u \in N : IsIrt(u) BY <1>1, <2>2, TakenLawful DEF LawfulReq, IrtEntries
 <2> HIDE DEF N
 <2> QED BY <1>2, <2>1, <2>2, <2>3
<1>4. ASSUME PrepareIRTACK(src, s, now) PROVE OffersInv'
 <2> DEFINE m == RepAt(src, s)
            N == {m.txn} \cup {e.id : e \in m.noti}
 <2>1. TypeOK' /\ UNCHANGED submitted BY <1>4, PrepareIRTACKType DEF PrepareIRTACK
 <2>2. /\ m \in MsgsIn(rep[<<src, s>>]) /\ m.type = "PrepareIRTRes" /\ OthersKept(s)
       /\ \A u \in Txns : \/ Retouched(tx[s][u], tx'[s][u]) /\ u \in N
                          \/ Kept(s, u)
       /\ \A c \in Sites \X Nodes : \A w \in NewReqs(c) : w.type = "SendOutput" BY <1>4, PrepareIRTACKStep
 <2> HIDE DEF m
 <2>3. \A u \in N : IsIrt(u) BY <2>2, TakenLawful DEF LawfulRep, IrtEntries
 <2> HIDE DEF N
 <2> QED BY <1>2, <2>1, <2>2, <2>3
<1>5. ASSUME OnIRSync(src, s, now) PROVE OffersInv'
 <2> DEFINE m == ReqAt(src, s)
            N == {e.id : e \in m.noti}
 <2>1. TypeOK' /\ UNCHANGED submitted BY <1>5, OnIRSyncType DEF OnIRSync
 <2>2. /\ m \in MsgsIn(req[<<src, s>>]) /\ m.type = "IRSync" /\ OthersKept(s)
       /\ \A u \in Txns : \/ Retouched(tx[s][u], tx'[s][u]) /\ u \in N
                          \/ Kept(s, u)
       /\ \A c \in Sites \X Nodes : \A w \in NewReqs(c) : w.type = "SendOutput" BY <1>5, OnIRSyncStep
 <2> HIDE DEF m
 <2>3. \A u \in N : IsIrt(u) BY <1>1, <2>2, TakenLawful DEF LawfulReq, IrtEntries
 <2> HIDE DEF N
 <2> QED BY <1>2, <2>1, <2>2, <2>3
<1> QED BY <1>3, <1>4, <1>5

(* NotiWait, MgrFinish, OnNotiCRT and OnNotiCommit. *)
LEMMA NotiOffers ==
  ASSUME TypeOK, OffersInv, NEW src \in Sites,
         \/ \E mgr \in Managers : NotiWait(src, mgr) \/ MgrFinish(mgr)
         \/ \E s \in Sites : OnNotiCRT(src, s) \/ OnNotiCommit(src, s)
  PROVE OffersInv'
<1>1. Singles(req) BY DEF OffersInv, Singles
<1>2. ASSUME NEW mgr \in Managers, NotiWait(src, mgr) PROVE OffersInv'
 <2>1. UNCHANGED <<tx, submitted>> /\ Singles(req') BY <1>1, <1>2, ManagerSingles DEF NotiWait, execVars
 <2>2. \A c \in Sites \X Nodes : \A w \in NewReqs(c) : w.type = "NotiCommit" BY <1>2, NotiWaitStep
 <2> QED BY <2>1, <2>2, QuietOffers
<1>3. ASSUME NEW mgr \in Managers, MgrFinish(mgr) PROVE OffersInv'
 <2>1. UNCHANGED <<tx, submitted, req>> /\ Singles(req') BY <1>1, <1>3 DEF MgrFinish, execVars
 <2>2. \A c \in Sites \X Nodes : NewReqs(c) = {} BY <2>1 DEF NewReqs
 <2> QED BY <2>1, <2>2, QuietOffers
<1>4. ASSUME NEW s \in Sites, OnNotiCRT(src, s) \/ OnNotiCommit(src, s) PROVE OffersInv'
 <2>1. /\ UNCHANGED <<tx, submitted>> /\ req' = Taken(req, <<src, s>>) /\ Singles(req')
       /\ Receives(src, s, "NotiCRT") \/ Receives(src, s, "NotiCommit")
   BY <1>1, <1>4, RunSingles DEF OnNotiCRT, OnNotiCommit, execVars
 <2>2. NoNewReqs BY <2>1, Placement, OnlyTaken
 <2> QED BY <2>1, <2>2, QuietOffers DEF NoNewReqs
<1> QED BY <1>2, <1>3, <1>4

(* OnDistExe, DistExeAck and OnSendOutput: the offers that replicas keep are replaced by
   the decision. *)
LEMMA OutputOffers ==
  ASSUME TypeOK, DecidedInv, OffersInv, NEW src \in Sites, NEW s \in Sites,
         OnDistExe(src, s) \/ DistExeAck(src, s) \/ OnSendOutput(src, s)
  PROVE OffersInv'
<1>1. Singles(req') /\ s \in Nodes BY RunSingles, ManagerSingles, Placement DEF OffersInv, Singles
<1>2. ASSUME OnDistExe(src, s) PROVE OffersInv'
 <2> DEFINE m == ReqAt(src, s)
            t == m.txn
            z == Told(tx[s][t], s, src, m.ts)
 <2>1. TypeOK' /\ UNCHANGED submitted BY <1>2, OnDistExeType DEF OnDistExe
 <2>2. /\ m \in MsgsIn(req[<<src, s>>]) /\ m \in ReqMsg /\ m.type = "DistExe"
       /\ OthersKept(s) /\ \A u \in Txns \ {t} : Kept(s, u)
       /\ \/ /\ SameRecord(z, tx'[s][t]) /\ SameProgress(t, z, tx'[s][t], ParOf(s))
             /\ \A c \in Sites \X Nodes : \A w \in NewReqs(c) : w.type = "SendOutput"
          \/ UNCHANGED tx /\ NoNewReqs BY <1>2, OnDistExeStep
 <2> HIDE DEF m
 <2>3. t \in Txns /\ m.ts \in ChrTsType BY <2>2, ReqFields, TsFacts
 <2>4. src # s /\ DecidedAs(tx, src, t, m.ts) BY <1>1, <2>2, TakenLawful DEF LawfulReq
 <2>5. tx[s][t].role # "crtCoord" BY <2>3, <2>4 DEF DecidedInv, OneCoordinator, DecidedAs, Coord
 <2>6. Still(s, t)
  <3>1. CASE SameRecord(z, tx'[s][t]) /\ SameProgress(t, z, tx'[s][t], ParOf(s))
   <4>1. tx[s][t] \in TxType BY <2>3 DEF TypeOK
   <4>2. /\ z.phase = DIST_CAN_EXE /\ z.role = tx[s][t].role
         /\ z.anticipated = tx[s][t].anticipated BY <2>3, <4>1, ToldRecord
   <4> HIDE DEF z, t
   <4>3. /\ tx'[s][t].phase = DIST_CAN_EXE /\ tx'[s][t].role # "crtCoord"
         /\ tx'[s][t].anticipated = tx[s][t].anticipated BY <2>5, <3>1, <4>2 DEF SameRecord, SameProgress
   <4>4. DIST_CAN_EXE >= DIST_CAN_EXE BY DEF DIST_CAN_EXE
   <4>5. \A r, a : HasOffer(tx'[s][t], s, r, a) => HasOffer(tx[s][t], s, r, a) BY <4>3, <4>4 DEF HasOffer
   <4> QED BY <4>3, <4>5 DEF Still, Offered, DecidedAs
  <3>2. CASE UNCHANGED tx BY <2>1, <2>3, <3>2, SameIsKept, KeptStill
  <3> QED BY <2>2, <3>1, <3>2
 <2>7. \A u \in Txns : Still(s, u) BY <2>1, <2>2, <2>6, KeptStill
 <2> QED BY <1>1, <2>1, <2>2, <2>7, HandlerOffers DEF NoNewReqs
<1>3. ASSUME DistExeAck(src, s) PROVE OffersInv'
 <2> DEFINE m == RepAt(src, s)
            t == m.txn
 <2>1. TypeOK' /\ UNCHANGED <<submitted, req>> BY <1>3, DistExeAckType DEF DistExeAck
 <2>2. /\ m \in MsgsIn(rep[<<src, s>>]) /\ m \in RepMsg /\ m.type = "DistExeRes"
       /\ OthersKept(s) /\ \A u \in Txns \ {t} : Kept(s, u)
       /\ SameRecord(tx[s][t], tx'[s][t]) BY <1>3, DistExeAckStep
 <2> HIDE DEF m
 <2>3. t \in Txns BY <2>2 DEF RepMsg
 <2>4. tx[s][t].role = "crtCoord" /\ tx[s][t].phase >= DIST_CAN_EXE BY <2>2, TakenLawful DEF LawfulRep, DecidedAs
 <2>5. Still(s, t)
  <3> HIDE DEF t
  <3>1. /\ tx'[s][t].role = "crtCoord" /\ tx'[s][t].ts = tx[s][t].ts
        /\ tx'[s][t].anticipated = tx[s][t].anticipated BY <2>2, <2>4 DEF SameRecord
  <3>2. \A r, a : HasOffer(tx'[s][t], s, r, a) => HasOffer(tx[s][t], s, r, a) BY <3>1 DEF HasOffer
  <3> QED BY <2>4, <3>1, <3>2 DEF Still, Offered, DecidedAs
 <2>6. \A u \in Txns : Still(s, u) BY <2>1, <2>2, <2>5, KeptStill
 <2>7. \A c \in Sites \X Nodes : NewReqs(c) = {} BY <2>1 DEF NewReqs
 <2> QED BY <1>1, <2>1, <2>2, <2>6, <2>7, HandlerOffers
<1>4. ASSUME OnSendOutput(src, s) PROVE OffersInv'
 <2>1. TypeOK' /\ UNCHANGED submitted BY <1>4, OnSendOutputType DEF OnSendOutput
 <2>2. /\ OthersKept(s) /\ \A u \in Txns : Kept(s, u)
       /\ \A c \in Sites \X Nodes : \A w \in NewReqs(c) : w.type \in {"SendOutput", "NotiWait"}
   BY <1>4, OnSendOutputStep
 <2>3. \A u \in Txns : Still(s, u) BY <2>1, <2>2, KeptStill
 <2> QED BY <1>1, <2>1, <2>2, <2>3, HandlerOffers
<1> QED BY <1>2, <1>3, <1>4

-----
(* A coordinator whose partitions are all prepared has an offer of every region. *)
LEMMA PreparedOffers ==
  ASSUME NEW t \in Txns, NEW y \in TxType, NEW sub, NEW known, Coordinates(y, t, sub, known),
         AllPrepared(t, y), NEW r \in TouchedRegions(t)
  PROVE r \in Regions /\ y.anticipated[r] # ZeroTs
<1>1. PICK par \in Touched(t) : RegionOf(par) = r BY DEF TouchedRegions
<1>2. y.status[par] >= P_REMOTE_PREPARED BY <1>1 DEF AllPrepared
<1>3. PICK a \in AcksOf(y, par) : TRUE BY <1>1, <1>2 DEF Coordinates
<1>4. a \in y.acks /\ SiteRegion(a) = r BY <1>1, <1>3 DEF AcksOf, SiteRegion
<1>5. y.anticipated[r] # ZeroTs BY <1>4 DEF Coordinates
<1> QED BY <1>5, Workload

(* The step of the coordinator when the acknowledgement of a arrives, with the offer ts
   of its region. *)
LEMMA AcknowledgedOffers ==
  ASSUME TypeOK, TypeOK', DecidedInv, OffersInv, NEW s \in Sites, NEW t \in Txns, NEW now, OthersKept(s),
         \A u \in Txns \ {t} : Kept(s, u), UNCHANGED submitted, Singles(req'),
         NEW acked \in TxType, NEW a \in Sites, NEW ts, ts # ZeroTs, Acks(tx[s][t], acked, a, ts),
         Offered(tx, req, t, SiteRegion(a), ts),
         tx[s][t].role = "crtCoord", ParOf(a) \in Touched(t),
         Acknowledged(s, t, acked, ParOf(a), now)
  PROVE OffersInv'
<1> DEFINE y0  == tx[s][t]
           par == ParOf(a)
           y   == WithPrepared(acked, par)
           z   == Decided(t, y)
<1>1. y0 \in TxType /\ tx'[s][t] \in TxType /\ Coordinates(y0, t, submitted, dtxns[s])
  BY DEF TypeOK, DecidedInv, LawfulTx
<1>2. Coordinates(y, t, submitted, dtxns[s]) BY <1>1, AcksCoordinate
<1>3. /\ y \in TxType /\ z \in TxType /\ y.ts = acked.ts /\ y.phase = y0.phase /\ y.role = "crtCoord"
      /\ y.anticipated = [y0.anticipated EXCEPT ![SiteRegion(a)] = ts]
      /\ z.ts = DecisionTs(t, y) /\ z.phase = DIST_CAN_EXE /\ z.role = "crtCoord"
      /\ z.anticipated = y.anticipated
 <2>1. /\ y \in TxType /\ z \in TxType /\ y.ts = acked.ts /\ y.phase = acked.phase
       /\ y.role = acked.role /\ y.anticipated = acked.anticipated
       /\ z.ts = DecisionTs(t, y) /\ z.phase = DIST_CAN_EXE /\ z.role = y.role
       /\ z.anticipated = y.anticipated
  <3>1. y \in TxType /\ z \in TxType BY DecidedRecord
  <3>2. /\ y.ts = acked.ts /\ y.phase = acked.phase /\ y.role = acked.role
        /\ y.anticipated = acked.anticipated BY DEF WithPrepared, TxType
  <3> HIDE DEF y
  <3> QED BY <3>1, <3>2 DEF Decided, TxType
 <2> HIDE DEF y, z
 <2> QED BY <2>1 DEF Acks
<1>4. \/ /\ ~Decides(t, acked, par) /\ tx'[s][t] = y /\ NoNewReqs
      \/ /\ Decides(t, acked, par)
         /\ SameRecord(z, tx'[s][t])
         /\ \A c \in Sites \X Nodes : \A m \in NewReqs(c) :
              m.type = "SendOutput" \/ (c[1] = s /\ DecisionMsg(m, s, t, y, c[2])) BY DEF Acknowledged
<1>5. Decides(t, acked, par) => AllPrepared(t, y) BY DEF Decides
<1> HIDE DEF y, z
<1>6. \A r : r \in Regions /\ y.anticipated[r] # ZeroTs => Offered(tx, req, t, r, y.anticipated[r])
 <2> SUFFICES ASSUME NEW r \in Regions, y.anticipated[r] # ZeroTs PROVE Offered(tx, req, t, r, y.anticipated[r]) OBVIOUS
 <2>1. y0.anticipated \in [Regions -> AnticipatedType] BY <1>1 DEF TxType, TsOfRegions
 <2>2. CASE r = SiteRegion(a) BY <1>3, <2>1, <2>2
 <2>3. CASE r # SiteRegion(a)
  <3>1. y.anticipated[r] = y0.anticipated[r] BY <1>3, <2>1, <2>3
  <3>2. HasOffer(y0, s, r, y.anticipated[r]) BY <3>1 DEF HasOffer
  <3> QED BY <3>2 DEF Offered
 <2> QED BY <2>2, <2>3
<1>7. tx'[s][t].role = "crtCoord" /\ tx'[s][t].anticipated = y.anticipated BY <1>3, <1>4 DEF SameRecord
<1>8. \A r, b : HasOffer(tx'[s][t], s, r, b) => Offered(tx, req, t, r, b) BY <1>6, <1>7 DEF HasOffer
<1>9. ASSUME NEW b, DecidedAs(tx', s, t, b)
      PROVE DecidedAs(tx, s, t, b) \/ \A r, o : Offered(tx, req, t, r, o) => LessEq(o, b)
 <2>1. CASE ~Decides(t, acked, par)
  <3>1. y.phase >= DIST_CAN_EXE /\ y.ts = b BY <1>4, <1>9, <2>1 DEF DecidedAs
  <3>2. ~(DIST_REMOTE_SENT >= DIST_CAN_EXE) BY DEF DIST_REMOTE_SENT, DIST_CAN_EXE
  <3>3. y0.ts = b BY <1>3, <3>1, <3>2 DEF Acks
  <3> QED BY <1>3, <3>1, <3>3 DEF DecidedAs
 <2>2. CASE Decides(t, acked, par)
  <3>1. b = DecisionTs(t, y) BY <1>3, <1>4, <1>9, <2>2 DEF DecidedAs, SameRecord
  <3>2. ASSUME NEW r, NEW o, Offered(tx, req, t, r, o) PROVE LessEq(o, b)
   <4>1. r \in TouchedRegions(t) BY <3>2 DEF OffersInv, OffersAsked
   <4>2. Offered(tx, req, t, r, y.anticipated[r]) BY <1>2, <1>3, <1>5, <1>6, <2>2, <4>1, PreparedOffers
   <4>3. o = y.anticipated[r] BY <3>2, <4>2 DEF OffersInv, OneOffer
   <4> QED BY <1>3, <3>1, <4>1, <4>3, DecisionIsHighest
  <3> QED BY <3>2
 <2> QED BY <2>1, <2>2
<1>10. Still(s, t) BY <1>8, <1>9 DEF Still
<1>11. \A u \in Txns : Still(s, u) BY <1>10, KeptStill
<1>12. \A c \in Sites \X Nodes : \A m \in NewReqs(c) : m.type \in {"SendOutput", "DistExe", "NotiWait"}
  BY <1>4 DEF NoNewReqs, DecisionMsg
<1> QED BY <1>11, <1>12, HandlerOffers

(* What the offers of the messages are. *)
LEMMA OffersSent ==
  ASSUME NEW src \in Sites, NEW s \in Nodes, NEW m \in MsgsIn(req[<<src, s>>])
  PROVE  /\ m.type = "PrepareCRT" => Offered(tx, req, m.txn, SiteRegion(s), m.ts)
         /\ m.type = "RemotePrepared" => Offered(tx, req, m.txn, SiteRegion(src), m.ts)
<1> DEFINE c == <<src, s>>
<1>1. c \in Sites \X Nodes /\ c[1] = src /\ c[2] = s /\ m \in MsgsIn(req[c]) OBVIOUS
<1> HIDE DEF c
<1> QED BY <1>1 DEF Offered, OfferMsg

(* OnRemotePrepared. *)
LEMMA OnRemotePreparedOffers ==
  ASSUME TypeOK, UniqueInv, DecidedInv, OffersInv, NEW src \in Sites, NEW s \in Sites, NEW now \in PhysTimes,
         OnRemotePrepared(src, s, now)
  PROVE OffersInv'
<1> DEFINE m     == ReqAt(src, s)
           t     == m.txn
           acked == Ack(tx[s][t], src, m.ts, m.leads)
<1>1. TypeOK' /\ UNCHANGED submitted /\ Singles(req')
  BY OnRemotePreparedType, PrepareSingles DEF OnRemotePrepared, OffersInv, Singles
<1>2. /\ m \in MsgsIn(req[<<src, s>>]) /\ m.type = "RemotePrepared"
      /\ OthersKept(s) /\ \A u \in Txns \ {t} : Kept(s, u)
      /\ Acknowledged(s, t, acked, ParOf(src), now) BY OnRemotePreparedStep
<1> HIDE DEF m
<1>3. s \in Nodes /\ <<src, s>> \in Sites \X Nodes BY Placement
<1>4. m.ts # ZeroTs /\ m.ts \in AnticipatedType /\ t \in Txns BY <1>2, <1>3, OfferNotZero
<1>5. tx[s][t].role = "crtCoord" BY <1>2, <1>3, TakenLawful DEF LawfulReq, Coord
<1>6. ParOf(src) \in Touched(t) BY <1>2, <1>3 DEF UniqueInv, ReqsRight, RightReq
<1>7. tx[s][t] \in TxType /\ Offered(tx, req, t, SiteRegion(src), m.ts) BY <1>2, <1>3, <1>4, OffersSent DEF TypeOK
<1>8. acked \in TxType /\ Acks(tx[s][t], acked, src, m.ts) BY <1>4, <1>7, AckAdds
<1> HIDE DEF acked, t
<1> QED BY <1>1, <1>2, <1>4, <1>5, <1>6, <1>7, <1>8, AcknowledgedOffers

(* OnPrepareCRT. *)
LEMMA OnPrepareCRTOffers ==
  ASSUME TypeOK, UniqueInv, DecidedInv, OffersInv, NEW src \in Sites, NEW s \in Sites, NEW now \in PhysTimes,
         OnPrepareCRT(src, s, now)
  PROVE OffersInv'
<1> DEFINE m     == ReqAt(src, s)
           t     == m.txn
           acked == OwnAck(tx[s][t], s, m.ts)
<1>1. TypeOK' /\ UNCHANGED submitted /\ Singles(req')
  BY OnPrepareCRTType, PrepareSingles DEF OnPrepareCRT, OffersInv, Singles
<1>2. /\ m \in MsgsIn(req[<<src, s>>]) /\ m.type = "PrepareCRT"
      /\ OthersKept(s) /\ \A u \in Txns \ {t} : Kept(s, u)
      /\ \/ /\ tx[s][t].phase = DIST_REMOTE_SENT
            /\ Acknowledged(s, t, acked, ParOf(s), now)
         \/ Kept(s, t) /\ NoNewReqs
         \/ /\ IsPrepared(tx'[s][t], s, m)
            /\ \A c \in Sites \X Nodes : \A w \in NewReqs(c) :
                 c[1] = s /\ c[2] = m.coord /\ PreparedMsg(w, s, m) BY OnPrepareCRTStep
<1> HIDE DEF m
<1>3. s \in Nodes /\ <<src, s>> \in Sites \X Nodes BY Placement
<1>4. m.ts # ZeroTs /\ m.ts \in AnticipatedType /\ t \in Txns BY <1>2, <1>3, OfferNotZero
<1>5. ParOf(s) \in Touched(t) BY <1>2, <1>3 DEF UniqueInv, ReqsRight, RightReq
<1>6. tx[s][t] \in TxType /\ LawfulTx(tx, submitted, dtxns, s, t) BY <1>4 DEF TypeOK, DecidedInv
<1>7. Offered(tx, req, t, SiteRegion(s), m.ts) BY <1>2, <1>3, OffersSent
<1>8. CASE tx[s][t].phase = DIST_REMOTE_SENT /\ Acknowledged(s, t, acked, ParOf(s), now)
 <2>1. tx[s][t].role = "crtCoord" BY <1>6, <1>8 DEF LawfulTx, Follows
 <2>2. acked \in TxType /\ Acks(tx[s][t], acked, s, m.ts) BY <1>4, <1>6, <1>8, AckAdds
 <2> HIDE DEF acked, t
 <2> QED BY <1>1, <1>2, <1>4, <1>5, <1>7, <1>8, <2>1, <2>2, AcknowledgedOffers
<1>9. CASE Kept(s, t) /\ NoNewReqs
 <2>1. \A u \in Txns : Still(s, u) BY <1>1, <1>2, <1>9, KeptStill
 <2> QED BY <1>1, <1>2, <1>9, <2>1, HandlerOffers DEF NoNewReqs
<1>10. CASE /\ IsPrepared(tx'[s][t], s, m)
            /\ \A c \in Sites \X Nodes : \A w \in NewReqs(c) :
                 c[1] = s /\ c[2] = m.coord /\ PreparedMsg(w, s, m)
 <2>1. Still(s, t)
  <3>1. /\ tx'[s][t].role = "crtReplica" /\ tx'[s][t].ts = m.ts
        /\ tx'[s][t].anticipated = [r \in Regions |-> ZeroTs] BY <1>10 DEF IsPrepared
  <3>2. \A r \in Regions : tx'[s][t].anticipated[r] = ZeroTs BY <3>1
  <3>3. \A r, a : HasOffer(tx'[s][t], s, r, a) => r = SiteRegion(s) /\ a = m.ts BY <3>1, <3>2 DEF HasOffer
  <3> QED BY <1>7, <3>1, <3>3 DEF Still, DecidedAs
 <2>2. ASSUME NEW r \in Sites, NEW u \in Txns PROVE Still(r, u)
  <3>1. CASE r = s BY <1>1, <1>2, <2>1, <3>1, KeptStill
  <3>2. CASE r # s
   <4>1. tx'[r][u] = tx[r][u] BY <1>2, <3>2 DEF OthersKept
   <4> QED BY <1>1, <4>1, SameIsKept, KeptStill
  <3> QED BY <3>1, <3>2
 <2>3. ASSUME NEW c \in Sites \X Nodes, NEW w \in NewReqs(c) PROVE AsksFirst(w, c) /\ Repeats(w, c)
  <3>1. c[1] = s /\ w.type = "RemotePrepared" /\ w.txn = t /\ w.ts = m.ts BY <1>10 DEF PreparedMsg
  <3> QED BY <1>7, <3>1 DEF AsksFirst, Repeats, OfferMsg
 <2> QED BY <1>1, <2>2, <2>3, OffersStep
<1> QED BY <1>2, <1>8, <1>9, <1>10

-----
(* One more request, of a transaction that was not asked for. *)
LEMMA SingleMore ==
  ASSUME NEW a \in Seq(ReqMsg), Single(a), NEW b \in Seq(ReqMsg), NEW m \in ReqMsg,
         b = <<>> \/ b = <<m>>,
         \A w \in MsgsIn(a) : w.type = "PrepareRemote" => w.txn # m.txn
  PROVE Single(a \o b)
<1>1. CASE b = <<>>
 <2>1. a \o b = a BY <1>1
 <2> QED BY <2>1
<1>2. CASE b = <<m>>
 <2>1. /\ Len(a \o b) = Len(a) + 1 /\ Len(a) \in Nat
       /\ \A i \in 1 .. Len(a) : (a \o b)[i] = a[i]
       /\ (a \o b)[Len(a) + 1] = m BY <1>2
 <2> DEFINE q == a \o b
 <2>2. \A i \in 1 .. Len(a) : a[i] \in MsgsIn(a) BY DEF MsgsIn
 <2>3. \A i \in 1 .. Len(q) : i \in 1 .. Len(a) \/ i = Len(a) + 1 BY <2>1
 <2>4. \A i \in 1 .. Len(a) : q[i].type = "PrepareRemote" => q[i].txn # q[Len(a) + 1].txn BY <2>1, <2>2
 <2>5. \A i \in 1 .. Len(a) : q[i] = a[i] BY <2>1
 <2> HIDE DEF q
 <2>6. Single(q) BY <2>3, <2>4, <2>5 DEF Single
 <2> QED BY <2>6 DEF q
<1> QED BY <1>1, <1>2

(* OnSubmitCRT: nothing is asked or offered of a transaction before it is submitted. *)
LEMMA OnSubmitCRTOffers ==
  ASSUME TypeOK, DecidedInv, OffersInv, NEW s \in Sites, NEW t \in Txns, NEW now \in PhysTimes,
         OnSubmitCRT(s, t, now)
  PROVE OffersInv'
<1>1. /\ TypeOK' /\ t \notin submitted /\ submitted' = submitted \cup {t} BY OnSubmitCRTType DEF OnSubmitCRT
<1>2. /\ \A u \in Txns \ {t} : tx'[s][u] = tx[s][u]
      /\ IsCoordinated(tx'[s][t], s, t)
      /\ OthersKept(s)
      /\ \A c \in Sites \X Nodes : \A m \in NewReqs(c) :
           /\ c[1] = s /\ m.type = "PrepareRemote" /\ m.txn = t
           /\ \E r \in TouchedRegions(t) : c[2] = MgrOf(r) BY OnSubmitCRTStep
<1>3. \A r, a : ~Offered(tx, req, t, r, a) BY <1>1 DEF OffersInv, OffersAsked
<1>4. \A k \in Sites, u \in Txns : k # s \/ u # t => tx'[k][u] = tx[k][u] BY <1>2 DEF OthersKept
<1>5. \A k \in Sites, u \in Txns : k # s \/ u # t => Still(k, u)
 <2> SUFFICES ASSUME NEW k \in Sites, NEW u \in Txns, tx'[k][u] = tx[k][u] PROVE Still(k, u) BY <1>4
 <2> QED BY DEF Still, Offered, DecidedAs
<1>6. Still(s, t)
 <2> DEFINE y == tx'[s][t]
 <2>1. y.role = "crtCoord" /\ y.phase = DIST_REMOTE_SENT /\ \A r \in Regions : y.anticipated[r] = ZeroTs
   BY <1>2 DEF IsCoordinated
 <2>2. ~(y.phase >= DIST_CAN_EXE) BY <2>1 DEF DIST_REMOTE_SENT, DIST_CAN_EXE
 <2>3. \A r, a : ~HasOffer(y, s, r, a) BY <2>1 DEF HasOffer
 <2>4. \A ts : ~DecidedAs(tx', s, t, ts) BY <2>2 DEF DecidedAs
 <2> QED BY <2>3, <2>4 DEF Still
<1>7. \A c \in Sites \X Nodes : \A m \in NewReqs(c) : AsksFirst(m, c) /\ Repeats(m, c)
  BY <1>2, <1>3 DEF AsksFirst, Repeats, OfferMsg
<1>8. \A c \in Sites \X Managers : \A w \in MsgsIn(req[c]) : w.type = "PrepareRemote" => w.txn # t
 <2> SUFFICES ASSUME NEW c \in Sites \X Managers, NEW w \in MsgsIn(req[c]), w.type = "PrepareRemote", w.txn = t
              PROVE FALSE OBVIOUS
 <2>1. c \in Sites \X Nodes BY Placement
 <2>2. LawfulReq(tx, w, c[1], c[2]) BY <2>1 DEF DecidedInv
 <2>3. Coord(tx, c[1], t) BY <2>2 DEF LawfulReq
 <2> QED BY <1>1, <2>3 DEF Coord, DecidedInv, LawfulTx, Coordinates
<1>9. Singles(req')
 <2> DEFINE D == {MgrOf(r) : r \in TouchedRegions(t)}
            ts == Generate(s, now, dist_txn_tss[s])
            msg == [type |-> "PrepareRemote", txn |-> t, ts |-> ts, wait |-> WaitsForInput(t)]
 <2>1. req' = Send(req, s, ToAll(D, msg)) BY DEF OnSubmitCRT
 <2>2. msg \in ReqMsg /\ msg.txn = t
  <3>1. last_clock'[s] = Generate(s, now, dist_txn_tss[s]) /\ s \in Nodes BY OnSubmitCRTStep, Placement
  <3>2. ts \in ChrTsType BY <1>1, <3>1 DEF TypeOK
  <3> HIDE DEF ts
  <3> QED BY <3>2 DEF ReqMsg, WaitsForInput
 <2> HIDE DEF D, msg
 <2> SUFFICES ASSUME NEW c \in Sites \X Managers PROVE Single(req'[c]) BY DEF Singles
 <2>3. c \in Sites \X Nodes /\ c[2] \in Nodes /\ req[c] \in Seq(ReqMsg) /\ req'[c] \in Seq(ReqMsg)
   BY <1>1, Placement DEF TypeOK
 <2>4. req'[c] = IF c[1] = Proc(s) THEN req[c] \o ToAll(D, msg)[c[2]] ELSE req[c] BY <2>1, <2>3 DEF Send, TypeOK
 <2>5. Single(req[c]) BY DEF OffersInv
 <2>6. ToAll(D, msg)[c[2]] = IF c[2] \in D THEN <<msg>> ELSE <<>> BY <2>3 DEF ToAll
 <2>7. CASE c[1] = Proc(s) /\ c[2] \in D
  <3>1. req'[c] = req[c] \o <<msg>> BY <2>4, <2>6, <2>7
  <3>2. <<msg>> \in Seq(ReqMsg) BY <2>2
  <3> QED BY <1>8, <2>2, <2>3, <2>5, <3>1, <3>2, SingleMore
 <2>8. CASE ~(c[1] = Proc(s) /\ c[2] \in D)
  <3>1. req'[c] = req[c] \/ req'[c] = req[c] \o <<>> BY <2>4, <2>6, <2>8
  <3>2. req[c] \o <<>> = req[c] BY <2>3
  <3> QED BY <2>5, <3>1, <3>2
 <2> QED BY <2>7, <2>8
<1>10. \A k \in Sites, u \in Txns : Still(k, u) BY <1>5, <1>6
<1> QED BY <1>1, <1>7, <1>9, <1>10, OffersStep

(* What a manager takes is not asked again on its connection. *)
LEMMA AskedTaken ==
  ASSUME TypeOK, TypeOK', OffersInv, NEW src \in Sites, NEW mgr \in Managers, NEW now \in PhysTimes,
         MgrPrepareCRT(src, mgr, now), NEW w \in MsgsIn(req'[<<src, mgr>>]), w.type = "PrepareRemote"
  PROVE w.txn # ReqAt(src, mgr).txn
<1> DEFINE c == <<src, mgr>>
           q == req[c]
<1>1. c \in Sites \X Nodes /\ c \in Sites \X Managers /\ c[1] = src /\ c[2] = mgr /\ mgr \in Nodes BY Placement
<1>2. PICK out : /\ \A d \in Managers : out[d] = <<>>
                 /\ req' = Send(Taken(req, c), mgr, out) BY PrepareRegion
<1>3. Receives(src, mgr, "PrepareRemote") BY DEF MgrPrepareCRT
<1>4. q \in Seq(ReqMsg) /\ q # <<>> /\ Head(q).type = "PrepareRemote" BY <1>1, <1>3 DEF Receives, TypeOK
<1>5. Tail(q) \in Seq(ReqMsg) /\ Len(q) \in Nat /\ Len(q) >= 1 /\ Len(Tail(q)) = Len(q) - 1 /\ Head(q) = q[1] BY <1>4
<1>6. Taken(req, c) \in [Sites \X Nodes -> Seq(ReqMsg)] /\ Taken(req, c)[c] = Tail(q)
 <2>1. Taken(req, c)[c] = Tail(q) /\ req \in [Sites \X Nodes -> Seq(ReqMsg)] BY <1>1 DEF Taken, TypeOK
 <2> QED BY <1>1, <1>3, <2>1, ReceivesType
<1>7. req'[c] = Tail(q) \o out[mgr] \/ req'[c] = Tail(q) BY <1>1, <1>2, <1>6 DEF Send
<1>8. req'[c] = Tail(q)
 <2>1. \A a \in Seq(ReqMsg) : a \o <<>> = a OBVIOUS
 <2>2. out[mgr] = <<>> BY <1>2
 <2> QED BY <1>5, <1>7, <2>1, <2>2
<1>9. PICK i \in 1 .. Len(Tail(q)) : w = Tail(q)[i] BY <1>8 DEF MsgsIn
<1>10. w = q[i + 1] /\ i + 1 \in 1 .. Len(q) /\ 1 \in 1 .. Len(q) /\ i + 1 # 1 BY <1>4, <1>5, <1>9
<1>11. Single(q) BY <1>1 DEF OffersInv
<1> HIDE DEF q
<1>12. w.txn # q[1].txn BY <1>4, <1>5, <1>10, <1>11 DEF Single
<1> QED BY <1>5, <1>12 DEF ReqAt, q

(* DastManager::PrepareCRT: the first offer for its region. *)
LEMMA MgrPrepareCRTOffers ==
  ASSUME TypeOK, DecidedInv, OffersInv, NEW src \in Sites, NEW mgr \in Managers, NEW now \in PhysTimes,
         MgrPrepareCRT(src, mgr, now)
  PROVE OffersInv'
<1> DEFINE m == ReqAt(src, mgr)
           region == MgrRegion(mgr)
           ant == max_future_ts'[mgr]
<1>1. TypeOK' /\ tx' = tx /\ submitted' = submitted BY MgrPrepareCRTType DEF MgrPrepareCRT, tableVars, execVars
<1>2. /\ m \in MsgsIn(req[<<src, mgr>>]) /\ m \in ReqMsg /\ m.type = "PrepareRemote"
      /\ \A c \in Sites \X Nodes : \A w \in NewReqs(c) :
           c[2] \in Sites /\ CrtMsg(w, m, mgr, c[2]) /\ w.ts = ant BY MgrPrepareCRTStep
<1>3. \A w \in MsgsIn(req'[<<src, mgr>>]) : w.type = "PrepareRemote" => w.txn # m.txn BY <1>1, AskedTaken
<1> HIDE DEF m, ant
<1>4. m.txn \in Txns BY <1>2, ReqFields
<1>5. mgr \in Nodes /\ <<src, mgr>> \in Sites \X Managers /\ <<src, mgr>>[2] = mgr BY Placement
<1>6. Coord(tx, src, m.txn) BY <1>2, <1>5, TakenLawful DEF LawfulReq
<1>7. Coordinates(tx[src][m.txn], m.txn, submitted, dtxns[src]) BY <1>4, <1>6 DEF Coord, DecidedInv, LawfulTx
<1>8. \A a : ~Offered(tx, req, m.txn, region, a) BY <1>2, <1>5 DEF OffersInv, AskedOnce
<1> HIDE DEF region
<1>9. ASSUME NEW t \in Txns, NEW r, NEW a, Offered(tx', req', t, r, a)
      PROVE  \/ Offered(tx, req, t, r, a)
             \/ t = m.txn /\ r = region /\ a = ant /\ r \in TouchedRegions(t)
 <2>1. CASE \E s \in Sites : HasOffer(tx'[s][t], s, r, a) BY <1>1, <2>1 DEF Offered
 <2>2. ASSUME NEW c \in Sites \X Nodes, NEW w \in MsgsIn(req'[c]), OfferMsg(w, c, t, r, a)
       PROVE  \/ Offered(tx, req, t, r, a)
              \/ t = m.txn /\ r = region /\ a = ant /\ r \in TouchedRegions(t)
  <3>1. CASE w \in MsgsIn(req[c]) BY <2>2, <3>1 DEF Offered
  <3>2. CASE w \in NewReqs(c)
   <4>1. CrtMsg(w, m, mgr, c[2]) /\ w.ts = ant BY <1>2, <3>2
   <4>2. w.type = "PrepareCRT" /\ SiteRegion(c[2]) = r /\ w.txn = t /\ w.ts = a BY <2>2, <4>1 DEF CrtMsg, OfferMsg
   <4>3. ParOf(c[2]) \in Touched(t) /\ r = region /\ t = m.txn BY <4>1, <4>2 DEF CrtMsg, region
   <4> QED BY <4>1, <4>2, <4>3 DEF TouchedRegions, SiteRegion
  <3> QED BY <3>1, <3>2 DEF NewReqs
 <2> QED BY <1>9, <2>1, <2>2 DEF Offered
<1>10. OneOffer'
 <2> SUFFICES ASSUME NEW t \in Txns, NEW r, NEW a, NEW b,
                     Offered(tx', req', t, r, a), Offered(tx', req', t, r, b)
              PROVE a = b BY DEF OneOffer
 <2> QED BY <1>8, <1>9 DEF OffersInv, OneOffer
<1>11. OffersAsked'
 <2> SUFFICES ASSUME NEW t \in Txns, NEW r, NEW a, Offered(tx', req', t, r, a)
              PROVE r \in TouchedRegions(t) /\ t \in submitted' /\ ~IsIrt(t) BY DEF OffersAsked
 <2> QED BY <1>1, <1>7, <1>9 DEF OffersInv, OffersAsked, Coordinates
<1>12. OffersBelow'
 <2> SUFFICES ASSUME NEW t \in Txns, NEW r, NEW a, NEW k, NEW ts,
                     Offered(tx', req', t, r, a), DecidedAs(tx, k, t, ts)
              PROVE LessEq(a, ts) BY <1>1 DEF OffersBelow
 <2>1. CASE Offered(tx, req, t, r, a) BY <2>1 DEF OffersInv, OffersBelow
 <2>2. CASE t = m.txn /\ r = region /\ r \in TouchedRegions(t)
  <3>1. k \in Sites /\ tx[k][t].role = "crtCoord" /\ tx[k][t].phase >= DIST_CAN_EXE BY DEF DecidedAs
  <3>2. Coordinates(tx[k][t], t, submitted, dtxns[k]) /\ AllPrepared(t, tx[k][t])
    BY <3>1 DEF DecidedInv, LawfulTx, Coordinates
  <3>3. tx[k][t] \in TxType BY <3>1 DEF TypeOK
  <3>4. r \in Regions /\ tx[k][t].anticipated[r] # ZeroTs BY <2>2, <3>2, <3>3, PreparedOffers
  <3>5. HasOffer(tx[k][t], k, r, tx[k][t].anticipated[r]) BY <3>4 DEF HasOffer
  <3>6. Offered(tx, req, t, r, tx[k][t].anticipated[r]) BY <3>1, <3>5 DEF Offered
  <3> QED BY <1>8, <2>2, <3>6
 <2> QED BY <1>9, <2>1, <2>2
<1>13. AskedOnce'
 <2> SUFFICES ASSUME NEW c \in Sites \X Managers, NEW w \in MsgsIn(req'[c]), w.type = "PrepareRemote",
                     NEW a, Offered(tx', req', w.txn, MgrRegion(c[2]), a)
              PROVE FALSE BY DEF AskedOnce
 <2>1. c \in Sites \X Nodes /\ c[2] \in Managers /\ c[2] \notin Sites BY Placement, ManagerFacts
 <2>2. w \in MsgsIn(req[c]) BY <1>2, <2>1 DEF NewReqs
 <2>3. w.txn \in Txns
  <3>1. req[c] \in Seq(ReqMsg) BY <2>1 DEF TypeOK
  <3>2. w \in ReqMsg BY <2>2, <3>1 DEF MsgsIn
  <3> QED BY <3>2, ReqFields
 <2>4. ~Offered(tx, req, w.txn, MgrRegion(c[2]), a) BY <2>2 DEF OffersInv, AskedOnce
 <2>5. w.txn = m.txn /\ MgrRegion(c[2]) = region BY <1>9, <2>3, <2>4
 <2>6. c[2] = mgr
  <3>1. NRegions * NShards * NReplicas \in Nat BY SizesAssumption
  <3>2. c[2] \in Int /\ mgr \in Int BY <1>5, <2>1, Placement
  <3> QED BY <2>5, <3>1, <3>2 DEF region, MgrRegion
 <2>7. LawfulReq(tx, w, c[1], c[2]) BY <2>1, <2>2 DEF DecidedInv
 <2>8. c[1] = src BY <1>4, <1>6, <2>5, <2>7 DEF LawfulReq, DecidedInv, OneCoordinator, Coord
 <2>9. c = <<src, mgr>> BY <2>6, <2>8
 <2> QED BY <1>3, <2>5, <2>9
<1>14. Singles(req') BY ManagerSingles DEF OffersInv, Singles
<1> QED BY <1>10, <1>11, <1>12, <1>13, <1>14 DEF OffersInv, Singles

-----
(* At the start nothing is offered. *)
LEMMA InitOffers == Init => OffersInv
<1> SUFFICES ASSUME Init PROVE OffersInv OBVIOUS
<1>1. /\ \A c \in Sites \X Nodes : req[c] = <<>>
      /\ \A s \in Sites, t \in Txns : tx[s][t] = FreshTx BY DEF Init
<1>2. \A c \in Sites \X Nodes : MsgsIn(req[c]) = {} /\ Single(req[c]) BY <1>1, OutMsgs DEF Single
<1>3. FreshTx.role = "unset" /\ \A r \in Regions : FreshTx.anticipated[r] = ZeroTs BY DEF FreshTx
<1>4. \A s \in Sites, t \in Txns : \A r, a : ~HasOffer(tx[s][t], s, r, a) BY <1>1, <1>3 DEF HasOffer
<1>5. \A t \in Txns : \A r, a : ~Offered(tx, req, t, r, a) BY <1>2, <1>4 DEF Offered
<1>6. \A c \in Sites \X Managers : c \in Sites \X Nodes BY Placement
<1> QED BY <1>2, <1>5, <1>6 DEF OffersInv, OneOffer, OffersAsked, OffersBelow, AskedOnce

(* Every step keeps the second half of the invariant. *)
LEMMA NextOffers ==
  ASSUME TypeOK, UniqueInv, DecidedInv, OffersInv, [Next]_vars
  PROVE OffersInv'
<1>1. ASSUME NEW s \in Sites, NEW t \in Txns, NEW now \in PhysTimes,
             \/ \E skips \in 0 .. Cardinality(Txns) : HandleIRT(s, t, now, skips)
             \/ OnSubmitCRT(s, t, now)
      PROVE OffersInv'
 <2>1. \A skips \in 0 .. Cardinality(Txns) : skips \in Nat OBVIOUS
 <2> QED BY <1>1, <2>1, LocalOffers, OnSubmitCRTOffers
<1>2. ASSUME NEW n \in Nodes, NEW now \in PhysTimes, IRSyncLoop(n, now) PROVE OffersInv' BY <1>2, LocalOffers
<1>3. ASSUME NEW src \in Sites, NEW s \in Sites, NEW now \in PhysTimes,
             \/ OnPrepareIRT(src, s, now) \/ PrepareIRTACK(src, s, now) \/ OnIRSync(src, s, now)
             \/ OnPrepareCRT(src, s, now) \/ OnRemotePrepared(src, s, now)
      PROVE OffersInv' BY <1>3, HearingOffers, OnPrepareCRTOffers, OnRemotePreparedOffers
<1>4. ASSUME NEW src \in Sites, NEW s \in Sites,
             \/ OnNotiCRT(src, s) \/ OnDistExe(src, s) \/ DistExeAck(src, s)
             \/ OnNotiCommit(src, s) \/ OnSendOutput(src, s)
      PROVE OffersInv' BY <1>4, NotiOffers, OutputOffers
<1>5. ASSUME NEW src \in Sites, NEW m \in Managers,
             NotiWait(src, m) \/ \E now \in PhysTimes : MgrPrepareCRT(src, m, now)
      PROVE OffersInv' BY <1>5, NotiOffers, MgrPrepareCRTOffers
<1>6. ASSUME NEW m \in Managers, MgrFinish(m) PROVE OffersInv' BY <1>6, FirstSite, NotiOffers
<1>7. CASE UNCHANGED vars
 <2>1. UNCHANGED <<tx, submitted, req>> BY <1>7 DEF vars, tableVars, execVars
 <2>2. Singles(req') /\ \A c \in Sites \X Nodes : NewReqs(c) = {} BY <2>1 DEF NewReqs, OffersInv, Singles
 <2>3. \A s \in Sites, t \in Txns : Still(s, t) BY <2>1 DEF Still, Offered
 <2> QED BY <2>1, <2>2, <2>3, OffersStep
<1>8. CASE Submit BY <1>1, <1>8 DEF Submit
<1>9. CASE Sync BY <1>2, <1>9 DEF Sync
<1>10. CASE Deliver BY <1>3, <1>4, <1>5, <1>6, <1>10 DEF Deliver
<1> QED BY <1>7, <1>8, <1>9, <1>10 DEF Next

(* The sites that have a decision of the coordinator for a cross-region transaction
   (OnDistExe, AfterAllPrepared) have the same timestamp for it, and it is not before
   what a manager anticipated at any of its replicas: proved for every deployment,
   workload and order of messages. *)
THEOREM DecisionAgreementHolds == Spec => []DecisionAgreement
<1> DEFINE Inv == TypeOK /\ UniqueInv /\ DecidedInv /\ OffersInv
<1>1. Init => Inv BY InitType, InitUnique, InitDecided, InitOffers
<1>2. Inv /\ [Next]_vars => Inv' BY NextType, NextUnique, NextDecided, NextOffers
<1>3. Inv => DecisionAgreement BY DecidedInvAgrees, OffersInvBelow DEF DecisionAgreement
<1> QED BY <1>1, <1>2, <1>3, PTL DEF Spec
=====
