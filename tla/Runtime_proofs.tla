----- MODULE Runtime_proofs -----
(* Theorems about what the protocols run on: the epochs of the transaction schedulers,
   the thread pool and the RPC layer of rrr, and the processes of an experiment. *)
EXTENDS Runtime, FiniteSetTheorems, SequenceTheorems, NaturalsInduction, WellFoundedInduction, TLAPS

-----
(* Epochs.  EpSkew alone is not inductive: what a site's epoch is depends on whether its
   UpgradeEpoch call is still under way, and the round ends when the last partition has
   answered, so that the answers, the calls on the wire and the epochs have to be
   followed together. *)

(* A round is seen by a site in exactly one of three ways: its call is under way, its
   answer is, or site 0 has the answer. *)
EpSiteSeen(s) ==
  \/ EpMsg("upgrade", s, epRound) \in epWire /\ EpMsg("ack", s, epRound) \notin epWire /\ s \notin epReplies
     /\ epCurr[s] = 1 + epRound
  \/ EpMsg("upgrade", s, epRound) \notin epWire /\ EpMsg("ack", s, epRound) \in epWire /\ s \notin epReplies
     /\ epCurr[s] = 2 + epRound
  \/ EpMsg("upgrade", s, epRound) \notin epWire /\ EpMsg("ack", s, epRound) \notin epWire /\ s \in epReplies
     /\ epCurr[s] = 2 + epRound

EpTypeOK ==
  /\ epCurr \in [EpSites -> Int]
  /\ epOldest \in [EpSites -> Int]
  /\ epDue \in BOOLEAN /\ epIn \in BOOLEAN
  /\ epReplies \in SUBSET EpSites
  /\ epRound \in Nat
  /\ \A m \in epWire : \E k \in {"upgrade", "ack"}, s \in EpSites : m = EpMsg(k, s, epRound)

(* The inductive invariant. *)
EpInv ==
  /\ EpTypeOK
  /\ epIn => \A s \in EpSites : EpSiteSeen(s)
  /\ ~epIn => /\ epWire = {} /\ epReplies = {}
              /\ \A s \in EpSites : epCurr[s] = 2 + epRound

(* UpgradeEpochAck counts the answers of each partition: when the numbers agree, every
   site has answered. *)
LEMMA EpAllRepliedIsAll ==
  ASSUME NEW R \in SUBSET EpSites, EpAllReplied(R)
  PROVE R = EpSites
<1>1. SUFFICES ASSUME NEW s \in EpSites PROVE s \in R OBVIOUS
<1> DEFINE S == {t \in EpSites : EpParOf[t] = EpParOf[s]}
           T == {t \in R : EpParOf[t] = EpParOf[s]}
<1>2. EpParOf[s] \in EpPars BY DEF EpPars
<1>3. Cardinality(T) = Cardinality(S) BY <1>2 DEF EpAllReplied
<1>4. IsFiniteSet(S) /\ T \in SUBSET S BY FS_Subset, EpAssumption DEF EpSites
<1>5. S = T BY <1>3, <1>4, FS_Subset
<1> QED BY <1>5

(* Before the first round all sites are in the first epoch. *)
LEMMA EpInitInv == EpInit => EpInv
<1> SUFFICES ASSUME EpInit PROVE EpInv OBVIOUS
<1>1. epCurr \in [EpSites -> Int] /\ epOldest \in [EpSites -> Int] /\ epRound = 0
      /\ \A s \in EpSites : epCurr[s] = 2 + epRound BY DEF EpInit
<1>2. epDue = TRUE /\ epIn = FALSE /\ epReplies = {} /\ epWire = {} BY DEF EpInit
<1> QED BY <1>1, <1>2 DEF EpInv, EpTypeOK

(* The timer, UpgradeEpoch, its handler and UpgradeEpochAck keep it. *)
LEMMA EpStepInv ==
  ASSUME EpInv, [EpNext]_epochVars
  PROVE EpInv'
<1> USE DEF EpMsg
<1>1. CASE EpElapses BY <1>1 DEF EpElapses, EpInv, EpTypeOK, EpSiteSeen
<1>2. CASE EpTriggerUpgradeEpoch
 <2>1. ~epIn /\ epWire = {} /\ epReplies = {} /\ epIn' = TRUE /\ epRound' = epRound + 1 /\ epRound \in Nat
       /\ epCurr' = epCurr /\ epReplies' = epReplies /\ epOldest' = epOldest /\ epDue' = FALSE
       /\ epWire' = {EpMsg("upgrade", s, epRound + 1) : s \in EpSites}
   BY <1>2 DEF EpTriggerUpgradeEpoch, EpMayTrigger, EpInv, EpTypeOK
 <2>2. EpTypeOK'
  <3>1. \A m \in epWire' : \E k \in {"upgrade", "ack"}, s \in EpSites : m = EpMsg(k, s, epRound') BY <2>1
  <3>2. epCurr \in [EpSites -> Int] /\ epOldest \in [EpSites -> Int] BY DEF EpInv, EpTypeOK
  <3>3. epReplies' \in SUBSET EpSites /\ epRound' \in Nat BY <2>1
  <3>4. epDue' \in BOOLEAN /\ epIn' \in BOOLEAN BY <2>1, Zenon
  <3> QED BY <2>1, <3>1, <3>2, <3>3, <3>4 DEF EpTypeOK
 <2>3. ASSUME NEW s \in EpSites PROVE EpSiteSeen(s)'
  <3>1. EpMsg("upgrade", s, epRound') \in epWire' /\ EpMsg("ack", s, epRound') \notin epWire' BY <2>1
  <3>2. epCurr[s] = 2 + epRound BY <2>1 DEF EpInv
  <3> QED BY <2>1, <3>1, <3>2 DEF EpSiteSeen
 <2> QED BY <2>1, <2>2, <2>3 DEF EpInv
<1>3. ASSUME NEW m \in epWire, EpOnUpgradeEpoch(m) PROVE EpInv'
 <2>1. PICK k \in {"upgrade", "ack"}, s \in EpSites : m = EpMsg(k, s, epRound) BY <1>3 DEF EpInv, EpTypeOK
 <2>2. k = "upgrade" /\ epIn /\ epIn' /\ epRound' = epRound /\ epReplies' = epReplies /\ epDue' = epDue
       /\ m.site = s /\ m.round = epRound BY <1>3, <2>1 DEF EpOnUpgradeEpoch, EpInv, EpTypeOK
 <2>3. epWire' = (epWire \ {EpMsg("upgrade", s, epRound)}) \cup {EpMsg("ack", s, epRound)}
   BY <1>3, <2>1, <2>2 DEF EpOnUpgradeEpoch
 <2>4. epCurr' = [epCurr EXCEPT ![s] = @ + 1] /\ epOldest' = [epOldest EXCEPT ![s] = @ + 1]
   BY <1>3, <2>2 DEF EpOnUpgradeEpoch
 <2>5. EpTypeOK' BY <2>2, <2>3, <2>4 DEF EpInv, EpTypeOK
 <2>6. ASSUME NEW t \in EpSites PROVE EpSiteSeen(t)'
  <3>1. EpSiteSeen(t) /\ EpSiteSeen(s) /\ epRound \in Nat /\ epCurr \in [EpSites -> Int] BY <2>2 DEF EpInv, EpTypeOK
  <3>2. CASE t = s BY <2>1, <2>2, <2>3, <2>4, <3>1, <3>2 DEF EpSiteSeen
  <3>3. CASE t # s BY <2>2, <2>3, <2>4, <3>1, <3>3 DEF EpSiteSeen
  <3> QED BY <3>2, <3>3
 <2> QED BY <2>2, <2>5, <2>6 DEF EpInv
<1>4. ASSUME NEW m \in epWire, EpUpgradeEpochAck(m) PROVE EpInv'
 <2>1. PICK k \in {"upgrade", "ack"}, s \in EpSites : m = EpMsg(k, s, epRound) BY <1>4 DEF EpInv, EpTypeOK
 <2>2. k = "ack" /\ epIn /\ m.site = s /\ epRound' = epRound /\ epCurr' = epCurr /\ epOldest' = epOldest /\ epDue' = epDue
   BY <1>4, <2>1 DEF EpUpgradeEpochAck, EpInv, EpTypeOK
 <2>3. epWire' = epWire \ {EpMsg("ack", s, epRound)} BY <1>4, <2>1, <2>2 DEF EpUpgradeEpochAck
 <2>4. EpSiteSeen(s) /\ EpMsg("ack", s, epRound) \in epWire BY <1>4, <2>1, <2>2 DEF EpInv
 <2> DEFINE R == epReplies \cup {s}
 <2>5. R \in SUBSET EpSites /\ epReplies \in SUBSET EpSites /\ epIn \in BOOLEAN /\ epRound \in Nat
   BY DEF EpInv, EpTypeOK
 <2>6. /\ epIn' = (epIn /\ ~EpAllReplied(R))
       /\ epReplies' = IF EpAllReplied(R) THEN {} ELSE R BY <1>4, <2>2 DEF EpUpgradeEpochAck
 <2>7. \A n \in epWire' : \E j \in {"upgrade", "ack"}, t \in EpSites : n = EpMsg(j, t, epRound)
   BY <2>3 DEF EpInv, EpTypeOK
 <2>8. EpTypeOK' BY <2>2, <2>5, <2>6, <2>7 DEF EpInv, EpTypeOK
 <2>9. CASE EpAllReplied(R)
  <3>1. R = EpSites BY <2>5, <2>9, EpAllRepliedIsAll
  <3>2. ~epIn' /\ epReplies' = {} BY <2>6, <2>9
  <3>3. ASSUME NEW t \in EpSites
        PROVE  epCurr[t] = 2 + epRound /\ EpMsg("upgrade", t, epRound) \notin epWire'
               /\ EpMsg("ack", t, epRound) \notin epWire'
   <4>1. EpSiteSeen(t) BY <2>2 DEF EpInv
   <4>2. CASE t = s BY <2>3, <2>4, <4>2 DEF EpSiteSeen
   <4>3. CASE t # s BY <2>3, <3>1, <4>1, <4>3 DEF EpSiteSeen
   <4> QED BY <4>2, <4>3
  <3>4. epWire' = {} BY <2>7, <3>3
  <3> QED BY <2>2, <2>8, <3>2, <3>3, <3>4 DEF EpInv
 <2>10. CASE ~EpAllReplied(R)
  <3>1. epIn' /\ epReplies' = R BY <2>2, <2>6, <2>10
  <3>2. ASSUME NEW t \in EpSites PROVE EpSiteSeen(t)'
   <4>1. EpSiteSeen(t) BY <2>2 DEF EpInv
   <4> QED BY <2>2, <2>3, <2>4, <2>5, <3>1, <4>1 DEF EpSiteSeen
  <3> QED BY <2>8, <3>1, <3>2 DEF EpInv
 <2> QED BY <2>9, <2>10
<1>5. CASE UNCHANGED epochVars BY <1>5 DEF epochVars, EpInv, EpTypeOK, EpSiteSeen
<1> QED BY <1>1, <1>2, <1>3, <1>4, <1>5 DEF EpNext, EpDeliver

(* It bounds the distance of any two epochs. *)
LEMMA EpInvSkew == EpInv => EpSkew
<1> SUFFICES ASSUME EpInv PROVE EpSkew OBVIOUS
<1>1. epCurr \in [EpSites -> Int] /\ epRound \in Nat BY DEF EpInv, EpTypeOK
<1>2. \A s \in EpSites : epCurr[s] = 1 + epRound \/ epCurr[s] = 2 + epRound BY DEF EpInv, EpSiteSeen
<1>3. \A s, t \in EpSites : epCurr[s] - epCurr[t] \in -1 .. 1 BY <1>1, <1>2
<1> QED BY <1>3 DEF EpSkew, EpInv

(* The sites' epochs (GrowActive) never differ by more than the round of UpgradeEpoch
   under way, and between two rounds not at all, for any finite number of sites,
   partitions and rounds. *)
THEOREM EpSkewHolds == EpSpec => []EpSkew
<1>1. EpInit => EpInv BY EpInitInv
<1>2. EpInv /\ [EpNext]_epochVars => EpInv' BY EpStepInv
<1>3. EpInv => EpSkew BY EpInvSkew
<1> QED BY <1>1, <1>2, <1>3, PTL DEF EpSpec

-----
(* The thread pool.  That a job runs at most once says nothing about where it is before;
   the invariant gives every job that was asked for exactly one place: with the job that
   submits it, in one queue, with the thread that runs it, or done. *)

ThDead == [job |-> 0, at |-> "dead"]
ThBusy == [job : ThJobs, at : {"run", "push"}]

ThTypeOK ==
  /\ th_q \in [ThIds -> Seq(ThJobs \cup {Pill})]
  /\ th_at \in [ThIds -> {Idle, ThDead} \cup ThBusy]
  /\ th_turn \in Nat /\ th_stop \in {"no", "stopping", "gone"} /\ th_pills \subseteq ThIds
  /\ th_asked \subseteq ThJobs /\ th_accepted \subseteq th_asked
  /\ th_runs \in [ThJobs -> {0, 1}]

(* Job j is at place n of queue i. *)
ThQueued(q, i, n, j) == n \in 1..Len(q[i]) /\ q[i][n] = j

(* A queued job was accepted and has not run, and is in no other place. *)
ThQueueFresh ==
  \A i \in ThIds, n \in Nat, j \in ThJobs : ThQueued(th_q, i, n, j) =>
    /\ j \in th_accepted /\ th_runs[j] = 0
    /\ \A k \in ThIds : th_at[k].job # j
    /\ \A k \in ThIds, m \in Nat : ThQueued(th_q, k, m, j) => k = i /\ m = n

(* The job of a thread has not run; it is accepted if the thread is to run it and not
   yet if the thread is to submit it; no other thread has it. *)
ThThreadFresh ==
  \A i \in ThIds, j \in ThJobs : th_at[i].job = j =>
    /\ j \in th_asked /\ th_runs[j] = 0
    /\ j \in th_accepted <=> th_at[i].at = "run"
    /\ \A k \in ThIds : th_at[k].job = j => k = i

(* No job is lost. *)
ThNoneLost ==
  \A j \in th_accepted :
    \/ th_runs[j] = 1
    \/ \E i \in ThIds : th_at[i].job = j
    \/ \E i \in ThIds, n \in Nat : ThQueued(th_q, i, n, j)

(* A job that ran was accepted. *)
ThRanAccepted == \A j \in ThJobs : th_runs[j] = 1 => j \in th_accepted

(* After ~ThreadPool nothing is left. *)
ThGone == th_stop = "gone" => \A i \in ThIds : th_at[i] = ThDead /\ th_q[i] = <<>>

(* The inductive invariant. *)
ThInv == ThTypeOK /\ ThQueueFresh /\ ThThreadFresh /\ ThNoneLost /\ ThRanAccepted /\ ThGone

(* A push adds one place at the end of a queue. *)
LEMMA ThPushed ==
  ASSUME NEW q \in [ThIds -> Seq(ThJobs \cup {Pill})], NEW i \in ThIds, NEW x \in ThJobs \cup {Pill}
  PROVE  LET r == [q EXCEPT ![i] = Append(@, x)]
         IN  /\ r \in [ThIds -> Seq(ThJobs \cup {Pill})]
             /\ ThQueued(r, i, Len(q[i]) + 1, x)
             /\ \A k \in ThIds, n \in Nat, j \in ThJobs : ThQueued(q, k, n, j) => ThQueued(r, k, n, j)
             /\ \A k \in ThIds, n \in Nat, j \in ThJobs :
                  ThQueued(r, k, n, j) =>
                    \/ ThQueued(q, k, n, j)
                    \/ k = i /\ n = Len(q[i]) + 1 /\ j = x
<1> DEFINE r == [q EXCEPT ![i] = Append(@, x)]
<1>1. r \in [ThIds -> Seq(ThJobs \cup {Pill})] OBVIOUS
<1>2. r[i] = Append(q[i], x) /\ \A k \in ThIds : k # i => r[k] = q[k] OBVIOUS
<1>3. q[i] \in Seq(ThJobs \cup {Pill}) OBVIOUS
<1>4. /\ Len(r[i]) = Len(q[i]) + 1 /\ Len(q[i]) \in Nat
      /\ r[i][Len(q[i]) + 1] = x
      /\ \A n \in 1..Len(q[i]) : r[i][n] = q[i][n] BY <1>2, <1>3
<1> HIDE DEF r
<1>5. ThQueued(r, i, Len(q[i]) + 1, x) BY <1>4 DEF ThQueued
<1>6. ASSUME NEW k \in ThIds, NEW n \in Nat, NEW j \in ThJobs, ThQueued(q, k, n, j)
      PROVE ThQueued(r, k, n, j) BY <1>2, <1>4, <1>6 DEF ThQueued
<1>7. ASSUME NEW k \in ThIds, NEW n \in Nat, NEW j \in ThJobs, ThQueued(r, k, n, j)
      PROVE ThQueued(q, k, n, j) \/ (k = i /\ n = Len(q[i]) + 1 /\ j = x) BY <1>2, <1>4, <1>7 DEF ThQueued
<1> QED BY <1>1, <1>5, <1>6, <1>7 DEF r

(* A pop takes the first place and moves the others forward. *)
LEMMA ThPopped ==
  ASSUME NEW q \in [ThIds -> Seq(ThJobs \cup {Pill})], NEW i \in ThIds, q[i] # <<>>
  PROVE  LET r == [q EXCEPT ![i] = Tail(@)]
         IN  /\ r \in [ThIds -> Seq(ThJobs \cup {Pill})]
             /\ Head(q[i]) \in ThJobs \cup {Pill}
             /\ ThQueued(q, i, 1, Head(q[i]))
             /\ \A k \in ThIds, n \in Nat, j \in ThJobs :
                  ThQueued(q, k, n, j) =>
                    \/ k = i /\ n = 1 /\ j = Head(q[i])
                    \/ \E m \in Nat : ThQueued(r, k, m, j)
             /\ \A k \in ThIds, n \in Nat, j \in ThJobs :
                  ThQueued(r, k, n, j) =>
                    IF k = i THEN n # 0 /\ ThQueued(q, k, n + 1, j) ELSE ThQueued(q, k, n, j)
<1> DEFINE r == [q EXCEPT ![i] = Tail(@)]
<1>1. q[i] \in Seq(ThJobs \cup {Pill}) /\ Tail(q[i]) \in Seq(ThJobs \cup {Pill}) OBVIOUS
<1>2. r \in [ThIds -> Seq(ThJobs \cup {Pill})] BY <1>1
<1>3. r[i] = Tail(q[i]) /\ \A k \in ThIds : k # i => r[k] = q[k] OBVIOUS
<1>4. /\ Len(q[i]) \in Nat /\ Len(q[i]) >= 1 /\ Len(r[i]) = Len(q[i]) - 1
      /\ Head(q[i]) = q[i][1] /\ Head(q[i]) \in ThJobs \cup {Pill}
      /\ \A n \in 1..(Len(q[i]) - 1) : r[i][n] = q[i][n + 1] BY <1>1, <1>3
<1> HIDE DEF r
<1>5. ThQueued(q, i, 1, Head(q[i])) BY <1>4 DEF ThQueued
<1>6. ASSUME NEW k \in ThIds, NEW n \in Nat, NEW j \in ThJobs, ThQueued(q, k, n, j)
      PROVE (k = i /\ n = 1 /\ j = Head(q[i])) \/ \E m \in Nat : ThQueued(r, k, m, j)
 <2>1. CASE k # i BY <1>3, <1>6, <2>1 DEF ThQueued
 <2>2. CASE k = i /\ n # 1
  <3>1. n - 1 \in Nat /\ n - 1 \in 1..Len(r[i]) BY <1>4, <1>6, <2>2 DEF ThQueued
  <3>2. r[i][n - 1] = q[i][n - 1 + 1] BY <1>4, <3>1
  <3>3. ThQueued(r, k, n - 1, j) BY <1>6, <2>2, <3>1, <3>2 DEF ThQueued
  <3> QED BY <3>1, <3>3
 <2>3. CASE k = i /\ n = 1 BY <1>4, <1>6, <2>3 DEF ThQueued
 <2> QED BY <2>1, <2>2, <2>3
<1>7. ASSUME NEW k \in ThIds, NEW n \in Nat, NEW j \in ThJobs, ThQueued(r, k, n, j)
      PROVE IF k = i THEN n # 0 /\ ThQueued(q, k, n + 1, j) ELSE ThQueued(q, k, n, j)
 <2>1. CASE k # i BY <1>3, <1>7, <2>1 DEF ThQueued
 <2>2. CASE k = i
  <3>1. n \in 1..(Len(q[i]) - 1) /\ n # 0 /\ n + 1 \in 1..Len(q[i]) BY <1>4, <1>7, <2>2 DEF ThQueued
  <3>2. q[i][n + 1] = j BY <1>4, <1>7, <2>2, <3>1 DEF ThQueued
  <3> QED BY <2>2, <3>1, <3>2 DEF ThQueued
 <2> QED BY <2>1, <2>2
<1> QED BY <1>2, <1>4, <1>5, <1>6, <1>7 DEF r

(* An empty pool: every queue is empty and every thread idle. *)
LEMMA ThInitInv == ThInit => ThInv
<1> SUFFICES ASSUME ThInit PROVE ThInv OBVIOUS
<1>1. ThTypeOK BY DEF ThInit, ThTypeOK
<1>2. \A i \in ThIds : Len(th_q[i]) = 0 BY DEF ThInit
<1>3. \A i \in ThIds, n \in Nat, j \in ThJobs : ~ThQueued(th_q, i, n, j) BY <1>2 DEF ThQueued
<1>4. \A i \in ThIds : th_at[i].job = 0 BY DEF ThInit, Idle
<1>5. \A j \in ThJobs : j # 0 /\ th_runs[j] = 0 BY ThAssumption DEF ThInit
<1>6. th_accepted = {} /\ th_stop = "no" BY DEF ThInit
<1> QED BY <1>1, <1>3, <1>4, <1>5, <1>6 DEF ThInv, ThQueueFresh, ThThreadFresh, ThNoneLost, ThRanAccepted, ThGone

(* Who has a job is running or submitting it. *)
LEMMA ThAtFacts ==
  ASSUME ThTypeOK
  PROVE  /\ 0 \notin ThJobs
         /\ \A k \in ThIds : th_at[k].job \in ThJobs <=> th_at[k].at \in {"run", "push"}
         /\ \A k \in ThIds : th_at[k].job \notin ThJobs => th_at[k] = Idle \/ th_at[k] = ThDead
         /\ \A k \in ThIds : th_at[k].at \in {"run", "push"} => th_at[k] # Idle /\ th_at[k] # ThDead
         /\ Idle.job = 0 /\ ThDead.job = 0 /\ Idle.at = "idle" /\ ThDead.at = "dead" /\ Idle # ThDead
  BY ThAssumption DEF ThTypeOK, Idle, ThDead, ThBusy

(* The push of run_async: of a new job, or of the job a thread holds. *)
LEMMA ThPushKeeps ==
  ASSUME ThInv, NEW x \in ThJobs, ThPush(x),
         x \notin th_accepted, th_runs[x] = 0, x \in th_asked',
         th_asked \subseteq th_asked', th_asked' \subseteq ThJobs,
         \A k \in ThIds : th_at'[k] = th_at[k] \/ (th_at'[k] = Idle /\ th_at[k].job = x),
         \A k \in ThIds : th_at'[k].job # x,
         th_at' \in [ThIds -> {Idle, ThDead} \cup ThBusy],
         th_stop # "gone",
         UNCHANGED <<th_stop, th_pills, th_runs>>
  PROVE ThInv'
<1> DEFINE i == th_turn % ThThreads
<1>1. i \in ThIds /\ th_turn' \in Nat BY ThAssumption DEF ThInv, ThTypeOK, ThIds, ThPush
<1>2. /\ th_q' \in [ThIds -> Seq(ThJobs \cup {Pill})]
      /\ ThQueued(th_q', i, Len(th_q[i]) + 1, x)
      /\ \A k \in ThIds, n \in Nat, j \in ThJobs : ThQueued(th_q, k, n, j) => ThQueued(th_q', k, n, j)
      /\ \A k \in ThIds, n \in Nat, j \in ThJobs :
           ThQueued(th_q', k, n, j) =>
             \/ ThQueued(th_q, k, n, j)
             \/ k = i /\ n = Len(th_q[i]) + 1 /\ j = x
 <2>1. th_q' = [th_q EXCEPT ![i] = Append(@, x)] BY DEF ThPush
 <2>2. th_q \in [ThIds -> Seq(ThJobs \cup {Pill})] /\ x \in ThJobs \cup {Pill} BY DEF ThInv, ThTypeOK
 <2> HIDE DEF i
 <2> QED BY <1>1, <2>1, <2>2, ThPushed
<1> HIDE DEF i
<1>3. th_accepted' = th_accepted \cup {x} BY DEF ThPush
<1>4. ThTypeOK' BY <1>1, <1>2, <1>3 DEF ThInv, ThTypeOK
<1>5. \A k \in ThIds, n \in Nat : ~ThQueued(th_q, k, n, x) BY DEF ThInv, ThQueueFresh
<1>6. ThQueueFresh'
 <2> SUFFICES ASSUME NEW k \in ThIds, NEW n \in Nat, NEW j \in ThJobs, ThQueued(th_q', k, n, j)
              PROVE  /\ j \in th_accepted' /\ th_runs'[j] = 0
                     /\ \A l \in ThIds : th_at'[l].job # j
                     /\ \A l \in ThIds, m \in Nat : ThQueued(th_q', l, m, j) => l = k /\ m = n BY DEF ThQueueFresh
 <2>1. CASE j = x BY <1>2, <1>3, <1>5, <2>1
 <2>2. CASE j # x
  <3>1. ThQueued(th_q, k, n, j) BY <1>2, <2>2
  <3>2. /\ j \in th_accepted /\ th_runs[j] = 0
        /\ \A l \in ThIds : th_at[l].job # j
        /\ \A l \in ThIds, m \in Nat : ThQueued(th_q, l, m, j) => l = k /\ m = n BY <3>1 DEF ThInv, ThQueueFresh
  <3>3. \A l \in ThIds : th_at'[l].job # j BY <3>2, ThAtFacts DEF ThInv
  <3> QED BY <1>2, <1>3, <2>2, <3>2, <3>3
 <2> QED BY <2>1, <2>2
<1>7. ThThreadFresh'
 <2> SUFFICES ASSUME NEW k \in ThIds, NEW j \in ThJobs, th_at'[k].job = j
              PROVE  /\ j \in th_asked' /\ th_runs'[j] = 0
                     /\ j \in th_accepted' <=> th_at'[k].at = "run"
                     /\ \A l \in ThIds : th_at'[l].job = j => l = k BY DEF ThThreadFresh
 <2>1. j # x /\ \A l \in ThIds : th_at'[l].job = j => th_at'[l] = th_at[l] BY ThAtFacts DEF ThInv
 <2> QED BY <1>3, <2>1 DEF ThInv, ThThreadFresh
<1>8. ThNoneLost'
 <2> SUFFICES ASSUME NEW j \in th_accepted'
              PROVE  \/ th_runs'[j] = 1
                     \/ \E k \in ThIds : th_at'[k].job = j
                     \/ \E k \in ThIds, n \in Nat : ThQueued(th_q', k, n, j) BY DEF ThNoneLost
 <2>1. CASE j = x
  <3>1. Len(th_q[i]) + 1 \in Nat BY <1>1 DEF ThInv, ThTypeOK
  <3> QED BY <1>1, <1>2, <2>1, <3>1
 <2>2. CASE j # x
  <3>1. j \in th_accepted /\ j \in ThJobs BY <1>3, <2>2 DEF ThInv, ThTypeOK
  <3>2. CASE \E k \in ThIds : th_at[k].job = j BY <2>2, <3>2
  <3>3. CASE \E k \in ThIds, n \in Nat : ThQueued(th_q, k, n, j) BY <1>2, <3>1, <3>3
  <3>4. CASE th_runs[j] = 1 BY <3>4
  <3> QED BY <3>1, <3>2, <3>3, <3>4 DEF ThInv, ThNoneLost
 <2> QED BY <2>1, <2>2
<1>9. ThRanAccepted' /\ ThGone' BY <1>3 DEF ThInv, ThRanAccepted, ThGone
<1> QED BY <1>4, <1>6, <1>7, <1>8, <1>9 DEF ThInv

(* A thread takes the head of its queue, or of another one. *)
LEMMA ThTakeKeeps ==
  ASSUME ThInv, NEW i \in ThIds, NEW p \in ThIds, th_at[i] = Idle, th_q[p] # <<>>,
         th_at' = [th_at EXCEPT ![i] = IF Head(th_q[p]) = Pill THEN [job |-> 0, at |-> "dead"]
                                       ELSE [job |-> Head(th_q[p]), at |-> "run"]],
         th_q' = [th_q EXCEPT ![p] = Tail(@)],
         UNCHANGED <<th_turn, th_stop, th_pills, th_asked, th_accepted, th_runs>>
  PROVE ThInv'
<1> DEFINE h == Head(th_q[p])
<1>1. /\ th_q' \in [ThIds -> Seq(ThJobs \cup {Pill})]
      /\ h \in ThJobs \cup {Pill}
      /\ ThQueued(th_q, p, 1, h)
      /\ \A k \in ThIds, n \in Nat, j \in ThJobs :
           ThQueued(th_q, k, n, j) =>
             \/ k = p /\ n = 1 /\ j = h
             \/ \E m \in Nat : ThQueued(th_q', k, m, j)
      /\ \A k \in ThIds, n \in Nat, j \in ThJobs :
           ThQueued(th_q', k, n, j) =>
             IF k = p THEN n # 0 /\ ThQueued(th_q, k, n + 1, j) ELSE ThQueued(th_q, k, n, j)
  BY ThPopped DEF ThInv, ThTypeOK
<1>2. /\ th_at' \in [ThIds -> {Idle, ThDead} \cup ThBusy]
      /\ th_at'[i].job = h
      /\ h \in ThJobs => th_at'[i].at = "run"
      /\ \A k \in ThIds : k # i => th_at'[k] = th_at[k]
 <2>1. CASE h = Pill BY <2>1, ThAssumption DEF ThInv, ThTypeOK, ThDead, ThBusy, Pill
 <2>2. CASE h # Pill BY <1>1, <2>2 DEF ThInv, ThTypeOK, ThDead, ThBusy
 <2> QED BY <2>1, <2>2
<1> HIDE DEF h
<1>11. ASSUME NEW k \in ThIds, NEW n \in Nat, NEW j \in ThJobs, ThQueued(th_q', k, n, j)
       PROVE  /\ k = p => n # 0 /\ n + 1 \in Nat /\ ThQueued(th_q, k, n + 1, j)
              /\ k # p => ThQueued(th_q, k, n, j)
 <2>1. n + 1 \in Nat OBVIOUS
 <2>2. IF k = p THEN n # 0 /\ ThQueued(th_q, k, n + 1, j) ELSE ThQueued(th_q, k, n, j) BY <1>1, <1>11
 <2> QED BY <2>1, <2>2
<1>3. ThTypeOK' BY <1>1, <1>2 DEF ThInv, ThTypeOK
<1>4. ~(th_stop = "gone") /\ th_at[i].job \notin ThJobs BY ThAtFacts DEF ThInv, ThGone
<1>5. h \in ThJobs => /\ h \in th_accepted /\ h \in th_asked /\ th_runs[h] = 0
                      /\ \A k \in ThIds : th_at[k].job # h
                      /\ \A k \in ThIds, m \in Nat : ThQueued(th_q, k, m, h) => k = p /\ m = 1
  BY <1>1 DEF ThInv, ThQueueFresh, ThTypeOK
<1>6. \A k \in ThIds, n \in Nat : h \in ThJobs => ~ThQueued(th_q', k, n, h)
 <2> SUFFICES ASSUME NEW k \in ThIds, NEW n \in Nat, h \in ThJobs, ThQueued(th_q', k, n, h) PROVE FALSE OBVIOUS
 <2>1. CASE k = p
  <3>1. n # 0 /\ n + 1 \in Nat /\ ThQueued(th_q, k, n + 1, h) BY <1>11, <2>1
  <3>2. n + 1 = 1 BY <1>5, <3>1
  <3> QED BY <3>1, <3>2
 <2>2. CASE k # p BY <1>5, <1>11, <2>2
 <2> QED BY <2>1, <2>2
<1>7. ThQueueFresh'
 <2> SUFFICES ASSUME NEW k \in ThIds, NEW n \in Nat, NEW j \in ThJobs, ThQueued(th_q', k, n, j)
              PROVE  /\ j \in th_accepted' /\ th_runs'[j] = 0
                     /\ \A l \in ThIds : th_at'[l].job # j
                     /\ \A l \in ThIds, m \in Nat : ThQueued(th_q', l, m, j) => l = k /\ m = n BY DEF ThQueueFresh
 <2>1. j # h BY <1>6
 <2>2. PICK o \in Nat : ThQueued(th_q, k, o, j) /\ o = IF k = p THEN n + 1 ELSE n BY <1>11
 <2>3. /\ j \in th_accepted /\ th_runs[j] = 0
       /\ \A l \in ThIds : th_at[l].job # j
       /\ \A l \in ThIds, m \in Nat : ThQueued(th_q, l, m, j) => l = k /\ m = o BY <2>2 DEF ThInv, ThQueueFresh
 <2>4. \A l \in ThIds : th_at'[l].job # j BY <1>2, <2>1, <2>3
 <2>5. ASSUME NEW l \in ThIds, NEW m \in Nat, ThQueued(th_q', l, m, j) PROVE l = k /\ m = n
  <3>1. CASE l = p
   <4>1. ThQueued(th_q, l, m + 1, j) /\ m + 1 \in Nat BY <1>11, <2>5, <3>1
   <4>2. l = k /\ m + 1 = o BY <2>3, <4>1
   <4> QED BY <2>2, <3>1, <4>2
  <3>2. CASE l # p
   <4>1. ThQueued(th_q, l, m, j) BY <1>11, <2>5, <3>2
   <4>2. l = k /\ m = o BY <2>3, <4>1
   <4> QED BY <2>2, <3>2, <4>2
  <3> QED BY <3>1, <3>2
 <2> QED BY <2>3, <2>4, <2>5
<1>8. ThThreadFresh' BY <1>2, <1>4, <1>5 DEF ThInv, ThThreadFresh
<1>9. ThNoneLost'
 <2> SUFFICES ASSUME NEW j \in th_accepted
              PROVE  \/ th_runs[j] = 1
                     \/ \E k \in ThIds : th_at'[k].job = j
                     \/ \E k \in ThIds, n \in Nat : ThQueued(th_q', k, n, j) BY DEF ThNoneLost
 <2>1. j \in ThJobs BY DEF ThInv, ThTypeOK
 <2>2. CASE \E k \in ThIds : th_at[k].job = j BY <1>2, <1>4, <2>1, <2>2
 <2>3. CASE \E k \in ThIds, n \in Nat : ThQueued(th_q, k, n, j) BY <1>1, <1>2, <2>1, <2>3
 <2> QED BY <2>1, <2>2, <2>3 DEF ThInv, ThNoneLost
<1>10. ThRanAccepted' /\ ThGone' BY <1>4 DEF ThInv, ThRanAccepted, ThGone
<1> QED BY <1>3, <1>7, <1>8, <1>9, <1>10 DEF ThInv

(* A thread runs its job, and may then hold the job that this one submits. *)
LEMMA ThRunKeeps ==
  ASSUME ThInv, NEW i \in ThIds, ThRunJob(i)
  PROVE ThInv'
<1> DEFINE x == th_at[i].job
           c == ThChild[x]
<1>1. th_at[i].at = "run" /\ x \in ThJobs /\ c \in ThJobs \cup {0} /\ 0 \notin ThJobs
  BY ThAtFacts, ThAssumption DEF ThInv, ThRunJob
<1>2. /\ x \in th_accepted /\ x \in th_asked /\ th_runs[x] = 0
      /\ \A k \in ThIds : th_at[k].job = x => k = i BY <1>1 DEF ThInv, ThThreadFresh
<1>3. /\ th_runs' \in [ThJobs -> {0, 1}] /\ th_runs'[x] = 1
      /\ \A j \in ThJobs : j # x => th_runs'[j] = th_runs[j] BY <1>1, <1>2 DEF ThRunJob, ThInv, ThTypeOK
<1>4. \/ /\ th_at' = [th_at EXCEPT ![i] = Idle]
         /\ th_asked \subseteq th_asked' /\ th_asked' \subseteq ThJobs
      \/ /\ th_at' = [th_at EXCEPT ![i] = [job |-> c, at |-> "push"]]
         /\ c \in ThJobs \ th_asked /\ th_asked' = th_asked \cup {c} BY <1>1 DEF ThRunJob, ThInv, ThTypeOK
<1>5. /\ th_at' \in [ThIds -> {Idle, ThDead} \cup ThBusy]
      /\ \A k \in ThIds : k # i => th_at'[k] = th_at[k]
      /\ th_at'[i].job = 0 \/ (th_at'[i].job = c /\ th_at'[i].at = "push" /\ c \in ThJobs \ th_asked /\ c \in th_asked')
      /\ th_asked \subseteq th_asked' /\ th_asked' \subseteq ThJobs
 <2>1. CASE th_at' = [th_at EXCEPT ![i] = Idle] /\ th_asked \subseteq th_asked' /\ th_asked' \subseteq ThJobs
   BY <2>1 DEF ThInv, ThTypeOK, Idle
 <2>2. CASE /\ th_at' = [th_at EXCEPT ![i] = [job |-> c, at |-> "push"]]
            /\ c \in ThJobs \ th_asked /\ th_asked' = th_asked \cup {c} BY <2>2 DEF ThInv, ThTypeOK, ThBusy
 <2> QED BY <1>4, <2>1, <2>2
<1>6. UNCHANGED <<th_q, th_turn, th_stop, th_pills, th_accepted>> BY DEF ThRunJob
<1> HIDE DEF x, c
<1>7. ThTypeOK' BY <1>3, <1>5, <1>6 DEF ThInv, ThTypeOK
<1>8. th_stop # "gone" BY <1>1, ThAtFacts DEF ThInv, ThGone
<1>9. c \in ThJobs \ th_asked => /\ c \notin th_accepted /\ th_runs[c] = 0 /\ c # x
                                 /\ \A k \in ThIds : th_at[k].job # c
  BY <1>2 DEF ThInv, ThTypeOK, ThRanAccepted, ThThreadFresh
<1>10. ThQueueFresh'
 <2> SUFFICES ASSUME NEW k \in ThIds, NEW n \in Nat, NEW j \in ThJobs, ThQueued(th_q, k, n, j)
              PROVE  /\ j \in th_accepted /\ th_runs'[j] = 0
                     /\ \A l \in ThIds : th_at'[l].job # j
                     /\ \A l \in ThIds, m \in Nat : ThQueued(th_q, l, m, j) => l = k /\ m = n BY <1>6 DEF ThQueueFresh
 <2>1. /\ j \in th_accepted /\ th_runs[j] = 0
       /\ \A l \in ThIds : th_at[l].job # j
       /\ \A l \in ThIds, m \in Nat : ThQueued(th_q, l, m, j) => l = k /\ m = n BY DEF ThInv, ThQueueFresh
 <2>2. j # x /\ j # 0 /\ (c \in ThJobs \ th_asked => j # c) BY <1>1, <1>9, <2>1 DEF x
 <2> QED BY <1>3, <1>5, <2>1, <2>2
<1>11. ThThreadFresh'
 <2> SUFFICES ASSUME NEW k \in ThIds, NEW j \in ThJobs, th_at'[k].job = j
              PROVE  /\ j \in th_asked' /\ th_runs'[j] = 0
                     /\ j \in th_accepted <=> th_at'[k].at = "run"
                     /\ \A l \in ThIds : th_at'[l].job = j => l = k BY <1>6 DEF ThThreadFresh
 <2>1. CASE k = i BY <1>1, <1>3, <1>5, <1>9, <2>1
 <2>2. CASE k # i
  <3>1. th_at[k].job = j /\ th_at'[k] = th_at[k] /\ j # x BY <1>2, <1>5, <2>2
  <3>2. /\ j \in th_asked /\ th_runs[j] = 0 /\ (j \in th_accepted <=> th_at[k].at = "run")
        /\ \A l \in ThIds : th_at[l].job = j => l = k BY <3>1 DEF ThInv, ThThreadFresh
  <3>3. th_at'[i].job # j BY <1>1, <1>5, <3>2
  <3> QED BY <1>3, <1>5, <3>1, <3>2, <3>3
 <2> QED BY <2>1, <2>2
<1>12. ThNoneLost'
 <2> SUFFICES ASSUME NEW j \in th_accepted
              PROVE  \/ th_runs'[j] = 1
                     \/ \E k \in ThIds : th_at'[k].job = j
                     \/ \E k \in ThIds, n \in Nat : ThQueued(th_q, k, n, j) BY <1>6 DEF ThNoneLost
 <2>1. j \in ThJobs BY DEF ThInv, ThTypeOK
 <2>2. CASE j = x BY <1>3, <2>2
 <2>3. CASE j # x BY <1>3, <1>5, <2>1, <2>3 DEF ThInv, ThNoneLost, x
 <2> QED BY <2>2, <2>3
<1>13. ThRanAccepted' BY <1>2, <1>3, <1>6 DEF ThInv, ThRanAccepted
<1>14. ThGone' BY <1>6, <1>8 DEF ThGone
<1> QED BY <1>7, <1>10, <1>11, <1>12, <1>13, <1>14 DEF ThInv

(* ~ThreadPool runs what the threads left, once they are all dead: no job is with a
   thread then, and the queues hold every job that has not run. *)
LEMMA ThDrainKeeps ==
  ASSUME ThInv, ThDrain
  PROVE ThInv'
<1>1. ThTypeOK /\ 0 \notin ThJobs /\ \A i \in ThIds : th_at[i] = ThDead /\ th_at[i].job = 0
 <2>1. ThTypeOK BY DEF ThInv
 <2>2. \A i \in ThIds : th_at[i].at = "dead" BY DEF ThDrain
 <2> QED BY <2>1, <2>2, ThAtFacts
<1>2. /\ \A j \in ThJobs : j \in ThLeft(th_q) <=> \E i \in ThIds, n \in Nat : ThQueued(th_q, i, n, j)
 <2>1. \A i \in ThIds : th_q[i] \in Seq(ThJobs \cup {Pill}) /\ Len(th_q[i]) \in Nat BY <1>1 DEF ThTypeOK
 <2>2. ASSUME NEW j \in ThJobs, j \in ThLeft(th_q)
       PROVE \E i \in ThIds, n \in Nat : ThQueued(th_q, i, n, j) BY <2>1, <2>2 DEF ThLeft, ThQueued
 <2>3. ASSUME NEW j \in ThJobs, NEW i \in ThIds, NEW n \in Nat, ThQueued(th_q, i, n, j)
       PROVE j \in ThLeft(th_q) BY <2>3 DEF ThLeft, ThQueued
 <2> QED BY <2>2, <2>3
<1>3. \A j \in ThJobs : j \in ThLeft(th_q) => j \in th_accepted /\ th_runs[j] = 0 BY <1>2 DEF ThInv, ThQueueFresh
<1>4. \A j \in th_accepted : j \in ThJobs /\ (j \in ThLeft(th_q) \/ th_runs[j] = 1)
 <2> SUFFICES ASSUME NEW j \in th_accepted PROVE j \in ThJobs /\ (j \in ThLeft(th_q) \/ th_runs[j] = 1) OBVIOUS
 <2>1. j \in ThJobs BY <1>1 DEF ThTypeOK
 <2>2. \A i \in ThIds : th_at[i].job # j BY <1>1, <2>1
 <2>3. th_runs[j] = 1 \/ \E i \in ThIds, n \in Nat : ThQueued(th_q, i, n, j) BY <2>2 DEF ThInv, ThNoneLost
 <2> QED BY <1>2, <2>1, <2>3
<1>5. /\ \A j \in ThJobs : th_runs'[j] = IF j \in ThLeft(th_q) THEN th_runs[j] + 1 ELSE th_runs[j]
      /\ th_runs' = [j \in ThJobs |-> th_runs'[j]] BY DEF ThDrain
<1>6. /\ \A j \in th_accepted : th_runs'[j] = 1
      /\ \A j \in ThJobs \ th_accepted : th_runs'[j] = 0
 <2>1. \A j \in ThJobs : th_runs[j] \in {0, 1} /\ (th_runs[j] = 1 => j \in th_accepted)
   BY <1>1 DEF ThInv, ThTypeOK, ThRanAccepted
 <2> QED BY <1>3, <1>4, <1>5, <2>1
<1>7. th_runs' \in [ThJobs -> {0, 1}]
 <2>1. \A j \in ThJobs : th_runs'[j] \in {0, 1} BY <1>6
 <2> DEFINE f == [j \in ThJobs |-> th_runs'[j]]
 <2>2. f \in [ThJobs -> {0, 1}] BY <2>1
 <2>3. th_runs' = f BY <1>5
 <2> HIDE DEF f
 <2> QED BY <2>2, <2>3
<1>8. /\ th_at' = th_at /\ th_turn' = th_turn /\ th_pills' = th_pills /\ th_accepted' = th_accepted
      /\ th_stop' = "gone" /\ th_q' = [i \in ThIds |-> <<>>] BY DEF ThDrain
<1>9. th_asked \subseteq th_asked' /\ th_asked' \subseteq ThJobs
 <2> DEFINE new == {ThChild[j] : j \in ThLeft(th_q) \cap ThJobs} \ {0}
 <2>1. th_asked' = th_asked \cup new /\ th_asked \subseteq ThJobs BY <1>1 DEF ThDrain, ThTypeOK
 <2>2. new \subseteq ThJobs BY ThAssumption
 <2> HIDE DEF new
 <2> QED BY <2>1, <2>2
<1>10. th_q' \in [ThIds -> Seq(ThJobs \cup {Pill})] BY <1>8
<1>11. ThTypeOK' BY <1>1, <1>7, <1>8, <1>9, <1>10 DEF ThTypeOK
<1>12. \A i \in ThIds : th_q'[i] = <<>> /\ Len(th_q'[i]) = 0 BY <1>8
<1>13. \A i \in ThIds, n \in Nat, j \in ThJobs : ~ThQueued(th_q', i, n, j) BY <1>12 DEF ThQueued
<1>14. ThQueueFresh' /\ ThThreadFresh' BY <1>1, <1>8, <1>13 DEF ThQueueFresh, ThThreadFresh
<1>15. ThNoneLost' /\ ThRanAccepted' /\ ThGone' BY <1>1, <1>6, <1>8, <1>12 DEF ThNoneLost, ThRanAccepted, ThGone
<1> QED BY <1>11, <1>14, <1>15 DEF ThInv

(* run_async, run_thread and ~ThreadPool keep the invariant. *)
LEMMA ThStepInv ==
  ASSUME ThInv, [ThNext]_threadVars
  PROVE ThInv'
<1>1. ThTypeOK BY DEF ThInv
<1>2. ASSUME NEW x \in ThJobs, ThRunAsync(x) PROVE ThInv'
 <2>1. x \notin th_asked /\ ThPush(x) /\ th_stop = "no" /\ th_at' = th_at BY <1>2 DEF ThRunAsync
 <2>2. x \notin th_accepted /\ th_runs[x] = 0 /\ \A k \in ThIds : th_at[k].job # x
   BY <1>1, <2>1 DEF ThInv, ThTypeOK, ThRanAccepted, ThThreadFresh
 <2>3. x \in th_asked' /\ th_asked \subseteq th_asked' /\ th_asked' \subseteq ThJobs
   BY <1>1, <1>2 DEF ThRunAsync, ThTypeOK
 <2>4. th_at' \in [ThIds -> {Idle, ThDead} \cup ThBusy] /\ th_stop # "gone"
       /\ UNCHANGED <<th_stop, th_pills, th_runs>> BY <1>1, <1>2, <2>1 DEF ThRunAsync, ThTypeOK
 <2>5. /\ \A k \in ThIds : th_at'[k] = th_at[k] \/ (th_at'[k] = Idle /\ th_at[k].job = x)
       /\ \A k \in ThIds : th_at'[k].job # x BY <2>1, <2>2
 <2> QED BY <2>1, <2>2, <2>3, <2>4, <2>5, ThPushKeeps
<1>3. ASSUME NEW i \in ThIds, ThPop(i) PROVE ThInv' BY <1>3, ThTakeKeeps DEF ThPop
<1>4. ASSUME NEW i \in ThIds, ThRunJob(i) PROVE ThInv' BY <1>4, ThRunKeeps
<1>5. ASSUME NEW i \in ThIds, ThChildPush(i) PROVE ThInv'
 <2> DEFINE x == th_at[i].job
 <2>1. th_at[i].at = "push" /\ x \in ThJobs /\ th_at[i] # ThDead BY <1>1, <1>5, ThAtFacts DEF ThChildPush
 <2>2. x \in th_asked /\ x \notin th_accepted /\ th_runs[x] = 0 /\ \A k \in ThIds : th_at[k].job = x => k = i
   BY <2>1 DEF ThInv, ThThreadFresh
 <2>3. th_asked' = th_asked /\ th_asked \subseteq ThJobs BY <1>1, <1>5 DEF ThChildPush, ThTypeOK
 <2>4. /\ th_at' \in [ThIds -> {Idle, ThDead} \cup ThBusy] /\ th_at'[i] = Idle
       /\ \A k \in ThIds : k # i => th_at'[k] = th_at[k] BY <1>1, <1>5 DEF ThChildPush, ThTypeOK
 <2>5. \A k \in ThIds : th_at'[k].job # x BY <1>1, <2>1, <2>2, <2>4, ThAtFacts
 <2>6. th_stop # "gone" /\ ThPush(x) /\ UNCHANGED <<th_stop, th_pills, th_runs>>
   BY <1>5, <2>1 DEF ThChildPush, ThInv, ThGone
 <2>7. \A k \in ThIds : th_at'[k] = th_at[k] \/ (th_at'[k] = Idle /\ th_at[k].job = x)
  <3> SUFFICES ASSUME NEW k \in ThIds PROVE th_at'[k] = th_at[k] \/ (th_at'[k] = Idle /\ th_at[k].job = x) OBVIOUS
  <3>1. CASE k = i BY <2>4, <3>1
  <3>2. CASE k # i BY <2>4, <3>2
  <3> QED BY <3>1, <3>2
 <2> HIDE DEF x
 <2> QED BY <2>1, <2>2, <2>3, <2>4, <2>5, <2>6, <2>7, ThPushKeeps
<1>6. ASSUME NEW i \in ThIds, ThPill(i) PROVE ThInv'
 <2>1. th_q' = [th_q EXCEPT ![i] = Append(@, Pill)] /\ th_stop = "stopping"
       /\ th_pills' = th_pills \cup {i}
       /\ UNCHANGED <<th_at, th_turn, th_stop, th_asked, th_accepted, th_runs>> BY <1>6 DEF ThPill
 <2>2. th_q \in [ThIds -> Seq(ThJobs \cup {Pill})] /\ Pill \in ThJobs \cup {Pill} /\ Pill \notin ThJobs
   BY <1>1, ThAssumption DEF ThTypeOK, Pill
 <2>3. /\ th_q' \in [ThIds -> Seq(ThJobs \cup {Pill})]
       /\ \A k \in ThIds, n \in Nat, j \in ThJobs : ThQueued(th_q, k, n, j) => ThQueued(th_q', k, n, j)
       /\ \A k \in ThIds, n \in Nat, j \in ThJobs :
            ThQueued(th_q', k, n, j) =>
              \/ ThQueued(th_q, k, n, j)
              \/ k = i /\ n = Len(th_q[i]) + 1 /\ j = Pill BY <2>1, <2>2, ThPushed
 <2>4. \A k \in ThIds, n \in Nat, j \in ThJobs : ThQueued(th_q', k, n, j) => ThQueued(th_q, k, n, j) BY <2>2, <2>3
 <2>5. ThTypeOK' BY <1>1, <2>1, <2>3 DEF ThTypeOK
 <2>6. ThQueueFresh'
  <3> SUFFICES ASSUME NEW k \in ThIds, NEW n \in Nat, NEW j \in ThJobs, ThQueued(th_q', k, n, j)
               PROVE  /\ j \in th_accepted /\ th_runs[j] = 0
                      /\ \A l \in ThIds : th_at[l].job # j
                      /\ \A l \in ThIds, m \in Nat : ThQueued(th_q', l, m, j) => l = k /\ m = n BY <2>1 DEF ThQueueFresh
  <3>1. ThQueued(th_q, k, n, j) BY <2>4
  <3>2. /\ j \in th_accepted /\ th_runs[j] = 0
        /\ \A l \in ThIds : th_at[l].job # j
        /\ \A l \in ThIds, m \in Nat : ThQueued(th_q, l, m, j) => l = k /\ m = n BY <3>1 DEF ThInv, ThQueueFresh
  <3> QED BY <2>4, <3>2
 <2>7. ThThreadFresh' /\ ThRanAccepted' /\ ThGone' BY <2>1 DEF ThInv, ThThreadFresh, ThRanAccepted, ThGone
 <2>8. ThNoneLost' BY <1>1, <2>1, <2>3 DEF ThInv, ThNoneLost, ThTypeOK
 <2> QED BY <2>5, <2>6, <2>7, <2>8 DEF ThInv
<1>7. ASSUME NEW i \in ThIds, NEW p \in ThIds, ThSteal(i, p) PROVE ThInv' BY <1>7, ThTakeKeeps DEF ThSteal
<1>8. CASE ThStop BY <1>8 DEF ThStop, ThInv, ThTypeOK, ThQueueFresh, ThThreadFresh, ThNoneLost, ThRanAccepted, ThGone
<1>9. CASE ThDrain BY <1>9, ThDrainKeeps
<1>10. CASE UNCHANGED threadVars
  BY <1>10 DEF threadVars, ThInv, ThTypeOK, ThQueueFresh, ThThreadFresh, ThNoneLost, ThRanAccepted, ThGone
<1> QED BY <1>2, <1>3, <1>4, <1>5, <1>6, <1>7, <1>8, <1>9, <1>10 DEF ThNext

(* With the threads dead and the queues empty an accepted job has run. *)
LEMMA ThInvOnce == ThInv => ThRunsOnce
<1> SUFFICES ASSUME ThInv PROVE ThRunsOnce OBVIOUS
<1>1. \A j \in ThJobs : th_runs[j] <= 1 BY DEF ThInv, ThTypeOK
<1>2. ASSUME th_stop = "gone", NEW j \in th_accepted PROVE th_runs[j] = 1
 <2>1. \A i \in ThIds : th_at[i] = ThDead /\ th_q[i] = <<>> BY <1>2 DEF ThInv, ThGone
 <2>2. j \in ThJobs /\ \A i \in ThIds : th_at[i].job # j BY <2>1, ThAtFacts DEF ThInv, ThTypeOK
 <2>3. \A i \in ThIds : Len(th_q[i]) = 0 BY <2>1
 <2>4. \A i \in ThIds, n \in Nat : ~ThQueued(th_q, i, n, j) BY <2>3 DEF ThQueued
 <2> QED BY <2>2, <2>4 DEF ThInv, ThNoneLost
<1> QED BY <1>1, <1>2 DEF ThRunsOnce

(* A job that ThreadPool::run_async accepted runs at most once, and has run when
   ~ThreadPool returns, whether a thread took it from its own queue, another one stole
   it, or it was left behind a death pill: for every number of threads and jobs and
   every schedule. *)
THEOREM ThRunsOnceHolds == ThSpec => []ThRunsOnce
<1>1. ThInit => ThInv BY ThInitInv
<1>2. ThInv /\ [ThNext]_threadVars => ThInv' BY ThStepInv
<1>3. ThInv => ThRunsOnce BY ThInvOnce
<1> QED BY <1>1, <1>2, <1>3, PTL DEF ThSpec

-----
(* RPC.  Of RpInStep, the framing depends on where every call of the client is: a reply
   in in_ must find its future in pending_fu_, which nothing but this reply or a close
   may have taken out, so that no call is in two places at once.  The counts and the
   poll set depend on the life of a connection and on descriptors that are not given
   twice. *)

(* The calls in a sequence of requests and in one of replies. *)
RpIn(s) == {s[i] : i \in 1 .. Len(s)}
RpInjective(s) == \A i, j \in 1 .. Len(s) : s[i] = s[j] => i = j
RpHeaders(s) == {i \in 1 .. Len(s) : s[i].part = "header"}
RpReplied(s) == {s[i].xid : i \in RpHeaders(s)}
RpOneHeader(s) == \A i, j \in RpHeaders(s) : s[i].xid = s[j].xid => i = j

(* Headers and bodies take turns, and a body is last. *)
RpTurns(s) ==
  /\ \A i \in 1 .. Len(s) - 1 : s[i].part # s[i + 1].part
  /\ Len(s) > 0 => s[Len(s)].part = "body"

(* A sequence of whole replies. *)
RpWhole(s) == RpTurns(s) /\ (Len(s) > 0 => s[1].part = "header")

RpPart == [part : {"header", "body"}, xid : RpXids, err : {"none", "ENOENT"}]
RpClient == [status : {"NEW", "CONNECTED", "CLOSED"}, lock : RpXids \cup {0}, pend : SUBSET RpXids,
             out : Seq(RpXids), in : Seq(RpPart), mode : {"none", "read", "both"}, edge : BOOLEAN, lost : BOOLEAN]
RpConn == [status : {"NONE", "NEW", "CONNECTED", "DROPPED", "CLOSED"}, waiting : BOOLEAN, refs : Int, busy : SUBSET RpXids,
           open : BOOLEAN, fd : Nat]
RpServer == [status : {"RUNNING", "STOPPING", "STOPPED", "GONE", "EXITED"}, turn : BOOLEAN,
             sconns : SUBSET RpConns, toclose : SUBSET RpConns]
RpState == {"idle", "make", "check", "write", "null", "waiting", "expired", "timed out", "end"}
RpAfter == {"waiting", "expired", "timed out", "end"}

RpTypeOK ==
  /\ rp_cl \in RpClient
  /\ rp_call \in [RpXids -> RpState]
  /\ rp_close \in [RpClosers -> {"run", "mark", "fail", "end"}]
  /\ rp_up \in Seq(RpXids) /\ rp_down \in Seq(RpPart)
  /\ rp_sv \in RpServer
  /\ rp_sc \in [RpConns -> RpConn]
  /\ rp_poll \in [set : SUBSET RpConns, removing : SUBSET RpConns, watched : [RpConns -> Nat]]

(* No call is in two of these sets. *)
RpApart(U, O, B, D, I) ==
  /\ \A x \in U : x \notin O /\ x \notin B /\ x \notin D /\ x \notin I
  /\ \A x \in O : x \notin B /\ x \notin D /\ x \notin I
  /\ \A x \in B : x \notin D /\ x \notin I
  /\ \A x \in D : x \notin I

(* What is under way has been sent and is awaited. *)
RpAwaits(A, pend, call) ==
  /\ \A x \in A : x \in pend /\ call[x] \in RpAfter
  /\ \A x \in RpXids : call[x] \in {"check", "write"} => x \in pend

(* The calls of a client that is not closed: each is in out_, on the wire, in work, or
   answered, and in pending_fu_ as long as it is. *)
RpTalk(up, out, busy, down, in, pend, call) ==
  /\ RpInjective(out) /\ RpOneHeader(down) /\ RpOneHeader(in) /\ RpWhole(down) /\ RpWhole(in)
  /\ RpApart(RpIn(up), RpIn(out), busy, RpReplied(down), RpReplied(in))
  /\ RpAwaits(RpIn(up) \cup RpIn(out) \cup busy \cup RpReplied(down) \cup RpReplied(in), pend, call)

RpClientOK ==
  /\ RpTurns(rp_cl.in)
  /\ rp_cl.lost => rp_cl.status = "CLOSED"
  /\ \A th \in RpClosers : rp_close[th] \in {"fail", "end"} => rp_cl.status = "CLOSED"
  /\ rp_cl.status # "CLOSED" =>
       RpTalk(rp_up, rp_cl.out, rp_sc[RpMine].busy, rp_down, rp_cl.in, rp_cl.pend, rp_call)

(* The requests on their way to the server and the ones in work. *)
RpRequestsOK ==
  /\ RpInjective(rp_up)
  /\ \A x \in RpIn(rp_up) : x \notin rp_sc[RpMine].busy
  /\ rp_cl.status = "NEW" => rp_sc[RpMine].status = "NEW" /\ ~rp_sc[RpMine].waiting

(* The life of a connection at the server. *)
RpConnOK(c) ==
  /\ c \in rp_sv.sconns <=> rp_sc[c].status = "CONNECTED"
  /\ rp_sc[c].open <=> rp_sc[c].status \in {"CONNECTED", "DROPPED"}
  /\ c \in rp_poll.set => rp_sc[c].open
  /\ rp_sc[c].waiting => rp_sc[c].status = "NEW"
  /\ rp_sc[c].status = "NEW" => c \notin rp_poll.removing /\ rp_sc[c].busy = {}
  /\ IsFiniteSet(rp_sc[c].busy)
  /\ rp_sc[c].open \/ c \in rp_poll.removing => rp_sc[c].fd \in RpConns
  /\ c \in rp_poll.set => c \notin rp_poll.removing
  /\ rp_sc[c].refs = (IF c \in rp_sv.sconns THEN 1 ELSE 0)
                     + (IF c \in rp_poll.set \/ c \in rp_poll.removing THEN 1 ELSE 0)
                     + Cardinality(rp_sc[c].busy)

RpServerOK ==
  /\ \A c \in RpConns : RpConnOK(c)
  /\ \A c, d \in RpConns : rp_sc[c].open /\ rp_sc[d].open /\ rp_sc[c].fd = rp_sc[d].fd => c = d
  /\ \A c \in rp_poll.set : rp_poll.watched[rp_sc[c].fd] = c

(* The inductive invariant. *)
RpInv == RpTypeOK /\ RpClientOK /\ RpRequestsOK /\ RpServerOK

(* Appending a request. *)
LEMMA RpInAppend ==
  ASSUME NEW S, NEW s \in Seq(S), NEW x \in S
  PROVE  /\ RpIn(Append(s, x)) = RpIn(s) \cup {x}
         /\ RpInjective(s) /\ x \notin RpIn(s) => RpInjective(Append(s, x))
<1>1. /\ Append(s, x) \in Seq(S) /\ Len(Append(s, x)) = Len(s) + 1 /\ Len(s) \in Nat
      /\ \A i \in 1 .. Len(s) : Append(s, x)[i] = s[i]
      /\ Append(s, x)[Len(s) + 1] = x OBVIOUS
<1> DEFINE a == Append(s, x)
<1> HIDE DEF a
<1>2. \A i \in 1 .. Len(a) : i \in 1 .. Len(s) \/ i = Len(s) + 1 BY <1>1 DEF a
<1>3. RpIn(a) = RpIn(s) \cup {x} BY <1>1, <1>2 DEF RpIn, a
<1>4. ASSUME RpInjective(s), x \notin RpIn(s) PROVE RpInjective(a) BY <1>1, <1>2, <1>4 DEF RpIn, RpInjective, a
<1> QED BY <1>3, <1>4 DEF a

(* Taking the first request. *)
LEMMA RpInTail ==
  ASSUME NEW S, NEW s \in Seq(S), s # <<>>, RpInjective(s)
  PROVE  /\ Tail(s) \in Seq(S) /\ RpInjective(Tail(s))
         /\ Head(s) \in S /\ Head(s) \in RpIn(s)
         /\ \A x : x \in RpIn(Tail(s)) <=> x \in RpIn(s) /\ x # Head(s)
<1>1. /\ Head(s) \in S /\ Tail(s) \in Seq(S) /\ Len(Tail(s)) = Len(s) - 1
      /\ Head(s) = s[1] /\ Len(s) \in Nat /\ Len(s) > 0
      /\ \A i \in 1 .. Len(s) - 1 : Tail(s)[i] = s[i + 1] BY HeadTailProperties, EmptySeq
<1> DEFINE t == Tail(s)
<1> HIDE DEF t
<1>2. RpInjective(t) BY <1>1 DEF RpInjective, t
<1>3. Head(s) \in RpIn(s) BY <1>1 DEF RpIn
<1>4. ASSUME NEW x \in RpIn(t) PROVE x \in RpIn(s) /\ x # Head(s)
 <2>1. PICK i \in 1 .. Len(t) : x = t[i] BY DEF RpIn
 <2>2. i + 1 \in 1 .. Len(s) /\ x = s[i + 1] /\ i + 1 # 1 /\ 1 \in 1 .. Len(s) BY <1>1, <2>1 DEF t
 <2> QED BY <1>1, <2>2 DEF RpIn, RpInjective
<1>5. ASSUME NEW x \in RpIn(s), x # Head(s) PROVE x \in RpIn(t)
 <2>1. PICK i \in 1 .. Len(s) : x = s[i] BY DEF RpIn
 <2>2. i - 1 \in 1 .. Len(t) /\ x = t[i - 1] BY <1>1, <1>5, <2>1 DEF t
 <2> QED BY <2>2 DEF RpIn
<1> QED BY <1>1, <1>2, <1>3, <1>4, <1>5 DEF t

(* The first requests of out_ go to the socket. *)
LEMMA RpInMove ==
  ASSUME NEW S, NEW s \in Seq(S), NEW o \in Seq(S), NEW k \in 0 .. Len(o),
         RpInjective(s), RpInjective(o), \A x \in RpIn(s) : x \notin RpIn(o)
  PROVE  /\ s \o SubSeq(o, 1, k) \in Seq(S) /\ SubSeq(o, k + 1, Len(o)) \in Seq(S)
         /\ RpInjective(s \o SubSeq(o, 1, k)) /\ RpInjective(SubSeq(o, k + 1, Len(o)))
         /\ \A x \in RpIn(s \o SubSeq(o, 1, k)) : x \in RpIn(s) \/ x \in RpIn(o)
         /\ \A x \in RpIn(SubSeq(o, k + 1, Len(o))) : x \in RpIn(o)
         /\ \A x \in RpIn(s \o SubSeq(o, 1, k)) : x \notin RpIn(SubSeq(o, k + 1, Len(o)))
<1> DEFINE a == SubSeq(o, 1, k)
           b == SubSeq(o, k + 1, Len(o))
           r == s \o a
<1>1. Len(o) \in Nat /\ Len(s) \in Nat /\ k \in Nat /\ \A i \in 1 .. Len(o) : o[i] \in S BY LenProperties, ElementOfSeq
<1>2. /\ a \in Seq(S) /\ Len(a) = k
      /\ \A i \in 1 .. k : a[i] = o[i]
 <2>1. \A i \in 1 .. k : o[i] \in S BY <1>1
 <2>2. /\ a \in Seq(S) /\ Len(a) = IF 1 <= k THEN k - 1 + 1 ELSE 0
       /\ \A i \in 1 .. k - 1 + 1 : a[i] = o[1 + i - 1] BY <1>1, <2>1, SubSeqProperties
 <2> HIDE DEF a
 <2> QED BY <1>1, <2>2
<1>3. /\ b \in Seq(S) /\ Len(b) = Len(o) - k
      /\ \A i \in 1 .. Len(o) - k : b[i] = o[k + i]
 <2>1. \A i \in k + 1 .. Len(o) : o[i] \in S BY <1>1
 <2>2. /\ b \in Seq(S) /\ Len(b) = IF k + 1 <= Len(o) THEN Len(o) - (k + 1) + 1 ELSE 0
       /\ \A i \in 1 .. Len(o) - (k + 1) + 1 : b[i] = o[(k + 1) + i - 1] BY <1>1, <2>1, SubSeqProperties
 <2> HIDE DEF b
 <2> QED BY <1>1, <2>2
<1> HIDE DEF a, b
<1>4. /\ r \in Seq(S) /\ Len(r) = Len(s) + k
      /\ \A i \in 1 .. Len(s) : r[i] = s[i]
      /\ \A i \in Len(s) + 1 .. Len(s) + k : r[i] = o[i - Len(s)] /\ i - Len(s) \in 1 .. k
 <2>1. /\ r \in Seq(S) /\ Len(r) = Len(s) + Len(a)
       /\ \A i \in 1 .. Len(s) + Len(a) : r[i] = IF i <= Len(s) THEN s[i] ELSE a[i - Len(s)] BY <1>2, ConcatProperties
 <2> HIDE DEF r
 <2> QED BY <1>1, <1>2, <2>1
<1> HIDE DEF r
<1>5. \A i \in 1 .. Len(r) : i \in 1 .. Len(s) \/ i \in Len(s) + 1 .. Len(s) + k BY <1>1, <1>4
<1>6. \A x \in RpIn(r) : x \in RpIn(s) \/ \E i \in 1 .. k : x = o[i] BY <1>4, <1>5 DEF RpIn
<1>7. \A x \in RpIn(b) : \E i \in k + 1 .. Len(o) : x = o[i]
 <2>1. \A i \in 1 .. Len(o) - k : k + i \in k + 1 .. Len(o) BY <1>1
 <2> QED BY <1>3, <2>1 DEF RpIn
<1>8. \A x \in RpIn(b) : x \in RpIn(o)
 <2>1. \A i \in k + 1 .. Len(o) : i \in 1 .. Len(o) BY <1>1
 <2> QED BY <1>7, <2>1 DEF RpIn
<1>9. \A x \in RpIn(r) : x \in RpIn(s) \/ x \in RpIn(o)
 <2>1. \A i \in 1 .. k : i \in 1 .. Len(o) BY <1>1
 <2> QED BY <1>6, <2>1 DEF RpIn
<1>10. RpInjective(b) BY <1>1, <1>3 DEF RpInjective
<1>11. RpInjective(r)
 <2> SUFFICES ASSUME NEW i \in 1 .. Len(r), NEW j \in 1 .. Len(r), r[i] = r[j] PROVE i = j BY DEF RpInjective
 <2>1. CASE i \in 1 .. Len(s) /\ j \in 1 .. Len(s) BY <1>4, <2>1 DEF RpInjective
 <2>2. CASE i \in Len(s) + 1 .. Len(s) + k /\ j \in Len(s) + 1 .. Len(s) + k
  <3>1. i - Len(s) \in 1 .. Len(o) /\ j - Len(s) \in 1 .. Len(o) /\ o[i - Len(s)] = o[j - Len(s)] BY <1>1, <1>4, <2>2
  <3>2. i - Len(s) = j - Len(s) BY <3>1 DEF RpInjective
  <3> QED BY <1>1, <3>2
 <2>3. ASSUME NEW m \in 1 .. Len(s), NEW n \in Len(s) + 1 .. Len(s) + k, r[m] = r[n] PROVE FALSE
  <3>1. s[m] \in RpIn(s) /\ r[m] = s[m] BY <1>4 DEF RpIn
  <3>2. n - Len(s) \in 1 .. Len(o) /\ r[n] = o[n - Len(s)] BY <1>1, <1>4
  <3>3. r[n] \in RpIn(o) BY <3>2 DEF RpIn
  <3> QED BY <2>3, <3>1, <3>3
 <2> QED BY <1>5, <2>1, <2>2, <2>3
<1>12. ASSUME NEW x \in RpIn(r), x \in RpIn(b) PROVE FALSE
 <2>1. PICK j \in k + 1 .. Len(o) : x = o[j] BY <1>7, <1>12
 <2>2. x \in RpIn(o) BY <1>8, <1>12
 <2>3. PICK i \in 1 .. k : x = o[i] BY <1>6, <2>2
 <2>4. i \in 1 .. Len(o) /\ j \in 1 .. Len(o) /\ i # j /\ o[i] = o[j] BY <1>1, <2>1, <2>3
 <2> QED BY <2>4 DEF RpInjective
<1> QED BY <1>3, <1>4, <1>8, <1>9, <1>10, <1>11, <1>12 DEF a, b, r

(* A whole reply is added. *)
LEMMA RpAddReply ==
  ASSUME NEW s \in Seq(RpPart), NEW x \in RpXids, NEW err \in {"none", "ENOENT"},
         RpWhole(s), RpOneHeader(s), x \notin RpReplied(s)
  PROVE  LET r == s \o <<RpHeader(x, err), RpBody(x)>>
         IN  /\ r \in Seq(RpPart) /\ RpWhole(r) /\ RpOneHeader(r)
             /\ \A y \in RpReplied(r) : y \in RpReplied(s) \/ y = x
<1> DEFINE p == <<RpHeader(x, err), RpBody(x)>>
           r == s \o p
<1>1. /\ p \in Seq(RpPart) /\ Len(p) = 2
      /\ p[1].part = "header" /\ p[1].xid = x /\ p[2].part = "body"
 <2>1. RpHeader(x, err) \in RpPart /\ RpBody(x) \in RpPart BY DEF RpPart, RpHeader, RpBody
 <2> QED BY <2>1 DEF RpHeader, RpBody
<1>2. Len(s) \in Nat BY LenProperties
<1> HIDE DEF p
<1>3. /\ r \in Seq(RpPart) /\ Len(r) = Len(s) + 2
      /\ \A i \in 1 .. Len(s) : r[i] = s[i]
      /\ r[Len(s) + 1] = p[1] /\ r[Len(s) + 2] = p[2]
 <2>1. /\ r \in Seq(RpPart) /\ Len(r) = Len(s) + Len(p)
       /\ \A i \in 1 .. Len(s) + Len(p) : r[i] = IF i <= Len(s) THEN s[i] ELSE p[i - Len(s)] BY <1>1, ConcatProperties
 <2>2. /\ Len(s) + 1 \in 1 .. Len(s) + 2 /\ Len(s) + 2 \in 1 .. Len(s) + 2
       /\ ~(Len(s) + 1 <= Len(s)) /\ ~(Len(s) + 2 <= Len(s))
       /\ (Len(s) + 1) - Len(s) = 1 /\ (Len(s) + 2) - Len(s) = 2
       /\ \A i \in 1 .. Len(s) : i <= Len(s) /\ i \in 1 .. Len(s) + 2 BY <1>2
 <2> HIDE DEF r
 <2> QED BY <1>1, <2>1, <2>2
<1> HIDE DEF r
<1>4. \A i \in 1 .. Len(r) : i \in 1 .. Len(s) \/ i = Len(s) + 1 \/ i = Len(s) + 2 BY <1>2, <1>3
<1>5. \A i \in RpHeaders(r) : i \in RpHeaders(s) \/ i = Len(s) + 1 BY <1>1, <1>3, <1>4 DEF RpHeaders
<1>6. \A i \in RpHeaders(s) : r[i] = s[i] /\ s[i].xid \in RpReplied(s) BY <1>3 DEF RpHeaders, RpReplied
<1>7. RpOneHeader(r)
 <2> SUFFICES ASSUME NEW i \in RpHeaders(r), NEW j \in RpHeaders(r), r[i].xid = r[j].xid PROVE i = j BY DEF RpOneHeader
 <2>1. CASE i \in RpHeaders(s) /\ j \in RpHeaders(s) BY <1>6, <2>1 DEF RpOneHeader
 <2>2. \A k \in RpHeaders(s) : r[k].xid # x BY <1>6
 <2>3. r[Len(s) + 1].xid = x BY <1>1, <1>3
 <2> QED BY <1>5, <2>1, <2>2, <2>3
<1>8. \A y \in RpReplied(r) : y \in RpReplied(s) \/ y = x BY <1>1, <1>3, <1>5, <1>6 DEF RpReplied
<1>9. RpWhole(r)
 <2>1. r[Len(r)].part = "body" BY <1>1, <1>3
 <2>2. r[1].part = "header"
  <3>1. CASE Len(s) = 0 BY <1>1, <1>3, <3>1
  <3>2. CASE Len(s) > 0 BY <1>2, <1>3, <3>2 DEF RpWhole
  <3> QED BY <1>2, <3>1, <3>2
 <2>3. ASSUME NEW i \in 1 .. Len(r) - 1 PROVE r[i].part # r[i + 1].part
  <3>1. CASE i \in 1 .. Len(s) - 1
   <4>1. i \in 1 .. Len(s) /\ i + 1 \in 1 .. Len(s) BY <1>2, <3>1
   <4> QED BY <1>3, <3>1, <4>1 DEF RpWhole, RpTurns
  <3>2. CASE i = Len(s)
   <4>1. Len(s) > 0 /\ i \in 1 .. Len(s) BY <1>2, <3>2
   <4>2. s[Len(s)].part = "body" BY <4>1 DEF RpWhole, RpTurns
   <4> QED BY <1>1, <1>3, <3>2, <4>1, <4>2
  <3>3. CASE i = Len(s) + 1
   <4>1. i + 1 = Len(s) + 2 BY <1>2, <3>3
   <4> QED BY <1>1, <1>3, <3>3, <4>1
  <3> QED BY <1>2, <1>3, <3>1, <3>2, <3>3
 <2> QED BY <2>1, <2>2, <2>3 DEF RpWhole, RpTurns
<1> QED BY <1>3, <1>7, <1>8, <1>9 DEF r, p

(* handle_read goes on with the rest of in_ after a body that was not taken, or after a
   whole reply. *)
LEMMA RpReadOn ==
  ASSUME NEW s \in Seq(RpPart), s # <<>>, RpTurns(s), Head(s).part # "body"
  PROVE  /\ Tail(s) \in Seq(RpPart) /\ RpTurns(Tail(s))
         /\ Tail(Tail(s)) \in Seq(RpPart) /\ RpTurns(Tail(Tail(s)))
         /\ Head(s).part = "header" /\ Head(s).xid \in RpXids
<1>1. /\ Head(s) \in RpPart /\ Tail(s) \in Seq(RpPart) /\ Len(Tail(s)) = Len(s) - 1
      /\ Head(s) = s[1] /\ Len(s) \in Nat /\ Len(s) > 0
      /\ \A i \in 1 .. Len(s) - 1 : Tail(s)[i] = s[i + 1] BY HeadTailProperties, EmptySeq
<1>2. Len(s) > 1 BY <1>1 DEF RpTurns
<1> DEFINE t == Tail(s)
           u == Tail(t)
<1>3. t \in Seq(RpPart) /\ t # <<>> /\ Len(t) = Len(s) - 1 /\ \A i \in 1 .. Len(s) - 1 : t[i] = s[i + 1]
 <2>1. t \in Seq(RpPart) /\ Len(t) = Len(s) - 1 /\ \A i \in 1 .. Len(s) - 1 : t[i] = s[i + 1] BY <1>1
 <2> HIDE DEF t
 <2>2. t # <<>> BY <1>1, <1>2, <2>1, EmptySeq
 <2> QED BY <2>1, <2>2
<1> HIDE DEF t
<1>4. /\ u \in Seq(RpPart) /\ Len(u) = Len(t) - 1
      /\ \A i \in 1 .. Len(t) - 1 : u[i] = t[i + 1] BY <1>3, HeadTailProperties
<1> HIDE DEF u
<1>5. RpTurns(t) BY <1>1, <1>2, <1>3 DEF RpTurns
<1>6. RpTurns(u) BY <1>1, <1>2, <1>3, <1>4, <1>5 DEF RpTurns
<1>7. Head(s).part = "header" /\ Head(s).xid \in RpXids BY <1>1 DEF RpPart
<1> QED BY <1>3, <1>4, <1>5, <1>6, <1>7 DEF t, u

(* After a whole reply come whole replies, and to other calls. *)
LEMMA RpReadWhole ==
  ASSUME NEW s \in Seq(RpPart), s # <<>>, RpWhole(s), RpOneHeader(s)
  PROVE  /\ Head(s).part = "header" /\ Head(s).xid \in RpReplied(s)
         /\ RpWhole(Tail(Tail(s))) /\ RpOneHeader(Tail(Tail(s)))
         /\ \A y \in RpReplied(Tail(Tail(s))) : y \in RpReplied(s) /\ y # Head(s).xid
<1>1. /\ Head(s) \in RpPart /\ Tail(s) \in Seq(RpPart) /\ Len(Tail(s)) = Len(s) - 1
      /\ Head(s) = s[1] /\ Len(s) \in Nat /\ Len(s) > 0
      /\ \A i \in 1 .. Len(s) - 1 : Tail(s)[i] = s[i + 1] BY HeadTailProperties, EmptySeq
<1>2. s[1].part = "header" /\ Len(s) > 1 BY <1>1 DEF RpTurns, RpWhole
<1>3. 1 \in RpHeaders(s) /\ Head(s).xid \in RpReplied(s) BY <1>1, <1>2 DEF RpHeaders, RpReplied
<1>4. RpTurns(Tail(Tail(s))) /\ Tail(Tail(s)) \in Seq(RpPart) BY <1>1, <1>2, RpReadOn DEF RpWhole
<1> DEFINE t == Tail(s)
           u == Tail(t)
<1>5. t \in Seq(RpPart) /\ t # <<>> /\ Len(t) = Len(s) - 1 /\ \A i \in 1 .. Len(s) - 1 : t[i] = s[i + 1]
 <2>1. t \in Seq(RpPart) /\ Len(t) = Len(s) - 1 /\ \A i \in 1 .. Len(s) - 1 : t[i] = s[i + 1] BY <1>1
 <2> HIDE DEF t
 <2>2. t # <<>> BY <1>1, <1>2, <2>1, EmptySeq
 <2> QED BY <2>1, <2>2
<1> HIDE DEF t
<1>6. /\ u \in Seq(RpPart) /\ Len(u) = Len(t) - 1
      /\ \A i \in 1 .. Len(t) - 1 : u[i] = t[i + 1] BY <1>5, HeadTailProperties
<1> HIDE DEF u
<1>7. Len(u) = Len(s) - 2 /\ \A i \in 1 .. Len(u) : u[i] = s[i + 2] /\ i + 2 \in 1 .. Len(s) BY <1>1, <1>5, <1>6
<1>8. \A i \in RpHeaders(u) : i + 2 \in RpHeaders(s) /\ u[i] = s[i + 2] /\ i \in Nat /\ i + 2 # 1 BY <1>7 DEF RpHeaders
<1>9. RpOneHeader(u) BY <1>8 DEF RpOneHeader
<1>10. ASSUME NEW y \in RpReplied(u) PROVE y \in RpReplied(s) /\ y # Head(s).xid
 <2>1. PICK i \in RpHeaders(u) : y = u[i].xid BY DEF RpReplied
 <2>2. i + 2 \in RpHeaders(s) /\ y = s[i + 2].xid /\ i + 2 # 1 BY <1>8, <2>1
 <2>3. y \in RpReplied(s) BY <2>2 DEF RpReplied
 <2>4. y # s[1].xid BY <1>3, <2>2 DEF RpOneHeader
 <2> QED BY <1>1, <2>3, <2>4
<1>11. ASSUME Len(u) > 0 PROVE u[1].part = "header"
 <2>1. Len(s) > 2 /\ u[1] = s[3] BY <1>1, <1>7, <1>11
 <2>2. s[1].part # s[2].part /\ s[2].part # s[3].part BY <1>1, <2>1 DEF RpWhole, RpTurns
 <2>3. s[2] \in RpPart /\ s[3] \in RpPart BY <1>1, <2>1, ElementOfSeq
 <2> QED BY <1>2, <2>1, <2>2, <2>3 DEF RpPart
<1> QED BY <1>1, <1>2, <1>3, <1>4, <1>9, <1>10, <1>11 DEF t, u, RpWhole

LEMMA RpNoReply ==
  /\ <<>> \in Seq(RpPart) /\ RpWhole(<<>>) /\ RpTurns(<<>>) /\ RpOneHeader(<<>>)
  /\ \A x : x \notin RpReplied(<<>>) /\ x \notin RpIn(<<>>)
  /\ RpInjective(<<>>)
<1> DEFINE e == <<>>
<1>1. e \in Seq(RpPart) /\ Len(e) = 0 BY EmptySeq
<1> HIDE DEF e
<1>2. 1 .. Len(e) = {} BY <1>1
<1> QED BY <1>1, <1>2 DEF RpWhole, RpTurns, RpOneHeader, RpReplied, RpHeaders, RpIn, RpInjective, e

(* A caller goes on, and its future may enter or leave pending_fu_. *)
LEMMA RpTalkCall ==
  ASSUME NEW up, NEW out, NEW busy, NEW down, NEW in, NEW pend \in SUBSET RpXids, NEW pend2,
         NEW call \in [RpXids -> RpState], NEW x \in RpXids, NEW v,
         RpTalk(up, out, busy, down, in, pend, call),
         call[x] \in RpAfter => v \in RpAfter,
         v \in {"check", "write"} => x \in pend2,
         \A y \in pend : y \in pend2 \/ (y = x /\ call[x] \notin RpAfter)
  PROVE RpTalk(up, out, busy, down, in, pend2, [call EXCEPT ![x] = v])
<1> DEFINE A == RpIn(up) \cup RpIn(out) \cup busy \cup RpReplied(down) \cup RpReplied(in)
           call2 == [call EXCEPT ![x] = v]
<1>1. RpAwaits(A, pend, call) BY DEF RpTalk
<1>2. call2[x] = v /\ \A y \in RpXids : y # x => call2[y] = call[y] OBVIOUS
<1> HIDE DEF A, call2
<1>3. \A y \in A : y \in pend2 /\ call2[y] \in RpAfter BY <1>1, <1>2 DEF RpAwaits
<1>4. \A y \in RpXids : call2[y] \in {"check", "write"} => y \in pend2 BY <1>1, <1>2 DEF RpAwaits
<1>5. RpAwaits(A, pend2, call2) BY <1>3, <1>4 DEF RpAwaits
<1> QED BY <1>5 DEF RpTalk, A, call2

(* end_request puts a request into out_. *)
LEMMA RpTalkSend ==
  ASSUME NEW up, NEW out \in Seq(RpXids), NEW busy, NEW down, NEW in, NEW pend \in SUBSET RpXids,
         NEW call \in [RpXids -> RpState], NEW x \in RpXids, call[x] = "write",
         RpTalk(up, out, busy, down, in, pend, call)
  PROVE RpTalk(up, Append(out, x), busy, down, in, pend, [call EXCEPT ![x] = "waiting"])
<1> DEFINE U == RpIn(up)
           O == RpIn(out)
           D == RpReplied(down)
           I == RpReplied(in)
           A == U \cup O \cup busy \cup D \cup I
           call2 == [call EXCEPT ![x] = "waiting"]
           out2 == Append(out, x)
           O2 == RpIn(out2)
           A2 == U \cup O2 \cup busy \cup D \cup I
<1>1. RpAwaits(A, pend, call) /\ RpApart(U, O, busy, D, I) /\ RpInjective(out) BY DEF RpTalk
<1>2. call2[x] = "waiting" /\ \A y \in RpXids : y # x => call2[y] = call[y] OBVIOUS
<1>3. x \notin A /\ x \in pend
 <2> HIDE DEF A
 <2> QED BY <1>1 DEF RpAwaits, RpAfter
<1>4. O2 = O \cup {x} /\ RpInjective(out2)
 <2>1. x \notin RpIn(out) BY <1>3
 <2> QED BY <1>1, <2>1, RpInAppend
<1> HIDE DEF U, O, D, I, call2, O2
<1>5. RpApart(U, O2, busy, D, I) BY <1>1, <1>3, <1>4 DEF RpApart
<1>6. \A y \in A2 : y \in pend /\ call2[y] \in RpAfter
 <2>1. \A y \in A2 : y \in A \/ y = x BY <1>4
 <2> HIDE DEF A, A2
 <2> QED BY <1>1, <1>2, <1>3, <2>1 DEF RpAwaits, RpAfter
<1>7. \A y \in RpXids : call2[y] \in {"check", "write"} => y \in pend
 <2> HIDE DEF A
 <2> QED BY <1>1, <1>2, <1>3 DEF RpAwaits
<1>8. RpAwaits(A2, pend, call2)
 <2> HIDE DEF A2
 <2> QED BY <1>6, <1>7 DEF RpAwaits
<1> HIDE DEF out2
<1>9. RpTalk(up, out2, busy, down, in, pend, call2) BY <1>4, <1>5, <1>8 DEF RpTalk, U, O2, D, I
<1> QED BY <1>9 DEF call2, out2

(* A step that moves calls from one place to the next, or drops one: what is under way
   afterwards was so before. *)
LEMMA RpAwaitsFewer ==
  ASSUME NEW A, NEW A2, NEW pend, NEW call, RpAwaits(A, pend, call), \A x \in A2 : x \in A
  PROVE RpAwaits(A2, pend, call)
BY DEF RpAwaits

(* handle_write of the client. *)
LEMMA RpTalkWrite ==
  ASSUME NEW up \in Seq(RpXids), NEW out \in Seq(RpXids), NEW busy, NEW down, NEW in, NEW pend, NEW call,
         NEW k \in 0 .. Len(out), RpInjective(up),
         RpTalk(up, out, busy, down, in, pend, call)
  PROVE  /\ RpTalk(up \o SubSeq(out, 1, k), SubSeq(out, k + 1, Len(out)), busy, down, in, pend, call)
         /\ RpInjective(up \o SubSeq(out, 1, k))
         /\ \A x \in RpIn(up \o SubSeq(out, 1, k)) : x \notin busy \/ x \in RpIn(up)
         /\ up \o SubSeq(out, 1, k) \in Seq(RpXids) /\ SubSeq(out, k + 1, Len(out)) \in Seq(RpXids)
<1> DEFINE U == RpIn(up)
           O == RpIn(out)
           D == RpReplied(down)
           I == RpReplied(in)
           A == U \cup O \cup busy \cup D \cup I
           up2 == up \o SubSeq(out, 1, k)
           out2 == SubSeq(out, k + 1, Len(out))
           U2 == RpIn(up2)
           O2 == RpIn(out2)
           A2 == U2 \cup O2 \cup busy \cup D \cup I
<1>1. RpAwaits(A, pend, call) /\ RpApart(U, O, busy, D, I) /\ RpInjective(out) BY DEF RpTalk
<1>2. \A x \in RpIn(up) : x \notin RpIn(out) BY <1>1 DEF RpApart
<1>3. /\ up2 \in Seq(RpXids) /\ out2 \in Seq(RpXids) /\ RpInjective(up2) /\ RpInjective(out2)
      /\ \A x \in U2 : x \in U \/ x \in O
      /\ \A x \in O2 : x \in O
      /\ \A x \in U2 : x \notin O2 BY <1>1, <1>2, RpInMove
<1> HIDE DEF up2, out2, U, O, D, I, U2, O2
<1>4. RpApart(U2, O2, busy, D, I) BY <1>1, <1>3 DEF RpApart
<1>5. RpAwaits(A2, pend, call)
 <2>1. \A x \in A2 : x \in A BY <1>3
 <2> HIDE DEF A, A2
 <2> QED BY <1>1, <2>1, RpAwaitsFewer
<1>6. RpTalk(up2, out2, busy, down, in, pend, call) BY <1>3, <1>4, <1>5 DEF RpTalk, U2, O2, D, I
<1>7. \A x \in U2 : x \notin busy \/ x \in U BY <1>1, <1>3 DEF RpApart
<1> QED BY <1>3, <1>6, <1>7 DEF up2, out2, U, U2

(* handle_read of the client takes what the socket has. *)
LEMMA RpTalkRead ==
  ASSUME NEW up, NEW out, NEW busy, NEW down, NEW pend, NEW call,
         RpTalk(up, out, busy, down, <<>>, pend, call)
  PROVE RpTalk(up, out, busy, <<>>, down, pend, call) /\ RpTurns(down)
<1> DEFINE U == RpIn(up)
           O == RpIn(out)
           D == RpReplied(down)
           none == RpReplied(<<>>)
           A == U \cup O \cup busy \cup D \cup none
           A2 == U \cup O \cup busy \cup none \cup D
<1>1. RpAwaits(A, pend, call) /\ RpApart(U, O, busy, D, none) BY DEF RpTalk
<1>2. \A x : x \notin none BY RpNoReply
<1> HIDE DEF U, O, D, none
<1>3. RpApart(U, O, busy, none, D) BY <1>1, <1>2 DEF RpApart
<1>4. RpAwaits(A2, pend, call)
 <2>1. A2 = A OBVIOUS
 <2> QED BY <1>1, <2>1
<1> QED BY <1>3, <1>4 DEF RpTalk, RpWhole, U, O, D, none

(* handle_read of the client finds the future of the reply. *)
LEMMA RpTalkReadReply ==
  ASSUME NEW up, NEW out, NEW busy, NEW down, NEW in \in Seq(RpPart), in # <<>>, NEW pend, NEW call,
         RpTalk(up, out, busy, down, in, pend, call)
  PROVE  /\ Head(in).part = "header" /\ Head(in).xid \in pend
         /\ RpTalk(up, out, busy, down, Tail(Tail(in)), pend \ {Head(in).xid}, call)
<1> DEFINE U == RpIn(up)
           O == RpIn(out)
           D == RpReplied(down)
           I == RpReplied(in)
           A == U \cup O \cup busy \cup D \cup I
           x == Head(in).xid
           in2 == Tail(Tail(in))
           I2 == RpReplied(in2)
           A2 == U \cup O \cup busy \cup D \cup I2
           pend2 == pend \ {x}
<1>1. RpAwaits(A, pend, call) /\ RpApart(U, O, busy, D, I) /\ RpWhole(in) /\ RpOneHeader(in) BY DEF RpTalk
<1>2. /\ Head(in).part = "header" /\ x \in I /\ RpWhole(in2) /\ RpOneHeader(in2)
      /\ \A y \in I2 : y \in I /\ y # x BY <1>1, RpReadWhole
<1> HIDE DEF U, O, D, I, I2, in2, x
<1>3. RpApart(U, O, busy, D, I2) BY <1>1, <1>2 DEF RpApart
<1>4. x \in A /\ \A y \in A2 : y \in A /\ y # x BY <1>1, <1>2 DEF RpApart
<1>5. RpAwaits(A2, pend2, call) /\ x \in pend
 <2> HIDE DEF A, A2
 <2> QED BY <1>1, <1>4 DEF RpAwaits, RpAfter
<1> HIDE DEF pend2
<1>6. RpTalk(up, out, busy, down, in2, pend2, call) BY <1>2, <1>3, <1>5 DEF RpTalk, U, O, D, I2
<1> QED BY <1>2, <1>5, <1>6 DEF x, in2, pend2

(* handle_read of the server hands a request to its handler. *)
LEMMA RpTalkServe ==
  ASSUME NEW up \in Seq(RpXids), up # <<>>, RpInjective(up), NEW out, NEW busy, NEW down, NEW in, NEW pend, NEW call,
         RpTalk(up, out, busy, down, in, pend, call)
  PROVE RpTalk(Tail(up), out, busy \cup {Head(up)}, down, in, pend, call)
<1> DEFINE U == RpIn(up)
           O == RpIn(out)
           D == RpReplied(down)
           I == RpReplied(in)
           A == U \cup O \cup busy \cup D \cup I
           x == Head(up)
           up2 == Tail(up)
           U2 == RpIn(up2)
           B2 == busy \cup {x}
           A2 == U2 \cup O \cup B2 \cup D \cup I
<1>1. RpAwaits(A, pend, call) /\ RpApart(U, O, busy, D, I) BY DEF RpTalk
<1>2. x \in U /\ \A y : y \in U2 <=> y \in U /\ y # x BY RpInTail
<1> HIDE DEF U, O, D, I, U2, up2, x
<1>3. RpApart(U2, O, B2, D, I) BY <1>1, <1>2 DEF RpApart
<1>4. RpAwaits(A2, pend, call)
 <2>1. \A y \in A2 : y \in A BY <1>2
 <2> HIDE DEF A, A2
 <2> QED BY <1>1, <2>1, RpAwaitsFewer
<1> HIDE DEF B2
<1>5. RpTalk(up2, out, B2, down, in, pend, call) BY <1>3, <1>4 DEF RpTalk, U2, O, D, I
<1> QED BY <1>5 DEF up2, B2, x

(* A request leaves the wire or its handler, answered or not: x is in neither
   afterwards. *)
LEMMA RpTalkAnswer ==
  ASSUME NEW up, NEW out, NEW busy, NEW down \in Seq(RpPart), NEW in, NEW pend, NEW call,
         NEW up2, NEW busy2, NEW x \in RpXids, NEW err \in {"none", "ENOENT"},
         RpTalk(up, out, busy, down, in, pend, call),
         x \in RpIn(up) \cup busy, x \notin RpIn(up2) \cup busy2,
         \A y \in RpIn(up2) : y \in RpIn(up),
         \A y \in busy2 : y \in busy
  PROVE  /\ RpTalk(up2, out, busy2, down, in, pend, call)
         /\ RpTalk(up2, out, busy2, down \o <<RpHeader(x, err), RpBody(x)>>, in, pend, call)
         /\ down \o <<RpHeader(x, err), RpBody(x)>> \in Seq(RpPart)
<1> DEFINE U == RpIn(up)
           O == RpIn(out)
           D == RpReplied(down)
           I == RpReplied(in)
           A == U \cup O \cup busy \cup D \cup I
           U2 == RpIn(up2)
           down2 == down \o <<RpHeader(x, err), RpBody(x)>>
           D2 == RpReplied(down2)
           A1 == U2 \cup O \cup busy2 \cup D \cup I
           A2 == U2 \cup O \cup busy2 \cup D2 \cup I
<1>1. RpAwaits(A, pend, call) /\ RpApart(U, O, busy, D, I) /\ RpWhole(down) /\ RpOneHeader(down) BY DEF RpTalk
<1>2. (x \in U \/ x \in busy) /\ x \notin U2 /\ x \notin busy2 /\ \A y \in U2 : y \in U OBVIOUS
<1>3. x \notin RpReplied(down)
 <2> HIDE DEF U, O, I
 <2> QED BY <1>1, <1>2 DEF RpApart
<1>4. down2 \in Seq(RpPart) /\ RpWhole(down2) /\ RpOneHeader(down2) /\ \A y \in D2 : y \in D \/ y = x
  BY <1>1, <1>3, RpAddReply
<1> HIDE DEF U, O, D, I, U2, D2, down2
<1>5. RpApart(U2, O, busy2, D, I) /\ RpApart(U2, O, busy2, D2, I) BY <1>1, <1>2, <1>4 DEF RpApart
<1>6. (\A y \in A1 : y \in A) /\ (\A y \in A2 : y \in A) BY <1>2, <1>4
<1>7. RpAwaits(A1, pend, call) /\ RpAwaits(A2, pend, call)
 <2> HIDE DEF A, A1, A2
 <2> QED BY <1>1, <1>6, RpAwaitsFewer
<1>8. RpTalk(up2, out, busy2, down, in, pend, call) BY <1>5, <1>7 DEF RpTalk, U2, O, D, I
<1>9. RpTalk(up2, out, busy2, down2, in, pend, call) BY <1>4, <1>5, <1>7 DEF RpTalk, U2, O, D2, I
<1> QED BY <1>4, <1>8, <1>9 DEF down2

(* update_mode changes what is polled for, and nothing else. *)
LEMMA RpModeOnly ==
  ASSUME NEW cl \in RpClient, NEW mode \in {"read", "both"}
  PROVE  /\ RpMode(cl, mode) \in RpClient
         /\ RpMode(cl, mode).status = cl.status /\ RpMode(cl, mode).pend = cl.pend
         /\ RpMode(cl, mode).out = cl.out /\ RpMode(cl, mode).in = cl.in /\ RpMode(cl, mode).lost = cl.lost
BY DEF RpMode, RpClient

(* The types of the client's fields. *)
LEMMA RpClientFields ==
  ASSUME NEW cl \in RpClient
  PROVE  /\ cl.pend \in SUBSET RpXids /\ cl.out \in Seq(RpXids) /\ cl.in \in Seq(RpPart)
         /\ cl.status \in {"NEW", "CONNECTED", "CLOSED"}
BY DEF RpClient

(* A step of the client alone. *)
LEMMA RpServerStays ==
  ASSUME RpServerOK, UNCHANGED serverVars
  PROVE RpServerOK'
BY DEF RpServerOK, RpConnOK, serverVars

(* A caller goes on while in_, the wire and status_ stay as they are. *)
LEMMA RpCallStep ==
  ASSUME RpInv, NEW x \in RpXids, NEW v \in RpState, NEW cl \in RpClient,
         rp_cl' = cl, cl.status = rp_cl.status, cl.in = rp_cl.in, cl.out = rp_cl.out, cl.lost = rp_cl.lost,
         rp_call' = [rp_call EXCEPT ![x] = v],
         rp_call[x] \in RpAfter => v \in RpAfter,
         cl.status # "CLOSED" => (v \in {"check", "write"} => x \in cl.pend),
         \A y \in rp_cl.pend : y \in cl.pend \/ (y = x /\ rp_call[x] \notin RpAfter),
         UNCHANGED <<rp_close, rp_up, rp_down, rp_sv, rp_sc, rp_poll>>
  PROVE RpInv'
<1>1. RpTypeOK' BY DEF RpInv, RpTypeOK
<1>2. RpServerOK' BY RpServerStays DEF RpInv, serverVars
<1>3. RpRequestsOK' BY DEF RpInv, RpRequestsOK
<1>4. ASSUME cl.status # "CLOSED"
      PROVE RpTalk(rp_up, cl.out, rp_sc[RpMine].busy, rp_down, cl.in, cl.pend, [rp_call EXCEPT ![x] = v])
 <2>1. RpTalk(rp_up, cl.out, rp_sc[RpMine].busy, rp_down, cl.in, rp_cl.pend, rp_call) BY <1>4 DEF RpInv, RpClientOK
 <2>2. rp_cl.pend \in SUBSET RpXids /\ rp_call \in [RpXids -> RpState] BY RpClientFields DEF RpInv, RpTypeOK
 <2> QED BY <1>4, <2>1, <2>2, RpTalkCall
<1>5. RpClientOK' BY <1>4 DEF RpInv, RpClientOK
<1> QED BY <1>1, <1>2, <1>3, <1>5 DEF RpInv

LEMMA RpBeginLockInv ==
  ASSUME RpInv, NEW x \in RpXids, RpBeginLock(x) PROVE RpInv'
<1> DEFINE v == IF rp_cl.status = "CONNECTED" THEN "make" ELSE "null"
           cl == [rp_cl EXCEPT !.lock = x]
<1>1. rp_cl \in RpClient /\ rp_call[x] \notin RpAfter /\ v \notin {"check", "write"} /\ v \in RpState
  BY DEF RpInv, RpTypeOK, RpBeginLock, RpAfter, RpState
<1>2. /\ cl \in RpClient /\ cl.status = rp_cl.status /\ cl.in = rp_cl.in /\ cl.out = rp_cl.out
      /\ cl.lost = rp_cl.lost /\ cl.pend = rp_cl.pend BY <1>1 DEF RpClient
<1>3. rp_cl' = cl /\ rp_call' = [rp_call EXCEPT ![x] = v] /\ UNCHANGED <<rp_close, rp_up, rp_down, rp_sv, rp_sc, rp_poll>>
  BY DEF RpBeginLock
<1> HIDE DEF v, cl
<1> QED BY <1>1, <1>2, <1>3, RpCallStep

LEMMA RpBeginAddInv ==
  ASSUME RpInv, NEW x \in RpXids, RpBeginAdd(x) PROVE RpInv'
<1> DEFINE cl == [rp_cl EXCEPT !.pend = @ \cup {x}]
           v == "check"
<1>1. rp_cl \in RpClient /\ rp_call[x] \notin RpAfter /\ v \in RpState
  BY DEF RpInv, RpTypeOK, RpBeginAdd, RpAfter, RpState
<1>2. /\ cl \in RpClient /\ cl.status = rp_cl.status /\ cl.in = rp_cl.in /\ cl.out = rp_cl.out
      /\ cl.lost = rp_cl.lost /\ cl.pend = rp_cl.pend \cup {x} BY <1>1 DEF RpClient
<1>3. rp_cl' = cl /\ rp_call' = [rp_call EXCEPT ![x] = v] /\ UNCHANGED <<rp_close, rp_up, rp_down, rp_sv, rp_sc, rp_poll>>
  BY DEF RpBeginAdd
<1>4. x \in cl.pend /\ \A y \in rp_cl.pend : y \in cl.pend BY <1>2
<1> HIDE DEF cl, v
<1> QED BY <1>1, <1>2, <1>3, <1>4, RpCallStep

LEMMA RpBeginCheckInv ==
  ASSUME RpInv, NEW x \in RpXids, RpBeginCheck(x) PROVE RpInv'
<1>1. rp_cl \in RpClient /\ rp_call[x] = "check" /\ rp_call[x] \notin RpAfter /\ "write" \in RpState /\ "null" \in RpState
  BY DEF RpInv, RpTypeOK, RpBeginCheck, RpAfter, RpState
<1>2. CASE rp_cl.status = "CONNECTED"
 <2> DEFINE cl == rp_cl
            v == "write"
 <2>1. rp_cl' = cl /\ rp_call' = [rp_call EXCEPT ![x] = v] /\ UNCHANGED <<rp_close, rp_up, rp_down, rp_sv, rp_sc, rp_poll>>
   BY <1>2 DEF RpBeginCheck
 <2>2. x \in cl.pend BY <1>1, <1>2 DEF RpInv, RpClientOK, RpTalk, RpAwaits
 <2> HIDE DEF v
 <2>3. v \in RpState BY <1>1 DEF v
 <2> QED BY <1>1, <2>1, <2>2, <2>3, RpCallStep
<1>3. CASE rp_cl.status # "CONNECTED"
 <2> DEFINE cl == [rp_cl EXCEPT !.pend = @ \ {x}]
            v == "null"
 <2>1. rp_cl' = cl /\ rp_call' = [rp_call EXCEPT ![x] = v] /\ UNCHANGED <<rp_close, rp_up, rp_down, rp_sv, rp_sc, rp_poll>>
   BY <1>3 DEF RpBeginCheck
 <2>2. /\ cl \in RpClient /\ cl.status = rp_cl.status /\ cl.in = rp_cl.in /\ cl.out = rp_cl.out
       /\ cl.lost = rp_cl.lost /\ cl.pend = rp_cl.pend \ {x} BY <1>1 DEF RpClient
 <2>3. \A y \in rp_cl.pend : y \in cl.pend \/ y = x BY <2>2
 <2>4. v \in RpState /\ v \notin {"check", "write"} BY <1>1
 <2> HIDE DEF cl, v
 <2> QED BY <1>1, <2>1, <2>2, <2>3, <2>4, RpCallStep
<1> QED BY <1>2, <1>3

(* The caller's steps in timed_wait and wait. *)
LEMMA RpWaitInv ==
  ASSUME RpInv, NEW x \in RpXids, RpExpire(x) \/ RpTimedWait(x) \/ RpTimedOut(x) \/ RpWaited(x) PROVE RpInv'
<1>1. rp_cl \in RpClient BY DEF RpInv, RpTypeOK
<1>2. PICK v \in {"expired", "timed out", "end"} :
        rp_call' = [rp_call EXCEPT ![x] = v] /\ UNCHANGED <<rp_cl, rp_close, rp_up, rp_down, rp_sv, rp_sc, rp_poll>>
  BY DEF RpExpire, RpTimedWait, RpTimedOut, RpWaited
<1>3. v \in RpAfter /\ v \in RpState /\ v \notin {"check", "write"} BY DEF RpAfter, RpState
<1> QED BY <1>1, <1>2, <1>3, RpCallStep

LEMMA RpEndRequestInv ==
  ASSUME RpInv, NEW x \in RpXids, RpEndRequest(x) PROVE RpInv'
<1> DEFINE sent == rp_call[x] = "write" /\ rp_cl.status = "CONNECTED"
           cl == [rp_cl EXCEPT !.out = IF sent THEN Append(@, x) ELSE @, !.lock = 0]
           cl2 == RpMode(cl, "both")
           v == IF rp_call[x] = "write" THEN "waiting" ELSE "end"
<1>1. rp_cl \in RpClient /\ rp_cl.out \in Seq(RpXids) /\ rp_cl.pend \in SUBSET RpXids /\ rp_call \in [RpXids -> RpState]
  BY RpClientFields DEF RpInv, RpTypeOK
<1>2. Append(rp_cl.out, x) \in Seq(RpXids) BY <1>1
<1>3. /\ cl \in RpClient /\ cl.status = rp_cl.status /\ cl.in = rp_cl.in
      /\ cl.lost = rp_cl.lost /\ cl.pend = rp_cl.pend
      /\ cl.out = IF sent THEN Append(rp_cl.out, x) ELSE rp_cl.out
 <2> DEFINE o == IF sent THEN Append(rp_cl.out, x) ELSE rp_cl.out
 <2>1. o \in Seq(RpXids) /\ cl = [rp_cl EXCEPT !.out = o, !.lock = 0] BY <1>1, <1>2
 <2> HIDE DEF o, sent, cl
 <2> QED BY <1>1, <2>1 DEF RpClient, o
<1>4. rp_cl' = cl2 /\ rp_call' = [rp_call EXCEPT ![x] = v] /\ UNCHANGED <<rp_close, rp_up, rp_down, rp_sv, rp_sc, rp_poll>>
  BY DEF RpEndRequest
<1>5. v \in RpAfter /\ v \in RpState /\ v \notin {"check", "write"} BY DEF RpAfter, RpState
<1> HIDE DEF cl
<1>6. /\ cl2 \in RpClient /\ cl2.status = rp_cl.status /\ cl2.in = rp_cl.in
      /\ cl2.lost = rp_cl.lost /\ cl2.pend = rp_cl.pend
      /\ cl2.out = IF sent THEN Append(rp_cl.out, x) ELSE rp_cl.out BY <1>3, RpModeOnly
<1> HIDE DEF cl2
<1>7. CASE ~sent
 <2> HIDE DEF v
 <2>1. cl2.out = rp_cl.out BY <1>6, <1>7
 <2> HIDE DEF sent
 <2> QED BY <1>4, <1>5, <1>6, <2>1, RpCallStep
<1>8. CASE sent
 <2>1. RpTalk(rp_up, rp_cl.out, rp_sc[RpMine].busy, rp_down, rp_cl.in, rp_cl.pend, rp_call)
   BY <1>8 DEF RpInv, RpClientOK
 <2>2. RpTalk(rp_up, Append(rp_cl.out, x), rp_sc[RpMine].busy, rp_down, rp_cl.in, rp_cl.pend,
              [rp_call EXCEPT ![x] = "waiting"]) BY <1>1, <1>8, <2>1, RpTalkSend
 <2>3. cl2.out = Append(rp_cl.out, x) /\ v = "waiting" BY <1>6, <1>8
 <2> HIDE DEF v, sent
 <2>4. RpTypeOK' BY <1>4, <1>5, <1>6 DEF RpInv, RpTypeOK
 <2>5. RpServerOK' BY <1>4, RpServerStays DEF RpInv, serverVars
 <2>6. RpRequestsOK' BY <1>4, <1>6 DEF RpInv, RpRequestsOK
 <2>7. RpClientOK' BY <1>4, <1>6, <2>2, <2>3 DEF RpInv, RpClientOK
 <2> QED BY <2>4, <2>5, <2>6, <2>7 DEF RpInv
<1> QED BY <1>7, <1>8

LEMMA RpHandleWriteInv ==
  ASSUME RpInv, RpHandleWrite PROVE RpInv'
<1>1. /\ rp_cl \in RpClient /\ rp_cl.out \in Seq(RpXids) /\ rp_up \in Seq(RpXids) /\ Len(rp_cl.out) \in Nat
      /\ rp_cl.status = "CONNECTED" BY RpClientFields, LenProperties DEF RpInv, RpTypeOK, RpHandleWrite
<1> DEFINE o(k) == SubSeq(rp_cl.out, k + 1, Len(rp_cl.out))
<1>2. PICK k \in RpTaken :
        /\ rp_up' = rp_up \o SubSeq(rp_cl.out, 1, k)
        /\ rp_cl' = IF k = Len(rp_cl.out)
                    THEN RpMode([rp_cl EXCEPT !.out = <<>>, !.edge = FALSE], "read")
                    ELSE [rp_cl EXCEPT !.out = o(k), !.edge = FALSE] BY DEF RpHandleWrite
<1>3. UNCHANGED <<rp_call, rp_fu, rp_close, rp_down, rp_sv, rp_sc, rp_poll>> BY DEF RpHandleWrite
<1>4. k \in 0 .. Len(rp_cl.out)
 <2>1. Len(<<>>) = 0 BY EmptySeq
 <2> QED BY <1>1, <2>1 DEF RpTaken
<1> DEFINE up2 == rp_up \o SubSeq(rp_cl.out, 1, k)
           out2 == o(k)
<1>5. RpTalk(rp_up, rp_cl.out, rp_sc[RpMine].busy, rp_down, rp_cl.in, rp_cl.pend, rp_call) BY <1>1 DEF RpInv, RpClientOK
<1>6. /\ RpTalk(up2, out2, rp_sc[RpMine].busy, rp_down, rp_cl.in, rp_cl.pend, rp_call)
      /\ RpInjective(up2)
      /\ \A x \in RpIn(up2) : x \notin rp_sc[RpMine].busy \/ x \in RpIn(rp_up)
      /\ up2 \in Seq(RpXids) /\ out2 \in Seq(RpXids) BY <1>1, <1>4, <1>5, RpTalkWrite DEF RpInv, RpRequestsOK
<1>7. k = Len(rp_cl.out) => out2 = <<>> BY <1>1, SubSeqEmpty
<1> DEFINE cl2 == [rp_cl EXCEPT !.out = out2, !.edge = FALSE]
<1>8. rp_cl' = RpMode(cl2, "read") \/ rp_cl' = cl2
 <2> HIDE DEF out2
 <2>1. CASE k = Len(rp_cl.out) BY <1>2, <1>7, <2>1
 <2>2. CASE k # Len(rp_cl.out) BY <1>2, <2>2 DEF out2
 <2> QED BY <2>1, <2>2
<1> HIDE DEF up2, out2
<1>9. /\ cl2 \in RpClient /\ cl2.status = rp_cl.status /\ cl2.in = rp_cl.in
      /\ cl2.lost = rp_cl.lost /\ cl2.pend = rp_cl.pend /\ cl2.out = out2 BY <1>1, <1>6 DEF RpClient
<1> HIDE DEF cl2
<1>10. /\ rp_cl' \in RpClient /\ rp_cl'.status = rp_cl.status /\ rp_cl'.in = rp_cl.in
       /\ rp_cl'.lost = rp_cl.lost /\ rp_cl'.pend = rp_cl.pend /\ rp_cl'.out = out2 BY <1>8, <1>9, RpModeOnly
<1>11. rp_up' = up2 BY <1>2 DEF up2
<1>12. RpTypeOK' BY <1>3, <1>6, <1>10, <1>11 DEF RpInv, RpTypeOK
<1>13. RpServerOK' BY <1>3, RpServerStays DEF RpInv, serverVars
<1>14. RpRequestsOK' BY <1>1, <1>3, <1>6, <1>10, <1>11 DEF RpInv, RpRequestsOK
<1>15. RpClientOK' BY <1>3, <1>6, <1>10, <1>11 DEF RpInv, RpClientOK
<1> QED BY <1>12, <1>13, <1>14, <1>15 DEF RpInv

LEMMA RpWritableInv ==
  ASSUME RpInv, RpWritable PROVE RpInv'
<1>1. /\ rp_cl' \in RpClient /\ rp_cl'.status = rp_cl.status /\ rp_cl'.in = rp_cl.in
      /\ rp_cl'.lost = rp_cl.lost /\ rp_cl'.pend = rp_cl.pend /\ rp_cl'.out = rp_cl.out
  BY DEF RpInv, RpTypeOK, RpWritable, RpClient
<1>2. UNCHANGED <<rp_call, rp_fu, rp_close, rp_up, rp_down, rp_sv, rp_sc, rp_poll>> BY DEF RpWritable
<1>3. RpTypeOK' BY <1>1, <1>2 DEF RpInv, RpTypeOK
<1>4. RpServerOK' BY <1>2, RpServerStays DEF RpInv, serverVars
<1>5. RpRequestsOK' BY <1>1, <1>2 DEF RpInv, RpRequestsOK
<1>6. RpClientOK' BY <1>1, <1>2 DEF RpInv, RpClientOK
<1> QED BY <1>3, <1>4, <1>5, <1>6 DEF RpInv

LEMMA RpHandleReadInv ==
  ASSUME RpInv, RpHandleRead PROVE RpInv'
<1>1. rp_cl \in RpClient /\ rp_down \in Seq(RpPart) /\ rp_cl.status = "CONNECTED" /\ rp_cl.in = <<>>
  BY DEF RpInv, RpTypeOK, RpHandleRead
<1>2. UNCHANGED <<rp_call, rp_fu, rp_close, rp_up, rp_sv, rp_sc, rp_poll>> /\ rp_down' = <<>> BY DEF RpHandleRead
<1>3. /\ rp_cl' \in RpClient /\ rp_cl'.status = rp_cl.status /\ rp_cl'.in = rp_down
      /\ rp_cl'.lost = rp_cl.lost /\ rp_cl'.pend = rp_cl.pend /\ rp_cl'.out = rp_cl.out
  BY <1>1 DEF RpHandleRead, RpClient
<1>4. RpTalk(rp_up, rp_cl.out, rp_sc[RpMine].busy, rp_down, <<>>, rp_cl.pend, rp_call) BY <1>1 DEF RpInv, RpClientOK
<1>5. RpTalk(rp_up, rp_cl.out, rp_sc[RpMine].busy, <<>>, rp_down, rp_cl.pend, rp_call) /\ RpTurns(rp_down)
  BY <1>4, RpTalkRead
<1>6. RpTypeOK' BY <1>2, <1>3, RpNoReply DEF RpInv, RpTypeOK
<1>7. RpServerOK' BY <1>2, RpServerStays DEF RpInv, serverVars
<1>8. RpRequestsOK' BY <1>2, <1>3 DEF RpInv, RpRequestsOK
<1>9. RpClientOK' BY <1>2, <1>3, <1>5 DEF RpInv, RpClientOK
<1> QED BY <1>6, <1>7, <1>8, <1>9 DEF RpInv

LEMMA RpReadReplyInv ==
  ASSUME RpInv, RpReadReply PROVE RpInv'
<1> DEFINE h == Head(rp_cl.in)
           x == h.xid
<1>1. rp_cl \in RpClient /\ rp_cl.in \in Seq(RpPart) /\ rp_cl.in # <<>> /\ RpTurns(rp_cl.in)
      /\ rp_cl.pend \in SUBSET RpXids BY RpClientFields DEF RpInv, RpTypeOK, RpClientOK, RpReadReply
<1>2. UNCHANGED <<rp_call, rp_close, rp_up, rp_down, rp_sv, rp_sc, rp_poll>> BY DEF RpReadReply
<1>3. ASSUME rp_cl.status # "CLOSED"
      PROVE  /\ h.part = "header" /\ x \in rp_cl.pend
             /\ RpTalk(rp_up, rp_cl.out, rp_sc[RpMine].busy, rp_down, Tail(Tail(rp_cl.in)), rp_cl.pend \ {x}, rp_call)
 <2>1. RpTalk(rp_up, rp_cl.out, rp_sc[RpMine].busy, rp_down, rp_cl.in, rp_cl.pend, rp_call)
   BY <1>3 DEF RpInv, RpClientOK
 <2> QED BY <1>1, <2>1, RpTalkReadReply
<1>4. h.part # "body" => /\ Tail(rp_cl.in) \in Seq(RpPart) /\ RpTurns(Tail(rp_cl.in))
                         /\ Tail(Tail(rp_cl.in)) \in Seq(RpPart) /\ RpTurns(Tail(Tail(rp_cl.in))) BY <1>1, RpReadOn
<1>5. \/ /\ h.part = "body" /\ rp_cl' = [rp_cl EXCEPT !.in = <<>>, !.lost = TRUE]
      \/ /\ h.part # "body" /\ x \in rp_cl.pend
         /\ rp_cl' = [rp_cl EXCEPT !.in = Tail(Tail(@)), !.pend = @ \ {x}]
      \/ /\ h.part # "body" /\ x \notin rp_cl.pend
         /\ rp_cl' = [rp_cl EXCEPT !.in = Tail(@)] BY DEF RpReadReply
<1> HIDE DEF x, h
<1>6. /\ rp_cl' \in RpClient /\ rp_cl'.status = rp_cl.status /\ rp_cl'.out = rp_cl.out /\ RpTurns(rp_cl'.in)
      /\ rp_cl'.lost = rp_cl.lost \/ rp_cl.status = "CLOSED"
      /\ rp_cl.status # "CLOSED" => rp_cl'.in = Tail(Tail(rp_cl.in)) /\ rp_cl'.pend = rp_cl.pend \ {x}
 <2>1. CASE h.part = "body" /\ rp_cl' = [rp_cl EXCEPT !.in = <<>>, !.lost = TRUE]
  <3>1. rp_cl' \in RpClient /\ rp_cl'.status = rp_cl.status /\ rp_cl'.out = rp_cl.out /\ rp_cl'.in = <<>>
    BY <1>1, <2>1, RpNoReply DEF RpClient
  <3> QED BY <1>3, <2>1, <3>1, RpNoReply
 <2>2. CASE h.part # "body" /\ rp_cl' = [rp_cl EXCEPT !.in = Tail(Tail(@)), !.pend = @ \ {x}]
  <3>1. /\ rp_cl' \in RpClient /\ rp_cl'.status = rp_cl.status /\ rp_cl'.out = rp_cl.out
        /\ rp_cl'.in = Tail(Tail(rp_cl.in)) /\ rp_cl'.pend = rp_cl.pend \ {x} /\ rp_cl'.lost = rp_cl.lost
   <4> DEFINE i2 == Tail(Tail(rp_cl.in))
   <4>1. i2 \in Seq(RpPart) BY <1>4, <2>2
   <4>2. rp_cl' = [rp_cl EXCEPT !.in = i2, !.pend = rp_cl.pend \ {x}] BY <2>2
   <4> HIDE DEF i2
   <4>3. /\ rp_cl' \in RpClient /\ rp_cl'.status = rp_cl.status /\ rp_cl'.out = rp_cl.out
         /\ rp_cl'.in = i2 /\ rp_cl'.pend = rp_cl.pend \ {x} /\ rp_cl'.lost = rp_cl.lost
     BY <1>1, <4>1, <4>2 DEF RpClient
   <4> QED BY <4>3 DEF i2
  <3> QED BY <1>4, <2>2, <3>1
 <2>3. CASE h.part # "body" /\ x \notin rp_cl.pend /\ rp_cl' = [rp_cl EXCEPT !.in = Tail(@)]
  <3> DEFINE i2 == Tail(rp_cl.in)
  <3>1. i2 \in Seq(RpPart) /\ RpTurns(i2) /\ rp_cl.status = "CLOSED" BY <1>3, <1>4, <2>3
  <3>2. rp_cl' = [rp_cl EXCEPT !.in = i2] BY <2>3
  <3> HIDE DEF i2
  <3>3. rp_cl' \in RpClient /\ rp_cl'.status = rp_cl.status /\ rp_cl'.out = rp_cl.out /\ rp_cl'.in = i2
    BY <1>1, <3>1, <3>2 DEF RpClient
  <3> QED BY <3>1, <3>3
 <2> QED BY <1>5, <2>1, <2>2, <2>3
<1>7. RpTypeOK' BY <1>2, <1>6 DEF RpInv, RpTypeOK
<1>8. RpServerOK' BY <1>2, RpServerStays DEF RpInv, serverVars
<1>9. RpRequestsOK' BY <1>2, <1>6 DEF RpInv, RpRequestsOK
<1>10. RpClientOK'
 <2>1. RpClientOK BY DEF RpInv
 <2>2. (rp_cl.status # "CLOSED" =>
         RpTalk(rp_up, rp_cl.out, rp_sc[RpMine].busy, rp_down, rp_cl.in, rp_cl.pend, rp_call))' BY <1>2, <1>3, <1>6
 <2> QED BY <1>2, <1>6, <2>1, <2>2 DEF RpClientOK
<1> QED BY <1>7, <1>8, <1>9, <1>10 DEF RpInv

(* The steps of Client::close. *)
LEMMA RpCloseInv ==
  ASSUME RpInv, NEW th \in RpClosers, RpClose(th) \/ RpCloseMark(th) \/ RpInvalidate(th) PROVE RpInv'
<1>1. UNCHANGED <<rp_call, rp_up, rp_down, rp_sv, rp_sc, rp_poll>> BY DEF RpClose, RpCloseMark, RpInvalidate
<1>2. /\ rp_cl' \in RpClient /\ rp_cl'.in = rp_cl.in /\ rp_cl'.lost = rp_cl.lost
      /\ \/ rp_cl'.status = "CLOSED"
         \/ rp_cl'.status = rp_cl.status /\ rp_cl'.pend = rp_cl.pend /\ rp_cl'.out = rp_cl.out
      /\ rp_close' \in [RpClosers -> {"run", "mark", "fail", "end"}]
      /\ rp_cl.status = "CLOSED" => rp_cl'.status = "CLOSED"
      /\ \A u \in RpClosers : rp_close'[u] \in {"fail", "end"} => rp_cl'.status = "CLOSED"
 <2>1. rp_cl \in RpClient /\ rp_close \in [RpClosers -> {"run", "mark", "fail", "end"}]
       /\ \A u \in RpClosers : rp_close[u] \in {"fail", "end"} => rp_cl.status = "CLOSED"
   BY DEF RpInv, RpTypeOK, RpClientOK
 <2>2. CASE RpClose(th)
  <3>1. /\ rp_cl' \in RpClient /\ rp_cl'.in = rp_cl.in /\ rp_cl'.lost = rp_cl.lost
        /\ rp_cl'.status = rp_cl.status /\ rp_cl'.pend = rp_cl.pend /\ rp_cl'.out = rp_cl.out
    BY <2>1, <2>2 DEF RpClose, RpClient
  <3>2. rp_close' = [rp_close EXCEPT ![th] = "mark"] BY <2>2 DEF RpClose
  <3> QED BY <2>1, <3>1, <3>2
 <2>3. CASE RpCloseMark(th)
  <3>1. /\ rp_cl' \in RpClient /\ rp_cl'.in = rp_cl.in /\ rp_cl'.lost = rp_cl.lost
        /\ rp_cl'.status = "CLOSED" BY <2>1, <2>3 DEF RpCloseMark, RpClient
  <3>2. rp_close' = [rp_close EXCEPT ![th] = "fail"] BY <2>3 DEF RpCloseMark
  <3> QED BY <2>1, <3>1, <3>2
 <2>4. CASE RpInvalidate(th)
  <3>1. /\ rp_cl' \in RpClient /\ rp_cl'.in = rp_cl.in /\ rp_cl'.lost = rp_cl.lost
        /\ rp_cl'.status = rp_cl.status BY <2>1, <2>4 DEF RpInvalidate, RpClient
  <3>2. rp_close' = [rp_close EXCEPT ![th] = "end"] /\ rp_close[th] = "fail" BY <2>4 DEF RpInvalidate
  <3> QED BY <2>1, <3>1, <3>2
 <2> QED BY <2>2, <2>3, <2>4
<1>3. RpTypeOK' BY <1>1, <1>2 DEF RpInv, RpTypeOK
<1>4. RpServerOK' BY <1>1, RpServerStays DEF RpInv, serverVars
<1>5. RpRequestsOK' BY <1>1, <1>2 DEF RpInv, RpRequestsOK
<1>6. RpClientOK' BY <1>1, <1>2 DEF RpInv, RpClientOK
<1> QED BY <1>3, <1>4, <1>5, <1>6 DEF RpInv

(* A step of the server alone that leaves the client's requests in work. *)
LEMMA RpClientStays ==
  ASSUME RpInv, UNCHANGED <<rp_cl, rp_call, rp_close, rp_up, rp_down>>,
         rp_sc'[RpMine].busy = rp_sc[RpMine].busy,
         rp_cl.status = "NEW" => rp_sc'[RpMine].status = "NEW" /\ ~rp_sc'[RpMine].waiting
  PROVE RpClientOK' /\ RpRequestsOK'
BY DEF RpInv, RpClientOK, RpRequestsOK

(* A step about one connection. *)
LEMMA RpOneConn ==
  ASSUME RpTypeOK, RpServerOK, NEW c \in RpConns, NEW z \in RpConn, rp_sc' = [rp_sc EXCEPT ![c] = z],
         \A d \in RpConns : d # c => /\ d \in rp_sv'.sconns <=> d \in rp_sv.sconns
                                     /\ d \in rp_poll'.set <=> d \in rp_poll.set
                                     /\ d \in rp_poll'.removing <=> d \in rp_poll.removing,
         RpConnOK(c)'
  PROVE  /\ \A d \in RpConns : RpConnOK(d)'
         /\ rp_sc' \in [RpConns -> RpConn] /\ rp_sc'[c] = z
         /\ \A d \in RpConns : d # c => rp_sc'[d] = rp_sc[d]
<1>1. rp_sc' \in [RpConns -> RpConn] /\ rp_sc'[c] = z /\ \A d \in RpConns : d # c => rp_sc'[d] = rp_sc[d]
  BY DEF RpTypeOK
<1>2. ASSUME NEW d \in RpConns, d # c PROVE RpConnOK(d)'
 <2>1. RpConnOK(d) BY DEF RpServerOK
 <2>2. rp_sc'[d] = rp_sc[d] BY <1>1, <1>2
 <2> QED BY <1>2, <2>1, <2>2 DEF RpConnOK
<1> QED BY <1>1, <1>2

(* A connection is made. *)
LEMMA RpConnectInv ==
  ASSUME RpInv, RpConnect PROVE RpInv'
<1> DEFINE z == [rp_sc[RpMine] EXCEPT !.waiting = TRUE]
<1>1. /\ rp_cl \in RpClient /\ rp_sc \in [RpConns -> RpConn] /\ RpMine \in RpConns
      /\ rp_sc[RpMine].status = "NEW" /\ RpConnOK(RpMine) /\ rp_cl.status = "NEW"
  BY RpAssumption DEF RpInv, RpTypeOK, RpRequestsOK, RpServerOK, RpConnect
<1>2. /\ rp_cl' \in RpClient /\ rp_cl'.in = rp_cl.in /\ rp_cl'.lost = rp_cl.lost /\ rp_cl'.status = "CONNECTED"
      /\ rp_cl'.pend = rp_cl.pend /\ rp_cl'.out = rp_cl.out BY <1>1 DEF RpConnect, RpClient
<1>3. UNCHANGED <<rp_call, rp_close, rp_up, rp_down, rp_sv, rp_poll>> BY DEF RpConnect
<1>4. rp_sc' = [rp_sc EXCEPT ![RpMine] = z] BY <1>1 DEF RpConnect
<1>5. /\ z \in RpConn /\ z.status = "NEW" /\ z.busy = rp_sc[RpMine].busy /\ z.refs = rp_sc[RpMine].refs
      /\ z.open = rp_sc[RpMine].open /\ z.fd = rp_sc[RpMine].fd BY <1>1 DEF RpConn
<1> HIDE DEF z
<1>6. rp_sc'[RpMine] = z BY <1>1, <1>4
<1>7. RpConnOK(RpMine)' BY <1>1, <1>3, <1>5, <1>6 DEF RpConnOK
<1>8. /\ \A d \in RpConns : RpConnOK(d)'
      /\ rp_sc' \in [RpConns -> RpConn]
      /\ \A d \in RpConns : d # RpMine => rp_sc'[d] = rp_sc[d] BY <1>1, <1>3, <1>4, <1>5, <1>7, RpOneConn DEF RpInv
<1>9. \A d \in RpConns : rp_sc'[d].open = rp_sc[d].open /\ rp_sc'[d].fd = rp_sc[d].fd BY <1>5, <1>6, <1>8
<1>10. RpTypeOK' BY <1>2, <1>3, <1>8 DEF RpInv, RpTypeOK
<1>11. RpServerOK' BY <1>3, <1>8, <1>9 DEF RpInv, RpServerOK, RpTypeOK
<1>12. RpRequestsOK' BY <1>2, <1>3, <1>5, <1>6 DEF RpInv, RpRequestsOK
<1>13. RpClientOK' BY <1>1, <1>2, <1>3, <1>5, <1>6 DEF RpInv, RpClientOK
<1> QED BY <1>10, <1>11, <1>12, <1>13 DEF RpInv

LEMMA RpArriveInv ==
  ASSUME RpInv, NEW c \in RpConns, RpArrive(c) PROVE RpInv'
<1> DEFINE z == [rp_sc[c] EXCEPT !.waiting = TRUE]
<1>1. rp_sc \in [RpConns -> RpConn] /\ RpMine \in RpConns /\ c # RpMine /\ RpConnOK(c) /\ rp_sc[c].status = "NEW"
  BY RpAssumption DEF RpInv, RpTypeOK, RpServerOK, RpArrive
<1>2. UNCHANGED <<rp_cl, rp_call, rp_close, rp_up, rp_down, rp_sv, rp_poll>> BY DEF RpArrive
<1>3. rp_sc' = [rp_sc EXCEPT ![c] = z] BY <1>1 DEF RpArrive
<1>4. /\ z \in RpConn /\ z.status = "NEW" /\ z.busy = rp_sc[c].busy /\ z.refs = rp_sc[c].refs
      /\ z.open = rp_sc[c].open /\ z.fd = rp_sc[c].fd BY <1>1 DEF RpConn
<1> HIDE DEF z
<1>5. rp_sc'[c] = z BY <1>1, <1>3
<1>6. RpConnOK(c)' BY <1>1, <1>2, <1>4, <1>5 DEF RpConnOK
<1>7. /\ \A d \in RpConns : RpConnOK(d)'
      /\ rp_sc' \in [RpConns -> RpConn]
      /\ \A d \in RpConns : d # c => rp_sc'[d] = rp_sc[d] BY <1>2, <1>3, <1>4, <1>6, RpOneConn DEF RpInv
<1>8. \A d \in RpConns : rp_sc'[d].open = rp_sc[d].open /\ rp_sc'[d].fd = rp_sc[d].fd BY <1>4, <1>5, <1>7
<1>9. RpTypeOK' BY <1>2, <1>7 DEF RpInv, RpTypeOK
<1>10. RpServerOK' BY <1>2, <1>7, <1>8 DEF RpInv, RpServerOK, RpTypeOK
<1>11. rp_sc'[RpMine] = rp_sc[RpMine] BY <1>1, <1>7
<1>12. RpClientOK' /\ RpRequestsOK' BY <1>2, <1>11, RpClientStays DEF RpInv, RpRequestsOK
<1> QED BY <1>9, <1>10, <1>12 DEF RpInv

(* A nonempty set of numbers has a least one. *)
LEMMA RpSmallest ==
  ASSUME NEW S \in SUBSET Nat, S # {}
  PROVE \E x \in S : \A y \in S : x <= y
<1> DEFINE R == {p \in Nat \X Nat : p[1] < p[2]}
<1>1. OpToRel(<, Nat) = R BY DEF OpToRel
<1>2. IsWellFoundedOn(R, Nat) BY <1>1, NatLessThanWellFounded
<1> HIDE DEF R
<1>3. PICK x \in S : \A y \in S : ~(<<y, x>> \in R) BY <1>2, WFMin
<1>4. ASSUME NEW y \in S PROVE x <= y
 <2>1. ~(<<y, x>> \in R) /\ y \in Nat /\ x \in Nat BY <1>3
 <2> QED BY <2>1 DEF R
<1> QED BY <1>4

(* accept finds a free descriptor: there are as many as connections, and the one that is
   accepted has none yet. *)
LEMMA RpFreeFd ==
  ASSUME RpTypeOK, NEW c \in RpConns, ~rp_sc[c].open
  PROVE  LET fd == CHOOSE f \in RpFreeFds : \A g \in RpFreeFds : f <= g
         IN  fd \in RpConns /\ \A d \in RpConns : rp_sc[d].open => rp_sc[d].fd # fd
<1> DEFINE Q == {d \in RpConns : rp_sc[d].open}
           F == {rp_sc[d].fd : d \in Q}
           f == [d \in Q |-> rp_sc[d].fd]
<1>1. RpConns \subseteq Nat /\ IsFiniteSet(RpConns) BY RpAssumption
<1>2. c \notin Q /\ Q \in SUBSET RpConns /\ RpFreeFds = RpConns \ F BY DEF RpFreeFds
<1>3. f \in Surjection(Q, F) BY DEF Surjection
<1> HIDE DEF F, f
<1>4. /\ IsFiniteSet(Q) /\ Cardinality(Q) <= Cardinality(RpConns)
      /\ Cardinality(Q) # Cardinality(RpConns)
      /\ Cardinality(Q) \in Nat /\ Cardinality(RpConns) \in Nat
 <2> HIDE DEF Q
 <2>1. IsFiniteSet(Q) /\ Cardinality(Q) <= Cardinality(RpConns) /\ (Cardinality(RpConns) = Cardinality(Q) => RpConns = Q)
   BY <1>1, <1>2, FS_Subset
 <2> QED BY <1>1, <1>2, <2>1, FS_CardinalityType
<1>5. IsFiniteSet(F) /\ Cardinality(F) <= Cardinality(Q) /\ Cardinality(F) \in Nat
 <2> HIDE DEF Q
 <2> QED BY <1>3, <1>4, FS_Surjection, FS_CardinalityType
<1>6. RpFreeFds # {}
 <2> SUFFICES ASSUME RpFreeFds = {} PROVE FALSE OBVIOUS
 <2>1. RpConns \in SUBSET F BY <1>2
 <2>2. Cardinality(RpConns) <= Cardinality(F) BY <1>5, <2>1, FS_Subset
 <2> QED BY <1>4, <1>5, <2>2
<1>7. RpFreeFds \in SUBSET Nat BY <1>1, <1>2
<1>8. \E g \in RpFreeFds : \A h \in RpFreeFds : g <= h BY <1>6, <1>7, RpSmallest
<1> DEFINE fd == CHOOSE g \in RpFreeFds : \A h \in RpFreeFds : g <= h
<1>9. fd \in RpFreeFds BY <1>8
<1> HIDE DEF fd
<1>10. fd \in RpConns /\ fd \notin F BY <1>2, <1>9
<1>11. \A d \in RpConns : rp_sc[d].open => rp_sc[d].fd # fd BY <1>10 DEF F
<1> QED BY <1>10, <1>11 DEF fd

(* The fields of a connection that is accepted. *)
LEMMA RpConnAccepted ==
  ASSUME NEW y \in RpConn, NEW f \in Nat, NEW r \in Int, NEW v \in {"CONNECTED", "DROPPED"}
  PROVE  LET z == [y EXCEPT !.waiting = FALSE, !.status = v, !.refs = r, !.open = TRUE, !.fd = f]
         IN  /\ z \in RpConn /\ z.status = v /\ z.busy = y.busy /\ z.refs = r
             /\ z.open /\ z.fd = f /\ ~z.waiting
<1> DEFINE z == [y EXCEPT !.waiting = FALSE, !.status = v, !.refs = r, !.open = TRUE, !.fd = f]
<1>1. z \in RpConn BY DEF RpConn
<1>2. z.busy = y.busy /\ z.refs = r /\ z.fd = f /\ z.status = v BY DEF RpConn
<1>3. z.open /\ ~z.waiting BY DEF RpConn
<1> QED BY <1>1, <1>2, <1>3

(* accept of a server that is not stopping. *)
LEMMA RpRegisterInv ==
  ASSUME RpInv, NEW c \in RpConns, RpAccept(c), rp_sv.status = "RUNNING" PROVE RpInv'
<1> DEFINE fd == CHOOSE f \in RpFreeFds : \A g \in RpFreeFds : f <= g
           z == [rp_sc[c] EXCEPT !.waiting = FALSE, !.status = "CONNECTED", !.refs = 2, !.open = TRUE, !.fd = fd]
           p == RpPollAdd(rp_poll, c, fd)
<1>1. /\ rp_sc \in [RpConns -> RpConn] /\ RpConnOK(c) /\ rp_sc[c].status = "NEW" /\ ~rp_sc[c].open
      /\ RpConns \subseteq Nat /\ RpTypeOK /\ RpServerOK /\ rp_sc[c].waiting
  BY RpAssumption DEF RpInv, RpTypeOK, RpServerOK, RpAccept, RpConnOK
<1>2. fd \in RpConns /\ \A d \in RpConns : rp_sc[d].open => rp_sc[d].fd # fd BY <1>1, RpFreeFd
<1>3. /\ rp_sc' = [rp_sc EXCEPT ![c] = z] /\ rp_poll' = p
      /\ rp_sv' = [rp_sv EXCEPT !.turn = FALSE, !.sconns = @ \cup {c}]
      /\ UNCHANGED <<rp_cl, rp_call, rp_close, rp_up, rp_down>> BY DEF RpAccept
<1> HIDE DEF fd
<1>4. /\ z \in RpConn /\ z.status = "CONNECTED" /\ z.busy = rp_sc[c].busy /\ z.refs = 2
      /\ z.open /\ z.fd = fd /\ ~z.waiting
 <2>1. rp_sc[c] \in RpConn /\ fd \in Nat /\ 2 \in Int BY <1>1, <1>2
 <2> QED BY <2>1, RpConnAccepted
<1>5. /\ p \in [set : SUBSET RpConns, removing : SUBSET RpConns, watched : [RpConns -> Nat]]
      /\ p.set = rp_poll.set \cup {c} /\ p.removing = rp_poll.removing
      /\ p.watched = [rp_poll.watched EXCEPT ![fd] = c] /\ rp_poll.watched \in [RpConns -> Nat]
  BY <1>1, <1>2 DEF RpTypeOK, RpPollAdd
<1>6. /\ rp_sv' \in RpServer
      /\ rp_sv'.sconns = rp_sv.sconns \cup {c} BY <1>1, <1>3 DEF RpTypeOK, RpServer
<1> HIDE DEF z, p
<1>7. rp_sc'[c] = z BY <1>1, <1>3
<1>8. RpConnOK(c)'
 <2>1. z.busy = {} /\ c \notin rp_poll.removing BY <1>1, <1>4 DEF RpConnOK
 <2>2. Cardinality(z.busy) = 0 /\ IsFiniteSet(z.busy) BY <2>1, FS_EmptySet
 <2>3. c \in rp_sv'.sconns /\ c \in rp_poll'.set /\ c \notin rp_poll'.removing BY <1>3, <1>5, <1>6, <2>1
 <2> QED BY <1>2, <1>4, <1>7, <2>2, <2>3 DEF RpConnOK
<1>9. /\ \A d \in RpConns : RpConnOK(d)'
      /\ rp_sc' \in [RpConns -> RpConn]
      /\ \A d \in RpConns : d # c => rp_sc'[d] = rp_sc[d] BY <1>1, <1>3, <1>4, <1>5, <1>6, <1>8, RpOneConn
<1>10. \A d, e \in RpConns : rp_sc'[d].open /\ rp_sc'[e].open /\ rp_sc'[d].fd = rp_sc'[e].fd => d = e
  BY <1>1, <1>2, <1>4, <1>7, <1>9 DEF RpServerOK
<1>11. \A d \in rp_poll'.set : rp_poll'.watched[rp_sc'[d].fd] = d
 <2> SUFFICES ASSUME NEW d \in p.set PROVE p.watched[rp_sc'[d].fd] = d BY <1>3
 <2>1. CASE d = c BY <1>2, <1>4, <1>5, <1>7, <2>1
 <2>2. CASE d # c
  <3>1. d \in rp_poll.set /\ d \in RpConns BY <1>5, <2>2
  <3>2. rp_sc[d].open /\ rp_sc[d].fd \in RpConns /\ rp_poll.watched[rp_sc[d].fd] = d
    BY <1>1, <3>1 DEF RpServerOK, RpConnOK
  <3>3. rp_sc[d].fd # fd BY <1>2, <3>1, <3>2
  <3> QED BY <1>2, <1>5, <1>9, <2>2, <3>1, <3>2, <3>3
 <2> QED BY <2>1, <2>2
<1>12. RpServerOK' BY <1>9, <1>10, <1>11 DEF RpServerOK
<1>13. RpTypeOK' BY <1>1, <1>3, <1>5, <1>6, <1>9 DEF RpTypeOK
<1>14. RpClientOK' /\ RpRequestsOK'
 <2>1. rp_sc'[RpMine].busy = rp_sc[RpMine].busy BY <1>4, <1>7, <1>9, RpAssumption
 <2>2. rp_cl.status = "NEW" => c # RpMine BY <1>1 DEF RpInv, RpRequestsOK
 <2>3. rp_cl.status = "NEW" => rp_sc'[RpMine].status = "NEW" /\ ~rp_sc'[RpMine].waiting
   BY <1>9, <2>2, RpAssumption DEF RpInv, RpRequestsOK
 <2> QED BY <1>3, <2>1, <2>3, RpClientStays
<1> QED BY <1>12, <1>13, <1>14 DEF RpInv

(* accept of a server that is: the connection is dropped. *)
LEMMA RpDropInv ==
  ASSUME RpInv, NEW c \in RpConns, RpAccept(c), rp_sv.status # "RUNNING" PROVE RpInv'
<1> DEFINE fd == CHOOSE f \in RpFreeFds : \A g \in RpFreeFds : f <= g
           z == [rp_sc[c] EXCEPT !.waiting = FALSE, !.status = "DROPPED", !.open = TRUE, !.fd = fd]
<1>1. /\ rp_sc \in [RpConns -> RpConn] /\ RpConnOK(c) /\ rp_sc[c].status = "NEW" /\ ~rp_sc[c].open
      /\ RpConns \subseteq Nat /\ RpTypeOK /\ RpServerOK /\ rp_sc[c].waiting
  BY RpAssumption DEF RpInv, RpTypeOK, RpServerOK, RpAccept, RpConnOK
<1>2. fd \in RpConns /\ \A d \in RpConns : rp_sc[d].open => rp_sc[d].fd # fd BY <1>1, RpFreeFd
<1>3. /\ rp_sc' = [rp_sc EXCEPT ![c] = z] /\ rp_poll' = rp_poll
      /\ rp_sv' = [rp_sv EXCEPT !.turn = FALSE]
      /\ UNCHANGED <<rp_cl, rp_call, rp_close, rp_up, rp_down>> BY DEF RpAccept
<1> HIDE DEF fd
<1>4. /\ z \in RpConn /\ z.status = "DROPPED" /\ z.busy = rp_sc[c].busy /\ z.refs = rp_sc[c].refs
      /\ z.open /\ z.fd = fd /\ ~z.waiting
 <2> DEFINE r == rp_sc[c].refs
            y == [rp_sc[c] EXCEPT !.waiting = FALSE, !.status = "DROPPED", !.refs = r, !.open = TRUE, !.fd = fd]
 <2>1. rp_sc[c] \in RpConn /\ fd \in Nat /\ r \in Int BY <1>1, <1>2 DEF RpConn
 <2>2. y = z BY <2>1 DEF RpConn
 <2> HIDE DEF r
 <2>3. /\ y \in RpConn /\ y.status = "DROPPED" /\ y.busy = rp_sc[c].busy /\ y.refs = r
       /\ y.open /\ y.fd = fd /\ ~y.waiting BY <2>1, RpConnAccepted
 <2> HIDE DEF y, z
 <2> QED BY <2>2, <2>3 DEF r
<1>5. rp_sv' \in RpServer /\ rp_sv'.sconns = rp_sv.sconns BY <1>1, <1>3 DEF RpTypeOK, RpServer
<1> HIDE DEF z
<1>6. rp_sc'[c] = z BY <1>1, <1>3
<1>7. RpConnOK(c)'
 <2>1. c \notin rp_sv.sconns /\ c \notin rp_poll.set /\ c \notin rp_poll.removing BY <1>1 DEF RpConnOK
 <2> QED BY <1>1, <1>2, <1>3, <1>4, <1>5, <1>6, <2>1 DEF RpConnOK
<1>8. /\ \A d \in RpConns : RpConnOK(d)'
      /\ rp_sc' \in [RpConns -> RpConn]
      /\ \A d \in RpConns : d # c => rp_sc'[d] = rp_sc[d] BY <1>1, <1>3, <1>4, <1>5, <1>7, RpOneConn
<1>9. \A d, e \in RpConns : rp_sc'[d].open /\ rp_sc'[e].open /\ rp_sc'[d].fd = rp_sc'[e].fd => d = e
  BY <1>1, <1>2, <1>4, <1>6, <1>8 DEF RpServerOK
<1>10. \A d \in rp_poll'.set : rp_poll'.watched[rp_sc'[d].fd] = d
 <2>1. c \notin rp_poll.set /\ \A d \in rp_poll.set : d \in RpConns BY <1>1 DEF RpConnOK, RpTypeOK
 <2> QED BY <1>1, <1>3, <1>8, <2>1 DEF RpServerOK
<1>11. RpServerOK' BY <1>8, <1>9, <1>10 DEF RpServerOK
<1>12. RpTypeOK' BY <1>1, <1>3, <1>5, <1>8 DEF RpTypeOK
<1>13. RpClientOK' /\ RpRequestsOK'
 <2>1. rp_sc'[RpMine].busy = rp_sc[RpMine].busy BY <1>4, <1>6, <1>8, RpAssumption
 <2>2. rp_cl.status = "NEW" => c # RpMine BY <1>1 DEF RpInv, RpRequestsOK
 <2>3. rp_cl.status = "NEW" => rp_sc'[RpMine].status = "NEW" /\ ~rp_sc'[RpMine].waiting
   BY <1>8, <2>2, RpAssumption DEF RpInv, RpRequestsOK
 <2> QED BY <1>3, <2>1, <2>3, RpClientStays
<1> QED BY <1>11, <1>12, <1>13 DEF RpInv

LEMMA RpAcceptInv ==
  ASSUME RpInv, NEW c \in RpConns, RpAccept(c) PROVE RpInv'
BY RpRegisterInv, RpDropInv

LEMMA RpPollDropInv ==
  ASSUME RpInv, NEW c \in RpConns, RpPollDrop(c) PROVE RpInv'
<1> DEFINE z == RpRelease(rp_sc[c])
           p == RpPollSweep(rp_poll, c, RpFds)
<1>1. /\ rp_sc \in [RpConns -> RpConn] /\ RpConnOK(c) /\ RpTypeOK /\ RpServerOK /\ c \in rp_poll.removing
  BY DEF RpInv, RpTypeOK, RpServerOK, RpPollDrop
<1>2. c \notin rp_poll.set /\ rp_sc[c].fd \in RpConns BY <1>1 DEF RpConnOK
<1>3. /\ rp_sc' = [rp_sc EXCEPT ![c] = z] /\ rp_poll' = p
      /\ UNCHANGED <<rp_cl, rp_call, rp_close, rp_up, rp_down, rp_sv>> BY DEF RpPollDrop
<1>4. /\ z \in RpConn /\ z.status = rp_sc[c].status /\ z.busy = rp_sc[c].busy /\ z.refs = rp_sc[c].refs - 1
      /\ z.open = rp_sc[c].open /\ z.fd = rp_sc[c].fd /\ z.waiting = rp_sc[c].waiting BY <1>1 DEF RpConn, RpRelease
<1>5. /\ p \in [set : SUBSET RpConns, removing : SUBSET RpConns, watched : [RpConns -> Nat]]
      /\ p.set = rp_poll.set /\ p.removing = rp_poll.removing \ {c}
      /\ \A f \in RpFds : f \in RpConns => p.watched[f] = rp_poll.watched[f]
 <2> DEFINE w == IF rp_sc[c].fd \in RpFds THEN rp_poll.watched ELSE [rp_poll.watched EXCEPT ![rp_sc[c].fd] = 0]
 <2>1. rp_poll.watched \in [RpConns -> Nat] BY <1>1 DEF RpTypeOK
 <2>2. w \in [RpConns -> Nat] /\ \A f \in RpFds : f \in RpConns => w[f] = rp_poll.watched[f] BY <2>1
 <2>3. p = [rp_poll EXCEPT !.removing = rp_poll.removing \ {c}, !.watched = w] BY DEF RpPollSweep
 <2> HIDE DEF w, p
 <2> QED BY <1>1, <2>2, <2>3 DEF RpTypeOK
<1> HIDE DEF z, p
<1>6. rp_sc'[c] = z BY <1>1, <1>3
<1>7. RpConnOK(c)'
 <2>1. rp_sc[c].refs \in Int /\ Cardinality(rp_sc[c].busy) \in Nat BY <1>1, FS_CardinalityType DEF RpConn, RpConnOK
 <2> QED BY <1>1, <1>2, <1>3, <1>4, <1>5, <1>6, <2>1 DEF RpConnOK
<1>8. /\ \A d \in RpConns : RpConnOK(d)'
      /\ rp_sc' \in [RpConns -> RpConn]
      /\ \A d \in RpConns : d # c => rp_sc'[d] = rp_sc[d] BY <1>1, <1>3, <1>4, <1>5, <1>7, RpOneConn
<1>9. \A d \in RpConns : rp_sc'[d].open = rp_sc[d].open /\ rp_sc'[d].fd = rp_sc[d].fd BY <1>4, <1>6, <1>8
<1>10. ASSUME NEW d \in rp_poll.set PROVE p.watched[rp_sc'[d].fd] = d
 <2>1. d \in RpConns BY <1>1 DEF RpTypeOK
 <2>2. rp_sc[d].fd \in RpConns /\ rp_poll.watched[rp_sc[d].fd] = d /\ rp_sc[d].fd \in RpFds
   BY <1>1, <2>1 DEF RpServerOK, RpConnOK, RpFds
 <2> QED BY <1>5, <1>9, <2>1, <2>2
<1>11. RpServerOK' BY <1>1, <1>3, <1>5, <1>8, <1>9, <1>10 DEF RpServerOK
<1>12. RpTypeOK' BY <1>1, <1>3, <1>5, <1>8 DEF RpTypeOK
<1>13. RpClientOK' /\ RpRequestsOK'
 <2>1. /\ rp_sc'[RpMine].busy = rp_sc[RpMine].busy /\ rp_sc'[RpMine].status = rp_sc[RpMine].status
       /\ rp_sc'[RpMine].waiting = rp_sc[RpMine].waiting BY <1>4, <1>6, <1>8, RpAssumption
 <2> QED BY <1>3, <2>1, RpClientStays DEF RpInv, RpRequestsOK
<1> QED BY <1>11, <1>12, <1>13 DEF RpInv

(* ServerConnection::close and what its callers do to sconns_. *)
LEMMA RpConnCloseOK ==
  ASSUME RpInv, NEW c \in RpConns, RpConnClose(c), rp_sv'.sconns = rp_sv.sconns \ {c},
         rp_sv' \in RpServer,
         UNCHANGED <<rp_cl, rp_call, rp_close, rp_up, rp_down>>
  PROVE RpInv'
<1>1. /\ rp_sc \in [RpConns -> RpConn] /\ RpConnOK(c) /\ RpTypeOK /\ RpServerOK BY DEF RpInv, RpTypeOK, RpServerOK
<1>2. CASE c \notin rp_sv.sconns
 <2>1. UNCHANGED <<rp_sc, rp_poll>> /\ rp_sv'.sconns = rp_sv.sconns BY <1>2 DEF RpConnClose
 <2>2. RpServerOK' BY <1>1, <2>1 DEF RpServerOK, RpConnOK
 <2>3. RpTypeOK' BY <1>1, <2>1 DEF RpTypeOK
 <2>4. RpClientOK' /\ RpRequestsOK' BY <2>1, RpClientStays DEF RpInv, RpRequestsOK
 <2> QED BY <2>2, <2>3, <2>4 DEF RpInv
<1>3. CASE c \in rp_sv.sconns
 <2> DEFINE z == [RpRelease(rp_sc[c]) EXCEPT !.status = "CLOSED", !.open = FALSE]
            p == RpPollRemove(rp_poll, c)
 <2>1. rp_sc[c].status = "CONNECTED" /\ rp_sc[c].open BY <1>1, <1>3 DEF RpConnOK
 <2>2. rp_sc' = [rp_sc EXCEPT ![c] = z] /\ rp_poll' = p BY <1>3, <2>1 DEF RpConnClose
 <2>3. /\ z \in RpConn /\ z.status = "CLOSED" /\ z.busy = rp_sc[c].busy /\ z.refs = rp_sc[c].refs - 1
       /\ ~z.open /\ z.fd = rp_sc[c].fd /\ z.waiting = rp_sc[c].waiting
  <3>1. rp_sc[c] \in RpConn /\ rp_sc[c].refs - 1 \in Int BY <1>1 DEF RpConn
  <3>2. z \in RpConn /\ z.status = "CLOSED" /\ z.busy = rp_sc[c].busy /\ z.refs = rp_sc[c].refs - 1 /\ z.fd = rp_sc[c].fd
    BY <3>1 DEF RpConn, RpRelease
  <3>3. ~z.open /\ z.waiting = rp_sc[c].waiting BY <3>1 DEF RpConn, RpRelease
  <3> QED BY <3>2, <3>3
 <2>4. /\ p \in [set : SUBSET RpConns, removing : SUBSET RpConns, watched : [RpConns -> Nat]]
       /\ p.watched = rp_poll.watched
       /\ c \notin p.set /\ (c \in p.removing <=> c \in rp_poll.set \/ c \in rp_poll.removing)
       /\ \A d \in RpConns : d # c => (d \in p.set <=> d \in rp_poll.set) /\ (d \in p.removing <=> d \in rp_poll.removing)
       /\ \A d \in p.set : d \in rp_poll.set BY <1>1 DEF RpTypeOK, RpPollRemove
 <2> HIDE DEF z, p
 <2>5. rp_sc'[c] = z BY <1>1, <2>2
 <2>6. ~rp_sc[c].waiting /\ rp_sc[c].fd \in RpConns BY <1>1, <2>1 DEF RpConnOK
 <2>7. RpConnOK(c)'
  <3>1. rp_sc[c].refs \in Int /\ Cardinality(rp_sc[c].busy) \in Nat BY <1>1, FS_CardinalityType DEF RpConn, RpConnOK
  <3>2. c \notin rp_sv'.sconns OBVIOUS
  <3> QED BY <1>1, <1>3, <2>2, <2>3, <2>4, <2>5, <2>6, <3>1, <3>2 DEF RpConnOK
 <2>8. /\ \A d \in RpConns : RpConnOK(d)'
       /\ rp_sc' \in [RpConns -> RpConn]
       /\ \A d \in RpConns : d # c => rp_sc'[d] = rp_sc[d] BY <1>1, <2>2, <2>3, <2>4, <2>7, RpOneConn
 <2>9. \A d \in RpConns : (rp_sc'[d].open => rp_sc[d].open) /\ rp_sc'[d].fd = rp_sc[d].fd BY <2>3, <2>5, <2>8
 <2>10. RpServerOK'
  <3>1. \A d \in p.set : d \in RpConns /\ d \in rp_poll.set BY <2>4
  <3> QED BY <1>1, <2>2, <2>4, <2>8, <2>9, <3>1 DEF RpServerOK
 <2>11. RpTypeOK' BY <1>1, <2>2, <2>4, <2>8 DEF RpTypeOK
 <2>12. RpClientOK' /\ RpRequestsOK'
  <3>1. rp_sc'[RpMine].busy = rp_sc[RpMine].busy BY <2>3, <2>5, <2>8, RpAssumption
  <3>2. rp_cl.status = "NEW" => c # RpMine BY <2>1 DEF RpInv, RpRequestsOK
  <3>3. rp_cl.status = "NEW" => rp_sc'[RpMine].status = "NEW" /\ ~rp_sc'[RpMine].waiting
    BY <2>8, <3>2, RpAssumption DEF RpInv, RpRequestsOK
  <3> QED BY <3>1, <3>3, RpClientStays
 <2> QED BY <2>10, <2>11, <2>12 DEF RpInv
<1> QED BY <1>2, <1>3

LEMMA RpConnErrorInv ==
  ASSUME RpInv, NEW c \in RpConns, RpConnError(c) \/ RpStopClose(c) PROVE RpInv'
<1>1. rp_sv \in RpServer BY DEF RpInv, RpTypeOK
<1>2. /\ rp_sv' \in RpServer
      /\ rp_sv'.sconns = rp_sv.sconns \ {c}
 <2>1. CASE RpConnError(c) BY <1>1, <2>1 DEF RpConnError, RpServer
 <2>2. CASE RpStopClose(c) BY <1>1, <2>2 DEF RpStopClose, RpServer
 <2> QED BY <2>1, <2>2
<1>3. RpConnClose(c) /\ UNCHANGED <<rp_cl, rp_call, rp_close, rp_up, rp_down>> BY DEF RpConnError, RpStopClose
<1> QED BY <1>2, <1>3, RpConnCloseOK

(* The steps of server_loop and of ~Server that touch no connection. *)
LEMMA RpStopInv ==
  ASSUME RpInv, RpSelect \/ RpStop \/ RpLoopEnd \/ RpStopped PROVE RpInv'
<1>1. rp_sv' \in RpServer /\ rp_sv'.sconns = rp_sv.sconns
 <2>1. rp_sv \in RpServer BY DEF RpInv, RpTypeOK
 <2>2. CASE RpSelect BY <2>1, <2>2 DEF RpSelect, RpServer
 <2>3. CASE RpStop BY <2>1, <2>3 DEF RpStop, RpServer
 <2>4. CASE RpLoopEnd BY <2>1, <2>4 DEF RpLoopEnd, RpServer
 <2>5. CASE RpStopped BY <2>1, <2>5 DEF RpStopped, RpServer
 <2> QED BY <2>2, <2>3, <2>4, <2>5
<1>2. UNCHANGED <<rp_cl, rp_call, rp_fu, rp_close, rp_up, rp_down, rp_sc, rp_poll>>
  BY DEF RpSelect, RpStop, RpLoopEnd, RpStopped
<1>3. RpServerOK' BY <1>1, <1>2 DEF RpInv, RpServerOK, RpConnOK
<1>4. RpTypeOK' BY <1>1, <1>2 DEF RpInv, RpTypeOK
<1>5. RpClientOK' /\ RpRequestsOK' BY <1>2, RpClientStays DEF RpInv, RpRequestsOK
<1> QED BY <1>3, <1>4, <1>5 DEF RpInv

(* The requests in work are forgotten. *)
LEMMA RpTalkForgotten ==
  ASSUME NEW up, NEW out, NEW busy, NEW down, NEW in, NEW pend, NEW call,
         RpTalk(up, out, busy, down, in, pend, call)
  PROVE RpTalk(up, out, {}, down, in, pend, call)
<1> DEFINE U == RpIn(up)
           O == RpIn(out)
           D == RpReplied(down)
           I == RpReplied(in)
           A == U \cup O \cup busy \cup D \cup I
           A2 == U \cup O \cup {} \cup D \cup I
<1>1. RpAwaits(A, pend, call) /\ RpApart(U, O, busy, D, I) BY DEF RpTalk
<1> HIDE DEF U, O, D, I
<1>2. RpApart(U, O, {}, D, I) BY <1>1 DEF RpApart
<1>3. RpAwaits(A2, pend, call)
 <2>1. \A x \in A2 : x \in A OBVIOUS
 <2> HIDE DEF A, A2
 <2> QED BY <1>1, <2>1, RpAwaitsFewer
<1> QED BY <1>2, <1>3 DEF RpTalk, U, O, D, I

(* The end of the server's process. *)
LEMMA RpProcessEndsInv ==
  ASSUME RpInv, RpProcessEnds PROVE RpInv'
<1> DEFINE st(c) == IF rp_sc[c].open THEN "CLOSED" ELSE rp_sc[c].status
           z(c) == [rp_sc[c] EXCEPT !.status = st(c), !.open = FALSE, !.refs = 0, !.busy = {}]
<1>1. rp_sc \in [RpConns -> RpConn] /\ RpTypeOK /\ RpServerOK /\ RpMine \in RpConns BY RpAssumption DEF RpInv, RpTypeOK
<1>2. /\ rp_sc' = [c \in RpConns |-> z(c)] /\ rp_poll' = RpNoneWatched
      /\ rp_sv' = [status |-> "EXITED", turn |-> FALSE, sconns |-> {}, toclose |-> {}]
      /\ UNCHANGED <<rp_cl, rp_call, rp_close, rp_up, rp_down>> BY DEF RpProcessEnds
<1>3. ASSUME NEW c \in RpConns
      PROVE  /\ z(c) \in RpConn /\ z(c).status = st(c) /\ z(c).busy = {} /\ z(c).refs = 0
             /\ ~z(c).open /\ z(c).fd = rp_sc[c].fd /\ (z(c).waiting <=> rp_sc[c].waiting)
 <2> DEFINE y == rp_sc[c]
            v == st(c)
 <2>1. y \in RpConn /\ v \in {"NONE", "NEW", "CONNECTED", "DROPPED", "CLOSED"} BY <1>1 DEF RpConn
 <2>2. z(c) = [y EXCEPT !.status = v, !.open = FALSE, !.refs = 0, !.busy = {}] OBVIOUS
 <2> HIDE DEF y, v
 <2> DEFINE w == [y EXCEPT !.status = v, !.open = FALSE, !.refs = 0, !.busy = {}]
 <2>3. w \in RpConn
  <3> DEFINE none == {}
             no == FALSE
  <3>1. none \in SUBSET RpXids /\ no \in BOOLEAN /\ 0 \in Int OBVIOUS
  <3>2. w = [y EXCEPT !.status = v, !.open = no, !.refs = 0, !.busy = none] OBVIOUS
  <3> HIDE DEF none, no, w
  <3>3. [y EXCEPT !.status = v, !.open = no, !.refs = 0, !.busy = none] \in RpConn BY <2>1, <3>1 DEF RpConn
  <3> QED BY <3>2, <3>3
 <2>4. w.status = v /\ w.busy = {} /\ w.refs = 0 /\ w.fd = y.fd BY <2>1 DEF RpConn
 <2>5. ~w.open /\ (w.waiting <=> y.waiting) BY <2>1 DEF RpConn
 <2> HIDE DEF w
 <2>6. z(c) = w BY <2>2 DEF w
 <2> HIDE DEF z
 <2> QED BY <2>3, <2>4, <2>5, <2>6 DEF y, v
<1>4. ASSUME NEW c \in RpConns
      PROVE  /\ (rp_sc[c].waiting => rp_sc[c].status = "NEW")
             /\ (rp_sc[c].open <=> rp_sc[c].status \in {"CONNECTED", "DROPPED"}) BY <1>1 DEF RpServerOK, RpConnOK
<1>5. /\ rp_poll' \in [set : SUBSET RpConns, removing : SUBSET RpConns, watched : [RpConns -> Nat]]
      /\ rp_poll'.set = {} /\ rp_poll'.removing = {} BY <1>2 DEF RpNoneWatched
<1>6. rp_sv' \in RpServer /\ rp_sv'.sconns = {} BY <1>2 DEF RpServer
<1> HIDE DEF z
<1>7. rp_sc' \in [RpConns -> RpConn] /\ \A c \in RpConns : rp_sc'[c] = z(c) BY <1>2, <1>3
<1>8. ASSUME NEW c \in RpConns PROVE RpConnOK(c)'
 <2>1. IsFiniteSet({}) /\ Cardinality({}) = 0 BY FS_EmptySet
 <2>2. st(c) \notin {"CONNECTED", "DROPPED"} /\ (rp_sc[c].waiting => st(c) = "NEW") BY <1>4
 <2>3. /\ rp_sc'[c].status = st(c) /\ rp_sc'[c].busy = {} /\ rp_sc'[c].refs = 0 /\ ~rp_sc'[c].open
       /\ (rp_sc'[c].waiting <=> rp_sc[c].waiting) BY <1>3, <1>7
 <2>4. rp_poll'.set = {} /\ rp_poll'.removing = {} /\ rp_sv'.sconns = {} BY <1>5, <1>6
 <2> HIDE DEF st
 <2> QED BY <2>1, <2>2, <2>3, <2>4 DEF RpConnOK
<1>9. \A c \in RpConns : ~rp_sc'[c].open BY <1>3, <1>7
<1>10. RpServerOK' BY <1>5, <1>8, <1>9 DEF RpServerOK
<1>11. RpTypeOK' BY <1>1, <1>2, <1>5, <1>6, <1>7 DEF RpTypeOK
<1>12. rp_sc'[RpMine].busy = {} BY <1>1, <1>3, <1>7
<1>13. RpRequestsOK'
 <2>1. ASSUME rp_cl.status = "NEW" PROVE rp_sc'[RpMine].status = "NEW" /\ ~rp_sc'[RpMine].waiting
  <3>1. rp_sc[RpMine].status = "NEW" /\ ~rp_sc[RpMine].waiting BY <2>1 DEF RpInv, RpRequestsOK
  <3>2. ~rp_sc[RpMine].open BY <1>1, <1>4, <3>1
  <3> QED BY <1>1, <1>3, <1>7, <3>1, <3>2
 <2> QED BY <1>2, <1>12, <2>1 DEF RpInv, RpRequestsOK
<1>14. RpClientOK'
 <2>1. ASSUME rp_cl.status # "CLOSED" PROVE RpTalk(rp_up, rp_cl.out, {}, rp_down, rp_cl.in, rp_cl.pend, rp_call)
   BY <2>1, RpTalkForgotten DEF RpInv, RpClientOK
 <2> QED BY <1>2, <1>12, <2>1 DEF RpInv, RpClientOK
<1> QED BY <1>10, <1>11, <1>13, <1>14 DEF RpInv

(* The requests in work change, and with them the count. *)
LEMMA RpBusyStep ==
  ASSUME RpInv, NEW r \in Int, NEW B \in SUBSET RpXids, IsFiniteSet(B),
         r - Cardinality(B) = rp_sc[RpMine].refs - Cardinality(rp_sc[RpMine].busy),
         rp_sc[RpMine].status = "NEW" => B = {},
         rp_sc' = [rp_sc EXCEPT ![RpMine] = [rp_sc[RpMine] EXCEPT !.refs = r, !.busy = B]],
         UNCHANGED <<rp_sv, rp_poll>>
  PROVE  /\ RpServerOK' /\ rp_sc' \in [RpConns -> RpConn]
         /\ rp_sc'[RpMine].busy = B /\ rp_sc'[RpMine].status = rp_sc[RpMine].status
         /\ rp_sc'[RpMine].waiting = rp_sc[RpMine].waiting
<1> DEFINE c == RpMine
           z == [rp_sc[c] EXCEPT !.refs = r, !.busy = B]
<1>1. /\ rp_sc \in [RpConns -> RpConn] /\ RpMine \in RpConns /\ RpConnOK(RpMine) /\ RpTypeOK /\ RpServerOK
  BY RpAssumption DEF RpInv, RpTypeOK, RpServerOK
<1>2. /\ z \in RpConn /\ z.status = rp_sc[c].status /\ z.busy = B /\ z.refs = r
      /\ z.open = rp_sc[c].open /\ z.fd = rp_sc[c].fd /\ z.waiting = rp_sc[c].waiting BY <1>1 DEF RpConn
<1>3. rp_sc' = [rp_sc EXCEPT ![RpMine] = z] OBVIOUS
<1> HIDE DEF z, c
<1>4. rp_sc'[RpMine] = z BY <1>1, <1>3
<1>5. RpConnOK(RpMine)'
 <2>1. rp_sc[RpMine].refs \in Int /\ Cardinality(rp_sc[RpMine].busy) \in Nat /\ Cardinality(B) \in Nat
   BY <1>1, FS_CardinalityType DEF RpConn, RpConnOK
 <2>2. r = (IF RpMine \in rp_sv.sconns THEN 1 ELSE 0)
           + (IF RpMine \in rp_poll.set \/ RpMine \in rp_poll.removing THEN 1 ELSE 0)
           + Cardinality(B)
  <3> DEFINE k == IF RpMine \in rp_sv.sconns THEN 1 ELSE 0
             l == IF RpMine \in rp_poll.set \/ RpMine \in rp_poll.removing THEN 1 ELSE 0
  <3>1. rp_sc[RpMine].refs = k + l + Cardinality(rp_sc[RpMine].busy) /\ k \in Nat /\ l \in Nat BY <1>1 DEF RpConnOK
  <3> HIDE DEF k, l
  <3>2. r = k + l + Cardinality(B) BY <2>1, <3>1
  <3> QED BY <3>2 DEF k, l
 <2>3. rp_sv' = rp_sv /\ rp_poll' = rp_poll OBVIOUS
 <2>4. RpConnOK(RpMine) BY <1>1
 <2>5. rp_sc[RpMine].status = "NEW" => B = {} OBVIOUS
 <2> QED BY <1>2, <1>4, <2>2, <2>3, <2>4, <2>5 DEF RpConnOK, c
<1>6. /\ \A d \in RpConns : RpConnOK(d)'
      /\ rp_sc' \in [RpConns -> RpConn]
      /\ \A d \in RpConns : d # RpMine => rp_sc'[d] = rp_sc[d] BY <1>1, <1>2, <1>3, <1>5, RpOneConn
<1>7. \A d \in RpConns : rp_sc'[d].open = rp_sc[d].open /\ rp_sc'[d].fd = rp_sc[d].fd BY <1>2, <1>4, <1>6 DEF c
<1>8. RpServerOK' BY <1>1, <1>6, <1>7 DEF RpServerOK, RpTypeOK
<1> QED BY <1>2, <1>4, <1>6, <1>8 DEF c

LEMMA RpServeInv ==
  ASSUME RpInv, RpServe PROVE RpInv'
<1> DEFINE x == Head(rp_up)
           b == rp_sc[RpMine].busy
<1>1. /\ rp_sc \in [RpConns -> RpConn] /\ RpMine \in RpConns /\ RpConnOK(RpMine)
      /\ rp_up \in Seq(RpXids) /\ rp_up # <<>> /\ RpInjective(rp_up) /\ rp_down \in Seq(RpPart)
      /\ rp_sc[RpMine].status = "CONNECTED" BY RpAssumption DEF RpInv, RpTypeOK, RpServerOK, RpRequestsOK, RpServe
<1>2. UNCHANGED <<rp_cl, rp_call, rp_fu, rp_close, rp_sv, rp_poll>> /\ rp_up' = Tail(rp_up) BY DEF RpServe
<1>3. /\ Tail(rp_up) \in Seq(RpXids) /\ RpInjective(Tail(rp_up)) /\ x \in RpXids /\ x \in RpIn(rp_up)
      /\ \A y : y \in RpIn(Tail(rp_up)) <=> y \in RpIn(rp_up) /\ y # x BY <1>1, RpInTail
<1>4. x \notin b /\ \A y \in RpIn(rp_up) : y \notin b BY <1>3 DEF RpInv, RpRequestsOK
<1>5. rp_cl.status # "CLOSED" => RpTalk(rp_up, rp_cl.out, b, rp_down, rp_cl.in, rp_cl.pend, rp_call)
  BY DEF RpInv, RpClientOK
<1>6. CASE RpKind[x] = "served"
 <2> DEFINE B == b \cup {x}
            r == rp_sc[RpMine].refs + 1
 <2>1. rp_down' = rp_down BY <1>6 DEF RpServe
 <2>2. rp_sc' = [rp_sc EXCEPT ![RpMine] = [rp_sc[RpMine] EXCEPT !.refs = r, !.busy = B]]
  <3>1. rp_sc' = [rp_sc EXCEPT ![RpMine].refs = @ + 1, ![RpMine].busy = @ \cup {x}] BY <1>6 DEF RpServe
  <3> QED BY <1>1, <3>1 DEF RpConn
 <2>3. /\ rp_sc[RpMine].refs \in Int /\ IsFiniteSet(b) /\ Cardinality(b) \in Nat /\ b \in SUBSET RpXids
   BY <1>1, FS_CardinalityType DEF RpConn, RpConnOK
 <2>4. IsFiniteSet(B) /\ Cardinality(B) = Cardinality(b) + 1 BY <1>4, <2>3, FS_AddElement
 <2>5. r \in Int /\ B \in SUBSET RpXids BY <1>3, <2>3
 <2>6. r - Cardinality(B) = rp_sc[RpMine].refs - Cardinality(b) BY <2>3, <2>4
 <2> HIDE DEF B, r
 <2>7. /\ RpServerOK' /\ rp_sc' \in [RpConns -> RpConn]
       /\ rp_sc'[RpMine].busy = B /\ rp_sc'[RpMine].status = rp_sc[RpMine].status
   BY <1>1, <1>2, <2>2, <2>4, <2>5, <2>6, RpBusyStep
 <2>8. rp_cl.status # "CLOSED" => RpTalk(Tail(rp_up), rp_cl.out, B, rp_down, rp_cl.in, rp_cl.pend, rp_call)
   BY <1>1, <1>5, RpTalkServe DEF B
 <2>9. RpClientOK' BY <1>2, <2>1, <2>7, <2>8 DEF RpInv, RpClientOK
 <2>10. \A y \in RpIn(Tail(rp_up)) : y \notin B BY <1>3, <1>4 DEF B
 <2>11. RpRequestsOK' BY <1>1, <1>2, <1>3, <2>7, <2>10 DEF RpInv, RpRequestsOK
 <2>12. RpTypeOK' BY <1>2, <1>3, <2>1, <2>7 DEF RpInv, RpTypeOK
 <2> QED BY <2>7, <2>9, <2>11, <2>12 DEF RpInv
<1>7. CASE RpKind[x] # "served"
 <2> DEFINE down2 == rp_down \o <<RpHeader(x, "ENOENT"), RpBody(x)>>
 <2>1. rp_sc' = rp_sc /\ rp_down' = down2 BY <1>1, <1>7 DEF RpServe, RpReply
 <2>2. down2 \in Seq(RpPart)
  <3>1. RpHeader(x, "ENOENT") \in RpPart /\ RpBody(x) \in RpPart BY <1>3 DEF RpPart, RpHeader, RpBody
  <3>2. <<RpHeader(x, "ENOENT"), RpBody(x)>> \in Seq(RpPart) BY <3>1
  <3> QED BY <1>1, <3>2, ConcatProperties
 <2>3. ASSUME rp_cl.status # "CLOSED" PROVE RpTalk(Tail(rp_up), rp_cl.out, b, down2, rp_cl.in, rp_cl.pend, rp_call)
  <3>1. /\ x \in RpIn(rp_up) \cup b /\ x \notin RpIn(Tail(rp_up)) \cup b
        /\ \A y \in RpIn(Tail(rp_up)) : y \in RpIn(rp_up)
        /\ \A y \in b : y \in b
        /\ "ENOENT" \in {"none", "ENOENT"} BY <1>3, <1>4
  <3>2. RpTalk(rp_up, rp_cl.out, b, rp_down, rp_cl.in, rp_cl.pend, rp_call) BY <1>5, <2>3
  <3> HIDE DEF b, x
  <3> QED BY <1>1, <1>3, <3>1, <3>2, RpTalkAnswer DEF x
 <2> HIDE DEF down2
 <2>4. RpClientOK' BY <1>2, <2>1, <2>3 DEF RpInv, RpClientOK
 <2>5. RpRequestsOK' BY <1>2, <1>3, <1>4, <2>1 DEF RpInv, RpRequestsOK
 <2>6. RpTypeOK' BY <1>2, <1>3, <2>1, <2>2 DEF RpInv, RpTypeOK
 <2>7. RpServerOK' BY <1>2, <2>1, RpServerStays DEF RpInv, serverVars
 <2> QED BY <2>4, <2>5, <2>6, <2>7 DEF RpInv
<1> QED BY <1>6, <1>7

LEMMA RpDeferredReplyInv ==
  ASSUME RpInv, NEW x \in RpXids, RpDeferredReply(x) PROVE RpInv'
<1> DEFINE b == rp_sc[RpMine].busy
           B == b \ {x}
           r == rp_sc[RpMine].refs - 1
           down2 == rp_down \o <<RpHeader(x, "none"), RpBody(x)>>
<1>1. /\ rp_sc \in [RpConns -> RpConn] /\ RpMine \in RpConns /\ RpConnOK(RpMine)
      /\ rp_down \in Seq(RpPart) /\ x \in b BY RpAssumption DEF RpInv, RpTypeOK, RpServerOK, RpDeferredReply
<1>2. UNCHANGED <<rp_cl, rp_call, rp_fu, rp_close, rp_up, rp_sv, rp_poll>> /\ (rp_down' = rp_down \/ rp_down' = down2)
  BY DEF RpDeferredReply, RpReply
<1>3. rp_sc' = [rp_sc EXCEPT ![RpMine] = [rp_sc[RpMine] EXCEPT !.refs = r, !.busy = B]]
 <2>1. rp_sc' = [rp_sc EXCEPT ![RpMine].refs = @ - 1, ![RpMine].busy = @ \ {x}] BY DEF RpDeferredReply
 <2> QED BY <1>1, <2>1 DEF RpConn
<1>4. /\ rp_sc[RpMine].refs \in Int /\ IsFiniteSet(b) /\ Cardinality(b) \in Nat /\ b \in SUBSET RpXids
  BY <1>1, FS_CardinalityType DEF RpConn, RpConnOK
<1>5. IsFiniteSet(B) /\ Cardinality(B) = Cardinality(b) - 1 /\ r \in Int /\ B \in SUBSET RpXids
  BY <1>1, <1>4, FS_RemoveElement
<1>6. r - Cardinality(B) = rp_sc[RpMine].refs - Cardinality(b) BY <1>4, <1>5
<1>7. rp_sc[RpMine].status = "NEW" => B = {} BY <1>1 DEF RpConnOK
<1>8. x \notin B /\ \A y \in B : y \in b OBVIOUS
<1>9. down2 \in Seq(RpPart)
 <2>1. RpHeader(x, "none") \in RpPart /\ RpBody(x) \in RpPart BY DEF RpPart, RpHeader, RpBody
 <2>2. <<RpHeader(x, "none"), RpBody(x)>> \in Seq(RpPart) BY <2>1
 <2> QED BY <1>1, <2>2, ConcatProperties
<1>10. \A y \in RpIn(rp_up) : y \notin b BY DEF RpInv, RpRequestsOK
<1> HIDE DEF B, r
<1>11. /\ RpServerOK' /\ rp_sc' \in [RpConns -> RpConn]
       /\ rp_sc'[RpMine].busy = B /\ rp_sc'[RpMine].status = rp_sc[RpMine].status
       /\ rp_sc'[RpMine].waiting = rp_sc[RpMine].waiting BY <1>2, <1>3, <1>5, <1>6, <1>7, RpBusyStep
<1>12. ASSUME rp_cl.status # "CLOSED"
       PROVE  /\ RpTalk(rp_up, rp_cl.out, B, rp_down, rp_cl.in, rp_cl.pend, rp_call)
              /\ RpTalk(rp_up, rp_cl.out, B, down2, rp_cl.in, rp_cl.pend, rp_call)
 <2>1. RpTalk(rp_up, rp_cl.out, b, rp_down, rp_cl.in, rp_cl.pend, rp_call) BY <1>12 DEF RpInv, RpClientOK
 <2>2. x \in RpIn(rp_up) \cup b /\ x \notin RpIn(rp_up) \cup B /\ "none" \in {"none", "ENOENT"}
       /\ \A y \in RpIn(rp_up) : y \in RpIn(rp_up) BY <1>1, <1>8, <1>10
 <2> HIDE DEF b
 <2> QED BY <1>1, <1>8, <2>1, <2>2, RpTalkAnswer
<1> HIDE DEF down2
<1>13. RpClientOK' BY <1>2, <1>11, <1>12 DEF RpInv, RpClientOK
<1>14. RpRequestsOK' BY <1>2, <1>8, <1>10, <1>11 DEF RpInv, RpRequestsOK
<1>15. RpTypeOK' BY <1>1, <1>2, <1>9, <1>11 DEF RpInv, RpTypeOK
<1> QED BY <1>11, <1>13, <1>14, <1>15 DEF RpInv

(* Nothing is connected yet. *)
LEMMA RpInitInv == RpInit => RpInv
<1> SUFFICES ASSUME RpInit PROVE RpInv OBVIOUS
<1>1. PICK l \in RpLoads :
        /\ rp_call = [x \in RpXids |-> IF x \in l.xids THEN "idle" ELSE "end"]
        /\ rp_sc = [c \in RpConns |-> [status |-> IF c \in l.conns THEN "NEW" ELSE "NONE", waiting |-> FALSE,
                                       refs |-> 0, busy |-> {}, open |-> FALSE, fd |-> 0]] BY DEF RpInit
<1>2. RpMine \in RpConns /\ RpMine \in l.conns /\ RpConns \subseteq Nat BY RpAssumption
<1>3. /\ rp_cl = [status |-> "NEW", lock |-> 0, pend |-> {}, out |-> <<>>, in |-> <<>>,
                  mode |-> "none", edge |-> FALSE, lost |-> FALSE]
      /\ rp_close = [th \in RpClosers |-> "run"]
      /\ rp_up = <<>> /\ rp_down = <<>>
      /\ rp_sv = [status |-> "RUNNING", turn |-> FALSE, sconns |-> {}, toclose |-> {}]
      /\ rp_poll = [set |-> {}, removing |-> {}, watched |-> [f \in RpConns |-> 0]] BY DEF RpInit, RpNoneWatched
<1>4. <<>> \in Seq(RpPart) /\ <<>> \in Seq(RpXids) BY EmptySeq
<1>5. /\ rp_cl \in RpClient /\ rp_cl.in = <<>> /\ rp_cl.out = <<>> /\ rp_cl.status = "NEW" /\ ~rp_cl.lost
  BY <1>3, <1>4 DEF RpClient
<1>6. rp_call \in [RpXids -> RpState] /\ \A x \in RpXids : rp_call[x] \notin {"check", "write"} BY <1>1 DEF RpState
<1>7. /\ rp_sc \in [RpConns -> RpConn]
      /\ \A c \in RpConns : /\ rp_sc[c].status \in {"NEW", "NONE"} /\ ~rp_sc[c].open /\ ~rp_sc[c].waiting
                            /\ rp_sc[c].refs = 0 /\ rp_sc[c].busy = {}
      /\ rp_sc[RpMine].status = "NEW" BY <1>1, <1>2 DEF RpConn
<1>8. RpTypeOK
 <2>1. rp_sv \in RpServer BY <1>3 DEF RpServer
 <2> QED BY <1>3, <1>4, <1>5, <1>6, <1>7, <2>1 DEF RpTypeOK
<1>9. RpServerOK
 <2>1. rp_poll.set = {} /\ rp_poll.removing = {} /\ rp_sv.sconns = {} BY <1>3
 <2>2. ASSUME NEW c \in RpConns PROVE RpConnOK(c)
  <3>1. IsFiniteSet(rp_sc[c].busy) /\ Cardinality(rp_sc[c].busy) = 0 BY <1>7, FS_EmptySet
  <3> QED BY <1>7, <2>1, <3>1 DEF RpConnOK
 <2> QED BY <1>7, <2>1, <2>2 DEF RpServerOK
<1>10. RpRequestsOK BY <1>2, <1>3, <1>7, RpNoReply DEF RpRequestsOK
<1>11. RpTalk(rp_up, rp_cl.out, rp_sc[RpMine].busy, rp_down, rp_cl.in, rp_cl.pend, rp_call)
 <2> DEFINE U == RpIn(<<>>)
            D == RpReplied(<<>>)
            b == rp_sc[RpMine].busy
            A == U \cup U \cup b \cup D \cup D
 <2>1. (\A x : x \notin U) /\ (\A x : x \notin D) /\ (\A x : x \notin b) BY <1>2, <1>7, RpNoReply
 <2> HIDE DEF U, D, b
 <2>2. RpApart(U, U, b, D, D) BY <2>1 DEF RpApart
 <2>3. RpAwaits(A, rp_cl.pend, rp_call) BY <1>6, <2>1 DEF RpAwaits
 <2> QED BY <1>3, <1>5, <2>2, <2>3, RpNoReply DEF RpTalk, U, D, b
<1>12. RpClientOK
 <2>1. \A th \in RpClosers : rp_close[th] = "run" BY <1>3
 <2> QED BY <1>5, <1>11, <2>1, RpNoReply DEF RpClientOK
<1> QED BY <1>8, <1>9, <1>10, <1>12 DEF RpInv

LEMMA RpStepInv == RpInv /\ [RpNext]_rpcVars => RpInv'
<1> SUFFICES ASSUME RpInv, [RpNext]_rpcVars PROVE RpInv' OBVIOUS
<1>1. CASE UNCHANGED rpcVars BY <1>1 DEF rpcVars, RpInv, RpTypeOK, RpClientOK, RpRequestsOK, RpServerOK, RpConnOK
<1>2. CASE RpConnect BY <1>2, RpConnectInv
<1>3. CASE RpHandleWrite BY <1>3, RpHandleWriteInv
<1>4. CASE RpWritable BY <1>4, RpWritableInv
<1>5. CASE RpHandleRead BY <1>5, RpHandleReadInv
<1>6. CASE RpReadReply BY <1>6, RpReadReplyInv
<1>7. CASE RpServe BY <1>7, RpServeInv
<1>8. CASE RpSelect \/ RpStop \/ RpLoopEnd \/ RpStopped BY <1>8, RpStopInv
<1>12. CASE RpExit BY <1>12, RpProcessEndsInv DEF RpExit
<1>9. ASSUME NEW x \in RpXids,
             RpBeginLock(x) \/ RpBeginAdd(x) \/ RpBeginCheck(x) \/ RpEndRequest(x)
             \/ RpExpire(x) \/ RpTimedWait(x) \/ RpTimedOut(x) \/ RpWaited(x) \/ RpDeferredReply(x)
      PROVE RpInv'
  BY <1>9, RpBeginLockInv, RpBeginAddInv, RpBeginCheckInv, RpEndRequestInv, RpWaitInv, RpDeferredReplyInv
<1>10. ASSUME NEW th \in RpClosers, RpClose(th) \/ RpCloseMark(th) \/ RpInvalidate(th) PROVE RpInv' BY <1>10, RpCloseInv
<1>11. ASSUME NEW c \in RpConns,
              RpArrive(c) \/ RpAccept(c) \/ RpConnError(c) \/ RpPollDrop(c) \/ RpStopClose(c) \/ RpFreedClose(c)
       PROVE RpInv'
 <2>1. CASE RpFreedClose(c) BY <2>1, RpProcessEndsInv DEF RpFreedClose
 <2> QED BY <1>11, <2>1, RpArriveInv, RpAcceptInv, RpConnErrorInv, RpPollDropInv
<1> QED BY <1>1, <1>2, <1>3, <1>4, <1>5, <1>6, <1>7, <1>8, <1>9, <1>10, <1>11, <1>12 DEF RpNext

(* The invariant says what RpInStep does. *)
LEMMA RpInvInStep == RpInv => RpInStep
<1> SUFFICES ASSUME RpInv PROVE RpInStep OBVIOUS
<1>1. RpFramed BY DEF RpInv, RpClientOK, RpFramed
<1>2. RpWatched BY DEF RpInv, RpServerOK, RpWatched
<1>3. ASSUME NEW c \in RpConns
      PROVE  rp_sc[c].refs = Cardinality({h \in {1} : c \in rp_sv.sconns})
                             + Cardinality({h \in {1} : c \in rp_poll.set \cup rp_poll.removing})
                             + Cardinality(rp_sc[c].busy)
 <2> DEFINE S == {h \in {1} : c \in rp_sv.sconns}
            P == {h \in {1} : c \in rp_poll.set \cup rp_poll.removing}
 <2>1. S = IF c \in rp_sv.sconns THEN {1} ELSE {} OBVIOUS
 <2>2. P = IF c \in rp_poll.set \/ c \in rp_poll.removing THEN {1} ELSE {} OBVIOUS
 <2>3. Cardinality({1}) = 1 /\ Cardinality({}) = 0 BY FS_Singleton, FS_EmptySet
 <2> HIDE DEF S, P
 <2>4. Cardinality(S) = IF c \in rp_sv.sconns THEN 1 ELSE 0 BY <2>1, <2>3
 <2>5. Cardinality(P) = IF c \in rp_poll.set \/ c \in rp_poll.removing THEN 1 ELSE 0 BY <2>2, <2>3
 <2>6. rp_sc[c].refs = Cardinality(S) + Cardinality(P) + Cardinality(rp_sc[c].busy)
   BY <2>4, <2>5 DEF RpInv, RpServerOK, RpConnOK
 <2> QED BY <2>6 DEF S, P
<1> QED BY <1>1, <1>2, <1>3 DEF RpInStep, RpCounted

(* RpInStep, for every set of calls and of connections and whatever the callers, the
   closing threads and the two poll threads do: the client never takes the body of a
   reply for a size while it is in use, the count of a ServerConnection is the number of
   its holders, and the poll thread watches what it has in poll_set_. *)
THEOREM RpInStepHolds == RpSpec => []RpInStep
<1>1. RpInit => RpInv BY RpInitInv
<1>2. RpInv /\ [RpNext]_rpcVars => RpInv' BY RpStepInv
<1>3. RpInv => RpInStep BY RpInvInStep
<1> QED BY <1>1, <1>2, <1>3, PTL DEF RpSpec

-----
(* Futures.  A callback may be run by the reply, by timed_wait and by close; timed_out_,
   ready_ and pending_fu_ say who has the right to. *)
RpFuture == [refs : Int, ready : BOOLEAN, timed : BOOLEAN,
             err : {"none", "ENOENT", "ENOTCONN", "ETIMEDOUT"}, runs : Int]

(* How often the callback has run once the caller is at v. *)
RpDue(fu, v) == (IF fu.ready THEN 1 ELSE 0) + (IF fu.timed /\ v = "end" THEN 1 ELSE 0)

RpFutureOK(x) ==
  /\ x \in rp_cl.pend => ~rp_fu[x].ready
  /\ rp_fu[x].timed => rp_call[x] \in {"timed out", "end"}
  /\ rp_call[x] = "timed out" => rp_fu[x].timed
  /\ rp_fu[x].runs = RpDue(rp_fu[x], rp_call[x])

RpFuturesOK == rp_fu \in [RpXids -> RpFuture] /\ \A x \in RpXids : RpFutureOK(x)

LEMMA RpDueCases ==
  ASSUME NEW fu, NEW v
  PROVE  /\ ~fu.ready /\ ~(fu.timed /\ v = "end") => RpDue(fu, v) = 0
         /\ fu.ready /\ ~(fu.timed /\ v = "end") => RpDue(fu, v) = 1
         /\ ~fu.ready /\ (fu.timed /\ v = "end") => RpDue(fu, v) = 1
         /\ fu.ready /\ (fu.timed /\ v = "end") => RpDue(fu, v) = 2
<1> DEFINE a == IF fu.ready THEN 1 ELSE 0
           b == IF fu.timed /\ v = "end" THEN 1 ELSE 0
<1>1. (fu.ready => a = 1) /\ (~fu.ready => a = 0) BY Zenon
<1>2. (fu.timed /\ v = "end" => b = 1) /\ (~(fu.timed /\ v = "end") => b = 0) BY Zenon
<1>3. RpDue(fu, v) = a + b BY DEF RpDue
<1> HIDE DEF a, b
<1>4. a + b = 0 \/ ~(a = 0 /\ b = 0) BY Z3
<1>5. a + b = 1 \/ ~((a = 1 /\ b = 0) \/ (a = 0 /\ b = 1)) BY Z3
<1>6. a + b = 2 \/ ~(a = 1 /\ b = 1) BY Z3
<1> DEFINE n == RpDue(fu, v)
<1>7. (n = 0 \/ ~(a = 0 /\ b = 0)) /\ (n = 1 \/ ~((a = 1 /\ b = 0) \/ (a = 0 /\ b = 1))) /\ (n = 2 \/ ~(a = 1 /\ b = 1))
  BY <1>3, <1>4, <1>5, <1>6
<1> HIDE DEF n
<1>8. /\ ~fu.ready /\ ~(fu.timed /\ v = "end") => n = 0
      /\ fu.ready /\ ~(fu.timed /\ v = "end") => n = 1
      /\ ~fu.ready /\ (fu.timed /\ v = "end") => n = 1
      /\ fu.ready /\ (fu.timed /\ v = "end") => n = 2 BY <1>1, <1>2, <1>7, Zenon
<1> QED BY <1>8 DEF n

(* The reply, or close, for a future of pending_fu_. *)
LEMMA RpNotified ==
  ASSUME NEW fu \in RpFuture, NEW err \in {"none", "ENOENT", "ENOTCONN"}
  PROVE  /\ RpNotifyReady(fu, err) \in RpFuture
         /\ RpNotifyReady(fu, err).timed <=> fu.timed
         /\ RpNotifyReady(fu, err).ready <=> fu.ready \/ ~fu.timed
         /\ RpNotifyReady(fu, err).runs = IF fu.ready \/ ~fu.timed THEN fu.runs + 1 ELSE fu.runs
<1> DEFINE r == IF fu.ready \/ ~fu.timed THEN fu.runs + 1 ELSE fu.runs
           b == fu.ready \/ ~fu.timed
           z == [fu EXCEPT !.ready = b, !.err = err, !.refs = fu.refs - 1, !.runs = r]
<1>1. r \in Int /\ fu.refs - 1 \in Int /\ fu.timed \in BOOLEAN /\ fu.ready \in BOOLEAN BY DEF RpFuture
<1>2. z = RpNotifyReady(fu, err) BY DEF RpNotifyReady, RpFuture
<1>3. b \in BOOLEAN BY <1>1
<1> HIDE DEF r, b
<1>4. z \in RpFuture /\ z.runs = r BY <1>1, <1>3 DEF RpFuture
<1>5. z.ready <=> b BY <1>1, <1>3 DEF RpFuture
<1>6. z.timed <=> fu.timed BY <1>1, <1>3 DEF RpFuture
<1> HIDE DEF z
<1> QED BY <1>2, <1>4, <1>5, <1>6 DEF r, b

(* A step that touches the future, the place and the pending entry of one call only. *)
LEMMA RpOneFuture ==
  ASSUME RpFuturesOK, RpTypeOK, NEW x \in RpXids, NEW z \in RpFuture, NEW v, NEW P,
         rp_fu' = [rp_fu EXCEPT ![x] = z], rp_call' = [rp_call EXCEPT ![x] = v], rp_cl'.pend = P,
         \A y \in P : y \in rp_cl.pend \/ y = x,
         x \in P => ~z.ready,
         z.timed => v \in {"timed out", "end"},
         v = "timed out" => z.timed,
         z.runs = RpDue(z, v)
  PROVE RpFuturesOK'
<1>1. rp_fu \in [RpXids -> RpFuture] /\ rp_call \in [RpXids -> RpState] BY DEF RpFuturesOK, RpTypeOK
<1>2. /\ rp_fu' \in [RpXids -> RpFuture] /\ rp_fu'[x] = z /\ rp_call'[x] = v
      /\ \A y \in RpXids : y # x => rp_fu'[y] = rp_fu[y] /\ rp_call'[y] = rp_call[y] BY <1>1
<1>3. ASSUME NEW y \in RpXids PROVE RpFutureOK(y)'
 <2>1. CASE y = x BY <1>2, <2>1 DEF RpFutureOK
 <2>2. CASE y # x
  <3>1. RpFutureOK(y) BY DEF RpFuturesOK
  <3>2. rp_fu'[y] = rp_fu[y] /\ rp_call'[y] = rp_call[y] /\ (y \in rp_cl'.pend => y \in rp_cl.pend) BY <1>2, <2>2
  <3> QED BY <3>1, <3>2 DEF RpFutureOK
 <2> QED BY <2>1, <2>2
<1> QED BY <1>2, <1>3 DEF RpFuturesOK

(* A caller goes on without its future, and pending_fu_ does not grow. *)
LEMMA RpFuturePasses ==
  ASSUME RpFuturesOK, RpTypeOK, NEW x \in RpXids, NEW v \in RpState,
         rp_fu' = rp_fu, rp_call' = [rp_call EXCEPT ![x] = v], \A y \in rp_cl'.pend : y \in rp_cl.pend,
         ~rp_fu[x].timed, v # "timed out"
  PROVE RpFuturesOK'
<1> DEFINE z == rp_fu[x]
           P == rp_cl'.pend
<1>1. rp_fu \in [RpXids -> RpFuture] /\ RpFutureOK(x) BY DEF RpFuturesOK
<1>2. z \in RpFuture /\ rp_fu' = [rp_fu EXCEPT ![x] = z] BY <1>1
<1>3. /\ (x \in P => ~z.ready) /\ ~z.timed
      /\ z.runs = RpDue(z, v) BY <1>1 DEF RpFutureOK, RpDue
<1> HIDE DEF z
<1>4. (\A y \in P : y \in rp_cl.pend \/ y = x) /\ rp_cl'.pend = P OBVIOUS
<1> HIDE DEF P
<1> QED BY <1>2, <1>3, <1>4, RpOneFuture

(* A step that leaves futures and callers alone. *)
LEMMA RpFuturesStay ==
  ASSUME RpFuturesOK, rp_fu' = rp_fu, rp_call' = rp_call, rp_cl'.pend = rp_cl.pend
  PROVE RpFuturesOK'
BY DEF RpFuturesOK, RpFutureOK

LEMMA RpCallerFutures ==
  ASSUME RpInv, RpFuturesOK, NEW x \in RpXids,
         RpBeginLock(x) \/ RpBeginAdd(x) \/ RpBeginCheck(x) \/ RpEndRequest(x)
         \/ RpExpire(x) \/ RpTimedWait(x) \/ RpTimedOut(x) \/ RpWaited(x)
  PROVE RpFuturesOK'
<1>1. /\ RpTypeOK /\ rp_cl \in RpClient /\ rp_call \in [RpXids -> RpState] /\ rp_fu \in [RpXids -> RpFuture]
      /\ RpFutureOK(x) /\ rp_fu[x] \in RpFuture BY DEF RpInv, RpTypeOK, RpFuturesOK
<1>2. CASE RpBeginLock(x)
 <2> DEFINE v == IF rp_cl.status = "CONNECTED" THEN "make" ELSE "null"
 <2>1. rp_fu' = rp_fu /\ rp_call' = [rp_call EXCEPT ![x] = v] /\ rp_cl' = [rp_cl EXCEPT !.lock = x]
       /\ rp_call[x] = "idle" /\ v \in RpState /\ v # "timed out" BY <1>2 DEF RpBeginLock, RpState
 <2>2. rp_cl'.pend = rp_cl.pend BY <1>1, <2>1 DEF RpClient
 <2>3. ~rp_fu[x].timed BY <1>1, <2>1 DEF RpFutureOK
 <2> HIDE DEF v
 <2> QED BY <1>1, <2>1, <2>2, <2>3, RpFuturePasses
<1>3. CASE RpBeginAdd(x)
 <2> DEFINE z == RpNewFuture
            v == "check"
            P == rp_cl.pend \cup {x}
 <2>1. rp_fu' = [rp_fu EXCEPT ![x] = z] /\ rp_call' = [rp_call EXCEPT ![x] = v]
       /\ rp_cl' = [rp_cl EXCEPT !.pend = P] BY <1>3 DEF RpBeginAdd
 <2>2. rp_cl'.pend = P /\ \A y \in P : y \in rp_cl.pend \/ y = x BY <1>1, <2>1 DEF RpClient
 <2>3. z \in RpFuture /\ ~z.ready /\ ~z.timed /\ z.runs = 0 BY DEF RpNewFuture, RpFuture
 <2>4. v # "timed out" OBVIOUS
 <2> HIDE DEF z, v, P
 <2>5. z.runs = RpDue(z, v) BY <2>3 DEF RpDue
 <2> QED BY <1>1, <2>1, <2>2, <2>3, <2>4, <2>5, RpOneFuture
<1>4. CASE RpBeginCheck(x)
 <2>1. rp_call[x] = "check" /\ ~rp_fu[x].timed /\ "write" \in RpState /\ "null" \in RpState
   BY <1>1, <1>4 DEF RpBeginCheck, RpFutureOK, RpState
 <2>2. CASE rp_cl.status = "CONNECTED"
  <3>1. rp_fu' = rp_fu /\ rp_call' = [rp_call EXCEPT ![x] = "write"] /\ rp_cl' = rp_cl BY <1>4, <2>2 DEF RpBeginCheck
  <3> QED BY <1>1, <2>1, <3>1, RpFuturePasses
 <2>3. CASE rp_cl.status # "CONNECTED"
  <3> DEFINE z == [rp_fu[x] EXCEPT !.refs = IF x \in rp_cl.pend THEN @ - 1 ELSE @]
             v == "null"
             P == rp_cl.pend \ {x}
  <3>1. rp_fu' = [rp_fu EXCEPT ![x] = z] /\ rp_call' = [rp_call EXCEPT ![x] = v]
        /\ rp_cl' = [rp_cl EXCEPT !.pend = P]
   <4>1. rp_fu' = [rp_fu EXCEPT ![x].refs = IF x \in rp_cl.pend THEN @ - 1 ELSE @]
         /\ rp_call' = [rp_call EXCEPT ![x] = v] /\ rp_cl' = [rp_cl EXCEPT !.pend = P] BY <1>4, <2>3 DEF RpBeginCheck
   <4> QED BY <1>1, <4>1 DEF RpFuture
  <3>2. rp_cl'.pend = P /\ \A y \in P : y \in rp_cl.pend \/ y = x BY <1>1, <3>1 DEF RpClient
  <3>3. /\ z \in RpFuture /\ (z.ready <=> rp_fu[x].ready) /\ (z.timed <=> rp_fu[x].timed)
        /\ z.runs = rp_fu[x].runs BY <1>1 DEF RpFuture
  <3>4. v # "timed out" /\ x \notin P OBVIOUS
  <3> HIDE DEF z, v, P
  <3>5. z.runs = RpDue(z, v) BY <1>1, <2>1, <3>3 DEF RpFutureOK, RpDue
  <3> QED BY <1>1, <2>1, <3>1, <3>2, <3>3, <3>4, <3>5, RpOneFuture
 <2> QED BY <2>2, <2>3
<1>5. CASE RpEndRequest(x)
 <2>1. rp_call[x] \in {"write", "null"} /\ ~rp_fu[x].timed BY <1>1, <1>5 DEF RpEndRequest, RpFutureOK
 <2>2. rp_cl'.pend = rp_cl.pend
  <3> DEFINE sent == rp_call[x] = "write" /\ rp_cl.status = "CONNECTED"
             o == IF sent THEN Append(rp_cl.out, x) ELSE rp_cl.out
             cl == [rp_cl EXCEPT !.out = o, !.lock = 0]
  <3>1. rp_cl' = RpMode(cl, "both") BY <1>5 DEF RpEndRequest
  <3>2. o \in Seq(RpXids)
   <4>1. rp_cl.out \in Seq(RpXids) /\ Append(rp_cl.out, x) \in Seq(RpXids) BY <1>1, RpClientFields
   <4> QED BY <4>1
  <3> HIDE DEF o
  <3>3. cl \in RpClient /\ cl.pend = rp_cl.pend BY <1>1, <3>2 DEF RpClient
  <3> HIDE DEF cl
  <3> QED BY <3>1, <3>3, RpModeOnly
 <2>3. CASE rp_call[x] = "write"
  <3> DEFINE z == [rp_fu[x] EXCEPT !.refs = @ + 1]
             v == "waiting"
             P == rp_cl.pend
  <3>1. rp_fu' = [rp_fu EXCEPT ![x] = z] /\ rp_call' = [rp_call EXCEPT ![x] = v]
   <4>1. rp_fu' = [rp_fu EXCEPT ![x].refs = @ + 1] /\ rp_call' = [rp_call EXCEPT ![x] = v]
     BY <1>5, <2>3 DEF RpEndRequest
   <4> QED BY <1>1, <4>1 DEF RpFuture
  <3>2. /\ z \in RpFuture /\ (z.ready <=> rp_fu[x].ready) /\ (z.timed <=> rp_fu[x].timed)
        /\ z.runs = rp_fu[x].runs BY <1>1 DEF RpFuture
  <3>3. v # "timed out" /\ (\A y \in P : y \in rp_cl.pend \/ y = x) /\ rp_cl'.pend = P BY <2>2
  <3>4. P = rp_cl.pend OBVIOUS
  <3> HIDE DEF z, v, P
  <3>5. (x \in P => ~z.ready) /\ z.runs = RpDue(z, v) BY <1>1, <2>1, <3>2, <3>4 DEF RpFutureOK, RpDue
  <3> QED BY <1>1, <2>1, <3>1, <3>2, <3>3, <3>5, RpOneFuture
 <2>4. CASE rp_call[x] # "write"
  <3>1. rp_fu' = rp_fu /\ rp_call' = [rp_call EXCEPT ![x] = "end"] /\ "end" \in RpState
    BY <1>5, <2>4 DEF RpEndRequest, RpState
  <3> QED BY <1>1, <2>1, <2>2, <3>1, RpFuturePasses
 <2> QED BY <2>3, <2>4
<1>6. CASE RpExpire(x)
 <2>1. /\ rp_fu' = rp_fu /\ rp_call' = [rp_call EXCEPT ![x] = "expired"] /\ rp_cl' = rp_cl
       /\ ~rp_fu[x].timed /\ "expired" \in RpState BY <1>6 DEF RpExpire, RpState
 <2> QED BY <1>1, <2>1, RpFuturePasses
<1>7. CASE RpTimedWait(x)
 <2> DEFINE z == [rp_fu[x] EXCEPT !.timed = TRUE]
            v == "timed out"
            P == rp_cl.pend
 <2>1. rp_fu' = [rp_fu EXCEPT ![x] = z] /\ rp_call' = [rp_call EXCEPT ![x] = v] /\ rp_cl' = rp_cl
       /\ rp_call[x] = "expired" BY <1>1, <1>7 DEF RpTimedWait
 <2>2. z \in RpFuture /\ (z.ready <=> rp_fu[x].ready) /\ z.timed /\ z.runs = rp_fu[x].runs BY <1>1 DEF RpFuture
 <2>3. v = "timed out" /\ (\A y \in P : y \in rp_cl.pend \/ y = x) /\ rp_cl'.pend = P /\ P = rp_cl.pend BY <2>1
 <2> HIDE DEF z, v, P
 <2>4. ~rp_fu[x].timed /\ (x \in P => ~z.ready) BY <1>1, <2>1, <2>2, <2>3 DEF RpFutureOK
 <2>5. z.runs = RpDue(z, v) BY <1>1, <2>2, <2>3, <2>4 DEF RpFutureOK, RpDue
 <2> QED BY <1>1, <2>1, <2>2, <2>3, <2>4, <2>5, RpOneFuture
<1>8. CASE RpTimedOut(x)
 <2> DEFINE z == [rp_fu[x] EXCEPT !.err = "ETIMEDOUT", !.runs = @ + 1, !.refs = @ - 1]
            v == "end"
            P == rp_cl.pend
 <2>1. rp_fu' = [rp_fu EXCEPT ![x] = z] /\ rp_call' = [rp_call EXCEPT ![x] = v] /\ rp_cl' = rp_cl
       /\ rp_call[x] = "timed out"
  <3>1. rp_fu' = [rp_fu EXCEPT ![x].err = "ETIMEDOUT", ![x].runs = @ + 1, ![x].refs = @ - 1]
        /\ rp_call' = [rp_call EXCEPT ![x] = v] /\ rp_cl' = rp_cl /\ rp_call[x] = "timed out" BY <1>8 DEF RpTimedOut
  <3> QED BY <1>1, <3>1 DEF RpFuture
 <2>2. /\ z \in RpFuture /\ (z.ready <=> rp_fu[x].ready) /\ (z.timed <=> rp_fu[x].timed)
       /\ z.runs = rp_fu[x].runs + 1
  <3> DEFINE fu == rp_fu[x]
             r == fu.runs + 1
             n == fu.refs - 1
  <3>1. fu \in RpFuture /\ r \in Int /\ n \in Int /\ z = [fu EXCEPT !.err = "ETIMEDOUT", !.runs = r, !.refs = n]
    BY <1>1 DEF RpFuture
  <3> HIDE DEF fu, r, n, z
  <3>2. z \in RpFuture /\ z.runs = r BY <3>1 DEF RpFuture
  <3>3. (z.ready <=> fu.ready) /\ (z.timed <=> fu.timed) BY <3>1 DEF RpFuture
  <3> QED BY <3>2, <3>3 DEF fu, r
 <2>3. v = "end" /\ (\A y \in P : y \in rp_cl.pend \/ y = x) /\ rp_cl'.pend = P /\ P = rp_cl.pend BY <2>1
 <2> HIDE DEF z, v, P
 <2>4. rp_fu[x].timed /\ rp_call[x] # "end" /\ (x \in P => ~z.ready) BY <1>1, <2>1, <2>2, <2>3 DEF RpFutureOK
 <2>5. z.runs = RpDue(z, v)
  <3>1. rp_fu[x].runs = RpDue(rp_fu[x], rp_call[x]) BY <1>1 DEF RpFutureOK
  <3>2. CASE rp_fu[x].ready
   <4>1. rp_fu[x].runs = 1 BY <2>4, <3>1, <3>2, RpDueCases
   <4>2. RpDue(z, v) = 2 BY <2>2, <2>3, <2>4, <3>2, RpDueCases
   <4> QED BY <2>2, <4>1, <4>2
  <3>3. CASE ~rp_fu[x].ready
   <4>1. rp_fu[x].runs = 0 BY <2>4, <3>1, <3>3, RpDueCases
   <4>2. RpDue(z, v) = 1 BY <2>2, <2>3, <2>4, <3>3, RpDueCases
   <4> QED BY <2>2, <4>1, <4>2
  <3> QED BY <3>2, <3>3
 <2> QED BY <1>1, <2>1, <2>2, <2>3, <2>4, <2>5, RpOneFuture
<1>9. CASE RpWaited(x)
 <2> DEFINE z == [rp_fu[x] EXCEPT !.refs = @ - 1]
            v == "end"
            P == rp_cl.pend
 <2>1. rp_fu' = [rp_fu EXCEPT ![x] = z] /\ rp_call' = [rp_call EXCEPT ![x] = v] /\ rp_cl' = rp_cl
       /\ rp_call[x] = "waiting"
  <3>1. rp_fu' = [rp_fu EXCEPT ![x].refs = @ - 1] /\ rp_call' = [rp_call EXCEPT ![x] = v] /\ rp_cl' = rp_cl
        /\ rp_call[x] = "waiting" BY <1>9 DEF RpWaited
  <3> QED BY <1>1, <3>1 DEF RpFuture
 <2>2. /\ z \in RpFuture /\ (z.ready <=> rp_fu[x].ready) /\ (z.timed <=> rp_fu[x].timed)
       /\ z.runs = rp_fu[x].runs BY <1>1 DEF RpFuture
 <2>3. v # "timed out" /\ (\A y \in P : y \in rp_cl.pend \/ y = x) /\ rp_cl'.pend = P /\ P = rp_cl.pend BY <2>1
 <2> HIDE DEF z, v, P
 <2>4. ~rp_fu[x].timed /\ (x \in P => ~z.ready) BY <1>1, <2>1, <2>2, <2>3 DEF RpFutureOK
 <2>5. z.runs = RpDue(z, v) BY <1>1, <2>2, <2>4 DEF RpFutureOK, RpDue
 <2> QED BY <1>1, <2>1, <2>2, <2>3, <2>4, <2>5, RpOneFuture
<1> QED BY <1>2, <1>3, <1>4, <1>5, <1>6, <1>7, <1>8, <1>9

(* The client's poll thread and close run the callbacks of the futures they take out of
   pending_fu_. *)
LEMMA RpReadFutures ==
  ASSUME RpInv, RpFuturesOK, RpReadReply PROVE RpFuturesOK'
<1> DEFINE h == Head(rp_cl.in)
           x == h.xid
<1>1. /\ RpTypeOK /\ rp_cl \in RpClient /\ rp_call \in [RpXids -> RpState] /\ rp_fu \in [RpXids -> RpFuture]
      /\ rp_cl.in \in Seq(RpPart) /\ rp_cl.in # <<>> /\ rp_cl.pend \in SUBSET RpXids /\ rp_call' = rp_call
  BY RpClientFields DEF RpInv, RpTypeOK, RpFuturesOK, RpReadReply
<1>2. h \in RpPart /\ h.err \in {"none", "ENOENT", "ENOTCONN"}
 <2>1. h \in RpPart BY <1>1, HeadTailProperties
 <2> HIDE DEF h
 <2> QED BY <2>1 DEF RpPart
<1>3. \/ /\ h.part = "body" /\ rp_cl' = [rp_cl EXCEPT !.in = <<>>, !.lost = TRUE] /\ rp_fu' = rp_fu
      \/ /\ h.part # "body" /\ x \in rp_cl.pend
         /\ rp_cl' = [rp_cl EXCEPT !.in = Tail(Tail(@)), !.pend = @ \ {x}]
         /\ rp_fu' = [rp_fu EXCEPT ![x] = RpNotifyReady(@, h.err)]
      \/ /\ h.part # "body" /\ x \notin rp_cl.pend
         /\ rp_cl' = [rp_cl EXCEPT !.in = Tail(@)] /\ rp_fu' = rp_fu BY DEF RpReadReply
<1> HIDE DEF x, h
<1>4. CASE rp_cl' = [rp_cl EXCEPT !.in = <<>>, !.lost = TRUE] /\ rp_fu' = rp_fu
 <2>1. rp_cl'.pend = rp_cl.pend BY <1>1, <1>4 DEF RpClient
 <2> QED BY <1>1, <1>4, <2>1, RpFuturesStay
<1>5. CASE rp_cl' = [rp_cl EXCEPT !.in = Tail(@)] /\ rp_fu' = rp_fu
 <2>1. rp_cl'.pend = rp_cl.pend BY <1>1, <1>5 DEF RpClient
 <2> QED BY <1>1, <1>5, <2>1, RpFuturesStay
<1>6. CASE /\ x \in rp_cl.pend
           /\ rp_cl' = [rp_cl EXCEPT !.in = Tail(Tail(@)), !.pend = @ \ {x}]
           /\ rp_fu' = [rp_fu EXCEPT ![x] = RpNotifyReady(@, h.err)]
 <2> DEFINE P == rp_cl.pend \ {x}
            fu == rp_fu[x]
            z == RpNotifyReady(fu, h.err)
            v == rp_call[x]
 <2>1. x \in RpXids /\ fu \in RpFuture /\ RpFutureOK(x) /\ ~fu.ready BY <1>1, <1>6 DEF RpFuturesOK, RpFutureOK
 <2>2. rp_cl'.pend = P /\ x \notin P /\ \A y \in P : y \in rp_cl.pend \/ y = x BY <1>1, <1>6 DEF RpClient
 <2>3. rp_fu' = [rp_fu EXCEPT ![x] = z] /\ rp_call' = [rp_call EXCEPT ![x] = v] BY <1>1, <1>6, <2>1
 <2>4. /\ z \in RpFuture /\ (z.timed <=> fu.timed) /\ (z.ready <=> fu.ready \/ ~fu.timed)
       /\ z.runs = IF fu.ready \/ ~fu.timed THEN fu.runs + 1 ELSE fu.runs
  <3> HIDE DEF fu
  <3> QED BY <1>2, <2>1, RpNotified
 <2>5. /\ fu.timed => v \in {"timed out", "end"}
       /\ v = "timed out" => fu.timed
       /\ fu.runs = RpDue(fu, v) BY <2>1 DEF RpFutureOK
 <2> HIDE DEF P, fu, z, v
 <2>6. z.runs = RpDue(z, v)
  <3>1. CASE fu.timed BY <2>1, <2>4, <2>5, <3>1 DEF RpDue
  <3>2. CASE ~fu.timed
   <4>1. fu.runs = 0 BY <2>1, <2>5, <3>2, RpDueCases
   <4>2. z.runs = 1 /\ z.ready /\ ~z.timed BY <2>4, <3>2, <4>1
   <4> QED BY <4>2, RpDueCases
  <3> QED BY <3>1, <3>2
 <2> QED BY <1>1, <2>1, <2>2, <2>3, <2>4, <2>5, <2>6, RpOneFuture
<1> QED BY <1>3, <1>4, <1>5, <1>6

LEMMA RpInvalidateFutures ==
  ASSUME RpInv, RpFuturesOK, NEW th \in RpClosers, RpInvalidate(th) PROVE RpFuturesOK'
<1>1. /\ rp_cl \in RpClient /\ rp_fu \in [RpXids -> RpFuture] /\ rp_call' = rp_call
      /\ rp_cl' = [rp_cl EXCEPT !.pend = {}]
      /\ rp_fu' = [x \in RpXids |-> IF x \in rp_cl.pend THEN RpNotifyReady(rp_fu[x], "ENOTCONN") ELSE rp_fu[x]]
  BY DEF RpInv, RpTypeOK, RpFuturesOK, RpInvalidate
<1>2. \A x : x \notin rp_cl'.pend BY <1>1 DEF RpClient
<1>3. ASSUME NEW x \in RpXids PROVE rp_fu'[x] \in RpFuture /\ RpFutureOK(x)'
 <2> DEFINE fu == rp_fu[x]
            z == rp_fu'[x]
            v == rp_call[x]
 <2>1. RpFutureOK(x) /\ fu \in RpFuture /\ rp_call'[x] = v BY <1>1 DEF RpFuturesOK
 <2>2. /\ x \in rp_cl.pend => ~fu.ready
       /\ fu.timed => v \in {"timed out", "end"}
       /\ v = "timed out" => fu.timed
       /\ fu.runs = RpDue(fu, v) BY <2>1 DEF RpFutureOK
 <2>3. z = IF x \in rp_cl.pend THEN RpNotifyReady(fu, "ENOTCONN") ELSE fu BY <1>1
 <2> HIDE DEF fu, z, v
 <2>4. /\ z \in RpFuture
       /\ z.timed => v \in {"timed out", "end"}
       /\ v = "timed out" => z.timed
       /\ z.runs = RpDue(z, v)
  <3>1. CASE x \notin rp_cl.pend BY <2>1, <2>2, <2>3, <3>1
  <3>2. CASE x \in rp_cl.pend
   <4>1. z = RpNotifyReady(fu, "ENOTCONN") /\ "ENOTCONN" \in {"none", "ENOENT", "ENOTCONN"} /\ ~fu.ready
     BY <2>2, <2>3, <3>2
   <4>2. /\ z \in RpFuture /\ (z.timed <=> fu.timed) /\ (z.ready <=> fu.ready \/ ~fu.timed)
         /\ z.runs = IF fu.ready \/ ~fu.timed THEN fu.runs + 1 ELSE fu.runs BY <2>1, <4>1, RpNotified
   <4>3. CASE fu.timed BY <2>2, <4>1, <4>2, <4>3 DEF RpDue
   <4>4. CASE ~fu.timed
    <5>1. fu.runs = 0 BY <2>2, <4>1, <4>4, RpDueCases
    <5>2. z.runs = 1 BY <4>2, <4>4, <5>1
    <5>3. z.ready /\ ~z.timed /\ v # "timed out" BY <2>2, <4>2, <4>4
    <5>4. z.runs = RpDue(z, v) BY <5>2, <5>3, RpDueCases
    <5> QED BY <4>2, <5>3, <5>4
   <4> QED BY <4>3, <4>4
  <3> QED BY <3>1, <3>2
 <2> QED BY <1>2, <2>1, <2>4 DEF RpFutureOK, z
<1>4. rp_fu' \in [RpXids -> RpFuture]
 <2>1. \A x \in RpXids : rp_fu'[x] \in RpFuture BY <1>3
 <2> QED BY <1>1, <2>1
<1> QED BY <1>3, <1>4 DEF RpFuturesOK

LEMMA RpStepFutures == RpInv /\ RpFuturesOK /\ [RpNext]_rpcVars => RpFuturesOK'
<1> SUFFICES ASSUME RpInv, RpFuturesOK, [RpNext]_rpcVars PROVE RpFuturesOK' OBVIOUS
<1>1. rp_cl \in RpClient BY DEF RpInv, RpTypeOK
<1>2. ASSUME rp_fu' = rp_fu, rp_call' = rp_call, rp_cl' = rp_cl PROVE RpFuturesOK' BY <1>2, RpFuturesStay
<1>3. CASE UNCHANGED rpcVars BY <1>2, <1>3 DEF rpcVars
<1>4. CASE RpConnect
 <2>1. rp_cl'.pend = rp_cl.pend /\ rp_fu' = rp_fu /\ rp_call' = rp_call BY <1>1, <1>4 DEF RpConnect, RpClient
 <2> QED BY <2>1, RpFuturesStay
<1>5. CASE RpHandleWrite
 <2>1. rp_fu' = rp_fu /\ rp_call' = rp_call BY <1>5 DEF RpHandleWrite
 <2>2. PICK k \in RpTaken :
         rp_cl' = IF k = Len(rp_cl.out)
                  THEN RpMode([rp_cl EXCEPT !.out = <<>>, !.edge = FALSE], "read")
                  ELSE [rp_cl EXCEPT !.out = SubSeq(rp_cl.out, k + 1, Len(rp_cl.out)), !.edge = FALSE]
   BY <1>5 DEF RpHandleWrite
 <2>3. rp_cl'.pend = rp_cl.pend
  <3>1. CASE k = Len(rp_cl.out)
   <4> DEFINE cl == [rp_cl EXCEPT !.out = <<>>, !.edge = FALSE]
   <4>1. cl \in RpClient /\ cl.pend = rp_cl.pend BY <1>1, EmptySeq DEF RpClient
   <4> HIDE DEF cl
   <4>2. rp_cl' = RpMode(cl, "read") BY <2>2, <3>1 DEF cl
   <4> QED BY <4>1, <4>2, RpModeOnly
  <3>2. CASE k # Len(rp_cl.out) BY <1>1, <2>2, <3>2 DEF RpClient
  <3> QED BY <3>1, <3>2
 <2> QED BY <2>1, <2>3, RpFuturesStay
<1>6. CASE RpWritable
 <2>1. rp_cl'.pend = rp_cl.pend /\ rp_fu' = rp_fu /\ rp_call' = rp_call BY <1>1, <1>6 DEF RpWritable, RpClient
 <2> QED BY <2>1, RpFuturesStay
<1>7. CASE RpHandleRead
 <2>1. rp_cl'.pend = rp_cl.pend /\ rp_fu' = rp_fu /\ rp_call' = rp_call BY <1>1, <1>7 DEF RpHandleRead, RpClient
 <2> QED BY <2>1, RpFuturesStay
<1>8. CASE RpReadReply BY <1>8, RpReadFutures
<1>9. CASE RpServe \/ RpSelect \/ RpStop \/ RpLoopEnd \/ RpStopped \/ RpExit
  BY <1>2, <1>9 DEF RpServe, RpSelect, RpStop, RpLoopEnd, RpStopped, RpExit, RpProcessEnds
<1>10. ASSUME NEW x \in RpXids,
              RpBeginLock(x) \/ RpBeginAdd(x) \/ RpBeginCheck(x) \/ RpEndRequest(x)
              \/ RpExpire(x) \/ RpTimedWait(x) \/ RpTimedOut(x) \/ RpWaited(x)
       PROVE RpFuturesOK' BY <1>10, RpCallerFutures
<1>11. ASSUME NEW x \in RpXids, RpDeferredReply(x) PROVE RpFuturesOK' BY <1>2, <1>11 DEF RpDeferredReply
<1>12. ASSUME NEW th \in RpClosers, RpClose(th) \/ RpCloseMark(th) PROVE RpFuturesOK'
 <2>1. rp_cl'.pend = rp_cl.pend /\ rp_fu' = rp_fu /\ rp_call' = rp_call
   BY <1>1, <1>12 DEF RpClose, RpCloseMark, RpClient
 <2> QED BY <2>1, RpFuturesStay
<1>13. ASSUME NEW th \in RpClosers, RpInvalidate(th) PROVE RpFuturesOK' BY <1>13, RpInvalidateFutures
<1>14. ASSUME NEW c \in RpConns,
              RpArrive(c) \/ RpAccept(c) \/ RpConnError(c) \/ RpPollDrop(c) \/ RpStopClose(c) \/ RpFreedClose(c)
       PROVE RpFuturesOK'
  BY <1>2, <1>14 DEF RpArrive, RpAccept, RpConnError, RpPollDrop, RpStopClose, RpFreedClose, RpProcessEnds
<1> QED BY <1>3, <1>4, <1>5, <1>6, <1>7, <1>8, <1>9, <1>10, <1>11, <1>12, <1>13, <1>14 DEF RpNext

LEMMA RpInitFutures == RpInit => RpInv /\ RpFuturesOK
<1> SUFFICES ASSUME RpInit PROVE RpFuturesOK BY RpInitInv
<1>1. rp_fu = [x \in RpXids |-> [RpNewFuture EXCEPT !.refs = 0]] BY DEF RpInit
<1>2. \A x \in RpXids : rp_call[x] \in {"idle", "end"} BY DEF RpInit
<1> DEFINE z == [RpNewFuture EXCEPT !.refs = 0]
<1>3. z \in RpFuture /\ ~z.ready /\ ~z.timed /\ z.runs = 0
 <2> DEFINE n == RpNewFuture
 <2>1. n \in RpFuture /\ ~n.ready /\ ~n.timed /\ n.runs = 0 BY DEF RpNewFuture, RpFuture
 <2> HIDE DEF n
 <2>2. [n EXCEPT !.refs = 0] \in RpFuture /\ [n EXCEPT !.refs = 0].runs = 0 BY <2>1 DEF RpFuture
 <2>3. ~[n EXCEPT !.refs = 0].ready /\ ~[n EXCEPT !.refs = 0].timed BY <2>1 DEF RpFuture
 <2> QED BY <2>2, <2>3 DEF n
<1> HIDE DEF z
<1>4. rp_fu \in [RpXids -> RpFuture] /\ \A x \in RpXids : rp_fu[x] = z BY <1>1, <1>3 DEF z
<1>5. ASSUME NEW x \in RpXids PROVE RpFutureOK(x)
 <2>1. rp_fu[x] = z /\ rp_call[x] # "timed out" BY <1>2, <1>4
 <2>2. z.runs = RpDue(z, rp_call[x]) BY <1>3, RpDueCases
 <2> QED BY <1>3, <2>1, <2>2 DEF RpFutureOK
<1> QED BY <1>4, <1>5 DEF RpFuturesOK

(* A timeout is final in every step. *)
LEMMA RpTimeoutStep ==
  ASSUME RpInv, RpFuturesOK, RpNext, NEW x \in RpXids, rp_fu[x].timed, rp_fu'[x].ready
  PROVE rp_fu[x].ready
<1> DEFINE fu == rp_fu[x]
<1>1. rp_fu \in [RpXids -> RpFuture] /\ fu \in RpFuture /\ RpFutureOK(x) BY DEF RpFuturesOK
<1>2. ASSUME rp_fu' = rp_fu PROVE fu.ready BY <1>2
<1>3. ASSUME NEW err \in {"none", "ENOENT", "ENOTCONN"}, rp_fu'[x] = RpNotifyReady(fu, err) PROVE fu.ready
 <2> DEFINE z == RpNotifyReady(fu, err)
 <2>1. z.ready <=> fu.ready \/ ~fu.timed
  <3> HIDE DEF fu
  <3> QED BY <1>1, RpNotified
 <2> HIDE DEF z
 <2>2. rp_fu'[x] = z BY <1>3 DEF z
 <2> QED BY <2>1, <2>2
<1>4. CASE RpConnect \/ RpHandleWrite \/ RpWritable \/ RpHandleRead
  BY <1>2, <1>4 DEF RpConnect, RpHandleWrite, RpWritable, RpHandleRead
<1>5. CASE RpServe \/ RpSelect \/ RpStop \/ RpLoopEnd \/ RpStopped \/ RpExit
  BY <1>2, <1>5 DEF RpServe, RpSelect, RpStop, RpLoopEnd, RpStopped, RpExit, RpProcessEnds
<1>6. CASE RpReadReply
 <2> DEFINE h == Head(rp_cl.in)
            y == h.xid
 <2>1. rp_cl.in \in Seq(RpPart) /\ rp_cl.in # <<>> /\ rp_cl.pend \in SUBSET RpXids
   BY <1>6, RpClientFields DEF RpInv, RpTypeOK, RpReadReply
 <2>2. h \in RpPart BY <2>1, HeadTailProperties
 <2>3. rp_fu' = rp_fu \/ (y \in rp_cl.pend /\ rp_fu' = [rp_fu EXCEPT ![y] = RpNotifyReady(@, h.err)])
   BY <1>6 DEF RpReadReply
 <2> HIDE DEF h, y
 <2>4. h.err \in {"none", "ENOENT", "ENOTCONN"} BY <2>2 DEF RpPart
 <2>5. rp_fu'[x] = rp_fu[x] \/ rp_fu'[x] = RpNotifyReady(fu, h.err) BY <1>1, <2>3
 <2> QED BY <1>3, <2>4, <2>5
<1>7. ASSUME NEW y \in RpXids,
             RpBeginLock(y) \/ RpBeginAdd(y) \/ RpBeginCheck(y) \/ RpEndRequest(y)
      PROVE rp_fu[x].ready
 <2>1. rp_call[y] \notin {"timed out", "end"} BY <1>7 DEF RpBeginLock, RpBeginAdd, RpBeginCheck, RpEndRequest
 <2>2. x # y BY <1>1, <2>1 DEF RpFutureOK
 <2>3. rp_fu'[x] = rp_fu[x] BY <1>1, <1>7, <2>2 DEF RpBeginLock, RpBeginAdd, RpBeginCheck, RpEndRequest
 <2> QED BY <2>3
<1>8. ASSUME NEW y \in RpXids,
             RpExpire(y) \/ RpTimedWait(y) \/ RpTimedOut(y) \/ RpWaited(y) \/ RpDeferredReply(y)
      PROVE rp_fu[x].ready
 <2>1. CASE x # y
  <3>1. rp_fu'[x] = rp_fu[x] BY <1>1, <1>8, <2>1 DEF RpExpire, RpTimedWait, RpTimedOut, RpWaited, RpDeferredReply
  <3> QED BY <3>1
 <2>2. CASE x = y
  <3>1. CASE RpExpire(y) \/ RpDeferredReply(y) BY <1>2, <3>1 DEF RpExpire, RpDeferredReply
  <3>2. CASE RpTimedWait(y) \/ RpWaited(y)
   <4>1. rp_call[x] \notin {"timed out", "end"} BY <2>2, <3>2 DEF RpTimedWait, RpWaited
   <4> QED BY <1>1, <4>1 DEF RpFutureOK
  <3>3. CASE RpTimedOut(y)
   <4>1. rp_fu' = [rp_fu EXCEPT ![x].err = "ETIMEDOUT", ![x].runs = @ + 1, ![x].refs = @ - 1]
     BY <2>2, <3>3 DEF RpTimedOut
   <4>2. rp_fu'[x] = [fu EXCEPT !.err = "ETIMEDOUT", !.runs = @ + 1, !.refs = @ - 1] BY <1>1, <4>1
   <4> HIDE DEF fu
   <4>3. [fu EXCEPT !.err = "ETIMEDOUT", !.runs = @ + 1, !.refs = @ - 1].ready <=> fu.ready
    <5> DEFINE n == fu.runs + 1
               k == fu.refs - 1
               e == "ETIMEDOUT"
    <5> HIDE DEF n, k, e
    <5>1. [fu EXCEPT !.err = e, !.runs = n, !.refs = k].ready = fu.ready BY <1>1, Zenon DEF RpFuture
    <5> QED BY <5>1 DEF n, k, e
   <4> DEFINE w == [fu EXCEPT !.err = "ETIMEDOUT", !.runs = @ + 1, !.refs = @ - 1]
   <4>4. rp_fu'[x] = w /\ (w.ready <=> fu.ready) BY <4>2, <4>3
   <4> HIDE DEF w
   <4>5. fu.ready BY <4>4
   <4> QED BY <4>5 DEF fu
  <3> QED BY <1>8, <3>1, <3>2, <3>3
 <2> QED BY <2>1, <2>2
<1>9. ASSUME NEW th \in RpClosers, RpClose(th) \/ RpCloseMark(th) \/ RpInvalidate(th) PROVE rp_fu[x].ready
 <2>1. rp_fu' = rp_fu
       \/ rp_fu' = [w \in RpXids |-> IF w \in rp_cl.pend THEN RpNotifyReady(rp_fu[w], "ENOTCONN") ELSE rp_fu[w]]
   BY <1>9 DEF RpClose, RpCloseMark, RpInvalidate
 <2>2. rp_fu'[x] = rp_fu[x] \/ rp_fu'[x] = RpNotifyReady(fu, "ENOTCONN") BY <2>1
 <2>3. "ENOTCONN" \in {"none", "ENOENT", "ENOTCONN"} OBVIOUS
 <2> QED BY <1>3, <2>2, <2>3
<1>10. ASSUME NEW c \in RpConns,
              RpArrive(c) \/ RpAccept(c) \/ RpConnError(c) \/ RpPollDrop(c) \/ RpStopClose(c) \/ RpFreedClose(c)
       PROVE rp_fu[x].ready
  BY <1>2, <1>10 DEF RpArrive, RpAccept, RpConnError, RpPollDrop, RpStopClose, RpFreedClose, RpProcessEnds
<1>11. \A y \in RpXids :
         RpBeginLock(y) \/ RpBeginAdd(y) \/ RpBeginCheck(y) \/ RpEndRequest(y)
         \/ RpExpire(y) \/ RpTimedWait(y) \/ RpTimedOut(y) \/ RpWaited(y) \/ RpDeferredReply(y)
         => rp_fu[x].ready BY <1>7, <1>8
<1> HIDE DEF fu
<1> QED BY <1>4, <1>5, <1>6, <1>9, <1>10, <1>11, Zenon DEF RpNext

(* The invariant says how often each callback has run. *)
LEMMA RpFuturesRuns == RpFuturesOK => RpOncePerOutcome
<1> SUFFICES ASSUME RpFuturesOK, NEW x \in RpXids
             PROVE  rp_fu[x].runs = Cardinality({h \in {1} : rp_fu[x].ready})
                                    + Cardinality({h \in {1} : rp_fu[x].timed /\ rp_call[x] = "end"})
  BY DEF RpOncePerOutcome
<1> DEFINE R == {h \in {1} : rp_fu[x].ready}
           T == {h \in {1} : rp_fu[x].timed /\ rp_call[x] = "end"}
<1>1. R = IF rp_fu[x].ready THEN {1} ELSE {} OBVIOUS
<1>2. T = IF rp_fu[x].timed /\ rp_call[x] = "end" THEN {1} ELSE {} OBVIOUS
<1>3. Cardinality({1}) = 1 /\ Cardinality({}) = 0 BY FS_Singleton, FS_EmptySet
<1> HIDE DEF R, T
<1>4. Cardinality(R) = IF rp_fu[x].ready THEN 1 ELSE 0 BY <1>1, <1>3
<1>5. Cardinality(T) = IF rp_fu[x].timed /\ rp_call[x] = "end" THEN 1 ELSE 0 BY <1>2, <1>3
<1>6. rp_fu[x].runs = RpDue(rp_fu[x], rp_call[x]) BY DEF RpFuturesOK, RpFutureOK
<1>7. rp_fu[x].runs = Cardinality(R) + Cardinality(T) BY <1>4, <1>5, <1>6 DEF RpDue
<1> QED BY <1>7 DEF R, T

(* RpOncePerOutcome and RpTimeoutFinal, however the reply, timed_wait and close race:
   the callback of a future runs once when the future becomes ready and once when
   timed_wait gives up, and a reply or a close that comes after the timeout does not run
   it (Future::notify_ready). *)
THEOREM RpCallbacksHold == RpSpec => []RpOncePerOutcome /\ RpTimeoutFinal
<1>1. RpInit => RpInv /\ RpFuturesOK BY RpInitFutures
<1>2. RpInv /\ RpFuturesOK /\ [RpNext]_rpcVars => RpInv' /\ RpFuturesOK' BY RpStepInv, RpStepFutures
<1>3. RpFuturesOK => RpOncePerOutcome BY RpFuturesRuns
<1>4. RpInv /\ RpFuturesOK /\ [RpNext]_rpcVars
      => [\A x \in RpXids : rp_fu[x].timed /\ rp_fu'[x].ready => rp_fu[x].ready]_rpcVars BY RpTimeoutStep
<1> QED BY <1>1, <1>2, <1>3, <1>4, PTL DEF RpSpec, RpTimeoutFinal

-----
(* Lifecycle: requests meet servers that are up, and a worker that reports has nothing
   under way. The heart beat process has heard from every site that it is ready. *)
LcAllUp == \A s \in LcSites : <<"up", s>> \in lc_seen

LcStages == {"new", "read", "worker", "base", "manager", "service", "commo", "ready"}

(* A site that is ready, or was heard to be, reaches all the others. *)
LcSetupOK ==
  /\ lc_stage \in [LcSites -> LcStages]
  /\ lc_scs \in [LcSites -> {"none", "RUN", "STOP"}]
  /\ \A s \in LcSites : lc_stage[s] \in {"commo", "ready"} => LcConnected(s)
  /\ \A s \in LcSites : lc_scs[s] = "RUN" => lc_stage[s] \in {"commo", "ready"}
  /\ \A s \in LcSites : <<"up", s>> \in lc_seen => lc_stage[s] \in {"commo", "ready"}

(* Whoever goes past the barrier knows that all sites are. *)
LcBarrierOK ==
  /\ lc_flag = 1 => LcAllUp
  /\ lc_ctl \in {"barrier", "start", "record", "join"} => LcAllUp
  /\ \A p \in LcProcs : lc_ccs[p] \in {"RUN", "STOP"} => LcAllUp
  /\ \A c \in LcClients : lc_thr[c] = "loop" => LcAllUp
  /\ \A c \in LcClients : lc_w[c].run # {} => LcAllUp

LcWorkerRecord ==
  [left : 0..(LcWrap - 1), made : Nat, free : Nat, run : SUBSET Nat, frun : SUBSET Nat,
   n : Nat, fwd : SUBSET Nat, up : BOOLEAN]

(* Types; what main() has not launched yet is new; requests are numbered. *)
LcClientTypeOK ==
  /\ lc_load \in LcLoads
  /\ lc_main \in [LcProcs -> {"setup", "launch", "join", "wait", "exited", "killed"}]
  /\ \A p \in LcProcs : \A c \in LcClientsIn(p) : lc_main[p] \in {"setup", "launch"} => lc_thr[c] = "new"
  /\ lc_ccs \in [LcProcs -> {"INIT", "READY", "RUN", "FINISH", "STOP"}]
  /\ lc_thr \in [LcClients -> {"new", "work", "start?", "loop", "finish?", "stop?", "ended"}]
  /\ lc_w \in [LcClients -> LcWorkerRecord]
  /\ \A c \in LcClients : lc_w[c].run \subseteq 0..(lc_w[c].n - 1)

(* What n_concurrent_ counts, from the first coordinator to the end, for a worker w of a
   thread at t. *)
LcCounted(t, w) ==
  /\ w.frun = {} /\ w.fwd = {}
  /\ t \in {"new", "work", "start?"} => w.run = {} /\ w.made = 0
  /\ t \in {"new", "work", "start?", "loop"} => ~w.up
  /\ t = "loop" => Cardinality(w.run) = w.made /\ w.made <= w.left
  /\ t \in {"finish?", "stop?", "ended"} => w.left = Cardinality(w.run)

LcCountsOK ==
  ~lc_load.open /\ lc_load.forwards = 0 => \A c \in LcClients : LcCounted(lc_thr[c], lc_w[c])

(* The time is not up before the coordinators of the closed loop are made: the dispatch
   loop takes a moment, the duration is in seconds. *)
LcPunctual == \A l \in LcLoads : ~l.early

(* No step changes the experiment, and what was heard stays heard. *)
LEMMA LcLoadKept ==
  ASSUME LcNext
  PROVE  /\ lc_load' = lc_load
         /\ lc_seen \subseteq lc_seen'
         /\ LcSites' = LcSites /\ LcClients' = LcClients /\ LcProcs' = LcProcs
<1>1. lc_load' = lc_load
 <2>1. CASE \E s \in LcSites : LcSetup(s)
   BY <2>1 DEF LcSetup, LcReadI, LcWriteI, LcSetupBase, LcSetupManager, LcSetupService, LcSetupCommo, LcConnectToSite,
     LcConnectToManager
 <2>2. CASE \E p \in LcProcs : LcMain(p) \/ LcAlarm(p) \/ LcCollect(p) \/ LcClientShutdown(p)
   BY <2>2 DEF LcMain, LcSetupHeartbeat, LcLaunchWorkers, LcWaitForClients, LcMainReturns, LcAlarm, LcCollect, LcSwitch,
     LcCopy, LcClear, LcClientShutdown
 <2>3. CASE \E c \in LcClients : LcWork(c) \/ LcTimeUp(c) \/ LcFindOrCreateCoordinator(c) \/ LcAnswers(c)
   BY <2>3 DEF LcWork, LcWaitForStart, LcStarted, LcCreateCoordinator, LcLoopDone, LcWaitForShutdown, LcWorkEnds,
     LcTimeUp, LcFindOrCreateCoordinator, LcAnswers, LcRequestDone
 <2>4. CASE \E c \in LcClients : \/ LcAcceptForwardedRequest(c)
                                 \/ \E n \in lc_w[c].frun : LcForwardRequestDone(c, n)
   BY <2>4 DEF LcAcceptForwardedRequest, LcForwardRequestDone
 <2>5. CASE LcBeats \/ LcBeat \/ LcInitFailed \/ LcControl \/ LcRecordEnds \/ LcScriptDies
   BY <2>5 DEF LcBeats, LcServerReady, LcInitFinished, LcBeatsEnd, LcBeat, LcInitFailed, LcControl, LcCtlReady,
     LcBarrierPassed, LcAllStarted, LcServerKill, LcClientReadyBlock, LcClientStart, LcRecordEnds, LcScriptDies
 <2> QED BY <2>1, <2>2, <2>3, <2>4, <2>5 DEF LcNext
<1>2. lc_seen \subseteq lc_seen'
 <2>1. CASE \E s \in LcSites : LcSetup(s)
   BY <2>1 DEF LcSetup, LcReadI, LcWriteI, LcSetupBase, LcSetupManager, LcSetupService, LcSetupCommo, LcConnectToSite,
     LcConnectToManager, lcScriptVars
 <2>2. CASE \E p \in LcProcs : LcMain(p) \/ LcAlarm(p) \/ LcCollect(p) \/ LcClientShutdown(p)
   BY <2>2 DEF LcMain, LcSetupHeartbeat, LcLaunchWorkers, LcWaitForClients, LcMainReturns, LcAlarm, LcCollect, LcSwitch,
     LcCopy, LcClear, LcClientShutdown, lcScriptVars
 <2>3. CASE \E c \in LcClients : LcWork(c) \/ LcTimeUp(c) \/ LcFindOrCreateCoordinator(c) \/ LcAnswers(c)
   BY <2>3 DEF LcWork, LcWaitForStart, LcStarted, LcCreateCoordinator, LcLoopDone, LcWaitForShutdown, LcWorkEnds,
     LcTimeUp, LcFindOrCreateCoordinator, LcAnswers, LcRequestDone, lcScriptVars
 <2>4. CASE \E c \in LcClients : \/ LcAcceptForwardedRequest(c)
                                 \/ \E n \in lc_w[c].frun : LcForwardRequestDone(c, n)
   BY <2>4 DEF LcAcceptForwardedRequest, LcForwardRequestDone, lcScriptVars
 <2>5. CASE LcBeats \/ LcBeat \/ LcInitFailed \/ LcControl \/ LcRecordEnds \/ LcScriptDies
   BY <2>5 DEF LcBeats, LcServerReady, LcInitFinished, LcBeatsEnd, LcBeat, LcInitFailed, LcControl, LcCtlReady,
     LcBarrierPassed, LcAllStarted, LcServerKill, LcClientReadyBlock, LcClientStart, LcRecordEnds, LcScriptDies,
     lcScriptVars
 <2> QED BY <2>1, <2>2, <2>3, <2>4, <2>5 DEF LcNext
<1> QED BY <1>1, <1>2 DEF LcSites, LcClients, LcProcs

(* A setup that is complete stays complete. *)
LEMMA LcSetupKept ==
  ASSUME LcSetupOK, LcNext, UNCHANGED <<lc_stage, lc_conn, lc_scs>>,
         \A s \in LcSites : <<"up", s>> \in lc_seen' => <<"up", s>> \in lc_seen \/ lc_scs[s] = "RUN"
  PROVE LcSetupOK'
BY LcLoadKept DEF LcSetupOK, LcConnected, LcManages

LEMMA LcSetupStep ==
  ASSUME LcSetupOK, LcNext
  PROVE LcSetupOK'
<1>0. LcSites' = LcSites /\ LcClients' = LcClients /\ LcProcs' = LcProcs /\ lc_load' = lc_load BY LcLoadKept
<1>1. ASSUME NEW s \in LcSites, LcSetup(s) PROVE LcSetupOK'
 <2>1. CASE LcReadI(s) \/ LcWriteI(s) \/ LcSetupBase(s) \/ LcSetupManager(s) \/ LcSetupService(s) \/ LcSetupCommo(s)
  <3>1. PICK x \in LcStages : lc_stage' = [lc_stage EXCEPT ![s] = x]
    BY <2>1 DEF LcReadI, LcWriteI, LcSetupBase, LcSetupManager, LcSetupService, LcSetupCommo, LcStages
  <3>2. /\ lc_stage[s] \notin {"commo", "ready"}
        /\ x \in {"commo", "ready"} => LcConnected(s)
        /\ UNCHANGED <<lc_conn, lc_scs, lc_seen>>
    BY <2>1, <3>1 DEF LcReadI, LcWriteI, LcSetupBase, LcSetupManager, LcSetupService, LcSetupCommo, LcStages, LcSetupOK, lcScriptVars
  <3> QED BY <3>1, <3>2, <1>0 DEF LcSetupOK, LcConnected, LcManages
 <2>2. CASE \E t \in LcSites : LcConnectToSite(s, t) \/ LcConnectToManager(s, t)
  <3>1. UNCHANGED <<lc_stage, lc_scs, lc_seen>> /\ lc_conn \subseteq lc_conn'
    BY <2>2 DEF LcConnectToSite, LcConnectToManager, lcScriptVars
  <3> QED BY <3>1, <1>0 DEF LcSetupOK, LcConnected, LcManages
 <2> QED BY <1>1, <2>1, <2>2 DEF LcSetup
<1>2. ASSUME NEW p \in LcProcs, LcMain(p) \/ LcAlarm(p) \/ LcCollect(p) \/ LcClientShutdown(p) PROVE LcSetupOK'
 <2>1. CASE LcSetupHeartbeat(p)
  <3>1. UNCHANGED <<lc_conn, lc_seen>> BY <2>1 DEF LcSetupHeartbeat, lcScriptVars
  <3>2. /\ \A s \in LcSites : lc_stage'[s] = IF s \in LcSitesIn(p) THEN "ready" ELSE lc_stage[s]
        /\ \A s \in LcSites : lc_scs'[s] = IF s \in LcSitesIn(p) THEN "RUN" ELSE lc_scs[s]
        /\ \A s \in LcSitesIn(p) : lc_stage[s] = "commo"
        /\ lc_stage' \in [LcSites -> LcStages] /\ lc_scs' \in [LcSites -> {"none", "RUN", "STOP"}]
    BY <2>1 DEF LcSetupHeartbeat, LcJoined, LcSetupOK, LcStages
  <3> QED BY <3>1, <3>2, <1>0 DEF LcSetupOK, LcConnected, LcManages
 <2>2. CASE LcAlarm(p)
  <3>1. /\ UNCHANGED <<lc_conn, lc_seen, lc_stage>>
        /\ lc_scs' = [s \in LcSites |-> IF s \in LcRegistered(p) THEN "STOP" ELSE lc_scs[s]]
    BY <2>2 DEF LcAlarm, lcScriptVars
  <3> QED BY <3>1, <1>0 DEF LcSetupOK, LcConnected, LcManages
 <2>3. CASE LcLaunchWorkers(p) \/ LcWaitForClients(p) \/ LcMainReturns(p) \/ LcCollect(p) \/ LcClientShutdown(p)
  <3>1. UNCHANGED <<lc_stage, lc_conn, lc_scs>>
    BY <2>3 DEF LcLaunchWorkers, LcWaitForClients, LcMainReturns, LcCollect, LcSwitch, LcCopy, LcClear,
      LcClientShutdown, lcServerVars
  <3>2. \A s \in LcSites : <<"up", s>> \in lc_seen' => <<"up", s>> \in lc_seen
    BY <2>3 DEF LcLaunchWorkers, LcWaitForClients, LcMainReturns, LcCollect, LcSwitch, LcCopy, LcClear,
      LcClientShutdown, lcScriptVars
  <3> QED BY <3>1, <3>2, LcSetupKept
 <2> QED BY <1>2, <2>1, <2>2, <2>3 DEF LcMain
<1>3. ASSUME NEW c \in LcClients,
             \/ LcWork(c) \/ LcTimeUp(c) \/ LcFindOrCreateCoordinator(c) \/ LcAnswers(c)
             \/ LcAcceptForwardedRequest(c)
             \/ \E n \in lc_w[c].frun : LcForwardRequestDone(c, n)
      PROVE LcSetupOK'
 <2>1. UNCHANGED <<lc_stage, lc_conn, lc_scs>>
   BY <1>3 DEF LcWork, LcWaitForStart, LcStarted, LcCreateCoordinator, LcLoopDone, LcWaitForShutdown, LcWorkEnds,
     LcTimeUp, LcFindOrCreateCoordinator, LcAnswers, LcRequestDone, LcAcceptForwardedRequest, LcForwardRequestDone,
     lcServerVars
 <2>2. lc_seen' = lc_seen \/ \E D : lc_seen' = lc_seen \cup {<<"ready", d>> : d \in D}
  <3>1. CASE LcWaitForStart(c) BY <3>1 DEF LcWaitForStart
  <3>2. CASE ~LcWaitForStart(c)
    BY <1>3, <3>2 DEF LcWork, LcStarted, LcCreateCoordinator, LcLoopDone, LcWaitForShutdown, LcWorkEnds, LcTimeUp,
      LcFindOrCreateCoordinator, LcAnswers, LcRequestDone, LcAcceptForwardedRequest, LcForwardRequestDone, lcScriptVars
  <3> QED BY <3>1, <3>2
 <2>3. \A s \in LcSites : <<"up", s>> \in lc_seen' => <<"up", s>> \in lc_seen BY <2>2
 <2> QED BY <2>1, <2>3, LcSetupKept
<1>4. CASE LcBeats \/ LcBeat \/ LcInitFailed \/ LcControl \/ LcRecordEnds \/ LcScriptDies
 <2>1. UNCHANGED <<lc_stage, lc_conn, lc_scs>>
   BY <1>4 DEF LcBeats, LcServerReady, LcInitFinished, LcBeatsEnd, LcBeat, LcInitFailed, LcControl, LcCtlReady,
     LcBarrierPassed, LcAllStarted, LcServerKill, LcClientReadyBlock, LcClientStart, LcRecordEnds, LcScriptDies,
     lcServerVars
 <2>2. \A s \in LcSites : <<"up", s>> \in lc_seen' => <<"up", s>> \in lc_seen \/ lc_scs[s] = "RUN"
  <3>1. CASE \E t \in LcSites : LcServerReady(t) BY <3>1 DEF LcServerReady
  <3>2. CASE \E c \in LcClients : LcClientReadyBlock(c) BY <3>2 DEF LcClientReadyBlock
  <3>3. CASE \E p \in LcProcs : LcClientStart(p) BY <3>3 DEF LcClientStart
  <3>4. CASE \/ LcInitFinished \/ LcBeatsEnd \/ LcBeat \/ LcInitFailed \/ LcCtlReady \/ LcBarrierPassed
             \/ LcAllStarted \/ LcServerKill \/ LcRecordEnds \/ LcScriptDies
    BY <3>4 DEF LcInitFinished, LcBeatsEnd, LcBeat, LcInitFailed, LcCtlReady, LcBarrierPassed, LcAllStarted,
      LcServerKill, LcRecordEnds, LcScriptDies, lcScriptVars
  <3> QED BY <1>4, <3>1, <3>2, <3>3, <3>4 DEF LcBeats, LcControl
 <2> QED BY <2>1, <2>2, LcSetupKept
<1> QED BY <1>1, <1>2, <1>3, <1>4 DEF LcNext

(* Requests are numbered in the order in which they are made. *)
LEMMA LcNumbered ==
  ASSUME NEW k \in Nat, NEW R, R \subseteq 0..(k - 1)
  PROVE  /\ R \subseteq 0..((k + 1) - 1)
         /\ R \cup {k} \subseteq 0..((k + 1) - 1)
OBVIOUS

(* A request handed out, and one that is the last of its coordinator. *)
LEMMA LcIssuedFields ==
  ASSUME NEW w \in LcWorkerRecord, w.run \subseteq 0..(w.n - 1)
  PROVE  /\ LcIssued(w) \in LcWorkerRecord
         /\ LcIssued(w).run \subseteq 0..(LcIssued(w).n - 1)
         /\ LcIssued(w).run = w.run \cup {w.n} /\ LcIssued(w).n = w.n + 1
         /\ LcIssued(w).left = w.left /\ LcIssued(w).made = w.made /\ LcIssued(w).free = w.free
         /\ LcIssued(w).frun = w.frun /\ LcIssued(w).fwd = w.fwd /\ LcIssued(w).up = w.up
<1> DEFINE R == w.run \cup {w.n}
           k == w.n + 1
<1>a. LcIssued(w) = [w EXCEPT !.run = R, !.n = k] BY DEF LcIssued
<1>b. R \in SUBSET Nat /\ k \in Nat BY DEF LcWorkerRecord
<1>c. R = w.run \cup {w.n} /\ k = w.n + 1 OBVIOUS
<1> HIDE DEF R, k
<1>d. LcIssued(w) \in LcWorkerRecord BY <1>a, <1>b DEF LcWorkerRecord
<1>1. /\ LcIssued(w).run = w.run \cup {w.n} /\ LcIssued(w).n = w.n + 1
      /\ LcIssued(w).left = w.left /\ LcIssued(w).made = w.made /\ LcIssued(w).free = w.free
      /\ LcIssued(w).frun = w.frun /\ LcIssued(w).fwd = w.fwd /\ LcIssued(w).up = w.up BY <1>a, <1>c DEF LcWorkerRecord
<1>2. w.n \in Nat BY DEF LcWorkerRecord
<1>3. w.run \cup {w.n} \subseteq 0..((w.n + 1) - 1) BY <1>2, LcNumbered
<1> QED BY <1>1, <1>3, <1>d

LEMMA LcOneLessFields ==
  ASSUME NEW w \in LcWorkerRecord
  PROVE  /\ LcOneLess(w) \in LcWorkerRecord
         /\ LcOneLess(w).run = w.run /\ LcOneLess(w).n = w.n
         /\ w.left > 0 => LcOneLess(w).left = w.left - 1
         /\ LcOneLess(w).made = w.made /\ LcOneLess(w).frun = w.frun /\ LcOneLess(w).fwd = w.fwd
         /\ LcOneLess(w).up = w.up
<1>1. (w.left - 1) % LcWrap \in 0..(LcWrap - 1) BY LcAssumption DEF LcWorkerRecord
<1>2. w.left > 0 => (w.left - 1) % LcWrap = w.left - 1 BY LcAssumption DEF LcWorkerRecord
<1> DEFINE x == (w.left - 1) % LcWrap
<1>3. LcOneLess(w) = [w EXCEPT !.left = x] BY DEF LcOneLess
<1> HIDE DEF x
<1>4. x \in 0..(LcWrap - 1) /\ (w.left > 0 => x = w.left - 1) BY <1>1, <1>2 DEF x
<1> QED BY <1>3, <1>4 DEF LcWorkerRecord

(* The requests under way are finitely many; one more and one less. *)
LEMMA LcRunSize ==
  ASSUME NEW k \in Nat, NEW R, R \subseteq 0..(k - 1)
  PROVE  /\ IsFiniteSet(R) /\ Cardinality(R) \in Nat
         /\ Cardinality(R \cup {k}) = Cardinality(R) + 1
         /\ \A n \in R : Cardinality(R \ {n}) = Cardinality(R) - 1 /\ Cardinality(R) > 0
<1>1. IsFiniteSet(0..(k - 1)) BY FS_Interval
<1>2. IsFiniteSet(R) BY <1>1, FS_Subset
<1>3. Cardinality(R) \in Nat BY <1>2, FS_CardinalityType
<1>4. k \notin R OBVIOUS
<1>5. Cardinality(R \cup {k}) = Cardinality(R) + 1 BY <1>2, <1>4, FS_AddElement
<1>6. ASSUME NEW n \in R PROVE Cardinality(R \ {n}) = Cardinality(R) - 1 /\ Cardinality(R) > 0
 <2>1. Cardinality(R \ {n}) = Cardinality(R) - 1 BY <1>2, FS_RemoveElement
 <2>2. Cardinality(R) # 0 BY <1>2, FS_EmptySet
 <2> QED BY <2>1, <2>2, <1>3
<1> QED BY <1>2, <1>3, <1>5, <1>6

(* What a step of the thread or a request of client c makes of its worker. *)
LcWorkerStep(c, v) ==
  /\ c \in LcClients
  /\ lc_w' = [lc_w EXCEPT ![c] = v]
  /\ v \in LcWorkerRecord
  /\ v.run \subseteq 0..(v.n - 1)
  /\ v.run # {} => lc_w[c].run # {} \/ lc_thr[c] = "loop"

(* One request is answered: the record in between. *)
LEMMA LcAnsweredFields ==
  ASSUME NEW w \in LcWorkerRecord, w.run \subseteq 0..(w.n - 1), NEW n, NEW x, x = [w EXCEPT !.run = @ \ {n}]
  PROVE  /\ x \in LcWorkerRecord
         /\ x.run = w.run \ {n} /\ x.run \subseteq 0..(x.n - 1)
         /\ x.left = w.left /\ x.made = w.made /\ x.frun = w.frun /\ x.fwd = w.fwd /\ x.up = w.up /\ x.n = w.n
BY DEF LcWorkerRecord

LEMMA LcAfterFields ==
  ASSUME NEW w \in LcWorkerRecord, w.run \subseteq 0..(w.n - 1)
  PROVE LcAfter(w) \in LcWorkerRecord /\ LcAfter(w).run \subseteq 0..(LcAfter(w).n - 1)
<1>1. CASE w.up BY <1>1, LcOneLessFields DEF LcAfter
<1>2. CASE ~w.up /\ lc_load.open BY <1>2 DEF LcAfter, LcWorkerRecord
<1>3. CASE ~w.up /\ ~lc_load.open BY <1>3, LcIssuedFields DEF LcAfter
<1> QED BY <1>1, <1>2, <1>3

LEMMA LcWorkerSteps ==
  ASSUME LcClientTypeOK, LcNext
  PROVE lc_w' = lc_w \/ \E c, v : LcWorkerStep(c, v)
<1>1. CASE \E s \in LcSites : LcSetup(s)
  BY <1>1 DEF LcSetup, LcReadI, LcWriteI, LcSetupBase, LcSetupManager, LcSetupService, LcSetupCommo, LcConnectToSite,
    LcConnectToManager, lcClientVars
<1>2. CASE \E p \in LcProcs : LcMain(p) \/ LcAlarm(p) \/ LcCollect(p) \/ LcClientShutdown(p)
  BY <1>2 DEF LcMain, LcSetupHeartbeat, LcLaunchWorkers, LcWaitForClients, LcMainReturns, LcAlarm, LcCollect, LcSwitch,
    LcCopy, LcClear, LcClientShutdown, lcClientVars
<1>3. ASSUME NEW c \in LcClients,
             \/ LcWork(c) \/ LcTimeUp(c) \/ LcFindOrCreateCoordinator(c) \/ LcAnswers(c)
             \/ LcAcceptForwardedRequest(c)
             \/ \E n \in lc_w[c].frun : LcForwardRequestDone(c, n)
      PROVE lc_w' = lc_w \/ \E v : LcWorkerStep(c, v)
 <2> DEFINE w == lc_w[c]
 <2>0. w \in LcWorkerRecord /\ w.run \subseteq 0..(w.n - 1) BY DEF LcClientTypeOK
 <2>1. CASE LcWaitForStart(c) \/ LcStarted(c) \/ LcLoopDone(c) \/ LcWaitForShutdown(c) \/ LcWorkEnds(c)
   BY <2>1 DEF LcWaitForStart, LcStarted, LcLoopDone, LcWaitForShutdown, LcWorkEnds
 <2>2. CASE LcCreateCoordinator(c)
  <3> DEFINE v == [LcIssued(w) EXCEPT !.made = w.made + 1]
  <3>1. v \in LcWorkerRecord /\ v.run \subseteq 0..(v.n - 1) BY <2>0, LcIssuedFields DEF LcWorkerRecord
  <3>2. lc_w' = [lc_w EXCEPT ![c] = v] /\ lc_thr[c] = "loop" BY <2>2 DEF LcCreateCoordinator
  <3> QED BY <3>1, <3>2 DEF LcWorkerStep
 <2>3. CASE LcFindOrCreateCoordinator(c)
  <3> DEFINE v == IF w.free > 0 THEN [LcIssued(w) EXCEPT !.free = w.free - 1] ELSE LcIssued(w)
  <3>1. v \in LcWorkerRecord /\ v.run \subseteq 0..(v.n - 1) BY <2>0, LcIssuedFields DEF LcWorkerRecord
  <3>2. lc_w' = [lc_w EXCEPT ![c] = v] /\ lc_thr[c] = "loop" BY <2>3 DEF LcFindOrCreateCoordinator
  <3> QED BY <3>1, <3>2 DEF LcWorkerStep
 <2>4. CASE LcTimeUp(c)
  <3> DEFINE v == [w EXCEPT !.up = TRUE]
  <3>1. v \in LcWorkerRecord /\ v.run = w.run /\ v.n = w.n BY <2>0 DEF LcWorkerRecord
  <3>2. lc_w' = [lc_w EXCEPT ![c] = v] BY <2>4 DEF LcTimeUp
  <3> QED BY <2>0, <3>1, <3>2 DEF LcWorkerStep
 <2>5. CASE LcAnswers(c)
  <3>1. PICK n \in w.run : LcRequestDone(c, n) BY <2>5 DEF LcAnswers
  <3> DEFINE x == [w EXCEPT !.run = @ \ {n}]
  <3>2. lc_w' = [lc_w EXCEPT ![c] = LcAfter(x)] BY <3>1 DEF LcRequestDone
  <3>3. x \in LcWorkerRecord /\ x.run \subseteq 0..(x.n - 1) BY <2>0, LcAnsweredFields
  <3>4. LcAfter(x) \in LcWorkerRecord /\ LcAfter(x).run \subseteq 0..(LcAfter(x).n - 1) BY <3>3, LcAfterFields
  <3> QED BY <3>1, <3>2, <3>4 DEF LcWorkerStep
 <2>6. CASE LcAcceptForwardedRequest(c)
  <3> DEFINE v == [w EXCEPT !.free = IF @ > 0 THEN @ - 1 ELSE 0, !.frun = @ \cup {w.n},
                            !.n = @ + 1, !.fwd = @ \cup {w.n}]
  <3>1. v \in LcWorkerRecord /\ v.run = w.run /\ v.run \subseteq 0..(v.n - 1)
   <4> DEFINE f == IF w.free > 0 THEN w.free - 1 ELSE 0
              r == w.frun \cup {w.n}
              k == w.n + 1
              g == w.fwd \cup {w.n}
   <4>a. v = [w EXCEPT !.free = f, !.frun = r, !.n = k, !.fwd = g] OBVIOUS
   <4>b. f \in Nat /\ r \in SUBSET Nat /\ k \in Nat /\ g \in SUBSET Nat /\ w.n \in Nat /\ k = w.n + 1
     BY <2>0 DEF LcWorkerRecord
   <4> HIDE DEF f, r, k, g, v
   <4>1. v \in LcWorkerRecord /\ v.run = w.run /\ v.n = w.n + 1 /\ w.n \in Nat BY <2>0, <4>a, <4>b DEF LcWorkerRecord
   <4>2. w.run \subseteq 0..((w.n + 1) - 1) BY <2>0, <4>1, LcNumbered
   <4> QED BY <4>1, <4>2
  <3>2. lc_w' = [lc_w EXCEPT ![c] = v] BY <2>6 DEF LcAcceptForwardedRequest
  <3> QED BY <3>1, <3>2 DEF LcWorkerStep
 <2>7. CASE \E n \in lc_w[c].frun : LcForwardRequestDone(c, n)
  <3>1. PICK n \in w.frun : LcForwardRequestDone(c, n) BY <2>7
  <3> DEFINE x == [w EXCEPT !.frun = @ \ {n}]
             v == IF x.up THEN LcOneLess(x) ELSE IF lc_load.open THEN [x EXCEPT !.free = @ + 1] ELSE x
  <3>2. lc_w' = [lc_w EXCEPT ![c] = v] BY <3>1 DEF LcForwardRequestDone
  <3>3. x \in LcWorkerRecord /\ x.run = w.run /\ x.n = w.n BY <2>0 DEF LcWorkerRecord
  <3> HIDE DEF x
  <3>4. v \in LcWorkerRecord /\ v.run = w.run /\ v.n = w.n
   <4>1. CASE x.up BY <3>3, <4>1, LcOneLessFields
   <4>2. CASE ~x.up BY <3>3, <4>2 DEF LcWorkerRecord
   <4> QED BY <4>1, <4>2
  <3> QED BY <2>0, <3>2, <3>4 DEF LcWorkerStep
 <2> QED BY <1>3, <2>1, <2>2, <2>3, <2>4, <2>5, <2>6, <2>7 DEF LcWork
<1>4. CASE LcBeats \/ LcBeat \/ LcInitFailed \/ LcControl \/ LcRecordEnds \/ LcScriptDies
  BY <1>4 DEF LcBeats, LcServerReady, LcInitFinished, LcBeatsEnd, LcBeat, LcInitFailed, LcControl, LcCtlReady,
    LcBarrierPassed, LcAllStarted, LcServerKill, LcClientReadyBlock, LcClientStart, LcRecordEnds, LcScriptDies,
    lcClientVars
<1> QED BY <1>1, <1>2, <1>3, <1>4 DEF LcNext

(* What the other parts of the clients and of the script do in a step. *)
LEMMA LcProgress ==
  ASSUME LcClientTypeOK, LcNext
  PROVE  /\ lc_flag' = 1 => lc_flag = 1 \/ LcAllUp
         /\ lc_ctl' \in {"barrier", "start", "record", "join"} =>
              lc_ctl \in {"barrier", "start", "record", "join"} \/ lc_flag = 1
         /\ \/ lc_ccs' = lc_ccs
            \/ \E p, x : /\ lc_ccs' = [lc_ccs EXCEPT ![p] = x]
                         /\ x \in {"READY", "RUN", "FINISH", "STOP"}
                         /\ x \in {"RUN", "STOP"} => lc_ctl \in {"start", "join"}
<1>1. CASE \E s \in LcSites : LcSetup(s)
  BY <1>1 DEF LcSetup, LcReadI, LcWriteI, LcSetupBase, LcSetupManager, LcSetupService, LcSetupCommo, LcConnectToSite,
    LcConnectToManager, lcClientVars, lcScriptVars
<1>2. CASE \E p \in LcProcs : LcMain(p) \/ LcAlarm(p) \/ LcCollect(p) \/ LcClientShutdown(p)
 <2>1. CASE \E p \in LcProcs : LcMain(p) \/ LcAlarm(p) \/ LcCollect(p)
   BY <2>1 DEF LcMain, LcSetupHeartbeat, LcLaunchWorkers, LcWaitForClients, LcMainReturns, LcAlarm, LcCollect, LcSwitch,
     LcCopy, LcClear, lcClientVars, lcScriptVars
 <2>2. CASE \E p \in LcProcs : LcClientShutdown(p) BY <2>2 DEF LcClientShutdown, lcScriptVars
 <2> QED BY <1>2, <2>1, <2>2
<1>3. CASE \E c \in LcClients :
             \/ LcWork(c) \/ LcTimeUp(c) \/ LcFindOrCreateCoordinator(c) \/ LcAnswers(c)
             \/ LcAcceptForwardedRequest(c)
             \/ \E n \in lc_w[c].frun : LcForwardRequestDone(c, n)
 <2>1. CASE \E c \in LcClients : LcWaitForStart(c)
  <3>1. PICK c \in LcClients : LcWaitForStart(c) BY <2>1
  <3>2. lc_flag' = lc_flag /\ lc_ctl' = lc_ctl BY <3>1 DEF LcWaitForStart
  <3>3. lc_ccs' = lc_ccs \/ lc_ccs' = [lc_ccs EXCEPT ![LcProcOf(c)] = "READY"] BY <3>1 DEF LcWaitForStart
  <3> QED BY <3>2, <3>3
 <2>2. CASE \E c \in LcClients : LcWaitForShutdown(c) BY <2>2 DEF LcWaitForShutdown, lcScriptVars
 <2>3. CASE \E c \in LcClients :
              \/ LcStarted(c) \/ LcCreateCoordinator(c) \/ LcLoopDone(c) \/ LcWorkEnds(c)
              \/ LcTimeUp(c) \/ LcFindOrCreateCoordinator(c) \/ LcAnswers(c)
              \/ LcAcceptForwardedRequest(c)
              \/ \E n \in lc_w[c].frun : LcForwardRequestDone(c, n)
   BY <2>3 DEF LcStarted, LcCreateCoordinator, LcLoopDone, LcWorkEnds, LcTimeUp, LcFindOrCreateCoordinator, LcAnswers,
     LcRequestDone, LcAcceptForwardedRequest, LcForwardRequestDone, lcScriptVars
 <2> QED BY <1>3, <2>1, <2>2, <2>3 DEF LcWork
<1>4. CASE LcBeats \/ LcBeat \/ LcInitFailed \/ LcControl \/ LcRecordEnds \/ LcScriptDies
 <2>1. CASE LcBeats \/ LcBeat \/ LcInitFailed
  <3>1. CASE LcInitFinished
   <4>1. LcAllUp BY <3>1 DEF LcInitFinished, LcAllUp
   <4>2. lc_ctl' = lc_ctl /\ lc_ccs' = lc_ccs BY <3>1 DEF LcInitFinished, lcClientVars
   <4> QED BY <4>1, <4>2
  <3>2. CASE (\E s \in LcSites : LcServerReady(s)) \/ LcBeatsEnd \/ LcBeat \/ LcInitFailed
   <4>1. lc_flag' = lc_flag \/ lc_flag' = 5 BY <3>2 DEF LcServerReady, LcBeatsEnd, LcBeat, LcInitFailed, lcScriptVars
   <4>2. lc_ctl' = lc_ctl /\ lc_ccs' = lc_ccs
     BY <3>2 DEF LcServerReady, LcBeatsEnd, LcBeat, LcInitFailed, lcClientVars, lcScriptVars
   <4> QED BY <4>1, <4>2
  <3> QED BY <2>1, <3>1, <3>2 DEF LcBeats
 <2>2. CASE LcControl
   BY <2>2 DEF LcControl, LcCtlReady, LcBarrierPassed, LcAllStarted, LcServerKill, LcClientReadyBlock, LcClientStart,
     lcClientVars
 <2>3. CASE LcRecordEnds \/ LcScriptDies BY <2>3 DEF LcRecordEnds, LcScriptDies, lcClientVars
 <2> QED BY <1>4, <2>1, <2>2, <2>3
<1> QED BY <1>1, <1>2, <1>3, <1>4 DEF LcNext

(* How a client's thread moves on. *)
LcMoves(c, x) ==
  /\ c \in LcClients
  /\ x \in {"start?", "loop", "finish?", "stop?", "ended"}
  /\ lc_thr' = [lc_thr EXCEPT ![c] = x]
  /\ \/ x = "start?" /\ lc_thr[c] = "work"
     \/ x = "loop" /\ lc_thr[c] = "start?" /\ lc_ccs[LcProcOf(c)] \in {"RUN", "STOP"}
     \/ /\ x = "finish?" /\ lc_thr[c] = "loop"
        /\ IF lc_load.open THEN lc_w[c].up ELSE lc_w[c].made >= lc_w[c].left
     \/ x \in {"stop?", "ended"} /\ lc_thr[c] \in {"finish?", "stop?"}

LcLaunches ==
  \E p \in LcProcs :
    /\ lc_main[p] = "launch" /\ lc_main' = [lc_main EXCEPT ![p] = "join"]
    /\ lc_thr' = [c \in LcClients |-> IF c \in LcClientsIn(p) THEN "work" ELSE lc_thr[c]]

LEMMA LcThreadSteps ==
  ASSUME LcClientTypeOK, LcNext
  PROVE  \/ lc_thr' = lc_thr
         \/ LcLaunches /\ lc_w' = lc_w
         \/ (\E c, x : LcMoves(c, x)) /\ lc_w' = lc_w
<1>1. CASE \E s \in LcSites : LcSetup(s)
  BY <1>1 DEF LcSetup, LcReadI, LcWriteI, LcSetupBase, LcSetupManager, LcSetupService, LcSetupCommo, LcConnectToSite,
    LcConnectToManager, lcClientVars
<1>2. CASE \E p \in LcProcs : LcMain(p) \/ LcAlarm(p) \/ LcCollect(p) \/ LcClientShutdown(p)
 <2>1. CASE \E p \in LcProcs : LcLaunchWorkers(p) BY <2>1 DEF LcLaunchWorkers, LcLaunches
 <2>2. CASE ~\E p \in LcProcs : LcLaunchWorkers(p)
   BY <1>2, <2>2 DEF LcMain, LcSetupHeartbeat, LcWaitForClients, LcMainReturns, LcAlarm, LcCollect, LcSwitch, LcCopy,
     LcClear, LcClientShutdown, lcClientVars
 <2> QED BY <2>1, <2>2
<1>3. CASE \E c \in LcClients :
             \/ LcWork(c) \/ LcTimeUp(c) \/ LcFindOrCreateCoordinator(c) \/ LcAnswers(c)
             \/ LcAcceptForwardedRequest(c)
             \/ \E n \in lc_w[c].frun : LcForwardRequestDone(c, n)
 <2>1. CASE \E c \in LcClients : LcWaitForStart(c) BY <2>1 DEF LcWaitForStart, LcMoves
 <2>2. CASE \E c \in LcClients : LcStarted(c) BY <2>2 DEF LcStarted, LcMoves
 <2>3. CASE \E c \in LcClients : LcLoopDone(c) BY <2>3 DEF LcLoopDone, LcMoves
 <2>4. CASE \E c \in LcClients : LcWaitForShutdown(c) \/ LcWorkEnds(c)
   BY <2>4 DEF LcWaitForShutdown, LcWorkEnds, LcMoves
 <2>5. CASE \E c \in LcClients :
              \/ LcCreateCoordinator(c) \/ LcTimeUp(c) \/ LcFindOrCreateCoordinator(c) \/ LcAnswers(c)
              \/ LcAcceptForwardedRequest(c)
              \/ \E n \in lc_w[c].frun : LcForwardRequestDone(c, n)
   BY <2>5 DEF LcCreateCoordinator, LcTimeUp, LcFindOrCreateCoordinator, LcAnswers, LcRequestDone,
     LcAcceptForwardedRequest, LcForwardRequestDone
 <2> QED BY <1>3, <2>1, <2>2, <2>3, <2>4, <2>5 DEF LcWork
<1>4. CASE LcBeats \/ LcBeat \/ LcInitFailed \/ LcControl \/ LcRecordEnds \/ LcScriptDies
  BY <1>4 DEF LcBeats, LcServerReady, LcInitFinished, LcBeatsEnd, LcBeat, LcInitFailed, LcControl, LcCtlReady,
    LcBarrierPassed, LcAllStarted, LcServerKill, LcClientReadyBlock, LcClientStart, LcRecordEnds, LcScriptDies,
    lcClientVars
<1> QED BY <1>1, <1>2, <1>3, <1>4 DEF LcNext

(* A process that has yet to launch its clients has not launched them. *)
LEMMA LcMainSteps ==
  ASSUME LcClientTypeOK, LcNext
  PROVE  /\ lc_main' \in [LcProcs -> {"setup", "launch", "join", "wait", "exited", "killed"}]
         /\ \A p \in LcProcs : lc_main'[p] \in {"setup", "launch"} => lc_main[p] \in {"setup", "launch"}
<1>1. CASE \E s \in LcSites : LcSetup(s)
 <2>1. lc_main' = lc_main
   BY <1>1 DEF LcSetup, LcReadI, LcWriteI, LcSetupBase, LcSetupManager, LcSetupService, LcSetupCommo, LcConnectToSite,
     LcConnectToManager
 <2> QED BY <2>1 DEF LcClientTypeOK
<1>2. CASE \E p \in LcProcs : LcMain(p)
 <2>1. PICK p \in LcProcs : LcMain(p) BY <1>2
 <2>2. PICK x \in {"launch", "join", "wait", "exited"} :
         lc_main' = [lc_main EXCEPT ![p] = x] /\ (x = "launch" => lc_main[p] = "setup")
   BY <2>1 DEF LcMain, LcSetupHeartbeat, LcLaunchWorkers, LcWaitForClients, LcMainReturns
 <2> QED BY <2>2 DEF LcClientTypeOK
<1>3. CASE \E p \in LcProcs : LcAlarm(p) \/ LcCollect(p) \/ LcClientShutdown(p)
 <2>1. lc_main' = lc_main BY <1>3 DEF LcAlarm, LcCollect, LcSwitch, LcCopy, LcClear, LcClientShutdown
 <2> QED BY <2>1 DEF LcClientTypeOK
<1>4. CASE \E c \in LcClients :
             \/ LcWork(c) \/ LcTimeUp(c) \/ LcFindOrCreateCoordinator(c) \/ LcAnswers(c)
             \/ LcAcceptForwardedRequest(c)
             \/ \E n \in lc_w[c].frun : LcForwardRequestDone(c, n)
 <2>1. lc_main' = lc_main
   BY <1>4 DEF LcWork, LcWaitForStart, LcStarted, LcCreateCoordinator, LcLoopDone, LcWaitForShutdown, LcWorkEnds,
     LcTimeUp, LcFindOrCreateCoordinator, LcAnswers, LcRequestDone, LcAcceptForwardedRequest, LcForwardRequestDone
 <2> QED BY <2>1 DEF LcClientTypeOK
<1>5. CASE LcServerKill
 <2>1. lc_main' = [p \in LcProcs |-> IF LcRuns(p) THEN "killed" ELSE lc_main[p]] BY <1>5 DEF LcServerKill
 <2> QED BY <2>1 DEF LcClientTypeOK
<1>6. CASE ~LcServerKill /\ (LcBeats \/ LcBeat \/ LcInitFailed \/ LcControl \/ LcRecordEnds \/ LcScriptDies)
 <2>1. lc_main' = lc_main
   BY <1>6 DEF LcBeats, LcServerReady, LcInitFinished, LcBeatsEnd, LcBeat, LcInitFailed, LcControl, LcCtlReady,
     LcBarrierPassed, LcAllStarted, LcClientReadyBlock, LcClientStart, LcRecordEnds, LcScriptDies
 <2> QED BY <2>1 DEF LcClientTypeOK
<1> QED BY <1>1, <1>2, <1>3, <1>4, <1>5, <1>6 DEF LcNext

LEMMA LcClientTypeStep ==
  ASSUME LcClientTypeOK, LcNext
  PROVE LcClientTypeOK'
<1>0. LcSites' = LcSites /\ LcClients' = LcClients /\ LcProcs' = LcProcs /\ lc_load' = lc_load BY LcLoadKept
<1>1. (lc_ccs \in [LcProcs -> {"INIT", "READY", "RUN", "FINISH", "STOP"}])' BY <1>0, LcProgress DEF LcClientTypeOK
<1>2. (lc_thr \in [LcClients -> {"new", "work", "start?", "loop", "finish?", "stop?", "ended"}])'
  BY <1>0, LcThreadSteps DEF LcClientTypeOK, LcMoves, LcLaunches
<1>3. /\ lc_w' \in [LcClients -> LcWorkerRecord]
      /\ \A c \in LcClients : lc_w'[c].run \subseteq 0..(lc_w'[c].n - 1)
  BY LcWorkerSteps DEF LcClientTypeOK, LcWorkerStep
<1>4. (\A p \in LcProcs : \A c \in LcClientsIn(p) : lc_main[p] \in {"setup", "launch"} => lc_thr[c] = "new")'
 <2> SUFFICES ASSUME NEW p \in LcProcs, NEW c \in LcClients, lc_load.clients[c] = p, lc_main'[p] \in {"setup", "launch"}
              PROVE lc_thr'[c] = "new" BY <1>0 DEF LcClientsIn
 <2>1. lc_thr[c] = "new" BY LcMainSteps DEF LcClientTypeOK, LcClientsIn
 <2>2. CASE LcLaunches
  <3>1. PICK q \in LcProcs : /\ lc_main[q] = "launch" /\ lc_main' = [lc_main EXCEPT ![q] = "join"]
                             /\ lc_thr' = [d \in LcClients |-> IF d \in LcClientsIn(q) THEN "work" ELSE lc_thr[d]]
    BY <2>2 DEF LcLaunches
  <3>2. q # p BY <3>1 DEF LcClientTypeOK
  <3>3. c \notin LcClientsIn(q) BY <3>2 DEF LcClientsIn
  <3> QED BY <2>1, <3>1, <3>3
 <2>3. CASE \E d, x : LcMoves(d, x) BY <2>1, <2>3 DEF LcMoves, LcClientTypeOK
 <2> QED BY <2>1, <2>2, <2>3, LcThreadSteps
<1>5. LcWorkerRecord' = LcWorkerRecord BY DEF LcWorkerRecord
<1> QED BY <1>0, <1>1, <1>2, <1>3, <1>4, <1>5, LcMainSteps DEF LcClientTypeOK

LEMMA LcBarrierStep ==
  ASSUME LcClientTypeOK, LcBarrierOK, LcNext
  PROVE LcBarrierOK'
<1>0. LcSites' = LcSites /\ LcClients' = LcClients /\ LcProcs' = LcProcs /\ lc_load' = lc_load BY LcLoadKept
<1>1. LcAllUp => LcAllUp' BY LcLoadKept DEF LcAllUp
<1>2. lc_flag' = 1 => LcAllUp BY LcProgress DEF LcBarrierOK
<1>3. lc_ctl' \in {"barrier", "start", "record", "join"} => LcAllUp BY LcProgress DEF LcBarrierOK
<1>4. ASSUME NEW p \in LcProcs, lc_ccs'[p] \in {"RUN", "STOP"}
      PROVE LcAllUp BY <1>4, LcProgress DEF LcBarrierOK, LcClientTypeOK
<1>5. ASSUME NEW c \in LcClients, lc_thr'[c] = "loop" PROVE LcAllUp
 <2>1. LcProcOf(c) \in LcProcs BY DEF LcProcOf, LcProcs, LcClients
 <2>2. lc_thr[c] = "loop" \/ lc_ccs[LcProcOf(c)] \in {"RUN", "STOP"}
   BY <1>5, LcThreadSteps DEF LcMoves, LcLaunches, LcClientTypeOK
 <2> QED BY <2>1, <2>2 DEF LcBarrierOK
<1>6. ASSUME NEW c \in LcClients, lc_w'[c].run # {} PROVE LcAllUp
 <2>1. lc_w[c].run # {} \/ lc_thr[c] = "loop" BY <1>6, LcWorkerSteps DEF LcWorkerStep, LcClientTypeOK
 <2> QED BY <2>1 DEF LcBarrierOK
<1> QED BY <1>0, <1>1, <1>2, <1>3, <1>4, <1>5, <1>6 DEF LcBarrierOK

(* In the closed loop without forwarding, and with the time not up before the
   coordinators are made, n_concurrent_ keeps counting what it should. *)
LEMMA LcCountsMoved ==
  ASSUME LcClientTypeOK, ~lc_load.open, NEW c, NEW x, LcMoves(c, x), LcCounted(lc_thr[c], lc_w[c])
  PROVE LcCounted(x, lc_w[c])
<1> DEFINE w == lc_w[c]
<1>1. c \in LcClients /\ w \in LcWorkerRecord /\ w.run \subseteq 0..(w.n - 1) BY DEF LcMoves, LcClientTypeOK
<1>2. w.left \in Nat /\ w.made \in Nat /\ w.n \in Nat BY <1>1 DEF LcWorkerRecord
<1>3. IsFiniteSet(w.run) /\ Cardinality(w.run) \in Nat BY <1>1, <1>2, LcRunSize
<1>4. CASE x = "start?" /\ lc_thr[c] = "work" BY <1>4 DEF LcCounted
<1>5. CASE x = "loop" /\ lc_thr[c] = "start?"
 <2>1. Cardinality({}) = 0 BY FS_EmptySet
 <2> QED BY <1>2, <1>5, <2>1 DEF LcCounted
<1>6. CASE x = "finish?" /\ lc_thr[c] = "loop" /\ w.made >= w.left BY <1>2, <1>3, <1>6 DEF LcCounted
<1>7. CASE x \in {"stop?", "ended"} /\ lc_thr[c] \in {"finish?", "stop?"} BY <1>7 DEF LcCounted
<1> QED BY <1>4, <1>5, <1>6, <1>7 DEF LcMoves

LEMMA LcCountsWorked ==
  ASSUME LcClientTypeOK, LcPunctual, ~lc_load.open, lc_load.forwards = 0, NEW c \in LcClients,
         LcCounted(lc_thr[c], lc_w[c]),
         \/ LcCreateCoordinator(c) \/ LcTimeUp(c) \/ LcAnswers(c)
  PROVE LcCounted(lc_thr[c], lc_w'[c])
<1> DEFINE w == lc_w[c]
           t == lc_thr[c]
<1>1. w \in LcWorkerRecord /\ w.run \subseteq 0..(w.n - 1) BY DEF LcClientTypeOK
<1>2. w.left \in Nat /\ w.made \in Nat /\ w.n \in Nat BY <1>1 DEF LcWorkerRecord
<1>3. Cardinality(w.run) \in Nat /\ Cardinality(w.run \cup {w.n}) = Cardinality(w.run) + 1 BY <1>1, <1>2, LcRunSize
<1>4. \A v : lc_w' = [lc_w EXCEPT ![c] = v] => lc_w'[c] = v BY DEF LcClientTypeOK
<1>t. t \in {"new", "work", "start?", "loop", "finish?", "stop?", "ended"} BY DEF LcClientTypeOK
<1>5. CASE LcCreateCoordinator(c)
 <2> DEFINE i == LcIssued(w)
            v == [i EXCEPT !.made = w.made + 1]
 <2>1. lc_w'[c] = v /\ t = "loop" /\ w.made < w.left BY <1>4, <1>5 DEF LcCreateCoordinator
 <2>2. /\ i \in LcWorkerRecord /\ i.run = w.run \cup {w.n} /\ i.left = w.left
       /\ i.frun = w.frun /\ i.fwd = w.fwd /\ i.up = w.up BY <1>1, LcIssuedFields
 <2> HIDE DEF i
 <2>3. /\ v.run = w.run \cup {w.n} /\ v.left = w.left /\ v.made = w.made + 1
       /\ v.frun = w.frun /\ v.fwd = w.fwd /\ v.up = w.up BY <2>2 DEF LcWorkerRecord
 <2> HIDE DEF v
 <2>4. ~w.up /\ w.frun = {} /\ w.fwd = {} /\ Cardinality(w.run) = w.made BY <2>1 DEF LcCounted
 <2>5. Cardinality(v.run) = v.made /\ v.made <= v.left BY <1>2, <1>3, <2>1, <2>3, <2>4
 <2>6. LcCounted(t, v) BY <2>1, <2>3, <2>4, <2>5 DEF LcCounted
 <2> QED BY <2>1, <2>6
<1>6. CASE LcTimeUp(c)
 <2> DEFINE v == [w EXCEPT !.up = TRUE]
 <2>1. lc_w'[c] = v /\ t \in {"loop", "finish?"} BY <1>4, <1>6 DEF LcTimeUp
 <2>2. ~lc_load.early BY DEF LcPunctual, LcClientTypeOK
 <2>3. t = "finish?" BY <1>6, <2>2 DEF LcTimeUp
 <2>4. v.run = w.run /\ v.left = w.left /\ v.frun = w.frun /\ v.fwd = w.fwd BY <1>1 DEF LcWorkerRecord
 <2> HIDE DEF v
 <2>5. LcCounted(t, v) BY <2>3, <2>4 DEF LcCounted
 <2> QED BY <2>1, <2>5
<1>7. CASE LcAnswers(c)
 <2>1. PICK n \in w.run : LcRequestDone(c, n) BY <1>7 DEF LcAnswers
 <2> DEFINE x == [w EXCEPT !.run = @ \ {n}]
            v == LcAfter(x)
 <2>2. lc_w'[c] = v BY <1>4, <2>1 DEF LcRequestDone
 <2>3. /\ x \in LcWorkerRecord
       /\ x.run = w.run \ {n} /\ x.run \subseteq 0..(x.n - 1)
       /\ x.left = w.left /\ x.made = w.made /\ x.frun = w.frun /\ x.fwd = w.fwd /\ x.up = w.up /\ x.n = w.n
  <3>1. x \in LcWorkerRecord /\ x.run = w.run \ {n} /\ x.n = w.n BY <1>1 DEF LcWorkerRecord
  <3>2. x.left = w.left /\ x.made = w.made /\ x.frun = w.frun /\ x.fwd = w.fwd /\ x.up = w.up BY <1>1 DEF LcWorkerRecord
  <3> HIDE DEF x
  <3> QED BY <1>1, <3>1, <3>2
 <2> HIDE DEF x
 <2>4. Cardinality(w.run) > 0 /\ Cardinality(x.run) = Cardinality(w.run) - 1 BY <1>1, <1>2, <2>1, <2>3, LcRunSize
 <2>5. t \in {"loop", "finish?", "stop?", "ended"} /\ w.frun = {} /\ w.fwd = {} BY <1>t, <2>1 DEF LcCounted
 <2>6. CASE w.up
  <3>1. t \in {"finish?", "stop?", "ended"} /\ w.left = Cardinality(w.run) BY <2>5, <2>6 DEF LcCounted
  <3>2. v = LcOneLess(x) BY <2>3, <2>6 DEF LcAfter
  <3>3. v.run = x.run /\ v.left = x.left - 1 /\ v.frun = x.frun /\ v.fwd = x.fwd
    BY <2>3, <2>4, <3>1, <3>2, LcOneLessFields
  <3> HIDE DEF v
  <3>4. v.left = Cardinality(v.run) BY <2>3, <2>4, <3>1, <3>3
  <3>5. LcCounted(t, v) BY <2>3, <2>5, <3>1, <3>3, <3>4 DEF LcCounted
  <3> QED BY <2>2, <3>5
 <2>7. CASE ~w.up
  <3>1. v = LcIssued(x) BY <2>3, <2>7 DEF LcAfter
  <3>2. /\ v.run = x.run \cup {x.n} /\ v.left = x.left /\ v.made = x.made
        /\ v.frun = x.frun /\ v.fwd = x.fwd /\ v.up = x.up BY <2>3, <3>1, LcIssuedFields
  <3> HIDE DEF v
  <3>3. Cardinality(v.run) = Cardinality(x.run) + 1
   <4>1. x.n \in Nat /\ x.run \subseteq 0..(x.n - 1) BY <1>2, <2>3
   <4>2. Cardinality(x.run \cup {x.n}) = Cardinality(x.run) + 1 BY <4>1, LcRunSize
   <4> QED BY <3>2, <4>2
  <3>4. Cardinality(v.run) = Cardinality(w.run) BY <1>3, <2>4, <3>3
  <3>5. LcCounted(t, v) BY <2>3, <2>5, <2>7, <3>2, <3>4 DEF LcCounted
  <3> QED BY <2>2, <3>5
 <2> QED BY <2>6, <2>7
<1> QED BY <1>5, <1>6, <1>7

(* Nothing is forwarded, and nobody else touches a worker. *)
LEMMA LcWhoWorks ==
  ASSUME LcClientTypeOK, ~lc_load.open, lc_load.forwards = 0,
         \A c \in LcClients : lc_w[c].frun = {} /\ lc_w[c].fwd = {}, LcNext
  PROVE  \/ lc_w' = lc_w
         \/ \E c \in LcClients : /\ LcCreateCoordinator(c) \/ LcTimeUp(c) \/ LcAnswers(c)
                                 /\ lc_thr' = lc_thr
                                 /\ \A d \in LcClients \ {c} : lc_w'[d] = lc_w[d]
<1>1. CASE \E s \in LcSites : LcSetup(s)
  BY <1>1 DEF LcSetup, LcReadI, LcWriteI, LcSetupBase, LcSetupManager, LcSetupService, LcSetupCommo, LcConnectToSite,
    LcConnectToManager, lcClientVars
<1>2. CASE \E p \in LcProcs : LcMain(p) \/ LcAlarm(p) \/ LcCollect(p) \/ LcClientShutdown(p)
  BY <1>2 DEF LcMain, LcSetupHeartbeat, LcLaunchWorkers, LcWaitForClients, LcMainReturns, LcAlarm, LcCollect, LcSwitch,
    LcCopy, LcClear, LcClientShutdown, lcClientVars
<1>3. CASE \E c \in LcClients : LcWaitForStart(c) \/ LcStarted(c) \/ LcLoopDone(c) \/ LcWaitForShutdown(c) \/ LcWorkEnds(c)
  BY <1>3 DEF LcWaitForStart, LcStarted, LcLoopDone, LcWaitForShutdown, LcWorkEnds
<1>4. CASE \E c \in LcClients : LcCreateCoordinator(c) \/ LcTimeUp(c) \/ LcAnswers(c)
 <2>1. PICK c \in LcClients : LcCreateCoordinator(c) \/ LcTimeUp(c) \/ LcAnswers(c) BY <1>4
 <2>2. lc_thr' = lc_thr BY <2>1 DEF LcCreateCoordinator, LcTimeUp, LcAnswers, LcRequestDone
 <2>3. \E v : lc_w' = [lc_w EXCEPT ![c] = v]
  <3>1. CASE LcCreateCoordinator(c) BY <3>1 DEF LcCreateCoordinator
  <3>2. CASE LcTimeUp(c) BY <3>2 DEF LcTimeUp
  <3>3. CASE LcAnswers(c) BY <3>3 DEF LcAnswers, LcRequestDone
  <3> QED BY <2>1, <3>1, <3>2, <3>3
 <2>4. \A d \in LcClients \ {c} : lc_w'[d] = lc_w[d] BY <2>3 DEF LcClientTypeOK
 <2> QED BY <2>1, <2>2, <2>4
<1>5. ASSUME NEW c \in LcClients, LcFindOrCreateCoordinator(c) PROVE FALSE BY <1>5 DEF LcFindOrCreateCoordinator
<1>6. ASSUME NEW c \in LcClients, LcAcceptForwardedRequest(c) PROVE FALSE
 <2>1. Cardinality({}) = 0 /\ lc_w[c].fwd = {} BY FS_EmptySet
 <2>2. Cardinality(lc_w[c].fwd) < lc_load.forwards BY <1>6 DEF LcAcceptForwardedRequest
 <2> QED BY <2>1, <2>2
<1>7. ASSUME NEW c \in LcClients, \E n \in lc_w[c].frun : LcForwardRequestDone(c, n) PROVE FALSE BY <1>7
<1>8. CASE LcBeats \/ LcBeat \/ LcInitFailed \/ LcControl \/ LcRecordEnds \/ LcScriptDies
  BY <1>8 DEF LcBeats, LcServerReady, LcInitFinished, LcBeatsEnd, LcBeat, LcInitFailed, LcControl, LcCtlReady,
    LcBarrierPassed, LcAllStarted, LcServerKill, LcClientReadyBlock, LcClientStart, LcRecordEnds, LcScriptDies,
    lcClientVars
<1> QED BY <1>1, <1>2, <1>3, <1>4, <1>5, <1>6, <1>7, <1>8 DEF LcNext, LcWork

LEMMA LcCountsStep ==
  ASSUME LcClientTypeOK, LcPunctual, LcCountsOK, LcNext
  PROVE LcCountsOK'
<1>0. LcClients' = LcClients /\ lc_load' = lc_load BY LcLoadKept
<1> SUFFICES ASSUME ~lc_load.open, lc_load.forwards = 0, NEW c \in LcClients
             PROVE LcCounted(lc_thr'[c], lc_w'[c]) BY <1>0 DEF LcCountsOK, LcCounted
<1>1. \A d \in LcClients : LcCounted(lc_thr[d], lc_w[d]) BY DEF LcCountsOK
<1>2. \A d \in LcClients : lc_w[d].frun = {} /\ lc_w[d].fwd = {} BY <1>1 DEF LcCounted
<1>3. CASE lc_w' = lc_w
 <2>1. CASE lc_thr' = lc_thr BY <1>1, <1>3, <2>1
 <2>2. CASE LcLaunches
  <3>1. lc_thr'[c] = lc_thr[c] \/ (lc_thr'[c] = "work" /\ lc_thr[c] = "new") BY <2>2 DEF LcLaunches, LcClientTypeOK
  <3>2. lc_thr[c] = "new" => LcCounted("work", lc_w[c]) BY <1>1 DEF LcCounted
  <3> QED BY <1>1, <1>3, <3>1, <3>2
 <2>3. CASE \E d, x : LcMoves(d, x)
  <3>1. PICK d, x : LcMoves(d, x) BY <2>3
  <3>2. d \in LcClients /\ LcCounted(x, lc_w[d]) BY <1>1, <3>1, LcCountsMoved DEF LcMoves
  <3>3. lc_thr'[c] = IF c = d THEN x ELSE lc_thr[c] BY <3>1 DEF LcMoves, LcClientTypeOK
  <3> QED BY <1>1, <1>3, <3>2, <3>3
 <2> QED BY <2>1, <2>2, <2>3, LcThreadSteps
<1>4. CASE lc_w' # lc_w
 <2>1. PICK d \in LcClients : /\ LcCreateCoordinator(d) \/ LcTimeUp(d) \/ LcAnswers(d)
                              /\ lc_thr' = lc_thr
                              /\ \A e \in LcClients \ {d} : lc_w'[e] = lc_w[e] BY <1>2, <1>4, LcWhoWorks
 <2>2. LcCounted(lc_thr[d], lc_w'[d]) BY <1>1, <2>1, LcCountsWorked
 <2> QED BY <1>1, <2>1, <2>2
<1> QED BY <1>3, <1>4

(* The inductive invariant. *)
LcInv == LcClientTypeOK /\ LcSetupOK /\ LcBarrierOK /\ LcCountsOK

LEMMA LcInitInv ==
  ASSUME LcInit
  PROVE LcInv
<1>1. PICK l \in LcLoads : LcInitOf(l) BY DEF LcInit
<1>2. /\ lc_load = l
      /\ LcSites = DOMAIN l.sites /\ LcClients = DOMAIN l.clients
      /\ LcProcs = {l.sites[s] : s \in DOMAIN l.sites} \cup {l.clients[c] : c \in DOMAIN l.clients}
  BY <1>1 DEF LcInitOf, LcSites, LcClients, LcProcs
<1> DEFINE w == [left |-> l.conc, made |-> 0, free |-> 0, run |-> {}, frun |-> {}, n |-> 0, fwd |-> {}, up |-> FALSE]
<1>3. w \in LcWorkerRecord BY LcAssumption DEF LcWorkerRecord
<1>4. w.run = {} /\ w.frun = {} /\ w.fwd = {} /\ w.made = 0 /\ ~w.up OBVIOUS
<1>5. lc_w = [c \in LcClients |-> w] BY <1>1, <1>2 DEF LcInitOf
<1> HIDE DEF w
<1>6. /\ lc_main = [p \in LcProcs |-> "setup"] /\ lc_thr = [c \in LcClients |-> "new"]
      /\ lc_ccs = [p \in LcProcs |-> "INIT"]
      /\ lc_stage = [s \in LcSites |-> "new"] /\ lc_scs = [s \in LcSites |-> "none"]
      /\ lc_ctl = "waiting" /\ lc_flag = 0 /\ lc_seen = {} BY <1>1, <1>2 DEF LcInitOf
<1>7. LcClientTypeOK BY <1>2, <1>3, <1>4, <1>5, <1>6 DEF LcClientTypeOK, LcClientsIn
<1>8. LcSetupOK BY <1>6 DEF LcSetupOK, LcStages
<1>9. LcBarrierOK BY <1>4, <1>5, <1>6 DEF LcBarrierOK
<1>10. LcCountsOK BY <1>4, <1>5, <1>6 DEF LcCountsOK, LcCounted
<1> QED BY <1>7, <1>8, <1>9, <1>10 DEF LcInv

LEMMA LcStutters ==
  ASSUME LcInv, UNCHANGED lcVars
  PROVE LcInv'
BY DEF LcInv, LcClientTypeOK, LcSetupOK, LcBarrierOK, LcCountsOK, LcCounted, LcAllUp, LcConnected, LcManages, LcSites,
  LcClients, LcProcs, LcClientsIn, LcWorkerRecord, lcVars

LEMMA LcInvMeasures ==
  ASSUME LcInv
  PROVE LcMeasures
<1>1. LcServedWhenUp BY DEF LcInv, LcBarrierOK, LcSetupOK, LcServedWhenUp, LcAllUp
<1>2. LcEndsIdle BY DEF LcInv, LcCountsOK, LcCounted, LcEndsIdle
<1> QED BY <1>1, <1>2 DEF LcMeasures

(* An experiment measures what it should (client_worker.cc, benchmark_control_rpc.cc,
   run.py), whatever is deployed and in whatever order threads, answers, heart beats and
   faults come: clients issue requests only when every site serves and reaches the
   others, and a closed-loop worker that reports has nothing under way. *)
THEOREM LcMeasuresHolds ==
  ASSUME LcPunctual
  PROVE LcSpec => []LcMeasures
<1>1. LcInit => LcInv BY LcInitInv
<1>2. LcInv /\ [LcNext]_lcVars => LcInv'
  BY LcClientTypeStep, LcSetupStep, LcBarrierStep, LcCountsStep, LcStutters DEF LcInv
<1>3. LcInv => LcMeasures BY LcInvMeasures
<1> QED BY <1>1, <1>2, <1>3, PTL DEF LcSpec

-----
(* The report of a latency.  What was answered is in one of the two buffers or has been
   reported; between the copy and the clearing of the other buffer the collector has
   read just what the buffer holds, since the coordinators write to the one in use. *)
LcPairs == LcClients \X Nat
LcLatencyRecord ==
  [switch : BOOLEAN, buf : [0..1 -> SUBSET LcPairs], read : SUBSET LcPairs, told : SUBSET LcPairs,
   at : {"idle", "copy", "clear"}]

LcReported(l, answered) ==
  /\ answered = l.buf[0] \cup l.buf[1] \cup l.told
  /\ l.told \cap (l.buf[0] \cup l.buf[1]) = {}
  /\ l.buf[0] \cap l.buf[1] = {}
  /\ l.at = "clear" => l.read = l.buf[LcBufferRead(l)]
  /\ l.at # "clear" => l.read = {}

(* A number is that of an own request or of a forwarded one. *)
LcNumbersOK(w) == w.run \subseteq 0..(w.n - 1) /\ w.fwd \subseteq 0..(w.n - 1) /\ w.run \cap w.fwd = {}

LcLatencyOK ==
  /\ lc_lat \in [LcProcs -> LcLatencyRecord]
  /\ \A c \in LcClients : LcNumbersOK(lc_w[c])
  /\ \A p \in LcProcs : LcReported(lc_lat[p], LcAnsweredIn(p))

(* What the steps make of the requests that were answered. *)
LcKeeps(c, v) ==
  /\ c \in LcClients /\ lc_w' = [lc_w EXCEPT ![c] = v] /\ lc_lat' = lc_lat
  /\ LcNumbersOK(v) /\ LcAnswered(v) = LcAnswered(lc_w[c])

LcRecords(c, n, v) ==
  /\ c \in LcClients /\ n \in lc_w[c].run
  /\ lc_w' = [lc_w EXCEPT ![c] = v] /\ lc_lat' = [lc_lat EXCEPT ![LcProcOf(c)] = LcRecorded(@, <<c, n>>)]
  /\ LcNumbersOK(v) /\ LcAnswered(v) = LcAnswered(lc_w[c]) \cup {n}

LEMMA LcSameAnswered ==
  ASSUME NEW w, NEW v, LcNumbersOK(w), v.run = w.run, v.fwd = w.fwd, v.n = w.n
  PROVE LcNumbersOK(v) /\ LcAnswered(v) = LcAnswered(w)
BY DEF LcNumbersOK, LcAnswered

(* A number handed out is not that of an answered request. *)
LEMMA LcNumberTaken ==
  ASSUME NEW k \in Nat, NEW R, NEW F, R \subseteq 0..(k - 1), F \subseteq 0..(k - 1), R \cap F = {}
  PROVE  /\ R \cup {k} \subseteq 0..((k + 1) - 1) /\ F \subseteq 0..((k + 1) - 1) /\ (R \cup {k}) \cap F = {}
         /\ {j \in 0..((k + 1) - 1) : j \notin (R \cup {k}) \cup F} = {j \in 0..(k - 1) : j \notin R \cup F}
OBVIOUS

LEMMA LcIssuedAnswered ==
  ASSUME NEW w \in LcWorkerRecord, LcNumbersOK(w), NEW v,
         v.run = LcIssued(w).run, v.n = LcIssued(w).n, v.fwd = LcIssued(w).fwd
  PROVE LcNumbersOK(v) /\ LcAnswered(v) = LcAnswered(w)
<1>1. w.n \in Nat /\ v.run = w.run \cup {w.n} /\ v.n = w.n + 1 /\ v.fwd = w.fwd
  BY LcIssuedFields DEF LcNumbersOK, LcWorkerRecord
<1>2. w.run \subseteq 0..(w.n - 1) /\ w.fwd \subseteq 0..(w.n - 1) /\ w.run \cap w.fwd = {} BY DEF LcNumbersOK
<1> DEFINE k == w.n
           R == w.run
           F == w.fwd
<1>3. k \in Nat /\ R \subseteq 0..(k - 1) /\ F \subseteq 0..(k - 1) /\ R \cap F = {} BY <1>1, <1>2
<1>4. v.run = R \cup {k} /\ v.n = k + 1 /\ v.fwd = F BY <1>1
<1>5. LcAnswered(w) = {j \in 0..(k - 1) : j \notin R \cup F} BY DEF LcAnswered
<1> HIDE DEF k, R, F
<1>6. /\ R \cup {k} \subseteq 0..((k + 1) - 1) /\ F \subseteq 0..((k + 1) - 1) /\ (R \cup {k}) \cap F = {}
      /\ {j \in 0..((k + 1) - 1) : j \notin (R \cup {k}) \cup F} = {j \in 0..(k - 1) : j \notin R \cup F}
  BY <1>3, LcNumberTaken
<1>7. LcAnswered(v) = {j \in 0..((k + 1) - 1) : j \notin (R \cup {k}) \cup F} BY <1>4 DEF LcAnswered
<1> QED BY <1>4, <1>5, <1>6, <1>7 DEF LcNumbersOK

(* RequestDone: whatever follows, the request counts as answered. *)
LEMMA LcAfterAnswered ==
  ASSUME NEW w \in LcWorkerRecord, LcNumbersOK(w), NEW n \in w.run, NEW x, x = [w EXCEPT !.run = @ \ {n}]
  PROVE LcNumbersOK(LcAfter(x)) /\ LcAnswered(LcAfter(x)) = LcAnswered(w) \cup {n}
<1>0. w.run \subseteq 0..(w.n - 1) BY DEF LcNumbersOK
<1>1. /\ x \in LcWorkerRecord /\ x.run = w.run \ {n} /\ x.run \subseteq 0..(x.n - 1)
      /\ x.fwd = w.fwd /\ x.n = w.n BY <1>0, LcAnsweredFields
<1>2. LcNumbersOK(x) BY <1>1 DEF LcNumbersOK
<1>3. LcAnswered(x) = LcAnswered(w) \cup {n}
 <2>1. n \in 0..(w.n - 1) /\ n \notin w.fwd BY DEF LcNumbersOK
 <2> QED BY <1>1, <2>1 DEF LcAnswered
<1>4. LcNumbersOK(LcAfter(x)) /\ LcAnswered(LcAfter(x)) = LcAnswered(x)
 <2>1. CASE x.up
  <3>1. LcAfter(x) = LcOneLess(x) BY <2>1 DEF LcAfter
  <3>2. LcOneLess(x).run = x.run /\ LcOneLess(x).fwd = x.fwd /\ LcOneLess(x).n = x.n BY <1>1, LcOneLessFields
  <3> QED BY <1>2, <3>1, <3>2, LcSameAnswered
 <2>2. CASE ~x.up /\ lc_load.open
  <3> DEFINE v == [x EXCEPT !.free = @ + 1]
  <3>1. LcAfter(x) = v BY <2>2 DEF LcAfter
  <3>2. v.run = x.run /\ v.fwd = x.fwd /\ v.n = x.n BY <1>1 DEF LcWorkerRecord
  <3> QED BY <1>2, <3>1, <3>2, LcSameAnswered
 <2>3. CASE ~x.up /\ ~lc_load.open
  <3>1. LcAfter(x) = LcIssued(x) BY <2>3 DEF LcAfter
  <3> QED BY <1>1, <1>2, <3>1, LcIssuedAnswered
 <2> QED BY <2>1, <2>2, <2>3
<1> QED BY <1>3, <1>4

(* DispatchTxn: a forwarded request has a number of its own and is not measured here. *)
LEMMA LcForwardAnswered ==
  ASSUME NEW w \in LcWorkerRecord, LcNumbersOK(w), NEW v, v.run = w.run, v.n = w.n + 1, v.fwd = w.fwd \cup {w.n}
  PROVE LcNumbersOK(v) /\ LcAnswered(v) = LcAnswered(w)
<1> DEFINE k == w.n
           R == w.run
           F == w.fwd
<1>3. k \in Nat /\ R \subseteq 0..(k - 1) /\ F \subseteq 0..(k - 1) /\ F \cap R = {} BY DEF LcNumbersOK, LcWorkerRecord
<1>4. v.run = R /\ v.n = k + 1 /\ v.fwd = F \cup {k} OBVIOUS
<1>5. LcAnswered(w) = {j \in 0..(k - 1) : j \notin F \cup R} BY DEF LcAnswered
<1> HIDE DEF k, R, F
<1>6. /\ F \cup {k} \subseteq 0..((k + 1) - 1) /\ R \subseteq 0..((k + 1) - 1) /\ (F \cup {k}) \cap R = {}
      /\ {j \in 0..((k + 1) - 1) : j \notin (F \cup {k}) \cup R} = {j \in 0..(k - 1) : j \notin F \cup R}
  BY <1>3, LcNumberTaken
<1>7. LcAnswered(v) = {j \in 0..((k + 1) - 1) : j \notin (F \cup {k}) \cup R} BY <1>4 DEF LcAnswered
<1> QED BY <1>4, <1>5, <1>6, <1>7 DEF LcNumbersOK

LEMMA LcLatencySteps ==
  ASSUME LcClientTypeOK, LcLatencyOK, LcNext
  PROVE  \/ lc_w' = lc_w /\ lc_lat' = lc_lat
         \/ \E c, v : LcKeeps(c, v)
         \/ \E c, n, v : LcRecords(c, n, v)
         \/ \E p \in LcProcs : LcCollect(p) /\ lc_w' = lc_w
<1>1. CASE \E s \in LcSites : LcSetup(s)
  BY <1>1 DEF LcSetup, LcReadI, LcWriteI, LcSetupBase, LcSetupManager, LcSetupService, LcSetupCommo, LcConnectToSite,
    LcConnectToManager, lcClientVars
<1>2. CASE \E p \in LcProcs : LcMain(p) \/ LcAlarm(p) \/ LcClientShutdown(p)
  BY <1>2 DEF LcMain, LcSetupHeartbeat, LcLaunchWorkers, LcWaitForClients, LcMainReturns, LcAlarm, LcClientShutdown,
    lcClientVars
<1>3. CASE \E p \in LcProcs : LcCollect(p) BY <1>3 DEF LcCollect, LcSwitch, LcCopy, LcClear
<1>4. ASSUME NEW c \in LcClients,
             \/ LcWork(c) \/ LcTimeUp(c) \/ LcFindOrCreateCoordinator(c) \/ LcAnswers(c)
             \/ LcAcceptForwardedRequest(c)
             \/ \E n \in lc_w[c].frun : LcForwardRequestDone(c, n)
      PROVE (lc_w' = lc_w /\ lc_lat' = lc_lat) \/ (\E v : LcKeeps(c, v)) \/ \E n, v : LcRecords(c, n, v)
 <2> DEFINE w == lc_w[c]
 <2>0. w \in LcWorkerRecord /\ LcNumbersOK(w) /\ w.run \subseteq 0..(w.n - 1) BY DEF LcClientTypeOK, LcLatencyOK
 <2>1. CASE LcWaitForStart(c) \/ LcStarted(c) \/ LcLoopDone(c) \/ LcWaitForShutdown(c) \/ LcWorkEnds(c)
   BY <2>1 DEF LcWaitForStart, LcStarted, LcLoopDone, LcWaitForShutdown, LcWorkEnds
 <2>2. CASE LcCreateCoordinator(c)
  <3> DEFINE v == [LcIssued(w) EXCEPT !.made = w.made + 1]
  <3>1. v.run = LcIssued(w).run /\ v.n = LcIssued(w).n /\ v.fwd = LcIssued(w).fwd
    BY <2>0, LcIssuedFields DEF LcWorkerRecord
  <3>2. lc_w' = [lc_w EXCEPT ![c] = v] /\ lc_lat' = lc_lat BY <2>2 DEF LcCreateCoordinator
  <3> HIDE DEF v
  <3>3. LcNumbersOK(v) /\ LcAnswered(v) = LcAnswered(w) BY <2>0, <3>1, LcIssuedAnswered
  <3> QED BY <3>2, <3>3 DEF LcKeeps
 <2>3. CASE LcFindOrCreateCoordinator(c)
  <3> DEFINE v == IF w.free > 0 THEN [LcIssued(w) EXCEPT !.free = w.free - 1] ELSE LcIssued(w)
  <3>1. v.run = LcIssued(w).run /\ v.n = LcIssued(w).n /\ v.fwd = LcIssued(w).fwd
    BY <2>0, LcIssuedFields DEF LcWorkerRecord
  <3>2. lc_w' = [lc_w EXCEPT ![c] = v] /\ lc_lat' = lc_lat BY <2>3 DEF LcFindOrCreateCoordinator
  <3> HIDE DEF v
  <3>3. LcNumbersOK(v) /\ LcAnswered(v) = LcAnswered(w) BY <2>0, <3>1, LcIssuedAnswered
  <3> QED BY <3>2, <3>3 DEF LcKeeps
 <2>4. CASE LcTimeUp(c)
  <3> DEFINE v == [w EXCEPT !.up = TRUE]
  <3>1. v.run = w.run /\ v.n = w.n /\ v.fwd = w.fwd BY <2>0 DEF LcWorkerRecord
  <3>2. lc_w' = [lc_w EXCEPT ![c] = v] /\ lc_lat' = lc_lat BY <2>4 DEF LcTimeUp
  <3> HIDE DEF v
  <3> QED BY <2>0, <3>1, <3>2, LcSameAnswered DEF LcKeeps
 <2>5. CASE LcAnswers(c)
  <3>1. PICK n \in w.run : LcRequestDone(c, n) BY <2>5 DEF LcAnswers
  <3> DEFINE x == [w EXCEPT !.run = @ \ {n}]
  <3>2. /\ lc_w' = [lc_w EXCEPT ![c] = LcAfter(x)]
        /\ lc_lat' = [lc_lat EXCEPT ![LcProcOf(c)] = LcRecorded(@, <<c, n>>)] BY <3>1 DEF LcRequestDone
  <3>3. LcNumbersOK(LcAfter(x)) /\ LcAnswered(LcAfter(x)) = LcAnswered(w) \cup {n} BY <2>0, LcAfterAnswered
  <3> HIDE DEF x
  <3>4. LcRecords(c, n, LcAfter(x)) BY <3>2, <3>3 DEF LcRecords
  <3> QED BY <3>4
 <2>6. CASE LcAcceptForwardedRequest(c)
  <3> DEFINE v == [w EXCEPT !.free = IF @ > 0 THEN @ - 1 ELSE 0, !.frun = @ \cup {w.n},
                            !.n = @ + 1, !.fwd = @ \cup {w.n}]
  <3>1. v.run = w.run /\ v.n = w.n + 1 /\ v.fwd = w.fwd \cup {w.n} BY <2>0 DEF LcWorkerRecord
  <3>2. lc_w' = [lc_w EXCEPT ![c] = v] /\ lc_lat' = lc_lat BY <2>6 DEF LcAcceptForwardedRequest
  <3> HIDE DEF v
  <3>3. LcNumbersOK(v) /\ LcAnswered(v) = LcAnswered(w) BY <2>0, <3>1, LcForwardAnswered
  <3> QED BY <3>2, <3>3 DEF LcKeeps
 <2>7. CASE \E n \in lc_w[c].frun : LcForwardRequestDone(c, n)
  <3>1. PICK n \in w.frun : LcForwardRequestDone(c, n) BY <2>7
  <3> DEFINE x == [w EXCEPT !.frun = @ \ {n}]
             v == IF x.up THEN LcOneLess(x) ELSE IF lc_load.open THEN [x EXCEPT !.free = @ + 1] ELSE x
  <3>2. lc_w' = [lc_w EXCEPT ![c] = v] /\ lc_lat' = lc_lat BY <3>1 DEF LcForwardRequestDone
  <3>3. x \in LcWorkerRecord /\ x.run = w.run /\ x.n = w.n /\ x.fwd = w.fwd BY <2>0 DEF LcWorkerRecord
  <3> HIDE DEF x
  <3>4. v.run = w.run /\ v.n = w.n /\ v.fwd = w.fwd
   <4>1. CASE x.up BY <3>3, <4>1, LcOneLessFields
   <4>2. CASE ~x.up BY <3>3, <4>2 DEF LcWorkerRecord
   <4> QED BY <4>1, <4>2
  <3> HIDE DEF v
  <3> QED BY <2>0, <3>2, <3>4, LcSameAnswered DEF LcKeeps
 <2> QED BY <1>4, <2>1, <2>2, <2>3, <2>4, <2>5, <2>6, <2>7 DEF LcWork
<1>5. CASE LcBeats \/ LcBeat \/ LcInitFailed \/ LcControl \/ LcRecordEnds \/ LcScriptDies
  BY <1>5 DEF LcBeats, LcServerReady, LcInitFinished, LcBeatsEnd, LcBeat, LcInitFailed, LcControl, LcCtlReady,
    LcBarrierPassed, LcAllStarted, LcServerKill, LcClientReadyBlock, LcClientStart, LcRecordEnds, LcScriptDies,
    lcClientVars
<1> QED BY <1>1, <1>2, <1>3, <1>4, <1>5 DEF LcNext

(* The coordinators write to the buffer in use, which is not the one the collector
   reads. *)
LEMMA LcRecordedOK ==
  ASSUME NEW l \in LcLatencyRecord, NEW D, LcReported(l, D), NEW x \in LcPairs, x \notin D
  PROVE LcRecorded(l, x) \in LcLatencyRecord /\ LcReported(LcRecorded(l, x), D \cup {x})
<1> DEFINE u == LcBufferInUse(l)
           b == [l.buf EXCEPT ![u] = @ \cup {x}]
           m == LcRecorded(l, x)
<1>1. u \in 0..1 /\ (u = 0 <=> l.switch) /\ (LcBufferRead(l) = 1 - u)
  BY DEF LcBufferInUse, LcBufferRead, LcLatencyRecord
<1>2. m = [l EXCEPT !.buf = b] BY DEF LcRecorded
<1>3. l.buf \in [0..1 -> SUBSET LcPairs] BY DEF LcLatencyRecord
<1>4. b \in [0..1 -> SUBSET LcPairs] /\ b[u] = l.buf[u] \cup {x} /\ b[1 - u] = l.buf[1 - u] BY <1>1, <1>3
<1> HIDE DEF u, b, m
<1>5. m \in LcLatencyRecord BY <1>2, <1>4 DEF LcLatencyRecord
<1>6. m.buf = b /\ m.switch = l.switch /\ m.told = l.told /\ m.read = l.read /\ m.at = l.at BY <1>2 DEF LcLatencyRecord
<1>7. LcBufferRead(m) = 1 - u BY <1>1, <1>6 DEF LcBufferRead
<1>10. LcReported(m, D \cup {x})
 <2>1. CASE u = 0 BY <1>1, <1>4, <1>6, <1>7, <2>1 DEF LcReported
 <2>2. CASE u = 1 BY <1>1, <1>4, <1>6, <1>7, <2>2 DEF LcReported
 <2> QED BY <1>1, <2>1, <2>2
<1> QED BY <1>5, <1>10 DEF m

(* client_response: the switch, the copy and the clearing. *)
LEMMA LcCollectOK ==
  ASSUME NEW p \in LcProcs, lc_lat \in [LcProcs -> LcLatencyRecord], LcCollect(p), NEW D, LcReported(lc_lat[p], D)
  PROVE \E m \in LcLatencyRecord : LcReported(m, D) /\ lc_lat' = [lc_lat EXCEPT ![p] = m]
<1> DEFINE l == lc_lat[p]
<1>0. /\ l \in LcLatencyRecord /\ l.buf \in [0..1 -> SUBSET LcPairs] /\ l.switch \in BOOLEAN
      /\ l.read \in SUBSET LcPairs /\ l.told \in SUBSET LcPairs BY DEF LcLatencyRecord
<1>r. LcReported(l, D) OBVIOUS
<1>1. CASE LcSwitch(p)
 <2> DEFINE m == [l EXCEPT !.switch = ~@, !.at = "copy"]
 <2>1. lc_lat' = [lc_lat EXCEPT ![p] = m] /\ l.at = "idle" BY <1>1 DEF LcSwitch
 <2>2. m \in LcLatencyRecord /\ m.at = "copy" /\ m.buf = l.buf /\ m.read = l.read /\ m.told = l.told
   BY <1>0 DEF LcLatencyRecord
 <2> HIDE DEF m, l
 <2>3. LcReported(m, D) BY <1>r, <2>1, <2>2 DEF LcReported
 <2> QED BY <2>1, <2>2, <2>3
<1>2. CASE LcCopy(p)
 <2> DEFINE r == l.read \cup l.buf[LcBufferRead(l)]
            m == [l EXCEPT !.read = r, !.at = "clear"]
 <2>1. lc_lat' = [lc_lat EXCEPT ![p] = m] /\ l.at = "copy" BY <1>2 DEF LcCopy
 <2>2. r \in SUBSET LcPairs BY <1>0 DEF LcBufferRead
 <2>3. r = l.buf[LcBufferRead(l)] BY <1>r, <2>1 DEF LcReported
 <2> HIDE DEF r, l
 <2>4. m \in LcLatencyRecord /\ m.at = "clear" /\ m.buf = l.buf /\ m.read = r /\ m.told = l.told /\ m.switch = l.switch
   BY <1>0, <2>2 DEF LcLatencyRecord
 <2> HIDE DEF m
 <2>5. LcBufferRead(m) = LcBufferRead(l) BY <2>4 DEF LcBufferRead
 <2>6. LcReported(m, D) BY <1>r, <2>3, <2>4, <2>5 DEF LcReported
 <2> QED BY <2>1, <2>4, <2>6
<1>3. CASE LcClear(p)
 <2> DEFINE u == LcBufferRead(l)
            b == [l.buf EXCEPT ![u] = {}]
            t == l.told \cup l.read
            m == [l EXCEPT !.buf = b, !.told = t, !.read = {}, !.at = "idle"]
 <2>1. lc_lat' = [lc_lat EXCEPT ![p] = m] /\ l.at = "clear" BY <1>3 DEF LcClear
 <2>2. u \in 0..1 BY DEF LcBufferRead
 <2>3. b \in [0..1 -> SUBSET LcPairs] /\ b[u] = {} /\ b[1 - u] = l.buf[1 - u] BY <1>0, <2>2
 <2>4. t \in SUBSET LcPairs /\ t = l.told \cup l.buf[u] BY <1>0, <1>r, <2>1 DEF LcReported
 <2> HIDE DEF u, b, t, l
 <2>5. m \in LcLatencyRecord /\ m.at = "idle" /\ m.buf = b /\ m.read = {} /\ m.told = t
   BY <1>0, <2>3, <2>4 DEF LcLatencyRecord
 <2> HIDE DEF m
 <2>6. LcReported(m, D)
  <3>1. CASE u = 0 BY <1>r, <2>3, <2>4, <2>5, <3>1 DEF LcReported
  <3>2. CASE u = 1 BY <1>r, <2>3, <2>4, <2>5, <3>2 DEF LcReported
  <3> QED BY <2>2, <3>1, <3>2
 <2> QED BY <2>1, <2>5, <2>6
<1> QED BY <1>1, <1>2, <1>3 DEF LcCollect

(* The requests of a process that were answered, when one worker moves. *)
LEMMA LcAnsweredMoves ==
  ASSUME lc_load' = lc_load, NEW c \in LcClients, NEW v, NEW E, DOMAIN lc_w = LcClients,
         lc_w' = [lc_w EXCEPT ![c] = v], LcAnswered(v) = LcAnswered(lc_w[c]) \cup E, NEW p
  PROVE LcAnsweredIn(p)' = IF lc_load.clients[c] = p THEN LcAnsweredIn(p) \cup ({c} \X E) ELSE LcAnsweredIn(p)
<1>1. LcClientsIn(p)' = LcClientsIn(p) /\ LcClientsIn(p) = {d \in LcClients : lc_load.clients[d] = p}
  BY DEF LcClientsIn, LcClients
<1>2. \A d \in LcClients : lc_w'[d] = IF d = c THEN v ELSE lc_w[d] OBVIOUS
<1>3. LcAnsweredIn(p)' = UNION {{d} \X LcAnswered(lc_w'[d]) : d \in LcClientsIn(p)} BY <1>1 DEF LcAnsweredIn, LcAnswered
<1>4. ASSUME NEW x
      PROVE x \in LcAnsweredIn(p)' <=> \E d \in LcClientsIn(p) : \E k \in LcAnswered(lc_w'[d]) : x = <<d, k>> BY <1>3
<1>5. ASSUME NEW x PROVE x \in LcAnsweredIn(p) <=> \E d \in LcClientsIn(p) : \E k \in LcAnswered(lc_w[d]) : x = <<d, k>>
  BY DEF LcAnsweredIn
<1>6. ASSUME NEW x PROVE x \in {c} \X E <=> \E k \in E : x = <<c, k>> OBVIOUS
<1>7. CASE lc_load.clients[c] = p
 <2>1. c \in LcClientsIn(p) BY <1>1, <1>7
 <2>2. ASSUME NEW x PROVE x \in LcAnsweredIn(p)' <=> x \in LcAnsweredIn(p) \/ x \in {c} \X E
  <3>1. ASSUME NEW d \in LcClientsIn(p), NEW k
        PROVE k \in LcAnswered(lc_w'[d]) <=> k \in LcAnswered(lc_w[d]) \/ (d = c /\ k \in E) BY <1>1, <1>2
  <3> QED BY <1>4, <1>5, <1>6, <2>1, <3>1
 <2> QED BY <1>7, <2>2
<1>8. CASE lc_load.clients[c] # p
 <2>1. \A d \in LcClientsIn(p) : lc_w'[d] = lc_w[d] BY <1>1, <1>2, <1>8
 <2> QED BY <1>3, <1>8, <2>1 DEF LcAnsweredIn
<1> QED BY <1>7, <1>8

LEMMA LcLatencyStep ==
  ASSUME LcClientTypeOK, LcLatencyOK, LcNext
  PROVE LcLatencyOK'
<1>0. lc_load' = lc_load /\ LcClients' = LcClients /\ LcProcs' = LcProcs BY LcLoadKept
<1>1. LcPairs' = LcPairs /\ LcLatencyRecord' = LcLatencyRecord BY <1>0 DEF LcPairs, LcLatencyRecord
<1>2. ASSUME NEW p, lc_w' = lc_w PROVE LcAnsweredIn(p)' = LcAnsweredIn(p) BY <1>0, <1>2 DEF LcAnsweredIn, LcClientsIn
<1>3. DOMAIN lc_w = LcClients /\ \A c \in LcClients : LcNumbersOK(lc_w[c]) BY DEF LcClientTypeOK, LcLatencyOK
<1>4. lc_lat \in [LcProcs -> LcLatencyRecord] /\ \A p \in LcProcs : LcReported(lc_lat[p], LcAnsweredIn(p))
  BY DEF LcLatencyOK
<1> SUFFICES /\ lc_lat' \in [LcProcs -> LcLatencyRecord]
             /\ \A c \in LcClients : LcNumbersOK(lc_w'[c])
             /\ \A p \in LcProcs : LcReported(lc_lat'[p], LcAnsweredIn(p)')
  BY <1>0, <1>1 DEF LcLatencyOK, LcNumbersOK, LcReported, LcBufferRead
<1>5. CASE lc_w' = lc_w /\ lc_lat' = lc_lat BY <1>2, <1>3, <1>4, <1>5
<1>6. CASE \E c, v : LcKeeps(c, v)
 <2>1. PICK c, v : LcKeeps(c, v) BY <1>6
 <2>2. /\ c \in LcClients /\ lc_w' = [lc_w EXCEPT ![c] = v] /\ lc_lat' = lc_lat
       /\ LcNumbersOK(v) /\ LcAnswered(v) = LcAnswered(lc_w[c]) \cup {} BY <2>1 DEF LcKeeps
 <2>3. ASSUME NEW p \in LcProcs PROVE LcAnsweredIn(p)' = LcAnsweredIn(p)
  <3>1. LcAnsweredIn(p)' = IF lc_load.clients[c] = p THEN LcAnsweredIn(p) \cup ({c} \X {}) ELSE LcAnsweredIn(p)
    BY <1>0, <1>3, <2>2, LcAnsweredMoves
  <3>2. {c} \X {} = {} OBVIOUS
  <3> QED BY <3>1, <3>2
 <2> QED BY <1>3, <1>4, <2>2, <2>3
<1>7. CASE \E c, n, v : LcRecords(c, n, v)
 <2>1. PICK c, n, v : LcRecords(c, n, v) BY <1>7
 <2> DEFINE x == <<c, n>>
 <2>q. PICK q \in LcProcs : q = LcProcOf(c) /\ lc_load.clients[c] = q
  <3>1. c \in LcClients /\ c \notin LcSites BY <2>1, LcAssumption DEF LcRecords, LcClientTypeOK, LcSites, LcClients
  <3> QED BY <3>1 DEF LcProcOf, LcProcs
 <2>2. /\ c \in LcClients /\ n \in lc_w[c].run /\ lc_w' = [lc_w EXCEPT ![c] = v]
       /\ LcNumbersOK(v) /\ LcAnswered(v) = LcAnswered(lc_w[c]) \cup {n}
       /\ lc_lat' = [lc_lat EXCEPT ![q] = LcRecorded(lc_lat[q], x)] BY <2>1, <2>q DEF LcRecords
 <2>4. \A p : LcAnsweredIn(p)' = IF lc_load.clients[c] = p THEN LcAnsweredIn(p) \cup ({c} \X {n}) ELSE LcAnsweredIn(p)
   BY <1>0, <1>3, <2>2, LcAnsweredMoves
 <2>5. x \in LcPairs /\ x \notin LcAnsweredIn(q) /\ {c} \X {n} = {x}
  <3>1. n \in Nat BY <2>2 DEF LcClientTypeOK, LcWorkerRecord
  <3>2. n \notin LcAnswered(lc_w[c]) BY <2>2 DEF LcAnswered
  <3>3. x \notin LcAnsweredIn(q) BY <3>2 DEF LcAnsweredIn
  <3> QED BY <2>2, <3>1, <3>3 DEF LcPairs
 <2> HIDE DEF x
 <2>6. LcRecorded(lc_lat[q], x) \in LcLatencyRecord /\ LcReported(LcRecorded(lc_lat[q], x), LcAnsweredIn(q) \cup {x})
   BY <1>4, <2>q, <2>5, LcRecordedOK
 <2> DEFINE m == LcRecorded(lc_lat[q], x)
 <2> HIDE DEF m
 <2>7. m \in LcLatencyRecord /\ LcReported(m, LcAnsweredIn(q)') /\ lc_lat' = [lc_lat EXCEPT ![q] = m]
  <3>1. LcAnsweredIn(q)' = LcAnsweredIn(q) \cup {x} BY <2>q, <2>4, <2>5
  <3>2. LcReported(m, LcAnsweredIn(q) \cup {x}) BY <2>6 DEF m
  <3>3. LcReported(m, LcAnsweredIn(q)') BY <3>1, <3>2
  <3> QED BY <2>2, <2>6, <3>3 DEF m
 <2>8. \A p \in LcProcs : p # q => LcAnsweredIn(p)' = LcAnsweredIn(p) BY <2>q, <2>4
 <2>9. lc_lat' \in [LcProcs -> LcLatencyRecord] BY <1>4, <2>q, <2>7
 <2>10. ASSUME NEW p \in LcProcs PROVE LcReported(lc_lat'[p], LcAnsweredIn(p)')
  <3>1. CASE p = q
   <4>1. lc_lat'[p] = m BY <1>4, <2>q, <2>7, <3>1
   <4> QED BY <2>7, <3>1, <4>1
  <3>2. CASE p # q
   <4>1. lc_lat'[p] = lc_lat[p] /\ LcAnsweredIn(p)' = LcAnsweredIn(p) BY <1>4, <2>7, <2>8, <3>2
   <4> QED BY <1>4, <4>1
  <3> QED BY <3>1, <3>2
 <2>11. \A d \in LcClients : LcNumbersOK(lc_w'[d]) BY <1>3, <2>2
 <2> QED BY <2>9, <2>10, <2>11
<1>8. CASE \E p \in LcProcs : LcCollect(p) /\ lc_w' = lc_w
 <2>1. PICK q \in LcProcs : LcCollect(q) /\ lc_w' = lc_w BY <1>8
 <2>2. PICK m \in LcLatencyRecord : LcReported(m, LcAnsweredIn(q)) /\ lc_lat' = [lc_lat EXCEPT ![q] = m]
   BY <1>4, <2>1, LcCollectOK
 <2> QED BY <1>2, <1>3, <1>4, <2>1, <2>2
<1> QED BY <1>5, <1>6, <1>7, <1>8, LcLatencySteps

LEMMA LcLatencyInit ==
  ASSUME LcInit
  PROVE LcLatencyOK
<1>1. PICK l \in LcLoads : LcInitOf(l) BY DEF LcInit
<1>2. /\ lc_load = l /\ LcClients = DOMAIN l.clients
      /\ LcProcs = {l.sites[s] : s \in DOMAIN l.sites} \cup {l.clients[c] : c \in DOMAIN l.clients}
  BY <1>1 DEF LcInitOf, LcSites, LcClients, LcProcs
<1> DEFINE w == [left |-> l.conc, made |-> 0, free |-> 0, run |-> {}, frun |-> {}, n |-> 0, fwd |-> {}, up |-> FALSE]
           b == [u \in 0..1 |-> {}]
           r == [switch |-> TRUE, buf |-> b, read |-> {}, told |-> {}, at |-> "idle"]
<1>3. lc_w = [c \in LcClients |-> w] /\ lc_lat = [p \in LcProcs |-> r] BY <1>1, <1>2 DEF LcInitOf
<1>4. w.run = {} /\ w.fwd = {} /\ w.n = 0 OBVIOUS
<1>5. b \in [0..1 -> SUBSET LcPairs] /\ b[0] = {} /\ b[1] = {} OBVIOUS
<1> HIDE DEF w, b
<1>6. r \in LcLatencyRecord /\ r.buf = b /\ r.read = {} /\ r.told = {} /\ r.at = "idle" BY <1>5 DEF LcLatencyRecord
<1> HIDE DEF r
<1>7. LcNumbersOK(w) /\ LcAnswered(w) = {} BY <1>4 DEF LcNumbersOK, LcAnswered
<1>8. ASSUME NEW p \in LcProcs PROVE LcAnsweredIn(p) = {}
 <2>1. \A c \in LcClientsIn(p) : LcAnswered(lc_w[c]) = {} BY <1>3, <1>7 DEF LcClientsIn
 <2> QED BY <2>1 DEF LcAnsweredIn
<1>9. LcReported(r, {}) BY <1>5, <1>6 DEF LcReported
<1> QED BY <1>3, <1>6, <1>7, <1>8, <1>9 DEF LcLatencyOK

(* Every latency is reported once (benchmark_control_rpc.cc), although client_response
   works on a buffer after it has released collect_lock_ and coordinators finish
   requests meanwhile: a request that was answered is in exactly one of the two buffers
   or in one of the reports. *)
LEMMA LcLatencyOnceHolds == LcSpec => []LcLatencyOnce
<1>1. LcInit => LcInv /\ LcLatencyOK BY LcInitInv, LcLatencyInit
<1>2. LcClientTypeOK /\ LcLatencyOK /\ [LcNext]_lcVars => LcClientTypeOK' /\ LcLatencyOK'
 <2>1. ASSUME LcClientTypeOK, LcLatencyOK, UNCHANGED lcVars PROVE LcClientTypeOK' /\ LcLatencyOK'
   BY <2>1 DEF LcClientTypeOK, LcLatencyOK, LcNumbersOK, LcReported, LcBufferRead, LcAnsweredIn, LcAnswered, LcPairs,
     LcLatencyRecord, LcSites, LcClients, LcProcs, LcClientsIn, LcWorkerRecord, lcVars
 <2> QED BY <2>1, LcClientTypeStep, LcLatencyStep
<1>3. LcLatencyOK => LcLatencyOnce BY DEF LcLatencyOK, LcLatencyOnce, LcReported
<1>4. LcInv => LcClientTypeOK BY DEF LcInv
<1> QED BY <1>1, <1>2, <1>3, <1>4, PTL DEF LcSpec

(* What has a cause happens once for it, however calls, replies, timeouts, closes, jobs
   and collections interleave: the callback of a future (client.cpp), a job of the
   thread pool (threading.cpp), the report of a latency (benchmark_control_rpc.cc). *)
THEOREM OncePerCauseHolds == RpSpec /\ ThSpec /\ LcSpec => OncePerCause
BY RpCallbacksHold, ThRunsOnceHolds, LcLatencyOnceHolds, PTL DEF OncePerCause
=====
