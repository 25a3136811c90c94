----- MODULE Protocols_proofs -----
(* Those who take part in a decision carry out one outcome: the partitions of a
   two-phase commit, the replicas of TAPIR and the replicas of a Paxos log, for every
   deployment, workload and order of messages. *)
EXTENDS Protocols, FiniteSetTheorems, SequenceTheorems, NaturalsInduction, WellFoundedInduction, TLAPS

(* What is on connection k. *)
MsgsIn(net, k) == {net[k][i] : i \in 1..Len(net[k])}

(* A set of numbers has a smallest. *)
LEMMA NatSmallest ==
  ASSUME NEW S \in SUBSET Nat, S # {}
  PROVE \E x \in S : \A y \in S : x <= y
<1> DEFINE R == {p \in Nat \X Nat : p[1] < p[2]}
<1>1. OpToRel(<, Nat) = R BY DEF OpToRel
<1>2. IsWellFoundedOn(R, Nat) BY <1>1, NatLessThanWellFounded
<1> HIDE DEF R
<1>3. PICK x \in S : \A y \in S : ~(<<y, x>> \in R) BY <1>2, WFMin
<1>4. ASSUME NEW y \in S PROVE x <= y
 <2>1. ~(<<y, x>> \in R) /\ y \in Nat /\ x \in Nat BY <1>3
 <2> QED BY <2>1 DEF R
<1> QED BY <1>4

-----
(* Connections. *)

NetOf(net, C, M) == net \in [C -> Seq(M)]

(* A call that is taken off its connection. *)
LEMMA NetTook ==
  ASSUME NEW C, NEW M, NEW net, NetOf(net, C, M), NEW c \in C, net[c] # <<>>
  PROVE  /\ NetOf(Taken(net, c), C, M)
         /\ Head(net[c]) \in M
         /\ Head(net[c]) \in MsgsIn(net, c)
         /\ \A k \in C : k # c => Taken(net, c)[k] = net[k]
         /\ Taken(net, c)[c] = Tail(net[c])
         /\ \A k \in C : MsgsIn(Taken(net, c), k) \subseteq MsgsIn(net, k)
         /\ \A m \in MsgsIn(net, c) : m = Head(net[c]) \/ m \in MsgsIn(Taken(net, c), c)
<1> DEFINE q == net[c]
           r == Taken(net, c)
<1>1. q \in Seq(M) /\ q # <<>> BY DEF NetOf
<1>2. r = [net EXCEPT ![c] = Tail(q)] BY DEF Taken
<1>3. r[c] = Tail(q) /\ \A k \in C : k # c => r[k] = net[k] BY <1>2 DEF NetOf
<1> HIDE DEF q
<1>4. Tail(q) \in Seq(M) /\ Len(q) \in Nat /\ Len(q) >= 1 /\ Len(Tail(q)) = Len(q) - 1
      /\ (\A i \in 1..(Len(q) - 1) : Tail(q)[i] = q[i + 1]) /\ Head(q) = q[1] /\ Head(q) \in M BY <1>1
<1>5. NetOf(r, C, M) BY <1>2, <1>4 DEF NetOf
<1> HIDE DEF r
<1>6. MsgsIn(r, c) \subseteq MsgsIn(net, c)
 <2> SUFFICES ASSUME NEW i \in 1..Len(r[c]) PROVE r[c][i] \in MsgsIn(net, c) BY DEF MsgsIn
 <2>1. i + 1 \in 1..Len(q) /\ r[c][i] = q[i + 1] BY <1>3, <1>4
 <2> QED BY <2>1 DEF MsgsIn, q
<1>7. \A k \in C : k # c => MsgsIn(r, k) = MsgsIn(net, k) BY <1>3 DEF MsgsIn
<1>8. Head(q) \in MsgsIn(net, c)
 <2>1. 1 \in 1..Len(q) BY <1>4
 <2> QED BY <1>4, <2>1 DEF MsgsIn, q
<1>9. ASSUME NEW m \in MsgsIn(net, c) PROVE m = Head(q) \/ m \in MsgsIn(r, c)
 <2>1. PICK i \in 1..Len(q) : m = q[i] BY DEF MsgsIn, q
 <2>2. CASE i = 1 BY <2>1, <2>2, <1>4
 <2>3. CASE i # 1
  <3>1. i - 1 \in 1..Len(r[c]) /\ r[c][i - 1] = q[i] BY <2>3, <1>3, <1>4
  <3> QED BY <2>1, <3>1 DEF MsgsIn
 <2> QED BY <2>2, <2>3
<1> QED BY <1>3, <1>4, <1>5, <1>6, <1>7, <1>8, <1>9 DEF q, r

(* A connection after its caller made calls has one more or is as it was. *)
LEMMA NetSent ==
  ASSUME NEW C, NEW M, NEW net, NetOf(net, C, M), NEW src, NEW calls,
         \A e \in calls : e.msg \in M
  PROVE  LET r == Calls(net, src, calls)
         IN  /\ NetOf(r, C, M)
             /\ \A k \in C :
                  \/ r[k] = net[k] /\ (k[1] = src => \A e \in calls : k[2] \notin e.to)
                  \/ k[1] = src /\ \E e \in calls : k[2] \in e.to /\ r[k] = Append(net[k], e.msg)
<1> DEFINE to(d) == {e \in calls : d \in e.to}
           r == Calls(net, src, calls)
<1>1. DOMAIN net = C /\ \A k \in C : net[k] \in Seq(M) BY DEF NetOf
<1>2. r = [k \in C |-> IF k[1] = src /\ to(k[2]) # {} THEN Append(net[k], (CHOOSE e \in to(k[2]) : TRUE).msg)
                                                      ELSE net[k]] BY <1>1 DEF Calls
<1>3. ASSUME NEW k \in C
      PROVE  /\ r[k] \in Seq(M)
             /\ \/ r[k] = net[k] /\ (k[1] = src => \A e \in calls : k[2] \notin e.to)
                \/ k[1] = src /\ \E e \in calls : k[2] \in e.to /\ r[k] = Append(net[k], e.msg)
 <2>1. CASE k[1] = src /\ to(k[2]) # {}
  <3> DEFINE e == CHOOSE x \in to(k[2]) : TRUE
  <3>1. e \in to(k[2]) BY <2>1
  <3>2. r[k] = Append(net[k], e.msg) BY <1>2, <2>1
  <3> HIDE DEF e, r
  <3>3. e \in calls /\ k[2] \in e.to /\ e.msg \in M BY <3>1
  <3>4. Append(net[k], e.msg) \in Seq(M) BY <1>1, <3>3
  <3> QED BY <2>1, <3>2, <3>3, <3>4
 <2>2. CASE ~(k[1] = src /\ to(k[2]) # {})
  <3>1. r[k] = net[k] BY <1>2, <2>2
  <3> HIDE DEF r
  <3> QED BY <1>1, <2>2, <3>1
 <2> QED BY <2>1, <2>2
<1>4. r = [k \in C |-> r[k]] BY <1>2
<1> HIDE DEF r
<1> QED BY <1>3, <1>4 DEF NetOf, r

LEMMA MsgsAppended ==
  ASSUME NEW C, NEW M, NEW net, NetOf(net, C, M), NEW r, NEW k \in C, NEW m \in M, r[k] = Append(net[k], m)
  PROVE MsgsIn(r, k) = MsgsIn(net, k) \cup {m}
<1>1. net[k] \in Seq(M) BY DEF NetOf
<1> DEFINE q == net[k]
           n == Len(q)
<1> HIDE DEF q
<1>2. n \in Nat /\ Len(r[k]) = n + 1 /\ r[k][n + 1] = m /\ \A i \in 1..n : r[k][i] = q[i] BY <1>1 DEF q
<1> HIDE DEF n
<1>3. MsgsIn(net, k) = {q[i] : i \in 1..n} BY DEF MsgsIn, q, n
<1>4. MsgsIn(r, k) = {r[k][i] : i \in 1..(n + 1)} BY <1>2 DEF MsgsIn
<1>5. 1..(n + 1) = (1..n) \cup {n + 1} BY <1>2
<1> QED BY <1>2, <1>3, <1>4, <1>5

(* What is in flight after calls. *)
LEMMA NetTold ==
  ASSUME NEW C, NEW M, NEW net, NetOf(net, C, M), NEW src, NEW calls,
         \A e \in calls : e.msg \in M
  PROVE  LET r == Calls(net, src, calls)
         IN  \A k \in C :
               /\ MsgsIn(net, k) \subseteq MsgsIn(r, k)
               /\ \A m \in MsgsIn(r, k) : m \in MsgsIn(net, k) \/
                    (k[1] = src /\ \E e \in calls : k[2] \in e.to /\ m = e.msg)
               /\ k[1] = src /\ (\E e \in calls : k[2] \in e.to) =>
                    \E e \in calls : k[2] \in e.to /\ e.msg \in MsgsIn(r, k)
<1> DEFINE r == Calls(net, src, calls)
<1> HIDE DEF r
<1> SUFFICES ASSUME NEW k \in C
             PROVE  /\ MsgsIn(net, k) \subseteq MsgsIn(r, k)
                    /\ \A m \in MsgsIn(r, k) : m \in MsgsIn(net, k) \/
                         (k[1] = src /\ \E e \in calls : k[2] \in e.to /\ m = e.msg)
                    /\ k[1] = src /\ (\E e \in calls : k[2] \in e.to) =>
                         \E e \in calls : k[2] \in e.to /\ e.msg \in MsgsIn(r, k) BY DEF r
<1>1. \/ r[k] = net[k] /\ (k[1] = src => \A e \in calls : k[2] \notin e.to)
      \/ k[1] = src /\ \E e \in calls : k[2] \in e.to /\ r[k] = Append(net[k], e.msg) BY NetSent DEF r
<1>2. CASE r[k] = net[k] /\ (k[1] = src => \A e \in calls : k[2] \notin e.to) BY <1>2 DEF MsgsIn
<1>3. CASE k[1] = src /\ \E e \in calls : k[2] \in e.to /\ r[k] = Append(net[k], e.msg)
 <2>1. PICK e \in calls : k[2] \in e.to /\ r[k] = Append(net[k], e.msg) BY <1>3
 <2>2. MsgsIn(r, k) = MsgsIn(net, k) \cup {e.msg} BY <2>1, MsgsAppended
 <2> QED BY <1>3, <2>1, <2>2
<1> QED BY <1>1, <1>2, <1>3

-----
(* Two-phase commit. *)

CmPieceSet == SUBSET DOMAIN CmPieceOf
CmIds(l) == l.txns \X (0..l.retry)
CmMsg(l) ==
  [type : {"Dispatch"}, id : CmIds(l), pieces : CmPieceSet] \cup
  [type : {"DispatchAck"}, id : CmIds(l), pieces : CmPieceSet, res : {"SUCCESS", "REJECT"}] \cup
  [type : {"PrepareAck"}, id : CmIds(l), res : {"SUCCESS", "REJECT"}] \cup
  [type : {"Prepare", "Commit", "Abort"}, id : CmIds(l)]
CmCoordRec(l) ==
  [phase : {"init", "dispatch", "prepare", "end"}, try : 0..l.retry, out : CmPieceSet,
   acked : CmPieceSet, aborted : BOOLEAN, parts : SUBSET CmPars, votes : Nat,
   reply : {"none", "SUCCESS", "REJECT"}, started : SUBSET l.txns]

(* A coordinator: partition_ids_ holds the partitions of what it sent, and it prepares
   only when it has sent everything. *)
CmPartsOK(t, c) == c.out \subseteq CmPieces(t) /\ c.parts = {CmPieceOf[p].par : p \in c.out}
CmCoordOK(t, c) ==
  /\ CmPartsOK(t, c)
  /\ c.phase # "end" => c.reply = "none"
  /\ c.phase = "prepare" \/ c.reply = "SUCCESS" => c.out = CmPieces(t)

(* A call of t's coordinator to partition s: a decision is the one the coordinator has
   taken. *)
CmCommitted1(c, n) == n = c.try /\ c.reply = "SUCCESS"
CmAborted1(c, n) == n < c.try \/ (n = c.try /\ c.reply = "REJECT")
CmLegal(c, m, t, s) ==
  /\ m.id[1] = t
  /\ m.type = "Commit" => CmCommitted1(c, m.id[2]) /\ s \in c.parts
  /\ m.type = "Abort" => CmAborted1(c, m.id[2])

CmTypeInv ==
  /\ cm_load \in CmLoads
  /\ cm_coord \in [CmTxns -> CmCoordRec(cm_load)]
  /\ cm_net \in [CmConns -> Seq(CmMsg(cm_load))]
  /\ cm_hist \in [CmAttempts -> [commit : SUBSET CmPars, abort : SUBSET CmPars]]
CmCoordsOK == \A t \in CmTxns : CmCoordOK(t, cm_coord[t])
CmCallsOK ==
  \A t \in CmTxns, s \in CmPars :
    \A m \in MsgsIn(cm_net, <<CmCoord(t), CmSrv(s)>>) : CmLegal(cm_coord[t], m, t, s)
CmHistOK ==
  \A i \in CmAttempts :
    /\ cm_hist[i].commit # {} => CmCommitted1(cm_coord[i[1]], i[2])
    /\ cm_hist[i].commit \subseteq cm_coord[i[1]].parts
    /\ cm_hist[i].abort # {} => CmAborted1(cm_coord[i[1]], i[2])
(* A decision to commit has arrived or is on its way. *)
CmTold(t, s) ==
  LET i == <<t, cm_coord[t].try>>
  IN  s \in cm_hist[i].commit \/ [type |-> "Commit", id |-> i] \in MsgsIn(cm_net, <<CmCoord(t), CmSrv(s)>>)
CmTellsAll ==
  \A t \in CmTxns : cm_coord[t].reply = "SUCCESS" /\ cm_load.mode # "none" =>
    \A s \in cm_coord[t].parts : CmTold(t, s)

CmInv == CmTypeInv /\ CmCoordsOK /\ CmCallsOK /\ CmHistOK /\ CmTellsAll

(* What a step of t's coordinator c may come to. *)
CmOutcome(l, t, c, n) ==
  /\ c.reply = "none"
  /\ n.c \in CmCoordRec(l)
  /\ CmCoordOK(t, n.c)
  /\ n.c.try >= c.try
  /\ \A e \in n.calls \cup n.then :
       /\ e.msg \in CmMsg(l)
       /\ \A s \in CmPars : CmSrv(s) \in e.to => CmLegal(n.c, e.msg, t, s)
  /\ n.c.reply = "SUCCESS" /\ l.mode # "none" =>
       /\ \A s \in n.c.parts : \E e \in n.calls : CmSrv(s) \in e.to
       /\ \A e \in n.calls : e.msg = [type |-> "Commit", id |-> <<t, n.c.try>>]

LEMMA CmLoadIs ==
  ASSUME CmTypeInv
  PROVE cm_load.retry \in Nat /\ CmTxns \subseteq CmAllTxns /\ CmAttempts = CmIds(cm_load)
BY CmAssumption DEF CmTypeInv, CmTxns, CmAttempts, CmIds

LEMMA CmConnsAre ==
  ASSUME NEW t \in CmAllTxns, NEW s \in CmPars
  PROVE <<CmCoord(t), CmSrv(s)>> \in CmConns /\ <<CmSrv(s), CmCoord(t)>> \in CmConns
BY DEF CmConns, CmCoord, CmSrv

LEMMA CmStopOK ==
  ASSUME NEW l, NEW t, NEW c \in CmCoordRec(l), c.reply = "none", CmCoordOK(t, c), c.phase # "end",
         NEW b \in CmCoordRec(l), CmCoordOK(t, b), b.try = c.try, b.reply = "none"
  PROVE CmOutcome(l, t, c, CmNoCalls(b))
<1>1. c.try \in 0..l.retry BY DEF CmCoordRec
<1> QED BY <1>1 DEF CmOutcome, CmNoCalls

LEMMA CmDispatchOfOK ==
  ASSUME NEW l \in CmLoads, NEW t \in l.txns, NEW c0 \in CmCoordRec(l), c0.reply = "none",
         NEW c \in CmCoordRec(l), c.reply = "none", CmPartsOK(t, c), c.try >= c0.try
  PROVE  /\ CmOutcome(l, t, c0, CmDispatchOf(t, c))
         /\ CmDispatchOf(t, c).c.try = c.try
         /\ CmDispatchOf(t, c).c.reply = "none"
         /\ CmDispatchOf(t, c).then = {}
         /\ \A e \in CmDispatchOf(t, c).calls : e.msg.type = "Dispatch"
<1> DEFINE ready == CmReady(t, c)
           pars == {CmPieceOf[p].par : p \in ready}
           at(s) == {p \in ready : CmPieceOf[p].par = s}
           out == c.out \cup ready
           parts == c.parts \cup pars
           b == [c EXCEPT !.phase = "dispatch", !.out = out, !.parts = parts]
           n == CmDispatchOf(t, c)
<1>1. ready \subseteq CmPieces(t) /\ CmPieces(t) \subseteq DOMAIN CmPieceOf BY DEF CmReady, CmPieces
<1>2. pars \subseteq CmPars /\ out \in CmPieceSet /\ parts \in SUBSET CmPars /\ out \subseteq CmPieces(t)
  BY <1>1 DEF CmPars, CmPieceSet, CmCoordRec, CmPartsOK
<1>3. parts = {CmPieceOf[p].par : p \in out} BY DEF CmPartsOK
<1>4. n.c = b /\ n.then = {} /\
      n.calls = {To({CmSrv(s)}, [type |-> "Dispatch", id |-> <<t, c.try>>, pieces |-> at(s)]) : s \in pars}
  BY DEF CmDispatchOf
<1>5. \A s : at(s) \in CmPieceSet BY <1>1 DEF CmPieceSet
<1>6. ASSUME NEW e \in n.calls PROVE e.msg \in CmMsg(l) /\ e.msg.type = "Dispatch" /\ e.msg.id = <<t, c.try>>
 <2>1. PICK s \in pars : e = To({CmSrv(s)}, [type |-> "Dispatch", id |-> <<t, c.try>>, pieces |-> at(s)]) BY <1>4
 <2>2. at(s) \in CmPieceSet BY <1>5
 <2>3. <<t, c.try>> \in CmIds(l) BY DEF CmIds, CmCoordRec
 <2> HIDE DEF at, n
 <2>4. e.msg = [type |-> "Dispatch", id |-> <<t, c.try>>, pieces |-> at(s)] BY <2>1 DEF To
 <2> QED BY <2>2, <2>3, <2>4 DEF CmMsg
<1> HIDE DEF ready, pars, at, out, parts, n
<1>7. b \in CmCoordRec(l) /\ b.try = c.try /\ b.reply = "none" /\ b.out = out /\ b.parts = parts /\ b.phase = "dispatch"
  BY <1>2 DEF CmCoordRec
<1> HIDE DEF b
<1>8. CmCoordOK(t, b) BY <1>2, <1>3, <1>7 DEF CmCoordOK, CmPartsOK
<1>9. \A e \in n.calls : \A s \in CmPars : CmLegal(b, e.msg, t, s) BY <1>6 DEF CmLegal
<1> QED BY <1>4, <1>6, <1>7, <1>8, <1>9 DEF CmOutcome, n

LEMMA CmDecideOK ==
  ASSUME CmTypeInv, NEW t \in CmTxns, NEW c0 \in CmCoordRec(cm_load), c0.reply = "none",
         NEW c \in CmCoordRec(cm_load), c.reply = "none", CmCoordOK(t, c), c.try = c0.try, c.phase # "end",
         NEW commit \in BOOLEAN, commit => c.phase = "prepare"
  PROVE CmOutcome(cm_load, t, c0, CmDecide(t, c, commit))
<1> DEFINE l == cm_load
           msg == [type |-> IF commit THEN "Commit" ELSE "Abort", id |-> <<t, c.try>>]
           m == {To({CmSrv(s) : s \in c.parts}, msg)}
           n == CmDecide(t, c, commit)
<1>1. l \in CmLoads /\ t \in l.txns /\ l.retry \in Nat BY CmLoadIs DEF CmTypeInv, CmTxns
<1>2. c.try \in 0..l.retry /\ c.parts \subseteq CmPars BY DEF CmCoordRec
<1>3. msg \in CmMsg(l) /\ msg.id = <<t, c.try>> BY <1>1, <1>2 DEF CmMsg, CmIds
<1>4. \A e \in m : e.msg = msg /\ e.to = {CmSrv(s) : s \in c.parts} BY DEF To
<1>5. \A s \in CmPars : CmSrv(s) \in {CmSrv(u) : u \in c.parts} <=> s \in c.parts BY <1>2 DEF CmSrv
<1>6. CASE commit
 <2> DEFINE b == [c EXCEPT !.phase = "end", !.reply = "SUCCESS"]
 <2>1. n.c = b /\ n.calls = m /\ n.then = {} BY <1>6 DEF CmDecide
 <2>2. b \in CmCoordRec(l) /\ b.try = c.try /\ b.reply = "SUCCESS" /\ b.out = c.out /\ b.parts = c.parts
       /\ b.phase = "end" BY DEF CmCoordRec
 <2>3. msg.type = "Commit" BY <1>6
 <2> HIDE DEF b, n
 <2>4. CmCoordOK(t, b) BY <1>6, <2>2 DEF CmCoordOK, CmPartsOK
 <2>5. \A s \in c.parts : CmLegal(b, msg, t, s) BY <1>3, <2>2, <2>3 DEF CmLegal, CmCommitted1
 <2>6. msg = [type |-> "Commit", id |-> <<t, b.try>>] BY <1>6, <2>2
 <2> HIDE DEF msg, m
 <2>7. \A e \in n.calls \cup n.then : e.msg \in CmMsg(l) /\
         \A s \in CmPars : CmSrv(s) \in e.to => CmLegal(n.c, e.msg, t, s) BY <2>1, <2>5, <1>3, <1>4, <1>5
 <2>8. /\ \A s \in n.c.parts : \E e \in n.calls : CmSrv(s) \in e.to
       /\ \A e \in n.calls : e.msg = [type |-> "Commit", id |-> <<t, n.c.try>>]
  <3>1. m # {} BY DEF m
  <3> QED BY <2>1, <2>2, <2>6, <1>2, <1>4, <1>5, <3>1
 <2> QED BY <1>2, <2>1, <2>2, <2>4, <2>7, <2>8 DEF CmOutcome, n
<1>7. CASE ~commit /\ c.try = l.retry
 <2> DEFINE b == [c EXCEPT !.phase = "end", !.reply = "REJECT"]
 <2>1. n.c = b /\ n.calls = m /\ n.then = {} BY <1>7 DEF CmDecide
 <2>2. b \in CmCoordRec(l) /\ b.try = c.try /\ b.reply = "REJECT" /\ b.out = c.out /\ b.parts = c.parts
       /\ b.phase = "end" BY DEF CmCoordRec
 <2>3. msg.type = "Abort" BY <1>7
 <2> HIDE DEF b, n
 <2>4. CmCoordOK(t, b) BY <2>2 DEF CmCoordOK, CmPartsOK
 <2>5. \A s \in c.parts : CmLegal(b, msg, t, s) BY <1>3, <2>2, <2>3 DEF CmLegal, CmAborted1
 <2> HIDE DEF msg, m
 <2>7. \A e \in n.calls \cup n.then : e.msg \in CmMsg(l) /\
         \A s \in CmPars : CmSrv(s) \in e.to => CmLegal(n.c, e.msg, t, s) BY <2>1, <2>5, <1>3, <1>4, <1>5
 <2> QED BY <1>2, <2>1, <2>2, <2>4, <2>7 DEF CmOutcome, n
<1>8. CASE ~commit /\ c.try # l.retry
 <2> DEFINE d == [c EXCEPT !.try = c.try + 1, !.out = {}, !.acked = {}, !.aborted = FALSE,
                           !.parts = {}, !.votes = 0]
            r == CmDispatchOf(t, d)
 <2>1. CmRestart(t, c) = r BY DEF CmRestart
 <2>2. n.c = r.c /\ n.calls = m /\ n.then = r.calls BY <1>8, <2>1 DEF CmDecide
 <2>3. c.try + 1 \in 0..l.retry BY <1>1, <1>2, <1>8
 <2>4. d \in CmCoordRec(l) /\ d.reply = "none" /\ d.out = {} /\ d.parts = {} /\ d.try = c.try + 1 /\ d.phase = c.phase
   BY <2>3 DEF CmCoordRec, CmPieceSet
 <2> HIDE DEF d
 <2>5. CmPartsOK(t, d) BY <2>4 DEF CmPartsOK
 <2>6. /\ CmOutcome(l, t, c0, r) /\ r.c.try = c.try + 1 /\ r.c.reply = "none"
       /\ r.then = {} /\ \A e \in r.calls : e.msg.type = "Dispatch"
  <3>1. d.try >= c0.try BY <1>2, <2>4
  <3> QED BY <1>1, <2>4, <2>5, <3>1, CmDispatchOfOK
 <2>7. msg.type = "Abort" BY <1>8
 <2> HIDE DEF r, msg, m, n
 <2>8. \A s \in CmPars : CmLegal(r.c, msg, t, s) BY <1>2, <1>3, <2>6, <2>7 DEF CmLegal, CmAborted1
 <2> QED BY <2>2, <2>6, <2>8, <1>3, <1>4 DEF CmOutcome, n
<1> QED BY <1>6, <1>7, <1>8

(* A coordinator's step keeps the invariant, whatever it comes to. *)
LEMMA CmCoordStep ==
  ASSUME CmInv, NEW t \in CmTxns, NEW n, CmOutcome(cm_load, t, cm_coord[t], n),
         NEW net0, NetOf(net0, CmConns, CmMsg(cm_load)),
         \A u \in CmTxns, s \in CmPars :
           MsgsIn(net0, <<CmCoord(u), CmSrv(s)>>) = MsgsIn(cm_net, <<CmCoord(u), CmSrv(s)>>),
         cm_coord' = [cm_coord EXCEPT ![t] = n.c], cm_net' = CmTell(net0, t, n),
         UNCHANGED <<cm_load, cm_hist>>
  PROVE CmInv'
<1> DEFINE l == cm_load
           M == CmMsg(l)
           net1 == Calls(net0, CmCoord(t), n.calls)
           c == cm_coord[t]
           conn(u, s) == <<CmCoord(u), CmSrv(s)>>
<1>0. /\ CmTypeInv /\ CmCoordsOK /\ CmCallsOK /\ CmHistOK /\ CmTellsAll
      /\ cm_coord \in [CmTxns -> CmCoordRec(l)] /\ CmTxns' = CmTxns /\ CmAttempts' = CmAttempts
      /\ CmTxns \subseteq CmAllTxns /\ CmAttempts = CmIds(l) BY CmLoadIs DEF CmInv, CmTypeInv, CmTxns, CmAttempts
<1>1. \A e \in n.calls \cup n.then : e.msg \in M BY DEF CmOutcome
<1>2. NetOf(net1, CmConns, M) /\ NetOf(cm_net', CmConns, M)
 <2>1. NetOf(net1, CmConns, M) BY <1>1, NetSent
 <2> QED BY <1>1, <2>1, NetSent DEF CmTell
<1>3. ASSUME NEW k \in CmConns
      PROVE  /\ MsgsIn(net0, k) \subseteq MsgsIn(cm_net', k)
             /\ \A m \in MsgsIn(cm_net', k) : m \in MsgsIn(net0, k) \/
                  (k[1] = CmCoord(t) /\ \E e \in n.calls \cup n.then : k[2] \in e.to /\ m = e.msg)
             /\ k[1] = CmCoord(t) /\ (\E e \in n.calls : k[2] \in e.to) =>
                  \E e \in n.calls : e.msg \in MsgsIn(cm_net', k)
 <2>1. /\ MsgsIn(net0, k) \subseteq MsgsIn(net1, k)
       /\ \A m \in MsgsIn(net1, k) : m \in MsgsIn(net0, k) \/
            (k[1] = CmCoord(t) /\ \E e \in n.calls : k[2] \in e.to /\ m = e.msg)
       /\ k[1] = CmCoord(t) /\ (\E e \in n.calls : k[2] \in e.to) =>
            \E e \in n.calls : k[2] \in e.to /\ e.msg \in MsgsIn(net1, k) BY <1>1, NetTold
 <2> HIDE DEF net1
 <2>2. /\ MsgsIn(net1, k) \subseteq MsgsIn(cm_net', k)
       /\ \A m \in MsgsIn(cm_net', k) : m \in MsgsIn(net1, k) \/
            (k[1] = CmCoord(t) /\ \E e \in n.then : k[2] \in e.to /\ m = e.msg)
  <3>1. cm_net' = Calls(net1, CmCoord(t), n.then) BY DEF CmTell, net1
  <3> QED BY <1>1, <1>2, <3>1, NetTold
 <2> QED BY <2>1, <2>2
<1>4. /\ cm_coord' \in [CmTxns -> CmCoordRec(l)] /\ cm_coord'[t] = n.c
      /\ \A u \in CmTxns : u # t => cm_coord'[u] = cm_coord[u] BY <1>0 DEF CmOutcome
<1>5. CmTypeInv' BY <1>0, <1>2, <1>4 DEF CmTypeInv, NetOf, CmTxns, CmAttempts, CmConns
<1>6. CmCoordsOK' BY <1>0, <1>4 DEF CmCoordsOK, CmOutcome
<1>7. /\ c.reply = "none" /\ n.c.try >= c.try /\ n.c.try \in Nat /\ c.try \in Nat
 <2>1. n.c \in CmCoordRec(l) /\ c \in CmCoordRec(l) /\ n.c.try >= c.try /\ c.reply = "none" BY <1>0 DEF CmOutcome
 <2> QED BY <2>1 DEF CmCoordRec
(* What was said of this transaction before stays true. *)
<1>8. \A i \in Nat : ~CmCommitted1(c, i) /\ (CmAborted1(c, i) => CmAborted1(n.c, i))
  BY <1>7 DEF CmCommitted1, CmAborted1
<1> HIDE DEF c
<1>9. CmCallsOK'
 <2> SUFFICES ASSUME NEW u \in CmTxns, NEW s \in CmPars, NEW m \in MsgsIn(cm_net', conn(u, s))
              PROVE CmLegal(cm_coord'[u], m, u, s) BY <1>0 DEF CmCallsOK
 <2>1. conn(u, s) \in CmConns /\ conn(u, s)[1] = CmCoord(u) /\ conn(u, s)[2] = CmSrv(s) BY <1>0, CmConnsAre
 <2>2. CASE m \in MsgsIn(net0, conn(u, s))
  <3>1. m \in MsgsIn(cm_net, conn(u, s)) BY <2>2
  <3>2. CmLegal(cm_coord[u], m, u, s) BY <1>0, <3>1 DEF CmCallsOK
  <3>3. m \in M
   <4>1. net0[conn(u, s)] \in Seq(M) BY <2>1 DEF NetOf
   <4> HIDE DEF conn, M
   <4> QED BY <2>2, <4>1 DEF MsgsIn
  <3>4. m.id[2] \in Nat BY <3>3, CmLoadIs, <1>0 DEF CmMsg, CmIds
  <3>5. CASE u = t BY <3>2, <3>4, <3>5, <1>4, <1>8 DEF CmLegal, c
  <3> QED BY <3>2, <3>5, <1>4
 <2>3. CASE CmCoord(u) = CmCoord(t) /\ \E e \in n.calls \cup n.then : CmSrv(s) \in e.to /\ m = e.msg
  <3>1. u = t BY <2>3 DEF CmCoord
  <3> QED BY <2>3, <3>1, <1>4 DEF CmOutcome
 <2> HIDE DEF conn
 <2> QED BY <1>3, <2>1, <2>2, <2>3
<1>10. CmHistOK'
 <2> SUFFICES ASSUME NEW i \in CmAttempts
              PROVE  /\ cm_hist[i].commit # {} => CmCommitted1(cm_coord'[i[1]], i[2])
                     /\ cm_hist[i].commit \subseteq cm_coord'[i[1]].parts
                     /\ cm_hist[i].abort # {} => CmAborted1(cm_coord'[i[1]], i[2]) BY <1>0 DEF CmHistOK
 <2>1. /\ cm_hist[i].commit # {} => CmCommitted1(cm_coord[i[1]], i[2])
       /\ cm_hist[i].commit \subseteq cm_coord[i[1]].parts
       /\ cm_hist[i].abort # {} => CmAborted1(cm_coord[i[1]], i[2]) BY <1>0 DEF CmHistOK
 <2>2. i[1] \in CmTxns /\ i[2] \in Nat BY <1>0 DEF CmIds, CmTxns
 <2>3. CASE i[1] = t BY <2>1, <2>2, <2>3, <1>4, <1>8 DEF c
 <2> QED BY <2>1, <2>2, <2>3, <1>4
<1>11. CmTellsAll'
 <2> SUFFICES ASSUME NEW u \in CmTxns, cm_coord'[u].reply = "SUCCESS", l.mode # "none",
                     NEW s \in cm_coord'[u].parts
              PROVE  \/ s \in cm_hist[<<u, cm_coord'[u].try>>].commit
                     \/ [type |-> "Commit", id |-> <<u, cm_coord'[u].try>>] \in MsgsIn(cm_net', conn(u, s))
   BY <1>0 DEF CmTellsAll, CmTold
 <2>0. s \in CmPars BY <1>4 DEF CmCoordRec
 <2>1. conn(u, s) \in CmConns /\ conn(u, s)[1] = CmCoord(u) /\ conn(u, s)[2] = CmSrv(s) BY <1>0, <2>0, CmConnsAre
 <2>2. CASE u = t
  <3>1. \A e \in n.calls : e.msg = [type |-> "Commit", id |-> <<u, cm_coord'[u].try>>] BY <2>2, <1>4 DEF CmOutcome
  <3>2. \E e \in n.calls : CmSrv(s) \in e.to BY <2>2, <1>4 DEF CmOutcome
  <3> HIDE DEF conn
  <3>3. \E e \in n.calls : e.msg \in MsgsIn(cm_net', conn(u, s)) BY <1>3, <2>1, <2>2, <3>2
  <3> QED BY <3>1, <3>3
 <2>3. CASE u # t
  <3>1. cm_coord'[u] = cm_coord[u] BY <2>3, <1>4
  <3>2. CmTold(u, s) BY <3>1, <1>0 DEF CmTellsAll
  <3>3. MsgsIn(cm_net, conn(u, s)) \subseteq MsgsIn(cm_net', conn(u, s)) BY <1>3, <2>0, <2>1
  <3> QED BY <3>1, <3>2, <3>3 DEF CmTold
 <2> QED BY <2>2, <2>3
<1> QED BY <1>5, <1>6, <1>9, <1>10, <1>11 DEF CmInv

(* A step that only takes calls away, or answers. *)
LEMMA CmQuietStep ==
  ASSUME CmInv, cm_net' \in [CmConns -> Seq(CmMsg(cm_load))],
         \A u \in CmTxns, s \in CmPars :
           /\ MsgsIn(cm_net', <<CmCoord(u), CmSrv(s)>>) \subseteq MsgsIn(cm_net, <<CmCoord(u), CmSrv(s)>>)
           /\ \A m \in MsgsIn(cm_net, <<CmCoord(u), CmSrv(s)>>) :
                m.type = "Commit" => m \in MsgsIn(cm_net', <<CmCoord(u), CmSrv(s)>>),
         UNCHANGED <<cm_load, cm_coord, cm_hist>>
  PROVE CmInv'
<1>0. /\ CmTypeInv /\ CmCoordsOK /\ CmCallsOK /\ CmHistOK /\ CmTellsAll /\ CmTxns' = CmTxns /\ CmAttempts' = CmAttempts
  BY DEF CmInv, CmTxns, CmAttempts
<1>1. CmTypeInv' /\ CmCoordsOK' /\ CmHistOK' BY <1>0 DEF CmTypeInv, CmCoordsOK, CmHistOK
<1>2. CmCallsOK' BY <1>0 DEF CmCallsOK
<1>3. CmTellsAll'
 <2> SUFFICES ASSUME NEW u \in CmTxns, cm_coord[u].reply = "SUCCESS", cm_load.mode # "none",
                     NEW s \in cm_coord[u].parts
              PROVE CmTold(u, s)' BY <1>0 DEF CmTellsAll
 <2>1. CmTold(u, s) /\ s \in CmPars
  <3>1. cm_coord[u] \in CmCoordRec(cm_load) BY <1>0 DEF CmTypeInv
  <3> QED BY <1>0, <3>1 DEF CmTellsAll, CmCoordRec
 <2> QED BY <2>1 DEF CmTold
<1> QED BY <1>1, <1>2, <1>3 DEF CmInv

(* A call that goes from a server to a coordinator, taken or made, leaves the calls of
   the coordinators alone. *)
LEMMA CmApart ==
  ASSUME NEW t, NEW s, NEW u, NEW v
  PROVE  <<CmSrv(s), CmCoord(t)>> # <<CmCoord(u), CmSrv(v)>> /\ CmSrv(s) # CmCoord(u)
         /\ (<<CmCoord(t), CmSrv(s)>> = <<CmCoord(u), CmSrv(v)>> => t = u /\ s = v)
BY DEF CmSrv, CmCoord

LEMMA CmDoOneInv ==
  ASSUME CmInv, NEW t \in CmTxns, CmDoOne(t)
  PROVE CmInv'
<1> DEFINE c == cm_coord[t]
           answered == {u \in CmTxns : cm_coord[u].reply = "SUCCESS"}
           b == [c EXCEPT !.started = answered]
           n == CmDispatchOf(t, b)
<1>1. cm_load \in CmLoads /\ t \in cm_load.txns /\ c \in CmCoordRec(cm_load) /\ CmCoordOK(t, c)
  BY DEF CmInv, CmTypeInv, CmCoordsOK, CmTxns
<1>2. c.phase = "init" /\ c.reply = "none" BY <1>1 DEF CmDoOne, CmCoordOK
<1>3. answered \in SUBSET cm_load.txns BY DEF CmTxns
<1>4. cm_coord' = [cm_coord EXCEPT ![t] = n.c] /\ cm_net' = CmTell(cm_net, t, n) /\ UNCHANGED <<cm_load, cm_hist>>
  BY DEF CmDoOne
<1> HIDE DEF answered
<1>5. b \in CmCoordRec(cm_load) /\ b.reply = "none" /\ b.try = c.try /\ b.out = c.out /\ b.parts = c.parts
  BY <1>1, <1>2, <1>3 DEF CmCoordRec
<1>6. CmPartsOK(t, b) BY <1>1, <1>5 DEF CmCoordOK, CmPartsOK
<1>7. b.try >= c.try BY <1>5, <1>1 DEF CmCoordRec
<1> HIDE DEF b, c
<1>8. CmOutcome(cm_load, t, c, n) BY <1>1, <1>2, <1>5, <1>6, <1>7, CmDispatchOfOK
<1>9. NetOf(cm_net, CmConns, CmMsg(cm_load)) BY DEF CmInv, CmTypeInv, NetOf
<1> HIDE DEF n
<1> QED BY <1>4, <1>8, <1>9, CmCoordStep DEF c

(* An answer that a coordinator takes. *)
LEMMA CmAnswer ==
  ASSUME CmInv, NEW t \in CmTxns, NEW s \in CmPars, NEW type,
         Receives(cm_net, <<CmSrv(s), CmCoord(t)>>, type)
  PROVE  LET k == <<CmSrv(s), CmCoord(t)>>
             net0 == Taken(cm_net, k)
         IN  /\ Head(cm_net[k]) \in CmMsg(cm_load) /\ Head(cm_net[k]).type = type
             /\ NetOf(net0, CmConns, CmMsg(cm_load))
             /\ \A u \in CmTxns, v \in CmPars :
                  MsgsIn(net0, <<CmCoord(u), CmSrv(v)>>) = MsgsIn(cm_net, <<CmCoord(u), CmSrv(v)>>)
<1> DEFINE k == <<CmSrv(s), CmCoord(t)>>
           net0 == Taken(cm_net, k)
           M == CmMsg(cm_load)
<1>1. CmTypeInv /\ CmTxns \subseteq CmAllTxns /\ NetOf(cm_net, CmConns, M) BY CmLoadIs DEF CmInv, CmTypeInv, NetOf
<1>2. k \in CmConns BY <1>1, CmConnsAre
<1>3. cm_net[k] # <<>> /\ Head(cm_net[k]).type = type BY DEF Receives
<1> HIDE DEF k, M
<1>4. NetOf(net0, CmConns, M) /\ Head(cm_net[k]) \in M /\ \A j \in CmConns : j # k => net0[j] = cm_net[j]
  BY <1>1, <1>2, <1>3, NetTook
<1> HIDE DEF net0
<1>5. ASSUME NEW u \in CmTxns, NEW v \in CmPars
      PROVE MsgsIn(net0, <<CmCoord(u), CmSrv(v)>>) = MsgsIn(cm_net, <<CmCoord(u), CmSrv(v)>>)
 <2>1. <<CmCoord(u), CmSrv(v)>> \in CmConns /\ <<CmCoord(u), CmSrv(v)>> # k BY <1>1, CmConnsAre, CmApart DEF k
 <2> QED BY <1>4, <2>1 DEF MsgsIn
<1> QED BY <1>3, <1>4, <1>5 DEF k, net0, M

LEMMA CmIgnored ==
  ASSUME CmInv, NEW t \in CmTxns, NEW s \in CmPars, NEW type,
         Receives(cm_net, <<CmSrv(s), CmCoord(t)>>, type),
         cm_net' = Taken(cm_net, <<CmSrv(s), CmCoord(t)>>), UNCHANGED <<cm_load, cm_coord, cm_hist>>
  PROVE CmInv'
<1>1. /\ NetOf(cm_net', CmConns, CmMsg(cm_load))
      /\ \A u \in CmTxns, v \in CmPars :
           MsgsIn(cm_net', <<CmCoord(u), CmSrv(v)>>) = MsgsIn(cm_net, <<CmCoord(u), CmSrv(v)>>) BY CmAnswer
<1> QED BY <1>1, CmQuietStep DEF NetOf

(* When everything that was sent has been answered and no further piece has its inputs,
   everything was sent. *)
LEMMA CmAllSent ==
  ASSUME NEW t \in CmAllTxns, NEW c, c.out \subseteq CmPieces(t), c.acked = c.out, CmReady(t, c) = {}
  PROVE c.out = CmPieces(t)
<1> SUFFICES ASSUME c.out # CmPieces(t) PROVE FALSE OBVIOUS
<1>1. PICK p \in CmPieces(t) \ c.out : CmPieceOf[p].needs \subseteq c.out BY CmAssumption
<1> QED BY <1>1 DEF CmReady

LEMMA CmDispatchAckInv ==
  ASSUME CmInv, NEW t \in CmTxns, NEW s \in CmPars, CmDispatchAck(t, s)
  PROVE CmInv'
<1> DEFINE k == <<CmSrv(s), CmCoord(t)>>
           m == Head(cm_net[k])
           c == cm_coord[t]
           l == cm_load
           aborted == c.aborted \/ m.res = "REJECT"
           acked == c.acked \cup m.pieces
           a == [c EXCEPT !.aborted = aborted, !.acked = acked]
           n == IF a.aborted
                THEN IF a.acked = a.out THEN CmDecide(t, a, FALSE) ELSE CmNoCalls(a)
                ELSE IF CmReady(t, a) # {} THEN CmDispatchOf(t, a)
                ELSE IF a.acked = a.out THEN CmPrepareOf(t, a) ELSE CmNoCalls(a)
           new == m.id = CmId(t) /\ c.phase = "dispatch"
<1>1. l \in CmLoads /\ t \in l.txns /\ c \in CmCoordRec(l) /\ CmCoordOK(t, c) /\ CmTypeInv /\ t \in CmAllTxns
  BY CmLoadIs DEF CmInv, CmTypeInv, CmCoordsOK, CmTxns
<1>2. Receives(cm_net, k, "DispatchAck") /\ UNCHANGED <<cm_load, cm_hist>> BY DEF CmDispatchAck
<1>3. /\ m \in CmMsg(l) /\ m.type = "DispatchAck"
      /\ NetOf(Taken(cm_net, k), CmConns, CmMsg(l))
      /\ \A u \in CmTxns, v \in CmPars :
           MsgsIn(Taken(cm_net, k), <<CmCoord(u), CmSrv(v)>>) = MsgsIn(cm_net, <<CmCoord(u), CmSrv(v)>>)
  BY <1>2, CmAnswer
<1>4. CASE ~new
 <2>1. cm_coord' = cm_coord /\ cm_net' = Taken(cm_net, k) BY <1>4 DEF CmDispatchAck
 <2> QED BY <1>2, <2>1, CmIgnored
<1>5. CASE new
 <2>1. cm_coord' = [cm_coord EXCEPT ![t] = n.c] /\ cm_net' = CmTell(Taken(cm_net, k), t, n) BY <1>5 DEF CmDispatchAck
 <2>2. c.phase = "dispatch" /\ c.reply = "none" BY <1>1, <1>5 DEF CmCoordOK
 <2>3. m.pieces \in CmPieceSet BY <1>3 DEF CmMsg
 <2>4. aborted \in BOOLEAN /\ acked \in CmPieceSet BY <1>1, <2>3 DEF CmCoordRec, CmPieceSet
 <2> HIDE DEF aborted, acked, m
 <2>5. a \in CmCoordRec(l) /\ a.reply = "none" /\ a.try = c.try /\ a.out = c.out /\ a.parts = c.parts /\ a.phase = "dispatch"
   BY <1>1, <2>2, <2>4 DEF CmCoordRec
 <2>6. CmCoordOK(t, a) /\ CmPartsOK(t, a) /\ a.try >= c.try
  <3>1. CmCoordOK(t, a) BY <1>1, <2>2, <2>5 DEF CmCoordOK, CmPartsOK
  <3> QED BY <3>1, <1>1, <2>5 DEF CmCoordOK, CmCoordRec
 <2> HIDE DEF a, c
 <2>7. CmOutcome(l, t, c, n)
  <3>1. CmOutcome(l, t, c, CmNoCalls(a)) BY <1>1, <2>2, <2>5, <2>6, CmStopOK
  <3>2. CmOutcome(l, t, c, CmDecide(t, a, FALSE)) BY <1>1, <2>2, <2>5, <2>6, CmDecideOK
  <3>3. CmOutcome(l, t, c, CmDispatchOf(t, a)) BY <1>1, <2>2, <2>5, <2>6, CmDispatchOfOK
  <3>4. ASSUME CmReady(t, a) = {}, a.acked = a.out PROVE CmOutcome(l, t, c, CmPrepareOf(t, a))
   <4>1. a.out = CmPieces(t) BY <1>1, <2>6, <3>4, CmAllSent DEF CmPartsOK
   <4>2. CASE l.mode = "none"
    <5> DEFINE b == [a EXCEPT !.phase = "end", !.reply = "SUCCESS"]
    <5>1. b \in CmCoordRec(l) /\ b.try = a.try /\ b.out = a.out /\ b.parts = a.parts /\ b.reply = "SUCCESS" /\ b.phase = "end"
      BY <2>5 DEF CmCoordRec
    <5>2. CmPrepareOf(t, a) = CmNoCalls(b) BY <4>2 DEF CmPrepareOf
    <5> HIDE DEF b
    <5>3. CmCoordOK(t, b) BY <4>1, <5>1, <2>6 DEF CmCoordOK, CmPartsOK
    <5> QED BY <4>2, <5>1, <5>2, <5>3, <2>2, <2>5, <2>6 DEF CmOutcome, CmNoCalls
   <4>3. CASE l.mode # "none"
    <5> DEFINE b == [a EXCEPT !.phase = "prepare"]
               msg == [type |-> "Prepare", id |-> <<t, a.try>>]
               calls == {To({CmSrv(x) : x \in a.parts}, msg)}
    <5>1. b \in CmCoordRec(l) /\ b.try = a.try /\ b.out = a.out /\ b.parts = a.parts /\ b.reply = "none" /\ b.phase = "prepare"
      BY <2>5 DEF CmCoordRec
    <5>2. CmPrepareOf(t, a) = [c |-> b, calls |-> calls, then |-> {}] BY <4>3 DEF CmPrepareOf
    <5>3. msg \in CmMsg(l) /\ msg.type = "Prepare" /\ msg.id = <<t, a.try>> BY <1>1, <2>5 DEF CmMsg, CmIds, CmCoordRec
    <5>4. \A e \in calls : e.msg = msg BY DEF To
    <5> HIDE DEF b, msg, calls
    <5>5. CmCoordOK(t, b) BY <4>1, <5>1, <2>6 DEF CmCoordOK, CmPartsOK
    <5>6. \A e \in calls : e.msg \in CmMsg(l) /\ \A v \in CmPars : CmLegal(b, e.msg, t, v) BY <5>3, <5>4 DEF CmLegal
    <5> QED BY <5>1, <5>2, <5>5, <5>6, <2>2, <2>5, <2>6 DEF CmOutcome
   <4> QED BY <4>2, <4>3
  <3> QED BY <3>1, <3>2, <3>3, <3>4
 <2> HIDE DEF n, k
 <2> QED BY <1>2, <1>3, <2>1, <2>7, CmCoordStep DEF c
<1> QED BY <1>4, <1>5

LEMMA CmPrepareAckInv ==
  ASSUME CmInv, NEW t \in CmTxns, NEW s \in CmPars, CmPrepareAck(t, s)
  PROVE CmInv'
<1> DEFINE k == <<CmSrv(s), CmCoord(t)>>
           m == Head(cm_net[k])
           c == cm_coord[t]
           l == cm_load
           aborted == c.aborted \/ m.res = "REJECT"
           votes == c.votes + 1
           a == [c EXCEPT !.aborted = aborted, !.votes = votes]
           n == IF a.votes = Cardinality(c.parts) THEN CmDecide(t, a, ~a.aborted) ELSE CmNoCalls(a)
           new == m.id = CmId(t) /\ c.phase = "prepare"
<1>1. l \in CmLoads /\ t \in l.txns /\ c \in CmCoordRec(l) /\ CmCoordOK(t, c) /\ CmTypeInv
  BY DEF CmInv, CmTypeInv, CmCoordsOK, CmTxns
<1>2. Receives(cm_net, k, "PrepareAck") /\ UNCHANGED <<cm_load, cm_hist>> BY DEF CmPrepareAck
<1>3. /\ m \in CmMsg(l) /\ m.type = "PrepareAck"
      /\ NetOf(Taken(cm_net, k), CmConns, CmMsg(l))
      /\ \A u \in CmTxns, v \in CmPars :
           MsgsIn(Taken(cm_net, k), <<CmCoord(u), CmSrv(v)>>) = MsgsIn(cm_net, <<CmCoord(u), CmSrv(v)>>)
  BY <1>2, CmAnswer
<1>4. CASE ~new
 <2>1. cm_coord' = cm_coord /\ cm_net' = Taken(cm_net, k) BY <1>4 DEF CmPrepareAck
 <2> QED BY <1>2, <2>1, CmIgnored
<1>5. CASE new
 <2>1. cm_coord' = [cm_coord EXCEPT ![t] = n.c] /\ cm_net' = CmTell(Taken(cm_net, k), t, n) BY <1>5 DEF CmPrepareAck
 <2>2. c.phase = "prepare" /\ c.reply = "none" BY <1>1, <1>5 DEF CmCoordOK
 <2>4. aborted \in BOOLEAN /\ votes \in Nat BY <1>1 DEF CmCoordRec
 <2> HIDE DEF aborted, votes, m
 <2>5. a \in CmCoordRec(l) /\ a.reply = "none" /\ a.try = c.try /\ a.out = c.out /\ a.parts = c.parts /\ a.phase = "prepare"
   BY <1>1, <2>2, <2>4 DEF CmCoordRec
 <2>6. CmCoordOK(t, a) BY <1>1, <2>2, <2>5 DEF CmCoordOK, CmPartsOK
 <2> HIDE DEF a, c
 <2>7. CmOutcome(l, t, c, n)
  <3>1. CmOutcome(l, t, c, CmNoCalls(a)) BY <1>1, <2>2, <2>5, <2>6, CmStopOK
  <3>2. (~a.aborted) \in BOOLEAN OBVIOUS
  <3>3. CmOutcome(l, t, c, CmDecide(t, a, ~a.aborted)) BY <1>1, <2>2, <2>5, <2>6, <3>2, CmDecideOK
  <3> QED BY <3>1, <3>3
 <2> HIDE DEF n, k
 <2> QED BY <1>2, <1>3, <2>1, <2>7, CmCoordStep DEF c
<1> QED BY <1>4, <1>5

(* A call that a server takes. *)
LEMMA CmServed ==
  ASSUME CmInv, NEW t \in CmTxns, NEW s \in CmPars, NEW type,
         Receives(cm_net, <<CmCoord(t), CmSrv(s)>>, type)
  PROVE  LET k == <<CmCoord(t), CmSrv(s)>>
             net0 == Taken(cm_net, k)
         IN  /\ Head(cm_net[k]) \in CmMsg(cm_load) /\ Head(cm_net[k]).type = type
             /\ CmLegal(cm_coord[t], Head(cm_net[k]), t, s)
             /\ NetOf(net0, CmConns, CmMsg(cm_load))
             /\ \A u \in CmTxns, v \in CmPars :
                  LET j == <<CmCoord(u), CmSrv(v)>>
                  IN  /\ MsgsIn(net0, j) \subseteq MsgsIn(cm_net, j)
                      /\ \A m \in MsgsIn(cm_net, j) :
                           (u = t /\ v = s /\ m = Head(cm_net[k])) \/ m \in MsgsIn(net0, j)
<1> DEFINE k == <<CmCoord(t), CmSrv(s)>>
           net0 == Taken(cm_net, k)
           M == CmMsg(cm_load)
<1>1. CmTypeInv /\ CmTxns \subseteq CmAllTxns /\ NetOf(cm_net, CmConns, M) /\ CmCallsOK
  BY CmLoadIs DEF CmInv, CmTypeInv, NetOf
<1>2. k \in CmConns BY <1>1, CmConnsAre
<1>3. cm_net[k] # <<>> /\ Head(cm_net[k]).type = type BY DEF Receives
<1> HIDE DEF k, M
<1>4. /\ NetOf(net0, CmConns, M) /\ Head(cm_net[k]) \in M /\ Head(cm_net[k]) \in MsgsIn(cm_net, k)
      /\ \A j \in CmConns : j # k => net0[j] = cm_net[j]
      /\ \A j \in CmConns : MsgsIn(net0, j) \subseteq MsgsIn(cm_net, j)
      /\ \A m \in MsgsIn(cm_net, k) : m = Head(cm_net[k]) \/ m \in MsgsIn(net0, k) BY <1>1, <1>2, <1>3, NetTook
<1> HIDE DEF net0
<1>5. ASSUME NEW u \in CmTxns, NEW v \in CmPars
      PROVE  LET j == <<CmCoord(u), CmSrv(v)>>
             IN  /\ MsgsIn(net0, j) \subseteq MsgsIn(cm_net, j)
                 /\ \A m \in MsgsIn(cm_net, j) :
                      (u = t /\ v = s /\ m = Head(cm_net[k])) \/ m \in MsgsIn(net0, j)
 <2> DEFINE j == <<CmCoord(u), CmSrv(v)>>
 <2>1. j \in CmConns /\ (j = k => u = t /\ v = s) BY <1>1, CmConnsAre, CmApart DEF k
 <2> HIDE DEF j
 <2>2. MsgsIn(net0, j) \subseteq MsgsIn(cm_net, j) BY <1>4, <2>1
 <2>3. CASE j = k BY <2>1, <2>2, <2>3, <1>4 DEF j
 <2>4. CASE j # k
  <3>1. MsgsIn(net0, j) = MsgsIn(cm_net, j) BY <1>4, <2>1, <2>4 DEF MsgsIn
  <3> QED BY <3>1 DEF j
 <2> QED BY <2>3, <2>4
<1>6. CmLegal(cm_coord[t], Head(cm_net[k]), t, s) BY <1>1, <1>4 DEF CmCallsOK, k
<1> QED BY <1>3, <1>4, <1>5, <1>6 DEF k, net0, M

LEMMA CmServerStep ==
  ASSUME CmInv, NEW t \in CmTxns, NEW s \in CmPars, NEW type, type # "Commit",
         Receives(cm_net, <<CmCoord(t), CmSrv(s)>>, type), NEW msg \in CmMsg(cm_load),
         cm_net' = Calls(Taken(cm_net, <<CmCoord(t), CmSrv(s)>>), CmSrv(s), {To({CmCoord(t)}, msg)}),
         UNCHANGED <<cm_load, cm_coord, cm_hist>>
  PROVE CmInv'
<1> DEFINE k == <<CmCoord(t), CmSrv(s)>>
           net0 == Taken(cm_net, k)
           M == CmMsg(cm_load)
           calls == {To({CmCoord(t)}, msg)}
<1>1. /\ Head(cm_net[k]).type = type /\ NetOf(net0, CmConns, M)
      /\ \A u \in CmTxns, v \in CmPars :
           LET j == <<CmCoord(u), CmSrv(v)>>
           IN  /\ MsgsIn(net0, j) \subseteq MsgsIn(cm_net, j)
               /\ \A m \in MsgsIn(cm_net, j) :
                    (u = t /\ v = s /\ m = Head(cm_net[k])) \/ m \in MsgsIn(net0, j) BY CmServed
<1>2. \A e \in calls : e.msg \in M BY DEF To
<1>3. cm_net' = Calls(net0, CmSrv(s), calls) OBVIOUS
<1>4. CmTypeInv /\ CmTxns \subseteq CmAllTxns BY CmLoadIs DEF CmInv
<1> HIDE DEF calls, net0, M, k
<1>5. NetOf(cm_net', CmConns, M) /\ \A j \in CmConns : cm_net'[j] = net0[j] \/ j[1] = CmSrv(s)
 <2>1. NetOf(net0, CmConns, M) BY <1>1
 <2> DEFINE r == Calls(net0, CmSrv(s), calls)
 <2>2. /\ NetOf(r, CmConns, M)
       /\ \A j \in CmConns :
            \/ r[j] = net0[j] /\ (j[1] = CmSrv(s) => \A e \in calls : j[2] \notin e.to)
            \/ j[1] = CmSrv(s) /\ \E e \in calls : j[2] \in e.to /\ r[j] = Append(net0[j], e.msg) BY <2>1, <1>2, NetSent
 <2> HIDE DEF r
 <2>3. \A j \in CmConns : r[j] = net0[j] \/ j[1] = CmSrv(s) BY <2>2
 <2> QED BY <1>3, <2>2, <2>3 DEF r
<1>6. ASSUME NEW u \in CmTxns, NEW v \in CmPars
      PROVE MsgsIn(cm_net', <<CmCoord(u), CmSrv(v)>>) = MsgsIn(net0, <<CmCoord(u), CmSrv(v)>>)
 <2>1. <<CmCoord(u), CmSrv(v)>> \in CmConns /\ <<CmCoord(u), CmSrv(v)>>[1] # CmSrv(s) BY <1>4, CmConnsAre, CmApart
 <2> QED BY <1>5, <2>1 DEF MsgsIn
<1> QED BY <1>1, <1>5, <1>6, CmQuietStep DEF NetOf, M

LEMMA CmOnDispatchInv ==
  ASSUME CmInv, NEW t \in CmTxns, NEW s \in CmPars, CmOnDispatch(s, t)
  PROVE CmInv'
<1> DEFINE k == <<CmCoord(t), CmSrv(s)>>
           m == Head(cm_net[k])
           ack(res) == [type |-> "DispatchAck", id |-> m.id, pieces |-> m.pieces, res |-> res]
<1>1. Receives(cm_net, k, "Dispatch") /\ UNCHANGED <<cm_load, cm_coord, cm_hist>> BY DEF CmOnDispatch
<1>2. PICK res \in {"SUCCESS", "REJECT"} :
        cm_net' = Calls(Taken(cm_net, k), CmSrv(s), {To({CmCoord(t)}, ack(res))})
 <2>1. \E res \in IF cm_load.mode = "2pl" THEN {"SUCCESS", "REJECT"} ELSE {"SUCCESS"} :
         cm_net' = Calls(Taken(cm_net, k), CmSrv(s), {To({CmCoord(t)}, ack(res))}) BY DEF CmOnDispatch
 <2> HIDE DEF ack
 <2> QED BY <2>1
<1>3. m \in CmMsg(cm_load) /\ m.type = "Dispatch" BY <1>1, CmServed
<1>4. m.id \in CmIds(cm_load) /\ m.pieces \in CmPieceSet BY <1>3 DEF CmMsg
<1> HIDE DEF m
<1>5. ack(res) \in CmMsg(cm_load) BY <1>4 DEF CmMsg
<1> HIDE DEF ack
<1> QED BY <1>1, <1>2, <1>5, CmServerStep

LEMMA CmOnPrepareInv ==
  ASSUME CmInv, NEW t \in CmTxns, NEW s \in CmPars, CmOnPrepare(s, t)
  PROVE CmInv'
<1> DEFINE k == <<CmCoord(t), CmSrv(s)>>
           m == Head(cm_net[k])
           ack(yes) == [type |-> "PrepareAck", id |-> m.id, res |-> IF yes THEN "SUCCESS" ELSE "REJECT"]
<1>1. Receives(cm_net, k, "Prepare") /\ UNCHANGED <<cm_load, cm_coord, cm_hist>> BY DEF CmOnPrepare
<1>2. \E yes : cm_net' = Calls(Taken(cm_net, k), CmSrv(s), {To({CmCoord(t)}, ack(yes))}) BY DEF CmOnPrepare
<1>3. m \in CmMsg(cm_load) /\ m.type = "Prepare" BY <1>1, CmServed
<1>4. m.id \in CmIds(cm_load) BY <1>3 DEF CmMsg
<1> HIDE DEF m
<1>5. \A yes : ack(yes) \in CmMsg(cm_load) BY <1>4 DEF CmMsg
<1> HIDE DEF ack
<1> QED BY <1>1, <1>2, <1>5, CmServerStep

LEMMA CmOnCommitInv ==
  ASSUME CmInv, NEW t \in CmTxns, NEW s \in CmPars, NEW type \in {"Commit", "Abort"}, CmOnCommit(s, t, type)
  PROVE CmInv'
<1> DEFINE k == <<CmCoord(t), CmSrv(s)>>
           i == Head(cm_net[k]).id
           l == cm_load
           c == cm_coord[t]
           com == IF type = "Commit" THEN cm_hist[i].commit \cup {s} ELSE cm_hist[i].commit
           abo == IF type = "Commit" THEN cm_hist[i].abort ELSE cm_hist[i].abort \cup {s}
<1>1. /\ Receives(cm_net, k, type) /\ cm_net' = Taken(cm_net, k) /\ UNCHANGED <<cm_load, cm_coord>> BY DEF CmOnCommit
<1>2. /\ Head(cm_net[k]) \in CmMsg(l) /\ Head(cm_net[k]).type = type
      /\ CmLegal(c, Head(cm_net[k]), t, s)
      /\ NetOf(cm_net', CmConns, CmMsg(l))
      /\ \A u \in CmTxns, v \in CmPars :
           LET j == <<CmCoord(u), CmSrv(v)>>
           IN  /\ MsgsIn(cm_net', j) \subseteq MsgsIn(cm_net, j)
               /\ \A m \in MsgsIn(cm_net, j) :
                    (u = t /\ v = s /\ m = Head(cm_net[k])) \/ m \in MsgsIn(cm_net', j) BY <1>1, CmServed
<1>3. /\ CmTypeInv /\ CmCoordsOK /\ CmCallsOK /\ CmHistOK /\ CmTellsAll /\ CmTxns' = CmTxns
      /\ CmAttempts' = CmAttempts /\ CmAttempts = CmIds(l) /\ cm_coord \in [CmTxns -> CmCoordRec(l)]
  BY <1>1, CmLoadIs DEF CmInv, CmTypeInv, CmTxns, CmAttempts
<1>4. i \in CmAttempts /\ i[1] = t /\ i = <<t, i[2]>>
 <2>1. i \in CmIds(l) /\ i[1] = t BY <1>2 DEF CmMsg, CmLegal
 <2> QED BY <2>1, <1>3 DEF CmIds
<1>5. /\ type = "Commit" => CmCommitted1(c, i[2]) /\ s \in c.parts
      /\ type = "Abort" => CmAborted1(c, i[2]) BY <1>2 DEF CmLegal
<1>6. cm_hist' = [cm_hist EXCEPT ![i].commit = com, ![i].abort = abo] BY DEF CmOnCommit
<1>7. cm_hist \in [CmAttempts -> [commit : SUBSET CmPars, abort : SUBSET CmPars]] BY <1>3 DEF CmTypeInv
<1>8. com \in SUBSET CmPars /\ abo \in SUBSET CmPars BY <1>4, <1>7
<1> HIDE DEF com, abo, i
<1>9. /\ cm_hist' \in [CmAttempts -> [commit : SUBSET CmPars, abort : SUBSET CmPars]]
      /\ cm_hist'[i].commit = com /\ cm_hist'[i].abort = abo
      /\ \A j \in CmAttempts : j # i => cm_hist'[j] = cm_hist[j] BY <1>4, <1>6, <1>7, <1>8
<1>10. CmTypeInv' BY <1>1, <1>2, <1>3, <1>9 DEF CmTypeInv, NetOf
<1>11. CmCoordsOK' BY <1>1, <1>3 DEF CmCoordsOK
<1>12. CmCallsOK'
 <2> SUFFICES ASSUME NEW u \in CmTxns, NEW v \in CmPars, NEW m \in MsgsIn(cm_net', <<CmCoord(u), CmSrv(v)>>)
              PROVE CmLegal(cm_coord[u], m, u, v) BY <1>1, <1>3 DEF CmCallsOK
 <2> QED BY <1>2, <1>3 DEF CmCallsOK
<1>13. CmHistOK'
 <2> SUFFICES ASSUME NEW j \in CmAttempts
              PROVE  /\ cm_hist'[j].commit # {} => CmCommitted1(cm_coord[j[1]], j[2])
                     /\ cm_hist'[j].commit \subseteq cm_coord[j[1]].parts
                     /\ cm_hist'[j].abort # {} => CmAborted1(cm_coord[j[1]], j[2]) BY <1>1, <1>3 DEF CmHistOK
 <2>1. /\ cm_hist[j].commit # {} => CmCommitted1(cm_coord[j[1]], j[2])
       /\ cm_hist[j].commit \subseteq cm_coord[j[1]].parts
       /\ cm_hist[j].abort # {} => CmAborted1(cm_coord[j[1]], j[2]) BY <1>3 DEF CmHistOK
 <2>2. CASE j = i BY <1>4, <1>5, <1>9, <2>1, <2>2 DEF com, abo
 <2> QED BY <1>9, <2>1, <2>2
<1>14. CmTellsAll'
 <2> SUFFICES ASSUME NEW u \in CmTxns, cm_coord[u].reply = "SUCCESS", l.mode # "none",
                     NEW v \in cm_coord[u].parts
              PROVE  \/ v \in cm_hist'[<<u, cm_coord[u].try>>].commit
                     \/ [type |-> "Commit", id |-> <<u, cm_coord[u].try>>] \in MsgsIn(cm_net', <<CmCoord(u), CmSrv(v)>>)
   BY <1>1, <1>3 DEF CmTellsAll, CmTold
 <2> DEFINE j == <<u, cm_coord[u].try>>
            m == [type |-> "Commit", id |-> j]
 <2>1. cm_coord[u] \in CmCoordRec(l) BY <1>3
 <2>2. v \in CmPars /\ j \in CmAttempts BY <1>3, <2>1 DEF CmCoordRec, CmIds, CmTxns
 <2>3. v \in cm_hist[j].commit \/ m \in MsgsIn(cm_net, <<CmCoord(u), CmSrv(v)>>) BY <1>3 DEF CmTellsAll, CmTold
 <2>4. CASE v \in cm_hist[j].commit BY <1>9, <2>2, <2>4 DEF com
 <2>5. CASE m \in MsgsIn(cm_net, <<CmCoord(u), CmSrv(v)>>)
  <3>1. CASE u = t /\ v = s /\ m = Head(cm_net[k])
   <4>1. type = "Commit" /\ j = i BY <1>2, <3>1 DEF i
   <4> QED BY <4>1, <3>1, <1>9 DEF com
  <3> HIDE DEF m
  <3> QED BY <1>2, <2>2, <2>5, <3>1 DEF m
 <2> QED BY <2>3, <2>4, <2>5
<1> QED BY <1>10, <1>11, <1>12, <1>13, <1>14 DEF CmInv

LEMMA CmInitInv == CmInit => CmInv
<1> SUFFICES ASSUME CmInit PROVE CmInv OBVIOUS
<1>1. cm_load \in CmLoads /\ cm_load.retry \in Nat /\ CmAttempts = CmIds(cm_load)
  BY CmAssumption DEF CmInit, CmAttempts, CmIds, CmTxns
<1>2. \A t \in CmTxns : /\ cm_coord[t] \in CmCoordRec(cm_load) /\ cm_coord[t].reply = "none"
                        /\ cm_coord[t].out = {} /\ cm_coord[t].parts = {} /\ cm_coord[t].phase = "init"
  BY <1>1 DEF CmInit, CmCoordRec, CmPieceSet
<1>3. \A k \in CmConns : cm_net[k] = <<>> /\ MsgsIn(cm_net, k) = {} BY DEF CmInit, MsgsIn
<1>4. CmTypeInv
 <2>1. cm_coord \in [CmTxns -> CmCoordRec(cm_load)]
  <3>1. cm_coord = [t \in CmTxns |-> cm_coord[t]] BY DEF CmInit
  <3> QED BY <1>2, <3>1
 <2>2. cm_net \in [CmConns -> Seq(CmMsg(cm_load))] BY DEF CmInit
 <2>3. cm_hist \in [CmAttempts -> [commit : SUBSET CmPars, abort : SUBSET CmPars]] BY DEF CmInit
 <2> QED BY <1>1, <2>1, <2>2, <2>3 DEF CmTypeInv
<1>5. CmCoordsOK BY <1>2 DEF CmCoordsOK, CmCoordOK, CmPartsOK
<1>6. CmCallsOK
 <2>1. CmTxns \subseteq CmAllTxns BY <1>4, CmLoadIs
 <2> QED BY <1>3, <2>1, CmConnsAre DEF CmCallsOK
<1>7. CmHistOK
 <2>1. \A i \in CmAttempts : cm_hist[i].commit = {} /\ cm_hist[i].abort = {} BY DEF CmInit
 <2> QED BY <2>1 DEF CmHistOK
<1>8. CmTellsAll BY <1>2 DEF CmTellsAll
<1> QED BY <1>4, <1>5, <1>6, <1>7, <1>8 DEF CmInv

LEMMA CmStepInv == CmInv /\ [CmNext]_commitVars => CmInv'
<1> SUFFICES ASSUME CmInv, [CmNext]_commitVars PROVE CmInv' OBVIOUS
<1>1. CASE UNCHANGED commitVars
 <2>1. UNCHANGED <<cm_load, cm_coord, cm_hist>> /\ cm_net' = cm_net BY <1>1 DEF commitVars
 <2>2. cm_net' \in [CmConns -> Seq(CmMsg(cm_load))] BY <2>1 DEF CmInv, CmTypeInv
 <2> QED BY <2>1, <2>2, CmQuietStep
<1>2. CASE CmNext
  BY <1>2, CmDoOneInv, CmDispatchAckInv, CmPrepareAckInv, CmOnDispatchInv, CmOnPrepareInv, CmOnCommitInv DEF CmNext
<1> QED BY <1>1, <1>2

LEMMA CmInvAtomic == CmInv => CmAtomic
<1> SUFFICES ASSUME CmInv, NEW t \in CmTxns, NEW n \in 0..cm_load.retry
             PROVE  /\ cm_hist[<<t, n>>].commit = {} \/ cm_hist[<<t, n>>].abort = {}
                    /\ n < cm_coord[t].try => cm_hist[<<t, n>>].commit = {}
                    /\ CmQuiet /\ cm_coord[t].reply = "SUCCESS" /\ cm_load.mode # "none" /\ n = cm_coord[t].try
                         => cm_hist[<<t, n>>].commit = {CmPieceOf[p].par : p \in CmPieces(t)} BY DEF CmAtomic
<1> DEFINE i == <<t, n>>
           c == cm_coord[t]
<1>1. CmTypeInv /\ CmCoordsOK /\ CmCallsOK /\ CmHistOK /\ CmTellsAll BY DEF CmInv
<1>2. i \in CmAttempts /\ c \in CmCoordRec(cm_load) /\ CmTxns \subseteq CmAllTxns
  BY <1>1, CmLoadIs DEF CmAttempts, CmTypeInv
<1>3. /\ cm_hist[i].commit # {} => CmCommitted1(c, n)
      /\ cm_hist[i].commit \subseteq c.parts
      /\ cm_hist[i].abort # {} => CmAborted1(c, n) BY <1>1, <1>2 DEF CmHistOK
<1>4. c.try \in Nat /\ n \in Nat BY <1>1, <1>2, CmLoadIs DEF CmCoordRec
<1>5. ASSUME CmQuiet, c.reply = "SUCCESS", cm_load.mode # "none", n = c.try
      PROVE cm_hist[i].commit = {CmPieceOf[p].par : p \in CmPieces(t)}
 <2>1. c.parts = {CmPieceOf[p].par : p \in CmPieces(t)} BY <1>1, <1>5 DEF CmCoordsOK, CmCoordOK, CmPartsOK
 <2>2. ASSUME NEW s \in c.parts PROVE s \in cm_hist[i].commit
  <3>1. CmTold(t, s) /\ s \in CmPars BY <1>1, <1>2, <1>5 DEF CmTellsAll, CmCoordRec
  <3>2. <<CmCoord(t), CmSrv(s)>> \in CmConns BY <1>2, <3>1, CmConnsAre
  <3>3. DOMAIN cm_net = CmConns BY <1>1 DEF CmTypeInv
  <3>4. cm_net[<<CmCoord(t), CmSrv(s)>>] = <<>> BY <1>5, <3>2, <3>3 DEF CmQuiet, AllHandled
  <3>5. MsgsIn(cm_net, <<CmCoord(t), CmSrv(s)>>) = {} BY <3>4 DEF MsgsIn
  <3> QED BY <1>5, <3>1, <3>5 DEF CmTold
 <2> QED BY <1>3, <2>1, <2>2
<1> HIDE DEF c, i
<1> QED BY <1>3, <1>4, <1>5 DEF CmCommitted1, CmAborted1, c, i

LEMMA CmAtomicHolds == CmSpec => []CmAtomic
<1>1. CmInit => CmInv BY CmInitInv
<1>2. CmInv /\ [CmNext]_commitVars => CmInv' BY CmStepInv
<1>3. CmInv => CmAtomic BY CmInvAtomic
<1> QED BY <1>1, <1>2, <1>3, PTL DEF CmSpec

-----
(* TAPIR. *)

TaPieceSet == SUBSET DOMAIN TaPieceOf
TaIds(l) == l.txns \X (0..l.retry)
TaVersions == SUBSET (TaRows \X Nat)
TaMsg(l) ==
  [type : {"Dispatch"}, id : TaIds(l), pieces : TaPieceSet] \cup
  [type : {"DispatchAck"}, id : TaIds(l), pieces : TaPieceSet, vers : TaVersions] \cup
  [type : {"FastAccept"}, id : TaIds(l), vers : TaVersions, pieces : TaPieceSet] \cup
  [type : {"FastAcceptAck"}, id : TaIds(l), res : {"SUCCESS", "REJECT"}] \cup
  [type : {"Decide"}, id : TaIds(l), commit : BOOLEAN]
TaCoordRec(l) ==
  [phase : {"init", "dispatch", "fast", "end"}, try : 0..l.retry, out : TaPieceSet, acked : TaPieceSet,
   vers : TaVersions, oks : SUBSET TaServers, rejects : SUBSET TaServers,
   reply : {"none", "SUCCESS", "REJECT"}, started : SUBSET l.txns]
TaExecRec == [reads : UNION {[S -> Nat] : S \in SUBSET TaRows}, upd : SUBSET TaRows, locked : SUBSET TaRows]
TaSrvRec(l) ==
  [exec : UNION {[S -> TaExecRec] : S \in SUBSET TaIds(l)}, rows : [TaRows -> Seq(TaIds(l))],
   w : [TaRows -> TaIds(l) \cup {<<>>}], r : [TaRows -> SUBSET TaIds(l)]]

TaHere(t, s) == {p \in TaPieces(t) : TaPieceOf[p].par = s}
TaWrites(t, s) == TaWritesOf(TaHere(t, s))
TaDone(c, n) == c.reply = "SUCCESS" /\ n = c.try
TaCall(t, v) == <<TaCoord(t), v>>
TaBack(t, v) == <<v, TaCoord(t)>>

(* The calls of an attempt come in the order Dispatch, FastAccept, Decide, those of the
   next attempt after them; a coordinator has come to the stage of its last call. *)
TaRank(m) == 3 * m.id[2] + (IF m.type = "Decide" THEN 2 ELSE IF m.type = "FastAccept" THEN 1 ELSE 0)
TaStage(c) == 3 * c.try + (IF c.phase = "end" THEN 2 ELSE IF c.phase = "fast" THEN 1 ELSE 0)
TaOrdered(q) ==
  \A a, b \in 1..Len(q) : a < b =>
    TaRank(q[a]) < TaRank(q[b]) \/ (TaRank(q[a]) = TaRank(q[b]) /\ q[b].type = "Dispatch")
TaUpTo(q, n) == \A a \in 1..Len(q) : TaRank(q[a]) <= n
TaSilent(q, n) == \A a \in 1..Len(q) : q[a].id[2] # n

(* A call of t's coordinator to replica v. *)
TaCallOK(c, m, t, v) ==
  /\ m.id[1] = t
  /\ m.type \in {"Dispatch", "FastAccept", "Decide"}
  /\ m.type = "Dispatch" => m.pieces \subseteq TaHere(t, v[2])
  /\ m.type = "FastAccept" => m.pieces = TaHere(t, v[2])
  /\ m.type = "Decide" => (m.commit <=> TaDone(c, m.id[2]))

(* A replica has locked what an attempt writes there. *)
TaHolds(srv, i, s) ==
  /\ i \in DOMAIN srv.exec
  /\ srv.exec[i].upd = TaWrites(i[1], s)
  /\ \A x \in TaWrites(i[1], s) : srv.w[x] = i

TaIn(i, q) == \E a \in 1..Len(q) : q[a] = i
(* The decision to commit attempt i is on its way, or has been applied. *)
TaComing(srv, q, i, s) ==
  /\ \E a \in 1..Len(q) : q[a].id[2] = i[2]
  /\ \A a \in 1..Len(q) : q[a].id[2] = i[2] => q[a].type = "Decide"
  /\ TaHolds(srv, i, s)
  /\ \A x \in TaRows : ~TaIn(i, srv.rows[x])
TaApplied(srv, q, i, s) ==
  /\ TaSilent(q, i[2])
  /\ \A x \in TaWrites(i[1], s) : TaIn(i, srv.rows[x])

(* An answer SUCCESS to FastAccept that counts. *)
TaGranted(c, back, t, v) ==
  v \in c.oks \/ \E a \in 1..Len(back) :
    back[a].type = "FastAcceptAck" /\ back[a].res = "SUCCESS" /\ back[a].id = <<t, c.try>>
TaAcks(c, back) ==
  \A a \in 1..Len(back) : back[a].type = "FastAcceptAck" => 3 * back[a].id[2] + 1 <= TaStage(c)
TaLive(c, srv, q, back, t, v) ==
  /\ c.phase = "fast" /\ TaGranted(c, back, t, v) => TaHolds(srv, <<t, c.try>>, v[2]) /\ TaSilent(q, c.try)
  /\ c.reply = "SUCCESS" /\ v[2] \in TaParsOf(TaPieces(t)) =>
       TaComing(srv, q, <<t, c.try>>, v[2]) \/ TaApplied(srv, q, <<t, c.try>>, v[2])

TaTypeInv ==
  /\ ta_load \in TaLoads
  /\ ta_coord \in [TaTxns -> TaCoordRec(ta_load)]
  /\ ta_srv \in [TaServers -> TaSrvRec(ta_load)]
  /\ ta_net \in [TaConns -> Seq(TaMsg(ta_load))]
TaCoordsOK == \A t \in TaTxns : ta_coord[t].phase # "end" => ta_coord[t].reply = "none"
TaQueuesOK ==
  \A t \in TaTxns, v \in TaServers :
    LET q == ta_net[TaCall(t, v)]
    IN  /\ TaOrdered(q) /\ TaUpTo(q, TaStage(ta_coord[t])) /\ TaAcks(ta_coord[t], ta_net[TaBack(t, v)])
        /\ \A a \in 1..Len(q) : TaCallOK(ta_coord[t], q[a], t, v)
TaLiveOK ==
  \A t \in TaTxns, v \in TaServers :
    TaLive(ta_coord[t], ta_srv[v], ta_net[TaCall(t, v)], ta_net[TaBack(t, v)], t, v)
TaServerOK(coord, srv, s) ==
  /\ \A i \in DOMAIN srv.exec : srv.exec[i].upd \subseteq TaWrites(i[1], s)
  /\ \A x \in TaRows : \A a \in 1..Len(srv.rows[x]) :
       LET i == srv.rows[x][a] IN TaDone(coord[i[1]], i[2]) /\ x \in TaWrites(i[1], s)
TaServersOK == \A v \in TaServers : TaServerOK(ta_coord, ta_srv[v], v[2])
(* Of two replicas one may be ahead by one write, whose lock the other still holds. *)
TaAhead(a, b, x) == \E i : i # <<>> /\ a.rows[x] = Append(b.rows[x], i) /\ b.w[x] = i
TaClose(a, b, x) == a.rows[x] = b.rows[x] \/ TaAhead(a, b, x) \/ TaAhead(b, a, x)
TaPairsOK ==
  \A v, u \in TaServers : v[2] = u[2] => \A x \in TaRows : TaClose(ta_srv[v], ta_srv[u], x)

TaInv == TaTypeInv /\ TaCoordsOK /\ TaQueuesOK /\ TaLiveOK /\ TaServersOK /\ TaPairsOK

LEMMA TaLoadIs ==
  ASSUME ta_load \in TaLoads
  PROVE ta_load.retry \in Nat /\ TaTxns = ta_load.txns
BY TaAssumption DEF TaTxns

LEMMA TaConnsAre ==
  ASSUME NEW t \in TaTxns, NEW v \in TaServers
  PROVE TaCall(t, v) \in TaConns /\ TaBack(t, v) \in TaConns
BY DEF TaConns, TaCall, TaBack

LEMMA TaApart ==
  ASSUME NEW t, NEW v \in TaServers, NEW u, NEW w \in TaServers
  PROVE  /\ TaCall(t, v) # TaBack(u, w) /\ TaCoord(t) # v
         /\ (TaCall(t, v) = TaCall(u, w) => t = u /\ v = w)
         /\ (TaBack(t, v) = TaBack(u, w) => t = u /\ v = w)
         /\ (TaCoord(t) = TaCoord(u) => t = u)
         /\ TaCall(t, v)[1] = TaCoord(t) /\ TaCall(t, v)[2] = v
         /\ TaBack(t, v)[1] = v /\ TaBack(t, v)[2] = TaCoord(t)
<1>1. v[1] = "srv" /\ w[1] = "srv" BY DEF TaServers
<1>2. TaCoord(t)[1] = "coord" /\ TaCoord(t)[2] = t /\ TaCoord(u)[1] = "coord" /\ TaCoord(u)[2] = u BY DEF TaCoord
<1>3. TaCoord(t) # v /\ TaCoord(t) # w BY <1>1, <1>2
<1> QED BY <1>2, <1>3 DEF TaCall, TaBack

(* All replicas of a partition that counts as many agreements as it has replicas have
   agreed. *)
LEMMA TaQuorumIsAll ==
  ASSUME NEW s \in DOMAIN TaReps, NEW S, Cardinality(S \cap TaReplicasOf(s)) >= TaFastQuorum(s)
  PROVE TaReplicasOf(s) \subseteq S
<1> DEFINE R == TaReps[s]
           T == TaReplicasOf(s)
           f == [r \in R |-> <<"srv", s, r>>]
           A == S \cap T
<1>1. IsFiniteSet(R) BY TaAssumption
<1>2. T = {<<"srv", s, r>> : r \in R} BY DEF TaReplicasOf, TaServers
<1>3. f \in Surjection(R, T) BY <1>2 DEF Surjection
<1> HIDE DEF T, f
<1>4. IsFiniteSet(T) /\ Cardinality(T) <= Cardinality(R) BY <1>1, <1>3, FS_Surjection
<1>5. IsFiniteSet(A) /\ Cardinality(A) <= Cardinality(T) /\ (Cardinality(T) = Cardinality(A) => T = A)
  BY <1>4, FS_Subset
<1>6. Cardinality(A) \in Nat /\ Cardinality(T) \in Nat /\ Cardinality(R) \in Nat BY <1>1, <1>4, <1>5, FS_CardinalityType
<1>7. Cardinality(A) >= Cardinality(R) BY DEF TaFastQuorum, T
<1> HIDE DEF A, R
<1>8. T = A BY <1>4, <1>5, <1>6, <1>7
<1> QED BY <1>8 DEF A, T

(* Servers. *)

LEMMA TaExecuteIs ==
  ASSUME TaTypeInv, NEW v \in TaServers, NEW e \in TaExecRec, NEW ps \in TaPieceSet
  PROVE  /\ TaExecute(v, e, ps) \in TaExecRec
         /\ TaExecute(v, e, ps).upd = e.upd \cup TaWritesOf(ps)
         /\ TaExecute(v, e, ps).locked = e.locked
<1> DEFINE D == DOMAIN e.reads \cup TaReadsOf(ps)
           rd == [x \in D |-> IF x \in TaReadsOf(ps) THEN TaVer(v, x) ELSE e.reads[x]]
           up == e.upd \cup TaWritesOf(ps)
<1>1. TaReadsOf(ps) \subseteq TaRows /\ TaWritesOf(ps) \subseteq TaRows BY DEF TaReadsOf, TaWritesOf, TaRows, TaPieceSet
<1>2. PICK S \in SUBSET TaRows : e.reads \in [S -> Nat] BY DEF TaExecRec
<1>3. ta_srv[v] \in TaSrvRec(ta_load) BY DEF TaTypeInv
<1>4. \A x \in TaRows : ta_srv[v].rows[x] \in Seq(TaIds(ta_load)) BY <1>3 DEF TaSrvRec
<1>5. \A x \in TaRows : TaVer(v, x) \in Nat
 <2> SUFFICES ASSUME NEW x \in TaRows PROVE TaVer(v, x) \in Nat OBVIOUS
 <2>1. ta_srv[v].rows[x] \in Seq(TaIds(ta_load)) BY <1>4
 <2> QED BY <2>1 DEF TaVer
<1>6. D \in SUBSET TaRows BY <1>1, <1>2
<1>7. rd \in [D -> Nat] BY <1>1, <1>2, <1>5
<1>8. up \in SUBSET TaRows BY <1>1 DEF TaExecRec
<1>9. TaExecute(v, e, ps) = [e EXCEPT !.reads = rd, !.upd = up] BY DEF TaExecute
<1>10. rd \in UNION {[Z -> Nat] : Z \in SUBSET TaRows} BY <1>6, <1>7
<1> HIDE DEF rd, up
<1> QED BY <1>8, <1>9, <1>10 DEF TaExecRec, up

LEMMA TaPutExecIs ==
  ASSUME NEW l, NEW srv \in TaSrvRec(l), NEW i \in TaIds(l), NEW e \in TaExecRec
  PROVE  LET r == TaPutExec(srv, i, e)
         IN  /\ r \in TaSrvRec(l) /\ r.rows = srv.rows /\ r.w = srv.w /\ r.r = srv.r
             /\ DOMAIN r.exec = DOMAIN srv.exec \cup {i} /\ r.exec[i] = e
             /\ \A j \in DOMAIN srv.exec : j # i => r.exec[j] = srv.exec[j]
<1> DEFINE D == DOMAIN srv.exec \cup {i}
           x == [j \in D |-> IF j = i THEN e ELSE srv.exec[j]]
           r == TaPutExec(srv, i, e)
<1>1. PICK S \in SUBSET TaIds(l) : srv.exec \in [S -> TaExecRec] BY DEF TaSrvRec
<1>2. D \in SUBSET TaIds(l) /\ x \in [D -> TaExecRec] BY <1>1
<1>3. x \in UNION {[Z -> TaExecRec] : Z \in SUBSET TaIds(l)} BY <1>2
<1>4. r = [srv EXCEPT !.exec = x] BY DEF TaPutExec
<1>5. DOMAIN x = D /\ x[i] = e /\ \A j \in DOMAIN srv.exec : j # i => x[j] = srv.exec[j] BY <1>1
<1> HIDE DEF x, r
<1>6. r \in TaSrvRec(l) /\ r.rows = srv.rows /\ r.w = srv.w /\ r.r = srv.r /\ r.exec = x BY <1>3, <1>4 DEF TaSrvRec
<1> QED BY <1>5, <1>6 DEF r

LEMMA TaLockIs ==
  ASSUME NEW l, NEW srv \in TaSrvRec(l), NEW i \in TaIds(l), i # <<>>, NEW e \in TaExecRec
  PROVE  LET r == TaLock(srv, i, e)
         IN  /\ r.srv \in TaSrvRec(l) /\ r.srv.rows = srv.rows
             /\ DOMAIN r.srv.exec = DOMAIN srv.exec \cup {i} /\ r.srv.exec[i].upd = e.upd
             /\ \A j \in DOMAIN srv.exec : j # i => r.srv.exec[j] = srv.exec[j]
             /\ \A x \in TaRows : srv.w[x] # <<>> => r.srv.w[x] = srv.w[x]
             /\ r.ok => \A x \in e.upd : r.srv.w[x] = i
<1> DEFINE rd == TaCanRead(srv, i, DOMAIN e.reads)
           r1 == [x \in TaRows |-> IF x \in rd /\ srv.w[x] = <<>> THEN srv.r[x] \cup {i} ELSE srv.r[x]]
           s1 == [srv EXCEPT !.r = r1]
           wr == TaCanWrite(s1, i, e.upd)
           w2 == [x \in TaRows |-> IF x \in wr THEN i ELSE s1.w[x]]
           r2 == [x \in TaRows |-> IF x \in wr THEN s1.r[x] \ {i} ELSE s1.r[x]]
           s2 == [s1 EXCEPT !.w = w2, !.r = r2]
           lk == e.locked \cup rd \cup wr
           e2 == [e EXCEPT !.locked = lk]
           r == TaLock(srv, i, e)
<1>1. srv.r \in [TaRows -> SUBSET TaIds(l)] /\ srv.w \in [TaRows -> TaIds(l) \cup {<<>>}] BY DEF TaSrvRec
<1>2. rd \subseteq TaRows BY DEF TaCanRead, TaExecRec
<1>3. r1 \in [TaRows -> SUBSET TaIds(l)] BY <1>1
<1>4. r = [srv |-> TaPutExec(s2, i, e2), ok |-> rd = DOMAIN e.reads /\ wr = e.upd] BY DEF TaLock
<1> HIDE DEF r1, rd
<1>5. s1 \in TaSrvRec(l) /\ s1.rows = srv.rows /\ s1.w = srv.w /\ s1.exec = srv.exec /\ s1.r = r1 BY <1>3 DEF TaSrvRec
<1> HIDE DEF s1
<1>6. wr \subseteq e.upd /\ wr \subseteq TaRows /\ \A x \in wr : srv.w[x] = i \/ srv.w[x] = <<>>
  BY <1>5 DEF TaCanWrite, TaExecRec
<1> HIDE DEF wr
<1>7. w2 \in [TaRows -> TaIds(l) \cup {<<>>}] /\ r2 \in [TaRows -> SUBSET TaIds(l)] BY <1>1, <1>3, <1>5
<1>8. \A x \in TaRows : (x \in wr => w2[x] = i) /\ (x \notin wr => w2[x] = srv.w[x]) BY <1>5
<1> HIDE DEF w2, r2
<1>9. s2 \in TaSrvRec(l) /\ s2.rows = srv.rows /\ s2.w = w2 /\ s2.exec = srv.exec BY <1>5, <1>7 DEF TaSrvRec
<1>10. lk \in SUBSET TaRows BY <1>2, <1>6 DEF TaExecRec
<1> HIDE DEF s2, lk
<1>11. e2 \in TaExecRec /\ e2.upd = e.upd BY <1>10 DEF TaExecRec
<1> HIDE DEF e2, r
<1>12. /\ r.srv \in TaSrvRec(l) /\ r.srv.rows = s2.rows /\ r.srv.w = s2.w
       /\ DOMAIN r.srv.exec = DOMAIN s2.exec \cup {i} /\ r.srv.exec[i] = e2
       /\ \A j \in DOMAIN s2.exec : j # i => r.srv.exec[j] = s2.exec[j] BY <1>4, <1>9, <1>11, TaPutExecIs
<1>13. r.ok => wr = e.upd BY <1>4
<1>14. \A x \in TaRows : srv.w[x] # <<>> => w2[x] = srv.w[x] BY <1>6, <1>8
<1>15. e.upd \subseteq TaRows BY DEF TaExecRec
<1> QED BY <1>6, <1>8, <1>9, <1>11, <1>12, <1>13, <1>14, <1>15 DEF r

LEMMA TaDecidedIs ==
  ASSUME NEW l, NEW srv \in TaSrvRec(l), NEW i \in TaIds(l), NEW e \in TaExecRec, NEW commit \in BOOLEAN
  PROVE  LET r == TaDecided(srv, i, e, commit)
         IN  /\ r \in TaSrvRec(l)
             /\ DOMAIN r.exec = DOMAIN srv.exec \ {i}
             /\ \A j \in DOMAIN srv.exec : j # i => r.exec[j] = srv.exec[j]
             /\ \A x \in TaRows : /\ srv.w[x] # i => r.w[x] = srv.w[x]
                                  /\ commit /\ x \in e.upd => r.rows[x] = Append(srv.rows[x], i)
                                  /\ ~(commit /\ x \in e.upd) => r.rows[x] = srv.rows[x]
<1> DEFINE rows2 == [x \in TaRows |-> IF commit /\ x \in e.upd THEN Append(srv.rows[x], i) ELSE srv.rows[x]]
           w2 == [x \in TaRows |-> IF x \in e.locked /\ srv.w[x] = i THEN <<>> ELSE srv.w[x]]
           r2 == [x \in TaRows |-> IF x \in e.locked THEN srv.r[x] \ {i} ELSE srv.r[x]]
           D == DOMAIN srv.exec \ {i}
           x2 == [j \in D |-> srv.exec[j]]
           r == TaDecided(srv, i, e, commit)
<1>1. /\ srv.r \in [TaRows -> SUBSET TaIds(l)] /\ srv.w \in [TaRows -> TaIds(l) \cup {<<>>}]
      /\ srv.rows \in [TaRows -> Seq(TaIds(l))] BY DEF TaSrvRec
<1>2. PICK S \in SUBSET TaIds(l) : srv.exec \in [S -> TaExecRec] BY DEF TaSrvRec
<1>3. \A x \in TaRows : Append(srv.rows[x], i) \in Seq(TaIds(l))
 <2> SUFFICES ASSUME NEW x \in TaRows PROVE Append(srv.rows[x], i) \in Seq(TaIds(l)) OBVIOUS
 <2>1. srv.rows[x] \in Seq(TaIds(l)) BY <1>1
 <2> QED BY <2>1
<1>4. rows2 \in [TaRows -> Seq(TaIds(l))] BY <1>1, <1>3
<1>5. w2 \in [TaRows -> TaIds(l) \cup {<<>>}] /\ r2 \in [TaRows -> SUBSET TaIds(l)] BY <1>1
<1>6. D \in SUBSET TaIds(l) /\ x2 \in [D -> TaExecRec] BY <1>2
<1>7. x2 \in UNION {[Z -> TaExecRec] : Z \in SUBSET TaIds(l)} BY <1>6
<1>8. \A x \in TaRows : /\ srv.w[x] # i => w2[x] = srv.w[x]
                        /\ commit /\ x \in e.upd => rows2[x] = Append(srv.rows[x], i)
                        /\ ~(commit /\ x \in e.upd) => rows2[x] = srv.rows[x] OBVIOUS
<1>9. DOMAIN x2 = D /\ \A j \in DOMAIN srv.exec : j # i => x2[j] = srv.exec[j] BY <1>2
<1>10. r = [srv EXCEPT !.rows = rows2, !.w = w2, !.r = r2, !.exec = x2] BY DEF TaDecided
<1> HIDE DEF rows2, w2, r2, x2, r
<1>11. r \in TaSrvRec(l) /\ r.rows = rows2 /\ r.w = w2 /\ r.exec = x2 BY <1>4, <1>5, <1>7, <1>10 DEF TaSrvRec
<1> QED BY <1>8, <1>9, <1>11 DEF r

(* Queues. *)

LEMMA TaRankIs ==
  ASSUME NEW l, l.retry \in Nat, NEW m \in TaMsg(l)
  PROVE  /\ m.id \in TaIds(l) /\ m.id[2] \in Nat /\ m.id = <<m.id[1], m.id[2]>> /\ TaRank(m) \in Nat
         /\ m.type = "Decide" => TaRank(m) = 3 * m.id[2] + 2
         /\ m.type = "FastAccept" => TaRank(m) = 3 * m.id[2] + 1
         /\ m.type = "Dispatch" => TaRank(m) = 3 * m.id[2]
         /\ 3 * m.id[2] <= TaRank(m) /\ TaRank(m) <= 3 * m.id[2] + 2
<1>1. m.id \in TaIds(l) BY DEF TaMsg
<1>2. m.id[2] \in Nat /\ m.id = <<m.id[1], m.id[2]>> BY <1>1 DEF TaIds
<1> QED BY <1>1, <1>2 DEF TaRank

LEMMA TaStageIs ==
  ASSUME NEW l, l.retry \in Nat, NEW c \in TaCoordRec(l)
  PROVE  /\ c.try \in Nat /\ TaStage(c) \in Nat /\ 3 * c.try <= TaStage(c) /\ TaStage(c) <= 3 * c.try + 2
         /\ c.phase = "end" => TaStage(c) = 3 * c.try + 2
         /\ c.phase = "fast" => TaStage(c) = 3 * c.try + 1
         /\ c.phase \in {"init", "dispatch"} => TaStage(c) = 3 * c.try
<1>1. c.try \in Nat BY DEF TaCoordRec
<1> QED BY <1>1 DEF TaStage

(* A call that may come after all calls up to rank n. *)
TaFollows(m, n) == TaRank(m) > n \/ (TaRank(m) = n /\ m.type = "Dispatch")

LEMMA TaPush ==
  ASSUME NEW l, l.retry \in Nat, NEW q \in Seq(TaMsg(l)), TaOrdered(q), NEW n \in Nat, TaUpTo(q, n),
         NEW m \in TaMsg(l), TaFollows(m, n), NEW k \in Nat, n <= k, TaRank(m) <= k
  PROVE TaOrdered(Append(q, m)) /\ TaUpTo(Append(q, m), k)
<1> DEFINE r == Append(q, m)
           z == Len(q)
<1>1. z \in Nat /\ Len(r) = z + 1 /\ r[z + 1] = m /\ \A a \in 1..z : r[a] = q[a] /\ q[a] \in TaMsg(l) OBVIOUS
<1> HIDE DEF r, z
<1>2. \A a \in 1..z : TaRank(q[a]) \in Nat /\ TaRank(q[a]) <= n BY <1>1, TaRankIs DEF TaUpTo, z
<1>3. TaRank(m) \in Nat BY TaRankIs
<1>4. \A a \in 1..z : TaRank(q[a]) < TaRank(m) \/ (TaRank(q[a]) = TaRank(m) /\ m.type = "Dispatch")
  BY <1>2, <1>3 DEF TaFollows
<1>5. \A a, b \in 1..z : a < b => TaRank(q[a]) < TaRank(q[b]) \/ (TaRank(q[a]) = TaRank(q[b]) /\ q[b].type = "Dispatch")
  BY DEF TaOrdered, z
<1>6. ASSUME NEW a \in 1..Len(r), NEW b \in 1..Len(r), a < b
      PROVE TaRank(r[a]) < TaRank(r[b]) \/ (TaRank(r[a]) = TaRank(r[b]) /\ r[b].type = "Dispatch")
 <2>1. CASE b = z + 1 BY <1>1, <1>4, <1>6, <2>1
 <2>2. CASE b # z + 1 BY <1>1, <1>5, <1>6, <2>2
 <2> QED BY <2>1, <2>2
<1>7. ASSUME NEW a \in 1..Len(r) PROVE TaRank(r[a]) <= k
 <2>1. CASE a = z + 1 BY <1>1, <2>1
 <2>2. CASE a # z + 1 BY <1>1, <1>2, <2>2
 <2> QED BY <2>1, <2>2
<1> QED BY <1>6, <1>7 DEF TaOrdered, TaUpTo, r

LEMMA TaPop ==
  ASSUME NEW l, l.retry \in Nat, NEW q \in Seq(TaMsg(l)), q # <<>>, TaOrdered(q)
  PROVE  /\ TaOrdered(Tail(q)) /\ \A n : TaUpTo(q, n) => TaUpTo(Tail(q), n)
         /\ Head(q) = q[1] /\ 1 \in 1..Len(q) /\ Head(q) \in TaMsg(l) /\ Tail(q) \in Seq(TaMsg(l))
         /\ \A a \in 1..Len(Tail(q)) : a + 1 \in 1..Len(q) /\ Tail(q)[a] = q[a + 1] /\ Tail(q)[a] \in TaMsg(l)
         /\ \A b \in 1..Len(q) : b # 1 => b - 1 \in 1..Len(Tail(q)) /\ Tail(q)[b - 1] = q[b]
         /\ \A a \in 1..Len(Tail(q)) : TaFollows(Tail(q)[a], TaRank(Head(q)))
<1> DEFINE r == Tail(q)
<1>1. /\ Len(q) \in Nat /\ Len(q) >= 1 /\ Len(r) = Len(q) - 1 /\ r \in Seq(TaMsg(l))
      /\ \A a \in 1..Len(r) : a + 1 \in 1..Len(q) /\ r[a] = q[a + 1] /\ r[a] \in TaMsg(l)
      /\ Head(q) = q[1] /\ Head(q) \in TaMsg(l) OBVIOUS
<1> HIDE DEF r
<1>2. TaOrdered(r)
 <2>1. ASSUME NEW a \in 1..Len(r), NEW b \in 1..Len(r), a < b
       PROVE TaRank(r[a]) < TaRank(r[b]) \/ (TaRank(r[a]) = TaRank(r[b]) /\ r[b].type = "Dispatch")
  <3>1. a + 1 \in 1..Len(q) /\ b + 1 \in 1..Len(q) /\ a + 1 < b + 1 /\ r[a] = q[a + 1] /\ r[b] = q[b + 1] BY <1>1, <2>1
  <3>2. TaRank(q[a + 1]) < TaRank(q[b + 1]) \/ (TaRank(q[a + 1]) = TaRank(q[b + 1]) /\ q[b + 1].type = "Dispatch")
    BY <3>1 DEF TaOrdered
  <3> QED BY <3>1, <3>2
 <2> QED BY <2>1 DEF TaOrdered
<1>3. \A n : TaUpTo(q, n) => TaUpTo(r, n) BY <1>1 DEF TaUpTo
<1>4. ASSUME NEW a \in 1..Len(r) PROVE TaFollows(r[a], TaRank(q[1]))
 <2>1. 1 \in 1..Len(q) /\ a + 1 \in 1..Len(q) /\ 1 < a + 1 /\ r[a] = q[a + 1] /\ r[a] \in TaMsg(l) /\ q[1] \in TaMsg(l)
   BY <1>1
 <2>2. TaRank(q[1]) < TaRank(r[a]) \/ (TaRank(q[1]) = TaRank(r[a]) /\ r[a].type = "Dispatch") BY <2>1 DEF TaOrdered
 <2>3. TaRank(q[1]) \in Nat /\ TaRank(r[a]) \in Nat BY <2>1, TaRankIs
 <2> QED BY <2>2, <2>3 DEF TaFollows
<1>5. \A b \in 1..Len(q) : b # 1 => b - 1 \in 1..Len(r) /\ r[b - 1] = q[b] BY <1>1
<1> QED BY <1>1, <1>2, <1>3, <1>4, <1>5 DEF r

(* After FastAccept, as long as the coordinator waits for the answers, and after Decide
   there is no further call of the attempt. *)
LEMMA TaLastCall ==
  ASSUME NEW l, l.retry \in Nat, NEW q \in Seq(TaMsg(l)), q # <<>>, TaOrdered(q), NEW n \in Nat, TaUpTo(q, n),
         \/ Head(q).type = "Decide"
         \/ Head(q).type = "FastAccept" /\ n = 3 * Head(q).id[2] + 1
  PROVE TaSilent(Tail(q), Head(q).id[2])
<1> DEFINE m == Head(q)
           r == Tail(q)
<1>1. /\ m \in TaMsg(l) /\ TaUpTo(r, n)
      /\ \A a \in 1..Len(r) : r[a] \in TaMsg(l) /\ TaFollows(r[a], TaRank(m)) BY TaPop
<1> HIDE DEF m, r
<1> SUFFICES ASSUME NEW a \in 1..Len(r), r[a].id[2] = m.id[2] PROVE FALSE BY DEF TaSilent, m, r
<1> DEFINE p == r[a]
<1>2. p \in TaMsg(l) /\ TaFollows(p, TaRank(m)) /\ TaRank(p) <= n BY <1>1 DEF TaUpTo
<1> HIDE DEF p
<1>3. /\ p.id[2] \in Nat /\ TaRank(p) \in Nat /\ TaRank(p) <= 3 * p.id[2] + 2
      /\ (p.type = "Dispatch" => TaRank(p) = 3 * p.id[2]) BY <1>2, TaRankIs
<1>4. /\ m.id[2] \in Nat /\ TaRank(m) \in Nat
      /\ (m.type = "Decide" => TaRank(m) = 3 * m.id[2] + 2) /\ (m.type = "FastAccept" => TaRank(m) = 3 * m.id[2] + 1)
  BY <1>1, TaRankIs
<1>5. p.id[2] = m.id[2] BY DEF p
<1>6. CASE m.type = "Decide" BY <1>2, <1>3, <1>4, <1>5, <1>6 DEF TaFollows
<1>7. CASE m.type = "FastAccept" /\ n = 3 * m.id[2] + 1 BY <1>2, <1>3, <1>4, <1>5, <1>7 DEF TaFollows
<1> QED BY <1>6, <1>7 DEF m

(* What a step of t's coordinator c may come to. *)
TaOutcome(l, t, c, n) ==
  /\ c.reply = "none"
  /\ n.c \in TaCoordRec(l)
  /\ n.c.phase # "end" => n.c.reply = "none"
  /\ n.c.try >= c.try
  /\ n.c.phase = "fast" => /\ n.c.try = c.try
                           /\ \/ c.phase = "fast" /\ n.calls = {} /\ n.then = {}
                              \/ c.phase = "dispatch" /\ n.c.oks = {}
  /\ n.c.reply = "SUCCESS" =>
       /\ c.phase = "fast" /\ n.c.try = c.try /\ n.then = {}
       /\ \A e \in n.calls : e.msg.type = "Decide" /\ e.msg.id = <<t, c.try>>
       /\ \A v \in TaServers : v[2] \in TaParsOf(TaPieces(t)) => \E e \in n.calls : v \in e.to
  /\ \A e \in n.calls \cup n.then :
       /\ e.msg \in TaMsg(l)
       /\ \A v \in TaServers : v \in e.to => TaCallOK(n.c, e.msg, t, v)
  /\ \E k \in Nat :
       /\ TaStage(c) <= k /\ k <= TaStage(n.c)
       /\ \A e \in n.calls : TaFollows(e.msg, TaStage(c)) /\ TaRank(e.msg) <= k
       /\ \A e \in n.then : TaFollows(e.msg, k) /\ TaRank(e.msg) <= TaStage(n.c)

(* A queue that got at most one call. *)
TaGrew(q, r, calls, d) ==
  \/ r = q /\ \A e \in calls : d \notin e.to
  \/ \E e \in calls : d \in e.to /\ r = Append(q, e.msg)

(* Calls up to rank k are added to queue q, whose calls go up to rank n. *)
TaGrowth(l, q, n, k, calls, r, d) ==
  /\ l.retry \in Nat /\ q \in Seq(TaMsg(l)) /\ TaOrdered(q) /\ n \in Nat /\ TaUpTo(q, n)
  /\ k \in Nat /\ n <= k /\ TaGrew(q, r, calls, d)
  /\ \A e \in calls : e.msg \in TaMsg(l) /\ TaFollows(e.msg, n) /\ TaRank(e.msg) <= k

LEMMA TaGrewOK ==
  ASSUME NEW l, NEW q, NEW n, NEW k, NEW calls, NEW r, NEW d, TaGrowth(l, q, n, k, calls, r, d)
  PROVE  /\ r \in Seq(TaMsg(l)) /\ TaOrdered(r) /\ TaUpTo(r, k)
         /\ \A a \in 1..Len(q) : a \in 1..Len(r) /\ r[a] = q[a]
         /\ \A a \in 1..Len(r) : a \in 1..Len(q) \/ \E e \in calls : d \in e.to /\ r[a] = e.msg
<1> /\ l.retry \in Nat /\ q \in Seq(TaMsg(l)) /\ TaOrdered(q) /\ n \in Nat /\ TaUpTo(q, n)
    /\ k \in Nat /\ n <= k /\ TaGrew(q, r, calls, d)
    /\ \A e \in calls : e.msg \in TaMsg(l) /\ TaFollows(e.msg, n) /\ TaRank(e.msg) <= k BY DEF TaGrowth
<1>1. CASE r = q
 <2>1. \A a \in 1..Len(q) : TaRank(q[a]) \in Nat
  <3> SUFFICES ASSUME NEW a \in 1..Len(q) PROVE TaRank(q[a]) \in Nat OBVIOUS
  <3>1. q[a] \in TaMsg(l) OBVIOUS
  <3> QED BY <3>1, TaRankIs
 <2>2. TaUpTo(q, k) BY <2>1 DEF TaUpTo
 <2> QED BY <1>1, <2>2
<1>2. CASE \E e \in calls : d \in e.to /\ r = Append(q, e.msg)
 <2>1. PICK e \in calls : d \in e.to /\ r = Append(q, e.msg) BY <1>2
 <2> DEFINE m == e.msg
 <2>2. m \in TaMsg(l) /\ TaFollows(m, n) /\ TaRank(m) <= k OBVIOUS
 <2> HIDE DEF m
 <2>3. r = Append(q, m) BY <2>1 DEF m
 <2>4. TaOrdered(r) /\ TaUpTo(r, k) BY <2>2, <2>3, TaPush
 <2>5. r \in Seq(TaMsg(l)) /\ Len(r) = Len(q) + 1 /\ r[Len(q) + 1] = m /\ Len(q) \in Nat /\ \A a \in 1..Len(q) : r[a] = q[a]
   BY <2>2, <2>3
 <2>6. \A a \in 1..Len(r) : a \in 1..Len(q) \/ r[a] = m BY <2>5
 <2>7. \A a \in 1..Len(q) : a \in 1..Len(r) /\ r[a] = q[a] BY <2>5
 <2> QED BY <2>1, <2>4, <2>5, <2>6, <2>7 DEF m
<1> QED BY <1>1, <1>2 DEF TaGrew

LEMMA TaCoordStep ==
  ASSUME TaInv, NEW t \in TaTxns, NEW n, TaOutcome(ta_load, t, ta_coord[t], n),
         NEW net0, NetOf(net0, TaConns, TaMsg(ta_load)),
         \A u \in TaTxns, v \in TaServers :
           /\ net0[TaCall(u, v)] = ta_net[TaCall(u, v)]
           /\ \A a \in 1..Len(net0[TaBack(u, v)]) :
                \E b \in 1..Len(ta_net[TaBack(u, v)]) : net0[TaBack(u, v)][a] = ta_net[TaBack(u, v)][b],
         NEW G,
         \A v \in G : TaHolds(ta_srv[v], <<t, ta_coord[t].try>>, v[2]) /\
                      TaSilent(ta_net[TaCall(t, v)], ta_coord[t].try),
         ta_coord[t].phase = "fast" /\ n.c.phase = "fast" => n.c.oks \subseteq G,
         n.c.reply = "SUCCESS" => \A v \in TaServers : v[2] \in TaParsOf(TaPieces(t)) => v \in G,
         ta_coord' = [ta_coord EXCEPT ![t] = n.c], ta_net' = TaTell(net0, t, n), UNCHANGED <<ta_load, ta_srv>>
  PROVE TaInv'
<1> DEFINE l == ta_load
           M == TaMsg(l)
           c == ta_coord[t]
           d == n.c
           net1 == Calls(net0, TaCoord(t), n.calls)
<1>0. /\ TaTypeInv /\ TaCoordsOK /\ TaQueuesOK /\ TaLiveOK /\ TaServersOK /\ TaPairsOK
      /\ l.retry \in Nat /\ TaTxns = l.txns /\ TaTxns' = TaTxns /\ TaConns' = TaConns
      /\ ta_coord \in [TaTxns -> TaCoordRec(l)] /\ ta_srv \in [TaServers -> TaSrvRec(l)]
      /\ ta_net \in [TaConns -> Seq(M)] BY TaLoadIs DEF TaInv, TaTypeInv, TaTxns, TaConns
<1>1. /\ ta_coord' \in [TaTxns -> TaCoordRec(l)] /\ ta_coord'[t] = d
      /\ \A u \in TaTxns : u # t => ta_coord'[u] = ta_coord[u]
      /\ c \in TaCoordRec(l) /\ d \in TaCoordRec(l) BY <1>0 DEF TaOutcome
<1>2. \A e \in n.calls \cup n.then : e.msg \in M BY DEF TaOutcome
<1>3. /\ NetOf(net1, TaConns, M) /\ NetOf(ta_net', TaConns, M)
      /\ \A k \in TaConns : k[1] = TaCoord(t) => TaGrew(net0[k], net1[k], n.calls, k[2])
      /\ \A k \in TaConns : k[1] = TaCoord(t) => TaGrew(net1[k], ta_net'[k], n.then, k[2])
      /\ \A k \in TaConns : k[1] # TaCoord(t) => ta_net'[k] = net0[k]
 <2>1. /\ NetOf(net1, TaConns, M)
       /\ \A k \in TaConns :
            \/ net1[k] = net0[k] /\ (k[1] = TaCoord(t) => \A e \in n.calls : k[2] \notin e.to)
            \/ k[1] = TaCoord(t) /\ \E e \in n.calls : k[2] \in e.to /\ net1[k] = Append(net0[k], e.msg)
   BY <1>2, NetSent
 <2> HIDE DEF net1
 <2>2. ta_net' = Calls(net1, TaCoord(t), n.then) BY DEF TaTell, net1
 <2> DEFINE net2 == Calls(net1, TaCoord(t), n.then)
 <2>3. /\ NetOf(net2, TaConns, M)
       /\ \A k \in TaConns :
            \/ net2[k] = net1[k] /\ (k[1] = TaCoord(t) => \A e \in n.then : k[2] \notin e.to)
            \/ k[1] = TaCoord(t) /\ \E e \in n.then : k[2] \in e.to /\ net2[k] = Append(net1[k], e.msg)
   BY <1>2, <2>1, NetSent
 <2> HIDE DEF net2
 <2>4. ta_net' = net2 BY <2>2 DEF net2
 <2>5. \A k \in TaConns : k[1] = TaCoord(t) => TaGrew(net0[k], net1[k], n.calls, k[2]) BY <2>1 DEF TaGrew
 <2>6. \A k \in TaConns : k[1] = TaCoord(t) => TaGrew(net1[k], net2[k], n.then, k[2]) BY <2>3 DEF TaGrew
 <2>7. \A k \in TaConns : k[1] # TaCoord(t) => net2[k] = net0[k] BY <2>1, <2>3
 <2> QED BY <2>1, <2>3, <2>4, <2>5, <2>6, <2>7
<1> HIDE DEF net1
<1>4. PICK z \in Nat :
        /\ TaStage(c) <= z /\ z <= TaStage(d)
        /\ \A e \in n.calls : TaFollows(e.msg, TaStage(c)) /\ TaRank(e.msg) <= z
        /\ \A e \in n.then : TaFollows(e.msg, z) /\ TaRank(e.msg) <= TaStage(d) BY DEF TaOutcome
<1>5. /\ TaStage(c) \in Nat /\ TaStage(d) \in Nat /\ c.try \in Nat /\ d.try \in Nat /\ TaStage(c) <= TaStage(d)
      /\ c.phase = "fast" => TaStage(c) = 3 * c.try + 1
      /\ c.phase \in {"init", "dispatch"} => TaStage(c) = 3 * c.try
      /\ c.reply = "none" /\ d.try >= c.try
 <2>1. c.reply = "none" /\ d.try >= c.try BY DEF TaOutcome
 <2>2. TaStage(c) \in Nat /\ TaStage(d) \in Nat /\ c.try \in Nat /\ d.try \in Nat
       /\ (c.phase = "fast" => TaStage(c) = 3 * c.try + 1) /\ (c.phase \in {"init", "dispatch"} => TaStage(c) = 3 * c.try)
   BY <1>0, <1>1, TaStageIs
 <2> QED BY <2>1, <2>2, <1>4
<1>6. TaTypeInv' BY <1>0, <1>1, <1>3 DEF TaTypeInv, NetOf
<1>7. TaCoordsOK' BY <1>0, <1>1 DEF TaCoordsOK, TaOutcome
(* The queue of this coordinator to a replica. *)
<1>8. ASSUME NEW v \in TaServers
      PROVE  LET q == ta_net[TaCall(t, v)]
                 r == ta_net'[TaCall(t, v)]
             IN  /\ TaOrdered(r) /\ TaUpTo(r, TaStage(d))
                 /\ \A a \in 1..Len(q) : a \in 1..Len(r) /\ r[a] = q[a]
                 /\ \A a \in 1..Len(r) : a \in 1..Len(q) \/
                      \E e \in n.calls \cup n.then : v \in e.to /\ r[a] = e.msg
                 /\ (n.calls = {} /\ n.then = {} => r = q)
                 /\ (\E e \in n.calls : v \in e.to) =>
                       \E a \in 1..Len(r) : \E e \in n.calls : v \in e.to /\ r[a] = e.msg
 <2> DEFINE k == TaCall(t, v)
            q == ta_net[k]
            p == net1[k]
            r == ta_net'[k]
 <2>1. k \in TaConns /\ k[1] = TaCoord(t) /\ k[2] = v /\ net0[k] = q BY TaConnsAre DEF TaCall
 <2>2. TaGrew(q, p, n.calls, v) /\ TaGrew(p, r, n.then, v) BY <1>3, <2>1
 <2>3. q \in Seq(M) /\ p \in Seq(M) /\ r \in Seq(M) /\ TaOrdered(q) /\ TaUpTo(q, TaStage(c))
   BY <1>0, <1>3, <2>1 DEF NetOf, TaQueuesOK
 <2> HIDE DEF k, q, p, r
 <2>4. /\ TaOrdered(p) /\ TaUpTo(p, z) /\ \A a \in 1..Len(q) : a \in 1..Len(p) /\ p[a] = q[a]
       /\ \A a \in 1..Len(p) : a \in 1..Len(q) \/ \E e \in n.calls : v \in e.to /\ p[a] = e.msg
  <3>1. \A e \in n.calls : e.msg \in TaMsg(l) /\ TaFollows(e.msg, TaStage(c)) /\ TaRank(e.msg) <= z BY <1>2, <1>4
  <3>2. TaGrowth(l, q, TaStage(c), z, n.calls, p, v) BY <1>0, <1>4, <1>5, <2>2, <2>3, <3>1 DEF TaGrowth
  <3> QED BY <3>2, TaGrewOK
 <2>5. /\ TaOrdered(r) /\ TaUpTo(r, TaStage(d)) /\ \A a \in 1..Len(p) : a \in 1..Len(r) /\ r[a] = p[a]
       /\ \A a \in 1..Len(r) : a \in 1..Len(p) \/ \E e \in n.then : v \in e.to /\ r[a] = e.msg
  <3>1. \A e \in n.then : e.msg \in TaMsg(l) /\ TaFollows(e.msg, z) /\ TaRank(e.msg) <= TaStage(d) BY <1>2, <1>4
  <3>2. TaGrowth(l, p, z, TaStage(d), n.then, r, v) BY <1>0, <1>4, <1>5, <2>2, <2>3, <2>4, <3>1 DEF TaGrowth
  <3> QED BY <3>2, TaGrewOK
 <2>6. \A a \in 1..Len(r) : a \in 1..Len(q) \/ \E e \in n.calls \cup n.then : v \in e.to /\ r[a] = e.msg BY <2>4, <2>5
 <2>7. \A a \in 1..Len(q) : a \in 1..Len(r) /\ r[a] = q[a] BY <2>4, <2>5
 <2>8. n.calls = {} /\ n.then = {} => r = q BY <2>2 DEF TaGrew
 <2>9. ASSUME \E e \in n.calls : v \in e.to PROVE \E a \in 1..Len(r) : \E e \in n.calls : v \in e.to /\ r[a] = e.msg
  <3>1. PICK e \in n.calls : v \in e.to /\ p = Append(q, e.msg) BY <2>2, <2>9 DEF TaGrew
  <3> DEFINE m == e.msg
  <3>2. m \in M BY <1>2
  <3> HIDE DEF m
  <3>3. p = Append(q, m) BY <3>1 DEF m
  <3>4. Len(q) + 1 \in 1..Len(p) /\ p[Len(q) + 1] = m BY <2>3, <3>2, <3>3
  <3>5. Len(q) + 1 \in 1..Len(r) /\ r[Len(q) + 1] = m BY <2>5, <3>4
  <3> QED BY <3>1, <3>5 DEF m
 <2> QED BY <2>5, <2>6, <2>7, <2>8, <2>9 DEF q, r, k
(* Everything else is as it was, apart from answers that were taken. *)
<1>9. ASSUME NEW u \in TaTxns, NEW v \in TaServers
      PROVE  /\ u # t => ta_net'[TaCall(u, v)] = ta_net[TaCall(u, v)]
             /\ \A a \in 1..Len(ta_net'[TaBack(u, v)]) :
                  \E b \in 1..Len(ta_net[TaBack(u, v)]) : ta_net'[TaBack(u, v)][a] = ta_net[TaBack(u, v)][b]
 <2>1. /\ TaCall(u, v) \in TaConns /\ TaBack(u, v) \in TaConns
       /\ TaCall(u, v)[1] = TaCoord(u) /\ TaBack(u, v)[1] = v /\ TaCoord(t) # v /\ (TaCoord(t) = TaCoord(u) => t = u)
   BY TaConnsAre, TaApart
 <2>2. ta_net'[TaBack(u, v)] = net0[TaBack(u, v)] /\ (u # t => ta_net'[TaCall(u, v)] = net0[TaCall(u, v)]) BY <1>3, <2>1
 <2> QED BY <2>2
<1>10. ASSUME NEW v \in TaServers, NEW a \in 1..Len(ta_net'[TaCall(t, v)])
       PROVE TaCallOK(d, ta_net'[TaCall(t, v)][a], t, v)
 <2> DEFINE q == ta_net[TaCall(t, v)]
            r == ta_net'[TaCall(t, v)]
 <2>1. CASE \E e \in n.calls \cup n.then : v \in e.to /\ r[a] = e.msg BY <2>1 DEF TaOutcome
 <2>2. CASE a \in 1..Len(q)
  <3> DEFINE m == q[a]
  <3>1. r[a] = m BY <1>8, <2>2
  <3>2. TaCallOK(c, m, t, v) /\ TaRank(m) <= TaStage(c) BY <1>0, <2>2 DEF TaQueuesOK, TaUpTo
  <3>3. m \in M
   <4>1. q \in Seq(M) BY <1>0, TaConnsAre
   <4> HIDE DEF q
   <4> QED BY <2>2, <4>1
  <3> HIDE DEF m, q, r
  <3>4. m.id[2] \in Nat /\ TaRank(m) \in Nat /\ (m.type = "Decide" => TaRank(m) = 3 * m.id[2] + 2)
    BY <1>0, <3>3, TaRankIs
  <3>5. ~TaDone(c, m.id[2]) BY <1>5 DEF TaDone
  <3>6. m.type = "Decide" => ~TaDone(d, m.id[2])
   <4> SUFFICES ASSUME m.type = "Decide", d.reply = "SUCCESS", m.id[2] = d.try PROVE FALSE BY DEF TaDone
   <4>1. c.phase = "fast" /\ d.try = c.try BY DEF TaOutcome
   <4> HIDE DEF c, d
   <4> QED BY <4>1, <3>2, <3>4, <1>5
  <3> HIDE DEF c, d
  <3>7. TaCallOK(d, m, t, v) BY <3>2, <3>5, <3>6 DEF TaCallOK
  <3> QED BY <3>1, <3>7 DEF r
 <2> QED BY <1>8, <2>1, <2>2
<1>11. ASSUME NEW u \in TaTxns, NEW v \in TaServers PROVE TaAcks(ta_coord'[u], ta_net'[TaBack(u, v)])
 <2> SUFFICES ASSUME NEW a \in 1..Len(ta_net'[TaBack(u, v)]), ta_net'[TaBack(u, v)][a].type = "FastAcceptAck"
              PROVE 3 * ta_net'[TaBack(u, v)][a].id[2] + 1 <= TaStage(ta_coord'[u]) BY DEF TaAcks
 <2>1. PICK b \in 1..Len(ta_net[TaBack(u, v)]) : ta_net'[TaBack(u, v)][a] = ta_net[TaBack(u, v)][b] BY <1>9
 <2> DEFINE m == ta_net[TaBack(u, v)][b]
 <2>2. m.type = "FastAcceptAck" /\ 3 * m.id[2] + 1 <= TaStage(ta_coord[u]) BY <1>0, <2>1 DEF TaQueuesOK, TaAcks
 <2>3. m \in M
  <3>1. ta_net[TaBack(u, v)] \in Seq(M) BY <1>0, TaConnsAre
  <3> QED BY <3>1
 <2> HIDE DEF m
 <2>4. m.id[2] \in Nat BY <1>0, <2>3, TaRankIs
 <2>5. CASE u = t
  <3> HIDE DEF c, d
  <3>1. ta_coord[u] = c /\ ta_coord'[u] = d BY <1>1, <2>5 DEF c
  <3> QED BY <1>5, <2>1, <2>2, <2>4, <3>1 DEF m
 <2>6. CASE u # t BY <1>1, <2>1, <2>2, <2>6 DEF m
 <2> QED BY <2>5, <2>6
<1>12. TaQueuesOK'
 <2> SUFFICES ASSUME NEW u \in TaTxns, NEW v \in TaServers
              PROVE  LET q == ta_net'[TaCall(u, v)]
                     IN  /\ TaOrdered(q) /\ TaUpTo(q, TaStage(ta_coord'[u])) /\ TaAcks(ta_coord'[u], ta_net'[TaBack(u, v)])
                         /\ \A a \in 1..Len(q) : TaCallOK(ta_coord'[u], q[a], u, v)
   BY <1>0 DEF TaQueuesOK, TaCall, TaBack, TaCoord
 <2>1. TaAcks(ta_coord'[u], ta_net'[TaBack(u, v)]) BY <1>11
 <2>2. CASE u = t BY <1>1, <1>8, <1>10, <2>1, <2>2
 <2>3. CASE u # t
  <3>1. ta_coord'[u] = ta_coord[u] /\ ta_net'[TaCall(u, v)] = ta_net[TaCall(u, v)] BY <1>1, <1>9, <2>3
  <3> QED BY <1>0, <2>1, <3>1 DEF TaQueuesOK
 <2> QED BY <2>2, <2>3
<1>13. ASSUME NEW v \in TaServers, NEW x \in TaRows PROVE ~TaIn(<<t, c.try>>, ta_srv[v].rows[x])
 <2> SUFFICES ASSUME NEW a \in 1..Len(ta_srv[v].rows[x]), ta_srv[v].rows[x][a] = <<t, c.try>> PROVE FALSE BY DEF TaIn
 <2>1. TaDone(ta_coord[t], c.try) BY <1>0 DEF TaServersOK, TaServerOK
 <2> QED BY <1>5, <2>1 DEF TaDone
<1>14. TaLiveOK'
 <2> SUFFICES ASSUME NEW u \in TaTxns, NEW v \in TaServers
              PROVE TaLive(ta_coord'[u], ta_srv[v], ta_net'[TaCall(u, v)], ta_net'[TaBack(u, v)], u, v)
   BY <1>0 DEF TaLiveOK, TaCall, TaBack, TaCoord
 <2> DEFINE q == ta_net[TaCall(u, v)]
            r == ta_net'[TaCall(u, v)]
            back == ta_net[TaBack(u, v)]
            back2 == ta_net'[TaBack(u, v)]
 <2>1. TaLive(ta_coord[u], ta_srv[v], q, back, u, v) BY <1>0 DEF TaLiveOK
 <2>2. \A a \in 1..Len(back2) : \E b \in 1..Len(back) : back2[a] = back[b] BY <1>9
 <2>3. CASE u # t
  <3>1. ta_coord'[u] = ta_coord[u] /\ r = q BY <1>1, <1>9, <2>3
  <3> HIDE DEF q, r, back, back2
  <3>2. TaGranted(ta_coord[u], back2, u, v) => TaGranted(ta_coord[u], back, u, v) BY <2>2 DEF TaGranted
  <3>3. TaLive(ta_coord[u], ta_srv[v], q, back2, u, v) BY <2>1, <3>2 DEF TaLive
  <3> QED BY <3>1, <3>3 DEF r, back2
 <2>4. CASE u = t
  <3>0. ta_coord'[u] = d /\ ta_coord[u] = c BY <1>1, <2>4
  <3>1. ASSUME d.phase = "fast", TaGranted(d, back2, t, v)
        PROVE TaHolds(ta_srv[v], <<t, d.try>>, v[2]) /\ TaSilent(r, d.try)
   <4>1. d.try = c.try BY <3>1 DEF TaOutcome
   <4>2. CASE c.phase = "fast" /\ n.calls = {} /\ n.then = {}
    <5>1. r = q BY <1>8, <2>4, <4>2
    <5>2. CASE v \in d.oks
     <6>1. v \in G BY <3>1, <4>2, <5>2
     <6> QED BY <2>4, <4>1, <5>1, <6>1
    <5>3. CASE v \notin d.oks
     <6>1. TaGranted(c, back, t, v)
      <7> HIDE DEF back, back2, c, d
      <7> QED BY <2>2, <3>1, <4>1, <5>3 DEF TaGranted
     <6> HIDE DEF q, r, back, back2, d, c
     <6> QED BY <2>1, <2>4, <3>0, <4>1, <4>2, <5>1, <6>1 DEF TaLive
    <5> QED BY <5>2, <5>3
   <4>3. CASE c.phase = "dispatch" /\ d.oks = {}
    <5>1. PICK b \in 1..Len(back) : back[b].type = "FastAcceptAck" /\ back[b].id = <<t, c.try>>
     <6> HIDE DEF back, back2, c, d
     <6> QED BY <2>2, <3>1, <4>1, <4>3 DEF TaGranted
    <5>2. TaAcks(c, back) BY <1>0, <2>4 DEF TaQueuesOK
    <5> HIDE DEF back, c
    <5>3. 3 * c.try + 1 <= TaStage(c) BY <5>1, <5>2 DEF TaAcks
    <5> QED BY <1>5, <4>3, <5>3
   <4> QED BY <3>1, <4>2, <4>3 DEF TaOutcome
  <3>2. ASSUME d.reply = "SUCCESS", v[2] \in TaParsOf(TaPieces(t)) PROVE TaComing(ta_srv[v], r, <<t, d.try>>, v[2])
   <4>1. /\ c.phase = "fast" /\ d.try = c.try /\ n.then = {}
         /\ \A e \in n.calls : e.msg.type = "Decide" /\ e.msg.id = <<t, c.try>>
         /\ \E e \in n.calls : v \in e.to BY <3>2 DEF TaOutcome
   <4>2. TaHolds(ta_srv[v], <<t, c.try>>, v[2]) /\ TaSilent(q, c.try) BY <2>4, <3>2
   <4>3. /\ \A a \in 1..Len(r) : a \in 1..Len(q) \/ \E e \in n.calls : v \in e.to /\ r[a] = e.msg
         /\ \A a \in 1..Len(q) : a \in 1..Len(r) /\ r[a] = q[a]
    <5>1. \A a \in 1..Len(r) : a \in 1..Len(q) \/ \E e \in n.calls \cup n.then : v \in e.to /\ r[a] = e.msg
      BY <1>8, <2>4
    <5> HIDE DEF q, r
    <5>2. \A a \in 1..Len(r) : a \in 1..Len(q) \/ \E e \in n.calls : v \in e.to /\ r[a] = e.msg BY <4>1, <5>1
    <5> QED BY <1>8, <2>4, <5>2 DEF q, r
   <4>4. PICK a \in 1..Len(r) : \E e \in n.calls : v \in e.to /\ r[a] = e.msg BY <1>8, <2>4, <4>1
   <4>5. \A x \in TaRows : ~TaIn(<<t, c.try>>, ta_srv[v].rows[x]) BY <1>13
   <4> HIDE DEF q, r, c, d
   <4>6. r[a].id[2] = c.try BY <4>1, <4>4
   <4>7. \A b \in 1..Len(r) : r[b].id[2] = c.try => r[b].type = "Decide" BY <4>1, <4>2, <4>3 DEF TaSilent
   <4> DEFINE i == <<t, c.try>>
   <4>8. i[2] = c.try OBVIOUS
   <4> HIDE DEF i
   <4>9. TaComing(ta_srv[v], r, i, v[2]) BY <4>2, <4>5, <4>6, <4>7, <4>8 DEF TaComing, i
   <4> QED BY <4>1, <4>9 DEF i
  <3> HIDE DEF r, back2, d
  <3>3. TaLive(d, ta_srv[v], r, back2, t, v) BY <3>1, <3>2 DEF TaLive
  <3> QED BY <2>4, <3>0, <3>3 DEF r, back2
 <2> QED BY <2>3, <2>4
<1>15. TaServersOK'
 <2> SUFFICES ASSUME NEW v \in TaServers PROVE TaServerOK(ta_coord', ta_srv[v], v[2]) BY DEF TaServersOK
 <2>1. TaServerOK(ta_coord, ta_srv[v], v[2]) /\ ta_srv[v] \in TaSrvRec(l) BY <1>0 DEF TaServersOK
 <2> SUFFICES ASSUME NEW x \in TaRows, NEW a \in 1..Len(ta_srv[v].rows[x])
              PROVE TaDone(ta_coord'[ta_srv[v].rows[x][a][1]], ta_srv[v].rows[x][a][2]) BY <2>1 DEF TaServerOK
 <2> DEFINE i == ta_srv[v].rows[x][a]
 <2>2. TaDone(ta_coord[i[1]], i[2]) BY <2>1 DEF TaServerOK
 <2>3. i \in TaIds(l)
  <3>1. ta_srv[v].rows[x] \in Seq(TaIds(l)) BY <2>1 DEF TaSrvRec
  <3> QED BY <3>1
 <2> HIDE DEF i
 <2>4. i[1] \in TaTxns BY <1>0, <2>3 DEF TaIds
 <2>5. i[1] # t BY <1>5, <2>2 DEF TaDone
 <2> QED BY <1>1, <2>2, <2>4, <2>5 DEF i
<1>16. TaPairsOK' BY <1>0 DEF TaPairsOK
<1> QED BY <1>6, <1>7, <1>12, <1>14, <1>15, <1>16 DEF TaInv

(* What the coordinator's operations make. *)

LEMMA TaDispatchOut ==
  ASSUME ta_load \in TaLoads, NEW t \in TaTxns, NEW c \in TaCoordRec(ta_load)
  PROVE  LET d == TaDispatch(t, c)
         IN  /\ d.c \in TaCoordRec(ta_load) /\ d.c.phase = "dispatch" /\ d.c.try = c.try /\ d.c.reply = c.reply
             /\ d.then = {}
             /\ \A e \in d.calls :
                  /\ e.msg \in TaMsg(ta_load) /\ TaRank(e.msg) = 3 * c.try /\ e.msg.type = "Dispatch"
                  /\ \A x, v : v \in e.to => TaCallOK(x, e.msg, t, v)
<1> DEFINE l == ta_load
           ready == TaReady(t, c)
           ps(s) == {p \in ready : TaPieceOf[p].par = s}
           msg(s) == [type |-> "Dispatch", id |-> <<t, c.try>>, pieces |-> ps(s)]
           call(s) == To({<<"srv", s, TaNear[t][s]>>}, msg(s))
           out == c.out \cup ready
           n == [c EXCEPT !.phase = "dispatch", !.out = out]
           d == TaDispatch(t, c)
<1>1. l.retry \in Nat /\ TaTxns = l.txns BY TaLoadIs
<1>2. ready \subseteq TaPieces(t) /\ ready \subseteq DOMAIN TaPieceOf BY DEF TaReady, TaPieces
<1>3. d = [c |-> n, calls |-> {call(s) : s \in TaParsOf(ready)}, then |-> {}] BY DEF TaDispatch
<1>4. out \in TaPieceSet BY <1>2 DEF TaCoordRec, TaPieceSet
<1> HIDE DEF out
<1>5. n \in TaCoordRec(l) /\ n.phase = "dispatch" /\ n.try = c.try /\ n.reply = c.reply BY <1>4 DEF TaCoordRec
<1>6. <<t, c.try>> \in TaIds(l) BY <1>1 DEF TaIds, TaCoordRec
<1> HIDE DEF ready, n
<1>7. ASSUME NEW e \in d.calls
      PROVE  /\ e.msg \in TaMsg(ta_load) /\ TaRank(e.msg) = 3 * c.try /\ e.msg.type = "Dispatch"
             /\ \A x, v : v \in e.to => TaCallOK(x, e.msg, t, v)
 <2>0. e \in {call(s) : s \in TaParsOf(ready)} BY <1>3
 <2>1. PICK s : e = call(s) BY <2>0
 <2> DEFINE m == msg(s)
 <2>2. e.msg = m /\ e.to = {<<"srv", s, TaNear[t][s]>>} BY <2>1 DEF To
 <2>3. ps(s) \in TaPieceSet /\ ps(s) \subseteq TaHere(t, s) BY <1>2 DEF TaPieceSet, TaHere
 <2> HIDE DEF ps
 <2>4. m \in TaMsg(l) /\ m.type = "Dispatch" /\ m.id = <<t, c.try>> /\ m.pieces = ps(s) BY <1>6, <2>3 DEF TaMsg
 <2> HIDE DEF m
 <2>5. TaRank(m) = 3 * c.try BY <1>1, <2>4, TaRankIs
 <2>6. \A x, v : v \in e.to => TaCallOK(x, m, t, v) BY <2>2, <2>3, <2>4 DEF TaCallOK
 <2> QED BY <2>2, <2>4, <2>5, <2>6
<1> HIDE DEF call
<1>8. d.c = n /\ d.then = {} BY <1>3
<1> QED BY <1>5, <1>7, <1>8

LEMMA TaFastAcceptOut ==
  ASSUME ta_load \in TaLoads, NEW t \in TaTxns, NEW c \in TaCoordRec(ta_load)
  PROVE  LET d == TaFastAccept(t, c)
         IN  /\ d.c \in TaCoordRec(ta_load) /\ d.c.phase = "fast" /\ d.c.try = c.try /\ d.c.reply = c.reply
             /\ d.c.oks = {} /\ d.then = {}
             /\ \A e \in d.calls :
                  /\ e.msg \in TaMsg(ta_load) /\ TaRank(e.msg) = 3 * c.try + 1
                  /\ \A x, v : v \in e.to => TaCallOK(x, e.msg, t, v)
<1> DEFINE l == ta_load
           msg(s) == [type |-> "FastAccept", id |-> <<t, c.try>>, vers |-> c.vers, pieces |-> TaHere(t, s)]
           call(s) == To(TaReplicasOf(s), msg(s))
           n == [c EXCEPT !.phase = "fast", !.oks = {}, !.rejects = {}]
           d == TaFastAccept(t, c)
<1>1. l.retry \in Nat /\ TaTxns = l.txns BY TaLoadIs
<1>3. d = [c |-> n, calls |-> {call(s) : s \in TaParsOf(TaPieces(t))}, then |-> {}] BY DEF TaFastAccept, TaHere
<1>5. n \in TaCoordRec(l) /\ n.phase = "fast" /\ n.try = c.try /\ n.reply = c.reply /\ n.oks = {} BY DEF TaCoordRec
<1>6. <<t, c.try>> \in TaIds(l) /\ c.vers \in TaVersions BY <1>1 DEF TaIds, TaCoordRec
<1> HIDE DEF n
<1>7. ASSUME NEW e \in d.calls
      PROVE  /\ e.msg \in TaMsg(ta_load) /\ TaRank(e.msg) = 3 * c.try + 1
             /\ \A x, v : v \in e.to => TaCallOK(x, e.msg, t, v)
 <2>0. e \in {call(s) : s \in TaParsOf(TaPieces(t))} BY <1>3
 <2>1. PICK s : e = call(s) BY <2>0
 <2> DEFINE m == msg(s)
 <2>2. e.msg = m /\ e.to = TaReplicasOf(s) BY <2>1 DEF To
 <2>3. TaHere(t, s) \in TaPieceSet BY DEF TaPieceSet, TaHere, TaPieces
 <2>4. m \in TaMsg(l) /\ m.type = "FastAccept" /\ m.id = <<t, c.try>> /\ m.pieces = TaHere(t, s) BY <1>6, <2>3 DEF TaMsg
 <2> HIDE DEF m
 <2>5. TaRank(m) = 3 * c.try + 1 BY <1>1, <2>4, TaRankIs
 <2>6. \A v : v \in e.to => v[2] = s BY <2>2 DEF TaReplicasOf
 <2>7. \A x, v : v \in e.to => TaCallOK(x, m, t, v) BY <2>4, <2>6 DEF TaCallOK
 <2> QED BY <2>2, <2>4, <2>5, <2>7
<1> HIDE DEF call
<1>8. d.c = n /\ d.then = {} BY <1>3
<1> QED BY <1>5, <1>7, <1>8

LEMMA TaRestartOut ==
  ASSUME ta_load \in TaLoads, NEW t \in TaTxns, NEW c \in TaCoordRec(ta_load), c.reply = "none"
  PROVE  LET d == TaRestart(t, c)
         IN  /\ d.c \in TaCoordRec(ta_load) /\ d.then = {}
             /\ \/ d.c.phase = "end" /\ d.c.try = c.try /\ d.c.reply = "REJECT" /\ d.calls = {}
                \/ d.c.phase = "dispatch" /\ d.c.try = c.try + 1 /\ d.c.reply = "none"
             /\ \A e \in d.calls :
                  /\ e.msg \in TaMsg(ta_load) /\ TaRank(e.msg) = 3 * c.try + 3 /\ e.msg.type = "Dispatch"
                  /\ \A x, v : v \in e.to => TaCallOK(x, e.msg, t, v)
<1> DEFINE l == ta_load
           b == [c EXCEPT !.try = c.try + 1, !.out = {}, !.acked = {}, !.vers = {}]
           z == [c EXCEPT !.phase = "end", !.reply = "REJECT"]
           d == TaRestart(t, c)
<1>1. l.retry \in Nat /\ c.try \in 0..l.retry BY TaLoadIs DEF TaCoordRec
<1>2. CASE c.try = l.retry
 <2>1. d = [c |-> z, calls |-> {}, then |-> {}] BY <1>2 DEF TaRestart, TaNoCalls
 <2>2. z \in TaCoordRec(l) /\ z.phase = "end" /\ z.try = c.try /\ z.reply = "REJECT" BY DEF TaCoordRec
 <2> HIDE DEF z, d
 <2> QED BY <2>1, <2>2 DEF d
<1>3. CASE c.try # l.retry
 <2>1. d = TaDispatch(t, b) BY <1>3 DEF TaRestart
 <2>2. c.try + 1 \in 0..l.retry BY <1>1, <1>3
 <2>3. b \in TaCoordRec(l) /\ b.try = c.try + 1 /\ b.reply = "none" BY <2>2 DEF TaCoordRec, TaPieceSet, TaVersions
 <2> HIDE DEF b, d
 <2> DEFINE f == TaDispatch(t, b)
 <2>4. /\ f.c \in TaCoordRec(ta_load) /\ f.c.phase = "dispatch" /\ f.c.try = b.try /\ f.c.reply = b.reply
       /\ f.then = {}
       /\ \A e \in f.calls :
            /\ e.msg \in TaMsg(ta_load) /\ TaRank(e.msg) = 3 * b.try /\ e.msg.type = "Dispatch"
            /\ \A x, v : v \in e.to => TaCallOK(x, e.msg, t, v) BY <2>3, TaDispatchOut
 <2> HIDE DEF f
 <2>5. d = f BY <2>1 DEF f
 <2>6. 3 * (c.try + 1) = 3 * c.try + 3 BY <1>1
 <2> QED BY <2>3, <2>4, <2>5, <2>6 DEF d
<1> QED BY <1>2, <1>3

(* They are outcomes of a step, on a coordinator c that the handler has made a. *)
LEMMA TaNoCallsOutcome ==
  ASSUME ta_load \in TaLoads, NEW t \in TaTxns, NEW c \in TaCoordRec(ta_load), NEW a \in TaCoordRec(ta_load),
         c.reply = "none", a.try = c.try, a.reply = c.reply, a.phase = c.phase
  PROVE TaOutcome(ta_load, t, c, TaNoCalls(a))
<1> DEFINE n == TaNoCalls(a)
<1>1. n.c = a /\ n.calls = {} /\ n.then = {} BY DEF TaNoCalls
<1>2. TaStage(a) = TaStage(c) BY DEF TaStage
<1>3. TaStage(c) \in Nat /\ c.try \in Nat BY TaLoadIs, TaStageIs
<1>4. a.try >= c.try /\ TaStage(c) <= TaStage(c) BY <1>3
<1> HIDE DEF n
<1> QED BY <1>1, <1>2, <1>3, <1>4 DEF TaOutcome, n

LEMMA TaDispatchOutcome ==
  ASSUME ta_load \in TaLoads, NEW t \in TaTxns, NEW c \in TaCoordRec(ta_load), NEW a \in TaCoordRec(ta_load),
         c.reply = "none", a.try = c.try, a.reply = c.reply, c.phase \in {"init", "dispatch"}
  PROVE TaOutcome(ta_load, t, c, TaDispatch(t, a))
<1> DEFINE d == TaDispatch(t, a)
<1>1. /\ d.c \in TaCoordRec(ta_load) /\ d.c.phase = "dispatch" /\ d.c.try = a.try /\ d.c.reply = a.reply
      /\ d.then = {}
      /\ \A e \in d.calls :
           /\ e.msg \in TaMsg(ta_load) /\ TaRank(e.msg) = 3 * a.try /\ e.msg.type = "Dispatch"
           /\ \A x, v : v \in e.to => TaCallOK(x, e.msg, t, v) BY TaDispatchOut
<1> HIDE DEF d
<1>2. TaStage(c) = 3 * c.try /\ TaStage(d.c) = 3 * c.try /\ c.try \in Nat BY <1>1, TaLoadIs, TaStageIs
<1>3. \A e \in d.calls : TaFollows(e.msg, TaStage(c)) /\ TaRank(e.msg) <= TaStage(c) BY <1>1, <1>2 DEF TaFollows
<1>4. \E k \in Nat :
       /\ TaStage(c) <= k /\ k <= TaStage(d.c)
       /\ \A e \in d.calls : TaFollows(e.msg, TaStage(c)) /\ TaRank(e.msg) <= k
       /\ \A e \in d.then : TaFollows(e.msg, k) /\ TaRank(e.msg) <= TaStage(d.c)
 <2>1. TaStage(c) \in Nat /\ TaStage(c) <= TaStage(c) /\ TaStage(c) <= TaStage(d.c) BY <1>2
 <2> QED BY <1>1, <2>1, <1>3
<1>5. d.c.try >= c.try BY <1>1, <1>2
<1> QED BY <1>1, <1>4, <1>5 DEF TaOutcome, d

LEMMA TaFastAcceptOutcome ==
  ASSUME ta_load \in TaLoads, NEW t \in TaTxns, NEW c \in TaCoordRec(ta_load), NEW a \in TaCoordRec(ta_load),
         c.reply = "none", a.try = c.try, a.reply = c.reply, c.phase = "dispatch"
  PROVE TaOutcome(ta_load, t, c, TaFastAccept(t, a))
<1> DEFINE d == TaFastAccept(t, a)
<1>1. /\ d.c \in TaCoordRec(ta_load) /\ d.c.phase = "fast" /\ d.c.try = a.try /\ d.c.reply = a.reply
      /\ d.c.oks = {} /\ d.then = {}
      /\ \A e \in d.calls :
           /\ e.msg \in TaMsg(ta_load) /\ TaRank(e.msg) = 3 * a.try + 1
           /\ \A x, v : v \in e.to => TaCallOK(x, e.msg, t, v) BY TaFastAcceptOut
<1> HIDE DEF d
<1>2. TaStage(c) = 3 * c.try /\ TaStage(d.c) = 3 * c.try + 1 /\ c.try \in Nat BY <1>1, TaLoadIs, TaStageIs
<1>3. \A e \in d.calls : TaFollows(e.msg, TaStage(c)) /\ TaRank(e.msg) <= TaStage(d.c) BY <1>1, <1>2 DEF TaFollows
<1>4. \E k \in Nat :
       /\ TaStage(c) <= k /\ k <= TaStage(d.c)
       /\ \A e \in d.calls : TaFollows(e.msg, TaStage(c)) /\ TaRank(e.msg) <= k
       /\ \A e \in d.then : TaFollows(e.msg, k) /\ TaRank(e.msg) <= TaStage(d.c)
 <2>1. TaStage(d.c) \in Nat /\ TaStage(c) <= TaStage(d.c) /\ TaStage(d.c) <= TaStage(d.c) BY <1>2
 <2> QED BY <1>1, <2>1, <1>3
<1>5. d.c.try >= c.try BY <1>1, <1>2
<1> QED BY <1>1, <1>4, <1>5 DEF TaOutcome, d

LEMMA TaDecideOutcome ==
  ASSUME ta_load \in TaLoads, NEW t \in TaTxns, NEW c \in TaCoordRec(ta_load), NEW a \in TaCoordRec(ta_load),
         c.reply = "none", a.try = c.try, a.reply = c.reply, c.phase = "fast", NEW commit \in BOOLEAN
  PROVE  /\ TaOutcome(ta_load, t, c, TaDecide(t, a, commit))
         /\ TaDecide(t, a, commit).c.phase # "fast"
         /\ ~commit => TaDecide(t, a, commit).c.reply # "SUCCESS"
<1> DEFINE l == ta_load
           D == UNION {TaReplicasOf(s) : s \in TaParsOf(TaPieces(t))}
           m == [type |-> "Decide", id |-> <<t, a.try>>, commit |-> commit]
           r == TaRestart(t, a)
           z == [a EXCEPT !.phase = "end", !.reply = "SUCCESS"]
           d == TaDecide(t, a, commit)
<1>1. l.retry \in Nat /\ TaTxns = l.txns /\ c.try \in Nat BY TaLoadIs, TaStageIs
<1>2. <<t, a.try>> \in TaIds(l) BY <1>1 DEF TaIds, TaCoordRec
<1>3. m \in TaMsg(l) /\ m.type = "Decide" /\ m.id = <<t, c.try>> /\ m.id[1] = t /\ m.id[2] = c.try /\ m.commit = commit
  BY <1>2 DEF TaMsg
<1>4. d = IF commit THEN [c |-> z, calls |-> {To(D, m)}, then |-> {}]
                    ELSE [c |-> r.c, calls |-> {To(D, m)}, then |-> r.calls] BY DEF TaDecide
<1>5. z \in TaCoordRec(l) /\ z.phase = "end" /\ z.try = c.try /\ z.reply = "SUCCESS" BY DEF TaCoordRec
<1>6. \A v \in TaServers : v[2] \in TaParsOf(TaPieces(t)) => v \in D BY DEF TaReplicasOf
<1>7. To(D, m).to = D /\ To(D, m).msg = m BY DEF To
<1> HIDE DEF m, z, D, d, r
<1> DEFINE e0 == To(D, m)
<1> HIDE DEF e0
<1>8. TaRank(m) = 3 * c.try + 2 /\ TaStage(c) = 3 * c.try + 1 BY <1>1, <1>3, TaRankIs, TaStageIs
<1>9. TaFollows(m, TaStage(c)) /\ TaRank(m) <= 3 * c.try + 2 /\ TaStage(c) <= 3 * c.try + 2 BY <1>1, <1>8 DEF TaFollows
<1>10. \A x, v : (commit <=> TaDone(x, c.try)) => TaCallOK(x, m, t, v) BY <1>3 DEF TaCallOK
<1>11. CASE commit
 <2>1. d.c = z /\ d.calls = {e0} /\ d.then = {} /\ e0.to = D /\ e0.msg = m BY <1>4, <1>7, <1>11 DEF e0
 <2>2. TaStage(z) = 3 * c.try + 2 BY <1>1, <1>5, TaStageIs
 <2>3. TaDone(z, c.try) BY <1>5 DEF TaDone
 <2>4. \E k \in Nat :
      /\ TaStage(c) <= k /\ k <= TaStage(z)
      /\ \A e \in d.calls : TaFollows(e.msg, TaStage(c)) /\ TaRank(e.msg) <= k
      /\ \A e \in d.then : TaFollows(e.msg, k) /\ TaRank(e.msg) <= TaStage(z)
  <3>1. TaStage(z) \in Nat /\ TaStage(c) <= TaStage(z) /\ TaStage(z) <= TaStage(z) /\ TaRank(m) <= TaStage(z)
    BY <1>1, <1>9, <2>2
  <3> QED BY <1>9, <2>1, <3>1
 <2>5. z.try >= c.try BY <1>1, <1>5
 <2>6. TaOutcome(l, t, c, d) BY <1>3, <1>5, <1>6, <1>10, <1>11, <2>1, <2>3, <2>4, <2>5 DEF TaOutcome
 <2> QED BY <1>5, <1>11, <2>1, <2>6 DEF d
<1>12. CASE ~commit
 <2>1. d.c = r.c /\ d.calls = {e0} /\ d.then = r.calls /\ e0.to = D /\ e0.msg = m BY <1>4, <1>7, <1>12 DEF e0
 <2>2. /\ r.c \in TaCoordRec(l) /\ r.then = {}
       /\ \/ r.c.phase = "end" /\ r.c.try = a.try /\ r.c.reply = "REJECT" /\ r.calls = {}
          \/ r.c.phase = "dispatch" /\ r.c.try = a.try + 1 /\ r.c.reply = "none"
       /\ \A e \in r.calls :
            /\ e.msg \in TaMsg(l) /\ TaRank(e.msg) = 3 * a.try + 3 /\ e.msg.type = "Dispatch"
            /\ \A x, v : v \in e.to => TaCallOK(x, e.msg, t, v) BY TaRestartOut DEF r
 <2>3. ~TaDone(r.c, c.try) BY <2>2 DEF TaDone
 <2>4. \E k \in Nat :
      /\ TaStage(c) <= k /\ k <= TaStage(r.c)
      /\ \A e \in d.calls : TaFollows(e.msg, TaStage(c)) /\ TaRank(e.msg) <= k
      /\ \A e \in d.then : TaFollows(e.msg, k) /\ TaRank(e.msg) <= TaStage(r.c)
  <3> DEFINE k == 3 * c.try + 2
  <3>1. k \in Nat /\ k <= TaStage(r.c)
   <4>1. /\ r.c.try \in Nat /\ (r.c.phase = "end" => TaStage(r.c) = 3 * r.c.try + 2)
         /\ (r.c.phase = "dispatch" => TaStage(r.c) = 3 * r.c.try) BY <1>1, <2>2, TaStageIs
   <4> QED BY <1>1, <2>2, <4>1
  <3>2. \A e \in r.calls : TaFollows(e.msg, k) /\ TaRank(e.msg) <= TaStage(r.c)
   <4> SUFFICES ASSUME NEW e \in r.calls PROVE TaFollows(e.msg, k) /\ TaRank(e.msg) <= TaStage(r.c) OBVIOUS
   <4>1. TaRank(e.msg) = 3 * c.try + 3 BY <2>2
   <4>2. r.c.phase = "dispatch" /\ r.c.try = c.try + 1 BY <2>2
   <4>3. TaStage(r.c) = 3 * r.c.try BY <1>1, <2>2, <4>2, TaStageIs
   <4> QED BY <1>1, <4>1, <4>2, <4>3 DEF TaFollows
  <3> HIDE DEF k
  <3>3. TaStage(c) <= k /\ TaRank(m) <= k BY <1>9 DEF k
  <3> QED BY <1>9, <2>1, <3>1, <3>2, <3>3
 <2>5. r.c.try >= c.try BY <1>1, <2>2
 <2>6. \A e \in d.calls \cup d.then : e.msg \in TaMsg(l) /\ \A v \in TaServers : v \in e.to => TaCallOK(r.c, e.msg, t, v)
   BY <1>3, <1>10, <1>12, <2>1, <2>2, <2>3
 <2>7. r.c.phase # "fast" /\ r.c.reply # "SUCCESS" /\ (r.c.phase # "end" => r.c.reply = "none") BY <2>2
 <2>8. TaOutcome(l, t, c, d) BY <2>1, <2>2, <2>4, <2>5, <2>6, <2>7 DEF TaOutcome
 <2> QED BY <1>12, <2>1, <2>7, <2>8 DEF d
<1> QED BY <1>11, <1>12

(* An answer that is taken. *)
TaTakenFrom(net0) ==
  /\ NetOf(net0, TaConns, TaMsg(ta_load))
  /\ \A u \in TaTxns, v \in TaServers :
       /\ net0[TaCall(u, v)] = ta_net[TaCall(u, v)]
       /\ \A a \in 1..Len(net0[TaBack(u, v)]) :
            \E b \in 1..Len(ta_net[TaBack(u, v)]) : net0[TaBack(u, v)][a] = ta_net[TaBack(u, v)][b]

LEMMA TaNetIs ==
  ASSUME TaTypeInv
  PROVE  /\ NetOf(ta_net, TaConns, TaMsg(ta_load))
         /\ \A t \in TaTxns, v \in TaServers :
              ta_net[TaCall(t, v)] \in Seq(TaMsg(ta_load)) /\ ta_net[TaBack(t, v)] \in Seq(TaMsg(ta_load))
BY TaConnsAre DEF TaTypeInv, NetOf

LEMMA TaTook ==
  ASSUME TaTypeInv, NEW t \in TaTxns, NEW v \in TaServers, ta_net[TaBack(t, v)] # <<>>
  PROVE  /\ TaTakenFrom(Taken(ta_net, TaBack(t, v)))
         /\ Head(ta_net[TaBack(t, v)]) \in TaMsg(ta_load)
         /\ \E b \in 1..Len(ta_net[TaBack(t, v)]) : ta_net[TaBack(t, v)][b] = Head(ta_net[TaBack(t, v)])
<1> DEFINE k == TaBack(t, v)
           M == TaMsg(ta_load)
           net0 == Taken(ta_net, k)
<1>1. NetOf(ta_net, TaConns, M) /\ k \in TaConns /\ ta_net[k] # <<>> BY TaNetIs, TaConnsAre
<1> HIDE DEF k
<1>2. /\ NetOf(net0, TaConns, M) /\ Head(ta_net[k]) \in M /\ Head(ta_net[k]) \in MsgsIn(ta_net, k)
      /\ \A j \in TaConns : j # k => net0[j] = ta_net[j]
      /\ \A j \in TaConns : MsgsIn(net0, j) \subseteq MsgsIn(ta_net, j) BY <1>1, NetTook
<1> HIDE DEF net0
<1>3. ASSUME NEW u \in TaTxns, NEW w \in TaServers
      PROVE  /\ net0[TaCall(u, w)] = ta_net[TaCall(u, w)]
             /\ \A a \in 1..Len(net0[TaBack(u, w)]) :
                  \E b \in 1..Len(ta_net[TaBack(u, w)]) : net0[TaBack(u, w)][a] = ta_net[TaBack(u, w)][b]
 <2>1. TaCall(u, w) # k /\ TaCall(u, w) \in TaConns /\ TaBack(u, w) \in TaConns BY TaConnsAre, TaApart DEF k
 <2>2. MsgsIn(net0, TaBack(u, w)) \subseteq MsgsIn(ta_net, TaBack(u, w)) BY <1>2, <2>1
 <2> QED BY <1>2, <2>1, <2>2 DEF MsgsIn
<1>4. TaTakenFrom(net0) BY <1>2, <1>3 DEF TaTakenFrom
<1>5. \E b \in 1..Len(ta_net[k]) : ta_net[k][b] = Head(ta_net[k]) BY <1>2 DEF MsgsIn
<1> QED BY <1>2, <1>4, <1>5 DEF k, net0

LEMMA TaIgnored ==
  ASSUME TaInv, TaTakenFrom(ta_net'), UNCHANGED <<ta_load, ta_coord, ta_srv>>
  PROVE TaInv'
<1>0. /\ TaTypeInv /\ TaCoordsOK /\ TaQueuesOK /\ TaLiveOK /\ TaServersOK /\ TaPairsOK
      /\ TaTxns' = TaTxns /\ TaConns' = TaConns BY DEF TaInv, TaTxns, TaConns
<1>1. NetOf(ta_net', TaConns, TaMsg(ta_load)) BY DEF TaTakenFrom
<1>2. TaTypeInv' BY <1>0, <1>1 DEF TaTypeInv, NetOf
<1>3. ASSUME NEW u \in TaTxns, NEW v \in TaServers
      PROVE  /\ ta_net'[TaCall(u, v)] = ta_net[TaCall(u, v)]
             /\ \A a \in 1..Len(ta_net'[TaBack(u, v)]) :
                  \E b \in 1..Len(ta_net[TaBack(u, v)]) : ta_net'[TaBack(u, v)][a] = ta_net[TaBack(u, v)][b]
  BY DEF TaTakenFrom
<1>4. TaQueuesOK'
 <2> SUFFICES ASSUME NEW u \in TaTxns, NEW v \in TaServers
              PROVE  LET q == ta_net'[TaCall(u, v)]
                     IN  /\ TaOrdered(q) /\ TaUpTo(q, TaStage(ta_coord[u])) /\ TaAcks(ta_coord[u], ta_net'[TaBack(u, v)])
                         /\ \A a \in 1..Len(q) : TaCallOK(ta_coord[u], q[a], u, v)
   BY <1>0 DEF TaQueuesOK, TaCall, TaBack, TaCoord
 <2> DEFINE back == ta_net[TaBack(u, v)]
            back2 == ta_net'[TaBack(u, v)]
 <2>1. TaAcks(ta_coord[u], back) /\ \A a \in 1..Len(back2) : \E b \in 1..Len(back) : back2[a] = back[b]
   BY <1>0, <1>3 DEF TaQueuesOK
 <2> HIDE DEF back, back2
 <2>2. TaAcks(ta_coord[u], back2) BY <2>1 DEF TaAcks
 <2> QED BY <1>0, <1>3, <2>2 DEF TaQueuesOK, back2
<1>5. TaLiveOK'
 <2> SUFFICES ASSUME NEW u \in TaTxns, NEW v \in TaServers
              PROVE TaLive(ta_coord[u], ta_srv[v], ta_net[TaCall(u, v)], ta_net'[TaBack(u, v)], u, v)
   BY <1>0, <1>3 DEF TaLiveOK, TaCall, TaBack, TaCoord
 <2> DEFINE q == ta_net[TaCall(u, v)]
            back == ta_net[TaBack(u, v)]
            back2 == ta_net'[TaBack(u, v)]
 <2>1. TaLive(ta_coord[u], ta_srv[v], q, back, u, v) /\ \A a \in 1..Len(back2) : \E b \in 1..Len(back) : back2[a] = back[b]
   BY <1>0, <1>3 DEF TaLiveOK
 <2> HIDE DEF q, back, back2
 <2>2. TaGranted(ta_coord[u], back2, u, v) => TaGranted(ta_coord[u], back, u, v) BY <2>1 DEF TaGranted
 <2> QED BY <2>1, <2>2 DEF TaLive, q, back2
<1>6. TaCoordsOK' /\ TaServersOK' /\ TaPairsOK' BY <1>0 DEF TaCoordsOK, TaServersOK, TaPairsOK
<1> QED BY <1>2, <1>4, <1>5, <1>6 DEF TaInv

LEMMA TaDoOneInv ==
  ASSUME TaInv, NEW t \in TaTxns, TaDoOne(t)
  PROVE TaInv'
<1> DEFINE l == ta_load
           c == ta_coord[t]
           answered == {u \in TaTxns : ta_coord[u].reply = "SUCCESS"}
           b == [c EXCEPT !.started = answered]
           d == TaDispatch(t, b)
<1>1. /\ l \in TaLoads /\ c \in TaCoordRec(l) /\ c.phase = "init" /\ c.reply = "none" /\ TaTxns = l.txns
      /\ NetOf(ta_net, TaConns, TaMsg(l)) BY TaLoadIs, TaNetIs DEF TaInv, TaTypeInv, TaCoordsOK, TaDoOne
<1>2. ta_coord' = [ta_coord EXCEPT ![t] = d.c] /\ ta_net' = TaTell(ta_net, t, d) /\ UNCHANGED <<ta_load, ta_srv>>
  BY DEF TaDoOne
<1>3. answered \subseteq l.txns BY <1>1
<1> HIDE DEF answered
<1>4. b \in TaCoordRec(l) /\ b.try = c.try /\ b.reply = c.reply BY <1>1, <1>3 DEF TaCoordRec
<1> HIDE DEF b
<1>5. TaOutcome(l, t, c, d) BY <1>1, <1>4, TaDispatchOutcome
<1>6. d.c.phase = "dispatch" /\ d.c.reply = b.reply BY <1>1, <1>4, TaDispatchOut
<1> HIDE DEF d
<1>7. \A u \in TaTxns, v \in TaServers :
        \A a \in 1..Len(ta_net[TaBack(u, v)]) :
          \E e \in 1..Len(ta_net[TaBack(u, v)]) : ta_net[TaBack(u, v)][a] = ta_net[TaBack(u, v)][e] OBVIOUS
<1>8. ~(c.phase = "fast") /\ ~(d.c.reply = "SUCCESS") BY <1>1, <1>4, <1>6
<1> DEFINE G == {}
<1>9. \A v \in G : TaHolds(ta_srv[v], <<t, c.try>>, v[2]) /\ TaSilent(ta_net[TaCall(t, v)], c.try) OBVIOUS
<1> HIDE DEF G
<1> QED BY <1>1, <1>2, <1>5, <1>7, <1>8, <1>9, TaCoordStep

(* A coordinator's step on an answer that it still waits for. *)
LEMMA TaAckStep ==
  ASSUME TaInv, NEW t \in TaTxns, NEW v \in TaServers, ta_net[TaBack(t, v)] # <<>>,
         NEW n, TaOutcome(ta_load, t, ta_coord[t], n), NEW G,
         \A u \in G : TaHolds(ta_srv[u], <<t, ta_coord[t].try>>, u[2]) /\
                      TaSilent(ta_net[TaCall(t, u)], ta_coord[t].try),
         ta_coord[t].phase = "fast" /\ n.c.phase = "fast" => n.c.oks \subseteq G,
         n.c.reply = "SUCCESS" => \A u \in TaServers : u[2] \in TaParsOf(TaPieces(t)) => u \in G,
         TaStep(t, TaBack(t, v), TRUE, n), UNCHANGED <<ta_load, ta_srv>>
  PROVE TaInv'
<1> DEFINE net0 == Taken(ta_net, TaBack(t, v))
<1>1. TaTakenFrom(net0) BY TaTook DEF TaInv
<1>2. ta_coord' = [ta_coord EXCEPT ![t] = n.c] /\ ta_net' = TaTell(net0, t, n) BY DEF TaStep
<1> HIDE DEF net0
<1>3. /\ NetOf(net0, TaConns, TaMsg(ta_load))
      /\ \A u \in TaTxns, w \in TaServers :
           /\ net0[TaCall(u, w)] = ta_net[TaCall(u, w)]
           /\ \A a \in 1..Len(net0[TaBack(u, w)]) :
                \E b \in 1..Len(ta_net[TaBack(u, w)]) : net0[TaBack(u, w)][a] = ta_net[TaBack(u, w)][b]
  BY <1>1 DEF TaTakenFrom
<1> QED BY <1>2, <1>3, TaCoordStep

LEMMA TaDispatchAckInv ==
  ASSUME TaInv, NEW t \in TaTxns, NEW v \in TaServers, TaDispatchAck(t, v)
  PROVE TaInv'
<1> DEFINE l == ta_load
           k == TaBack(t, v)
           m == Head(ta_net[k])
           c == ta_coord[t]
           ack2 == c.acked \cup m.pieces
           ver2 == c.vers \cup m.vers
           a == [c EXCEPT !.acked = ack2, !.vers = ver2]
           n == IF TaReady(t, a) # {} THEN TaDispatch(t, a)
                ELSE IF a.acked = a.out THEN TaFastAccept(t, a) ELSE TaNoCalls(a)
           new == m.id = TaId(t) /\ c.phase = "dispatch"
<1>1. /\ ta_net[k] # <<>> /\ m.type = "DispatchAck" /\ TaStep(t, k, new, n) /\ UNCHANGED <<ta_load, ta_srv>>
  BY DEF TaDispatchAck, Receives, TaBack
<1>2. l \in TaLoads /\ c \in TaCoordRec(l) /\ (c.phase # "end" => c.reply = "none") /\ TaTypeInv
  BY DEF TaInv, TaTypeInv, TaCoordsOK
<1>3. m \in TaMsg(l) /\ TaTakenFrom(Taken(ta_net, k)) BY <1>1, <1>2, TaTook
<1> HIDE DEF m, k
<1>4. m.pieces \in TaPieceSet /\ m.vers \in TaVersions BY <1>1, <1>3 DEF TaMsg
<1>5. ack2 \in TaPieceSet /\ ver2 \in TaVersions BY <1>2, <1>4 DEF TaCoordRec, TaPieceSet, TaVersions
<1> HIDE DEF ack2, ver2
<1>6. a \in TaCoordRec(l) /\ a.try = c.try /\ a.reply = c.reply /\ a.phase = c.phase BY <1>2, <1>5 DEF TaCoordRec
<1> HIDE DEF a
<1>7. CASE new
 <2>1. c.phase = "dispatch" /\ c.reply = "none" BY <1>2, <1>7
 <2> DEFINE nd == TaDispatch(t, a)
            nf == TaFastAccept(t, a)
            nn == TaNoCalls(a)
 <2>2. TaOutcome(l, t, c, nd) /\ TaOutcome(l, t, c, nf) /\ TaOutcome(l, t, c, nn)
   BY <1>2, <1>6, <2>1, TaDispatchOutcome, TaFastAcceptOutcome, TaNoCallsOutcome
 <2>3. nd.c.reply = a.reply /\ nf.c.reply = a.reply /\ nn.c.reply = a.reply
  <3>1. nd.c.reply = a.reply BY <1>2, <1>6, TaDispatchOut
  <3>2. nf.c.reply = a.reply BY <1>2, <1>6, TaFastAcceptOut
  <3>3. nn.c.reply = a.reply BY DEF TaNoCalls
  <3> QED BY <3>1, <3>2, <3>3
 <2> HIDE DEF nd, nf, nn
 <2>4. n = nd \/ n = nf \/ n = nn BY DEF nd, nf, nn
 <2> HIDE DEF n
 <2>5. TaOutcome(l, t, c, n) /\ n.c.reply # "SUCCESS" BY <1>6, <2>1, <2>2, <2>3, <2>4
 <2>6. TaStep(t, k, TRUE, n) BY <1>1, <1>7 DEF TaStep
 <2> DEFINE G == {}
 <2>7. \A u \in G : TaHolds(ta_srv[u], <<t, c.try>>, u[2]) /\ TaSilent(ta_net[TaCall(t, u)], c.try) OBVIOUS
 <2> HIDE DEF G
 <2>8. ~(c.phase = "fast") BY <2>1
 <2> QED BY <1>1, <2>5, <2>6, <2>7, <2>8, TaAckStep DEF k
<1>8. CASE ~new
 <2>1. ta_coord' = ta_coord /\ ta_net' = Taken(ta_net, k) BY <1>1, <1>8 DEF TaStep
 <2> QED BY <1>1, <1>3, <2>1, TaIgnored
<1> QED BY <1>7, <1>8

LEMMA TaFastAcceptAckInv ==
  ASSUME TaInv, NEW t \in TaTxns, NEW v \in TaServers, TaFastAcceptAck(t, v)
  PROVE TaInv'
<1> DEFINE l == ta_load
           k == TaBack(t, v)
           m == Head(ta_net[k])
           c == ta_coord[t]
           G == IF m.res = "SUCCESS" THEN c.oks \cup {v} ELSE c.oks
           J == IF m.res = "SUCCESS" THEN c.rejects ELSE c.rejects \cup {v}
           a == [c EXCEPT !.oks = G, !.rejects = J]
           a0 == IF m.res = "SUCCESS" THEN [c EXCEPT !.oks = c.oks \cup {v}] ELSE [c EXCEPT !.rejects = c.rejects \cup {v}]
           n == IF ~TaFastQuorumPossible(t, a0) THEN TaDecide(t, a0, FALSE)
                ELSE IF TaAllFastQuorumReached(t, a0) THEN TaDecide(t, a0, TRUE) ELSE TaNoCalls(a0)
           new == m.id = TaId(t) /\ c.phase = "fast"
<1>1. /\ ta_net[k] # <<>> /\ m.type = "FastAcceptAck" /\ TaStep(t, k, new, n) /\ UNCHANGED <<ta_load, ta_srv>>
  BY DEF TaFastAcceptAck, Receives, TaBack
<1>2. /\ l \in TaLoads /\ c \in TaCoordRec(l) /\ (c.phase # "end" => c.reply = "none") /\ TaTypeInv
      /\ c.oks \subseteq TaServers /\ c.rejects \subseteq TaServers BY DEF TaInv, TaTypeInv, TaCoordsOK, TaCoordRec
<1>3. /\ m \in TaMsg(l) /\ TaTakenFrom(Taken(ta_net, k))
      /\ \E b \in 1..Len(ta_net[k]) : ta_net[k][b] = m BY <1>1, <1>2, TaTook
<1> HIDE DEF m
<1>4. a0 = a BY <1>2 DEF TaCoordRec
<1>5. G \subseteq TaServers /\ J \subseteq TaServers /\ (\A u \in G : u \in c.oks \/ (u = v /\ m.res = "SUCCESS"))
  BY <1>2
<1> HIDE DEF G, J, a0
<1>6. a \in TaCoordRec(l) /\ a.try = c.try /\ a.reply = c.reply /\ a.phase = c.phase /\ a.oks = G
  BY <1>2, <1>5 DEF TaCoordRec
<1> HIDE DEF a
<1>7. CASE new
 <2>1. c.phase = "fast" /\ c.reply = "none" /\ m.id = <<t, c.try>> BY <1>2, <1>7 DEF TaId
 <2>2. ASSUME NEW u \in G PROVE TaHolds(ta_srv[u], <<t, c.try>>, u[2]) /\ TaSilent(ta_net[TaCall(t, u)], c.try)
  <3>1. u \in TaServers BY <1>5
  <3>2. TaLive(c, ta_srv[u], ta_net[TaCall(t, u)], ta_net[TaBack(t, u)], t, u) BY <3>1 DEF TaInv, TaLiveOK
  <3>3. TaGranted(c, ta_net[TaBack(t, u)], t, u)
   <4>1. CASE u \in c.oks BY <4>1 DEF TaGranted
   <4>2. CASE u = v /\ m.res = "SUCCESS"
    <5> HIDE DEF c
    <5> QED BY <1>1, <1>3, <2>1, <4>2 DEF TaGranted
   <4> QED BY <1>5, <4>1, <4>2
  <3> HIDE DEF c
  <3> QED BY <2>1, <3>2, <3>3 DEF TaLive
 <2> DEFINE nf == TaDecide(t, a, FALSE)
            nt == TaDecide(t, a, TRUE)
            nn == TaNoCalls(a)
 <2>3. /\ TaOutcome(l, t, c, nf) /\ nf.c.phase # "fast" /\ nf.c.reply # "SUCCESS" BY <1>2, <1>6, <2>1, TaDecideOutcome
 <2>4. /\ TaOutcome(l, t, c, nt) /\ nt.c.phase # "fast" BY <1>2, <1>6, <2>1, TaDecideOutcome
 <2>5. TaOutcome(l, t, c, nn) /\ nn.c.reply # "SUCCESS" /\ nn.c.oks = G
  <3>1. nn.c = a BY DEF TaNoCalls
  <3> QED BY <1>2, <1>6, <2>1, <3>1, TaNoCallsOutcome
 <2>6. TaAllFastQuorumReached(t, a) => \A u \in TaServers : u[2] \in TaParsOf(TaPieces(t)) => u \in G
  <3> SUFFICES ASSUME TaAllFastQuorumReached(t, a), NEW u \in TaServers, u[2] \in TaParsOf(TaPieces(t)) PROVE u \in G
    OBVIOUS
  <3> DEFINE s == u[2]
  <3>1. Cardinality(G \cap TaReplicasOf(s)) >= TaFastQuorum(s) BY <1>6 DEF TaAllFastQuorumReached
  <3>2. s \in DOMAIN TaReps BY TaAssumption DEF TaParsOf, TaPieces
  <3>3. TaReplicasOf(s) \subseteq G BY <3>1, <3>2, TaQuorumIsAll
  <3> QED BY <3>3 DEF TaReplicasOf
 <2> HIDE DEF nf, nt, nn
 <2>7. n = nf \/ (n = nt /\ TaAllFastQuorumReached(t, a)) \/ n = nn BY <1>4 DEF nf, nt, nn
 <2> HIDE DEF n
 <2>8. /\ TaOutcome(l, t, c, n) /\ (n.c.phase = "fast" => n.c.oks \subseteq G)
       /\ (n.c.reply = "SUCCESS" => \A u \in TaServers : u[2] \in TaParsOf(TaPieces(t)) => u \in G)
   BY <2>3, <2>4, <2>5, <2>6, <2>7
 <2>9. TaStep(t, k, TRUE, n) BY <1>1, <1>7 DEF TaStep
 <2> HIDE DEF new
 <2> QED BY <1>1, <2>2, <2>8, <2>9, TaAckStep
<1>8. CASE ~new
 <2>1. ta_coord' = ta_coord /\ ta_net' = Taken(ta_net, k) BY <1>1, <1>8 DEF TaStep
 <2> QED BY <1>1, <1>3, <2>1, TaIgnored
<1> QED BY <1>7, <1>8

(* What a handler for attempt i may do to a replica of partition s. *)
TaKept(srv, s2, i) ==
  /\ \A j \in DOMAIN srv.exec : j # i => j \in DOMAIN s2.exec /\ s2.exec[j] = srv.exec[j]
  /\ \A x \in TaRows : srv.w[x] # <<>> /\ srv.w[x] # i => s2.w[x] = srv.w[x]
TaWrote(coord, srv, s2, i, s) ==
  \A x \in TaRows : s2.rows[x] = srv.rows[x] \/
    (s2.rows[x] = Append(srv.rows[x], i) /\ TaDone(coord[i[1]], i[2]) /\ x \in TaWrites(i[1], s))

LEMMA TaInAppended ==
  ASSUME NEW S, NEW q \in Seq(S), NEW i \in S, NEW j
  PROVE TaIn(j, Append(q, i)) <=> TaIn(j, q) \/ j = i
<1> DEFINE r == Append(q, i)
           n == Len(q)
<1>1. n \in Nat /\ Len(r) = n + 1 /\ r[n + 1] = i /\ \A a \in 1..n : r[a] = q[a] OBVIOUS
<1> HIDE DEF r
<1>2. 1..(n + 1) = (1..n) \cup {n + 1} BY <1>1
<1> QED BY <1>1, <1>2 DEF TaIn, r

LEMMA TaHoldsKept ==
  ASSUME NEW srv, NEW s2, NEW i, NEW j, NEW s, j # i, j # <<>>, TaKept(srv, s2, i), TaHolds(srv, j, s),
         TaWrites(j[1], s) \subseteq TaRows
  PROVE TaHolds(s2, j, s)
BY DEF TaKept, TaHolds

LEMMA TaWritesIn ==
  ASSUME NEW t, NEW s
  PROVE TaWrites(t, s) \subseteq TaRows /\ (TaWrites(t, s) # {} => s \in TaParsOf(TaPieces(t)))
BY DEF TaWrites, TaWritesOf, TaHere, TaRows, TaPieces, TaParsOf

(* The promise about another attempt is kept. *)
TaLess(q, q2, n) == q2 = q \/ (q # <<>> /\ q2 = Tail(q) /\ Head(q).id[2] # n)
TaNoneGranted(c, back, back2, u, v) == TaGranted(c, back2, u, v) => TaGranted(c, back, u, v)
TaOther(l, coord, c, srv, s2, i, u, v, q, q2, back, back2) ==
  /\ l.retry \in Nat /\ c \in TaCoordRec(l) /\ srv \in TaSrvRec(l) /\ i \in TaIds(l) /\ q \in Seq(TaMsg(l))
  /\ TaLive(c, srv, q, back, u, v) /\ <<u, c.try>> # i
  /\ TaKept(srv, s2, i) /\ TaWrote(coord, srv, s2, i, v[2]) /\ TaOrdered(q)
  /\ TaLess(q, q2, c.try) /\ TaNoneGranted(c, back, back2, u, v)

LEMMA TaLiveKept ==
  ASSUME NEW l, NEW coord, NEW c, NEW srv, NEW s2, NEW i, NEW u, NEW v, NEW q, NEW q2, NEW back, NEW back2,
         TaOther(l, coord, c, srv, s2, i, u, v, q, q2, back, back2)
  PROVE TaLive(c, s2, q2, back2, u, v)
<1>0. /\ l.retry \in Nat /\ c \in TaCoordRec(l) /\ srv \in TaSrvRec(l) /\ i \in TaIds(l) /\ q \in Seq(TaMsg(l))
      /\ TaLive(c, srv, q, back, u, v) /\ <<u, c.try>> # i
      /\ TaKept(srv, s2, i) /\ TaWrote(coord, srv, s2, i, v[2]) /\ TaOrdered(q)
      /\ TaLess(q, q2, c.try) /\ TaNoneGranted(c, back, back2, u, v) BY DEF TaOther
<1> DEFINE j == <<u, c.try>>
           s == v[2]
<1>1. j # <<>> /\ j[1] = u /\ j[2] = c.try /\ j # i BY <1>0
<1>2. TaWrites(u, s) \subseteq TaRows BY TaWritesIn
<1> HIDE DEF j
<1>3. TaHolds(srv, j, s) => TaHolds(s2, j, s) BY <1>0, <1>1, <1>2, TaHoldsKept
<1>4. \A x \in TaRows : TaIn(j, s2.rows[x]) <=> TaIn(j, srv.rows[x])
 <2> SUFFICES ASSUME NEW x \in TaRows PROVE TaIn(j, s2.rows[x]) <=> TaIn(j, srv.rows[x]) OBVIOUS
 <2>1. srv.rows[x] \in Seq(TaIds(l)) BY <1>0 DEF TaSrvRec
 <2>2. CASE s2.rows[x] = srv.rows[x] BY <2>2
 <2>3. CASE s2.rows[x] = Append(srv.rows[x], i) BY <1>0, <1>1, <2>1, <2>3, TaInAppended
 <2> QED BY <1>0, <2>2, <2>3 DEF TaWrote
<1>5. /\ \A a \in 1..Len(q2) : \E b \in 1..Len(q) : q2[a] = q[b]
      /\ \A b \in 1..Len(q) : q[b].id[2] = c.try => \E a \in 1..Len(q2) : q2[a] = q[b]
 <2>1. CASE q2 = q BY <2>1
 <2>2. CASE q # <<>> /\ q2 = Tail(q) /\ Head(q).id[2] # c.try
  <3>1. /\ Head(q) = q[1]
        /\ \A a \in 1..Len(q2) : a + 1 \in 1..Len(q) /\ q2[a] = q[a + 1]
        /\ \A b \in 1..Len(q) : b # 1 => b - 1 \in 1..Len(q2) /\ q2[b - 1] = q[b] BY <1>0, <2>2, TaPop
  <3> QED BY <2>2, <3>1
 <2> QED BY <1>0, <2>1, <2>2 DEF TaLess
<1>6. TaSilent(q, c.try) => TaSilent(q2, c.try) BY <1>5 DEF TaSilent
<1>7. TaComing(srv, q, j, s) => TaComing(s2, q2, j, s)
 <2> SUFFICES ASSUME TaComing(srv, q, j, s) PROVE TaComing(s2, q2, j, s) OBVIOUS
 <2>1. \E a \in 1..Len(q2) : q2[a].id[2] = c.try
  <3>1. PICK b \in 1..Len(q) : q[b].id[2] = c.try BY <1>1 DEF TaComing
  <3>2. PICK a \in 1..Len(q2) : q2[a] = q[b] BY <1>5, <3>1
  <3> QED BY <3>1, <3>2
 <2>2. \A a \in 1..Len(q2) : q2[a].id[2] = c.try => q2[a].type = "Decide"
  <3>1. \A b \in 1..Len(q) : q[b].id[2] = c.try => q[b].type = "Decide" BY <1>1 DEF TaComing
  <3> QED BY <1>5, <3>1
 <2>3. TaHolds(s2, j, s) /\ \A x \in TaRows : ~TaIn(j, s2.rows[x]) BY <1>3, <1>4 DEF TaComing
 <2> QED BY <1>1, <2>1, <2>2, <2>3 DEF TaComing
<1>8. TaApplied(srv, q, j, s) => TaApplied(s2, q2, j, s) BY <1>1, <1>2, <1>4, <1>6 DEF TaApplied
<1> HIDE DEF s
<1>9. c.phase = "fast" /\ TaGranted(c, back2, u, v) => TaHolds(s2, j, s) /\ TaSilent(q2, c.try)
  BY <1>0, <1>3, <1>6 DEF TaLive, TaNoneGranted, j, s
<1>10. c.reply = "SUCCESS" /\ s \in TaParsOf(TaPieces(u)) => TaComing(s2, q2, j, s) \/ TaApplied(s2, q2, j, s)
  BY <1>0, <1>7, <1>8 DEF TaLive, j, s
<1> QED BY <1>9, <1>10 DEF TaLive, j, s

(* A replica that handles a call of t's coordinator. *)
LEMMA TaServerStep ==
  ASSUME TaInv, NEW t \in TaTxns, NEW v \in TaServers, ta_net[TaCall(t, v)] # <<>>,
         NEW i, i = Head(ta_net[TaCall(t, v)]).id,
         NEW s2 \in TaSrvRec(ta_load), ta_srv' = [ta_srv EXCEPT ![v] = s2],
         TaKept(ta_srv[v], s2, i), TaWrote(ta_coord, ta_srv[v], s2, i, v[2]),
         \A j \in DOMAIN s2.exec : s2.exec[j].upd \subseteq TaWrites(j[1], v[2]),
         \A u \in TaServers : u[2] = v[2] /\ u # v => \A x \in TaRows : TaClose(s2, ta_srv[u], x),
         NetOf(ta_net', TaConns, TaMsg(ta_load)),
         ta_net'[TaCall(t, v)] = Tail(ta_net[TaCall(t, v)]),
         \A u \in TaTxns, w \in TaServers : <<u, w>> # <<t, v>> =>
           ta_net'[TaCall(u, w)] = ta_net[TaCall(u, w)] /\ ta_net'[TaBack(u, w)] = ta_net[TaBack(u, w)],
         TaAcks(ta_coord[t], ta_net'[TaBack(t, v)]),
         TaGranted(ta_coord[t], ta_net'[TaBack(t, v)], t, v) /\ i # <<t, ta_coord[t].try>> =>
           TaGranted(ta_coord[t], ta_net[TaBack(t, v)], t, v),
         i = <<t, ta_coord[t].try>> =>
           TaLive(ta_coord[t], s2, ta_net'[TaCall(t, v)], ta_net'[TaBack(t, v)], t, v),
         UNCHANGED <<ta_load, ta_coord>>
  PROVE TaInv'
<1> DEFINE l == ta_load
           M == TaMsg(l)
           q == ta_net[TaCall(t, v)]
<1>0. /\ TaTypeInv /\ TaCoordsOK /\ TaQueuesOK /\ TaLiveOK /\ TaServersOK /\ TaPairsOK
      /\ l.retry \in Nat /\ TaTxns = l.txns /\ TaTxns' = TaTxns /\ TaConns' = TaConns
      /\ ta_coord \in [TaTxns -> TaCoordRec(l)] /\ ta_srv \in [TaServers -> TaSrvRec(l)]
  BY TaLoadIs DEF TaInv, TaTypeInv, TaTxns, TaConns
<1>1. /\ ta_srv' \in [TaServers -> TaSrvRec(l)] /\ ta_srv'[v] = s2
      /\ \A u \in TaServers : u # v => ta_srv'[u] = ta_srv[u] BY <1>0
<1>2. TaTypeInv' BY <1>0, <1>1 DEF TaTypeInv, NetOf
<1>3. /\ q \in Seq(M) /\ q # <<>> /\ TaOrdered(q) /\ TaUpTo(q, TaStage(ta_coord[t]))
      /\ \A a \in 1..Len(q) : TaCallOK(ta_coord[t], q[a], t, v) BY <1>0, TaNetIs DEF TaQueuesOK
<1>4. /\ TaOrdered(Tail(q)) /\ \A n : TaUpTo(q, n) => TaUpTo(Tail(q), n)
      /\ Head(q) = q[1] /\ 1 \in 1..Len(q) /\ Head(q) \in M /\ Tail(q) \in Seq(M)
      /\ \A a \in 1..Len(Tail(q)) : a + 1 \in 1..Len(q) /\ Tail(q)[a] = q[a + 1] /\ Tail(q)[a] \in M
  BY <1>0, <1>3, TaPop
<1>5. i = <<t, i[2]>> /\ i \in TaIds(l)
 <2>1. TaCallOK(ta_coord[t], Head(q), t, v) BY <1>3, <1>4
 <2>2. Head(q).id[1] = t BY <2>1 DEF TaCallOK
 <2>3. i = <<i[1], i[2]>> /\ i \in TaIds(l) BY <1>0, <1>4, TaRankIs
 <2> QED BY <2>2, <2>3
<1>6. TaQueuesOK'
 <2> SUFFICES ASSUME NEW u \in TaTxns, NEW w \in TaServers
              PROVE  LET p == ta_net'[TaCall(u, w)]
                     IN  /\ TaOrdered(p) /\ TaUpTo(p, TaStage(ta_coord[u])) /\ TaAcks(ta_coord[u], ta_net'[TaBack(u, w)])
                         /\ \A a \in 1..Len(p) : TaCallOK(ta_coord[u], p[a], u, w)
   BY <1>0 DEF TaQueuesOK, TaCall, TaBack, TaCoord
 <2>1. CASE u = t /\ w = v BY <1>3, <1>4, <2>1
 <2>2. CASE ~(u = t /\ w = v) BY <1>0, <2>2 DEF TaQueuesOK
 <2> QED BY <2>1, <2>2
<1>7. TaLiveOK'
 <2> SUFFICES ASSUME NEW u \in TaTxns, NEW w \in TaServers
              PROVE TaLive(ta_coord[u], ta_srv'[w], ta_net'[TaCall(u, w)], ta_net'[TaBack(u, w)], u, w)
   BY <1>0 DEF TaLiveOK, TaCall, TaBack, TaCoord
 <2>0. TaLive(ta_coord[u], ta_srv[w], ta_net[TaCall(u, w)], ta_net[TaBack(u, w)], u, w) BY <1>0 DEF TaLiveOK
 <2>1. CASE w # v BY <1>1, <2>0, <2>1
 <2>2. CASE w = v /\ u = t /\ i = <<t, ta_coord[t].try>> BY <1>1, <2>2
 <2>3. CASE w = v /\ <<u, ta_coord[u].try>> # i
  <3> DEFINE c == ta_coord[u]
             srv == ta_srv[v]
             p == ta_net[TaCall(u, v)]
             p2 == ta_net'[TaCall(u, v)]
             back == ta_net[TaBack(u, v)]
             back2 == ta_net'[TaBack(u, v)]
  <3>1. c \in TaCoordRec(l) /\ srv \in TaSrvRec(l) /\ p \in Seq(M) /\ TaOrdered(p) BY <1>0, TaNetIs DEF TaQueuesOK
  <3>2. p2 = p \/ (p # <<>> /\ p2 = Tail(p) /\ Head(p).id[2] # c.try)
   <4>1. CASE u = t
    <5>1. i[2] # c.try BY <1>5, <2>3, <4>1
    <5> QED BY <4>1, <5>1
   <4>2. CASE u # t BY <4>2
   <4> QED BY <4>1, <4>2
  <3>3. TaGranted(c, back2, u, v) => TaGranted(c, back, u, v)
   <4>1. CASE u = t BY <2>3, <4>1
   <4>2. CASE u # t BY <4>2
   <4> QED BY <4>1, <4>2
  <3>4. TaLive(c, srv, p, back, u, v) /\ <<u, c.try>> # i BY <2>0, <2>3
  <3> HIDE DEF c, srv, p, p2, back, back2
  <3>8. TaLess(p, p2, c.try) /\ TaNoneGranted(c, back, back2, u, v) BY <3>2, <3>3 DEF TaLess, TaNoneGranted
  <3>5. TaKept(srv, s2, i) /\ TaWrote(ta_coord, srv, s2, i, v[2]) BY DEF srv
  <3>7. ta_load.retry \in Nat /\ i \in TaIds(ta_load) /\ c \in TaCoordRec(ta_load) /\ srv \in TaSrvRec(ta_load)
        /\ p \in Seq(TaMsg(ta_load)) BY <1>0, <1>5, <3>1
  <3>9. TaOther(l, ta_coord, c, srv, s2, i, u, v, p, p2, back, back2) BY <3>7, <3>1, <3>4, <3>5, <3>8 DEF TaOther
  <3>6. TaLive(c, s2, p2, back2, u, v) BY <3>9, TaLiveKept
  <3> QED BY <1>1, <2>3, <3>6 DEF c, p2, back2
 <2> QED BY <1>5, <2>1, <2>2, <2>3
<1>8. TaServersOK'
 <2> SUFFICES ASSUME NEW w \in TaServers PROVE TaServerOK(ta_coord, ta_srv'[w], w[2]) BY DEF TaServersOK
 <2>0. TaServerOK(ta_coord, ta_srv[w], w[2]) BY <1>0 DEF TaServersOK
 <2>1. CASE w # v BY <1>1, <2>0, <2>1
 <2>2. CASE w = v
  <3> DEFINE srv == ta_srv[v]
  <3>1. ASSUME NEW x \in TaRows, NEW a \in 1..Len(s2.rows[x])
        PROVE TaDone(ta_coord[s2.rows[x][a][1]], s2.rows[x][a][2]) /\ x \in TaWrites(s2.rows[x][a][1], v[2])
   <4>1. CASE s2.rows[x] = srv.rows[x] BY <2>0, <2>2, <4>1 DEF TaServerOK
   <4>2. CASE s2.rows[x] = Append(srv.rows[x], i) /\ TaDone(ta_coord[i[1]], i[2]) /\ x \in TaWrites(i[1], v[2])
    <5> DEFINE r == srv.rows[x]
    <5>1. r \in Seq(TaIds(l)) BY <1>0 DEF TaSrvRec
    <5>2. \A b \in 1..Len(r) : TaDone(ta_coord[r[b][1]], r[b][2]) /\ x \in TaWrites(r[b][1], v[2])
      BY <2>0, <2>2 DEF TaServerOK
    <5> HIDE DEF r
    <5>3. a \in 1..(Len(r) + 1) /\ Len(r) \in Nat /\ s2.rows[x] = Append(r, i) BY <1>5, <4>2, <5>1 DEF r
    <5>4. CASE a \in 1..Len(r)
     <6>1. s2.rows[x][a] = r[a] BY <1>5, <5>1, <5>3, <5>4
     <6> QED BY <5>2, <5>4, <6>1
    <5>5. CASE a = Len(r) + 1
     <6>1. s2.rows[x][a] = i BY <1>5, <5>1, <5>3, <5>5
     <6> QED BY <4>2, <6>1
    <5> QED BY <5>3, <5>4, <5>5
   <4> QED BY <4>1, <4>2 DEF TaWrote
  <3>2. TaServerOK(ta_coord, s2, v[2]) BY <3>1 DEF TaServerOK
  <3> QED BY <1>1, <2>2, <3>2
 <2> QED BY <2>1, <2>2
<1>9. TaPairsOK'
 <2> SUFFICES ASSUME NEW w \in TaServers, NEW u \in TaServers, w[2] = u[2], NEW x \in TaRows
              PROVE TaClose(ta_srv'[w], ta_srv'[u], x) BY DEF TaPairsOK
 <2>1. TaClose(ta_srv[w], ta_srv[u], x) BY <1>0 DEF TaPairsOK
 <2>2. CASE w # v /\ u # v BY <1>1, <2>1, <2>2
 <2>3. CASE w = v /\ u = v BY <2>3 DEF TaClose
 <2>4. CASE w = v /\ u # v BY <1>1, <2>4
 <2>5. CASE w # v /\ u = v
  <3>1. TaClose(s2, ta_srv[w], x) BY <2>5
  <3>2. TaClose(ta_srv[w], s2, x) BY <3>1 DEF TaClose
  <3> QED BY <1>1, <2>5, <3>2
 <2> QED BY <2>2, <2>3, <2>4, <2>5
<1>10. TaCoordsOK' BY <1>0 DEF TaCoordsOK
<1> QED BY <1>2, <1>6, <1>7, <1>8, <1>9, <1>10 DEF TaInv

LEMMA TaIdIs ==
  ASSUME TaInv, NEW t \in TaTxns, NEW v \in TaServers, ta_net[TaCall(t, v)] # <<>>
  PROVE  LET q == ta_net[TaCall(t, v)]
             m == Head(q)
         IN  /\ q \in Seq(TaMsg(ta_load)) /\ q # <<>> /\ m \in TaMsg(ta_load) /\ TaOrdered(q)
             /\ m.id \in TaIds(ta_load) /\ m.id = <<t, m.id[2]>> /\ m.id # <<>> /\ m.id[1] = t
             /\ TaCallOK(ta_coord[t], m, t, v) /\ TaRank(m) <= TaStage(ta_coord[t])
             /\ 1 \in 1..Len(q) /\ q[1] = m
             /\ TaUpTo(q, TaStage(ta_coord[t]))
<1> DEFINE l == ta_load
           q == ta_net[TaCall(t, v)]
           m == Head(q)
<1>1. /\ l.retry \in Nat /\ q \in Seq(TaMsg(l)) /\ q # <<>> /\ TaOrdered(q) /\ TaUpTo(q, TaStage(ta_coord[t]))
      /\ \A a \in 1..Len(q) : TaCallOK(ta_coord[t], q[a], t, v) BY TaLoadIs, TaNetIs DEF TaInv, TaTypeInv, TaQueuesOK
<1> HIDE DEF q, l
<1>2. m = q[1] /\ 1 \in 1..Len(q) /\ m \in TaMsg(l) BY <1>1, TaPop
<1>3. TaCallOK(ta_coord[t], m, t, v) /\ TaRank(m) <= TaStage(ta_coord[t]) BY <1>1, <1>2 DEF TaUpTo
<1>4. m.id[1] = t BY <1>3 DEF TaCallOK
<1>5. m.id \in TaIds(l) /\ m.id = <<m.id[1], m.id[2]>> BY <1>1, <1>2, TaRankIs
<1>6. m.id # <<>> BY <1>5
<1> QED BY <1>1, <1>2, <1>3, <1>4, <1>5, <1>6 DEF q, l

(* The connections after a replica took a call, and after it answered. *)
TaTookCall(t, v) ==
  /\ NetOf(ta_net', TaConns, TaMsg(ta_load))
  /\ ta_net'[TaCall(t, v)] = Tail(ta_net[TaCall(t, v)])
  /\ \A u \in TaTxns, w \in TaServers : <<u, w>> # <<t, v>> =>
       ta_net'[TaCall(u, w)] = ta_net[TaCall(u, w)] /\ ta_net'[TaBack(u, w)] = ta_net[TaBack(u, w)]

LEMMA TaSilentTook ==
  ASSUME TaTypeInv, NEW t \in TaTxns, NEW v \in TaServers, ta_net[TaCall(t, v)] # <<>>,
         ta_net' = Taken(ta_net, TaCall(t, v))
  PROVE TaTookCall(t, v) /\ ta_net'[TaBack(t, v)] = ta_net[TaBack(t, v)]
<1> DEFINE k == TaCall(t, v)
<1>1. NetOf(ta_net, TaConns, TaMsg(ta_load)) /\ k \in TaConns BY TaNetIs, TaConnsAre
<1>2. /\ NetOf(ta_net', TaConns, TaMsg(ta_load)) /\ ta_net'[k] = Tail(ta_net[k])
      /\ \A j \in TaConns : j # k => ta_net'[j] = ta_net[j] BY <1>1, NetTook
<1>3. ASSUME NEW u \in TaTxns, NEW w \in TaServers
      PROVE  /\ ta_net'[TaBack(u, w)] = ta_net[TaBack(u, w)]
             /\ <<u, w>> # <<t, v>> => ta_net'[TaCall(u, w)] = ta_net[TaCall(u, w)]
 <2>1. /\ TaBack(u, w) # k /\ (TaCall(u, w) = k => u = t /\ w = v)
       /\ TaCall(u, w) \in TaConns /\ TaBack(u, w) \in TaConns BY TaApart, TaConnsAre
 <2> QED BY <1>2, <2>1
<1> QED BY <1>2, <1>3 DEF TaTookCall

LEMMA TaAnswered ==
  ASSUME TaTypeInv, NEW t \in TaTxns, NEW v \in TaServers, ta_net[TaCall(t, v)] # <<>>,
         NEW ack \in TaMsg(ta_load), TaAnswer(v, t, TaCall(t, v), ack)
  PROVE TaTookCall(t, v) /\ ta_net'[TaBack(t, v)] = Append(ta_net[TaBack(t, v)], ack)
<1> DEFINE k == TaCall(t, v)
           M == TaMsg(ta_load)
           net1 == Taken(ta_net, k)
           e0 == To({TaCoord(t)}, ack)
           calls == {e0}
           r == Calls(net1, v, calls)
<1>1. NetOf(ta_net, TaConns, M) /\ k \in TaConns BY TaNetIs, TaConnsAre
<1>2. /\ NetOf(net1, TaConns, M) /\ net1[k] = Tail(ta_net[k])
      /\ \A j \in TaConns : j # k => net1[j] = ta_net[j] BY <1>1, NetTook
<1>3. ta_net' = r BY DEF TaAnswer
<1>4. e0.to = {TaCoord(t)} /\ e0.msg = ack BY DEF To
<1> HIDE DEF net1, e0, r
<1>5. \A e \in calls : e.msg \in M BY <1>4
<1>6. /\ NetOf(r, TaConns, M)
      /\ \A j \in TaConns :
           \/ r[j] = net1[j] /\ (j[1] = v => \A e \in calls : j[2] \notin e.to)
           \/ j[1] = v /\ \E e \in calls : j[2] \in e.to /\ r[j] = Append(net1[j], e.msg) BY <1>2, <1>5, NetSent DEF r
<1>7. \A j \in TaConns :
           \/ r[j] = net1[j] /\ ~(j[1] = v /\ j[2] = TaCoord(t))
           \/ j[1] = v /\ j[2] = TaCoord(t) /\ r[j] = Append(net1[j], ack) BY <1>4, <1>6
<1>8. ASSUME NEW u \in TaTxns, NEW w \in TaServers
      PROVE  /\ (<<u, w>> # <<t, v>> => r[TaBack(u, w)] = ta_net[TaBack(u, w)] /\ r[TaCall(u, w)] = ta_net[TaCall(u, w)])
             /\ (u = t /\ w = v => r[TaBack(u, w)] = Append(ta_net[TaBack(u, w)], ack) /\ r[TaCall(u, w)] = Tail(ta_net[k]))
 <2>1. /\ TaBack(u, w) # k /\ (TaCall(u, w) = k => u = t /\ w = v)
       /\ TaCall(u, w) \in TaConns /\ TaBack(u, w) \in TaConns
       /\ TaCall(u, w)[1] = TaCoord(u) /\ TaBack(u, w)[1] = w /\ TaBack(u, w)[2] = TaCoord(u)
       /\ TaCoord(u) # v /\ (TaCoord(u) = TaCoord(t) => u = t) BY TaApart, TaConnsAre
 <2>2. r[TaCall(u, w)] = net1[TaCall(u, w)] BY <1>7, <2>1
 <2>3. \/ r[TaBack(u, w)] = net1[TaBack(u, w)] /\ ~(w = v /\ u = t)
       \/ w = v /\ u = t /\ r[TaBack(u, w)] = Append(net1[TaBack(u, w)], ack) BY <1>7, <2>1
 <2>4. net1[TaBack(u, w)] = ta_net[TaBack(u, w)] BY <1>2, <2>1
 <2> QED BY <1>2, <2>1, <2>2, <2>3, <2>4
<1> QED BY <1>3, <1>6, <1>8 DEF TaTookCall

LEMMA TaExecIs ==
  ASSUME TaInv, NEW v \in TaServers, NEW i \in TaIds(ta_load)
  PROVE  /\ TaExec(v, i) \in TaExecRec /\ TaExec(v, i).upd \subseteq TaWrites(i[1], v[2])
         /\ ta_srv[v] \in TaSrvRec(ta_load)
         /\ \A j \in DOMAIN ta_srv[v].exec : ta_srv[v].exec[j].upd \subseteq TaWrites(j[1], v[2])
<1>1. ta_srv[v] \in TaSrvRec(ta_load) /\ TaServerOK(ta_coord, ta_srv[v], v[2]) BY DEF TaInv, TaTypeInv, TaServersOK
<1>2. \A j \in DOMAIN ta_srv[v].exec : ta_srv[v].exec[j].upd \subseteq TaWrites(j[1], v[2]) BY <1>1 DEF TaServerOK
<1>3. CASE i \in DOMAIN ta_srv[v].exec
 <2>1. TaExec(v, i) = ta_srv[v].exec[i] BY <1>3 DEF TaExec
 <2>2. PICK S \in SUBSET TaIds(ta_load) : ta_srv[v].exec \in [S -> TaExecRec] BY <1>1 DEF TaSrvRec
 <2>3. ta_srv[v].exec[i] \in TaExecRec BY <1>3, <2>2
 <2> QED BY <1>1, <1>2, <1>3, <2>1, <2>3
<1>4. CASE i \notin DOMAIN ta_srv[v].exec
 <2> DEFINE f == [x \in {} |-> 0]
 <2>1. TaExec(v, i) = [reads |-> f, upd |-> {}, locked |-> {}] BY <1>4 DEF TaExec, TaFreshExec
 <2>2. f \in [{} -> Nat] /\ {} \in SUBSET TaRows OBVIOUS
 <2>3. f \in UNION {[S -> Nat] : S \in SUBSET TaRows} BY <2>2
 <2> HIDE DEF f
 <2> QED BY <1>1, <1>2, <2>1, <2>3 DEF TaExecRec
<1> QED BY <1>3, <1>4

(* A replica that applies no write and gives up no lock stays close to the others. *)
LEMMA TaCloseKept ==
  ASSUME TaInv, NEW v \in TaServers, NEW s2, s2.rows = ta_srv[v].rows,
         \A x \in TaRows : ta_srv[v].w[x] # <<>> => s2.w[x] = ta_srv[v].w[x],
         NEW u \in TaServers, u[2] = v[2], NEW x \in TaRows
  PROVE TaClose(s2, ta_srv[u], x)
<1>1. TaClose(ta_srv[v], ta_srv[u], x) BY DEF TaInv, TaPairsOK
<1>2. TaAhead(ta_srv[u], ta_srv[v], x) => TaAhead(ta_srv[u], s2, x) BY DEF TaAhead
<1>3. TaAhead(ta_srv[v], ta_srv[u], x) => TaAhead(s2, ta_srv[u], x) BY DEF TaAhead
<1> QED BY <1>1, <1>2, <1>3 DEF TaClose

(* A call other than Decide of the attempt that the coordinator is at: the coordinator
   has no answer to FastAccept and no decision yet. *)
LEMMA TaEarly ==
  ASSUME TaInv, NEW t \in TaTxns, NEW v \in TaServers, ta_net[TaCall(t, v)] # <<>>,
         Head(ta_net[TaCall(t, v)]).id = <<t, ta_coord[t].try>>
  PROVE  /\ ~(ta_coord[t].phase = "fast" /\ TaGranted(ta_coord[t], ta_net[TaBack(t, v)], t, v))
         /\ Head(ta_net[TaCall(t, v)]).type # "Decide" =>
              ~(ta_coord[t].reply = "SUCCESS" /\ v[2] \in TaParsOf(TaPieces(t)))
         /\ ta_coord[t].reply = "SUCCESS" /\ v[2] \in TaParsOf(TaPieces(t)) =>
              TaComing(ta_srv[v], ta_net[TaCall(t, v)], <<t, ta_coord[t].try>>, v[2])
<1> DEFINE c == ta_coord[t]
           q == ta_net[TaCall(t, v)]
           m == Head(q)
           back == ta_net[TaBack(t, v)]
           srv == ta_srv[v]
           j == <<t, c.try>>
<1>1. TaLive(c, srv, q, back, t, v) BY DEF TaInv, TaLiveOK
<1>2. 1 \in 1..Len(q) /\ q[1] = m BY TaIdIs
<1>3. m.id[2] = c.try /\ j[2] = c.try OBVIOUS
<1> HIDE DEF c, q, m, back, srv, j
<1>4. ~TaSilent(q, c.try) BY <1>2, <1>3 DEF TaSilent
<1>5. ~(c.phase = "fast" /\ TaGranted(c, back, t, v)) BY <1>1, <1>4 DEF TaLive
<1>6. ~TaApplied(srv, q, j, v[2]) BY <1>3, <1>4 DEF TaApplied
<1>7. c.reply = "SUCCESS" /\ v[2] \in TaParsOf(TaPieces(t)) => TaComing(srv, q, j, v[2]) BY <1>1, <1>6 DEF TaLive, j
<1>8. TaComing(srv, q, j, v[2]) => m.type = "Decide" BY <1>2, <1>3 DEF TaComing
<1> QED BY <1>5, <1>7, <1>8 DEF c, q, m, back, srv, j

LEMMA TaAckAdded ==
  ASSUME NEW l, NEW c, NEW back \in Seq(TaMsg(l)), NEW ack \in TaMsg(l), NEW t, NEW v
  PROVE  /\ TaGranted(c, Append(back, ack), t, v) =>
              \/ TaGranted(c, back, t, v)
              \/ ack.type = "FastAcceptAck" /\ ack.res = "SUCCESS" /\ ack.id = <<t, c.try>>
         /\ TaAcks(c, back) /\ (ack.type = "FastAcceptAck" => 3 * ack.id[2] + 1 <= TaStage(c)) =>
              TaAcks(c, Append(back, ack))
<1> DEFINE r == Append(back, ack)
           n == Len(back)
<1>1. n \in Nat /\ Len(r) = n + 1 /\ r[n + 1] = ack /\ \A a \in 1..n : r[a] = back[a] OBVIOUS
<1> HIDE DEF r
<1>2. \A a \in 1..Len(r) : a \in 1..Len(back) \/ a = n + 1 BY <1>1
<1>3. \A a \in 1..Len(r) : (a \in 1..Len(back) /\ r[a] = back[a]) \/ r[a] = ack BY <1>1, <1>2
<1>4. TaGranted(c, r, t, v) => TaGranted(c, back, t, v) \/
        (ack.type = "FastAcceptAck" /\ ack.res = "SUCCESS" /\ ack.id = <<t, c.try>>) BY <1>3 DEF TaGranted
<1>5. TaAcks(c, back) /\ (ack.type = "FastAcceptAck" => 3 * ack.id[2] + 1 <= TaStage(c)) => TaAcks(c, r)
  BY <1>3 DEF TaAcks
<1> QED BY <1>4, <1>5 DEF r

(* What is left to show of a handler at replica v for attempt i, whose replica becomes
   s2. *)
TaStepAt(t, v, i, s2) ==
  /\ s2 \in TaSrvRec(ta_load) /\ ta_srv' = [ta_srv EXCEPT ![v] = s2]
  /\ TaKept(ta_srv[v], s2, i) /\ TaWrote(ta_coord, ta_srv[v], s2, i, v[2])
  /\ \A j \in DOMAIN s2.exec : s2.exec[j].upd \subseteq TaWrites(j[1], v[2])
  /\ \A u \in TaServers : u[2] = v[2] /\ u # v => \A x \in TaRows : TaClose(s2, ta_srv[u], x)
  /\ TaTookCall(t, v)
  /\ TaAcks(ta_coord[t], ta_net'[TaBack(t, v)])
  /\ TaGranted(ta_coord[t], ta_net'[TaBack(t, v)], t, v) /\ i # <<t, ta_coord[t].try>> =>
       TaGranted(ta_coord[t], ta_net[TaBack(t, v)], t, v)
  /\ i = <<t, ta_coord[t].try>> =>
       TaLive(ta_coord[t], s2, ta_net'[TaCall(t, v)], ta_net'[TaBack(t, v)], t, v)
  /\ UNCHANGED <<ta_load, ta_coord>>

LEMMA TaStepAtInv ==
  ASSUME TaInv, NEW t \in TaTxns, NEW v \in TaServers, ta_net[TaCall(t, v)] # <<>>,
         NEW i, i = Head(ta_net[TaCall(t, v)]).id, NEW s2, TaStepAt(t, v, i, s2)
  PROVE TaInv'
BY TaServerStep DEF TaStepAt, TaTookCall

LEMMA TaOnDispatchInv ==
  ASSUME TaInv, NEW t \in TaTxns, NEW v \in TaServers, TaOnDispatch(v, t)
  PROVE TaInv'
<1> DEFINE l == ta_load
           c == ta_coord[t]
           q == ta_net[TaCall(t, v)]
           m == Head(q)
           i == m.id
           back == ta_net[TaBack(t, v)]
           srv == ta_srv[v]
           e == TaExec(v, i)
           e2 == TaExecute(v, e, m.pieces)
           s2 == TaPutExec(srv, i, e2)
           vers2 == TaOutput(v, m.pieces)
           ack == [type |-> "DispatchAck", id |-> i, pieces |-> m.pieces, vers |-> vers2]
<1>1. /\ q # <<>> /\ m.type = "Dispatch" /\ ta_srv' = [ta_srv EXCEPT ![v] = s2]
      /\ TaAnswer(v, t, TaCall(t, v), ack) /\ UNCHANGED <<ta_load, ta_coord>> BY DEF TaOnDispatch, Receives, TaCall
<1>2. /\ q \in Seq(TaMsg(l)) /\ m \in TaMsg(l) /\ i \in TaIds(l) /\ i[1] = t /\ i # <<>> /\ TaCallOK(c, m, t, v)
  BY <1>1, TaIdIs
<1>3. TaTypeInv /\ back \in Seq(TaMsg(l)) /\ TaAcks(c, back) BY TaNetIs DEF TaInv, TaQueuesOK
<1>4. /\ e \in TaExecRec /\ e.upd \subseteq TaWrites(t, v[2]) /\ srv \in TaSrvRec(l)
      /\ \A j \in DOMAIN srv.exec : srv.exec[j].upd \subseteq TaWrites(j[1], v[2]) BY <1>2, TaExecIs
<1> HIDE DEF e, m
<1>5. m.pieces \in TaPieceSet /\ m.pieces \subseteq TaHere(t, v[2]) BY <1>1, <1>2 DEF TaMsg, TaCallOK
<1>6. e2 \in TaExecRec /\ e2.upd = e.upd \cup TaWritesOf(m.pieces) BY <1>3, <1>4, <1>5, TaExecuteIs
<1>7. e2.upd \subseteq TaWrites(t, v[2]) BY <1>4, <1>5, <1>6 DEF TaWrites, TaWritesOf
<1>8. vers2 \in TaVersions
 <2>1. \A x \in TaRows : TaVer(v, x) \in Nat
  <3> SUFFICES ASSUME NEW x \in TaRows PROVE TaVer(v, x) \in Nat OBVIOUS
  <3>1. srv.rows[x] \in Seq(TaIds(l)) BY <1>4 DEF TaSrvRec
  <3> QED BY <3>1 DEF TaVer
 <2>2. UNION {TaPieceOf[p].outs : p \in m.pieces} \subseteq TaRows BY <1>5, TaAssumption DEF TaPieceSet, TaRows
 <2> QED BY <2>1, <2>2 DEF TaOutput, TaVersions
<1> HIDE DEF e2, vers2
<1>9. ack \in TaMsg(l) /\ ack.type = "DispatchAck" BY <1>2, <1>5, <1>8 DEF TaMsg
<1> HIDE DEF ack
<1>10. /\ s2 \in TaSrvRec(l) /\ s2.rows = srv.rows /\ s2.w = srv.w
       /\ DOMAIN s2.exec = DOMAIN srv.exec \cup {i} /\ s2.exec[i] = e2
       /\ \A j \in DOMAIN srv.exec : j # i => s2.exec[j] = srv.exec[j] BY <1>2, <1>4, <1>6, TaPutExecIs
<1> HIDE DEF s2, i
<1>11. TaTookCall(t, v) /\ ta_net'[TaBack(t, v)] = Append(back, ack) BY <1>1, <1>3, <1>9, TaAnswered
<1>12. TaKept(srv, s2, i) /\ TaWrote(ta_coord, srv, s2, i, v[2]) BY <1>10 DEF TaKept, TaWrote
<1>13. \A j \in DOMAIN s2.exec : s2.exec[j].upd \subseteq TaWrites(j[1], v[2]) BY <1>2, <1>4, <1>7, <1>10
<1>14. \A u \in TaServers : u[2] = v[2] /\ u # v => \A x \in TaRows : TaClose(s2, ta_srv[u], x) BY <1>10, TaCloseKept
<1> DEFINE back2 == ta_net'[TaBack(t, v)]
<1>15. TaAcks(c, back2) /\ (TaGranted(c, back2, t, v) => TaGranted(c, back, t, v))
 <2>1. TaAcks(c, Append(back, ack)) /\ (TaGranted(c, Append(back, ack), t, v) => TaGranted(c, back, t, v))
   BY <1>3, <1>9, TaAckAdded
 <2> QED BY <1>11, <2>1
<1>16. ASSUME i = <<t, c.try>> PROVE TaLive(c, s2, ta_net'[TaCall(t, v)], back2, t, v)
 <2>1. /\ ~(c.phase = "fast" /\ TaGranted(c, back, t, v))
       /\ ~(c.reply = "SUCCESS" /\ v[2] \in TaParsOf(TaPieces(t))) BY <1>1, <1>16, TaEarly DEF m, i
 <2> HIDE DEF c, back, back2
 <2> QED BY <1>15, <2>1 DEF TaLive
<1>17. TaStepAt(t, v, i, s2) BY <1>1, <1>10, <1>11, <1>12, <1>13, <1>14, <1>15, <1>16 DEF TaStepAt
<1> QED BY <1>1, <1>17, TaStepAtInv DEF i, m

LEMMA TaOnFastAcceptInv ==
  ASSUME TaInv, NEW t \in TaTxns, NEW v \in TaServers, TaOnFastAccept(v, t)
  PROVE TaInv'
<1> DEFINE l == ta_load
           c == ta_coord[t]
           q == ta_net[TaCall(t, v)]
           m == Head(q)
           i == m.id
           back == ta_net[TaBack(t, v)]
           srv == ta_srv[v]
           e == TaExec(v, i)
           e2 == TaExecute(v, e, m.pieces)
           lk == TaLock(srv, i, e2)
           pe == [srv |-> TaPutExec(srv, i, e2), ok |-> FALSE]
           o == IF TaSameOutput(v, m) THEN lk ELSE pe
           s2 == o.srv
           ack == [type |-> "FastAcceptAck", id |-> i, res |-> IF o.ok THEN "SUCCESS" ELSE "REJECT"]
<1>1. /\ q # <<>> /\ m.type = "FastAccept" /\ ta_srv' = [ta_srv EXCEPT ![v] = s2]
      /\ TaAnswer(v, t, TaCall(t, v), ack) /\ UNCHANGED <<ta_load, ta_coord>> BY DEF TaOnFastAccept, Receives, TaCall
<1>2. /\ q \in Seq(TaMsg(l)) /\ m \in TaMsg(l) /\ i \in TaIds(l) /\ i[1] = t /\ i # <<>> /\ TaCallOK(c, m, t, v)
      /\ TaOrdered(q) /\ TaUpTo(q, TaStage(c)) /\ TaRank(m) <= TaStage(c) /\ i = <<t, i[2]>> BY <1>1, TaIdIs
<1>3. TaTypeInv /\ back \in Seq(TaMsg(l)) /\ TaAcks(c, back) /\ l.retry \in Nat /\ c \in TaCoordRec(l)
  BY TaNetIs, TaLoadIs DEF TaInv, TaQueuesOK, TaTypeInv
<1>4. /\ e \in TaExecRec /\ e.upd \subseteq TaWrites(t, v[2]) /\ srv \in TaSrvRec(l)
      /\ \A j \in DOMAIN srv.exec : srv.exec[j].upd \subseteq TaWrites(j[1], v[2]) BY <1>2, TaExecIs
<1> HIDE DEF e
<1>20. i[2] \in Nat /\ TaRank(m) = 3 * i[2] + 1 /\ 3 * i[2] + 1 <= TaStage(c) BY <1>1, <1>2, <1>3, TaRankIs
<1> HIDE DEF m
<1>5. m.pieces \in TaPieceSet /\ m.pieces = TaHere(t, v[2]) BY <1>1, <1>2 DEF TaMsg, TaCallOK
<1>6. e2 \in TaExecRec /\ e2.upd = e.upd \cup TaWritesOf(m.pieces) BY <1>3, <1>4, <1>5, TaExecuteIs
<1>7. e2.upd = TaWrites(t, v[2]) BY <1>4, <1>5, <1>6 DEF TaWrites
<1> HIDE DEF e2, i
<1>8. /\ lk.srv \in TaSrvRec(l) /\ lk.srv.rows = srv.rows
      /\ DOMAIN lk.srv.exec = DOMAIN srv.exec \cup {i} /\ lk.srv.exec[i].upd = e2.upd
      /\ \A j \in DOMAIN srv.exec : j # i => lk.srv.exec[j] = srv.exec[j]
      /\ \A x \in TaRows : srv.w[x] # <<>> => lk.srv.w[x] = srv.w[x]
      /\ lk.ok => \A x \in e2.upd : lk.srv.w[x] = i BY <1>2, <1>4, <1>6, TaLockIs
<1>9. /\ pe.srv \in TaSrvRec(l) /\ pe.srv.rows = srv.rows /\ pe.srv.w = srv.w
      /\ DOMAIN pe.srv.exec = DOMAIN srv.exec \cup {i} /\ pe.srv.exec[i] = e2
      /\ \A j \in DOMAIN srv.exec : j # i => pe.srv.exec[j] = srv.exec[j]
      /\ ~pe.ok
 <2> DEFINE z == TaPutExec(srv, i, e2)
 <2>1. /\ z \in TaSrvRec(l) /\ z.rows = srv.rows /\ z.w = srv.w
       /\ DOMAIN z.exec = DOMAIN srv.exec \cup {i} /\ z.exec[i] = e2
       /\ \A j \in DOMAIN srv.exec : j # i => z.exec[j] = srv.exec[j] BY <1>2, <1>4, <1>6, TaPutExecIs
 <2> HIDE DEF z
 <2>2. pe.srv = z /\ ~pe.ok BY DEF z
 <2> QED BY <2>1, <2>2
<1> HIDE DEF lk, pe
<1>10. o = lk \/ o = pe OBVIOUS
<1> HIDE DEF o
<1>11. /\ s2 \in TaSrvRec(l) /\ s2.rows = srv.rows
       /\ DOMAIN s2.exec = DOMAIN srv.exec \cup {i} /\ s2.exec[i].upd = e2.upd
       /\ \A j \in DOMAIN srv.exec : j # i => s2.exec[j] = srv.exec[j]
       /\ \A x \in TaRows : srv.w[x] # <<>> => s2.w[x] = srv.w[x] BY <1>8, <1>9, <1>10
<1>12. o.ok => \A x \in e2.upd : s2.w[x] = i BY <1>8, <1>9, <1>10
<1> HIDE DEF s2
<1>13. ack \in TaMsg(l) /\ ack.type = "FastAcceptAck" /\ ack.id = i /\ (ack.res = "SUCCESS" => o.ok) BY <1>2 DEF TaMsg
<1> HIDE DEF ack
<1>14. TaTookCall(t, v) /\ ta_net'[TaBack(t, v)] = Append(back, ack) BY <1>1, <1>3, <1>13, TaAnswered
<1>15. TaKept(srv, s2, i) /\ TaWrote(ta_coord, srv, s2, i, v[2]) BY <1>11 DEF TaKept, TaWrote
<1>16. \A j \in DOMAIN s2.exec : s2.exec[j].upd \subseteq TaWrites(j[1], v[2]) BY <1>2, <1>4, <1>7, <1>11
<1>17. \A u \in TaServers : u[2] = v[2] /\ u # v => \A x \in TaRows : TaClose(s2, ta_srv[u], x) BY <1>11, TaCloseKept
<1> DEFINE back2 == ta_net'[TaBack(t, v)]
           q2 == ta_net'[TaCall(t, v)]
<1>18. /\ TaAcks(c, back2)
       /\ TaGranted(c, back2, t, v) => TaGranted(c, back, t, v) \/ (o.ok /\ i = <<t, c.try>>)
 <2>1. /\ TaAcks(c, Append(back, ack))
       /\ TaGranted(c, Append(back, ack), t, v) =>
            TaGranted(c, back, t, v) \/ (ack.res = "SUCCESS" /\ ack.id = <<t, c.try>>)
  <3>1. back \in Seq(TaMsg(l)) /\ ack \in TaMsg(l) /\ TaAcks(c, back) /\ 3 * ack.id[2] + 1 <= TaStage(c)
    BY <1>3, <1>13, <1>20
  <3> HIDE DEF back, c, l
  <3> QED BY <3>1, TaAckAdded
 <2> QED BY <1>13, <1>14, <2>1
<1>19. ASSUME i = <<t, c.try>> PROVE TaLive(c, s2, q2, back2, t, v)
 <2>1. /\ ~(c.phase = "fast" /\ TaGranted(c, back, t, v))
       /\ ~(c.reply = "SUCCESS" /\ v[2] \in TaParsOf(TaPieces(t))) BY <1>1, <1>19, TaEarly DEF m, i
 <2>2. ASSUME c.phase = "fast", o.ok PROVE TaHolds(s2, <<t, c.try>>, v[2]) /\ TaSilent(q2, c.try)
  <3>1. TaHolds(s2, i, v[2]) BY <1>2, <1>7, <1>11, <1>12, <2>2 DEF TaHolds
  <3>2. TaStage(c) = 3 * i[2] + 1 /\ TaStage(c) \in Nat
   <4>1. TaStage(c) = 3 * c.try + 1 /\ TaStage(c) \in Nat BY <1>3, <2>2, TaStageIs
   <4>2. i[2] = c.try BY <1>19
   <4> QED BY <4>1, <4>2
  <3>3. TaSilent(Tail(q), m.id[2]) BY <1>1, <1>2, <1>3, <3>2, TaLastCall DEF m, i
  <3>4. q2 = Tail(q) BY <1>14 DEF TaTookCall
  <3> QED BY <1>19, <3>1, <3>3, <3>4 DEF i
 <2> HIDE DEF c, back, back2, q2
 <2> QED BY <1>18, <2>1, <2>2 DEF TaLive
<1>21. TaStepAt(t, v, i, s2) BY <1>1, <1>11, <1>14, <1>15, <1>16, <1>17, <1>18, <1>19 DEF TaStepAt
<1> QED BY <1>1, <1>21, TaStepAtInv DEF i, m

LEMMA TaOnDecideInv ==
  ASSUME TaInv, NEW t \in TaTxns, NEW v \in TaServers, TaOnDecide(v, t)
  PROVE TaInv'
<1> DEFINE l == ta_load
           c == ta_coord[t]
           q == ta_net[TaCall(t, v)]
           m == Head(q)
           i == m.id
           back == ta_net[TaBack(t, v)]
           srv == ta_srv[v]
           e == TaExec(v, i)
           s2 == TaDecided(srv, i, e, m.commit)
           W == TaWrites(t, v[2])
<1>1. /\ q # <<>> /\ m.type = "Decide" /\ ta_srv' = [ta_srv EXCEPT ![v] = s2]
      /\ ta_net' = Taken(ta_net, TaCall(t, v)) /\ UNCHANGED <<ta_load, ta_coord>> BY DEF TaOnDecide, Receives, TaCall
<1>2. /\ q \in Seq(TaMsg(l)) /\ m \in TaMsg(l) /\ i \in TaIds(l) /\ i[1] = t /\ i # <<>> /\ TaCallOK(c, m, t, v)
      /\ TaOrdered(q) /\ TaUpTo(q, TaStage(c)) /\ i = <<t, i[2]>> BY <1>1, TaIdIs
<1>3. TaTypeInv /\ back \in Seq(TaMsg(l)) /\ TaAcks(c, back) /\ l.retry \in Nat /\ c \in TaCoordRec(l)
  BY TaNetIs, TaLoadIs DEF TaInv, TaQueuesOK, TaTypeInv
<1>4. /\ e \in TaExecRec /\ e.upd \subseteq W /\ srv \in TaSrvRec(l)
      /\ \A j \in DOMAIN srv.exec : srv.exec[j].upd \subseteq TaWrites(j[1], v[2]) BY <1>2, TaExecIs
<1>5. m.commit \in BOOLEAN /\ (m.commit <=> TaDone(c, i[2])) BY <1>1, <1>2 DEF TaMsg, TaCallOK
<1>6. TaTookCall(t, v) /\ ta_net'[TaBack(t, v)] = back BY <1>1, <1>3, TaSilentTook
<1> HIDE DEF e, m
<1>7. /\ s2 \in TaSrvRec(l)
      /\ DOMAIN s2.exec = DOMAIN srv.exec \ {i}
      /\ \A j \in DOMAIN srv.exec : j # i => s2.exec[j] = srv.exec[j]
      /\ \A x \in TaRows : /\ srv.w[x] # i => s2.w[x] = srv.w[x]
                           /\ m.commit /\ x \in e.upd => s2.rows[x] = Append(srv.rows[x], i)
                           /\ ~(m.commit /\ x \in e.upd) => s2.rows[x] = srv.rows[x]
 <2> DEFINE b == m.commit
 <2>1. b \in BOOLEAN /\ srv \in TaSrvRec(l) /\ i \in TaIds(l) /\ e \in TaExecRec BY <1>2, <1>4, <1>5
 <2> HIDE DEF b, srv, i, l
 <2> DEFINE r == TaDecided(srv, i, e, b)
 <2>2. /\ r \in TaSrvRec(l)
       /\ DOMAIN r.exec = DOMAIN srv.exec \ {i}
       /\ \A j \in DOMAIN srv.exec : j # i => r.exec[j] = srv.exec[j]
       /\ \A x \in TaRows : /\ srv.w[x] # i => r.w[x] = srv.w[x]
                            /\ b /\ x \in e.upd => r.rows[x] = Append(srv.rows[x], i)
                            /\ ~(b /\ x \in e.upd) => r.rows[x] = srv.rows[x] BY <2>1, TaDecidedIs
 <2>3. r = s2 BY DEF b
 <2> HIDE DEF r, s2
 <2> QED BY <2>2, <2>3 DEF b
<1> HIDE DEF s2
<1>8. W \subseteq TaRows /\ (W # {} => v[2] \in TaParsOf(TaPieces(t))) BY TaWritesIn
(* A commit finds the attempt's locks. *)
<1>9. ASSUME m.commit, v[2] \in TaParsOf(TaPieces(t))
      PROVE  /\ e.upd = W /\ i = <<t, c.try>> /\ c.reply = "SUCCESS"
             /\ \A x \in W : srv.w[x] = i
             /\ \A x \in TaRows : ~TaIn(i, srv.rows[x])
 <2>1. c.reply = "SUCCESS" /\ i = <<t, c.try>> BY <1>2, <1>5, <1>9 DEF TaDone
 <2>2. TaComing(srv, q, <<t, c.try>>, v[2]) BY <1>1, <1>9, <2>1, TaEarly DEF m, i
 <2>3. TaComing(srv, q, i, v[2]) BY <2>1, <2>2
 <2> HIDE DEF q, c, i, srv
 <2>4. TaHolds(srv, i, v[2]) /\ \A x \in TaRows : ~TaIn(i, srv.rows[x]) BY <2>3 DEF TaComing
 <2>5. i \in DOMAIN srv.exec /\ srv.exec[i].upd = W /\ \A x \in W : srv.w[x] = i BY <1>2, <2>4 DEF TaHolds
 <2>6. e.upd = W BY <2>5 DEF e, TaExec, srv
 <2> QED BY <2>1, <2>4, <2>5, <2>6
<1> HIDE DEF i
<1>10. TaKept(srv, s2, i) BY <1>7 DEF TaKept
<1>11. TaWrote(ta_coord, srv, s2, i, v[2])
 <2> SUFFICES ASSUME NEW x \in TaRows, m.commit, x \in e.upd PROVE TaDone(ta_coord[i[1]], i[2]) /\ x \in TaWrites(i[1], v[2])
   BY <1>7 DEF TaWrote
 <2> QED BY <1>2, <1>4, <1>5
<1>12. \A j \in DOMAIN s2.exec : s2.exec[j].upd \subseteq TaWrites(j[1], v[2]) BY <1>4, <1>7
<1>13. ASSUME NEW u \in TaServers, u[2] = v[2], u # v, NEW x \in TaRows PROVE TaClose(s2, ta_srv[u], x)
 <2> DEFINE su == ta_srv[u]
 <2>1. TaClose(srv, su, x) BY <1>13 DEF TaInv, TaPairsOK
 <2>2. su \in TaSrvRec(l) /\ TaServerOK(ta_coord, su, v[2]) BY <1>13 DEF TaInv, TaTypeInv, TaServersOK
 <2>3. su.rows[x] \in Seq(TaIds(l)) /\ srv.rows[x] \in Seq(TaIds(l)) BY <1>4, <2>2 DEF TaSrvRec
 <2>4. CASE m.commit /\ x \in e.upd
  <3>1. x \in W /\ v[2] \in TaParsOf(TaPieces(t)) BY <1>4, <1>8, <2>4
  <3>2. i = <<t, c.try>> /\ c.reply = "SUCCESS" /\ srv.w[x] = i /\ ~TaIn(i, srv.rows[x]) BY <1>9, <2>4, <3>1
  <3>3. s2.rows[x] = Append(srv.rows[x], i) BY <1>7, <2>4
  <3>4. ~TaIn(i, su.rows[x]) => su.w[x] = i
   <4> SUFFICES ASSUME ~TaIn(i, su.rows[x]) PROVE su.w[x] = i OBVIOUS
   <4> DEFINE qu == ta_net[TaCall(t, u)]
   <4>1. TaLive(c, su, qu, ta_net[TaBack(t, u)], t, u) BY DEF TaInv, TaLiveOK
   <4>2. TaComing(su, qu, i, v[2]) \/ TaApplied(su, qu, i, v[2])
    <5> HIDE DEF c, su, qu
    <5> QED BY <1>13, <3>1, <3>2, <4>1 DEF TaLive
   <4>3. ~TaApplied(su, qu, i, v[2]) BY <1>2, <3>1 DEF TaApplied
   <4>4. TaHolds(su, i, v[2]) BY <4>2, <4>3 DEF TaComing
   <4> QED BY <1>2, <3>1, <4>4 DEF TaHolds
  <3> HIDE DEF su, srv
  <3>5. CASE srv.rows[x] = su.rows[x]
   <4>1. TaAhead(s2, su, x) BY <1>2, <3>2, <3>3, <3>4, <3>5 DEF TaAhead
   <4> QED BY <4>1 DEF TaClose, su
  <3>6. CASE TaAhead(srv, su, x)
   <4>1. PICK j : j # <<>> /\ srv.rows[x] = Append(su.rows[x], j) /\ su.w[x] = j BY <3>6 DEF TaAhead
   <4>2. j \in TaIds(l) BY <1>13, <2>2, <4>1 DEF TaSrvRec
   <4>3. TaIn(j, srv.rows[x]) /\ (TaIn(i, su.rows[x]) => TaIn(i, srv.rows[x])) BY <2>3, <4>1, <4>2, TaInAppended
   <4> QED BY <3>2, <3>4, <4>1, <4>3
  <3>7. CASE TaAhead(su, srv, x)
   <4>1. su.rows[x] = s2.rows[x] BY <3>2, <3>3, <3>7 DEF TaAhead
   <4> QED BY <4>1 DEF TaClose, su
  <3> QED BY <2>1, <3>5, <3>6, <3>7 DEF TaClose
 <2>5. CASE ~(m.commit /\ x \in e.upd)
  <3>1. s2.rows[x] = srv.rows[x] BY <1>7, <2>5
  <3>2. ASSUME TaAhead(su, srv, x) PROVE TaAhead(su, s2, x)
   <4>1. PICK j : j # <<>> /\ su.rows[x] = Append(srv.rows[x], j) /\ srv.w[x] = j BY <3>2 DEF TaAhead
   <4>2. j \in TaIds(l) BY <1>4, <4>1 DEF TaSrvRec
   <4>3. ASSUME j = i PROVE FALSE
    <5>1. TaIn(i, su.rows[x]) BY <2>3, <4>1, <4>2, <4>3, TaInAppended
    <5>2. TaDone(ta_coord[i[1]], i[2]) /\ x \in TaWrites(i[1], v[2]) BY <2>2, <5>1 DEF TaIn, TaServerOK
    <5>3. m.commit /\ x \in W BY <1>2, <1>5, <5>2
    <5>4. x \in e.upd BY <1>8, <1>9, <5>3
    <5> QED BY <2>5, <5>3, <5>4
   <4>4. s2.w[x] = j BY <1>7, <4>1, <4>3
   <4> QED BY <3>1, <4>1, <4>4 DEF TaAhead
  <3>3. TaAhead(srv, su, x) => TaAhead(s2, su, x) BY <3>1 DEF TaAhead
  <3> QED BY <2>1, <3>1, <3>2, <3>3 DEF TaClose
 <2> QED BY <2>4, <2>5
<1> DEFINE q2 == ta_net'[TaCall(t, v)]
           back2 == ta_net'[TaBack(t, v)]
<1>14. TaAcks(c, back2) /\ (TaGranted(c, back2, t, v) => TaGranted(c, back, t, v)) BY <1>3, <1>6
<1>15. ASSUME i = <<t, c.try>> PROVE TaLive(c, s2, q2, back2, t, v)
 <2>1. ~(c.phase = "fast" /\ TaGranted(c, back, t, v)) BY <1>1, <1>15, TaEarly DEF m, i
 <2>2. ASSUME c.reply = "SUCCESS", v[2] \in TaParsOf(TaPieces(t)) PROVE TaApplied(s2, q2, <<t, c.try>>, v[2])
  <3>1. m.commit BY <1>5, <1>15, <2>2 DEF TaDone
  <3>2. e.upd = W BY <1>9, <2>2, <3>1
  <3>3. \A x \in W : TaIn(i, s2.rows[x])
   <4> SUFFICES ASSUME NEW x \in W PROVE TaIn(i, s2.rows[x]) OBVIOUS
   <4>1. s2.rows[x] = Append(srv.rows[x], i) /\ x \in TaRows BY <1>7, <1>8, <3>1, <3>2
   <4>2. srv.rows[x] \in Seq(TaIds(l)) BY <1>4, <4>1 DEF TaSrvRec
   <4> QED BY <1>2, <4>1, <4>2, TaInAppended
  <3>4. TaSilent(Tail(q), m.id[2])
   <4>1. TaStage(c) \in Nat BY <1>3, TaStageIs
   <4> QED BY <1>1, <1>2, <1>3, <4>1, TaLastCall DEF m
  <3>5. q2 = Tail(q) BY <1>6 DEF TaTookCall
  <3>6. TaSilent(q2, i[2]) BY <3>4, <3>5 DEF i
  <3>7. TaApplied(s2, q2, i, v[2]) BY <1>2, <3>3, <3>6 DEF TaApplied
  <3> QED BY <1>15, <3>7
 <2> HIDE DEF c, back, back2, q2
 <2> QED BY <1>14, <2>1, <2>2 DEF TaLive
<1>16. TaStepAt(t, v, i, s2) BY <1>1, <1>6, <1>7, <1>10, <1>11, <1>12, <1>13, <1>14, <1>15 DEF TaStepAt
<1> QED BY <1>1, <1>16, TaStepAtInv DEF i, m

LEMMA TaInitInv == TaInit => TaInv
<1> SUFFICES ASSUME TaInit PROVE TaInv OBVIOUS
<1> DEFINE l == ta_load
           c0 == [phase |-> "init", try |-> 0, out |-> {}, acked |-> {}, vers |-> {}, oks |-> {}, rejects |-> {},
                  reply |-> "none", started |-> {}]
           f == [i \in {} |-> {}]
           s0 == [exec |-> f, rows |-> [x \in TaRows |-> <<>>],
                  w |-> [x \in TaRows |-> <<>>], r |-> [x \in TaRows |-> {}]]
<1>1. /\ l \in TaLoads /\ ta_coord = [t \in TaTxns |-> c0] /\ ta_srv = [v \in TaServers |-> s0]
      /\ ta_net = [k \in TaConns |-> <<>>] BY DEF TaInit
<1>2. l.retry \in Nat /\ TaTxns = l.txns BY <1>1, TaLoadIs
<1>3. c0 \in TaCoordRec(l) /\ c0.phase = "init" /\ c0.reply = "none" BY <1>2 DEF TaCoordRec, TaPieceSet, TaVersions
<1>4. f \in UNION {[S -> TaExecRec] : S \in SUBSET TaIds(l)} /\ DOMAIN f = {}
 <2>1. f \in [{} -> TaExecRec] /\ {} \in SUBSET TaIds(l) OBVIOUS
 <2> QED BY <2>1
<1> HIDE DEF f
<1>5. <<>> \in Seq(TaIds(l)) OBVIOUS
<1>6. s0 \in TaSrvRec(l) /\ DOMAIN s0.exec = {} /\ \A x \in TaRows : s0.rows[x] = <<>> BY <1>4, <1>5 DEF TaSrvRec
<1> HIDE DEF c0, s0
<1>7. TaTypeInv BY <1>1, <1>3, <1>6 DEF TaTypeInv
<1>8. TaCoordsOK BY <1>1, <1>3 DEF TaCoordsOK
<1>9. \A t \in TaTxns, v \in TaServers : ta_net[TaCall(t, v)] = <<>> /\ ta_net[TaBack(t, v)] = <<>> BY <1>1, TaConnsAre
<1>10. TaQueuesOK BY <1>9 DEF TaQueuesOK, TaOrdered, TaUpTo, TaAcks
<1>11. TaLiveOK BY <1>1, <1>3 DEF TaLiveOK, TaLive
<1>12. TaServersOK BY <1>1, <1>6 DEF TaServersOK, TaServerOK
<1>13. TaPairsOK BY <1>1 DEF TaPairsOK, TaClose
<1> QED BY <1>7, <1>8, <1>10, <1>11, <1>12, <1>13 DEF TaInv

LEMMA TaStepInv == TaInv /\ [TaNext]_tapirVars => TaInv'
<1> SUFFICES ASSUME TaInv, [TaNext]_tapirVars PROVE TaInv' OBVIOUS
<1>1. CASE UNCHANGED tapirVars
  BY <1>1 DEF tapirVars, TaInv, TaTypeInv, TaCoordsOK, TaQueuesOK, TaLiveOK, TaServersOK, TaPairsOK, TaTxns, TaConns,
    TaCall, TaBack, TaCoord
<1>2. CASE TaNext
  BY <1>2, TaDoOneInv, TaDispatchAckInv, TaFastAcceptAckInv, TaOnDispatchInv, TaOnFastAcceptInv, TaOnDecideInv DEF TaNext
<1> QED BY <1>1, <1>2

LEMMA TaAgreeOK == TaInv => TaReplicasAgree
<1> SUFFICES ASSUME TaInv, NEW v \in TaServers, NEW u \in TaServers, v[2] = u[2], NEW x \in TaRows
             PROVE IsPrefix(ta_srv[v].rows[x], ta_srv[u].rows[x]) \/ IsPrefix(ta_srv[u].rows[x], ta_srv[v].rows[x])
  BY DEF TaReplicasAgree
<1> DEFINE a == ta_srv[v].rows[x]
           b == ta_srv[u].rows[x]
           S == TaIds(ta_load)
<1>1. a \in Seq(S) /\ b \in Seq(S) /\ TaClose(ta_srv[v], ta_srv[u], x) BY DEF TaInv, TaTypeInv, TaSrvRec, TaPairsOK
<1>2. ASSUME NEW p \in Seq(S), NEW j \in S PROVE IsPrefix(p, Append(p, j))
 <2>1. Len(Append(p, j)) = Len(p) + 1 /\ Len(p) \in Nat OBVIOUS
 <2>2. SubSeq(p, 1, Len(p)) = SubSeq(Append(p, j), 1, Len(p)) OBVIOUS
 <2> QED BY <2>1, <2>2 DEF IsPrefix
<1>3. IsPrefix(a, a)
 <2>1. Len(a) \in Nat BY <1>1
 <2> QED BY <2>1 DEF IsPrefix
<1>5. ASSUME NEW w \in TaServers, NEW y \in TaServers, TaAhead(ta_srv[w], ta_srv[y], x),
             ta_srv[w].rows[x] \in Seq(S), ta_srv[y].rows[x] \in Seq(S)
      PROVE IsPrefix(ta_srv[y].rows[x], ta_srv[w].rows[x])
 <2>1. PICK j : j # <<>> /\ ta_srv[w].rows[x] = Append(ta_srv[y].rows[x], j) /\ ta_srv[y].w[x] = j BY <1>5 DEF TaAhead
 <2>2. j \in S BY <2>1 DEF TaInv, TaTypeInv, TaSrvRec
 <2> QED BY <1>2, <1>5, <2>1, <2>2
<1> QED BY <1>1, <1>3, <1>5 DEF TaClose

LEMMA TaReplicasAgreeHolds == TaSpec => []TaReplicasAgree
<1>1. TaSpec => []TaInv BY TaInitInv, TaStepInv, PTL DEF TaSpec
<1> QED BY <1>1, TaAgreeOK, PTL

-----
(* Multi-Paxos: what the leader answers is on a majority, and all replicas apply the
   same commands in the same order. *)
MpPhases == {"idle", "dispatched", "preparing", "prepared", "committing", "done"}
MpCmds == [type : {"prepare", "commit"}, txn : MpTxns]
MpSlotRecord == [cmd : MpCmds, phase : {"accept", "end"}, acks : Nat]
MpMessages == [type : {"Accept", "AcceptAck", "Decide"}, slot : Nat, cmd : MpCmds, rep : MpNodes]
MpBuffers == UNION {[D -> MpCmds] : D \in SUBSET Nat}
MpReplicaRecord ==
  [accepted : SUBSET Nat, committed : Nat, executed : Nat, buffer : MpBuffers, log : Seq(MpCmds),
   exec : SUBSET MpTxns, done : SUBSET MpTxns]

MpTypeOK ==
  /\ mp_load \in MpLoads
  /\ mp_tpc \in [MpTxns -> MpPhases]
  /\ mp_slot \in Seq(MpSlotRecord)
  /\ mp_rep \in [MpNodes -> MpReplicaRecord]
  /\ mp_net \subseteq MpMessages

(* A message is about its slot's command, and finds the replica as it should: not having
   accepted, having accepted, or not having learnt. *)
MpMessageOK(m, slot, r) ==
  /\ m.slot \in DOMAIN slot /\ m.cmd = slot[m.slot].cmd
  /\ m.type = "Accept" => m.slot \notin r.accepted
  /\ m.type = "AcceptAck" => m.slot \in r.accepted
  /\ m.type = "Decide" => /\ slot[m.slot].phase = "end"
                          /\ m.slot > r.executed /\ m.slot \notin DOMAIN r.buffer

MpNetOK == \A m \in mp_net : MpMessageOK(m, mp_slot, mp_rep[m.rep])

(* What a replica keeps and has applied are decided commands of slots. *)
MpReplicaOK(r, slot) ==
  /\ r.accepted \subseteq DOMAIN slot
  /\ DOMAIN r.buffer \subseteq DOMAIN slot
  /\ \A j \in DOMAIN r.buffer : r.buffer[j] = slot[j].cmd /\ slot[j].phase = "end"
  /\ r.executed = Len(r.log) /\ r.executed <= Len(slot)
  /\ \A i \in 1..r.executed : r.log[i] = slot[i].cmd /\ slot[i].phase = "end"
  /\ \A t \in r.done : \E i \in 1..r.executed : slot[i].cmd = [type |-> "commit", txn |-> t]

MpReplicasOK == \A v \in MpNodes : MpReplicaOK(mp_rep[v], mp_slot)

(* The replicas whose acceptance of slot n has been counted. *)
MpAckOnWay(n, v) == \E m \in mp_net : m.type = "AcceptAck" /\ m.slot = n /\ m.rep = v
MpVoted(n) == {v \in MpNodes : n \in mp_rep[v].accepted /\ ~MpAckOnWay(n, v)}

MpVotesOK ==
  \A n \in DOMAIN mp_slot :
    /\ mp_slot[n].phase = "accept" => mp_slot[n].acks <= Cardinality(MpVoted(n))
    /\ mp_slot[n].phase = "end" => MpQuorum <= Cardinality(MpVoted(n))

(* A transaction is prepared and committed once, in that order. *)
MpOnce(tpc, slot, leader) ==
  /\ \A i, j \in DOMAIN slot : slot[i].cmd = slot[j].cmd => i = j
  /\ \A i \in DOMAIN slot : slot[i].cmd.type = "commit" => tpc[slot[i].cmd.txn] \in {"committing", "done"}
  /\ \A i \in DOMAIN slot :
       slot[i].cmd.type = "prepare" =>
         /\ tpc[slot[i].cmd.txn] \notin {"idle", "dispatched"}
         /\ i > leader.executed => tpc[slot[i].cmd.txn] = "preparing"
  /\ \A t \in DOMAIN tpc : tpc[t] \in {"dispatched", "preparing", "prepared"} => t \in leader.exec

MpOrderOK == MpOnce(mp_tpc, mp_slot, mp_rep[MpLeader])

LEMMA MpConstants ==
  ASSUME MpTypeOK
  PROVE  /\ MpReplicas \in Nat \ {0} /\ MpLeader \in MpNodes
         /\ IsFiniteSet(MpNodes) /\ MpNodes \subseteq Nat
<1>1. MpReplicas \in Nat \ {0} BY MpAssumption DEF MpTypeOK, MpReplicas
<1>2. IsFiniteSet(MpNodes) BY <1>1, FS_Interval DEF MpNodes
<1> QED BY <1>1, <1>2 DEF MpNodes, MpLeader

LEMMA MpLoadKept ==
  ASSUME MpNext
  PROVE  /\ mp_load' = mp_load /\ MpNodes' = MpNodes /\ MpTxns' = MpTxns
         /\ MpCmds' = MpCmds /\ MpSlotRecord' = MpSlotRecord /\ MpMessages' = MpMessages
         /\ MpReplicaRecord' = MpReplicaRecord
         /\ MpQuorum' = MpQuorum
<1>1. mp_load' = mp_load BY DEF MpNext, MpDispatch, MpOnPrepare, MpOnCommit, MpAcceptAck, MpOnAccept, MpOnDecide
<1> QED BY <1>1 DEF MpNodes, MpReplicas, MpTxns, MpCmds, MpSlotRecord, MpMessages, MpReplicaRecord, MpBuffers, MpQuorum

(* The slots that can be applied are n and the ones after it, without gap, and the ones
   after it are in the buffer (MultiPaxosSched::OnCommit). *)
LEMMA MpRunnableIs ==
  ASSUME NEW r, r.committed \in Nat, r.executed \in Nat, NEW n \in Nat
  PROVE  LET k == Cardinality(MpRunnable(r, n))
         IN  /\ k \in Nat
             /\ k = 0 <=> n # r.executed + 1
             /\ \A i \in 2..k : n + i - 1 \in DOMAIN r.buffer
<1> DEFINE S == MpRunnable(r, n)
           k == Cardinality(S)
           M == IF n > r.committed THEN n ELSE r.committed
<1>1. CASE n # r.executed + 1
 <2>1. S = {} BY <1>1 DEF MpRunnable
 <2>2. k = 0 BY <2>1, FS_EmptySet
 <2> QED BY <1>1, <2>2
<1>2. CASE n = r.executed + 1
 <2>1. S = {m \in n..M : \A j \in (n + 1)..m : j \in DOMAIN r.buffer} BY <1>2 DEF MpRunnable
 <2>2. M \in Nat /\ n <= M OBVIOUS
 <2> HIDE DEF S, M
 <2>3. n \in S BY <2>1, <2>2
 <2>4. \E b \in Nat : b > n /\ S = n..(b - 1)
  <3>1. CASE n..M \subseteq S
   <4>1. S = n..((M + 1) - 1) /\ M + 1 > n /\ M + 1 \in Nat BY <2>1, <2>2, <3>1
   <4> QED BY <4>1
  <3>2. CASE ~(n..M \subseteq S)
   <4> DEFINE B == (n..M) \ S
   <4>1. B \in SUBSET Nat /\ B # {} BY <2>2, <3>2
   <4>2. PICK b \in B : \A y \in B : b <= y BY <4>1, NatSmallest
   <4>3. b \in Nat /\ b \in n..M /\ b \notin S /\ b > n BY <2>2, <2>3, <4>2
   <4>4. PICK j \in (n + 1)..b : j \notin DOMAIN r.buffer BY <2>1, <4>3
   <4>5. ASSUME NEW x \in S PROVE x \in n..(b - 1)
    <5>1. x \in n..M /\ \A i \in (n + 1)..x : i \in DOMAIN r.buffer BY <2>1
    <5>2. ~(j <= x) BY <4>4, <5>1, <2>2
    <5> QED BY <2>2, <4>3, <4>4, <5>1, <5>2
   <4>6. ASSUME NEW x \in n..(b - 1) PROVE x \in S
    <5>1. x \in n..M /\ ~(b <= x) BY <2>2, <4>3
    <5> QED BY <4>2, <5>1
   <4> QED BY <4>3, <4>5, <4>6
  <3> QED BY <3>1, <3>2
 <2>5. PICK b \in Nat : b > n /\ S = n..(b - 1) BY <2>4
 <2>6. k = b - n
  <3>1. Cardinality(n..(b - 1)) = IF n > b - 1 THEN 0 ELSE (b - 1) - n + 1 BY FS_Interval
  <3> QED BY <2>5, <3>1
 <2>7. ASSUME NEW i \in 2..k PROVE n + i - 1 \in DOMAIN r.buffer
  <3>1. n + i - 1 \in n..(b - 1) /\ n + i - 1 >= n + 1 /\ n + i - 1 \in Nat BY <2>5, <2>6
  <3>2. n + i - 1 \in S BY <2>5, <3>1
  <3>3. n + i - 1 \in (n + 1)..(n + i - 1) BY <3>1
  <3> QED BY <2>1, <3>2, <3>3
 <2> QED BY <1>2, <2>5, <2>6, <2>7 DEF S
<1> QED BY <1>1, <1>2

(* A new slot: what was there stays, the new one is not decided. *)
LEMMA MpAppended ==
  ASSUME NEW slot \in Seq(MpSlotRecord), NEW cmd \in MpCmds, NEW new,
         new = Append(slot, [cmd |-> cmd, phase |-> "accept", acks |-> 0])
  PROVE  /\ new \in Seq(MpSlotRecord) /\ Len(new) = Len(slot) + 1 /\ Len(slot) \in Nat
         /\ DOMAIN slot = 1..Len(slot) /\ DOMAIN new = 1..(Len(slot) + 1)
         /\ \A i \in DOMAIN slot : i \in DOMAIN new /\ new[i] = slot[i]
         /\ new[Len(slot) + 1] = [cmd |-> cmd, phase |-> "accept", acks |-> 0]
<1>1. [cmd |-> cmd, phase |-> "accept", acks |-> 0] \in MpSlotRecord BY DEF MpSlotRecord
<1>2. DOMAIN slot = 1..Len(slot) /\ Len(slot) \in Nat OBVIOUS
<1>3. /\ new \in Seq(MpSlotRecord) /\ Len(new) = Len(slot) + 1
      /\ \A i \in 1..Len(slot) : new[i] = slot[i]
      /\ new[Len(slot) + 1] = [cmd |-> cmd, phase |-> "accept", acks |-> 0] BY <1>1, AppendProperties
<1>4. DOMAIN new = 1..(Len(slot) + 1) BY <1>3
<1> QED BY <1>2, <1>3, <1>4

LEMMA MpSlotTyped ==
  ASSUME NEW slot \in Seq(MpSlotRecord), NEW i \in DOMAIN slot
  PROVE  /\ slot[i] \in MpSlotRecord /\ slot[i].acks \in Nat /\ slot[i].phase \in {"accept", "end"}
         /\ slot[i].cmd \in MpCmds /\ slot[i].cmd.type \in {"prepare", "commit"} /\ slot[i].cmd.txn \in MpTxns
<1>1. slot[i] \in MpSlotRecord OBVIOUS
<1>2. slot[i].acks \in Nat /\ slot[i].phase \in {"accept", "end"} /\ slot[i].cmd \in MpCmds BY <1>1 DEF MpSlotRecord
<1>3. slot[i].cmd.type \in {"prepare", "commit"} /\ slot[i].cmd.txn \in MpTxns BY <1>2 DEF MpCmds
<1> QED BY <1>1, <1>2, <1>3

(* Acceptances that were counted stay counted. *)
LEMMA MpVotedGrows ==
  ASSUME MpTypeOK, MpNext, NEW n, MpVoted(n) \subseteq MpVoted(n)'
  PROVE  Cardinality(MpVoted(n)) <= Cardinality(MpVoted(n)') /\ Cardinality(MpVoted(n)) \in Nat
         /\ Cardinality(MpVoted(n)') \in Nat
<1>1. MpVoted(n)' \subseteq MpNodes /\ MpVoted(n) \subseteq MpNodes BY MpLoadKept DEF MpVoted
<1>2. IsFiniteSet(MpVoted(n)') /\ IsFiniteSet(MpVoted(n)) BY <1>1, MpConstants, FS_Subset
<1> QED BY <1>2, FS_Subset, FS_CardinalityType

LEMMA MpVotesKept ==
  ASSUME MpTypeOK, MpVotesOK, MpNext,
         \A n \in DOMAIN mp_slot' : \/ n \in DOMAIN mp_slot /\ mp_slot'[n] = mp_slot[n] /\ MpVoted(n) \subseteq MpVoted(n)'
                                    \/ mp_slot'[n].phase = "accept" /\ mp_slot'[n].acks = 0
  PROVE MpVotesOK'
<1> SUFFICES ASSUME NEW n \in DOMAIN mp_slot'
             PROVE  /\ mp_slot'[n].phase = "accept" => mp_slot'[n].acks <= Cardinality(MpVoted(n)')
                    /\ mp_slot'[n].phase = "end" => MpQuorum' <= Cardinality(MpVoted(n)') BY DEF MpVotesOK
<1>1. CASE n \in DOMAIN mp_slot /\ mp_slot'[n] = mp_slot[n] /\ MpVoted(n) \subseteq MpVoted(n)'
 <2>1. /\ mp_slot[n].phase = "accept" => mp_slot[n].acks <= Cardinality(MpVoted(n))
       /\ mp_slot[n].phase = "end" => MpQuorum <= Cardinality(MpVoted(n)) BY <1>1 DEF MpVotesOK
 <2>2. mp_slot[n].acks \in Nat /\ MpQuorum \in Nat /\ MpQuorum' = MpQuorum
   BY <1>1, MpConstants, MpLoadKept, MpSlotTyped DEF MpTypeOK, MpQuorum
 <2> QED BY <1>1, <2>1, <2>2, MpVotedGrows
<1>2. CASE mp_slot'[n].phase = "accept" /\ mp_slot'[n].acks = 0
 <2>1. MpVoted(n)' \subseteq MpNodes BY MpLoadKept DEF MpVoted
 <2>2. Cardinality(MpVoted(n)') \in Nat BY <2>1, MpConstants, FS_Subset, FS_CardinalityType
 <2> QED BY <1>2, <2>2
<1> QED BY <1>1, <1>2

MpInv == MpTypeOK /\ MpNetOK /\ MpReplicasOK /\ MpVotesOK /\ MpOrderOK /\ ~mp_bad

(* OnDispatch. *)
LEMMA MpDispatchStep ==
  ASSUME MpInv, MpNext, NEW t \in MpTxns, MpDispatch(t)
  PROVE MpInv'
<1>0. /\ MpTypeOK /\ MpNetOK /\ MpReplicasOK /\ MpVotesOK /\ MpOrderOK /\ ~mp_bad BY DEF MpInv
<1> DEFINE r == mp_rep[MpLeader]
           e == r.exec \cup {t}
           q == [r EXCEPT !.exec = e]
           ph == IF t \in mp_load.early THEN "prepared" ELSE "dispatched"
<1>1. /\ mp_rep' = [mp_rep EXCEPT ![MpLeader] = q] /\ mp_tpc' = [mp_tpc EXCEPT ![t] = ph]
      /\ mp_tpc[t] = "idle"
      /\ UNCHANGED <<mp_load, mp_slot, mp_net, mp_bad>> BY DEF MpDispatch
<1>2. MpLeader \in MpNodes /\ r \in MpReplicaRecord /\ e \in SUBSET MpTxns /\ ph \in {"prepared", "dispatched"}
  BY <1>0, MpConstants DEF MpTypeOK, MpReplicaRecord
<1> HIDE DEF e, ph
<1>3. /\ q \in MpReplicaRecord /\ q.exec = e
      /\ q.accepted = r.accepted /\ q.executed = r.executed /\ q.buffer = r.buffer /\ q.log = r.log /\ q.done = r.done
  BY <1>2 DEF MpReplicaRecord
<1> HIDE DEF q
<1>4. MpTypeOK'
 <2>1. mp_tpc' \in [MpTxns -> MpPhases] BY <1>0, <1>1, <1>2 DEF MpTypeOK, MpPhases
 <2>2. mp_rep' \in [MpNodes -> MpReplicaRecord] BY <1>0, <1>1, <1>3 DEF MpTypeOK
 <2> QED BY <1>0, <1>1, <2>1, <2>2, MpLoadKept DEF MpTypeOK
<1>5. \A v \in MpNodes : /\ mp_rep'[v].accepted = mp_rep[v].accepted /\ mp_rep'[v].executed = mp_rep[v].executed
                         /\ mp_rep'[v].buffer = mp_rep[v].buffer /\ mp_rep'[v].log = mp_rep[v].log
                         /\ mp_rep'[v].done = mp_rep[v].done BY <1>0, <1>1, <1>2, <1>3 DEF MpTypeOK
<1>6. MpNetOK'
 <2>1. \A m \in mp_net : m.rep \in MpNodes BY <1>0 DEF MpTypeOK, MpMessages
 <2>2. ASSUME NEW m \in mp_net PROVE MpMessageOK(m, mp_slot, mp_rep'[m.rep])
  <3>1. MpMessageOK(m, mp_slot, mp_rep[m.rep]) BY <1>0 DEF MpNetOK
  <3> QED BY <1>5, <2>1, <3>1 DEF MpMessageOK
 <2>3. mp_slot' = mp_slot /\ mp_net' = mp_net BY <1>1
 <2> QED BY <2>2, <2>3 DEF MpNetOK, MpMessageOK
<1>7. MpReplicasOK'
 <2>1. ASSUME NEW v \in MpNodes PROVE MpReplicaOK(mp_rep'[v], mp_slot)
  <3>1. MpReplicaOK(mp_rep[v], mp_slot) BY <1>0 DEF MpReplicasOK
  <3> QED BY <1>5, <3>1 DEF MpReplicaOK
 <2>3. mp_slot' = mp_slot BY <1>1
 <2> QED BY <2>1, <2>3, MpLoadKept DEF MpReplicasOK, MpReplicaOK
<1>8. MpVotesOK'
 <2>1. \A n : MpVoted(n) \subseteq MpVoted(n)' BY <1>1, <1>5, MpLoadKept DEF MpVoted, MpAckOnWay
 <2> QED BY <1>0, <1>1, <2>1, MpVotesKept
<1>9. MpOrderOK'
 <2>1. MpOnce(mp_tpc, mp_slot, r) BY <1>0 DEF MpOrderOK
 <2>2. mp_rep'[MpLeader] = q BY <1>0, <1>1, <1>2 DEF MpTypeOK
 <2>3. DOMAIN mp_tpc' = MpTxns /\ DOMAIN mp_tpc = MpTxns /\ \A u \in MpTxns : mp_tpc'[u] = IF u = t THEN ph ELSE mp_tpc[u]
   BY <1>0, <1>1 DEF MpTypeOK
 <2>4. \A i \in DOMAIN mp_slot : mp_slot[i].cmd.txn # t
  <3>1. \A i \in DOMAIN mp_slot : mp_slot[i].cmd.type \in {"prepare", "commit"} BY <1>0, MpSlotTyped DEF MpTypeOK
  <3> QED BY <1>1, <2>1, <3>1 DEF MpOnce
 <2>5. \A i \in DOMAIN mp_slot : mp_slot[i].cmd.txn \in MpTxns BY <1>0, MpSlotTyped DEF MpTypeOK
 <2>6. \A u \in MpTxns : u \in e <=> u \in r.exec \/ u = t BY DEF e
 <2>7. MpOnce(mp_tpc', mp_slot, q) BY <2>1, <2>3, <2>4, <2>5, <2>6, <1>3 DEF MpOnce
 <2> QED BY <1>1, <2>2, <2>7 DEF MpOrderOK, MpOnce, MpLeader
<1> QED BY <1>0, <1>1, <1>4, <1>6, <1>7, <1>8, <1>9 DEF MpInv

(* OnPrepare and OnCommit: a new slot, and Accept to all. *)
LEMMA MpSubmitStep ==
  ASSUME MpInv, MpNext, NEW t \in MpTxns, NEW cmd \in MpCmds, cmd.txn = t, MpSubmit(cmd), NEW ph \in MpPhases,
         mp_tpc' = [mp_tpc EXCEPT ![t] = ph], UNCHANGED <<mp_load, mp_rep>>,
         MpVerify(t \in mp_rep[MpLeader].exec),
         \/ cmd.type = "prepare" /\ mp_tpc[t] = "dispatched" /\ ph = "preparing"
         \/ cmd.type = "commit" /\ mp_tpc[t] = "prepared" /\ ph = "committing"
  PROVE MpInv'
<1>0. /\ MpTypeOK /\ MpNetOK /\ MpReplicasOK /\ MpVotesOK /\ MpOrderOK /\ ~mp_bad BY DEF MpInv
<1> DEFINE N == Len(mp_slot) + 1
           new == [cmd |-> cmd, phase |-> "accept", acks |-> 0]
<1>1. mp_slot' = Append(mp_slot, new) /\ mp_net' = mp_net \cup MpToAll("Accept", N, cmd) BY DEF MpSubmit
<1>2. /\ mp_slot' \in Seq(MpSlotRecord) /\ Len(mp_slot') = N /\ Len(mp_slot) \in Nat
      /\ DOMAIN mp_slot = 1..Len(mp_slot) /\ DOMAIN mp_slot' = 1..N
      /\ \A i \in DOMAIN mp_slot : i \in DOMAIN mp_slot' /\ mp_slot'[i] = mp_slot[i]
      /\ mp_slot'[N] = new BY <1>0, <1>1, MpAppended DEF MpTypeOK
<1>3. N \in Nat /\ N \notin DOMAIN mp_slot /\ N \in DOMAIN mp_slot' /\ \A i \in DOMAIN mp_slot' : i \in DOMAIN mp_slot \/ i = N
  BY <1>2
<1>4. new.cmd = cmd /\ new.phase = "accept" /\ new.acks = 0 OBVIOUS
<1> HIDE DEF N, new
<1>5. MpLeader \in MpNodes /\ \A m \in mp_net : m.rep \in MpNodes /\ m.slot \in Nat
  BY <1>0, MpConstants DEF MpTypeOK, MpMessages
<1>6. \A m \in MpToAll("Accept", N, cmd) : /\ m.type = "Accept" /\ m.slot = N /\ m.cmd = cmd /\ m.rep \in MpNodes
                                           /\ m \in MpMessages BY <1>3 DEF MpToAll, MpMessages
<1>7. MpTypeOK'
 <2>1. mp_tpc' \in [MpTxns -> MpPhases] BY <1>0 DEF MpTypeOK
 <2>2. mp_net' \subseteq MpMessages BY <1>0, <1>1, <1>6 DEF MpTypeOK
 <2> QED BY <1>0, <1>2, <2>1, <2>2, MpLoadKept DEF MpTypeOK
<1>8. MpNetOK'
 <2>1. ASSUME NEW m \in mp_net PROVE MpMessageOK(m, mp_slot', mp_rep[m.rep])
  <3>1. MpMessageOK(m, mp_slot, mp_rep[m.rep]) BY <1>0 DEF MpNetOK
  <3> QED BY <1>2, <3>1 DEF MpMessageOK
 <2>2. ASSUME NEW m \in MpToAll("Accept", N, cmd) PROVE MpMessageOK(m, mp_slot', mp_rep[m.rep])
  <3>1. MpReplicaOK(mp_rep[m.rep], mp_slot) BY <1>0, <1>6 DEF MpReplicasOK
  <3>2. N \notin mp_rep[m.rep].accepted BY <1>3, <3>1 DEF MpReplicaOK
  <3> QED BY <1>2, <1>3, <1>4, <1>6, <3>2 DEF MpMessageOK
 <2> QED BY <1>1, <2>1, <2>2 DEF MpNetOK, MpMessageOK
<1>9. MpReplicasOK'
 <2>1. ASSUME NEW v \in MpNodes PROVE MpReplicaOK(mp_rep[v], mp_slot')
  <3>1. MpReplicaOK(mp_rep[v], mp_slot) /\ mp_rep[v].executed \in Nat
    BY <1>0 DEF MpReplicasOK, MpTypeOK, MpReplicaRecord
  <3>2. \A i \in 1..mp_rep[v].executed : i \in DOMAIN mp_slot BY <1>2, <3>1 DEF MpReplicaOK
  <3>3. mp_rep[v].executed <= Len(mp_slot') BY <1>2, <3>1 DEF MpReplicaOK, N
  <3> QED BY <1>2, <3>1, <3>2, <3>3 DEF MpReplicaOK
 <2> QED BY <2>1, MpLoadKept DEF MpReplicasOK, MpReplicaOK
<1>10. MpVotesOK'
 <2>1. \A n : MpVoted(n) \subseteq MpVoted(n)' BY <1>1, <1>6, MpLoadKept DEF MpVoted, MpAckOnWay
 <2> QED BY <1>0, <1>2, <1>3, <1>4, <2>1, MpVotesKept
<1>11. MpOrderOK'
 <2> DEFINE r == mp_rep[MpLeader]
 <2>1. MpOnce(mp_tpc, mp_slot, r) BY <1>0 DEF MpOrderOK
 <2>2. DOMAIN mp_tpc' = MpTxns /\ DOMAIN mp_tpc = MpTxns /\ \A u \in MpTxns : mp_tpc'[u] = IF u = t THEN ph ELSE mp_tpc[u]
   BY <1>0 DEF MpTypeOK
 <2>3. \A i \in DOMAIN mp_slot : mp_slot[i].cmd.type \in {"prepare", "commit"} /\ mp_slot[i].cmd.txn \in MpTxns
                                 /\ mp_slot[i].cmd \in MpCmds BY <1>0, MpSlotTyped DEF MpTypeOK
 <2>4. \A i \in DOMAIN mp_slot : mp_slot[i].cmd # cmd BY <2>1, <2>3 DEF MpOnce
 <2>5. \A i \in DOMAIN mp_slot : mp_slot[i].cmd.txn = t /\ mp_slot[i].cmd.type = "commit" => FALSE
   BY <2>1, <2>3 DEF MpOnce
 <2>6. ASSUME NEW i \in DOMAIN mp_slot, mp_slot[i].cmd.txn = t, mp_slot[i].cmd.type = "prepare"
       PROVE ph = "committing" /\ ~(i > r.executed) BY <2>1, <2>3, <2>6 DEF MpOnce
 <2>7. \A i, j \in DOMAIN mp_slot' : mp_slot'[i].cmd = mp_slot'[j].cmd => i = j
   BY <1>2, <1>3, <1>4, <2>1, <2>4 DEF MpOnce
 <2>8. \A i \in DOMAIN mp_slot' : mp_slot'[i].cmd.type = "commit" => mp_tpc'[mp_slot'[i].cmd.txn] \in {"committing", "done"}
  <3>1. ASSUME NEW i \in DOMAIN mp_slot, mp_slot[i].cmd.type = "commit"
        PROVE mp_tpc'[mp_slot[i].cmd.txn] \in {"committing", "done"} BY <2>1, <2>2, <2>3, <2>5, <3>1 DEF MpOnce
  <3>2. cmd.type = "commit" => mp_tpc'[cmd.txn] \in {"committing", "done"} BY <2>2
  <3> QED BY <1>2, <1>3, <1>4, <3>1, <3>2
 <2>9. \A i \in DOMAIN mp_slot' :
         mp_slot'[i].cmd.type = "prepare" =>
           /\ mp_tpc'[mp_slot'[i].cmd.txn] \notin {"idle", "dispatched"}
           /\ i > r.executed => mp_tpc'[mp_slot'[i].cmd.txn] = "preparing"
  <3>1. ASSUME NEW i \in DOMAIN mp_slot, mp_slot[i].cmd.type = "prepare"
        PROVE  /\ mp_tpc'[mp_slot[i].cmd.txn] \notin {"idle", "dispatched"}
               /\ i > r.executed => mp_tpc'[mp_slot[i].cmd.txn] = "preparing"
   <4>1. CASE mp_slot[i].cmd.txn = t BY <2>2, <2>6, <3>1, <4>1
   <4>2. CASE mp_slot[i].cmd.txn # t BY <2>1, <2>2, <2>3, <3>1, <4>2 DEF MpOnce
   <4> QED BY <4>1, <4>2
  <3>2. cmd.type = "prepare" => mp_tpc'[cmd.txn] = "preparing" BY <2>2
  <3> QED BY <1>2, <1>3, <1>4, <3>1, <3>2
 <2>10. \A u \in DOMAIN mp_tpc' : mp_tpc'[u] \in {"dispatched", "preparing", "prepared"} => u \in r.exec
   BY <2>1, <2>2 DEF MpOnce
 <2>11. MpOnce(mp_tpc', mp_slot', r) BY <2>7, <2>8, <2>9, <2>10 DEF MpOnce
 <2> QED BY <2>11 DEF MpOrderOK, MpOnce, MpLeader
<1>12. ~mp_bad'
 <2>1. t \in mp_rep[MpLeader].exec BY <1>0 DEF MpOrderOK, MpOnce, MpTypeOK
 <2> QED BY <1>0, <2>1 DEF MpVerify
<1> QED BY <1>7, <1>8, <1>9, <1>10, <1>11, <1>12 DEF MpInv

LEMMA MpPrepareCommitStep ==
  ASSUME MpInv, MpNext, NEW t \in MpTxns, MpOnPrepare(t) \/ MpOnCommit(t)
  PROVE MpInv'
<1> DEFINE p == [type |-> "prepare", txn |-> t]
           c == [type |-> "commit", txn |-> t]
<1>1. p \in MpCmds /\ p.txn = t /\ p.type = "prepare" /\ c \in MpCmds /\ c.txn = t /\ c.type = "commit" BY DEF MpCmds
<1> HIDE DEF p, c
<1>2. CASE MpOnPrepare(t) BY <1>1, <1>2, MpSubmitStep DEF MpOnPrepare, MpPhases, p
<1>3. CASE MpOnCommit(t) BY <1>1, <1>3, MpSubmitStep DEF MpOnCommit, MpPhases, c
<1> QED BY <1>2, <1>3

(* There is one message of each kind for a slot and a replica. *)
LEMMA MpOneMessage ==
  ASSUME MpTypeOK, MpNetOK, NEW m \in mp_net, NEW n \in mp_net, m.type = n.type, m.slot = n.slot, m.rep = n.rep
  PROVE m = n
<1>1. m \in MpMessages /\ n \in MpMessages BY DEF MpTypeOK
<1>2. m.cmd = n.cmd BY DEF MpNetOK, MpMessageOK
<1> QED BY <1>1, <1>2 DEF MpMessages

(* AcceptAck. *)
LEMMA MpAcceptAckStep ==
  ASSUME MpInv, MpNext, NEW m \in mp_net, MpAcceptAck(m)
  PROVE MpInv'
<1>0. /\ MpTypeOK /\ MpNetOK /\ MpReplicasOK /\ MpVotesOK /\ MpOrderOK /\ ~mp_bad BY DEF MpInv
<1> DEFINE n == m.slot
           s == mp_slot[n]
           chosen == s.acks + 1 >= MpQuorum
           ph == IF chosen THEN "end" ELSE s.phase
           a == s.acks + 1
           z == [s EXCEPT !.acks = a, !.phase = ph]
<1>1. m.type = "AcceptAck" /\ UNCHANGED <<mp_load, mp_tpc, mp_rep, mp_bad>> BY DEF MpAcceptAck
<1>2. n \in DOMAIN mp_slot /\ m.cmd = s.cmd /\ n \in mp_rep[m.rep].accepted /\ m.rep \in MpNodes /\ n \in Nat
  BY <1>0, <1>1 DEF MpNetOK, MpMessageOK, MpTypeOK, MpMessages
<1>3. s \in MpSlotRecord /\ s.acks \in Nat /\ s.phase \in {"accept", "end"} /\ s.cmd \in MpCmds
  BY <1>0, <1>2, MpSlotTyped DEF MpTypeOK
<1>4. MpQuorum \in Nat BY <1>0, MpConstants DEF MpQuorum
<1>5. ASSUME NEW k PROVE MpVoted(k) \subseteq MpVoted(k)' /\ (k = n => m.rep \notin MpVoted(k) /\ m.rep \in MpVoted(k)')
 <2>1. \A x \in mp_net' : x.type = "AcceptAck" => x \in mp_net /\ x # m
  <3>1. \A x \in MpToAll("Decide", n, s.cmd) : x.type # "AcceptAck" BY DEF MpToAll
  <3>2. mp_net' = mp_net \ {m} \/ mp_net' = (mp_net \ {m}) \cup MpToAll("Decide", n, s.cmd) BY DEF MpAcceptAck
  <3> QED BY <3>1, <3>2
 <2>2. ~MpAckOnWay(n, m.rep)' BY <1>0, <1>1, <2>1, MpOneMessage DEF MpAckOnWay
 <2>3. MpAckOnWay(n, m.rep) BY <1>1 DEF MpAckOnWay
 <2>4. \A v : ~MpAckOnWay(k, v) => ~MpAckOnWay(k, v)' BY <2>1 DEF MpAckOnWay
 <2> QED BY <1>1, <1>2, <2>2, <2>3, <2>4, MpLoadKept DEF MpVoted
<1>6. CASE s.phase # "accept"
 <2>1. mp_net' = mp_net \ {m} /\ mp_slot' = mp_slot BY <1>6 DEF MpAcceptAck
 <2>2. MpTypeOK' /\ MpNetOK' /\ MpReplicasOK' /\ MpOrderOK'
   BY <1>0, <1>1, <2>1, MpLoadKept DEF MpTypeOK, MpNetOK, MpMessageOK, MpReplicasOK, MpReplicaOK, MpOrderOK, MpOnce, MpLeader
 <2>3. MpVotesOK' BY <1>0, <1>5, <2>1, MpVotesKept
 <2> QED BY <1>0, <1>1, <2>2, <2>3 DEF MpInv
<1>7. CASE s.phase = "accept"
 <2>1. /\ mp_slot' = [mp_slot EXCEPT ![n] = z]
       /\ mp_net' = (mp_net \ {m}) \cup IF chosen THEN MpToAll("Decide", n, s.cmd) ELSE {} BY <1>7 DEF MpAcceptAck
 <2>2. a \in Nat /\ ph \in {"accept", "end"} /\ (ph = "end" <=> chosen) /\ a = s.acks + 1 BY <1>3, <1>7
 <2>3. chosen <=> a >= MpQuorum OBVIOUS
 <2> HIDE DEF a, ph, chosen
 <2>4. z \in MpSlotRecord /\ z.acks = a /\ z.phase = ph /\ z.cmd = s.cmd BY <1>3, <2>2 DEF MpSlotRecord
 <2> HIDE DEF z
 <2>5. /\ mp_slot' \in Seq(MpSlotRecord) /\ DOMAIN mp_slot' = DOMAIN mp_slot /\ Len(mp_slot') = Len(mp_slot)
       /\ \A i \in DOMAIN mp_slot : mp_slot'[i] = IF i = n THEN z ELSE mp_slot[i] BY <1>0, <1>2, <2>1, <2>4 DEF MpTypeOK
 <2>6. \A i \in DOMAIN mp_slot : mp_slot'[i].cmd = mp_slot[i].cmd /\ (mp_slot[i].phase = "end" => mp_slot'[i].phase = "end")
   BY <1>7, <2>4, <2>5
 <2>7. \A x \in MpToAll("Decide", n, s.cmd) : /\ x.type = "Decide" /\ x.slot = n /\ x.cmd = s.cmd /\ x.rep \in MpNodes
                                              /\ x \in MpMessages BY <1>2, <1>3 DEF MpToAll, MpMessages
 <2>8. MpTypeOK'
  <3>1. mp_net' \subseteq MpMessages BY <1>0, <2>1, <2>7 DEF MpTypeOK
  <3> QED BY <1>0, <1>1, <2>5, <3>1, MpLoadKept DEF MpTypeOK
 <2>9. ASSUME NEW x \in mp_net' PROVE MpMessageOK(x, mp_slot', mp_rep[x.rep])
  <3>1. CASE x \in mp_net
   <4>1. MpMessageOK(x, mp_slot, mp_rep[x.rep]) BY <1>0, <3>1 DEF MpNetOK
   <4> QED BY <2>5, <2>6, <4>1 DEF MpMessageOK
  <3>2. CASE x \notin mp_net
   <4>1. chosen /\ x \in MpToAll("Decide", n, s.cmd) BY <2>1, <2>9, <3>2
   <4>2. mp_slot'[n].phase = "end" /\ mp_slot'[n].cmd = s.cmd BY <1>2, <2>2, <2>4, <2>5, <4>1
   <4>3. MpReplicaOK(mp_rep[x.rep], mp_slot) /\ mp_rep[x.rep].executed \in Nat
     BY <1>0, <2>7, <4>1 DEF MpReplicasOK, MpTypeOK, MpReplicaRecord
   <4>4. n \notin DOMAIN mp_rep[x.rep].buffer /\ ~(n \in 1..mp_rep[x.rep].executed) BY <1>7, <4>3 DEF MpReplicaOK
   <4>5. n >= 1 BY <1>0, <1>2 DEF MpTypeOK
   <4>6. n > mp_rep[x.rep].executed BY <1>2, <4>3, <4>4, <4>5
   <4> QED BY <1>2, <2>5, <2>7, <4>1, <4>2, <4>4, <4>6 DEF MpMessageOK
  <3> QED BY <3>1, <3>2
 <2>10. MpNetOK' BY <1>1, <2>9 DEF MpNetOK, MpMessageOK
 <2>11. MpReplicasOK'
  <3>1. ASSUME NEW v \in MpNodes PROVE MpReplicaOK(mp_rep[v], mp_slot')
   <4>1. MpReplicaOK(mp_rep[v], mp_slot) /\ mp_rep[v].executed \in Nat
     BY <1>0 DEF MpReplicasOK, MpTypeOK, MpReplicaRecord
   <4>2. DOMAIN mp_slot = 1..Len(mp_slot) /\ Len(mp_slot) \in Nat BY <1>0 DEF MpTypeOK
   <4>3. \A i \in 1..mp_rep[v].executed : i \in DOMAIN mp_slot BY <4>1, <4>2 DEF MpReplicaOK
   <4> QED BY <2>5, <2>6, <4>1, <4>3 DEF MpReplicaOK
  <3> QED BY <1>1, <3>1, MpLoadKept DEF MpReplicasOK, MpReplicaOK
 <2>12. MpOrderOK'
  <3>1. MpOnce(mp_tpc, mp_slot, mp_rep[MpLeader]) BY <1>0 DEF MpOrderOK
  <3>2. MpOnce(mp_tpc, mp_slot', mp_rep[MpLeader]) BY <2>5, <2>6, <3>1 DEF MpOnce
  <3> QED BY <1>1, <3>2 DEF MpOrderOK, MpOnce, MpLeader
 <2>13. MpVotesOK'
  <3> SUFFICES ASSUME NEW k \in DOMAIN mp_slot
               PROVE  /\ mp_slot'[k].phase = "accept" => mp_slot'[k].acks <= Cardinality(MpVoted(k)')
                      /\ mp_slot'[k].phase = "end" => MpQuorum <= Cardinality(MpVoted(k)')
    BY <2>5, MpLoadKept DEF MpVotesOK
  <3>1. /\ mp_slot[k].phase = "accept" => mp_slot[k].acks <= Cardinality(MpVoted(k))
        /\ mp_slot[k].phase = "end" => MpQuorum <= Cardinality(MpVoted(k))
        /\ mp_slot[k].acks \in Nat BY <1>0, MpSlotTyped DEF MpVotesOK, MpTypeOK
  <3>2. /\ Cardinality(MpVoted(k)) <= Cardinality(MpVoted(k)') /\ Cardinality(MpVoted(k)) \in Nat
        /\ Cardinality(MpVoted(k)') \in Nat BY <1>0, <1>5, MpVotedGrows
  <3>3. CASE k # n BY <1>4, <2>5, <3>1, <3>2, <3>3
  <3>4. CASE k = n
   <4>1. MpVoted(n) \cup {m.rep} \subseteq MpVoted(n)' /\ m.rep \notin MpVoted(n) BY <1>5
   <4>2. MpVoted(n)' \subseteq MpNodes /\ MpVoted(n) \subseteq MpNodes BY MpLoadKept DEF MpVoted
   <4>3. IsFiniteSet(MpVoted(n)') /\ IsFiniteSet(MpVoted(n)) BY <1>0, <4>2, MpConstants, FS_Subset
   <4>4. Cardinality(MpVoted(n) \cup {m.rep}) = Cardinality(MpVoted(n)) + 1 BY <4>1, <4>3, FS_AddElement
   <4>5. Cardinality(MpVoted(n) \cup {m.rep}) <= Cardinality(MpVoted(n)') BY <4>1, <4>3, FS_Subset
   <4>6. a <= Cardinality(MpVoted(n)') BY <1>3, <1>7, <2>2, <3>1, <3>2, <3>4, <4>4, <4>5
   <4>7. mp_slot'[k].acks = a /\ mp_slot'[k].phase = ph BY <2>4, <2>5, <3>4
   <4> QED BY <1>4, <2>2, <2>3, <3>2, <3>4, <4>6, <4>7
  <3> QED BY <3>3, <3>4
 <2> QED BY <1>0, <1>1, <2>8, <2>10, <2>11, <2>12, <2>13 DEF MpInv
<1> QED BY <1>6, <1>7

(* OnAccept. *)
LEMMA MpOnAcceptStep ==
  ASSUME MpInv, MpNext, NEW m \in mp_net, MpOnAccept(m)
  PROVE MpInv'
<1>0. /\ MpTypeOK /\ MpNetOK /\ MpReplicasOK /\ MpVotesOK /\ MpOrderOK /\ ~mp_bad BY DEF MpInv
<1> DEFINE v == m.rep
           r == mp_rep[v]
           A == r.accepted \cup {m.slot}
           q == [r EXCEPT !.accepted = A]
           b == [m EXCEPT !.type = "AcceptAck"]
<1>1. /\ m.type = "Accept" /\ UNCHANGED <<mp_load, mp_tpc, mp_slot>>
      /\ mp_rep' = [mp_rep EXCEPT ![v] = q] /\ mp_net' = (mp_net \ {m}) \cup {b}
      /\ MpVerify(m.slot \notin r.accepted) BY DEF MpOnAccept
<1>2. /\ v \in MpNodes /\ m.slot \in Nat /\ m \in MpMessages /\ r \in MpReplicaRecord
      /\ m.slot \in DOMAIN mp_slot /\ m.cmd = mp_slot[m.slot].cmd /\ m.slot \notin r.accepted
  BY <1>0, <1>1 DEF MpTypeOK, MpMessages, MpNetOK, MpMessageOK
<1>3. A \in SUBSET Nat /\ \A x : x \in A <=> x \in r.accepted \/ x = m.slot BY <1>2 DEF MpReplicaRecord
<1>4. b \in MpMessages /\ b.type = "AcceptAck" /\ b.slot = m.slot /\ b.cmd = m.cmd /\ b.rep = v BY <1>2 DEF MpMessages
<1> HIDE DEF A, b
<1>5. /\ q \in MpReplicaRecord /\ q.accepted = A
      /\ q.executed = r.executed /\ q.buffer = r.buffer /\ q.log = r.log /\ q.done = r.done /\ q.exec = r.exec
  BY <1>2, <1>3 DEF MpReplicaRecord
<1> HIDE DEF q
<1>6. \A u \in MpNodes : mp_rep'[u] = IF u = v THEN q ELSE mp_rep[u] BY <1>0, <1>1, <1>2 DEF MpTypeOK
<1>7. MpTypeOK' BY <1>0, <1>1, <1>4, <1>5, MpLoadKept DEF MpTypeOK
<1>8. ASSUME NEW x \in mp_net' PROVE MpMessageOK(x, mp_slot, mp_rep'[x.rep])
 <2>1. CASE x \in mp_net /\ x # m
  <3>1. MpMessageOK(x, mp_slot, mp_rep[x.rep]) /\ x.rep \in MpNodes BY <1>0, <2>1 DEF MpNetOK, MpTypeOK, MpMessages
  <3>2. CASE x.rep = v
   <4>1. x.type = "Accept" => x.slot # m.slot BY <1>0, <1>1, <2>1, <3>2, MpOneMessage
   <4> QED BY <1>2, <1>3, <1>5, <1>6, <3>1, <3>2, <4>1 DEF MpMessageOK
  <3>3. CASE x.rep # v BY <1>6, <3>1, <3>3
  <3> QED BY <3>2, <3>3
 <2>2. CASE x = b BY <1>2, <1>3, <1>4, <1>5, <1>6, <2>2 DEF MpMessageOK
 <2> QED BY <1>1, <1>8, <2>1, <2>2
<1>9. MpNetOK' BY <1>1, <1>8 DEF MpNetOK, MpMessageOK
<1>10. MpReplicasOK'
 <2>1. ASSUME NEW u \in MpNodes PROVE MpReplicaOK(mp_rep'[u], mp_slot)
  <3>1. MpReplicaOK(mp_rep[u], mp_slot) BY <1>0 DEF MpReplicasOK
  <3>2. CASE u = v BY <1>2, <1>3, <1>5, <1>6, <3>1, <3>2 DEF MpReplicaOK
  <3>3. CASE u # v BY <1>6, <3>1, <3>3
  <3> QED BY <3>2, <3>3
 <2> QED BY <1>1, <2>1, MpLoadKept DEF MpReplicasOK, MpReplicaOK
<1>11. MpVotesOK'
 <2>1. ASSUME NEW k PROVE MpVoted(k) \subseteq MpVoted(k)'
  <3>1. ASSUME NEW u \in MpVoted(k) PROVE u \in MpVoted(k)'
   <4>1. u \in MpNodes /\ k \in mp_rep[u].accepted /\ ~MpAckOnWay(k, u) BY DEF MpVoted
   <4>2. ~(u = v /\ k = m.slot) BY <1>2, <4>1
   <4>3. ~MpAckOnWay(k, u)' BY <1>1, <1>4, <4>1, <4>2 DEF MpAckOnWay
   <4>4. k \in mp_rep'[u].accepted BY <1>3, <1>5, <1>6, <4>1
   <4> QED BY <4>1, <4>3, <4>4, MpLoadKept DEF MpVoted
  <3> QED BY <3>1
 <2> QED BY <1>0, <1>1, <2>1, MpVotesKept
<1>12. MpOrderOK'
 <2>1. MpOnce(mp_tpc, mp_slot, mp_rep[MpLeader]) BY <1>0 DEF MpOrderOK
 <2>2. mp_rep'[MpLeader].executed = mp_rep[MpLeader].executed /\ mp_rep'[MpLeader].exec = mp_rep[MpLeader].exec
   BY <1>0, <1>5, <1>6, MpConstants
 <2>3. MpOnce(mp_tpc, mp_slot, mp_rep'[MpLeader]) BY <2>1, <2>2 DEF MpOnce
 <2> QED BY <1>1, <2>3 DEF MpOrderOK, MpOnce, MpLeader
<1>13. ~mp_bad' BY <1>0, <1>1, <1>2 DEF MpVerify
<1> QED BY <1>7, <1>9, <1>10, <1>11, <1>12, <1>13 DEF MpInv

(* The decided commands that follow the first e. *)
MpFollow(cmds, slot, e) ==
  \A i \in DOMAIN cmds : e + i \in DOMAIN slot /\ cmds[i] = slot[e + i].cmd /\ slot[e + i].phase = "end"

(* The transactions that they finish, and the executors that stay. *)
MpFinishes(r, q, cmds) ==
  /\ \A t : t \in q.done <=> t \in r.done \/ \E i \in DOMAIN cmds : cmds[i].type = "commit" /\ cmds[i].txn = t
  /\ \A t \in r.exec :
       (\A i \in DOMAIN cmds : ~(cmds[i].type = "commit" /\ cmds[i].txn = t)) => t \in q.exec

(* What the coordinator has been answered. *)
MpAnswered(tpc, new, cmds) ==
  \A t \in MpTxns : new[t] = IF \E i \in DOMAIN cmds : cmds[i] = [type |-> "commit", txn |-> t] THEN "done"
                             ELSE IF \E i \in DOMAIN cmds : cmds[i] = [type |-> "prepare", txn |-> t] THEN "prepared"
                             ELSE tpc[t]

(* A decision that is kept until the ones before it have come. *)
MpPut(b, n, x) == [j \in DOMAIN b \cup {n} |-> IF j = n THEN x ELSE b[j]]

LEMMA MpBufferPut ==
  ASSUME NEW b \in MpBuffers, NEW n \in Nat, NEW x \in MpCmds
  PROVE  /\ MpPut(b, n, x) \in MpBuffers /\ DOMAIN MpPut(b, n, x) = DOMAIN b \cup {n}
         /\ \A j \in DOMAIN MpPut(b, n, x) : MpPut(b, n, x)[j] = IF j = n THEN x ELSE b[j]
<1>1. PICK D \in SUBSET Nat : b \in [D -> MpCmds] BY DEF MpBuffers
<1>2. D \cup {n} \in SUBSET Nat /\ MpPut(b, n, x) \in [D \cup {n} -> MpCmds] BY <1>1 DEF MpPut
<1>3. \A j \in DOMAIN b \cup {n} : MpPut(b, n, x)[j] = IF j = n THEN x ELSE b[j] BY DEF MpPut
<1> QED BY <1>1, <1>2, <1>3 DEF MpBuffers

(* OnLearn. *)
LEMMA MpApplyIs ==
  ASSUME NEW c \in MpReplicaRecord, NEW cmds \in Seq(MpCmds), NEW q, q = MpApply(c, cmds)
  PROVE  /\ q \in MpReplicaRecord
         /\ q.accepted = c.accepted /\ q.committed = c.committed /\ q.buffer = c.buffer
         /\ q.log = c.log \o cmds /\ q.executed = c.executed + Len(cmds)
         /\ MpFinishes(c, q, cmds)
<1> DEFINE commits == {cmds[i].txn : i \in {j \in DOMAIN cmds : cmds[j].type = "commit"}}
           all     == {cmds[i].txn : i \in DOMAIN cmds}
           L == c.log \o cmds
           E == c.executed + Len(cmds)
           X == (c.exec \cup all) \ commits
           D == c.done \cup commits
           z == [c EXCEPT !.log = L, !.executed = E, !.exec = X, !.done = D]
<1>1. \A i \in DOMAIN cmds : cmds[i] \in MpCmds OBVIOUS
<1>2. \A i \in DOMAIN cmds : cmds[i].txn \in MpTxns BY <1>1 DEF MpCmds
<1>3. commits \subseteq MpTxns /\ all \subseteq MpTxns BY <1>2
<1>4. c.log \in Seq(MpCmds) /\ c.executed \in Nat /\ c.exec \subseteq MpTxns /\ c.done \subseteq MpTxns /\ Len(cmds) \in Nat
  BY DEF MpReplicaRecord
<1>5. L \in Seq(MpCmds) BY <1>4, ConcatProperties
<1>6. E \in Nat /\ X \in SUBSET MpTxns /\ D \in SUBSET MpTxns BY <1>3, <1>4
<1>7. \A t : t \in D <=> t \in c.done \/ \E i \in DOMAIN cmds : cmds[i].type = "commit" /\ cmds[i].txn = t OBVIOUS
<1>8. \A t \in c.exec : (\A i \in DOMAIN cmds : ~(cmds[i].type = "commit" /\ cmds[i].txn = t)) => t \in X OBVIOUS
<1>9. q = z BY DEF MpApply
<1> HIDE DEF L, E, X, D
<1>10. /\ z \in MpReplicaRecord
       /\ z.accepted = c.accepted /\ z.committed = c.committed /\ z.buffer = c.buffer
       /\ z.log = L /\ z.executed = E /\ z.exec = X /\ z.done = D BY <1>5, <1>6 DEF MpReplicaRecord
<1> HIDE DEF z
<1>11. L = c.log \o cmds /\ E = c.executed + Len(cmds) BY DEF L, E
<1>12. MpFinishes(c, z, cmds) BY <1>7, <1>8, <1>10 DEF MpFinishes
<1> QED BY <1>9, <1>10, <1>11, <1>12

(* A replica that applies the commands of the slots after its last stays in step with
   the slots. *)
LEMMA MpAppliesInStep ==
  ASSUME NEW slot \in Seq(MpSlotRecord), NEW r \in MpReplicaRecord, MpReplicaOK(r, slot),
         NEW cmds \in Seq(MpCmds), MpFollow(cmds, slot, r.executed),
         NEW q \in MpReplicaRecord, q.accepted = r.accepted, q.log = r.log \o cmds, q.executed = r.executed + Len(cmds),
         MpFinishes(r, q, cmds),
         DOMAIN q.buffer \subseteq DOMAIN slot,
         \A j \in DOMAIN q.buffer : q.buffer[j] = slot[j].cmd /\ slot[j].phase = "end"
  PROVE MpReplicaOK(q, slot)
<1>1. /\ r.executed \in Nat /\ r.log \in Seq(MpCmds) /\ r.executed = Len(r.log) /\ Len(cmds) \in Nat
      /\ DOMAIN slot = 1..Len(slot) /\ Len(slot) \in Nat /\ DOMAIN cmds = 1..Len(cmds) /\ r.executed <= Len(slot)
  BY DEF MpReplicaRecord, MpReplicaOK
<1>2. /\ Len(r.log \o cmds) = Len(r.log) + Len(cmds)
      /\ \A i \in 1..Len(r.log \o cmds) : (r.log \o cmds)[i] = IF i <= Len(r.log) THEN r.log[i] ELSE cmds[i - Len(r.log)]
  BY <1>1, ConcatProperties
<1>3. q.executed = Len(q.log) /\ q.executed \in Nat BY <1>1, <1>2
<1>4. q.executed <= Len(slot)
 <2>1. CASE Len(cmds) = 0 BY <1>1, <2>1
 <2>2. CASE Len(cmds) # 0
  <3>1. Len(cmds) \in DOMAIN cmds BY <1>1, <2>2
  <3>2. r.executed + Len(cmds) \in DOMAIN slot BY <3>1 DEF MpFollow
  <3> QED BY <1>1, <3>2
 <2> QED BY <2>1, <2>2
<1>5. ASSUME NEW i \in 1..q.executed PROVE q.log[i] = slot[i].cmd /\ slot[i].phase = "end"
 <2>1. CASE i <= r.executed
  <3>1. i \in 1..r.executed /\ q.log[i] = r.log[i] BY <1>1, <1>2, <1>3, <2>1
  <3> QED BY <3>1 DEF MpReplicaOK
 <2>2. CASE ~(i <= r.executed)
  <3>1. i - r.executed \in DOMAIN cmds /\ r.executed + (i - r.executed) = i /\ q.log[i] = cmds[i - r.executed]
    BY <1>1, <1>2, <1>3, <2>2
  <3>2. cmds[i - r.executed] = slot[r.executed + (i - r.executed)].cmd /\ slot[r.executed + (i - r.executed)].phase = "end"
    BY <3>1 DEF MpFollow
  <3> QED BY <3>1, <3>2
 <2> QED BY <2>1, <2>2
<1>6. ASSUME NEW t \in q.done PROVE \E i \in 1..q.executed : slot[i].cmd = [type |-> "commit", txn |-> t]
 <2>1. CASE t \in r.done
  <3>1. PICK i \in 1..r.executed : slot[i].cmd = [type |-> "commit", txn |-> t] BY <2>1 DEF MpReplicaOK
  <3>2. i \in 1..q.executed BY <1>1
  <3> QED BY <3>1, <3>2
 <2>2. CASE \E i \in DOMAIN cmds : cmds[i].type = "commit" /\ cmds[i].txn = t
  <3>1. PICK i \in DOMAIN cmds : cmds[i].type = "commit" /\ cmds[i].txn = t BY <2>2
  <3>2. cmds[i] \in MpCmds /\ cmds[i] = slot[r.executed + i].cmd BY <3>1 DEF MpFollow
  <3>3. cmds[i] = [type |-> "commit", txn |-> t] BY <3>1, <3>2 DEF MpCmds
  <3>4. r.executed + i \in 1..q.executed BY <1>1
  <3> QED BY <3>2, <3>3, <3>4
 <2> QED BY <1>6, <2>1, <2>2 DEF MpFinishes
<1>7. q.accepted \subseteq DOMAIN slot BY DEF MpReplicaOK
<1> QED BY <1>3, <1>4, <1>5, <1>6, <1>7 DEF MpReplicaOK

(* The leader's executors answer for the commands they apply: the order of two-phase
   commit is kept. *)
LEMMA MpAnswersInOrder ==
  ASSUME NEW slot \in Seq(MpSlotRecord), NEW tpc \in [MpTxns -> MpPhases], NEW new \in [MpTxns -> MpPhases],
         NEW r \in MpReplicaRecord, NEW q \in MpReplicaRecord, MpOnce(tpc, slot, r),
         NEW cmds \in Seq(MpCmds), MpFollow(cmds, slot, r.executed),
         q.executed = r.executed + Len(cmds),
         MpFinishes(r, q, cmds), MpAnswered(tpc, new, cmds)
  PROVE MpOnce(new, slot, q)
<1>1. /\ r.executed \in Nat /\ q.executed \in Nat /\ Len(cmds) \in Nat /\ r.executed <= q.executed
      /\ DOMAIN cmds = 1..Len(cmds) /\ DOMAIN slot \subseteq Nat BY DEF MpReplicaRecord
<1>2. \A i \in DOMAIN slot : slot[i].cmd \in MpCmds /\ slot[i].cmd.type \in {"prepare", "commit"} /\ slot[i].cmd.txn \in MpTxns
  BY MpSlotTyped
<1>3. DOMAIN tpc = MpTxns /\ DOMAIN new = MpTxns OBVIOUS
<1> DEFINE C(t) == \E i \in DOMAIN cmds : cmds[i] = [type |-> "commit", txn |-> t]
           P(t) == \E i \in DOMAIN cmds : cmds[i] = [type |-> "prepare", txn |-> t]
<1>4. ASSUME NEW t \in MpTxns, C(t) PROVE tpc[t] \in {"committing", "done"} /\ new[t] = "done"
 <2>1. PICK i \in DOMAIN cmds : cmds[i] = [type |-> "commit", txn |-> t] BY <1>4
 <2>2. r.executed + i \in DOMAIN slot /\ slot[r.executed + i].cmd = [type |-> "commit", txn |-> t] BY <2>1 DEF MpFollow
 <2>3. slot[r.executed + i].cmd.type = "commit" /\ slot[r.executed + i].cmd.txn = t BY <2>2
 <2> QED BY <1>4, <2>2, <2>3 DEF MpOnce, MpAnswered
<1>5. ASSUME NEW t \in MpTxns, P(t)
      PROVE  /\ tpc[t] = "preparing" /\ ~C(t) /\ new[t] = "prepared"
             /\ \E j \in DOMAIN slot : j <= q.executed /\ slot[j].cmd = [type |-> "prepare", txn |-> t]
 <2>1. PICK i \in DOMAIN cmds : cmds[i] = [type |-> "prepare", txn |-> t] BY <1>5
 <2>2. r.executed + i \in DOMAIN slot /\ slot[r.executed + i].cmd = [type |-> "prepare", txn |-> t] BY <2>1 DEF MpFollow
 <2>3. slot[r.executed + i].cmd.type = "prepare" /\ slot[r.executed + i].cmd.txn = t BY <2>2
 <2>4. r.executed + i > r.executed /\ r.executed + i <= q.executed BY <1>1
 <2>5. tpc[t] = "preparing" BY <2>2, <2>3, <2>4 DEF MpOnce
 <2>6. ~C(t) BY <1>4, <2>5
 <2> QED BY <1>5, <2>2, <2>4, <2>5, <2>6 DEF MpAnswered
<1>6. ASSUME NEW t \in MpTxns, ~C(t), ~P(t) PROVE new[t] = tpc[t] BY <1>6 DEF MpAnswered
<1>7. ASSUME NEW t \in MpTxns, ~C(t) PROVE \A i \in DOMAIN cmds : ~(cmds[i].type = "commit" /\ cmds[i].txn = t)
 <2>1. ASSUME NEW i \in DOMAIN cmds, cmds[i].type = "commit", cmds[i].txn = t PROVE FALSE
  <3>1. cmds[i] \in MpCmds OBVIOUS
  <3>2. cmds[i] = [type |-> "commit", txn |-> t] BY <2>1, <3>1 DEF MpCmds
  <3> QED BY <1>7, <3>2
 <2> QED BY <2>1
<1> HIDE DEF C, P
<1>8. \A i, j \in DOMAIN slot : slot[i].cmd = slot[j].cmd => i = j BY DEF MpOnce
<1>9. ASSUME NEW i \in DOMAIN slot, slot[i].cmd.type = "commit" PROVE new[slot[i].cmd.txn] \in {"committing", "done"}
 <2> DEFINE t == slot[i].cmd.txn
 <2>1. t \in MpTxns /\ tpc[t] \in {"committing", "done"} BY <1>2, <1>9 DEF MpOnce
 <2> HIDE DEF t
 <2>2. new[t] = "done" \/ new[t] = tpc[t] BY <1>4, <1>5, <1>6, <2>1
 <2> QED BY <2>1, <2>2 DEF t
<1>10. ASSUME NEW i \in DOMAIN slot, slot[i].cmd.type = "prepare"
       PROVE  /\ new[slot[i].cmd.txn] \notin {"idle", "dispatched"}
              /\ i > q.executed => new[slot[i].cmd.txn] = "preparing"
 <2> DEFINE t == slot[i].cmd.txn
 <2>1. /\ t \in MpTxns /\ tpc[t] \notin {"idle", "dispatched"}
       /\ i > r.executed => tpc[t] = "preparing" BY <1>2, <1>10 DEF MpOnce
 <2>2. slot[i].cmd = [type |-> "prepare", txn |-> t] BY <1>2, <1>10 DEF MpCmds
 <2> HIDE DEF t
 <2>3. i \in Nat /\ (i > q.executed => i > r.executed) BY <1>1
 <2>4. CASE C(t) BY <1>4, <2>1, <2>3, <2>4 DEF t
 <2>5. CASE P(t)
  <3>1. new[t] = "prepared" BY <1>5, <2>1, <2>5
  <3>2. PICK j \in DOMAIN slot : j <= q.executed /\ slot[j].cmd = [type |-> "prepare", txn |-> t] BY <1>5, <2>1, <2>5
  <3>3. i = j BY <1>8, <2>2, <3>2
  <3>4. ~(i > q.executed) BY <1>1, <3>2, <3>3
  <3> QED BY <3>1, <3>4 DEF t
 <2>6. CASE ~C(t) /\ ~P(t)
  <3>1. new[t] = tpc[t] BY <1>6, <2>1, <2>6
  <3> QED BY <2>1, <2>3, <3>1 DEF t
 <2> QED BY <2>4, <2>5, <2>6 DEF t
<1>11. ASSUME NEW t \in MpTxns, new[t] \in {"dispatched", "preparing", "prepared"} PROVE t \in q.exec
 <2>1. ~C(t) BY <1>4, <1>11
 <2>2. tpc[t] \in {"dispatched", "preparing", "prepared"} BY <1>5, <1>6, <1>11, <2>1
 <2>3. t \in r.exec BY <1>3, <2>2 DEF MpOnce
 <2> QED BY <1>7, <2>1, <2>3 DEF MpFinishes
<1> QED BY <1>3, <1>8, <1>9, <1>10, <1>11 DEF MpOnce

LEMMA MpIsSequence ==
  ASSUME NEW S, NEW k \in Nat, NEW f \in [1..k -> S]
  PROVE f \in Seq(S) /\ Len(f) = k /\ DOMAIN f = 1..k
OBVIOUS

(* The decisions that slot n lets a replica apply (OnCommit). *)
LEMMA MpDecidedFollow ==
  ASSUME NEW slot \in Seq(MpSlotRecord), NEW r \in MpReplicaRecord, MpReplicaOK(r, slot),
         NEW n \in DOMAIN slot, NEW x \in MpCmds, x = slot[n].cmd, slot[n].phase = "end", NEW k, NEW cmds,
         k = Cardinality(MpRunnable(r, n)),
         cmds = [i \in 1..k |-> IF i = 1 THEN x ELSE r.buffer[n + i - 1]]
  PROVE  /\ cmds \in Seq(MpCmds) /\ Len(cmds) = k /\ k \in Nat /\ MpFollow(cmds, slot, r.executed)
         /\ k = 0 <=> n # r.executed + 1
         /\ \A i \in 2..k : n + i - 1 \in DOMAIN r.buffer
<1>1. r.committed \in Nat /\ r.executed \in Nat /\ r.buffer \in MpBuffers /\ n \in Nat BY DEF MpReplicaRecord
<1>2. /\ k \in Nat /\ (k = 0 <=> n # r.executed + 1)
      /\ \A i \in 2..k : n + i - 1 \in DOMAIN r.buffer BY <1>1, MpRunnableIs
<1>3. ASSUME NEW i \in 1..k
      PROVE  /\ r.executed + i \in DOMAIN slot /\ slot[r.executed + i].phase = "end"
             /\ cmds[i] = slot[r.executed + i].cmd /\ cmds[i] \in MpCmds
 <2>1. n = r.executed + 1 /\ n + i - 1 = r.executed + i BY <1>1, <1>2
 <2>2. CASE i = 1 BY <2>1, <2>2
 <2>3. CASE i # 1
  <3>1. i \in 2..k BY <1>2, <2>3
  <3>2. r.executed + i \in DOMAIN r.buffer BY <1>2, <2>1, <3>1
  <3>3. cmds[i] = r.buffer[r.executed + i] BY <2>1, <2>3
  <3>4. r.executed + i \in DOMAIN slot /\ r.buffer[r.executed + i] = slot[r.executed + i].cmd
        /\ slot[r.executed + i].phase = "end" BY <3>2 DEF MpReplicaOK
  <3>5. slot[r.executed + i].cmd \in MpCmds BY <3>4, MpSlotTyped
  <3> QED BY <3>3, <3>4, <3>5
 <2> QED BY <2>2, <2>3
<1>4. cmds \in [1..k -> MpCmds] BY <1>3
<1>5. cmds \in Seq(MpCmds) /\ Len(cmds) = k /\ DOMAIN cmds = 1..k BY <1>2, <1>4, MpIsSequence
<1> QED BY <1>2, <1>3, <1>5 DEF MpFollow

(* Decide. *)
LEMMA MpOnDecideStep ==
  ASSUME MpInv, MpNext, NEW m \in mp_net, MpOnDecide(m)
  PROVE MpInv'
<1>0. /\ MpTypeOK /\ MpNetOK /\ MpReplicasOK /\ MpVotesOK /\ MpOrderOK /\ ~mp_bad BY DEF MpInv
<1> DEFINE v == m.rep
           n == m.slot
           r == mp_rep[v]
           k == Cardinality(MpRunnable(r, n))
           cmds == [i \in 1..k |-> IF i = 1 THEN m.cmd ELSE r.buffer[n + i - 1]]
           com == IF n > r.committed THEN n ELSE r.committed
           put == MpPut(r.buffer, n, m.cmd)
           buf == IF k = 0 THEN put ELSE r.buffer
           c == [r EXCEPT !.committed = com, !.buffer = buf]
           q == MpApply(c, cmds)
           ok == n > r.executed /\ \A i \in DOMAIN cmds : cmds[i].type = "commit" => cmds[i].txn \notin r.done
<1>1. /\ m.type = "Decide" /\ mp_load' = mp_load /\ mp_slot' = mp_slot
      /\ mp_rep' = [mp_rep EXCEPT ![v] = q] /\ mp_net' = mp_net \ {m}
      /\ mp_tpc' = IF v = MpLeader THEN [t \in MpTxns |-> MpReply(t, cmds)] ELSE mp_tpc
      /\ mp_bad' = (mp_bad \/ ~ok) BY DEF MpOnDecide, MpVerify, MpPut
<1>2. /\ v \in MpNodes /\ n \in Nat /\ m \in MpMessages /\ r \in MpReplicaRecord /\ m.cmd \in MpCmds
      /\ mp_slot \in Seq(MpSlotRecord)
      /\ n \in DOMAIN mp_slot /\ m.cmd = mp_slot[n].cmd /\ mp_slot[n].phase = "end"
      /\ n > r.executed /\ n \notin DOMAIN r.buffer /\ MpReplicaOK(r, mp_slot)
  BY <1>0, <1>1 DEF MpTypeOK, MpMessages, MpNetOK, MpMessageOK, MpReplicasOK
<1> HIDE DEF n, v
<1>3. /\ cmds \in Seq(MpCmds) /\ Len(cmds) = k /\ k \in Nat /\ MpFollow(cmds, mp_slot, r.executed)
      /\ k = 0 <=> n # r.executed + 1
      /\ \A i \in 2..k : n + i - 1 \in DOMAIN r.buffer BY <1>2, MpDecidedFollow
<1>4. r.executed \in Nat /\ r.committed \in Nat /\ r.buffer \in MpBuffers BY <1>2 DEF MpReplicaRecord
<1>5. com \in Nat BY <1>2, <1>4
<1> HIDE DEF cmds, com, k
<1>6. put \in MpBuffers /\ DOMAIN put = DOMAIN r.buffer \cup {n} /\ \A j \in DOMAIN put : put[j] = IF j = n THEN m.cmd ELSE r.buffer[j]
 <2> DEFINE b == r.buffer
            x == m.cmd
 <2>1. b \in MpBuffers /\ n \in Nat /\ x \in MpCmds BY <1>2, <1>4
 <2>2. put = MpPut(b, n, x) OBVIOUS
 <2> HIDE DEF b, x, put
 <2>3. put \in MpBuffers /\ DOMAIN put = DOMAIN b \cup {n} /\ \A j \in DOMAIN put : put[j] = IF j = n THEN x ELSE b[j]
   BY <2>1, <2>2, MpBufferPut
 <2> QED BY <2>3 DEF b, x
<1> HIDE DEF put
<1>7. /\ buf \in MpBuffers /\ (k = 0 => DOMAIN buf = DOMAIN r.buffer \cup {n}) /\ (k # 0 => buf = r.buffer)
      /\ \A j \in DOMAIN buf : j \in DOMAIN mp_slot /\ buf[j] = mp_slot[j].cmd /\ mp_slot[j].phase = "end"
 <2>1. \A j \in DOMAIN r.buffer : j \in DOMAIN mp_slot /\ r.buffer[j] = mp_slot[j].cmd /\ mp_slot[j].phase = "end"
   BY <1>2 DEF MpReplicaOK
 <2>2. CASE k = 0 BY <1>2, <1>6, <2>1, <2>2
 <2>3. CASE k # 0 BY <1>4, <2>1, <2>3
 <2> QED BY <2>2, <2>3
<1> HIDE DEF buf
<1>8. /\ c \in MpReplicaRecord /\ c.buffer = buf
      /\ c.accepted = r.accepted /\ c.executed = r.executed /\ c.log = r.log /\ c.done = r.done /\ c.exec = r.exec
  BY <1>2, <1>5, <1>7 DEF MpReplicaRecord
<1> HIDE DEF c
<1>9. /\ q \in MpReplicaRecord
      /\ q.accepted = r.accepted /\ q.buffer = buf
      /\ q.log = r.log \o cmds /\ q.executed = r.executed + k
      /\ MpFinishes(r, q, cmds)
 <2>1. /\ q \in MpReplicaRecord
       /\ q.accepted = c.accepted /\ q.buffer = c.buffer /\ q.log = c.log \o cmds /\ q.executed = c.executed + Len(cmds)
       /\ MpFinishes(c, q, cmds) BY <1>3, <1>8, MpApplyIs
 <2>2. MpFinishes(r, q, cmds) BY <1>8, <2>1 DEF MpFinishes
 <2> QED BY <1>3, <1>8, <2>1, <2>2
<1> HIDE DEF q
<1>10. \A u \in MpNodes : mp_rep'[u] = IF u = v THEN q ELSE mp_rep[u] BY <1>0, <1>1, <1>2 DEF MpTypeOK
<1>11. ASSUME NEW t \in MpTxns PROVE MpReply(t, cmds) \in MpPhases
 <2>1. mp_tpc[t] \in MpPhases BY <1>0 DEF MpTypeOK
 <2> QED BY <2>1 DEF MpReply, MpPhases
<1>12. mp_tpc' \in [MpTxns -> MpPhases] BY <1>0, <1>1, <1>11 DEF MpTypeOK
<1>13. MpTypeOK'
 <2>1. mp_rep' \in [MpNodes -> MpReplicaRecord] BY <1>0, <1>1, <1>9 DEF MpTypeOK
 <2> QED BY <1>0, <1>1, <1>12, <2>1, MpLoadKept DEF MpTypeOK
<1>14. ASSUME NEW x \in mp_net' PROVE MpMessageOK(x, mp_slot, mp_rep'[x.rep])
 <2>1. x \in mp_net /\ x # m /\ MpMessageOK(x, mp_slot, mp_rep[x.rep]) /\ x.rep \in MpNodes /\ x.slot \in Nat
   BY <1>0, <1>1 DEF MpNetOK, MpTypeOK, MpMessages
 <2>2. CASE x.rep = v /\ x.type = "Decide"
  <3>1. x.slot # n BY <1>0, <1>1, <2>1, <2>2, MpOneMessage DEF v, n
  <3>2. x.slot > r.executed /\ x.slot \notin DOMAIN r.buffer BY <2>1, <2>2 DEF MpMessageOK
  <3>3. x.slot \notin DOMAIN buf BY <1>7, <3>1, <3>2
  <3>4. x.slot > q.executed
   <4>1. CASE x.slot <= r.executed + k
    <5> DEFINE i == x.slot - r.executed
    <5>0. k \in Nat /\ (k = 0 <=> n # r.executed + 1) /\ n \in Nat /\ r.executed \in Nat /\ x.slot \in Nat
      BY <1>2, <1>3, <1>4, <2>1
    <5>1. n = r.executed + 1 /\ i \in 2..k /\ n + i - 1 = x.slot BY <5>0, <3>1, <3>2, <4>1
    <5> HIDE DEF i
    <5> QED BY <1>3, <3>2, <5>1
   <4>2. CASE ~(x.slot <= r.executed + k) BY <1>3, <1>4, <1>9, <2>1, <4>2
   <4> QED BY <4>1, <4>2
  <3> QED BY <1>9, <1>10, <2>1, <2>2, <3>3, <3>4 DEF MpMessageOK
 <2>3. CASE x.rep = v /\ x.type # "Decide" BY <1>9, <1>10, <2>1, <2>3 DEF MpMessageOK
 <2>4. CASE x.rep # v BY <1>10, <2>1, <2>4
 <2> QED BY <2>2, <2>3, <2>4
<1>15. MpNetOK' BY <1>1, <1>14 DEF MpNetOK, MpMessageOK
<1>16. MpReplicasOK'
 <2>1. MpReplicaOK(q, mp_slot)
  <3>1. DOMAIN q.buffer \subseteq DOMAIN mp_slot /\ \A j \in DOMAIN q.buffer : q.buffer[j] = mp_slot[j].cmd /\ mp_slot[j].phase = "end"
    BY <1>7, <1>9
  <3> QED BY <1>2, <1>3, <1>9, <3>1, MpAppliesInStep
 <2>2. \A u \in MpNodes : MpReplicaOK(mp_rep'[u], mp_slot) BY <1>0, <1>10, <2>1 DEF MpReplicasOK
 <2> QED BY <1>1, <2>2, MpLoadKept DEF MpReplicasOK, MpReplicaOK
<1>17. MpVotesOK'
 <2>1. ASSUME NEW j, NEW u \in MpVoted(j) PROVE u \in MpVoted(j)'
  <3>1. u \in MpNodes /\ j \in mp_rep[u].accepted /\ ~MpAckOnWay(j, u) BY DEF MpVoted
  <3>2. ~MpAckOnWay(j, u)' BY <1>1, <3>1 DEF MpAckOnWay
  <3>3. j \in mp_rep'[u].accepted BY <1>9, <1>10, <3>1
  <3> QED BY <3>1, <3>2, <3>3, MpLoadKept DEF MpVoted
 <2>2. \A j : MpVoted(j) \subseteq MpVoted(j)' BY <2>1
 <2> QED BY <1>0, <1>1, <2>2, MpVotesKept
<1>18. MpOrderOK'
 <2>1. MpOnce(mp_tpc, mp_slot, mp_rep[MpLeader]) /\ mp_tpc \in [MpTxns -> MpPhases] /\ MpLeader \in MpNodes
   BY <1>0, MpConstants DEF MpOrderOK, MpTypeOK
 <2>2. CASE v = MpLeader
  <3>1. MpAnswered(mp_tpc, mp_tpc', cmds) BY <1>1, <2>2 DEF MpReply, MpAnswered
  <3>2. MpOnce(mp_tpc', mp_slot, q)
   <4>1. MpOnce(mp_tpc, mp_slot, r) /\ q.executed = r.executed + Len(cmds) BY <1>3, <1>9, <2>1, <2>2
   <4> QED BY <1>2, <1>3, <1>9, <1>12, <2>1, <3>1, <4>1, MpAnswersInOrder
  <3>3. mp_rep'[MpLeader] = q BY <1>2, <1>10, <2>2
  <3> QED BY <1>1, <3>2, <3>3 DEF MpOrderOK, MpOnce, MpLeader
 <2>3. CASE v # MpLeader
  <3>1. mp_tpc' = mp_tpc /\ mp_rep'[MpLeader] = mp_rep[MpLeader] BY <1>1, <1>10, <2>1, <2>3
  <3> QED BY <1>1, <2>1, <3>1 DEF MpOrderOK, MpOnce, MpLeader
 <2> QED BY <2>2, <2>3
<1>19. ~mp_bad'
 <2>1. ASSUME NEW i \in DOMAIN cmds, cmds[i].type = "commit", cmds[i].txn \in r.done PROVE FALSE
  <3> DEFINE t == cmds[i].txn
  <3>1. cmds[i] \in MpCmds BY <1>3
  <3>2. cmds[i] = [type |-> "commit", txn |-> t] BY <2>1, <3>1 DEF MpCmds
  <3>3. t \in r.done BY <2>1
  <3> HIDE DEF t
  <3>4. PICK j \in 1..r.executed : mp_slot[j].cmd = [type |-> "commit", txn |-> t] BY <1>2, <3>3 DEF MpReplicaOK
  <3>5. r.executed + i \in DOMAIN mp_slot /\ cmds[i] = mp_slot[r.executed + i].cmd BY <1>3 DEF MpFollow
  <3>6. r.executed <= Len(mp_slot) BY <1>2 DEF MpReplicaOK
  <3>7. j \in DOMAIN mp_slot BY <1>2, <1>4, <3>6
  <3>8. j = r.executed + i BY <1>0, <3>2, <3>4, <3>5, <3>7 DEF MpOrderOK, MpOnce
  <3>9. i \in 1..k BY <1>3
  <3> QED BY <1>3, <1>4, <3>8, <3>9
 <2>2. ok BY <1>2, <2>1
 <2> QED BY <1>0, <1>1, <2>2
<1> QED BY <1>13, <1>15, <1>16, <1>17, <1>18, <1>19 DEF MpInv

LEMMA MpInitInv ==
  ASSUME MpInit
  PROVE MpInv
<1> DEFINE r == [accepted |-> {}, committed |-> 0, executed |-> 0,
                 buffer |-> [n \in {} |-> 0], log |-> <<>>, exec |-> {}, done |-> {}]
<1>1. mp_rep = [v \in MpNodes |-> r] /\ mp_slot = <<>> /\ mp_net = {} /\ mp_bad = FALSE /\ mp_load \in MpLoads
      /\ mp_tpc = [t \in MpTxns |-> "idle"] BY DEF MpInit
<1>2. [n \in {} |-> 0] \in MpBuffers
 <2>1. {} \in SUBSET Nat /\ [n \in {} |-> 0] \in [{} -> MpCmds] OBVIOUS
 <2> QED BY <2>1 DEF MpBuffers
<1>3. r \in MpReplicaRecord BY <1>2 DEF MpReplicaRecord
<1>4. /\ r.accepted = {} /\ DOMAIN r.buffer = {} /\ r.executed = 0 /\ r.log = <<>> /\ r.done = {} OBVIOUS
<1> HIDE DEF r
<1>5. MpTypeOK BY <1>1, <1>3 DEF MpTypeOK, MpPhases
<1>6. \A v \in MpNodes : MpReplicaOK(mp_rep[v], mp_slot)
 <2>1. DOMAIN mp_slot = {} /\ Len(mp_slot) = 0 /\ Len(r.log) = 0 BY <1>1, <1>4
 <2>2. MpReplicaOK(r, mp_slot) BY <1>4, <2>1 DEF MpReplicaOK
 <2> QED BY <1>1, <2>2
<1>7. MpVotesOK /\ MpNetOK BY <1>1 DEF MpVotesOK, MpNetOK
<1>8. MpOrderOK BY <1>1 DEF MpOrderOK, MpOnce
<1> QED BY <1>1, <1>5, <1>6, <1>7, <1>8 DEF MpInv, MpReplicasOK

LEMMA MpInvStep ==
  ASSUME MpInv, [MpNext]_paxosVars
  PROVE MpInv'
<1>1. CASE MpNext
 <2>1. CASE \E t \in MpTxns : MpDispatch(t) BY <1>1, <2>1, MpDispatchStep
 <2>2. CASE \E t \in MpTxns : MpOnPrepare(t) \/ MpOnCommit(t) BY <1>1, <2>2, MpPrepareCommitStep
 <2>3. CASE \E m \in mp_net : MpAcceptAck(m) BY <1>1, <2>3, MpAcceptAckStep
 <2>4. CASE \E m \in mp_net : MpOnAccept(m) BY <1>1, <2>4, MpOnAcceptStep
 <2>5. CASE \E m \in mp_net : MpOnDecide(m) BY <1>1, <2>5, MpOnDecideStep
 <2> QED BY <1>1, <2>1, <2>2, <2>3, <2>4, <2>5 DEF MpNext
<1>2. CASE UNCHANGED paxosVars
 <2>1. /\ mp_load' = mp_load /\ mp_tpc' = mp_tpc /\ mp_slot' = mp_slot /\ mp_rep' = mp_rep /\ mp_net' = mp_net
       /\ mp_bad' = mp_bad BY <1>2 DEF paxosVars
 <2>2. MpNodes' = MpNodes /\ MpTxns' = MpTxns /\ MpCmds' = MpCmds /\ MpSlotRecord' = MpSlotRecord
       /\ MpMessages' = MpMessages /\ MpReplicaRecord' = MpReplicaRecord /\ MpQuorum' = MpQuorum
   BY <2>1 DEF MpNodes, MpReplicas, MpTxns, MpCmds, MpSlotRecord, MpMessages, MpReplicaRecord, MpBuffers, MpQuorum
 <2>3. MpTypeOK' /\ MpNetOK' /\ MpReplicasOK' /\ MpOrderOK'
   BY <2>1, <2>2 DEF MpInv, MpTypeOK, MpNetOK, MpMessageOK, MpReplicasOK, MpReplicaOK, MpOrderOK, MpOnce, MpLeader
 <2>4. \A n : MpVoted(n)' = MpVoted(n) BY <2>1, <2>2 DEF MpVoted, MpAckOnWay
 <2>5. MpVotesOK' BY <2>1, <2>2, <2>4 DEF MpInv, MpVotesOK
 <2> QED BY <2>1, <2>3, <2>5 DEF MpInv
<1> QED BY <1>1, <1>2

LEMMA MpInvGives ==
  ASSUME MpInv
  PROVE MpSameLog /\ MpAnswerIsReplicated /\ MpNoVerifyFails
<1>0. MpTypeOK /\ MpReplicasOK /\ MpVotesOK /\ ~mp_bad BY DEF MpInv
<1>1. ASSUME NEW v \in MpNodes, NEW i \in DOMAIN mp_rep[v].log
      PROVE i \in DOMAIN mp_slot /\ mp_rep[v].log[i] = mp_slot[i].cmd /\ mp_slot[i].phase = "end"
 <2>1. MpReplicaOK(mp_rep[v], mp_slot) /\ mp_rep[v].log \in Seq(MpCmds) /\ mp_slot \in Seq(MpSlotRecord)
   BY <1>0 DEF MpReplicasOK, MpTypeOK, MpReplicaRecord
 <2>2. i \in 1..mp_rep[v].executed BY <1>1, <2>1 DEF MpReplicaOK
 <2>3. mp_rep[v].executed \in Nat /\ mp_rep[v].executed <= Len(mp_slot)
   BY <1>0, <2>1 DEF MpReplicaOK, MpTypeOK, MpReplicaRecord
 <2>4. i \in DOMAIN mp_slot BY <2>1, <2>2, <2>3
 <2> QED BY <2>1, <2>2, <2>4 DEF MpReplicaOK
<1>2. MpSameLog BY <1>1 DEF MpSameLog
<1>3. MpAnswerIsReplicated
 <2> SUFFICES ASSUME NEW i \in DOMAIN mp_rep[MpLeader].log
              PROVE 2 * Cardinality({v \in MpNodes : i \in mp_rep[v].accepted}) > MpReplicas
   BY DEF MpAnswerIsReplicated
 <2> DEFINE A == {v \in MpNodes : i \in mp_rep[v].accepted}
 <2>1. MpLeader \in MpNodes /\ MpReplicas \in Nat \ {0} /\ IsFiniteSet(MpNodes) BY <1>0, MpConstants
 <2>2. i \in DOMAIN mp_slot /\ mp_slot[i].phase = "end" BY <1>1, <2>1
 <2>3. MpQuorum <= Cardinality(MpVoted(i)) BY <1>0, <2>2 DEF MpVotesOK
 <2>4. MpVoted(i) \subseteq A /\ A \subseteq MpNodes BY DEF MpVoted
 <2>5. IsFiniteSet(A) BY <2>1, <2>4, FS_Subset
 <2>6. Cardinality(MpVoted(i)) <= Cardinality(A) /\ IsFiniteSet(MpVoted(i)) BY <2>4, <2>5, FS_Subset
 <2>7. Cardinality(A) \in Nat /\ Cardinality(MpVoted(i)) \in Nat BY <2>5, <2>6, FS_CardinalityType
 <2>8. MpQuorum = MpReplicas \div 2 + 1 BY DEF MpQuorum
 <2> HIDE DEF A
 <2>9. 2 * Cardinality(A) > MpReplicas BY <2>1, <2>3, <2>6, <2>7, <2>8
 <2> QED BY <2>9 DEF A
<1> QED BY <1>0, <1>2, <1>3 DEF MpNoVerifyFails

(* Multi-Paxos, for any number of replicas and any transactions, whatever the order in
   which the calls arrive: all replicas apply the commands of the slots in their order
   (MultiPaxosSched::OnCommit with its buffer), the leader answers Prepare or Commit
   only once more than half of the replicas have accepted the command (AcceptAck), and
   no verify of the schedulers and executors fails: no slot is accepted or applied twice
   and no transaction is finished twice. *)
THEOREM MpReplicatesHolds == MpSpec => [](MpSameLog /\ MpAnswerIsReplicated /\ MpNoVerifyFails)
<1>1. MpInit => MpInv BY MpInitInv
<1>2. MpInv /\ [MpNext]_paxosVars => MpInv' BY MpInvStep
<1>3. MpInv => MpSameLog /\ MpAnswerIsReplicated /\ MpNoVerifyFails BY MpInvGives
<1> QED BY <1>1, <1>2, <1>3, PTL DEF MpSpec

-----
(* For every number of partitions and replicas, every workload and every order of the
   messages: the partitions of a two-phase commit carry out the coordinator's decision
   (ClassicCoord::PrepareAck and SchedulerClassic::OnCommit), the replicas of a TAPIR
   partition apply the same writes to each row in the same order (TapirCoord::Decide and
   TapirSched::OnDecide), and those of a Paxos log apply the same commands
   (MultiPaxosSched::OnCommit). *)
THEOREM AgreementHolds == CmSpec /\ TaSpec /\ MpSpec => []Agreement
<1>1. CmAtomic /\ TaReplicasAgree /\ MpSameLog => Agreement BY DEF Agreement
<1> QED BY <1>1, CmAtomicHolds, TaReplicasAgreeHolds, MpReplicatesHolds, PTL
=====
