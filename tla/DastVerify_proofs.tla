----- MODULE DastVerify_proofs -----
(* No verify() of the scheduler fails: for every deployment, workload and order of
   messages, no handler meets a state that the code does not expect, and no site stops.
   Most of those checks say that something is new: a record, a timestamp in the queue or
   among the floors, the output of a partition.  CrtInv shows it: how far a cross-region
   transaction has got at each site, together with what is on the way to it.  PrepareCRT
   is on its way only to a site that has no record with a role, or to a coordinator that
   has not counted itself; DistExe only to one that owes nothing yet; a queue entry is
   the timestamp of its record; and the leader of a partition answers once, when it has
   run its pieces. It rests on KnownInv, TidyInv and LeadersInv, on UniqueInv (a
   timestamp in use belongs to one transaction) and on DecidedInv and OffersInv (one
   coordinator, one offer a region). *)
EXTENDS DastReply_proofs

-----
(* CrtAll, one transaction at a time. *)
CrtOf(x, dt, R, F, q, p, t) ==
  /\ \A s \in Sites : \A e \in R[s] : e.id = t => CrtEntry(x[s][t], e)
  /\ \A s \in Sites : CrtTx(x, dt, R, s, t)
  /\ \A c \in Sites \X Nodes : \A m \in MsgsIn(q[c]) :
       m.type \in {"PrepareCRT", "DistExe"} /\ m.txn = t => CrtReq(x, dt, F, m, c[2])
  /\ \A c \in Sites \X Sites : \A m \in MsgsIn(p[c]) :
       m.type = "DistExeRes" /\ m.txn = t => CrtRep(x, R, m, c[1])
AllOneAnswer(p) == \A c \in Sites \X Sites : OneAnswer(p[c])

(* CrtAll transaction by transaction. *)
LEMMA CrtParts ==
  ASSUME NEW x, NEW dt, NEW R, NEW F, NEW q, NEW p, CrtAll(x, dt, R, F, q, p)
  PROVE AllOneAnswer(p) /\ \A t \in Txns : CrtOf(x, dt, R, F, q, p, t)
<1>1. AllOneAnswer(p) BY DEF CrtAll, AllOneAnswer
<1>2. ASSUME NEW t \in Txns PROVE CrtOf(x, dt, R, F, q, p, t)
 <2>1. \A s \in Sites : \A e \in R[s] : e.id = t => CrtEntry(x[s][t], e) BY DEF CrtAll
 <2>2. \A s \in Sites : CrtTx(x, dt, R, s, t) BY DEF CrtAll
 <2>3. \A c \in Sites \X Nodes : \A m \in MsgsIn(q[c]) : CrtReq(x, dt, F, m, c[2]) BY DEF CrtAll
 <2>4. \A c \in Sites \X Sites : \A m \in MsgsIn(p[c]) : CrtRep(x, R, m, c[1]) BY DEF CrtAll
 <2> QED BY <2>1, <2>2, <2>3, <2>4 DEF CrtOf
<1> QED BY <1>1, <1>2

(* And back. *)
LEMMA CrtWhole ==
  ASSUME NEW x, NEW dt, NEW R, NEW F, NEW q \in [Sites \X Nodes -> Seq(ReqMsg)],
         NEW p \in [Sites \X Sites -> Seq(RepMsg)], \A s \in Sites : R[s] \in Entries,
         AllOneAnswer(p), \A t \in Txns : CrtOf(x, dt, R, F, q, p, t)
  PROVE CrtAll(x, dt, R, F, q, p)
<1>1. ASSUME NEW s \in Sites, NEW e \in R[s] PROVE CrtEntry(x[s][e.id], e)
 <2>1. e.id \in Txns
  <3>1. R[s] \in Entries OBVIOUS
  <3> QED BY <1>1, <3>1 DEF Entries, Entry
 <2> QED BY <1>1, <2>1 DEF CrtOf
<1>2. \A s \in Sites, t \in Txns : CrtTx(x, dt, R, s, t) BY DEF CrtOf
<1>3. ASSUME NEW c \in Sites \X Nodes, NEW m \in MsgsIn(q[c]) PROVE CrtReq(x, dt, F, m, c[2])
 <2>1. m \in ReqMsg
  <3>1. q[c] \in Seq(ReqMsg) OBVIOUS
  <3> QED BY <1>3, <3>1 DEF MsgsIn
 <2>2. CASE m.type \in {"PrepareCRT", "DistExe"}
  <3>1. m.txn \in Txns BY <2>1, <2>2, ReqFields
  <3> QED BY <1>3, <2>2, <3>1 DEF CrtOf
 <2>3. CASE m.type \notin {"PrepareCRT", "DistExe"} BY <2>3 DEF CrtReq
 <2> QED BY <2>2, <2>3
<1>4. ASSUME NEW c \in Sites \X Sites, NEW m \in MsgsIn(p[c]) PROVE CrtRep(x, R, m, c[1])
 <2>1. m \in RepMsg
  <3>1. p[c] \in Seq(RepMsg) OBVIOUS
  <3> QED BY <1>4, <3>1 DEF MsgsIn
 <2>2. CASE m.type = "DistExeRes"
  <3>1. m.txn \in Txns BY <2>1 DEF RepMsg
  <3> QED BY <1>4, <2>2, <3>1 DEF CrtOf
 <2>3. CASE m.type # "DistExeRes" BY <2>3 DEF CrtRep
 <2> QED BY <2>2, <2>3
<1> QED BY <1>1, <1>2, <1>3, <1>4 DEF CrtAll, AllOneAnswer

(* Intra-region transactions. *)
PlainRecord(y) == y.role \notin {"crtCoord", "crtReplica"} /\ y.owes = -1
(* It says nothing of an intra-region transaction. *)
LEMMA IrtCrt ==
  ASSUME NEW x, NEW dt, NEW R, NEW F, NEW q, NEW p, NEW t \in Txns, IsIrt(t),
         \A s \in Sites : PlainRecord(x[s][t]),
         \A c \in Sites \X Nodes : \A m \in MsgsIn(q[c]) : m.type \in {"PrepareCRT", "DistExe"} => m.txn # t,
         \A c \in Sites \X Sites : \A m \in MsgsIn(p[c]) : m.type = "DistExeRes" => m.txn # t
  PROVE CrtOf(x, dt, R, F, q, p, t)
<1>1. \A s \in Sites : \A e \in R[s] : e.id = t => CrtEntry(x[s][t], e) BY DEF CrtEntry
<1>2. ASSUME NEW s \in Sites PROVE CrtTx(x, dt, R, s, t) BY DEF CrtTx, PlainRecord, Leads, Open
<1> QED BY <1>1, <1>2 DEF CrtOf

-----
(* What a step leaves of a transaction it is not about: x and R are the records and the
   queues afterwards. *)
FloorsSpare(t) ==
  \A c \in Sites \X Nodes : \A m \in MsgsIn(req[c]) :
    m.type = "PrepareCRT" /\ m.txn = t /\ m \in MsgsIn(req'[c]) => m.ts \notin dist_txn_tss'[c[2]]
Untouched(x, R, t) ==
  /\ \A k \in Sites : SameCrt(tx[k][t], x[k][t])
  /\ \A k \in Sites : \A e \in R[k] : e.id = t => e \in ready_txns[k]
  /\ \A k \in Sites : t \in dtxns'[k] <=> t \in dtxns[k]
  /\ \A c \in Sites \X Nodes : \A m \in NewReqs(c) : m.type \in {"PrepareCRT", "DistExe"} => m.txn # t
  /\ FloorsSpare(t)

(* Records that agree in their roles, phases and outputs agree on decisions and outputs. *)
LEMMA SameRuled ==
  ASSUME NEW t, NEW x, NEW z, \A k \in Sites : SameCrt(x[k][t], z[k][t])
  PROVE  /\ Ruled(x, t) <=> Ruled(z, t)
         /\ \A par : NoOutput(x, t, par) <=> NoOutput(z, t, par) BY DEF SameCrt, Ruled, NoOutput

(* A transaction that a step does not touch stays as it was. *)
LEMMA CrtUntouched ==
  ASSUME NEW x, NEW R, NEW p, NEW t \in Txns, Untouched(x, R, t),
         CrtOf(tx, dtxns, ready_txns, dist_txn_tss, req, p, t)
  PROVE CrtOf(x, dtxns', R, dist_txn_tss', req', p, t)
<1>1. /\ \A k \in Sites : SameCrt(tx[k][t], x[k][t])
      /\ \A k \in Sites : \A e \in R[k] : e.id = t => e \in ready_txns[k]
      /\ \A k \in Sites : t \in dtxns'[k] <=> t \in dtxns[k] BY DEF Untouched
<1>2. /\ Ruled(tx, t) <=> Ruled(x, t)
      /\ \A par : NoOutput(tx, t, par) <=> NoOutput(x, t, par) BY <1>1, SameRuled
<1>3. \A k \in Sites : InQueue(R[k], t) => InQueue(ready_txns[k], t) BY <1>1 DEF InQueue
<1>4. \A k \in Sites : /\ Leads(tx[k][t], k) <=> Leads(x[k][t], k)
                       /\ Open(x[k][t], k, t, R[k]) => Open(tx[k][t], k, t, ready_txns[k])
  BY <1>1, <1>3 DEF Leads, Open, SameCrt
<1>5. ASSUME NEW s \in Sites, NEW e \in R[s], e.id = t PROVE CrtEntry(x[s][t], e)
 <2>1. CrtEntry(tx[s][t], e) BY <1>1, <1>5 DEF CrtOf
 <2> QED BY <1>1, <2>1 DEF CrtEntry, SameCrt
<1>6. ASSUME NEW s \in Sites PROVE CrtTx(x, dtxns', R, s, t)
 <2>1. CrtTx(tx, dtxns, ready_txns, s, t) BY DEF CrtOf
 <2>2. SameCrt(tx[s][t], x[s][t]) BY <1>1
 <2>3. HeardLeaders(tx[s][t], t) => HeardLeaders(x[s][t], t) BY <2>2 DEF HeardLeaders, SameCrt, AcksOf
 <2>4. (t \in dtxns'[s] <=> t \in dtxns[s]) /\ (Leads(tx[s][t], s) <=> Leads(x[s][t], s))
       /\ (Open(x[s][t], s, t, R[s]) => Open(tx[s][t], s, t, ready_txns[s])) BY <1>1, <1>4
 <2> QED BY <1>2, <2>1, <2>2, <2>3, <2>4 DEF CrtTx, SameCrt
<1>7. ASSUME NEW c \in Sites \X Nodes, NEW m \in MsgsIn(req'[c]),
             m.type \in {"PrepareCRT", "DistExe"}, m.txn = t
      PROVE CrtReq(x, dtxns', dist_txn_tss', m, c[2])
 <2>1. m \in MsgsIn(req[c]) BY <1>7 DEF Untouched, NewReqs
 <2>2. CrtReq(tx, dtxns, dist_txn_tss, m, c[2]) BY <1>7, <2>1 DEF CrtOf
 <2>3. m.type = "PrepareCRT" => m.ts \notin dist_txn_tss'[c[2]] BY <1>7, <2>1 DEF Untouched, FloorsSpare
 <2>4. c[2] \in Sites BY <1>7, <2>2 DEF CrtReq
 <2>5. SameCrt(tx[c[2]][t], x[c[2]][t]) /\ (t \in dtxns'[c[2]] <=> t \in dtxns[c[2]]) BY <1>1, <2>4
 <2> QED BY <1>2, <1>7, <2>2, <2>3, <2>4, <2>5 DEF CrtReq, SameCrt
<1>8. ASSUME NEW c \in Sites \X Sites, NEW m \in MsgsIn(p[c]), m.type = "DistExeRes", m.txn = t
      PROVE CrtRep(x, R, m, c[1])
 <2>1. CrtRep(tx, ready_txns, m, c[1]) BY <1>8 DEF CrtOf
 <2>2. c[1] \in Sites OBVIOUS
 <2> QED BY <1>2, <1>4, <1>8, <2>1, <2>2 DEF CrtRep
<1> QED BY <1>5, <1>6, <1>7, <1>8 DEF CrtOf
-----
(* What a handler of s does to a cross-region transaction t from the call of
   CheckExecutableTxns on. *)
NewAnswer(s, R, x, t) ==
  /\ Leads(x[t], s) /\ x[t].owes # -1
  /\ InQueue(R, t) /\ ~InQueue(ready_txns'[s], t)
RanOn(s, R, x, t) ==
  /\ SameRecord(x[t], tx'[s][t]) /\ SameProgress(t, x[t], tx'[s][t], ParOf(s))
  /\ Leads(x[t], s) /\ InQueue(ready_txns'[s], t) => tx'[s][t].pieces # tx'[s][t].done
  /\ ~(x[t].phase >= PHASE_CAN_EXE) => tx'[s][t] = x[t]
  /\ \A c \in Sites \X Sites : \A m \in MsgsIn(rep'[c]) :
       m.type = "DistExeRes" /\ m.txn = t =>
         m \in MsgsIn(rep[c]) \/ (c[1] = s /\ NewAnswer(s, R, x, t))

(* Taking a message adds none. *)
LEMMA RestMsgs ==
  ASSUME TypeOK, NEW p, Rest(p, rep)
  PROVE  /\ p \in [Sites \X Sites -> Seq(RepMsg)]
         /\ \A c \in Sites \X Sites : MsgsIn(p[c]) \subseteq MsgsIn(rep[c])
<1>1. rep \in [Sites \X Sites -> Seq(RepMsg)] BY DEF TypeOK
<1>2. CASE p = rep BY <1>1, <1>2
<1>3. CASE p # rep
 <2>1. PICK k \in DOMAIN rep : rep[k] # <<>> /\ p = Taken(rep, k) BY <1>3 DEF Rest
 <2>2. k \in Sites \X Sites BY <1>1, <2>1
 <2>3. \A c \in Sites \X Sites : MsgsIn(p[c]) \subseteq MsgsIn(rep[c]) BY <1>1, <2>1, <2>2, TakenMsgs
 <2>4. Tail(rep[k]) \in Seq(RepMsg) BY <1>1, <2>1, <2>2
 <2> QED BY <1>1, <2>1, <2>2, <2>3, <2>4 DEF Taken
<1> QED BY <1>2, <1>3

(* No answer is given twice on a connection of which one was taken. *)
LEMMA OneAnswerTail ==
  ASSUME NEW a \in Seq(RepMsg), OneAnswer(a), a # <<>>
  PROVE  /\ OneAnswer(Tail(a))
         /\ Head(a).type = "DistExeRes" =>
              \A w \in MsgsIn(Tail(a)) : w.type = "DistExeRes" => w.txn # Head(a).txn
<1>1. Len(a) \in Nat /\ Len(a) > 0 /\ Len(Tail(a)) = Len(a) - 1 /\ Head(a) = a[1] OBVIOUS
<1>2. \A i \in 1 .. Len(Tail(a)) : i + 1 \in 1 .. Len(a) /\ Tail(a)[i] = a[i + 1] BY <1>1
<1>3. OneAnswer(Tail(a))
 <2>1. ASSUME NEW i \in 1 .. Len(Tail(a)), NEW j \in 1 .. Len(Tail(a)),
              Tail(a)[i].type = "DistExeRes", Tail(a)[j].type = "DistExeRes", Tail(a)[i].txn = Tail(a)[j].txn
       PROVE i = j
  <3>1. i + 1 \in 1 .. Len(a) /\ j + 1 \in 1 .. Len(a) /\ Tail(a)[i] = a[i + 1] /\ Tail(a)[j] = a[j + 1] BY <1>2
  <3>2. i + 1 = j + 1 BY <2>1, <3>1 DEF OneAnswer
  <3> QED BY <3>2
 <2> QED BY <2>1 DEF OneAnswer
<1>4. ASSUME Head(a).type = "DistExeRes", NEW w \in MsgsIn(Tail(a)), w.type = "DistExeRes", w.txn = Head(a).txn
      PROVE FALSE
 <2>1. PICK i \in 1 .. Len(Tail(a)) : w = Tail(a)[i] BY <1>4 DEF MsgsIn
 <2>2. i + 1 \in 1 .. Len(a) /\ w = a[i + 1] /\ 1 \in 1 .. Len(a) BY <1>1, <1>2, <2>1
 <2>3. i + 1 = 1 BY <1>1, <1>4, <2>2 DEF OneAnswer
 <2> QED BY <2>3
<1> QED BY <1>3, <1>4

(* A connection with one answer per transaction stays so if nothing new repeats one. *)
LEMMA OneAnswerMore ==
  ASSUME NEW a \in Seq(RepMsg), OneAnswer(a), NEW b \in Seq(RepMsg), OneAnswer(b),
         \A v \in MsgsIn(a), w \in MsgsIn(b) :
           v.type = "DistExeRes" /\ w.type = "DistExeRes" => v.txn # w.txn
  PROVE OneAnswer(a \o b)
<1>1. Len(a) \in Nat /\ Len(b) \in Nat /\ Len(a \o b) = Len(a) + Len(b) OBVIOUS
<1>2. \A i \in 1 .. Len(a \o b) : (a \o b)[i] = IF i <= Len(a) THEN a[i] ELSE b[i - Len(a)] BY <1>1
<1> SUFFICES ASSUME NEW i \in 1 .. Len(a \o b), NEW j \in 1 .. Len(a \o b),
                    (a \o b)[i].type = "DistExeRes", (a \o b)[j].type = "DistExeRes",
                    (a \o b)[i].txn = (a \o b)[j].txn
             PROVE i = j BY DEF OneAnswer
<1>3. CASE i <= Len(a) /\ j <= Len(a)
 <2>1. (a \o b)[i] = a[i] /\ (a \o b)[j] = a[j] /\ i \in 1 .. Len(a) /\ j \in 1 .. Len(a) BY <1>1, <1>2, <1>3
 <2> QED BY <2>1 DEF OneAnswer
<1>4. CASE i > Len(a) /\ j > Len(a)
 <2>1. /\ (a \o b)[i] = b[i - Len(a)] /\ (a \o b)[j] = b[j - Len(a)]
       /\ i - Len(a) \in 1 .. Len(b) /\ j - Len(a) \in 1 .. Len(b) BY <1>1, <1>2, <1>4
 <2>2. i - Len(a) = j - Len(a) BY <2>1 DEF OneAnswer
 <2> QED BY <1>1, <2>2
<1>5. CASE i <= Len(a) /\ j > Len(a)
 <2>1. /\ (a \o b)[i] = a[i] /\ (a \o b)[j] = b[j - Len(a)]
       /\ i \in 1 .. Len(a) /\ j - Len(a) \in 1 .. Len(b) BY <1>1, <1>2, <1>5
 <2>2. (a \o b)[i] \in MsgsIn(a) /\ (a \o b)[j] \in MsgsIn(b) BY <2>1 DEF MsgsIn
 <2> QED BY <2>2
<1>6. CASE i > Len(a) /\ j <= Len(a)
 <2>1. /\ (a \o b)[j] = a[j] /\ (a \o b)[i] = b[i - Len(a)]
       /\ j \in 1 .. Len(a) /\ i - Len(a) \in 1 .. Len(b) BY <1>1, <1>2, <1>6
 <2>2. (a \o b)[j] \in MsgsIn(a) /\ (a \o b)[i] \in MsgsIn(b) BY <2>1 DEF MsgsIn
 <2> QED BY <2>2
<1> QED BY <1>1, <1>3, <1>4, <1>5, <1>6

(* Replies that are no answers. *)
LEMMA OneAnswerNone ==
  ASSUME NEW b, \A w \in MsgsIn(b) : w.type # "DistExeRes"
  PROVE OneAnswer(b) BY DEF OneAnswer, MsgsIn

(* What a handler that may execute does to a cross-region transaction. *)
LEMMA HandlerRuns ==
  ASSUME TypeOK, NEW s \in Sites, NEW R, NEW x, Handler(s, R, x), QueueRight(s, R, x),
         NEW t \in Txns, ~IsIrt(t)
  PROVE ready_txns'[s] \subseteq R /\ RanOn(s, R, x, t)
<1>0. R \in Entries /\ x \in [Txns -> TxType] /\ x[t] \in TxType BY DEF Handler
<1>1. PICK p : /\ Rest(p, rep)
               /\ \/ \E run : Executes(s, run, R, x) /\ Answers(p, s, run, R, x)
                  \/ tx'[s] = x /\ ready_txns'[s] = R /\ rep' = p BY DEF Handler
<1>2. /\ p \in [Sites \X Sites -> Seq(RepMsg)]
      /\ \A c \in Sites \X Sites : MsgsIn(p[c]) \subseteq MsgsIn(rep[c]) BY <1>1, RestMsgs
<1>3. CASE tx'[s] = x /\ ready_txns'[s] = R /\ rep' = p
 <2>1. SameRecord(x[t], tx'[s][t]) /\ SameProgress(t, x[t], tx'[s][t], ParOf(s))
   BY <1>0, <1>3 DEF SameRecord, SameProgress
 <2>2. \A c \in Sites \X Sites : \A m \in MsgsIn(rep'[c]) : m \in MsgsIn(rep[c]) BY <1>2, <1>3
 <2>3. Leads(x[t], s) /\ InQueue(ready_txns'[s], t) => tx'[s][t].pieces # tx'[s][t].done BY <1>3 DEF QueueRight
 <2> QED BY <1>3, <2>1, <2>2, <2>3 DEF RanOn
<1>4. CASE \E run : Executes(s, run, R, x) /\ Answers(p, s, run, R, x)
 <2>1. PICK run : Executes(s, run, R, x) /\ Answers(p, s, run, R, x) BY <1>4
 <2>2. PICK ni, floors, maxTs : CheckExecutableTxns(s, run, R, x, ni, floors, maxTs) BY <2>1 DEF Executes
 <2>3. run \in SUBSET PieceIds BY <2>1 DEF Executes
 <2>4. tx \in [Sites -> [Txns -> TxType]] /\ ready_txns \in [Sites -> Entries] BY DEF TypeOK
 <2>5. /\ ready_txns'[s] \subseteq R
       /\ SameRecord(x[t], tx'[s][t]) /\ SameProgress(t, x[t], tx'[s][t], ParOf(s))
   BY <1>0, <2>2, <2>3, <2>4, ExecutionKeeps
 <2>6. /\ Leads(x[t], s) /\ InQueue(ready_txns'[s], t) => tx'[s][t].pieces # tx'[s][t].done
       /\ ~(x[t].phase >= PHASE_CAN_EXE) => tx'[s][t] = x[t]
       /\ \A e \in R : e.id = t /\ x[t].owes # -1 /\ Ends(s, run, x, e)
            => Leads(x[t], s) /\ ~InQueue(ready_txns'[s], t) BY <1>0, <2>2, <2>3, <2>4, LeaderRuns
 <2>7. PICK out : Answering(out, s, run, R, x) /\ rep' = Send(p, s, out) BY <2>1 DEF Answers
 <2>8. ASSUME NEW c \in Sites \X Sites, NEW m \in MsgsIn(rep'[c]), m.type = "DistExeRes", m.txn = t,
              m \notin MsgsIn(rep[c])
       PROVE c[1] = s /\ NewAnswer(s, R, x, t)
  <3>1. out \in [Nodes -> Seq(RepMsg)] BY <2>7 DEF Answering
  <3>2. m \in NewReps(c) BY <2>8 DEF NewReps
  <3>3. c[1] = Proc(s) /\ m \in MsgsIn(out[c[2]]) BY <1>2, <2>7, <3>1, <3>2, RepliesAfter
  <3>4. c[1] = s /\ c[2] \in Nodes /\ c[2] \in Sites BY <3>3 DEF Proc, Nodes
  <3>5. PICK o \in Seq(RepMsg) : /\ out[c[2]] = DistExeReplies(s, run, R, x)[c[2]] \o o
                                 /\ \A w \in MsgsIn(o) : w.type # "DistExeRes" BY <2>7, <3>4 DEF Answering
  <3>6. DistExeReplies(s, run, R, x)[c[2]] \in Seq(RepMsg) BY <1>0, <3>4, DistExeRepliesType
  <3>7. m \in MsgsIn(DistExeReplies(s, run, R, x)[c[2]]) BY <2>8, <3>3, <3>5, <3>6, ConcatMsgs
  <3>8. PICK e \in R : m.txn = e.id /\ x[e.id].owes = c[2] /\ Ends(s, run, x, e) BY <1>0, <2>3, <3>4, <3>7, RepliesSent
  <3>9. c[2] # -1 BY <3>4, NodesFrom0
  <3>10. x[t].owes # -1 /\ e.id = t BY <2>8, <3>8, <3>9
  <3>11. InQueue(R, t) BY <3>8, <3>10 DEF InQueue
  <3> QED BY <2>6, <3>4, <3>8, <3>10, <3>11 DEF NewAnswer
 <2> QED BY <2>5, <2>6, <2>8 DEF RanOn
<1> QED BY <1>1, <1>3, <1>4

(* A site answers a connection once. *)
LEMMA HandlerAnswers ==
  ASSUME TypeOK, NEW s \in Sites, NEW R, NEW x, Handler(s, R, x), QueueRight(s, R, x), AllOneAnswer(rep),
         \A c \in Sites \X Sites : \A m \in MsgsIn(rep[c]) :
           m.type = "DistExeRes" /\ c[1] = s => ~(Leads(x[m.txn], s) /\ InQueue(R, m.txn))
  PROVE AllOneAnswer(rep')
<1>0. R \in Entries /\ x \in [Txns -> TxType] /\ rep \in [Sites \X Sites -> Seq(RepMsg)] BY DEF Handler, TypeOK
<1>1. PICK p : /\ Rest(p, rep)
               /\ \/ \E run : Executes(s, run, R, x) /\ Answers(p, s, run, R, x)
                  \/ tx'[s] = x /\ ready_txns'[s] = R /\ rep' = p BY DEF Handler
<1>2. /\ p \in [Sites \X Sites -> Seq(RepMsg)]
      /\ \A c \in Sites \X Sites : MsgsIn(p[c]) \subseteq MsgsIn(rep[c]) BY <1>1, RestMsgs
<1>3. AllOneAnswer(p)
 <2>1. CASE p = rep BY <2>1
 <2>2. CASE p # rep
  <3>1. PICK k \in DOMAIN rep : rep[k] # <<>> /\ p = Taken(rep, k) BY <1>1, <2>2 DEF Rest
  <3>2. OneAnswer(Tail(rep[k])) BY <1>0, <3>1, OneAnswerTail DEF AllOneAnswer
  <3> QED BY <1>0, <3>1, <3>2 DEF AllOneAnswer, Taken
 <2> QED BY <2>1, <2>2
<1>4. CASE \E run : Executes(s, run, R, x) /\ Answers(p, s, run, R, x)
 <2>1. PICK run : Executes(s, run, R, x) /\ Answers(p, s, run, R, x) BY <1>4
 <2>2. PICK ni, floors, maxTs : CheckExecutableTxns(s, run, R, x, ni, floors, maxTs) BY <2>1 DEF Executes
 <2>3. run \in SUBSET PieceIds BY <2>1 DEF Executes
 <2>4. tx \in [Sites -> [Txns -> TxType]] /\ ready_txns \in [Sites -> Entries] BY DEF TypeOK
 <2>5. PICK out : Answering(out, s, run, R, x) /\ rep' = Send(p, s, out) BY <2>1 DEF Answers
 <2>6. ASSUME NEW c \in Sites \X Sites PROVE OneAnswer(rep'[c])
  <3>1. rep'[c] = IF c[1] = s THEN p[c] \o out[c[2]] ELSE p[c] BY <1>2, <2>5 DEF Send, Proc
  <3>2. c[1] \in Sites /\ c[2] \in Sites /\ c[2] \in Nodes BY DEF Nodes
  <3>3. PICK o \in Seq(RepMsg) : /\ out[c[2]] = DistExeReplies(s, run, R, x)[c[2]] \o o
                                 /\ \A w \in MsgsIn(o) : w.type # "DistExeRes" BY <2>5, <3>2 DEF Answering
  <3> DEFINE a == DistExeReplies(s, run, R, x)[c[2]]
  <3>4. a \in Seq(RepMsg) /\ OneAnswer(a)
   <4>1. a \in Seq(RepMsg) BY <1>0, <3>2, DistExeRepliesType
   <4>2. OneAnswer(a) BY <1>0, <2>3, <3>2, OneReply
   <4> QED BY <4>1, <4>2
  <3>5. ASSUME NEW w \in MsgsIn(a) PROVE w.txn \in Txns /\ Leads(x[w.txn], s) /\ InQueue(R, w.txn)
   <4>1. PICK e \in R : w.txn = e.id /\ x[e.id].owes = c[2] /\ Ends(s, run, x, e)
    <5>0. c[2] \in Nodes BY <3>2
    <5>1. \A m \in MsgsIn(DistExeReplies(s, run, R, x)[c[2]]) :
            /\ m.type = "DistExeRes"
            /\ \E e \in R : m.txn = e.id /\ x[e.id].owes = c[2] /\ Ends(s, run, x, e) BY <1>0, <2>3, <5>0, RepliesSent
    <5> QED BY <3>5, <5>1 DEF a
   <4>2. c[2] # -1 /\ e.id \in Txns BY <1>0, <3>2, NodesFrom0 DEF Entries, Entry
   <4>3. x[e.id].owes # -1 /\ ~IsIrt(e.id) BY <4>1, <4>2 DEF QueueRight
   <4>4. Leads(x[e.id], s) BY <1>0, <2>2, <2>3, <2>4, <4>1, <4>2, <4>3, LeaderRuns
   <4> QED BY <4>1, <4>2, <4>4 DEF InQueue
  <3> HIDE DEF a
  <3>6. out[c[2]] = a \o o /\ a \o o \in Seq(RepMsg) /\ MsgsIn(a \o o) = MsgsIn(a) \cup MsgsIn(o)
    BY <3>3, <3>4, ConcatMsgs DEF a
  <3>7. OneAnswer(o) BY <3>3, OneAnswerNone
  <3>8. \A v \in MsgsIn(a), w \in MsgsIn(o) : v.type = "DistExeRes" /\ w.type = "DistExeRes" => v.txn # w.txn BY <3>3
  <3>9. OneAnswer(a \o o) BY <3>4, <3>7, <3>8, OneAnswerMore
  <3>10. p[c] \in Seq(RepMsg) /\ OneAnswer(p[c]) BY <1>2, <1>3 DEF AllOneAnswer
  <3>11. CASE c[1] = s
   <4>1. ASSUME NEW v \in MsgsIn(p[c]), NEW w \in MsgsIn(a \o o), v.type = "DistExeRes", w.type = "DistExeRes"
         PROVE v.txn # w.txn
    <5>1. w \in MsgsIn(a) BY <3>3, <3>6, <4>1
    <5>2. Leads(x[w.txn], s) /\ InQueue(R, w.txn) BY <3>5, <5>1
    <5>3. v \in MsgsIn(rep[c]) BY <1>2, <4>1
    <5>4. ~(Leads(x[v.txn], s) /\ InQueue(R, v.txn)) BY <3>11, <4>1, <5>3
    <5> QED BY <5>2, <5>4
   <4>2. OneAnswer(p[c] \o (a \o o)) BY <3>6, <3>9, <3>10, <4>1, OneAnswerMore
   <4> QED BY <3>1, <3>6, <3>11, <4>2
  <3>12. CASE c[1] # s BY <3>1, <3>10, <3>12
  <3> QED BY <3>11, <3>12
 <2> QED BY <2>6 DEF AllOneAnswer
<1> QED BY <1>1, <1>3, <1>4
-----
(* The records and the queues at the call of CheckExecutableTxns. *)
AtCall(all, s, own) == [all EXCEPT ![s] = own]
RunsAsCoord(t, y) == y.role = "crtCoord" /\ y.phase >= PHASE_CAN_EXE

(* From the call on, a transaction at a time. *)
LEMMA RanCrt ==
  ASSUME TypeOK, TypeOK', LeadersInv', NEW s \in Sites, NEW R, NEW x, OthersKept(s), ready_txns'[s] \subseteq R,
         x \in [Txns -> TxType], NEW t \in Txns, RanOn(s, R, x, t),
         CrtOf(AtCall(tx, s, x), dtxns', AtCall(ready_txns, s, R), dist_txn_tss', req', rep, t),
         RunsAsCoord(t, x[t]) => AllPrepared(t, x[t])
  PROVE CrtOf(tx', dtxns', ready_txns', dist_txn_tss', req', rep', t)
<1> DEFINE X == AtCall(tx, s, x)
           Q == AtCall(ready_txns, s, R)
           y == x[t]
           z == tx'[s][t]
<1>1. /\ X[s] = x /\ Q[s] = R
      /\ \A k \in Sites \ {s} : X[k] = tx'[k] /\ Q[k] = ready_txns'[k] BY DEF AtCall, TypeOK, OthersKept
<1>2. CrtOf(X, dtxns', Q, dist_txn_tss', req', rep, t) OBVIOUS
<1>3. y \in TxType /\ z \in TxType BY DEF TypeOK
<1> HIDE DEF X, Q
<1>4. /\ SameRecord(y, z) /\ SameProgress(t, y, z, ParOf(s))
      /\ ~(y.phase >= PHASE_CAN_EXE) => z = y BY DEF RanOn
<1>5. /\ y.phase \in 0..6 /\ z.phase \in 0..6 /\ (z.phase = y.phase \/ z.phase = OUTPUT_SENT)
      /\ y.role # "crtCoord" => z.phase = y.phase
      /\ y.phase >= DIST_CAN_EXE => z.phase >= DIST_CAN_EXE
  BY <1>3, <1>4 DEF SameProgress, TxType, TxnPhase, DIST_CAN_EXE, OUTPUT_SENT
<1>6. Ruled(X, t) => Ruled(tx', t)
 <2>1. SUFFICES ASSUME NEW k \in Sites, X[k][t].role = "crtCoord", X[k][t].phase >= DIST_CAN_EXE
                PROVE Ruled(tx', t) BY DEF Ruled
 <2>2. CASE k = s
  <3>1. tx'[s][t].role = "crtCoord" /\ tx'[s][t].phase >= DIST_CAN_EXE BY <1>1, <1>4, <1>5, <2>1, <2>2 DEF SameRecord
  <3> QED BY <3>1 DEF Ruled
 <2>3. CASE k # s BY <1>1, <2>1, <2>3 DEF Ruled
 <2> QED BY <2>2, <2>3
<1>7. ASSUME NEW par, NoOutput(X, t, par), ~(RunsAsCoord(t, y) /\ par = ParOf(s)) PROVE NoOutput(tx', t, par)
 <2>1. SUFFICES ASSUME NEW k \in Sites, tx'[k][t].role = "crtCoord", tx'[k][t].status[par] = P_OUTPUT_RECEIVED
                PROVE FALSE BY DEF NoOutput
 <2>2. X[k][t].role = "crtCoord" => X[k][t].status[par] # P_OUTPUT_RECEIVED BY <1>7 DEF NoOutput
 <2>3. k = s BY <1>1, <2>1, <2>2
 <2>4. y.role = "crtCoord" /\ y.status[par] # P_OUTPUT_RECEIVED BY <1>1, <1>4, <2>1, <2>2, <2>3 DEF SameRecord
 <2>5. z.status # y.status BY <2>1, <2>3, <2>4
 <2>6. RunsAsCoord(t, y) /\ z.status = [y.status EXCEPT ![ParOf(s)] = P_OUTPUT_RECEIVED]
   BY <1>4, <2>5 DEF SameProgress, RunsAsCoord
 <2>7. par # ParOf(s) BY <1>7, <2>6
 <2>8. z.status[par] = y.status[par] BY <1>3, <2>6, <2>7 DEF TxType, StatusOfPars
 <2> QED BY <2>1, <2>3, <2>4, <2>8
<1>8. ASSUME NEW k \in Sites, Leads(tx'[k][t], k), RunsAsCoord(t, y), ParOf(k) = ParOf(s) PROVE FALSE
 <2>1. Led(tx', req', t, ParOf(s), k) BY <1>8 DEF Led, HasLeader, Leads
 <2>2. z.role = "crtCoord" BY <1>4, <1>8 DEF SameRecord, RunsAsCoord
 <2>3. k = s BY <2>1, <2>2 DEF LeadersInv
 <2> QED BY <1>8, <2>2, <2>3 DEF Leads
<1>9. ASSUME NEW e \in ready_txns'[s] PROVE e \in R BY <1>9
<1>10. /\ InQueue(ready_txns'[s], t) => InQueue(R, t)
       /\ Leads(z, s) <=> Leads(y, s)
       /\ Open(z, s, t, ready_txns'[s]) => Open(y, s, t, R) BY <1>4, <1>9 DEF InQueue, Leads, Open, SameRecord
<1>11. ASSUME NEW k \in Sites, NEW e \in ready_txns'[k], e.id = t PROVE CrtEntry(tx'[k][t], e)
 <2>1. e \in Q[k] BY <1>1, <1>9, <1>11
 <2>2. CrtEntry(X[k][t], e) BY <1>2, <1>11, <2>1 DEF CrtOf
 <2>3. CASE k = s BY <1>1, <1>4, <1>5, <2>2, <2>3 DEF CrtEntry, SameRecord
 <2>4. CASE k # s BY <1>1, <2>2, <2>4
 <2> QED BY <2>3, <2>4
<1>12. ASSUME NEW k \in Sites PROVE CrtTx(tx', dtxns', ready_txns', k, t)
 <2>1. CrtTx(X, dtxns', Q, k, t) BY <1>2 DEF CrtOf
 <2>2. CASE k # s
  <3>1. X[k] = tx'[k] /\ Q[k] = ready_txns'[k] BY <1>1, <2>2
  <3>2. ASSUME Open(tx'[k][t], k, t, ready_txns'[k]) PROVE NoOutput(tx', t, ParOf(k))
   <4>1. Leads(tx'[k][t], k) BY <3>2 DEF Open
   <4>2. NoOutput(X, t, ParOf(k)) BY <2>1, <3>1, <3>2 DEF CrtTx
   <4> QED BY <1>7, <1>8, <4>1, <4>2
  <3> QED BY <1>6, <2>1, <3>1, <3>2 DEF CrtTx
 <2>3. CASE k = s
  <3>0. /\ t \in dtxns'[s] /\ ~IsIrt(t) => y.role \in {"crtCoord", "crtReplica"} \/ Ruled(X, t)
        /\ y.role \in {"irtHandler", "irtReplica"} => IsIrt(t)
        /\ y.role = "crtCoord" => HeardLeaders(y, t)
        /\ Leads(y, s) /\ y.phase >= PHASE_CAN_EXE => y.owes # -1
        /\ y.owes # -1 => y.role = "crtReplica"
        /\ Open(y, s, t, R) => y.pieces # y.done /\ NoOutput(X, t, ParOf(s)) BY <1>1, <2>1, <2>3 DEF CrtTx
  <3>1. z.role = "crtCoord" => HeardLeaders(z, t)
   <4>1. SUFFICES ASSUME z.role = "crtCoord" PROVE HeardLeaders(z, t) OBVIOUS
   <4>2. HeardLeaders(y, t) /\ y.role = "crtCoord" /\ z.acks = y.acks /\ z.mgr_acked = y.mgr_acked
     BY <1>4, <3>0, <4>1 DEF SameRecord
   <4>3. \A par : AcksOf(z, par) = AcksOf(y, par) BY <4>2 DEF AcksOf
   <4>4. ASSUME NEW par \in Touched(t), z.status[par] >= P_REMOTE_PREPARED PROVE par \in z.mgr_acked
    <5>1. CASE z.status = y.status BY <4>2, <4>4, <5>1 DEF HeardLeaders
    <5>2. CASE z.status # y.status
     <6>1. RunsAsCoord(t, y) BY <1>4, <5>2 DEF SameProgress, RunsAsCoord
     <6>2. y.status[par] >= P_REMOTE_PREPARED BY <4>4, <6>1 DEF AllPrepared
     <6> QED BY <4>2, <4>4, <6>2 DEF HeardLeaders
    <5> QED BY <5>1, <5>2
   <4> QED BY <4>2, <4>3, <4>4 DEF HeardLeaders
  <3>2. Leads(z, s) => z.phase = y.phase BY <1>4, <1>5, <1>10 DEF Leads
  <3>3. ASSUME Open(z, s, t, ready_txns'[s]) PROVE z.pieces # z.done /\ NoOutput(tx', t, ParOf(s))
   <4>1. Open(y, s, t, R) /\ Leads(y, s) BY <1>10, <3>3 DEF Open
   <4>2. NoOutput(tx', t, ParOf(s))
    <5>1. ~RunsAsCoord(t, y) BY <4>1 DEF Leads, RunsAsCoord
    <5> QED BY <1>7, <3>0, <4>1, <5>1
   <4>3. CASE InQueue(ready_txns'[s], t) BY <4>1, <4>2, <4>3 DEF RanOn
   <4>4. CASE ~InQueue(ready_txns'[s], t)
    <5>1. y.owes = -1 BY <1>4, <3>3, <4>4 DEF Open, SameRecord
    <5>2. z = y BY <1>4, <3>0, <4>1, <5>1
    <5> QED BY <3>0, <4>1, <4>2, <5>2
   <4> QED BY <4>3, <4>4
  <3>4. z.role = y.role /\ z.owes = y.owes BY <1>4 DEF SameRecord
  <3>5. CrtTx(tx', dtxns', ready_txns', s, t) BY <1>6, <1>10, <3>0, <3>1, <3>2, <3>3, <3>4 DEF CrtTx
  <3> QED BY <2>3, <3>5
 <2> QED BY <2>2, <2>3
<1>13. ASSUME NEW c \in Sites \X Nodes, NEW m \in MsgsIn(req'[c]),
              m.type \in {"PrepareCRT", "DistExe"}, m.txn = t
       PROVE CrtReq(tx', dtxns', dist_txn_tss', m, c[2])
 <2> DEFINE b == c[2]
 <2>1. CrtReq(X, dtxns', dist_txn_tss', m, b) BY <1>2, <1>13 DEF CrtOf
 <2>2. b \in Sites BY <1>13, <2>1 DEF CrtReq
 <2>3. CASE m.type = "DistExe"
  <3>1. X[b][t].owes = -1 /\ (t \in dtxns'[b] => X[b][t].role = "crtReplica") BY <1>13, <2>1, <2>3 DEF CrtReq
  <3>2. tx'[b][t].owes = X[b][t].owes /\ tx'[b][t].role = X[b][t].role BY <1>1, <1>4, <2>2 DEF SameRecord
  <3>3. m.type # "PrepareCRT" BY <2>3
  <3> HIDE DEF b
  <3>4. CrtReq(tx', dtxns', dist_txn_tss', m, b) BY <1>13, <2>2, <3>1, <3>2, <3>3 DEF CrtReq
  <3> QED BY <3>4 DEF b
 <2>4. CASE m.type = "PrepareCRT"
  <3>0. m.type # "DistExe" BY <2>4
  <3>1. /\ m.ts \notin dist_txn_tss'[b]
        /\ \/ X[b][t].role = "unset"
           \/ /\ X[b][t].role = "crtCoord" /\ X[b][t].phase = DIST_REMOTE_SENT
              /\ ParOf(b) \notin X[b][t].mgr_acked
        /\ m.leader = b => NoOutput(X, t, ParOf(b)) BY <1>13, <2>1, <2>4 DEF CrtReq
  <3>2. \/ tx'[b][t].role = "unset"
        \/ /\ tx'[b][t].role = "crtCoord" /\ tx'[b][t].phase = DIST_REMOTE_SENT
           /\ ParOf(b) \notin tx'[b][t].mgr_acked
   <4>1. CASE b = s
    <5>1. CASE y.role = "unset" BY <1>4, <4>1, <5>1 DEF SameRecord
    <5>2. CASE y.role = "crtCoord" /\ y.phase = DIST_REMOTE_SENT
     <6>1. z = y BY <1>4, <5>2 DEF DIST_REMOTE_SENT, PHASE_CAN_EXE, LOCAL_CAN_EXE
     <6> QED BY <1>1, <3>1, <4>1, <6>1
    <5> QED BY <1>1, <3>1, <4>1, <5>1, <5>2
   <4>2. CASE b # s BY <1>1, <2>2, <3>1, <4>2
   <4> QED BY <4>1, <4>2
  <3>3. ASSUME m.leader = b PROVE NoOutput(tx', t, ParOf(b))
   <4>1. ASSUME RunsAsCoord(t, y), ParOf(b) = ParOf(s) PROVE FALSE
    <5>1. Led(tx', req', t, ParOf(s), b)
     <6>1. LeaderMsg(m, c[2], t, ParOf(s), b) BY <1>13, <2>4, <3>3, <4>1 DEF LeaderMsg
     <6> QED BY <6>1 DEF Led
    <5>2. z.role = "crtCoord" BY <1>4, <4>1 DEF SameRecord, RunsAsCoord
    <5>3. b = s BY <5>1, <5>2 DEF LeadersInv
    <5>4. y.role # "unset" /\ y.phase # DIST_REMOTE_SENT
      BY <4>1 DEF RunsAsCoord, DIST_REMOTE_SENT, PHASE_CAN_EXE, LOCAL_CAN_EXE
    <5> QED BY <1>1, <3>1, <5>3, <5>4
   <4> QED BY <1>7, <3>1, <3>3, <4>1
  <3> HIDE DEF b
  <3>4. CrtReq(tx', dtxns', dist_txn_tss', m, b) BY <1>13, <2>2, <3>0, <3>1, <3>2, <3>3 DEF CrtReq
  <3> QED BY <3>4 DEF b
 <2> QED BY <1>13, <2>3, <2>4
<1>14. ASSUME NEW c \in Sites \X Sites, NEW m \in MsgsIn(rep'[c]), m.type = "DistExeRes", m.txn = t
       PROVE CrtRep(tx', ready_txns', m, c[1])
 <2>1. CASE m \in MsgsIn(rep[c])
  <3>1. CrtRep(X, Q, m, c[1]) BY <1>2, <1>14, <2>1 DEF CrtOf
  <3>2. /\ Leads(X[c[1]][t], c[1]) /\ ~Open(X[c[1]][t], c[1], t, Q[c[1]])
        /\ NoOutput(X, t, ParOf(c[1])) /\ c[1] \in Sites BY <1>14, <3>1 DEF CrtRep
  <3>3. Leads(tx'[c[1]][t], c[1]) /\ ~Open(tx'[c[1]][t], c[1], t, ready_txns'[c[1]])
   <4>1. CASE c[1] = s BY <1>1, <1>10, <3>2, <4>1
   <4>2. CASE c[1] # s BY <1>1, <3>2, <4>2
   <4> QED BY <4>1, <4>2
  <3>4. NoOutput(tx', t, ParOf(c[1])) BY <1>7, <1>8, <3>2, <3>3
  <3> QED BY <1>14, <3>3, <3>4 DEF CrtRep
 <2>2. CASE m \notin MsgsIn(rep[c])
  <3>1. c[1] = s /\ NewAnswer(s, R, x, t) BY <1>14, <2>2 DEF RanOn
  <3>2. Leads(y, s) /\ y.owes # -1 /\ InQueue(R, t) /\ ~InQueue(ready_txns'[s], t) BY <3>1 DEF NewAnswer
  <3>3. Leads(z, s) /\ ~Open(z, s, t, ready_txns'[s]) BY <1>4, <1>10, <3>2 DEF Open, SameRecord
  <3>4. CrtTx(X, dtxns', Q, s, t) BY <1>2 DEF CrtOf
  <3>5. NoOutput(X, t, ParOf(s)) BY <1>1, <3>2, <3>4 DEF CrtTx, Open
  <3>6. ~RunsAsCoord(t, y) BY <3>2 DEF Leads, RunsAsCoord
  <3>7. NoOutput(tx', t, ParOf(s)) BY <1>7, <3>5, <3>6
  <3> QED BY <1>14, <3>1, <3>3, <3>7 DEF CrtRep
 <2> QED BY <2>1, <2>2
<1> QED BY <1>11, <1>12, <1>13, <1>14 DEF CrtOf

(* The same after a step. *)
LEMMA IrtUnsaidNext ==
  ASSUME DecidedInv', LeadersInv', NEW t \in Txns, IsIrt(t)
  PROVE  /\ \A s \in Sites : PlainRecord(tx'[s][t])
         /\ \A c \in Sites \X Nodes : \A m \in MsgsIn(req'[c]) : m.type \in {"PrepareCRT", "DistExe"} => m.txn # t
         /\ \A c \in Sites \X Sites : \A m \in MsgsIn(rep'[c]) : m.type = "DistExeRes" => m.txn # t
<1>0. \A s \in Sites : LawfulTx(tx', submitted', dtxns', s, t) BY DEF DecidedInv
<1>1. \A s \in Sites : tx'[s][t].role # "crtCoord" BY <1>0 DEF LawfulTx, Coordinates
<1>2. \A s \in Sites : PlainRecord(tx'[s][t]) BY <1>0, <1>1 DEF LawfulTx, Follows, DecidedAs, PlainRecord, LeadersInv
<1>3. ASSUME NEW c \in Sites \X Nodes, NEW m \in MsgsIn(req'[c]), m.type \in {"PrepareCRT", "DistExe"} PROVE m.txn # t
 <2>1. LawfulReq(tx', m, c[1], c[2]) BY <1>3 DEF DecidedInv
 <2>2. \E k \in Sites : tx'[k][m.txn].role = "crtCoord" BY <1>3, <2>1 DEF LawfulReq, Coord, DecidedAs
 <2> QED BY <1>1, <2>2
<1>4. ASSUME NEW c \in Sites \X Sites, NEW m \in MsgsIn(rep'[c]), m.type = "DistExeRes" PROVE m.txn # t
 <2>1. LawfulRep(tx', m, c[2]) BY <1>4 DEF DecidedInv
 <2>2. \E k \in Sites : tx'[k][m.txn].role = "crtCoord" BY <1>4, <2>1 DEF LawfulRep, DecidedAs
 <2> QED BY <1>1, <2>2
<1> QED BY <1>2, <1>3, <1>4

(* From the call on.  The coordinator that executes has heard everybody. *)
LEMMA CrtExecutes ==
  ASSUME TypeOK, TypeOK', DecidedInv', LeadersInv', NEW s \in Sites, NEW R, NEW x, Handler(s, R, x),
         AllOneAnswer(rep),
         \A t \in Txns : ~IsIrt(t) =>
           CrtOf(AtCall(tx, s, x), dtxns', AtCall(ready_txns, s, R), dist_txn_tss', req', rep, t),
         \A t \in Txns : ~IsIrt(t) /\ RunsAsCoord(t, x[t]) => AllPrepared(t, x[t])
  PROVE CrtAll(tx', dtxns', ready_txns', dist_txn_tss', req', rep')
<1> DEFINE X == AtCall(tx, s, x)
           Q == AtCall(ready_txns, s, R)
<1>1. R \in Entries /\ x \in [Txns -> TxType] /\ OthersKept(s) BY DEF Handler
<1>2. X[s] = x /\ Q[s] = R BY DEF AtCall, TypeOK
<1>3. \A t \in Txns : ~IsIrt(t) => CrtOf(X, dtxns', Q, dist_txn_tss', req', rep, t) OBVIOUS
<1> HIDE DEF X, Q
<1>4. \A t \in Txns : SameRecord(x[t], tx'[s][t])
 <2>1. PICK p : \/ \E run : Executes(s, run, R, x) /\ Answers(p, s, run, R, x)
                \/ tx'[s] = x /\ ready_txns'[s] = R /\ rep' = p BY DEF Handler
 <2>2. CASE tx'[s] = x BY <1>1, <2>2 DEF SameRecord
 <2>3. CASE \E run : Executes(s, run, R, x)
  <3>1. PICK run : Executes(s, run, R, x) BY <2>3
  <3>2. PICK ni, floors, maxTs : CheckExecutableTxns(s, run, R, x, ni, floors, maxTs) BY <3>1 DEF Executes
  <3>3. run \in SUBSET PieceIds /\ tx \in [Sites -> [Txns -> TxType]] /\ ready_txns \in [Sites -> Entries]
    BY <3>1 DEF Executes, TypeOK
  <3> QED BY <1>1, <3>2, <3>3, ExecutionKeeps
 <2> QED BY <2>1, <2>2, <2>3
<1>5. \A t \in Txns : IsIrt(t) => PlainRecord(x[t])
 <2>1. ASSUME NEW t \in Txns, IsIrt(t) PROVE PlainRecord(x[t])
  <3>1. PlainRecord(tx'[s][t]) BY <2>1, IrtUnsaidNext
  <3> QED BY <1>4, <3>1 DEF PlainRecord, SameRecord
 <2> QED BY <2>1
<1>6. \A t \in Txns : ~IsIrt(t) => CrtTx(X, dtxns', Q, s, t) /\ \A e \in R : e.id = t => CrtEntry(x[t], e)
  BY <1>2, <1>3 DEF CrtOf
<1>7. QueueRight(s, R, x)
 <2>1. ASSUME NEW e \in R PROVE ~IsIrt(e.id) => e.ts = x[e.id].ts
  <3>1. e.id \in Txns BY <1>1, <2>1 DEF Entries, Entry
  <3> QED BY <1>6, <2>1, <3>1 DEF CrtEntry
 <2>2. ASSUME NEW e \in R, x[e.id].owes # -1 PROVE ~IsIrt(e.id) /\ x[e.id].role = "crtReplica"
  <3>1. e.id \in Txns BY <1>1, <2>2 DEF Entries, Entry
  <3>2. ~IsIrt(e.id) BY <1>5, <2>2, <3>1 DEF PlainRecord
  <3> QED BY <1>2, <1>6, <2>2, <3>1, <3>2 DEF CrtTx
 <2>3. ASSUME NEW t \in Txns, Leads(x[t], s), InQueue(R, t) PROVE x[t].pieces # x[t].done
  <3>1. ~IsIrt(t) BY <1>5, <2>3 DEF PlainRecord, Leads
  <3>2. CrtTx(X, dtxns', Q, s, t) BY <1>6, <3>1
  <3> QED BY <1>2, <2>3, <3>2 DEF CrtTx, Open
 <2> QED BY <2>1, <2>2, <2>3 DEF QueueRight
<1>8. ASSUME NEW t \in Txns, ~IsIrt(t) PROVE CrtOf(tx', dtxns', ready_txns', dist_txn_tss', req', rep', t)
 <2>1. ready_txns'[s] \subseteq R /\ RanOn(s, R, x, t) BY <1>7, <1>8, HandlerRuns
 <2>2. CrtOf(AtCall(tx, s, x), dtxns', AtCall(ready_txns, s, R), dist_txn_tss', req', rep, t) BY <1>8
 <2>3. RunsAsCoord(t, x[t]) => AllPrepared(t, x[t]) BY <1>8
 <2> QED BY <1>1, <2>1, <2>2, <2>3, RanCrt
<1>9. ASSUME NEW t \in Txns, IsIrt(t) PROVE CrtOf(tx', dtxns', ready_txns', dist_txn_tss', req', rep', t)
 <2>1. /\ \A k \in Sites : PlainRecord(tx'[k][t])
       /\ \A c \in Sites \X Nodes : \A m \in MsgsIn(req'[c]) : m.type \in {"PrepareCRT", "DistExe"} => m.txn # t
       /\ \A c \in Sites \X Sites : \A m \in MsgsIn(rep'[c]) : m.type = "DistExeRes" => m.txn # t BY <1>9, IrtUnsaidNext
 <2> QED BY <1>9, <2>1, IrtCrt
<1>10. ASSUME NEW c \in Sites \X Sites, NEW m \in MsgsIn(rep[c]), m.type = "DistExeRes", c[1] = s,
              Leads(x[m.txn], s), InQueue(R, m.txn)
       PROVE FALSE
 <2>1. m.txn \in Txns
  <3>1. PICK e \in R : e.id = m.txn BY <1>10 DEF InQueue
  <3> QED BY <1>1, <3>1 DEF Entries, Entry
 <2>2. ~IsIrt(m.txn) BY <1>5, <1>10, <2>1 DEF PlainRecord, Leads
 <2>3. CrtRep(X, Q, m, c[1]) BY <1>3, <1>10, <2>1, <2>2 DEF CrtOf
 <2> QED BY <1>2, <1>10, <2>3 DEF CrtRep, Open
<1>11. AllOneAnswer(rep') BY <1>7, <1>10, HandlerAnswers
<1>12. req' \in [Sites \X Nodes -> Seq(ReqMsg)] /\ rep' \in [Sites \X Sites -> Seq(RepMsg)]
       /\ \A k \in Sites : ready_txns'[k] \in Entries BY DEF TypeOK
<1> QED BY <1>8, <1>9, <1>11, <1>12, CrtWhole
-----
(* What a floor that a step sets at s stands for. *)
FloorsFrom(s, u) ==
  \A r \in Sites : \A f \in dist_txn_tss'[r] :
    f \in dist_txn_tss[r] \/ (r = s /\ f \in AnticipatedType /\ At(f, u) \in Used)
(* The floors that a handler sets are in use. *)
FloorsSet == \E s \in Sites : \E u : FloorsFrom(s, u)
CrtNow(t) == CrtOf(tx, dtxns, ready_txns, dist_txn_tss, req, rep, t)

(* Floors that a transaction does not set spare it. *)
LEMMA FloorsSpared ==
  ASSUME TypeOK, UniqueInv, NEW t \in Txns, CrtNow(t),
         \/ \A r \in Sites : dist_txn_tss'[r] \subseteq dist_txn_tss[r]
         \/ \E s \in Sites : \E u \in Txns \ {t} : FloorsFrom(s, u)
  PROVE FloorsSpare(t)
<1> SUFFICES ASSUME NEW c \in Sites \X Nodes, NEW m \in MsgsIn(req[c]), m.type = "PrepareCRT", m.txn = t
             PROVE m.ts \notin dist_txn_tss'[c[2]] BY DEF FloorsSpare
<1>1. CrtReq(tx, dtxns, dist_txn_tss, m, c[2]) BY DEF CrtNow, CrtOf
<1>2. c[2] \in Sites /\ m.ts \notin dist_txn_tss[c[2]] BY <1>1 DEF CrtReq
<1>3. CASE \A r \in Sites : dist_txn_tss'[r] \subseteq dist_txn_tss[r] BY <1>2, <1>3
<1>4. CASE \E s \in Sites : \E u \in Txns \ {t} : FloorsFrom(s, u)
 <2>1. PICK s \in Sites : \E u \in Txns \ {t} : FloorsFrom(s, u) BY <1>4
 <2>2. PICK u \in Txns \ {t} : FloorsFrom(s, u) BY <2>1
 <2>3. At(m.ts, t) \in Used BY ReqPair
 <2>4. ASSUME At(m.ts, u) \in Used PROVE FALSE BY <2>2, <2>3, <2>4 DEF UniqueInv, UsedOnce, At
 <2> QED BY <1>2, <2>2, <2>4 DEF FloorsFrom
<1> QED BY <1>3, <1>4

(* A transaction that a handler of s does not touch, or that is as it has to be at the
   call of CheckExecutableTxns. *)
CrtHandled(s, R, x, t) ==
  \/ Untouched(AtCall(tx, s, x), AtCall(ready_txns, s, R), t)
  \/ /\ CrtOf(AtCall(tx, s, x), dtxns', AtCall(ready_txns, s, R), dist_txn_tss', req', rep, t)
     /\ RunsAsCoord(t, x[t]) => AllPrepared(t, x[t])
(* CrtInv after a step, but for the floors. *)
CrtNext == CrtAll(tx', dtxns', ready_txns', dist_txn_tss', req', rep')

(* A handler keeps CrtAll if it does so for each cross-region transaction that it
   touches. *)
LEMMA CrtHandler ==
  ASSUME TypeOK, TypeOK', DecidedInv, DecidedInv', LeadersInv', CrtInv, NEW s \in Sites, NEW R, NEW x,
         Handler(s, R, x), \A t \in Txns : ~IsIrt(t) => CrtHandled(s, R, x, t)
  PROVE CrtNext
<1>1. AllOneAnswer(rep) /\ \A t \in Txns : CrtNow(t) BY CrtParts DEF CrtInv, CrtNow
<1>2. ASSUME NEW t \in Txns, ~IsIrt(t)
      PROVE  /\ CrtOf(AtCall(tx, s, x), dtxns', AtCall(ready_txns, s, R), dist_txn_tss', req', rep, t)
             /\ RunsAsCoord(t, x[t]) => AllPrepared(t, x[t])
 <2>1. CASE Untouched(AtCall(tx, s, x), AtCall(ready_txns, s, R), t)
  <3>1. CrtOf(AtCall(tx, s, x), dtxns', AtCall(ready_txns, s, R), dist_txn_tss', req', rep, t)
    BY <1>1, <2>1, CrtUntouched DEF CrtNow
  <3>2. AtCall(tx, s, x)[s] = x BY DEF AtCall, TypeOK
  <3>3. SameCrt(tx[s][t], x[t]) BY <2>1, <3>2 DEF Untouched
  <3>4. ASSUME RunsAsCoord(t, x[t]) PROVE AllPrepared(t, x[t])
   <4>1. tx[s][t].role = "crtCoord" /\ tx[s][t].phase >= PHASE_CAN_EXE BY <3>3, <3>4 DEF SameCrt, RunsAsCoord
   <4>2. Coordinates(tx[s][t], t, submitted, dtxns[s]) BY <4>1 DEF DecidedInv, LawfulTx
   <4>3. tx[s][t].phase >= DIST_CAN_EXE
     BY <4>1, <4>2 DEF Coordinates, PHASE_CAN_EXE, LOCAL_CAN_EXE, DIST_REMOTE_SENT, DIST_CAN_EXE, OUTPUT_SENT
   <4>4. AllPrepared(t, tx[s][t]) BY <4>2, <4>3 DEF Coordinates
   <4> QED BY <3>3, <4>4 DEF AllPrepared, SameCrt
  <3> QED BY <3>1, <3>4
 <2> QED BY <1>2, <2>1 DEF CrtHandled
<1> QED BY <1>1, <1>2, CrtExecutes DEF CrtNext

(* A step that executes nothing. *)
LEMMA CrtRests ==
  ASSUME TypeOK', DecidedInv', LeadersInv', AllOneAnswer(rep'),
         \A t \in Txns : ~IsIrt(t) => CrtOf(tx', dtxns', ready_txns', dist_txn_tss', req', rep', t)
  PROVE CrtNext
<1>1. ASSUME NEW t \in Txns, IsIrt(t) PROVE CrtOf(tx', dtxns', ready_txns', dist_txn_tss', req', rep', t)
 <2>1. /\ \A k \in Sites : PlainRecord(tx'[k][t])
       /\ \A c \in Sites \X Nodes : \A m \in MsgsIn(req'[c]) : m.type \in {"PrepareCRT", "DistExe"} => m.txn # t
       /\ \A c \in Sites \X Sites : \A m \in MsgsIn(rep'[c]) : m.type = "DistExeRes" => m.txn # t BY <1>1, IrtUnsaidNext
 <2> QED BY <1>1, <2>1, IrtCrt
<1>2. req' \in [Sites \X Nodes -> Seq(ReqMsg)] /\ rep' \in [Sites \X Sites -> Seq(RepMsg)]
      /\ \A k \in Sites : ready_txns'[k] \in Entries BY DEF TypeOK
<1> QED BY <1>1, <1>2, CrtWhole DEF CrtNext

(* The same for a step that sends no reply. *)
LEMMA CrtQuiet ==
  ASSUME TypeOK', DecidedInv', LeadersInv', CrtInv, rep' = rep,
         \A t \in Txns : ~IsIrt(t) =>
           \/ Untouched(tx', ready_txns', t)
           \/ CrtOf(tx', dtxns', ready_txns', dist_txn_tss', req', rep', t)
  PROVE CrtNext
<1>1. AllOneAnswer(rep) /\ \A t \in Txns : CrtNow(t) BY CrtParts DEF CrtInv, CrtNow
<1>2. AllOneAnswer(rep') BY <1>1
<1>3. ASSUME NEW t \in Txns, ~IsIrt(t) PROVE CrtOf(tx', dtxns', ready_txns', dist_txn_tss', req', rep', t)
 <2>1. CASE Untouched(tx', ready_txns', t)
  <3>1. CrtOf(tx', dtxns', ready_txns', dist_txn_tss', req', rep, t) BY <1>1, <2>1, CrtUntouched DEF CrtNow
  <3> QED BY <3>1
 <2> QED BY <1>3, <2>1
<1> QED BY <1>2, <1>3, CrtRests

(* What is sent. *)
LEMMA CalmNew ==
  ASSUME TypeOK, NEW n, CalmReqs(n), NEW c \in Sites \X Nodes, NEW m \in NewReqs(c)
  PROVE Calm(m)
<1>0. req \in [Sites \X Nodes -> Seq(ReqMsg)] BY DEF TypeOK
<1>1. PICK q : Rest(q, req) /\ (req' = q \/ \E out : CalmOut(out) /\ req' = Send(q, n, out)) BY DEF CalmReqs
<1>2. q \in [Sites \X Nodes -> Seq(ReqMsg)] /\ MsgsIn(q[c]) \subseteq MsgsIn(req[c])
 <2>1. CASE q = req BY <1>0, <2>1
 <2>2. CASE q # req
  <3>1. PICK k \in DOMAIN req : req[k] # <<>> /\ q = Taken(req, k) BY <1>1, <2>2 DEF Rest
  <3>2. k \in Sites \X Nodes BY <1>0, <3>1
  <3>3. \A d \in Sites \X Nodes : MsgsIn(q[d]) \subseteq MsgsIn(req[d]) BY <1>0, <3>1, <3>2, TakenMsgs
  <3>4. Tail(req[k]) \in Seq(ReqMsg) BY <1>0, <3>1, <3>2
  <3> QED BY <1>0, <3>1, <3>2, <3>3, <3>4 DEF Taken
 <2> QED BY <2>1, <2>2
<1>3. m \in MsgsIn(req'[c]) /\ m \notin MsgsIn(req[c]) BY DEF NewReqs
<1>4. PICK out : CalmOut(out) /\ req' = Send(q, n, out) BY <1>1, <1>2, <1>3
<1>5. out \in [Nodes -> Seq(ReqMsg)] /\ c[2] \in Nodes BY <1>4 DEF CalmOut
<1>6. m \in MsgsIn(Send(q, n, out)[c]) /\ Nodes \in SUBSET Nodes BY <1>3, <1>4
<1>7. m \in MsgsIn(q[c]) \/ (c[1] = Proc(n) /\ m \in MsgsIn(out[c[2]])) BY <1>2, <1>5, <1>6, SendMsgs
<1> QED BY <1>2, <1>3, <1>4, <1>5, <1>7 DEF CalmOut

(* Nothing of t changes but what is not said of it. *)
LEMMA QuietUntouched ==
  ASSUME TypeOK, UniqueInv, NEW t \in Txns, CrtNow(t), NEW x, NEW R,
         \A k \in Sites : SameCrt(tx[k][t], x[k][t]),
         \A k \in Sites : \A e \in R[k] : e.id = t => e \in ready_txns[k],
         \A k \in Sites : t \in dtxns'[k] <=> t \in dtxns[k],
         \A c \in Sites \X Nodes : \A m \in NewReqs(c) : Calm(m) \/ m.txn # t,
         FloorsSpare(t)
  PROVE  Untouched(x, R, t) BY DEF Untouched, Calm
(* Nothing differs from itself. *)
LEMMA SelfSame == \A y : SameCrt(y, y)
  BY DEF SameCrt
-----
(* What holds before a step, and what is known of the state after it. *)
CrtBefore ==
  /\ TypeOK /\ UniqueInv /\ DecidedInv /\ OffersInv /\ KnownInv /\ TidyInv /\ LeadersInv /\ CrtInv
CrtAfter == TypeOK' /\ DecidedInv' /\ LeadersInv' /\ UniqueInv'

(* A site that takes an intra-region transaction leaves the cross-region ones. *)
LEMMA HandleIRTCrt ==
  ASSUME CrtBefore, CrtAfter, NEW s \in Sites, NEW t \in Txns, NEW now \in PhysTimes, NEW skips \in Nat,
         HandleIRT(s, t, now, skips)
  PROVE CrtNext
<1>1. TypeOK /\ UniqueInv /\ CrtInv /\ TypeOK' /\ DecidedInv' /\ LeadersInv' BY DEF CrtBefore, CrtAfter
<1>2. \A u \in Txns : CrtNow(u) BY <1>1, CrtParts DEF CrtInv, CrtNow
<1>3. IsIrt(t) /\ rep' = rep /\ dist_txn_tss' = dist_txn_tss /\ dtxns' = [dtxns EXCEPT ![s] = @ \cup {t}]
  BY DEF HandleIRT
<1>4. /\ \A k \in Sites, u \in Txns : u # t => tx'[k][u] = tx[k][u]
      /\ \A k \in Sites : \A e \in ready_txns'[k] : e.id # t => e \in ready_txns[k]
 <2>1. /\ tx' = [tx EXCEPT ![s][t] =
             [FreshTx EXCEPT !.phase = LOCAL_NOT_STORED, !.ts = After(Generate(s, now, dist_txn_tss[s]), skips),
                             !.region_handler = s, !.role = "irtHandler", !.pieces = PiecesAt(t, ParOf(s))]]
       /\ ready_txns' = [ready_txns EXCEPT ![s] = PutReady(@, After(Generate(s, now, dist_txn_tss[s]), skips), t)]
   BY DEF HandleIRT
 <2>2. tx \in [Sites -> [Txns -> TxType]] /\ ready_txns \in [Sites -> Entries] BY <1>1 DEF TypeOK
 <2> QED BY <2>1, <2>2 DEF PutReady
<1>5. CalmReqs(s) BY <1>1, LocalCalm
<1>6. ASSUME NEW u \in Txns, ~IsIrt(u) PROVE Untouched(tx', ready_txns', u)
 <2>1. u # t BY <1>3, <1>6
 <2>2. \A k \in Sites : SameCrt(tx[k][u], tx'[k][u]) BY <1>4, <2>1, SelfSame
 <2>3. \A k \in Sites : \A e \in ready_txns'[k] : e.id = u => e \in ready_txns[k] BY <1>4, <2>1
 <2>4. \A k \in Sites : u \in dtxns'[k] <=> u \in dtxns[k] BY <1>1, <1>3, <2>1 DEF TypeOK
 <2>5. \A c \in Sites \X Nodes : \A m \in NewReqs(c) : Calm(m) \/ m.txn # u BY <1>1, <1>5, CalmNew
 <2>6. FloorsSpare(u) BY <1>1, <1>2, <1>3, FloorsSpared
 <2> QED BY <1>1, <1>2, <2>2, <2>3, <2>4, <2>5, <2>6, QuietUntouched
<1> QED BY <1>1, <1>3, <1>6, CrtQuiet

(* Steps that change neither records nor queues. *)
LEMMA StillCrt ==
  ASSUME CrtBefore, CrtAfter, UNCHANGED <<tx, ready_txns, dtxns, rep>>, NEW n, CalmReqs(n),
         \A t \in Txns : FloorsSpare(t)
  PROVE CrtNext
<1>1. TypeOK /\ UniqueInv /\ CrtInv /\ TypeOK' /\ DecidedInv' /\ LeadersInv' BY DEF CrtBefore, CrtAfter
<1>2. \A u \in Txns : CrtNow(u) BY <1>1, CrtParts DEF CrtInv, CrtNow
<1>3. ASSUME NEW u \in Txns PROVE Untouched(tx', ready_txns', u)
 <2>1. \A k \in Sites : SameCrt(tx[k][u], tx'[k][u]) BY SelfSame
 <2>2. \A c \in Sites \X Nodes : \A m \in NewReqs(c) : Calm(m) \/ m.txn # u BY <1>1, CalmNew
 <2>3. /\ \A k \in Sites : \A e \in ready_txns'[k] : e.id = u => e \in ready_txns[k]
       /\ \A k \in Sites : u \in dtxns'[k] <=> u \in dtxns[k] OBVIOUS
 <2>4. FloorsSpare(u) OBVIOUS
 <2> QED BY <1>1, <1>2, <2>1, <2>2, <2>3, <2>4, QuietUntouched
<1> QED BY <1>1, <1>3, CrtQuiet

(* So do the managers' NotiWait and MgrFinish and the synchronisation loop. *)
LEMMA ManagersCrt ==
  ASSUME CrtBefore, CrtAfter,
         \/ \E n \in Nodes, now \in PhysTimes : IRSyncLoop(n, now)
         \/ \E src \in Sites, mgr \in Managers : NotiWait(src, mgr)
         \/ \E mgr \in Managers : MgrFinish(mgr)
  PROVE CrtNext
<1>1. TypeOK /\ UniqueInv /\ CrtInv BY DEF CrtBefore
<1>2. \A u \in Txns : CrtNow(u) BY <1>1, CrtParts DEF CrtInv, CrtNow
<1>3. UNCHANGED <<tx, ready_txns, dtxns, rep>> BY DEF IRSyncLoop, NotiWait, MgrFinish, tableVars, execVars
<1>4. \A r \in Sites : dist_txn_tss'[r] \subseteq dist_txn_tss[r]
 <2>1. CASE dist_txn_tss' = dist_txn_tss BY <2>1
 <2>2. CASE \E mgr \in Managers : MgrFinish(mgr)
  <3>1. PICK mgr \in Managers : MgrFinish(mgr) BY <2>2
  <3>2. mgr \notin Sites /\ mgr \in Nodes BY Placement, ManagerFacts
  <3>3. dist_txn_tss' = [dist_txn_tss EXCEPT ![mgr] = (@ \ mgr_todo[mgr].erase) \cup mgr_todo[mgr].insert]
    BY <3>1 DEF MgrFinish
  <3>4. dist_txn_tss \in [Nodes -> Floors] BY <1>1 DEF TypeOK
  <3> QED BY <3>2, <3>3, <3>4 DEF Nodes
 <2> QED BY <2>1, <2>2 DEF IRSyncLoop, NotiWait
<1>5. \A t \in Txns : FloorsSpare(t) BY <1>1, <1>2, <1>4, FloorsSpared
<1>6. \E n \in Nodes : CalmReqs(n)
 <2>1. CASE \E n \in Nodes, now \in PhysTimes : IRSyncLoop(n, now) BY <1>1, <2>1, LocalCalm
 <2>2. CASE \E src \in Sites, mgr \in Managers : NotiWait(src, mgr) BY <1>1, <2>2, NotiCalm DEF Nodes
 <2>3. CASE \E mgr \in Managers : MgrFinish(mgr)
  <3>1. PICK mgr \in Managers : MgrFinish(mgr) BY <2>3
  <3>2. req' = req /\ mgr \in Nodes BY <3>1, Placement DEF MgrFinish
  <3>3. CalmReqs(mgr) BY <3>2 DEF CalmReqs, Rest
  <3> QED BY <3>2, <3>3
 <2> QED BY <2>1, <2>2, <2>3
<1> QED BY <1>3, <1>5, <1>6, StillCrt

(* OnNotiCRT: no PrepareCRT of the transaction is on its way to s. *)
LEMMA OnNotiCRTCrt ==
  ASSUME CrtBefore, CrtAfter, NEW src \in Sites, NEW s \in Sites, OnNotiCRT(src, s)
  PROVE CrtNext /\ FloorsSet
<1> DEFINE m == ReqAt(src, s)
<1>1. TypeOK /\ UniqueInv /\ CrtInv /\ KnownInv BY DEF CrtBefore
<1>2. \A u \in Txns : CrtNow(u) BY <1>1, CrtParts DEF CrtInv, CrtNow
<1>3. Receives(src, s, "NotiCRT") /\ m.type = "NotiCRT" /\ UNCHANGED <<tx, ready_txns, dtxns, rep>>
      /\ dist_txn_tss' = [dist_txn_tss EXCEPT ![s] = @ \cup {m.ts}]
  BY DEF OnNotiCRT, Receives, ReqAt, tableVars, execVars
<1>4. s \in Nodes /\ <<src, s>> \in Sites \X Nodes BY DEF Nodes
<1>5. m \in MsgsIn(req[<<src, s>>]) BY <1>1, <1>3, <1>4, ReceivesMsgs DEF ReqAt
<1>6. m.ts \in AnticipatedType /\ m.txn \in Txns /\ At(m.ts, m.txn) \in Used BY <1>1, <1>3, <1>4, <1>5, ReqPair
<1>7. ParOf(s) \notin Touched(m.txn) BY <1>1, <1>3, <1>4, <1>5, TakenKnown DEF KnownReq
<1> HIDE DEF m
<1>8. \A r \in Sites : r # s => dist_txn_tss'[r] = dist_txn_tss[r] BY <1>1, <1>3, <1>4 DEF TypeOK, Nodes
<1>9. dist_txn_tss'[s] = dist_txn_tss[s] \cup {m.ts} BY <1>1, <1>3, <1>4 DEF TypeOK, Nodes
<1>10. FloorsFrom(s, m.txn) BY <1>6, <1>8, <1>9 DEF FloorsFrom
<1>11. ASSUME NEW t \in Txns PROVE FloorsSpare(t)
 <2>1. CASE t # m.txn
  <3>1. m.txn \in Txns \ {t} BY <1>6, <2>1
  <3> QED BY <1>1, <1>2, <1>10, <3>1, FloorsSpared
 <2>2. CASE t = m.txn
  <3>1. SUFFICES ASSUME NEW c \in Sites \X Nodes, NEW v \in MsgsIn(req[c]), v.type = "PrepareCRT", v.txn = t
                 PROVE v.ts \notin dist_txn_tss'[c[2]] BY DEF FloorsSpare
  <3>2. c[2] \in Sites /\ ParOf(c[2]) \in Touched(t) BY <1>1, <3>1 DEF UniqueInv, ReqsRight, RightReq
  <3>3. c[2] # s BY <1>7, <2>2, <3>2
  <3>4. CrtReq(tx, dtxns, dist_txn_tss, v, c[2]) BY <1>2, <3>1 DEF CrtNow, CrtOf
  <3> QED BY <1>8, <3>1, <3>2, <3>3, <3>4 DEF CrtReq
 <2> QED BY <2>1, <2>2
<1>12. CalmReqs(s) BY <1>1, NotiCalm
<1>13. FloorsSet BY <1>10 DEF FloorsSet
<1> QED BY <1>3, <1>11, <1>12, <1>13, StillCrt

(* OnNotiCommit: PrepareCRT came first on the same connection. *)
LEMMA OnNotiCommitCrt ==
  ASSUME CrtBefore, CrtAfter, NEW src \in Sites, NEW s \in Sites, OnNotiCommit(src, s)
  PROVE CrtNext /\ FloorsSet
<1> DEFINE m == ReqAt(src, s)
<1>1. TypeOK /\ UniqueInv /\ CrtInv /\ TidyInv BY DEF CrtBefore
<1>2. \A u \in Txns : CrtNow(u) BY <1>1, CrtParts DEF CrtInv, CrtNow
<1>3. Receives(src, s, "NotiCommit") /\ m.type = "NotiCommit" /\ UNCHANGED <<tx, ready_txns, dtxns, rep>>
      /\ dist_txn_tss' = [dist_txn_tss EXCEPT ![s] = (@ \ {m.orig}) \cup (IF m.wait THEN {m.new} ELSE {})]
      /\ req' = Taken(req, <<src, s>>) BY DEF OnNotiCommit, Receives, ReqAt, tableVars, execVars
<1>4. s \in Nodes /\ <<src, s>> \in Sites \X Nodes BY DEF Nodes
<1>5. m \in MsgsIn(req[<<src, s>>]) BY <1>1, <1>3, <1>4, ReceivesMsgs DEF ReqAt
<1>6. m.wait => m.new \in AnticipatedType /\ m.txn \in Txns /\ At(m.new, m.txn) \in Used
  BY <1>1, <1>3, <1>4, <1>5, ReqPair
<1>7. TidyReq(tx, m, src, s) BY <1>1, <1>4, <1>5 DEF TidyInv
<1>8. /\ \A r \in Sites : r # s => dist_txn_tss'[r] = dist_txn_tss[r]
      /\ dist_txn_tss'[s] = (dist_txn_tss[s] \ {m.orig}) \cup (IF m.wait THEN {m.new} ELSE {})
  BY <1>1, <1>3, <1>4 DEF TypeOK, Nodes
<1>9. req[<<src, s>>] # <<>> /\ m = Head(req[<<src, s>>]) BY <1>3 DEF Receives, ReqAt
<1> HIDE DEF m
<1>10. m.wait => FloorsFrom(s, m.txn) BY <1>6, <1>8 DEF FloorsFrom
<1>11. ASSUME NEW t \in Txns PROVE FloorsSpare(t)
 <2>1. CASE ~m.wait
  <3>1. \A r \in Sites : dist_txn_tss'[r] \subseteq dist_txn_tss[r] BY <1>8, <2>1
  <3> QED BY <1>1, <1>2, <3>1, FloorsSpared
 <2>2. CASE m.wait /\ t # m.txn
  <3>1. m.txn \in Txns \ {t} /\ FloorsFrom(s, m.txn) BY <1>6, <1>10, <2>2
  <3> QED BY <1>1, <1>2, <3>1, FloorsSpared
 <2>3. CASE m.wait /\ t = m.txn
  <3>1. SUFFICES ASSUME NEW c \in Sites \X Nodes, NEW v \in MsgsIn(req[c]), v.type = "PrepareCRT", v.txn = t,
                        v \in MsgsIn(req'[c])
                 PROVE v.ts \notin dist_txn_tss'[c[2]] BY DEF FloorsSpare
  <3>2. TidyReq(tx, v, c[1], c[2]) BY <1>1, <3>1 DEF TidyInv
  <3>3. CrtReq(tx, dtxns, dist_txn_tss, v, c[2]) BY <1>2, <3>1 DEF CrtNow, CrtOf
  <3>4. c[2] \in Sites /\ v.ts \notin dist_txn_tss[c[2]] BY <3>1, <3>3 DEF CrtReq
  <3>5. CASE c[2] # s BY <1>8, <3>4, <3>5
  <3>6. CASE c[2] = s
   <4>1. c[1] = MgrHost(MgrOf(SiteRegion(s))) /\ src = MgrHost(MgrOf(SiteRegion(s)))
     BY <1>3, <1>7, <3>1, <3>2, <3>6 DEF TidyReq
   <4>2. c = <<src, s>> BY <3>6, <4>1
   <4>3. req \in [Sites \X Nodes -> Seq(ReqMsg)] /\ AllTidy(req) BY <1>1 DEF TypeOK, TidyInv, AllTidy
   <4>4. \A w \in MsgsIn(Taken(req, <<src, s>>)[<<src, s>>]) : ~Clash(Head(req[<<src, s>>]), w)
     BY <1>4, <1>9, <4>3, TidyTaken
   <4>5. ~Clash(m, v) BY <1>3, <1>9, <3>1, <4>2, <4>4
   <4> QED BY <1>3, <2>3, <3>1, <4>5 DEF Clash
  <3> QED BY <3>5, <3>6
 <2> QED BY <2>1, <2>2, <2>3
<1>12. CalmReqs(s) BY <1>1, NotiCalm
<1>13. FloorsSet
 <2>1. ~m.wait => FloorsFrom(s, m.txn) BY <1>8 DEF FloorsFrom
 <2> QED BY <1>10, <2>1 DEF FloorsSet
<1> QED BY <1>3, <1>11, <1>12, <1>13, StillCrt
-----
(* A handler that does not touch t before CheckExecutableTxns. *)
LEMMA HandledUntouched ==
  ASSUME TypeOK, UniqueInv, NEW s \in Sites, NEW R, NEW x, NEW t \in Txns, CrtNow(t), SameCrt(tx[s][t], x[t]),
         \A e \in R : e.id = t => e \in ready_txns[s],
         \A k \in Sites : t \in dtxns'[k] <=> t \in dtxns[k],
         \A c \in Sites \X Nodes : \A m \in NewReqs(c) : Calm(m) \/ m.txn # t,
         FloorsSpare(t)
  PROVE CrtHandled(s, R, x, t)
<1>1. /\ AtCall(tx, s, x)[s] = x /\ AtCall(ready_txns, s, R)[s] = R
      /\ \A k \in Sites \ {s} : AtCall(tx, s, x)[k] = tx[k] /\ AtCall(ready_txns, s, R)[k] = ready_txns[k]
  BY DEF AtCall, TypeOK
<1>2. \A k \in Sites : SameCrt(tx[k][t], AtCall(tx, s, x)[k][t]) BY <1>1, SelfSame
<1>3. \A k \in Sites : \A e \in AtCall(ready_txns, s, R)[k] : e.id = t => e \in ready_txns[k] BY <1>1
<1>4. Untouched(AtCall(tx, s, x), AtCall(ready_txns, s, R), t) BY <1>2, <1>3, QuietUntouched
<1> QED BY <1>4 DEF CrtHandled

(* The piggybacked transactions are intra-region ones. *)
LEMMA HearingLearns ==
  ASSUME TypeOK, DecidedInv, NEW src \in Sites, NEW s \in Sites, NEW now \in PhysTimes,
         OnPrepareIRT(src, s, now) \/ PrepareIRTACK(src, s, now) \/ OnIRSync(src, s, now),
         NEW u \in Txns, ~IsIrt(u), NEW k \in Sites
  PROVE u \in dtxns'[k] <=> u \in dtxns[k]
<1>0. dtxns \in [Sites -> SUBSET Txns] /\ s \in Nodes /\ <<src, s>> \in Sites \X Nodes /\ <<src, s>> \in Sites \X Sites
  BY DEF TypeOK, Nodes
<1>1. CASE OnPrepareIRT(src, s, now)
 <2>1. Receives(src, s, "PrepareIRT") /\ ReqAt(src, s).type = "PrepareIRT" BY <1>1 DEF OnPrepareIRT, Receives, ReqAt
 <2>2. ReqAt(src, s) \in MsgsIn(req[<<src, s>>]) BY <1>0, <2>1, ReceivesMsgs DEF ReqAt
 <2>3. LawfulReq(tx, ReqAt(src, s), src, s) BY <1>0, <2>2 DEF DecidedInv
 <2>4. IsIrt(ReqAt(src, s).txn) /\ IrtEntries(ReqAt(src, s).noti) BY <2>1, <2>3 DEF LawfulReq
 <2>5. dtxns' = [dtxns EXCEPT ![s] = (dtxns[s] \cup {ReqAt(src, s).txn}) \cup {e.id : e \in ReqAt(src, s).noti}]
   BY <1>1 DEF OnPrepareIRT, HandlePiggyInfo, ReqAt
 <2> QED BY <1>0, <2>4, <2>5 DEF IrtEntries
<1>2. CASE PrepareIRTACK(src, s, now)
 <2>1. rep[<<src, s>>] # <<>> /\ RepAt(src, s).type = "PrepareIRTRes" BY <1>2 DEF PrepareIRTACK, RepAt
 <2>2. RepAt(src, s) \in MsgsIn(rep[<<src, s>>]) BY <1>0, <2>1, TakenMsgs DEF RepAt, TypeOK
 <2>3. LawfulRep(tx, RepAt(src, s), s) BY <1>0, <2>2 DEF DecidedInv
 <2>4. IrtEntries(RepAt(src, s).noti) BY <2>1, <2>3 DEF LawfulRep
 <2>5. dtxns' = [dtxns EXCEPT ![s] = dtxns[s] \cup {e.id : e \in RepAt(src, s).noti}]
   BY <1>2 DEF PrepareIRTACK, HandlePiggyInfo, RepAt
 <2> QED BY <1>0, <2>4, <2>5 DEF IrtEntries
<1>3. CASE OnIRSync(src, s, now)
 <2>1. Receives(src, s, "IRSync") /\ ReqAt(src, s).type = "IRSync" BY <1>3 DEF OnIRSync, Receives, ReqAt
 <2>2. ReqAt(src, s) \in MsgsIn(req[<<src, s>>]) BY <1>0, <2>1, ReceivesMsgs DEF ReqAt
 <2>3. LawfulReq(tx, ReqAt(src, s), src, s) BY <1>0, <2>2 DEF DecidedInv
 <2>4. IrtEntries(ReqAt(src, s).noti) BY <2>1, <2>3 DEF LawfulReq
 <2>5. dtxns' = [dtxns EXCEPT ![s] = dtxns[s] \cup {e.id : e \in ReqAt(src, s).noti}]
   BY <1>3 DEF OnIRSync, HandlePiggyInfo, ReqAt
 <2> QED BY <1>0, <2>4, <2>5 DEF IrtEntries
<1> QED BY <1>1, <1>2, <1>3

(* So do the intra-region handlers. *)
LEMMA HearingCrt ==
  ASSUME CrtBefore, CrtAfter, NEW src \in Sites, NEW s \in Sites, NEW now \in PhysTimes,
         OnPrepareIRT(src, s, now) \/ PrepareIRTACK(src, s, now) \/ OnIRSync(src, s, now)
  PROVE CrtNext
<1>1. TypeOK /\ UniqueInv /\ DecidedInv /\ CrtInv /\ TypeOK' /\ DecidedInv' /\ LeadersInv' BY DEF CrtBefore, CrtAfter
<1>2. \A u \in Txns : CrtNow(u) BY <1>1, CrtParts DEF CrtInv, CrtNow
<1>3. HeardLocally(s) BY <1>1, OnPrepareIRTShape, PrepareIRTACKShape, OnIRSyncShape
<1>4. CalmReqs(s) /\ \E R, x : Local(s, R, x) /\ Handler(s, R, x) BY <1>1, <1>3, HeardHandler
<1>5. PICK R, x : Local(s, R, x) /\ Handler(s, R, x) BY <1>4
<1>6. ASSUME NEW u \in Txns, ~IsIrt(u) PROVE CrtHandled(s, R, x, u)
 <2>1. SameCrt(tx[s][u], x[u]) BY <1>5, <1>6, SelfSame DEF Local
 <2>2. \A e \in R : e.id = u => e \in ready_txns[s] BY <1>5, <1>6 DEF Local
 <2>3. \A k \in Sites : u \in dtxns'[k] <=> u \in dtxns[k] BY <1>1, <1>6, HearingLearns
 <2>4. \A c \in Sites \X Nodes : \A m \in NewReqs(c) : Calm(m) \/ m.txn # u BY <1>1, <1>4, CalmNew
 <2>5. \A r \in Sites : dist_txn_tss'[r] \subseteq dist_txn_tss[r] BY <1>1, PiggyReleases
 <2>6. FloorsSpare(u) BY <1>1, <1>2, <2>5, FloorsSpared
 <2> QED BY <1>1, <1>2, <2>1, <2>2, <2>3, <2>4, <2>6, HandledUntouched
<1> QED BY <1>1, <1>5, <1>6, CrtHandler

(* An output that arrives may complete the input of a leader, which then runs. *)
LEMMA OnSendOutputCrt ==
  ASSUME CrtBefore, CrtAfter, NEW src \in Sites, NEW s \in Sites, OnSendOutput(src, s)
  PROVE CrtNext
<1>1. TypeOK /\ UniqueInv /\ DecidedInv /\ CrtInv /\ TypeOK' /\ DecidedInv' /\ LeadersInv' BY DEF CrtBefore, CrtAfter
<1>2. \A u \in Txns : CrtNow(u) BY <1>1, CrtParts DEF CrtInv, CrtNow
<1>3. /\ CalmReqs(s) /\ FloorsGain(s, {})
      /\ \E x : /\ Handler(s, ready_txns[s], x)
                /\ \A u \in Txns : SameCrt(tx[s][u], x[u]) BY <1>1, OnSendOutputShape
<1>4. PICK x : /\ Handler(s, ready_txns[s], x)
               /\ \A u \in Txns : SameCrt(tx[s][u], x[u]) BY <1>3
<1>5. dtxns' = dtxns BY DEF OnSendOutput, tableVars
<1>6. \A r \in Sites : dist_txn_tss'[r] \subseteq dist_txn_tss[r] BY <1>3 DEF FloorsGain
<1>7. ASSUME NEW u \in Txns, ~IsIrt(u) PROVE CrtHandled(s, ready_txns[s], x, u)
 <2>1. \A c \in Sites \X Nodes : \A m \in NewReqs(c) : Calm(m) \/ m.txn # u BY <1>1, <1>3, CalmNew
 <2>2. FloorsSpare(u) BY <1>1, <1>2, <1>6, FloorsSpared
 <2>3. SameCrt(tx[s][u], x[u]) BY <1>4
 <2>4. \A k \in Sites : u \in dtxns'[k] <=> u \in dtxns[k] BY <1>5
 <2> QED BY <1>1, <1>2, <2>1, <2>2, <2>3, <2>4, HandledUntouched
<1> QED BY <1>1, <1>4, <1>7, CrtHandler

(* A transaction that nobody has submitted. *)
LEMMA UnknownCrt ==
  ASSUME CrtBefore, NEW t \in Txns, t \notin submitted, ~IsIrt(t)
  PROVE  /\ \A k \in Sites : tx[k][t].role = "unset" /\ tx[k][t].owes = -1 /\ t \notin dtxns[k]
         /\ \A k \in Sites : \A e \in ready_txns[k] : e.id # t
         /\ \A c \in Sites \X Nodes : \A m \in MsgsIn(req[c]) : m.type \in {"PrepareCRT", "DistExe"} => m.txn # t
         /\ \A c \in Sites \X Sites : \A m \in MsgsIn(rep[c]) : m.type = "DistExeRes" => m.txn # t
<1>1. TypeOK /\ UniqueInv /\ DecidedInv /\ KnownInv /\ LeadersInv /\ CrtInv BY DEF CrtBefore
<1>2. CrtNow(t) BY <1>1, CrtParts DEF CrtInv, CrtNow
<1>3. \A s \in Sites : tx[s][t].role \notin {"crtReplica", "crtCoord"} BY <1>1, NothingLed
<1>4. ASSUME NEW k \in Sites PROVE tx[k][t].role = "unset" /\ tx[k][t].owes = -1 /\ t \notin dtxns[k]
 <2>1. CrtTx(tx, dtxns, ready_txns, k, t) BY <1>2 DEF CrtNow, CrtOf
 <2>2. tx[k][t] \in TxType BY <1>1 DEF TypeOK
 <2>3. tx[k][t].role \in Roles BY <2>2 DEF TxType
 <2>4. t \notin dtxns[k] BY <1>1 DEF KnownInv, KnownAt
 <2> QED BY <1>3, <2>1, <2>3, <2>4 DEF CrtTx, Roles
<1>5. ASSUME NEW k \in Sites, NEW e \in ready_txns[k], e.id = t PROVE FALSE
 <2>1. CrtEntry(tx[k][t], e) BY <1>2, <1>5 DEF CrtNow, CrtOf
 <2> QED BY <1>3, <1>5, <2>1 DEF CrtEntry
<1>6. ASSUME NEW c \in Sites \X Nodes, NEW m \in MsgsIn(req[c]), m.type \in {"PrepareCRT", "DistExe"}, m.txn = t
      PROVE FALSE
 <2>1. LawfulReq(tx, m, c[1], c[2]) BY <1>1, <1>6 DEF DecidedInv
 <2> QED BY <1>3, <1>6, <2>1 DEF LawfulReq, Coord, DecidedAs
<1>7. ASSUME NEW c \in Sites \X Sites, NEW m \in MsgsIn(rep[c]), m.type = "DistExeRes", m.txn = t PROVE FALSE
 <2>1. LawfulRep(tx, m, c[2]) BY <1>1, <1>7 DEF DecidedInv
 <2> QED BY <1>3, <1>7, <2>1 DEF LawfulRep, DecidedAs
<1> QED BY <1>4, <1>5, <1>6, <1>7

(* A coordinator that takes a transaction has asked nobody before. *)
LEMMA OnSubmitCRTCrt ==
  ASSUME CrtBefore, CrtAfter, NEW s \in Sites, NEW t \in Txns, NEW now \in PhysTimes, OnSubmitCRT(s, t, now)
  PROVE CrtNext
<1> DEFINE y == [FreshTx EXCEPT !.phase = DIST_REMOTE_SENT, !.region_handler = s, !.role = "crtCoord",
                           !.pieces = CoordPieces(t, ParOf(s)),
                           !.input_ready = IF WaitsForInput(t) THEN 0 ELSE 1,
                           !.status = [par \in Pars |-> IF par \in Touched(t) THEN P_REMOTE_SENT
                                                                           ELSE P_NOT_RECEIVED]]
<1>1. TypeOK /\ UniqueInv /\ CrtInv /\ TypeOK' /\ DecidedInv' /\ LeadersInv' BY DEF CrtBefore, CrtAfter
<1>2. \A u \in Txns : CrtNow(u) BY <1>1, CrtParts DEF CrtInv, CrtNow
<1>3. /\ t \notin submitted /\ ~IsIrt(t) /\ rep' = rep /\ dist_txn_tss' = dist_txn_tss
      /\ dtxns' = [dtxns EXCEPT ![s] = @ \cup {t}] /\ tx' = [tx EXCEPT ![s][t] = y] /\ ready_txns' = ready_txns
  BY DEF OnSubmitCRT
<1>4. /\ \A k \in Sites, u \in Txns : u # t \/ k # s => tx'[k][u] = tx[k][u]
      /\ \A k \in Sites, u \in Txns : u # t \/ k # s => (u \in dtxns'[k] <=> u \in dtxns[k])
      /\ tx'[s][t] = y
 <2>1. tx \in [Sites -> [Txns -> TxType]] /\ dtxns \in [Sites -> SUBSET Txns] BY <1>1 DEF TypeOK
 <2> HIDE DEF y
 <2> QED BY <1>3, <2>1
<1>5. CalmReqs(s) BY <1>1, LocalCalm
<1>6. /\ y.role = "crtCoord" /\ y.phase = DIST_REMOTE_SENT /\ y.owes = -1 /\ y.mgr_acked = {}
      /\ \A par \in Touched(t) : y.status[par] = P_REMOTE_SENT BY Workload DEF FreshTx
<1> HIDE DEF y
<1>7. ASSUME NEW u \in Txns, ~IsIrt(u), u # t PROVE Untouched(tx', ready_txns', u)
 <2>1. \A k \in Sites : SameCrt(tx[k][u], tx'[k][u]) BY <1>4, <1>7, SelfSame
 <2>2. \A k \in Sites : \A e \in ready_txns'[k] : e.id = u => e \in ready_txns[k] BY <1>3
 <2>3. \A k \in Sites : u \in dtxns'[k] <=> u \in dtxns[k] BY <1>4, <1>7
 <2>4. \A c \in Sites \X Nodes : \A m \in NewReqs(c) : Calm(m) \/ m.txn # u BY <1>1, <1>5, CalmNew
 <2>5. FloorsSpare(u) BY <1>1, <1>2, <1>3, FloorsSpared
 <2> QED BY <1>1, <1>2, <2>1, <2>2, <2>3, <2>4, <2>5, QuietUntouched
<1>8. CrtOf(tx', dtxns', ready_txns', dist_txn_tss', req', rep', t)
 <2>1. /\ \A k \in Sites : tx[k][t].role = "unset" /\ tx[k][t].owes = -1 /\ t \notin dtxns[k]
       /\ \A k \in Sites : \A e \in ready_txns[k] : e.id # t
       /\ \A c \in Sites \X Nodes : \A m \in MsgsIn(req[c]) : m.type \in {"PrepareCRT", "DistExe"} => m.txn # t
       /\ \A c \in Sites \X Sites : \A m \in MsgsIn(rep[c]) : m.type = "DistExeRes" => m.txn # t BY <1>3, UnknownCrt
 <2>2. ASSUME NEW k \in Sites PROVE CrtTx(tx', dtxns', ready_txns', k, t)
  <3>1. CASE k # s
   <4>1. tx'[k][t].role = "unset" /\ tx'[k][t].owes = -1 /\ t \notin dtxns'[k] BY <1>4, <2>1, <3>1
   <4> QED BY <4>1 DEF CrtTx, Leads, Open
  <3>2. CASE k = s
   <4>1. HeardLeaders(y, t) BY <1>6 DEF HeardLeaders, P_REMOTE_SENT, P_REMOTE_PREPARED
   <4> QED BY <1>4, <1>6, <3>2, <4>1 DEF CrtTx, Leads, Open
  <3> QED BY <3>1, <3>2
 <2>3. \A c \in Sites \X Nodes : \A m \in MsgsIn(req'[c]) : m.type \in {"PrepareCRT", "DistExe"} => m.txn # t
  <3>1. ASSUME NEW c \in Sites \X Nodes, NEW m \in MsgsIn(req'[c]), m.type \in {"PrepareCRT", "DistExe"} PROVE m.txn # t
   <4>1. CASE m \in MsgsIn(req[c]) BY <2>1, <3>1, <4>1
   <4>2. CASE m \notin MsgsIn(req[c])
    <5>1. m \in NewReqs(c) BY <3>1, <4>2 DEF NewReqs
    <5>2. Calm(m) BY <1>1, <1>5, <5>1, CalmNew
    <5> QED BY <3>1, <5>2 DEF Calm
   <4> QED BY <4>1, <4>2
  <3> QED BY <3>1
 <2> QED BY <1>3, <2>1, <2>2, <2>3 DEF CrtOf
<1> QED BY <1>1, <1>3, <1>7, <1>8, CrtQuiet
-----
(* DastManager::PrepareCRT anticipates a timestamp that was not handed out. *)
LEMMA MgrFutures ==
  ASSUME TypeOK, TypeOK', UniqueInv, NEW src \in Sites, NEW mgr \in Managers,
         NEW now \in PhysTimes, MgrPrepareCRT(src, mgr, now)
  PROVE  /\ ~HandedOut(max_future_ts'[mgr], last_clock, max_future_ts)
         /\ \A k \in Managers : LessEq(max_future_ts[k], max_future_ts'[k])
         /\ max_future_ts' \in [Managers -> ChrTsType] /\ max_future_ts \in [Managers -> ChrTsType]
<1> DEFINE m   == ReqAt(src, mgr)
           ant == AnticipatedTs(mgr, m.ts, last_clock'[mgr], max_future_ts[mgr], EstimatedRtt)
<1>1. max_future_ts' \in [Managers -> ChrTsType] /\ max_future_ts \in [Managers -> ChrTsType] BY TsFacts DEF TypeOK
<1>2. /\ m \in MsgsIn(req[<<src, mgr>>]) /\ m \in ReqMsg /\ m.type = "PrepareRemote"
      /\ max_future_ts'[mgr] = ant
      /\ \A k \in Managers \ {mgr} : max_future_ts'[k] = max_future_ts[k] BY MgrPrepareCRTStep
<1> HIDE DEF m
<1>4. mgr \in Nodes /\ mgr \notin Sites /\ <<src, mgr>> \in Sites \X Nodes BY Placement, ManagerFacts
<1>5. m.ts \in ChrTsType /\ m.ts.time >= 1 BY <1>2, <1>4, ReqFields DEF UniqueInv, ReqsRight, RightReq
<1>6. /\ ant \in ChrTsType /\ ant.time >= 2 /\ ant.stretch = 0 /\ ant.site = mgr
      /\ Less(max_future_ts[mgr], ant)
 <2>1. max_future_ts[mgr] \in ChrTsType /\ GoodFuture(max_future_ts[mgr], mgr) BY <1>1 DEF UniqueInv, FuturesGood
 <2>2. last_clock' \in [Nodes -> ChrTsType] BY DEF TypeOK
 <2>3. last_clock'[mgr] \in ChrTsType BY <1>4, <2>2
 <2> QED BY <1>5, <2>1, <2>3, ManagerAnticipates
<1> HIDE DEF ant
<1>7. ~HandedOut(ant, last_clock, max_future_ts)
 <2>1. ~LessEq(ant, max_future_ts[mgr]) BY <1>1, <1>6, LessEqOrder
 <2> QED BY <1>6, <2>1 DEF HandedOut
<1> QED BY <1>1, <1>2, <1>6, <1>7 DEF LessEq

(* A manager that is yet to be asked: no coordinator has heard from its region. *)
LEMMA UnaskedUnheard ==
  ASSUME TypeOK, DecidedInv, OffersInv, NEW src \in Sites, NEW mgr \in Managers,
         NEW m \in MsgsIn(req[<<src, mgr>>]), m.type = "PrepareRemote", m.txn \in Txns,
         NEW par \in Touched(m.txn), RegionOf(par) = MgrRegion(mgr),
         NEW k \in Sites, tx[k][m.txn].role = "crtCoord"
  PROVE AcksOf(tx[k][m.txn], par) = {} /\ ~(tx[k][m.txn].phase >= DIST_CAN_EXE)
<1> DEFINE r == MgrRegion(mgr)
<1>1. \A a : ~Offered(tx, req, m.txn, r, a)
 <2>1. <<src, mgr>> \in Sites \X Managers OBVIOUS
 <2> QED BY <2>1 DEF OffersInv, AskedOnce
<1>2. r \in TouchedRegions(m.txn) /\ r \in Regions BY ManagerFacts DEF TouchedRegions
<1> HIDE DEF r
<1>3. ~Ruled(tx, m.txn) BY <1>1, <1>2, RuledOffered
<1>4. Coordinates(tx[k][m.txn], m.txn, submitted, dtxns[k]) BY DEF DecidedInv, LawfulTx
<1>5. ASSUME NEW a \in AcksOf(tx[k][m.txn], par) PROVE FALSE
 <2>1. a \in tx[k][m.txn].acks /\ SiteRegion(a) = r BY <1>5 DEF AcksOf, SiteRegion, r
 <2>2. tx[k][m.txn].anticipated[r] # ZeroTs BY <1>4, <2>1 DEF Coordinates
 <2> QED BY <1>1, <1>2, <2>2 DEF Offered, HasOffer
<1> QED BY <1>3, <1>5 DEF Ruled

(* What a manager proposes is new to every replica. *)
LEMMA MgrPrepareCRTCrt ==
  ASSUME CrtBefore, CrtAfter, NEW src \in Sites, NEW mgr \in Managers,
         NEW now \in PhysTimes, MgrPrepareCRT(src, mgr, now)
  PROVE CrtNext
<1> DEFINE m == ReqAt(src, mgr)
           t == m.txn
<1>1. TypeOK /\ UniqueInv /\ DecidedInv /\ OffersInv /\ CrtInv /\ TypeOK' /\ DecidedInv' /\ LeadersInv'
  BY DEF CrtBefore, CrtAfter
<1>2. \A u \in Txns : CrtNow(u) BY <1>1, CrtParts DEF CrtInv, CrtNow
<1>3. UNCHANGED <<tx, dtxns, ready_txns, rep, dist_txn_tss>> BY DEF MgrPrepareCRT, tableVars, execVars
<1>4. /\ m \in MsgsIn(req[<<src, mgr>>]) /\ m \in ReqMsg /\ m.type = "PrepareRemote"
      /\ mgr \in Nodes /\ <<src, mgr>> \in Sites \X Nodes BY <1>1, MgrPrepareCRTStep, Placement
<1>5. PICK leader : \A c \in Sites \X Nodes : \A w \in NewReqs(c) :
                      c[1] = MgrHost(mgr) /\ AskMsg(w, m, mgr, c[2], leader) BY <1>1, MgrPrepareCRTNew
<1>6. LawfulReq(tx, m, src, mgr) /\ t \in Txns BY <1>1, <1>4, TakenLawful, ReqFields
<1> HIDE DEF m
<1>7. ~IsIrt(t)
 <2>1. Coord(tx, src, t) BY <1>4, <1>6 DEF LawfulReq
 <2> QED BY <1>1, <1>6, <2>1 DEF Coord, DecidedInv, LawfulTx, Coordinates
<1>8. \A u \in Txns : FloorsSpare(u) BY <1>1, <1>2, <1>3, FloorsSpared
<1>9. ASSUME NEW u \in Txns, u # t PROVE Untouched(tx', ready_txns', u)
 <2>1. \A k \in Sites : SameCrt(tx[k][u], tx'[k][u]) BY <1>3, SelfSame
 <2>2. \A c \in Sites \X Nodes : \A w \in NewReqs(c) : Calm(w) \/ w.txn # u BY <1>5, <1>9 DEF AskMsg
 <2>3. /\ \A k \in Sites : \A e \in ready_txns'[k] : e.id = u => e \in ready_txns[k]
       /\ \A k \in Sites : u \in dtxns'[k] <=> u \in dtxns[k] BY <1>3
 <2> QED BY <1>1, <1>2, <1>8, <2>1, <2>2, <2>3, QuietUntouched
<1>10. ASSUME NEW c \in Sites \X Nodes, NEW w \in NewReqs(c), w.type = "PrepareCRT", w.txn = t
       PROVE CrtReq(tx, dtxns, dist_txn_tss, w, c[2])
 <2> DEFINE b == c[2]
            par == ParOf(b)
 <2>1. AskMsg(w, m, mgr, b, leader) BY <1>5
 <2> HIDE DEF b
 <2>2. b \in Sites /\ w.ts = max_future_ts'[mgr] /\ par \in Touched(t) /\ RegionOf(par) = MgrRegion(mgr)
   BY <1>10, <2>1 DEF AskMsg, SiteRegion
 <2>3. w.ts \notin dist_txn_tss[b]
  <3>1. ~HandedOut(w.ts, last_clock, max_future_ts) BY <1>1, <2>2, MgrFutures
  <3> QED BY <1>1, <2>2, <3>1 DEF CrtInv, FloorsOut
 <2>4. \A k \in Sites : tx[k][t].role = "crtCoord" =>
         AcksOf(tx[k][t], par) = {} /\ ~(tx[k][t].phase >= DIST_CAN_EXE) BY <1>1, <1>4, <1>6, <2>2, UnaskedUnheard
 <2>5. \A l : ~Led(tx, req, t, par, l) BY <1>1, <1>4, <1>6, <2>2, UnaskedUnled
 <2>6. tx[b][t].role # "crtReplica" BY <2>2, <2>5 DEF Led, HasLeader
 <2>7. CrtTx(tx, dtxns, ready_txns, b, t) BY <1>2, <1>6, <2>2 DEF CrtNow, CrtOf
 <2>8. tx[b][t].role \in {"unset", "crtCoord"}
  <3>1. tx[b][t] \in TxType BY <1>1, <1>6, <2>2 DEF TypeOK
  <3>2. tx[b][t].role \in Roles BY <3>1 DEF TxType
  <3> QED BY <1>7, <2>6, <2>7, <3>2 DEF CrtTx, Roles
 <2>9. tx[b][t].role = "crtCoord" => tx[b][t].phase = DIST_REMOTE_SENT /\ par \notin tx[b][t].mgr_acked
  <3>1. SUFFICES ASSUME tx[b][t].role = "crtCoord"
                 PROVE tx[b][t].phase = DIST_REMOTE_SENT /\ par \notin tx[b][t].mgr_acked OBVIOUS
  <3>2. Coordinates(tx[b][t], t, submitted, dtxns[b]) BY <1>1, <1>6, <2>2, <3>1 DEF DecidedInv, LawfulTx
  <3>3. ~(tx[b][t].phase >= DIST_CAN_EXE) /\ AcksOf(tx[b][t], par) = {} BY <2>2, <2>4, <3>1
  <3>4. tx[b][t].phase = DIST_REMOTE_SENT BY <3>2, <3>3 DEF Coordinates, DIST_REMOTE_SENT, DIST_CAN_EXE, OUTPUT_SENT
  <3>5. HeardLeaders(tx[b][t], t) BY <2>7, <3>1 DEF CrtTx
  <3> QED BY <3>3, <3>4, <3>5 DEF HeardLeaders
 <2>10. NoOutput(tx, t, par)
  <3>1. SUFFICES ASSUME NEW k \in Sites, tx[k][t].role = "crtCoord", tx[k][t].status[par] = P_OUTPUT_RECEIVED
                 PROVE FALSE BY DEF NoOutput
  <3>2. Coordinates(tx[k][t], t, submitted, dtxns[k]) BY <1>1, <1>6, <3>1 DEF DecidedInv, LawfulTx
  <3>3. AcksOf(tx[k][t], par) # {} BY <2>2, <3>1, <3>2 DEF Coordinates, P_OUTPUT_RECEIVED, P_REMOTE_PREPARED
  <3> QED BY <2>4, <3>1, <3>3
 <2>11. CrtReq(tx, dtxns, dist_txn_tss, w, b) BY <1>10, <2>2, <2>3, <2>8, <2>9, <2>10 DEF CrtReq
 <2> QED BY <2>11 DEF b
<1>11. CrtOf(tx', dtxns', ready_txns', dist_txn_tss', req', rep', t)
 <2>0. CrtOf(tx, dtxns, ready_txns, dist_txn_tss, req, rep, t) BY <1>2, <1>6 DEF CrtNow
 <2>1. ASSUME NEW c \in Sites \X Nodes, NEW w \in MsgsIn(req'[c]), w.type \in {"PrepareCRT", "DistExe"}, w.txn = t
       PROVE CrtReq(tx, dtxns, dist_txn_tss, w, c[2])
  <3>1. CASE w \in MsgsIn(req[c]) BY <2>0, <2>1, <3>1 DEF CrtOf
  <3>2. CASE w \notin MsgsIn(req[c])
   <4>1. w \in NewReqs(c) BY <2>1, <3>2 DEF NewReqs
   <4>2. w.type = "PrepareCRT" BY <1>5, <2>1, <4>1 DEF AskMsg
   <4> QED BY <1>10, <2>1, <4>1, <4>2
  <3> QED BY <3>1, <3>2
 <2> HIDE DEF t
 <2>2. CrtOf(tx, dtxns, ready_txns, dist_txn_tss, req', rep, t) BY <2>0, <2>1 DEF CrtOf
 <2> QED BY <1>3, <2>2
<1> QED BY <1>1, <1>3, <1>9, <1>11, CrtQuiet
-----
(* Taking a reply leaves the others. *)
LEMMA CrtFewer ==
  ASSUME NEW x, NEW dt, NEW R, NEW F, NEW q, NEW p, NEW t, CrtOf(x, dt, R, F, q, p, t), NEW p2,
         \A c \in Sites \X Sites : MsgsIn(p2[c]) \subseteq MsgsIn(p[c])
  PROVE CrtOf(x, dt, R, F, q, p2, t) BY DEF CrtOf

(* A partition has one leader. *)
LEMMA OneLeader ==
  ASSUME LeadersInv, NEW t \in Txns, NEW k \in Sites, NEW l \in Sites, Leads(tx[k][t], k), ParOf(k) = ParOf(l)
  PROVE  /\ Leads(tx[l][t], l) => k = l
         /\ tx[l][t].role = "crtCoord" => FALSE
         /\ \A c \in Sites \X Nodes : \A m \in MsgsIn(req[c]) :
              m.type = "PrepareCRT" /\ m.txn = t /\ c[2] = l /\ m.leader = l => k = l
<1>1. Led(tx, req, t, ParOf(l), k) BY DEF Leads, Led, HasLeader
<1>2. Leads(tx[l][t], l) => Led(tx, req, t, ParOf(l), l) BY DEF Leads, Led, HasLeader
<1>3. ASSUME tx[l][t].role = "crtCoord" PROVE FALSE
 <2>1. k = l BY <1>1, <1>3 DEF LeadersInv
 <2> QED BY <1>3, <2>1 DEF Leads
<1>4. ASSUME NEW c \in Sites \X Nodes, NEW m \in MsgsIn(req[c]),
             m.type = "PrepareCRT", m.txn = t, c[2] = l, m.leader = l
      PROVE k = l
 <2>1. LeaderMsg(m, c[2], t, ParOf(l), l) BY <1>4 DEF LeaderMsg
 <2>2. Led(tx, req, t, ParOf(l), l) BY <2>1 DEF Led
 <2> QED BY <1>1, <2>2 DEF LeadersInv
<1> QED BY <1>1, <1>2, <1>3, <1>4 DEF LeadersInv

(* An answer that is noted was the only one of its partition. *)
LEMMA DistExeAckCrt ==
  ASSUME CrtBefore, CrtAfter, NEW src \in Sites, NEW s \in Sites, DistExeAck(src, s)
  PROVE CrtNext
<1> DEFINE m == RepAt(src, s)
           t == m.txn
           y == tx[s][t]
           p == ParOf(src)
           z == tx'[s][t]
<1>1. TypeOK /\ UniqueInv /\ DecidedInv /\ LeadersInv /\ CrtInv /\ TypeOK' /\ DecidedInv' /\ LeadersInv'
  BY DEF CrtBefore, CrtAfter
<1>2. AllOneAnswer(rep) /\ \A u \in Txns : CrtNow(u) BY <1>1, CrtParts DEF CrtInv, CrtNow
<1>3. /\ UNCHANGED <<dtxns, ready_txns, req, dist_txn_tss>> /\ rep' = Taken(rep, <<src, s>>)
      /\ rep[<<src, s>>] # <<>> /\ m.type = "DistExeRes" BY DEF DistExeAck, RepAt, tableVars, clockVars
<1>4. rep \in [Sites \X Sites -> Seq(RepMsg)] /\ <<src, s>> \in Sites \X Sites BY <1>1 DEF TypeOK
<1>5. /\ m \in MsgsIn(rep[<<src, s>>])
      /\ \A c \in Sites \X Sites : MsgsIn(rep'[c]) \subseteq MsgsIn(rep[c]) BY <1>3, <1>4, TakenMsgs DEF RepAt
<1>6. m \in RepMsg /\ t \in Txns
 <2>1. m \in RepMsg BY <1>1, <1>4, <1>5, MsgTypes
 <2> QED BY <2>1 DEF RepMsg
<1>7. y.role = "crtCoord" /\ y.phase >= DIST_CAN_EXE
 <2>1. LawfulRep(tx, m, s) BY <1>1, <1>4, <1>5 DEF DecidedInv
 <2> QED BY <1>3, <2>1 DEF LawfulRep, DecidedAs
<1>8. Leads(tx[src][t], src) /\ ~Open(tx[src][t], src, t, ready_txns[src]) /\ NoOutput(tx, t, p)
 <2>1. CrtRep(tx, ready_txns, m, <<src, s>>[1]) BY <1>2, <1>3, <1>4, <1>5, <1>6 DEF CrtNow, CrtOf
 <2> QED BY <1>3, <2>1 DEF CrtRep
<1>9. /\ tx' = [tx EXCEPT ![s][t] = z] /\ tx \in [Sites -> [Txns -> TxType]]
      /\ \E w : /\ w = [y EXCEPT !.status[p] = P_OUTPUT_RECEIVED]
                /\ z = w \/ z = [w EXCEPT !.phase = OUTPUT_SENT]
 <2> DEFINE w == [y EXCEPT !.status[p] = P_OUTPUT_RECEIVED]
            v == IF w.phase = OUTPUT_SENT THEN w ELSE CheckSendOutputToClient(t, w)
 <2>1. tx' = [tx EXCEPT ![s][t] = v] BY DEF DistExeAck, RepAt
 <2>2. v = w \/ v = [w EXCEPT !.phase = OUTPUT_SENT] BY DEF CheckSendOutputToClient
 <2> HIDE DEF w, v
 <2>3. tx \in [Sites -> [Txns -> TxType]] BY <1>1 DEF TypeOK
 <2>4. tx'[s][t] = v BY <1>6, <2>1, <2>3
 <2> QED BY <2>1, <2>2, <2>3, <2>4 DEF w
<1>10. y \in TxType /\ p \in Pars /\ y.status \in [Pars -> DistPartStatus]
 <2>1. y \in TxType BY <1>6, <1>9
 <2> QED BY <2>1, Placement DEF TxType, StatusOfPars
<1>11. /\ z.ts = y.ts /\ z.role = y.role /\ z.owes = y.owes /\ z.acks = y.acks /\ z.mgr_acked = y.mgr_acked
       /\ z.phase >= DIST_CAN_EXE
       /\ \A par \in Pars \ {p} : z.status[par] = y.status[par]
 <2>1. PICK w : /\ w = [y EXCEPT !.status[p] = P_OUTPUT_RECEIVED]
                /\ z = w \/ z = [w EXCEPT !.phase = OUTPUT_SENT] BY <1>9
 <2> HIDE DEF y, p, z
 <2>2. /\ w.ts = y.ts /\ w.role = y.role /\ w.owes = y.owes /\ w.acks = y.acks /\ w.mgr_acked = y.mgr_acked
       /\ w.phase = y.phase /\ w.status = [y.status EXCEPT ![p] = P_OUTPUT_RECEIVED] /\ w \in TxType
   BY <1>10, <2>1 DEF TxType, StatusOfPars, DistPartStatus
 <2>3. \A par \in Pars \ {p} : w.status[par] = y.status[par] BY <1>10, <2>2
 <2>4. CASE z = w BY <1>7, <2>2, <2>3, <2>4
 <2>5. CASE z = [w EXCEPT !.phase = OUTPUT_SENT]
  <3>1. /\ z.ts = w.ts /\ z.role = w.role /\ z.owes = w.owes /\ z.acks = w.acks
        /\ z.mgr_acked = w.mgr_acked /\ z.status = w.status /\ z.phase = OUTPUT_SENT BY <2>2, <2>5 DEF TxType
  <3>2. OUTPUT_SENT >= DIST_CAN_EXE BY DEF OUTPUT_SENT, DIST_CAN_EXE
  <3> QED BY <2>2, <2>3, <3>1, <3>2
 <2> QED BY <2>1, <2>4, <2>5
<1>12. \A k \in Sites, u \in Txns : k # s \/ u # t => tx'[k][u] = tx[k][u]
 <2> HIDE DEF z, t
 <2> QED BY <1>6, <1>9
<1> HIDE DEF m, p, z
<1>13. AllOneAnswer(rep')
 <2>1. OneAnswer(Tail(rep[<<src, s>>])) BY <1>2, <1>3, <1>4, OneAnswerTail DEF AllOneAnswer
 <2> QED BY <1>2, <1>3, <1>4, <2>1 DEF AllOneAnswer, Taken
<1>14. ASSUME NEW u \in Txns, u # t PROVE CrtOf(tx', dtxns', ready_txns', dist_txn_tss', req', rep', u)
 <2>1. \A k \in Sites : SameCrt(tx[k][u], tx'[k][u]) BY <1>12, <1>14, SelfSame
 <2>2. FloorsSpare(u) BY <1>1, <1>2, <1>3, FloorsSpared
 <2>3. \A c \in Sites \X Nodes : \A w \in NewReqs(c) : Calm(w) \/ w.txn # u BY <1>3 DEF NewReqs
 <2>4. /\ \A k \in Sites : \A e \in ready_txns'[k] : e.id = u => e \in ready_txns[k]
       /\ \A k \in Sites : u \in dtxns'[k] <=> u \in dtxns[k] BY <1>3
 <2>5. Untouched(tx', ready_txns', u) BY <1>1, <1>2, <2>1, <2>2, <2>3, <2>4, QuietUntouched
 <2>6. CrtOf(tx, dtxns, ready_txns, dist_txn_tss, req, rep, u) BY <1>2 DEF CrtNow
 <2>7. CrtOf(tx, dtxns, ready_txns, dist_txn_tss, req, rep', u) BY <1>5, <2>6, CrtFewer
 <2> QED BY <2>5, <2>7, CrtUntouched
<1>15. CrtOf(tx', dtxns', ready_txns', dist_txn_tss', req', rep', t)
 <2>0. CrtOf(tx, dtxns, ready_txns, dist_txn_tss, req, rep, t) BY <1>2, <1>6 DEF CrtNow
 <2>1. Ruled(tx', t) BY <1>7, <1>11 DEF Ruled, z
 <2>2. ASSUME NEW par \in Pars, par # p, NoOutput(tx, t, par) PROVE NoOutput(tx', t, par)
  <3>1. SUFFICES ASSUME NEW k \in Sites, tx'[k][t].role = "crtCoord"
                 PROVE tx'[k][t].status[par] # P_OUTPUT_RECEIVED BY DEF NoOutput
  <3>2. CASE k # s BY <1>6, <1>12, <2>2, <3>1, <3>2 DEF NoOutput
  <3>3. CASE k = s BY <1>7, <1>11, <2>2, <3>1, <3>3 DEF NoOutput, z
  <3> QED BY <3>2, <3>3
 <2>3. ASSUME NEW k \in Sites, NEW e \in ready_txns'[k], e.id = t PROVE CrtEntry(tx'[k][t], e)
  <3>1. CrtEntry(tx[k][t], e) BY <1>3, <2>0, <2>3 DEF CrtOf
  <3>2. CASE k # s BY <1>6, <1>12, <3>1, <3>2
  <3>3. CASE k = s BY <1>7, <1>11, <3>1, <3>3 DEF CrtEntry, z
  <3> QED BY <3>2, <3>3
 <2>4. ASSUME NEW k \in Sites PROVE CrtTx(tx', dtxns', ready_txns', k, t)
  <3>1. CrtTx(tx, dtxns, ready_txns, k, t) BY <2>0 DEF CrtOf
  <3>2. CASE k # s
   <4>1. tx'[k][t] = tx[k][t] /\ ParOf(k) \in Pars BY <1>6, <1>12, <3>2, Placement
   <4>2. ASSUME Open(tx[k][t], k, t, ready_txns[k]) PROVE NoOutput(tx', t, ParOf(k))
    <5>1. Leads(tx[k][t], k) /\ NoOutput(tx, t, ParOf(k)) BY <3>1, <4>2 DEF CrtTx, Open
    <5>2. ParOf(k) # p BY <1>1, <1>6, <1>8, <4>2, <5>1, OneLeader DEF p
    <5> QED BY <2>2, <4>1, <5>1, <5>2
   <4> QED BY <1>3, <2>1, <3>1, <4>1, <4>2 DEF CrtTx
  <3>3. CASE k = s
   <4>1. HeardLeaders(y, t) /\ y.owes = -1 BY <1>7, <3>1, <3>3 DEF CrtTx
   <4>2. AllPrepared(t, y) BY <1>1, <1>6, <1>7 DEF DecidedInv, LawfulTx, Coordinates
   <4>3. HeardLeaders(z, t) BY <1>11, <4>1, <4>2 DEF HeardLeaders, AcksOf, AllPrepared
   <4>4. z.role = "crtCoord" /\ z.owes = -1 BY <1>7, <1>11, <4>1
   <4> QED BY <2>1, <3>3, <4>3, <4>4 DEF CrtTx, Leads, Open, z
  <3> QED BY <3>2, <3>3
 <2>5. ASSUME NEW c \in Sites \X Nodes, NEW v \in MsgsIn(req'[c]), v.type \in {"PrepareCRT", "DistExe"}, v.txn = t
       PROVE CrtReq(tx', dtxns', dist_txn_tss', v, c[2])
  <3> DEFINE b == c[2]
  <3>1. CrtReq(tx, dtxns, dist_txn_tss, v, b) BY <1>3, <2>0, <2>5 DEF CrtOf
  <3>2. b \in Sites BY <2>5, <3>1 DEF CrtReq
  <3>3. CASE v.type = "DistExe"
   <4>1. tx'[b][t].owes = tx[b][t].owes /\ tx'[b][t].role = tx[b][t].role BY <1>6, <1>11, <1>12, <3>2 DEF z
   <4> HIDE DEF b
   <4>2. CrtReq(tx', dtxns', dist_txn_tss', v, b) BY <1>3, <2>5, <3>1, <3>3, <4>1 DEF CrtReq
   <4> QED BY <4>2 DEF b
  <3>4. CASE v.type = "PrepareCRT"
   <4>1. b # s BY <1>7, <2>5, <3>1, <3>4 DEF CrtReq, DIST_REMOTE_SENT, DIST_CAN_EXE
   <4>2. tx'[b][t] = tx[b][t] /\ ParOf(b) \in Pars BY <1>6, <1>12, <3>2, <4>1, Placement
   <4>3. ASSUME v.leader = b PROVE NoOutput(tx', t, ParOf(b))
    <5>1. NoOutput(tx, t, ParOf(b)) /\ tx[b][t].role # "crtReplica" BY <2>5, <3>1, <3>4, <4>3 DEF CrtReq
    <5>2. ParOf(b) # p
     <6>1. SUFFICES ASSUME ParOf(b) = p PROVE FALSE OBVIOUS
     <6>2. src = b BY <1>1, <1>3, <1>6, <1>8, <2>5, <3>2, <3>4, <4>3, <6>1, OneLeader DEF p
     <6> QED BY <1>8, <5>1, <6>2 DEF Leads
    <5> QED BY <2>2, <4>2, <5>1, <5>2
   <4> HIDE DEF b
   <4>4. CrtReq(tx', dtxns', dist_txn_tss', v, b) BY <1>3, <2>5, <3>1, <3>2, <3>4, <4>2, <4>3 DEF CrtReq
   <4> QED BY <4>4 DEF b
  <3> QED BY <2>5, <3>3, <3>4
 <2>6. ASSUME NEW c \in Sites \X Sites, NEW v \in MsgsIn(rep'[c]), v.type = "DistExeRes", v.txn = t
       PROVE CrtRep(tx', ready_txns', v, c[1])
  <3>1. v \in MsgsIn(rep[c]) /\ c[1] \in Sites /\ c[2] \in Sites /\ c = <<c[1], c[2]>> BY <1>5, <2>6
  <3>2. CrtRep(tx, ready_txns, v, c[1]) BY <2>0, <2>6, <3>1 DEF CrtOf
  <3>3. Leads(tx[c[1]][t], c[1]) /\ ~Open(tx[c[1]][t], c[1], t, ready_txns[c[1]]) /\ NoOutput(tx, t, ParOf(c[1]))
    BY <2>6, <3>2 DEF CrtRep
  <3>4. c[1] # s BY <1>7, <3>3 DEF Leads
  <3>5. tx'[c[1]][t] = tx[c[1]][t] /\ ParOf(c[1]) \in Pars BY <1>6, <1>12, <3>1, <3>4, Placement
  <3>6. ParOf(c[1]) # p
   <4>1. SUFFICES ASSUME ParOf(c[1]) = p PROVE FALSE OBVIOUS
   <4>2. c[1] = src BY <1>1, <1>6, <1>8, <3>1, <3>3, <4>1, OneLeader DEF p
   <4>3. LawfulRep(tx, v, c[2]) BY <1>1, <3>1 DEF DecidedInv
   <4>4. Coord(tx, c[2], t) /\ Coord(tx, s, t) BY <1>7, <2>6, <4>3 DEF LawfulRep, DecidedAs, Coord
   <4>5. c[2] = s BY <1>1, <1>6, <3>1, <4>4 DEF DecidedInv, OneCoordinator
   <4>6. c = <<src, s>> BY <3>1, <4>2, <4>5
   <4>7. v \in MsgsIn(Tail(rep[<<src, s>>])) BY <1>3, <1>4, <2>6, <4>6 DEF Taken
   <4>8. rep[<<src, s>>] \in Seq(RepMsg) /\ OneAnswer(rep[<<src, s>>]) BY <1>2, <1>4 DEF AllOneAnswer
   <4>9. v.txn # m.txn BY <1>3, <2>6, <4>7, <4>8, OneAnswerTail DEF m, RepAt
   <4> QED BY <2>6, <4>9
  <3>7. NoOutput(tx', t, ParOf(c[1])) BY <2>2, <3>3, <3>5, <3>6
  <3> QED BY <1>3, <2>6, <3>3, <3>5, <3>7 DEF CrtRep
 <2> QED BY <2>3, <2>4, <2>5, <2>6 DEF CrtOf
<1> QED BY <1>1, <1>13, <1>14, <1>15, CrtRests
-----
(* What a handler of s that touches t has to establish at the call of
   CheckExecutableTxns; z is the new record, R the queue. *)
TouchedAt(s, R, z, t) ==
  LET X == AtCall(tx, s, [tx[s] EXCEPT ![t] = z])
      Q == AtCall(ready_txns, s, R)
  IN  /\ tx[s][t].role = "crtCoord" /\ tx[s][t].phase >= DIST_CAN_EXE =>
           z.role = "crtCoord" /\ z.phase >= DIST_CAN_EXE
      /\ z.role = "crtCoord" =>
           /\ tx[s][t].role = "crtCoord"
           /\ \A par \in Pars : z.status[par] = P_OUTPUT_RECEIVED => tx[s][t].status[par] = P_OUTPUT_RECEIVED
      /\ \A e \in R : e.id = t => CrtEntry(z, e)
      /\ CrtTx(X, dtxns', Q, s, t)
      /\ \A c \in Sites \X Nodes : \A m \in MsgsIn(req'[c]) :
           m.type \in {"PrepareCRT", "DistExe"} /\ m.txn = t /\ (c[2] = s \/ m \notin MsgsIn(req[c]))
           => CrtReq(X, dtxns', dist_txn_tss', m, c[2])
      /\ \A d \in Sites : \A m \in MsgsIn(rep[<<s, d>>]) :
           m.type = "DistExeRes" /\ m.txn = t => CrtRep(X, Q, m, s)

(* The rest of CrtOf follows: the other sites are as they were. *)
LEMMA CrtOthers ==
  ASSUME TypeOK, NEW s \in Sites, NEW R, NEW t \in Txns, NEW z, CrtNow(t), TouchedAt(s, R, z, t),
         \A k \in Sites \ {s} : t \in dtxns'[k] <=> t \in dtxns[k],
         \A k \in Sites \ {s} : dist_txn_tss'[k] = dist_txn_tss[k]
  PROVE  CrtOf(AtCall(tx, s, [tx[s] EXCEPT ![t] = z]), dtxns', AtCall(ready_txns, s, R), dist_txn_tss',
               req', rep, t)
<1> DEFINE X == AtCall(tx, s, [tx[s] EXCEPT ![t] = z])
           Q == AtCall(ready_txns, s, R)
<1>1. /\ X[s][t] = z /\ Q[s] = R
      /\ \A k \in Sites \ {s} : X[k][t] = tx[k][t] /\ Q[k] = ready_txns[k] BY DEF AtCall, TypeOK
<1>2. /\ tx[s][t].role = "crtCoord" /\ tx[s][t].phase >= DIST_CAN_EXE =>
           z.role = "crtCoord" /\ z.phase >= DIST_CAN_EXE
      /\ z.role = "crtCoord" =>
           /\ tx[s][t].role = "crtCoord"
           /\ \A par \in Pars : z.status[par] = P_OUTPUT_RECEIVED => tx[s][t].status[par] = P_OUTPUT_RECEIVED
      /\ \A e \in R : e.id = t => CrtEntry(z, e)
      /\ CrtTx(X, dtxns', Q, s, t)
      /\ \A c \in Sites \X Nodes : \A m \in MsgsIn(req'[c]) :
           m.type \in {"PrepareCRT", "DistExe"} /\ m.txn = t /\ (c[2] = s \/ m \notin MsgsIn(req[c]))
           => CrtReq(X, dtxns', dist_txn_tss', m, c[2])
      /\ \A d \in Sites : \A m \in MsgsIn(rep[<<s, d>>]) :
           m.type = "DistExeRes" /\ m.txn = t => CrtRep(X, Q, m, s) BY DEF TouchedAt
<1> HIDE DEF X, Q
<1>3. Ruled(tx, t) => Ruled(X, t)
 <2>1. SUFFICES ASSUME NEW k \in Sites, tx[k][t].role = "crtCoord", tx[k][t].phase >= DIST_CAN_EXE
                PROVE Ruled(X, t) BY DEF Ruled
 <2>2. X[k][t].role = "crtCoord" /\ X[k][t].phase >= DIST_CAN_EXE BY <1>1, <1>2, <2>1
 <2> QED BY <2>2 DEF Ruled
<1>4. /\ \A par \in Pars : NoOutput(tx, t, par) => NoOutput(X, t, par)
      /\ \A k \in Sites : ParOf(k) \in Pars
 <2>1. SUFFICES ASSUME NEW par \in Pars, NoOutput(tx, t, par), NEW k \in Sites, X[k][t].role = "crtCoord",
                       X[k][t].status[par] = P_OUTPUT_RECEIVED
                PROVE FALSE BY Placement DEF NoOutput
 <2>2. tx[k][t].role = "crtCoord" /\ tx[k][t].status[par] = P_OUTPUT_RECEIVED BY <1>1, <1>2, <2>1
 <2> QED BY <2>1, <2>2 DEF NoOutput
<1>5. ASSUME NEW k \in Sites, NEW e \in Q[k], e.id = t PROVE CrtEntry(X[k][t], e)
 <2>1. CASE k = s BY <1>1, <1>2, <1>5, <2>1
 <2>2. CASE k # s BY <1>1, <1>5, <2>2 DEF CrtNow, CrtOf
 <2> QED BY <2>1, <2>2
<1>6. ASSUME NEW k \in Sites PROVE CrtTx(X, dtxns', Q, k, t)
 <2>1. CASE k = s BY <1>2, <2>1
 <2>2. CASE k # s
  <3>1. CrtTx(tx, dtxns, ready_txns, k, t) BY DEF CrtNow, CrtOf
  <3>2. X[k][t] = tx[k][t] /\ Q[k] = ready_txns[k] /\ (t \in dtxns'[k] <=> t \in dtxns[k]) BY <1>1, <2>2
  <3> QED BY <1>3, <1>4, <3>1, <3>2 DEF CrtTx
 <2> QED BY <2>1, <2>2
<1>7. ASSUME NEW c \in Sites \X Nodes, NEW m \in MsgsIn(req'[c]), m.type \in {"PrepareCRT", "DistExe"}, m.txn = t
      PROVE CrtReq(X, dtxns', dist_txn_tss', m, c[2])
 <2>1. CASE c[2] = s \/ m \notin MsgsIn(req[c]) BY <1>2, <1>7, <2>1
 <2>2. CASE c[2] # s /\ m \in MsgsIn(req[c])
  <3> DEFINE b == c[2]
  <3>1. CrtReq(tx, dtxns, dist_txn_tss, m, b) BY <1>7, <2>2 DEF CrtNow, CrtOf
  <3>2. b \in Sites BY <1>7, <3>1 DEF CrtReq
  <3>3. X[b][t] = tx[b][t] /\ (t \in dtxns'[b] <=> t \in dtxns[b]) /\ dist_txn_tss'[b] = dist_txn_tss[b]
    BY <1>1, <2>2, <3>2
  <3> HIDE DEF b
  <3>4. CrtReq(X, dtxns', dist_txn_tss', m, b) BY <1>4, <1>7, <3>1, <3>2, <3>3 DEF CrtReq
  <3> QED BY <3>4 DEF b
 <2> QED BY <2>1, <2>2
<1>8. ASSUME NEW c \in Sites \X Sites, NEW m \in MsgsIn(rep[c]), m.type = "DistExeRes", m.txn = t
      PROVE CrtRep(X, Q, m, c[1])
 <2>1. CASE c[1] = s
  <3>1. c = <<s, c[2]>> /\ c[2] \in Sites BY <2>1
  <3> QED BY <1>2, <1>8, <2>1, <3>1
 <2>2. CASE c[1] # s
  <3>1. CrtRep(tx, ready_txns, m, c[1]) BY <1>8 DEF CrtNow, CrtOf
  <3>2. X[c[1]][t] = tx[c[1]][t] /\ Q[c[1]] = ready_txns[c[1]] BY <1>1, <2>2
  <3> QED BY <1>4, <1>8, <3>1, <3>2 DEF CrtRep
 <2> QED BY <2>1, <2>2
<1> QED BY <1>5, <1>6, <1>7, <1>8 DEF CrtOf, X, Q

(* A handler of s that touches t alone. *)
LEMMA CrtTouches ==
  ASSUME CrtBefore, CrtAfter, NEW s \in Sites, NEW R, NEW t \in Txns, NEW z,
         Handler(s, R, [tx[s] EXCEPT ![t] = z]),
         \A e \in R : e.id # t => e \in ready_txns[s],
         \A k \in Sites : \A u \in Txns \ {t} : u \in dtxns'[k] <=> u \in dtxns[k],
         \A k \in Sites \ {s} : t \in dtxns'[k] <=> t \in dtxns[k],
         \A k \in Sites \ {s} : dist_txn_tss'[k] = dist_txn_tss[k],
         FloorsFrom(s, t),
         \A c \in Sites \X Nodes : \A m \in NewReqs(c) : Calm(m) \/ m.txn = t,
         TouchedAt(s, R, z, t), RunsAsCoord(t, z) => AllPrepared(t, z)
  PROVE CrtNext /\ FloorsSet
<1> DEFINE x == [tx[s] EXCEPT ![t] = z]
<1>1. TypeOK /\ UniqueInv /\ DecidedInv /\ CrtInv /\ TypeOK' /\ DecidedInv' /\ LeadersInv' BY DEF CrtBefore, CrtAfter
<1>2. \A u \in Txns : CrtNow(u) BY <1>1, CrtParts DEF CrtInv, CrtNow
<1>3. x[t] = z /\ \A u \in Txns \ {t} : x[u] = tx[s][u] BY <1>1 DEF TypeOK
<1>4. CrtHandled(s, R, x, t) BY <1>1, <1>2, <1>3, CrtOthers DEF CrtHandled
<1> HIDE DEF x
<1>5. ASSUME NEW u \in Txns \ {t}, ~IsIrt(u) PROVE CrtHandled(s, R, x, u)
 <2>1. SameCrt(tx[s][u], x[u]) BY <1>3, SelfSame
 <2>2. FloorsSpare(u) BY <1>1, <1>2, FloorsSpared
 <2>3. \A c \in Sites \X Nodes : \A m \in NewReqs(c) : Calm(m) \/ m.txn # u OBVIOUS
 <2> QED BY <1>1, <1>2, <2>1, <2>2, <2>3, HandledUntouched
<1>6. \A u \in Txns : ~IsIrt(u) => CrtHandled(s, R, x, u) BY <1>4, <1>5
<1>7. Handler(s, R, x) BY DEF x
<1>8. FloorsSet BY DEF FloorsSet
<1> QED BY <1>1, <1>6, <1>7, <1>8, CrtHandler
-----
(* A site hears one PrepareCRT of a transaction. *)
LEMMA LastPrepare ==
  ASSUME TypeOK, TidyInv, NEW src \in Sites, NEW s \in Sites, Receives(src, s, "PrepareCRT"),
         NEW c \in Sites \X Nodes, NEW w \in MsgsIn(Taken(req, <<src, s>>)[c]),
         w.type = "PrepareCRT", w.txn = ReqAt(src, s).txn
  PROVE c[2] # s
<1> SUFFICES ASSUME c[2] = s PROVE FALSE OBVIOUS
<1> DEFINE m == ReqAt(src, s)
<1>1. s \in Nodes /\ req[<<src, s>>] # <<>> /\ m.type = "PrepareCRT" BY Placement DEF Receives, ReqAt
<1>2. m \in MsgsIn(req[<<src, s>>]) /\ w \in MsgsIn(req[c]) BY <1>1, ReceivesMsgs DEF ReqAt
<1>3. TidyReq(tx, m, src, s) /\ TidyReq(tx, w, c[1], c[2])
 <2>1. <<src, s>> \in Sites \X Nodes BY <1>1
 <2>2. TidyReq(tx, m, <<src, s>>[1], <<src, s>>[2]) BY <1>2, <2>1 DEF TidyInv
 <2>3. TidyReq(tx, w, c[1], c[2]) BY <1>2 DEF TidyInv
 <2> HIDE DEF m
 <2> QED BY <2>2, <2>3
<1>4. c = <<src, s>> BY <1>1, <1>3 DEF TidyReq
<1>5. ~Clash(m, w)
 <2>1. AllTidy(req) /\ req \in [Sites \X Nodes -> Seq(ReqMsg)] BY DEF TidyInv, AllTidy, TypeOK
 <2>2. <<src, s>> \in Sites \X Nodes BY <1>1
 <2> QED BY <1>1, <1>4, <2>1, <2>2, TidyTaken DEF ReqAt
<1> QED BY <1>1, <1>5 DEF Clash

(* What an acknowledgement changes in the coordinator's record. *)
AckedFrom(y, acked) ==
  /\ acked.role = y.role /\ acked.phase = y.phase /\ acked.status = y.status /\ acked.owes = y.owes
  /\ y.mgr_acked \subseteq acked.mgr_acked
  /\ \A par \in acked.mgr_acked : AcksOf(acked, par) # {}
  /\ acked.ts = y.ts \/ y.phase = DIST_REMOTE_SENT

(* The record and the queue at the call. *)
AckedTx(t, acked, par) ==
  LET y == WithPrepared(acked, par) IN IF Decides(t, acked, par) THEN Decided(t, y) ELSE y
AckedReady(s, t, acked, par) ==
  IF Decides(t, acked, par) THEN PutReady(ready_txns[s], DecisionTs(t, WithPrepared(acked, par)), t)
                            ELSE ready_txns[s]

(* The record of a coordinator after an acknowledgement. *)
LEMMA AckedRecord ==
  ASSUME NEW t \in Txns, NEW acked \in TxType, NEW par \in Pars
  PROVE  LET z == AckedTx(t, acked, par)
         IN  /\ z.role = acked.role /\ z.owes = acked.owes /\ z.acks = acked.acks
             /\ z.mgr_acked = acked.mgr_acked
             /\ ~Decides(t, acked, par) => z.ts = acked.ts /\ z.phase = acked.phase
             /\ Decides(t, acked, par) =>
                  /\ z.ts = DecisionTs(t, WithPrepared(acked, par)) /\ z.phase = DIST_CAN_EXE
                  /\ AllPrepared(t, z)
             /\ \A p \in Pars : z.status[p] = acked.status[p]
                                \/ (z.status[p] = P_REMOTE_PREPARED /\ p \in acked.mgr_acked)
<1> DEFINE y == WithPrepared(acked, par)
           d == Decided(t, y)
           z == AckedTx(t, acked, par)
<1>1. /\ y.ts = acked.ts /\ y.phase = acked.phase /\ y.role = acked.role
      /\ y.owes = acked.owes /\ y.acks = acked.acks
      /\ y.mgr_acked = acked.mgr_acked
      /\ y.status = IF Prepared(acked, par)
                    THEN [acked.status EXCEPT ![par] = P_REMOTE_PREPARED]
                    ELSE acked.status
      /\ d.ts = DecisionTs(t, y) /\ d.phase = DIST_CAN_EXE /\ d.role = y.role
      /\ d.owes = y.owes /\ d.status = y.status
      /\ d.acks = y.acks /\ d.mgr_acked = y.mgr_acked
 <2>1. y \in TxType /\ d \in TxType BY DecidedRecord
 <2>2. /\ y.ts = acked.ts /\ y.phase = acked.phase /\ y.role = acked.role
       /\ y.owes = acked.owes /\ y.acks = acked.acks /\ y.mgr_acked = acked.mgr_acked
       /\ y.status = IF Prepared(acked, par)
                     THEN [acked.status EXCEPT ![par] = P_REMOTE_PREPARED]
                     ELSE acked.status BY DEF WithPrepared, TxType
 <2> HIDE DEF y
 <2>3. /\ d.ts = DecisionTs(t, y) /\ d.phase = DIST_CAN_EXE /\ d.role = y.role
       /\ d.owes = y.owes /\ d.status = y.status
       /\ d.acks = y.acks /\ d.mgr_acked = y.mgr_acked BY <2>1 DEF Decided, TxType
 <2> QED BY <2>2, <2>3
<1>2. z = IF Decides(t, acked, par) THEN d ELSE y BY DEF AckedTx
<1>3. acked.status \in [Pars -> DistPartStatus] BY DEF TxType, StatusOfPars
<1>4. Prepared(acked, par) => par \in acked.mgr_acked BY DEF Prepared
<1>5. Decides(t, acked, par) => AllPrepared(t, y) BY DEF Decides
<1> HIDE DEF y, d, z
<1>6. \A p \in Pars : y.status[p] = acked.status[p]
                      \/ (y.status[p] = P_REMOTE_PREPARED /\ p \in acked.mgr_acked) BY <1>1, <1>3, <1>4
<1>7. Decides(t, acked, par) => AllPrepared(t, d) BY <1>1, <1>5 DEF AllPrepared
<1>8. z.status = y.status BY <1>1, <1>2
<1>9. \A p \in Pars : z.status[p] = acked.status[p]
                      \/ (z.status[p] = P_REMOTE_PREPARED /\ p \in acked.mgr_acked) BY <1>6, <1>8
<1>10. /\ z.role = acked.role /\ z.owes = acked.owes /\ z.acks = acked.acks
       /\ z.mgr_acked = acked.mgr_acked
       /\ ~Decides(t, acked, par) => z.ts = acked.ts /\ z.phase = acked.phase
       /\ Decides(t, acked, par) =>
            /\ z.ts = DecisionTs(t, y) /\ z.phase = DIST_CAN_EXE
            /\ AllPrepared(t, z) BY <1>1, <1>2, <1>7
<1> QED BY <1>9, <1>10 DEF y, z

(* What the step sends and which floors it sets. *)
LEMMA AckedShape ==
  ASSUME TypeOK, NEW src \in Sites, NEW s \in Sites, NEW type, Receives(src, s, type), NEW t \in Txns,
         NEW acked \in TxType, NEW par, NEW floors, NEW now,
         CheckRemotePrepared(s, t, acked, par, floors, Taken(req, <<src, s>>), now)
  PROVE  /\ Handler(s, AckedReady(s, t, acked, par), [tx[s] EXCEPT ![t] = AckedTx(t, acked, par)])
         /\ \A c \in Sites \X Nodes : \A w \in MsgsIn(req'[c]) :
              \/ w \in MsgsIn(Taken(req, <<src, s>>)[c]) \/ Calm(w)
              \/ Decides(t, acked, par) /\ w.type = "DistExe" /\ w.txn = t /\ c[1] = s
         /\ \A f \in dist_txn_tss'[s] :
              f \in floors \/ (Decides(t, acked, par) /\ f = DecisionTs(t, WithPrepared(acked, par)))
         /\ \A r \in Sites \ {s} : dist_txn_tss'[r] = dist_txn_tss[r]
<1> DEFINE y == WithPrepared(acked, par)
           q == Taken(req, <<src, s>>)
<1>1. q \in [Sites \X Nodes -> Seq(ReqMsg)] /\ s \in Nodes BY Placement, TakenRest
<1>2. CASE ~Decides(t, acked, par)
 <2>1. /\ Handler(s, ready_txns[s], [tx[s] EXCEPT ![t] = y]) /\ req' = q
       /\ dist_txn_tss'[s] \subseteq floors
       /\ \A r \in Sites \ {s} : dist_txn_tss'[r] = dist_txn_tss[r] BY <1>2, NoDecisionShape
 <2>2. AckedReady(s, t, acked, par) = ready_txns[s] /\ AckedTx(t, acked, par) = y BY <1>2 DEF AckedReady, AckedTx
 <2> HIDE DEF y, q
 <2>3. Handler(s, AckedReady(s, t, acked, par), [tx[s] EXCEPT ![t] = AckedTx(t, acked, par)]) BY <2>1, <2>2
 <2> QED BY <2>1, <2>3 DEF q
<1>3. CASE Decides(t, acked, par)
 <2>1. /\ Handler(s, PutReady(ready_txns[s], DecisionTs(t, y), t), [tx[s] EXCEPT ![t] = Decided(t, y)])
       /\ \E out, more : /\ DecisionOut(out, s, t) /\ CalmOut(more)
                         /\ req' = Send(q, s, Then(out, more))
       /\ dist_txn_tss'[s] \subseteq floors \cup {DecisionTs(t, y)}
       /\ \A r \in Sites \ {s} : dist_txn_tss'[r] = dist_txn_tss[r] BY <1>3, DecisionShape
 <2>2. AckedReady(s, t, acked, par) = PutReady(ready_txns[s], DecisionTs(t, y), t)
       /\ AckedTx(t, acked, par) = Decided(t, y) BY <1>3 DEF AckedReady, AckedTx
 <2> HIDE DEF y, q
 <2>3. Handler(s, AckedReady(s, t, acked, par), [tx[s] EXCEPT ![t] = AckedTx(t, acked, par)]) BY <2>1, <2>2
 <2>4. PICK out, more : /\ DecisionOut(out, s, t) /\ CalmOut(more)
                        /\ req' = Send(q, s, Then(out, more)) BY <2>1
 <2>5. ASSUME NEW c \in Sites \X Nodes, NEW w \in MsgsIn(req'[c]), w \notin MsgsIn(q[c])
       PROVE Calm(w) \/ (w.type = "DistExe" /\ w.txn = t /\ c[1] = s)
  <3>1. /\ out \in [Nodes -> Seq(ReqMsg)] /\ more \in [Nodes -> Seq(ReqMsg)] /\ c[2] \in Nodes
    BY <2>4 DEF DecisionOut, CalmOut
  <3>2. Then(out, more) \in [Nodes -> Seq(ReqMsg)] BY <3>1 DEF Then
  <3>3. c[1] = s /\ w \in MsgsIn(Then(out, more)[c[2]])
   <4>1. w \in MsgsIn(Send(q, s, Then(out, more))[c]) BY <2>4, <2>5
   <4> DEFINE o == Then(out, more)
   <4>2. o \in [Nodes -> Seq(ReqMsg)] /\ w \in MsgsIn(Send(q, s, o)[c]) BY <3>2, <4>1
   <4> HIDE DEF o
   <4>3. w \in MsgsIn(q[c]) \/ (c[1] = Proc(s) /\ w \in MsgsIn(o[c[2]])) BY <1>1, <4>2, SendMsgs
   <4> QED BY <2>5, <4>3, ProcOfSite DEF o
  <3>4. w \in MsgsIn(out[c[2]]) \/ w \in MsgsIn(more[c[2]])
   <4>1. Then(out, more)[c[2]] = out[c[2]] \o more[c[2]] BY <3>1 DEF Then
   <4>2. out[c[2]] \in Seq(ReqMsg) /\ more[c[2]] \in Seq(ReqMsg) BY <3>1
   <4> QED BY <3>3, <4>1, <4>2, ConcatMsgs
  <3>5. CASE w \in MsgsIn(more[c[2]]) BY <2>4, <3>1, <3>5 DEF CalmOut
  <3>6. CASE w \in MsgsIn(out[c[2]])
   <4>1. MsgsIn(<<>>) = {} /\ \A v : MsgsIn(<<v>>) = {v} BY OutMsgs
   <4>2. \/ out[c[2]] = <<>>
         \/ \E v : /\ out[c[2]] = <<v>>
                   /\ v.type = "NotiWait" \/ (v.type = "DistExe" /\ v.txn = t) BY <2>4, <3>1 DEF DecisionOut
   <4>3. out[c[2]] # <<>> BY <3>6, <4>1
   <4>4. PICK v : /\ out[c[2]] = <<v>>
                  /\ v.type = "NotiWait" \/ (v.type = "DistExe" /\ v.txn = t) BY <4>2, <4>3
   <4>5. w = v BY <3>6, <4>1, <4>4
   <4> QED BY <3>3, <4>4, <4>5 DEF Calm
  <3> QED BY <3>4, <3>5, <3>6
 <2>6. \A c \in Sites \X Nodes : \A w \in MsgsIn(req'[c]) :
         \/ w \in MsgsIn(q[c]) \/ Calm(w)
         \/ Decides(t, acked, par) /\ w.type = "DistExe" /\ w.txn = t /\ c[1] = s BY <1>3, <2>5
 <2>7. \A f \in dist_txn_tss'[s] :
         f \in floors \/ (Decides(t, acked, par) /\ f = DecisionTs(t, y)) BY <1>3, <2>1
 <2> QED BY <2>1, <2>3, <2>6, <2>7 DEF q, y
<1> QED BY <1>2, <1>3
-----
(* Nobody but its coordinator s has decided t, nor has anyone been told. *)
LEMMA Undecided ==
  ASSUME TypeOK, DecidedInv, NEW s \in Sites, NEW t \in Txns, tx[s][t].role = "crtCoord",
         tx[s][t].phase = DIST_REMOTE_SENT, CrtNow(t), ~IsIrt(t)
  PROVE  /\ ~Ruled(tx, t)
         /\ \A k \in Sites \ {s} : tx[k][t].owes = -1 /\ (t \in dtxns[k] => tx[k][t].role = "crtReplica")
<1>1. \A k \in Sites : tx[k][t].role = "crtCoord" => k = s BY DEF DecidedInv, OneCoordinator, Coord
<1>2. ~(tx[s][t].phase >= DIST_CAN_EXE) BY DEF DIST_REMOTE_SENT, DIST_CAN_EXE
<1>3. ~Ruled(tx, t) BY <1>1, <1>2 DEF Ruled
<1>4. ASSUME NEW k \in Sites \ {s} PROVE tx[k][t].owes = -1 /\ (t \in dtxns[k] => tx[k][t].role = "crtReplica")
 <2>1. LawfulTx(tx, submitted, dtxns, k, t) /\ CrtTx(tx, dtxns, ready_txns, k, t) BY DEF DecidedInv, CrtNow, CrtOf
 <2>2. tx[k][t].owes = -1
  <3>1. SUFFICES ASSUME tx[k][t].owes # -1 PROVE FALSE OBVIOUS
  <3>2. \E l \in Sites : tx[l][t].role = "crtCoord" /\ tx[l][t].phase >= DIST_CAN_EXE
    BY <2>1, <3>1 DEF LawfulTx, Follows, DecidedAs
  <3> QED BY <1>1, <1>2, <3>2
 <2> QED BY <1>1, <1>3, <2>1, <2>2 DEF CrtTx
<1> QED BY <1>3, <1>4

(* An acknowledgement keeps CrtAll, whether it decides or not. *)
LEMMA AckedCrt ==
  ASSUME CrtBefore, CrtAfter, KnownInv', NEW src \in Sites, NEW s \in Sites, NEW type, Receives(src, s, type),
         NEW t \in Txns, NEW acked \in TxType, NEW par \in Pars, NEW floors, NEW now,
         tx[s][t].role = "crtCoord", AckedFrom(tx[s][t], acked),
         CheckRemotePrepared(s, t, acked, par, floors, Taken(req, <<src, s>>), now), dtxns' = dtxns,
         Decides(t, acked, par) =>
           LET d == DecisionTs(t, WithPrepared(acked, par))
           IN  tx[s][t].phase = DIST_REMOTE_SENT /\ d \in AnticipatedType /\ At(d, t) \in Used,
         \A f \in floors : f \in dist_txn_tss[s] \/ (f \in AnticipatedType /\ At(f, t) \in Used),
         \A c \in Sites \X Nodes : \A w \in MsgsIn(Taken(req, <<src, s>>)[c]) :
           w.type = "PrepareCRT" /\ w.txn = t /\ c[2] = s => w.ts \notin floors /\ ParOf(s) \notin acked.mgr_acked
  PROVE CrtNext /\ FloorsSet
<1> DEFINE y == tx[s][t]
           z == AckedTx(t, acked, par)
           R == AckedReady(s, t, acked, par)
           D == Decides(t, acked, par)
           d == DecisionTs(t, WithPrepared(acked, par))
           q == Taken(req, <<src, s>>)
           X == AtCall(tx, s, [tx[s] EXCEPT ![t] = z])
           Q == AtCall(ready_txns, s, R)
<1>1. TypeOK /\ UniqueInv /\ DecidedInv /\ KnownInv /\ CrtInv /\ TypeOK' /\ DecidedInv' BY DEF CrtBefore, CrtAfter
<1>2. CrtNow(t) BY <1>1, CrtParts DEF CrtInv, CrtNow
<1>3. /\ Handler(s, R, [tx[s] EXCEPT ![t] = z])
      /\ \A c \in Sites \X Nodes : \A w \in MsgsIn(req'[c]) :
           \/ w \in MsgsIn(q[c]) \/ Calm(w)
           \/ D /\ w.type = "DistExe" /\ w.txn = t /\ c[1] = s
      /\ \A f \in dist_txn_tss'[s] : f \in floors \/ (D /\ f = d)
      /\ \A r \in Sites \ {s} : dist_txn_tss'[r] = dist_txn_tss[r] BY <1>1, AckedShape
<1>4. /\ z.role = acked.role /\ z.owes = acked.owes /\ z.acks = acked.acks
      /\ z.mgr_acked = acked.mgr_acked
      /\ ~D => z.ts = acked.ts /\ z.phase = acked.phase
      /\ D => z.ts = d /\ z.phase = DIST_CAN_EXE /\ AllPrepared(t, z)
      /\ \A p \in Pars : z.status[p] = acked.status[p]
                         \/ (z.status[p] = P_REMOTE_PREPARED /\ p \in acked.mgr_acked) BY AckedRecord
<1>5. /\ X[s][t] = z /\ Q[s] = R
      /\ \A k \in Sites \ {s} : X[k][t] = tx[k][t] /\ Q[k] = ready_txns[k] BY <1>1 DEF AtCall, TypeOK
<1>6. /\ Coordinates(y, t, submitted, dtxns[s]) /\ ParOf(s) \in Touched(t) /\ Touched(t) \subseteq Pars
      /\ \A k \in Sites : Coord(tx, k, t) => k = s
 <2>1. Coordinates(y, t, submitted, dtxns[s]) BY <1>1 DEF DecidedInv, LawfulTx
 <2>2. ParOf(s) \in Touched(t) BY <1>1, <2>1 DEF Coordinates, KnownInv, KnownAt
 <2> QED BY <1>1, <2>1, <2>2, Workload DEF DecidedInv, OneCoordinator, Coord
<1>7. /\ acked.role = y.role /\ acked.phase = y.phase /\ acked.status = y.status /\ acked.owes = y.owes
      /\ y.mgr_acked \subseteq acked.mgr_acked
      /\ \A p \in acked.mgr_acked : AcksOf(acked, p) # {}
      /\ acked.ts = y.ts \/ y.phase = DIST_REMOTE_SENT BY DEF AckedFrom
<1>8. D => y.phase = DIST_REMOTE_SENT /\ d \in AnticipatedType /\ At(d, t) \in Used OBVIOUS
<1>9. R = IF D THEN PutReady(ready_txns[s], d, t) ELSE ready_txns[s] BY DEF AckedReady
<1>10. \A c \in Sites \X Nodes : MsgsIn(q[c]) \subseteq MsgsIn(req[c]) BY <1>1, ReceivesMsgs, Placement
<1>11. \A c \in Sites \X Nodes : \A w \in MsgsIn(q[c]) :
         w.type = "PrepareCRT" /\ w.txn = t /\ c[2] = s => w.ts \notin floors /\ ParOf(s) \notin acked.mgr_acked OBVIOUS
<1>12. tx[s][t] = y /\ y.role = "crtCoord" /\ ~IsIrt(t) /\ t \in dtxns[s] BY <1>6 DEF Coordinates
<1> HIDE DEF y, z, R, D, d, q
<1>13. y.phase \in {DIST_REMOTE_SENT, DIST_CAN_EXE, OUTPUT_SENT} /\ (y.phase >= DIST_CAN_EXE => AllPrepared(t, y))
  BY <1>6 DEF Coordinates
<1>14. HeardLeaders(z, t)
 <2>1. HeardLeaders(y, t) BY <1>2, <1>12 DEF CrtNow, CrtOf, CrtTx
 <2>2. \A p \in z.mgr_acked : AcksOf(z, p) # {} BY <1>4, <1>7 DEF AcksOf
 <2>3. ASSUME NEW p \in Touched(t), z.status[p] >= P_REMOTE_PREPARED PROVE p \in z.mgr_acked
  <3>1. CASE z.status[p] = acked.status[p] BY <1>4, <1>7, <2>1, <2>3, <3>1 DEF HeardLeaders
  <3> QED BY <1>4, <1>6, <2>3, <3>1
 <2> QED BY <2>2, <2>3 DEF HeardLeaders
<1>15. FloorsFrom(s, t) BY <1>3, <1>8 DEF FloorsFrom
<1>16. \A e \in R : e.id = t => CrtEntry(z, e)
 <2>1. \A e \in ready_txns[s] : e.id = t => e.ts = y.ts /\ y.phase >= DIST_CAN_EXE
   BY <1>2, <1>12 DEF CrtNow, CrtOf, CrtEntry
 <2>2. ASSUME NEW e \in R, e.id = t PROVE CrtEntry(z, e)
  <3>1. CASE D
   <4>1. e \in ready_txns[s] \/ e.ts = d BY <1>9, <2>2, <3>1 DEF PutReady
   <4>2. e.ts = d BY <1>8, <2>1, <2>2, <3>1, <4>1 DEF DIST_REMOTE_SENT, DIST_CAN_EXE
   <4> QED BY <1>4, <1>7, <1>12, <3>1, <4>2 DEF CrtEntry, DIST_CAN_EXE
  <3>2. CASE ~D
   <4>1. e.ts = y.ts /\ y.phase >= DIST_CAN_EXE BY <1>9, <2>1, <2>2, <3>2
   <4>2. z.ts = y.ts /\ z.phase = y.phase BY <1>4, <1>7, <3>2, <4>1 DEF DIST_REMOTE_SENT, DIST_CAN_EXE
   <4> QED BY <1>4, <1>7, <1>12, <4>1, <4>2 DEF CrtEntry
  <3> QED BY <3>1, <3>2
 <2> QED BY <2>2
<1>17. y.owes = -1 /\ z.owes = -1 /\ z.role = "crtCoord"
 <2>1. CrtTx(tx, dtxns, ready_txns, s, t) BY <1>2 DEF CrtNow, CrtOf
 <2>2. y.owes = -1 BY <1>12, <2>1 DEF CrtTx
 <2> QED BY <1>4, <1>7, <1>12, <2>2
<1> HIDE DEF X, Q
<1>18. CrtTx(X, dtxns', Q, s, t) BY <1>5, <1>14, <1>17, <1>12 DEF CrtTx, Leads, Open
<1>19. ASSUME NEW c \in Sites \X Nodes, NEW w \in MsgsIn(req'[c]), w.type \in {"PrepareCRT", "DistExe"},
              w.txn = t, c[2] = s \/ w \notin MsgsIn(req[c])
       PROVE CrtReq(X, dtxns', dist_txn_tss', w, c[2])
 <2>1. ~Calm(w) BY <1>19 DEF Calm
 <2>2. CASE w \in MsgsIn(q[c])
  <3>1. c[2] = s /\ w \in MsgsIn(req[c]) BY <1>10, <1>19, <2>2
  <3>2. w.type # "DistExe"
   <4>1. SUFFICES ASSUME w.type = "DistExe" PROVE FALSE OBVIOUS
   <4>2. LawfulReq(tx, w, c[1], c[2]) BY <1>1, <3>1 DEF DecidedInv
   <4>3. c[1] # s /\ Coord(tx, c[1], t) /\ c[1] \in Sites BY <1>19, <3>1, <4>1, <4>2 DEF LawfulReq, DecidedAs, Coord
   <4> QED BY <1>6, <4>3
  <3>3. w.type = "PrepareCRT" BY <1>19, <3>2
  <3>4. w.ts \notin floors /\ ParOf(s) \notin acked.mgr_acked BY <1>11, <1>19, <2>2, <3>1, <3>3
  <3>5. ~D
   <4>1. SUFFICES ASSUME D PROVE FALSE OBVIOUS
   <4>2. z.status[ParOf(s)] >= P_REMOTE_PREPARED BY <1>4, <1>6, <4>1 DEF AllPrepared
   <4> QED BY <1>4, <1>6, <1>14, <3>4, <4>2 DEF HeardLeaders
  <3>6. CrtReq(tx, dtxns, dist_txn_tss, w, s)
   <4>1. CrtReq(tx, dtxns, dist_txn_tss, w, c[2]) BY <1>2, <1>19, <3>1 DEF CrtNow, CrtOf
   <4> QED BY <3>1, <4>1
  <3>7. y.phase = DIST_REMOTE_SENT /\ (w.leader = s => NoOutput(tx, t, ParOf(s))) BY <1>12, <1>19, <3>3, <3>6 DEF CrtReq
  <3>8. z.phase = DIST_REMOTE_SENT /\ ParOf(s) \notin z.mgr_acked /\ w.ts \notin dist_txn_tss'[s]
    BY <1>3, <1>4, <1>7, <3>4, <3>5, <3>7
  <3>9. NoOutput(tx, t, ParOf(s)) => NoOutput(X, t, ParOf(s))
   <4>1. SUFFICES ASSUME NoOutput(tx, t, ParOf(s)), NEW k \in Sites, X[k][t].role = "crtCoord",
                         X[k][t].status[ParOf(s)] = P_OUTPUT_RECEIVED
                  PROVE FALSE BY DEF NoOutput
   <4>2. CASE k # s BY <1>5, <4>1, <4>2 DEF NoOutput
   <4>3. CASE k = s
    <5>1. z.status[ParOf(s)] = P_OUTPUT_RECEIVED BY <1>5, <4>1, <4>3
    <5>2. acked.status[ParOf(s)] = P_OUTPUT_RECEIVED BY <1>4, <1>6, <5>1 DEF P_OUTPUT_RECEIVED, P_REMOTE_PREPARED
    <5> QED BY <1>7, <1>12, <4>1, <5>2 DEF NoOutput
   <4> QED BY <4>2, <4>3
  <3> QED BY <1>5, <1>17, <1>19, <3>1, <3>3, <3>7, <3>8, <3>9 DEF CrtReq
 <2>3. CASE w \notin MsgsIn(q[c])
  <3>1. D /\ w.type = "DistExe" /\ c[1] = s BY <1>3, <1>19, <2>1, <2>3
  <3>2. c[2] # s
   <4>1. LawfulReq(tx', w, c[1], c[2]) BY <1>1, <1>19 DEF DecidedInv
   <4> QED BY <3>1, <4>1 DEF LawfulReq
  <3>3. c[2] \in Sites BY <1>19, <3>1 DEF KnownInv, KnownReq
  <3>4. \A k \in Sites \ {s} : tx[k][t].owes = -1 /\ (t \in dtxns[k] => tx[k][t].role = "crtReplica")
    BY <1>1, <1>2, <1>8, <1>12, <3>1, Undecided
  <3> QED BY <1>5, <1>19, <3>1, <3>2, <3>3, <3>4 DEF CrtReq
 <2> QED BY <2>2, <2>3
<1>20. ASSUME NEW b \in Sites, NEW w \in MsgsIn(rep[<<s, b>>]), w.type = "DistExeRes", w.txn = t PROVE FALSE
 <2>1. CrtRep(tx, ready_txns, w, <<s, b>>[1]) BY <1>2, <1>20 DEF CrtNow, CrtOf
 <2> QED BY <1>12, <1>20, <2>1 DEF CrtRep, Leads
<1>21. y.phase >= DIST_CAN_EXE => z.phase >= DIST_CAN_EXE BY <1>4, <1>7, <1>13 DEF DIST_CAN_EXE
<1>22. \A p \in Pars : z.status[p] = P_OUTPUT_RECEIVED => y.status[p] = P_OUTPUT_RECEIVED
  BY <1>4, <1>7 DEF P_OUTPUT_RECEIVED, P_REMOTE_PREPARED
<1>23. TouchedAt(s, R, z, t) BY <1>12, <1>16, <1>17, <1>18, <1>19, <1>20, <1>21, <1>22 DEF TouchedAt, X, Q
<1>24. RunsAsCoord(t, z) => AllPrepared(t, z)
 <2>1. CASE D BY <1>4, <2>1
 <2>2. ASSUME ~D, RunsAsCoord(t, z) PROVE AllPrepared(t, z)
  <3>1. AllPrepared(t, y) BY <1>4, <1>7, <1>13, <2>2 DEF RunsAsCoord, PHASE_CAN_EXE, LOCAL_CAN_EXE, DIST_REMOTE_SENT,
      DIST_CAN_EXE, OUTPUT_SENT
  <3> QED BY <1>4, <1>6, <1>7, <3>1 DEF AllPrepared, P_REMOTE_PREPARED
 <2> QED BY <2>1, <2>2
<1>25. \A e \in R : e.id # t => e \in ready_txns[s] BY <1>9 DEF PutReady
<1>26. \A c \in Sites \X Nodes : \A w \in NewReqs(c) : Calm(w) \/ w.txn = t BY <1>3, <1>10 DEF NewReqs
<1> QED BY <1>3, <1>15, <1>23, <1>24, <1>25, <1>26, CrtTouches
-----
(* The decision that an acknowledgement allows has been handed out for t. *)
LEMMA AckDecides ==
  ASSUME UniqueInv, NEW t \in Txns, NEW y \in TxType, AntIn(y, t, Used), NEW a \in Sites,
         ParOf(a) \in Touched(t), NEW ts \in AnticipatedType, At(ts, t) \in Used, NEW leads,
         NEW acked \in {OwnAck(y, a, ts), Ack(y, a, ts, leads)}, NEW par
  PROVE  /\ DecisionTs(t, WithPrepared(acked, par)) \in AnticipatedType
         /\ At(DecisionTs(t, WithPrepared(acked, par)), t) \in Used
<1> DEFINE z == WithPrepared(acked, par)
<1>1. acked \in TxType /\ AntIn(acked, t, Used) /\ acked.anticipated[SiteRegion(a)] = ts BY AckAntIn
<1>2. z \in TxType /\ z.anticipated = acked.anticipated
 <2>1. z \in TxType BY <1>1, DecidedRecord
 <2> QED BY <1>1, <2>1 DEF WithPrepared, TxType
<1>3. SiteRegion(a) \in TouchedRegions(t) BY DEF TouchedRegions, SiteRegion
<1>4. ts.time >= 2 BY AnticipatedHigh
<1> HIDE DEF z
<1>5. AntIn(z, t, Used) /\ z.anticipated[SiteRegion(a)].time >= 2 BY <1>1, <1>2, <1>4 DEF AntIn
<1> QED BY <1>2, <1>3, <1>5, DecisionUsed DEF z

(* Both kinds of acknowledgement are as AckedCrt wants them. *)
LEMMA AckedBoth ==
  ASSUME NEW y \in TxType, NEW t, HeardLeaders(y, t), NEW a \in Sites, NEW ts \in AnticipatedType, NEW leads
  PROVE  /\ AckedFrom(y, Ack(y, a, ts, leads)) /\ Ack(y, a, ts, leads) \in TxType
         /\ y.phase = DIST_REMOTE_SENT => AckedFrom(y, OwnAck(y, a, ts))
         /\ OwnAck(y, a, ts) \in TxType
<1> DEFINE o == OwnAck(y, a, ts)
           b == Ack(y, a, ts, leads)
<1>1. /\ o \in TxType /\ b \in TxType /\ b.ts = y.ts
      /\ o.phase = y.phase /\ b.phase = y.phase /\ o.role = y.role /\ b.role = y.role
      /\ o.owes = y.owes /\ b.owes = y.owes /\ o.status = y.status /\ b.status = y.status
      /\ o.acks = y.acks \cup {a} /\ b.acks = y.acks \cup {a}
      /\ o.mgr_acked = y.mgr_acked \cup {ParOf(a)}
      /\ b.mgr_acked = IF leads THEN y.mgr_acked \cup {ParOf(a)} ELSE y.mgr_acked
 <2>1. o \in TxType /\ b \in TxType BY AckSame
 <2> QED BY <2>1 DEF OwnAck, Ack, TxType
<1> HIDE DEF o, b
<1>2. \A par \in y.mgr_acked : AcksOf(y, par) # {} BY DEF HeardLeaders
<1>3. /\ \A par \in o.mgr_acked : AcksOf(o, par) # {}
      /\ \A par \in b.mgr_acked : AcksOf(b, par) # {} BY <1>1, <1>2 DEF AcksOf
<1>4. AckedFrom(y, b) /\ (y.phase = DIST_REMOTE_SENT => AckedFrom(y, o)) BY <1>1, <1>3 DEF AckedFrom
<1> QED BY <1>1, <1>4 DEF o, b

(* The coordinator's acknowledgement of itself. *)
LEMMA OwnAckCrt ==
  ASSUME CrtBefore, CrtAfter, KnownInv', NEW src \in Sites, NEW s \in Sites, NEW now \in PhysTimes,
         Receives(src, s, "PrepareCRT"), NEW t \in Txns, NEW m, m = ReqAt(src, s), t = m.txn, t \in dtxns[s],
         tx[s][t].phase = DIST_REMOTE_SENT, dtxns' = dtxns,
         CheckRemotePrepared(s, t, OwnAck(tx[s][t], s, m.ts), ParOf(s), dist_txn_tss[s] \cup {m.ts},
                             Taken(req, <<src, s>>), now)
  PROVE CrtNext /\ FloorsSet
<1> DEFINE y == tx[s][t]
           acked == OwnAck(y, s, m.ts)
           floors == dist_txn_tss[s] \cup {m.ts}
           d == DecisionTs(t, WithPrepared(acked, ParOf(s)))
<1>1. TypeOK /\ UniqueInv /\ DecidedInv /\ KnownInv /\ CrtInv /\ TidyInv /\ TypeOK' /\ DecidedInv'
  BY DEF CrtBefore, CrtAfter
<1>2. CrtNow(t) BY <1>1, CrtParts DEF CrtInv, CrtNow
<1>3. m.type = "PrepareCRT" /\ m \in MsgsIn(req[<<src, s>>]) /\ s \in Nodes
  BY <1>1, ReceivesMsgs, Placement DEF Receives, ReqAt
<1>4. y \in TxType /\ y.role = "crtCoord"
 <2>1. LawfulTx(tx, submitted, dtxns, s, t) BY <1>1 DEF DecidedInv
 <2> QED BY <1>1, <2>1 DEF TypeOK, LawfulTx, Follows
<1>5. HeardLeaders(y, t) BY <1>2, <1>4 DEF CrtNow, CrtOf, CrtTx
<1>6. m.ts \in AnticipatedType /\ At(m.ts, t) \in Used
 <2>1. <<src, s>> \in Sites \X Nodes BY <1>3
 <2> QED BY <1>1, <1>3, <2>1, ReqPair
<1>7. ParOf(s) \in Touched(t) /\ ParOf(s) \in Pars BY <1>1, Placement DEF KnownInv, KnownAt
<1>8. acked \in TxType /\ AckedFrom(y, acked) BY <1>4, <1>5, <1>6, AckedBoth
<1>9. d \in AnticipatedType /\ At(d, t) \in Used
 <2>1. AntIn(y, t, Used) BY <1>1, UsedPairs
 <2> HIDE DEF y
 <2> QED BY <1>1, <1>4, <1>6, <1>7, <2>1, AckDecides
<1>10. \A f \in floors : f \in dist_txn_tss[s] \/ (f \in AnticipatedType /\ At(f, t) \in Used) BY <1>6
<1>11. \A c \in Sites \X Nodes : \A w \in MsgsIn(Taken(req, <<src, s>>)[c]) :
         w.type = "PrepareCRT" /\ w.txn = t /\ c[2] = s => FALSE BY <1>1, LastPrepare
<1>12. CheckRemotePrepared(s, t, acked, ParOf(s), floors, Taken(req, <<src, s>>), now) OBVIOUS
<1> HIDE DEF acked, floors
<1> QED BY <1>4, <1>7, <1>8, <1>9, <1>10, <1>11, <1>12, AckedCrt

(* The acknowledgement of another replica. *)
LEMMA OnRemotePreparedCrt ==
  ASSUME CrtBefore, CrtAfter, KnownInv', NEW src \in Sites, NEW s \in Sites, NEW now \in PhysTimes,
         OnRemotePrepared(src, s, now)
  PROVE CrtNext /\ FloorsSet
<1> DEFINE m == ReqAt(src, s)
           t == m.txn
           y == tx[s][t]
           acked == Ack(y, src, m.ts, m.leads)
           d == DecisionTs(t, WithPrepared(acked, ParOf(src)))
<1>1. TypeOK /\ UniqueInv /\ DecidedInv /\ KnownInv /\ CrtInv /\ TidyInv /\ LeadersInv /\ TypeOK' /\ DecidedInv'
  BY DEF CrtBefore, CrtAfter
<1>3. /\ m \in MsgsIn(req[<<src, s>>]) /\ m \in ReqMsg /\ m.type = "RemotePrepared" /\ t \in Txns
      /\ Receives(src, s, "RemotePrepared")
      /\ y \in TxType /\ acked \in TxType /\ Acks(tx[s][t], acked, src, m.ts)
      /\ y.role = "crtCoord" /\ Coordinates(y, t, submitted, dtxns[s])
      /\ ParOf(src) \in Touched(t) /\ m.ts # ZeroTs /\ m.ts \in AnticipatedType
      /\ Decides(t, acked, ParOf(src)) => tx[s][t].phase = DIST_REMOTE_SENT
      /\ CheckRemotePrepared(s, t, acked, ParOf(src), dist_txn_tss[s], Taken(req, <<src, s>>), now)
      /\ dtxns' = dtxns BY <1>1, RemotePreparedFacts
<1>2. CrtNow(t) BY <1>1, <1>3, CrtParts DEF CrtInv, CrtNow
<1>4. <<src, s>> \in Sites \X Nodes BY Placement
<1>5. HeardLeaders(y, t) BY <1>2, <1>3 DEF CrtNow, CrtOf, CrtTx
<1>6. At(m.ts, t) \in Used BY <1>1, <1>3, <1>4, ReqPair
<1>7. ParOf(src) \in Pars BY Placement
<1>8. AckedFrom(y, acked) BY <1>3, <1>5, AckedBoth
<1>9. d \in AnticipatedType /\ At(d, t) \in Used
 <2>1. AntIn(y, t, Used) BY <1>1, <1>3, UsedPairs
 <2> HIDE DEF y, t, m
 <2> QED BY <1>1, <1>3, <1>6, <2>1, AckDecides
<1>10. \A f \in dist_txn_tss[s] : f \in dist_txn_tss[s] \/ (f \in AnticipatedType /\ At(f, t) \in Used) OBVIOUS
<1>11. ASSUME m.leads PROVE ParOf(src) # ParOf(s)
 <2>1. SUFFICES ASSUME ParOf(src) = ParOf(s) PROVE FALSE OBVIOUS
 <2>2. HasLeader(tx[src][t], src, ParOf(src), src)
  <3>1. HasLeader(tx[<<src, s>>[1]][t], <<src, s>>[1], ParOf(<<src, s>>[1]), <<src, s>>[1])
    BY <1>1, <1>3, <1>4, <1>11 DEF LeadersInv
  <3> HIDE DEF t
  <3> QED BY <3>1
 <2>3. Led(tx, req, t, ParOf(s), src) BY <2>1, <2>2 DEF Led
 <2>4. src = s BY <1>1, <1>3, <2>3 DEF LeadersInv
 <2> QED BY <1>3, <2>2, <2>4 DEF HasLeader
<1>12. acked.mgr_acked = IF m.leads THEN y.mgr_acked \cup {ParOf(src)} ELSE y.mgr_acked BY <1>3 DEF Ack, TxType
<1>13. \A c \in Sites \X Nodes : MsgsIn(Taken(req, <<src, s>>)[c]) \subseteq MsgsIn(req[c])
  BY <1>1, <1>3, ReceivesMsgs, Placement
<1>14. ASSUME NEW c \in Sites \X Nodes, NEW w \in MsgsIn(Taken(req, <<src, s>>)[c]),
              w.type = "PrepareCRT", w.txn = t, c[2] = s
       PROVE w.ts \notin dist_txn_tss[s] /\ ParOf(s) \notin acked.mgr_acked
 <2>1. CrtReq(tx, dtxns, dist_txn_tss, w, c[2]) BY <1>2, <1>13, <1>14 DEF CrtNow, CrtOf
 <2>2. w.ts \notin dist_txn_tss[s] /\ ParOf(s) \notin y.mgr_acked BY <1>3, <1>14, <2>1 DEF CrtReq
 <2> HIDE DEF acked, y, t, m
 <2> QED BY <1>11, <1>12, <2>2
<1> HIDE DEF acked, t
<1> QED BY <1>3, <1>7, <1>8, <1>9, <1>10, <1>14, AckedCrt
-----
(* A replica that has not heard of t stores its pieces. *)
LEMMA FreshReplicaCrt ==
  ASSUME CrtBefore, CrtAfter, NEW src \in Sites, NEW s \in Sites, Receives(src, s, "PrepareCRT"),
         NEW t \in Txns, NEW m, m = ReqAt(src, s), t = m.txn,
         t \notin dtxns[s], dtxns' = [dtxns EXCEPT ![s] = @ \cup {t}],
         Handler(s, PutReady(ready_txns[s], m.ts, t), [tx[s] EXCEPT ![t] = FreshReplica(m, s)]),
         FloorsGain(s, {m.ts}), NEW out, CalmOut(out), req' = Send(Taken(req, <<src, s>>), s, out)
  PROVE CrtNext /\ FloorsSet
<1> DEFINE z == FreshReplica(m, s)
           R == PutReady(ready_txns[s], m.ts, t)
           q == Taken(req, <<src, s>>)
           X == AtCall(tx, s, [tx[s] EXCEPT ![t] = z])
           Q == AtCall(ready_txns, s, R)
<1>1. TypeOK /\ UniqueInv /\ DecidedInv /\ CrtInv /\ TidyInv BY DEF CrtBefore
<1>2. CrtNow(t) BY <1>1, CrtParts DEF CrtInv, CrtNow
<1>3. m.type = "PrepareCRT" /\ m \in MsgsIn(req[<<src, s>>]) /\ <<src, s>> \in Sites \X Nodes
  BY <1>1, ReceivesMsgs, Placement DEF Receives, ReqAt
<1>4. m.ts \in AnticipatedType /\ At(m.ts, t) \in Used BY <1>1, <1>3, ReqPair
<1>5. ParOf(s) \in Touched(t)
 <2>1. RightReq(m, <<src, s>>[1], <<src, s>>[2]) BY <1>1, <1>3 DEF UniqueInv, ReqsRight
 <2> QED BY <1>3, <2>1 DEF RightReq
<1>6. tx[s][t].role = "unset" /\ (m.leader = s => NoOutput(tx, t, ParOf(s)))
 <2>1. CrtReq(tx, dtxns, dist_txn_tss, m, <<src, s>>[2]) BY <1>2, <1>3 DEF CrtNow, CrtOf
 <2>2. tx[s][t].role # "crtCoord" BY <1>1 DEF DecidedInv, LawfulTx, Coordinates
 <2> QED BY <1>3, <2>1, <2>2 DEF CrtReq
<1>7. /\ z.role = "crtReplica" /\ z.region_handler = m.leader /\ z.ts = m.ts /\ z.owes = -1
      /\ z.phase = PHASE_EMPTY /\ z.pieces # z.done
 <2>1. /\ z.role = "crtReplica" /\ z.region_handler = m.leader /\ z.ts = m.ts /\ z.owes = -1
       /\ z.phase = PHASE_EMPTY /\ z.pieces = PiecesAt(t, ParOf(s)) /\ z.done = {} BY DEF FreshReplica, FreshTx
 <2>2. PiecesAt(t, ParOf(s)) # {} BY <1>5 DEF Touched, PiecesAt
 <2> QED BY <2>1, <2>2
<1>8. /\ X[s][t] = z /\ Q[s] = R
      /\ \A k \in Sites \ {s} : X[k][t] = tx[k][t] /\ Q[k] = ready_txns[k] BY <1>1 DEF AtCall, TypeOK
<1>9. \A k \in Sites, u \in Txns : k # s \/ u # t => (u \in dtxns'[k] <=> u \in dtxns[k])
 <2>1. dtxns \in [Sites -> SUBSET Txns] BY <1>1 DEF TypeOK
 <2> QED BY <2>1
<1>10. \A e \in R : e.id = t => CrtEntry(z, e)
 <2>0. ~IsIrt(t)
  <3>1. LawfulReq(tx, m, <<src, s>>[1], <<src, s>>[2]) BY <1>1, <1>3 DEF DecidedInv
  <3>2. Coord(tx, m.coord, t) BY <1>3, <3>1 DEF LawfulReq
  <3> QED BY <1>1, <3>2 DEF DecidedInv, LawfulTx, Coordinates, Coord
 <2>1. \A e \in ready_txns[s] : e.id # t BY <1>2, <1>6, <2>0 DEF CrtNow, CrtOf, CrtEntry
 <2>2. ASSUME NEW e \in R, e.id = t PROVE e.ts = m.ts BY <2>1, <2>2 DEF PutReady
 <2> HIDE DEF R, z
 <2> QED BY <1>7, <2>2 DEF CrtEntry
<1>11. \A e \in R : e.id # t => e \in ready_txns[s] BY DEF PutReady
<1>12. \A c \in Sites \X Nodes : \A w \in MsgsIn(req'[c]) : w \in MsgsIn(q[c]) \/ Calm(w)
 <2>1. q \in [Sites \X Nodes -> Seq(ReqMsg)] /\ out \in [Nodes -> Seq(ReqMsg)] BY <1>1, TakenRest, Placement DEF CalmOut
 <2>2. req' = Send(q, s, out) OBVIOUS
 <2> HIDE DEF q
 <2>3. ASSUME NEW c \in Sites \X Nodes, NEW w \in MsgsIn(req'[c]) PROVE w \in MsgsIn(q[c]) \/ Calm(w)
  <3>1. w \in MsgsIn(Send(q, s, out)[c]) /\ c[2] \in Nodes BY <2>2, <2>3
  <3>2. w \in MsgsIn(q[c]) \/ (c[1] = Proc(s) /\ w \in MsgsIn(out[c[2]])) BY <2>1, <3>1, SendMsgs
  <3> QED BY <3>1, <3>2 DEF CalmOut
 <2> QED BY <2>3
<1>13. \A c \in Sites \X Nodes : MsgsIn(q[c]) \subseteq MsgsIn(req[c]) BY <1>1, ReceivesMsgs, Placement
<1>14. \A c \in Sites \X Nodes : \A w \in MsgsIn(q[c]) :
         w.type = "PrepareCRT" /\ w.txn = t => c[2] # s BY <1>1, LastPrepare
<1> HIDE DEF z, R, q, X, Q
<1>15. CrtTx(X, dtxns', Q, s, t)
 <2>1. ~(z.phase >= PHASE_CAN_EXE) BY <1>7 DEF PHASE_EMPTY, PHASE_CAN_EXE, LOCAL_CAN_EXE
 <2>2. Leads(z, s) => NoOutput(X, t, ParOf(s))
  <3>1. SUFFICES ASSUME Leads(z, s), NEW k \in Sites, X[k][t].role = "crtCoord",
                        X[k][t].status[ParOf(s)] = P_OUTPUT_RECEIVED
                 PROVE FALSE BY DEF NoOutput
  <3>2. k # s BY <1>7, <1>8, <3>1
  <3>3. NoOutput(tx, t, ParOf(s)) BY <1>6, <1>7, <3>1 DEF Leads
  <3> QED BY <1>8, <3>1, <3>2, <3>3 DEF NoOutput
 <2> QED BY <1>7, <1>8, <2>1, <2>2 DEF CrtTx, Open, Leads
<1>16. ASSUME NEW c \in Sites \X Nodes, NEW w \in MsgsIn(req'[c]), w.type \in {"PrepareCRT", "DistExe"},
              w.txn = t, c[2] = s \/ w \notin MsgsIn(req[c])
       PROVE CrtReq(X, dtxns', dist_txn_tss', w, c[2])
 <2>1. w \in MsgsIn(q[c]) BY <1>12, <1>16 DEF Calm
 <2>2. c[2] = s BY <1>13, <1>16, <2>1
 <2>3. w.type = "DistExe" BY <1>14, <1>16, <2>1, <2>2
 <2> QED BY <1>7, <1>8, <1>16, <2>2, <2>3 DEF CrtReq
<1>17. ASSUME NEW b \in Sites, NEW w \in MsgsIn(rep[<<s, b>>]), w.type = "DistExeRes", w.txn = t PROVE FALSE
 <2>1. CrtRep(tx, ready_txns, w, <<s, b>>[1]) BY <1>2, <1>17 DEF CrtNow, CrtOf
 <2> QED BY <1>6, <1>17, <2>1 DEF CrtRep, Leads
<1>18. TouchedAt(s, R, z, t) BY <1>6, <1>7, <1>10, <1>15, <1>16, <1>17 DEF TouchedAt, X, Q
<1>19. FloorsFrom(s, t) /\ \A k \in Sites \ {s} : dist_txn_tss'[k] = dist_txn_tss[k] BY <1>4 DEF FloorsFrom, FloorsGain
<1>20. \A c \in Sites \X Nodes : \A w \in NewReqs(c) : Calm(w) \/ w.txn = t BY <1>12, <1>13 DEF NewReqs
<1>21. ~RunsAsCoord(t, z) BY <1>7 DEF RunsAsCoord
<1>22. Handler(s, R, [tx[s] EXCEPT ![t] = z]) BY DEF R, z
<1> QED BY <1>9, <1>11, <1>18, <1>19, <1>20, <1>21, <1>22, CrtTouches

(* One that heard DistExe first changes nothing that matters. *)
LEMMA RestatedCrt ==
  ASSUME CrtBefore, CrtAfter, NEW src \in Sites, NEW s \in Sites, Receives(src, s, "PrepareCRT"),
         NEW t \in Txns, NEW m, m = ReqAt(src, s), t = m.txn, dtxns' = dtxns,
         Handler(s, ready_txns[s], [tx[s] EXCEPT ![t] = Restated(tx[s][t], m)]),
         req' = Taken(req, <<src, s>>), dist_txn_tss' = dist_txn_tss
  PROVE CrtNext /\ FloorsSet
<1> DEFINE x == [tx[s] EXCEPT ![t] = Restated(tx[s][t], m)]
<1>1. TypeOK /\ UniqueInv /\ DecidedInv /\ CrtInv /\ TypeOK' /\ DecidedInv' /\ LeadersInv' BY DEF CrtBefore, CrtAfter
<1>2. \A u \in Txns : CrtNow(u) BY <1>1, CrtParts DEF CrtInv, CrtNow
<1>3. SameCrt(tx[s][t], Restated(tx[s][t], m))
 <2>1. tx[s][t] \in TxType BY <1>1 DEF TypeOK
 <2> QED BY <2>1 DEF SameCrt, Restated, TxType
<1>4. \A u \in Txns : SameCrt(tx[s][u], x[u]) BY <1>1, <1>3, SelfSame DEF TypeOK
<1>5. \A c \in Sites \X Nodes : MsgsIn(req'[c]) \subseteq MsgsIn(req[c]) BY <1>1, ReceivesMsgs, Placement
<1>6. Handler(s, ready_txns[s], x) OBVIOUS
<1> HIDE DEF x
<1>7. ASSUME NEW u \in Txns, ~IsIrt(u) PROVE CrtHandled(s, ready_txns[s], x, u)
 <2>1. \A c \in Sites \X Nodes : \A w \in NewReqs(c) : Calm(w) \/ w.txn # u BY <1>5 DEF NewReqs
 <2>2. FloorsSpare(u) BY <1>1, <1>2, FloorsSpared
 <2> QED BY <1>1, <1>2, <1>4, <2>1, <2>2, HandledUntouched
<1>8. FloorsSet BY DEF FloorsSet, FloorsFrom
<1> QED BY <1>1, <1>6, <1>7, <1>8, CrtHandler

(* The three ways of OnPrepareCRT keep it. *)
LEMMA OnPrepareCRTCrt ==
  ASSUME CrtBefore, CrtAfter, KnownInv', NEW src \in Sites, NEW s \in Sites, NEW now \in PhysTimes,
         OnPrepareCRT(src, s, now)
  PROVE CrtNext /\ FloorsSet
<1> DEFINE m == ReqAt(src, s)
           t == m.txn
           q == Taken(req, <<src, s>>)
<1>1. TypeOK /\ Receives(src, s, "PrepareCRT") BY DEF CrtBefore, OnPrepareCRT
<1>2. t \in Txns
 <2>1. m \in MsgsIn(req[<<src, s>>]) /\ <<src, s>> \in Sites \X Nodes /\ m.type = "PrepareCRT"
   BY <1>1, ReceivesMsgs, Placement DEF Receives, ReqAt
 <2> QED BY <1>1, <2>1, ReqPair
<1>3. \/ /\ t \in dtxns[s] /\ tx[s][t].phase = DIST_REMOTE_SENT /\ dtxns' = dtxns
         /\ CheckRemotePrepared(s, t, OwnAck(tx[s][t], s, m.ts), ParOf(s),
                                dist_txn_tss[s] \cup {m.ts}, q, now)
      \/ /\ t \in dtxns[s] /\ tx[s][t].phase # DIST_REMOTE_SENT /\ dtxns' = dtxns
         /\ Handler(s, ready_txns[s], [tx[s] EXCEPT ![t] = Restated(tx[s][t], m)])
         /\ req' = q /\ dist_txn_tss' = dist_txn_tss
      \/ /\ t \notin dtxns[s] /\ dtxns' = [dtxns EXCEPT ![s] = @ \cup {t}]
         /\ Handler(s, PutReady(ready_txns[s], m.ts, t), [tx[s] EXCEPT ![t] = FreshReplica(m, s)])
         /\ FloorsGain(s, {m.ts})
         /\ \E out : CalmOut(out) /\ req' = Send(q, s, out) BY <1>1, OnPrepareCRTShape
<1> HIDE DEF t, m
<1>4. m = ReqAt(src, s) /\ t = m.txn BY DEF t, m
<1> QED BY <1>1, <1>2, <1>3, <1>4, OwnAckCrt, RestatedCrt, FreshReplicaCrt
-----
(* A site hears one DistExe of a transaction. *)
LEMMA LastDistExe ==
  ASSUME TypeOK, DecidedInv, TidyInv, NEW src \in Sites, NEW s \in Sites, Receives(src, s, "DistExe"),
         NEW c \in Sites \X Nodes, NEW w \in MsgsIn(Taken(req, <<src, s>>)[c]),
         w.type = "DistExe", w.txn = ReqAt(src, s).txn
  PROVE c[2] # s
<1> SUFFICES ASSUME c[2] = s PROVE FALSE OBVIOUS
<1> DEFINE m == ReqAt(src, s)
<1>1. <<src, s>> \in Sites \X Nodes /\ req[<<src, s>>] # <<>> /\ m.type = "DistExe" /\ s \in Nodes
  BY Placement DEF Receives, ReqAt
<1>2. m \in MsgsIn(req[<<src, s>>]) /\ w \in MsgsIn(req[c]) BY <1>1, ReceivesMsgs DEF ReqAt
<1>3. LawfulReq(tx, m, <<src, s>>[1], <<src, s>>[2]) /\ LawfulReq(tx, w, c[1], c[2]) BY <1>1, <1>2 DEF DecidedInv
<1>4. m.txn \in Txns BY <1>1, <1>2, ReqPair
<1> HIDE DEF m
<1>5. Coord(tx, src, m.txn) /\ Coord(tx, c[1], w.txn) BY <1>1, <1>3 DEF LawfulReq, DecidedAs, Coord
<1>6. c[1] = src BY <1>4, <1>5 DEF DecidedInv, OneCoordinator, m
<1>7. c = <<src, s>> BY <1>6
<1>8. ~Clash(m, w)
 <2>1. AllTidy(req) /\ req \in [Sites \X Nodes -> Seq(ReqMsg)] BY DEF TidyInv, AllTidy, TypeOK
 <2> QED BY <1>1, <1>7, <2>1, TidyTaken DEF ReqAt, m
<1> QED BY <1>1, <1>8 DEF Clash, m

(* What OnDistExe leaves in flight. *)
LEMMA OnDistExeReqs ==
  ASSUME TypeOK, NEW src \in Sites, NEW s \in Sites, OnDistExe(src, s)
  PROVE  /\ Receives(src, s, "DistExe")
         /\ \A c \in Sites \X Nodes : \A w \in MsgsIn(req'[c]) : w \in MsgsIn(Taken(req, <<src, s>>)[c]) \/ Calm(w)
<1> DEFINE q == Taken(req, <<src, s>>)
<1>1. Receives(src, s, "DistExe") BY DEF OnDistExe
<1>2. q \in [Sites \X Nodes -> Seq(ReqMsg)] BY <1>1, TakenRest, Placement
<1>3. req' = q \/ \E out : CalmOut(out) /\ req' = Send(q, s, out)
 <2> DEFINE m  == ReqAt(src, s)
            y  == tx[s][m.txn]
            R == PutReady({e \in ready_txns[s] : e.ts # y.ts}, m.ts, m.txn)
            x == [tx[s] EXCEPT ![m.txn] = Told(y, s, src, m.ts)]
 <2>1. CASE m.txn \notin dtxns[s] BY <2>1 DEF OnDistExe, ReqAt
 <2>2. CASE m.txn \in dtxns[s]
  <3>1. \E run \in SUBSET Runnable(R, x) : req' = Send(q, s, OutputMsgs(s, run, R)) BY <2>2 DEF OnDistExe, ReqAt, Told
  <3>2. R \in Entries /\ x \in [Txns -> TxType]
   <4>1. Handler(s, R, x) BY <2>2, OnDistExeShape
   <4> QED BY <4>1 DEF Handler
  <3> HIDE DEF q, R, x
  <3>3. PICK run \in SUBSET Runnable(R, x) : req' = Send(q, s, OutputMsgs(s, run, R)) BY <3>1
  <3>4. run \in SUBSET PieceIds BY <3>2, <3>3 DEF Runnable, TxType, Entries, Entry
  <3>5. CalmOut(OutputMsgs(s, run, R)) BY <3>2, <3>4, CalmOuts
  <3> QED BY <3>3, <3>5
 <2> QED BY <2>1, <2>2
<1> HIDE DEF q
<1>4. ASSUME NEW c \in Sites \X Nodes, NEW w \in MsgsIn(req'[c]) PROVE w \in MsgsIn(q[c]) \/ Calm(w)
 <2>1. CASE req' = q BY <1>4, <2>1
 <2>2. ASSUME NEW out, CalmOut(out), req' = Send(q, s, out) PROVE w \in MsgsIn(q[c]) \/ Calm(w)
  <3>1. w \in MsgsIn(Send(q, s, out)[c]) /\ c[2] \in Nodes /\ out \in [Nodes -> Seq(ReqMsg)] BY <1>4, <2>2 DEF CalmOut
  <3>2. w \in MsgsIn(q[c]) \/ (c[1] = Proc(s) /\ w \in MsgsIn(out[c[2]])) BY <1>2, <3>1, SendMsgs
  <3> QED BY <2>2, <3>1, <3>2 DEF CalmOut
 <2> QED BY <1>3, <2>1, <2>2
<1> QED BY <1>1, <1>4 DEF q
-----
(* What a DistExe finds at s. *)
LEMMA DistExeFacts ==
  ASSUME CrtBefore, NEW src \in Sites, NEW s \in Sites, OnDistExe(src, s)
  PROVE  LET m == ReqAt(src, s)
             t == m.txn
             y == tx[s][t]
         IN  /\ m \in MsgsIn(req[<<src, s>>]) /\ m.type = "DistExe" /\ t \in Txns /\ ~IsIrt(t)
             /\ m.ts \in AnticipatedType /\ At(m.ts, t) \in Used /\ Ruled(tx, t) /\ CrtNow(t)
             /\ y \in TxType /\ y.owes = -1 /\ (t \in dtxns[s] => y.role = "crtReplica")
             /\ \A c \in Sites \X Nodes : \A w \in MsgsIn(req'[c]) :
                  \/ Calm(w)
                  \/ w \in MsgsIn(req[c]) /\ ~(w.type = "DistExe" /\ w.txn = t /\ c[2] = s)
<1> DEFINE m == ReqAt(src, s)
           t == m.txn
           y == tx[s][t]
<1>1. TypeOK /\ UniqueInv /\ DecidedInv /\ TidyInv /\ CrtInv BY DEF CrtBefore
<1>2. /\ Receives(src, s, "DistExe")
      /\ \A c \in Sites \X Nodes : \A w \in MsgsIn(req'[c]) : w \in MsgsIn(Taken(req, <<src, s>>)[c]) \/ Calm(w)
  BY <1>1, OnDistExeReqs
<1>3. m.type = "DistExe" /\ m \in MsgsIn(req[<<src, s>>]) /\ <<src, s>> \in Sites \X Nodes
  BY <1>1, <1>2, ReceivesMsgs, Placement DEF Receives, ReqAt
<1>4. m.ts \in AnticipatedType /\ t \in Txns /\ At(m.ts, t) \in Used BY <1>1, <1>3, ReqPair
<1>5. CrtNow(t) BY <1>1, <1>4, CrtParts DEF CrtInv, CrtNow
<1>6. DecidedAs(tx, src, t, m.ts)
 <2>1. LawfulReq(tx, m, <<src, s>>[1], <<src, s>>[2]) BY <1>1, <1>3 DEF DecidedInv
 <2> QED BY <1>3, <2>1 DEF LawfulReq
<1>7. Ruled(tx, t) /\ ~IsIrt(t)
 <2>1. LawfulTx(tx, submitted, dtxns, src, t) BY <1>1, <1>4 DEF DecidedInv
 <2> QED BY <1>6, <2>1 DEF Ruled, DecidedAs, LawfulTx, Coordinates
<1>8. y.owes = -1 /\ (t \in dtxns[s] => y.role = "crtReplica")
 <2>1. CrtReq(tx, dtxns, dist_txn_tss, m, <<src, s>>[2]) BY <1>3, <1>5 DEF CrtNow, CrtOf
 <2> QED BY <1>3, <2>1 DEF CrtReq
<1>9. y \in TxType BY <1>1, <1>4 DEF TypeOK
<1>10. ASSUME NEW c \in Sites \X Nodes, NEW w \in MsgsIn(req'[c]), ~Calm(w)
       PROVE w \in MsgsIn(req[c]) /\ ~(w.type = "DistExe" /\ w.txn = t /\ c[2] = s)
 <2>1. w \in MsgsIn(Taken(req, <<src, s>>)[c]) BY <1>2, <1>10
 <2>2. w \in MsgsIn(req[c]) BY <1>1, <1>2, <2>1, ReceivesMsgs, Placement
 <2> QED BY <1>1, <1>2, <2>1, <2>2, LastDistExe
<1> HIDE DEF m, t, y
<1> QED BY <1>3, <1>4, <1>5, <1>7, <1>8, <1>9, <1>10 DEF m, t, y

(* A decision that arrives finds a record that has not executed. *)
LEMMA OnDistExeCrt ==
  ASSUME CrtBefore, CrtAfter, NEW src \in Sites, NEW s \in Sites, OnDistExe(src, s)
  PROVE CrtNext /\ FloorsSet
<1> DEFINE m == ReqAt(src, s)
           t == m.txn
           y == tx[s][t]
<1>1. TypeOK /\ UniqueInv /\ DecidedInv /\ CrtInv /\ TypeOK' /\ DecidedInv' /\ LeadersInv' BY DEF CrtBefore, CrtAfter
<1>2. /\ m \in MsgsIn(req[<<src, s>>]) /\ m.type = "DistExe" /\ t \in Txns /\ ~IsIrt(t)
      /\ m.ts \in AnticipatedType /\ At(m.ts, t) \in Used /\ Ruled(tx, t) /\ CrtNow(t)
      /\ y \in TxType /\ y.owes = -1 /\ (t \in dtxns[s] => y.role = "crtReplica")
      /\ \A c \in Sites \X Nodes : \A w \in MsgsIn(req'[c]) :
           \/ Calm(w)
           \/ w \in MsgsIn(req[c]) /\ ~(w.type = "DistExe" /\ w.txn = t /\ c[2] = s) BY DistExeFacts
<1>3. \A c \in Sites \X Nodes : \A w \in NewReqs(c) : Calm(w) \/ w.txn = t BY <1>2 DEF NewReqs
<1>4. \A c \in Sites \X Nodes : \A w \in MsgsIn(req'[c]) :
        w.type \in {"PrepareCRT", "DistExe"} /\ w.txn = t /\ (c[2] = s \/ w \notin MsgsIn(req[c]))
        => w.type = "PrepareCRT" /\ c[2] = s /\ w \in MsgsIn(req[c]) BY <1>2 DEF Calm
<1>5. CASE t \notin dtxns[s]
 <2>1. /\ dtxns' = [dtxns EXCEPT ![s] = @ \cup {t}] /\ dist_txn_tss' = dist_txn_tss
       /\ tx' = tx /\ ready_txns' = ready_txns /\ rep' = rep BY <1>5 DEF OnDistExe, execVars, ReqAt
 <2> HIDE DEF m, t
 <2>2. \A k \in Sites, u \in Txns : k # s \/ u # t => (u \in dtxns'[k] <=> u \in dtxns[k])
  <3>1. dtxns \in [Sites -> SUBSET Txns] BY <1>1 DEF TypeOK
  <3> QED BY <2>1, <3>1
 <2>3. /\ [tx[s] EXCEPT ![t] = y] = tx[s] /\ AtCall(tx, s, tx[s]) = tx
       /\ AtCall(ready_txns, s, ready_txns[s]) = ready_txns BY <1>1 DEF TypeOK, AtCall
 <2>4. Handler(s, ready_txns[s], [tx[s] EXCEPT ![t] = y])
  <3>1. Handler(s, ready_txns[s], tx[s])
   <4>1. ready_txns[s] \in Entries /\ tx[s] \in [Txns -> TxType] /\ OthersKept(s) BY <1>1, <2>1 DEF TypeOK, OthersKept
   <4>2. Rest(rep, rep) /\ tx'[s] = tx[s] /\ ready_txns'[s] = ready_txns[s] /\ rep' = rep BY <2>1 DEF Rest
   <4> QED BY <4>1, <4>2 DEF Handler
  <3> QED BY <2>3, <3>1
 <2>5. y.role # "crtCoord" BY <1>1, <1>2, <1>5 DEF DecidedInv, LawfulTx, Coordinates
 <2>6. CrtTx(tx, dtxns', ready_txns, s, t) BY <1>2, <2>5 DEF CrtNow, CrtOf, CrtTx
 <2>7. ASSUME NEW c \in Sites \X Nodes, NEW w \in MsgsIn(req'[c]), w.type \in {"PrepareCRT", "DistExe"},
              w.txn = t, c[2] = s \/ w \notin MsgsIn(req[c])
       PROVE CrtReq(tx, dtxns', dist_txn_tss', w, c[2])
  <3>1. w.type = "PrepareCRT" /\ w \in MsgsIn(req[c]) BY <1>4, <2>7
  <3>2. CrtReq(tx, dtxns, dist_txn_tss, w, c[2]) BY <1>2, <2>7, <3>1 DEF CrtNow, CrtOf
  <3> QED BY <2>1, <3>1, <3>2 DEF CrtReq
 <2>8. ASSUME NEW b \in Sites, NEW w \in MsgsIn(rep[<<s, b>>]), w.type = "DistExeRes", w.txn = t
       PROVE CrtRep(tx, ready_txns, w, s)
  <3>1. CrtRep(tx, ready_txns, w, <<s, b>>[1]) BY <1>2, <2>8 DEF CrtNow, CrtOf
  <3> QED BY <3>1
 <2>9. \A e \in ready_txns[s] : e.id = t => CrtEntry(y, e) BY <1>2 DEF CrtNow, CrtOf
 <2>10. TouchedAt(s, ready_txns[s], y, t) BY <2>3, <2>5, <2>6, <2>7, <2>8, <2>9 DEF TouchedAt
 <2>11. FloorsFrom(s, t) BY <2>1 DEF FloorsFrom
 <2>12. ~RunsAsCoord(t, y) BY <2>5 DEF RunsAsCoord
 <2> HIDE DEF y
 <2> QED BY <1>2, <1>3, <2>1, <2>2, <2>4, <2>10, <2>11, <2>12, CrtTouches
<1>6. CASE t \in dtxns[s]
 <2> DEFINE z == Told(y, s, src, m.ts)
            R == PutReady({e \in ready_txns[s] : e.ts # y.ts}, m.ts, t)
            X == AtCall(tx, s, [tx[s] EXCEPT ![t] = z])
            Q == AtCall(ready_txns, s, R)
 <2>1. Handler(s, R, [tx[s] EXCEPT ![t] = z]) /\ FloorsGain(s, {m.ts}) BY <1>1, <1>6, OnDistExeShape
 <2>2. dtxns' = dtxns BY <1>6 DEF OnDistExe, ReqAt
 <2>3. y.role = "crtReplica" /\ y.owes = -1 BY <1>2, <1>6
 <2>4. /\ z.role = "crtReplica" /\ z.ts = m.ts /\ z.pieces = y.pieces /\ z.done = y.done
       /\ z.region_handler = y.region_handler /\ (y.region_handler = s => z.owes = src)
  <3>1. y \in TxType /\ y.role = "crtReplica" BY <1>2, <2>3
  <3> HIDE DEF y
  <3> QED BY <3>1 DEF Told, TxType
 <2>5. /\ X[s][t] = z /\ Q[s] = R
       /\ \A k \in Sites \ {s} : X[k][t] = tx[k][t] /\ Q[k] = ready_txns[k] BY <1>1, <1>2 DEF AtCall, TypeOK
 <2> HIDE DEF z, X, Q, m
 <2>6. /\ \A e \in R : e.id = t => CrtEntry(z, e)
       /\ \A e \in R : e.id # t => e \in ready_txns[s]
  <3>1. \A e \in ready_txns[s] : e.id = t => e.ts = y.ts BY <1>2 DEF CrtNow, CrtOf, CrtEntry
  <3>2. ASSUME NEW e \in R, e.id = t PROVE e.ts = m.ts BY <3>1, <3>2 DEF PutReady
  <3>3. \A e \in R : e.id # t => e \in ready_txns[s] BY DEF PutReady
  <3> HIDE DEF R
  <3> QED BY <2>4, <3>2, <3>3 DEF CrtEntry
 <2> HIDE DEF R
 <2>7. Leads(y, s) => y.pieces # y.done /\ NoOutput(tx, t, ParOf(s)) BY <1>2, <2>3 DEF CrtNow, CrtOf, CrtTx, Open
 <2>8. NoOutput(tx, t, ParOf(s)) => NoOutput(X, t, ParOf(s))
  <3>1. SUFFICES ASSUME NoOutput(tx, t, ParOf(s)), NEW k \in Sites, X[k][t].role = "crtCoord"
                 PROVE X[k][t].status[ParOf(s)] # P_OUTPUT_RECEIVED BY DEF NoOutput
  <3>2. k # s BY <2>4, <2>5, <3>1
  <3> QED BY <2>5, <3>1, <3>2 DEF NoOutput
 <2>9. CrtTx(X, dtxns', Q, s, t)
  <3>1. Leads(z, s) => Leads(y, s) BY <2>3, <2>4 DEF Leads
  <3>2. src # -1 BY NodesFrom0, Placement
  <3>3. Leads(z, s) => z.owes # -1 BY <2>4, <3>2 DEF Leads
  <3> QED BY <2>4, <2>5, <2>7, <2>8, <3>1, <3>3 DEF CrtTx, Open
 <2>10. ASSUME NEW c \in Sites \X Nodes, NEW w \in MsgsIn(req'[c]), w.type \in {"PrepareCRT", "DistExe"},
               w.txn = t, c[2] = s \/ w \notin MsgsIn(req[c])
        PROVE FALSE
  <3>1. w.type = "PrepareCRT" /\ w \in MsgsIn(req[c]) /\ c[2] = s BY <1>4, <2>10
  <3>2. CrtReq(tx, dtxns, dist_txn_tss, w, c[2]) BY <1>2, <2>10, <3>1 DEF CrtNow, CrtOf
  <3> QED BY <2>3, <2>10, <3>1, <3>2 DEF CrtReq
 <2>11. ASSUME NEW b \in Sites, NEW w \in MsgsIn(rep[<<s, b>>]), w.type = "DistExeRes", w.txn = t PROVE FALSE
  <3>1. CrtRep(tx, ready_txns, w, <<s, b>>[1]) BY <1>2, <2>11 DEF CrtNow, CrtOf
  <3> QED BY <2>3, <2>11, <3>1 DEF CrtRep, Open
 <2>12. TouchedAt(s, R, z, t) BY <2>3, <2>4, <2>6, <2>9, <2>10, <2>11 DEF TouchedAt, X, Q
 <2>13. FloorsFrom(s, t) /\ \A k \in Sites \ {s} : dist_txn_tss'[k] = dist_txn_tss[k]
   BY <1>2, <2>1 DEF FloorsFrom, FloorsGain
 <2>14. ~RunsAsCoord(t, z) BY <2>4 DEF RunsAsCoord
 <2> HIDE DEF y, t
 <2> QED BY <1>2, <1>3, <2>1, <2>2, <2>6, <2>12, <2>13, <2>14, CrtTouches
<1> QED BY <1>5, <1>6
-----
(* A request of a client leaves the manager's clock and every floor. *)
LEMMA SubmitLeaves ==
  ASSUME Submit
  PROVE max_future_ts' = max_future_ts /\ dist_txn_tss' = dist_txn_tss
<1>1. ASSUME NEW s, NEW t, NEW now, NEW k, HandleIRT(s, t, now, k)
      PROVE max_future_ts' = max_future_ts /\ dist_txn_tss' = dist_txn_tss BY <1>1 DEF HandleIRT
<1>2. ASSUME NEW s, NEW t, NEW now, OnSubmitCRT(s, t, now)
      PROVE max_future_ts' = max_future_ts /\ dist_txn_tss' = dist_txn_tss BY <1>2 DEF OnSubmitCRT, clockVars
<1> QED BY <1>1, <1>2 DEF Submit

(* No step takes back what a manager has handed out. *)
LEMMA FuturesForward ==
  ASSUME TypeOK, TypeOK', UniqueInv, [Next]_vars
  PROVE \A k \in Managers : LessEq(max_future_ts[k], max_future_ts'[k])
<1>1. CASE max_future_ts' = max_future_ts BY <1>1 DEF LessEq
<1>2. ASSUME NEW src \in Sites, NEW mgr \in Managers, NEW now \in PhysTimes, MgrPrepareCRT(src, mgr, now)
      PROVE \A k \in Managers : LessEq(max_future_ts[k], max_future_ts'[k]) BY <1>2, MgrFutures
<1>3. CASE UNCHANGED vars BY <1>1, <1>3 DEF vars, clockVars
<1>4. CASE Submit
 <2>1. max_future_ts' = max_future_ts BY <1>4, SubmitLeaves
 <2> QED BY <1>1, <2>1
<1>5. CASE Sync
 <2>1. max_future_ts' = max_future_ts BY <1>5 DEF Sync, IRSyncLoop
 <2> QED BY <1>1, <2>1
<1>6. ASSUME NEW src \in Sites, NEW s \in Sites, NEW now \in PhysTimes,
             \/ OnPrepareIRT(src, s, now) \/ PrepareIRTACK(src, s, now) \/ OnIRSync(src, s, now)
             \/ OnPrepareCRT(src, s, now) \/ OnRemotePrepared(src, s, now)
      PROVE max_future_ts' = max_future_ts
  BY <1>6 DEF OnPrepareIRT, PrepareIRTACK, OnIRSync, OnPrepareCRT, OnRemotePrepared
<1>7. ASSUME NEW src \in Sites, NEW s \in Sites,
             \/ OnNotiCRT(src, s) \/ OnDistExe(src, s) \/ DistExeAck(src, s)
             \/ OnNotiCommit(src, s) \/ OnSendOutput(src, s)
      PROVE max_future_ts' = max_future_ts
  BY <1>7 DEF OnNotiCRT, OnDistExe, DistExeAck, OnNotiCommit, OnSendOutput, clockVars
<1>8. ASSUME NEW src \in Sites, NEW mgr \in Managers, NotiWait(src, mgr) \/ MgrFinish(mgr)
      PROVE max_future_ts' = max_future_ts BY <1>8 DEF NotiWait, MgrFinish, clockVars
<1>9. ASSUME NEW mgr \in Managers, MgrFinish(mgr) PROVE max_future_ts' = max_future_ts BY <1>9 DEF MgrFinish, clockVars
<1>10. CASE Deliver BY <1>1, <1>2, <1>6, <1>7, <1>8, <1>9, <1>10 DEF Deliver
<1> QED BY <1>3, <1>4, <1>5, <1>10 DEF Next

(* Floors that a step keeps, or sets to a timestamp in use, are handed out. *)
LEMMA FloorsStayOut ==
  ASSUME TypeOK, TypeOK', UniqueInv, [Next]_vars, FloorsOut,
         FloorsSet \/ \A r \in Sites : dist_txn_tss'[r] \subseteq dist_txn_tss[r]
  PROVE FloorsOut'
<1>1. SUFFICES ASSUME NEW r \in Sites, NEW f \in dist_txn_tss'[r]
               PROVE HandedOut(f, last_clock', max_future_ts') BY DEF FloorsOut
<1>2. f \in AnticipatedType
 <2>1. r \in Nodes /\ dist_txn_tss' \in [Nodes -> Floors] BY Placement DEF TypeOK
 <2> QED BY <1>1, <2>1 DEF Floors
<1>3. HandedOut(f, last_clock, max_future_ts)
 <2>1. CASE f \in dist_txn_tss[r] BY <2>1 DEF FloorsOut
 <2>2. CASE f \notin dist_txn_tss[r]
  <3>1. PICK s \in Sites : \E u : FloorsFrom(s, u) BY <1>1, <2>2 DEF FloorsSet
  <3>2. PICK u : FloorsFrom(s, u) BY <3>1
  <3>3. At(f, u) \in Used BY <1>1, <2>2, <3>2 DEF FloorsFrom
  <3>4. At(f, u).ts = f BY DEF At
  <3> QED BY <3>3, <3>4 DEF UniqueInv, UsedHandedOut
 <2> QED BY <2>1, <2>2
<1>4. f.stretch = 0 /\ f.site \in Managers /\ f.time >= 2 /\ LessEq(f, max_future_ts[f.site])
  BY <1>2, <1>3 DEF HandedOut, AnticipatedType
<1>5. LessEq(max_future_ts[f.site], max_future_ts'[f.site]) BY <1>4, FuturesForward
<1>6. f \in ChrTsType /\ max_future_ts[f.site] \in ChrTsType /\ max_future_ts'[f.site] \in ChrTsType
 <2>1. AnticipatedType \subseteq ChrTsType BY DEF AnticipatedType, ChrTsType
 <2>2. max_future_ts[f.site] \in AnticipatedType /\ max_future_ts'[f.site] \in AnticipatedType BY <1>4 DEF TypeOK
 <2> QED BY <1>2, <2>1, <2>2
<1>7. LessEq(f, max_future_ts'[f.site]) BY <1>4, <1>5, <1>6, LessEqOrder
<1> QED BY <1>4, <1>7 DEF HandedOut

(* No cross-region transaction is under way initially. *)
LEMMA InitCrt == Init => CrtInv
<1> SUFFICES ASSUME Init PROVE CrtInv OBVIOUS
<1>1. /\ \A c \in Sites \X Nodes : MsgsIn(req[c]) = {}
      /\ \A c \in Sites \X Sites : MsgsIn(rep[c]) = {}
 <2>1. MsgsIn(<<>>) = {} BY OutMsgs
 <2> QED BY <2>1 DEF Init
<1>2. \A s \in Sites : ready_txns[s] = {} /\ dtxns[s] = {} /\ dist_txn_tss[s] = {} BY Placement DEF Init
<1>3. \A s \in Sites, t \in Txns : tx[s][t].role = "unset" /\ tx[s][t].owes = -1 BY DEF Init, FreshTx
<1>4. AllOneAnswer(rep) BY <1>1, OneAnswerNone DEF AllOneAnswer
<1>5. ASSUME NEW s \in Sites, NEW t \in Txns PROVE CrtTx(tx, dtxns, ready_txns, s, t)
  BY <1>2, <1>3 DEF CrtTx, Leads, Open
<1> QED BY <1>1, <1>2, <1>4, <1>5 DEF CrtInv, CrtAll, FloorsOut, AllOneAnswer

(* Every step keeps it. *)
LEMMA NextCrt ==
  ASSUME CrtBefore, [Next]_vars
  PROVE CrtInv'
<1>0. /\ TypeOK /\ UniqueInv /\ DecidedInv /\ OffersInv /\ KnownInv /\ TidyInv /\ LeadersInv /\ CrtInv /\ FloorsOut
      /\ TypeOK' /\ UniqueInv' BY NextType, NextUnique DEF CrtBefore, CrtInv
<1>1. CrtAfter /\ KnownInv' BY <1>0, NextKnown, NextLeaders, NextDecided DEF CrtAfter
<1>2. CASE UNCHANGED vars
 <2>1. UNCHANGED <<tx, ready_txns, dtxns, rep, req, dist_txn_tss, last_clock, max_future_ts>>
   BY <1>2 DEF vars, tableVars, execVars, clockVars
 <2> QED BY <1>0, <2>1 DEF CrtInv, CrtAll, FloorsOut
<1>3. ASSUME CrtNext, FloorsSet \/ \A r \in Sites : dist_txn_tss'[r] \subseteq dist_txn_tss[r]
      PROVE CrtInv' BY <1>0, <1>3, FloorsStayOut DEF CrtNext, CrtInv
<1>4. CASE Submit
 <2>1. dist_txn_tss' = dist_txn_tss BY <1>4, SubmitLeaves
 <2>2. \A skips \in 0 .. Cardinality(Txns) : skips \in Nat OBVIOUS
 <2>3. CrtNext BY <1>1, <1>4, <2>2, HandleIRTCrt, OnSubmitCRTCrt DEF Submit
 <2> QED BY <1>3, <2>1, <2>3
<1>5. CASE Sync
 <2>1. dist_txn_tss' = dist_txn_tss BY <1>5 DEF Sync, IRSyncLoop
 <2>2. CrtNext BY <1>1, <1>5, ManagersCrt DEF Sync
 <2> QED BY <1>3, <2>1, <2>2
<1>6. ASSUME NEW src \in Sites, NEW s \in Sites, NEW now \in PhysTimes,
             OnPrepareIRT(src, s, now) \/ PrepareIRTACK(src, s, now) \/ OnIRSync(src, s, now)
      PROVE CrtNext /\ \A r \in Sites : dist_txn_tss'[r] \subseteq dist_txn_tss[r]
  BY <1>0, <1>1, <1>6, HearingCrt, PiggyReleases
<1>7. ASSUME NEW src \in Sites, NEW s \in Sites, OnSendOutput(src, s)
      PROVE CrtNext /\ \A r \in Sites : dist_txn_tss'[r] \subseteq dist_txn_tss[r]
 <2>1. FloorsGain(s, {}) BY <1>0, <1>7, OnSendOutputShape
 <2> QED BY <1>1, <1>7, <2>1, OnSendOutputCrt DEF FloorsGain
<1>8. ASSUME NEW src \in Sites, NEW s \in Sites, DistExeAck(src, s)
      PROVE CrtNext /\ dist_txn_tss' = dist_txn_tss BY <1>1, <1>8, DistExeAckCrt DEF DistExeAck, clockVars
<1>9. ASSUME NEW src \in Sites, NEW mgr \in Managers,
             NotiWait(src, mgr) \/ \E now \in PhysTimes : MgrPrepareCRT(src, mgr, now)
      PROVE CrtNext /\ dist_txn_tss' = dist_txn_tss
 <2>1. CrtNext BY <1>1, <1>9, ManagersCrt, MgrPrepareCRTCrt
 <2>2. dist_txn_tss' = dist_txn_tss BY <1>9 DEF NotiWait, MgrPrepareCRT
 <2> QED BY <2>1, <2>2
<1>10. ASSUME NEW mgr \in Managers, MgrFinish(mgr)
       PROVE CrtNext /\ \A r \in Sites : dist_txn_tss'[r] \subseteq dist_txn_tss[r]
 <2>1. CrtNext BY <1>1, <1>10, ManagersCrt
 <2>2. mgr \notin Sites /\ mgr \in Nodes BY Placement, ManagerFacts
 <2>3. dist_txn_tss' = [dist_txn_tss EXCEPT ![mgr] = (@ \ mgr_todo[mgr].erase) \cup mgr_todo[mgr].insert]
   BY <1>10 DEF MgrFinish
 <2>4. dist_txn_tss \in [Nodes -> Floors] BY <1>0 DEF TypeOK
 <2> QED BY <2>1, <2>2, <2>3, <2>4 DEF Nodes
<1>11. ASSUME NEW src \in Sites, NEW s \in Sites, NEW now \in PhysTimes,
              OnPrepareCRT(src, s, now) \/ OnRemotePrepared(src, s, now)
       PROVE CrtNext /\ FloorsSet BY <1>1, <1>11, OnPrepareCRTCrt, OnRemotePreparedCrt
<1>12. ASSUME NEW src \in Sites, NEW s \in Sites, OnNotiCRT(src, s) \/ OnDistExe(src, s) \/ OnNotiCommit(src, s)
       PROVE CrtNext /\ FloorsSet BY <1>1, <1>12, OnNotiCRTCrt, OnDistExeCrt, OnNotiCommitCrt
<1>13. CASE Deliver BY <1>3, <1>6, <1>7, <1>8, <1>9, <1>10, <1>11, <1>12, <1>13 DEF Deliver
<1> QED BY <1>2, <1>4, <1>5, <1>13 DEF Next
-----
(* The verify()s.  No handler meets a state in which one of them fails. *)

(* A timestamp in use for the cross-region t is in the queue of s only once s stored its
   pieces or decided, and then as the timestamp of its record. *)
LEMMA EntryOfUsed ==
  ASSUME TypeOK, UniqueInv, CrtInv, NEW s \in Sites, NEW t \in Txns, ~IsIrt(t), NEW ts, At(ts, t) \in Used,
         NEW e \in ready_txns[s], e.ts = ts
  PROVE  /\ e.id = t /\ ts = tx[s][t].ts
         /\ tx[s][t].role = "crtReplica" \/ (tx[s][t].role = "crtCoord" /\ tx[s][t].phase >= DIST_CAN_EXE)
<1>1. e \in Used BY UsedPairs
<1>2. At(ts, t).ts = ts /\ At(ts, t).id = t BY DEF At
<1>3. e.id = t BY <1>1, <1>2 DEF UniqueInv, UsedOnce
<1>4. CrtEntry(tx[s][e.id], e) BY DEF CrtInv, CrtAll
<1> QED BY <1>3, <1>4 DEF CrtEntry

(* A site creates each intra-region record once, and no timestamp that it generates is
   in its queue. *)
LEMMA HandleIRTVerifies ==
  ASSUME CrtBefore, NEW s \in Sites, NEW t \in Txns, NEW now \in PhysTimes, NEW skips \in Nat,
         HandleIRT(s, t, now, skips)
  PROVE aborted' = aborted
<1> DEFINE first == Generate(s, now, dist_txn_tss[s])
<1>1. TypeOK /\ UniqueInv /\ KnownInv BY DEF CrtBefore
<1>2. t \notin dtxns[s] BY <1>1 DEF HandleIRT, KnownInv, KnownAt
<1>3. ASSUME NEW e \in ready_txns[s], NEW k \in 0 .. skips - 1, e.ts = After(first, k) PROVE FALSE
 <2>1. dist_txn_tss[s] \in Floors /\ \A f \in dist_txn_tss[s] : f.time >= 2
   BY <1>1, Placement DEF TypeOK, UniqueInv, FloorsHigh
 <2>2. k \in Nat OBVIOUS
 <2>3. SiteStamp(After(first, k), s) /\ Less(last_clock[s], After(first, k)) BY <1>1, <2>1, <2>2, SiteGenerates
 <2> HIDE DEF first
 <2>4. PICK lc : lc[s] = After(first, k)
  <3>1. [r \in Sites |-> After(first, k)][s] = After(first, k) OBVIOUS
  <3> QED BY <3>1
 <2>5. ~HandedOut(e.ts, last_clock, max_future_ts) BY <1>1, <1>3, <2>3, <2>4, StampFresh
 <2>6. e \in Used BY <1>1, UsedPairs
 <2> QED BY <1>1, <2>5, <2>6 DEF UniqueInv, UsedHandedOut
<1>4. Verify(s, /\ t \notin dtxns[s]
                /\ \A e \in ready_txns[s], k \in 0 .. skips - 1 :
                     e.ts = After(first, k) => tx[s][e.id].phase = DIST_CAN_EXE) BY DEF HandleIRT
<1> HIDE DEF first
<1> QED BY <1>2, <1>3, <1>4 DEF Verify

(* The handlers that only check what they have a record of. *)
LEMMA RecordsVerify ==
  ASSUME CrtBefore, NEW src \in Sites, NEW s \in Sites
  PROVE  /\ OnNotiCRT(src, s) => aborted' = aborted
         /\ \A now \in PhysTimes : OnPrepareIRT(src, s, now) \/ PrepareIRTACK(src, s, now) => aborted' = aborted
         /\ \A now \in PhysTimes, t \in Txns : OnSubmitCRT(s, t, now) => aborted' = aborted
<1>1. TypeOK /\ UniqueInv /\ KnownInv /\ <<src, s>> \in Sites \X Nodes BY Placement DEF CrtBefore
<1>2. ASSUME NEW now \in PhysTimes, NEW t \in Txns, OnSubmitCRT(s, t, now) PROVE aborted' = aborted
 <2>1. t \notin submitted /\ Verify(s, t \notin distributed_txns_by_me[s]) BY <1>2 DEF OnSubmitCRT
 <2> QED BY <1>1, <2>1 DEF KnownInv, KnownAt, Verify
<1>3. ASSUME NEW now \in PhysTimes, PrepareIRTACK(src, s, now) PROVE aborted' = aborted
 <2>1. rep[<<src, s>>] # <<>> /\ RepAt(src, s).type = "PrepareIRTRes" /\ Verify(s, RepAt(src, s).txn \in dtxns[s])
   BY <1>3 DEF PrepareIRTACK, RepAt
 <2>2. rep \in [Sites \X Sites -> Seq(RepMsg)] /\ <<src, s>> \in Sites \X Sites BY <1>1 DEF TypeOK
 <2>3. RepAt(src, s) \in MsgsIn(rep[<<src, s>>]) BY <2>1, <2>2, TakenMsgs DEF RepAt
 <2>4. KnownRep(submitted, dtxns, RepAt(src, s), s) BY <1>1, <2>3, TakenKnown
 <2> QED BY <2>1, <2>4 DEF KnownRep, Verify
<1>4. ASSUME OnNotiCRT(src, s) PROVE aborted' = aborted
 <2>1. Receives(src, s, "NotiCRT") /\ Verify(s, ReqAt(src, s).txn \notin dtxns[s]) BY <1>4 DEF OnNotiCRT, ReqAt
 <2>2. ReqAt(src, s) \in MsgsIn(req[<<src, s>>]) /\ ReqAt(src, s).type = "NotiCRT"
   BY <1>1, <2>1, ReceivesMsgs, Placement DEF Receives, ReqAt
 <2>3. KnownReq(submitted, dtxns, ReqAt(src, s), src, s) BY <1>1, <2>2, TakenKnown, Placement
 <2> QED BY <1>1, <2>1, <2>2, <2>3 DEF KnownInv, KnownAt, KnownReq, Verify
<1>5. ASSUME NEW now \in PhysTimes, OnPrepareIRT(src, s, now) PROVE aborted' = aborted
 <2> DEFINE m == ReqAt(src, s)
 <2>1. Receives(src, s, "PrepareIRT") /\ Verify(s, \A e \in ready_txns[s] : e.ts = m.ts => e.id = m.txn)
   BY <1>5 DEF OnPrepareIRT, ReqAt
 <2>2. m \in MsgsIn(req[<<src, s>>]) /\ m.type = "PrepareIRT" BY <1>1, <2>1, ReceivesMsgs, Placement DEF Receives, ReqAt
 <2>3. m \in ReqMsg BY <1>1, <2>2, MsgTypes
 <2>4. At(m.ts, m.txn) \in Entry BY <2>2, <2>3, ReqFields DEF At, Entry
 <2>5. At(m.ts, m.txn) \in Used
  <3>1. Carried(m) \subseteq Used BY <1>1, <2>2, UsedPairs
  <3> QED BY <2>2, <2>4, <3>1 DEF Carried
 <2>6. ready_txns[s] \subseteq Used BY <1>1, UsedPairs
 <2>7. At(m.ts, m.txn).ts = m.ts /\ At(m.ts, m.txn).id = m.txn BY DEF At
 <2> HIDE DEF m
 <2>8. \A e \in ready_txns[s] : e.ts = m.ts => e.id = m.txn BY <1>1, <2>5, <2>6, <2>7 DEF UniqueInv, UsedOnce
 <2> QED BY <2>1, <2>8 DEF Verify
<1> QED BY <1>2, <1>3, <1>4, <1>5

(* A coordinator that may decide has not, and its decision is no entry of its queue. *)
LEMMA DecidesOnce ==
  ASSUME TypeOK, UniqueInv, DecidedInv, CrtInv, NEW s \in Sites, NEW t \in Txns, ~IsIrt(t),
         tx[s][t].role = "crtCoord", Coordinates(tx[s][t], t, submitted, dtxns[s]),
         NEW a \in Sites, ParOf(a) \in Touched(t), NEW ts \in AnticipatedType, ts # ZeroTs, At(ts, t) \in Used,
         NEW leads, NEW acked \in {OwnAck(tx[s][t], a, ts), Ack(tx[s][t], a, ts, leads)}, acked \in TxType,
         Acks(tx[s][t], acked, a, ts), acked.phase = tx[s][t].phase
  PROVE MayDecide(s, t, acked, ParOf(a))
<1> DEFINE y == tx[s][t]
           z == WithPrepared(acked, ParOf(a))
           d == DecisionTs(t, z)
<1>1. y \in TxType BY DEF TypeOK
<1>2. SUFFICES ASSUME Prepared(acked, ParOf(a))
               PROVE ~HasTs(ready_txns[s], d) /\ z.phase = DIST_REMOTE_SENT BY DEF MayDecide
<1>3. y.phase = DIST_REMOTE_SENT BY <1>1, <1>2, AcksCoordinate
<1>4. z.phase = DIST_REMOTE_SENT
 <2>1. z \in TxType BY DecidedRecord
 <2> QED BY <1>3, <2>1 DEF WithPrepared, TxType
<1>5. At(d, t) \in Used
 <2>1. AntIn(y, t, Used) BY UsedPairs
 <2> HIDE DEF y
 <2> QED BY <1>1, <2>1, AckDecides DEF y
<1>6. ASSUME NEW e \in ready_txns[s], e.ts = d PROVE FALSE
 <2> HIDE DEF d
 <2>1. y.phase >= DIST_CAN_EXE BY <1>5, <1>6, EntryOfUsed
 <2> QED BY <1>3, <2>1 DEF DIST_REMOTE_SENT, DIST_CAN_EXE
<1> QED BY <1>4, <1>6 DEF HasTs
-----
(* The timestamp that a manager proposes to s is new there, and so is the decision it
   completes. *)
LEMMA OnPrepareCRTVerifies ==
  ASSUME CrtBefore, NEW src \in Sites, NEW s \in Sites, NEW now \in PhysTimes, OnPrepareCRT(src, s, now)
  PROVE aborted' = aborted
<1> DEFINE m == ReqAt(src, s)
           t == m.txn
           y == tx[s][t]
           acked == OwnAck(y, s, m.ts)
           isNew == ~HasTs(ready_txns[s], m.ts) /\ m.ts \notin dist_txn_tss[s]
<1>1. TypeOK /\ UniqueInv /\ DecidedInv /\ OffersInv /\ KnownInv /\ CrtInv /\ <<src, s>> \in Sites \X Nodes
  BY Placement DEF CrtBefore
<1>2. Receives(src, s, "PrepareCRT") BY DEF OnPrepareCRT
<1>3. m.type = "PrepareCRT" /\ m \in MsgsIn(req[<<src, s>>]) BY <1>1, <1>2, ReceivesMsgs, Placement DEF Receives, ReqAt
<1>4. m.ts \in AnticipatedType /\ t \in Txns /\ At(m.ts, t) \in Used BY <1>1, <1>3, ReqPair
<1>5. \/ Verify(s, isNew)
      \/ t \in dtxns[s] /\ y.phase = DIST_REMOTE_SENT /\ Verify(s, isNew /\ MayDecide(s, t, acked, ParOf(s)))
  BY DEF OnPrepareCRT, ReqAt, OwnAck
<1>6. CrtReq(tx, dtxns, dist_txn_tss, m, s) /\ ~IsIrt(t)
 <2>1. CrtReq(tx, dtxns, dist_txn_tss, m, <<src, s>>[2]) BY <1>1, <1>3 DEF CrtInv, CrtAll
 <2>2. LawfulReq(tx, m, src, s) BY <1>1, <1>3, TakenLawful, Placement
 <2> QED BY <1>1, <1>3, <1>4, <2>1, <2>2 DEF LawfulReq, Coord, DecidedInv, LawfulTx, Coordinates
<1>7. isNew
 <2>1. \/ y.role = "unset"
       \/ y.role = "crtCoord" /\ y.phase = DIST_REMOTE_SENT BY <1>3, <1>6 DEF CrtReq
 <2>2. m.ts \notin dist_txn_tss[s] BY <1>3, <1>6 DEF CrtReq
 <2>3. ASSUME NEW e \in ready_txns[s], e.ts = m.ts PROVE FALSE
  <3> HIDE DEF t, m
  <3>1. y.role = "crtReplica" \/ (y.role = "crtCoord" /\ y.phase >= DIST_CAN_EXE) BY <1>1, <1>4, <1>6, <2>3, EntryOfUsed
  <3> QED BY <2>1, <3>1 DEF DIST_REMOTE_SENT, DIST_CAN_EXE
 <2> QED BY <2>2, <2>3 DEF HasTs
<1>8. ASSUME t \in dtxns[s], y.phase = DIST_REMOTE_SENT PROVE MayDecide(s, t, acked, ParOf(s))
 <2>1. y \in TxType /\ y.role = "crtCoord" /\ Coordinates(y, t, submitted, dtxns[s])
  <3>1. LawfulTx(tx, submitted, dtxns, s, t) BY <1>1, <1>4 DEF DecidedInv
  <3> QED BY <1>1, <1>4, <1>8, <3>1 DEF TypeOK, LawfulTx, Follows
 <2>2. ParOf(s) \in Touched(t) BY <1>1, <1>8 DEF KnownInv, KnownAt
 <2>3. m.ts # ZeroTs
  <3>1. m.ts.time >= 2 BY <1>1, <1>4, AnticipatedHigh
  <3> QED BY <3>1 DEF ZeroTs, ChrTsOf
 <2>4. acked \in TxType /\ Acks(y, acked, s, m.ts) BY <1>4, <1>8, <2>1, AckAdds
 <2>5. acked.phase = y.phase BY <2>1, <2>4 DEF OwnAck, TxType
 <2> HIDE DEF m, t
 <2> QED BY <1>1, <1>4, <1>6, <2>1, <2>2, <2>3, <2>4, <2>5, DecidesOnce
<1> HIDE DEF isNew
<1> QED BY <1>5, <1>7, <1>8 DEF Verify

(* An acknowledgement reaches the coordinator, and the decision it completes is new
   there. *)
LEMMA OnRemotePreparedVerifies ==
  ASSUME CrtBefore, NEW src \in Sites, NEW s \in Sites, NEW now \in PhysTimes, OnRemotePrepared(src, s, now)
  PROVE aborted' = aborted
<1> DEFINE m == ReqAt(src, s)
           t == m.txn
           y == tx[s][t]
           acked == Ack(y, src, m.ts, m.leads)
<1>1. TypeOK /\ UniqueInv /\ DecidedInv /\ CrtInv /\ <<src, s>> \in Sites \X Nodes BY Placement DEF CrtBefore
<1>2. /\ m \in MsgsIn(req[<<src, s>>]) /\ m \in ReqMsg /\ m.type = "RemotePrepared" /\ t \in Txns
      /\ Receives(src, s, "RemotePrepared")
      /\ y \in TxType /\ acked \in TxType /\ Acks(tx[s][t], acked, src, m.ts)
      /\ y.role = "crtCoord" /\ Coordinates(y, t, submitted, dtxns[s])
      /\ ParOf(src) \in Touched(t) /\ m.ts # ZeroTs /\ m.ts \in AnticipatedType
      /\ Decides(t, acked, ParOf(src)) => tx[s][t].phase = DIST_REMOTE_SENT
      /\ CheckRemotePrepared(s, t, acked, ParOf(src), dist_txn_tss[s], Taken(req, <<src, s>>), now)
      /\ dtxns' = dtxns BY <1>1, RemotePreparedFacts
<1>3. At(m.ts, t) \in Used BY <1>1, <1>2, ReqPair
<1>4. t \in dtxns[s] /\ ~IsIrt(t) BY <1>2 DEF Coordinates
<1>5. Verify(s, /\ t \in dtxns[s] /\ y.role = "crtCoord" /\ ParOf(src) \in Touched(t)
                /\ MayDecide(s, t, acked, ParOf(src)))
 <2>1. acked = [y EXCEPT !.acks = @ \cup {src}, !.anticipated[RegionOf(ParOf(src))] = m.ts,
                         !.mgr_acked = IF m.leads THEN @ \cup {ParOf(src)} ELSE @] BY DEF Ack, SiteRegion
 <2> QED BY <2>1 DEF OnRemotePrepared, ReqAt
<1>6. acked.phase = y.phase BY <1>2 DEF Ack, TxType
<1>7. MayDecide(s, t, acked, ParOf(src))
 <2> HIDE DEF m, t
 <2> QED BY <1>1, <1>2, <1>3, <1>4, <1>6, DecidesOnce
<1> HIDE DEF acked, t, m
<1> QED BY <1>2, <1>4, <1>5, <1>7 DEF Verify

(* What a replica holds under the decision is what it takes out. *)
LEMMA OnDistExeVerifies ==
  ASSUME CrtBefore, NEW src \in Sites, NEW s \in Sites, OnDistExe(src, s)
  PROVE aborted' = aborted
<1> DEFINE m == ReqAt(src, s)
           t == m.txn
           y == tx[s][t]
<1>1. TypeOK /\ UniqueInv /\ CrtInv BY DEF CrtBefore
<1>2. /\ m \in MsgsIn(req[<<src, s>>]) /\ m.type = "DistExe" /\ t \in Txns /\ ~IsIrt(t)
      /\ m.ts \in AnticipatedType /\ At(m.ts, t) \in Used /\ Ruled(tx, t) /\ CrtNow(t)
      /\ y \in TxType /\ y.owes = -1 /\ (t \in dtxns[s] => y.role = "crtReplica")
      /\ \A c \in Sites \X Nodes : \A w \in MsgsIn(req'[c]) :
           \/ Calm(w)
           \/ w \in MsgsIn(req[c]) /\ ~(w.type = "DistExe" /\ w.txn = t /\ c[2] = s) BY DistExeFacts
<1>3. Verify(s, t \in dtxns[s] => ~HasTs({e \in ready_txns[s] : e.ts # y.ts}, m.ts)) BY DEF OnDistExe, ReqAt
<1>4. ASSUME NEW e \in ready_txns[s], e.ts # y.ts, e.ts = m.ts PROVE FALSE
 <2> HIDE DEF m, t
 <2> QED BY <1>1, <1>2, <1>4, EntryOfUsed
<1>5. ~HasTs({e \in ready_txns[s] : e.ts # y.ts}, m.ts) BY <1>4 DEF HasTs
<1> HIDE DEF m, t, y
<1> QED BY <1>3, <1>5 DEF Verify

(* A coordinator hears the outputs of a partition once. *)
LEMMA DistExeAckVerifies ==
  ASSUME CrtBefore, NEW src \in Sites, NEW s \in Sites, DistExeAck(src, s)
  PROVE aborted' = aborted
<1> DEFINE m == RepAt(src, s)
           t == m.txn
<1>1. TypeOK /\ DecidedInv /\ CrtInv BY DEF CrtBefore
<1>2. /\ rep[<<src, s>>] # <<>> /\ m.type = "DistExeRes"
      /\ Verify(s, tx[s][t].status[ParOf(src)] # P_OUTPUT_RECEIVED) BY DEF DistExeAck, RepAt
<1>3. rep \in [Sites \X Sites -> Seq(RepMsg)] /\ <<src, s>> \in Sites \X Sites BY <1>1 DEF TypeOK
<1>4. m \in MsgsIn(rep[<<src, s>>]) BY <1>2, <1>3, TakenMsgs DEF RepAt
<1>5. tx[s][t].role = "crtCoord"
 <2>1. LawfulRep(tx, m, s) BY <1>1, <1>3, <1>4 DEF DecidedInv
 <2> QED BY <1>2, <2>1 DEF LawfulRep, DecidedAs
<1>6. NoOutput(tx, t, ParOf(src))
 <2>1. CrtRep(tx, ready_txns, m, <<src, s>>[1]) BY <1>1, <1>3, <1>4 DEF CrtInv, CrtAll
 <2> QED BY <1>2, <2>1 DEF CrtRep
<1> QED BY <1>2, <1>5, <1>6 DEF NoOutput, Verify

(* Every step. *)
LEMMA NextVerifies ==
  ASSUME CrtBefore, [Next]_vars
  PROVE aborted' = aborted
<1>1. CASE UNCHANGED vars BY <1>1 DEF vars
<1>2. CASE Submit
 <2>1. ASSUME NEW s \in Sites, NEW t \in Txns, NEW now \in PhysTimes, OnSubmitCRT(s, t, now)
       PROVE aborted' = aborted BY <2>1, RecordsVerify
 <2>2. \A skips \in 0 .. Cardinality(Txns) : skips \in Nat OBVIOUS
 <2> QED BY <1>2, <2>1, <2>2, HandleIRTVerifies DEF Submit
<1>3. CASE Sync BY <1>3 DEF Sync, IRSyncLoop
<1>4. ASSUME NEW src \in Sites, NEW s \in Sites,
             \/ OnNotiCRT(src, s)
             \/ \E now \in PhysTimes : OnPrepareIRT(src, s, now) \/ PrepareIRTACK(src, s, now)
      PROVE aborted' = aborted BY <1>4, RecordsVerify
<1>5. ASSUME NEW src \in Sites, NEW s \in Sites, NEW now \in PhysTimes,
             OnPrepareCRT(src, s, now) \/ OnRemotePrepared(src, s, now)
      PROVE aborted' = aborted BY <1>5, OnPrepareCRTVerifies, OnRemotePreparedVerifies
<1>6. ASSUME NEW src \in Sites, NEW s \in Sites, OnDistExe(src, s) \/ DistExeAck(src, s)
      PROVE aborted' = aborted BY <1>6, OnDistExeVerifies, DistExeAckVerifies
<1>7. ASSUME NEW src \in Sites, NEW s \in Sites, NEW now \in PhysTimes, OnIRSync(src, s, now)
      PROVE aborted' = aborted BY <1>7 DEF OnIRSync
<1>8. ASSUME NEW src \in Sites, NEW s \in Sites, OnNotiCommit(src, s) \/ OnSendOutput(src, s)
      PROVE aborted' = aborted BY <1>8 DEF OnNotiCommit, OnSendOutput
<1>9. ASSUME NEW src \in Sites, NEW mgr \in Managers,
             NotiWait(src, mgr) \/ \E now \in PhysTimes : MgrPrepareCRT(src, mgr, now)
      PROVE aborted' = aborted BY <1>9 DEF NotiWait, MgrPrepareCRT
<1>10. ASSUME NEW mgr \in Managers, MgrFinish(mgr) PROVE aborted' = aborted BY <1>10 DEF MgrFinish
<1>11. CASE Deliver BY <1>4, <1>5, <1>6, <1>7, <1>8, <1>9, <1>10, <1>11 DEF Deliver
<1> QED BY <1>1, <1>2, <1>3, <1>11 DEF Next

(* No verify() of the scheduler fails. *)
THEOREM NoVerifyFailsHolds == Spec => []NoVerifyFails
<1> DEFINE I == CrtBefore /\ NoVerifyFails
<1>1. Init => I
 <2> SUFFICES ASSUME Init PROVE I OBVIOUS
 <2>1. NoVerifyFails BY DEF Init, NoVerifyFails
 <2> QED BY <2>1, InitType, InitUnique, InitDecided, InitOffers, InitKnown, InitTidy, InitLeaders, InitCrt DEF CrtBefore
<1>2. I /\ [Next]_vars => I'
 <2> SUFFICES ASSUME I, [Next]_vars PROVE I' OBVIOUS
 <2>1. TypeOK /\ UniqueInv /\ DecidedInv /\ OffersInv /\ KnownInv /\ TidyInv /\ LeadersInv /\ CrtInv BY DEF CrtBefore
 <2>2. TypeOK' /\ UniqueInv' /\ DecidedInv' /\ OffersInv' BY <2>1, NextType, NextUnique, NextDecided, NextOffers
 <2>3. KnownInv' /\ TidyInv' /\ LeadersInv' /\ CrtInv' BY <2>1, <2>2, NextKnown, NextTidy, NextLeaders, NextCrt
 <2>4. NoVerifyFails' BY NextVerifies DEF NoVerifyFails
 <2> QED BY <2>2, <2>3, <2>4 DEF CrtBefore
<1>3. I => NoVerifyFails OBVIOUS
<1> QED BY <1>1, <1>2, <1>3, PTL DEF Spec
=====
