----- MODULE DastAwareness_proofs -----
(* HandlePiggyInfo keeps its promise: a site that has heard timestamp T from a peer
   knows every transaction of that peer up to T that touches its partition, for every
   deployment, workload and order of messages. The property is about a site and a peer;
   what makes it inductive is about the messages between them.  A message that is on its
   way from r to s names, or s knows already, everything of r up to its ts; and what it
   acknowledges in delivered, r knows.  Both stay true while the message is delayed,
   because r only adds transactions later than its clock, and its clock is not before
   any timestamp it has sent. First comes what a step of Dast leaves and what it sends:
   for every handler, the entries that a ready queue may gain, what becomes of the
   records, and the messages in flight afterwards (those that were there before, without
   the one that was handled, and those that the handler sent).  All invariants that
   relate sites and messages rest on it. *)
EXTENDS Dast_proofs

(* The messages of a connection. *)
MsgsIn(q) == {q[i] : i \in 1 .. Len(q)}

(* A connection whose caller has sent more. *)
LEMMA ConcatMsgs ==
  ASSUME NEW Msg, NEW a \in Seq(Msg), NEW b \in Seq(Msg)
  PROVE MsgsIn(a \o b) = MsgsIn(a) \cup MsgsIn(b)
<1>1. ASSUME NEW m \in MsgsIn(a \o b) PROVE m \in MsgsIn(a) \cup MsgsIn(b)
 <2>1. PICK i \in 1 .. Len(a \o b) : m = (a \o b)[i] BY <1>1 DEF MsgsIn
 <2>2. CASE i <= Len(a) BY <2>1, <2>2 DEF MsgsIn
 <2>3. CASE i > Len(a)
  <3>1. i - Len(a) \in 1 .. Len(b) /\ m = b[i - Len(a)] BY <2>1, <2>3
  <3> QED BY <3>1 DEF MsgsIn
 <2> QED BY <2>1, <2>2, <2>3
<1>2. ASSUME NEW m \in MsgsIn(a) PROVE m \in MsgsIn(a \o b)
 <2>1. PICK i \in 1 .. Len(a) : m = a[i] BY <1>2 DEF MsgsIn
 <2>2. i \in 1 .. Len(a \o b) /\ m = (a \o b)[i] BY <2>1
 <2> QED BY <2>2 DEF MsgsIn
<1>3. ASSUME NEW m \in MsgsIn(b) PROVE m \in MsgsIn(a \o b)
 <2>1. PICK i \in 1 .. Len(b) : m = b[i] BY <1>3 DEF MsgsIn
 <2>2. i + Len(a) \in 1 .. Len(a \o b) /\ m = (a \o b)[i + Len(a)] BY <2>1
 <2> QED BY <2>2 DEF MsgsIn
<1> QED BY <1>1, <1>2, <1>3

(* A message in flight after a handler has sent out was in flight before, or is one of
   out. *)
LEMMA SendMsgs ==
  ASSUME NEW Msg, NEW D \in SUBSET Nodes, NEW q \in [Sites \X D -> Seq(Msg)],
         NEW out \in [Nodes -> Seq(Msg)], NEW n, NEW c \in Sites \X D,
         NEW m \in MsgsIn(Send(q, n, out)[c])
  PROVE m \in MsgsIn(q[c]) \/ (c[1] = Proc(n) /\ m \in MsgsIn(out[c[2]]))
<1>1. c[2] \in Nodes /\ q[c] \in Seq(Msg) /\ out[c[2]] \in Seq(Msg) OBVIOUS
<1>2. Send(q, n, out)[c] = IF c[1] = Proc(n) THEN q[c] \o out[c[2]] ELSE q[c] BY DEF Send
<1> QED BY <1>1, <1>2, ConcatMsgs

(* Nothing appears where a message is taken from, and the one that is taken was there. *)
LEMMA TakenMsgs ==
  ASSUME NEW Msg, NEW D, NEW q \in [Sites \X D -> Seq(Msg)], NEW c \in Sites \X D,
         q[c] # <<>>
  PROVE  /\ Head(q[c]) \in MsgsIn(q[c])
         /\ \A d \in Sites \X D : MsgsIn(Taken(q, c)[d]) \subseteq MsgsIn(q[d])
<1>1. q[c] \in Seq(Msg) /\ Len(q[c]) \in Nat /\ Len(q[c]) > 0 OBVIOUS
<1>2. Head(q[c]) \in MsgsIn(q[c]) BY <1>1 DEF MsgsIn
<1>3. MsgsIn(Tail(q[c])) \subseteq MsgsIn(q[c])
 <2>1. ASSUME NEW m \in MsgsIn(Tail(q[c])) PROVE m \in MsgsIn(q[c])
  <3>1. PICK i \in 1 .. Len(Tail(q[c])) : m = Tail(q[c])[i] BY <2>1 DEF MsgsIn
  <3>2. i + 1 \in 1 .. Len(q[c]) /\ m = q[c][i + 1] BY <1>1, <3>1
  <3> QED BY <3>2 DEF MsgsIn
 <2> QED BY <2>1
<1>4. \A d \in Sites \X D : Taken(q, c)[d] = IF d = c THEN Tail(q[c]) ELSE q[d] BY DEF Taken
<1> QED BY <1>2, <1>3, <1>4

(* The messages of the ways to put a handler's output together. *)
LEMMA OutMsgs ==
  /\ \A d \in Nodes : MsgsIn(NoMsgs[d]) = {}
  /\ \A m : MsgsIn(<<m>>) = {m}
  /\ MsgsIn(<<>>) = {}
  /\ \A D, m : \A d \in Nodes : MsgsIn(ToAll(D, m)[d]) = IF d \in D THEN {m} ELSE {}
<1>1. MsgsIn(<<>>) = {} BY DEF MsgsIn
<1>2. ASSUME NEW m PROVE MsgsIn(<<m>>) = {m} BY DEF MsgsIn
<1>3. \A d \in Nodes : NoMsgs[d] = <<>> BY DEF NoMsgs
<1>4. ASSUME NEW D, NEW m, NEW d \in Nodes PROVE MsgsIn(ToAll(D, m)[d]) = IF d \in D THEN {m} ELSE {}
 <2>1. ToAll(D, m)[d] = IF d \in D THEN <<m>> ELSE <<>> BY DEF ToAll
 <2> QED BY <1>1, <1>2, <2>1
<1>5. \A d \in Nodes : MsgsIn(NoMsgs[d]) = {} BY <1>1, <1>3
<1> QED BY <1>1, <1>2, <1>4, <1>5

(* Two outputs, one behind the other. *)
LEMMA ThenMsgs ==
  ASSUME NEW Msg, NEW a \in [Nodes -> Seq(Msg)], NEW b \in [Nodes -> Seq(Msg)], NEW d \in Nodes,
         NEW m \in MsgsIn(Then(a, b)[d])
  PROVE m \in MsgsIn(a[d]) \/ m \in MsgsIn(b[d])
<1>1. Then(a, b)[d] = a[d] \o b[d] BY DEF Then
<1>2. MsgsIn(Then(a, b)[d]) = MsgsIn(a[d]) \cup MsgsIn(b[d]) BY <1>1, ConcatMsgs
<1> QED BY <1>2

(* CheckExecutableTxns sends variables. *)
LEMMA OutputsSent ==
  ASSUME NEW s, NEW run \in SUBSET PieceIds, NEW R \in Entries, NEW d \in Nodes
  PROVE \A m \in MsgsIn(OutputMsgs(s, run, R)[d]) : m.type = "SendOutput"
<1>1. ASSUME NEW m \in MsgsIn(OutputMsgs(s, run, R)[d]) PROVE m.type = "SendOutput"
 <2> DEFINE S == {e \in R : OutputTo(RunIn(run, e), ParOf(d)) # {}}
            q == InTsOrder(S)
            f == [i \in 1..Len(q) |-> [type |-> "SendOutput", txn |-> q[i].id,
                                       vars |-> OutputTo(RunIn(run, q[i]), ParOf(d))]]
 <2>1. S \in Entries BY EntryFacts
 <2>2. q \in [1..Cardinality(S) -> S] /\ Cardinality(S) \in Nat
  <3> HIDE DEF S
  <3> QED BY <2>1, SortedExists
 <2>3. OutputMsgs(s, run, R)[d] = IF d \in Managers \/ SitesForSamePar(s, d) THEN <<>> ELSE f BY DEF OutputMsgs
 <2> HIDE DEF S, q
 <2>4. q \in Seq(S) /\ Len(q) \in Nat BY <2>2
 <2>5. Len(f) = Len(q) /\ \A i \in 1 .. Len(q) : f[i].type = "SendOutput" BY <2>4
 <2> HIDE DEF f
 <2>6. MsgsIn(OutputMsgs(s, run, R)[d]) = {} \/ m \in MsgsIn(f) BY <1>1, <2>3, OutMsgs
 <2> QED BY <1>1, <2>5, <2>6 DEF MsgsIn
<1> QED BY <1>1

(* It answers DistExe where the entry that it ended owes an answer. *)
LEMMA RepliesSent ==
  ASSUME NEW s, NEW run \in SUBSET PieceIds, NEW R \in Entries, NEW x, NEW d \in Nodes
  PROVE  \A m \in MsgsIn(DistExeReplies(s, run, R, x)[d]) :
           /\ m.type = "DistExeRes"
           /\ \E e \in R : m.txn = e.id /\ x[e.id].owes = d /\ Ends(s, run, x, e)
<1>1. ASSUME NEW m \in MsgsIn(DistExeReplies(s, run, R, x)[d])
      PROVE  /\ m.type = "DistExeRes"
             /\ \E e \in R : m.txn = e.id /\ x[e.id].owes = d /\ Ends(s, run, x, e)
 <2> DEFINE S == {e \in R : x[e.id].owes = d /\ Ends(s, run, x, e)}
            q == InTsOrder(S)
            f == [i \in 1..Len(q) |-> [type |-> "DistExeRes", txn |-> q[i].id]]
 <2>1. S \in Entries BY EntryFacts
 <2>2. q \in [1..Cardinality(S) -> S] /\ Cardinality(S) \in Nat
  <3> HIDE DEF S
  <3> QED BY <2>1, SortedExists
 <2>3. DistExeReplies(s, run, R, x)[d] = f BY DEF DistExeReplies
 <2> HIDE DEF S, q
 <2>4. q \in Seq(S) /\ Len(q) \in Nat BY <2>2
 <2>5. /\ Len(f) = Len(q)
       /\ \A i \in 1 .. Len(q) : f[i].type = "DistExeRes" /\ f[i].txn = q[i].id /\ q[i] \in S BY <2>4
 <2> HIDE DEF f
 <2>6. PICK i \in 1 .. Len(q) : m = f[i] BY <1>1, <2>3, <2>5 DEF MsgsIn
 <2> QED BY <2>5, <2>6 DEF S
<1> QED BY <1>1

-----
(* What a run of pieces leaves of a record: everything but done, have and exe_tried; the
   coordinator's record may also note the output of its own partition and the answer to
   the client. *)
SameRecord(y, z) ==
  /\ z.ts = y.ts /\ z.role = y.role /\ z.region_handler = y.region_handler
  /\ z.pieces = y.pieces /\ z.owes = y.owes
  /\ z.acks = y.acks /\ z.mgr_acked = y.mgr_acked /\ z.anticipated = y.anticipated
  /\ y.done \subseteq z.done

SameProgress(t, y, z, par) ==
  \/ z.phase = y.phase /\ z.status = y.status
  \/ /\ y.role = "crtCoord" /\ y.phase >= PHASE_CAN_EXE /\ Finished(z)
     /\ z.status = [y.status EXCEPT ![par] = P_OUTPUT_RECEIVED]
     /\ \/ z.phase = y.phase
        \/ z.phase = OUTPUT_SENT /\ \A p \in Touched(t) : z.status[p] >= P_OUTPUT_RECEIVED

(* Running pieces of one entry. *)
LEMMA ExecutedKeeps ==
  ASSUME NEW x \in [Txns -> TxType], NEW e \in Entry, NEW run \in SUBSET PieceIds, NEW s,
         x[e.id].phase >= PHASE_CAN_EXE
  PROVE  /\ SameRecord(x[e.id], Executed(s, run, x, e))
         /\ SameProgress(e.id, x[e.id], Executed(s, run, x, e), ParOf(s))
         /\ Executed(s, run, x, e).done = x[e.id].done \cup RunIn(run, e)
<1> DEFINE y == AfterRun(x[e.id], RunIn(run, e))
           z == [y EXCEPT !.status[ParOf(s)] = P_OUTPUT_RECEIVED]
<1>1. x[e.id] \in TxType /\ RunIn(run, e) \in SUBSET PieceIds BY DEF Entry, RunIn
<1>2. y \in TxType BY <1>1, AfterRunType
<1>3. /\ SameRecord(x[e.id], y) /\ y.phase = x[e.id].phase /\ y.status = x[e.id].status
      /\ y.done = x[e.id].done \cup RunIn(run, e) BY <1>1 DEF AfterRun, SameRecord, TxType
<1>4. Executed(s, run, x, e) =
        IF y.role = "crtCoord" /\ Ends(s, run, x, e) THEN CheckSendOutputToClient(e.id, z) ELSE y BY DEF Executed
<1> HIDE DEF y
<1>5. /\ SameRecord(y, z) /\ z.phase = y.phase /\ z.done = y.done
      /\ z.status = [y.status EXCEPT ![ParOf(s)] = P_OUTPUT_RECEIVED]
      /\ z \in TxType BY <1>2, OutputReceivedType DEF TxType, SameRecord
<1> HIDE DEF z
<1> DEFINE w == CheckSendOutputToClient(e.id, z)
<1>6. /\ SameRecord(z, w) /\ w.done = z.done /\ w.status = z.status
      /\ \/ w.phase = z.phase
         \/ w.phase = OUTPUT_SENT /\ \A p \in Touched(e.id) : w.status[p] >= P_OUTPUT_RECEIVED
  BY <1>5 DEF CheckSendOutputToClient, TxType, SameRecord
<1> HIDE DEF w
<1>7. CASE y.role = "crtCoord" /\ Ends(s, run, x, e)
 <2>1. Executed(s, run, x, e) = w BY <1>4, <1>7 DEF w
 <2>2. Finished(y) BY <1>7 DEF Ends, y
 <2>3. Finished(w) BY <1>5, <1>6, <2>2 DEF Finished, SameRecord
 <2>4. SameRecord(x[e.id], w) /\ w.done = x[e.id].done \cup RunIn(run, e) BY <1>3, <1>5, <1>6 DEF SameRecord
 <2>5. SameProgress(e.id, x[e.id], w, ParOf(s)) BY <1>3, <1>5, <1>6, <1>7, <2>3 DEF SameRecord, SameProgress
 <2> QED BY <2>1, <2>4, <2>5
<1>8. CASE ~(y.role = "crtCoord" /\ Ends(s, run, x, e))
 <2>1. Executed(s, run, x, e) = y BY <1>4, <1>8
 <2> QED BY <1>3, <2>1 DEF SameProgress
<1> QED BY <1>7, <1>8

(* The clients that hear of their transactions in a step of s: those of the intra-region
   transactions that it handles and has finished, and of the cross-region ones whose
   outputs are all there. *)
Answered(s, t) ==
  /\ t \in Txns
  /\ \/ /\ tx'[s][t].role = "irtHandler" /\ Finished(tx'[s][t])
        /\ tx'[s][t].phase >= PHASE_CAN_EXE
     \/ tx'[s][t].role = "crtCoord" /\ tx'[s][t].phase = OUTPUT_SENT
OnlyAnswers(s) == \A t \in replied' : t \in replied \/ Answered(s, t)

(* CheckExecutableTxns: the queue shrinks, nothing but the progress of the records
   changes, and an entry that Ends is finished afterwards. *)
LEMMA ExecutionKeeps ==
  ASSUME NEW s \in Sites, NEW run \in SUBSET PieceIds, NEW R \in Entries,
         NEW x \in [Txns -> TxType], NEW ni, NEW floors, NEW maxTs,
         tx \in [Sites -> [Txns -> TxType]], ready_txns \in [Sites -> Entries],
         CheckExecutableTxns(s, run, R, x, ni, floors, maxTs)
  PROVE  /\ ready_txns'[s] \subseteq R
         /\ \A r \in Sites \ {s} : tx'[r] = tx[r] /\ ready_txns'[r] = ready_txns[r]
         /\ \A t \in Txns : /\ SameRecord(x[t], tx'[s][t])
                            /\ SameProgress(t, x[t], tx'[s][t], ParOf(s))
         /\ \A e \in R : Ends(s, run, x, e) => Finished(tx'[s][e.id])
         /\ OnlyAnswers(s)
<1> DEFINE tried == {e \in R : Attempted(s, run, R, x, ni, e, maxTs)}
           ended == {e \in tried : Ends(s, run, x, e)}
           txns  == [t \in Txns |-> IF \E e \in tried : e.id = t /\ x[t].role # "unset"
                                    THEN Executed(s, run, x, CHOOSE e \in tried : e.id = t)
                                    ELSE x[t]]
           mine  == {e.id : e \in {c \in ended : x[c.id].role = "crtCoord"}}
<1>1. /\ IsOutcome(s, run, R, x, ni, maxTs)
      /\ ready_txns' = [ready_txns EXCEPT ![s] =
           R \ (ended \cup {e \in tried : x[e.id].region_handler # s})]
      /\ tx' = [tx EXCEPT ![s] = txns]
      /\ replied' = replied \cup {e.id : e \in {c \in ended : x[c.id].role = "irtHandler"}}
                            \cup {t \in mine : txns[t].phase = OUTPUT_SENT} BY DEF CheckExecutableTxns
<1>2. /\ ready_txns'[s] \subseteq R /\ tx'[s] = txns
      /\ \A r \in Sites \ {s} : tx'[r] = tx[r] /\ ready_txns'[r] = ready_txns[r] BY <1>1
<1>3. R \subseteq Entry /\ tried \subseteq R BY EntryFacts
<1>4. \A e \in tried : x[e.id].phase >= PHASE_CAN_EXE BY DEF Attempted, Visited
<1>5. \A e \in R : e \notin tried => RunIn(run, e) = {} BY <1>1 DEF IsOutcome
<1> HIDE DEF tried
<1>6. ASSUME NEW t \in Txns
      PROVE  /\ SameRecord(x[t], txns[t]) /\ SameProgress(t, x[t], txns[t], ParOf(s))
             /\ \A e \in R : e.id = t /\ Ends(s, run, x, e) => Finished(txns[t])
 <2>1. CASE \E e \in tried : e.id = t /\ x[t].role # "unset"
  <3> DEFINE d == CHOOSE e \in tried : e.id = t
  <3>1. d \in tried /\ d.id = t BY <2>1
  <3>2. txns[t] = Executed(s, run, x, d) BY <2>1
  <3> HIDE DEF d, txns
  <3>3. /\ SameRecord(x[t], txns[t]) /\ SameProgress(t, x[t], txns[t], ParOf(s))
        /\ txns[t].done = x[t].done \cup RunIn(run, d)
   <4>1. d \in Entry /\ x[d.id].phase >= PHASE_CAN_EXE BY <1>3, <1>4, <3>1
   <4>2. /\ SameRecord(x[d.id], Executed(s, run, x, d))
         /\ SameProgress(d.id, x[d.id], Executed(s, run, x, d), ParOf(s))
         /\ Executed(s, run, x, d).done = x[d.id].done \cup RunIn(run, d) BY <4>1, ExecutedKeeps
   <4> QED BY <3>1, <3>2, <4>2
  <3>4. ASSUME NEW e \in R, e.id = t, Ends(s, run, x, e) PROVE Finished(txns[t])
   <4>1. RunIn(run, d) = RunIn(run, e) BY <3>1, <3>4 DEF RunIn
   <4>2. x[t] \in TxType OBVIOUS
   <4>3. x[t].role # "unset" /\ x[t].pieces = x[t].done \cup RunIn(run, e)
     BY <3>4, <4>2 DEF Ends, Finished, AfterRun, TxType
   <4> QED BY <3>3, <4>1, <4>3 DEF Finished, SameRecord
  <3> QED BY <3>3, <3>4
 <2>2. CASE ~ \E e \in tried : e.id = t /\ x[t].role # "unset"
  <3>1. txns[t] = x[t] BY <2>2
  <3>2. ASSUME NEW e \in R, e.id = t, Ends(s, run, x, e) PROVE Finished(x[t])
   <4>1. x[t] \in TxType OBVIOUS
   <4>2. x[t].role # "unset" /\ x[t].pieces = x[t].done \cup RunIn(run, e)
     BY <3>2, <4>1 DEF Ends, Finished, AfterRun, TxType
   <4>3. RunIn(run, e) = {} BY <1>5, <2>2, <3>2, <4>2
   <4> QED BY <4>2, <4>3 DEF Finished
  <3> HIDE DEF txns
  <3> QED BY <3>1, <3>2 DEF SameRecord, SameProgress
 <2> QED BY <2>1, <2>2
<1> HIDE DEF txns
<1>7. \A e \in R : e.id \in Txns BY <1>3 DEF Entry
<1>8. ASSUME NEW t \in replied', t \notin replied PROVE Answered(s, t)
 <2>1. PICK e \in ended : /\ e.id = t
                         /\ \/ x[t].role = "irtHandler"
                            \/ x[t].role = "crtCoord" /\ txns[t].phase = OUTPUT_SENT BY <1>1, <1>8
 <2>2. /\ e \in R /\ t \in Txns /\ Ends(s, run, x, e) /\ x[t].phase >= PHASE_CAN_EXE BY <1>3, <1>4, <1>7, <2>1
 <2>3. /\ SameRecord(x[t], tx'[s][t]) /\ SameProgress(t, x[t], tx'[s][t], ParOf(s))
       /\ Finished(tx'[s][t]) /\ tx'[s][t].phase = txns[t].phase BY <1>2, <1>6, <2>1, <2>2
 <2>4. CASE x[t].role = "irtHandler" BY <2>2, <2>3, <2>4 DEF Answered, SameRecord, SameProgress
 <2>5. CASE x[t].role = "crtCoord" /\ txns[t].phase = OUTPUT_SENT BY <2>2, <2>3, <2>5 DEF Answered, SameRecord
 <2> QED BY <2>1, <2>4, <2>5
<1> QED BY <1>2, <1>6, <1>7, <1>8 DEF OnlyAnswers

(* NoExecution writes what it is given. *)
LEMMA NoExecutionKeeps ==
  ASSUME NEW s \in Sites, NEW R, NEW x, NEW ni, NEW floors,
         tx \in [Sites -> [Txns -> TxType]], ready_txns \in [Sites -> Entries],
         NoExecution(s, R, x, ni, floors)
  PROVE  /\ ready_txns'[s] = R /\ tx'[s] = x
         /\ \A r \in Sites \ {s} : tx'[r] = tx[r] /\ ready_txns'[r] = ready_txns[r]
         /\ OnlyAnswers(s) BY DEF NoExecution, OnlyAnswers

(* The messages of a handler that ends in CheckExecutableTxns: variables, and answers to
   DistExe for entries that are finished. *)
LEMMA ExecutionSends ==
  ASSUME NEW s \in Sites, NEW R \in Entries, NEW x \in [Txns -> TxType], NEW ni, NEW floors, NEW maxTs,
         NEW run \in SUBSET Runnable(R, x),
         tx \in [Sites -> [Txns -> TxType]], ready_txns \in [Sites -> Entries],
         CheckExecutableTxns(s, run, R, x, ni, floors, maxTs), NEW d \in Nodes
  PROVE  /\ \A m \in MsgsIn(OutputMsgs(s, run, R)[d]) : m.type = "SendOutput"
         /\ \A m \in MsgsIn(DistExeReplies(s, run, R, x)[d]) :
              /\ m.type = "DistExeRes" /\ m.txn \in Txns
              /\ tx'[s][m.txn].owes = d /\ tx'[s][m.txn].region_handler = s
              /\ Finished(tx'[s][m.txn])
<1>1. run \in SUBSET PieceIds BY RunnableType
<1>2. /\ \A t \in Txns : SameRecord(x[t], tx'[s][t])
      /\ \A e \in R : Ends(s, run, x, e) => Finished(tx'[s][e.id]) BY <1>1, ExecutionKeeps
<1>3. \A e \in R : e.id \in Txns BY EntryFacts DEF Entry
<1>4. \A m \in MsgsIn(DistExeReplies(s, run, R, x)[d]) :
         /\ m.type = "DistExeRes"
         /\ \E e \in R : m.txn = e.id /\ x[e.id].owes = d /\ Ends(s, run, x, e) BY <1>1, RepliesSent
<1>5. ASSUME NEW m \in MsgsIn(DistExeReplies(s, run, R, x)[d])
      PROVE  /\ m.type = "DistExeRes" /\ m.txn \in Txns
             /\ tx'[s][m.txn].owes = d /\ tx'[s][m.txn].region_handler = s
             /\ Finished(tx'[s][m.txn])
 <2>1. PICK e \in R : m.txn = e.id /\ x[e.id].owes = d /\ Ends(s, run, x, e) BY <1>4, <1>5
 <2> QED BY <1>2, <1>3, <1>4, <2>1 DEF SameRecord, Ends
<1>6. \A m \in MsgsIn(OutputMsgs(s, run, R)[d]) : m.type = "SendOutput" BY <1>1, OutputsSent
<1> QED BY <1>5, <1>6
-----
(* The messages that a step puts on a connection. *)
NewReqs(c) == MsgsIn(req'[c]) \ MsgsIn(req[c])
NewReps(c) == MsgsIn(rep'[c]) \ MsgsIn(rep[c])

NoNewReqs == \A c \in Sites \X Nodes : NewReqs(c) = {}
NoNewReps == \A c \in Sites \X Sites : NewReps(c) = {}

(* The answer to DistExe that s sends once its pieces are finished. *)
IsAnswer(m, s, c) ==
  /\ m.type = "DistExeRes" /\ m.txn \in Txns /\ c[1] = s
  /\ tx'[s][m.txn].owes = c[2] /\ tx'[s][m.txn].region_handler = s
  /\ Finished(tx'[s][m.txn])

(* The message that a handler takes. *)
ReqAt(src, dst) == Head(req[<<src, dst>>])
RepAt(src, dst) == Head(rep[<<src, dst>>])

OthersKept(s) == \A r \in Sites \ {s} : tx'[r] = tx[r] /\ ready_txns'[r] = ready_txns[r]

(* A record that at most ran pieces, and one that a piggybacked or a prepared
   intra-region transaction overwrote. *)
Kept(s, t) == /\ SameRecord(tx[s][t], tx'[s][t])
              /\ SameProgress(t, tx[s][t], tx'[s][t], ParOf(s))
Retouched(y, z) ==
  /\ z.anticipated = y.anticipated /\ z.owes = y.owes
  /\ z.role \in {y.role, "irtReplica"}
  /\ z.phase \in {y.phase, LOCAL_CAN_EXE} \/ z.role = "crtCoord"

(* A manager is not a site, and its id names its region. *)
LEMMA ManagerFacts ==
  /\ \A r \in Regions : MgrOf(r) \in Managers /\ MgrRegion(MgrOf(r)) = r
  /\ \A mgr \in Managers : mgr \notin Sites /\ MgrRegion(mgr) \in Regions
<1>1. NRegions * NShards * NReplicas \in Nat BY SizesAssumption
<1>2. NRegions \in Nat BY SizesAssumption
<1> DEFINE all == NRegions * NShards * NReplicas
<1> HIDE DEF all
<1>3. \A r \in Regions : r \in Nat /\ all + r \notin Sites /\ all + r - all = r BY <1>1, <1>2 DEF all, Regions, Sites
<1> QED BY <1>1, <1>3 DEF all, Managers, MgrOf, MgrRegion

(* A site is its own process. *)
LEMMA ProcOfSite == \A s \in Sites : Proc(s) = s
  BY DEF Proc

(* What a step that sends requests puts on the connections. *)
LEMMA RequestsAfter ==
  ASSUME NEW q \in [Sites \X Nodes -> Seq(ReqMsg)], NEW out \in [Nodes -> Seq(ReqMsg)], NEW n,
         \A c \in Sites \X Nodes : MsgsIn(q[c]) \subseteq MsgsIn(req[c]),
         req' = Send(q, n, out), NEW c \in Sites \X Nodes, NEW m \in NewReqs(c)
  PROVE c[1] = Proc(n) /\ m \in MsgsIn(out[c[2]])
<1>1. m \in MsgsIn(Send(q, n, out)[c]) /\ m \notin MsgsIn(req[c]) BY DEF NewReqs
<1> QED BY <1>1, SendMsgs

(* The same for replies. *)
LEMMA RepliesAfter ==
  ASSUME NEW q \in [Sites \X Sites -> Seq(RepMsg)], NEW out \in [Nodes -> Seq(RepMsg)], NEW n,
         \A c \in Sites \X Sites : MsgsIn(q[c]) \subseteq MsgsIn(rep[c]),
         rep' = Send(q, n, out), NEW c \in Sites \X Sites, NEW m \in NewReps(c)
  PROVE c[1] = Proc(n) /\ m \in MsgsIn(out[c[2]])
<1>1. m \in MsgsIn(Send(q, n, out)[c]) /\ m \notin MsgsIn(rep[c]) BY DEF NewReps
<1>2. Sites \in SUBSET Nodes BY Placement
<1> QED BY <1>1, <1>2, SendMsgs

(* What is left of the requests when a handler has taken its message. *)
LEMMA ReceivesMsgs ==
  ASSUME TypeOK, NEW src \in Sites, NEW dst \in Nodes, NEW type, Receives(src, dst, type)
  PROVE  /\ Head(req[<<src, dst>>]) \in MsgsIn(req[<<src, dst>>])
         /\ \A c \in Sites \X Nodes : MsgsIn(Taken(req, <<src, dst>>)[c]) \subseteq MsgsIn(req[c])
<1>1. /\ req \in [Sites \X Nodes -> Seq(ReqMsg)] /\ <<src, dst>> \in Sites \X Nodes
      /\ req[<<src, dst>>] # <<>> BY DEF TypeOK, Receives
<1> QED BY <1>1, TakenMsgs

(* Requests are only taken. *)
LEMMA OnlyTaken ==
  ASSUME TypeOK, NEW src \in Sites, NEW dst \in Nodes, NEW type, Receives(src, dst, type),
         req' = Taken(req, <<src, dst>>)
  PROVE NoNewReqs BY ReceivesMsgs DEF NoNewReqs, NewReqs

(* A handler that ends in CheckExecutableTxns and sends nothing else.  q and p are what
   it has left of the requests and of the replies. *)
LEMMA ExecutionNew ==
  ASSUME TypeOK, NEW s \in Sites, NEW R \in Entries, NEW x \in [Txns -> TxType], NEW ni,
         NEW floors, NEW maxTs, NEW run \in SUBSET Runnable(R, x),
         CheckExecutableTxns(s, run, R, x, ni, floors, maxTs),
         NEW q \in [Sites \X Nodes -> Seq(ReqMsg)], NEW p \in [Sites \X Sites -> Seq(RepMsg)],
         \A c \in Sites \X Nodes : MsgsIn(q[c]) \subseteq MsgsIn(req[c]),
         \A c \in Sites \X Sites : MsgsIn(p[c]) \subseteq MsgsIn(rep[c])
  PROVE  /\ req' = Send(q, s, OutputMsgs(s, run, R)) =>
               \A c \in Sites \X Nodes : \A m \in NewReqs(c) : m.type = "SendOutput"
         /\ rep' = Send(p, s, DistExeReplies(s, run, R, x)) =>
               \A c \in Sites \X Sites : \A m \in NewReps(c) : IsAnswer(m, s, c)
<1>1. /\ run \in SUBSET PieceIds /\ tx \in [Sites -> [Txns -> TxType]]
      /\ ready_txns \in [Sites -> Entries] /\ Sites \in SUBSET Nodes BY RunnableType, Placement DEF TypeOK
<1>2. /\ OutputMsgs(s, run, R) \in [Nodes -> Seq(ReqMsg)]
      /\ DistExeReplies(s, run, R, x) \in [Nodes -> Seq(RepMsg)] BY <1>1, OutputMsgsType, DistExeRepliesType
<1>3. ASSUME req' = Send(q, s, OutputMsgs(s, run, R)),
             NEW c \in Sites \X Nodes, NEW m \in NewReqs(c)
      PROVE m.type = "SendOutput"
 <2>1. c[2] \in Nodes /\ m \in MsgsIn(OutputMsgs(s, run, R)[c[2]]) BY <1>2, <1>3, RequestsAfter
 <2> QED BY <1>1, <2>1, OutputsSent
<1>4. ASSUME rep' = Send(p, s, DistExeReplies(s, run, R, x)),
             NEW c \in Sites \X Sites, NEW m \in NewReps(c)
      PROVE IsAnswer(m, s, c)
 <2>1. c[1] = Proc(s) /\ m \in MsgsIn(DistExeReplies(s, run, R, x)[c[2]]) BY <1>2, <1>4, RepliesAfter
 <2>2. c[2] \in Nodes /\ c[1] = s BY <1>1, <2>1, ProcOfSite
 <2>3. \A d \in Nodes : \A w \in MsgsIn(DistExeReplies(s, run, R, x)[d]) :
         /\ w.type = "DistExeRes" /\ w.txn \in Txns
         /\ tx'[s][w.txn].owes = d /\ tx'[s][w.txn].region_handler = s
         /\ Finished(tx'[s][w.txn]) BY <1>1, ExecutionSends
 <2> QED BY <2>1, <2>2, <2>3 DEF IsAnswer
<1> QED BY <1>3, <1>4

(* A handler that ends in CheckExecutableTxns and sends out before. *)
LEMMA OutputsBehind ==
  ASSUME NEW s \in Sites, NEW R \in Entries, NEW run \in SUBSET PieceIds,
         NEW out \in [Nodes -> Seq(ReqMsg)]
  PROVE  /\ Then(out, OutputMsgs(s, run, R)) \in [Nodes -> Seq(ReqMsg)]
         /\ \A d \in Nodes : \A m \in MsgsIn(Then(out, OutputMsgs(s, run, R))[d]) :
              m.type = "SendOutput" \/ m \in MsgsIn(out[d])
<1>1. OutputMsgs(s, run, R) \in [Nodes -> Seq(ReqMsg)] BY OutputMsgsType
<1>2. Then(out, OutputMsgs(s, run, R)) \in [Nodes -> Seq(ReqMsg)] BY <1>1, OutType
<1>3. ASSUME NEW d \in Nodes, NEW m \in MsgsIn(Then(out, OutputMsgs(s, run, R))[d])
      PROVE m.type = "SendOutput" \/ m \in MsgsIn(out[d])
 <2>1. m \in MsgsIn(out[d]) \cup MsgsIn(OutputMsgs(s, run, R)[d]) BY <1>1, <1>3, ThenMsgs
 <2>2. \A w \in MsgsIn(OutputMsgs(s, run, R)[d]) : w.type = "SendOutput" BY OutputsSent
 <2> QED BY <2>1, <2>2
<1> QED BY <1>2, <1>3

(* What it puts on the connections. *)
LEMMA OutputsThen ==
  ASSUME NEW s \in Sites, NEW R \in Entries, NEW run \in SUBSET PieceIds,
         NEW q \in [Sites \X Nodes -> Seq(ReqMsg)], NEW out \in [Nodes -> Seq(ReqMsg)],
         \A c \in Sites \X Nodes : MsgsIn(q[c]) \subseteq MsgsIn(req[c]),
         req' = Send(q, s, Then(out, OutputMsgs(s, run, R))),
         NEW c \in Sites \X Nodes, NEW m \in NewReqs(c)
  PROVE m.type = "SendOutput" \/ (c[1] = s /\ m \in MsgsIn(out[c[2]]))
<1> DEFINE all == Then(out, OutputMsgs(s, run, R))
<1>1. /\ all \in [Nodes -> Seq(ReqMsg)]
      /\ \A d \in Nodes : \A w \in MsgsIn(all[d]) : w.type = "SendOutput" \/ w \in MsgsIn(out[d]) BY OutputsBehind
<1>2. req' = Send(q, s, all) OBVIOUS
<1> HIDE DEF all
<1>3. c[1] = Proc(s) /\ m \in MsgsIn(all[c[2]]) BY <1>1, <1>2, RequestsAfter
<1>4. c[2] \in Nodes /\ c[1] = s BY <1>3, ProcOfSite
<1> QED BY <1>1, <1>3, <1>4

(* The same for a reply that follows the answers to DistExe. *)
LEMMA AnswersBefore ==
  ASSUME TypeOK, NEW s \in Sites, NEW R \in Entries, NEW x \in [Txns -> TxType], NEW ni,
         NEW floors, NEW maxTs, NEW run \in SUBSET Runnable(R, x),
         CheckExecutableTxns(s, run, R, x, ni, floors, maxTs), NEW b \in [Nodes -> Seq(RepMsg)]
  PROVE  /\ Then(DistExeReplies(s, run, R, x), b) \in [Nodes -> Seq(RepMsg)]
         /\ \A d \in Nodes : \A m \in MsgsIn(Then(DistExeReplies(s, run, R, x), b)[d]) :
              \/ m \in MsgsIn(b[d])
              \/ /\ m.type = "DistExeRes" /\ m.txn \in Txns
                 /\ tx'[s][m.txn].owes = d /\ tx'[s][m.txn].region_handler = s
                 /\ Finished(tx'[s][m.txn])
<1>1. /\ tx \in [Sites -> [Txns -> TxType]] /\ ready_txns \in [Sites -> Entries] BY DEF TypeOK
<1>2. DistExeReplies(s, run, R, x) \in [Nodes -> Seq(RepMsg)] BY DistExeRepliesType
<1>3. Then(DistExeReplies(s, run, R, x), b) \in [Nodes -> Seq(RepMsg)] BY <1>2, OutType
<1>4. ASSUME NEW d \in Nodes, NEW m \in MsgsIn(Then(DistExeReplies(s, run, R, x), b)[d])
      PROVE  \/ m \in MsgsIn(b[d])
             \/ /\ m.type = "DistExeRes" /\ m.txn \in Txns
                /\ tx'[s][m.txn].owes = d /\ tx'[s][m.txn].region_handler = s
                /\ Finished(tx'[s][m.txn])
 <2>1. m \in MsgsIn(DistExeReplies(s, run, R, x)[d]) \cup MsgsIn(b[d]) BY <1>2, <1>4, ThenMsgs
 <2>2. \A w \in MsgsIn(DistExeReplies(s, run, R, x)[d]) :
         /\ w.type = "DistExeRes" /\ w.txn \in Txns
         /\ tx'[s][w.txn].owes = d /\ tx'[s][w.txn].region_handler = s
         /\ Finished(tx'[s][w.txn]) BY <1>1, ExecutionSends
 <2> QED BY <2>1, <2>2
<1> QED BY <1>3, <1>4

(* What they are on the connections. *)
LEMMA AnswersThen ==
  ASSUME TypeOK, NEW s \in Sites, NEW R \in Entries, NEW x \in [Txns -> TxType], NEW ni,
         NEW floors, NEW maxTs, NEW run \in SUBSET Runnable(R, x),
         CheckExecutableTxns(s, run, R, x, ni, floors, maxTs), NEW b \in [Nodes -> Seq(RepMsg)],
         rep' = Send(rep, s, Then(DistExeReplies(s, run, R, x), b)),
         NEW c \in Sites \X Sites, NEW m \in NewReps(c)
  PROVE IsAnswer(m, s, c) \/ (c[1] = s /\ m \in MsgsIn(b[c[2]]))
<1> DEFINE all == Then(DistExeReplies(s, run, R, x), b)
<1>1. /\ all \in [Nodes -> Seq(RepMsg)]
      /\ \A d \in Nodes : \A w \in MsgsIn(all[d]) :
           \/ w \in MsgsIn(b[d])
           \/ /\ w.type = "DistExeRes" /\ w.txn \in Txns
              /\ tx'[s][w.txn].owes = d /\ tx'[s][w.txn].region_handler = s
              /\ Finished(tx'[s][w.txn]) BY AnswersBefore
<1>2. /\ rep \in [Sites \X Sites -> Seq(RepMsg)] /\ rep' = Send(rep, s, all)
      /\ \A k \in Sites \X Sites : MsgsIn(rep[k]) \subseteq MsgsIn(rep[k]) BY DEF TypeOK
<1> HIDE DEF all
<1>3. c[1] = Proc(s) /\ m \in MsgsIn(all[c[2]]) BY <1>1, <1>2, RepliesAfter
<1>4. c[2] \in Nodes /\ c[1] = s BY <1>3, ProcOfSite, Placement
<1> QED BY <1>1, <1>3, <1>4 DEF IsAnswer

(* PiggyTx overwrites the records of fresh transactions only. *)
Piggied(y, z) ==
  /\ z.phase = LOCAL_CAN_EXE /\ z.role = y.role /\ z.owes = y.owes
  /\ z.anticipated = y.anticipated /\ z.pieces = y.pieces /\ z.done = y.done
  /\ z.acks = y.acks

(* A record is as before or was fresh and is piggied. *)
LEMMA PiggyTxKeeps ==
  ASSUME NEW x \in [Txns -> TxType], NEW from \in Nodes, NEW fresh \in SUBSET Entry, NEW t \in Txns
  PROVE  LET z == PiggyTx(x, from, fresh)[t]
         IN  IF \E e \in fresh : e.id = t THEN Piggied(x[t], z) ELSE z = x[t] BY DEF PiggyTx, TxType, Piggied

(* A record that the site had none of before, and that stays as it is but for its
   timestamp, handler and phase. *)
FirstHeard(s, t) ==
  /\ t \notin dtxns[s] /\ tx'[s][t].role = tx[s][t].role
  /\ tx'[s][t].pieces = tx[s][t].pieces /\ tx[s][t].done \subseteq tx'[s][t].done
  /\ tx'[s][t].acks = tx[s][t].acks

(* What enters a queue. *)
LEMMA QueueGains ==
  /\ \A R, fresh : PiggyReady(R, fresh) \subseteq R \cup fresh
  /\ \A R, ts, t : PutReady(R, ts, t) \subseteq R \cup {[ts |-> ts, id |-> t]}
  /\ \A known, noti : Unknown(known, noti) \subseteq noti BY DEF PiggyReady, PutReady, Unknown
(* A step that sends and takes nothing before. *)
LEMMA RequestsSent ==
  ASSUME TypeOK, NEW out \in [Nodes -> Seq(ReqMsg)], NEW n, req' = Send(req, n, out),
         NEW c \in Sites \X Nodes, NEW m \in NewReqs(c)
  PROVE c[1] = Proc(n) /\ m \in MsgsIn(out[c[2]])
<1>1. /\ req \in [Sites \X Nodes -> Seq(ReqMsg)]
      /\ \A k \in Sites \X Nodes : MsgsIn(req[k]) \subseteq MsgsIn(req[k]) BY DEF TypeOK
<1> QED BY <1>1, RequestsAfter

-----
(* A message with a piggyback, and the record of a transaction that a client has just
   submitted to s. *)
IsPiggy(m, type, ts, delivered, noti) ==
  m.type = type /\ m.ts = ts /\ m.delivered = delivered /\ m.noti = noti
IsSubmitted(y, s, t, ts) ==
  /\ y.ts = ts /\ y.phase = LOCAL_NOT_STORED /\ y.role = "irtHandler" /\ y.region_handler = s
  /\ y.pieces = PiecesAt(t, ParOf(s)) /\ y.done = {} /\ y.acks = {} /\ y.owes = -1
  /\ y.anticipated = [r \in Regions |-> ZeroTs]

(* HandleIRT: one new entry, and PrepareIRT to the other replicas. *)
LEMMA HandleIRTStep ==
  ASSUME TypeOK, NEW s \in Sites, NEW t \in Txns, NEW now \in PhysTimes, NEW skips \in Nat,
         HandleIRT(s, t, now, skips)
  PROVE  /\ last_clock'[s] = After(Generate(s, now, dist_txn_tss[s]), skips)
         /\ my_txns' = [my_txns EXCEPT ![s] = @ \cup {[ts |-> last_clock'[s], id |-> t]}]
         /\ ready_txns'[s] \subseteq ready_txns[s] \cup {[ts |-> last_clock'[s], id |-> t]}
         /\ OthersKept(s)
         /\ \A u \in Txns \ {t} : tx'[s][u] = tx[s][u]
         /\ IsSubmitted(tx'[s][t], s, t, last_clock'[s])
         /\ \A c \in Sites \X Nodes : \A m \in NewReqs(c) :
              /\ c[1] = s /\ c[2] \in Sites /\ c[2] # s
              /\ IsPiggy(m, "PrepareIRT", last_clock'[s], ZeroTs,
                         CollectNotifyTxns(s, c[2], my_txns'[s], ir_site_notified_ts[s][c[2]]))
              /\ m.txn = t
         /\ rep' = rep
<1> DEFINE ts   == After(Generate(s, now, dist_txn_tss[s]), skips)
           mine == my_txns[s] \cup {[ts |-> ts, id |-> t]}
           targets == (UNION {SitesByPartitionId(par) : par \in Touched(t)}) \ {s}
           y    == [FreshTx EXCEPT !.phase = LOCAL_NOT_STORED, !.ts = ts, !.region_handler = s,
                      !.role = "irtHandler", !.pieces = PiecesAt(t, ParOf(s))]
           msg(d) == [type |-> "PrepareIRT", txn |-> t, ts |-> ts, delivered |-> ZeroTs,
                      noti |-> CollectNotifyTxns(s, d, mine, ir_site_notified_ts[s][d])]
           out  == [d \in Nodes |-> IF d \in targets THEN <<msg(d)>> ELSE <<>>]
<1>1. s \in Nodes /\ targets \in SUBSET Sites /\ s \notin targets BY Placement DEF SitesByPartitionId
<1>2. /\ last_clock' = [last_clock EXCEPT ![s] = ts]
      /\ my_txns' = [my_txns EXCEPT ![s] = mine]
      /\ ready_txns' = [ready_txns EXCEPT ![s] = PutReady(@, ts, t)]
      /\ tx' = [tx EXCEPT ![s][t] = y]
      /\ req' = Send(req, s, out)
      /\ UNCHANGED rep BY DEF HandleIRT
<1>3. TypeOK' BY HandleIRTType
<1> HIDE DEF ts, targets, y, mine
<1>4. last_clock'[s] = ts /\ my_txns'[s] = mine /\ tx'[s][t] = y BY <1>1, <1>2 DEF TypeOK
<1>5. ASSUME NEW c \in Sites \X Nodes, NEW m \in NewReqs(c)
      PROVE  /\ c[1] = s /\ c[2] \in Sites /\ c[2] # s
             /\ IsPiggy(m, "PrepareIRT", last_clock'[s], ZeroTs,
                        CollectNotifyTxns(s, c[2], my_txns'[s], ir_site_notified_ts[s][c[2]]))
             /\ m.txn = t
 <2>1. ASSUME NEW d \in Nodes PROVE msg(d) \in ReqMsg
  <3>1. CollectNotifyTxns(s, d, mine, ir_site_notified_ts[s][d]) \in Entries BY <1>3, <1>4, CollectType DEF TypeOK
  <3>2. ts \in ChrTsType BY <1>1, <1>3, <1>4 DEF TypeOK
  <3> QED BY <3>1, <3>2, TsFacts DEF ReqMsg
 <2>2. /\ IsPiggy(msg(c[2]), "PrepareIRT", last_clock'[s], ZeroTs,
                  CollectNotifyTxns(s, c[2], my_txns'[s], ir_site_notified_ts[s][c[2]]))
       /\ msg(c[2]).txn = t BY <1>4 DEF IsPiggy
 <2> HIDE DEF msg
 <2>3. /\ out \in [Nodes -> Seq(ReqMsg)] /\ c[2] \in Nodes
       /\ out[c[2]] = IF c[2] \in targets THEN <<msg(c[2])>> ELSE <<>> BY <2>1
 <2> HIDE DEF out
 <2>4. c[1] = Proc(s) /\ m \in MsgsIn(out[c[2]]) BY <1>2, <2>3, RequestsSent
 <2>5. c[2] \in targets /\ m = msg(c[2]) BY <2>3, <2>4, OutMsgs
 <2> QED BY <1>1, <2>2, <2>4, <2>5, ProcOfSite
<1>6. /\ ready_txns'[s] \subseteq ready_txns[s] \cup {[ts |-> last_clock'[s], id |-> t]}
      /\ OthersKept(s)
 <2>1. ready_txns \in [Sites -> Entries] /\ tx \in [Sites -> [Txns -> TxType]] BY DEF TypeOK
 <2>2. PutReady(ready_txns[s], ts, t) \subseteq ready_txns[s] \cup {[ts |-> ts, id |-> t]} BY QueueGains
 <2> QED BY <1>2, <1>4, <2>1, <2>2 DEF OthersKept
<1>7. my_txns' = [my_txns EXCEPT ![s] = @ \cup {[ts |-> last_clock'[s], id |-> t]}] BY <1>2, <1>4 DEF mine
<1>8. \A u \in Txns \ {t} : tx'[s][u] = tx[s][u] BY <1>2 DEF TypeOK
<1>9. IsSubmitted(tx'[s][t], s, t, last_clock'[s]) BY <1>4 DEF y, IsSubmitted, FreshTx
<1>10. last_clock'[s] = After(Generate(s, now, dist_txn_tss[s]), skips) BY <1>4 DEF ts
<1>11. rep' = rep BY <1>2
<1> QED BY <1>5, <1>6, <1>7, <1>8, <1>9, <1>10, <1>11

(* The record that OnPrepareIRT writes. *)
ReplicaOf(y, ts, h, P) ==
  [y EXCEPT !.ts = ts, !.region_handler = h, !.phase = LOCAL_CAN_EXE,
            !.role = "irtReplica", !.pieces = P, !.done = {}, !.have = {}]

(* It keeps what belongs to cross-region transactions. *)
LEMMA ReplicaRecord ==
  ASSUME NEW y \in TxType, NEW ts \in ChrTsType, NEW h \in Nodes, NEW P \in SUBSET PieceIds
  PROVE  /\ ReplicaOf(y, ts, h, P) \in TxType
         /\ ReplicaOf(y, ts, h, P).anticipated = y.anticipated
         /\ ReplicaOf(y, ts, h, P).owes = y.owes
         /\ ReplicaOf(y, ts, h, P).role = "irtReplica"
         /\ ReplicaOf(y, ts, h, P).phase = LOCAL_CAN_EXE
         /\ ReplicaOf(y, ts, h, P).pieces = P /\ ReplicaOf(y, ts, h, P).acks = y.acks
  BY PhaseFacts DEF TxType, Roles, ReplicaOf

(* OnPrepareIRT: the entries of the request, one answer to its sender. *)
LEMMA OnPrepareIRTStep ==
  ASSUME TypeOK, NEW src \in Sites, NEW s \in Sites, NEW now \in PhysTimes,
         OnPrepareIRT(src, s, now)
  PROVE  LET m == ReqAt(src, s)
         IN  /\ m \in MsgsIn(req[<<src, s>>]) /\ m \in ReqMsg /\ m.type = "PrepareIRT"
             /\ ready_txns'[s] \subseteq ready_txns[s] \cup m.noti \cup {[ts |-> m.ts, id |-> m.txn]}
             /\ OthersKept(s)
             /\ \A u \in Txns :
                  \/ Retouched(tx[s][u], tx'[s][u]) /\ u \in {m.txn} \cup {e.id : e \in m.noti}
                  \/ Kept(s, u)
             /\ \A u \in Txns \ {m.txn} : Kept(s, u) \/ FirstHeard(s, u)
             /\ tx'[s][m.txn].role = "irtReplica" /\ tx'[s][m.txn].acks = tx[s][m.txn].acks
             /\ tx'[s][m.txn].pieces = PiecesAt(m.txn, ParOf(s))
             /\ OnlyAnswers(s)
             /\ \A c \in Sites \X Nodes : \A w \in NewReqs(c) : w.type = "SendOutput"
             /\ \A c \in Sites \X Sites : \A w \in NewReps(c) :
                  \/ IsAnswer(w, s, c)
                  \/ /\ c[1] = s /\ c[2] = src
                     /\ IsPiggy(w, "PrepareIRTRes", last_clock'[s], m.ts,
                                CollectNotifyTxns(s, src, my_txns[s], ir_site_notified_ts'[s][src]))
                     /\ w.txn = m.txn
<1> DEFINE m     == ReqAt(src, s)
           t     == m.txn
           known == dtxns[s] \cup {t}
           fresh == Unknown(known, m.noti)
           h     == IF SitesForSamePar(s, src) THEN src ELSE s
           x1    == [tx[s] EXCEPT ![t] = [@ EXCEPT !.ts = m.ts, !.region_handler = h,
                       !.phase = LOCAL_CAN_EXE, !.role = "irtReplica",
                       !.pieces = PiecesAt(t, ParOf(s)), !.done = {}, !.have = {}]]
           x2    == PiggyTx(x1, src, fresh)
           R     == PiggyReady(PutReady(ready_txns[s], m.ts, t), fresh)
           res   == [type |-> "PrepareIRTRes", txn |-> t, ts |-> last_clock'[s], delivered |-> m.ts,
                     noti |-> CollectNotifyTxns(s, src, my_txns[s], ir_site_notified_ts'[s][src])]
<1>1. s \in Nodes /\ src \in Nodes /\ Sites \in SUBSET Nodes /\ TypeOK' BY Placement, OnPrepareIRTType
<1>2. /\ m \in ReqMsg /\ m.type = "PrepareIRT" /\ m \in MsgsIn(req[<<src, s>>])
      /\ Taken(req, <<src, s>>) \in [Sites \X Nodes -> Seq(ReqMsg)]
      /\ \A c \in Sites \X Nodes : MsgsIn(Taken(req, <<src, s>>)[c]) \subseteq MsgsIn(req[c])
 <2>1. Receives(src, s, "PrepareIRT") BY DEF OnPrepareIRT
 <2> QED BY <1>1, <2>1, ReceivesType, ReceivesMsgs DEF ReqAt
<1>3. /\ t \in Txns /\ m.ts \in ChrTsType /\ m.delivered \in ChrTsType /\ m.noti \in Entries BY <1>2, ReqFields
<1>4. PICK run \in SUBSET Runnable(R, x2) :
        /\ CheckExecutableTxns(s, run, R, x2, new_input[s],
                               PiggyFloors(s, src, m.ts), ir_site_max_ts'[s])
        /\ req' = Send(Taken(req, <<src, s>>), s, OutputMsgs(s, run, R))
        /\ LET ts == GenerateChrTs(s, now, clock_offset'[s], last_clock[s], dist_txn_tss'[s])
           IN  /\ last_clock' = [last_clock EXCEPT ![s] = ts]
               /\ rep' = Send(rep, s, Then(DistExeReplies(s, run, R, x2), ToAll({src},
                    [type |-> "PrepareIRTRes", txn |-> t, ts |-> ts, delivered |-> m.ts,
                     noti |-> CollectNotifyTxns(s, src, my_txns[s],
                                                ir_site_notified_ts'[s][src])]))) BY DEF OnPrepareIRT, ReqAt
<1> HIDE DEF m
<1>5. /\ tx \in [Sites -> [Txns -> TxType]] /\ ready_txns \in [Sites -> Entries]
      /\ tx[s] \in [Txns -> TxType] /\ ready_txns[s] \in Entries BY DEF TypeOK
<1>6. fresh \subseteq m.noti /\ fresh \in Entries /\ \A e \in fresh : e.id \notin dtxns[s] \cup {t}
 <2>1. \A e \in fresh : e.id \notin dtxns[s] \cup {t} BY DEF Unknown
 <2>2. fresh \subseteq m.noti /\ fresh \in Entries BY <1>3, QueueGains, EntryFacts
 <2> QED BY <2>1, <2>2
<1> DEFINE y == ReplicaOf(tx[s][t], m.ts, h, PiecesAt(t, ParOf(s)))
<1>7. x1 = [tx[s] EXCEPT ![t] = y] BY <1>5 DEF ReplicaOf
<1>8. /\ y \in TxType /\ y.anticipated = tx[s][t].anticipated /\ y.owes = tx[s][t].owes
      /\ y.role = "irtReplica" /\ y.phase = LOCAL_CAN_EXE
      /\ y.pieces = PiecesAt(t, ParOf(s)) /\ y.acks = tx[s][t].acks
 <2>1. tx[s][t] \in TxType /\ h \in Nodes /\ PiecesAt(t, ParOf(s)) \in SUBSET PieceIds BY <1>1, <1>3, <1>5, PieceFacts
 <2> HIDE DEF h, t
 <2> QED BY <1>3, <2>1, ReplicaRecord
<1> HIDE DEF y, x1
<1>9. x1 \in [Txns -> TxType] /\ x1[t] = y /\ \A u \in Txns \ {t} : x1[u] = tx[s][u] BY <1>3, <1>5, <1>7, <1>8
<1>10. fresh \in SUBSET Entry BY <1>6, EntryFacts
<1> HIDE DEF fresh
<1>11. /\ x2 \in [Txns -> TxType]
       /\ \A u \in Txns : IF \E e \in fresh : e.id = u THEN Piggied(x1[u], x2[u]) ELSE x2[u] = x1[u]
  BY <1>1, <1>9, <1>10, PiggyTxType, PiggyTxKeeps
<1>12. R \in Entries /\ R \subseteq ready_txns[s] \cup m.noti \cup {[ts |-> m.ts, id |-> t]}
 <2>1. PutReady(ready_txns[s], m.ts, t) \in Entries BY <1>3, <1>5, EntryFacts
 <2>2. R \in Entries BY <1>6, <2>1, EntryFacts
 <2> QED BY <1>6, <2>2, QueueGains
<1> HIDE DEF x2, R
<1>13. run \in SUBSET PieceIds BY <1>11, <1>12, RunnableType
<1>14. /\ ready_txns'[s] \subseteq R
       /\ \A r \in Sites \ {s} : tx'[r] = tx[r] /\ ready_txns'[r] = ready_txns[r]
       /\ \A u \in Txns : /\ SameRecord(x2[u], tx'[s][u])
                          /\ SameProgress(u, x2[u], tx'[s][u], ParOf(s))
       /\ OnlyAnswers(s) BY <1>4, <1>5, <1>11, <1>12, <1>13, ExecutionKeeps
<1>15. ASSUME NEW u \in Txns
       PROVE  \/ Retouched(tx[s][u], tx'[s][u]) /\ u \in {t} \cup {e.id : e \in m.noti}
              \/ Kept(s, u)
 <2>1. CASE u \in {t} \cup {e.id : e \in fresh}
  <3>1. u \in {t} \cup {e.id : e \in m.noti} BY <1>6, <2>1
  <3>2. /\ x2[u].phase = LOCAL_CAN_EXE /\ x2[u].role \in {tx[s][u].role, "irtReplica"}
        /\ x2[u].owes = tx[s][u].owes /\ x2[u].anticipated = tx[s][u].anticipated BY <1>8, <1>9, <1>11, <2>1 DEF Piggied
  <3>3. SameRecord(x2[u], tx'[s][u]) /\ SameProgress(u, x2[u], tx'[s][u], ParOf(s)) BY <1>14
  <3>4. Retouched(tx[s][u], tx'[s][u]) BY <3>2, <3>3 DEF SameRecord, SameProgress, Retouched
  <3> QED BY <3>1, <3>4
 <2>2. CASE u \notin {t} \cup {e.id : e \in fresh}
  <3>1. x2[u] = tx[s][u] BY <1>9, <1>11, <2>2
  <3> QED BY <1>14, <3>1 DEF Kept
 <2> QED BY <2>1, <2>2
<1>16. \A c \in Sites \X Nodes : \A w \in NewReqs(c) : w.type = "SendOutput"
 <2>1. /\ rep \in [Sites \X Sites -> Seq(RepMsg)]
       /\ \A c \in Sites \X Sites : MsgsIn(rep[c]) \subseteq MsgsIn(rep[c]) BY DEF TypeOK
 <2> QED BY <1>2, <1>4, <1>11, <1>12, <2>1, ExecutionNew
<1>17. ASSUME NEW c \in Sites \X Sites, NEW w \in NewReps(c)
       PROVE IsAnswer(w, s, c) \/ (c[1] = s /\ c[2] = src /\ w = res)
 <2>1. rep' = Send(rep, s, Then(DistExeReplies(s, run, R, x2), ToAll({src}, res)))
  <3>1. last_clock'[s] = GenerateChrTs(s, now, clock_offset'[s], last_clock[s], dist_txn_tss'[s])
    BY <1>1, <1>4 DEF TypeOK
  <3> QED BY <1>4, <3>1
 <2>2. res \in RepMsg
  <3>1. CollectNotifyTxns(s, src, my_txns[s], ir_site_notified_ts'[s][src]) \in Entries BY CollectType DEF TypeOK
  <3>2. last_clock'[s] \in ChrTsType BY <1>1 DEF TypeOK
  <3> QED BY <1>3, <3>1, <3>2 DEF RepMsg
 <2> HIDE DEF res
 <2> DEFINE b == ToAll({src}, res)
 <2>3. b \in [Nodes -> Seq(RepMsg)] BY <2>2, OutType
 <2>6. \A d \in Nodes : MsgsIn(b[d]) = IF d \in {src} THEN {res} ELSE {} BY OutMsgs
 <2>7. rep' = Send(rep, s, Then(DistExeReplies(s, run, R, x2), b)) BY <2>1
 <2> HIDE DEF b
 <2>8. CheckExecutableTxns(s, run, R, x2, new_input[s], PiggyFloors(s, src, m.ts), ir_site_max_ts'[s]) BY <1>4
 <2>4. IsAnswer(w, s, c) \/ (c[1] = s /\ w \in MsgsIn(b[c[2]])) BY <1>11, <1>12, <2>3, <2>7, <2>8, AnswersThen
 <2>5. c[2] \in Nodes BY <1>1
 <2> QED BY <2>4, <2>5, <2>6
<1>18. ready_txns'[s] \subseteq ready_txns[s] \cup m.noti \cup {[ts |-> m.ts, id |-> m.txn]} BY <1>12, <1>14
<1>19. OthersKept(s) BY <1>14 DEF OthersKept
<1>20. /\ IsPiggy(res, "PrepareIRTRes", last_clock'[s], m.ts,
                  CollectNotifyTxns(s, src, my_txns[s], ir_site_notified_ts'[s][src]))
       /\ res.txn = m.txn BY DEF IsPiggy
<1> HIDE DEF res
<1>21. ASSUME NEW u \in Txns \ {t} PROVE Kept(s, u) \/ FirstHeard(s, u)
 <2>1. x1[u] = tx[s][u] /\ SameRecord(x2[u], tx'[s][u]) BY <1>9, <1>14, <1>21
 <2>2. CASE \E e \in fresh : e.id = u
  <3>1. u \notin dtxns[s] BY <1>6, <2>2
  <3>2. Piggied(tx[s][u], x2[u]) BY <1>11, <2>1, <2>2
  <3> QED BY <2>1, <3>1, <3>2 DEF Piggied, SameRecord, FirstHeard
 <2>3. CASE ~ \E e \in fresh : e.id = u
  <3>1. x2[u] = tx[s][u] BY <1>11, <2>1, <2>3
  <3> QED BY <1>14, <3>1 DEF Kept
 <2> QED BY <2>2, <2>3
<1>22. /\ tx'[s][t].role = "irtReplica" /\ tx'[s][t].acks = tx[s][t].acks
       /\ tx'[s][t].pieces = PiecesAt(t, ParOf(s))
 <2>1. x2[t] = y BY <1>3, <1>6, <1>9, <1>11
 <2>2. SameRecord(x2[t], tx'[s][t]) BY <1>3, <1>14
 <2> QED BY <1>8, <2>1, <2>2 DEF SameRecord
<1> QED BY <1>2, <1>14, <1>15, <1>16, <1>17, <1>18, <1>19, <1>20, <1>21, <1>22 DEF m

(* The record of t at s has one more acknowledgement, that of src, and may execute once
   there are enough. *)
CountsAck(s, t, src) ==
  /\ tx'[s][t].role = tx[s][t].role /\ tx'[s][t].pieces = tx[s][t].pieces
  /\ tx[s][t].done \subseteq tx'[s][t].done
  /\ tx[s][t].acks \subseteq tx'[s][t].acks /\ tx'[s][t].acks \subseteq tx[s][t].acks \cup {src}
  /\ \/ tx'[s][t].phase = tx[s][t].phase \/ StoredEverywhere(t, tx'[s][t])
     \/ t \notin dtxns[s] \/ tx[s][t].role = "crtCoord"

(* PrepareIRTACK: the entries of the reply. *)
LEMMA PrepareIRTACKStep ==
  ASSUME TypeOK, NEW src \in Sites, NEW s \in Sites, NEW now \in PhysTimes,
         PrepareIRTACK(src, s, now)
  PROVE  LET m == RepAt(src, s)
         IN  /\ m \in MsgsIn(rep[<<src, s>>]) /\ m \in RepMsg /\ m.type = "PrepareIRTRes"
             /\ ready_txns'[s] \subseteq ready_txns[s] \cup m.noti
             /\ OthersKept(s)
             /\ \A u \in Txns :
                  \/ Retouched(tx[s][u], tx'[s][u]) /\ u \in {m.txn} \cup {e.id : e \in m.noti}
                  \/ Kept(s, u)
             /\ \A u \in Txns \ {m.txn} : Kept(s, u) \/ FirstHeard(s, u)
             /\ CountsAck(s, m.txn, src)
             /\ OnlyAnswers(s)
             /\ \A c \in Sites \X Nodes : \A w \in NewReqs(c) : w.type = "SendOutput"
             /\ \A c \in Sites \X Sites : \A w \in NewReps(c) : IsAnswer(w, s, c)
<1> DEFINE m     == RepAt(src, s)
           t     == m.txn
           fresh == Unknown(dtxns[s], m.noti)
           x1    == PiggyTx(tx[s], src, fresh)
           R     == PiggyReady(ready_txns[s], fresh)
           x2    == IF x1[t].phase = LOCAL_CAN_EXE THEN x1
                    ELSE [x1 EXCEPT ![t] = [x1[t] EXCEPT !.acks = @ \cup {src}]]
           commits == x1[t].phase # LOCAL_CAN_EXE /\ StoredEverywhere(t, x2[t])
           x3    == [x2 EXCEPT ![t] = [@ EXCEPT !.phase = LOCAL_CAN_EXE]]
           floors == PiggyFloors(s, src, m.ts)
           p     == Taken(rep, <<src, s>>)
<1>1. s \in Nodes /\ src \in Nodes /\ Sites \in SUBSET Nodes BY Placement
<1>2. /\ m \in RepMsg /\ m.type = "PrepareIRTRes" /\ m \in MsgsIn(rep[<<src, s>>])
      /\ p \in [Sites \X Sites -> Seq(RepMsg)]
      /\ \A c \in Sites \X Sites : MsgsIn(p[c]) \subseteq MsgsIn(rep[c])
 <2>1. rep \in [Sites \X Sites -> Seq(RepMsg)] /\ <<src, s>> \in Sites \X Sites BY DEF TypeOK
 <2>2. rep[<<src, s>>] # <<>> /\ m.type = "PrepareIRTRes" BY DEF PrepareIRTACK, RepAt
 <2> QED BY <2>1, <2>2, TakenType, TakenMsgs DEF RepAt
<1>3. /\ t \in Txns /\ m.ts \in ChrTsType /\ m.noti \in Entries BY <1>2, RepFields
<1>4. \/ /\ NoExecution(s, R, x2, new_input[s], floors)
         /\ rep' = p
         /\ UNCHANGED req
      \/ /\ commits
         /\ \E run \in SUBSET Runnable(R, x3) :
              /\ CheckExecutableTxns(s, run, R, x3, new_input[s], floors, ir_site_max_ts'[s])
              /\ req' = Send(req, s, OutputMsgs(s, run, R))
              /\ rep' = Send(p, s, DistExeReplies(s, run, R, x3)) BY DEF PrepareIRTACK, RepAt
<1> HIDE DEF m
<1>5. /\ tx \in [Sites -> [Txns -> TxType]] /\ ready_txns \in [Sites -> Entries]
      /\ tx[s] \in [Txns -> TxType] /\ ready_txns[s] \in Entries
      /\ req \in [Sites \X Nodes -> Seq(ReqMsg)]
      /\ \A c \in Sites \X Nodes : MsgsIn(req[c]) \subseteq MsgsIn(req[c]) BY DEF TypeOK
<1>6. fresh \subseteq m.noti /\ fresh \in Entries /\ \A e \in fresh : e.id \notin dtxns[s]
 <2>1. \A e \in fresh : e.id \notin dtxns[s] BY DEF Unknown
 <2>2. fresh \subseteq m.noti /\ fresh \in Entries BY <1>3, QueueGains, EntryFacts
 <2> QED BY <2>1, <2>2
<1>7. fresh \in SUBSET Entry BY <1>6, EntryFacts
<1> HIDE DEF fresh
<1>8. /\ x1 \in [Txns -> TxType]
      /\ \A u \in Txns : IF \E e \in fresh : e.id = u THEN Piggied(tx[s][u], x1[u]) ELSE x1[u] = tx[s][u]
 <2> DEFINE x0 == tx[s]
 <2>1. x0 \in [Txns -> TxType] /\ x1 = PiggyTx(x0, src, fresh) BY <1>5
 <2> HIDE DEF x0, x1
 <2>2. /\ x1 \in [Txns -> TxType]
       /\ \A u \in Txns : IF \E e \in fresh : e.id = u THEN Piggied(x0[u], x1[u]) ELSE x1[u] = x0[u]
   BY <1>1, <1>7, <2>1, PiggyTxType, PiggyTxKeeps
 <2> QED BY <2>2 DEF x0
<1> HIDE DEF x1
<1>9. /\ x2 \in [Txns -> TxType] /\ \A u \in Txns \ {t} : x2[u] = x1[u]
      /\ x2[t].phase = x1[t].phase /\ x2[t].role = x1[t].role /\ x2[t].owes = x1[t].owes
      /\ x2[t].anticipated = x1[t].anticipated /\ x2[t].pieces = x1[t].pieces
      /\ x2[t].done = x1[t].done /\ x2[t].acks \in {x1[t].acks, x1[t].acks \cup {src}}
 <2> DEFINE y == [x1[t] EXCEPT !.acks = @ \cup {src}]
 <2>1. x1[t] \in TxType BY <1>3, <1>8
 <2>2. /\ y \in TxType /\ y.phase = x1[t].phase /\ y.role = x1[t].role /\ y.owes = x1[t].owes
       /\ y.anticipated = x1[t].anticipated /\ y.pieces = x1[t].pieces
       /\ y.done = x1[t].done /\ y.acks = x1[t].acks \cup {src} BY <2>1 DEF TxType
 <2>3. x2 = IF x1[t].phase = LOCAL_CAN_EXE THEN x1 ELSE [x1 EXCEPT ![t] = y] OBVIOUS
 <2> HIDE DEF y, x2
 <2> QED BY <1>3, <1>8, <2>2, <2>3
<1> HIDE DEF x2
<1>10. /\ x3 \in [Txns -> TxType] /\ \A u \in Txns \ {t} : x3[u] = x2[u]
       /\ x3[t].phase = LOCAL_CAN_EXE /\ x3[t].role = x2[t].role /\ x3[t].owes = x2[t].owes
       /\ x3[t].anticipated = x2[t].anticipated /\ x3[t].pieces = x2[t].pieces
       /\ x3[t].done = x2[t].done /\ x3[t].acks = x2[t].acks
 <2> DEFINE y == [x2[t] EXCEPT !.phase = LOCAL_CAN_EXE]
 <2>1. x2[t] \in TxType BY <1>3, <1>9
 <2>2. /\ y \in TxType /\ y.phase = LOCAL_CAN_EXE /\ y.role = x2[t].role /\ y.owes = x2[t].owes
       /\ y.anticipated = x2[t].anticipated /\ y.pieces = x2[t].pieces
       /\ y.done = x2[t].done /\ y.acks = x2[t].acks BY <2>1, PhaseFacts DEF TxType
 <2>3. x3 = [x2 EXCEPT ![t] = y] BY <1>9
 <2> HIDE DEF y, x3
 <2> QED BY <1>3, <1>9, <2>2, <2>3
<1>11. R \in Entries /\ R \subseteq ready_txns[s] \cup m.noti
 <2>1. R \in Entries BY <1>5, <1>6, EntryFacts
 <2> QED BY <1>6, <2>1, QueueGains
<1> HIDE DEF x3, R, t, floors, p
<1>12. ASSUME NEW x, x \in {x2, x3}, NEW u \in Txns, NEW z,
              SameRecord(x[u], z), SameProgress(u, x[u], z, ParOf(s)), z = tx'[s][u]
       PROVE  \/ Retouched(tx[s][u], tx'[s][u]) /\ u \in {t} \cup {e.id : e \in m.noti}
              \/ Kept(s, u)
 <2>1. CASE u \in {t} \cup {e.id : e \in fresh}
  <3>1. u \in {t} \cup {e.id : e \in m.noti} BY <1>6, <2>1
  <3>2. /\ x[u].phase \in {tx[s][u].phase, LOCAL_CAN_EXE} /\ x[u].role = tx[s][u].role
        /\ x[u].owes = tx[s][u].owes /\ x[u].anticipated = tx[s][u].anticipated
   <4>1. /\ x1[u].phase \in {tx[s][u].phase, LOCAL_CAN_EXE} /\ x1[u].role = tx[s][u].role
         /\ x1[u].owes = tx[s][u].owes /\ x1[u].anticipated = tx[s][u].anticipated BY <1>8 DEF Piggied
   <4>2. /\ x2[u].phase = x1[u].phase /\ x2[u].role = x1[u].role
         /\ x2[u].owes = x1[u].owes /\ x2[u].anticipated = x1[u].anticipated BY <1>9
   <4>3. /\ x3[u].phase \in {x2[u].phase, LOCAL_CAN_EXE} /\ x3[u].role = x2[u].role
         /\ x3[u].owes = x2[u].owes /\ x3[u].anticipated = x2[u].anticipated BY <1>10
   <4> QED BY <1>12, <4>1, <4>2, <4>3
  <3>3. Retouched(tx[s][u], z) BY <1>12, <3>2 DEF SameRecord, SameProgress, Retouched
  <3> QED BY <1>12, <3>1, <3>3
 <2>2. CASE u \notin {t} \cup {e.id : e \in fresh}
  <3>1. x2[u] = tx[s][u] /\ x3[u] = tx[s][u] BY <1>8, <1>9, <1>10, <2>2
  <3>2. x[u] = tx[s][u] BY <1>12, <3>1
  <3> QED BY <1>12, <3>2 DEF Kept
 <2> QED BY <2>1, <2>2
<1>16. ASSUME NEW x, x \in {x2, x3}, NEW u \in Txns \ {t},
              SameRecord(x[u], tx'[s][u]), SameProgress(u, x[u], tx'[s][u], ParOf(s))
       PROVE Kept(s, u) \/ FirstHeard(s, u)
 <2>1. x[u] = x1[u] BY <1>9, <1>10, <1>16
 <2>2. CASE \E e \in fresh : e.id = u
  <3>1. u \notin dtxns[s] BY <1>6, <2>2
  <3>2. Piggied(tx[s][u], x[u]) BY <1>8, <2>1, <2>2
  <3> QED BY <1>16, <3>1, <3>2 DEF Piggied, SameRecord, FirstHeard
 <2>3. CASE ~ \E e \in fresh : e.id = u
  <3>1. x[u] = tx[s][u] BY <1>8, <2>1, <2>3
  <3> QED BY <1>16, <3>1 DEF Kept
 <2> QED BY <2>2, <2>3
<1>17. ASSUME NEW x, x = x2 \/ (x = x3 /\ StoredEverywhere(t, x2[t])),
              SameRecord(x[t], tx'[s][t]), SameProgress(t, x[t], tx'[s][t], ParOf(s))
       PROVE CountsAck(s, t, src)
 <2>1. /\ x1[t].role = tx[s][t].role /\ x1[t].pieces = tx[s][t].pieces /\ x1[t].done = tx[s][t].done
       /\ x1[t].acks = tx[s][t].acks /\ (t \notin dtxns[s] \/ x1[t].phase = tx[s][t].phase)
   BY <1>3, <1>6, <1>8 DEF Piggied, t
 <2>2. /\ x[t].role = x1[t].role /\ x[t].pieces = x1[t].pieces /\ x[t].done = x1[t].done
       /\ x[t].acks \in {x1[t].acks, x1[t].acks \cup {src}} /\ x[t].acks = x2[t].acks BY <1>9, <1>10, <1>17
 <2>3. x[t].phase = x1[t].phase \/ StoredEverywhere(t, x2[t]) BY <1>9, <1>10, <1>17
 <2>4. StoredEverywhere(t, x2[t]) => StoredEverywhere(t, tx'[s][t])
   BY <1>17, <2>2 DEF StoredEverywhere, AcksOf, SameRecord
 <2>5. tx'[s][t].phase = x[t].phase \/ x[t].role = "crtCoord" BY <1>17 DEF SameProgress
 <2> QED BY <1>17, <2>1, <2>2, <2>3, <2>4, <2>5 DEF CountsAck, SameRecord
<1> HIDE DEF commits
<1> DEFINE Rest == /\ ready_txns'[s] \subseteq R
                   /\ OthersKept(s)
                   /\ \A u \in Txns :
                        \/ /\ Retouched(tx[s][u], tx'[s][u])
                           /\ u \in {t} \cup {e.id : e \in m.noti}
                        \/ Kept(s, u)
                   /\ \A u \in Txns \ {t} : Kept(s, u) \/ FirstHeard(s, u)
                   /\ CountsAck(s, t, src) /\ OnlyAnswers(s)
                   /\ \A c \in Sites \X Nodes : \A w \in NewReqs(c) : w.type = "SendOutput"
                   /\ \A c \in Sites \X Sites : \A w \in NewReps(c) : IsAnswer(w, s, c)
<1>13. ASSUME NoExecution(s, R, x2, new_input[s], floors), rep' = p, UNCHANGED req PROVE Rest
 <2>1. /\ ready_txns'[s] = R /\ tx'[s] = x2
       /\ \A r \in Sites \ {s} : tx'[r] = tx[r] /\ ready_txns'[r] = ready_txns[r]
       /\ OnlyAnswers(s) BY <1>5, <1>13, NoExecutionKeeps
 <2>2. \A u \in Txns : SameRecord(x2[u], tx'[s][u]) /\ SameProgress(u, x2[u], tx'[s][u], ParOf(s))
   BY <2>1 DEF SameRecord, SameProgress
 <2>3. \A u \in Txns : \/ /\ Retouched(tx[s][u], tx'[s][u])
                          /\ u \in {t} \cup {e.id : e \in m.noti}
                       \/ Kept(s, u) BY <1>12, <2>2
 <2>4. /\ \A c \in Sites \X Nodes : NewReqs(c) = {}
       /\ \A c \in Sites \X Sites : NewReps(c) = {} BY <1>2, <1>13 DEF NewReqs, NewReps
 <2>5. \A u \in Txns \ {t} : Kept(s, u) \/ FirstHeard(s, u) BY <1>16, <2>2
 <2>6. CountsAck(s, t, src) BY <1>3, <1>17, <2>2 DEF t
 <2> QED BY <2>1, <2>3, <2>4, <2>5, <2>6 DEF OthersKept
<1>14. ASSUME commits, NEW run \in SUBSET Runnable(R, x3),
              CheckExecutableTxns(s, run, R, x3, new_input[s], floors, ir_site_max_ts'[s]),
              req' = Send(req, s, OutputMsgs(s, run, R)),
              rep' = Send(p, s, DistExeReplies(s, run, R, x3))
       PROVE Rest
 <2>1. run \in SUBSET PieceIds BY <1>10, <1>11, RunnableType
 <2>2. /\ ready_txns'[s] \subseteq R
       /\ \A r \in Sites \ {s} : tx'[r] = tx[r] /\ ready_txns'[r] = ready_txns[r]
       /\ \A u \in Txns : /\ SameRecord(x3[u], tx'[s][u])
                          /\ SameProgress(u, x3[u], tx'[s][u], ParOf(s))
       /\ OnlyAnswers(s) BY <1>5, <1>10, <1>11, <1>14, <2>1, ExecutionKeeps
 <2>3. \A u \in Txns : \/ /\ Retouched(tx[s][u], tx'[s][u])
                          /\ u \in {t} \cup {e.id : e \in m.noti}
                       \/ Kept(s, u) BY <1>12, <2>2
 <2>4. /\ \A c \in Sites \X Nodes : \A w \in NewReqs(c) : w.type = "SendOutput"
       /\ \A c \in Sites \X Sites : \A w \in NewReps(c) : IsAnswer(w, s, c)
   BY <1>2, <1>5, <1>10, <1>11, <1>14, ExecutionNew
 <2>5. \A u \in Txns \ {t} : Kept(s, u) \/ FirstHeard(s, u) BY <1>16, <2>2
 <2>6. StoredEverywhere(t, x2[t]) BY <1>14 DEF commits
 <2>7. CountsAck(s, t, src) BY <1>3, <1>17, <2>2, <2>6 DEF t
 <2> QED BY <2>2, <2>3, <2>4, <2>5, <2>7 DEF OthersKept
<1>15. Rest BY <1>4, <1>13, <1>14
<1> QED BY <1>2, <1>11, <1>15 DEF m, t

(* OnIRSync: the entries of the request. *)
LEMMA OnIRSyncStep ==
  ASSUME TypeOK, NEW src \in Sites, NEW s \in Sites, NEW now \in PhysTimes,
         OnIRSync(src, s, now)
  PROVE  LET m == ReqAt(src, s)
         IN  /\ m \in MsgsIn(req[<<src, s>>]) /\ m \in ReqMsg /\ m.type = "IRSync"
             /\ ready_txns'[s] \subseteq ready_txns[s] \cup m.noti
             /\ OthersKept(s)
             /\ \A u \in Txns :
                  \/ Retouched(tx[s][u], tx'[s][u]) /\ u \in {e.id : e \in m.noti}
                  \/ Kept(s, u)
             /\ \A u \in Txns : Kept(s, u) \/ FirstHeard(s, u)
             /\ OnlyAnswers(s)
             /\ \A c \in Sites \X Nodes : \A w \in NewReqs(c) : w.type = "SendOutput"
             /\ \A c \in Sites \X Sites : \A w \in NewReps(c) : IsAnswer(w, s, c)
<1> DEFINE m     == ReqAt(src, s)
           fresh == Unknown(dtxns[s], m.noti)
           x     == PiggyTx(tx[s], m.from, fresh)
           R     == PiggyReady(ready_txns[s], fresh)
           floors == PiggyFloors(s, m.from, m.ts)
           q     == Taken(req, <<src, s>>)
<1>1. s \in Nodes /\ Sites \in SUBSET Nodes BY Placement
<1>2. /\ m \in ReqMsg /\ m.type = "IRSync" /\ m \in MsgsIn(req[<<src, s>>])
      /\ q \in [Sites \X Nodes -> Seq(ReqMsg)]
      /\ \A c \in Sites \X Nodes : MsgsIn(q[c]) \subseteq MsgsIn(req[c])
 <2>1. Receives(src, s, "IRSync") BY DEF OnIRSync
 <2> QED BY <1>1, <2>1, ReceivesType, ReceivesMsgs DEF ReqAt
<1>3. m.from \in Nodes /\ m.ts \in ChrTsType /\ m.noti \in Entries BY <1>2, ReqFields
<1>4. PICK run \in SUBSET Runnable(R, x) :
        /\ CheckExecutableTxns(s, run, R, x, new_input[s], floors, ir_site_max_ts'[s])
        /\ req' = Send(q, s, OutputMsgs(s, run, R))
        /\ rep' = Send(rep, s, DistExeReplies(s, run, R, x)) BY DEF OnIRSync, ReqAt
<1> HIDE DEF m
<1>5. /\ tx \in [Sites -> [Txns -> TxType]] /\ ready_txns \in [Sites -> Entries]
      /\ tx[s] \in [Txns -> TxType] /\ ready_txns[s] \in Entries
      /\ rep \in [Sites \X Sites -> Seq(RepMsg)]
      /\ \A c \in Sites \X Sites : MsgsIn(rep[c]) \subseteq MsgsIn(rep[c]) BY DEF TypeOK
<1>6. fresh \subseteq m.noti /\ fresh \in Entries /\ \A e \in fresh : e.id \notin dtxns[s]
 <2>1. \A e \in fresh : e.id \notin dtxns[s] BY DEF Unknown
 <2>2. fresh \subseteq m.noti /\ fresh \in Entries BY <1>3, QueueGains, EntryFacts
 <2> QED BY <2>1, <2>2
<1>7. fresh \in SUBSET Entry BY <1>6, EntryFacts
<1> HIDE DEF fresh
<1>8. /\ x \in [Txns -> TxType]
      /\ \A u \in Txns : IF \E e \in fresh : e.id = u THEN Piggied(tx[s][u], x[u]) ELSE x[u] = tx[s][u]
 <2> DEFINE x0 == tx[s]
            from == m.from
 <2>1. x0 \in [Txns -> TxType] /\ from \in Nodes /\ x = PiggyTx(x0, from, fresh) BY <1>3, <1>5
 <2> HIDE DEF x0, x, from
 <2>2. /\ x \in [Txns -> TxType]
       /\ \A u \in Txns : IF \E e \in fresh : e.id = u THEN Piggied(x0[u], x[u]) ELSE x[u] = x0[u]
   BY <1>7, <2>1, PiggyTxType, PiggyTxKeeps
 <2> QED BY <2>2 DEF x0
<1>9. R \in Entries /\ R \subseteq ready_txns[s] \cup m.noti
 <2>1. R \in Entries BY <1>5, <1>6, EntryFacts
 <2> QED BY <1>6, <2>1, QueueGains
<1> HIDE DEF x, R, floors, q
<1>10. run \in SUBSET PieceIds BY <1>8, <1>9, RunnableType
<1>11. /\ ready_txns'[s] \subseteq R
       /\ \A r \in Sites \ {s} : tx'[r] = tx[r] /\ ready_txns'[r] = ready_txns[r]
       /\ \A u \in Txns : /\ SameRecord(x[u], tx'[s][u])
                          /\ SameProgress(u, x[u], tx'[s][u], ParOf(s))
       /\ OnlyAnswers(s) BY <1>4, <1>5, <1>8, <1>9, <1>10, ExecutionKeeps
<1>12. ASSUME NEW u \in Txns
       PROVE  \/ Retouched(tx[s][u], tx'[s][u]) /\ u \in {e.id : e \in m.noti}
              \/ Kept(s, u)
 <2>1. CASE u \in {e.id : e \in fresh}
  <3>1. u \in {e.id : e \in m.noti} BY <1>6, <2>1
  <3>2. /\ x[u].phase = LOCAL_CAN_EXE /\ x[u].role = tx[s][u].role
        /\ x[u].owes = tx[s][u].owes /\ x[u].anticipated = tx[s][u].anticipated BY <1>8, <2>1 DEF Piggied
  <3>3. SameRecord(x[u], tx'[s][u]) /\ SameProgress(u, x[u], tx'[s][u], ParOf(s)) BY <1>11
  <3>4. Retouched(tx[s][u], tx'[s][u]) BY <3>2, <3>3 DEF SameRecord, SameProgress, Retouched
  <3> QED BY <3>1, <3>4
 <2>2. CASE u \notin {e.id : e \in fresh}
  <3>1. x[u] = tx[s][u] BY <1>8, <2>2
  <3> QED BY <1>11, <3>1 DEF Kept
 <2> QED BY <2>1, <2>2
<1>13. /\ \A c \in Sites \X Nodes : \A w \in NewReqs(c) : w.type = "SendOutput"
       /\ \A c \in Sites \X Sites : \A w \in NewReps(c) : IsAnswer(w, s, c)
  BY <1>2, <1>4, <1>5, <1>8, <1>9, ExecutionNew
<1>14. OthersKept(s) /\ ready_txns'[s] \subseteq ready_txns[s] \cup m.noti BY <1>9, <1>11 DEF OthersKept
<1>15. ASSUME NEW u \in Txns PROVE Kept(s, u) \/ FirstHeard(s, u)
 <2>1. CASE \E e \in fresh : e.id = u
  <3>1. u \notin dtxns[s] /\ Piggied(tx[s][u], x[u]) /\ SameRecord(x[u], tx'[s][u]) BY <1>6, <1>8, <1>11, <2>1
  <3> QED BY <3>1 DEF Piggied, SameRecord, FirstHeard
 <2>2. CASE ~ \E e \in fresh : e.id = u
  <3>1. x[u] = tx[s][u] BY <1>8, <2>2
  <3> QED BY <1>11, <3>1 DEF Kept
 <2> QED BY <2>1, <2>2
<1> QED BY <1>2, <1>11, <1>12, <1>13, <1>14, <1>15 DEF m

(* A round of IRSyncLoop: an IRSync to every target, none later than the clock of n
   afterwards. *)
LEMMA IRSyncLoopStep ==
  ASSUME TypeOK, NEW n \in Nodes, NEW now \in PhysTimes, IRSyncLoop(n, now)
  PROVE  /\ \A k \in Nodes \ {n} : last_clock'[k] = last_clock[k]
         /\ \/ last_clock'[n] = last_clock[n]
            \/ \E k \in Nat : last_clock'[n] = After(Generate(n, now, dist_txn_tss[n]), k)
         /\ \A c \in Sites \X Nodes : \A m \in NewReqs(c) :
              /\ c[1] = Proc(n) /\ c[2] \in Sites /\ m.type = "IRSync" /\ m.from = n
              /\ m.ts \in ChrTsType /\ LessEq(m.ts, last_clock'[n])
              /\ m.delivered = IF n \in Sites THEN ir_site_max_ts[n][c[2]] ELSE ZeroTs
              /\ m.noti = IF n \in Sites
                          THEN CollectNotifyTxns(n, c[2], my_txns[n], ir_site_notified_ts[n][c[2]])
                          ELSE {}
<1> DEFINE targets == IF n \in Sites THEN Peers(n) \ ir_synced[n]
                      ELSE SitesInRegion(MgrRegion(n)) \ {MgrHost(n)}
           first   == Generate(n, now, dist_txn_tss[n])
           count(d) == Cardinality({c \in targets : c < d})
           size    == Cardinality(targets)
           tsOf(d) == ChrTsOf(first.time, first.stretch + count(d), first.site)
           last    == ChrTsOf(first.time, first.stretch + size - 1, first.site)
           delivered(d) == IF n \in Sites THEN ir_site_max_ts[n][d] ELSE ZeroTs
           noti(d) == IF n \in Sites
                      THEN CollectNotifyTxns(n, d, my_txns[n], ir_site_notified_ts[n][d]) ELSE {}
           msg(d)  == [type |-> "IRSync", from |-> n, ts |-> tsOf(d), delivered |-> delivered(d),
                       noti |-> noti(d)]
           out     == [d \in Nodes |-> IF d \in targets THEN <<msg(d)>> ELSE <<>>]
<1>1. /\ last_clock' = [last_clock EXCEPT ![n] = IF targets = {} THEN @ ELSE last]
      /\ req' = Send(req, n, out) BY DEF IRSyncLoop
<1>2. first \in ChrTsType
 <2>1. dist_txn_tss[n] \in Floors BY DEF TypeOK
 <2> QED BY <2>1, GenerateType DEF TypeOK
<1>3. IsFiniteSet(targets) /\ targets \in SUBSET Sites
 <2>1. targets \in SUBSET Sites BY DEF Peers, SitesInRegion
 <2>2. IsFiniteSet(Sites)
  <3>1. NRegions * NShards * NReplicas - 1 \in Int BY SizesAssumption
  <3> QED BY <3>1, FS_Interval DEF Sites
 <2> HIDE DEF targets
 <2> QED BY <2>1, <2>2, FS_Subset
<1> HIDE DEF first, targets
<1>4. size \in Nat /\ \A d \in targets : count(d) \in Nat /\ count(d) <= size - 1
 <2>1. size \in Nat BY <1>3, FS_CardinalityType
 <2>2. ASSUME NEW d \in targets PROVE count(d) \in Nat /\ count(d) <= size - 1
  <3> DEFINE T == targets \ {d}
             B == {c \in targets : c < d}
  <3>1. IsFiniteSet(T) /\ Cardinality(T) = size - 1 BY <1>3, <2>2, FS_RemoveElement
  <3>2. B \subseteq T BY <1>3, <2>2 DEF Sites
  <3> HIDE DEF T, B
  <3>3. IsFiniteSet(B) /\ Cardinality(B) <= Cardinality(T) /\ Cardinality(B) \in Nat
    BY <3>1, <3>2, FS_Subset, FS_CardinalityType
  <3> QED BY <3>1, <3>3 DEF B
 <2> QED BY <2>1, <2>2
<1>5. targets # {} => size > 0 BY <1>3, <1>4, FS_EmptySet
<1> HIDE DEF count, size
<1>6. \A d \in targets : tsOf(d) \in ChrTsType /\ LessEq(tsOf(d), last)
  BY <1>2, <1>4 DEF ChrTsOf, ChrTsType, LessEq, Less
<1>7. targets # {} => size - 1 \in Nat /\ last = After(first, size - 1) BY <1>2, <1>4, <1>5 DEF After, ChrTsType
<1> HIDE DEF last, tsOf
<1>8. ASSUME NEW c \in Sites \X Nodes, NEW m \in NewReqs(c) PROVE c[1] = Proc(n) /\ c[2] \in targets /\ m = msg(c[2])
 <2>1. ASSUME NEW d \in targets PROVE msg(d) \in ReqMsg
  <3>1. d \in Nodes BY <1>3, Placement
  <3>2. delivered(d) \in ChrTsType BY <3>1, TsFacts DEF TypeOK
  <3>3. noti(d) \in Entries BY <3>1, CollectType, FS_EmptySet DEF TypeOK, Entries
  <3> HIDE DEF delivered, noti
  <3> QED BY <1>6, <2>1, <3>2, <3>3 DEF ReqMsg
 <2> HIDE DEF msg
 <2>2. /\ out \in [Nodes -> Seq(ReqMsg)] /\ c[2] \in Nodes
       /\ out[c[2]] = IF c[2] \in targets THEN <<msg(c[2])>> ELSE <<>> BY <2>1
 <2> HIDE DEF out
 <2>3. c[1] = Proc(n) /\ m \in MsgsIn(out[c[2]]) BY <1>1, <2>2, RequestsSent
 <2> QED BY <2>2, <2>3, OutMsgs
<1>9. /\ \A k \in Nodes \ {n} : last_clock'[k] = last_clock[k]
      /\ last_clock'[n] = IF targets = {} THEN last_clock[n] ELSE last BY <1>1 DEF TypeOK
<1>10. ASSUME NEW c \in Sites \X Nodes, NEW m \in NewReqs(c)
       PROVE  /\ c[1] = Proc(n) /\ c[2] \in Sites /\ m.type = "IRSync" /\ m.from = n
              /\ m.ts \in ChrTsType /\ LessEq(m.ts, last_clock'[n])
              /\ m.delivered = delivered(c[2]) /\ m.noti = noti(c[2])
 <2>1. c[1] = Proc(n) /\ c[2] \in targets /\ m = msg(c[2]) BY <1>8
 <2> HIDE DEF delivered, noti
 <2> QED BY <1>3, <1>6, <1>9, <2>1
<1>11. \/ last_clock'[n] = last_clock[n]
       \/ \E k \in Nat : last_clock'[n] = After(first, k) BY <1>7, <1>9
<1> QED BY <1>9, <1>10, <1>11 DEF first

(* The record y of the coordinator s of t when it submits t. *)
IsCoordinated(y, s, t) ==
  /\ y.role = "crtCoord" /\ y.phase = DIST_REMOTE_SENT /\ y.owes = -1
  /\ y.anticipated = [r \in Regions |-> ZeroTs] /\ y.acks = {} /\ y.mgr_acked = {}
  /\ y.ts = ZeroTs /\ y.pieces = CoordPieces(t, ParOf(s)) /\ y.done = {}
  /\ y.status = [par \in Pars |-> IF par \in Touched(t) THEN P_REMOTE_SENT ELSE P_NOT_RECEIVED]

(* OnSubmitCRT: PrepareRemote to the managers. *)
LEMMA OnSubmitCRTStep ==
  ASSUME TypeOK, NEW s \in Sites, NEW t \in Txns, NEW now \in PhysTimes,
         OnSubmitCRT(s, t, now)
  PROVE  /\ last_clock'[s] = Generate(s, now, dist_txn_tss[s])
         /\ \A u \in Txns \ {t} : tx'[s][u] = tx[s][u]
         /\ IsCoordinated(tx'[s][t], s, t)
         /\ OthersKept(s)
         /\ \A c \in Sites \X Nodes : \A m \in NewReqs(c) :
              /\ c[1] = s /\ m.type = "PrepareRemote" /\ m.txn = t /\ m.ts = last_clock'[s]
              /\ \E r \in TouchedRegions(t) : c[2] = MgrOf(r)
<1> DEFINE ts == Generate(s, now, dist_txn_tss[s])
           ready == IF WaitsForInput(t) THEN 0 ELSE 1
           st == [par \in Pars |-> IF par \in Touched(t) THEN P_REMOTE_SENT ELSE P_NOT_RECEIVED]
           y  == [FreshTx EXCEPT !.phase = DIST_REMOTE_SENT, !.region_handler = s,
                    !.role = "crtCoord", !.pieces = CoordPieces(t, ParOf(s)),
                    !.input_ready = ready, !.status = st]
           msg == [type |-> "PrepareRemote", txn |-> t, ts |-> ts, wait |-> WaitsForInput(t)]
           D  == {MgrOf(r) : r \in TouchedRegions(t)}
<1>1. /\ last_clock' = [last_clock EXCEPT ![s] = ts]
      /\ tx' = [tx EXCEPT ![s][t] = y]
      /\ req' = Send(req, s, ToAll(D, msg))
      /\ UNCHANGED ready_txns BY DEF OnSubmitCRT
<1>2. s \in Nodes /\ TypeOK' BY Placement, OnSubmitCRTType
<1> HIDE DEF ts, st, ready
<1>3. last_clock'[s] = ts BY <1>1, <1>2 DEF TypeOK
<1>4. IsCoordinated(y, s, t) BY DEF FreshTx, IsCoordinated, st
<1> HIDE DEF y
<1>5. /\ tx'[s][t] = y /\ \A u \in Txns \ {t} : tx'[s][u] = tx[s][u]
      /\ OthersKept(s) BY <1>1 DEF TypeOK, OthersKept
<1>6. ASSUME NEW c \in Sites \X Nodes, NEW m \in NewReqs(c) PROVE c[1] = s /\ m = msg /\ c[2] \in D
 <2>1. msg \in ReqMsg
  <3>1. ts \in ChrTsType BY <1>2, <1>3 DEF TypeOK
  <3> QED BY <3>1 DEF ReqMsg, WaitsForInput
 <2> HIDE DEF msg, D
 <2>2. ToAll(D, msg) \in [Nodes -> Seq(ReqMsg)] BY <2>1, OutType
 <2>3. c[1] = Proc(s) /\ m \in MsgsIn(ToAll(D, msg)[c[2]]) /\ c[2] \in Nodes BY <1>1, <2>2, RequestsSent
 <2>4. \A d \in Nodes : MsgsIn(ToAll(D, msg)[d]) = IF d \in D THEN {msg} ELSE {} BY OutMsgs
 <2> QED BY <2>3, <2>4, ProcOfSite
<1>7. ASSUME NEW c \in Sites \X Nodes, NEW m \in NewReqs(c)
      PROVE  /\ c[1] = s /\ m.type = "PrepareRemote" /\ m.txn = t /\ m.ts = last_clock'[s]
             /\ \E r \in TouchedRegions(t) : c[2] = MgrOf(r) BY <1>3, <1>6
<1> QED BY <1>3, <1>4, <1>5, <1>7 DEF ts

(* What a manager tells a site d of its region when m, the submission of a cross-region
   transaction, arrives. *)
CrtMsg(w, m, mgr, d) ==
  /\ w.txn = m.txn
  /\ \/ /\ w.type = "PrepareCRT" /\ w.coord = m.ts.site
        /\ ParOf(d) \in Touched(m.txn) /\ SiteRegion(d) = MgrRegion(mgr)
        /\ w.leader \in Sites /\ ParOf(w.leader) = ParOf(d)
     \/ w.type = "NotiCRT"

(* DastManager::PrepareCRT: PrepareCRT to the replicas of the partitions that the
   transaction touches, NotiCRT to the others, with the new max_future_ts_. *)
LEMMA MgrPrepareCRTStep ==
  ASSUME TypeOK, NEW src \in Sites, NEW mgr \in Managers, NEW now \in PhysTimes,
         MgrPrepareCRT(src, mgr, now)
  PROVE  LET m == ReqAt(src, mgr)
         IN  /\ m \in MsgsIn(req[<<src, mgr>>]) /\ m \in ReqMsg /\ m.type = "PrepareRemote"
             /\ last_clock'[mgr] = Generate(mgr, now, dist_txn_tss[mgr])
             /\ \A k \in Nodes \ {mgr} : last_clock'[k] = last_clock[k]
             /\ max_future_ts'[mgr] = AnticipatedTs(mgr, m.ts, last_clock'[mgr],
                                                    max_future_ts[mgr], EstimatedRtt)
             /\ \A k \in Managers \ {mgr} : max_future_ts'[k] = max_future_ts[k]
             /\ \A c \in Sites \X Nodes : \A w \in NewReqs(c) :
                  /\ c[1] = MgrHost(mgr) /\ c[2] \in Sites
                  /\ CrtMsg(w, m, mgr, c[2]) /\ w.ts = max_future_ts'[mgr]
<1> DEFINE m     == ReqAt(src, mgr)
           coord == m.ts.site
           pars  == {par \in Touched(m.txn) : RegionOf(par) = MgrRegion(mgr)}
           touched == UNION {SitesByPartitionId(par) : par \in pars}
           mine  == Generate(mgr, now, dist_txn_tss[mgr])
           ant   == AnticipatedTs(mgr, m.ts, mine, max_future_ts[mgr], EstimatedRtt)
           ready(d) == IF m.wait /\ ParOf(d) = ParOf(coord) THEN 0 ELSE 1
           prep(d, leader) == [type |-> "PrepareCRT", txn |-> m.txn, ts |-> ant, coord |-> coord,
                               leader |-> leader[ParOf(d)], input_ready |-> ready(d)]
           noti  == [type |-> "NotiCRT", txn |-> m.txn, ts |-> ant, touched |-> touched]
           out(leader) == [d \in Nodes |->
                IF d \in touched THEN <<prep(d, leader)>>
                ELSE IF d \in SitesInRegion(MgrRegion(mgr)) THEN <<noti>> ELSE <<>>]
           q     == Taken(req, <<src, mgr>>)
<1>1. mgr \in Nodes /\ mgr \in Int /\ Proc(mgr) = MgrHost(mgr) /\ TypeOK'
 <2>1. mgr \in Nodes /\ mgr \in Int /\ mgr \notin Sites BY Placement, ManagerFacts
 <2>2. TypeOK' BY MgrPrepareCRTType
 <2> QED BY <2>1, <2>2 DEF Proc
<1>2. /\ m \in ReqMsg /\ m.type = "PrepareRemote" /\ m \in MsgsIn(req[<<src, mgr>>])
      /\ q \in [Sites \X Nodes -> Seq(ReqMsg)]
      /\ \A c \in Sites \X Nodes : MsgsIn(q[c]) \subseteq MsgsIn(req[c])
 <2>1. Receives(src, mgr, "PrepareRemote") BY DEF MgrPrepareCRT
 <2> QED BY <1>1, <2>1, ReceivesType, ReceivesMsgs DEF ReqAt
<1>3. m.txn \in Txns /\ m.ts \in ChrTsType /\ coord \in Int BY <1>2, ReqFields DEF ChrTsType
<1>4. PICK leader \in [pars -> touched] :
        /\ \A par \in pars :
             IF ParOf(coord) = par THEN leader[par] = coord ELSE ParOf(leader[par]) = par
        /\ req' = Send(q, mgr, out(leader)) BY DEF MgrPrepareCRT, ReqAt
<1>5. /\ last_clock' = [last_clock EXCEPT ![mgr] = mine]
      /\ max_future_ts' = [max_future_ts EXCEPT ![mgr] = ant] BY DEF MgrPrepareCRT, ReqAt
<1> HIDE DEF m, mine
<1>6. /\ last_clock'[mgr] = mine /\ \A k \in Nodes \ {mgr} : last_clock'[k] = last_clock[k]
      /\ max_future_ts'[mgr] = ant
      /\ \A k \in Managers \ {mgr} : max_future_ts'[k] = max_future_ts[k] BY <1>1, <1>5 DEF TypeOK
<1>7. max_future_ts'[mgr] = AnticipatedTs(mgr, m.ts, last_clock'[mgr], max_future_ts[mgr], EstimatedRtt) BY <1>6
<1>8. ant \in AnticipatedType BY <1>1, <1>6 DEF TypeOK
<1> HIDE DEF ant, coord
<1>9. /\ touched \in SUBSET Sites
      /\ \A d \in touched : ParOf(d) \in pars /\ ParOf(d) \in Touched(m.txn)
                            /\ SiteRegion(d) = MgrRegion(mgr) BY DEF SitesByPartitionId, SiteRegion
<1>10. \A d \in touched : leader[ParOf(d)] \in Sites /\ ParOf(leader[ParOf(d)]) = ParOf(d) BY <1>4, <1>9
<1> HIDE DEF touched, pars
<1>11. ASSUME NEW c \in Sites \X Nodes, NEW w \in NewReqs(c)
       PROVE  /\ c[1] = MgrHost(mgr)
              /\ \/ c[2] \in touched /\ w = prep(c[2], leader)
                 \/ c[2] \in SitesInRegion(MgrRegion(mgr)) /\ w = noti
 <2>1. ASSUME NEW d \in touched PROVE prep(d, leader) \in ReqMsg
  <3>1. leader[ParOf(d)] \in Sites /\ ready(d) \in 0..1 BY <1>10
  <3> HIDE DEF ready
  <3> QED BY <1>3, <1>8, <3>1 DEF ReqMsg
 <2>2. noti \in ReqMsg BY <1>3, <1>8, <1>9 DEF ReqMsg
 <2> HIDE DEF prep, noti
 <2>3. /\ out(leader) \in [Nodes -> Seq(ReqMsg)] /\ c[2] \in Nodes
       /\ out(leader)[c[2]] = IF c[2] \in touched THEN <<prep(c[2], leader)>>
                              ELSE IF c[2] \in SitesInRegion(MgrRegion(mgr)) THEN <<noti>> ELSE <<>> BY <2>1, <2>2
 <2> HIDE DEF out
 <2>4. c[1] = Proc(mgr) /\ w \in MsgsIn(out(leader)[c[2]]) BY <1>2, <1>4, <2>3, RequestsAfter
 <2>5. c[1] = MgrHost(mgr) BY <1>1, <2>4
 <2> QED BY <2>3, <2>4, <2>5, OutMsgs
<1>12. ASSUME NEW c \in Sites \X Nodes, NEW w \in NewReqs(c)
       PROVE  /\ c[1] = MgrHost(mgr) /\ c[2] \in Sites
              /\ w.txn = m.txn /\ w.ts = ant
              /\ \/ /\ w.type = "PrepareCRT" /\ w.coord = coord
                    /\ ParOf(c[2]) \in Touched(m.txn) /\ SiteRegion(c[2]) = MgrRegion(mgr)
                    /\ w.leader \in Sites /\ ParOf(w.leader) = ParOf(c[2])
                 \/ w.type = "NotiCRT"
 <2>1. c[1] = MgrHost(mgr) BY <1>11
 <2>2. CASE c[2] \in touched /\ w = prep(c[2], leader) BY <1>9, <1>10, <2>1, <2>2
 <2>3. CASE c[2] \in SitesInRegion(MgrRegion(mgr)) /\ w = noti BY <2>1, <2>3 DEF SitesInRegion
 <2> QED BY <1>11, <2>2, <2>3
<1>13. ASSUME NEW c \in Sites \X Nodes, NEW w \in NewReqs(c)
       PROVE  /\ c[1] = MgrHost(mgr) /\ c[2] \in Sites
              /\ CrtMsg(w, m, mgr, c[2]) /\ w.ts = max_future_ts'[mgr] BY <1>6, <1>12 DEF CrtMsg, coord
<1> QED BY <1>2, <1>6, <1>7, <1>13 DEF m, mine

(* DastManager::NotiWait passes the message on as NotiCommit. *)
LEMMA NotiWaitStep ==
  ASSUME TypeOK, NEW src \in Sites, NEW mgr \in Managers, NotiWait(src, mgr)
  PROVE  LET m == ReqAt(src, mgr)
         IN  /\ m \in MsgsIn(req[<<src, mgr>>]) /\ m \in ReqMsg /\ m.type = "NotiWait"
             /\ \A c \in Sites \X Nodes : \A w \in NewReqs(c) :
                  /\ w.type = "NotiCommit" /\ w.txn = m.txn /\ w.orig = m.orig
                  /\ w.wait = m.wait /\ w.new = m.new
<1> DEFINE m == ReqAt(src, mgr)
           q == Taken(req, <<src, mgr>>)
           D == SitesInRegion(MgrRegion(mgr)) \ m.touched
           msg == [m EXCEPT !.type = "NotiCommit"]
           out == ToAll(D, msg)
<1>1. mgr \in Nodes BY Placement
<1>2. /\ m \in ReqMsg /\ m.type = "NotiWait" /\ m \in MsgsIn(req[<<src, mgr>>])
      /\ q \in [Sites \X Nodes -> Seq(ReqMsg)]
      /\ \A c \in Sites \X Nodes : MsgsIn(q[c]) \subseteq MsgsIn(req[c])
 <2>1. Receives(src, mgr, "NotiWait") BY DEF NotiWait
 <2> QED BY <1>1, <2>1, ReceivesType, ReceivesMsgs DEF ReqAt
<1>3. req' = Send(q, mgr, out) BY DEF NotiWait, ReqAt
<1> HIDE DEF m, q
<1>4. /\ msg \in ReqMsg /\ msg.type = "NotiCommit" /\ msg.txn = m.txn /\ msg.orig = m.orig
      /\ msg.wait = m.wait /\ msg.new = m.new BY <1>2 DEF ReqMsg
<1> HIDE DEF msg, D
<1>5. out \in [Nodes -> Seq(ReqMsg)] BY <1>4, OutType
<1>6. \A d \in Nodes : MsgsIn(out[d]) = IF d \in D THEN {msg} ELSE {} BY OutMsgs
<1> HIDE DEF out
<1>7. ASSUME NEW c \in Sites \X Nodes, NEW w \in NewReqs(c) PROVE w = msg
 <2>1. w \in MsgsIn(out[c[2]]) BY <1>2, <1>3, <1>5, RequestsAfter
 <2>2. c[2] \in Nodes OBVIOUS
 <2> QED BY <1>6, <2>1, <2>2
<1> QED BY <1>2, <1>4, <1>7 DEF m

(* The acknowledgement of par completes it, and with it the transaction. *)
Decides(t, acked, par) == Prepared(acked, par) /\ AllPrepared(t, WithPrepared(acked, par))

(* The coordinator's record with the decision. *)
Decided(t, y) == [y EXCEPT !.ts = DecisionTs(t, y), !.phase = DIST_CAN_EXE]

(* What completing a partition and deciding change. *)
LEMMA DecidedRecord ==
  ASSUME NEW t \in Txns, NEW acked \in TxType, NEW par
  PROVE  LET y == WithPrepared(acked, par)
             z == Decided(t, y)
         IN  /\ y \in TxType /\ z \in TxType
             /\ y.ts = acked.ts /\ y.phase = acked.phase /\ y.role = acked.role
             /\ y.owes = acked.owes /\ y.anticipated = acked.anticipated
             /\ y.pieces = acked.pieces /\ y.done = acked.done /\ y.acks = acked.acks
             /\ y.mgr_acked = acked.mgr_acked /\ y.region_handler = acked.region_handler
             /\ y.status = IF Prepared(acked, par)
                           THEN [acked.status EXCEPT ![par] = P_REMOTE_PREPARED]
                           ELSE acked.status
             /\ z.ts = DecisionTs(t, y) /\ z.phase = DIST_CAN_EXE /\ z.role = y.role
             /\ z.owes = y.owes /\ z.anticipated = y.anticipated /\ z.status = y.status
             /\ z.pieces = y.pieces /\ z.done = y.done /\ z.acks = y.acks
             /\ z.mgr_acked = y.mgr_acked /\ z.region_handler = y.region_handler
<1> DEFINE y  == WithPrepared(acked, par)
           st == [acked.status EXCEPT ![par] = P_REMOTE_PREPARED]
           y1 == [acked EXCEPT !.status = st]
<1>1. st \in StatusOfPars BY PhaseFacts DEF TxType
<1>2. y = IF Prepared(acked, par) THEN y1 ELSE acked
 <2>1. [acked EXCEPT !.status[par] = P_REMOTE_PREPARED] = y1 BY DEF TxType
 <2> QED BY <2>1 DEF WithPrepared
<1> HIDE DEF st
<1>3. /\ y1 \in TxType /\ y1.status = st
      /\ y1.ts = acked.ts /\ y1.phase = acked.phase /\ y1.role = acked.role
      /\ y1.owes = acked.owes /\ y1.anticipated = acked.anticipated
      /\ y1.pieces = acked.pieces /\ y1.done = acked.done /\ y1.acks = acked.acks
      /\ y1.mgr_acked = acked.mgr_acked /\ y1.region_handler = acked.region_handler BY <1>1 DEF TxType
<1> HIDE DEF y, y1
<1>4. y \in TxType BY <1>2, <1>3
<1>5. DecisionTs(t, y) \in ChrTsType BY <1>4, DecisionType, TsFacts
<1>6. /\ Decided(t, y) \in TxType /\ Decided(t, y).ts = DecisionTs(t, y)
      /\ Decided(t, y).phase = DIST_CAN_EXE /\ Decided(t, y).role = y.role
      /\ Decided(t, y).owes = y.owes /\ Decided(t, y).anticipated = y.anticipated
      /\ Decided(t, y).status = y.status
      /\ Decided(t, y).pieces = y.pieces /\ Decided(t, y).done = y.done
      /\ Decided(t, y).acks = y.acks /\ Decided(t, y).mgr_acked = y.mgr_acked
      /\ Decided(t, y).region_handler = y.region_handler BY <1>4, <1>5, PhaseFacts DEF TxType, Decided
<1>7. /\ y.ts = acked.ts /\ y.phase = acked.phase /\ y.role = acked.role
      /\ y.owes = acked.owes /\ y.anticipated = acked.anticipated
      /\ y.pieces = acked.pieces /\ y.done = acked.done /\ y.acks = acked.acks
      /\ y.mgr_acked = acked.mgr_acked /\ y.region_handler = acked.region_handler
      /\ y.status = IF Prepared(acked, par) THEN st ELSE acked.status BY <1>2, <1>3
<1> QED BY <1>4, <1>6, <1>7 DEF y, st

(* NotiWait of a decision. *)
LEMMA NotiWaitFields ==
  ASSUME NEW s \in Sites, NEW t \in Txns, NEW y \in TxType, NEW r \in TouchedRegions(t)
  PROVE  LET m == NotiWaitMsg(s, t, y, r)
         IN  /\ m \in ReqMsg /\ m.type = "NotiWait" /\ m.txn = t /\ m.orig = y.anticipated[r]
             /\ m.wait => m.new = DecisionTs(t, y)
<1> DEFINE waits == ~AllPiecesInputReady(y) /\ r = SiteRegion(s)
           new == IF waits THEN DecisionTs(t, y) ELSE ZeroTs
           touched == IF waits THEN SitesByPartitionId(ParOf(s)) ELSE {}
<1>1. y.anticipated \in TsOfRegions /\ r \in Regions BY Workload DEF TxType
<1>2. y.anticipated[r] \in ChrTsType BY <1>1, TsFacts DEF TsOfRegions
<1>3. waits \in BOOLEAN /\ new \in AnticipatedType /\ touched \in SUBSET Sites
  BY DecisionType, TsFacts DEF SitesByPartitionId
<1>4. NotiWaitMsg(s, t, y, r) = [type |-> "NotiWait", txn |-> t, orig |-> y.anticipated[r],
                                 wait |-> waits, new |-> new, touched |-> touched] BY DEF NotiWaitMsg
<1>5. waits => new = DecisionTs(t, y) OBVIOUS
<1> HIDE DEF waits, new, touched
<1> QED BY <1>2, <1>3, <1>4, <1>5 DEF ReqMsg

(* The messages of CheckRemotePrepared: the decision to every other replica of every
   partition, and NotiWait to the managers. *)
DecisionMsg(m, s, t, y, d) ==
  /\ m.txn = t
  /\ \/ /\ m.type = "DistExe" /\ m.ts = DecisionTs(t, y)
        /\ d \in Sites \ {s} /\ ParOf(d) \in Touched(t)
     \/ /\ m.type = "NotiWait" /\ m.orig = y.anticipated[MgrRegion(d)]
        /\ m.wait => m.new = DecisionTs(t, y)
        /\ d \in Managers /\ MgrRegion(d) \in TouchedRegions(t)

(* The replicas of the partitions that a transaction touches. *)
LEMMA TouchedSites ==
  \A P : \A d \in UNION {SitesByPartitionId(p) : p \in P} : d \in Sites /\ ParOf(d) \in P BY DEF SitesByPartitionId

(* What CheckRemotePrepared leaves, acked being the record with one more acknowledgement
   of par: the decision, or one that is not complete yet. *)
Acknowledged(s, t, acked, par, now) ==
  LET y == WithPrepared(acked, par)
  IN  \/ /\ ~Decides(t, acked, par)
         /\ tx'[s][t] = y /\ ready_txns'[s] = ready_txns[s]
         /\ UNCHANGED <<last_clock, rep>> /\ NoNewReqs
      \/ /\ Decides(t, acked, par)
         /\ \E f \in Floors : last_clock' = [last_clock EXCEPT ![s] = Generate(s, now, f)]
         /\ SameRecord(Decided(t, y), tx'[s][t])
         /\ SameProgress(t, Decided(t, y), tx'[s][t], ParOf(s))
         /\ ready_txns'[s] \subseteq ready_txns[s] \cup {[ts |-> DecisionTs(t, y), id |-> t]}
         /\ \A c \in Sites \X Nodes : \A m \in NewReqs(c) :
              m.type = "SendOutput" \/ (c[1] = s /\ DecisionMsg(m, s, t, y, c[2]))
         /\ \A c \in Sites \X Sites : \A m \in NewReps(c) : IsAnswer(m, s, c)

(* CheckRemotePrepared does this. *)
LEMMA CheckRemotePreparedLeaves ==
  ASSUME TypeOK, NEW s \in Sites, NEW t \in Txns, NEW acked \in TxType, NEW par,
         NEW floors \in Floors, NEW q \in [Sites \X Nodes -> Seq(ReqMsg)],
         \A c \in Sites \X Nodes : MsgsIn(q[c]) \subseteq MsgsIn(req[c]),
         NEW now \in PhysTimes, CheckRemotePrepared(s, t, acked, par, floors, q, now)
  PROVE  /\ OthersKept(s) /\ OnlyAnswers(s)
         /\ \A u \in Txns \ {t} : Kept(s, u)
         /\ Acknowledged(s, t, acked, par, now)
<1> DEFINE y == WithPrepared(acked, par)
           decision == DecisionTs(t, y)
           floors1  == (floors \ {y.ts}) \cup (IF AllPiecesInputReady(y) THEN {} ELSE {decision})
           z        == Decided(t, y)
           x        == [tx[s] EXCEPT ![t] = z]
           R        == PutReady(ready_txns[s], decision, t)
           sites    == (UNION {SitesByPartitionId(p) : p \in Touched(t)}) \ {s}
           exe      == [type |-> "DistExe", txn |-> t, ts |-> decision]
           out      == [d \in Nodes |->
                          IF d \in sites THEN <<exe>>
                          ELSE IF d \in Managers /\ MgrRegion(d) \in TouchedRegions(t)
                          THEN <<NotiWaitMsg(s, t, y, MgrRegion(d))>>
                          ELSE <<>>]
<1>1. s \in Nodes /\ Sites \in SUBSET Nodes BY Placement
<1>2. /\ tx \in [Sites -> [Txns -> TxType]] /\ ready_txns \in [Sites -> Entries]
      /\ tx[s] \in [Txns -> TxType] /\ ready_txns[s] \in Entries
      /\ rep \in [Sites \X Sites -> Seq(RepMsg)]
      /\ \A c \in Sites \X Sites : MsgsIn(rep[c]) \subseteq MsgsIn(rep[c]) BY DEF TypeOK
<1>3. \/ /\ ~Decides(t, acked, par)
         /\ NoExecution(s, ready_txns[s], [tx[s] EXCEPT ![t] = y], new_input[s], floors)
         /\ req' = q
         /\ UNCHANGED <<last_clock, rep>>
      \/ /\ Decides(t, acked, par)
         /\ last_clock' = [last_clock EXCEPT ![s] = Generate(s, now, floors1)]
         /\ \E run \in SUBSET Runnable(R, x) :
              /\ CheckExecutableTxns(s, run, R, x, new_input[s], floors1, ir_site_max_ts[s])
              /\ req' = Send(q, s, Then(out, OutputMsgs(s, run, R)))
              /\ rep' = Send(rep, s, DistExeReplies(s, run, R, x)) BY DEF CheckRemotePrepared, Decides, Decided
<1>4. y \in TxType /\ z \in TxType BY DecidedRecord
<1> HIDE DEF y
<1>5. decision \in AnticipatedType /\ decision \in ChrTsType BY <1>4, DecisionType, TsFacts
<1>19. floors1 \in Floors
 <2> HIDE DEF decision
 <2>1. floors \ {y.ts} \in Floors /\ {} \in Floors /\ {decision} \in Floors BY <1>5, FloorFacts
 <2> QED BY <2>1, FloorFacts
<1>6. \A r \in TouchedRegions(t) :
        LET w == NotiWaitMsg(s, t, y, r)
        IN  /\ w \in ReqMsg /\ w.type = "NotiWait" /\ w.txn = t /\ w.orig = y.anticipated[r]
            /\ w.wait => w.new = decision BY <1>4, NotiWaitFields
<1>7. exe \in ReqMsg /\ exe.type = "DistExe" /\ exe.txn = t /\ exe.ts = decision BY <1>5 DEF ReqMsg
<1>8. ASSUME NEW d \in sites PROVE d \in Sites \ {s} /\ ParOf(d) \in Touched(t) BY TouchedSites
<1> HIDE DEF sites, exe
<1>9. /\ out \in [Nodes -> Seq(ReqMsg)]
      /\ \A d \in Nodes : out[d] = IF d \in sites THEN <<exe>>
                                   ELSE IF d \in Managers /\ MgrRegion(d) \in TouchedRegions(t)
                                   THEN <<NotiWaitMsg(s, t, y, MgrRegion(d))>>
                                   ELSE <<>> BY <1>6, <1>7
<1> HIDE DEF out
<1>10. ASSUME NEW d \in Nodes, NEW m \in MsgsIn(out[d]) PROVE DecisionMsg(m, s, t, y, d)
 <2>1. \/ d \in sites /\ m = exe
       \/ d \in Managers /\ MgrRegion(d) \in TouchedRegions(t) /\ m = NotiWaitMsg(s, t, y, MgrRegion(d))
   BY <1>9, <1>10, OutMsgs
 <2> QED BY <1>6, <1>7, <1>8, <2>1 DEF DecisionMsg
<1>11. x \in [Txns -> TxType] /\ x[t] = z /\ \A u \in Txns \ {t} : x[u] = tx[s][u]
 <2> HIDE DEF z
 <2> QED BY <1>2, <1>4
<1>12. R \in Entries /\ R \subseteq ready_txns[s] \cup {[ts |-> decision, id |-> t]}
  BY <1>2, <1>5, EntryFacts, QueueGains
<1>13. ASSUME NoExecution(s, ready_txns[s], [tx[s] EXCEPT ![t] = y], new_input[s], floors)
       PROVE  /\ OthersKept(s) /\ OnlyAnswers(s) /\ \A u \in Txns \ {t} : Kept(s, u)
              /\ tx'[s][t] = y /\ ready_txns'[s] = ready_txns[s]
 <2> DEFINE xy == [tx[s] EXCEPT ![t] = y]
 <2>1. NoExecution(s, ready_txns[s], xy, new_input[s], floors) BY <1>13
 <2>2. xy[t] = y /\ \A u \in Txns \ {t} : xy[u] = tx[s][u] BY <1>2
 <2> HIDE DEF xy
 <2>3. /\ ready_txns'[s] = ready_txns[s] /\ tx'[s] = xy
       /\ \A r \in Sites \ {s} : tx'[r] = tx[r] /\ ready_txns'[r] = ready_txns[r]
       /\ OnlyAnswers(s) BY <1>2, <2>1, NoExecutionKeeps
 <2>4. \A u \in Txns \ {t} : Kept(s, u) BY <2>2, <2>3 DEF Kept, SameRecord, SameProgress
 <2>5. tx'[s][t] = y /\ OthersKept(s) /\ OnlyAnswers(s) BY <2>2, <2>3 DEF OthersKept
 <2> QED BY <1>13, <2>3, <2>4, <2>5
<1> HIDE DEF x, R, floors1, z
<1>14. ASSUME Decides(t, acked, par),
              last_clock' = [last_clock EXCEPT ![s] = Generate(s, now, floors1)],
              NEW run \in SUBSET Runnable(R, x),
              CheckExecutableTxns(s, run, R, x, new_input[s], floors1, ir_site_max_ts[s]),
              req' = Send(q, s, Then(out, OutputMsgs(s, run, R))),
              rep' = Send(rep, s, DistExeReplies(s, run, R, x))
       PROVE  /\ OthersKept(s) /\ OnlyAnswers(s)
              /\ \A u \in Txns \ {t} : Kept(s, u)
              /\ SameRecord(z, tx'[s][t])
              /\ SameProgress(t, z, tx'[s][t], ParOf(s))
              /\ ready_txns'[s] \subseteq R
              /\ \A c \in Sites \X Nodes : \A m \in NewReqs(c) :
                   m.type = "SendOutput" \/ (c[1] = s /\ DecisionMsg(m, s, t, y, c[2]))
              /\ \A c \in Sites \X Sites : \A m \in NewReps(c) : IsAnswer(m, s, c)
 <2>1. run \in SUBSET PieceIds BY <1>11, <1>12, RunnableType
 <2>2. /\ ready_txns'[s] \subseteq R
       /\ \A r \in Sites \ {s} : tx'[r] = tx[r] /\ ready_txns'[r] = ready_txns[r]
       /\ OnlyAnswers(s)
       /\ \A u \in Txns : /\ SameRecord(x[u], tx'[s][u])
                          /\ SameProgress(u, x[u], tx'[s][u], ParOf(s))
   BY <1>2, <1>11, <1>12, <1>14, <2>1, ExecutionKeeps
 <2>3. \A c \in Sites \X Sites : \A m \in NewReps(c) : IsAnswer(m, s, c) BY <1>2, <1>11, <1>12, <1>14, ExecutionNew
 <2>4. ASSUME NEW c \in Sites \X Nodes, NEW m \in NewReqs(c)
       PROVE m.type = "SendOutput" \/ (c[1] = s /\ DecisionMsg(m, s, t, y, c[2]))
  <3>1. m.type = "SendOutput" \/ (c[1] = s /\ m \in MsgsIn(out[c[2]])) BY <1>9, <1>12, <1>14, <2>1, OutputsThen
  <3>2. c[2] \in Nodes OBVIOUS
  <3> QED BY <1>10, <3>1, <3>2
 <2>5. \A u \in Txns \ {t} : Kept(s, u) BY <1>11, <2>2 DEF Kept
 <2> QED BY <1>11, <2>2, <2>3, <2>4, <2>5 DEF OthersKept
<1>15. ASSUME Decides(t, acked, par),
              last_clock' = [last_clock EXCEPT ![s] = Generate(s, now, floors1)],
              \E run \in SUBSET Runnable(R, x) :
                /\ CheckExecutableTxns(s, run, R, x, new_input[s], floors1, ir_site_max_ts[s])
                /\ req' = Send(q, s, Then(out, OutputMsgs(s, run, R)))
                /\ rep' = Send(rep, s, DistExeReplies(s, run, R, x))
       PROVE  /\ OthersKept(s) /\ OnlyAnswers(s)
              /\ \A u \in Txns \ {t} : Kept(s, u)
              /\ \E f \in Floors : last_clock' = [last_clock EXCEPT ![s] = Generate(s, now, f)]
              /\ SameRecord(z, tx'[s][t])
              /\ SameProgress(t, z, tx'[s][t], ParOf(s))
              /\ ready_txns'[s] \subseteq ready_txns[s] \cup {[ts |-> decision, id |-> t]}
              /\ \A c \in Sites \X Nodes : \A m \in NewReqs(c) :
                   m.type = "SendOutput" \/ (c[1] = s /\ DecisionMsg(m, s, t, y, c[2]))
              /\ \A c \in Sites \X Sites : \A m \in NewReps(c) : IsAnswer(m, s, c)
 <2>1. \E f \in Floors : last_clock' = [last_clock EXCEPT ![s] = Generate(s, now, f)] BY <1>15, <1>19
 <2> QED BY <1>12, <1>14, <1>15, <2>1
<1>16. req' = q => NoNewReqs BY DEF NoNewReqs, NewReqs
<1>17. CASE ~Decides(t, acked, par) BY <1>3, <1>13, <1>16, <1>17 DEF Acknowledged, y
<1>18. CASE Decides(t, acked, par) BY <1>3, <1>15, <1>18 DEF Acknowledged, y, z
<1> QED BY <1>17, <1>18

(* The coordinator's record with its own acknowledgement, and with that of another
   replica. *)
OwnAck(y, s, ts) ==
  [y EXCEPT !.mgr_acked = @ \cup {ParOf(s)}, !.acks = @ \cup {s}, !.ts = ts,
            !.anticipated[SiteRegion(s)] = ts]
Ack(y, src, ts, leads) ==
  [y EXCEPT !.acks = @ \cup {src}, !.anticipated[RegionOf(ParOf(src))] = ts,
            !.mgr_acked = IF leads THEN @ \cup {ParOf(src)} ELSE @]

(* What they change. *)
LEMMA AckRecords ==
  ASSUME NEW y \in TxType, NEW s \in Sites, NEW ts \in AnticipatedType, NEW leads
  PROVE  LET a == OwnAck(y, s, ts)
             b == Ack(y, s, ts, leads)
         IN  /\ a \in TxType /\ b \in TxType /\ a.ts = ts /\ b.ts = y.ts
             /\ a.phase = y.phase /\ b.phase = y.phase /\ a.role = y.role /\ b.role = y.role
             /\ a.owes = y.owes /\ b.owes = y.owes /\ a.status = y.status /\ b.status = y.status
             /\ a.pieces = y.pieces /\ b.pieces = y.pieces /\ a.done = y.done /\ b.done = y.done
             /\ a.region_handler = y.region_handler /\ b.region_handler = y.region_handler
             /\ a.acks = y.acks \cup {s} /\ b.acks = y.acks \cup {s}
             /\ a.mgr_acked = y.mgr_acked \cup {ParOf(s)}
             /\ b.mgr_acked = IF leads THEN y.mgr_acked \cup {ParOf(s)} ELSE y.mgr_acked
             /\ a.anticipated = [y.anticipated EXCEPT ![SiteRegion(s)] = ts]
             /\ b.anticipated = [y.anticipated EXCEPT ![SiteRegion(s)] = ts]
<1>1. OwnAck(y, s, ts) \in TxType /\ Ack(y, s, ts, leads) \in TxType BY OwnAckType, AckType DEF OwnAck, Ack
<1> QED BY <1>1 DEF OwnAck, Ack, TxType, SiteRegion

(* OnRemotePrepared: one more acknowledgement. *)
LEMMA OnRemotePreparedStep ==
  ASSUME TypeOK, NEW src \in Sites, NEW s \in Sites, NEW now \in PhysTimes,
         OnRemotePrepared(src, s, now)
  PROVE  LET m == ReqAt(src, s)
         IN  /\ m \in MsgsIn(req[<<src, s>>]) /\ m \in ReqMsg /\ m.type = "RemotePrepared"
             /\ OthersKept(s) /\ OnlyAnswers(s)
             /\ \A u \in Txns \ {m.txn} : Kept(s, u)
             /\ Acknowledged(s, m.txn, Ack(tx[s][m.txn], src, m.ts, m.leads), ParOf(src), now)
<1> DEFINE m     == ReqAt(src, s)
           t     == m.txn
           acked == Ack(tx[s][t], src, m.ts, m.leads)
           q     == Taken(req, <<src, s>>)
<1>1. s \in Nodes BY Placement
<1>2. /\ m \in ReqMsg /\ m.type = "RemotePrepared" /\ m \in MsgsIn(req[<<src, s>>])
      /\ q \in [Sites \X Nodes -> Seq(ReqMsg)]
      /\ \A c \in Sites \X Nodes : MsgsIn(q[c]) \subseteq MsgsIn(req[c])
 <2>1. Receives(src, s, "RemotePrepared") BY DEF OnRemotePrepared
 <2> QED BY <1>1, <2>1, ReceivesType, ReceivesMsgs DEF ReqAt
<1>3. t \in Txns /\ m.ts \in AnticipatedType BY <1>2, ReqFields
<1>4. CheckRemotePrepared(s, t, acked, ParOf(src), dist_txn_tss[s], q, now) BY DEF OnRemotePrepared, ReqAt, Ack
<1> HIDE DEF m, q
<1>5. tx[s][t] \in TxType BY <1>3 DEF TypeOK
<1>6. acked \in TxType BY <1>3, <1>5, AckRecords
<1> HIDE DEF acked, t
<1>7. /\ OthersKept(s) /\ OnlyAnswers(s)
      /\ \A u \in Txns \ {t} : Kept(s, u)
      /\ Acknowledged(s, t, acked, ParOf(src), now)
 <2>1. dist_txn_tss[s] \in Floors BY <1>1 DEF TypeOK
 <2> QED BY <1>2, <1>3, <1>4, <1>6, <2>1, CheckRemotePreparedLeaves
<1> QED BY <1>2, <1>7 DEF acked, t, m

(* The record y of a replica s that has stored the PrepareCRT m, and the RemotePrepared
   w with which it answers. *)
IsPrepared(y, s, m) ==
  /\ y.ts = m.ts /\ y.phase = PHASE_EMPTY /\ y.role = "crtReplica" /\ y.owes = -1
  /\ y.region_handler = m.leader /\ y.pieces = PiecesAt(m.txn, ParOf(s))
  /\ y.done = {} /\ y.acks = {} /\ y.anticipated = [r \in Regions |-> ZeroTs]

PreparedMsg(w, s, m) ==
  w.type = "RemotePrepared" /\ w.txn = m.txn /\ w.ts = m.ts /\ w.leads = (m.leader = s)

(* OnPrepareCRT: at the coordinator, after DistExe, and at any other replica, which
   answers the coordinator. *)
LEMMA OnPrepareCRTStep ==
  ASSUME TypeOK, NEW src \in Sites, NEW s \in Sites, NEW now \in PhysTimes,
         OnPrepareCRT(src, s, now)
  PROVE  LET m == ReqAt(src, s)
         IN  /\ m \in MsgsIn(req[<<src, s>>]) /\ m \in ReqMsg /\ m.type = "PrepareCRT"
             /\ OthersKept(s) /\ OnlyAnswers(s)
             /\ \A u \in Txns \ {m.txn} : Kept(s, u)
             /\ \/ /\ m.txn \in dtxns[s] /\ tx[s][m.txn].phase = DIST_REMOTE_SENT
                   /\ Acknowledged(s, m.txn, OwnAck(tx[s][m.txn], s, m.ts), ParOf(s), now)
                   /\ UNCHANGED dtxns
                \/ /\ m.txn \in dtxns[s] /\ tx[s][m.txn].phase # DIST_REMOTE_SENT
                   /\ Kept(s, m.txn) /\ ready_txns'[s] = ready_txns[s]
                   /\ UNCHANGED <<last_clock, rep, dtxns>> /\ NoNewReqs
                \/ /\ m.txn \notin dtxns[s]
                   /\ IsPrepared(tx'[s][m.txn], s, m)
                   /\ ready_txns'[s] \subseteq ready_txns[s] \cup {[ts |-> m.ts, id |-> m.txn]}
                   /\ dtxns' = [dtxns EXCEPT ![s] = @ \cup {m.txn}]
                   /\ UNCHANGED <<last_clock, rep>>
                   /\ \A c \in Sites \X Nodes : \A w \in NewReqs(c) :
                        c[1] = s /\ c[2] = m.coord /\ PreparedMsg(w, s, m)
<1> DEFINE m     == ReqAt(src, s)
           t     == m.txn
           y     == tx[s][t]
           acked == OwnAck(y, s, m.ts)
           q     == Taken(req, <<src, s>>)
           waits == [y EXCEPT !.input_ready = IF @ = 1 THEN m.input_ready ELSE @]
           new   == [FreshTx EXCEPT !.ts = m.ts, !.region_handler = m.leader,
                       !.role = "crtReplica", !.pieces = PiecesAt(t, ParOf(s)),
                       !.input_ready = m.input_ready]
           msg   == [type |-> "RemotePrepared", txn |-> t, ts |-> m.ts, leads |-> m.leader = s]
           floors == dist_txn_tss[s] \cup {m.ts}
           R     == PutReady(ready_txns[s], m.ts, t)
<1>1. s \in Nodes BY Placement
<1>2. /\ m \in ReqMsg /\ m.type = "PrepareCRT" /\ m \in MsgsIn(req[<<src, s>>])
      /\ q \in [Sites \X Nodes -> Seq(ReqMsg)]
      /\ \A c \in Sites \X Nodes : MsgsIn(q[c]) \subseteq MsgsIn(req[c])
 <2>1. Receives(src, s, "PrepareCRT") BY DEF OnPrepareCRT
 <2> QED BY <1>1, <2>1, ReceivesType, ReceivesMsgs DEF ReqAt
<1>3. /\ t \in Txns /\ m.ts \in AnticipatedType /\ m.coord \in Int /\ m.leader \in Sites
      /\ m.input_ready \in 0..1 /\ m.ts \in ChrTsType BY <1>2, ReqFields, TsFacts
<1>4. \/ /\ t \in dtxns[s] /\ y.phase = DIST_REMOTE_SENT
         /\ CheckRemotePrepared(s, t, acked, ParOf(s), floors, q, now)
         /\ UNCHANGED dtxns
      \/ /\ t \in dtxns[s] /\ y.phase # DIST_REMOTE_SENT
         /\ tx' = [tx EXCEPT ![s][t] = waits]
         /\ req' = q
         /\ UNCHANGED <<last_clock, dtxns, ready_txns, rep, replied>>
      \/ /\ t \notin dtxns[s]
         /\ dtxns' = [dtxns EXCEPT ![s] = @ \cup {t}]
         /\ NoExecution(s, R, [tx[s] EXCEPT ![t] = new], new_input[s], floors)
         /\ req' = Send(q, s, ToAll({m.coord}, msg))
         /\ UNCHANGED <<last_clock, rep>> BY DEF OnPrepareCRT, ReqAt, OwnAck
<1> HIDE DEF m, q
<1>5. /\ tx \in [Sites -> [Txns -> TxType]] /\ ready_txns \in [Sites -> Entries]
      /\ tx[s] \in [Txns -> TxType] /\ y \in TxType /\ ready_txns[s] \in Entries BY <1>3 DEF TypeOK
<1>6. acked \in TxType BY <1>3, <1>5, AckRecords
<1>7. SameRecord(y, waits) /\ SameProgress(t, y, waits, ParOf(s))
 <2> HIDE DEF y
 <2> QED BY <1>5 DEF TxType, SameRecord, SameProgress
<1>8. IsPrepared(new, s, m) BY DEF FreshTx, IsPrepared
<1>9. msg \in ReqMsg BY <1>3 DEF ReqMsg
<1>10. R \subseteq ready_txns[s] \cup {[ts |-> m.ts, id |-> t]} BY QueueGains
<1>17. floors \in Floors
 <2>1. dist_txn_tss[s] \in Floors BY <1>1 DEF TypeOK
 <2> QED BY <1>3, <2>1, FloorFacts
<1> HIDE DEF acked, waits, new, floors, R
<1>11. ASSUME t \in dtxns[s], y.phase = DIST_REMOTE_SENT,
              CheckRemotePrepared(s, t, acked, ParOf(s), floors, q, now)
       PROVE  /\ OthersKept(s) /\ OnlyAnswers(s) /\ \A u \in Txns \ {t} : Kept(s, u)
              /\ Acknowledged(s, t, acked, ParOf(s), now)
 <2> HIDE DEF t
 <2> QED BY <1>2, <1>3, <1>6, <1>11, <1>17, CheckRemotePreparedLeaves
<1>12. ASSUME tx' = [tx EXCEPT ![s][t] = waits], req' = q, UNCHANGED ready_txns,
              replied' = replied
       PROVE  /\ OthersKept(s) /\ OnlyAnswers(s) /\ \A u \in Txns : Kept(s, u)
              /\ ready_txns'[s] = ready_txns[s] /\ NoNewReqs
 <2>1. /\ \A r \in Sites \ {s} : tx'[r] = tx[r] /\ ready_txns'[r] = ready_txns[r]
       /\ tx'[s][t] = waits /\ \A u \in Txns \ {t} : tx'[s][u] = tx[s][u] BY <1>3, <1>5, <1>12
 <2>4. OnlyAnswers(s) BY <1>12 DEF OnlyAnswers
 <2>2. NoNewReqs BY <1>2, <1>12 DEF NoNewReqs, NewReqs
 <2>3. \A u \in Txns : Kept(s, u) BY <1>7, <2>1 DEF Kept, SameRecord, SameProgress
 <2> QED BY <1>12, <2>1, <2>2, <2>3, <2>4 DEF OthersKept
<1>13. ASSUME NoExecution(s, R, [tx[s] EXCEPT ![t] = new], new_input[s], floors),
              req' = Send(q, s, ToAll({m.coord}, msg))
       PROVE  /\ OthersKept(s) /\ OnlyAnswers(s) /\ \A u \in Txns \ {t} : Kept(s, u)
              /\ ready_txns'[s] = R /\ tx'[s][t] = new
              /\ \A c \in Sites \X Nodes : \A w \in NewReqs(c) : c[1] = s /\ c[2] = m.coord /\ w = msg
 <2> DEFINE x == [tx[s] EXCEPT ![t] = new]
            out == ToAll({m.coord}, msg)
 <2>1. /\ NoExecution(s, R, x, new_input[s], floors) /\ x[t] = new
       /\ \A u \in Txns \ {t} : x[u] = tx[s][u] BY <1>3, <1>5, <1>13
 <2> HIDE DEF x, msg
 <2>2. /\ ready_txns'[s] = R /\ tx'[s] = x
       /\ \A r \in Sites \ {s} : tx'[r] = tx[r] /\ ready_txns'[r] = ready_txns[r]
       /\ OnlyAnswers(s) BY <1>5, <2>1, NoExecutionKeeps
 <2>3. \A u \in Txns \ {t} : Kept(s, u) BY <2>1, <2>2 DEF Kept, SameRecord, SameProgress
 <2>4. out \in [Nodes -> Seq(ReqMsg)] /\ req' = Send(q, s, out) BY <1>9, <1>13, OutType
 <2>5. \A d \in Nodes : MsgsIn(out[d]) = IF d \in {m.coord} THEN {msg} ELSE {} BY OutMsgs
 <2> HIDE DEF out
 <2>6. ASSUME NEW c \in Sites \X Nodes, NEW w \in NewReqs(c) PROVE c[1] = s /\ c[2] = m.coord /\ w = msg
  <3>1. c[1] = Proc(s) /\ w \in MsgsIn(out[c[2]]) BY <1>2, <2>4, RequestsAfter
  <3>2. c[2] \in Nodes OBVIOUS
  <3> QED BY <2>5, <3>1, <3>2, ProcOfSite
 <2> QED BY <2>1, <2>2, <2>3, <2>6 DEF OthersKept
<1>14. CASE /\ t \in dtxns[s] /\ y.phase = DIST_REMOTE_SENT
            /\ CheckRemotePrepared(s, t, acked, ParOf(s), floors, q, now)
            /\ UNCHANGED dtxns BY <1>2, <1>11, <1>14 DEF acked, m
<1>15. CASE /\ t \in dtxns[s] /\ y.phase # DIST_REMOTE_SENT
            /\ tx' = [tx EXCEPT ![s][t] = waits]
            /\ req' = q
            /\ UNCHANGED <<last_clock, dtxns, ready_txns, rep, replied>> BY <1>2, <1>3, <1>12, <1>15 DEF m
<1>16. CASE /\ t \notin dtxns[s]
            /\ dtxns' = [dtxns EXCEPT ![s] = @ \cup {t}]
            /\ NoExecution(s, R, [tx[s] EXCEPT ![t] = new], new_input[s], floors)
            /\ req' = Send(q, s, ToAll({m.coord}, msg))
            /\ UNCHANGED <<last_clock, rep>>
 <2>1. /\ OthersKept(s) /\ OnlyAnswers(s) /\ \A u \in Txns \ {t} : Kept(s, u)
       /\ ready_txns'[s] = R /\ tx'[s][t] = new
       /\ \A c \in Sites \X Nodes : \A w \in NewReqs(c) : c[1] = s /\ c[2] = m.coord /\ w = msg BY <1>13, <1>16
 <2>2. PreparedMsg(msg, s, m) BY DEF PreparedMsg
 <2> HIDE DEF msg
 <2>3. \A c \in Sites \X Nodes : \A w \in NewReqs(c) :
         c[1] = s /\ c[2] = m.coord /\ PreparedMsg(w, s, m) BY <2>1, <2>2
 <2> QED BY <1>2, <1>8, <1>10, <1>16, <2>1, <2>3 DEF m
<1> QED BY <1>4, <1>14, <1>15, <1>16

(* The record of a replica that has heard the decision from src. *)
Told(y, s, src, ts) ==
  [y EXCEPT !.phase = DIST_CAN_EXE, !.ts = ts, !.owes = IF y.region_handler = s THEN src ELSE @]

(* What hearing it changes. *)
LEMMA ToldRecord ==
  ASSUME NEW y \in TxType, NEW s, NEW src \in Sites, NEW ts \in ChrTsType
  PROVE  LET z == Told(y, s, src, ts)
         IN  /\ z \in TxType /\ z.ts = ts /\ z.phase = DIST_CAN_EXE /\ z.role = y.role
             /\ z.owes \in {y.owes, src} /\ z.anticipated = y.anticipated /\ z.status = y.status
             /\ z.pieces = y.pieces /\ z.done = y.done /\ z.acks = y.acks
             /\ z.mgr_acked = y.mgr_acked /\ z.region_handler = y.region_handler BY PhaseFacts DEF TxType, Told

(* OnDistExe: the decision is taken over, or an empty record is noted. *)
LEMMA OnDistExeStep ==
  ASSUME TypeOK, NEW src \in Sites, NEW s \in Sites, OnDistExe(src, s)
  PROVE  LET m == ReqAt(src, s)
         IN  /\ m \in MsgsIn(req[<<src, s>>]) /\ m \in ReqMsg /\ m.type = "DistExe"
             /\ OthersKept(s) /\ OnlyAnswers(s)
             /\ \A u \in Txns \ {m.txn} : Kept(s, u)
             /\ \/ /\ m.txn \in dtxns[s] /\ UNCHANGED dtxns
                   /\ SameRecord(Told(tx[s][m.txn], s, src, m.ts), tx'[s][m.txn])
                   /\ SameProgress(m.txn, Told(tx[s][m.txn], s, src, m.ts), tx'[s][m.txn], ParOf(s))
                   /\ ready_txns'[s] \subseteq ready_txns[s] \cup {[ts |-> m.ts, id |-> m.txn]}
                   /\ \A c \in Sites \X Nodes : \A w \in NewReqs(c) : w.type = "SendOutput"
                   /\ \A c \in Sites \X Sites : \A w \in NewReps(c) : IsAnswer(w, s, c)
                \/ /\ m.txn \notin dtxns[s] /\ dtxns' = [dtxns EXCEPT ![s] = @ \cup {m.txn}]
                   /\ UNCHANGED <<tx, ready_txns, rep>> /\ NoNewReqs
<1> DEFINE m  == ReqAt(src, s)
           t  == m.txn
           y  == tx[s][t]
           R0 == {e \in ready_txns[s] : e.ts # y.ts}
           R  == PutReady(R0, m.ts, t)
           z  == Told(y, s, src, m.ts)
           x  == [tx[s] EXCEPT ![t] = z]
           floors == (dist_txn_tss[s] \ {y.ts}) \cup (IF AllPiecesInputReady(y) THEN {} ELSE {m.ts})
           q  == Taken(req, <<src, s>>)
<1>1. s \in Nodes BY Placement
<1>2. /\ m \in ReqMsg /\ m.type = "DistExe" /\ m \in MsgsIn(req[<<src, s>>])
      /\ q \in [Sites \X Nodes -> Seq(ReqMsg)]
      /\ \A c \in Sites \X Nodes : MsgsIn(q[c]) \subseteq MsgsIn(req[c])
 <2>1. Receives(src, s, "DistExe") BY DEF OnDistExe
 <2> QED BY <1>1, <2>1, ReceivesType, ReceivesMsgs DEF ReqAt
<1>3. t \in Txns /\ m.ts \in ChrTsType BY <1>2, ReqFields, TsFacts
<1>4. \/ /\ t \in dtxns[s] /\ UNCHANGED dtxns
         /\ \E run \in SUBSET Runnable(R, x) :
              /\ CheckExecutableTxns(s, run, R, x, new_input[s], floors, ir_site_max_ts[s])
              /\ req' = Send(q, s, OutputMsgs(s, run, R))
              /\ rep' = Send(rep, s, DistExeReplies(s, run, R, x))
      \/ /\ t \notin dtxns[s] /\ dtxns' = [dtxns EXCEPT ![s] = @ \cup {t}]
         /\ req' = q
         /\ UNCHANGED <<dist_txn_tss, execVars, rep>> BY DEF OnDistExe, ReqAt, Told
<1> HIDE DEF m, q
<1>5. /\ tx \in [Sites -> [Txns -> TxType]] /\ ready_txns \in [Sites -> Entries]
      /\ tx[s] \in [Txns -> TxType] /\ y \in TxType /\ ready_txns[s] \in Entries
      /\ rep \in [Sites \X Sites -> Seq(RepMsg)]
      /\ \A c \in Sites \X Sites : MsgsIn(rep[c]) \subseteq MsgsIn(rep[c]) BY <1>3 DEF TypeOK
<1>6. R \in Entries /\ R \subseteq ready_txns[s] \cup {[ts |-> m.ts, id |-> t]}
 <2>1. R0 \in Entries /\ R0 \subseteq ready_txns[s] BY <1>5, EntryFacts
 <2> HIDE DEF R0
 <2>2. R \in Entries BY <1>3, <2>1, EntryFacts
 <2> QED BY <2>1, <2>2, QueueGains
<1>7. z \in TxType BY <1>3, <1>5, ToldRecord
<1> HIDE DEF z
<1>8. x \in [Txns -> TxType] /\ x[t] = z /\ \A u \in Txns \ {t} : x[u] = tx[s][u] BY <1>3, <1>5, <1>7
<1> HIDE DEF x, R, floors
<1>9. ASSUME NEW run \in SUBSET Runnable(R, x),
             CheckExecutableTxns(s, run, R, x, new_input[s], floors, ir_site_max_ts[s]),
             req' = Send(q, s, OutputMsgs(s, run, R)),
             rep' = Send(rep, s, DistExeReplies(s, run, R, x))
      PROVE  /\ OthersKept(s) /\ OnlyAnswers(s) /\ \A u \in Txns \ {t} : Kept(s, u)
             /\ SameRecord(z, tx'[s][t]) /\ SameProgress(t, z, tx'[s][t], ParOf(s))
             /\ ready_txns'[s] \subseteq R
             /\ \A c \in Sites \X Nodes : \A w \in NewReqs(c) : w.type = "SendOutput"
             /\ \A c \in Sites \X Sites : \A w \in NewReps(c) : IsAnswer(w, s, c)
 <2>1. run \in SUBSET PieceIds BY <1>6, <1>8, RunnableType
 <2>2. /\ ready_txns'[s] \subseteq R
       /\ \A r \in Sites \ {s} : tx'[r] = tx[r] /\ ready_txns'[r] = ready_txns[r]
       /\ OnlyAnswers(s)
       /\ \A u \in Txns : /\ SameRecord(x[u], tx'[s][u])
                          /\ SameProgress(u, x[u], tx'[s][u], ParOf(s)) BY <1>5, <1>6, <1>8, <1>9, <2>1, ExecutionKeeps
 <2>3. /\ \A c \in Sites \X Nodes : \A w \in NewReqs(c) : w.type = "SendOutput"
       /\ \A c \in Sites \X Sites : \A w \in NewReps(c) : IsAnswer(w, s, c)
   BY <1>2, <1>5, <1>6, <1>8, <1>9, ExecutionNew
 <2>4. \A u \in Txns \ {t} : Kept(s, u) BY <1>8, <2>2 DEF Kept
 <2>5. SameRecord(z, tx'[s][t]) /\ SameProgress(t, z, tx'[s][t], ParOf(s)) BY <1>3, <1>8, <2>2
 <2> QED BY <2>2, <2>3, <2>4, <2>5 DEF OthersKept
<1>10. CASE /\ t \in dtxns[s] /\ UNCHANGED dtxns
            /\ \E run \in SUBSET Runnable(R, x) :
                 /\ CheckExecutableTxns(s, run, R, x, new_input[s], floors, ir_site_max_ts[s])
                 /\ req' = Send(q, s, OutputMsgs(s, run, R))
                 /\ rep' = Send(rep, s, DistExeReplies(s, run, R, x)) BY <1>2, <1>6, <1>9, <1>10 DEF z, m
<1>11. CASE /\ t \notin dtxns[s] /\ dtxns' = [dtxns EXCEPT ![s] = @ \cup {t}]
            /\ req' = q
            /\ UNCHANGED <<dist_txn_tss, execVars, rep>>
 <2>1. tx' = tx /\ ready_txns' = ready_txns /\ rep' = rep /\ replied' = replied BY <1>11 DEF execVars
 <2>2. NoNewReqs BY <1>2, <1>11 DEF NoNewReqs, NewReqs
 <2>3. OthersKept(s) /\ OnlyAnswers(s) /\ \A u \in Txns \ {t} : Kept(s, u)
   BY <2>1 DEF OthersKept, Kept, SameRecord, SameProgress, OnlyAnswers
 <2> QED BY <1>2, <1>11, <2>1, <2>2, <2>3 DEF m
<1> QED BY <1>4, <1>10, <1>11

(* DistExeAck: the output of a partition, and maybe the answer. *)
LEMMA DistExeAckStep ==
  ASSUME TypeOK, NEW src \in Sites, NEW s \in Sites, DistExeAck(src, s)
  PROVE  LET m == RepAt(src, s)
         IN  /\ m \in MsgsIn(rep[<<src, s>>]) /\ m \in RepMsg /\ m.type = "DistExeRes"
             /\ OthersKept(s)
             /\ \A u \in Txns \ {m.txn} : Kept(s, u)
             /\ SameRecord(tx[s][m.txn], tx'[s][m.txn])
             /\ tx'[s][m.txn].phase \in {tx[s][m.txn].phase, OUTPUT_SENT}
             /\ tx'[s][m.txn].status = [tx[s][m.txn].status EXCEPT ![ParOf(src)] = P_OUTPUT_RECEIVED]
             /\ \/ tx'[s][m.txn].phase = tx[s][m.txn].phase
                \/ \A par \in Touched(m.txn) : tx'[s][m.txn].status[par] >= P_OUTPUT_RECEIVED
             /\ \A u \in replied' : u \in replied \/ (u = m.txn /\ tx'[s][u].phase = OUTPUT_SENT)
             /\ NoNewReps
<1> DEFINE m == RepAt(src, s)
           t == m.txn
           y == [tx[s][t] EXCEPT !.status[ParOf(src)] = P_OUTPUT_RECEIVED]
           z == IF y.phase = OUTPUT_SENT THEN y ELSE CheckSendOutputToClient(t, y)
<1>1. /\ tx' = [tx EXCEPT ![s][t] = z]
      /\ rep' = Taken(rep, <<src, s>>) /\ UNCHANGED ready_txns
      /\ replied' = IF z.phase = OUTPUT_SENT THEN replied \cup {t} ELSE replied BY DEF DistExeAck, RepAt
<1>2. /\ m \in RepMsg /\ m.type = "DistExeRes" /\ m \in MsgsIn(rep[<<src, s>>])
      /\ \A c \in Sites \X Sites : MsgsIn(Taken(rep, <<src, s>>)[c]) \subseteq MsgsIn(rep[c])
 <2>1. rep \in [Sites \X Sites -> Seq(RepMsg)] /\ <<src, s>> \in Sites \X Sites BY DEF TypeOK
 <2>2. rep[<<src, s>>] # <<>> /\ m.type = "DistExeRes" BY DEF DistExeAck, RepAt
 <2> QED BY <2>1, <2>2, TakenType, TakenMsgs DEF RepAt
<1>3. t \in Txns BY <1>2, RepFields
<1> HIDE DEF m
<1>4. tx \in [Sites -> [Txns -> TxType]] /\ tx[s][t] \in TxType BY <1>3 DEF TypeOK
<1>5. /\ y \in TxType /\ SameRecord(tx[s][t], y) /\ y.phase = tx[s][t].phase
      /\ y.status = [tx[s][t].status EXCEPT ![ParOf(src)] = P_OUTPUT_RECEIVED]
  BY <1>4, OutputReceivedType DEF TxType, SameRecord
<1> HIDE DEF y
<1>6. /\ SameRecord(y, z) /\ z.phase \in {y.phase, OUTPUT_SENT} /\ z.status = y.status
      /\ z.phase = y.phase \/ \A par \in Touched(t) : z.status[par] >= P_OUTPUT_RECEIVED
  BY <1>5 DEF CheckSendOutputToClient, TxType, SameRecord
<1> HIDE DEF z
<1>7. SameRecord(tx[s][t], z) BY <1>5, <1>6 DEF SameRecord
<1>8. /\ tx'[s][t] = z /\ \A u \in Txns \ {t} : tx'[s][u] = tx[s][u]
      /\ OthersKept(s) BY <1>1, <1>3, <1>4 DEF OthersKept
<1>9. \A u \in Txns \ {t} : Kept(s, u) BY <1>8 DEF Kept, SameRecord, SameProgress
<1>10. NoNewReps BY <1>1, <1>2 DEF NoNewReps, NewReps
<1>11. \A u \in replied' : u \in replied \/ (u = t /\ tx'[s][u].phase = OUTPUT_SENT) BY <1>1, <1>8
<1> QED BY <1>2, <1>5, <1>6, <1>7, <1>8, <1>9, <1>10, <1>11 DEF m

(* OnSendOutput: the input is merged, pieces may run, and the manager may hear that the
   region need not wait any longer. *)
LEMMA OnSendOutputStep ==
  ASSUME TypeOK, NEW src \in Sites, NEW s \in Sites, OnSendOutput(src, s)
  PROVE  /\ OthersKept(s) /\ OnlyAnswers(s) /\ \A u \in Txns : Kept(s, u)
         /\ ready_txns'[s] \subseteq ready_txns[s]
         /\ \A c \in Sites \X Nodes : \A w \in NewReqs(c) :
              \/ w.type = "SendOutput"
              \/ /\ w.type = "NotiWait" /\ w.wait = FALSE
                 /\ c[1] = s /\ c[2] = MgrOf(SiteRegion(s)) /\ w.orig = tx[s][w.txn].ts
         /\ \A c \in Sites \X Sites : \A w \in NewReps(c) : IsAnswer(w, s, c)
<1> DEFINE m   == ReqAt(src, s)
           t   == m.txn
           x1  == [tx[s] EXCEPT ![t] = [@ EXCEPT !.input_ready = 2]]
           x2  == [x1 EXCEPT ![t] = Merge(x1[t], m.vars)]
           R   == ready_txns[s]
           q   == Taken(req, <<src, s>>)
           floors(irt) == IF irt THEN dist_txn_tss[s] ELSE dist_txn_tss[s] \ {tx[s][t].ts}
           msg == [type |-> "NotiWait", txn |-> t, orig |-> tx[s][t].ts, wait |-> FALSE,
                   new |-> ZeroTs, touched |-> {}]
           out(irt) == IF irt THEN NoMsgs ELSE ToAll({MgrOf(SiteRegion(s))}, msg)
<1>1. s \in Nodes BY Placement
<1>2. /\ m \in ReqMsg /\ m.type = "SendOutput"
      /\ q \in [Sites \X Nodes -> Seq(ReqMsg)]
      /\ \A c \in Sites \X Nodes : MsgsIn(q[c]) \subseteq MsgsIn(req[c])
 <2>1. Receives(src, s, "SendOutput") BY DEF OnSendOutput
 <2> QED BY <1>1, <2>1, ReceivesType, ReceivesMsgs DEF ReqAt
<1>3. t \in Txns /\ m.vars \in SUBSET Vars BY <1>2, ReqFields
<1>4. \/ req' = q /\ UNCHANGED <<dist_txn_tss, execVars, rep>>
      \/ \E irt \in BOOLEAN, run \in SUBSET Runnable(R, x2) :
           /\ CheckExecutableTxns(s, run, R, x2, TRUE, floors(irt), ir_site_max_ts[s])
           /\ req' = Send(q, s, Then(out(irt), OutputMsgs(s, run, R)))
           /\ rep' = Send(rep, s, DistExeReplies(s, run, R, x2))
      \/ \E irt \in BOOLEAN :
           /\ NoExecution(s, R, x2, TRUE, floors(irt))
           /\ req' = Send(q, s, out(irt))
           /\ UNCHANGED rep
 <2> DEFINE irts == {b \in BOOLEAN : tx[s][t].role # "unset" =>
                              (b <=> tx[s][t].role \in {"irtHandler", "irtReplica"})}
            Case(irt) == IF MoreToRun(x1[t], m.vars) /\ x1[t].phase >= LOCAL_CAN_EXE
                    THEN \E run \in SUBSET Runnable(R, x2) :
                           /\ CheckExecutableTxns(s, run, R, x2, TRUE, floors(irt), ir_site_max_ts[s])
                           /\ req' = Send(q, s, Then(out(irt), OutputMsgs(s, run, R)))
                           /\ rep' = Send(rep, s, DistExeReplies(s, run, R, x2))
                    ELSE /\ NoExecution(s, R, x2, TRUE, floors(irt))
                         /\ req' = Send(q, s, out(irt))
                         /\ UNCHANGED rep
 <2>1. \/ req' = q /\ UNCHANGED <<dist_txn_tss, execVars, rep>>
       \/ \E irt \in irts : Case(irt) BY DEF OnSendOutput, ReqAt
 <2>2. \A b \in irts : b \in BOOLEAN BY Zenon
 <2> HIDE DEF irts, floors, out, x1, x2, R, q, m
 <2> QED BY <2>1, <2>2
<1> HIDE DEF m, q
<1>5. /\ tx[s] \in [Txns -> TxType] /\ R \in Entries
      /\ tx[s][t] \in TxType /\ tx[s][t].ts \in ChrTsType
      /\ tx \in [Sites -> [Txns -> TxType]] /\ ready_txns \in [Sites -> Entries]
      /\ rep \in [Sites \X Sites -> Seq(RepMsg)]
      /\ \A c \in Sites \X Sites : MsgsIn(rep[c]) \subseteq MsgsIn(rep[c]) BY <1>1, <1>3 DEF TypeOK, TxType
<1>6. /\ x2 \in [Txns -> TxType] /\ \A u \in Txns \ {t} : x2[u] = tx[s][u]
      /\ SameRecord(tx[s][t], x2[t]) /\ x2[t].phase = tx[s][t].phase
      /\ x2[t].status = tx[s][t].status
 <2> DEFINE y == [tx[s][t] EXCEPT !.input_ready = 2]
            z == Merge(y, m.vars)
 <2>1. /\ y \in TxType /\ SameRecord(tx[s][t], y) /\ y.phase = tx[s][t].phase
       /\ y.status = tx[s][t].status BY <1>5, PhaseFacts DEF TxType, SameRecord
 <2>2. x1 = [tx[s] EXCEPT ![t] = y] BY <1>5
 <2> HIDE DEF y
 <2>3. x1 \in [Txns -> TxType] /\ x1[t] = y /\ \A u \in Txns \ {t} : x1[u] = tx[s][u] BY <1>3, <1>5, <2>1, <2>2
 <2>4. /\ z \in TxType /\ SameRecord(y, z) /\ z.phase = y.phase /\ z.status = y.status
  <3>1. z \in TxType BY <1>3, <2>1, MergeType
  <3> QED BY <2>1, <3>1 DEF Merge, TxType, SameRecord
 <2> HIDE DEF z
 <2>5. x2 = [x1 EXCEPT ![t] = z] BY <2>3 DEF z
 <2> HIDE DEF x1, x2
 <2>6. x2 \in [Txns -> TxType] /\ x2[t] = z /\ \A u \in Txns \ {t} : x2[u] = tx[s][u] BY <1>3, <2>3, <2>4, <2>5
 <2> QED BY <2>1, <2>4, <2>6 DEF SameRecord
<1>7. msg \in ReqMsg /\ msg.type = "NotiWait" /\ msg.wait = FALSE /\ msg.txn = t
      /\ msg.orig = tx[s][t].ts BY <1>3, <1>5, TsFacts DEF ReqMsg
<1> HIDE DEF msg
<1>8. \A irt \in BOOLEAN : /\ out(irt) \in [Nodes -> Seq(ReqMsg)]
                           /\ \A d \in Nodes : \A w \in MsgsIn(out(irt)[d]) :
                                w = msg /\ d = MgrOf(SiteRegion(s))
 <2>1. \A d \in Nodes : MsgsIn(NoMsgs[d]) = {} BY OutMsgs
 <2>2. \A d \in Nodes : MsgsIn(ToAll({MgrOf(SiteRegion(s))}, msg)[d]) =
                          IF d \in {MgrOf(SiteRegion(s))} THEN {msg} ELSE {} BY OutMsgs
 <2>3. \A irt \in BOOLEAN : out(irt) \in [Nodes -> Seq(ReqMsg)] BY <1>7, OutType
 <2>4. ASSUME NEW irt \in BOOLEAN, NEW d \in Nodes, NEW w \in MsgsIn(out(irt)[d])
       PROVE w = msg /\ d = MgrOf(SiteRegion(s))
  <3>1. out(irt) = IF irt THEN NoMsgs ELSE ToAll({MgrOf(SiteRegion(s))}, msg) OBVIOUS
  <3> QED BY <2>1, <2>2, <3>1
 <2> QED BY <2>3, <2>4
<1> HIDE DEF x2, R, floors, out
<1>9. CASE req' = q /\ UNCHANGED <<dist_txn_tss, execVars, rep>>
 <2>1. tx' = tx /\ ready_txns' = ready_txns /\ rep' = rep /\ replied' = replied BY <1>9 DEF execVars
 <2>2. NoNewReqs /\ NoNewReps BY <1>2, <1>9, <2>1 DEF NoNewReqs, NewReqs, NoNewReps, NewReps
 <2>3. OthersKept(s) /\ OnlyAnswers(s) /\ \A u \in Txns : Kept(s, u)
   BY <2>1 DEF OthersKept, Kept, SameRecord, SameProgress, OnlyAnswers
 <2> QED BY <2>1, <2>2, <2>3 DEF NoNewReqs, NoNewReps
<1>10. ASSUME NEW irt \in BOOLEAN, NEW run \in SUBSET Runnable(R, x2),
              CheckExecutableTxns(s, run, R, x2, TRUE, floors(irt), ir_site_max_ts[s]),
              req' = Send(q, s, Then(out(irt), OutputMsgs(s, run, R))),
              rep' = Send(rep, s, DistExeReplies(s, run, R, x2))
       PROVE  /\ ready_txns'[s] \subseteq R
              /\ OthersKept(s) /\ OnlyAnswers(s)
              /\ \A u \in Txns : /\ SameRecord(x2[u], tx'[s][u])
                                 /\ SameProgress(u, x2[u], tx'[s][u], ParOf(s))
              /\ \A c \in Sites \X Nodes : \A w \in NewReqs(c) :
                   w.type = "SendOutput" \/ (c[1] = s /\ w = msg /\ c[2] = MgrOf(SiteRegion(s)))
              /\ \A c \in Sites \X Sites : \A w \in NewReps(c) : IsAnswer(w, s, c)
 <2>1. run \in SUBSET PieceIds BY <1>5, <1>6, RunnableType
 <2>2. /\ ready_txns'[s] \subseteq R
       /\ \A r \in Sites \ {s} : tx'[r] = tx[r] /\ ready_txns'[r] = ready_txns[r]
       /\ OnlyAnswers(s)
       /\ \A u \in Txns : /\ SameRecord(x2[u], tx'[s][u])
                          /\ SameProgress(u, x2[u], tx'[s][u], ParOf(s)) BY <1>5, <1>6, <1>10, <2>1, ExecutionKeeps
 <2>3. \A c \in Sites \X Sites : \A w \in NewReps(c) : IsAnswer(w, s, c) BY <1>2, <1>5, <1>6, <1>10, ExecutionNew
 <2> DEFINE o == out(irt)
 <2>4. /\ o \in [Nodes -> Seq(ReqMsg)]
       /\ \A d \in Nodes : \A w \in MsgsIn(o[d]) : w = msg /\ d = MgrOf(SiteRegion(s))
       /\ req' = Send(q, s, Then(o, OutputMsgs(s, run, R))) BY <1>8, <1>10
 <2> HIDE DEF o
 <2>5. ASSUME NEW c \in Sites \X Nodes, NEW w \in NewReqs(c)
       PROVE w.type = "SendOutput" \/ (c[1] = s /\ w = msg /\ c[2] = MgrOf(SiteRegion(s)))
  <3>1. w.type = "SendOutput" \/ (c[1] = s /\ w \in MsgsIn(o[c[2]])) BY <1>2, <1>5, <2>1, <2>4, OutputsThen
  <3>2. c[2] \in Nodes OBVIOUS
  <3> QED BY <2>4, <3>1, <3>2
 <2> QED BY <2>2, <2>3, <2>5 DEF OthersKept
<1>11. ASSUME NEW irt \in BOOLEAN, NoExecution(s, R, x2, TRUE, floors(irt)),
              req' = Send(q, s, out(irt)), UNCHANGED rep
       PROVE  /\ ready_txns'[s] = R
              /\ OthersKept(s) /\ OnlyAnswers(s) /\ tx'[s] = x2
              /\ \A c \in Sites \X Nodes : \A w \in NewReqs(c) :
                   c[1] = s /\ w = msg /\ c[2] = MgrOf(SiteRegion(s))
              /\ NoNewReps
 <2>1. /\ ready_txns'[s] = R /\ tx'[s] = x2 /\ OthersKept(s) /\ OnlyAnswers(s)
   BY <1>5, <1>11, NoExecutionKeeps DEF OthersKept
 <2>2. NoNewReps BY <1>11 DEF NoNewReps, NewReps
 <2> DEFINE o == out(irt)
 <2>3. /\ o \in [Nodes -> Seq(ReqMsg)]
       /\ \A d \in Nodes : \A w \in MsgsIn(o[d]) : w = msg /\ d = MgrOf(SiteRegion(s))
       /\ req' = Send(q, s, o) BY <1>8, <1>11
 <2> HIDE DEF o
 <2>4. ASSUME NEW c \in Sites \X Nodes, NEW w \in NewReqs(c) PROVE c[1] = s /\ w = msg /\ c[2] = MgrOf(SiteRegion(s))
  <3>1. c[1] = Proc(s) /\ w \in MsgsIn(o[c[2]]) BY <1>2, <2>3, RequestsAfter
  <3>2. c[2] \in Nodes OBVIOUS
  <3> QED BY <2>3, <3>1, <3>2, ProcOfSite
 <2> QED BY <2>1, <2>2, <2>4
<1>12. ASSUME \A u \in Txns : /\ SameRecord(x2[u], tx'[s][u])
                              /\ SameProgress(u, x2[u], tx'[s][u], ParOf(s))
       PROVE \A u \in Txns : Kept(s, u)
 <2> TAKE u \in Txns
 <2>1. /\ SameRecord(tx[s][u], x2[u]) /\ x2[u].phase = tx[s][u].phase
       /\ x2[u].status = tx[s][u].status BY <1>6 DEF SameRecord
 <2> QED BY <1>12, <2>1 DEF Kept, SameRecord, SameProgress
<1>13. CASE \E irt \in BOOLEAN, run \in SUBSET Runnable(R, x2) :
              /\ CheckExecutableTxns(s, run, R, x2, TRUE, floors(irt), ir_site_max_ts[s])
              /\ req' = Send(q, s, Then(out(irt), OutputMsgs(s, run, R)))
              /\ rep' = Send(rep, s, DistExeReplies(s, run, R, x2)) BY <1>7, <1>10, <1>12, <1>13 DEF R
<1>14. CASE \E irt \in BOOLEAN :
              /\ NoExecution(s, R, x2, TRUE, floors(irt))
              /\ req' = Send(q, s, out(irt))
              /\ UNCHANGED rep
 <2>1. \A u \in Txns : Kept(s, u) BY <1>11, <1>12, <1>14 DEF SameRecord, SameProgress
 <2> QED BY <1>7, <1>11, <1>14, <2>1 DEF R, NoNewReps
<1> QED BY <1>4, <1>9, <1>13, <1>14

-----
(* What sites know of each other. *)

(* Site s knows the transactions of r that touch it, up to ts.  my, dt and lc are
   my_txns, dtxns and last_clock, before a step or after it. *)
Knows(my, dt, s, r, ts) ==
  \A e \in my[r] : ParOf(s) \in Touched(e.id) /\ LessEq(e.ts, ts) => e.id \in dt[s]

(* s knows them, or finds them in noti. *)
Announces(my, dt, noti, s, r, ts) ==
  \A e \in my[r] : ParOf(s) \in Touched(e.id) /\ LessEq(e.ts, ts) =>
                     e.id \in dt[s] \/ \E d \in noti : d.id = e.id

(* What is piggybacked on a message from r to s. *)
GoodPiggy(lc, my, dt, m, r, s) ==
  /\ LessEq(m.ts, lc[r]) /\ LessEq(m.delivered, lc[s])
  /\ Announces(my, dt, m.noti, s, r, m.ts)
  /\ Knows(my, dt, r, s, m.delivered)

GoodReq(lc, my, dt, m, p, s) ==
  /\ m.type = "PrepareIRT" => GoodPiggy(lc, my, dt, m, p, s)
  /\ m.type = "IRSync" /\ m.from \in Sites => GoodPiggy(lc, my, dt, m, m.from, s)
GoodRep(lc, my, dt, m, p, s) ==
  m.type = "PrepareIRTRes" => GoodPiggy(lc, my, dt, m, p, s)

(* ts has been told by r to s, or acknowledged to r by s. *)
GoodMark(lc, my, dt, s, r, ts) == LessEq(ts, lc[r]) /\ Knows(my, dt, s, r, ts)

-----
ClocksAhead ==
  /\ \A r \in Sites : LessEq(ZeroTs, last_clock[r])
  /\ \A r \in Sites : \A e \in my_txns[r] : Less(ZeroTs, e.ts) /\ LessEq(e.ts, last_clock[r])
MarksGood ==
  \A s, r \in Sites :
    /\ GoodMark(last_clock, my_txns, dtxns, s, r, ir_site_max_ts[s][r])
    /\ GoodMark(last_clock, my_txns, dtxns, s, r, ir_site_notified_ts[r][s])
ReqsGood ==
  \A p, s \in Sites : \A m \in MsgsIn(req[<<p, s>>]) :
    GoodReq(last_clock, my_txns, dtxns, m, p, s)
RepsGood ==
  \A p, s \in Sites : \A m \in MsgsIn(rep[<<p, s>>]) :
    GoodRep(last_clock, my_txns, dtxns, m, p, s)

(* The inductive invariant. *)
AwareInv == ClocksAhead /\ MarksGood /\ ReqsGood /\ RepsGood

(* Awareness is the part of it that speaks of the peers. *)
LEMMA AwareInvImplies ==
  ASSUME AwareInv
  PROVE Awareness BY DEF AwareInv, MarksGood, GoodMark, Knows, Awareness, Peers, SitesInRegion

-----
(* What every step does: clocks advance, nothing is forgotten, and a new transaction of
   r is later than the clock r had. *)
Grows ==
  /\ \A r \in Sites : LessEq(last_clock[r], last_clock'[r])
  /\ \A s \in Sites : dtxns[s] \subseteq dtxns'[s]
  /\ \A r \in Sites : \A e \in my_txns'[r] :
       e \in my_txns[r] \/ (Less(last_clock[r], e.ts) /\ LessEq(e.ts, last_clock'[r]))

(* The order of timestamps, in the two forms the proofs need. *)
LEMMA LessEqOrder ==
  /\ \A a, b, c \in ChrTsType : LessEq(a, b) /\ LessEq(b, c) => LessEq(a, c)
  /\ \A a, b, c \in ChrTsType : LessEq(a, b) /\ Less(b, c) => Less(a, c)
  /\ \A a, b, c \in ChrTsType : Less(a, b) /\ LessEq(b, c) => Less(a, c)
  /\ \A a, b \in ChrTsType : Less(a, b) => ~LessEq(b, a)
  /\ \A a, b \in ChrTsType : ~Less(a, b) => LessEq(b, a) BY DEF ChrTsType, Less, LessEq

(* The fields that the invariant speaks of. *)
LEMMA AwareTypes ==
  ASSUME TypeOK
  PROVE  /\ \A n \in Nodes : last_clock[n] \in ChrTsType
         /\ \A r \in Sites : /\ last_clock[r] \in ChrTsType
                             /\ \A e \in my_txns[r] : e.ts \in ChrTsType /\ e.id \in Txns
         /\ \A s, r \in Sites : /\ ir_site_max_ts[s][r] \in ChrTsType
                                /\ ir_site_notified_ts[s][r] \in ChrTsType
         /\ \A p, s \in Sites : \A m \in MsgsIn(req[<<p, s>>]) : m \in ReqMsg
         /\ \A p, s \in Sites : \A m \in MsgsIn(rep[<<p, s>>]) : m \in RepMsg
         /\ ZeroTs \in ChrTsType
<1>1. \A n \in Nodes : last_clock[n] \in ChrTsType BY DEF TypeOK
<1>2. \A r \in Sites : \A e \in my_txns[r] : e.ts \in ChrTsType /\ e.id \in Txns BY EntryFacts DEF TypeOK, Entry
<1>3. \A s, r \in Sites : ir_site_max_ts[s][r] \in ChrTsType /\ ir_site_notified_ts[s][r] \in ChrTsType
  BY Placement DEF TypeOK
<1>4. \A p, s \in Sites : req[<<p, s>>] \in Seq(ReqMsg) /\ rep[<<p, s>>] \in Seq(RepMsg) BY Placement DEF TypeOK
<1>5. \A M : \A q \in Seq(M) : \A m \in MsgsIn(q) : m \in M BY DEF MsgsIn
<1> QED BY <1>1, <1>2, <1>3, <1>4, <1>5, Placement, TsFacts

(* The same of the state after a step. *)
LEMMA AwareTypesAfter ==
  ASSUME TypeOK'
  PROVE  \A r \in Sites : /\ last_clock'[r] \in ChrTsType
                          /\ \A e \in my_txns'[r] : e.ts \in ChrTsType /\ e.id \in Txns
<1>1. last_clock' \in [Nodes -> ChrTsType] /\ my_txns' \in [Sites -> Entries] BY DEF TypeOK
<1>2. \A r \in Sites : my_txns'[r] \in Entries BY <1>1
<1>3. \A r \in Sites : \A e \in my_txns'[r] : e.ts \in ChrTsType /\ e.id \in Txns BY <1>2, EntryFacts DEF Entry
<1> QED BY <1>1, <1>3, Placement

(* What s knows of r it goes on knowing, if r had reached ts. *)
LEMMA KnowsKept ==
  ASSUME TypeOK, TypeOK', Grows, NEW s \in Sites, NEW r \in Sites, NEW ts \in ChrTsType,
         LessEq(ts, last_clock[r])
  PROVE  /\ Knows(my_txns, dtxns, s, r, ts) => Knows(my_txns', dtxns', s, r, ts)
         /\ \A noti : Announces(my_txns, dtxns, noti, s, r, ts) =>
                        Announces(my_txns', dtxns', noti, s, r, ts)
         /\ LessEq(ts, last_clock'[r])
<1>1. /\ last_clock[r] \in ChrTsType /\ last_clock'[r] \in ChrTsType
      /\ \A e \in my_txns'[r] : e.ts \in ChrTsType BY AwareTypes, AwareTypesAfter
<1>2. \A e \in my_txns'[r] : LessEq(e.ts, ts) => e \in my_txns[r] BY <1>1, LessEqOrder DEF Grows
<1>3. dtxns[s] \subseteq dtxns'[s] /\ LessEq(last_clock[r], last_clock'[r]) BY DEF Grows
<1>4. LessEq(ts, last_clock'[r]) BY <1>1, <1>3, LessEqOrder
<1>5. Knows(my_txns, dtxns, s, r, ts) => Knows(my_txns', dtxns', s, r, ts) BY <1>2, <1>3 DEF Knows
<1>6. \A noti : Announces(my_txns, dtxns, noti, s, r, ts) =>
                  Announces(my_txns', dtxns', noti, s, r, ts) BY <1>2, <1>3 DEF Announces
<1> QED BY <1>4, <1>5, <1>6

(* A mark and a piggyback that were good stay good. *)
LEMMA GoodKept ==
  ASSUME TypeOK, TypeOK', Grows, NEW s \in Sites, NEW r \in Sites
  PROVE  /\ \A ts \in ChrTsType : GoodMark(last_clock, my_txns, dtxns, s, r, ts) =>
                                    GoodMark(last_clock', my_txns', dtxns', s, r, ts)
         /\ \A m : /\ m.ts \in ChrTsType /\ m.delivered \in ChrTsType
                   /\ GoodPiggy(last_clock, my_txns, dtxns, m, r, s)
                   => GoodPiggy(last_clock', my_txns', dtxns', m, r, s)
<1>1. \A ts \in ChrTsType : GoodMark(last_clock, my_txns, dtxns, s, r, ts) =>
                              GoodMark(last_clock', my_txns', dtxns', s, r, ts) BY KnowsKept DEF GoodMark
<1>2. ASSUME NEW m, m.ts \in ChrTsType, m.delivered \in ChrTsType,
             GoodPiggy(last_clock, my_txns, dtxns, m, r, s)
      PROVE GoodPiggy(last_clock', my_txns', dtxns', m, r, s)
 <2>1. /\ LessEq(m.ts, last_clock[r]) /\ LessEq(m.delivered, last_clock[s])
       /\ Announces(my_txns, dtxns, m.noti, s, r, m.ts)
       /\ Knows(my_txns, dtxns, r, s, m.delivered) BY <1>2 DEF GoodPiggy
 <2>2. LessEq(m.ts, last_clock'[r]) /\ Announces(my_txns', dtxns', m.noti, s, r, m.ts) BY <1>2, <2>1, KnowsKept
 <2>3. LessEq(m.delivered, last_clock'[s]) /\ Knows(my_txns', dtxns', r, s, m.delivered) BY <1>2, <2>1, KnowsKept
 <2> QED BY <2>2, <2>3 DEF GoodPiggy
<1> QED BY <1>1, <1>2

(* The invariant is kept by a step whose new marks and new messages are good. *)
NewMarksGood ==
  \A s, r \in Sites :
    /\ \/ ir_site_max_ts'[s][r] = ir_site_max_ts[s][r]
       \/ GoodMark(last_clock', my_txns', dtxns', s, r, ir_site_max_ts'[s][r])
    /\ \/ ir_site_notified_ts'[r][s] = ir_site_notified_ts[r][s]
       \/ GoodMark(last_clock', my_txns', dtxns', s, r, ir_site_notified_ts'[r][s])
NewReqsGood ==
  \A p, s \in Sites : \A m \in NewReqs(<<p, s>>) :
    GoodReq(last_clock', my_txns', dtxns', m, p, s)
NewRepsGood ==
  \A p, s \in Sites : \A m \in NewReps(<<p, s>>) :
    GoodRep(last_clock', my_txns', dtxns', m, p, s)

(* The clocks stay ahead of what they gave out. *)
LEMMA ClocksAheadKept ==
  ASSUME TypeOK, TypeOK', AwareInv, Grows
  PROVE ClocksAhead'
<1>1. \A r \in Sites : LessEq(ZeroTs, last_clock'[r])
 <2> TAKE r \in Sites
 <2>1. LessEq(ZeroTs, last_clock[r]) /\ LessEq(last_clock[r], last_clock'[r]) BY DEF AwareInv, ClocksAhead, Grows
 <2>2. last_clock[r] \in ChrTsType /\ last_clock'[r] \in ChrTsType /\ ZeroTs \in ChrTsType
   BY AwareTypes, AwareTypesAfter
 <2> QED BY <2>1, <2>2, LessEqOrder
<1>2. ASSUME NEW r \in Sites, NEW e \in my_txns'[r] PROVE Less(ZeroTs, e.ts) /\ LessEq(e.ts, last_clock'[r])
 <2>1. /\ last_clock[r] \in ChrTsType /\ last_clock'[r] \in ChrTsType /\ ZeroTs \in ChrTsType
       /\ e.ts \in ChrTsType BY AwareTypes, AwareTypesAfter
 <2>2. LessEq(ZeroTs, last_clock[r]) /\ LessEq(last_clock[r], last_clock'[r]) BY DEF AwareInv, ClocksAhead, Grows
 <2>3. \/ Less(ZeroTs, e.ts) /\ LessEq(e.ts, last_clock[r])
       \/ Less(last_clock[r], e.ts) /\ LessEq(e.ts, last_clock'[r]) BY DEF AwareInv, ClocksAhead, Grows
 <2> QED BY <2>1, <2>2, <2>3, LessEqOrder
<1> QED BY <1>1, <1>2 DEF ClocksAhead

(* Marks stay good. *)
LEMMA MarksKept ==
  ASSUME TypeOK, TypeOK', AwareInv, Grows, NewMarksGood
  PROVE MarksGood'
<1>1. ASSUME NEW s \in Sites, NEW r \in Sites
      PROVE  /\ GoodMark(last_clock', my_txns', dtxns', s, r, ir_site_max_ts'[s][r])
             /\ GoodMark(last_clock', my_txns', dtxns', s, r, ir_site_notified_ts'[r][s])
 <2>1. /\ GoodMark(last_clock, my_txns, dtxns, s, r, ir_site_max_ts[s][r])
       /\ GoodMark(last_clock, my_txns, dtxns, s, r, ir_site_notified_ts[r][s]) BY DEF AwareInv, MarksGood
 <2>2. ir_site_max_ts[s][r] \in ChrTsType /\ ir_site_notified_ts[r][s] \in ChrTsType BY AwareTypes
 <2>3. /\ GoodMark(last_clock', my_txns', dtxns', s, r, ir_site_max_ts[s][r])
       /\ GoodMark(last_clock', my_txns', dtxns', s, r, ir_site_notified_ts[r][s]) BY <2>1, <2>2, GoodKept
 <2> QED BY <2>3 DEF NewMarksGood
<1> QED BY <1>1 DEF MarksGood

(* Together with the messages. *)
LEMMA AwareKept ==
  ASSUME TypeOK, TypeOK', AwareInv, Grows, NewMarksGood, NewReqsGood, NewRepsGood
  PROVE AwareInv'
<1>1. ClocksAhead' BY ClocksAheadKept
<1>2. MarksGood' BY MarksKept
<1>3. ReqsGood'
 <2>1. ASSUME NEW p \in Sites, NEW s \in Sites, NEW m \in MsgsIn(req'[<<p, s>>])
       PROVE GoodReq(last_clock', my_txns', dtxns', m, p, s)
  <3>1. CASE m \in MsgsIn(req[<<p, s>>])
   <4>1. m \in ReqMsg /\ GoodReq(last_clock, my_txns, dtxns, m, p, s) BY <3>1, AwareTypes DEF AwareInv, ReqsGood
   <4>2. m.type \in {"PrepareIRT", "IRSync"} => m.ts \in ChrTsType /\ m.delivered \in ChrTsType BY <4>1, ReqFields
   <4> QED BY <4>1, <4>2, GoodKept DEF GoodReq
  <3>2. CASE m \in NewReqs(<<p, s>>) BY <3>2 DEF NewReqsGood
  <3> QED BY <3>1, <3>2 DEF NewReqs
 <2> QED BY <2>1 DEF ReqsGood
<1>4. RepsGood'
 <2>1. ASSUME NEW p \in Sites, NEW s \in Sites, NEW m \in MsgsIn(rep'[<<p, s>>])
       PROVE GoodRep(last_clock', my_txns', dtxns', m, p, s)
  <3>1. CASE m \in MsgsIn(rep[<<p, s>>])
   <4>1. m \in RepMsg /\ GoodRep(last_clock, my_txns, dtxns, m, p, s) BY <3>1, AwareTypes DEF AwareInv, RepsGood
   <4>2. m.type = "PrepareIRTRes" => m.ts \in ChrTsType /\ m.delivered \in ChrTsType BY <4>1, RepFields
   <4> QED BY <4>1, <4>2, GoodKept DEF GoodRep
  <3>2. CASE m \in NewReps(<<p, s>>) BY <3>2 DEF NewRepsGood
  <3> QED BY <3>1, <3>2 DEF NewReps
 <2> QED BY <2>1 DEF RepsGood
<1> QED BY <1>1, <1>2, <1>3, <1>4 DEF AwareInv

-----
(* A handler that piggybacks nothing and hears no peer. *)
Unheard == UNCHANGED <<my_txns, ir_site_max_ts, ir_site_notified_ts>>
NoPiggyReqs ==
  \A c \in Sites \X Nodes : \A m \in NewReqs(c) : m.type \notin {"PrepareIRT", "IRSync"}
NoPiggyReps ==
  \A c \in Sites \X Sites : \A m \in NewReps(c) : m.type # "PrepareIRTRes"
Forgetless ==
  /\ \A r \in Sites : LessEq(last_clock[r], last_clock'[r])
  /\ \A s \in Sites : dtxns[s] \subseteq dtxns'[s]

(* Requests and replies without a piggyback are good. *)
LEMMA PlainGood ==
  /\ NoPiggyReqs => NewReqsGood
  /\ NoPiggyReps => NewRepsGood
<1>1. \A p, s \in Sites : <<p, s>> \in Sites \X Nodes /\ <<p, s>> \in Sites \X Sites BY Placement
<1>2. ASSUME NoPiggyReqs PROVE NewReqsGood BY <1>1, <1>2 DEF NoPiggyReqs, NewReqsGood, GoodReq
<1>3. ASSUME NoPiggyReps PROVE NewRepsGood BY <1>1, <1>3 DEF NoPiggyReps, NewRepsGood, GoodRep
<1> QED BY <1>2, <1>3

(* Such a handler keeps the invariant. *)
LEMMA QuietKeeps ==
  ASSUME TypeOK, TypeOK', AwareInv, Unheard, Forgetless, NoPiggyReqs, NoPiggyReps
  PROVE AwareInv'
<1>1. Grows BY DEF Unheard, Forgetless, Grows
<1>2. NewMarksGood BY DEF Unheard, NewMarksGood
<1> QED BY <1>1, <1>2, PlainGood, AwareKept

(* Generating a timestamp advances the clock. *)
LEMMA ClockAdvances ==
  ASSUME TypeOK, NEW n \in Nodes, NEW now \in PhysTimes, NEW F \in Floors, NEW k \in Nat
  PROVE  /\ Generate(n, now, F) \in ChrTsType /\ After(Generate(n, now, F), k) \in ChrTsType
         /\ Less(last_clock[n], Generate(n, now, F))
         /\ Less(last_clock[n], After(Generate(n, now, F), k))
<1> DEFINE g == Generate(n, now, F)
<1>1. g \in ChrTsType /\ Less(last_clock[n], g)
 <2>1. /\ n \in Int /\ -1 \in Int /\ now \in Int /\ clock_offset[n] \in Int
       /\ last_clock[n] \in ChrTsType /\ F \in SUBSET ChrTsType /\ IsFiniteSet(F)
   BY ClockAssumption, Placement, FloorFacts DEF TypeOK
 <2> QED BY <2>1, GenerateAdvances DEF Generate
<1> HIDE DEF g
<1>2. last_clock[n] \in ChrTsType BY DEF TypeOK
<1>3. After(g, k) \in ChrTsType /\ Less(last_clock[n], After(g, k)) BY <1>1, <1>2 DEF ChrTsType, After, ChrTsOf, Less
<1> QED BY <1>1, <1>3 DEF g

(* A clock that only n moved, forwards. *)
LEMMA ClocksForward ==
  ASSUME TypeOK, NEW n \in Nodes, NEW ts, last_clock' = [last_clock EXCEPT ![n] = ts],
         LessEq(last_clock[n], ts)
  PROVE \A r \in Sites : LessEq(last_clock[r], last_clock'[r]) BY Placement DEF TypeOK, LessEq

(* What HandlePiggyInfo makes of a good piggyback: s has heard, or been acknowledged, no
   more than it says. *)
LEMMA PiggyMarks ==
  ASSUME TypeOK, TypeOK', NEW s \in Sites, NEW from \in Nodes, NEW ts \in ChrTsType, NEW noti,
         NEW delivered \in ChrTsType, NEW known, dtxns[s] \subseteq known, NEW now,
         HandlePiggyInfo(s, from, ts, noti, delivered, known, now), UNCHANGED my_txns,
         \A r \in Sites : LessEq(last_clock[r], last_clock'[r]),
         from \in Sites =>
           /\ LessEq(ts, last_clock[from]) /\ LessEq(delivered, last_clock[s])
           /\ Announces(my_txns, dtxns, noti, s, from, ts)
           /\ Knows(my_txns, dtxns, from, s, delivered)
  PROVE  /\ Grows /\ NewMarksGood
         /\ from \in Sites => GoodMark(last_clock', my_txns', dtxns', s, from, ts)
<1>1. /\ dtxns' = [dtxns EXCEPT ![s] = known \cup {e.id : e \in noti}]
      /\ ir_site_notified_ts' = [ir_site_notified_ts EXCEPT ![s][from] =
                                   IF Less(@, delivered) THEN delivered ELSE @]
      /\ ir_site_max_ts' = [ir_site_max_ts EXCEPT ![s][from] = IF Less(@, ts) THEN ts ELSE @] BY DEF HandlePiggyInfo
<1>2. /\ dtxns'[s] = known \cup {e.id : e \in noti}
      /\ \A r \in Sites \ {s} : dtxns'[r] = dtxns[r] BY <1>1 DEF TypeOK
<1>3. /\ \A a \in Sites, b \in Nodes : a # s \/ b # from => ir_site_max_ts'[a][b] = ir_site_max_ts[a][b]
      /\ ir_site_max_ts'[s][from] \in {ir_site_max_ts[s][from], ts} BY <1>1 DEF TypeOK
<1>4. /\ \A a \in Sites, b \in Nodes :
           a # s \/ b # from => ir_site_notified_ts'[a][b] = ir_site_notified_ts[a][b]
      /\ ir_site_notified_ts'[s][from] \in {ir_site_notified_ts[s][from], delivered} BY <1>1 DEF TypeOK
<1>5. Grows BY <1>2 DEF Grows
<1>6. ASSUME from \in Sites
      PROVE  /\ GoodMark(last_clock', my_txns', dtxns', s, from, ts)
             /\ GoodMark(last_clock', my_txns', dtxns', from, s, delivered)
 <2>1. LessEq(ts, last_clock'[from]) BY <1>5, <1>6, KnowsKept
 <2>2. Announces(my_txns, dtxns, noti, s, from, ts) BY <1>6
 <2>3. Knows(my_txns', dtxns', s, from, ts) BY <1>2, <2>2 DEF Knows, Announces
 <2>4. Knows(my_txns', dtxns', from, s, delivered) /\ LessEq(delivered, last_clock'[s]) BY <1>5, <1>6, KnowsKept
 <2> QED BY <2>1, <2>3, <2>4 DEF GoodMark
<1>7. NewMarksGood
 <2>1. ASSUME NEW a \in Sites, NEW b \in Sites
       PROVE  /\ \/ ir_site_max_ts'[a][b] = ir_site_max_ts[a][b]
                 \/ GoodMark(last_clock', my_txns', dtxns', a, b, ir_site_max_ts'[a][b])
              /\ \/ ir_site_notified_ts'[b][a] = ir_site_notified_ts[b][a]
                 \/ GoodMark(last_clock', my_txns', dtxns', a, b, ir_site_notified_ts'[b][a])
   BY <1>3, <1>4, <1>6, Placement
 <2> QED BY <2>1 DEF NewMarksGood
<1> QED BY <1>5, <1>6, <1>7

(* CollectNotifyTxns leaves out only what d knows already. *)
LEMMA Collected ==
  ASSUME NEW my, NEW dt, NEW lc, NEW s \in Sites, NEW d \in Sites,
         \A e \in my[s] : e.ts \in ChrTsType,
         NEW mark \in ChrTsType, GoodMark(lc, my, dt, d, s, mark), NEW ts
  PROVE Announces(my, dt, CollectNotifyTxns(s, d, my[s], mark), d, s, ts)
<1> SUFFICES ASSUME NEW e \in my[s], ParOf(d) \in Touched(e.id)
             PROVE e.id \in dt[d] \/ \E c \in CollectNotifyTxns(s, d, my[s], mark) : c.id = e.id BY DEF Announces
<1>1. CASE Less(mark, e.ts) BY <1>1 DEF CollectNotifyTxns
<1>2. CASE ~Less(mark, e.ts) BY <1>2, LessEqOrder DEF GoodMark, Knows
<1> QED BY <1>1, <1>2

(* HandleIRT: the new transaction is later than every mark, so everybody it touches is
   told. *)
LEMMA HandleIRTAware ==
  ASSUME TypeOK, AwareInv, NEW s \in Sites, NEW t \in Txns, NEW now \in PhysTimes,
         NEW skips \in Nat, HandleIRT(s, t, now, skips)
  PROVE AwareInv'
<1>1. TypeOK' BY HandleIRTType
<1> DEFINE g == After(Generate(s, now, dist_txn_tss[s]), skips)
<1>2. /\ last_clock' = [last_clock EXCEPT ![s] = g]
      /\ dtxns' = [dtxns EXCEPT ![s] = @ \cup {t}]
      /\ UNCHANGED <<ir_site_max_ts, ir_site_notified_ts, rep>> BY DEF HandleIRT
<1>3. /\ last_clock'[s] = g
      /\ my_txns' = [my_txns EXCEPT ![s] = @ \cup {[ts |-> last_clock'[s], id |-> t]}]
      /\ \A c \in Sites \X Nodes : \A m \in NewReqs(c) :
           /\ c[1] = s
           /\ IsPiggy(m, "PrepareIRT", last_clock'[s], ZeroTs,
                      CollectNotifyTxns(s, c[2], my_txns'[s], ir_site_notified_ts[s][c[2]])) BY HandleIRTStep
<1>4. g \in ChrTsType /\ Less(last_clock[s], g)
 <2>1. s \in Nodes /\ dist_txn_tss[s] \in Floors BY Placement DEF TypeOK
 <2> QED BY <2>1, ClockAdvances
<1> HIDE DEF g
<1>5. Grows
 <2>1. \A r \in Sites : LessEq(last_clock[r], last_clock'[r]) BY <1>2, <1>4, ClocksForward, Placement DEF LessEq
 <2>2. \A r \in Sites : dtxns[r] \subseteq dtxns'[r] BY <1>2 DEF TypeOK
 <2>3. ASSUME NEW r \in Sites, NEW e \in my_txns'[r]
       PROVE e \in my_txns[r] \/ (Less(last_clock[r], e.ts) /\ LessEq(e.ts, last_clock'[r]))
  <3>1. e \in my_txns[r] \/ (r = s /\ e = [ts |-> last_clock'[s], id |-> t]) BY <1>3 DEF TypeOK
  <3> QED BY <1>3, <1>4, <3>1 DEF LessEq
 <2> QED BY <2>1, <2>2, <2>3 DEF Grows
<1>6. NewMarksGood BY <1>2 DEF NewMarksGood
<1>7. NewRepsGood BY <1>2 DEF NewRepsGood, NewReps
<1>8. ClocksAhead' /\ MarksGood' BY <1>1, <1>5, <1>6, ClocksAheadKept, MarksKept
<1>9. NewReqsGood
 <2> SUFFICES ASSUME NEW p \in Sites, NEW d \in Sites, NEW m \in NewReqs(<<p, d>>)
              PROVE GoodReq(last_clock', my_txns', dtxns', m, p, d) BY DEF NewReqsGood
 <2>1. /\ p = s /\ m.type = "PrepareIRT" /\ m.ts = last_clock'[s] /\ m.delivered = ZeroTs
       /\ m.noti = CollectNotifyTxns(s, d, my_txns'[s], ir_site_notified_ts[s][d])
  <3>1. <<p, d>> \in Sites \X Nodes /\ <<p, d>>[1] = p /\ <<p, d>>[2] = d BY Placement
  <3> QED BY <1>3, <3>1 DEF IsPiggy
 <2>2. GoodMark(last_clock', my_txns', dtxns', d, s, ir_site_notified_ts[s][d]) BY <1>2, <1>8 DEF MarksGood
 <2>3. ir_site_notified_ts[s][d] \in ChrTsType /\ \A e \in my_txns'[s] : e.ts \in ChrTsType
   BY <1>1, AwareTypes, AwareTypesAfter
 <2>4. Announces(my_txns', dtxns', m.noti, d, s, m.ts) BY <2>1, <2>2, <2>3, Collected
 <2>5. LessEq(m.ts, last_clock'[s]) BY <2>1 DEF LessEq
 <2>6. LessEq(ZeroTs, last_clock'[d]) /\ \A e \in my_txns'[d] : Less(ZeroTs, e.ts) BY <1>8 DEF ClocksAhead
 <2>7. ZeroTs \in ChrTsType /\ \A e \in my_txns'[d] : e.ts \in ChrTsType BY <1>1, AwareTypes, AwareTypesAfter
 <2>8. Knows(my_txns', dtxns', s, d, ZeroTs) BY <2>6, <2>7, LessEqOrder DEF Knows
 <2> QED BY <2>1, <2>4, <2>5, <2>6, <2>8 DEF GoodReq, GoodPiggy
<1> QED BY <1>1, <1>5, <1>6, <1>7, <1>9, AwareKept

(* IRSyncLoop of a site tells every peer what it has not acknowledged. *)
LEMMA IRSyncLoopAware ==
  ASSUME TypeOK, AwareInv, NEW n \in Nodes, NEW now \in PhysTimes, IRSyncLoop(n, now)
  PROVE AwareInv'
<1>1. TypeOK' BY IRSyncLoopType
<1>2. UNCHANGED <<my_txns, dtxns, ir_site_max_ts, ir_site_notified_ts, rep>> BY DEF IRSyncLoop, tableVars
<1>3. /\ \A k \in Nodes \ {n} : last_clock'[k] = last_clock[k]
      /\ \/ last_clock'[n] = last_clock[n]
         \/ \E k \in Nat : last_clock'[n] = After(Generate(n, now, dist_txn_tss[n]), k)
      /\ \A c \in Sites \X Nodes : \A m \in NewReqs(c) :
           /\ c[1] = Proc(n) /\ c[2] \in Sites /\ m.type = "IRSync" /\ m.from = n
           /\ m.ts \in ChrTsType /\ LessEq(m.ts, last_clock'[n])
           /\ m.delivered = IF n \in Sites THEN ir_site_max_ts[n][c[2]] ELSE ZeroTs
           /\ m.noti = IF n \in Sites
                       THEN CollectNotifyTxns(n, c[2], my_txns[n], ir_site_notified_ts[n][c[2]])
                       ELSE {} BY IRSyncLoopStep
<1>4. Grows
 <2>1. ASSUME NEW r \in Sites PROVE LessEq(last_clock[r], last_clock'[r])
  <3>1. r \in Nodes /\ dist_txn_tss[n] \in Floors BY Placement DEF TypeOK
  <3>2. \A k \in Nat : Less(last_clock[n], After(Generate(n, now, dist_txn_tss[n]), k)) BY <3>1, ClockAdvances
  <3> QED BY <1>3, <3>1, <3>2 DEF LessEq
 <2> QED BY <1>2, <2>1 DEF Grows
<1>5. NewMarksGood BY <1>2 DEF NewMarksGood
<1>6. NewRepsGood BY <1>2 DEF NewRepsGood, NewReps
<1>7. MarksGood' BY <1>1, <1>4, <1>5, MarksKept
<1>8. NewReqsGood
 <2> SUFFICES ASSUME NEW p \in Sites, NEW d \in Sites, NEW m \in NewReqs(<<p, d>>), n \in Sites
              PROVE m.type = "IRSync" /\ m.from = n /\ GoodPiggy(last_clock', my_txns', dtxns', m, n, d)
  <3>1. \A p, d \in Sites : <<p, d>> \in Sites \X Nodes BY Placement
  <3> QED BY <1>3, <3>1 DEF NewReqsGood, GoodReq
 <2>1. /\ m.type = "IRSync" /\ m.from = n
       /\ LessEq(m.ts, last_clock'[n]) /\ m.delivered = ir_site_max_ts[n][d]
       /\ m.noti = CollectNotifyTxns(n, d, my_txns[n], ir_site_notified_ts[n][d])
  <3>1. <<p, d>> \in Sites \X Nodes /\ <<p, d>>[2] = d BY Placement
  <3> QED BY <1>3, <3>1
 <2>2. /\ GoodMark(last_clock', my_txns', dtxns', d, n, ir_site_notified_ts[n][d])
       /\ GoodMark(last_clock', my_txns', dtxns', n, d, ir_site_max_ts[n][d]) BY <1>2, <1>7 DEF MarksGood
 <2>3. ir_site_notified_ts[n][d] \in ChrTsType /\ \A e \in my_txns'[n] : e.ts \in ChrTsType
   BY <1>1, AwareTypes, AwareTypesAfter
 <2>4. m.noti = CollectNotifyTxns(n, d, my_txns'[n], ir_site_notified_ts[n][d]) BY <1>2, <2>1
 <2>5. Announces(my_txns', dtxns', m.noti, d, n, m.ts) BY <2>2, <2>3, <2>4, Collected
 <2>6. LessEq(m.delivered, last_clock'[d]) /\ Knows(my_txns', dtxns', n, d, m.delivered) BY <2>1, <2>2 DEF GoodMark
 <2> QED BY <2>1, <2>5, <2>6 DEF GoodPiggy
<1> QED BY <1>1, <1>4, <1>5, <1>6, <1>8, AwareKept

(* OnPrepareIRT: what s acknowledges in its reply, it knows now. *)
LEMMA OnPrepareIRTAware ==
  ASSUME TypeOK, AwareInv, NEW src \in Sites, NEW s \in Sites, NEW now \in PhysTimes,
         OnPrepareIRT(src, s, now)
  PROVE AwareInv'
<1> DEFINE m == ReqAt(src, s)
           known == dtxns[s] \cup {m.txn}
           ts == GenerateChrTs(s, now, clock_offset'[s], last_clock[s], dist_txn_tss'[s])
<1>1. TypeOK' BY OnPrepareIRTType
<1>2. /\ m \in MsgsIn(req[<<src, s>>]) /\ m \in ReqMsg /\ m.type = "PrepareIRT"
      /\ \A c \in Sites \X Nodes : \A w \in NewReqs(c) : w.type = "SendOutput"
      /\ \A c \in Sites \X Sites : \A w \in NewReps(c) :
           \/ IsAnswer(w, s, c)
           \/ /\ c[1] = s /\ c[2] = src
              /\ IsPiggy(w, "PrepareIRTRes", last_clock'[s], m.ts,
                         CollectNotifyTxns(s, src, my_txns[s], ir_site_notified_ts'[s][src])) BY OnPrepareIRTStep
<1>3. /\ HandlePiggyInfo(s, src, m.ts, m.noti, m.delivered, known, now)
      /\ last_clock' = [last_clock EXCEPT ![s] = ts]
      /\ UNCHANGED my_txns BY DEF OnPrepareIRT, ReqAt
<1> HIDE DEF m
<1>4. m.ts \in ChrTsType /\ m.delivered \in ChrTsType BY <1>2, ReqFields
<1>5. \A r \in Sites : LessEq(last_clock[r], last_clock'[r])
 <2>1. /\ s \in Int /\ now \in Int /\ clock_offset'[s] \in Int /\ last_clock[s] \in ChrTsType
       /\ dist_txn_tss'[s] \in Floors /\ s \in Nodes BY <1>1, Placement, ClockAssumption DEF TypeOK
 <2>2. dist_txn_tss'[s] \in SUBSET ChrTsType /\ IsFiniteSet(dist_txn_tss'[s]) BY <2>1, FloorFacts
 <2>3. LessEq(last_clock[s], ts) BY <2>1, <2>2, GenerateAdvances DEF LessEq
 <2> HIDE DEF ts
 <2> QED BY <1>3, <2>1, <2>3, ClocksForward
<1>6. GoodPiggy(last_clock, my_txns, dtxns, m, src, s) BY <1>2 DEF AwareInv, ReqsGood, GoodReq
<1>7. Grows /\ NewMarksGood /\ GoodMark(last_clock', my_txns', dtxns', s, src, m.ts)
 <2>1. dtxns[s] \subseteq known /\ src \in Nodes BY Placement
 <2> HIDE DEF known
 <2> QED BY <1>1, <1>3, <1>4, <1>5, <1>6, <2>1, PiggyMarks DEF GoodPiggy
<1>8. MarksGood' BY <1>1, <1>7, MarksKept
<1>9. NewReqsGood
 <2>1. NoPiggyReqs BY <1>2 DEF NoPiggyReqs
 <2> QED BY <2>1, PlainGood
<1>10. NewRepsGood
 <2> SUFFICES ASSUME NEW p \in Sites, NEW d \in Sites, NEW w \in NewReps(<<p, d>>),
                     w.type = "PrepareIRTRes"
              PROVE GoodPiggy(last_clock', my_txns', dtxns', w, p, d) BY DEF NewRepsGood, GoodRep
 <2>1. /\ p = s /\ d = src /\ w.ts = last_clock'[s] /\ w.delivered = m.ts
       /\ w.noti = CollectNotifyTxns(s, src, my_txns'[s], ir_site_notified_ts'[s][src])
  <3>1. <<p, d>> \in Sites \X Sites /\ <<p, d>>[1] = p /\ <<p, d>>[2] = d OBVIOUS
  <3>2. \/ IsAnswer(w, s, <<p, d>>)
        \/ /\ <<p, d>>[1] = s /\ <<p, d>>[2] = src
           /\ IsPiggy(w, "PrepareIRTRes", last_clock'[s], m.ts,
                      CollectNotifyTxns(s, src, my_txns[s], ir_site_notified_ts'[s][src])) BY <1>2, <3>1
  <3> QED BY <1>3, <3>1, <3>2 DEF IsAnswer, IsPiggy
 <2>2. GoodMark(last_clock', my_txns', dtxns', src, s, ir_site_notified_ts'[s][src]) BY <1>8 DEF MarksGood
 <2>3. ir_site_notified_ts'[s][src] \in ChrTsType /\ \A e \in my_txns'[s] : e.ts \in ChrTsType
  <3>1. ir_site_notified_ts' \in [Sites -> [Nodes -> ChrTsType]] /\ src \in Nodes BY <1>1, Placement DEF TypeOK
  <3> QED BY <1>1, <3>1, AwareTypesAfter
 <2>4. Announces(my_txns', dtxns', w.noti, src, s, w.ts) BY <2>1, <2>2, <2>3, Collected
 <2>5. LessEq(w.ts, last_clock'[s]) BY <2>1 DEF LessEq
 <2>6. LessEq(w.delivered, last_clock'[src]) /\ Knows(my_txns', dtxns', s, src, w.delivered) BY <1>7, <2>1 DEF GoodMark
 <2> QED BY <2>1, <2>4, <2>5, <2>6 DEF GoodPiggy
<1> QED BY <1>1, <1>7, <1>9, <1>10, AwareKept

(* PrepareIRTACK: the handler hears a replica. *)
LEMMA PrepareIRTACKAware ==
  ASSUME TypeOK, AwareInv, NEW src \in Sites, NEW s \in Sites, NEW now \in PhysTimes,
         PrepareIRTACK(src, s, now)
  PROVE AwareInv'
<1> DEFINE m == RepAt(src, s)
<1>1. TypeOK' BY PrepareIRTACKType
<1>2. /\ m \in MsgsIn(rep[<<src, s>>]) /\ m \in RepMsg /\ m.type = "PrepareIRTRes"
      /\ \A c \in Sites \X Nodes : \A w \in NewReqs(c) : w.type = "SendOutput"
      /\ \A c \in Sites \X Sites : \A w \in NewReps(c) : IsAnswer(w, s, c) BY PrepareIRTACKStep
<1>3. /\ HandlePiggyInfo(s, src, m.ts, m.noti, m.delivered, dtxns[s], now)
      /\ UNCHANGED <<my_txns, last_clock>> BY DEF PrepareIRTACK, RepAt
<1> HIDE DEF m
<1>4. m.ts \in ChrTsType /\ m.delivered \in ChrTsType BY <1>2, RepFields
<1>5. \A r \in Sites : LessEq(last_clock[r], last_clock'[r]) BY <1>3 DEF LessEq
<1>6. GoodPiggy(last_clock, my_txns, dtxns, m, src, s) BY <1>2 DEF AwareInv, RepsGood, GoodRep
<1>7. Grows /\ NewMarksGood
 <2>1. dtxns[s] \subseteq dtxns[s] /\ src \in Nodes BY Placement
 <2> QED BY <1>1, <1>3, <1>4, <1>5, <1>6, <2>1, PiggyMarks DEF GoodPiggy
<1>8. NoPiggyReqs /\ NoPiggyReps BY <1>2 DEF NoPiggyReqs, NoPiggyReps, IsAnswer
<1> QED BY <1>1, <1>7, <1>8, PlainGood, AwareKept

(* OnIRSync: a site hears a peer, or the manager, which has nothing to tell. *)
LEMMA OnIRSyncAware ==
  ASSUME TypeOK, AwareInv, NEW src \in Sites, NEW s \in Sites, NEW now \in PhysTimes,
         OnIRSync(src, s, now)
  PROVE AwareInv'
<1> DEFINE m == ReqAt(src, s)
<1>1. TypeOK' BY OnIRSyncType
<1>2. /\ m \in MsgsIn(req[<<src, s>>]) /\ m \in ReqMsg /\ m.type = "IRSync"
      /\ \A c \in Sites \X Nodes : \A w \in NewReqs(c) : w.type = "SendOutput"
      /\ \A c \in Sites \X Sites : \A w \in NewReps(c) : IsAnswer(w, s, c) BY OnIRSyncStep
<1>3. /\ HandlePiggyInfo(s, m.from, m.ts, m.noti, m.delivered, dtxns[s], now)
      /\ UNCHANGED <<my_txns, last_clock>> BY DEF OnIRSync, ReqAt
<1> HIDE DEF m
<1>4. m.ts \in ChrTsType /\ m.delivered \in ChrTsType /\ m.from \in Nodes BY <1>2, ReqFields
<1>5. \A r \in Sites : LessEq(last_clock[r], last_clock'[r]) BY <1>3 DEF LessEq
<1>6. m.from \in Sites => GoodPiggy(last_clock, my_txns, dtxns, m, m.from, s) BY <1>2 DEF AwareInv, ReqsGood, GoodReq
<1>7. Grows /\ NewMarksGood
 <2>1. dtxns[s] \subseteq dtxns[s] OBVIOUS
 <2> QED BY <1>1, <1>3, <1>4, <1>5, <1>6, <2>1, PiggyMarks DEF GoodPiggy
<1>8. NoPiggyReqs /\ NoPiggyReps BY <1>2 DEF NoPiggyReqs, NoPiggyReps, IsAnswer
<1> QED BY <1>1, <1>7, <1>8, PlainGood, AwareKept

-----
(* OnSubmitCRT: the coordinator's clock moves. *)
LEMMA OnSubmitCRTAware ==
  ASSUME TypeOK, AwareInv, NEW s \in Sites, NEW t \in Txns, NEW now \in PhysTimes,
         OnSubmitCRT(s, t, now)
  PROVE AwareInv'
<1>1. TypeOK' BY OnSubmitCRTType
<1>2. /\ last_clock' = [last_clock EXCEPT ![s] = Generate(s, now, dist_txn_tss[s])]
      /\ dtxns' = [dtxns EXCEPT ![s] = @ \cup {t}] /\ rep' = rep
      /\ Unheard BY DEF OnSubmitCRT, syncVars, Unheard
<1>3. NoPiggyReqs BY OnSubmitCRTStep DEF NoPiggyReqs
<1>4. NoPiggyReps BY <1>2 DEF NoPiggyReps, NewReps
<1>5. \A r \in Sites : LessEq(last_clock[r], last_clock'[r])
 <2>1. s \in Nodes /\ dist_txn_tss[s] \in Floors /\ 0 \in Nat BY Placement DEF TypeOK
 <2>2. LessEq(last_clock[s], Generate(s, now, dist_txn_tss[s])) BY <2>1, ClockAdvances DEF LessEq
 <2> QED BY <1>2, <2>1, <2>2, ClocksForward
<1>6. Forgetless BY <1>2, <1>5 DEF Forgetless, TypeOK
<1> QED BY <1>1, <1>2, <1>3, <1>4, <1>6, QuietKeeps

(* The manager's handlers. *)
LEMMA ManagerAware ==
  ASSUME TypeOK, AwareInv, NEW src \in Sites, NEW mgr \in Managers,
         \/ \E now \in PhysTimes : MgrPrepareCRT(src, mgr, now)
         \/ NotiWait(src, mgr)
  PROVE AwareInv'
<1>1. ASSUME NEW now \in PhysTimes, MgrPrepareCRT(src, mgr, now) PROVE AwareInv'
 <2>1. TypeOK' BY <1>1, MgrPrepareCRTType
 <2>2. Unheard /\ UNCHANGED <<dtxns, rep>> BY <1>1 DEF MgrPrepareCRT, syncVars, tableVars, Unheard
 <2>3. /\ \A k \in Nodes \ {mgr} : last_clock'[k] = last_clock[k]
       /\ \A c \in Sites \X Nodes : \A w \in NewReqs(c) : w.type \in {"PrepareCRT", "NotiCRT"}
  <3>1. \A k \in Nodes \ {mgr} : last_clock'[k] = last_clock[k] BY <1>1, MgrPrepareCRTStep
  <3>2. ASSUME NEW c \in Sites \X Nodes, NEW w \in NewReqs(c) PROVE w.type = "PrepareCRT" \/ w.type = "NotiCRT"
   <4>1. CrtMsg(w, ReqAt(src, mgr), mgr, c[2]) BY <1>1, MgrPrepareCRTStep
   <4> QED BY <4>1 DEF CrtMsg
  <3> QED BY <3>1, <3>2
 <2>4. NoPiggyReqs /\ NoPiggyReps BY <2>2, <2>3 DEF NoPiggyReqs, NoPiggyReps, NewReps
 <2>5. Forgetless BY <2>2, <2>3, Placement, ManagerFacts DEF Forgetless, LessEq
 <2> QED BY <2>1, <2>2, <2>4, <2>5, QuietKeeps
<1>2. ASSUME NotiWait(src, mgr) PROVE AwareInv'
 <2>1. TypeOK' BY <1>2, NotiWaitType
 <2>2. Unheard /\ UNCHANGED <<dtxns, rep, last_clock>> BY <1>2 DEF NotiWait, syncVars, tableVars, Unheard
 <2>3. \A c \in Sites \X Nodes : \A w \in NewReqs(c) : w.type = "NotiCommit" BY <1>2, NotiWaitStep
 <2>4. NoPiggyReqs /\ NoPiggyReps /\ Forgetless BY <2>2, <2>3 DEF NoPiggyReqs, NoPiggyReps, NewReps, Forgetless, LessEq
 <2> QED BY <2>1, <2>2, <2>4, QuietKeeps
<1> QED BY <1>1, <1>2

(* CheckRemotePrepared: at most the coordinator's clock moves. *)
LEMMA AcknowledgedQuiet ==
  ASSUME TypeOK, NEW s \in Sites, NEW t, NEW acked, NEW par, NEW now \in PhysTimes,
         Acknowledged(s, t, acked, par, now)
  PROVE  /\ \A r \in Sites : LessEq(last_clock[r], last_clock'[r])
         /\ NoPiggyReqs /\ NoPiggyReps
<1>1. \/ UNCHANGED <<last_clock, rep>> /\ NoNewReqs
      \/ /\ \E f \in Floors : last_clock' = [last_clock EXCEPT ![s] = Generate(s, now, f)]
         /\ \A c \in Sites \X Nodes : \A m \in NewReqs(c) :
              m.type = "SendOutput" \/ DecisionMsg(m, s, t, WithPrepared(acked, par), c[2])
         /\ \A c \in Sites \X Sites : \A m \in NewReps(c) : IsAnswer(m, s, c) BY DEF Acknowledged
<1>2. CASE UNCHANGED <<last_clock, rep>> /\ NoNewReqs BY <1>2 DEF LessEq, NoNewReqs, NoPiggyReqs, NoPiggyReps, NewReps
<1>3. ASSUME NEW f \in Floors, last_clock' = [last_clock EXCEPT ![s] = Generate(s, now, f)],
             \A c \in Sites \X Nodes : \A m \in NewReqs(c) :
               m.type = "SendOutput" \/ DecisionMsg(m, s, t, WithPrepared(acked, par), c[2]),
             \A c \in Sites \X Sites : \A m \in NewReps(c) : IsAnswer(m, s, c)
      PROVE  /\ \A r \in Sites : LessEq(last_clock[r], last_clock'[r])
             /\ NoPiggyReqs /\ NoPiggyReps
 <2>1. s \in Nodes /\ 0 \in Nat BY Placement
 <2>2. LessEq(last_clock[s], Generate(s, now, f)) BY <2>1, ClockAdvances DEF LessEq
 <2>3. \A r \in Sites : LessEq(last_clock[r], last_clock'[r]) BY <1>3, <2>1, <2>2, ClocksForward
 <2>4. NoPiggyReqs BY <1>3 DEF NoPiggyReqs, DecisionMsg
 <2>5. NoPiggyReps BY <1>3 DEF NoPiggyReps, IsAnswer
 <2> QED BY <2>3, <2>4, <2>5
<1> QED BY <1>1, <1>2, <1>3

(* OnPrepareCRT and OnRemotePrepared. *)
LEMMA PreparedAware ==
  ASSUME TypeOK, AwareInv, NEW src \in Sites, NEW s \in Sites, NEW now \in PhysTimes,
         OnPrepareCRT(src, s, now) \/ OnRemotePrepared(src, s, now)
  PROVE AwareInv'
<1>1. ASSUME OnRemotePrepared(src, s, now) PROVE AwareInv'
 <2>1. TypeOK' /\ Unheard /\ UNCHANGED dtxns
   BY <1>1, OnRemotePreparedType DEF OnRemotePrepared, syncVars, tableVars, Unheard
 <2>2. \E t, acked, par : Acknowledged(s, t, acked, par, now) BY <1>1, OnRemotePreparedStep
 <2>3. NoPiggyReqs /\ NoPiggyReps /\ Forgetless BY <2>1, <2>2, AcknowledgedQuiet DEF Forgetless
 <2> QED BY <2>1, <2>3, QuietKeeps
<1>2. ASSUME OnPrepareCRT(src, s, now) PROVE AwareInv'
 <2> DEFINE m == ReqAt(src, s)
 <2>1. TypeOK' /\ Unheard BY <1>2, OnPrepareCRTType DEF OnPrepareCRT, syncVars, Unheard
 <2>2. \/ /\ Acknowledged(s, m.txn, OwnAck(tx[s][m.txn], s, m.ts), ParOf(s), now)
          /\ UNCHANGED dtxns
       \/ UNCHANGED <<last_clock, rep, dtxns>> /\ NoNewReqs
       \/ /\ dtxns' = [dtxns EXCEPT ![s] = @ \cup {m.txn}]
          /\ UNCHANGED <<last_clock, rep>>
          /\ \A c \in Sites \X Nodes : \A w \in NewReqs(c) : PreparedMsg(w, s, m) BY <1>2, OnPrepareCRTStep
 <2> HIDE DEF m
 <2>3. NoPiggyReqs /\ NoPiggyReps /\ Forgetless
  <3>1. CASE /\ Acknowledged(s, m.txn, OwnAck(tx[s][m.txn], s, m.ts), ParOf(s), now)
             /\ UNCHANGED dtxns BY <3>1, AcknowledgedQuiet DEF Forgetless
  <3>2. CASE UNCHANGED <<last_clock, rep, dtxns>> /\ NoNewReqs
    BY <3>2 DEF Forgetless, LessEq, NoNewReqs, NoPiggyReqs, NoPiggyReps, NewReps
  <3>3. CASE /\ dtxns' = [dtxns EXCEPT ![s] = @ \cup {m.txn}]
             /\ UNCHANGED <<last_clock, rep>>
             /\ \A c \in Sites \X Nodes : \A w \in NewReqs(c) : PreparedMsg(w, s, m)
    BY <3>3 DEF TypeOK, Forgetless, LessEq, NoPiggyReqs, NoPiggyReps, NewReps, PreparedMsg
  <3> QED BY <2>2, <3>1, <3>2, <3>3
 <2> QED BY <2>1, <2>3, QuietKeeps
<1> QED BY <1>1, <1>2

(* The handlers that leave all clocks alone. *)
LEMMA StillAware ==
  ASSUME TypeOK, AwareInv, NEW src \in Sites, NEW s \in Sites,
         \/ OnNotiCRT(src, s) \/ OnDistExe(src, s) \/ DistExeAck(src, s)
         \/ OnNotiCommit(src, s) \/ OnSendOutput(src, s)
  PROVE AwareInv'
<1>1. ASSUME TypeOK', Unheard, UNCHANGED last_clock,
             \A r \in Sites : dtxns[r] \subseteq dtxns'[r], NoPiggyReqs, NoPiggyReps
      PROVE AwareInv'
 <2>1. Forgetless BY <1>1 DEF Forgetless, LessEq
 <2> QED BY <1>1, <2>1, QuietKeeps
<1>2. ASSUME OnNotiCRT(src, s) PROVE AwareInv'
 <2>1. /\ TypeOK' /\ Unheard /\ UNCHANGED <<last_clock, dtxns, rep>>
       /\ Receives(src, s, "NotiCRT") /\ req' = Taken(req, <<src, s>>)
   BY <1>2, OnNotiCRTType DEF OnNotiCRT, tableVars, Unheard
 <2>2. NoPiggyReqs /\ NoPiggyReps BY <2>1, OnlyTaken, Placement DEF NoNewReqs, NoPiggyReqs, NoPiggyReps, NewReps
 <2> QED BY <1>1, <2>1, <2>2
<1>3. ASSUME OnNotiCommit(src, s) PROVE AwareInv'
 <2>1. /\ TypeOK' /\ Unheard /\ UNCHANGED <<last_clock, dtxns, rep>>
       /\ Receives(src, s, "NotiCommit") /\ req' = Taken(req, <<src, s>>)
   BY <1>3, OnNotiCommitType DEF OnNotiCommit, tableVars, Unheard
 <2>2. NoPiggyReqs /\ NoPiggyReps BY <2>1, OnlyTaken, Placement DEF NoNewReqs, NoPiggyReqs, NoPiggyReps, NewReps
 <2> QED BY <1>1, <2>1, <2>2
<1>4. ASSUME OnDistExe(src, s) PROVE AwareInv'
 <2> DEFINE m == ReqAt(src, s)
 <2>1. TypeOK' /\ Unheard /\ UNCHANGED last_clock BY <1>4, OnDistExeType DEF OnDistExe, syncVars, Unheard
 <2>2. \/ /\ UNCHANGED dtxns
          /\ \A c \in Sites \X Nodes : \A w \in NewReqs(c) : w.type = "SendOutput"
          /\ \A c \in Sites \X Sites : \A w \in NewReps(c) : IsAnswer(w, s, c)
       \/ dtxns' = [dtxns EXCEPT ![s] = @ \cup {m.txn}] /\ UNCHANGED rep /\ NoNewReqs BY <1>4, OnDistExeStep
 <2> HIDE DEF m
 <2>3. \A r \in Sites : dtxns[r] \subseteq dtxns'[r] BY <2>2 DEF TypeOK
 <2>4. NoPiggyReqs /\ NoPiggyReps BY <2>2 DEF NoNewReqs, NoPiggyReqs, NoPiggyReps, NewReps, IsAnswer
 <2> QED BY <1>1, <2>1, <2>3, <2>4
<1>5. ASSUME DistExeAck(src, s) PROVE AwareInv'
 <2>1. TypeOK' /\ Unheard /\ UNCHANGED <<last_clock, dtxns, req>>
   BY <1>5, DistExeAckType DEF DistExeAck, clockVars, syncVars, tableVars, Unheard
 <2>2. NoNewReps BY <1>5, DistExeAckStep
 <2>3. NoPiggyReqs /\ NoPiggyReps BY <2>1, <2>2 DEF NoNewReps, NoPiggyReqs, NoPiggyReps, NewReqs
 <2> QED BY <1>1, <2>1, <2>3
<1>6. ASSUME OnSendOutput(src, s) PROVE AwareInv'
 <2>1. TypeOK' /\ Unheard /\ UNCHANGED <<last_clock, dtxns>>
   BY <1>6, OnSendOutputType DEF OnSendOutput, syncVars, tableVars, Unheard
 <2>2. /\ \A c \in Sites \X Nodes : \A w \in NewReqs(c) : w.type \in {"SendOutput", "NotiWait"}
       /\ \A c \in Sites \X Sites : \A w \in NewReps(c) : IsAnswer(w, s, c) BY <1>6, OnSendOutputStep
 <2>3. NoPiggyReqs /\ NoPiggyReps BY <2>2 DEF NoPiggyReqs, NoPiggyReps, IsAnswer
 <2> QED BY <1>1, <2>1, <2>3
<1> QED BY <1>2, <1>3, <1>4, <1>5, <1>6

-----
(* At the start nobody has a transaction or a message. *)
LEMMA InitAware == Init => AwareInv
<1> SUFFICES ASSUME Init PROVE AwareInv OBVIOUS
<1>1. MsgsIn(<<>>) = {} BY OutMsgs
<1>2. \A p, s \in Sites : req[<<p, s>>] = <<>> /\ rep[<<p, s>>] = <<>> BY Placement DEF Init
<1>3. ReqsGood /\ RepsGood BY <1>1, <1>2 DEF ReqsGood, RepsGood
<1>4. \A r \in Sites : my_txns[r] = {} BY DEF Init
<1>5. \A r \in Sites : LessEq(ZeroTs, last_clock[r]) BY Placement DEF Init, WarmTs, ChrTsOf, ZeroTs, LessEq, Less
<1>6. ASSUME NEW s \in Sites, NEW r \in Sites
      PROVE  /\ LessEq(ir_site_max_ts[s][r], last_clock[r])
             /\ LessEq(ir_site_notified_ts[r][s], last_clock[r])
 <2>1. /\ last_clock[r] = WarmTs(r) /\ ir_site_notified_ts[r][s] = ZeroTs
       /\ ir_site_max_ts[s][r] \in {WarmTs(r), ZeroTs} BY Placement DEF Init
 <2> QED BY <1>5, <2>1 DEF LessEq
<1> QED BY <1>3, <1>4, <1>5, <1>6 DEF AwareInv, ClocksAhead, MarksGood, GoodMark, Knows

(* Every step keeps the invariant. *)
LEMMA NextAware ==
  ASSUME TypeOK, AwareInv, [Next]_vars
  PROVE AwareInv'
<1>1. ASSUME NEW s \in Sites, NEW t \in Txns, NEW now \in PhysTimes,
             \/ \E skips \in 0 .. Cardinality(Txns) : HandleIRT(s, t, now, skips)
             \/ OnSubmitCRT(s, t, now)
      PROVE AwareInv'
 <2>1. \A skips \in 0 .. Cardinality(Txns) : skips \in Nat OBVIOUS
 <2> QED BY <1>1, <2>1, HandleIRTAware, OnSubmitCRTAware
<1>2. ASSUME NEW n \in Nodes, NEW now \in PhysTimes, IRSyncLoop(n, now) PROVE AwareInv' BY <1>2, IRSyncLoopAware
<1>3. ASSUME NEW src \in Sites, NEW s \in Sites, NEW now \in PhysTimes,
             \/ OnPrepareIRT(src, s, now) \/ PrepareIRTACK(src, s, now) \/ OnIRSync(src, s, now)
             \/ OnPrepareCRT(src, s, now) \/ OnRemotePrepared(src, s, now)
      PROVE AwareInv' BY <1>3, OnPrepareIRTAware, PrepareIRTACKAware, OnIRSyncAware, PreparedAware
<1>4. ASSUME NEW src \in Sites, NEW s \in Sites,
             \/ OnNotiCRT(src, s) \/ OnDistExe(src, s) \/ DistExeAck(src, s)
             \/ OnNotiCommit(src, s) \/ OnSendOutput(src, s)
      PROVE AwareInv' BY <1>4, StillAware
<1>5. ASSUME NEW src \in Sites, NEW m \in Managers,
             NotiWait(src, m) \/ \E now \in PhysTimes : MgrPrepareCRT(src, m, now)
      PROVE AwareInv' BY <1>5, ManagerAware
<1>6. ASSUME NEW m \in Managers, MgrFinish(m) PROVE AwareInv'
 <2>1. TypeOK' BY <1>6, MgrFinishType
 <2>2. Unheard /\ UNCHANGED <<dtxns, req, rep, last_clock>> BY <1>6 DEF MgrFinish, syncVars, tableVars, Unheard
 <2>3. NoPiggyReqs /\ NoPiggyReps /\ Forgetless
   BY <2>2 DEF NoPiggyReqs, NoPiggyReps, NewReqs, NewReps, Forgetless, LessEq
 <2> QED BY <2>1, <2>2, <2>3, QuietKeeps
<1>7. CASE UNCHANGED vars BY <1>7 DEF AwareInv, ClocksAhead, MarksGood, ReqsGood, RepsGood, vars, clockVars, syncVars,
    tableVars, execVars
<1>8. CASE Submit BY <1>1, <1>8 DEF Submit
<1>9. CASE Sync BY <1>2, <1>9 DEF Sync
<1>10. CASE Deliver BY <1>3, <1>4, <1>5, <1>6, <1>10 DEF Deliver
<1> QED BY <1>7, <1>8, <1>9, <1>10 DEF Next

(* HandlePiggyInfo keeps its promise: a site that has heard a timestamp from a peer
   knows every transaction of the peer up to it that touches its partition, however
   requests, replies and synchronisation rounds overtake each other.
   CheckExecutableTxns relies on it when it waits for ir_site_max_ts_ only. *)
THEOREM AwarenessHolds == Spec => []Awareness
<1>1. Init => TypeOK /\ AwareInv BY InitType, InitAware
<1>2. TypeOK /\ AwareInv /\ [Next]_vars => (TypeOK /\ AwareInv)' BY NextType, NextAware
<1>3. TypeOK /\ AwareInv => Awareness BY AwareInvImplies
<1> QED BY <1>1, <1>2, <1>3, PTL DEF Spec
=====
