----- MODULE OceanVista_proofs -----
(* A visibility watermark of Ocean Vista is final and timestamps are unique, for every
   deployment, workload, clock and order of messages. A watermark is the minimum of what
   the sites said at different times, and it is used when the sites have moved on.  What
   makes the promise inductive is that a value is final for a site, from the moment the
   site reports it: no timestamp the site holds or will ever give out is below it.  That
   survives every step of the site, so it holds of every value on its way, in a
   gossiper's tables and at the sites that adopted it. The second half is about a
   timestamp that was given out: its entry at the site that gave it stays until the
   transaction is stored in all of its partitions. *)
EXTENDS OceanVista, FiniteSetTheorems, NaturalsInduction, WellFoundedInduction, TLAPS

(* What is on connection k. *)
MsgsIn(net, k) == {net[k][i] : i \in 1..Len(net[k])}

OvTs == Nat \X Nat
OvEntry == [ts : OvTs, txn : OvTxns]
OvPieceSet == SUBSET DOMAIN OvPieceOf
OvParSet == {l.par[s] : l \in OvLayouts, s \in OvSites}

OvStatus == {"INIT", "STORED", "CAN_EXECUTE", "EXECUTED"}
OvPhase == {"OV_INIT", "OV_CREATED_TS", "OV_DISPATHED", "OV_STORED", "OV_EXECUTE", "OV_END", "done"}
OvLoop == {"off", "ready", "wait"}

OvTxRec == [status : OvStatus, ts : OvTs, has : OvPieceSet, dispatched : BOOLEAN, asked : BOOLEAN]
OvSiteRec == [last : Nat, sphase : SUBSET OvEntry, vw : OvTs, inited : BOOLEAN, stored : SUBSET OvTxns,
              tx : [OvTxns -> OvTxRec]]
OvCoordRec == [phase : OvPhase, ts : OvTs, out : OvPieceSet, acked : OvPieceSet, stores : SUBSET OvParSet]
OvGossRec(d) == [site_wm : [OvDcSites(d) -> OvTs], dc_wm : [OvDcs -> OvTs], vw : OvTs,
                 agg : OvLoop, agg_flag : BOOLEAN, agg_acks : SUBSET OvSites, agg_rounds : Nat,
                 gos : OvLoop, gos_flag : BOOLEAN, gos_acks : SUBSET OvDcs, gos_rounds : Nat]

(* Who talks to whom. *)
OvCallsSite(k) == \E t \in OvTxns, s \in OvSites : k = <<OvCoord(t), OvSite(s)>>
OvAnswersCoord(k) == \E s \in OvSites, t \in OvTxns : k = <<OvSite(s), OvCoord(t)>>
OvPublishes(k) == \E d \in OvDcs, s \in OvSites : k = <<OvGoss(d), OvSite(s)>>
OvReports(k) == \E s \in OvSites, d \in OvDcs : k = <<OvSite(s), OvGoss(d)>>
OvGossips(k) == \E d, e \in OvDcs : k = <<OvGoss(d), OvGoss(e)>>

-----
(* The invariant.  lay, site and coord stand for the variables, so that a step can be
   spoken of in one formula. *)

(* Transaction t is stored in each of its partitions. *)
OvDone(lay, site, t) ==
  \A par \in OvPars(t) : \E r \in OvSites : lay.par[r] = par /\ site[r].tx[t].dispatched

(* Nothing that u holds or will give out is below w. *)
OvFinal(site, w, u) ==
  /\ \A e \in site[u].sphase : ~OvLess(e.ts, w)
  /\ ~OvLess(<<site[u].last + 1, u>>, w)
OvFinalDc(site, w, d) == \A u \in OvDcSites(d) : OvFinal(site, w, u)
OvFinalAll(site, w) == \A u \in OvSites : OvFinal(site, w, u)

(* ts was given out, and is held until t is stored. *)
OvGiven(site, ts) == ts[2] \in OvSites /\ ts[1] <= site[ts[2]].last
OvHeld(lay, site, ts, t) == (\E e \in site[ts[2]].sphase : e.ts = ts /\ e.txn = t) \/ OvDone(lay, site, t)

(* A message m on connection k. *)
OvMsgOK(lay, site, m, k) ==
  /\ m.type \in {"CreateTs", "Dispatch", "Store", "Execute", "StoredRemoveTs"} => OvCallsSite(k)
  /\ m.type \in {"CreateTsAck", "DispatchAck", "StoreAck", "StoredRemoveTsAck", "ExecuteAck"} => OvAnswersCoord(k)
  /\ m.type = "Publish" => OvPublishes(k) /\ m.ts \in OvTs /\ OvFinalAll(site, m.ts)
  /\ m.type = "PublishAck" => OvReports(k) /\ m.ts \in OvTs /\ OvFinal(site, m.ts, k[1][2])
  /\ m.type \in {"Exchange", "ExchangeAck"} => OvGossips(k) /\ m.ts \in OvTs /\ OvFinalDc(site, m.ts, k[1][2])
  /\ m.type = "CreateTsAck" => m.ts \in OvTs /\ OvGiven(site, m.ts) /\ OvHeld(lay, site, m.ts, k[2][2])
  /\ m.type \in {"Dispatch", "DispatchAck", "Store"} => m.pieces \in OvPieceSet
  /\ m.type = "Store" => m.ts \in OvTs
  /\ m.type = "StoreAck" => /\ m.par \in OvParSet /\ m.par = lay.par[k[1][2]]
                            /\ site[k[1][2]].tx[k[2][2]].dispatched
  /\ m.type = "StoredRemoveTs" => OvDone(lay, site, k[1][2])

(* Transaction t has timestamp ts, or is about to. *)
OvUses(coord, net, ts, t) ==
  \/ coord[t].ts = ts
  \/ \E k \in OvConns : k[2] = OvCoord(t) /\ \E m \in MsgsIn(net, k) : m.type = "CreateTsAck" /\ m.ts = ts

OvTypeOK ==
  /\ ov_lay \in OvLayouts
  /\ ov_coord \in [OvTxns -> OvCoordRec]
  /\ ov_site \in [OvSites -> OvSiteRec]
  /\ DOMAIN ov_goss = OvDcs /\ \A d \in OvDcs : ov_goss[d] \in OvGossRec(d)
  /\ DOMAIN ov_net = OvConns /\ \A k \in OvConns : \E S : ov_net[k] \in Seq(S)

OvSitesOK ==
  \A u \in OvSites : /\ \A e \in ov_site[u].sphase : e.ts[2] = u /\ e.ts[1] <= ov_site[u].last
                     /\ OvFinalAll(ov_site, ov_site[u].vw)
OvGossOK ==
  \A d \in OvDcs : /\ \A s \in OvDcSites(d) : OvFinal(ov_site, ov_goss[d].site_wm[s], s)
                   /\ \A e \in OvDcs : OvFinalDc(ov_site, ov_goss[d].dc_wm[e], e)
                   /\ OvFinalAll(ov_site, ov_goss[d].vw)
OvCoordOK ==
  \A t \in OvTxns : /\ \/ ov_coord[t].ts = OvZero
                       \/ OvGiven(ov_site, ov_coord[t].ts) /\ OvHeld(ov_lay, ov_site, ov_coord[t].ts, t)
                    /\ \A par \in ov_coord[t].stores :
                         \E r \in OvSites : ov_lay.par[r] = par /\ ov_site[r].tx[t].dispatched
OvMsgsOK == \A k \in OvConns : \A m \in MsgsIn(ov_net, k) : OvMsgOK(ov_lay, ov_site, m, k)
OvOneEach ==
  \A ts \in OvTs : \A t, u \in OvTxns :
    ts # OvZero /\ OvUses(ov_coord, ov_net, ts, t) /\ OvUses(ov_coord, ov_net, ts, u) => t = u

(* The inductive invariant. *)
OvInv == OvTypeOK /\ OvSitesOK /\ OvGossOK /\ OvCoordOK /\ OvMsgsOK /\ OvOneEach

-----
(* Connections and timestamps. *)

OvNet(net) == DOMAIN net = OvConns /\ \A k \in OvConns : \E S : net[k] \in Seq(S)

(* A call that is taken off its connection. *)
LEMMA OvTook ==
  ASSUME NEW net, OvNet(net), NEW c \in OvConns, net[c] # <<>>
  PROVE  /\ OvNet(Taken(net, c))
         /\ \A k \in OvConns : MsgsIn(Taken(net, c), k) \subseteq MsgsIn(net, k)
         /\ Head(net[c]) \in MsgsIn(net, c)
<1> DEFINE r == Taken(net, c)
<1>1. PICK S : net[c] \in Seq(S) BY DEF OvNet
<1>2. DOMAIN r = OvConns /\ r[c] = Tail(net[c]) /\ \A k \in OvConns : k # c => r[k] = net[k] BY DEF Taken, OvNet
<1> HIDE DEF r
<1>3. r[c] \in Seq(S) /\ Len(r[c]) = Len(net[c]) - 1 /\ Len(net[c]) \in Nat /\ Len(net[c]) >= 1
      /\ \A i \in 1 .. (Len(net[c]) - 1) : r[c][i] = net[c][i + 1] BY <1>1, <1>2
<1>4. OvNet(r) BY <1>2, <1>3 DEF OvNet
<1>5. ASSUME NEW k \in OvConns PROVE MsgsIn(r, k) \subseteq MsgsIn(net, k)
 <2>1. CASE k # c BY <1>2, <2>1 DEF MsgsIn
 <2>2. CASE k = c
  <3> SUFFICES ASSUME NEW i \in 1 .. Len(r[c]) PROVE r[c][i] \in MsgsIn(net, c) BY <2>2 DEF MsgsIn
  <3>1. i + 1 \in 1 .. Len(net[c]) /\ r[c][i] = net[c][i + 1] BY <1>3
  <3> QED BY <3>1 DEF MsgsIn
 <2> QED BY <2>1, <2>2
<1>6. Head(net[c]) \in MsgsIn(net, c)
 <2>1. Head(net[c]) = net[c][1] /\ 1 \in 1 .. Len(net[c]) BY <1>1, <1>3
 <2> QED BY <2>1 DEF MsgsIn
<1> QED BY <1>4, <1>5, <1>6 DEF r

(* What is on a connection after its caller made calls. *)
LEMMA OvSent ==
  ASSUME NEW net, OvNet(net), NEW src, NEW calls
  PROVE  LET r == Calls(net, src, calls)
         IN  /\ OvNet(r)
             /\ \A k \in OvConns : \A m \in MsgsIn(r, k) :
                  m \in MsgsIn(net, k) \/ (k[1] = src /\ \E e \in calls : k[2] \in e.to /\ m = e.msg)
<1> DEFINE to(d) == {e \in calls : d \in e.to}
           r == Calls(net, src, calls)
<1>1. DOMAIN r = OvConns BY DEF Calls, OvNet
<1>2. ASSUME NEW k \in OvConns
      PROVE  /\ \E S : r[k] \in Seq(S)
             /\ \A m \in MsgsIn(r, k) :
                  m \in MsgsIn(net, k) \/ (k[1] = src /\ \E e \in calls : k[2] \in e.to /\ m = e.msg)
 <2>1. PICK S : net[k] \in Seq(S) BY DEF OvNet
 <2>2. CASE k[1] = src /\ to(k[2]) # {}
  <3> DEFINE e == CHOOSE x \in to(k[2]) : TRUE
  <3>1. r[k] = Append(net[k], e.msg) BY <2>2 DEF Calls, OvNet
  <3>2. e \in calls /\ k[2] \in e.to BY <2>2
  <3> HIDE DEF e, r, to
  <3>3. net[k] \in Seq(S \cup {e.msg}) /\ e.msg \in S \cup {e.msg} BY <2>1
  <3>4. r[k] \in Seq(S \cup {e.msg}) /\ Len(r[k]) = Len(net[k]) + 1 /\ r[k][Len(net[k]) + 1] = e.msg
        /\ Len(net[k]) \in Nat /\ \A i \in 1 .. Len(net[k]) : r[k][i] = net[k][i] BY <3>1, <3>3
  <3>5. ASSUME NEW i \in 1 .. Len(r[k]) PROVE r[k][i] \in MsgsIn(net, k) \/ r[k][i] = e.msg BY <3>4 DEF MsgsIn
  <3> QED BY <2>2, <3>2, <3>4, <3>5 DEF MsgsIn
 <2>3. CASE ~(k[1] = src /\ to(k[2]) # {})
  <3>1. r[k] = net[k] BY <2>3 DEF Calls, OvNet
  <3> QED BY <2>1, <3>1 DEF MsgsIn
 <2> QED BY <2>2, <2>3
<1> QED BY <1>1, <1>2 DEF OvNet

(* The order of timestamps, and the least one of a set. *)
LEMMA OvLessOrder ==
  /\ \A a \in OvTs : ~OvLess(a, a) /\ ~OvLess(a, OvZero)
  /\ \A a, b, c \in OvTs : ~OvLess(b, a) /\ ~OvLess(c, b) => ~OvLess(c, a)
  /\ \A a, b \in OvTs : OvLess(a, b) \/ a = b \/ OvLess(b, a) BY DEF OvTs, OvLess, OvZero

(* The natural numbers are well founded. *)
LEMMA OvSmallest ==
  ASSUME NEW S \in SUBSET Nat, S # {}
  PROVE \E x \in S : \A y \in S : x <= y
<1> DEFINE R == {p \in Nat \X Nat : p[1] < p[2]}
<1>1. OpToRel(<, Nat) = R BY DEF OpToRel
<1>2. IsWellFoundedOn(R, Nat) BY <1>1, NatLessThanWellFounded
<1> HIDE DEF R
<1>3. PICK x \in S : \A y \in S : ~(<<y, x>> \in R) BY <1>2, WFMin
<1>4. ASSUME NEW y \in S PROVE x <= y
 <2>1. ~(<<y, x>> \in R) /\ y \in Nat /\ x \in Nat BY <1>3
 <2> QED BY <2>1 DEF R
<1> QED BY <1>4

LEMMA OvLeastIsLeast ==
  ASSUME NEW S \in SUBSET OvTs, S # {}
  PROVE OvLeast(S) \in S /\ \A b \in S : ~OvLess(b, OvLeast(S))
<1> DEFINE F == {a[1] : a \in S}
<1>1. F \subseteq Nat /\ F # {} BY DEF OvTs
<1>2. PICK f \in F : \A g \in F : f <= g BY <1>1, OvSmallest
<1> DEFINE G == {a[2] : a \in {x \in S : x[1] = f}}
<1>3. G \subseteq Nat /\ G # {} BY DEF OvTs
<1>4. PICK g \in G : \A h \in G : g <= h BY <1>3, OvSmallest
<1>5. PICK a \in S : a[1] = f /\ a[2] = g OBVIOUS
<1>6. ASSUME NEW b \in S PROVE ~OvLess(b, a)
 <2>1. f <= b[1] /\ (b[1] = f => g <= b[2]) /\ b[1] \in Nat /\ b[2] \in Nat /\ f \in Nat /\ g \in Nat
   BY <1>1, <1>2, <1>3, <1>4 DEF OvTs
 <2> QED BY <1>5, <2>1 DEF OvLess
<1> QED BY <1>5, <1>6 DEF OvLeast

(* The two ends of a connection tell what it is for. *)
LEMMA OvKinds ==
  ASSUME NEW k \in OvConns
  PROVE  /\ k = <<k[1], k[2]>>
         /\ (\E t : k[1] = OvCoord(t)) <=> OvCallsSite(k)
         /\ (\E t : k[2] = OvCoord(t)) <=> OvAnswersCoord(k)
         /\ (\E d, s : k[1] = OvGoss(d) /\ k[2] = OvSite(s)) <=> OvPublishes(k)
         /\ (\E d, s : k[2] = OvGoss(d) /\ k[1] = OvSite(s)) <=> OvReports(k)
         /\ (\E d, e : k[2] = OvGoss(d) /\ k[1] = OvGoss(e)) <=> OvGossips(k)
<1>1. k \in OvNodes \X OvNodes /\ k = <<k[1], k[2]>> /\ k[1] \in OvNodes /\ k[2] \in OvNodes
      /\ {k[1][1], k[2][1]} \in {{"coord", "site"}, {"gossiper", "site"}, {"gossiper"}} BY DEF OvConns
<1>2. \/ k[1][1] = "coord" /\ k[2][1] = "site"
      \/ k[1][1] = "site" /\ k[2][1] = "coord"
      \/ k[1][1] = "gossiper" /\ k[2][1] = "site"
      \/ k[1][1] = "site" /\ k[2][1] = "gossiper"
      \/ k[1][1] = "gossiper" /\ k[2][1] = "gossiper"
 <2> DEFINE a == k[1][1]
            b == k[2][1]
 <2>1. {a, b} = {"coord", "site"} \/ {a, b} = {"gossiper", "site"} \/ {a, b} = {"gossiper"} BY <1>1
 <2> HIDE DEF a, b
 <2>2. a \in {a, b} /\ b \in {a, b} OBVIOUS
 <2>3. CASE {a, b} = {"coord", "site"}
  <3>1. "coord" \in {a, b} /\ "site" \in {a, b} /\ a \in {"coord", "site"} /\ b \in {"coord", "site"} BY <2>3
  <3>2. (a = "coord" /\ b = "site") \/ (a = "site" /\ b = "coord") BY <3>1
  <3> QED BY <3>2 DEF a, b
 <2>4. CASE {a, b} = {"gossiper", "site"}
  <3>1. "gossiper" \in {a, b} /\ "site" \in {a, b} /\ a \in {"gossiper", "site"} /\ b \in {"gossiper", "site"} BY <2>4
  <3>2. (a = "gossiper" /\ b = "site") \/ (a = "site" /\ b = "gossiper") BY <3>1
  <3> QED BY <3>2 DEF a, b
 <2>5. CASE {a, b} = {"gossiper"} BY <2>2, <2>5 DEF a, b
 <2> QED BY <2>1, <2>3, <2>4, <2>5
<1>3. ASSUME NEW n \in OvNodes
      PROVE  /\ n[1] = "site" => \E s \in OvSites : n = OvSite(s)
             /\ n[1] = "coord" => \E t \in OvTxns : n = OvCoord(t)
             /\ n[1] = "gossiper" => \E d \in OvDcs : n = OvGoss(d) BY DEF OvNodes, OvSite, OvCoord, OvGoss
<1>4. /\ \A s : OvSite(s)[1] = "site"
      /\ \A t : OvCoord(t)[1] = "coord"
      /\ \A d : OvGoss(d)[1] = "gossiper" BY DEF OvSite, OvCoord, OvGoss
<1>5. (\E t : k[1] = OvCoord(t)) <=> OvCallsSite(k) BY <1>1, <1>2, <1>3, <1>4 DEF OvCallsSite
<1>6. (\E t : k[2] = OvCoord(t)) <=> OvAnswersCoord(k) BY <1>1, <1>2, <1>3, <1>4 DEF OvAnswersCoord
<1>7. (\E d, s : k[1] = OvGoss(d) /\ k[2] = OvSite(s)) <=> OvPublishes(k) BY <1>1, <1>2, <1>3, <1>4 DEF OvPublishes
<1>8. (\E d, s : k[2] = OvGoss(d) /\ k[1] = OvSite(s)) <=> OvReports(k) BY <1>1, <1>2, <1>3, <1>4 DEF OvReports
<1>9. (\E d, e : k[2] = OvGoss(d) /\ k[1] = OvGoss(e)) <=> OvGossips(k) BY <1>1, <1>2, <1>3, <1>4 DEF OvGossips
<1> QED BY <1>1, <1>5, <1>6, <1>7, <1>8, <1>9

-----
(* What a site may do: its clock advances, a new timestamp is beyond it, an entry leaves
   when its transaction is stored, and a stored transaction stays stored. *)
OvGrows(lay, a, b) ==
  \A u \in OvSites :
    /\ a[u].last <= b[u].last
    /\ \A e \in b[u].sphase :
         e \in a[u].sphase \/ (e.ts[2] = u /\ a[u].last < e.ts[1] /\ e.ts[1] <= b[u].last)
    /\ \A e \in a[u].sphase : e \in b[u].sphase \/ OvDone(lay, a, e.txn)
    /\ \A t \in OvTxns : a[u].tx[t].dispatched => b[u].tx[t].dispatched

(* What the invariant says of a value stays true when the sites grow. *)
LEMMA OvCarries ==
  ASSUME NEW lay, NEW a \in [OvSites -> OvSiteRec], NEW b \in [OvSites -> OvSiteRec], OvGrows(lay, a, b)
  PROVE  /\ \A w \in OvTs, u \in OvSites : OvFinal(a, w, u) => OvFinal(b, w, u)
         /\ \A w \in OvTs, d \in OvDcs : OvFinalDc(a, w, d) => OvFinalDc(b, w, d)
         /\ \A w \in OvTs : OvFinalAll(a, w) => OvFinalAll(b, w)
         /\ \A t \in OvTxns : OvDone(lay, a, t) => OvDone(lay, b, t)
         /\ \A ts \in OvTs : OvGiven(a, ts) => OvGiven(b, ts)
         /\ \A ts \in OvTs, t \in OvTxns : OvGiven(a, ts) /\ OvHeld(lay, a, ts, t) => OvHeld(lay, b, ts, t)
<1>1. ASSUME NEW w \in OvTs, NEW u \in OvSites, OvFinal(a, w, u) PROVE OvFinal(b, w, u)
 <2>1. /\ a[u].last \in Nat /\ b[u].last \in Nat /\ a[u].last <= b[u].last /\ u \in Nat
       /\ a[u].sphase \subseteq OvEntry /\ b[u].sphase \subseteq OvEntry BY OvAssumption DEF OvGrows, OvSiteRec
 <2>2. ~OvLess(<<a[u].last + 1, u>>, w) /\ w[1] \in Nat /\ w[2] \in Nat BY <1>1 DEF OvFinal, OvTs
 <2>3. ~OvLess(<<b[u].last + 1, u>>, w) BY <2>1, <2>2 DEF OvLess
 <2>4. ASSUME NEW e \in b[u].sphase PROVE ~OvLess(e.ts, w)
  <3>1. CASE e \in a[u].sphase BY <1>1, <3>1 DEF OvFinal
  <3>2. CASE e.ts[2] = u /\ a[u].last < e.ts[1]
   <4>1. e.ts[1] \in Nat BY <2>1 DEF OvEntry, OvTs
   <4> QED BY <2>1, <2>2, <3>2, <4>1 DEF OvLess
  <3> QED BY <3>1, <3>2 DEF OvGrows
 <2> QED BY <2>3, <2>4 DEF OvFinal
<1>2. \A t \in OvTxns : OvDone(lay, a, t) => OvDone(lay, b, t) BY DEF OvDone, OvGrows
<1>3. ASSUME NEW ts \in OvTs, OvGiven(a, ts) PROVE OvGiven(b, ts)
 <2>1. ts[2] \in OvSites /\ ts[1] \in Nat /\ ts[1] <= a[ts[2]].last BY <1>3 DEF OvGiven, OvTs
 <2>2. a[ts[2]].last \in Nat /\ b[ts[2]].last \in Nat /\ a[ts[2]].last <= b[ts[2]].last BY <2>1 DEF OvGrows, OvSiteRec
 <2> QED BY <2>1, <2>2 DEF OvGiven
<1>4. ASSUME NEW ts \in OvTs, NEW t \in OvTxns, OvGiven(a, ts), OvHeld(lay, a, ts, t) PROVE OvHeld(lay, b, ts, t)
 <2>1. CASE OvDone(lay, a, t) BY <1>2, <2>1 DEF OvHeld
 <2>2. CASE ~OvDone(lay, a, t)
  <3>1. ts[2] \in OvSites BY <1>4 DEF OvGiven
  <3>2. PICK e \in a[ts[2]].sphase : e.ts = ts /\ e.txn = t BY <1>4, <2>2 DEF OvHeld
  <3>3. e \in b[ts[2]].sphase BY <2>2, <3>1, <3>2 DEF OvGrows
  <3> QED BY <3>2, <3>3 DEF OvHeld
 <2> QED BY <2>1, <2>2
<1>5. \A w \in OvTs, d \in OvDcs : OvFinalDc(a, w, d) => OvFinalDc(b, w, d) BY <1>1 DEF OvFinalDc, OvDcSites
<1>6. \A w \in OvTs : OvFinalAll(a, w) => OvFinalAll(b, w) BY <1>1 DEF OvFinalAll
<1> QED BY <1>1, <1>2, <1>3, <1>4, <1>5, <1>6

(* So does what it says of a message. *)
LEMMA OvMsgCarries ==
  ASSUME NEW lay, NEW a \in [OvSites -> OvSiteRec], NEW b \in [OvSites -> OvSiteRec], OvGrows(lay, a, b),
         NEW k \in OvConns, NEW m, OvMsgOK(lay, a, m, k)
  PROVE OvMsgOK(lay, b, m, k)
<1>1. /\ \A w \in OvTs, u \in OvSites : OvFinal(a, w, u) => OvFinal(b, w, u)
      /\ \A w \in OvTs, d \in OvDcs : OvFinalDc(a, w, d) => OvFinalDc(b, w, d)
      /\ \A w \in OvTs : OvFinalAll(a, w) => OvFinalAll(b, w)
      /\ \A t \in OvTxns : OvDone(lay, a, t) => OvDone(lay, b, t)
      /\ \A ts \in OvTs : OvGiven(a, ts) => OvGiven(b, ts)
      /\ \A ts \in OvTs, t \in OvTxns : OvGiven(a, ts) /\ OvHeld(lay, a, ts, t) => OvHeld(lay, b, ts, t) BY OvCarries
<1>2. /\ OvCallsSite(k) => k[1][2] \in OvTxns
      /\ OvAnswersCoord(k) => k[1][2] \in OvSites /\ k[2][2] \in OvTxns
      /\ OvReports(k) => k[1][2] \in OvSites
      /\ OvGossips(k) => k[1][2] \in OvDcs
  BY DEF OvCallsSite, OvAnswersCoord, OvReports, OvGossips, OvCoord, OvSite, OvGoss
<1>3. \A u \in OvSites, t \in OvTxns : a[u].tx[t].dispatched => b[u].tx[t].dispatched BY DEF OvGrows
<1> QED BY <1>1, <1>2, <1>3 DEF OvMsgOK

-----
(* The parts of the invariant, carried over a step in which the sites grow. *)

OvSitesGrow == ov_lay' = ov_lay /\ ov_site' \in [OvSites -> OvSiteRec] /\ OvGrows(ov_lay, ov_site, ov_site')

LEMMA OvKeepSites ==
  ASSUME OvTypeOK, OvSitesOK, OvSitesGrow,
         \A u \in OvSites : ov_site'[u].vw = ov_site[u].vw \/ OvFinalAll(ov_site', ov_site'[u].vw)
  PROVE OvSitesOK'
<1>1. ov_site \in [OvSites -> OvSiteRec] /\ ov_site' \in [OvSites -> OvSiteRec]
      /\ OvGrows(ov_lay, ov_site, ov_site') BY DEF OvTypeOK, OvSitesGrow
<1>2. \A w \in OvTs : OvFinalAll(ov_site, w) => OvFinalAll(ov_site', w) BY <1>1, OvCarries
<1>3. ASSUME NEW u \in OvSites PROVE OvFinalAll(ov_site', ov_site'[u].vw)
 <2>1. OvFinalAll(ov_site, ov_site[u].vw) /\ ov_site[u].vw \in OvTs BY <1>1 DEF OvSitesOK, OvSiteRec
 <2> QED BY <1>2, <2>1
<1>4. ASSUME NEW u \in OvSites, NEW e \in ov_site'[u].sphase PROVE e.ts[2] = u /\ e.ts[1] <= ov_site'[u].last
 <2>1. CASE e \in ov_site[u].sphase
  <3>1. e.ts[2] = u /\ e.ts[1] <= ov_site[u].last /\ ov_site[u].last <= ov_site'[u].last
    BY <1>1, <2>1 DEF OvSitesOK, OvGrows
  <3>2. e.ts[1] \in Nat /\ ov_site[u].last \in Nat /\ ov_site'[u].last \in Nat
    BY <1>1, <2>1 DEF OvSiteRec, OvEntry, OvTs
  <3> QED BY <3>1, <3>2
 <2>2. CASE e \notin ov_site[u].sphase BY <1>1, <2>2 DEF OvGrows
 <2> QED BY <2>1, <2>2
<1> QED BY <1>3, <1>4 DEF OvSitesOK

(* The gossipers keep their watermarks. *)
OvSameMarks ==
  /\ DOMAIN ov_goss' = OvDcs
  /\ \A d \in OvDcs : /\ ov_goss'[d] \in OvGossRec(d) /\ ov_goss'[d].site_wm = ov_goss[d].site_wm
                      /\ ov_goss'[d].dc_wm = ov_goss[d].dc_wm /\ ov_goss'[d].vw = ov_goss[d].vw

LEMMA OvKeepGoss ==
  ASSUME OvTypeOK, OvGossOK, OvSitesGrow, OvSameMarks
  PROVE OvGossOK'
<1>1. ov_site \in [OvSites -> OvSiteRec] /\ ov_site' \in [OvSites -> OvSiteRec]
      /\ OvGrows(ov_lay, ov_site, ov_site') BY DEF OvTypeOK, OvSitesGrow
<1>2. /\ \A w \in OvTs, u \in OvSites : OvFinal(ov_site, w, u) => OvFinal(ov_site', w, u)
      /\ \A w \in OvTs, d \in OvDcs : OvFinalDc(ov_site, w, d) => OvFinalDc(ov_site', w, d)
      /\ \A w \in OvTs : OvFinalAll(ov_site, w) => OvFinalAll(ov_site', w) BY <1>1, OvCarries
<1>3. \A d \in OvDcs : /\ ov_goss[d].vw \in OvTs
                       /\ \A s \in OvDcSites(d) : ov_goss[d].site_wm[s] \in OvTs /\ s \in OvSites
                       /\ \A e \in OvDcs : ov_goss[d].dc_wm[e] \in OvTs BY DEF OvTypeOK, OvGossRec, OvDcSites
<1> QED BY <1>2, <1>3 DEF OvGossOK, OvSameMarks

LEMMA OvKeepCoord ==
  ASSUME OvTypeOK, OvCoordOK, OvSitesGrow, NEW t \in OvTxns
  PROVE  /\ \/ ov_coord[t].ts = OvZero
            \/ OvGiven(ov_site', ov_coord[t].ts) /\ OvHeld(ov_lay', ov_site', ov_coord[t].ts, t)
         /\ \A par \in ov_coord[t].stores :
              \E r \in OvSites : ov_lay'.par[r] = par /\ ov_site'[r].tx[t].dispatched
<1>1. ov_site \in [OvSites -> OvSiteRec] /\ ov_site' \in [OvSites -> OvSiteRec]
      /\ OvGrows(ov_lay, ov_site, ov_site') /\ ov_lay' = ov_lay BY DEF OvTypeOK, OvSitesGrow
<1>2. /\ \A ts \in OvTs : OvGiven(ov_site, ts) => OvGiven(ov_site', ts)
      /\ \A ts \in OvTs, u \in OvTxns :
           OvGiven(ov_site, ts) /\ OvHeld(ov_lay, ov_site, ts, u) => OvHeld(ov_lay, ov_site', ts, u) BY <1>1, OvCarries
<1>3. ov_coord[t].ts \in OvTs BY DEF OvTypeOK, OvCoordRec
<1>4. \A r \in OvSites : ov_site[r].tx[t].dispatched => ov_site'[r].tx[t].dispatched BY <1>1 DEF OvGrows
<1> QED BY <1>1, <1>2, <1>3, <1>4 DEF OvCoordOK

LEMMA OvKeepMsgs ==
  ASSUME OvTypeOK, OvMsgsOK, OvSitesGrow,
         \A k \in OvConns : \A m \in MsgsIn(ov_net', k) :
           m \in MsgsIn(ov_net, k) \/ OvMsgOK(ov_lay, ov_site', m, k)
  PROVE OvMsgsOK'
<1>1. ov_site \in [OvSites -> OvSiteRec] /\ ov_site' \in [OvSites -> OvSiteRec]
      /\ OvGrows(ov_lay, ov_site, ov_site') /\ ov_lay' = ov_lay BY DEF OvTypeOK, OvSitesGrow
<1>2. ASSUME NEW k \in OvConns, NEW m \in MsgsIn(ov_net', k) PROVE OvMsgOK(ov_lay, ov_site', m, k)
 <2>1. CASE m \in MsgsIn(ov_net, k)
  <3>1. OvMsgOK(ov_lay, ov_site, m, k) BY <2>1 DEF OvMsgsOK
  <3> QED BY <1>1, <3>1, OvMsgCarries
 <2> QED BY <2>1
<1> QED BY <1>1, <1>2 DEF OvMsgsOK

(* No message gives a timestamp, and no coordinator takes one that was not on its way to
   it. *)
LEMMA OvKeepOnes ==
  ASSUME OvOneEach,
         \A ts \in OvTs, t \in OvTxns :
           ts # OvZero /\ OvUses(ov_coord', ov_net', ts, t) => OvUses(ov_coord, ov_net, ts, t)
  PROVE OvOneEach' BY DEF OvOneEach

(* When the sites stand still. *)
LEMMA OvStill ==
  ASSUME OvTypeOK, ov_lay' = ov_lay, ov_site' = ov_site
  PROVE OvSitesGrow
<1>1. ov_site \in [OvSites -> OvSiteRec] BY DEF OvTypeOK
<1>2. \A u \in OvSites : ov_site[u].last <= ov_site[u].last
 <2>1. \A u \in OvSites : ov_site[u].last \in Nat BY <1>1 DEF OvSiteRec
 <2> QED BY <2>1
<1> QED BY <1>1, <1>2 DEF OvSitesGrow, OvGrows

(* The call that a handler works on. *)
LEMMA OvHead ==
  ASSUME OvTypeOK, OvMsgsOK, NEW c \in DOMAIN ov_net, ov_net[c] # <<>>
  PROVE  /\ c \in OvConns /\ OvMsgOK(ov_lay, ov_site, Head(ov_net[c]), c) /\ OvNet(ov_net)
         /\ Head(ov_net[c]) \in MsgsIn(ov_net, c)
<1>1. OvNet(ov_net) /\ c \in OvConns BY DEF OvTypeOK, OvNet
<1>2. Head(ov_net[c]) \in MsgsIn(ov_net, c) BY <1>1, OvTook
<1> QED BY <1>1, <1>2 DEF OvMsgsOK

(* What is on the connections after a handler. *)
LEMMA OvHandled ==
  ASSUME OvNet(ov_net), NEW c \in OvConns, ov_net[c] # <<>>, NEW src, NEW calls
  PROVE  LET r == Calls(OvTaken(c), src, calls)
         IN  /\ OvNet(r)
             /\ \A k \in OvConns : \A m \in MsgsIn(r, k) :
                  m \in MsgsIn(ov_net, k) \/ (k[1] = src /\ \E e \in calls : k[2] \in e.to /\ m = e.msg)
<1> DEFINE n == OvTaken(c)
<1>1. OvNet(n) /\ \A k \in OvConns : MsgsIn(n, k) \subseteq MsgsIn(ov_net, k) BY OvTook DEF OvTaken
<1> HIDE DEF n
<1> DEFINE r == Calls(n, src, calls)
<1>2. /\ OvNet(r)
      /\ \A k \in OvConns : \A m \in MsgsIn(r, k) :
           m \in MsgsIn(n, k) \/ (k[1] = src /\ \E e \in calls : k[2] \in e.to /\ m = e.msg) BY <1>1, OvSent
<1> HIDE DEF r
<1>3. /\ OvNet(r)
      /\ \A k \in OvConns : \A m \in MsgsIn(r, k) :
           m \in MsgsIn(ov_net, k) \/ (k[1] = src /\ \E e \in calls : k[2] \in e.to /\ m = e.msg) BY <1>1, <1>2
<1> QED BY <1>3 DEF r, n

LEMMA OvReplied ==
  ASSUME OvNet(ov_net), NEW c \in OvConns, ov_net[c] # <<>>, NEW m
  PROVE  /\ OvNet(OvReply(c, m))
         /\ \A k \in OvConns : \A x \in MsgsIn(OvReply(c, m), k) :
              x \in MsgsIn(ov_net, k) \/ (k[1] = c[2] /\ k[2] = c[1] /\ x = m)
<1> DEFINE r == OvReply(c, m)
           calls == {To({c[1]}, m)}
<1>1. \A e \in calls : e.to = {c[1]} /\ e.msg = m BY DEF To
<1>2. r = Calls(OvTaken(c), c[2], calls) BY DEF OvReply
<1> HIDE DEF calls, r
<1>3. /\ OvNet(r)
      /\ \A k \in OvConns : \A x \in MsgsIn(r, k) :
           x \in MsgsIn(ov_net, k) \/ (k[1] = c[2] /\ \E e \in calls : k[2] \in e.to /\ x = e.msg) BY <1>2, OvHandled
<1>4. /\ OvNet(r)
      /\ \A k \in OvConns : \A x \in MsgsIn(r, k) :
           x \in MsgsIn(ov_net, k) \/ (k[1] = c[2] /\ k[2] = c[1] /\ x = m) BY <1>1, <1>3
<1> QED BY <1>4 DEF r

(* No timestamp is given, and no coordinator takes one. *)
LEMMA OvNoNewTs ==
  ASSUME OvOneEach, \A t \in OvTxns : ov_coord'[t].ts = ov_coord[t].ts,
         \A k \in OvConns : \A m \in MsgsIn(ov_net', k) : m \in MsgsIn(ov_net, k) \/ m.type # "CreateTsAck"
  PROVE OvOneEach'
<1>1. ASSUME NEW ts \in OvTs, NEW t \in OvTxns, OvUses(ov_coord', ov_net', ts, t)
      PROVE OvUses(ov_coord, ov_net, ts, t) BY <1>1 DEF OvUses
<1> QED BY <1>1, OvKeepOnes

(* The step of one site. *)
LEMMA OvOneSite ==
  ASSUME OvTypeOK, ov_lay' = ov_lay, NEW s \in OvSites, ov_site' \in [OvSites -> OvSiteRec],
         \A u \in OvSites : u # s => ov_site'[u] = ov_site[u],
         ov_site[s].last <= ov_site'[s].last,
         \A e \in ov_site'[s].sphase :
           e \in ov_site[s].sphase
             \/ (e.ts[2] = s /\ ov_site[s].last < e.ts[1] /\ e.ts[1] <= ov_site'[s].last),
         \A e \in ov_site[s].sphase : e \in ov_site'[s].sphase \/ OvDone(ov_lay, ov_site, e.txn),
         \A t \in OvTxns : ov_site[s].tx[t].dispatched => ov_site'[s].tx[t].dispatched
  PROVE OvSitesGrow
<1>1. ASSUME NEW u \in OvSites, u # s
      PROVE  /\ ov_site[u].last <= ov_site'[u].last
             /\ ov_site'[u].sphase = ov_site[u].sphase
             /\ \A t \in OvTxns : ov_site[u].tx[t].dispatched => ov_site'[u].tx[t].dispatched
 <2>1. ov_site'[u] = ov_site[u] /\ ov_site[u].last \in Nat BY <1>1 DEF OvTypeOK, OvSiteRec
 <2> QED BY <2>1
<1> QED BY <1>1 DEF OvSitesGrow, OvGrows

-----
(* The handlers of a site. *)

LEMMA OvOnCreateTsInv ==
  ASSUME OvInv, NEW c \in DOMAIN ov_net, OvOnCreateTs(c), ov_lay' = ov_lay
  PROVE OvInv'
<1> USE DEF OvInv
<1>1. c \in OvConns /\ OvMsgOK(ov_lay, ov_site, Head(ov_net[c]), c) /\ OvNet(ov_net) /\ ov_net[c] # <<>>
      /\ Head(ov_net[c]).type = "CreateTs" BY OvHead DEF OvOnCreateTs, Receives
<1>2. PICK t \in OvTxns, s \in OvSites : c = <<OvCoord(t), OvSite(s)>> BY <1>1 DEF OvMsgOK, OvCallsSite
<1>3. c[1][2] = t /\ c[2][2] = s /\ c[1] = OvCoord(t) /\ c[2] = OvSite(s) BY <1>2 DEF OvCoord, OvSite
<1>4. PICK now \in OvNow :
        LET clock == OvMonotTimestamp(ov_site[s].last, now)
        IN  /\ ov_site' = [ov_site EXCEPT ![s].last = clock,
                                          ![s].sphase = @ \cup {[ts |-> <<clock, s>>, txn |-> t]}]
            /\ ov_net' = OvReply(c, [type |-> "CreateTsAck", ts |-> <<clock, s>>]) BY <1>3 DEF OvOnCreateTs
<1>5. ov_coord' = ov_coord /\ ov_goss' = ov_goss BY DEF OvOnCreateTs
<1> DEFINE clock == OvMonotTimestamp(ov_site[s].last, now)
           ts == <<clock, s>>
           entry == [ts |-> ts, txn |-> t]
           m == [type |-> "CreateTsAck", ts |-> ts]
<1>6. ov_site \in [OvSites -> OvSiteRec] /\ ov_site[s] \in OvSiteRec /\ ov_site[s].last \in Nat
  BY DEF OvTypeOK, OvSiteRec
<1>7. clock \in Nat /\ ov_site[s].last < clock /\ s \in Nat BY <1>6, OvAssumption DEF OvMonotTimestamp
<1>8. ov_site' = [ov_site EXCEPT ![s].last = clock, ![s].sphase = @ \cup {entry}] /\ ov_net' = OvReply(c, m) BY <1>4
<1> HIDE DEF clock
<1>9. ts \in OvTs /\ entry \in OvEntry /\ ts[1] = clock /\ ts[2] = s BY <1>7 DEF OvTs, OvEntry
<1>10. entry.ts = ts /\ entry.txn = t OBVIOUS
<1> HIDE DEF ts, entry
<1>11. ov_site' \in [OvSites -> OvSiteRec] BY <1>6, <1>7, <1>8, <1>9 DEF OvSiteRec
<1>12. /\ \A u \in OvSites : u # s => ov_site'[u] = ov_site[u]
       /\ ov_site'[s].last = clock /\ ov_site'[s].sphase = ov_site[s].sphase \cup {entry}
       /\ ov_site'[s].vw = ov_site[s].vw /\ ov_site'[s].tx = ov_site[s].tx BY <1>6, <1>8 DEF OvSiteRec
<1>13. OvSitesGrow BY <1>6, <1>7, <1>9, <1>10, <1>11, <1>12, OvOneSite
<1>14. /\ OvNet(ov_net')
       /\ \A k \in OvConns : \A x \in MsgsIn(ov_net', k) :
            x \in MsgsIn(ov_net, k) \/ (k[1] = c[2] /\ k[2] = c[1] /\ x = m) BY <1>1, <1>8, OvReplied
<1>15. OvTypeOK' BY <1>5, <1>11, <1>14 DEF OvTypeOK, OvNet
<1>16. OvSitesOK'
 <2>1. \A u \in OvSites : ov_site'[u].vw = ov_site[u].vw BY <1>12
 <2> QED BY <1>13, <2>1, OvKeepSites
<1>17. OvGossOK' BY <1>5, <1>13, OvKeepGoss DEF OvSameMarks, OvTypeOK
<1>18. OvCoordOK' BY <1>5, <1>13, OvKeepCoord DEF OvCoordOK
<1>19. OvGiven(ov_site', ts) /\ OvHeld(ov_lay, ov_site', ts, t) BY <1>7, <1>9, <1>10, <1>12 DEF OvGiven, OvHeld
<1>20. OvMsgsOK'
 <2>1. ASSUME NEW k \in OvConns, k[1] = c[2], k[2] = c[1] PROVE OvMsgOK(ov_lay, ov_site', m, k)
  <3>1. k = <<OvSite(s), OvCoord(t)>> /\ k[2][2] = t BY <1>3, <2>1, OvKinds DEF OvCoord
  <3>2. OvAnswersCoord(k) BY <3>1 DEF OvAnswersCoord
  <3> QED BY <1>9, <1>19, <3>1, <3>2 DEF OvMsgOK
 <2>2. \A k \in OvConns : \A x \in MsgsIn(ov_net', k) :
         x \in MsgsIn(ov_net, k) \/ OvMsgOK(ov_lay, ov_site', x, k) BY <1>14, <2>1
 <2> QED BY <1>13, <2>2, OvKeepMsgs
<1>21. \A u \in OvTxns : ~OvUses(ov_coord, ov_net, ts, u)
 <2> SUFFICES ASSUME NEW u \in OvTxns, OvUses(ov_coord, ov_net, ts, u) PROVE FALSE OBVIOUS
 <2>1. CASE ov_coord[u].ts = ts
  <3>1. ts # OvZero BY <1>6, <1>7, <1>9 DEF OvZero
  <3>2. OvGiven(ov_site, ts) BY <2>1, <3>1 DEF OvCoordOK
  <3> QED BY <1>6, <1>7, <1>9, <3>2 DEF OvGiven
 <2>2. CASE ov_coord[u].ts # ts
  <3>1. PICK k \in OvConns : \E x \in MsgsIn(ov_net, k) : x.type = "CreateTsAck" /\ x.ts = ts BY <2>2 DEF OvUses
  <3>2. PICK x \in MsgsIn(ov_net, k) : x.type = "CreateTsAck" /\ x.ts = ts BY <3>1
  <3>3. OvGiven(ov_site, ts) BY <3>2 DEF OvMsgsOK, OvMsgOK
  <3> QED BY <1>6, <1>7, <1>9, <3>3 DEF OvGiven
 <2> QED BY <2>1, <2>2
<1>22. ASSUME NEW w \in OvTs, NEW u \in OvTxns, OvUses(ov_coord', ov_net', w, u)
       PROVE OvUses(ov_coord, ov_net, w, u) \/ (w = ts /\ u = t)
 <2>1. CASE ov_coord'[u].ts = w BY <1>5, <2>1 DEF OvUses
 <2>2. CASE ov_coord'[u].ts # w
  <3>1. PICK k \in OvConns : k[2] = OvCoord(u)
               /\ \E x \in MsgsIn(ov_net', k) : x.type = "CreateTsAck" /\ x.ts = w BY <1>22, <2>2 DEF OvUses
  <3>2. PICK x \in MsgsIn(ov_net', k) : x.type = "CreateTsAck" /\ x.ts = w BY <3>1
  <3>3. CASE x \in MsgsIn(ov_net, k) BY <3>1, <3>2, <3>3 DEF OvUses
  <3>4. CASE k[2] = c[1] /\ x = m BY <1>3, <3>1, <3>2, <3>4 DEF OvCoord
  <3> QED BY <1>14, <3>3, <3>4
 <2> QED BY <2>1, <2>2
<1>23. OvOneEach'
 <2> SUFFICES ASSUME NEW w \in OvTs, NEW u \in OvTxns, NEW v \in OvTxns, w # OvZero,
                     OvUses(ov_coord', ov_net', w, u), OvUses(ov_coord', ov_net', w, v)
              PROVE u = v BY DEF OvOneEach
 <2>1. CASE w = ts BY <1>21, <1>22, <2>1
 <2>2. CASE w # ts BY <1>22, <2>2 DEF OvOneEach
 <2> QED BY <2>1, <2>2
<1> QED BY <1>15, <1>16, <1>17, <1>18, <1>20, <1>23

(* The step of a site that gives no timestamp. *)
LEMMA OvSiteStep ==
  ASSUME OvInv, OvSitesGrow, OvSameMarks, ov_coord' = ov_coord, OvNet(ov_net'),
         \A u \in OvSites : ov_site'[u].vw = ov_site[u].vw \/ OvFinalAll(ov_site', ov_site'[u].vw),
         \A k \in OvConns : \A m \in MsgsIn(ov_net', k) :
           m \in MsgsIn(ov_net, k) \/ (OvMsgOK(ov_lay, ov_site', m, k) /\ m.type # "CreateTsAck")
  PROVE OvInv'
<1>1. OvTypeOK' BY DEF OvInv, OvTypeOK, OvSitesGrow, OvSameMarks, OvNet
<1>2. OvSitesOK' BY OvKeepSites DEF OvInv
<1>3. OvGossOK' BY OvKeepGoss DEF OvInv
<1>4. OvCoordOK'
 <2>1. OvTypeOK /\ OvCoordOK BY DEF OvInv
 <2> QED BY <2>1, OvKeepCoord DEF OvCoordOK
<1>5. OvMsgsOK' BY OvKeepMsgs DEF OvInv
<1>6. OvOneEach' BY OvNoNewTs DEF OvInv
<1> QED BY <1>1, <1>2, <1>3, <1>4, <1>5, <1>6 DEF OvInv

LEMMA OvOnStoredRemoveTsInv ==
  ASSUME OvInv, NEW c \in DOMAIN ov_net, OvOnStoredRemoveTs(c), ov_lay' = ov_lay
  PROVE OvInv'
<1>1. c \in OvConns /\ OvMsgOK(ov_lay, ov_site, Head(ov_net[c]), c) /\ OvNet(ov_net) /\ ov_net[c] # <<>>
      /\ Head(ov_net[c]).type = "StoredRemoveTs" BY OvHead DEF OvInv, OvOnStoredRemoveTs, Receives
<1>2. PICK t \in OvTxns, s \in OvSites : c = <<OvCoord(t), OvSite(s)>> BY <1>1 DEF OvMsgOK, OvCallsSite
<1>3. c[1][2] = t /\ c[2][2] = s /\ c[1] = OvCoord(t) /\ c[2] = OvSite(s) BY <1>2 DEF OvCoord, OvSite
<1> DEFINE entry == [ts |-> Head(ov_net[c]).ts, txn |-> t]
           m == [type |-> "StoredRemoveTsAck"]
<1>4. ov_site' = [ov_site EXCEPT ![s].sphase = @ \ {entry}] /\ ov_net' = OvReply(c, m)
      /\ ov_coord' = ov_coord /\ ov_goss' = ov_goss BY <1>3 DEF OvOnStoredRemoveTs
<1>5. entry.txn = t /\ OvDone(ov_lay, ov_site, t) BY <1>1, <1>3 DEF OvMsgOK
<1> HIDE DEF entry
<1>6. ov_site \in [OvSites -> OvSiteRec] /\ ov_site[s].last \in Nat BY DEF OvInv, OvTypeOK, OvSiteRec
<1>7. ov_site' \in [OvSites -> OvSiteRec] BY <1>4, <1>6 DEF OvSiteRec
<1>8. /\ \A u \in OvSites : u # s => ov_site'[u] = ov_site[u]
      /\ ov_site'[s].last = ov_site[s].last /\ ov_site'[s].sphase = ov_site[s].sphase \ {entry}
      /\ ov_site'[s].vw = ov_site[s].vw /\ ov_site'[s].tx = ov_site[s].tx BY <1>4, <1>6 DEF OvSiteRec
<1>9. OvSitesGrow BY <1>5, <1>6, <1>7, <1>8, OvOneSite DEF OvInv
<1>10. /\ OvNet(ov_net')
       /\ \A k \in OvConns : \A x \in MsgsIn(ov_net', k) :
            x \in MsgsIn(ov_net, k) \/ (k[1] = c[2] /\ k[2] = c[1] /\ x = m) BY <1>1, <1>4, OvReplied
<1>11. ASSUME NEW k \in OvConns, k[2] = c[1] PROVE OvMsgOK(ov_lay, ov_site', m, k)
 <2>1. OvAnswersCoord(k) BY <1>3, <1>11, OvKinds
 <2> QED BY <2>1 DEF OvMsgOK
<1>12. OvSameMarks BY <1>4 DEF OvInv, OvTypeOK, OvSameMarks
<1>13. \A u \in OvSites : ov_site'[u].vw = ov_site[u].vw BY <1>8
<1>14. \A k \in OvConns : \A x \in MsgsIn(ov_net', k) :
         x \in MsgsIn(ov_net, k) \/ (OvMsgOK(ov_lay, ov_site', x, k) /\ x.type # "CreateTsAck") BY <1>10, <1>11
<1> QED BY <1>4, <1>9, <1>10, <1>12, <1>13, <1>14, OvSiteStep

LEMMA OvOnDispatchInv ==
  ASSUME OvInv, NEW c \in DOMAIN ov_net, OvOnDispatch(c), ov_lay' = ov_lay
  PROVE OvInv'
<1>1. c \in OvConns /\ OvMsgOK(ov_lay, ov_site, Head(ov_net[c]), c) /\ OvNet(ov_net) /\ ov_net[c] # <<>>
      /\ Head(ov_net[c]).type = "Dispatch" BY OvHead DEF OvInv, OvOnDispatch, Receives
<1>2. PICK t \in OvTxns, s \in OvSites : c = <<OvCoord(t), OvSite(s)>> BY <1>1 DEF OvMsgOK, OvCallsSite
<1>3. c[1][2] = t /\ c[2][2] = s /\ c[1] = OvCoord(t) /\ c[2] = OvSite(s) BY <1>2 DEF OvCoord, OvSite
<1> DEFINE P == Head(ov_net[c]).pieces
           m == [type |-> "DispatchAck", pieces |-> P]
<1>4. ov_site' = [ov_site EXCEPT ![s].tx[t].has = @ \cup P] /\ ov_net' = OvReply(c, m)
      /\ ov_coord' = ov_coord /\ ov_goss' = ov_goss BY <1>3 DEF OvOnDispatch
<1>5. P \in OvPieceSet BY <1>1 DEF OvMsgOK
<1> HIDE DEF P
<1>6. ov_site \in [OvSites -> OvSiteRec] /\ ov_site[s].last \in Nat /\ ov_site[s].tx \in [OvTxns -> OvTxRec]
  BY DEF OvInv, OvTypeOK, OvSiteRec
<1>7. [ov_site[s].tx EXCEPT ![t].has = @ \cup P] \in [OvTxns -> OvTxRec] BY <1>5, <1>6 DEF OvTxRec, OvPieceSet
<1>8. ov_site' \in [OvSites -> OvSiteRec] BY <1>4, <1>6, <1>7 DEF OvSiteRec
<1>9. /\ \A u \in OvSites : u # s => ov_site'[u] = ov_site[u]
      /\ ov_site'[s].last = ov_site[s].last /\ ov_site'[s].sphase = ov_site[s].sphase
      /\ ov_site'[s].vw = ov_site[s].vw /\ ov_site'[s].tx = [ov_site[s].tx EXCEPT ![t].has = @ \cup P]
  BY <1>4, <1>6 DEF OvSiteRec
<1>10. \A u \in OvTxns : ov_site'[s].tx[u].dispatched = ov_site[s].tx[u].dispatched BY <1>6, <1>9 DEF OvTxRec
<1>11. OvSitesGrow
 <2>1. OvTypeOK /\ ov_site[s].last <= ov_site'[s].last BY <1>6, <1>9 DEF OvInv
 <2>2. \A u \in OvTxns : ov_site[s].tx[u].dispatched => ov_site'[s].tx[u].dispatched BY <1>10
 <2>3. /\ \A u \in OvSites : u # s => ov_site'[u] = ov_site[u]
       /\ ov_site'[s].sphase = ov_site[s].sphase BY <1>9
 <2> QED BY <1>8, <2>1, <2>2, <2>3, OvOneSite
<1>12. /\ OvNet(ov_net')
       /\ \A k \in OvConns : \A x \in MsgsIn(ov_net', k) :
            x \in MsgsIn(ov_net, k) \/ (k[1] = c[2] /\ k[2] = c[1] /\ x = m) BY <1>1, <1>4, OvReplied
<1>13. ASSUME NEW k \in OvConns, k[2] = c[1] PROVE OvMsgOK(ov_lay, ov_site', m, k)
 <2>1. OvAnswersCoord(k) BY <1>3, <1>13, OvKinds
 <2> QED BY <1>5, <2>1 DEF OvMsgOK
<1>14. OvSameMarks BY <1>4 DEF OvInv, OvTypeOK, OvSameMarks
<1>15. \A u \in OvSites : ov_site'[u].vw = ov_site[u].vw BY <1>9
<1>16. \A k \in OvConns : \A x \in MsgsIn(ov_net', k) :
         x \in MsgsIn(ov_net, k) \/ (OvMsgOK(ov_lay, ov_site', x, k) /\ x.type # "CreateTsAck") BY <1>12, <1>13
<1> QED BY <1>4, <1>11, <1>12, <1>14, <1>15, <1>16, OvSiteStep

LEMMA OvOnStoreInv ==
  ASSUME OvInv, NEW c \in DOMAIN ov_net, OvOnStore(c), ov_lay' = ov_lay
  PROVE OvInv'
<1>1. c \in OvConns /\ OvMsgOK(ov_lay, ov_site, Head(ov_net[c]), c) /\ OvNet(ov_net) /\ ov_net[c] # <<>>
      /\ Head(ov_net[c]).type = "Store" BY OvHead DEF OvInv, OvOnStore, Receives
<1>2. PICK t \in OvTxns, s \in OvSites : c = <<OvCoord(t), OvSite(s)>> BY <1>1 DEF OvMsgOK, OvCallsSite
<1>3. c[1][2] = t /\ c[2][2] = s /\ c[1] = OvCoord(t) /\ c[2] = OvSite(s) BY <1>2 DEF OvCoord, OvSite
<1> DEFINE P == Head(ov_net[c]).pieces
           ts == Head(ov_net[c]).ts
           x == ov_site[s].tx[t]
           y == [x EXCEPT !.status = "STORED", !.ts = ts, !.has = @ \cup P, !.dispatched = TRUE]
           m == [type |-> "StoreAck", par |-> ov_lay.par[s]]
<1>4. /\ ov_site' = [ov_site EXCEPT ![s].inited = TRUE, ![s].stored = @ \cup {t}, ![s].tx[t] = y]
      /\ ov_net' = OvReply(c, m) /\ ov_coord' = ov_coord /\ ov_goss' = OvStarted(ov_goss, s) BY <1>3 DEF OvOnStore
<1>5. P \in OvPieceSet /\ ts \in OvTs BY <1>1 DEF OvMsgOK
<1>6. ov_site \in [OvSites -> OvSiteRec] /\ ov_site[s].last \in Nat /\ ov_site[s].tx \in [OvTxns -> OvTxRec]
  BY DEF OvInv, OvTypeOK, OvSiteRec
<1>7. y \in OvTxRec /\ y.dispatched = TRUE
 <2>1. x \in OvTxRec BY <1>6
 <2> HIDE DEF x, P, ts
 <2> QED BY <1>5, <2>1 DEF OvTxRec, OvPieceSet, OvStatus
<1> HIDE DEF P, ts, y
<1>8. [ov_site[s].tx EXCEPT ![t] = y] \in [OvTxns -> OvTxRec] BY <1>6, <1>7
<1>9. ov_site' \in [OvSites -> OvSiteRec]
 <2> DEFINE z == [ov_site[s] EXCEPT !.inited = TRUE, !.stored = @ \cup {t}, !.tx = [@ EXCEPT ![t] = y]]
 <2>1. z \in OvSiteRec BY <1>6, <1>8 DEF OvSiteRec
 <2>2. ov_site' = [ov_site EXCEPT ![s] = z] BY <1>4, <1>6 DEF OvSiteRec
 <2> HIDE DEF z
 <2> QED BY <1>6, <2>1, <2>2
<1>10. /\ \A u \in OvSites : u # s => ov_site'[u] = ov_site[u]
       /\ ov_site'[s].last = ov_site[s].last /\ ov_site'[s].sphase = ov_site[s].sphase
       /\ ov_site'[s].vw = ov_site[s].vw /\ ov_site'[s].tx = [ov_site[s].tx EXCEPT ![t] = y] BY <1>4, <1>6 DEF OvSiteRec
<1>11. \A u \in OvTxns : ov_site[s].tx[u].dispatched => ov_site'[s].tx[u].dispatched BY <1>6, <1>7, <1>10
<1>12. OvSitesGrow
 <2>1. OvTypeOK /\ ov_site[s].last <= ov_site'[s].last BY <1>6, <1>10 DEF OvInv
 <2>2. /\ \A u \in OvSites : u # s => ov_site'[u] = ov_site[u]
       /\ ov_site'[s].sphase = ov_site[s].sphase BY <1>10
 <2> QED BY <1>9, <1>11, <2>1, <2>2, OvOneSite
<1>13. /\ OvNet(ov_net')
       /\ \A k \in OvConns : \A z \in MsgsIn(ov_net', k) :
            z \in MsgsIn(ov_net, k) \/ (k[1] = c[2] /\ k[2] = c[1] /\ z = m) BY <1>1, <1>4, OvReplied
<1>14. ASSUME NEW k \in OvConns, k[1] = c[2], k[2] = c[1] PROVE OvMsgOK(ov_lay, ov_site', m, k)
 <2>1. OvAnswersCoord(k) BY <1>3, <1>14, OvKinds
 <2>2. k[1][2] = s /\ k[2][2] = t BY <1>3, <1>14
 <2>3. ov_lay.par[s] \in OvParSet BY DEF OvInv, OvTypeOK, OvParSet
 <2>4. ov_site'[s].tx[t].dispatched BY <1>6, <1>7, <1>10
 <2> QED BY <2>1, <2>2, <2>3, <2>4 DEF OvMsgOK
<1>15. OvSameMarks
 <2>1. DOMAIN ov_goss = OvDcs /\ \A d \in OvDcs : ov_goss[d] \in OvGossRec(d) BY DEF OvInv, OvTypeOK
 <2>2. CASE ov_goss' = ov_goss BY <2>1, <2>2 DEF OvSameMarks
 <2>3. CASE ov_goss' # ov_goss
  <3> DEFINE e == OvDcOf[s]
  <3>1. e \in OvDcs /\ ov_goss' = [ov_goss EXCEPT ![e].agg = "ready", ![e].gos = "ready"]
    BY <1>4, <2>3, OvAssumption DEF OvStarted
  <3> HIDE DEF e
  <3>2. DOMAIN ov_goss' = OvDcs /\ \A d \in OvDcs : d # e => ov_goss'[d] = ov_goss[d] BY <2>1, <3>1
  <3>3. /\ ov_goss'[e] \in OvGossRec(e) /\ ov_goss'[e].site_wm = ov_goss[e].site_wm
        /\ ov_goss'[e].dc_wm = ov_goss[e].dc_wm /\ ov_goss'[e].vw = ov_goss[e].vw
   <4> DEFINE h == [ov_goss[e] EXCEPT !.agg = "ready", !.gos = "ready"]
   <4>1. ov_goss'[e] = h BY <2>1, <3>1
   <4>2. ov_goss[e] \in OvGossRec(e) BY <2>1, <3>1
   <4>3. h \in OvGossRec(e) BY <4>2 DEF OvGossRec, OvLoop
   <4>4. h.site_wm = ov_goss[e].site_wm /\ h.dc_wm = ov_goss[e].dc_wm /\ h.vw = ov_goss[e].vw BY <4>2 DEF OvGossRec
   <4> HIDE DEF h
   <4> QED BY <4>1, <4>3, <4>4
  <3> QED BY <2>1, <3>1, <3>2, <3>3 DEF OvSameMarks
 <2> QED BY <2>2, <2>3
<1>16. \A u \in OvSites : ov_site'[u].vw = ov_site[u].vw BY <1>10
<1>17. \A k \in OvConns : \A z \in MsgsIn(ov_net', k) :
         z \in MsgsIn(ov_net, k) \/ (OvMsgOK(ov_lay, ov_site', z, k) /\ z.type # "CreateTsAck") BY <1>13, <1>14
<1> QED BY <1>4, <1>12, <1>13, <1>15, <1>16, <1>17, OvSiteStep

LEMMA OvOnExecuteInv ==
  ASSUME OvInv, NEW c \in DOMAIN ov_net, OvOnExecute(c), ov_lay' = ov_lay
  PROVE OvInv'
<1>1. c \in OvConns /\ OvMsgOK(ov_lay, ov_site, Head(ov_net[c]), c) /\ OvNet(ov_net) /\ ov_net[c] # <<>>
      /\ Head(ov_net[c]).type = "Execute" BY OvHead DEF OvInv, OvOnExecute, Receives
<1>2. PICK t \in OvTxns, s \in OvSites : c = <<OvCoord(t), OvSite(s)>> BY <1>1 DEF OvMsgOK, OvCallsSite
<1>3. c[1][2] = t /\ c[2][2] = s /\ c[1] = OvCoord(t) /\ c[2] = OvSite(s) BY <1>2 DEF OvCoord, OvSite
<1> DEFINE m == [type |-> "ExecuteAck"]
           tx(st) == [ov_site[s].tx EXCEPT ![t].status = st, ![t].asked = TRUE]
<1>4. /\ \/ /\ ov_site' = [ov_site EXCEPT ![s].tx[t].status = "CAN_EXECUTE", ![s].tx[t].asked = TRUE]
            /\ ov_net' = OvTaken(c)
         \/ /\ ov_site' = [ov_site EXCEPT ![s].tx[t].status = "EXECUTED", ![s].tx[t].asked = TRUE,
                                          ![s].stored = @ \ {t}]
            /\ ov_net' = OvReply(c, m)
      /\ ov_coord' = ov_coord /\ ov_goss' = ov_goss BY <1>3 DEF OvOnExecute
<1>5. ov_site \in [OvSites -> OvSiteRec] /\ ov_site[s].last \in Nat /\ ov_site[s].tx \in [OvTxns -> OvTxRec]
  BY DEF OvInv, OvTypeOK, OvSiteRec
<1>6. ASSUME NEW st \in OvStatus
      PROVE tx(st) \in [OvTxns -> OvTxRec] /\ \A u \in OvTxns : tx(st)[u].dispatched = ov_site[s].tx[u].dispatched
  BY <1>5 DEF OvTxRec
<1>7. /\ ov_site' \in [OvSites -> OvSiteRec]
      /\ \A u \in OvSites : u # s => ov_site'[u] = ov_site[u]
      /\ ov_site'[s].last = ov_site[s].last /\ ov_site'[s].sphase = ov_site[s].sphase
      /\ ov_site'[s].vw = ov_site[s].vw
      /\ \E st \in OvStatus : ov_site'[s].tx = tx(st)
 <2>1. CASE ov_site' = [ov_site EXCEPT ![s].tx[t].status = "CAN_EXECUTE", ![s].tx[t].asked = TRUE]
  <3> DEFINE z == [ov_site[s] EXCEPT !.tx = tx("CAN_EXECUTE")]
  <3>1. ov_site' = [ov_site EXCEPT ![s] = z] BY <1>5, <2>1 DEF OvSiteRec
  <3> HIDE DEF tx
  <3>2. tx("CAN_EXECUTE") \in [OvTxns -> OvTxRec] /\ ov_site[s] \in OvSiteRec BY <1>5, <1>6 DEF OvStatus
  <3>3. z \in OvSiteRec /\ z.last = ov_site[s].last /\ z.sphase = ov_site[s].sphase
        /\ z.vw = ov_site[s].vw /\ z.tx = tx("CAN_EXECUTE") BY <3>2 DEF OvSiteRec
  <3> HIDE DEF z
  <3> QED BY <1>5, <3>1, <3>3 DEF OvStatus
 <2>2. CASE ov_site' = [ov_site EXCEPT ![s].tx[t].status = "EXECUTED", ![s].tx[t].asked = TRUE,
                                       ![s].stored = @ \ {t}]
  <3> DEFINE z == [ov_site[s] EXCEPT !.tx = tx("EXECUTED"), !.stored = @ \ {t}]
  <3>1. ov_site' = [ov_site EXCEPT ![s] = z] BY <1>5, <2>2 DEF OvSiteRec
  <3> HIDE DEF tx
  <3>2. tx("EXECUTED") \in [OvTxns -> OvTxRec] /\ ov_site[s] \in OvSiteRec BY <1>5, <1>6 DEF OvStatus
  <3>3. z \in OvSiteRec /\ z.last = ov_site[s].last /\ z.sphase = ov_site[s].sphase
        /\ z.vw = ov_site[s].vw /\ z.tx = tx("EXECUTED") BY <3>2 DEF OvSiteRec
  <3> HIDE DEF z
  <3> QED BY <1>5, <3>1, <3>3 DEF OvStatus
 <2> QED BY <1>4, <2>1, <2>2
<1> HIDE DEF tx
<1>8. \A u \in OvTxns : ov_site'[s].tx[u].dispatched = ov_site[s].tx[u].dispatched BY <1>6, <1>7
<1>9. OvSitesGrow
 <2>1. OvTypeOK /\ ov_site[s].last <= ov_site'[s].last BY <1>5, <1>7 DEF OvInv
 <2>2. \A u \in OvTxns : ov_site[s].tx[u].dispatched => ov_site'[s].tx[u].dispatched BY <1>8
 <2>3. /\ ov_site' \in [OvSites -> OvSiteRec]
       /\ \A u \in OvSites : u # s => ov_site'[u] = ov_site[u]
       /\ ov_site'[s].sphase = ov_site[s].sphase BY <1>7
 <2> QED BY <2>1, <2>2, <2>3, OvOneSite
<1>10. /\ OvNet(ov_net')
       /\ \A k \in OvConns : \A x \in MsgsIn(ov_net', k) :
            x \in MsgsIn(ov_net, k) \/ (k[1] = c[2] /\ k[2] = c[1] /\ x = m)
 <2>1. CASE ov_net' = OvTaken(c) BY <1>1, <2>1, OvTook DEF OvTaken
 <2>2. CASE ov_net' = OvReply(c, m) BY <1>1, <2>2, OvReplied
 <2> QED BY <1>4, <2>1, <2>2
<1>11. ASSUME NEW k \in OvConns, k[2] = c[1] PROVE OvMsgOK(ov_lay, ov_site', m, k)
 <2>1. OvAnswersCoord(k) BY <1>3, <1>11, OvKinds
 <2> QED BY <2>1 DEF OvMsgOK
<1>12. OvSameMarks BY <1>4 DEF OvInv, OvTypeOK, OvSameMarks
<1>13. \A u \in OvSites : ov_site'[u].vw = ov_site[u].vw BY <1>7
<1>14. \A k \in OvConns : \A x \in MsgsIn(ov_net', k) :
         x \in MsgsIn(ov_net, k) \/ (OvMsgOK(ov_lay, ov_site', x, k) /\ x.type # "CreateTsAck") BY <1>10, <1>11
<1> QED BY <1>4, <1>9, <1>10, <1>12, <1>13, <1>14, OvSiteStep

(* What a site reports is final for it (GetServerVWatermark). *)
LEMMA OvServerVWatermarkFinal ==
  ASSUME NEW x \in OvSiteRec, NEW s \in OvSites, NEW now \in OvNow,
         \A e \in x.sphase : e.ts[2] = s /\ e.ts[1] <= x.last
  PROVE  LET wm == OvServerVWatermark(x, s, now)
         IN  /\ wm.ts \in OvTs /\ wm.last \in Nat /\ x.last <= wm.last
             /\ \A e \in x.sphase : ~OvLess(e.ts, wm.ts)
             /\ ~OvLess(<<wm.last + 1, s>>, wm.ts)
<1> DEFINE wm == OvServerVWatermark(x, s, now)
           clock == OvMonotTimestamp(x.last, now)
           T == {e.ts : e \in x.sphase}
<1>1. x.last \in Nat /\ s \in Nat /\ now \in Nat /\ x.sphase \subseteq OvEntry BY OvAssumption DEF OvSiteRec
<1>2. clock \in Nat /\ x.last < clock BY <1>1 DEF OvMonotTimestamp
<1>3. CASE x.sphase = {}
 <2>1. wm.ts = <<clock, s>> /\ wm.last = clock BY <1>3 DEF OvServerVWatermark
 <2> HIDE DEF wm, clock
 <2>2. <<clock, s>> \in OvTs /\ ~OvLess(<<clock + 1, s>>, <<clock, s>>) BY <1>1, <1>2 DEF OvTs, OvLess
 <2>3. /\ wm.ts \in OvTs /\ wm.last \in Nat /\ x.last <= wm.last
       /\ \A e \in x.sphase : ~OvLess(e.ts, wm.ts)
       /\ ~OvLess(<<wm.last + 1, s>>, wm.ts) BY <1>1, <1>2, <1>3, <2>1, <2>2
 <2> QED BY <2>3 DEF wm
<1>4. CASE x.sphase # {}
 <2>1. wm.ts = OvLeast(T) /\ wm.last = x.last BY <1>4 DEF OvServerVWatermark
 <2>2. T \in SUBSET OvTs /\ T # {} BY <1>1, <1>4 DEF OvEntry
 <2>3. OvLeast(T) \in T /\ \A b \in T : ~OvLess(b, OvLeast(T)) BY <2>2, OvLeastIsLeast
 <2> HIDE DEF wm
 <2>4. PICK e \in x.sphase : e.ts = wm.ts BY <2>1, <2>3
 <2>5. wm.ts \in OvTs /\ wm.ts[2] = s /\ wm.ts[1] <= x.last /\ wm.ts[1] \in Nat BY <2>1, <2>2, <2>3, <2>4 DEF OvTs
 <2>6. ~OvLess(<<x.last + 1, s>>, wm.ts) BY <1>1, <2>5 DEF OvLess
 <2>7. \A f \in x.sphase : ~OvLess(f.ts, wm.ts) BY <2>1, <2>3
 <2>8. /\ wm.ts \in OvTs /\ wm.last \in Nat /\ x.last <= wm.last
       /\ \A f \in x.sphase : ~OvLess(f.ts, wm.ts)
       /\ ~OvLess(<<wm.last + 1, s>>, wm.ts) BY <1>1, <2>1, <2>5, <2>6, <2>7
 <2> QED BY <2>8 DEF wm
<1> QED BY <1>3, <1>4

LEMMA OvOnPublishInv ==
  ASSUME OvInv, NEW c \in DOMAIN ov_net, OvOnPublish(c), ov_lay' = ov_lay
  PROVE OvInv'
<1>1. c \in OvConns /\ OvMsgOK(ov_lay, ov_site, Head(ov_net[c]), c) /\ OvNet(ov_net) /\ ov_net[c] # <<>>
      /\ Head(ov_net[c]).type = "Publish" BY OvHead DEF OvInv, OvOnPublish, Receives
<1>2. PICK d \in OvDcs, s \in OvSites : c = <<OvGoss(d), OvSite(s)>> BY <1>1 DEF OvMsgOK, OvPublishes
<1>3. c[1][2] = d /\ c[2][2] = s /\ c[1] = OvGoss(d) /\ c[2] = OvSite(s) BY <1>2 DEF OvGoss, OvSite
<1> DEFINE w == Head(ov_net[c]).ts
           x == ov_site[s]
           wm(now) == OvServerVWatermark(x, s, now)
           calls(run, now) == {To({OvCoord(t) : t \in Range(run)}, [type |-> "ExecuteAck"]),
                               To({c[1]}, [type |-> "PublishAck", ts |-> wm(now).ts])}
<1>4. \E now \in OvNow : \E run :
        /\ ov_site' = [ov_site EXCEPT ![s].vw = OvRaise(x.vw, w), ![s].last = wm(now).last,
                                      ![s].stored = @ \ Range(run)]
        /\ ov_net' = Calls(OvTaken(c), c[2], calls(run, now))
        /\ ov_coord' = ov_coord /\ ov_goss' = ov_goss
 <2>1. \E now \in OvNow :
         LET run == IF OvLess(x.vw, w) THEN OvReleased(x, w) ELSE <<>>
         IN  /\ ov_site' = [ov_site EXCEPT ![s].vw = OvRaise(x.vw, w), ![s].last = wm(now).last,
                                           ![s].stored = @ \ Range(run)]
             /\ ov_net' = Calls(OvTaken(c), c[2], calls(run, now))
             /\ ov_coord' = ov_coord /\ ov_goss' = ov_goss BY <1>3 DEF OvOnPublish
 <2> HIDE DEF wm, calls, w, x
 <2> QED BY <2>1
<1>5. PICK now, run :
        /\ now \in OvNow
        /\ ov_site' = [ov_site EXCEPT ![s].vw = OvRaise(x.vw, w), ![s].last = wm(now).last,
                                      ![s].stored = @ \ Range(run)]
        /\ ov_net' = Calls(OvTaken(c), c[2], calls(run, now))
        /\ ov_coord' = ov_coord /\ ov_goss' = ov_goss BY <1>4
<1> DEFINE last == wm(now).last
           rep == wm(now).ts
           vw == OvRaise(x.vw, w)
           R == Range(run)
<1>6. ov_site \in [OvSites -> OvSiteRec] /\ x \in OvSiteRec /\ x.last \in Nat BY DEF OvInv, OvTypeOK, OvSiteRec
<1>7. /\ rep \in OvTs /\ last \in Nat /\ x.last <= last
      /\ \A e \in x.sphase : ~OvLess(e.ts, rep)
      /\ ~OvLess(<<last + 1, s>>, rep)
 <2>1. \A e \in x.sphase : e.ts[2] = s /\ e.ts[1] <= x.last BY DEF OvInv, OvSitesOK
 <2>2. now \in OvNow BY <1>5
 <2> HIDE DEF x
 <2> QED BY <1>6, <2>1, <2>2, OvServerVWatermarkFinal
<1>8. w \in OvTs /\ OvFinalAll(ov_site, w) BY <1>1 DEF OvMsgOK
<1>9. x.vw \in OvTs /\ OvFinalAll(ov_site, x.vw) BY <1>6 DEF OvInv, OvSitesOK, OvSiteRec
<1>10. vw \in OvTs /\ OvFinalAll(ov_site, vw) BY <1>8, <1>9 DEF OvRaise
<1>11. ov_site' = [ov_site EXCEPT ![s].vw = vw, ![s].last = last, ![s].stored = @ \ R] BY <1>5
<1> HIDE DEF rep, last, vw, w, R
<1>12. /\ ov_site' \in [OvSites -> OvSiteRec]
       /\ \A u \in OvSites : u # s => ov_site'[u] = ov_site[u]
       /\ ov_site'[s].last = last /\ ov_site'[s].sphase = x.sphase
       /\ ov_site'[s].vw = vw /\ ov_site'[s].tx = x.tx
 <2> DEFINE z == [ov_site[s] EXCEPT !.vw = vw, !.last = last, !.stored = @ \ R]
 <2>1. ov_site' = [ov_site EXCEPT ![s] = z] BY <1>6, <1>11 DEF OvSiteRec
 <2>2. z \in OvSiteRec /\ z.last = last /\ z.sphase = x.sphase /\ z.vw = vw /\ z.tx = x.tx
   BY <1>6, <1>7, <1>10 DEF OvSiteRec
 <2> HIDE DEF z
 <2> QED BY <1>6, <2>1, <2>2
<1>13. OvSitesGrow
 <2>1. OvTypeOK /\ ov_site[s].last <= ov_site'[s].last BY <1>7, <1>12 DEF OvInv
 <2>2. \A u \in OvTxns : ov_site[s].tx[u].dispatched => ov_site'[s].tx[u].dispatched BY <1>12
 <2>3. /\ ov_site' \in [OvSites -> OvSiteRec]
       /\ \A u \in OvSites : u # s => ov_site'[u] = ov_site[u]
       /\ ov_site'[s].sphase = ov_site[s].sphase BY <1>12
 <2> QED BY <2>1, <2>2, <2>3, OvOneSite
<1>14. OvFinal(ov_site', rep, s) BY <1>7, <1>12 DEF OvFinal
<1>15. \A u \in OvSites : ov_site'[u].vw = ov_site[u].vw \/ OvFinalAll(ov_site', ov_site'[u].vw)
 <2>1. OvFinalAll(ov_site', vw)
  <3>1. OvGrows(ov_lay, ov_site, ov_site') BY <1>13 DEF OvSitesGrow
  <3>2. \A v \in OvTs : OvFinalAll(ov_site, v) => OvFinalAll(ov_site', v) BY <1>6, <1>12, <3>1, OvCarries
  <3> QED BY <1>10, <3>2
 <2> QED BY <1>12, <2>1
<1>16. \A e \in calls(run, now) :
         \/ e.msg = [type |-> "ExecuteAck"] /\ e.to = {OvCoord(t) : t \in R}
         \/ e.msg = [type |-> "PublishAck", ts |-> rep] /\ e.to = {c[1]} BY DEF To, R, rep
<1> DEFINE C == calls(run, now)
<1> HIDE DEF C
<1>17. /\ OvNet(ov_net')
       /\ \A k \in OvConns : \A m \in MsgsIn(ov_net', k) :
            m \in MsgsIn(ov_net, k) \/ (k[1] = c[2] /\ \E e \in C : k[2] \in e.to /\ m = e.msg)
 <2>1. ov_net' = Calls(OvTaken(c), c[2], C) BY <1>5 DEF C
 <2> QED BY <1>1, <2>1, OvHandled
<1>18. ASSUME NEW k \in OvConns, NEW m, k[1] = c[2], NEW e \in C, k[2] \in e.to, m = e.msg
       PROVE OvMsgOK(ov_lay, ov_site', m, k) /\ m.type # "CreateTsAck"
 <2>1. CASE m = [type |-> "ExecuteAck"] /\ k[2] \in {OvCoord(t) : t \in R}
  <3>1. OvAnswersCoord(k) BY <2>1, OvKinds
  <3> QED BY <2>1, <3>1 DEF OvMsgOK
 <2>2. CASE m = [type |-> "PublishAck", ts |-> rep] /\ k[2] = c[1]
  <3>1. OvReports(k) /\ k[1][2] = s BY <1>3, <1>18, <2>2, OvKinds
  <3> QED BY <1>7, <1>14, <2>2, <3>1 DEF OvMsgOK
 <2>3. \/ e.msg = [type |-> "ExecuteAck"] /\ e.to = {OvCoord(t) : t \in R}
       \/ e.msg = [type |-> "PublishAck", ts |-> rep] /\ e.to = {c[1]} BY <1>16 DEF C
 <2> QED BY <1>18, <2>1, <2>2, <2>3
<1>19. \A k \in OvConns : \A m \in MsgsIn(ov_net', k) :
         m \in MsgsIn(ov_net, k) \/ (OvMsgOK(ov_lay, ov_site', m, k) /\ m.type # "CreateTsAck") BY <1>17, <1>18
<1>20. OvSameMarks BY <1>5 DEF OvInv, OvTypeOK, OvSameMarks
<1>21. ov_coord' = ov_coord BY <1>5
<1> QED BY <1>13, <1>15, <1>17, <1>19, <1>20, <1>21, OvSiteStep

-----
(* The gossipers. *)

(* What gossiper d holds is final. *)
OvMarksOK(g, d) ==
  /\ \A s \in OvDcSites(d) : OvFinal(ov_site, g.site_wm[s], s)
  /\ \A e \in OvDcs : OvFinalDc(ov_site, g.dc_wm[e], e)
  /\ OvFinalAll(ov_site, g.vw)

LEMMA OvGossStep ==
  ASSUME OvInv, ov_lay' = ov_lay, ov_site' = ov_site, ov_coord' = ov_coord,
         NEW d \in OvDcs, NEW g \in OvGossRec(d), OvMarksOK(g, d), ov_goss' = [ov_goss EXCEPT ![d] = g],
         OvNet(ov_net'),
         \A k \in OvConns : \A m \in MsgsIn(ov_net', k) :
           m \in MsgsIn(ov_net, k) \/ (OvMsgOK(ov_lay, ov_site, m, k) /\ m.type # "CreateTsAck")
  PROVE OvInv'
<1>1. OvTypeOK /\ OvSitesGrow BY OvStill DEF OvInv
<1>2. DOMAIN ov_goss' = OvDcs /\ ov_goss'[d] = g /\ \A e \in OvDcs : e # d => ov_goss'[e] = ov_goss[e]
  BY <1>1 DEF OvTypeOK
<1>3. OvTypeOK' BY <1>1, <1>2 DEF OvTypeOK, OvNet
<1>4. OvSitesOK' BY <1>1, OvKeepSites DEF OvInv
<1>5. OvGossOK' BY <1>2 DEF OvInv, OvGossOK, OvMarksOK
<1>6. OvCoordOK' BY DEF OvInv, OvCoordOK
<1>7. OvMsgsOK' BY <1>1, OvKeepMsgs DEF OvInv
<1>8. OvOneEach' BY OvNoNewTs DEF OvInv
<1> QED BY <1>3, <1>4, <1>5, <1>6, <1>7, <1>8 DEF OvInv

(* The record of a gossiper. *)
LEMMA OvGossHas ==
  ASSUME OvInv, NEW d \in OvDcs
  PROVE ov_goss[d] \in OvGossRec(d) /\ OvMarksOK(ov_goss[d], d) /\ DOMAIN ov_goss = OvDcs
  BY DEF OvInv, OvTypeOK, OvGossOK, OvMarksOK

(* A watermark that is raised by a final value is final. *)
LEMMA OvRaised ==
  ASSUME NEW a \in OvTs, NEW b \in OvTs
  PROVE OvRaise(a, b) \in OvTs /\ (OvRaise(a, b) = a \/ OvRaise(a, b) = b) BY DEF OvRaise

(* A value that is not above a final one is final. *)
LEMMA OvBelow ==
  ASSUME OvTypeOK, NEW w \in OvTs, NEW v \in OvTs, ~OvLess(w, v), NEW u \in OvSites, OvFinal(ov_site, w, u)
  PROVE OvFinal(ov_site, v, u)
<1>1. ov_site[u] \in OvSiteRec /\ u \in Nat BY OvAssumption DEF OvTypeOK
<1>2. ov_site[u].last \in Nat /\ ov_site[u].sphase \subseteq OvEntry BY <1>1 DEF OvSiteRec
<1>3. <<ov_site[u].last + 1, u>> \in OvTs /\ \A e \in ov_site[u].sphase : e.ts \in OvTs BY <1>1, <1>2 DEF OvTs, OvEntry
<1>4. \A a \in OvTs : ~OvLess(a, w) => ~OvLess(a, v) BY OvLessOrder
<1> QED BY <1>3, <1>4 DEF OvFinal

(* Aggregate and Gossip. *)
LEMMA OvAggregateInv ==
  ASSUME OvInv, NEW d \in OvDcs, OvAggregate(d), ov_lay' = ov_lay
  PROVE OvInv'
<1> DEFINE g == [ov_goss[d] EXCEPT !.agg = "wait", !.agg_acks = {}, !.agg_rounds = @ + 1]
           calls == {To({OvSite(s) : s \in OvDcSites(d)}, [type |-> "Publish", ts |-> ov_goss[d].vw])}
<1>1. ov_goss[d] \in OvGossRec(d) /\ OvMarksOK(ov_goss[d], d) /\ DOMAIN ov_goss = OvDcs BY OvGossHas
<1>2. ov_goss' = [ov_goss EXCEPT ![d] = g] /\ ov_net' = Calls(ov_net, OvGoss(d), calls)
      /\ ov_site' = ov_site /\ ov_coord' = ov_coord BY <1>1 DEF OvAggregate
<1>3. g \in OvGossRec(d) /\ g.site_wm = ov_goss[d].site_wm /\ g.dc_wm = ov_goss[d].dc_wm /\ g.vw = ov_goss[d].vw
 <2> DEFINE n == ov_goss[d].agg_rounds + 1
 <2>1. n \in Nat /\ {} \in SUBSET OvSites /\ "wait" \in OvLoop BY <1>1 DEF OvGossRec, OvLoop
 <2>2. g = [ov_goss[d] EXCEPT !.agg = "wait", !.agg_acks = {}, !.agg_rounds = n] OBVIOUS
 <2> HIDE DEF n, g
 <2>3. g \in OvGossRec(d) BY <1>1, <2>1, <2>2 DEF OvGossRec
 <2>4. g.site_wm = ov_goss[d].site_wm /\ g.dc_wm = ov_goss[d].dc_wm /\ g.vw = ov_goss[d].vw BY <1>1, <2>2 DEF OvGossRec
 <2> QED BY <2>3, <2>4
<1> HIDE DEF g
<1>4. OvMarksOK(g, d) BY <1>1, <1>3 DEF OvMarksOK
<1>5. \A e \in calls : e.to = {OvSite(s) : s \in OvDcSites(d)} /\ e.msg = [type |-> "Publish", ts |-> ov_goss[d].vw]
  BY DEF To
<1> HIDE DEF calls
<1>6. /\ OvNet(ov_net')
      /\ \A k \in OvConns : \A m \in MsgsIn(ov_net', k) :
           m \in MsgsIn(ov_net, k) \/ (k[1] = OvGoss(d) /\ \E e \in calls : k[2] \in e.to /\ m = e.msg)
 <2>1. OvNet(ov_net) BY DEF OvInv, OvTypeOK, OvNet
 <2> QED BY <1>2, <2>1, OvSent
<1>7. ASSUME NEW k \in OvConns, NEW m, k[1] = OvGoss(d), NEW e \in calls, k[2] \in e.to, m = e.msg
      PROVE OvMsgOK(ov_lay, ov_site, m, k) /\ m.type # "CreateTsAck"
 <2>1. m = [type |-> "Publish", ts |-> ov_goss[d].vw] /\ \E s \in OvDcSites(d) : k[2] = OvSite(s) BY <1>5, <1>7
 <2>2. OvPublishes(k) BY <1>7, <2>1, OvKinds
 <2>3. ov_goss[d].vw \in OvTs /\ OvFinalAll(ov_site, ov_goss[d].vw) BY <1>1 DEF OvGossRec, OvMarksOK
 <2> QED BY <2>1, <2>2, <2>3 DEF OvMsgOK
<1>8. \A k \in OvConns : \A m \in MsgsIn(ov_net', k) :
        m \in MsgsIn(ov_net, k) \/ (OvMsgOK(ov_lay, ov_site, m, k) /\ m.type # "CreateTsAck") BY <1>6, <1>7
<1> QED BY <1>2, <1>3, <1>4, <1>6, <1>8, OvGossStep

LEMMA OvGossipInv ==
  ASSUME OvInv, NEW d \in OvDcs, OvGossip(d), ov_lay' = ov_lay
  PROVE OvInv'
<1> DEFINE g == [ov_goss[d] EXCEPT !.gos = "wait", !.gos_acks = {}, !.gos_rounds = @ + 1]
           calls == {To({OvGoss(e) : e \in OvDcs \ {d}}, [type |-> "Exchange", ts |-> ov_goss[d].dc_wm[d]])}
<1>1. ov_goss[d] \in OvGossRec(d) /\ OvMarksOK(ov_goss[d], d) /\ DOMAIN ov_goss = OvDcs BY OvGossHas
<1>2. ov_goss' = [ov_goss EXCEPT ![d] = g] /\ ov_net' = Calls(ov_net, OvGoss(d), calls)
      /\ ov_site' = ov_site /\ ov_coord' = ov_coord BY <1>1 DEF OvGossip
<1>3. g \in OvGossRec(d) /\ g.site_wm = ov_goss[d].site_wm /\ g.dc_wm = ov_goss[d].dc_wm /\ g.vw = ov_goss[d].vw
 <2> DEFINE n == ov_goss[d].gos_rounds + 1
 <2>1. n \in Nat /\ {} \in SUBSET OvDcs /\ "wait" \in OvLoop BY <1>1 DEF OvGossRec, OvLoop
 <2>2. g = [ov_goss[d] EXCEPT !.gos = "wait", !.gos_acks = {}, !.gos_rounds = n] OBVIOUS
 <2> HIDE DEF n, g
 <2>3. g \in OvGossRec(d) BY <1>1, <2>1, <2>2 DEF OvGossRec
 <2>4. g.site_wm = ov_goss[d].site_wm /\ g.dc_wm = ov_goss[d].dc_wm /\ g.vw = ov_goss[d].vw BY <1>1, <2>2 DEF OvGossRec
 <2> QED BY <2>3, <2>4
<1> HIDE DEF g
<1>4. OvMarksOK(g, d) BY <1>1, <1>3 DEF OvMarksOK
<1>5. \A e \in calls : e.to = {OvGoss(f) : f \in OvDcs \ {d}}
                       /\ e.msg = [type |-> "Exchange", ts |-> ov_goss[d].dc_wm[d]] BY DEF To
<1> HIDE DEF calls
<1>6. /\ OvNet(ov_net')
      /\ \A k \in OvConns : \A m \in MsgsIn(ov_net', k) :
           m \in MsgsIn(ov_net, k) \/ (k[1] = OvGoss(d) /\ \E e \in calls : k[2] \in e.to /\ m = e.msg)
 <2>1. OvNet(ov_net) BY DEF OvInv, OvTypeOK, OvNet
 <2> QED BY <1>2, <2>1, OvSent
<1>7. ASSUME NEW k \in OvConns, NEW m, k[1] = OvGoss(d), NEW e \in calls, k[2] \in e.to, m = e.msg
      PROVE OvMsgOK(ov_lay, ov_site, m, k) /\ m.type # "CreateTsAck"
 <2>1. m = [type |-> "Exchange", ts |-> ov_goss[d].dc_wm[d]] /\ \E f : k[2] = OvGoss(f) BY <1>5, <1>7
 <2>2. OvGossips(k) BY <1>7, <2>1, OvKinds
 <2>3. ov_goss[d].dc_wm[d] \in OvTs /\ OvFinalDc(ov_site, ov_goss[d].dc_wm[d], d) BY <1>1 DEF OvGossRec, OvMarksOK
 <2>4. k[1][2] = d BY <1>7 DEF OvGoss
 <2> QED BY <2>1, <2>2, <2>3, <2>4 DEF OvMsgOK
<1>8. \A k \in OvConns : \A m \in MsgsIn(ov_net', k) :
        m \in MsgsIn(ov_net, k) \/ (OvMsgOK(ov_lay, ov_site, m, k) /\ m.type # "CreateTsAck") BY <1>6, <1>7
<1> QED BY <1>2, <1>3, <1>4, <1>6, <1>8, OvGossStep

(* The waits of the two loops. *)
LEMMA OvLoopInv ==
  ASSUME OvInv, NEW d \in OvDcs, OvAggregateLoop(d) \/ OvGossipLoop(d), ov_lay' = ov_lay
  PROVE OvInv'
<1>1. ov_goss[d] \in OvGossRec(d) /\ OvMarksOK(ov_goss[d], d) /\ DOMAIN ov_goss = OvDcs BY OvGossHas
<1>2. /\ ov_net' = ov_net /\ ov_site' = ov_site /\ ov_coord' = ov_coord
      /\ \/ ov_goss' = [ov_goss EXCEPT ![d] = [ov_goss[d] EXCEPT !.agg = "ready", !.agg_flag = FALSE]]
         \/ ov_goss' = [ov_goss EXCEPT ![d] = [ov_goss[d] EXCEPT !.gos = "ready", !.gos_flag = FALSE]]
  BY <1>1 DEF OvAggregateLoop, OvGossipLoop
<1>3. PICK g : /\ ov_goss' = [ov_goss EXCEPT ![d] = g]
               /\ \/ g = [ov_goss[d] EXCEPT !.agg = "ready", !.agg_flag = FALSE]
                  \/ g = [ov_goss[d] EXCEPT !.gos = "ready", !.gos_flag = FALSE] BY <1>2
<1>4. g \in OvGossRec(d) /\ g.site_wm = ov_goss[d].site_wm /\ g.dc_wm = ov_goss[d].dc_wm /\ g.vw = ov_goss[d].vw
  BY <1>1, <1>3 DEF OvGossRec, OvLoop
<1>5. OvMarksOK(g, d) BY <1>1, <1>4 DEF OvMarksOK
<1>6. OvNet(ov_net') /\ \A k \in OvConns : MsgsIn(ov_net', k) = MsgsIn(ov_net, k) BY <1>2 DEF OvInv, OvTypeOK, OvNet
<1> QED BY <1>2, <1>3, <1>4, <1>5, <1>6, OvGossStep

LEMMA OvPublishAckInv ==
  ASSUME OvInv, NEW c \in DOMAIN ov_net, OvPublishAck(c), ov_lay' = ov_lay
  PROVE OvInv'
<1>1. c \in OvConns /\ OvMsgOK(ov_lay, ov_site, Head(ov_net[c]), c) /\ OvNet(ov_net) /\ ov_net[c] # <<>>
      /\ Head(ov_net[c]).type = "PublishAck" BY OvHead DEF OvInv, OvPublishAck, Receives
<1>2. PICK s \in OvSites, d \in OvDcs : c = <<OvSite(s), OvGoss(d)>> BY <1>1 DEF OvMsgOK, OvReports
<1>3. c[1][2] = s /\ c[2][2] = d BY <1>2 DEF OvGoss, OvSite
<1> DEFINE w == Head(ov_net[c]).ts
           g == ov_goss[d]
           wm == [g.site_wm EXCEPT ![s] = OvRaise(@, w)]
           acks == g.agg_acks \cup {s}
           h == [g EXCEPT !.site_wm = wm, !.agg_acks = acks]
           hh == [g EXCEPT !.site_wm = wm, !.agg_acks = acks, !.agg_flag = TRUE, !.dc_wm[d] = OvLeast(Range(wm))]
<1>4. /\ ov_goss' = [ov_goss EXCEPT ![d] = IF acks # DOMAIN wm THEN h ELSE hh]
      /\ ov_net' = OvTaken(c) /\ ov_site' = ov_site /\ ov_coord' = ov_coord BY <1>3 DEF OvPublishAck
<1>5. g \in OvGossRec(d) /\ OvMarksOK(g, d) BY OvGossHas
<1>6. g.site_wm \in [OvDcSites(d) -> OvTs] /\ g.dc_wm \in [OvDcs -> OvTs] /\ acks \in SUBSET OvSites
  BY <1>5 DEF OvGossRec
<1>7. w \in OvTs /\ OvFinal(ov_site, w, s) BY <1>1, <1>3 DEF OvMsgOK
<1> HIDE DEF w, g
<1>8. wm \in [OvDcSites(d) -> OvTs] /\ \A u \in OvDcSites(d) : OvFinal(ov_site, wm[u], u)
 <2>1. ASSUME NEW u \in OvDcSites(d) PROVE wm[u] \in OvTs /\ OvFinal(ov_site, wm[u], u)
  <3>1. g.site_wm[u] \in OvTs /\ OvFinal(ov_site, g.site_wm[u], u) BY <1>5, <1>6 DEF OvMarksOK
  <3>2. CASE u = s
   <4>1. wm[u] = OvRaise(g.site_wm[u], w) BY <1>6, <3>2
   <4> QED BY <1>7, <3>1, <3>2, <4>1, OvRaised
  <3>3. CASE u # s
   <4>1. wm[u] = g.site_wm[u] BY <1>6, <3>3
   <4> QED BY <3>1, <4>1
  <3> QED BY <3>2, <3>3
 <2>2. wm = [u \in OvDcSites(d) |-> wm[u]] BY <1>6
 <2> HIDE DEF wm
 <2> QED BY <2>1, <2>2
<1> HIDE DEF wm, acks
<1>9. PICK f : /\ ov_goss' = [ov_goss EXCEPT ![d] = f]
               /\ f \in OvGossRec(d) /\ f.site_wm = wm /\ f.vw = g.vw /\ DOMAIN f.dc_wm = OvDcs
               /\ \A e \in OvDcs : e # d => f.dc_wm[e] = g.dc_wm[e]
               /\ f.dc_wm[d] = g.dc_wm[d] \/ OvFinalDc(ov_site, f.dc_wm[d], d)
 <2>1. CASE acks # DOMAIN wm
  <3>1. h \in OvGossRec(d) /\ h.site_wm = wm /\ h.vw = g.vw /\ h.dc_wm = g.dc_wm BY <1>5, <1>6, <1>8 DEF OvGossRec
  <3>2. ov_goss' = [ov_goss EXCEPT ![d] = h] BY <1>4, <2>1
  <3> HIDE DEF h
  <3> QED BY <1>6, <3>1, <3>2
 <2>2. CASE acks = DOMAIN wm
  <3> DEFINE T == Range(wm)
             v == OvLeast(T)
             dc == [g.dc_wm EXCEPT ![d] = v]
  <3>1. T \in SUBSET OvTs /\ \A u \in OvDcSites(d) : wm[u] \in T BY <1>8 DEF Range
  <3>2. T # {}
   <4>1. s \in DOMAIN wm BY <2>2 DEF acks
   <4> QED BY <4>1 DEF Range
  <3>3. v \in T /\ \A b \in T : ~OvLess(b, v)
   <4> HIDE DEF T
   <4> QED BY <3>1, <3>2, OvLeastIsLeast
  <3> HIDE DEF T, v
  <3>4. v \in OvTs BY <3>1, <3>3
  <3>5. OvFinalDc(ov_site, v, d)
   <4> SUFFICES ASSUME NEW u \in OvDcSites(d) PROVE OvFinal(ov_site, v, u) BY DEF OvFinalDc
   <4>1. u \in OvSites /\ wm[u] \in OvTs /\ OvFinal(ov_site, wm[u], u) /\ ~OvLess(wm[u], v)
     BY <1>8, <3>1, <3>3 DEF OvDcSites
   <4>2. OvTypeOK BY DEF OvInv
   <4> QED BY <3>4, <4>1, <4>2, OvBelow
  <3>6. dc \in [OvDcs -> OvTs] /\ dc[d] = v /\ \A e \in OvDcs : e # d => dc[e] = g.dc_wm[e] BY <1>6, <3>4
  <3>7. hh = [g EXCEPT !.site_wm = wm, !.agg_acks = acks, !.agg_flag = TRUE, !.dc_wm = dc] BY <1>5 DEF OvGossRec, v, T
  <3> HIDE DEF dc
  <3>8. hh \in OvGossRec(d) /\ hh.site_wm = wm /\ hh.vw = g.vw /\ hh.dc_wm = dc
   <4> HIDE DEF hh
   <4>1. hh \in OvGossRec(d) BY <1>5, <1>6, <1>8, <3>6, <3>7 DEF OvGossRec
   <4>2. hh.site_wm = wm /\ hh.vw = g.vw /\ hh.dc_wm = dc BY <1>5, <3>7 DEF OvGossRec
   <4> QED BY <4>1, <4>2
  <3>9. ov_goss' = [ov_goss EXCEPT ![d] = hh] BY <1>4, <2>2
  <3> HIDE DEF hh
  <3> QED BY <3>5, <3>6, <3>8, <3>9
 <2> QED BY <2>1, <2>2
<1>10. OvMarksOK(f, d) BY <1>5, <1>8, <1>9 DEF OvMarksOK
<1>11. OvNet(ov_net') /\ \A k \in OvConns : MsgsIn(ov_net', k) \subseteq MsgsIn(ov_net, k)
  BY <1>1, <1>4, OvTook DEF OvTaken
<1>12. ov_site' = ov_site /\ ov_coord' = ov_coord BY <1>4
<1> QED BY <1>9, <1>10, <1>11, <1>12, OvGossStep

LEMMA OvOnExchangeInv ==
  ASSUME OvInv, NEW c \in DOMAIN ov_net, OvOnExchange(c), ov_lay' = ov_lay
  PROVE OvInv'
<1>1. c \in OvConns /\ OvMsgOK(ov_lay, ov_site, Head(ov_net[c]), c) /\ OvNet(ov_net) /\ ov_net[c] # <<>>
      /\ Head(ov_net[c]).type = "Exchange" BY OvHead DEF OvInv, OvOnExchange, Receives
<1>2. PICK e \in OvDcs, d \in OvDcs : c = <<OvGoss(e), OvGoss(d)>> BY <1>1 DEF OvMsgOK, OvGossips
<1>3. c[1][2] = e /\ c[2][2] = d /\ c[1] = OvGoss(e) /\ c[2] = OvGoss(d) BY <1>2 DEF OvGoss
<1> DEFINE w == Head(ov_net[c]).ts
           g == ov_goss[d]
           wm == [g.dc_wm EXCEPT ![e] = OvRaise(@, w)]
           h == [g EXCEPT !.dc_wm = wm]
           m == [type |-> "ExchangeAck", ts |-> g.dc_wm[d]]
<1>4. g \in OvGossRec(d) /\ OvMarksOK(g, d) /\ DOMAIN ov_goss = OvDcs BY OvGossHas
<1>5. ov_goss' = [ov_goss EXCEPT ![d] = h] /\ ov_net' = OvReply(c, m) /\ ov_site' = ov_site /\ ov_coord' = ov_coord
  BY <1>3, <1>4 DEF OvOnExchange
<1>6. g.dc_wm \in [OvDcs -> OvTs] BY <1>4 DEF OvGossRec
<1>7. w \in OvTs /\ OvFinalDc(ov_site, w, e) BY <1>1, <1>3 DEF OvMsgOK
<1> HIDE DEF w, g
<1>8. wm \in [OvDcs -> OvTs] /\ \A f \in OvDcs : OvFinalDc(ov_site, wm[f], f)
 <2>1. \A f \in OvDcs : g.dc_wm[f] \in OvTs /\ OvFinalDc(ov_site, g.dc_wm[f], f) BY <1>4, <1>6 DEF OvMarksOK
 <2>2. OvRaise(g.dc_wm[e], w) \in OvTs /\ OvFinalDc(ov_site, OvRaise(g.dc_wm[e], w), e) BY <1>7, <2>1, OvRaised
 <2> QED BY <1>6, <2>1, <2>2
<1> HIDE DEF wm
<1>9. h \in OvGossRec(d) /\ h.site_wm = g.site_wm /\ h.vw = g.vw /\ h.dc_wm = wm BY <1>4, <1>8 DEF OvGossRec
<1> HIDE DEF h
<1>10. OvMarksOK(h, d) BY <1>4, <1>8, <1>9 DEF OvMarksOK
<1>11. /\ OvNet(ov_net')
       /\ \A k \in OvConns : \A x \in MsgsIn(ov_net', k) :
            x \in MsgsIn(ov_net, k) \/ (k[1] = c[2] /\ k[2] = c[1] /\ x = m) BY <1>1, <1>5, OvReplied
<1>12. ASSUME NEW k \in OvConns, k[1] = c[2], k[2] = c[1] PROVE OvMsgOK(ov_lay, ov_site, m, k)
 <2>1. OvGossips(k) /\ k[1][2] = d BY <1>3, <1>12, OvKinds
 <2>2. g.dc_wm[d] \in OvTs /\ OvFinalDc(ov_site, g.dc_wm[d], d) BY <1>4, <1>6 DEF OvMarksOK
 <2> QED BY <2>1, <2>2 DEF OvMsgOK
<1>13. \A k \in OvConns : \A x \in MsgsIn(ov_net', k) :
         x \in MsgsIn(ov_net, k) \/ (OvMsgOK(ov_lay, ov_site, x, k) /\ x.type # "CreateTsAck") BY <1>11, <1>12
<1> QED BY <1>5, <1>9, <1>10, <1>11, <1>13, OvGossStep

LEMMA OvExchangeAckInv ==
  ASSUME OvInv, NEW c \in DOMAIN ov_net, OvExchangeAck(c), ov_lay' = ov_lay
  PROVE OvInv'
<1>1. c \in OvConns /\ OvMsgOK(ov_lay, ov_site, Head(ov_net[c]), c) /\ OvNet(ov_net) /\ ov_net[c] # <<>>
      /\ Head(ov_net[c]).type = "ExchangeAck" BY OvHead DEF OvInv, OvExchangeAck, Receives
<1>2. PICK e \in OvDcs, d \in OvDcs : c = <<OvGoss(e), OvGoss(d)>> BY <1>1 DEF OvMsgOK, OvGossips
<1>3. c[1][2] = e /\ c[2][2] = d BY <1>2 DEF OvGoss
<1> DEFINE w == Head(ov_net[c]).ts
           g == ov_goss[d]
           wm == [g.dc_wm EXCEPT ![e] = OvRaise(@, w)]
           acks == g.gos_acks \cup {e}
           v == OvLeast(Range(wm))
           h == [g EXCEPT !.dc_wm = wm, !.gos_acks = acks]
           hh == [g EXCEPT !.dc_wm = wm, !.gos_acks = acks, !.gos_flag = TRUE, !.vw = v]
<1>4. /\ ov_goss' = [ov_goss EXCEPT ![d] = IF acks # OvDcs \ {d} THEN h ELSE hh]
      /\ ov_net' = OvTaken(c) /\ ov_site' = ov_site /\ ov_coord' = ov_coord BY <1>3 DEF OvExchangeAck
<1>5. g \in OvGossRec(d) /\ OvMarksOK(g, d) BY OvGossHas
<1>6. g.dc_wm \in [OvDcs -> OvTs] /\ acks \in SUBSET OvDcs BY <1>5 DEF OvGossRec
<1>7. w \in OvTs /\ OvFinalDc(ov_site, w, e) BY <1>1, <1>3 DEF OvMsgOK
<1> HIDE DEF w, g
<1>8. wm \in [OvDcs -> OvTs] /\ \A f \in OvDcs : OvFinalDc(ov_site, wm[f], f)
 <2>1. \A f \in OvDcs : g.dc_wm[f] \in OvTs /\ OvFinalDc(ov_site, g.dc_wm[f], f) BY <1>5, <1>6 DEF OvMarksOK
 <2>2. OvRaise(g.dc_wm[e], w) \in OvTs /\ OvFinalDc(ov_site, OvRaise(g.dc_wm[e], w), e) BY <1>7, <2>1, OvRaised
 <2> QED BY <1>6, <2>1, <2>2
<1> HIDE DEF wm, acks
<1>9. v \in OvTs /\ OvFinalAll(ov_site, v)
 <2> DEFINE T == Range(wm)
 <2>1. T \in SUBSET OvTs /\ \A f \in OvDcs : wm[f] \in T BY <1>8 DEF Range
 <2>2. T # {} BY <2>1
 <2> HIDE DEF T
 <2>3. OvLeast(T) \in T /\ \A b \in T : ~OvLess(b, OvLeast(T)) BY <2>1, <2>2, OvLeastIsLeast
 <2>4. v \in T /\ \A b \in T : ~OvLess(b, v) BY <2>3 DEF T
 <2> HIDE DEF v
 <2>5. ASSUME NEW u \in OvSites PROVE OvFinal(ov_site, v, u)
  <3> DEFINE f == OvDcOf[u]
  <3>1. f \in OvDcs /\ u \in OvDcSites(f) BY OvAssumption DEF OvDcSites
  <3>2. wm[f] \in OvTs /\ OvFinal(ov_site, wm[f], u) /\ ~OvLess(wm[f], v) /\ v \in OvTs /\ OvTypeOK
    BY <1>8, <2>1, <2>4, <3>1 DEF OvFinalDc, OvInv
  <3> QED BY <3>2, OvBelow
 <2> QED BY <2>1, <2>4, <2>5 DEF OvFinalAll
<1> HIDE DEF v
<1>10. PICK f : /\ ov_goss' = [ov_goss EXCEPT ![d] = f]
                /\ f \in OvGossRec(d) /\ f.site_wm = g.site_wm /\ f.dc_wm = wm
                /\ f.vw = g.vw \/ f.vw = v
 <2>1. h \in OvGossRec(d) /\ h.site_wm = g.site_wm /\ h.dc_wm = wm /\ h.vw = g.vw BY <1>5, <1>6, <1>8 DEF OvGossRec
 <2>2. hh \in OvGossRec(d) /\ hh.site_wm = g.site_wm /\ hh.dc_wm = wm /\ hh.vw = v
  <3>1. hh \in OvGossRec(d) BY <1>5, <1>6, <1>8, <1>9 DEF OvGossRec
  <3>2. hh.site_wm = g.site_wm /\ hh.dc_wm = wm /\ hh.vw = v BY <1>5 DEF OvGossRec
  <3> QED BY <3>1, <3>2
 <2>3. ov_goss' = [ov_goss EXCEPT ![d] = h] \/ ov_goss' = [ov_goss EXCEPT ![d] = hh] BY <1>4
 <2> HIDE DEF h, hh
 <2> QED BY <2>1, <2>2, <2>3
<1>11. OvMarksOK(f, d) BY <1>5, <1>8, <1>9, <1>10 DEF OvMarksOK
<1>12. OvNet(ov_net') /\ \A k \in OvConns : MsgsIn(ov_net', k) \subseteq MsgsIn(ov_net, k)
  BY <1>1, <1>4, OvTook DEF OvTaken
<1>13. ov_site' = ov_site /\ ov_coord' = ov_coord BY <1>4
<1> QED BY <1>10, <1>11, <1>12, <1>13, OvGossStep

-----
(* The coordinators. *)

LEMMA OvGotoInv ==
  ASSUME OvInv, ov_lay' = ov_lay, NEW t \in OvTxns, NEW x \in OvCoordRec, NEW ph \in OvPhase, NEW net, NEW calls,
         OvGoto(t, x, ph, net, calls),
         OvNet(net), \A k \in OvConns : MsgsIn(net, k) \subseteq MsgsIn(ov_net, k),
         \/ x.ts = ov_coord[t].ts
         \/ /\ OvGiven(ov_site, x.ts) /\ OvHeld(ov_lay, ov_site, x.ts, t)
            /\ OvUses(ov_coord, ov_net, x.ts, t),
         \A par \in x.stores : \E r \in OvSites : ov_lay.par[r] = par /\ ov_site[r].tx[t].dispatched,
         \A e \in calls : \A k \in OvConns :
           k[1] = OvCoord(t) /\ k[2] \in e.to
             => OvMsgOK(ov_lay, ov_site, e.msg, k) /\ e.msg.type # "CreateTsAck"
  PROVE OvInv'
<1> DEFINE y == [x EXCEPT !.phase = ph]
<1>1. OvTypeOK /\ OvSitesGrow /\ ov_site' = ov_site /\ ov_goss' = ov_goss
      /\ ov_coord' = [ov_coord EXCEPT ![t] = y] /\ ov_net' = Calls(net, OvCoord(t), calls) BY OvStill DEF OvInv, OvGoto
<1>2. y \in OvCoordRec /\ y.ts = x.ts /\ y.stores = x.stores BY DEF OvCoordRec
<1> HIDE DEF y
<1>3. ov_coord' \in [OvTxns -> OvCoordRec] /\ ov_coord'[t] = y /\ \A u \in OvTxns : u # t => ov_coord'[u] = ov_coord[u]
  BY <1>1, <1>2 DEF OvTypeOK
<1>4. /\ OvNet(ov_net')
      /\ \A k \in OvConns : \A m \in MsgsIn(ov_net', k) :
           m \in MsgsIn(net, k) \/ (k[1] = OvCoord(t) /\ \E e \in calls : k[2] \in e.to /\ m = e.msg) BY <1>1, OvSent
<1>5. \A k \in OvConns : \A m \in MsgsIn(ov_net', k) :
        m \in MsgsIn(ov_net, k) \/ (OvMsgOK(ov_lay, ov_site, m, k) /\ m.type # "CreateTsAck") BY <1>4
<1>6. OvTypeOK' BY <1>1, <1>3, <1>4 DEF OvTypeOK, OvNet
<1>7. OvSitesOK' BY <1>1, OvKeepSites DEF OvInv
<1>8. OvGossOK' BY <1>1 DEF OvInv, OvGossOK
<1>9. OvCoordOK'
 <2>1. ASSUME NEW u \in OvTxns
       PROVE  /\ \/ ov_coord'[u].ts = OvZero
                 \/ OvGiven(ov_site, ov_coord'[u].ts) /\ OvHeld(ov_lay, ov_site, ov_coord'[u].ts, u)
              /\ \A par \in ov_coord'[u].stores :
                   \E r \in OvSites : ov_lay.par[r] = par /\ ov_site[r].tx[u].dispatched
  <3>1. CASE u = t BY <1>2, <1>3, <3>1 DEF OvInv, OvCoordOK
  <3>2. CASE u # t BY <1>3, <3>2 DEF OvInv, OvCoordOK
  <3> QED BY <3>1, <3>2
 <2> QED BY <1>1, <2>1 DEF OvCoordOK
<1>10. OvMsgsOK' BY <1>1, <1>5, OvKeepMsgs DEF OvInv
<1>11. OvOneEach'
 <2>1. ASSUME NEW ts \in OvTs, NEW u \in OvTxns, OvUses(ov_coord', ov_net', ts, u) PROVE OvUses(ov_coord, ov_net, ts, u)
  <3>1. CASE ov_coord'[u].ts = ts BY <1>2, <1>3, <3>1 DEF OvUses
  <3>2. CASE ov_coord'[u].ts # ts BY <1>5, <2>1, <3>2 DEF OvUses
  <3> QED BY <3>1, <3>2
 <2> QED BY <2>1, OvKeepOnes DEF OvInv
<1> QED BY <1>6, <1>7, <1>8, <1>9, <1>10, <1>11 DEF OvInv

(* The record of a coordinator. *)
LEMMA OvCoordHas ==
  ASSUME OvInv, NEW t \in OvTxns
  PROVE  /\ ov_coord[t] \in OvCoordRec
         /\ ov_coord[t].ts \in OvTs
         /\ \A par \in ov_coord[t].stores :
              \E r \in OvSites : ov_lay.par[r] = par /\ ov_site[r].tx[t].dispatched
  BY DEF OvInv, OvTypeOK, OvCoordOK, OvCoordRec

(* The calls of a coordinator may be made. *)
LEMMA OvDispatchOK ==
  ASSUME NEW t \in OvTxns, NEW x, NEW e \in OvDispatch(t, x), NEW k \in OvConns, k[1] = OvCoord(t)
  PROVE OvMsgOK(ov_lay, ov_site, e.msg, k) /\ e.msg.type # "CreateTsAck"
<1>1. OvCallsSite(k) BY OvKinds
<1>2. OvReady(t, x) \in OvPieceSet BY DEF OvReady, OvPieces, OvPieceSet
<1>3. PICK P \in OvPieceSet : e.msg = [type |-> "Dispatch", pieces |-> P]
 <2> DEFINE ready == OvReady(t, x)
            site(par) == CHOOSE s \in OvReplicas(par) : OvReplicas(par) \cap OvNear[t] = {} \/ s \in OvNear[t]
 <2>1. PICK par : e = To({OvSite(site(par))}, [type |-> "Dispatch", pieces |-> ready \cap OvPiecesAt(t, par)])
   BY DEF OvDispatch
 <2>2. ready \cap OvPiecesAt(t, par) \in OvPieceSet BY <1>2 DEF OvPieceSet
 <2> HIDE DEF ready, site
 <2> QED BY <2>1, <2>2 DEF To
<1> QED BY <1>1, <1>3 DEF OvMsgOK

LEMMA OvStoreOK ==
  ASSUME NEW t \in OvTxns, NEW ts \in OvTs, NEW e \in OvStore(t, ts), NEW k \in OvConns, k[1] = OvCoord(t)
  PROVE OvMsgOK(ov_lay, ov_site, e.msg, k) /\ e.msg.type # "CreateTsAck"
<1>1. OvCallsSite(k) BY OvKinds
<1>2. PICK P \in OvPieceSet : e.msg = [type |-> "Store", ts |-> ts, pieces |-> P]
 <2>1. PICK par : e = To({OvSite(s) : s \in OvStoreTo(t)[par]},
                         [type |-> "Store", ts |-> ts, pieces |-> OvPiecesAt(t, par)]) BY DEF OvStore
 <2>2. OvPiecesAt(t, par) \in OvPieceSet BY DEF OvPiecesAt, OvPieces, OvPieceSet
 <2> QED BY <2>1, <2>2 DEF To
<1> QED BY <1>1, <1>2 DEF OvMsgOK

LEMMA OvCreateTsInv ==
  ASSUME OvInv, NEW t \in OvTxns, OvCreateTs(t), ov_lay' = ov_lay
  PROVE OvInv'
<1>1. PICK s \in OvNear[t] :
        OvGoto(t, ov_coord[t], "OV_CREATED_TS", ov_net, {To({OvSite(s)}, [type |-> "CreateTs"])}) BY DEF OvCreateTs
<1> DEFINE calls == {To({OvSite(s)}, [type |-> "CreateTs"])}
<1>2. ASSUME NEW e \in calls, NEW k \in OvConns, k[1] = OvCoord(t)
      PROVE OvMsgOK(ov_lay, ov_site, e.msg, k) /\ e.msg.type # "CreateTsAck"
 <2>1. OvCallsSite(k) BY <1>2, OvKinds
 <2>2. e.msg = [type |-> "CreateTs"] BY DEF To
 <2> QED BY <2>1, <2>2 DEF OvMsgOK
<1>3. OvGoto(t, ov_coord[t], "OV_CREATED_TS", ov_net, calls) BY <1>1
<1> HIDE DEF calls
<1>4. OvNet(ov_net) BY DEF OvInv, OvTypeOK, OvNet
<1>5. /\ ov_coord[t] \in OvCoordRec
      /\ \A par \in ov_coord[t].stores :
           \E r \in OvSites : ov_lay.par[r] = par /\ ov_site[r].tx[t].dispatched BY OvCoordHas
<1>6. "OV_CREATED_TS" \in OvPhase BY DEF OvPhase
<1> QED BY <1>2, <1>3, <1>4, <1>5, <1>6, OvGotoInv

(* An acknowledgement that a coordinator works on. *)
LEMMA OvAck ==
  ASSUME OvInv, NEW c \in DOMAIN ov_net, ov_net[c] # <<>>,
         Head(ov_net[c]).type \in {"CreateTsAck", "DispatchAck", "StoreAck", "StoredRemoveTsAck", "ExecuteAck"}
  PROVE  /\ c \in OvConns /\ OvMsgOK(ov_lay, ov_site, Head(ov_net[c]), c)
         /\ Head(ov_net[c]) \in MsgsIn(ov_net, c)
         /\ OvNet(OvTaken(c)) /\ \A k \in OvConns : MsgsIn(OvTaken(c), k) \subseteq MsgsIn(ov_net, k)
         /\ c[1][2] \in OvSites /\ c[2][2] \in OvTxns /\ c[2] = OvCoord(c[2][2])
<1>1. c \in OvConns /\ OvMsgOK(ov_lay, ov_site, Head(ov_net[c]), c) /\ OvNet(ov_net)
      /\ Head(ov_net[c]) \in MsgsIn(ov_net, c) BY OvHead DEF OvInv
<1>2. PICK s \in OvSites, t \in OvTxns : c = <<OvSite(s), OvCoord(t)>> BY <1>1 DEF OvMsgOK, OvAnswersCoord
<1>3. c[1][2] = s /\ c[2][2] = t /\ c[2] = OvCoord(t) BY <1>2 DEF OvCoord, OvSite
<1>4. OvNet(OvTaken(c)) /\ \A k \in OvConns : MsgsIn(OvTaken(c), k) \subseteq MsgsIn(ov_net, k)
  BY <1>1, OvTook DEF OvTaken
<1> QED BY <1>1, <1>3, <1>4

LEMMA OvCreateTsAckInv ==
  ASSUME OvInv, NEW c \in DOMAIN ov_net, OvCreateTsAck(c), ov_lay' = ov_lay
  PROVE OvInv'
<1> DEFINE m == Head(ov_net[c])
           t == c[2][2]
           x == [ov_coord[t] EXCEPT !.ts = m.ts]
           y == [x EXCEPT !.out = OvReady(t, x)]
           net == OvTaken(c)
           calls == OvDispatch(t, x)
<1>1. ov_net[c] # <<>> /\ m.type = "CreateTsAck" BY DEF OvCreateTsAck, Receives
<1>2. /\ c \in OvConns /\ OvMsgOK(ov_lay, ov_site, m, c) /\ m \in MsgsIn(ov_net, c)
      /\ OvNet(net) /\ \A k \in OvConns : MsgsIn(net, k) \subseteq MsgsIn(ov_net, k)
      /\ t \in OvTxns /\ c[2] = OvCoord(t) BY <1>1, OvAck
<1>3. m.ts \in OvTs /\ OvGiven(ov_site, m.ts) /\ OvHeld(ov_lay, ov_site, m.ts, t) BY <1>1, <1>2 DEF OvMsgOK
<1>4. OvUses(ov_coord, ov_net, m.ts, t) BY <1>1, <1>2 DEF OvUses
<1>5. /\ ov_coord[t] \in OvCoordRec
      /\ \A par \in ov_coord[t].stores :
           \E r \in OvSites : ov_lay.par[r] = par /\ ov_site[r].tx[t].dispatched BY <1>2, OvCoordHas
<1>6. OvReady(t, x) \in OvPieceSet BY DEF OvReady, OvPieces, OvPieceSet
<1>7. OvGoto(t, y, "OV_DISPATHED", net, calls) BY DEF OvCreateTsAck
<1>8. x \in OvCoordRec /\ x.ts = m.ts /\ x.stores = ov_coord[t].stores BY <1>3, <1>5 DEF OvCoordRec
<1> HIDE DEF x, m, t, net
<1>9. y \in OvCoordRec /\ y.ts = m.ts /\ y.stores = ov_coord[t].stores BY <1>6, <1>8 DEF OvCoordRec
<1>10. \A e \in calls : \A k \in OvConns :
         k[1] = OvCoord(t) => OvMsgOK(ov_lay, ov_site, e.msg, k) /\ e.msg.type # "CreateTsAck" BY <1>2, OvDispatchOK
<1>11. "OV_DISPATHED" \in OvPhase BY DEF OvPhase
<1> HIDE DEF y, calls
<1> QED BY <1>2, <1>3, <1>4, <1>5, <1>7, <1>9, <1>10, <1>11, OvGotoInv

LEMMA OvDispatchAckInv ==
  ASSUME OvInv, NEW c \in DOMAIN ov_net, OvDispatchAck(c), ov_lay' = ov_lay
  PROVE OvInv'
<1> DEFINE m == Head(ov_net[c])
           t == c[2][2]
           x == [ov_coord[t] EXCEPT !.acked = @ \cup m.pieces]
           y == [x EXCEPT !.out = @ \cup OvReady(t, x)]
           net == OvTaken(c)
<1>1. ov_net[c] # <<>> /\ m.type = "DispatchAck" BY DEF OvDispatchAck, Receives
<1>2. /\ OvMsgOK(ov_lay, ov_site, m, c)
      /\ OvNet(net) /\ \A k \in OvConns : MsgsIn(net, k) \subseteq MsgsIn(ov_net, k)
      /\ t \in OvTxns BY <1>1, OvAck
<1>3. m.pieces \in OvPieceSet BY <1>1, <1>2 DEF OvMsgOK
<1>4. /\ ov_coord[t] \in OvCoordRec
      /\ \A par \in ov_coord[t].stores :
           \E r \in OvSites : ov_lay.par[r] = par /\ ov_site[r].tx[t].dispatched BY <1>2, OvCoordHas
<1>5. OvReady(t, x) \in OvPieceSet BY DEF OvReady, OvPieces, OvPieceSet
<1>6. \/ OvGoto(t, y, "OV_DISPATHED", net, OvDispatch(t, x))
      \/ OvGoto(t, x, "OV_STORED", net, OvStore(t, x.ts))
      \/ OvGoto(t, x, x.phase, net, {}) BY DEF OvDispatchAck
<1>7. x \in OvCoordRec /\ x.ts = ov_coord[t].ts /\ x.stores = ov_coord[t].stores
 <2>1. ov_coord[t].acked \cup m.pieces \in OvPieceSet BY <1>3, <1>4 DEF OvCoordRec, OvPieceSet
 <2> QED BY <1>4, <2>1 DEF OvCoordRec
<1> HIDE DEF x, m, t, net
<1>8. y \in OvCoordRec /\ y.ts = ov_coord[t].ts /\ y.stores = ov_coord[t].stores
 <2>1. x.out \cup OvReady(t, x) \in OvPieceSet BY <1>5, <1>7 DEF OvCoordRec, OvPieceSet
 <2> QED BY <1>7, <2>1 DEF OvCoordRec
<1> HIDE DEF y
<1>9. x.ts \in OvTs /\ x.phase \in OvPhase /\ "OV_DISPATHED" \in OvPhase /\ "OV_STORED" \in OvPhase
  BY <1>7 DEF OvCoordRec, OvPhase
<1>10. CASE OvGoto(t, y, "OV_DISPATHED", net, OvDispatch(t, x))
 <2>1. \A e \in OvDispatch(t, x) : \A k \in OvConns :
         k[1] = OvCoord(t) => OvMsgOK(ov_lay, ov_site, e.msg, k) /\ e.msg.type # "CreateTsAck" BY <1>2, OvDispatchOK
 <2> QED BY <1>2, <1>4, <1>8, <1>9, <1>10, <2>1, OvGotoInv
<1>11. CASE OvGoto(t, x, "OV_STORED", net, OvStore(t, x.ts))
 <2>1. \A e \in OvStore(t, x.ts) : \A k \in OvConns :
         k[1] = OvCoord(t) => OvMsgOK(ov_lay, ov_site, e.msg, k) /\ e.msg.type # "CreateTsAck" BY <1>2, <1>9, OvStoreOK
 <2> QED BY <1>2, <1>4, <1>7, <1>9, <1>11, <2>1, OvGotoInv
<1>12. CASE OvGoto(t, x, x.phase, net, {}) BY <1>2, <1>4, <1>7, <1>9, <1>12, OvGotoInv
<1> QED BY <1>6, <1>10, <1>11, <1>12

(* StoreACK: the timestamp is given back when every partition has the transaction. *)
LEMMA OvStoreACKInv ==
  ASSUME OvInv, NEW c \in DOMAIN ov_net, OvStoreACK(c), ov_lay' = ov_lay
  PROVE OvInv'
<1> DEFINE m == Head(ov_net[c])
           t == c[2][2]
           x == [ov_coord[t] EXCEPT !.stores = @ \cup {m.par}]
           net == OvTaken(c)
           calls == {To({OvSite(x.ts[2])}, [type |-> "StoredRemoveTs", ts |-> x.ts])}
<1>1. ov_net[c] # <<>> /\ m.type = "StoreAck" BY DEF OvStoreACK, Receives
<1>2. /\ OvMsgOK(ov_lay, ov_site, m, c)
      /\ OvNet(net) /\ \A k \in OvConns : MsgsIn(net, k) \subseteq MsgsIn(ov_net, k)
      /\ t \in OvTxns /\ c[1][2] \in OvSites BY <1>1, OvAck
<1>3. m.par \in OvParSet /\ m.par = ov_lay.par[c[1][2]] /\ ov_site[c[1][2]].tx[t].dispatched BY <1>1, <1>2 DEF OvMsgOK
<1>4. /\ ov_coord[t] \in OvCoordRec
      /\ \A par \in ov_coord[t].stores :
           \E r \in OvSites : ov_lay.par[r] = par /\ ov_site[r].tx[t].dispatched BY <1>2, OvCoordHas
<1>5. \/ OvGoto(t, ov_coord[t], ov_coord[t].phase, net, {})
      \/ OvTxnStored(t, x.stores) /\ OvGoto(t, x, "OV_EXECUTE", net, calls)
      \/ OvGoto(t, x, x.phase, net, {}) BY DEF OvStoreACK
<1>6. x \in OvCoordRec /\ x.ts = ov_coord[t].ts /\ x.stores = ov_coord[t].stores \cup {m.par}
 <2>1. ov_coord[t].stores \cup {m.par} \in SUBSET OvParSet BY <1>3, <1>4 DEF OvCoordRec
 <2> QED BY <1>4, <2>1 DEF OvCoordRec
<1> HIDE DEF x, net
<1>7. \A par \in x.stores : \E r \in OvSites : ov_lay.par[r] = par /\ ov_site[r].tx[t].dispatched
  BY <1>2, <1>3, <1>4, <1>6
<1> HIDE DEF m, t
<1>8. x.phase \in OvPhase /\ ov_coord[t].phase \in OvPhase /\ "OV_EXECUTE" \in OvPhase
  BY <1>4, <1>6 DEF OvCoordRec, OvPhase
<1>9. CASE OvGoto(t, ov_coord[t], ov_coord[t].phase, net, {}) BY <1>2, <1>4, <1>8, <1>9, OvGotoInv
<1>10. CASE OvTxnStored(t, x.stores) /\ OvGoto(t, x, "OV_EXECUTE", net, calls)
 <2>1. OvDone(ov_lay, ov_site, t) BY <1>7, <1>10 DEF OvDone, OvTxnStored
 <2>2. ASSUME NEW e \in calls, NEW k \in OvConns, k[1] = OvCoord(t)
       PROVE OvMsgOK(ov_lay, ov_site, e.msg, k) /\ e.msg.type # "CreateTsAck"
  <3>1. OvCallsSite(k) /\ k[1][2] = t BY <2>2, OvKinds DEF OvCoord
  <3>2. e.msg = [type |-> "StoredRemoveTs", ts |-> x.ts] BY DEF To
  <3> QED BY <2>1, <3>1, <3>2 DEF OvMsgOK
 <2> HIDE DEF calls
 <2> QED BY <1>2, <1>6, <1>7, <1>8, <1>10, <2>2, OvGotoInv
<1>11. CASE OvGoto(t, x, x.phase, net, {}) BY <1>2, <1>6, <1>7, <1>8, <1>11, OvGotoInv
<1> QED BY <1>5, <1>9, <1>10, <1>11

LEMMA OvEndInv ==
  ASSUME OvInv, NEW c \in DOMAIN ov_net, OvStoredRemoveTsAck(c) \/ OvExecuteAck(c), ov_lay' = ov_lay
  PROVE OvInv'
<1> DEFINE m == Head(ov_net[c])
           t == c[2][2]
           net == OvTaken(c)
<1>1. ov_net[c] # <<>> /\ m.type \in {"StoredRemoveTsAck", "ExecuteAck"}
  BY DEF OvStoredRemoveTsAck, OvExecuteAck, Receives
<1>2. /\ OvNet(net) /\ \A k \in OvConns : MsgsIn(net, k) \subseteq MsgsIn(ov_net, k)
      /\ t \in OvTxns BY <1>1, OvAck
<1>3. /\ ov_coord[t] \in OvCoordRec
      /\ \A par \in ov_coord[t].stores :
           \E r \in OvSites : ov_lay.par[r] = par /\ ov_site[r].tx[t].dispatched BY <1>2, OvCoordHas
<1>4. \E ph \in OvPhase : OvGoto(t, ov_coord[t], ph, net, OvExecute(t)) \/ OvGoto(t, ov_coord[t], ph, net, {})
 <2>1. ov_coord[t].phase \in OvPhase /\ "OV_END" \in OvPhase /\ "done" \in OvPhase BY <1>3 DEF OvCoordRec, OvPhase
 <2>2. CASE OvStoredRemoveTsAck(c) BY <2>1, <2>2 DEF OvStoredRemoveTsAck
 <2>3. CASE OvExecuteAck(c) BY <2>1, <2>3 DEF OvExecuteAck
 <2> QED BY <2>2, <2>3
<1> HIDE DEF m, t, net
<1>5. PICK ph \in OvPhase : OvGoto(t, ov_coord[t], ph, net, OvExecute(t)) \/ OvGoto(t, ov_coord[t], ph, net, {}) BY <1>4
<1>6. ASSUME NEW e \in OvExecute(t), NEW k \in OvConns, k[1] = OvCoord(t)
      PROVE OvMsgOK(ov_lay, ov_site, e.msg, k) /\ e.msg.type # "CreateTsAck"
 <2>1. OvCallsSite(k) BY <1>6, OvKinds
 <2>2. e.msg = [type |-> "Execute"] BY DEF OvExecute, To
 <2> QED BY <2>1, <2>2 DEF OvMsgOK
<1>7. CASE OvGoto(t, ov_coord[t], ph, net, OvExecute(t)) BY <1>2, <1>3, <1>6, <1>7, OvGotoInv
<1>8. CASE OvGoto(t, ov_coord[t], ph, net, {}) BY <1>2, <1>3, <1>8, OvGotoInv
<1> QED BY <1>5, <1>7, <1>8

-----
LEMMA OvInitInv == OvInit => OvInv
<1> SUFFICES ASSUME OvInit PROVE OvInv OBVIOUS
<1>1. PICK last \in [OvSites -> OvFresh] : ov_site = [s \in OvSites |-> OvFreshSite(last[s])] BY DEF OvInit
<1>2. PICK flags \in [OvDcs -> OvFlags \X OvFlags] : ov_goss = [d \in OvDcs |-> OvFreshGoss(d, flags[d])] BY DEF OvInit
<1>3. OvZero \in OvTs /\ \A a \in OvTs : ~OvLess(a, OvZero) BY DEF OvZero, OvTs, OvLess
<1>4. ov_site \in [OvSites -> OvSiteRec] /\ \A s \in OvSites : ov_site[s].sphase = {} /\ ov_site[s].vw = OvZero
 <2>1. OvNoTx \in OvTxRec BY <1>3 DEF OvNoTx, OvTxRec, OvStatus, OvPieceSet
 <2>2. ASSUME NEW s \in OvSites
       PROVE OvFreshSite(last[s]) \in OvSiteRec /\ OvFreshSite(last[s]).sphase = {} /\ OvFreshSite(last[s]).vw = OvZero
  <3>1. last[s] \in Nat BY OvAssumption
  <3> QED BY <1>3, <2>1, <3>1 DEF OvFreshSite, OvSiteRec
 <2> QED BY <1>1, <2>2
<1>5. \A s \in OvSites : OvFinal(ov_site, OvZero, s)
 <2>1. ASSUME NEW s \in OvSites PROVE <<ov_site[s].last + 1, s>> \in OvTs BY <1>4, OvAssumption DEF OvSiteRec, OvTs
 <2> QED BY <1>3, <1>4, <2>1 DEF OvFinal
<1>6. \A d \in OvDcs : /\ ov_goss[d] \in OvGossRec(d) /\ ov_goss[d].vw = OvZero
                       /\ \A s \in OvDcSites(d) : ov_goss[d].site_wm[s] = OvZero
                       /\ \A e \in OvDcs : ov_goss[d].dc_wm[e] = OvZero
 <2> SUFFICES ASSUME NEW d \in OvDcs
              PROVE  /\ ov_goss[d] \in OvGossRec(d) /\ ov_goss[d].vw = OvZero
                     /\ \A s \in OvDcSites(d) : ov_goss[d].site_wm[s] = OvZero
                     /\ \A e \in OvDcs : ov_goss[d].dc_wm[e] = OvZero OBVIOUS
 <2>1. ov_goss[d] = OvFreshGoss(d, flags[d]) BY <1>2
 <2>2. flags[d][1] \in BOOLEAN /\ flags[d][2] \in BOOLEAN BY OvAssumption
 <2>3. OvFreshGoss(d, flags[d]) \in OvGossRec(d) BY <1>3, <2>2 DEF OvFreshGoss, OvGossRec, OvLoop
 <2>4. /\ OvFreshGoss(d, flags[d]).vw = OvZero
       /\ \A s \in OvDcSites(d) : OvFreshGoss(d, flags[d]).site_wm[s] = OvZero
       /\ \A e \in OvDcs : OvFreshGoss(d, flags[d]).dc_wm[e] = OvZero BY DEF OvFreshGoss
 <2> QED BY <2>1, <2>3, <2>4
<1>7. ov_coord \in [OvTxns -> OvCoordRec] /\ \A t \in OvTxns : ov_coord[t].ts = OvZero /\ ov_coord[t].stores = {}
  BY <1>3 DEF OvInit, OvFreshCoord, OvCoordRec, OvPhase, OvPieceSet
<1>8. OvNet(ov_net) /\ \A k \in OvConns : MsgsIn(ov_net, k) = {}
 <2>1. ov_net = [k \in OvConns |-> <<>>] BY DEF OvInit
 <2> QED BY <2>1 DEF OvNet, MsgsIn
<1>9. OvTypeOK BY <1>2, <1>4, <1>6, <1>7, <1>8 DEF OvTypeOK, OvNet, OvInit
<1>10. OvSitesOK /\ OvGossOK BY <1>4, <1>5, <1>6 DEF OvSitesOK, OvGossOK, OvFinalAll, OvFinalDc, OvDcSites
<1>11. OvCoordOK /\ OvMsgsOK /\ OvOneEach BY <1>7, <1>8 DEF OvCoordOK, OvMsgsOK, OvOneEach, OvUses
<1> QED BY <1>9, <1>10, <1>11 DEF OvInv

LEMMA OvStepInv == OvInv /\ [OvNext]_ovVars => OvInv'
<1> SUFFICES ASSUME OvInv, [OvNext]_ovVars PROVE OvInv' OBVIOUS
<1>1. CASE UNCHANGED ovVars BY <1>1 DEF ovVars, OvInv, OvTypeOK, OvSitesOK, OvGossOK, OvCoordOK, OvMsgsOK, OvOneEach
<1>2. CASE OvNext
 <2>1. ov_lay' = ov_lay BY <1>2 DEF OvNext
 <2>2. CASE OvDeliver
  <3>1. PICK c \in DOMAIN ov_net :
          \/ OvOnCreateTs(c) \/ OvOnStoredRemoveTs(c) \/ OvOnDispatch(c) \/ OvOnStore(c) \/ OvOnExecute(c)
          \/ OvOnPublish(c) \/ OvPublishAck(c) \/ OvOnExchange(c) \/ OvExchangeAck(c)
          \/ OvCreateTsAck(c) \/ OvDispatchAck(c) \/ OvStoreACK(c) \/ OvStoredRemoveTsAck(c) \/ OvExecuteAck(c)
    BY <2>2 DEF OvDeliver
  <3> QED BY <2>1, <3>1, OvOnCreateTsInv, OvOnStoredRemoveTsInv, OvOnDispatchInv, OvOnStoreInv, OvOnExecuteInv,
      OvOnPublishInv, OvPublishAckInv, OvOnExchangeInv, OvExchangeAckInv, OvCreateTsAckInv, OvDispatchAckInv,
      OvStoreACKInv, OvEndInv
 <2>3. CASE OvLoops BY <2>1, <2>3, OvAggregateInv, OvGossipInv, OvLoopInv DEF OvLoops
 <2>4. CASE \E t \in OvTxns : OvCreateTs(t) BY <2>1, <2>4, OvCreateTsInv
 <2> QED BY <1>2, <2>2, <2>3, <2>4 DEF OvNext
<1> QED BY <1>1, <1>2

LEMMA OvInvOrder == OvInv => OvOrderFinal
<1> SUFFICES ASSUME OvInv PROVE OvOrderFinal OBVIOUS
<1>1. OvWatermarkFinal
 <2> SUFFICES ASSUME NEW s \in OvSites, NEW u \in OvSites
              PROVE  /\ \A e \in ov_site[u].sphase : ~OvLess(e.ts, ov_site[s].vw)
                     /\ \A t \in OvTxns : OvLess(OvZero, ov_coord[t].ts) /\ OvLess(ov_coord[t].ts, ov_site[s].vw)
                          => \A par \in OvPars(t) : \E r \in OvReplicas(par) : ov_site[r].tx[t].dispatched
   BY DEF OvWatermarkFinal
 <2>1. \A v \in OvSites : \A e \in ov_site[v].sphase : ~OvLess(e.ts, ov_site[s].vw)
   BY DEF OvInv, OvSitesOK, OvFinalAll, OvFinal
 <2>2. ASSUME NEW t \in OvTxns, OvLess(OvZero, ov_coord[t].ts), OvLess(ov_coord[t].ts, ov_site[s].vw)
       PROVE \A par \in OvPars(t) : \E r \in OvReplicas(par) : ov_site[r].tx[t].dispatched
  <3>1. ov_coord[t].ts # OvZero BY <2>2 DEF OvLess, OvZero
  <3>2. OvGiven(ov_site, ov_coord[t].ts) /\ OvHeld(ov_lay, ov_site, ov_coord[t].ts, t) BY <3>1 DEF OvInv, OvCoordOK
  <3>3. OvDone(ov_lay, ov_site, t) BY <2>1, <2>2, <3>2 DEF OvGiven, OvHeld
  <3> QED BY <3>3 DEF OvDone, OvReplicas
 <2> QED BY <2>1, <2>2
<1>2. OvTimestampsUnique
 <2> SUFFICES ASSUME NEW t \in OvTxns, NEW u \in OvTxns, t # u, ov_coord[t].ts = ov_coord[u].ts
              PROVE ov_coord[t].ts = OvZero BY DEF OvTimestampsUnique
 <2>1. ov_coord[t].ts \in OvTs BY OvCoordHas
 <2>2. OvUses(ov_coord, ov_net, ov_coord[t].ts, t) /\ OvUses(ov_coord, ov_net, ov_coord[t].ts, u) BY DEF OvUses
 <2> QED BY <2>1, <2>2 DEF OvInv, OvOneEach
<1> QED BY <1>1, <1>2 DEF OvOrderFinal

(* For every deployment, workload, clock and order of the messages: below a visibility
   watermark that a site has adopted every transaction is stored and no timestamp is
   given out, and no two transactions have the same one (GetMonotTimestamp,
   GetServerVWatermark, StoredTs, OnPublish and the two loops of OVGossiper). *)
THEOREM OvOrderFinalHolds == OvSpec => []OvOrderFinal
<1>1. OvInit => OvInv BY OvInitInv
<1>2. OvInv /\ [OvNext]_ovVars => OvInv' BY OvStepInv
<1>3. OvInv => OvOrderFinal BY OvInvOrder
<1> QED BY <1>1, <1>2, <1>3, PTL DEF OvSpec

-----
(* A replica executes all pieces of a transaction.  The coordinator goes on after one
   acknowledgement per partition, so the call to execute may overtake nothing: it has to
   find the call to store before it on the same connection, or handled.  That is the
   invariant OvStoresOK, and a call to store carries what the replica must hold because
   dispatching is over by then: two messages of a transaction are never about the same
   piece (OvApart), so when all pieces are acknowledged no call to dispatch is left. *)

(* The coordinator of t is past the dispatch. *)
OvLater == {"OV_STORED", "OV_EXECUTE", "OV_END", "done"}
OvTokens == {"CreateTs", "CreateTsAck"}
OvParts == {"Dispatch", "DispatchAck"}
OvAfters == {"Store", "StoreAck", "StoredRemoveTs", "StoredRemoveTsAck", "Execute", "ExecuteAck"}

(* Two messages of one transaction. *)
OvApart(m, n) ==
  /\ ~(m.type \in OvTokens /\ n.type \in OvTokens)
  /\ m.type \in OvParts /\ n.type \in OvParts => m.pieces \cap n.pieces = {}

OvTalks(t) == {k \in OvConns : k[1] = OvCoord(t) \/ k[2] = OvCoord(t)}
OvStoreIn(net, t, s, n) == \E j \in 1 .. n : net[<<OvCoord(t), OvSite(s)>>][j].type = "Store"

(* What a message on connection k says of transaction t, whose record is r. *)
OvSlotMsg(lay, r, t, k, m) ==
  /\ m.type \in OvTokens \cup OvParts \cup OvAfters
  /\ m.type \in OvTokens => r.phase = "OV_CREATED_TS"
  /\ m.type \in OvAfters => r.phase \in OvLater
  /\ m.type \in OvParts => /\ r.phase = "OV_DISPATHED"
                           /\ m.pieces # {} /\ m.pieces \subseteq r.out \ r.acked
  /\ m.type \in {"Dispatch", "Store", "Execute"} => k[1] = OvCoord(t)
  /\ m.type = "Dispatch" => m.pieces \subseteq OvPiecesAt(t, lay.par[k[2][2]])
  /\ m.type = "Store" => m.ts = r.ts /\ m.pieces = OvPiecesAt(t, lay.par[k[2][2]])

(* Place i of connection k: a call to execute comes after the call to store. *)
OvSlotOK(lay, r, site, net, t, k, i) ==
  /\ OvSlotMsg(lay, r, t, k, net[k][i])
  /\ net[k][i].type = "Execute" => site[k[2][2]].tx[t].dispatched \/ OvStoreIn(net, t, k[2][2], i - 1)

OvSlotsOK(lay, r, site, net, t) ==
  /\ \A k \in OvTalks(t) : \A i \in 1 .. Len(net[k]) : OvSlotOK(lay, r, site, net, t, k, i)
  /\ \A k, l \in OvTalks(t) : \A i \in 1 .. Len(net[k]), j \in 1 .. Len(net[l]) :
       k # l \/ i # j => OvApart(net[k][i], net[l][j])
OvStoresOK(lay, r, site, net, t) ==
  r.phase \in OvLater => \A s \in OvSites : lay.par[s] \in OvPars(t) =>
    site[s].tx[t].dispatched \/ OvStoreIn(net, t, s, Len(net[<<OvCoord(t), OvSite(s)>>]))
OvTxOK(lay, r, site, ran, t) ==
  /\ r.phase # "OV_INIT" => t \in lay.txns
  /\ r.acked \subseteq r.out
  /\ r.phase \in {"OV_INIT", "OV_CREATED_TS"} => r.acked = {}
  /\ \A s \in OvSites :
    /\ site[s].tx[t].has \subseteq OvPiecesAt(t, lay.par[s])
    /\ site[s].tx[t].dispatched => /\ r.phase \in OvLater
                                   /\ site[s].tx[t].has = OvPiecesAt(t, lay.par[s])
                                   /\ site[s].tx[t].ts = r.ts
    /\ t \in site[s].stored \/ t \in Range(ran[s]) => site[s].tx[t].dispatched

OvNetOK(lay, r, site, net, t) == OvSlotsOK(lay, r, site, net, t) /\ OvStoresOK(lay, r, site, net, t)
OvNetsOK == \A t \in OvTxns : OvNetOK(ov_lay, ov_coord[t], ov_site, ov_net, t)
OvTxsOK == \A t \in OvTxns : OvTxOK(ov_lay, ov_coord[t], ov_site, ov_ran, t)
OvRanOK == ov_ran \in [OvSites -> Seq(OvTxns)]
OvRunInv == OvRanOK /\ OvNetsOK /\ OvTxsOK

-----
(* What is left of connection k when the first call on c is taken, and where its
   messages were. *)
OvRest(net, c, k) == IF k = c THEN Len(net[k]) - 1 ELSE Len(net[k])
OvWas(c, k, i) == IF k = c THEN i + 1 ELSE i

(* A handler takes the first message on c and calls each node at most once. *)
OvMoved(net, new, c) ==
  \A k \in OvConns :
    /\ Len(net[k]) \in Nat /\ Len(new[k]) \in Nat /\ OvRest(net, c, k) \in Nat
    /\ Len(new[k]) = OvRest(net, c, k) \/ Len(new[k]) = OvRest(net, c, k) + 1
    /\ \A i \in 1 .. OvRest(net, c, k) : /\ OvWas(c, k, i) \in 1 .. Len(net[k])
                                         /\ k # c \/ OvWas(c, k, i) # 1
                                         /\ new[k][i] = net[k][OvWas(c, k, i)]

LEMMA OvMoves ==
  ASSUME NEW net, OvNet(net), NEW c \in OvConns, net[c] # <<>>, NEW src, NEW calls
  PROVE  LET new == Calls(Taken(net, c), src, calls)
         IN  /\ OvMoved(net, new, c)
             /\ \A k \in OvConns :
                  /\ Len(new[k]) = OvRest(net, c, k) + 1 =>
                       k[1] = src /\ \E e \in calls : k[2] \in e.to /\ new[k][Len(new[k])] = e.msg
                  /\ k[1] = src /\ (\E e \in calls : k[2] \in e.to) => Len(new[k]) = OvRest(net, c, k) + 1
                  /\ k # c /\ ~(k[1] = src /\ \E e \in calls : k[2] \in e.to) => new[k] = net[k]
<1> DEFINE r == Taken(net, c)
           new == Calls(r, src, calls)
           to(d) == {e \in calls : d \in e.to}
<1>1. DOMAIN r = OvConns /\ r[c] = Tail(net[c]) /\ \A k \in OvConns : k # c => r[k] = net[k] BY DEF Taken, OvNet
<1>2. \A k \in OvConns : new[k] = IF k[1] = src /\ to(k[2]) # {}
                                  THEN Append(r[k], (CHOOSE e \in to(k[2]) : TRUE).msg) ELSE r[k] BY <1>1 DEF Calls
<1> HIDE DEF r, new
<1>3. ASSUME NEW k \in OvConns
      PROVE  /\ Len(net[k]) \in Nat /\ OvRest(net, c, k) \in Nat
             /\ Len(r[k]) = OvRest(net, c, k)
             /\ \A i \in 1 .. OvRest(net, c, k) : /\ OvWas(c, k, i) \in 1 .. Len(net[k])
                                                  /\ k # c \/ OvWas(c, k, i) # 1
                                                  /\ r[k][i] = net[k][OvWas(c, k, i)]
             /\ \E S : r[k] \in Seq(S)
 <2>1. PICK S : net[k] \in Seq(S) BY DEF OvNet
 <2>2. CASE k = c
  <3>1. r[k] \in Seq(S) /\ Len(r[k]) = Len(net[k]) - 1 /\ Len(net[k]) \in Nat /\ Len(net[k]) >= 1
        /\ \A i \in 1 .. (Len(net[k]) - 1) : r[k][i] = net[k][i + 1] BY <1>1, <2>1, <2>2
  <3> QED BY <2>2, <3>1 DEF OvRest, OvWas
 <2>3. CASE k # c BY <1>1, <2>1, <2>3 DEF OvRest, OvWas
 <2> QED BY <2>2, <2>3
<1>4. ASSUME NEW k \in OvConns
      PROVE  /\ Len(new[k]) \in Nat
             /\ Len(new[k]) = OvRest(net, c, k) \/ Len(new[k]) = OvRest(net, c, k) + 1
             /\ \A i \in 1 .. OvRest(net, c, k) : new[k][i] = r[k][i]
             /\ Len(new[k]) = OvRest(net, c, k) + 1 =>
                  k[1] = src /\ \E e \in calls : k[2] \in e.to /\ new[k][Len(new[k])] = e.msg
             /\ k[1] = src /\ (\E e \in calls : k[2] \in e.to) => Len(new[k]) = OvRest(net, c, k) + 1
             /\ k # c /\ ~(k[1] = src /\ \E e \in calls : k[2] \in e.to) => new[k] = net[k]
 <2>1. PICK S : r[k] \in Seq(S) BY <1>3
 <2> DEFINE n == OvRest(net, c, k)
 <2>2. n \in Nat /\ Len(r[k]) = n BY <1>3
 <2> HIDE DEF n
 <2>3. CASE k[1] = src /\ to(k[2]) # {}
  <3> DEFINE e == CHOOSE x \in to(k[2]) : TRUE
  <3>1. new[k] = Append(r[k], e.msg) BY <1>2, <2>3
  <3>2. e \in calls /\ k[2] \in e.to BY <2>3
  <3> HIDE DEF e, to
  <3>3. r[k] \in Seq(S \cup {e.msg}) /\ e.msg \in S \cup {e.msg} BY <2>1
  <3>4. Len(new[k]) = n + 1 /\ new[k][n + 1] = e.msg /\ \A i \in 1 .. n : new[k][i] = r[k][i] BY <2>2, <3>1, <3>3
  <3> QED BY <2>2, <2>3, <3>2, <3>4 DEF n
 <2>4. CASE ~(k[1] = src /\ to(k[2]) # {})
  <3>1. new[k] = r[k] BY <1>2, <2>4
  <3>2. ~(k[1] = src /\ \E e \in calls : k[2] \in e.to) BY <2>4
  <3> QED BY <1>1, <2>2, <3>1, <3>2 DEF n
 <2> QED BY <2>3, <2>4
<1>5. OvMoved(net, new, c) BY <1>3, <1>4 DEF OvMoved
<1> QED BY <1>4, <1>5 DEF new, r

(* The connections of a transaction. *)
LEMMA OvTalksAre ==
  ASSUME NEW t \in OvTxns
  PROVE  /\ \A k \in OvTalks(t) : /\ k \in OvConns
                                  /\ \E s \in OvSites : k = <<OvCoord(t), OvSite(s)>> \/ k = <<OvSite(s), OvCoord(t)>>
         /\ \A s \in OvSites : <<OvCoord(t), OvSite(s)>> \in OvTalks(t) /\ <<OvSite(s), OvCoord(t)>> \in OvTalks(t)
         /\ \A u \in OvTxns, k \in OvTalks(t) : u # t => k \notin OvTalks(u)
         /\ \A s, u : OvCoord(t) # OvSite(s) /\ OvSite(u)[2] = u /\ OvCoord(u)[2] = u
<1>1. \A s, u : OvCoord(t) # OvSite(s) /\ OvSite(u)[2] = u /\ OvCoord(u)[2] = u BY DEF OvCoord, OvSite
<1>2. ASSUME NEW k \in OvTalks(t)
      PROVE  /\ k \in OvConns
             /\ \E s \in OvSites : k = <<OvCoord(t), OvSite(s)>> \/ k = <<OvSite(s), OvCoord(t)>>
 <2>1. k \in OvConns /\ (k[1] = OvCoord(t) \/ k[2] = OvCoord(t)) BY DEF OvTalks
 <2>2. CASE k[1] = OvCoord(t)
  <3>1. OvCallsSite(k) BY <2>1, <2>2, OvKinds
  <3>2. PICK u \in OvTxns, s \in OvSites : k = <<OvCoord(u), OvSite(s)>> BY <3>1 DEF OvCallsSite
  <3> QED BY <2>1, <2>2, <3>2
 <2>3. CASE k[2] = OvCoord(t)
  <3>1. OvAnswersCoord(k) BY <2>1, <2>3, OvKinds
  <3>2. PICK s \in OvSites, u \in OvTxns : k = <<OvSite(s), OvCoord(u)>> BY <3>1 DEF OvAnswersCoord
  <3> QED BY <2>1, <2>3, <3>2
 <2> QED BY <2>1, <2>2, <2>3
<1>3. ASSUME NEW s \in OvSites
      PROVE <<OvCoord(t), OvSite(s)>> \in OvTalks(t) /\ <<OvSite(s), OvCoord(t)>> \in OvTalks(t)
 <2>1. OvCoord(t) \in OvNodes /\ OvSite(s) \in OvNodes /\ OvCoord(t)[1] = "coord" /\ OvSite(s)[1] = "site"
   BY DEF OvNodes, OvCoord, OvSite
 <2>2. {"coord", "site"} = {"site", "coord"} OBVIOUS
 <2> QED BY <1>1, <2>1, <2>2 DEF OvTalks, OvConns
<1>4. ASSUME NEW u \in OvTxns, NEW k \in OvTalks(t), u # t, k \in OvTalks(u) PROVE FALSE
 <2>1. PICK s \in OvSites : k = <<OvCoord(t), OvSite(s)>> \/ k = <<OvSite(s), OvCoord(t)>> BY <1>2
 <2>2. k[1] = OvCoord(u) \/ k[2] = OvCoord(u) BY <1>4 DEF OvTalks
 <2>3. OvCoord(u) # OvCoord(t) /\ OvCoord(u) # OvSite(s) BY <1>4 DEF OvCoord, OvSite
 <2> QED BY <2>1, <2>2, <2>3
<1> QED BY <1>1, <1>2, <1>3, <1>4

(* A call to store that was on its way still is, or was the one taken. *)
LEMMA OvStoreShift ==
  ASSUME NEW net, NEW new, NEW c \in OvConns, OvMoved(net, new, c), NEW t \in OvTxns, NEW s \in OvSites,
         c = <<OvCoord(t), OvSite(s)>> => net[c][1].type # "Store",
         NEW n \in 0 .. Len(net[<<OvCoord(t), OvSite(s)>>]), OvStoreIn(net, t, s, n)
  PROVE OvStoreIn(new, t, s, IF c = <<OvCoord(t), OvSite(s)>> THEN n - 1 ELSE n)
<1> DEFINE k == <<OvCoord(t), OvSite(s)>>
<1>1. k \in OvConns BY OvTalksAre
<1>2. PICK j \in 1 .. n : net[k][j].type = "Store" BY DEF OvStoreIn
<1>3. Len(net[k]) \in Nat /\ OvRest(net, c, k) \in Nat BY <1>1 DEF OvMoved
<1> HIDE DEF k
<1>4. CASE c = k
 <2>1. j # 1 BY <1>2, <1>4 DEF k
 <2>2. j - 1 \in 1 .. OvRest(net, c, k) /\ OvWas(c, k, j - 1) = j BY <1>2, <1>3, <1>4, <2>1 DEF OvRest, OvWas, k
 <2>3. new[k][j - 1] = net[k][j] BY <1>1, <2>2 DEF OvMoved
 <2>4. j - 1 \in 1 .. (n - 1) BY <1>2, <2>1
 <2> QED BY <1>2, <1>4, <2>3, <2>4 DEF OvStoreIn, k
<1>5. CASE c # k
 <2>1. j \in 1 .. OvRest(net, c, k) /\ OvWas(c, k, j) = j BY <1>2, <1>3, <1>5 DEF OvRest, OvWas, k
 <2>2. new[k][j] = net[k][j] BY <1>1, <2>1 DEF OvMoved
 <2> QED BY <1>2, <1>5, <2>2 DEF OvStoreIn, k
<1> QED BY <1>4, <1>5

(* The messages of t that stay suit its record q. *)
OvStay(lay, q, net, t, c) ==
  \A k \in OvTalks(t) : \A i \in 1 .. Len(net[k]) : k # c \/ i # 1 => OvSlotMsg(lay, q, t, k, net[k][i])

(* So do those that are added, which are apart from the others. *)
OvAdded(lay, q, a, net, new, t, c) ==
  /\ \A k \in OvTalks(t) : Len(new[k]) = OvRest(net, c, k) + 1 =>
       /\ OvSlotMsg(lay, q, t, k, new[k][Len(new[k])])
       /\ new[k][Len(new[k])].type = "Execute" =>
            k # c /\ (a[k[2][2]].tx[t].dispatched \/ OvStoreIn(net, t, k[2][2], Len(net[k])))
       /\ \A l \in OvTalks(t) : \A j \in 1 .. Len(net[l]) :
            l # c \/ j # 1 => OvApart(new[k][Len(new[k])], net[l][j])
  /\ \A k, l \in OvTalks(t) :
       k # l /\ Len(new[k]) = OvRest(net, c, k) + 1 /\ Len(new[l]) = OvRest(net, c, l) + 1
         => OvApart(new[k][Len(new[k])], new[l][Len(new[l])])

(* What is stored stays stored, and a call to store is taken by storing. *)
OvKeep(a, b, net, t, c) ==
  \A s \in OvSites :
    /\ a[s].tx[t].dispatched => b[s].tx[t].dispatched
    /\ c = <<OvCoord(t), OvSite(s)>> /\ net[c][1].type = "Store" => b[s].tx[t].dispatched

(* The step of a handler, for one transaction: its record becomes q, the first message
   on c is taken, and the messages that are added are apart from those that stay. *)
LEMMA OvSlotsStep ==
  ASSUME NEW lay, NEW p, NEW q, NEW a, NEW b, NEW net, NEW new, NEW t \in OvTxns,
         NEW c \in OvConns, OvMoved(net, new, c),
         OvSlotsOK(lay, p, a, net, t),
         OvStay(lay, q, net, t, c), OvAdded(lay, q, a, net, new, t, c), OvKeep(a, b, net, t, c)
  PROVE OvSlotsOK(lay, q, b, new, t)
<1> USE DEF OvStay, OvAdded, OvKeep
<1> DEFINE rest(k) == OvRest(net, c, k)
           was(k, i) == OvWas(c, k, i)
<1>1. ASSUME NEW k \in OvTalks(t)
      PROVE  /\ k \in OvConns /\ Len(net[k]) \in Nat /\ rest(k) \in Nat /\ Len(new[k]) \in Nat
             /\ Len(new[k]) = rest(k) \/ Len(new[k]) = rest(k) + 1
             /\ \A i \in 1 .. rest(k) : was(k, i) \in 1 .. Len(net[k]) /\ (k # c \/ was(k, i) # 1)
                                        /\ new[k][i] = net[k][was(k, i)] BY OvTalksAre DEF OvMoved
<1> HIDE DEF rest, was
<1>2. \A k \in OvTalks(t) : \A i \in 1 .. Len(new[k]) :
        i \in 1 .. rest(k) \/ (i = Len(new[k]) /\ Len(new[k]) = rest(k) + 1) BY <1>1
<1>3. ASSUME NEW s \in OvSites, NEW n \in 0 .. Len(net[<<OvCoord(t), OvSite(s)>>]),
             a[s].tx[t].dispatched \/ OvStoreIn(net, t, s, n)
      PROVE  b[s].tx[t].dispatched
             \/ OvStoreIn(new, t, s, IF c = <<OvCoord(t), OvSite(s)>> THEN n - 1 ELSE n) BY <1>3, OvStoreShift
<1>4. ASSUME NEW k \in OvTalks(t), NEW i \in 1 .. Len(new[k]) PROVE OvSlotOK(lay, q, b, new, t, k, i)
 <2>1. OvSlotMsg(lay, q, t, k, new[k][i]) BY <1>1, <1>2 DEF rest
 <2>2. ASSUME new[k][i].type = "Execute" PROVE b[k[2][2]].tx[t].dispatched \/ OvStoreIn(new, t, k[2][2], i - 1)
  <3>1. PICK s \in OvSites : k = <<OvCoord(t), OvSite(s)>> BY <2>1, <2>2, OvTalksAre DEF OvSlotMsg
  <3>2. k[2][2] = s BY <3>1, OvTalksAre
  <3>3. CASE i \in 1 .. rest(k)
   <4> DEFINE w == was(k, i)
   <4>1. w \in 1 .. Len(net[k]) /\ new[k][i] = net[k][w] BY <1>1, <3>3
   <4>2. a[s].tx[t].dispatched \/ OvStoreIn(net, t, s, w - 1) BY <2>2, <3>2, <4>1 DEF OvSlotsOK, OvSlotOK
   <4>3. w - 1 \in 0 .. Len(net[k]) /\ (IF c = k THEN (w - 1) - 1 ELSE w - 1) = i - 1 BY <1>1, <3>3, <4>1 DEF was, OvWas
   <4>4. b[s].tx[t].dispatched \/ OvStoreIn(new, t, s, IF c = k THEN (w - 1) - 1 ELSE w - 1)
    <5> HIDE DEF w
    <5> QED BY <1>3, <3>1, <4>2, <4>3
   <4> QED BY <3>2, <4>3, <4>4
  <3>4. CASE i = Len(new[k]) /\ Len(new[k]) = rest(k) + 1
   <4>1. k # c /\ (a[s].tx[t].dispatched \/ OvStoreIn(net, t, s, Len(net[k]))) BY <2>2, <3>2, <3>4 DEF rest
   <4>2. Len(net[k]) \in 0 .. Len(net[k]) /\ i - 1 = Len(net[k]) BY <1>1, <3>4, <4>1 DEF rest, OvRest
   <4>3. b[s].tx[t].dispatched \/ OvStoreIn(new, t, s, IF c = k THEN Len(net[k]) - 1 ELSE Len(net[k]))
     BY <1>3, <3>1, <4>1, <4>2
   <4> QED BY <3>2, <4>1, <4>2, <4>3
  <3> QED BY <1>2, <3>3, <3>4
 <2> QED BY <2>1, <2>2 DEF OvSlotOK
<1>5. ASSUME NEW k \in OvTalks(t), NEW l \in OvTalks(t), NEW i \in 1 .. Len(new[k]), NEW j \in 1 .. Len(new[l]),
             k # l \/ i # j
      PROVE OvApart(new[k][i], new[l][j])
 <2>1. CASE i \in 1 .. rest(k) /\ j \in 1 .. rest(l)
  <3>1. k # l \/ was(k, i) # was(l, j) BY <1>5 DEF was, OvWas
  <3>2. new[k][i] = net[k][was(k, i)] /\ new[l][j] = net[l][was(l, j)]
        /\ was(k, i) \in 1 .. Len(net[k]) /\ was(l, j) \in 1 .. Len(net[l]) BY <1>1, <2>1
  <3> QED BY <3>1, <3>2 DEF OvSlotsOK
 <2>2. CASE j \in 1 .. rest(l) /\ i = Len(new[k]) /\ Len(new[k]) = rest(k) + 1
  <3>1. new[l][j] = net[l][was(l, j)] /\ was(l, j) \in 1 .. Len(net[l]) /\ (l # c \/ was(l, j) # 1) BY <1>1, <2>2
  <3> QED BY <2>2, <3>1 DEF rest
 <2>3. CASE i \in 1 .. rest(k) /\ j = Len(new[l]) /\ Len(new[l]) = rest(l) + 1
  <3>1. new[k][i] = net[k][was(k, i)] /\ was(k, i) \in 1 .. Len(net[k]) /\ (k # c \/ was(k, i) # 1) BY <1>1, <2>3
  <3>2. OvApart(new[l][j], net[k][was(k, i)]) BY <2>3, <3>1 DEF rest
  <3>3. \A m, n : OvApart(m, n) => OvApart(n, m) BY DEF OvApart
  <3> QED BY <3>1, <3>2, <3>3
 <2>4. CASE i = Len(new[k]) /\ Len(new[k]) = rest(k) + 1 /\ j = Len(new[l]) /\ Len(new[l]) = rest(l) + 1
  <3>1. k # l BY <1>5, <2>4
  <3> QED BY <2>4, <3>1 DEF rest
 <2> QED BY <1>2, <2>1, <2>2, <2>3, <2>4
<1> QED BY <1>4, <1>5 DEF OvSlotsOK

(* The calls to store are not lost. *)
LEMMA OvStoresStep ==
  ASSUME NEW lay, NEW p, NEW q, NEW a, NEW b, NEW net, NEW new, NEW t \in OvTxns,
         NEW c \in OvConns, OvMoved(net, new, c), OvStoresOK(lay, p, a, net, t),
         q.phase \in OvLater => p.phase \in OvLater,
         OvKeep(a, b, net, t, c)
  PROVE OvStoresOK(lay, q, b, new, t)
<1> USE DEF OvKeep
<1> SUFFICES ASSUME q.phase \in OvLater, NEW s \in OvSites, lay.par[s] \in OvPars(t), ~b[s].tx[t].dispatched
             PROVE OvStoreIn(new, t, s, Len(new[<<OvCoord(t), OvSite(s)>>])) BY DEF OvStoresOK
<1> DEFINE k == <<OvCoord(t), OvSite(s)>>
           n == IF c = k THEN Len(net[k]) - 1 ELSE Len(net[k])
<1>1. k \in OvConns BY OvTalksAre
<1>2. Len(net[k]) \in Nat /\ Len(net[k]) \in 0 .. Len(net[k]) BY <1>1 DEF OvMoved
<1>3. OvStoreIn(net, t, s, Len(net[k])) BY DEF OvStoresOK
<1>4. OvStoreIn(new, t, s, n) BY <1>2, <1>3, OvStoreShift
<1>5. n = OvRest(net, c, k) /\ n \in Nat /\ Len(new[k]) \in Nat /\ n <= Len(new[k]) BY <1>1 DEF OvMoved, OvRest
<1>6. \A j \in 1 .. n : j \in 1 .. Len(new[k]) BY <1>5
<1> QED BY <1>4, <1>6 DEF OvStoreIn

(* A step that leaves a transaction alone. *)
LEMMA OvUntouched ==
  ASSUME NEW lay, NEW p, NEW a, NEW b, NEW net, NEW new, NEW t \in OvTxns,
         OvSlotsOK(lay, p, a, net, t), OvStoresOK(lay, p, a, net, t),
         \A k \in OvTalks(t) : new[k] = net[k],
         \A s \in OvSites : b[s].tx[t] = a[s].tx[t]
  PROVE OvSlotsOK(lay, p, b, new, t) /\ OvStoresOK(lay, p, b, new, t)
<1>1. ASSUME NEW s \in OvSites PROVE new[<<OvCoord(t), OvSite(s)>>] = net[<<OvCoord(t), OvSite(s)>>] BY OvTalksAre
<1>2. OvStoresOK(lay, p, b, new, t) BY <1>1 DEF OvStoresOK, OvStoreIn
<1>3. ASSUME NEW k \in OvTalks(t), NEW i \in 1 .. Len(net[k]) PROVE OvSlotOK(lay, p, b, new, t, k, i)
 <2>1. OvSlotOK(lay, p, a, net, t, k, i) /\ new[k] = net[k] BY DEF OvSlotsOK
 <2>2. ASSUME net[k][i].type = "Execute" PROVE \E s \in OvSites : k[2][2] = s
   BY <2>1, <2>2, OvTalksAre DEF OvSlotOK, OvSlotMsg
 <2> QED BY <1>1, <2>1, <2>2 DEF OvSlotOK, OvStoreIn
<1> QED BY <1>2, <1>3 DEF OvSlotsOK

-----
(* The sites. *)

(* The first message on a connection of a transaction. *)
LEMMA OvFirst ==
  ASSUME OvTypeOK, OvNetsOK, NEW u \in OvTxns, NEW c \in OvTalks(u), ov_net[c] # <<>>
  PROVE  /\ c \in OvConns /\ Len(ov_net[c]) \in Nat /\ 1 \in 1 .. Len(ov_net[c]) /\ Head(ov_net[c]) = ov_net[c][1]
         /\ OvSlotMsg(ov_lay, ov_coord[u], u, c, Head(ov_net[c]))
         /\ Head(ov_net[c]).type = "Execute" => ov_site[c[2][2]].tx[u].dispatched
         /\ OvNet(ov_net)
<1>1. c \in OvConns /\ OvNet(ov_net) BY OvTalksAre DEF OvTypeOK, OvNet
<1>2. PICK S : ov_net[c] \in Seq(S) BY <1>1 DEF OvNet
<1>3. Len(ov_net[c]) \in Nat /\ 1 \in 1 .. Len(ov_net[c]) /\ Head(ov_net[c]) = ov_net[c][1] BY <1>2
<1>4. OvSlotOK(ov_lay, ov_coord[u], ov_site, ov_net, u, c, 1) BY <1>3 DEF OvNetsOK, OvNetOK, OvSlotsOK
<1>5. ~OvStoreIn(ov_net, u, c[2][2], 1 - 1) BY DEF OvStoreIn
<1> QED BY <1>1, <1>3, <1>4, <1>5 DEF OvSlotOK

(* A site handles a call of the coordinator of u, and may answer n. *)
LEMMA OvSiteRun ==
  ASSUME OvTypeOK, OvNetsOK, NEW u \in OvTxns, NEW s \in OvSites, NEW c, c = <<OvCoord(u), OvSite(s)>>,
         ov_net[c] # <<>>, NEW n, NEW calls, calls = {} \/ calls = {To({c[1]}, n)},
         ov_net' = Calls(OvTaken(c), c[2], calls), ov_coord' = ov_coord, ov_lay' = ov_lay,
         OvSlotMsg(ov_lay, ov_coord[u], u, <<OvSite(s), OvCoord(u)>>, n), n.type # "Execute",
         \A m : OvApart(Head(ov_net[c]), m) => OvApart(n, m),
         \A v \in OvSites, t \in OvTxns : v # s \/ t # u => ov_site'[v].tx[t] = ov_site[v].tx[t],
         ov_site[s].tx[u].dispatched => ov_site'[s].tx[u].dispatched,
         Head(ov_net[c]).type = "Store" => ov_site'[s].tx[u].dispatched
  PROVE OvNetsOK'
<1>1. c \in OvTalks(u) /\ c \in OvConns /\ c[1] = OvCoord(u) /\ c[2] = OvSite(s) BY OvTalksAre
<1>2. /\ OvNet(ov_net) /\ Head(ov_net[c]) = ov_net[c][1] /\ Len(ov_net[c]) \in Nat
      /\ 1 \in 1 .. Len(ov_net[c]) BY <1>1, OvFirst
<1>3. /\ OvMoved(ov_net, ov_net', c)
      /\ \A k \in OvConns :
           /\ Len(ov_net'[k]) = OvRest(ov_net, c, k) + 1 =>
                k[1] = c[2] /\ \E e \in calls : k[2] \in e.to /\ ov_net'[k][Len(ov_net'[k])] = e.msg
           /\ k # c /\ ~(k[1] = c[2] /\ \E e \in calls : k[2] \in e.to) => ov_net'[k] = ov_net[k]
  BY <1>1, <1>2, OvMoves DEF OvTaken
<1>4. \A e \in calls : e.to = {OvCoord(u)} /\ e.msg = n BY <1>1 DEF To
<1>5. ASSUME NEW t \in OvTxns PROVE OvNetOK(ov_lay, ov_coord[t], ov_site', ov_net', t)
 <2>1. CASE t # u
  <3>1. ASSUME NEW k \in OvTalks(t) PROVE ov_net'[k] = ov_net[k]
   <4>1. k \notin OvTalks(u) /\ k \in OvConns BY <2>1, OvTalksAre
   <4>2. k # c /\ k[2] # OvCoord(u) BY <1>1, <4>1 DEF OvTalks
   <4> QED BY <1>3, <1>4, <4>1, <4>2
  <3>2. \A v \in OvSites : ov_site'[v].tx[t] = ov_site[v].tx[t] BY <2>1
  <3>3. OvSlotsOK(ov_lay, ov_coord[t], ov_site, ov_net, t) /\ OvStoresOK(ov_lay, ov_coord[t], ov_site, ov_net, t)
    BY DEF OvNetsOK, OvNetOK
  <3> QED BY <3>1, <3>2, <3>3, OvUntouched DEF OvNetOK
 <2>2. CASE t = u
  <3> DEFINE p == ov_coord[u]
             b == ov_site'
             new == ov_net'
  <3>1. OvSlotsOK(ov_lay, p, ov_site, ov_net, u) /\ OvStoresOK(ov_lay, p, ov_site, ov_net, u) BY DEF OvNetsOK, OvNetOK
  <3>2. \A k \in OvTalks(u) : \A i \in 1 .. Len(ov_net[k]) :
          k # c \/ i # 1 => OvSlotMsg(ov_lay, p, u, k, ov_net[k][i]) BY <3>1 DEF OvSlotsOK, OvSlotOK
  <3>3. ASSUME NEW k \in OvTalks(u), Len(new[k]) = OvRest(ov_net, c, k) + 1
        PROVE k = <<OvSite(s), OvCoord(u)>> /\ new[k][Len(new[k])] = n
   <4>1. k \in OvConns BY OvTalksAre
   <4>2. k[1] = c[2] /\ \E e \in calls : k[2] \in e.to /\ new[k][Len(new[k])] = e.msg BY <1>3, <3>3, <4>1
   <4>3. k[1] = OvSite(s) /\ k[2] = OvCoord(u) /\ new[k][Len(new[k])] = n BY <1>1, <1>4, <4>2
   <4>4. k = <<k[1], k[2]>> BY <4>1, OvKinds
   <4> QED BY <4>3, <4>4
  <3>4. \A v \in OvSites : ov_site[v].tx[u].dispatched => b[v].tx[u].dispatched OBVIOUS
  <3>5. ASSUME NEW v \in OvSites, c = <<OvCoord(u), OvSite(v)>>, ov_net[c][1].type = "Store" PROVE b[v].tx[u].dispatched
   <4>1. v = s BY <1>1, <3>5 DEF OvSite
   <4> QED BY <1>2, <3>5, <4>1
  <3>6. ASSUME NEW l \in OvTalks(u), NEW j \in 1 .. Len(ov_net[l]), l # c \/ j # 1
        PROVE OvApart(n, ov_net[l][j]) BY <1>1, <1>2, <3>1, <3>6 DEF OvSlotsOK
  <3> HIDE DEF p, b, new
  <3>7. OvAdded(ov_lay, p, ov_site, ov_net, new, u, c) BY <3>3, <3>6 DEF p, OvAdded
  <3>8. OvStay(ov_lay, p, ov_net, u, c) BY <3>2 DEF OvStay
  <3>9. OvMoved(ov_net, new, c) /\ OvKeep(ov_site, b, ov_net, u, c) BY <1>3, <3>4, <3>5 DEF new, OvKeep
  <3>10. OvSlotsOK(ov_lay, p, b, new, u) BY <1>1, <3>1, <3>7, <3>8, <3>9, OvSlotsStep
  <3>11. OvStoresOK(ov_lay, p, b, new, u) BY <1>1, <3>1, <3>9, OvStoresStep
  <3> QED BY <2>2, <3>10, <3>11 DEF OvNetOK, p, b, new
 <2> QED BY <2>1, <2>2
<1> QED BY <1>5 DEF OvNetsOK

(* A call of the coordinator of u has come to site s. *)
LEMMA OvCalled ==
  ASSUME OvInv, OvNetsOK, NEW c \in DOMAIN ov_net, ov_net[c] # <<>>,
         Head(ov_net[c]).type \in {"CreateTs", "Dispatch", "Store", "Execute", "StoredRemoveTs"}
  PROVE  \E u \in OvTxns, s \in OvSites :
           /\ c = <<OvCoord(u), OvSite(s)>> /\ c[1][2] = u /\ c[2][2] = s
           /\ OvSlotMsg(ov_lay, ov_coord[u], u, c, Head(ov_net[c]))
           /\ Head(ov_net[c]).type = "Execute" => ov_site[s].tx[u].dispatched
<1>1. c \in OvConns /\ OvMsgOK(ov_lay, ov_site, Head(ov_net[c]), c) BY OvHead DEF OvInv
<1>2. PICK u \in OvTxns, s \in OvSites : c = <<OvCoord(u), OvSite(s)>> BY <1>1 DEF OvMsgOK, OvCallsSite
<1>3. c[1][2] = u /\ c[2][2] = s /\ c \in OvTalks(u) BY <1>2, OvTalksAre
<1>4. OvTypeOK BY DEF OvInv
<1> QED BY <1>2, <1>3, <1>4, OvFirst

(* Site s changes what it knows of transaction u. *)
LEMMA OvSiteTx ==
  ASSUME OvTxsOK, NEW u \in OvTxns, NEW s \in OvSites, ov_coord' = ov_coord, ov_lay' = ov_lay,
         \A v \in OvSites, t \in OvTxns : v # s \/ t # u => ov_site'[v].tx[t] = ov_site[v].tx[t],
         \A v \in OvSites, t \in OvTxns : t \in ov_site'[v].stored \/ t \in Range(ov_ran'[v]) =>
           t \in ov_site[v].stored \/ t \in Range(ov_ran[v]) \/ (v = s /\ t = u /\ ov_site'[s].tx[u].dispatched),
         ov_site[s].tx[u].dispatched => ov_site'[s].tx[u].dispatched,
         ov_site'[s].tx[u].has \subseteq OvPiecesAt(u, ov_lay.par[s]),
         ov_site'[s].tx[u].dispatched => /\ ov_coord[u].phase \in OvLater
                                         /\ ov_site'[s].tx[u].has = OvPiecesAt(u, ov_lay.par[s])
                                         /\ ov_site'[s].tx[u].ts = ov_coord[u].ts
  PROVE OvTxsOK'
<1>1. ASSUME NEW t \in OvTxns PROVE OvTxOK(ov_lay, ov_coord[t], ov_site', ov_ran', t)
 <2>1. OvTxOK(ov_lay, ov_coord[t], ov_site, ov_ran, t) BY DEF OvTxsOK
 <2>2. ASSUME NEW v \in OvSites
       PROVE  /\ ov_site'[v].tx[t].has \subseteq OvPiecesAt(t, ov_lay.par[v])
              /\ ov_site'[v].tx[t].dispatched => /\ ov_coord[t].phase \in OvLater
                                                 /\ ov_site'[v].tx[t].has = OvPiecesAt(t, ov_lay.par[v])
                                                 /\ ov_site'[v].tx[t].ts = ov_coord[t].ts
              /\ t \in ov_site'[v].stored \/ t \in Range(ov_ran'[v]) => ov_site'[v].tx[t].dispatched
  <3>1. CASE v = s /\ t = u BY <2>1, <3>1 DEF OvTxOK
  <3>2. CASE v # s \/ t # u
   <4>1. ov_site'[v].tx[t] = ov_site[v].tx[t] BY <3>2
   <4> QED BY <2>1, <3>2, <4>1 DEF OvTxOK
  <3> QED BY <3>1, <3>2
 <2> QED BY <2>1, <2>2 DEF OvTxOK
<1> QED BY <1>1 DEF OvTxsOK

(* Handlers that leave the transactions at the sites alone. *)
LEMMA OvSiteSame ==
  ASSUME OvTxsOK, ov_coord' = ov_coord, ov_lay' = ov_lay,
         \A v \in OvSites, t \in OvTxns : ov_site'[v].tx[t] = ov_site[v].tx[t],
         \A v \in OvSites, t \in OvTxns : t \in ov_site'[v].stored \/ t \in Range(ov_ran'[v]) =>
           t \in ov_site[v].stored \/ t \in Range(ov_ran[v])
  PROVE OvTxsOK'
<1>1. ASSUME NEW t \in OvTxns PROVE OvTxOK(ov_lay, ov_coord[t], ov_site', ov_ran', t)
 <2>1. OvTxOK(ov_lay, ov_coord[t], ov_site, ov_ran, t) BY DEF OvTxsOK
 <2>2. ASSUME NEW v \in OvSites
       PROVE  /\ ov_site'[v].tx[t] = ov_site[v].tx[t]
              /\ t \in ov_site'[v].stored \/ t \in Range(ov_ran'[v]) => ov_site[v].tx[t].dispatched BY <2>1 DEF OvTxOK
 <2> QED BY <2>1, <2>2 DEF OvTxOK
<1> QED BY <1>1 DEF OvTxsOK

LEMMA OvOnCreateTsRun ==
  ASSUME OvInv, OvRunInv, NEW c \in DOMAIN ov_net, OvOnCreateTs(c), ov_lay' = ov_lay
  PROVE OvRunInv'
<1>1. OvRanOK /\ OvNetsOK /\ OvTxsOK /\ OvTypeOK /\ ov_net[c] # <<>> /\ Head(ov_net[c]).type = "CreateTs"
  BY DEF OvRunInv, OvOnCreateTs, Receives, OvInv
<1>2. PICK u \in OvTxns, s \in OvSites :
        /\ c = <<OvCoord(u), OvSite(s)>> /\ c[1][2] = u /\ c[2][2] = s
        /\ OvSlotMsg(ov_lay, ov_coord[u], u, c, Head(ov_net[c])) BY <1>1, OvCalled
<1>3. PICK clock : /\ ov_site' = [ov_site EXCEPT ![s].last = clock,
                                                 ![s].sphase = @ \cup {[ts |-> <<clock, s>>, txn |-> u]}]
                   /\ ov_net' = OvReply(c, [type |-> "CreateTsAck", ts |-> <<clock, s>>])
                   /\ ov_coord' = ov_coord /\ ov_ran' = ov_ran BY <1>2 DEF OvOnCreateTs
<1>4. ov_site \in [OvSites -> OvSiteRec] BY <1>1 DEF OvTypeOK
<1>5. \A v \in OvSites : ov_site'[v].tx = ov_site[v].tx /\ ov_site'[v].stored = ov_site[v].stored
  BY <1>3, <1>4 DEF OvSiteRec
<1> DEFINE n == [type |-> "CreateTsAck", ts |-> <<clock, s>>]
<1>6. OvSlotMsg(ov_lay, ov_coord[u], u, <<OvSite(s), OvCoord(u)>>, n) /\ n.type # "Execute"
  BY <1>1, <1>2 DEF OvSlotMsg, OvTokens, OvParts, OvAfters
<1>7. \A m : OvApart(Head(ov_net[c]), m) => OvApart(n, m) BY <1>1 DEF OvApart, OvTokens, OvParts
<1>8. ov_net' = Calls(OvTaken(c), c[2], {To({c[1]}, n)}) BY <1>3 DEF OvReply
<1> HIDE DEF n
<1>9. OvNetsOK' BY <1>1, <1>2, <1>3, <1>5, <1>6, <1>7, <1>8, OvSiteRun
<1>10. OvTxsOK' BY <1>1, <1>3, <1>5, OvSiteSame
<1>11. OvRanOK' BY <1>1, <1>3 DEF OvRanOK
<1> QED BY <1>9, <1>10, <1>11 DEF OvRunInv

LEMMA OvOnStoredRemoveTsRun ==
  ASSUME OvInv, OvRunInv, NEW c \in DOMAIN ov_net, OvOnStoredRemoveTs(c), ov_lay' = ov_lay
  PROVE OvRunInv'
<1>1. OvRanOK /\ OvNetsOK /\ OvTxsOK /\ OvTypeOK /\ ov_net[c] # <<>> /\ Head(ov_net[c]).type = "StoredRemoveTs"
  BY DEF OvRunInv, OvOnStoredRemoveTs, Receives, OvInv
<1>2. PICK u \in OvTxns, s \in OvSites :
        /\ c = <<OvCoord(u), OvSite(s)>> /\ c[1][2] = u /\ c[2][2] = s
        /\ OvSlotMsg(ov_lay, ov_coord[u], u, c, Head(ov_net[c])) BY <1>1, OvCalled
<1> DEFINE n == [type |-> "StoredRemoveTsAck"]
<1>3. /\ \E entry : ov_site' = [ov_site EXCEPT ![s].sphase = @ \ {entry}]
      /\ ov_net' = Calls(OvTaken(c), c[2], {To({c[1]}, n)})
      /\ ov_coord' = ov_coord /\ ov_ran' = ov_ran BY <1>2 DEF OvOnStoredRemoveTs, OvReply
<1>4. ov_site \in [OvSites -> OvSiteRec] BY <1>1 DEF OvTypeOK
<1>5. \A v \in OvSites : ov_site'[v].tx = ov_site[v].tx /\ ov_site'[v].stored = ov_site[v].stored
  BY <1>3, <1>4 DEF OvSiteRec
<1>6. OvSlotMsg(ov_lay, ov_coord[u], u, <<OvSite(s), OvCoord(u)>>, n) /\ n.type # "Execute"
  BY <1>1, <1>2 DEF OvSlotMsg, OvTokens, OvParts, OvAfters
<1>7. \A m : OvApart(Head(ov_net[c]), m) => OvApart(n, m) BY <1>1 DEF OvApart, OvTokens, OvParts
<1> HIDE DEF n
<1>9. OvNetsOK' BY <1>1, <1>2, <1>3, <1>5, <1>6, <1>7, OvSiteRun
<1>10. OvTxsOK' BY <1>1, <1>3, <1>5, OvSiteSame
<1>11. OvRanOK' BY <1>1, <1>3 DEF OvRanOK
<1> QED BY <1>9, <1>10, <1>11 DEF OvRunInv

LEMMA OvOnDispatchRun ==
  ASSUME OvInv, OvRunInv, NEW c \in DOMAIN ov_net, OvOnDispatch(c), ov_lay' = ov_lay
  PROVE OvRunInv'
<1>1. OvRanOK /\ OvNetsOK /\ OvTxsOK /\ OvTypeOK /\ ov_net[c] # <<>> /\ Head(ov_net[c]).type = "Dispatch"
  BY DEF OvRunInv, OvOnDispatch, Receives, OvInv
<1>2. PICK u \in OvTxns, s \in OvSites :
        /\ c = <<OvCoord(u), OvSite(s)>> /\ c[1][2] = u /\ c[2][2] = s
        /\ OvSlotMsg(ov_lay, ov_coord[u], u, c, Head(ov_net[c])) BY <1>1, OvCalled
<1> DEFINE P == Head(ov_net[c]).pieces
           n == [type |-> "DispatchAck", pieces |-> P]
<1>3. /\ ov_site' = [ov_site EXCEPT ![s].tx[u].has = @ \cup P]
      /\ ov_net' = Calls(OvTaken(c), c[2], {To({c[1]}, n)})
      /\ ov_coord' = ov_coord /\ ov_ran' = ov_ran BY <1>2 DEF OvOnDispatch, OvReply
<1>4. ov_site \in [OvSites -> OvSiteRec] /\ ov_site[s].tx \in [OvTxns -> OvTxRec] BY <1>1 DEF OvTypeOK, OvSiteRec
<1>5. /\ ov_coord[u].phase = "OV_DISPATHED" /\ P # {} /\ P \subseteq ov_coord[u].out \ ov_coord[u].acked
      /\ P \subseteq OvPiecesAt(u, ov_lay.par[s]) BY <1>1, <1>2 DEF OvSlotMsg, OvParts
<1>6. OvSlotMsg(ov_lay, ov_coord[u], u, <<OvSite(s), OvCoord(u)>>, n) /\ n.type # "Execute"
 <2> HIDE DEF P
 <2> QED BY <1>5 DEF OvSlotMsg, OvTokens, OvParts, OvAfters
<1>7. \A m : OvApart(Head(ov_net[c]), m) => OvApart(n, m) BY <1>1 DEF OvApart, OvTokens, OvParts
<1> HIDE DEF n, P
<1>8. /\ \A v \in OvSites : v # s => ov_site'[v] = ov_site[v]
      /\ ov_site'[s].tx = [ov_site[s].tx EXCEPT ![u].has = @ \cup P]
      /\ ov_site'[s].stored = ov_site[s].stored BY <1>3, <1>4 DEF OvSiteRec
<1>9. /\ \A t \in OvTxns : t # u => ov_site'[s].tx[t] = ov_site[s].tx[t]
      /\ ov_site'[s].tx[u].has = ov_site[s].tx[u].has \cup P
      /\ ov_site'[s].tx[u].dispatched = ov_site[s].tx[u].dispatched BY <1>4, <1>8 DEF OvTxRec
<1>10. \A v \in OvSites, t \in OvTxns : v # s \/ t # u => ov_site'[v].tx[t] = ov_site[v].tx[t] BY <1>8, <1>9
<1>11. OvNetsOK'
 <2>1. /\ ov_site[s].tx[u].dispatched => ov_site'[s].tx[u].dispatched
       /\ Head(ov_net[c]).type = "Store" => ov_site'[s].tx[u].dispatched BY <1>1, <1>9
 <2>2. /\ OvTypeOK /\ OvNetsOK /\ ov_net[c] # <<>> /\ c = <<OvCoord(u), OvSite(s)>> /\ ov_coord' = ov_coord
       /\ ov_net' = Calls(OvTaken(c), c[2], {To({c[1]}, n)}) BY <1>1, <1>2, <1>3
 <2> QED BY <1>6, <1>7, <1>10, <2>1, <2>2, OvSiteRun
<1>12. ov_site[s].tx[u].has \subseteq OvPiecesAt(u, ov_lay.par[s]) /\ ~ov_site[s].tx[u].dispatched
  BY <1>1, <1>5 DEF OvTxsOK, OvTxOK, OvLater
<1>13. OvTxsOK'
 <2>1. \A v \in OvSites : ov_site'[v].stored = ov_site[v].stored /\ ov_ran'[v] = ov_ran[v] BY <1>3, <1>8
 <2>2. ov_site'[s].tx[u].has \subseteq OvPiecesAt(u, ov_lay.par[s]) /\ ~ov_site'[s].tx[u].dispatched
   BY <1>5, <1>9, <1>12
 <2> QED BY <1>1, <1>3, <1>10, <1>12, <2>1, <2>2, OvSiteTx
<1>14. OvRanOK' BY <1>1, <1>3 DEF OvRanOK
<1> QED BY <1>11, <1>13, <1>14 DEF OvRunInv

LEMMA OvOnStoreRun ==
  ASSUME OvInv, OvRunInv, NEW c \in DOMAIN ov_net, OvOnStore(c), ov_lay' = ov_lay
  PROVE OvRunInv'
<1>1. OvRanOK /\ OvNetsOK /\ OvTxsOK /\ OvTypeOK /\ ov_net[c] # <<>> /\ Head(ov_net[c]).type = "Store"
  BY DEF OvRunInv, OvOnStore, Receives, OvInv
<1>2. PICK u \in OvTxns, s \in OvSites :
        /\ c = <<OvCoord(u), OvSite(s)>> /\ c[1][2] = u /\ c[2][2] = s
        /\ OvSlotMsg(ov_lay, ov_coord[u], u, c, Head(ov_net[c])) BY <1>1, OvCalled
<1> DEFINE P == Head(ov_net[c]).pieces
           ts == Head(ov_net[c]).ts
           x == ov_site[s].tx[u]
           y == [x EXCEPT !.status = "STORED", !.ts = ts, !.has = @ \cup P, !.dispatched = TRUE]
           n == [type |-> "StoreAck", par |-> ov_lay.par[s]]
<1>3. /\ ov_site' = [ov_site EXCEPT ![s].inited = TRUE, ![s].stored = @ \cup {u}, ![s].tx[u] = y]
      /\ ov_net' = Calls(OvTaken(c), c[2], {To({c[1]}, n)})
      /\ ov_coord' = ov_coord /\ ov_ran' = ov_ran BY <1>2 DEF OvOnStore, OvReply
<1>4. ov_site \in [OvSites -> OvSiteRec] /\ ov_site[s].tx \in [OvTxns -> OvTxRec] BY <1>1 DEF OvTypeOK, OvSiteRec
<1>5. ov_coord[u].phase \in OvLater /\ ts = ov_coord[u].ts /\ P = OvPiecesAt(u, ov_lay.par[s])
  BY <1>1, <1>2 DEF OvSlotMsg, OvAfters
<1>6. OvSlotMsg(ov_lay, ov_coord[u], u, <<OvSite(s), OvCoord(u)>>, n) /\ n.type # "Execute"
  BY <1>5 DEF OvSlotMsg, OvTokens, OvParts, OvAfters
<1>7. \A m : OvApart(Head(ov_net[c]), m) => OvApart(n, m) BY <1>1 DEF OvApart, OvTokens, OvParts
<1>8. x.has \subseteq OvPiecesAt(u, ov_lay.par[s]) BY <1>1 DEF OvTxsOK, OvTxOK
<1>9. y.has = OvPiecesAt(u, ov_lay.par[s]) /\ y.ts = ov_coord[u].ts /\ y.dispatched
 <2>1. x \in OvTxRec BY <1>4
 <2>2. y.has = x.has \cup P /\ y.ts = ts /\ y.dispatched
  <3> HIDE DEF x, P, ts
  <3> QED BY <2>1 DEF OvTxRec
 <2> HIDE DEF x, y, P, ts
 <2> QED BY <1>5, <1>8, <2>2
<1> HIDE DEF n, P, y
<1>10. /\ \A v \in OvSites : v # s => ov_site'[v] = ov_site[v]
       /\ ov_site'[s].tx = [ov_site[s].tx EXCEPT ![u] = y]
       /\ ov_site'[s].stored = ov_site[s].stored \cup {u} BY <1>3, <1>4 DEF OvSiteRec
<1>11. ov_site'[s].tx[u] = y /\ \A t \in OvTxns : t # u => ov_site'[s].tx[t] = ov_site[s].tx[t] BY <1>4, <1>10
<1>12. \A v \in OvSites, t \in OvTxns : v # s \/ t # u => ov_site'[v].tx[t] = ov_site[v].tx[t] BY <1>10, <1>11
<1>13. ov_site'[s].tx[u].dispatched BY <1>9, <1>11
<1>14. OvNetsOK'
 <2>1. /\ ov_site[s].tx[u].dispatched => ov_site'[s].tx[u].dispatched
       /\ Head(ov_net[c]).type = "Store" => ov_site'[s].tx[u].dispatched BY <1>13
 <2>2. /\ OvTypeOK /\ OvNetsOK /\ ov_net[c] # <<>> /\ c = <<OvCoord(u), OvSite(s)>> /\ ov_coord' = ov_coord
       /\ ov_net' = Calls(OvTaken(c), c[2], {To({c[1]}, n)}) BY <1>1, <1>2, <1>3
 <2> QED BY <1>6, <1>7, <1>12, <2>1, <2>2, OvSiteRun
<1>15. OvTxsOK'
 <2>1. \A v \in OvSites, t \in OvTxns : t \in ov_site'[v].stored \/ t \in Range(ov_ran'[v]) =>
         t \in ov_site[v].stored \/ t \in Range(ov_ran[v]) \/ (v = s /\ t = u /\ ov_site'[s].tx[u].dispatched)
   BY <1>3, <1>10, <1>13
 <2>2. ov_site'[s].tx[u].has = OvPiecesAt(u, ov_lay.par[s]) /\ ov_site'[s].tx[u].ts = ov_coord[u].ts BY <1>9, <1>11
 <2> QED
  <3>1. /\ ov_site[s].tx[u].dispatched => ov_site'[s].tx[u].dispatched
        /\ ov_site'[s].tx[u].has \subseteq OvPiecesAt(u, ov_lay.par[s])
        /\ ov_site'[s].tx[u].dispatched => /\ ov_coord[u].phase \in OvLater
                                           /\ ov_site'[s].tx[u].has = OvPiecesAt(u, ov_lay.par[s])
                                           /\ ov_site'[s].tx[u].ts = ov_coord[u].ts BY <1>5, <1>13, <2>2
  <3> QED BY <1>1, <1>3, <1>12, <2>1, <3>1, OvSiteTx
<1>16. OvRanOK' BY <1>1, <1>3 DEF OvRanOK
<1> QED BY <1>14, <1>15, <1>16 DEF OvRunInv

LEMMA OvOnExecuteRun ==
  ASSUME OvInv, OvRunInv, NEW c \in DOMAIN ov_net, OvOnExecute(c), ov_lay' = ov_lay
  PROVE OvRunInv'
<1>1. OvRanOK /\ OvNetsOK /\ OvTxsOK /\ OvTypeOK /\ ov_net[c] # <<>> /\ Head(ov_net[c]).type = "Execute"
  BY DEF OvRunInv, OvOnExecute, Receives, OvInv
<1>2. PICK u \in OvTxns, s \in OvSites :
        /\ c = <<OvCoord(u), OvSite(s)>> /\ c[1][2] = u /\ c[2][2] = s
        /\ OvSlotMsg(ov_lay, ov_coord[u], u, c, Head(ov_net[c]))
        /\ ov_site[s].tx[u].dispatched BY <1>1, OvCalled
<1> DEFINE n == [type |-> "ExecuteAck"]
<1>3. ov_site \in [OvSites -> OvSiteRec] /\ ov_site[s].tx \in [OvTxns -> OvTxRec] BY <1>1 DEF OvTypeOK, OvSiteRec
<1>4. ov_coord[u].phase \in OvLater BY <1>1, <1>2 DEF OvSlotMsg, OvAfters
<1>5. OvSlotMsg(ov_lay, ov_coord[u], u, <<OvSite(s), OvCoord(u)>>, n) /\ n.type # "Execute"
  BY <1>4 DEF OvSlotMsg, OvTokens, OvParts, OvAfters
<1>6. \A m : OvApart(Head(ov_net[c]), m) => OvApart(n, m) BY <1>1 DEF OvApart, OvTokens, OvParts
<1> DEFINE tx(st) == [ov_site[s].tx EXCEPT ![u].status = st, ![u].asked = TRUE]
<1>7. /\ ov_coord' = ov_coord
      /\ \E st : ov_site' = [ov_site EXCEPT ![s].tx = tx(st)]
                 \/ ov_site' = [ov_site EXCEPT ![s].tx = tx(st), ![s].stored = @ \ {u}]
      /\ ov_ran' = ov_ran \/ ov_ran' = [ov_ran EXCEPT ![s] = Append(@, u)]
      /\ ov_net' = OvTaken(c) \/ ov_net' = Calls(OvTaken(c), c[2], {To({c[1]}, n)})
 <2>1. ov_coord' = ov_coord BY DEF OvOnExecute
 <2>2. \/ /\ ov_site' = [ov_site EXCEPT ![s].tx[u].status = "CAN_EXECUTE", ![s].tx[u].asked = TRUE]
          /\ ov_net' = OvTaken(c) /\ ov_ran' = ov_ran
       \/ /\ ov_site' = [ov_site EXCEPT ![s].tx[u].status = "EXECUTED", ![s].tx[u].asked = TRUE,
                                        ![s].stored = @ \ {u}]
          /\ ov_ran' = [ov_ran EXCEPT ![s] = Append(@, u)]
          /\ ov_net' = OvReply(c, n) BY <1>2 DEF OvOnExecute
 <2>3. [ov_site EXCEPT ![s].tx[u].status = "CAN_EXECUTE", ![s].tx[u].asked = TRUE]
         = [ov_site EXCEPT ![s].tx = tx("CAN_EXECUTE")] BY <1>3 DEF OvSiteRec
 <2>4. [ov_site EXCEPT ![s].tx[u].status = "EXECUTED", ![s].tx[u].asked = TRUE, ![s].stored = @ \ {u}]
         = [ov_site EXCEPT ![s].tx = tx("EXECUTED"), ![s].stored = @ \ {u}] BY <1>3 DEF OvSiteRec
 <2> HIDE DEF tx, n
 <2>5. CASE ov_site' = [ov_site EXCEPT ![s].tx = tx("CAN_EXECUTE")] /\ ov_net' = OvTaken(c) /\ ov_ran' = ov_ran
   BY <2>1, <2>5
 <2>6. CASE /\ ov_site' = [ov_site EXCEPT ![s].tx = tx("EXECUTED"), ![s].stored = @ \ {u}]
            /\ ov_ran' = [ov_ran EXCEPT ![s] = Append(@, u)] /\ ov_net' = OvReply(c, n) BY <2>1, <2>6 DEF OvReply
 <2> QED BY <2>2, <2>3, <2>4, <2>5, <2>6
<1>8. PICK st : ov_site' = [ov_site EXCEPT ![s].tx = tx(st)]
                \/ ov_site' = [ov_site EXCEPT ![s].tx = tx(st), ![s].stored = @ \ {u}] BY <1>7
<1>9. /\ \A t \in OvTxns : t # u => tx(st)[t] = ov_site[s].tx[t]
      /\ tx(st)[u].has = ov_site[s].tx[u].has /\ tx(st)[u].ts = ov_site[s].tx[u].ts
      /\ tx(st)[u].dispatched = ov_site[s].tx[u].dispatched BY <1>3 DEF OvTxRec
<1> HIDE DEF n, tx
<1>10. /\ \A v \in OvSites : v # s => ov_site'[v] = ov_site[v]
       /\ ov_site'[s].tx = tx(st)
       /\ ov_site'[s].stored \subseteq ov_site[s].stored BY <1>3, <1>8 DEF OvSiteRec
<1>11. /\ \A v \in OvSites, t \in OvTxns : v # s \/ t # u => ov_site'[v].tx[t] = ov_site[v].tx[t]
       /\ ov_site'[s].tx[u].dispatched
       /\ ov_site'[s].tx[u].has = ov_site[s].tx[u].has /\ ov_site'[s].tx[u].ts = ov_site[s].tx[u].ts
 <2>1. \A t \in OvTxns : t # u => ov_site'[s].tx[t] = ov_site[s].tx[t] BY <1>9, <1>10
 <2>2. \A v \in OvSites, t \in OvTxns : v # s \/ t # u => ov_site'[v].tx[t] = ov_site[v].tx[t] BY <1>10, <2>1
 <2>3. ov_site'[s].tx[u].dispatched
  <3>1. tx(st)[u].dispatched = ov_site[s].tx[u].dispatched BY <1>9
  <3>2. ov_site[s].tx[u].dispatched BY <1>2
  <3>3. tx(st)[u].dispatched BY <3>1, <3>2
  <3> QED BY <1>10, <3>3
 <2> QED BY <1>9, <1>10, <2>2, <2>3
<1>12. OvNetsOK'
 <2>1. CASE ov_net' = Calls(OvTaken(c), c[2], {To({c[1]}, n)}) BY <1>1, <1>2, <1>5, <1>6, <1>7, <1>11, <2>1, OvSiteRun
 <2>2. CASE ov_net' = OvTaken(c)
  <3>1. DOMAIN ov_net = OvConns BY <1>1 DEF OvTypeOK
  <3>2. OvTaken(c) = Calls(OvTaken(c), c[2], {}) BY <3>1 DEF Calls, OvTaken, Taken
  <3> QED BY <1>1, <1>2, <1>5, <1>6, <1>7, <1>11, <2>2, <3>2, OvSiteRun
 <2> QED BY <1>7, <2>1, <2>2
<1>13. OvRanOK' /\ \A v \in OvSites : \A t \in Range(ov_ran'[v]) : t \in Range(ov_ran[v]) \/ (v = s /\ t = u)
 <2>1. CASE ov_ran' = ov_ran BY <1>1, <2>1 DEF OvRanOK
 <2>2. CASE ov_ran' = [ov_ran EXCEPT ![s] = Append(@, u)]
  <3>1. ov_ran \in [OvSites -> Seq(OvTxns)] /\ ov_ran[s] \in Seq(OvTxns) BY <1>1 DEF OvRanOK
  <3>2. /\ Append(ov_ran[s], u) \in Seq(OvTxns)
        /\ \A t \in Range(Append(ov_ran[s], u)) : t \in Range(ov_ran[s]) \/ t = u BY <3>1 DEF Range
  <3>3. OvRanOK' BY <2>2, <3>1, <3>2 DEF OvRanOK
  <3> QED BY <2>2, <3>1, <3>2, <3>3
 <2> QED BY <1>7, <2>1, <2>2
<1>14. OvTxsOK'
 <2>1. \A v \in OvSites, t \in OvTxns : t \in ov_site'[v].stored \/ t \in Range(ov_ran'[v]) =>
         t \in ov_site[v].stored \/ t \in Range(ov_ran[v]) \/ (v = s /\ t = u /\ ov_site'[s].tx[u].dispatched)
   BY <1>10, <1>11, <1>13
 <2>2. ov_site'[s].tx[u].has = OvPiecesAt(u, ov_lay.par[s]) /\ ov_site'[s].tx[u].ts = ov_coord[u].ts
   BY <1>1, <1>2, <1>11 DEF OvTxsOK, OvTxOK
 <2> QED BY <1>1, <1>4, <1>7, <1>11, <2>1, <2>2, OvSiteTx
<1> QED BY <1>12, <1>13, <1>14 DEF OvRunInv

-----
(* OnPublish. *)

(* A finite set of transactions can be listed by id (stored_txns_by_id_). *)
LEMMA OvById ==
  ASSUME NEW R \in SUBSET OvTxns
  PROVE \E q \in [1 .. Cardinality(R) -> R] : \A i, j \in DOMAIN q : i < j => q[i] < q[j]
<1> DEFINE Sorted(q, n) == \A i, j \in 1 .. n : i < j => q[i] < q[j]
           HasOrder(U) == \E q \in [1 .. Cardinality(U) -> U] : Sorted(q, Cardinality(U))
           Bad == {U \in FiniteSubsetsOf(R) : ~HasOrder(U)}
<1>1. IsFiniteSet(R) /\ R \subseteq Nat BY OvAssumption, FS_Subset
<1>2. SUFFICES ASSUME ~HasOrder(R) PROVE FALSE OBVIOUS
<1>3. Bad \subseteq FiniteSubsetsOf(R) /\ Bad # {} BY <1>1, <1>2 DEF FiniteSubsetsOf
<1>4. PICK U \in Bad : \A V \in Bad : ~(<<V, U>> \in StrictSubsetOrdering(R))
  BY <1>1, <1>3, WFMin, FS_StrictSubsetOrderingWellFounded
<1>5. IsFiniteSet(U) /\ U \subseteq R /\ Cardinality(U) \in Nat /\ ~HasOrder(U)
  BY <1>4, FS_CardinalityType DEF FiniteSubsetsOf
<1>6. U # {}
 <2>1. SUFFICES ASSUME U = {} PROVE HasOrder(U) BY <1>5
 <2>2. Cardinality(U) = 0 BY <2>1, FS_EmptySet
 <2>3. \A q : Sorted(q, 0) OBVIOUS
 <2>4. [i \in 1 .. 0 |-> i] \in [1 .. 0 -> U] OBVIOUS
 <2> QED BY <2>2, <2>3, <2>4
<1>7. PICK x \in U : \A e \in U : x <= e BY <1>1, <1>5, <1>6, OvSmallest
<1> DEFINE V == U \ {x}
           n == Cardinality(V)
<1>8. IsFiniteSet(V) /\ n \in Nat /\ Cardinality(U) = n + 1
 <2>1. IsFiniteSet(V) /\ Cardinality(V) = Cardinality(U) - 1 BY <1>5, <1>7, FS_RemoveElement
 <2>2. Cardinality(V) \in Nat BY <2>1, FS_CardinalityType
 <2> QED BY <1>5, <2>1, <2>2
<1>9. V \in FiniteSubsetsOf(R) /\ <<V, U>> \in StrictSubsetOrdering(R)
  BY <1>5, <1>7, <1>8 DEF FiniteSubsetsOf, StrictSubsetOrdering
<1>10. HasOrder(V) BY <1>4, <1>9
<1>11. PICK q \in [1 .. n -> V] : Sorted(q, n) BY <1>10
<1>12. \A e \in V : e \in U /\ e # x OBVIOUS
<1> HIDE DEF n, V
<1> DEFINE p == [i \in 1 .. (n + 1) |-> IF i = 1 THEN x ELSE q[i - 1]]
<1>13. \A i \in 1 .. (n + 1) : i # 1 => i - 1 \in 1 .. n /\ p[i] = q[i - 1] /\ q[i - 1] \in V BY <1>8, <1>11
<1>14. p[1] = x BY <1>8
<1>15. p \in [1 .. (n + 1) -> U] BY <1>7, <1>12, <1>13, <1>14
<1> HIDE DEF p
<1>16. Sorted(p, n + 1)
 <2> SUFFICES ASSUME NEW i \in 1 .. (n + 1), NEW j \in 1 .. (n + 1), i < j PROVE p[i] < p[j] OBVIOUS
 <2>1. j # 1 /\ j - 1 \in 1 .. n /\ p[j] = q[j - 1] /\ q[j - 1] \in V BY <1>8, <1>13
 <2>2. CASE i = 1
  <3>1. p[j] \in U /\ p[j] # x /\ p[j] \in Nat /\ x \in Nat /\ x <= p[j] BY <1>1, <1>5, <1>7, <1>12, <2>1
  <3> QED BY <1>14, <2>2, <3>1
 <2>3. CASE i # 1
  <3>1. i - 1 \in 1 .. n /\ p[i] = q[i - 1] /\ i - 1 < j - 1 BY <1>8, <1>13, <2>3
  <3> QED BY <1>11, <2>1, <3>1
 <2> QED BY <2>2, <2>3
<1>17. HasOrder(U) BY <1>8, <1>15, <1>16
<1> QED BY <1>5, <1>17

(* What OnPublish executes was stored. *)
LEMMA OvReleasedStored ==
  ASSUME NEW x \in OvSiteRec, NEW vw
  PROVE OvReleased(x, vw) \in Seq(OvTxns) /\ Range(OvReleased(x, vw)) \subseteq x.stored
<1> DEFINE S == {t \in x.stored : OvLess(x.tx[t].ts, vw) /\ x.tx[t].status = "CAN_EXECUTE"}
           run == OvReleased(x, vw)
<1>1. S \in SUBSET OvTxns /\ S \subseteq x.stored BY DEF OvSiteRec
<1>2. run = CHOOSE q \in [1 .. Cardinality(S) -> S] : \A i, j \in DOMAIN q : i < j => q[i] < q[j] BY DEF OvReleased
<1> HIDE DEF S, run
<1>3. run \in [1 .. Cardinality(S) -> S] BY <1>1, <1>2, OvById
<1>4. Cardinality(S) \in Nat BY <1>1, OvAssumption, FS_Subset, FS_CardinalityType
<1>5. run \in [1 .. Cardinality(S) -> OvTxns] BY <1>1, <1>3
<1>6. run \in Seq(OvTxns) BY <1>4, <1>5
<1>7. Range(run) \subseteq x.stored BY <1>1, <1>3 DEF Range
<1> QED BY <1>6, <1>7 DEF run

(* A message that is apart from every other. *)
LEMMA OvAckApart ==
  ASSUME NEW m, m.type \in OvAfters
  PROVE \A n : OvApart(m, n) /\ OvApart(n, m) BY DEF OvApart, OvAfters, OvTokens, OvParts

LEMMA OvOnPublishRun ==
  ASSUME OvInv, OvRunInv, NEW c \in DOMAIN ov_net, OvOnPublish(c), ov_lay' = ov_lay
  PROVE OvRunInv'
<1>1. c \in OvConns /\ OvMsgOK(ov_lay, ov_site, Head(ov_net[c]), c) /\ OvNet(ov_net) /\ ov_net[c] # <<>>
      /\ Head(ov_net[c]).type = "Publish" BY OvHead DEF OvInv, OvOnPublish, Receives
<1>2. OvRanOK /\ OvNetsOK /\ OvTxsOK /\ OvTypeOK BY DEF OvRunInv, OvInv
<1>3. PICK d \in OvDcs, s \in OvSites : c = <<OvGoss(d), OvSite(s)>> BY <1>1 DEF OvMsgOK, OvPublishes
<1>4. c[1][2] = d /\ c[2][2] = s /\ c[1] = OvGoss(d) /\ c[2] = OvSite(s) BY <1>3 DEF OvGoss, OvSite
<1> DEFINE w == Head(ov_net[c]).ts
           x == ov_site[s]
           ack == [type |-> "ExecuteAck"]
           run == IF OvLess(x.vw, w) THEN OvReleased(x, w) ELSE <<>>
           calls(rep) == {To({OvCoord(t) : t \in Range(run)}, ack), To({c[1]}, [type |-> "PublishAck", ts |-> rep])}
<1>5. \E vw, last, rep :
        /\ ov_site' = [ov_site EXCEPT ![s].vw = vw, ![s].last = last, ![s].stored = @ \ Range(run)]
        /\ ov_net' = Calls(OvTaken(c), c[2], calls(rep))
        /\ ov_ran' = [ov_ran EXCEPT ![s] = @ \o run]
        /\ ov_coord' = ov_coord
 <2>1. PICK now \in OvNow :
         /\ ov_site' = [ov_site EXCEPT ![s].vw = OvRaise(x.vw, w), ![s].last = OvServerVWatermark(x, s, now).last,
                                       ![s].stored = @ \ Range(run)]
         /\ ov_net' = Calls(OvTaken(c), c[2], calls(OvServerVWatermark(x, s, now).ts))
         /\ ov_ran' = [ov_ran EXCEPT ![s] = @ \o run]
         /\ ov_coord' = ov_coord BY <1>4 DEF OvOnPublish
 <2> HIDE DEF w, x, run, calls
 <2> QED BY <2>1
<1>6. PICK vw, last, rep :
        /\ ov_site' = [ov_site EXCEPT ![s].vw = vw, ![s].last = last, ![s].stored = @ \ Range(run)]
        /\ ov_net' = Calls(OvTaken(c), c[2], calls(rep))
        /\ ov_ran' = [ov_ran EXCEPT ![s] = @ \o run]
        /\ ov_coord' = ov_coord BY <1>5
<1>7. ov_site \in [OvSites -> OvSiteRec] /\ x \in OvSiteRec BY <1>2 DEF OvTypeOK
<1>8. run \in Seq(OvTxns) /\ Range(run) \subseteq x.stored
 <2>1. CASE OvLess(x.vw, w)
  <3> HIDE DEF w, x
  <3> QED BY <1>7, <2>1, OvReleasedStored
 <2>2. CASE ~OvLess(x.vw, w)
  <3>1. <<>> \in Seq(OvTxns) /\ Range(<<>>) = {} BY DEF Range
  <3> QED BY <2>2, <3>1
 <2> QED BY <2>1, <2>2
<1>9. \A e \in calls(rep) : (e.msg = ack /\ e.to = {OvCoord(t) : t \in Range(run)}) \/ e.to = {c[1]} BY DEF To
<1> DEFINE C == calls(rep)
<1> HIDE DEF run, w, C
<1>10. \A v \in OvSites : ov_site'[v].tx = ov_site[v].tx /\ ov_site'[v].stored \subseteq ov_site[v].stored
 <2> DEFINE z == [ov_site[s] EXCEPT !.vw = vw, !.last = last, !.stored = @ \ Range(run)]
 <2>1. ov_site' = [ov_site EXCEPT ![s] = z] BY <1>6, <1>7 DEF OvSiteRec
 <2>2. z.tx = ov_site[s].tx /\ z.stored \subseteq ov_site[s].stored BY <1>7 DEF OvSiteRec
 <2> HIDE DEF z
 <2> QED BY <1>7, <2>1, <2>2
<1>11. OvRanOK' /\ \A v \in OvSites : \A t \in Range(ov_ran'[v]) : t \in Range(ov_ran[v]) \/ t \in ov_site[v].stored
 <2>1. ov_ran \in [OvSites -> Seq(OvTxns)] /\ ov_ran[s] \in Seq(OvTxns) BY <1>2 DEF OvRanOK
 <2>2. /\ ov_ran[s] \o run \in Seq(OvTxns)
       /\ \A t \in Range(ov_ran[s] \o run) : t \in Range(ov_ran[s]) \/ t \in Range(run) BY <1>8, <2>1 DEF Range
 <2>3. OvRanOK' BY <1>6, <2>1, <2>2 DEF OvRanOK
 <2> QED BY <1>6, <1>8, <2>1, <2>2, <2>3
<1>12. OvTxsOK' BY <1>2, <1>6, <1>10, <1>11, OvSiteSame
<1>13. /\ OvMoved(ov_net, ov_net', c)
       /\ \A k \in OvConns : Len(ov_net'[k]) = OvRest(ov_net, c, k) + 1 =>
            k[1] = c[2] /\ \E e \in C : k[2] \in e.to /\ ov_net'[k][Len(ov_net'[k])] = e.msg
 <2>1. ov_net' = Calls(Taken(ov_net, c), c[2], C) BY <1>6 DEF C, OvTaken
 <2> QED BY <1>1, <2>1, OvMoves
<1>14. ASSUME NEW t \in OvTxns PROVE OvNetOK(ov_lay, ov_coord[t], ov_site', ov_net', t)
 <2> DEFINE p == ov_coord[t]
            b == ov_site'
            new == ov_net'
 <2>1. OvSlotsOK(ov_lay, p, ov_site, ov_net, t) /\ OvStoresOK(ov_lay, p, ov_site, ov_net, t)
   BY <1>2 DEF OvNetsOK, OvNetOK
 <2>2. OvStay(ov_lay, p, ov_net, t, c) BY <2>1 DEF OvSlotsOK, OvSlotOK, OvStay
 <2>3. OvCoord(t) # OvGoss(d) /\ \A u : OvCoord(u) = OvCoord(t) => u = t BY DEF OvCoord, OvGoss
 <2>4. c \notin OvTalks(t) BY <1>4, <2>3, OvTalksAre DEF OvTalks
 <2>5. OvKeep(ov_site, b, ov_net, t, c)
  <3>1. \A v \in OvSites : c # <<OvCoord(t), OvSite(v)>> BY <1>4, <2>3
  <3> QED BY <1>10, <3>1 DEF OvKeep
 <2>6. ASSUME NEW k \in OvTalks(t), Len(new[k]) = OvRest(ov_net, c, k) + 1
       PROVE new[k][Len(new[k])] = ack /\ t \in Range(run)
  <3>1. k \in OvConns /\ k[1] = OvSite(s) BY <1>4, <1>13, <2>6, OvTalksAre
  <3>2. k[2] = OvCoord(t) BY <3>1, OvTalksAre DEF OvTalks
  <3>3. PICK e \in C : k[2] \in e.to /\ new[k][Len(new[k])] = e.msg BY <1>13, <2>6, <3>1
  <3>4. (e.msg = ack /\ e.to = {OvCoord(u) : u \in Range(run)}) \/ e.to = {c[1]} BY <1>9 DEF C
  <3>5. e.to # {c[1]} BY <1>4, <2>3, <3>2, <3>3
  <3> QED BY <2>3, <3>2, <3>3, <3>4, <3>5
 <2>7. ASSUME t \in Range(run) PROVE \A k : OvSlotMsg(ov_lay, p, t, k, ack)
  <3>1. p.phase \in OvLater BY <1>2, <1>8, <2>7 DEF OvTxsOK, OvTxOK
  <3> QED BY <3>1 DEF OvSlotMsg, OvTokens, OvParts, OvAfters
 <2>8. ack.type # "Execute" /\ \A n : OvApart(ack, n) /\ OvApart(n, ack) BY OvAckApart DEF OvAfters
 <2> HIDE DEF p, b, new, ack
 <2>9. OvAdded(ov_lay, p, ov_site, ov_net, new, t, c) BY <2>6, <2>7, <2>8 DEF OvAdded
 <2>10. OvMoved(ov_net, new, c) BY <1>13 DEF new
 <2>11. OvSlotsOK(ov_lay, p, b, new, t) BY <1>1, <2>1, <2>2, <2>5, <2>9, <2>10, OvSlotsStep
 <2>12. OvStoresOK(ov_lay, p, b, new, t) BY <1>1, <2>1, <2>5, <2>10, OvStoresStep
 <2> QED BY <2>11, <2>12 DEF OvNetOK, p, b, new
<1>15. OvNetsOK' BY <1>6, <1>14 DEF OvNetsOK
<1> QED BY <1>11, <1>12, <1>15 DEF OvRunInv

(* The gossipers leave the transactions alone. *)
LEMMA OvGossipersRun ==
  ASSUME OvInv, OvRunInv, ov_lay' = ov_lay, ov_coord' = ov_coord, ov_site' = ov_site, ov_ran' = ov_ran,
         \A t \in OvTxns : \A k \in OvTalks(t) : ov_net'[k] = ov_net[k]
  PROVE OvRunInv'
<1>1. OvRanOK /\ OvNetsOK /\ OvTxsOK BY DEF OvRunInv
<1>2. ASSUME NEW t \in OvTxns PROVE OvNetOK(ov_lay, ov_coord[t], ov_site, ov_net', t)
 <2>1. OvSlotsOK(ov_lay, ov_coord[t], ov_site, ov_net, t) /\ OvStoresOK(ov_lay, ov_coord[t], ov_site, ov_net, t)
   BY <1>1 DEF OvNetsOK, OvNetOK
 <2>2. \A k \in OvTalks(t) : ov_net'[k] = ov_net[k] OBVIOUS
 <2>3. \A s \in OvSites : ov_site[s].tx[t] = ov_site[s].tx[t] OBVIOUS
 <2> QED BY <2>1, <2>2, <2>3, OvUntouched DEF OvNetOK
<1>3. OvNetsOK' BY <1>2 DEF OvNetsOK
<1>4. OvTxsOK' BY <1>1 DEF OvTxsOK
<1>5. OvRanOK' BY <1>1 DEF OvRanOK
<1> QED BY <1>3, <1>4, <1>5 DEF OvRunInv

(* A gossiper is at no connection of a transaction. *)
LEMMA OvGossipersApart ==
  ASSUME NEW t \in OvTxns, NEW k \in OvTalks(t), NEW d
  PROVE k[1] # OvGoss(d) /\ k[2] # OvGoss(d)
<1>1. PICK s \in OvSites : k = <<OvCoord(t), OvSite(s)>> \/ k = <<OvSite(s), OvCoord(t)>> BY OvTalksAre
<1>2. OvCoord(t) # OvGoss(d) /\ OvSite(s) # OvGoss(d) BY DEF OvCoord, OvSite, OvGoss
<1> QED BY <1>1, <1>2

LEMMA OvGossipersStep ==
  ASSUME OvInv, OvRunInv, ov_lay' = ov_lay,
         (\E d \in OvDcs : OvAggregate(d) \/ OvAggregateLoop(d) \/ OvGossip(d) \/ OvGossipLoop(d))
         \/ (\E c \in DOMAIN ov_net : OvPublishAck(c) \/ OvOnExchange(c) \/ OvExchangeAck(c))
  PROVE OvRunInv'
<1>1. DOMAIN ov_net = OvConns BY DEF OvInv, OvTypeOK
<1>2. ASSUME NEW t \in OvTxns, NEW k \in OvTalks(t), NEW net, NEW d, NEW calls, DOMAIN net = OvConns
      PROVE Calls(net, OvGoss(d), calls)[k] = net[k]
 <2>1. k \in DOMAIN net /\ k[1] # OvGoss(d) BY <1>2, OvTalksAre, OvGossipersApart
 <2> QED BY <2>1 DEF Calls
<1>3. ASSUME NEW t \in OvTxns, NEW k \in OvTalks(t), NEW c, NEW d, c[2] = OvGoss(d)
      PROVE OvTaken(c)[k] = ov_net[k] /\ DOMAIN OvTaken(c) = OvConns
 <2>1. k \in OvConns /\ k # c BY <1>3, OvTalksAre, OvGossipersApart
 <2> QED BY <1>1, <2>1 DEF OvTaken, Taken
<1>4. CASE \E d \in OvDcs : OvAggregate(d) \/ OvAggregateLoop(d) \/ OvGossip(d) \/ OvGossipLoop(d)
 <2>1. PICK d \in OvDcs : OvAggregate(d) \/ OvAggregateLoop(d) \/ OvGossip(d) \/ OvGossipLoop(d) BY <1>4
 <2>2. /\ ov_coord' = ov_coord /\ ov_site' = ov_site /\ ov_ran' = ov_ran
       /\ ov_net' = ov_net \/ \E calls : ov_net' = Calls(ov_net, OvGoss(d), calls)
   BY <2>1 DEF OvAggregate, OvAggregateLoop, OvGossip, OvGossipLoop
 <2>3. \A t \in OvTxns : \A k \in OvTalks(t) : ov_net'[k] = ov_net[k] BY <1>1, <1>2, <2>2
 <2> QED BY <2>2, <2>3, OvGossipersRun
<1>5. CASE \E c \in DOMAIN ov_net : OvPublishAck(c) \/ OvOnExchange(c) \/ OvExchangeAck(c)
 <2>1. PICK c \in DOMAIN ov_net : OvPublishAck(c) \/ OvOnExchange(c) \/ OvExchangeAck(c) BY <1>5
 <2>2. /\ ov_coord' = ov_coord /\ ov_site' = ov_site /\ ov_ran' = ov_ran
       /\ ov_net' = OvTaken(c) \/ \E calls : ov_net' = Calls(OvTaken(c), c[2], calls)
       /\ ov_net[c] # <<>> /\ Head(ov_net[c]).type \in {"PublishAck", "Exchange", "ExchangeAck"}
   BY <2>1 DEF OvPublishAck, OvOnExchange, OvExchangeAck, OvReply, Receives
 <2>3. OvMsgOK(ov_lay, ov_site, Head(ov_net[c]), c) BY <2>2, OvHead DEF OvInv
 <2>4. PICK d : c[2] = OvGoss(d) BY <2>2, <2>3 DEF OvMsgOK, OvReports, OvGossips
 <2>5. \A t \in OvTxns : \A k \in OvTalks(t) : ov_net'[k] = ov_net[k]
  <3> SUFFICES ASSUME NEW t \in OvTxns, NEW k \in OvTalks(t) PROVE ov_net'[k] = ov_net[k] OBVIOUS
  <3>1. OvTaken(c)[k] = ov_net[k] /\ DOMAIN OvTaken(c) = OvConns BY <1>3, <2>4
  <3>2. \A calls : Calls(OvTaken(c), OvGoss(d), calls)[k] = OvTaken(c)[k]
   <4> DEFINE net == OvTaken(c)
   <4> HIDE DEF net
   <4>1. DOMAIN net = OvConns BY <3>1 DEF net
   <4>2. \A calls : Calls(net, OvGoss(d), calls)[k] = net[k] BY <1>2, <4>1
   <4> QED BY <4>2 DEF net
  <3> QED BY <2>2, <2>4, <3>1, <3>2
 <2> QED BY <2>2, <2>5, OvGossipersRun
<1> QED BY <1>4, <1>5

-----
(* The coordinators. *)

(* What the coordinator of u may send when its record becomes q and it has taken the
   first message on c. *)
OvCallOK(q, u, c, e, k) ==
  /\ OvSlotMsg(ov_lay, q, u, k, e.msg)
  /\ e.msg.type = "Execute" =>
       ov_site[k[2][2]].tx[u].dispatched \/ OvStoreIn(ov_net, u, k[2][2], Len(ov_net[k]))
  /\ \A l \in OvTalks(u) : \A j \in 1 .. Len(ov_net[l]) :
       l # c \/ j # 1 => OvApart(e.msg, ov_net[l][j])
OvCallsOK(q, u, c, calls) ==
  /\ \A e \in calls : \A k \in OvTalks(u) : k[1] = OvCoord(u) /\ k[2] \in e.to => OvCallOK(q, u, c, e, k)
  /\ \A e, f \in calls : \A a \in e.to, b \in f.to : a # b => OvApart(e.msg, f.msg)

(* How the record may change. *)
OvRecordOK(p, q) ==
  /\ p.phase # "OV_INIT"
  /\ p.phase \in OvLater => q.phase \in OvLater /\ q.ts = p.ts
  /\ q.acked \subseteq q.out
  /\ q.phase \in {"OV_INIT", "OV_CREATED_TS"} => q.acked = {}

(* The calls tell every replica to store. *)
OvStoresAll(u, calls) ==
  /\ \A s \in OvSites : ov_lay.par[s] \in OvPars(u) => \E e \in calls : OvSite(s) \in e.to
  /\ \A e \in calls : e.msg.type = "Store"

LEMMA OvCoordRun ==
  ASSUME OvInv, OvRunInv, ov_lay' = ov_lay, NEW u \in OvTxns, NEW c \in OvTalks(u), c[2] = OvCoord(u),
         ov_net[c] # <<>>, NEW q, NEW calls,
         ov_net' = Calls(OvTaken(c), OvCoord(u), calls), ov_coord' = [ov_coord EXCEPT ![u] = q],
         ov_site' = ov_site, ov_ran' = ov_ran,
         OvStay(ov_lay, q, ov_net, u, c), OvCallsOK(q, u, c, calls), OvRecordOK(ov_coord[u], q),
         q.phase \in OvLater => ov_coord[u].phase \in OvLater \/ OvStoresAll(u, calls)
  PROVE OvRunInv'
<1>1. OvRanOK /\ OvNetsOK /\ OvTxsOK /\ OvTypeOK BY DEF OvRunInv, OvInv
<1>2. c \in OvConns /\ OvNet(ov_net) /\ \E s \in OvSites : c = <<OvSite(s), OvCoord(u)>>
 <2>1. c \in OvConns /\ \E s \in OvSites : c = <<OvCoord(u), OvSite(s)>> \/ c = <<OvSite(s), OvCoord(u)>> BY OvTalksAre
 <2>2. \A s : OvCoord(u) # OvSite(s) BY OvTalksAre
 <2> QED BY <1>1, <2>1, <2>2 DEF OvTypeOK, OvNet
<1>3. /\ OvMoved(ov_net, ov_net', c)
      /\ \A k \in OvConns :
           /\ Len(ov_net'[k]) = OvRest(ov_net, c, k) + 1 =>
                k[1] = OvCoord(u) /\ \E e \in calls : k[2] \in e.to /\ ov_net'[k][Len(ov_net'[k])] = e.msg
           /\ k[1] = OvCoord(u) /\ (\E e \in calls : k[2] \in e.to) => Len(ov_net'[k]) = OvRest(ov_net, c, k) + 1
           /\ k # c /\ ~(k[1] = OvCoord(u) /\ \E e \in calls : k[2] \in e.to) => ov_net'[k] = ov_net[k]
  BY <1>2, OvMoves DEF OvTaken
<1>4. ov_coord'[u] = q /\ \A t \in OvTxns : t # u => ov_coord'[t] = ov_coord[t] BY <1>1 DEF OvTypeOK
<1>5. ASSUME NEW t \in OvTxns, t # u PROVE OvNetOK(ov_lay, ov_coord[t], ov_site, ov_net', t)
 <2>1. ASSUME NEW k \in OvTalks(t) PROVE ov_net'[k] = ov_net[k]
  <3>1. k \notin OvTalks(u) /\ k \in OvConns BY <1>5, OvTalksAre
  <3>2. k # c /\ k[1] # OvCoord(u) BY <3>1 DEF OvTalks
  <3> QED BY <1>3, <3>1, <3>2
 <2>2. OvSlotsOK(ov_lay, ov_coord[t], ov_site, ov_net, t) /\ OvStoresOK(ov_lay, ov_coord[t], ov_site, ov_net, t)
   BY <1>1 DEF OvNetsOK, OvNetOK
 <2>3. \A s \in OvSites : ov_site[s].tx[t] = ov_site[s].tx[t] OBVIOUS
 <2> QED BY <2>1, <2>2, <2>3, OvUntouched DEF OvNetOK
<1> DEFINE p == ov_coord[u]
           new == ov_net'
<1>6. OvSlotsOK(ov_lay, p, ov_site, ov_net, u) /\ OvStoresOK(ov_lay, p, ov_site, ov_net, u)
  BY <1>1 DEF OvNetsOK, OvNetOK
<1>7. OvKeep(ov_site, ov_site, ov_net, u, c)
 <2>1. \A s \in OvSites : c # <<OvCoord(u), OvSite(s)>> BY <1>2, OvTalksAre
 <2> QED BY <2>1 DEF OvKeep
<1>8. OvMoved(ov_net, new, c) BY <1>3
<1>9. OvAdded(ov_lay, q, ov_site, ov_net, new, u, c)
 <2>1. ASSUME NEW k \in OvTalks(u), Len(new[k]) = OvRest(ov_net, c, k) + 1
       PROVE  /\ k # c /\ k[1] = OvCoord(u) /\ k \in OvConns
              /\ \E e \in calls : k[2] \in e.to /\ new[k][Len(new[k])] = e.msg /\ OvCallOK(q, u, c, e, k)
  <3>1. k \in OvConns BY OvTalksAre
  <3>2. k[1] = OvCoord(u) /\ \E e \in calls : k[2] \in e.to /\ new[k][Len(new[k])] = e.msg BY <1>3, <2>1, <3>1
  <3>3. k # c BY <1>2, <3>2, OvTalksAre
  <3> QED BY <3>1, <3>2, <3>3 DEF OvCallsOK
 <2>2. ASSUME NEW k \in OvTalks(u), NEW l \in OvTalks(u), k # l,
              Len(new[k]) = OvRest(ov_net, c, k) + 1, Len(new[l]) = OvRest(ov_net, c, l) + 1
       PROVE OvApart(new[k][Len(new[k])], new[l][Len(new[l])])
  <3>1. PICK e \in calls : k[2] \in e.to /\ new[k][Len(new[k])] = e.msg BY <2>1, <2>2
  <3>2. PICK f \in calls : l[2] \in f.to /\ new[l][Len(new[l])] = f.msg BY <2>1, <2>2
  <3>3. k[1] = OvCoord(u) /\ l[1] = OvCoord(u) /\ k \in OvConns /\ l \in OvConns BY <2>1, <2>2
  <3>4. k = <<k[1], k[2]>> /\ l = <<l[1], l[2]>> BY <3>3, OvKinds
  <3>5. k[2] # l[2] BY <2>2, <3>3, <3>4
  <3> QED BY <3>1, <3>2, <3>5 DEF OvCallsOK
 <2> HIDE DEF new
 <2> QED BY <2>1, <2>2 DEF OvAdded, OvCallOK
<1> HIDE DEF p, new
<1>10. OvSlotsOK(ov_lay, q, ov_site, new, u) BY <1>2, <1>6, <1>7, <1>8, <1>9, OvSlotsStep
<1>11. OvStoresOK(ov_lay, q, ov_site, new, u)
 <2>1. CASE q.phase \in OvLater => p.phase \in OvLater BY <1>2, <1>6, <1>7, <1>8, <2>1, OvStoresStep
 <2>2. CASE OvStoresAll(u, calls)
  <3> SUFFICES ASSUME NEW s \in OvSites, ov_lay.par[s] \in OvPars(u)
               PROVE OvStoreIn(new, u, s, Len(new[<<OvCoord(u), OvSite(s)>>])) BY DEF OvStoresOK
  <3> DEFINE k == <<OvCoord(u), OvSite(s)>>
  <3>1. k \in OvConns /\ k[1] = OvCoord(u) /\ k[2] = OvSite(s) BY OvTalksAre
  <3>2. \E e \in calls : k[2] \in e.to BY <2>2, <3>1 DEF OvStoresAll
  <3>3. Len(new[k]) = OvRest(ov_net, c, k) + 1 BY <1>3, <3>1, <3>2 DEF new
  <3>4. \E e \in calls : new[k][Len(new[k])] = e.msg BY <1>3, <3>1, <3>3 DEF new
  <3>5. new[k][Len(new[k])].type = "Store" BY <2>2, <3>4 DEF OvStoresAll
  <3>6. OvRest(ov_net, c, k) \in Nat BY <1>8, <3>1 DEF OvMoved
  <3>7. Len(new[k]) \in 1 .. Len(new[k]) BY <3>3, <3>6
  <3> QED BY <3>5, <3>7 DEF OvStoreIn
 <2> QED BY <2>1, <2>2 DEF p
<1>12. OvNetsOK'
 <2>1. ASSUME NEW t \in OvTxns PROVE OvNetOK(ov_lay, ov_coord'[t], ov_site, ov_net', t)
  <3>1. CASE t = u BY <1>4, <1>10, <1>11, <3>1 DEF OvNetOK, new
  <3>2. CASE t # u BY <1>4, <1>5, <3>2
  <3> QED BY <3>1, <3>2
 <2> QED BY <2>1 DEF OvNetsOK
<1>13. OvTxsOK'
 <2>1. ASSUME NEW t \in OvTxns PROVE OvTxOK(ov_lay, ov_coord'[t], ov_site, ov_ran, t)
  <3>1. OvTxOK(ov_lay, ov_coord[t], ov_site, ov_ran, t) BY <1>1 DEF OvTxsOK
  <3>2. CASE t = u BY <1>4, <3>1, <3>2 DEF OvTxOK, OvRecordOK
  <3>3. CASE t # u BY <1>4, <3>1, <3>3
  <3> QED BY <3>2, <3>3
 <2> QED BY <2>1 DEF OvTxsOK
<1>14. OvRanOK' BY <1>1 DEF OvRanOK
<1> QED BY <1>12, <1>13, <1>14 DEF OvRunInv

(* An acknowledgement to the coordinator of u, and the other messages of u. *)
LEMMA OvAcked ==
  ASSUME OvInv, OvRunInv, NEW c \in DOMAIN ov_net, ov_net[c] # <<>>,
         Head(ov_net[c]).type \in {"CreateTsAck", "DispatchAck", "StoreAck", "StoredRemoveTsAck", "ExecuteAck"}
  PROVE  /\ c[2][2] \in OvTxns /\ c \in OvTalks(c[2][2]) /\ c[2] = OvCoord(c[2][2])
         /\ OvSlotMsg(ov_lay, ov_coord[c[2][2]], c[2][2], c, Head(ov_net[c]))
         /\ \A l \in OvTalks(c[2][2]) : \A j \in 1 .. Len(ov_net[l]) : l # c \/ j # 1 =>
              /\ OvSlotMsg(ov_lay, ov_coord[c[2][2]], c[2][2], l, ov_net[l][j])
              /\ OvApart(Head(ov_net[c]), ov_net[l][j])
         /\ OvTxOK(ov_lay, ov_coord[c[2][2]], ov_site, ov_ran, c[2][2])
         /\ ov_coord[c[2][2]] \in OvCoordRec
<1> DEFINE u == c[2][2]
<1>1. c \in OvConns /\ u \in OvTxns /\ c[2] = OvCoord(u) BY OvAck
<1>2. c \in OvTalks(u) BY <1>1 DEF OvTalks
<1> HIDE DEF u
<1>3. OvTypeOK /\ OvNetsOK /\ OvTxsOK BY DEF OvInv, OvRunInv
<1>4. /\ 1 \in 1 .. Len(ov_net[c]) /\ Head(ov_net[c]) = ov_net[c][1]
      /\ OvSlotMsg(ov_lay, ov_coord[u], u, c, Head(ov_net[c])) BY <1>1, <1>2, <1>3, OvFirst
<1>5. OvSlotsOK(ov_lay, ov_coord[u], ov_site, ov_net, u) BY <1>1, <1>3 DEF OvNetsOK, OvNetOK
<1>6. ASSUME NEW l \in OvTalks(u), NEW j \in 1 .. Len(ov_net[l]), l # c \/ j # 1
      PROVE  /\ OvSlotMsg(ov_lay, ov_coord[u], u, l, ov_net[l][j])
             /\ OvApart(Head(ov_net[c]), ov_net[l][j])
 <2>1. OvSlotOK(ov_lay, ov_coord[u], ov_site, ov_net, u, l, j) BY <1>5 DEF OvSlotsOK
 <2>2. OvApart(ov_net[c][1], ov_net[l][j]) BY <1>2, <1>4, <1>5, <1>6 DEF OvSlotsOK
 <2> QED BY <1>4, <2>1, <2>2 DEF OvSlotOK
<1>7. OvTxOK(ov_lay, ov_coord[u], ov_site, ov_ran, u) /\ ov_coord[u] \in OvCoordRec BY <1>1, <1>3 DEF OvTxsOK, OvTypeOK
<1> QED BY <1>1, <1>2, <1>4, <1>6, <1>7 DEF u

(* The calls of a coordinator past the dispatch. *)
OvLaterCalls(u, calls) ==
  \A e \in calls : /\ e.msg.type \in {"StoredRemoveTs", "Execute"}
                   /\ e.msg.type = "Execute" =>
                        \A n \in e.to : \E s \in OvSites : n = OvSite(s) /\ ov_lay.par[s] \in OvPars(u)

(* Past the dispatch the messages of a transaction do not exclude each other, and all
   that matters is that a call to execute comes after one to store. *)
LEMMA OvLaterRun ==
  ASSUME OvInv, OvRunInv, ov_lay' = ov_lay, NEW c \in DOMAIN ov_net, ov_net[c] # <<>>,
         Head(ov_net[c]).type \in {"StoreAck", "StoredRemoveTsAck", "ExecuteAck"},
         NEW x, NEW ph, NEW calls, OvGoto(c[2][2], x, ph, OvTaken(c), calls),
         x \in OvCoordRec, x.ts = ov_coord[c[2][2]].ts, x.out = ov_coord[c[2][2]].out,
         x.acked = ov_coord[c[2][2]].acked, ph \in OvLater \/ ph = ov_coord[c[2][2]].phase,
         OvLaterCalls(c[2][2], calls)
  PROVE OvRunInv'
<1> USE DEF OvLaterCalls
<1> DEFINE u == c[2][2]
           p == ov_coord[u]
           q == [x EXCEPT !.phase = ph]
<1>1. /\ u \in OvTxns /\ c \in OvTalks(u) /\ c[2] = OvCoord(u)
      /\ OvSlotMsg(ov_lay, p, u, c, Head(ov_net[c]))
      /\ \A l \in OvTalks(u) : \A j \in 1 .. Len(ov_net[l]) : l # c \/ j # 1 =>
           /\ OvSlotMsg(ov_lay, p, u, l, ov_net[l][j])
           /\ OvApart(Head(ov_net[c]), ov_net[l][j])
      /\ OvTxOK(ov_lay, p, ov_site, ov_ran, u) BY OvAcked
<1>2. /\ ov_net' = Calls(OvTaken(c), OvCoord(u), calls) /\ ov_coord' = [ov_coord EXCEPT ![u] = q]
      /\ ov_site' = ov_site /\ ov_ran' = ov_ran BY DEF OvGoto
<1>3. q.phase = ph /\ q.ts = p.ts /\ q.out = p.out /\ q.acked = p.acked BY DEF OvCoordRec
<1> HIDE DEF u, p, q
<1>4. p.phase \in OvLater /\ p.phase # "OV_INIT" BY <1>1 DEF OvSlotMsg, OvAfters, OvLater
<1>5. q.phase \in OvLater /\ q.phase \notin {"OV_INIT", "OV_CREATED_TS"} BY <1>3, <1>4 DEF OvLater, p, u
<1>6. OvStay(ov_lay, q, ov_net, u, c)
 <2>1. ASSUME NEW k \in OvTalks(u), NEW i \in 1 .. Len(ov_net[k]), k # c \/ i # 1
       PROVE OvSlotMsg(ov_lay, q, u, k, ov_net[k][i])
  <3> DEFINE m == ov_net[k][i]
  <3>1. OvSlotMsg(ov_lay, p, u, k, m) BY <1>1, <2>1
  <3> HIDE DEF m
  <3>2. OvSlotMsg(ov_lay, q, u, k, m) BY <1>3, <1>4, <1>5, <3>1 DEF OvSlotMsg, OvLater
  <3> QED BY <3>2 DEF m
 <2> QED BY <2>1 DEF OvStay
<1>7. OvRecordOK(p, q) BY <1>1, <1>3, <1>4, <1>5 DEF OvRecordOK, OvTxOK
<1>8. OvStoresOK(ov_lay, p, ov_site, ov_net, u) BY <1>1 DEF OvRunInv, OvNetsOK, OvNetOK, p
<1>9. ASSUME NEW e \in calls PROVE e.msg.type \in OvAfters BY DEF OvAfters
<1>10. ASSUME NEW e \in calls, NEW k \in OvTalks(u), k[1] = OvCoord(u), k[2] \in e.to PROVE OvCallOK(q, u, c, e, k)
 <2>1. e.msg.type \in {"StoredRemoveTs", "Execute"} OBVIOUS
 <2>2. OvSlotMsg(ov_lay, q, u, k, e.msg) BY <1>5, <1>10, <2>1 DEF OvSlotMsg, OvTokens, OvParts, OvAfters
 <2>3. \A n : OvApart(e.msg, n) BY <1>9, OvAckApart
 <2>4. ASSUME e.msg.type = "Execute"
       PROVE ov_site[k[2][2]].tx[u].dispatched \/ OvStoreIn(ov_net, u, k[2][2], Len(ov_net[k]))
  <3>1. PICK s \in OvSites : k[2] = OvSite(s) /\ ov_lay.par[s] \in OvPars(u) BY <1>10, <2>4 DEF u
  <3>2. k = <<OvCoord(u), OvSite(s)>> /\ k[2][2] = s
   <4>1. k \in OvConns /\ OvSite(s)[2] = s BY <1>1, OvTalksAre
   <4>2. k = <<k[1], k[2]>> BY <4>1, OvKinds
   <4> QED BY <1>10, <3>1, <4>1, <4>2
  <3> QED BY <1>4, <1>8, <3>1, <3>2 DEF OvStoresOK
 <2> QED BY <2>2, <2>3, <2>4 DEF OvCallOK
<1>11. OvCallsOK(q, u, c, calls)
 <2>1. \A e, f \in calls : OvApart(e.msg, f.msg) BY <1>9, OvAckApart
 <2> QED BY <1>10, <2>1 DEF OvCallsOK
<1> QED BY <1>1, <1>2, <1>4, <1>6, <1>7, <1>11, OvCoordRun DEF p

LEMMA OvLaterNone ==
  ASSUME OvInv, OvRunInv, ov_lay' = ov_lay, NEW c \in DOMAIN ov_net, ov_net[c] # <<>>,
         Head(ov_net[c]).type \in {"StoreAck", "StoredRemoveTsAck", "ExecuteAck"},
         NEW x, NEW ph, OvGoto(c[2][2], x, ph, OvTaken(c), {}),
         x \in OvCoordRec, x.ts = ov_coord[c[2][2]].ts, x.out = ov_coord[c[2][2]].out,
         x.acked = ov_coord[c[2][2]].acked, ph \in OvLater \/ ph = ov_coord[c[2][2]].phase
  PROVE OvRunInv'
<1> DEFINE none == {}
<1>1. OvLaterCalls(c[2][2], none) /\ OvGoto(c[2][2], x, ph, OvTaken(c), none) BY DEF OvLaterCalls
<1> HIDE DEF none
<1> QED BY <1>1, OvLaterRun

LEMMA OvStoreACKRun ==
  ASSUME OvInv, OvRunInv, NEW c \in DOMAIN ov_net, OvStoreACK(c), ov_lay' = ov_lay
  PROVE OvRunInv'
<1> DEFINE u == c[2][2]
           p == ov_coord[u]
           x == [p EXCEPT !.stores = @ \cup {Head(ov_net[c]).par}]
           remove == {To({OvSite(x.ts[2])}, [type |-> "StoredRemoveTs", ts |-> x.ts])}
<1>1. ov_net[c] # <<>> /\ Head(ov_net[c]).type = "StoreAck" BY DEF OvStoreACK, Receives
<1>2. u \in OvTxns /\ p \in OvCoordRec BY <1>1, OvAcked
<1>3. \/ OvGoto(u, p, p.phase, OvTaken(c), {})
      \/ OvGoto(u, x, "OV_EXECUTE", OvTaken(c), remove)
      \/ OvGoto(u, x, x.phase, OvTaken(c), {}) BY DEF OvStoreACK
<1>4. Head(ov_net[c]).par \in OvParSet BY <1>1, OvAck DEF OvMsgOK
<1>5. x \in OvCoordRec /\ x.ts = p.ts /\ x.out = p.out /\ x.acked = p.acked /\ x.phase = p.phase
  BY <1>2, <1>4 DEF OvCoordRec
<1>6. \A e \in remove : e.msg.type = "StoredRemoveTs" BY DEF To
<1>7. "OV_EXECUTE" \in OvLater BY DEF OvLater
<1> HIDE DEF x, remove
<1>8. CASE OvGoto(u, p, p.phase, OvTaken(c), {}) BY <1>1, <1>2, <1>8, OvLaterNone
<1>9. CASE OvGoto(u, x, "OV_EXECUTE", OvTaken(c), remove)
 <2>1. OvLaterCalls(u, remove) BY <1>6 DEF OvLaterCalls
 <2> QED BY <1>1, <1>5, <1>7, <1>9, <2>1, OvLaterRun
<1>10. CASE OvGoto(u, x, x.phase, OvTaken(c), {}) BY <1>1, <1>5, <1>10, OvLaterNone
<1> QED BY <1>3, <1>8, <1>9, <1>10

LEMMA OvStoredRemoveTsAckRun ==
  ASSUME OvInv, OvRunInv, NEW c \in DOMAIN ov_net, OvStoredRemoveTsAck(c), ov_lay' = ov_lay
  PROVE OvRunInv'
<1> DEFINE u == c[2][2]
           p == ov_coord[u]
<1>1. ov_net[c] # <<>> /\ Head(ov_net[c]).type = "StoredRemoveTsAck" BY DEF OvStoredRemoveTsAck, Receives
<1>2. u \in OvTxns /\ p \in OvCoordRec BY <1>1, OvAcked
<1>3. OvGoto(u, p, "OV_END", OvTaken(c), OvExecute(u)) BY DEF OvStoredRemoveTsAck
<1>4. ASSUME NEW e \in OvExecute(u)
      PROVE  /\ e.msg.type = "Execute"
             /\ \A n \in e.to : \E s \in OvSites : n = OvSite(s) /\ ov_lay.par[s] \in OvPars(u)
 <2>1. e = To({OvSite(s) : s \in UNION {OvReplicas(par) : par \in OvPars(u)}}, [type |-> "Execute"]) BY DEF OvExecute
 <2>2. e.msg.type = "Execute" /\ e.to = {OvSite(s) : s \in UNION {OvReplicas(par) : par \in OvPars(u)}} BY <2>1 DEF To
 <2> QED BY <2>2 DEF OvReplicas
<1>5. "OV_END" \in OvLater BY DEF OvLater
<1>6. OvLaterCalls(u, OvExecute(u)) BY <1>4 DEF OvLaterCalls
<1> QED BY <1>1, <1>2, <1>3, <1>5, <1>6, OvLaterRun

LEMMA OvExecuteAckRun ==
  ASSUME OvInv, OvRunInv, NEW c \in DOMAIN ov_net, OvExecuteAck(c), ov_lay' = ov_lay
  PROVE OvRunInv'
<1> DEFINE u == c[2][2]
           p == ov_coord[u]
           ph == IF p.phase = "OV_END" THEN "done" ELSE p.phase
<1>1. ov_net[c] # <<>> /\ Head(ov_net[c]).type = "ExecuteAck" BY DEF OvExecuteAck, Receives
<1>2. u \in OvTxns /\ p \in OvCoordRec BY <1>1, OvAcked
<1>3. OvGoto(u, p, ph, OvTaken(c), {}) BY DEF OvExecuteAck
<1>4. ph \in OvLater \/ ph = p.phase BY DEF OvLater
<1> HIDE DEF ph
<1> QED BY <1>1, <1>2, <1>3, <1>4, OvLaterNone

(* The calls of Dispatch: one for each partition, to one of its replicas. *)
LEMMA OvDispatchCalls ==
  ASSUME ov_lay \in OvLayouts, NEW u \in OvTxns, u \in ov_lay.txns, NEW x
  PROVE  /\ \A e \in OvDispatch(u, x) : \E s \in OvSites :
              /\ e.to = {OvSite(s)} /\ e.msg.type = "Dispatch" /\ e.msg.pieces # {}
              /\ e.msg.pieces \subseteq OvReady(u, x) /\ e.msg.pieces \subseteq OvPiecesAt(u, ov_lay.par[s])
         /\ \A e, f \in OvDispatch(u, x) : \A a \in e.to, b \in f.to : a # b => e.msg.pieces \cap f.msg.pieces = {}
<1> DEFINE ready == OvReady(u, x)
           site(par) == CHOOSE s \in OvReplicas(par) : OvReplicas(par) \cap OvNear[u] = {} \/ s \in OvNear[u]
<1>1. ASSUME NEW e \in OvDispatch(u, x)
      PROVE  \E par : /\ e.to = {OvSite(site(par))} /\ site(par) \in OvSites /\ ov_lay.par[site(par)] = par
                      /\ e.msg.type = "Dispatch" /\ e.msg.pieces = ready \cap OvPiecesAt(u, par)
                      /\ e.msg.pieces # {}
 <2>1. PICK par \in {OvPieceOf[p].par : p \in ready} :
         e = To({OvSite(site(par))}, [type |-> "Dispatch", pieces |-> ready \cap OvPiecesAt(u, par)]) BY DEF OvDispatch
 <2>2. PICK p \in ready : par = OvPieceOf[p].par OBVIOUS
 <2>3. p \in OvPieces(u) /\ p \in OvPiecesAt(u, par) /\ p \in DOMAIN OvPieceOf /\ OvPieceOf[p].txn = u
   BY <2>2 DEF OvReady, OvPieces, OvPiecesAt
 <2>4. PICK r \in OvSites : ov_lay.par[r] = par BY <2>2, <2>3, OvPlacement
 <2>5. r \in OvReplicas(par) BY <2>4 DEF OvReplicas
 <2>6. \E s \in OvReplicas(par) : OvReplicas(par) \cap OvNear[u] = {} \/ s \in OvNear[u] BY <2>5
 <2>7. site(par) \in OvReplicas(par) BY <2>6
 <2> HIDE DEF site, ready
 <2>8. site(par) \in OvSites /\ ov_lay.par[site(par)] = par BY <2>7 DEF OvReplicas
 <2> QED BY <2>1, <2>2, <2>3, <2>8 DEF To
<1> HIDE DEF site
<1>2. ASSUME NEW e \in OvDispatch(u, x)
      PROVE  \E s \in OvSites :
               /\ e.to = {OvSite(s)} /\ e.msg.type = "Dispatch" /\ e.msg.pieces # {}
               /\ e.msg.pieces \subseteq OvReady(u, x) /\ e.msg.pieces \subseteq OvPiecesAt(u, ov_lay.par[s])
 <2>1. PICK par : /\ e.to = {OvSite(site(par))} /\ site(par) \in OvSites /\ ov_lay.par[site(par)] = par
                  /\ e.msg.type = "Dispatch" /\ e.msg.pieces = ready \cap OvPiecesAt(u, par)
                  /\ e.msg.pieces # {} BY <1>1
 <2> QED BY <2>1
<1>3. ASSUME NEW e \in OvDispatch(u, x), NEW f \in OvDispatch(u, x), NEW a \in e.to, NEW b \in f.to, a # b
      PROVE e.msg.pieces \cap f.msg.pieces = {}
 <2>1. PICK par : e.to = {OvSite(site(par))} /\ e.msg.pieces = ready \cap OvPiecesAt(u, par) BY <1>1
 <2>2. PICK rap : f.to = {OvSite(site(rap))} /\ f.msg.pieces = ready \cap OvPiecesAt(u, rap) BY <1>1
 <2>3. par # rap BY <1>3, <2>1, <2>2
 <2>4. OvPiecesAt(u, par) \cap OvPiecesAt(u, rap) = {} BY <2>3 DEF OvPiecesAt
 <2> QED BY <2>1, <2>2, <2>4
<1> QED BY <1>2, <1>3

(* The other messages of u are about pieces that were sent before. *)
OvOthersSent(u, c, S) ==
  \A l \in OvTalks(u) : \A j \in 1 .. Len(ov_net[l]) :
    l # c \/ j # 1 => ov_net[l][j].type \in OvParts /\ ov_net[l][j].pieces \cap S = {}

LEMMA OvDispatching ==
  ASSUME ov_lay \in OvLayouts, NEW u \in OvTxns, u \in ov_lay.txns, NEW x, NEW q, NEW c,
         q.phase = "OV_DISPATHED", OvReady(u, x) \subseteq q.out \ q.acked,
         OvOthersSent(u, c, OvReady(u, x))
  PROVE OvCallsOK(q, u, c, OvDispatch(u, x))
<1>1. ASSUME NEW e \in OvDispatch(u, x)
      PROVE  \E s \in OvSites :
               /\ e.to = {OvSite(s)} /\ e.msg.type = "Dispatch" /\ e.msg.pieces # {}
               /\ e.msg.pieces \subseteq OvReady(u, x) /\ e.msg.pieces \subseteq OvPiecesAt(u, ov_lay.par[s])
  BY OvDispatchCalls
<1>2. ASSUME NEW e \in OvDispatch(u, x), NEW k \in OvTalks(u), k[1] = OvCoord(u), k[2] \in e.to
      PROVE OvCallOK(q, u, c, e, k)
 <2>1. PICK s \in OvSites :
         /\ e.to = {OvSite(s)} /\ e.msg.type = "Dispatch" /\ e.msg.pieces # {}
         /\ e.msg.pieces \subseteq OvReady(u, x) /\ e.msg.pieces \subseteq OvPiecesAt(u, ov_lay.par[s]) BY <1>1
 <2>2. k[2][2] = s BY <1>2, <2>1, OvTalksAre
 <2>3. e.msg.type # "Execute" /\ OvSlotMsg(ov_lay, q, u, k, e.msg)
   BY <1>2, <2>1, <2>2 DEF OvSlotMsg, OvTokens, OvParts, OvAfters
 <2>4. ASSUME NEW l \in OvTalks(u), NEW j \in 1 .. Len(ov_net[l]), l # c \/ j # 1 PROVE OvApart(e.msg, ov_net[l][j])
  <3>1. ov_net[l][j].type \in OvParts /\ ov_net[l][j].pieces \cap OvReady(u, x) = {} BY <2>4 DEF OvOthersSent
  <3> QED BY <2>1, <3>1 DEF OvApart, OvTokens, OvParts
 <2> QED BY <2>3, <2>4 DEF OvCallOK
<1>3. ASSUME NEW e \in OvDispatch(u, x), NEW f \in OvDispatch(u, x), NEW a \in e.to, NEW b \in f.to, a # b
      PROVE OvApart(e.msg, f.msg)
 <2>1. e.msg.type = "Dispatch" /\ f.msg.type = "Dispatch" BY <1>1
 <2>2. e.msg.pieces \cap f.msg.pieces = {} BY <1>3, OvDispatchCalls
 <2> QED BY <2>1, <2>2 DEF OvApart, OvTokens, OvParts
<1> QED BY <1>2, <1>3 DEF OvCallsOK

LEMMA OvCreateTsAckRun ==
  ASSUME OvInv, OvRunInv, NEW c \in DOMAIN ov_net, OvCreateTsAck(c), ov_lay' = ov_lay
  PROVE OvRunInv'
<1> DEFINE u == c[2][2]
           p == ov_coord[u]
           m == Head(ov_net[c])
           x == [p EXCEPT !.ts = m.ts]
           y == [x EXCEPT !.out = OvReady(u, x)]
           q == [y EXCEPT !.phase = "OV_DISPATHED"]
           calls == OvDispatch(u, x)
<1>1. ov_net[c] # <<>> /\ m.type = "CreateTsAck" BY DEF OvCreateTsAck, Receives
<1>2. /\ u \in OvTxns /\ c \in OvTalks(u) /\ c[2] = OvCoord(u)
      /\ OvSlotMsg(ov_lay, p, u, c, m)
      /\ \A l \in OvTalks(u) : \A j \in 1 .. Len(ov_net[l]) : l # c \/ j # 1 =>
           OvSlotMsg(ov_lay, p, u, l, ov_net[l][j]) /\ OvApart(m, ov_net[l][j])
      /\ OvTxOK(ov_lay, p, ov_site, ov_ran, u) /\ p \in OvCoordRec BY <1>1, OvAcked
<1>3. OvGoto(u, y, "OV_DISPATHED", OvTaken(c), calls) BY DEF OvCreateTsAck
<1>4. /\ ov_net' = Calls(OvTaken(c), OvCoord(u), calls) /\ ov_coord' = [ov_coord EXCEPT ![u] = q]
      /\ ov_site' = ov_site /\ ov_ran' = ov_ran BY <1>3 DEF OvGoto
<1>5. p.phase = "OV_CREATED_TS" BY <1>1, <1>2 DEF OvSlotMsg, OvTokens
<1>6. p.acked = {} /\ u \in ov_lay.txns BY <1>2, <1>5 DEF OvTxOK
<1>7. ov_lay \in OvLayouts BY DEF OvInv, OvTypeOK
<1>8. q.phase = "OV_DISPATHED" /\ q.out = OvReady(u, x) /\ q.acked = {}
 <2>1. x.acked = p.acked /\ y.acked = x.acked /\ q.acked = y.acked /\ y.out = OvReady(u, x) /\ q.out = y.out
       /\ q.phase = "OV_DISPATHED" BY <1>2 DEF OvCoordRec
 <2> QED BY <1>6, <2>1
<1> HIDE DEF q, x, calls, p, u, m
<1>9. ASSUME NEW l \in OvTalks(u), NEW j \in 1 .. Len(ov_net[l]), l # c \/ j # 1 PROVE FALSE
 <2>1. OvSlotMsg(ov_lay, p, u, l, ov_net[l][j]) /\ OvApart(m, ov_net[l][j]) BY <1>2, <1>9
 <2> QED BY <1>1, <1>5, <2>1 DEF OvSlotMsg, OvApart, OvTokens, OvParts, OvAfters, OvLater
<1>10. OvStay(ov_lay, q, ov_net, u, c) /\ OvOthersSent(u, c, OvReady(u, x)) BY <1>9 DEF OvStay, OvOthersSent
<1>11. OvReady(u, x) \subseteq q.out \ q.acked BY <1>8
<1>12. OvCallsOK(q, u, c, calls) BY <1>2, <1>6, <1>7, <1>8, <1>10, <1>11, OvDispatching DEF calls
<1>13. OvRecordOK(p, q) /\ q.phase \notin OvLater BY <1>5, <1>8 DEF OvRecordOK, OvLater
<1> QED BY <1>1, <1>2, <1>4, <1>10, <1>12, <1>13, OvCoordRun DEF p

(* The calls of OVStore: every replica of every partition. *)
LEMMA OvStoring ==
  ASSUME NEW u \in OvTxns, NEW q, NEW c, q.phase \in OvLater
  PROVE OvCallsOK(q, u, c, OvStore(u, q.ts)) /\ OvStoresAll(u, OvStore(u, q.ts))
<1>1. ASSUME NEW e \in OvStore(u, q.ts)
      PROVE  \E par \in OvPars(u) : /\ e.to = {OvSite(s) : s \in OvReplicas(par)}
                                    /\ e.msg.type = "Store" /\ e.msg.ts = q.ts /\ e.msg.pieces = OvPiecesAt(u, par)
 <2>1. PICK par \in OvPars(u) : e = To({OvSite(s) : s \in OvStoreTo(u)[par]},
                                       [type |-> "Store", ts |-> q.ts, pieces |-> OvPiecesAt(u, par)]) BY DEF OvStore
 <2>2. OvStoreTo(u)[par] = OvReplicas(par) BY DEF OvStoreTo
 <2> QED BY <2>1, <2>2 DEF To
<1>2. ASSUME NEW e \in OvStore(u, q.ts), NEW k \in OvTalks(u), k[1] = OvCoord(u), k[2] \in e.to
      PROVE OvCallOK(q, u, c, e, k)
 <2>1. PICK par \in OvPars(u) : /\ e.to = {OvSite(s) : s \in OvReplicas(par)}
                                /\ e.msg.type = "Store" /\ e.msg.ts = q.ts /\ e.msg.pieces = OvPiecesAt(u, par) BY <1>1
 <2>2. PICK s \in OvReplicas(par) : k[2] = OvSite(s) BY <1>2, <2>1
 <2>3. k[2][2] = s /\ ov_lay.par[s] = par BY <2>2, OvTalksAre DEF OvReplicas
 <2>4. e.msg.type # "Execute" /\ OvSlotMsg(ov_lay, q, u, k, e.msg)
   BY <1>2, <2>1, <2>3 DEF OvSlotMsg, OvTokens, OvParts, OvAfters
 <2>5. \A n : OvApart(e.msg, n) BY <2>1, OvAckApart DEF OvAfters
 <2> QED BY <2>4, <2>5 DEF OvCallOK
<1>3. ASSUME NEW e \in OvStore(u, q.ts) PROVE e.msg.type = "Store" /\ \A n : OvApart(e.msg, n)
 <2>1. e.msg.type = "Store" BY <1>1
 <2> QED BY <2>1, OvAckApart DEF OvAfters
<1>4. ASSUME NEW s \in OvSites, ov_lay.par[s] \in OvPars(u) PROVE \E e \in OvStore(u, q.ts) : OvSite(s) \in e.to
 <2> DEFINE par == ov_lay.par[s]
            e == To({OvSite(v) : v \in OvStoreTo(u)[par]}, [type |-> "Store", ts |-> q.ts, pieces |-> OvPiecesAt(u, par)])
 <2>1. e \in OvStore(u, q.ts) BY <1>4 DEF OvStore
 <2>2. OvStoreTo(u)[par] = OvReplicas(par) /\ s \in OvReplicas(par) BY <1>4 DEF OvStoreTo, OvReplicas
 <2>3. e.to = {OvSite(v) : v \in OvStoreTo(u)[par]} BY DEF To
 <2> HIDE DEF e
 <2> QED BY <2>1, <2>2, <2>3
<1>5. OvStoresAll(u, OvStore(u, q.ts)) BY <1>3, <1>4 DEF OvStoresAll
<1> QED BY <1>2, <1>3, <1>5 DEF OvCallsOK

LEMMA OvDispatchAckRun ==
  ASSUME OvInv, OvRunInv, NEW c \in DOMAIN ov_net, OvDispatchAck(c), ov_lay' = ov_lay
  PROVE OvRunInv'
<1> DEFINE u == c[2][2]
           p == ov_coord[u]
           m == Head(ov_net[c])
           x == [p EXCEPT !.acked = @ \cup m.pieces]
           y == [x EXCEPT !.out = @ \cup OvReady(u, x)]
<1>1. ov_net[c] # <<>> /\ m.type = "DispatchAck" BY DEF OvDispatchAck, Receives
<1>2. /\ u \in OvTxns /\ c \in OvTalks(u) /\ c[2] = OvCoord(u)
      /\ OvSlotMsg(ov_lay, p, u, c, m)
      /\ \A l \in OvTalks(u) : \A j \in 1 .. Len(ov_net[l]) : l # c \/ j # 1 =>
           OvSlotMsg(ov_lay, p, u, l, ov_net[l][j]) /\ OvApart(m, ov_net[l][j])
      /\ OvTxOK(ov_lay, p, ov_site, ov_ran, u) /\ p \in OvCoordRec BY <1>1, OvAcked
<1>3. \/ OvGoto(u, y, "OV_DISPATHED", OvTaken(c), OvDispatch(u, x))
      \/ x.acked = x.out /\ OvGoto(u, x, "OV_STORED", OvTaken(c), OvStore(u, x.ts))
      \/ OvGoto(u, x, x.phase, OvTaken(c), {}) BY DEF OvDispatchAck
<1>4. p.phase = "OV_DISPATHED" /\ m.pieces \subseteq p.out \ p.acked BY <1>1, <1>2 DEF OvSlotMsg, OvParts
<1>5. p.acked \subseteq p.out /\ u \in ov_lay.txns BY <1>2, <1>4 DEF OvTxOK
<1>6. ov_lay \in OvLayouts BY DEF OvInv, OvTypeOK
<1> DEFINE A == p.acked \cup m.pieces
           R == OvReady(u, x)
<1>7. x.acked = A /\ x.out = p.out /\ x.ts = p.ts /\ x.phase = "OV_DISPATHED" BY <1>2, <1>4 DEF OvCoordRec
<1>8. A \subseteq p.out /\ R \cap p.out = {}
 <2>1. R \cap x.out = {} BY DEF OvReady
 <2> QED BY <1>4, <1>5, <1>7, <2>1
<1>9. \A ph : LET q == [y EXCEPT !.phase = ph]
              IN  q.phase = ph /\ q.out = p.out \cup R /\ q.acked = A /\ q.ts = p.ts
 <2>1. y.out = x.out \cup R /\ y.acked = x.acked /\ y.ts = x.ts
       /\ \A ph : LET q == [y EXCEPT !.phase = ph]
                  IN  q.phase = ph /\ q.out = y.out /\ q.acked = y.acked /\ q.ts = y.ts BY <1>2 DEF OvCoordRec
 <2> HIDE DEF x, y
 <2> QED BY <1>7, <2>1
<1>10. \A ph : LET q == [x EXCEPT !.phase = ph]
               IN  q.phase = ph /\ q.out = p.out /\ q.acked = A /\ q.ts = p.ts
 <2>1. \A ph : LET q == [x EXCEPT !.phase = ph]
               IN  q.phase = ph /\ q.out = x.out /\ q.acked = x.acked /\ q.ts = x.ts BY <1>2 DEF OvCoordRec
 <2> HIDE DEF x
 <2> QED BY <1>7, <2>1
<1> HIDE DEF x, y, A, R, p, u, m
<1>11. ASSUME NEW l \in OvTalks(u), NEW j \in 1 .. Len(ov_net[l]), l # c \/ j # 1
       PROVE  LET n == ov_net[l][j]
              IN  /\ OvSlotMsg(ov_lay, p, u, l, n) /\ n.type \in OvParts
                  /\ n.pieces # {} /\ n.pieces \subseteq p.out \ A
 <2> DEFINE n == ov_net[l][j]
 <2>1. OvSlotMsg(ov_lay, p, u, l, n) /\ OvApart(m, n) BY <1>2, <1>11
 <2> HIDE DEF n
 <2>2. n.type \in OvParts /\ n.pieces # {} /\ n.pieces \subseteq p.out \ p.acked
   BY <1>4, <2>1 DEF OvSlotMsg, OvTokens, OvParts, OvAfters, OvLater
 <2>3. n.pieces \cap m.pieces = {} BY <1>1, <2>1, <2>2 DEF OvApart, OvParts
 <2> QED BY <2>1, <2>2, <2>3 DEF A, n
<1>12. ASSUME NEW q, q.phase = "OV_DISPATHED", p.out \subseteq q.out, q.acked = A PROVE OvStay(ov_lay, q, ov_net, u, c)
 <2>1. ASSUME NEW l \in OvTalks(u), NEW j \in 1 .. Len(ov_net[l]), l # c \/ j # 1
       PROVE OvSlotMsg(ov_lay, q, u, l, ov_net[l][j])
  <3> DEFINE n == ov_net[l][j]
  <3>1. OvSlotMsg(ov_lay, p, u, l, n) /\ n.type \in OvParts /\ n.pieces # {} /\ n.pieces \subseteq q.out \ q.acked
    BY <1>11, <1>12, <2>1
  <3> HIDE DEF n
  <3>2. OvSlotMsg(ov_lay, q, u, l, n) BY <1>12, <3>1 DEF OvSlotMsg, OvTokens, OvParts, OvAfters
  <3> QED BY <3>2 DEF n
 <2> QED BY <2>1 DEF OvStay
<1>13. ASSUME NEW q, q.phase \in {"OV_DISPATHED", "OV_STORED"}, p.out \subseteq q.out, q.acked = A
       PROVE OvRecordOK(p, q) BY <1>4, <1>8, <1>13 DEF OvRecordOK, OvLater
<1>14. CASE OvGoto(u, y, "OV_DISPATHED", OvTaken(c), OvDispatch(u, x))
 <2> DEFINE q == [y EXCEPT !.phase = "OV_DISPATHED"]
 <2>1. /\ ov_net' = Calls(OvTaken(c), OvCoord(u), OvDispatch(u, x)) /\ ov_coord' = [ov_coord EXCEPT ![u] = q]
       /\ ov_site' = ov_site /\ ov_ran' = ov_ran BY <1>14 DEF OvGoto
 <2>2. q.phase = "OV_DISPATHED" /\ q.out = p.out \cup R /\ q.acked = A BY <1>9
 <2> HIDE DEF q
 <2>3. OvStay(ov_lay, q, ov_net, u, c) /\ OvRecordOK(p, q) /\ q.phase \notin OvLater BY <1>12, <1>13, <2>2 DEF OvLater
 <2>4. OvOthersSent(u, c, OvReady(u, x)) /\ OvReady(u, x) \subseteq q.out \ q.acked
   BY <1>8, <1>11, <2>2 DEF OvOthersSent, R
 <2>5. OvCallsOK(q, u, c, OvDispatch(u, x)) BY <1>2, <1>5, <1>6, <2>2, <2>4, OvDispatching
 <2> QED BY <1>1, <1>2, <2>1, <2>3, <2>5, OvCoordRun DEF p
<1>15. CASE x.acked = x.out /\ OvGoto(u, x, "OV_STORED", OvTaken(c), OvStore(u, x.ts))
 <2> DEFINE q == [x EXCEPT !.phase = "OV_STORED"]
 <2>1. /\ ov_net' = Calls(OvTaken(c), OvCoord(u), OvStore(u, x.ts)) /\ ov_coord' = [ov_coord EXCEPT ![u] = q]
       /\ ov_site' = ov_site /\ ov_ran' = ov_ran BY <1>15 DEF OvGoto
 <2>2. q.phase = "OV_STORED" /\ q.out = p.out /\ q.acked = A /\ q.ts = x.ts BY <1>7, <1>10
 <2> HIDE DEF q
 <2>3. ASSUME NEW l \in OvTalks(u), NEW j \in 1 .. Len(ov_net[l]), l # c \/ j # 1 PROVE FALSE
   BY <1>7, <1>11, <1>15, <2>3
 <2>4. OvStay(ov_lay, q, ov_net, u, c) BY <2>3 DEF OvStay
 <2>5. OvRecordOK(p, q) /\ q.phase \in OvLater BY <1>13, <2>2 DEF OvLater
 <2>6. OvCallsOK(q, u, c, OvStore(u, x.ts)) /\ OvStoresAll(u, OvStore(u, x.ts)) BY <1>2, <2>2, <2>5, OvStoring
 <2> QED BY <1>1, <1>2, <2>1, <2>4, <2>5, <2>6, OvCoordRun DEF p
<1>16. CASE OvGoto(u, x, x.phase, OvTaken(c), {})
 <2> DEFINE q == [x EXCEPT !.phase = x.phase]
            none == {}
 <2>1. /\ ov_net' = Calls(OvTaken(c), OvCoord(u), none) /\ ov_coord' = [ov_coord EXCEPT ![u] = q]
       /\ ov_site' = ov_site /\ ov_ran' = ov_ran BY <1>16 DEF OvGoto
 <2>2. q.phase = "OV_DISPATHED" /\ q.out = p.out /\ q.acked = A BY <1>7, <1>10
 <2>3. OvCallsOK(q, u, c, none) BY DEF OvCallsOK
 <2> HIDE DEF q, none
 <2>4. OvStay(ov_lay, q, ov_net, u, c) /\ OvRecordOK(p, q) /\ q.phase \notin OvLater BY <1>12, <1>13, <2>2 DEF OvLater
 <2> QED BY <1>1, <1>2, <2>1, <2>3, <2>4, OvCoordRun DEF p
<1> QED BY <1>3, <1>14, <1>15, <1>16

(* Nothing is on its way for a transaction that has not begun. *)
LEMMA OvCreateTsRun ==
  ASSUME OvInv, OvRunInv, NEW u \in OvTxns, OvCreateTs(u), ov_lay' = ov_lay
  PROVE OvRunInv'
<1>1. OvRanOK /\ OvNetsOK /\ OvTxsOK /\ OvTypeOK BY DEF OvRunInv, OvInv
<1> DEFINE p == ov_coord[u]
           q == [p EXCEPT !.phase = "OV_CREATED_TS"]
           m == [type |-> "CreateTs"]
<1>2. PICK s \in OvNear[u] : OvGoto(u, p, "OV_CREATED_TS", ov_net, {To({OvSite(s)}, m)}) BY DEF OvCreateTs
<1> DEFINE calls == {To({OvSite(s)}, m)}
           new == ov_net'
<1>3. /\ ov_net' = Calls(ov_net, OvCoord(u), calls) /\ ov_coord' = [ov_coord EXCEPT ![u] = q]
      /\ ov_site' = ov_site /\ ov_ran' = ov_ran /\ p.phase = "OV_INIT" /\ u \in ov_lay.txns
  BY <1>2 DEF OvGoto, OvCreateTs
<1>4. OvNet(ov_net) /\ p \in OvCoordRec /\ ov_coord \in [OvTxns -> OvCoordRec] BY <1>1 DEF OvTypeOK, OvNet
<1>5. q.phase = "OV_CREATED_TS" /\ q.acked = p.acked /\ q.out = p.out BY <1>4 DEF OvCoordRec
<1>6. ASSUME NEW k \in OvConns
      PROVE  /\ k[1] # OvCoord(u) => ov_net'[k] = ov_net[k]
             /\ ov_net'[k] = ov_net[k] \/ (k[2] = OvSite(s) /\ ov_net'[k] = Append(ov_net[k], m))
 <2> DEFINE to == {e \in calls : k[2] \in e.to}
 <2>1. ov_net'[k] = IF k[1] = OvCoord(u) /\ to # {} THEN Append(ov_net[k], (CHOOSE e \in to : TRUE).msg)
                    ELSE ov_net[k] BY <1>3, <1>4 DEF Calls, OvNet
 <2>2. \A e \in to : e.msg = m /\ e.to = {OvSite(s)} /\ k[2] \in e.to BY DEF To
 <2> HIDE DEF to
 <2>3. CASE to = {} BY <2>1, <2>3
 <2>4. CASE to # {}
  <3>1. (CHOOSE e \in to : TRUE) \in to BY <2>4
  <3>2. (CHOOSE e \in to : TRUE).msg = m /\ k[2] = OvSite(s) BY <2>2, <3>1
  <3> QED BY <2>1, <3>2
 <2> QED BY <2>3, <2>4
<1> HIDE DEF q, calls
<1>7. ov_coord'[u] = q /\ \A t \in OvTxns : t # u => ov_coord'[t] = ov_coord[t] BY <1>3, <1>4
<1>8. ASSUME NEW t \in OvTxns, t # u PROVE OvNetOK(ov_lay, ov_coord[t], ov_site, ov_net', t)
 <2>1. ASSUME NEW k \in OvTalks(t) PROVE ov_net'[k] = ov_net[k]
  <3>1. k \notin OvTalks(u) /\ k \in OvConns BY <1>8, OvTalksAre
  <3>2. k[1] # OvCoord(u) BY <3>1 DEF OvTalks
  <3> QED BY <1>6, <3>1, <3>2
 <2>2. OvSlotsOK(ov_lay, ov_coord[t], ov_site, ov_net, t) /\ OvStoresOK(ov_lay, ov_coord[t], ov_site, ov_net, t)
   BY <1>1 DEF OvNetsOK, OvNetOK
 <2>3. \A v \in OvSites : ov_site[v].tx[t] = ov_site[v].tx[t] OBVIOUS
 <2> QED BY <2>1, <2>2, <2>3, OvUntouched DEF OvNetOK
<1>9. ASSUME NEW k \in OvTalks(u) PROVE Len(ov_net[k]) = 0 /\ ov_net[k] = <<>> /\ k \in OvConns
 <2>1. k \in OvConns BY OvTalksAre
 <2>2. PICK S : ov_net[k] \in Seq(S) BY <1>4, <2>1 DEF OvNet
 <2>3. ASSUME NEW i \in 1 .. Len(ov_net[k]) PROVE FALSE
  <3>1. OvSlotMsg(ov_lay, p, u, k, ov_net[k][i]) BY <1>1 DEF OvNetsOK, OvNetOK, OvSlotsOK, OvSlotOK
  <3> QED BY <1>3, <3>1 DEF OvSlotMsg, OvTokens, OvParts, OvAfters, OvLater
 <2>4. Len(ov_net[k]) \in Nat /\ ~(1 \in 1 .. Len(ov_net[k])) BY <2>2, <2>3
 <2>5. Len(ov_net[k]) = 0 BY <2>4
 <2> QED BY <2>1, <2>2, <2>5
<1>10. ASSUME NEW k \in OvTalks(u), NEW i \in 1 .. Len(new[k])
       PROVE i = 1 /\ new[k][i] = m /\ k = <<OvCoord(u), OvSite(s)>>
 <2>1. k \in OvConns /\ ov_net[k] = <<>> /\ Len(ov_net[k]) = 0 BY <1>9
 <2>2. new[k] = ov_net[k] \/ (k[2] = OvSite(s) /\ new[k] = Append(ov_net[k], m)) BY <1>6, <2>1
 <2>3. new[k] # ov_net[k] BY <1>10, <2>1
 <2>4. k[1] = OvCoord(u) /\ k[2] = OvSite(s) /\ new[k] = <<m>> BY <1>6, <2>1, <2>2, <2>3
 <2>5. k = <<k[1], k[2]>> BY <2>1, OvKinds
 <2>6. i = 1 /\ new[k][1] = m BY <1>10, <2>4
 <2> QED BY <2>4, <2>5, <2>6
<1> HIDE DEF new, p
<1>11. \A k : OvSlotMsg(ov_lay, q, u, k, m) <=> (m.type \in {"Dispatch", "Store", "Execute"} => k[1] = OvCoord(u))
  BY <1>5 DEF OvSlotMsg, OvTokens, OvParts, OvAfters
<1>12. OvSlotsOK(ov_lay, q, ov_site, new, u)
 <2>1. ASSUME NEW k \in OvTalks(u), NEW i \in 1 .. Len(new[k]) PROVE OvSlotOK(ov_lay, q, ov_site, new, u, k, i)
   BY <1>10, <1>11 DEF OvSlotOK
 <2>2. \A k, l \in OvTalks(u) : \A i \in 1 .. Len(new[k]), j \in 1 .. Len(new[l]) : ~(k # l \/ i # j) BY <1>10
 <2> QED BY <2>1, <2>2 DEF OvSlotsOK
<1>13. OvStoresOK(ov_lay, q, ov_site, new, u) BY <1>5 DEF OvStoresOK, OvLater
<1>14. OvNetsOK'
 <2>1. ASSUME NEW t \in OvTxns PROVE OvNetOK(ov_lay, ov_coord'[t], ov_site, ov_net', t)
  <3>1. CASE t = u BY <1>7, <1>12, <1>13, <3>1 DEF OvNetOK, new
  <3>2. CASE t # u BY <1>7, <1>8, <3>2
  <3> QED BY <3>1, <3>2
 <2> QED BY <1>3, <2>1 DEF OvNetsOK
<1>15. OvTxsOK'
 <2>1. ASSUME NEW t \in OvTxns PROVE OvTxOK(ov_lay, ov_coord'[t], ov_site, ov_ran, t)
  <3>1. OvTxOK(ov_lay, ov_coord[t], ov_site, ov_ran, t) BY <1>1 DEF OvTxsOK
  <3>2. CASE t = u BY <1>3, <1>5, <1>7, <3>1, <3>2 DEF OvTxOK, OvLater, p
  <3>3. CASE t # u BY <1>7, <3>1, <3>3
  <3> QED BY <3>2, <3>3
 <2> QED BY <1>3, <2>1 DEF OvTxsOK
<1>16. OvRanOK' BY <1>1, <1>3 DEF OvRanOK
<1> QED BY <1>14, <1>15, <1>16 DEF OvRunInv

-----
LEMMA OvInitRun == OvInit => OvRunInv
<1> SUFFICES ASSUME OvInit PROVE OvRunInv OBVIOUS
<1>1. /\ ov_coord = [t \in OvTxns |-> OvFreshCoord] /\ ov_ran = [s \in OvSites |-> <<>>]
      /\ ov_net = [c \in OvConns |-> <<>>] BY DEF OvInit
<1>2. PICK last \in [OvSites -> OvFresh] : ov_site = [s \in OvSites |-> OvFreshSite(last[s])] BY DEF OvInit
<1>3. ASSUME NEW t \in OvTxns
      PROVE ov_coord[t].phase = "OV_INIT" /\ ov_coord[t].out = {} /\ ov_coord[t].acked = {} BY <1>1 DEF OvFreshCoord
<1>4. ASSUME NEW s \in OvSites, NEW t \in OvTxns
      PROVE  /\ ov_site[s].tx[t].has = {} /\ ~ov_site[s].tx[t].dispatched /\ ov_site[s].stored = {}
             /\ Range(ov_ran[s]) = {} BY <1>1, <1>2 DEF OvFreshSite, OvNoTx, Range
<1>5. OvRanOK BY <1>1 DEF OvRanOK
<1>6. OvTxsOK BY <1>3, <1>4 DEF OvTxsOK, OvTxOK
<1>7. OvNetsOK
 <2> SUFFICES ASSUME NEW t \in OvTxns
              PROVE OvSlotsOK(ov_lay, ov_coord[t], ov_site, ov_net, t) /\ OvStoresOK(ov_lay, ov_coord[t], ov_site, ov_net, t)
   BY DEF OvNetsOK, OvNetOK
 <2>1. \A k \in OvTalks(t) : Len(ov_net[k]) = 0 BY <1>1, OvTalksAre
 <2>2. OvSlotsOK(ov_lay, ov_coord[t], ov_site, ov_net, t) BY <2>1 DEF OvSlotsOK
 <2>3. OvStoresOK(ov_lay, ov_coord[t], ov_site, ov_net, t) BY <1>3 DEF OvStoresOK, OvLater
 <2> QED BY <2>2, <2>3
<1> QED BY <1>5, <1>6, <1>7 DEF OvRunInv

LEMMA OvStepRun == OvInv /\ OvRunInv /\ [OvNext]_ovVars => OvRunInv'
<1> SUFFICES ASSUME OvInv, OvRunInv, [OvNext]_ovVars PROVE OvRunInv' OBVIOUS
<1>1. CASE UNCHANGED ovVars BY <1>1 DEF ovVars, OvRunInv, OvRanOK, OvNetsOK, OvTxsOK
<1>2. CASE OvNext
 <2>1. ov_lay' = ov_lay BY <1>2 DEF OvNext
 <2>2. CASE OvDeliver
  <3>1. PICK c \in DOMAIN ov_net :
          \/ OvOnCreateTs(c) \/ OvOnStoredRemoveTs(c) \/ OvOnDispatch(c) \/ OvOnStore(c) \/ OvOnExecute(c)
          \/ OvOnPublish(c) \/ OvPublishAck(c) \/ OvOnExchange(c) \/ OvExchangeAck(c)
          \/ OvCreateTsAck(c) \/ OvDispatchAck(c) \/ OvStoreACK(c) \/ OvStoredRemoveTsAck(c) \/ OvExecuteAck(c)
    BY <2>2 DEF OvDeliver
  <3>2. CASE OvPublishAck(c) \/ OvOnExchange(c) \/ OvExchangeAck(c) BY <2>1, <3>2, OvGossipersStep
  <3> QED BY <2>1, <3>1, <3>2, OvOnCreateTsRun, OvOnStoredRemoveTsRun, OvOnDispatchRun, OvOnStoreRun, OvOnExecuteRun,
      OvOnPublishRun, OvCreateTsAckRun, OvDispatchAckRun, OvStoreACKRun, OvStoredRemoveTsAckRun, OvExecuteAckRun
 <2>3. CASE OvLoops BY <2>1, <2>3, OvGossipersStep DEF OvLoops
 <2>4. CASE \E t \in OvTxns : OvCreateTs(t) BY <2>1, <2>4, OvCreateTsRun
 <2> QED BY <1>2, <2>2, <2>3, <2>4 DEF OvNext
<1> QED BY <1>1, <1>2

(* For every deployment, workload and order of the messages: a replica that executes a
   transaction holds all of its pieces for the partition, and the timestamp of the
   coordinator, although one acknowledgement per partition lets the coordinator go on
   (OVStoreACK, OnExecute). *)
THEOREM OvRunsAllPiecesHolds == OvSpec => []OvRunsAllPieces
<1>1. OvInit => OvInv /\ OvRunInv BY OvInitInv, OvInitRun
<1>2. (OvInv /\ OvRunInv) /\ [OvNext]_ovVars => (OvInv /\ OvRunInv)' BY OvStepInv, OvStepRun
<1>3. OvInv /\ OvRunInv => OvRunsAllPieces
 <2> SUFFICES ASSUME OvRunInv, NEW s \in OvSites, NEW t \in Range(ov_ran[s])
              PROVE ov_site[s].tx[t].has = OvPiecesAt(t, ov_lay.par[s]) /\ ov_site[s].tx[t].ts = ov_coord[t].ts
   BY DEF OvRunsAllPieces
 <2>1. ov_ran[s] \in Seq(OvTxns) BY DEF OvRunInv, OvRanOK
 <2>2. t \in OvTxns BY <2>1 DEF Range
 <2> QED BY <2>2 DEF OvRunInv, OvTxsOK, OvTxOK
<1> QED BY <1>1, <1>2, <1>3, PTL DEF OvSpec
=====
