----- MODULE Lifecycle -----
(* An experiment from the start of the processes to their end: the setup threads of the
   server sites (s_main.cc, server_worker.cc), the client workers and their request
   loops (client_worker.cc), the two control services (benchmark_control_rpc.cc), and
   the script that drives them (run.py: the controller, and the heart beats in a process
   of their own). *)
EXTENDS Integers, FiniteSets

CONSTANTS
  LcLoads,  \* [sites, clients: the process of each; managers: sites that host one;
                   \*  conc, forwards: Nat; open, early, late, dies, stops: BOOLEAN]
  LcMaxRequests,  \* bound: requests a worker issues in its time
  LcWrap          \* n_concurrent_ is a uint32_t; here it wraps at LcWrap

ASSUME LcAssumption ==
  /\ LcMaxRequests \in Nat
  /\ LcWrap \in Nat \ {0, 1}
  /\ \A l \in LcLoads : l.conc \in 0..(LcWrap - 1)
  /\ \A l \in LcLoads : DOMAIN l.sites \cap DOMAIN l.clients = {}

VARIABLES
  lc_load,
  lc_i,       \* process -> the i the setup threads share
  lc_slot,    \* site -> index of the worker its setup thread took, -1
  lc_stage,   \* site -> how far its setup is
  lc_conn,    \* <<site, site>> and <<site, site, "manager">>: connections of communicators
  lc_scs,     \* site -> status_ of its ServerControlServiceImpl
  lc_alarm,   \* processes with a pending alarm(timeout_)
  lc_main,    \* process -> where main() is
  lc_thr,     \* client -> where ClientWorker::work is
  lc_ccs,     \* process -> status_ of its ClientControlServiceImpl
  lc_count,   \* process -> [ready: num_ready_, finish: num_finish_]
  lc_defers,  \* clients whose client_ready_block waits in ready_block_defers_
  lc_w,       \* client -> [left: n_concurrent_, made: n_txn, free: free_coordinators_,
                   \*  run, frun: requests under way, own and forwarded; n, fwd: issued so far,
                   \*  and those of them forwarded; up: the time is up]
  lc_lat,   \* process -> [switch, buf: the two buffers, told, collect]
  lc_ctl,   \* where the controller is
  lc_hb,    \* where its heart beat process is
  lc_flag,  \* s_init_finish
  lc_seen,  \* what the controller has been told: ready sites, barriers, starts, finishes
  lc_bad    \* failed verify()s

lcVars == <<lc_load, lc_i, lc_slot, lc_stage, lc_conn, lc_scs, lc_alarm, lc_main, lc_thr, lc_ccs,
            lc_count, lc_defers, lc_w, lc_lat, lc_ctl, lc_hb, lc_flag, lc_seen, lc_bad>>

lcServerVars == <<lc_i, lc_slot, lc_stage, lc_conn, lc_scs, lc_alarm>>
lcClientVars == <<lc_thr, lc_ccs, lc_count, lc_defers, lc_w, lc_lat>>
lcScriptVars == <<lc_ctl, lc_hb, lc_flag, lc_seen>>

LcSites == DOMAIN lc_load.sites
LcClients == DOMAIN lc_load.clients
LcProcOf(x) == IF x \in LcSites THEN lc_load.sites[x] ELSE lc_load.clients[x]
LcManages(s) == s \in lc_load.managers
LcSitesIn(p) == {s \in LcSites : lc_load.sites[s] = p}
LcClientsIn(p) == {c \in LcClients : lc_load.clients[c] = p}
LcProcs == {lc_load.sites[s] : s \in LcSites} \cup {lc_load.clients[c] : c \in LcClients}
LcWith(p) == {q \in LcProcs : LcClientsIn(q) # {}} \cap p  \* those of p with a client control service
LcRuns(p) == lc_main[p] \notin {"exited", "killed"}

LcInitOf(l) ==
  LET procs == {l.sites[s] : s \in DOMAIN l.sites} \cup {l.clients[c] : c \in DOMAIN l.clients}
  IN  /\ lc_load = l
      /\ lc_i = [p \in procs |-> 0]
      /\ lc_slot = [s \in DOMAIN l.sites |-> -1]
      /\ lc_stage = [s \in DOMAIN l.sites |-> "new"]
      /\ lc_conn = {}
      /\ lc_scs = [s \in DOMAIN l.sites |-> "none"]
      /\ lc_alarm = {}
      /\ lc_main = [p \in procs |-> "setup"]
      /\ lc_thr = [c \in DOMAIN l.clients |-> "new"]
      /\ lc_ccs = [p \in procs |-> "INIT"]
      /\ lc_count = [p \in procs |-> [ready |-> 0, finish |-> 0]]
      /\ lc_defers = {}
      /\ lc_w = [c \in DOMAIN l.clients |->
                   [left |-> l.conc, made |-> 0, free |-> 0, run |-> {}, frun |-> {}, n |-> 0, fwd |-> {}, up |-> FALSE]]
      /\ lc_lat = [p \in procs |-> [switch |-> TRUE, buf |-> [u \in 0..1 |-> {}], read |-> {}, told |-> {}, at |-> "idle"]]
      /\ lc_ctl = "waiting" /\ lc_hb = "polling" /\ lc_flag = 0 /\ lc_seen = {} /\ lc_bad = {}

LcInit == \E l \in LcLoads : LcInitOf(l)

-----
(* server_launch_worker: `svr_workers_g[i++]` by one thread per site, with i shared and
   unprotected: the read and the write are two steps. *)
LcReadI(s) ==
  /\ lc_stage[s] = "new" /\ LcRuns(LcProcOf(s))
  /\ lc_slot' = [lc_slot EXCEPT ![s] = lc_i[LcProcOf(s)]]
  /\ lc_stage' = [lc_stage EXCEPT ![s] = "read"]
  /\ UNCHANGED <<lc_load, lc_i, lc_conn, lc_scs, lc_alarm, lc_main, lc_bad, lcClientVars, lcScriptVars>>

LcWriteI(s) ==
  /\ lc_stage[s] = "read" /\ LcRuns(LcProcOf(s))
  /\ lc_i' = [lc_i EXCEPT ![LcProcOf(s)] = lc_slot[s] + 1]
  /\ lc_stage' = [lc_stage EXCEPT ![s] = "worker"]
  /\ UNCHANGED <<lc_load, lc_slot, lc_conn, lc_scs, lc_alarm, lc_main, lc_bad, lcClientVars, lcScriptVars>>

(* SetupBase, RegPiece and PopTable: nobody outside the site sees them. *)
LcSetupBase(s) ==
  /\ lc_stage[s] = "worker" /\ LcRuns(LcProcOf(s))
  /\ lc_stage' = [lc_stage EXCEPT ![s] = "base"]
  /\ lc_bad' = IF \E t \in LcSitesIn(LcProcOf(s)) \ {s} :
                     lc_slot[t] = lc_slot[s] /\ lc_stage[t] \notin {"new", "read", "worker"}
               THEN lc_bad \cup {"txn_reg_ == nullptr"} ELSE lc_bad
  /\ UNCHANGED <<lc_load, lc_i, lc_slot, lc_conn, lc_scs, lc_alarm, lc_main, lcClientVars, lcScriptVars>>

(* The first half of SetupService, where the site hosts a manager: the DAST or SLOG
   manager of its region, the raft of the process. *)
LcSetupManager(s) ==
  /\ LcManages(s) /\ lc_stage[s] = "base" /\ LcRuns(LcProcOf(s))
  /\ lc_stage' = [lc_stage EXCEPT ![s] = "manager"]
  /\ UNCHANGED <<lc_load, lc_i, lc_slot, lc_conn, lc_scs, lc_alarm, lc_main, lc_bad, lcClientVars, lcScriptVars>>

(* SetupService, second half: the server of the site listens. *)
LcListens(s) == lc_stage[s] \in {"service", "commo", "ready"} /\ LcRuns(LcProcOf(s))

LcSetupService(s) ==
  /\ lc_stage[s] = (IF LcManages(s) THEN "manager" ELSE "base") /\ LcRuns(LcProcOf(s))
  /\ lc_stage' = [lc_stage EXCEPT ![s] = "service"]
  /\ UNCHANGED <<lc_load, lc_i, lc_slot, lc_conn, lc_scs, lc_alarm, lc_main, lc_bad, lcClientVars, lcScriptVars>>

(* Variant that the runs must reject: the communicator before the service. *)
LcMayConnect_First(s) == lc_stage[s] = "base"

(* Communicator::Communicator: ConnectToSite retries until it gets there, then every
   manager (ConnectToDastManager, ConnectToSlogManager, ConnectToRaft). *)
LcMayConnect(s) == lc_stage[s] = "service"

LcConnectToSite(s, t) ==
  /\ LcMayConnect(s) /\ LcRuns(LcProcOf(s)) /\ <<s, t>> \notin lc_conn
  /\ LcListens(t)
  /\ lc_conn' = lc_conn \cup {<<s, t>>}
  /\ UNCHANGED <<lc_load, lc_i, lc_slot, lc_stage, lc_scs, lc_alarm, lc_main, lc_bad, lcClientVars, lcScriptVars>>

LcConnectToManager(s, t) ==
  /\ LcMayConnect(s) /\ LcRuns(LcProcOf(s)) /\ <<s, t, "manager">> \notin lc_conn
  /\ \A u \in LcSites : <<s, u>> \in lc_conn
  /\ LcManages(t) /\ (lc_stage[t] = "manager" \/ LcListens(t))
  /\ lc_conn' = lc_conn \cup {<<s, t, "manager">>}
  /\ UNCHANGED <<lc_load, lc_i, lc_slot, lc_stage, lc_scs, lc_alarm, lc_main, lc_bad, lcClientVars, lcScriptVars>>

LcConnected(s) ==
  \A t \in LcSites : <<s, t>> \in lc_conn /\ (LcManages(t) => <<s, t, "manager">> \in lc_conn)

LcSetupCommo(s) ==
  /\ lc_stage[s] = "service" /\ LcRuns(LcProcOf(s)) /\ LcConnected(s)
  /\ lc_stage' = [lc_stage EXCEPT ![s] = "commo"]
  /\ UNCHANGED <<lc_load, lc_i, lc_slot, lc_conn, lc_scs, lc_alarm, lc_main, lc_bad, lcClientVars, lcScriptVars>>

(* Variant that the runs must reject: set_ready without waiting for the setup threads. *)
LcJoined_Not(p) == \A s \in LcSitesIn(p) : lc_stage[s] \in {"service", "commo"}

LcJoined(p) == \A s \in LcSitesIn(p) : lc_stage[s] = "commo"

(* SetupHeartbeat of every worker once the setup threads are joined; then main() makes
   the client workers, each with a communicator, and their threads. *)
LcSetupHeartbeat(p) ==
  /\ lc_main[p] = "setup" /\ LcJoined(p)
  /\ lc_stage' = [s \in LcSites |-> IF s \in LcSitesIn(p) /\ lc_stage[s] = "commo" THEN "ready" ELSE lc_stage[s]]
  /\ lc_scs' = [s \in LcSites |-> IF s \in LcSitesIn(p) THEN "RUN" ELSE lc_scs[s]]
  /\ lc_main' = [lc_main EXCEPT ![p] = "launch"]
  /\ UNCHANGED <<lc_load, lc_i, lc_slot, lc_conn, lc_alarm, lc_bad, lcClientVars, lcScriptVars>>

LcLaunchWorkers(p) ==
  /\ lc_main[p] = "launch"
  /\ LcClientsIn(p) # {} => \A s \in LcSites : LcListens(s)
  /\ lc_thr' = [c \in LcClients |-> IF c \in LcClientsIn(p) THEN "work" ELSE lc_thr[c]]
  /\ lc_main' = [lc_main EXCEPT ![p] = "join"]
  /\ UNCHANGED <<lc_load, lc_ccs, lc_count, lc_defers, lc_w, lc_lat, lc_bad, lcServerVars, lcScriptVars>>

(* wait_for_clients, WaitForShutdown of every worker, and the return of main. *)
LcWaitForClients(p) ==
  /\ lc_main[p] = "join"
  /\ \A c \in LcClientsIn(p) : lc_thr[c] = "ended"
  /\ lc_main' = [lc_main EXCEPT ![p] = "wait"]
  /\ UNCHANGED <<lc_load, lc_bad, lcServerVars, lcClientVars, lcScriptVars>>

LcMainReturns(p) ==
  /\ lc_main[p] = "wait"
  /\ \A s \in LcSitesIn(p) : lc_scs[s] = "STOP"
  /\ lc_main' = [lc_main EXCEPT ![p] = "exited"]
  /\ UNCHANGED <<lc_load, lc_bad, lcServerVars, lcClientVars, lcScriptVars>>

-----
(* ClientControlServiceImpl::wait_for_start, first half: the last thread answers those
   who asked before. *)
LcWaitForStart(c) ==
  LET p == LcProcOf(c)
      n == lc_count[p].ready + 1
      all == n = Cardinality(LcClientsIn(p))
  IN  /\ lc_thr[c] = "work" /\ LcRuns(p)
      /\ lc_thr' = [lc_thr EXCEPT ![c] = "start?"]
      /\ lc_count' = [lc_count EXCEPT ![p].ready = n]
      /\ lc_ccs' = IF all THEN [lc_ccs EXCEPT ![p] = "READY"] ELSE lc_ccs
      /\ lc_defers' = IF all THEN lc_defers \ LcClientsIn(p) ELSE lc_defers
      /\ lc_seen' = IF all THEN lc_seen \cup {<<"ready", d>> : d \in lc_defers \cap LcClientsIn(p)} ELSE lc_seen
      /\ UNCHANGED <<lc_load, lc_main, lc_w, lc_lat, lc_ctl, lc_hb, lc_flag, lc_bad, lcServerVars>>

LcStarted(c) ==
  /\ lc_thr[c] = "start?" /\ LcRuns(LcProcOf(c))
  /\ lc_ccs[LcProcOf(c)] \in {"RUN", "STOP"}
  /\ lc_thr' = [lc_thr EXCEPT ![c] = "loop"]
  /\ UNCHANGED <<lc_load, lc_main, lc_ccs, lc_count, lc_defers, lc_w, lc_lat, lc_bad, lcServerVars, lcScriptVars>>

(* The worker's record after it handed request n to a coordinator. *)
LcIssued(w) == [w EXCEPT !.run = @ \cup {w.n}, !.n = @ + 1]

(* Closed loop: as many coordinators as n_concurrent_ says now. *)
LcCreateCoordinator(c) ==
  /\ lc_thr[c] = "loop" /\ ~lc_load.open /\ LcRuns(LcProcOf(c))
  /\ lc_w[c].made < lc_w[c].left
  /\ lc_w' = [lc_w EXCEPT ![c] = [LcIssued(lc_w[c]) EXCEPT !.made = lc_w[c].made + 1]]
  /\ UNCHANGED <<lc_load, lc_main, lc_thr, lc_ccs, lc_count, lc_defers, lc_lat, lc_bad, lcServerVars, lcScriptVars>>

(* Open loop: FindOrCreateCoordinator, at the rate asked for. *)
LcFindOrCreateCoordinator(c) ==
  LET w == lc_w[c]
  IN  /\ lc_thr[c] = "loop" /\ lc_load.open /\ LcRuns(LcProcOf(c))
      /\ ~w.up /\ w.n < LcMaxRequests
      /\ lc_w' = [lc_w EXCEPT ![c] = IF w.free > 0 THEN [LcIssued(w) EXCEPT !.free = w.free - 1]
                                     ELSE LcIssued(w)]
      /\ UNCHANGED <<lc_load, lc_main, lc_thr, lc_ccs, lc_count, lc_defers, lc_lat, lc_bad, lcServerVars, lcScriptVars>>

LcLoopDone(c) ==
  /\ lc_thr[c] = "loop" /\ LcRuns(LcProcOf(c))
  /\ IF lc_load.open THEN lc_w[c].up ELSE lc_w[c].made >= lc_w[c].left
  /\ lc_thr' = [lc_thr EXCEPT ![c] = "finish?"]
  /\ UNCHANGED <<lc_load, lc_main, lc_ccs, lc_count, lc_defers, lc_w, lc_lat, lc_bad, lcServerVars, lcScriptVars>>

(* timer_->elapsed() reaches duration.  The dispatch loop takes a moment, the duration
   is seconds; `early` lets it end first all the same. *)
LcTimeUp(c) ==
  /\ lc_thr[c] \in {"loop", "finish?"} /\ ~lc_w[c].up
  /\ lc_load.open \/ lc_load.early \/ lc_thr[c] = "finish?"
  /\ lc_w' = [lc_w EXCEPT ![c].up = TRUE]
  /\ UNCHANGED <<lc_load, lc_main, lc_thr, lc_ccs, lc_count, lc_defers, lc_lat, lc_bad, lcServerVars, lcScriptVars>>

LcOneLess(w) == [w EXCEPT !.left = (@ - 1) % LcWrap]

(* Variant that the runs must reject: a request after the time is up is followed by
   another, and counted as finished all the same. *)
LcAfter_Again(w) == IF w.up THEN LcOneLess(IF w.n < LcMaxRequests THEN LcIssued(w) ELSE w)
                    ELSE IF w.n < LcMaxRequests THEN LcIssued(w) ELSE w

(* RequestDone: another request while there is time, the coordinator back to the free
   ones (open loop), or one less to wait for. *)
LcAfter(w) ==
  IF w.up THEN LcOneLess(w)
  ELSE IF lc_load.open THEN [w EXCEPT !.free = @ + 1]
  ELSE LcIssued(w)

(* The buffer a latency goes to while nobody collects: the one client_response reads
   after its next switch. *)
LcBufferInUse(l) == IF l.switch THEN 0 ELSE 1

(* txn_success_one: the coordinator reports the latency under the read lock of
   collect_lock_, then calls RequestDone. *)
LcRecorded(l, x) == [l EXCEPT !.buf[LcBufferInUse(l)] = @ \cup {x}]

LcRequestDone(c, n) ==
  LET p == LcProcOf(c)
      w == [lc_w[c] EXCEPT !.run = @ \ {n}]
  IN  /\ n \in lc_w[c].run /\ LcRuns(p)
      /\ w.up \/ lc_load.open \/ w.n < LcMaxRequests
      /\ lc_lat' = [lc_lat EXCEPT ![p] = LcRecorded(@, <<c, n>>)]
      /\ lc_w' = [lc_w EXCEPT ![c] = LcAfter(w)]
      /\ UNCHANGED <<lc_load, lc_main, lc_thr, lc_ccs, lc_count, lc_defers, lc_bad, lcServerVars, lcScriptVars>>

(* DispatchTxn and AcceptForwardedRequest: a request of another site's client runs on a
   coordinator of this worker; ForwardRequestDone. *)
LcAcceptForwardedRequest(c) ==
  LET w == lc_w[c]
  IN  /\ lc_thr[c] \in {"loop", "finish?"} /\ LcRuns(LcProcOf(c))
      /\ Cardinality(w.fwd) < lc_load.forwards
      /\ lc_w' = [lc_w EXCEPT ![c] = [w EXCEPT !.free = IF @ > 0 THEN @ - 1 ELSE 0, !.frun = @ \cup {w.n},
                                               !.n = @ + 1, !.fwd = @ \cup {w.n}]]
      /\ UNCHANGED <<lc_load, lc_main, lc_thr, lc_ccs, lc_count, lc_defers, lc_lat, lc_bad, lcServerVars, lcScriptVars>>

LcForwardRequestDone(c, n) ==
  LET w == [lc_w[c] EXCEPT !.frun = @ \ {n}]
  IN  /\ n \in lc_w[c].frun /\ LcRuns(LcProcOf(c))
      /\ lc_w' = [lc_w EXCEPT ![c] = IF w.up THEN LcOneLess(w)
                                     ELSE IF lc_load.open THEN [w EXCEPT !.free = @ + 1] ELSE w]
      /\ UNCHANGED <<lc_load, lc_main, lc_thr, lc_ccs, lc_count, lc_defers, lc_lat, lc_bad, lcServerVars, lcScriptVars>>

(* Variant that the runs must reject: while (n_concurrent_ >= 0). *)
LcMayFinish_Signed(w) == w.left < 0

LcMayFinish(w) == w.left = 0

(* The wait on finish_cond ends, and wait_for_shutdown begins. *)
LcWaitForShutdown(c) ==
  LET p == LcProcOf(c)
      n == lc_count[p].finish + 1
  IN  /\ lc_thr[c] = "finish?" /\ LcMayFinish(lc_w[c]) /\ LcRuns(p)
      /\ lc_thr' = [lc_thr EXCEPT ![c] = "stop?"]
      /\ IF lc_ccs[p] = "STOP" THEN UNCHANGED <<lc_count, lc_ccs>>
         ELSE /\ lc_count' = [lc_count EXCEPT ![p].finish = n]
              /\ lc_ccs' = IF n = Cardinality(LcClientsIn(p)) THEN [lc_ccs EXCEPT ![p] = "FINISH"] ELSE lc_ccs
      /\ UNCHANGED <<lc_load, lc_main, lc_defers, lc_w, lc_lat, lc_bad, lcServerVars, lcScriptVars>>

LcWorkEnds(c) ==
  /\ lc_thr[c] = "stop?" /\ lc_ccs[LcProcOf(c)] = "STOP" /\ LcRuns(LcProcOf(c))
  /\ lc_thr' = [lc_thr EXCEPT ![c] = "ended"]
  /\ UNCHANGED <<lc_load, lc_main, lc_ccs, lc_count, lc_defers, lc_w, lc_lat, lc_bad, lcServerVars, lcScriptVars>>

-----
(* run.py, the heart beat process: it asks every site server_ready until the answer is
   1, then tells the controller and beats until told to end. *)
LcServerReady(s) ==
  /\ lc_hb = "polling" /\ <<"up", s>> \notin lc_seen
  /\ lc_scs[s] = "RUN"
  /\ lc_seen' = lc_seen \cup {<<"up", s>>}
  /\ UNCHANGED <<lc_load, lc_main, lc_ctl, lc_hb, lc_flag, lc_bad, lcServerVars, lcClientVars>>

LcInitFinished ==
  /\ lc_hb = "polling" /\ \A s \in LcSites : <<"up", s>> \in lc_seen
  /\ lc_hb' = "beating" /\ lc_flag' = 1
  /\ UNCHANGED <<lc_load, lc_main, lc_ctl, lc_seen, lc_bad, lcServerVars, lcClientVars>>

(* It cannot reach a site: s_init_finish 5. *)
LcInitFailed ==
  /\ lc_hb = "polling" /\ lc_load.dies
  /\ lc_hb' = "ended" /\ lc_flag' = 5
  /\ UNCHANGED <<lc_load, lc_main, lc_ctl, lc_seen, lc_bad, lcServerVars, lcClientVars>>

(* One round of server_heart_beat: every process re-arms its alarm. *)
LcBeat ==
  /\ lc_hb = "beating" /\ lc_flag # 0
  /\ lc_alarm' = {lc_load.sites[s] : s \in LcSites}
  /\ UNCHANGED <<lc_load, lc_i, lc_slot, lc_stage, lc_conn, lc_scs, lc_main, lc_bad, lcClientVars, lcScriptVars>>

LcBeatsEnd ==
  /\ lc_hb = "beating" /\ lc_flag = 0
  /\ lc_hb' = "ended"
  /\ UNCHANGED <<lc_load, lc_main, lc_ctl, lc_flag, lc_seen, lc_bad, lcServerVars, lcClientVars>>

(* Variant that the runs must reject: the constructor of the control service does not
   add it to scsi_s. *)
LcRegistered_None(p) == {}

LcRegistered(p) == LcSitesIn(p)  \* scsi_s

(* SIGALRM, timeout_ after the last of the beats, which come four times in that time:
   shutdown_wrapper stops every control service of the process. *)
LcAlarm(p) ==
  /\ p \in lc_alarm /\ LcRuns(p) /\ lc_hb = "ended"
  /\ lc_alarm' = lc_alarm \ {p}
  /\ lc_scs' = [s \in LcSites |-> IF s \in LcRegistered(p) THEN "STOP" ELSE lc_scs[s]]
  /\ UNCHANGED <<lc_load, lc_i, lc_slot, lc_stage, lc_conn, lc_main, lc_bad, lcClientVars, lcScriptVars>>

-----
(* run.py, the controller. *)
LcCtlReady ==
  /\ lc_ctl = "waiting" /\ lc_flag # 0
  /\ lc_ctl' = IF lc_flag = 1 THEN "barrier" ELSE "failed"
  /\ UNCHANGED <<lc_load, lc_main, lc_hb, lc_flag, lc_seen, lc_bad, lcServerVars, lcClientVars>>

(* client_ready_block, asked once for every client site. *)
LcClientReadyBlock(c) ==
  /\ lc_ctl = "barrier" /\ LcRuns(LcProcOf(c)) /\ <<"asked", c>> \notin lc_seen
  /\ IF lc_ccs[LcProcOf(c)] = "READY"
     THEN lc_seen' = lc_seen \cup {<<"asked", c>>, <<"ready", c>>} /\ UNCHANGED lc_defers
     ELSE lc_seen' = lc_seen \cup {<<"asked", c>>} /\ lc_defers' = lc_defers \cup {c}
  /\ UNCHANGED <<lc_load, lc_main, lc_thr, lc_ccs, lc_count, lc_w, lc_lat, lc_ctl, lc_hb, lc_flag, lc_bad, lcServerVars>>

LcBarrierPassed ==
  /\ lc_ctl = "barrier" /\ \A c \in LcClients : <<"ready", c>> \in lc_seen
  /\ lc_ctl' = "start"
  /\ UNCHANGED <<lc_load, lc_main, lc_hb, lc_flag, lc_seen, lc_bad, lcServerVars, lcClientVars>>

(* client_start, once for every process with clients. *)
LcClientStart(p) ==
  /\ lc_ctl = "start" /\ LcClientsIn(p) # {} /\ LcRuns(p) /\ <<"started", p>> \notin lc_seen
  /\ lc_ccs' = [lc_ccs EXCEPT ![p] = "RUN"]
  /\ lc_seen' = lc_seen \cup {<<"started", p>>}
  /\ UNCHANGED <<lc_load, lc_main, lc_thr, lc_count, lc_defers, lc_w, lc_lat, lc_ctl, lc_hb, lc_flag, lc_bad, lcServerVars>>

LcAllStarted ==
  /\ lc_ctl = "start" /\ \A p \in LcWith(LcProcs) : <<"started", p>> \in lc_seen
  /\ lc_ctl' = "record"
  /\ UNCHANGED <<lc_load, lc_main, lc_hb, lc_flag, lc_seen, lc_bad, lcServerVars, lcClientVars>>

LcAllFinished == \A p \in LcWith(LcProcs) : <<"finished", p>> \in lc_seen

(* client_response under collect_lock_: is_finish, and the switch. *)
LcSwitch(p) ==
  /\ lc_ctl = "record" /\ ~LcAllFinished /\ p \in LcWith(LcProcs) /\ LcRuns(p) /\ lc_lat[p].at = "idle"
  /\ lc_lat' = [lc_lat EXCEPT ![p] = [lc_lat[p] EXCEPT !.switch = ~lc_lat[p].switch, !.at = "copy"]]
  /\ lc_seen' = IF lc_ccs[p] = "FINISH" THEN lc_seen \cup {<<"finished", p>>} ELSE lc_seen
  /\ UNCHANGED <<lc_load, lc_main, lc_thr, lc_ccs, lc_count, lc_defers, lc_w, lc_ctl, lc_hb, lc_flag, lc_bad, lcServerVars>>

(* Variant that the runs must reject: the buffer in use is collected. *)
LcBufferRead_InUse(l) == IF l.switch THEN 0 ELSE 1

(* After the unlock: the other buffer is copied, then cleared. *)
LcBufferRead(l) == IF l.switch THEN 1 ELSE 0

LcCopy(p) ==
  LET l == lc_lat[p]
  IN  /\ l.at = "copy" /\ LcRuns(p)
      /\ lc_lat' = [lc_lat EXCEPT ![p] = [l EXCEPT !.read = l.read \cup l.buf[LcBufferRead(l)], !.at = "clear"]]
      /\ UNCHANGED <<lc_load, lc_main, lc_thr, lc_ccs, lc_count, lc_defers, lc_w, lc_bad, lcServerVars, lcScriptVars>>

LcClear(p) ==
  LET l == lc_lat[p]
  IN  /\ l.at = "clear" /\ LcRuns(p)
      /\ lc_lat' = [lc_lat EXCEPT ![p] = [l EXCEPT !.buf[LcBufferRead(l)] = {}, !.told = l.told \cup l.read,
                                                   !.read = {}, !.at = "idle"]]
      /\ UNCHANGED <<lc_load, lc_main, lc_thr, lc_ccs, lc_count, lc_defers, lc_w, lc_bad, lcServerVars, lcScriptVars>>

(* benchmark_record ends: every client process finished, or 1.5 times the duration has
   passed; s_init_finish back to 0. *)
LcRecordEnds ==
  /\ lc_ctl = "record" /\ \A p \in LcProcs : lc_lat[p].at = "idle"
  /\ LcAllFinished \/ (lc_load.late /\ \A c \in LcClients : lc_w[c].up)
  /\ lc_ctl' = "join" /\ lc_flag' = 0
  /\ UNCHANGED <<lc_load, lc_main, lc_hb, lc_seen, lc_bad, lcServerVars, lcClientVars>>

(* ClientController.client_shutdown, for those who call it. *)
LcClientShutdown(p) ==
  /\ lc_load.stops /\ lc_ctl = "join" /\ p \in LcWith(LcProcs) /\ LcRuns(p) /\ lc_ccs[p] # "STOP"
  /\ lc_ccs' = [lc_ccs EXCEPT ![p] = "STOP"]
  /\ UNCHANGED <<lc_load, lc_main, lc_thr, lc_count, lc_defers, lc_w, lc_lat, lc_bad, lcServerVars, lcScriptVars>>

(* process.join() and server_kill: kill -9 on every host; also when the initialisation
   failed. *)
LcServerKill ==
  /\ lc_ctl = "failed" \/ (lc_ctl = "join" /\ lc_hb = "ended")
  /\ lc_ctl' = "done"
  /\ lc_main' = [p \in LcProcs |-> IF LcRuns(p) THEN "killed" ELSE lc_main[p]]
  /\ UNCHANGED <<lc_load, lc_hb, lc_flag, lc_seen, lc_bad, lcServerVars, lcClientVars>>

(* The fault: both processes of the script die. *)
LcScriptDies ==
  /\ lc_load.dies /\ lc_ctl \notin {"done", "dead"}
  /\ lc_ctl' = "dead" /\ lc_hb' = "ended"
  /\ UNCHANGED <<lc_load, lc_main, lc_flag, lc_seen, lc_bad, lcServerVars, lcClientVars>>

-----
LcSetup(s) ==
  \/ LcReadI(s) \/ LcWriteI(s) \/ LcSetupBase(s) \/ LcSetupManager(s) \/ LcSetupService(s) \/ LcSetupCommo(s)
  \/ \E t \in LcSites : LcConnectToSite(s, t) \/ LcConnectToManager(s, t)

LcMain(p) == LcSetupHeartbeat(p) \/ LcLaunchWorkers(p) \/ LcWaitForClients(p) \/ LcMainReturns(p)

LcWork(c) ==
  \/ LcWaitForStart(c) \/ LcStarted(c) \/ LcCreateCoordinator(c) \/ LcLoopDone(c)
  \/ LcWaitForShutdown(c) \/ LcWorkEnds(c)

LcAnswers(c) == \E n \in lc_w[c].run : LcRequestDone(c, n)

LcBeats == (\E s \in LcSites : LcServerReady(s)) \/ LcInitFinished \/ LcBeatsEnd

LcControl ==
  \/ LcCtlReady \/ LcBarrierPassed \/ LcAllStarted \/ LcServerKill
  \/ \E c \in LcClients : LcClientReadyBlock(c)
  \/ \E p \in LcProcs : LcClientStart(p)

LcCollect(p) == LcSwitch(p) \/ LcCopy(p) \/ LcClear(p)

LcNext ==
  \/ \E s \in LcSites : LcSetup(s)
  \/ \E p \in LcProcs : LcMain(p) \/ LcAlarm(p) \/ LcCollect(p) \/ LcClientShutdown(p)
  \/ \E c \in LcClients : \/ LcWork(c) \/ LcTimeUp(c) \/ LcFindOrCreateCoordinator(c) \/ LcAnswers(c)
                          \/ LcAcceptForwardedRequest(c)
                          \/ \E n \in lc_w[c].frun : LcForwardRequestDone(c, n)
  \/ LcBeats \/ LcBeat \/ LcInitFailed \/ LcControl \/ LcRecordEnds \/ LcScriptDies

(* Threads go on, requests are answered, time passes, and the alarm rings when it is not
   put off; nobody has to die.  The controller looks whether to end after every round of
   client_response, hence SF. *)
LcDeployed == LcSites # {}
LcAllSites == UNION {DOMAIN l.sites : l \in LcLoads}
LcAllClients == UNION {DOMAIN l.clients : l \in LcLoads}
LcAllProcs == UNION {{l.sites[s] : s \in DOMAIN l.sites} : l \in LcLoads}

LcFairness ==
  /\ \A s \in LcAllSites : WF_lcVars(s \in LcSites /\ LcSetup(s))
  /\ \A c \in LcAllClients : /\ WF_lcVars(c \in LcClients /\ LcWork(c))
                             /\ WF_lcVars(c \in LcClients /\ LcTimeUp(c))
                             /\ WF_lcVars(c \in LcClients /\ LcAnswers(c))
  /\ \A p \in LcAllProcs : /\ WF_lcVars(p \in LcProcs /\ LcMain(p))
                           /\ WF_lcVars(p \in LcProcs /\ LcAlarm(p))
                           /\ WF_lcVars(p \in LcProcs /\ LcCollect(p))
  /\ WF_lcVars(LcDeployed /\ LcBeats) /\ WF_lcVars(LcDeployed /\ LcControl) /\ SF_lcVars(LcDeployed /\ LcRecordEnds)

LcSpec == LcInit /\ [][LcNext]_lcVars /\ LcFairness

-----
(* No client issues a request while a site cannot serve it: the controller starts the
   clients only when every control service is ready, and a site is ready only when its
   communicator reaches all the others. *)
LcServedWhenUp ==
  (\E c \in LcClients : lc_w[c].run # {}) =>
    \A s \in LcSites : lc_stage[s] \in {"commo", "ready"} /\ LcConnected(s)

(* A worker that counts as finished has no request under way, so that what it reports is
   complete and its timer may be deleted: n_concurrent_ is the number of requests left
   once the coordinators are made.  Of the closed loop without forwarding; elsewhere the
   count is of something else, as the README shows. *)
LcEndsIdle ==
  ~lc_load.open /\ lc_load.forwards = 0 =>
    \A c \in LcClients : lc_thr[c] \in {"finish?", "stop?", "ended"} => lc_w[c].left = Cardinality(lc_w[c].run)

(* The requests of w, and of the workers of process p, that were answered. *)
LcAnswered(w) == {k \in 0..(w.n - 1) : k \notin w.run \cup w.fwd}
LcAnsweredIn(p) == UNION {{c} \X LcAnswered(lc_w[c]) : c \in LcClientsIn(p)}

(* Every latency is reported once: none is in two reports' buffers, and none is cleared
   that was not read (client_response works on one buffer after it released
   collect_lock_, the coordinators on the other). *)
LcLatencyOnce ==
  \A p \in LcProcs :
    LET l == lc_lat[p]
    IN  /\ LcAnsweredIn(p) = l.buf[0] \cup l.buf[1] \cup l.told
        /\ l.told \cap (l.buf[0] \cup l.buf[1]) = {}
        /\ l.buf[0] \cap l.buf[1] = {}

(* No verify() of the setup fails: no two sites set up one worker. *)
LcNoVerifyFails == lc_bad = {}

(* A closed-loop worker that began finishes, when requests are answered in time: it does
   not wait for a coordinator that was never made. *)
LcWorkersFinish ==
  \A c \in LcAllClients :
    c \in LcClients /\ ~lc_load.open /\ ~lc_load.late /\ lc_load.forwards = 0 /\ lc_thr[c] = "loop"
      ~> c \in LcClients /\ lc_thr[c] \in {"stop?", "ended"}

(* The script ends, or has died, unless the open loop never does: setup threads that
   connect to each other, the barrier of the client threads and the heart beats do not
   wait for each other in a circle. *)
LcScriptEnds == LcDeployed /\ (~lc_load.open \/ lc_load.late) ~> lc_ctl \in {"done", "dead"}

(* Servers that were heard of once stop by themselves when the script is gone: the
   process returns from main unless client threads keep it. *)
LcServersStop ==
  \A p \in LcAllProcs :
    p \in LcProcs /\ LcClientsIn(p) = {} /\ lc_ctl = "dead" /\ p \in lc_alarm ~> p \in LcProcs /\ ~LcRuns(p)

(* An experiment measures what it should: requests meet servers that are up, and a
   worker that reports has nothing under way (client_worker.cc). *)
LcMeasures == LcServedWhenUp /\ LcEndsIdle

=====
