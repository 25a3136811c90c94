----- MODULE Deployment -----
(* Who finds whom.  Every process reads the same deployment file (config.cc), numbers
   the sites and derives from the numbers which services it starts and at which ports
   (server_worker.cc, s_main.cc); every communicator derives, by other code, the
   addresses it dials (communicator.cc); and the script that starts the processes
   (run.py) derives the control ports a third time.  A service is known here by what it
   is and by the number it gives itself, so that a connection shows whether it reached
   the service it was meant for. The steps of one setup thread against the others of its
   process are the subject of Lifecycle; here a site first serves and then talks. *)
EXTENDS Integers, Sequences, FiniteSetsExt

CONSTANTS
  DpLayouts,  \* deployment files: [server: seq of partitions, each a seq of [name, port];
               \*  client: seq of partitions, each a seq of names; process: name -> process;
               \*  host: process -> host; raft: process -> port; shards: n_shard_per_region;
               \*  mode; forwarding: BOOLEAN]
  DpReps,    \* N_REP_PER_SHARD
  DpMaxDead  \* bound: processes whose dials time out

ASSUME DpAssumption == DpReps \in Nat \ {0} /\ DpMaxDead \in Nat

VARIABLES
  dpLay,   \* the deployment file
  dpProc,  \* process -> "off", "loaded", "serving" (its servers are launched),
               \*  "dead", "clash" (ended by a port in use)
  dpSite,    \* site name -> "new", "serves", "talks", "leaders" (client leaders connected too)
  dpListen,  \* [at, svc]: who accepts connections where
  dpTalk     \* [by, want, got]: the connections made
deployVars == <<dpLay, dpProc, dpSite, dpListen, dpTalk>>

-----
(* LoadSiteYML: ids count the server sites partition by partition, and go on with the
   clients. *)
DpPlaces(groups) == UNION {{<<g, k>> : k \in 1..Len(groups[g])} : g \in 1..Len(groups)}
DpNumber(groups, at) == Cardinality({x \in DpPlaces(groups) : x[1] < at[1] \/ (x[1] = at[1] /\ x[2] < at[2])})
DpNames(l) == DOMAIN l.process

(* Names are a letter and a number; std::sort and Python's sorted() compare them as
   strings, "c10" before "c2". *)
DpRank(name) ==
  LET n == name[2]
  IN  (IF name[1] = "c" THEN 0 ELSE 1000) + IF n < 10 THEN 11 * n ELSE 11 * (n \div 10) + (n % 10) + 1
DpBefore(l, name) == {s \in DpNames(l) : DpRank(s) < DpRank(name)}

(* Config::GetClientPort: the distinct processes of the sites before this one; verify(0)
   if its own process is one of them. *)
DpBasePort == 5555
DpHostsBefore(l, name) == {l.process[s] : s \in DpBefore(l, name)}
DpGetClientPort(l, name) == DpBasePort + Cardinality(DpHostsBefore(l, name))
DpHasClientPort(l, name) == l.process[name] \notin DpHostsBefore(l, name)

(* LoadProcYML and LoadHostYML. *)
DpProcOf(l, name) == l.process[name]
DpHostOf(l, name) == l.host[DpProcOf(l, name)]
DpSiteInfo(l, id, name, at, port) ==
  [id |-> id, name |-> name, par |-> at[1] - 1, loc |-> at[2] - 1, port |-> port,
   proc |-> DpProcOf(l, name), host |-> DpHostOf(l, name)]
DpServers(l) ==
  {LET s == l.server[at[1]][at[2]] IN DpSiteInfo(l, DpNumber(l.server, at), s.name, at, s.port) :
     at \in DpPlaces(l.server)}
DpClients(l) ==
  {LET name == l.client[at[1]][at[2]]
   IN  DpSiteInfo(l, Cardinality(DpPlaces(l.server)) + DpNumber(l.client, at), name, at, DpGetClientPort(l, name)) :
     at \in DpPlaces(l.client)}

DpGetPartitionSize(l, par) == Len(l.server[par + 1])
DpSitesByProcessName(l, p) == {s \in DpServers(l) : s.proc = p}
DpClientsByProcessName(l, p) == {c \in DpClients(l) : c.proc = p}
DpProcs(l) == {l.process[s] : s \in DpNames(l)}

(* partitions_in_same_region and sites_in_same_region. *)
DpParsInSameRegion(l, a, b) == a \div l.shards = b \div l.shards
DpSitesInSameRegion(l, a, b) ==
  LET n == DpGetPartitionSize(l, 0) IN DpParsInSameRegion(l, a \div n, b \div n)

(* run.py: processes are numbered in the order of their first site, and get that
   number's control port on their command line. *)
DpProcessId(l, p) ==
  LET first == CHOOSE s \in DpNames(l) :
                 l.process[s] = p /\ \A t \in DpNames(l) : l.process[t] = p => DpRank(s) <= DpRank(t)
  IN  Cardinality({l.process[s] : s \in DpBefore(l, first)})
DpCtrlPort(l, p) == DpBasePort + DpProcessId(l, p)
DpCtrlPortDelta == 10000
DpScript == <<"run.py", 0>>

-----
(* The services, and the number each of them gives itself. *)
DpService(kind, n) == <<kind, n>>
DpMyRid(l, s) == s.id \div (l.shards * DpReps)
DpHostsDastManager(l, s) == l.mode = "dast" /\ s.id % (DpGetPartitionSize(l, s.par) * l.shards) = 0
DpHostsSlogManager(l, s) == l.mode = "slog" /\ s.id % (DpReps * l.shards) \in {0, 1}
DpRaftPort(l, p) == l.raft[p]
DpHostsRaft(l, s) == l.mode = "slog" /\ s.proc \in DOMAIN l.raft

(* What SetupService starts for a site besides its own server, each at 0.0.0.0 on the
   host of its process. *)
DpListener(host, port, svc) == [at |-> <<host, port>>, svc |-> svc]
(* Variant that the runs must reject: the region is taken for the partition. *)
DpManagerPort_Partition(l, s) == 9000 + s.par
DpManagerPort(l, s) == 9000 + s.par \div l.shards
DpExtraServices(l, s) ==
  (IF DpHostsRaft(l, s) THEN {DpListener(s.host, DpRaftPort(l, s.proc), DpService("raft", s.proc))} ELSE {})
  \cup (IF DpHostsSlogManager(l, s) THEN {DpListener(s.host, 9000 + s.id, DpService("slog_manager", s.id))} ELSE {})
  \cup (IF DpHostsDastManager(l, s)
        THEN {DpListener(s.host, DpManagerPort(l, s), DpService("dast_manager", DpMyRid(l, s)))} ELSE {})

(* What a Communicator dials, and what it takes the connection for. *)
DpDial(host, port, svc) == [at |-> <<host, port>>, want |-> svc]
DpDialSites(l) == {DpDial(s.host, s.port, DpService("site", s.id)) : s \in DpServers(l)}
DpDialDastManagers(l) ==
  LET per == l.shards * DpGetPartitionSize(l, 0)
  IN  {DpDial(l.host[s.proc], 9000 + s.id \div per, DpService("dast_manager", s.id \div per)) :
         s \in {x \in DpServers(l) : x.id % per = 0}}
DpDialSlogManagers(l) ==
  {DpDial(l.host[s.proc], 9000 + s.id, DpService("slog_manager", s.id)) :
     s \in {x \in DpServers(l) : x.id % (l.shards * DpReps) \in {0, 1}}}
DpDialRaft(l) == {DpDial(l.host[p], DpRaftPort(l, p), DpService("raft", p)) : p \in DOMAIN l.raft}
DpDials(l) ==
  DpDialSites(l) \cup (IF l.mode = "dast" THEN DpDialDastManagers(l) ELSE DpDialRaft(l) \cup DpDialSlogManagers(l))
DpSitesByLocaleId(l, loc) == {c \in DpClients(l) : c.loc = loc}
DpDialClientLeaders(l) ==
  {DpDial(c.host, c.port, DpService("clients", c.proc)) : c \in DpSitesByLocaleId(l, 0)}
(* run.py dials the control service of every server site and of every process with
   clients. *)
DpDialControl(l) ==
  {DpDial(s.host, s.port + DpCtrlPortDelta, DpService("server_control", s.id)) : s \in DpServers(l)}
  \cup {DpDial(c.host, DpCtrlPort(l, c.proc), DpService("clients", c.proc)) : c \in DpClients(l)}

DpTaken(at, listen) == \E x \in listen : x.at = at
(* Server::start at an address that is in use fails. *)
DpBind(listen, new) == listen \cup {x \in new : ~DpTaken(x.at, listen)}
DpAnswers(dials) == \A d \in dials : DpTaken(d.at, dpListen)
DpConnections(by, dials) ==
  UNION {{[by |-> by, want |-> d.want, got |-> x.svc] : x \in {y \in dpListen : y.at = d.at}} : d \in dials}

-----
DpInit ==
  /\ dpLay \in DpLayouts
  /\ dpProc = [p \in DpProcs(dpLay) |-> "off"]
  /\ dpSite = [s \in DpNames(dpLay) |-> "new"]
  /\ dpListen = {} /\ dpTalk = {}

(* main: the configuration is read, and a process with clients starts its control
   service before anything else. *)
DpCreateConfig(p) ==
  /\ dpProc[p] = "off"
  /\ dpProc' = [dpProc EXCEPT ![p] = IF DpSitesByProcessName(dpLay, p) = {} THEN "serving" ELSE "loaded"]
  /\ dpListen' = IF DpClientsByProcessName(dpLay, p) = {} THEN dpListen
                 ELSE DpBind(dpListen, {DpListener(dpLay.host[p], DpCtrlPort(dpLay, p), DpService("clients", p))})
  /\ UNCHANGED <<dpLay, dpSite, dpTalk>>

(* The results of the extra servers' start() are not looked at; the site's own server
   that cannot start ends the process. *)
DpSetupService(s) ==
  /\ dpProc[s.proc] = "loaded" /\ dpSite[s.name] = "new"
  /\ LET extra == DpBind(dpListen, DpExtraServices(dpLay, s))
         own   == DpListener(s.host, s.port, DpService("site", s.id))
     IN  IF DpTaken(own.at, extra)
         THEN dpProc' = [dpProc EXCEPT ![s.proc] = "clash"] /\ UNCHANGED <<dpSite, dpListen>>
         ELSE /\ dpListen' = extra \cup {own}
              /\ dpSite' = [dpSite EXCEPT ![s.name] = "serves"]
              /\ UNCHANGED dpProc
  /\ UNCHANGED <<dpLay, dpTalk>>

(* The constructor of Communicator returns when every address has answered. *)
DpMayConnect(x) ==
  \/ dpProc[x.proc] = "loaded" /\ dpSite[x.name] = "serves"
  \/ dpProc[x.proc] = "serving" /\ dpSite[x.name] = "new"           \* a client, after the servers of its process
DpCommunicator(x) ==
  /\ DpMayConnect(x)
  /\ DpAnswers(DpDials(dpLay))
  /\ dpTalk' = dpTalk \cup DpConnections(x.name, DpDials(dpLay))
  /\ dpSite' = [dpSite EXCEPT ![x.name] = "talks"]
  /\ UNCHANGED <<dpLay, dpProc, dpListen>>

(* ConnectClientLeaders, in a thread of its own. *)
DpConnectClientLeaders(x) ==
  /\ dpLay.forwarding /\ dpProc[x.proc] \in {"loaded", "serving"} /\ dpSite[x.name] = "talks"
  /\ DpAnswers(DpDialClientLeaders(dpLay))
  /\ dpTalk' = dpTalk \cup DpConnections(x.name, DpDialClientLeaders(dpLay))
  /\ dpSite' = [dpSite EXCEPT ![x.name] = "leaders"]
  /\ UNCHANGED <<dpLay, dpProc, dpListen>>

(* CONNECT_TIMEOUT_MS has passed and an address has not answered: verify() or Log_fatal,
   and the services of the process are gone. *)
DpConnectTimeout(x) ==
  /\ Cardinality({p \in DpProcs(dpLay) : dpProc[p] = "dead"}) < DpMaxDead
  /\ \/ DpMayConnect(x) /\ ~DpAnswers(DpDials(dpLay))
     \/ dpLay.forwarding /\ dpProc[x.proc] \in {"loaded", "serving"} /\ dpSite[x.name] = "talks" /\ ~DpAnswers(DpDialClientLeaders(dpLay))
  /\ dpProc' = [dpProc EXCEPT ![x.proc] = "dead"]
  /\ dpListen' = {y \in dpListen : y.svc \notin {DpService("clients", x.proc), DpService("raft", x.proc)}
                                     \cup {DpService(k, s.id) : k \in {"site", "slog_manager", "server_control"},
                                                                s \in DpSitesByProcessName(dpLay, x.proc)}
                                     \cup {DpService("dast_manager", DpMyRid(dpLay, s)) :
                                             s \in {z \in DpSitesByProcessName(dpLay, x.proc) : DpHostsDastManager(dpLay, z)}}}
  /\ UNCHANGED <<dpLay, dpSite, dpTalk>>

(* server_launch_worker: all setup threads are joined before any SetupHeartbeat. *)
DpSetupHeartbeat(p) ==
  /\ dpProc[p] = "loaded"
  /\ \A s \in DpSitesByProcessName(dpLay, p) : dpSite[s.name] \in {"talks", "leaders"}
  /\ dpProc' = [dpProc EXCEPT ![p] = "serving"]
  /\ dpListen' = DpBind(dpListen, {DpListener(s.host, s.port + DpCtrlPortDelta, DpService("server_control", s.id)) :
                                     s \in DpSitesByProcessName(dpLay, p)})
  /\ UNCHANGED <<dpLay, dpSite, dpTalk>>

(* The script connects to one control service after the other, and does not go on before
   all have answered. *)
DpControl ==
  /\ DpAnswers(DpDialControl(dpLay))
  /\ \A c \in dpTalk : c.by # DpScript
  /\ dpTalk' = dpTalk \cup DpConnections(DpScript, DpDialControl(dpLay))
  /\ UNCHANGED <<dpLay, dpProc, dpSite, dpListen>>

DpNext ==
  \/ \E p \in DpProcs(dpLay) : DpCreateConfig(p) \/ DpSetupHeartbeat(p)
  \/ \E s \in DpServers(dpLay) : DpSetupService(s)
  \/ \E x \in DpServers(dpLay) \cup DpClients(dpLay) :
       DpCommunicator(x) \/ DpConnectClientLeaders(x) \/ DpConnectTimeout(x)
  \/ DpControl

-----
(* Every connection reaches the service it is taken for, although dialling
   (communicator.cc, run.py) and listening (server_worker.cc, s_main.cc) compute
   addresses by different code from the same file, "port assignment should match run.py"
   (config.cc); no process dies because its port was taken; once all sites serve nothing
   is dialled in vain; and a site that talks holds a connection to the manager of the
   region in which config.cc places it. *)
DpReaches ==
  /\ \A c \in dpTalk : c.got = c.want
  /\ \A x, y \in dpListen : x.at = y.at => x = y
  /\ (\A s \in DpServers(dpLay) : dpSite[s.name] # "new" /\ dpProc[s.proc] # "dead") => DpAnswers(DpDials(dpLay))
  /\ \A c \in DpClients(dpLay) : DpHasClientPort(dpLay, c.name)
  /\ \A s \in DpServers(dpLay) :
       /\ dpProc[s.proc] # "clash"
       /\ (dpSite[s.name] \in {"talks", "leaders"} /\ dpLay.mode = "dast") =>
            \E m \in DpServers(dpLay) : /\ DpHostsDastManager(dpLay, m)
                                        /\ DpSitesInSameRegion(dpLay, m.id, s.id)
                                        /\ \E c \in dpTalk : c.by = s.name /\ c.got = <<"dast_manager", DpMyRid(dpLay, s)>>
                                        /\ DpMyRid(dpLay, m) = DpMyRid(dpLay, s)
=====
