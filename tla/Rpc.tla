----- MODULE Rpc -----
(* One rrr::Client and the rrr::Server it is connected to.  Threads: the callers of the
   stubs, the client's poll thread, a thread that closes the client, the server's accept
   loop and poll thread, the threads that answer through DeferredReply, and the one that
   destroys the server. A lock is modelled where a thread gives way while it holds it
   (out_l_ from begin_request to end_request); the other critical sections are one step
   each.  Bytes are the subject of module Marshal: here a request is its xid, and a
   reply is its header [xid, err] and its body. *)
EXTENDS Naturals, FiniteSets, Sequences

CONSTANTS
  RpKind,   \* xid -> "served", or "unknown" for an rpc_id nobody registered
  RpTimed,  \* the xids whose caller waits with timed_wait
  RpConns,  \* connections the server may accept; 1 is the client's
  RpLoads   \* [xids, conns] of a run: the calls and the connections made

VARIABLES
  rp_cl,           \* Client: status_, out_l_, pending_fu_, out_, in_, poll mode
  rp_call,         \* caller of xid -> where it is
  rp_fu,           \* Future
  rp_close,        \* thread -> where it is in Client::close
  rp_up, rp_down,  \* bytes between the two sockets, client to server and back
  rp_sv,           \* Server: status_, the turn of server_loop, sconns_, what ~Server has still to close
  rp_sc,           \* ServerConnection
  rp_poll          \* the server's PollThread

clientVars == <<rp_cl, rp_call, rp_fu, rp_close>>
serverVars == <<rp_sv, rp_sc, rp_poll>>
rpcVars == <<rp_cl, rp_call, rp_fu, rp_close, rp_up, rp_down, rp_sv, rp_sc, rp_poll>>

RpXids == DOMAIN RpKind
RpMine == 1

ASSUME RpAssumption ==
  /\ RpTimed \subseteq RpXids
  /\ RpConns \subseteq Nat /\ IsFiniteSet(RpConns) /\ RpMine \in RpConns
  /\ \A l \in RpLoads : l.xids \subseteq RpXids /\ RpMine \in l.conns

-----
(* Future. *)

RpNewFuture == [refs |-> 1, ready |-> FALSE, timed |-> FALSE, err |-> "none", runs |-> 0]

(* Variant that the runs must reject: a reply makes a future ready that has timed out
   already. *)
RpNotifyReady_Late(fu, err) ==
  [fu EXCEPT !.ready = TRUE, !.err = err, !.runs = @ + 1, !.refs = @ - 1]

(* The error code and the reply are stored, then notify_ready, and the reference of
   pending_fu_ is released. *)
RpNotifyReady(fu, err) ==
  [fu EXCEPT !.ready = fu.ready \/ ~fu.timed, !.err = err, !.refs = @ - 1,
             !.runs = IF fu.ready \/ ~fu.timed THEN @ + 1 ELSE @]

(* pthread_cond_timedwait gives up: it will return ETIMEDOUT, but has yet to get
   ready_m_ back, and notify_ready may take it first. *)
RpExpire(x) ==
  /\ x \in RpTimed /\ rp_call[x] = "waiting"
  /\ ~rp_fu[x].ready /\ ~rp_fu[x].timed
  /\ rp_call' = [rp_call EXCEPT ![x] = "expired"]
  /\ UNCHANGED <<rp_cl, rp_fu, rp_close, rp_up, rp_down, rp_sv, rp_sc, rp_poll>>

(* Variant that the runs must reject: the future is forgotten by the client as well. *)
RpTimedWait_Forgets(x) ==
  /\ rp_call[x] = "expired"
  /\ rp_fu' = [rp_fu EXCEPT ![x].timed = TRUE]
  /\ rp_call' = [rp_call EXCEPT ![x] = "timed out"]
  /\ rp_cl' = [rp_cl EXCEPT !.pend = @ \ {x}]
  /\ UNCHANGED <<rp_close, rp_up, rp_down, rp_sv, rp_sc, rp_poll>>

(* ETIMEDOUT: timed_out_ is set whatever ready_ says by now.  The future stays in
   pending_fu_, so that the late reply is consumed. *)
RpTimedWait(x) ==
  /\ rp_call[x] = "expired"
  /\ rp_fu' = [rp_fu EXCEPT ![x].timed = TRUE]
  /\ rp_call' = [rp_call EXCEPT ![x] = "timed out"]
  /\ UNCHANGED <<rp_cl, rp_close, rp_up, rp_down, rp_sv, rp_sc, rp_poll>>

(* The rest of timed_wait, outside of ready_m_; the caller drops its reference. *)
RpTimedOut(x) ==
  /\ rp_call[x] = "timed out"
  /\ rp_fu' = [rp_fu EXCEPT ![x].err = "ETIMEDOUT", ![x].runs = @ + 1, ![x].refs = @ - 1]
  /\ rp_call' = [rp_call EXCEPT ![x] = "end"]
  /\ UNCHANGED <<rp_cl, rp_close, rp_up, rp_down, rp_sv, rp_sc, rp_poll>>

(* wait returns, and the caller drops its reference. *)
RpWaited(x) ==
  /\ rp_call[x] = "waiting" /\ rp_fu[x].ready
  /\ rp_call' = [rp_call EXCEPT ![x] = "end"]
  /\ rp_fu' = [rp_fu EXCEPT ![x].refs = @ - 1]
  /\ UNCHANGED <<rp_cl, rp_close, rp_up, rp_down, rp_sv, rp_sc, rp_poll>>

-----
(* Client. *)

RpMode(cl, mode) ==
  [cl EXCEPT !.mode = IF @ = "none" THEN @ ELSE mode,
             !.edge = @ \/ (cl.mode = "read" /\ mode = "both")]

(* The listening socket is open until server_loop ends. *)
RpListens == rp_sv.status \in {"RUNNING", "STOPPING"}

(* connect succeeds: the socket is added to the client's poll manager. *)
RpConnect ==
  /\ rp_cl.status = "NEW" /\ RpListens
  /\ rp_cl' = [rp_cl EXCEPT !.status = "CONNECTED", !.mode = "read"]
  /\ rp_sc' = [rp_sc EXCEPT ![RpMine].waiting = TRUE]
  /\ UNCHANGED <<rp_call, rp_fu, rp_close, rp_up, rp_down, rp_sv, rp_poll>>

(* begin_request, to its first look at status_: out_l_ is held from here. *)
RpBeginLock(x) ==
  /\ rp_call[x] = "idle" /\ rp_cl.lock = 0 /\ rp_cl.status # "NEW"
  /\ rp_cl' = [rp_cl EXCEPT !.lock = x]
  /\ rp_call' = [rp_call EXCEPT ![x] = IF rp_cl.status = "CONNECTED" THEN "make" ELSE "null"]
  /\ UNCHANGED <<rp_fu, rp_close, rp_up, rp_down, rp_sv, rp_sc, rp_poll>>

(* The future enters pending_fu_. *)
RpBeginAdd(x) ==
  /\ rp_call[x] = "make"
  /\ rp_fu' = [rp_fu EXCEPT ![x] = RpNewFuture]
  /\ rp_cl' = [rp_cl EXCEPT !.pend = @ \cup {x}]
  /\ rp_call' = [rp_call EXCEPT ![x] = "check"]
  /\ UNCHANGED <<rp_close, rp_up, rp_down, rp_sv, rp_sc, rp_poll>>

(* Variant that the runs must reject: status_ is not looked at again. *)
RpBeginCheck_Trusts(x) ==
  /\ rp_call[x] = "check"
  /\ rp_call' = [rp_call EXCEPT ![x] = "write"]
  /\ UNCHANGED <<rp_cl, rp_fu, rp_close, rp_up, rp_down, rp_sv, rp_sc, rp_poll>>

(* "check if the client gets closed in the meantime" *)
RpBeginCheck(x) ==
  /\ rp_call[x] = "check"
  /\ IF rp_cl.status = "CONNECTED"
     THEN /\ rp_call' = [rp_call EXCEPT ![x] = "write"]
          /\ UNCHANGED <<rp_cl, rp_fu>>
     ELSE /\ rp_call' = [rp_call EXCEPT ![x] = "null"]
          /\ rp_fu' = [rp_fu EXCEPT ![x].refs = IF x \in rp_cl.pend THEN @ - 1 ELSE @]
          /\ rp_cl' = [rp_cl EXCEPT !.pend = @ \ {x}]
  /\ UNCHANGED <<rp_close, rp_up, rp_down, rp_sv, rp_sc, rp_poll>>

(* The end of begin_request, the arguments and end_request, all under out_l_.  Nothing
   is written once the client is closed. *)
RpEndRequest(x) ==
  /\ rp_call[x] \in {"write", "null"}
  /\ LET sent == rp_call[x] = "write" /\ rp_cl.status = "CONNECTED"
         cl   == [rp_cl EXCEPT !.out = IF sent THEN Append(@, x) ELSE @, !.lock = 0]
     IN  rp_cl' = RpMode(cl, "both")
  /\ IF rp_call[x] = "write"
     THEN /\ rp_call' = [rp_call EXCEPT ![x] = "waiting"]
          /\ rp_fu' = [rp_fu EXCEPT ![x].refs = @ + 1]
     ELSE /\ rp_call' = [rp_call EXCEPT ![x] = "end"]
          /\ UNCHANGED rp_fu
  /\ UNCHANGED <<rp_close, rp_up, rp_down, rp_sv, rp_sc, rp_poll>>

(* What a writable socket takes. *)
RpTaken == IF rp_cl.out = <<>> THEN {0} ELSE 1..Len(rp_cl.out)

(* Variant that the runs must reject: one write is taken to be enough. *)
RpHandleWrite_Once ==
  /\ rp_cl.edge /\ rp_cl.lock = 0 /\ rp_cl.status = "CONNECTED"
  /\ \E k \in RpTaken :
       /\ rp_up' = rp_up \o SubSeq(rp_cl.out, 1, k)
       /\ rp_cl' = RpMode([rp_cl EXCEPT !.out = SubSeq(@, k + 1, Len(@)), !.edge = FALSE], "read")
  /\ UNCHANGED <<rp_call, rp_fu, rp_close, rp_down, rp_sv, rp_sc, rp_poll>>

(* handle_write on a writable socket: as much as the socket takes; when it is full the
   next event comes with its room. *)
RpHandleWrite ==
  /\ rp_cl.edge /\ rp_cl.lock = 0 /\ rp_cl.status = "CONNECTED"
  /\ \E k \in RpTaken :
       /\ rp_up' = rp_up \o SubSeq(rp_cl.out, 1, k)
       /\ rp_cl' = IF k = Len(rp_cl.out)
                   THEN RpMode([rp_cl EXCEPT !.out = <<>>, !.edge = FALSE], "read")
                   ELSE [rp_cl EXCEPT !.out = SubSeq(@, k + 1, Len(@)), !.edge = FALSE]
  /\ UNCHANGED <<rp_call, rp_fu, rp_close, rp_down, rp_sv, rp_sc, rp_poll>>

(* The socket has room again. *)
RpWritable ==
  /\ rp_cl.mode = "both" /\ ~rp_cl.edge
  /\ rp_cl' = [rp_cl EXCEPT !.edge = TRUE]
  /\ UNCHANGED <<rp_call, rp_fu, rp_close, rp_up, rp_down, rp_sv, rp_sc, rp_poll>>

(* handle_read takes what the socket has and begins its loop. *)
RpHandleRead ==
  /\ rp_cl.status = "CONNECTED" /\ rp_cl.in = <<>> /\ rp_down # <<>>
  /\ rp_close.poll = "run"
  /\ rp_cl' = [rp_cl EXCEPT !.in = rp_down]
  /\ rp_down' = <<>>
  /\ UNCHANGED <<rp_call, rp_fu, rp_close, rp_up, rp_sv, rp_sc, rp_poll>>

(* One turn of the loop.  The body is only read when the future is known. *)
RpReadReply ==
  /\ rp_cl.in # <<>>
  /\ LET h == Head(rp_cl.in)
         x == h.xid
     IN  IF h.part = "body"
         THEN /\ rp_cl' = [rp_cl EXCEPT !.in = <<>>, !.lost = TRUE]
              /\ UNCHANGED rp_fu
         ELSE IF x \in rp_cl.pend
         THEN /\ rp_cl' = [rp_cl EXCEPT !.in = Tail(Tail(@)), !.pend = @ \ {x}]
              /\ rp_fu' = [rp_fu EXCEPT ![x] = RpNotifyReady(@, h.err)]
         ELSE /\ rp_cl' = [rp_cl EXCEPT !.in = Tail(@)]
              /\ UNCHANGED rp_fu
  /\ UNCHANGED <<rp_call, rp_close, rp_up, rp_down, rp_sv, rp_sc, rp_poll>>

RpClosers == {"app", "poll"}

(* The server closed its side, or its listening socket before it accepted. It never
   closes a connection that server_loop dropped: the kernel does, at the end of the
   process. *)
RpHungUp ==
  \/ rp_sc[RpMine].status = "CLOSED"
  \/ rp_sc[RpMine].waiting /\ ~RpListens

(* close is called by close_and_release in the thread "app", or by handle_error in the
   poll thread when the peer has hung up. *)
RpClose(th) ==
  /\ rp_close[th] = "run" /\ rp_cl.status # "NEW"
  /\ th = "poll" => RpHungUp /\ rp_cl.mode # "none" /\ rp_cl.in = <<>>
  /\ IF rp_cl.status = "CONNECTED"
     THEN rp_cl' = [rp_cl EXCEPT !.mode = "none"]
     ELSE UNCHANGED rp_cl
  /\ rp_close' = [rp_close EXCEPT ![th] = "mark"]
  /\ UNCHANGED <<rp_call, rp_fu, rp_up, rp_down, rp_sv, rp_sc, rp_poll>>

RpCloseMark(th) ==
  /\ rp_close[th] = "mark"
  /\ rp_cl' = [rp_cl EXCEPT !.status = "CLOSED"]
  /\ rp_close' = [rp_close EXCEPT ![th] = "fail"]
  /\ UNCHANGED <<rp_call, rp_fu, rp_up, rp_down, rp_sv, rp_sc, rp_poll>>

(* invalidate_pending_futures. *)
RpInvalidate(th) ==
  /\ rp_close[th] = "fail"
  /\ rp_fu' = [x \in RpXids |-> IF x \in rp_cl.pend THEN RpNotifyReady(rp_fu[x], "ENOTCONN") ELSE rp_fu[x]]
  /\ rp_cl' = [rp_cl EXCEPT !.pend = {}]
  /\ rp_close' = [rp_close EXCEPT ![th] = "end"]
  /\ UNCHANGED <<rp_call, rp_up, rp_down, rp_sv, rp_sc, rp_poll>>

-----
(* PollMgr::PollThread at the server.  set = poll_set_ (with mode_, which holds the fds
   of its members), removing = pending_remove_, watched = what the kernel's epoll set
   holds: fd -> connection, or 0. *)

RpNoneWatched == [set |-> {}, removing |-> {}, watched |-> [f \in RpConns |-> 0]]

RpFds == {rp_sc[c].fd : c \in rp_poll.set}

RpPollAdd(p, c, fd) == [p EXCEPT !.set = @ \cup {c}, !.watched = [@ EXCEPT ![fd] = c]]

RpPollRemove(p, c) ==
  IF c \in p.set THEN [p EXCEPT !.set = @ \ {c}, !.removing = @ \cup {c}] ELSE p

(* Variant that the runs must reject: a descriptor that is in use again is taken out of
   the epoll set. *)
RpPollSweep_Any(p, c, fds) ==
  [p EXCEPT !.removing = @ \ {c}, !.watched = [@ EXCEPT ![rp_sc[c].fd] = 0]]

(* The end of a turn of poll_loop, for one connection. *)
RpPollSweep(p, c, fds) ==
  [p EXCEPT !.removing = @ \ {c},
            !.watched = IF rp_sc[c].fd \in fds THEN @ ELSE [@ EXCEPT ![rp_sc[c].fd] = 0]]

-----
(* Server. *)

RpRelease(c) == [c EXCEPT !.refs = @ - 1]

RpFreeFds == RpConns \ {rp_sc[c].fd : c \in {d \in RpConns : rp_sc[d].open}}

(* Another client connects, which only keeps its connection. *)
RpArrive(c) ==
  /\ c # RpMine /\ ~rp_sc[c].waiting /\ rp_sc[c].status = "NEW" /\ RpListens
  /\ rp_sc' = [rp_sc EXCEPT ![c].waiting = TRUE]
  /\ UNCHANGED <<rp_cl, rp_call, rp_fu, rp_close, rp_up, rp_down, rp_sv, rp_poll>>

(* A turn of server_loop up to accept: select reports a connection, and status_ is still
   RUNNING. *)
RpSelect ==
  /\ rp_sv.status = "RUNNING" /\ ~rp_sv.turn
  /\ \E c \in RpConns : rp_sc[c].waiting
  /\ rp_sv' = [rp_sv EXCEPT !.turn = TRUE]
  /\ UNCHANGED <<rp_cl, rp_call, rp_fu, rp_close, rp_up, rp_down, rp_sc, rp_poll>>

(* The rest of the turn; the kernel gives the lowest free descriptor.  If ~Server has
   set status_ meanwhile, the socket is dropped: it is neither registered nor closed. *)
RpAccept(c) ==
  /\ rp_sv.turn /\ rp_sc[c].waiting
  /\ LET fd == CHOOSE f \in RpFreeFds : \A g \in RpFreeFds : f <= g
     IN  IF rp_sv.status = "RUNNING"
         THEN /\ rp_sc' = [rp_sc EXCEPT ![c] = [@ EXCEPT !.waiting = FALSE, !.status = "CONNECTED", !.refs = 2,
                                                         !.open = TRUE, !.fd = fd]]
              /\ rp_poll' = RpPollAdd(rp_poll, c, fd)
              /\ rp_sv' = [rp_sv EXCEPT !.turn = FALSE, !.sconns = @ \cup {c}]
         ELSE /\ rp_sc' = [rp_sc EXCEPT ![c] = [@ EXCEPT !.waiting = FALSE, !.status = "DROPPED",
                                                         !.open = TRUE, !.fd = fd]]
              /\ rp_sv' = [rp_sv EXCEPT !.turn = FALSE]
              /\ UNCHANGED rp_poll
  /\ UNCHANGED <<rp_cl, rp_call, rp_fu, rp_close, rp_up, rp_down>>

RpHeader(x, err) == [part |-> "header", xid |-> x, err |-> err]
RpBody(x) == [part |-> "body", xid |-> x, err |-> "none"]

(* begin_reply .. end_reply: the reply is lost when the connection is closed, since
   nothing writes its out_ any more. *)
RpReply(x, err) ==
  IF rp_sc[RpMine].status = "CONNECTED" THEN rp_down \o <<RpHeader(x, err), RpBody(x)>> ELSE rp_down

(* handle_read of the client's connection, one request; the handler gets a reference to
   the connection. *)
RpServe ==
  /\ rp_up # <<>> /\ rp_sc[RpMine].status = "CONNECTED" /\ RpMine \in rp_poll.set
  /\ rp_poll.watched[rp_sc[RpMine].fd] = RpMine
  /\ LET x == Head(rp_up)
     IN  IF RpKind[x] = "served"
         THEN /\ rp_sc' = [rp_sc EXCEPT ![RpMine].refs = @ + 1, ![RpMine].busy = @ \cup {x}]
              /\ UNCHANGED rp_down
         ELSE /\ rp_down' = RpReply(x, "ENOENT")
              /\ UNCHANGED rp_sc
  /\ rp_up' = Tail(rp_up)
  /\ UNCHANGED <<rp_cl, rp_call, rp_fu, rp_close, rp_sv, rp_poll>>

(* DeferredReply::reply, from any thread. *)
RpDeferredReply(x) ==
  /\ x \in rp_sc[RpMine].busy
  /\ rp_down' = RpReply(x, "none")
  /\ rp_sc' = [rp_sc EXCEPT ![RpMine].refs = @ - 1, ![RpMine].busy = @ \ {x}]
  /\ UNCHANGED <<rp_cl, rp_call, rp_fu, rp_close, rp_up, rp_sv, rp_poll>>

(* Variant that the runs must reject: sconns_ is not consulted, so that two closing
   threads both release. *)
RpConnClose_Twice(c) ==
  /\ rp_sc' = [rp_sc EXCEPT ![c] = [RpRelease(@) EXCEPT !.status = "CLOSED", !.open = FALSE]]
  /\ rp_poll' = RpPollRemove(rp_poll, c)

(* ServerConnection::close. *)
RpConnClose(c) ==
  IF rp_sc[c].status = "CONNECTED" /\ c \in rp_sv.sconns
  THEN /\ rp_sc' = [rp_sc EXCEPT ![c] = [RpRelease(@) EXCEPT !.status = "CLOSED", !.open = FALSE]]
       /\ rp_poll' = RpPollRemove(rp_poll, c)
  ELSE UNCHANGED <<rp_sc, rp_poll>>

(* handle_error: the client's socket is closed, or another peer hung up. *)
RpConnError(c) ==
  /\ c \in rp_poll.set /\ rp_poll.watched[rp_sc[c].fd] = c
  /\ c = RpMine => rp_cl.mode = "none"
  /\ RpConnClose(c)
  /\ rp_sv' = [rp_sv EXCEPT !.sconns = @ \ {c}]
  /\ UNCHANGED <<rp_cl, rp_call, rp_fu, rp_close, rp_up, rp_down>>

(* The poll thread drops its reference. *)
RpPollDrop(c) ==
  /\ c \in rp_poll.removing
  /\ rp_poll' = RpPollSweep(rp_poll, c, RpFds)
  /\ rp_sc' = [rp_sc EXCEPT ![c] = RpRelease(@)]
  /\ UNCHANGED <<rp_cl, rp_call, rp_fu, rp_close, rp_up, rp_down, rp_sv>>

(* ~Server tells the accept loop to stop, and joins it. *)
RpStop ==
  /\ rp_sv.status = "RUNNING"
  /\ rp_sv' = [rp_sv EXCEPT !.status = "STOPPING"]
  /\ UNCHANGED <<rp_cl, rp_call, rp_fu, rp_close, rp_up, rp_down, rp_sc, rp_poll>>

(* Variant that the runs must reject: only connections without a request in work are
   closed. *)
RpLoopEnd_Busy ==
  /\ rp_sv.status = "STOPPING" /\ ~rp_sv.turn
  /\ rp_sv' = [rp_sv EXCEPT !.status = "STOPPED", !.toclose = {c \in rp_sv.sconns : rp_sc[c].busy = {}}]
  /\ UNCHANGED <<rp_cl, rp_call, rp_fu, rp_close, rp_up, rp_down, rp_sc, rp_poll>>

(* server_loop closes its socket and ends, and ~Server copies sconns_. *)
RpLoopEnd ==
  /\ rp_sv.status = "STOPPING" /\ ~rp_sv.turn
  /\ rp_sv' = [rp_sv EXCEPT !.status = "STOPPED", !.toclose = rp_sv.sconns]
  /\ UNCHANGED <<rp_cl, rp_call, rp_fu, rp_close, rp_up, rp_down, rp_sc, rp_poll>>

(* Each of the copied connections is closed.  The copies are not counted: one that its
   other holders have let go of in the meantime is memory already freed, and close
   either finds it CLOSED still, which does nothing, or takes the process with it
   (RpFreedClose). *)
RpStopClose(c) ==
  /\ c \in rp_sv.toclose
  /\ RpConnClose(c)
  /\ rp_sv' = [rp_sv EXCEPT !.toclose = @ \ {c}, !.sconns = @ \ {c}]
  /\ UNCHANGED <<rp_cl, rp_call, rp_fu, rp_close, rp_up, rp_down>>

(* The end of the process: the kernel closes every socket. *)
RpProcessEnds ==
  /\ rp_sc' = [c \in RpConns |-> [rp_sc[c] EXCEPT !.status = IF rp_sc[c].open THEN "CLOSED" ELSE @,
                                                   !.open = FALSE, !.refs = 0, !.busy = {}]]
  /\ rp_poll' = RpNoneWatched
  /\ rp_sv' = [status |-> "EXITED", turn |-> FALSE, sconns |-> {}, toclose |-> {}]
  /\ UNCHANGED <<rp_cl, rp_call, rp_fu, rp_close, rp_up, rp_down>>

(* close on freed memory that has been used again. *)
RpFreedClose(c) ==
  /\ c \in rp_sv.toclose /\ rp_sc[c].refs = 0
  /\ RpProcessEnds

(* The counter of open connections is 0, and ~Server returns. *)
RpStopped ==
  /\ rp_sv.status = "STOPPED" /\ rp_sv.toclose = {}
  /\ \A c \in RpConns : rp_sc[c].refs = 0
  /\ rp_sv' = [rp_sv EXCEPT !.status = "GONE"]
  /\ UNCHANGED <<rp_cl, rp_call, rp_fu, rp_close, rp_up, rp_down, rp_sc, rp_poll>>

(* main returns once WaitForShutdown has deleted the server. *)
RpExit == rp_sv.status = "GONE" /\ RpProcessEnds

-----
RpInit ==
  /\ rp_cl = [status |-> "NEW", lock |-> 0, pend |-> {}, out |-> <<>>, in |-> <<>>,
              mode |-> "none", edge |-> FALSE, lost |-> FALSE]
  /\ \E l \in RpLoads :
       /\ rp_call = [x \in RpXids |-> IF x \in l.xids THEN "idle" ELSE "end"]
       /\ rp_sc = [c \in RpConns |-> [status |-> IF c \in l.conns THEN "NEW" ELSE "NONE", waiting |-> FALSE,
                                      refs |-> 0, busy |-> {}, open |-> FALSE, fd |-> 0]]
  /\ rp_fu = [x \in RpXids |-> [RpNewFuture EXCEPT !.refs = 0]]
  /\ rp_close = [th \in RpClosers |-> "run"]
  /\ rp_up = <<>> /\ rp_down = <<>>
  /\ rp_sv = [status |-> "RUNNING", turn |-> FALSE, sconns |-> {}, toclose |-> {}]
  /\ rp_poll = RpNoneWatched

RpNext ==
  \/ RpConnect \/ RpHandleWrite \/ RpWritable \/ RpHandleRead \/ RpReadReply
  \/ RpServe \/ RpSelect \/ RpStop \/ RpLoopEnd \/ RpStopped \/ RpExit
  \/ \E x \in RpXids :
       RpBeginLock(x) \/ RpBeginAdd(x) \/ RpBeginCheck(x) \/ RpEndRequest(x)
       \/ RpExpire(x) \/ RpTimedWait(x) \/ RpTimedOut(x) \/ RpWaited(x) \/ RpDeferredReply(x)
  \/ \E th \in RpClosers : RpClose(th) \/ RpCloseMark(th) \/ RpInvalidate(th)
  \/ \E c \in RpConns :
       RpArrive(c) \/ RpAccept(c) \/ RpConnError(c) \/ RpPollDrop(c) \/ RpStopClose(c) \/ RpFreedClose(c)

(* The threads of the runtime go on; nobody has to call, close or stop. *)
RpFairness ==
  /\ WF_rpcVars(RpHandleWrite) /\ WF_rpcVars(RpWritable) /\ WF_rpcVars(RpHandleRead)
  /\ WF_rpcVars(RpReadReply) /\ WF_rpcVars(RpServe)
  /\ \A x \in RpXids : WF_rpcVars(RpBeginAdd(x) \/ RpBeginCheck(x) \/ RpEndRequest(x))
                       /\ WF_rpcVars(RpDeferredReply(x)) /\ WF_rpcVars(RpWaited(x))
                       /\ WF_rpcVars(RpTimedWait(x) \/ RpTimedOut(x))
  /\ \A th \in RpClosers : WF_rpcVars(RpCloseMark(th) \/ RpInvalidate(th))
  /\ WF_rpcVars(RpClose("poll"))
  /\ WF_rpcVars(RpSelect) /\ WF_rpcVars(RpLoopEnd) /\ WF_rpcVars(RpStopped) /\ WF_rpcVars(RpExit)
  /\ WF_rpcVars(RpConnError(RpMine))
  /\ \A c \in RpConns : WF_rpcVars(RpAccept(c)) /\ WF_rpcVars(RpPollDrop(c)) /\ WF_rpcVars(RpStopClose(c))

RpSpec == RpInit /\ [][RpNext]_rpcVars /\ RpFairness

-----
(* The callback of a future runs once for each of its outcomes, and for nothing else:
   once when the reply, or the close of the client, has made it ready, and once when
   timed_wait has given up (Future::notify_ready against Future::timed_wait). *)
RpOncePerOutcome ==
  \A x \in RpXids :
    rp_fu[x].runs = Cardinality({h \in {1} : rp_fu[x].ready})
                    + Cardinality({h \in {1} : rp_fu[x].timed /\ rp_call[x] = "end"})

(* A timeout is final: no reply and no close that comes after it makes the future ready,
   so none of them runs its callback (Future::notify_ready). *)
RpTimeoutFinal == [][\A x \in RpXids : rp_fu[x].timed /\ rp_fu'[x].ready => rp_fu[x].ready]_rpcVars

(* What does not follow: that a callback runs once.  A reply that comes between the
   expiry of the wait and the return of timed_wait makes the future ready and timed out,
   and the callback runs for both. *)
RpOneCallback == \A x \in RpXids : rp_fu[x].runs <= 1

(* handle_read leaves the body of a reply it has no future for in in_, and takes it for
   the size of the next reply.  That happens to a client that is being closed, never to
   one in use. *)
RpFramed == rp_cl.lost => rp_cl.status = "CLOSED"

(* The count of a ServerConnection is the number of its holders: sconns_, the poll
   thread, and the requests in work; so it is freed once, after the last of them. *)
RpCounted ==
  \A c \in RpConns :
    rp_sc[c].refs = Cardinality({h \in {1} : c \in rp_sv.sconns})
                    + Cardinality({h \in {1} : c \in rp_poll.set \cup rp_poll.removing})
                    + Cardinality(rp_sc[c].busy)

(* The poll thread watches every connection in poll_set_: the removal of a closed one
   does not undo the registration of a newer one that was given the same descriptor
   (poll_loop). *)
RpWatched == \A c \in rp_poll.set : rp_poll.watched[rp_sc[c].fd] = c

(* A caller that waits for its reply does not wait for ever: the reply comes, or the
   client is closed and close finds the future, even when begin_request added it
   meanwhile.  If server_loop dropped its connection, that takes until the server's
   process ends. *)
RpAnswered == \A x \in RpXids : rp_call[x] = "waiting" ~> rp_call[x] = "end"

(* ~Server ends: the accept loop does, and the connections it waits for are all
   released, unless close on a freed one ends the process. *)
RpServerEnds == rp_sv.status = "STOPPING" ~> rp_sv.status \in {"GONE", "EXITED"}

(* What begin_request says before it takes its own reference: "one ref is already in
   pending_fu_". *)
RpOneRefPending == \A x \in RpXids : rp_call[x] = "write" => rp_fu[x].refs > 0

(* Both ends of a connection stay in step with what they hold: the bytes with the
   framing, the count with the holders, the poll set with epoll (Client::handle_read,
   ServerConnection::close, PollThread::poll_loop). *)
RpInStep == RpFramed /\ RpCounted /\ RpWatched

=====
