----- MODULE MCRuntime -----
(* Workloads for what the protocols run on: the rpc client and server, the marshalling
   of packets and of sparse integers, the thread pool, the epochs of the transaction
   schedulers, and the start and the end of the processes of an experiment.  A behaviour
   runs one of them; the others stay in one of their initial states, where no fair
   action of theirs is enabled. *)
EXTENDS Runtime, Marshal, SparseInt, TLC

VARIABLE part
mcVars == <<part, rpcVars, marshalVars, sparseVars, threadVars, epochVars, lcVars>>

(* Two calls on one connection, one of them to an rpc nobody serves; one call and a
   second connection; or one call whose caller waits with timed_wait. *)
MCRpKind == (1 :> "served") @@ (2 :> "unknown") @@ (3 :> "served")
MCRpLoads == {[xids |-> {1, 2}, conns |-> {1}], [xids |-> {1}, conns |-> {1, 2}], [xids |-> {3}, conns |-> {1}]}

(* Packets without arguments, with flat ones, with an empty or a full vector and with a
   map of sets; they fill chunks of three bytes unevenly. *)
I8 == <<"i8">>
MCMaSignature == (1 :> <<I8, I8>>) @@ (2 :> << <<"vector", I8>>, I8>>) @@
                 (3 :> << <<"map", I8, <<"set", I8>> >> >>) @@ (4 :> <<>>)
Packet(rpc, args) == [rpc |-> rpc, args |-> args]
Flat == Packet(1, <<101, 102>>)
Full == Packet(2, << <<103, 104, 105>>, 106>>)
None == Packet(4, <<>>)
Maps == Packet(3, << (7 :> {108, 109}) @@ (8 :> {}) >>)
MCMaLoads == {<<Flat, Full, None>>, <<None, Maps>>, <<Packet(2, << <<>>, 106>>), Flat>>}

(* Job 1 submits job 2. *)
MCThChild == [j \in ThJobs |-> IF j = 1 THEN 2 ELSE 0]

MCEpParOf == (0 :> 0) @@ (1 :> 0) @@ (2 :> 1)

(* Experiments: one process with a site and two clients; two processes, one of which
   dies; two concurrent requests and a controller that stops the clients; an open-loop
   client whose last answers come late. *)
Deployed == [sites |-> ("s1" :> 1) @@ ("s2" :> 2), clients |-> "c1" :> 1, managers |-> {"s1"}, conc |-> 1,
             forwards |-> 0, open |-> FALSE, early |-> FALSE, late |-> FALSE, dies |-> FALSE, stops |-> FALSE]
MCLcLoads == {
  [Deployed EXCEPT !.sites = "s1" :> 1, !.clients = ("c1" :> 1) @@ ("c2" :> 1)],
  [Deployed EXCEPT !.dies = TRUE],
  [Deployed EXCEPT !.conc = 2, !.stops = TRUE],
  [Deployed EXCEPT !.sites = "s1" :> 1, !.open = TRUE, !.late = TRUE, !.forwards = 1]}

(* The experiment of the behaviours that are about something else. *)
Nobody == [Deployed EXCEPT !.sites = <<>>, !.clients = <<>>, !.managers = {}]

Init ==
  /\ part \in {"rpc", "marshal", "sparse", "threads", "epochs", "lifecycle"}
  /\ RpInit /\ MaInit /\ SiInit /\ ThInit /\ EpInit
  /\ IF part = "lifecycle" THEN LcInit ELSE LcInitOf(Nobody)
  /\ part = "rpc" \/ rp_call[2] = "idle"
  /\ part = "marshal" \/ ma_todo = <<None, Maps>>
  /\ part = "sparse" \/ (si_width = 32 /\ si_val = CHOOSE v \in SiSamples(32) : TRUE)

Next ==
  \/ part = "rpc" /\ RpNext /\ UNCHANGED <<part, marshalVars, sparseVars, threadVars, epochVars, lcVars>>
  \/ part = "marshal" /\ MaNext /\ UNCHANGED <<part, rpcVars, sparseVars, threadVars, epochVars, lcVars>>
  \/ part = "sparse" /\ SiNext /\ UNCHANGED <<part, rpcVars, marshalVars, threadVars, epochVars, lcVars>>
  \/ part = "threads" /\ ThNext /\ UNCHANGED <<part, rpcVars, marshalVars, sparseVars, epochVars, lcVars>>
  \/ part = "epochs" /\ EpNext /\ UNCHANGED <<part, rpcVars, marshalVars, sparseVars, threadVars, lcVars>>
  \/ part = "lifecycle" /\ LcNext /\ UNCHANGED <<part, rpcVars, marshalVars, sparseVars, threadVars, epochVars>>

Spec == Init /\ [][Next]_mcVars /\ RpFairness /\ ThFairness /\ EpFairness /\ LcFairness

(* What is written to a Marshal can be read back in full: chunks stay well formed, no
   complete packet waits, integers of variable length agree. *)
Decodable == MaSane /\ MaNoneStuck /\ SiRoundTrip /\ SiSizesAgree

=====
