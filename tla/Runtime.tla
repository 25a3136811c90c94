----- MODULE Runtime -----
(* What the protocols run on, taken together: the rpc client and server, the thread
   pool, the epochs of the transaction schedulers, and the processes of an experiment. *)
EXTENDS Rpc, Threads, Epochs, Lifecycle

(* What has a cause happens once for it: the callback of a future for the reply and for
   the timeout, but not for a reply that comes after the timeout; a job of the thread
   pool, the report of a latency. *)
OncePerCause == [](RpOncePerOutcome /\ ThRunsOnce /\ LcLatencyOnce) /\ RpTimeoutFinal

(* Whoever waits for others is released: a caller for its reply, a site for the end of
   an epoch round, the script and the client workers for each other. *)
WaitersReleased == RpAnswered /\ EpRoundEnds /\ LcScriptEnds /\ LcWorkersFinish

(* What is told to stop stops: ~Server, ~ThreadPool, servers whose script died. *)
StopsEnd == RpServerEnds /\ ThStops /\ LcServersStop

=====
