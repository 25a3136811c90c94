----- MODULE Threads -----
(* base::ThreadPool: the threads that run the handlers of a server, and its destruction.
   ~ThreadPool runs when the last reference is released, so a job is submitted either
   before it begins or by another job. A thread waits for its own queue and steals from
   the others in between; the stages only say how long it spins before it blocks. *)
EXTENDS Integers, Sequences, FiniteSets

CONSTANTS
  ThThreads,  \* n_ threads, 0 .. n_ - 1
  ThJobs,     \* the jobs, 1 ..
  ThChild     \* job -> the job it submits, or 0

VARIABLES
  th_q,         \* thread -> q_[i]; 0 is the death pill
  th_at,        \* thread -> the job it runs, and what of it comes next
  th_turn,      \* round_robin_
  th_stop,      \* where ~ThreadPool is
  th_pills,     \* threads it has sent the death pill
  th_asked,     \* jobs given to run_async
  th_accepted,  \* jobs for which run_async returned 0
  th_runs       \* job -> how often it ran

threadVars == <<th_q, th_at, th_turn, th_stop, th_pills, th_asked, th_accepted, th_runs>>

Pill == 0
Idle == [job |-> 0, at |-> "idle"]
ThIds == 0..(ThThreads - 1)
ThChildren == {ThChild[j] : j \in ThJobs}

ASSUME ThAssumption ==
  /\ ThThreads \in Nat \ {0} /\ ThJobs \subseteq Nat \ {0}
  /\ ThChild \in [ThJobs -> ThJobs \cup {0}]

ThInit ==
  /\ th_q = [i \in ThIds |-> <<>>]
  /\ th_at = [i \in ThIds |-> Idle]
  /\ th_turn = 0 /\ th_stop = "no" /\ th_pills = {}
  /\ th_asked = {} /\ th_accepted = {}
  /\ th_runs = [j \in ThJobs |-> 0]

(* The push of run_async, after its look at should_stop_. *)
ThPush(j) ==
  /\ th_q' = [th_q EXCEPT ![th_turn % ThThreads] = Append(@, j)]
  /\ th_turn' = th_turn + 1
  /\ th_accepted' = th_accepted \cup {j}

ThRunAsync(j) ==
  /\ th_stop = "no" /\ j \in ThJobs \ (th_asked \cup ThChildren)
  /\ ThPush(j)
  /\ th_asked' = th_asked \cup {j}
  /\ UNCHANGED <<th_at, th_stop, th_pills, th_runs>>

(* run_thread: a thread takes a job from its queue, or dies of its pill. *)
ThPop(i) ==
  /\ th_at[i] = Idle /\ th_q[i] # <<>>
  /\ th_at' = [th_at EXCEPT ![i] = IF Head(th_q[i]) = Pill THEN [job |-> 0, at |-> "dead"]
                                   ELSE [job |-> Head(th_q[i]), at |-> "run"]]
  /\ th_q' = [th_q EXCEPT ![i] = Tail(@)]
  /\ UNCHANGED <<th_turn, th_stop, th_pills, th_asked, th_accepted, th_runs>>

(* Variant that the runs must reject: try_pop instead of try_pop_but_ignore, so that the
   pill of another thread is stolen. *)
ThSteal_Any(i, j) ==
  /\ i # j /\ th_at[i] = Idle /\ th_q[j] # <<>>
  /\ th_at' = [th_at EXCEPT ![i] = IF Head(th_q[j]) = Pill THEN [job |-> 0, at |-> "dead"]
                                   ELSE [job |-> Head(th_q[j]), at |-> "run"]]
  /\ th_q' = [th_q EXCEPT ![j] = Tail(@)]
  /\ UNCHANGED <<th_turn, th_stop, th_pills, th_asked, th_accepted, th_runs>>

(* Stage 3: "just don't steal other thread's death pill" *)
ThSteal(i, j) ==
  /\ i # j /\ th_at[i] = Idle /\ th_q[j] # <<>> /\ Head(th_q[j]) # Pill
  /\ th_at' = [th_at EXCEPT ![i] = [job |-> Head(th_q[j]), at |-> "run"]]
  /\ th_q' = [th_q EXCEPT ![j] = Tail(@)]
  /\ UNCHANGED <<th_turn, th_stop, th_pills, th_asked, th_accepted, th_runs>>

(* The job runs; one that submits another looks at should_stop_ first. *)
ThRunJob(i) ==
  LET j == th_at[i].job
      asks == ThChild[j] # 0 /\ ThChild[j] \notin th_asked
  IN  /\ th_at[i].at = "run"
      /\ th_runs' = [th_runs EXCEPT ![j] = @ + 1]
      /\ th_asked' = IF asks THEN th_asked \cup {ThChild[j]} ELSE th_asked
      /\ th_at' = [th_at EXCEPT ![i] = IF asks /\ th_stop = "no" THEN [job |-> ThChild[j], at |-> "push"] ELSE Idle]
      /\ UNCHANGED <<th_q, th_turn, th_stop, th_pills, th_accepted>>

ThChildPush(i) ==
  /\ th_at[i].at = "push"
  /\ ThPush(th_at[i].job)
  /\ th_at' = [th_at EXCEPT ![i] = Idle]
  /\ UNCHANGED <<th_stop, th_pills, th_asked, th_runs>>

(* ~ThreadPool: the flag, a pill for each queue, then the joins. *)
ThStop ==
  /\ th_stop = "no"
  /\ th_stop' = "stopping"
  /\ UNCHANGED <<th_q, th_at, th_turn, th_pills, th_asked, th_accepted, th_runs>>

ThPill(i) ==
  /\ th_stop = "stopping" /\ th_pills = 0..(i - 1)
  /\ th_q' = [th_q EXCEPT ![i] = Append(@, Pill)]
  /\ th_pills' = th_pills \cup {i}
  /\ UNCHANGED <<th_at, th_turn, th_stop, th_asked, th_accepted, th_runs>>

(* Variant that the runs must reject: what is left in a queue behind the pill is deleted
   with it. *)
ThLeft_None(q) == {}

(* The jobs that are left behind the pills. *)
ThLeft(q) == UNION {{q[i][n] : n \in 1..Len(q[i])} : i \in ThIds}

(* The threads are joined, and the jobs left over are run here; what they submit is
   refused. *)
ThDrain ==
  /\ th_stop = "stopping" /\ \A i \in ThIds : th_at[i].at = "dead"
  /\ th_runs' = [j \in ThJobs |-> IF j \in ThLeft(th_q) THEN th_runs[j] + 1 ELSE th_runs[j]]
  /\ th_asked' = th_asked \cup ({ThChild[j] : j \in ThLeft(th_q) \cap ThJobs} \ {0})
  /\ th_q' = [i \in ThIds |-> <<>>]
  /\ th_stop' = "gone"
  /\ UNCHANGED <<th_at, th_turn, th_pills, th_accepted>>

ThNext ==
  \/ \E j \in ThJobs : ThRunAsync(j)
  \/ \E i \in ThIds : ThPop(i) \/ ThRunJob(i) \/ ThChildPush(i) \/ ThPill(i)
  \/ \E i, j \in ThIds : ThSteal(i, j)
  \/ ThStop \/ ThDrain

ThSpec == ThInit /\ [][ThNext]_threadVars

(* Threads go on; nothing makes anybody submit a job or end the pool. *)
ThFairness ==
  /\ \A i \in ThIds : WF_threadVars(ThPop(i)) /\ WF_threadVars(ThRunJob(i)) /\ WF_threadVars(ThChildPush(i))
                      /\ WF_threadVars(ThPill(i))
  /\ WF_threadVars(ThDrain)

-----
(* A job that run_async accepted runs once: by one of the threads or, when it was queued
   behind a death pill, by ~ThreadPool before it returns. *)
ThRunsOnce ==
  /\ \A j \in ThJobs : th_runs[j] <= 1
  /\ th_stop = "gone" => \A j \in th_accepted : th_runs[j] = 1

(* ~ThreadPool returns: no thread waits for a pill somebody else took. *)
ThStops == th_stop = "stopping" ~> th_stop = "gone"
=====
