----- MODULE Epochs -----
(* The epochs of the transaction scheduler (deptran/epochs.h, the epoch functions of
   deptran/scheduler.cc), which the Janus, ROCOCO and TAPIR schedulers turn on.  Site 0
   starts a round when a transaction is created and EPOCH_DURATION has passed; every
   site of every partition moves to its next epoch and answers; the last answer ends the
   round. AddToEpoch returns at once, so an epoch never holds a transaction and
   GrowBuffer always moves on; CheckBufferInactive always answers 0, so the round's end
   never truncates an epoch and OnTruncateEpoch is never called.  Replies of partitions
   are modelled as the set of sites. *)
EXTENDS Integers, FiniteSets

CONSTANTS
    EpParOf,  \* site -> partition; site 0 is one of the sites
    EpMaxRounds  \* bound: rounds in a behaviour

ASSUME EpAssumption == 0 \in DOMAIN EpParOf /\ IsFiniteSet(DOMAIN EpParOf)

VARIABLES
    epCurr,  \* site -> curr_epoch_
    epOldest,  \* site -> oldest_active_
    epDue,  \* EPOCH_DURATION has passed since last_upgrade_time_
    epIn,  \* in_upgrade_epoch_ of site 0
    epReplies,  \* epoch_replies_ of site 0: the sites that answered
    epWire,  \* UpgradeEpoch calls and their answers: [kind, site, round]
    epRound  \* rounds started, for the bound and the messages

epochVars == <<epCurr, epOldest, epDue, epIn, epReplies, epWire, epRound>>

EpSites == DOMAIN EpParOf
EpPars == {EpParOf[s] : s \in EpSites}
EpMsg(kind, s, r) == [kind |-> kind, site |-> s, round |-> r]

EpInit ==
  /\ epCurr = [s \in EpSites |-> 2]
  /\ epOldest = [s \in EpSites |-> 2]
  /\ epDue = TRUE  \* last_upgrade_time_ starts at 0
  /\ epIn = FALSE
  /\ epReplies = {}
  /\ epWire = {}
  /\ epRound = 0

\* Time passes.
EpElapses ==
  /\ ~epDue /\ epRound < EpMaxRounds
  /\ epDue' = TRUE
  /\ UNCHANGED <<epCurr, epOldest, epIn, epReplies, epWire, epRound>>

\* TriggerUpgradeEpoch of site 0, from CreateDTxn.
EpMayTrigger == epDue /\ ~epIn

EpTriggerUpgradeEpoch ==
  /\ EpMayTrigger
  /\ epDue' = FALSE
  /\ epIn' = TRUE
  /\ epRound' = epRound + 1
  /\ epWire' = epWire \cup {EpMsg("upgrade", s, epRound + 1) : s \in EpSites}
  /\ UNCHANGED <<epCurr, epOldest, epReplies>>

\* GrowActive, GrowBuffer and CheckBufferInactive.
EpOnUpgradeEpoch(m) ==
  /\ m \in epWire /\ m.kind = "upgrade"
  /\ epCurr' = [epCurr EXCEPT ![m.site] = @ + 1]
  /\ epOldest' = [epOldest EXCEPT ![m.site] = @ + 1]
  /\ epWire' = (epWire \ {m}) \cup {EpMsg("ack", m.site, m.round)}
  /\ UNCHANGED <<epDue, epIn, epReplies, epRound>>

\* Every partition answered, and all its sites did.
EpAllReplied_Pars(replies) == {EpParOf[s] : s \in replies} = EpPars
EpAllReplied_Others(replies) ==
  \A p \in EpPars :
    Cardinality({s \in replies : EpParOf[s] = p}) > Cardinality({s \in EpSites : EpParOf[s] = p})
EpAllReplied(replies) ==
  /\ {EpParOf[s] : s \in replies} = EpPars
  /\ \A p \in EpPars :
       Cardinality({s \in replies : EpParOf[s] = p}) = Cardinality({s \in EpSites : EpParOf[s] = p})

EpUpgradeEpochAck(m) ==
  /\ m \in epWire /\ m.kind = "ack"
  /\ epWire' = epWire \ {m}
  /\ LET replies == epReplies \cup {m.site}
         over == EpAllReplied(replies)
     IN  /\ epIn' = (epIn /\ ~over)
         /\ epReplies' = IF over THEN {} ELSE replies
  /\ UNCHANGED <<epCurr, epOldest, epDue, epRound>>

EpDeliver == \E m \in epWire : EpOnUpgradeEpoch(m) \/ EpUpgradeEpochAck(m)

EpNext == EpElapses \/ EpTriggerUpgradeEpoch \/ EpDeliver

\* Calls and answers arrive; nothing makes transactions arrive or time pass.
EpFairness == WF_epochVars(EpDeliver)

EpSpec == EpInit /\ [][EpNext]_epochVars /\ EpFairness

-----

\* The sites' epochs never differ by more than the round under way, and
\* between two rounds not at all.
EpSkew ==
  /\ \A s, t \in EpSites : epCurr[s] - epCurr[t] \in -1 .. 1
  /\ ~epIn => \A s \in EpSites : epCurr[s] = 2 + epRound

\* A round that was started ends, so that the next can start.
EpRoundEnds == epIn ~> ~epIn
=====
