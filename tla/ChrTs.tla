----- MODULE ChrTs -----
(* The stretchable timestamps of DAST: class chr_ts_t of deptran/chronos/types.h and the
   three places of the code that make a timestamp, SchedulerChronos::GenerateChrTs (a
   scheduler's own clock), the clock-offset correction of
   SchedulerChronos::HandlePiggyInfo and DastManager::CalculateAnticipatedTs (the future
   timestamp of a cross-region transaction). A timestamp is a triple compared
   lexicographically.  Every operator is a pure function of the fields it reads, so that
   the component modules can apply it to the fields of the site that calls it. *)
EXTENDS Integers

(* chr_ts_t: the fields timestamp_, stretch_counter_ and site_id_. *)
ChrTsType == [time : Int, stretch : Int, site : Int]

(* An anticipated timestamp has stretch counter 0. *)
AnticipatedType == [time : Int, stretch : {0}, site : Int]

ChrTsOf(time, stretch, site) ==
  [time |-> time, stretch |-> stretch, site |-> site]

(* The default constructor. *)
ZeroTs == ChrTsOf(0, 0, 0)

(* operator< *)
Less(a, b) ==
  \/ a.time < b.time
  \/ /\ a.time = b.time
     /\ \/ a.stretch < b.stretch
        \/ /\ a.stretch = b.stretch
           /\ a.site < b.site

(* operator<= and operator>, as the class defines them. *)
LessEq(a, b) == Less(a, b) \/ a = b
Greater(a, b) == ~Less(a, b) /\ a # b

(* The first element of a std::set<chr_ts_t>. *)
LowTs(S) == CHOOSE low \in S : \A f \in S : LessEq(low, f)

(* The larger of two timestamps, by the test of CheckRemotePrepared. *)
MaxTs(S) == CHOOSE high \in S : \A f \in S : LessEq(f, high)

-----
(* GenerateChrTs(true) at a site whose physical clock reads now: a reading that reaches
   the lowest not-ready cross-region transaction is pulled back below it (the stretch),
   and a reading that does not pass the last timestamp handed out continues it in the
   stretch counter. Variant that the runs must reject: the site id is left out. *)
PhysicalTs_NoSite(site, now, offset) == ChrTsOf(now + offset, now + offset, 0)

PhysicalTs(site, now, offset) == ChrTsOf(now + offset, now + offset, site)

(* Variant that the runs must reject: pulled back to the floor, not below. *)
StretchTs_Reaches(ret, floors) ==
  IF floors # {} /\ ~Less(ret, LowTs(floors))
  THEN ChrTsOf(LowTs(floors).time, ret.stretch, ret.site)
  ELSE ret

StretchTs(ret, floors) ==
  IF floors # {} /\ ~Less(ret, LowTs(floors))
  THEN ChrTsOf(LowTs(floors).time - 1, ret.stretch, ret.site)
  ELSE ret

MonotonicTs(ret, last) ==
  IF ~Greater(ret, last) THEN ChrTsOf(last.time, last.stretch + 1, last.site) ELSE ret

GenerateChrTs(site, now, offset, last, floors) ==
  MonotonicTs(StretchTs(PhysicalTs(site, now, offset), floors), last)

(* GenerateChrTs(false): a look at the clock that hands nothing out. *)
PeekChrTs(site, now, offset, last) ==
  LET ret == PhysicalTs(site, now, offset)
  IN  IF Less(ret, last) THEN ChrTsOf(last.time + 1, ret.stretch, ret.site) ELSE ret

(* The new clock_offset_ after a peer's timestamp has been heard. *)
AdjustedOffset(site, now, offset, last, remote) ==
  LET mine == PeekChrTs(site, now, offset, last)
  IN  IF mine.time < remote.time THEN offset + (remote.time - mine.time)
                                 ELSE offset

-----
(* Variants that the runs must reject: max_future_ts_ is not looked at; the stretch
   counter of the coordinator is kept; the manager's id is left out. *)
AnticipatedTs_Repeats(mgr, srcTs, recvTs, maxFuture, rtt) ==
  ChrTsOf((IF srcTs.time >= recvTs.time THEN srcTs.time ELSE recvTs.time) + rtt, 0, mgr)

AnticipatedTs_KeepsStretch(mgr, srcTs, recvTs, maxFuture, rtt) ==
  LET later == IF srcTs.time >= recvTs.time THEN srcTs ELSE recvTs
      ret   == ChrTsOf(later.time + rtt, later.stretch, mgr)
  IN  IF ~Greater(ret, maxFuture) THEN ChrTsOf(maxFuture.time + 1, 0, mgr) ELSE ret

AnticipatedTs_NoSite(mgr, srcTs, recvTs, maxFuture, rtt) ==
  LET later == IF srcTs.time >= recvTs.time THEN srcTs.time ELSE recvTs.time
      ret   == ChrTsOf(later + rtt, 0, 0)
  IN  IF ~Greater(ret, maxFuture) THEN ChrTsOf(maxFuture.time + 1, 0, 0) ELSE ret

(* CalculateAnticipatedTs: one round trip after the later of the two clocks, and later
   than everything this manager anticipated before. *)
AnticipatedTs(mgr, srcTs, recvTs, maxFuture, rtt) ==
  LET later == IF srcTs.time >= recvTs.time THEN srcTs.time ELSE recvTs.time
      ret   == ChrTsOf(later + rtt, 0, mgr)
  IN  IF ~Greater(ret, maxFuture)
      THEN ChrTsOf(maxFuture.time + 1, maxFuture.stretch, maxFuture.site)
      ELSE ret
=====
