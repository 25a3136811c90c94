----- MODULE SparseInt -----
(* The variable-length integers of rrr (v32, v64): the number of leading ones of the
   first byte says how many bytes follow, and the rest is the value in two's complement,
   its high end first.  A value is a function from bit positions to {0, 1}, a byte one
   from 0..7.  The model follows one value through dump and load. *)
EXTENDS Integers, Sequences, FiniteSets

CONSTANT SiWidths  \* the widths of the runs: 32 (v32) and 64 (v64)

VARIABLES si_width, si_val, si_buf, si_back

sparseVars == <<si_width, si_val, si_buf, si_back>>

ASSUME SiAssumption == SiWidths \subseteq {32, 64}

SiNone == [i \in {} |-> 0]

(* 2^p, 2^p - 1 and their complements: every limit of the ranges, and both sides of it. *)
SiPower(w, p) == [i \in 0..(w - 1) |-> IF i = p THEN 1 ELSE 0]
SiBelow(w, p) == [i \in 0..(w - 1) |-> IF i < p THEN 1 ELSE 0]
SiNot(v) == [i \in DOMAIN v |-> 1 - v[i]]
SiSamples(w) ==
  LET S == {SiPower(w, p) : p \in 0..(w - 1)} \cup {SiBelow(w, p) : p \in 0..(w - 1)}
  IN  S \cup {SiNot(v) : v \in S}

SiInit ==
  /\ si_width \in SiWidths
  /\ si_val \in SiSamples(si_width)
  /\ si_buf = <<>> /\ si_back = SiNone

-----
(* -2^(7k-1) <= v < 2^(7k-1), the range that k bytes are for. *)
SiFits(v, k) == \A i \in (7 * k - 1)..(si_width - 1) : v[i] = v[si_width - 1]

SiMin(S) == CHOOSE x \in S : \A y \in S : x <= y

(* val_size, of a v32 widened to 64 bits as well. *)
SiValSize(v) ==
  LET ks == {k \in 1..(IF si_width = 32 THEN 4 ELSE 8) : SiFits(v, k)}
  IN  IF ks # {} THEN SiMin(ks) ELSE IF si_width = 32 THEN 5 ELSE 9

(* Variant that the runs must reject: the range of one byte is a bit too wide. *)
SiRange_Wide(v) ==
  LET ks == {k \in 1..(IF si_width = 32 THEN 4 ELSE 8) :
               SiFits(v, k) \/ (k = 1 /\ \A i \in 7..(si_width - 1) : v[i] = v[si_width - 1])}
  IN  IF ks # {} THEN SiMin(ks) ELSE IF si_width = 32 THEN 5 ELSE 9

(* The same ranges, as dump tests them. *)
SiRange(v) ==
  LET ks == {k \in 1..(IF si_width = 32 THEN 4 ELSE 8) : SiFits(v, k)}
  IN  IF ks # {} THEN SiMin(ks) ELSE IF si_width = 32 THEN 5 ELSE 9

(* pv[i], byte i of the value. *)
SiByte(v, i) == [b \in 0..7 |-> v[8 * i + b]]

(* The first byte: the k - 1 leading ones and a zero over what is left. *)
SiMarked(byte, k) == [b \in 0..7 |-> IF b < 8 - k THEN byte[b] ELSE IF b = 8 - k THEN 0 ELSE 1]
SiOnes(n) == [b \in 0..7 |-> IF b >= 8 - n THEN 1 ELSE 0]

(* dump(i32) with its last case of 5 bytes, and dump(i64) with the cases of 8, which
   fills nine bytes and returns 8, and of 9. *)
SiDump(v) ==
  LET k == SiRange(v)
      w == si_width \div 8
      short == [j \in 1..k |-> IF j = 1 THEN SiMarked(SiByte(v, k - 1), k) ELSE SiByte(v, k - j)]
      plain(head, n) == <<head>> \o [j \in 1..n |-> SiByte(v, w - j)]
  IN  CASE k < 8 /\ ~(w = 4 /\ k = 5) -> short
        [] w = 4 /\ k = 5 -> plain([SiOnes(4) EXCEPT ![0] = v[31], ![1] = v[31], ![2] = v[31]], 4)
        [] k = 8 -> plain(SiOnes(7), 7)
        [] k = 9 -> plain(SiOnes(8), 8)

(* buf_size. *)
SiBufSize(byte) == SiMin({k \in 1..9 : k = 9 \/ byte[8 - k] = 0})

(* Variant that the runs must reject: the sign is not extended. *)
SiLoad_Unsigned(buf, junk) ==
  LET k == SiBufSize(buf[1])
      w == si_width \div 8
      at(j) == IF j <= Len(buf) THEN buf[j] ELSE junk
  IN  IF k < w + (IF w = 4 THEN 1 ELSE 0)
      THEN [i \in 0..(si_width - 1) |-> IF i < 7 * k THEN at(k - (i \div 8))[i % 8] ELSE 0]
      ELSE [i \in 0..(si_width - 1) |-> at(w + 1 - (i \div 8))[i % 8]]

(* load_i32 and load_i64 of the bytes that operator>> has read; the buffer they are in
   has room for 9, and what was not read is anything. *)
SiLoad(buf, junk) ==
  LET k == SiBufSize(buf[1])
      w == si_width \div 8
      at(j) == IF j <= Len(buf) THEN buf[j] ELSE junk
  IN  IF k < w + (IF w = 4 THEN 1 ELSE 0)
      THEN [i \in 0..(si_width - 1) |->
              LET m == IF i < 7 * k THEN i ELSE 7 * k - 1 IN at(k - (m \div 8))[m % 8]]
      ELSE [i \in 0..(si_width - 1) |-> at(w + 1 - (i \div 8))[i % 8]]

(* operator<< and, at the other side, operator>>. *)
SiWrite ==
  /\ si_buf = <<>>
  /\ si_buf' = SiDump(si_val)
  /\ UNCHANGED <<si_width, si_val, si_back>>

SiRead ==
  /\ si_buf # <<>> /\ si_back = SiNone
  /\ \E junk \in {SiOnes(0), SiOnes(8)} : si_back' = SiLoad(si_buf, junk)
  /\ UNCHANGED <<si_width, si_val, si_buf>>

SiNext == SiWrite \/ SiRead

-----
(* A value is read back as it was written, for every value but those that take 8 bytes:
   of them the low byte is not sent.  No size, count or xid that rrr writes reaches
   2^48. *)
SiRoundTrip ==
  si_back # SiNone /\ SiValSize(si_val) # 8 => si_back = si_val

(* As many bytes are written as val_size says and buf_size reads: a client takes the
   size of a reply's body from val_size (Client::handle_read). *)
SiSizesAgree ==
  si_buf # <<>> => Len(si_buf) = SiValSize(si_val) /\ SiBufSize(si_buf[1]) = Len(si_buf)
=====
