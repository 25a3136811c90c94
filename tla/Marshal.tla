----- MODULE Marshal -----
(* rrr::Marshal, the byte buffer of a connection, from the arguments of a call to the
   request at the other side: begin_request leaves a bookmark for the size, the
   arguments are written into a list of chunks, end_request fills the bookmark,
   write_to_fd and read_from_fd move as many bytes as the sockets take, and handle_read
   cuts packets off. A chunk is [cap, data, r]: data->size, the bytes up to write_idx,
   and read_idx.  Chunks that read_from_marshal shares are copied here: one Marshal
   alone writes to such a chunk in the two uses it has.  Bytes are numbers; a size takes
   SizeBytes of them, the low one first. *)
EXTENDS Integers, Sequences, FiniteSets, SequencesExt

CONSTANTS
  MinSize,      \* raw_bytes::min_size (8192)
  SizeBytes,    \* sizeof(i32)
  Base,         \* the values of a byte that is part of a size
  MaSignature,  \* rpc id -> the types of the arguments of its handler
  MaLoads       \* the sequences of packets of the runs, [rpc, args]

VARIABLES
  ma_todo,  \* the packets not begun
  ma_now,   \* the packet of begin_request .. end_request, which hold
                   \* out_l_, and how many of its arguments are written
  ma_sent,  \* the packets finished
  ma_out,   \* out_ of the sender
  ma_mark,  \* bmark_: where the size goes, as positions <<chunk, byte>>
  ma_wire,  \* bytes in the sockets
  ma_in,    \* in_ of the receiver
  ma_got    \* the requests cut off

marshalVars == <<ma_todo, ma_now, ma_sent, ma_out, ma_mark, ma_wire, ma_in, ma_got>>

ASSUME MaAssumption == {MinSize, SizeBytes, Base} \subseteq Nat \ {0}

Garbage == -1

-----
(* struct chunk. *)

MaMin(a, b) == IF a < b THEN a ELSE b
NewChunk(bytes) == [cap |-> IF Len(bytes) > MinSize THEN Len(bytes) ELSE MinSize, data |-> bytes, r |-> 0]
ContentSize(c) == Len(c.data) - c.r
Content(c) == SubSeq(c.data, c.r + 1, Len(c.data))
Room(c) == c.cap - Len(c.data)
FullyWritten(c) == Room(c) = 0
FullyRead(c) == c.r = c.cap

(* Marshal: head_ .. tail_ is m.list; cnt = write_cnt_, size = content_size_ *)
NewMarshal == [list |-> <<>>, cnt |-> 0, size |-> 0]
MaEmpty(m) == m.size = 0
MaBytes(m) == FlattenSeq([i \in DOMAIN m.list |-> Content(m.list[i])])
LastChunk(m) == m.list[Len(m.list)]
NeedsChunk(m) == m.list = <<>> \/ FullyWritten(LastChunk(m))
Grown(m, bytes) == [m EXCEPT !.list = Append(@, NewChunk(bytes))]

(* chunk::write at the tail. *)
Extended(m, bytes) == [m EXCEPT !.list[Len(m.list)].data = @ \o bytes]

MaWrite(m, bytes) ==
  LET n == Len(bytes)
      k == IF NeedsChunk(m) THEN 0 ELSE MaMin(n, Room(LastChunk(m)))
      kept == IF k = 0 THEN m ELSE Extended(m, SubSeq(bytes, 1, k))
      all  == IF NeedsChunk(m) \/ k < n THEN Grown(kept, SubSeq(bytes, k + 1, n)) ELSE kept
  IN  [all EXCEPT !.cnt = @ + n, !.size = @ + n]

(* Variant that the runs must reject: a chunk is never deleted. *)
DropHead_Never(list) == list

(* A chunk is deleted when nothing more can be read from it. *)
DropHead(list) == IF list # <<>> /\ FullyRead(Head(list)) THEN Tail(list) ELSE list

(* The loop of read, and of write_to_fd: n bytes are taken off the front. *)
RECURSIVE MaTake(_, _)
MaTake(m, n) ==
  IF n = 0 \/ m.list = <<>> \/ ContentSize(Head(m.list)) = 0 THEN m
  ELSE LET k == MaMin(n, ContentSize(Head(m.list)))
           list == DropHead([m.list EXCEPT ![1].r = @ + k])
       IN  MaTake([m EXCEPT !.list = list, !.size = @ - k], n - k)

(* peek, of up to n bytes. *)
MaPeek(m, n) == SubSeq(MaBytes(m), 1, MaMin(n, Len(MaBytes(m))))

(* read_from_fd: the last turn finds nothing, after making room for it. *)
RECURSIVE MaFromFd(_, _)
MaFromFd(m, bytes) ==
  LET g == IF NeedsChunk(m) THEN Grown(m, <<>>) ELSE m
      k == MaMin(Len(bytes), Room(LastChunk(g)))
  IN  IF bytes = <<>> THEN g
      ELSE MaFromFd([Extended(g, SubSeq(bytes, 1, k)) EXCEPT !.cnt = @ + k, !.size = @ + k],
                    SubSeq(bytes, k + 1, Len(bytes)))

(* Variant that the runs must reject: the copy begins at the first byte of the chunk
   instead of read_idx. *)
SharedCopy_Start(c, n) == [c EXCEPT !.r = 0, !.data = SubSeq(@, 1, MaMin(n, ContentSize(c)))]

(* shared_copy, cut to the n bytes that are wanted. *)
SharedCopy(c, n) == [c EXCEPT !.data = SubSeq(@, 1, c.r + MaMin(n, ContentSize(c)))]

(* read_from_marshal: n bytes move from the front of `from' to the end of m, by sharing
   chunks, or byte by byte while m's tail has room. *)
RECURSIVE MaFromMarshal(_, _, _)
MaFromMarshal(m, from, n) ==
  IF n = 0 THEN [to |-> m, from |-> from]
  ELSE IF NeedsChunk(m)
  THEN LET c == SharedCopy(Head(from.list), n)
           k == ContentSize(c)
           list == DropHead([from.list EXCEPT ![1].r = @ + k])
       IN  MaFromMarshal([m EXCEPT !.list = Append(@, c), !.cnt = @ + k, !.size = @ + k],
                         [from EXCEPT !.list = list, !.size = @ - k],
                         IF k < n THEN n - k ELSE 0)
  ELSE LET k == MaMin(Room(LastChunk(m)), n)
       IN  MaFromMarshal(MaWrite(m, MaPeek(from, k)), MaTake(from, k), n - k)

(* set_bookmark: SizeBytes are left open; they are content already but not counted in
   write_cnt_. *)
RECURSIVE MaSetBookmark(_, _, _)
MaSetBookmark(m, marks, n) ==
  IF n = 0 THEN [m |-> m, marks |-> marks]
  ELSE LET g == IF NeedsChunk(m) THEN Grown(m, <<>>) ELSE m
           e == [Extended(g, <<Garbage>>) EXCEPT !.size = @ + 1]
       IN  MaSetBookmark(e, Append(marks, <<Len(e.list), Len(LastChunk(e).data)>>), n - 1)

RECURSIVE SizeOf(_, _)
SizeOf(n, k) == IF k = 0 THEN <<>> ELSE <<n % Base>> \o SizeOf(n \div Base, k - 1)

RECURSIVE SizeFrom(_)
SizeFrom(bytes) == IF bytes = <<>> THEN 0 ELSE Head(bytes) + Base * SizeFrom(Tail(bytes))

(* get_and_reset_write_cnt and write_bookmark. *)
MaWriteBookmark(m, marks) ==
  LET size == SizeOf(m.cnt, SizeBytes)
  IN  [m EXCEPT !.cnt = 0, !.list = [i \in DOMAIN m.list |-> [m.list[i] EXCEPT !.data =
         [j \in DOMAIN m.list[i].data |->
            IF \E k \in DOMAIN marks : marks[k] = <<i, j>>
            THEN size[CHOOSE k \in DOMAIN marks : marks[k] = <<i, j>>] ELSE m.list[i].data[j]]]]]

-----
(* The operators << and >> of marshal.hpp.  A type is <<name>> of a number, or <<name,
   type of the elements ..>>; a container is preceded by its size, a v64 of one byte for
   the sizes that occur here. *)

RECURSIVE MaEncode(_, _)
MaEncode(T, x) ==
  LET all(seq, E) == FlattenSeq([i \in DOMAIN seq |-> MaEncode(E, seq[i])])
      sorted(S)   == SetToSortSeq(S, LAMBDA a, b : a < b)
  IN  CASE T[1] = "i8"     -> <<x>>
        [] T[1] = "pair"   -> MaEncode(T[2], x[1]) \o MaEncode(T[3], x[2])
        [] T[1] = "vector" -> <<Len(x)>> \o all(x, T[2])
        [] T[1] = "set"    -> <<Cardinality(x)>> \o all(sorted(x), T[2])
        [] T[1] = "map"    -> LET keys == sorted(DOMAIN x)
                              IN  <<Len(keys)>> \o all([i \in DOMAIN keys |-> <<keys[i], x[keys[i]]>>],
                                                      <<"pair", T[2], T[3]>>)

ByteOf(bytes) == IF bytes = <<>> THEN Garbage ELSE Head(bytes)
RestOf(bytes) == IF bytes = <<>> THEN <<>> ELSE Tail(bytes)

(* The value read, and the bytes after it. *)
RECURSIVE MaDecode(_, _), MaDecodeAll(_, _)
MaDecode(T, bytes) ==
  LET elems(E) == MaDecodeAll([i \in 1..ByteOf(bytes) |-> E], RestOf(bytes))
  IN  CASE T[1] = "i8"     -> [val |-> ByteOf(bytes), rest |-> RestOf(bytes)]
        [] T[1] = "pair"   -> MaDecodeAll(<<T[2], T[3]>>, bytes)
        [] T[1] = "vector" -> elems(T[2])
        [] T[1] = "set"    -> [elems(T[2]) EXCEPT !.val = ToSet(@)]
        [] T[1] = "map"    -> LET es == elems(<<"pair", T[2], T[3]>>)
                              IN  [es EXCEPT !.val = [k \in {e[1] : e \in ToSet(@)} |->
                                     (CHOOSE e \in ToSet(es.val) : e[1] = k)[2]]]
MaDecodeAll(Ts, bytes) ==
  IF Ts = <<>> THEN [val |-> <<>>, rest |-> bytes]
  ELSE LET one  == MaDecode(Head(Ts), bytes)
           more == MaDecodeAll(Tail(Ts), one.rest)
       IN  [val |-> <<one.val>> \o more.val, rest |-> more.rest]

-----
(* A connection. *)

NoPacket == [rpc |-> 0, args |-> <<>>, at |-> 0]
MaOpen == ma_now # NoPacket

MaInit ==
  /\ ma_todo \in MaLoads
  /\ ma_now = NoPacket /\ ma_sent = <<>>
  /\ ma_out = NewMarshal /\ ma_mark = <<>> /\ ma_wire = <<>>
  /\ ma_in = NewMarshal /\ ma_got = <<>>

(* begin_request, up to its arguments. *)
MaBegin ==
  /\ ~MaOpen /\ ma_todo # <<>>
  /\ LET b == MaSetBookmark(ma_out, <<>>, SizeBytes)
     IN  ma_out' = MaWrite(b.m, <<Head(ma_todo).rpc>>) /\ ma_mark' = b.marks
  /\ ma_now' = [rpc |-> Head(ma_todo).rpc, args |-> Head(ma_todo).args, at |-> 0]
  /\ ma_todo' = Tail(ma_todo)
  /\ UNCHANGED <<ma_sent, ma_wire, ma_in, ma_got>>

(* operator<< of an argument; or of a Marshal that holds it, which is how the Python
   extension passes arguments. *)
MaArgument(buffered) ==
  /\ MaOpen /\ ma_now.at < Len(ma_now.args)
  /\ LET n     == ma_now.at + 1
         bytes == MaEncode(MaSignature[ma_now.rpc][n], ma_now.args[n])
         own   == MaWrite(NewMarshal, bytes)
     IN  ma_out' = IF buffered THEN MaFromMarshal(ma_out, own, own.size).to ELSE MaWrite(ma_out, bytes)
  /\ ma_now' = [ma_now EXCEPT !.at = @ + 1]
  /\ UNCHANGED <<ma_todo, ma_sent, ma_mark, ma_wire, ma_in, ma_got>>

(* end_request. *)
MaEnd ==
  /\ MaOpen /\ ma_now.at = Len(ma_now.args)
  /\ ma_out' = MaWriteBookmark(ma_out, ma_mark)
  /\ ma_mark' = <<>>
  /\ ma_sent' = Append(ma_sent, [rpc |-> ma_now.rpc, args |-> ma_now.args])
  /\ ma_now' = NoPacket
  /\ UNCHANGED <<ma_todo, ma_wire, ma_in, ma_got>>

(* handle_write: the socket takes k bytes. *)
MaHandleWrite(k) ==
  /\ ~MaOpen /\ k \in 1..ma_out.size
  /\ ma_wire' = ma_wire \o MaPeek(ma_out, k)
  /\ ma_out' = MaTake(ma_out, k)
  /\ UNCHANGED <<ma_todo, ma_now, ma_sent, ma_mark, ma_in, ma_got>>

(* The handler reads its arguments off the request. *)
MaRequest(bytes) ==
  LET rpc == ByteOf(bytes)
  IN  IF rpc \in DOMAIN MaSignature
      THEN [rpc |-> rpc, args |-> MaDecodeAll(MaSignature[rpc], RestOf(bytes)).val]
      ELSE [rpc |-> rpc, args |-> <<>>]

(* Variant that the runs must reject: one packet is cut off at each event. *)
MaCut_One(in, got) ==
  LET head == MaPeek(in, SizeBytes)
      n    == SizeFrom(head)
  IN  IF Len(head) < SizeBytes \/ in.size < n + SizeBytes THEN [in |-> in, got |-> got]
      ELSE LET cut == MaFromMarshal(NewMarshal, MaTake(in, SizeBytes), n)
           IN  [in |-> cut.from, got |-> Append(got, MaRequest(MaBytes(cut.to)))]

(* The loop of handle_read: packets are cut off while one is complete. *)
RECURSIVE MaCut(_, _)
MaCut(in, got) ==
  LET head == MaPeek(in, SizeBytes)
      n    == SizeFrom(head)
  IN  IF Len(head) < SizeBytes \/ in.size < n + SizeBytes THEN [in |-> in, got |-> got]
      ELSE LET cut == MaFromMarshal(NewMarshal, MaTake(in, SizeBytes), n)
           IN  MaCut(cut.from, Append(got, MaRequest(MaBytes(cut.to))))

(* handle_read: the socket yields k bytes. *)
MaHandleRead(k) ==
  /\ k \in 1..Len(ma_wire)
  /\ LET c == MaCut(MaFromFd(ma_in, SubSeq(ma_wire, 1, k)), ma_got)
     IN  ma_in' = c.in /\ ma_got' = c.got
  /\ ma_wire' = SubSeq(ma_wire, k + 1, Len(ma_wire))
  /\ UNCHANGED <<ma_todo, ma_now, ma_sent, ma_out, ma_mark>>

MaNext ==
  \/ MaBegin
  \/ \E b \in BOOLEAN : MaArgument(b)
  \/ MaEnd
  \/ \E k \in 1..ma_out.size : MaHandleWrite(k)
  \/ \E k \in 1..Len(ma_wire) : MaHandleRead(k)

-----
(* What the assertions of marshal.cpp say of both buffers: content_size_ is what the
   chunks hold, every chunk but the last is full, and the first has something left to be
   read. *)
MaSane ==
  \A m \in {ma_out, ma_in} :
    /\ m.size = Len(MaBytes(m))
    /\ \A i \in DOMAIN m.list : FullyWritten(m.list[i]) \/ i = Len(m.list)
    /\ MaEmpty(m) \/ ~FullyRead(Head(m.list))

(* The handlers run once per event: when both sockets are drained, every finished packet
   has been delivered, and nothing that is complete waits in in_ for the next one
   (handle_read). *)
MaNoneStuck ==
  ma_wire = <<>> /\ MaEmpty(ma_out) /\ ~MaOpen => Len(ma_got) = Len(ma_sent)

MaQueue == INSTANCE PacketQueue WITH
  Packets <- UNION {ToSet(l) : l \in MaLoads},
  queue <- SubSeq(ma_sent, Len(ma_got) + 1, Len(ma_sent)),
  delivered <- ma_got

(* The buffers of the two sides and the sockets between them implement a queue of
   packets: what is cut off is what was written, however the bytes were cut on their
   way. *)
MaIsAQueue == MaQueue!PqSpec
=====
