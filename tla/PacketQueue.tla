----- MODULE PacketQueue -----
(* What a connection of rrr promises to the code above it: a packet that was finished
   with end_request or end_reply is delivered whole, once and in its order. *)
EXTENDS Naturals, Sequences

CONSTANT Packets

VARIABLES queue, delivered

pqVars == <<queue, delivered>>

PqInit == queue = <<>> /\ delivered = <<>>

Put(p) ==
  /\ queue' = Append(queue, p)
  /\ UNCHANGED delivered

(* One read of the socket may complete several packets. *)
Get(n) ==
  /\ delivered' = delivered \o SubSeq(queue, 1, n)
  /\ queue' = SubSeq(queue, n + 1, Len(queue))

PqNext == (\E p \in Packets : Put(p)) \/ (\E n \in 1..Len(queue) : Get(n))

PqSpec == PqInit /\ [][PqNext]_pqVars
=====
