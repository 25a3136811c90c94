----- MODULE Messages -----
(* Calls between processes through the proxies of rrr/rpc.  A connection c = <<src,
   dst>> delivers in the order of the calls; net is a function from connections to the
   calls that have not been handled.  A handler lists its calls as a sequence of [to,
   msg]: msg goes to every node of the set to.  One that calls no node twice needs no
   order: Calls takes a set of [to, msg]. *)
EXTENDS Sequences

To(D, m) == [to |-> D, msg |-> m]
For(d, sends) ==
  LET mine == SelectSeq(sends, LAMBDA m : d \in m.to)
  IN  [i \in DOMAIN mine |-> mine[i].msg]

SendFrom(net, src, sends) ==
  [c \in DOMAIN net |-> IF c[1] = src THEN net[c] \o For(c[2], sends) ELSE net[c]]
Calls(net, src, calls) ==
  LET to(d) == {e \in calls : d \in e.to}
  IN  [c \in DOMAIN net |-> IF c[1] = src /\ to(c[2]) # {}
                           THEN Append(net[c], (CHOOSE e \in to(c[2]) : TRUE).msg) ELSE net[c]]
Taken(net, c) == [net EXCEPT ![c] = Tail(@)]
Receives(net, c, type) == net[c] # <<>> /\ Head(net[c]).type = type
AllHandled(net) == \A c \in DOMAIN net : net[c] = <<>>
=====
