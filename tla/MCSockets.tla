----------------------------- MODULE MCSockets -----------------------------
EXTENDS Polling
CONSTANTS t1, t2

MCTasks == {t1, t2}
E(ev, fd) == [ev |-> ev, fd |-> fd]
World(ops, smp, bad, n) == [calls |-> ops, smp |-> smp, badPointers |-> bad, budget |-> n]

\* Pairs; datagrams; a server; a client; waiting for a server and for a pair
MCWorlds ==
  {World({"pair", "read", "write", "close", "setfl"}, TRUE, FALSE, 6),
   World({"udp", "bind", "sendto", "recvfrom", "close"}, FALSE, FALSE, 4),
   World({"udp", "connect", "read", "getpeername", "close"}, TRUE, FALSE, 4),
   World({"tcp", "bind", "listen", "accept", "close"}, TRUE, TRUE, 6),
   World({"tcp", "bind", "listen", "accept", "ppoll"}, FALSE, FALSE, 4),
   World({"tcp", "connect", "recvfrom", "read", "close", "shutdown"}, TRUE, FALSE, 5),
   World({"pair", "write", "close", "select", "ppoll"}, FALSE, FALSE, 3),
   World({"udp", "pair", "close", "select"}, TRUE, FALSE, 3)}
MCWants == {<<E("in", 0), E("out", 1)>>, <<E("in", 1), E("out", 0), E("err", 1)>>}
=============================================================================
