------------------------- MODULE NetAddrProperties --------------------------
(***************************************************************************)
(* What addresses, proxies and the node's own addresses must satisfy, each *)
(* stated for one trial whose inputs are chosen in Algorithms.             *)
(***************************************************************************)
EXTENDS NetAddr

\* The forms of one IPv4 address: itself and behind the four kinds of tunnel
Zeros(n) == [i \in 1..n |-> 0]
Tunnels(a, b, c, d) ==
  {V4(a, b, c, d),
   <<0, 0, 0, 0, 0, 0, 0, 0, 255, 255, 0, 0, a, b, c, d>>,
   <<0, 100, 255, 155, 0, 0, 0, 0, 0, 0, 0, 0, a, b, c, d>>,
   <<32, 2, a, b, c, d>> \o Zeros(10),
   <<32, 1, 0, 0>> \o Zeros(8) \o <<255 - a, 255 - b, 255 - c, 255 - d>>}

\* "no two connections will be attempted to addresses with the same group":
\* nobody leaves his group by using a tunnel; an address is of one network,
\* and whatever is not routable is unreachable and in one group.
GroupTrial(a, b, c, d) ==
  LET v4 == V4(a, b, c, d)
  IN /\ IsRoutable(v4) => \A ip \in Tunnels(a, b, c, d) : GetGroup(ip) = GetGroup(v4)
     /\ \A ip \in Tunnels(a, b, c, d), partner \in Tunnels(a, b, c, d) :
          /\ IsRoutable(ip) <=> GetNetwork(ip) # "unroutable"
          /\ (GetReachabilityFrom(ip, partner) = UNREACHABLE) <=> GetGroup(ip) = <<"unroutable">>

\* What is written of an address, with its port or without, is read as that address
TextTrial(ip, port) ==
  /\ SplitHostPort(ToStringIP(ip), 1) = [host |-> ToStringIP(ip), port |-> 1]
  /\ SplitHostPort(ToStringIPPort(ip, port), 1)
       = [host |-> ToStringIP(ip), port |-> IF port = 0 THEN 1 ELSE port]

\* Behind a SOCKS5 proxy nothing is asked of the DNS and nothing that can be
\* routed is contacted directly, unless its network is off limits; no Tor
\* address ever is; and by default the node is silent about itself.
ProxyTrial(args, dest) ==
  LET conf == Settings(args)
      c    == ConnectSocketByName(conf, dest)
  IN /\ args.proxy /\ args.socks = 5 =>
          /\ ~c.dns
          /\ \A ip \in c.direct : ~IsRoutable(ip) \/ GetNetwork(ip) \in conf.limited \cup {"tor"}
     /\ c.ok => \A ip \in c.direct : ~IsTor(ip)
     /\ args.dns = "no" => ~c.dns
     /\ args.proxy /\ args.listen = "none" /\ ~args.bind => conf.fNoListen

\* What peers are told about this node can be routed, is of no network off
\* limits, is nothing when it does not listen and only the configured addresses
\* when it does not discover; votes only accumulate; and whoever was told last
\* was told the address it reaches best.
NoState(conf, addrs) ==
  [conf |-> conf, mapLocalHost |-> <<>>, reachable |-> {},
   peers |-> [i \in DOMAIN addrs |-> [addr |-> addrs[i], addrLocal |-> <<ipNone, 0>>, told |-> {}, connected |-> TRUE]]]
Manual(ops) == {op[2][1] : op \in {o \in ToSet(ops) : o[1] = "add" /\ o[3] >= LOCAL_MANUAL}}
LocalHolds(s, prev, conf, manual) ==
  /\ \A i \in DOMAIN s.peers : \A l \in s.peers[i].told :
       /\ IsRoutable(l[1]) /\ GetNetwork(l[1]) \notin conf.limited
       /\ ~conf.fNoListen
       /\ conf.fDiscover \/ l[1] \in manual
       /\ IsReachable(s, l[1])
  /\ \A a \in DOMAIN prev.mapLocalHost :
       a \in DOMAIN s.mapLocalHost /\ s.mapLocalHost[a].nScore >= prev.mapLocalHost[a].nScore
  /\ s.mapLocalHost # prev.mapLocalHost /\ ~conf.fNoListen =>
       \A i \in DOMAIN s.peers, a \in DOMAIN s.mapLocalHost :
         GetReachabilityFrom(a, s.peers[i].addr) <= GetReachabilityFrom(s.peers[i].addrLocal[1], s.peers[i].addr)
LocalTrial(conf, addrs, ops) ==
  LET After(done) == FoldLeft(LocalStep, NoState(conf, addrs), done)
  IN LocalHolds(After(ops), After(Front(ops)), conf, Manual(ops))
=============================================================================
