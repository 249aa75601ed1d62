------------------------------ MODULE NetAddr -------------------------------
(***************************************************************************)
(* Addresses of netbase.cpp, how they are reached, and the node's own      *)
(* addresses of net.cpp.                                                   *)
(*                                                                         *)
(* An address is the sequence of its 16 bytes, ip[1] the most significant: *)
(* GetByte(n) of the code is ip[16 - n].  A service is <<address, port>>.  *)
(* Texts are sequences of words and punctuation; <<"n", k>> is a number.   *)
(***************************************************************************)
EXTENDS Integers, Sequences, SequencesExt, FiniteSets, FiniteSetsExt

pchIPv4     == <<0, 0, 0, 0, 0, 0, 0, 0, 0, 0, 255, 255>>
pchOnionCat == <<253, 135, 216, 126, 235, 67>>
V4(a, b, c, d) == pchIPv4 \o <<a, b, c, d>>
ipNone == [i \in 1..16 |-> 0]

-----------------------------------------------------------------------------
(* What an address is *)

IsIPv4(ip) == IsPrefix(pchIPv4, ip)
IsTor(ip)  == IsPrefix(pchOnionCat, ip)
IsIPv6(ip) == ~IsIPv4(ip) /\ ~IsTor(ip)

IsRFC1918(ip) == IsIPv4(ip) /\ \/ ip[13] = 10
                               \/ ip[13] = 192 /\ ip[14] = 168
                               \/ ip[13] = 172 /\ ip[14] \in 16..31
IsRFC3927(ip) == IsIPv4(ip) /\ ip[13] = 169 /\ ip[14] = 254
IsRFC3849(ip) == IsPrefix(<<32, 1, 13, 184>>, ip)
IsRFC3964(ip) == IsPrefix(<<32, 2>>, ip)
IsRFC6052(ip) == IsPrefix(<<0, 100, 255, 155, 0, 0, 0, 0, 0, 0, 0, 0>>, ip)
IsRFC4380(ip) == IsPrefix(<<32, 1, 0, 0>>, ip)
IsRFC4862(ip) == IsPrefix(<<254, 128, 0, 0, 0, 0, 0, 0>>, ip)
IsRFC4193(ip) == ip[1] \in {252, 253}
IsRFC6145(ip) == IsPrefix(<<0, 0, 0, 0, 0, 0, 0, 0, 255, 255, 0, 0>>, ip)
IsRFC4843(ip) == IsPrefix(<<32, 1, 0>>, ip) /\ ip[4] \div 16 = 1
IsLocalHost(ip) == (IsIPv4(ip) /\ ip[13] \in {127, 0}) \/ ip = [ipNone EXCEPT ![16] = 1]

\* The first disjunct: addresses shifted by three bytes
IsValid(ip) ==
  ~ \/ SubSeq(ip, 1, 9) = SubSeq(pchIPv4, 4, 12)
    \/ ip = ipNone
    \/ IsRFC3849(ip)
    \/ ip = V4(255, 255, 255, 255)
    \/ ip = V4(0, 0, 0, 0)
IsRoutable(ip) ==
  IsValid(ip) /\ ~ \/ IsRFC1918(ip)
                   \/ IsRFC3927(ip)
                   \/ IsRFC4862(ip)
                   \/ IsRFC4193(ip) /\ ~IsTor(ip)
                   \/ IsRFC4843(ip)
                   \/ IsLocalHost(ip)
Networks == {"unroutable", "ipv4", "ipv6", "tor"}
GetNetwork(ip) ==
  IF ~IsRoutable(ip) THEN "unroutable"
  ELSE IF IsIPv4(ip) THEN "ipv4"
  ELSE IF IsTor(ip) THEN "tor" ELSE "ipv6"

\* The two bytes of the IPv4 address that is behind a tunnel, <<>> without one
Encapsulated_Plain(ip) ==        \* a bug: Teredo's inverted bits are taken as they are
  CASE IsIPv4(ip) \/ IsRFC6145(ip) \/ IsRFC6052(ip) \/ IsRFC4380(ip) -> <<ip[13], ip[14]>>
    [] IsRFC3964(ip) -> <<ip[3], ip[4]>>
    [] OTHER -> <<>>
Encapsulated(ip) ==
  CASE IsIPv4(ip) \/ IsRFC6145(ip) \/ IsRFC6052(ip) -> <<ip[13], ip[14]>>
    [] IsRFC3964(ip) -> <<ip[3], ip[4]>>
    [] IsRFC4380(ip) -> <<255 - ip[13], 255 - ip[14]>>
    [] OTHER -> <<>>

UpperFour(b) == (b \div 16) * 16 + 15
GetGroup(ip) ==
  IF ~IsRoutable(ip) THEN <<"unroutable">>
  ELSE IF Encapsulated(ip) # <<>> THEN <<"ipv4">> \o Encapsulated(ip)
  ELSE IF IsTor(ip) THEN <<"tor", UpperFour(ip[7])>>
  ELSE IF IsPrefix(<<32, 1, 4, 112>>, ip)                  \* he.net
       THEN <<"ipv6", ip[1], ip[2], ip[3], ip[4], UpperFour(ip[5])>>
       ELSE <<"ipv6", ip[1], ip[2], ip[3], ip[4]>>

GetExtNetwork(ip) == IF IsRFC4380(ip) THEN "teredo" ELSE GetNetwork(ip)

\* The values of Reachability
UNREACHABLE == 0
DEFAULT     == 1
TEREDO      == 2
IPV6_WEAK   == 3
IPV4        == 4
IPV6_STRONG == 5
PRIVATE     == 6
ReachabilityBetween(our, their, tunnel) ==
  CASE our = "ipv4" -> IPV4
    [] our = "teredo" /\ their \in {"ipv6", "teredo", "unroutable"} -> TEREDO
    [] our = "ipv6" /\ their = "ipv6" -> IF tunnel THEN IPV6_WEAK ELSE IPV6_STRONG
    [] our = "ipv6" /\ their \in {"teredo", "unroutable"} -> IPV6_WEAK
    [] our = "tor" /\ their \in {"tor", "unroutable"} -> PRIVATE
    [] OTHER -> DEFAULT
GetReachabilityFrom(ip, partner) ==
  IF ~IsRoutable(ip) THEN UNREACHABLE
  ELSE ReachabilityBetween(GetExtNetwork(ip), GetExtNetwork(partner), IsRFC3964(ip) \/ IsRFC6052(ip) \/ IsRFC6145(ip))

-----------------------------------------------------------------------------
(* Texts *)

Mark(c) == <<c>>
ToStringIP(ip) ==
  IF IsIPv6(ip) THEN <<<<"ip", ip>>, Mark(":"), Mark(":"), <<"n", 1>>>> ELSE <<<<"ip", ip>>>>
ToStringIPPort(ip, port) ==
  IF IsIPv6(ip) THEN <<Mark("[")>> \o ToStringIP(ip) \o <<Mark("]"), Mark(":"), <<"n", port>>>>
                ELSE ToStringIP(ip) \o <<Mark(":"), <<"n", port>>>>

Colons(text) == {i \in DOMAIN text : text[i] = Mark(":")}
\* strtol of the rest of the text: -1 if that is no number, 0 if nothing is left
NumberAfter(text, i) ==
  CASE i = Len(text) -> 0
    [] i = Len(text) - 1 /\ text[i + 1][1] = "n" -> text[i + 1][2]
    [] OTHER -> -1
Unbracketed(text) ==
  IF text # <<>> /\ Head(text) = Mark("[") /\ Last(text) = Mark("]") THEN SubSeq(text, 2, Len(text) - 1) ELSE text
SplitHostPort(text, port) ==
  LET colon     == Max(Colons(text))
      bracketed == Head(text) = Mark("[") /\ text[colon - 1] = Mark("]")
      n         == NumberAfter(text, colon)
  IN IF Colons(text) # {} /\ (colon = 1 \/ bracketed \/ Colons(text) = {colon}) /\ n >= 0
     THEN [host |-> Unbracketed(SubSeq(text, 1, colon - 1)), port |-> IF n \in 1..65535 THEN n ELSE port]
     ELSE [host |-> Unbracketed(text), port |-> port]

-----------------------------------------------------------------------------
(* The network settings of AppInit2, from the command line: an argument     *)
(* that is not given is "none".                                             *)

Soft(arg, default) == IF arg = "none" THEN default ELSE arg = "yes"
Settings(args) ==
  LET limited == IF args.onlynet = {} THEN {} ELSE Networks \ (args.onlynet \cup {"unroutable"})
      proxied == IF args.proxy THEN args.socks ELSE 0
  IN [limited   |-> limited,
      proxyInfo |-> [net \in Networks |->
         CASE net = "ipv4" /\ net \notin limited -> proxied
           [] net = "ipv6" /\ net \notin limited /\ proxied > 4 -> proxied
           [] net = "tor" /\ args.tor # "0" /\ (args.proxy \/ args.tor # "none") -> 5
           [] OTHER -> 0],
      nameproxy |-> IF proxied > 4 THEN proxied ELSE 0,
      fNoListen |-> ~Soft(args.listen, args.bind \/ ~(args.connect \/ args.proxy)),
      fDiscover |-> Soft(args.discover, ~args.externalip),
      fNameLookup |-> Soft(args.dns, TRUE)]

\* ConnectSocket: who is contacted, and how; Socks4 carries IPv4 only and
\* without a proxy there is no way to a Tor address.
ConnectSocket(conf, ip) ==
  LET proxy == conf.proxyInfo[GetNetwork(ip)]
  IN CASE proxy = 0 -> [ok |-> ~IsTor(ip), direct |-> {ip}, dns |-> FALSE]
       [] proxy = 4 -> [ok |-> IsIPv4(ip), direct |-> {}, dns |-> FALSE]
       [] proxy = 5 -> [ok |-> TRUE, direct |-> {}, dns |-> FALSE]

\* ConnectSocketByName; dest is [numeric, ip]: the address written as a number,
\* an onion name too, or a name that resolves to ip
ConnectSocketByName(conf, dest) ==
  LET lookup == conf.fNameLookup /\ conf.nameproxy = 0
  IN CASE dest.numeric /\ IsValid(dest.ip) -> ConnectSocket(conf, dest.ip)
       [] ~dest.numeric /\ lookup /\ IsValid(dest.ip) -> [ConnectSocket(conf, dest.ip) EXCEPT !.dns = TRUE]
       [] OTHER -> [ok |-> conf.nameproxy = 5, direct |-> {}, dns |-> ~dest.numeric /\ lookup]

-----------------------------------------------------------------------------
(* The node's own addresses.  s: conf, mapLocalHost (address -> [nScore,    *)
(* nPort]), reachable, and peers, each [addr, addrLocal, told, connected].  *)

LOCAL_MANUAL == 5

Precedes(a, b) == \E i \in 1..16 : a[i] < b[i] /\ \A j \in 1..(i - 1) : a[j] = b[j]

\* Whether address a is preferred for the peer: the first of the best in the map's order
Preferred(map, a, b, partner) ==
  LET Better(ra, rb) ==
        \/ ra > rb
        \/ ra = rb /\ map[a].nScore > map[b].nScore
        \/ ra = rb /\ map[a].nScore = map[b].nScore /\ Precedes(a, b)
  IN Better(GetReachabilityFrom(a, partner), GetReachabilityFrom(b, partner))
GetLocal(s, partner) ==
  LET Service(a) == <<a, s.mapLocalHost[a].nPort>>
  IN IF s.conf.fNoListen \/ DOMAIN s.mapLocalHost = {} THEN <<ipNone, 0>>
     ELSE Service(CHOOSE x \in DOMAIN s.mapLocalHost :
                    \A y \in DOMAIN s.mapLocalHost \ {x} : Preferred(s.mapLocalHost, x, y, partner))

AdvertizeLocal(s) ==
  LET Tell(p, l) == IF p.connected /\ IsRoutable(l[1]) /\ l # p.addrLocal
                    THEN [p EXCEPT !.told = @ \cup {l}, !.addrLocal = l] ELSE p
  IN [s EXCEPT !.peers = [i \in DOMAIN s.peers |-> Tell(s.peers[i], GetLocal(s, s.peers[i].addr))]]

SetReachable(s, net) == [s EXCEPT !.reachable = @ \cup {net} \cup (IF net = "ipv6" THEN {"ipv4"} ELSE {})]

AddLocal(s, service, nScore) ==
  LET a       == service[1]
      already == a \in DOMAIN s.mapLocalHost
      kept    == already /\ nScore < s.mapLocalHost[a].nScore
      info    == IF kept THEN s.mapLocalHost[a]
                 ELSE [nScore |-> nScore + (IF already THEN 1 ELSE 0), nPort |-> service[2]]
      map     == [x \in DOMAIN s.mapLocalHost \cup {a} |-> IF x = a THEN info ELSE s.mapLocalHost[x]]
  IN IF ~IsRoutable(a) \/ (~s.conf.fDiscover /\ nScore < LOCAL_MANUAL) \/ GetNetwork(a) \in s.conf.limited
     THEN s
     ELSE AdvertizeLocal(SetReachable([s EXCEPT !.mapLocalHost = map], GetNetwork(a)))

SeenLocal(s, service) ==
  IF service[1] \notin DOMAIN s.mapLocalHost THEN s
  ELSE AdvertizeLocal([s EXCEPT !.mapLocalHost[service[1]].nScore = @ + 1])

\* The "version" of an inbound peer, which says how it sees this node
ReceiveVersion(s, i, addrMe) ==
  IF ~IsRoutable(addrMe[1]) THEN s
  ELSE SeenLocal([s EXCEPT !.peers[i].addrLocal = addrMe], addrMe)

\* The "version" of an outbound peer, and the daily broadcast of SendMessages
Announce(s, i) ==
  LET Tell(l) == IF ~s.conf.fNoListen /\ IsRoutable(l[1]) THEN [s EXCEPT !.peers[i].told = @ \cup {l}] ELSE s
  IN Tell(GetLocal(s, s.peers[i].addr))

IsReachable(s, ip) == GetNetwork(ip) \in s.reachable \ s.conf.limited

LocalStep(s, op) ==
  CASE op[1] = "add"      -> AddLocal(s, op[2], op[3])
    [] op[1] = "version"  -> ReceiveVersion(s, op[2], op[3])
    [] op[1] = "announce" -> Announce(s, op[2])
=============================================================================
