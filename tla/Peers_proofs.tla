------------------------------ MODULE Peers_proofs ------------------------------
(***************************************************************************)
(* For any number of places, addresses, slots and inbound connections: the *)
(* slots of semOutbound are conserved, no thread holds a pointer to a      *)
(* deleted node that ConnectNode did not hand to a second thread, and the  *)
(* count of an accepted node is that of the threads that hold it.          *)
(***************************************************************************)
EXTENDS Peers, FiniteSetTheorems, TLAPS

NodeType ==
    [addr : Addrs, fInbound : BOOLEAN, listed : BOOLEAN, nRefCount : Int, grant : BOOLEAN,
     fNetworkNode : BOOLEAN, fOneShot : BOOLEAN, fDisconnect : BOOLEAN, shared : BOOLEAN]

OpenerType ==
    [pc : {"idle", "find", "read", "write", "connect", "move", "flag", "undefined"},
     grant : BOOLEAN, addr : Addrs \cup {NULL}, oneShot : BOOLEAN,
     node : Memory \cup {NULL, Freed, Contested}, read : Int]

TypeInv ==
    /\ DOMAIN nodes \subseteq Memory /\ IsFiniteSet(DOMAIN nodes)
    /\ nodes \in [DOMAIN nodes -> NodeType]
    /\ sem \in Int /\ banned \subseteq Addrs /\ vOneShots \subseteq Addrs
    /\ opener \in [Openers -> OpenerType]
    /\ socket \in [pc : {"disconnect", "accept", "service", "undefined"},
                   copy : SUBSET (Memory \cup Deleted)]
    /\ message \in [pc : {"copy", "process", "release", "undefined"},
                    copy : SUBSET (Memory \cup Deleted)]

\* A thread has a pointer from the search for a connection to the flags, and it is to
\* an object that exists or to one that ConnectNode handed to a second thread; it has
\* its grant from the wait for a slot until the grant is moved.
OpenerOK(o, places) ==
    /\ o.pc # "idle" => o.addr \in Addrs
    /\ o.pc \in {"idle", "find", "connect"} => o.node = NULL
    /\ o.pc \in {"read", "write", "move", "flag"} => o.node \in places \cup {Contested}
    /\ o.pc = "undefined" => o.node = Contested
    /\ o.pc \in {"idle", "flag"} => ~o.grant
    /\ o.pc \in {"find", "read", "write", "connect", "move"} => o.grant

OpenersInv == \A t \in Openers : OpenerOK(opener[t], DOMAIN nodes)

CopiesInv ==
    /\ socket.copy \subseteq DOMAIN nodes \cup {Contested}
    /\ socket.pc \in {"disconnect", "accept"} => socket.copy = {}
    /\ message.copy \subseteq DOMAIN nodes \cup {Contested}
    /\ message.pc = "copy" => message.copy = {}

\* t has been given m, whose count it may or may not have raised.
Opened(t, m) == opener[t].node = m /\ opener[t].pc \in {"move", "flag"}

\* The count of a node that no second thread was handed: the reference of the one
\* that made it, which the socket thread takes when it leaves vNodes if the node is
\* flagged by then, and one for each of the copies it is in; a slot it still has when it
\* has left came after the socket thread saw no flag.
RefInv ==
    \A m \in DOMAIN nodes :
        /\ nodes[m].fInbound => ~nodes[m].shared /\ \A t \in Openers : opener[t].node # m
        /\ ~nodes[m].shared =>
            /\ nodes[m].listed => nodes[m].nRefCount = 1 + Copies(m)
            /\ ~nodes[m].listed => nodes[m].nRefCount >= Copies(m)
            /\ ~nodes[m].listed /\ nodes[m].grant => nodes[m].nRefCount >= 1 + Copies(m)
            /\ ~nodes[m].listed /\ nodes[m].fInbound => nodes[m].nRefCount = Copies(m)
            /\ \A t \in Openers : Opened(t, m) =>
                /\ ~nodes[m].fNetworkNode /\ nodes[m].nRefCount >= 1 + Copies(m)
                /\ \A u \in Openers : Opened(u, m) => u = t

PInv == TypeInv /\ OpenersInv /\ CopiesInv /\ SlotsCounted /\ RefInv

-----------------------------------------------------------------------------

\* What the proofs use of the special pointers and of where they can be confused.
LEMMA Distinct ==
    /\ NULL \notin Memory /\ Freed \notin Memory /\ Contested \notin Memory
    /\ NULL # Freed /\ NULL # Contested /\ Freed # Contested
    /\ Memory \cap Openers = {} /\ IsFiniteSet(Openers)
<1>1. NULL # Freed /\ NULL # Contested /\ Freed # Contested
    <2>1. \A x, y : Cardinality({x, y}) # 3
        <3> SUFFICES ASSUME NEW x, NEW y PROVE Cardinality({x, y}) # 3
            OBVIOUS
        <3>1. IsFiniteSet({x}) /\ Cardinality({x}) = 1
            BY FS_Singleton
        <3>2. {x, y} = {x} \cup {y}
            OBVIOUS
        <3> QED
            BY <3>1, <3>2, FS_AddElement
    <2>2. /\ NULL = Freed => {NULL, Freed, Contested} = {Freed, Contested}
          /\ NULL = Contested => {NULL, Freed, Contested} = {NULL, Freed}
          /\ Freed = Contested => {NULL, Freed, Contested} = {NULL, Freed}
        OBVIOUS
    <2> QED
        BY <2>1, <2>2, PeersAssumption
<1>2. IsFiniteSet({"opencon", "addcon"})
    <2>1. IsFiniteSet({"opencon"})
        BY FS_Singleton
    <2>2. {"opencon", "addcon"} = {"opencon"} \cup {"addcon"}
        OBVIOUS
    <2> QED
        BY <2>1, <2>2, FS_AddElement
<1>3. IsFiniteSet(Openers)
    BY <1>2, FS_Subset, PeersAssumption
<1> QED
    BY <1>1, <1>3, PeersAssumption

LEMMA SlotsFinite ==
    ASSUME TypeInv
    PROVE  IsFiniteSet(SlotsTaken) /\ Cardinality(SlotsTaken) \in Nat
<1>1. /\ IsFiniteSet({m \in DOMAIN nodes : nodes[m].grant})
      /\ IsFiniteSet({t \in Openers : opener[t].grant})
    BY Distinct, FS_Subset DEF TypeInv
<1> QED
    BY <1>1, FS_Union, FS_CardinalityType DEF SlotsTaken

LEMMA InitPInv == Init => PInv
<1> SUFFICES ASSUME Init PROVE PInv
    OBVIOUS
<1>1. DOMAIN nodes = {}
    BY DEF Init
<1>2. /\ IsFiniteSet(DOMAIN nodes) /\ nodes \in [DOMAIN nodes -> NodeType]
    BY <1>1, FS_EmptySet DEF Init
<1>3. TypeInv
    BY <1>1, <1>2, PeersAssumption DEF Init, TypeInv, Idle, OpenerType, Deleted
<1>4. OpenersInv /\ CopiesInv /\ RefInv
    BY <1>1 DEF Init, OpenersInv, OpenerOK, CopiesInv, RefInv, Idle
<1>5. SlotsTaken = {}
    BY <1>1 DEF SlotsTaken, Init, Idle
<1>6. SlotsCounted
    BY <1>5, FS_EmptySet, PeersAssumption DEF SlotsCounted, Init
<1> QED
    BY <1>3, <1>4, <1>6 DEF PInv

\* One slot more, or one less, that a thread or a node holds.
LEMMA OneSlot ==
    ASSUME TypeInv, NEW x
    PROVE  /\ x \notin SlotsTaken => Cardinality(SlotsTaken \cup {x}) = Cardinality(SlotsTaken) + 1
           /\ x \in SlotsTaken => Cardinality(SlotsTaken \ {x}) = Cardinality(SlotsTaken) - 1
BY SlotsFinite, FS_AddElement, FS_RemoveElement

\* A step of an opening thread keeps the types, what holds of the threads, and the
\* copies, when it does so for the thread itself.
LEMMA OpenerSteps ==
    ASSUME PInv, NEW t \in Openers, NEW o \in OpenerType, opener' = [opener EXCEPT ![t] = o],
           OpenerOK(o, DOMAIN nodes'), DOMAIN nodes \subseteq DOMAIN nodes', UNCHANGED <<socket, message>>
    PROVE  /\ opener' \in [Openers -> OpenerType]
           /\ OpenersInv' /\ CopiesInv'
           /\ opener'[t] = o /\ \A u \in Openers \ {t} : opener'[u] = opener[u]
<1>1. /\ opener \in [Openers -> OpenerType] /\ OpenersInv /\ CopiesInv
    BY DEF PInv, TypeInv
<1>2. /\ opener' \in [Openers -> OpenerType]
      /\ opener'[t] = o /\ \A u \in Openers \ {t} : opener'[u] = opener[u]
    BY <1>1
<1>3. OpenersInv'
    <2> SUFFICES ASSUME NEW u \in Openers PROVE OpenerOK(opener'[u], DOMAIN nodes')
        BY DEF OpenersInv
    <2>1. CASE u = t
        BY <1>2, <2>1 DEF OpenerOK
    <2>2. CASE u # t
        BY <1>1, <1>2, <2>2 DEF OpenersInv, OpenerOK
    <2> QED
        BY <2>1, <2>2
<1>4. CopiesInv'
    BY <1>1 DEF CopiesInv
<1> QED
    BY <1>2, <1>3, <1>4

\* A step of an opening thread that leaves the nodes and the copies alone keeps RefInv
\* when the thread comes to hold no node that it may flag, and no accepted one.
LEMMA SameNodesRef ==
    ASSUME PInv, UNCHANGED <<nodes, socket, message>>, NEW t \in Openers,
           \A u \in Openers \ {t} : opener'[u] = opener[u],
           \A m \in DOMAIN nodes : opener'[t].node = m =>
              /\ opener[t].node # m => ~nodes[m].fInbound
              /\ opener'[t].pc \in {"move", "flag"} => Opened(t, m)
    PROVE  RefInv'
<1>1. RefInv
    BY DEF PInv
<1>2. \A u \in Openers, m \in DOMAIN nodes :
        /\ Opened(u, m)' => Opened(u, m)
        /\ opener'[u].node = m /\ nodes[m].fInbound => opener[u].node = m
    BY DEF Opened
<1> QED
    BY <1>1, <1>2 DEF RefInv, Copies

\* A step of an opening thread that leaves the nodes alone.
LEMMA OpenerAlone ==
    ASSUME PInv, NEW t \in Openers, NEW o \in OpenerType, opener' = [opener EXCEPT ![t] = o],
           OpenerOK(o, DOMAIN nodes), UNCHANGED <<nodes, banned, socket, message>>,
           vOneShots' \subseteq Addrs,
           /\ (o.grant <=> opener[t].grant) => sem' = sem
           /\ o.grant /\ ~opener[t].grant => sem' = sem - 1
           /\ ~o.grant /\ opener[t].grant => sem' = sem + 1,
           \A m \in DOMAIN nodes : o.node = m =>
              /\ opener[t].node # m => ~nodes[m].fInbound
              /\ o.pc \in {"move", "flag"} => Opened(t, m)
    PROVE  PInv'
<1>1. /\ opener' \in [Openers -> OpenerType] /\ OpenersInv' /\ CopiesInv'
      /\ opener'[t] = o /\ \A u \in Openers \ {t} : opener'[u] = opener[u]
    BY OpenerSteps
<1>2. TypeInv
    BY DEF PInv
<1>3. sem' \in Int
    BY <1>2 DEF TypeInv
<1>4. TypeInv'
    BY <1>1, <1>2, <1>3 DEF TypeInv
<1>5. SlotsTaken' = IF o.grant THEN SlotsTaken \cup {t} ELSE SlotsTaken \ {t}
    BY <1>1, <1>2, Distinct DEF SlotsTaken, TypeInv
<1>6. t \in SlotsTaken <=> opener[t].grant
    BY <1>2, Distinct DEF SlotsTaken, TypeInv
<1>7. SlotsCounted'
    <2>1. CASE o.grant <=> opener[t].grant
        <3>1. SlotsTaken' = SlotsTaken
            BY <1>5, <1>6, <2>1
        <3> QED
            BY <2>1, <3>1 DEF SlotsCounted, PInv
    <2>2. CASE o.grant /\ ~opener[t].grant
        <3>1. Cardinality(SlotsTaken') = Cardinality(SlotsTaken) + 1 /\ sem' = sem - 1
            BY <1>2, <1>5, <1>6, <2>2, OneSlot
        <3> QED
            BY <1>2, <3>1, SlotsFinite, PeersAssumption DEF SlotsCounted, PInv, TypeInv
    <2>3. CASE ~o.grant /\ opener[t].grant
        <3>1. Cardinality(SlotsTaken') = Cardinality(SlotsTaken) - 1 /\ sem' = sem + 1
            BY <1>2, <1>5, <1>6, <2>3, OneSlot
        <3> QED
            BY <1>2, <3>1, SlotsFinite, PeersAssumption DEF SlotsCounted, PInv, TypeInv
    <2> QED
        BY <2>1, <2>2, <2>3
<1>8. RefInv'
    BY <1>1, SameNodesRef
<1> QED
    BY <1>1, <1>4, <1>7, <1>8 DEF PInv

LEMMA IdleType ==
    Idle \in OpenerType /\ Idle.node = NULL /\ Idle.pc = "idle" /\ ~Idle.grant
BY DEF Idle, OpenerType

LEMMA NullIsNoPlace == PInv => NULL \notin DOMAIN nodes /\ Contested \notin DOMAIN nodes
BY Distinct DEF PInv, TypeInv

LEMMA OpenNetworkConnectionPInv ==
    ASSUME PInv, NEW t \in Openers, NEW a \in Addrs, OpenNetworkConnection(t, a)
    PROVE  PInv'
<1> DEFINE o == [Idle EXCEPT !.pc = "find", !.grant = TRUE, !.addr = a]
<1>1. /\ opener' = [opener EXCEPT ![t] = o] /\ opener[t].pc = "idle" /\ sem' = sem - 1
      /\ UNCHANGED <<nodes, banned, vOneShots, socket, message>>
    BY DEF OpenNetworkConnection
<1>2. /\ o \in OpenerType /\ o.node = NULL /\ o.pc = "find" /\ o.addr = a /\ o.grant
    BY IdleType DEF OpenerType
<1> HIDE DEF o
<1>3. OpenerOK(o, DOMAIN nodes)
    BY <1>2 DEF OpenerOK
<1>4. ~opener[t].grant
    BY <1>1 DEF PInv, OpenersInv, OpenerOK
<1>5. vOneShots' \subseteq Addrs
    BY <1>1 DEF PInv, TypeInv
<1> QED
    BY <1>1, <1>2, <1>3, <1>4, <1>5, OpenerAlone, NullIsNoPlace

LEMMA ProcessOneShotPInv ==
    ASSUME PInv, NEW t \in Openers, NEW a \in Addrs, ProcessOneShot(t, a)
    PROVE  PInv'
<1> DEFINE o == [Idle EXCEPT !.pc = "connect", !.grant = TRUE, !.addr = a, !.oneShot = TRUE]
<1>1. /\ opener[t].pc = "idle" /\ vOneShots' = vOneShots \ {a}
      /\ UNCHANGED <<nodes, banned, socket, message>>
      /\ \/ opener' = [opener EXCEPT ![t] = o] /\ sem' = sem - 1
         \/ UNCHANGED <<sem, opener>>
    BY DEF ProcessOneShot
<1>2. /\ o \in OpenerType /\ o.node = NULL /\ o.pc = "connect" /\ o.addr = a /\ o.grant
    BY IdleType DEF OpenerType
<1> HIDE DEF o
<1>3. OpenerOK(o, DOMAIN nodes)
    BY <1>2 DEF OpenerOK
<1>4. ~opener[t].grant
    BY <1>1 DEF PInv, OpenersInv, OpenerOK
<1>5. vOneShots' \subseteq Addrs
    BY <1>1 DEF PInv, TypeInv
<1>6. CASE opener' = [opener EXCEPT ![t] = o] /\ sem' = sem - 1
    BY <1>1, <1>2, <1>3, <1>4, <1>5, <1>6, OpenerAlone, NullIsNoPlace
<1>7. CASE UNCHANGED <<sem, opener>>
    BY <1>1, <1>5, <1>7 DEF PInv, TypeInv, OpenersInv, CopiesInv, SlotsCounted, SlotsTaken,
                            RefInv, Copies, Opened
<1> QED
    BY <1>1, <1>6, <1>7

LEMMA FindsNodePInv ==
    ASSUME PInv, NEW t \in Openers, NEW m \in Memory, FindsNode(t, m)
    PROVE  PInv'
<1> DEFINE o == [opener[t] EXCEPT !.pc = "read", !.node = m]
<1>1. opener \in [Openers -> OpenerType] /\ OpenerOK(opener[t], DOMAIN nodes)
    BY DEF PInv, TypeInv, OpenersInv
<1>2. /\ opener' = [opener EXCEPT ![t] = o]
      /\ opener[t].pc = "find" /\ m \in DOMAIN nodes /\ ~nodes[m].fInbound
      /\ UNCHANGED <<nodes, sem, banned, vOneShots, socket, message>>
    BY <1>1 DEF FindsNode, vNodes, OpenerType
<1>3. /\ o \in OpenerType /\ o.node = m /\ o.pc = "read"
      /\ o.addr = opener[t].addr /\ o.grant = opener[t].grant
    BY <1>1 DEF OpenerType
<1> HIDE DEF o
<1>4. OpenerOK(o, DOMAIN nodes)
    BY <1>1, <1>2, <1>3 DEF OpenerOK
<1>5. vOneShots' \subseteq Addrs
    BY <1>2 DEF PInv, TypeInv
<1> QED
    BY <1>2, <1>3, <1>4, <1>5, OpenerAlone

LEMMA FindsNonePInv ==
    ASSUME PInv, NEW t \in Openers, FindsNone(t)
    PROVE  PInv'
<1> DEFINE o == [opener[t] EXCEPT !.pc = "connect"]
<1>1. opener \in [Openers -> OpenerType] /\ OpenerOK(opener[t], DOMAIN nodes)
    BY DEF PInv, TypeInv, OpenersInv
<1>2. /\ opener' = [opener EXCEPT ![t] = o] /\ opener[t].pc = "find"
      /\ UNCHANGED <<nodes, sem, banned, vOneShots, socket, message>>
    BY <1>1 DEF FindsNone, OpenerType
<1>3. /\ o \in OpenerType /\ o.node = opener[t].node /\ o.pc = "connect"
      /\ o.addr = opener[t].addr /\ o.grant = opener[t].grant
    BY <1>1 DEF OpenerType
<1> HIDE DEF o
<1>4. OpenerOK(o, DOMAIN nodes)
    BY <1>1, <1>2, <1>3 DEF OpenerOK
<1>5. vOneShots' \subseteq Addrs
    BY <1>2 DEF PInv, TypeInv
<1> QED
    BY <1>2, <1>3, <1>4, <1>5, OpenerAlone

LEMMA ReadRefCountPInv ==
    ASSUME PInv, NEW t \in Openers, ReadRefCount(t)
    PROVE  PInv'
<1> DEFINE p == IF opener[t].node \in Deleted THEN "undefined" ELSE "write"
           n == IF opener[t].node \in Deleted THEN opener[t].read
                ELSE nodes[opener[t].node].nRefCount
           o == [opener[t] EXCEPT !.pc = p, !.read = n]
<1>1. opener \in [Openers -> OpenerType] /\ OpenerOK(opener[t], DOMAIN nodes)
    BY DEF PInv, TypeInv, OpenersInv
<1>2. /\ opener[t].pc = "read"
      /\ UNCHANGED <<nodes, sem, banned, vOneShots, socket, message>>
      /\ \/ opener[t].node \in Deleted /\ opener' = [opener EXCEPT ![t].pc = "undefined"]
         \/ /\ opener[t].node \notin Deleted
            /\ opener' = [opener EXCEPT ![t].pc = "write",
                                        ![t].read = nodes[opener[t].node].nRefCount]
    BY DEF ReadRefCount
<1>3. opener[t].node \in DOMAIN nodes \cup {Contested} /\ Freed \notin DOMAIN nodes
    BY <1>1, <1>2, Distinct DEF OpenerOK, PInv, TypeInv
<1>4. opener[t].node \notin Deleted => nodes[opener[t].node].nRefCount \in Int
    BY <1>3 DEF Deleted, PInv, TypeInv, NodeType
<1>5. n \in Int
    BY <1>1, <1>4 DEF OpenerType
<1>6. opener' = [opener EXCEPT ![t] = o]
    BY <1>1, <1>2 DEF OpenerType
<1>7. /\ o \in OpenerType /\ o.node = opener[t].node /\ o.pc = p
      /\ o.addr = opener[t].addr /\ o.grant = opener[t].grant
    BY <1>1, <1>5 DEF OpenerType
<1> HIDE DEF o
<1>8. OpenerOK(o, DOMAIN nodes)
    BY <1>1, <1>2, <1>3, <1>7, Distinct DEF OpenerOK, Deleted, PInv, TypeInv
<1>9. vOneShots' \subseteq Addrs
    BY <1>2 DEF PInv, TypeInv
<1> QED
    BY <1>2, <1>6, <1>7, <1>8, <1>9, OpenerAlone

LEMMA CannotConnectPInv ==
    ASSUME PInv, NEW t \in Openers, CannotConnect(t)
    PROVE  PInv'
<1>1. /\ opener' = [opener EXCEPT ![t] = Idle] /\ opener[t].pc = "connect" /\ sem' = sem + 1
      /\ UNCHANGED <<nodes, banned, socket, message>>
      /\ vOneShots' \subseteq vOneShots \cup {opener[t].addr}
    BY DEF CannotConnect
<1>2. opener[t].grant /\ opener[t].addr \in Addrs
    BY <1>1 DEF PInv, OpenersInv, OpenerOK
<1>3. OpenerOK(Idle, DOMAIN nodes)
    BY IdleType DEF OpenerOK
<1>4. vOneShots' \subseteq Addrs
    BY <1>1, <1>2 DEF PInv, TypeInv
<1> QED
    BY <1>1, <1>2, <1>3, <1>4, IdleType, OpenerAlone, NullIsNoPlace

\* The thread uses a pointer to a node that was deleted.
LEMMA UndefinedPInv ==
    ASSUME PInv, NEW t \in Openers, opener[t].pc \in {"read", "write", "move", "flag"},
           opener[t].node \in Deleted, opener' = [opener EXCEPT ![t].pc = "undefined"],
           UNCHANGED <<nodes, sem, banned, vOneShots, socket, message>>
    PROVE  PInv'
<1> DEFINE o == [opener[t] EXCEPT !.pc = "undefined"]
<1>1. opener \in [Openers -> OpenerType] /\ OpenerOK(opener[t], DOMAIN nodes)
    BY DEF PInv, TypeInv, OpenersInv
<1>2. opener' = [opener EXCEPT ![t] = o]
    BY <1>1 DEF OpenerType
<1>3. /\ o \in OpenerType /\ o.node = opener[t].node /\ o.pc = "undefined"
      /\ o.addr = opener[t].addr /\ o.grant = opener[t].grant
    BY <1>1 DEF OpenerType
<1>4. opener[t].node = Contested
    BY <1>1, Distinct DEF OpenerOK, Deleted, PInv, TypeInv
<1> HIDE DEF o
<1>5. OpenerOK(o, DOMAIN nodes)
    BY <1>1, <1>3, <1>4 DEF OpenerOK
<1>6. vOneShots' \subseteq Addrs
    BY DEF PInv, TypeInv
<1> QED
    BY <1>2, <1>3, <1>4, <1>5, <1>6, OpenerAlone, NullIsNoPlace

\* The references of n, the node at m, are right once thread t is at o: RefInv for one node.
RefsFor(n, m, o, t) ==
    ~n.shared =>
        /\ n.listed => n.nRefCount = 1 + Copies(m)
        /\ ~n.listed => n.nRefCount >= Copies(m)
        /\ ~n.listed /\ n.grant => n.nRefCount >= 1 + Copies(m)
        /\ o.node = m => ~n.fNetworkNode /\ n.nRefCount >= 1 + Copies(m)
        /\ \A u \in Openers \ {t} : ~Opened(u, m)

\* A step of an opening thread that makes the node at m another, the slots seen to.
LEMMA OpenerChangesNode ==
    ASSUME PInv, NEW t \in Openers, NEW o \in OpenerType, opener' = [opener EXCEPT ![t] = o],
           OpenerOK(o, DOMAIN nodes), UNCHANGED <<banned, vOneShots, socket, message>>,
           NEW m \in DOMAIN nodes, NEW n \in NodeType, nodes' = [nodes EXCEPT ![m] = n],
           ~n.fInbound, o.node \in {m, NULL},
           SlotsCounted', sem' \in Int, RefsFor(n, m, o, t)
    PROVE  PInv'
<1>1. /\ DOMAIN nodes' = DOMAIN nodes /\ nodes'[m] = n
      /\ \A x \in DOMAIN nodes \ {m} : nodes'[x] = nodes[x]
    BY DEF PInv, TypeInv
<1>2. nodes' \in [DOMAIN nodes' -> NodeType]
    BY DEF PInv, TypeInv
<1>3. /\ opener' \in [Openers -> OpenerType] /\ OpenersInv' /\ CopiesInv'
      /\ opener'[t] = o /\ \A u \in Openers \ {t} : opener'[u] = opener[u]
    BY <1>1, OpenerSteps
<1>4. TypeInv'
    BY <1>1, <1>2, <1>3 DEF PInv, TypeInv
<1>5. RefInv /\ NULL \notin DOMAIN nodes
    BY NullIsNoPlace DEF PInv
<1>6. \A x : Copies(x)' = Copies(x)
    BY DEF Copies
<1>7. ASSUME NEW x \in DOMAIN nodes, x # m
      PROVE  /\ \A u \in Openers : Opened(u, x)' => Opened(u, x)
             /\ \A u \in Openers : opener'[u].node = x => opener[u].node = x
             /\ nodes'[x] = nodes[x]
    BY <1>1, <1>3, <1>5, <1>7 DEF Opened
<1>8. RefInv'
    <2> SUFFICES ASSUME NEW x \in DOMAIN nodes
                 PROVE  /\ nodes'[x].fInbound =>
                              ~nodes'[x].shared /\ \A u \in Openers : opener'[u].node # x
                        /\ ~nodes'[x].shared =>
                            /\ nodes'[x].listed => nodes'[x].nRefCount = 1 + Copies(x)
                            /\ ~nodes'[x].listed => nodes'[x].nRefCount >= Copies(x)
                            /\ ~nodes'[x].listed /\ nodes'[x].grant =>
                                  nodes'[x].nRefCount >= 1 + Copies(x)
                            /\ ~nodes'[x].listed /\ nodes'[x].fInbound =>
                                  nodes'[x].nRefCount = Copies(x)
                            /\ \A u \in Openers : Opened(u, x)' =>
                                /\ ~nodes'[x].fNetworkNode
                                /\ nodes'[x].nRefCount >= 1 + Copies(x)
                                /\ \A v \in Openers : Opened(v, x)' => v = u
        BY <1>1, <1>6 DEF RefInv
    <2>1. CASE x = m
        <3>1. \A u \in Openers \ {t} : Opened(u, m)' <=> Opened(u, m)
            BY <1>3 DEF Opened
        <3>2. Opened(t, m)' => o.node = m
            BY <1>3 DEF Opened
        <3> QED
            BY <1>1, <2>1, <3>1, <3>2 DEF RefsFor
    <2>2. CASE x # m
        BY <1>5, <1>7, <2>2 DEF RefInv
    <2> QED
        BY <2>1, <2>2
<1> QED
    BY <1>3, <1>4, <1>8 DEF PInv

LEMMA WriteRefCountPInv ==
    ASSUME PInv, NEW t \in Openers, WriteRefCount(t)
    PROVE  PInv'
<1>0. PICK zero \in Int, count \in Int : zero = 0 /\ count = opener[t].read + 1
    <2>1. opener[t].read \in Int
        BY DEF PInv, TypeInv, OpenerType
    <2> QED
        BY <2>1
<1> DEFINE m == opener[t].node
           o == [opener[t] EXCEPT !.pc = "move", !.read = zero]
           n == [nodes[m] EXCEPT !.nRefCount = count, !.shared = TRUE]
<1>1. /\ opener \in [Openers -> OpenerType] /\ OpenerOK(opener[t], DOMAIN nodes)
      /\ nodes \in [DOMAIN nodes -> NodeType] /\ opener[t].pc = "write"
    BY DEF PInv, TypeInv, OpenersInv, WriteRefCount
<1>2. CASE m \in Deleted
    BY <1>1, <1>2, UndefinedPInv DEF WriteRefCount
<1>3. CASE m \notin Deleted
    <2>1. m \in DOMAIN nodes
        BY <1>1, <1>3 DEF OpenerOK, Deleted
    <2>2. /\ nodes' = [nodes EXCEPT ![m].nRefCount = count, ![m].shared = TRUE]
          /\ opener' = [opener EXCEPT ![t].pc = "move", ![t].read = zero]
          /\ UNCHANGED <<sem, banned, vOneShots, socket, message>>
        BY <1>0, <1>3 DEF WriteRefCount
    <2>3. opener' = [opener EXCEPT ![t] = o]
        BY <1>1, <2>2 DEF OpenerType
    <2>4. /\ o \in OpenerType /\ o.node = m /\ o.pc = "move"
          /\ o.addr = opener[t].addr /\ o.grant = opener[t].grant
        <3>1. opener[t] \in OpenerType
            BY <1>1
        <3> QED
            BY <3>1 DEF OpenerType
    <2>6. nodes' = [nodes EXCEPT ![m] = n]
        BY <1>1, <2>1, <2>2 DEF NodeType
    <2>7. /\ n \in NodeType /\ n.shared /\ n.fInbound = nodes[m].fInbound
          /\ n.grant = nodes[m].grant
        <3>1. nodes[m] \in NodeType
            BY <1>1, <2>1
        <3> QED
            BY <3>1 DEF NodeType
    <2>8. ~nodes[m].fInbound
        BY <2>1 DEF PInv, RefInv
    <2> HIDE DEF n, o, m
    <2>9. OpenerOK(o, DOMAIN nodes)
        BY <1>1, <2>1, <2>4 DEF OpenerOK
    <2>10. SlotsTaken' = SlotsTaken
        <3>1. {x \in DOMAIN nodes' : nodes'[x].grant} = {x \in DOMAIN nodes : nodes[x].grant}
            BY <1>1, <2>1, <2>6, <2>7
        <3>2. {u \in Openers : opener'[u].grant} = {u \in Openers : opener[u].grant}
            BY <1>1, <2>3, <2>4
        <3> QED
            BY <3>1, <3>2 DEF SlotsTaken
    <2>11. SlotsCounted' /\ sem' \in Int
        BY <2>2, <2>10 DEF SlotsCounted, PInv, TypeInv
    <2>12. /\ n \in NodeType /\ o \in OpenerType /\ o.node \in {m, NULL} /\ ~n.fInbound
           /\ UNCHANGED <<banned, vOneShots, socket, message>>
        BY <2>2, <2>4, <2>7, <2>8
    <2>13. RefsFor(n, m, o, t)
        BY <2>4, <2>7 DEF RefsFor
    <2> QED
        BY <2>1, <2>3, <2>6, <2>9, <2>11, <2>12, <2>13, OpenerChangesNode
<1> QED
    BY <1>2, <1>3

LEMMA MoveGrantPInv ==
    ASSUME PInv, NEW t \in Openers, MoveGrant(t)
    PROVE  PInv'
<1> DEFINE m == opener[t].node
           o == [opener[t] EXCEPT !.pc = "flag", !.grant = FALSE]
           n == [nodes[m] EXCEPT !.grant = TRUE]
<1>1. /\ opener \in [Openers -> OpenerType] /\ OpenerOK(opener[t], DOMAIN nodes)
      /\ nodes \in [DOMAIN nodes -> NodeType] /\ opener[t].pc = "move"
    BY DEF PInv, TypeInv, OpenersInv, MoveGrant
<1>2. CASE m \in Deleted
    BY <1>1, <1>2, UndefinedPInv DEF MoveGrant
<1>3. CASE m \notin Deleted
    <2>1. m \in DOMAIN nodes
        BY <1>1, <1>3 DEF OpenerOK, Deleted
    <2>2. /\ nodes' = [nodes EXCEPT ![m].grant = TRUE]
          /\ opener' = [opener EXCEPT ![t].pc = "flag", ![t].grant = FALSE]
          /\ sem' = IF nodes[m].grant THEN sem + 1 ELSE sem
          /\ UNCHANGED <<banned, vOneShots, socket, message>>
        BY <1>3 DEF MoveGrant, SlotsAfterMove
    <2>3. opener' = [opener EXCEPT ![t] = o]
        BY <1>1, <2>2 DEF OpenerType
    <2>4. /\ o \in OpenerType /\ o.node = m /\ o.pc = "flag"
          /\ o.addr = opener[t].addr /\ ~o.grant
        BY <1>1 DEF OpenerType
    <2>5. nodes' = [nodes EXCEPT ![m] = n]
        BY <1>1, <2>1, <2>2 DEF NodeType
    <2>6. /\ n \in NodeType /\ n.grant /\ n.fInbound = nodes[m].fInbound
          /\ n.listed = nodes[m].listed /\ n.shared = nodes[m].shared
          /\ n.nRefCount = nodes[m].nRefCount /\ n.fNetworkNode = nodes[m].fNetworkNode
        <3>1. nodes[m] \in NodeType
            BY <1>1, <2>1
        <3> HIDE DEF m
        <3> QED
            BY <3>1 DEF NodeType
    <2>7. /\ ~nodes[m].fInbound
          /\ ~nodes[m].shared =>
              /\ nodes[m].listed => nodes[m].nRefCount = 1 + Copies(m)
              /\ ~nodes[m].listed => nodes[m].nRefCount >= Copies(m)
              /\ ~nodes[m].fNetworkNode /\ nodes[m].nRefCount >= 1 + Copies(m)
              /\ \A u \in Openers \ {t} : ~Opened(u, m)
        <3>1. Opened(t, m)
            BY <1>1 DEF Opened
        <3> QED
            BY <2>1, <3>1 DEF PInv, RefInv
    <2> HIDE DEF n, o, m
    <2>8. OpenerOK(o, DOMAIN nodes) /\ opener[t].grant
        BY <1>1, <2>1, <2>4 DEF OpenerOK
    <2>9. SlotsTaken' = (SlotsTaken \ {t}) \cup {m} /\ t \in SlotsTaken /\ m # t
        <3>1. {x \in DOMAIN nodes' : nodes'[x].grant}
                = {x \in DOMAIN nodes : nodes[x].grant} \cup {m}
            BY <1>1, <2>1, <2>5, <2>6
        <3>2. {u \in Openers : opener'[u].grant} = {u \in Openers : opener[u].grant} \ {t}
            BY <1>1, <2>3, <2>4
        <3>3. t \notin DOMAIN nodes
            BY Distinct DEF PInv, TypeInv
        <3> QED
            BY <2>1, <2>8, <3>1, <3>2, <3>3 DEF SlotsTaken
    <2>10. m \in SlotsTaken <=> nodes[m].grant
        BY <2>1, Distinct DEF SlotsTaken, PInv, TypeInv
    <2>11. SlotsCounted' /\ sem' \in Int
        <3>1. IsFiniteSet(SlotsTaken) /\ Cardinality(SlotsTaken) \in Nat /\ sem \in Int
            BY SlotsFinite DEF PInv, TypeInv
        <3>2. /\ IsFiniteSet(SlotsTaken \ {t})
              /\ Cardinality(SlotsTaken \ {t}) = Cardinality(SlotsTaken) - 1
            BY <2>9, <3>1, FS_RemoveElement
        <3>3. Cardinality(SlotsTaken') = Cardinality(SlotsTaken) - IF nodes[m].grant THEN 1 ELSE 0
            <4>1. CASE nodes[m].grant
                <5>1. SlotsTaken' = SlotsTaken \ {t}
                    BY <2>9, <2>10, <4>1
                <5> QED
                    BY <3>2, <4>1, <5>1
            <4>2. CASE ~nodes[m].grant
                <5>1. Cardinality(SlotsTaken') = Cardinality(SlotsTaken \ {t}) + 1
                    BY <2>9, <2>10, <3>2, <4>2, FS_AddElement
                <5> QED
                    BY <3>1, <3>2, <4>2, <5>1
            <4> QED
                BY <4>1, <4>2
        <3> QED
            BY <2>2, <3>1, <3>3, PeersAssumption DEF SlotsCounted, PInv
    <2>12. /\ n \in NodeType /\ o \in OpenerType /\ o.node \in {m, NULL} /\ ~n.fInbound
           /\ UNCHANGED <<banned, vOneShots, socket, message>>
           /\ OpenerOK(o, DOMAIN nodes)
        BY <2>2, <2>4, <2>6, <2>7, <2>8
    <2>13. RefsFor(n, m, o, t)
        BY <2>6, <2>7 DEF RefsFor
    <2> QED
        BY <2>1, <2>3, <2>5, <2>11, <2>12, <2>13, OpenerChangesNode
<1> QED
    BY <1>2, <1>3

LEMMA SetNetworkNodePInv ==
    ASSUME PInv, NEW t \in Openers, SetNetworkNode(t)
    PROVE  PInv'
<1> DEFINE m == opener[t].node
           n == [nodes[m] EXCEPT !.fNetworkNode = TRUE, !.fOneShot = @ \/ opener[t].oneShot]
<1>1. /\ opener \in [Openers -> OpenerType] /\ OpenerOK(opener[t], DOMAIN nodes)
      /\ nodes \in [DOMAIN nodes -> NodeType] /\ opener[t].pc = "flag"
    BY DEF PInv, TypeInv, OpenersInv, SetNetworkNode
<1>2. CASE m \in Deleted
    BY <1>1, <1>2, UndefinedPInv DEF SetNetworkNode
<1>3. CASE m \notin Deleted
    <2>1. m \in DOMAIN nodes
        BY <1>1, <1>3 DEF OpenerOK, Deleted
    <2>2. /\ nodes' = [nodes EXCEPT ![m].fNetworkNode = TRUE,
                                    ![m].fOneShot = @ \/ opener[t].oneShot]
          /\ opener' = [opener EXCEPT ![t] = Idle]
          /\ UNCHANGED <<sem, banned, vOneShots, socket, message>>
        BY <1>3 DEF SetNetworkNode
    <2>3. nodes' = [nodes EXCEPT ![m] = n]
        BY <1>1, <2>1, <2>2 DEF NodeType
    <2>4. /\ n \in NodeType /\ n.grant = nodes[m].grant /\ n.fInbound = nodes[m].fInbound
          /\ n.listed = nodes[m].listed /\ n.shared = nodes[m].shared
          /\ n.nRefCount = nodes[m].nRefCount
        <3>1. nodes[m] \in NodeType
            BY <1>1, <2>1
        <3> QED
            BY <3>1 DEF NodeType
    <2>5. /\ ~nodes[m].fInbound
          /\ ~nodes[m].shared =>
              /\ nodes[m].listed => nodes[m].nRefCount = 1 + Copies(m)
              /\ ~nodes[m].listed => nodes[m].nRefCount >= Copies(m)
              /\ ~nodes[m].listed /\ nodes[m].grant => nodes[m].nRefCount >= 1 + Copies(m)
              /\ \A u \in Openers \ {t} : ~Opened(u, m)
        <3>1. Opened(t, m)
            BY <1>1 DEF Opened
        <3> QED
            BY <2>1, <3>1 DEF PInv, RefInv
    <2>6. ~opener[t].grant
        BY <1>1 DEF OpenerOK
    <2> HIDE DEF n, m
    <2>7. OpenerOK(Idle, DOMAIN nodes)
        BY IdleType DEF OpenerOK
    <2>8. SlotsTaken' = SlotsTaken
        <3>1. {x \in DOMAIN nodes' : nodes'[x].grant} = {x \in DOMAIN nodes : nodes[x].grant}
            BY <1>1, <2>1, <2>3, <2>4
        <3>2. {u \in Openers : opener'[u].grant} = {u \in Openers : opener[u].grant}
            BY <1>1, <2>2, <2>6, IdleType
        <3> QED
            BY <3>1, <3>2 DEF SlotsTaken
    <2>9. SlotsCounted' /\ sem' \in Int
        BY <2>2, <2>8 DEF SlotsCounted, PInv, TypeInv
    <2> DEFINE o == Idle
    <2>10. /\ n \in NodeType /\ o \in OpenerType /\ o.node \in {m, NULL} /\ o.node # m
           /\ ~n.fInbound /\ opener' = [opener EXCEPT ![t] = o]
           /\ UNCHANGED <<banned, vOneShots, socket, message>>
           /\ OpenerOK(o, DOMAIN nodes)
        BY <2>1, <2>2, <2>4, <2>5, <2>7, IdleType, NullIsNoPlace
    <2> HIDE DEF o
    <2>11. RefsFor(n, m, o, t)
        BY <2>4, <2>5, <2>10 DEF RefsFor
    <2> QED
        BY <2>1, <2>3, <2>9, <2>10, <2>11, OpenerChangesNode
<1> QED
    BY <1>2, <1>3

LEMMA NewNodeType ==
    ASSUME NEW a \in Addrs, NEW b \in BOOLEAN
    PROVE  /\ NewNode(a, b) \in NodeType /\ ~NewNode(a, b).grant /\ NewNode(a, b).listed
           /\ NewNode(a, b).fInbound = b /\ NewNode(a, b).nRefCount = 1
           /\ ~NewNode(a, b).shared /\ ~NewNode(a, b).fNetworkNode
BY DEF NewNode, NodeType

\* A node that is put at a free place, where no thread has a pointer to.
LEMMA PutNode ==
    ASSUME PInv, NEW m \in Places, m \in Memory, NEW n \in NodeType
    PROVE  /\ DOMAIN Put(m, n) = DOMAIN nodes \cup {m} /\ Put(m, n)[m] = n
           /\ \A x \in DOMAIN nodes : x # m /\ Put(m, n)[x] = nodes[x]
           /\ IsFiniteSet(DOMAIN Put(m, n)) /\ DOMAIN Put(m, n) \subseteq Memory
           /\ Put(m, n) \in [DOMAIN nodes \cup {m} -> NodeType]
           /\ m \notin socket.copy /\ m \notin message.copy
           /\ \A t \in Openers : opener[t].node # m
<1>1. /\ DOMAIN Put(m, n) = DOMAIN nodes \cup {m} /\ Put(m, n)[m] = n
      /\ \A x \in DOMAIN nodes : x # m /\ Put(m, n)[x] = nodes[x]
    BY DEF Put, Places
<1>2. IsFiniteSet(DOMAIN nodes \cup {m})
    BY FS_AddElement DEF PInv, TypeInv
<1>3. Put(m, n) \in [DOMAIN nodes \cup {m} -> NodeType]
    BY DEF PInv, TypeInv, Put
<1>4. m \notin DOMAIN nodes /\ m # Contested /\ m # NULL
    BY Distinct DEF Places
<1>5. m \notin socket.copy /\ m \notin message.copy
    BY <1>4 DEF PInv, CopiesInv
<1>6. \A t \in Openers : opener[t].node # m
    BY <1>4 DEF PInv, TypeInv, OpenersInv, OpenerOK, OpenerType
<1> QED
    BY <1>1, <1>2, <1>3, <1>5, <1>6 DEF PInv, TypeInv

LEMMA ConnectsPInv ==
    ASSUME PInv, NEW t \in Openers, NEW m \in Memory, Connects(t, m)
    PROVE  PInv'
<1> DEFINE o == [opener[t] EXCEPT !.pc = "move", !.node = m]
           n == NewNode(opener[t].addr, FALSE)
<1>1. opener \in [Openers -> OpenerType] /\ OpenerOK(opener[t], DOMAIN nodes)
    BY DEF PInv, TypeInv, OpenersInv
<1>2. /\ opener[t].pc = "connect" /\ m \in Places /\ nodes' = Put(m, n)
      /\ UNCHANGED <<sem, banned, vOneShots, socket, message>>
      /\ opener' = [opener EXCEPT ![t] = o]
    BY <1>1 DEF Connects, OpenerType
<1>3. /\ o \in OpenerType /\ o.node = m /\ o.pc = "move"
      /\ o.addr = opener[t].addr /\ o.grant = opener[t].grant
    <2>1. opener[t] \in OpenerType
        BY <1>1
    <2> QED
        BY <2>1 DEF OpenerType
<1>4. opener[t].addr \in Addrs /\ opener[t].grant
    BY <1>1, <1>2 DEF OpenerOK
<1>5. /\ n \in NodeType /\ ~n.grant /\ n.listed /\ n.fInbound = FALSE /\ n.nRefCount = 1
      /\ ~n.shared /\ ~n.fNetworkNode
    BY <1>4, NewNodeType
<1> HIDE DEF o, n
<1>6. /\ DOMAIN nodes' = DOMAIN nodes \cup {m} /\ nodes'[m] = n
      /\ \A x \in DOMAIN nodes : x # m /\ nodes'[x] = nodes[x]
      /\ IsFiniteSet(DOMAIN nodes') /\ DOMAIN nodes' \subseteq Memory
      /\ nodes' \in [DOMAIN nodes' -> NodeType]
      /\ m \notin socket.copy /\ m \notin message.copy
      /\ \A u \in Openers : opener[u].node # m
    BY <1>2, <1>5, PutNode
<1>7. OpenerOK(o, DOMAIN nodes')
    BY <1>3, <1>4, <1>6 DEF OpenerOK
<1>8. /\ opener' \in [Openers -> OpenerType] /\ OpenersInv' /\ CopiesInv'
      /\ opener'[t] = o /\ \A u \in Openers \ {t} : opener'[u] = opener[u]
    BY <1>2, <1>3, <1>6, <1>7, OpenerSteps
<1>9. TypeInv'
    BY <1>2, <1>6, <1>8 DEF PInv, TypeInv
<1>10. SlotsTaken' = SlotsTaken
    <2>1. {x \in DOMAIN nodes' : nodes'[x].grant} = {x \in DOMAIN nodes : nodes[x].grant}
        BY <1>5, <1>6
    <2>2. {u \in Openers : opener'[u].grant} = {u \in Openers : opener[u].grant}
        BY <1>3, <1>8
    <2> QED
        BY <2>1, <2>2 DEF SlotsTaken
<1>11. SlotsCounted'
    BY <1>2, <1>10 DEF SlotsCounted, PInv
<1>12. RefInv'
    <2>1. RefInv /\ \A x : Copies(x)' = Copies(x)
        BY <1>2 DEF PInv, Copies
    <2>2. Copies(m) = 0
        BY <1>6 DEF Copies
    <2>3. ASSUME NEW x \in DOMAIN nodes
          PROVE  /\ \A u \in Openers : Opened(u, x)' => Opened(u, x)
                 /\ \A u \in Openers : opener'[u].node = x => opener[u].node = x
                 /\ nodes'[x] = nodes[x]
        BY <1>3, <1>6, <1>8 DEF Opened
    <2>4. \A u \in Openers : Opened(u, m)' => u = t
        BY <1>6, <1>8 DEF Opened
    <2> QED
        BY <1>5, <1>6, <2>1, <2>2, <2>3, <2>4 DEF RefInv
<1> QED
    BY <1>8, <1>9, <1>11, <1>12 DEF PInv

-----------------------------------------------------------------------------
\* What the socket thread does to each node when it takes those to disconnect out of
\* vNodes.
LEMMA AfterDisconnectIs ==
    ASSUME TypeInv
    PROVE  /\ DOMAIN AfterDisconnect = DOMAIN nodes
           /\ AfterDisconnect \in [DOMAIN nodes -> NodeType]
           /\ \A m \in DOMAIN nodes :
               LET n == AfterDisconnect[m] IN
               /\ n.shared = nodes[m].shared /\ n.fInbound = nodes[m].fInbound
               /\ n.fNetworkNode = nodes[m].fNetworkNode
               /\ m \notin ToDisconnect => n = nodes[m]
               /\ m \in ToDisconnect =>
                   /\ ~n.listed /\ ~n.grant
                   /\ HasOwnReference(m) => n.nRefCount = nodes[m].nRefCount - 1
                   /\ ~HasOwnReference(m) => n.nRefCount = nodes[m].nRefCount
<1> DEFINE own == {m \in ToDisconnect : HasOwnReference(m)}
<1>1. DOMAIN AfterDisconnect = DOMAIN nodes
    BY DEF AfterDisconnect
<1>2. ASSUME NEW m \in DOMAIN nodes, m \notin ToDisconnect
      PROVE  AfterDisconnect[m] = nodes[m]
    BY <1>2 DEF AfterDisconnect
<1>3. ASSUME NEW m \in DOMAIN nodes, m \in ToDisconnect
      PROVE  LET n == AfterDisconnect[m] IN
             /\ n \in NodeType /\ ~n.listed /\ ~n.grant
             /\ n.shared = nodes[m].shared /\ n.fInbound = nodes[m].fInbound
             /\ n.fNetworkNode = nodes[m].fNetworkNode
             /\ HasOwnReference(m) => n.nRefCount = nodes[m].nRefCount - 1
             /\ ~HasOwnReference(m) => n.nRefCount = nodes[m].nRefCount
    <2> DEFINE r == Releases(nodes, own)[m]
    <2>1. nodes[m] \in NodeType
        BY DEF TypeInv
    <2>2. PICK c \in Int : c = IF HasOwnReference(m) THEN nodes[m].nRefCount - 1
                                                     ELSE nodes[m].nRefCount
        BY <2>1 DEF NodeType
    <2>3. r = [nodes[m] EXCEPT !.nRefCount = c]
        BY <1>3, <2>2 DEF Releases
    <2>4. /\ r \in NodeType /\ r.shared = nodes[m].shared /\ r.fInbound = nodes[m].fInbound
          /\ r.fNetworkNode = nodes[m].fNetworkNode /\ r.nRefCount = c
        BY <2>1, <2>3 DEF NodeType
    <2>5. AfterDisconnect[m] = [r EXCEPT !.listed = FALSE, !.grant = FALSE, !.fDisconnect = TRUE]
        BY <1>3 DEF AfterDisconnect
    <2> HIDE DEF r
    <2>6. LET n == AfterDisconnect[m] IN
             /\ n \in NodeType /\ ~n.listed /\ ~n.grant
             /\ n.shared = r.shared /\ n.fInbound = r.fInbound
             /\ n.fNetworkNode = r.fNetworkNode /\ n.nRefCount = r.nRefCount
        BY <2>4, <2>5 DEF NodeType
    <2> QED
        BY <2>2, <2>4, <2>6
<1>4. \A m \in DOMAIN nodes : AfterDisconnect[m] \in NodeType
    BY <1>2, <1>3 DEF TypeInv
<1>5. AfterDisconnect \in [DOMAIN nodes -> NodeType]
    BY <1>4 DEF AfterDisconnect
<1> QED
    BY <1>1, <1>2, <1>3, <1>5

\* "wait until threads are done using it": a node that is deleted is one that no
\* thread holds, if it was not handed to a second one.
LEMMA DeadAreFree ==
    ASSUME PInv, socket.pc = "disconnect", NEW m \in ToDelete(AfterDisconnect), ~IsContested(m)
    PROVE  m \notin message.copy /\ \A t \in Openers : opener[t].node # m
<1>1. m \in DOMAIN nodes /\ ~AfterDisconnect[m].listed /\ AfterDisconnect[m].nRefCount <= 0
    BY AfterDisconnectIs DEF ToDelete, PInv
<1>2. nodes[m] \in NodeType /\ AfterDisconnect[m] \in NodeType
    BY <1>1, AfterDisconnectIs DEF PInv, TypeInv
<1>3. /\ nodes[m].nRefCount \in Int
      /\ nodes[m].listed \in BOOLEAN /\ nodes[m].fInbound \in BOOLEAN
      /\ Copies(m) \in Nat
    BY <1>2 DEF NodeType, Copies
<1>4. ~nodes[m].shared
    BY DEF IsContested
<1>5. /\ m \notin ToDisconnect => ~nodes[m].listed /\ nodes[m].nRefCount <= 0
      /\ m \in ToDisconnect => nodes[m].listed
      /\ m \in ToDisconnect /\ HasOwnReference(m) => nodes[m].nRefCount <= 1
      /\ m \in ToDisconnect /\ ~HasOwnReference(m) => nodes[m].nRefCount <= 0
    BY <1>1, <1>3, AfterDisconnectIs DEF ToDisconnect, vNodes, PInv
<1>6. /\ nodes[m].listed => nodes[m].nRefCount = 1 + Copies(m)
      /\ ~nodes[m].listed => nodes[m].nRefCount >= Copies(m)
      /\ nodes[m].fInbound => \A t \in Openers : opener[t].node # m
      /\ \A t \in Openers : Opened(t, m) =>
            ~nodes[m].fNetworkNode /\ nodes[m].nRefCount >= 1 + Copies(m)
    BY <1>1, <1>4 DEF PInv, RefInv
<1>7. Copies(m) = 0
    BY <1>3, <1>5, <1>6
<1>8. m \notin message.copy
    BY <1>7 DEF Copies
<1>9. ASSUME NEW t \in Openers, opener[t].node = m PROVE FALSE
    <2>1. m # NULL /\ m # Contested
        BY <1>1, NullIsNoPlace
    <2>2. opener[t].pc \notin {"idle", "find", "connect", "undefined", "read", "write"}
        BY <1>9, <2>1 DEF PInv, OpenersInv, OpenerOK, IsContested
    <2>3. opener[t] \in OpenerType
        BY DEF PInv, TypeInv
    <2>4. Opened(t, m)
        BY <1>9, <2>2, <2>3 DEF Opened, OpenerType
    <2>5. ~HasOwnReference(m)
        BY <1>6, <1>9, <2>4 DEF HasOwnReference
    <2> QED
        BY <1>3, <1>5, <1>6, <1>7, <2>4, <2>5
<1> QED
    BY <1>8, <1>9

LEMMA ForgetIs ==
    ASSUME PInv, socket.pc = "disconnect", NEW p,
           p \in message.copy \/ \E t \in Openers : opener[t].node = p
    PROVE  /\ p \notin ToDelete(AfterDisconnect) => Forget(p, ToDelete(AfterDisconnect)) = p
           /\ p \in ToDelete(AfterDisconnect) =>
                 Forget(p, ToDelete(AfterDisconnect)) = Contested
BY DeadAreFree DEF Forget

LEMMA DisconnectNodesPInv ==
    ASSUME PInv, DisconnectNodes
    PROVE  PInv'
<1> DEFINE dead == ToDelete(AfterDisconnect)
           slots == {m \in ToDisconnect : nodes[m].grant}
                    \cup {m \in dead : AfterDisconnect[m].grant}
<1>1. /\ socket.pc = "disconnect"
      /\ nodes' = Restrict(AfterDisconnect, DOMAIN nodes \ dead)
      /\ sem' = sem + Cardinality(slots)
      /\ opener' = [t \in Openers |-> [opener[t] EXCEPT !.node = Forget(@, dead)]]
      /\ message' = [message EXCEPT !.copy = ForgetAll(@, dead)]
      /\ socket' = [socket EXCEPT !.pc = "accept"]
      /\ UNCHANGED <<banned, vOneShots>>
    BY DEF DisconnectNodes
<1>2. /\ TypeInv /\ OpenersInv /\ CopiesInv /\ RefInv /\ SlotsCounted
      /\ NULL \notin DOMAIN nodes /\ Contested \notin DOMAIN nodes
      /\ Freed \notin DOMAIN nodes
    BY NullIsNoPlace, Distinct DEF PInv, TypeInv
<1>3. dead \subseteq DOMAIN nodes
    BY <1>2, AfterDisconnectIs DEF ToDelete
<1>4. /\ DOMAIN nodes' = DOMAIN nodes \ dead
      /\ \A m \in DOMAIN nodes \ dead : nodes'[m] = AfterDisconnect[m]
    BY <1>1 DEF Restrict
<1>5. nodes' \in [DOMAIN nodes' -> NodeType]
    BY <1>1, <1>2, <1>4, AfterDisconnectIs DEF Restrict
<1>6. ASSUME NEW t \in Openers
      PROVE  /\ opener'[t] \in OpenerType /\ opener'[t].pc = opener[t].pc
             /\ opener'[t].grant = opener[t].grant /\ opener'[t].addr = opener[t].addr
             /\ opener[t].node \in dead => opener'[t].node = Contested
             /\ opener[t].node \notin dead => opener'[t].node = opener[t].node
    <2>1. opener'[t] = [opener[t] EXCEPT !.node = Forget(opener[t].node, dead)]
        BY <1>1
    <2>2. opener[t] \in OpenerType
        BY <1>2 DEF TypeInv
    <2>3. PICK q : q = Forget(opener[t].node, dead)
        OBVIOUS
    <2>4. /\ opener[t].node \in dead => q = Contested
          /\ opener[t].node \notin dead => q = opener[t].node
        BY <1>1, <2>3, ForgetIs
    <2>5. q \in Memory \cup {NULL, Freed, Contested}
        BY <2>2, <2>4 DEF OpenerType
    <2>6. opener'[t] = [opener[t] EXCEPT !.node = q]
        BY <2>1, <2>3
    <2>7. /\ opener'[t] \in OpenerType /\ opener'[t].pc = opener[t].pc /\ opener'[t].node = q
          /\ opener'[t].grant = opener[t].grant /\ opener'[t].addr = opener[t].addr
        BY <2>2, <2>5, <2>6 DEF OpenerType
    <2> QED
        BY <2>4, <2>7
<1>7. opener' \in [Openers -> OpenerType]
    BY <1>1, <1>6
<1>8. /\ message' \in [pc : {"copy", "process", "release", "undefined"},
                       copy : SUBSET (Memory \cup Deleted)]
      /\ message'.pc = message.pc
      /\ message'.copy = {Forget(m, dead) : m \in message.copy}
    <2>1. {Forget(m, dead) : m \in message.copy} \in SUBSET (Memory \cup Deleted)
        BY <1>2 DEF TypeInv, Forget, Deleted
    <2> HIDE DEF dead
    <2>2. message' = [message EXCEPT !.copy = {Forget(m, dead) : m \in message.copy}]
        BY <1>1 DEF ForgetAll
    <2> QED
        BY <1>2, <2>1, <2>2 DEF TypeInv
<1>9. \A x : /\ x \in message'.copy => x = Contested \/ (x \in message.copy /\ x \notin dead)
             /\ x \in message.copy /\ x \notin dead => x \in message'.copy
    BY <1>1, <1>8, ForgetIs
<1>10. /\ socket' \in [pc : {"disconnect", "accept", "service", "undefined"},
                       copy : SUBSET (Memory \cup Deleted)]
       /\ socket'.pc = "accept" /\ socket'.copy = socket.copy /\ socket.copy = {}
    BY <1>1, <1>2 DEF TypeInv, CopiesInv
<1> HIDE DEF dead
<1>11. TypeInv'
    <2>1. IsFiniteSet(DOMAIN nodes') /\ DOMAIN nodes' \subseteq Memory
        BY <1>2, <1>4, FS_Subset DEF TypeInv
    <2>2. sem' \in Int
        <3>1. slots \subseteq DOMAIN nodes
            BY <1>3 DEF ToDisconnect, vNodes
        <3> QED
            BY <1>1, <1>2, <3>1, FS_Subset, FS_CardinalityType DEF TypeInv
    <2>3. banned' \subseteq Addrs /\ vOneShots' \subseteq Addrs
        BY <1>1, <1>2 DEF TypeInv
    <2> QED
        BY <1>5, <1>7, <1>8, <1>10, <2>1, <2>2, <2>3 DEF TypeInv, Deleted
<1>12. OpenersInv'
    <2> SUFFICES ASSUME NEW t \in Openers PROVE OpenerOK(opener'[t], DOMAIN nodes')
        BY DEF OpenersInv
    <2>1. OpenerOK(opener[t], DOMAIN nodes)
        BY <1>2 DEF OpenersInv
    <2> QED
        BY <1>2, <1>3, <1>4, <1>6, <2>1 DEF OpenerOK
<1>13. CopiesInv'
    <2>1. message'.copy \subseteq DOMAIN nodes' \cup {Contested}
        BY <1>2, <1>4, <1>9 DEF CopiesInv
    <2>2. message'.pc = "copy" => message'.copy = {}
        BY <1>2, <1>8 DEF CopiesInv
    <2> QED
        BY <1>10, <2>1, <2>2 DEF CopiesInv
<1>14. SlotsCounted'
    <2>1. SlotsTaken' = SlotsTaken \ slots /\ slots \subseteq SlotsTaken
        <3>1. {u \in Openers : opener'[u].grant} = {u \in Openers : opener[u].grant}
            BY <1>6
        <3>2. {x \in DOMAIN nodes' : nodes'[x].grant} = {x \in DOMAIN nodes : nodes[x].grant} \ slots
            BY <1>2, <1>3, <1>4, AfterDisconnectIs DEF ToDisconnect, vNodes
        <3>3. slots \subseteq {x \in DOMAIN nodes : nodes[x].grant}
            BY <1>2, <1>3, AfterDisconnectIs DEF ToDisconnect, vNodes
        <3>4. slots \cap Openers = {}
            BY <1>2, <3>3, Distinct DEF TypeInv
        <3> QED
            BY <3>1, <3>2, <3>3, <3>4 DEF SlotsTaken
    <2> HIDE DEF slots
    <2>2. IsFiniteSet(SlotsTaken) /\ Cardinality(SlotsTaken) \in Nat
        BY <1>2, SlotsFinite
    <2>3. SlotsTaken \cap slots = slots
        BY <2>1
    <2>4. Cardinality(SlotsTaken') = Cardinality(SlotsTaken) - Cardinality(slots)
        <3>1. Cardinality(SlotsTaken \ slots)
                = Cardinality(SlotsTaken) - Cardinality(SlotsTaken \cap slots)
            BY <2>2, FS_Difference
        <3> QED
            BY <2>1, <2>3, <3>1
    <2>5. Cardinality(slots) \in Nat
        BY <2>1, <2>2, FS_Subset, FS_CardinalityType
    <2> QED
        BY <1>1, <1>2, <2>2, <2>4, <2>5, PeersAssumption DEF SlotsCounted, TypeInv
<1>15. RefInv'
    <2> SUFFICES ASSUME NEW x \in DOMAIN nodes \ dead
                 PROVE  /\ nodes'[x].fInbound =>
                              ~nodes'[x].shared /\ \A u \in Openers : opener'[u].node # x
                        /\ ~nodes'[x].shared =>
                            /\ ~nodes'[x].listed => nodes'[x].nRefCount >= Copies(x)'
                            /\ ~nodes'[x].listed /\ nodes'[x].grant =>
                                  nodes'[x].nRefCount >= 1 + Copies(x)'
                            /\ nodes'[x].listed => nodes'[x].nRefCount = 1 + Copies(x)'
                            /\ ~nodes'[x].listed /\ nodes'[x].fInbound =>
                                  nodes'[x].nRefCount = Copies(x)'
                            /\ \A u \in Openers : Opened(u, x)' =>
                                /\ ~nodes'[x].fNetworkNode
                                /\ nodes'[x].nRefCount >= 1 + Copies(x)'
                                /\ \A v \in Openers : Opened(v, x)' => v = u
        BY <1>4 DEF RefInv
    <2>1. Copies(x)' = Copies(x) /\ Copies(x) \in Nat
        BY <1>2, <1>9, <1>10 DEF Copies
    <2>2. \A u \in Openers : /\ Opened(u, x)' => Opened(u, x)
                             /\ opener'[u].node = x => opener[u].node = x
        BY <1>2, <1>6 DEF Opened
    <2>3. nodes[x] \in NodeType /\ nodes[x].nRefCount \in Int
        BY <1>2 DEF TypeInv, NodeType
    <2>4. CASE x \notin ToDisconnect
        <3>1. nodes'[x] = nodes[x]
            BY <1>2, <1>4, <2>4, AfterDisconnectIs
        <3> QED
            BY <1>2, <2>1, <2>2, <3>1 DEF RefInv
    <2>5. CASE x \in ToDisconnect
        <3>1. /\ nodes[x].listed /\ ~nodes'[x].listed /\ ~nodes'[x].grant
              /\ nodes'[x].shared = nodes[x].shared /\ nodes'[x].fInbound = nodes[x].fInbound
              /\ nodes'[x].fNetworkNode = nodes[x].fNetworkNode
              /\ HasOwnReference(x) => nodes'[x].nRefCount = nodes[x].nRefCount - 1
              /\ ~HasOwnReference(x) => nodes'[x].nRefCount = nodes[x].nRefCount
            BY <1>2, <1>4, <2>5, AfterDisconnectIs DEF ToDisconnect, vNodes
        <3>2. \A u \in Openers : Opened(u, x) => ~nodes[x].fInbound
            BY <1>2 DEF RefInv, Opened
        <3>3. nodes[x].fInbound => HasOwnReference(x)
            BY DEF HasOwnReference
        <3>4. \A u \in Openers : Opened(u, x) /\ ~nodes[x].shared => ~HasOwnReference(x)
            BY <1>2, <3>2 DEF HasOwnReference, RefInv
        <3> QED
            BY <1>2, <2>1, <2>2, <2>3, <3>1, <3>3, <3>4 DEF RefInv
    <2> QED
        BY <2>4, <2>5
<1> QED
    BY <1>11, <1>12, <1>13, <1>14, <1>15 DEF PInv

\* The fields of a node that its count, or its closing, leaves as they were.
SameButCount(n, o) ==
    /\ n.listed = o.listed /\ n.shared = o.shared /\ n.fInbound = o.fInbound
    /\ n.fNetworkNode = o.fNetworkNode /\ n.grant = o.grant

LEMMA CountsAre ==
    ASSUME NEW ns, ns \in [DOMAIN ns -> NodeType], NEW S
    PROVE  /\ DOMAIN AddRefs(ns, S) = DOMAIN ns /\ AddRefs(ns, S) \in [DOMAIN ns -> NodeType]
           /\ DOMAIN Releases(ns, S) = DOMAIN ns /\ Releases(ns, S) \in [DOMAIN ns -> NodeType]
           /\ DOMAIN Close(ns, S) = DOMAIN ns /\ Close(ns, S) \in [DOMAIN ns -> NodeType]
           /\ \A m \in DOMAIN ns :
               /\ SameButCount(AddRefs(ns, S)[m], ns[m])
               /\ AddRefs(ns, S)[m].nRefCount = ns[m].nRefCount + IF m \in S THEN 1 ELSE 0
               /\ SameButCount(Releases(ns, S)[m], ns[m])
               /\ Releases(ns, S)[m].nRefCount = ns[m].nRefCount - IF m \in S THEN 1 ELSE 0
               /\ SameButCount(Close(ns, S)[m], ns[m])
               /\ Close(ns, S)[m].nRefCount = ns[m].nRefCount
<1>1. ASSUME NEW m \in DOMAIN ns
      PROVE  /\ AddRefs(ns, S)[m] \in NodeType
             /\ SameButCount(AddRefs(ns, S)[m], ns[m])
             /\ AddRefs(ns, S)[m].nRefCount = ns[m].nRefCount + IF m \in S THEN 1 ELSE 0
    <2>1. ns[m] \in NodeType
        OBVIOUS
    <2>2. PICK c \in Int : c = IF m \in S THEN ns[m].nRefCount + 1 ELSE ns[m].nRefCount
        BY <2>1 DEF NodeType
    <2>3. AddRefs(ns, S)[m] = [ns[m] EXCEPT !.nRefCount = c]
        BY <2>2 DEF AddRefs
    <2>4. AddRefs(ns, S)[m] \in NodeType /\ SameButCount(AddRefs(ns, S)[m], ns[m])
        BY <2>1, <2>3 DEF NodeType, SameButCount
    <2>5. AddRefs(ns, S)[m].nRefCount = c /\ ns[m].nRefCount \in Int
        BY <2>1, <2>3 DEF NodeType
    <2> QED
        BY <2>2, <2>4, <2>5
<1>2. ASSUME NEW m \in DOMAIN ns
      PROVE  /\ Releases(ns, S)[m] \in NodeType
             /\ SameButCount(Releases(ns, S)[m], ns[m])
             /\ Releases(ns, S)[m].nRefCount = ns[m].nRefCount - IF m \in S THEN 1 ELSE 0
    <2>1. ns[m] \in NodeType
        OBVIOUS
    <2>2. PICK c \in Int : c = IF m \in S THEN ns[m].nRefCount - 1 ELSE ns[m].nRefCount
        BY <2>1 DEF NodeType
    <2>3. Releases(ns, S)[m] = [ns[m] EXCEPT !.nRefCount = c]
        BY <2>2 DEF Releases
    <2>4. Releases(ns, S)[m] \in NodeType /\ SameButCount(Releases(ns, S)[m], ns[m])
        BY <2>1, <2>3 DEF NodeType, SameButCount
    <2>5. Releases(ns, S)[m].nRefCount = c /\ ns[m].nRefCount \in Int
        BY <2>1, <2>3 DEF NodeType
    <2> QED
        BY <2>2, <2>4, <2>5
<1>3. ASSUME NEW m \in DOMAIN ns
      PROVE  /\ Close(ns, S)[m] \in NodeType
             /\ SameButCount(Close(ns, S)[m], ns[m])
             /\ Close(ns, S)[m].nRefCount = ns[m].nRefCount
    <2>1. ns[m] \in NodeType
        OBVIOUS
    <2>2. Close(ns, S)[m] = [ns[m] EXCEPT !.fDisconnect = @ \/ m \in S]
        BY DEF Close
    <2> QED
        BY <2>1, <2>2 DEF NodeType, SameButCount
<1> QED
    BY <1>1, <1>2, <1>3 DEF AddRefs, Releases, Close

\* A step that takes, releases or closes nodes, and may add accepted ones: what it does
\* to the count of each is what it does to the copies that the node is in.
LEMMA CopiesChange ==
    ASSUME PInv, UNCHANGED <<opener, sem, vOneShots>>, banned' \subseteq Addrs,
           DOMAIN nodes \subseteq DOMAIN nodes', DOMAIN nodes' \subseteq Memory,
           IsFiniteSet(DOMAIN nodes'), nodes' \in [DOMAIN nodes' -> NodeType],
           \A m \in DOMAIN nodes :
              /\ SameButCount(nodes'[m], nodes[m])
              /\ nodes'[m].nRefCount = nodes[m].nRefCount + Copies(m)' - Copies(m),
           \A m \in DOMAIN nodes' \ DOMAIN nodes :
              /\ nodes'[m].listed /\ ~nodes'[m].shared /\ ~nodes'[m].grant
              /\ nodes'[m].nRefCount = 1 + Copies(m)'
              /\ \A t \in Openers : opener[t].node # m,
           socket' \in [pc : {"disconnect", "accept", "service", "undefined"},
                        copy : SUBSET (Memory \cup Deleted)],
           message' \in [pc : {"copy", "process", "release", "undefined"},
                         copy : SUBSET (Memory \cup Deleted)],
           CopiesInv'
    PROVE  PInv'
<1>1. TypeInv /\ OpenersInv /\ SlotsCounted /\ RefInv
    BY DEF PInv
<1>2. TypeInv'
    BY <1>1 DEF TypeInv, Deleted
<1>3. OpenersInv'
    BY <1>1 DEF OpenersInv, OpenerOK
<1>4. SlotsTaken' = SlotsTaken
    <2>1. {x \in DOMAIN nodes' : nodes'[x].grant} = {x \in DOMAIN nodes : nodes[x].grant}
        BY DEF SameButCount
    <2> QED
        BY <2>1 DEF SlotsTaken
<1>5. SlotsCounted'
    BY <1>1, <1>4 DEF SlotsCounted
<1>6. \A u, m : Opened(u, m)' <=> Opened(u, m)
    BY DEF Opened
<1>7. \A m : Copies(m) \in Nat /\ Copies(m)' \in Nat
    BY DEF Copies
<1>8. RefInv'
    <2> SUFFICES ASSUME NEW x \in DOMAIN nodes'
                 PROVE  /\ nodes'[x].fInbound =>
                              ~nodes'[x].shared /\ \A u \in Openers : opener[u].node # x
                        /\ ~nodes'[x].shared =>
                            /\ nodes'[x].listed => nodes'[x].nRefCount = 1 + Copies(x)'
                            /\ ~nodes'[x].listed => nodes'[x].nRefCount >= Copies(x)'
                            /\ ~nodes'[x].listed /\ nodes'[x].grant =>
                                  nodes'[x].nRefCount >= 1 + Copies(x)'
                            /\ ~nodes'[x].listed /\ nodes'[x].fInbound =>
                                  nodes'[x].nRefCount = Copies(x)'
                            /\ \A u \in Openers : Opened(u, x) =>
                                /\ ~nodes'[x].fNetworkNode
                                /\ nodes'[x].nRefCount >= 1 + Copies(x)'
                                /\ \A v \in Openers : Opened(v, x) => v = u
        BY <1>6 DEF RefInv
    <2>1. CASE x \in DOMAIN nodes
        <3>1. nodes[x].nRefCount \in Int
            BY <1>1, <2>1 DEF TypeInv, NodeType
        <3> QED
            BY <1>1, <1>7, <2>1, <3>1 DEF RefInv, SameButCount
    <2>2. CASE x \notin DOMAIN nodes
        BY <2>2 DEF Opened
    <2> QED
        BY <2>1, <2>2
<1> QED
    BY <1>2, <1>3, <1>5, <1>8 DEF PInv

LEMMA CopyTypes ==
    ASSUME NEW S, S \subseteq Memory \cup Deleted
    PROVE  /\ \A p \in {"disconnect", "accept", "service", "undefined"} :
                 [pc |-> p, copy |-> S] \in
                    [pc : {"disconnect", "accept", "service", "undefined"},
                     copy : SUBSET (Memory \cup Deleted)]
           /\ \A p \in {"copy", "process", "release", "undefined"} :
                 [pc |-> p, copy |-> S] \in
                    [pc : {"copy", "process", "release", "undefined"},
                     copy : SUBSET (Memory \cup Deleted)]
OBVIOUS

LEMMA AcceptPInv ==
    ASSUME PInv, NEW a \in Addrs, NEW m \in Memory, Accept(a, m)
    PROVE  PInv'
<1> DEFINE n == NewNode(a, TRUE)
           after == Put(m, n)
           S == vNodes \cup {m}
<1>1. /\ socket.pc = "accept" /\ m \in Places /\ nodes' = AddRefs(after, S)
      /\ socket' = [pc |-> "service", copy |-> S]
      /\ UNCHANGED <<sem, banned, vOneShots, opener, message>>
    BY DEF Accept
<1>2. TypeInv /\ CopiesInv /\ socket.copy = {}
    BY <1>1 DEF PInv, CopiesInv
<1>3. /\ n \in NodeType /\ ~n.grant /\ n.listed /\ n.nRefCount = 1 /\ ~n.shared
    BY NewNodeType
<1> HIDE DEF n
<1>4. /\ DOMAIN after = DOMAIN nodes \cup {m} /\ after[m] = n
      /\ \A x \in DOMAIN nodes : x # m /\ after[x] = nodes[x]
      /\ IsFiniteSet(DOMAIN after) /\ DOMAIN after \subseteq Memory
      /\ after \in [DOMAIN nodes \cup {m} -> NodeType]
      /\ m \notin message.copy /\ \A t \in Openers : opener[t].node # m
    BY <1>1, <1>3, PutNode
<1>5. S \subseteq DOMAIN after /\ S \subseteq Memory
    BY <1>4 DEF vNodes
<1> HIDE DEF after, S
<1>6. /\ DOMAIN nodes' = DOMAIN after /\ nodes' \in [DOMAIN after -> NodeType]
      /\ \A x \in DOMAIN after :
           /\ SameButCount(nodes'[x], after[x])
           /\ nodes'[x].nRefCount = after[x].nRefCount + IF x \in S THEN 1 ELSE 0
    <2>1. after \in [DOMAIN after -> NodeType]
        BY <1>4
    <2> QED
        BY <1>1, <2>1, CountsAre
<1>7. socket'.pc = "service" /\ socket'.copy = S
    BY <1>1
<1>8. \A x : /\ x \in DOMAIN nodes => Copies(x)' = Copies(x) + IF x \in S THEN 1 ELSE 0
             /\ x = m => Copies(x)' = 1
    <2>1. m \in S
        BY DEF S
    <2> QED
        BY <1>1, <1>2, <1>4, <1>7, <2>1 DEF Copies
<1>9. \A x \in DOMAIN nodes : /\ nodes[x].nRefCount \in Int /\ Copies(x) \in Nat
    BY <1>2 DEF TypeInv, NodeType, Copies
<1>10. \A x \in DOMAIN nodes :
           /\ SameButCount(nodes'[x], nodes[x])
           /\ nodes'[x].nRefCount = nodes[x].nRefCount + Copies(x)' - Copies(x)
    BY <1>4, <1>6, <1>8, <1>9
<1>11. /\ nodes'[m].listed /\ ~nodes'[m].shared /\ ~nodes'[m].grant
       /\ nodes'[m].nRefCount = 1 + Copies(m)'
    <2>1. m \in S
        BY DEF S
    <2> QED
        BY <1>3, <1>4, <1>6, <1>8, <2>1 DEF SameButCount
<1>12. CopiesInv'
    BY <1>1, <1>2, <1>4, <1>5, <1>6, <1>7 DEF CopiesInv
<1>13. socket' \in [pc : {"disconnect", "accept", "service", "undefined"},
                    copy : SUBSET (Memory \cup Deleted)]
    BY <1>1, <1>5, CopyTypes
<1>14. /\ message' \in [pc : {"copy", "process", "release", "undefined"},
                        copy : SUBSET (Memory \cup Deleted)]
       /\ banned' \subseteq Addrs
    BY <1>1, <1>2 DEF TypeInv, Deleted
<1> QED
    BY <1>1, <1>4, <1>6, <1>10, <1>11, <1>12, <1>13, <1>14, CopiesChange

\* A step that leaves the set of nodes, and the threads that open connections, alone.
LEMMA SameDomain ==
    ASSUME PInv, UNCHANGED <<opener, sem, vOneShots>>, banned' \subseteq Addrs,
           DOMAIN nodes' = DOMAIN nodes, nodes' \in [DOMAIN nodes -> NodeType],
           \A m \in DOMAIN nodes :
              /\ SameButCount(nodes'[m], nodes[m])
              /\ nodes'[m].nRefCount = nodes[m].nRefCount + Copies(m)' - Copies(m),
           socket' \in [pc : {"disconnect", "accept", "service", "undefined"},
                        copy : SUBSET (Memory \cup Deleted)],
           message' \in [pc : {"copy", "process", "release", "undefined"},
                         copy : SUBSET (Memory \cup Deleted)],
           socket'.copy \subseteq DOMAIN nodes \cup {Contested},
           socket'.pc \in {"disconnect", "accept"} => socket'.copy = {},
           message'.copy \subseteq DOMAIN nodes \cup {Contested},
           message'.pc = "copy" => message'.copy = {}
    PROVE  PInv'
<1>1. CopiesInv'
    BY DEF CopiesInv
<1>2. DOMAIN nodes \subseteq Memory /\ IsFiniteSet(DOMAIN nodes)
    BY DEF PInv, TypeInv
<1> QED
    BY <1>1, <1>2, CopiesChange

\* What the steps below use of the invariant.
LEMMA CopiesFacts ==
    ASSUME PInv
    PROVE  /\ nodes \in [DOMAIN nodes -> NodeType]
           /\ vNodes \subseteq DOMAIN nodes /\ DOMAIN nodes \subseteq Memory
           /\ CopiesInv /\ banned \subseteq Addrs
           /\ socket \in [pc : {"disconnect", "accept", "service", "undefined"},
                          copy : SUBSET (Memory \cup Deleted)]
           /\ message \in [pc : {"copy", "process", "release", "undefined"},
                           copy : SUBSET (Memory \cup Deleted)]
           /\ \A m \in DOMAIN nodes : nodes[m].nRefCount \in Int /\ Copies(m) \in Nat
BY DEF PInv, TypeInv, vNodes, NodeType, Copies

LEMMA AcceptsNonePInv == PInv /\ AcceptsNone => PInv'
<1> SUFFICES ASSUME PInv, AcceptsNone PROVE PInv'
    OBVIOUS
<1>1. /\ nodes' = AddRefs(nodes, vNodes) /\ socket' = [pc |-> "service", copy |-> vNodes]
      /\ socket.copy = {} /\ UNCHANGED <<sem, banned, vOneShots, opener, message>>
    BY CopiesFacts DEF AcceptsNone, CopiesInv
<1>2. socket'.pc = "service" /\ socket'.copy = vNodes
    BY <1>1
<1>3. \A m : Copies(m)' = Copies(m) + IF m \in vNodes THEN 1 ELSE 0
    BY <1>1, <1>2 DEF Copies
<1>4. /\ DOMAIN nodes' = DOMAIN nodes /\ nodes' \in [DOMAIN nodes -> NodeType]
      /\ \A m \in DOMAIN nodes :
           /\ SameButCount(nodes'[m], nodes[m])
           /\ nodes'[m].nRefCount = nodes[m].nRefCount + IF m \in vNodes THEN 1 ELSE 0
    BY <1>1, CopiesFacts, CountsAre
<1>5. \A m \in DOMAIN nodes : nodes'[m].nRefCount = nodes[m].nRefCount + Copies(m)' - Copies(m)
    BY <1>3, <1>4, CopiesFacts
<1>6. socket' \in [pc : {"disconnect", "accept", "service", "undefined"},
                   copy : SUBSET (Memory \cup Deleted)]
    BY <1>1, CopyTypes, CopiesFacts
<1> QED
    BY <1>1, <1>2, <1>4, <1>5, <1>6, SameDomain, CopiesFacts DEF CopiesInv

LEMMA ServiceSocketsPInv == PInv /\ ServiceSockets => PInv'
<1> SUFFICES ASSUME PInv, ServiceSockets PROVE PInv'
    OBVIOUS
<1>1. CASE socket.copy \cap Deleted # {}
    <2>1. /\ socket' = [socket EXCEPT !.pc = "undefined"]
          /\ UNCHANGED <<nodes, sem, banned, vOneShots, opener, message>>
        BY <1>1 DEF ServiceSockets
    <2>2. /\ socket' \in [pc : {"disconnect", "accept", "service", "undefined"},
                          copy : SUBSET (Memory \cup Deleted)]
          /\ socket'.pc = "undefined" /\ socket'.copy = socket.copy
        BY <2>1, CopiesFacts
    <2>3. \A m \in DOMAIN nodes :
           /\ SameButCount(nodes'[m], nodes[m])
           /\ nodes'[m].nRefCount = nodes[m].nRefCount + Copies(m)' - Copies(m)
        BY <2>1, <2>2, CopiesFacts DEF Copies, SameButCount
    <2> QED
        BY <2>1, <2>2, <2>3, SameDomain, CopiesFacts DEF CopiesInv
<1>2. CASE socket.copy \cap Deleted = {}
    <2>1. PICK closed : /\ nodes' = Releases(Close(nodes, closed), socket.copy)
                        /\ socket' = [pc |-> "disconnect", copy |-> {}]
                        /\ UNCHANGED <<sem, banned, vOneShots, opener, message>>
        BY <1>2 DEF ServiceSockets
    <2> DEFINE ns == Close(nodes, closed)
    <2>2. /\ DOMAIN ns = DOMAIN nodes /\ ns \in [DOMAIN ns -> NodeType]
          /\ \A m \in DOMAIN nodes : /\ SameButCount(ns[m], nodes[m])
                                     /\ ns[m].nRefCount = nodes[m].nRefCount
        BY CopiesFacts, CountsAre
    <2> HIDE DEF ns
    <2>3. /\ DOMAIN nodes' = DOMAIN ns /\ nodes' \in [DOMAIN ns -> NodeType]
          /\ \A m \in DOMAIN ns :
               /\ SameButCount(nodes'[m], ns[m])
               /\ nodes'[m].nRefCount = ns[m].nRefCount - IF m \in socket.copy THEN 1 ELSE 0
        BY <2>1, <2>2, CountsAre DEF ns
    <2>4. socket'.pc = "disconnect" /\ socket'.copy = {}
        BY <2>1
    <2>5. \A m : Copies(m)' = Copies(m) - IF m \in socket.copy THEN 1 ELSE 0
        BY <2>1, <2>4 DEF Copies
    <2>6. \A m \in DOMAIN nodes :
           /\ SameButCount(nodes'[m], nodes[m])
           /\ nodes'[m].nRefCount = nodes[m].nRefCount + Copies(m)' - Copies(m)
        BY <2>2, <2>3, <2>5, CopiesFacts DEF SameButCount
    <2>7. socket' \in [pc : {"disconnect", "accept", "service", "undefined"},
                       copy : SUBSET (Memory \cup Deleted)]
        BY <2>1, CopyTypes
    <2> QED
        BY <2>1, <2>2, <2>3, <2>4, <2>6, <2>7, SameDomain, CopiesFacts DEF CopiesInv
<1> QED
    BY <1>1, <1>2

LEMMA CopyForMessagesPInv == PInv /\ CopyForMessages => PInv'
<1> SUFFICES ASSUME PInv, CopyForMessages PROVE PInv'
    OBVIOUS
<1>1. /\ nodes' = AddRefs(nodes, vNodes) /\ message' = [pc |-> "process", copy |-> vNodes]
      /\ message.copy = {} /\ UNCHANGED <<sem, banned, vOneShots, opener, socket>>
    BY CopiesFacts DEF CopyForMessages, CopiesInv
<1>2. message'.pc = "process" /\ message'.copy = vNodes
    BY <1>1
<1>3. \A m : Copies(m)' = Copies(m) + IF m \in vNodes THEN 1 ELSE 0
    BY <1>1, <1>2 DEF Copies
<1>4. /\ DOMAIN nodes' = DOMAIN nodes /\ nodes' \in [DOMAIN nodes -> NodeType]
      /\ \A m \in DOMAIN nodes :
           /\ SameButCount(nodes'[m], nodes[m])
           /\ nodes'[m].nRefCount = nodes[m].nRefCount + IF m \in vNodes THEN 1 ELSE 0
    BY <1>1, CopiesFacts, CountsAre
<1>5. \A m \in DOMAIN nodes : nodes'[m].nRefCount = nodes[m].nRefCount + Copies(m)' - Copies(m)
    BY <1>3, <1>4, CopiesFacts
<1>6. message' \in [pc : {"copy", "process", "release", "undefined"},
                    copy : SUBSET (Memory \cup Deleted)]
    BY <1>1, CopyTypes, CopiesFacts
<1> QED
    BY <1>1, <1>2, <1>4, <1>5, <1>6, SameDomain, CopiesFacts DEF CopiesInv

\* The message thread uses a pointer to a node that was deleted.
LEMMA MessageUndefinedPInv ==
    ASSUME PInv, message' = [message EXCEPT !.pc = "undefined"],
           UNCHANGED <<nodes, sem, banned, vOneShots, opener, socket>>
    PROVE  PInv'
<1>1. /\ message' \in [pc : {"copy", "process", "release", "undefined"},
                       copy : SUBSET (Memory \cup Deleted)]
      /\ message'.pc = "undefined" /\ message'.copy = message.copy
    BY CopiesFacts
<1>2. \A m \in DOMAIN nodes :
       /\ SameButCount(nodes'[m], nodes[m])
       /\ nodes'[m].nRefCount = nodes[m].nRefCount + Copies(m)' - Copies(m)
    BY <1>1, CopiesFacts DEF Copies, SameButCount
<1> QED
    BY <1>1, <1>2, SameDomain, CopiesFacts DEF CopiesInv

LEMMA ProcessNodesPInv == PInv /\ ProcessNodes => PInv'
<1> SUFFICES ASSUME PInv, ProcessNodes PROVE PInv'
    OBVIOUS
<1>1. CASE message.copy \cap Deleted # {}
    BY <1>1, MessageUndefinedPInv DEF ProcessNodes
<1>2. CASE message.copy \cap Deleted = {}
    <2>1. PICK bad, done \in SUBSET {m \in message.copy : ~nodes[m].fDisconnect} :
              /\ nodes' = Close(nodes, bad \cup done)
              /\ banned' = banned \cup {nodes[m].addr : m \in bad}
              /\ message' = [message EXCEPT !.pc = "release"]
              /\ UNCHANGED <<sem, vOneShots, opener, socket>>
        BY <1>2 DEF ProcessNodes
    <2>2. /\ DOMAIN nodes' = DOMAIN nodes /\ nodes' \in [DOMAIN nodes -> NodeType]
          /\ \A m \in DOMAIN nodes : /\ SameButCount(nodes'[m], nodes[m])
                                     /\ nodes'[m].nRefCount = nodes[m].nRefCount
        BY <2>1, CopiesFacts, CountsAre
    <2>3. bad \subseteq DOMAIN nodes
        BY <1>2, <2>1, CopiesFacts DEF CopiesInv, Deleted
    <2>4. banned' \subseteq Addrs
        BY <2>1, <2>3, CopiesFacts DEF NodeType
    <2>5. /\ message' \in [pc : {"copy", "process", "release", "undefined"},
                           copy : SUBSET (Memory \cup Deleted)]
          /\ message'.pc = "release" /\ message'.copy = message.copy
        BY <2>1, CopiesFacts
    <2>6. \A m : Copies(m)' = Copies(m)
        BY <2>1, <2>5 DEF Copies
    <2>7. \A m \in DOMAIN nodes : nodes'[m].nRefCount = nodes[m].nRefCount + Copies(m)' - Copies(m)
        BY <2>2, <2>6, CopiesFacts
    <2> QED
        BY <2>1, <2>2, <2>4, <2>5, <2>7, SameDomain, CopiesFacts DEF CopiesInv
<1> QED
    BY <1>1, <1>2

LEMMA ReleaseCopiesPInv == PInv /\ ReleaseCopies => PInv'
<1> SUFFICES ASSUME PInv, ReleaseCopies PROVE PInv'
    OBVIOUS
<1>1. CASE message.copy \cap Deleted # {}
    BY <1>1, MessageUndefinedPInv DEF ReleaseCopies
<1>2. CASE message.copy \cap Deleted = {}
    <2>1. /\ nodes' = Releases(nodes, message.copy)
          /\ message' = [pc |-> "copy", copy |-> {}]
          /\ UNCHANGED <<sem, banned, vOneShots, opener, socket>>
        BY <1>2 DEF ReleaseCopies
    <2>2. /\ DOMAIN nodes' = DOMAIN nodes /\ nodes' \in [DOMAIN nodes -> NodeType]
          /\ \A m \in DOMAIN nodes :
               /\ SameButCount(nodes'[m], nodes[m])
               /\ nodes'[m].nRefCount = nodes[m].nRefCount - IF m \in message.copy THEN 1 ELSE 0
        BY <2>1, CopiesFacts, CountsAre
    <2>3. message'.pc = "copy" /\ message'.copy = {}
        BY <2>1
    <2>4. \A m : Copies(m)' = Copies(m) - IF m \in message.copy THEN 1 ELSE 0
        BY <2>1, <2>3 DEF Copies
    <2>5. \A m \in DOMAIN nodes : nodes'[m].nRefCount = nodes[m].nRefCount + Copies(m)' - Copies(m)
        BY <2>2, <2>4, CopiesFacts
    <2>6. message' \in [pc : {"copy", "process", "release", "undefined"},
                        copy : SUBSET (Memory \cup Deleted)]
        BY <2>1, CopyTypes
    <2> QED
        BY <2>1, <2>2, <2>3, <2>5, <2>6, SameDomain, CopiesFacts DEF CopiesInv
<1> QED
    BY <1>1, <1>2

LEMMA OthersPInv ==
    ASSUME PInv, UNCHANGED <<nodes, sem, vOneShots, opener, socket, message>>,
           banned' \subseteq Addrs
    PROVE  PInv'
BY DEF PInv, TypeInv, OpenersInv, OpenerOK, CopiesInv, SlotsCounted, SlotsTaken, RefInv,
       Copies, Opened

-----------------------------------------------------------------------------

(***************************************************************************)
(* Types, pointers, grants, slots and counts together are an invariant of  *)
(* the threads, whatever the order of their steps.                         *)
(***************************************************************************)
THEOREM PeersInvariance == Spec => []PInv
<1>1. Init => PInv
    BY InitPInv
<1>2. PInv /\ [Next]_vars => PInv'
    <2> SUFFICES ASSUME PInv, [Next]_vars PROVE PInv'
        OBVIOUS
    <2>1. CASE SocketThread
        BY <2>1, DisconnectNodesPInv, AcceptsNonePInv, ServiceSocketsPInv, AcceptPInv
           DEF SocketThread
    <2>2. CASE MessageThread
        BY <2>2, CopyForMessagesPInv, ProcessNodesPInv, ReleaseCopiesPInv DEF MessageThread
    <2>3. ASSUME NEW t \in Openers, OpenerGoesOn(t) PROVE PInv'
        BY <2>3, FindsNonePInv, ReadRefCountPInv, WriteRefCountPInv, CannotConnectPInv,
           MoveGrantPInv, SetNetworkNodePInv, FindsNodePInv, ConnectsPInv DEF OpenerGoesOn
    <2>4. ASSUME NEW t \in Openers, NEW a \in Addrs,
                 OpenNetworkConnection(t, a) \/ ProcessOneShot(t, a)
          PROVE  PInv'
        BY <2>4, OpenNetworkConnectionPInv, ProcessOneShotPInv
    <2>5. ASSUME NEW a \in Addrs, BanEnds(a) PROVE PInv'
        BY <2>5, OthersPInv DEF BanEnds, PInv, TypeInv
    <2>6. CASE UNCHANGED vars
        BY <2>6, OthersPInv DEF vars, PInv, TypeInv
    <2> QED
        BY <2>1, <2>2, <2>3, <2>4, <2>5, <2>6 DEF Next
<1> QED
    BY <1>1, <1>2, PTL DEF Spec

(***************************************************************************)
(* No slot of semOutbound is released twice or taken uncounted: MoveTo, the *)
(* grant's destructor and the release in ThreadSocketHandler keep the free *)
(* slots and those in somebody's hands together at MaxOutbound; and a node *)
(* out of vNodes has one only while a reference to it is still counted     *)
(* that no copy of vNodes accounts for.                                    *)
(***************************************************************************)
THEOREM SlotsAreConserved == Spec => []SlotsConserved
<1>1. PInv => SlotsConserved
    <2> SUFFICES ASSUME PInv, NEW m \in DOMAIN nodes,
                        ~nodes[m].listed, nodes[m].grant, ~nodes[m].shared
                 PROVE  nodes[m].nRefCount > Copies(m)
        BY DEF PInv, SlotsConserved
    <2>1. nodes[m].nRefCount \in Int /\ Copies(m) \in Nat
        BY DEF PInv, TypeInv, NodeType, Copies
    <2> QED
        BY <2>1 DEF PInv, RefInv
<1> QED
    BY <1>1, PeersInvariance, PTL

(***************************************************************************)
(* No thread holds a pointer to a deleted CNode, but for one that          *)
(* ConnectNode took from vNodes without a reference.                       *)
(***************************************************************************)
THEOREM NoFreedNodeIsHeld == Spec => []HeldNodesExist
<1>1. PInv => HeldNodesExist
    <2> SUFFICES ASSUME PInv PROVE HeldNodesExist
        OBVIOUS
    <2>1. Freed \notin DOMAIN nodes /\ Freed # Contested /\ Freed # NULL
        BY Distinct DEF PInv, TypeInv
    <2>2. Freed \notin socket.copy \cup message.copy
        BY <2>1 DEF PInv, CopiesInv
    <2>3. ASSUME NEW t \in Openers PROVE opener[t].node # Freed
        <3>1. opener[t] \in OpenerType /\ OpenerOK(opener[t], DOMAIN nodes)
            BY DEF PInv, TypeInv, OpenersInv
        <3> QED
            BY <2>1, <3>1 DEF OpenerOK, OpenerType
    <2> QED
        BY <2>2, <2>3 DEF HeldNodesExist
<1> QED
    BY <1>1, PeersInvariance, PTL

(***************************************************************************)
(* The count of an accepted node in vNodesDisconnected is the number of    *)
(* copies of vNodes it is in: it is neither deleted under a thread nor     *)
(* kept for ever.                                                          *)
(***************************************************************************)
THEOREM PoolCountsAreRight == Spec => []PoolCountsHolders
<1>1. PInv => PoolCountsHolders
    BY DEF PInv, RefInv, PoolCountsHolders, Copies
<1> QED
    BY <1>1, PeersInvariance, PTL
=============================================================================
