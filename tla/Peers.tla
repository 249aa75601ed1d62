--------------------------------- MODULE Peers ---------------------------------
(***************************************************************************)
(* The connections of a node and the threads that share them (net.cpp).    *)
(* A CNode is an object at a place in memory; vNodes, vNodesDisconnected   *)
(* and every thread hold pointers to it.  The socket thread accepts,       *)
(* closes and deletes; the message thread handles messages; two threads    *)
(* open connections, each of which takes a slot of semOutbound.  What runs *)
(* under cs_vNodes is one step; what touches a CNode without it is a step  *)
(* of its own, the increment of nRefCount in ConnectNode two.  Places are  *)
(* used again after a deletion.                                            *)
(***************************************************************************)
EXTENDS Integers, FiniteSets, Functions

CONSTANTS
    Memory,         \* places for CNode objects
    Addrs,          \* addresses of peers
    Openers,        \* threads "opencon" and "addcon"
    Candidates,     \* what each of them may connect to
    Seeds,          \* vOneShots at start
    MaxOutbound,    \* value of semOutbound at start
    MaxInbound,     \* nMaxConnections - MAX_OUTBOUND_CONNECTIONS
    NULL,
    Freed,          \* a pointer to an object that was deleted
    Contested       \* one that ConnectNode had handed to a second thread

ASSUME PeersAssumption ==
    /\ {NULL, Freed, Contested} \cap Memory = {} /\ Cardinality({NULL, Freed, Contested}) = 3
    /\ Memory \cap Openers = {}
    /\ Openers \subseteq {"opencon", "addcon"} /\ Candidates \in [Openers -> SUBSET Addrs]
    /\ Seeds \subseteq Addrs /\ MaxOutbound \in Nat /\ MaxInbound \in Nat

VARIABLES
    nodes,      \* the objects that exist, by place
    sem,        \* value of semOutbound
    banned,     \* setBanned, of the bans that have not run out
    vOneShots,
    opener,     \* per opening thread: where it is, its grant, its pointer
    socket, message     \* the other threads: where they are, vNodesCopy

vars == <<nodes, sem, banned, vOneShots, opener, socket, message>>

Idle == [pc |-> "idle", grant |-> FALSE, addr |-> NULL, oneShot |-> FALSE,
         node |-> NULL, read |-> 0]

Init ==
    /\ nodes = <<>> /\ sem = MaxOutbound /\ banned = {}
    /\ vOneShots = Seeds
    /\ opener = [t \in Openers |-> Idle]
    /\ socket = [pc |-> "disconnect", copy |-> {}]
    /\ message = [pc |-> "copy", copy |-> {}]

vNodes == {m \in DOMAIN nodes : nodes[m].listed}

\* CNode::CNode, and the AddRef of the one that made it.  shared, which the code
\* does not have, is set when ConnectNode hands the object to a second thread.
NewNode(a, fInbound) ==
    [addr |-> a, fInbound |-> fInbound, listed |-> TRUE, nRefCount |-> 1, grant |-> FALSE,
     fNetworkNode |-> FALSE, fOneShot |-> FALSE, fDisconnect |-> FALSE,
     shared |-> FALSE]

Deleted == {Freed, Contested}

Put(m, node) == [x \in DOMAIN nodes \cup {m} |-> IF x = m THEN node ELSE nodes[x]]

Places == Memory \ DOMAIN nodes

AddRefs(ns, S) == [m \in DOMAIN ns |-> [ns[m] EXCEPT !.nRefCount = IF m \in S THEN @ + 1 ELSE @]]

Releases(ns, S) == [m \in DOMAIN ns |-> [ns[m] EXCEPT !.nRefCount = IF m \in S THEN @ - 1 ELSE @]]

\* CNode::CloseSocketDisconnect of the nodes of S.
Close(ns, S) == [m \in DOMAIN ns |-> [ns[m] EXCEPT !.fDisconnect = @ \/ m \in S]]

\* A thread used a pointer to an object that was deleted: it does no more.
Undefined ==
    \/ \E t \in Openers : opener[t].pc = "undefined"
    \/ socket.pc = "undefined" \/ message.pc = "undefined"

-----------------------------------------------------------------------------
\* The threads that open connections

HasNode(a) == \E m \in vNodes : nodes[m].addr = a

HasNamed(a) == \E m \in vNodes : nodes[m].addr = a /\ nodes[m].fOneShot

\* ThreadOpenConnections and ThreadOpenAddedConnections: a slot, an address, and
\* the checks at the start of OpenNetworkConnection.  When one of those fails
\* the grant's destructor gives the slot back and nothing has changed.
OpenNetworkConnection(t, a) ==
    /\ opener[t].pc = "idle" /\ sem > 0
    /\ a \in Candidates[t] /\ ~HasNode(a) /\ a \notin banned
    /\ sem' = sem - 1
    /\ opener' = [opener EXCEPT ![t] = [Idle EXCEPT !.pc = "find", !.grant = TRUE, !.addr = a]]
    /\ UNCHANGED <<nodes, banned, vOneShots, socket, message>>

\* Without a slot the destination is taken from the list all the same.
ProcessOneShot(t, a) ==
    /\ t = "opencon" /\ opener[t].pc = "idle" /\ a \in vOneShots
    /\ sem > 0 => ~HasNamed(a)
    /\ vOneShots' = vOneShots \ {a}
    /\ IF sem > 0
       THEN /\ sem' = sem - 1
            /\ opener' = [opener EXCEPT ![t] = [Idle EXCEPT !.pc = "connect", !.grant = TRUE,
                                                            !.addr = a, !.oneShot = TRUE]]
       ELSE UNCHANGED <<sem, opener>>
    /\ UNCHANGED <<nodes, banned, socket, message>>

\* ConnectNode: "Look for an existing connection"; an accepted one has another port.
FindsNode(t, m) ==
    /\ opener[t].pc = "find"
    /\ m \in vNodes /\ nodes[m].addr = opener[t].addr /\ ~nodes[m].fInbound
    /\ opener' = [opener EXCEPT ![t].pc = "read", ![t].node = m]
    /\ UNCHANGED <<nodes, sem, banned, vOneShots, socket, message>>

FindsNone(t) ==
    /\ opener[t].pc = "find"
    /\ \A m \in vNodes : nodes[m].addr = opener[t].addr => nodes[m].fInbound
    /\ opener' = [opener EXCEPT ![t].pc = "connect"]
    /\ UNCHANGED <<nodes, sem, banned, vOneShots, socket, message>>

\* nRefCount++ in two steps.
ReadRefCount(t) ==
    LET m == opener[t].node IN
    /\ opener[t].pc = "read"
    /\ opener' = IF m \in Deleted THEN [opener EXCEPT ![t].pc = "undefined"]
                 ELSE [opener EXCEPT ![t].pc = "write", ![t].read = nodes[m].nRefCount]
    /\ UNCHANGED <<nodes, sem, banned, vOneShots, socket, message>>

WriteRefCount(t) ==
    LET m == opener[t].node IN
    /\ opener[t].pc = "write"
    /\ IF m \in Deleted
       THEN opener' = [opener EXCEPT ![t].pc = "undefined"] /\ UNCHANGED nodes
       ELSE /\ nodes' = [nodes EXCEPT ![m].nRefCount = opener[t].read + 1, ![m].shared = TRUE]
            /\ opener' = [opener EXCEPT ![t].pc = "move", ![t].read = 0]
    /\ UNCHANGED <<sem, banned, vOneShots, socket, message>>

Connects(t, m) ==
    /\ opener[t].pc = "connect" /\ m \in Places
    /\ nodes' = Put(m, NewNode(opener[t].addr, FALSE))
    /\ opener' = [opener EXCEPT ![t].pc = "move", ![t].node = m]
    /\ UNCHANGED <<sem, banned, vOneShots, socket, message>>

CannotConnect(t) ==
    /\ opener[t].pc = "connect"
    /\ sem' = sem + 1
    /\ vOneShots' = vOneShots \cup (IF opener[t].oneShot THEN {opener[t].addr} ELSE {})
    /\ opener' = [opener EXCEPT ![t] = Idle]
    /\ UNCHANGED <<nodes, banned, socket, message>>

\* grantOutbound->MoveTo(pnode->grantOutbound)
SlotsAfterMove_NoRelease(m) == sem

SlotsAfterMove(m) == IF nodes[m].grant THEN sem + 1 ELSE sem

MoveGrant(t) ==
    LET m == opener[t].node IN
    /\ opener[t].pc = "move"
    /\ IF m \in Deleted
       THEN opener' = [opener EXCEPT ![t].pc = "undefined"] /\ UNCHANGED <<nodes, sem>>
       ELSE /\ nodes' = [nodes EXCEPT ![m].grant = TRUE]
            /\ sem' = SlotsAfterMove(m)
            /\ opener' = [opener EXCEPT ![t].pc = "flag", ![t].grant = FALSE]
    /\ UNCHANGED <<banned, vOneShots, socket, message>>

SetNetworkNode(t) ==
    LET m == opener[t].node IN
    /\ opener[t].pc = "flag"
    /\ IF m \in Deleted
       THEN opener' = [opener EXCEPT ![t].pc = "undefined"] /\ UNCHANGED nodes
       ELSE /\ nodes' = [nodes EXCEPT ![m].fNetworkNode = TRUE,
                                      ![m].fOneShot = @ \/ opener[t].oneShot]
            /\ opener' = [opener EXCEPT ![t] = Idle]
    /\ UNCHANGED <<sem, banned, vOneShots, socket, message>>

-----------------------------------------------------------------------------
\* ThreadSocketHandler

\* "Disconnect unused nodes": buffers are empty when no one refers to a node.
ToDisconnect == {m \in vNodes : nodes[m].fDisconnect \/ nodes[m].nRefCount <= 0}

\* fNetworkNode || fInbound
HasOwnReference_Outbound(m) == nodes[m].fNetworkNode

HasOwnReference(m) == nodes[m].fNetworkNode \/ nodes[m].fInbound

AfterDisconnect ==
    LET own == {m \in ToDisconnect : HasOwnReference(m)}
    IN  [m \in DOMAIN nodes |->
            IF m \in ToDisconnect
            THEN [Releases(nodes, own)[m] EXCEPT !.listed = FALSE, !.grant = FALSE,
                                                 !.fDisconnect = TRUE]
            ELSE nodes[m]]

\* "wait until threads are done using it"
ToDelete_Unlisted(ns) == {m \in DOMAIN ns : ~ns[m].listed}

ToDelete(ns) == {m \in DOMAIN ns : ~ns[m].listed /\ ns[m].nRefCount <= 0}

IsContested(m) ==
    nodes[m].shared \/ \E t \in Openers : opener[t].pc \in {"read", "write"} /\ opener[t].node = m

Forget(p, dead) == IF p \notin dead THEN p ELSE IF IsContested(p) THEN Contested ELSE Freed

ForgetAll(S, dead) == {Forget(m, dead) : m \in S}

DisconnectNodes ==
    LET dead == ToDelete(AfterDisconnect)
        slots == {m \in ToDisconnect : nodes[m].grant}
                 \cup {m \in dead : AfterDisconnect[m].grant}   \* ~CSemaphoreGrant
    IN  /\ socket.pc = "disconnect"
        /\ nodes' = Restrict(AfterDisconnect, DOMAIN nodes \ dead)
        /\ sem' = sem + Cardinality(slots)
        /\ opener' = [t \in Openers |-> [opener[t] EXCEPT !.node = Forget(@, dead)]]
        /\ message' = [message EXCEPT !.copy = ForgetAll(@, dead)]
        /\ socket' = [socket EXCEPT !.pc = "accept"]
        /\ UNCHANGED <<banned, vOneShots>>

NumInbound == Cardinality({m \in vNodes : nodes[m].fInbound})

MayAccept(a) == NumInbound < MaxInbound /\ a \notin banned

\* "Accept new connections", and vNodesCopy with a reference to each: a node
\* that is pushed between the two is as good as one pushed before both.
Accept(a, m) ==
    LET after == Put(m, NewNode(a, TRUE)) IN
    /\ socket.pc = "accept" /\ MayAccept(a) /\ m \in Places
    /\ nodes' = AddRefs(after, vNodes \cup {m})
    /\ socket' = [pc |-> "service", copy |-> vNodes \cup {m}]
    /\ UNCHANGED <<sem, banned, vOneShots, opener, message>>

AcceptsNone ==
    /\ socket.pc = "accept"
    /\ nodes' = AddRefs(nodes, vNodes)
    /\ socket' = [pc |-> "service", copy |-> vNodes]
    /\ UNCHANGED <<sem, banned, vOneShots, opener, message>>

\* "Service each socket": closed are those whose peer went away, sent what is no
\* message or was silent for too long.
ServiceSockets ==
    /\ socket.pc = "service"
    /\ IF socket.copy \cap Deleted # {}
       THEN socket' = [socket EXCEPT !.pc = "undefined"] /\ UNCHANGED nodes
       ELSE \E closed \in SUBSET socket.copy :
              /\ nodes' = Releases(Close(nodes, closed), socket.copy)
              /\ socket' = [pc |-> "disconnect", copy |-> {}]
    /\ UNCHANGED <<sem, banned, vOneShots, opener, message>>

-----------------------------------------------------------------------------
\* ThreadMessageHandler

CopyForMessages ==
    /\ message.pc = "copy"
    /\ nodes' = AddRefs(nodes, vNodes)
    /\ message' = [pc |-> "process", copy |-> vNodes]
    /\ UNCHANGED <<sem, banned, vOneShots, opener, socket>>

\* ProcessMessages and SendMessages of every node: bad misbehaved to the ban
\* score, done are closed for another reason.
ProcessNodes ==
    /\ message.pc = "process"
    /\ IF message.copy \cap Deleted # {}
       THEN message' = [message EXCEPT !.pc = "undefined"] /\ UNCHANGED <<nodes, banned>>
       ELSE \E bad, done \in SUBSET {m \in message.copy : ~nodes[m].fDisconnect} :
              /\ bad \cap done = {}
              /\ nodes' = Close(nodes, bad \cup done)
              /\ banned' = banned \cup {nodes[m].addr : m \in bad}
              /\ message' = [message EXCEPT !.pc = "release"]
    /\ UNCHANGED <<sem, vOneShots, opener, socket>>

ReleaseCopies ==
    /\ message.pc = "release"
    /\ IF message.copy \cap Deleted # {}
       THEN message' = [message EXCEPT !.pc = "undefined"] /\ UNCHANGED nodes
       ELSE /\ nodes' = Releases(nodes, message.copy)
            /\ message' = [pc |-> "copy", copy |-> {}]
    /\ UNCHANGED <<sem, banned, vOneShots, opener, socket>>

\* -bantime has passed
BanEnds(a) ==
    /\ a \in banned /\ banned' = banned \ {a}
    /\ UNCHANGED <<nodes, sem, vOneShots, opener, socket, message>>

-----------------------------------------------------------------------------
SocketThread ==
    \/ DisconnectNodes \/ AcceptsNone \/ ServiceSockets
    \/ \E a \in Addrs, m \in Memory : Accept(a, m)

MessageThread == CopyForMessages \/ ProcessNodes \/ ReleaseCopies

OpenerGoesOn(t) ==
    \/ FindsNone(t) \/ ReadRefCount(t) \/ WriteRefCount(t) \/ CannotConnect(t)
    \/ MoveGrant(t) \/ SetNetworkNode(t)
    \/ \E m \in Memory : FindsNode(t, m) \/ Connects(t, m)

Next ==
    \/ SocketThread \/ MessageThread
    \/ \E t \in Openers : OpenerGoesOn(t)
    \/ \E t \in Openers, a \in Addrs : OpenNetworkConnection(t, a) \/ ProcessOneShot(t, a)
    \/ \E a \in Addrs : BanEnds(a)
    \/ Undefined /\ UNCHANGED vars

Spec == Init /\ [][Next]_vars

-----------------------------------------------------------------------------
SlotsTaken ==
    {m \in DOMAIN nodes : nodes[m].grant} \cup {t \in Openers : opener[t].grant}

\* The references that the two copies of vNodes hold
Copies(m) ==
    (IF m \in socket.copy THEN 1 ELSE 0) + (IF m \in message.copy THEN 1 ELSE 0)

SlotsCounted == sem + Cardinality(SlotsTaken) = MaxOutbound

(***************************************************************************)
(* "release outbound grant (if any)": no slot is released twice or taken   *)
(* without being counted, whoever connects to the same address at the same *)
(* time and whenever nodes go away; and a node that left vNodes still has  *)
(* one only while it has a reference beside those of the copies - unless   *)
(* ConnectNode gave it to a second thread.  So a slot comes back when the  *)
(* references do.  Those of a node that the socket thread closes before    *)
(* its maker has set fNetworkNode do not: README, section 5.               *)
(***************************************************************************)
SlotsConserved ==
    /\ SlotsCounted
    /\ \A m \in DOMAIN nodes :
        ~nodes[m].listed /\ nodes[m].grant /\ ~nodes[m].shared => nodes[m].nRefCount > Copies(m)

(***************************************************************************)
(* "wait until threads are done using it": no thread holds a pointer to a  *)
(* node that was deleted, whenever it is closed and by whom - unless       *)
(* ConnectNode gave it to a second thread, which takes it without a        *)
(* reference and raises the count without the lock.                        *)
(***************************************************************************)
HeldNodesExist ==
    /\ Freed \notin socket.copy \cup message.copy
    /\ \A t \in Openers : opener[t].node # Freed

(***************************************************************************)
(* "hold in disconnected pool until all refs are released": the count of   *)
(* an accepted node in the pool is the number of threads that still hold   *)
(* it, so that it is deleted when they are done and not before.  It does   *)
(* not hold of the nodes that keep their maker's reference (SlotsConserved). *)
(***************************************************************************)
PoolCountsHolders ==
    \A m \in DOMAIN nodes :
        ~nodes[m].listed /\ nodes[m].fInbound
        => nodes[m].nRefCount = Copies(m)
=============================================================================
