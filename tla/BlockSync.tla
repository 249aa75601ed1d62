-------------------------------- MODULE BlockSync --------------------------------
(***************************************************************************)
(* How nodes tell each other of blocks and fetch them: the version, inv,   *)
(* getblocks, getdata and block messages of ProcessMessage, ProcessGetData *)
(* and SendMessages (main.cpp), with the choice of a node to synchronise   *)
(* with and the requests of net.cpp and net.h.  All nodes run this         *)
(* program.  A node's CNode for a peer also holds the messages that are    *)
(* under way to that peer: Wire shows that they arrive whole and in order. *)
(* A block is valid, and the highest chain has the most work.  Times are   *)
(* in units of the two minutes between requests of the same block.         *)
(***************************************************************************)
EXTENDS BlockTree, Integers, Sequences, SequencesExt, FiniteSets

CONSTANTS
    Nodes,
    Links,          \* who connects to whom
    Flaky,          \* the links that may break
    Tip,            \* best block of each node at start
    Found,          \* who may find which block while the nodes run
    Limit,          \* blocks in the answer to getblocks, 500
    RelayDepth,     \* how far below a peer's height blocks are not relayed to it, 2000
    nBlockEstimate, \* Checkpoints::GetTotalBlocksEstimate()
    MaxBreaks       \* bound

ASSUME BlockSyncAssumption ==
    /\ Links \subseteq Nodes \X Nodes /\ Flaky \subseteq Links
    /\ \A n \in Nodes : <<n, n>> \notin Links     \* "disconnect if we connected to ourself"
    /\ Tip \in [Nodes -> Blocks] /\ Found \subseteq Nodes \X Blocks
    /\ Limit \in Nat \ {0} /\ {RelayDepth, nBlockEstimate, MaxBreaks} \subseteq Nat

VARIABLES
    node,       \* what each node holds
    breaks      \* how many links broke

downloadVars == <<node, breaks>>

\* CNode.  begin and end are pindexLastGetBlocksBegin and hashLastGetBlocksEnd.
Closed ==
    [open |-> FALSE, fInbound |-> FALSE, version |-> FALSE, nStartingHeight |-> -1,
     fStartSync |-> FALSE, begin |-> NoBlock, end |-> NoBlock, hashContinue |-> NoBlock,
     setInventoryKnown |-> {}, vInventoryToSend |-> <<>>, mapAskFor |-> <<>>,
     vRecvGetData |-> <<>>, out |-> <<>>]

VersionMessage(x) == [type |-> "version", height |-> Height[x.pindexBest]]

NewNode(fInbound) == [Closed EXCEPT !.open = TRUE, !.fInbound = fInbound]

Sends(x, m, msg) == [x EXCEPT !.peer[m].out = Append(@, msg)]

StartingNode(n) ==
    LET x == [mapBlockIndex |-> Ancestry[Tip[n]], mapOrphanBlocks |-> {}, pindexBest |-> Tip[n],
              mapAlreadyAskedFor |-> [b \in Blocks |-> -1], pnodeSync |-> n,
              peer |-> [m \in Nodes |-> IF <<n, m>> \in Links THEN NewNode(FALSE)
                                        ELSE IF <<m, n>> \in Links THEN NewNode(TRUE) ELSE Closed]]
    IN  [x EXCEPT !.peer = [m \in Nodes |-> IF x.peer[m].open /\ ~x.peer[m].fInbound
                                            THEN [x.peer[m] EXCEPT !.out = <<VersionMessage(x)>>]
                                            ELSE x.peer[m]]]

DownloadInit == node = [n \in Nodes |-> StartingNode(n)] /\ breaks = 0

\* pnodeSync is NULL when it is the node itself.
NoSync(n) == node[n].pnodeSync = n

Have(x) == x.mapBlockIndex \cup x.mapOrphanBlocks

AlreadyHave(x, b) == b \in Have(x)

Highest(S) == CHOOSE b \in S : \A c \in S : Height[b] >= Height[c]

\* The elements of queue that are not in S, in their order
LeaveOut(queue, S) == FoldLeft(LAMBDA s, b : IF b \in S THEN s ELSE Append(s, b), <<>>, queue)

-----------------------------------------------------------------------------
\* Requests and announcements

PushGetBlocksAnew(x, m, begin, end) ==
    Sends([x EXCEPT !.peer[m].begin = begin, !.peer[m].end = end], m,
          [type |-> "getblocks", begin |-> begin, end |-> end])

\* "Filter out duplicate requests"
PushGetBlocks(x, m, begin, end) ==
    IF x.peer[m].begin = begin /\ x.peer[m].end = end THEN x
    ELSE PushGetBlocksAnew(x, m, begin, end)

\* Of the blocks in q, one after the other
PushInventory(x, m, q) ==
    [x EXCEPT !.peer[m].vInventoryToSend = @ \o LeaveOut(q, x.peer[m].setInventoryKnown)]

\* How many of the requests in mapAskFor, which are in the order of their times, are due
Until(queue, time) == Cardinality({i \in DOMAIN queue : queue[i].time <= time})

\* "Each retry is 2 minutes after the last".  A block that is not in
\* mapAlreadyAskedFor is like one that was asked for long ago.
AskFor(x, m, b) ==
    LET time == x.mapAlreadyAskedFor[b] + 1
        queue == x.peer[m].mapAskFor
    IN  [x EXCEPT !.mapAlreadyAskedFor[b] = time,
                  !.peer[m].mapAskFor =
                      InsertAt(queue, Until(queue, time) + 1, [inv |-> b, time |-> time])]

AddInventoryKnown(x, m, b) == [x EXCEPT !.peer[m].setInventoryKnown = @ \cup {b}]

\* The first block of the chain of orphans that ends in b
GetOrphanRoot(x, b) ==
    CHOOSE r \in Ancestry[b] :
        /\ Parent[r] \notin x.mapOrphanBlocks
        /\ \A c \in Ancestry[b] : Height[c] > Height[r] => Parent[c] \in x.mapOrphanBlocks

-----------------------------------------------------------------------------
\* Blocks

\* "don't relay old inventory during initial block download"
Relays(peer, nBestHeight) ==
    peer.open /\ nBestHeight > IF peer.nStartingHeight # -1 THEN peer.nStartingHeight - RelayDepth
                               ELSE nBlockEstimate

\* AcceptBlock, which tells the peers of a new best block.
AcceptBlockAt(x, b) ==
    LET y == [x EXCEPT !.mapBlockIndex = @ \cup {b}, !.mapOrphanBlocks = @ \ {b}]
    IN  IF Height[b] <= Height[x.pindexBest] THEN y
        ELSE [y EXCEPT !.pindexBest = b,
                       !.peer = [m \in Nodes |->
                            IF Relays(x.peer[m], Height[b])
                            THEN PushInventory(x, m, <<b>>).peer[m] ELSE @[m]]]

\* "Recursively process any orphan blocks that depended on this one"
AcceptWithOrphans(x, b) ==
    MapThenFoldSet(LAMBDA o, y : AcceptBlockAt(y, o), AcceptBlockAt(x, b), LAMBDA o : o, Highest,
        {o \in x.mapOrphanBlocks :
            b \in Ancestry[o] /\ Ancestry[o] \ Ancestry[b] \subseteq x.mapOrphanBlocks})

\* ProcessBlock, of a block that m sent.
ProcessBlock(x, m, b) ==
    IF AlreadyHave(x, b) THEN x
    ELSE LET y == [x EXCEPT !.mapAlreadyAskedFor[b] = -1] IN
         IF Parent[b] \in x.mapBlockIndex THEN AcceptWithOrphans(y, b)
         ELSE LET z == [y EXCEPT !.mapOrphanBlocks = @ \cup {b}]
              IN  PushGetBlocks(z, m, z.pindexBest, GetOrphanRoot(z, b))

-----------------------------------------------------------------------------
\* ProcessMessages: m's next message, when all that it asked for is served.

Receives(n, m, type) ==
    /\ node[n].peer[m].open /\ node[n].peer[m].vRecvGetData = <<>>
    /\ node[m].peer[n].out # <<>>
    /\ Head(node[m].peer[n].out).type = type

Message(n, m) == Head(node[m].peer[n].out)

Becomes(n, m, x) ==
    /\ node' = [node EXCEPT ![n] = x, ![m].peer[n].out = Tail(@)]
    /\ UNCHANGED breaks

\* "Be shy and don't send version until we hear"
ReceiveVersion(n, m) ==
    /\ Receives(n, m, "version")
    /\ LET x == [node[n] EXCEPT !.peer[m].version = TRUE,
                                !.peer[m].nStartingHeight = Message(n, m).height]
       IN  Becomes(n, m, IF x.peer[m].fInbound THEN Sends(x, m, VersionMessage(x)) ELSE x)

\* One inventory item; last says that it is the last one.
TakeInv(x, m, b, last) ==
    LET y == AddInventoryKnown(x, m, b) IN
    IF ~AlreadyHave(y, b) THEN AskFor(y, m, b)
    ELSE IF b \in y.mapOrphanBlocks THEN PushGetBlocks(y, m, y.pindexBest, GetOrphanRoot(y, b))
    ELSE IF last THEN PushGetBlocks(y, m, b, NoBlock)
    ELSE y

ReceiveInv(n, m) ==
    /\ Receives(n, m, "inv")
    /\ LET vInv == Message(n, m).vInv IN
       Becomes(n, m, FoldLeftDomain(LAMBDA x, i : TakeInv(x, m, vInv[i], i = Len(vInv)), node[n], vInv))

\* The blocks of the best chain above the fork and below hashStop, up to Limit.  The
\* locator names all ancestors (every second, fourth, ... one of a long chain).
AfterLocator(best, begin, hashStop) ==
    LET fork == Height[ForkOf(best, begin)]
        stop == IF hashStop \in Ancestry[best] /\ Height[hashStop] > fork
                THEN Height[hashStop] - 1 ELSE Height[best]
    IN  [i \in 1 .. Min({Limit, stop - fork}) |->
            CHOOSE c \in Ancestry[best] : Height[c] = fork + i]

\* "When this block is requested, we'll send an inv that'll make them getblocks
\* the next batch of inventory."
Continuation(answer) == IF Len(answer) >= Limit THEN answer[Limit] ELSE NoBlock

ReceiveGetBlocks(n, m) ==
    /\ Receives(n, m, "getblocks")
    /\ LET msg == Message(n, m)
           answer == AfterLocator(node[n].pindexBest, msg.begin, msg.end)
           x == PushInventory(node[n], m, answer)
       IN  Becomes(n, m, IF Continuation(answer) = NoBlock THEN x
                         ELSE [x EXCEPT !.peer[m].hashContinue = Continuation(answer)])

ReceiveGetData(n, m) ==
    /\ Receives(n, m, "getdata")
    /\ Becomes(n, m, [node[n] EXCEPT !.peer[m].vRecvGetData = Message(n, m).vInv])

ReceiveBlock(n, m) ==
    /\ Receives(n, m, "block")
    /\ LET b == Message(n, m).block IN
       Becomes(n, m, ProcessBlock(AddInventoryKnown(node[n], m, b), m, b))

\* Mutant: no inv for the next batch.
ServeBlock_NoContinue(x, m, b) ==
    IF b \notin x.mapBlockIndex THEN x ELSE Sends(x, m, [type |-> "block", block |-> b])

\* ProcessGetData sends one block each time; "Trigger them to send a getblocks
\* request for the next batch of inventory".
ServeBlock(x, m, b) ==
    LET y == Sends(x, m, [type |-> "block", block |-> b]) IN
    IF b \notin x.mapBlockIndex THEN x
    ELSE IF b # x.peer[m].hashContinue THEN y
    ELSE Sends([y EXCEPT !.peer[m].hashContinue = NoBlock], m,
               [type |-> "inv", vInv |-> <<x.pindexBest>>])

ProcessGetData(n, m) ==
    LET queue == node[n].peer[m].vRecvGetData IN
    /\ queue # <<>>
    /\ node' = [node EXCEPT ![n] = [ServeBlock(node[n], m, Head(queue))
                                    EXCEPT !.peer[m].vRecvGetData = Tail(queue)]]
    /\ UNCHANGED breaks

-----------------------------------------------------------------------------
\* SendMessages

SendGetBlocks(x, m) ==
    IF x.peer[m].fStartSync
    THEN PushGetBlocks([x EXCEPT !.peer[m].fStartSync = FALSE], m, x.pindexBest, NoBlock)
    ELSE x

\* Each block once, and none of those in known
Fresh(queue, known) ==
    FoldLeft(LAMBDA s, b : IF b \in known \/ b \in ToSet(s) THEN s ELSE Append(s, b), <<>>, queue)

SendInventory(x, m) ==
    LET new == Fresh(x.peer[m].vInventoryToSend, x.peer[m].setInventoryKnown)
        y == [x EXCEPT !.peer[m].vInventoryToSend = <<>>,
                       !.peer[m].setInventoryKnown = @ \cup ToSet(new)]
    IN  IF new = <<>> THEN y ELSE Sends(y, m, [type |-> "inv", vInv |-> new])

NotDue_None(asks) == <<>>

\* What stays in mapAskFor for later
NotDue(asks) == SubSeq(asks, Until(asks, 0) + 1, Len(asks))

SendGetData(x, m) ==
    LET asks == x.peer[m].mapAskFor
        want == LeaveOut([i \in 1 .. Until(asks, 0) |-> asks[i].inv], Have(x))
        y == [x EXCEPT !.peer[m].mapAskFor = NotDue(@)]
    IN  IF want = <<>> THEN y ELSE Sends(y, m, [type |-> "getdata", vInv |-> want])

HasToSend(peer) ==
    /\ peer.open /\ peer.version
    /\ \/ peer.fStartSync \/ peer.vInventoryToSend # <<>>
       \/ \E i \in DOMAIN peer.mapAskFor : peer.mapAskFor[i].time <= 0

SendMessages(n, m) ==
    LET x == node[n] IN
    /\ HasToSend(x.peer[m])
    /\ node' = [node EXCEPT ![n] = SendGetData(SendInventory(SendGetBlocks(x, m), m), m)]
    /\ UNCHANGED breaks

\* StartSync takes the one heard from last; 144 is more than these chains are high.
MaySync(n, m) ==
    /\ NoSync(n)
    /\ node[n].peer[m].open /\ node[n].peer[m].version
    /\ node[n].peer[m].nStartingHeight > Height[node[n].pindexBest] - 144

StartSync(n, m) ==
    /\ MaySync(n, m)
    /\ node' = [node EXCEPT ![n].pnodeSync = m, ![n].peer[m].fStartSync = TRUE]
    /\ UNCHANGED breaks

-----------------------------------------------------------------------------
\* The link breaks and both ends delete their CNode.
SyncAfterBreak(n, m) == IF node[n].pnodeSync = m THEN n ELSE node[n].pnodeSync

Break(n, m) ==
    /\ <<n, m>> \in Flaky /\ node[n].peer[m].open /\ breaks < MaxBreaks
    /\ node' = [node EXCEPT ![n].peer[m] = Closed, ![m].peer[n] = Closed,
                            ![n].pnodeSync = SyncAfterBreak(n, m),
                            ![m].pnodeSync = SyncAfterBreak(m, n)]
    /\ breaks' = breaks + 1

\* ProcessBlock of a block of its own
FindBlock(n, b) ==
    /\ <<n, b>> \in Found /\ Parent[b] = node[n].pindexBest
    /\ \A m \in Nodes : ~AlreadyHave(node[m], b)
    /\ node' = [node EXCEPT ![n] = AcceptWithOrphans(@, b)]
    /\ UNCHANGED breaks

Earlier(time, least) == IF time > least THEN time - 1 ELSE least

Later(asks) == [i \in DOMAIN asks |-> [asks[i] EXCEPT !.time = Earlier(@, 0)]]

TimePasses ==
    /\ node' = [n \in Nodes |->
         [node[n] EXCEPT !.mapAlreadyAskedFor = [b \in Blocks |-> Earlier(@[b], -1)],
                         !.peer = [m \in Nodes |->
                             [@[m] EXCEPT !.mapAskFor = Later(node[n].peer[m].mapAskFor)]]]]
    /\ UNCHANGED breaks

\* What ThreadMessageHandler does for one node of vNodes
MessageThread(n, m) ==
    \/ ReceiveVersion(n, m) \/ ReceiveInv(n, m) \/ ReceiveGetBlocks(n, m)
    \/ ReceiveGetData(n, m) \/ ReceiveBlock(n, m) \/ ProcessGetData(n, m)
    \/ SendMessages(n, m) \/ StartSync(n, m)

Linked == Links \cup {<<l[2], l[1]>> : l \in Links}

DownloadNext ==
    \/ \E l \in Linked : MessageThread(l[1], l[2]) \/ Break(l[1], l[2])
    \/ \E n \in Nodes, b \in Blocks : FindBlock(n, b)
    \/ TimePasses

\* MessageThread(n, m) has something to do: its guards.
Busy(n, m) ==
    \/ node[n].peer[m].vRecvGetData # <<>>
    \/ node[n].peer[m].open /\ node[m].peer[n].out # <<>>
    \/ HasToSend(node[n].peer[m])
    \/ MaySync(n, m)

\* ThreadMessageHandler does not stop while a node has something to do: weak fairness, with
\* Busy for what ENABLED says, which is slow to evaluate.
Fairness ==
    /\ \/ []<>(\A l \in Linked : ~Busy(l[1], l[2]))
       \/ []<><<\E l \in Linked : MessageThread(l[1], l[2])>>_downloadVars
    /\ WF_downloadVars(TimePasses)

DownloadSpec == DownloadInit /\ [][DownloadNext]_downloadVars /\ Fairness

-----------------------------------------------------------------------------
\* The blocks in a message of a type, and in all that are under way
Load(msg, type) ==
    IF msg.type # type THEN {} ELSE IF type = "block" THEN {msg.block} ELSE ToSet(msg.vInv)

Carried(out, type) == UNION {Load(out[i], type) : i \in DOMAIN out}

\* Those under way from m to n
UnderWay(m, n, type) == Carried(node[m].peer[n].out, type)

(***************************************************************************)
(* A node announces a block to a peer once.  The peer has the block then,  *)
(* or it is still going to ask for it, or it asked and the block is under  *)
(* way - so that none is left out for good, whichever announcements,       *)
(* requests and retries of the other peers come in between.                *)
(***************************************************************************)
AnnouncedIsNotForgotten ==
    \A n, m \in Nodes :
        node[m].peer[n].open =>
            node[m].peer[n].setInventoryKnown \subseteq
                Have(node[n]) \cup UnderWay(m, n, "inv") \cup UnderWay(n, m, "getdata") \cup UnderWay(m, n, "block")
                \cup ToSet(node[m].peer[n].vRecvGetData)
                \cup {ask.inv : ask \in ToSet(node[n].peer[m].mapAskFor)}

(***************************************************************************)
(* Nodes that stay connected end with the same best height, in batches of  *)
(* Limit blocks, although the node that one of them synchronises with may  *)
(* go away between any two messages, and blocks are found meanwhile.       *)
(***************************************************************************)
Synced ==
    \A l \in Linked :
        node[l[1]].peer[l[2]].open =>
            Height[node[l[1]].pindexBest] = Height[node[l[2]].pindexBest]
EventuallySynced == <>[]Synced
=============================================================================
