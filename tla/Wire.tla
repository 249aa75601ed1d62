---------------------------------- MODULE Wire ----------------------------------
(***************************************************************************)
(* One connection between two nodes that both run this program: how        *)
(* messages are written to the socket, cut into pieces by the kernel and   *)
(* put together again (net.h, net.cpp, ProcessMessages in main.cpp).  A    *)
(* message is a sequence of units, the first HeaderSize of which are its   *)
(* header; a unit knows its message and its place in it.                   *)
(***************************************************************************)
EXTENDS Integers, Sequences, SequencesExt

CONSTANTS
    HeaderSize,         \* 24 bytes in the code
    Payloads,           \* sizes of messages' data
    Capacity,           \* what the kernels hold in one direction
    SendBufferSize, ReceiveFloodSize,
    MaxMessages         \* bound: messages that an end sends

ASSUME WireAssumption ==
    /\ {HeaderSize, Capacity, SendBufferSize} \subseteq Nat \ {0}
    /\ Payloads \subseteq Nat /\ {ReceiveFloodSize, MaxMessages} \subseteq Nat

VARIABLES
    ends,       \* the CNode at each end
    link,       \* what is under way from each end
    fDisconnect

vars == <<ends, link, fDisconnect>>

Ends == {"A", "B"}

Other(e) == IF e = "A" THEN "B" ELSE "A"

\* sent and processed are what the properties compare.
NewEnd ==
    [vSendMsg |-> <<>>, nSendOffset |-> 0, nSendSize |-> 0, vRecvMsg |-> <<>>,
     sent |-> <<>>, processed |-> <<>>]

Init ==
    /\ ends = [e \in Ends |-> NewEnd]
    /\ link = [e \in Ends |-> <<>>]
    /\ fDisconnect = FALSE

\* BeginMessage to EndMessage
Message(id, size) == [i \in 1 .. HeaderSize + size |-> [id |-> id, size |-> size, at |-> i]]

TotalLength(msgs) ==
    LET total[i \in 0 .. Len(msgs)] == IF i = 0 THEN 0 ELSE total[i - 1] + Len(msgs[i])
    IN  total[Len(msgs)]

-----------------------------------------------------------------------------
\* SocketSendData: the kernel takes n units of what the end x has to send.

Sendable(x, free) ==
    LET left == TotalLength(x.vSendMsg) - x.nSendOffset IN IF left < free THEN left ELSE free

\* How many messages are out when all up to the position p is.
WholeMessages(msgs, p) ==
    CHOOSE k \in 0 .. Len(msgs) :
        /\ TotalLength(SubSeq(msgs, 1, k)) <= p
        /\ k < Len(msgs) => TotalLength(SubSeq(msgs, 1, k + 1)) > p

SocketSendData_KeepsOffset(x, n) ==
    LET k == WholeMessages(x.vSendMsg, x.nSendOffset + n)
        done == TotalLength(SubSeq(x.vSendMsg, 1, k))
    IN  [x EXCEPT !.vSendMsg = SubSeq(@, k + 1, Len(@)), !.nSendSize = @ - done,
                  !.nSendOffset = IF k = 0 THEN @ + n ELSE 0]

SocketSendData_LastOnly(x, n) ==
    LET k == WholeMessages(x.vSendMsg, x.nSendOffset + n)
        done == TotalLength(SubSeq(x.vSendMsg, 1, k))
    IN  [x EXCEPT !.vSendMsg = SubSeq(@, k + 1, Len(@)), !.nSendOffset = @ + n - done,
                  !.nSendSize = IF k = 0 THEN @ ELSE @ - Len(x.vSendMsg[k])]

SocketSendData(x, n) ==
    LET k == WholeMessages(x.vSendMsg, x.nSendOffset + n)
        done == TotalLength(SubSeq(x.vSendMsg, 1, k))
    IN  [x EXCEPT !.vSendMsg = SubSeq(@, k + 1, Len(@)), !.nSendSize = @ - done,
                  !.nSendOffset = @ + n - done]

UnitsSent(x, n) == SubSeq(FlattenSeq(x.vSendMsg), x.nSendOffset + 1, x.nSendOffset + n)

\* CNode::EndMessage: "If write queue empty, attempt 'optimistic write'"
Queue(x, m) ==
    [x EXCEPT !.vSendMsg = Append(@, m), !.nSendSize = @ + Len(m), !.sent = Append(@, m[1].id)]

Push(e, x, size) ==
    LET y == Queue(x, Message(Len(x.sent) + 1, size))
        n == IF x.vSendMsg = <<>> THEN Sendable(y, Capacity - Len(link[e])) ELSE 0
    IN  /\ ends' = [ends EXCEPT ![e] = SocketSendData(y, n)]
        /\ link' = [link EXCEPT ![e] = @ \o UnitsSent(y, n)]

MayPush(e) == Len(ends[e].sent) < MaxMessages

-----------------------------------------------------------------------------
\* CNetMessage and ReceiveMsgBytes

InData(msg) == Len(msg.hdrbuf) = HeaderSize

MessageSize(msg) == msg.hdrbuf[1].size

Complete(msg) == InData(msg) /\ Len(msg.vRecv) = MessageSize(msg)

\* "get current incomplete message, or create a new one": readHeader, readData
Absorb(msgs, u) ==
    IF msgs = <<>> \/ Complete(Last(msgs)) THEN Append(msgs, [hdrbuf |-> <<u>>, vRecv |-> <<>>])
    ELSE LET msg == Last(msgs) IN
         Append(Front(msgs), IF InData(msg) THEN [msg EXCEPT !.vRecv = Append(@, u)]
                             ELSE [msg EXCEPT !.hdrbuf = Append(@, u)])

ReceiveMsgBytes_Anew(msgs, units) == FoldLeft(Absorb, <<>>, units)

ReceiveMsgBytes(msgs, units) ==
    LET received[i \in 0 .. Len(units)] ==
            IF i = 0 THEN msgs ELSE Absorb(received[i - 1], units[i])
    IN  received[Len(units)]

\* vRecv has its final size as soon as the header is read.
GetTotalRecvSize(msgs) ==
    FoldSeq(LAMBDA msg, n : n + HeaderSize + (IF InData(msg) THEN MessageSize(msg) ELSE 0), 0, msgs)

\* What ThreadSocketHandler selects for
SelectsSend(e) == ends[e].vSendMsg # <<>>

HasMessage(x) == x.vRecvMsg # <<>> /\ Complete(Head(x.vRecvMsg))

SelectsRecv(e) ==
    /\ ~SelectsSend(e)
    /\ HasMessage(ends[e]) => GetTotalRecvSize(ends[e].vRecvMsg) <= ReceiveFloodSize

-----------------------------------------------------------------------------
\* Some thread has a message for the other end.
PushMessage(e) ==
    /\ ~fDisconnect /\ MayPush(e)
    /\ \E size \in Payloads : Push(e, ends[e], size)
    /\ UNCHANGED fDisconnect

ServiceSend(e) ==
    /\ ~fDisconnect /\ SelectsSend(e) /\ Len(link[e]) < Capacity
    /\ LET n == Sendable(ends[e], Capacity - Len(link[e])) IN
         /\ ends' = [ends EXCEPT ![e] = SocketSendData(@, n)]
         /\ link' = [link EXCEPT ![e] = @ \o UnitsSent(ends[e], n)]
    /\ UNCHANGED fDisconnect

ServiceRecv(e) ==
    LET from == link[Other(e)] IN
    /\ ~fDisconnect /\ SelectsRecv(e) /\ from # <<>>
    /\ \E n \in 1 .. Len(from) :
         /\ ends' = [ends EXCEPT ![e].vRecvMsg = ReceiveMsgBytes(@, SubSeq(from, 1, n))]
         /\ link' = [link EXCEPT ![Other(e)] = SubSeq(@, n + 1, Len(@))]
    /\ UNCHANGED fDisconnect

\* ProcessMessages: one message, and perhaps an answer to it.
MayProcess(e) == ends[e].nSendSize < SendBufferSize /\ HasMessage(ends[e])

Processed(x) ==
    LET msg == Head(x.vRecvMsg)
    IN  [x EXCEPT !.vRecvMsg = Tail(@), !.processed = Append(@, msg.hdrbuf \o msg.vRecv)]

ProcessMessages(e) ==
    /\ ~fDisconnect /\ MayProcess(e)
    /\ \/ ends' = [ends EXCEPT ![e] = Processed(@)] /\ UNCHANGED link
       \/ MayPush(e) /\ \E size \in Payloads : Push(e, Processed(ends[e]), size)
    /\ UNCHANGED fDisconnect

\* "socket not sending", for 90 minutes
Stalled(e) == SelectsSend(e) /\ Len(link[e]) = Capacity /\ ~MayProcess(e)

TimesOut(e) ==
    /\ ~fDisconnect /\ Stalled(e) /\ Stalled(Other(e))
    /\ fDisconnect' = TRUE
    /\ UNCHANGED <<ends, link>>

Quiet ==
    /\ \/ fDisconnect
       \/ \A e \in Ends : /\ link[e] = <<>> /\ ~SelectsSend(e)
                          /\ ends[e].vRecvMsg = <<>> /\ ~MayPush(e)
    /\ UNCHANGED vars

Next ==
    \/ \E e \in Ends :
         PushMessage(e) \/ ServiceSend(e) \/ ServiceRecv(e) \/ ProcessMessages(e) \/ TimesOut(e)
    \/ Quiet

\* The socket and message threads of both ends run.
Fairness ==
    \A e \in Ends :
        /\ WF_vars(ServiceSend(e)) /\ WF_vars(ServiceRecv(e))
        /\ WF_vars(ProcessMessages(e)) /\ WF_vars(TimesOut(e))

Spec == Init /\ [][Next]_vars /\ Fairness

-----------------------------------------------------------------------------
(***************************************************************************)
(* What ProcessMessages takes from vRecvMsg are the messages the other end *)
(* sent, whole and in their order, wherever the kernel cuts the stream and *)
(* however much of a header or of several messages one recv returns.       *)
(***************************************************************************)
MessagesArriveWhole ==
    \A e \in Ends :
        LET got == ends[e].processed IN
        /\ Len(got) <= Len(ends[Other(e)].sent)
        /\ \A i \in 1 .. Len(got) : got[i] = Message(i, got[i][1].size)

(***************************************************************************)
(* nSendSize, which decides whether messages are processed at all, is the  *)
(* size of vSendMsg, and nSendOffset lies inside its first message: the    *)
(* assertions of SocketSendData.                                           *)
(***************************************************************************)
SendBufferAccounted ==
    \A e \in Ends :
        LET x == ends[e] IN
        /\ x.nSendSize = TotalLength(x.vSendMsg)
        /\ IF x.vSendMsg = <<>> THEN x.nSendOffset = 0
           ELSE x.nSendOffset \in 0 .. Len(Head(x.vSendMsg)) - 1

(***************************************************************************)
(* Every message that was pushed is processed at the other end, unless the *)
(* connection is dropped because both ends can only wait.                  *)
(***************************************************************************)
Delivered(e) == Len(ends[Other(e)].processed) = Len(ends[e].sent)
DeliveredOrDropped == \A e \in Ends : []<>(Delivered(e) \/ fDisconnect)

=============================================================================
