------------------------------- MODULE Link -------------------------------
(***************************************************************************)
(* The PLP link layer of ncpd: class Link (lib/link.cc), the serial line   *)
(* under it, the NCP above it and the Psion at the other end.              *)
(*                                                                         *)
(* Four threads of the program touch a Link object:                        *)
(*   pump      DataLink's thread: runs receive and, from it, everything    *)
(*             receive calls (transmit for NCP replies and queued packets) *)
(*   sessions  callers of send (the socket polling thread)                 *)
(*   timer     expire_check: calls retransmit                              *)
(*   link      link_thread of NCPSession: calls reset once hasFailed       *)
(*                                                                         *)
(* queueMutex_ protects the queues only.  One action is one critical       *)
(* section of that mutex, or several whose interleavings with the other    *)
(* threads give nothing new, with the unguarded accesses beside it.  The   *)
(* accesses where another thread can get in between are actions apart: the *)
(* test of xoff_ before holdQueue_, the test of the backlog, the load and  *)
(* the store of txSequence_, and every DataLink::send.                     *)
(***************************************************************************)
EXTENDS Integers, Sequences, FiniteSets

CONSTANTS
    Sessions,      \* threads that call Link::send, other than the pump
    NSession,      \* packets 1..NSession are handed to send by the sessions
    PeerScript,    \* what the Psion sends: a sequence of PeerItem
    ChanOf,        \* the NCP channel byte of each packet
    Channels,      \* channel numbers in use
    Oversize,      \* packets longer than 300 bytes
    PeerTypes,     \* protocols the Psion may speak: among "SIBO" and "EPOC"
    SiboMod, EpocMod,        \* seqMask_ + 1: 8 and 2048
    SiboWindow, EpocWindow,  \* maxOutstanding_: 1 and 8
    ReqTries, DataTries,     \* txcount of a fresh entry: 4 and 8
    LineCap,       \* frames the out buffer and the wire hold in each direction
    AutoExit,      \* whether ncpd exits on a failed link instead of resetting it
    Lossy,         \* whether the line may damage any number of frames
    MaxFaults,     \* bound: other faults (frames damaged if ~Lossy, DSR drops,
                   \* restarts and repeated confirmations of the Psion)
    MaxStamp       \* bound: distinct time stamps, and places in ackWaitQueue

Packet == 1 .. (NSession + Len(PeerScript))

PeerItem == [kind : {"data", "xoff", "xon", "disconnect"},
             chan : Channels, reply : BOOLEAN]

ASSUME SessionsAssumption == /\ IsFiniteSet(Sessions)
                             /\ {"pump", "timer", "link"} \cap Sessions = {}
ASSUME ScriptAssumption == /\ NSession \in Nat
                           /\ PeerScript \in Seq(PeerItem)
                           /\ Channels \subseteq 0..255
                           /\ ChanOf \in [Packet -> Channels]
                           /\ Oversize \subseteq Packet
ASSUME ProtocolAssumption ==
    /\ PeerTypes \subseteq {"SIBO", "EPOC"}
    /\ {SiboMod, EpocMod} \subseteq Nat \ {0, 1}
    /\ {SiboWindow, EpocWindow, LineCap, MaxStamp} \subseteq Nat \ {0}
    /\ SiboWindow <= EpocWindow
    /\ {ReqTries, DataTries, MaxFaults} \subseteq Nat
    /\ {AutoExit, Lossy} \subseteq BOOLEAN

VARIABLES
    linkType,      \* linkType_
    failed,        \* failed_
    txSequence,    \* txSequence_
    rxSequence,    \* rxSequence_
    ackWaitQueue,  \* ackWaitQueue: a set; pos is the place in the vector
    holdQueue,     \* holdQueue_, split by the channel it is searched with
    waitQueue,     \* waitQueue_
    xoff,          \* xoff_
    pc,            \* where each thread is
    todo,          \* packets a sender still has to pass to transmit
    eseq,          \* e.seq of transmit's local AckWaitQueueElement
    pending,       \* pendingData: frames picked for retransmission
    purging,       \* channel the pump is about to purge, or None
    toPeer, fromPeer,  \* frames under way
    peer,          \* the Psion's end of the link
    peerGot,       \* packets the Psion accepted on its current link
    ncpGot,        \* script items handed to NCP::receive on this link
    ncpEver,       \* and on any link
    nextSend,      \* first packet the sessions have not handed to send
    faults         \* faults so far

linkVars == <<linkType, failed, txSequence, rxSequence>>
queueVars == <<ackWaitQueue, holdQueue, waitQueue, xoff>>
threadVars == <<pc, todo, eseq, pending, purging>>
lineVars == <<toPeer, fromPeer>>
peerVars == <<peer, peerGot>>
countVars == <<nextSend, faults>>
ncpVars == <<ncpGot, ncpEver>>
vars == <<linkVars, queueVars, threadVars, lineVars, peerVars, ncpVars, countVars>>

Senders == Sessions \cup {"pump"}
None == -1
Threads == Senders \cup {"timer", "link"}

-----------------------------------------------------------------------------
(* Frames and link parameters *)

(* seqMask_ + 1 and maxOutstanding_ change only together with linkType_. *)
Modulus == IF linkType = "EPOC" THEN EpocMod ELSE SiboMod
MaxOutstanding == IF linkType = "EPOC" THEN EpocWindow ELSE SiboWindow

DataFrame(s, p) == [kind |-> "data", seq |-> s, pkt |-> p]
Ack(s) == [kind |-> "ack", seq |-> s, pkt |-> 0]
ReqReq == [kind |-> "reqreq", seq |-> 1, pkt |-> 0]
ReqCon == [kind |-> "reqcon", seq |-> 4, pkt |-> 0]
Req(s) == [kind |-> "req", seq |-> s, pkt |-> 0]
Disc == [kind |-> "disc", seq |-> 0, pkt |-> 0]

IsData(e) == e.frame.kind = "data"

(* Byte 0 of an entry's data: transmit has prepended the link header, so it *)
(* is the packet type and the low bits of the sequence number.              *)
HeaderByte(e) ==
    CASE e.frame.kind = "reqreq" -> 33
      [] e.frame.kind = "reqcon" -> 36
      [] OTHER -> IF e.seq > 7 THEN 48 + 8 + (e.seq % 8) ELSE 48 + e.seq

(* A number above all of S; at the bound, the bound itself, so that two stamps *)
(* are equal as those of two calls in the same microsecond are.                *)
Above(S) == LET later == {n \in 1 .. MaxStamp : \A x \in S : x < n} IN
            IF later = {} THEN MaxStamp ELSE CHOOSE n \in later : TRUE

(* gettimeofday: only the order of the stamps matters. *)
Now == Above({e.stamp : e \in ackWaitQueue})

Room(line) == Len(line) < LineCap

(* A fresh ackWaitQueue element, pushed at the end of the vector. *)
NewEntry(f, s, tries) ==
    [pos |-> Above({e.pos : e \in ackWaitQueue}), seq |-> s, txcount |-> tries,
     stamp |-> Now, frame |-> f]

(* What a search from the begin of the vector finds among S. *)
First(S) == {e \in S : \A x \in S : e.pos <= x.pos}

-----------------------------------------------------------------------------
(* The constructor: everything at rest, a link request under way. *)

Init ==
    /\ linkType = "UNKNOWN" /\ failed = FALSE
    /\ txSequence = 1 /\ rxSequence = -1
    /\ ackWaitQueue = {[pos |-> 1, seq |-> 0, txcount |-> ReqTries, stamp |-> 1,
                        frame |-> ReqReq]}
    /\ holdQueue = [c \in Channels |-> <<>>]
    /\ waitQueue = <<>>
    /\ xoff = [c \in Channels |-> FALSE]
    /\ pc = [t \in Threads |-> "idle"]
    /\ todo = [t \in Senders |-> <<>>]
    /\ eseq = [t \in Senders |-> 0]
    /\ pending = [t \in Threads |-> {}] /\ purging = None
    /\ toPeer = <<ReqReq>> /\ fromPeer = <<>>
    /\ peer \in {[type |-> t, up |-> FALSE, rx |-> -1, txSeq |-> 1, item |-> 1,
                 con |-> FALSE, magic |-> FALSE] : t \in PeerTypes}
    /\ peerGot = <<>> /\ ncpGot = <<>> /\ ncpEver = {}
    /\ nextSend = 1 /\ faults = 0

-----------------------------------------------------------------------------
(* Link::send and Link::transmit, run by any sender *)

Send(s) ==
    /\ pc[s] = "idle" /\ todo[s] = <<>>
    /\ nextSend <= NSession
    /\ nextSend' = nextSend + 1
    /\ IF nextSend \in Oversize
       THEN failed' = TRUE /\ UNCHANGED todo
       ELSE todo' = [todo EXCEPT ![s] = <<nextSend>>] /\ UNCHANGED failed
    /\ UNCHANGED <<linkType, txSequence, rxSequence, queueVars, pc, eseq,
                   pending, purging, lineVars, peerVars, ncpVars, faults>>

Buf(t) == Head(todo[t])
Held(t) == xoff[ChanOf[Buf(t)]]
Finish(t) == /\ todo' = [todo EXCEPT ![t] = Tail(@)]
             /\ pc' = [pc EXCEPT ![t] = "idle"]
Goto(t, l) == pc' = [pc EXCEPT ![t] = l] /\ UNCHANGED todo

(* hasFailed and the unguarded test of xoff_ ... *)
TransmitDrop(t) ==
    /\ pc[t] = "idle" /\ todo[t] # <<>>
    /\ \/ failed /\ Finish(t)
       \/ ~failed /\ Held(t) /\ Goto(t, "hold")
    /\ UNCHANGED <<linkVars, queueVars, eseq, pending, purging, lineVars, peerVars, ncpVars,
                   countVars>>

(* ... before the push under the lock. *)
TransmitHold(t) ==
    /\ pc[t] = "hold"
    /\ holdQueue' = [holdQueue EXCEPT ![ChanOf[Buf(t)]] = Append(@, Buf(t))]
    /\ Finish(t)
    /\ UNCHANGED <<linkVars, ackWaitQueue, waitQueue, xoff, eseq, pending, purging, lineVars,
                   peerVars, ncpVars, countVars>>

Wait(p) == Append(waitQueue, p)

(* The locked test of the backlog; the lock is released before its result is used. *)
NeverFull == FALSE \* variant: the window is not looked at
BacklogFull == Cardinality(ackWaitQueue) >= MaxOutstanding

TransmitTest(t) ==
    /\ pc[t] = "idle" /\ todo[t] # <<>>
    /\ ~failed /\ ~Held(t)
    /\ \/ BacklogFull /\ waitQueue' = Wait(Buf(t)) /\ Finish(t)
       \/ ~BacklogFull /\ Goto(t, "load") /\ UNCHANGED waitQueue
    /\ UNCHANGED <<linkVars, ackWaitQueue, holdQueue, xoff, eseq, pending, purging, lineVars,
                   peerVars, ncpVars, countVars>>

NextSeqUnmasked(n) == n + 1 \* variant: the mask is forgotten
NextSeq(n) == (n + 1) % Modulus

(* e.seq = txSequence_++; txSequence_ &= seqMask_ without a lock: a load ... *)
TransmitLoad(t) ==
    /\ pc[t] = "load"
    /\ eseq' = [eseq EXCEPT ![t] = txSequence]
    /\ Goto(t, "store")
    /\ UNCHANGED <<linkVars, queueVars, pending, purging, lineVars, peerVars, ncpVars, countVars>>

(* ... and a store; then the stamp, and the push under the lock. *)
TransmitPush(t) ==
    /\ pc[t] = "store"
    /\ txSequence' = NextSeq(eseq[t])
    /\ ackWaitQueue' = ackWaitQueue \cup
          {NewEntry(DataFrame(eseq[t], Buf(t)), eseq[t], DataTries)}
    /\ Goto(t, "send")
    /\ UNCHANGED <<linkType, failed, rxSequence, holdQueue, waitQueue, xoff, eseq,
                   pending, purging, lineVars, peerVars, ncpVars, countVars>>

(* dataLink_->send blocks while the out buffer has no room. *)
TransmitSend(t) ==
    /\ pc[t] = "send" /\ Room(toPeer)
    /\ toPeer' = Append(toPeer, DataFrame(eseq[t], Buf(t)))
    /\ eseq' = [eseq EXCEPT ![t] = 0]
    /\ Finish(t)
    /\ UNCHANGED <<linkVars, queueVars, pending, purging, fromPeer, peerVars, ncpVars, countVars>>

Transmit(t) == \/ TransmitDrop(t) \/ TransmitHold(t) \/ TransmitTest(t)
               \/ TransmitLoad(t) \/ TransmitPush(t) \/ TransmitSend(t)

-----------------------------------------------------------------------------
(* Link::receive, run by the pump for the next frame of the line *)

Receiving(k) == /\ pc["pump"] = "idle" /\ todo["pump"] = <<>> /\ purging = None
                /\ fromPeer # <<>> /\ Head(fromPeer).kind \in k

(* sendAck: nothing is sent on a failed link. *)
SendAckNext(s) == \* variant: names the packet that is expected next
    Room(toPeer) /\ toPeer' = Append(toPeer, Ack((rxSequence + 1) % Modulus))
SendAck(s) == IF failed THEN toPeer' = toPeer
              ELSE Room(toPeer) /\ toPeer' = Append(toPeer, Ack(s))

InAnyOrder(f) == f.seq \in Nat \* variant: the number is not looked at
InSequence(f) == (rxSequence + 1) % Modulus = f.seq

(* NCP::receive, as far as the link sees it. *)
Receive(i) == ncpGot' = Append(ncpGot, i) /\ ncpEver' = ncpEver \cup {i}
NewLink == ncpGot' = <<>> /\ UNCHANGED ncpEver

(* transmitHoldQueue, as far as its lock goes. *)
ReleaseHeldTwice(c) == \* variant: what is released stays in the queue
    /\ todo' = [todo EXCEPT !["pump"] = holdQueue[c]]
    /\ UNCHANGED holdQueue
ReleaseHeld(c) ==
    /\ todo' = [todo EXCEPT !["pump"] = holdQueue[c]]
    /\ holdQueue' = [holdQueue EXCEPT ![c] = <<>>]

(* The content of an in-sequence packet: XOFF and XON are handled by the link, *)
(* anything else goes to NCP::receive, which may answer through Link::send and *)
(* then calls purgeQueue on a channel disconnect.                              *)
Deliver(i, item) ==
    \/ /\ item.kind = "xoff"
       /\ xoff' = [xoff EXCEPT ![item.chan] = TRUE]
       /\ UNCHANGED <<holdQueue, todo, ncpVars>>
    \/ /\ item.kind = "xon"
       /\ xoff' = [xoff EXCEPT ![item.chan] = FALSE]
       /\ ReleaseHeld(item.chan)
       /\ UNCHANGED ncpVars
    \/ /\ item.kind \in {"data", "disconnect"}
       /\ Receive(i)
       /\ todo' = [todo EXCEPT !["pump"] =
                     IF item.reply THEN <<NSession + i>> ELSE <<>>]
       /\ UNCHANGED <<holdQueue, xoff>>

(* purgeQueue, at the end of the handler of a disconnect: it removes the entries *)
(* whose byte 0 is the channel.                                                  *)
PurgeQueue ==
    /\ pc["pump"] = "idle" /\ todo["pump"] = <<>> /\ purging # None
    /\ ackWaitQueue' = {e \in ackWaitQueue : HeaderByte(e) # purging}
    /\ holdQueue' = [holdQueue EXCEPT ![purging] = <<>>]
    /\ purging' = None
    /\ UNCHANGED <<linkVars, waitQueue, xoff, pc, todo, eseq, pending, lineVars,
                   peerVars, ncpVars, countVars>>

ReceiveData ==
    /\ Receiving({"data"})
    /\ LET f == Head(fromPeer) IN
       \/ /\ InSequence(f)
          /\ rxSequence' = f.seq
          /\ SendAck(f.seq)
          /\ Deliver(f.pkt, PeerScript[f.pkt])
          /\ purging' = IF PeerScript[f.pkt].kind = "disconnect"
                        THEN PeerScript[f.pkt].chan ELSE None
       \/ /\ ~InSequence(f)
          /\ SendAck(rxSequence)
          /\ UNCHANGED <<rxSequence, holdQueue, xoff, todo, purging, ncpVars>>
    /\ fromPeer' = Tail(fromPeer)
    /\ UNCHANGED <<linkType, failed, txSequence, ackWaitQueue, waitQueue, pc, eseq,
                   pending, peerVars, countVars>>

MatchingAny(s) == ackWaitQueue \* variant: any ack serves the oldest entry
Matching(s) == {e \in ackWaitQueue : e.seq = s}

(* An ack 0 of our request by a SIBO machine, or its own request, starts a link. *)
StartSibo == /\ linkType' = "SIBO" /\ failed' = FALSE
             /\ rxSequence' = 0 /\ txSequence' = 1
             /\ NewLink
             /\ ackWaitQueue' = {}
             /\ holdQueue' = [c \in Channels |-> <<>>]

(* multiAck: what is left once e is acknowledged. *)
OlderThan(e, ref) == e.stamp < ref.stamp
MultiAck(ref) == {e \in ackWaitQueue \ {ref} : ~OlderThan(e, ref)}

(* An ack that matches: the first entry with that number leaves the queue, with *)
(* the entries stamped before it; then the packets of waitQueue_ are taken over *)
(* for transmission.                                                            *)
ReceiveAck ==
    /\ Receiving({"ack"})
    /\ LET s == Head(fromPeer).seq IN
       /\ Matching(s) # {}
       /\ \/ linkType = "UNKNOWN" /\ s = 0 /\ StartSibo
          \/ /\ ~(linkType = "UNKNOWN" /\ s = 0)
             /\ \E e \in First(Matching(s)) : ackWaitQueue' = MultiAck(e)
             /\ UNCHANGED <<linkVars, holdQueue, ncpVars>>
    /\ todo' = [todo EXCEPT !["pump"] = waitQueue]
    /\ waitQueue' = <<>>
    /\ fromPeer' = Tail(fromPeer)
    /\ UNCHANGED <<xoff, pc, eseq, pending, purging, toPeer, peerVars, countVars>>

(* pendingData, which keeps the order of the queue. *)
Frames(S) == {[pos |-> e.pos, frame |-> e.frame] : e \in S}

\* variant: the tries are not counted
RetryForever(e) == [e EXCEPT !.stamp = Now]
\* variant: a repeated packet is numbered afresh
RetryRenumbered(e) ==
    IF IsData(e)
    THEN [e EXCEPT !.txcount = @ - 1, !.stamp = Now, !.seq = txSequence,
                   !.frame.seq = txSequence]
    ELSE [e EXCEPT !.txcount = @ - 1, !.stamp = Now]
Retry(e) == [e EXCEPT !.txcount = @ - 1, !.stamp = Now]

(* An ack that matches nothing hints at the last packet the Psion received:    *)
(* the next one is sent again at once, or dropped if its tries are used up.    *)
ReceiveHint ==
    /\ Receiving({"ack"})
    /\ LET s == Head(fromPeer).seq IN
       /\ Matching(s) = {}
       /\ \/ /\ Matching(s + 1) = {}
             /\ UNCHANGED <<ackWaitQueue, pending, pc>>
          \/ \E e \in First(Matching(s + 1)) :
             \/ /\ e.txcount = 0
                /\ ackWaitQueue' = ackWaitQueue \ {e}
                /\ UNCHANGED <<pending, pc>>
             \/ /\ e.txcount > 0
                /\ ackWaitQueue' = (ackWaitQueue \ {e}) \cup {Retry(e)}
                /\ pending' = [pending EXCEPT !["pump"] = Frames({e})]
                /\ pc' = [pc EXCEPT !["pump"] = "resend"]
    /\ fromPeer' = Tail(fromPeer)
    /\ UNCHANGED <<linkVars, holdQueue, waitQueue, xoff, todo, eseq, purging, toPeer,
                   peerVars, ncpVars, countVars>>

(* dataLink_->send of pendingData, in queue order. *)
Resend(t) ==
    /\ pc[t] = "resend" /\ Room(toPeer)
    /\ \E e \in First(pending[t]) :
       /\ toPeer' = Append(toPeer, e.frame)
       /\ pending' = [pending EXCEPT ![t] = @ \ {e}]
       /\ pc' = [pc EXCEPT ![t] = IF pending[t] = {e} THEN "idle" ELSE "resend"]
    /\ UNCHANGED <<linkVars, queueVars, todo, eseq, purging, fromPeer,
                   peerVars, ncpVars, countVars>>

(* A packet of type 0x20.  Number 4 and up confirms our request, if there still *)
(* is one: an EPOC machine.  Otherwise the Psion asks for a new link.           *)
OurRequests == {e \in ackWaitQueue : e.seq = 0 /\ e.frame.kind = "reqreq"}

ReceiveCon ==
    /\ Receiving({"reqcon"})
    /\ \E e \in First(OurRequests) : ackWaitQueue' = ackWaitQueue \ {e}
    /\ linkType' = "EPOC" /\ failed' = FALSE
    /\ rxSequence' = 0 /\ txSequence' = 1
    /\ NewLink
    /\ Room(toPeer) /\ toPeer' = Append(toPeer, Ack(0))
    /\ fromPeer' = Tail(fromPeer)
    /\ UNCHANGED <<holdQueue, waitQueue, xoff, threadVars, peerVars, countVars>>

(* EPOC: sendReqCon.  Data entries of the old link stay in ackWaitQueue. *)
ReceiveReqEpoc ==
    /\ \/ Receiving({"reqcon"}) /\ OurRequests = {}
       \/ Receiving({"req"}) /\ Head(fromPeer).seq > 0
    /\ linkType' = "EPOC" /\ failed' = FALSE
    /\ rxSequence' = 0 /\ txSequence' = 0
    /\ NewLink
    /\ ackWaitQueue' = ackWaitQueue \cup {NewEntry(ReqCon, 0, ReqTries)}
    /\ Room(toPeer) /\ toPeer' = Append(toPeer, ReqCon)
    /\ fromPeer' = Tail(fromPeer)
    /\ UNCHANGED <<holdQueue, waitQueue, xoff, threadVars, peerVars, countVars>>

ReceiveReqSibo ==
    /\ Receiving({"req"}) /\ Head(fromPeer).seq = 0
    /\ StartSibo
    /\ Room(toPeer) /\ toPeer' = Append(toPeer, Ack(0))
    /\ fromPeer' = Tail(fromPeer)
    /\ UNCHANGED <<waitQueue, xoff, threadVars, peerVars, countVars>>

ReceiveDisc ==
    /\ Receiving({"disc"})
    /\ failed' = TRUE
    /\ fromPeer' = Tail(fromPeer)
    /\ UNCHANGED <<linkType, txSequence, rxSequence, queueVars, threadVars, toPeer,
                   peerVars, ncpVars, countVars>>

Pump == \/ ReceiveData \/ PurgeQueue \/ ReceiveAck \/ ReceiveHint
        \/ ReceiveCon \/ ReceiveReqEpoc \/ ReceiveReqSibo \/ ReceiveDisc
        \/ Resend("pump")

-----------------------------------------------------------------------------
(* The timer: Link::retransmit *)

(* hasFailed, and then purgeAllQueues. *)
RetransmitTest ==
    /\ pc["timer"] = "idle" /\ failed
    /\ Goto("timer", "purge")
    /\ UNCHANGED <<linkVars, queueVars, eseq, pending, purging, lineVars, peerVars, ncpVars,
                   countVars>>

RetransmitPurge ==
    /\ pc["timer"] = "purge"
    /\ ackWaitQueue' = {}
    /\ holdQueue' = [c \in Channels |-> <<>>]
    /\ Goto("timer", "idle")
    /\ UNCHANGED <<linkVars, waitQueue, xoff, eseq, pending, purging, lineVars, peerVars, ncpVars,
                   countVars>>

(* Entries up to some age have expired: those with no tries left are removed and *)
(* fail the link, the others are stamped and sent again.                         *)
Retransmit ==
    /\ pc["timer"] = "idle" /\ ~failed
    /\ \E oldest \in ackWaitQueue :
         LET expired == {e \in ackWaitQueue : e.stamp <= oldest.stamp}
             dead == {e \in expired : e.txcount = 0}
             again == {Retry(e) : e \in expired \ dead} IN
         /\ ackWaitQueue' = (ackWaitQueue \ expired) \cup again
         /\ failed' = (dead # {})
         /\ pending' = [pending EXCEPT !["timer"] = Frames(again)]
         /\ pc' = [pc EXCEPT !["timer"] = IF again = {} THEN "idle" ELSE "resend"]
    /\ UNCHANGED <<linkType, txSequence, rxSequence, holdQueue, waitQueue, xoff, todo,
                   eseq, purging, lineVars, peerVars, ncpVars, countVars>>

Timer == RetransmitTest \/ RetransmitPurge \/ Retransmit \/ Resend("timer")

-----------------------------------------------------------------------------
(* link_thread: Link::reset of a link seen to have failed, step by step *)

(* hasFailed, up to five seconds before the reset. *)
ResetTest ==
    /\ pc["link"] = "idle" /\ failed
    /\ ~AutoExit
    /\ Goto("link", "reset")
    /\ UNCHANGED <<linkVars, queueVars, eseq, pending, purging, lineVars, peerVars,
                   ncpVars, countVars>>

ResetFields ==
    /\ pc["link"] = "reset"
    /\ linkType' = "UNKNOWN" /\ failed' = FALSE
    /\ txSequence' = 1 /\ rxSequence' = -1
    /\ NewLink
    /\ Goto("link", "purge")
    /\ UNCHANGED <<queueVars, eseq, pending, purging, lineVars, peerVars,
                   countVars>>

(* purgeAllQueues: not waitQueue_. *)
ResetPurge ==
    /\ pc["link"] = "purge"
    /\ ackWaitQueue' = {}
    /\ holdQueue' = [c \in Channels |-> <<>>]
    /\ Goto("link", "restart")
    /\ UNCHANGED <<linkVars, waitQueue, xoff, eseq, pending, purging,
                   lineVars, peerVars, ncpVars, countVars>>

(* dataLink_->reset empties both buffers: the latest frames of one line, the *)
(* earliest of the other.                                                    *)
ResetLine ==
    /\ pc["link"] = "restart"
    /\ xoff' = [c \in Channels |-> FALSE]
    /\ \E n \in 0 .. Len(toPeer) : toPeer' = SubSeq(toPeer, 1, n)
    /\ \E n \in 1 .. Len(fromPeer) + 1 : fromPeer' = SubSeq(fromPeer, n, Len(fromPeer))
    /\ Goto("link", "request")
    /\ UNCHANGED <<linkVars, ackWaitQueue, holdQueue, waitQueue, eseq,
                   pending, purging, peerVars, ncpVars, countVars>>

(* sendReqReq *)
ResetRequest ==
    /\ pc["link"] = "request"
    /\ IF failed
       THEN UNCHANGED <<ackWaitQueue, toPeer>>
       ELSE /\ ackWaitQueue' = ackWaitQueue \cup {NewEntry(ReqReq, 0, ReqTries)}
            /\ Room(toPeer) /\ toPeer' = Append(toPeer, ReqReq)
    /\ Goto("link", "idle")
    /\ UNCHANGED <<linkVars, holdQueue, waitQueue, xoff, eseq, pending, purging,
                   fromPeer, peerVars, ncpVars, countVars>>

Reset == ResetTest \/ ResetFields \/ ResetPurge \/ ResetLine \/ ResetRequest

-----------------------------------------------------------------------------
(* The line: a damaged frame fails DataLink's CRC and is dropped.  hasFailed *)
(* turns a dropped DSR into failed_.                                         *)

Fault == faults < MaxFaults /\ faults' = faults + 1

Lose ==
    /\ \/ toPeer # <<>> /\ toPeer' = Tail(toPeer) /\ UNCHANGED fromPeer
       \/ fromPeer # <<>> /\ fromPeer' = Tail(fromPeer) /\ UNCHANGED toPeer
    /\ IF Lossy THEN UNCHANGED faults ELSE Fault
    /\ UNCHANGED <<linkVars, queueVars, threadVars, peerVars, ncpVars, nextSend>>

HasFailed ==
    /\ ~failed /\ failed' = TRUE
    /\ Fault
    /\ UNCHANGED <<linkType, txSequence, rxSequence, queueVars, threadVars, lineVars,
                   peerVars, ncpVars, nextSend>>

-----------------------------------------------------------------------------
(* The Psion (external).  Its receiver is the mirror image of the one above: it *)
(* takes data in sequence and acknowledges anything else with the last number   *)
(* it accepted.                                                                 *)

PeerModulus == IF peer.type = "EPOC" THEN EpocMod ELSE SiboMod

(* What it sends is lost if ncpd's side does not take it in time (an overrun). *)
Answer(f) == fromPeer' = IF Room(fromPeer) THEN Append(fromPeer, f) ELSE fromPeer

(* An EPOC machine confirms a request and waits for an ack 0; a SIBO machine    *)
(* acknowledges it.  A confirmation whose magic it knows is only a repetition. *)
LinkUp(rx, con, magic) ==
    /\ peer' = [peer EXCEPT !.up = TRUE, !.rx = rx, !.txSeq = 1, !.con = con,
                            !.magic = magic]
    /\ peerGot' = <<>>

PeerLink ==
    /\ toPeer # <<>>
    /\ \/ /\ Head(toPeer).kind = "reqreq"
          /\ \/ peer.type = "EPOC" /\ LinkUp(0, TRUE, FALSE) /\ Answer(ReqCon)
             \/ peer.type = "SIBO" /\ LinkUp(0, FALSE, FALSE) /\ Answer(Ack(0))
       \/ /\ Head(toPeer).kind = "reqcon"
          /\ \/ ~peer.magic /\ LinkUp(-1, FALSE, TRUE)
             \/ peer.magic /\ UNCHANGED peerVars
          /\ Answer(Ack(0))
    /\ toPeer' = Tail(toPeer)
    /\ UNCHANGED <<linkVars, queueVars, threadVars, ncpVars, countVars>>

PeerData ==
    /\ toPeer # <<>> /\ Head(toPeer).kind = "data"
    /\ LET f == Head(toPeer) IN
       \/ /\ peer.up /\ (peer.rx + 1) % PeerModulus = f.seq
          /\ peer' = [peer EXCEPT !.rx = f.seq]
          /\ peerGot' = Append(peerGot, f.pkt)
          /\ Answer(Ack(f.seq))
       \/ /\ peer.up /\ (peer.rx + 1) % PeerModulus # f.seq /\ peer.rx >= 0
          /\ Answer(Ack(peer.rx))
          /\ UNCHANGED <<peer, peerGot>>
       \/ /\ peer.up => peer.rx < 0 /\ f.seq # 0
          /\ UNCHANGED <<peer, peerGot, fromPeer>>
    /\ toPeer' = Tail(toPeer)
    /\ UNCHANGED <<linkVars, queueVars, threadVars, ncpVars, countVars>>

PeerAck ==
    /\ toPeer # <<>> /\ Head(toPeer).kind = "ack"
    /\ LET s == Head(toPeer).seq IN
       \/ /\ peer.con /\ s = 0
          /\ peer' = [peer EXCEPT !.con = FALSE]
          /\ UNCHANGED peerGot
       \/ peer.type = "SIBO" /\ ~peer.up /\ s = 0 /\ LinkUp(0, FALSE, FALSE)
       \/ /\ peer.up /\ ~peer.con /\ s = peer.txSeq /\ peer.item <= Len(PeerScript)
          /\ peer' = [peer EXCEPT !.item = @ + 1, !.txSeq = (@ + 1) % PeerModulus]
          /\ UNCHANGED peerGot
       \/ /\ ~(peer.con /\ s = 0)
          /\ ~(peer.type = "SIBO" /\ ~peer.up /\ s = 0)
          /\ ~(peer.up /\ ~peer.con /\ s = peer.txSeq /\ peer.item <= Len(PeerScript))
          /\ UNCHANGED peerVars
    /\ toPeer' = Tail(toPeer)
    /\ UNCHANGED <<linkVars, queueVars, threadVars, fromPeer, ncpVars, countVars>>

PeerReceive == PeerLink \/ PeerData \/ PeerAck

(* The first transmission of its next packet, or a repetition. *)
PeerSend ==
    /\ peer.up /\ ~peer.con /\ peer.item <= Len(PeerScript)
    /\ Room(fromPeer) /\ Answer(DataFrame(peer.txSeq, peer.item))
    /\ UNCHANGED <<linkVars, queueVars, threadVars, toPeer, peerVars, ncpVars, countVars>>

(* It repeats its confirmation; or restarts, and asks for a link of its own *)
(* accord; or disconnects.                                                  *)
PeerFault ==
    /\ Room(fromPeer)
    /\ \/ peer.con /\ Answer(ReqCon) /\ UNCHANGED peer
       \/ /\ \E f \in {Req(IF peer.type = "EPOC" THEN 1 ELSE 0), Disc} : Answer(f)
          /\ peer' = [peer EXCEPT !.up = FALSE, !.con = FALSE, !.magic = FALSE]
    /\ Fault
    /\ UNCHANGED <<linkVars, queueVars, threadVars, toPeer, peerGot, ncpVars, nextSend>>

-----------------------------------------------------------------------------
Next == \/ \E s \in Sessions : Send(s)
        \/ \E t \in Senders : Transmit(t)
        \/ Pump \/ Timer \/ Reset
        \/ Lose \/ HasFailed
        \/ PeerReceive \/ PeerSend \/ PeerFault

Spec == Init /\ [][Next]_vars

(* Each thread of the program keeps running; the line and the Psion owe nothing *)
(* but taking what was sent to them (or losing it).                             *)
Fairness == /\ \A t \in Senders : WF_vars(Transmit(t))
            /\ WF_vars(Pump) /\ WF_vars(Timer) /\ WF_vars(Reset)
            /\ WF_vars(PeerReceive)

FairSpec == Spec /\ Fairness

-----------------------------------------------------------------------------
(* Type correctness *)

SeqNo == 0 .. (IF EpocMod > SiboMod THEN EpocMod ELSE SiboMod) - 1
Stamp == 1 .. MaxStamp
ToPeerFrame ==
    {DataFrame(s, p) : s \in SeqNo, p \in Packet} \cup {Ack(s) : s \in SeqNo \cup {-1}}
        \cup {ReqReq, ReqCon}
FromPeerFrame ==
    {DataFrame(s, p) : s \in SeqNo, p \in DOMAIN PeerScript}
        \cup {Ack(s) : s \in SeqNo} \cup {ReqCon, Req(0), Req(1), Disc}
QueuedFrame ==
    {DataFrame(s, p) : s \in SeqNo, p \in Packet} \cup {ReqReq, ReqCon}
Entry == [pos : Stamp, seq : SeqNo, txcount : Nat, stamp : Stamp, frame : QueuedFrame]

Label == {"idle", "hold", "load", "store", "send", "resend", "reset", "purge",
          "restart", "request"}

LinkTypeOK == /\ linkType \in {"UNKNOWN", "SIBO", "EPOC"} /\ failed \in BOOLEAN
              /\ txSequence \in SeqNo /\ rxSequence \in SeqNo \cup {-1}
QueueTypeOK == /\ ackWaitQueue \subseteq Entry
               /\ holdQueue \in [Channels -> Seq(Packet)]
               /\ waitQueue \in Seq(Packet)
               /\ xoff \in [Channels -> BOOLEAN]
ThreadTypeOK == /\ pc \in [Threads -> Label]
                /\ todo \in [Senders -> Seq(Packet)]
                /\ eseq \in [Senders -> SeqNo]
                /\ pending \in [Threads -> SUBSET [pos : Stamp, frame : QueuedFrame]]
                /\ purging \in Channels \cup {None}
LineTypeOK == toPeer \in Seq(ToPeerFrame) /\ fromPeer \in Seq(FromPeerFrame)
PeerTypeOK == /\ peer \in [type : PeerTypes, up : BOOLEAN, rx : SeqNo \cup {-1},
                           txSeq : SeqNo, item : 1 .. Len(PeerScript) + 1,
                           con : BOOLEAN, magic : BOOLEAN]
              /\ peerGot \in Seq(Packet)
NcpTypeOK == /\ ncpGot \in Seq(DOMAIN PeerScript)
             /\ ncpEver \subseteq DOMAIN PeerScript
CountTypeOK == nextSend \in 1 .. NSession + 1 /\ faults \in 0 .. MaxFaults

(* Every variable has its type: in particular the sequence numbers stay below  *)
(* the modulus (seqMask_), whatever the link is changed into meanwhile.        *)
TypeOK == /\ LinkTypeOK /\ QueueTypeOK /\ ThreadTypeOK /\ LineTypeOK /\ PeerTypeOK
          /\ NcpTypeOK /\ CountTypeOK

-----------------------------------------------------------------------------
(* Properties *)

Elements(s) == {s[i] : i \in DOMAIN s}
Data == {e \in ackWaitQueue : IsData(e)}
Past == {t \in Senders : pc[t] \in {"load", "store"}}

(* The window: transmit releases queueMutex_ between its test of the backlog   *)
(* and its push, so it may be overrun, but by no more than one packet for each *)
(* further thread that sends.  A SIBO machine, whose window is 1, is never sent *)
(* more than that either, although an EPOC window may have been open before.   *)
WindowBound ==
    Cardinality(Data) + Cardinality(Past)
      <= (IF linkType = "SIBO" THEN SiboWindow ELSE EpocWindow)
         + Cardinality(Senders) - 1

(* The Psion accepts no packet twice on a link: retransmit and the hint of an  *)
(* ack send a packet again under its old number.                               *)
PeerNoDuplicates ==
    \A i, j \in DOMAIN peerGot : peerGot[i] = peerGot[j] => i = j

(* NCP::receive gets what the Psion sends on one link without gap, repetition  *)
(* or inversion, XOFF and XON left out, however frames are repeated or lost.   *)
ForNcp(i) == PeerScript[i].kind \in {"data", "disconnect"}
Increasing(s) == \A i, j \in DOMAIN s : i < j => s[i] < s[j]
NcpInOrder ==
    /\ Increasing(ncpGot) /\ \A i \in Elements(ncpGot) : ForNcp(i)
    /\ \A a, b \in Elements(ncpGot) : \A i \in a .. b : ForNcp(i) => i \in Elements(ncpGot)

(* What the Psion has seen acknowledged, and so never sends again, did reach   *)
(* NCP::receive: sendAck comes before the delivery, in the same handler.       *)
NoItemLost == \A i \in 1 .. (peer.item - 1) : ForNcp(i) => i \in ncpEver

(* A packet leaves ackWaitQueue on an ack, its own or that of a later one      *)
(* (multiAck), only if the Psion has accepted it.                              *)
AckedIsDelivered ==
    [][ReceiveAck => \A e \in Data \ Data' : e.frame.pkt \in Elements(peerGot)]_vars

(* A packet is held only while its channel is stopped, when it is the pump     *)
(* alone that sends: XON releases every one.                                   *)
HeldOnlyWhileStopped == \A c \in Channels : holdQueue[c] # <<>> => xoff[c]

(* Whatever is sent is acknowledged or given up: ackWaitQueue runs empty or    *)
(* the link fails, since every retransmission uses up a try.                   *)
Settles == ackWaitQueue # {} ~> (ackWaitQueue = {} \/ failed)

(* "Purge all outstanding packets for a specified remote channel." (link.h):   *)
(* after purgeQueue no packet of the channel waits for its acknowledgement.    *)
PurgedIsGone ==
    [][PurgeQueue => \A e \in Data' : ChanOf[e.frame.pkt] # purging]_vars

(* "Reset connection and attempt to reconnect to the peer." (link.h): a link   *)
(* that is not up, has not failed and is not being reset has asked for one.    *)
AttemptsToReconnect ==
    linkType = "UNKNOWN" /\ ~failed /\ pc["link"] = "idle" => OurRequests # {}
=============================================================================
