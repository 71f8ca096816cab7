----------------------------- MODULE LinkProofs -----------------------------
(***************************************************************************)
(* Type correctness of Link and the bound on its window, for every value   *)
(* of the constants; and what a connected link gives the NCP.              *)
(*                                                                         *)
(* The Psion's packets reach us by stop and wait: it repeats one until     *)
(* that is acknowledged, and what is still on the line belongs to this     *)
(* packet or to the one before it.  FlowInv says so for both lines; it     *)
(* holds for any moduli, any number of sessions that send at the same time *)
(* and any losses, up to the point where the link fails and ncpd exits.    *)
(***************************************************************************)
EXTENDS LinkMC, FiniteSetTheorems, DataLemmas

(* A sender past the first test of transmit still has the packet it tested for. *)
HasPacket ==
    \A t \in Senders : pc[t] \in {"hold", "load", "store", "send"} => todo[t] # <<>>

TypeInv == TypeOK /\ HasPacket

-----------------------------------------------------------------------------
(* The values the operators of Link return *)

(* A stamp or a place above others is again a stamp, even at the bound. *)
LEMMA AboveIsStamp ==
    ASSUME NEW S
    PROVE  Above(S) \in Stamp
BY ProtocolAssumption DEF Above, Stamp

LEMMA NowIsStamp == Now \in Stamp
BY AboveIsStamp DEF Now

(* What push_back adds is an entry. *)
LEMMA NewEntryType ==
    ASSUME NEW f \in QueuedFrame, NEW s \in SeqNo, NEW n \in Nat
    PROVE  NewEntry(f, s, n) \in Entry
BY AboveIsStamp, NowIsStamp DEF NewEntry, Entry

(* 0 and 1 are numbers of either protocol. *)
LEMMA SmallSeqNo == 0 \in SeqNo /\ 1 \in SeqNo
BY ProtocolAssumption DEF SeqNo

(* txSequence_ &= seqMask_ makes a number of either protocol, whichever of them *)
(* the number that is incremented belonged to.                                  *)
LEMMA NextSeqType ==
    ASSUME NEW n \in SeqNo
    PROVE  NextSeq(n) \in SeqNo
<1>1. n + 1 \in Nat
  BY ProtocolAssumption DEF SeqNo
<1>2. Modulus \in Nat \ {0} /\ Modulus \in {EpocMod, SiboMod}
  BY ProtocolAssumption DEF Modulus
<1>3. (n + 1) % Modulus \in 0 .. Modulus - 1
  BY <1>1, <1>2
<1> QED
  BY <1>2, <1>3, ProtocolAssumption DEF NextSeq, SeqNo

(* The frames the program sends and queues. *)
LEMMA FrameType ==
    /\ \A s \in SeqNo, p \in Packet : DataFrame(s, p) \in QueuedFrame
    /\ \A s \in SeqNo \cup {-1} : Ack(s) \in ToPeerFrame
    /\ ReqReq \in QueuedFrame /\ ReqCon \in QueuedFrame
    /\ QueuedFrame \subseteq ToPeerFrame
BY DEF QueuedFrame, ToPeerFrame

(* What arrives carries a sequence number, and data an item of the script. *)
LEMMA ArrivingType ==
    ASSUME NEW f \in FromPeerFrame
    PROVE  /\ f.seq \in SeqNo \cup {1, 4}
           /\ f.kind \in {"data", "ack"} => f.seq \in SeqNo
           /\ f.kind = "data" => f.pkt \in DOMAIN PeerScript
BY SmallSeqNo DEF FromPeerFrame, DataFrame, Ack, ReqCon, Req, Disc

(* sendAck leaves frames of their type on the line. *)
LEMMA SendAckType ==
    ASSUME LineTypeOK, NEW s \in SeqNo \cup {-1}, SendAck(s)
    PROVE  toPeer' \in Seq(ToPeerFrame)
<1>1. Ack(s) \in ToPeerFrame
  BY FrameType
<1> QED
  BY <1>1 DEF LineTypeOK, SendAck

(* A repetition of an entry that has tries left is an entry. *)
LEMMA RetryType ==
    ASSUME NEW e \in Entry, e.txcount # 0
    PROVE  Retry(e) \in Entry /\ Retry(e).frame = e.frame
<1>1. e.txcount - 1 \in Nat
  BY DEF Entry
<1> QED
  BY <1>1, NowIsStamp DEF Retry, Entry

-----------------------------------------------------------------------------
(* send and transmit keep the types *)

LEMMA SendStep ==
    ASSUME TypeInv, NEW s \in Sessions, Send(s)
    PROVE  TypeInv'
<1> USE DEF TypeInv, TypeOK
<1>1. LinkTypeOK'
  BY DEF Send, LinkTypeOK
<1>2. ThreadTypeOK'
  <2>1. nextSend \in Packet
    BY ScriptAssumption DEF Send, CountTypeOK, Packet
  <2>2. <<nextSend>> \in Seq(Packet)
    BY <2>1
  <2>3. todo' \in [Senders -> Seq(Packet)]
    BY <2>2 DEF Send, ThreadTypeOK
  <2> QED
    BY <2>3 DEF Send, ThreadTypeOK
<1>3. CountTypeOK'
  BY ScriptAssumption DEF Send, CountTypeOK
<1>4. QueueTypeOK' /\ LineTypeOK' /\ PeerTypeOK' /\ NcpTypeOK'
  BY DEF Send, QueueTypeOK, LineTypeOK, PeerTypeOK, NcpTypeOK,
         queueVars, lineVars, peerVars, ncpVars
<1>5. HasPacket'
  BY DEF Send, HasPacket, ThreadTypeOK, Senders
<1> QED
  BY <1>1, <1>2, <1>3, <1>4, <1>5

(* The packet a sender is at, and what is left when it is done with it. *)
LEMMA BufType ==
    ASSUME ThreadTypeOK, NEW t \in Senders, todo[t] # <<>>
    PROVE  Buf(t) \in Packet /\ Tail(todo[t]) \in Seq(Packet) /\ ChanOf[Buf(t)] \in Channels
<1>1. todo[t] \in Seq(Packet)
  BY DEF ThreadTypeOK
<1> QED
  BY <1>1, ScriptAssumption DEF Buf

LEMMA FinishType ==
    ASSUME ThreadTypeOK, HasPacket, NEW t \in Senders, todo[t] # <<>>, Finish(t)
    PROVE  /\ pc' \in [Threads -> Label] /\ todo' \in [Senders -> Seq(Packet)]
           /\ HasPacket'
<1>1. Tail(todo[t]) \in Seq(Packet) /\ t \in Threads
  BY BufType DEF Threads
<1> QED
  BY <1>1 DEF Finish, ThreadTypeOK, Label, HasPacket, Threads

LEMMA GotoType ==
    ASSUME ThreadTypeOK, HasPacket, NEW t \in Threads, NEW l \in Label, Goto(t, l),
           t \in Senders => todo[t] # <<>>
    PROVE  /\ pc' \in [Threads -> Label] /\ todo' \in [Senders -> Seq(Packet)]
           /\ HasPacket'
BY DEF Goto, ThreadTypeOK, Label, HasPacket, Threads

LEMMA SenderIsThread == Senders \subseteq Threads
BY DEF Threads

LEMMA LabelsType == {"idle", "hold", "load", "store", "send", "resend", "reset", "purge",
                     "restart", "request"} \subseteq Label
BY DEF Label

LEMMA TransmitDropStep ==
    ASSUME TypeInv, NEW t \in Senders, TransmitDrop(t)
    PROVE  TypeInv'
<1> USE DEF TypeInv, TypeOK
<1>1. /\ pc' \in [Threads -> Label] /\ todo' \in [Senders -> Seq(Packet)]
      /\ HasPacket'
  BY FinishType, GotoType, SenderIsThread, LabelsType DEF TransmitDrop
<1>2. ThreadTypeOK'
  BY <1>1 DEF TransmitDrop, ThreadTypeOK
<1>3. LinkTypeOK' /\ QueueTypeOK' /\ LineTypeOK' /\ PeerTypeOK' /\ NcpTypeOK' /\ CountTypeOK'
  BY DEF TransmitDrop, LinkTypeOK, QueueTypeOK, LineTypeOK, PeerTypeOK, NcpTypeOK,
         CountTypeOK, linkVars, queueVars, lineVars, peerVars, ncpVars, countVars
<1> QED
  BY <1>1, <1>2, <1>3

LEMMA TransmitHoldStep ==
    ASSUME TypeInv, NEW t \in Senders, TransmitHold(t)
    PROVE  TypeInv'
<1> USE DEF TypeInv, TypeOK
<1>0. todo[t] # <<>>
  BY DEF TransmitHold, HasPacket
<1>1. /\ pc' \in [Threads -> Label] /\ todo' \in [Senders -> Seq(Packet)]
      /\ HasPacket'
  BY <1>0, FinishType DEF TransmitHold
<1>2. ThreadTypeOK'
  BY <1>1 DEF TransmitHold, ThreadTypeOK
<1>3. QueueTypeOK'
  <2> DEFINE c == ChanOf[Buf(t)]
  <2>1. Buf(t) \in Packet /\ c \in Channels
    BY <1>0, BufType
  <2>2. Append(holdQueue[c], Buf(t)) \in Seq(Packet)
    BY <2>1 DEF QueueTypeOK
  <2>3. holdQueue' = [holdQueue EXCEPT ![c] = Append(holdQueue[c], Buf(t))]
    BY DEF TransmitHold
  <2> HIDE DEF c
  <2>4. holdQueue' \in [Channels -> Seq(Packet)]
    BY <2>2, <2>3 DEF QueueTypeOK
  <2> QED
    BY <2>4 DEF TransmitHold, QueueTypeOK
<1>4. LinkTypeOK' /\ LineTypeOK' /\ PeerTypeOK' /\ NcpTypeOK' /\ CountTypeOK'
  BY DEF TransmitHold, LinkTypeOK, LineTypeOK, PeerTypeOK, NcpTypeOK,
         CountTypeOK, linkVars, lineVars, peerVars, ncpVars, countVars
<1> QED
  BY <1>1, <1>2, <1>3, <1>4

LEMMA TransmitTestStep ==
    ASSUME TypeInv, NEW t \in Senders, TransmitTest(t)
    PROVE  TypeInv'
<1> USE DEF TypeInv, TypeOK
<1>0. todo[t] # <<>> /\ Buf(t) \in Packet
  BY BufType DEF TransmitTest
<1>1. /\ pc' \in [Threads -> Label] /\ todo' \in [Senders -> Seq(Packet)]
      /\ HasPacket'
  BY <1>0, FinishType, GotoType, SenderIsThread, LabelsType DEF TransmitTest
<1>2. ThreadTypeOK'
  BY <1>1 DEF TransmitTest, ThreadTypeOK
<1>3. QueueTypeOK'
  <2>1. Wait(Buf(t)) \in Seq(Packet)
    BY <1>0 DEF Wait, QueueTypeOK
  <2> QED
    BY <2>1 DEF TransmitTest, QueueTypeOK
<1>4. LinkTypeOK' /\ LineTypeOK' /\ PeerTypeOK' /\ NcpTypeOK' /\ CountTypeOK'
  BY DEF TransmitTest, LinkTypeOK, LineTypeOK, PeerTypeOK, NcpTypeOK,
         CountTypeOK, linkVars, lineVars, peerVars, ncpVars, countVars
<1> QED
  BY <1>1, <1>2, <1>3, <1>4

LEMMA TransmitLoadStep ==
    ASSUME TypeInv, NEW t \in Senders, TransmitLoad(t)
    PROVE  TypeInv'
<1> USE DEF TypeInv, TypeOK
<1>0. todo[t] # <<>>
  BY DEF TransmitLoad, HasPacket
<1>1. /\ pc' \in [Threads -> Label] /\ todo' \in [Senders -> Seq(Packet)]
      /\ HasPacket'
  BY <1>0, GotoType, SenderIsThread, LabelsType DEF TransmitLoad
<1>2. ThreadTypeOK'
  BY <1>1 DEF TransmitLoad, ThreadTypeOK, LinkTypeOK
<1>3. LinkTypeOK' /\ QueueTypeOK' /\ LineTypeOK' /\ PeerTypeOK' /\ NcpTypeOK' /\ CountTypeOK'
  BY DEF TransmitLoad, LinkTypeOK, QueueTypeOK, LineTypeOK, PeerTypeOK, NcpTypeOK,
         CountTypeOK, linkVars, queueVars, lineVars, peerVars, ncpVars, countVars
<1> QED
  BY <1>1, <1>2, <1>3

LEMMA TransmitPushStep ==
    ASSUME TypeInv, NEW t \in Senders, TransmitPush(t)
    PROVE  TypeInv'
<1> USE DEF TypeInv, TypeOK
<1>0. todo[t] # <<>> /\ Buf(t) \in Packet /\ eseq[t] \in SeqNo
  BY BufType DEF TransmitPush, HasPacket, ThreadTypeOK
<1>1. /\ pc' \in [Threads -> Label] /\ todo' \in [Senders -> Seq(Packet)]
      /\ HasPacket'
  BY <1>0, GotoType, SenderIsThread, LabelsType DEF TransmitPush
<1>2. ThreadTypeOK'
  BY <1>1 DEF TransmitPush, ThreadTypeOK
<1>3. LinkTypeOK'
  BY <1>0, NextSeqType DEF TransmitPush, LinkTypeOK
<1>4. QueueTypeOK'
  <2>1. NewEntry(DataFrame(eseq[t], Buf(t)), eseq[t], DataTries) \in Entry
    BY <1>0, NewEntryType, FrameType, ProtocolAssumption
  <2> QED
    BY <2>1 DEF TransmitPush, QueueTypeOK
<1>5. LineTypeOK' /\ PeerTypeOK' /\ NcpTypeOK' /\ CountTypeOK'
  BY DEF TransmitPush, LineTypeOK, PeerTypeOK, NcpTypeOK,
         CountTypeOK, lineVars, peerVars, ncpVars, countVars
<1> QED
  BY <1>1, <1>2, <1>3, <1>4, <1>5

LEMMA TransmitSendStep ==
    ASSUME TypeInv, NEW t \in Senders, TransmitSend(t)
    PROVE  TypeInv'
<1> USE DEF TypeInv, TypeOK
<1>0. todo[t] # <<>> /\ Buf(t) \in Packet /\ eseq[t] \in SeqNo
  BY BufType DEF TransmitSend, HasPacket, ThreadTypeOK
<1>1. /\ pc' \in [Threads -> Label] /\ todo' \in [Senders -> Seq(Packet)]
      /\ HasPacket'
  BY <1>0, FinishType DEF TransmitSend
<1>2. ThreadTypeOK'
  BY <1>1, SmallSeqNo DEF TransmitSend, ThreadTypeOK
<1>3. LineTypeOK'
  <2>1. DataFrame(eseq[t], Buf(t)) \in ToPeerFrame
    BY <1>0, FrameType
  <2> QED
    BY <2>1 DEF TransmitSend, LineTypeOK
<1>4. LinkTypeOK' /\ QueueTypeOK' /\ PeerTypeOK' /\ NcpTypeOK' /\ CountTypeOK'
  BY DEF TransmitSend, LinkTypeOK, QueueTypeOK, PeerTypeOK, NcpTypeOK,
         CountTypeOK, linkVars, queueVars, peerVars, ncpVars, countVars
<1> QED
  BY <1>1, <1>2, <1>3, <1>4

-----------------------------------------------------------------------------
(* receive keeps the types *)

(* The frame the pump reads, and what stays on the line. *)
LEMMA HeadType ==
    ASSUME LineTypeOK, fromPeer # <<>>
    PROVE  Head(fromPeer) \in FromPeerFrame /\ Tail(fromPeer) \in Seq(FromPeerFrame)
BY DEF LineTypeOK

LEMMA SendFrameType ==
    ASSUME LineTypeOK, NEW f \in ToPeerFrame
    PROVE  Append(toPeer, f) \in Seq(ToPeerFrame)
BY DEF LineTypeOK

LEMMA PumpIsSender == "pump" \in Senders /\ Senders \subseteq Threads
BY DEF Senders, Threads

(* While the pump reads, it is not inside transmit. *)
LEMMA TakeOver ==
    ASSUME ThreadTypeOK, HasPacket, pc["pump"] = "idle", NEW q \in Seq(Packet),
           todo' = [todo EXCEPT !["pump"] = q], pc' = pc
    PROVE  todo' \in [Senders -> Seq(Packet)] /\ HasPacket'
BY PumpIsSender DEF ThreadTypeOK, HasPacket

(* What the NCP gets, on one link and on any. *)
LEMMA ReceiveType ==
    ASSUME NcpTypeOK, NEW i \in DOMAIN PeerScript, Receive(i)
    PROVE  NcpTypeOK'
<1> DEFINE D == DOMAIN PeerScript
<1>1. ncpGot \in Seq(D) /\ i \in D
  BY DEF NcpTypeOK
<1> HIDE DEF D
<1>2. Append(ncpGot, i) \in Seq(D)
  BY <1>1
<1> QED
  BY <1>1, <1>2 DEF Receive, NcpTypeOK, D

LEMMA NewLinkType ==
    ASSUME NcpTypeOK, NewLink
    PROVE  NcpTypeOK'
<1> DEFINE D == DOMAIN PeerScript
<1> HIDE DEF D
<1>1. <<>> \in Seq(D)
  OBVIOUS
<1> QED
  BY <1>1 DEF NewLink, NcpTypeOK, D

(* Emptied hold queues are hold queues. *)
LEMMA EmptyHold == [c \in Channels |-> <<>>] \in [Channels -> Seq(Packet)]
OBVIOUS

LEMMA PurgeQueueStep ==
    ASSUME TypeInv, PurgeQueue
    PROVE  TypeInv'
<1> USE DEF TypeInv, TypeOK
<1>1. QueueTypeOK'
  <2>1. holdQueue' \in [Channels -> Seq(Packet)]
    <3>1. <<>> \in Seq(Packet)
      OBVIOUS
    <3> QED
      BY <3>1 DEF PurgeQueue, QueueTypeOK
  <2> QED
    BY <2>1 DEF PurgeQueue, QueueTypeOK
<1>2. ThreadTypeOK' /\ HasPacket'
  BY DEF PurgeQueue, ThreadTypeOK, HasPacket
<1>3. LinkTypeOK' /\ LineTypeOK' /\ PeerTypeOK' /\ NcpTypeOK' /\ CountTypeOK'
  BY DEF PurgeQueue, LinkTypeOK, LineTypeOK, PeerTypeOK, NcpTypeOK, CountTypeOK,
         linkVars, lineVars, peerVars, ncpVars, countVars
<1> QED
  BY <1>1, <1>2, <1>3

LEMMA ReceiveDataStep ==
    ASSUME TypeInv, ReceiveData
    PROVE  TypeInv'
<1> USE DEF TypeInv, TypeOK
<1> DEFINE f == Head(fromPeer)
           i == f.pkt
           item == PeerScript[i]
<1>0. /\ fromPeer # <<>> /\ f.kind = "data" /\ pc["pump"] = "idle"
      /\ pc' = pc /\ fromPeer' = Tail(fromPeer)
  BY DEF ReceiveData, Receiving
<1>1. /\ f \in FromPeerFrame /\ Tail(fromPeer) \in Seq(FromPeerFrame)
      /\ f.seq \in SeqNo /\ i \in DOMAIN PeerScript
  BY <1>0, HeadType, ArrivingType
<1>2. item \in PeerItem /\ item.chan \in Channels /\ item.reply \in BOOLEAN
  <2>1. i \in 1 .. Len(PeerScript) /\ PeerScript \in Seq(PeerItem)
    BY <1>1, ScriptAssumption
  <2>2. item \in PeerItem
    BY <2>1
  <2> QED
    BY <2>2 DEF PeerItem
<1>3. NSession + i \in Packet /\ <<NSession + i>> \in Seq(Packet)
  BY <1>1, ScriptAssumption DEF Packet
<1>4. CASE InSequence(f)
  <2>1. /\ rxSequence' = f.seq /\ SendAck(f.seq) /\ Deliver(i, item)
        /\ purging' = IF item.kind = "disconnect" THEN item.chan ELSE None
    BY <1>4 DEF ReceiveData
  <2> HIDE DEF item, i, f
  <2>2. LineTypeOK'
    BY <2>1, <1>0, <1>1, SendAckType DEF LineTypeOK
  <2>3. holdQueue' \in [Channels -> Seq(Packet)] /\ xoff' \in [Channels -> BOOLEAN]
    <3>1. <<>> \in Seq(Packet)
      OBVIOUS
    <3>2. CASE item.kind = "xon"
      BY <3>1, <3>2, <2>1, <1>2 DEF Deliver, ReleaseHeld, QueueTypeOK
    <3>3. CASE item.kind # "xon"
      BY <3>3, <2>1, <1>2 DEF Deliver, QueueTypeOK
    <3> QED
      BY <3>2, <3>3
  <2>4. todo' \in [Senders -> Seq(Packet)] /\ HasPacket'
    <3>1. CASE item.kind = "xoff"
      BY <3>1, <2>1, <1>0 DEF Deliver, ThreadTypeOK, HasPacket
    <3>2. CASE item.kind = "xon"
      <4>1. holdQueue[item.chan] \in Seq(Packet)
        BY <1>2 DEF QueueTypeOK
      <4> QED
        BY <4>1, <3>2, <2>1, <1>0, TakeOver DEF Deliver, ReleaseHeld
    <3>3. CASE item.kind \in {"data", "disconnect"}
      <4>1. (IF item.reply THEN <<NSession + i>> ELSE <<>>) \in Seq(Packet)
        BY <1>3
      <4> QED
        BY <4>1, <3>3, <2>1, <1>0, TakeOver DEF Deliver
    <3> QED
      BY <3>1, <3>2, <3>3, <2>1 DEF Deliver
  <2>5. NcpTypeOK'
    BY <2>1, <1>1, ReceiveType DEF Deliver, NcpTypeOK, ncpVars
  <2>6. ThreadTypeOK'
    BY <2>1, <2>4, <1>2 DEF ReceiveData, ThreadTypeOK
  <2>7. LinkTypeOK' /\ QueueTypeOK'
    BY <2>1, <2>3, <1>1 DEF ReceiveData, LinkTypeOK, QueueTypeOK
  <2>8. PeerTypeOK' /\ CountTypeOK'
    BY DEF ReceiveData, PeerTypeOK, CountTypeOK, peerVars, countVars
  <2> QED
    BY <2>2, <2>4, <2>5, <2>6, <2>7, <2>8
<1>5. CASE ~InSequence(f)
  <2>1. SendAck(rxSequence) /\ UNCHANGED <<rxSequence, holdQueue, xoff, todo, purging, ncpVars>>
    BY <1>5 DEF ReceiveData
  <2> HIDE DEF item, i, f
  <2>2. LineTypeOK'
    BY <2>1, <1>0, <1>1, SendAckType DEF LineTypeOK, LinkTypeOK
  <2>3. LinkTypeOK' /\ QueueTypeOK' /\ ThreadTypeOK' /\ HasPacket'
    BY <2>1 DEF ReceiveData, LinkTypeOK, QueueTypeOK, ThreadTypeOK, HasPacket
  <2>4. PeerTypeOK' /\ CountTypeOK' /\ NcpTypeOK'
    BY <2>1 DEF ReceiveData, PeerTypeOK, CountTypeOK, NcpTypeOK, peerVars, countVars, ncpVars
  <2> QED
    BY <2>2, <2>3, <2>4
<1> QED
  BY <1>4, <1>5

LEMMA StartSiboType ==
    ASSUME QueueTypeOK, NcpTypeOK, LinkTypeOK, StartSibo
    PROVE  LinkTypeOK' /\ NcpTypeOK' /\ ackWaitQueue' \subseteq Entry
           /\ holdQueue' \in [Channels -> Seq(Packet)]
<1>1. NcpTypeOK'
  BY NewLinkType DEF StartSibo
<1>2. LinkTypeOK'
  BY SmallSeqNo DEF StartSibo, LinkTypeOK
<1> QED
  BY <1>1, <1>2, EmptyHold DEF StartSibo

LEMMA ReceiveAckStep ==
    ASSUME TypeInv, ReceiveAck
    PROVE  TypeInv'
<1> USE DEF TypeInv, TypeOK
<1> DEFINE s == Head(fromPeer).seq
<1>0. /\ fromPeer # <<>> /\ pc["pump"] = "idle" /\ pc' = pc
      /\ todo' = [todo EXCEPT !["pump"] = waitQueue]
  BY DEF ReceiveAck, Receiving
<1>1. LinkTypeOK' /\ NcpTypeOK' /\ ackWaitQueue' \subseteq Entry
      /\ holdQueue' \in [Channels -> Seq(Packet)]
  <2>1. CASE StartSibo
    BY <2>1, StartSiboType
  <2>2. CASE /\ \E e \in First(Matching(s)) : ackWaitQueue' = MultiAck(e)
             /\ UNCHANGED <<linkVars, holdQueue, ncpVars>>
    BY <2>2 DEF MultiAck, QueueTypeOK, LinkTypeOK, NcpTypeOK, linkVars, ncpVars
  <2> QED
    BY <2>1, <2>2 DEF ReceiveAck
<1>2. QueueTypeOK'
  BY <1>1 DEF ReceiveAck, QueueTypeOK
<1>3. todo' \in [Senders -> Seq(Packet)] /\ HasPacket'
  BY <1>0, TakeOver DEF QueueTypeOK
<1>4. ThreadTypeOK'
  BY <1>3 DEF ReceiveAck, ThreadTypeOK
<1>5. LineTypeOK'
  BY <1>0, HeadType DEF ReceiveAck, LineTypeOK
<1>6. PeerTypeOK' /\ CountTypeOK'
  BY DEF ReceiveAck, PeerTypeOK, CountTypeOK, peerVars, countVars
<1> QED
  BY <1>1, <1>2, <1>3, <1>4, <1>5, <1>6

LEMMA FramesType ==
    ASSUME NEW S \in SUBSET Entry
    PROVE  Frames(S) \in SUBSET [pos : Stamp, frame : QueuedFrame]
BY DEF Frames, Entry

LEMMA ReceiveHintStep ==
    ASSUME TypeInv, ReceiveHint
    PROVE  TypeInv'
<1> USE DEF TypeInv, TypeOK
<1> DEFINE s == Head(fromPeer).seq
<1>0. /\ fromPeer # <<>> /\ pc["pump"] = "idle"
      /\ UNCHANGED <<holdQueue, waitQueue, xoff, todo, eseq, purging>>
  BY DEF ReceiveHint, Receiving
<1> DEFINE Kept == /\ ackWaitQueue' \subseteq Entry /\ pc' \in [Threads -> Label]
                   /\ pending' \in [Threads -> SUBSET [pos : Stamp, frame : QueuedFrame]]
                   /\ HasPacket'
<1>1. Kept
  <2>1. CASE UNCHANGED <<ackWaitQueue, pending, pc>>
    BY <2>1, <1>0 DEF QueueTypeOK, ThreadTypeOK, HasPacket
  <2>2. ASSUME NEW e \in First(Matching(s + 1)), e.txcount = 0,
               ackWaitQueue' = ackWaitQueue \ {e}, UNCHANGED <<pending, pc>>
        PROVE  Kept
    BY <2>2, <1>0 DEF QueueTypeOK, ThreadTypeOK, HasPacket
  <2>3. ASSUME NEW e \in First(Matching(s + 1)), e.txcount > 0,
               ackWaitQueue' = (ackWaitQueue \ {e}) \cup {Retry(e)},
               pending' = [pending EXCEPT !["pump"] = Frames({e})],
               pc' = [pc EXCEPT !["pump"] = "resend"]
        PROVE  Kept
    <3>1. e \in Entry
      BY DEF First, Matching, QueueTypeOK
    <3>2. Retry(e) \in Entry
      BY <2>3, <3>1, RetryType
    <3>3. Frames({e}) \in SUBSET [pos : Stamp, frame : QueuedFrame]
      BY <3>1, FramesType
    <3>4. ackWaitQueue' \subseteq Entry
      BY <2>3, <3>2 DEF QueueTypeOK
    <3>5. pending' \in [Threads -> SUBSET [pos : Stamp, frame : QueuedFrame]]
      BY <2>3, <3>3 DEF ThreadTypeOK
    <3>6. pc' \in [Threads -> Label] /\ HasPacket'
      BY <2>3, <1>0, PumpIsSender DEF ThreadTypeOK, HasPacket, Label
    <3> QED
      BY <3>4, <3>5, <3>6
  <2> QED
    BY <2>1, <2>2, <2>3 DEF ReceiveHint
<1>2. QueueTypeOK' /\ ThreadTypeOK'
  BY <1>0, <1>1 DEF QueueTypeOK, ThreadTypeOK
<1>3. LineTypeOK'
  BY <1>0, HeadType DEF ReceiveHint, LineTypeOK
<1>4. LinkTypeOK' /\ NcpTypeOK' /\ PeerTypeOK' /\ CountTypeOK'
  BY DEF ReceiveHint, LinkTypeOK, NcpTypeOK, PeerTypeOK, CountTypeOK,
         linkVars, ncpVars, peerVars, countVars
<1> QED
  BY <1>1, <1>2, <1>3, <1>4

LEMMA ResendStep ==
    ASSUME TypeInv, NEW t \in Threads, Resend(t)
    PROVE  TypeInv'
<1> USE DEF TypeInv, TypeOK
<1>1. PICK e \in First(pending[t]) :
           /\ toPeer' = Append(toPeer, e.frame)
           /\ pending' = [pending EXCEPT ![t] = @ \ {e}]
           /\ pc' = [pc EXCEPT ![t] = IF pending[t] = {e} THEN "idle" ELSE "resend"]
  BY DEF Resend
<1>2. e \in [pos : Stamp, frame : QueuedFrame]
  BY DEF First, ThreadTypeOK
<1>3. ThreadTypeOK' /\ HasPacket'
  BY <1>1 DEF Resend, ThreadTypeOK, HasPacket, Label
<1>4. LineTypeOK'
  BY <1>1, <1>2, FrameType, SendFrameType DEF Resend, LineTypeOK
<1>5. LinkTypeOK' /\ QueueTypeOK' /\ PeerTypeOK' /\ NcpTypeOK' /\ CountTypeOK'
  BY DEF Resend, LinkTypeOK, QueueTypeOK, PeerTypeOK, NcpTypeOK, CountTypeOK,
         linkVars, queueVars, peerVars, ncpVars, countVars
<1> QED
  BY <1>3, <1>4, <1>5

LEMMA ReceiveConStep ==
    ASSUME TypeInv, ReceiveCon
    PROVE  TypeInv'
<1> USE DEF TypeInv, TypeOK
<1>1. QueueTypeOK'
  BY DEF ReceiveCon, QueueTypeOK
<1>2. LineTypeOK'
  <2>1. Ack(0) \in ToPeerFrame
    BY FrameType, SmallSeqNo
  <2> QED
    BY <2>1, HeadType, SendFrameType DEF ReceiveCon, Receiving, LineTypeOK
<1>3. LinkTypeOK' /\ NcpTypeOK'
  BY SmallSeqNo, NewLinkType DEF ReceiveCon, LinkTypeOK
<1>4. ThreadTypeOK' /\ HasPacket' /\ PeerTypeOK' /\ CountTypeOK'
  BY DEF ReceiveCon, ThreadTypeOK, HasPacket, PeerTypeOK, CountTypeOK, threadVars, peerVars,
         countVars
<1> QED
  BY <1>1, <1>2, <1>3, <1>4

LEMMA ReceiveReqEpocStep ==
    ASSUME TypeInv, ReceiveReqEpoc
    PROVE  TypeInv'
<1> USE DEF TypeInv, TypeOK
<1>0. ReqCon \in QueuedFrame /\ ReqCon \in ToPeerFrame
  BY FrameType
<1>1. QueueTypeOK'
  <2>1. NewEntry(ReqCon, 0, ReqTries) \in Entry
    BY <1>0, NewEntryType, SmallSeqNo, ProtocolAssumption
  <2> QED
    BY <2>1 DEF ReceiveReqEpoc, QueueTypeOK
<1>2. LineTypeOK'
  BY <1>0, HeadType, SendFrameType DEF ReceiveReqEpoc, Receiving, LineTypeOK
<1>3. LinkTypeOK' /\ NcpTypeOK'
  BY SmallSeqNo, NewLinkType DEF ReceiveReqEpoc, LinkTypeOK
<1>4. ThreadTypeOK' /\ HasPacket' /\ PeerTypeOK' /\ CountTypeOK'
  BY DEF ReceiveReqEpoc, ThreadTypeOK, HasPacket, PeerTypeOK, CountTypeOK, threadVars,
         peerVars, countVars
<1> QED
  BY <1>1, <1>2, <1>3, <1>4

LEMMA ReceiveReqSiboStep ==
    ASSUME TypeInv, ReceiveReqSibo
    PROVE  TypeInv'
<1> USE DEF TypeInv, TypeOK
<1>1. LinkTypeOK' /\ NcpTypeOK' /\ QueueTypeOK'
  BY StartSiboType DEF ReceiveReqSibo, QueueTypeOK
<1>2. LineTypeOK'
  <2>1. Ack(0) \in ToPeerFrame
    BY FrameType, SmallSeqNo
  <2> QED
    BY <2>1, HeadType, SendFrameType DEF ReceiveReqSibo, Receiving, LineTypeOK
<1>3. ThreadTypeOK' /\ HasPacket' /\ PeerTypeOK' /\ CountTypeOK'
  BY DEF ReceiveReqSibo, ThreadTypeOK, HasPacket, PeerTypeOK, CountTypeOK, threadVars,
         peerVars, countVars
<1> QED
  BY <1>1, <1>2, <1>3

LEMMA ReceiveDiscStep ==
    ASSUME TypeInv, ReceiveDisc
    PROVE  TypeInv'
<1> USE DEF TypeInv, TypeOK
<1>1. LinkTypeOK'
  BY DEF ReceiveDisc, LinkTypeOK
<1>2. LineTypeOK'
  BY HeadType DEF ReceiveDisc, Receiving, LineTypeOK
<1>3. /\ QueueTypeOK' /\ ThreadTypeOK' /\ HasPacket'
      /\ PeerTypeOK' /\ NcpTypeOK' /\ CountTypeOK'
  BY DEF ReceiveDisc, QueueTypeOK, ThreadTypeOK, HasPacket, PeerTypeOK, NcpTypeOK,
         CountTypeOK, queueVars, threadVars, peerVars, ncpVars, countVars
<1> QED
  BY <1>1, <1>2, <1>3

-----------------------------------------------------------------------------
(* The timer and link_thread keep the types *)

(* Where a thread that is not a sender goes does not matter to the senders. *)
LEMMA OtherGoto ==
    ASSUME ThreadTypeOK, HasPacket, NEW t \in {"timer", "link"}, NEW l \in Label, Goto(t, l)
    PROVE  /\ pc' \in [Threads -> Label] /\ todo' \in [Senders -> Seq(Packet)]
           /\ HasPacket'
<1>1. t \in Threads /\ t \notin Senders
  BY SessionsAssumption DEF Threads, Senders
<1> QED
  BY <1>1, GotoType

LEMMA RetransmitTestStep ==
    ASSUME TypeInv, RetransmitTest
    PROVE  TypeInv'
<1> USE DEF TypeInv, TypeOK
<1>1. ThreadTypeOK' /\ HasPacket'
  BY OtherGoto, LabelsType DEF RetransmitTest, ThreadTypeOK
<1>2. LinkTypeOK' /\ QueueTypeOK' /\ LineTypeOK' /\ PeerTypeOK' /\ NcpTypeOK' /\ CountTypeOK'
  BY DEF RetransmitTest, LinkTypeOK, QueueTypeOK, LineTypeOK, PeerTypeOK, NcpTypeOK,
         CountTypeOK, linkVars, queueVars, lineVars, peerVars, ncpVars, countVars
<1> QED
  BY <1>1, <1>2

LEMMA RetransmitPurgeStep ==
    ASSUME TypeInv, RetransmitPurge
    PROVE  TypeInv'
<1> USE DEF TypeInv, TypeOK
<1>1. ThreadTypeOK' /\ HasPacket'
  BY OtherGoto, LabelsType DEF RetransmitPurge, ThreadTypeOK
<1>2. QueueTypeOK'
  BY EmptyHold DEF RetransmitPurge, QueueTypeOK
<1>3. LinkTypeOK' /\ LineTypeOK' /\ PeerTypeOK' /\ NcpTypeOK' /\ CountTypeOK'
  BY DEF RetransmitPurge, LinkTypeOK, LineTypeOK, PeerTypeOK, NcpTypeOK,
         CountTypeOK, linkVars, lineVars, peerVars, ncpVars, countVars
<1> QED
  BY <1>1, <1>2, <1>3

LEMMA RetransmitStep ==
    ASSUME TypeInv, Retransmit
    PROVE  TypeInv'
<1> USE DEF TypeInv, TypeOK
<1>1. PICK S \in SUBSET ackWaitQueue :
        LET again == {Retry(e) : e \in {x \in S : x.txcount # 0}} IN
         /\ ackWaitQueue' = (ackWaitQueue \ S) \cup again
         /\ failed' \in BOOLEAN
         /\ pending' = [pending EXCEPT !["timer"] = Frames(again)]
         /\ pc' = [pc EXCEPT !["timer"] = IF again = {} THEN "idle" ELSE "resend"]
  <2>1. PICK oldest \in ackWaitQueue :
         LET expired == {e \in ackWaitQueue : e.stamp <= oldest.stamp}
             dead == {e \in expired : e.txcount = 0}
             again == {Retry(e) : e \in expired \ dead} IN
         /\ ackWaitQueue' = (ackWaitQueue \ expired) \cup again
         /\ failed' = (dead # {})
         /\ pending' = [pending EXCEPT !["timer"] = Frames(again)]
         /\ pc' = [pc EXCEPT !["timer"] = IF again = {} THEN "idle" ELSE "resend"]
    BY DEF Retransmit
  <2> DEFINE S == {e \in ackWaitQueue : e.stamp <= oldest.stamp}
             D == {e \in S : e.txcount = 0}
  <2>2. S \ D = {x \in S : x.txcount # 0} /\ S \in SUBSET ackWaitQueue
    OBVIOUS
  <2> QED
    BY <2>1, <2>2
<1> DEFINE again == {Retry(e) : e \in {x \in S : x.txcount # 0}}
<1>2. again \in SUBSET Entry
  BY RetryType DEF QueueTypeOK
<1>3. Frames(again) \in SUBSET [pos : Stamp, frame : QueuedFrame]
  BY <1>2, FramesType
<1> HIDE DEF again
<1>4. QueueTypeOK'
  BY <1>1, <1>2 DEF Retransmit, QueueTypeOK, again
<1>5. ThreadTypeOK' /\ HasPacket'
  <2>1. "timer" \in Threads /\ "timer" \notin Senders
    BY SessionsAssumption DEF Threads, Senders
  <2>2. pc' = [pc EXCEPT !["timer"] = IF again = {} THEN "idle" ELSE "resend"]
    BY <1>1 DEF again
  <2>3. pc' \in [Threads -> Label] /\ HasPacket'
    BY <2>1, <2>2 DEF Retransmit, ThreadTypeOK, HasPacket, Label, Threads
  <2>4. pending' \in [Threads -> SUBSET [pos : Stamp, frame : QueuedFrame]]
    BY <1>1, <1>3 DEF ThreadTypeOK, again
  <2> QED
    BY <2>3, <2>4 DEF Retransmit, ThreadTypeOK
<1>6. LinkTypeOK'
  BY <1>1 DEF Retransmit, LinkTypeOK
<1>7. LineTypeOK' /\ PeerTypeOK' /\ NcpTypeOK' /\ CountTypeOK'
  BY DEF Retransmit, LineTypeOK, PeerTypeOK, NcpTypeOK, CountTypeOK,
         lineVars, peerVars, ncpVars, countVars
<1> QED
  BY <1>4, <1>5, <1>6, <1>7

LEMMA ResetTestStep ==
    ASSUME TypeInv, ResetTest
    PROVE  TypeInv'
<1> USE DEF TypeInv, TypeOK
<1>1. ThreadTypeOK' /\ HasPacket'
  BY OtherGoto, LabelsType DEF ResetTest, ThreadTypeOK
<1>2. LinkTypeOK' /\ QueueTypeOK' /\ LineTypeOK' /\ PeerTypeOK' /\ NcpTypeOK' /\ CountTypeOK'
  BY DEF ResetTest, LinkTypeOK, QueueTypeOK, LineTypeOK, PeerTypeOK, NcpTypeOK,
         CountTypeOK, linkVars, queueVars, lineVars, peerVars, ncpVars, countVars
<1> QED
  BY <1>1, <1>2

LEMMA ResetFieldsStep ==
    ASSUME TypeInv, ResetFields
    PROVE  TypeInv'
<1> USE DEF TypeInv, TypeOK
<1>1. ThreadTypeOK' /\ HasPacket'
  BY OtherGoto, LabelsType DEF ResetFields, ThreadTypeOK
<1>2. LinkTypeOK' /\ NcpTypeOK'
  BY SmallSeqNo, NewLinkType DEF ResetFields, LinkTypeOK
<1>3. QueueTypeOK' /\ LineTypeOK' /\ PeerTypeOK' /\ CountTypeOK'
  BY DEF ResetFields, QueueTypeOK, LineTypeOK, PeerTypeOK, CountTypeOK,
         queueVars, lineVars, peerVars, countVars
<1> QED
  BY <1>1, <1>2, <1>3

LEMMA ResetPurgeStep ==
    ASSUME TypeInv, ResetPurge
    PROVE  TypeInv'
<1> USE DEF TypeInv, TypeOK
<1>1. ThreadTypeOK' /\ HasPacket'
  BY OtherGoto, LabelsType DEF ResetPurge, ThreadTypeOK
<1>2. QueueTypeOK'
  BY EmptyHold DEF ResetPurge, QueueTypeOK
<1>3. LinkTypeOK' /\ LineTypeOK' /\ PeerTypeOK' /\ NcpTypeOK' /\ CountTypeOK'
  BY DEF ResetPurge, LinkTypeOK, LineTypeOK, PeerTypeOK, NcpTypeOK,
         CountTypeOK, linkVars, lineVars, peerVars, ncpVars, countVars
<1> QED
  BY <1>1, <1>2, <1>3

(* A line without its first frame is a line. *)
LEMMA TailType ==
    ASSUME NEW F, NEW q \in Seq(F), q # <<>>
    PROVE  Tail(q) \in Seq(F)
OBVIOUS

(* Any part of a line without its ends is a line. *)
LEMMA PartOfLine ==
    ASSUME NEW F, NEW q \in Seq(F), NEW i \in 1 .. Len(q) + 1, NEW j \in 0 .. Len(q)
    PROVE  SubSeq(q, i, j) \in Seq(F)
OBVIOUS

LEMMA ResetLineStep ==
    ASSUME TypeInv, ResetLine
    PROVE  TypeInv'
<1> USE DEF TypeInv, TypeOK
<1>1. ThreadTypeOK' /\ HasPacket'
  BY OtherGoto, LabelsType DEF ResetLine, ThreadTypeOK
<1>2. LineTypeOK'
  <2>0. toPeer \in Seq(ToPeerFrame) /\ fromPeer \in Seq(FromPeerFrame)
    BY DEF LineTypeOK
  <2>1. PICK n \in 0 .. Len(toPeer) : toPeer' = SubSeq(toPeer, 1, n)
    BY DEF ResetLine
  <2>2. toPeer' \in Seq(ToPeerFrame)
    BY <2>0, <2>1, PartOfLine
  <2>3. PICK m \in 1 .. Len(fromPeer) + 1 : fromPeer' = SubSeq(fromPeer, m, Len(fromPeer))
    BY DEF ResetLine
  <2>4. fromPeer' \in Seq(FromPeerFrame)
    BY <2>0, <2>3, PartOfLine
  <2> QED
    BY <2>2, <2>4 DEF LineTypeOK
<1>3. QueueTypeOK'
  BY DEF ResetLine, QueueTypeOK
<1>4. LinkTypeOK' /\ PeerTypeOK' /\ NcpTypeOK' /\ CountTypeOK'
  BY DEF ResetLine, LinkTypeOK, PeerTypeOK, NcpTypeOK,
         CountTypeOK, linkVars, peerVars, ncpVars, countVars
<1> QED
  BY <1>1, <1>2, <1>3, <1>4

LEMMA ResetRequestStep ==
    ASSUME TypeInv, ResetRequest
    PROVE  TypeInv'
<1> USE DEF TypeInv, TypeOK
<1>0. ReqReq \in QueuedFrame /\ ReqReq \in ToPeerFrame
  BY FrameType
<1>1. ThreadTypeOK' /\ HasPacket'
  BY OtherGoto, LabelsType DEF ResetRequest, ThreadTypeOK
<1>2. QueueTypeOK'
  <2>1. NewEntry(ReqReq, 0, ReqTries) \in Entry
    BY <1>0, NewEntryType, SmallSeqNo, ProtocolAssumption
  <2> QED
    BY <2>1 DEF ResetRequest, QueueTypeOK
<1>3. LineTypeOK'
  BY <1>0, SendFrameType DEF ResetRequest, LineTypeOK
<1>4. LinkTypeOK' /\ PeerTypeOK' /\ NcpTypeOK' /\ CountTypeOK'
  BY DEF ResetRequest, LinkTypeOK, PeerTypeOK, NcpTypeOK,
         CountTypeOK, linkVars, peerVars, ncpVars, countVars
<1> QED
  BY <1>1, <1>2, <1>3, <1>4

-----------------------------------------------------------------------------
(* The line and the Psion keep the types *)

LEMMA LoseStep ==
    ASSUME TypeInv, Lose
    PROVE  TypeInv'
<1> USE DEF TypeInv, TypeOK
<1>1. LineTypeOK'
  <2>1. \/ toPeer # <<>> /\ toPeer' = Tail(toPeer) /\ fromPeer' = fromPeer
        \/ fromPeer # <<>> /\ fromPeer' = Tail(fromPeer) /\ toPeer' = toPeer
    BY Zenon DEF Lose
  <2>2. LineTypeOK
    BY Zenon
  <2> QED
    BY ONLY <2>1, <2>2, TailType DEF LineTypeOK
<1>2. CountTypeOK'
  BY ProtocolAssumption DEF Lose, Fault, CountTypeOK
<1>3. /\ LinkTypeOK' /\ QueueTypeOK' /\ ThreadTypeOK' /\ HasPacket'
      /\ PeerTypeOK' /\ NcpTypeOK'
  BY DEF Lose, LinkTypeOK, QueueTypeOK, ThreadTypeOK, HasPacket, PeerTypeOK, NcpTypeOK,
         linkVars, queueVars, threadVars, peerVars, ncpVars
<1> QED
  BY <1>1, <1>2, <1>3

LEMMA HasFailedStep ==
    ASSUME TypeInv, HasFailed
    PROVE  TypeInv'
<1> USE DEF TypeInv, TypeOK
<1>1. LinkTypeOK'
  BY DEF HasFailed, LinkTypeOK
<1>2. CountTypeOK'
  BY ProtocolAssumption DEF HasFailed, Fault, CountTypeOK
<1>3. /\ LineTypeOK' /\ QueueTypeOK' /\ ThreadTypeOK' /\ HasPacket'
      /\ PeerTypeOK' /\ NcpTypeOK'
  BY DEF HasFailed, LineTypeOK, QueueTypeOK, ThreadTypeOK, HasPacket, PeerTypeOK, NcpTypeOK,
         lineVars, queueVars, threadVars, peerVars, ncpVars
<1> QED
  BY <1>1, <1>2, <1>3

LEMMA AnswerType ==
    ASSUME LineTypeOK, NEW f \in FromPeerFrame, Answer(f)
    PROVE  fromPeer' \in Seq(FromPeerFrame)
BY DEF LineTypeOK, Answer

LEMMA PeerFrames ==
    /\ \A s \in SeqNo : Ack(s) \in FromPeerFrame
    /\ {ReqCon, Req(0), Req(1), Disc} \subseteq FromPeerFrame
BY DEF FromPeerFrame

(* What the Psion takes off the line. *)
LEMMA ToPeerHead ==
    ASSUME LineTypeOK, toPeer # <<>>
    PROVE  /\ Head(toPeer) \in ToPeerFrame /\ Tail(toPeer) \in Seq(ToPeerFrame)
           /\ Head(toPeer).kind = "data" =>
                 Head(toPeer).seq \in SeqNo /\ Head(toPeer).pkt \in Packet
<1>1. Head(toPeer) \in ToPeerFrame /\ Tail(toPeer) \in Seq(ToPeerFrame)
  BY DEF LineTypeOK
<1>2. ASSUME NEW f \in ToPeerFrame, f.kind = "data"
      PROVE  f.seq \in SeqNo /\ f.pkt \in Packet
  BY <1>2 DEF ToPeerFrame, DataFrame, Ack, ReqReq, ReqCon
<1> QED
  BY <1>1, <1>2

LEMMA LinkUpType ==
    ASSUME PeerTypeOK, NEW rx \in SeqNo \cup {-1}, NEW con \in BOOLEAN, NEW magic \in BOOLEAN,
           LinkUp(rx, con, magic)
    PROVE  PeerTypeOK'
<1>1. <<>> \in Seq(Packet)
  OBVIOUS
<1> QED
  BY <1>1, SmallSeqNo DEF PeerTypeOK, LinkUp

LEMMA PeerLinkStep ==
    ASSUME TypeInv, PeerLink
    PROVE  TypeInv'
<1> USE DEF TypeInv, TypeOK
<1>1. PeerTypeOK'
  BY LinkUpType, SmallSeqNo DEF PeerLink, PeerTypeOK, peerVars
<1>2. fromPeer' \in Seq(FromPeerFrame)
  BY AnswerType, PeerFrames, SmallSeqNo DEF PeerLink
<1>3. LineTypeOK'
  BY <1>2, ToPeerHead DEF PeerLink, LineTypeOK
<1>4. /\ LinkTypeOK' /\ QueueTypeOK' /\ ThreadTypeOK' /\ HasPacket'
      /\ NcpTypeOK' /\ CountTypeOK'
  BY DEF PeerLink, LinkTypeOK, QueueTypeOK, ThreadTypeOK, HasPacket, NcpTypeOK, CountTypeOK,
         linkVars, queueVars, threadVars, ncpVars, countVars
<1> QED
  BY <1>1, <1>3, <1>4

LEMMA PeerDataStep ==
    ASSUME TypeInv, PeerData
    PROVE  TypeInv'
<1> USE DEF TypeInv, TypeOK
<1> DEFINE f == Head(toPeer)
<1>0. /\ toPeer # <<>> /\ f.seq \in SeqNo /\ f.pkt \in Packet
      /\ Tail(toPeer) \in Seq(ToPeerFrame)
  BY ToPeerHead DEF PeerData
<1>a. toPeer' = Tail(toPeer)
  BY DEF PeerData
<1>b. fromPeer' \in Seq(FromPeerFrame) => LineTypeOK'
  BY <1>0, <1>a DEF LineTypeOK
<1>1. ASSUME peer' = [peer EXCEPT !.rx = f.seq], peerGot' = Append(peerGot, f.pkt),
             Answer(Ack(f.seq))
      PROVE  LineTypeOK' /\ PeerTypeOK'
  <2> HIDE DEF f
  <2>1. peer' \in [type : PeerTypes, up : BOOLEAN, rx : SeqNo \cup {-1}, txSeq : SeqNo,
                   item : 1 .. Len(PeerScript) + 1, con : BOOLEAN, magic : BOOLEAN]
    BY <1>0, <1>1 DEF PeerTypeOK
  <2>2. peerGot' \in Seq(Packet)
    BY <1>0, <1>1 DEF PeerTypeOK
  <2>3. fromPeer' \in Seq(FromPeerFrame)
    BY <1>0, <1>1, AnswerType, PeerFrames
  <2> QED
    BY <1>b, <2>1, <2>2, <2>3 DEF PeerTypeOK
<1>2. ASSUME UNCHANGED <<peer, peerGot>>, peer.rx >= 0, Answer(Ack(peer.rx))
      PROVE  LineTypeOK' /\ PeerTypeOK'
  <2>1. peer.rx \in SeqNo /\ PeerTypeOK'
    BY <1>2 DEF PeerTypeOK
  <2>2. fromPeer' \in Seq(FromPeerFrame)
    BY <1>2, <2>1, AnswerType, PeerFrames
  <2> QED
    BY <1>b, <2>1, <2>2
<1>3. ASSUME UNCHANGED <<peer, peerGot, fromPeer>>
      PROVE  LineTypeOK' /\ PeerTypeOK'
  <2>1. PeerTypeOK'
    BY <1>3 DEF PeerTypeOK
  <2> QED
    BY <1>3, <1>b, <2>1 DEF LineTypeOK
<1>4. LineTypeOK' /\ PeerTypeOK'
  BY <1>1, <1>2, <1>3 DEF PeerData
<1>5. /\ LinkTypeOK' /\ QueueTypeOK' /\ ThreadTypeOK' /\ HasPacket'
      /\ NcpTypeOK' /\ CountTypeOK'
  BY DEF PeerData, LinkTypeOK, QueueTypeOK, ThreadTypeOK, HasPacket, NcpTypeOK, CountTypeOK,
         linkVars, queueVars, threadVars, ncpVars, countVars
<1> QED
  BY <1>4, <1>5

LEMMA PeerAckStep ==
    ASSUME TypeInv, PeerAck
    PROVE  TypeInv'
<1> USE DEF TypeInv, TypeOK
<1> DEFINE s == Head(toPeer).seq
<1>1. PeerTypeOK'
  <2>1. CASE peer' = [peer EXCEPT !.con = FALSE] /\ UNCHANGED peerGot
    BY <2>1 DEF PeerTypeOK
  <2>2. CASE LinkUp(0, FALSE, FALSE)
    BY <2>2, LinkUpType, SmallSeqNo
  <2>3. CASE /\ peer.item <= Len(PeerScript) /\ UNCHANGED peerGot
             /\ peer' = [peer EXCEPT !.item = @ + 1, !.txSeq = (@ + 1) % PeerModulus]
    <3>1. peer.txSeq + 1 \in Nat
      BY ProtocolAssumption DEF PeerTypeOK, SeqNo
    <3>2. PeerModulus \in Nat \ {0} /\ PeerModulus \in {EpocMod, SiboMod}
      BY ProtocolAssumption DEF PeerModulus
    <3>3. (peer.txSeq + 1) % PeerModulus \in 0 .. PeerModulus - 1
      BY <3>1, <3>2
    <3>4. (peer.txSeq + 1) % PeerModulus \in SeqNo
      BY <3>2, <3>3, ProtocolAssumption DEF SeqNo
    <3>5. peer.item + 1 \in 1 .. Len(PeerScript) + 1
      BY <2>3, ScriptAssumption DEF PeerTypeOK
    <3> QED
      BY <2>3, <3>4, <3>5 DEF PeerTypeOK
  <2>4. CASE UNCHANGED peerVars
    BY <2>4 DEF PeerTypeOK, peerVars
  <2> QED
    BY <2>1, <2>2, <2>3, <2>4 DEF PeerAck
<1>2. LineTypeOK'
  BY ToPeerHead DEF PeerAck, LineTypeOK
<1>3. /\ LinkTypeOK' /\ QueueTypeOK' /\ ThreadTypeOK' /\ HasPacket'
      /\ NcpTypeOK' /\ CountTypeOK'
  BY DEF PeerAck, LinkTypeOK, QueueTypeOK, ThreadTypeOK, HasPacket, NcpTypeOK, CountTypeOK,
         linkVars, queueVars, threadVars, ncpVars, countVars
<1> QED
  BY <1>1, <1>2, <1>3

LEMMA PeerSendStep ==
    ASSUME TypeInv, PeerSend
    PROVE  TypeInv'
<1> USE DEF TypeInv, TypeOK
<1>1. DataFrame(peer.txSeq, peer.item) \in FromPeerFrame
  <2>1. peer.txSeq \in SeqNo /\ peer.item \in 1 .. Len(PeerScript)
    BY ScriptAssumption DEF PeerSend, PeerTypeOK
  <2>2. peer.item \in DOMAIN PeerScript
    BY <2>1, ScriptAssumption
  <2> QED
    BY <2>1, <2>2 DEF FromPeerFrame
<1>2. LineTypeOK'
  BY <1>1, AnswerType DEF PeerSend, LineTypeOK
<1>3. /\ LinkTypeOK' /\ QueueTypeOK' /\ ThreadTypeOK' /\ HasPacket'
      /\ PeerTypeOK' /\ NcpTypeOK' /\ CountTypeOK'
  BY DEF PeerSend, LinkTypeOK, QueueTypeOK, ThreadTypeOK, HasPacket, PeerTypeOK, NcpTypeOK,
         CountTypeOK, linkVars, queueVars, threadVars, peerVars, ncpVars, countVars
<1> QED
  BY <1>2, <1>3

LEMMA PeerFaultStep ==
    ASSUME TypeInv, PeerFault
    PROVE  TypeInv'
<1> USE DEF TypeInv, TypeOK
<1>1. LineTypeOK'
  <2>1. \E f \in {ReqCon, Req(0), Req(1), Disc} : Answer(f)
    BY DEF PeerFault
  <2> QED
    BY <2>1, AnswerType, PeerFrames DEF PeerFault, LineTypeOK
<1>2. PeerTypeOK'
  BY DEF PeerFault, PeerTypeOK
<1>3. CountTypeOK'
  BY ProtocolAssumption DEF PeerFault, Fault, CountTypeOK
<1>4. /\ LinkTypeOK' /\ QueueTypeOK' /\ ThreadTypeOK' /\ HasPacket' /\ NcpTypeOK'
  BY DEF PeerFault, LinkTypeOK, QueueTypeOK, ThreadTypeOK, HasPacket, NcpTypeOK,
         linkVars, queueVars, threadVars, ncpVars
<1> QED
  BY <1>1, <1>2, <1>3, <1>4

-----------------------------------------------------------------------------
LEMMA TypeInit == Init => TypeInv
<1> SUFFICES ASSUME Init PROVE TypeInv
  OBVIOUS
<1> USE DEF Init
<1>1. LinkTypeOK
  BY SmallSeqNo DEF LinkTypeOK
<1>2. QueueTypeOK
  <2>1. ReqReq \in QueuedFrame /\ 1 \in Stamp
    BY FrameType, ProtocolAssumption DEF Stamp
  <2>2. ackWaitQueue \subseteq Entry
    BY <2>1, SmallSeqNo, ProtocolAssumption DEF Entry
  <2>3. <<>> \in Seq(Packet)
    OBVIOUS
  <2> QED
    BY <2>2, <2>3, EmptyHold DEF QueueTypeOK
<1>3. ThreadTypeOK
  <2>1. <<>> \in Seq(Packet)
    OBVIOUS
  <2> QED
    BY <2>1, SmallSeqNo DEF ThreadTypeOK, Label
<1>4. LineTypeOK
  <2>1. ReqReq \in ToPeerFrame
    BY FrameType
  <2> QED
    BY <2>1 DEF LineTypeOK
<1>5. PeerTypeOK
  <2>1. 1 \in 1 .. Len(PeerScript) + 1
    BY ScriptAssumption
  <2>2. peerGot \in Seq(Packet)
    OBVIOUS
  <2>3. PICK t \in PeerTypes : peer = [type |-> t, up |-> FALSE, rx |-> -1, txSeq |-> 1,
                                       item |-> 1, con |-> FALSE, magic |-> FALSE]
    OBVIOUS
  <2> QED
    BY <2>1, <2>2, <2>3, SmallSeqNo DEF PeerTypeOK
<1>6. NcpTypeOK
  BY DEF NcpTypeOK
<1>7. CountTypeOK
  BY ScriptAssumption, ProtocolAssumption DEF CountTypeOK
<1>8. HasPacket
  BY PumpIsSender DEF HasPacket
<1> QED
  BY <1>1, <1>2, <1>3, <1>4, <1>5, <1>6, <1>7, <1>8 DEF TypeInv, TypeOK

LEMMA TypeStutter ==
    ASSUME TypeInv, UNCHANGED vars
    PROVE  TypeInv'
BY DEF TypeInv, TypeOK, LinkTypeOK, QueueTypeOK, ThreadTypeOK, LineTypeOK, PeerTypeOK,
       NcpTypeOK, CountTypeOK, HasPacket, vars, linkVars, queueVars, threadVars, lineVars,
       peerVars, ncpVars, countVars

LEMMA TypeNext == TypeInv /\ [Next]_vars => TypeInv'
<1> SUFFICES ASSUME TypeInv, [Next]_vars PROVE TypeInv'
  OBVIOUS
<1>1. ASSUME NEW s \in Sessions, Send(s) PROVE TypeInv'
  BY <1>1, SendStep
<1>2. ASSUME NEW t \in Senders, Transmit(t) PROVE TypeInv'
  BY <1>2, TransmitDropStep, TransmitHoldStep, TransmitTestStep, TransmitLoadStep,
     TransmitPushStep, TransmitSendStep DEF Transmit
<1>3. CASE Pump
  BY <1>3, PumpIsSender, ReceiveDataStep, PurgeQueueStep, ReceiveAckStep, ReceiveHintStep,
     ReceiveConStep, ReceiveReqEpocStep, ReceiveReqSiboStep, ReceiveDiscStep, ResendStep
     DEF Pump
<1>4. CASE Timer
  BY <1>4, RetransmitTestStep, RetransmitPurgeStep, RetransmitStep, ResendStep
     DEF Timer, Threads
<1>5. CASE Reset
  BY <1>5, ResetTestStep, ResetFieldsStep, ResetPurgeStep, ResetLineStep, ResetRequestStep
     DEF Reset
<1>6. CASE Lose \/ HasFailed
  BY <1>6, LoseStep, HasFailedStep
<1>7. CASE PeerReceive \/ PeerSend \/ PeerFault
  BY <1>7, PeerLinkStep, PeerDataStep, PeerAckStep, PeerSendStep, PeerFaultStep
     DEF PeerReceive
<1>8. CASE UNCHANGED vars
  BY <1>8, TypeStutter
<1> QED
  BY <1>1, <1>2, <1>3, <1>4, <1>5, <1>6, <1>7, <1>8 DEF Next

(* Every variable of the link always has its type, whatever the two protocols' *)
(* moduli: in particular a sequence number taken from an EPOC link and stored  *)
(* after the link has become a SIBO one is still a number of one of them.      *)
THEOREM TypeCorrect == Spec => []TypeOK
<1>1. TypeInv => TypeOK
  BY DEF TypeInv
<1> QED
  BY TypeInit, TypeNext, <1>1, PTL DEF Spec

-----------------------------------------------------------------------------
(* The bound on the overrun of the window, for any number of sending       *)
(* threads, any window sizes and any traffic.  WindowBound is inductive    *)
(* once the queue is known to be finite; the one action that brings a      *)
(* thread past the test of the backlog, TransmitTest, has found room for   *)
(* one more packet, and at that time every other sender can be past the    *)
(* test as well.                                                           *)

WindowInv == TypeInv /\ IsFiniteSet(ackWaitQueue) /\ WindowBound

Window == IF linkType = "SIBO" THEN SiboWindow ELSE EpocWindow

-----------------------------------------------------------------------------
(* Finite sets *)

(* An image of a finite set is finite and not larger. *)
LEMMA ImageSize ==
    ASSUME NEW S, IsFiniteSet(S), NEW g
    PROVE  /\ IsFiniteSet({g[x] : x \in S})
           /\ Cardinality({g[x] : x \in S}) <= Cardinality(S)
<1> DEFINE T == {g[x] : x \in S}
           f == [x \in S |-> g[x]]
<1>1. f \in Surjection(S, T)
  BY DEF Surjection
<1> QED
  BY <1>1, FS_Surjection

LEMMA DataFinite ==
    ASSUME IsFiniteSet(ackWaitQueue)
    PROVE  IsFiniteSet(Data) /\ Cardinality(Data) \in Nat
<1>1. Data \in SUBSET ackWaitQueue
  BY DEF Data
<1> QED
  BY <1>1, FS_Subset, FS_CardinalityType

LEMMA DataFiniteNext ==
    ASSUME IsFiniteSet(ackWaitQueue')
    PROVE  IsFiniteSet(Data') /\ Cardinality(Data') \in Nat
<1>1. Data' \in SUBSET ackWaitQueue'
  BY DEF Data
<1> QED
  BY <1>1, FS_Subset, FS_CardinalityType

LEMMA SendersFinite ==
    IsFiniteSet(Senders) /\ Cardinality(Senders) \in Nat \ {0}
<1>1. IsFiniteSet(Senders) /\ Cardinality(Senders) \in Nat
  BY SessionsAssumption, FS_AddElement, FS_CardinalityType DEF Senders
<1>2. Senders # {}
  BY DEF Senders
<1> QED
  BY <1>1, <1>2, FS_EmptySet

(* However the senders move, no more of them than there are is past the test. *)
LEMMA PastSize ==
    /\ IsFiniteSet(Past) /\ Cardinality(Past) \in Nat
    /\ Cardinality(Past) <= Cardinality(Senders)
    /\ IsFiniteSet(Past') /\ Cardinality(Past') \in Nat
    /\ Cardinality(Past') <= Cardinality(Senders)
<1>1. Past \in SUBSET Senders /\ Past' \in SUBSET Senders
  BY DEF Past
<1> QED
  BY <1>1, SendersFinite, FS_Subset, FS_CardinalityType

LEMMA WindowType ==
    /\ Window \in Nat \ {0} /\ Window' \in Nat \ {0}
    /\ MaxOutstanding \in Nat /\ MaxOutstanding <= Window
BY ProtocolAssumption DEF Window, MaxOutstanding

(* A step that queues no more data, lets no further thread past the test and *)
(* does not narrow the window preserves the bound; so does one that leaves no *)
(* data in the queue.                                                         *)
LEMMA NoMore ==
    ASSUME IsFiniteSet(ackWaitQueue), WindowBound, IsFiniteSet(ackWaitQueue'),
           \/ /\ Cardinality(Data') <= Cardinality(Data)
              /\ Past' \subseteq Past
              /\ linkType' = "SIBO" => linkType = "SIBO"
           \/ Data' = {}
    PROVE  WindowBound'
<1> DEFINE s == Cardinality(Senders)
           d == Cardinality(Data)
           p == Cardinality(Past)
           w == Window
           dd == Cardinality(Data')
           pp == Cardinality(Past')
           ww == Window'
<1>1. /\ d \in Nat /\ dd \in Nat /\ p \in Nat /\ pp \in Nat /\ s \in Nat \ {0}
      /\ pp <= s /\ w \in Nat \ {0} /\ ww \in Nat \ {0}
  BY DataFinite, DataFiniteNext, PastSize, SendersFinite, WindowType
<1>2. d + p <= w + s - 1
  BY DEF WindowBound, Window
<1>3. (dd + pp <= ww + s - 1) => WindowBound'
  BY DEF WindowBound, Window
<1>4. ASSUME dd <= d, Past' \subseteq Past, linkType' = "SIBO" => linkType = "SIBO"
      PROVE  dd + pp <= ww + s - 1
  <2>1. pp <= p
    BY <1>4, PastSize, FS_Subset
  <2>2. w <= ww
    BY <1>4, ProtocolAssumption DEF Window
  <2> HIDE DEF d, p, s, w, dd, pp, ww
  <2> QED
    BY <1>1, <1>2, <1>4, <2>1, <2>2
<1>5. ASSUME Data' = {}
      PROVE  dd + pp <= ww + s - 1
  <2>1. dd = 0
    BY <1>5, FS_EmptySet
  <2> HIDE DEF d, p, s, w, dd, pp, ww
  <2> QED
    BY <1>1, <2>1
<1> QED
  BY <1>3, <1>4, <1>5

(* The first disjunct for a queue that only loses entries. *)
LEMMA FewerEntries ==
    ASSUME IsFiniteSet(ackWaitQueue), ackWaitQueue' \subseteq ackWaitQueue
    PROVE  IsFiniteSet(ackWaitQueue') /\ Cardinality(Data') <= Cardinality(Data)
<1>1. Data' \in SUBSET Data
  BY DEF Data, IsData
<1> QED
  BY <1>1, DataFinite, FS_Subset

(* An entry for a link request or confirmation is not data. *)
LEMMA RequestEntry ==
    ASSUME IsFiniteSet(ackWaitQueue), NEW f \in {ReqReq, ReqCon}, NEW n,
           ackWaitQueue' = ackWaitQueue \cup {NewEntry(f, 0, n)}
    PROVE  IsFiniteSet(ackWaitQueue') /\ Data' = Data
<1>1. NewEntry(f, 0, n).frame.kind # "data"
  BY DEF NewEntry, ReqReq, ReqCon
<1> QED
  BY <1>1, FS_AddElement DEF Data, IsData

-----------------------------------------------------------------------------
(* The steps that touch the queue, the threads' places or the link type *)

LEMMA TestStep ==
    ASSUME WindowInv, NEW t \in Senders, TransmitTest(t)
    PROVE  WindowBound' /\ IsFiniteSet(ackWaitQueue')
<1>0. TypeInv /\ IsFiniteSet(ackWaitQueue) /\ WindowBound /\ ackWaitQueue' = ackWaitQueue
      /\ linkType' = linkType /\ Data' = Data /\ pc \in [Threads -> Label]
  BY DEF WindowInv, TransmitTest, linkVars, Data, IsData, TypeInv, TypeOK, ThreadTypeOK
<1>1. CASE BacklogFull
  <2>1. Past' \subseteq Past
    BY <1>0, <1>1, PumpIsSender DEF TransmitTest, Finish, Past
  <2> QED
    BY <1>0, <2>1, NoMore, DataFinite
<1>2. CASE ~BacklogFull
  <2> DEFINE s == Cardinality(Senders)
             d == Cardinality(Data)
             pp == Cardinality(Past')
             q == Cardinality(ackWaitQueue)
  <2>1. q \in Nat /\ q < MaxOutstanding /\ MaxOutstanding \in Nat /\ MaxOutstanding <= Window
    BY <1>0, <1>2, FS_CardinalityType, WindowType DEF BacklogFull
  <2>2. d \in Nat /\ d <= q
    <3>1. Data \in SUBSET ackWaitQueue
      BY DEF Data
    <3> QED
      BY <1>0, <3>1, DataFinite, FS_Subset
  <2>3. pp \in Nat /\ pp <= s /\ s \in Nat \ {0} /\ Window \in Nat \ {0}
    BY PastSize, SendersFinite, WindowType
  <2>4. d + pp <= Window + s - 1
    <3> HIDE DEF d, pp, s, q
    <3> QED
      BY <2>1, <2>2, <2>3
  <2> QED
    BY <1>0, <2>4 DEF WindowBound, Window
<1> QED
  BY <1>1, <1>2

LEMMA PushStep ==
    ASSUME WindowInv, NEW t \in Senders, TransmitPush(t)
    PROVE  WindowBound' /\ IsFiniteSet(ackWaitQueue')
<1> DEFINE x == NewEntry(DataFrame(eseq[t], Buf(t)), eseq[t], DataTries)
           s == Cardinality(Senders)
           d == Cardinality(Data)
           p == Cardinality(Past)
           dd == Cardinality(Data')
           pp == Cardinality(Past')
<1>0. /\ IsFiniteSet(ackWaitQueue) /\ WindowBound /\ pc \in [Threads -> Label]
      /\ pc' = [pc EXCEPT ![t] = "send"] /\ pc[t] = "store"
      /\ ackWaitQueue' = ackWaitQueue \cup {x} /\ linkType' = linkType
  BY DEF WindowInv, TypeInv, TypeOK, ThreadTypeOK, TransmitPush, Goto
<1>1. x.frame.kind = "data"
  BY DEF NewEntry, DataFrame
<1> HIDE DEF x
<1>2. Data' = Data \cup {x}
  BY <1>0, <1>1 DEF Data, IsData
<1>3. Past' = Past \ {t} /\ t \in Past
  BY <1>0, PumpIsSender DEF Past
<1>4. d \in Nat /\ p \in Nat /\ dd <= d + 1 /\ dd \in Nat
  <2>1. IsFiniteSet(Data) /\ d \in Nat /\ p \in Nat
    BY <1>0, DataFinite, PastSize
  <2>2. dd = IF x \in Data THEN d ELSE d + 1
    BY <1>2, <2>1, FS_AddElement
  <2> HIDE DEF d, dd, p
  <2> QED
    BY <2>1, <2>2
<1>5. pp = p - 1
  BY <1>3, PastSize, FS_RemoveElement
<1>6. s \in Nat /\ Window \in Nat /\ d + p <= Window + s - 1
  BY <1>0, SendersFinite, WindowType DEF WindowBound, Window
<1>7. dd + pp <= Window + s - 1
  <2> HIDE DEF d, p, dd, pp, s
  <2> QED
    BY <1>4, <1>5, <1>6
<1>8. IsFiniteSet(ackWaitQueue')
  BY <1>0, FS_AddElement
<1> QED
  BY <1>0, <1>7, <1>8 DEF WindowBound, Window

(* An entry sent again stays one entry, and of the same kind. *)
LEMMA RetransmitWindow ==
    ASSUME WindowInv, Retransmit
    PROVE  WindowBound' /\ IsFiniteSet(ackWaitQueue')
<1>0. /\ IsFiniteSet(ackWaitQueue) /\ WindowBound /\ pc \in [Threads -> Label]
      /\ ackWaitQueue \subseteq Entry /\ linkType' = linkType
  BY DEF WindowInv, TypeInv, TypeOK, ThreadTypeOK, QueueTypeOK, Retransmit
<1>1. PICK oldest \in ackWaitQueue :
         LET expired == {e \in ackWaitQueue : e.stamp <= oldest.stamp}
             dead == {e \in expired : e.txcount = 0}
             again == {Retry(e) : e \in expired \ dead} IN
         /\ ackWaitQueue' = (ackWaitQueue \ expired) \cup again
         /\ pc' = [pc EXCEPT !["timer"] = IF again = {} THEN "idle" ELSE "resend"]
  BY DEF Retransmit
<1> DEFINE expired == {e \in ackWaitQueue : e.stamp <= oldest.stamp}
           dead == {e \in expired : e.txcount = 0}
           g == [e \in ackWaitQueue |-> IF e \in expired THEN Retry(e) ELSE e]
<1>2. Past' = Past
  <2>1. \A t \in Senders : pc'[t] = pc[t]
    BY <1>0, <1>1, SessionsAssumption DEF Senders, Threads
  <2> QED
    BY <2>1 DEF Past
<1>3. ackWaitQueue' = {g[e] : e \in ackWaitQueue \ dead}
  BY <1>1
<1>4. IsFiniteSet(ackWaitQueue')
  <2>1. IsFiniteSet(ackWaitQueue \ dead)
    BY <1>0, FS_Subset
  <2> HIDE DEF g, dead
  <2> QED
    BY <2>1, <1>3, ImageSize
<1>5. \A e \in ackWaitQueue \ dead : g[e].frame = e.frame
  BY <1>0, RetryType
<1>6. Data' = {g[e] : e \in Data \ dead}
  <2> HIDE DEF g, dead
  <2> QED
    BY <1>3, <1>5 DEF Data, IsData
<1>7. Cardinality(Data') <= Cardinality(Data)
  <2> HIDE DEF g, dead
  <2>1. IsFiniteSet(Data) /\ IsFiniteSet(Data \ dead) /\ Cardinality(Data \ dead) <= Cardinality(Data)
    BY <1>0, DataFinite, FS_Subset
  <2>2. Cardinality({g[e] : e \in Data \ dead}) <= Cardinality(Data \ dead)
    BY <2>1, ImageSize
  <2>3. IsFiniteSet({g[e] : e \in Data \ dead})
    BY <2>1, ImageSize
  <2>4. /\ Cardinality(Data) \in Nat /\ Cardinality(Data \ dead) \in Nat
        /\ Cardinality({g[e] : e \in Data \ dead}) \in Nat
    BY <2>1, <2>3, FS_CardinalityType
  <2> QED
    BY <1>6, <2>1, <2>2, <2>4
<1> QED
  BY <1>0, <1>2, <1>4, <1>7, NoMore

(* The hint of an ack repeats one entry, or drops it. *)
LEMMA HintWindow ==
    ASSUME WindowInv, ReceiveHint
    PROVE  WindowBound' /\ IsFiniteSet(ackWaitQueue')
<1>0. /\ IsFiniteSet(ackWaitQueue) /\ WindowBound /\ pc \in [Threads -> Label]
      /\ ackWaitQueue \subseteq Entry /\ linkType' = linkType
  BY DEF WindowInv, TypeInv, TypeOK, ThreadTypeOK, QueueTypeOK, ReceiveHint, linkVars
<1>1. CASE UNCHANGED <<ackWaitQueue, pending, pc>>
  <2>1. Past' = Past /\ Data' = Data
    BY <1>1 DEF Past, Data, IsData
  <2> QED
    BY <1>0, <1>1, <2>1, NoMore, DataFinite
<1>2. ASSUME NEW e \in ackWaitQueue, ackWaitQueue' = ackWaitQueue \ {e}, UNCHANGED pc
      PROVE  WindowBound' /\ IsFiniteSet(ackWaitQueue')
  <2>1. Past' = Past /\ ackWaitQueue' \subseteq ackWaitQueue
    BY <1>2 DEF Past
  <2> QED
    BY <1>0, <2>1, NoMore, FewerEntries
<1>3. ASSUME NEW e \in ackWaitQueue, e.txcount > 0,
             ackWaitQueue' = (ackWaitQueue \ {e}) \cup {Retry(e)},
             pc' = [pc EXCEPT !["pump"] = "resend"]
      PROVE  WindowBound' /\ IsFiniteSet(ackWaitQueue')
  <2> DEFINE g == [x \in ackWaitQueue |-> IF x = e THEN Retry(e) ELSE x]
  <2>1. Past' \subseteq Past
    BY <1>0, <1>3, PumpIsSender DEF Past
  <2>2. ackWaitQueue' = {g[x] : x \in ackWaitQueue}
    BY <1>3
  <2>3. \A x \in ackWaitQueue : g[x].frame = x.frame
    BY <1>0, <1>3, RetryType
  <2> HIDE DEF g
  <2>4. Data' = {g[x] : x \in Data}
    BY <2>2, <2>3 DEF Data, IsData
  <2>5. IsFiniteSet(ackWaitQueue')
    BY <1>0, <2>2, ImageSize
  <2>6. Cardinality(Data') <= Cardinality(Data)
    BY <1>0, <2>4, ImageSize, DataFinite
  <2> QED
    BY <1>0, <2>1, <2>5, <2>6, NoMore
<1> QED
  BY <1>1, <1>2, <1>3 DEF ReceiveHint, First, Matching

(* Steps that leave the queue and the link type alone, and bring no sender past *)
(* the test of the backlog.                                                     *)
LEMMA OtherWindow ==
    ASSUME WindowInv, UNCHANGED <<ackWaitQueue, linkType>>, Past' \subseteq Past
    PROVE  WindowBound' /\ IsFiniteSet(ackWaitQueue')
<1>1. Data' = Data
  BY DEF Data, IsData
<1> QED
  BY <1>1, NoMore, DataFinite DEF WindowInv

LEMMA TransmitWindow ==
    ASSUME WindowInv, NEW t \in Senders, Transmit(t)
    PROVE  WindowBound' /\ IsFiniteSet(ackWaitQueue')
<1>0. pc \in [Threads -> Label] /\ t \in Threads
  BY SenderIsThread DEF WindowInv, TypeInv, TypeOK, ThreadTypeOK
<1>1. CASE TransmitDrop(t) \/ TransmitHold(t) \/ TransmitLoad(t) \/ TransmitSend(t)
  <2>1. UNCHANGED <<ackWaitQueue, linkType>>
    BY <1>1 DEF TransmitDrop, TransmitHold, TransmitLoad, TransmitSend, linkVars, queueVars
  <2>2. Past' \subseteq Past
    BY <1>0, <1>1, PumpIsSender
       DEF TransmitDrop, TransmitHold, TransmitLoad, TransmitSend, Finish, Goto, Past
  <2> QED
    BY <2>1, <2>2, OtherWindow
<1> QED
  BY <1>1, TestStep, PushStep DEF Transmit

LEMMA PumpWindow ==
    ASSUME WindowInv, Pump
    PROVE  WindowBound' /\ IsFiniteSet(ackWaitQueue')
<1>0. /\ pc \in [Threads -> Label] /\ IsFiniteSet(ackWaitQueue) /\ WindowBound
      /\ IsFiniteSet({})
  BY FS_EmptySet DEF WindowInv, TypeInv, TypeOK, ThreadTypeOK
<1>1. CASE ReceiveData \/ ReceiveDisc
  <2>1. UNCHANGED <<ackWaitQueue, linkType, pc>>
    BY <1>1 DEF ReceiveData, ReceiveDisc, queueVars, threadVars
  <2> QED
    BY <2>1, OtherWindow DEF Past
<1>2. CASE Resend("pump")
  <2>1. UNCHANGED <<ackWaitQueue, linkType>>
    BY <1>2 DEF Resend, linkVars, queueVars
  <2>2. Past' \subseteq Past
    BY <1>0, <1>2, PumpIsSender DEF Resend, Past
  <2> QED
    BY <2>1, <2>2, OtherWindow
<1>3. ASSUME StartSibo, UNCHANGED pc
      PROVE  WindowBound' /\ IsFiniteSet(ackWaitQueue')
  <2>1. ackWaitQueue' = {} /\ Data' = {}
    BY <1>3 DEF StartSibo, Data
  <2> QED
    BY <1>0, <2>1, NoMore
<1>4. ASSUME ackWaitQueue' \subseteq ackWaitQueue, UNCHANGED pc,
             linkType' \in {linkType, "EPOC"}
      PROVE  WindowBound' /\ IsFiniteSet(ackWaitQueue')
  <2>1. Past' = Past
    BY <1>4 DEF Past
  <2> QED
    BY <1>0, <1>4, <2>1, NoMore, FewerEntries
<1>5. CASE ReceiveAck
  BY <1>3, <1>4, <1>5 DEF ReceiveAck, MultiAck, linkVars
<1>6. CASE PurgeQueue
  BY <1>4, <1>6 DEF PurgeQueue, linkVars
<1>7. CASE ReceiveCon
  BY <1>4, <1>7 DEF ReceiveCon, threadVars
<1>8. CASE ReceiveReqEpoc
  <2>1. /\ ackWaitQueue' = ackWaitQueue \cup {NewEntry(ReqCon, 0, ReqTries)}
        /\ linkType' = "EPOC" /\ pc' = pc
    BY <1>8 DEF ReceiveReqEpoc, threadVars
  <2>2. IsFiniteSet(ackWaitQueue') /\ Data' = Data /\ Past' = Past
    BY <1>0, <2>1, RequestEntry DEF Past
  <2> QED
    BY <1>0, <2>1, <2>2, NoMore, DataFinite
<1>9. CASE ReceiveReqSibo
  BY <1>3, <1>9 DEF ReceiveReqSibo, threadVars
<1> QED
  BY <1>1, <1>2, <1>5, <1>6, <1>7, <1>8, <1>9, HintWindow DEF Pump, WindowInv

LEMMA TimerWindow ==
    ASSUME WindowInv, Timer
    PROVE  WindowBound' /\ IsFiniteSet(ackWaitQueue')
<1>0. /\ pc \in [Threads -> Label] /\ "timer" \in Threads /\ "timer" \notin Senders
      /\ IsFiniteSet(ackWaitQueue) /\ WindowBound
  BY SessionsAssumption DEF WindowInv, TypeInv, TypeOK, ThreadTypeOK, Threads, Senders
<1>1. CASE RetransmitTest \/ Resend("timer")
  <2>1. UNCHANGED <<ackWaitQueue, linkType>>
    BY <1>1 DEF RetransmitTest, Resend, linkVars, queueVars
  <2>2. Past' \subseteq Past
    BY <1>0, <1>1 DEF RetransmitTest, Goto, Resend, Past, Threads
  <2> QED
    BY <2>1, <2>2, OtherWindow
<1>2. CASE RetransmitPurge
  <2>1. ackWaitQueue' = {} /\ Data' = {}
    BY <1>2 DEF RetransmitPurge, Data
  <2> QED
    BY <1>0, <2>1, NoMore, FS_EmptySet
<1> QED
  BY <1>1, <1>2, RetransmitWindow DEF Timer

LEMMA ResetWindow ==
    ASSUME WindowInv, Reset
    PROVE  WindowBound' /\ IsFiniteSet(ackWaitQueue')
<1>0. /\ pc \in [Threads -> Label] /\ "link" \in Threads /\ "link" \notin Senders
      /\ IsFiniteSet(ackWaitQueue) /\ WindowBound
  BY SessionsAssumption DEF WindowInv, TypeInv, TypeOK, ThreadTypeOK, Threads, Senders
<1>1. Past' \subseteq Past
  BY <1>0 DEF Reset, ResetTest, ResetFields, ResetPurge, ResetLine, ResetRequest, Goto, Past,
              Threads
<1>2. CASE ResetTest \/ ResetLine
  BY <1>1, <1>2, OtherWindow DEF ResetTest, ResetLine, linkVars, queueVars
<1>3. CASE ResetFields
  <2>1. ackWaitQueue' = ackWaitQueue /\ linkType' = "UNKNOWN" /\ Data' = Data
    BY <1>3 DEF ResetFields, queueVars, Data, IsData
  <2> QED
    BY <1>0, <1>1, <2>1, NoMore, DataFinite
<1>4. CASE ResetPurge
  <2>1. ackWaitQueue' = {} /\ Data' = {}
    BY <1>4 DEF ResetPurge, Data
  <2> QED
    BY <1>0, <2>1, NoMore, FS_EmptySet
<1>5. CASE ResetRequest
  <2>1. linkType' = linkType
    BY <1>5 DEF ResetRequest, linkVars
  <2>2. CASE UNCHANGED ackWaitQueue
    BY <1>1, <2>1, <2>2, OtherWindow
  <2>3. CASE ackWaitQueue' = ackWaitQueue \cup {NewEntry(ReqReq, 0, ReqTries)}
    <3>1. IsFiniteSet(ackWaitQueue') /\ Data' = Data
      BY <1>0, <2>3, RequestEntry
    <3> QED
      BY <1>0, <1>1, <2>1, <3>1, NoMore, DataFinite
  <2> QED
    BY <1>5, <2>2, <2>3 DEF ResetRequest
<1> QED
  BY <1>2, <1>3, <1>4, <1>5 DEF Reset

-----------------------------------------------------------------------------
LEMMA WindowInit == Init => WindowInv
<1> SUFFICES ASSUME Init PROVE WindowInv
  OBVIOUS
<1>1. IsFiniteSet(ackWaitQueue)
  BY FS_Singleton DEF Init
<1>2. Data = {} /\ Past = {}
  BY SenderIsThread DEF Init, Data, IsData, ReqReq, Past
<1>3. Cardinality(Data) = 0 /\ Cardinality(Past) = 0
  BY <1>2, FS_EmptySet
<1>4. WindowBound
  BY <1>3, SendersFinite, ProtocolAssumption DEF WindowBound
<1> QED
  BY <1>1, <1>4, TypeInit DEF WindowInv

LEMMA WindowNext == WindowInv /\ [Next]_vars => WindowInv'
<1> SUFFICES ASSUME WindowInv, [Next]_vars
             PROVE  WindowBound' /\ IsFiniteSet(ackWaitQueue')
  BY TypeNext DEF WindowInv
<1>1. CASE \/ \E s \in Sessions : Send(s)
           \/ Lose \/ HasFailed \/ PeerReceive \/ PeerSend \/ PeerFault
           \/ UNCHANGED vars
  <2>1. UNCHANGED <<ackWaitQueue, linkType, pc>>
    BY <1>1 DEF Send, Lose, HasFailed, PeerReceive, PeerLink, PeerData, PeerAck, PeerSend,
                PeerFault, vars, linkVars, queueVars, threadVars
  <2> QED
    BY <2>1, OtherWindow DEF Past
<1> QED
  BY <1>1, TransmitWindow, PumpWindow, TimerWindow, ResetWindow DEF Next

(* For any number of threads that send, and whatever the Psion, the line, the   *)
(* timer and resets do meanwhile, the packets that wait for an ack and those on *)
(* their way to the queue overrun the window by no more than one for each       *)
(* further sender.                                                              *)
THEOREM WindowBounded == Spec => []WindowBound
<1>1. WindowInv => WindowBound
  BY DEF WindowInv
<1> QED
  BY WindowInit, WindowNext, <1>1, PTL DEF Spec

-----------------------------------------------------------------------------
(* The Psion's packets on a line: repetitions of item n, numbered new, and *)
(* before them of item n - 1, numbered old, if that is not taken yet.      *)
ItemsOn(line, taken, n, old, new) ==
    /\ \A i \in DOMAIN line : line[i].kind \in {"data", "ack"}
    /\ \A i \in DOMAIN line : line[i].kind = "data" =>
          /\ line[i].pkt \in taken .. n
          /\ line[i].seq = IF line[i].pkt = n THEN new ELSE old
    /\ \A i, j \in DOMAIN line :
          i < j /\ line[i].kind = "data" /\ line[j].kind = "data" => line[i].pkt <= line[j].pkt

(* Our acknowledgements: of item n - 1, and behind them of item n, once it *)
(* is taken.                                                               *)
AcksOn(line, taken, n, old, new) ==
    /\ \A i \in DOMAIN line : line[i].kind \in {"data", "ack"}
    /\ \A i \in DOMAIN line : line[i].kind = "ack" =>
          line[i].seq = old \/ (taken = n /\ line[i].seq = new)
    /\ \A i, j \in DOMAIN line :
          i < j /\ line[i].kind = "ack" /\ line[j].kind = "ack" /\ line[i].seq = new
             => line[j].seq = new

(* The NCP has what it is meant to get of the first items, in their order. *)
ForNcpUpTo(n) == {i \in 1 .. n : ForNcp(i)}
Delivered(taken) ==
    /\ ForNcpUpTo(taken) \subseteq ncpEver
    /\ Increasing(ncpGot) /\ Elements(ncpGot) = ForNcpUpTo(taken)

Flow(taken, old) ==
    /\ taken \in {peer.item - 1, peer.item}
    /\ peer.txSeq = (old + 1) % Modulus
    /\ rxSequence = IF taken = peer.item THEN peer.txSeq ELSE old
    /\ ItemsOn(fromPeer, taken, peer.item, old, peer.txSeq)
    /\ AcksOn(toPeer, taken, peer.item, old, peer.txSeq)
    /\ Delivered(taken)

(* Nothing of another link: no requests, and no reset.                     *)
Calm ==
    /\ linkType = peer.type /\ peer.up /\ ~peer.con
    /\ pc["link"] = "idle"
    /\ \A e \in ackWaitQueue : e.frame.kind = "data"
    /\ \A t \in Threads : \A e \in pending[t] : e.frame.kind = "data"

FlowInv ==
    /\ TypeInv /\ Calm
    /\ \E taken \in 0 .. Len(PeerScript), old \in 0 .. Modulus - 1 : Flow(taken, old)

(* When nobody but the pump sends.                                         *)
HoldInv ==
    /\ TypeInv /\ HeldOnlyWhileStopped
    /\ pc["link"] = "idle"
    /\ \A s \in Sessions : todo[s] = <<>>
    /\ pc["pump"] = "hold" => Held("pump")

-----------------------------------------------------------------------------
(* Lines.                                                                  *)

LEMMA TailOf ==
    ASSUME NEW S, NEW s \in Seq(S), s # <<>>
    PROVE  /\ 1 \in DOMAIN s /\ Head(s) = s[1]
           /\ DOMAIN Tail(s) \subseteq Nat \ {0}
           /\ \A i \in DOMAIN Tail(s) : i + 1 \in DOMAIN s /\ Tail(s)[i] = s[i + 1]
           /\ \A i \in DOMAIN s : i # 1 => i - 1 \in DOMAIN Tail(s)
<1>1. PICK n \in Nat : n = Len(s) /\ n # 0
  OBVIOUS
<1>2. Tail(s) \in Seq(S) /\ Len(Tail(s)) = n - 1 /\ \A i \in 1 .. n - 1 : Tail(s)[i] = s[i + 1]
  BY <1>1, HeadTailProperties
<1>3. DOMAIN s = 1 .. n /\ DOMAIN Tail(s) = 1 .. n - 1
  BY <1>1, <1>2
<1>4. Head(s) = s[1]
  OBVIOUS
<1> QED
  BY <1>1, <1>2, <1>3, <1>4

LEMMA AppendTo ==
    ASSUME NEW S, NEW s \in Seq(S), NEW f
    PROVE  /\ Len(s) + 1 \in DOMAIN Append(s, f) /\ Append(s, f)[Len(s) + 1] = f
           /\ DOMAIN s \subseteq DOMAIN Append(s, f)
           /\ \A i \in DOMAIN s : i < Len(s) + 1 /\ Append(s, f)[i] = s[i]
           /\ \A i \in DOMAIN Append(s, f) : i \in DOMAIN s \/ i = Len(s) + 1
<1>1. PICK n \in Nat : n = Len(s) /\ DOMAIN s = 1 .. n
  OBVIOUS
<1>2. s \in Seq(S \cup {f})
  OBVIOUS
<1>3. /\ Append(s, f) \in Seq(S \cup {f}) /\ Len(Append(s, f)) = n + 1
      /\ \A i \in 1 .. n : Append(s, f)[i] = s[i]
      /\ Append(s, f)[n + 1] = f
  BY <1>1, <1>2, AppendProperties
<1>4. DOMAIN Append(s, f) = 1 .. n + 1
  BY <1>3
<1> QED
  BY <1>1, <1>3, <1>4

LEMMA ItemsTail ==
    ASSUME NEW S, NEW line \in Seq(S), line # <<>>, NEW taken, NEW n, NEW old, NEW new,
           ItemsOn(line, taken, n, old, new)
    PROVE  ItemsOn(Tail(line), taken, n, old, new)
<1>1. \A i \in DOMAIN Tail(line) : i \in Nat /\ i + 1 \in DOMAIN line /\ Tail(line)[i] = line[i + 1]
  BY TailOf
<1>2. \A i, j \in DOMAIN Tail(line) : i < j => i + 1 < j + 1
  BY <1>1
<1> QED
  BY <1>1, <1>2 DEF ItemsOn

LEMMA AcksTail ==
    ASSUME NEW S, NEW line \in Seq(S), line # <<>>, NEW taken, NEW n, NEW old, NEW new,
           AcksOn(line, taken, n, old, new)
    PROVE  AcksOn(Tail(line), taken, n, old, new)
<1>1. \A i \in DOMAIN Tail(line) : i \in Nat /\ i + 1 \in DOMAIN line /\ Tail(line)[i] = line[i + 1]
  BY TailOf
<1>2. \A i, j \in DOMAIN Tail(line) : i < j => i + 1 < j + 1
  BY <1>1
<1> QED
  BY <1>1, <1>2 DEF AcksOn

(* The newest item, or something that is no item, goes behind.             *)
LEMMA ItemsAppend ==
    ASSUME NEW S, NEW line \in Seq(S), NEW n \in Nat, NEW taken \in {n - 1, n}, NEW old, NEW new,
           ItemsOn(line, taken, n, old, new),
           NEW f, f.kind = "ack" \/ (f.kind = "data" /\ f.pkt = n /\ f.seq = new)
    PROVE  ItemsOn(Append(line, f), taken, n, old, new)
<1> DEFINE l == Len(line) + 1
           r == Append(line, f)
<1>1. /\ l \in Nat /\ r[l] = f
      /\ \A i \in DOMAIN line : i \in Nat /\ i < l /\ r[i] = line[i]
      /\ \A i \in DOMAIN r : i \in DOMAIN line \/ i = l
  BY AppendTo
<1> HIDE DEF l, r
<1>2. n \in taken .. n /\ taken .. n \subseteq Int
  OBVIOUS
<1>3. \A i \in DOMAIN r : r[i].kind \in {"data", "ack"}
  BY <1>1 DEF ItemsOn
<1>4. \A i \in DOMAIN r : r[i].kind = "data" =>
        r[i].pkt \in taken .. n /\ r[i].seq = IF r[i].pkt = n THEN new ELSE old
  BY <1>1, <1>2 DEF ItemsOn
<1>5. ASSUME NEW i \in DOMAIN r, NEW j \in DOMAIN r, i < j, r[i].kind = "data", r[j].kind = "data"
      PROVE  r[i].pkt <= r[j].pkt
  <2>1. i \in DOMAIN line
    BY <1>1, <1>5
  <2>2. CASE j \in DOMAIN line
    BY <1>1, <1>5, <2>1, <2>2 DEF ItemsOn
  <2>3. CASE j = l
    <3>1. r[j].pkt = n
      BY <1>1, <1>5, <2>3
    <3>2. r[i].pkt \in taken .. n
      BY <1>4, <1>5
    <3> QED
      BY <3>1, <3>2
  <2> QED
    BY <1>1, <2>2, <2>3
<1> QED
  BY <1>3, <1>4, <1>5 DEF ItemsOn, r

LEMMA AcksAppend ==
    ASSUME NEW S, NEW line \in Seq(S), NEW n, NEW taken, NEW old, NEW new,
           AcksOn(line, taken, n, old, new), old # new,
           NEW f, \/ f.kind = "data"
                  \/ f.kind = "ack" /\ f.seq = IF taken = n THEN new ELSE old
    PROVE  AcksOn(Append(line, f), taken, n, old, new)
<1> DEFINE l == Len(line) + 1
           r == Append(line, f)
<1>1. /\ l \in Nat /\ r[l] = f
      /\ \A i \in DOMAIN line : i \in Nat /\ i < l /\ r[i] = line[i]
      /\ \A i \in DOMAIN r : i \in DOMAIN line \/ i = l
  BY AppendTo
<1> HIDE DEF l, r
<1>3. \A i \in DOMAIN r : r[i].kind \in {"data", "ack"}
  BY <1>1 DEF AcksOn
<1>4. \A i \in DOMAIN r : r[i].kind = "ack" => r[i].seq = old \/ (taken = n /\ r[i].seq = new)
  BY <1>1 DEF AcksOn
<1>5. ASSUME NEW i \in DOMAIN r, NEW j \in DOMAIN r, i < j, r[i].kind = "ack", r[j].kind = "ack",
             r[i].seq = new
      PROVE  r[j].seq = new
  <2>1. i \in DOMAIN line
    BY <1>1, <1>5
  <2>2. CASE j \in DOMAIN line
    BY <1>1, <1>5, <2>1, <2>2 DEF AcksOn
  <2>3. CASE j = l
    BY <1>1, <1>4, <1>5, <2>3
  <2> QED
    BY <1>1, <2>2, <2>3
<1> QED
  BY <1>3, <1>4, <1>5 DEF AcksOn, r

(* Item n is taken from the head of the line.                              *)
LEMMA ItemsTaken ==
    ASSUME NEW S, NEW line \in Seq(S), line # <<>>, NEW n \in Nat, NEW taken \in {n - 1, n},
           NEW old, NEW new, ItemsOn(line, taken, n, old, new),
           Head(line).kind = "data", Head(line).pkt = n
    PROVE  ItemsOn(Tail(line), n, n, old, new)
<1>1. /\ 1 \in DOMAIN line /\ Head(line) = line[1]
      /\ \A i \in DOMAIN Tail(line) : i \in Nat \ {0} /\ i + 1 \in DOMAIN line /\ Tail(line)[i] = line[i + 1]
  BY TailOf
<1>2. ASSUME NEW i \in DOMAIN Tail(line), Tail(line)[i].kind = "data"
      PROVE  Tail(line)[i].pkt \in n .. n
  <2>1. i + 1 \in DOMAIN line /\ 1 < i + 1 /\ Tail(line)[i] = line[i + 1]
    BY <1>1
  <2>2. line[i + 1].pkt \in taken .. n /\ n <= line[i + 1].pkt
    BY <1>1, <1>2, <2>1 DEF ItemsOn
  <2> QED
    BY <2>1, <2>2
<1>3. ItemsOn(Tail(line), taken, n, old, new)
  BY ItemsTail
<1> QED
  BY <1>2, <1>3 DEF ItemsOn

(* The Psion goes on to the next item: what is on the line is the old one. *)
LEMMA ItemsNext ==
    ASSUME NEW line, NEW n \in Nat, NEW old, NEW new, NEW next, ItemsOn(line, n, n, old, new)
    PROVE  ItemsOn(line, n, n + 1, new, next)
<1>1. \A i \in DOMAIN line : line[i].kind = "data" => line[i].pkt = n /\ line[i].seq = new
  BY DEF ItemsOn
<1>2. n \in n .. n + 1 /\ n # n + 1 /\ n <= n
  OBVIOUS
<1> QED
  BY <1>1, <1>2 DEF ItemsOn

LEMMA AcksNext ==
    ASSUME NEW S, NEW line \in Seq(S), line # <<>>, NEW n \in Nat, NEW taken \in {n - 1, n},
           NEW old, NEW new, NEW next, old # new, new # next,
           AcksOn(line, taken, n, old, new), Head(line).kind = "ack", Head(line).seq = new
    PROVE  taken = n /\ AcksOn(Tail(line), n, n + 1, new, next)
<1>1. /\ 1 \in DOMAIN line /\ Head(line) = line[1]
      /\ \A i \in DOMAIN Tail(line) : i \in Nat \ {0} /\ i + 1 \in DOMAIN line /\ Tail(line)[i] = line[i + 1]
  BY TailOf
<1>2. taken = n
  BY <1>1 DEF AcksOn
<1>3. ASSUME NEW i \in DOMAIN Tail(line), Tail(line)[i].kind = "ack"
      PROVE  Tail(line)[i].seq = new
  <2>1. i + 1 \in DOMAIN line /\ 1 < i + 1 /\ Tail(line)[i] = line[i + 1]
    BY <1>1
  <2> QED
    BY <1>1, <1>3, <2>1 DEF AcksOn
<1>4. \A i \in DOMAIN Tail(line) : Tail(line)[i].kind \in {"data", "ack"}
  BY <1>1 DEF AcksOn
<1> QED
  BY <1>2, <1>3, <1>4 DEF AcksOn

(* Acknowledgements of the old item only, once the new one is taken.       *)
LEMMA AcksTaken ==
    ASSUME NEW line, NEW n \in Nat, NEW old, NEW new, old # new, AcksOn(line, n - 1, n, old, new)
    PROVE  AcksOn(line, n, n, old, new)
<1>1. n - 1 # n
  OBVIOUS
<1> QED
  BY <1>1 DEF AcksOn

(* A number is followed by another one.                                    *)
LEMMA Numbers ==
    ASSUME NEW m \in Nat \ {0, 1}, NEW i \in 0 .. m - 1
    PROVE  (i + 1) % m \in 0 .. m - 1 /\ (i + 1) % m # i
<1>1. PICK j \in Int : j = i + 1
  OBVIOUS
<1>2. /\ j % m \in 0 .. m - 1
      /\ j \in 0 .. m - 1 => j % m = j
      /\ j \in m .. 2 * m - 1 => j % m = j - m
  BY Remainder
<1>3. CASE j < m
  BY <1>1, <1>2, <1>3
<1>4. CASE ~ (j < m)
  <2>1. j = m /\ m \in m .. 2 * m - 1
    BY <1>1, <1>4
  <2>2. j % m = 0
    BY <1>2, <2>1
  <2> QED
    BY <1>1, <1>2, <2>1, <2>2
<1> QED
  BY <1>3, <1>4

-----------------------------------------------------------------------------
(* Steps that leave the Psion's stream as it is.                           *)

ToPeerStays ==
    \/ toPeer' = toPeer
    \/ toPeer # <<>> /\ toPeer' = Tail(toPeer)
    \/ \E f : f.kind = "data" /\ toPeer' = Append(toPeer, f)

FromPeerStays ==
    \/ fromPeer' = fromPeer
    \/ fromPeer # <<>> /\ fromPeer' = Tail(fromPeer)
    \/ \E f : /\ f.kind = "ack" \/ (f.kind = "data" /\ f.pkt = peer.item /\ f.seq = peer.txSeq)
              /\ fromPeer' = Append(fromPeer, f)

Quiet ==
    /\ linkType' = linkType /\ rxSequence' = rxSequence
    /\ ncpGot' = ncpGot /\ ncpEver' = ncpEver
    /\ \E n : peer' = [peer EXCEPT !.rx = n]
    /\ ToPeerStays /\ FromPeerStays

LEMMA FlowTypes ==
    ASSUME FlowInv
    PROVE  /\ toPeer \in Seq(ToPeerFrame) /\ fromPeer \in Seq(FromPeerFrame)
           /\ peer.item \in Nat \ {0} /\ Modulus \in Nat \ {0, 1}
           /\ peer = [type |-> peer.type, up |-> peer.up, rx |-> peer.rx, txSeq |-> peer.txSeq,
                      item |-> peer.item, con |-> peer.con, magic |-> peer.magic]
           /\ linkType \in {"SIBO", "EPOC"}
<1>1. LineTypeOK /\ PeerTypeOK /\ linkType = peer.type
  BY DEF FlowInv, TypeInv, TypeOK, Calm
<1>2. peer.type \in {"SIBO", "EPOC"}
  BY <1>1, ProtocolAssumption DEF PeerTypeOK
<1>3. Modulus \in Nat \ {0, 1}
  BY ProtocolAssumption DEF Modulus
<1> QED
  BY <1>1, <1>2, <1>3 DEF LineTypeOK, PeerTypeOK

LEMMA NumbersDiffer ==
    ASSUME FlowInv, NEW taken, NEW old \in 0 .. Modulus - 1, Flow(taken, old)
    PROVE  peer.txSeq \in 0 .. Modulus - 1 /\ peer.txSeq # old
BY FlowTypes, Numbers DEF Flow

LEMMA QuietFlow ==
    ASSUME FlowInv, NEW taken, NEW old \in 0 .. Modulus - 1, Flow(taken, old), Quiet
    PROVE  Flow(taken, old)'
<1> DEFINE n == peer.item
           new == peer.txSeq
<1>1. /\ n \in Nat /\ taken \in {n - 1, n} /\ old # new
      /\ ItemsOn(fromPeer, taken, n, old, new) /\ AcksOn(toPeer, taken, n, old, new)
      /\ toPeer \in Seq(ToPeerFrame) /\ fromPeer \in Seq(FromPeerFrame)
  BY FlowTypes, NumbersDiffer DEF Flow
<1>2. peer'.item = n /\ peer'.txSeq = new
  BY FlowTypes DEF Quiet
<1> HIDE DEF n, new
<1>3. ItemsOn(fromPeer', taken, n, old, new)
  <2>1. CASE fromPeer # <<>> /\ fromPeer' = Tail(fromPeer)
    BY <1>1, <2>1, ItemsTail
  <2>2. CASE \E f : /\ f.kind = "ack" \/ (f.kind = "data" /\ f.pkt = n /\ f.seq = new)
                    /\ fromPeer' = Append(fromPeer, f)
    BY <1>1, <2>2, ItemsAppend
  <2> QED
    BY <1>1, <2>1, <2>2 DEF Quiet, FromPeerStays, n, new
<1>4. AcksOn(toPeer', taken, n, old, new)
  <2>1. CASE toPeer # <<>> /\ toPeer' = Tail(toPeer)
    BY <1>1, <2>1, AcksTail
  <2>2. CASE \E f : f.kind = "data" /\ toPeer' = Append(toPeer, f)
    BY <1>1, <2>2, AcksAppend
  <2> QED
    BY <1>1, <2>1, <2>2 DEF Quiet, ToPeerStays
<1>5. Modulus' = Modulus /\ rxSequence' = rxSequence
  BY DEF Quiet, Modulus
<1>6. Delivered(taken)'
  BY DEF Quiet, Flow, Delivered, Increasing, Elements
<1> QED
  BY <1>1, <1>2, <1>3, <1>4, <1>5, <1>6 DEF Flow, n, new

LEMMA QuietKeeps ==
    ASSUME FlowInv, TypeInv', Calm', Quiet
    PROVE  FlowInv'
<1>1. PICK taken \in 0 .. Len(PeerScript), old \in 0 .. Modulus - 1 : Flow(taken, old)
  BY DEF FlowInv
<1>2. Flow(taken, old)'
  BY <1>1, QuietFlow
<1>3. Modulus' = Modulus
  BY DEF Quiet, Modulus
<1> QED
  BY <1>1, <1>2, <1>3 DEF FlowInv

(* What arrives on either side is data or an acknowledgement.              *)
LEMMA Arrives ==
    ASSUME FlowInv
    PROVE  /\ fromPeer # <<>> => Head(fromPeer).kind \in {"data", "ack"}
           /\ toPeer # <<>> => Head(toPeer).kind \in {"data", "ack"}
<1>1. PICK taken \in 0 .. Len(PeerScript), old \in 0 .. Modulus - 1 : Flow(taken, old)
  BY DEF FlowInv
<1>2. /\ toPeer \in Seq(ToPeerFrame) /\ fromPeer \in Seq(FromPeerFrame)
      /\ ItemsOn(fromPeer, taken, peer.item, old, peer.txSeq)
      /\ AcksOn(toPeer, taken, peer.item, old, peer.txSeq)
  BY <1>1, FlowTypes DEF Flow
<1>3. fromPeer # <<>> => 1 \in DOMAIN fromPeer /\ Head(fromPeer) = fromPeer[1]
  BY <1>2, TailOf
<1>4. toPeer # <<>> => 1 \in DOMAIN toPeer /\ Head(toPeer) = toPeer[1]
  BY <1>2, TailOf
<1> QED
  BY <1>2, <1>3, <1>4 DEF ItemsOn, AcksOn

-----------------------------------------------------------------------------
(* All steps but those that take an item or go on to the next one.         *)

LEMMA StillQuiet ==
    ASSUME FlowInv, linkType' = linkType, rxSequence' = rxSequence, UNCHANGED ncpVars,
           peer' = peer, ToPeerStays, FromPeerStays
    PROVE  Quiet
<1>1. peer' = [peer EXCEPT !.rx = peer.rx]
  BY FlowTypes
<1> QED
  BY <1>1 DEF Quiet, ncpVars

LEMMA StillCalm ==
    ASSUME FlowInv, linkType' = linkType, peer' = peer, pc'["link"] = pc["link"],
           \A e \in ackWaitQueue' : e.frame.kind = "data",
           \A t \in Threads : \A e \in pending'[t] : e.frame.kind = "data"
    PROVE  Calm'
BY DEF FlowInv, Calm

LEMMA OtherThread ==
    ASSUME FlowInv, NEW t \in Senders \cup {"timer"}, NEW l
    PROVE  /\ [pc EXCEPT ![t] = l]["link"] = pc["link"]
           /\ t \in Threads
<1>1. t # "link" /\ t \in Threads /\ "link" \in Threads
  BY SessionsAssumption DEF Senders, Threads
<1>2. pc \in [Threads -> Label]
  BY DEF FlowInv, TypeInv, TypeOK, ThreadTypeOK
<1> QED
  BY <1>1, <1>2

LEMMA QuietSend ==
    ASSUME FlowInv, NEW s \in Sessions, Send(s)
    PROVE  Quiet /\ Calm'
<1>1. /\ linkType' = linkType /\ rxSequence' = rxSequence /\ UNCHANGED ncpVars /\ peer' = peer
      /\ toPeer' = toPeer /\ fromPeer' = fromPeer /\ pc' = pc
      /\ ackWaitQueue' = ackWaitQueue /\ pending' = pending
  BY DEF Send, queueVars, lineVars, peerVars
<1>2. ToPeerStays /\ FromPeerStays
  BY <1>1 DEF ToPeerStays, FromPeerStays
<1>3. Quiet
  BY <1>1, <1>2, StillQuiet
<1>4. Calm'
  BY <1>1 DEF FlowInv, Calm
<1> QED
  BY <1>3, <1>4

LEMMA QuietTransmit ==
    ASSUME FlowInv, NEW t \in Senders, Transmit(t)
    PROVE  Quiet /\ Calm'
<1>1. /\ linkType' = linkType /\ rxSequence' = rxSequence /\ UNCHANGED ncpVars /\ peer' = peer
      /\ fromPeer' = fromPeer /\ pending' = pending
  BY DEF Transmit, TransmitDrop, TransmitHold, TransmitTest, TransmitLoad, TransmitPush,
         TransmitSend, linkVars, lineVars, peerVars
<1>2. pc'["link"] = pc["link"]
  <2>1. \E l : pc' = [pc EXCEPT ![t] = l]
    BY DEF Transmit, TransmitDrop, TransmitHold, TransmitTest, TransmitLoad, TransmitPush,
           TransmitSend, Goto, Finish
  <2> QED
    BY <2>1, OtherThread
<1>3. ToPeerStays
  <2>1. CASE TransmitSend(t)
    <3>1. DataFrame(eseq[t], Buf(t)).kind = "data"
      BY DEF DataFrame
    <3> QED
      BY <2>1, <3>1 DEF TransmitSend, ToPeerStays
  <2>2. CASE ~ TransmitSend(t)
    BY <2>2 DEF Transmit, TransmitDrop, TransmitHold, TransmitTest, TransmitLoad, TransmitPush,
                lineVars, ToPeerStays
  <2> QED
    BY <2>1, <2>2
<1>4. \A e \in ackWaitQueue' : e.frame.kind = "data"
  <2>1. \A e \in ackWaitQueue : e.frame.kind = "data"
    BY DEF FlowInv, Calm
  <2>2. CASE TransmitPush(t)
    <3>1. NewEntry(DataFrame(eseq[t], Buf(t)), eseq[t], DataTries).frame.kind = "data"
      BY DEF NewEntry, DataFrame
    <3> QED
      BY <2>1, <2>2, <3>1 DEF TransmitPush
  <2>3. CASE ~ TransmitPush(t)
    BY <2>1, <2>3 DEF Transmit, TransmitDrop, TransmitHold, TransmitTest, TransmitLoad,
                      TransmitSend, queueVars
  <2> QED
    BY <2>2, <2>3
<1>5. \A u \in Threads : \A e \in pending'[u] : e.frame.kind = "data"
  BY <1>1 DEF FlowInv, Calm
<1>6. FromPeerStays
  BY <1>1 DEF FromPeerStays
<1>7. Quiet
  BY <1>1, <1>3, <1>6, StillQuiet
<1> QED
  BY <1>1, <1>2, <1>4, <1>5, <1>7, StillCalm

LEMMA CalmNow ==
    ASSUME FlowInv
    PROVE  /\ \A e \in ackWaitQueue : e.frame.kind = "data"
           /\ \A t \in Threads : \A e \in pending[t] : e.frame.kind = "data"
           /\ pending \in [Threads -> SUBSET [pos : Stamp, frame : QueuedFrame]]
           /\ ackWaitQueue \subseteq Entry /\ "pump" \in Threads /\ "timer" \in Threads
           /\ peer.up /\ ~peer.con /\ linkType = peer.type /\ pc["link"] = "idle"
BY DEF FlowInv, TypeInv, TypeOK, Calm, ThreadTypeOK, QueueTypeOK, Threads, Senders

LEMMA QuietPurge ==
    ASSUME FlowInv, PurgeQueue
    PROVE  Quiet /\ Calm'
<1>1. /\ linkType' = linkType /\ rxSequence' = rxSequence /\ UNCHANGED ncpVars /\ peer' = peer
      /\ toPeer' = toPeer /\ fromPeer' = fromPeer /\ pc' = pc /\ pending' = pending
      /\ ackWaitQueue' \subseteq ackWaitQueue
  BY DEF PurgeQueue, linkVars, lineVars, peerVars
<1>2. ToPeerStays /\ FromPeerStays
  BY <1>1 DEF ToPeerStays, FromPeerStays
<1>3. Quiet
  BY <1>1, <1>2, StillQuiet
<1> QED
  BY <1>1, <1>3, CalmNow, StillCalm

LEMMA QuietAck ==
    ASSUME FlowInv, ReceiveAck
    PROVE  Quiet /\ Calm'
<1>1. linkType # "UNKNOWN"
  BY FlowTypes
<1>2. /\ linkType' = linkType /\ rxSequence' = rxSequence /\ UNCHANGED ncpVars /\ peer' = peer
      /\ toPeer' = toPeer /\ fromPeer # <<>> /\ fromPeer' = Tail(fromPeer)
      /\ pc' = pc /\ pending' = pending
  BY <1>1 DEF ReceiveAck, Receiving, linkVars, peerVars
<1>3. ackWaitQueue' \subseteq ackWaitQueue
  <2>1. \E e : ackWaitQueue' = MultiAck(e)
    BY <1>1 DEF ReceiveAck
  <2> QED
    BY <2>1 DEF MultiAck
<1>4. ToPeerStays /\ FromPeerStays
  BY <1>2 DEF ToPeerStays, FromPeerStays
<1>5. Quiet
  BY <1>2, <1>4, StillQuiet
<1> QED
  BY <1>2, <1>3, <1>5, CalmNow, StillCalm

(* What retransmit and the hint pick is what they have stamped.            *)
LEMMA PickedIsData ==
    ASSUME FlowInv, NEW t \in Threads, NEW S, NEW A,
           \A e \in A : e.frame.kind = "data",
           \A e \in S : e.frame.kind = "data",
           ackWaitQueue' = A, pending' = [pending EXCEPT ![t] = Frames(S)]
    PROVE  /\ \A e \in ackWaitQueue' : e.frame.kind = "data"
           /\ \A u \in Threads : \A e \in pending'[u] : e.frame.kind = "data"
<1>1. \A e \in Frames(S) : e.frame.kind = "data"
  BY DEF Frames
<1>2. \A u \in Threads : pending'[u] = IF u = t THEN Frames(S) ELSE pending[u]
  BY CalmNow
<1> QED
  BY <1>1, <1>2, CalmNow

LEMMA QuietHint ==
    ASSUME FlowInv, ReceiveHint
    PROVE  Quiet /\ Calm'
<1>1. /\ linkType' = linkType /\ rxSequence' = rxSequence /\ UNCHANGED ncpVars /\ peer' = peer
      /\ toPeer' = toPeer /\ fromPeer # <<>> /\ fromPeer' = Tail(fromPeer)
  BY DEF ReceiveHint, Receiving, linkVars, peerVars
<1>2. PICK s : \/ UNCHANGED <<ackWaitQueue, pending, pc>>
               \/ \E e \in First(Matching(s)) :
                  \/ /\ ackWaitQueue' = ackWaitQueue \ {e}
                     /\ UNCHANGED <<pending, pc>>
                  \/ /\ e.txcount > 0
                     /\ ackWaitQueue' = (ackWaitQueue \ {e}) \cup {Retry(e)}
                     /\ pending' = [pending EXCEPT !["pump"] = Frames({e})]
                     /\ pc' = [pc EXCEPT !["pump"] = "resend"]
  BY DEF ReceiveHint
<1>3. First(Matching(s)) \subseteq ackWaitQueue
  BY DEF First, Matching
<1>4. ToPeerStays /\ FromPeerStays
  BY <1>1 DEF ToPeerStays, FromPeerStays
<1>5. Quiet
  BY <1>1, <1>4, StillQuiet
<1>6. CASE ackWaitQueue' \subseteq ackWaitQueue /\ UNCHANGED <<pending, pc>>
  BY <1>1, <1>5, <1>6, CalmNow, StillCalm
<1>7. ASSUME NEW e \in ackWaitQueue, e.txcount > 0,
             ackWaitQueue' = (ackWaitQueue \ {e}) \cup {Retry(e)},
             pending' = [pending EXCEPT !["pump"] = Frames({e})],
             pc' = [pc EXCEPT !["pump"] = "resend"]
      PROVE  Calm'
  <2>1. e \in Entry /\ e.frame.kind = "data"
    BY CalmNow
  <2>2. Retry(e).frame.kind = "data"
    BY <1>7, <2>1, RetryType
  <2>3. /\ \A x \in ackWaitQueue' : x.frame.kind = "data"
        /\ \A u \in Threads : \A x \in pending'[u] : x.frame.kind = "data"
    <3> DEFINE left == (ackWaitQueue \ {e}) \cup {Retry(e)}
               S == {e}
    <3>1. \A x \in left : x.frame.kind = "data"
      BY <2>2, CalmNow
    <3>2. "pump" \in Threads /\ \A x \in S : x.frame.kind = "data"
      BY <2>1, CalmNow
    <3>3. ackWaitQueue' = left /\ pending' = [pending EXCEPT !["pump"] = Frames(S)]
      BY <1>7
    <3> HIDE DEF left, S
    <3> QED
      BY <3>1, <3>2, <3>3, PickedIsData
  <2>4. pc'["link"] = pc["link"]
    BY <1>7, OtherThread DEF Senders
  <2> QED
    BY <1>1, <2>3, <2>4, StillCalm
<1> QED
  BY <1>2, <1>3, <1>5, <1>6, <1>7

LEMMA QuietResend ==
    ASSUME FlowInv, NEW t \in {"pump", "timer"}, Resend(t)
    PROVE  Quiet /\ Calm'
<1>1. PICK e \in pending[t] : /\ toPeer' = Append(toPeer, e.frame)
                              /\ pending' = [pending EXCEPT ![t] = @ \ {e}]
                              /\ \E l : pc' = [pc EXCEPT ![t] = l]
  BY DEF Resend, First
<1>2. /\ linkType' = linkType /\ rxSequence' = rxSequence /\ UNCHANGED ncpVars /\ peer' = peer
      /\ fromPeer' = fromPeer /\ ackWaitQueue' = ackWaitQueue
  BY DEF Resend, linkVars, queueVars, peerVars
<1>3. t \in Threads /\ pc'["link"] = pc["link"]
  BY <1>1, OtherThread DEF Senders
<1>4. e.frame.kind = "data"
  BY <1>1, <1>3, CalmNow
<1>5. ToPeerStays /\ FromPeerStays
  BY <1>1, <1>2, <1>4 DEF ToPeerStays, FromPeerStays
<1>6. Quiet
  BY <1>2, <1>5, StillQuiet
<1>7. \A u \in Threads : pending'[u] \subseteq pending[u]
  BY <1>1, CalmNow
<1>8. \A u \in Threads : \A x \in pending'[u] : x.frame.kind = "data"
  BY <1>7, CalmNow
<1>9. \A x \in ackWaitQueue' : x.frame.kind = "data"
  BY <1>2, CalmNow
<1> QED
  BY <1>2, <1>3, <1>6, <1>8, <1>9, StillCalm

LEMMA QuietRetransmit ==
    ASSUME FlowInv, RetransmitTest \/ RetransmitPurge \/ Retransmit
    PROVE  Quiet /\ Calm'
<1>1. /\ linkType' = linkType /\ rxSequence' = rxSequence /\ UNCHANGED ncpVars /\ peer' = peer
      /\ toPeer' = toPeer /\ fromPeer' = fromPeer
  BY DEF RetransmitTest, RetransmitPurge, Retransmit, linkVars, lineVars, peerVars
<1>2. pc'["link"] = pc["link"]
  <2>1. \E l : pc' = [pc EXCEPT !["timer"] = l]
    BY DEF RetransmitTest, RetransmitPurge, Retransmit, Goto
  <2> QED
    BY <2>1, OtherThread
<1>3. ToPeerStays /\ FromPeerStays
  BY <1>1 DEF ToPeerStays, FromPeerStays
<1>4. Quiet
  BY <1>1, <1>3, StillQuiet
<1>5. CASE ~ Retransmit
  <2>1. ackWaitQueue' \subseteq ackWaitQueue /\ pending' = pending
    BY <1>5 DEF RetransmitTest, RetransmitPurge, queueVars
  <2> QED
    BY <1>1, <1>2, <1>4, <2>1, CalmNow, StillCalm
<1>6. CASE Retransmit
  <2>1. PICK oldest \in ackWaitQueue :
         LET expired == {e \in ackWaitQueue : e.stamp <= oldest.stamp}
             dead == {e \in expired : e.txcount = 0}
             again == {Retry(e) : e \in expired \ dead} IN
         /\ ackWaitQueue' = (ackWaitQueue \ expired) \cup again
         /\ pending' = [pending EXCEPT !["timer"] = Frames(again)]
    BY <1>6 DEF Retransmit
  <2> DEFINE expired == {e \in ackWaitQueue : e.stamp <= oldest.stamp}
             dead == {e \in expired : e.txcount = 0}
             again == {Retry(e) : e \in expired \ dead}
             left == (ackWaitQueue \ expired) \cup again
  <2>2. \A e \in expired \ dead : e \in Entry /\ e.txcount # 0 /\ e.frame.kind = "data"
    BY CalmNow
  <2>3. \A e \in expired \ dead : Retry(e).frame.kind = "data"
    <3> HIDE DEF expired, dead
    <3> QED
      BY <2>2, RetryType
  <2>4. \A e \in again : e.frame.kind = "data"
    <3> HIDE DEF expired, dead
    <3> QED
      BY <2>3
  <2>5. \A e \in left : e.frame.kind = "data"
    <3> HIDE DEF again
    <3> QED
      BY <2>4, CalmNow
  <2>6. ackWaitQueue' = left /\ pending' = [pending EXCEPT !["timer"] = Frames(again)]
    BY <2>1
  <2>7. "timer" \in Threads
    BY CalmNow
  <2> HIDE DEF left, again
  <2>8. /\ \A x \in ackWaitQueue' : x.frame.kind = "data"
        /\ \A u \in Threads : \A x \in pending'[u] : x.frame.kind = "data"
    BY <2>4, <2>5, <2>6, <2>7, PickedIsData
  <2> QED
    BY <1>1, <1>2, <1>4, <2>8, StillCalm
<1> QED
  BY <1>5, <1>6

LEMMA QuietLose ==
    ASSUME FlowInv, Lose
    PROVE  Quiet /\ Calm'
<1>1. /\ linkType' = linkType /\ rxSequence' = rxSequence /\ UNCHANGED ncpVars /\ peer' = peer
      /\ pc' = pc /\ ackWaitQueue' = ackWaitQueue /\ pending' = pending
  BY DEF Lose, linkVars, queueVars, threadVars, peerVars
<1>2. ToPeerStays /\ FromPeerStays
  BY DEF Lose, ToPeerStays, FromPeerStays
<1>3. Quiet
  BY <1>1, <1>2, StillQuiet
<1> QED
  BY <1>1, <1>3, CalmNow, StillCalm

(* What the Psion sends, except that it may be lost at once.               *)
LEMMA Answered ==
    ASSUME NEW f, Answer(f),
           f.kind = "ack" \/ (f.kind = "data" /\ f.pkt = peer.item /\ f.seq = peer.txSeq)
    PROVE  FromPeerStays
BY DEF Answer, FromPeerStays

LEMMA QuietPeerData ==
    ASSUME FlowInv, PeerData
    PROVE  Quiet /\ Calm'
<1>1. /\ linkType' = linkType /\ rxSequence' = rxSequence /\ UNCHANGED ncpVars
      /\ pc' = pc /\ ackWaitQueue' = ackWaitQueue /\ pending' = pending
      /\ toPeer # <<>> /\ toPeer' = Tail(toPeer)
  BY DEF PeerData, linkVars, queueVars, threadVars
<1>2. \E n : peer' = [peer EXCEPT !.rx = n]
  <2>1. peer = [peer EXCEPT !.rx = peer.rx]
    BY FlowTypes
  <2> QED
    BY <2>1 DEF PeerData
<1>3. FromPeerStays
  <2>1. \A s : Ack(s).kind = "ack"
    BY DEF Ack
  <2>2. fromPeer' = fromPeer \/ \E s : Answer(Ack(s))
    BY DEF PeerData
  <2> QED
    BY <2>1, <2>2, Answered DEF FromPeerStays
<1>4. Quiet
  BY <1>1, <1>2, <1>3 DEF Quiet, ToPeerStays, ncpVars
<1>5. peer'.type = peer.type /\ peer'.up = peer.up /\ peer'.con = peer.con
  BY <1>2, FlowTypes
<1> QED
  BY <1>1, <1>4, <1>5 DEF FlowInv, Calm

LEMMA QuietPeerSend ==
    ASSUME FlowInv, PeerSend
    PROVE  Quiet /\ Calm'
<1>1. /\ linkType' = linkType /\ rxSequence' = rxSequence /\ UNCHANGED ncpVars /\ peer' = peer
      /\ pc' = pc /\ ackWaitQueue' = ackWaitQueue /\ pending' = pending /\ toPeer' = toPeer
  BY DEF PeerSend, linkVars, queueVars, threadVars, peerVars
<1>2. FromPeerStays
  <2> DEFINE f == DataFrame(peer.txSeq, peer.item)
  <2>1. f.kind = "data" /\ f.pkt = peer.item /\ f.seq = peer.txSeq
    BY DEF DataFrame
  <2>2. Answer(f)
    BY DEF PeerSend
  <2> HIDE DEF f
  <2> QED
    BY <2>1, <2>2, Answered
<1>3. Quiet
  BY <1>1, <1>2, StillQuiet DEF ToPeerStays
<1> QED
  BY <1>1, <1>3, CalmNow, StillCalm

-----------------------------------------------------------------------------
(* The two steps of the stream.                                            *)

(* The Psion sees its packet acknowledged.                                 *)
LEMMA PeerAckKeeps ==
    ASSUME FlowInv, TypeInv', PeerAck
    PROVE  FlowInv'
(* Constants, so that they do not change with the step.                    *)
<1>0. PICK n, new, next : n = peer.item /\ new = peer.txSeq /\ next = (new + 1) % Modulus
  OBVIOUS
<1>1. PICK taken \in 0 .. Len(PeerScript), old \in 0 .. Modulus - 1 : Flow(taken, old)
  BY DEF FlowInv
<1>2. /\ linkType' = linkType /\ rxSequence' = rxSequence /\ ncpGot' = ncpGot /\ ncpEver' = ncpEver
      /\ pc' = pc /\ ackWaitQueue' = ackWaitQueue /\ pending' = pending
      /\ toPeer # <<>> /\ toPeer' = Tail(toPeer) /\ fromPeer' = fromPeer
      /\ Head(toPeer).kind = "ack"
  BY DEF PeerAck, linkVars, queueVars, threadVars, ncpVars
<1>3. CASE peer' = peer
  <2>1. ToPeerStays /\ FromPeerStays
    BY <1>2 DEF ToPeerStays, FromPeerStays
  <2>2. Quiet
    BY <1>2, <1>3, <2>1, StillQuiet DEF ncpVars
  <2>3. Calm'
    BY <1>2, <1>3, CalmNow, StillCalm
  <2> QED
    BY <2>2, <2>3, QuietKeeps
<1>4. CASE Head(toPeer).seq = new
           /\ peer' = [peer EXCEPT !.item = @ + 1, !.txSeq = (@ + 1) % PeerModulus]
  <2>1. /\ n \in Nat /\ taken \in {n - 1, n} /\ new = (old + 1) % Modulus
        /\ rxSequence = IF taken = n THEN new ELSE old
        /\ ItemsOn(fromPeer, taken, n, old, new) /\ AcksOn(toPeer, taken, n, old, new)
        /\ toPeer \in Seq(ToPeerFrame) /\ Modulus \in Nat \ {0, 1} /\ Delivered(taken)
    BY <1>0, <1>1, FlowTypes DEF Flow
  <2>2. new \in 0 .. Modulus - 1 /\ new # old /\ next # new
    BY <1>0, <1>1, <2>1, NumbersDiffer, Numbers
  <2>3. PeerModulus = Modulus /\ Modulus' = Modulus
    BY <1>2, CalmNow DEF PeerModulus, Modulus
  <2>4. /\ peer'.item = n + 1 /\ peer'.txSeq = next
        /\ peer'.type = peer.type /\ peer'.up = peer.up /\ peer'.con = peer.con
    BY <1>0, <1>4, <2>3, FlowTypes
  <2>5. Calm'
    BY <1>2, <2>4 DEF FlowInv, Calm
  <2>6. taken = n /\ AcksOn(Tail(toPeer), n, n + 1, new, next)
    BY <1>2, <1>4, <2>1, <2>2, AcksNext
  <2>7. ItemsOn(fromPeer, n, n + 1, new, next)
    BY <2>1, <2>6, ItemsNext
  <2>8. Delivered(n)'
    BY <1>2, <2>1, <2>6 DEF Delivered, Increasing, Elements
  <2>9. rxSequence' = IF n = n + 1 THEN next ELSE new
    BY <1>2, <2>1, <2>6
  <2>10. n \in {n + 1 - 1, n + 1}
    BY <2>1
  <2>11. Flow(n, new)'
    BY <1>2, <2>3, <2>4, <2>6, <2>7, <2>8, <2>9, <2>10, <1>0 DEF Flow
  <2>12. n \in 0 .. Len(PeerScript) /\ new \in 0 .. Modulus' - 1
    BY <2>2, <2>3, <2>6
  <2> QED
    BY <2>5, <2>11, <2>12 DEF FlowInv
<1>5. peer' = peer \/ (/\ Head(toPeer).seq = new
                       /\ peer' = [peer EXCEPT !.item = @ + 1, !.txSeq = (@ + 1) % PeerModulus])
  BY <1>0, CalmNow DEF PeerAck, peerVars
<1> QED
  BY <1>3, <1>4, <1>5

(* An item in sequence is taken and acknowledged in one step; the rest is  *)
(* answered with the number of the last one.                               *)
LEMMA TakenIsDelivered ==
    ASSUME NcpTypeOK, NEW n \in DOMAIN PeerScript, Delivered(n - 1),
           Deliver(n, PeerScript[n])
    PROVE  Delivered(n)'
<1>1. /\ n \in Nat \ {0} /\ PeerScript[n].kind \in {"xoff", "xon", "data", "disconnect"}
  <2>1. PeerScript \in Seq(PeerItem) /\ n \in 1 .. Len(PeerScript)
    BY ScriptAssumption
  <2>2. PeerScript[n] \in PeerItem
    BY <2>1, ElementOfSeq
  <2> QED
    BY <2>1, <2>2 DEF PeerItem
<1>2. /\ ForNcpUpTo(n - 1) \subseteq ncpEver /\ Increasing(ncpGot)
      /\ Elements(ncpGot) = ForNcpUpTo(n - 1)
  BY DEF Delivered
<1>3. 1 .. n = (1 .. n - 1) \cup {n}
  BY <1>1
<1>4. CASE ~ ForNcp(n)
  <2>1. ncpGot' = ncpGot /\ ncpEver' = ncpEver
    BY <1>1, <1>4 DEF Deliver, ForNcp, ncpVars
  <2>2. ForNcpUpTo(n) = ForNcpUpTo(n - 1)
    BY <1>3, <1>4 DEF ForNcpUpTo
  <2> QED
    BY <1>2, <2>1, <2>2 DEF Delivered
<1>5. CASE ForNcp(n)
  <2>1. ncpGot' = Append(ncpGot, n) /\ ncpEver' = ncpEver \cup {n}
    BY <1>1, <1>5 DEF Deliver, Receive, ForNcp
  <2>2. ForNcpUpTo(n) = ForNcpUpTo(n - 1) \cup {n}
    BY <1>3, <1>5 DEF ForNcpUpTo
  <2> DEFINE got == Append(ncpGot, n)
             l == Len(ncpGot) + 1
  <2>3. /\ l \in DOMAIN got /\ got[l] = n /\ DOMAIN ncpGot \subseteq DOMAIN got
        /\ \A i \in DOMAIN ncpGot : i < l /\ got[i] = ncpGot[i]
        /\ \A i \in DOMAIN got : i \in DOMAIN ncpGot \/ i = l
    BY AppendTo DEF NcpTypeOK
  <2>4. l \in Nat /\ DOMAIN ncpGot \subseteq Nat
    BY DEF NcpTypeOK
  <2> HIDE DEF got, l
  <2>5. \A i \in DOMAIN ncpGot : ncpGot[i] \in 1 .. n - 1
    BY <1>2 DEF Elements, ForNcpUpTo
  <2>6. Elements(got) = ForNcpUpTo(n)
    BY <1>2, <2>2, <2>3 DEF Elements
  <2>7. ASSUME NEW i \in DOMAIN got, NEW j \in DOMAIN got, i < j PROVE got[i] < got[j]
    <3>1. i \in DOMAIN ncpGot
      BY <2>3, <2>4, <2>7
    <3>2. CASE j = l
      BY <1>1, <2>3, <2>5, <3>1, <3>2
    <3>3. CASE j \in DOMAIN ncpGot
      BY <1>2, <2>3, <2>7, <3>1, <3>3 DEF Increasing
    <3> QED
      BY <2>3, <3>2, <3>3
  <2>8. Increasing(got)
    BY <2>7 DEF Increasing
  <2> QED
    BY <1>2, <2>1, <2>2, <2>6, <2>8 DEF Delivered, got
<1> QED
  BY <1>4, <1>5

LEMMA ReceiveDataKeeps ==
    ASSUME FlowInv, TypeInv', ReceiveData
    PROVE  FlowInv'
<1>0. PICK n, new : n = peer.item /\ new = peer.txSeq
  OBVIOUS
<1>1. PICK taken \in 0 .. Len(PeerScript), old \in 0 .. Modulus - 1 : Flow(taken, old)
  BY DEF FlowInv
<1>2. /\ linkType' = linkType /\ peer' = peer /\ pc' = pc /\ ackWaitQueue' = ackWaitQueue
      /\ pending' = pending /\ fromPeer # <<>> /\ fromPeer' = Tail(fromPeer)
      /\ Head(fromPeer).kind = "data" /\ failed' = failed
  BY DEF ReceiveData, Receiving, peerVars
<1>3. /\ n \in Nat \ {0} /\ taken \in {n - 1, n} /\ new = (old + 1) % Modulus
      /\ rxSequence = IF taken = n THEN new ELSE old
      /\ ItemsOn(fromPeer, taken, n, old, new) /\ AcksOn(toPeer, taken, n, old, new)
      /\ toPeer \in Seq(ToPeerFrame) /\ fromPeer \in Seq(FromPeerFrame)
      /\ Modulus \in Nat \ {0, 1} /\ Delivered(taken)
  BY <1>0, <1>1, FlowTypes DEF Flow
<1>4. new \in 0 .. Modulus - 1 /\ new # old /\ (new + 1) % Modulus # new
  BY <1>0, <1>1, <1>3, NumbersDiffer, Numbers
<1>5. Calm'
  BY <1>2, CalmNow, StillCalm
<1>6. Modulus' = Modulus /\ peer'.item = n /\ peer'.txSeq = new
  BY <1>0, <1>2 DEF Modulus
<1>7. /\ Head(fromPeer).pkt \in taken .. n /\ Head(fromPeer).pkt \in DOMAIN PeerScript
      /\ Head(fromPeer).seq = IF Head(fromPeer).pkt = n THEN new ELSE old
  <2>1. 1 \in DOMAIN fromPeer /\ Head(fromPeer) = fromPeer[1]
    BY <1>2, <1>3, TailOf
  <2>2. fromPeer[1] \in FromPeerFrame
    BY <1>3, <2>1
  <2> QED
    BY <1>2, <1>3, <2>1, <2>2, ArrivingType DEF ItemsOn
<1>8. CASE InSequence(Head(fromPeer))
  <2>1. (rxSequence + 1) % Modulus = Head(fromPeer).seq
    BY <1>8 DEF InSequence
  <2>2. taken = n - 1 /\ rxSequence = old /\ Head(fromPeer).pkt = n /\ Head(fromPeer).seq = new
    <3>1. taken # n
      <4> SUFFICES ASSUME taken = n PROVE FALSE
        OBVIOUS
      <4>1. Head(fromPeer).pkt = n
        BY <1>3, <1>7
      <4> QED
        BY <1>3, <1>4, <1>7, <2>1, <4>1
    <3>2. rxSequence = old /\ taken = n - 1
      BY <1>3, <3>1
    <3> QED
      BY <1>3, <1>4, <1>7, <2>1, <3>2
  <2>3. /\ rxSequence' = new /\ Deliver(n, PeerScript[n])
        /\ toPeer' = toPeer \/ toPeer' = Append(toPeer, Ack(new))
    BY <1>8, <2>2 DEF ReceiveData, SendAck
  <2>4. ItemsOn(fromPeer', n, n, old, new)
    BY <1>2, <1>3, <2>2, ItemsTaken
  <2>5. AcksOn(toPeer', n, n, old, new)
    <3>1. AcksOn(toPeer, n, n, old, new)
      BY <1>3, <1>4, <2>2, AcksTaken
    <3>2. Ack(new).kind = "ack" /\ Ack(new).seq = new
      BY DEF Ack
    <3> QED
      BY <1>3, <1>4, <2>3, <3>1, <3>2, AcksAppend
  <2>6. Delivered(n)'
    <3>1. NcpTypeOK
      BY DEF FlowInv, TypeInv, TypeOK
    <3> QED
      BY <1>3, <1>7, <2>2, <2>3, <3>1, TakenIsDelivered
  <2>7. Flow(n, old)'
    BY <1>3, <1>6, <2>3, <2>4, <2>5, <2>6 DEF Flow
  <2>8. n \in 0 .. Len(PeerScript)
    BY <1>7, <2>2, ScriptAssumption
  <2> QED
    BY <1>5, <1>6, <2>7, <2>8 DEF FlowInv
<1>9. CASE ~ InSequence(Head(fromPeer))
  <2>1. /\ rxSequence' = rxSequence /\ ncpGot' = ncpGot /\ ncpEver' = ncpEver
        /\ toPeer' = toPeer \/ toPeer' = Append(toPeer, Ack(rxSequence))
    BY <1>9 DEF ReceiveData, SendAck, ncpVars
  <2>2. ItemsOn(fromPeer', taken, n, old, new)
    BY <1>2, <1>3, ItemsTail
  <2>3. AcksOn(toPeer', taken, n, old, new)
    <3>1. Ack(rxSequence).kind = "ack" /\ Ack(rxSequence).seq = IF taken = n THEN new ELSE old
      BY <1>3 DEF Ack
    <3> QED
      BY <1>3, <1>4, <2>1, <3>1, AcksAppend
  <2>4. Delivered(taken)'
    BY <1>3, <2>1 DEF Delivered
  <2>5. Flow(taken, old)'
    BY <1>3, <1>6, <2>1, <2>2, <2>3, <2>4 DEF Flow
  <2> QED
    BY <1>5, <1>6, <2>5 DEF FlowInv
<1> QED
  BY <1>8, <1>9

(* No fault and no reset: neither side asks for another link.              *)
LEMMA NoOtherLink ==
    ASSUME FlowInv, AutoExit, MaxFaults = 0
    PROVE  /\ ~ ReceiveCon /\ ~ ReceiveReqEpoc /\ ~ ReceiveReqSibo /\ ~ ReceiveDisc
           /\ ~ Reset /\ ~ HasFailed /\ ~ PeerLink /\ ~ PeerFault
<1>1. ~ ReceiveCon /\ ~ ReceiveReqEpoc /\ ~ ReceiveReqSibo /\ ~ ReceiveDisc
  BY Arrives DEF ReceiveCon, ReceiveReqEpoc, ReceiveReqSibo, ReceiveDisc, Receiving
<1>2. ~ Reset
  BY CalmNow DEF Reset, ResetTest, ResetFields, ResetPurge, ResetLine, ResetRequest
<1>3. ~ PeerLink
  BY Arrives DEF PeerLink
<1>4. ~ (faults < MaxFaults)
  BY DEF FlowInv, TypeInv, TypeOK, CountTypeOK
<1> QED
  BY <1>1, <1>2, <1>3, <1>4 DEF HasFailed, PeerFault, Fault

LEMMA FlowNext ==
    ASSUME AutoExit, MaxFaults = 0, FlowInv, [Next]_vars
    PROVE  FlowInv'
<1>1. TypeInv'
  BY TypeNext DEF FlowInv
<1>2. CASE ReceiveData
  BY <1>1, <1>2, ReceiveDataKeeps
<1>3. CASE PeerAck
  BY <1>1, <1>3, PeerAckKeeps
<1>4. CASE \/ \E s \in Sessions : Send(s)
           \/ \E t \in Senders : Transmit(t)
           \/ PurgeQueue \/ ReceiveAck \/ ReceiveHint \/ Resend("pump")
           \/ RetransmitTest \/ RetransmitPurge \/ Retransmit \/ Resend("timer")
           \/ Lose \/ PeerData \/ PeerSend
  <2>1. Quiet /\ Calm'
    BY <1>4, QuietSend, QuietTransmit, QuietPurge, QuietAck, QuietHint, QuietResend,
       QuietRetransmit, QuietLose, QuietPeerData, QuietPeerSend
  <2> QED
    BY <1>1, <2>1, QuietKeeps
<1>5. CASE UNCHANGED vars
  <2>1. /\ linkType' = linkType /\ rxSequence' = rxSequence /\ UNCHANGED ncpVars /\ peer' = peer
        /\ toPeer' = toPeer /\ fromPeer' = fromPeer /\ pc' = pc
        /\ ackWaitQueue' = ackWaitQueue /\ pending' = pending
    BY <1>5 DEF vars, linkVars, queueVars, threadVars, lineVars, peerVars
  <2>2. Quiet
    BY <2>1, StillQuiet DEF ToPeerStays, FromPeerStays
  <2>3. Calm'
    BY <2>1, CalmNow, StillCalm
  <2> QED
    BY <1>1, <2>2, <2>3, QuietKeeps
<1> QED
  BY <1>2, <1>3, <1>4, <1>5, NoOtherLink DEF Next, Pump, Timer, PeerReceive

LEMMA ConnectedType == Connected => TypeInv
<1> SUFFICES ASSUME Connected PROVE TypeInv
  OBVIOUS
<1> USE DEF Connected
<1>1. PICK t \in PeerTypes : peer = [type |-> t, up |-> TRUE, rx |-> 0, txSeq |-> 1,
                                     item |-> 1, con |-> FALSE, magic |-> FALSE]
  OBVIOUS
<1>2. LinkTypeOK
  BY <1>1, SmallSeqNo, ProtocolAssumption DEF LinkTypeOK
<1>3. QueueTypeOK
  BY EmptyHold DEF QueueTypeOK
<1>4. ThreadTypeOK
  <2>1. <<>> \in Seq(Packet)
    OBVIOUS
  <2> QED
    BY <2>1, SmallSeqNo DEF ThreadTypeOK, Label
<1>5. LineTypeOK
  BY DEF LineTypeOK
<1>6. PeerTypeOK
  <2>1. 1 \in 1 .. Len(PeerScript) + 1
    BY ScriptAssumption
  <2>2. peerGot \in Seq(Packet)
    OBVIOUS
  <2> QED
    BY <1>1, <2>1, <2>2, SmallSeqNo DEF PeerTypeOK
<1>7. NcpTypeOK
  BY DEF NcpTypeOK
<1>8. CountTypeOK
  BY ScriptAssumption, ProtocolAssumption DEF CountTypeOK
<1>9. HasPacket
  BY PumpIsSender DEF HasPacket
<1> QED
  BY <1>2, <1>3, <1>4, <1>5, <1>6, <1>7, <1>8, <1>9 DEF TypeInv, TypeOK

LEMMA FlowInit == Connected => FlowInv
<1> SUFFICES ASSUME Connected PROVE FlowInv
  OBVIOUS
<1>1. TypeInv
  BY ConnectedType
<1>2. /\ peer.item = 1 /\ peer.txSeq = 1 /\ peer.up /\ ~peer.con /\ linkType = peer.type
      /\ rxSequence = 0 /\ toPeer = <<>> /\ fromPeer = <<>> /\ ncpGot = <<>>
  BY DEF Connected
<1>3. Calm
  BY <1>2 DEF Connected, Calm, Threads
<1>4. Modulus \in Nat \ {0, 1}
  BY ProtocolAssumption DEF Modulus
<1>5. 1 % Modulus = 1 /\ 0 \in 0 .. Modulus - 1
  <2>1. 1 \in 0 .. Modulus - 1
    BY <1>4
  <2> QED
    BY <1>4, <2>1, Remainder
<1>6. ItemsOn(<<>>, 0, 1, 0, 1) /\ AcksOn(<<>>, 0, 1, 0, 1)
  BY DEF ItemsOn, AcksOn
<1>7. Delivered(0)
  BY <1>2 DEF Delivered, ForNcpUpTo, Increasing, Elements
<1>8. Flow(0, 0)
  BY <1>2, <1>5, <1>6, <1>7 DEF Flow
<1>9. 0 \in 0 .. Len(PeerScript)
  BY ScriptAssumption
<1> QED
  BY <1>1, <1>3, <1>5, <1>8, <1>9 DEF FlowInv

LEMMA FlowImplies ==
    ASSUME FlowInv
    PROVE  NoItemLost /\ NcpInOrder
<1>1. PICK taken \in 0 .. Len(PeerScript), old \in 0 .. Modulus - 1 : Flow(taken, old)
  BY DEF FlowInv
<1>2. PICK n \in Nat : n = peer.item /\ taken \in {n - 1, n}
  BY <1>1, FlowTypes DEF Flow
<1>3. /\ ForNcpUpTo(taken) \subseteq ncpEver
      /\ Increasing(ncpGot) /\ Elements(ncpGot) = ForNcpUpTo(taken)
  BY <1>1 DEF Flow, Delivered
<1>4. NoItemLost
  BY <1>2, <1>3 DEF NoItemLost, ForNcpUpTo
<1>5. NcpInOrder
  BY <1>3 DEF NcpInOrder, ForNcpUpTo
<1> QED
  BY <1>4, <1>5

(* As long as the link that was set up lasts, every item of the Psion that *)
(* is acknowledged has reached NCP::receive: the acknowledgement is sent   *)
(* before the delivery, but by the same thread and only if it is in        *)
(* sequence.                                                               *)
THEOREM NothingLost ==
    ASSUME AutoExit, MaxFaults = 0
    PROVE  ConnectedSpec => []NoItemLost
<1>1. FlowInv /\ [Next]_vars => FlowInv'
  BY FlowNext
<1>2. FlowInv => NoItemLost
  BY FlowImplies
<1> QED
  BY FlowInit, <1>1, <1>2, PTL DEF ConnectedSpec

(* And what NCP::receive gets is what the Psion sent, in that order, once  *)
(* each, without XOFF and XON, whatever is lost or repeated on the line    *)
(* and whoever sends at the same time.                                     *)
THEOREM ReceivedInOrder ==
    ASSUME AutoExit, MaxFaults = 0
    PROVE  ConnectedSpec => []NcpInOrder
<1>1. FlowInv /\ [Next]_vars => FlowInv'
  BY FlowNext
<1>2. FlowInv => NcpInOrder
  BY FlowImplies
<1> QED
  BY FlowInit, <1>1, <1>2, PTL DEF ConnectedSpec

-----------------------------------------------------------------------------
(* What is held, when nobody but the pump sends.                           *)

HoldStays ==
    /\ xoff' = xoff
    /\ \A c \in Channels : holdQueue'[c] = holdQueue[c] \/ holdQueue'[c] = <<>>
    /\ pc'["link"] = pc["link"]
    /\ \A s \in Sessions : todo'[s] = todo[s]
    /\ pc'["pump"] = "hold" => pc["pump"] = "hold" /\ todo'["pump"] = todo["pump"]

LEMMA HoldKeeps ==
    ASSUME HoldInv, TypeInv', HoldStays
    PROVE  HoldInv'
<1>1. HeldOnlyWhileStopped'
  BY DEF HoldInv, HoldStays, HeldOnlyWhileStopped
<1>2. (pc["pump"] = "hold" => Held("pump"))'
  BY DEF HoldInv, HoldStays, Held, Buf
<1> QED
  BY <1>1, <1>2 DEF HoldInv, HoldStays

(* A sender is one of the sessions or the pump; the other threads are neither. *)
LEMMA PumpIsApart ==
    /\ "pump" \notin Sessions /\ "link" \notin Senders /\ "timer" \notin Senders
    /\ {"pump", "link", "timer"} \subseteq Threads /\ Senders \subseteq Threads
    /\ Sessions \subseteq Senders
BY SessionsAssumption DEF Senders, Threads

LEMMA SessionsAreIdle ==
    ASSUME HoldInv, NEW t \in Sessions
    PROVE  ~ Transmit(t)
<1>1. todo[t] = <<>> /\ pc[t] \notin {"hold", "load", "store", "send"}
  BY PumpIsApart DEF HoldInv, TypeInv, HasPacket
<1> QED
  BY <1>1 DEF Transmit, TransmitDrop, TransmitHold, TransmitTest, TransmitLoad, TransmitPush,
              TransmitSend

LEMMA HoldSend ==
    ASSUME HoldInv, 1 .. NSession \subseteq Oversize, NEW s \in Sessions, Send(s)
    PROVE  HoldStays
<1>1. nextSend \in Oversize
  BY ScriptAssumption DEF HoldInv, TypeInv, TypeOK, CountTypeOK, Send
<1> QED
  BY <1>1 DEF Send, HoldStays, queueVars

LEMMA HoldTransmit ==
    ASSUME HoldInv, TypeInv', Transmit("pump")
    PROVE  HoldInv'
<1>0. /\ pc \in [Threads -> Label] /\ todo \in [Senders -> Seq(Packet)]
      /\ holdQueue \in [Channels -> Seq(Packet)]
  BY DEF HoldInv, TypeInv, TypeOK, ThreadTypeOK, QueueTypeOK
<1>1. ASSUME Finish("pump") \/ \E l \in {"load", "store", "send"} : Goto("pump", l)
      PROVE  /\ pc'["link"] = pc["link"] /\ pc'["pump"] # "hold"
             /\ \A s \in Sessions : todo'[s] = todo[s]
  BY <1>0, <1>1, PumpIsApart DEF Finish, Goto
<1>2. CASE TransmitDrop("pump")
  <2>1. CASE Finish("pump")
    BY <1>1, <1>2, <2>1, HoldKeeps DEF TransmitDrop, queueVars, HoldStays
  <2>2. CASE Held("pump") /\ Goto("pump", "hold")
    <3>1. /\ todo' = todo /\ pc'["link"] = pc["link"]
          /\ xoff' = xoff /\ holdQueue' = holdQueue
      BY <1>0, <1>2, <2>2, PumpIsApart DEF TransmitDrop, Goto, queueVars
    <3>2. Held("pump")'
      BY <2>2, <3>1 DEF Held, Buf
    <3>3. HeldOnlyWhileStopped'
      BY <3>1 DEF HoldInv, HeldOnlyWhileStopped
    <3> QED
      BY <3>1, <3>2, <3>3 DEF HoldInv
  <2> QED
    BY <1>2, <2>1, <2>2 DEF TransmitDrop
<1>3. CASE TransmitHold("pump")
  <2>1. PICK c : c = ChanOf[Buf("pump")]
    OBVIOUS
  <2>2. /\ xoff' = xoff /\ xoff[c] /\ holdQueue' = [holdQueue EXCEPT ![c] = Append(@, Buf("pump"))]
        /\ Finish("pump")
    BY <1>3, <2>1 DEF TransmitHold, HoldInv, Held
  <2>3. HeldOnlyWhileStopped'
    BY <1>0, <2>2 DEF HoldInv, HeldOnlyWhileStopped
  <2> QED
    BY <1>1, <2>2, <2>3 DEF HoldInv
<1>4. CASE TransmitTest("pump")
  BY <1>1, <1>4, HoldKeeps DEF TransmitTest, HoldStays
<1>5. CASE TransmitLoad("pump") \/ TransmitPush("pump") \/ TransmitSend("pump")
  <2>1. xoff' = xoff /\ holdQueue' = holdQueue
    BY <1>5 DEF TransmitLoad, TransmitPush, TransmitSend, queueVars
  <2> QED
    BY <1>1, <1>5, <2>1, HoldKeeps DEF TransmitLoad, TransmitPush, TransmitSend, HoldStays
<1> QED
  BY <1>2, <1>3, <1>4, <1>5 DEF Transmit

(* XOFF and XON are handled while the pump sends nothing, and XON takes    *)
(* everything out of its channel's queue.                                  *)
LEMMA HoldReceiveData ==
    ASSUME HoldInv, TypeInv', ReceiveData
    PROVE  HoldInv'
<1>0. /\ todo \in [Senders -> Seq(Packet)] /\ xoff \in [Channels -> BOOLEAN]
      /\ holdQueue \in [Channels -> Seq(Packet)]
  BY DEF HoldInv, TypeInv, TypeOK, ThreadTypeOK, QueueTypeOK
<1>1. pc' = pc /\ pc["pump"] = "idle"
  BY DEF ReceiveData, Receiving
<1>2. PICK i \in DOMAIN PeerScript :
         \/ Deliver(i, PeerScript[i])
         \/ UNCHANGED <<holdQueue, xoff, todo>>
  <2>1. Head(fromPeer).kind = "data" /\ Head(fromPeer) \in FromPeerFrame
    BY HeadType DEF ReceiveData, Receiving, HoldInv, TypeInv, TypeOK, LineTypeOK
  <2> QED
    BY <2>1, ArrivingType DEF ReceiveData
<1>3. \A s \in Sessions : todo'[s] = todo[s]
  BY <1>0, <1>2, PumpIsApart DEF Deliver, ReleaseHeld
<1>4. HeldOnlyWhileStopped'
  <2>1. CASE UNCHANGED <<holdQueue, xoff>>
    BY <2>1 DEF HoldInv, HeldOnlyWhileStopped
  <2>2. PICK c : c = PeerScript[i].chan
    OBVIOUS
  <2>3. CASE xoff' = [xoff EXCEPT ![c] = TRUE] /\ holdQueue' = holdQueue
    BY <1>0, <2>3 DEF HoldInv, HeldOnlyWhileStopped
  <2>4. CASE xoff' = [xoff EXCEPT ![c] = FALSE] /\ holdQueue' = [holdQueue EXCEPT ![c] = <<>>]
    BY <1>0, <2>4 DEF HoldInv, HeldOnlyWhileStopped
  <2> QED
    BY <1>2, <2>1, <2>2, <2>3, <2>4 DEF Deliver, ReleaseHeld
<1> QED
  BY <1>1, <1>3, <1>4 DEF HoldInv

LEMMA HoldPump ==
    ASSUME HoldInv, PurgeQueue \/ ReceiveAck \/ ReceiveHint \/ ReceiveCon \/ ReceiveReqEpoc
                       \/ ReceiveReqSibo \/ ReceiveDisc
    PROVE  HoldStays
<1>1. /\ pc \in [Threads -> Label] /\ todo \in [Senders -> Seq(Packet)]
      /\ holdQueue \in [Channels -> Seq(Packet)]
  BY DEF HoldInv, TypeInv, TypeOK, ThreadTypeOK, QueueTypeOK
<1>2. xoff' = xoff /\ \A c \in Channels : holdQueue'[c] = holdQueue[c] \/ holdQueue'[c] = <<>>
  BY <1>1 DEF PurgeQueue, ReceiveAck, ReceiveHint, ReceiveCon, ReceiveReqEpoc, ReceiveReqSibo,
              ReceiveDisc, StartSibo, queueVars
<1>3. \A s \in Sessions : todo'[s] = todo[s]
  BY <1>1, PumpIsApart DEF PurgeQueue, ReceiveAck, ReceiveHint, ReceiveCon, ReceiveReqEpoc,
              ReceiveReqSibo, ReceiveDisc, threadVars
<1>4. pc["pump"] = "idle" /\ (pc' = pc \/ pc' = [pc EXCEPT !["pump"] = "resend"])
  BY DEF PurgeQueue, ReceiveAck, ReceiveHint, ReceiveCon, ReceiveReqEpoc,
         ReceiveReqSibo, ReceiveDisc, threadVars, Receiving
<1>5. pc'["link"] = pc["link"] /\ pc'["pump"] # "hold"
  BY <1>1, <1>4, PumpIsApart
<1> QED
  BY <1>2, <1>3, <1>5 DEF HoldStays

LEMMA HoldTimer ==
    ASSUME HoldInv, NEW t \in {"pump", "timer"},
           Resend(t) \/ RetransmitTest \/ RetransmitPurge \/ Retransmit
    PROVE  HoldStays
<1>1. /\ pc \in [Threads -> Label] /\ holdQueue \in [Channels -> Seq(Packet)]
  BY DEF HoldInv, TypeInv, TypeOK, ThreadTypeOK, QueueTypeOK
<1>2. /\ xoff' = xoff /\ todo' = todo
      /\ \A c \in Channels : holdQueue'[c] = holdQueue[c] \/ holdQueue'[c] = <<>>
  BY DEF Resend, RetransmitTest, RetransmitPurge, Retransmit, Goto, queueVars
<1>3. \E u \in {"pump", "timer"}, l \in {"idle", "purge", "resend"} : pc' = [pc EXCEPT ![u] = l]
  <2>1. CASE Resend(t)
    BY <2>1 DEF Resend
  <2>2. CASE Retransmit
    BY <2>2 DEF Retransmit
  <2>3. CASE RetransmitTest \/ RetransmitPurge
    BY <2>3 DEF RetransmitTest, RetransmitPurge, Goto
  <2> QED
    BY <2>1, <2>2, <2>3
<1>4. pc'["link"] = pc["link"] /\ (pc'["pump"] = "hold" => pc["pump"] = "hold")
  BY <1>1, <1>3, PumpIsApart
<1> QED
  BY <1>2, <1>4 DEF HoldStays

LEMMA HoldOthers ==
    ASSUME HoldInv, Lose \/ HasFailed \/ PeerReceive \/ PeerSend \/ PeerFault \/ UNCHANGED vars
    PROVE  HoldStays
<1>1. UNCHANGED queueVars /\ UNCHANGED threadVars
  BY DEF Lose, HasFailed, PeerReceive, PeerLink, PeerData, PeerAck, PeerSend, PeerFault, vars
<1> QED
  BY <1>1 DEF HoldStays, queueVars, threadVars

LEMMA HoldNext ==
    ASSUME AutoExit, 1 .. NSession \subseteq Oversize, HoldInv, [Next]_vars
    PROVE  HoldInv'
<1>1. TypeInv'
  BY TypeNext DEF HoldInv
<1>2. ~ Reset
  BY DEF Reset, ResetTest, ResetFields, ResetPurge, ResetLine, ResetRequest, HoldInv
<1>3. CASE \E s \in Sessions : Send(s)
  BY <1>1, <1>3, HoldSend, HoldKeeps
<1>4. CASE \E t \in Senders : Transmit(t)
  BY <1>1, <1>4, SessionsAreIdle, HoldTransmit DEF Senders
<1>5. CASE ReceiveData
  BY <1>1, <1>5, HoldReceiveData
<1>6. CASE Pump /\ ~ ReceiveData
  BY <1>1, <1>6, HoldPump, HoldTimer, HoldKeeps DEF Pump
<1>7. CASE Timer
  BY <1>1, <1>7, HoldTimer, HoldKeeps DEF Timer
<1>8. CASE Lose \/ HasFailed \/ PeerReceive \/ PeerSend \/ PeerFault \/ UNCHANGED vars
  BY <1>1, <1>8, HoldOthers, HoldKeeps
<1> QED
  BY <1>2, <1>3, <1>4, <1>5, <1>6, <1>7, <1>8 DEF Next

LEMMA HoldInit == Init \/ Connected => HoldInv
<1>1. Init \/ Connected => TypeInv
  BY TypeInit, ConnectedType
<1>2. Init \/ Connected => /\ holdQueue = [c \in Channels |-> <<>>]
                           /\ pc = [t \in Threads |-> "idle"]
                           /\ todo = [t \in Senders |-> <<>>]
  BY DEF Init, Connected
<1> QED
  BY <1>1, <1>2, PumpIsApart DEF HoldInv, HeldOnlyWhileStopped

(* When it is the pump alone that sends (what sessions hand to send is     *)
(* refused), no packet is left behind in holdQueue_ once XON has been      *)
(* handled: the thread that tests xoff_ is the one that clears it.  The    *)
(* test is not under the lock, so another thread can break it.             *)
THEOREM HeldUntilXon ==
    ASSUME AutoExit, 1 .. NSession \subseteq Oversize
    PROVE  /\ Spec => []HeldOnlyWhileStopped
           /\ ConnectedSpec => []HeldOnlyWhileStopped
<1>1. HoldInv /\ [Next]_vars => HoldInv'
  BY HoldNext
<1>2. HoldInv => HeldOnlyWhileStopped
  BY DEF HoldInv
<1>3. Spec => []HeldOnlyWhileStopped
  BY HoldInit, <1>1, <1>2, PTL DEF Spec
<1>4. ConnectedSpec => []HeldOnlyWhileStopped
  BY HoldInit, <1>1, <1>2, PTL DEF ConnectedSpec
<1> QED
  BY <1>3, <1>4
=============================================================================
