------------------------------ MODULE DataLink ------------------------------
(***************************************************************************)
(* ncpd's serial framing: class DataLink (lib/datalink.cc).                *)
(*                                                                         *)
(* The callers of send (the threads of Link) put whole messages into a     *)
(* ring; the pump, DataLink's own thread, writes the ring to the serial    *)
(* port, reads the port into a second ring, parses frames out of that and  *)
(* hands them to Link::receive, which may itself call send.                *)
(*                                                                         *)
(* One action is one critical section of outputMutex_ or inputMutex_; the  *)
(* parser, which holds inputMutex_ throughout, takes one step for each     *)
(* turn of its loops, since the callers go on meanwhile.                   *)
(***************************************************************************)
EXTENDS Integers, Sequences, FiniteSets

CONSTANTS
    Callers,         \* threads that call send, other than the pump
    Outgoing,        \* the payloads they send, in the order of the calls
    ReplyTo,         \* what Link::receive answers to some payloads, by send
    Streams,         \* what may arrive: records of the bytes and of the
                     \* payloads of the undamaged frames among them
    BufLen,          \* BUFLEN: 4096
    SyncLimit,       \* bytes without a frame that a new link tolerates: 15
    Chunks,          \* numbers of bytes that may arrive at once
    TtyOut,          \* bytes the kernel holds on their way out
    AddToCrc(_, _),  \* addToCrc, on 16 bits
    MaxResets        \* bound: resets by Link

SYN == 22
DLE == 16
STX == 2
ETX == 3
EOT == 4
Byte == 0 .. 255
WordMax == 65535
Word == 0 .. WordMax

ASSUME CallersAssumption == "pump" \notin Callers
ASSUME BufferAssumption == /\ BufLen \in Nat /\ \E n \in 1 .. BufLen : BufLen = 2^n
                           /\ {SyncLimit, MaxResets} \subseteq Nat
                           /\ Chunks \cup {TtyOut} \subseteq Nat \ {0}
ASSUME TrafficAssumption ==
    /\ Outgoing \in Seq(Seq(Byte))
    /\ \A f \in DOMAIN ReplyTo : ReplyTo[f] \in Seq(Byte)
    /\ \A s \in Streams : s.bytes \in Seq(Byte) /\ s.frames \in Seq(Seq(Byte))

VARIABLES
    outBuffer, outRead, outWrite,   \* the ring of bytes to write
    isCancelled,                    \* isCancelled_
    inBuffer, inRead, inWrite,      \* the ring of bytes read
    lastSYN, startPkt, esc, crcIn, inCRCstate, receivedCRC, rcv, justStarted,
    open,                           \* fd # -1
    pipe,                           \* bytes in outputDataReadyPipe_
    cancel,                         \* cancellationFd_ is readable
    pc,                             \* where each thread is
    msg,                            \* send's assembled message
    ready,                          \* the pump's r_set and w_set
    p, inw,                         \* locals of processInputData
    receivedData,                   \* frames on their way to Link::receive
    incoming, ttyIn, ttyOut,        \* the line: still to arrive, to read, to leave
    nextMsg,                        \* first message not yet handed to send
    put, wire,                      \* bytes put and bytes written since a reset
    sent, delivered,                \* undamaged frames, and those handed over
    resets                          \* resets so far

outVars == <<outBuffer, outRead, outWrite>>
inVars == <<inBuffer, inRead, inWrite>>
parseVars == <<lastSYN, startPkt, esc, crcIn, inCRCstate, receivedCRC, rcv, justStarted>>
scanVars == <<p, inw>>
callVars == <<msg, nextMsg>>
lineVars == <<incoming, ttyIn, ttyOut>>
outHist == <<put, wire>>
inHist == <<sent, delivered>>
vars == <<outVars, isCancelled, inVars, parseVars, open, pipe, cancel, pc, callVars,
          ready, scanVars, receivedData, lineVars, outHist, inHist, resets>>

Threads == Callers \cup {"pump"}
Index == 0 .. BufLen - 1

-----------------------------------------------------------------------------
(* Frames *)

Stuff(c) == CASE c = ETX -> <<DLE, EOT>>
              [] c = DLE -> <<DLE, DLE>>
              [] OTHER -> <<c>>

Stuffed(b) ==
    LET upTo[i \in 0 .. Len(b)] == IF i = 0 THEN <<>> ELSE upTo[i - 1] \o Stuff(b[i])
    IN  upTo[Len(b)]

Crc(b) ==
    LET upTo[i \in 0 .. Len(b)] == IF i = 0 THEN 0 ELSE AddToCrc(b[i], upTo[i - 1])
    IN  upTo[Len(b)]

(* The message send assembles; the Psion's frames are built alike. *)
Encode(b) == <<SYN, DLE, STX>> \o Stuffed(b) \o <<DLE, ETX, Crc(b) \div 256, Crc(b) % 256>>

-----------------------------------------------------------------------------
(* Rings *)

Unmasked(i) == IF i = BufLen THEN i ELSE i % BufLen \* variant: one index too many
Wrap(i) == i % BufLen
HasSpace(read, write) == Wrap(write + 1) # read
HasData(read, write) == write # read

(* Bytes b written from index i on. *)
Stored(buf, i, b) ==
    [k \in Index |-> IF Wrap(k - i) < Len(b) THEN b[Wrap(k - i) + 1] ELSE buf[k]]
(* n bytes read from index i on. *)
Fetched(buf, i, n) == [k \in 1 .. n |-> buf[Wrap(i + k - 1)]]

FreeOneMore == Wrap(outRead - outWrite - 1 + BufLen) + 1 \* variant: the spare byte counted
Free == Wrap(outRead - outWrite - 1 + BufLen)

NotifyNone(at) == at \* variant: nobody is woken
NotifyAll(at) == [t \in Threads |-> IF at[t] = "asleep" THEN "lock" ELSE at[t]]

-----------------------------------------------------------------------------
(* The constructor, with a port that could be opened.  Buffer bytes that were *)
(* never written are not looked at.                                           *)

Init ==
    /\ outBuffer = [i \in Index |-> 0] /\ outRead = 0 /\ outWrite = 0
    /\ inBuffer = [i \in Index |-> 0] /\ inRead = 0 /\ inWrite = 0
    /\ isCancelled = FALSE
    /\ lastSYN = -1 /\ startPkt = -1 /\ esc = FALSE
    /\ crcIn = 0 /\ inCRCstate = 0 /\ receivedCRC = 0 /\ rcv = <<>> /\ justStarted = TRUE
    /\ open = TRUE /\ pipe = 0 /\ cancel = FALSE
    /\ pc = [t \in Threads |-> IF t = "pump" THEN "watch" ELSE "idle"]
    /\ msg = [t \in Threads |-> <<>>] /\ nextMsg = 1
    /\ ready = {} /\ p = 0 /\ inw = 0 /\ receivedData = <<>>
    /\ \E s \in Streams : incoming = s.bytes /\ sent = s.frames
    /\ ttyIn = <<>> /\ ttyOut = 0
    /\ put = <<>> /\ wire = <<>> /\ delivered = <<>> /\ resets = 0

-----------------------------------------------------------------------------
(* send *)

Goto(t, l) == pc' = [pc EXCEPT ![t] = l]

(* The message is assembled, and the pump is signalled a first time. *)
Assemble(t, payload) ==
    /\ msg' = [msg EXCEPT ![t] = Encode(payload)]
    /\ pipe' = pipe + 1
    /\ Goto(t, "lock")

Call(t) ==
    /\ pc[t] = "idle" /\ nextMsg <= Len(Outgoing)
    /\ Assemble(t, Outgoing[nextMsg])
    /\ nextMsg' = nextMsg + 1
    /\ UNCHANGED <<outVars, isCancelled, inVars, parseVars, open, cancel, ready, scanVars,
                   receivedData, lineVars, outHist, inHist, resets>>

(* outputCondition_.wait *)
WaitsCancelled(t) == Free < Len(msg[t]) \* variant: the predicate forgets the flag
Waits(t) == Free < Len(msg[t]) /\ ~isCancelled

SendWait(t) ==
    /\ pc[t] = "lock" /\ Waits(t)
    /\ Goto(t, "asleep")
    /\ UNCHANGED <<outVars, isCancelled, inVars, parseVars, open, pipe, cancel, callVars,
                   ready, scanVars, receivedData, lineVars, outHist, inHist, resets>>

Returned(t) == /\ msg' = [msg EXCEPT ![t] = <<>>]
               /\ Goto(t, IF t = "pump" THEN "deliver" ELSE "idle")

SendPut(t) ==
    /\ pc[t] = "lock" /\ ~Waits(t) /\ ~isCancelled
    /\ outBuffer' = Stored(outBuffer, outWrite, msg[t])
    /\ outWrite' = Wrap(outWrite + Len(msg[t]))
    /\ put' = put \o msg[t]
    /\ pipe' = pipe + 1
    /\ Returned(t)
    /\ UNCHANGED <<outRead, isCancelled, inVars, parseVars, open, cancel, nextMsg,
                   ready, scanVars, receivedData, lineVars, wire, inHist, resets>>

(* Once cancelled, messages are dropped on the floor. *)
SendDrop(t) ==
    /\ pc[t] = "lock" /\ ~Waits(t) /\ isCancelled
    /\ Returned(t)
    /\ UNCHANGED <<outVars, isCancelled, inVars, parseVars, open, pipe, cancel, nextMsg,
                   ready, scanVars, receivedData, lineVars, outHist, inHist, resets>>

Send(t) == SendWait(t) \/ SendPut(t) \/ SendDrop(t)

-----------------------------------------------------------------------------
(* The pump: select, write, read *)

At(l) == pc["pump"] = l

PumpWatch ==
    /\ At("watch") /\ open
    /\ ready' = (IF HasSpace(inRead, inWrite) THEN {"r"} ELSE {})
                   \cup (IF HasData(outRead, outWrite) THEN {"w"} ELSE {})
    /\ Goto("pump", "select")
    /\ UNCHANGED <<outVars, isCancelled, inVars, parseVars, open, pipe, cancel, callVars,
                   scanVars, receivedData, lineVars, outHist, inHist, resets>>

Selected == {x \in ready : \/ x = "r" /\ ttyIn # <<>>
                           \/ x = "w" /\ ttyOut < TtyOut}

(* shutdown, and the end of the thread. *)
PumpCancelled ==
    /\ At("select") \/ (At("watch") /\ ~open)
    /\ cancel
    /\ isCancelled' = TRUE
    /\ pc' = [NotifyAll(pc) EXCEPT !["pump"] = "stopped"]
    /\ UNCHANGED <<outVars, inVars, parseVars, open, pipe, cancel, callVars, ready,
                   scanVars, receivedData, lineVars, outHist, inHist, resets>>

(* A timeout goes back to the start without a look at the rings. *)
PumpSelect ==
    /\ At("select") /\ ~cancel
    /\ \/ /\ Selected = {} /\ pipe = 0
          /\ Goto("pump", "watch")
          /\ UNCHANGED <<pipe, ready>>
       \/ /\ Selected # {} \/ pipe > 0
          /\ pipe' = IF pipe > 0 THEN pipe - 1 ELSE 0
          /\ ready' = Selected
          /\ Goto("pump", "write")
    /\ UNCHANGED <<outVars, isCancelled, inVars, parseVars, open, cancel, callVars,
                   scanVars, receivedData, lineVars, outHist, inHist, resets>>

(* The contiguous data, of which the port takes as much as it has room for. *)
Least(m, n) == IF m < n THEN m ELSE n
ToWrite == Least(IF outWrite < outRead THEN BufLen - outRead ELSE outWrite - outRead,
                 TtyOut - ttyOut)

PumpWrite ==
    /\ At("write")
    /\ \/ /\ "w" \in ready /\ open /\ ToWrite > 0
          /\ wire' = wire \o Fetched(outBuffer, outRead, ToWrite)
          /\ outRead' = Wrap(outRead + ToWrite)
          /\ ttyOut' = ttyOut + ToWrite
          /\ pc' = [NotifyAll(pc) EXCEPT !["pump"] = "read"]
       \/ /\ "w" \notin ready \/ ~open \/ ToWrite = 0
          /\ Goto("pump", "read")
          /\ UNCHANGED <<wire, outRead, ttyOut>>
    /\ UNCHANGED <<outBuffer, outWrite, isCancelled, inVars, parseVars, open, pipe, cancel,
                   callVars, ready, scanVars, receivedData, incoming, ttyIn, put, inHist,
                   resets>>

(* "Work out how much contiguous space there is in the buffer": up to the read *)
(* index or the end of the buffer, the spare byte included.                    *)
ToRead == Least(IF inRead > inWrite THEN inRead - inWrite ELSE BufLen - inWrite,
                Len(ttyIn))

PumpRead ==
    /\ At("read")
    /\ IF "r" \in ready
       THEN /\ inBuffer' = Stored(inBuffer, inWrite, SubSeq(ttyIn, 1, ToRead))
            /\ inWrite' = Wrap(inWrite + ToRead)
            /\ ttyIn' = SubSeq(ttyIn, ToRead + 1, Len(ttyIn))
       ELSE UNCHANGED <<inBuffer, inWrite, ttyIn>>
    /\ Goto("pump", "process")
    /\ UNCHANGED <<outVars, isCancelled, inRead, parseVars, open, pipe, cancel, callVars,
                   ready, scanVars, receivedData, incoming, ttyOut, outHist, inHist, resets>>

ReadNow == "r" \in ready \* variant: only what has just been read is looked at
Unparsed == HasData(inRead, inWrite)

PumpProcess ==
    /\ At("process")
    /\ Goto("pump", IF Unparsed THEN "parse" ELSE "deliver")
    /\ UNCHANGED <<outVars, isCancelled, inVars, parseVars, open, pipe, cancel, callVars,
                   ready, scanVars, receivedData, lineVars, outHist, inHist, resets>>

-----------------------------------------------------------------------------
(* processInputData.  From ParseStart to the step that leaves "sync" and "body" *)
(* the pump holds inputMutex_.                                                  *)

parseFrame == <<outVars, isCancelled, inBuffer, inWrite, open, pipe, cancel, callVars, ready,
                lineVars, outHist, inHist, resets>>

ParseStart ==
    /\ At("parse")
    /\ inw' = inWrite
    /\ p' = IF lastSYN >= 0 THEN lastSYN ELSE inRead
    /\ justStarted' = (justStarted /\ startPkt < 0)
    /\ Goto("pump", IF startPkt < 0 THEN "sync" ELSE "body")
    /\ UNCHANGED <<inRead, lastSYN, startPkt, esc, crcIn, inCRCstate, receivedCRC, rcv,
                   receivedData, parseFrame>>

(* Leaving the search without a frame: a link that has just started and got    *)
(* more than some bytes is not stable.                                         *)
NoSync ==
    LET rx_amount == IF inw > inRead THEN inw - inRead ELSE BufLen - inRead + inw IN
    /\ Goto("pump", IF justStarted /\ rx_amount > SyncLimit THEN "restart" ELSE "deliver")
    /\ UNCHANGED <<inRead, p, inw, startPkt, esc, crcIn, inCRCstate, receivedCRC, rcv,
                   justStarted, receivedData, parseFrame>>

(* The byte k places further, and its index. *)
Pos(k) == Wrap(p + k)
Ahead(k) == inBuffer[Pos(k)]

SyncEnd == /\ At("sync") /\ p = inw
           /\ NoSync /\ UNCHANGED lastSYN

(* SYN, or SYN DLE, is the last that has arrived. *)
SyncPart ==
    /\ At("sync") /\ p # inw
    /\ Ahead(0) = SYN /\ (Pos(1) = inw \/ (Ahead(1) = DLE /\ Pos(2) = inw))
    /\ lastSYN' = Pos(0)
    /\ NoSync

(* Not SYN DLE STX.  The index after the byte that does not fit is normalized at *)
(* the next turn of the loop, after its comparison with inw.                     *)
SyncSkip ==
    /\ At("sync") /\ p # inw
    /\ \/ Ahead(0) # SYN /\ p' = Pos(0) + 1 /\ UNCHANGED lastSYN
       \/ /\ Ahead(0) = SYN /\ lastSYN' = Pos(0)
          /\ \/ Pos(1) # inw /\ Ahead(1) # DLE /\ p' = Pos(1) + 1
             \/ /\ Pos(1) # inw /\ Ahead(1) = DLE
                /\ Pos(2) # inw /\ Ahead(2) # STX /\ p' = Pos(2) + 1
    /\ UNCHANGED <<inRead, inw, pc, startPkt, esc, crcIn, inCRCstate, receivedCRC, rcv,
                   justStarted, receivedData, parseFrame>>

SyncFound ==
    /\ At("sync") /\ p # inw
    /\ Ahead(0) = SYN /\ Pos(1) # inw
    /\ Ahead(1) = DLE /\ Pos(2) # inw
    /\ Ahead(2) = STX
    /\ p' = Pos(3) /\ lastSYN' = Pos(3) /\ startPkt' = Pos(3)
    /\ crcIn' = 0 /\ inCRCstate' = 0 /\ rcv' = <<>> /\ esc' = FALSE
    /\ justStarted' = FALSE
    /\ Goto("pump", "body")
    /\ UNCHANGED <<inRead, inw, receivedCRC, receivedData, parseFrame>>

(* What has arrived ends inside the packet. *)
BodyEnd ==
    /\ At("body") /\ p = inw
    /\ lastSYN' = p
    /\ Goto("pump", "deliver")
    /\ UNCHANGED <<inRead, p, inw, startPkt, esc, crcIn, inCRCstate, receivedCRC, rcv,
                   justStarted, receivedData, parseFrame>>

AddByte(c) == rcv' = Append(rcv, c) /\ crcIn' = AddToCrc(c, crcIn)

BodyByte ==
    /\ At("body") /\ p # inw /\ inCRCstate < 2
    /\ LET c == inBuffer[p] IN
       \/ /\ inCRCstate = 0 /\ esc /\ esc' = FALSE
          /\ \/ c = ETX /\ inCRCstate' = 1 /\ UNCHANGED <<rcv, crcIn>>
             \/ c = EOT /\ AddByte(ETX) /\ UNCHANGED inCRCstate
             \/ c \notin {ETX, EOT} /\ AddByte(c) /\ UNCHANGED inCRCstate
          /\ UNCHANGED receivedCRC
       \/ /\ inCRCstate = 0 /\ ~esc
          /\ \/ c = DLE /\ esc' = TRUE /\ UNCHANGED <<rcv, crcIn>>
             \/ c # DLE /\ AddByte(c) /\ UNCHANGED esc
          /\ UNCHANGED <<inCRCstate, receivedCRC>>
       \/ /\ inCRCstate = 1 /\ receivedCRC' = c * 256 /\ inCRCstate' = 2
          /\ UNCHANGED <<esc, rcv, crcIn>>
    /\ p' = Pos(1)
    /\ UNCHANGED <<inRead, inw, pc, lastSYN, startPkt, justStarted, receivedData, parseFrame>>

(* The last byte of a packet: the parser returns if output is pending, and *)
(* otherwise goes on from the outer loop.                                  *)
KeepConsumed(i) == inRead \* variant: the packet is not taken out of the ring
Consumed(i) == i

BodyLast ==
    /\ At("body") /\ p # inw /\ inCRCstate = 2
    /\ LET crc == receivedCRC + inBuffer[p] IN
       /\ receivedCRC' = crc
       /\ receivedData' = IF crc = crcIn THEN Append(receivedData, rcv) ELSE receivedData
    /\ inRead' = Consumed(Pos(1))
    /\ startPkt' = -1 /\ lastSYN' = -1 /\ inCRCstate' = 0 /\ rcv' = <<>>
    /\ p' = inRead'
    /\ Goto("pump", IF HasData(outRead, outWrite) THEN "deliver" ELSE "sync")
    /\ UNCHANGED <<inw, esc, crcIn, justStarted, parseFrame>>

Parse == \/ ParseStart \/ SyncEnd \/ SyncPart \/ SyncSkip \/ SyncFound
         \/ BodyEnd \/ BodyByte \/ BodyLast

-----------------------------------------------------------------------------
(* sendReceivedData: Link::receive of each frame, without any lock *)

PumpDeliver ==
    /\ At("deliver")
    /\ \/ /\ receivedData # <<>>
          /\ receivedData' = Tail(receivedData)
          /\ delivered' = Append(delivered, Head(receivedData))
          /\ IF Head(receivedData) \in DOMAIN ReplyTo
             THEN Assemble("pump", ReplyTo[Head(receivedData)])
             ELSE UNCHANGED <<pc, msg, pipe>>
       \/ /\ receivedData = <<>>
          /\ Goto("pump", "watch")
          /\ UNCHANGED <<receivedData, delivered, msg, pipe>>
    /\ UNCHANGED <<outVars, isCancelled, inVars, parseVars, open, cancel, nextMsg, ready,
                   scanVars, lineVars, outHist, sent, resets>>

(* internalReset closes and opens the port; the waiting callers are not told. *)
InternalReset ==
    /\ outRead' = 0 /\ outWrite' = 0 /\ inRead' = 0 /\ inWrite' = 0
    /\ esc' = FALSE /\ lastSYN' = -1 /\ startPkt' = -1 /\ crcIn' = 0 /\ justStarted' = TRUE
    /\ open' \in (IF resets < MaxResets THEN BOOLEAN ELSE {TRUE})
    /\ ttyIn' = <<>> /\ ttyOut' = 0
    /\ put' = <<>> /\ wire' = <<>>
    /\ resets' = resets + 1
    /\ UNCHANGED <<outBuffer, isCancelled, inBuffer, inCRCstate, receivedCRC, rcv, pipe, cancel,
                   callVars, ready, scanVars, receivedData, incoming, inHist>>

PumpRestart == At("restart") /\ InternalReset /\ Goto("pump", "deliver")

Pump == \/ PumpWatch \/ PumpCancelled \/ PumpSelect \/ PumpWrite \/ PumpRead
        \/ PumpProcess \/ Parse \/ PumpDeliver \/ PumpRestart

-----------------------------------------------------------------------------
(* Link::reset, from link_thread; the end of ncpd; the line *)

Reset == /\ resets < MaxResets /\ ~(At("sync") \/ At("body"))
         /\ InternalReset /\ UNCHANGED pc

Cancel ==
    /\ ~cancel /\ cancel' = TRUE
    /\ UNCHANGED <<outVars, isCancelled, inVars, parseVars, open, pipe, pc, callVars, ready,
                   scanVars, receivedData, lineVars, outHist, inHist, resets>>

Arrive ==
    /\ open /\ ttyIn = <<>>
    /\ \E n \in Chunks \cap 1 .. Len(incoming) :
          /\ ttyIn' = SubSeq(incoming, 1, n)
          /\ incoming' = SubSeq(incoming, n + 1, Len(incoming))
    /\ UNCHANGED <<outVars, isCancelled, inVars, parseVars, open, pipe, cancel, pc, callVars,
                   ready, scanVars, receivedData, ttyOut, outHist, inHist, resets>>

LineTakes ==
    /\ ttyOut > 0 /\ ttyOut' = 0
    /\ UNCHANGED <<outVars, isCancelled, inVars, parseVars, open, pipe, cancel, pc, callVars,
                   ready, scanVars, receivedData, incoming, ttyIn, outHist, inHist, resets>>

-----------------------------------------------------------------------------
Next == \/ \E t \in Callers : Call(t)
        \/ \E t \in Threads : Send(t)
        \/ Pump \/ Reset \/ Cancel \/ Arrive \/ LineTakes

Spec == Init /\ [][Next]_vars

(* The threads run, the Psion sends what it has to and takes what it is sent. *)
Fairness == /\ \A t \in Threads : WF_vars(Send(t))
            /\ WF_vars(Pump) /\ WF_vars(Arrive) /\ WF_vars(LineTakes)

FairSpec == Spec /\ Fairness

-----------------------------------------------------------------------------
(* Properties *)

(* The indices stay inside the rings, those of the parser included: p alone is *)
(* one past the end while the search for a frame has not yet normalized it.    *)
TypeOK ==
    /\ {outRead, outWrite, inRead, inWrite, inw} \subseteq Index
    /\ p \in 0 .. BufLen
    /\ {lastSYN, startPkt} \subseteq Index \cup {-1}
    /\ outBuffer \in [Index -> Byte] /\ inBuffer \in [Index -> Byte]
    /\ {isCancelled, esc, justStarted, open, cancel} \subseteq BOOLEAN
    /\ {crcIn, receivedCRC} \subseteq Word /\ inCRCstate \in 0 .. 2
    /\ rcv \in Seq(Byte) /\ receivedData \in Seq(Seq(Byte))
    /\ pc \in [Threads -> {"idle", "lock", "asleep", "watch", "select", "write", "read",
                           "process", "parse", "sync", "body", "restart", "deliver",
                           "stopped"}]
    /\ msg \in [Threads -> Seq(Byte)]
    /\ ready \subseteq {"r", "w"} /\ pipe \in Nat /\ resets \in Nat
    /\ incoming \in Seq(Byte) /\ ttyIn \in Seq(Byte) /\ ttyOut \in 0 .. TtyOut
    /\ nextMsg \in 1 .. Len(Outgoing) + 1
    /\ put \in Seq(Byte) /\ wire \in Seq(Byte)
    /\ sent \in Seq(Seq(Byte)) /\ delivered \in Seq(Seq(Byte))

(* Messages reach the port whole, one after the other and in the order in which *)
(* send got the lock: written and waiting bytes together are what was put.      *)
WrittenWhole == wire \o Fetched(outBuffer, outRead, Wrap(outWrite - outRead)) = put

(* Link::receive gets undamaged frames only, each once and in the order they   *)
(* were sent, however they are cut into reads and wherever the ring wraps.     *)
FramesIntact ==
    \E f \in [DOMAIN delivered -> DOMAIN sent] :
        /\ \A i \in DOMAIN delivered : delivered[i] = sent[f[i]]
        /\ \A i, j \in DOMAIN delivered : i < j => f[i] < f[j]

(* And it gets every one of them, unless the link is reset or shut down: also  *)
(* those the parser leaves in the ring because output is pending.              *)
FramesArrive == <>(delivered = sent \/ resets > 0 \/ cancel)

(* A caller that waits for room gets it, for the pump writes and tells it so;   *)
(* not so after a reset, which makes room silently.                             *)
SendReturns ==
    \A t \in Callers : (pc[t] = "asleep" /\ resets = 0) ~> (pc[t] = "idle" \/ resets > 0)

(* Cancellation releases a caller that waits for room, whatever the line does. *)
CancelReleases == \A t \in Callers : (pc[t] = "asleep" /\ cancel) ~> (pc[t] = "idle")

(* "our target can't deadlock against us by calling any of our public APIs that *)
(* require locks": a send from inside Link::receive does not wait for ever.     *)
TargetReturns == (pc["pump"] = "asleep") ~> (pc["pump"] # "asleep")

(* "Reads the incoming data and processes data frames.  @return true if the link *)
(* is stable and more data can be consumed": processInputData, which holds       *)
(* inputMutex_, comes to an end.                                                  *)
Parsing == At("sync") \/ At("body")
ParserReturns == Parsing ~> ~Parsing
=============================================================================
