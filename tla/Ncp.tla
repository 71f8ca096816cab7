-------------------------------- MODULE Ncp --------------------------------
(***************************************************************************)
(* ncpd above the link: class NCP (lib/ncp.cc) with its channels           *)
(* (lib/channel.cc, linkchannel.cc, socketchannel.cc), and the threads of  *)
(* NCPSession (lib/ncpsession.cc) that drive them.                         *)
(*                                                                         *)
(* NCP multiplexes channels over the link.  Channel 0 is the control       *)
(* channel; one LinkChannel registers names with the Psion; each client    *)
(* program on a TCP socket has a SocketChannel.  The handlers call each    *)
(* other (an acknowledged registration connects, which sends), so each is  *)
(* an operator from a state s of the multiplexer to the next, and each     *)
(* action runs the handlers of one thread for one event: the pump takes a  *)
(* message of the Psion, the polling thread polls one channel, the main    *)
(* thread accepts a client, the link thread looks at the link.             *)
(***************************************************************************)
EXTENDS Integers, Sequences, FiniteSets, FiniteSetsExt

CONSTANTS
    Clients,          \* client programs
    Service,          \* the name each of them announces
    Rfsv,             \* the name that connects without registering
    SiboLinks, PsionLinks,  \* MAX_CHANNELS_SIBO and _PSION: 8 and 256
    Versions,         \* what the Psion may say in NCP_INFO
    FirstNames,       \* the server it may ask for first: "LINK" or another
    Garbage,          \* what memory a new NCP may find in its tables
    Commands,         \* what a client may ask before it announces itself
    RequestLen, ReplyLen,   \* fragments (of NCP_SENDLEN bytes) per message
    Polite,           \* a client never leaves while it awaits a reply
    AutoExit,         \* option -e
    MaxFaults         \* bound: links that break, services that end or refuse,
                      \* clients that leave early, signals, unusual greetings

Link == "link"        \* the LinkChannel
Free == "free"        \* channelPtr[i] == NULL
Gone == "gone"        \* a deleted LinkChannel
Channels == 0 .. PsionLinks - 1

ASSUME LinksAssumption == SiboLinks \in Nat \ {0} /\ PsionLinks \in Nat /\ SiboLinks <= PsionLinks
ASSUME ClientsAssumption == /\ Clients \cap {Link, Free, Gone, ""} = {}
                            /\ DOMAIN Service = Clients
ASSUME CommandsAssumption == Commands \cap {"name", "request", "eof"} = {}
ASSUME LengthAssumption == {RequestLen, ReplyLen} \subseteq Nat \ {0} /\ Garbage \subseteq Nat

VARIABLES
    ncp,              \* the multiplexer: see Init
    order,            \* socketChannels_
    pass,             \* the copy of it the polling thread works through
    pollPc, linkPc, mainPc,
    accepted,         \* the client the main thread is about to watch, or ""
    cancelled,        \* the cancellation pipe is readable
    linkFailed,       \* Link::hasFailed
    fromPsion,        \* messages received by Link and not yet by NCP
    psion,            \* the other machine
    inbox, stage,     \* client programs: what they have sent, where they are
    faults, cut, broke  \* how many of those, and whether a service ended
                        \* or the link broke

sessionVars == <<order, pass, pollPc, linkPc, mainPc, accepted, cancelled>>
clientVars == <<inbox, stage>>
faultVars == <<faults, cut, broke>>
vars == <<ncp, sessionVars, linkFailed, fromPsion, psion, clientVars, faultVars>>

NewChannel == [chan |-> 0, named |-> FALSE, cname |-> "", tries |-> 0,
               up |-> FALSE, term |-> FALSE, late |-> FALSE, life |-> "none"]
PsionOff == [state |-> "off", conns |-> {}, regs |-> {}]

Init ==
    /\ ncp \in [table : {[n \in Channels |-> Free]},
                remote : {[n \in Channels |-> g] : g \in Garbage},
                partial : {[n \in Channels |-> <<>>]},
                obj : {[o \in Clients \cup {Link} |-> NewChannel]},
                link : {FALSE}, failed : {FALSE}, version : {6},
                maxLinks : {SiboLinks}, lastSent : {0},
                stack : {{}}, ser : {0},
                answers : {[c \in Clients |-> <<>>]},
                toPsion : {<<>>}, undefined : {FALSE}]
    /\ order = <<>> /\ pass = <<>> /\ accepted = ""
    /\ pollPc = "watch" /\ linkPc = "watch" /\ mainPc = "accept"
    /\ cancelled = FALSE /\ linkFailed = FALSE
    /\ fromPsion = <<>> /\ psion = PsionOff
    /\ inbox = [c \in Clients |-> <<>>] /\ stage = [c \in Clients |-> "new"]
    /\ faults = 0 /\ cut = FALSE /\ broke = FALSE

-----------------------------------------------------------------------------
(* NCP and the channels.                                                   *)

Post(s, ms) == [s EXCEPT !.toPsion = @ \o ms]
Answer(s, c, a) == [s EXCEPT !.answers[c] = Append(@, [is |-> a, body |-> <<>>])]
Deliver(s, c, data) == [s EXCEPT !.answers[c] = Append(@, [is |-> "data", body |-> data])]
Valid(s, n) == n \in Channels /\ s.table[n] # Free
Dangling(s, n) == \/ s.table[n] = Gone
                  \/ s.table[n] \in Clients /\ s.obj[s.table[n]].life = "deleted"
Undefined(s) == [s EXCEPT !.undefined = TRUE]

\* variant: -1 when the table is full, which the callers do not expect
FirstUnusedNone(s) ==
    LET unused == {n \in 1 .. s.maxLinks - 1 : s.table[n] = Free}
    IN  IF unused = {} THEN -1 ELSE Min(unused)

FirstUnused(s) ==
    LET unused == {n \in 1 .. s.maxLinks - 1 : s.table[n] = Free}
    IN  IF unused = {} THEN 0 ELSE Min(unused)

Occupy(s, o) ==     \* the channel of o, its own or a new one; 0: none left
    IF s.obj[o].chan # 0 THEN s.obj[o].chan ELSE FirstUnused(s)

Seated(s, o) == LET n == Occupy(s, o) IN [s EXCEPT !.table[n] = o, !.obj[o].chan = n]

ConnectName(s, o) ==
    CASE o = Link -> "LINK"
      [] o # Link /\ s.obj[o].cname # "" -> s.obj[o].cname
      [] OTHER -> Service[o]

Connect(s, o) ==
    IF Occupy(s, o) = 0 THEN s
    ELSE Post(Seated(s, o), <<[kind |-> "connect", chan |-> Occupy(s, o),
                               name |-> ConnectName(s, o)]>>)

SendData(s, n, body) ==
    [Post(s, [i \in 1 .. Len(body) |->
                [kind |-> "data", to |-> s.remote[n], from |-> n,
                 last |-> i = Len(body), body |-> body[i]]])
     EXCEPT !.lastSent = n]

LinkRegister(s, c) ==
    SendData([s EXCEPT !.stack = @ \cup {<<s.ser, s.obj[c].chan>>}, !.ser = @ + 1],
             s.obj[Link].chan, <<<<"reg", s.ser, Service[c]>>>>)

Register(s, c) ==
    IF ~ s.link \/ Occupy(s, c) = 0 THEN s ELSE LinkRegister(Seated(s, c), c)

\* variant: the channel is not told
DisconnectQuiet(s, n) ==
    IF ~ Valid(s, n) \/ Dangling(s, n) THEN s
    ELSE Post([s EXCEPT !.table[n] = Free],
              <<[kind |-> "disconnect", chan |-> n, to |-> s.remote[n]]>>)

Disconnect(s, n) ==
    CASE ~ Valid(s, n) -> s
      [] Valid(s, n) /\ Dangling(s, n) -> Undefined(s)
      [] OTHER -> Post([s EXCEPT !.obj[s.table[n]].term = TRUE, !.table[n] = Free],
                       <<[kind |-> "disconnect", chan |-> n, to |-> s.remote[n]]>>)

RegisterAck(s, chan, name) ==
    LET searched == {n \in 1 .. s.maxLinks - 1 : Valid(s, n)}
        found == {n \in searched : ~ Dangling(s, n) /\ s.obj[s.table[n]].chan = chan}
        first == Min(found)
        c == s.table[first]
    IN  IF \E n \in searched : Dangling(s, n) /\ \A f \in found : n < f THEN Undefined(s)
        ELSE IF found = {} \/ c = Link THEN s
        ELSE Connect([s EXCEPT !.obj[c].cname = name, !.obj[c].tries = @ + 1], c)

\* variant: takes the registration on top of the stack
LinkDataAny(s, reply) ==
    IF reply[1] # "regack" \/ s.stack = {} THEN s
    ELSE LET top == CHOOSE e \in s.stack : \A f \in s.stack : f[1] <= e[1]
         IN  RegisterAck([s EXCEPT !.stack = @ \ {top}], top[2], reply[3])

LinkData(s, reply) ==
    LET mine == {e \in s.stack : e[1] = reply[2]}
        rest == [s EXCEPT !.stack = @ \ mine]
    IN  IF reply[1] # "regack" \/ mine = {} THEN s
        ELSE RegisterAck(rest, (CHOOSE e \in mine : TRUE)[2], reply[3])

DataCallback(s, n, body) ==
    CASE Dangling(s, n) -> Undefined(s)
      [] ~ Dangling(s, n) /\ s.table[n] = Link -> LinkData(s, body[1])
      [] OTHER -> IF s.obj[s.table[n]].named THEN Deliver(s, s.table[n], body) ELSE s

ConnectAck(s, n) ==
    LET c == s.table[n]
    IN  CASE Dangling(s, n) -> Undefined(s)
          [] ~ Dangling(s, n) /\ c = Link -> s
          [] OTHER -> [Answer(s, c, "Ok") EXCEPT !.obj[c].up = TRUE, !.obj[c].tries = 3]

SocketNak(s, c) ==
    IF ~ s.obj[c].named \/ s.obj[c].tries > 1
    THEN Disconnect(Answer(s, c, "NAK"), s.obj[c].chan)
    ELSE Register([s EXCEPT !.obj[c].tries = @ + 1], c)

ConnectNak(s, n) ==
    CASE Dangling(s, n) -> Undefined(s)
      [] ~ Dangling(s, n) /\ s.table[n] = Link -> [s EXCEPT !.obj[Link].term = TRUE]
      [] OTHER -> SocketNak(s, s.table[n])

NewLinkChannel(s, own, at) ==
    [Connect([s EXCEPT !.link = TRUE, !.stack = {}, !.ser = 0,
                       !.obj[Link] = [NewChannel EXCEPT !.chan = own]], Link)
     EXCEPT !.table[at] = Link]

LinkRequested(s, m) ==
    LET n == IF s.link THEN s.obj[Link].chan ELSE FirstUnused(s)
        answered == Post(s, <<[kind |-> "response", chan |-> n, to |-> m.chan, ok |-> TRUE]>>)
    IN  IF s.link THEN answered ELSE NewLinkChannel(answered, n, n)

ServerRequested(s, m) ==    \* PcServer::clientConnect always refuses
    LET refused == Post(s, <<[kind |-> "response", chan |-> 0, to |-> m.chan, ok |-> FALSE]>>)
    IN  IF s.link THEN refused ELSE NewLinkChannel(refused, 0, 0)

Responded(s, m) ==
    CASE ~ Valid(s, m.to) -> s
      [] Valid(s, m.to) /\ m.ok -> ConnectAck([s EXCEPT !.remote[m.to] = m.chan], m.to)
      [] OTHER -> ConnectNak(s, m.to)

InfoReceived(s, m) ==
    IF m.version \notin {3, 6} THEN [s EXCEPT !.failed = TRUE]
    ELSE Post([s EXCEPT !.version = m.version,
                        !.maxLinks = IF m.version = 6 THEN PsionLinks ELSE @],
              <<[kind |-> "info", version |-> IF m.version = 3 THEN 2 ELSE 6]>>)

(* A CHANNEL_DISCONNECT also purges what the link has not yet sent, here   *)
(* what is behind position kept of the queue.                              *)
Disconnected(s, m, kept) ==
    LET d == Disconnect(s, m.to)
    IN  [d EXCEPT !.toPsion = SubSeq(@, 1, kept) \o
            SelectSeq(SubSeq(@, kept + 1, Len(@)),
                      LAMBDA t : ~ (t.kind = "data" /\ t.to = m.chan))]

\* variant: messageList is not emptied
DataReceivedKeeps(s, m) ==
    LET n == IF s.version = 3 THEN s.lastSent ELSE m.to
        whole == Append(s.partial[n], m.body)
        kept == [s EXCEPT !.partial[n] = whole]
    IN  IF ~ Valid(s, n) THEN s
        ELSE IF m.last THEN DataCallback(kept, n, whole) ELSE kept

DataReceived(s, m) ==
    LET n == IF s.version = 3 THEN s.lastSent ELSE m.to
        whole == Append(s.partial[n], m.body)
    IN  CASE ~ Valid(s, n) -> s
          [] Valid(s, n) /\ ~ m.last -> [s EXCEPT !.partial[n] = whole]
          [] OTHER -> [DataCallback(s, n, whole) EXCEPT !.partial[n] = <<>>]

Receive(s, m, kept) ==
    LET working == [s EXCEPT !.failed = FALSE]
    IN  CASE m.kind = "connect" /\ m.name = "LINK" -> LinkRequested(working, m)
          [] m.kind = "connect" /\ m.name # "LINK" -> ServerRequested(working, m)
          [] m.kind = "response" -> Responded(working, m)
          [] m.kind = "info" -> InfoReceived(working, m)
          [] m.kind = "disconnect" -> Disconnected(s, m, kept)
          [] OTHER -> DataReceived(s, m)

HasFailed(s) ==
    LET failed == s.failed \/ linkFailed
    IN  IF ~ failed \/ ~ s.link THEN [s EXCEPT !.failed = failed]
        ELSE [s EXCEPT !.failed = TRUE, !.link = FALSE, !.stack = {},
                       !.table = [n \in Channels |->
                           CASE n = s.obj[Link].chan -> Free
                             [] n # s.obj[Link].chan /\ @[n] = Link -> Gone
                             [] OTHER -> @[n]]]

AllEnded(s) ==          \* every channel of the table is told to end
    [o \in DOMAIN s.obj |->
        [s.obj[o] EXCEPT !.term = @ \/ \E n \in Channels : s.table[n] = o]]

ResetNcp(s) ==
    IF \E n \in 0 .. s.maxLinks - 1 : Dangling(s, n) THEN Undefined(s)
    ELSE [s EXCEPT !.obj = AllEnded(s), !.table = [n \in Channels |-> Free],
                   !.failed = FALSE, !.link = FALSE, !.stack = {}, !.version = 6,
                   !.toPsion = <<>>]

-----------------------------------------------------------------------------
(* SocketChannel::socketPoll.                                              *)

NcpCommand(s, c, command) ==
    CASE command = "silent" -> s       \* CONN, CHAL, RESP
      [] OTHER -> Answer(s, c, "told") \* INFO, GSPD, REGS, unknown ones

Announced(s, c) ==
    LET named == [s EXCEPT !.obj[c].named = TRUE, !.obj[c].tries = @ + 1]
    IN  IF Service[c] = Rfsv THEN Connect(named, c) ELSE Register(named, c)

\* variant: terminates, and leaves its table entry
HungUpOnly(s, c) ==
    [s EXCEPT !.obj[c].named = FALSE, !.obj[c].life = "closed", !.obj[c].term = TRUE]

(* The client closed a connected channel. *)
HungUp(s, c) ==
    [Disconnect(s, s.obj[c].chan) EXCEPT !.obj[c].named = FALSE, !.obj[c].life = "closed"]

Request(c) == [i \in 1 .. RequestLen |-> <<"request", c, i>>]
Reply(c) == [i \in 1 .. ReplyLen |-> <<"reply", c, i>>]

SocketPoll(s, c, message) ==
    CASE ~ s.obj[c].named /\ message = "eof" -> [s EXCEPT !.obj[c].term = TRUE]
      [] ~ s.obj[c].named /\ message = "name" -> Announced(s, c)
      [] s.obj[c].named /\ message = "eof" -> HungUp(s, c)
      [] s.obj[c].named /\ message = "request" -> SendData(s, s.obj[c].chan, Request(c))
      [] OTHER -> NcpCommand(s, c, message)

-----------------------------------------------------------------------------
(* The threads of NCPSession.                                              *)

Runs == ~ ncp.undefined
Fault == faults < MaxFaults /\ faults' = faults + 1

PumpReceive ==
    /\ Runs /\ mainPc # "ended" /\ fromPsion # <<>>
    /\ \E kept \in IF Head(fromPsion).kind = "disconnect" THEN 0 .. Len(ncp.toPsion) ELSE {0} :
           ncp' = Receive(ncp, Head(fromPsion), kept)
    /\ fromPsion' = Tail(fromPsion)
    /\ UNCHANGED <<sessionVars, linkFailed, psion, clientVars, faultVars>>

(* watch wakes the thread at least every 10 ms.  The pass is over a copy   *)
(* of socketChannels_; a channel with nothing to do is passed over.        *)
Turn == IF pollPc = "watch" THEN order ELSE pass
Polls == Runs /\ (pollPc = "poll" \/ (pollPc = "watch" /\ ~ cancelled))
Idle(c) == inbox[c] = <<>> \/ (ncp.obj[c].named /\ ~ ncp.obj[c].up)
Polled(c) ==
    /\ Polls
    /\ \E i \in DOMAIN Turn :
          /\ Turn[i] = c /\ \A j \in 1 .. i - 1 : Idle(Turn[j])
          /\ pass' = SubSeq(Turn, i + 1, Len(Turn))
    /\ pollPc' = "poll"

PollMessage(c) ==
    /\ Polled(c) /\ ~ Idle(c)
    /\ ncp' = SocketPoll(ncp, c, Head(inbox[c]))
    /\ inbox' = [inbox EXCEPT ![c] = IF Head(@) = "eof" THEN @ ELSE Tail(@)]
    /\ UNCHANGED <<order, linkPc, mainPc, accepted, cancelled,
                   linkFailed, fromPsion, psion, stage, faultVars>>

\* variant: notices the 15 seconds, and goes on
PollTimeoutOnly(c) ==
    /\ Polled(c)
    /\ ncp.obj[c].named /\ ~ ncp.obj[c].up
    /\ ncp' = [ncp EXCEPT !.obj[c].late = TRUE]
    /\ UNCHANGED <<order, linkPc, mainPc, accepted, cancelled,
                   linkFailed, fromPsion, psion, clientVars, faultVars>>

PollTimeout(c) ==       \* 15 seconds without an answer
    /\ Polled(c)
    /\ ncp.obj[c].named /\ ~ ncp.obj[c].up
    /\ ncp' = [ncp EXCEPT !.obj[c].term = TRUE, !.obj[c].late = TRUE]
    /\ UNCHANGED <<order, linkPc, mainPc, accepted, cancelled,
                   linkFailed, fromPsion, psion, clientVars, faultVars>>

\* variant: polls as long as there are channels
PollEndsEmpty ==
    /\ Runs /\ pollPc = "watch" /\ cancelled /\ order = <<>> /\ pollPc' = "done"
    /\ UNCHANGED <<ncp, order, pass, linkPc, mainPc, accepted, cancelled,
                   linkFailed, fromPsion, psion, clientVars, faultVars>>

PollEnds ==
    /\ Runs /\ pollPc = "watch" /\ cancelled /\ pollPc' = "done"
    /\ UNCHANGED <<ncp, order, pass, linkPc, mainPc, accepted, cancelled,
                   linkFailed, fromPsion, psion, clientVars, faultVars>>

Unended(s, cs) ==       \* remove_if: those nothing has ended, in their order
    LET kept[i \in 0 .. Len(cs)] ==
            IF i = 0 THEN <<>>
            ELSE IF s.obj[cs[i]].term THEN kept[i - 1] ELSE Append(kept[i - 1], cs[i])
    IN  kept[Len(cs)]

PollClean ==
    /\ Polls /\ pass' = <<>>
    /\ \A i \in DOMAIN Turn : Idle(Turn[i])
    /\ ncp' = [ncp EXCEPT !.obj = [o \in DOMAIN @ |->
                  IF o \in Clients /\ @[o].term /\ \E i \in DOMAIN order : order[i] = o
                  THEN [@[o] EXCEPT !.life = "deleted"] ELSE @[o]]]
    /\ order' = Unended(ncp, order)
    /\ pollPc' = "watch"
    /\ UNCHANGED <<linkPc, mainPc, accepted, cancelled,
                   linkFailed, fromPsion, psion, clientVars, faultVars>>

(* A client calls, says a first command and is accepted.                   *)
Accept(c) ==
    /\ Runs /\ mainPc = "accept" /\ ~ cancelled /\ accepted = ""
    /\ stage[c] = "new"
    /\ IF Len(order) < ncp.maxLinks /\ ncp.link
       THEN /\ order' = Append(order, c) /\ accepted' = c
            /\ ncp' = [ncp EXCEPT !.obj[c].life = "listed"]
            /\ \E command \in Commands : inbox' = [inbox EXCEPT ![c] = <<command>>]
       ELSE /\ ncp' = [Answer(ncp, c, "none") EXCEPT !.obj[c].life = "closed"]
            /\ UNCHANGED <<order, accepted, inbox>>
    /\ stage' = [stage EXCEPT ![c] = "asked"]
    /\ UNCHANGED <<pass, pollPc, linkPc, mainPc, cancelled,
                   linkFailed, fromPsion, psion, faultVars>>

AcceptWatch ==          \* setWatch on a socket that may be deleted by now
    /\ Runs /\ accepted # ""
    /\ ncp' = IF ncp.obj[accepted].life = "deleted" THEN Undefined(ncp) ELSE ncp
    /\ accepted' = ""
    /\ UNCHANGED <<order, pass, pollPc, linkPc, mainPc, cancelled,
                   linkFailed, fromPsion, psion, clientVars, faultVars>>

LinkCheck ==
    /\ Runs /\ linkPc = "watch"
    /\ \/ cancelled /\ linkPc' = "done" /\ UNCHANGED <<ncp, cancelled>>
       \/ /\ ~ cancelled /\ HasFailed(ncp).failed
          /\ ncp' = HasFailed(ncp)
          /\ IF AutoExit THEN linkPc' = "done" /\ cancelled' = TRUE
             ELSE linkPc' = "wait" /\ UNCHANGED cancelled
    /\ UNCHANGED <<order, pass, pollPc, mainPc, accepted,
                   linkFailed, fromPsion, psion, clientVars, faultVars>>

LinkRestart ==
    /\ Runs /\ linkPc = "wait"
    /\ IF cancelled
       THEN linkPc' = "done" /\ UNCHANGED <<ncp, linkFailed, fromPsion, psion>>
       ELSE /\ linkPc' = "watch" /\ ncp' = ResetNcp(ncp)
            /\ linkFailed' = FALSE /\ fromPsion' = <<>> /\ psion' = PsionOff
    /\ UNCHANGED <<order, pass, pollPc, mainPc, accepted, cancelled,
                   clientVars, faultVars>>

MainEnds ==
    /\ Runs /\ mainPc = "accept" /\ cancelled /\ accepted = ""
    /\ linkPc = "done" /\ pollPc = "done"
    /\ mainPc' = "ended"
    /\ LET bye == [i \in 1 .. ncp.maxLinks |->
                     [kind |-> "disconnect", chan |-> i - 1, to |-> ncp.remote[i - 1]]]
       IN  ncp' = Post([ncp EXCEPT !.table = [n \in Channels |-> Free]],
                       SelectSeq(bye, LAMBDA m : Valid(ncp, m.chan))
                       \o <<[kind |-> "end"]>>)
    /\ UNCHANGED <<order, pass, pollPc, linkPc, accepted, cancelled,
                   linkFailed, fromPsion, psion, clientVars, faultVars>>

Cancel ==               \* NCPSession::cancel, from the signal handlers
    /\ Runs /\ ~ cancelled /\ cancelled' = TRUE /\ Fault
    /\ UNCHANGED <<ncp, order, pass, pollPc, linkPc, mainPc, accepted,
                   linkFailed, fromPsion, psion, clientVars, cut, broke>>

-----------------------------------------------------------------------------
(* The client programs and the Psion.                                      *)

Say(c, m) == inbox' = [inbox EXCEPT ![c] = Append(@, m)]
Becomes(c, s) == stage' = [stage EXCEPT ![c] = s]

ClientOthers == UNCHANGED <<sessionVars, linkFailed, fromPsion, psion, cut, broke>>

ClientReads(c) ==
    /\ stage[c] # "closed" /\ ncp.answers[c] # <<>>
    /\ LET a == Head(ncp.answers[c]) IN
       CASE a.is = "told" /\ stage[c] = "asked" -> Say(c, "name") /\ Becomes(c, "announced")
         [] a.is = "Ok" /\ stage[c] = "announced" -> Say(c, "request") /\ Becomes(c, "requested")
         [] a.body = Reply(c) /\ stage[c] = "requested" -> Becomes(c, "served") /\ UNCHANGED inbox
         [] OTHER -> Say(c, "eof") /\ Becomes(c, "closed")
    /\ ncp' = [ncp EXCEPT !.answers[c] = Tail(@)]
    /\ UNCHANGED faults /\ ClientOthers

ClientLeaves(c) ==
    /\ stage[c] \in {"asked", "announced", "requested", "served"}
    /\ \/ Polite => stage[c] # "requested"
       \/ ncp.answers[c] = <<>> /\ ncp.obj[c].life \in {"closed", "deleted"}
    /\ Say(c, "eof") /\ Becomes(c, "closed")
    /\ IF stage[c] = "served" THEN UNCHANGED faults ELSE Fault
    /\ UNCHANGED ncp /\ ClientOthers

PsionSends(ms) == fromPsion' = fromPsion \o ms
PsionOthers == UNCHANGED <<sessionVars, linkFailed, clientVars, broke>>
PsionServes == UNCHANGED <<ncp, cut>> /\ PsionOthers

PsionStart ==
    /\ psion.state = "off" /\ ~ linkFailed
    /\ psion' = [psion EXCEPT !.state = "greeted"]
    /\ \E v \in Versions : /\ PsionSends(<<[kind |-> "info", version |-> v]>>)
                           /\ IF v = 6 THEN UNCHANGED faults ELSE Fault
    /\ PsionServes

UnusedNumber == Min((1 .. Cardinality(psion.conns) + 1) \ {k.num : k \in psion.conns})
WithConn(pc, name) == [psion EXCEPT !.conns = @ \cup {[num |-> UnusedNumber, pc |-> pc, name |-> name]}]
Sender(num) == {k \in psion.conns : k.num = num}

PsionTakes(m) ==
    \/ /\ m.kind = "info"
       /\ \E name \in FirstNames :
             /\ PsionSends(<<[kind |-> "connect", chan |-> UnusedNumber, name |-> name]>>)
             /\ psion' = WithConn(0, name)
             /\ IF name = "LINK" THEN UNCHANGED faults ELSE Fault
    \/ /\ m.kind = "response"
       /\ psion' = [psion EXCEPT !.conns = {k \in @ : k.num # m.to}
                       \cup {[k EXCEPT !.pc = m.chan] : k \in {j \in Sender(m.to) : m.ok}}]
       /\ UNCHANGED <<fromPsion, faults>>
    \/ /\ m.kind = "connect"
       /\ LET known == {k \in psion.conns : k.name = "LINK" /\ k.pc = m.chan}
          IN  IF m.name = "LINK" /\ known # {}
              THEN /\ PsionSends([i \in {1} |-> [kind |-> "response", to |-> m.chan, ok |-> TRUE,
                                                 chan |-> (CHOOSE k \in known : TRUE).num]])
                   /\ UNCHANGED <<psion, faults>>
              ELSE \E ok \in IF m.name = "LINK" THEN {TRUE} ELSE BOOLEAN :
                     /\ PsionSends(<<[kind |-> "response", to |-> m.chan, ok |-> ok,
                                      chan |-> IF ok THEN UnusedNumber ELSE 0]>>)
                     /\ psion' = IF ok THEN WithConn(m.chan, m.name) ELSE psion
                     /\ IF ok THEN UNCHANGED faults ELSE Fault
    \/ /\ m.kind = "data" /\ UNCHANGED faults
       /\ LET k == CHOOSE j \in Sender(m.to) : TRUE IN
          CASE Sender(m.to) = {} -> UNCHANGED <<psion, fromPsion>>
            [] Sender(m.to) # {} /\ m.body[1] = "reg" /\ k.name = "LINK" ->
                 psion' = [psion EXCEPT !.regs = @ \cup {<<m.body[2], m.body[3], k.pc>>}]
                 /\ UNCHANGED fromPsion
            [] Sender(m.to) # {} /\ m.body[1] = "request" /\ k.name # "LINK" /\ m.last ->
                 PsionSends([i \in 1 .. ReplyLen |->
                               [kind |-> "data", to |-> k.pc, from |-> k.num,
                                last |-> i = ReplyLen, body |-> Reply(m.body[2])[i]]])
                 /\ UNCHANGED psion
            [] OTHER -> UNCHANGED <<psion, fromPsion>>
    \/ /\ m.kind = "disconnect"
       /\ psion' = [psion EXCEPT !.conns = {k \in @ : k.num # m.to}] /\ UNCHANGED <<fromPsion, faults>>
    \/ m.kind = "end" /\ UNCHANGED <<psion, fromPsion, faults>>

PsionReceives ==
    /\ psion.state # "off" /\ ~ linkFailed /\ ncp.toPsion # <<>>
    /\ PsionTakes(Head(ncp.toPsion))
    /\ ncp' = [ncp EXCEPT !.toPsion = Tail(@)]
    /\ UNCHANGED cut /\ PsionOthers

PsionRegisters ==       \* in any order
    \E r \in psion.regs :
       /\ psion' = [psion EXCEPT !.regs = @ \ {r}]
       /\ PsionSends(<<[kind |-> "data", to |-> r[3], from |-> 0, last |-> TRUE,
                        body |-> <<"regack", r[1], r[2]>>]>>)
       /\ UNCHANGED faults /\ PsionServes

PsionCuts ==            \* a server process on the Psion ends
    /\ Fault /\ cut' = TRUE
    /\ \E k \in psion.conns :
          /\ k.name # "LINK" /\ k.pc # 0
          /\ psion' = [psion EXCEPT !.conns = @ \ {k}]
          /\ PsionSends(<<[kind |-> "disconnect", chan |-> k.num, to |-> k.pc]>>)
    /\ UNCHANGED ncp /\ PsionOthers

LinkFails ==
    /\ Fault /\ broke' = TRUE
    /\ ~ linkFailed /\ linkFailed' = TRUE
    /\ psion' = PsionOff /\ fromPsion' = <<>>
    /\ UNCHANGED <<ncp, sessionVars, clientVars, cut>>

Poll == PollEnds \/ PollClean \/ \E c \in Clients : PollMessage(c) \/ PollTimeout(c)
LinkThread == LinkCheck \/ LinkRestart
MainThread == MainEnds \/ AcceptWatch \/ \E c \in Clients : Accept(c)
ClientSteps(c) == Runs /\ (ClientReads(c) \/ ClientLeaves(c))
PsionSteps == Runs /\ (PsionStart \/ PsionReceives \/ PsionRegisters \/ PsionCuts \/ LinkFails)

Next == \/ PumpReceive \/ Poll \/ LinkThread \/ MainThread \/ Cancel
        \/ \E c \in Clients : ClientSteps(c)
        \/ PsionSteps

(* Threads that can run do; the clock advances past the 15 seconds of a    *)
(* channel that is polled for ever.  Nothing obliges a client to call, the *)
(* Psion to answer or the link to break.                                   *)
Fairness == /\ WF_vars(PumpReceive) /\ WF_vars(Poll)
            /\ WF_vars(LinkThread) /\ WF_vars(MainEnds \/ AcceptWatch)
            /\ \A c \in Clients : SF_vars(PollTimeout(c))

Spec == Init /\ [][Next]_vars /\ Fairness
-----------------------------------------------------------------------------
(* Every part of the state has its type.                                   *)
TypeOK ==
    /\ ncp.table \in [Channels -> Clients \cup {Link, Free, Gone}]
    /\ DOMAIN ncp.remote = Channels /\ DOMAIN ncp.partial = Channels
    /\ \A o \in Clients \cup {Link} : ncp.obj[o].chan \in Channels /\ ncp.obj[o].tries \in Nat
    /\ ncp.version \in {3, 6} /\ ncp.maxLinks \in {SiboLinks, PsionLinks}
    /\ order \in Seq(Clients) /\ pass \in Seq(Clients) /\ accepted \in Clients \cup {""}
    /\ pollPc \in {"watch", "poll", "done"} /\ linkPc \in {"watch", "wait", "done"}
    /\ mainPc \in {"accept", "ended"}
    /\ {cancelled, linkFailed, ncp.undefined, ncp.link, ncp.failed} \subseteq BOOLEAN

(* What a client is sent after "Ok" is its own reply, whole and once, as   *)
(* long as the Psion is one of several channels and no server of it ended  *)
(* and the link held: messageList outlives a link.                         *)
(* It crosses NCP::send, receive, messageList, remoteChanList and the      *)
(* registration of both clients.                                           *)
OwnData ==
    ncp.version = 6 /\ ~ cut /\ ~ broke =>
        \A c \in Clients : \A i \in DOMAIN ncp.answers[c] :
            ncp.answers[c][i].is = "data" =>
                /\ ncp.answers[c][i].body = Reply(c)
                /\ stage[c] = "requested"
                /\ i = Len(ncp.answers[c])

(* Whatever takes a client's number out of the table tells its channel,    *)
(* which ends it: NCP never forgets a channel whose client goes on using   *)
(* it.  Two ways remain, and are in the code: ncpd ends, or a link fails   *)
(* and clears the number its own channel once had (hasFailed), which after *)
(* a Disconnect of that channel may be a client's.                         *)
EndedIsTold ==
    [][\A c \in Clients : \A n \in Channels :
          ncp.table[n] = c =>
              \/ ncp'.table[n] = c \/ ncp'.obj[c].term \/ mainPc' = "ended"
              \/ n = ncp.obj[Link].chan /\ ncp.link /\ ~ ncp'.link]_vars

(* Only the 15 seconds of socketPoll leave a deleted channel in the table: *)
(* every other way to end one takes it out first.                          *)
DeletedOnlyByTimeout ==
    \A n \in Channels : \A c \in Clients :
        ncp.table[n] = c /\ ncp.obj[c].life = "deleted" => ncp.obj[c].late

(* The acknowledgement of a registration reaches the client that asked for *)
(* it, whatever the order of the Psion's answers: the name NCP connects a  *)
(* channel to is the name its client announced.  (With a third client it   *)
(* need not be: a channel that was ended keeps its number until PollClean, *)
(* and its client's hang-up then ends the channel that has the number by   *)
(* now, whose registration comes to the next.)                             *)
RegisterMatches ==
    \A c \in Clients : ncp.obj[c].cname \in {"", Service[c]}

Waiting ==
    {c \in Clients : /\ stage[c] = "announced" /\ ncp.answers[c] = <<>>
                     /\ ncp.obj[c].life \notin {"deleted", "closed"}}

(* No announced client waits for ever: it is told something, or its socket *)
(* is closed, whatever became of the Psion.  (A client announces itself    *)
(* once, so no stream of new ones keeps the set from being empty.)         *)
Answered == []<>(Waiting = {} \/ cancelled \/ ncp.undefined)

(* A cancelled session ends: all threads notice and are joined.            *)
CancelEnds == []<>(cancelled => mainPc = "ended" \/ ncp.undefined)
=============================================================================
