------------------------------- MODULE Printd -------------------------------
(***************************************************************************)
(* plpprintd: the daemon that takes print jobs from a Psion page by page,  *)
(* turns them into PostScript in a spool file and hands that to a print    *)
(* command (plpprint/plpprintd.cc), over the printer client wprt           *)
(* (lib/wprt.cc).                                                          *)
(*                                                                         *)
(* A job is a sequence of pages, a page a sequence of drawing records, and *)
(* a packet carries some records of one page.  PostScript text is the      *)
(* records it was made from.  A box stands for the corners of a clipping   *)
(* rectangle: the bounding box is the set of those it has to hold.         *)
(***************************************************************************)
EXTENDS Integers, Sequences, SequencesExt

CONSTANTS
    Jobs,           \* what the Psion may print
    PacketLen,      \* records a packet carries
    FontMap,        \* the PostScript names of the fonts that have one
    MaxPrintFaults  \* bound: cuts, cancelled jobs, failing system calls

VARIABLES
    toPrint,        \* the job the Psion prints and its packets not yet sent
    prSession,      \* the session with SYS$WPRT: "up" or "down"
    prStatus,       \* wprt's status: "none" or "disc"
    daemon,         \* where main and service_loop are, and their variables
    trailer,        \* usedfonts, and minx, miny, maxx and maxy
    spool,          \* the text in the spool file
    prLast,         \* the last job that ended: what was sent and what was printed
    prFaults

printdVars == <<toPrint, prSession, prStatus, daemon, trailer, spool, prLast, prFaults>>

NoJob == [job |-> <<>>, packets |-> <<>>]
Fresh == [at |-> "serve", file |-> "none", pageStart |-> TRUE, plen |-> 0, pageCount |-> 0,
          pageBuf |-> <<>>, cancelled |-> FALSE, spoilt |-> FALSE]
Waiting == [Fresh EXCEPT !.at = "init"]
NoFonts == [fonts |-> {}, box |-> {}]

PrintdInit ==
    /\ toPrint = NoJob /\ prSession = "up" /\ prStatus = "none"
    /\ daemon = Waiting /\ trailer = NoFonts /\ spool = <<>>
    /\ prLast = [sent |-> <<>>, printed |-> <<>>, spoilt |-> FALSE] /\ prFaults = 0

PrFault == prFaults < MaxPrintFaults /\ prFaults' = prFaults + 1

-----------------------------------------------------------------------------
(* The Psion: external.  A packet of type 0xff is the last of its job.     *)

Packet(page, i, last) ==
    [type |-> IF last /\ i + PacketLen > Len(page) THEN "end" ELSE "page",
     size |-> IF i = 1 THEN Len(page) ELSE 0,
     data |-> SubSeq(page, i, IF i + PacketLen > Len(page) THEN Len(page) ELSE i + PacketLen - 1)]
PagePackets(page, last) ==
    [k \in 1 .. (Len(page) + PacketLen - 1) \div PacketLen |-> Packet(page, (k - 1) * PacketLen + 1, last)]
Packets(job) == FlattenSeq([p \in DOMAIN job |-> PagePackets(job[p], p = Len(job))])
FakePage == [type |-> "fake", size |-> 0, data |-> <<>>]
BadPacket == [type |-> "bad", size |-> 0, data |-> <<>>]

PrintJob ==
    /\ prSession = "up" /\ toPrint.packets = <<>>
    /\ \E j \in Jobs : toPrint' = [job |-> j, packets |-> Packets(j)]
    /\ UNCHANGED <<prSession, prStatus, daemon, trailer, spool, prLast, prFaults>>

(* The user cancels the job; or a packet of an unknown type is sent.       *)
Disturb ==
    /\ PrFault
    /\ \/ toPrint.packets # <<>> /\ toPrint' = [toPrint EXCEPT !.packets = <<FakePage>>]
       \/ toPrint' = [toPrint EXCEPT !.packets = <<BadPacket>> \o @]
    /\ UNCHANGED <<prSession, prStatus, daemon, trailer, spool, prLast>>

(* The session breaks, and the Psion forgets the job.                      *)
PrCut ==
    /\ PrFault /\ prSession = "up"
    /\ prSession' = "down" /\ toPrint' = NoJob
    /\ UNCHANGED <<prStatus, daemon, trailer, spool, prLast>>

-----------------------------------------------------------------------------
(* main: a new wprt on the same socket, which is closed after the first    *)
(* time; initPrinter's sendCommand reconnects, if ncpd lets it.            *)

InitPrinterOnOldSocket ==       \* variant: sendCommand does not reconnect
    /\ daemon.at = "init" /\ prSession = "up"
    /\ prStatus' = "none" /\ daemon' = Fresh
    /\ UNCHANGED <<toPrint, prSession, trailer, spool, prLast, prFaults>>
InitPrinter ==
    /\ daemon.at = "init"
    /\ prSession' = "up" /\ prStatus' = "none" /\ daemon' = Fresh
    /\ UNCHANGED <<toPrint, trailer, spool, prLast, prFaults>>

InitPrinterFails ==
    /\ daemon.at = "init" /\ PrFault
    /\ prSession' = "down" /\ prStatus' = "disc" /\ toPrint' = NoJob
    /\ UNCHANGED <<daemon, trailer, spool, prLast>>

(* getData: no answer ends service_loop and closes the socket; a command   *)
(* that cannot be sent opens a new session in the middle of the loop.      *)
GetNothing ==
    /\ daemon.at = "serve" /\ prSession = "down"
    /\ prStatus' = "disc" /\ daemon' = Waiting
    /\ UNCHANGED <<toPrint, prSession, trailer, spool, prLast, prFaults>>

GetReconnects ==
    /\ daemon.at = "serve" /\ prSession = "down"
    /\ prSession' = "up" /\ prStatus' = "none"
    /\ daemon' = [daemon EXCEPT !.spoilt = @ \/ daemon.file # "none"]
    /\ UNCHANGED <<toPrint, trailer, spool, prLast, prFaults>>

-----------------------------------------------------------------------------
(* convertPage                                                             *)

(* ps_setfont: the font's PostScript name, or the fallback.                *)
SetFont(name) == IF name \in DOMAIN FontMap THEN FontMap[name] ELSE "Courier"

(* The records up to the end of the page, each a drawing command.          *)
Drawn(page) ==
    LET ends == {i \in DOMAIN page : page[i].op = "endpage"}
        n == IF ends = {} THEN Len(page) ELSE (CHOOSE i \in ends : \A j \in ends : i <= j) - 1
    IN  [i \in 1 .. n |-> IF page[i].op = "font" THEN [page[i] EXCEPT !.arg = SetFont(@)] ELSE page[i]]
ArgsOf(drawn, op) == {drawn[i].arg : i \in {k \in DOMAIN drawn : drawn[k].op = op}}

(* What is known for the trailer; it starts anew with a job's first page.  *)
GatherAlways(t, page, n) ==     \* variant: what an earlier job gathered is kept
    [fonts |-> t.fonts \cup ArgsOf(Drawn(page), "font"), box |-> t.box \cup ArgsOf(Drawn(page), "clip")]
Gather(t, page, n) ==
    LET s == IF n = 0 THEN NoFonts ELSE t
    IN  [fonts |-> s.fonts \cup ArgsOf(Drawn(page), "font"),
         box |-> s.box \cup ArgsOf(Drawn(page), "clip")]

Trailer(t, n) == [op |-> "trailer", arg |-> [fonts |-> t.fonts, box |-> t.box, pages |-> n]]
ConvertPage(t, page, n, last) ==
    <<[op |-> "page", arg |-> n + 1]>> \o Drawn(page) \o <<[op |-> "showpage", arg |-> 0]>>
      \o (IF last THEN <<Trailer(t, n + 1)>> ELSE <<>>)

-----------------------------------------------------------------------------
(* service_loop                                                            *)

(* cancelJob: the Psion sends no more of the job, and may say so.          *)
Cancelled(ps) == {<<>>, <<FakePage>>}

(* The fake page that ends a cancelled job.  The break leaves the switch   *)
(* only: spoolOpen stays set while the file is closed and removed.         *)
CancelFromPsion ==
    /\ daemon.at = "serve" /\ prSession = "up" /\ toPrint.packets # <<>>
    /\ Head(toPrint.packets).type = "fake"
    /\ toPrint' = [toPrint EXCEPT !.packets = Tail(@)]
    /\ \E at \in IF daemon.file = "closed" THEN {"serve", "dead"} ELSE {"serve"} :
         daemon' = [daemon EXCEPT !.cancelled = FALSE, !.at = at,
                                  !.file = IF @ = "none" THEN @ ELSE "closed",
                                  !.spoilt = @ \/ daemon.file # "none"]
    /\ UNCHANGED <<prSession, prStatus, trailer, spool, prLast, prFaults>>

(* A new job opens a spool file; without one the job is cancelled.         *)
OpenSpool(d, ok) ==
    IF d.file # "none" \/ d.cancelled THEN d
    ELSE IF ok THEN [d EXCEPT !.file = "open", !.pageStart = TRUE, !.pageCount = 0, !.plen = 0]
    ELSE [d EXCEPT !.cancelled = TRUE, !.plen = 0, !.spoilt = TRUE]

(* The packet's records join the page.  The count of what is missing is    *)
(* unsigned: a packet larger than its page leaves a page that never ends.  *)
AddPacket(d, p) ==
    LET s == IF d.pageStart THEN [d EXCEPT !.pageStart = FALSE, !.pageBuf = <<>>, !.plen = p.size] ELSE d
    IN  [s EXCEPT !.pageBuf = @ \o p.data, !.plen = @ - Len(p.data)]
PageDone(d) == [d EXCEPT !.pageBuf = <<>>, !.pageStart = TRUE, !.pageCount = @ + 1]

(* The job is over: what was spooled is printed, unless it was cancelled.  *)
EndJob(d) == [d EXCEPT !.file = "none", !.spoilt = d.cancelled]

Result(d, text) ==
    prLast' = [sent |-> toPrint.job, spoilt |-> d.spoilt,
               printed |-> IF d.cancelled \/ d.pageCount = 0 THEN <<>> ELSE text]

(* What becomes of a packet, with the state and the text it was taken in.  *)
TakePacket(d, text, p) ==
    IF d.cancelled
    THEN /\ daemon' = (IF p.type = "end" THEN EndJob(d) ELSE d)
         /\ spool' = text /\ UNCHANGED trailer
         /\ IF p.type = "end" THEN Result(d, text) ELSE UNCHANGED prLast
    ELSE LET a == AddPacket(d, p)
             full == a.plen = 0
             b == IF full THEN PageDone(a) ELSE a
             t == IF full THEN Gather(trailer, a.pageBuf, a.pageCount) ELSE trailer
             out == IF full /\ a.file = "open"
                    THEN text \o ConvertPage(t, a.pageBuf, a.pageCount, p.type = "end") ELSE text
         IN  /\ trailer' = t /\ spool' = (IF p.type = "end" THEN <<>> ELSE out)
             /\ daemon' = (IF p.type = "end" THEN EndJob(b) ELSE b)
             /\ IF p.type = "end" THEN Result(b, out) ELSE UNCHANGED prLast

GetPage ==
    /\ daemon.at = "serve" /\ prSession = "up" /\ toPrint.packets # <<>>
    /\ LET p == Head(toPrint.packets)
           d == OpenSpool(daemon, TRUE)
       IN  /\ p.type \in {"page", "end"} /\ daemon.file # "closed"
           /\ toPrint' = [toPrint EXCEPT !.packets = Tail(@)]
           /\ TakePacket(d, IF daemon.file = "none" THEN <<>> ELSE spool, p)
    /\ UNCHANGED <<prSession, prStatus, prFaults>>

(* mkstemp fails: the Psion is told, and what it sends is thrown away.     *)
SpoolFails ==
    /\ daemon.at = "serve" /\ prSession = "up" /\ toPrint.packets # <<>>
    /\ daemon.file = "none" /\ ~daemon.cancelled /\ PrFault
    /\ LET p == Head(toPrint.packets)
       IN  /\ p.type \in {"page", "end"}
           /\ \E rest \in Cancelled(toPrint.packets) : toPrint' = [toPrint EXCEPT !.packets = rest]
           /\ TakePacket(OpenSpool(daemon, FALSE), <<>>, p)
    /\ UNCHANGED <<prSession, prStatus>>

(* A packet that is neither part of a page nor the end of a job.           *)
GetBadPacket ==
    /\ daemon.at = "serve" /\ prSession = "up" /\ toPrint.packets # <<>>
    /\ Head(toPrint.packets).type = "bad" /\ daemon.file # "closed"
    /\ \E rest \in Cancelled(toPrint.packets) : toPrint' = [toPrint EXCEPT !.packets = rest]
    /\ daemon' = [OpenSpool(daemon, TRUE) EXCEPT !.cancelled = TRUE, !.spoilt = TRUE]
    /\ UNCHANGED <<prSession, prStatus, trailer, spool, prLast, prFaults>>

(* With the file closed, whatever is done with it is undefined: the daemon *)
(* dies, or carries on to the job's end and finds nothing to print.        *)
UseClosedFile ==
    /\ daemon.at = "serve" /\ prSession = "up" /\ toPrint.packets # <<>>
    /\ daemon.file = "closed" /\ Head(toPrint.packets).type # "fake"
    /\ LET p == Head(toPrint.packets)
       IN  \/ /\ daemon' = [daemon EXCEPT !.at = "dead"]
              /\ UNCHANGED <<toPrint, trailer, spool, prLast>>
           \/ /\ p.type = "page"
              /\ toPrint' = [toPrint EXCEPT !.packets = Tail(@)]
              /\ TakePacket(daemon, spool, p)
           \/ /\ p.type = "bad"
              /\ \E rest \in Cancelled(toPrint.packets) : toPrint' = [toPrint EXCEPT !.packets = rest]
              /\ daemon' = [daemon EXCEPT !.cancelled = TRUE]
              /\ UNCHANGED <<trailer, spool, prLast>>
           \/ /\ p.type = "end" /\ daemon.cancelled
              /\ toPrint' = [toPrint EXCEPT !.packets = Tail(@)]
              /\ TakePacket(daemon, spool, p)
    /\ UNCHANGED <<prSession, prStatus, prFaults>>

(* popen fails: the daemon writes to a pipe that is not there.             *)
PrintCommandFails ==
    /\ daemon.at = "serve" /\ prSession = "up" /\ toPrint.packets # <<>> /\ PrFault
    /\ Head(toPrint.packets).type = "end" /\ ~daemon.cancelled /\ daemon.file # "closed"
    /\ daemon' = [daemon EXCEPT !.at = "dead"]
    /\ toPrint' = [toPrint EXCEPT !.packets = Tail(@)]
    /\ UNCHANGED <<prSession, prStatus, trailer, spool, prLast>>

PrintdNext ==
    \/ PrintJob \/ Disturb \/ PrCut
    \/ InitPrinter \/ InitPrinterFails \/ GetNothing \/ GetReconnects
    \/ CancelFromPsion \/ GetPage \/ SpoolFails \/ GetBadPacket \/ UseClosedFile \/ PrintCommandFails

-----------------------------------------------------------------------------
(* A job's PostScript by definition: its pages in order, and a trailer     *)
(* with the fonts and the clipping rectangles of just these pages.         *)
Rendered(job) ==
    LET gathered == [fonts |-> UNION {ArgsOf(Drawn(job[i]), "font") : i \in DOMAIN job},
                     box |-> UNION {ArgsOf(Drawn(job[i]), "clip") : i \in DOMAIN job}]
    IN  FlattenSeq([i \in DOMAIN job |->
                      <<[op |-> "page", arg |-> i]>> \o Drawn(job[i]) \o <<[op |-> "showpage", arg |-> 0]>>])
          \o <<Trailer(gathered, Len(job))>>

(* Whatever came before it (jobs, cancelled and cut ones), a job that was  *)
(* taken from its first to its last packet in one session, and was not     *)
(* cancelled or begun in a loop left spoilt, is printed whole and has a    *)
(* trailer of its own (service_loop, convertPage).                         *)
JobsPrintedWhole ==
    prLast.sent # <<>> /\ ~prLast.spoilt => prLast.printed = Rendered(prLast.sent)

(* The daemon finds its way back to the Psion after a broken session       *)
(* (main's loop, wprt's sendCommand), if it lives.                         *)
PrinterServes == (prSession = "down") ~> (prSession = "up" \/ daemon.at = "dead")
=============================================================================
