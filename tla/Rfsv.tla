-------------------------------- MODULE Rfsv --------------------------------
(***************************************************************************)
(* The remote file service: classes RFSV, RFSV16 and RFSV32 (lib/rfsv.cc,  *)
(* rfsv16.cc, rfsv32.cc), one call at a time, against the file server of   *)
(* a Psion.  A call is a sequence of exchanges: sendCommand and            *)
(* getResponse.  A connection can break before a command was sent, while   *)
(* the system still takes it, and before its answer is read; handles       *)
(* belong to a session, and a number may come back in the next one.        *)
(*                                                                         *)
(* A file is a sequence of blocks; a request or an answer is a tuple.      *)
(***************************************************************************)
EXTENDS Integers, Sequences, FiniteSets, Functions, SequencesExt

CONSTANTS
    Source,         \* the contents a file to be copied may have
    SendLen,        \* RFSV_SENDLEN: 2000 bytes
    MaxData16,      \* RFSV16_MAXDATALEN: 852 bytes
    OnLen,          \* RFSV_SENDLEN * 10, of READ_WRITE_FILE
    Half,           \* 2^16: a 16 bit word
    MaxSize,        \* the longest file the disk holds
    Entries,        \* what the directory has
    Drives,         \* drives, by their state: "ready", "notready" or "failing"
    Offsets,        \* what fseek is asked for
    MaxFaults       \* bound: broken connections and failing commands

VARIABLES
    proto,          \* "16" or "32": which class connect chose
    status,         \* status_: "none" or "disc"
    server,         \* the Psion's files and the session's handles
    call,           \* the call that is running
    pcFile,         \* the local file copyToPsion reads
    faults

rfsvVars == <<proto, status, server, call, pcFile, faults>>

Handles == 1 .. 2
NoCall == [op |-> "none", at |-> "idle", res |-> "none", h |-> 0, to |-> 0, buf |-> <<>>,
           out |-> <<>>, eof |-> FALSE, renewed |-> FALSE]
None == <<>>                    \* no handles

RfsvInit ==
    /\ proto \in {"16", "32"} /\ status = "none"
    /\ pcFile \in Source
    /\ server \in [files : {[from |-> s] : s \in Source} \cup {[from |-> s, to |-> <<9>>] : s \in Source},
                   handles : {None}]
    /\ call = NoCall /\ faults = 0

-----------------------------------------------------------------------------
(* The Psion's server, as the clients use it: the state, the error and the *)
(* data a command may end with.                                            *)

Reply(s, r, d) == [server |-> s, res |-> r, data |-> d]
Has(s, name) == name \in DOMAIN s.files
Set(f, k, v) == [x \in DOMAIN f \cup {k} |-> IF x = k THEN v ELSE f[x]]
Opened(s, name, content) ==
    {Reply([files |-> Set(s.files, name, content),
            handles |-> Set(s.handles, h, [name |-> name, pos |-> 0])], "none", h)
       : h \in Handles \ DOMAIN s.handles}
Clamp(p, n) == IF p > n THEN n ELSE p
Overwrite(f, p, bytes) ==
    SubSeq(f, 1, p) \o bytes \o SubSeq(f, p + Len(bytes) + 1, Len(f))
MovedTo(s, h, p) == [s EXCEPT !.handles[h].pos = p]
Store(s, h, f, p) ==
    [s EXCEPT !.files[s.handles[h].name] = f, !.handles[h].pos = p]
Resized(f, n) == [i \in 1 .. n |-> IF i <= Len(f) THEN f[i] ELSE 0]
SeekTo(f, p, pos, mode) ==
    CASE mode = 1 -> pos [] mode = 2 -> p + pos [] mode = 3 -> Len(f) + pos [] OTHER -> -1

OnHandle(s, h, c) ==
    LET k == s.handles[h]
        f == IF Has(s, k.name) THEN s.files[k.name] ELSE <<>>
    IN  CASE c[1] = "close" ->
               {Reply([s EXCEPT !.handles = Restrict(@, DOMAIN @ \ {h})], "none", None)}
          [] c[1] = "read" ->
               IF k.pos = Len(f)
               THEN {Reply(s, IF proto = "16" THEN "eof" ELSE "none", <<>>)}
               ELSE {Reply(Store(s, h, f, e), "none", SubSeq(f, k.pos + 1, e))
                       : e \in k.pos + 1 .. Clamp(k.pos + c[3], Len(f))}
          [] c[1] = "write" ->
               {Reply(Store(s, h, Overwrite(f, k.pos, c[3]), k.pos + Len(c[3])), "none", None)}
          [] c[1] = "seek" ->
               LET p == SeekTo(f, k.pos, c[3], c[4])
               IN  IF p < 0 THEN {Reply(s, "arg", None)}
                   ELSE {Reply(Store(s, h, f, Clamp(p, Len(f))), "none", Clamp(p, Len(f)))}
          [] c[1] = "setsize" ->
               IF c[3] > MaxSize THEN {Reply(s, "full", None)}
               ELSE {Reply(Store(s, h, Resized(f, c[3]), Clamp(k.pos, c[3])), "none", None)}
          [] c[1] = "readdir" ->        \* of a directory, or of the drives
               LET all == IF k.name = "drives" THEN SetToSeq(DOMAIN Drives) ELSE Entries
               IN  IF k.pos = Len(all) THEN {Reply(s, "eof", None)}
                   ELSE {Reply(MovedTo(s, h, e), "none", SubSeq(all, k.pos + 1, e))
                           : e \in k.pos + 1 .. Len(all)}
          [] c[1] = "readwrite" ->      \* from h to c[4]
               IF c[4] \notin DOMAIN s.handles THEN {Reply(s, "handle", None)}
               ELSE LET t == s.handles[c[4]]
                        e == Clamp(k.pos + c[3], Len(f))
                        moved == SubSeq(f, k.pos + 1, e)
                        t2 == Overwrite(s.files[t.name], t.pos, moved)
                    IN  {Reply(Store(MovedTo(s, h, e), c[4], t2, t.pos + Len(moved)), "none", Len(moved))}

Execute(s, c) ==
    CASE c[1] = "open" ->
           (CASE c[2] = "read" -> IF Has(s, c[3]) THEN Opened(s, c[3], s.files[c[3]])
                                  ELSE {Reply(s, "nxist", None)}
              [] c[2] = "create" -> IF Has(s, c[3]) THEN {Reply(s, "exist", None)}
                                    ELSE Opened(s, c[3], <<>>)
              [] c[2] = "replace" -> Opened(s, c[3], <<>>)
              [] c[2] = "dir" ->
                   {Reply([s EXCEPT !.handles = Set(@, h, [name |-> c[3], pos |-> 0])], "none", h)
                      : h \in Handles \ DOMAIN s.handles})
      [] c[1] = "delete" ->
           IF Has(s, c[2]) THEN {Reply([s EXCEPT !.files = Restrict(@, DOMAIN @ \ {c[2]})], "none", None)}
           ELSE {Reply(s, "nxist", None)}
      [] c[1] = "attr" -> {Reply(s, IF Has(s, c[2]) THEN "none" ELSE "nxist", FALSE)}
      [] c[1] = "drive" ->
           {Reply(s, IF Drives[c[2]] = "ready" THEN "none" ELSE Drives[c[2]], None)}
      [] c[1] = "devlist" -> {Reply(s, "none", DOMAIN Drives)}
      [] c[1] = "parse" -> {Reply(s, "none", None)}
      [] OTHER -> IF c[2] \in DOMAIN s.handles THEN OnHandle(s, c[2], c)
                  ELSE {Reply(s, "handle", None)}

-----------------------------------------------------------------------------
(* The session.  reconnect makes a new one, with or without the answer     *)
(* that it is connected; sendCommand reconnects a dead session first, and  *)
(* a session whose socket fails, and then sends once more.                 *)

Renewed(s, st) == [server |-> [s EXCEPT !.handles = None], status |-> st, sent |-> TRUE,
                   renewed |-> TRUE, faults |-> IF st = "disc" THEN 1 ELSE 0]
Reconnects(s) == {Renewed(s, st) : st \in {"none", "disc"}}
After(s, c) == {s} \cup {e.server : e \in Execute(s, c)}    \* executed or not

SendCommand(c) ==
    LET begun == IF status = "disc" THEN Reconnects(server)
                 ELSE {[server |-> server, status |-> status, sent |-> TRUE,
                        renewed |-> FALSE, faults |-> 0]}
        again(b) == UNION {Reconnects(x) : x \in After(b.server, c)}
    IN  UNION {IF b.status = "disc" THEN {[b EXCEPT !.sent = FALSE]}
               ELSE {b} \cup {[r EXCEPT !.faults = @ + 1] : r \in again(b)}
                        \cup {[r EXCEPT !.faults = 2, !.sent = FALSE, !.status = "disc"] : r \in again(b)}
               : b \in begun}

Lost(t, s) == [server |-> s, status |-> "disc", renewed |-> t.renewed,
               faults |-> t.faults + (IF t.status = "disc" THEN 0 ELSE 1), res |-> "disc",
               data |-> IF t.sent THEN None ELSE <<"unsent">>]
Got(t, e) == [server |-> e.server, status |-> "none", renewed |-> t.renewed, faults |-> t.faults,
              res |-> e.res, data |-> e.data]
MayFail(c) == c[1] \in {"open", "read", "write", "readwrite", "attr"}

GetResponse(t, c) ==
    IF ~ t.sent \/ t.status = "disc" THEN {Lost(t, t.server)}
    ELSE {Got(t, e) : e \in Execute(t.server, c)}
         \cup {Lost(t, s) : s \in After(t.server, c)}
         \cup (IF MayFail(c)
               THEN {[Got(t, Reply(t.server, "general", None)) EXCEPT !.faults = @ + 1]} ELSE {})

(* One exchange; Then gives the call that goes on with its outcome.        *)
Exchange(c, Then(_, _)) ==
    \E t \in SendCommand(c) : \E o \in GetResponse(t, c) :
        /\ faults + o.faults <= MaxFaults /\ faults' = faults + o.faults
        /\ server' = o.server /\ status' = o.status
        /\ call' = [Then(o.res, o.data) EXCEPT !.renewed = @ \/ o.renewed]
        /\ UNCHANGED <<proto, pcFile>>

Goes(c) == call' = c /\ UNCHANGED <<proto, status, server, pcFile, faults>>
At(op, at) == call.op \in op /\ call.at = at
Next_(at) == [call EXCEPT !.at = at]
Ends(at, r) == [call EXCEPT !.at = at, !.res = r]
Done(r) == Ends("done", r)
Unsent(r, d) == r = "disc" /\ d = <<"unsent">>       \* what ends a call at once
IsCopy == {"copyFrom", "copyTo", "copyOn"}

-----------------------------------------------------------------------------
(* Opening.                                                                *)

FirstStep == [copyFrom |-> "open", copyTo |-> "create", dir |-> "opendir", dircount |-> "opendir",
              drives |-> "devlist", seek |-> "open", rmdir |-> "attr", remove |-> "delete",
              copyOn |-> "open", other |-> "other"]
Start(op) == \E n \in 0 .. 1 :     \* copyOnPsion of RFSV32 asks for the attributes first
    /\ call.at = "idle"
    /\ n > 0 => op = "dircount" /\ proto = "16" /\ n <= Len(Entries)     \* what the caller has counted
    /\ Goes([NoCall EXCEPT !.op = op, !.to = n, !.out = SubSeq(Entries, 1, n),
                !.at = CASE op = "copyOn" /\ proto = "32" -> "attr"
                         [] op = "rmdir" /\ proto = "32" -> "other"
                         [] OTHER -> FirstStep[op]])
Return == call.at = "done" /\ (status = "none" => server.handles = None) /\ Goes(NoCall)
Quit ==                     \* the program ends; another one connects
    /\ call.at = "done"
    /\ call' = NoCall /\ status' = "none" /\ server' = [server EXCEPT !.handles = None]
    /\ UNCHANGED <<proto, pcFile, faults>>

OpenRead ==
    /\ At({"copyFrom", "copyOn", "seek"}, "open")
    /\ Exchange(<<"open", "read", "from">>, LAMBDA r, d :
         IF r # "none" THEN Done(r)
         ELSE [call EXCEPT !.h = d, !.at = CASE call.op = "copyFrom" -> "local"
                                             [] call.op = "copyOn" -> "create" [] OTHER -> "position"])

OpenLocal == \E ok \in BOOLEAN :
    At({"copyFrom"}, "local") /\ Goes(IF ok THEN Next_("read") ELSE Ends("close", "fail"))

CreateFile ==               \* any failure to create is taken for an existing file
    /\ At({"copyTo", "copyOn"}, "create")
    /\ Exchange(<<"open", "create", "to">>, LAMBDA r, d :
         IF r # "none" THEN Next_("replace") ELSE [call EXCEPT !.to = d, !.at = "fill"])

ReplaceFile ==              \* RFSV16 forgets the handle of the source
    /\ At({"copyTo", "copyOn"}, "replace")
    /\ Exchange(<<"open", "replace", "to">>, LAMBDA r, d :
         IF r = "none" THEN [call EXCEPT !.to = d, !.at = "fill"]
         ELSE IF call.op = "copyOn" /\ proto = "32" THEN Ends("close", r)
         ELSE Done(r))

Fill ==                     \* the loop of the copy begins a round
    /\ At({"copyTo", "copyOn"}, "fill")
    /\ Goes(IF call.op = "copyOn" THEN Next_(IF proto = "32" THEN "readwrite" ELSE "read")
            ELSE IF call.eof THEN Next_("close")
            ELSE LET b == SubSeq(pcFile, Len(call.out) + 1, Clamp(Len(call.out) + SendLen, Len(pcFile)))
                          IN  [call EXCEPT !.buf = b, !.out = @ \o b, !.at = "write", !.eof = Len(b) < SendLen])

-----------------------------------------------------------------------------
(* fread asks until it has all or gets nothing; fwrite sends what it has   *)
(* in parts.                                                               *)

Asked(n) == IF proto = "16" /\ n > MaxData16 THEN MaxData16 ELSE n
ReadDone(r, d) == r # "none" \/ d = <<>> \/ Len(call.buf) + Len(d) = SendLen

Fread ==
    /\ At({"copyFrom", "copyOn"}, "read")
    /\ Exchange(<<"read", call.h, Asked(SendLen - Len(call.buf))>>, LAMBDA r, d :
         LET end == r = "eof" /\ proto = "16"
             more == [call EXCEPT !.buf = IF r = "none" THEN @ \o d ELSE @]
         IN  IF r # "none" /\ ~ end THEN Ends("close", r)
             ELSE IF ~ ReadDone(r, d) THEN more
             ELSE IF call.op = "copyFrom" THEN [more EXCEPT !.at = "callback"]
             ELSE IF more.buf = <<>> THEN [more EXCEPT !.at = "close"]
             ELSE [more EXCEPT !.at = "write"])

\* variant: the first part is all that is sent
FwriteOnce ==
    /\ At({"copyTo", "copyOn"}, "write")
    /\ IF call.buf = <<>> THEN Goes(Next_("callback"))
       ELSE LET n == Clamp(Asked(SendLen), Len(call.buf))
            IN  Exchange(<<"write", call.to, SubSeq(call.buf, 1, n)>>, LAMBDA r, d :
                  IF r # "none" THEN Ends("close", r) ELSE [call EXCEPT !.buf = <<>>])

Fwrite ==
    /\ At({"copyTo", "copyOn"}, "write")
    /\ IF call.buf = <<>> THEN Goes(Next_("callback"))
       ELSE LET n == Clamp(Asked(SendLen), Len(call.buf))
            IN  Exchange(<<"write", call.to, SubSeq(call.buf, 1, n)>>, LAMBDA r, d :
                  IF r # "none" THEN Ends("close", r)
                  ELSE [call EXCEPT !.buf = SubSeq(@, n + 1, Len(@))])

Callback == \E cancel \in BOOLEAN :     \* and, of copyFromPsion, the local write
    /\ At(IsCopy, "callback")
    /\ LET b == IF call.op = "copyFrom" THEN [call EXCEPT !.out = @ \o call.buf, !.buf = <<>>] ELSE call
       IN  Goes(IF cancel THEN [b EXCEPT !.at = "close", !.res = "cancel"]
                ELSE IF call.op = "copyFrom" THEN
                       [b EXCEPT !.at = IF call.buf = <<>> THEN "close" ELSE "read"]
                ELSE [b EXCEPT !.at = "fill"])

ReadWrite == \E cancel \in BOOLEAN :    \* copyOnPsion of RFSV32
    /\ At({"copyOn"}, "readwrite")
    /\ Exchange(<<"readwrite", call.h, OnLen, call.to>>, LAMBDA r, d :
         IF Unsent(r, d) THEN Done(r)
         ELSE IF r # "none" THEN Ends("close", r)
         ELSE [call EXCEPT !.res = IF cancel THEN "cancel" ELSE @,
                                    !.at = IF cancel \/ d # OnLen THEN "close" ELSE @])

\* variant: a failed copy is not closed
CloseIfDone ==
    /\ At(IsCopy \cup {"seek"}, "close")
    /\ Exchange(<<"close", IF call.op = "copyTo" THEN call.to ELSE call.h>>, LAMBDA r, d :
         IF call.op = "copyOn" /\ call.to # 0 /\ call.res = "none" THEN Next_("closeTo") ELSE Next_("done"))

Close ==
    /\ At(IsCopy \cup {"seek"}, "close")
    /\ Exchange(<<"close", IF call.op = "copyTo" THEN call.to ELSE call.h>>, LAMBDA r, d :
         IF call.op = "copyOn" /\ call.to # 0 THEN Next_("closeTo") ELSE Next_("done"))

CloseTo ==
    /\ At({"copyOn"}, "closeTo")
    /\ Exchange(<<"close", call.to>>, LAMBDA r, d :
         IF proto = "32" /\ call.res # "none" THEN Next_("delete") ELSE Next_("done"))

Delete ==
    /\ At({"copyOn", "remove", "rmdir"}, "delete")
    /\ Exchange(<<"delete", "to">>, LAMBDA r, d : Done(IF call.op = "copyOn" THEN call.res ELSE r))

Other ==                    \* one exchange and its result: pathtest, mkdir, rename, fsetattr ...
    /\ At({"other", "rmdir"}, "other")
    /\ Exchange(<<"attr", "from">>, LAMBDA r, d : Done(r))

GetAttr ==                  \* no file is a directory: RFSV16's rmdir refuses them all
    /\ At({"copyOn", "rmdir"}, "attr")
    /\ Exchange(<<"attr", IF call.op = "copyOn" THEN "from" ELSE "to">>, LAMBDA r, d :
         IF r # "none" THEN Done(r)
         ELSE IF call.op = "rmdir" THEN Done("dir")
         ELSE Next_("open"))

-----------------------------------------------------------------------------
(* Directories and drives.  dir closes its handle whether it has one or    *)
(* not; dircount of RFSV16 counts on from what the caller has.             *)

OpenDir ==
    /\ At({"dir", "dircount"}, "opendir")
    /\ Exchange(<<"open", "dir", "dir">>, LAMBDA r, d :
         IF r = "none" THEN [call EXCEPT !.h = d, !.at = "readdir"]
         ELSE IF call.op = "dircount" /\ proto = "32" THEN Done(r)
         ELSE Ends("closedir", r))

\* variant: an answer that is not full is the last
ReadDirShort ==
    /\ At({"dir", "dircount"}, "readdir")
    /\ Exchange(<<"readdir", call.h>>, LAMBDA r, d :
         IF r # "none" THEN Ends("closedir", r)
         ELSE [call EXCEPT !.out = @ \o d, !.at = IF Len(d) < Len(Entries) THEN "closedir" ELSE @])

ReadDir ==
    /\ At({"dir", "dircount"}, "readdir")
    /\ Exchange(<<"readdir", call.h>>, LAMBDA r, d :
         IF call.op = "dircount" /\ proto = "32" /\ Unsent(r, d) THEN Done(r)
         ELSE IF r # "none" THEN Ends("closedir", r)
         ELSE [call EXCEPT !.out = @ \o d])

CloseDir == \E h \in IF call.h = 0 THEN 0 .. 2 ELSE {call.h} :
    /\ At({"dir", "dircount"}, "closedir")
    /\ Exchange(<<"close", h>>, LAMBDA r, d : Done(IF call.res = "eof" THEN "none" ELSE call.res))

DevList ==
    /\ At({"drives"}, "devlist")
    /\ IF proto = "32"
       THEN Exchange(<<"devlist", "x">>, LAMBDA r, d :
              IF r # "none" THEN Done(r) ELSE [call EXCEPT !.buf = SetToSeq(d), !.at = "devinfo"])
       ELSE Exchange(<<"parse", "x">>, LAMBDA r, d : IF r # "none" THEN Done(r) ELSE Next_("devopen"))

DevOpen ==                  \* RFSV16; an error is answered with status_: no error
    /\ At({"drives"}, "devopen")
    /\ Exchange(<<"open", "dir", "drives">>, LAMBDA r, d :
         CASE r = "none" -> [call EXCEPT !.h = d, !.at = "devread"]
           [] r = "disc" -> Done(r)
           [] OTHER -> Next_("devinfo"))

DevRead ==
    /\ At({"drives"}, "devread")
    /\ Exchange(<<"readdir", call.h>>, LAMBDA r, d :
         IF Unsent(r, d) THEN Done(r)
         ELSE IF r # "none" THEN Ends("devclose", IF r = "eof" THEN "none" ELSE r)
         ELSE [call EXCEPT !.buf = @ \o d])

DevClose ==
    /\ At({"drives"}, "devclose")
    /\ Exchange(<<"close", call.h>>, LAMBDA r, d :
         IF call.res = "none" THEN Next_("devinfo") ELSE Done(call.res))

DevParse ==                 \* devinfo of RFSV16 begins with this
    /\ At({"drives"}, "devinfo") /\ proto = "16" /\ call.buf # <<>>
    /\ Exchange(<<"parse", "x">>, LAMBDA r, d : IF r # "none" THEN Done(r) ELSE Next_("devstatus"))

DevInfo ==                  \* drives: one after the other
    /\ At({"drives"}, IF proto = "16" /\ call.buf # <<>> THEN "devstatus" ELSE "devinfo")
    /\ IF call.buf = <<>> THEN Goes(Done("none"))
       ELSE Exchange(<<"drive", Head(call.buf)>>, LAMBDA r, d :
              CASE r = "none" -> [call EXCEPT !.buf = Tail(@), !.out = Append(@, Head(call.buf)), !.at = "devinfo"]
                [] r = "notready" -> [call EXCEPT !.buf = Tail(@), !.at = "devinfo"]
                [] OTHER -> Done(r))

-----------------------------------------------------------------------------
(* fseek, of a file of which some blocks were read.  mode 1 is from the    *)
(* start, 2 from here, 3 from the end.  buf holds what is asked for, the   *)
(* position that was found and the size of the answer that is still in the *)
(* buffer; numbers are 32 bits wide.                                       *)

Wrap(n) == n % (Half * Half)
Want == call.buf[1]         \* <<pos, mode>>
Saved == call.buf[2]
SeekCommand(pos, mode) ==   \* RFSV16 adds the request to the answer before it
    IF call.eof THEN <<"seek", Saved % Half, call.h * Half, pos % Half>>
    ELSE <<"seek", call.h, pos, mode>>

Position == \E pos \in Offsets, mode \in 1 .. 3, k \in 0 .. 1 :
    /\ At({"seek"}, "position")
    /\ call' = [call EXCEPT !.buf = <<<<pos, mode>>, 0>>,
                            !.out = <<k, Len(server.files.from), pos, mode>>,
                            !.at = IF mode > 1 /\ pos >= 0 THEN "sense" ELSE "seek"]
    /\ k <= Len(server.files.from)
    /\ server' = IF call.h \in DOMAIN server.handles THEN MovedTo(server, call.h, k) ELSE server
    /\ UNCHANGED <<proto, status, pcFile, faults>>

Sense ==
    /\ At({"seek"}, "sense")
    /\ Exchange(<<"seek", call.h, 0, Want[2]>>, LAMBDA r, d :
         IF r # "none" THEN Ends("close", r)
         ELSE IF Want[1] = 0 THEN [call EXCEPT !.buf[2] = d, !.at = "close"]
         ELSE [call EXCEPT !.buf[2] = d, !.eof = proto = "16",
                          !.at = IF proto = "32" /\ Want[2] = 3 THEN "expand" ELSE "seek"])

Expand ==                   \* RFSV32 only
    /\ At({"seek"}, "expand")
    /\ Exchange(<<"setsize", call.h, Wrap(Saved + Want[1])>>, LAMBDA r, d :
         IF r # "none" THEN Ends("close", r) ELSE [call EXCEPT !.buf[1] = <<0, 3>>, !.at = "seek"])

\* variant: where the seek went is not compared with where it should go
SeekOnly ==
    /\ At({"seek"}, "seek")
    /\ Exchange(SeekCommand(Want[1], Want[2]), LAMBDA r, d :
         IF r # "none" THEN Ends("close", r) ELSE [call EXCEPT !.buf[2] = d, !.at = "close"])

Seek ==
    /\ At({"seek"}, "seek")
    /\ Exchange(SeekCommand(Want[1], Want[2]), LAMBDA r, d :
         LET calc == Wrap(IF Want[2] = 1 THEN Want[1] ELSE Saved + Want[1])
         IN  IF r # "none" THEN Ends("close", r)
             ELSE IF Want[2] = 3 \/ calc <= d THEN [call EXCEPT !.buf[2] = d, !.at = "close"]
             ELSE [call EXCEPT !.buf[2] = calc, !.eof = FALSE, !.at = "extend"])

Extend ==
    /\ At({"seek"}, "extend")
    /\ Exchange(<<"setsize", call.h, Saved>>, LAMBDA r, d :
         IF r # "none" THEN Ends("close", r) ELSE Next_("reseek"))

Reseek ==
    /\ At({"seek"}, "reseek")
    /\ Exchange(<<"seek", call.h, Saved, 1>>, LAMBDA r, d :
         IF r # "none" THEN Ends("close", r) ELSE [call EXCEPT !.buf[2] = d, !.at = "close"])

Copying == Fill \/ Fread \/ Fwrite \/ Callback \/ ReadWrite
Opening == OpenRead \/ OpenLocal \/ CreateFile \/ ReplaceFile
Ending == Close \/ CloseTo \/ Delete \/ GetAttr \/ Other
Listing == OpenDir \/ ReadDir \/ CloseDir
Driving == DevList \/ DevOpen \/ DevRead \/ DevClose \/ DevParse \/ DevInfo
Seeking == Position \/ Sense \/ Expand \/ Seek \/ Extend \/ Reseek
RfsvNext == (\E op \in DOMAIN FirstStep : Start(op)) \/ Return \/ Quit
            \/ Opening \/ Copying \/ Ending \/ Listing \/ Driving \/ Seeking

-----------------------------------------------------------------------------
Succeeded(op) == call.op = op /\ call.at = "done" /\ call.res = "none"
To == IF Has(server, "to") THEN server.files.to ELSE <<"missing">>

(* A copy that is reported to have succeeded is whole, however the data    *)
(* are cut up and whatever sessions broke on the way.  copyOnPsion has two *)
(* handles and can promise that only within one session: the number of the *)
(* first may name the second file in the next.                             *)
CopiesWhole ==
    /\ Succeeded("copyFrom") => call.out = server.files.from
    /\ Succeeded("copyTo") => To = pcFile
    /\ Succeeded("copyOn") /\ ~ call.renewed => To = server.files.from

(* No call leaves a handle open, failed or cancelled: but for copyOnPsion  *)
(* of RFSV16, which forgets its source if it can open no destination.      *)
NothingLeftOpen ==
    call.at = "done" /\ status = "none" =>
        server.handles = None \/ (proto = "16" /\ call.op = "copyOn" /\ call.to = 0)

(* What is listed, counted or found is all there is, though it comes in    *)
(* answers of any size.  RFSV16 may find no drives where it should report  *)
(* that it could not look.                                                 *)
ListsAll ==
    /\ Succeeded("dir") => call.out = Entries
    /\ Succeeded("dircount") => Len(call.out) = Len(Entries) + call.to
    /\ Succeeded("drives") =>
         \/ \A n \in DOMAIN Drives : (Drives[n] = "ready") = (n \in ToSet(call.out))
         \/ (proto = "16" /\ call.out = <<>>)

(* fseek does what lseek does, seeking past the end included, where it     *)
(* does not seek backward from the current position and, for RFSV16, does  *)
(* not seek forward from the position or the end it asked for first.       *)
Unix == call.out[3] + CASE call.out[4] = 1 -> 0 [] call.out[4] = 2 -> call.out[1] [] OTHER -> call.out[2]
SeeksLikeUnix ==
    (/\ Succeeded("seek")
     /\ call.out[4] = 2 => call.out[3] >= 0
     /\ proto = "16" /\ call.out[4] > 1 => call.out[3] <= 0)
    => call.buf[2] = Unix /\ Unix <= Len(server.files.from)
=============================================================================
