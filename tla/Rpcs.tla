-------------------------------- MODULE Rpcs --------------------------------
(***************************************************************************)
(* The remote process and clipboard clients: RPCS with RPCS16 and RPCS32   *)
(* (lib/rpcs*.cc), and rclip (lib/rclip.cc).  A client sends a command and *)
(* reads the next answer from its socket: nothing in an answer names the   *)
(* command it belongs to.  The connection can break at any time, and the   *)
(* machine found behind it afterwards may be another one.                  *)
(*                                                                         *)
(* An answer is the command it was made for, its result and its length.    *)
(***************************************************************************)
EXTENDS Integers, Sequences, FiniteSets

CONSTANTS
    Machines,       \* what may be connected: "s3", "s5", "s5mx"
    DriveLetters,   \* the drives queryPrograms asks a SIBO for
    MaxCuts,        \* bound: broken connections
    MaxTimes,       \* bound: clocks set in a session
    MaxWaiting      \* bound: answers that wait when something is copied

VARIABLES
    client,         \* "rpcs16", "rpcs32" or "rclip"
    rpStatus,       \* status: "none", "disc" or "nsup"
    cache,          \* the bits set in mtCacheS5mx
    line,           \* the socket and the session behind it
    rpCall,         \* the call that is running
    cuts,
    timesSet        \* SET_TIMEs sent in this session

rpcsVars == <<client, rpStatus, cache, line, rpCall, cuts, timesSet>>

Idle == [op |-> "none", at |-> "idle", cmd |-> "none", todo |-> {}, procs |-> FALSE, any |-> FALSE,
         res |-> "none", own |-> TRUE]
Finish(r) == [Idle EXCEPT !.res = r, !.own = rpCall.own]
Line(up, m) == [up |-> up, machine |-> m, listens |-> FALSE, answers |-> <<>>]

RpcsInit ==
    /\ client = "none" /\ rpStatus = "disc" /\ cache = {} /\ cuts = 0 /\ timesSet = 0
    /\ line = Line("down", "none") /\ rpCall = Idle

-----------------------------------------------------------------------------
(* What the far side does with a command: external.                        *)

Is5(m) == m \in {"s5", "s5mx"}
AnswerLen(c) ==
    CASE c \in {"ncp", "type"} -> 2 [] c \in {"fopen", "uid", "uidM"} -> 4
      [] c = "info" -> 256 [] OTHER -> 1
(* Drive M only exists on a SIBO, and only EPOC knows RPCS32's own calls.  *)
CanAnswer(c, m) ==
    CASE c = "uidM" -> {IF Is5(m) THEN "fail" ELSE "none"}
      [] c \in {"info", "settime", "cfgopen"} -> {IF Is5(m) THEN "none" ELSE "fail"}
      [] c \in {"drive", "cmdline", "cfgread", "fopen"} -> {"none", "fail"}
      [] OTHER -> {"none"}
Says(c, r) == [cmd |-> c, res |-> r, len |-> IF r = "none" THEN AnswerLen(c) ELSE 0]
(* A listen is answered when something is copied on the Psion.             *)
Answered(l, c) ==
    IF l.up # "up" THEN {l}
    ELSE IF c = "listen" THEN {[l EXCEPT !.listens = TRUE]}
    ELSE {[l EXCEPT !.answers = Append(@, Says(c, r))] : r \in CanAnswer(c, l.machine)}

Copied ==
    /\ line.up = "up" /\ line.listens /\ Len(line.answers) < MaxWaiting
    /\ line' = [line EXCEPT !.listens = FALSE, !.answers = Append(@, Says("listen", "none"))]
    /\ UNCHANGED <<client, rpStatus, cache, rpCall, cuts, timesSet>>

(* The connection breaks; answers that arrived before may still be read.   *)
Cut ==
    /\ line.up # "down" /\ cuts < MaxCuts
    /\ cuts' = cuts + 1
    /\ \E a \in {<<>>, line.answers} : line' = [line EXCEPT !.up = "down", !.listens = FALSE, !.answers = a]
    /\ UNCHANGED <<client, rpStatus, cache, rpCall, timesSet>>

-----------------------------------------------------------------------------
(* Connecting: the daemon says which machine it has, and that chooses the  *)
(* class; the constructor's reset asks for the service by name, which ncpd *)
(* may refuse ("NAK" tells rclip that there is none).                      *)

Reset(c, m) ==
    {[st |-> "none", line |-> Line("up", m)]}
    \cup {[st |-> s, line |-> Line(u, m)] :
             s \in IF c = "rclip" THEN {"disc", "nsup"} ELSE {"disc"}, u \in {"deaf", "down"}}

ClassFor(m) == IF Is5(m) THEN "rpcs32" ELSE "rpcs16"

Connect ==
    /\ client = "none"
    /\ \E m \in Machines, c \in {"rpcs", "rclip"} : \E s \in Reset(c, m) :
         /\ client' = IF c = "rclip" THEN c ELSE ClassFor(m)
         /\ rpStatus' = s.st /\ line' = s.line
    /\ UNCHANGED <<cache, rpCall, cuts, timesSet>>

(* reconnect: a new socket, and a session with the machine found there.    *)
ReconnectsOnOldSocket ==        \* variant: what the old socket holds is still read
    {[r EXCEPT !.line.answers = line.answers] : r \in UNION {Reset(client, m) : m \in Machines}}
Reconnects == UNION {Reset(client, m) : m \in Machines}

(* reset forgets what was known of the machine.                            *)
ResetCacheKept == cache         \* variant: a new session keeps what the old one had learnt
ResetCache == {}

-----------------------------------------------------------------------------
(* sendCommand makes a session when there is none, and once more when the  *)
(* command could not be sent: a send that then works is enough, even if    *)
(* ncpd refused the service.  Most operations give up without sending, but *)
(* rclip's read on, and SET_TIME's answer is never read.                   *)

Went(ok) ==
    rpCall' = IF rpCall.op = "listen" THEN Finish(IF ok THEN "none" ELSE rpStatus')
              ELSE IF rpCall.cmd = "settime" THEN Finish(IF ok THEN "none" ELSE "disc")
              ELSE IF ok \/ client = "rclip" THEN [rpCall EXCEPT !.at = "read"]
              ELSE Finish("disc")

Sent(l, times) ==
    /\ line' \in Answered(l, rpCall.cmd)
    /\ timesSet' = times + (IF rpCall.cmd = "settime" THEN 1 ELSE 0)
    /\ Went(TRUE)

Send ==
    /\ rpCall.at = "send" /\ rpStatus = "none" /\ line.up # "down"
    /\ Sent(line, timesSet)
    /\ UNCHANGED <<client, rpStatus, cache, cuts>>

SendUnsupported ==
    /\ rpCall.at = "send" /\ rpStatus = "nsup"
    /\ UNCHANGED <<client, rpStatus, cache, line, cuts, timesSet>>
    /\ Went(FALSE)

SendInNewSession ==
    /\ rpCall.at = "send" /\ rpStatus # "nsup"
    /\ rpStatus = "disc" \/ line.up = "down"
    /\ \E r \in Reconnects :
         IF (rpStatus = "disc" /\ r.st # "none") \/ r.line.up = "down"
         THEN /\ rpStatus' = (IF rpStatus = "disc" THEN r.st ELSE "disc")
              /\ line' = r.line /\ timesSet' = 0 /\ Went(FALSE)
         ELSE rpStatus' = r.st /\ Sent(r.line, 0)
    /\ cache' = ResetCache
    /\ UNCHANGED <<client, cuts>>

-----------------------------------------------------------------------------
(* What each operation makes of an answer: of an answer of another length  *)
(* a failure, where the length is looked at; rclip compares the answer.    *)

Judged(c, a) ==
    IF client = "rclip" THEN IF a.cmd = c.cmd THEN "none" ELSE "fail"
    ELSE IF c.cmd \in {"regopen", "regread"} THEN "none"
    ELSE IF a.res # "none" THEN a.res
    ELSE IF c.cmd \in {"ncp", "type", "fopen", "uid", "info"} /\ a.len # AnswerLen(c.cmd) THEN "fail"
    ELSE "none"

(* getMachineType and getMachineInfo note what they learn.                 *)
LearnsType(a, m) == {4} \cup (IF Is5(m) /\ a.cmd = "type" THEN {1} ELSE {})
LearnsInfo(a, m) == {8} \cup (IF m = "s5mx" /\ a.cmd = "info" THEN {2} ELSE {})

Done(c, r) == {[Idle EXCEPT !.res = r, !.own = c.own]}
Ask(c, cmd) == {[c EXCEPT !.at = "send", !.cmd = cmd]}

(* queryPrograms: which drives, which machine, what runs on each drive,    *)
(* and the command line of a program found; k is what is known now.        *)
AskMachine(c, k) ==
    IF 4 \notin k THEN Ask(c, "type")
    ELSE IF 1 \in k /\ 8 \notin k THEN Ask(c, "info")
    ELSE Ask(c, "drive")
NextDrive(c) ==
    IF c.todo # {} THEN Ask(c, "drive")
    ELSE IF c.any THEN Ask(c, "cmdline") \cup Done(c, "none")
    ELSE Done(c, "fail")
QueryPrograms(c, r, k) ==
    CASE c.cmd = "uidM" -> AskMachine([c EXCEPT !.todo = IF r = "none" THEN DriveLetters ELSE {"C"}], k)
      [] c.cmd = "type" -> IF r = "none" THEN AskMachine(c, k) ELSE Done(c, "fail")
      [] c.cmd = "info" -> IF r = "disc" THEN Done(c, r) ELSE Ask(c, "drive")
      [] c.cmd = "drive" ->
           NextDrive([c EXCEPT !.todo = @ \ {CHOOSE d \in @ : TRUE}, !.any = @ \/ r = "none"])
      [] OTHER -> Ask(c, "cmdline") \cup Done(c, "none")

(* configRead closes its handle only after a failure.                      *)
ConfigRead(c, r) ==
    CASE c.cmd = "cfgopen" -> IF r = "none" THEN Ask(c, "cfgread") ELSE Done(c, r)
      [] c.cmd = "cfgread" -> IF r = "none" THEN Ask(c, "cfgread") \cup Done(c, r)
                              ELSE Ask([c EXCEPT !.res = r], "close")
      [] OTHER -> Done(c, c.res)

SetTime(c, r) ==
    IF r # "none" THEN Done(c, r)
    ELSE IF timesSet < MaxTimes THEN Ask(c, "settime") \cup Done(c, "fail")
    ELSE Done(c, "fail")

After(c, r, k) ==
    CASE c.op = "query" -> QueryPrograms(c, r, k)
      [] c.op = "config" -> ConfigRead(c, r)
      [] c.op = "time" -> SetTime(c, r)
      [] OTHER -> Done(c, r)

(* getResponse, then what the operation does next.                         *)
GetResponse ==
    /\ rpCall.at = "read" /\ rpStatus # "nsup" /\ line.answers # <<>>
    /\ LET a == Head(line.answers)
           r == Judged(rpCall, a)
           c == [rpCall EXCEPT !.own = @ /\ (r = "none" /\ timesSet = 0 => a.cmd = rpCall.cmd)]
       IN  /\ line' = [line EXCEPT !.answers = Tail(@)]
           /\ cache' = cache \cup
                CASE r = "none" /\ c.cmd = "type" -> LearnsType(a, line.machine)
                  [] r = "none" /\ c.cmd = "info" -> LearnsInfo(a, line.machine)
                  [] OTHER -> {}
           /\ rpCall' \in After(c, r, cache')
    /\ UNCHANGED <<client, rpStatus, cuts, timesSet>>

(* There is no more to read; queryPrograms goes on with the next drive.    *)
GetNoResponse ==
    /\ rpCall.at = "read" /\ (rpStatus = "nsup" \/ (line.up # "up" /\ line.answers = <<>>))
    /\ rpStatus' = IF rpStatus = "nsup" THEN "nsup" ELSE "disc"
    /\ rpCall' \in After(rpCall, rpStatus', cache)
    /\ UNCHANGED <<client, cache, line, cuts, timesSet>>

-----------------------------------------------------------------------------
(* The calls.                                                              *)

Simple == {"ncp", "exec", "stop", "prog", "fopen", "fread", "uid", "type", "fuser", "quit", "cmdline",
           "owner"}
First(op) == CASE op = "query" -> "uidM" [] op = "time" -> "info" [] op = "config" -> "cfgopen"
               [] op = "wait" -> "listen" [] OTHER -> op
Ops == CASE client = "rpcs16" -> Simple \cup {"query"}
         [] client = "rpcs32" -> Simple \cup {"query", "time", "config", "info", "regopen", "regread"}
         [] client = "rclip" -> {"listen", "wait", "notify", "init"}
         [] OTHER -> {}

(* initClipbd alone looks at the status before it sends.                   *)
Start ==
    /\ rpCall.at = "idle"
    /\ \E op \in Ops :
         rpCall' = IF op = "init" /\ rpStatus # "none" THEN [Idle EXCEPT !.res = rpStatus]
                   ELSE [Idle EXCEPT !.op = op, !.at = "send", !.cmd = First(op)]
    /\ UNCHANGED <<client, rpStatus, cache, line, cuts, timesSet>>

(* checkNotify looks whether an answer to a listen is there.               *)
CheckNotify ==
    /\ rpCall.at = "idle" /\ client = "rclip"
    /\ IF line.answers # <<>>
       THEN /\ rpCall' = [Idle EXCEPT !.res = IF Head(line.answers).cmd = "listen" THEN "none" ELSE "fail"]
            /\ line' = [line EXCEPT !.answers = Tail(@)] /\ UNCHANGED rpStatus
       ELSE /\ rpStatus' = (IF line.up = "up" THEN rpStatus ELSE "disc")
            /\ rpCall' = [Idle EXCEPT !.res = IF line.up = "up" THEN "eof" ELSE "disc"]
            /\ UNCHANGED line
    /\ UNCHANGED <<client, cache, cuts, timesSet>>

RpcsNext ==
    \/ Connect \/ Start \/ CheckNotify
    \/ Send \/ SendUnsupported \/ SendInNewSession
    \/ GetResponse \/ GetNoResponse
    \/ Copied \/ Cut

-----------------------------------------------------------------------------
(* Nothing in an answer tells which command it answers, so the count of    *)
(* commands sent and answers read has to agree over any sequence of calls, *)
(* failures and new sessions: a call that succeeds has read its own        *)
(* answers (getResponse), unless the clock was set in this session, whose  *)
(* answer setTime leaves to the next call.                                 *)
AnswersMatch == rpCall.own

(* The bits of mtCacheS5mx are of the machine the session is with, also    *)
(* when another machine was found behind a new session (reset).            *)
CacheOfMachine ==
    timesSet = 0 =>
      /\ 4 \in cache => (1 \in cache <=> Is5(line.machine))
      /\ 8 \in cache => (2 \in cache <=> line.machine = "s5mx")
=============================================================================
