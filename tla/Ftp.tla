--------------------------------- MODULE Ftp ---------------------------------
(***************************************************************************)
(* plpftp's shell (plpftp/ftp.cc): the command loop, single and multiple   *)
(* transfers, what an interrupt does to them, killsave and runrestore, and *)
(* the clipboard.  A remote call works or fails as a whole here; module    *)
(* Rfsv has what goes on inside one.                                       *)
(***************************************************************************)
EXTENDS Integers, Sequences, FiniteSets, SequencesExt

CONSTANTS
    Remote,         \* names of files that may be on the Psion
    Local,          \* names of files that may be here
    Programs,       \* what may run on the Psion: [prog, arg] records
    HomeOf,         \* where a program is: "path" or a drive
    DriveSeq,       \* the Psion's drives, in order
    Texts,          \* what the clipboard may hold
    MaxFtpFaults    \* bound: failing calls, interrupts, programs started by hand

VARIABLES
    shell,          \* session's variables, and the command that is running
    dirs,           \* the Psion's directories and their files
    localFiles,     \* the files in localDir
    running,        \* the programs on the Psion
    savedList,      \* the file killsave writes: its lines
    clip,           \* the clipboard file on the Psion
    ftpFaults

ftpVars == <<shell, dirs, localFiles, running, savedList, clip, ftpFaults>>

(* before: what ran, or lay in the directory, when the command began.      *)
Prompting == [at |-> "prompt", once |-> FALSE, prompt |-> TRUE, continueRunning |-> TRUE, psionDir |-> "home",
              cmd |-> "none", queue |-> <<>>, done |-> {}, refused |-> {}, failed |-> FALSE,
              before |-> {}, text |-> <<>>]

FtpInit ==
    /\ shell = Prompting
    /\ \E r \in SUBSET Remote : dirs = [d \in {"home", "other"} |-> IF d = "home" THEN r ELSE {}]
    /\ localFiles \in SUBSET Local
    /\ running \in SUBSET Programs /\ savedList = <<>>
    /\ clip = [text |-> <<>>, archive |-> FALSE]
    /\ ftpFaults = 0

FtpFault == ftpFaults < MaxFtpFaults /\ ftpFaults' = ftpFaults + 1
NoFault == UNCHANGED ftpFaults

-----------------------------------------------------------------------------
(* The loop.  A command ends at its condition; an interrupt clears         *)
(* continueRunning, and at the prompt it closes the input as well, which   *)
(* reads as "bye".                                                         *)

Prompt == shell.at = "prompt"
Begin(c, at) == [shell EXCEPT !.at = at, !.cmd = c, !.queue = <<>>, !.done = {}, !.refused = {},
                              !.failed = FALSE, !.before = {}, !.text = <<>>]
Fresh(s) == [s EXCEPT !.at = "prompt", !.cmd = "none", !.queue = <<>>, !.done = {}, !.refused = {},
                      !.failed = FALSE, !.before = {}, !.text = <<>>]

LoopTest ==
    /\ shell.at = "finished"
    /\ shell' = IF ~shell.once /\ shell.continueRunning THEN Fresh(shell)
                ELSE [Fresh(shell) EXCEPT !.at = "ended"]
    /\ UNCHANGED <<dirs, localFiles, running, savedList, clip, ftpFaults>>

Interrupt ==
    /\ shell.at # "ended" /\ shell.continueRunning /\ FtpFault
    /\ shell' = IF Prompt /\ ~shell.once THEN [shell EXCEPT !.continueRunning = FALSE, !.at = "finished"]
                ELSE [shell EXCEPT !.continueRunning = FALSE]
    /\ UNCHANGED <<dirs, localFiles, running, savedList, clip>>

Session ==      \* with a command of its own, or with a prompt
    /\ shell.at = "ended"
    /\ \E once \in BOOLEAN : shell' = [Prompting EXCEPT !.once = once]
    /\ UNCHANGED <<dirs, localFiles, running, savedList, clip, ftpFaults>>

-----------------------------------------------------------------------------
(* Commands of one remote call.                                            *)

Here == shell.psionDir
OneCall(c, ok, newDirs) ==
    /\ Prompt
    /\ \/ NoFault /\ dirs' = (IF ok THEN newDirs ELSE dirs) /\ shell' = [Begin(c, "finished") EXCEPT !.failed = ~ok]
       \/ FtpFault /\ dirs' \in {dirs, IF ok THEN newDirs ELSE dirs}
          /\ shell' = [Begin(c, "finished") EXCEPT !.failed = TRUE]
    /\ UNCHANGED <<localFiles, running, savedList, clip>>

HereHas(f) == Here \in DOMAIN dirs /\ f \in dirs[Here]
InHere(files) == IF Here \in DOMAIN dirs THEN [dirs EXCEPT ![Here] = files] ELSE dirs
Del(f) == OneCall("del", HereHas(f), InHere(dirs[Here] \ {f}))
Ren(f, g) == OneCall("ren", HereHas(f) /\ ~HereHas(g), InHere((dirs[Here] \ {f}) \cup {g}))
Cp(f, g) == OneCall("cp", HereHas(f), InHere(dirs[Here] \cup {g}))
MakeDir ==
    OneCall("mkdir", "other" \notin DOMAIN dirs,
            [d \in DOMAIN dirs \cup {"other"} |-> IF d = "other" THEN {} ELSE dirs[d]])
RemoveDir ==
    OneCall("rmdir", "other" \in DOMAIN dirs /\ dirs["other"] = {}, [d \in DOMAIN dirs \ {"other"} |-> dirs[d]])

(* cd: the new directory counts only if its entries can be counted.        *)
Cd(d) ==
    /\ Prompt
    /\ \/ d \in DOMAIN dirs /\ NoFault /\ shell' = [Begin("cd", "finished") EXCEPT !.psionDir = d]
       \/ d \notin DOMAIN dirs /\ NoFault /\ shell' = [Begin("cd", "finished") EXCEPT !.failed = TRUE]
       \/ FtpFault /\ shell' = [Begin("cd", "finished") EXCEPT !.failed = TRUE]
    /\ UNCHANGED <<dirs, localFiles, running, savedList, clip>>

TogglePrompt ==
    /\ Prompt
    /\ shell' = [Begin("prompt", "finished") EXCEPT !.prompt = ~@]
    /\ UNCHANGED <<dirs, localFiles, running, savedList, clip, ftpFaults>>

-----------------------------------------------------------------------------
(* Transfers.  A copy asks checkAbort, which is continueRunning, before    *)
(* each block; a command that fails sets it again.                         *)

CopyWorks == shell.continueRunning /\ NoFault
CopyFails == (~shell.continueRunning /\ NoFault) \/ FtpFault

BeginGet(f) ==
    /\ Prompt /\ HereHas(f)
    /\ shell' = [Begin("get", "batch") EXCEPT !.queue = <<f>>]
    /\ UNCHANGED <<dirs, localFiles, running, savedList, clip, ftpFaults>>
BeginPut(f) ==
    /\ Prompt /\ f \in localFiles
    /\ shell' = [Begin("put", "batch") EXCEPT !.queue = <<f>>]
    /\ UNCHANGED <<dirs, localFiles, running, savedList, clip, ftpFaults>>

(* mget: the files of a listing that match; mput: those of a directory.    *)
BeginMget ==
    /\ Prompt
    /\ \/ /\ Here \in DOMAIN dirs /\ NoFault
          /\ \E pattern \in SUBSET dirs[Here] :
               shell' = [Begin("mget", "batch") EXCEPT !.queue = SetToSeq(pattern), !.before = pattern]
       \/ ((Here \notin DOMAIN dirs /\ NoFault) \/ FtpFault)
          /\ shell' = [Begin("mget", "finished") EXCEPT !.failed = TRUE]
    /\ UNCHANGED <<dirs, localFiles, running, savedList, clip>>
BeginMput ==
    /\ Prompt
    /\ \E pattern \in SUBSET localFiles :
         shell' = [Begin("mput", "batch") EXCEPT !.queue = SetToSeq(pattern), !.before = pattern]
    /\ UNCHANGED <<dirs, localFiles, running, savedList, clip, ftpFaults>>

(* The user is asked, unless prompting is off: then mget takes that for a  *)
(* yes and mput for a no.                                                  *)
Batch == shell.at = "batch" /\ shell.queue # <<>>
Multiple == shell.cmd \in {"mget", "mput"}
MayRefuse == Multiple /\ (shell.prompt \/ shell.cmd = "mput")
MayAccept == Multiple => shell.prompt \/ shell.cmd = "mget"
Refuse ==
    /\ Batch /\ MayRefuse
    /\ shell' = [shell EXCEPT !.queue = Tail(@), !.refused = @ \cup {shell.queue[1]}]
    /\ UNCHANGED <<dirs, localFiles, running, savedList, clip, ftpFaults>>

CopyDone(f) == [shell EXCEPT !.queue = Tail(@), !.done = @ \cup {f}]
Transfer ==
    LET f == shell.queue[1]
        fetch == shell.cmd \in {"get", "mget"}
    IN  /\ Batch /\ MayAccept /\ UNCHANGED <<running, savedList, clip>>
        /\ IF fetch THEN HereHas(f) /\ localFiles' = localFiles \cup {f} /\ UNCHANGED dirs
           ELSE Here \in DOMAIN dirs /\ dirs' = [dirs EXCEPT ![Here] = @ \cup {f}] /\ UNCHANGED localFiles
        /\ CopyWorks /\ shell' = CopyDone(f)
TransferFailsGoesOn ==          \* variant: the loop goes on with the next file
    /\ Batch /\ MayAccept /\ UNCHANGED <<dirs, localFiles, running, savedList, clip>>
    /\ CopyFails \/ (Here \notin DOMAIN dirs /\ NoFault)
    /\ shell' = [shell EXCEPT !.continueRunning = TRUE, !.queue = Tail(@)]
TransferFails ==                \* what was copied so far is not taken back
    /\ Batch /\ MayAccept /\ UNCHANGED <<dirs, localFiles, running, savedList, clip>>
    /\ CopyFails \/ (Here \notin DOMAIN dirs /\ NoFault)
    /\ shell' = [shell EXCEPT !.continueRunning = TRUE, !.failed = TRUE, !.at = "finished"]
BatchEnds ==
    /\ shell.at = "batch" /\ shell.queue = <<>>
    /\ shell' = [shell EXCEPT !.at = "finished"]
    /\ UNCHANGED <<dirs, localFiles, running, savedList, clip, ftpFaults>>

-----------------------------------------------------------------------------
(* killsave: the programs that run are listed, then stopped until a query  *)
(* finds none.                                                             *)

KillSave ==
    /\ Prompt
    /\ \/ /\ savedList' = SetToSeq(running) /\ NoFault
          /\ shell' = [Begin("killsave", "stopping") EXCEPT !.queue = SetToSeq(running), !.before = running]
       \/ FtpFault /\ savedList' = <<>> /\ shell' = [Begin("killsave", "finished") EXCEPT !.failed = TRUE]
    /\ UNCHANGED <<dirs, localFiles, running, clip>>
StopPrograms ==                 \* one round of the loop, and its query
    LET asked == ToSet(shell.queue)
    IN  /\ shell.at = "stopping" /\ shell.queue # <<>>
        /\ \E stay \in {{}} \cup {{p} : p \in running} : running' = (running \ asked) \cup stay
        /\ \/ NoFault /\ shell' = [shell EXCEPT !.queue = SetToSeq(running')]
           \/ FtpFault /\ shell' = [shell EXCEPT !.at = "finished", !.failed = TRUE]
        /\ UNCHANGED <<dirs, localFiles, savedList, clip>>
AllStopped ==
    /\ shell.at = "stopping" /\ shell.queue = <<>>
    /\ shell' = [shell EXCEPT !.at = "finished"]
    /\ UNCHANGED <<dirs, localFiles, running, savedList, clip, ftpFaults>>

(* runrestore: a document is started, or the program with its arguments;   *)
(* one without a path is looked for in \System\Apps on every drive, and    *)
(* loses its arguments.                                                    *)
RunRestore ==
    /\ Prompt
    /\ shell' = [Begin("runrestore", "starting") EXCEPT !.queue = savedList]
    /\ UNCHANGED <<dirs, localFiles, running, savedList, clip, ftpFaults>>
Started(p) ==
    IF p.arg = "document" \/ HomeOf[p.prog] = "path" THEN {p}
    ELSE IF HomeOf[p.prog] \in ToSet(DriveSeq) THEN {[p EXCEPT !.arg = ""]} ELSE {}
StartPrograms ==
    LET p == shell.queue[1]
    IN  /\ shell.at = "starting" /\ shell.queue # <<>>
        /\ \/ running' = running \cup Started(p) /\ NoFault
              /\ shell' = [shell EXCEPT !.queue = Tail(@), !.failed = @ \/ Started(p) = {}]
           \/ FtpFault /\ UNCHANGED running /\ shell' = [shell EXCEPT !.queue = Tail(@), !.failed = TRUE]
        /\ UNCHANGED <<dirs, localFiles, savedList, clip>>
AllStarted ==
    /\ shell.at = "starting" /\ shell.queue = <<>>
    /\ shell' = [shell EXCEPT !.at = "finished"]
    /\ UNCHANGED <<dirs, localFiles, running, savedList, clip, ftpFaults>>

(* kill: one program, by its number, or all of them.                       *)
Kill ==
    /\ Prompt
    /\ \/ NoFault /\ \E k \in {running} \cup {{p} : p \in running} : running' = running \ k
       \/ FtpFault /\ UNCHANGED running
    /\ shell' = Begin("kill", "finished")
    /\ UNCHANGED <<dirs, localFiles, savedList, clip>>

(* The user of the Psion starts a program.                                 *)
StartByHand ==
    /\ FtpFault /\ \E p \in Programs : running' = running \cup {p}
    /\ UNCHANGED <<shell, dirs, localFiles, savedList, clip>>

-----------------------------------------------------------------------------
(* The clipboard: a file with the text in the Psion's characters.          *)

ToPsion(c) == CASE c \in {"nul", "newline"} -> "6" [] c = "formfeed" -> "8" [] c = "dash" -> "11" [] OTHER -> c
FromPsion(c) == CASE c \in {"6", "7"} -> "newline" [] c = "8" -> "formfeed" [] c = "10" -> "tab"
                  [] c \in {"11", "12"} -> "dash" [] c \in {"15", "16"} -> " " [] OTHER -> c
PsionCodes == {"6", "7", "8", "10", "11", "12", "15", "16"}     \* what FromPsion changes
Mapped(text, Op(_)) == [i \in DOMAIN text |-> Op(text[i])]

PutClip ==      \* 0 even if the text could not be written
    /\ Prompt
    /\ \E t \in Texts :
         \/ NoFault /\ clip' = [text |-> Mapped(t, ToPsion), archive |-> TRUE]
            /\ shell' = [Begin("putclip", "finished") EXCEPT !.text = t]
         \/ FtpFault /\ clip' \in {clip, [text |-> <<>>, archive |-> TRUE], [clip EXCEPT !.text = <<>>]}
            /\ shell' = [Begin("putclip", "finished") EXCEPT !.text = t, !.failed = TRUE]
    /\ UNCHANGED <<dirs, localFiles, running, savedList>>
GetClip ==      \* nothing, if the file is not marked as changed
    /\ Prompt
    /\ \/ NoFault /\ shell' = [Begin("getclip", "finished") EXCEPT
                                !.text = IF clip.archive THEN Mapped(clip.text, FromPsion) ELSE <<>>]
       \/ FtpFault /\ shell' = [Begin("getclip", "finished") EXCEPT !.failed = TRUE]
    /\ UNCHANGED <<dirs, localFiles, running, savedList, clip>>

(* The three groups of commands share the shell's state only.              *)
FileCommands ==
    \/ TogglePrompt \/ MakeDir \/ RemoveDir
    \/ \E f \in Remote : Del(f) \/ BeginGet(f) \/ \E g \in Remote : f # g /\ (Ren(f, g) \/ Cp(f, g))
    \/ \E f \in Local : BeginPut(f)
    \/ \E d \in {"home", "other"} : Cd(d)
    \/ BeginMget \/ BeginMput \/ Refuse \/ Transfer \/ TransferFails \/ BatchEnds
ProgramCommands ==
    \/ KillSave \/ StopPrograms \/ AllStopped \/ RunRestore \/ StartPrograms \/ AllStarted
    \/ Kill \/ StartByHand
ClipboardCommands == PutClip \/ GetClip

ShellStep == LoopTest \/ Interrupt \/ Session
FtpNext == ShellStep \/ FileCommands \/ ProgramCommands \/ ClipboardCommands

-----------------------------------------------------------------------------
(* A command that reports no error did what it was asked: mget, and mput,  *)
(* took over every file that matched and was not refused, although an      *)
(* interrupt may have come between any two blocks of them; runrestore has  *)
(* every listed program running that can be started, with the documents    *)
(* they had; killsave left a list of all that ran when it began; and what  *)
(* the clipboard was given is what it holds, but for the null characters   *)
(* and the control characters that the Psion uses for others, if the       *)
(* writes that putclip does not look at worked.                            *)
DoneAsReported ==
    shell.at = "finished" /\ ~shell.failed =>
        /\ Multiple => shell.before \subseteq shell.done \cup shell.refused
        /\ shell.cmd = "mget" => shell.done \subseteq localFiles
        /\ shell.cmd = "runrestore" =>
             \A i \in DOMAIN savedList : \E p \in running :
                p.prog = savedList[i].prog /\ (savedList[i].arg = "document" => p.arg = "document")
        /\ shell.cmd = "killsave" => shell.before = ToSet(savedList)
        /\ shell.cmd = "putclip" =>
             \A i \in DOMAIN shell.text :
                shell.text[i] \notin PsionCodes \cup {"nul"} => Mapped(clip.text, FromPsion)[i] = shell.text[i]
=============================================================================
