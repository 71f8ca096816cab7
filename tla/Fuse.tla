-------------------------------- MODULE Fuse --------------------------------
(***************************************************************************)
(* plpfuse: the Psion as a file system (plpfuse/fuse.c, plpfuse/main.cc).  *)
(* One request of the kernel at a time becomes a few calls of the RFSV     *)
(* class, any of which may fail; sattr of plpftp (plpftp/ftp.cc) may       *)
(* change the same files in between.  Attributes are sets: those of SIBO   *)
(* and of EPOC, translated by RFSV16 and RFSV32, and the standard ones.    *)
(*                                                                         *)
(* A file is its attributes and its size; a directory has attributes only. *)
(***************************************************************************)
EXTENDS Integers, Sequences, FiniteSets, SequencesExt

CONSTANTS
    FuseFiles,      \* names of files
    Sattrs,         \* arguments of sattr, a sequence of letters each
    Modes,          \* permissions chmod is asked for
    Values,         \* sets of flags setxattr is asked for
    MaxFuseSize,    \* bound: of a file
    MaxFuseFaults   \* bound: failing calls, sattr and ncpd's late start

VARIABLES
    system,         \* "sibo" or "epoc"
    rfsvObject,     \* a, and its status: "null", "none" or "disc"
    psion,          \* its files and how many handles are open
    request,        \* the request that is running
    fuseFaults

fuseVars == <<system, rfsvObject, psion, request, fuseFaults>>

NoRequest == [op |-> "none", at |-> "idle", name |-> "", to |-> "", arg |-> 0, asked |-> {},
              old |-> {}, before |-> {}, res |-> "none", blind |-> FALSE]

-----------------------------------------------------------------------------
(* attr2std and std2attr of the two classes.  EPOC files can be read, SIBO *)
(* files are normal; SIBO has a bit for writing, not for read-only.        *)

EpocStd == [ronly |-> "rdonly", hidden |-> "hidden", system |-> "system",
            directory |-> "dir", archive |-> "archive", normal |-> "normal"]
SiboStd == [hidden |-> "hidden", system |-> "system", dir |-> "dir", mod |-> "archive",
            read |-> "read", exec |-> "exec"]
EpocToStd(a) == {EpocStd[f] : f \in a} \cup {"read"}
StdToEpoc(s) == {f \in DOMAIN EpocStd : EpocStd[f] \in s}
SiboToStd(a) == {SiboStd[f] : f \in a \ {"write"}} \cup (IF "write" \in a THEN {} ELSE {"rdonly"})
                \cup {"normal"}
StdToSibo(s) == {f \in DOMAIN SiboStd : SiboStd[f] \in s} \cup (IF "rdonly" \in s THEN {} ELSE {"write"})
ToStd(a) == IF system = "epoc" THEN EpocToStd(a) ELSE SiboToStd(a)

(* fsetattr: EPOC gets what to set and what to clear, SIBO the new bits    *)
(* and a mask; the write bit is inverted on the way.                       *)
EpocSet(a, set, clear) == (a \ StdToEpoc(clear)) \cup StdToEpoc(set)
SiboSet(a, set, clear) ==
    LET status == StdToSibo(set) \ StdToSibo(clear)
        inverted == IF "write" \in status THEN status \ {"write"} ELSE status \cup {"write"}
        mask == StdToSibo(set) \cup StdToSibo(clear)
    IN  (a \ mask) \cup (inverted \cap mask)
SetAttr(a, set, clear) == IF system = "epoc" THEN EpocSet(a, set, clear) ELSE SiboSet(a, set, clear)

-----------------------------------------------------------------------------
(* fuse.c: modes, extended attributes, and what differs between two.       *)

Xattrs == {"hidden", "system", "archive"}
Mode(std) == IF "dir" \in std THEN {"r", "w", "x"}
             ELSE {m \in {"r"} : "read" \in std} \cup {m \in {"w"} : "rdonly" \notin std}
Xattr(std) == std \cap Xattrs
XattrChange(old, new) == [set |-> new \ old, clear |-> old \ new]
ModeChangeSwapped(old, new) ==  \* variant: a file that is to be writable is made read-only
    [set |-> {f \in {"read"} : "r" \in new \ old} \cup {f \in {"rdonly"} : "w" \in new \ old},
     clear |-> {f \in {"read"} : "r" \in old \ new} \cup {f \in {"rdonly"} : "w" \in old \ new}]
ModeChange(old, new) ==
    [set |-> {f \in {"read"} : "r" \in new \ old} \cup {f \in {"rdonly"} : "w" \in old \ new},
     clear |-> {f \in {"read"} : "r" \in old \ new} \cup {f \in {"rdonly"} : "w" \in new \ old}]

-----------------------------------------------------------------------------
FuseInit ==
    /\ system \in {"sibo", "epoc"}
    /\ rfsvObject \in {"null", "none"} /\ request = NoRequest /\ fuseFaults = 0
    /\ \E attrs \in IF system = "sibo" THEN {{"write", "read"}, {"read", "hidden"}, {"write", "mod"}}
                    ELSE {{"archive"}, {"normal"}, {"ronly", "hidden"}} :
         psion = [files |-> [f \in {CHOOSE n \in FuseFiles : TRUE} |-> [attrs |-> attrs, size |-> 1]],
                  open |-> 0]

FuseFault == fuseFaults < MaxFuseFaults /\ fuseFaults' = fuseFaults + 1
Is(f) == f \in DOMAIN psion.files
Put(f, file) == [psion EXCEPT !.files = [g \in DOMAIN @ \cup {f} |-> IF g = f THEN file ELSE @[g]]]
Without(f) == [psion EXCEPT !.files = [g \in DOMAIN @ \ {f} |-> @[g]]]
DirAttrs == IF system = "sibo" THEN {"dir", "write", "read"} ELSE {"directory"}
FileAttrs == IF system = "sibo" THEN {"write", "mod"} ELSE {"archive"}
IsDir(f) == "dir" \in ToStd(psion.files[f].attrs)

(* A call of RFSV works, and the Psion's state becomes p; or it fails, and *)
(* if that is because the session broke, the handles are gone and the      *)
(* Psion may have done it.                                                 *)
Works(p) == rfsvObject # "null" /\ psion' = p /\ rfsvObject' = "none" /\ UNCHANGED fuseFaults
Refused == rfsvObject # "null" /\ rfsvObject' = "none" /\ UNCHANGED <<psion, fuseFaults>>
Fails(p) ==
    /\ rfsvObject # "null" /\ FuseFault
    /\ \/ rfsvObject' = "none" /\ UNCHANGED psion
       \/ rfsvObject' \in {"none", "disc"} /\ psion' \in {[psion EXCEPT !.open = 0], [p EXCEPT !.open = 0]}
Then(r, at) == request' = [r EXCEPT !.at = at]
Done(r, res) == request' = [r EXCEPT !.at = "done", !.res = res]

(* A request of one call: p is the state it leads to, if it is possible.   *)
OneCall(op, f, possible, p) ==
    LET r == [NoRequest EXCEPT !.op = op, !.name = f]
    IN  /\ request.at = "idle"
        /\ \/ possible /\ Works(p) /\ Done(r, "none")
           \/ ~possible /\ Refused /\ Done(r, "error")
           \/ Fails(p) /\ Done(r, "error")

Mkdir(f) == OneCall("mkdir", f, ~Is(f), Put(f, [attrs |-> DirAttrs, size |-> 0]))
Rmdir(f) == OneCall("rmdir", f, Is(f) /\ IsDir(f), Without(f))
Unlink(f) == OneCall("unlink", f, Is(f) /\ ~IsDir(f), Without(f))
Utimens(f) == OneCall("utimens", f, Is(f), psion)
Getattr(f) == OneCall("getattr", f, Is(f), psion)     \* readdir and dircount too

(* Without an RFSV object every call answers ENODEV; only getattr of the   *)
(* root, or of a drive, tries again to make one.                           *)
NoDevice ==
    /\ request.at = "idle" /\ rfsvObject = "null"
    /\ Done([NoRequest EXCEPT !.op = "any"], "ENODEV")
    /\ UNCHANGED <<rfsvObject, psion, fuseFaults>>

GetattrRoot ==
    LET r == [NoRequest EXCEPT !.op = "root"]
    IN  /\ request.at = "idle" /\ UNCHANGED psion
        /\ \/ rfsvObject # "null" /\ rfsvObject' = "none" /\ Done(r, "none") /\ UNCHANGED fuseFaults
           \/ rfsvObject # "null" /\ FuseFault /\ rfsvObject' \in {"none", "disc"}
              /\ Done(r, IF rfsvObject' = "none" THEN "ENOENT" ELSE "ENOMEDIUM")
           \/ rfsvObject = "null" /\ rfsvObject' = "none" /\ Done(r, "ENOENT") /\ UNCHANGED fuseFaults
           \/ rfsvObject = "null" /\ FuseFault /\ UNCHANGED rfsvObject /\ Done(r, "ENOMEDIUM")

Mknod(f) ==
    LET r == [NoRequest EXCEPT !.op = "mknod", !.name = f]
        p == [Put(f, [attrs |-> FileAttrs, size |-> 0]) EXCEPT !.open = @ + 1]
    IN  /\ request.at = "idle"
        /\ \/ ~Is(f) /\ Works(p) /\ Then(r, "close")
           \/ Is(f) /\ Refused /\ Done(r, "error")
           \/ ~Is(f) /\ Fails(p) /\ Done(r, "error")

(* read, write and truncate: open, which tries a hundred times, seek and   *)
(* transfer, close.  The error of all but open and truncate is -1.         *)
Open(op, f) ==
    LET r == [NoRequest EXCEPT !.op = op, !.name = f]
        p == [psion EXCEPT !.open = @ + 1]
    IN  /\ request.at = "idle"
        /\ \/ /\ Is(f) /\ ~IsDir(f) /\ Works(p)
              /\ \E n \in 0 .. MaxFuseSize : request' = [r EXCEPT !.at = "io", !.arg = n]
           \/ (Is(f) => IsDir(f)) /\ Refused /\ Done(r, "error")
           \/ Fails(p) /\ Done(r, "error")

Resize(f, n) == Put(f, [psion.files[f] EXCEPT !.size = n])
Transfer ==
    LET f == request.name
        size == IF Is(f) THEN psion.files[f].size ELSE 0
        p == CASE request.op = "write" -> Resize(f, IF request.arg > size THEN request.arg ELSE size)
               [] request.op = "truncate" -> Resize(f, request.arg)
               [] OTHER -> psion
    IN  /\ request.at = "io"
        /\ \/ psion.open > 0 /\ Works(p) /\ Then(request, "close")
           \/ psion.open = 0 /\ Refused /\ request' = [request EXCEPT !.at = "close", !.res = "EPERM"]
           \/ psion.open > 0 /\ Fails(p) /\ request' = [request EXCEPT !.at = "close", !.res = "EPERM"]

Close ==
    LET p == [psion EXCEPT !.open = IF @ > 0 THEN @ - 1 ELSE 0]
    IN  /\ request.at = "close" /\ Done(request, request.res)
        /\ Works(p) \/ Fails(p)

(* rename removes what has the new name first, whether or not it works.    *)
RenameRemoves(f, g) ==
    LET r == [NoRequest EXCEPT !.op = "rename", !.name = f, !.to = g]
        p == Without(g)
    IN  /\ request.at = "idle" /\ f # g /\ Then(r, "rename")
        /\ IF Is(g) /\ ~IsDir(g) THEN Works(p) \/ Fails(p) ELSE Refused
Rename ==
    LET f == request.name
        p == [psion EXCEPT !.files = [h \in (DOMAIN @ \ {f}) \cup {request.to} |->
                                        IF h = request.to THEN @[f] ELSE @[h]]]
    IN  /\ request.at = "rename"
        /\ \/ Is(f) /\ ~Is(request.to) /\ Works(p) /\ Done(request, "none")
           \/ (~Is(f) \/ Is(request.to)) /\ Refused /\ Done(request, "error")
           \/ Is(f) /\ ~Is(request.to) /\ Fails(p) /\ Done(request, "error")

(* chmod and setxattr: what the file has, then what differs.  setxattr     *)
(* goes on if it could not be read, with whatever its buffer holds.        *)
Chmod(f, mode) ==
    LET r == [NoRequest EXCEPT !.op = "chmod", !.name = f, !.asked = mode]
        std == ToStd(psion.files[f].attrs)
    IN  /\ request.at = "idle"
        /\ \/ /\ Is(f) /\ Works(psion)
              /\ request' = [r EXCEPT !.at = "set", !.old = Mode(std), !.before = std]
           \/ ~Is(f) /\ Refused /\ Done(r, "error")
           \/ Fails(psion) /\ Done(r, "error")
Setxattr(f, value) ==
    LET r == [NoRequest EXCEPT !.op = "setxattr", !.name = f, !.asked = value, !.at = "set"]
        std == ToStd(psion.files[f].attrs)
    IN  /\ request.at = "idle"
        /\ \/ Is(f) /\ Works(psion) /\ request' = [r EXCEPT !.old = Xattr(std), !.before = std]
           \/ /\ (~Is(f) /\ Refused) \/ Fails(psion)
              /\ \E old \in Values : request' = [r EXCEPT !.old = old, !.blind = TRUE]
SetAttributes ==
    LET f == request.name
        change == IF request.op = "chmod" THEN ModeChange(request.old, request.asked)
                  ELSE XattrChange(request.old, request.asked)
        p == Put(f, [psion.files[f] EXCEPT !.attrs = SetAttr(@, change.set, change.clear)])
    IN  /\ request.at = "set"
        /\ \/ Is(f) /\ Works(p) /\ Done(request, "none")
           \/ ~Is(f) /\ Refused /\ Done(request, "error")
           \/ Is(f) /\ Fails(p) /\ Done(request, "error")

Finish == request.at = "done" /\ request' = NoRequest /\ UNCHANGED <<rfsvObject, psion, fuseFaults>>

(* plpftp's sattr, in another program: what its letters set and clear.     *)
SattrLetter(s, c) ==
    LET add == s.plus
        flag == [h |-> "hidden", s |-> "system", a |-> "archive", w |-> "rdonly"]
        Mark(sets) == IF sets THEN [s EXCEPT !.set = @ \cup {flag[c]}, !.clear = @ \ {flag[c]}]
                    ELSE [s EXCEPT !.set = @ \ {flag[c]}, !.clear = @ \cup {flag[c]}]
    IN  CASE c = "+" -> [s EXCEPT !.plus = TRUE]
          [] c = "-" -> [s EXCEPT !.plus = FALSE]
          [] c = "r" -> s
          [] c = "w" -> Mark(~add)
          [] OTHER -> Mark(add)
Sattr(f, letters) ==
    LET s == FoldLeft(SattrLetter, [plus |-> TRUE, set |-> {}, clear |-> {}], letters)
    IN  /\ Is(f) /\ FuseFault /\ UNCHANGED rfsvObject
        /\ psion' = Put(f, [psion.files[f] EXCEPT !.attrs = SetAttr(@, s.set, s.clear)])
        /\ request' = [request EXCEPT !.blind = @ \/ request.name = f]

FuseNext ==
    /\ UNCHANGED system
    /\ \/ \E f \in FuseFiles :
            \/ Mkdir(f) \/ Rmdir(f) \/ Unlink(f) \/ Utimens(f) \/ Getattr(f) \/ Mknod(f)
            \/ \E op \in {"read", "write", "truncate"} : Open(op, f)
            \/ \E g \in FuseFiles : RenameRemoves(f, g)
            \/ \E mode \in Modes : Chmod(f, mode)
            \/ \E value \in Values : Setxattr(f, value)
            \/ \E letters \in Sattrs : Sattr(f, letters)
       \/ NoDevice \/ GetattrRoot \/ Transfer \/ Close \/ Rename \/ SetAttributes \/ Finish

-----------------------------------------------------------------------------
(* What chmod and setxattr report as done is done, and nothing else: the   *)
(* permission the system has a bit for, and the flags, are as asked, and   *)
(* the attributes not asked about are as they were, through three changes  *)
(* of representation.  Not meant: SIBO's write bit, which fsetattr changes *)
(* on its own; a directory's mode; a file that could not be read, or that  *)
(* another program changed, in between.                                    *)
AttributesAsAsked ==
    request.at = "done" /\ request.res = "none" /\ ~request.blind /\ request.op \in {"chmod", "setxattr"} =>
        LET now == ToStd(psion.files[request.name].attrs)
            free == IF system = "sibo" THEN {"rdonly"} ELSE {}
            bit == IF system = "sibo" THEN "r" ELSE "w"
        IN  IF request.op = "chmod"
            THEN /\ "dir" \in now \/ (bit \in Mode(now) <=> bit \in request.asked)
                 /\ now \ {"read", "rdonly"} = request.before \ {"read", "rdonly"}
            ELSE /\ Xattr(now) = request.asked
                 /\ now \ (Xattrs \cup free) = request.before \ (Xattrs \cup free)
=============================================================================
