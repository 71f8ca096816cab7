----------------------------- MODULE ClientsMC -----------------------------
(***************************************************************************)
(* The instance of the client side for TLC: the library's socket classes,  *)
(* the classes behind the sockets, and the programs that use them.  They   *)
(* are processes and objects of their own, which ncpd serves one by one    *)
(* (module Ncp), so each behaviour picks one of them and leaves the others *)
(* as they start.                                                          *)
(***************************************************************************)
EXTENDS Integers, Sequences, FiniteSets, SequencesExt

VARIABLE program        \* the part that runs

VARIABLES fd, bound, lastError, watching, alive, opened, fds, fdCount
socketsVars == <<fd, bound, lastError, watching, alive, opened, fds, fdCount>>

VARIABLES kind, store, array, op
buffersVars == <<kind, store, array, op>>

VARIABLES wire, unsent, writes, sent, received, body, expected, peers
framingVars == <<wire, unsent, writes, sent, received, body, expected, peers>>

VARIABLES proto, status, server, call, pcFile, faults
rfsvVars == <<proto, status, server, call, pcFile, faults>>

VARIABLES client, rpStatus, cache, line, rpCall, cuts, timesSet
rpcsVars == <<client, rpStatus, cache, line, rpCall, cuts, timesSet>>

VARIABLES toPrint, prSession, prStatus, daemon, trailer, spool, prLast, prFaults
printdVars == <<toPrint, prSession, prStatus, daemon, trailer, spool, prLast, prFaults>>

VARIABLES psionFiles, residuals, installer, known, sisResult, sisLost, sisFaults
sisVars == <<psionFiles, residuals, installer, known, sisResult, sisLost, sisFaults>>

VARIABLE conversion

VARIABLES endpoint, deviceFile, saved, uuids, devFaults
deviceVars == <<endpoint, deviceFile, saved, uuids, devFaults>>

VARIABLES system, rfsvObject, psion, request, fuseFaults
fuseVars == <<system, rfsvObject, psion, request, fuseFaults>>

VARIABLES shell, dirs, localFiles, running, savedList, clip, ftpFaults
ftpVars == <<shell, dirs, localFiles, running, savedList, clip, ftpFaults>>

vars == <<program, socketsVars, buffersVars, framingVars, rfsvVars, rpcsVars, printdVars, sisVars, conversion,
          deviceVars, fuseVars, ftpVars>>

-----------------------------------------------------------------------------
(* Sockets, Buffers, Framing                                               *)

CONSTANTS o1, o2, Objects, LastFd, Strings, MinLen, AllocMin, MaxLen,
          Lengths, HeaderLen, MaxFrame, MaxWrites, Room, MaxMessages

ASSUME SocketsAssumption == LastFd \in Nat
ASSUME BuffersAssumption ==
    /\ MinLen \in Nat \ {0} /\ AllocMin \in Nat /\ MaxLen \in Nat
    /\ \A s \in Strings : s \in Seq(Nat)
ASSUME FramingAssumption ==
    /\ Lengths \subseteq Nat /\ HeaderLen \in Nat \ {0}
    /\ {MaxFrame, MaxWrites, Room, MaxMessages} \subseteq Nat

Sockets == INSTANCE Sockets
Buffers == INSTANCE Buffers
Framing == INSTANCE Framing

ByteStrings == {<<1>>, <<2>>, <<1, 2>>}

-----------------------------------------------------------------------------
(* Rfsv, Rpcs                                                              *)

CONSTANTS Source, SendLen, MaxData16, OnLen, Half, MaxSize, Entries, Drives, Offsets, MaxFaults,
          Machines, DriveLetters, MaxCuts, MaxTimes, MaxWaiting

ASSUME RfsvAssumption ==
    /\ \A s \in Source : s \in Seq(Nat)
    /\ {SendLen, MaxData16, OnLen, Half} \subseteq Nat \ {0} /\ MaxSize \in Nat /\ Offsets \subseteq Int
(* A file on the disk is no longer than the disk allows, and an offset     *)
(* past its end is still a number of 32 bits.                              *)
ASSUME CallsAssumption ==
    /\ \A s \in Source : Len(s) <= MaxSize
    /\ \A pos \in Offsets : MaxSize + pos < Half * Half
    /\ Entries \in Seq(ToSet(Entries))
    /\ IsFiniteSet(DOMAIN Drives) /\ Drives \in [DOMAIN Drives -> {"ready", "notready", "failing"}]

Rfsv == INSTANCE Rfsv
Rpcs == INSTANCE Rpcs

Contents == {<<>>, <<1, 2, 3>>}
Listing == <<"f", "g", "h">>
DriveStates == [A |-> "ready", B |-> "notready", C |-> "ready"]
SeekOffsets == {-1, 0, 2}

-----------------------------------------------------------------------------
(* Printd: a job of one page; one of two pages with fonts on both, the     *)
(* second without text.                                                    *)

CONSTANTS Jobs, PacketLen, FontMap, MaxPrintFaults

Printd == INSTANCE Printd

UseFont(n) == [op |-> "font", arg |-> n]
ClipTo(n) == [op |-> "clip", arg |-> n]
Text == [op |-> "text", arg |-> 0]
EndPage == [op |-> "endpage", arg |-> 0]
TwoJobs == { << <<UseFont("Arial"), ClipTo("a"), Text, EndPage>> >>,
             << <<ClipTo("b"), Text, EndPage>>, <<UseFont("Elite"), EndPage>> >> }
Fonts == [x \in {"Arial"} |-> "Helvetica"]

-----------------------------------------------------------------------------
(* Sis: a library; a program and its next version, which no longer has one *)
(* of its files and brings the library in a newer version; a short file.   *)

CONSTANTS Packages, SisDrives, MaxSisFaults

Sis == INSTANCE Sis

SisRecord(t, d, p, n) == [type |-> t, drive |-> d, path |-> p, details |-> n]
Package(u, v, n, fs) ==
    [uid |-> u, ver |-> v, variant |-> 0, name |-> n, files |-> fs, corrupt |-> FALSE,
     header |-> 1, langs |-> 2, records |-> 3, reqs |-> 3, reqStrings |-> 3, names |-> 4, nameStrings |-> 5,
     len |-> 9]
Library(v) == Package(2, v, "lib", <<SisRecord("file", "!", "lib", 0)>>)
FirstVersion ==
    Package(1, 1, "app", <<SisRecord("file", "C", "old", 0), SisRecord("info", "C", "none", 2),
                           SisRecord("create", "!", "made", 0), SisRecord("file", "!", "a", 0)>>)
SecondVersion ==
    Package(1, 2, "app", <<SisRecord("file", "!", "b", 0), SisRecord("info", "C", "none", 1),
                           [type |-> "sis", drive |-> "C", path |-> "none", details |-> 0, pkg |-> Library(2)],
                           SisRecord("run", "C", "none", 0)>>)
FourPackages == {FirstVersion, SecondVersion, Library(1), [Library(3) EXCEPT !.len = 4]}

-----------------------------------------------------------------------------
(* Conversions: pictures around a whole byte wide; instants around the     *)
(* change of this machine's clock; every path of two components.           *)

CONSTANTS Widths, Heights, Grays, Instants, Zones, Change, Summer, Paths, Bases

Conversions == INSTANCE Conversions

BothZones == [valid : BOOLEAN, offset : {-2, 2}, psiTz : {0, -2}]
Sep == "\\"
Segments == {<<>>, <<"a">>, <<"b">>, <<"..">>} \cup
            {<<x, Sep, y>> : x \in {"a", ".."}, y \in {"..", "b"}}
Rooted(ds, ss) == {d \o r \o s : d \in ds, r \in {<<>>, <<Sep>>}, s \in ss}
SomePaths == Rooted({<<>>, <<"C:">>, <<"D:">>}, Segments \cup {Append(s, Sep) : s \in Segments})
SomeBases == Rooted({<<>>, <<"C:">>}, {<<>>, <<"a">>, <<"a", Sep, "b">>, <<"a", Sep>>})

-----------------------------------------------------------------------------
(* Device, Fuse, Ftp                                                       *)

CONSTANTS Hosts, Names, Ids, MaxDevFaults,
          FuseFiles, Sattrs, Modes, Values, MaxFuseSize, MaxFuseFaults,
          Remote, Local, Programs, HomeOf, DriveSeq, Texts, MaxFtpFaults

ASSUME FuseAssumption == \A v \in Values : v \subseteq {"hidden", "system", "archive"}
ASSUME FtpAssumption ==
    /\ IsFiniteSet(Remote) /\ IsFiniteSet(Local) /\ IsFiniteSet(Programs)
    /\ \A p \in Programs : p = [prog |-> p.prog, arg |-> p.arg]

Device == INSTANCE Device WITH Programs <- Hosts
Fuse == INSTANCE Fuse
Ftp == INSTANCE Ftp

SomeNames == {<<>>, <<"v">>, <<" ", "v">>, <<"v", " ", "v">>, <<"name", " ", " ">>, <<"=", "v">>}
ThreeIds == << <<"u1">>, <<"id", "u2">>, <<"u3">> >>
SattrLetters == {<<"+", "h", "-", "w">>, <<"-", "h", "s", "+", "r", "a">>}
SomeModes == {{"r"}, {"r", "w"}}
SomeFlags == {{"hidden"}, {"archive"}}
TwoPrograms == {[prog |-> "Word", arg |-> "document"], [prog |-> "Macro5", arg |-> "x"]}
Homes == [p \in {"Word", "Macro5"} |-> IF p = "Word" THEN "path" ELSE "D"]
TwoDrives == <<"C", "D">>
TwoTexts == { <<"v", "dash", "nul">>, <<"newline", "formfeed", "7">> }

-----------------------------------------------------------------------------
(* plpftp's three groups of commands share nothing but the shell's state   *)
(* and are explored one at a time.                                         *)
FtpParts == {"plpftp files", "plpftp programs", "plpftp clipboard"}
Parts == {"sockets", "buffers", "framing", "rfsv", "rpcs", "plpprintd", "sisinstall", "conversions", "device",
          "plpfuse"} \cup FtpParts
Only(part, start) == program # part => start

Init ==
    /\ program \in Parts
    /\ Sockets!SocketsInit /\ Framing!FramingInit /\ Rpcs!RpcsInit /\ Printd!PrintdInit /\ Sis!SisInit
    /\ Conversions!ConversionsInit /\ Device!DeviceInit
    /\ Buffers!BuffersInit /\ Only("buffers", kind = "store")
    /\ Rfsv!RfsvInit /\ Only("rfsv", proto = "32" /\ pcFile = <<>> /\ server.files = [from |-> <<>>])
    /\ Fuse!FuseInit
    /\ Only("plpfuse", /\ system = "epoc" /\ rfsvObject = "null"
                       /\ \A f \in DOMAIN psion.files : psion.files[f].attrs = {"normal"})
    /\ Ftp!FtpInit
    /\ Only("plpftp files", localFiles = {} /\ dirs["home"] = {}) /\ Only("plpftp programs", running = {})

OthersKeep ==
    /\ UNCHANGED program
    /\ IF program = "sockets" THEN TRUE ELSE UNCHANGED socketsVars
    /\ IF program = "buffers" THEN TRUE ELSE UNCHANGED buffersVars
    /\ IF program = "framing" THEN TRUE ELSE UNCHANGED framingVars
    /\ IF program = "rfsv" THEN TRUE ELSE UNCHANGED rfsvVars
    /\ IF program = "rpcs" THEN TRUE ELSE UNCHANGED rpcsVars
    /\ IF program = "plpprintd" THEN TRUE ELSE UNCHANGED printdVars
    /\ IF program = "sisinstall" THEN TRUE ELSE UNCHANGED sisVars
    /\ IF program = "conversions" THEN TRUE ELSE UNCHANGED conversion
    /\ IF program = "device" THEN TRUE ELSE UNCHANGED deviceVars
    /\ IF program = "plpfuse" THEN TRUE ELSE UNCHANGED fuseVars
    /\ IF program \in FtpParts THEN TRUE ELSE UNCHANGED ftpVars

FramingTurn(A) == program = "framing" /\ A /\ OthersKeep
PrintdTurn(A) == program = "plpprintd" /\ A /\ OthersKeep

Next ==
    \/ program = "sockets" /\ Sockets!SocketsNext /\ OthersKeep
    \/ program = "buffers" /\ Buffers!BuffersNext /\ OthersKeep
    \/ program = "framing" /\ Framing!FramingNext /\ OthersKeep
    \/ program = "rfsv" /\ Rfsv!RfsvNext /\ OthersKeep
    \/ program = "rpcs" /\ Rpcs!RpcsNext /\ OthersKeep
    \/ program = "plpprintd" /\ Printd!PrintdNext /\ OthersKeep
    \/ program = "sisinstall" /\ Sis!SisNext /\ OthersKeep
    \/ program = "conversions" /\ Conversions!ConversionsNext /\ OthersKeep
    \/ program = "device" /\ Device!DeviceNext /\ OthersKeep
    \/ program = "plpfuse" /\ Fuse!FuseNext /\ OthersKeep
    \/ program \in FtpParts /\ Ftp!ShellStep /\ OthersKeep
    \/ program = "plpftp files" /\ Ftp!FileCommands /\ OthersKeep
    \/ program = "plpftp programs" /\ Ftp!ProgramCommands /\ OthersKeep
    \/ program = "plpftp clipboard" /\ Ftp!ClipboardCommands /\ OthersKeep

(* write and read return, so a sender and a receiver each go on (Framing); *)
(* plpprintd's loop calls initPrinter and getData for ever (Printd).       *)
Fairness ==
    /\ WF_vars(FramingTurn(Framing!FramingStep)) /\ WF_vars(FramingTurn(Framing!WriteFails))
    /\ WF_vars(FramingTurn(Framing!GetBufferStore))
    /\ WF_vars(PrintdTurn(Printd!InitPrinter)) /\ WF_vars(PrintdTurn(Printd!GetNothing \/ Printd!GetReconnects))

Spec == Init /\ [][Next]_vars /\ Fairness

-----------------------------------------------------------------------------
(* The properties, each of which its module states and explains.           *)

WatchesOpenSockets == Sockets!WatchesOpenSockets
KeepsPromise == Buffers!KeepsPromise
ReceivedAsSent == Framing!ReceivedAsSent
SettledOrReported == Framing!SettledOrReported
CopiesWhole == Rfsv!CopiesWhole
NothingLeftOpen == Rfsv!NothingLeftOpen
ListsAll == Rfsv!ListsAll
SeeksLikeUnix == Rfsv!SeeksLikeUnix
AnswersMatch == Rpcs!AnswersMatch
CacheOfMachine == Rpcs!CacheOfMachine
JobsPrintedWhole == Printd!JobsPrintedWhole
PrinterServes == Printd!PrinterServes
NothingOrphaned == Sis!NothingOrphaned
UpgradesClean == Sis!UpgradesClean
ConversionsAgree == Conversions!ConversionsAgree
NameSurvives == Device!NameSurvives
AttributesAsAsked == Fuse!AttributesAsAsked
DoneAsReported == Ftp!DoneAsReported
=============================================================================
