--------------------------------- MODULE Sis --------------------------------
(***************************************************************************)
(* sisinstall: the installer of SIS packages (sisinstall/sisinstaller.cpp  *)
(* and the parser in lib/sis*.cpp).  What was installed before is known    *)
(* only from residual packages: copies of the packages, cut after their    *)
(* tables, with the number of installed files and the drive patched in,    *)
(* which the installer leaves on the Psion and reads again the next time.  *)
(*                                                                         *)
(* A package is its header and file records; its tables are given by where *)
(* they end, and where the names they point to end.  A file on the Psion   *)
(* is where it is and what put it there.                                   *)
(***************************************************************************)
EXTENDS Integers, Sequences, FiniteSets, FiniteSetsExt, Functions, SequencesExt

CONSTANTS
    Packages,       \* the packages a user has
    SisDrives,      \* the drives selectDrive finds
    MaxSisFaults    \* bound: failing copies, an unreadable directory, interrupts

VARIABLES
    psionFiles,     \* the files on the Psion's disks
    residuals,      \* C:\System\Install: a package by component name
    installer,      \* the installers that run, the innermost last
    known,          \* m_installed, as the outermost installer has it
    sisResult,      \* what the last installation ended with, and of which package
    sisLost,        \* a residual was not written or not read
    sisFaults

sisVars == <<psionFiles, residuals, installer, known, sisResult, sisLost, sisFaults>>

SisInit ==
    /\ psionFiles = {} /\ residuals = <<>> /\ installer = <<>> /\ known = <<>>
    /\ sisResult = [rc |-> "none", uid |-> 0, ver |-> 0] /\ sisLost = FALSE /\ sisFaults = 0

SisFault == sisFaults < MaxSisFaults /\ sisFaults' = sisFaults + 1

-----------------------------------------------------------------------------
(* The parser.                                                             *)

(* SISFileHeader::compareApp, of an installed package and a new one.       *)
CompareApp(old, new) ==
    IF old.uid # new.uid THEN "different"
    ELSE IF old.ver < new.ver THEN "earlier"
    ELSE IF old.ver = new.ver /\ old.variant # new.variant THEN "variant"
    ELSE "sameOrLater"

(* SISFile::fillFrom: header, languages, requisites, names, file records;  *)
(* each table has to be within the file, and for requisites and component  *)
(* names the strings too.  Where a file's data is, is not looked at.       *)
FillFrom(p, len) ==
    IF p.corrupt THEN "corrupted"
    ELSE IF len < p.header \/ len < p.langs \/ len < p.reqs \/ len < p.names
            \/ len < p.nameStrings \/ len < p.records THEN "truncated"
    ELSE IF len < p.reqStrings THEN "corrupted"
    ELSE "ok"

(* getResidualEnd: what updateEnd has seen when the package was parsed.    *)
ResidualEndOfTables(p) == Max({p.langs, p.reqs, p.names, p.records})  \* variant: only the tables count
ResidualEnd(p) == Max({p.langs, p.reqs, p.names, p.nameStrings, p.records})

-----------------------------------------------------------------------------
(* Files.  A destination on drive "!" is on the drive that was selected.   *)

Dest(rec, drive) == [drive |-> IF rec.drive = "!" THEN drive ELSE rec.drive, path |-> rec.path]
At(f) == [drive |-> f.drive, path |-> f.path]
WithFile(files, d, p, type) ==
    {f \in files : At(f) # d}
      \cup {[drive |-> d.drive, path |-> d.path, uid |-> p.uid, ver |-> p.ver, type |-> type]}

(* uninstall: the last records of the package, as many as were installed;  *)
(* packages within the package are left.                                   *)
UninstalledFromStart(r) ==      \* variant: in the order of installation
    {Dest(r.pkg.files[i], r.drive) :
       i \in {k \in DOMAIN r.pkg.files : k <= r.count /\ r.pkg.files[k].type \in {"file", "create"}}}
Uninstalled(r) ==
    {Dest(r.pkg.files[i], r.drive) :
       i \in {k \in DOMAIN r.pkg.files :
                k > Len(r.pkg.files) - r.count /\ r.pkg.files[k].type \in {"file", "create"}}}

-----------------------------------------------------------------------------
Frame(p, drive) ==
    [pkg |-> p, phase |-> "old", n |-> Len(p.files), drive |-> drive, header |-> "none", copied |-> 0,
     skip |-> FALSE, aborted |-> FALSE]
Top == Last(installer)
WithTop(f) == [installer EXCEPT ![Len(installer)] = f]

(* loadInstalled puts each residual it can parse before the others; the    *)
(* same for the innermost installer, which loads again if there were none. *)
Loads ==
    LET readable == {n \in DOMAIN residuals : FillFrom(residuals[n].pkg, residuals[n].len) = "ok"}
    IN  {[i \in DOMAIN s |-> residuals[s[i]]] : s \in SetToSeqs(readable)}

Run ==
    /\ installer = <<>>
    /\ \E p \in Packages :
         IF FillFrom(p, p.len) = "ok" THEN installer' = <<Frame(p, "none")>>
         ELSE UNCHANGED installer
    /\ \/ known' \in Loads /\ UNCHANGED <<sisFaults, sisLost>>
       \/ known' = <<>> /\ SisFault /\ sisLost' = TRUE      \* dir, or a copy, fails
    /\ UNCHANGED <<psionFiles, residuals, sisResult>>

(* The previous version is the last one of the list that is of this        *)
(* application; it is removed whether it is earlier or later.              *)
RemoveOld ==
    /\ installer # <<>> /\ Top.phase = "old"
    /\ LET old == SelectSeq(known, LAMBDA r : CompareApp(r.pkg, Top.pkg) # "different")
       IN  psionFiles' = IF old = <<>> THEN psionFiles
                         ELSE {f \in psionFiles : At(f) \notin Uninstalled(Last(old))}
    /\ installer' = WithTop([Top EXCEPT !.phase = "install"])
    /\ UNCHANGED <<residuals, known, sisResult, sisLost, sisFaults>>

(* The records are done from the last to the first.                        *)
Installing == installer # <<>> /\ Top.phase = "install" /\ Top.n > 0 /\ ~Top.aborted
Record == Top.pkg.files[Top.n]
Counted(f) == [f EXCEPT !.n = @ - 1, !.copied = @ + 1]

SkipNext ==
    /\ Installing /\ Top.skip
    /\ installer' = WithTop(Counted([Top EXCEPT !.skip = FALSE]))
    /\ UNCHANGED <<psionFiles, residuals, known, sisResult, sisLost, sisFaults>>

(* copyFile selects the drive when a file needs it (selectDrive takes the  *)
(* only one, asks when there are more, and takes C when there is none).    *)
(* A copy that fails is reported and counts as copied.                     *)
Selectable == IF SisDrives = {} THEN {"C"} ELSE SisDrives
CopyFile ==
    /\ Installing /\ ~Top.skip /\ Record.type = "file"
    /\ \E d \in IF Record.drive = "!" /\ Top.drive = "none" THEN Selectable ELSE {Top.drive} :
         /\ installer' = WithTop(Counted([Top EXCEPT !.drive = d,
                                            !.header = IF Record.drive = "!" THEN d ELSE @]))
         /\ \/ /\ psionFiles' = WithFile(psionFiles, Dest(Record, d), Top.pkg, "file")
               /\ UNCHANGED sisFaults
            \/ UNCHANGED psionFiles /\ SisFault
    /\ UNCHANGED <<residuals, known, sisResult, sisLost>>

(* A text is shown; the user may skip the next file, or stop.              *)
ShowText ==
    /\ Installing /\ ~Top.skip /\ Record.type = "info"
    /\ \/ installer' = WithTop(Counted(Top))
       \/ Record.details = 1 /\ installer' = WithTop(Counted([Top EXCEPT !.skip = TRUE]))
       \/ Record.details = 2 /\ installer' = WithTop([Top EXCEPT !.n = @ - 1, !.aborted = TRUE])
    /\ UNCHANGED <<psionFiles, residuals, known, sisResult, sisLost, sisFaults>>

(* A package within the package: an installer of its own, which starts     *)
(* with the drive in this package's header.                                *)
InstallContained ==
    /\ Installing /\ ~Top.skip /\ Record.type = "sis"
    /\ IF FillFrom(Record.pkg, Record.pkg.len) = "ok"
       THEN /\ installer' = Append(installer, Frame(Record.pkg, Top.header))
            /\ IF known = <<>> THEN known' \in Loads ELSE UNCHANGED known
       ELSE installer' = WithTop(Counted(Top)) /\ UNCHANGED known
    /\ UNCHANGED <<psionFiles, residuals, sisResult, sisLost, sisFaults>>

(* Files to be run, or that the application will make.                     *)
NothingToCopy ==
    /\ Installing /\ ~Top.skip /\ Record.type \in {"run", "create"}
    /\ installer' = WithTop(Counted(Top))
    /\ UNCHANGED <<psionFiles, residuals, known, sisResult, sisLost, sisFaults>>

(* The residual is written unless nothing was installed; installFile goes  *)
(* on with the drive of the package within.                                *)
Leave(rc) ==
    IF Len(installer) = 1
    THEN /\ installer' = <<>> /\ known' = <<>>
         /\ sisResult' = [rc |-> rc, uid |-> Top.pkg.uid, ver |-> Top.pkg.ver]
    ELSE LET outer == installer[Len(installer) - 1]
             up == IF outer.drive = "none" THEN [outer EXCEPT !.drive = Top.header, !.header = Top.header]
                   ELSE outer
         IN  /\ installer' = Append(SubSeq(installer, 1, Len(installer) - 2), Counted(up))
             /\ UNCHANGED <<known, sisResult>>

Residual(f) == [pkg |-> f.pkg, count |-> f.copied, drive |-> f.header, len |-> ResidualEnd(f.pkg)]

WriteResidual ==
    /\ installer # <<>> /\ Top.phase = "install" /\ (Top.n = 0 \/ Top.aborted)
    /\ IF Top.copied = 0
       THEN UNCHANGED <<residuals, sisLost, sisFaults>>
       ELSE \/ /\ residuals' = (Top.pkg.name :> Residual(Top)) @@ residuals
               /\ UNCHANGED <<sisLost, sisFaults>>
            \/ SisFault /\ sisLost' = TRUE /\ UNCHANGED residuals
    /\ Leave(IF Top.copied = 0 \/ Top.aborted THEN "aborted" ELSE "ok")
    /\ UNCHANGED psionFiles

(* The user interrupts sisinstall: the whole process ends.                 *)
Interrupt ==
    /\ installer # <<>> /\ SisFault
    /\ installer' = <<>> /\ known' = <<>> /\ sisLost' = TRUE
    /\ UNCHANGED <<psionFiles, residuals, sisResult>>

(* The application runs and makes its own files.                           *)
RunApplication ==
    /\ installer = <<>>
    /\ \E n \in DOMAIN residuals : \E i \in DOMAIN residuals[n].pkg.files :
         LET r == residuals[n]
         IN  /\ r.pkg.files[i].type = "create" /\ i > Len(r.pkg.files) - r.count
             /\ psionFiles' = WithFile(psionFiles, Dest(r.pkg.files[i], r.drive), r.pkg, "created")
    /\ UNCHANGED <<residuals, installer, known, sisResult, sisLost, sisFaults>>

SisNext ==
    \/ Run \/ RemoveOld \/ SkipNext \/ CopyFile \/ ShowText \/ InstallContained \/ NothingToCopy
    \/ WriteResidual \/ Interrupt \/ RunApplication

-----------------------------------------------------------------------------
(* Whatever was installed, in whatever order and however often it was      *)
(* broken off by the user's answers or by copies that failed, what is on   *)
(* the Psion can be removed again: some residual lists it, on the drive it *)
(* is on (setFiles, setDrive, setMainDrive, uninstall).                    *)
NothingOrphaned ==
    installer = <<>> /\ ~sisLost =>
      \A f \in psionFiles : \E n \in DOMAIN residuals : At(f) \in Uninstalled(residuals[n])

(* After an installation that succeeded no file of another version of the  *)
(* application is left, since its residual could be found and parsed       *)
(* (loadInstalled, getResidualEnd, compareApp).                            *)
UpgradesClean ==
    installer = <<>> /\ ~sisLost /\ sisResult.rc = "ok" =>
      \A f \in psionFiles : f.uid = sisResult.uid => f.ver = sisResult.ver
=============================================================================
