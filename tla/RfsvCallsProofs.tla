-------------------------- MODULE RfsvCallsProofs --------------------------
(***************************************************************************)
(* Proofs that a listing of RFSV that reports success is complete and that *)
(* fseek does what lseek does (module Rfsv).                               *)
(*                                                                         *)
(* CallsInv says how far a call is.  A listing has the front of what there *)
(* is to list, up to the place its handle is at (ListsDirs, ListsDrives);  *)
(* each drive that was looked at is in the list if it is ready.  A seek    *)
(* remembers where it began and what it was asked for, and what it has     *)
(* found follows from these (Meets), though it may take a command to find  *)
(* the position or the end, one to seek, one to lengthen the file and one  *)
(* to seek again, and RFSV16 may seek by a number that is not its handle.  *)
(* Own says what the handle of the call is of: if the session has broken,  *)
(* the handle is gone or the call is told so.  The file fits on the disk   *)
(* (Short), so that the sums that fseek computes stay within 32 bits.      *)
(***************************************************************************)
EXTENDS RfsvProofs, FiniteSetTheorems

-----------------------------------------------------------------------------
(* Sequences of any set of values.                                         *)

LEMMA FrontOf ==
    ASSUME NEW S, NEW f \in Seq(S), NEW i \in Nat, NEW j \in Nat, i <= j, j <= Len(f)
    PROVE  /\ Part(f, i, j) \in Seq(S) /\ UpTo(f, i) \in Seq(S) /\ Len(UpTo(f, i)) = i
           /\ UpTo(f, i) ++ Part(f, i, j) = UpTo(f, j)
<1>1. Len(f) \in Nat /\ \A k \in 1 .. Len(f) : f[k] \in S
  OBVIOUS
<1>2. Part(f, i, j) \in Seq(S)
  <2>1. i + 1 \in Int /\ j \in Int /\ \A k \in i + 1 .. j : f[k] \in S
    BY <1>1
  <2>2. SubSeq(f, i + 1, j) \in Seq(S)
    BY <2>1, SubSeqProperties
  <2> QED
    BY <2>2 DEF Part
<1>3. UpTo(f, i) \in Seq(S) /\ Len(UpTo(f, i)) = i
  <2>1. 1 \in Int /\ i \in Int /\ \A k \in 1 .. i : f[k] \in S
    BY <1>1
  <2>2. SubSeq(f, 1, i) \in Seq(S) /\ Len(SubSeq(f, 1, i)) = IF 1 <= i THEN i - 1 + 1 ELSE 0
    BY <2>1, SubSeqProperties
  <2> QED
    BY <2>2 DEF UpTo, Part
<1>4. UpTo(f, i) ++ Part(f, i, j) = UpTo(f, j)
  <2>1. 1 \in 1 .. Len(f) + 1 /\ i \in 1 - 1 .. Len(f) /\ j \in i .. Len(f)
    BY <1>1
  <2>2. SubSeq(f, 1, i) \o SubSeq(f, i + 1, j) = SubSeq(f, 1, j)
    BY <2>1, ConcatAdjacentSubSeq
  <2>3. 0 + 1 = 1
    OBVIOUS
  <2> QED
    BY <2>2, <2>3 DEF UpTo, Part, ++
<1> QED
  BY <1>2, <1>3, <1>4

LEMMA FrontEnds ==
    ASSUME NEW S, NEW f \in Seq(S)
    PROVE  UpTo(f, Len(f)) = f /\ UpTo(f, 0) = <<>>
<1>1. SubSeq(f, 1, Len(f)) = f
  BY SubSeqFull
<1>2. SubSeq(f, 1, 0) = <<>>
  BY SubSeqEmpty
<1> QED
  BY <1>1, <1>2 DEF UpTo, Part

(* The drives in some order: each of them, and nothing else.               *)
DriveNames == DOMAIN Drives
DriveList == SetToSeq(DriveNames)

LEMMA DriveListIs ==
    /\ DriveList = Rfsv!SetToSeq(DriveNames)
    /\ DriveList \in Seq(DriveNames) /\ Len(DriveList) \in Nat
    /\ \A n \in DriveNames : \E i \in 1 .. Len(DriveList) : DriveList[i] = n
<1>1. PICK c \in Nat : c = Cardinality(DriveNames)
  BY CallsAssumption, FS_CardinalityType DEF DriveNames
<1>2. \E f \in [1 .. c -> DriveNames] : \A i, j \in 1 .. c : f[i] = f[j] => i = j
  <2>1. ExistsBijection(1 .. c, DriveNames)
    BY <1>1, CallsAssumption, FS_CardinalityType DEF DriveNames
  <2>2. PICK f : f \in Bijection(1 .. c, DriveNames)
    BY <2>1 DEF ExistsBijection
  <2> QED
    BY <2>2 DEF Bijection, Injection, IsInjective
<1>3. \E f \in [1 .. c -> DriveNames] : \A i, j \in DOMAIN f : f[i] = f[j] => i = j
  BY <1>2
<1>4. DriveList = CHOOSE f \in [1 .. c -> DriveNames] : \A i, j \in DOMAIN f : f[i] = f[j] => i = j
  BY <1>1, Zenon DEF DriveList, SetToSeq, IsInjective
<1>5. DriveList \in [1 .. c -> DriveNames] /\ \A i, j \in DOMAIN DriveList : DriveList[i] = DriveList[j] => i = j
  BY <1>3, <1>4, Zenon
<1>6. DriveList \in Seq(DriveNames) /\ Len(DriveList) = c
  BY <1>5, SeqDef
<1>7. DriveList = Rfsv!SetToSeq(DriveNames)
  BY DEF DriveList, SetToSeq, Rfsv!SetToSeq, IsInjective, Rfsv!IsInjective, Cardinality, Rfsv!Cardinality
<1>8. DriveList \in Surjection(1 .. c, DriveNames)
  <2>1. DriveList \in Injection(1 .. c, DriveNames)
    BY <1>5 DEF Injection, IsInjective
  <2>2. Cardinality(1 .. c) = c
    BY FS_Interval
  <2> QED
    BY <1>1, <2>1, <2>2, CallsAssumption, FS_Injection DEF DriveNames
<1>9. \A n \in DriveNames : \E i \in 1 .. c : DriveList[i] = n
  BY <1>8 DEF Surjection
<1> QED
  BY <1>6, <1>7, <1>9

-----------------------------------------------------------------------------
(* Outcomes that the client can tell from the answer.                      *)

LEMMA OpenDirOutcome ==
    ASSUME ServerShape(server), status \in {"none", "disc"},
           NEW c, c[1] = "open", c[2] = "dir", NEW o, Outcome(c, o)
    PROVE  o.res # "eof" /\ (o.res = "none" => Named(o.server, o.data, c[3], 0))
<1>1. Command(c)
  BY DEF Command
<1>2. PICK s : ServerShape(s) /\ (Replied(s, c, o) \/ Failed(s, c, o) \/ LostAt(s, c, o))
  BY <1>1, OutcomeIs
<1>3. CASE ~ Replied(s, c, o)
  BY <1>2, <1>3 DEF Failed, LostAt
<1>4. CASE Replied(s, c, o)
  <2>1. PICK e \in Rfsv!Execute(s, c) : o.server = e.server /\ o.res = e.res /\ o.data = e.data
    BY <1>4 DEF Replied
  <2>2. PICK h \in {1, 2} \ DOMAIN s.handles :
             e = [server |-> [s EXCEPT !.handles = Rfsv!Set(@, h, [name |-> c[3], pos |-> 0])],
                  res |-> "none", data |-> h]
    BY <2>1 DEF Rfsv!Execute, Rfsv!Reply, Rfsv!Handles
  <2>3. PICK t : t = [s EXCEPT !.handles = Rfsv!Set(@, h, [name |-> c[3], pos |-> 0])]
    OBVIOUS
  <2>4. DOMAIN t.handles = DOMAIN s.handles \cup {h} /\ t.handles = Rfsv!Set(s.handles, h, [name |-> c[3], pos |-> 0])
    BY <1>2, <2>3, OpenedDir
  <2>5. t.handles[h] = [name |-> c[3], pos |-> 0]
    BY <2>4 DEF Rfsv!Set
  <2>6. Named(t, h, c[3], 0)
    BY <2>4, <2>5 DEF Named
  <2>7. o.res = "none" /\ o.server = t /\ o.data = h
    BY <2>1, <2>2, <2>3
  <2> QED
    BY <2>6, <2>7
<1> QED
  BY <1>3, <1>4

LEMMA HandleSaid ==
    ASSUME ServerShape(server), status \in {"none", "disc"}, NEW c, c[1] \in OnHandles,
           NEW o, Outcome(c, o), o.res \notin {"disc", "general", "handle"}
    PROVE  /\ status = "none" /\ o.status = "none"
           /\ \A h : c[2] = h =>
                /\ h \in DOMAIN server.handles
                /\ \E e \in Rfsv!OnHandle(server, h, c) : o.server = e.server /\ o.res = e.res /\ o.data = e.data
<1>1. /\ c[2] \in DOMAIN server.handles /\ status = "none" /\ o.status = "none" /\ o.renewed = FALSE
      /\ \E e \in Rfsv!OnHandle(server, c[2], c) : o.server = e.server /\ o.res = e.res /\ o.data = e.data
  BY HandleOutcome
<1> QED
  BY <1>1, Zenon

Directory(n) == IF n = "drives" THEN Rfsv!SetToSeq(DriveNames) ELSE Entries

LEMMA ReadDirOutcome ==
    ASSUME ServerShape(server), status \in {"none", "disc"}, NEW h, NEW c, c = <<"readdir", h>>,
           NEW o, Outcome(c, o), o.res \in {"none", "eof"},
           NEW n, NEW S, NEW all \in Seq(S), all = Directory(n),
           NEW p \in 0 .. Len(all), status = "none" /\ h \in DOMAIN server.handles => Named(server, h, n, p)
    PROVE  /\ o.res = "eof" => p = Len(all)
           /\ o.res = "none" => /\ o.data \in Seq(S)
                                /\ \E e \in 0 .. Len(all) : /\ UpTo(all, p) ++ o.data = UpTo(all, e)
                                                            /\ Named(o.server, h, n, e)
<1>1. c[1] \in OnHandles /\ c[2] = h /\ o.res \notin {"disc", "general", "handle"}
  BY DEF OnHandles
<1>2. h \in DOMAIN server.handles /\ status = "none"
      /\ \E e \in Rfsv!OnHandle(server, h, c) : o.server = e.server /\ o.res = e.res /\ o.data = e.data
  BY <1>1, HandleSaid
<1>3. PICK e \in Rfsv!OnHandle(server, h, c) : o.server = e.server /\ o.res = e.res /\ o.data = e.data
  BY <1>2
<1>4. Named(server, h, n, p) /\ server.handles[h].name = n /\ server.handles[h].pos = p
  BY <1>2 DEF Named
<1>5. Directory(n) = IF server.handles[h].name = "drives" THEN Rfsv!SetToSeq(DOMAIN Drives) ELSE Entries
  BY <1>4 DEF Directory, DriveNames
<1>6. IF p = Len(all) THEN e \in {Rfsv!Reply(server, "eof", Rfsv!None)}
      ELSE e \in {Rfsv!Reply(Rfsv!MovedTo(server, h, z), "none", SubSeq(all, p + 1, z)) : z \in p + 1 .. Len(all)}
  BY <1>3, <1>4, <1>5 DEF Rfsv!OnHandle
<1>7. CASE p = Len(all)
  <2>1. o.res = "eof"
    BY <1>3, <1>6, <1>7 DEF Rfsv!Reply
  <2> QED
    BY <1>7, <2>1
<1>8. CASE p # Len(all)
  <2>1. PICK z \in p + 1 .. Len(all) : e = Rfsv!Reply(Rfsv!MovedTo(server, h, z), "none", SubSeq(all, p + 1, z))
    BY <1>6, <1>8
  <2>2. PICK t : t = Rfsv!MovedTo(server, h, z)
    OBVIOUS
  <2>3. o.server = t /\ o.res = "none" /\ o.data = Part(all, p, z)
    BY <1>3, <2>1, <2>2 DEF Rfsv!Reply, Part
  <2>4. Named(t, h, n, z)
    BY <1>4, <2>2, MovedIs
  <2>5. Len(all) \in Nat /\ p \in Nat /\ z \in Nat /\ p <= z /\ z <= Len(all)
    OBVIOUS
  <2>6. UpTo(all, p) ++ Part(all, p, z) = UpTo(all, z) /\ Part(all, p, z) \in Seq(S)
    BY <2>5, FrontOf
  <2> QED
    BY <2>3, <2>4, <2>5, <2>6
<1> QED
  BY <1>7, <1>8

-----------------------------------------------------------------------------
(* What fseek's commands find and leave, when they succeed.                *)

Original(s) == s.files["from"]

LEMMA SeekFound ==
    ASSUME ServerShape(server), server.files \in FileSets, status \in {"none", "disc"},
           NEW h, NEW pos \in Int, NEW mode, NEW c, c = <<"seek", h, pos, mode>>,
           NEW o, Outcome(c, o), o.res = "none",
           NEW p \in Int, status = "none" /\ h \in DOMAIN server.handles => Named(server, h, "from", p)
    PROVE  LET q == Rfsv!SeekTo(From, p, pos, mode)
           IN  q >= 0 /\ o.data = Rfsv!Clamp(q, Len(From)) /\ Named(o.server, h, "from", o.data)
<1>1. c[1] \in OnHandles /\ c[2] = h /\ o.res \notin {"disc", "general", "handle"}
  BY DEF OnHandles
<1>2. h \in DOMAIN server.handles /\ status = "none"
      /\ \E e \in Rfsv!OnHandle(server, h, c) : o.server = e.server /\ o.res = e.res /\ o.data = e.data
  BY <1>1, HandleSaid
<1>3. PICK e \in Rfsv!OnHandle(server, h, c) : o.server = e.server /\ o.res = e.res /\ o.data = e.data
  BY <1>2
<1>4. Named(server, h, "from", p) /\ server.handles[h].name = "from" /\ server.handles[h].pos = p
  BY <1>2 DEF Named
<1>5. PICK f \in Blocks : f = From
  BY FilesAre DEF From
<1>6. Len(f) \in Nat /\ "from" \in DOMAIN server.files
  BY <1>5, FilesAre, BlocksLen
<1>7. PICK q : q = Rfsv!SeekTo(f, p, pos, mode)
  OBVIOUS
<1>8. q \in Int
  BY <1>6, <1>7 DEF Rfsv!SeekTo
<1>9. \/ q < 0 /\ e = Rfsv!Reply(server, "arg", Rfsv!None)
      \/ q >= 0 /\ e = Rfsv!Reply(Rfsv!Store(server, h, f, Rfsv!Clamp(q, Len(f))), "none", Rfsv!Clamp(q, Len(f)))
  BY <1>3, <1>4, <1>5, <1>6, <1>7, <1>8 DEF Rfsv!OnHandle, Rfsv!Has, From
<1>10. PICK r, t : r = Rfsv!Clamp(q, Len(f)) /\ t = Rfsv!Store(server, h, f, r)
  OBVIOUS
<1>11. q >= 0 /\ o.server = t /\ o.data = r
  BY <1>3, <1>9, <1>10 DEF Rfsv!Reply
<1>12. Named(t, h, "from", r)
  BY <1>4, <1>10, StoreIs
<1> QED
  BY <1>5, <1>7, <1>10, <1>11, <1>12

(* A seek by any handle, RFSV16's mistaken one too, leaves each its file.  *)
LEMMA SeekKeepsName ==
    ASSUME ServerShape(server), server.files \in FileSets, status \in {"none", "disc"}, Positioned(server),
           NEW c, c[1] = "seek", NEW o, Outcome(c, o), o.res = "none",
           NEW h, NEW n, NEW p, Named(server, h, n, p)
    PROVE  \E q : Named(o.server, h, n, q)
<1>1. c[1] \in OnHandles /\ o.res \notin {"disc", "general", "handle"}
  BY DEF OnHandles
<1>2. PICK y : y = c[2]
  OBVIOUS
<1>3. y \in DOMAIN server.handles
      /\ \E e \in Rfsv!OnHandle(server, y, c) : o.server = e.server /\ o.res = e.res /\ o.data = e.data
  BY <1>1, <1>2, HandleSaid
<1>4. PICK e \in Rfsv!OnHandle(server, y, c) : o.server = e.server /\ o.res = e.res /\ o.data = e.data
  BY <1>3
<1>5. PICK f \in Blocks : f = FileOf(server, y)
  BY FileOfIs
<1>6. e.server = server \/ \E z : e.server = Rfsv!Store(server, y, f, z)
  BY <1>4, <1>5 DEF Rfsv!OnHandle, Rfsv!Reply, FileOf
<1>7. CASE e.server = server
  BY <1>4, <1>7
<1>8. ASSUME NEW z, e.server = Rfsv!Store(server, y, f, z) PROVE \E q : Named(o.server, h, n, q)
  <2>1. PICK m, k : Named(server, y, m, k)
    BY <1>3 DEF Positioned
  <2>2. PICK t : t = Rfsv!Store(server, y, f, z)
    OBVIOUS
  <2>3. Named(t, y, m, z) /\ SameHandles(server, t, y)
    BY <2>1, <2>2, StoreIs
  <2>4. h # y => Named(t, h, n, p)
    BY <2>3 DEF SameHandles, Named
  <2>5. h = y => n = m
    BY <2>1 DEF Named
  <2> QED
    BY <1>4, <1>8, <2>2, <2>3, <2>4, <2>5
<1> QED
  BY <1>6, <1>7, <1>8

LEMMA SizedIs ==
    ASSUME NEW f \in Blocks, NEW n \in Nat
    PROVE  Rfsv!Resized(f, n) \in Blocks /\ Len(Rfsv!Resized(f, n)) = n
<1>1. PICK g : g = Rfsv!Resized(f, n)
  OBVIOUS
<1>2. g \in Blocks
  BY <1>1, ResizedIs
<1>3. DOMAIN g = 1 .. n
  BY <1>1 DEF Rfsv!Resized
<1> QED
  BY <1>1, <1>2, <1>3, LenProperties DEF Blocks

LEMMA SizeSet ==
    ASSUME ServerShape(server), server.files \in FileSets, status \in {"none", "disc"},
           NEW h, NEW n \in Nat, NEW c, c = <<"setsize", h, n>>, NEW o, Outcome(c, o), o.res = "none",
           status = "none" /\ h \in DOMAIN server.handles => \E p : Named(server, h, "from", p)
    PROVE  Len(Original(o.server)) = n /\ \E p : Named(o.server, h, "from", p)
<1>1. c[1] \in OnHandles /\ c[2] = h /\ o.res \notin {"disc", "general", "handle"}
  BY DEF OnHandles
<1>2. h \in DOMAIN server.handles /\ status = "none"
      /\ \E e \in Rfsv!OnHandle(server, h, c) : o.server = e.server /\ o.res = e.res /\ o.data = e.data
  BY <1>1, HandleSaid
<1>3. PICK e \in Rfsv!OnHandle(server, h, c) : o.server = e.server /\ o.res = e.res /\ o.data = e.data
  BY <1>2
<1>4. PICK p : Named(server, h, "from", p)
  BY <1>2
<1>5. PICK f \in Blocks : f = From /\ "from" \in DOMAIN server.files
  BY FilesAre DEF From
<1>6. server.handles[h].name = "from"
  BY <1>4 DEF Named
<1>7. PICK g, z : g = Rfsv!Resized(f, n) /\ z = Rfsv!Clamp(server.handles[h].pos, n)
  OBVIOUS
<1>8. g \in Blocks /\ Len(g) = n
  BY <1>7, SizedIs
<1>9. e \in {Rfsv!Reply(server, "full", Rfsv!None), Rfsv!Reply(Rfsv!Store(server, h, g, z), "none", Rfsv!None)}
  BY <1>3, <1>5, <1>6, <1>7 DEF Rfsv!OnHandle, Rfsv!Has, From
<1>10. PICK t : t = Rfsv!Store(server, h, g, z)
  OBVIOUS
<1>11. o.server = t
  BY <1>3, <1>9, <1>10 DEF Rfsv!Reply
<1>12. Wrote(server, t, "from", g) /\ Named(t, h, "from", z)
  BY <1>4, <1>8, <1>10, StoreIs
<1> QED
  BY <1>5, <1>8, <1>11, <1>12 DEF Wrote, Original

-----------------------------------------------------------------------------
(* The disk holds the file whatever a command does: only SET_FILE_SIZE     *)
(* changes it, and no further than the disk goes.                          *)

Short(s) == Len(Original(s)) <= MaxSize
Fits(c) ==
    \A s : ServerShape(s) /\ s.files \in FileSets /\ Reached(s)
             => \A e \in Rfsv!Execute(s, c) : Original(e.server) = Original(s) \/ Short(e.server)

LEMMA OutcomeFits ==
    ASSUME ServerShape(server), server.files \in FileSets, Short(server),
           NEW c, Command(c), Sound(c), Fits(c), NEW o, Outcome(c, o)
    PROVE  Short(o.server)
<1>1. PICK s : /\ ServerShape(s)
               /\ Replied(s, c, o) \/ Failed(s, c, o) \/ LostAt(s, c, o)
               /\ (s = server /\ status # "disc") \/ (DOMAIN s.handles = {} /\ LeftBy(c, s))
  BY OutcomeIs
<1>2. s.files \in FileSets /\ Reached(s)
  BY <1>1, LeftFiles DEF Reached
<1>3. Short(s)
  <2>1. CASE s.files = server.files
    BY <2>1 DEF Short, Original
  <2>2. ASSUME NEW x, ServerShape(x), x.files = server.files, Reached(x),
               NEW e \in Rfsv!Execute(x, c), s.files = e.server.files
        PROVE  Short(s)
    <3>1. Original(e.server) = Original(x) \/ Short(e.server)
      BY <2>2 DEF Fits
    <3> QED
      BY <2>2, <3>1 DEF Short, Original
  <2> QED
    BY <1>1, <2>1, <2>2 DEF LeftBy, Reached
<1>4. \A e \in Rfsv!Execute(s, c) : Short(e.server)
  <2>1. \A e \in Rfsv!Execute(s, c) : Original(e.server) = Original(s) \/ Short(e.server)
    BY <1>1, <1>2 DEF Fits
  <2> QED
    BY <1>3, <2>1 DEF Short
<1> QED
  BY <1>1, <1>3, <1>4 DEF Replied, Failed, LostAt

LEMMA QuietFits ==
    ASSUME NEW c, Quiet(c)
    PROVE  Command(c) /\ Sound(c) /\ Fits(c)
<1>1. Command(c)
  BY DEF Quiet, Command, OnHandles, Others
<1> QED
  BY <1>1, QuietFiles DEF Sound, Fits, Original

LEMMA TargetFits ==
    ASSUME NEW c, c[1] \in {"open", "delete"}, c[1] = "open" => c[2] \in {"create", "replace"} /\ c[3] = "to",
           c[1] = "delete" => c[2] = "to"
    PROVE  Command(c) /\ Sound(c) /\ Fits(c)
<1>1. Command(c)
  BY DEF Command, Others
<1>2. Sound(c)
  BY OpensSound, DeleteSound
<1>3. ASSUME NEW s, ServerShape(s), s.files \in FileSets, NEW e \in Rfsv!Execute(s, c)
      PROVE  Original(e.server) = Original(s)
  <2>1. "from" \in DOMAIN s.files /\ DOMAIN s.files \subseteq {"from", "to"}
    BY <1>3, FilesAre
  <2>2. CASE c[1] = "open"
    <3>1. e.server = s \/ e \in Rfsv!Opened(s, "to", <<>>)
      BY <1>3, <2>2 DEF Rfsv!Execute, Rfsv!Reply
    <3>2. ASSUME NEW d \in Rfsv!Opened(s, "to", <<>>) PROVE Original(d.server) = Original(s)
      <4>1. d.server.files = Rfsv!Set(s.files, "to", <<>>)
        BY <3>2 DEF Rfsv!Opened, Rfsv!Reply
      <4>2. Rfsv!Set(s.files, "to", <<>>)["from"] = s.files["from"]
        BY <2>1 DEF Rfsv!Set
      <4> QED
        BY <4>1, <4>2 DEF Original
    <3> QED
      BY <3>1, <3>2
  <2>3. CASE c[1] = "delete"
    <3>1. PICK fs : fs = Rfsv!Restrict(s.files, DOMAIN s.files \ {"to"})
      OBVIOUS
    <3>2. e.server = s \/ e.server.files = fs
      BY <1>3, <2>3, <3>1 DEF Rfsv!Execute, Rfsv!Reply, ServerShape
    <3>3. fs["from"] = s.files["from"]
      BY <2>1, <3>1 DEF Rfsv!Restrict
    <3> QED
      BY <3>2, <3>3 DEF Original
  <2> QED
    BY <2>2, <2>3
<1> QED
  BY <1>1, <1>2, <1>3 DEF Fits

LEMMA SizeFits ==
    ASSUME NEW c, c[1] = "setsize", c[3] \in Nat
    PROVE  Command(c) /\ Sound(c) /\ Fits(c)
<1>1. Command(c) /\ Sound(c)
  BY SetsizeSound DEF Command, OnHandles
<1>2. ASSUME NEW s, ServerShape(s), s.files \in FileSets, NEW e \in Rfsv!Execute(s, c)
      PROVE  Original(e.server) = Original(s) \/ Short(e.server)
  <2>1. \/ e.server = s
        \/ c[3] <= MaxSize /\ \E h, p : e.server = Rfsv!Store(s, h, Rfsv!Resized(FileOf(s, h), c[3]), p)
    <3>1. CASE c[2] \notin DOMAIN s.handles
      BY <1>2, <3>1 DEF Rfsv!Execute, Rfsv!Reply
    <3>2. CASE c[2] \in DOMAIN s.handles
      <4>1. PICK h, n : h = c[2] /\ n = c[3] /\ e \in Rfsv!OnHandle(s, h, c)
        BY <1>2, <3>2 DEF Rfsv!Execute
      <4>2. PICK f, p : f = FileOf(s, h) /\ p = Rfsv!Clamp(s.handles[h].pos, n)
        OBVIOUS
      <4>3. IF n > MaxSize THEN e = Rfsv!Reply(s, "full", Rfsv!None)
            ELSE e = Rfsv!Reply(Rfsv!Store(s, h, Rfsv!Resized(f, n), p), "none", Rfsv!None)
        BY <4>1, <4>2 DEF Rfsv!OnHandle, FileOf
      <4>4. n > MaxSize \/ n <= MaxSize
        BY <4>1, RfsvAssumption
      <4> QED
        BY <4>1, <4>2, <4>3, <4>4 DEF Rfsv!Reply
    <3> QED
      BY <3>1, <3>2
  <2>2. ASSUME c[3] <= MaxSize, NEW h, NEW p, e.server = Rfsv!Store(s, h, Rfsv!Resized(FileOf(s, h), c[3]), p)
        PROVE  Original(e.server) = Original(s) \/ Short(e.server)
    <3>1. PICK f : f = Rfsv!Resized(FileOf(s, h), c[3])
      OBVIOUS
    <3>2. f \in Blocks /\ Len(f) = c[3]
      BY <1>2, <3>1, FileOfIs, SizedIs
    <3>3. PICK t : t = Rfsv!Store(s, h, f, p)
      OBVIOUS
    <3>4. Updated(s.files, t.files, s.handles[h].name, f)
      BY <1>2, <3>3, StoreParts
    <3>5. t.files["from"] = s.files["from"] \/ t.files["from"] = f
      BY <1>2, <3>4, FilesAre DEF Updated
    <3> QED
      BY <2>2, <3>1, <3>2, <3>3, <3>5 DEF Short, Original
  <2> QED
    BY <2>1, <2>2
<1> QED
  BY <1>1, <1>2 DEF Fits

LEMMA WriteFits ==
    ASSUME ServerShape(server), server.files \in FileSets, "to" \in DOMAIN server.files,
           NEW c, c[1] = "write", c[3] \in Blocks, Named(server, c[2], "to", Len(server.files["to"]))
    PROVE  Command(c) /\ Sound(c) /\ Fits(c)
<1>1. Command(c) /\ Sound(c)
  BY WriteSound DEF Command, OnHandles
<1>2. ASSUME NEW s, ServerShape(s), s.files \in FileSets, Reached(s), NEW e \in Rfsv!Execute(s, c)
      PROVE  Original(e.server) = Original(s)
  <2>1. CASE DOMAIN s.handles = {}
    BY <1>2, <2>1 DEF Rfsv!Execute, Rfsv!Reply
  <2>2. CASE s = server
    <3>1. PICK h : h = c[2] /\ e \in Rfsv!OnHandle(server, h, c) /\ Named(server, h, "to", Len(server.files["to"]))
      BY <1>2, <2>2 DEF Rfsv!Execute, Named
    <3>2. \E f : Wrote(server, e.server, "to", f)
      BY <3>1, WriteIs
    <3> QED
      BY <2>2, <3>2, FilesAre DEF Wrote, Original
  <2> QED
    BY <1>2, <2>1, <2>2 DEF Reached
<1> QED
  BY <1>1, <1>2 DEF Fits

LEMMA ReadWriteFits ==
    ASSUME ServerShape(server), server.files \in FileSets, "to" \in DOMAIN server.files,
           NEW c, c[1] = "readwrite", c[3] \in Nat, Named(server, c[4], "to", Len(server.files["to"])),
           c[2] \in DOMAIN server.handles /\ c[2] # c[4]
             => \E p \in Nat : p <= Len(server.files["from"]) /\ Named(server, c[2], "from", p)
    PROVE  Command(c) /\ Sound(c) /\ Fits(c)
<1>1. Command(c) /\ Sound(c)
  BY ReadWriteSound DEF Command, OnHandles
<1>2. ASSUME NEW s, ServerShape(s), s.files \in FileSets, Reached(s), NEW e \in Rfsv!Execute(s, c)
      PROVE  Original(e.server) = Original(s)
  <2>1. CASE c[2] \notin DOMAIN s.handles
    BY <1>2, <2>1 DEF Rfsv!Execute, Rfsv!Reply
  <2>2. CASE s = server /\ c[2] \in DOMAIN server.handles
    <3>1. PICK h, t : /\ h = c[2] /\ t = c[4] /\ e \in Rfsv!OnHandle(server, h, c)
                    /\ Named(server, t, "to", Len(server.files["to"]))
      BY <1>2, <2>2 DEF Rfsv!Execute
    <3>2. PICK n \in {"from", "to"}, p \in Nat :
             /\ n \in DOMAIN server.files /\ p <= Len(server.files[n]) /\ Named(server, h, n, p)
      <4>1. Len(server.files["to"]) \in Nat
        BY FilesAre, BlocksLen
      <4> QED
        BY <2>2, <3>1, <4>1, FilesAre
    <3>3. \E z \in Nat : Spliced(server, e.server, n, p, h, t, z)
      BY <3>1, <3>2, ReadWriteIs
    <3> QED
      BY <2>2, <3>3, FilesAre DEF Spliced, Wrote, Original
  <2> QED
    BY <1>2, <2>1, <2>2 DEF Reached
<1> QED
  BY <1>1, <1>2 DEF Fits

-----------------------------------------------------------------------------
(* What a listing has, and where a seek is.                                *)

(* The handle of the running call is of n and at p, if it has one.         *)
Own(n, p) == status = "none" /\ HasSource => Named(server, call.h, n, p)
Listed(p) == call.out = UpTo(Entries, call.to) ++ UpTo(Entries, p)

ListsDirs ==
    call.op \in {"dir", "dircount"} =>
      /\ call.to \in 0 .. 1 /\ call.to <= Len(Entries) /\ (call.op = "dir" => call.to = 0)
      /\ call.at = "opendir" => Listed(0)
      /\ call.at = "readdir" => \E p \in 0 .. Len(Entries) : Listed(p) /\ Own("dir", p)
      /\ call.at \in {"closedir", "done"} /\ call.res \in {"none", "eof"} => Listed(Len(Entries))

(* The drives that were looked at are listed if they are ready, and no     *)
(* other is; or RFSV16 had no list of them.                                *)
In(n, list) == \E i \in 1 .. Len(list) : list[i] = n
Looked ==
    \/ proto = "16" /\ call.buf = <<>> /\ call.out = <<>>
    \/ \A n \in DriveNames : /\ In(n, call.out) => Drives[n] = "ready"
                             /\ Drives[n] = "ready" => In(n, call.buf) \/ In(n, call.out)

ListsDrives ==
    call.op = "drives" =>
      /\ call.at \in {"devlist", "devopen"} => call.buf = <<>>
      /\ call.at \in {"devlist", "devopen", "devread", "devclose"} => call.out = <<>>
      /\ call.at = "devopen" => proto = "16"
      /\ call.at = "devread" => \E p \in 0 .. Len(DriveList) : call.buf = UpTo(DriveList, p) /\ Own("drives", p)
      /\ call.at = "devclose" /\ call.res = "none" => call.buf = DriveList
      /\ call.at \in {"devinfo", "devstatus"} =>
           call.buf \in Seq(DriveNames) /\ call.out \in Seq(DriveNames) /\ Looked
      /\ call.at = "done" /\ call.res = "none" => call.buf = <<>> /\ call.out \in Seq(DriveNames) /\ Looked

(* Position k of a file of n blocks, and pos and mode that are asked for:  *)
(* what fseek has found is what lseek would, but for the cases that the    *)
(* property leaves out.                                                    *)
Asks(k, n, pos, mode) ==
    call.out = <<k, n, pos, mode>> /\ k \in Nat /\ n \in Nat /\ k <= n /\ pos \in Offsets /\ mode \in 1 .. 3
Meant(k, n, pos, mode) == CASE mode = 1 -> pos [] mode = 2 -> pos + k [] OTHER -> pos + n
Good(pos, mode) == (mode = 2 => pos >= 0) /\ (proto = "16" /\ mode > 1 => pos <= 0)

Meets(k, n, pos, mode) ==
    /\ call.at = "sense" =>
         /\ call.buf[1] = <<pos, mode>> /\ pos >= 0 /\ mode > 1 /\ ~ call.eof
         /\ n = Len(From) /\ Own("from", k)
    /\ call.at = "expand" =>
         /\ proto = "32" /\ mode = 3 /\ pos > 0 /\ call.buf = <<<<pos, mode>>, n>> /\ ~ call.eof
         /\ n = Len(From)
    /\ call.at = "seek" =>
         \/ /\ proto = "32" /\ mode = 3 /\ pos > 0 /\ call.buf[1] = <<0, 3>> /\ ~ call.eof
            /\ Len(From) = n + pos
         \/ /\ call.buf[1] = <<pos, mode>> /\ n = Len(From) /\ (call.eof => ~ Good(pos, mode))
            /\ mode = 2 /\ Good(pos, mode) => call.buf[2] = k /\ Own("from", k)
            /\ mode = 3 /\ Good(pos, mode) => pos < 0
    /\ call.at = "extend" /\ Good(pos, mode) => call.buf[2] = Meant(k, n, pos, mode)
    /\ call.at = "reseek" /\ Good(pos, mode) =>
         call.buf[2] = Meant(k, n, pos, mode) /\ Len(From) = Meant(k, n, pos, mode)
    /\ call.at \in {"close", "done"} /\ Good(pos, mode) =>
         call.buf[2] = Meant(k, n, pos, mode) /\ Meant(k, n, pos, mode) <= Len(From)

SeeksAs ==
    call.op = "seek" =>
      /\ call.at \in {"open", "position"} => ~ call.eof
      /\ call.at \in SeekAt => \E q : Own("from", q)
      /\ call.at \in SeekAt \ {"position"} \/ (call.at \in {"close", "done"} /\ call.res = "none") =>
           \E k, n, pos, mode : Asks(k, n, pos, mode) /\ Meets(k, n, pos, mode)

CallsInv == ListsDirs /\ ListsDrives /\ SeeksAs /\ Short(server)

LEMMA CallsKept ==
    ASSUME Short(server'), call'.op \in {"dir", "dircount"} => ListsDirs', call'.op = "drives" => ListsDrives',
           call'.op = "seek" => SeeksAs'
    PROVE  CallsInv'
<1>1. Short(server)'
  BY DEF Short, Original
<1> QED
  BY <1>1 DEF CallsInv, ListsDirs, ListsDrives, SeeksAs

(* A command was sent in a step that took its outcome.                     *)
Sent(c) == \E o : Outcome(c, o) /\ Taken(o)

LEMMA SentFits ==
    ASSUME HandlesInv, CopyInv, CallsInv, NEW c, Command(c), Sound(c), Fits(c), Sent(c)
    PROVE  Short(server')
<1>1. PICK o : Outcome(c, o) /\ server' = o.server
  BY DEF Sent, Taken
<1> QED
  BY <1>1, OutcomeFits DEF HandlesInv, CopyInv, CallsInv

Listings == {"dir", "dircount", "drives", "seek"}

LEMMA PlainSends ==
    ASSUME HandlesInv, CopyInv, CallsInv
    PROVE  /\ Rfsv!OpenRead => call'.op = call.op /\ Short(server')
           /\ Rfsv!CreateFile => call'.op = call.op /\ Short(server')
           /\ Rfsv!ReplaceFile => call'.op = call.op /\ Short(server')
           /\ Rfsv!Close => call'.op = call.op /\ Short(server')
           /\ Rfsv!CloseTo => call'.op = call.op /\ Short(server')
           /\ Rfsv!Delete => call'.op = call.op /\ Short(server')
           /\ Rfsv!Other => call'.op = call.op /\ Short(server')
           /\ Rfsv!GetAttr => call'.op = call.op /\ Short(server')
           /\ Rfsv!Fread => call'.op = call.op /\ Short(server')
<1>1. ASSUME Rfsv!OpenRead PROVE call'.op = call.op /\ Short(server')
  <2>1. call'.op = call.op
    BY <1>1 DEF HandlesInv, RunShape, Rfsv!OpenRead, Rfsv!Exchange, Rfsv!Done, Rfsv!Ends, Rfsv!Next_
  <2>2. PICK c : c = <<"open", "read", "from">>
    OBVIOUS
  <2>3. Sent(<<"open", "read", "from">>)
    BY <1>1, Zenon DEF Rfsv!OpenRead, Rfsv!Exchange, Sent, Outcome, Taken
  <2>4. Command(c) /\ Sound(c) /\ Fits(c)
    BY <2>2, QuietFits DEF Quiet
  <2> QED
    BY <2>1, <2>2, <2>3, <2>4, SentFits
<1>2. ASSUME Rfsv!CreateFile PROVE call'.op = call.op /\ Short(server')
  <2>1. call'.op = call.op
    BY <1>2 DEF HandlesInv, RunShape, Rfsv!CreateFile, Rfsv!Exchange, Rfsv!Done, Rfsv!Ends, Rfsv!Next_
  <2>2. PICK c : c = <<"open", "create", "to">>
    OBVIOUS
  <2>3. Sent(<<"open", "create", "to">>)
    BY <1>2, Zenon DEF Rfsv!CreateFile, Rfsv!Exchange, Sent, Outcome, Taken
  <2>4. Command(c) /\ Sound(c) /\ Fits(c)
    BY <2>2, TargetFits
  <2> QED
    BY <2>1, <2>2, <2>3, <2>4, SentFits
<1>3. ASSUME Rfsv!ReplaceFile PROVE call'.op = call.op /\ Short(server')
  <2>1. call'.op = call.op
    BY <1>3 DEF HandlesInv, RunShape, Rfsv!ReplaceFile, Rfsv!Exchange, Rfsv!Done, Rfsv!Ends, Rfsv!Next_
  <2>2. PICK c : c = <<"open", "replace", "to">>
    OBVIOUS
  <2>3. Sent(<<"open", "replace", "to">>)
    BY <1>3, Zenon DEF Rfsv!ReplaceFile, Rfsv!Exchange, Sent, Outcome, Taken
  <2>4. Command(c) /\ Sound(c) /\ Fits(c)
    BY <2>2, TargetFits
  <2> QED
    BY <2>1, <2>2, <2>3, <2>4, SentFits
<1>4. ASSUME Rfsv!Close PROVE call'.op = call.op /\ Short(server')
  <2>1. call'.op = call.op
    BY <1>4 DEF HandlesInv, RunShape, Rfsv!Close, Rfsv!Exchange, Rfsv!Done, Rfsv!Ends, Rfsv!Next_
  <2>2. PICK c : c = <<"close", IF call.op = "copyTo" THEN call.to ELSE call.h>>
    OBVIOUS
  <2>3. Sent(<<"close", IF call.op = "copyTo" THEN call.to ELSE call.h>>)
    BY <1>4, Zenon DEF Rfsv!Close, Rfsv!Exchange, Sent, Outcome, Taken
  <2>4. Command(c) /\ Sound(c) /\ Fits(c)
    BY <2>2, QuietFits DEF Quiet
  <2> QED
    BY <2>1, <2>2, <2>3, <2>4, SentFits
<1>5. ASSUME Rfsv!CloseTo PROVE call'.op = call.op /\ Short(server')
  <2>1. call'.op = call.op
    BY <1>5 DEF HandlesInv, RunShape, Rfsv!CloseTo, Rfsv!Exchange, Rfsv!Done, Rfsv!Ends, Rfsv!Next_
  <2>2. PICK c : c = <<"close", call.to>>
    OBVIOUS
  <2>3. Sent(<<"close", call.to>>)
    BY <1>5, Zenon DEF Rfsv!CloseTo, Rfsv!Exchange, Sent, Outcome, Taken
  <2>4. Command(c) /\ Sound(c) /\ Fits(c)
    BY <2>2, QuietFits DEF Quiet
  <2> QED
    BY <2>1, <2>2, <2>3, <2>4, SentFits
<1>6. ASSUME Rfsv!Delete PROVE call'.op = call.op /\ Short(server')
  <2>1. call'.op = call.op
    BY <1>6 DEF HandlesInv, RunShape, Rfsv!Delete, Rfsv!Exchange, Rfsv!Done, Rfsv!Ends, Rfsv!Next_
  <2>2. PICK c : c = <<"delete", "to">>
    OBVIOUS
  <2>3. Sent(<<"delete", "to">>)
    BY <1>6, Zenon DEF Rfsv!Delete, Rfsv!Exchange, Sent, Outcome, Taken
  <2>4. Command(c) /\ Sound(c) /\ Fits(c)
    BY <2>2, TargetFits
  <2> QED
    BY <2>1, <2>2, <2>3, <2>4, SentFits
<1>7. ASSUME Rfsv!Other PROVE call'.op = call.op /\ Short(server')
  <2>1. call'.op = call.op
    BY <1>7 DEF HandlesInv, RunShape, Rfsv!Other, Rfsv!Exchange, Rfsv!Done, Rfsv!Ends, Rfsv!Next_
  <2>2. PICK c : c = <<"attr", "from">>
    OBVIOUS
  <2>3. Sent(<<"attr", "from">>)
    BY <1>7, Zenon DEF Rfsv!Other, Rfsv!Exchange, Sent, Outcome, Taken
  <2>4. Command(c) /\ Sound(c) /\ Fits(c)
    BY <2>2, QuietFits DEF Quiet
  <2> QED
    BY <2>1, <2>2, <2>3, <2>4, SentFits
<1>8. ASSUME Rfsv!GetAttr PROVE call'.op = call.op /\ Short(server')
  <2>1. call'.op = call.op
    BY <1>8 DEF HandlesInv, RunShape, Rfsv!GetAttr, Rfsv!Exchange, Rfsv!Done, Rfsv!Ends, Rfsv!Next_
  <2>2. PICK c : c = <<"attr", IF call.op = "copyOn" THEN "from" ELSE "to">>
    OBVIOUS
  <2>3. Sent(<<"attr", IF call.op = "copyOn" THEN "from" ELSE "to">>)
    BY <1>8, Zenon DEF Rfsv!GetAttr, Rfsv!Exchange, Sent, Outcome, Taken
  <2>4. Command(c) /\ Sound(c) /\ Fits(c)
    BY <2>2, QuietFits DEF Quiet
  <2> QED
    BY <2>1, <2>2, <2>3, <2>4, SentFits
<1>9. ASSUME Rfsv!Fread PROVE call'.op = call.op /\ Short(server')
  <2>1. call'.op = call.op
    BY <1>9 DEF HandlesInv, RunShape, Rfsv!Fread, Rfsv!Exchange, Rfsv!Done, Rfsv!Ends, Rfsv!Next_
  <2>2. PICK c : c = <<"read", call.h, Rfsv!Asked(SendLen - Len(call.buf))>>
    OBVIOUS
  <2>3. Sent(<<"read", call.h, Rfsv!Asked(SendLen - Len(call.buf))>>)
    BY <1>9, Zenon DEF Rfsv!Fread, Rfsv!Exchange, Sent, Outcome, Taken
  <2>4. Command(c) /\ Sound(c) /\ Fits(c)
    BY <2>2, QuietFits DEF Quiet
  <2> QED
    BY <2>1, <2>2, <2>3, <2>4, SentFits
<1> QED
  BY <1>1, <1>2, <1>3, <1>4, <1>5, <1>6, <1>7, <1>8, <1>9

LEMMA WriteSends ==
    ASSUME HandlesInv, CopyInv, CallsInv, Rfsv!Fwrite
    PROVE  call'.op = call.op /\ call.op \notin Listings /\ Short(server')
<1>1. call.op \in {"copyTo", "copyOn"} /\ call.at = "write"
  BY DEF Rfsv!Fwrite, Rfsv!At
<1>2. CASE call.buf = <<>>
  <2>1. Rfsv!Goes(Rfsv!Next_("callback"))
    BY <1>2, Zenon DEF Rfsv!Fwrite
  <2>2. server' = server /\ call' = Rfsv!Next_("callback")
    BY <2>1 DEF Rfsv!Goes
  <2>3. call'.op = call.op
    BY <2>2 DEF HandlesInv, RunShape, Rfsv!Next_
  <2> QED
    BY <1>1, <2>2, <2>3 DEF CallsInv, Listings
<1>3. CASE call.buf # <<>>
  <2>1. call'.op = call.op
    BY <1>3 DEF HandlesInv, RunShape, Rfsv!Fwrite, Rfsv!Exchange, Rfsv!Ends
  <2>2. PICK n \in Nat : n = Rfsv!Clamp(Rfsv!Asked(SendLen), Len(call.buf)) /\ n <= Len(call.buf)
    <3>1. Len(call.buf) \in Nat
      BY <1>1, BlocksLen DEF CopyInv, Writing, Going
    <3>2. Rfsv!Asked(SendLen) \in Nat
      BY RfsvAssumption DEF Rfsv!Asked
    <3> QED
      BY <3>1, <3>2 DEF Rfsv!Clamp
  <2>3. PICK c : c = <<"write", call.to, SubSeq(call.buf, 1, n)>>
    OBVIOUS
  <2>4. Sent(<<"write", call.to, SubSeq(call.buf, 1, Rfsv!Clamp(Rfsv!Asked(SendLen), Len(call.buf)))>>)
    BY <1>3, Zenon DEF Rfsv!Fwrite, Rfsv!Exchange, Sent, Outcome, Taken
  <2>5. Sent(c)
    BY <2>2, <2>3, <2>4
  <2>6. SubSeq(call.buf, 1, n) \in Blocks
    <3>1. call.buf \in Blocks
      BY <1>1 DEF CopyInv, Writing, Going
    <3>2. UpTo(call.buf, n) \in Blocks
      BY <2>2, <3>1, BlocksLen, PartIs
    <3> QED
      BY <3>2 DEF UpTo, Part
  <2>7. "to" \in DOMAIN server.files /\ Named(server, c[2], "to", Len(server.files["to"]))
    BY <1>1, <2>3 DEF CopyInv, Writing, Going, HasTarget, Target
  <2>8. Command(c) /\ Sound(c) /\ Fits(c)
    BY <2>3, <2>6, <2>7, WriteFits DEF HandlesInv, CopyInv
  <2> QED
    BY <1>1, <2>1, <2>5, <2>8, SentFits DEF Listings
<1> QED
  BY <1>2, <1>3

LEMMA ReadWriteSends ==
    ASSUME HandlesInv, CopyInv, CallsInv, Rfsv!ReadWrite
    PROVE  call'.op = call.op /\ call.op \notin Listings /\ Short(server')
<1>1. call.op = "copyOn" /\ call.at = "readwrite"
  BY DEF Rfsv!ReadWrite, Rfsv!At
<1>2. call'.op = call.op
  BY DEF HandlesInv, RunShape, Rfsv!ReadWrite, Rfsv!Exchange, Rfsv!Done, Rfsv!Ends
<1>3. PICK c : c = <<"readwrite", call.h, OnLen, call.to>>
  OBVIOUS
<1>4. Sent(<<"readwrite", call.h, OnLen, call.to>>)
  BY Zenon DEF Rfsv!ReadWrite, Rfsv!Exchange, Sent, Outcome, Taken
<1>5. "to" \in DOMAIN server.files /\ Named(server, c[4], "to", Len(server.files["to"]))
  BY <1>1, <1>3 DEF CopyInv, Writing, Going, HasTarget, Target
<1>6. c[2] \in DOMAIN server.handles /\ c[2] # c[4]
        => \E p \in Nat : p <= Len(server.files["from"]) /\ Named(server, c[2], "from", p)
  BY <1>1, <1>3 DEF CopyInv, CopiesOn, Going, HasSource, ReadUpTo, From
<1>7. Command(c) /\ Sound(c) /\ Fits(c)
  BY <1>3, <1>5, <1>6, ReadWriteFits, RfsvAssumption DEF HandlesInv, CopyInv
<1> QED
  BY <1>1, <1>2, <1>3, <1>4, <1>7, SentFits DEF Listings

(* A copy, and what ends a call that is no listing and no seek.            *)
LEMMA PlainKept ==
    ASSUME CallsInv, Short(server'), call'.op = call.op, call.op \notin Listings
    PROVE  CallsInv'
BY CallsKept DEF Listings

LEMMA CopyingCalls ==
    ASSUME HandlesInv, CopyInv, CallsInv,
           \/ Rfsv!Copying
           \/ Rfsv!OpenLocal \/ Rfsv!CreateFile \/ Rfsv!ReplaceFile \/ Rfsv!CloseTo \/ Rfsv!Delete
           \/ Rfsv!GetAttr \/ Rfsv!Other
           \/ (Rfsv!OpenRead \/ Rfsv!Close) /\ call.op # "seek"
    PROVE  CallsInv'
<1>1. CASE Rfsv!Fwrite \/ Rfsv!ReadWrite
  BY <1>1, WriteSends, ReadWriteSends, PlainKept
<1>2. CASE \/ Rfsv!CreateFile \/ Rfsv!ReplaceFile \/ Rfsv!CloseTo \/ Rfsv!Delete
           \/ Rfsv!GetAttr \/ Rfsv!Other \/ Rfsv!Fread
  <2>1. call'.op = call.op /\ Short(server')
    BY <1>2, PlainSends
  <2>2. call.op \notin Listings
    BY <1>2, Zenon DEF Rfsv!CreateFile, Rfsv!ReplaceFile, Rfsv!CloseTo, Rfsv!Delete, Rfsv!GetAttr, Rfsv!Other,
                       Rfsv!Fread, Rfsv!At, Listings
  <2> QED
    BY <2>1, <2>2, PlainKept
<1>3. CASE (Rfsv!OpenRead \/ Rfsv!Close) /\ call.op # "seek"
  <2>1. call'.op = call.op /\ Short(server')
    BY <1>3, PlainSends
  <2>2. call.op \in {"copyFrom", "copyOn", "copyTo", "seek"}
    BY <1>3 DEF Rfsv!OpenRead, Rfsv!Close, Rfsv!At, Rfsv!IsCopy
  <2> QED
    BY <1>3, <2>1, <2>2, PlainKept DEF Listings
<1>4. CASE Rfsv!Fill \/ Rfsv!Callback \/ Rfsv!OpenLocal
  <2>1. call.op \in {"copyFrom", "copyOn", "copyTo"} /\ server' = server
    BY <1>4 DEF Rfsv!Fill, Rfsv!Callback, Rfsv!OpenLocal, Rfsv!At, Rfsv!IsCopy, Rfsv!Goes
  <2>2. call'.op = call.op
    <3>1. CASE Rfsv!Fill
      BY <3>1 DEF HandlesInv, RunShape, Rfsv!Fill, Rfsv!Goes, Rfsv!Next_
    <3>2. CASE Rfsv!Callback
      BY <3>2 DEF HandlesInv, RunShape, Rfsv!Callback, Rfsv!Goes
    <3>3. CASE Rfsv!OpenLocal
      BY <3>3 DEF HandlesInv, RunShape, Rfsv!OpenLocal, Rfsv!Goes, Rfsv!Next_, Rfsv!Ends
    <3> QED
      BY <1>4, <3>1, <3>2, <3>3
  <2> QED
    BY <2>1, <2>2, PlainKept DEF CallsInv, Listings
<1> QED
  BY <1>1, <1>2, <1>3, <1>4 DEF Rfsv!Copying

LEMMA EntriesAre ==
    /\ Entries \in Seq(ToSet(Entries)) /\ Len(Entries) \in Nat
    /\ UpTo(Entries, 0) = <<>> /\ UpTo(Entries, Len(Entries)) = Entries
    /\ \A n \in 0 .. Len(Entries) : UpTo(Entries, n) \in Seq(ToSet(Entries)) /\ Len(UpTo(Entries, n)) = n
<1>1. Entries \in Seq(ToSet(Entries)) /\ Len(Entries) \in Nat
  BY CallsAssumption
<1>2. \A n \in 0 .. Len(Entries) : UpTo(Entries, n) \in Seq(ToSet(Entries)) /\ Len(UpTo(Entries, n)) = n
  BY <1>1, FrontOf
<1> QED
  BY <1>1, <1>2, FrontEnds

LEMMA StartCalls ==
    ASSUME CallsInv, NEW a \in DOMAIN Rfsv!FirstStep, Rfsv!Start(a)
    PROVE  CallsInv'
<1> DEFINE at == CASE a = "copyOn" /\ proto = "32" -> "attr"
                   [] a = "rmdir" /\ proto = "32" -> "other"
                   [] OTHER -> Rfsv!FirstStep[a]
           begun(n) == [Rfsv!NoCall EXCEPT !.op = a, !.to = n, !.out = SubSeq(Entries, 1, n), !.at = at]
<1>1. PICK n \in 0 .. 1 : /\ n > 0 => a = "dircount" /\ proto = "16" /\ n <= Len(Entries)
                          /\ Rfsv!Goes(begun(n))
  BY Zenon DEF Rfsv!Start
<1> HIDE DEF at
<1>2. PICK x : x = begun(n)
  OBVIOUS
<1>3. /\ x.op = a /\ x.to = n /\ x.at = at /\ x.buf = <<>> /\ x.out = SubSeq(Entries, 1, n) /\ ~ x.eof
      /\ x.res = "none"
  BY <1>2 DEF Rfsv!NoCall
<1> HIDE DEF begun
<1>4. call' = x /\ server' = server /\ proto' = proto /\ status' = status
  BY <1>1, <1>2 DEF Rfsv!Goes
<1>5. /\ a \in {"dir", "dircount"} => at = "opendir"
      /\ a = "drives" => at = "devlist"
      /\ a = "seek" => at = "open"
  BY DEF at, Rfsv!FirstStep
<1>6. a \in {"dir", "dircount"} => ListsDirs'
  <2>1. n <= Len(Entries) /\ n \in 0 .. Len(Entries)
    BY <1>1, EntriesAre
  <2>2. x.out = UpTo(Entries, n)
    BY <1>3 DEF UpTo, Part
  <2>3. UpTo(Entries, n) = UpTo(Entries, n) ++ UpTo(Entries, 0)
    BY <2>1, EntriesAre, ConcatEmptySeq DEF ++
  <2>4. call'.out = UpTo(Entries, call'.to) ++ UpTo(Entries, 0)
    BY <1>3, <1>4, <2>2, <2>3
  <2>5. n \in 0 .. 1 /\ (a = "dir" => n = 0)
    BY <1>1
  <2> QED
    BY <1>3, <1>4, <1>5, <2>1, <2>4, <2>5 DEF ListsDirs, Listed
<1>7. a = "drives" => ListsDrives'
  <2>1. a = "drives" => n = 0
    BY <1>1
  <2>2. a = "drives" => x.out = <<>>
    BY <1>3, <2>1, SubSeqEmpty
  <2> QED
    BY <1>3, <1>4, <1>5, <2>2 DEF ListsDrives
<1>8. a = "seek" => SeeksAs'
  BY <1>3, <1>4, <1>5 DEF SeeksAs, SeekAt
<1> QED
  BY <1>3, <1>4, <1>6, <1>7, <1>8, CallsKept DEF CallsInv

LEMMA EndCalls ==
    ASSUME HandlesInv, CallsInv, Rfsv!Return \/ Rfsv!Quit
    PROVE  CallsInv'
<1>1. call' = Rfsv!NoCall
  BY DEF Rfsv!Return, Rfsv!Quit, Rfsv!Goes
<1>2. server'.files = server.files
  <2>1. Rfsv!Return => server' = server
    BY DEF Rfsv!Return, Rfsv!Goes
  <2>2. Rfsv!Quit => server'.files = server.files
    BY NoHandles DEF Rfsv!Quit, HandlesInv
  <2> QED
    BY <2>1, <2>2
<1>3. call'.op = "none"
  BY <1>1 DEF Rfsv!NoCall
<1> QED
  BY <1>2, <1>3, CallsKept DEF CallsInv, Short, Original

-----------------------------------------------------------------------------
(* Listings.                                                               *)

LEMMA OpenDirCalls ==
    ASSUME HandlesInv, CopyInv, CallsInv, Rfsv!OpenDir
    PROVE  CallsInv'
<1> DEFINE cmd == <<"open", "dir", "dir">>
           Then(r, d) ==
             IF r = "none" THEN [call EXCEPT !.h = d, !.at = "readdir"]
             ELSE IF call.op = "dircount" /\ proto = "32" THEN Rfsv!Done(r)
             ELSE Rfsv!Ends("closedir", r)
<1>1. call.op \in {"dir", "dircount"} /\ call.at = "opendir"
  BY Zenon DEF Rfsv!OpenDir, Rfsv!At
<1>2. PICK o : /\ Outcome(cmd, o) /\ Taken(o) /\ proto' = proto
               /\ call' = [Then(o.res, o.data) EXCEPT !.renewed = @ \/ o.renewed]
  BY Zenon DEF Rfsv!OpenDir, Rfsv!Exchange, Outcome, Taken
<1>3. /\ call'.op = call.op /\ call'.to = call.to /\ call'.out = call.out
      /\ IF o.res = "none" THEN call'.at = "readdir" /\ call'.h = o.data
         ELSE call'.at \in {"closedir", "done"} /\ call'.res = o.res
  BY <1>2 DEF HandlesInv, RunShape, Rfsv!Done, Rfsv!Ends, Rfsv!Next_
<1>4. o.res # "eof" /\ (o.res = "none" => Named(o.server, o.data, "dir", 0))
  <2>1. PICK c : c = cmd
    OBVIOUS
  <2>2. c[1] = "open" /\ c[2] = "dir" /\ c[3] = "dir" /\ Outcome(c, o)
    BY <1>2, <2>1
  <2> HIDE DEF cmd, Then
  <2> QED
    BY <2>2, OpenDirOutcome DEF HandlesInv
<1>5. Short(server')
  <2>1. PICK c : c = cmd
    OBVIOUS
  <2>2. Quiet(c) /\ Sent(c)
    BY <1>2, <2>1 DEF Quiet, Sent
  <2> QED
    BY <2>2, QuietFits, SentFits
<1>6. ListsDirs'
  <2>1. Listed(0) /\ call.to \in 0 .. 1 /\ call.to <= Len(Entries) /\ (call.op = "dir" => call.to = 0)
    BY <1>1 DEF CallsInv, ListsDirs
  <2>2. Listed(0)'
    BY <1>3, <2>1 DEF Listed
  <2>3. CASE o.res = "none"
    <3>1. Own("dir", 0)'
      BY <1>2, <1>3, <1>4, <2>3 DEF Own, Taken, Named
    <3>2. 0 \in 0 .. Len(Entries)
      BY EntriesAre
    <3> QED
      BY <1>1, <1>3, <2>1, <2>2, <2>3, <3>1, <3>2 DEF ListsDirs
  <2>4. CASE o.res # "none"
    BY <1>1, <1>3, <1>4, <2>1, <2>4 DEF ListsDirs
  <2> QED
    BY <2>3, <2>4
<1> QED
  BY <1>1, <1>3, <1>5, <1>6, CallsKept

LEMMA ReadDirCalls ==
    ASSUME HandlesInv, CopyInv, CallsInv, Rfsv!ReadDir
    PROVE  CallsInv'
<1> DEFINE cmd == <<"readdir", call.h>>
           Then(r, d) ==
             IF call.op = "dircount" /\ proto = "32" /\ Rfsv!Unsent(r, d) THEN Rfsv!Done(r)
             ELSE IF r # "none" THEN Rfsv!Ends("closedir", r)
             ELSE [call EXCEPT !.out = @ \o d]
<1>1. call.op \in {"dir", "dircount"} /\ call.at = "readdir"
  BY Zenon DEF Rfsv!ReadDir, Rfsv!At
<1>2. PICK o : /\ Outcome(cmd, o) /\ Taken(o) /\ proto' = proto
               /\ call' = [Then(o.res, o.data) EXCEPT !.renewed = @ \/ o.renewed]
  BY Zenon DEF Rfsv!ReadDir, Rfsv!Exchange, Outcome, Taken
<1>3. /\ call'.op = call.op /\ call'.to = call.to /\ call'.h = call.h
      /\ IF o.res = "none" THEN call'.at = "readdir" /\ call'.out = call.out ++ o.data
         ELSE call'.at \in {"closedir", "done"} /\ call'.res = o.res /\ call'.out = call.out
  <2>1. PICK x : x = call.out \o o.data
    OBVIOUS
  <2>2. CASE o.res = "none"
    <3>1. call' = [[call EXCEPT !.out = x] EXCEPT !.renewed = @ \/ o.renewed]
      BY <1>2, <2>1, <2>2 DEF Rfsv!Unsent
    <3> QED
      BY <1>1, <2>1, <2>2, <3>1 DEF HandlesInv, RunShape, ++
  <2>3. CASE o.res # "none"
    BY <1>1, <1>2, <2>3 DEF HandlesInv, RunShape, Rfsv!Done, Rfsv!Ends
  <2> QED
    BY <2>2, <2>3
<1>4. PICK p \in 0 .. Len(Entries) : Listed(p) /\ Own("dir", p)
  BY <1>1 DEF CallsInv, ListsDirs
<1>5. Short(server')
  <2>1. PICK c : c = cmd
    OBVIOUS
  <2>2. Quiet(c) /\ Sent(c)
    BY <1>2, <2>1 DEF Quiet, Sent
  <2> QED
    BY <2>2, QuietFits, SentFits
<1>6. /\ o.res = "eof" => p = Len(Entries)
      /\ o.res = "none" => /\ o.data \in Seq(ToSet(Entries))
                           /\ \E e \in 0 .. Len(Entries) : /\ UpTo(Entries, p) ++ o.data = UpTo(Entries, e)
                                                           /\ Named(o.server, call.h, "dir", e)
  <2>1. PICK h, c : h = call.h /\ c = <<"readdir", h>> /\ c = cmd
    OBVIOUS
  <2>2. status = "none" /\ h \in DOMAIN server.handles => Named(server, h, "dir", p)
    BY <1>4, <2>1 DEF Own, HasSource
  <2>3. Entries = Directory("dir")
    BY DEF Directory
  <2>4. Outcome(c, o) /\ Entries \in Seq(ToSet(Entries))
    BY <1>2, <2>1, EntriesAre
  <2> HIDE DEF cmd, Then
  <2>5. o.res \in {"none", "eof"} =>
          /\ o.res = "eof" => p = Len(Entries)
          /\ o.res = "none" => /\ o.data \in Seq(ToSet(Entries))
                               /\ \E e \in 0 .. Len(Entries) : /\ UpTo(Entries, p) ++ o.data = UpTo(Entries, e)
                                                               /\ Named(o.server, h, "dir", e)
    BY <2>1, <2>2, <2>3, <2>4, ReadDirOutcome DEF HandlesInv
  <2> QED
    BY <2>1, <2>5
<1>7. call.to \in 0 .. 1 /\ call.to <= Len(Entries) /\ (call.op = "dir" => call.to = 0)
  BY <1>1 DEF CallsInv, ListsDirs
<1>8. ListsDirs'
  <2>1. CASE o.res = "none"
    <3>1. PICK e \in 0 .. Len(Entries) : /\ UpTo(Entries, p) ++ o.data = UpTo(Entries, e)
                                         /\ Named(o.server, call.h, "dir", e)
      BY <1>6, <2>1
    <3>2. Own("dir", e)'
      BY <1>2, <1>3, <3>1 DEF Own, Taken, Named
    <3>3. call'.out = UpTo(Entries, call'.to) ++ UpTo(Entries, e)
      <4>1. PICK S : S = ToSet(Entries)
        OBVIOUS
      <4>2. PICK t, u, d : t = UpTo(Entries, call.to) /\ u = UpTo(Entries, p) /\ d = o.data
        OBVIOUS
      <4>3. t \in Seq(S) /\ u \in Seq(S) /\ d \in Seq(S)
        <5>1. call.to \in 0 .. Len(Entries)
          BY <1>7, EntriesAre
        <5> QED
          BY <1>6, <2>1, <4>1, <4>2, <5>1, EntriesAre
      <4>4. (t ++ u) ++ d = t ++ (u ++ d)
        BY <4>3, ConcatAssociative DEF ++
      <4>5. call.out = t ++ u /\ u ++ d = UpTo(Entries, e) /\ call'.out = call.out ++ d
        BY <1>3, <1>4, <2>1, <3>1, <4>2 DEF Listed
      <4> QED
        BY <1>3, <4>2, <4>4, <4>5
    <3> QED
      BY <1>1, <1>3, <1>7, <2>1, <3>2, <3>3 DEF ListsDirs, Listed
  <2>2. CASE o.res # "none"
    <3>1. o.res = "eof" => Listed(Len(Entries))'
      BY <1>3, <1>4, <1>6, <2>2 DEF Listed
    <3> QED
      BY <1>1, <1>3, <1>7, <2>2, <3>1 DEF ListsDirs
  <2> QED
    BY <2>1, <2>2
<1> QED
  BY <1>1, <1>3, <1>5, <1>8, CallsKept

LEMMA CloseDirCalls ==
    ASSUME HandlesInv, CopyInv, CallsInv, Rfsv!CloseDir
    PROVE  CallsInv'
<1> DEFINE cmd(h) == <<"close", h>>
           Then(r, d) == Rfsv!Done(IF call.res = "eof" THEN "none" ELSE call.res)
<1>1. call.op \in {"dir", "dircount"} /\ call.at = "closedir"
  BY Zenon DEF Rfsv!CloseDir, Rfsv!At
<1>2. PICK h, o : /\ Outcome(cmd(h), o) /\ Taken(o) /\ proto' = proto
                  /\ call' = [Then(o.res, o.data) EXCEPT !.renewed = @ \/ o.renewed]
  BY Zenon DEF Rfsv!CloseDir, Rfsv!Exchange, Outcome, Taken
<1>3. /\ call'.op = call.op /\ call'.to = call.to /\ call'.out = call.out /\ call'.at = "done"
      /\ call'.res = "none" => call.res \in {"none", "eof"}
      /\ call'.res # "eof"
  BY <1>2 DEF HandlesInv, RunShape, Rfsv!Done, Rfsv!Ends
<1>4. Short(server')
  <2>1. PICK c : c = cmd(h)
    OBVIOUS
  <2>2. Quiet(c) /\ Sent(c)
    BY <1>2, <2>1 DEF Quiet, Sent
  <2> QED
    BY <2>2, QuietFits, SentFits
<1>5. ListsDirs'
  BY <1>1, <1>3 DEF CallsInv, ListsDirs, Listed
<1> QED
  BY <1>1, <1>3, <1>4, <1>5, CallsKept

-----------------------------------------------------------------------------
(* Drives.                                                                 *)

LEMMA DevListOutcome ==
    ASSUME ServerShape(server), NEW c, c[1] = "devlist", NEW o, Outcome(c, o), o.res = "none"
    PROVE  o.data = DriveNames
<1>1. Command(c)
  BY DEF Command, Others
<1>2. PICK s : Replied(s, c, o)
  BY <1>1, OutcomeIs DEF Failed, LostAt
<1>3. PICK e \in Rfsv!Execute(s, c) : o.data = e.data
  BY <1>2 DEF Replied
<1> QED
  BY <1>3 DEF Rfsv!Execute, Rfsv!Reply, DriveNames

LEMMA DriveOutcome ==
    ASSUME ServerShape(server), NEW n \in DriveNames, NEW c, c = <<"drive", n>>, NEW o, Outcome(c, o)
    PROVE  (o.res = "none" => Drives[n] = "ready") /\ (o.res = "notready" => Drives[n] = "notready")
<1>1. Command(c) /\ c[1] = "drive" /\ c[2] = n
  BY DEF Command, Others
<1>2. o.res \in {"none", "notready"} => \E s : Replied(s, c, o)
  BY <1>1, OutcomeIs DEF Failed, LostAt
<1>3. ASSUME NEW s, Replied(s, c, o) PROVE o.res = IF Drives[n] = "ready" THEN "none" ELSE Drives[n]
  BY <1>1, <1>3 DEF Replied, Rfsv!Execute, Rfsv!Reply
<1>4. Drives[n] \in {"ready", "notready", "failing"}
  BY CallsAssumption DEF DriveNames
<1> QED
  BY <1>2, <1>3, <1>4

LEMMA LookedAt ==
    ASSUME NEW S, NEW buf \in Seq(S), buf # <<>>, NEW out \in Seq(S)
    PROVE  /\ Head(buf) \in S /\ Tail(buf) \in Seq(S) /\ Append(out, Head(buf)) \in Seq(S)
           /\ \A n : In(n, buf) => n = Head(buf) \/ In(n, Tail(buf))
           /\ \A n : In(n, Append(out, Head(buf))) <=> In(n, out) \/ n = Head(buf)
<1>1. Len(buf) \in Nat \ {0} /\ Head(buf) = buf[1] /\ Head(buf) \in S /\ Tail(buf) \in Seq(S)
  OBVIOUS
<1>2. Len(Tail(buf)) = Len(buf) - 1 /\ \A i \in 1 .. Len(buf) - 1 : Tail(buf)[i] = buf[i + 1]
  OBVIOUS
<1>3. ASSUME NEW n, In(n, buf), n # Head(buf) PROVE In(n, Tail(buf))
  <2>1. PICK i \in 1 .. Len(buf) : buf[i] = n
    BY <1>3 DEF In
  <2>2. i - 1 \in 1 .. Len(Tail(buf)) /\ Tail(buf)[i - 1] = n
    BY <1>1, <1>2, <1>3, <2>1
  <2> QED
    BY <2>2 DEF In
<1>4. PICK x \in S : x = Head(buf)
  BY <1>1
<1>5. PICK more : more = Append(out, x)
  OBVIOUS
<1>6. /\ Len(out) \in Nat /\ Len(more) = Len(out) + 1 /\ more \in Seq(S)
      /\ more[Len(out) + 1] = x /\ \A i \in 1 .. Len(out) : more[i] = out[i]
  BY <1>5
<1>7. \A n : In(n, more) <=> In(n, out) \/ n = x
  BY <1>6 DEF In
<1> QED
  BY <1>1, <1>3, <1>4, <1>5, <1>6, <1>7

LEMMA NothingIn == \A n : ~ In(n, <<>>)
BY DEF In

LEMMA DevListCalls ==
    ASSUME HandlesInv, CopyInv, CallsInv, Rfsv!DevList
    PROVE  CallsInv'
<1>1. call.op = "drives" /\ call.at = "devlist" /\ call.buf = <<>> /\ call.out = <<>>
  BY DEF Rfsv!DevList, Rfsv!At, CallsInv, ListsDrives
<1>2. CASE proto = "32"
  <2> DEFINE cmd == <<"devlist", "x">>
             Then(r, d) ==
               IF r # "none" THEN Rfsv!Done(r) ELSE [call EXCEPT !.buf = Rfsv!SetToSeq(d), !.at = "devinfo"]
  <2>1. PICK o : /\ Outcome(cmd, o) /\ Taken(o) /\ proto' = proto
                 /\ call' = [Then(o.res, o.data) EXCEPT !.renewed = @ \/ o.renewed]
    BY <1>2, Zenon DEF Rfsv!DevList, Rfsv!Exchange, Outcome, Taken
  <2>2. /\ call'.op = call.op /\ call'.out = call.out
        /\ IF o.res = "none" THEN call'.at = "devinfo" /\ call'.buf = Rfsv!SetToSeq(o.data)
           ELSE call'.at = "done" /\ call'.res = o.res
    BY <2>1 DEF HandlesInv, RunShape, Rfsv!Done, Rfsv!Ends
  <2>3. PICK c : c = cmd
    OBVIOUS
  <2>4. Quiet(c) /\ Sent(c) /\ Outcome(c, o) /\ c[1] = "devlist"
    BY <2>1, <2>3 DEF Quiet, Sent
  <2> HIDE DEF cmd, Then
  <2>5. Short(server')
    BY <2>4, QuietFits, SentFits
  <2>6. o.res = "none" => o.data = DriveNames
    BY <2>4, DevListOutcome DEF HandlesInv
  <2>7. o.res = "none" => call'.buf = DriveList
    BY <2>2, <2>6, DriveListIs
  <2>8. ListsDrives'
    <3>1. CASE o.res = "none"
      <4>1. \A n \in DriveNames : In(n, call'.buf) /\ ~ In(n, call'.out)
        BY <1>1, <2>2, <2>7, <3>1, DriveListIs, NothingIn DEF In
      <4>2. Looked'
        BY <4>1 DEF Looked
      <4>3. call'.out \in Seq(DriveNames) /\ call'.buf \in Seq(DriveNames)
        BY <1>1, <2>2, <2>7, <3>1, DriveListIs
      <4> QED
        BY <2>2, <3>1, <4>2, <4>3 DEF ListsDrives
    <3>2. CASE o.res # "none"
      BY <2>2, <3>2 DEF ListsDrives
    <3> QED
      BY <3>1, <3>2
  <2> QED
    BY <1>1, <2>2, <2>5, <2>8, CallsKept
<1>3. CASE proto # "32"
  <2> DEFINE cmd == <<"parse", "x">>
             Then(r, d) == IF r # "none" THEN Rfsv!Done(r) ELSE Rfsv!Next_("devopen")
  <2>1. PICK o : /\ Outcome(cmd, o) /\ Taken(o) /\ proto' = proto
                 /\ call' = [Then(o.res, o.data) EXCEPT !.renewed = @ \/ o.renewed]
    BY <1>3, Zenon DEF Rfsv!DevList, Rfsv!Exchange, Outcome, Taken
  <2>2. /\ call'.op = call.op /\ call'.out = call.out /\ call'.buf = call.buf
        /\ IF o.res = "none" THEN call'.at = "devopen" ELSE call'.at = "done" /\ call'.res = o.res
    BY <2>1 DEF HandlesInv, RunShape, Rfsv!Done, Rfsv!Ends, Rfsv!Next_
  <2>3. PICK c : c = cmd
    OBVIOUS
  <2>4. Quiet(c) /\ Sent(c)
    BY <2>1, <2>3 DEF Quiet, Sent
  <2>5. Short(server')
    BY <2>4, QuietFits, SentFits
  <2>6. ListsDrives'
    BY <1>1, <1>3, <2>1, <2>2 DEF ListsDrives, HandlesInv
  <2> QED
    BY <1>1, <2>2, <2>5, <2>6, CallsKept
<1> QED
  BY <1>2, <1>3

LEMMA DevOpenCalls ==
    ASSUME HandlesInv, CopyInv, CallsInv, Rfsv!DevOpen
    PROVE  CallsInv'
<1> DEFINE cmd == <<"open", "dir", "drives">>
           Then(r, d) == CASE r = "none" -> [call EXCEPT !.h = d, !.at = "devread"]
                           [] r = "disc" -> Rfsv!Done(r)
                           [] OTHER -> Rfsv!Next_("devinfo")
<1>1. /\ call.op = "drives" /\ call.at = "devopen" /\ call.buf = <<>> /\ call.out = <<>> /\ proto = "16"
  BY DEF Rfsv!DevOpen, Rfsv!At, CallsInv, ListsDrives
<1>2. PICK o : /\ Outcome(cmd, o) /\ Taken(o) /\ proto' = proto
               /\ call' = [Then(o.res, o.data) EXCEPT !.renewed = @ \/ o.renewed]
  BY Zenon DEF Rfsv!DevOpen, Rfsv!Exchange, Outcome, Taken
<1>3. /\ call'.op = call.op /\ call'.out = call.out /\ call'.buf = call.buf
      /\ \/ o.res = "none" /\ call'.at = "devread" /\ call'.h = o.data
         \/ call'.at = "done" /\ call'.res = "disc"
         \/ call'.at = "devinfo"
  <2>1. CASE o.res = "none"
    BY <1>2, <2>1 DEF HandlesInv, RunShape
  <2>2. CASE o.res = "disc"
    BY <1>2, <2>2 DEF HandlesInv, RunShape, Rfsv!Done, Rfsv!Ends
  <2>3. CASE o.res \notin {"none", "disc"}
    BY <1>2, <2>3 DEF HandlesInv, RunShape, Rfsv!Next_
  <2> QED
    BY <2>1, <2>2, <2>3
<1>4. PICK c : c = cmd
  OBVIOUS
<1>5. Quiet(c) /\ Sent(c) /\ Outcome(c, o) /\ c[1] = "open" /\ c[2] = "dir" /\ c[3] = "drives"
  BY <1>2, <1>4 DEF Quiet, Sent
<1> HIDE DEF cmd, Then
<1>6. Short(server')
  BY <1>5, QuietFits, SentFits
<1>7. o.res = "none" => Named(o.server, o.data, "drives", 0)
  BY <1>5, OpenDirOutcome DEF HandlesInv
<1>8. ListsDrives'
  <2>1. CASE call'.at = "devread" /\ o.res = "none" /\ call'.h = o.data
    <3>1. Own("drives", 0)'
      BY <1>2, <1>7, <2>1 DEF Own, Taken, Named
    <3>2. 0 \in 0 .. Len(DriveList) /\ call'.buf = UpTo(DriveList, 0)
      BY <1>1, <1>3, DriveListIs, FrontEnds
    <3> QED
      BY <1>1, <1>3, <2>1, <3>1, <3>2 DEF ListsDrives
  <2>2. CASE call'.at = "done" /\ call'.res = "disc"
    BY <1>1, <1>3, <2>2 DEF ListsDrives
  <2>3. CASE call'.at = "devinfo"
    <3>1. PICK e : e = <<>>
      OBVIOUS
    <3>2. e \in Seq(DriveNames)
      BY <3>1
    <3> QED
      BY <1>1, <1>2, <1>3, <2>3, <3>1, <3>2 DEF ListsDrives, Looked
  <2> QED
    BY <1>3, <2>1, <2>2, <2>3
<1> QED
  BY <1>1, <1>3, <1>6, <1>8, CallsKept

LEMMA DevReadCalls ==
    ASSUME HandlesInv, CopyInv, CallsInv, Rfsv!DevRead
    PROVE  CallsInv'
<1> DEFINE cmd == <<"readdir", call.h>>
           Then(r, d) ==
             IF Rfsv!Unsent(r, d) THEN Rfsv!Done(r)
             ELSE IF r # "none" THEN Rfsv!Ends("devclose", IF r = "eof" THEN "none" ELSE r)
             ELSE [call EXCEPT !.buf = @ \o d]
<1>1. call.op = "drives" /\ call.at = "devread" /\ call.out = <<>>
  BY DEF Rfsv!DevRead, Rfsv!At, CallsInv, ListsDrives
<1>2. PICK p \in 0 .. Len(DriveList) : call.buf = UpTo(DriveList, p) /\ Own("drives", p)
  BY <1>1 DEF CallsInv, ListsDrives
<1>3. PICK o : /\ Outcome(cmd, o) /\ Taken(o) /\ proto' = proto
               /\ call' = [Then(o.res, o.data) EXCEPT !.renewed = @ \/ o.renewed]
  BY Zenon DEF Rfsv!DevRead, Rfsv!Exchange, Outcome, Taken
<1>4. /\ call'.op = call.op /\ call'.h = call.h /\ call'.out = call.out
      /\ \/ o.res = "none" /\ call'.at = "devread" /\ call'.buf = call.buf ++ o.data
         \/ o.res = "eof" /\ call'.at = "devclose" /\ call'.buf = call.buf
         \/ call'.at \in {"devclose", "done"} /\ call'.res # "none"
  <2>1. PICK x : x = call.buf \o o.data
    OBVIOUS
  <2>2. CASE o.res = "none"
    <3>1. call' = [[call EXCEPT !.buf = x] EXCEPT !.renewed = @ \/ o.renewed]
      BY <1>3, <2>1, <2>2 DEF Rfsv!Unsent
    <3> QED
      BY <1>1, <2>1, <2>2, <3>1 DEF HandlesInv, RunShape, ++
  <2>3. CASE o.res # "none"
    BY <1>3, <2>3 DEF HandlesInv, RunShape, Rfsv!Done, Rfsv!Ends, Rfsv!Unsent
  <2> QED
    BY <2>2, <2>3
<1>5. Short(server')
  <2>1. PICK c : c = cmd
    OBVIOUS
  <2>2. Quiet(c) /\ Sent(c)
    BY <1>3, <2>1 DEF Quiet, Sent
  <2> QED
    BY <2>2, QuietFits, SentFits
<1>6. /\ o.res = "eof" => p = Len(DriveList)
      /\ o.res = "none" => \E e \in 0 .. Len(DriveList) : /\ UpTo(DriveList, p) ++ o.data = UpTo(DriveList, e)
                                                          /\ Named(o.server, call.h, "drives", e)
  <2>1. PICK h, c : h = call.h /\ c = <<"readdir", h>> /\ c = cmd
    OBVIOUS
  <2>2. status = "none" /\ h \in DOMAIN server.handles => Named(server, h, "drives", p)
    BY <1>2, <2>1 DEF Own, HasSource
  <2>3. DriveList = Directory("drives")
    BY DriveListIs DEF Directory
  <2>4. Outcome(c, o) /\ DriveList \in Seq(DriveNames)
    BY <1>3, <2>1, DriveListIs
  <2> HIDE DEF cmd, Then
  <2>5. o.res \in {"none", "eof"} =>
          /\ o.res = "eof" => p = Len(DriveList)
          /\ o.res = "none" => /\ o.data \in Seq(DriveNames)
                               /\ \E e \in 0 .. Len(DriveList) : /\ UpTo(DriveList, p) ++ o.data = UpTo(DriveList, e)
                                                                 /\ Named(o.server, h, "drives", e)
    BY <2>1, <2>2, <2>3, <2>4, ReadDirOutcome DEF HandlesInv
  <2> QED
    BY <2>1, <2>5
<1> HIDE DEF cmd, Then
<1>7. ListsDrives'
  <2>1. CASE o.res = "none" /\ call'.at = "devread" /\ call'.buf = call.buf ++ o.data
    <3>1. PICK e \in 0 .. Len(DriveList) : /\ UpTo(DriveList, p) ++ o.data = UpTo(DriveList, e)
                                           /\ Named(o.server, call.h, "drives", e)
      BY <1>6, <2>1
    <3>2. Own("drives", e)' /\ call'.buf = UpTo(DriveList, e)
      BY <1>2, <1>3, <1>4, <2>1, <3>1 DEF Own, Taken, Named
    <3> QED
      BY <1>1, <1>4, <2>1, <3>2 DEF ListsDrives
  <2>2. CASE o.res = "eof" /\ call'.at = "devclose" /\ call'.buf = call.buf
    <3>1. call'.buf = DriveList
      BY <1>2, <1>6, <2>2, DriveListIs, FrontEnds
    <3> QED
      BY <1>1, <1>4, <2>2, <3>1 DEF ListsDrives
  <2>3. CASE call'.at \in {"devclose", "done"} /\ call'.res # "none"
    BY <1>1, <1>4, <2>3 DEF ListsDrives
  <2> QED
    BY <1>4, <2>1, <2>2, <2>3
<1> QED
  BY <1>1, <1>4, <1>5, <1>7, CallsKept

LEMMA DevCloseCalls ==
    ASSUME HandlesInv, CopyInv, CallsInv, Rfsv!DevClose
    PROVE  CallsInv'
<1> DEFINE cmd == <<"close", call.h>>
           Then(r, d) == IF call.res = "none" THEN Rfsv!Next_("devinfo") ELSE Rfsv!Done(call.res)
<1>1. /\ call.op = "drives" /\ call.at = "devclose" /\ call.out = <<>>
      /\ call.res = "none" => call.buf = DriveList
  BY DEF Rfsv!DevClose, Rfsv!At, CallsInv, ListsDrives
<1>2. PICK o : /\ Outcome(cmd, o) /\ Taken(o) /\ proto' = proto
               /\ call' = [Then(o.res, o.data) EXCEPT !.renewed = @ \/ o.renewed]
  BY Zenon DEF Rfsv!DevClose, Rfsv!Exchange, Outcome, Taken
<1>3. /\ call'.op = call.op /\ call'.out = call.out /\ call'.buf = call.buf
      /\ IF call.res = "none" THEN call'.at = "devinfo" ELSE call'.at = "done" /\ call'.res = call.res
  BY <1>2 DEF HandlesInv, RunShape, Rfsv!Done, Rfsv!Ends, Rfsv!Next_
<1>4. Short(server')
  <2>1. PICK c : c = cmd
    OBVIOUS
  <2>2. Quiet(c) /\ Sent(c)
    BY <1>2, <2>1 DEF Quiet, Sent
  <2> QED
    BY <2>2, QuietFits, SentFits
<1>5. ListsDrives'
  <2>1. CASE call.res = "none"
    <3>1. \A n \in DriveNames : In(n, call'.buf) /\ ~ In(n, call'.out)
      BY <1>1, <1>3, <2>1, DriveListIs, NothingIn DEF In
    <3>2. call'.out \in Seq(DriveNames) /\ call'.buf \in Seq(DriveNames)
      BY <1>1, <1>3, <2>1, DriveListIs
    <3> QED
      BY <1>3, <2>1, <3>1, <3>2 DEF ListsDrives, Looked
  <2>2. CASE call.res # "none"
    BY <1>3, <2>2 DEF ListsDrives
  <2> QED
    BY <2>1, <2>2
<1> QED
  BY <1>1, <1>3, <1>4, <1>5, CallsKept

LEMMA DevParseCalls ==
    ASSUME HandlesInv, CopyInv, CallsInv, Rfsv!DevParse
    PROVE  CallsInv'
<1> DEFINE cmd == <<"parse", "x">>
           Then(r, d) == IF r # "none" THEN Rfsv!Done(r) ELSE Rfsv!Next_("devstatus")
<1>1. call.op = "drives" /\ call.at = "devinfo"
  BY DEF Rfsv!DevParse, Rfsv!At
<1>2. PICK o : /\ Outcome(cmd, o) /\ Taken(o) /\ proto' = proto
               /\ call' = [Then(o.res, o.data) EXCEPT !.renewed = @ \/ o.renewed]
  BY Zenon DEF Rfsv!DevParse, Rfsv!Exchange, Outcome, Taken
<1>3. /\ call'.op = call.op /\ call'.out = call.out /\ call'.buf = call.buf
      /\ IF o.res = "none" THEN call'.at = "devstatus" ELSE call'.at = "done" /\ call'.res = o.res
  BY <1>2 DEF HandlesInv, RunShape, Rfsv!Done, Rfsv!Ends, Rfsv!Next_
<1>4. Short(server')
  <2>1. PICK c : c = cmd
    OBVIOUS
  <2>2. Quiet(c) /\ Sent(c)
    BY <1>2, <2>1 DEF Quiet, Sent
  <2> QED
    BY <2>2, QuietFits, SentFits
<1>5. ListsDrives'
  BY <1>1, <1>2, <1>3 DEF CallsInv, ListsDrives, Looked
<1> QED
  BY <1>1, <1>3, <1>4, <1>5, CallsKept

LEMMA DevInfoCalls ==
    ASSUME HandlesInv, CopyInv, CallsInv, Rfsv!DevInfo
    PROVE  CallsInv'
<1>1. call.op = "drives" /\ call.at \in {"devinfo", "devstatus"}
  BY DEF Rfsv!DevInfo, Rfsv!At
<1>2. call.buf \in Seq(DriveNames) /\ call.out \in Seq(DriveNames) /\ Looked
  BY <1>1 DEF CallsInv, ListsDrives
<1>3. CASE call.buf = <<>>
  <2>1. Rfsv!Goes(Rfsv!Done("none"))
    BY <1>3, Zenon DEF Rfsv!DevInfo
  <2>2. /\ call'.op = call.op /\ call'.at = "done" /\ call'.buf = call.buf /\ call'.out = call.out
        /\ server' = server /\ proto' = proto
    BY <2>1 DEF Rfsv!Goes, Rfsv!Done, Rfsv!Ends, HandlesInv, RunShape
  <2>3. ListsDrives'
    BY <1>2, <1>3, <2>2 DEF ListsDrives, Looked
  <2> QED
    BY <1>1, <2>2, <2>3, CallsKept DEF CallsInv
<1>4. CASE call.buf # <<>>
  <2> DEFINE cmd == <<"drive", Head(call.buf)>>
             Then(r, d) ==
               CASE r = "none" -> [call EXCEPT !.buf = Tail(@), !.out = Append(@, Head(call.buf)), !.at = "devinfo"]
                 [] r = "notready" -> [call EXCEPT !.buf = Tail(@), !.at = "devinfo"]
                 [] OTHER -> Rfsv!Done(r)
  <2>1. PICK o : /\ Outcome(cmd, o) /\ Taken(o) /\ proto' = proto
                 /\ call' = [Then(o.res, o.data) EXCEPT !.renewed = @ \/ o.renewed]
    BY <1>4, Zenon DEF Rfsv!DevInfo, Rfsv!Exchange, Outcome, Taken
  <2>2. PICK x, rest, more : x = Head(call.buf) /\ rest = Tail(call.buf) /\ more = Append(call.out, x)
    OBVIOUS
  <2>3. /\ x \in DriveNames /\ rest \in Seq(DriveNames) /\ more \in Seq(DriveNames)
        /\ \A n : In(n, call.buf) => n = x \/ In(n, rest)
        /\ \A n : In(n, more) <=> In(n, call.out) \/ n = x
    BY <1>2, <1>4, <2>2, LookedAt
  <2>4. /\ call'.op = call.op
        /\ \/ o.res = "none" /\ call'.at = "devinfo" /\ call'.buf = rest /\ call'.out = more
           \/ o.res = "notready" /\ call'.at = "devinfo" /\ call'.buf = rest /\ call'.out = call.out
           \/ call'.at = "done" /\ call'.res # "none"
    <3>1. CASE o.res = "none"
      <4>1. call' = [[call EXCEPT !.buf = rest, !.out = more, !.at = "devinfo"] EXCEPT !.renewed = @ \/ o.renewed]
        BY <2>1, <2>2, <3>1
      <4> QED
        BY <3>1, <4>1 DEF HandlesInv, RunShape
    <3>2. CASE o.res = "notready"
      <4>1. call' = [[call EXCEPT !.buf = rest, !.at = "devinfo"] EXCEPT !.renewed = @ \/ o.renewed]
        BY <2>1, <2>2, <3>2
      <4> QED
        BY <3>2, <4>1 DEF HandlesInv, RunShape
    <3>3. CASE o.res \notin {"none", "notready"}
      <4>1. call' = [Rfsv!Done(o.res) EXCEPT !.renewed = @ \/ o.renewed]
        BY <2>1, <3>3
      <4> QED
        BY <3>3, <4>1 DEF HandlesInv, RunShape, Rfsv!Done, Rfsv!Ends
    <3> QED
      BY <3>1, <3>2, <3>3
  <2>5. PICK c : c = cmd
    OBVIOUS
  <2>6. Quiet(c) /\ Sent(c) /\ Outcome(c, o) /\ c = <<"drive", x>>
    BY <2>1, <2>2, <2>5 DEF Quiet, Sent
  <2> HIDE DEF cmd, Then
  <2>7. Short(server')
    BY <2>6, QuietFits, SentFits
  <2>8. (o.res = "none" => Drives[x] = "ready") /\ (o.res = "notready" => Drives[x] = "notready")
    BY <2>3, <2>6, DriveOutcome DEF HandlesInv
  <2>9. \A n \in DriveNames : /\ In(n, call.out) => Drives[n] = "ready"
                              /\ Drives[n] = "ready" => In(n, call.buf) \/ In(n, call.out)
    BY <1>2, <1>4 DEF Looked
  <2>10. ListsDrives'
    <3>1. CASE o.res = "none" /\ call'.at = "devinfo" /\ call'.buf = rest /\ call'.out = more
      BY <2>3, <2>8, <2>9, <3>1 DEF ListsDrives, Looked
    <3>2. CASE o.res = "notready" /\ call'.at = "devinfo" /\ call'.buf = rest /\ call'.out = call.out
      <4>1. "notready" # "ready"
        OBVIOUS
      <4> QED
        BY <1>2, <2>3, <2>8, <2>9, <3>2, <4>1 DEF ListsDrives, Looked
    <3>3. CASE call'.at = "done" /\ call'.res # "none"
      BY <3>3 DEF ListsDrives
    <3> QED
      BY <2>4, <3>1, <3>2, <3>3
  <2> QED
    BY <1>1, <2>4, <2>7, <2>10, CallsKept
<1> QED
  BY <1>3, <1>4

-----------------------------------------------------------------------------
(* fseek.                                                                  *)

LEMMA WrapSmall ==
    ASSUME NEW n \in Nat, n < Half * Half
    PROVE  Rfsv!Wrap(n) = n
<1>1. PICK w \in Nat \ {0} : w = Half * Half
  BY RfsvAssumption
<1>2. n % w = n
  BY <1>1
<1> QED
  BY <1>1, <1>2 DEF Rfsv!Wrap

(* The handles that an exchange leaves are still of what they were of.     *)
LEMMA SeekOwns ==
    ASSUME ServerShape(server), server.files \in FileSets, status \in {"none", "disc"},
           status = "none" => Positioned(server),
           NEW c, c[1] = "seek", NEW o, Outcome(c, o), o.res = "none",
           NEW h, NEW n, status = "none" /\ h \in DOMAIN server.handles => \E p : Named(server, h, n, p)
    PROVE  h \in DOMAIN o.server.handles => \E q : Named(o.server, h, n, q)
<1>1. c[1] \in OnHandles /\ o.res \notin {"disc", "general", "handle"}
  BY DEF OnHandles
<1>2. PICK y : y = c[2]
  OBVIOUS
<1>3. /\ y \in DOMAIN server.handles /\ status = "none"
      /\ \E e \in Rfsv!OnHandle(server, y, c) : o.server = e.server /\ o.res = e.res /\ o.data = e.data
  BY <1>1, <1>2, HandleSaid
<1>4. PICK e \in Rfsv!OnHandle(server, y, c) : o.server = e.server
  BY <1>3
<1>5. e \in Rfsv!Execute(server, c)
  BY <1>2, <1>3, <1>4 DEF Rfsv!Execute
<1>6. DOMAIN o.server.handles = DOMAIN server.handles
  BY <1>1, <1>4, <1>5, ExecuteOnHandle
<1>7. ASSUME h \in DOMAIN o.server.handles PROVE \E q : Named(o.server, h, n, q)
  <2>1. PICK p : Named(server, h, n, p)
    BY <1>3, <1>6, <1>7
  <2> QED
    BY <1>3, <2>1, SeekKeepsName
<1> QED
  BY <1>7

(* What a command of fseek leaves, if it succeeds.                         *)
LEMMA SeekLeaves ==
    ASSUME HandlesInv, CopyInv, CallsInv, call.op = "seek", call.at \in SeekAt,
           NEW c, c[1] = "seek" \/ \E n \in Nat : c = <<"setsize", call.h, n>>,
           NEW o, Outcome(c, o), Taken(o), call'.h = call.h
    PROVE  /\ Short(server')
           /\ o.res = "none" => \E q : Own("from", q)'
           /\ c[1] = "seek" => Len(From)' = Len(From)
<1>1. /\ ServerShape(server) /\ server.files \in FileSets /\ status \in {"none", "disc"}
      /\ status = "none" => Positioned(server)
  BY DEF HandlesInv, CopyInv, Seeks
<1>2. PICK h : h = call.h
  OBVIOUS
<1>3. status = "none" /\ h \in DOMAIN server.handles => \E p : Named(server, h, "from", p)
  BY <1>2 DEF CallsInv, SeeksAs, Own, HasSource
<1>4. Sent(c)
  BY DEF Sent
<1>5. server' = o.server
  BY DEF Taken
<1>6. CASE c[1] = "seek"
  <2>1. Quiet(c)
    BY <1>6 DEF Quiet
  <2>2. Short(server')
    BY <1>4, <2>1, QuietFits, SentFits
  <2>3. o.res = "none" => (h \in DOMAIN o.server.handles => \E q : Named(o.server, h, "from", q))
    BY <1>1, <1>3, <1>6, SeekOwns
  <2>4. o.server.files = server.files
    BY <1>1, <2>1, QuietFits, OutcomeQuiet
  <2>5. o.res = "none" => \E q : Own("from", q)'
    BY <1>2, <1>5, <2>3 DEF Own, HasSource
  <2>6. Len(From)' = Len(From)
    BY <1>5, <2>4 DEF From
  <2> QED
    BY <2>2, <2>5, <2>6
<1>7. CASE \E n \in Nat : c = <<"setsize", call.h, n>>
  <2>1. PICK n \in Nat : c = <<"setsize", h, n>>
    BY <1>2, <1>7
  <2>2. Short(server')
    BY <1>4, <2>1, SizeFits, SentFits
  <2>3. o.res = "none" => \E p : Named(o.server, h, "from", p)
    BY <1>1, <1>3, <2>1, SizeSet
  <2>4. o.res = "none" => \E q : Own("from", q)'
    BY <1>2, <1>5, <2>3 DEF Own, HasSource
  <2>5. c[1] # "seek"
    BY <2>1
  <2> QED
    BY <2>2, <2>4, <2>5
<1> QED
  BY <1>6, <1>7

LEMMA SeekEnds ==
    ASSUME Short(server'), call'.op = "seek",
           \/ call'.at = "close" /\ call'.res # "none"
           \/ /\ call'.at \in SeekAt \ {"position"} => \E q : Own("from", q)'
              /\ call'.at \in (SeekAt \ {"position"}) \cup {"close", "done"}
              /\ \E k, n, pos, mode : Asks(k, n, pos, mode)' /\ Meets(k, n, pos, mode)'
    PROVE  CallsInv'
<1>1. SeeksAs'
  BY DEF SeeksAs, SeekAt
<1> QED
  BY <1>1, CallsKept

LEMMA OpenSeekCalls ==
    ASSUME HandlesInv, CopyInv, CallsInv, Rfsv!OpenRead, call.op = "seek"
    PROVE  CallsInv'
<1> DEFINE cmd == <<"open", "read", "from">>
           Then(r, d) ==
             IF r # "none" THEN Rfsv!Done(r)
             ELSE [call EXCEPT !.h = d, !.at = CASE call.op = "copyFrom" -> "local"
                                                 [] call.op = "copyOn" -> "create" [] OTHER -> "position"]
<1>1. call.at = "open" /\ ~ call.eof
  BY DEF Rfsv!OpenRead, Rfsv!At, CallsInv, SeeksAs
<1>2. PICK o : /\ Outcome(cmd, o) /\ Taken(o) /\ proto' = proto
               /\ call' = [Then(o.res, o.data) EXCEPT !.renewed = @ \/ o.renewed]
  BY Zenon DEF Rfsv!OpenRead, Rfsv!Exchange, Outcome, Taken
<1>3. /\ call'.op = "seek" /\ call'.eof = call.eof
      /\ IF o.res = "none" THEN call'.at = "position" /\ call'.h = o.data ELSE call'.at = "done" /\ call'.res = o.res
  BY <1>2 DEF HandlesInv, RunShape, Rfsv!Done, Rfsv!Ends
<1>4. PICK c : c = cmd
  OBVIOUS
<1>5. Quiet(c) /\ Sent(c) /\ Outcome(c, o) /\ c = <<"open", "read", "from">> /\ c[1] = "open"
  BY <1>2, <1>4 DEF Quiet, Sent
<1> HIDE DEF cmd, Then
<1>6. Short(server')
  BY <1>5, QuietFits, SentFits
<1>7. o.res = "none" => Named(o.server, o.data, "from", 0)
  <2>1. /\ ServerShape(server) /\ server.files \in FileSets /\ status \in {"none", "disc"}
        /\ c[2] = "read" /\ c[3] = "from"
    BY <1>5 DEF HandlesInv, CopyInv
  <2>2. PICK s : /\ ServerShape(s) /\ s.files \in FileSets
                 /\ \/ s = server /\ status = "none" /\ o.renewed = FALSE
                    \/ DOMAIN s.handles = {} /\ o.renewed = TRUE
                 /\ o.res # "none" => o.status = "disc" \/ o.server = s
                 /\ o.res = "none" =>
                      /\ o.status = "none" /\ o.data \in {1, 2} \ DOMAIN s.handles
                      /\ Named(o.server, o.data, c[3], 0)
                      /\ DOMAIN o.server.handles = DOMAIN s.handles \cup {o.data}
                      /\ \A y \in DOMAIN s.handles : o.server.handles[y] = s.handles[y]
                      /\ c[3] \in DOMAIN o.server.files
                      /\ c[3] = "to" => o.server.files[c[3]] = <<>>
    BY <1>5, <2>1, OpenOutcome
  <2> QED
    BY <2>1, <2>2
<1>8. SeeksAs'
  <2>1. CASE o.res = "none"
    <3>1. \E q : Own("from", q)'
      BY <1>2, <1>3, <1>7, <2>1 DEF Own, Taken
    <3> QED
      BY <1>1, <1>3, <2>1, <3>1 DEF SeeksAs, SeekAt
  <2>2. CASE o.res # "none"
    BY <1>3, <2>2 DEF SeeksAs, SeekAt
  <2> QED
    BY <2>1, <2>2
<1> QED
  BY <1>3, <1>6, <1>8, CallsKept

LEMMA CloseSeekCalls ==
    ASSUME HandlesInv, CopyInv, CallsInv, Rfsv!Close, call.op = "seek"
    PROVE  CallsInv'
<1> DEFINE cmd == <<"close", IF call.op = "copyTo" THEN call.to ELSE call.h>>
           Then(r, d) == IF call.op = "copyOn" /\ call.to # 0 THEN Rfsv!Next_("closeTo") ELSE Rfsv!Next_("done")
<1>1. call.at = "close"
  BY DEF Rfsv!Close, Rfsv!At
<1>2. PICK o : /\ Outcome(cmd, o) /\ Taken(o) /\ proto' = proto
               /\ call' = [Then(o.res, o.data) EXCEPT !.renewed = @ \/ o.renewed]
  BY Zenon DEF Rfsv!Close, Rfsv!Exchange, Outcome, Taken
<1>3. call'.op = "seek" /\ call'.at = "done" /\ call'.res = call.res /\ call'.out = call.out /\ call'.buf = call.buf
  BY <1>2 DEF HandlesInv, RunShape, Rfsv!Next_
<1>4. PICK c : c = cmd
  OBVIOUS
<1>5. Quiet(c) /\ Sent(c) /\ Outcome(c, o)
  BY <1>2, <1>4 DEF Quiet, Sent
<1> HIDE DEF cmd, Then
<1>6. Short(server')
  BY <1>5, QuietFits, SentFits
<1>7. server'.files = server.files
  BY <1>2, <1>5, QuietFits, OutcomeQuiet DEF HandlesInv, CopyInv, Taken
<1>8. SeeksAs'
  <2>1. CASE call.res = "none"
    <3>1. PICK k, n, pos, mode : Asks(k, n, pos, mode) /\ Meets(k, n, pos, mode)
      BY <1>1, <2>1 DEF CallsInv, SeeksAs
    <3>2. Asks(k, n, pos, mode)'
      BY <1>3, <3>1 DEF Asks
    <3>3. Good(pos, mode) <=> Good(pos, mode)'
      BY <1>2 DEF Good
    <3>4. Meets(k, n, pos, mode)'
      BY <1>1, <1>3, <1>7, <3>1, <3>3 DEF Meets, From
    <3> QED
      BY <1>3, <3>2, <3>4 DEF SeeksAs, SeekAt
  <2>2. CASE call.res # "none"
    BY <1>3, <2>2 DEF SeeksAs, SeekAt
  <2> QED
    BY <2>1, <2>2
<1> QED
  BY <1>3, <1>6, <1>8, CallsKept

LEMMA PositionCalls ==
    ASSUME HandlesInv, CopyInv, CallsInv, Rfsv!Position
    PROVE  CallsInv'
<1> DEFINE next(pos, mode, k) ==
             [call EXCEPT !.buf = <<<<pos, mode>>, 0>>,
                          !.out = <<k, Len(server.files.from), pos, mode>>,
                          !.at = IF mode > 1 /\ pos >= 0 THEN "sense" ELSE "seek"]
<1>1. PICK pos \in Offsets, mode \in 1 .. 3, k \in 0 .. 1 :
        /\ Rfsv!At({"seek"}, "position")
        /\ call' = next(pos, mode, k)
        /\ k <= Len(server.files.from)
        /\ server' = IF call.h \in DOMAIN server.handles THEN Rfsv!MovedTo(server, call.h, k) ELSE server
        /\ UNCHANGED <<proto, status, pcFile, faults>>
  BY Zenon DEF Rfsv!Position
<1>2. PICK n : n = Len(server.files.from)
  OBVIOUS
<1>3. call.op = "seek" /\ call.at = "position"
  BY <1>1 DEF Rfsv!At
<1>4. /\ call'.op = "seek" /\ call'.h = call.h /\ call'.eof = call.eof
      /\ call'.buf[1] = <<pos, mode>> /\ call'.out = <<k, n, pos, mode>>
      /\ call'.at = IF mode > 1 /\ pos >= 0 THEN "sense" ELSE "seek"
  BY <1>1, <1>2, <1>3 DEF HandlesInv, RunShape
<1> HIDE DEF next
<1>5. n \in Nat /\ n = Len(From) /\ pos \in Int
  BY <1>2, FilesAre, BlocksLen, RfsvAssumption DEF CopyInv, From
<1>6. ~ call.eof /\ \E q : Own("from", q)
  BY <1>3 DEF CallsInv, SeeksAs, SeekAt
<1>7. /\ server'.files = server.files
      /\ status' = "none" /\ call'.h \in DOMAIN server'.handles => Named(server', call'.h, "from", k)
  <2>1. CASE call.h \notin DOMAIN server.handles
    BY <1>1, <1>4, <2>1
  <2>2. CASE call.h \in DOMAIN server.handles
    <3>1. PICK h : h = call.h
      OBVIOUS
    <3>2. server' = Rfsv!MovedTo(server, h, k) /\ status' = status
      BY <1>1, <2>2, <3>1
    <3>3. server'.files = server.files
      BY <3>2, PosKeeps DEF HandlesInv
    <3>4. status = "none" => \E q : Named(server, h, "from", q)
      BY <1>6, <2>2, <3>1 DEF Own, HasSource
    <3>5. status = "none" => Named(server', h, "from", k)
      BY <3>2, <3>4, MovedIs DEF HandlesInv
    <3> QED
      BY <1>4, <3>1, <3>2, <3>3, <3>5
  <2> QED
    BY <2>1, <2>2
<1>8. Own("from", k)'
  BY <1>7 DEF Own, HasSource
<1>9. Asks(k, n, pos, mode)'
  BY <1>1, <1>2, <1>4, <1>5 DEF Asks
<1>10. Meets(k, n, pos, mode)'
  <2>1. Len(From)' = n
    BY <1>5, <1>7 DEF From
  <2>2. CASE mode > 1 /\ pos >= 0
    BY <1>1, <1>4, <1>5, <1>6, <1>8, <2>1, <2>2 DEF Meets
  <2>3. CASE ~ (mode > 1 /\ pos >= 0)
    <3>1. ~ (mode = 2 /\ Good(pos, mode)') /\ (mode = 3 => pos < 0)
      BY <1>1, <1>5, <2>3 DEF Good
    <3> QED
      BY <1>1, <1>4, <1>5, <1>6, <2>1, <2>3, <3>1 DEF Meets
  <2> QED
    BY <2>2, <2>3
<1>11. Short(server')
  BY <1>7 DEF CallsInv, Short, Original
<1>12. call'.at \in {"sense", "seek"}
  BY <1>4
<1> QED
  BY <1>4, <1>8, <1>9, <1>10, <1>11, <1>12, SeekEnds DEF SeekAt

LEMMA SenseCalls ==
    ASSUME HandlesInv, CopyInv, CallsInv, Rfsv!Sense
    PROVE  CallsInv'
<1> DEFINE cmd == <<"seek", call.h, 0, Rfsv!Want[2]>>
           Then(r, d) ==
             IF r # "none" THEN Rfsv!Ends("close", r)
             ELSE IF Rfsv!Want[1] = 0 THEN [call EXCEPT !.buf[2] = d, !.at = "close"]
             ELSE [call EXCEPT !.buf[2] = d, !.eof = proto = "16",
                   !.at = IF proto = "32" /\ Rfsv!Want[2] = 3 THEN "expand" ELSE "seek"]
<1>1. call.op = "seek" /\ call.at = "sense" /\ call.at \in SeekAt
  BY Zenon DEF Rfsv!Sense, Rfsv!At, SeekAt
<1>2. PICK o : /\ Outcome(cmd, o) /\ Taken(o) /\ proto' = proto
               /\ call' = [Then(o.res, o.data) EXCEPT !.renewed = @ \/ o.renewed]
  BY Zenon DEF Rfsv!Sense, Rfsv!Exchange, Outcome, Taken
<1>3. PICK k, n, pos, mode : Asks(k, n, pos, mode) /\ Meets(k, n, pos, mode)
  BY <1>1 DEF CallsInv, SeeksAs, SeekAt
<1>4. /\ k \in Nat /\ n \in Nat /\ k <= n /\ mode \in 2 .. 3 /\ pos \in Nat /\ n = Len(From)
      /\ Own("from", k) /\ ~ call.eof
  BY <1>1, <1>3, RfsvAssumption DEF Asks, Meets
<1>5. PICK found : call.buf = <<<<pos, mode>>, found>>
  <2>1. PICK p, q, m : call.buf = <<<<p, m>>, q>>
    BY <1>1 DEF CopyInv, Seeks, SeekAt
  <2>2. call.buf[1] = <<pos, mode>>
    BY <1>1, <1>3 DEF Meets
  <2> QED
    BY <2>1, <2>2
<1>6. cmd = <<"seek", call.h, 0, mode>> /\ Rfsv!Want[1] = pos /\ Rfsv!Want[2] = mode
  BY <1>5 DEF Rfsv!Want
<1>7. /\ call'.op = "seek" /\ call'.h = call.h /\ call'.out = call.out
      /\ IF o.res # "none" THEN call'.at = "close" /\ call'.res # "none"
         ELSE /\ call'.buf = <<<<pos, mode>>, o.data>>
              /\ IF pos = 0 THEN call'.at = "close"
                 ELSE /\ call'.eof = (proto = "16")
                      /\ call'.at = IF proto = "32" /\ mode = 3 THEN "expand" ELSE "seek"
  BY <1>1, <1>2, <1>5, <1>6 DEF HandlesInv, RunShape, Rfsv!Ends
<1>8. PICK c : c = cmd
  OBVIOUS
<1>9. Outcome(c, o) /\ c = <<"seek", call.h, 0, mode>> /\ c[1] = "seek"
  BY <1>2, <1>6, <1>8
<1> HIDE DEF cmd, Then
<1>10. Short(server') /\ (o.res = "none" => \E q : Own("from", q)') /\ Len(From)' = n
  BY <1>1, <1>2, <1>4, <1>7, <1>9, SeekLeaves
<1>11. ASSUME o.res = "none"
       PROVE  o.data = (IF mode = 2 THEN k ELSE n) /\ Own("from", o.data)'
  <2>1. PICK h : h = call.h
    OBVIOUS
  <2>2. /\ ServerShape(server) /\ server.files \in FileSets /\ status \in {"none", "disc"}
        /\ status = "none" /\ h \in DOMAIN server.handles => Named(server, h, "from", k)
        /\ c = <<"seek", h, 0, mode>> /\ k \in Int /\ 0 \in Int
    BY <1>4, <1>9, <2>1 DEF HandlesInv, CopyInv, Own, HasSource
  <2>3. LET q == Rfsv!SeekTo(From, k, 0, mode)
        IN  q >= 0 /\ o.data = Rfsv!Clamp(q, Len(From)) /\ Named(o.server, h, "from", o.data)
    BY <1>9, <1>11, <2>2, SeekFound
  <2>4. o.data = IF mode = 2 THEN k ELSE n
    BY <1>4, <2>3 DEF Rfsv!SeekTo, Rfsv!Clamp
  <2>5. Own("from", o.data)'
    BY <1>2, <1>7, <2>1, <2>3 DEF Own, Taken
  <2> QED
    BY <2>4, <2>5
<1>12. Asks(k, n, pos, mode)'
  BY <1>3, <1>7 DEF Asks
<1>13. ASSUME o.res = "none" PROVE Meets(k, n, pos, mode)'
  <2>1. call'.buf[1] = <<pos, mode>> /\ call'.buf[2] = o.data
    BY <1>7, <1>13
  <2>2. CASE pos = 0
    <3>1. call'.buf[2] = Meant(k, n, pos, mode) /\ Meant(k, n, pos, mode) <= n
      BY <1>4, <1>11, <1>13, <2>1, <2>2 DEF Meant
    <3> QED
      BY <1>7, <1>10, <1>13, <2>2, <3>1 DEF Meets
  <2>3. CASE pos # 0 /\ proto = "32" /\ mode = 3
    <3>0. o.data = n /\ proto # "16"
      BY <1>11, <1>13, <2>3
    <3>1. call'.at = "expand" /\ call'.buf = <<<<pos, mode>>, n>> /\ ~ call'.eof
      BY <1>7, <1>13, <2>3, <3>0
    <3> QED
      BY <1>2, <1>4, <1>10, <2>3, <3>1 DEF Meets
  <2>4. CASE pos # 0 /\ ~ (proto = "32" /\ mode = 3)
    <3>1. call'.at = "seek" /\ (call'.eof <=> proto = "16")
      BY <1>7, <1>13, <2>4
    <3>2. call'.eof => ~ Good(pos, mode)'
      BY <1>2, <1>4, <2>4, <3>1 DEF Good
    <3>3. mode = 2 => call'.buf[2] = k /\ Own("from", k)'
      BY <1>11, <1>13, <2>1
    <3>4. mode = 3 => ~ Good(pos, mode)'
      BY <1>2, <1>4, <2>4 DEF Good, HandlesInv
    <3> QED
      BY <1>10, <2>1, <3>1, <3>2, <3>3, <3>4 DEF Meets
  <2> QED
    BY <2>2, <2>3, <2>4
<1>14. o.res = "none" => call'.at \in (SeekAt \ {"position"}) \cup {"close", "done"}
  BY <1>7 DEF SeekAt
<1> QED
  BY <1>7, <1>10, <1>12, <1>13, <1>14, SeekEnds

LEMMA ExpandCalls ==
    ASSUME HandlesInv, CopyInv, CallsInv, Rfsv!Expand
    PROVE  CallsInv'
<1> DEFINE cmd == <<"setsize", call.h, Rfsv!Wrap(Rfsv!Saved + Rfsv!Want[1])>>
           Then(r, d) ==
             IF r # "none" THEN Rfsv!Ends("close", r) ELSE [call EXCEPT !.buf[1] = <<0, 3>>, !.at = "seek"]
<1>1. call.op = "seek" /\ call.at = "expand" /\ call.at \in SeekAt
  BY Zenon DEF Rfsv!Expand, Rfsv!At, SeekAt
<1>2. PICK o : /\ Outcome(cmd, o) /\ Taken(o) /\ proto' = proto
               /\ call' = [Then(o.res, o.data) EXCEPT !.renewed = @ \/ o.renewed]
  BY Zenon DEF Rfsv!Expand, Rfsv!Exchange, Outcome, Taken
<1>3. PICK k, n, pos, mode : Asks(k, n, pos, mode) /\ Meets(k, n, pos, mode)
  BY <1>1 DEF CallsInv, SeeksAs, SeekAt
<1>4. /\ k \in Nat /\ n \in Nat /\ mode = 3 /\ pos \in Nat \ {0} /\ pos \in Offsets /\ n = Len(From)
      /\ ~ call.eof /\ proto = "32" /\ call.buf = <<<<pos, mode>>, n>>
  BY <1>1, <1>3, RfsvAssumption DEF Asks, Meets
<1>5. PICK size \in Nat : size = n + pos
  BY <1>4
<1>6. Rfsv!Wrap(Rfsv!Saved + Rfsv!Want[1]) = size
  <2>1. Rfsv!Saved + Rfsv!Want[1] = size
    BY <1>4, <1>5 DEF Rfsv!Saved, Rfsv!Want
  <2>2. n <= MaxSize /\ MaxSize + pos < Half * Half
    BY <1>4, CallsAssumption DEF CallsInv, Short, Original, From
  <2>3. size < Half * Half
    <3>1. PICK w \in Nat : w = Half * Half
      BY RfsvAssumption
    <3> QED
      BY <1>4, <1>5, <2>2, <3>1, RfsvAssumption
  <2> QED
    BY <2>1, <2>3, WrapSmall
<1>7. /\ call'.op = "seek" /\ call'.h = call.h /\ call'.out = call.out /\ call'.eof = call.eof
      /\ IF o.res # "none" THEN call'.at = "close" /\ call'.res # "none"
         ELSE call'.buf[1] = <<0, 3>> /\ call'.at = "seek"
  BY <1>1, <1>2, <1>4 DEF HandlesInv, RunShape, Rfsv!Ends
<1>8. PICK c : c = cmd
  OBVIOUS
<1>9. Outcome(c, o) /\ c = <<"setsize", call.h, size>>
  BY <1>2, <1>6, <1>8
<1> HIDE DEF cmd, Then
<1>10. Short(server') /\ (o.res = "none" => \E q : Own("from", q)')
  BY <1>1, <1>2, <1>7, <1>9, SeekLeaves
<1>11. o.res = "none" => Len(From)' = size
  <2>1. PICK h : h = call.h
    OBVIOUS
  <2>2. /\ ServerShape(server) /\ server.files \in FileSets /\ status \in {"none", "disc"}
        /\ status = "none" /\ h \in DOMAIN server.handles => \E p : Named(server, h, "from", p)
        /\ c = <<"setsize", h, size>>
    BY <1>1, <1>9, <2>1 DEF HandlesInv, CopyInv, CallsInv, SeeksAs, Own, HasSource
  <2>3. o.res = "none" => Len(Original(o.server)) = size
    BY <1>9, <2>2, SizeSet
  <2> QED
    BY <1>2, <2>3 DEF Original, From, Taken
<1>12. Asks(k, n, pos, mode)'
  BY <1>3, <1>7 DEF Asks
<1>13. o.res = "none" => Meets(k, n, pos, mode)'
  BY <1>2, <1>4, <1>5, <1>7, <1>11 DEF Meets
<1>14. o.res = "none" => call'.at \in (SeekAt \ {"position"}) \cup {"close", "done"}
  BY <1>7 DEF SeekAt
<1> QED
  BY <1>7, <1>10, <1>12, <1>13, <1>14, SeekEnds

LEMMA SeekCalls ==
    ASSUME HandlesInv, CopyInv, CallsInv, Rfsv!Seek
    PROVE  CallsInv'
<1> DEFINE cmd == Rfsv!SeekCommand(Rfsv!Want[1], Rfsv!Want[2])
           reckoned == Rfsv!Wrap(IF Rfsv!Want[2] = 1 THEN Rfsv!Want[1] ELSE Rfsv!Saved + Rfsv!Want[1])
           Then(r, d) ==
             IF r # "none" THEN Rfsv!Ends("close", r)
             ELSE IF Rfsv!Want[2] = 3 \/ reckoned <= d THEN [call EXCEPT !.buf[2] = d, !.at = "close"]
             ELSE [call EXCEPT !.buf[2] = reckoned, !.eof = FALSE, !.at = "extend"]
<1>1. call.op = "seek" /\ call.at = "seek" /\ call.at \in SeekAt
  BY Zenon DEF Rfsv!Seek, Rfsv!At, SeekAt
<1>2. PICK o : /\ Outcome(cmd, o) /\ Taken(o) /\ proto' = proto
               /\ call' = [Then(o.res, o.data) EXCEPT !.renewed = @ \/ o.renewed]
  BY Zenon DEF Rfsv!Seek, Rfsv!Exchange, Outcome, Taken
<1>3. PICK k, n, pos, mode : Asks(k, n, pos, mode) /\ Meets(k, n, pos, mode)
  BY <1>1 DEF CallsInv, SeeksAs, SeekAt
<1>4. k \in Nat /\ n \in Nat /\ k <= n /\ mode \in 1 .. 3 /\ pos \in Int /\ pos \in Offsets
  BY <1>3, RfsvAssumption DEF Asks
<1>5. PICK p, wanted, m : call.buf = <<<<p, m>>, wanted>> /\ p \in Int /\ wanted \in Int /\ call.h \in Nat
  BY <1>1 DEF CopyInv, Seeks, SeekAt
<1>6. PICK sum : sum = reckoned
  OBVIOUS
<1>7. /\ Rfsv!Want[1] = p /\ Rfsv!Want[2] = m /\ Rfsv!Saved = wanted
      /\ sum = Rfsv!Wrap(IF m = 1 THEN p ELSE wanted + p)
  BY <1>5, <1>6 DEF Rfsv!Want, Rfsv!Saved
<1>8. /\ call'.op = "seek" /\ call'.h = call.h /\ call'.out = call.out
      /\ \/ o.res # "none" /\ call'.at = "close" /\ call'.res # "none"
         \/ o.res = "none" /\ (m = 3 \/ sum <= o.data) /\ call'.at = "close" /\ call'.buf[2] = o.data
         \/ o.res = "none" /\ ~ (m = 3 \/ sum <= o.data) /\ call'.at = "extend" /\ call'.buf[2] = sum
  <2>1. CASE o.res # "none"
    BY <1>1, <1>2, <2>1 DEF HandlesInv, RunShape, Rfsv!Ends
  <2>2. CASE o.res = "none" /\ (m = 3 \/ sum <= o.data)
    <3>1. call' = [[call EXCEPT !.buf[2] = o.data, !.at = "close"] EXCEPT !.renewed = @ \/ o.renewed]
      BY <1>2, <1>6, <1>7, <2>2
    <3> QED
      BY <1>1, <1>5, <2>2, <3>1 DEF HandlesInv, RunShape
  <2>3. CASE o.res = "none" /\ ~ (m = 3 \/ sum <= o.data)
    <3>1. call' = [[call EXCEPT !.buf[2] = sum, !.eof = FALSE, !.at = "extend"] EXCEPT !.renewed = @ \/ o.renewed]
      BY <1>2, <1>6, <1>7, <2>3
    <3> QED
      BY <1>1, <1>5, <2>3, <3>1 DEF HandlesInv, RunShape
  <2> QED
    BY <2>1, <2>2, <2>3
<1>9. PICK c : c = cmd
  OBVIOUS
<1>10. Outcome(c, o) /\ c[1] = "seek" /\ (~ call.eof => c = <<"seek", call.h, p, m>>)
  BY <1>2, <1>7, <1>9 DEF Rfsv!SeekCommand
<1> HIDE DEF cmd, Then, reckoned
<1>11. Short(server') /\ (o.res = "none" => \E q : Own("from", q)') /\ Len(From)' = Len(From)
  BY <1>1, <1>2, <1>8, <1>10, SeekLeaves
<1>12. ASSUME o.res = "none", ~ call.eof, NEW x \in Int, Own("from", x)
       PROVE  LET q == Rfsv!SeekTo(From, x, p, m)
              IN  q >= 0 /\ o.data = Rfsv!Clamp(q, Len(From))
  <2>1. PICK h : h = call.h
    OBVIOUS
  <2>2. /\ ServerShape(server) /\ server.files \in FileSets /\ status \in {"none", "disc"}
        /\ status = "none" /\ h \in DOMAIN server.handles => Named(server, h, "from", x)
        /\ c = <<"seek", h, p, m>>
    BY <1>10, <1>12, <2>1 DEF HandlesInv, CopyInv, Own, HasSource
  <2> QED
    BY <1>5, <1>10, <1>12, <2>2, SeekFound
<1>13. \E x \in Int : Own("from", x)
  <2>1. PICK x : Own("from", x)
    BY <1>1 DEF CallsInv, SeeksAs
  <2>2. CASE status = "none" /\ HasSource
    <3>1. \E y : \E z \in Int : Named(server, call.h, y, z)
      BY <1>1, <2>2 DEF CopyInv, Seeks, Positioned, HasSource
    <3>2. x \in Int
      BY <2>1, <2>2, <3>1 DEF Own, Named
    <3> QED
      BY <2>1, <3>2
  <2>3. CASE ~ (status = "none" /\ HasSource)
    <3>1. Own("from", 0)
      BY <2>3 DEF Own
    <3> QED
      BY <3>1
  <2> QED
    BY <2>2, <2>3
<1>14. Asks(k, n, pos, mode)'
  BY <1>3, <1>8 DEF Asks
<1>15. Good(pos, mode)' <=> Good(pos, mode)
  BY <1>2 DEF Good
<1>16. PICK size \in Nat : size = Len(From) /\ size <= MaxSize
  BY FilesAre, BlocksLen, RfsvAssumption DEF CopyInv, CallsInv, Short, Original, From
<1>17. ASSUME o.res = "none", Good(pos, mode)
       PROVE  /\ call'.buf[2] = Meant(k, n, pos, mode)
              /\ call'.at = "close" => Meant(k, n, pos, mode) <= size
  <2>1. CASE mode = 3 /\ pos > 0 /\ call.buf[1] = <<0, 3>> /\ ~ call.eof /\ Len(From) = n + pos
    <3>1. p = 0 /\ m = 3
      BY <1>5, <2>1
    <3>2. PICK x \in Int : Own("from", x)
      BY <1>13
    <3>3. o.data = Rfsv!Clamp(Rfsv!SeekTo(From, x, p, m), Len(From))
      BY <1>12, <1>17, <2>1, <3>2
    <3>4. o.data = size
      BY <1>16, <3>1, <3>3 DEF Rfsv!SeekTo, Rfsv!Clamp
    <3> QED
      BY <1>4, <1>8, <1>16, <1>17, <2>1, <3>1, <3>4 DEF Meant
  <2>2. CASE /\ call.buf[1] = <<pos, mode>> /\ n = Len(From) /\ (call.eof => ~ Good(pos, mode))
             /\ mode = 2 /\ Good(pos, mode) => call.buf[2] = k /\ Own("from", k)
             /\ mode = 3 /\ Good(pos, mode) => pos < 0
    <3>1. p = pos /\ m = mode /\ ~ call.eof /\ size = n
      BY <1>5, <1>16, <1>17, <2>2
    <3>2. CASE mode = 3
      <4>1. PICK x \in Int : Own("from", x)
        BY <1>13
      <4>2. LET q == Rfsv!SeekTo(From, x, p, m) IN q >= 0 /\ o.data = Rfsv!Clamp(q, Len(From))
        BY <1>12, <1>17, <3>1, <4>1
      <4>3. n + pos >= 0 /\ o.data = Rfsv!Clamp(n + pos, n)
        BY <2>2, <3>1, <3>2, <4>2 DEF Rfsv!SeekTo
      <4>4. pos < 0
        BY <1>17, <2>2, <3>2
      <4>5. o.data = pos + n /\ pos + n <= n
        BY <1>4, <4>3, <4>4 DEF Rfsv!Clamp
      <4> QED
        BY <1>8, <1>17, <3>1, <3>2, <4>5 DEF Meant
    <3>3. CASE mode \in 1 .. 2
      <4>1. PICK x \in Int : Own("from", x) /\ (mode = 2 => x = k /\ wanted = k)
        <5>1. CASE mode = 1
          BY <1>13, <5>1
        <5>2. CASE mode = 2
          BY <1>4, <1>5, <1>17, <2>2, <5>2
        <5> QED
          BY <3>3, <5>1, <5>2
      <4>2. PICK goal : goal = IF mode = 1 THEN pos ELSE k + pos
        OBVIOUS
      <4>3. LET q == Rfsv!SeekTo(From, x, p, m) IN q >= 0 /\ o.data = Rfsv!Clamp(q, Len(From))
        BY <1>12, <1>17, <3>1, <4>1
      <4>4. goal >= 0 /\ o.data = Rfsv!Clamp(goal, n)
        BY <2>2, <3>1, <3>3, <4>1, <4>2, <4>3 DEF Rfsv!SeekTo
      <4>5. goal \in Nat /\ goal <= n + pos
        BY <1>4, <1>17, <3>3, <4>2, <4>4 DEF Good
      <4>6. sum = goal
        <5>1. PICK w \in Nat : w = Half * Half
          BY RfsvAssumption
        <5>2. MaxSize + pos < w
          BY <1>4, <5>1, CallsAssumption
        <5>3. goal < w
          BY <1>4, <1>16, <3>1, <4>5, <5>1, <5>2, RfsvAssumption
        <5>4. Rfsv!Wrap(goal) = goal
          BY <4>5, <5>1, <5>3, WrapSmall
        <5> QED
          BY <1>7, <3>1, <3>3, <4>1, <4>2, <5>4
      <4>7. Meant(k, n, pos, mode) = goal
        BY <1>4, <3>3, <4>2 DEF Meant
      <4>8. goal <= o.data => goal = o.data /\ goal <= n
        BY <1>4, <4>4, <4>5 DEF Rfsv!Clamp
      <4> QED
        BY <1>8, <1>17, <3>1, <3>3, <4>6, <4>7, <4>8
    <3> QED
      BY <1>4, <3>2, <3>3
  <2> QED
    BY <1>1, <1>3, <2>1, <2>2 DEF Meets
<1>18. o.res = "none" => Meets(k, n, pos, mode)'
  BY <1>8, <1>11, <1>15, <1>16, <1>17 DEF Meets
<1>19. o.res = "none" => call'.at \in (SeekAt \ {"position"}) \cup {"close", "done"}
  BY <1>8 DEF SeekAt
<1> QED
  BY <1>8, <1>11, <1>14, <1>18, <1>19, SeekEnds

LEMMA ExtendCalls ==
    ASSUME HandlesInv, CopyInv, CallsInv, Rfsv!Extend
    PROVE  CallsInv'
<1> DEFINE cmd == <<"setsize", call.h, Rfsv!Saved>>
           Then(r, d) == IF r # "none" THEN Rfsv!Ends("close", r) ELSE Rfsv!Next_("reseek")
<1>1. call.op = "seek" /\ call.at = "extend" /\ call.at \in SeekAt
  BY Zenon DEF Rfsv!Extend, Rfsv!At, SeekAt
<1>2. PICK o : /\ Outcome(cmd, o) /\ Taken(o) /\ proto' = proto
               /\ call' = [Then(o.res, o.data) EXCEPT !.renewed = @ \/ o.renewed]
  BY Zenon DEF Rfsv!Extend, Rfsv!Exchange, Outcome, Taken
<1>3. PICK k, n, pos, mode : Asks(k, n, pos, mode) /\ Meets(k, n, pos, mode)
  BY <1>1 DEF CallsInv, SeeksAs, SeekAt
<1>4. PICK wanted \in Nat : wanted = call.buf[2]
  BY <1>1 DEF CopyInv, Seeks
<1>5. /\ call'.op = "seek" /\ call'.h = call.h /\ call'.out = call.out /\ call'.buf = call.buf
      /\ IF o.res # "none" THEN call'.at = "close" /\ call'.res # "none" ELSE call'.at = "reseek"
  BY <1>1, <1>2 DEF HandlesInv, RunShape, Rfsv!Ends, Rfsv!Next_
<1>6. PICK c : c = cmd
  OBVIOUS
<1>7. Outcome(c, o) /\ c = <<"setsize", call.h, wanted>>
  BY <1>2, <1>4, <1>6 DEF Rfsv!Saved
<1> HIDE DEF cmd, Then
<1>8. Short(server') /\ (o.res = "none" => \E q : Own("from", q)')
  BY <1>1, <1>2, <1>5, <1>7, SeekLeaves
<1>9. o.res = "none" => Len(From)' = wanted
  <2>1. PICK h : h = call.h
    OBVIOUS
  <2>2. /\ ServerShape(server) /\ server.files \in FileSets /\ status \in {"none", "disc"}
        /\ status = "none" /\ h \in DOMAIN server.handles => \E p : Named(server, h, "from", p)
        /\ c = <<"setsize", h, wanted>>
    BY <1>1, <1>7, <2>1 DEF HandlesInv, CopyInv, CallsInv, SeeksAs, Own, HasSource
  <2>3. o.res = "none" => Len(Original(o.server)) = wanted
    BY <1>7, <2>2, SizeSet
  <2> QED
    BY <1>2, <2>3 DEF Original, From, Taken
<1>10. Asks(k, n, pos, mode)'
  BY <1>3, <1>5 DEF Asks
<1>11. Good(pos, mode)' <=> Good(pos, mode)
  BY <1>2 DEF Good
<1>12. o.res = "none" => Meets(k, n, pos, mode)'
  BY <1>1, <1>3, <1>4, <1>5, <1>9, <1>11 DEF Meets
<1>13. o.res = "none" => call'.at \in (SeekAt \ {"position"}) \cup {"close", "done"}
  BY <1>5 DEF SeekAt
<1> QED
  BY <1>5, <1>8, <1>10, <1>12, <1>13, SeekEnds

LEMMA ReseekCalls ==
    ASSUME HandlesInv, CopyInv, CallsInv, Rfsv!Reseek
    PROVE  CallsInv'
<1> DEFINE cmd == <<"seek", call.h, Rfsv!Saved, 1>>
           Then(r, d) == IF r # "none" THEN Rfsv!Ends("close", r) ELSE [call EXCEPT !.buf[2] = d, !.at = "close"]
<1>1. call.op = "seek" /\ call.at = "reseek" /\ call.at \in SeekAt
  BY Zenon DEF Rfsv!Reseek, Rfsv!At, SeekAt
<1>2. PICK o : /\ Outcome(cmd, o) /\ Taken(o) /\ proto' = proto
               /\ call' = [Then(o.res, o.data) EXCEPT !.renewed = @ \/ o.renewed]
  BY Zenon DEF Rfsv!Reseek, Rfsv!Exchange, Outcome, Taken
<1>3. PICK k, n, pos, mode : Asks(k, n, pos, mode) /\ Meets(k, n, pos, mode)
  BY <1>1 DEF CallsInv, SeeksAs, SeekAt
<1>4. PICK p, wanted, m : call.buf = <<<<p, m>>, wanted>> /\ p \in Int /\ wanted \in Int
  BY <1>1 DEF CopyInv, Seeks, SeekAt
<1>5. /\ call'.op = "seek" /\ call'.h = call.h /\ call'.out = call.out
      /\ call'.at = "close"
      /\ IF o.res # "none" THEN call'.res # "none" ELSE call'.buf[2] = o.data
  <2>1. CASE o.res # "none"
    BY <1>1, <1>2, <2>1 DEF HandlesInv, RunShape, Rfsv!Ends
  <2>2. CASE o.res = "none"
    BY <1>1, <1>2, <1>4, <2>2 DEF HandlesInv, RunShape
  <2> QED
    BY <2>1, <2>2
<1>6. PICK c : c = cmd
  OBVIOUS
<1>7. Outcome(c, o) /\ c = <<"seek", call.h, wanted, 1>> /\ c[1] = "seek"
  BY <1>2, <1>4, <1>6 DEF Rfsv!Saved
<1> HIDE DEF cmd, Then
<1>8. Short(server') /\ Len(From)' = Len(From)
  BY <1>1, <1>2, <1>5, <1>7, SeekLeaves
<1>9. ASSUME o.res = "none"
      PROVE  wanted >= 0 /\ o.data = Rfsv!Clamp(wanted, Len(From))
  <2>1. PICK h : h = call.h
    OBVIOUS
  <2>2. /\ ServerShape(server) /\ server.files \in FileSets /\ status \in {"none", "disc"}
        /\ status = "none" => Positioned(server)
        /\ c = <<"seek", h, wanted, 1>>
    BY <1>1, <1>7, <2>1 DEF HandlesInv, CopyInv, Seeks
  <2>3. PICK x \in Int : status = "none" /\ h \in DOMAIN server.handles => Named(server, h, "from", x)
    <3>1. PICK y : status = "none" /\ h \in DOMAIN server.handles => Named(server, h, "from", y)
      BY <1>1, <2>1 DEF CallsInv, SeeksAs, Own, HasSource
    <3>2. CASE status = "none" /\ h \in DOMAIN server.handles
      <4>1. \E b : \E z \in Int : Named(server, h, b, z)
        BY <2>2, <3>2 DEF Positioned
      <4>2. y \in Int
        BY <3>1, <3>2, <4>1 DEF Named
      <4> QED
        BY <3>1, <4>2
    <3>3. CASE ~ (status = "none" /\ h \in DOMAIN server.handles)
      <4>1. 0 \in Int
        OBVIOUS
      <4> QED
        BY <3>3, <4>1
    <3> QED
      BY <3>2, <3>3
  <2>4. LET q == Rfsv!SeekTo(From, x, wanted, 1)
        IN  q >= 0 /\ o.data = Rfsv!Clamp(q, Len(From)) /\ Named(o.server, h, "from", o.data)
    BY <1>4, <1>7, <1>9, <2>2, <2>3, SeekFound
  <2> QED
    BY <2>4 DEF Rfsv!SeekTo
<1>10. Asks(k, n, pos, mode)'
  BY <1>3, <1>5 DEF Asks
<1>11. Good(pos, mode)' <=> Good(pos, mode)
  BY <1>2 DEF Good
<1>12. ASSUME o.res = "none", Good(pos, mode)
       PROVE  call'.buf[2] = Meant(k, n, pos, mode) /\ Meant(k, n, pos, mode) <= Len(From)
  <2>1. wanted = Meant(k, n, pos, mode) /\ Len(From) = wanted
    BY <1>1, <1>3, <1>4, <1>12 DEF Meets
  <2>2. o.data = wanted
    BY <1>4, <1>9, <1>12, <2>1 DEF Rfsv!Clamp
  <2> QED
    BY <1>4, <1>5, <1>12, <2>1, <2>2
<1>13. o.res = "none" => Meets(k, n, pos, mode)'
  BY <1>5, <1>8, <1>11, <1>12 DEF Meets
<1> QED
  BY <1>5, <1>8, <1>10, <1>13, SeekEnds DEF SeekAt

-----------------------------------------------------------------------------
LEMMA CallsInit ==
    ASSUME Init
    PROVE  CallsInv
<1>1. Rfsv!RfsvInit
  BY Zenon DEF Init
<1>2. PICK s \in Source : server.files["from"] = s
  BY <1>1 DEF Rfsv!RfsvInit
<1>3. Short(server)
  BY <1>2, CallsAssumption DEF Short, Original
<1>4. call.op = "none"
  BY <1>1 DEF Rfsv!RfsvInit, Rfsv!NoCall
<1> QED
  BY <1>3, <1>4 DEF CallsInv, ListsDirs, ListsDrives, SeeksAs

LEMMA CallsStep ==
    ASSUME HandlesInv, CopyInv, CallsInv, Rfsv!RfsvNext
    PROVE  CallsInv'
<1>1. CASE \E a \in DOMAIN Rfsv!FirstStep : Rfsv!Start(a)
  BY <1>1, StartCalls
<1>2. CASE Rfsv!Return \/ Rfsv!Quit
  BY <1>2, EndCalls
<1>3. CASE Rfsv!Opening
  BY <1>3, CopyingCalls, OpenSeekCalls DEF Rfsv!Opening
<1>4. CASE Rfsv!Copying
  BY <1>4, CopyingCalls
<1>5. CASE Rfsv!Ending
  BY <1>5, CopyingCalls, CloseSeekCalls DEF Rfsv!Ending
<1>6. CASE Rfsv!Listing
  BY <1>6, OpenDirCalls, ReadDirCalls, CloseDirCalls DEF Rfsv!Listing
<1>7. CASE Rfsv!Driving
  BY <1>7, DevListCalls, DevOpenCalls, DevReadCalls, DevCloseCalls, DevParseCalls, DevInfoCalls DEF Rfsv!Driving
<1>8. CASE Rfsv!Seeking
  BY <1>8, PositionCalls, SenseCalls, ExpandCalls, SeekCalls, ExtendCalls, ReseekCalls DEF Rfsv!Seeking
<1> QED
  BY <1>1, <1>2, <1>3, <1>4, <1>5, <1>6, <1>7, <1>8 DEF Rfsv!RfsvNext

LEMMA CallsUntouched ==
    ASSUME CallsInv, UNCHANGED rfsvVars
    PROVE  CallsInv'
<1>1. proto' = proto /\ status' = status /\ server' = server /\ call' = call
  BY DEF rfsvVars
<1>2. ListsDirs'
  BY <1>1 DEF CallsInv, ListsDirs, Listed, Own, HasSource
<1>3. ListsDrives'
  BY <1>1 DEF CallsInv, ListsDrives, Looked, Own, HasSource
<1>4. ASSUME NEW k, NEW n, NEW pos, NEW mode, Asks(k, n, pos, mode), Meets(k, n, pos, mode)
      PROVE  Asks(k, n, pos, mode)' /\ Meets(k, n, pos, mode)'
  BY <1>1, <1>4 DEF Asks, Meets, Good, Own, HasSource, From
<1>5. SeeksAs'
  <2>1. \A q : Own("from", q) => Own("from", q)'
    BY <1>1 DEF Own, HasSource
  <2> QED
    BY <1>1, <1>4, <2>1 DEF CallsInv, SeeksAs
<1> QED
  BY <1>1, <1>2, <1>3, <1>5 DEF CallsInv, Short, Original

LEMMA CallsInvariant == Spec => [](HandlesInv /\ CopyInv /\ CallsInv)
<1>1. Init => HandlesInv /\ CopyInv /\ CallsInv
  BY HandlesInit, CopyInit, CallsInit
<1>2. HandlesInv /\ CopyInv /\ CallsInv /\ [Next]_vars => HandlesInv' /\ CopyInv' /\ CallsInv'
  <2>1. HandlesInv /\ CopyInv /\ [Next]_vars => HandlesInv' /\ CopyInv'
    BY OneProgram, RfsvKeeps, RfsvUntouched
  <2>2. HandlesInv /\ CopyInv /\ CallsInv /\ [Next]_vars => CallsInv'
    BY OneProgram, CallsStep, CallsUntouched
  <2> QED
    BY <2>1, <2>2
<1> QED
  BY <1>1, <1>2, PTL DEF Spec

LEMMA Inside ==
    ASSUME NEW S, NEW s \in Seq(S)
    PROVE  \A n : n \in Rfsv!ToSet(s) <=> In(n, s)
BY DEF Rfsv!ToSet, In

(* A directory, a count and a list of drives that are reported to have     *)
(* succeeded have everything and nothing else, however many answers it     *)
(* took and wherever a session broke (lib/rfsv16.cc, lib/rfsv32.cc).       *)
THEOREM ListingsAreComplete == Spec => []ListsAll
<1>1. CallsInv => ListsAll
  <2> SUFFICES ASSUME CallsInv PROVE ListsAll
    OBVIOUS
  <2>1. Rfsv!Succeeded("dir") => call.out = Entries
    <3>1. SUFFICES ASSUME Rfsv!Succeeded("dir") PROVE call.out = Entries
      OBVIOUS
    <3>2. call.out = UpTo(Entries, 0) ++ UpTo(Entries, Len(Entries))
      BY <3>1 DEF CallsInv, ListsDirs, Listed, Rfsv!Succeeded
    <3> QED
      BY <3>2, EntriesAre, ConcatEmptySeq DEF ++
  <2>2. Rfsv!Succeeded("dircount") => Len(call.out) = Len(Entries) + call.to
    <3>1. SUFFICES ASSUME Rfsv!Succeeded("dircount") PROVE Len(call.out) = Len(Entries) + call.to
      OBVIOUS
    <3>2. /\ call.out = UpTo(Entries, call.to) ++ UpTo(Entries, Len(Entries))
          /\ call.to \in 0 .. 1 /\ call.to <= Len(Entries)
      BY <3>1 DEF CallsInv, ListsDirs, Listed, Rfsv!Succeeded
    <3>3. PICK S : S = ToSet(Entries)
      OBVIOUS
    <3>4. PICK a, b : a = UpTo(Entries, call.to) /\ b = UpTo(Entries, Len(Entries))
      OBVIOUS
    <3>5. a \in Seq(S) /\ b \in Seq(S) /\ Len(a) = call.to /\ Len(b) = Len(Entries)
      BY <3>2, <3>3, <3>4, EntriesAre
    <3>6. Len(a ++ b) = Len(a) + Len(b)
      BY <3>5 DEF ++
    <3> QED
      BY <3>2, <3>4, <3>5, <3>6, EntriesAre
  <2>3. Rfsv!Succeeded("drives") =>
          \/ \A n \in DOMAIN Drives : (Drives[n] = "ready") = (n \in Rfsv!ToSet(call.out))
          \/ (proto = "16" /\ call.out = <<>>)
    <3>1. SUFFICES ASSUME Rfsv!Succeeded("drives"), ~ (proto = "16" /\ call.out = <<>>),
                          NEW n \in DriveNames
                   PROVE  (Drives[n] = "ready") <=> (n \in Rfsv!ToSet(call.out))
      BY DEF DriveNames
    <3>2. call.buf = <<>> /\ call.out \in Seq(DriveNames) /\ Looked
      BY <3>1 DEF CallsInv, ListsDrives, Rfsv!Succeeded
    <3>3. Drives[n] = "ready" <=> In(n, call.out)
      BY <3>1, <3>2, NothingIn DEF Looked
    <3> QED
      BY <3>2, <3>3, Inside
  <2> QED
    BY <2>1, <2>2, <2>3 DEF ListsAll, Rfsv!ListsAll
<1> QED
  BY <1>1, CallsInvariant, PTL

(* A seek that is reported to have succeeded is where lseek would be, and  *)
(* the file is no shorter, but for the two cases that the property names   *)
(* (fseek of lib/rfsv16.cc and lib/rfsv32.cc).                             *)
THEOREM SeeksAreUnix == Spec => []SeeksLikeUnix
<1>1. CallsInv => SeeksLikeUnix
  <2> SUFFICES ASSUME CallsInv, Rfsv!Succeeded("seek"), call.out[4] = 2 => call.out[3] >= 0,
                      proto = "16" /\ call.out[4] > 1 => call.out[3] <= 0
               PROVE  call.buf[2] = Rfsv!Unix /\ Rfsv!Unix <= Len(server.files["from"])
    BY DEF SeeksLikeUnix, Rfsv!SeeksLikeUnix
  <2>1. PICK k, n, pos, mode : Asks(k, n, pos, mode) /\ Meets(k, n, pos, mode)
    BY DEF CallsInv, SeeksAs, Rfsv!Succeeded
  <2>2. /\ call.out[1] = k /\ call.out[2] = n /\ call.out[3] = pos /\ call.out[4] = mode
        /\ k \in Nat /\ n \in Nat /\ pos \in Int /\ mode \in 1 .. 3
    BY <2>1, RfsvAssumption DEF Asks
  <2>3. Good(pos, mode)
    BY <2>2 DEF Good
  <2>4. Rfsv!Unix = Meant(k, n, pos, mode)
    BY <2>2 DEF Rfsv!Unix, Meant
  <2> QED
    BY <2>1, <2>3, <2>4 DEF Meets, From, Rfsv!Succeeded
<1> QED
  BY <1>1, CallsInvariant, PTL
=============================================================================
