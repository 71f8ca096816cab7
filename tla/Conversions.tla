----------------------------- MODULE Conversions -----------------------------
(***************************************************************************)
(* Pure conversions of lib/: bitmaps (psibitmap.cpp), Psion times          *)
(* (psitime.cc) and paths (pathutils.cc).  An action converts one input;   *)
(* the invariant compares what comes out with what the conversion means.   *)
(*                                                                         *)
(* A byte is a number, a pixel a gray value, an instant a number of        *)
(* half-hours; a path is a sequence of drives, separators and names.       *)
(***************************************************************************)
EXTENDS Integers, Sequences, FiniteSets, SequencesExt

CONSTANTS
    Widths, Heights,    \* of the pictures
    Grays,              \* the values a pixel may have
    Instants,           \* Unix times
    Zones,              \* the Psion's zone: what evalOffset finds, and whether it is valid
    Change,             \* when this machine's clock is put forward
    Summer,             \* by how much
    Paths, Bases        \* arguments of resolve_path

VARIABLE conversion     \* the last conversion: its kind, input and output

conversionVars == conversion
Nothing == [kind |-> "none", in |-> <<>>, out |-> <<>>]
ConversionsInit == conversion = Nothing

-----------------------------------------------------------------------------
(* Bitmaps: 2 bits a pixel, the first pixel in the low bits, the rows      *)
(* filled up to words of 4 bytes.                                          *)

RowBytes(row) ==
    [k \in 1 .. (Len(row) + 3) \div 4 |->
        FoldLeft(LAMBDA sum, j : sum + (IF 4 * (k - 1) + j <= Len(row)
                                        THEN (row[4 * (k - 1) + j] \div 85) * 4 ^ (j - 1) ELSE 0),
                 0, <<1, 2, 3, 4>>)]
Padded(bytes) == bytes \o [i \in 1 .. (-Len(bytes)) % 4 |-> 0]
EncodeBitmap(rows) ==
    [width |-> Len(rows[1]), height |-> Len(rows), bpp |-> 2, rle |-> FALSE,
     data |-> FlattenSeq([y \in DOMAIN rows |-> Padded(RowBytes(rows[y]))])]

(* The bytes that run length encoding stands for: a count, then a byte to  *)
(* repeat or so many bytes as they are.                                    *)
Expand(data) ==
    FoldLeft(LAMBDA s, b :
        CASE s.left = 0 /\ b >= 128 -> [s EXCEPT !.left = 256 - b, !.run = FALSE]
          [] s.left = 0 /\ b < 128 -> [s EXCEPT !.left = b + 1, !.run = TRUE]
          [] s.left # 0 /\ s.run -> [s EXCEPT !.out = @ \o [i \in 1 .. s.left |-> b], !.left = 0]
          [] OTHER -> [s EXCEPT !.out = Append(@, b), !.left = @ - 1],
        [left |-> 0, run |-> FALSE, out |-> <<>>], data)

(* splitByte: the pixels of a byte, but none of the next row; the bytes    *)
(* that only fill the row up have none.                                    *)
SplitByteFill(bmp, s, b) ==     \* variant: the bytes after the row's are not left out
    LET perByte == 8 \div bmp.bpp
        left == bmp.width - (Len(s.out) % bmp.width)
    IN  IF ~s.ok \/ Len(s.out) >= bmp.width * bmp.height THEN [s EXCEPT !.ok = FALSE]
        ELSE [s EXCEPT !.out = @ \o [j \in 1 .. (IF left < perByte THEN left ELSE perByte) |->
                     ((b \div 2 ^ (bmp.bpp * (j - 1))) % (2 * bmp.bpp)) * (255 \div (2 ^ bmp.bpp - 1))]]
SplitByte(bmp, s, b) ==
    LET perByte == 8 \div bmp.bpp
        left == bmp.width - (Len(s.out) % bmp.width)
        next == [s EXCEPT !.x = (@ + 1) % s.linelen]
    IN  IF ~s.ok THEN s
        ELSE IF s.x >= (bmp.width + perByte - 1) \div perByte THEN next
        ELSE IF Len(s.out) >= bmp.width * bmp.height THEN [s EXCEPT !.ok = FALSE]
        ELSE [next EXCEPT !.out = @ \o [j \in 1 .. (IF left < perByte THEN left ELSE perByte) |->
                     ((b \div 2 ^ (bmp.bpp * (j - 1))) % (2 * bmp.bpp)) * (255 \div (2 ^ bmp.bpp - 1))]]
DecodeBitmap(bmp) ==
    LET e == Expand(bmp.data)
        bytes == IF bmp.rle THEN e.out ELSE bmp.data
        s == FoldLeft(LAMBDA t, b : SplitByte(bmp, t, b),
                      [x |-> 0, out |-> <<>>, linelen |-> Len(bytes) \div bmp.height, ok |-> TRUE], bytes)
    IN  IF s.ok /\ (bmp.rle => e.left = 0) THEN s.out ELSE <<>>

(* What a Psion may send: the same bytes as they are, as one literal       *)
(* string, or each as a run of one.                                        *)
Sent(bmp) == {bmp, [bmp EXCEPT !.rle = TRUE, !.data = <<256 - Len(@)>> \o @],
              [bmp EXCEPT !.rle = TRUE, !.data = FlattenSeq([i \in DOMAIN @ |-> <<0, bmp.data[i]>>])]}
Picture ==
    \E w \in Widths, h \in Heights : \E rows \in [1 .. h -> [1 .. w -> Grays]] :
      \E bmp \in Sent(EncodeBitmap(rows)) :
        conversion' = [kind |-> "picture", in |-> rows, out |-> DecodeBitmap(bmp)]

-----------------------------------------------------------------------------
(* Times.  gmtoff: the offset of this machine's clock at an instant.  The  *)
(* Psion's offset, once known, counts against that of now.                 *)

GmtOff(t) == IF t >= Change THEN Summer ELSE 0
EvalOffset(zone, t, now) ==
    (IF zone.valid THEN zone.offset - GmtOff(now) ELSE zone.psiTz) + GmtOff(t)
UnixToPsi(zone, t, now) == t + EvalOffset(zone, t, now)
PsiToUnix(zone, p, now) == p - EvalOffset(zone, p, now)
Time ==
    \E t \in Instants, z \in Zones, now \in {Change - 1, Change} :
        conversion' = [kind |-> "time", in |-> <<t, UnixToPsi(z, t, now)>>,
                       out |-> PsiToUnix(z, UnixToPsi(z, t, now), now)]

(* SIBO: seconds of local time, without the Psion's zone.                  *)
GetSiboTime(zone, t) == t + EvalOffset([zone EXCEPT !.valid = FALSE], t, 0)
SetSiboTime(zone, s) == s - EvalOffset([zone EXCEPT !.valid = FALSE], s, 0)
SiboTime ==
    \E t \in Instants, z \in Zones :
        conversion' = [kind |-> "time", in |-> <<t, GetSiboTime(z, t)>>,
                       out |-> SetSiboTime(z, GetSiboTime(z, t))]

-----------------------------------------------------------------------------
(* Paths.  split keeps a drive, then the root, then the names, and an      *)
(* empty name for a separator at the end; join makes a path of them again. *)

Sep == "\\"
DriveNames == {"C:", "D:"}
IsDrive(c) == c \in DriveNames
DriveOf(comps) == IF comps # <<>> /\ IsDrive(comps[1]) THEN SubSeq(comps, 1, 1) ELSE <<>>
Split(path) ==
    LET drive == DriveOf(path)
        rest == SubSeq(path, Len(drive) + 1, Len(path))
    IN  drive \o (IF rest # <<>> /\ rest[1] = Sep THEN <<Sep>> ELSE <<>>)
        \o SelectSeq(rest, LAMBDA c : c # Sep)
        \o (IF Len(rest) > 1 /\ rest[Len(rest)] = Sep THEN <<"">> ELSE <<>>)
Join(comps) ==
    LET drive == DriveOf(comps)
        Add(path, c) ==
            LET p == IF path # <<>> /\ path[Len(path)] # Sep THEN Append(path, Sep) ELSE path
            IN  IF c # "" THEN Append(p, c) ELSE IF p = <<>> THEN <<".", Sep>> ELSE p
    IN  drive \o FoldLeft(Add, <<>>, SubSeq(comps, Len(drive) + 1, Len(comps)))

IsAbsolute(comps) == Len(comps) >= 2 /\ IsDrive(comps[1]) /\ comps[2] = Sep
IsRooted(comps) == IsAbsolute(comps) \/ (comps # <<>> /\ comps[1] = Sep)
RootOf(comps) ==
    LET d == Len(DriveOf(comps))
    IN  SubSeq(comps, 1, IF Len(comps) > d /\ comps[d + 1] = Sep THEN d + 1 ELSE d)

(* One component of a relative path, folded into the base.                 *)
FoldComponent(dirs, c) ==
    LET n == Cardinality({i \in DOMAIN dirs : \E j \in i .. Len(dirs) : dirs[j] # ""})
        d == SubSeq(dirs, 1, n)
    IN  IF c = ".." /\ n > 0 /\ dirs[n] # ".." THEN SubSeq(d, 1, n - 1) ELSE Append(d, c)

ResolvePath(path, base) ==
    LET p == Split(path)
        b == Split(base)
        root == RootOf(b)
        dirs == SubSeq(b, Len(root) + 1, Len(b))
        resolved ==
            IF IsRooted(p)
            THEN Join((IF root = <<>> \/ root[Len(root)] # Sep THEN Append(root, Sep) ELSE root) \o Tail(p))
            ELSE Join(root \o FoldLeft(FoldComponent, dirs, p))
    IN  IF IsAbsolute(p) \/ (DriveOf(p) # <<>> /\ DriveOf(p) # DriveOf(b) /\ ~IsRooted(p)) THEN path
        ELSE IF resolved = <<>> THEN <<".">> ELSE resolved
Resolve ==
    \E p \in Paths, b \in Bases :
        conversion' = [kind |-> "path", in |-> <<p, b>>, out |-> ResolvePath(p, b)]

-----------------------------------------------------------------------------
Returned == conversion # Nothing /\ conversion' = Nothing
ConversionsNext ==
    \/ Returned
    \/ conversion = Nothing /\ (Picture \/ Time \/ SiboTime \/ Resolve)

-----------------------------------------------------------------------------
(* The directories a path leads through, up to the last "..".              *)
NamesOf(path) == SelectSeq(path, LAMBDA c : c # Sep /\ ~IsDrive(c))
Abs(n) == IF n < 0 THEN -n ELSE n

(* A picture that was encoded and is decoded again has every pixel in its  *)
(* place and at the nearest lower of the four grays, whatever the width    *)
(* and however it was sent.                                                *)
PictureKept ==
    conversion.kind = "picture" =>
        conversion.out = FlattenSeq([y \in DOMAIN conversion.in |->
            [x \in DOMAIN conversion.in[y] |-> 85 * (conversion.in[y][x] \div 85)]])

(* A time that goes to the Psion and back is the same, unless this         *)
(* machine's clock was changed between the instant and its Psion time,     *)
(* and then it is off by that change at most.                              *)
TimeKept ==
    conversion.kind = "time" =>
        LET t == conversion.in[1] p == conversion.in[2]
        IN  /\ Abs(conversion.out - t) <= Summer
            /\ (t < Change <=> p < Change) => conversion.out = t

(* A path without a drive, resolved against an absolute base, is absolute, *)
(* on the base's drive; without ".." it leads to the names of the base, if *)
(* it is not rooted, and then to its own; after going up from a place      *)
(* below, one is where one was.                                            *)
PathLeads ==
    conversion.kind = "path" /\ DriveOf(conversion.in[1]) = <<>> /\ IsAbsolute(conversion.in[2]) =>
        LET p == conversion.in[1] b == conversion.in[2] r == conversion.out
            from == IF IsRooted(p) THEN <<>> ELSE NamesOf(b)
        IN  /\ IsAbsolute(r) /\ DriveOf(r) = DriveOf(b)
            /\ ".." \notin ToSet(p) => NamesOf(r) = from \o NamesOf(p)
            /\ p = <<"a", Sep, "..">> => NamesOf(r) = from

(* The conversions agree with what they mean: none of them loses or moves  *)
(* anything, at the ends of rows, of clocks and of paths.                  *)
ConversionsAgree == PictureKept /\ TimeKept /\ PathLeads
=============================================================================
