--------------------------- MODULE DataLinkProofs ---------------------------
(***************************************************************************)
(* Theorems about ncpd's serial framing, for any callers, messages,        *)
(* streams, and sizes of the rings and of the kernel's buffer.             *)
(*                                                                         *)
(* Both rest on CrcType: addToCrc returns its 16 bits through an unsigned  *)
(* short, whatever table the constructor filled.                           *)
(***************************************************************************)
EXTENDS DataLink, DataLemmas

CrcType == \A c \in Byte, crc \in Word : AddToCrc(c, crc) \in Word

-----------------------------------------------------------------------------
(* Frames *)

LEMMA RingSize == BufLen \in Nat \ {0} /\ Index # {} /\ 0 \in Index
  BY BufferAssumption DEF Index

LEMMA Constants == /\ TtyOut \in Nat \ {0} /\ Chunks \subseteq Nat \ {0}
                   /\ SyncLimit \in Nat /\ MaxResets \in Nat
  BY BufferAssumption

LEMMA ByteIs == \A c : c \in Byte <=> c \in Int /\ 0 <= c /\ c <= 255
  BY DEF Byte

LEMMA WordIs == \A w : w \in Word <=> w \in Int /\ 0 <= w /\ w <= 65535
<1>1. \A w : w \in Word <=> w \in Int /\ 0 <= w /\ w <= WordMax
  <2>1. WordMax \in Int
    BY DEF WordMax
  <2> QED
    BY <2>1 DEF Word
<1> QED
  BY <1>1 DEF WordMax

LEMMA StuffType ==
    ASSUME NEW c \in Byte
    PROVE  Stuff(c) \in Seq(Byte)
<1>1. {DLE, EOT} \subseteq Byte
  BY DEF DLE, EOT, Byte
<1>2. CASE c = ETX
  BY <1>1, <1>2 DEF Stuff
<1>3. CASE c # ETX /\ c = DLE
  BY <1>1, <1>3 DEF Stuff
<1>4. CASE c # ETX /\ c # DLE
  BY <1>4 DEF Stuff
<1> QED
  BY <1>2, <1>3, <1>4

(* The recursive functions of Stuffed and of Crc exist, and have their types. *)
LEMMA StuffingExists ==
    ASSUME NEW b \in Seq(Byte)
    PROVE  \E g : g = [i \in 0 .. Len(b) |-> IF i = 0 THEN <<>> ELSE g[i - 1] \o Stuff(b[i])]
<1>1. PICK n \in Nat : n = Len(b)
  OBVIOUS
<1>2. \A i \in 1 .. n : b[i] \in Byte
  BY <1>1
<1> DEFINE step == [i \in 1 .. n |-> [x \in Seq(Byte) |-> x \o Stuff(b[i])]]
<1>3. step \in [1 .. n -> [Seq(Byte) -> Seq(Byte)]]
  BY <1>2, StuffType
<1>4. \A i \in 1 .. n : \A x \in Seq(Byte) : step[i][x] = x \o Stuff(b[i])
  OBVIOUS
<1>5. <<>> \in Seq(Byte)
  OBVIOUS
<1> HIDE DEF step
<1>6. PICK f \in [0 .. n -> Seq(Byte)] : Follows(f, <<>>, step, n)
  BY <1>3, <1>5, Recursion
<1>7. ASSUME NEW i \in 1 .. n PROVE f[i] = f[i - 1] \o Stuff(b[i])
  <2>1. f[i - 1] \in Seq(Byte)
    OBVIOUS
  <2>2. f[i] = step[i][f[i - 1]]
    BY <1>6 DEF Follows
  <2> QED
    BY <1>4, <2>1, <2>2
<1>8. f = [i \in 0 .. n |-> IF i = 0 THEN <<>> ELSE f[i - 1] \o Stuff(b[i])]
  <2>1. \A i \in 0 .. n : i # 0 => i \in 1 .. n
    OBVIOUS
  <2>2. \A i \in 0 .. n : f[i] = IF i = 0 THEN <<>> ELSE f[i - 1] \o Stuff(b[i])
    BY <1>6, <1>7, <2>1 DEF Follows
  <2> QED
    BY <2>2
<1> QED
  BY <1>1, <1>8

LEMMA StuffingType ==
    \A b \in Seq(Byte) : \A g :
        g = [i \in 0 .. Len(b) |-> IF i = 0 THEN <<>> ELSE g[i - 1] \o Stuff(b[i])]
            => g[Len(b)] \in Seq(Byte)
<1>1. SUFFICES ASSUME NEW b \in Seq(Byte), NEW g,
                      g = [i \in 0 .. Len(b) |->
                             IF i = 0 THEN <<>> ELSE g[i - 1] \o Stuff(b[i])]
               PROVE  g[Len(b)] \in Seq(Byte)
  OBVIOUS
<1>2. PICK n \in Nat : n = Len(b)
  OBVIOUS
<1>3. g[0] \in Seq(Byte)
  <2>1. g[0] = <<>>
    BY <1>1, <1>2
  <2> QED
    BY <2>1
<1>4. ASSUME NEW i \in 1 .. n, g[i - 1] \in Seq(Byte) PROVE g[i] \in Seq(Byte)
  <2>1. g[i] = g[i - 1] \o Stuff(b[i])
    BY <1>1, <1>2
  <2>2. Stuff(b[i]) \in Seq(Byte)
    BY <1>2, StuffType
  <2> QED
    BY <1>4, <2>1, <2>2
<1> DEFINE T == {i \in Nat : i <= n => g[i] \in Seq(Byte)}
<1>5. 0 \in T
  BY <1>3
<1>6. ASSUME NEW i \in T PROVE i + 1 \in T
  <2>1. i + 1 <= n => i + 1 \in 1 .. n /\ i + 1 - 1 = i /\ g[i] \in Seq(Byte)
    OBVIOUS
  <2> QED
    BY <1>4, <2>1
<1>7. n \in T
  <2> HIDE DEF T
  <2> QED
    BY <1>5, <1>6, Induction DEF T
<1> QED
  BY <1>2, <1>7

LEMMA StuffedType ==
    ASSUME NEW b \in Seq(Byte)
    PROVE  Stuffed(b) \in Seq(Byte)
<1> DEFINE upTo == CHOOSE g : g = [i \in 0 .. Len(b) |->
                                     IF i = 0 THEN <<>> ELSE g[i - 1] \o Stuff(b[i])]
<1>1. upTo = [i \in 0 .. Len(b) |-> IF i = 0 THEN <<>> ELSE upTo[i - 1] \o Stuff(b[i])]
  BY StuffingExists, Zenon
<1>2. Stuffed(b) = upTo[Len(b)]
  BY Zenon DEF Stuffed
<1> HIDE DEF upTo
<1> QED
  BY <1>1, <1>2, StuffingType

LEMMA CrcExists ==
    ASSUME CrcType, NEW b \in Seq(Byte)
    PROVE  \E g : g = [i \in 0 .. Len(b) |-> IF i = 0 THEN 0 ELSE AddToCrc(b[i], g[i - 1])]
<1>1. PICK n \in Nat : n = Len(b)
  OBVIOUS
<1>2. \A i \in 1 .. n : b[i] \in Byte
  BY <1>1
<1> DEFINE step == [i \in 1 .. n |-> [x \in Word |-> AddToCrc(b[i], x)]]
<1>3. step \in [1 .. n -> [Word -> Word]]
  BY <1>2, CrcType DEF CrcType
<1>4. \A i \in 1 .. n : \A x \in Word : step[i][x] = AddToCrc(b[i], x)
  OBVIOUS
<1>5. 0 \in Word
  BY WordIs
<1> HIDE DEF step
<1>6. PICK f \in [0 .. n -> Word] : Follows(f, 0, step, n)
  BY <1>3, <1>5, Recursion
<1>7. ASSUME NEW i \in 1 .. n PROVE f[i] = AddToCrc(b[i], f[i - 1])
  <2>1. f[i - 1] \in Word
    OBVIOUS
  <2>2. f[i] = step[i][f[i - 1]]
    BY <1>6 DEF Follows
  <2> QED
    BY <1>4, <2>1, <2>2
<1>8. f = [i \in 0 .. n |-> IF i = 0 THEN 0 ELSE AddToCrc(b[i], f[i - 1])]
  <2>1. \A i \in 0 .. n : i # 0 => i \in 1 .. n
    OBVIOUS
  <2>2. \A i \in 0 .. n : f[i] = IF i = 0 THEN 0 ELSE AddToCrc(b[i], f[i - 1])
    BY <1>6, <1>7, <2>1 DEF Follows
  <2> QED
    BY <2>2
<1> QED
  BY <1>1, <1>8

LEMMA CrcTypes ==
    CrcType => \A b \in Seq(Byte) : \A g :
        g = [i \in 0 .. Len(b) |-> IF i = 0 THEN 0 ELSE AddToCrc(b[i], g[i - 1])]
            => g[Len(b)] \in Word
<1>1. SUFFICES ASSUME CrcType, NEW b \in Seq(Byte), NEW g,
                      g = [i \in 0 .. Len(b) |->
                             IF i = 0 THEN 0 ELSE AddToCrc(b[i], g[i - 1])]
               PROVE  g[Len(b)] \in Word
  OBVIOUS
<1>2. PICK n \in Nat : n = Len(b)
  OBVIOUS
<1>3. g[0] \in Word
  <2>1. g[0] = 0
    BY <1>1, <1>2
  <2> QED
    BY <2>1, WordIs
<1>4. ASSUME NEW i \in 1 .. n, g[i - 1] \in Word PROVE g[i] \in Word
  <2>1. g[i] = AddToCrc(b[i], g[i - 1])
    BY <1>1, <1>2
  <2>2. b[i] \in Byte
    BY <1>2
  <2> QED
    BY <1>1, <1>4, <2>1, <2>2 DEF CrcType
<1> DEFINE T == {i \in Nat : i <= n => g[i] \in Word}
<1>5. 0 \in T
  BY <1>3
<1>6. ASSUME NEW i \in T PROVE i + 1 \in T
  <2>1. i + 1 <= n => i + 1 \in 1 .. n /\ i + 1 - 1 = i /\ g[i] \in Word
    OBVIOUS
  <2> QED
    BY <1>4, <2>1
<1>7. n \in T
  <2> HIDE DEF T
  <2> QED
    BY <1>5, <1>6, Induction DEF T
<1> QED
  BY <1>2, <1>7

LEMMA CrcOfType ==
    ASSUME CrcType, NEW b \in Seq(Byte)
    PROVE  Crc(b) \in Word
<1> DEFINE upTo == CHOOSE g : g = [i \in 0 .. Len(b) |->
                                     IF i = 0 THEN 0 ELSE AddToCrc(b[i], g[i - 1])]
<1>1. upTo = [i \in 0 .. Len(b) |-> IF i = 0 THEN 0 ELSE AddToCrc(b[i], upTo[i - 1])]
  BY CrcExists, Zenon
<1>2. Crc(b) = upTo[Len(b)]
  BY Zenon DEF Crc
<1> HIDE DEF upTo
<1> QED
  BY <1>1, <1>2, CrcTypes

(* The CRC as it is sent, high byte first, *)
LEMMA WordBytes ==
    ASSUME NEW w \in Word
    PROVE  w \div 256 \in Byte /\ w % 256 \in Byte
<1>1. PICK q \in Int : q = w \div 256
  BY WordIs
<1>2. 0 <= q /\ q <= 255
  BY <1>1, WordIs
<1>3. PICK r \in Int : r = w % 256
  BY WordIs
<1>4. 0 <= r /\ r <= 255
  BY <1>3, WordIs
<1> QED
  BY <1>1, <1>2, <1>3, <1>4, ByteIs

(* and as it arrives: the high byte, and then the low one added. *)
LEMMA HighByte ==
    ASSUME NEW c \in Byte
    PROVE  c * 256 \in Word /\ c * 256 <= 65280
<1>1. PICK w \in Int : w = c * 256
  BY ByteIs
<1>2. 0 <= w /\ w <= 65280 /\ w <= 65535
  BY <1>1, ByteIs
<1> QED
  BY <1>1, <1>2, WordIs

LEMMA BothBytes ==
    ASSUME NEW w \in Word, w <= 65280, NEW c \in Byte
    PROVE  w + c \in Word
<1>1. PICK s \in Int : s = w + c
  BY ByteIs, WordIs
<1>2. 0 <= s /\ s <= 65535
  BY <1>1, ByteIs, WordIs
<1> QED
  BY <1>1, <1>2, WordIs

LEMMA EncodeType ==
    ASSUME CrcType, NEW b \in Seq(Byte)
    PROVE  Encode(b) \in Seq(Byte)
<1>1. Stuffed(b) \in Seq(Byte)
  BY StuffedType
<1>2. Crc(b) \div 256 \in Byte /\ Crc(b) % 256 \in Byte
  BY CrcOfType, WordBytes
<1>3. /\ <<SYN, DLE, STX>> \in Seq(Byte)
      /\ <<DLE, ETX, Crc(b) \div 256, Crc(b) % 256>> \in Seq(Byte)
  <2>1. {SYN, DLE, STX, ETX} \subseteq Byte
    BY DEF SYN, DLE, STX, ETX, Byte
  <2> QED
    BY <1>2, <2>1
<1> QED
  BY <1>1, <1>3 DEF Encode

-----------------------------------------------------------------------------
(* Rings *)

LEMMA WrapType == \A i \in Int : Wrap(i) \in Index
  BY RingSize, Remainder DEF Wrap, Index

LEMMA IndexIs == \A i : i \in Index <=> i \in Int /\ 0 <= i /\ i < BufLen
  BY RingSize DEF Index

LEMMA StoredType ==
    ASSUME NEW buf \in [Index -> Byte], NEW i \in Index, NEW b \in Seq(Byte)
    PROVE  Stored(buf, i, b) \in [Index -> Byte]
<1> SUFFICES ASSUME NEW k \in Index, Wrap(k - i) < Len(b) PROVE b[Wrap(k - i) + 1] \in Byte
  BY DEF Stored
<1>1. Wrap(k - i) \in Nat
  BY WrapType, RingSize DEF Index
<1> QED
  BY <1>1

LEMMA FetchedType ==
    ASSUME NEW buf \in [Index -> Byte], NEW i \in Index, NEW n \in Nat
    PROVE  Fetched(buf, i, n) \in Seq(Byte) /\ Len(Fetched(buf, i, n)) = n
<1>1. \A k \in 1 .. n : buf[Wrap(i + k - 1)] \in Byte
  BY WrapType, RingSize DEF Index
<1> QED
  BY <1>1 DEF Fetched

-----------------------------------------------------------------------------
(* Types.  The parser looks a byte up at p only after it has found a frame, when *)
(* p has been normalized, and the sum of the two CRC bytes stays within 16 bits  *)
(* because only the first of them is there when the second is added.             *)

RingTypes ==
    /\ {outRead, outWrite, inRead, inWrite, inw} \subseteq Index
    /\ p \in 0 .. BufLen
    /\ At("body") => p \in Index
    /\ outBuffer \in [Index -> Byte] /\ inBuffer \in [Index -> Byte]

ParserTypes ==
    /\ {lastSYN, startPkt} \subseteq Index \cup {-1}
    /\ {esc, justStarted} \subseteq BOOLEAN
    /\ {crcIn, receivedCRC} \subseteq Word /\ inCRCstate \in 0 .. 2
    /\ inCRCstate = 2 => receivedCRC <= 65280
    /\ rcv \in Seq(Byte)

Labels == {"idle", "lock", "asleep", "watch", "select", "write", "read", "process", "parse",
           "sync", "body", "restart", "deliver", "stopped"}

ThreadTypes ==
    /\ {isCancelled, open, cancel} \subseteq BOOLEAN
    /\ pc \in [Threads -> Labels]
    /\ msg \in [Threads -> Seq(Byte)]
    /\ ready \subseteq {"r", "w"} /\ pipe \in Nat /\ resets \in Nat
    /\ nextMsg \in 1 .. Len(Outgoing) + 1

LineTypes ==
    /\ receivedData \in Seq(Seq(Byte))
    /\ incoming \in Seq(Byte) /\ ttyIn \in Seq(Byte) /\ ttyOut \in 0 .. TtyOut
    /\ put \in Seq(Byte) /\ wire \in Seq(Byte)
    /\ sent \in Seq(Seq(Byte)) /\ delivered \in Seq(Seq(Byte))

TypeInv == RingTypes /\ ParserTypes /\ ThreadTypes /\ LineTypes

LEMMA TypeInvImplies == TypeInv => TypeOK
  BY DEF TypeInv, RingTypes, ParserTypes, ThreadTypes, LineTypes, TypeOK, Labels

LEMMA TypeInit == Init => TypeInv
<1> SUFFICES ASSUME Init PROVE TypeInv
  OBVIOUS
<1>1. RingTypes
  <2>1. outBuffer \in [Index -> Byte] /\ inBuffer \in [Index -> Byte]
    BY DEF Init, Byte
  <2>2. p \in Index /\ {outRead, outWrite, inRead, inWrite, inw} \subseteq Index
    BY RingSize DEF Init
  <2>3. 0 \in 0 .. BufLen
    BY RingSize
  <2> QED
    BY <2>1, <2>2, <2>3 DEF Init, RingTypes
<1>2. ParserTypes
  <2>1. /\ lastSYN = -1 /\ startPkt = -1 /\ esc = FALSE /\ justStarted = TRUE
        /\ crcIn = 0 /\ inCRCstate = 0 /\ receivedCRC = 0 /\ rcv = <<>>
    BY DEF Init
  <2>2. 0 \in Word
    BY WordIs
  <2>3. {lastSYN, startPkt} \subseteq Index \cup {-1}
    BY <2>1
  <2>4. {esc, justStarted} \subseteq BOOLEAN
    BY <2>1
  <2>5. {crcIn, receivedCRC} \subseteq Word
    BY <2>1, <2>2
  <2>6. inCRCstate \in 0 .. 2 /\ (inCRCstate = 2 => receivedCRC <= 65280)
    BY <2>1
  <2>7. rcv \in Seq(Byte)
    BY <2>1
  <2> QED
    BY <2>3, <2>4, <2>5, <2>6, <2>7 DEF ParserTypes
<1>3. ThreadTypes
  <2>1. msg \in [Threads -> Seq(Byte)]
    BY DEF Init
  <2>2. pc \in [Threads -> Labels]
    BY DEF Init, Labels
  <2>3. nextMsg \in 1 .. Len(Outgoing) + 1
    BY TrafficAssumption DEF Init
  <2> QED
    BY <2>1, <2>2, <2>3 DEF Init, ThreadTypes
<1>4. LineTypes
  <2>1. incoming \in Seq(Byte) /\ sent \in Seq(Seq(Byte))
    BY TrafficAssumption DEF Init
  <2> QED
    BY <2>1, Constants DEF Init, LineTypes
<1> QED
  BY <1>1, <1>2, <1>3, <1>4 DEF TypeInv

(* What a step leaves alone keeps its type. *)
LEMMA RingTypesKept ==
    RingTypes /\ UNCHANGED <<outVars, inVars, scanVars>> /\ (At("body")' => At("body"))
        => RingTypes'
  BY DEF RingTypes, outVars, inVars, scanVars

LEMMA ParserTypesKept == ParserTypes /\ UNCHANGED parseVars => ParserTypes'
  BY DEF ParserTypes, parseVars

LEMMA LineTypesKept ==
    LineTypes /\ UNCHANGED <<receivedData, lineVars, outHist, inHist>> => LineTypes'
  BY DEF LineTypes, lineVars, outHist, inHist

LEMMA GotoTypes ==
    ASSUME ThreadTypes, NEW t \in Threads, NEW l \in Labels, Goto(t, l)
    PROVE  /\ pc' \in [Threads -> Labels]
           /\ pc'[t] = l
           /\ \A u \in Threads \ {t} : pc'[u] = pc[u]
           /\ l # "body" => (At("body")' => At("body"))
<1>1. "pump" \in Threads
  BY DEF Threads
<1> QED
  BY <1>1 DEF ThreadTypes, Goto, At

(* Only NotifyAll wakes threads, and it leaves the pump where it is put. *)
LEMMA NotifyTypes ==
    ASSUME ThreadTypes, NEW l \in Labels, pc' = [NotifyAll(pc) EXCEPT !["pump"] = l]
    PROVE  /\ pc' \in [Threads -> Labels]
           /\ l # "body" => (At("body")' => At("body"))
<1>1. "pump" \in Threads /\ "lock" \in Labels
  BY DEF Threads, Labels
<1>2. NotifyAll(pc) \in [Threads -> Labels]
  BY <1>1 DEF ThreadTypes, NotifyAll
<1> QED
  BY <1>1, <1>2 DEF At

LEMMA AssembleTypes ==
    ASSUME CrcType, ThreadTypes, NEW t \in Threads, NEW b \in Seq(Byte), Assemble(t, b)
    PROVE  /\ pc' \in [Threads -> Labels] /\ (At("body")' => At("body"))
           /\ msg' \in [Threads -> Seq(Byte)] /\ pipe' \in Nat
<1>1. "lock" \in Labels
  BY DEF Labels
<1>2. pc' \in [Threads -> Labels] /\ (At("body")' => At("body"))
  BY <1>1, GotoTypes DEF Assemble
<1>3. msg' \in [Threads -> Seq(Byte)]
  <2>1. Encode(b) \in Seq(Byte)
    BY EncodeType
  <2> QED
    BY <2>1 DEF Assemble, ThreadTypes
<1> QED
  BY <1>2, <1>3 DEF Assemble, ThreadTypes

LEMMA CallTypes ==
    ASSUME CrcType, TypeInv, NEW t \in Callers, Call(t)
    PROVE  TypeInv'
<1>1. t \in Threads
  BY DEF Threads
<1>2. nextMsg \in 1 .. Len(Outgoing) /\ Outgoing[nextMsg] \in Seq(Byte)
  BY TrafficAssumption DEF TypeInv, ThreadTypes, Call
<1>3. /\ pc' \in [Threads -> Labels] /\ (At("body")' => At("body"))
      /\ msg' \in [Threads -> Seq(Byte)] /\ pipe' \in Nat
  BY <1>1, <1>2, AssembleTypes DEF TypeInv, Call
<1>4. RingTypes'
  BY <1>3, RingTypesKept DEF TypeInv, Call
<1>5. ParserTypes'
  BY ParserTypesKept DEF TypeInv, Call
<1>6. ThreadTypes'
  <2>1. nextMsg' \in 1 .. Len(Outgoing) + 1
    BY <1>2, TrafficAssumption DEF Call
  <2> QED
    BY <1>3, <2>1 DEF TypeInv, ThreadTypes, Call
<1>7. LineTypes'
  BY LineTypesKept DEF TypeInv, Call
<1> QED
  BY <1>4, <1>5, <1>6, <1>7 DEF TypeInv
LEMMA ReturnedTypes ==
    ASSUME ThreadTypes, NEW t \in Threads, Returned(t)
    PROVE  /\ pc' \in [Threads -> Labels] /\ (At("body")' => At("body"))
           /\ msg' \in [Threads -> Seq(Byte)]
<1>1. {"deliver", "idle"} \subseteq Labels
  BY DEF Labels
<1>2. Goto(t, IF t = "pump" THEN "deliver" ELSE "idle")
  BY DEF Returned
<1>3. pc' \in [Threads -> Labels] /\ (At("body")' => At("body"))
  BY <1>1, <1>2, GotoTypes
<1>4. msg' \in [Threads -> Seq(Byte)]
  <2>1. <<>> \in Seq(Byte)
    OBVIOUS
  <2> QED
    BY <2>1 DEF Returned, ThreadTypes
<1> QED
  BY <1>3, <1>4

LEMMA SendTypes ==
    ASSUME TypeInv, NEW t \in Threads, Send(t)
    PROVE  TypeInv'
<1>1. CASE SendWait(t)
  <2>1. pc' \in [Threads -> Labels] /\ (At("body")' => At("body"))
    BY <1>1, GotoTypes DEF SendWait, TypeInv, Labels
  <2>2. RingTypes'
    BY <1>1, <2>1, RingTypesKept DEF SendWait, TypeInv
  <2>3. ParserTypes' /\ LineTypes'
    BY <1>1, ParserTypesKept, LineTypesKept DEF SendWait, TypeInv
  <2>4. ThreadTypes'
    BY <1>1, <2>1 DEF SendWait, TypeInv, ThreadTypes, callVars
  <2> QED
    BY <2>2, <2>3, <2>4 DEF TypeInv
<1>2. CASE SendPut(t)
  <2>1. /\ pc' \in [Threads -> Labels] /\ (At("body")' => At("body"))
        /\ msg' \in [Threads -> Seq(Byte)]
    BY <1>2, ReturnedTypes DEF SendPut, TypeInv
  <2>2. msg[t] \in Seq(Byte) /\ Len(msg[t]) \in Nat
    BY DEF TypeInv, ThreadTypes
  <2>3. outBuffer' \in [Index -> Byte]
    BY <1>2, <2>2, StoredType DEF SendPut, TypeInv, RingTypes
  <2>4. outWrite' \in Index
    <3>1. outWrite \in Int
      BY IndexIs DEF TypeInv, RingTypes
    <3>2. outWrite + Len(msg[t]) \in Int
      BY <2>2, <3>1
    <3> QED
      BY <1>2, <3>2, WrapType DEF SendPut
  <2>5. RingTypes'
    BY <1>2, <2>1, <2>3, <2>4 DEF SendPut, TypeInv, RingTypes, inVars, scanVars
  <2>6. ParserTypes'
    BY <1>2, ParserTypesKept DEF SendPut, TypeInv
  <2>7. ThreadTypes'
    BY <1>2, <2>1 DEF SendPut, TypeInv, ThreadTypes
  <2>8. LineTypes'
    <3>1. put' \in Seq(Byte)
      BY <1>2, <2>2 DEF SendPut, TypeInv, LineTypes
    <3> QED
      BY <1>2, <3>1 DEF SendPut, TypeInv, LineTypes, lineVars, inHist
  <2> QED
    BY <2>5, <2>6, <2>7, <2>8 DEF TypeInv
<1>3. CASE SendDrop(t)
  <2>1. /\ pc' \in [Threads -> Labels] /\ (At("body")' => At("body"))
        /\ msg' \in [Threads -> Seq(Byte)]
    BY <1>3, ReturnedTypes DEF SendDrop, TypeInv
  <2>2. RingTypes'
    BY <1>3, <2>1, RingTypesKept DEF SendDrop, TypeInv
  <2>3. ParserTypes' /\ LineTypes'
    BY <1>3, ParserTypesKept, LineTypesKept DEF SendDrop, TypeInv
  <2>4. ThreadTypes'
    BY <1>3, <2>1 DEF SendDrop, TypeInv, ThreadTypes
  <2> QED
    BY <2>2, <2>3, <2>4 DEF TypeInv
<1> QED
  BY <1>1, <1>2, <1>3 DEF Send

(* The pump: its look at the rings, select, and what the port takes and gives. *)
LEMMA SelectTypes ==
    ASSUME TypeInv, PumpWatch \/ PumpCancelled \/ PumpSelect \/ PumpProcess
    PROVE  TypeInv'
<1>1. pc' \in [Threads -> Labels] /\ (At("body")' => At("body"))
  <2>0. "pump" \in Threads /\ {"select", "watch", "write", "stopped", "parse", "deliver"} \subseteq Labels
    BY DEF Threads, Labels
  <2>1. CASE PumpWatch
    BY <2>0, <2>1, GotoTypes DEF PumpWatch, TypeInv
  <2>2. CASE PumpCancelled
    BY <2>0, <2>2, NotifyTypes DEF PumpCancelled, TypeInv
  <2>3. CASE PumpSelect
    BY <2>0, <2>3, GotoTypes DEF PumpSelect, TypeInv
  <2>4. CASE PumpProcess
    <3>1. Goto("pump", IF Unparsed THEN "parse" ELSE "deliver")
      BY <2>4 DEF PumpProcess
    <3> QED
      BY <2>0, <3>1, GotoTypes DEF TypeInv
  <2> QED
    BY <2>1, <2>2, <2>3, <2>4
<1>2. UNCHANGED <<outVars, inVars, parseVars, callVars, scanVars, receivedData, lineVars,
                  outHist, inHist>>
  BY DEF PumpWatch, PumpCancelled, PumpSelect, PumpProcess
<1>3. RingTypes' /\ ParserTypes' /\ LineTypes'
  BY <1>1, <1>2, RingTypesKept, ParserTypesKept, LineTypesKept DEF TypeInv
<1>4. ready' \subseteq {"r", "w"}
  BY DEF PumpWatch, PumpCancelled, PumpSelect, PumpProcess, Selected, TypeInv, ThreadTypes
<1>5. pipe' \in Nat
  BY DEF PumpWatch, PumpCancelled, PumpSelect, PumpProcess, TypeInv, ThreadTypes
<1>6. {isCancelled', open', cancel'} \subseteq BOOLEAN /\ resets' = resets
  BY DEF PumpWatch, PumpCancelled, PumpSelect, PumpProcess, TypeInv, ThreadTypes
<1>7. ThreadTypes'
  BY <1>1, <1>2, <1>4, <1>5, <1>6 DEF TypeInv, ThreadTypes, callVars
<1> QED
  BY <1>3, <1>7 DEF TypeInv

LEMMA WriteTypes ==
    ASSUME TypeInv, PumpWrite
    PROVE  TypeInv'
<1>1. "read" \in Labels /\ "pump" \in Threads
  BY DEF Labels, Threads
<1>2. pc' \in [Threads -> Labels] /\ (At("body")' => At("body"))
  BY <1>1, GotoTypes, NotifyTypes DEF PumpWrite, TypeInv
<1>3. {outRead, outWrite, ttyOut, BufLen, TtyOut} \subseteq Int
  BY IndexIs, Constants, RingSize DEF TypeInv, RingTypes, LineTypes
<1>4. ToWrite \in Int /\ ToWrite <= TtyOut - ttyOut
  BY <1>3 DEF ToWrite, Least
<1>5. outRead' \in Index
  <2>1. Wrap(outRead + ToWrite) \in Index
    BY <1>3, <1>4, WrapType
  <2> QED
    BY <2>1 DEF PumpWrite, TypeInv, RingTypes
<1>6. RingTypes'
  BY <1>2, <1>5 DEF PumpWrite, TypeInv, RingTypes, inVars, scanVars
<1>7. ParserTypes'
  BY ParserTypesKept DEF PumpWrite, TypeInv
<1>8. ThreadTypes'
  BY <1>2 DEF PumpWrite, TypeInv, ThreadTypes, callVars
<1>9. LineTypes'
  <2>1. wire' \in Seq(Byte)
    <3>1. CASE ToWrite > 0
      <4>1. Fetched(outBuffer, outRead, ToWrite) \in Seq(Byte)
        BY <1>4, <3>1, FetchedType DEF TypeInv, RingTypes
      <4>2. wire \in Seq(Byte) /\ wire \o Fetched(outBuffer, outRead, ToWrite) \in Seq(Byte)
        BY <4>1 DEF TypeInv, LineTypes
      <4>3. wire' \in {wire, wire \o Fetched(outBuffer, outRead, ToWrite)}
        BY DEF PumpWrite
      <4> QED
        BY <4>2, <4>3
    <3>2. CASE ~(ToWrite > 0)
      BY <3>2 DEF PumpWrite, TypeInv, LineTypes
    <3> QED
      BY <3>1, <3>2
  <2>2. ttyOut' \in 0 .. TtyOut
    BY <1>3, <1>4 DEF PumpWrite, TypeInv, LineTypes
  <2> QED
    BY <2>1, <2>2 DEF PumpWrite, TypeInv, LineTypes, inHist
<1> QED
  BY <1>6, <1>7, <1>8, <1>9 DEF TypeInv

LEMMA ReadTypes ==
    ASSUME TypeInv, PumpRead
    PROVE  TypeInv'
<1>1. "process" \in Labels /\ "pump" \in Threads
  BY DEF Labels, Threads
<1>2. pc' \in [Threads -> Labels] /\ (At("body")' => At("body"))
  BY <1>1, GotoTypes DEF PumpRead, TypeInv
<1>3. ttyIn \in Seq(Byte) /\ Len(ttyIn) \in Nat
  BY DEF TypeInv, LineTypes
<1>4. ToRead \in 0 .. Len(ttyIn)
  <2>1. {inRead, inWrite, BufLen} \subseteq Int /\ inWrite < BufLen
    BY IndexIs, RingSize DEF TypeInv, RingTypes
  <2> QED
    BY <1>3, <2>1 DEF ToRead, Least
<1>5. /\ SubSeq(ttyIn, 1, ToRead) \in Seq(Byte)
      /\ SubSeq(ttyIn, ToRead + 1, Len(ttyIn)) \in Seq(Byte)
  BY <1>3, <1>4
<1>6. inBuffer' \in [Index -> Byte]
  <2>1. inBuffer \in [Index -> Byte] /\ inWrite \in Index
    BY DEF TypeInv, RingTypes
  <2>2. Stored(inBuffer, inWrite, SubSeq(ttyIn, 1, ToRead)) \in [Index -> Byte]
    BY <1>5, <2>1, StoredType
  <2>3. inBuffer' \in {inBuffer, Stored(inBuffer, inWrite, SubSeq(ttyIn, 1, ToRead))}
    BY DEF PumpRead
  <2> QED
    BY <2>1, <2>2, <2>3
<1>7. inWrite' \in Index
  <2>1. Wrap(inWrite + ToRead) \in Index
    BY <1>4, IndexIs, WrapType DEF TypeInv, RingTypes
  <2> QED
    BY <2>1 DEF PumpRead, TypeInv, RingTypes
<1>8. RingTypes'
  BY <1>2, <1>6, <1>7 DEF PumpRead, TypeInv, RingTypes, outVars, scanVars
<1>9. ParserTypes'
  BY ParserTypesKept DEF PumpRead, TypeInv
<1>10. ThreadTypes'
  BY <1>2 DEF PumpRead, TypeInv, ThreadTypes, callVars
<1>11. LineTypes'
  <2>1. ttyIn' \in Seq(Byte)
    BY <1>5 DEF PumpRead, TypeInv, LineTypes
  <2> QED
    BY <2>1 DEF PumpRead, TypeInv, LineTypes, outHist, inHist
<1> QED
  BY <1>8, <1>9, <1>10, <1>11 DEF TypeInv

LEMMA DeliverTypes ==
    ASSUME CrcType, TypeInv, PumpDeliver
    PROVE  TypeInv'
<1>1. "watch" \in Labels /\ "pump" \in Threads
  BY DEF Labels, Threads
<1>2. /\ pc' \in [Threads -> Labels] /\ (At("body")' => At("body"))
      /\ msg' \in [Threads -> Seq(Byte)] /\ pipe' \in Nat
  <2>1. CASE receivedData # <<>> /\ Head(receivedData) \in DOMAIN ReplyTo
    <3>1. ReplyTo[Head(receivedData)] \in Seq(Byte)
      BY <2>1, TrafficAssumption
    <3>2. Assemble("pump", ReplyTo[Head(receivedData)])
      BY <2>1 DEF PumpDeliver
    <3> QED
      BY <1>1, <3>1, <3>2, AssembleTypes DEF TypeInv
  <2>2. CASE receivedData # <<>> /\ Head(receivedData) \notin DOMAIN ReplyTo
    BY <2>2 DEF PumpDeliver, TypeInv, ThreadTypes, At
  <2>3. CASE receivedData = <<>>
    <3>1. Goto("pump", "watch") /\ UNCHANGED <<msg, pipe>>
      BY <2>3 DEF PumpDeliver
    <3>2. pc' \in [Threads -> Labels] /\ (At("body")' => At("body"))
      BY <1>1, <3>1, GotoTypes DEF TypeInv
    <3> QED
      BY <3>1, <3>2 DEF TypeInv, ThreadTypes
  <2> QED
    BY <2>1, <2>2, <2>3
<1>3. receivedData' \in Seq(Seq(Byte)) /\ delivered' \in Seq(Seq(Byte))
  <2>1. CASE receivedData # <<>>
    <3>1. Head(receivedData) \in Seq(Byte) /\ Tail(receivedData) \in Seq(Seq(Byte))
      BY <2>1 DEF TypeInv, LineTypes
    <3>2. receivedData' = Tail(receivedData) /\ delivered' = Append(delivered, Head(receivedData))
      BY <2>1 DEF PumpDeliver
    <3>3. delivered \in Seq(Seq(Byte))
      BY DEF TypeInv, LineTypes
    <3> QED
      BY <3>1, <3>2, <3>3
  <2>2. CASE receivedData = <<>>
    BY <2>2 DEF PumpDeliver, TypeInv, LineTypes
  <2> QED
    BY <2>1, <2>2
<1>4. RingTypes'
  BY <1>2, RingTypesKept DEF PumpDeliver, TypeInv
<1>5. ParserTypes'
  BY ParserTypesKept DEF PumpDeliver, TypeInv
<1>6. ThreadTypes'
  BY <1>2 DEF PumpDeliver, TypeInv, ThreadTypes
<1>7. LineTypes'
  BY <1>3 DEF PumpDeliver, TypeInv, LineTypes, lineVars, outHist
<1> QED
  BY <1>4, <1>5, <1>6, <1>7 DEF TypeInv

(* A reset, whoever asks for it, comes when the parser holds no lock. *)
LEMMA ResetTypes ==
    ASSUME TypeInv, Reset \/ PumpRestart
    PROVE  TypeInv'
<1>1. pc' \in [Threads -> Labels] /\ (At("body")' => At("body")) /\ InternalReset
  <2>1. "deliver" \in Labels /\ "pump" \in Threads
    BY DEF Labels, Threads
  <2>2. CASE Reset
    BY <2>2 DEF Reset, TypeInv, ThreadTypes, At
  <2>3. CASE PumpRestart
    BY <2>1, <2>3, GotoTypes DEF PumpRestart, TypeInv
  <2> QED
    BY <2>2, <2>3
<1>2. RingTypes'
  BY <1>1, RingSize DEF InternalReset, TypeInv, RingTypes, scanVars
<1>3. ParserTypes'
  <2>1. 0 \in Word
    BY WordIs
  <2>2. /\ esc' = FALSE /\ lastSYN' = -1 /\ startPkt' = -1 /\ crcIn' = 0 /\ justStarted' = TRUE
        /\ UNCHANGED <<inCRCstate, receivedCRC, rcv>>
    BY <1>1 DEF InternalReset
  <2>3. {lastSYN', startPkt'} \subseteq Index \cup {-1} /\ {esc', justStarted'} \subseteq BOOLEAN
    BY <2>2
  <2>4. {crcIn', receivedCRC'} \subseteq Word /\ rcv' \in Seq(Byte)
    BY <2>1, <2>2 DEF TypeInv, ParserTypes
  <2>5. inCRCstate' \in 0 .. 2 /\ (inCRCstate' = 2 => receivedCRC' <= 65280)
    BY <2>2 DEF TypeInv, ParserTypes
  <2> QED
    BY <2>3, <2>4, <2>5 DEF ParserTypes
<1>4. ThreadTypes'
  <2>1. open' \in BOOLEAN
    BY <1>1 DEF InternalReset
  <2> QED
    BY <1>1, <2>1 DEF InternalReset, TypeInv, ThreadTypes, callVars
<1>5. LineTypes'
  <2>1. <<>> \in Seq(Byte) /\ 0 \in 0 .. TtyOut
    BY Constants
  <2> QED
    BY <1>1, <2>1 DEF InternalReset, TypeInv, LineTypes, inHist
<1> QED
  BY <1>2, <1>3, <1>4, <1>5 DEF TypeInv

(* The end of ncpd, and the line. *)
LEMMA LineTypesNext ==
    ASSUME TypeInv, Cancel \/ Arrive \/ LineTakes
    PROVE  TypeInv'
<1>1. UNCHANGED <<outVars, inVars, parseVars, pc, callVars, ready, scanVars, receivedData,
                  outHist, inHist, isCancelled, open, pipe, resets>>
  BY DEF Cancel, Arrive, LineTakes
<1>2. RingTypes' /\ ParserTypes'
  BY <1>1, RingTypesKept, ParserTypesKept DEF TypeInv, At
<1>3. ThreadTypes'
  <2>1. cancel' \in BOOLEAN
    BY DEF Cancel, Arrive, LineTakes, TypeInv, ThreadTypes
  <2> QED
    BY <1>1, <2>1 DEF TypeInv, ThreadTypes, callVars
<1>4. incoming' \in Seq(Byte) /\ ttyIn' \in Seq(Byte)
  <2>1. CASE Arrive
    <3>1. PICK n \in Chunks \cap 1 .. Len(incoming) :
            /\ ttyIn' = SubSeq(incoming, 1, n)
            /\ incoming' = SubSeq(incoming, n + 1, Len(incoming))
      BY <2>1 DEF Arrive
    <3>2. incoming \in Seq(Byte) /\ Len(incoming) \in Nat
      BY DEF TypeInv, LineTypes
    <3> QED
      BY <3>1, <3>2
  <2>2. CASE Cancel \/ LineTakes
    BY <2>2 DEF Cancel, LineTakes, TypeInv, LineTypes, lineVars
  <2> QED
    BY <2>1, <2>2
<1>5. ttyOut' \in 0 .. TtyOut
  BY Constants DEF Cancel, Arrive, LineTakes, TypeInv, LineTypes, lineVars
<1>6. LineTypes'
  BY <1>1, <1>4, <1>5 DEF TypeInv, LineTypes, outHist, inHist
<1> QED
  BY <1>2, <1>3, <1>6 DEF TypeInv

(* The parser: it keeps all but its own variables. *)
LEMMA ParseKept ==
    ASSUME TypeInv, UNCHANGED parseFrame,
           pc' \in [Threads -> Labels], receivedData' \in Seq(Seq(Byte)), ParserTypes',
           inRead' \in Index, inw' \in Index, p' \in 0 .. BufLen, At("body")' => p' \in Index
    PROVE  TypeInv'
<1>1. UNCHANGED <<outVars, isCancelled, inBuffer, inWrite, open, pipe, cancel, callVars, ready,
                  lineVars, outHist, inHist, resets>>
  BY DEF parseFrame
<1>2. RingTypes'
  BY <1>1 DEF TypeInv, RingTypes, outVars
<1>3. ThreadTypes'
  BY <1>1 DEF TypeInv, ThreadTypes, callVars
<1>4. LineTypes'
  BY <1>1 DEF TypeInv, LineTypes, lineVars, outHist, inHist
<1> QED
  BY <1>2, <1>3, <1>4 DEF TypeInv

LEMMA PositionTypes ==
    ASSUME TypeInv
    PROVE  /\ \A k \in Nat : Pos(k) \in Index
           /\ \A k \in Nat : Pos(k) + 1 \in 0 .. BufLen
           /\ \A k \in Nat : Ahead(k) \in Byte
           /\ Index \subseteq 0 .. BufLen
<1>1. p \in Int
  BY RingSize DEF TypeInv, RingTypes
<1>2. \A k \in Nat : Pos(k) \in Index
  BY <1>1, WrapType DEF Pos
<1>3. \A k \in Nat : Pos(k) + 1 \in 0 .. BufLen
  BY <1>2, IndexIs, RingSize
<1>4. \A k \in Nat : Ahead(k) \in Byte
  BY <1>2 DEF Ahead, TypeInv, RingTypes
<1>5. Index \subseteq 0 .. BufLen
  BY IndexIs, RingSize
<1> QED
  BY <1>2, <1>3, <1>4, <1>5

LEMMA ParseStartTypes ==
    ASSUME TypeInv, ParseStart
    PROVE  TypeInv'
<1>1. p' \in Index /\ inw' \in Index /\ inRead' \in Index
  <2>1. lastSYN >= 0 => lastSYN \in Index
    BY DEF TypeInv, ParserTypes
  <2> QED
    BY <2>1 DEF ParseStart, TypeInv, RingTypes
<1>2. pc' \in [Threads -> Labels]
  <2>1. Goto("pump", IF startPkt < 0 THEN "sync" ELSE "body")
    BY DEF ParseStart
  <2>2. "pump" \in Threads /\ (IF startPkt < 0 THEN "sync" ELSE "body") \in Labels
    BY DEF Threads, Labels
  <2> QED
    BY <2>1, <2>2, GotoTypes DEF TypeInv
<1>3. ParserTypes'
  <2>1. justStarted' \in BOOLEAN
    BY DEF ParseStart, TypeInv, ParserTypes
  <2> QED
    BY <2>1 DEF ParseStart, TypeInv, ParserTypes
<1>4. receivedData' \in Seq(Seq(Byte)) /\ UNCHANGED parseFrame
  BY DEF ParseStart, TypeInv, LineTypes
<1> QED
  BY <1>1, <1>2, <1>3, <1>4, ParseKept, PositionTypes

LEMMA SyncTypes ==
    ASSUME TypeInv, SyncEnd \/ SyncPart \/ SyncSkip
    PROVE  TypeInv'
<1>1. /\ UNCHANGED <<inRead, inw, startPkt, esc, crcIn, inCRCstate, receivedCRC, rcv,
                     justStarted, receivedData, parseFrame>>
      /\ ~At("body")
  BY DEF SyncEnd, SyncPart, SyncSkip, NoSync, At
<1>2. lastSYN' \in Index \cup {-1}
  <2>1. Pos(0) \in Index
    BY PositionTypes
  <2> QED
    BY <2>1 DEF SyncEnd, SyncPart, SyncSkip, NoSync, TypeInv, ParserTypes
<1>3. ParserTypes'
  BY <1>1, <1>2 DEF TypeInv, ParserTypes
<1>4. pc' \in [Threads -> Labels] /\ ~At("body")'
  <2>1. CASE SyncEnd \/ SyncPart
    <3>1. PICK l \in {"restart", "deliver"} : Goto("pump", l)
      BY <2>1 DEF SyncEnd, SyncPart, NoSync
    <3>2. l \in Labels /\ l # "body" /\ "pump" \in Threads
      BY DEF Threads, Labels
    <3> QED
      BY <1>1, <3>1, <3>2, GotoTypes DEF TypeInv
  <2>2. CASE SyncSkip
    BY <1>1, <2>2 DEF SyncSkip, TypeInv, ThreadTypes, At
  <2> QED
    BY <2>1, <2>2
<1>5. p' \in 0 .. BufLen
  <2>1. /\ Pos(0) + 1 \in 0 .. BufLen /\ Pos(1) + 1 \in 0 .. BufLen
        /\ Pos(2) + 1 \in 0 .. BufLen
    BY PositionTypes
  <2> QED
    BY <2>1 DEF SyncEnd, SyncPart, SyncSkip, NoSync, TypeInv, RingTypes
<1>6. receivedData' \in Seq(Seq(Byte)) /\ inRead' \in Index /\ inw' \in Index
  BY <1>1 DEF TypeInv, LineTypes, RingTypes
<1> QED
  BY <1>1, <1>3, <1>4, <1>5, <1>6, ParseKept

LEMMA SyncFoundTypes ==
    ASSUME TypeInv, SyncFound
    PROVE  TypeInv'
<1>1. Pos(3) \in Index /\ Pos(3) \in 0 .. BufLen
  BY PositionTypes
<1>2. p' \in Index /\ p' \in 0 .. BufLen /\ inRead' \in Index /\ inw' \in Index
  BY <1>1 DEF SyncFound, TypeInv, RingTypes
<1>3. pc' \in [Threads -> Labels]
  <2>1. "pump" \in Threads /\ "body" \in Labels /\ Goto("pump", "body")
    BY DEF Threads, Labels, SyncFound
  <2> QED
    BY <2>1, GotoTypes DEF TypeInv
<1>4. ParserTypes'
  <2>1. {lastSYN', startPkt'} \subseteq Index \cup {-1} /\ {esc', justStarted'} \subseteq BOOLEAN
    BY <1>1 DEF SyncFound
  <2>2. {crcIn', receivedCRC'} \subseteq Word
    <3>1. 0 \in Word
      BY WordIs
    <3> QED
      BY <3>1 DEF SyncFound, TypeInv, ParserTypes
  <2>3. inCRCstate' = 0 /\ rcv' \in Seq(Byte)
    BY DEF SyncFound
  <2>4. inCRCstate' \in 0 .. 2 /\ inCRCstate' # 2
    BY <2>3
  <2> QED
    BY <2>1, <2>2, <2>3, <2>4 DEF ParserTypes
<1>5. receivedData' \in Seq(Seq(Byte)) /\ UNCHANGED parseFrame
  BY DEF SyncFound, TypeInv, LineTypes
<1> QED
  BY <1>2, <1>3, <1>4, <1>5, ParseKept

LEMMA BodyTypes ==
    ASSUME CrcType, TypeInv, BodyEnd \/ BodyByte \/ BodyLast
    PROVE  TypeInv'
<1>1. p \in Index /\ inBuffer[p] \in Byte /\ "pump" \in Threads
  BY DEF BodyEnd, BodyByte, BodyLast, TypeInv, RingTypes, Threads
<1>2. Pos(1) \in Index
  BY PositionTypes
<1>3. p' \in Index /\ inRead' \in Index /\ inw' \in Index
  BY <1>1, <1>2 DEF BodyEnd, BodyByte, BodyLast, Consumed, TypeInv, RingTypes
<1>4. pc' \in [Threads -> Labels]
  <2>1. CASE BodyEnd \/ BodyLast
    <3>1. PICK l \in {"sync", "deliver"} : Goto("pump", l)
      BY <2>1 DEF BodyEnd, BodyLast
    <3>2. l \in Labels
      BY DEF Labels
    <3> QED
      BY <1>1, <3>1, <3>2, GotoTypes DEF TypeInv
  <2>2. CASE BodyByte
    BY <2>2 DEF BodyByte, TypeInv, ThreadTypes
  <2> QED
    BY <2>1, <2>2
<1>5. receivedData' \in Seq(Seq(Byte))
  <2>1. receivedData \in Seq(Seq(Byte)) /\ rcv \in Seq(Byte)
    BY DEF TypeInv, LineTypes, ParserTypes
  <2>2. receivedData' \in {receivedData, Append(receivedData, rcv)}
    BY DEF BodyEnd, BodyByte, BodyLast
  <2> QED
    BY <2>1, <2>2
<1>6. ParserTypes'
  <2>1. CASE BodyEnd
    BY <1>1, <2>1 DEF BodyEnd, TypeInv, ParserTypes
  <2>2. CASE BodyByte
    <3> DEFINE c == inBuffer[p]
    <3>1. lastSYN' = lastSYN /\ startPkt' = startPkt /\ justStarted' = justStarted
      BY <2>2 DEF BodyByte
    <3>2. esc' \in BOOLEAN
      <4>1. esc' = esc \/ esc' = TRUE \/ esc' = FALSE
        BY <2>2 DEF BodyByte
      <4>2. esc \in BOOLEAN
        BY DEF TypeInv, ParserTypes
      <4> QED
        BY <4>1, <4>2
    <3>3. rcv' \in Seq(Byte) /\ crcIn' \in Word
      <4>1. ETX \in Byte
        BY DEF ETX, Byte
      <4>2. \A x \in Byte : Append(rcv, x) \in Seq(Byte) /\ AddToCrc(x, crcIn) \in Word
        BY CrcType DEF CrcType, TypeInv, ParserTypes
      <4>3. (rcv' = rcv /\ crcIn' = crcIn) \/ AddByte(ETX) \/ AddByte(c)
        BY <2>2 DEF BodyByte
      <4> QED
        BY <1>1, <4>1, <4>2, <4>3 DEF AddByte, TypeInv, ParserTypes
    <3>4. /\ inCRCstate' \in 0 .. 2 /\ receivedCRC' \in Word
          /\ inCRCstate' = 2 => receivedCRC' <= 65280
      <4>1. CASE inCRCstate = 0
        BY <2>2, <4>1 DEF BodyByte, TypeInv, ParserTypes
      <4>2. CASE inCRCstate = 1
        <5>1. receivedCRC' = c * 256 /\ inCRCstate' = 2
          BY <2>2, <4>2 DEF BodyByte
        <5>2. c * 256 \in Word /\ c * 256 <= 65280
          BY <1>1, HighByte
        <5> QED
          BY <5>1, <5>2
      <4> QED
        BY <2>2, <4>1, <4>2 DEF BodyByte, TypeInv, ParserTypes
    <3> QED
      BY <3>1, <3>2, <3>3, <3>4 DEF TypeInv, ParserTypes
  <2>3. CASE BodyLast
    <3>1. receivedCRC' \in Word
      <4>1. receivedCRC + inBuffer[p] \in Word
        BY <1>1, <2>3, BothBytes DEF BodyLast, TypeInv, ParserTypes
      <4> QED
        BY <2>3, <4>1 DEF BodyLast
    <3>2. startPkt' = -1 /\ lastSYN' = -1 /\ inCRCstate' = 0 /\ rcv' \in Seq(Byte)
      BY <2>3 DEF BodyLast
    <3>3. esc' = esc /\ crcIn' = crcIn /\ justStarted' = justStarted
      BY <2>3 DEF BodyLast
    <3>4. {lastSYN', startPkt'} \subseteq Index \cup {-1} /\ inCRCstate' \in 0 .. 2
          /\ inCRCstate' # 2
      BY <3>2
    <3> QED
      BY <3>1, <3>2, <3>3, <3>4 DEF TypeInv, ParserTypes
  <2> QED
    BY <2>1, <2>2, <2>3
<1>7. UNCHANGED parseFrame
  BY DEF BodyEnd, BodyByte, BodyLast
<1>8. p' \in 0 .. BufLen
  BY <1>3, PositionTypes
<1> QED
  BY <1>3, <1>4, <1>5, <1>6, <1>7, <1>8, ParseKept

LEMMA TypeNext ==
    ASSUME CrcType, TypeInv, [Next]_vars
    PROVE  TypeInv'
<1>1. ASSUME NEW t \in Callers, Call(t) PROVE TypeInv'
  BY <1>1, CallTypes
<1>2. ASSUME NEW t \in Threads, Send(t) PROVE TypeInv'
  BY <1>2, SendTypes
<1>3. CASE PumpWatch \/ PumpCancelled \/ PumpSelect \/ PumpProcess
  BY <1>3, SelectTypes
<1>4. CASE PumpWrite
  BY <1>4, WriteTypes
<1>5. CASE PumpRead
  BY <1>5, ReadTypes
<1>6. CASE PumpDeliver
  BY <1>6, DeliverTypes
<1>7. CASE Reset \/ PumpRestart
  BY <1>7, ResetTypes
<1>8. CASE Cancel \/ Arrive \/ LineTakes
  BY <1>8, LineTypesNext
<1>9. CASE Parse
  BY <1>9, ParseStartTypes, SyncTypes, SyncFoundTypes, BodyTypes DEF Parse
<1>10. CASE UNCHANGED vars
  <2>1. UNCHANGED <<outVars, isCancelled, inVars, parseVars, open, pipe, cancel, pc, callVars,
                    ready, scanVars, receivedData, lineVars, outHist, inHist, resets>>
    BY <1>10 DEF vars
  <2>2. RingTypes' /\ ParserTypes' /\ LineTypes'
    BY <2>1, RingTypesKept, ParserTypesKept, LineTypesKept DEF TypeInv, At
  <2>3. ThreadTypes'
    BY <2>1 DEF TypeInv, ThreadTypes, callVars
  <2> QED
    BY <2>2, <2>3 DEF TypeInv
<1> QED
  BY <1>1, <1>2, <1>3, <1>4, <1>5, <1>6, <1>7, <1>8, <1>9, <1>10 DEF Next, Pump

(* The rings' indices and the parser's stay inside the rings, whatever arrives and *)
(* however it is cut into reads; all of the link's state keeps its types.          *)
THEOREM TypeCorrect ==
    ASSUME CrcType
    PROVE  Spec => []TypeOK
<1>1. Init => TypeInv
  BY TypeInit
<1>2. TypeInv /\ [Next]_vars => TypeInv'
  BY TypeNext
<1>3. TypeInv => TypeOK
  BY TypeInvImplies
<1> QED
  BY <1>1, <1>2, <1>3, PTL DEF Spec

-----------------------------------------------------------------------------
(* What is put is what is written *)

LEMMA WrapIs ==
    ASSUME NEW i \in Int
    PROVE  /\ 0 <= i /\ i < BufLen => Wrap(i) = i
           /\ BufLen <= i /\ i < 2 * BufLen => Wrap(i) = i - BufLen
           /\ -BufLen <= i /\ i < 0 => Wrap(i) = i + BufLen
<1>1. PICK N \in Nat \ {0} : N = BufLen
  BY RingSize
<1>2. /\ 0 <= i /\ i < N => i \in 0 .. N - 1
      /\ N <= i /\ i < 2 * N => i \in N .. 2 * N - 1
      /\ -N <= i /\ i < 0 => i \in -N .. -1
  OBVIOUS
<1>3. /\ 0 <= i /\ i < N => i % N = i
      /\ N <= i /\ i < 2 * N => i % N = i - N
      /\ -N <= i /\ i < 0 => i % N = i + N
  BY <1>2, Remainder
<1> QED
  BY <1>1, <1>3 DEF Wrap

(* The bytes that wait to be read, and what remains free of the ring. *)
LEMMA Waiting ==
    ASSUME NEW r \in Index, NEW w \in Index
    PROVE  /\ Wrap(w - r) \in Nat
           /\ Wrap(w - r) = IF w < r THEN w - r + BufLen ELSE w - r
           /\ Wrap(r - w - 1 + BufLen) = BufLen - 1 - Wrap(w - r)
<1>1. r \in Int /\ w \in Int /\ 0 <= r /\ r < BufLen /\ 0 <= w /\ w < BufLen /\ BufLen \in Int
  BY IndexIs, RingSize
<1>2. CASE w < r
  <2>1. Wrap(w - r) = w - r + BufLen
    BY <1>1, <1>2, WrapIs
  <2>2. Wrap(r - w - 1 + BufLen) = r - w - 1
    BY <1>1, <1>2, WrapIs
  <2> QED
    BY <1>1, <1>2, <2>1, <2>2
<1>3. CASE ~(w < r)
  <2>1. Wrap(w - r) = w - r
    BY <1>1, <1>3, WrapIs
  <2>2. Wrap(r - w - 1 + BufLen) = r - w - 1 + BufLen
    BY <1>1, <1>3, WrapIs
  <2> QED
    BY <1>1, <1>3, <2>1, <2>2
<1> QED
  BY <1>2, <1>3

(* A message put where there is room for it comes after what already waits. *)
LEMMA FetchedStored ==
    ASSUME NEW buf \in [Index -> Byte], NEW r \in Index, NEW w \in Index, NEW b \in Seq(Byte),
           Len(b) <= Wrap(r - w - 1 + BufLen)
    PROVE  Fetched(Stored(buf, w, b), r, Wrap(Wrap(w + Len(b)) - r))
             = Fetched(buf, r, Wrap(w - r)) \o b
<1> DEFINE n == Wrap(w - r)
           l == Len(b)
           new == Stored(buf, w, b)
<1>1. r \in Int /\ w \in Int /\ 0 <= r /\ r < BufLen /\ 0 <= w /\ w < BufLen /\ BufLen \in Int
  BY IndexIs, RingSize
<1>2. l \in Nat /\ n \in Nat /\ n + l < BufLen /\ n = IF w < r THEN w - r + BufLen ELSE w - r
  <2>1. n \in Nat /\ n = IF w < r THEN w - r + BufLen ELSE w - r
    BY Waiting
  <2>2. Wrap(r - w - 1 + BufLen) = BufLen - 1 - n
    BY Waiting
  <2>3. l \in Nat /\ l <= BufLen - 1 - n
    BY <2>2
  <2> HIDE DEF n, l
  <2>4. n + l < BufLen
    BY <1>1, <2>1, <2>3
  <2> QED
    BY <2>1, <2>3, <2>4
<1> HIDE DEF n, l
<1>3. Wrap(Wrap(w + l) - r) = n + l
  <2>1. CASE w + l < BufLen
    <3>1. Wrap(w + l) = w + l
      BY <1>1, <1>2, <2>1, WrapIs
    <3>2. Wrap(w + l - r) = n + l
      BY <1>1, <1>2, <2>1, WrapIs
    <3> QED
      BY <1>1, <1>2, <3>1, <3>2
  <2>2. CASE ~(w + l < BufLen)
    <3>1. Wrap(w + l) = w + l - BufLen
      BY <1>1, <1>2, <2>2, WrapIs
    <3>2. Wrap(w + l - BufLen - r) = n + l
      BY <1>1, <1>2, <2>2, WrapIs
    <3> QED
      BY <1>1, <1>2, <3>1, <3>2
  <2> QED
    BY <2>1, <2>2
<1>4. ASSUME NEW k \in 1 .. n + l
      PROVE  /\ Wrap(r + k - 1) \in Index
             /\ k <= n => new[Wrap(r + k - 1)] = buf[Wrap(r + k - 1)]
             /\ k > n => new[Wrap(r + k - 1)] = b[k - n]
  <2> DEFINE i == Wrap(r + k - 1)
  <2>1. i \in Index /\ i \in Int
    BY <1>1, <1>2, WrapType, IndexIs
  <2>2. i = IF r + k - 1 < BufLen THEN r + k - 1 ELSE r + k - 1 - BufLen
    BY <1>1, <1>2, WrapIs
  <2> HIDE DEF i
  <2>3. new[i] = IF Wrap(i - w) < l THEN b[Wrap(i - w) + 1] ELSE buf[i]
    BY <2>1 DEF Stored, l
  <2>4. CASE k <= n
    <3>1. Wrap(i - w) = BufLen + k - 1 - n
      BY <1>1, <1>2, <2>1, <2>2, <2>4, WrapIs
    <3>2. ~(Wrap(i - w) < l)
      BY <1>1, <1>2, <2>4, <3>1
    <3> QED
      BY <1>2, <2>1, <2>3, <2>4, <3>2 DEF i
  <2>5. CASE k > n
    <3>1. Wrap(i - w) = k - n - 1
      BY <1>1, <1>2, <2>1, <2>2, <2>5, WrapIs
    <3>2. Wrap(i - w) < l /\ Wrap(i - w) + 1 = k - n
      BY <1>1, <1>2, <2>5, <3>1
    <3> QED
      BY <1>2, <2>1, <2>3, <2>5, <3>2 DEF i
  <2> QED
    BY <1>2, <2>4, <2>5
<1> HIDE DEF new
<1>5. Fetched(new, r, n + l) = Fetched(buf, r, n) \o b
  <2>1. Fetched(buf, r, n) \in Seq(Byte) /\ Len(Fetched(buf, r, n)) = n
    BY <1>2, FetchedType
  <2>2. Fetched(buf, r, n) \o b \in Seq(Byte) /\ Len(Fetched(buf, r, n) \o b) = n + l
    BY <1>2, <2>1 DEF l
  <2>3. ASSUME NEW k \in 1 .. n + l
        PROVE  (Fetched(buf, r, n) \o b)[k] = new[Wrap(r + k - 1)]
    <3>1. CASE k <= n
      <4>1. (Fetched(buf, r, n) \o b)[k] = Fetched(buf, r, n)[k]
        BY <1>2, <2>1, <3>1
      <4>2. Fetched(buf, r, n)[k] = buf[Wrap(r + k - 1)]
        BY <1>2, <3>1 DEF Fetched
      <4> QED
        BY <1>4, <3>1, <4>1, <4>2
    <3>2. CASE k > n
      <4>1. (Fetched(buf, r, n) \o b)[k] = b[k - n]
        BY <1>2, <2>1, <3>2 DEF l
      <4> QED
        BY <1>4, <3>2, <4>1
    <3>3. k <= n \/ k > n
      BY <1>2
    <3> QED
      BY <3>1, <3>2, <3>3
  <2>4. Fetched(new, r, n + l) = [k \in 1 .. n + l |-> (Fetched(buf, r, n) \o b)[k]]
    BY <2>3 DEF Fetched
  <2>5. \A s \in Seq(Byte) : s = [k \in 1 .. Len(s) |-> s[k]]
    OBVIOUS
  <2> QED
    BY <2>2, <2>4, <2>5
<1> QED
  BY <1>3, <1>5 DEF n, l, new

(* What is read of the ring is the first of what waits, up to its end. *)
LEMMA FetchedSplit ==
    ASSUME NEW buf \in [Index -> Byte], NEW r \in Index, NEW w \in Index, NEW n \in Nat,
           n <= IF w < r THEN BufLen - r ELSE w - r
    PROVE  Fetched(buf, r, Wrap(w - r))
             = Fetched(buf, r, n) \o Fetched(buf, Wrap(r + n), Wrap(w - Wrap(r + n)))
<1> DEFINE m == Wrap(w - r)
           r2 == Wrap(r + n)
<1>1. r \in Int /\ w \in Int /\ 0 <= r /\ r < BufLen /\ 0 <= w /\ w < BufLen /\ BufLen \in Int
  BY IndexIs, RingSize
<1>2. m \in Nat /\ n <= m /\ m < BufLen /\ m = IF w < r THEN w - r + BufLen ELSE w - r
  BY <1>1, Waiting
<1>3. r2 \in Index /\ r2 \in Int
  BY <1>1, WrapType, IndexIs
<1>4. r2 = IF r + n < BufLen THEN r + n ELSE r + n - BufLen
  BY <1>1, <1>2, WrapIs
<1> HIDE DEF m, r2
<1>5. Wrap(w - r2) = m - n
  BY <1>1, <1>2, <1>3, <1>4, WrapIs
<1>6. /\ Fetched(buf, r, n) \in Seq(Byte) /\ Len(Fetched(buf, r, n)) = n
      /\ Fetched(buf, r2, m - n) \in Seq(Byte) /\ Len(Fetched(buf, r2, m - n)) = m - n
  BY <1>2, <1>3, FetchedType
<1> DEFINE both == Fetched(buf, r, n) \o Fetched(buf, r2, m - n)
<1>7. both \in Seq(Byte) /\ Len(both) = m
  BY <1>2, <1>6
<1>8. ASSUME NEW k \in 1 .. m PROVE both[k] = buf[Wrap(r + k - 1)]
  <2>1. CASE k <= n
    <3>1. both[k] = Fetched(buf, r, n)[k]
      BY <1>2, <1>6, <2>1
    <3> QED
      BY <1>2, <2>1, <3>1 DEF Fetched
  <2>2. CASE k > n
    <3>1. both[k] = Fetched(buf, r2, m - n)[k - n]
      BY <1>2, <1>6, <2>2
    <3>2. Fetched(buf, r2, m - n)[k - n] = buf[Wrap(r2 + (k - n) - 1)]
      BY <1>2, <2>2 DEF Fetched
    <3>3. Wrap(r2 + (k - n) - 1) = Wrap(r + k - 1)
      <4>1. CASE r + n < BufLen
        BY <1>1, <1>2, <1>4, <4>1
      <4>2. CASE ~(r + n < BufLen)
        <5>1. r + k - 1 \in Int /\ BufLen <= r + k - 1 /\ r + k - 1 < 2 * BufLen
          BY <1>1, <1>2, <2>2, <4>2
        <5>2. Wrap(r + k - 1) = r + k - 1 - BufLen
          BY <1>1, <5>1, WrapIs
        <5>3. Wrap(r + k - 1 - BufLen) = r + k - 1 - BufLen
          BY <1>1, <1>2, <5>1, WrapIs
        <5>4. r2 + (k - n) - 1 = r + k - 1 - BufLen
          BY <1>1, <1>4, <4>2
        <5> QED
          BY <5>2, <5>3, <5>4
      <4> QED
        BY <4>1, <4>2
    <3> QED
      BY <3>1, <3>2, <3>3
  <2>3. k <= n \/ k > n
    BY <1>2
  <2> QED
    BY <2>1, <2>2, <2>3
<1>9. Fetched(buf, r, m) = [k \in 1 .. m |-> both[k]]
  BY <1>8 DEF Fetched
<1>10. Fetched(buf, r, m) = both
  <2> HIDE DEF both
  <2> QED
    BY <1>7, <1>9
<1> QED
  BY <1>5, <1>10 DEF m, r2

LEMMA WholeKept ==
    WrittenWhole /\ UNCHANGED <<outVars, outHist>> => WrittenWhole'
  BY DEF WrittenWhole, outVars, outHist, Fetched, Wrap

LEMMA WholePut ==
    ASSUME TypeInv, WrittenWhole, NEW t \in Threads, SendPut(t)
    PROVE  WrittenWhole'
<1> DEFINE m == msg[t]
           waiting == Fetched(outBuffer, outRead, Wrap(outWrite - outRead))
<1>1. /\ outBuffer \in [Index -> Byte] /\ outRead \in Index /\ outWrite \in Index
      /\ m \in Seq(Byte) /\ Len(m) \in Nat /\ wire \in Seq(Byte)
  BY DEF TypeInv, RingTypes, ThreadTypes, LineTypes
<1>2. outRead \in Int /\ outWrite \in Int
  BY <1>1, IndexIs
<1>3. Free \in Int /\ Len(m) <= Free
  <2>1. Free \in Int
    <3>1. PICK v \in Nat : v = Wrap(outWrite - outRead)
      BY <1>1, Waiting
    <3>2. Wrap(outRead - outWrite - 1 + BufLen) = BufLen - 1 - v
      BY <1>1, <3>1, Waiting
    <3>3. BufLen - 1 - v \in Int
      BY RingSize
    <3> QED
      BY <3>2, <3>3 DEF Free
  <2> QED
    BY <1>1, <2>1 DEF SendPut, Waits
<1>4. /\ outBuffer' = Stored(outBuffer, outWrite, m) /\ outWrite' = Wrap(outWrite + Len(m))
      /\ put' = put \o m /\ outRead' = outRead /\ wire' = wire
  BY DEF SendPut
<1>5. Fetched(outBuffer', outRead', Wrap(outWrite' - outRead')) = waiting \o m
  <2> HIDE DEF m
  <2>1. Len(m) <= Wrap(outRead - outWrite - 1 + BufLen)
    BY <1>3 DEF Free
  <2>2. Fetched(Stored(outBuffer, outWrite, m), outRead, Wrap(Wrap(outWrite + Len(m)) - outRead))
          = Fetched(outBuffer, outRead, Wrap(outWrite - outRead)) \o m
    BY <1>1, <2>1, FetchedStored
  <2> QED
    BY <1>4, <2>2
<1>6. waiting \in Seq(Byte)
  BY <1>1, Waiting, FetchedType
<1>7. wire \o waiting = put
  BY DEF WrittenWhole
<1>8. wire \o (waiting \o m) = (wire \o waiting) \o m
  <2> HIDE DEF m, waiting
  <2> QED
    BY <1>1, <1>6, ConcatAssociative
<1>9. wire' \o Fetched(outBuffer', outRead', Wrap(outWrite' - outRead')) = put'
  <2> HIDE DEF m, waiting
  <2> QED
    BY <1>4, <1>5, <1>7, <1>8
<1> QED
  BY <1>9 DEF WrittenWhole, Fetched, Wrap

LEMMA WholeWrite ==
    ASSUME TypeInv, WrittenWhole, PumpWrite
    PROVE  WrittenWhole'
<1>1. CASE UNCHANGED <<wire, outRead>>
  <2>1. UNCHANGED <<outVars, outHist>>
    BY <1>1 DEF PumpWrite, outVars, outHist
  <2> QED
    BY <2>1, WholeKept
<1>2. CASE ToWrite > 0 /\ wire' = wire \o Fetched(outBuffer, outRead, ToWrite)
                       /\ outRead' = Wrap(outRead + ToWrite)
  <2> DEFINE n == ToWrite
  <2>1. /\ outBuffer \in [Index -> Byte] /\ outRead \in Index /\ outWrite \in Index
        /\ wire \in Seq(Byte) /\ ttyOut \in Int /\ TtyOut \in Int
    BY Constants DEF TypeInv, RingTypes, LineTypes
  <2>2. outRead \in Int /\ outWrite \in Int /\ BufLen \in Int
    BY <2>1, IndexIs, RingSize
  <2>3. n \in Nat /\ n <= IF outWrite < outRead THEN BufLen - outRead ELSE outWrite - outRead
    BY <1>2, <2>1, <2>2 DEF ToWrite, Least
  <2>4. outBuffer' = outBuffer /\ outWrite' = outWrite /\ put' = put
    BY DEF PumpWrite
  <2> HIDE DEF n
  <2>5. Fetched(outBuffer, outRead, Wrap(outWrite - outRead))
          = Fetched(outBuffer, outRead, n)
              \o Fetched(outBuffer, Wrap(outRead + n), Wrap(outWrite - Wrap(outRead + n)))
    BY <2>1, <2>3, FetchedSplit
  <2> DEFINE now == Fetched(outBuffer, outRead, n)
             rest == Fetched(outBuffer, Wrap(outRead + n), Wrap(outWrite - Wrap(outRead + n)))
  <2>6. now \in Seq(Byte) /\ rest \in Seq(Byte)
    <3>1. Wrap(outRead + n) \in Index
      BY <2>2, <2>3, WrapType
    <3> QED
      BY <2>1, <2>3, <3>1, Waiting, FetchedType
  <2>7. wire \o (now \o rest) = (wire \o now) \o rest
    <3> HIDE DEF now, rest
    <3> QED
      BY <2>1, <2>6, ConcatAssociative
  <2>8. wire \o (now \o rest) = put
    BY <2>5 DEF WrittenWhole
  <2>9. wire' = wire \o now /\ outRead' = Wrap(outRead + n)
    BY <1>2 DEF n
  <2>10. wire' \o rest = put'
    <3> HIDE DEF now, rest
    <3> QED
      BY <2>4, <2>7, <2>8, <2>9
  <2>11. wire' \o Fetched(outBuffer', outRead', Wrap(outWrite' - outRead')) = put'
    <3>1. rest = Fetched(outBuffer', outRead', Wrap(outWrite' - outRead'))
      BY <2>4, <2>9
    <3> HIDE DEF rest
    <3> QED
      BY <2>10, <3>1
  <2> QED
    BY <2>11 DEF WrittenWhole, Fetched, Wrap
<1> QED
  BY <1>1, <1>2 DEF PumpWrite

LEMMA WholeReset ==
    ASSUME InternalReset
    PROVE  WrittenWhole'
<1>1. outRead' = 0 /\ outWrite' = 0 /\ put' = <<>> /\ wire' = <<>>
  BY DEF InternalReset
<1>2. Wrap(0) = 0
  BY RingSize, WrapIs
<1>3. Wrap(outWrite' - outRead') = 0
  BY <1>1, <1>2
<1>4. Fetched(outBuffer', outRead', 0) = <<>>
  BY DEF Fetched
<1>5. wire' \o Fetched(outBuffer', outRead', Wrap(outWrite' - outRead')) = put'
  BY <1>1, <1>3, <1>4
<1> QED
  BY <1>5 DEF WrittenWhole, Fetched, Wrap

LEMMA WholeNext ==
    ASSUME TypeInv, WrittenWhole, [Next]_vars
    PROVE  WrittenWhole'
<1>1. ASSUME NEW t \in Callers, Call(t) PROVE WrittenWhole'
  BY <1>1, WholeKept DEF Call
<1>2. ASSUME NEW t \in Threads, Send(t) PROVE WrittenWhole'
  <2>1. CASE SendWait(t) \/ SendDrop(t)
    BY <2>1, WholeKept DEF SendWait, SendDrop
  <2>2. CASE SendPut(t)
    BY <2>2, WholePut
  <2> QED
    BY <1>2, <2>1, <2>2 DEF Send
<1>3. CASE PumpWatch \/ PumpCancelled \/ PumpSelect \/ PumpRead \/ PumpProcess \/ PumpDeliver
  <2>1. UNCHANGED <<outVars, outHist>>
    BY <1>3 DEF PumpWatch, PumpCancelled, PumpSelect, PumpRead, PumpProcess, PumpDeliver
  <2> QED
    BY <2>1, WholeKept
<1>4. CASE PumpWrite
  BY <1>4, WholeWrite
<1>5. CASE Reset \/ PumpRestart
  BY <1>5, WholeReset DEF Reset, PumpRestart
<1>6. CASE Cancel \/ Arrive \/ LineTakes
  BY <1>6, WholeKept DEF Cancel, Arrive, LineTakes
<1>7. CASE Parse
  <2>1. UNCHANGED parseFrame
    BY <1>7 DEF Parse, ParseStart, SyncEnd, SyncPart, NoSync, SyncSkip, SyncFound, BodyEnd,
                BodyByte, BodyLast
  <2> QED
    BY <2>1, WholeKept DEF parseFrame
<1>8. CASE UNCHANGED vars
  BY <1>8, WholeKept DEF vars
<1> QED
  BY <1>1, <1>2, <1>3, <1>4, <1>5, <1>6, <1>7, <1>8 DEF Next, Pump

(* What the pump has written and what waits in the ring are the messages, whole *)
(* and in the order in which send put them there, wherever the ring wraps.      *)
THEOREM WritesWhole ==
    ASSUME CrcType
    PROVE  Spec => []WrittenWhole
<1> DEFINE Inv == TypeInv /\ WrittenWhole
<1>1. Init => Inv
  <2>1. ASSUME Init PROVE WrittenWhole
    <3>1. outRead = 0 /\ outWrite = 0 /\ put = <<>> /\ wire = <<>>
      BY <2>1 DEF Init
    <3>2. Wrap(outWrite - outRead) = 0
      BY <3>1, RingSize, WrapIs
    <3>3. Fetched(outBuffer, outRead, 0) = <<>>
      BY DEF Fetched
    <3> QED
      BY <3>1, <3>2, <3>3 DEF WrittenWhole
  <2> QED
    BY <2>1, TypeInit
<1>2. Inv /\ [Next]_vars => Inv'
  BY TypeNext, WholeNext
<1>3. Inv => WrittenWhole
  OBVIOUS
<1> HIDE DEF Inv
<1> QED
  BY <1>1, <1>2, <1>3, PTL DEF Spec
=============================================================================
