---------------------------- MODULE DataLinkMC ----------------------------
(* Instances of DataLink for TLC. *)
EXTENDS DataLink, Bitwise, TLC

(* crc_table, as the constructor fills it, and addToCrc.  Extending the table by *)
(* its own first entry makes TLC tabulate it once.                               *)
Entry[a \in Byte] ==
    IF a = 0 THEN 0
    ELSE LET half == Entry[a \div 2]
             doubled == (half * 2) % 65536
         IN  IF (a % 2 = 0) = (half >= 32768) THEN doubled ^^ 4129 ELSE doubled

CrcTable == Entry @@ (0 :> 0)

Crc16(c, crc) == ((crc * 256) % 65536) ^^ CrcTable[(crc \div 256) ^^ c]

A == <<65>>
E == <<ETX>>
D == <<DLE>>
Noise(n) == [i \in 1 .. n |-> 7]

NoReplies == <<>>
OneMessage == <<A>>
Messages == <<A, E, A>>
TwoMessages == <<A, A>>
AcknowledgeA == [f \in {A} |-> A]
AcknowledgeE == [f \in {E} |-> A]

(* Frames after each other, the last with an escape at the end of a ring of 32 *)
(* bytes; a damaged frame and noise before two good ones; noise enough to make  *)
(* the link restart.                                                            *)
UsualStreams ==
    {[bytes |-> Encode(A) \o Encode(E) \o Encode(E) \o Encode(D),
      frames |-> <<A, E, E, D>>],
     [bytes |-> Noise(1) \o [Encode(E) EXCEPT ![9] = 0] \o Noise(2) \o Encode(A) \o Encode(D),
      frames |-> <<A, D>>],
     [bytes |-> Noise(5) \o Encode(A), frames |-> <<A>>]}

(* A frame that wraps round a ring of 16 bytes, and noise up to its end. *)
NoiseToTheEnd == {[bytes |-> Noise(12) \o Encode(A) \o Noise(12), frames |-> <<A>>]}
Silence == {[bytes |-> <<>>, frames |-> <<>>]}
OneFrame == {[bytes |-> Encode(A), frames |-> <<A>>]}
=============================================================================
