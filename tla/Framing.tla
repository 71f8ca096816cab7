------------------------------ MODULE Framing ------------------------------
(***************************************************************************)
(* Messages over a TCP connection (TCPSocket::sendBufferStore and          *)
(* getBufferStore, lib/tcpsocket.cc), between a client and ncpd: a length  *)
(* and as many bytes.  The system takes and returns any number of bytes at *)
(* a time; the sender gives up after MaxWrites writes, the receiver if it  *)
(* gets part of a length.                                                  *)
(*                                                                         *)
(* A byte is <<0, l>>, of the length of a message of l bytes, or <<n, i>>, *)
(* byte i of message n > 0 since the connection was made.                  *)
(***************************************************************************)
EXTENDS Integers, Sequences, SequencesExt

CONSTANTS
    Lengths,        \* of the messages that are sent
    HeaderLen,      \* bytes of the length: 4
    MaxFrame,       \* the longest message a receiver accepts: 16384
    MaxWrites,      \* writes for one message: 5
    Room,           \* what the system keeps for the receiver
    MaxMessages     \* bound: messages on one connection

VARIABLES
    wire,           \* bytes written and not read
    unsent,         \* what sendBufferStore has still to write
    writes,         \* its retries
    sent, received, \* the messages, each <<number, length>>
    body,           \* what getBufferStore has read of a body
    expected,       \* how much it wants, -1 before it knows
    peers           \* "up", or who has reported a failure and closed

framingVars == <<wire, unsent, writes, sent, received, body, expected, peers>>

FramingInit ==
    /\ wire = <<>> /\ unsent = <<>> /\ writes = 0
    /\ sent = <<>> /\ received = <<>>
    /\ body = <<>> /\ expected = -1
    /\ peers = "up"

Header(l) == [i \in 1 .. HeaderLen |-> <<0, l>>]
Body(n, l) == [i \in 1 .. l |-> <<n, i>>]

-----------------------------------------------------------------------------
(* sendBufferStore.                                                        *)

SendBufferStore(l) ==
    /\ peers = "up" /\ unsent = <<>> /\ Len(sent) < MaxMessages
    /\ unsent' = Header(l) \o Body(Len(sent) + 1, l)
    /\ sent' = Append(sent, <<Len(sent) + 1, l>>)
    /\ writes' = 0
    /\ UNCHANGED <<wire, received, body, expected, peers>>

\* variant: what the system did not take at once is not written
WriteOnce(n) ==
    /\ peers = "up" /\ n <= Len(unsent) /\ Len(wire) + n <= Room
    /\ wire' = wire \o SubSeq(unsent, 1, n) /\ unsent' = <<>> /\ writes' = writes + 1
    /\ UNCHANGED <<sent, received, body, expected, peers>>

Write(n) ==         \* a failure is reported even if this was the last write needed
    /\ peers = "up" /\ n <= Len(unsent) /\ Len(wire) + n <= Room
    /\ wire' = wire \o SubSeq(unsent, 1, n)
    /\ writes' = writes + 1
    /\ IF writes + 1 > MaxWrites
       THEN peers' = "sender" /\ unsent' = <<>>
       ELSE unsent' = SubSeq(unsent, n + 1, Len(unsent)) /\ UNCHANGED peers
    /\ UNCHANGED <<sent, received, body, expected>>

WriteFails ==       \* the other side has closed
    /\ peers = "receiver" /\ unsent # <<>>
    /\ unsent' = <<>>
    /\ UNCHANGED <<wire, writes, sent, received, body, expected, peers>>

-----------------------------------------------------------------------------
(* getBufferStore.                                                         *)

Take(n) == wire' = SubSeq(wire, n + 1, Len(wire))
GiveUp == peers' = "receiver" /\ body' = <<>> /\ expected' = -1 /\ UNCHANGED received

Accepted(bytes) ==  \* 1 with a message, 0 without one if it is empty
    /\ body' = <<>> /\ expected' = -1
    /\ received' = IF bytes = <<>> THEN received
                   ELSE Append(received, <<bytes[1][1], Len(bytes)>>)
    /\ UNCHANGED peers

ReadLength(n) ==
    /\ peers # "receiver" /\ expected = -1 /\ n <= Len(wire)
    /\ Take(n)
    /\ IF n < HeaderLen \/ wire[1][2] > MaxFrame THEN GiveUp
       ELSE IF wire[1][2] = 0 THEN Accepted(<<>>)
       ELSE expected' = wire[1][2] /\ UNCHANGED <<body, received, peers>>
    /\ UNCHANGED <<unsent, writes, sent>>

\* variant: whatever one read returns is the message
ReadBodyOnce(n) ==
    /\ peers # "receiver" /\ expected # -1 /\ n <= Len(wire) /\ n <= expected
    /\ Take(n) /\ Accepted(SubSeq(wire, 1, n))
    /\ UNCHANGED <<unsent, writes, sent>>

ReadBody(n) ==
    /\ peers # "receiver" /\ expected # -1 /\ n <= Len(wire) /\ n <= expected - Len(body)
    /\ Take(n)
    /\ LET bytes == body \o SubSeq(wire, 1, n)
       IN  IF Len(bytes) = expected THEN Accepted(bytes)
           ELSE body' = bytes /\ UNCHANGED <<expected, received, peers>>
    /\ UNCHANGED <<unsent, writes, sent>>

ReadEnds ==         \* 0 or an error from recv
    /\ peers = "sender" /\ wire = <<>> /\ GiveUp
    /\ UNCHANGED <<wire, unsent, writes, sent>>

Reopen ==           \* the sender reconnects, after a failure
    /\ peers = "receiver" /\ unsent = <<>>
    /\ wire' = <<>> /\ writes' = 0 /\ sent' = <<>> /\ received' = <<>>
    /\ peers' = "up"
    /\ UNCHANGED <<unsent, body, expected>>

FramingStep == \E n \in 1 .. Room : Write(n)
GetBufferStore == ReadEnds \/ (\E n \in 1 .. HeaderLen : ReadLength(n)) \/ (\E n \in 1 .. MaxFrame : ReadBody(n))
FramingNext ==
    \/ \E l \in Lengths : SendBufferStore(l)
    \/ FramingStep \/ WriteFails \/ GetBufferStore \/ Reopen

-----------------------------------------------------------------------------
(* However the bytes are cut up, what is received on a connection is what  *)
(* was sent on it, in order and whole, without gaps but for the empty      *)
(* messages: also while and after one side gives up.                       *)
NotEmpty(m) == m[2] > 0
ReceivedAsSent ==
    /\ \A i \in DOMAIN received : \E n \in DOMAIN sent : received[i] = sent[n]
    /\ \A i, j \in DOMAIN received : i < j => received[i][1] < received[j][1]
    /\ \A i \in DOMAIN received : \A n \in 1 .. received[i][1] :
          NotEmpty(sent[n]) => sent[n] \in Range(received)

(* A message is not left half written: a connection on which nobody has    *)
(* reported a failure always gets to where all that was sent is received.  *)
SettledOrReported == []<>(peers # "up" \/ (unsent = <<>> /\ received = SelectSeq(sent, NotEmpty)))
=============================================================================
