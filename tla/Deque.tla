------------------------------- MODULE Deque -------------------------------
(***************************************************************************)
(* What BufferStore promises of its bytes and BufferArray of its elements: *)
(* a sequence that grows at both ends, is shortened from either, and is    *)
(* replaced.  op is the last operation, so that an implementation cannot   *)
(* do one thing when another was asked for.                                *)
(***************************************************************************)
EXTENDS Integers, Sequences

CONSTANTS Strings,  \* what may be added at once
          MaxCut    \* bound on what is taken away at once

VARIABLES content, op

Upper(a, b) == IF a < b THEN a ELSE b

DequeInit == content = <<>> /\ op = <<"none">>

DequeNext ==
    \/ \E s \in Strings :
         \/ op' = <<"append", s>> /\ content' = content \o s
         \/ op' = <<"prepend", s>> /\ content' = s \o content
         \/ op' = <<"assign", s>> /\ content' = s
         \/ \E n \in 0 .. Len(s) : op' = <<"append", s, n>> /\ content' = content \o SubSeq(s, 1, n)
    \/ \E n \in 0 .. MaxCut :
         \/ op' = <<"discard", n>> /\ content' = SubSeq(content, n + 1, Len(content))
         \/ op' = <<"truncate", n>> /\ content' = SubSeq(content, 1, Upper(n, Len(content)))
    \/ op' = <<"clear">> /\ content' = <<>>

DequeSpec == DequeInit /\ [][DequeNext]_<<content, op>>
=============================================================================
