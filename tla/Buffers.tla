------------------------------ MODULE Buffers ------------------------------
(***************************************************************************)
(* The containers all messages are made of: BufferStore                    *)
(* (lib/bufferstore.cc), bytes behind an offset in memory that grows by    *)
(* doubling and whose discarded and cleared bytes stay where they were,    *)
(* and BufferArray (lib/bufferarray.cc), a list of stores.                 *)
(***************************************************************************)
EXTENDS Integers, Sequences

CONSTANTS
    Strings,        \* what may be added at once
    MinLen,         \* MIN_LEN: 300
    AllocMin,       \* ALLOC_MIN: 5
    MaxLen          \* bound on the bytes ever in one store

VARIABLES
    kind,           \* "store" or "array"
    store,          \* mem (of lenAllocd bytes), start and len
    array,          \* items and room (lenAllocd)
    op              \* the last operation

bufferVars == <<kind, store, array, op>>

BuffersInit ==
    /\ kind \in {"store", "array"}
    /\ store = [mem |-> <<>>, start |-> 0, len |-> 0]
    /\ array = [items |-> <<>>, room |-> AllocMin]
    /\ op = <<"none">>

-----------------------------------------------------------------------------
(* BufferStore.                                                            *)

GetLen(b) == IF b.start > b.len THEN 0 ELSE b.len - b.start
GetString(b) == SubSeq(b.mem, b.start + 1, b.start + GetLen(b))

Doubled[n \in Nat] == IF n < MinLen THEN MinLen ELSE n * 2
CheckAllocd(b, n) ==            \* room for more than n bytes; new memory is 0
    LET grown[a \in Nat] == IF n < a THEN a ELSE grown[Doubled[a]]
        alloc == grown[Len(b.mem)]
    IN  [b EXCEPT !.mem = @ \o [i \in 1 .. alloc - Len(@) |-> 0]]

Put(b, at, s) ==                \* memcpy to offset at
    [b EXCEPT !.mem = [i \in DOMAIN @ |->
                          IF i \in at + 1 .. at + Len(s) THEN s[i - at] ELSE @[i]]]

AddBytes(b, s) ==
    [Put(CheckAllocd(b, b.len + Len(s)), b.len, s) EXCEPT !.len = b.len + Len(s)]

\* variant: the limit is taken for the length
AddBuffMax(b, s, n) == [Put(CheckAllocd(b, b.len + Len(s)), b.len, s) EXCEPT !.len = b.len + n]

AddBuff(b, s, maxLen) ==        \* maxLen -1: no limit
    LET n == IF maxLen >= 0 /\ maxLen < Len(s) THEN maxLen ELSE Len(s)
    IN  [Put(CheckAllocd(b, b.len + Len(s)), b.len, SubSeq(s, 1, n)) EXCEPT !.len = b.len + n]

Assign(b, s) == [Put(CheckAllocd(b, Len(s)), 0, s) EXCEPT !.len = Len(s), !.start = 0]

DiscardFirstBytes(b, n) == [b EXCEPT !.start = IF @ + n > b.len THEN b.len ELSE @ + n]

Truncate(b, n) == [b EXCEPT !.len = IF n < @ THEN n ELSE @]
Clear(b) == [b EXCEPT !.start = 0, !.len = 0]

Prepend(b, s) ==                \* before offset 0, not before start
    LET g == CheckAllocd(b, b.len + Len(s))
    IN  [Put(Put(g, Len(s), SubSeq(g.mem, 1, b.len)), 0, s) EXCEPT !.len = b.len + Len(s)]

StoreStep(o, b) == op' = o /\ store' = b /\ UNCHANGED <<kind, array>>

StoreNext ==
    /\ kind = "store"
    /\ \/ \E s \in Strings :
            /\ store.len + Len(s) <= MaxLen
            /\ \/ StoreStep(<<"append", s>>, AddBytes(store, s))
               \/ StoreStep(<<"append", s>>, AddBuff(store, s, -1))
               \/ \E n \in 0 .. Len(s) : StoreStep(<<"append", s, n>>, AddBuff(store, s, n))
               \/ /\ store.start = 0 /\ Len(s) \in 1 .. 2    \* a byte or a word
                  /\ StoreStep(<<"prepend", s>>, Prepend(store, s))
       \/ \E s \in Strings : StoreStep(<<"assign", s>>, Assign(store, s))
       \/ \E n \in 0 .. MaxLen + 1 : StoreStep(<<"discard", n>>, DiscardFirstBytes(store, n))
       \/ \E n \in 0 .. MaxLen : /\ store.start = 0
                                 /\ StoreStep(<<"truncate", n>>, Truncate(store, n))
       \/ StoreStep(<<"clear">>, Clear(store))

-----------------------------------------------------------------------------
(* BufferArray.                                                            *)

Enlarged(a) == IF Len(a.items) = a.room THEN a.room + AllocMin ELSE a.room

Pop(a) == [a EXCEPT !.items = IF @ = <<>> THEN @ ELSE Tail(@)]
AppendTo(a, x) == [items |-> Append(a.items, x), room |-> Enlarged(a)]
PushTo(a, x) == [items |-> <<x>> \o a.items, room |-> Enlarged(a)]
ClearArray == [items |-> <<>>, room |-> AllocMin]

ArrayStep(o, a) == op' = o /\ array' = a /\ UNCHANGED <<kind, store>>

ArrayNext ==
    /\ kind = "array"
    /\ \/ \E s \in Strings :
            /\ Len(s) = 1 /\ Len(array.items) < MaxLen
            /\ \/ ArrayStep(<<"append", s>>, AppendTo(array, s[1]))
               \/ ArrayStep(<<"prepend", s>>, PushTo(array, s[1]))
       \/ ArrayStep(<<"discard", 1>>, Pop(array))
       \/ ArrayStep(<<"clear">>, ClearArray)

BuffersNext == StoreNext \/ ArrayNext

-----------------------------------------------------------------------------
(* Both are the sequence Deque describes, whatever their memory holds from *)
(* earlier uses.  A store is only prepended to or cut while nothing is     *)
(* discarded from it: that is how Link uses it, and neither operation      *)
(* respects the offset.                                                    *)
Promise == INSTANCE Deque
             WITH MaxCut <- MaxLen + 1, content <- IF kind = "store" THEN GetString(store) ELSE array.items
KeepsPromise == Promise!DequeSpec
=============================================================================
