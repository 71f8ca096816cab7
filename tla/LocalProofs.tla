----------------------------- MODULE LocalProofs -----------------------------
(***************************************************************************)
(* What the client side keeps to itself.  The containers of                *)
(* lib/bufferstore.cc and lib/bufferarray.cc implement Deque: the lemmas   *)
(* say what each operation does to the bytes between start and len, and    *)
(* the theorem that this is what Deque promises.  plpftp's shell: the      *)
(* invariant says what a command still has to do, and the theorem that     *)
(* one which reports no error has done it.                                 *)
(* plpfuse: the invariant says that a change of attributes starts from     *)
(* what the file has, and the theorem that it ends in what was asked.      *)
(***************************************************************************)
EXTENDS ClientProofs, FiniteSetTheorems

-----------------------------------------------------------------------------
(* The memory of a BufferStore.                                            *)

LEMMA DoubledIs ==
    ASSUME NEW a \in Nat
    PROVE  Buffers!Doubled[a] \in Nat /\ Buffers!Doubled[a] > a
<1>1. MinLen \in Nat /\ MinLen # 0
  BY BuffersAssumption
<1>2. Buffers!Doubled[a] = IF a < MinLen THEN MinLen ELSE a * 2
  BY DEF Buffers!Doubled
<1>3. CASE a < MinLen
  BY <1>1, <1>2, <1>3
<1>4. CASE ~ (a < MinLen)
  <2>1. a > 0
    BY <1>1, <1>4
  <2>2. a * 2 \in Nat /\ a * 2 > a
    BY <2>1
  <2> QED
    BY <1>2, <1>4, <2>2
<1> QED
  BY <1>3, <1>4

(* Doubling ends: from n downwards, the size that is reached from each.    *)
LEMMA GrownExists ==
    ASSUME NEW n \in Nat
    PROVE  \E g : g = [a \in Nat |-> IF n < a THEN a ELSE g[Buffers!Doubled[a]]]
<1> DEFINE D == [a \in Nat |-> Buffers!Doubled[a]]
           Value(h, a) == IF n < D[a] THEN D[a] ELSE h[D[a]]
           S == [0 .. n -> Nat]
           step == [i \in 1 .. n + 1 |-> [h \in S |-> [h EXCEPT ![n + 1 - i] = Value(h, n + 1 - i)]]]
           first == [a \in 0 .. n |-> 0]
<1>1. \A a \in Nat : D[a] = Buffers!Doubled[a] /\ D[a] \in Nat /\ D[a] > a
  BY DoubledIs
<1> HIDE DEF D
<1>2. \A i \in 1 .. n + 1 : n + 1 - i \in 0 .. n
  OBVIOUS
<1>3. \A h \in S : \A a \in 0 .. n : Value(h, a) \in Nat
  <2> SUFFICES ASSUME NEW h \in S, NEW a \in 0 .. n, ~ (n < D[a]) PROVE h[D[a]] \in Nat
    BY <1>1
  <2>1. D[a] \in 0 .. n
    BY <1>1
  <2> QED
    BY <2>1
<1>4. step \in [1 .. n + 1 -> [S -> S]]
  <2> SUFFICES ASSUME NEW i \in 1 .. n + 1, NEW h \in S
               PROVE  [h EXCEPT ![n + 1 - i] = Value(h, n + 1 - i)] \in S
    OBVIOUS
  <2>1. Value(h, n + 1 - i) \in Nat
    BY <1>2, <1>3
  <2> HIDE DEF Value
  <2> QED
    BY <1>2, <2>1
<1>5. \A i \in 1 .. n + 1 : \A h \in S :
        step[i][h] = [h EXCEPT ![n + 1 - i] = Value(h, n + 1 - i)]
  <2> HIDE DEF Value, S
  <2> QED
    OBVIOUS
<1>6. first \in S
  OBVIOUS
<1>7. n + 1 \in Nat
  OBVIOUS
<1> HIDE DEF step, first
<1>8. \E f \in [0 .. n + 1 -> S] : Follows(f, first, step, n + 1)
  <2> HIDE DEF S
  <2> QED
    BY <1>4, <1>6, <1>7, Recursion
<1>9. PICK f \in [0 .. n + 1 -> S] : Follows(f, first, step, n + 1)
  BY <1>8
(* After i steps the last i values are final.                              *)
<1> DEFINE T == {i \in Nat : i <= n + 1 =>
                    \A a \in 0 .. n : a >= n + 1 - i => f[i][a] = Value(f[i], a)}
<1>10. 0 \in T
  OBVIOUS
<1>11. ASSUME NEW i \in T PROVE i + 1 \in T
  <2> SUFFICES ASSUME i + 1 <= n + 1, NEW a \in 0 .. n, a >= n + 1 - (i + 1)
               PROVE  f[i + 1][a] = Value(f[i + 1], a)
    OBVIOUS
  <2> DEFINE h == f[i]
             k == n + 1 - (i + 1)
  <2>1. i \in Nat /\ i + 1 \in 1 .. n + 1 /\ (i + 1) - 1 = i /\ i \in 0 .. n + 1 /\ k \in 0 .. n
    OBVIOUS
  <2>2. h \in S
    BY <2>1
  <2>3. f[i + 1] = step[i + 1][h]
    BY <1>9, <2>1 DEF Follows
  <2>4. f[i + 1] = [h EXCEPT ![k] = Value(h, k)]
    BY <1>5, <2>1, <2>2, <2>3
  <2>5. \A b \in 0 .. n : b # k => f[i + 1][b] = h[b]
    BY <2>2, <2>4
  <2>6. f[i + 1][k] = Value(h, k)
    <3> HIDE DEF Value
    <3> QED
      BY <2>1, <2>2, <2>4
  <2>7. \A b \in 0 .. n : b >= k => Value(f[i + 1], b) = Value(h, b)
    <3> SUFFICES ASSUME NEW b \in 0 .. n, b >= k, ~ (n < D[b]) PROVE f[i + 1][D[b]] = h[D[b]]
      OBVIOUS
    <3>1. D[b] \in Nat /\ D[b] > b
      BY <1>1
    <3>2. D[b] \in 0 .. n /\ D[b] # k
      <4> HIDE DEF T, h, k, S
      <4>1. PICK d \in Nat : d = D[b]
        BY <3>1
      <4> QED
        BY <2>1, <3>1, <4>1
    <3> QED
      BY <2>5, <3>2
  <2>8. CASE a = k
    BY <2>6, <2>7, <2>8
  <2>9. CASE a # k
    <3>1. a >= n + 1 - i
      BY <2>1, <2>9
    <3>2. h[a] = Value(h, a)
      BY <2>1, <3>1
    <3>3. a >= k
      BY <2>1, <3>1
    <3> HIDE DEF h, k, Value
    <3> QED
      BY <2>5, <2>7, <2>9, <3>2, <3>3
  <2> QED
    BY <2>8, <2>9
<1>12. n + 1 \in T
  <2> HIDE DEF T
  <2> QED
    BY <1>10, <1>11, Induction DEF T
<1> DEFINE h == f[n + 1]
           g == [a \in Nat |-> IF n < a THEN a ELSE h[a]]
<1>13. \A a \in 0 .. n : h[a] = Value(h, a)
  BY <1>12
<1>14. \A a \in Nat : g[a] = IF n < a THEN a ELSE g[D[a]]
  <2> SUFFICES ASSUME NEW a \in Nat, ~ (n < a) PROVE h[a] = g[D[a]]
    OBVIOUS
  <2>1. a \in 0 .. n /\ D[a] \in Nat
    <3> HIDE DEF h, T, S
    <3> QED
      BY <1>1
  <2>2. g[D[a]] = IF n < D[a] THEN D[a] ELSE h[D[a]]
    <3> HIDE DEF h
    <3> QED
      BY <2>1
  <2> QED
    BY <1>13, <2>1, <2>2
<1>15. g = [a \in Nat |-> IF n < a THEN a ELSE g[Buffers!Doubled[a]]]
  <2>1. g = [a \in Nat |-> g[a]]
    OBVIOUS
  <2> HIDE DEF g
  <2>2. \A a \in Nat : g[a] = IF n < a THEN a ELSE g[Buffers!Doubled[a]]
    BY <1>1, <1>14
  <2> QED
    BY <2>1, <2>2, Zenon
<1> QED
  BY <1>15

(* It is more than what is asked for and never less than what there was.   *)
LEMMA GrownIsLarge ==
    ASSUME NEW n \in Nat, NEW g, g = [a \in Nat |-> IF n < a THEN a ELSE g[Buffers!Doubled[a]]],
           NEW a \in Nat
    PROVE  g[a] \in Nat /\ g[a] > n /\ g[a] >= a
<1> DEFINE Large(x) == g[x] \in Nat /\ g[x] > n /\ g[x] >= x
           T == {i \in Nat : \A x \in Nat : x + i > n => Large(x)}
<1>1. \A x \in Nat : g[x] = IF n < x THEN x ELSE g[Buffers!Doubled[x]]
  OBVIOUS
<1>2. \A x \in Nat : n < x => Large(x)
  BY <1>1
<1>3. 0 \in T
  BY <1>2
<1>4. ASSUME NEW i \in T PROVE i + 1 \in T
  <2> SUFFICES ASSUME NEW x \in Nat, x + (i + 1) > n, ~ (n < x) PROVE Large(x)
    BY <1>2
  <2>1. PICK y \in Nat : y = Buffers!Doubled[x] /\ y > x
    BY DoubledIs
  <2>2. y + i > n
    BY <2>1
  <2>3. Large(y) /\ g[x] = g[y]
    BY <1>1, <2>1, <2>2
  <2> QED
    BY <2>1, <2>3
<1>5. n + 1 \in T
  <2>1. T \in SUBSET Nat
    OBVIOUS
  <2> HIDE DEF T
  <2>2. T = Nat
    BY <1>3, <1>4, <2>1, Induction
  <2> QED
    BY <2>2
<1>6. a + (n + 1) > n
  OBVIOUS
<1> QED
  BY <1>5, <1>6

(* Every store the program can hold: bytes between start and len.          *)
Store(b) ==
    /\ b = [mem |-> b.mem, start |-> b.start, len |-> b.len]
    /\ b.mem \in Seq(Nat) /\ b.start \in Nat /\ b.len \in Nat
    /\ b.start <= b.len /\ b.len <= Len(b.mem)

(* What checkAllocd makes of b: the same with room for more than n.        *)
Enlarges(g, b, n) ==
    /\ Store(g) /\ g.start = b.start /\ g.len = b.len
    /\ Len(g.mem) > n /\ Len(g.mem) >= Len(b.mem)
    /\ \A i \in 1 .. Len(b.mem) : g.mem[i] = b.mem[i]

LEMMA CheckAllocdEnlarges ==
    ASSUME NEW b, Store(b), NEW n \in Nat
    PROVE  Enlarges(Buffers!CheckAllocd(b, n), b, n)
<1> DEFINE grown == CHOOSE g : g = [a \in Nat |-> IF n < a THEN a ELSE g[Buffers!Doubled[a]]]
           more == grown[Len(b.mem)]
           zeros == [i \in 1 .. more - Len(b.mem) |-> 0]
           g == Buffers!CheckAllocd(b, n)
<1>1. grown = [a \in Nat |-> IF n < a THEN a ELSE grown[Buffers!Doubled[a]]]
  BY GrownExists, Zenon
<1>2. g = [b EXCEPT !.mem = b.mem \o zeros]
  BY Zenon DEF Buffers!CheckAllocd
<1> HIDE DEF grown
<1>3. b.mem \in Seq(Nat) /\ Len(b.mem) \in Nat
  BY DEF Store
<1>4. more \in Nat /\ more > n /\ more >= Len(b.mem)
  BY <1>1, <1>3, GrownIsLarge
<1> HIDE DEF more
<1>5. PICK k \in Nat : k = more - Len(b.mem)
  <2>1. PICK l \in Nat : l = Len(b.mem)
    BY <1>3
  <2>2. more - l \in Nat
    BY <1>4, <2>1
  <2> QED
    BY <2>1, <2>2
<1>6. zeros \in Seq(Nat) /\ Len(zeros) = k
  <2>1. zeros = [i \in 1 .. k |-> 0]
    BY <1>5
  <2> HIDE DEF zeros
  <2> QED
    BY <2>1
<1> HIDE DEF zeros, g
<1>7. /\ b.mem \o zeros \in Seq(Nat) /\ Len(b.mem \o zeros) = more
      /\ \A i \in 1 .. Len(b.mem) : (b.mem \o zeros)[i] = b.mem[i]
  <2>1. /\ b.mem \o zeros \in Seq(Nat) /\ Len(b.mem \o zeros) = Len(b.mem) + Len(zeros)
        /\ \A i \in 1 .. Len(b.mem) + Len(zeros) :
              (b.mem \o zeros)[i] = IF i <= Len(b.mem) THEN b.mem[i] ELSE zeros[i - Len(b.mem)]
    BY <1>3, <1>6, ConcatProperties
  <2> QED
    BY <1>3, <1>4, <1>5, <1>6, <2>1
<1>8. /\ g = [mem |-> g.mem, start |-> g.start, len |-> g.len]
      /\ g.mem = b.mem \o zeros /\ g.start = b.start /\ g.len = b.len
  BY <1>2 DEF Store
<1>9. Store(g)
  BY <1>3, <1>4, <1>7, <1>8 DEF Store
<1> QED
  BY <1>3, <1>4, <1>7, <1>8, <1>9 DEF Enlarges, g

(* p is b with s copied to at, within the memory.                          *)
IsPut(p, b, at, s) ==
    /\ Store(p) /\ p.start = b.start /\ p.len = b.len /\ Len(p.mem) = Len(b.mem)
    /\ \A i \in 1 .. Len(s) : p.mem[at + i] = s[i]
    /\ \A i \in 1 .. Len(b.mem) : i <= at \/ i > at + Len(s) => p.mem[i] = b.mem[i]

LEMMA PutIs ==
    ASSUME NEW b, Store(b), NEW at \in Nat, NEW s \in Seq(Nat), at + Len(s) <= Len(b.mem)
    PROVE  IsPut(Buffers!Put(b, at, s), b, at, s)
<1> DEFINE m == [i \in DOMAIN b.mem |-> IF i \in at + 1 .. at + Len(s) THEN s[i - at] ELSE b.mem[i]]
           p == Buffers!Put(b, at, s)
<1>1. p = [b EXCEPT !.mem = m]
  BY DEF Buffers!Put
<1>2. PICK n \in Nat : n = Len(b.mem) /\ DOMAIN b.mem = 1 .. n
  BY DEF Store
<1>3. \A i \in 1 .. n : b.mem[i] \in Nat
  BY <1>2 DEF Store
<1>4. \A i \in 1 .. n : i \in at + 1 .. at + Len(s) => i - at \in 1 .. Len(s)
  OBVIOUS
<1>5. \A i \in 1 .. Len(s) : s[i] \in Nat
  OBVIOUS
<1>6. \A i \in 1 .. n : m[i] \in Nat
  BY <1>2, <1>3, <1>4, <1>5
<1>7. m = [i \in 1 .. n |-> m[i]]
  BY <1>2
<1>8. m \in Seq(Nat) /\ Len(m) = n
  <2> HIDE DEF m
  <2> QED
    BY <1>6, <1>7
<1>9. \A i \in 1 .. n : m[i] = IF i \in at + 1 .. at + Len(s) THEN s[i - at] ELSE b.mem[i]
  BY <1>2
<1> HIDE DEF m, p
<1>12. \A i \in 1 .. Len(s) : m[at + i] = s[i]
  <2> SUFFICES ASSUME NEW i \in 1 .. Len(s) PROVE m[at + i] = s[i]
    OBVIOUS
  <2>1. at + i \in 1 .. n /\ at + i \in at + 1 .. at + Len(s) /\ (at + i) - at = i
    BY <1>2
  <2> QED
    BY <1>9, <2>1
<1>13. \A i \in 1 .. n : i <= at \/ i > at + Len(s) => m[i] = b.mem[i]
  BY <1>9
<1>10. /\ p = [mem |-> p.mem, start |-> p.start, len |-> p.len]
       /\ p.mem = m /\ p.start = b.start /\ p.len = b.len
  BY <1>1 DEF Store
<1>11. Store(p)
  BY <1>2, <1>8, <1>10 DEF Store
<1> QED
  BY <1>2, <1>8, <1>10, <1>11, <1>12, <1>13 DEF p, IsPut

LEMMA StoreTypes ==
    ASSUME NEW b, Store(b)
    PROVE  /\ b.mem \in Seq(Nat) /\ Len(b.mem) \in Nat /\ b.start \in Nat /\ b.len \in Nat
           /\ b.start <= b.len /\ b.len <= Len(b.mem)
BY DEF Store

(* What x, the string of b, is made of.                                    *)
HasContent(b, x) ==
    /\ x \in Seq(Nat) /\ Len(x) = b.len - b.start
    /\ \A i \in 1 .. b.len - b.start : x[i] = b.mem[b.start + i]

LEMMA ContentIs ==
    ASSUME NEW b, Store(b)
    PROVE  HasContent(b, Buffers!GetString(b))
<1>1. /\ b.mem \in Seq(Nat) /\ Len(b.mem) \in Nat /\ b.start \in Nat /\ b.len \in Nat
      /\ b.start <= b.len /\ b.len <= Len(b.mem)
  BY DEF Store
<1>2. PICK m \in Nat : m = b.start + 1
  BY <1>1
<1>3. PICK n \in Nat : n = b.len /\ n >= m - 1 /\ n - m + 1 = b.len - b.start
  <2>1. PICK st \in Nat, l \in Nat : st = b.start /\ l = b.len /\ st <= l /\ m = st + 1
    BY <1>1, <1>2
  <2>2. l >= m - 1 /\ l - m + 1 = l - st
    BY <2>1
  <2> QED
    BY <2>1, <2>2
<1>4. Buffers!GetLen(b) = b.len - b.start
  BY <1>1 DEF Buffers!GetLen
<1>5. Buffers!GetString(b) = SubSeq(b.mem, m, n)
  <2>1. b.start + Buffers!GetLen(b) = n
    BY <1>1, <1>3, <1>4
  <2> QED
    BY <1>2, <2>1 DEF Buffers!GetString
<1>6. \A i \in m .. n : b.mem[i] \in Nat
  <2>1. \A i \in m .. n : i \in 1 .. Len(b.mem)
    BY <1>1, <1>2, <1>3
  <2> QED
    BY <1>1, <2>1
<1>7. /\ SubSeq(b.mem, m, n) \in Seq(Nat)
      /\ Len(SubSeq(b.mem, m, n)) = IF m <= n THEN n - m + 1 ELSE 0
      /\ \A i \in 1 .. n - m + 1 : SubSeq(b.mem, m, n)[i] = b.mem[m + i - 1]
  BY <1>6, SubSeqProperties
<1>8. Len(SubSeq(b.mem, m, n)) = n - m + 1
  BY <1>3, <1>7
<1>9. \A i \in 1 .. n - m + 1 : m + i - 1 = b.start + i
  BY <1>1, <1>2
<1> QED
  BY <1>3, <1>5, <1>7, <1>8, <1>9 DEF HasContent

SetLen(p, n) == [p EXCEPT !.len = n]

LEMMA SetLenIs ==
    ASSUME NEW p, Store(p), NEW n \in Nat, p.start <= n, n <= Len(p.mem)
    PROVE  /\ Store(SetLen(p, n)) /\ SetLen(p, n).mem = p.mem
           /\ SetLen(p, n).start = p.start /\ SetLen(p, n).len = n
<1> DEFINE r == SetLen(p, n)
<1>1. /\ r = [mem |-> r.mem, start |-> r.start, len |-> r.len]
      /\ r.mem = p.mem /\ r.start = p.start /\ r.len = n
  BY DEF Store, SetLen
<1> HIDE DEF r
<1>2. Store(r)
  BY <1>1 DEF Store
<1> QED
  BY <1>1, <1>2 DEF r

(* p is b with u behind its end, its length not yet told.                  *)
Copied(p, b, u) ==
    /\ Store(p) /\ p.start = b.start /\ b.len + Len(u) <= Len(p.mem)
    /\ \A i \in 1 .. b.len : p.mem[i] = b.mem[i]
    /\ \A i \in 1 .. Len(u) : p.mem[b.len + i] = u[i]

(* x and y are behind st in the memories m and mb, and u is behind y in m. *)
AreBehind(x, y, u, m, mb, st, n) ==
    /\ x \in Seq(Nat) /\ Len(x) = n + Len(u) /\ \A i \in 1 .. n + Len(u) : x[i] = m[st + i]
    /\ y \in Seq(Nat) /\ Len(y) = n /\ \A i \in 1 .. n : y[i] = mb[st + i]
    /\ \A i \in 1 .. st + n : m[i] = mb[i]
    /\ \A i \in 1 .. Len(u) : m[(st + n) + i] = u[i]

LEMMA Joined ==
    ASSUME NEW x, NEW y, NEW u \in Seq(Nat), NEW m, NEW mb, NEW st \in Nat, NEW n \in Nat,
           AreBehind(x, y, u, m, mb, st, n)
    PROVE  x = y \o u
<1>1. PICK k \in Nat : k = Len(u)
  OBVIOUS
<1>0. /\ x \in Seq(Nat) /\ Len(x) = n + k /\ \A i \in 1 .. n + k : x[i] = m[st + i]
      /\ y \in Seq(Nat) /\ Len(y) = n /\ \A i \in 1 .. n : y[i] = mb[st + i]
      /\ \A i \in 1 .. st + n : m[i] = mb[i]
      /\ \A i \in 1 .. k : m[(st + n) + i] = u[i]
  BY <1>1 DEF AreBehind
<1>2. /\ y \o u \in Seq(Nat) /\ Len(y \o u) = n + k
      /\ \A i \in 1 .. n + k : (y \o u)[i] = IF i <= n THEN y[i] ELSE u[i - n]
  BY <1>0, <1>1, ConcatProperties
<1>3. ASSUME NEW i \in 1 .. n + k PROVE x[i] = (y \o u)[i]
  <2>1. CASE i <= n
    <3>1. i \in 1 .. n /\ st + i \in 1 .. st + n
      BY <2>1
    <3> QED
      BY <1>0, <1>2, <2>1, <3>1
  <2>2. CASE ~ (i <= n)
    <3>1. PICK j \in 1 .. k : j = i - n /\ (st + n) + j = st + i
      BY <2>2
    <3>2. m[(st + n) + j] = u[j]
      BY <1>0
    <3> QED
      BY <1>0, <1>2, <2>2, <3>1, <3>2
  <2> QED
    BY <2>1, <2>2
<1> QED
  BY <1>0, <1>2, <1>3, SeqEqual

LEMMA Extended ==
    ASSUME NEW b, Store(b), NEW p, NEW u \in Seq(Nat), Copied(p, b, u)
    PROVE  /\ Store(SetLen(p, b.len + Len(u)))
           /\ Buffers!GetString(SetLen(p, b.len + Len(u))) = Buffers!GetString(b) \o u
<1> DEFINE r == SetLen(p, b.len + Len(u))
           x == Buffers!GetString(r)
           y == Buffers!GetString(b)
<1>1. PICK l \in Nat, st \in Nat, k \in Nat : l = b.len /\ st = b.start /\ k = Len(u) /\ st <= l
  BY StoreTypes
<1>2. PICK n \in Nat : n = l - st /\ l = st + n
  BY <1>1
<1>3. Store(p) /\ p.start = st /\ l + k <= Len(p.mem) /\ l + k \in Nat /\ st <= l + k
  BY <1>1 DEF Copied
<1>4. Store(r) /\ r.mem = p.mem /\ r.start = st /\ r.len = l + k
  BY <1>1, <1>3, SetLenIs
<1>5. HasContent(r, x) /\ HasContent(b, y)
  BY <1>4, ContentIs, Zenon
<1> HIDE DEF x, y, r
<1>6. (l + k) - st = n + k /\ l - st = n
  BY <1>2
<1>7. /\ x \in Seq(Nat) /\ Len(x) = n + Len(u)
      /\ \A i \in 1 .. n + Len(u) : x[i] = p.mem[st + i]
  BY <1>1, <1>4, <1>5, <1>6 DEF HasContent
<1>8. /\ y \in Seq(Nat) /\ Len(y) = n
      /\ \A i \in 1 .. n : y[i] = b.mem[st + i]
  BY <1>1, <1>5, <1>6 DEF HasContent
<1>9. /\ \A i \in 1 .. st + n : p.mem[i] = b.mem[i]
      /\ \A i \in 1 .. Len(u) : p.mem[(st + n) + i] = u[i]
  BY <1>1, <1>2 DEF Copied
<1>10. x = y \o u
  <2>1. AreBehind(x, y, u, p.mem, b.mem, st, n)
    BY <1>7, <1>8, <1>9 DEF AreBehind
  <2> QED
    BY <2>1, Joined
<1> QED
  BY <1>4, <1>10 DEF x, y, r

(* Adding u behind the end, with room made for s.                          *)
Adding(b, s, u) == Buffers!Put(Buffers!CheckAllocd(b, b.len + Len(s)), b.len, u)

LEMMA Adds ==
    ASSUME NEW b, Store(b), NEW s \in Seq(Nat), NEW u \in Seq(Nat), Len(u) <= Len(s)
    PROVE  Copied(Adding(b, s, u), b, u)
<1> DEFINE g == Buffers!CheckAllocd(b, b.len + Len(s))
           p == Buffers!Put(g, b.len, u)
<1>1. PICK l \in Nat, room \in Nat, k \in Nat, ks \in Nat :
        l = b.len /\ room = Len(b.mem) /\ k = Len(u) /\ ks = Len(s) /\ l <= room /\ k <= ks
  BY StoreTypes
<1>2. b.len + Len(s) \in Nat
  BY <1>1
<1>3. Enlarges(g, b, b.len + Len(s))
  BY <1>2, CheckAllocdEnlarges
<1> HIDE DEF g
<1>4. Store(g) /\ g.start = b.start /\ \A i \in 1 .. room : g.mem[i] = b.mem[i]
  BY <1>1, <1>3 DEF Enlarges
<1>5. PICK more \in Nat : more = Len(g.mem) /\ more > l + ks /\ more >= room
  <2>1. Len(g.mem) \in Nat
    BY <1>4, StoreTypes
  <2> QED
    BY <1>1, <1>3, <2>1 DEF Enlarges
<1>6. l + k <= more /\ l <= more
  BY <1>1, <1>5
<1>7. IsPut(p, g, b.len, u)
  <2>1. b.len \in Nat /\ b.len + Len(u) <= Len(g.mem)
    BY <1>1, <1>5, <1>6
  <2> QED
    BY <1>4, <2>1, PutIs
<1> HIDE DEF p
<1>8. \A i \in 1 .. l : p.mem[i] = b.mem[i]
  <2> SUFFICES ASSUME NEW i \in 1 .. l PROVE p.mem[i] = b.mem[i]
    OBVIOUS
  <2>1. i \in 1 .. room /\ i \in 1 .. more /\ i <= l
    BY <1>1, <1>5
  <2> QED
    BY <1>1, <1>4, <1>5, <1>7, <2>1 DEF IsPut
<1>9. Copied(p, b, u)
  BY <1>1, <1>4, <1>5, <1>6, <1>7, <1>8 DEF Copied, IsPut
<1> QED
  BY <1>9 DEF p, g, Adding

LEMMA AddBytesIs ==
    ASSUME NEW b, Store(b), NEW s \in Seq(Nat)
    PROVE  /\ Store(Buffers!AddBytes(b, s))
           /\ Buffers!GetString(Buffers!AddBytes(b, s)) = Buffers!GetString(b) \o s
<1>1. Buffers!AddBytes(b, s) = SetLen(Adding(b, s, s), b.len + Len(s))
  BY DEF Buffers!AddBytes, SetLen, Adding
<1>2. Len(s) <= Len(s)
  OBVIOUS
<1> QED
  BY <1>1, <1>2, Adds, Extended

LEMMA AddBuffIs ==
    ASSUME NEW b, Store(b), NEW s \in Seq(Nat), NEW n \in -1 .. Len(s)
    PROVE  /\ Store(Buffers!AddBuff(b, s, n))
           /\ Buffers!GetString(Buffers!AddBuff(b, s, n))
                 = Buffers!GetString(b) \o (IF n = -1 THEN s ELSE SubSeq(s, 1, n))
<1> DEFINE k == IF n >= 0 /\ n < Len(s) THEN n ELSE Len(s)
           u == SubSeq(s, 1, k)
<1>1. k \in 0 .. Len(s) /\ (n # -1 => k = n) /\ (n = -1 => k = Len(s))
  OBVIOUS
<1>2. Buffers!AddBuff(b, s, n) = SetLen(Adding(b, s, u), b.len + k)
  BY DEF Buffers!AddBuff, SetLen, Adding
<1> HIDE DEF k
<1>3. u \in Seq(Nat) /\ Len(u) = k
  <2>1. k \in Int /\ 1 \in Int /\ \A i \in 1 .. k : s[i] \in Nat
    BY <1>1
  <2>2. SubSeq(s, 1, k) \in Seq(Nat) /\ Len(SubSeq(s, 1, k)) = IF 1 <= k THEN k - 1 + 1 ELSE 0
    BY <2>1, SubSeqProperties
  <2> QED
    BY <1>1, <2>2
<1>4. u = IF n = -1 THEN s ELSE SubSeq(s, 1, n)
  BY <1>1, SubSeqFull
<1> HIDE DEF u
<1>5. Len(u) <= Len(s)
  BY <1>1, <1>3
<1>6. Copied(Adding(b, s, u), b, u)
  BY <1>3, <1>5, Adds
<1>7. /\ Store(SetLen(Adding(b, s, u), b.len + Len(u)))
      /\ Buffers!GetString(SetLen(Adding(b, s, u), b.len + Len(u))) = Buffers!GetString(b) \o u
  BY <1>3, <1>6, Extended
<1> QED
  BY <1>2, <1>3, <1>4, <1>7

LEMMA AssignIs ==
    ASSUME NEW b, Store(b), NEW s \in Seq(Nat)
    PROVE  Store(Buffers!Assign(b, s)) /\ Buffers!GetString(Buffers!Assign(b, s)) = s
<1> DEFINE g == Buffers!CheckAllocd(b, Len(s))
           p == Buffers!Put(g, 0, s)
           r == Buffers!Assign(b, s)
           x == Buffers!GetString(r)
<1>1. PICK k \in Nat : k = Len(s)
  OBVIOUS
<1>2. Enlarges(g, b, Len(s))
  BY CheckAllocdEnlarges
<1> HIDE DEF g
<1>3. Store(g) /\ 0 + Len(s) <= Len(g.mem)
  <2>1. Store(g) /\ Len(g.mem) > Len(s) /\ Len(g.mem) \in Nat
    BY <1>2, StoreTypes DEF Enlarges
  <2> QED
    BY <2>1
<1>4. IsPut(p, g, 0, s)
  BY <1>3, PutIs
<1>5. r = [p EXCEPT !.len = Len(s), !.start = 0]
  BY DEF Buffers!Assign, g
<1> HIDE DEF p, r
<1>6. Store(p) /\ k <= Len(p.mem) /\ \A i \in 1 .. k : p.mem[0 + i] = s[i]
  BY <1>1, <1>3, <1>4 DEF IsPut
<1>7. /\ r = [mem |-> r.mem, start |-> r.start, len |-> r.len]
      /\ r.mem = p.mem /\ r.start = 0 /\ r.len = k
  BY <1>1, <1>5, <1>6 DEF Store
<1>8. Store(r)
  BY <1>6, <1>7 DEF Store
<1>9. HasContent(r, x)
  BY <1>8, ContentIs
<1> HIDE DEF x
<1>10. x \in Seq(Nat) /\ Len(x) = k /\ \A i \in 1 .. k : x[i] = s[i]
  <2>1. k - 0 = k
    OBVIOUS
  <2> QED
    BY <1>6, <1>7, <1>9, <2>1 DEF HasContent
<1>11. x = s
  BY <1>1, <1>10, SeqEqual
<1> QED
  BY <1>8, <1>11 DEF x, r

(* A store that begins a bytes later and ends e bytes behind the old start. *)
LEMMA PartIs ==
    ASSUME NEW b, Store(b), NEW a \in Nat, NEW e \in Nat, a <= e, e <= b.len - b.start, NEW r,
           r = [mem |-> b.mem, start |-> b.start + a, len |-> b.start + e]
    PROVE  Store(r) /\ Buffers!GetString(r) = SubSeq(Buffers!GetString(b), a + 1, e)
<1> DEFINE x == Buffers!GetString(r)
           y == Buffers!GetString(b)
           z == SubSeq(y, a + 1, e)
<1>1. PICK st \in Nat, l \in Nat, room \in Nat :
        st = b.start /\ l = b.len /\ room = Len(b.mem) /\ st <= l /\ l <= room
  BY StoreTypes
<1>2. PICK n \in Nat : n = l - st /\ l = st + n /\ e <= n
  BY <1>1
<1>3. r.mem = b.mem /\ r.start = st + a /\ r.len = st + e
  BY <1>1
<1>4. Store(r)
  <2>1. st + a \in Nat /\ st + e \in Nat /\ st + a <= st + e /\ st + e <= room
    <3> HIDE DEF x, y, z
    <3>1. st + e <= st + n /\ st + n <= room
      BY <1>1, <1>2
    <3> QED
      BY <3>1
  <2>2. b.mem \in Seq(Nat)
    BY StoreTypes
  <2>3. r = [mem |-> r.mem, start |-> r.start, len |-> r.len]
    OBVIOUS
  <2> QED
    BY <1>1, <1>3, <2>1, <2>2, <2>3 DEF Store
<1>5. HasContent(r, x) /\ HasContent(b, y)
  BY <1>4, ContentIs, Zenon
<1> HIDE DEF x, y
<1>6. PICK d \in Nat : d = e - a /\ (st + e) - (st + a) = d /\ a + d = e
  <2>1. e - a \in Nat /\ (st + e) - (st + a) = e - a /\ a + (e - a) = e
    OBVIOUS
  <2> QED
    BY <2>1
<1>7. /\ x \in Seq(Nat) /\ Len(x) = d
      /\ \A i \in 1 .. d : x[i] = b.mem[(st + a) + i]
  BY <1>3, <1>5, <1>6 DEF HasContent
<1>8. /\ y \in Seq(Nat) /\ Len(y) = n
      /\ \A i \in 1 .. n : y[i] = b.mem[st + i]
  BY <1>1, <1>2, <1>5 DEF HasContent
<1>9. /\ z \in Seq(Nat) /\ Len(z) = d
      /\ \A i \in 1 .. d : z[i] = y[a + i]
  <2>1. a + 1 \in Int /\ e \in Int /\ \A i \in a + 1 .. e : y[i] \in Nat
    BY <1>2, <1>8
  <2>2. /\ z \in Seq(Nat) /\ Len(z) = IF a + 1 <= e THEN e - (a + 1) + 1 ELSE 0
        /\ \A i \in 1 .. e - (a + 1) + 1 : z[i] = y[a + 1 + i - 1]
    BY <2>1, SubSeqProperties
  <2>3. e - (a + 1) + 1 = d /\ (~ (a + 1 <= e) => d = 0)
    BY <1>6
  <2>4. \A i \in 1 .. d : a + 1 + i - 1 = a + i
    OBVIOUS
  <2> HIDE DEF z
  <2> QED
    BY <2>2, <2>3, <2>4
<1> HIDE DEF z
<1>10. ASSUME NEW i \in 1 .. d PROVE x[i] = z[i]
  <2>1. a + i \in 1 .. n /\ (st + a) + i = st + (a + i)
    BY <1>2, <1>6
  <2> QED
    BY <1>7, <1>8, <1>9, <2>1
<1>11. x = z
  BY <1>7, <1>9, <1>10, SeqEqual
<1> QED
  BY <1>4, <1>11 DEF x, y, z

LEMMA DiscardIs ==
    ASSUME NEW b, Store(b), NEW n \in Nat
    PROVE  LET y == Buffers!GetString(b)
           IN  /\ Store(Buffers!DiscardFirstBytes(b, n))
               /\ Buffers!GetString(Buffers!DiscardFirstBytes(b, n)) = SubSeq(y, n + 1, Len(y))
<1> DEFINE y == Buffers!GetString(b)
           r == Buffers!DiscardFirstBytes(b, n)
<1>1. PICK st \in Nat, l \in Nat, e \in Nat : st = b.start /\ l = b.len /\ e = l - st /\ l = st + e
  <2>1. b.len \in Nat /\ b.start \in Nat /\ b.len - b.start \in Nat /\ b.len = b.start + (b.len - b.start)
    BY StoreTypes
  <2> QED
    BY <2>1
<1>2. HasContent(b, y)
  BY ContentIs
<1> HIDE DEF y
<1>3. y \in Seq(Nat) /\ Len(y) = e
  BY <1>1, <1>2 DEF HasContent
<1>4. CASE st + n > l
  <2>1. r = [mem |-> b.mem, start |-> b.start + e, len |-> b.start + e]
    <3>1. b = [mem |-> b.mem, start |-> b.start, len |-> b.len]
      BY DEF Store
    <3>2. r = [b EXCEPT !.start = l]
      BY <1>1, <1>4 DEF Buffers!DiscardFirstBytes
    <3> HIDE DEF r
    <3>3. r = [mem |-> b.mem, start |-> l, len |-> b.len]
      BY <3>1, <3>2
    <3> QED
      BY <1>1, <3>3
  <2>2. e <= e /\ e <= b.len - b.start
    BY <1>1
  <2> HIDE DEF r
  <2>3. Store(r) /\ Buffers!GetString(r) = SubSeq(y, e + 1, e)
    BY <2>1, <2>2, PartIs DEF y
  <2>4. SubSeq(y, e + 1, e) = <<>> /\ SubSeq(y, n + 1, e) = <<>>
    <3>1. e < e + 1 /\ e < n + 1 /\ n + 1 \in Int /\ e + 1 \in Int
      BY <1>1, <1>4
    <3> QED
      BY <3>1, SubSeqEmpty
  <2> QED
    BY <1>3, <2>3, <2>4 DEF r, y
<1>5. CASE ~ (st + n > l)
  <2>1. r = [mem |-> b.mem, start |-> b.start + n, len |-> b.start + e]
    <3>1. b = [mem |-> b.mem, start |-> b.start, len |-> b.len]
      BY DEF Store
    <3>2. r = [mem |-> b.mem, start |-> b.start + n, len |-> b.len]
      BY <1>1, <1>5, <3>1 DEF Buffers!DiscardFirstBytes
    <3> QED
      BY <1>1, <3>2
  <2>2. n <= e /\ e <= b.len - b.start
    BY <1>1, <1>5
  <2> HIDE DEF r
  <2>3. Store(r) /\ Buffers!GetString(r) = SubSeq(y, n + 1, e)
    BY <2>1, <2>2, PartIs DEF y
  <2> QED
    BY <1>3, <2>3 DEF r, y
<1> QED
  BY <1>4, <1>5

LEMMA TruncateIs ==
    ASSUME NEW b, Store(b), b.start = 0, NEW n \in Nat
    PROVE  LET y == Buffers!GetString(b)
           IN  /\ Store(Buffers!Truncate(b, n))
               /\ Buffers!GetString(Buffers!Truncate(b, n))
                    = SubSeq(y, 1, IF n < Len(y) THEN n ELSE Len(y))
<1> DEFINE y == Buffers!GetString(b)
           r == Buffers!Truncate(b, n)
           e == IF n < b.len THEN n ELSE b.len
<1>1. b.len \in Nat /\ b.len - 0 = b.len
  BY StoreTypes
<1>2. HasContent(b, y)
  BY ContentIs
<1> HIDE DEF y
<1>3. y \in Seq(Nat) /\ Len(y) = b.len
  BY <1>1, <1>2 DEF HasContent
<1>4. e \in Nat /\ 0 <= e /\ e <= b.len - b.start /\ 0 \in Nat
  BY <1>1
<1>5. r = [mem |-> b.mem, start |-> b.start + 0, len |-> b.start + e]
  BY <1>1 DEF Buffers!Truncate, Store
<1>6. e = IF n < Len(y) THEN n ELSE Len(y)
  BY <1>3
<1> HIDE DEF r, e
<1>7. Store(r) /\ Buffers!GetString(r) = SubSeq(y, 0 + 1, e)
  BY <1>4, <1>5, PartIs DEF y
<1> QED
  BY <1>6, <1>7 DEF r, y

LEMMA ClearIs ==
    ASSUME NEW b, Store(b)
    PROVE  Store(Buffers!Clear(b)) /\ Buffers!GetString(Buffers!Clear(b)) = <<>>
<1> DEFINE q == [b EXCEPT !.start = 0]
           r == [b EXCEPT !.start = 0, !.len = 0]
<1>1. Buffers!Clear(b) = r
  BY DEF Buffers!Clear
<1>2. q = [mem |-> b.mem, start |-> 0, len |-> b.len]
  BY DEF Store
<1>3. r = [q EXCEPT !.len = 0]
  OBVIOUS
<1> HIDE DEF q
<1>4. r = [mem |-> b.mem, start |-> 0, len |-> 0]
  BY <1>2, <1>3
<1> HIDE DEF r
<1>5. r = [mem |-> r.mem, start |-> r.start, len |-> r.len] /\ r.mem = b.mem /\ r.start = 0 /\ r.len = 0
  BY <1>4
<1>6. Store(r)
  BY <1>5, StoreTypes DEF Store
<1>7. Buffers!GetString(r) = <<>>
  <2>1. HasContent(r, Buffers!GetString(r))
    BY <1>6, ContentIs
  <2> QED
    BY <1>5, <2>1 DEF HasContent
<1> QED
  BY <1>1, <1>6, <1>7

(* Only while nothing is discarded: what is before start does not move.    *)
LEMMA PrependIs ==
    ASSUME NEW b, Store(b), b.start = 0, NEW s \in Seq(Nat)
    PROVE  /\ Store(Buffers!Prepend(b, s))
           /\ Buffers!GetString(Buffers!Prepend(b, s)) = s \o Buffers!GetString(b)
<1> DEFINE g == Buffers!CheckAllocd(b, b.len + Len(s))
           u == SubSeq(g.mem, 1, b.len)
           p1 == Buffers!Put(g, Len(s), u)
           p2 == Buffers!Put(p1, 0, s)
           r == SetLen(p2, b.len + Len(s))
           x == Buffers!GetString(r)
           y == Buffers!GetString(b)
<1>0. Buffers!Prepend(b, s) = r
  BY DEF Buffers!Prepend, SetLen
<1>1. PICK l \in Nat, k \in Nat, room \in Nat :
        l = b.len /\ k = Len(s) /\ room = Len(b.mem) /\ l <= room
  BY StoreTypes
<1>2. Enlarges(g, b, l + k)
  BY <1>1, CheckAllocdEnlarges
<1> HIDE DEF g
<1>3. PICK more \in Nat : more = Len(g.mem) /\ k + l <= more
  <2>1. Store(g) /\ Len(g.mem) > l + k
    BY <1>2 DEF Enlarges
  <2>2. Len(g.mem) \in Nat
    BY <2>1, StoreTypes
  <2> QED
    BY <2>1, <2>2
<1>4. /\ Store(g) /\ g.start = 0 /\ g.mem \in Seq(Nat)
      /\ \A i \in 1 .. l : g.mem[i] = b.mem[i]
  BY <1>1, <1>2, StoreTypes DEF Enlarges
<1>5. u \in Seq(Nat) /\ Len(u) = l /\ \A i \in 1 .. l : u[i] = b.mem[i]
  <2>1. \A i \in 1 .. l : g.mem[i] \in Nat
    BY <1>3, <1>4
  <2>2. /\ SubSeq(g.mem, 1, l) \in Seq(Nat)
        /\ Len(SubSeq(g.mem, 1, l)) = IF 1 <= l THEN l - 1 + 1 ELSE 0
        /\ \A i \in 1 .. l - 1 + 1 : SubSeq(g.mem, 1, l)[i] = g.mem[1 + i - 1]
    BY <2>1, SubSeqProperties
  <2>3. l - 1 + 1 = l /\ (~ (1 <= l) => l = 0) /\ \A i \in 1 .. l : 1 + i - 1 = i
    OBVIOUS
  <2> QED
    BY <1>1, <1>4, <2>2, <2>3
<1> HIDE DEF u
<1>6. IsPut(p1, g, k, u)
  <2>1. k + Len(u) <= Len(g.mem)
    BY <1>3, <1>5
  <2> QED
    BY <1>1, <1>4, <1>5, <2>1, PutIs
<1> HIDE DEF p1
<1>7. /\ Store(p1) /\ p1.start = 0 /\ Len(p1.mem) = more
      /\ \A i \in 1 .. l : p1.mem[k + i] = b.mem[i]
  BY <1>3, <1>4, <1>5, <1>6 DEF IsPut
<1>8. IsPut(p2, p1, 0, s)
  <2>1. 0 + Len(s) <= Len(p1.mem)
    BY <1>1, <1>3, <1>7
  <2> QED
    BY <1>7, <2>1, PutIs
<1> HIDE DEF p2
<1>9. /\ Store(p2) /\ p2.start = 0 /\ Len(p2.mem) = more
      /\ \A i \in 1 .. k : p2.mem[i] = s[i]
      /\ \A i \in 1 .. l : p2.mem[k + i] = b.mem[i]
  <2>1. Store(p2) /\ p2.start = 0 /\ Len(p2.mem) = more
    BY <1>7, <1>8 DEF IsPut
  <2>2. \A i \in 1 .. k : p2.mem[0 + i] = s[i] /\ 0 + i = i
    BY <1>1, <1>8 DEF IsPut
  <2>3. ASSUME NEW i \in 1 .. l PROVE p2.mem[k + i] = b.mem[i]
    <3>1. k + i \in 1 .. more /\ k + i > 0 + k
      BY <1>3
    <3>2. p2.mem[k + i] = p1.mem[k + i]
      BY <1>1, <1>7, <1>8, <3>1 DEF IsPut
    <3> QED
      BY <1>7, <3>2
  <2> QED
    BY <2>1, <2>2, <2>3
<1>10. Store(r) /\ r.mem = p2.mem /\ r.start = 0 /\ r.len = l + k
  <2>1. b.len + Len(s) \in Nat /\ b.len + Len(s) <= more /\ 0 <= b.len + Len(s)
    BY <1>1, <1>3
  <2> QED
    BY <1>1, <1>9, <2>1, SetLenIs
<1>11. HasContent(r, x) /\ HasContent(b, y)
  BY <1>10, ContentIs, Zenon
<1> HIDE DEF x, y, r
<1>12. y \in Seq(Nat) /\ Len(y) = l /\ \A i \in 1 .. l : y[i] = b.mem[i]
  <2>1. l - 0 = l /\ \A i \in 1 .. l : 0 + i = i
    OBVIOUS
  <2> QED
    BY <1>1, <1>11, <2>1 DEF HasContent
<1>13. x \in Seq(Nat) /\ Len(x) = k + l /\ \A i \in 1 .. k + l : x[i] = p2.mem[0 + i]
  <2>1. (l + k) - 0 = k + l
    OBVIOUS
  <2> QED
    BY <1>10, <1>11, <2>1 DEF HasContent
<1>14. AreBehind(x, s, y, p2.mem, s, 0, k)
  <2>1. 0 + k = k /\ \A i \in 1 .. k : 0 + i = i
    OBVIOUS
  <2> QED
    BY <1>1, <1>9, <1>12, <1>13, <2>1 DEF AreBehind
<1>15. x = s \o y
  <2>1. y \in Seq(Nat) /\ 0 \in Nat
    BY <1>12
  <2>2. PICK m : m = p2.mem
    OBVIOUS
  <2>3. AreBehind(x, s, y, m, s, 0, k)
    BY <1>14, <2>2, Zenon
  <2> QED
    BY <2>1, <2>3, Joined
<1> QED
  BY <1>0, <1>10, <1>15 DEF x, y, r

-----------------------------------------------------------------------------
(* What either container holds, and what is always true of both.           *)

Held == IF kind = "store" THEN Buffers!GetString(store) ELSE array.items

BufferInv ==
    /\ kind \in {"store", "array"}
    /\ Store(store)
    /\ array = [items |-> array.items, room |-> array.room] /\ array.items \in Seq(Nat)

LEMMA BuffersInitInv ==
    ASSUME Buffers!BuffersInit
    PROVE  BufferInv /\ Buffers!Promise!DequeInit
<1>1. /\ store = [mem |-> <<>>, start |-> 0, len |-> 0] /\ array = [items |-> <<>>, room |-> AllocMin]
      /\ kind \in {"store", "array"} /\ op = <<"none">>
  BY DEF Buffers!BuffersInit
<1>2. <<>> \in Seq(Nat) /\ Len(<<>>) = 0
  OBVIOUS
<1>3. store = [mem |-> store.mem, start |-> store.start, len |-> store.len]
      /\ store.mem = <<>> /\ store.start = 0 /\ store.len = 0
  BY <1>1
<1>4. Store(store)
  BY <1>2, <1>3 DEF Store
<1>5. Buffers!GetString(store) = <<>>
  <2>1. HasContent(store, Buffers!GetString(store))
    BY <1>4, ContentIs
  <2> QED
    BY <1>3, <2>1 DEF HasContent
<1>6. BufferInv
  BY <1>1, <1>2, <1>4 DEF BufferInv
<1>7. (IF kind = "store" THEN Buffers!GetString(store) ELSE array.items) = <<>>
  BY <1>1, <1>5
<1> QED
  BY <1>1, <1>6, <1>7 DEF Buffers!Promise!DequeInit

(* A step to store b, which what b holds makes a step of the promise.      *)
LEMMA StoreKept ==
    ASSUME BufferInv, kind = "store", NEW o, NEW b, Store(b), Buffers!StoreStep(o, b)
    PROVE  BufferInv' /\ op' = o /\ Held' = Buffers!GetString(b)
<1>1. op' = o /\ store' = b /\ kind' = kind /\ array' = array
  BY DEF Buffers!StoreStep
<1>2. Store(store')
  BY <1>1
<1>3. BufferInv'
  BY <1>1, <1>2 DEF BufferInv, Store
<1>4. Held' = Buffers!GetString(b)
  BY <1>1 DEF Held, Buffers!GetString, Buffers!GetLen
<1> QED
  BY <1>1, <1>3, <1>4

LEMMA StorePromised ==
    ASSUME BufferInv, Buffers!StoreNext
    PROVE  BufferInv' /\ Buffers!Promise!DequeNext
<1> DEFINE y == Buffers!GetString(store)
<1>1. kind = "store" /\ Store(store) /\ Held = y
  BY DEF BufferInv, Buffers!StoreNext, Held
<1>2. \A s \in Strings : s \in Seq(Nat)
  BY BuffersAssumption
<1>3. y \in Seq(Nat)
  BY <1>1, ContentIs DEF HasContent
<1>4. MaxLen \in Nat /\ MaxLen <= MaxLen + 1
  BY BuffersAssumption
<1> HIDE DEF y
<1> DEFINE Done(o, d) == BufferInv' /\ op' = o /\ Held' = d
<1>5. ASSUME NEW s \in Strings,
             \/ Buffers!StoreStep(<<"append", s>>, Buffers!AddBytes(store, s))
             \/ Buffers!StoreStep(<<"append", s>>, Buffers!AddBuff(store, s, -1))
      PROVE  Done(<<"append", s>>, Held \o s)
  <2>1. s \in Seq(Nat) /\ -1 \in -1 .. Len(s)
    BY <1>2
  <2>2. /\ Store(Buffers!AddBytes(store, s)) /\ Buffers!GetString(Buffers!AddBytes(store, s)) = y \o s
        /\ Store(Buffers!AddBuff(store, s, -1)) /\ Buffers!GetString(Buffers!AddBuff(store, s, -1)) = y \o s
    BY <1>1, <2>1, AddBytesIs, AddBuffIs DEF y
  <2> QED
    BY <1>1, <1>5, <2>2, StoreKept
<1>6. ASSUME NEW s \in Strings, NEW n \in 0 .. Len(s),
             Buffers!StoreStep(<<"append", s, n>>, Buffers!AddBuff(store, s, n))
      PROVE  Done(<<"append", s, n>>, Held \o SubSeq(s, 1, n))
  <2>1. s \in Seq(Nat) /\ n \in -1 .. Len(s) /\ n # -1
    BY <1>2
  <2>2. /\ Store(Buffers!AddBuff(store, s, n))
        /\ Buffers!GetString(Buffers!AddBuff(store, s, n)) = y \o SubSeq(s, 1, n)
    BY <1>1, <2>1, AddBuffIs DEF y
  <2> QED
    BY <1>1, <1>6, <2>2, StoreKept
<1>7. ASSUME NEW s \in Strings, store.start = 0,
             Buffers!StoreStep(<<"prepend", s>>, Buffers!Prepend(store, s))
      PROVE  Done(<<"prepend", s>>, s \o Held)
  <2>1. /\ Store(Buffers!Prepend(store, s))
        /\ Buffers!GetString(Buffers!Prepend(store, s)) = s \o y
    BY <1>1, <1>2, <1>7, PrependIs DEF y
  <2> QED
    BY <1>1, <1>7, <2>1, StoreKept
<1>8. ASSUME NEW s \in Strings, Buffers!StoreStep(<<"assign", s>>, Buffers!Assign(store, s))
      PROVE  Done(<<"assign", s>>, s)
  BY <1>1, <1>2, <1>8, AssignIs, StoreKept
<1>9. ASSUME NEW n \in 0 .. MaxLen + 1,
             Buffers!StoreStep(<<"discard", n>>, Buffers!DiscardFirstBytes(store, n))
      PROVE  Done(<<"discard", n>>, SubSeq(Held, n + 1, Len(Held)))
  <2>1. n \in Nat
    OBVIOUS
  <2>2. /\ Store(Buffers!DiscardFirstBytes(store, n))
        /\ Buffers!GetString(Buffers!DiscardFirstBytes(store, n)) = SubSeq(y, n + 1, Len(y))
    BY <1>1, <2>1, DiscardIs DEF y
  <2> QED
    BY <1>1, <1>9, <2>2, StoreKept
<1>10. ASSUME NEW n \in 0 .. MaxLen, store.start = 0,
              Buffers!StoreStep(<<"truncate", n>>, Buffers!Truncate(store, n))
       PROVE  Done(<<"truncate", n>>, SubSeq(Held, 1, Buffers!Promise!Upper(n, Len(Held))))
  <2>1. n \in Nat
    OBVIOUS
  <2>2. /\ Store(Buffers!Truncate(store, n))
        /\ Buffers!GetString(Buffers!Truncate(store, n)) = SubSeq(y, 1, IF n < Len(y) THEN n ELSE Len(y))
    BY <1>1, <1>10, <2>1, TruncateIs DEF y
  <2> QED
    BY <1>1, <1>10, <2>2, StoreKept DEF Buffers!Promise!Upper
<1>11. ASSUME Buffers!StoreStep(<<"clear">>, Buffers!Clear(store))
       PROVE  Done(<<"clear">>, <<>>)
  BY <1>1, <1>11, ClearIs, StoreKept
<1>12. \/ \E s \in Strings :
            \/ Done(<<"append", s>>, Held \o s)
            \/ Done(<<"prepend", s>>, s \o Held)
            \/ Done(<<"assign", s>>, s)
            \/ \E n \in 0 .. Len(s) : Done(<<"append", s, n>>, Held \o SubSeq(s, 1, n))
       \/ \E n \in 0 .. MaxLen + 1 :
            \/ Done(<<"discard", n>>, SubSeq(Held, n + 1, Len(Held)))
            \/ Done(<<"truncate", n>>, SubSeq(Held, 1, Buffers!Promise!Upper(n, Len(Held))))
       \/ Done(<<"clear">>, <<>>)
  <2> HIDE DEF Done
  <2>1. CASE \E s \in Strings :
               \/ Buffers!StoreStep(<<"append", s>>, Buffers!AddBytes(store, s))
               \/ Buffers!StoreStep(<<"append", s>>, Buffers!AddBuff(store, s, -1))
               \/ \E n \in 0 .. Len(s) :
                    Buffers!StoreStep(<<"append", s, n>>, Buffers!AddBuff(store, s, n))
               \/ store.start = 0 /\ Buffers!StoreStep(<<"prepend", s>>, Buffers!Prepend(store, s))
               \/ Buffers!StoreStep(<<"assign", s>>, Buffers!Assign(store, s))
    BY <1>5, <1>6, <1>7, <1>8, <2>1
  <2>2. CASE \E n \in 0 .. MaxLen + 1 :
               Buffers!StoreStep(<<"discard", n>>, Buffers!DiscardFirstBytes(store, n))
    BY <1>9, <2>2
  <2>3. CASE \E n \in 0 .. MaxLen :
               store.start = 0 /\ Buffers!StoreStep(<<"truncate", n>>, Buffers!Truncate(store, n))
    <3>1. PICK n \in 0 .. MaxLen :
            store.start = 0 /\ Buffers!StoreStep(<<"truncate", n>>, Buffers!Truncate(store, n))
      BY <2>3
    <3>2. n \in 0 .. MaxLen + 1
      BY <1>4
    <3> QED
      BY <1>10, <3>1, <3>2
  <2>4. CASE Buffers!StoreStep(<<"clear">>, Buffers!Clear(store))
    BY <1>11, <2>4
  <2> QED
    BY <2>1, <2>2, <2>3, <2>4 DEF Buffers!StoreNext
<1> QED
  BY <1>12 DEF Buffers!Promise!DequeNext, Held

LEMMA ArrayKept ==
    ASSUME BufferInv, kind = "array", NEW o, NEW x \in Seq(Nat), NEW n,
           Buffers!ArrayStep(o, [items |-> x, room |-> n])
    PROVE  BufferInv' /\ op' = o /\ Held' = x
<1>1. op' = o /\ array' = [items |-> x, room |-> n] /\ kind' = kind /\ store' = store
  BY DEF Buffers!ArrayStep
<1>2. array' = [items |-> array'.items, room |-> array'.room] /\ array'.items = x
  BY <1>1
<1>3. BufferInv'
  BY <1>1, <1>2 DEF BufferInv, Store
<1> QED
  BY <1>1, <1>2, <1>3 DEF Held

LEMMA OneElement ==
    ASSUME NEW s \in Seq(Nat), Len(s) = 1
    PROVE  s[1] \in Nat /\ s = <<s[1]>>
<1>1. s[1] \in Nat
  <2>1. 1 \in 1 .. Len(s)
    OBVIOUS
  <2> QED
    BY <2>1, ElementOfSeq
<1>2. <<s[1]>> \in Seq(Nat) /\ Len(<<s[1]>>) = 1 /\ \A i \in 1 .. 1 : <<s[1]>>[i] = s[i]
  BY <1>1
<1>3. s = <<s[1]>>
  BY <1>2, SeqEqual
<1> QED
  BY <1>1, <1>3

LEMMA AppendIs ==
    ASSUME NEW y \in Seq(Nat), NEW x \in Nat
    PROVE  Append(y, x) = y \o <<x>> /\ y \o <<x>> \in Seq(Nat) /\ <<x>> \o y \in Seq(Nat)
<1>1. PICK n \in Nat : n = Len(y)
  OBVIOUS
<1>2. Append(y, x) \in Seq(Nat) /\ Len(Append(y, x)) = n + 1
      /\ \A i \in 1 .. n + 1 : Append(y, x)[i] = IF i <= n THEN y[i] ELSE x
  BY <1>1
<1>3. PICK u : u = <<x>> /\ u \in Seq(Nat) /\ Len(u) = 1 /\ u[1] = x
  <2>1. <<x>> \in Seq(Nat) /\ Len(<<x>>) = 1 /\ <<x>>[1] = x
    OBVIOUS
  <2> QED
    BY <2>1, Zenon
<1>4. /\ y \o u \in Seq(Nat) /\ Len(y \o u) = n + 1
      /\ \A i \in 1 .. n + 1 : (y \o u)[i] = IF i <= n THEN y[i] ELSE u[i - n]
  BY <1>1, <1>3, ConcatProperties
<1>5. ASSUME NEW i \in 1 .. n + 1 PROVE Append(y, x)[i] = (y \o u)[i]
  <2>1. i <= n \/ i - n = 1
    OBVIOUS
  <2> QED
    BY <1>2, <1>3, <1>4, <2>1
<1>6. Append(y, x) = y \o u
  BY <1>2, <1>4, <1>5, SeqEqual
<1>7. u \o y \in Seq(Nat)
  BY <1>3, ConcatProperties
<1> QED
  BY <1>3, <1>4, <1>6, <1>7

LEMMA ArrayPromised ==
    ASSUME BufferInv, Buffers!ArrayNext
    PROVE  BufferInv' /\ Buffers!Promise!DequeNext
<1> DEFINE Done(o, d) == BufferInv' /\ op' = o /\ Held' = d
           y == array.items
<1>1. kind = "array" /\ y \in Seq(Nat) /\ array = [items |-> y, room |-> array.room] /\ Held = y
  BY DEF BufferInv, Buffers!ArrayNext, Held
<1> HIDE DEF y
<1>2. \A s \in Strings : s \in Seq(Nat)
  BY BuffersAssumption
<1>3. ASSUME NEW s \in Strings, Len(s) = 1,
             Buffers!ArrayStep(<<"append", s>>, Buffers!AppendTo(array, s[1]))
      PROVE  Done(<<"append", s>>, Held \o s)
  <2>1. s \in Seq(Nat) /\ s[1] \in Nat /\ s = <<s[1]>>
    BY <1>2, <1>3, OneElement
  <2>2. Append(y, s[1]) = y \o s /\ y \o s \in Seq(Nat)
    BY <1>1, <2>1, AppendIs
  <2>3. Buffers!AppendTo(array, s[1]) = [items |-> y \o s, room |-> Buffers!Enlarged(array)]
    BY <2>2 DEF Buffers!AppendTo, y
  <2> QED
    BY <1>1, <1>3, <2>2, <2>3, ArrayKept
<1>4. ASSUME NEW s \in Strings, Len(s) = 1,
             Buffers!ArrayStep(<<"prepend", s>>, Buffers!PushTo(array, s[1]))
      PROVE  Done(<<"prepend", s>>, s \o Held)
  <2>1. s \in Seq(Nat) /\ s[1] \in Nat /\ s = <<s[1]>>
    BY <1>2, <1>4, OneElement
  <2>2. <<s[1]>> \o y = s \o y /\ s \o y \in Seq(Nat)
    BY <1>1, <2>1, AppendIs
  <2>3. Buffers!PushTo(array, s[1]) = [items |-> s \o y, room |-> Buffers!Enlarged(array)]
    BY <2>2 DEF Buffers!PushTo, y
  <2> QED
    BY <1>1, <1>4, <2>2, <2>3, ArrayKept
<1>5. ASSUME Buffers!ArrayStep(<<"discard", 1>>, Buffers!Pop(array))
      PROVE  Done(<<"discard", 1>>, SubSeq(Held, 1 + 1, Len(Held)))
  <2> DEFINE t == IF y = <<>> THEN y ELSE Tail(y)
  <2>0. array.items = y
    BY DEF y
  <2>1. Buffers!Pop(array) = [items |-> t, room |-> array.room]
    <3>1. Buffers!Pop(array) = [array EXCEPT !.items = t]
      BY <2>0 DEF Buffers!Pop
    <3> HIDE DEF t
    <3> QED
      BY <1>1, <3>1
  <2>2. t = SubSeq(y, 1 + 1, Len(y)) /\ t \in Seq(Nat)
    <3>1. CASE y = <<>>
      <4>1. SubSeq(y, 1 + 1, Len(y)) = <<>>
        BY <3>1, SubSeqEmpty
      <4> QED
        BY <1>1, <3>1, <4>1
    <3>2. CASE y # <<>>
      <4>1. Tail(y) = SubSeq(y, 2, Len(y)) /\ Tail(y) \in Seq(Nat)
        BY <1>1, <3>2
      <4> QED
        BY <3>2, <4>1
    <3> QED
      BY <3>1, <3>2
  <2> HIDE DEF t
  <2> QED
    BY <1>1, <1>5, <2>1, <2>2, ArrayKept
<1>6. ASSUME Buffers!ArrayStep(<<"clear">>, Buffers!ClearArray)
      PROVE  Done(<<"clear">>, <<>>)
  <2>1. <<>> \in Seq(Nat)
    OBVIOUS
  <2> QED
    BY <1>1, <1>6, <2>1, ArrayKept DEF Buffers!ClearArray
<1>7. \/ \E s \in Strings : Done(<<"append", s>>, Held \o s) \/ Done(<<"prepend", s>>, s \o Held)
      \/ Done(<<"discard", 1>>, SubSeq(Held, 1 + 1, Len(Held)))
      \/ Done(<<"clear">>, <<>>)
  <2> HIDE DEF Done
  <2> QED
    BY <1>3, <1>4, <1>5, <1>6 DEF Buffers!ArrayNext
<1>8. 1 \in 0 .. MaxLen + 1
  BY BuffersAssumption
<1> QED
  BY <1>7, <1>8 DEF Buffers!Promise!DequeNext, Held

LEMMA BuffersKept ==
    ASSUME BufferInv, UNCHANGED buffersVars
    PROVE  BufferInv' /\ UNCHANGED <<Held, op>>
<1>1. kind' = kind /\ store' = store /\ array' = array /\ op' = op
  BY DEF buffersVars
<1> QED
  BY <1>1 DEF BufferInv, Store, Held, Buffers!GetString, Buffers!GetLen

(* A BufferStore and a BufferArray are the sequence their callers take     *)
(* them for: whatever is added, however often their memory has grown and   *)
(* whatever it still holds from before, each call does to that sequence    *)
(* what Deque says it does, and nothing else.                              *)
THEOREM BuffersAreDeques == Spec => KeepsPromise
<1>1. Init => BufferInv /\ Buffers!Promise!DequeInit
  BY BuffersInitInv DEF Init
<1>2. BufferInv /\ [Next]_vars
         => BufferInv' /\ (Buffers!Promise!DequeNext \/ UNCHANGED <<Held, op>>)
  BY OneProgram, StorePromised, ArrayPromised, BuffersKept DEF Buffers!BuffersNext
<1> QED
  BY <1>1, <1>2, PTL DEF Spec, KeepsPromise, Buffers!KeepsPromise, Buffers!Promise!DequeSpec, Held

-----------------------------------------------------------------------------
(* Sequences made of sets, and what is left of one.                        *)

Sequence(q) == q \in Seq(Ftp!ToSet(q))

LEMMA SetToSeqIs ==
    ASSUME NEW S, IsFiniteSet(S)
    PROVE  Sequence(Ftp!SetToSeq(S)) /\ Ftp!ToSet(Ftp!SetToSeq(S)) = S
<1> DEFINE n == Cardinality(S)
<1>1. n \in Nat /\ ExistsBijection(1 .. n, S)
  BY FS_CardinalityType
<1>2. PICK b : b \in Bijection(1 .. n, S)
  BY <1>1 DEF ExistsBijection
<1>3. b \in [1 .. n -> S] /\ Ftp!IsInjective(b)
  BY <1>2 DEF Bijection, Injection, IsInjective, Ftp!IsInjective
<1>4. PICK q : q = Ftp!SetToSeq(S)
  OBVIOUS
<1>0. Ftp!Cardinality(S) = n
  BY Zenon DEF Cardinality, Ftp!Cardinality
<1>5. q \in [1 .. n -> S] /\ Ftp!IsInjective(q)
  BY <1>0, <1>3, <1>4 DEF Ftp!SetToSeq
<1>6. q \in Injection(1 .. n, S)
  BY <1>5 DEF Injection, IsInjective, Ftp!IsInjective
<1>7. IsFiniteSet(1 .. n) /\ Cardinality(1 .. n) = n
  <2>1. PICK one \in Int, m \in Nat : one = 1 /\ m = n
    BY <1>1
  <2>2. IsFiniteSet(one .. m) /\ Cardinality(one .. m) = IF one > m THEN 0 ELSE m - one + 1
    BY FS_Interval
  <2> QED
    BY <2>1, <2>2
<1>8. q \in Surjection(1 .. n, S)
  BY <1>6, <1>7, FS_Injection
<1>9. \A x \in S : \E i \in 1 .. n : q[i] = x
  BY <1>8 DEF Surjection
<1> HIDE DEF n
<1>10. Ftp!ToSet(q) = S
  BY <1>5, <1>9 DEF Ftp!ToSet
<1>11. q \in Seq(S)
  BY <1>1, <1>5
<1> QED
  BY <1>4, <1>10, <1>11 DEF Sequence

LEMMA TailIs ==
    ASSUME NEW q, Sequence(q), q # <<>>
    PROVE  /\ Sequence(Tail(q)) /\ q[1] \in Ftp!ToSet(q)
           /\ Ftp!ToSet(q) = {q[1]} \cup Ftp!ToSet(Tail(q))
<1>0. PICK T : T = Ftp!ToSet(q) /\ q \in Seq(T)
  BY DEF Sequence
<1>1. PICK n \in Nat : n = Len(q) /\ n > 0
  BY <1>0
<1>2. PICK t : t = Tail(q)
  OBVIOUS
<1>3. t \in Seq(T) /\ Len(t) = n - 1 /\ \A i \in 1 .. n - 1 : t[i] = q[i + 1]
  BY <1>0, <1>1, <1>2
<1>4. DOMAIN q = 1 .. n /\ DOMAIN t = 1 .. n - 1
  BY <1>0, <1>1, <1>3
<1>5. q[1] \in Ftp!ToSet(q) /\ \A i \in 1 .. n - 1 : t[i] \in Ftp!ToSet(q)
  BY <1>1, <1>3, <1>4 DEF Ftp!ToSet
<1>6. \A i \in 2 .. n : q[i] \in Ftp!ToSet(t)
  <2> SUFFICES ASSUME NEW i \in 2 .. n PROVE q[i] \in Ftp!ToSet(t)
    OBVIOUS
  <2>1. i - 1 \in 1 .. n - 1 /\ t[i - 1] = q[i]
    BY <1>3
  <2> QED
    BY <1>4, <2>1 DEF Ftp!ToSet
<1>7. Ftp!ToSet(t) \subseteq Ftp!ToSet(q)
  BY <1>4, <1>5 DEF Ftp!ToSet
<1>8. Ftp!ToSet(q) \subseteq {q[1]} \cup Ftp!ToSet(t)
  <2> SUFFICES ASSUME NEW i \in 1 .. n PROVE q[i] \in {q[1]} \cup Ftp!ToSet(t)
    BY <1>4 DEF Ftp!ToSet
  <2> QED
    BY <1>6
<1>9. Sequence(t)
  <2>1. t \in [1 .. n - 1 -> Ftp!ToSet(t)]
    BY <1>3, <1>4 DEF Ftp!ToSet
  <2>2. n - 1 \in Nat
    BY <1>1
  <2> QED
    BY <2>1, <2>2 DEF Sequence
<1> QED
  BY <1>2, <1>5, <1>7, <1>8, <1>9

LEMMA NoSequence == Sequence(<<>>) /\ Ftp!ToSet(<<>>) = {}
BY DEF Sequence, Ftp!ToSet

-----------------------------------------------------------------------------
(* plpftp's shell.                                                         *)

ShellShape(s) ==
    s = [at |-> s.at, once |-> s.once, prompt |-> s.prompt, continueRunning |-> s.continueRunning,
         psionDir |-> s.psionDir, cmd |-> s.cmd, queue |-> s.queue, done |-> s.done,
         refused |-> s.refused, failed |-> s.failed, before |-> s.before, text |-> s.text]
DirsShape(ds) == ds = [d \in DOMAIN ds |-> ds[d]] /\ \A d \in DOMAIN ds : IsFiniteSet(ds[d])
ProgramShape(p) == p = [prog |-> p.prog, arg |-> p.arg]
Runs(p) == \E q \in running : q.prog = p.prog /\ (p.arg = "document" => q.arg = "document")

(* What the Psion, this machine and the list that killsave wrote hold.     *)
Kept ==
    /\ DirsShape(dirs) /\ IsFiniteSet(localFiles) /\ IsFiniteSet(running)
    /\ Sequence(savedList) /\ \A p \in running \cup Ftp!ToSet(savedList) : ProgramShape(p)

(* A batch has done, or been refused, or still has to do what it began     *)
(* with; so has runrestore, and killsave still knows what it listed.       *)
Batches ==
    /\ shell.cmd \in {"mget", "mput"} /\ ~ shell.failed /\ shell.at \in {"batch", "finished"} =>
         /\ shell.before \subseteq shell.done \cup shell.refused \cup Ftp!ToSet(shell.queue)
         /\ shell.at = "finished" => shell.queue = <<>>
    /\ shell.cmd = "mget" /\ ~ shell.failed /\ shell.at \in {"batch", "finished"} =>
         shell.done \subseteq localFiles
Restores ==
    /\ shell.at = "starting" => Ftp!ToSet(shell.queue) \subseteq Ftp!ToSet(savedList)
    /\ shell.cmd = "runrestore" /\ ~ shell.failed /\ shell.at \in {"starting", "finished"} =>
         /\ \A p \in Ftp!ToSet(savedList) : Runs(p) \/ p \in Ftp!ToSet(shell.queue)
         /\ shell.at = "finished" => shell.queue = <<>>
Stops ==
    shell.cmd = "killsave" /\ ~ shell.failed /\ shell.at \in {"stopping", "finished"} =>
      shell.before = Ftp!ToSet(savedList)
Clips ==
    shell.cmd = "putclip" /\ ~ shell.failed /\ shell.at = "finished" =>
      \A i \in DOMAIN shell.text :
        shell.text[i] \notin Ftp!PsionCodes \cup {"nul"} => Ftp!Mapped(clip.text, Ftp!FromPsion)[i] = shell.text[i]

(* Which command is where.                                                 *)
Places ==
    /\ shell.at = "prompt" => shell.cmd = "none"
    /\ shell.at = "batch" => shell.cmd \in {"get", "put", "mget", "mput"}
    /\ shell.at = "stopping" => shell.cmd = "killsave"
    /\ shell.at = "starting" => shell.cmd = "runrestore"
    /\ shell.at \in {"batch", "starting"} => Sequence(shell.queue)

ShellInv == ShellShape(shell) /\ Places /\ Kept /\ Batches /\ Restores /\ Stops /\ Clips

LEMMA ShellUntouched ==
    ASSUME ShellInv, UNCHANGED ftpVars
    PROVE  ShellInv'
<1>1. /\ shell' = shell /\ dirs' = dirs /\ localFiles' = localFiles /\ running' = running
      /\ savedList' = savedList /\ clip' = clip
  BY DEF ftpVars
<1>2. ShellShape(shell)' /\ Places'
  BY <1>1 DEF ShellInv, ShellShape, Places, Sequence
<1>3. Kept'
  BY <1>1 DEF ShellInv, Kept, DirsShape, Sequence, ProgramShape
<1>4. Batches' /\ Restores' /\ Stops'
  BY <1>1 DEF ShellInv, Batches, Restores, Stops, Runs
<1>5. Clips'
  BY <1>1 DEF ShellInv, Clips
<1> QED
  BY <1>2, <1>3, <1>4, <1>5 DEF ShellInv

(* A command begins, or the next one is awaited.                           *)
BegunAs(s, c, a) ==
    /\ ShellShape(s) /\ s.at = a /\ s.cmd = c /\ s.queue = <<>> /\ s.done = {} /\ s.refused = {}
    /\ s.failed = FALSE /\ s.before = {} /\ s.text = <<>>

LEMMA BeginIs ==
    ASSUME ShellInv, NEW c, NEW a
    PROVE  BegunAs(Ftp!Begin(c, a), c, a)
<1>1. ShellShape(shell)
  BY DEF ShellInv
<1>2. PICK e : e = {}
  OBVIOUS
<1>3. PICK n : n = <<>>
  OBVIOUS
<1>4. PICK no : no = FALSE
  OBVIOUS
<1>5. PICK s : s = [shell EXCEPT !.at = a, !.cmd = c, !.queue = n, !.done = e, !.refused = e,
                                 !.failed = no, !.before = e, !.text = n]
  OBVIOUS
<1>6. s = [at |-> a, once |-> shell.once, prompt |-> shell.prompt, continueRunning |-> shell.continueRunning,
           psionDir |-> shell.psionDir, cmd |-> c, queue |-> n, done |-> e,
           refused |-> e, failed |-> no, before |-> e, text |-> n]
  BY <1>1, <1>5 DEF ShellShape
<1>7. /\ ShellShape(s) /\ s.at = a /\ s.cmd = c /\ s.queue = n /\ s.done = e /\ s.refused = e
      /\ s.failed = no /\ s.before = e /\ s.text = n
  BY <1>6 DEF ShellShape
<1>8. s = Ftp!Begin(c, a)
  BY <1>2, <1>3, <1>4, <1>5 DEF Ftp!Begin
<1>9. BegunAs(s, c, a)
  BY <1>2, <1>3, <1>4, <1>7 DEF BegunAs
<1> QED
  BY <1>8, <1>9

LEMMA FreshIs ==
    ASSUME ShellShape(shell), NEW s, s = Ftp!Fresh(shell)
    PROVE  ShellShape(s) /\ s.at = "prompt" /\ s.cmd = "none"
BY DEF Ftp!Fresh, ShellShape

(* A step that leaves what is kept, or adds to what is here and runs, and  *)
(* with which no command is under way.                                     *)
LEMMA CommandOver ==
    ASSUME Kept', ShellShape(shell)',
           \/ shell'.at \in {"prompt", "ended"} /\ shell'.cmd = "none"
           \/ shell'.at = "finished" /\ shell'.failed
           \/ shell'.at = "finished" /\ shell'.cmd \notin {"mget", "mput", "runrestore", "killsave", "putclip"}
    PROVE  ShellInv'
<1>1. Places' /\ Batches'
  BY DEF Places, Batches
<1>2. Restores' /\ Stops'
  BY DEF Restores, Stops
<1>3. Clips'
  BY DEF Clips
<1> QED
  BY <1>1, <1>2, <1>3 DEF ShellInv

LEMMA LoopStep ==
    ASSUME ShellInv, Ftp!LoopTest
    PROVE  ShellInv'
<1>1. PICK s : s = Ftp!Fresh(shell)
  OBVIOUS
<1>2. ShellShape(s) /\ s.at = "prompt" /\ s.cmd = "none"
  BY <1>1, FreshIs DEF ShellInv
<1>3. /\ shell' = s \/ shell' = [s EXCEPT !.at = "ended"]
      /\ UNCHANGED <<dirs, localFiles, running, savedList, clip>>
  BY <1>1 DEF Ftp!LoopTest
<1>4. ShellShape(shell)' /\ shell'.at \in {"prompt", "ended"} /\ shell'.cmd = "none"
  BY <1>2, <1>3 DEF ShellShape
<1>5. Kept'
  BY <1>3 DEF ShellInv, Kept, DirsShape, Sequence, ProgramShape
<1> QED
  BY <1>4, <1>5, CommandOver

LEMMA InterruptStep ==
    ASSUME ShellInv, Ftp!Interrupt
    PROVE  ShellInv'
<1>0. Kept'
  BY DEF Ftp!Interrupt, ShellInv, Kept, DirsShape, Sequence, ProgramShape
<1>1. CASE shell.at = "prompt" /\ shell' = [shell EXCEPT !.continueRunning = FALSE, !.at = "finished"]
  <2>1. ShellShape(shell)' /\ shell'.at = "finished" /\ shell'.cmd = "none"
    BY <1>1 DEF ShellInv, ShellShape, Places
  <2> QED
    BY <1>0, <2>1, CommandOver
<1>2. CASE shell' = [shell EXCEPT !.continueRunning = FALSE]
  <2>1. /\ ShellShape(shell)' /\ shell'.at = shell.at /\ shell'.cmd = shell.cmd /\ shell'.queue = shell.queue
        /\ shell'.done = shell.done /\ shell'.refused = shell.refused /\ shell'.failed = shell.failed
        /\ shell'.before = shell.before /\ shell'.text = shell.text
    BY <1>2 DEF ShellInv, ShellShape
  <2>2. UNCHANGED <<localFiles, running, savedList, clip>>
    BY DEF Ftp!Interrupt
  <2>3. Places' /\ Batches'
    BY <2>1, <2>2 DEF ShellInv, Places, Sequence, Batches
  <2>4. Restores' /\ Stops'
    BY <2>1, <2>2 DEF ShellInv, Restores, Stops, Runs
  <2>5. Clips'
    BY <2>1, <2>2 DEF ShellInv, Clips
  <2> QED
    BY <1>0, <2>1, <2>3, <2>4, <2>5 DEF ShellInv
<1> QED
  BY <1>1, <1>2 DEF Ftp!Interrupt, Ftp!Prompt

LEMMA SessionStep ==
    ASSUME ShellInv, Ftp!Session
    PROVE  ShellInv'
<1>1. ShellShape(shell)' /\ shell'.at = "prompt" /\ shell'.cmd = "none"
  BY DEF Ftp!Session, Ftp!Prompting, ShellShape
<1>2. Kept'
  BY DEF Ftp!Session, ShellInv, Kept, DirsShape, Sequence, ProgramShape
<1> QED
  BY <1>1, <1>2, CommandOver

-----------------------------------------------------------------------------
(* Commands of one call, and transfers.                                    *)

LEMMA DirsBecome ==
    ASSUME Kept, DirsShape(dirs'), UNCHANGED <<localFiles, running, savedList>>
    PROVE  Kept'
BY DEF Kept, DirsShape, Sequence, ProgramShape

LEMMA CallOver ==
    ASSUME ShellInv, NEW c, c \notin {"mget", "mput", "runrestore", "killsave", "putclip"}, NEW ok, NEW ds,
           ok => DirsShape(ds), Ftp!OneCall(c, ok, ds)
    PROVE  ShellInv'
<1>1. PICK s : s = Ftp!Begin(c, "finished")
  OBVIOUS
<1>2. BegunAs(s, c, "finished")
  BY <1>1, BeginIs
<1>3. PICK f : shell' = [s EXCEPT !.failed = f]
  BY <1>1 DEF Ftp!OneCall
<1>4. ShellShape(shell)' /\ shell'.at = "finished" /\ shell'.cmd = c
  BY <1>2, <1>3 DEF BegunAs, ShellShape
<1>5. DirsShape(dirs)
  BY DEF ShellInv, Kept
<1>6. DirsShape(dirs')
  BY <1>5 DEF Ftp!OneCall
<1>7. UNCHANGED <<localFiles, running, savedList>>
  BY DEF Ftp!OneCall
<1>8. Kept'
  BY <1>6, <1>7, DirsBecome DEF ShellInv
<1> QED
  BY <1>4, <1>8, CommandOver

LEMMA HereBecomes ==
    ASSUME DirsShape(dirs), NEW S, shell.psionDir \in DOMAIN dirs => IsFiniteSet(S)
    PROVE  DirsShape(Ftp!InHere(S))
<1>1. CASE shell.psionDir \in DOMAIN dirs
  <2>1. PICK h, ds : h = shell.psionDir /\ ds = [dirs EXCEPT ![h] = S]
    OBVIOUS
  <2>2. DOMAIN ds = DOMAIN dirs /\ \A d \in DOMAIN ds : ds[d] = IF d = h THEN S ELSE dirs[d]
    BY <1>1, <2>1 DEF DirsShape
  <2>3. ds = [d \in DOMAIN ds |-> ds[d]]
    BY <2>1 DEF DirsShape
  <2>4. DirsShape(ds)
    BY <1>1, <2>2, <2>3 DEF DirsShape
  <2> QED
    BY <1>1, <2>1, <2>4 DEF Ftp!InHere, Ftp!Here
<1> QED
  BY <1>1 DEF Ftp!InHere, Ftp!Here

LEMMA CallsStep ==
    ASSUME ShellInv,
           \/ Ftp!MakeDir \/ Ftp!RemoveDir
           \/ \E f \in Remote : Ftp!Del(f) \/ \E g \in Remote : Ftp!Ren(f, g) \/ Ftp!Cp(f, g)
    PROVE  ShellInv'
<1>0. DirsShape(dirs)
  BY DEF ShellInv, Kept
<1>1. PICK h : h = shell.psionDir
  OBVIOUS
<1>2. CASE Ftp!MakeDir
  <2> DEFINE ds == [d \in DOMAIN dirs \cup {"other"} |-> IF d = "other" THEN {} ELSE dirs[d]]
  <2>1. IsFiniteSet({})
    BY FS_EmptySet
  <2>2. DirsShape(ds)
    BY <1>0, <2>1 DEF DirsShape
  <2> QED
    BY <1>2, <2>2, CallOver DEF Ftp!MakeDir
<1>3. CASE Ftp!RemoveDir
  <2> DEFINE ds == [d \in DOMAIN dirs \ {"other"} |-> dirs[d]]
  <2>1. DirsShape(ds)
    BY <1>0 DEF DirsShape
  <2> QED
    BY <1>3, <2>1, CallOver DEF Ftp!RemoveDir
<1>4. ASSUME NEW f, Ftp!Del(f) PROVE ShellInv'
  <2>1. h \in DOMAIN dirs => IsFiniteSet(dirs[h] \ {f})
    BY <1>0, FS_RemoveElement DEF DirsShape
  <2>2. DirsShape(Ftp!InHere(dirs[h] \ {f}))
    BY <1>0, <1>1, <2>1, HereBecomes
  <2>3. Ftp!OneCall("del", Ftp!HereHas(f), Ftp!InHere(dirs[h] \ {f}))
    BY <1>1, <1>4 DEF Ftp!Del, Ftp!Here
  <2> QED
    BY <2>2, <2>3, CallOver
<1>5. ASSUME NEW f, NEW g, Ftp!Ren(f, g) PROVE ShellInv'
  <2>1. h \in DOMAIN dirs => IsFiniteSet((dirs[h] \ {f}) \cup {g})
    BY <1>0, FS_RemoveElement, FS_AddElement DEF DirsShape
  <2>2. DirsShape(Ftp!InHere((dirs[h] \ {f}) \cup {g}))
    BY <1>0, <1>1, <2>1, HereBecomes
  <2>3. Ftp!OneCall("ren", Ftp!HereHas(f) /\ ~ Ftp!HereHas(g), Ftp!InHere((dirs[h] \ {f}) \cup {g}))
    BY <1>1, <1>5 DEF Ftp!Ren, Ftp!Here
  <2> QED
    BY <2>2, <2>3, CallOver
<1>6. ASSUME NEW f, NEW g, Ftp!Cp(f, g) PROVE ShellInv'
  <2>1. h \in DOMAIN dirs => IsFiniteSet(dirs[h] \cup {g})
    BY <1>0, FS_AddElement DEF DirsShape
  <2>2. DirsShape(Ftp!InHere(dirs[h] \cup {g}))
    BY <1>0, <1>1, <2>1, HereBecomes
  <2>3. Ftp!OneCall("cp", Ftp!HereHas(f), Ftp!InHere(dirs[h] \cup {g}))
    BY <1>1, <1>6 DEF Ftp!Cp, Ftp!Here
  <2> QED
    BY <2>2, <2>3, CallOver
<1> QED
  BY <1>2, <1>3, <1>4, <1>5, <1>6

(* A command begins that works on a queue of its own.                      *)
QueueBegun(s, c, a, q, b) ==
    /\ ShellShape(s) /\ s.at = a /\ s.cmd = c /\ s.queue = q /\ s.before = b
    /\ s.done = {} /\ s.refused = {} /\ s.failed = FALSE

LEMMA QueueBegins ==
    ASSUME ShellInv, NEW c, NEW a, NEW q, NEW b
    PROVE  QueueBegun([Ftp!Begin(c, a) EXCEPT !.queue = q, !.before = b], c, a, q, b)
<1>1. PICK s : s = Ftp!Begin(c, a)
  OBVIOUS
<1>2. BegunAs(s, c, a)
  BY <1>1, BeginIs
<1>3. ShellShape(s)
  BY <1>2 DEF BegunAs
<1>4. PICK t : t = [s EXCEPT !.queue = q, !.before = b]
  OBVIOUS
<1>5. /\ ShellShape(t) /\ t.at = s.at /\ t.cmd = s.cmd /\ t.queue = q /\ t.before = b /\ t.done = s.done
      /\ t.refused = s.refused /\ t.failed = s.failed
  BY <1>3, <1>4 DEF ShellShape
<1>6. QueueBegun(t, c, a, q, b)
  BY <1>2, <1>5 DEF BegunAs, QueueBegun
<1> QED
  BY <1>1, <1>4, <1>6

LEMMA FailedBegins ==
    ASSUME ShellInv, Kept', NEW c, shell' = [Ftp!Begin(c, "finished") EXCEPT !.failed = TRUE]
    PROVE  ShellInv'
<1>1. PICK s : s = Ftp!Begin(c, "finished")
  OBVIOUS
<1>2. BegunAs(s, c, "finished")
  BY <1>1, BeginIs
<1>3. shell' = [s EXCEPT !.failed = TRUE]
  BY <1>1
<1>4. ShellShape(shell)' /\ shell'.at = "finished" /\ shell'.failed
  BY <1>2, <1>3 DEF BegunAs, ShellShape
<1> QED
  BY <1>4, CommandOver

LEMMA CdStep ==
    ASSUME ShellInv, NEW d, Ftp!Cd(d)
    PROVE  ShellInv'
<1>1. Kept'
  BY DEF Ftp!Cd, ShellInv, Kept, DirsShape, Sequence, ProgramShape
<1>2. PICK s : s = Ftp!Begin("cd", "finished")
  OBVIOUS
<1>3. BegunAs(s, "cd", "finished")
  BY <1>2, BeginIs
<1>4. shell' = [s EXCEPT !.psionDir = d] \/ shell' = [s EXCEPT !.failed = TRUE]
  BY <1>2 DEF Ftp!Cd
<1>5. ShellShape(shell)' /\ shell'.at = "finished" /\ shell'.cmd = "cd"
  BY <1>3, <1>4 DEF BegunAs, ShellShape
<1> QED
  BY <1>1, <1>5, CommandOver

LEMMA PromptStep ==
    ASSUME ShellInv, Ftp!TogglePrompt
    PROVE  ShellInv'
<1>1. Kept'
  BY DEF Ftp!TogglePrompt, ShellInv, Kept, DirsShape, Sequence, ProgramShape
<1>2. PICK s : s = Ftp!Begin("prompt", "finished")
  OBVIOUS
<1>3. BegunAs(s, "prompt", "finished")
  BY <1>2, BeginIs
<1>4. shell' = [s EXCEPT !.prompt = ~ s.prompt]
  BY <1>2 DEF Ftp!TogglePrompt
<1>5. ShellShape(shell)' /\ shell'.at = "finished" /\ shell'.cmd = "prompt"
  BY <1>3, <1>4 DEF BegunAs, ShellShape
<1> QED
  BY <1>1, <1>5, CommandOver

(* A batch of a set of files begins.                                       *)
LEMMA BatchBegins ==
    ASSUME ShellInv, Kept', NEW c, c \in {"get", "put", "mget", "mput"}, NEW q, Sequence(q), NEW b,
           c \in {"mget", "mput"} => b = Ftp!ToSet(q),
           shell' = [Ftp!Begin(c, "batch") EXCEPT !.queue = q, !.before = b]
    PROVE  ShellInv'
<1>1. PICK s : s = [Ftp!Begin(c, "batch") EXCEPT !.queue = q, !.before = b]
  OBVIOUS
<1>2. QueueBegun(s, c, "batch", q, b)
  BY <1>1, QueueBegins
<1>3. /\ ShellShape(shell)' /\ shell'.at = "batch" /\ shell'.cmd = c /\ shell'.queue = q /\ shell'.before = b
      /\ shell'.done = {} /\ shell'.refused = {} /\ shell'.failed = FALSE
  BY <1>1, <1>2 DEF QueueBegun
<1>4. Places' /\ Batches'
  BY <1>3 DEF Places, Batches, Sequence
<1>5. Restores' /\ Stops' /\ Clips'
  BY <1>3 DEF Restores, Stops, Clips
<1> QED
  BY <1>3, <1>4, <1>5 DEF ShellInv

LEMMA BatchesBegin ==
    ASSUME ShellInv, \/ \E f : Ftp!BeginGet(f) \/ Ftp!BeginPut(f)
                     \/ Ftp!BeginMget \/ Ftp!BeginMput
    PROVE  ShellInv'
<1>1. Kept'
  BY DEF Ftp!BeginGet, Ftp!BeginPut, Ftp!BeginMget, Ftp!BeginMput, ShellInv, Kept, DirsShape, Sequence, ProgramShape
<1>2. ASSUME NEW f, Ftp!BeginGet(f) \/ Ftp!BeginPut(f) PROVE ShellInv'
  <2>1. PICK q, b : q = <<f>> /\ b = {}
    OBVIOUS
  <2>2. PICK c \in {"get", "put"} : shell' = [Ftp!Begin(c, "batch") EXCEPT !.queue = q]
    BY <1>2, <2>1 DEF Ftp!BeginGet, Ftp!BeginPut
  <2>3. PICK s : s = Ftp!Begin(c, "batch")
    OBVIOUS
  <2>4. BegunAs(s, c, "batch")
    BY <2>3, BeginIs
  <2>5. shell' = [s EXCEPT !.queue = q]
    BY <2>2, <2>3
  <2>6. shell' = [s EXCEPT !.queue = q, !.before = b]
    BY <2>1, <2>4, <2>5 DEF BegunAs, ShellShape
  <2>7. Sequence(q)
    BY <2>1 DEF Sequence, Ftp!ToSet
  <2> QED
    BY <1>1, <2>3, <2>6, <2>7, BatchBegins
<1>3. ASSUME NEW c \in {"mget", "mput"}, NEW S, IsFiniteSet(S),
             shell' = [Ftp!Begin(c, "batch") EXCEPT !.queue = Ftp!SetToSeq(S), !.before = S]
      PROVE  ShellInv'
  <2>1. PICK q : q = Ftp!SetToSeq(S)
    OBVIOUS
  <2>2. Sequence(q) /\ Ftp!ToSet(q) = S
    BY <1>3, <2>1, SetToSeqIs
  <2> QED
    BY <1>1, <1>3, <2>1, <2>2, BatchBegins
<1>4. CASE Ftp!BeginMget
  <2>1. CASE shell' = [Ftp!Begin("mget", "finished") EXCEPT !.failed = TRUE]
    BY <1>1, <2>1, FailedBegins
  <2>2. CASE /\ Ftp!Here \in DOMAIN dirs
             /\ \E S \in SUBSET dirs[Ftp!Here] :
                  shell' = [Ftp!Begin("mget", "batch") EXCEPT !.queue = Ftp!SetToSeq(S), !.before = S]
    <3>1. PICK S \in SUBSET dirs[Ftp!Here] :
            shell' = [Ftp!Begin("mget", "batch") EXCEPT !.queue = Ftp!SetToSeq(S), !.before = S]
      BY <2>2
    <3>2. IsFiniteSet(dirs[Ftp!Here])
      BY <2>2 DEF ShellInv, Kept, DirsShape
    <3>3. IsFiniteSet(S)
      BY <3>2, FS_Subset
    <3> QED
      BY <1>3, <3>1, <3>3
  <2> QED
    BY <1>4, <2>1, <2>2 DEF Ftp!BeginMget
<1>5. CASE Ftp!BeginMput
  <2>1. PICK S \in SUBSET localFiles :
          shell' = [Ftp!Begin("mput", "batch") EXCEPT !.queue = Ftp!SetToSeq(S), !.before = S]
    BY <1>5 DEF Ftp!BeginMput
  <2>2. IsFiniteSet(S)
    BY FS_Subset DEF ShellInv, Kept
  <2> QED
    BY <1>3, <2>1, <2>2
<1> QED
  BY <1>2, <1>4, <1>5

(* One file of a batch is copied, or refused.                              *)
LEMMA BatchGoesOn ==
    ASSUME ShellInv, shell.at = "batch", shell.queue # <<>>, Kept', ShellShape(shell)',
           shell'.at = "batch", shell'.cmd = shell.cmd, shell'.queue = Tail(shell.queue),
           shell'.failed = shell.failed, shell'.before = shell.before,
           shell.done \cup shell.refused \cup {shell.queue[1]} \subseteq shell'.done \cup shell'.refused,
           shell.cmd = "mget" /\ shell.done \subseteq localFiles => shell'.done \subseteq localFiles'
    PROVE  ShellInv'
<1>0. PICK q, r, f : q = shell.queue /\ r = Tail(q) /\ f = q[1]
  OBVIOUS
<1>1. Sequence(q) /\ q # <<>> /\ shell.cmd \in {"get", "put", "mget", "mput"}
  BY <1>0 DEF ShellInv, Places
<1>2. Sequence(r) /\ Ftp!ToSet(q) = {f} \cup Ftp!ToSet(r)
  BY <1>0, <1>1, TailIs
<1>3. shell'.queue = r
  BY <1>0
<1>4. Places'
  BY <1>1, <1>2, <1>3 DEF Places, Sequence
<1>5. ASSUME shell.cmd \in {"mget", "mput"}, ~ shell.failed PROVE Batches'
  <2>1. PICK b, d : b = shell.before /\ d = shell.done \cup shell.refused
    OBVIOUS
  <2>2. b \subseteq d \cup Ftp!ToSet(q)
    BY <1>0, <1>5, <2>1 DEF ShellInv, Batches
  <2>3. d \cup {f} \subseteq shell'.done \cup shell'.refused
    BY <1>0, <2>1
  <2>4. b \subseteq shell'.done \cup shell'.refused \cup Ftp!ToSet(r)
    BY <1>2, <2>2, <2>3
  <2>5. shell.cmd = "mget" => shell.done \subseteq localFiles
    BY <1>5 DEF ShellInv, Batches
  <2>6. shell'.before \subseteq shell'.done \cup shell'.refused \cup Ftp!ToSet(shell'.queue)
    BY <1>3, <2>1, <2>4
  <2> QED
    BY <2>5, <2>6 DEF Batches
<1>6. ASSUME shell.cmd \notin {"mget", "mput"} \/ shell.failed PROVE Batches'
  BY <1>6 DEF Batches
<1>7. Restores' /\ Stops' /\ Clips'
  BY <1>1 DEF Restores, Stops, Clips
<1> QED
  BY <1>4, <1>5, <1>6, <1>7 DEF ShellInv

LEMMA RefuseStep ==
    ASSUME ShellInv, Ftp!Refuse
    PROVE  ShellInv'
<1>1. shell.at = "batch" /\ shell.queue # <<>> /\ UNCHANGED <<dirs, localFiles, running, savedList>>
  BY DEF Ftp!Refuse, Ftp!Batch
<1>2. Kept'
  BY <1>1 DEF ShellInv, Kept, DirsShape, Sequence, ProgramShape
<1>3. PICK r, n : r = Tail(shell.queue) /\ n = shell.refused \cup {shell.queue[1]}
  OBVIOUS
<1>4. shell' = [shell EXCEPT !.queue = r, !.refused = n]
  BY <1>3 DEF Ftp!Refuse
<1>5. ShellShape(shell)
  BY DEF ShellInv
<1>6. /\ ShellShape(shell)' /\ shell'.at = shell.at /\ shell'.cmd = shell.cmd /\ shell'.queue = r
      /\ shell'.failed = shell.failed /\ shell'.before = shell.before /\ shell'.done = shell.done
      /\ shell'.refused = n
  BY <1>4, <1>5 DEF ShellShape
<1>7. shell.done \cup shell.refused \cup {shell.queue[1]} \subseteq shell'.done \cup shell'.refused
  BY <1>3, <1>6
<1>8. shell.cmd = "mget" /\ shell.done \subseteq localFiles => shell'.done \subseteq localFiles'
  BY <1>1, <1>6
<1> QED
  BY <1>1, <1>2, <1>3, <1>6, <1>7, <1>8, BatchGoesOn

LEMMA TransferStep ==
    ASSUME ShellInv, Ftp!Transfer
    PROVE  ShellInv'
<1>0. PICK f, r, n : f = shell.queue[1] /\ r = Tail(shell.queue) /\ n = shell.done \cup {f}
  OBVIOUS
<1>1. shell.at = "batch" /\ shell.queue # <<>> /\ UNCHANGED <<running, savedList>>
  BY DEF Ftp!Transfer, Ftp!Batch
<1>2. shell' = [shell EXCEPT !.queue = r, !.done = n]
  BY <1>0 DEF Ftp!Transfer, Ftp!CopyDone
<1>3. ShellShape(shell) /\ Kept
  BY DEF ShellInv
<1>4. /\ ShellShape(shell)' /\ shell'.at = shell.at /\ shell'.cmd = shell.cmd /\ shell'.queue = r
      /\ shell'.failed = shell.failed /\ shell'.before = shell.before /\ shell'.done = n
      /\ shell'.refused = shell.refused
  BY <1>2, <1>3 DEF ShellShape
<1>5. shell.done \cup shell.refused \cup {shell.queue[1]} \subseteq shell'.done \cup shell'.refused
  BY <1>0, <1>4
<1>6. CASE shell.cmd \in {"get", "mget"}
  <2>1. localFiles' = localFiles \cup {f} /\ UNCHANGED dirs
    BY <1>0, <1>6 DEF Ftp!Transfer
  <2>2. IsFiniteSet(localFiles')
    BY <1>3, <2>1, FS_AddElement DEF Kept
  <2>3. Kept'
    BY <1>1, <1>3, <2>1, <2>2 DEF Kept, DirsShape, Sequence, ProgramShape
  <2>4. shell.cmd = "mget" /\ shell.done \subseteq localFiles => shell'.done \subseteq localFiles'
    BY <1>0, <1>4, <2>1
  <2> QED
    BY <1>0, <1>1, <1>4, <1>5, <2>3, <2>4, BatchGoesOn
<1>7. CASE shell.cmd \notin {"get", "mget"}
  <2>1. PICK h : h = shell.psionDir
    OBVIOUS
  <2>2. h \in DOMAIN dirs /\ dirs' = [dirs EXCEPT ![h] = @ \cup {f}] /\ UNCHANGED localFiles
    BY <1>0, <1>7, <2>1 DEF Ftp!Transfer, Ftp!Here
  <2>3. IsFiniteSet(dirs[h] \cup {f})
    BY <1>3, <2>2, FS_AddElement DEF Kept, DirsShape
  <2>4. DirsShape(Ftp!InHere(dirs[h] \cup {f}))
    BY <1>3, <2>3, HereBecomes DEF Kept
  <2>5. Ftp!InHere(dirs[h] \cup {f}) = dirs'
    BY <2>1, <2>2 DEF Ftp!InHere, Ftp!Here
  <2>6. DirsShape(dirs')
    BY <2>4, <2>5
  <2>7. Kept'
    BY <1>1, <1>3, <2>2, <2>6, DirsBecome
  <2>8. shell.cmd = "mget" /\ shell.done \subseteq localFiles => shell'.done \subseteq localFiles'
    BY <1>7
  <2> QED
    BY <1>0, <1>1, <1>4, <1>5, <2>7, <2>8, BatchGoesOn
<1> QED
  BY <1>6, <1>7

LEMMA TransferFailsStep ==
    ASSUME ShellInv, Ftp!TransferFails
    PROVE  ShellInv'
<1>1. UNCHANGED <<dirs, localFiles, running, savedList>>
  BY DEF Ftp!TransferFails
<1>2. Kept'
  BY <1>1 DEF ShellInv, Kept, DirsShape, Sequence, ProgramShape
<1>3. shell' = [shell EXCEPT !.continueRunning = TRUE, !.failed = TRUE, !.at = "finished"]
  BY DEF Ftp!TransferFails
<1>4. ShellShape(shell)
  BY DEF ShellInv
<1>5. ShellShape(shell)' /\ shell'.at = "finished" /\ shell'.failed
  BY <1>3, <1>4 DEF ShellShape
<1> QED
  BY <1>2, <1>5, CommandOver

(* A command that had nothing left to do is over.                          *)
LEMMA FinishedAfter ==
    ASSUME ShellInv, shell.at \in {"batch", "starting", "stopping"},
           shell.queue = <<>>, shell' = [shell EXCEPT !.at = "finished"],
           UNCHANGED <<dirs, localFiles, running, savedList, clip>>
    PROVE  ShellInv'
<1>1. Kept'
  BY DEF ShellInv, Kept, DirsShape, Sequence, ProgramShape
<1>2. ShellShape(shell)
  BY DEF ShellInv
<1>3. /\ ShellShape(shell)' /\ shell'.at = "finished" /\ shell'.cmd = shell.cmd /\ shell'.queue = <<>>
      /\ shell'.failed = shell.failed /\ shell'.before = shell.before /\ shell'.done = shell.done
      /\ shell'.refused = shell.refused
  BY <1>2 DEF ShellShape
<1>4. shell.cmd \in {"get", "put", "mget", "mput"} \/ shell.at # "batch"
  BY DEF ShellInv, Places
<1>5. Places'
  BY <1>3 DEF Places
<1>6. CASE shell.at = "batch"
  <2>1. shell.cmd \in {"get", "put", "mget", "mput"}
    BY <1>4, <1>6
  <2>2. Batches'
    BY <1>3, <1>6 DEF ShellInv, Batches
  <2>3. Restores' /\ Stops' /\ Clips'
    BY <1>3, <2>1 DEF Restores, Stops, Clips
  <2> QED
    BY <1>1, <1>3, <1>5, <2>2, <2>3 DEF ShellInv
<1>7. CASE shell.at = "stopping"
  <2>1. shell.cmd = "killsave"
    BY <1>7 DEF ShellInv, Places
  <2>2. Batches' /\ Restores' /\ Clips'
    BY <1>3, <2>1 DEF Batches, Restores, Clips
  <2>3. Stops'
    BY <1>3, <1>7 DEF ShellInv, Stops
  <2> QED
    BY <1>1, <1>3, <1>5, <2>2, <2>3 DEF ShellInv
<1>8. CASE shell.at = "starting"
  <2>1. shell.cmd = "runrestore"
    BY <1>8 DEF ShellInv, Places
  <2>2. Batches' /\ Stops' /\ Clips'
    BY <1>3, <2>1 DEF Batches, Stops, Clips
  <2>3. Restores'
    BY <1>3, <1>8 DEF ShellInv, Restores, Runs
  <2> QED
    BY <1>1, <1>3, <1>5, <2>2, <2>3 DEF ShellInv
<1> QED
  BY <1>6, <1>7, <1>8

LEMMA FinishSteps ==
    ASSUME ShellInv, Ftp!BatchEnds \/ Ftp!AllStopped \/ Ftp!AllStarted
    PROVE  ShellInv'
BY FinishedAfter DEF Ftp!BatchEnds, Ftp!AllStopped, Ftp!AllStarted

-----------------------------------------------------------------------------
(* killsave, runrestore, and programs that start and stop.                 *)

LEMMA RunningBecomes ==
    ASSUME Kept, Sequence(savedList'), IsFiniteSet(running'), UNCHANGED <<dirs, localFiles>>,
           \A p \in running' \cup Ftp!ToSet(savedList') : ProgramShape(p)
    PROVE  Kept'
BY DEF Kept, DirsShape, Sequence, ProgramShape

LEMMA KillSaveStep ==
    ASSUME ShellInv, Ftp!KillSave
    PROVE  ShellInv'
<1>0. Kept
  BY DEF ShellInv
<1>1. UNCHANGED <<dirs, localFiles, running, clip>>
  BY DEF Ftp!KillSave
<1>2. CASE /\ savedList' = Ftp!SetToSeq(running)
           /\ shell' = [Ftp!Begin("killsave", "stopping") EXCEPT !.queue = Ftp!SetToSeq(running), !.before = running]
  <2>1. PICK R, q : R = running /\ q = Ftp!SetToSeq(R)
    OBVIOUS
  <2>2. IsFiniteSet(R)
    BY <1>0, <2>1 DEF Kept
  <2>3. Sequence(q) /\ Ftp!ToSet(q) = R
    BY <2>1, <2>2, SetToSeqIs
  <2>4. savedList' = q
    BY <1>2, <2>1
  <2>5. Sequence(savedList') /\ Ftp!ToSet(savedList') = R
    BY <2>3, <2>4
  <2>6. Kept'
    BY <1>0, <1>1, <2>1, <2>2, <2>5, RunningBecomes DEF Kept
  <2>7. PICK s : s = [Ftp!Begin("killsave", "stopping") EXCEPT !.queue = q, !.before = R]
    OBVIOUS
  <2>8. QueueBegun(s, "killsave", "stopping", q, R)
    BY <2>7, QueueBegins
  <2>9. shell' = s
    BY <1>2, <2>1, <2>7
  <2>10. ShellShape(shell)' /\ shell'.at = "stopping" /\ shell'.cmd = "killsave" /\ shell'.before = R
    BY <2>8, <2>9 DEF QueueBegun
  <2>11. Places' /\ Batches' /\ Restores' /\ Clips'
    BY <2>10 DEF Places, Batches, Restores, Clips
  <2>12. Stops'
    BY <2>5, <2>10 DEF Stops
  <2> QED
    BY <2>6, <2>10, <2>11, <2>12 DEF ShellInv
<1>3. CASE savedList' = <<>> /\ shell' = [Ftp!Begin("killsave", "finished") EXCEPT !.failed = TRUE]
  <2>1. Sequence(savedList') /\ Ftp!ToSet(savedList') = {}
    BY <1>3, NoSequence
  <2>2. Kept'
    BY <1>0, <1>1, <2>1, RunningBecomes DEF Kept
  <2> QED
    BY <1>3, <2>2, FailedBegins
<1> QED
  BY <1>2, <1>3 DEF Ftp!KillSave

LEMMA StopProgramsStep ==
    ASSUME ShellInv, Ftp!StopPrograms
    PROVE  ShellInv'
<1>0. Kept /\ ShellShape(shell)
  BY DEF ShellInv
<1>1. shell.at = "stopping" /\ UNCHANGED <<dirs, localFiles, savedList>>
  BY DEF Ftp!StopPrograms
<1>2. running' \subseteq running
  BY DEF Ftp!StopPrograms
<1>3. IsFiniteSet(running')
  BY <1>0, <1>2, FS_Subset DEF Kept
<1>4. Kept'
  BY <1>0, <1>1, <1>2, <1>3, RunningBecomes DEF Kept
<1>5. shell.cmd = "killsave"
  BY <1>1 DEF ShellInv, Places
<1>6. CASE shell' = [shell EXCEPT !.at = "finished", !.failed = TRUE]
  <2>1. ShellShape(shell)' /\ shell'.at = "finished" /\ shell'.failed
    BY <1>0, <1>6 DEF ShellShape
  <2> QED
    BY <1>4, <2>1, CommandOver
<1>7. CASE shell' = [shell EXCEPT !.queue = Ftp!SetToSeq(running')]
  <2>1. PICK q : q = Ftp!SetToSeq(running')
    OBVIOUS
  <2>2. shell' = [shell EXCEPT !.queue = q]
    BY <1>7, <2>1
  <2>3. /\ ShellShape(shell)' /\ shell'.at = "stopping" /\ shell'.cmd = "killsave"
        /\ shell'.failed = shell.failed /\ shell'.before = shell.before
    BY <1>0, <1>1, <1>5, <2>2 DEF ShellShape
  <2>4. Places' /\ Batches' /\ Restores' /\ Clips'
    BY <2>3 DEF Places, Batches, Restores, Clips
  <2>5. Stops'
    BY <1>1, <1>5, <2>3 DEF ShellInv, Stops
  <2> QED
    BY <1>4, <2>3, <2>4, <2>5 DEF ShellInv
<1> QED
  BY <1>6, <1>7 DEF Ftp!StopPrograms

LEMMA RunRestoreStep ==
    ASSUME ShellInv, Ftp!RunRestore
    PROVE  ShellInv'
<1>1. UNCHANGED <<dirs, localFiles, running, savedList>>
  BY DEF Ftp!RunRestore
<1>2. Kept'
  BY <1>1 DEF ShellInv, Kept, DirsShape, Sequence, ProgramShape
<1>3. PICK s : s = Ftp!Begin("runrestore", "starting")
  OBVIOUS
<1>4. BegunAs(s, "runrestore", "starting")
  BY <1>3, BeginIs
<1>5. shell' = [s EXCEPT !.queue = savedList]
  BY <1>3 DEF Ftp!RunRestore
<1>6. ShellShape(shell)' /\ shell'.at = "starting" /\ shell'.cmd = "runrestore" /\ shell'.queue = savedList
  BY <1>4, <1>5 DEF BegunAs, ShellShape
<1>7. Sequence(savedList)
  BY DEF ShellInv, Kept
<1>8. Places'
  BY <1>6, <1>7 DEF Places, Sequence
<1>9. Batches' /\ Stops' /\ Clips'
  BY <1>6 DEF Batches, Stops, Clips
<1>10. Restores'
  BY <1>1, <1>6 DEF Restores
<1> QED
  BY <1>2, <1>6, <1>8, <1>9, <1>10 DEF ShellInv

LEMMA StartedIs ==
    ASSUME NEW p, ProgramShape(p)
    PROVE  /\ \A x \in Ftp!Started(p) : /\ ProgramShape(x) /\ x.prog = p.prog
                                        /\ p.arg = "document" => x.arg = "document"
           /\ IsFiniteSet(Ftp!Started(p))
<1>1. PICK e : e = [p EXCEPT !.arg = ""]
  OBVIOUS
<1>2. ProgramShape(e) /\ e.prog = p.prog
  BY <1>1 DEF ProgramShape
<1>3. Ftp!Started(p) = {p} \/ (Ftp!Started(p) = {e} /\ p.arg # "document") \/ Ftp!Started(p) = {}
  BY <1>1 DEF Ftp!Started
<1>4. IsFiniteSet({p}) /\ IsFiniteSet({e}) /\ IsFiniteSet({})
  BY FS_Singleton, FS_EmptySet
<1> QED
  BY <1>2, <1>3, <1>4

LEMMA StartProgramsStep ==
    ASSUME ShellInv, Ftp!StartPrograms
    PROVE  ShellInv'
<1>0. Kept /\ ShellShape(shell)
  BY DEF ShellInv
<1>1. PICK q, p, r : q = shell.queue /\ p = q[1] /\ r = Tail(q)
  OBVIOUS
<1>2. /\ shell.at = "starting" /\ q # <<>> /\ UNCHANGED <<dirs, localFiles, savedList>>
  BY <1>1 DEF Ftp!StartPrograms
<1>3. Sequence(q) /\ shell.cmd = "runrestore" /\ Ftp!ToSet(q) \subseteq Ftp!ToSet(savedList)
  BY <1>1, <1>2 DEF ShellInv, Places, Restores
<1>4. Sequence(r) /\ p \in Ftp!ToSet(q) /\ Ftp!ToSet(q) = {p} \cup Ftp!ToSet(r)
  BY <1>1, <1>2, <1>3, TailIs
<1>5. ProgramShape(p)
  BY <1>0, <1>3, <1>4 DEF Kept
<1>6. PICK S : S = Ftp!Started(p)
  OBVIOUS
<1>7. /\ \A x \in S : ProgramShape(x) /\ x.prog = p.prog /\ (p.arg = "document" => x.arg = "document")
      /\ IsFiniteSet(S)
  BY <1>5, <1>6, StartedIs
<1>8. \/ running' = running \cup S /\ shell' = [shell EXCEPT !.queue = r, !.failed = @ \/ S = {}]
      \/ running' = running /\ shell' = [shell EXCEPT !.queue = r, !.failed = TRUE]
  BY <1>1, <1>6 DEF Ftp!StartPrograms
<1>9. running \subseteq running' /\ IsFiniteSet(running') /\ \A x \in running' : ProgramShape(x)
  <2>1. IsFiniteSet(running \cup S)
    BY <1>0, <1>7, FS_Union DEF Kept
  <2> QED
    BY <1>0, <1>7, <1>8, <2>1 DEF Kept
<1>10. Kept'
  BY <1>0, <1>2, <1>9, RunningBecomes DEF Kept
<1>11. PICK b : \/ running' = running \cup S /\ shell' = [shell EXCEPT !.queue = r, !.failed = b]
                   /\ (b = (shell.failed \/ S = {}))
                \/ shell' = [shell EXCEPT !.queue = r, !.failed = b] /\ b = TRUE
  BY <1>8
<1>12. /\ ShellShape(shell)' /\ shell'.at = "starting" /\ shell'.cmd = "runrestore" /\ shell'.queue = r
       /\ shell'.failed = b
  BY <1>0, <1>2, <1>3, <1>11 DEF ShellShape
<1>13. Places'
  BY <1>4, <1>12 DEF Places, Sequence
<1>14. Batches' /\ Stops' /\ Clips'
  BY <1>12 DEF Batches, Stops, Clips
<1>15. Ftp!ToSet(shell'.queue) \subseteq Ftp!ToSet(savedList')
  BY <1>2, <1>3, <1>4, <1>12
<1>16. ASSUME ~ shell'.failed, NEW x \in Ftp!ToSet(savedList')
       PROVE  Runs(x)' \/ x \in Ftp!ToSet(shell'.queue)
  <2>1. running' = running \cup S /\ S # {} /\ ~ shell.failed
    BY <1>11, <1>12, <1>16
  <2>2. x \in Ftp!ToSet(savedList)
    BY <1>2
  <2>3. Runs(x) \/ x \in Ftp!ToSet(q)
    BY <1>1, <1>2, <1>3, <2>1, <2>2 DEF ShellInv, Restores
  <2>4. CASE Runs(x)
    BY <1>9, <2>4 DEF Runs
  <2>5. CASE x = p
    <3>1. PICK y \in S : TRUE
      BY <2>1
    <3>2. y \in running' /\ y.prog = p.prog /\ (p.arg = "document" => y.arg = "document")
      BY <1>7, <2>1, <3>1
    <3> QED
      BY <2>5, <3>2 DEF Runs
  <2>6. CASE x \in Ftp!ToSet(r)
    BY <1>12, <2>6
  <2> QED
    BY <1>4, <2>3, <2>4, <2>5, <2>6
<1>17. Restores'
  BY <1>12, <1>15, <1>16 DEF Restores
<1> QED
  BY <1>10, <1>12, <1>13, <1>14, <1>17 DEF ShellInv

LEMMA KillStep ==
    ASSUME ShellInv, Ftp!Kill
    PROVE  ShellInv'
<1>0. Kept
  BY DEF ShellInv
<1>1. running' \subseteq running /\ UNCHANGED <<dirs, localFiles, savedList>>
  BY DEF Ftp!Kill
<1>2. IsFiniteSet(running')
  BY <1>0, <1>1, FS_Subset DEF Kept
<1>3. Kept'
  BY <1>0, <1>1, <1>2, RunningBecomes DEF Kept
<1>4. BegunAs(Ftp!Begin("kill", "finished"), "kill", "finished")
  BY BeginIs
<1>5. shell' = Ftp!Begin("kill", "finished")
  BY DEF Ftp!Kill
<1>6. ShellShape(shell)' /\ shell'.at = "finished" /\ shell'.cmd = "kill"
  BY <1>4, <1>5 DEF BegunAs
<1> QED
  BY <1>3, <1>6, CommandOver

LEMMA StartByHandStep ==
    ASSUME ShellInv, Ftp!StartByHand
    PROVE  ShellInv'
<1>0. Kept
  BY DEF ShellInv
<1>1. PICK p \in Programs : running' = running \cup {p}
  BY DEF Ftp!StartByHand
<1>2. UNCHANGED <<shell, dirs, localFiles, savedList, clip>>
  BY DEF Ftp!StartByHand
<1>3. IsFiniteSet(running') /\ running \subseteq running' /\ ProgramShape(p)
  BY <1>0, <1>1, FS_AddElement, FtpAssumption DEF Kept, ProgramShape
<1>4. Kept'
  BY <1>0, <1>1, <1>2, <1>3, RunningBecomes DEF Kept
<1>5. ShellShape(shell)' /\ Places' /\ Batches' /\ Stops'
  BY <1>2 DEF ShellInv, ShellShape, Places, Sequence, Batches, Stops
<1>6. Clips'
  BY <1>2 DEF ShellInv, Clips
<1>7. \A x : Runs(x) => Runs(x)'
  BY <1>3 DEF Runs
<1>8. Restores'
  BY <1>2, <1>7 DEF ShellInv, Restores
<1> QED
  BY <1>4, <1>5, <1>6, <1>8 DEF ShellInv

-----------------------------------------------------------------------------
(* The clipboard.                                                          *)

LEMMA RoundTrip ==
    ASSUME NEW t \in Texts, NEW m, m = Ftp!Mapped(t, Ftp!ToPsion), NEW i \in DOMAIN t,
           t[i] \notin Ftp!PsionCodes \cup {"nul"}
    PROVE  Ftp!Mapped(m, Ftp!FromPsion)[i] = t[i]
<1>1. PICK c : c = t[i]
  OBVIOUS
<1>2. c \notin {"nul", "6", "7", "8", "10", "11", "12", "15", "16"}
  BY <1>1 DEF Ftp!PsionCodes
<1>3. Ftp!FromPsion(Ftp!ToPsion(c)) = c
  BY <1>2 DEF Ftp!FromPsion, Ftp!ToPsion
<1>4. DOMAIN m = DOMAIN t /\ m[i] = Ftp!ToPsion(c)
  BY <1>1 DEF Ftp!Mapped
<1>5. Ftp!Mapped(m, Ftp!FromPsion)[i] = Ftp!FromPsion(m[i])
  BY <1>4 DEF Ftp!Mapped
<1> QED
  BY <1>1, <1>3, <1>4, <1>5

LEMMA PutClipStep ==
    ASSUME ShellInv, Ftp!PutClip
    PROVE  ShellInv'
<1>1. UNCHANGED <<dirs, localFiles, running, savedList>>
  BY DEF Ftp!PutClip
<1>2. Kept'
  BY <1>1 DEF ShellInv, Kept, DirsShape, Sequence, ProgramShape
<1>3. PICK s : s = Ftp!Begin("putclip", "finished")
  OBVIOUS
<1>4. BegunAs(s, "putclip", "finished")
  BY <1>3, BeginIs
<1>5. ShellShape(s)
  BY <1>4 DEF BegunAs
<1>6. PICK t \in Texts :
        \/ clip' = [text |-> Ftp!Mapped(t, Ftp!ToPsion), archive |-> TRUE] /\ shell' = [s EXCEPT !.text = t]
        \/ shell' = [s EXCEPT !.text = t, !.failed = TRUE]
  BY <1>3 DEF Ftp!PutClip
<1>7. CASE shell' = [s EXCEPT !.text = t, !.failed = TRUE]
  <2>1. ShellShape(shell)' /\ shell'.at = s.at /\ shell'.failed
    BY <1>5, <1>7 DEF ShellShape
  <2> QED
    BY <1>2, <1>4, <2>1, CommandOver DEF BegunAs
<1>8. CASE clip' = [text |-> Ftp!Mapped(t, Ftp!ToPsion), archive |-> TRUE] /\ shell' = [s EXCEPT !.text = t]
  <2>1. PICK m : m = Ftp!Mapped(t, Ftp!ToPsion)
    OBVIOUS
  <2>2. clip'.text = m
    BY <1>8, <2>1
  <2>3. ShellShape(shell)' /\ shell'.at = s.at /\ shell'.cmd = s.cmd /\ shell'.text = t
    BY <1>5, <1>8 DEF ShellShape
  <2>4. \A i \in DOMAIN t : t[i] \notin Ftp!PsionCodes \cup {"nul"} => Ftp!Mapped(m, Ftp!FromPsion)[i] = t[i]
    BY <2>1, RoundTrip
  <2>5. \A i \in DOMAIN shell'.text :
          shell'.text[i] \notin Ftp!PsionCodes \cup {"nul"} =>
            Ftp!Mapped(clip'.text, Ftp!FromPsion)[i] = shell'.text[i]
    BY <2>2, <2>3, <2>4
  <2>6. Clips'
    BY <2>5 DEF Clips
  <2>7. shell'.at = "finished" /\ shell'.cmd = "putclip"
    BY <1>4, <2>3 DEF BegunAs
  <2>8. Places' /\ Batches' /\ Restores' /\ Stops'
    BY <2>7 DEF Places, Batches, Restores, Stops
  <2> QED
    BY <1>2, <2>3, <2>6, <2>8 DEF ShellInv
<1> QED
  BY <1>6, <1>7, <1>8

LEMMA GetClipStep ==
    ASSUME ShellInv, Ftp!GetClip
    PROVE  ShellInv'
<1>1. UNCHANGED <<dirs, localFiles, running, savedList>>
  BY DEF Ftp!GetClip
<1>2. Kept'
  BY <1>1 DEF ShellInv, Kept, DirsShape, Sequence, ProgramShape
<1>3. PICK s : s = Ftp!Begin("getclip", "finished")
  OBVIOUS
<1>4. BegunAs(s, "getclip", "finished")
  BY <1>3, BeginIs
<1>5. ShellShape(s)
  BY <1>4 DEF BegunAs
<1>6. PICK t : shell' = [s EXCEPT !.text = t] \/ shell' = [s EXCEPT !.failed = TRUE]
  BY <1>3 DEF Ftp!GetClip
<1>7. ShellShape(shell)' /\ shell'.at = s.at /\ shell'.cmd = s.cmd
  BY <1>5, <1>6 DEF ShellShape
<1>8. shell'.at = "finished" /\ shell'.cmd = "getclip"
  BY <1>4, <1>7 DEF BegunAs
<1> QED
  BY <1>2, <1>7, <1>8, CommandOver

-----------------------------------------------------------------------------

LEMMA ShellInvInit == Init => ShellInv
<1> SUFFICES ASSUME Init PROVE ShellInv
  OBVIOUS
<1>1. Ftp!FtpInit
  BY DEF Init
<1>2. ShellShape(shell) /\ shell.at = "prompt" /\ shell.cmd = "none"
  BY <1>1 DEF Ftp!FtpInit, Ftp!Prompting, ShellShape
<1>3. DirsShape(dirs)
  <2>1. PICK r \in SUBSET Remote : dirs = [d \in {"home", "other"} |-> IF d = "home" THEN r ELSE {}]
    BY <1>1 DEF Ftp!FtpInit
  <2>2. IsFiniteSet(r) /\ IsFiniteSet({})
    BY FS_Subset, FS_EmptySet, FtpAssumption
  <2> QED
    BY <2>1, <2>2 DEF DirsShape
<1>4. IsFiniteSet(localFiles) /\ IsFiniteSet(running)
  <2>1. localFiles \subseteq Local /\ running \subseteq Programs
    BY <1>1 DEF Ftp!FtpInit
  <2> QED
    BY <2>1, FS_Subset, FtpAssumption
<1>5. Sequence(savedList) /\ Ftp!ToSet(savedList) = {}
  BY <1>1, NoSequence DEF Ftp!FtpInit
<1>6. \A p \in running : ProgramShape(p)
  BY <1>1, FtpAssumption DEF Ftp!FtpInit, ProgramShape
<1>7. Kept
  BY <1>3, <1>4, <1>5, <1>6 DEF Kept
<1>8. Places /\ Batches /\ Restores /\ Stops /\ Clips
  BY <1>2 DEF Places, Batches, Restores, Stops, Clips
<1> QED
  BY <1>2, <1>7, <1>8 DEF ShellInv

LEMMA ShellInvStep ==
    ASSUME ShellInv, [Next]_vars
    PROVE  ShellInv'
<1>1. CASE UNCHANGED ftpVars
  BY <1>1, ShellUntouched
<1>2. CASE Ftp!ShellStep
  BY <1>2, LoopStep, InterruptStep, SessionStep DEF Ftp!ShellStep
<1>3. CASE Ftp!FileCommands
  <2>1. CASE Ftp!TogglePrompt \/ \E d : Ftp!Cd(d)
    BY <2>1, PromptStep, CdStep
  <2>2. CASE \/ Ftp!MakeDir \/ Ftp!RemoveDir
             \/ \E f \in Remote : Ftp!Del(f) \/ \E g \in Remote : Ftp!Ren(f, g) \/ Ftp!Cp(f, g)
    BY <2>2, CallsStep
  <2>3. CASE \/ \E f : Ftp!BeginGet(f) \/ Ftp!BeginPut(f)
             \/ Ftp!BeginMget \/ Ftp!BeginMput
    BY <2>3, BatchesBegin
  <2>4. CASE Ftp!Refuse \/ Ftp!Transfer \/ Ftp!TransferFails \/ Ftp!BatchEnds
    BY <2>4, RefuseStep, TransferStep, TransferFailsStep, FinishSteps
  <2> QED
    BY <1>3, <2>1, <2>2, <2>3, <2>4, Zenon DEF Ftp!FileCommands
<1>4. CASE Ftp!ProgramCommands
  BY <1>4, KillSaveStep, StopProgramsStep, RunRestoreStep, StartProgramsStep, FinishSteps, KillStep, StartByHandStep
     DEF Ftp!ProgramCommands
<1>5. CASE Ftp!ClipboardCommands
  BY <1>5, PutClipStep, GetClipStep DEF Ftp!ClipboardCommands
<1>6. CASE OthersKeep /\ program \notin FtpParts
  BY <1>1, <1>6 DEF OthersKeep
<1>7. CASE UNCHANGED vars
  BY <1>1, <1>7 DEF vars, ftpVars
<1>8. CASE Next
  <2>1. \/ OthersKeep /\ program \notin FtpParts
        \/ Ftp!ShellStep \/ Ftp!FileCommands \/ Ftp!ProgramCommands \/ Ftp!ClipboardCommands
    BY <1>8 DEF Next, FtpParts
  <2> QED
    BY <1>2, <1>3, <1>4, <1>5, <1>6, <2>1
<1> QED
  BY <1>7, <1>8

LEMMA ShellInvHolds == ShellInv => DoneAsReported
<1> SUFFICES ASSUME ShellInv, shell.at = "finished", ~ shell.failed
             PROVE  DoneAsReported
  BY DEF DoneAsReported, Ftp!DoneAsReported
<1>1. shell.cmd \in {"mget", "mput"} => shell.before \subseteq shell.done \cup shell.refused
  BY NoSequence DEF ShellInv, Batches
<1>2. shell.cmd = "mget" => shell.done \subseteq localFiles
  BY DEF ShellInv, Batches
<1>3. ASSUME shell.cmd = "runrestore", NEW i \in DOMAIN savedList
      PROVE  \E p \in running :
               p.prog = savedList[i].prog /\ (savedList[i].arg = "document" => p.arg = "document")
  <2>1. PICK p : p = savedList[i]
    OBVIOUS
  <2>2. p \in Ftp!ToSet(savedList)
    BY <1>3, <2>1 DEF Ftp!ToSet
  <2>3. Runs(p)
    BY <1>3, <2>2, NoSequence DEF ShellInv, Restores
  <2> QED
    BY <2>1, <2>3 DEF Runs
<1>4. shell.cmd = "killsave" => shell.before = Ftp!ToSet(savedList)
  BY DEF ShellInv, Stops
<1>5. shell.cmd = "putclip" =>
        \A i \in DOMAIN shell.text :
          shell.text[i] \notin Ftp!PsionCodes \cup {"nul"} => Ftp!Mapped(clip.text, Ftp!FromPsion)[i] = shell.text[i]
  BY DEF ShellInv, Clips
<1> QED
  BY <1>1, <1>2, <1>3, <1>4, <1>5 DEF DoneAsReported, Ftp!DoneAsReported, Ftp!Multiple

(* A command of plpftp that ends without reporting an error did what it    *)
(* was asked: mget and mput took over every file that matched and was not  *)
(* refused, whatever an interrupt did to them meanwhile; runrestore left   *)
(* every listed program running that can be started; killsave has a list   *)
(* of all that ran; and the clipboard holds what putclip read, but for     *)
(* the characters that the Psion has none for.                             *)
THEOREM CommandsDoAsReported == Spec => []DoneAsReported
<1>1. ShellInv /\ [Next]_vars => ShellInv'
  BY ShellInvStep
<1> QED
  BY <1>1, ShellInvInit, ShellInvHolds, PTL DEF Spec

-----------------------------------------------------------------------------
(* plpfuse: what the two systems' attributes are in the standard ones.     *)

Flags(s) == IF s = "epoc" THEN {"ronly", "hidden", "system", "directory", "archive", "normal"}
            ELSE {"hidden", "system", "dir", "mod", "read", "exec", "write"}
Std(a, s) == IF s = "epoc" THEN Fuse!EpocToStd(a) ELSE Fuse!SiboToStd(a)
Becomes(a, ch, s) == IF s = "epoc" THEN Fuse!EpocSet(a, ch.set, ch.clear) ELSE Fuse!SiboSet(a, ch.set, ch.clear)

LEMMA EpocMembers ==
    ASSUME NEW a \in SUBSET Flags("epoc"), NEW x
    PROVE  x \in Fuse!EpocToStd(a) <=> \/ x = "read" \/ (x = "rdonly" /\ "ronly" \in a)
                                       \/ (x = "dir" /\ "directory" \in a)
                                       \/ (x \in {"hidden", "system", "archive", "normal"} /\ x \in a)
<1>1. /\ Fuse!EpocStd["ronly"] = "rdonly" /\ Fuse!EpocStd["hidden"] = "hidden"
      /\ Fuse!EpocStd["system"] = "system" /\ Fuse!EpocStd["directory"] = "dir"
      /\ Fuse!EpocStd["archive"] = "archive" /\ Fuse!EpocStd["normal"] = "normal"
  BY DEF Fuse!EpocStd
<1>2. x \in Fuse!EpocToStd(a) <=> x = "read" \/ \E f \in a : x = Fuse!EpocStd[f]
  BY DEF Fuse!EpocToStd
<1>3. a \subseteq {"ronly", "hidden", "system", "directory", "archive", "normal"}
  BY DEF Flags
<1> QED
  BY <1>1, <1>2, <1>3

LEMMA SiboMembers ==
    ASSUME NEW a \in SUBSET Flags("sibo"), NEW x
    PROVE  x \in Fuse!SiboToStd(a) <=> \/ x = "normal" \/ (x = "rdonly" /\ "write" \notin a)
                                       \/ (x = "archive" /\ "mod" \in a)
                                       \/ (x \in {"hidden", "system", "dir", "read", "exec"} /\ x \in a)
<1>1. /\ Fuse!SiboStd["hidden"] = "hidden" /\ Fuse!SiboStd["system"] = "system"
      /\ Fuse!SiboStd["dir"] = "dir" /\ Fuse!SiboStd["mod"] = "archive"
      /\ Fuse!SiboStd["read"] = "read" /\ Fuse!SiboStd["exec"] = "exec"
  BY DEF Fuse!SiboStd
<1>2. x \in Fuse!SiboToStd(a) <=> \/ x = "normal" \/ (x = "rdonly" /\ "write" \notin a)
                                  \/ \E f \in a \ {"write"} : x = Fuse!SiboStd[f]
  BY DEF Fuse!SiboToStd
<1>3. a \subseteq {"hidden", "system", "dir", "mod", "read", "exec", "write"}
  BY DEF Flags
<1> QED
  BY <1>1, <1>2, <1>3

(* And what fsetattr makes of them.                                        *)
LEMMA EpocSetMembers ==
    ASSUME NEW a \in SUBSET Flags("epoc"), NEW set, NEW clear, NEW b, b = Fuse!EpocSet(a, set, clear)
    PROVE  /\ b \subseteq Flags("epoc")
           /\ "ronly" \in b <=> ("ronly" \in a /\ "rdonly" \notin clear) \/ "rdonly" \in set
           /\ "directory" \in b <=> ("directory" \in a /\ "dir" \notin clear) \/ "dir" \in set
           /\ \A x \in {"hidden", "system", "archive", "normal"} :
                x \in b <=> (x \in a /\ x \notin clear) \/ x \in set
<1>1. /\ Fuse!EpocStd["ronly"] = "rdonly" /\ Fuse!EpocStd["hidden"] = "hidden"
      /\ Fuse!EpocStd["system"] = "system" /\ Fuse!EpocStd["directory"] = "dir"
      /\ Fuse!EpocStd["archive"] = "archive" /\ Fuse!EpocStd["normal"] = "normal"
      /\ DOMAIN Fuse!EpocStd = {"ronly", "hidden", "system", "directory", "archive", "normal"}
  BY DEF Fuse!EpocStd
<1>2. PICK on, off : on = Fuse!StdToEpoc(set) /\ off = Fuse!StdToEpoc(clear)
  OBVIOUS
<1>3. /\ \A f : f \in on <=> f \in DOMAIN Fuse!EpocStd /\ Fuse!EpocStd[f] \in set
      /\ \A f : f \in off <=> f \in DOMAIN Fuse!EpocStd /\ Fuse!EpocStd[f] \in clear
  BY <1>2 DEF Fuse!StdToEpoc
<1>4. b = (a \ off) \cup on
  BY <1>2 DEF Fuse!EpocSet
<1>5. b \subseteq Flags("epoc")
  BY <1>1, <1>3, <1>4 DEF Flags
<1>6. \A f \in DOMAIN Fuse!EpocStd :
        f \in b <=> (f \in a /\ Fuse!EpocStd[f] \notin clear) \/ Fuse!EpocStd[f] \in set
  BY <1>3, <1>4
<1>7. "ronly" \in b <=> ("ronly" \in a /\ "rdonly" \notin clear) \/ "rdonly" \in set
  BY <1>1, <1>6
<1>8. "directory" \in b <=> ("directory" \in a /\ "dir" \notin clear) \/ "dir" \in set
  BY <1>1, <1>6
<1>9. \A x \in {"hidden", "system", "archive", "normal"} :
        x \in b <=> (x \in a /\ x \notin clear) \/ x \in set
  BY <1>1, <1>6
<1> QED
  BY <1>5, <1>7, <1>8, <1>9

(* Of SIBO's, the write bit apart, if nothing is both set and cleared.     *)
LEMMA SiboSetMembers ==
    ASSUME NEW a \in SUBSET Flags("sibo"), NEW set, NEW clear, \A x : ~ (x \in set /\ x \in clear),
           NEW b, b = Fuse!SiboSet(a, set, clear)
    PROVE  /\ b \subseteq Flags("sibo")
           /\ "mod" \in b <=> ("mod" \in a /\ "archive" \notin clear) \/ "archive" \in set
           /\ \A x \in {"hidden", "system", "dir", "read", "exec"} :
                x \in b <=> (x \in a /\ x \notin clear) \/ x \in set
<1>1. /\ Fuse!SiboStd["hidden"] = "hidden" /\ Fuse!SiboStd["system"] = "system"
      /\ Fuse!SiboStd["dir"] = "dir" /\ Fuse!SiboStd["mod"] = "archive"
      /\ Fuse!SiboStd["read"] = "read" /\ Fuse!SiboStd["exec"] = "exec"
      /\ DOMAIN Fuse!SiboStd = {"hidden", "system", "dir", "mod", "read", "exec"}
  BY DEF Fuse!SiboStd
<1>2. PICK on, off : on = Fuse!StdToSibo(set) /\ off = Fuse!StdToSibo(clear)
  OBVIOUS
<1>3. /\ \A f : f # "write" => (f \in on <=> f \in DOMAIN Fuse!SiboStd /\ Fuse!SiboStd[f] \in set)
      /\ \A f : f # "write" => (f \in off <=> f \in DOMAIN Fuse!SiboStd /\ Fuse!SiboStd[f] \in clear)
  BY <1>2 DEF Fuse!StdToSibo
<1>4. PICK put : put = on \ off
  OBVIOUS
<1>5. PICK inverted : /\ b = (a \ (on \cup off)) \cup (inverted \cap (on \cup off))
                      /\ \A f : f # "write" => (f \in inverted <=> f \in put)
  <2>1. b = (a \ (on \cup off)) \cup ((IF "write" \in put THEN put \ {"write"} ELSE put \cup {"write"})
                                       \cap (on \cup off))
    BY <1>2, <1>4 DEF Fuse!SiboSet
  <2> QED
    BY <2>1
<1>6. b \subseteq Flags("sibo")
  <2>1. \A f \in b : f = "write" \/ f \in DOMAIN Fuse!SiboStd \/ f \in a
    BY <1>3, <1>5
  <2> QED
    BY <1>1, <2>1 DEF Flags
<1>7. \A f \in DOMAIN Fuse!SiboStd :
        f \in b <=> (f \in a /\ Fuse!SiboStd[f] \notin clear) \/ Fuse!SiboStd[f] \in set
  <2> SUFFICES ASSUME NEW f \in DOMAIN Fuse!SiboStd
               PROVE  f \in b <=> (f \in a /\ Fuse!SiboStd[f] \notin clear) \/ Fuse!SiboStd[f] \in set
    OBVIOUS
  <2>1. f # "write"
    BY <1>1
  <2>2. (f \in on <=> Fuse!SiboStd[f] \in set) /\ (f \in off <=> Fuse!SiboStd[f] \in clear)
    BY <1>3, <2>1
  <2>3. f \in inverted <=> f \in on /\ f \notin off
    BY <1>4, <1>5, <2>1
  <2> QED
    BY <1>5, <2>2, <2>3
<1>8. "mod" \in b <=> ("mod" \in a /\ "archive" \notin clear) \/ "archive" \in set
  BY <1>1, <1>7
<1>9. \A x \in {"hidden", "system", "dir", "read", "exec"} :
        x \in b <=> (x \in a /\ x \notin clear) \/ x \in set
  BY <1>1, <1>7
<1> QED
  BY <1>6, <1>8, <1>9

(* What chmod and setxattr are asked for, and what they have to leave.     *)
AsAsked(o, before, asked, now, s) ==
    IF o = "chmod"
    THEN /\ "dir" \in now \/ ((IF s = "sibo" THEN "r" ELSE "w") \in Fuse!Mode(now)
                                <=> (IF s = "sibo" THEN "r" ELSE "w") \in asked)
         /\ now \ {"read", "rdonly"} = before \ {"read", "rdonly"}
    ELSE /\ Fuse!Xattr(now) = asked
         /\ now \ (Fuse!Xattrs \cup (IF s = "sibo" THEN {"rdonly"} ELSE {}))
              = before \ (Fuse!Xattrs \cup (IF s = "sibo" THEN {"rdonly"} ELSE {}))

LEMMA ModeMembers ==
    ASSUME NEW std, NEW m \in {"r", "w"}
    PROVE  m \in Fuse!Mode(std) <=> "dir" \in std \/ (m = "r" /\ "read" \in std) \/ (m = "w" /\ "rdonly" \notin std)
BY DEF Fuse!Mode

LEMMA ModeChangeMembers ==
    ASSUME NEW old, NEW new, NEW ch, ch = Fuse!ModeChange(old, new)
    PROVE  /\ \A x : x \in ch.set <=> \/ x = "read" /\ "r" \in new /\ "r" \notin old
                                      \/ x = "rdonly" /\ "w" \in old /\ "w" \notin new
           /\ \A x : x \in ch.clear <=> \/ x = "read" /\ "r" \in old /\ "r" \notin new
                                        \/ x = "rdonly" /\ "w" \in new /\ "w" \notin old
BY DEF Fuse!ModeChange

LEMMA EpocChmod ==
    ASSUME NEW a \in SUBSET Flags("epoc"), NEW asked, NEW before, before = Fuse!EpocToStd(a),
           NEW ch, ch = Fuse!ModeChange(Fuse!Mode(before), asked),
           NEW b, b = Fuse!EpocSet(a, ch.set, ch.clear)
    PROVE  b \subseteq Flags("epoc") /\ AsAsked("chmod", before, asked, Fuse!EpocToStd(b), "epoc")
<1>1. PICK now, set, clear, old : /\ now = Fuse!EpocToStd(b) /\ set = ch.set /\ clear = ch.clear
                                  /\ old = Fuse!Mode(before)
  OBVIOUS
<1>2. /\ b \subseteq Flags("epoc")
      /\ "ronly" \in b <=> ("ronly" \in a /\ "rdonly" \notin clear) \/ "rdonly" \in set
      /\ "directory" \in b <=> ("directory" \in a /\ "dir" \notin clear) \/ "dir" \in set
      /\ \A x \in {"hidden", "system", "archive", "normal"} :
           x \in b <=> (x \in a /\ x \notin clear) \/ x \in set
  BY <1>1, EpocSetMembers
<1>3. /\ \A x : x \in set <=> \/ x = "read" /\ "r" \in asked /\ "r" \notin old
                              \/ x = "rdonly" /\ "w" \in old /\ "w" \notin asked
      /\ \A x : x \in clear <=> \/ x = "read" /\ "r" \in old /\ "r" \notin asked
                                \/ x = "rdonly" /\ "w" \in asked /\ "w" \notin old
  BY <1>1, ModeChangeMembers
<1>4. \A x : x \in before <=> \/ x = "read" \/ (x = "rdonly" /\ "ronly" \in a)
                              \/ (x = "dir" /\ "directory" \in a)
                              \/ (x \in {"hidden", "system", "archive", "normal"} /\ x \in a)
  BY EpocMembers
<1>5. \A x : x \in now <=> \/ x = "read" \/ (x = "rdonly" /\ "ronly" \in b)
                           \/ (x = "dir" /\ "directory" \in b)
                           \/ (x \in {"hidden", "system", "archive", "normal"} /\ x \in b)
  BY <1>1, <1>2, EpocMembers
<1>6. /\ "directory" \in b <=> "directory" \in a
      /\ \A x \in {"hidden", "system", "archive", "normal"} : x \in b <=> x \in a
  BY <1>2, <1>3
<1>7. now \ {"read", "rdonly"} = before \ {"read", "rdonly"}
  BY <1>4, <1>5, <1>6
<1>8. "w" \in old <=> "dir" \in before \/ "rdonly" \notin before
  BY <1>1, ModeMembers
<1>9. "w" \in Fuse!Mode(now) <=> "dir" \in now \/ "rdonly" \notin now
  BY ModeMembers
<1>10. "dir" \in now \/ ("w" \in Fuse!Mode(now) <=> "w" \in asked)
  <2>1. ("rdonly" \in now <=> "ronly" \in b) /\ ("rdonly" \in before <=> "ronly" \in a)
    BY <1>4, <1>5
  <2>2. "dir" \in now <=> "dir" \in before
    BY <1>4, <1>5, <1>6
  <2>3. "ronly" \in b <=> \/ "ronly" \in a /\ ~ ("w" \in asked /\ "w" \notin old)
                          \/ "w" \in old /\ "w" \notin asked
    BY <1>2, <1>3
  <2> QED
    BY <1>8, <1>9, <2>1, <2>2, <2>3
<1> QED
  BY <1>1, <1>2, <1>7, <1>10 DEF AsAsked

LEMMA SiboChmod ==
    ASSUME NEW a \in SUBSET Flags("sibo"), NEW asked, NEW before, before = Fuse!SiboToStd(a),
           NEW ch, ch = Fuse!ModeChange(Fuse!Mode(before), asked),
           NEW b, b = Fuse!SiboSet(a, ch.set, ch.clear)
    PROVE  b \subseteq Flags("sibo") /\ AsAsked("chmod", before, asked, Fuse!SiboToStd(b), "sibo")
<1>1. PICK now, set, clear, old : /\ now = Fuse!SiboToStd(b) /\ set = ch.set /\ clear = ch.clear
                                  /\ old = Fuse!Mode(before)
  OBVIOUS
<1>2. /\ \A x : x \in set <=> \/ x = "read" /\ "r" \in asked /\ "r" \notin old
                              \/ x = "rdonly" /\ "w" \in old /\ "w" \notin asked
      /\ \A x : x \in clear <=> \/ x = "read" /\ "r" \in old /\ "r" \notin asked
                                \/ x = "rdonly" /\ "w" \in asked /\ "w" \notin old
  BY <1>1, ModeChangeMembers
<1>3. \A x : ~ (x \in set /\ x \in clear)
  BY <1>2
<1>4. /\ b \subseteq Flags("sibo")
      /\ "mod" \in b <=> ("mod" \in a /\ "archive" \notin clear) \/ "archive" \in set
      /\ \A x \in {"hidden", "system", "dir", "read", "exec"} :
           x \in b <=> (x \in a /\ x \notin clear) \/ x \in set
  BY <1>1, <1>3, SiboSetMembers
<1>5. \A x : x \in before <=> \/ x = "normal" \/ (x = "rdonly" /\ "write" \notin a)
                              \/ (x = "archive" /\ "mod" \in a)
                              \/ (x \in {"hidden", "system", "dir", "read", "exec"} /\ x \in a)
  BY SiboMembers
<1>6. \A x : x \in now <=> \/ x = "normal" \/ (x = "rdonly" /\ "write" \notin b)
                           \/ (x = "archive" /\ "mod" \in b)
                           \/ (x \in {"hidden", "system", "dir", "read", "exec"} /\ x \in b)
  BY <1>1, <1>4, SiboMembers
<1>7. /\ "mod" \in b <=> "mod" \in a
      /\ \A x \in {"hidden", "system", "dir", "exec"} : x \in b <=> x \in a
  BY <1>2, <1>4
<1>8. now \ {"read", "rdonly"} = before \ {"read", "rdonly"}
  BY <1>5, <1>6, <1>7
<1>9. "r" \in old <=> "dir" \in before \/ "read" \in before
  BY <1>1, ModeMembers
<1>10. "r" \in Fuse!Mode(now) <=> "dir" \in now \/ "read" \in now
  BY ModeMembers
<1>11. "dir" \in now \/ ("r" \in Fuse!Mode(now) <=> "r" \in asked)
  <2>1. ("read" \in now <=> "read" \in b) /\ ("read" \in before <=> "read" \in a)
    BY <1>5, <1>6
  <2>2. "dir" \in now <=> "dir" \in before
    BY <1>5, <1>6, <1>7
  <2>3. "read" \in b <=> \/ "read" \in a /\ ~ ("r" \in old /\ "r" \notin asked)
                         \/ "r" \in asked /\ "r" \notin old
    BY <1>2, <1>4
  <2> QED
    BY <1>9, <1>10, <2>1, <2>2, <2>3
<1> QED
  BY <1>1, <1>4, <1>8, <1>11 DEF AsAsked

LEMMA EpocSetxattr ==
    ASSUME NEW a \in SUBSET Flags("epoc"), NEW asked \in SUBSET Fuse!Xattrs,
           NEW before, before = Fuse!EpocToStd(a),
           NEW ch, ch = Fuse!XattrChange(Fuse!Xattr(before), asked),
           NEW b, b = Fuse!EpocSet(a, ch.set, ch.clear)
    PROVE  b \subseteq Flags("epoc") /\ AsAsked("setxattr", before, asked, Fuse!EpocToStd(b), "epoc")
<1>1. PICK now, set, clear : now = Fuse!EpocToStd(b) /\ set = ch.set /\ clear = ch.clear
  OBVIOUS
<1>2. /\ b \subseteq Flags("epoc")
      /\ "ronly" \in b <=> ("ronly" \in a /\ "rdonly" \notin clear) \/ "rdonly" \in set
      /\ "directory" \in b <=> ("directory" \in a /\ "dir" \notin clear) \/ "dir" \in set
      /\ \A x \in {"hidden", "system", "archive", "normal"} :
           x \in b <=> (x \in a /\ x \notin clear) \/ x \in set
  BY <1>1, EpocSetMembers
<1>3. \A x : x \in Fuse!Xattrs <=> x \in {"hidden", "system", "archive"}
  BY DEF Fuse!Xattrs
<1>4. /\ \A x : x \in set <=> x \in asked /\ ~ (x \in before /\ x \in Fuse!Xattrs)
      /\ \A x : x \in clear <=> x \in before /\ x \in Fuse!Xattrs /\ x \notin asked
  BY <1>1 DEF Fuse!XattrChange, Fuse!Xattr
<1>5. \A x : x \in before <=> \/ x = "read" \/ (x = "rdonly" /\ "ronly" \in a)
                              \/ (x = "dir" /\ "directory" \in a)
                              \/ (x \in {"hidden", "system", "archive", "normal"} /\ x \in a)
  BY EpocMembers
<1>6. \A x : x \in now <=> \/ x = "read" \/ (x = "rdonly" /\ "ronly" \in b)
                           \/ (x = "dir" /\ "directory" \in b)
                           \/ (x \in {"hidden", "system", "archive", "normal"} /\ x \in b)
  BY <1>1, <1>2, EpocMembers
<1>7. /\ "ronly" \in b <=> "ronly" \in a
      /\ "directory" \in b <=> "directory" \in a
      /\ "normal" \in b <=> "normal" \in a
  BY <1>2, <1>3, <1>4
<1>8. \A x \in {"hidden", "system", "archive"} : x \in b <=> x \in asked
  BY <1>2, <1>3, <1>4, <1>5
<1>9. Fuse!Xattr(now) = asked
  BY <1>3, <1>6, <1>8 DEF Fuse!Xattr
<1>10. now \ Fuse!Xattrs = before \ Fuse!Xattrs
  BY <1>3, <1>5, <1>6, <1>7
<1> QED
  BY <1>1, <1>2, <1>9, <1>10 DEF AsAsked

LEMMA SiboSetxattr ==
    ASSUME NEW a \in SUBSET Flags("sibo"), NEW asked \in SUBSET Fuse!Xattrs,
           NEW before, before = Fuse!SiboToStd(a),
           NEW ch, ch = Fuse!XattrChange(Fuse!Xattr(before), asked),
           NEW b, b = Fuse!SiboSet(a, ch.set, ch.clear)
    PROVE  b \subseteq Flags("sibo") /\ AsAsked("setxattr", before, asked, Fuse!SiboToStd(b), "sibo")
<1>1. PICK now, set, clear : now = Fuse!SiboToStd(b) /\ set = ch.set /\ clear = ch.clear
  OBVIOUS
<1>2. \A x : x \in Fuse!Xattrs <=> x \in {"hidden", "system", "archive"}
  BY DEF Fuse!Xattrs
<1>3. /\ \A x : x \in set <=> x \in asked /\ ~ (x \in before /\ x \in Fuse!Xattrs)
      /\ \A x : x \in clear <=> x \in before /\ x \in Fuse!Xattrs /\ x \notin asked
  BY <1>1 DEF Fuse!XattrChange, Fuse!Xattr
<1>4. \A x : ~ (x \in set /\ x \in clear)
  BY <1>3
<1>5. /\ b \subseteq Flags("sibo")
      /\ "mod" \in b <=> ("mod" \in a /\ "archive" \notin clear) \/ "archive" \in set
      /\ \A x \in {"hidden", "system", "dir", "read", "exec"} :
           x \in b <=> (x \in a /\ x \notin clear) \/ x \in set
  BY <1>1, <1>4, SiboSetMembers
<1>6. \A x : x \in before <=> \/ x = "normal" \/ (x = "rdonly" /\ "write" \notin a)
                              \/ (x = "archive" /\ "mod" \in a)
                              \/ (x \in {"hidden", "system", "dir", "read", "exec"} /\ x \in a)
  BY SiboMembers
<1>7. \A x : x \in now <=> \/ x = "normal" \/ (x = "rdonly" /\ "write" \notin b)
                           \/ (x = "archive" /\ "mod" \in b)
                           \/ (x \in {"hidden", "system", "dir", "read", "exec"} /\ x \in b)
  BY <1>1, <1>5, SiboMembers
<1>8. \A x \in {"dir", "read", "exec"} : x \in b <=> x \in a
  BY <1>2, <1>3, <1>5
<1>9. /\ "mod" \in b <=> "archive" \in asked
      /\ \A x \in {"hidden", "system"} : x \in b <=> x \in asked
  BY <1>2, <1>3, <1>5, <1>6
<1>10. Fuse!Xattr(now) = asked
  BY <1>2, <1>7, <1>9 DEF Fuse!Xattr
<1>11. now \ (Fuse!Xattrs \cup {"rdonly"}) = before \ (Fuse!Xattrs \cup {"rdonly"})
  BY <1>2, <1>6, <1>7, <1>8
<1> QED
  BY <1>1, <1>5, <1>10, <1>11 DEF AsAsked

LEMMA ChangeIsAsAsked ==
    ASSUME NEW s \in {"epoc", "sibo"}, NEW a \in SUBSET Flags(s), NEW o \in {"chmod", "setxattr"}, NEW asked,
           o = "setxattr" => asked \subseteq Fuse!Xattrs, NEW before, before = Std(a, s),
           NEW ch, ch = IF o = "chmod" THEN Fuse!ModeChange(Fuse!Mode(before), asked)
                        ELSE Fuse!XattrChange(Fuse!Xattr(before), asked),
           NEW b, b = Becomes(a, ch, s)
    PROVE  AsAsked(o, before, asked, Std(b, s), s)
<1>1. CASE s = "epoc" /\ o = "chmod"
  BY <1>1, EpocChmod DEF Std, Becomes
<1>2. CASE s = "sibo" /\ o = "chmod"
  BY <1>2, SiboChmod DEF Std, Becomes
<1>3. CASE s = "epoc" /\ o = "setxattr"
  BY <1>3, EpocSetxattr DEF Std, Becomes
<1>4. CASE s = "sibo" /\ o = "setxattr"
  BY <1>4, SiboSetxattr DEF Std, Becomes
<1> QED
  BY <1>1, <1>2, <1>3, <1>4

LEMMA ChangedFlags ==
    ASSUME NEW s \in {"epoc", "sibo"}, NEW a \in SUBSET Flags(s), NEW ch
    PROVE  Becomes(a, ch, s) \subseteq Flags(s)
<1>1. CASE s = "epoc"
  BY <1>1, EpocSetMembers DEF Becomes
<1>2. CASE s = "sibo"
  <2>1. \A f \in Fuse!SiboSet(a, ch.set, ch.clear) :
          f \in a \/ f \in Fuse!StdToSibo(ch.set) \/ f \in Fuse!StdToSibo(ch.clear)
    BY DEF Fuse!SiboSet
  <2>2. \A f : f \in Fuse!StdToSibo(ch.set) \/ f \in Fuse!StdToSibo(ch.clear)
                 => f \in DOMAIN Fuse!SiboStd \/ f = "write"
    BY DEF Fuse!StdToSibo
  <2>3. DOMAIN Fuse!SiboStd \cup {"write"} \subseteq Flags(s)
    BY <1>2 DEF Flags, Fuse!SiboStd
  <2> QED
    BY <1>2, <2>1, <2>2, <2>3 DEF Becomes
<1> QED
  BY <1>1, <1>2

-----------------------------------------------------------------------------
(* The Psion's files, and the requests of the kernel.                      *)

FileShape(file, s) == file = [attrs |-> file.attrs, size |-> file.size] /\ file.attrs \subseteq Flags(s)
PsionShape(p, s) ==
    /\ p = [files |-> p.files, open |-> p.open] /\ p.files = [f \in DOMAIN p.files |-> p.files[f]]
    /\ \A f \in DOMAIN p.files : FileShape(p.files[f], s)
RequestShape(r) ==
    r = [op |-> r.op, at |-> r.at, name |-> r.name, to |-> r.to, arg |-> r.arg, asked |-> r.asked,
         old |-> r.old, before |-> r.before, res |-> r.res, blind |-> r.blind]

Changes == {"chmod", "setxattr"}

(* A request works on a file that stays where it is.  What chmod and       *)
(* setxattr have read is so until they set what differs, and then it is as *)
(* asked, unless sattr came in between.                                    *)
Asks(r, p, s) ==
    /\ r.at \in {"io"} => r.name \in DOMAIN p.files
    /\ r.at \in {"io", "close", "rename"} => r.op \notin Changes
    /\ r.at = "set" => /\ r.op \in Changes
                       /\ r.op = "setxattr" => r.asked \subseteq Fuse!Xattrs
    /\ r.at = "set" /\ ~ r.blind =>
         /\ r.name \in DOMAIN p.files /\ r.before = Std(p.files[r.name].attrs, s)
         /\ r.old = IF r.op = "chmod" THEN Fuse!Mode(r.before) ELSE Fuse!Xattr(r.before)
    /\ r.at = "done" /\ r.res = "none" /\ ~ r.blind /\ r.op \in Changes =>
         /\ r.name \in DOMAIN p.files
         /\ AsAsked(r.op, r.before, r.asked, Std(p.files[r.name].attrs, s), s)

FuseInv ==
    /\ system \in {"epoc", "sibo"} /\ PsionShape(psion, system)
    /\ RequestShape(request) /\ Asks(request, psion, system)

(* A request that is none of the two, or has failed.                       *)
LEMMA OtherRequest ==
    ASSUME FuseInv, UNCHANGED system, PsionShape(psion', system), RequestShape(request'),
           \/ request'.op \notin Changes /\ request'.at \in {"idle", "done", "close", "rename"}
           \/ request'.at = "done" /\ request'.res = "error"
           \/ request'.op \notin Changes /\ request'.at = "io" /\ request'.name \in DOMAIN psion'.files
    PROVE  FuseInv'
<1>1. Asks(request', psion', system)
  BY DEF Asks
<1>2. system' = system /\ system \in {"epoc", "sibo"}
  BY DEF FuseInv
<1> QED
  BY <1>1, <1>2 DEF FuseInv

LEMMA PutInto ==
    ASSUME NEW s, PsionShape(psion, s), NEW f, NEW file, FileShape(file, s), NEW p, p = Fuse!Put(f, file)
    PROVE  /\ PsionShape(p, s) /\ DOMAIN p.files = DOMAIN psion.files \cup {f} /\ p.files[f] = file
           /\ \A g \in DOMAIN psion.files : g # f => p.files[g] = psion.files[g]
<1>1. PICK fs : fs = [g \in DOMAIN psion.files \cup {f} |-> IF g = f THEN file ELSE psion.files[g]]
  OBVIOUS
<1>2. p = [psion EXCEPT !.files = fs]
  BY <1>1 DEF Fuse!Put
<1>3. psion = [files |-> psion.files, open |-> psion.open]
  BY DEF PsionShape
<1>4. p = [files |-> p.files, open |-> p.open] /\ p.files = fs
  BY <1>2, <1>3
<1>5. /\ DOMAIN fs = DOMAIN psion.files \cup {f} /\ fs[f] = file
      /\ \A g \in DOMAIN psion.files : g # f => fs[g] = psion.files[g]
      /\ fs = [g \in DOMAIN fs |-> fs[g]]
  BY <1>1
<1>6. \A g \in DOMAIN fs : FileShape(fs[g], s)
  BY <1>5 DEF PsionShape
<1>7. PsionShape(p, s)
  BY <1>4, <1>5, <1>6 DEF PsionShape
<1> QED
  BY <1>4, <1>5, <1>7

LEMMA TakenOut ==
    ASSUME NEW s, PsionShape(psion, s), NEW f
    PROVE  PsionShape(Fuse!Without(f), s)
<1>1. PICK fs : fs = [g \in DOMAIN psion.files \ {f} |-> psion.files[g]]
  OBVIOUS
<1>2. PICK p : p = [psion EXCEPT !.files = fs]
  OBVIOUS
<1>3. p = Fuse!Without(f)
  BY <1>1, <1>2 DEF Fuse!Without
<1>4. psion = [files |-> psion.files, open |-> psion.open]
  BY DEF PsionShape
<1>5. p = [files |-> p.files, open |-> p.open] /\ p.files = fs
  BY <1>2, <1>4
<1>6. fs = [g \in DOMAIN fs |-> fs[g]] /\ \A g \in DOMAIN fs : FileShape(fs[g], s)
  BY <1>1 DEF PsionShape
<1> QED
  BY <1>3, <1>5, <1>6 DEF PsionShape

LEMMA OpenIs ==
    ASSUME NEW s, NEW p, PsionShape(p, s), NEW n, NEW q, q = [p EXCEPT !.open = n]
    PROVE  PsionShape(q, s) /\ q.files = p.files
BY DEF PsionShape

(* A call that works, is refused or fails leads to a Psion of that kind.   *)
LEMMA CallLeads ==
    ASSUME NEW s, PsionShape(psion, s), NEW p, PsionShape(p, s),
           Fuse!Works(p) \/ Fuse!Refused \/ Fuse!Fails(p)
    PROVE  PsionShape(psion', s)
<1>1. PsionShape([psion EXCEPT !.open = 0], s) /\ PsionShape([p EXCEPT !.open = 0], s)
  BY OpenIs
<1>2. \/ psion' = p \/ psion' = psion
      \/ psion' = [psion EXCEPT !.open = 0] \/ psion' = [p EXCEPT !.open = 0]
  BY DEF Fuse!Works, Fuse!Refused, Fuse!Fails
<1> QED
  BY <1>1, <1>2

(* A request that begins; one that goes on or is over.                     *)
LEMMA RequestEnds ==
    ASSUME NEW r, RequestShape(r), NEW x
    PROVE  /\ Fuse!Done(r, x) => /\ RequestShape(request') /\ request'.op = r.op /\ request'.at = "done"
                                 /\ request'.res = x /\ request'.name = r.name
           /\ Fuse!Then(r, x) => /\ RequestShape(request') /\ request'.op = r.op /\ request'.at = x
                                 /\ request'.name = r.name
BY DEF Fuse!Done, Fuse!Then, RequestShape

LEMMA OneCallStep ==
    ASSUME FuseInv, UNCHANGED system, NEW o, o \notin Changes, NEW f, NEW possible,
           NEW p, PsionShape(p, system), Fuse!OneCall(o, f, possible, p)
    PROVE  FuseInv'
<1>1. PICK r : r = [Fuse!NoRequest EXCEPT !.op = o, !.name = f]
  OBVIOUS
<1>2. RequestShape(r) /\ r.op = o
  BY <1>1 DEF Fuse!NoRequest, RequestShape
<1>3. Fuse!Done(r, "none") \/ Fuse!Done(r, "error")
  BY <1>1 DEF Fuse!OneCall
<1>4. RequestShape(request') /\ request'.op = o /\ request'.at = "done"
  BY <1>2, <1>3, RequestEnds
<1>5. Fuse!Works(p) \/ Fuse!Refused \/ Fuse!Fails(p)
  BY DEF Fuse!OneCall
<1>6. PsionShape(psion', system)
  BY <1>5, CallLeads DEF FuseInv
<1> QED
  BY <1>4, <1>6, OtherRequest

LEMMA OneCallSteps ==
    ASSUME FuseInv, UNCHANGED system, NEW f,
           Fuse!Mkdir(f) \/ Fuse!Rmdir(f) \/ Fuse!Unlink(f) \/ Fuse!Utimens(f) \/ Fuse!Getattr(f)
    PROVE  FuseInv'
<1>1. PsionShape(psion, system) /\ system \in {"epoc", "sibo"}
  BY DEF FuseInv
<1>2. CASE Fuse!Mkdir(f)
  <2>1. PICK file, p : file = [attrs |-> Fuse!DirAttrs, size |-> 0] /\ p = Fuse!Put(f, file)
    OBVIOUS
  <2>2. FileShape(file, system)
    BY <1>1, <2>1 DEF FileShape, Flags, Fuse!DirAttrs
  <2>3. PsionShape(p, system)
    BY <1>1, <2>1, <2>2, PutInto
  <2>4. Fuse!OneCall("mkdir", f, ~ Fuse!Is(f), p)
    BY <1>2, <2>1 DEF Fuse!Mkdir
  <2> QED
    BY <2>3, <2>4, OneCallStep DEF Changes
<1>3. CASE Fuse!Rmdir(f) \/ Fuse!Unlink(f)
  <2>1. PICK p : p = Fuse!Without(f)
    OBVIOUS
  <2>2. PsionShape(p, system)
    BY <1>1, <2>1, TakenOut
  <2>3. \E possible : Fuse!OneCall("rmdir", f, possible, p) \/ Fuse!OneCall("unlink", f, possible, p)
    BY <1>3, <2>1 DEF Fuse!Rmdir, Fuse!Unlink
  <2> QED
    BY <2>2, <2>3, OneCallStep DEF Changes
<1>4. CASE Fuse!Utimens(f) \/ Fuse!Getattr(f)
  <2>1. \E possible : Fuse!OneCall("utimens", f, possible, psion) \/ Fuse!OneCall("getattr", f, possible, psion)
    BY <1>4 DEF Fuse!Utimens, Fuse!Getattr
  <2> QED
    BY <1>1, <2>1, OneCallStep DEF Changes
<1> QED
  BY <1>2, <1>3, <1>4

LEMMA RootSteps ==
    ASSUME FuseInv, UNCHANGED system, Fuse!NoDevice \/ Fuse!GetattrRoot \/ Fuse!Finish
    PROVE  FuseInv'
<1>1. PsionShape(psion', system)
  BY DEF FuseInv, Fuse!NoDevice, Fuse!GetattrRoot, Fuse!Finish
<1>2. CASE Fuse!Finish
  <2>1. RequestShape(request') /\ request'.op = "none" /\ request'.at = "idle"
    BY <1>2 DEF Fuse!Finish, Fuse!NoRequest, RequestShape
  <2> QED
    BY <1>1, <2>1, OtherRequest DEF Changes
<1>3. CASE Fuse!NoDevice \/ Fuse!GetattrRoot
  <2>1. PICK r, x : /\ r = [Fuse!NoRequest EXCEPT !.op = "any"] \/ r = [Fuse!NoRequest EXCEPT !.op = "root"]
                    /\ Fuse!Done(r, x)
    <3>1. CASE Fuse!NoDevice
      BY <3>1 DEF Fuse!NoDevice
    <3>2. CASE Fuse!GetattrRoot
      BY <3>2 DEF Fuse!GetattrRoot
    <3> QED
      BY <1>3, <3>1, <3>2
  <2>2. RequestShape(r) /\ r.op \in {"any", "root"}
    BY <2>1 DEF Fuse!NoRequest, RequestShape
  <2>3. RequestShape(request') /\ request'.op = r.op /\ request'.at = "done"
    BY <2>1, <2>2, RequestEnds
  <2> QED
    BY <1>1, <2>2, <2>3, OtherRequest DEF Changes
<1> QED
  BY <1>2, <1>3

LEMMA MknodStep ==
    ASSUME FuseInv, UNCHANGED system, NEW f, Fuse!Mknod(f)
    PROVE  FuseInv'
<1>1. PsionShape(psion, system) /\ system \in {"epoc", "sibo"}
  BY DEF FuseInv
<1>2. PICK file, q : file = [attrs |-> Fuse!FileAttrs, size |-> 0] /\ q = Fuse!Put(f, file)
  OBVIOUS
<1>3. FileShape(file, system)
  BY <1>1, <1>2 DEF FileShape, Flags, Fuse!FileAttrs
<1>4. PsionShape(q, system)
  BY <1>1, <1>2, <1>3, PutInto
<1>5. PICK p : p = [q EXCEPT !.open = q.open + 1]
  OBVIOUS
<1>6. PsionShape(p, system)
  BY <1>4, <1>5, OpenIs
<1>7. PICK r : r = [Fuse!NoRequest EXCEPT !.op = "mknod", !.name = f]
  OBVIOUS
<1>8. RequestShape(r) /\ r.op = "mknod"
  BY <1>7 DEF Fuse!NoRequest, RequestShape
<1>9. /\ Fuse!Works(p) \/ Fuse!Refused \/ Fuse!Fails(p)
      /\ Fuse!Then(r, "close") \/ Fuse!Done(r, "error")
  BY <1>2, <1>5, <1>7 DEF Fuse!Mknod
<1>10. PsionShape(psion', system)
  BY <1>1, <1>6, <1>9, CallLeads
<1>11. RequestShape(request') /\ request'.op = "mknod" /\ request'.at \in {"close", "done"}
  BY <1>8, <1>9, RequestEnds
<1> QED
  BY <1>10, <1>11, OtherRequest DEF Changes

LEMMA OpenStep ==
    ASSUME FuseInv, UNCHANGED system, NEW o \in {"read", "write", "truncate"}, NEW f, Fuse!Open(o, f)
    PROVE  FuseInv'
<1>1. PsionShape(psion, system)
  BY DEF FuseInv
<1>2. PICK p : p = [psion EXCEPT !.open = psion.open + 1]
  OBVIOUS
<1>3. PsionShape(p, system) /\ p.files = psion.files
  BY <1>1, <1>2, OpenIs
<1>4. PICK r : r = [Fuse!NoRequest EXCEPT !.op = o, !.name = f]
  OBVIOUS
<1>5. RequestShape(r) /\ r.op = o /\ r.name = f
  BY <1>4 DEF Fuse!NoRequest, RequestShape
<1>6. \/ /\ Fuse!Is(f) /\ Fuse!Works(p)
         /\ \E n \in 0 .. MaxFuseSize : request' = [r EXCEPT !.at = "io", !.arg = n]
      \/ (Fuse!Refused \/ Fuse!Fails(p)) /\ Fuse!Done(r, "error")
  BY <1>2, <1>4 DEF Fuse!Open
<1>7. PsionShape(psion', system)
  BY <1>1, <1>3, <1>6, CallLeads
<1>8. CASE Fuse!Done(r, "error")
  <2>1. RequestShape(request') /\ request'.op = o /\ request'.at = "done"
    BY <1>5, <1>8, RequestEnds
  <2> QED
    BY <1>7, <2>1, OtherRequest DEF Changes
<1>9. CASE Fuse!Is(f) /\ Fuse!Works(p) /\ \E n \in 0 .. MaxFuseSize : request' = [r EXCEPT !.at = "io", !.arg = n]
  <2>1. RequestShape(request') /\ request'.op = o /\ request'.at = "io" /\ request'.name = f
    BY <1>5, <1>9 DEF RequestShape
  <2>2. f \in DOMAIN psion'.files
    BY <1>3, <1>9 DEF Fuse!Is, Fuse!Works
  <2> QED
    BY <1>7, <2>1, <2>2, OtherRequest DEF Changes
<1> QED
  BY <1>6, <1>8, <1>9

LEMMA TransferBytesStep ==
    ASSUME FuseInv, UNCHANGED system, Fuse!Transfer
    PROVE  FuseInv'
<1>1. PsionShape(psion, system) /\ RequestShape(request)
  BY DEF FuseInv
<1>2. request.at = "io" /\ request.op \notin Changes /\ request.name \in DOMAIN psion.files
  BY DEF FuseInv, Asks, Fuse!Transfer
<1>3. PICK f : f = request.name
  OBVIOUS
<1>4. ASSUME NEW n PROVE PsionShape(Fuse!Resize(f, n), system)
  <2>1. PICK old, file : old = psion.files[f] /\ file = [old EXCEPT !.size = n]
    OBVIOUS
  <2>2. FileShape(old, system)
    BY <1>1, <1>2, <1>3, <2>1 DEF PsionShape
  <2>3. FileShape(file, system)
    BY <2>1, <2>2 DEF FileShape
  <2>4. Fuse!Resize(f, n) = Fuse!Put(f, file)
    BY <2>1 DEF Fuse!Resize
  <2>5. PsionShape(Fuse!Put(f, file), system)
    BY <1>1, <2>3, PutInto
  <2> QED
    BY <2>4, <2>5
<1>5. PICK p : /\ Fuse!Works(p) \/ Fuse!Refused \/ Fuse!Fails(p)
               /\ p = psion \/ \E n : p = Fuse!Resize(f, n)
  BY <1>3 DEF Fuse!Transfer
<1>6. PsionShape(p, system)
  BY <1>1, <1>4, <1>5
<1>7. PsionShape(psion', system)
  BY <1>1, <1>5, <1>6, CallLeads
<1>8. request' = [request EXCEPT !.at = "close"] \/ request' = [request EXCEPT !.at = "close", !.res = "EPERM"]
  BY DEF Fuse!Transfer, Fuse!Then
<1>9. RequestShape(request') /\ request'.op = request.op /\ request'.at = "close"
  BY <1>1, <1>8 DEF RequestShape
<1> QED
  BY <1>2, <1>7, <1>9, OtherRequest

LEMMA CloseFileStep ==
    ASSUME FuseInv, UNCHANGED system, Fuse!Close
    PROVE  FuseInv'
<1>1. PsionShape(psion, system) /\ RequestShape(request)
  BY DEF FuseInv
<1>2. request.op \notin Changes
  BY DEF FuseInv, Asks, Fuse!Close
<1>3. PICK p : p = [psion EXCEPT !.open = IF psion.open > 0 THEN psion.open - 1 ELSE 0]
  OBVIOUS
<1>4. PsionShape(p, system)
  BY <1>1, <1>3, OpenIs
<1>5. (Fuse!Works(p) \/ Fuse!Fails(p)) /\ Fuse!Done(request, request.res)
  BY <1>3 DEF Fuse!Close
<1>6. PsionShape(psion', system)
  BY <1>1, <1>4, <1>5, CallLeads
<1>7. RequestShape(request') /\ request'.op = request.op /\ request'.at = "done"
  BY <1>1, <1>5, RequestEnds
<1> QED
  BY <1>2, <1>6, <1>7, OtherRequest

LEMMA RenameSteps ==
    ASSUME FuseInv, UNCHANGED system, (\E f, g : Fuse!RenameRemoves(f, g)) \/ Fuse!Rename
    PROVE  FuseInv'
<1>1. PsionShape(psion, system) /\ RequestShape(request)
  BY DEF FuseInv
<1>2. ASSUME NEW f, NEW g, Fuse!RenameRemoves(f, g) PROVE FuseInv'
  <2>1. PICK r, p : r = [Fuse!NoRequest EXCEPT !.op = "rename", !.name = f, !.to = g] /\ p = Fuse!Without(g)
    OBVIOUS
  <2>2. RequestShape(r) /\ r.op = "rename"
    BY <2>1 DEF Fuse!NoRequest, RequestShape
  <2>3. Fuse!Then(r, "rename") /\ (Fuse!Works(p) \/ Fuse!Refused \/ Fuse!Fails(p))
    BY <1>2, <2>1 DEF Fuse!RenameRemoves
  <2>4. PsionShape(psion', system)
    BY <1>1, <2>1, <2>3, TakenOut, CallLeads
  <2>5. RequestShape(request') /\ request'.op = "rename" /\ request'.at = "rename"
    BY <2>2, <2>3, RequestEnds
  <2> QED
    BY <2>4, <2>5, OtherRequest DEF Changes
<1>3. CASE Fuse!Rename
  <2>1. request.op \notin Changes
    BY <1>3 DEF FuseInv, Asks, Fuse!Rename
  <2>2. PICK f, g, fs : /\ f = request.name /\ g = request.to
                        /\ fs = [h \in (DOMAIN psion.files \ {f}) \cup {g} |->
                                   IF h = g THEN psion.files[f] ELSE psion.files[h]]
    OBVIOUS
  <2>3. PICK p : p = [psion EXCEPT !.files = fs]
    OBVIOUS
  <2>4. /\ (Fuse!Is(f) /\ (Fuse!Works(p) \/ Fuse!Fails(p))) \/ Fuse!Refused
        /\ Fuse!Done(request, "none") \/ Fuse!Done(request, "error")
    BY <1>3, <2>2, <2>3 DEF Fuse!Rename
  <2>5. ASSUME Fuse!Is(f) PROVE PsionShape(p, system)
    <3>1. f \in DOMAIN psion.files
      BY <2>5 DEF Fuse!Is
    <3>2. psion = [files |-> psion.files, open |-> psion.open]
      BY <1>1 DEF PsionShape
    <3>3. p = [files |-> p.files, open |-> p.open] /\ p.files = fs
      BY <2>3, <3>2
    <3>4. fs = [h \in DOMAIN fs |-> fs[h]] /\ \A h \in DOMAIN fs : FileShape(fs[h], system)
      BY <1>1, <2>2, <3>1 DEF PsionShape
    <3> QED
      BY <3>3, <3>4 DEF PsionShape
  <2>6. PsionShape(psion', system)
    BY <1>1, <2>4, <2>5, CallLeads DEF Fuse!Refused
  <2>7. RequestShape(request') /\ request'.op = request.op /\ request'.at = "done"
    BY <1>1, <2>4, RequestEnds
  <2> QED
    BY <2>1, <2>6, <2>7, OtherRequest
<1> QED
  BY <1>2, <1>3

-----------------------------------------------------------------------------
(* chmod and setxattr, and sattr in between.                               *)

LEMMA StdIs ==
    ASSUME FuseInv, NEW a
    PROVE  Fuse!ToStd(a) = Std(a, system)
BY DEF FuseInv, Fuse!ToStd, Std

(* The attributes have been read, and are to be set.                       *)
LEMMA ToBeSet ==
    ASSUME FuseInv, UNCHANGED system, PsionShape(psion', system), RequestShape(request'),
           request'.at = "set", request'.op \in Changes,
           request'.op = "setxattr" => request'.asked \subseteq Fuse!Xattrs,
           \/ request'.blind
           \/ /\ request'.name \in DOMAIN psion'.files
              /\ request'.before = Std(psion'.files[request'.name].attrs, system)
              /\ request'.old = IF request'.op = "chmod" THEN Fuse!Mode(request'.before)
                                ELSE Fuse!Xattr(request'.before)
    PROVE  FuseInv'
<1>1. Asks(request', psion', system)
  BY DEF Asks
<1>2. system' = system /\ system \in {"epoc", "sibo"}
  BY DEF FuseInv
<1> QED
  BY <1>1, <1>2 DEF FuseInv

LEMMA ChmodStep ==
    ASSUME FuseInv, UNCHANGED system, NEW f, NEW mode, Fuse!Chmod(f, mode)
    PROVE  FuseInv'
<1>1. PsionShape(psion, system)
  BY DEF FuseInv
<1>2. PICK r : r = [Fuse!NoRequest EXCEPT !.op = "chmod", !.name = f, !.asked = mode]
  OBVIOUS
<1>3. RequestShape(r) /\ r.op = "chmod" /\ r.name = f /\ r.blind = FALSE
  BY <1>2 DEF Fuse!NoRequest, RequestShape
<1>4. PICK std : std = Fuse!ToStd(psion.files[f].attrs)
  OBVIOUS
<1>5. std = Std(psion.files[f].attrs, system)
  BY <1>4, StdIs
<1>6. \/ Fuse!Is(f) /\ Fuse!Works(psion) /\ request' = [r EXCEPT !.at = "set", !.old = Fuse!Mode(std), !.before = std]
      \/ (Fuse!Refused \/ Fuse!Fails(psion)) /\ Fuse!Done(r, "error")
  BY <1>2, <1>4 DEF Fuse!Chmod
<1>7. PsionShape(psion', system)
  BY <1>1, <1>6, CallLeads
<1>8. CASE Fuse!Done(r, "error")
  <2>1. RequestShape(request') /\ request'.at = "done" /\ request'.res = "error"
    BY <1>3, <1>8, RequestEnds
  <2> QED
    BY <1>7, <2>1, OtherRequest
<1>9. CASE /\ Fuse!Is(f) /\ Fuse!Works(psion)
           /\ request' = [r EXCEPT !.at = "set", !.old = Fuse!Mode(std), !.before = std]
  <2>1. PICK m : m = Fuse!Mode(std)
    OBVIOUS
  <2>2. request' = [r EXCEPT !.at = "set", !.old = m, !.before = std]
    BY <1>9, <2>1
  <2>3. /\ RequestShape(request') /\ request'.op = "chmod" /\ request'.at = "set" /\ request'.name = f
        /\ request'.old = m /\ request'.before = std
    BY <1>3, <2>2 DEF RequestShape
  <2>4. f \in DOMAIN psion.files /\ psion' = psion
    BY <1>9 DEF Fuse!Is, Fuse!Works
  <2> QED
    BY <1>5, <1>7, <2>1, <2>3, <2>4, ToBeSet DEF Changes
<1> QED
  BY <1>6, <1>8, <1>9

LEMMA SetxattrStep ==
    ASSUME FuseInv, UNCHANGED system, NEW f, NEW value \in Values, Fuse!Setxattr(f, value)
    PROVE  FuseInv'
<1>1. PsionShape(psion, system) /\ value \subseteq Fuse!Xattrs
  BY FuseAssumption DEF FuseInv, Fuse!Xattrs
<1>2. PICK r : r = [Fuse!NoRequest EXCEPT !.op = "setxattr", !.name = f, !.asked = value, !.at = "set"]
  OBVIOUS
<1>3. RequestShape(r) /\ r.op = "setxattr" /\ r.name = f /\ r.asked = value /\ r.at = "set"
  BY <1>2 DEF Fuse!NoRequest, RequestShape
<1>4. PICK std, x : std = Fuse!ToStd(psion.files[f].attrs) /\ x = Fuse!Xattr(std)
  OBVIOUS
<1>5. std = Std(psion.files[f].attrs, system)
  BY <1>4, StdIs
<1>6. \/ Fuse!Is(f) /\ Fuse!Works(psion) /\ request' = [r EXCEPT !.old = x, !.before = std]
      \/ /\ Fuse!Refused \/ Fuse!Fails(psion)
         /\ \E old \in Values : request' = [r EXCEPT !.old = old, !.blind = TRUE]
  BY <1>2, <1>4 DEF Fuse!Setxattr
<1>7. PsionShape(psion', system)
  BY <1>1, <1>6, CallLeads
<1>8. CASE \E old \in Values : request' = [r EXCEPT !.old = old, !.blind = TRUE]
  <2>1. /\ RequestShape(request') /\ request'.op = "setxattr" /\ request'.at = "set"
        /\ request'.asked = value /\ request'.blind
    BY <1>3, <1>8 DEF RequestShape
  <2> QED
    BY <1>1, <1>7, <2>1, ToBeSet DEF Changes
<1>9. CASE Fuse!Is(f) /\ Fuse!Works(psion) /\ request' = [r EXCEPT !.old = x, !.before = std]
  <2>1. /\ RequestShape(request') /\ request'.op = "setxattr" /\ request'.at = "set" /\ request'.name = f
        /\ request'.old = x /\ request'.before = std /\ request'.asked = value
    BY <1>3, <1>9 DEF RequestShape
  <2>2. f \in DOMAIN psion.files /\ psion' = psion
    BY <1>9 DEF Fuse!Is, Fuse!Works
  <2> QED
    BY <1>1, <1>4, <1>5, <1>7, <2>1, <2>2, ToBeSet DEF Changes
<1> QED
  BY <1>6, <1>8, <1>9

LEMMA SetAttributesStep ==
    ASSUME FuseInv, UNCHANGED system, Fuse!SetAttributes
    PROVE  FuseInv'
<1>1. /\ PsionShape(psion, system) /\ RequestShape(request) /\ system \in {"epoc", "sibo"}
      /\ request.at = "set" /\ request.op \in Changes
      /\ request.op = "setxattr" => request.asked \subseteq Fuse!Xattrs
  BY DEF FuseInv, Asks, Fuse!SetAttributes
<1>2. PICK f, old, ch : /\ f = request.name /\ old = psion.files[f]
                        /\ ch = IF request.op = "chmod" THEN Fuse!ModeChange(request.old, request.asked)
                                ELSE Fuse!XattrChange(request.old, request.asked)
  OBVIOUS
<1>3. PICK b, file : b = Becomes(old.attrs, ch, system) /\ file = [old EXCEPT !.attrs = b]
  OBVIOUS
<1>4. PICK p : p = Fuse!Put(f, file)
  OBVIOUS
<1>5. Fuse!SetAttr(old.attrs, ch.set, ch.clear) = b
  BY <1>1, <1>3 DEF Fuse!SetAttr, Becomes
<1>6. \/ Fuse!Is(f) /\ Fuse!Works(p) /\ Fuse!Done(request, "none")
      \/ Fuse!Refused /\ Fuse!Done(request, "error")
      \/ Fuse!Is(f) /\ Fuse!Fails(p) /\ Fuse!Done(request, "error")
  <2>1. file = [old EXCEPT !.attrs = Fuse!SetAttr(@, ch.set, ch.clear)]
    BY <1>3, <1>5
  <2> QED
    BY <1>2, <1>4, <2>1 DEF Fuse!SetAttributes
<1>7. ASSUME Fuse!Is(f)
      PROVE  /\ PsionShape(p, system) /\ f \in DOMAIN p.files /\ p.files[f].attrs = b
             /\ old.attrs \subseteq Flags(system)
  <2>1. FileShape(old, system)
    BY <1>1, <1>2, <1>7 DEF PsionShape, Fuse!Is
  <2>2. b \subseteq Flags(system)
    BY <1>1, <1>3, <2>1, ChangedFlags DEF FileShape
  <2>3. FileShape(file, system) /\ file.attrs = b
    BY <1>3, <2>1, <2>2 DEF FileShape
  <2>4. PsionShape(p, system) /\ f \in DOMAIN p.files /\ p.files[f] = file
    BY <1>1, <1>4, <2>3, PutInto
  <2> QED
    BY <2>1, <2>3, <2>4 DEF FileShape
<1>8. PsionShape(psion', system)
  BY <1>1, <1>6, <1>7, CallLeads DEF Fuse!Refused
<1>9. CASE Fuse!Done(request, "error")
  <2>1. RequestShape(request') /\ request'.at = "done" /\ request'.res = "error"
    BY <1>1, <1>9, RequestEnds
  <2> QED
    BY <1>8, <2>1, OtherRequest
<1>10. CASE Fuse!Is(f) /\ Fuse!Works(p) /\ Fuse!Done(request, "none")
  <2>1. request' = [request EXCEPT !.at = "done", !.res = "none"] /\ psion' = p
    BY <1>10 DEF Fuse!Done, Fuse!Works
  <2>2. /\ RequestShape(request') /\ request'.op = request.op /\ request'.at = "done" /\ request'.name = f
        /\ request'.before = request.before /\ request'.asked = request.asked /\ request'.blind = request.blind
    BY <1>1, <1>2, <2>1 DEF RequestShape
  <2>3. ASSUME ~ request.blind
        PROVE  AsAsked(request.op, request.before, request.asked, Std(b, system), system)
    <3>1. /\ request.before = Std(old.attrs, system)
          /\ request.old = IF request.op = "chmod" THEN Fuse!Mode(request.before) ELSE Fuse!Xattr(request.before)
      BY <1>1, <1>2, <2>3 DEF FuseInv, Asks
    <3>2. PICK o, before, asked, s, a : /\ o = request.op /\ before = request.before /\ asked = request.asked
                                        /\ s = system /\ a = old.attrs
      OBVIOUS
    <3>3. ch = IF o = "chmod" THEN Fuse!ModeChange(Fuse!Mode(before), asked)
               ELSE Fuse!XattrChange(Fuse!Xattr(before), asked)
      BY <1>2, <3>1, <3>2
    <3>4. /\ s \in {"epoc", "sibo"} /\ a \in SUBSET Flags(s) /\ o \in {"chmod", "setxattr"}
          /\ o = "setxattr" => asked \subseteq Fuse!Xattrs
          /\ before = Std(a, s) /\ b = Becomes(a, ch, s)
      BY <1>1, <1>3, <1>7, <1>10, <3>1, <3>2 DEF Changes
    <3>5. AsAsked(o, before, asked, Std(b, s), s)
      BY <3>3, <3>4, ChangeIsAsAsked
    <3> QED
      BY <3>2, <3>5
  <2>4. f \in DOMAIN psion'.files /\ psion'.files[f].attrs = b
    BY <1>7, <1>10, <2>1
  <2>5. Asks(request', psion', system)
    BY <2>2, <2>3, <2>4 DEF Asks
  <2> QED
    BY <1>1, <1>8, <2>2, <2>5 DEF FuseInv
<1> QED
  BY <1>6, <1>9, <1>10

LEMMA SattrStep ==
    ASSUME FuseInv, UNCHANGED system, NEW f, NEW letters, Fuse!Sattr(f, letters)
    PROVE  FuseInv'
<1>1. PsionShape(psion, system) /\ RequestShape(request) /\ system \in {"epoc", "sibo"}
  BY DEF FuseInv
<1>2. PICK ch : /\ Fuse!Is(f) /\ psion' = Fuse!Put(f, [psion.files[f] EXCEPT !.attrs =
                                                         Fuse!SetAttr(@, ch.set, ch.clear)])
                /\ request' = [request EXCEPT !.blind = @ \/ request.name = f]
  BY DEF Fuse!Sattr
<1>3. PICK old, b : old = psion.files[f] /\ b = Becomes(old.attrs, ch, system)
  OBVIOUS
<1>4. PICK file : file = [old EXCEPT !.attrs = b]
  OBVIOUS
<1>5. FileShape(old, system)
  BY <1>1, <1>2, <1>3 DEF PsionShape, Fuse!Is
<1>6. b \subseteq Flags(system)
  BY <1>1, <1>3, <1>5, ChangedFlags DEF FileShape
<1>7. FileShape(file, system)
  BY <1>4, <1>5, <1>6 DEF FileShape
<1>8. Fuse!SetAttr(old.attrs, ch.set, ch.clear) = b
  BY <1>1, <1>3 DEF Fuse!SetAttr, Becomes
<1>9. psion' = Fuse!Put(f, file)
  BY <1>2, <1>3, <1>4, <1>8
<1>10. /\ PsionShape(psion', system) /\ DOMAIN psion'.files = DOMAIN psion.files \cup {f}
       /\ \A g \in DOMAIN psion.files : g # f => psion'.files[g] = psion.files[g]
  BY <1>1, <1>7, <1>9, PutInto
<1>11. PICK blind : blind = (request.blind \/ request.name = f) /\ request' = [request EXCEPT !.blind = blind]
  BY <1>2
<1>12. /\ RequestShape(request') /\ request'.op = request.op /\ request'.at = request.at
       /\ request'.name = request.name /\ request'.asked = request.asked /\ request'.old = request.old
       /\ request'.before = request.before /\ request'.res = request.res /\ request'.blind = blind
  BY <1>1, <1>11 DEF RequestShape
<1>13. PICK n : n = request.name
  OBVIOUS
<1>14. n \in DOMAIN psion.files => n \in DOMAIN psion'.files
  BY <1>10
<1>15. ~ blind /\ n \in DOMAIN psion.files => psion'.files[n] = psion.files[n]
  BY <1>10, <1>11, <1>13
<1>16. ~ blind => ~ request.blind
  BY <1>11
<1>17. Asks(request, psion, system)
  BY DEF FuseInv
<1>18. Asks(request', psion', system)
  BY <1>12, <1>13, <1>14, <1>15, <1>16, <1>17 DEF Asks
<1> QED
  BY <1>1, <1>10, <1>12, <1>18 DEF FuseInv

-----------------------------------------------------------------------------

LEMMA FuseInvInit == Init => FuseInv
<1> SUFFICES ASSUME Init PROVE FuseInv
  OBVIOUS
<1>1. Fuse!FuseInit
  BY DEF Init
<1>2. system \in {"epoc", "sibo"} /\ request = Fuse!NoRequest
  BY <1>1 DEF Fuse!FuseInit
<1>3. RequestShape(request) /\ request.at = "idle"
  BY <1>2 DEF Fuse!NoRequest, RequestShape
<1>4. PICK n, as : /\ psion = [files |-> [f \in {n} |-> [attrs |-> as, size |-> 1]], open |-> 0]
                   /\ as \in IF system = "sibo" THEN {{"write", "read"}, {"read", "hidden"}, {"write", "mod"}}
                             ELSE {{"archive"}, {"normal"}, {"ronly", "hidden"}}
  BY <1>1 DEF Fuse!FuseInit
<1>5. as \subseteq Flags(system)
  BY <1>2, <1>4 DEF Flags
<1>6. PsionShape(psion, system)
  BY <1>4, <1>5 DEF PsionShape, FileShape
<1>7. Asks(request, psion, system)
  BY <1>3 DEF Asks
<1> QED
  BY <1>2, <1>3, <1>6, <1>7 DEF FuseInv

LEMMA FuseInvStep ==
    ASSUME FuseInv, [Next]_vars
    PROVE  FuseInv'
<1>1. CASE UNCHANGED fuseVars
  <2>1. system' = system /\ psion' = psion /\ request' = request
    BY <1>1 DEF fuseVars
  <2> QED
    BY <2>1 DEF FuseInv
<1>2. CASE Fuse!FuseNext
  <2>1. UNCHANGED system
    BY <1>2 DEF Fuse!FuseNext
  <2>2. \/ \E f : \/ Fuse!Mkdir(f) \/ Fuse!Rmdir(f) \/ Fuse!Unlink(f) \/ Fuse!Utimens(f) \/ Fuse!Getattr(f)
                  \/ Fuse!Mknod(f) \/ \E o \in {"read", "write", "truncate"} : Fuse!Open(o, f)
        \/ (\E f, g : Fuse!RenameRemoves(f, g)) \/ Fuse!Rename
        \/ \E f : \/ \E mode : Fuse!Chmod(f, mode)
                  \/ \E value \in Values : Fuse!Setxattr(f, value)
                  \/ \E letters : Fuse!Sattr(f, letters)
        \/ Fuse!NoDevice \/ Fuse!GetattrRoot \/ Fuse!Transfer \/ Fuse!Close \/ Fuse!SetAttributes \/ Fuse!Finish
    BY <1>2, Zenon DEF Fuse!FuseNext
  <2> QED
    BY <2>1, <2>2, OneCallSteps, MknodStep, OpenStep, RenameSteps, ChmodStep, SetxattrStep, SattrStep,
       RootSteps, TransferBytesStep, CloseFileStep, SetAttributesStep
<1>3. Fuse!FuseNext \/ UNCHANGED fuseVars
  <2>1. CASE Next
    BY <2>1 DEF Next, OthersKeep, FtpParts
  <2>2. CASE UNCHANGED vars
    BY <2>2 DEF vars, fuseVars
  <2> QED
    BY <2>1, <2>2
<1> QED
  BY <1>1, <1>2, <1>3

LEMMA FuseInvHolds == FuseInv => AttributesAsAsked
<1> SUFFICES ASSUME FuseInv, request.at = "done", request.res = "none", ~ request.blind,
                    request.op \in {"chmod", "setxattr"}
             PROVE  AttributesAsAsked
  BY DEF AttributesAsAsked, Fuse!AttributesAsAsked
<1>1. PICK now : now = Std(psion.files[request.name].attrs, system)
  OBVIOUS
<1>2. now = Fuse!ToStd(psion.files[request.name].attrs)
  BY <1>1, StdIs
<1>3. AsAsked(request.op, request.before, request.asked, now, system)
  BY <1>1 DEF FuseInv, Asks, Changes
<1> QED
  BY <1>2, <1>3 DEF AttributesAsAsked, Fuse!AttributesAsAsked, AsAsked

(* What chmod and setxattr of plpfuse report as done is done, for either   *)
(* system, any permissions and flags asked for, and whatever other calls   *)
(* failed or another program changed in between: the bit the system has    *)
(* for it is as asked, and so are the flags, and nothing else has changed, *)
(* although plpfuse, the RFSV classes and the Psion each write it in bits  *)
(* of their own.                                                           *)
THEOREM AttributesDoAsAsked == Spec => []AttributesAsAsked
<1>1. FuseInv /\ [Next]_vars => FuseInv'
  BY FuseInvStep
<1> QED
  BY <1>1, FuseInvInit, FuseInvHolds, PTL DEF Spec
=============================================================================
