----------------------------- MODULE ClientProofs -----------------------------
(***************************************************************************)
(* Theorems about the classes all clients are built on: TCPSocket with     *)
(* IOWatch for any number of sockets and descriptors, and its messages     *)
(* for any lengths, cut up anyhow; and about RPCS and rclip, for any       *)
(* sequence of calls, cuts and machines.                                   *)
(***************************************************************************)
EXTENDS ClientsMC, DataLemmas

-----------------------------------------------------------------------------
(* IOWatch's table: its first cells hold descriptors in descending order.  *)

Descriptors == 0 .. LastFd

Ordered(w) ==
    /\ w = [table |-> w.table, count |-> w.count]
    /\ w.table \in [Sockets!Cells -> Int] /\ w.count \in 0 .. LastFd + 1
    /\ \A i \in 1 .. w.count : w.table[i] \in Descriptors
    /\ \A i, j \in 1 .. w.count : i < j => w.table[i] > w.table[j]

Holds(w, f) == \E i \in 1 .. w.count : w.table[i] = f

LEMMA LeastOf ==
    ASSUME NEW T \in SUBSET Nat, T # {}
    PROVE  /\ Sockets!Min(T) \in T
           /\ \A i \in T : Sockets!Min(T) <= i
<1>1. \E n \in T : \A m \in T : n <= m
  BY LeastElement
<1> QED
  BY <1>1, Zenon DEF Sockets!Min

(* So many descending descriptors cannot be more than there are.           *)
LEMMA FewDescriptors ==
    ASSUME NEW n \in Nat, NEW g,
           \A i \in 1 .. n : g[i] \in Descriptors,
           \A i, j \in 1 .. n : i < j => g[i] > g[j]
    PROVE  n <= LastFd + 1
<1> DEFINE T == {k \in Nat : k + 1 \in 1 .. n => g[k + 1] + k <= LastFd}
<1>0. LastFd \in Nat
  BY SocketsAssumption
<1>1. 0 \in T
  BY <1>0 DEF Descriptors
<1>2. ASSUME NEW k \in T PROVE k + 1 \in T
  <2> SUFFICES ASSUME k + 2 \in 1 .. n PROVE g[k + 2] + (k + 1) <= LastFd
    OBVIOUS
  <2>1. k + 1 \in 1 .. n /\ k + 1 < k + 2 /\ k \in Nat
    OBVIOUS
  <2>2. g[k + 1] > g[k + 2] /\ g[k + 1] + k <= LastFd
    BY <2>1
  <2>3. g[k + 1] \in Int /\ g[k + 2] \in Int
    BY <2>1 DEF Descriptors
  <2> QED
    BY <1>0, <2>1, <2>2, <2>3
<1>3. T = Nat
  BY <1>1, <1>2, Induction
<1>4. CASE n # 0
  <2>1. n - 1 \in T /\ n \in 1 .. n
    BY <1>3, <1>4
  <2>2. g[n] + (n - 1) <= LastFd /\ g[n] \in Nat
    BY <1>0, <2>1 DEF Descriptors
  <2> QED
    BY <1>0, <2>2
<1> QED
  BY <1>0, <1>4

LEMMA TableOfAdd ==
    ASSUME NEW w, Ordered(w), NEW f \in Descriptors
    PROVE  /\ Ordered(Sockets!AddIO(w, f))
           /\ \A g : Holds(Sockets!AddIO(w, f), g) => g = f \/ Holds(w, g)
<1> DEFINE places == {i \in 1 .. w.count : w.table[i] <= f} \cup {w.count + 1}
           at == Sockets!PlaceFor(w, f)
           t == [i \in Sockets!Cells |-> CASE i = at -> f
                                           [] i > at /\ i <= w.count + 1 -> w.table[i - 1]
                                           [] OTHER -> w.table[i]]
           n == w.count + 1
           v == [table |-> t, count |-> n]
<1>0. LastFd \in Nat /\ w.count \in Nat /\ f \in Int /\ n <= LastFd + 2
  BY SocketsAssumption DEF Ordered, Descriptors
<1>1. at \in places /\ \A i \in places : at <= i
  <2>1. places \in SUBSET Nat /\ places # {} /\ at = Sockets!Min(places)
    BY <1>0 DEF Sockets!PlaceFor
  <2> HIDE DEF places, at
  <2> QED
    BY <2>1, LeastOf
<1>2. at \in 1 .. n /\ (at <= w.count => w.table[at] <= f)
  BY <1>0, <1>1
<1>3. \A i \in 1 .. w.count : i < at => w.table[i] > f
  <2> SUFFICES ASSUME NEW i \in 1 .. w.count, i < at, ~ (w.table[i] > f) PROVE FALSE
    OBVIOUS
  <2>1. w.table[i] \in Int
    BY DEF Ordered, Descriptors
  <2>2. i \in places
    BY <1>0, <2>1
  <2> QED
    BY <1>0, <1>1, <1>2, <2>2
<1>4. Sockets!AddIO(w, f) = IF w.table[at] = f THEN w ELSE v
  BY DEF Sockets!AddIO
<1>5. ASSUME w.table[at] # f PROVE Ordered(v) /\ \A g : Holds(v, g) => g = f \/ Holds(w, g)
  <2>1. \A i \in 1 .. n : i \in Sockets!Cells
    BY <1>0 DEF Sockets!Cells
  <2>2. t[at] = f
    BY <1>2, <2>1
  <2>3. \A i \in 1 .. n : i < at => i \in 1 .. w.count /\ t[i] = w.table[i]
    <3> SUFFICES ASSUME NEW i \in 1 .. n, i < at PROVE i \in 1 .. w.count /\ t[i] = w.table[i]
      OBVIOUS
    <3>1. i # at /\ ~ (i > at) /\ i \in 1 .. w.count
      BY <1>0, <1>2
    <3> QED
      BY <2>1, <3>1
  <2>4. \A i \in 1 .. n : i > at => i - 1 \in 1 .. w.count /\ t[i] = w.table[i - 1]
    <3> SUFFICES ASSUME NEW i \in 1 .. n, i > at
                 PROVE  i - 1 \in 1 .. w.count /\ t[i] = w.table[i - 1]
      OBVIOUS
    <3>1. i # at /\ i <= w.count + 1 /\ i - 1 \in 1 .. w.count
      BY <1>0, <1>2
    <3> QED
      BY <2>1, <3>1
  <2>5. t \in [Sockets!Cells -> Int]
    <3> SUFFICES ASSUME NEW i \in Sockets!Cells PROVE t[i] \in Int
      OBVIOUS
    <3>1. w.table[i] \in Int
      BY DEF Ordered
    <3>2. i > at /\ i <= w.count + 1 => w.table[i - 1] \in Int
      <4> SUFFICES ASSUME i > at, i <= w.count + 1 PROVE w.table[i - 1] \in Int
        OBVIOUS
      <4>1. i - 1 \in 1 .. w.count
        BY <1>0, <1>2 DEF Sockets!Cells
      <4> QED
        BY <4>1 DEF Ordered, Descriptors
    <3> HIDE DEF at
    <3> QED
      BY <1>0, <3>1, <3>2
  <2>6. \A i \in 1 .. n : t[i] \in Descriptors
    <3> SUFFICES ASSUME NEW i \in 1 .. n PROVE t[i] \in Descriptors
      OBVIOUS
    <3>1. i < at \/ i = at \/ i > at
      BY <1>0, <1>2
    <3> HIDE DEF t, at
    <3> QED
      BY <2>2, <2>3, <2>4, <3>1 DEF Ordered
  <2>7. \A i, j \in 1 .. n : i < j => t[i] > t[j]
    <3> SUFFICES ASSUME NEW i \in 1 .. n, NEW j \in 1 .. n, i < j PROVE t[i] > t[j]
      OBVIOUS
    <3>1. w.table[at] \in Int /\ (at <= w.count => w.table[at] < f)
      <4>1. w.table[at] \in Int
        BY <1>2, <2>1 DEF Ordered
      <4> QED
        BY <1>0, <1>2, <1>5, <4>1
    <3>2. \A a, b \in 1 .. w.count : a < b => w.table[a] > w.table[b]
      BY DEF Ordered
    <3>3. \A a \in 1 .. w.count : w.table[a] \in Int
      BY DEF Ordered, Descriptors
    <3> HIDE DEF t, at
    <3>4. CASE j < at
      <4>1. i < at
        BY <1>0, <1>2, <3>4
      <4> QED
        BY <2>3, <3>2, <3>4, <4>1
    <3>5. CASE j = at
      BY <1>0, <1>2, <1>3, <2>2, <2>3, <3>5
    <3>6. CASE j > at /\ i = at
      <4>1. j - 1 \in 1 .. w.count /\ t[j] = w.table[j - 1] /\ at <= j - 1
        BY <1>0, <1>2, <2>4, <3>6
      <4>2. w.table[j - 1] < f
        <5>1. CASE at = j - 1
          BY <1>0, <3>1, <4>1, <5>1
        <5>2. CASE at < j - 1
          <6>1. at \in 1 .. w.count
            BY <1>0, <1>2, <4>1, <5>2
          <6>2. w.table[at] > w.table[j - 1]
            BY <3>2, <4>1, <5>2, <6>1
          <6> QED
            BY <1>0, <3>1, <3>3, <4>1, <6>1, <6>2
        <5> QED
          BY <1>0, <1>2, <4>1, <5>1, <5>2
      <4> QED
        BY <1>0, <2>2, <3>3, <3>6, <4>1, <4>2
    <3>7. CASE j > at /\ i < at
      <4>1. j - 1 \in 1 .. w.count /\ t[j] = w.table[j - 1] /\ at <= j - 1
        BY <1>0, <1>2, <2>4, <3>7
      <4>2. i \in 1 .. w.count /\ t[i] = w.table[i] /\ i < j - 1
        BY <1>0, <1>2, <2>3, <3>7, <4>1
      <4> QED
        BY <3>2, <4>1, <4>2
    <3>8. CASE i > at
      <4>1. j > at
        BY <1>0, <1>2, <3>8
      <4>2. /\ i - 1 \in 1 .. w.count /\ t[i] = w.table[i - 1]
            /\ j - 1 \in 1 .. w.count /\ t[j] = w.table[j - 1] /\ i - 1 < j - 1
        BY <1>0, <2>4, <3>8, <4>1
      <4> QED
        BY <3>2, <4>2
    <3> QED
      BY <1>0, <1>2, <3>4, <3>5, <3>6, <3>7, <3>8
  <2>8. n \in 0 .. LastFd + 1
    <3>1. n \in Nat
      BY <1>0
    <3> HIDE DEF t, n
    <3>2. n <= LastFd + 1
      BY <3>1, <2>6, <2>7, FewDescriptors
    <3> QED
      BY <1>0, <3>1, <3>2
  <2>9. Ordered(v)
    <3> HIDE DEF t, n
    <3> QED
      BY <2>5, <2>6, <2>7, <2>8 DEF Ordered
  <2>10. ASSUME NEW g, Holds(v, g) PROVE g = f \/ Holds(w, g)
    <3>1. PICK i \in 1 .. n : t[i] = g
      BY <2>10 DEF Holds
    <3>2. i < at \/ i = at \/ i > at
      BY <1>0, <1>2
    <3> HIDE DEF t, at
    <3> QED
      BY <2>2, <2>3, <2>4, <3>1, <3>2 DEF Holds
  <2> HIDE DEF v
  <2> QED
    BY <2>9, <2>10
<1> HIDE DEF v, at
<1> QED
  BY <1>4, <1>5

LEMMA TableOfRemove ==
    ASSUME NEW w, Ordered(w), NEW f
    PROVE  /\ Ordered(Sockets!RemIO(w, f))
           /\ \A g : Holds(Sockets!RemIO(w, f), g) => g # f /\ Holds(w, g)
<1> DEFINE places == {i \in 1 .. w.count : w.table[i] = f}
           at == Sockets!Min(places)
           t == [i \in Sockets!Cells |-> IF i >= at /\ i < w.count
                                         THEN w.table[i + 1] ELSE w.table[i]]
           n == w.count - 1
           v == [table |-> t, count |-> n]
<1>0. LastFd \in Nat /\ w.count \in Nat /\ w.count <= LastFd + 1
  BY SocketsAssumption DEF Ordered
<1>1. Sockets!RemIO(w, f) = IF places = {} THEN w ELSE v
  BY DEF Sockets!RemIO
<1>2. CASE places = {}
  <2>1. \A g : Holds(w, g) => g # f
    BY <1>2 DEF Holds
  <2> QED
    BY <1>1, <1>2, <2>1
<1>3. CASE places # {}
  <2>1. at \in 1 .. w.count /\ w.table[at] = f
    <3>1. places \in SUBSET Nat
      BY <1>0
    <3>2. at \in places
      <4> HIDE DEF places
      <4> QED
        BY <1>3, <3>1, LeastOf
    <3> QED
      BY <3>2
  <2>2. \A i \in 1 .. w.count : i \in Sockets!Cells
    BY <1>0 DEF Sockets!Cells
  <2>3. \A i, j \in 1 .. w.count : i < j => w.table[i] > w.table[j]
    BY DEF Ordered
  <2>4. \A i \in 1 .. w.count : w.table[i] \in Descriptors /\ w.table[i] \in Int
    BY DEF Ordered, Descriptors
  <2>5. \A i \in 1 .. n : i < at => i \in 1 .. w.count /\ t[i] = w.table[i]
    <3> SUFFICES ASSUME NEW i \in 1 .. n, i < at PROVE i \in 1 .. w.count /\ t[i] = w.table[i]
      OBVIOUS
    <3>1. i \in 1 .. w.count /\ ~ (i >= at)
      BY <1>0, <2>1
    <3> QED
      BY <2>2, <3>1
  <2>6. \A i \in 1 .. n : i >= at => i + 1 \in 1 .. w.count /\ t[i] = w.table[i + 1]
    <3> SUFFICES ASSUME NEW i \in 1 .. n, i >= at
                 PROVE  i + 1 \in 1 .. w.count /\ t[i] = w.table[i + 1]
      OBVIOUS
    <3>1. i \in 1 .. w.count /\ i < w.count /\ i + 1 \in 1 .. w.count
      BY <1>0, <2>1
    <3> QED
      BY <2>2, <3>1
  <2>7. t \in [Sockets!Cells -> Int]
    <3> SUFFICES ASSUME NEW i \in Sockets!Cells PROVE t[i] \in Int
      OBVIOUS
    <3>1. w.table[i] \in Int
      BY DEF Ordered
    <3>2. i < w.count => w.table[i + 1] \in Int
      <4> SUFFICES ASSUME i < w.count PROVE w.table[i + 1] \in Int
        OBVIOUS
      <4>1. i + 1 \in 1 .. w.count
        BY <1>0 DEF Sockets!Cells
      <4> QED
        BY <2>4, <4>1
    <3> QED
      BY <3>1, <3>2
  <2> HIDE DEF t, at
  <2>8. \A i \in 1 .. n : i < at \/ i >= at
    BY <1>0, <2>1
  <2>9. \A i \in 1 .. n : t[i] \in Descriptors
    BY <2>4, <2>5, <2>6, <2>8
  <2>10. ASSUME NEW i \in 1 .. n, NEW j \in 1 .. n, i < j PROVE t[i] > t[j]
    <3>1. CASE j < at
      <4>1. i < at
        BY <1>0, <2>1, <2>10, <3>1
      <4> QED
        BY <2>3, <2>5, <2>10, <3>1, <4>1
    <3>2. CASE i < at /\ j >= at
      <4>1. i < j + 1
        BY <1>0, <2>10
      <4> QED
        BY <2>3, <2>5, <2>6, <3>2, <4>1
    <3>3. CASE i >= at
      <4>1. j >= at /\ i + 1 < j + 1
        BY <1>0, <2>1, <2>10, <3>3
      <4> QED
        BY <2>3, <2>6, <3>3, <4>1
    <3> QED
      BY <2>8, <3>1, <3>2, <3>3
  <2>11. n \in 0 .. LastFd + 1
    BY <1>0, <2>1
  <2>12. Ordered(v)
    <3> HIDE DEF n
    <3> QED
      BY <2>7, <2>9, <2>10, <2>11 DEF Ordered
  <2>13. ASSUME NEW g, Holds(v, g) PROVE g # f /\ Holds(w, g)
    <3>1. PICK i \in 1 .. n : t[i] = g
      BY <2>13 DEF Holds
    <3>2. CASE i < at
      <4>1. i \in 1 .. w.count /\ w.table[i] = g /\ w.table[i] > w.table[at]
        BY <2>1, <2>3, <2>5, <3>1, <3>2
      <4>2. w.table[i] # f
        BY <2>1, <2>4, <4>1
      <4> QED
        BY <4>1, <4>2 DEF Holds
    <3>3. CASE i >= at
      <4>1. i + 1 \in 1 .. w.count /\ w.table[i + 1] = g /\ at < i + 1
        BY <1>0, <2>1, <2>6, <3>1, <3>3
      <4>2. w.table[i + 1] # f
        BY <2>1, <2>3, <2>4, <4>1
      <4> QED
        BY <4>1, <4>2 DEF Holds
    <3> QED
      BY <2>8, <3>2, <3>3
  <2> HIDE DEF v, places
  <2> QED
    BY <1>1, <1>3, <2>12, <2>13
<1> HIDE DEF v, at, places
<1> QED
  BY <1>2, <1>3

-----------------------------------------------------------------------------
(* The sockets: an open descriptor has one owner, and what is watched is   *)
(* the descriptor of a living object that wants it.                        *)

SocketTypes ==
    /\ fd \in [Objects -> Descriptors \cup {Sockets!Invalid}]
    /\ bound \in [Objects -> BOOLEAN] /\ watching \in [Objects -> BOOLEAN]
    /\ alive \subseteq Objects /\ opened \subseteq Descriptors

Owned ==
    /\ \A o \in Objects : fd[o] # Sockets!Invalid => o \in alive /\ fd[o] \in opened
    /\ \A o, u \in Objects : fd[o] = fd[u] /\ fd[o] # Sockets!Invalid => o = u
    /\ \A o \in Objects \ alive : ~ watching[o]

Wanted == \A f : Holds(Sockets!Watched, f) => \E o \in alive : watching[o] /\ fd[o] = f

SocketInv == SocketTypes /\ Owned /\ Ordered(Sockets!Watched) /\ Wanted

LEMMA SocketInvImplies == SocketInv => WatchesOpenSockets
<1> SUFFICES ASSUME SocketInv PROVE Sockets!WatchesOpenSockets
  BY DEF WatchesOpenSockets
<1>1. fdCount \in 0 .. LastFd + 1 /\ LastFd \in Nat
  BY SocketsAssumption DEF SocketInv, Ordered, Sockets!Watched
<1>2. ASSUME NEW i \in 1 .. fdCount PROVE \E o \in alive : watching[o] /\ fd[o] = fds[i]
  <2>1. Holds(Sockets!Watched, fds[i])
    BY <1>2 DEF Holds, Sockets!Watched
  <2> QED
    BY <2>1 DEF SocketInv, Wanted
<1>3. ASSUME NEW i \in 1 .. fdCount - 1 PROVE fds[i] > fds[i + 1]
  <2>1. i \in 1 .. fdCount /\ i + 1 \in 1 .. fdCount /\ i < i + 1
    BY <1>1, <1>3
  <2> QED
    BY <2>1 DEF SocketInv, Ordered, Sockets!Watched
<1> QED
  BY <1>2, <1>3 DEF Sockets!WatchesOpenSockets

(* A step that concerns the object o alone, leaves it the descriptor f,    *)
(* and the table w.                                                        *)
LEMMA OneChanges ==
    ASSUME SocketInv, NEW o \in Objects, NEW f \in Descriptors \cup {Sockets!Invalid}, NEW w,
           Ordered(w), Sockets!WatchBecomes(w),
           \A g : Holds(w, g) => \/ g = f /\ o \in alive' /\ watching'[o]
                                 \/ Holds(Sockets!Watched, g) /\ g # fd[o],
           fd' = [fd EXCEPT ![o] = f],
           bound' \in [Objects -> BOOLEAN], watching' \in [Objects -> BOOLEAN],
           alive' \subseteq Objects, opened' \subseteq Descriptors,
           \A u \in Objects \ {o} : watching'[u] = watching[u] /\ (u \in alive' <=> u \in alive),
           \A u \in Objects \ {o} : fd[u] # Sockets!Invalid => fd[u] # f /\ fd[u] \in opened',
           f # Sockets!Invalid => o \in alive' /\ f \in opened',
           o \notin alive' => ~ watching'[o]
    PROVE  SocketInv'
<1>1. SocketTypes' /\ \A u \in Objects : fd'[u] = IF u = o THEN f ELSE fd[u]
  BY DEF SocketInv, SocketTypes, Sockets!Invalid, Descriptors
<1>2. Owned'
  <2>1. ASSUME NEW u \in Objects, fd'[u] # Sockets!Invalid PROVE u \in alive' /\ fd'[u] \in opened'
    BY <1>1, <2>1 DEF SocketInv, Owned
  <2>2. ASSUME NEW u \in Objects, NEW v \in Objects, fd'[u] = fd'[v], fd'[u] # Sockets!Invalid
        PROVE  u = v
    BY <1>1, <2>2 DEF SocketInv, Owned
  <2>3. ASSUME NEW u \in Objects \ alive' PROVE ~ watching'[u]
    BY <2>3 DEF SocketInv, Owned
  <2> QED
    BY <2>1, <2>2, <2>3 DEF Owned, Sockets!Invalid
<1>3. w = [table |-> fds', count |-> fdCount']
  BY DEF Sockets!WatchBecomes, Ordered
<1>4. Ordered(Sockets!Watched)'
  BY <1>3 DEF Ordered, Sockets!Watched, Sockets!Cells, Descriptors
<1>5. ASSUME NEW g, Holds(w, g) PROVE \E u \in alive' : watching'[u] /\ fd'[u] = g
  <2>1. CASE g = f /\ o \in alive' /\ watching'[o]
    BY <1>1, <2>1
  <2>2. CASE Holds(Sockets!Watched, g) /\ g # fd[o]
    <3>1. PICK u \in alive : watching[u] /\ fd[u] = g
      BY <2>2 DEF SocketInv, Wanted
    <3>2. u \in Objects \ {o}
      BY <2>2, <3>1 DEF SocketInv, SocketTypes
    <3> QED
      BY <1>1, <3>1, <3>2
  <2> QED
    BY <1>5, <2>1, <2>2
<1>6. Wanted'
  BY <1>3, <1>5 DEF Wanted, Holds, Sockets!Watched
<1> QED
  BY <1>1, <1>2, <1>4, <1>6 DEF SocketInv

LEMMA NewDescriptor ==
    ASSUME NEW used, used \subseteq Descriptors, Sockets!CanOpen(used)
    PROVE  Sockets!NewFd(used) \in Descriptors \ used
<1> DEFINE rest == (0 .. LastFd + 1) \ used
<1>0. LastFd \in Nat
  BY SocketsAssumption
<1>1. rest \in SUBSET Nat /\ LastFd + 1 \in rest
  BY <1>0 DEF Descriptors
<1>2. Sockets!NewFd(used) \in rest
  <2> HIDE DEF rest
  <2>1. Sockets!Min(rest) \in rest
    BY <1>1, LeastOf
  <2> QED
    BY <2>1 DEF rest, Sockets!NewFd
<1> QED
  BY <1>0, <1>2 DEF Sockets!CanOpen, Descriptors

(* Adding to the table, if at all, and taking out of it.                   *)
LEMMA AddedIfTable ==
    ASSUME NEW w, Ordered(w), NEW c \in BOOLEAN, NEW f, c => f \in Descriptors
    PROVE  /\ Ordered(Sockets!AddedIf(c, w, f))
           /\ \A g : Holds(Sockets!AddedIf(c, w, f), g) => (c /\ g = f) \/ Holds(w, g)
BY TableOfAdd DEF Sockets!AddedIf

LEMMA RemovedIfTable ==
    ASSUME NEW w, Ordered(w), NEW c \in BOOLEAN, NEW f
    PROVE  /\ Ordered(Sockets!RemovedIf(c, w, f))
           /\ \A g : Holds(Sockets!RemovedIf(c, w, f), g) => Holds(w, g) /\ (c => g # f)
BY TableOfRemove DEF Sockets!RemovedIf

(* A descriptor that is watched is that of an object that is watched.      *)
LEMMA NotWatched ==
    ASSUME SocketInv, NEW o \in Objects, ~ watching[o] \/ fd[o] = Sockets!Invalid, NEW g,
           Holds(Sockets!Watched, g)
    PROVE  g # fd[o]
<1>1. g \in Descriptors /\ g # Sockets!Invalid
  BY SocketsAssumption DEF SocketInv, Ordered, Holds, Descriptors, Sockets!Invalid
<1>2. PICK u \in alive : watching[u] /\ fd[u] = g
  BY DEF SocketInv, Wanted
<1> QED
  BY <1>1, <1>2 DEF SocketInv, SocketTypes, Owned

LEMMA BindGives ==
    ASSUME SocketInv, NEW o \in Objects, NEW a \in Sockets!Attempts
    PROVE  LET b == Sockets!Bind(o, a)
           IN  /\ b.fd \in Descriptors \cup {Sockets!Invalid} /\ b.bound \in BOOLEAN
               /\ \/ b.fd = fd[o]
                  \/ fd[o] = Sockets!Invalid /\ b.fd \in Descriptors \ opened
               /\ b.goes \in BOOLEAN
               /\ b.goes => b.fd # Sockets!Invalid \/ bound[o]
<1>1. /\ fd[o] \in Descriptors \cup {Sockets!Invalid} /\ bound[o] \in BOOLEAN
      /\ opened \subseteq Descriptors
      /\ a.socket \in BOOLEAN /\ a.name \in BOOLEAN /\ a.bind \in BOOLEAN
  BY DEF SocketInv, SocketTypes, Sockets!Attempts
<1>2. Sockets!CanOpen(opened) => Sockets!NewFd(opened) \in Descriptors \ opened
  BY <1>1, NewDescriptor
<1> QED
  BY <1>1, <1>2 DEF Sockets!Bind

LEMMA NewStep ==
    ASSUME SocketInv, NEW o \in Objects, Sockets!New(o)
    PROVE  SocketInv'
<1>1. /\ alive' = alive \cup {o} /\ o \notin alive
      /\ fd' = fd /\ bound' = bound /\ watching' = watching /\ opened' = opened
      /\ fds' = fds /\ fdCount' = fdCount
  BY DEF Sockets!New
<1>2. SocketTypes' /\ Owned'
  BY <1>1 DEF SocketInv, SocketTypes, Owned
<1>3. Ordered(Sockets!Watched)' /\ Wanted'
  BY <1>1 DEF SocketInv, Ordered, Wanted, Holds, Sockets!Watched, Sockets!Cells, Descriptors
<1> QED
  BY <1>2, <1>3 DEF SocketInv

(* What an operation leaves to a bound or unbound socket, in the form of   *)
(* OneChanges.                                                             *)
LEMMA OpensOne ==
    ASSUME SocketInv, NEW o \in Objects, o \in alive, NEW a \in Sockets!Attempts,
           Sockets!Open(o, Sockets!Bind(o, a)), NEW c \in BOOLEAN,
           c => watching[o] /\ Sockets!Bind(o, a).fd # Sockets!Invalid,
           Sockets!WatchBecomes(Sockets!AddedIf(c, Sockets!Watched, Sockets!Bind(o, a).fd)),
           watching' = watching, alive' = alive
    PROVE  SocketInv'
<1> DEFINE b == Sockets!Bind(o, a)
           w == Sockets!AddedIf(c, Sockets!Watched, b.fd)
<1>1. /\ b.fd \in Descriptors \cup {Sockets!Invalid} /\ b.bound \in BOOLEAN
      /\ \/ b.fd = fd[o]
         \/ fd[o] = Sockets!Invalid /\ b.fd \in Descriptors \ opened
  BY BindGives, Zenon
<1>2. /\ fd' = [fd EXCEPT ![o] = b.fd] /\ bound' = [bound EXCEPT ![o] = b.bound]
      /\ opened' = IF b.fd = Sockets!Invalid THEN opened ELSE opened \cup {b.fd}
  BY DEF Sockets!Open
<1>3. Sockets!WatchBecomes(w) /\ (c => b.fd # Sockets!Invalid /\ watching[o])
  OBVIOUS
<1> HIDE DEF b
<1>4. Ordered(w) /\ \A g : Holds(w, g) => (c /\ g = b.fd) \/ Holds(Sockets!Watched, g)
  <2>1. c => b.fd \in Descriptors
    BY <1>1, <1>3
  <2>2. Ordered(Sockets!Watched)
    BY DEF SocketInv
  <2> QED
    BY <2>1, <2>2, AddedIfTable
<1>5. \A g : Holds(w, g) => \/ g = b.fd /\ o \in alive' /\ watching'[o]
                            \/ Holds(Sockets!Watched, g) /\ g # fd[o]
  <2> SUFFICES ASSUME NEW g, Holds(w, g)
               PROVE  \/ g = b.fd /\ o \in alive' /\ watching'[o]
                      \/ Holds(Sockets!Watched, g) /\ g # fd[o]
    OBVIOUS
  <2> HIDE DEF w
  <2>1. CASE c /\ g = b.fd
    BY <1>3, <2>1
  <2>2. CASE Holds(Sockets!Watched, g) /\ (~ watching[o] \/ fd[o] = Sockets!Invalid)
    BY <2>2, NotWatched
  <2>3. CASE Holds(Sockets!Watched, g) /\ watching[o] /\ b.fd = fd[o]
    BY <2>3
  <2> QED
    BY <1>1, <1>4, <2>1, <2>2, <2>3
<1>6. \A u \in Objects \ {o} : fd[u] # Sockets!Invalid => fd[u] # b.fd /\ fd[u] \in opened'
  BY <1>1, <1>2 DEF SocketInv, Owned
<1>7. b.fd # Sockets!Invalid => o \in alive' /\ b.fd \in opened'
  BY <1>2
<1>8. /\ bound' \in [Objects -> BOOLEAN] /\ watching' \in [Objects -> BOOLEAN]
      /\ alive' \subseteq Objects /\ opened' \subseteq Descriptors
  BY <1>1, <1>2 DEF SocketInv, SocketTypes
<1>9. \A u \in Objects \ {o} : watching'[u] = watching[u] /\ (u \in alive' <=> u \in alive)
  OBVIOUS
<1>10. o \notin alive' => ~ watching'[o]
  OBVIOUS
<1> HIDE DEF w
<1> QED
  BY <1>1, <1>2, <1>3, <1>4, <1>5, <1>6, <1>7, <1>8, <1>9, <1>10, OneChanges

LEMMA ConnectToStep ==
    ASSUME SocketInv, NEW o \in Objects, NEW a \in Sockets!Attempts, Sockets!ConnectTo(o, a)
    PROVE  SocketInv'
<1> DEFINE b == Sockets!Bind(o, a)
           connected == b.goes /\ a.name /\ b.fd # Sockets!Invalid /\ a.reach
           c == connected /\ watching[o]
<1>1. /\ o \in alive /\ Sockets!Open(o, b) /\ watching' = watching /\ alive' = alive
      /\ Sockets!WatchBecomes(Sockets!AddedIf(c, Sockets!Watched, b.fd))
  BY DEF Sockets!ConnectTo
<1>2. c \in BOOLEAN
  <2>1. b.goes \in BOOLEAN
    BY BindGives, Zenon
  <2>2. a.name \in BOOLEAN /\ a.reach \in BOOLEAN /\ watching[o] \in BOOLEAN
    BY DEF Sockets!Attempts, SocketInv, SocketTypes
  <2> HIDE DEF b
  <2> QED
    BY <2>1, <2>2
<1>3. c => watching[o] /\ b.fd # Sockets!Invalid
  OBVIOUS
<1> HIDE DEF c
<1> QED
  BY <1>1, <1>2, <1>3, OpensOne

LEMMA ListenOnStep ==
    ASSUME SocketInv, NEW o \in Objects, NEW a \in Sockets!Attempts, Sockets!ListenOn(o, a)
    PROVE  SocketInv'
<1> DEFINE b == Sockets!Bind(o, a)
           c == b.goes /\ watching[o]
<1>1. /\ o \in alive /\ Sockets!Open(o, b) /\ watching' = watching /\ alive' = alive
      /\ Sockets!WatchBecomes(Sockets!AddedIf(c, Sockets!Watched, b.fd))
      /\ bound[o] => fd[o] # Sockets!Invalid
  BY DEF Sockets!ListenOn
<1>2. /\ b.goes \in BOOLEAN /\ (b.goes => b.fd # Sockets!Invalid \/ bound[o])
      /\ \/ b.fd = fd[o]
         \/ fd[o] = Sockets!Invalid /\ b.fd \in Descriptors \ opened
  BY BindGives, Zenon
<1> HIDE DEF b
<1>3. c \in BOOLEAN /\ (c => watching[o] /\ b.fd # Sockets!Invalid)
  <2>1. watching[o] \in BOOLEAN
    BY DEF SocketInv, SocketTypes
  <2>2. b.goes => b.fd # Sockets!Invalid
    BY <1>1, <1>2
  <2> QED
    BY <1>2, <2>1, <2>2
<1> USE DEF b
<1> HIDE DEF c
<1> QED
  BY <1>1, <1>3, OpensOne

LEMMA AcceptFromStep ==
    ASSUME SocketInv, NEW o \in Objects, NEW new \in Objects, Sockets!AcceptFrom(o, new)
    PROVE  SocketInv'
<1> DEFINE f == Sockets!NewFd(opened)
<1>1. /\ o \in alive /\ new \notin alive
      /\ watching' = watching /\ fds' = fds /\ fdCount' = fdCount
  BY DEF Sockets!AcceptFrom
<1>2. CASE Sockets!CanOpen(opened)
  <2>1. f \in Descriptors \ opened
    BY <1>2, NewDescriptor DEF SocketInv, SocketTypes
  <2>2. /\ fd' = [fd EXCEPT ![new] = f] /\ opened' = opened \cup {f}
        /\ bound' = [bound EXCEPT ![new] = TRUE] /\ alive' = alive \cup {new}
    BY <1>2 DEF Sockets!AcceptFrom
  <2> HIDE DEF f
  <2>3. fd[new] = Sockets!Invalid /\ ~ watching[new]
    BY <1>1 DEF SocketInv, Owned
  <2>4. \A g : Holds(Sockets!Watched, g) => g # fd[new]
    BY <2>3, NotWatched
  <2>5. Sockets!WatchBecomes(Sockets!Watched) /\ Ordered(Sockets!Watched)
    BY <1>1 DEF Sockets!WatchBecomes, Sockets!Watched, SocketInv
  <2>6. /\ bound' \in [Objects -> BOOLEAN] /\ watching' \in [Objects -> BOOLEAN]
        /\ alive' \subseteq Objects /\ opened' \subseteq Descriptors
    BY <1>1, <2>1, <2>2 DEF SocketInv, SocketTypes
  <2>7. \A u \in Objects \ {new} : fd[u] # Sockets!Invalid => fd[u] # f /\ fd[u] \in opened'
    BY <2>1, <2>2 DEF SocketInv, Owned
  <2>8. \A u \in Objects \ {new} : watching'[u] = watching[u] /\ (u \in alive' <=> u \in alive)
    BY <1>1, <2>2
  <2>9. /\ f # Sockets!Invalid => new \in alive' /\ f \in opened'
        /\ new \notin alive' => ~ watching'[new]
    BY <2>2
  <2> QED
    BY <2>1, <2>2, <2>4, <2>5, <2>6, <2>7, <2>8, <2>9, OneChanges
<1>3. CASE ~ Sockets!CanOpen(opened)
  <2>1. fd' = fd /\ bound' = bound /\ alive' = alive /\ opened' = opened
    BY <1>3 DEF Sockets!AcceptFrom
  <2>2. SocketTypes' /\ Owned'
    BY <1>1, <2>1 DEF SocketInv, SocketTypes, Owned
  <2>3. Ordered(Sockets!Watched)' /\ Wanted'
    BY <1>1, <2>1 DEF SocketInv, Ordered, Wanted, Holds, Sockets!Watched, Sockets!Cells, Descriptors
  <2> QED
    BY <2>2, <2>3 DEF SocketInv
<1> QED
  BY <1>2, <1>3

(* The descriptor of o taken out of the table, if o is watched, and f put  *)
(* in for it, if it is to be watched.                                      *)
LEMMA ReplacesOne ==
    ASSUME SocketInv, NEW o \in Objects, NEW f \in Descriptors \cup {Sockets!Invalid},
           NEW c \in BOOLEAN, c => f # Sockets!Invalid /\ o \in alive' /\ watching'[o],
           NEW r \in BOOLEAN, r = (watching[o] /\ fd[o] # Sockets!Invalid),
           Sockets!WatchBecomes(Sockets!AddedIf(c, Sockets!RemovedIf(r, Sockets!Watched, fd[o]), f)),
           fd' = [fd EXCEPT ![o] = f],
           bound' \in [Objects -> BOOLEAN], watching' \in [Objects -> BOOLEAN],
           alive' \subseteq Objects, opened' \subseteq Descriptors,
           \A u \in Objects \ {o} : watching'[u] = watching[u] /\ (u \in alive' <=> u \in alive),
           \A u \in Objects \ {o} : fd[u] # Sockets!Invalid => fd[u] # f /\ fd[u] \in opened',
           f # Sockets!Invalid => o \in alive' /\ f \in opened',
           o \notin alive' => ~ watching'[o]
    PROVE  SocketInv'
<1> DEFINE v == Sockets!RemovedIf(r, Sockets!Watched, fd[o])
           w == Sockets!AddedIf(c, v, f)
<1>1. Ordered(v) /\ \A g : Holds(v, g) => Holds(Sockets!Watched, g) /\ (r => g # fd[o])
  <2>1. Ordered(Sockets!Watched)
    BY DEF SocketInv
  <2> QED
    BY <2>1, RemovedIfTable
<1>2. \A g : Holds(v, g) => Holds(Sockets!Watched, g) /\ g # fd[o]
  <2> SUFFICES ASSUME NEW g, Holds(v, g) PROVE Holds(Sockets!Watched, g) /\ g # fd[o]
    OBVIOUS
  <2> HIDE DEF v
  <2>1. Holds(Sockets!Watched, g)
    BY <1>1
  <2>2. CASE r
    BY <1>1, <2>1, <2>2
  <2>3. CASE ~ watching[o] \/ fd[o] = Sockets!Invalid
    BY <2>1, <2>3, NotWatched
  <2> QED
    BY <2>2, <2>3
<1> HIDE DEF v
<1>3. c => f \in Descriptors
  OBVIOUS
<1>4. Ordered(w) /\ \A g : Holds(w, g) => (c /\ g = f) \/ Holds(v, g)
  BY <1>1, <1>3, AddedIfTable
<1>5. Sockets!WatchBecomes(w)
  BY DEF v
<1> HIDE DEF w
<1>6. \A g : Holds(w, g) => \/ g = f /\ o \in alive' /\ watching'[o]
                            \/ Holds(Sockets!Watched, g) /\ g # fd[o]
  BY <1>2, <1>4
<1> QED
  BY <1>4, <1>5, <1>6, OneChanges

(* Taking out what is not a descriptor changes nothing.                    *)
LEMMA RemovesNothing ==
    ASSUME SocketInv, NEW o \in Objects
    PROVE  Sockets!RemovedIf(watching[o], Sockets!Watched, fd[o])
             = Sockets!RemovedIf(watching[o] /\ fd[o] # Sockets!Invalid, Sockets!Watched, fd[o])
<1>1. CASE fd[o] = Sockets!Invalid
  <2>1. \A i \in 1 .. Sockets!Watched.count : Sockets!Watched.table[i] # fd[o]
    BY <1>1, SocketsAssumption DEF SocketInv, Ordered, Descriptors, Sockets!Invalid
  <2>2. Sockets!RemIO(Sockets!Watched, fd[o]) = Sockets!Watched
    BY <2>1 DEF Sockets!RemIO
  <2> QED
    BY <1>1, <2>2 DEF Sockets!RemovedIf
<1>2. CASE fd[o] # Sockets!Invalid
  BY <1>2 DEF Sockets!RemovedIf
<1> QED
  BY <1>1, <1>2

LEMMA ReconnectStep ==
    ASSUME SocketInv, NEW o \in Objects, NEW a \in Sockets!Attempts, Sockets!Reconnect(o, a)
    PROVE  SocketInv'
<1> DEFINE closed == opened \ {fd[o]}
           f == IF a.socket /\ Sockets!CanOpen(closed) THEN Sockets!NewFd(closed) ELSE Sockets!Invalid
           c == f # Sockets!Invalid /\ a.bind /\ a.reach /\ watching[o]
           r == watching[o] /\ fd[o] # Sockets!Invalid
<1>1. /\ o \in alive /\ watching' = watching /\ alive' = alive
      /\ fd' = [fd EXCEPT ![o] = f]
      /\ opened' = IF f = Sockets!Invalid THEN closed ELSE closed \cup {f}
      /\ bound' = [bound EXCEPT ![o] = IF f = Sockets!Invalid THEN @ ELSE FALSE]
  BY DEF Sockets!Reconnect
<1>2. Sockets!WatchBecomes(Sockets!AddedIf(c, Sockets!RemovedIf(r, Sockets!Watched, fd[o]), f))
  BY DEF Sockets!Reconnect
<1>3. closed \subseteq Descriptors /\ f \in (Descriptors \ closed) \cup {Sockets!Invalid}
  <2>1. closed \subseteq Descriptors
    BY DEF SocketInv, SocketTypes
  <2> HIDE DEF closed
  <2> QED
    BY <2>1, NewDescriptor
<1>4. c \in BOOLEAN /\ r \in BOOLEAN
  <2>1. watching[o] \in BOOLEAN /\ a.bind \in BOOLEAN /\ a.reach \in BOOLEAN
    BY DEF SocketInv, SocketTypes, Sockets!Attempts
  <2> HIDE DEF f
  <2> QED
    BY <2>1
<1>5. \A u \in Objects \ {o} : fd[u] # Sockets!Invalid => fd[u] \in closed /\ fd[u] # f
  <2>1. \A u \in Objects \ {o} : fd[u] # Sockets!Invalid => fd[u] \in closed
    BY DEF SocketInv, Owned
  <2> HIDE DEF f, closed
  <2> QED
    BY <1>3, <2>1
<1> HIDE DEF f, closed
<1>6. /\ bound' \in [Objects -> BOOLEAN] /\ watching' \in [Objects -> BOOLEAN]
      /\ alive' \subseteq Objects /\ opened' \subseteq Descriptors
  BY <1>1, <1>3 DEF SocketInv, SocketTypes
<1>7. \A u \in Objects \ {o} : fd[u] # Sockets!Invalid => fd[u] # f /\ fd[u] \in opened'
  BY <1>1, <1>5
<1>8. /\ f # Sockets!Invalid => o \in alive' /\ f \in opened'
      /\ o \notin alive' => ~ watching'[o]
      /\ c => f # Sockets!Invalid /\ o \in alive' /\ watching'[o]
      /\ \A u \in Objects \ {o} : watching'[u] = watching[u] /\ (u \in alive' <=> u \in alive)
  BY <1>1
<1>9. f \in Descriptors \cup {Sockets!Invalid} /\ r = (watching[o] /\ fd[o] # Sockets!Invalid)
  BY <1>3
<1> HIDE DEF c, r
<1> QED
  BY <1>1, <1>2, <1>4, <1>6, <1>7, <1>8, <1>9, ReplacesOne

(* Closing, by closeSocket or by the destructor.                           *)
LEMMA ClosesOne ==
    ASSUME SocketInv, NEW o \in Objects,
           Sockets!WatchBecomes(Sockets!RemovedIf(watching[o] /\ fd[o] # Sockets!Invalid,
                                                  Sockets!Watched, fd[o])),
           fd' = [fd EXCEPT ![o] = Sockets!Invalid], opened' = opened \ {fd[o]},
           bound' \in [Objects -> BOOLEAN], watching' \in [Objects -> BOOLEAN],
           alive' \subseteq Objects,
           \A u \in Objects \ {o} : watching'[u] = watching[u] /\ (u \in alive' <=> u \in alive),
           o \notin alive' => ~ watching'[o]
    PROVE  SocketInv'
<1> DEFINE r == watching[o] /\ fd[o] # Sockets!Invalid
           f == Sockets!Invalid
<1>1. r \in BOOLEAN
  BY DEF SocketInv, SocketTypes
<1>2. Sockets!WatchBecomes(Sockets!AddedIf(FALSE, Sockets!RemovedIf(r, Sockets!Watched, fd[o]), f))
  BY DEF Sockets!AddedIf
<1>3. opened' \subseteq Descriptors
  BY DEF SocketInv, SocketTypes
<1>4. \A u \in Objects \ {o} : fd[u] # Sockets!Invalid => fd[u] # f /\ fd[u] \in opened'
  BY DEF SocketInv, Owned
<1>5. r = (watching[o] /\ fd[o] # Sockets!Invalid) /\ f \in Descriptors \cup {Sockets!Invalid}
  OBVIOUS
<1>6. f = Sockets!Invalid
  OBVIOUS
<1> HIDE DEF r, f
<1> QED
  BY <1>1, <1>2, <1>3, <1>4, <1>5, <1>6, ReplacesOne

LEMMA CloseSocketStep ==
    ASSUME SocketInv, NEW o \in Objects, Sockets!CloseSocket(o)
    PROVE  SocketInv'
<1>1. /\ Sockets!WatchBecomes(Sockets!RemovedIf(watching[o], Sockets!Watched, fd[o]))
      /\ fd' = [fd EXCEPT ![o] = Sockets!Invalid] /\ opened' = opened \ {fd[o]}
      /\ bound' = bound /\ watching' = watching /\ alive' = alive
  BY DEF Sockets!CloseSocket
<1>2. Sockets!WatchBecomes(Sockets!RemovedIf(watching[o] /\ fd[o] # Sockets!Invalid,
                                             Sockets!Watched, fd[o]))
  BY <1>1, RemovesNothing
<1>3. /\ bound' \in [Objects -> BOOLEAN] /\ watching' \in [Objects -> BOOLEAN]
      /\ alive' \subseteq Objects
      /\ \A u \in Objects \ {o} : watching'[u] = watching[u] /\ (u \in alive' <=> u \in alive)
      /\ o \notin alive' => ~ watching'[o]
  BY <1>1 DEF SocketInv, SocketTypes, Owned
<1> QED
  BY <1>1, <1>2, <1>3, ClosesOne

LEMMA DeleteStep ==
    ASSUME SocketInv, NEW o \in Objects, Sockets!Delete(o)
    PROVE  SocketInv'
<1>1. /\ Sockets!WatchBecomes(Sockets!RemovedIf(watching[o] /\ fd[o] # Sockets!Invalid,
                                                Sockets!Watched, fd[o]))
      /\ fd' = [fd EXCEPT ![o] = Sockets!Invalid] /\ opened' = opened \ {fd[o]}
      /\ bound' = [bound EXCEPT ![o] = FALSE] /\ watching' = [watching EXCEPT ![o] = FALSE]
      /\ alive' = alive \ {o}
  BY DEF Sockets!Delete
<1>2. /\ bound' \in [Objects -> BOOLEAN] /\ watching' \in [Objects -> BOOLEAN]
      /\ alive' \subseteq Objects
      /\ \A u \in Objects \ {o} : watching'[u] = watching[u] /\ (u \in alive' <=> u \in alive)
      /\ o \notin alive' => ~ watching'[o]
  BY <1>1 DEF SocketInv, SocketTypes
<1> QED
  BY <1>1, <1>2, ClosesOne

LEMMA SetWatchStep ==
    ASSUME SocketInv, NEW o \in Objects, NEW on \in BOOLEAN, Sockets!SetWatch(o, on)
    PROVE  SocketInv'
<1> DEFINE c == on /\ fd[o] # Sockets!Invalid
           r == watching[o] /\ fd[o] # Sockets!Invalid
           f == fd[o]
<1>1. /\ o \in alive /\ watching' = [watching EXCEPT ![o] = on]
      /\ Sockets!WatchBecomes(Sockets!AddedIf(c, Sockets!RemovedIf(watching[o], Sockets!Watched, fd[o]), fd[o]))
      /\ fd' = fd /\ bound' = bound /\ alive' = alive /\ opened' = opened
  BY DEF Sockets!SetWatch
<1>2. Sockets!WatchBecomes(Sockets!AddedIf(c, Sockets!RemovedIf(r, Sockets!Watched, fd[o]), f))
  BY <1>1, RemovesNothing
<1>3. /\ c \in BOOLEAN /\ r \in BOOLEAN /\ r = (watching[o] /\ fd[o] # Sockets!Invalid)
      /\ f \in Descriptors \cup {Sockets!Invalid}
      /\ fd' = [fd EXCEPT ![o] = f]
  BY <1>1 DEF SocketInv, SocketTypes
<1>4. /\ bound' \in [Objects -> BOOLEAN] /\ watching' \in [Objects -> BOOLEAN]
      /\ alive' \subseteq Objects /\ opened' \subseteq Descriptors
      /\ \A u \in Objects \ {o} : watching'[u] = watching[u] /\ (u \in alive' <=> u \in alive)
      /\ watching'[o] = on
  BY <1>1 DEF SocketInv, SocketTypes
<1>5. \A u \in Objects \ {o} : fd[u] # Sockets!Invalid => fd[u] # f /\ fd[u] \in opened'
  BY <1>1 DEF SocketInv, Owned
<1>6. /\ f # Sockets!Invalid => o \in alive' /\ f \in opened'
      /\ o \notin alive' => ~ watching'[o]
      /\ c => f # Sockets!Invalid /\ o \in alive' /\ watching'[o]
  BY <1>1, <1>4 DEF SocketInv, Owned
<1> HIDE DEF c, r, f
<1> QED
  BY <1>2, <1>3, <1>4, <1>5, <1>6, ReplacesOne

LEMMA SocketsInitInv ==
    ASSUME Init
    PROVE  SocketInv
<1>1. Sockets!SocketsInit
  BY DEF Init
<1>2. LastFd \in Nat /\ Sockets!Invalid = -1
  BY SocketsAssumption DEF Sockets!Invalid
<1>3. SocketTypes /\ Owned
  BY <1>1, <1>2 DEF Sockets!SocketsInit, SocketTypes, Owned
<1>4. Ordered(Sockets!Watched)
  BY <1>1, <1>2 DEF Sockets!SocketsInit, Ordered, Sockets!Watched
<1>5. Wanted
  BY <1>1 DEF Sockets!SocketsInit, Wanted, Holds, Sockets!Watched
<1> QED
  BY <1>3, <1>4, <1>5 DEF SocketInv

LEMMA SocketsNextInv ==
    ASSUME SocketInv, Sockets!SocketsNext
    PROVE  SocketInv'
<1>1. PICK o \in Objects :
        \/ Sockets!New(o) \/ Sockets!CloseSocket(o) \/ Sockets!Delete(o)
        \/ \E on \in BOOLEAN : Sockets!SetWatch(o, on)
        \/ \E a \in Sockets!Attempts :
              Sockets!ConnectTo(o, a) \/ Sockets!ListenOn(o, a) \/ Sockets!Reconnect(o, a)
        \/ \E new \in Objects : Sockets!AcceptFrom(o, new)
  BY DEF Sockets!SocketsNext
<1> QED
  BY <1>1, NewStep, CloseSocketStep, DeleteStep, SetWatchStep, ConnectToStep, ListenOnStep,
     ReconnectStep, AcceptFromStep

LEMMA SocketInvKept ==
    ASSUME SocketInv, UNCHANGED socketsVars
    PROVE  SocketInv'
<1>1. /\ fd' = fd /\ bound' = bound /\ watching' = watching /\ alive' = alive /\ opened' = opened
      /\ fds' = fds /\ fdCount' = fdCount
  BY DEF socketsVars
<1>2. SocketTypes' /\ Owned'
  BY <1>1 DEF SocketInv, SocketTypes, Owned
<1>3. Ordered(Sockets!Watched)' /\ Wanted'
  BY <1>1 DEF SocketInv, Ordered, Wanted, Holds, Sockets!Watched, Sockets!Cells, Descriptors
<1> QED
  BY <1>2, <1>3 DEF SocketInv

-----------------------------------------------------------------------------
(* Framing: what is under way is always the rest of what was sent.         *)

Byte == Nat \X Nat
Bytes == Seq(Byte)
a ++ b == a \o b

FramingTypes ==
    /\ wire \in Bytes /\ unsent \in Bytes /\ body \in Bytes
    /\ sent \in Seq(Nat \X Nat) /\ received \in Seq(Nat \X Nat)
    /\ \A i \in DOMAIN sent : sent[i][1] = i
    /\ peers \in {"up", "sender", "receiver"}
    /\ expected = -1 => body = <<>>
    /\ expected # -1 => expected \in Nat /\ Len(body) < expected

FrameOf(i, l) == Framing!Header(l) ++ Framing!Body(i, l)

(* at[i] are the bytes of the first i messages.                            *)
Cuts(at) ==
    /\ at \in [0 .. Len(sent) -> Bytes] /\ at[0] = <<>>
    /\ \A i \in 1 .. Len(sent) : at[i] = at[i - 1] ++ FrameOf(i, sent[i][2])

(* What the receiver has of the first k messages: those not empty.         *)
Got(k) ==
    /\ \A i, j \in DOMAIN received : i < j => received[i][1] < received[j][1]
    /\ Range(received) = {sent[i] : i \in {j \in 1 .. k : Framing!NotEmpty(sent[j])}}

(* What it has read of the message after those.                            *)
Begun == IF expected = -1 THEN <<>> ELSE Framing!Header(expected) ++ body

(* rest is still to be written, or lost if the sender has given up.        *)
Flowing(at, k, rest) ==
    /\ at[k] ++ (Begun ++ (wire ++ rest)) = at[Len(sent)]
    /\ peers = "up" => rest = unsent
    /\ peers \in {"up", "sender"} /\ (peers = "sender" => unsent = <<>>)
    /\ expected # -1 => k < Len(sent) /\ expected = sent[k + 1][2]

Stopped == peers = "receiver" /\ expected = -1

FramingInv ==
    /\ FramingTypes
    /\ \E at : \E k \in 0 .. Len(sent) :
          /\ Cuts(at) /\ Got(k)
          /\ Stopped \/ \E rest \in Bytes : Flowing(at, k, rest)

(* Bytes in a row, however they are grouped.                               *)
LEMMA Together == \A a, b \in Bytes : a ++ b \in Bytes
BY ConcatProperties DEF Bytes, ++

LEMMA Regroup == \A a, b, c \in Bytes : (a ++ b) ++ c = a ++ (b ++ c)
BY ConcatAssociative DEF Bytes, ++

LEMMA NoBytes == <<>> \in Bytes /\ \A a \in Bytes : a ++ <<>> = a /\ <<>> ++ a = a
BY ConcatEmptySeq, EmptySeq DEF Bytes, ++

LEMMA Cancel == \A a, b, c \in Bytes : a ++ b = a ++ c => b = c
BY ConcatSimplifications DEF Bytes, ++

LEMMA AfterPrefix ==
    ASSUME NEW p \in Bytes, NEW h \in Bytes, NEW b \in Bytes, NEW more \in Bytes,
           NEW x \in Bytes, p ++ x = (p ++ (h ++ b)) ++ more
    PROVE  x = h ++ (b ++ more)
<1>1. h ++ b \in Bytes /\ h ++ (b ++ more) \in Bytes
  BY Together, Zenon
<1>2. p ++ x = p ++ (h ++ (b ++ more))
  BY <1>1, Regroup
<1> QED
  BY <1>1, <1>2, Cancel

LEMMA FrameIsBytes ==
    ASSUME NEW l \in Nat, NEW i \in Nat
    PROVE  /\ Framing!Header(l) \in Bytes /\ Len(Framing!Header(l)) = HeaderLen
           /\ Framing!Body(i, l) \in Bytes /\ Len(Framing!Body(i, l)) = l
           /\ \A j \in 1 .. HeaderLen : Framing!Header(l)[j] = <<0, l>>
           /\ \A j \in 1 .. l : Framing!Body(i, l)[j] = <<i, j>>
           /\ FrameOf(i, l) \in Bytes
<1>1. HeaderLen \in Nat
  BY FramingAssumption
<1>2. /\ Framing!Header(l) \in Bytes /\ Len(Framing!Header(l)) = HeaderLen
      /\ \A j \in 1 .. HeaderLen : Framing!Header(l)[j] = <<0, l>>
  BY <1>1 DEF Framing!Header, Byte, Bytes
<1>3. /\ Framing!Body(i, l) \in Bytes /\ Len(Framing!Body(i, l)) = l
      /\ \A j \in 1 .. l : Framing!Body(i, l)[j] = <<i, j>>
  BY DEF Framing!Body, Byte, Bytes
<1>4. FrameOf(i, l) \in Bytes
  BY <1>2, <1>3, Together DEF FrameOf
<1> QED
  BY <1>2, <1>3, <1>4

(* Equal streams, cut at the same place.                                   *)
LEMMA SameCut ==
    \A a, b, c, d \in Bytes : a ++ b = c ++ d /\ Len(a) = Len(c) => a = c /\ b = d
<1> SUFFICES ASSUME NEW a \in Bytes, NEW b \in Bytes, NEW c \in Bytes, NEW d \in Bytes,
                    a ++ b = c ++ d, Len(a) = Len(c)
             PROVE  a = c /\ b = d
  BY Zenon
<1>1. /\ Len(a) \in Nat /\ Len(b) \in Nat /\ Len(d) \in Nat
      /\ \A i \in 1 .. Len(a) : (a \o b)[i] = a[i] /\ (c \o d)[i] = c[i]
  BY ConcatProperties, LenProperties DEF Bytes
<1>2. a = c
  BY <1>1, SeqEqual DEF Bytes, ++
<1> QED
  BY <1>2, Cancel

(* A stream and its first n elements.                                      *)
LEMMA FirstOf ==
    ASSUME NEW S, NEW s \in Seq(S), NEW n \in 1 .. Len(s)
    PROVE  /\ SubSeq(s, 1, n) \in Seq(S) /\ SubSeq(s, n + 1, Len(s)) \in Seq(S)
           /\ s = SubSeq(s, 1, n) \o SubSeq(s, n + 1, Len(s))
           /\ Len(SubSeq(s, 1, n)) = n /\ SubSeq(s, 1, n)[1] = s[1]
<1>1. Len(s) \in Nat /\ \A i \in 1 .. Len(s) : s[i] \in S
  BY LenProperties, ElementOfSeq
<1>2. /\ SubSeq(s, 1, n) \in Seq(S) /\ Len(SubSeq(s, 1, n)) = n
      /\ SubSeq(s, 1, n)[1] = s[1]
  BY <1>1, SubSeqProperties
<1>3. SubSeq(s, n + 1, Len(s)) \in Seq(S)
  BY <1>1, SubSeqProperties
<1>4. 1 \in 1 .. Len(s) + 1 /\ n \in 0 .. Len(s) /\ Len(s) \in n .. Len(s)
  BY <1>1
<1>5. SubSeq(s, 1, n) \o SubSeq(s, n + 1, Len(s)) = SubSeq(s, 1, Len(s))
  BY <1>4, ConcatAdjacentSubSeq
<1> QED
  BY <1>2, <1>3, <1>5, SubSeqFull

LEMMA CutAt ==
    ASSUME NEW s \in Bytes, NEW n \in 1 .. Len(s)
    PROVE  \E u \in Bytes, v \in Bytes :
              /\ u = SubSeq(s, 1, n) /\ v = SubSeq(s, n + 1, Len(s)) /\ s = u ++ v
              /\ Len(u) = n /\ u[1] = s[1]
<1>1. /\ SubSeq(s, 1, n) \in Seq(Byte) /\ SubSeq(s, n + 1, Len(s)) \in Seq(Byte)
      /\ s = SubSeq(s, 1, n) \o SubSeq(s, n + 1, Len(s))
      /\ Len(SubSeq(s, 1, n)) = n /\ SubSeq(s, 1, n)[1] = s[1]
  BY FirstOf DEF Bytes
<1> QED
  BY <1>1, Zenon DEF Bytes, ++

LEMMA CutsGrow ==
    ASSUME FramingTypes, NEW at, Cuts(at), NEW k \in 0 .. Len(sent)
    PROVE  \A j \in k .. Len(sent) : \E more \in Bytes : at[j] = at[k] ++ more
<1>0. PICK m \in Nat : m = Len(sent)
  BY LenProperties DEF FramingTypes
<1>00. k \in Nat /\ k <= m
  BY <1>0
<1>000. PICK p \in Bytes : p = at[k]
  BY DEF Cuts
<1> DEFINE T == {n \in Nat : k + n <= m => \E more \in Bytes : at[k + n] = p ++ more}
<1>1. 0 \in T
  <2>1. at[k] = p ++ <<>> /\ <<>> \in Bytes
    BY <1>000, NoBytes
  <2>2. k + 0 = k
    BY <1>00
  <2> QED
    BY <2>1, <2>2
<1>2. ASSUME NEW n \in T PROVE n + 1 \in T
  <2>0. n \in Nat /\ n + 1 \in Nat
    OBVIOUS
  <2> SUFFICES ASSUME k + (n + 1) <= m
               PROVE  \E more \in Bytes : at[k + (n + 1)] = p ++ more
    BY <2>0
  <2>1. PICK i \in 1 .. m : i = k + (n + 1) /\ i - 1 = k + n /\ i \in Nat /\ k + n <= m
    BY <1>0, <1>00, <2>0
  <2>2. PICK more \in Bytes : at[k + n] = p ++ more
    BY <2>1
  <2>3. sent[i] \in Nat \X Nat
    BY <1>0, <2>1, ElementOfSeq DEF FramingTypes
  <2>4. PICK l \in Nat : l = sent[i][2]
    BY <2>3
  <2>5. PICK f \in Bytes : f = FrameOf(i, l)
    BY <2>1, FrameIsBytes, Zenon
  <2>6. at[i] = (p ++ more) ++ f
    BY <1>0, <2>1, <2>2, <2>4, <2>5 DEF Cuts
  <2>60. (p ++ more) ++ f = p ++ (more ++ f)
    BY Regroup
  <2>7. more ++ f \in Bytes
    BY Together
  <2> QED
    BY <2>1, <2>6, <2>60, <2>7
<1>3. T = Nat
  <2>1. T \in SUBSET Nat
    OBVIOUS
  <2> HIDE DEF T
  <2> QED
    BY <1>1, <1>2, <2>1, Induction
<1>4. ASSUME NEW j \in k .. m PROVE \E more \in Bytes : at[j] = at[k] ++ more
  <2>1. PICK n \in Nat : k + n = j
    BY <1>00
  <2>2. n \in T
    BY <1>3
  <2>3. k + n <= m
    BY <1>00, <2>1
  <2> QED
    BY <1>000, <2>1, <2>2, <2>3
<1> QED
  BY <1>0, <1>4

(* What follows the first k messages, if anything does, is another one.    *)
LEMMA NextFrame ==
    ASSUME FramingTypes, NEW at, Cuts(at), NEW k \in 0 .. Len(sent),
           NEW x \in Bytes, x # <<>>, at[k] ++ x = at[Len(sent)]
    PROVE  /\ k + 1 \in 1 .. Len(sent) /\ sent[k + 1] \in Nat \X Nat /\ sent[k + 1][1] = k + 1
           /\ \E more \in Bytes :
                x = Framing!Header(sent[k + 1][2]) ++ (Framing!Body(k + 1, sent[k + 1][2]) ++ more)
<1>0. PICK m \in Nat : m = Len(sent) /\ DOMAIN sent = 1 .. m
  BY LenProperties DEF FramingTypes
<1>00. k \in Nat /\ k <= m
  BY <1>0
<1>1. PICK p \in Bytes : p = at[k]
  BY DEF Cuts
<1>2. k # m
  <2> SUFFICES ASSUME k = m PROVE FALSE
    OBVIOUS
  <2>1. p ++ x = p
    BY <1>0, <1>1
  <2> QED
    BY <2>1, Cancel, NoBytes
<1>3. PICK i \in 1 .. m : i = k + 1 /\ i - 1 = k /\ i \in Nat
  BY <1>00, <1>2
<1>4. sent[i] \in Nat \X Nat /\ sent[i][1] = i
  BY <1>0, <1>3, ElementOfSeq DEF FramingTypes
<1>5. PICK l \in Nat : l = sent[i][2]
  BY <1>4
<1>6. Framing!Header(l) \in Bytes /\ Framing!Body(i, l) \in Bytes
  BY <1>3, FrameIsBytes, Zenon
<1>7. PICK h \in Bytes, b \in Bytes : h = Framing!Header(l) /\ b = Framing!Body(i, l)
  BY <1>6
<1>8. at[i] = p ++ (h ++ b)
  BY <1>0, <1>1, <1>3, <1>5, <1>7 DEF Cuts, FrameOf
<1>9. PICK more \in Bytes : at[m] = at[i] ++ more
  <2>1. i \in 0 .. Len(sent) /\ m \in i .. Len(sent)
    BY <1>0, <1>3
  <2> QED
    BY <2>1, CutsGrow
<1>10. p ++ x = (p ++ (h ++ b)) ++ more
  BY <1>0, <1>1, <1>8, <1>9, Zenon
<1>14. x = h ++ (b ++ more)
  BY <1>10, AfterPrefix
<1> QED
  BY <1>0, <1>3, <1>4, <1>5, <1>7, <1>14

LEMMA GotKept ==
    ASSUME FramingTypes, NEW k \in Nat, Got(k),
           received' = received, \A i \in 1 .. k : sent'[i] = sent[i]
    PROVE  Got(k)'
<1>1. {sent'[i] : i \in {j \in 1 .. k : Framing!NotEmpty(sent'[j])}}
      = {sent[i] : i \in {j \in 1 .. k : Framing!NotEmpty(sent[j])}}
  BY DEF Framing!NotEmpty
<1> QED
  BY <1>1 DEF Got, Framing!NotEmpty

LEMMA CutsKept ==
    ASSUME NEW at, Cuts(at), sent' = sent
    PROVE  Cuts(at)'
BY DEF Cuts, FrameOf, Framing!Header, Framing!Body

(* One side gives up: nothing more is received.                            *)
LEMMA StopStep ==
    ASSUME FramingInv, sent' = sent, received' = received,
           wire' \in Bytes, unsent' \in Bytes, body' = <<>>, expected' = -1, peers' = "receiver"
    PROVE  FramingInv'
<1>1. PICK at : \E k \in 0 .. Len(sent) : Cuts(at) /\ Got(k)
  BY DEF FramingInv
<1>10. PICK k \in 0 .. Len(sent) : Cuts(at) /\ Got(k)
  BY <1>1
<1>2. k \in Nat /\ FramingTypes
  BY LenProperties DEF FramingInv, FramingTypes
<1>3. Cuts(at)' /\ Got(k)'
  BY <1>10, <1>2, CutsKept, GotKept
<1>4. FramingTypes'
  BY <1>2, NoBytes DEF FramingTypes
<1> QED
  BY <1>3, <1>4 DEF FramingInv, Stopped

LEMMA UpFlows ==
    ASSUME FramingInv, peers = "up"
    PROVE  \E at : \E k \in 0 .. Len(sent) : Cuts(at) /\ Got(k) /\ Flowing(at, k, unsent)
<1>1. PICK at : \E k \in 0 .. Len(sent) :
         Cuts(at) /\ Got(k) /\ (Stopped \/ \E rest \in Bytes : Flowing(at, k, rest))
  BY DEF FramingInv
<1>2. PICK k \in 0 .. Len(sent) :
         Cuts(at) /\ Got(k) /\ (Stopped \/ \E rest \in Bytes : Flowing(at, k, rest))
  BY <1>1
<1>3. PICK rest \in Bytes : Flowing(at, k, rest)
  BY <1>2 DEF Stopped
<1>4. rest = unsent
  BY <1>3 DEF Flowing
<1> QED
  BY <1>2, <1>3, <1>4

(* What is sent goes behind all that is under way.                         *)
LEMMA SendBufferStoreStep ==
    ASSUME FramingInv, NEW l \in Nat, Framing!SendBufferStore(l)
    PROVE  FramingInv'
<1>0. FramingTypes
  BY DEF FramingInv
<1>1. PICK m \in Nat : m = Len(sent) /\ DOMAIN sent = 1 .. m
  BY <1>0, LenProperties DEF FramingTypes
<1>2. /\ peers = "up" /\ unsent = <<>> /\ unsent' = FrameOf(m + 1, l)
      /\ sent' = Append(sent, <<m + 1, l>>)
      /\ wire' = wire /\ received' = received /\ body' = body /\ expected' = expected /\ peers' = peers
  BY <1>1 DEF Framing!SendBufferStore, FrameOf, ++
<1>30. PICK at : \E k \in 0 .. m : Cuts(at) /\ Got(k) /\ Flowing(at, k, unsent)
  BY <1>1, <1>2, UpFlows
<1>3. PICK k \in 0 .. m : Cuts(at) /\ Got(k) /\ Flowing(at, k, unsent)
  BY <1>30
<1>4. /\ sent' \in Seq(Nat \X Nat) /\ Len(sent') = m + 1 /\ DOMAIN sent' = 1 .. m + 1
      /\ sent'[m + 1] = <<m + 1, l>> /\ \A i \in 1 .. m : sent'[i] = sent[i]
  <2>1. sent \in Seq(Nat \X Nat) /\ <<m + 1, l>> \in Nat \X Nat
    BY <1>0 DEF FramingTypes
  <2> QED
    BY <1>1, <1>2, <2>1, AppendProperties
<1>5. FrameOf(m + 1, l) \in Bytes
  BY FrameIsBytes, <1>1
<1>6. FramingTypes'
  <2>1. \A i \in 1 .. m + 1 : sent'[i][1] = i
    <3>1. \A i \in 1 .. m : sent'[i][1] = i
      BY <1>0, <1>1, <1>4 DEF FramingTypes
    <3>2. sent'[m + 1][1] = m + 1
      BY <1>4
    <3> QED
      BY <3>1, <3>2
  <2> QED
    BY <1>0, <1>2, <1>4, <1>5, <2>1 DEF FramingTypes
<1>7. PICK f \in Bytes : f = FrameOf(m + 1, l)
  BY <1>5
<1> DEFINE new == [i \in 0 .. m + 1 |-> IF i <= m THEN at[i] ELSE at[m] ++ f]
<1>8. at \in [0 .. m -> Bytes] /\ m \in 0 .. m /\ at[0] = <<>>
      /\ \A i \in 1 .. m : at[i] = at[i - 1] ++ FrameOf(i, sent[i][2])
  BY <1>1, <1>3 DEF Cuts
<1>9. new[m + 1] = at[m] ++ f /\ \A i \in 0 .. m : new[i] = at[i]
  OBVIOUS
<1>10. new \in [0 .. m + 1 -> Bytes]
  <2>1. at[m] ++ f \in Bytes
    BY <1>8, Together
  <2> QED
    BY <1>8, <2>1
<1> HIDE DEF new
<1>11. Cuts(new)'
  <2>1. ASSUME NEW i \in 1 .. m + 1 PROVE new[i] = new[i - 1] ++ FrameOf(i, sent'[i][2])
    <3>1. CASE i = m + 1
      <4>1. i - 1 = m /\ sent'[i][2] = l
        BY <1>1, <1>4, <3>1
      <4> QED
        BY <1>7, <1>8, <1>9, <3>1, <4>1
    <3>2. CASE i # m + 1
      <4>1. i \in 1 .. m /\ i \in 0 .. m /\ i - 1 \in 0 .. m
        BY <3>2
      <4> QED
        BY <1>4, <1>8, <1>9, <4>1
    <3> QED
      BY <3>1, <3>2
  <2>3. new[0] = <<>>
    BY <1>8, <1>9
  <2> QED
    BY <1>4, <1>10, <2>1, <2>3 DEF Cuts, FrameOf, Framing!Header, Framing!Body
<1>12. Got(k)'
  BY <1>0, <1>1, <1>2, <1>3, <1>4, GotKept
<1>13. Flowing(new, k, unsent)'
  <2>1. PICK p \in Bytes, b \in Bytes, w \in Bytes, z \in Bytes :
           p = at[k] /\ b = Begun /\ w = wire /\ z = at[m]
    <3>1. Begun \in Bytes
      BY <1>0, NoBytes, Together, FrameIsBytes DEF Begun, FramingTypes
    <3> QED
      BY <1>0, <1>3, <1>8, <3>1 DEF FramingTypes
  <2>2. p ++ (b ++ (w ++ <<>>)) = z
    BY <1>1, <1>2, <1>3, <2>1 DEF Flowing
  <2>3. p ++ (b ++ (w ++ f)) = z ++ f
    <3>1. p ++ (b ++ w) = z
      BY <2>2, NoBytes
    <3>2. (p ++ (b ++ w)) ++ f = p ++ (b ++ (w ++ f))
      BY Together, Regroup
    <3> QED
      BY <3>1, <3>2
  <2>4. Begun' = Begun
    BY <1>2 DEF Begun, Framing!Header
  <2>5. new[k] ++ (Begun' ++ (wire' ++ unsent')) = new[Len(sent')]
    BY <1>2, <1>3, <1>4, <1>7, <1>9, <2>1, <2>3, <2>4
  <2>6. expected # -1 => k < m + 1 /\ expected = sent'[k + 1][2]
    <3> SUFFICES ASSUME expected # -1 PROVE k < m + 1 /\ expected = sent'[k + 1][2]
      OBVIOUS
    <3>1. k < m /\ expected = sent[k + 1][2]
      BY <1>1, <1>3 DEF Flowing
    <3>2. PICK i \in 1 .. m : i = k + 1
      BY <3>1
    <3>3. sent'[i] = sent[i]
      BY <1>4
    <3> QED
      BY <3>1, <3>2, <3>3
  <2> QED
    BY <1>2, <1>4, <2>5, <2>6 DEF Flowing
<1>14. unsent' \in Bytes /\ k \in 0 .. Len(sent')
  BY <1>2, <1>4, <1>5
<1> QED
  BY <1>6, <1>11, <1>12, <1>13, <1>14 DEF FramingInv

(* What is written is no longer to be written, and is on the wire.         *)
LEMMA WriteStep ==
    ASSUME FramingInv, NEW n \in Nat \ {0}, Framing!Write(n)
    PROVE  FramingInv'
<1>0. FramingTypes
  BY DEF FramingInv
<1>1. /\ peers = "up" /\ n <= Len(unsent)
      /\ wire' = wire ++ SubSeq(unsent, 1, n)
      /\ sent' = sent /\ received' = received /\ body' = body /\ expected' = expected
      /\ \/ peers' = "sender" /\ unsent' = <<>>
         \/ peers' = "up" /\ unsent' = SubSeq(unsent, n + 1, Len(unsent))
  BY DEF Framing!Write, ++
<1>20. PICK at : \E k \in 0 .. Len(sent) : Cuts(at) /\ Got(k) /\ Flowing(at, k, unsent)
  BY <1>1, UpFlows
<1>2. PICK k \in 0 .. Len(sent) : Cuts(at) /\ Got(k) /\ Flowing(at, k, unsent)
  BY <1>20
<1>3. unsent \in Bytes /\ n \in 1 .. Len(unsent)
  <2>1. unsent \in Bytes /\ Len(unsent) \in Nat
    BY <1>0, LenProperties DEF FramingTypes, Bytes
  <2> QED
    BY <1>1, <2>1
<1>4. PICK u \in Bytes, v \in Bytes :
        /\ u = SubSeq(unsent, 1, n) /\ v = SubSeq(unsent, n + 1, Len(unsent)) /\ unsent = u ++ v
  BY <1>3, CutAt
<1>5. FramingTypes'
  <2>1. wire' \in Bytes /\ unsent' \in Bytes
    BY <1>0, <1>1, <1>4, Together, NoBytes DEF FramingTypes
  <2> QED
    BY <1>0, <1>1, <2>1 DEF FramingTypes
<1>6. Cuts(at)' /\ Got(k)'
  <2>1. k \in Nat
    BY <1>0, LenProperties DEF FramingTypes
  <2> QED
    BY <1>0, <1>1, <1>2, <2>1, CutsKept, GotKept
<1>7. wire ++ unsent = wire' ++ v
  <2>1. wire \in Bytes
    BY <1>0 DEF FramingTypes
  <2> QED
    BY <1>1, <1>4, <2>1, Regroup
<1>8. Flowing(at, k, v)'
  <2>1. Begun' = Begun
    BY <1>1 DEF Begun, Framing!Header
  <2>2. at[k] ++ (Begun' ++ (wire' ++ v)) = at[Len(sent')]
    BY <1>1, <1>2, <1>7, <2>1 DEF Flowing
  <2>3. peers' = "up" => v = unsent'
    BY <1>1, <1>4
  <2> QED
    BY <1>1, <1>2, <2>2, <2>3 DEF Flowing
<1> QED
  BY <1>1, <1>5, <1>6, <1>8 DEF FramingInv

LEMMA OpenFlows ==
    ASSUME FramingInv, peers # "receiver"
    PROVE  \E at : \E k \in 0 .. Len(sent) :
              Cuts(at) /\ Got(k) /\ \E rest \in Bytes : Flowing(at, k, rest)
<1>1. PICK at : \E k \in 0 .. Len(sent) :
         Cuts(at) /\ Got(k) /\ (Stopped \/ \E rest \in Bytes : Flowing(at, k, rest))
  BY DEF FramingInv
<1>2. PICK k \in 0 .. Len(sent) :
         Cuts(at) /\ Got(k) /\ (Stopped \/ \E rest \in Bytes : Flowing(at, k, rest))
  BY <1>1
<1> QED
  BY <1>2 DEF Stopped

(* All of a message has come: what follows it is under way after it.       *)
LEMMA WholeOne ==
    ASSUME FramingTypes, NEW at, Cuts(at), NEW k \in Nat, k + 1 \in 1 .. Len(sent),
           NEW x \in Bytes,
           at[k] ++ (Framing!Header(sent[k + 1][2])
                       ++ (Framing!Body(k + 1, sent[k + 1][2]) ++ x)) = at[Len(sent)]
    PROVE  at[k + 1] ++ x = at[Len(sent)]
<1>1. PICK l \in Nat : l = sent[k + 1][2]
  BY ElementOfSeq DEF FramingTypes
<1>2. Framing!Header(l) \in Bytes /\ Framing!Body(k + 1, l) \in Bytes
  BY FrameIsBytes
<1>3. PICK h \in Bytes, b \in Bytes : h = Framing!Header(l) /\ b = Framing!Body(k + 1, l)
  BY <1>2
<1>4. PICK p \in Bytes : p = at[k]
  <2>1. k \in 0 .. Len(sent)
    BY LenProperties DEF FramingTypes
  <2> QED
    BY <2>1 DEF Cuts
<1>5. at[k + 1] = p ++ (h ++ b)
  <2>1. PICK i \in 1 .. Len(sent) : i = k + 1 /\ i - 1 = k
    BY LenProperties DEF FramingTypes
  <2> QED
    BY <1>1, <1>3, <1>4, <2>1 DEF Cuts, FrameOf
<1>6. p ++ (h ++ (b ++ x)) = at[Len(sent)]
  BY <1>1, <1>3, <1>4
<1>7. (p ++ (h ++ b)) ++ x = p ++ (h ++ (b ++ x))
  <2>1. h ++ b \in Bytes /\ b ++ x \in Bytes
    BY Together
  <2>2. (h ++ b) ++ x = h ++ (b ++ x)
    BY Regroup
  <2>3. (p ++ (h ++ b)) ++ x = p ++ ((h ++ b) ++ x)
    BY <2>1, Regroup
  <2> QED
    BY <2>2, <2>3
<1> QED
  BY <1>5, <1>6, <1>7

(* A length: the next message is known, or is over if it is empty.         *)
LEMMA ReadLengthStep ==
    ASSUME FramingInv, NEW n \in 1 .. HeaderLen, Framing!ReadLength(n)
    PROVE  FramingInv'
<1>0. FramingTypes /\ HeaderLen \in Nat \ {0}
  BY FramingAssumption DEF FramingInv
<1>1. /\ peers # "receiver" /\ expected = -1 /\ n <= Len(wire)
      /\ wire' = SubSeq(wire, n + 1, Len(wire)) /\ unsent' = unsent /\ sent' = sent
  BY DEF Framing!ReadLength, Framing!Take
<1>2. wire \in Bytes /\ n \in 1 .. Len(wire)
  <2>1. wire \in Bytes /\ Len(wire) \in Nat
    BY <1>0, LenProperties DEF FramingTypes, Bytes
  <2> QED
    BY <1>1, <2>1
<1>3. PICK u \in Bytes, v \in Bytes :
        /\ u = SubSeq(wire, 1, n) /\ v = SubSeq(wire, n + 1, Len(wire)) /\ wire = u ++ v
        /\ Len(u) = n /\ u[1] = wire[1]
  BY <1>2, CutAt
<1>4. wire' = v /\ body = <<>> /\ Begun = <<>>
  BY <1>0, <1>1, <1>3 DEF FramingTypes, Begun
<1>5. CASE n < HeaderLen \/ wire[1][2] > MaxFrame
  <2>1. received' = received /\ body' = <<>> /\ expected' = -1 /\ peers' = "receiver"
    BY <1>5 DEF Framing!ReadLength, Framing!GiveUp
  <2>2. wire' \in Bytes /\ unsent' \in Bytes
    BY <1>0, <1>1, <1>3 DEF FramingTypes
  <2> QED
    BY <1>1, <2>1, <2>2, StopStep
<1>6. CASE ~ (n < HeaderLen \/ wire[1][2] > MaxFrame)
  <2>1. n = HeaderLen
    BY <1>0, <1>6
  <2>2. PICK at : \E k \in 0 .. Len(sent) :
              Cuts(at) /\ Got(k) /\ \E rest \in Bytes : Flowing(at, k, rest)
    BY <1>1, OpenFlows
  <2>3. PICK k \in 0 .. Len(sent) :
              Cuts(at) /\ Got(k) /\ \E rest \in Bytes : Flowing(at, k, rest)
    BY <2>2
  <2>4. PICK rest \in Bytes : Flowing(at, k, rest)
    BY <2>3
  <2>5. k \in Nat /\ Len(sent) \in Nat
    BY <1>0, LenProperties DEF FramingTypes
  <2>6. PICK x \in Bytes : x = wire ++ rest
    BY <1>0, Together DEF FramingTypes
  <2>7. at[k] ++ x = at[Len(sent)]
    BY <1>4, <2>4, <2>6, NoBytes DEF Flowing
  <2>8. x = u ++ (v ++ rest) /\ v ++ rest \in Bytes
    BY <1>3, <2>6, Regroup, Together
  <2>9. x # <<>>
    <3>1. u \o (v ++ rest) # <<>>
      <4>1. Len(u) # 0 /\ Len(<<>>) = 0
        BY <1>3
      <4> QED
        BY <2>8, <4>1, ConcatEqualIffEmpty DEF Bytes
    <3> QED
      BY <2>8, <3>1 DEF ++
  <2>10. /\ k + 1 \in 1 .. Len(sent) /\ sent[k + 1] \in Nat \X Nat /\ sent[k + 1][1] = k + 1
         /\ \E more \in Bytes :
              x = Framing!Header(sent[k + 1][2]) ++ (Framing!Body(k + 1, sent[k + 1][2]) ++ more)
    BY <1>0, <2>3, <2>7, <2>9, NextFrame
  <2>11. PICK l \in Nat : l = sent[k + 1][2]
    BY <2>10
  <2>12. PICK more \in Bytes : x = Framing!Header(l) ++ (Framing!Body(k + 1, l) ++ more)
    BY <2>10, <2>11
  <2>13. /\ Framing!Header(l) \in Bytes /\ Len(Framing!Header(l)) = HeaderLen
         /\ Framing!Body(k + 1, l) \in Bytes /\ Len(Framing!Body(k + 1, l)) = l
         /\ Framing!Header(l)[1] = <<0, l>>
    BY <1>0, <2>5, FrameIsBytes
  <2>14. PICK h \in Bytes, b \in Bytes : h = Framing!Header(l) /\ b = Framing!Body(k + 1, l)
    BY <2>13
  <2>15. u = h /\ v ++ rest = b ++ more
    <3>1. u ++ (v ++ rest) = h ++ (b ++ more) /\ Len(u) = Len(h)
      BY <1>3, <2>1, <2>8, <2>12, <2>13, <2>14
    <3> QED
      BY <2>8, <3>1, Together, SameCut
  <2>16. wire[1][2] = l
    BY <1>3, <2>13, <2>14, <2>15
  <2>17. CASE l = 0
    <3>1. received' = received /\ body' = <<>> /\ expected' = -1 /\ peers' = peers
      BY <1>1, <1>6, <2>16, <2>17 DEF Framing!ReadLength, Framing!Accepted
    <3>2. FramingTypes'
      BY <1>0, <1>1, <1>4, <3>1, NoBytes DEF FramingTypes
    <3>3. Cuts(at)'
      BY <1>1, <2>3, CutsKept
    <3>4. Got(k + 1)'
      <4>1. {j \in 1 .. k + 1 : Framing!NotEmpty(sent[j])} = {j \in 1 .. k : Framing!NotEmpty(sent[j])}
        <5>1. ~ Framing!NotEmpty(sent[k + 1])
          BY <2>11, <2>17 DEF Framing!NotEmpty
        <5>2. \A j \in 1 .. k + 1 : j \in 1 .. k \/ j = k + 1
          BY <2>5
        <5>3. \A j \in 1 .. k : j \in 1 .. k + 1
          BY <2>5
        <5> QED
          BY <5>1, <5>2, <5>3
      <4>2. Got(k + 1)
        BY <2>3, <4>1 DEF Got
      <4> QED
        BY <1>0, <1>1, <2>5, <3>1, <4>2, GotKept
    <3>5. at[k] ++ (h ++ (b ++ (v ++ rest))) = at[Len(sent)]
      <4>1. b = <<>>
        BY <2>13, <2>14, <2>17, EmptySeq DEF Bytes
      <4> QED
        BY <2>7, <2>8, <2>15, <4>1, NoBytes
    <3>6. at[k + 1] ++ (v ++ rest) = at[Len(sent)]
      BY <1>0, <2>3, <2>5, <2>8, <2>10, <2>11, <2>14, <3>5, WholeOne
    <3>7. Flowing(at, k + 1, rest)'
      <4>1. Begun' = <<>>
        BY <3>1 DEF Begun
      <4>2. at[k + 1] ++ (Begun' ++ (wire' ++ rest)) = at[Len(sent')]
        BY <1>1, <1>4, <2>8, <3>6, <4>1, NoBytes
      <4> QED
        BY <1>1, <2>4, <3>1, <4>2 DEF Flowing
    <3>8. k + 1 \in 0 .. Len(sent')
      BY <1>1, <2>10
    <3> QED
      BY <3>2, <3>3, <3>4, <3>7, <3>8 DEF FramingInv
  <2>18. CASE l # 0
    <3>1. received' = received /\ body' = body /\ expected' = l /\ peers' = peers
      BY <1>6, <2>16, <2>18 DEF Framing!ReadLength
    <3>2. FramingTypes'
      <4>1. Len(body') = 0 /\ l # -1 /\ 0 < l
        BY <1>4, <2>18, <3>1, EmptySeq
      <4> QED
        BY <1>0, <1>1, <1>4, <3>1, <4>1 DEF FramingTypes
    <3>3. Cuts(at)' /\ Got(k)'
      BY <1>0, <1>1, <2>3, <2>5, <3>1, CutsKept, GotKept
    <3>4. Begun' = h
      <4>1. Begun' = Framing!Header(l) ++ <<>>
        BY <1>4, <2>5, <3>1, <2>18 DEF Begun, Framing!Header
      <4> QED
        BY <2>14, <4>1, NoBytes
    <3>5. Flowing(at, k, rest)'
      <4>1. at[k] ++ (Begun' ++ (wire' ++ rest)) = at[Len(sent')]
        BY <1>1, <1>4, <2>7, <2>8, <2>15, <3>4
      <4>2. k < Len(sent')
        BY <1>1, <2>5, <2>10
      <4> QED
        BY <1>1, <2>4, <2>11, <3>1, <4>1, <4>2 DEF Flowing
    <3> QED
      BY <1>1, <3>2, <3>3, <3>5 DEF FramingInv
  <2> QED
    BY <2>17, <2>18
<1> QED
  BY <1>5, <1>6

(* The last bytes of a message: it is received.                            *)
LEMMA GotNext ==
    ASSUME FramingTypes, NEW k \in Nat, Got(k), k + 1 \in 1 .. Len(sent),
           Framing!NotEmpty(sent[k + 1]),
           sent' = sent, received' = Append(received, sent[k + 1])
    PROVE  /\ Got(k + 1)' /\ received' \in Seq(Nat \X Nat)
<1>1. PICK r \in Nat : r = Len(received) /\ DOMAIN received = 1 .. r
  BY LenProperties DEF FramingTypes
<1>2. PICK m \in Nat : m = Len(sent) /\ DOMAIN sent = 1 .. m
  BY LenProperties DEF FramingTypes
<1>3. PICK i \in 1 .. m : i = k + 1
  BY <1>2
<1>4. PICK e \in Nat \X Nat : e = sent[i] /\ e[1] = i
  BY <1>2, ElementOfSeq DEF FramingTypes
<1>5. /\ received' \in Seq(Nat \X Nat) /\ DOMAIN received' = 1 .. r + 1
      /\ received'[r + 1] = e /\ \A j \in 1 .. r : received'[j] = received[j]
  <2>1. received \in Seq(Nat \X Nat) /\ received' = Append(received, e)
    BY <1>3, <1>4 DEF FramingTypes
  <2> QED
    BY <1>1, <2>1, AppendProperties
<1>6. {j \in 1 .. k + 1 : Framing!NotEmpty(sent[j])} = {j \in 1 .. k : Framing!NotEmpty(sent[j])} \cup {k + 1}
  <2>1. \A j \in 1 .. k + 1 : j \in 1 .. k \/ j = k + 1
    OBVIOUS
  <2>2. \A j \in 1 .. k : j \in 1 .. k + 1
    OBVIOUS
  <2> QED
    BY <2>1, <2>2
<1>7. Range(received') = Range(received) \cup {e}
  <2>1. \A j \in 1 .. r + 1 : j \in 1 .. r \/ j = r + 1
    OBVIOUS
  <2>2. \A j \in 1 .. r : j \in 1 .. r + 1
    OBVIOUS
  <2>3. r + 1 \in 1 .. r + 1
    OBVIOUS
  <2> QED
    BY <1>1, <1>5, <2>1, <2>2, <2>3 DEF Range
<1>8. \A j \in 1 .. r : received[j][1] < k + 1
  <2> SUFFICES ASSUME NEW j \in 1 .. r PROVE received[j][1] < k + 1
    OBVIOUS
  <2>1. received[j] \in Range(received)
    BY <1>1 DEF Range
  <2>2. PICK n \in 1 .. k : received[j] = sent[n]
    BY <2>1 DEF Got
  <2>3. n \in 1 .. m /\ n < k + 1
    BY <1>3
  <2>4. sent[n][1] = n
    BY <1>2, <2>3 DEF FramingTypes
  <2> QED
    BY <2>2, <2>3, <2>4
<1>9. \A a, b \in 1 .. r + 1 : a < b => received'[a][1] < received'[b][1]
  <2> SUFFICES ASSUME NEW a \in 1 .. r + 1, NEW b \in 1 .. r + 1, a < b
               PROVE  received'[a][1] < received'[b][1]
    OBVIOUS
  <2>1. a \in 1 .. r
    OBVIOUS
  <2>2. CASE b = r + 1
    BY <1>3, <1>4, <1>5, <1>8, <2>1, <2>2
  <2>3. CASE b # r + 1
    <3>1. b \in 1 .. r
      BY <2>3
    <3>2. received[a][1] < received[b][1]
      BY <1>1, <2>1, <3>1 DEF Got
    <3> QED
      BY <1>5, <2>1, <3>1, <3>2
  <2> QED
    BY <2>2, <2>3
<1>10. Range(received') = {sent[j] : j \in {n \in 1 .. k + 1 : Framing!NotEmpty(sent[n])}}
  <2>1. {sent[j] : j \in {n \in 1 .. k + 1 : Framing!NotEmpty(sent[n])}}
        = {sent[j] : j \in {n \in 1 .. k : Framing!NotEmpty(sent[n])}} \cup {sent[k + 1]}
    BY <1>6
  <2>2. Range(received) = {sent[j] : j \in {n \in 1 .. k : Framing!NotEmpty(sent[n])}}
    BY DEF Got
  <2> QED
    BY <1>3, <1>4, <1>7, <2>1, <2>2
<1> QED
  BY <1>5, <1>9, <1>10 DEF Got, Framing!NotEmpty

(* Bytes of a body: more of the message, or all of it.                     *)
LEMMA ReadBodyStep ==
    ASSUME FramingInv, NEW n \in Nat \ {0}, Framing!ReadBody(n)
    PROVE  FramingInv'
<1>0. FramingTypes /\ HeaderLen \in Nat \ {0}
  BY FramingAssumption DEF FramingInv
<1>1. /\ peers # "receiver" /\ expected # -1 /\ n <= Len(wire) /\ n <= expected - Len(body)
      /\ wire' = SubSeq(wire, n + 1, Len(wire)) /\ unsent' = unsent /\ sent' = sent
  BY DEF Framing!ReadBody, Framing!Take
<1>2. wire \in Bytes /\ n \in 1 .. Len(wire)
  <2>1. wire \in Bytes /\ Len(wire) \in Nat
    BY <1>0, LenProperties DEF FramingTypes, Bytes
  <2> QED
    BY <1>1, <2>1
<1>3. PICK u \in Bytes, v \in Bytes :
        /\ u = SubSeq(wire, 1, n) /\ v = SubSeq(wire, n + 1, Len(wire)) /\ wire = u ++ v
        /\ Len(u) = n /\ u[1] = wire[1]
  BY <1>2, CutAt
<1>4. PICK c \in Bytes : c = body
  BY <1>0 DEF FramingTypes
<1>5. PICK l \in Nat : l = expected /\ Len(c) < l
  BY <1>0, <1>1, <1>4 DEF FramingTypes
<1>6. PICK at : \E k \in 0 .. Len(sent) :
              Cuts(at) /\ Got(k) /\ \E rest \in Bytes : Flowing(at, k, rest)
  BY <1>1, OpenFlows
<1>7. PICK k \in 0 .. Len(sent) :
              Cuts(at) /\ Got(k) /\ \E rest \in Bytes : Flowing(at, k, rest)
  BY <1>6
<1>8. PICK rest \in Bytes : Flowing(at, k, rest)
  BY <1>7
<1>9. k \in Nat /\ Len(sent) \in Nat /\ k < Len(sent) /\ l = sent[k + 1][2]
  BY <1>0, <1>1, <1>5, <1>8, LenProperties DEF FramingTypes, Flowing
<1>10. /\ Framing!Header(l) \in Bytes /\ Len(Framing!Header(l)) = HeaderLen
       /\ Framing!Body(k + 1, l) \in Bytes /\ Len(Framing!Body(k + 1, l)) = l
       /\ \A j \in 1 .. l : Framing!Body(k + 1, l)[j] = <<k + 1, j>>
  BY <1>9, FrameIsBytes
<1>11. PICK h \in Bytes, b \in Bytes :
          h = Framing!Header(l) /\ b = Framing!Body(k + 1, l) /\ Len(b) = l /\ h # <<>>
  BY <1>0, <1>10, EmptySeq
<1>12. PICK d \in Bytes : d = c ++ u
  BY Together
<1>13. PICK y \in Bytes : y = v ++ rest
  BY Together
<1>14. PICK z \in Bytes : z = at[Len(sent)]
  <2>1. Len(sent) \in 0 .. Len(sent)
    BY <1>9
  <2> QED
    BY <1>7, <2>1 DEF Cuts
<1>15. PICK p \in Bytes : p = at[k]
  BY <1>7 DEF Cuts
<1>16. p ++ (h ++ (d ++ y)) = z
  <2>1. Begun = h ++ c
    BY <1>1, <1>4, <1>5, <1>11 DEF Begun
  <2>2. p ++ ((h ++ c) ++ ((u ++ v) ++ rest)) = z
    BY <1>3, <1>8, <1>14, <1>15, <2>1 DEF Flowing
  <2>3. (u ++ v) ++ rest = u ++ y
    BY <1>13, Regroup
  <2>4. u ++ y \in Bytes
    BY Together
  <2>5. (h ++ c) ++ (u ++ y) = h ++ (c ++ (u ++ y))
    BY <2>4, Regroup
  <2>6. c ++ (u ++ y) = d ++ y
    BY <1>12, Regroup
  <2> QED
    BY <2>2, <2>3, <2>5, <2>6
<1>17. /\ k + 1 \in 1 .. Len(sent) /\ sent[k + 1] \in Nat \X Nat /\ sent[k + 1][1] = k + 1
       /\ \E more \in Bytes : h ++ (d ++ y) = h ++ (b ++ more)
  <2>1. PICK x \in Bytes : x = h ++ (d ++ y)
    BY Together
  <2>2. x # <<>>
    <3>1. PICK t \in Bytes : t = d ++ y
      BY Together
    <3>2. h \o t # <<>>
      BY <1>11, ConcatEqualIffEmpty DEF Bytes
    <3> QED
      BY <2>1, <3>1, <3>2 DEF ++
  <2>3. at[k] ++ x = at[Len(sent)]
    BY <1>14, <1>15, <1>16, <2>1
  <2> QED
    BY <1>0, <1>7, <1>9, <1>11, <2>1, <2>2, <2>3, NextFrame
<1>18. PICK more \in Bytes : h ++ (d ++ y) = h ++ (b ++ more)
  BY <1>17
<1>19. d ++ y = b ++ more
  BY <1>18, Together, Cancel
<1>20. wire' = v /\ Framing!ReadBody(n) /\ body \o SubSeq(wire, 1, n) = d
  BY <1>1, <1>3, <1>4, <1>12 DEF ++
<1>21. Len(d) = Len(c) + n /\ Len(c) \in Nat
  BY <1>3, <1>12, ConcatProperties, LenProperties DEF ++, Bytes
<1>22. CASE Len(d) = l
  <2>1. d = b /\ y = more
    BY <1>11, <1>19, <1>22, SameCut
  <2>2. 0 < l /\ d # <<>> /\ d[1] = <<k + 1, 1>>
    <3>1. 0 < l /\ d # <<>>
      BY <1>5, <1>21, <1>22, EmptySeq
    <3> QED
      BY <1>10, <1>11, <2>1, <3>1
  <2>3. /\ body' = <<>> /\ expected' = -1 /\ peers' = peers
        /\ received' = Append(received, <<d[1][1], Len(d)>>)
    BY <1>5, <1>20, <1>22, <2>2 DEF Framing!ReadBody, Framing!Accepted
  <2>4. received' = Append(received, sent[k + 1]) /\ Framing!NotEmpty(sent[k + 1])
    <3>1. <<d[1][1], Len(d)>> = <<k + 1, l>>
      BY <1>22, <2>2
    <3>2. sent[k + 1] = <<k + 1, l>>
      BY <1>9, <1>17
    <3> QED
      BY <2>2, <2>3, <3>1, <3>2 DEF Framing!NotEmpty
  <2>5. Got(k + 1)' /\ received' \in Seq(Nat \X Nat)
    BY <1>0, <1>1, <1>7, <1>9, <1>17, <2>4, GotNext
  <2>6. FramingTypes'
    BY <1>0, <1>1, <1>20, <2>3, <2>5, NoBytes DEF FramingTypes
  <2>7. Cuts(at)'
    BY <1>1, <1>7, CutsKept
  <2>8. at[k + 1] ++ y = at[Len(sent)]
    BY <1>0, <1>7, <1>9, <1>11, <1>14, <1>15, <1>16, <1>17, <2>1, WholeOne
  <2>9. Flowing(at, k + 1, rest)'
    <3>1. Begun' = <<>>
      BY <2>3 DEF Begun
    <3>2. at[k + 1] ++ (Begun' ++ (wire' ++ rest)) = at[Len(sent')]
      BY <1>1, <1>13, <1>20, <2>8, <3>1, NoBytes
    <3> QED
      BY <1>1, <1>8, <2>3, <3>2 DEF Flowing
  <2>10. k + 1 \in 0 .. Len(sent')
    BY <1>1, <1>17
  <2> QED
    BY <2>5, <2>6, <2>7, <2>9, <2>10 DEF FramingInv
<1>23. CASE Len(d) # l
  <2>1. body' = d /\ expected' = expected /\ received' = received /\ peers' = peers
    BY <1>5, <1>20, <1>23 DEF Framing!ReadBody
  <2>2. FramingTypes'
    <3>1. Len(d) < l
      BY <1>1, <1>4, <1>5, <1>21, <1>23
    <3> QED
      BY <1>0, <1>1, <1>5, <1>20, <2>1, <3>1 DEF FramingTypes
  <2>3. Cuts(at)' /\ Got(k)'
    BY <1>0, <1>1, <1>7, <1>9, <2>1, CutsKept, GotKept
  <2>4. Flowing(at, k, rest)'
    <3>1. Begun' = h ++ d
      BY <1>1, <1>5, <1>11, <2>1 DEF Begun, Framing!Header
    <3>2. (h ++ d) ++ y = h ++ (d ++ y)
      BY Regroup
    <3>3. at[k] ++ (Begun' ++ (wire' ++ rest)) = at[Len(sent')]
      BY <1>1, <1>13, <1>14, <1>15, <1>16, <1>20, <3>1, <3>2
    <3> QED
      BY <1>1, <1>8, <2>1, <3>3 DEF Flowing
  <2> QED
    BY <1>1, <2>2, <2>3, <2>4 DEF FramingInv
<1> QED
  BY <1>22, <1>23

Nothing ==
    /\ wire = <<>> /\ unsent = <<>> /\ sent = <<>> /\ received = <<>> /\ body = <<>>
    /\ expected = -1 /\ peers = "up"

LEMMA NothingUnderWay == Nothing => FramingInv
<1> SUFFICES ASSUME Nothing PROVE FramingInv
  OBVIOUS
<1> DEFINE at == [i \in 0 .. 0 |-> <<>>]
<1>1. FramingTypes
  BY NoBytes DEF Nothing, FramingTypes
<1>2. at \in [0 .. 0 -> Bytes] /\ at[0] = <<>> /\ Len(sent) = 0
  BY NoBytes DEF Nothing
<1> HIDE DEF at
<1>3. Cuts(at)
  BY <1>2 DEF Cuts
<1>4. Got(0)
  BY DEF Nothing, Got, Range
<1>5. Flowing(at, 0, <<>>)
  <2>1. <<>> ++ (<<>> ++ (<<>> ++ <<>>)) = <<>>
    BY NoBytes
  <2>2. Begun = <<>>
    BY DEF Nothing, Begun
  <2> QED
    BY <1>2, <2>1, <2>2 DEF Nothing, Flowing
<1>6. 0 \in 0 .. Len(sent) /\ <<>> \in Bytes
  BY <1>2, NoBytes
<1> QED
  BY <1>1, <1>3, <1>4, <1>5, <1>6 DEF FramingInv

LEMMA FramingInitInv ==
    ASSUME Init
    PROVE  FramingInv
<1>0. Framing!FramingInit
  BY Zenon DEF Init
<1>1. Nothing
  BY <1>0 DEF Framing!FramingInit, Nothing
<1> QED
  BY <1>1, NothingUnderWay

LEMMA FramingNextInv ==
    ASSUME FramingInv, Framing!FramingNext
    PROVE  FramingInv'
<1>0. FramingTypes
  BY DEF FramingInv
<1>1. ASSUME NEW l \in Lengths, Framing!SendBufferStore(l) PROVE FramingInv'
  <2>1. l \in Nat
    BY FramingAssumption
  <2> QED
    BY <1>1, <2>1, SendBufferStoreStep
<1>2. ASSUME NEW n \in 1 .. Room, Framing!Write(n) PROVE FramingInv'
  <2>1. n \in Nat \ {0}
    BY FramingAssumption
  <2> QED
    BY <1>2, <2>1, WriteStep
<1>3. ASSUME Framing!WriteFails PROVE FramingInv'
  <2>1. ~ \E at : \E k \in 0 .. Len(sent) : \E rest \in Bytes : Flowing(at, k, rest)
    BY <1>3 DEF Framing!WriteFails, Flowing
  <2>2. expected = -1
    BY <2>1 DEF FramingInv, Stopped
  <2> QED
    BY <1>0, <1>3, <2>2, NoBytes, StopStep DEF Framing!WriteFails, FramingTypes
<1>4. ASSUME Framing!ReadEnds PROVE FramingInv'
  BY <1>0, <1>4, StopStep DEF Framing!ReadEnds, Framing!GiveUp, FramingTypes
<1>5. ASSUME NEW n \in 1 .. MaxFrame, Framing!ReadBody(n) PROVE FramingInv'
  <2>1. n \in Nat \ {0}
    BY FramingAssumption
  <2> QED
    BY <1>5, <2>1, ReadBodyStep
<1>6. ASSUME Framing!Reopen PROVE FramingInv'
  <2>1. ~ \E at : \E k \in 0 .. Len(sent) : \E rest \in Bytes : Flowing(at, k, rest)
    BY <1>6 DEF Framing!Reopen, Flowing
  <2>2. expected = -1 /\ body = <<>>
    BY <1>0, <2>1 DEF FramingInv, Stopped, FramingTypes
  <2>3. Nothing'
    BY <1>6, <2>2 DEF Framing!Reopen, Nothing
  <2>4. Nothing' => FramingInv'
    BY NothingUnderWay, PTL
  <2> QED
    BY <2>3, <2>4
<1> QED
  BY <1>1, <1>2, <1>3, <1>4, <1>5, <1>6, ReadLengthStep
     DEF Framing!FramingNext, Framing!FramingStep, Framing!GetBufferStore

LEMMA FramingInvKept ==
    ASSUME FramingInv, UNCHANGED framingVars
    PROVE  FramingInv'
<1>1. /\ wire' = wire /\ unsent' = unsent /\ sent' = sent /\ received' = received
      /\ body' = body /\ expected' = expected /\ peers' = peers
  BY DEF framingVars
<1>2. FramingTypes /\ FramingTypes'
  BY <1>1 DEF FramingInv, FramingTypes
<1>3. PICK at : \E k \in 0 .. Len(sent) :
         Cuts(at) /\ Got(k) /\ (Stopped \/ \E rest \in Bytes : Flowing(at, k, rest))
  BY DEF FramingInv
<1>4. PICK k \in 0 .. Len(sent) :
         Cuts(at) /\ Got(k) /\ (Stopped \/ \E rest \in Bytes : Flowing(at, k, rest))
  BY <1>3
<1>5. Cuts(at)' /\ Got(k)'
  <2>1. k \in Nat
    BY <1>2, LenProperties DEF FramingTypes
  <2> QED
    BY <1>1, <1>2, <1>4, <2>1, CutsKept, GotKept
<1>6. (Stopped \/ \E rest \in Bytes : Flowing(at, k, rest))'
  <2>1. Begun' = Begun
    BY <1>1 DEF Begun, Framing!Header
  <2> QED
    BY <1>1, <1>4, <2>1 DEF Stopped, Flowing
<1> QED
  BY <1>1, <1>2, <1>5, <1>6 DEF FramingInv

LEMMA FramingInvImplies ==
    ASSUME FramingInv
    PROVE  ReceivedAsSent
<1>0. FramingTypes
  BY DEF FramingInv
<1>1. PICK m \in Nat : m = Len(sent) /\ DOMAIN sent = 1 .. m
  BY <1>0, LenProperties DEF FramingTypes
<1>2. PICK k \in 0 .. m : Got(k)
  BY <1>1 DEF FramingInv
<1>3. ASSUME NEW i \in DOMAIN received
      PROVE  \E n \in 1 .. k : n \in 1 .. m /\ received[i] = sent[n] /\ received[i][1] = n
  <2>1. received[i] \in Range(received)
    BY DEF Range
  <2>2. PICK n \in 1 .. k : received[i] = sent[n]
    BY <1>2, <2>1 DEF Got
  <2>3. n \in 1 .. m
    BY <1>2
  <2> QED
    BY <1>0, <1>1, <2>2, <2>3 DEF FramingTypes
<1>4. \A i, j \in DOMAIN received : i < j => received[i][1] < received[j][1]
  BY <1>2 DEF Got
<1>5. ASSUME NEW i \in DOMAIN received, NEW n \in 1 .. received[i][1], Framing!NotEmpty(sent[n])
      PROVE  sent[n] \in Range(received)
  <2>1. n \in 1 .. k
    BY <1>3, <1>5
  <2> QED
    BY <1>2, <1>5, <2>1 DEF Got
<1> QED
  BY <1>1, <1>3, <1>4, <1>5 DEF ReceivedAsSent, Framing!ReceivedAsSent, Framing!Range, Range

-----------------------------------------------------------------------------
(* Rpcs: how many answers are waiting, and what is known of the machine.   *)

CallShape(c) ==
    c = [op |-> c.op, at |-> c.at, cmd |-> c.cmd, todo |-> c.todo, procs |-> c.procs, any |-> c.any,
         res |-> c.res, own |-> c.own]
LineShape(l) == l = [up |-> l.up, machine |-> l.machine, listens |-> l.listens, answers |-> l.answers]

(* No answer waits but that of the command the call has just sent.         *)
Owed ==
    \/ line.answers = <<>>
    \/ rpCall.at = "read" /\ \E x : x.cmd = rpCall.cmd /\ line.answers = <<x>>

Learnt ==
    /\ 1 \in cache => Rpcs!Is5(line.machine)
    /\ 2 \in cache => line.machine = "s5mx"
    /\ 4 \in cache => (1 \in cache <=> Rpcs!Is5(line.machine))
    /\ 8 \in cache => (2 \in cache <=> line.machine = "s5mx")

RpcsTypes ==
    /\ CallShape(rpCall) /\ LineShape(line) /\ timesSet \in Nat
    /\ rpCall.own = TRUE /\ rpCall.at \in {"idle", "send", "read"}

RpcsInv ==
    /\ RpcsTypes
    /\ client = "none" => rpCall.at = "idle" /\ timesSet = 0 /\ cache = {}
    /\ client # "rclip" => rpCall.op # "listen" /\ rpCall.cmd # "listen" /\ line.listens = FALSE
    /\ client # "rclip" => rpStatus # "nsup"
    /\ client # "rclip" /\ timesSet = 0 => Owed
    /\ timesSet = 0 => Learnt

(* What may follow once an answer is read: the next command, or the end.   *)
MayFollow(d, c) ==
    /\ CallShape(d) /\ d.own = c.own /\ d.at \in {"idle", "send"}
    /\ c.op # "listen" => d.op # "listen" /\ d.cmd # "listen"

LEMMA DoneFollows ==
    ASSUME NEW c, NEW d, NEW r, d \in Rpcs!Done(c, r)
    PROVE  MayFollow(d, c)
BY DEF Rpcs!Done, Rpcs!Idle, MayFollow, CallShape

LEMMA AskFollows ==
    ASSUME NEW c, CallShape(c), NEW d, NEW cmd, cmd # "listen", d \in Rpcs!Ask(c, cmd)
    PROVE  MayFollow(d, c)
BY DEF Rpcs!Ask, MayFollow, CallShape

LEMMA AskMachineFollows ==
    ASSUME NEW c, CallShape(c), NEW k, NEW d \in Rpcs!AskMachine(c, k)
    PROVE  MayFollow(d, c)
BY AskFollows DEF Rpcs!AskMachine

LEMMA NextDriveFollows ==
    ASSUME NEW c, CallShape(c), NEW d \in Rpcs!NextDrive(c)
    PROVE  MayFollow(d, c)
BY AskFollows, DoneFollows DEF Rpcs!NextDrive

LEMMA QueryFollows ==
    ASSUME NEW c, CallShape(c), NEW r, NEW k, NEW d \in Rpcs!QueryPrograms(c, r, k)
    PROVE  MayFollow(d, c)
<1> DEFINE all == [c EXCEPT !.todo = IF r = "none" THEN DriveLetters ELSE {"C"}]
           rest == c.todo \ {CHOOSE x \in c.todo : TRUE}
           any == c.any \/ r = "none"
           less == [c EXCEPT !.todo = rest, !.any = any]
<1>1. CallShape(all) /\ all.own = c.own /\ all.op = c.op
  BY DEF CallShape
<1>2. CallShape(less) /\ less.own = c.own /\ less.op = c.op
  <2> DEFINE half == [c EXCEPT !.todo = rest]
  <2> HIDE DEF rest, any
  <2>1. CallShape(half) /\ half.own = c.own /\ half.op = c.op
    BY DEF CallShape
  <2>2. less = [half EXCEPT !.any = any]
    OBVIOUS
  <2> HIDE DEF half, less
  <2> QED
    BY <2>1, <2>2 DEF CallShape
<1>3. CASE c.cmd = "uidM"
  <2>1. d \in Rpcs!AskMachine(all, k)
    BY <1>3 DEF Rpcs!QueryPrograms
  <2> HIDE DEF all
  <2>2. MayFollow(d, all)
    BY <1>1, <2>1, AskMachineFollows
  <2> QED
    BY <1>1, <2>2 DEF MayFollow
<1>4. CASE c.cmd = "drive"
  <2>1. d \in Rpcs!NextDrive(less)
    BY <1>4 DEF Rpcs!QueryPrograms
  <2> HIDE DEF less
  <2>2. MayFollow(d, less)
    BY <1>2, <2>1, NextDriveFollows
  <2> QED
    BY <1>2, <2>2 DEF MayFollow
<1>5. CASE c.cmd # "uidM" /\ c.cmd # "drive"
  BY <1>5, AskFollows, DoneFollows, AskMachineFollows DEF Rpcs!QueryPrograms
<1> QED
  BY <1>3, <1>4, <1>5

LEMMA ConfigFollows ==
    ASSUME NEW c, CallShape(c), NEW r, NEW d \in Rpcs!ConfigRead(c, r)
    PROVE  MayFollow(d, c)
<1> DEFINE b == [c EXCEPT !.res = r]
<1>1. CallShape(b) /\ b.own = c.own /\ b.op = c.op
  BY DEF CallShape
<1>2. ASSUME d \in Rpcs!Ask(b, "close") PROVE MayFollow(d, c)
  <2> HIDE DEF b
  <2>1. MayFollow(d, b)
    BY <1>1, <1>2, AskFollows
  <2> QED
    BY <1>1, <2>1 DEF MayFollow
<1> QED
  BY <1>2, AskFollows, DoneFollows DEF Rpcs!ConfigRead

LEMMA AfterFollows ==
    ASSUME NEW c, CallShape(c), NEW r, NEW k, NEW d \in Rpcs!After(c, r, k)
    PROVE  MayFollow(d, c)
<1>1. ASSUME d \in Rpcs!SetTime(c, r) PROVE MayFollow(d, c)
  BY <1>1, AskFollows, DoneFollows DEF Rpcs!SetTime
<1> QED
  BY <1>1, QueryFollows, ConfigFollows, DoneFollows DEF Rpcs!After

(* A new session: nothing of the old one waits.                            *)
LEMMA FreshLine ==
    ASSUME NEW c, NEW m, NEW s \in Rpcs!Reset(c, m)
    PROVE  /\ LineShape(s.line) /\ s.line.answers = <<>> /\ s.line.listens = FALSE
           /\ c # "rclip" => s.st # "nsup"
<1>1. \E u : s.line = Rpcs!Line(u, m)
  BY DEF Rpcs!Reset
<1>2. c # "rclip" => s.st # "nsup"
  BY DEF Rpcs!Reset
<1> QED
  BY <1>1, <1>2 DEF Rpcs!Line, LineShape

LEMMA FreshLines ==
    ASSUME NEW s \in Rpcs!Reconnects
    PROVE  /\ LineShape(s.line) /\ s.line.answers = <<>> /\ s.line.listens = FALSE
           /\ client # "rclip" => s.st # "nsup"
<1>1. PICK m : s \in Rpcs!Reset(client, m)
  BY DEF Rpcs!Reconnects
<1> QED
  BY <1>1, FreshLine

(* A command sent on the line l, on which nothing waits.                   *)
LEMMA AnsweredOne ==
    ASSUME NEW l, LineShape(l), NEW c, NEW n \in Rpcs!Answered(l, c)
    PROVE  /\ LineShape(n) /\ n.machine = l.machine
           /\ c # "listen" => n.listens = l.listens
           /\ l.answers = <<>> => n.answers = <<>> \/ \E x : x.cmd = c /\ n.answers = <<x>>
<1>1. CASE l.up # "up"
  BY <1>1 DEF Rpcs!Answered
<1>2. CASE l.up = "up" /\ c = "listen"
  BY <1>2 DEF Rpcs!Answered, LineShape
<1>3. CASE l.up = "up" /\ c # "listen"
  <2>1. PICK r : n = [l EXCEPT !.answers = Append(@, Rpcs!Says(c, r))]
    BY <1>3 DEF Rpcs!Answered
  <2>2. n = [up |-> l.up, machine |-> l.machine, listens |-> l.listens,
             answers |-> Append(l.answers, Rpcs!Says(c, r))]
    BY <2>1 DEF LineShape
  <2>3. Rpcs!Says(c, r).cmd = c
    BY DEF Rpcs!Says
  <2>4. l.answers = <<>> => n.answers = <<Rpcs!Says(c, r)>>
    BY <2>2
  <2> QED
    BY <1>3, <2>2, <2>3, <2>4 DEF LineShape
<1> QED
  BY <1>1, <1>2, <1>3

LEMMA SentKeeps ==
    ASSUME RpcsTypes, rpCall.at = "send", NEW l, LineShape(l), NEW times \in Nat,
           Rpcs!Sent(l, times), client' = client, client # "none",
           client # "rclip" => rpCall.op # "listen" /\ rpCall.cmd # "listen" /\ l.listens = FALSE,
           client # "rclip" /\ times = 0 => l.answers = <<>>
    PROVE  /\ RpcsTypes' /\ line'.machine = l.machine
           /\ client' # "rclip" => rpCall'.op # "listen" /\ rpCall'.cmd # "listen" /\ line'.listens = FALSE
           /\ client' # "rclip" /\ timesSet' = 0 => Owed'
           /\ timesSet' = 0 => times = 0
<1>1. /\ line' \in Rpcs!Answered(l, rpCall.cmd)
      /\ timesSet' = times + (IF rpCall.cmd = "settime" THEN 1 ELSE 0)
      /\ Rpcs!Went(TRUE)
  BY DEF Rpcs!Sent
<1>2. /\ LineShape(line)' /\ line'.machine = l.machine
      /\ client # "rclip" => line'.listens = FALSE
      /\ client # "rclip" /\ times = 0 =>
            line'.answers = <<>> \/ \E x : x.cmd = rpCall.cmd /\ line'.answers = <<x>>
  BY <1>1, AnsweredOne DEF LineShape
<1>3. timesSet' \in Nat /\ (timesSet' = 0 => times = 0 /\ rpCall.cmd # "settime")
  BY <1>1
<1>4. /\ CallShape(rpCall)' /\ rpCall'.own = TRUE /\ rpCall'.at \in {"idle", "read"}
      /\ client # "rclip" => rpCall'.op # "listen" /\ rpCall'.cmd # "listen"
      /\ client # "rclip" /\ rpCall.cmd # "settime" => rpCall'.at = "read" /\ rpCall'.cmd = rpCall.cmd
  BY <1>1 DEF Rpcs!Went, Rpcs!Finish, Rpcs!Idle, RpcsTypes, CallShape
<1> QED
  BY <1>2, <1>3, <1>4 DEF RpcsTypes, Owed

LEMMA LearntKept ==
    ASSUME Learnt, cache' = cache, line'.machine = line.machine
    PROVE  Learnt'
BY DEF Learnt, Rpcs!Is5

LEMMA ConnectStep ==
    ASSUME RpcsInv, Rpcs!Connect
    PROVE  RpcsInv'
<1>1. PICK m, c : \E s \in Rpcs!Reset(c, m) :
         /\ client' = IF c = "rclip" THEN c ELSE Rpcs!ClassFor(m)
         /\ rpStatus' = s.st /\ line' = s.line
  BY DEF Rpcs!Connect
<1>2. /\ LineShape(line') /\ line'.answers = <<>> /\ line'.listens = FALSE
      /\ client' # "rclip" => rpStatus' # "nsup"
  BY <1>1, FreshLine
<1>3. client = "none" /\ cache' = cache /\ rpCall' = rpCall /\ timesSet' = timesSet
  BY DEF Rpcs!Connect
<1>4. client' # "none"
  BY <1>1 DEF Rpcs!ClassFor
<1>5. RpcsTypes'
  BY <1>2, <1>3 DEF RpcsInv, RpcsTypes, CallShape, LineShape
<1> QED
  BY <1>2, <1>3, <1>4, <1>5 DEF RpcsInv, Owed, Learnt

LEMMA StartStep ==
    ASSUME RpcsInv, Rpcs!Start
    PROVE  RpcsInv'
<1>1. /\ rpCall.at = "idle" /\ client' = client /\ rpStatus' = rpStatus
      /\ cache' = cache /\ line' = line /\ timesSet' = timesSet
  BY DEF Rpcs!Start
<1>2. PICK op1 \in Rpcs!Ops :
         rpCall' = IF op1 = "init" /\ rpStatus # "none" THEN [Rpcs!Idle EXCEPT !.res = rpStatus]
                   ELSE [Rpcs!Idle EXCEPT !.op = op1, !.at = "send", !.cmd = Rpcs!First(op1)]
  BY Zenon DEF Rpcs!Start
<1>3. client # "none" /\ (client # "rclip" => op1 # "listen" /\ Rpcs!First(op1) # "listen")
  BY <1>2 DEF Rpcs!Ops, Rpcs!Simple, Rpcs!First
<1>4. ASSUME op1 = "init" /\ rpStatus # "none"
      PROVE  /\ CallShape(rpCall)' /\ rpCall'.own = TRUE /\ rpCall'.at \in {"idle", "send"}
             /\ client # "rclip" => rpCall'.op # "listen" /\ rpCall'.cmd # "listen"
  <2>1. rpCall' = [Rpcs!Idle EXCEPT !.res = rpStatus]
    BY <1>2, <1>4
  <2> QED
    BY <2>1 DEF Rpcs!Idle, CallShape
<1>5. ASSUME ~ (op1 = "init" /\ rpStatus # "none")
      PROVE  /\ CallShape(rpCall)' /\ rpCall'.own = TRUE /\ rpCall'.at \in {"idle", "send"}
             /\ client # "rclip" => rpCall'.op # "listen" /\ rpCall'.cmd # "listen"
  <2>1. rpCall' = [Rpcs!Idle EXCEPT !.op = op1, !.at = "send", !.cmd = Rpcs!First(op1)]
    BY <1>2, <1>5
  <2> QED
    BY <1>3, <2>1 DEF Rpcs!Idle, CallShape
<1>6. /\ CallShape(rpCall)' /\ rpCall'.own = TRUE /\ rpCall'.at \in {"idle", "send"}
      /\ client # "rclip" => rpCall'.op # "listen" /\ rpCall'.cmd # "listen"
  BY <1>4, <1>5
<1>7. RpcsTypes'
  BY <1>1, <1>6 DEF RpcsInv, RpcsTypes, LineShape
<1>8. client # "rclip" /\ timesSet = 0 => line.answers = <<>>
  BY <1>1 DEF RpcsInv, Owed
<1> QED
  BY <1>1, <1>3, <1>6, <1>7, <1>8, LearntKept DEF RpcsInv, Owed

LEMMA CheckNotifyStep ==
    ASSUME RpcsInv, Rpcs!CheckNotify
    PROVE  RpcsInv'
<1>1. /\ client = "rclip" /\ client' = client /\ cache' = cache /\ timesSet' = timesSet
      /\ line' = line \/ line' = [line EXCEPT !.answers = Tail(@)]
      /\ \E r : rpCall' = [Rpcs!Idle EXCEPT !.res = r]
  BY DEF Rpcs!CheckNotify
<1>2. LineShape(line') /\ line'.machine = line.machine
  BY <1>1 DEF RpcsInv, RpcsTypes, LineShape
<1>3. CallShape(rpCall') /\ rpCall'.own = TRUE /\ rpCall'.at = "idle"
  BY <1>1 DEF Rpcs!Idle, CallShape
<1>4. RpcsTypes'
  BY <1>1, <1>2, <1>3 DEF RpcsInv, RpcsTypes, CallShape, LineShape
<1> QED
  BY <1>1, <1>2, <1>4, LearntKept DEF RpcsInv

LEMMA SendStep ==
    ASSUME RpcsInv, Rpcs!Send
    PROVE  RpcsInv'
<1>1. /\ rpCall.at = "send" /\ client' = client /\ rpStatus' = rpStatus /\ cache' = cache
      /\ Rpcs!Sent(line, timesSet)
  BY DEF Rpcs!Send
<1>2. client # "none" /\ RpcsTypes /\ LineShape(line) /\ timesSet \in Nat
  BY <1>1 DEF RpcsInv, RpcsTypes
<1>3. /\ client # "rclip" => rpCall.op # "listen" /\ rpCall.cmd # "listen" /\ line.listens = FALSE
      /\ client # "rclip" /\ timesSet = 0 => line.answers = <<>>
  BY <1>1 DEF RpcsInv, Owed
<1>4. /\ RpcsTypes' /\ line'.machine = line.machine
      /\ client' # "rclip" => rpCall'.op # "listen" /\ rpCall'.cmd # "listen" /\ line'.listens = FALSE
      /\ client' # "rclip" /\ timesSet' = 0 => Owed'
      /\ timesSet' = 0 => timesSet = 0
  BY <1>1, <1>2, <1>3, SentKeeps
<1> QED
  BY <1>1, <1>2, <1>4, LearntKept DEF RpcsInv

(* Nothing is sent: the call ends, or rclip's reads on all the same.       *)
LEMMA NotSent ==
    ASSUME RpcsTypes, rpCall.at = "send", Rpcs!Went(FALSE),
           client # "rclip" => rpCall.op # "listen" /\ rpCall.cmd # "listen"
    PROVE  /\ CallShape(rpCall)' /\ rpCall'.own = TRUE /\ rpCall'.at \in {"idle", "read"}
           /\ client # "rclip" => rpCall'.op # "listen" /\ rpCall'.cmd # "listen"
BY DEF Rpcs!Went, Rpcs!Finish, Rpcs!Idle, RpcsTypes, CallShape

LEMMA SendUnsupportedStep ==
    ASSUME RpcsInv, Rpcs!SendUnsupported
    PROVE  RpcsInv'
<1>1. /\ rpCall.at = "send" /\ Rpcs!Went(FALSE)
      /\ client' = client /\ rpStatus' = rpStatus
      /\ cache' = cache /\ line' = line /\ timesSet' = timesSet
  BY DEF Rpcs!SendUnsupported
<1>2. client # "none" /\ (client # "rclip" /\ timesSet = 0 => line.answers = <<>>)
  BY <1>1 DEF RpcsInv, Owed
<1>3. /\ CallShape(rpCall)' /\ rpCall'.own = TRUE /\ rpCall'.at \in {"idle", "read"}
      /\ client # "rclip" => rpCall'.op # "listen" /\ rpCall'.cmd # "listen"
  BY <1>1, NotSent DEF RpcsInv
<1>4. RpcsTypes'
  BY <1>1, <1>3 DEF RpcsInv, RpcsTypes, LineShape
<1> QED
  BY <1>1, <1>2, <1>3, <1>4, LearntKept DEF RpcsInv, Owed

LEMMA SendInNewSessionStep ==
    ASSUME RpcsInv, Rpcs!SendInNewSession
    PROVE  RpcsInv'
<1>1. rpCall.at = "send" /\ client' = client /\ cache' = {}
  BY DEF Rpcs!SendInNewSession, Rpcs!ResetCache
<1>2. client # "none" /\ RpcsTypes
  BY <1>1 DEF RpcsInv
<1>3. PICK r \in Rpcs!Reconnects :
        /\ rpStatus' = r.st \/ rpStatus' = "disc"
        /\ \/ line' = r.line /\ timesSet' = 0 /\ Rpcs!Went(FALSE)
           \/ Rpcs!Sent(r.line, 0)
  BY DEF Rpcs!SendInNewSession
<1>4. /\ LineShape(r.line) /\ r.line.answers = <<>> /\ r.line.listens = FALSE
      /\ client # "rclip" => rpStatus' # "nsup"
  BY <1>3, FreshLines
<1>5. client # "rclip" => rpCall.op # "listen" /\ rpCall.cmd # "listen"
  BY DEF RpcsInv
<1>6. Learnt'
  BY <1>1 DEF Learnt
<1>7. CASE line' = r.line /\ timesSet' = 0 /\ Rpcs!Went(FALSE)
  <2>1. /\ CallShape(rpCall)' /\ rpCall'.own = TRUE /\ rpCall'.at \in {"idle", "read"}
        /\ client # "rclip" => rpCall'.op # "listen" /\ rpCall'.cmd # "listen"
    BY <1>1, <1>2, <1>5, <1>7, NotSent
  <2>2. RpcsTypes'
    BY <1>4, <1>7, <2>1 DEF RpcsTypes, LineShape
  <2> QED
    BY <1>1, <1>2, <1>4, <1>6, <1>7, <2>1, <2>2 DEF RpcsInv, Owed
<1>8. CASE Rpcs!Sent(r.line, 0)
  <2>1. PICK l : l = r.line
    OBVIOUS
  <2>2. /\ RpcsTypes' /\ line'.machine = l.machine
        /\ client' # "rclip" => rpCall'.op # "listen" /\ rpCall'.cmd # "listen" /\ line'.listens = FALSE
        /\ client' # "rclip" /\ timesSet' = 0 => Owed'
    BY <1>1, <1>2, <1>4, <1>5, <1>8, <2>1, SentKeeps
  <2> QED
    BY <1>1, <1>2, <1>4, <1>6, <2>2 DEF RpcsInv
<1> QED
  BY <1>3, <1>7, <1>8

(* The answer read is that of the command sent, unless a clock was set.    *)
LEMMA GetResponseStep ==
    ASSUME RpcsInv, Rpcs!GetResponse
    PROVE  RpcsInv'
<1> DEFINE a == Head(line.answers)
           r == Rpcs!Judged(rpCall, a)
           own == rpCall.own /\ (r = "none" /\ timesSet = 0 => a.cmd = rpCall.cmd)
           c == [rpCall EXCEPT !.own = own]
           learns == CASE r = "none" /\ c.cmd = "type" -> Rpcs!LearnsType(a, line.machine)
                       [] r = "none" /\ c.cmd = "info" -> Rpcs!LearnsInfo(a, line.machine)
                       [] OTHER -> {}
<1>1. /\ rpCall.at = "read" /\ client' = client /\ rpStatus' = rpStatus /\ timesSet' = timesSet
      /\ line.answers # <<>> /\ line' = [line EXCEPT !.answers = Tail(@)]
      /\ cache' = cache \cup learns /\ rpCall' \in Rpcs!After(c, r, cache')
  BY DEF Rpcs!GetResponse
<1>2. r = "none" /\ timesSet = 0 => a.cmd = rpCall.cmd
  <2>1. CASE client = "rclip"
    BY <2>1 DEF Rpcs!Judged
  <2>2. CASE client # "rclip" /\ timesSet = 0
    <3>1. PICK x : x.cmd = rpCall.cmd /\ line.answers = <<x>>
      BY <1>1, <2>2 DEF RpcsInv, Owed
    <3> QED
      BY <3>1
  <2> QED
    BY <2>1, <2>2
<1>3. own = TRUE
  BY <1>2, Zenon DEF RpcsInv, RpcsTypes
<1> HIDE DEF own, r
<1>4. CallShape(c) /\ c.own = TRUE /\ c.op = rpCall.op /\ c.cmd = rpCall.cmd
  BY <1>3 DEF RpcsInv, RpcsTypes, CallShape
<1> HIDE DEF c
<1>5. MayFollow(rpCall', c)
  BY <1>1, <1>4, AfterFollows
<1>6. /\ LineShape(line') /\ line'.machine = line.machine /\ line'.listens = line.listens
      /\ line'.answers = Tail(line.answers)
  BY <1>1 DEF RpcsInv, RpcsTypes, LineShape
<1>7. client # "rclip" /\ timesSet = 0 => line'.answers = <<>>
  <2>1. ASSUME client # "rclip", timesSet = 0 PROVE Tail(line.answers) = <<>>
    <3>1. PICK x : line.answers = <<x>>
      BY <1>1, <2>1 DEF RpcsInv, Owed
    <3> QED
      BY <3>1
  <2> QED
    BY <1>6, <2>1
<1>8. timesSet = 0 => Learnt'
  <2>1. timesSet = 0 => Learnt
    BY DEF RpcsInv
  <2>2. CASE timesSet = 0 /\ r = "none" /\ rpCall.cmd = "type"
    BY <1>1, <1>2, <1>4, <1>6, <2>1, <2>2 DEF Learnt, Rpcs!LearnsType, Rpcs!Is5
  <2>3. CASE timesSet = 0 /\ r = "none" /\ rpCall.cmd = "info"
    BY <1>1, <1>2, <1>4, <1>6, <2>1, <2>3 DEF Learnt, Rpcs!LearnsInfo, Rpcs!Is5
  <2>4. CASE r # "none" \/ rpCall.cmd \notin {"type", "info"}
    <3>1. cache' = cache
      BY <1>1, <1>4, <2>4
    <3> QED
      BY <1>6, <2>1, <3>1, LearntKept
  <2> QED
    BY <2>2, <2>3, <2>4
<1>9. RpcsTypes'
  BY <1>1, <1>4, <1>5, <1>6 DEF RpcsInv, RpcsTypes, MayFollow, CallShape, LineShape
<1> QED
  BY <1>1, <1>4, <1>5, <1>6, <1>7, <1>8, <1>9 DEF RpcsInv, Owed, MayFollow

(* There is nothing to read: no answer waits for the next command.         *)
LEMMA GetNoResponseStep ==
    ASSUME RpcsInv, Rpcs!GetNoResponse
    PROVE  RpcsInv'
<1>1. /\ rpCall.at = "read" /\ (rpStatus = "nsup" \/ line.answers = <<>>)
      /\ rpStatus' = (IF rpStatus = "nsup" THEN "nsup" ELSE "disc")
      /\ client' = client /\ cache' = cache /\ line' = line /\ timesSet' = timesSet
      /\ rpCall' \in Rpcs!After(rpCall, rpStatus', cache)
  BY DEF Rpcs!GetNoResponse
<1>2. MayFollow(rpCall', rpCall)
  BY <1>1, AfterFollows DEF RpcsInv, RpcsTypes
<1>3. RpcsTypes'
  BY <1>1, <1>2 DEF RpcsInv, RpcsTypes, MayFollow, CallShape, LineShape
<1>4. client # "rclip" => line.answers = <<>>
  BY <1>1 DEF RpcsInv
<1> QED
  BY <1>1, <1>2, <1>3, <1>4, LearntKept DEF RpcsInv, Owed, MayFollow

LEMMA CopiedStep ==
    ASSUME RpcsInv, Rpcs!Copied
    PROVE  RpcsInv'
<1>1. /\ client' = client /\ rpStatus' = rpStatus /\ cache' = cache /\ rpCall' = rpCall
      /\ timesSet' = timesSet /\ line.listens
      /\ line' = [line EXCEPT !.listens = FALSE, !.answers = Append(@, Rpcs!Says("listen", "none"))]
  BY DEF Rpcs!Copied
<1>2. client = "rclip"
  BY <1>1 DEF RpcsInv
<1>3. LineShape(line') /\ line'.machine = line.machine
  BY <1>1 DEF RpcsInv, RpcsTypes, LineShape
<1>4. RpcsTypes'
  BY <1>1, <1>3 DEF RpcsInv, RpcsTypes, CallShape, LineShape
<1> QED
  BY <1>1, <1>2, <1>3, <1>4, LearntKept DEF RpcsInv

(* The connection breaks, and with it go all the answers or none.          *)
LEMMA CutStep ==
    ASSUME RpcsInv, Rpcs!Cut
    PROVE  RpcsInv'
<1>1. /\ client' = client /\ rpStatus' = rpStatus /\ cache' = cache /\ rpCall' = rpCall
      /\ timesSet' = timesSet
  BY DEF Rpcs!Cut
<1>2. PICK a \in {<<>>, line.answers} :
         line' = [line EXCEPT !.up = "down", !.listens = FALSE, !.answers = a]
  BY DEF Rpcs!Cut
<1>3. LineShape(line') /\ line'.machine = line.machine /\ line'.listens = FALSE /\ line'.answers = a
  BY <1>2 DEF RpcsInv, RpcsTypes, LineShape
<1>4. RpcsTypes'
  BY <1>1, <1>3 DEF RpcsInv, RpcsTypes, CallShape, LineShape
<1>5. Owed => Owed'
  BY <1>1, <1>2, <1>3 DEF Owed
<1> QED
  BY <1>1, <1>3, <1>4, <1>5, LearntKept DEF RpcsInv

LEMMA RpcsInitInv ==
    ASSUME Init
    PROVE  RpcsInv
<1>0. Rpcs!RpcsInit
  BY Zenon DEF Init
<1>1. client = "none" /\ rpStatus = "disc" /\ cache = {} /\ timesSet = 0
  BY <1>0 DEF Rpcs!RpcsInit
<1>2. LineShape(line) /\ line.answers = <<>> /\ line.listens = FALSE
  BY <1>0 DEF Rpcs!RpcsInit, Rpcs!Line, LineShape
<1>3. /\ CallShape(rpCall) /\ rpCall.own = TRUE /\ rpCall.at = "idle"
      /\ rpCall.op = "none" /\ rpCall.cmd = "none"
  BY <1>0 DEF Rpcs!RpcsInit, Rpcs!Idle, CallShape
<1> QED
  BY <1>1, <1>2, <1>3 DEF RpcsInv, RpcsTypes, Owed, Learnt

LEMMA RpcsNextInv ==
    ASSUME RpcsInv, Rpcs!RpcsNext
    PROVE  RpcsInv'
BY ConnectStep, StartStep, CheckNotifyStep, SendStep, SendUnsupportedStep, SendInNewSessionStep,
   GetResponseStep, GetNoResponseStep, CopiedStep, CutStep, Zenon DEF Rpcs!RpcsNext

LEMMA RpcsInvKept ==
    ASSUME RpcsInv, UNCHANGED rpcsVars
    PROVE  RpcsInv'
<1>1. /\ client' = client /\ rpStatus' = rpStatus /\ cache' = cache /\ line' = line
      /\ rpCall' = rpCall /\ timesSet' = timesSet
  BY DEF rpcsVars
<1> QED
  BY <1>1 DEF RpcsInv, RpcsTypes, CallShape, LineShape, Owed, Learnt, Rpcs!Is5

-----------------------------------------------------------------------------
(* Each behaviour is of one program, and leaves the others' variables.     *)

LEMMA OneProgram ==
    ASSUME [Next]_vars
    PROVE  /\ program' = program
           /\ (program = "sockets" /\ Sockets!SocketsNext) \/ UNCHANGED socketsVars
           /\ (program = "buffers" /\ Buffers!BuffersNext) \/ UNCHANGED buffersVars
           /\ (program = "framing" /\ Framing!FramingNext) \/ UNCHANGED framingVars
           /\ (program = "rpcs" /\ Rpcs!RpcsNext) \/ UNCHANGED rpcsVars
           /\ (program = "rfsv" /\ Rfsv!RfsvNext) \/ UNCHANGED rfsvVars
<1>1. CASE UNCHANGED vars
  BY <1>1 DEF vars
<1>2. CASE Next
  <2>1. /\ OthersKeep
        /\ program = "sockets" => Sockets!SocketsNext
        /\ program = "buffers" => Buffers!BuffersNext
        /\ program = "framing" => Framing!FramingNext
        /\ program = "rpcs" => Rpcs!RpcsNext
        /\ program = "rfsv" => Rfsv!RfsvNext
    <3>1. OthersKeep
      BY <1>2, Zenon DEF Next
    <3>2. program = "sockets" => Sockets!SocketsNext
      BY <1>2 DEF Next, FtpParts
    <3>3. program = "buffers" => Buffers!BuffersNext
      BY <1>2 DEF Next, FtpParts
    <3>4. program = "framing" => Framing!FramingNext
      BY <1>2 DEF Next, FtpParts
    <3>5. program = "rpcs" => Rpcs!RpcsNext
      BY <1>2 DEF Next, FtpParts
    <3>6. program = "rfsv" => Rfsv!RfsvNext
      BY <1>2 DEF Next, FtpParts
    <3> QED
      BY <3>1, <3>2, <3>3, <3>4, <3>5, <3>6
  <2> QED
    BY <2>1 DEF OthersKeep
<1> QED
  BY <1>1, <1>2

(* What ncpd and the clients give to select is always open and somebody's  *)
(* who wants it watched, in descending order, whichever calls fail and     *)
(* however descriptors come back: no closed one is left in IOWatch.        *)
THEOREM SocketsWatched == Spec => []WatchesOpenSockets
<1>1. Init => SocketInv
  BY SocketsInitInv
<1>2. SocketInv /\ [Next]_vars => SocketInv'
  BY OneProgram, SocketsNextInv, SocketInvKept
<1>3. SocketInv => WatchesOpenSockets
  BY SocketInvImplies
<1> QED
  BY <1>1, <1>2, <1>3, PTL DEF Spec

(* Whatever the sizes of messages and of reads and writes, what is         *)
(* received on a connection is what was sent on it, in order and whole, up *)
(* to where one side gave up: never half a message, or a part of the next. *)
THEOREM FramesWhole == Spec => []ReceivedAsSent
<1>1. Init => FramingInv
  BY FramingInitInv
<1>2. FramingInv /\ [Next]_vars => FramingInv'
  BY OneProgram, FramingNextInv, FramingInvKept
<1>3. FramingInv => ReceivedAsSent
  BY FramingInvImplies
<1> QED
  BY <1>1, <1>2, <1>3, PTL DEF Spec

(* An answer does not name the command it answers: a call of RPCS or rclip *)
(* that succeeds has read its own answers all the same, through any calls, *)
(* broken connections and new sessions, until a clock is set.              *)
THEOREM AnswersAreOwn == Spec => []AnswersMatch
<1>1. Init => RpcsInv
  BY RpcsInitInv
<1>2. RpcsInv /\ [Next]_vars => RpcsInv'
  BY OneProgram, RpcsNextInv, RpcsInvKept
<1>3. RpcsInv => AnswersMatch
  BY DEF RpcsInv, RpcsTypes, AnswersMatch, Rpcs!AnswersMatch
<1> QED
  BY <1>1, <1>2, <1>3, PTL DEF Spec

(* What RPCS remembers of the machine is of the one its session is with,   *)
(* also when another one was found behind a new session.                   *)
THEOREM CacheIsOfMachine == Spec => []CacheOfMachine
<1>1. Init => RpcsInv
  BY RpcsInitInv
<1>2. RpcsInv /\ [Next]_vars => RpcsInv'
  BY OneProgram, RpcsNextInv, RpcsInvKept
<1>3. RpcsInv => CacheOfMachine
  BY DEF RpcsInv, Learnt, CacheOfMachine, Rpcs!CacheOfMachine
<1> QED
  BY <1>1, <1>2, <1>3, PTL DEF Spec
=============================================================================
