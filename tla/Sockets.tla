------------------------------ MODULE Sockets ------------------------------
(***************************************************************************)
(* The sockets of ncpd and of its clients, class TCPSocket                 *)
(* (lib/tcpsocket.cc), and the select wrapper their descriptors are added  *)
(* to and taken from, class IOWatch (lib/iowatch.cc).                      *)
(*                                                                         *)
(* The system gives every new descriptor the lowest number that is not in  *)
(* use, so numbers come back.  IOWatch keeps its descriptors in the first  *)
(* cells of a table, in descending order; what is behind them is stale.    *)
(***************************************************************************)
EXTENDS Integers, FiniteSets, FiniteSetsExt, Sequences

CONSTANTS
    Objects,        \* TCPSocket objects
    LastFd          \* bound: descriptors 0 .. LastFd (FD_SETSIZE is 1024)

Invalid == -1       \* INVALID_SOCKET
Cells == 1 .. LastFd + 2

VARIABLES
    fd, bound, lastError, watching,  \* m_Socket, m_Bound, m_LastError, myWatch # NULL
    alive,                           \* the objects that exist
    opened,                          \* the system's open descriptors
    fds, fdCount                     \* fileDescriptors_, fileDescriptorCount_

sockVars == <<fd, bound, lastError, watching, alive, opened, fds, fdCount>>

SocketsInit ==
    /\ fd = [o \in Objects |-> Invalid]
    /\ bound = [o \in Objects |-> FALSE]
    /\ lastError = [o \in Objects |-> 0]
    /\ watching = [o \in Objects |-> FALSE]
    /\ alive = {} /\ opened = {}
    /\ fds = [i \in Cells |-> -1] /\ fdCount = 0

-----------------------------------------------------------------------------
(* IOWatch, as a pair of its table and its count.                          *)

Watched == [table |-> fds, count |-> fdCount]

PlaceFor(w, f) ==       \* the first cell not above f: the next free one if none
    Min({i \in 1 .. w.count : w.table[i] <= f} \cup {w.count + 1})

AddIO(w, f) ==          \* the cell is looked at even if it is not in use
    LET at == PlaceFor(w, f)
    IN  IF w.table[at] = f THEN w
        ELSE [table |-> [i \in Cells |-> CASE i = at -> f
                                           [] i > at /\ i <= w.count + 1 -> w.table[i - 1]
                                           [] OTHER -> w.table[i]],
              count |-> w.count + 1]

RemIO(w, f) ==
    LET at == {i \in 1 .. w.count : w.table[i] = f}
    IN  IF at = {} THEN w
        ELSE [table |-> [i \in Cells |-> IF i >= Min(at) /\ i < w.count
                                         THEN w.table[i + 1] ELSE w.table[i]],
              count |-> w.count - 1]

WatchBecomes(w) == fds' = w.table /\ fdCount' = w.count
AddedIf(c, w, f) == IF c THEN AddIO(w, f) ELSE w
RemovedIf(c, w, f) == IF c THEN RemIO(w, f) ELSE w

-----------------------------------------------------------------------------
(* TCPSocket.  An attempt is what the system grants of the calls an        *)
(* operation makes: a socket, a name, a bind, a connection.                *)

Attempts == [socket : BOOLEAN, name : BOOLEAN, bind : BOOLEAN, reach : BOOLEAN]
NewFd(used) == Min((0 .. LastFd + 1) \ used)
CanOpen(used) == NewFd(used) <= LastFd

(* bindSocket: the descriptor, whether the caller goes on, and the error.  *)
Bind(o, a) ==
    LET f == IF fd[o] # Invalid THEN fd[o]
             ELSE IF a.socket /\ CanOpen(opened) THEN NewFd(opened) ELSE Invalid
        done == ~ bound[o] /\ f # Invalid /\ a.name /\ a.bind
    IN  [fd |-> IF bound[o] THEN fd[o] ELSE f,
         bound |-> bound[o] \/ done,
         error |-> IF bound[o] THEN 0 ELSE IF done THEN lastError[o] ELSE 1,
         goes |-> bound[o] \/ done]

Open(o, b) ==   \* a descriptor created by bindSocket stays, bound or not
    /\ fd' = [fd EXCEPT ![o] = b.fd]
    /\ opened' = IF b.fd = Invalid THEN opened ELSE opened \cup {b.fd}
    /\ bound' = [bound EXCEPT ![o] = b.bound]

New(o) ==
    /\ o \notin alive /\ alive' = alive \cup {o}
    /\ UNCHANGED <<fd, bound, lastError, watching, opened, fds, fdCount>>

ConnectTo(o, a) ==
    LET b == Bind(o, a)
        connected == b.goes /\ a.name /\ b.fd # Invalid /\ a.reach
    IN  /\ o \in alive
        /\ Open(o, b)
        /\ lastError' = [lastError EXCEPT ![o] = IF connected THEN b.error ELSE 1]
        /\ WatchBecomes(AddedIf(connected /\ watching[o], Watched, b.fd))
        /\ UNCHANGED <<watching, alive>>

ListenOn(o, a) ==       \* watched before it listens
    LET b == Bind(o, a)
    IN  /\ o \in alive
        /\ Open(o, b)
        /\ bound[o] => fd[o] # Invalid         \* nobody listens on a closed socket
        /\ lastError' = [lastError EXCEPT ![o] = IF b.goes /\ a.reach THEN b.error ELSE 1]
        /\ WatchBecomes(AddedIf(b.goes /\ watching[o], Watched, b.fd))
        /\ UNCHANGED <<watching, alive>>

AcceptFrom(o, new) ==
    /\ o \in alive /\ fd[o] # Invalid /\ new \notin alive
    /\ IF CanOpen(opened)
       THEN /\ fd' = [fd EXCEPT ![new] = NewFd(opened)]
            /\ opened' = opened \cup {NewFd(opened)}
            /\ bound' = [bound EXCEPT ![new] = TRUE]
            /\ alive' = alive \cup {new}
            /\ UNCHANGED lastError
       ELSE lastError' = [lastError EXCEPT ![o] = 1] /\ UNCHANGED <<fd, opened, bound, alive>>
    /\ UNCHANGED <<watching, fds, fdCount>>

Reconnect(o, a) ==
    LET closed == opened \ {fd[o]}
        removed == RemovedIf(watching[o] /\ fd[o] # Invalid, Watched, fd[o])
        f == IF a.socket /\ CanOpen(closed) THEN NewFd(closed) ELSE Invalid
        connected == f # Invalid /\ a.bind /\ a.reach
    IN  /\ o \in alive
        /\ fd' = [fd EXCEPT ![o] = f]
        /\ opened' = IF f = Invalid THEN closed ELSE closed \cup {f}
        /\ bound' = [bound EXCEPT ![o] = IF f = Invalid THEN @ ELSE FALSE]
        /\ lastError' = [lastError EXCEPT ![o] = IF connected THEN 0 ELSE 1]
        /\ WatchBecomes(AddedIf(connected /\ watching[o], removed, f))
        /\ UNCHANGED <<watching, alive>>

\* variant: the watch is not told
CloseSocketOnly(o) ==
    /\ o \in alive
    /\ fd' = [fd EXCEPT ![o] = Invalid] /\ opened' = opened \ {fd[o]}
    /\ UNCHANGED <<lastError, bound, watching, alive, fds, fdCount>>

CloseSocket(o) ==       \* closing an invalid one is an error; m_Bound stays
    /\ o \in alive
    /\ WatchBecomes(RemovedIf(watching[o], Watched, fd[o]))
    /\ fd' = [fd EXCEPT ![o] = Invalid] /\ opened' = opened \ {fd[o]}
    /\ lastError' = [lastError EXCEPT ![o] = IF fd[o] = Invalid THEN 1 ELSE @]
    /\ UNCHANGED <<bound, watching, alive>>

SetWatch(o, on) ==
    /\ o \in alive
    /\ WatchBecomes(AddedIf(on /\ fd[o] # Invalid, RemovedIf(watching[o], Watched, fd[o]), fd[o]))
    /\ watching' = [watching EXCEPT ![o] = on]
    /\ UNCHANGED <<fd, bound, lastError, alive, opened>>

Delete(o) ==
    /\ o \in alive /\ alive' = alive \ {o}
    /\ WatchBecomes(RemovedIf(watching[o] /\ fd[o] # Invalid, Watched, fd[o]))
    /\ opened' = opened \ {fd[o]}
    /\ fd' = [fd EXCEPT ![o] = Invalid] /\ bound' = [bound EXCEPT ![o] = FALSE]
    /\ watching' = [watching EXCEPT ![o] = FALSE] /\ lastError' = [lastError EXCEPT ![o] = 0]

SocketsNext ==
    \E o \in Objects :
        \/ New(o) \/ CloseSocket(o) \/ Delete(o)
        \/ \E on \in BOOLEAN : SetWatch(o, on)
        \/ \E a \in Attempts : ConnectTo(o, a) \/ ListenOn(o, a) \/ Reconnect(o, a)
        \/ \E new \in Objects : AcceptFrom(o, new)

-----------------------------------------------------------------------------
(* What select is given is open, the socket of somebody who wants it       *)
(* watched, and in the order addIO relies on: a closed descriptor in the   *)
(* table makes every later select fail, and the polling threads of ncpd    *)
(* spin.                                                                   *)
WatchesOpenSockets ==
    /\ \A i \in 1 .. fdCount : \E o \in alive : watching[o] /\ fd[o] = fds[i]
    /\ \A i \in 1 .. fdCount - 1 : fds[i] > fds[i + 1]
=============================================================================
