----------------------------- MODULE NcpProofs -----------------------------
(***************************************************************************)
(* Proofs about Ncp, for any clients, services and commands, any size of   *)
(* the table, any Psion and any number of faults: the state keeps its      *)
(* type, only the 15 seconds leave a deleted channel in the table, and a   *)
(* channel that loses its number is told.                                  *)
(*                                                                         *)
(* The handlers call each other, and a proof follows the calls: Gentle is  *)
(* what any handler of the pump may do to the channels of the clients.  It *)
(* is transitive, so each handler has a lemma from those of the handlers   *)
(* it calls.                                                               *)
(***************************************************************************)
EXTENDS Ncp, DataLemmas

Owners == Clients \cup {Link}
Holders == Clients \cup {Link, Free, Gone}
NcpFields == {"table", "remote", "partial", "obj", "link", "failed", "version",
              "maxLinks", "lastSent", "stack", "ser", "answers", "toPsion", "undefined"}
ChannelFields == {"chan", "named", "cname", "tries", "up", "term", "late", "life"}

(* A channel, the channels, and the rest of a state of the multiplexer.    *)
IsChannel(o) ==
    /\ DOMAIN o = ChannelFields
    /\ o.chan \in Channels /\ o.tries \in Nat
    /\ o.term \in BOOLEAN /\ o.named \in BOOLEAN
AreChannels(obj) == DOMAIN obj = Owners /\ \A o \in Owners : IsChannel(obj[o])
IsTable(table) == table \in [Channels -> Holders]
Plain(s) ==
    /\ DOMAIN s = NcpFields
    /\ DOMAIN s.remote = Channels /\ DOMAIN s.partial = Channels
    /\ s.version \in {3, 6} /\ s.maxLinks \in {SiboLinks, PsionLinks}
    /\ s.undefined \in BOOLEAN /\ s.link \in BOOLEAN /\ s.failed \in BOOLEAN
Shape(s) == Plain(s) /\ IsTable(s.table) /\ AreChannels(s.obj)

(* A client in the table has announced itself, is at its own number, and   *)
(* was ended by nothing but the 15 seconds.                                *)
Seats(s) ==
    \A c \in Clients : \A n \in Channels :
        s.table[n] = c =>
            /\ s.obj[c].chan = n /\ n # 0
            /\ s.obj[c].named
            /\ s.obj[c].term => s.obj[c].late

Settled(s) == Shape(s) /\ Seats(s)

(* What a handler of the pump does to the channels of the clients: it      *)
(* gives none a number, and takes one from a channel only to end it.       *)
Gentle(s, t) ==
    /\ Shape(t)
    /\ \A c \in Clients :
          /\ t.obj[c].chan = s.obj[c].chan /\ t.obj[c].named = s.obj[c].named
          /\ t.obj[c].late = s.obj[c].late /\ t.obj[c].life = s.obj[c].life
          /\ s.obj[c].term => t.obj[c].term
          /\ t.obj[c].term /\ ~ s.obj[c].term =>
                /\ \A n \in Channels : t.table[n] # c
                /\ \E n \in Channels : s.table[n] = c
    /\ \A c \in Clients : \A n \in Channels :
          /\ t.table[n] = c => s.table[n] = c
          /\ s.table[n] = c => t.table[n] = c \/ t.obj[c].term

(* A channel that has not announced itself has no number, nor an end.      *)
Fresh(s, c) == s.obj[c].chan = 0 /\ ~ s.obj[c].named /\ ~ s.obj[c].term

(* What a poll of channel c does: it may give c a number, and is gentle to *)
(* the others.                                                             *)
PollOf(s, t, c) ==
    /\ Settled(t)
    /\ \A d \in Clients \ {c} : Fresh(s, d) => Fresh(t, d)
    /\ \A d \in Clients : /\ t.obj[d].late = s.obj[d].late
                          /\ t.obj[d].life = "deleted" => s.obj[d].life = "deleted"
                          /\ s.obj[d].term => t.obj[d].term
    /\ \A d \in Clients : \A n \in Channels :
          /\ s.table[n] = d => t.table[n] = d \/ t.obj[d].term
          /\ t.table[n] = d => s.table[n] = d \/ d = c

-----------------------------------------------------------------------------
(* A gentle step keeps the seats, and two of them are one.                 *)
LEMMA GentleSettles ==
    ASSUME NEW s, NEW t, Settled(s), Gentle(s, t)
    PROVE  Settled(t)
<1>1. SUFFICES ASSUME NEW c \in Clients, NEW n \in Channels, t.table[n] = c
               PROVE  /\ t.obj[c].chan = n /\ n # 0
                      /\ t.obj[c].named
                      /\ t.obj[c].term => t.obj[c].late
  BY DEF Settled, Gentle, Seats
<1>2. s.table[n] = c
  BY <1>1 DEF Gentle
<1>3. /\ s.obj[c].chan = n /\ n # 0
      /\ s.obj[c].named
      /\ s.obj[c].term => s.obj[c].late
  BY <1>2 DEF Settled, Seats
<1>4. t.obj[c].term => s.obj[c].term
  BY <1>1 DEF Gentle
<1> QED
  BY <1>3, <1>4 DEF Gentle

LEMMA GentleTwice ==
    ASSUME NEW s, NEW t, NEW u, Gentle(s, t), Gentle(t, u)
    PROVE  Gentle(s, u)
<1>1. ASSUME NEW c \in Clients
      PROVE  /\ u.obj[c].chan = s.obj[c].chan /\ u.obj[c].named = s.obj[c].named
             /\ u.obj[c].late = s.obj[c].late /\ u.obj[c].life = s.obj[c].life
             /\ s.obj[c].term => u.obj[c].term
  BY DEF Gentle
<1>2. ASSUME NEW c \in Clients, u.obj[c].term, ~ s.obj[c].term
      PROVE  /\ \A n \in Channels : u.table[n] # c
             /\ \E n \in Channels : s.table[n] = c
  <2>1. CASE t.obj[c].term
    BY <1>2, <2>1 DEF Gentle
  <2>2. CASE ~ t.obj[c].term
    BY <1>2, <2>2 DEF Gentle
  <2> QED BY <2>1, <2>2
<1>3. ASSUME NEW c \in Clients, NEW n \in Channels
      PROVE  /\ u.table[n] = c => s.table[n] = c
             /\ s.table[n] = c => u.table[n] = c \/ u.obj[c].term
  BY DEF Gentle
<1> QED
  BY <1>1, <1>2, <1>3 DEF Gentle

(* What leaves the table and the channels alone is gentle.                 *)
LEMMA AsideIsGentle ==
    ASSUME NEW s, NEW t, Shape(s), Plain(t), t.table = s.table, t.obj = s.obj
    PROVE  Gentle(s, t)
<1>1. Shape(t)
  BY DEF Shape
<1> QED
  BY <1>1 DEF Gentle

(* The constants of the module, told apart.                                *)
LEMMA HoldersDiffer ==
    /\ Link # Free /\ Link # Gone /\ Free # Gone
    /\ Link \notin Clients /\ Free \notin Clients /\ Gone \notin Clients
BY ClientsAssumption DEF Link, Free, Gone

-----------------------------------------------------------------------------
(* The helpers that only send or answer.                                   *)
LEMMA PostAside ==
    ASSUME NEW s, NEW ms, Shape(s)
    PROVE  LET t == Post(s, ms) IN Plain(t) /\ t.table = s.table /\ t.obj = s.obj /\ t.link = s.link
BY DEF Post, Shape, Plain, NcpFields

LEMMA AnswerAside ==
    ASSUME NEW s, NEW c, NEW a, Shape(s)
    PROVE  LET t == Answer(s, c, a) IN Plain(t) /\ t.table = s.table /\ t.obj = s.obj
BY DEF Answer, Shape, Plain, NcpFields

LEMMA DeliverAside ==
    ASSUME NEW s, NEW c, NEW data, Shape(s)
    PROVE  LET t == Deliver(s, c, data) IN Plain(t) /\ t.table = s.table /\ t.obj = s.obj
BY DEF Deliver, Shape, Plain, NcpFields

LEMMA UndefinedAside ==
    ASSUME NEW s, Shape(s)
    PROVE  LET t == Undefined(s) IN Plain(t) /\ t.table = s.table /\ t.obj = s.obj
BY DEF Undefined, Shape, Plain, NcpFields

LEMMA SendDataAside ==
    ASSUME NEW s, NEW n, NEW body, Shape(s)
    PROVE  LET t == SendData(s, n, body) IN Plain(t) /\ t.table = s.table /\ t.obj = s.obj
<1> DEFINE ms == [i \in 1 .. Len(body) |->
                    [kind |-> "data", to |-> s.remote[n], from |-> n,
                     last |-> i = Len(body), body |-> body[i]]]
           p == Post(s, ms)
<1>1. SendData(s, n, body) = [p EXCEPT !.lastSent = n]
  BY DEF SendData
<1>2. Plain(p) /\ p.table = s.table /\ p.obj = s.obj
  BY PostAside
<1> HIDE DEF p
<1>3. LET t == [p EXCEPT !.lastSent = n]
      IN  Plain(t) /\ t.table = p.table /\ t.obj = p.obj
  BY <1>2 DEF Plain, NcpFields
<1> QED
  BY <1>1, <1>2, <1>3


-----------------------------------------------------------------------------
(* The ways a handler changes a channel or an entry of the table.          *)
LEMMA ChannelSet ==
    ASSUME NEW obj, AreChannels(obj), NEW o \in Owners, NEW x, IsChannel(x)
    PROVE  AreChannels([obj EXCEPT ![o] = x])
BY DEF AreChannels

LEMMA ChangedIsGentle ==
    ASSUME NEW s, NEW t, Shape(s), Plain(t), NEW o \in Owners, NEW x, IsChannel(x),
           t.table = s.table, t.obj = [s.obj EXCEPT ![o] = x],
           o \in Clients => /\ x.chan = s.obj[o].chan /\ x.named = s.obj[o].named
                            /\ x.late = s.obj[o].late /\ x.life = s.obj[o].life
                            /\ x.term = s.obj[o].term
    PROVE  Gentle(s, t)
<1>1. Shape(t)
  BY ChannelSet DEF Shape
<1>2. ASSUME NEW c \in Clients
      PROVE  /\ t.obj[c].chan = s.obj[c].chan /\ t.obj[c].named = s.obj[c].named
             /\ t.obj[c].late = s.obj[c].late /\ t.obj[c].life = s.obj[c].life
             /\ s.obj[c].term = t.obj[c].term
  BY DEF Shape, AreChannels, Owners
<1> QED
  BY <1>1, <1>2 DEF Gentle

LEMMA EndedIsGentle ==
    ASSUME NEW s, NEW t, Settled(s), Plain(t), NEW n \in Channels, s.table[n] \in Owners,
           t.table = [s.table EXCEPT ![n] = Free],
           t.obj = [s.obj EXCEPT ![s.table[n]].term = TRUE]
    PROVE  Gentle(s, t)
<1> DEFINE o == s.table[n]
           x == [s.obj[o] EXCEPT !.term = TRUE]
<1>1. AreChannels(s.obj) /\ IsTable(s.table) /\ IsChannel(s.obj[o])
  BY DEF Settled, Shape, AreChannels
<1>2. IsChannel(x)
  BY <1>1 DEF IsChannel, ChannelFields
<1>3. t.obj = [s.obj EXCEPT ![o] = x]
  OBVIOUS
<1>4. Shape(t)
  <2>1. AreChannels(t.obj)
    BY <1>1, <1>2, <1>3, ChannelSet
  <2>2. IsTable(t.table)
    BY <1>1 DEF IsTable, Holders
  <2> QED BY <2>1, <2>2 DEF Shape
<1>5. /\ x.chan = s.obj[o].chan /\ x.named = s.obj[o].named
      /\ x.late = s.obj[o].late /\ x.life = s.obj[o].life /\ x.term
  BY <1>1 DEF IsChannel, ChannelFields
<1>6. \A p \in Owners : t.obj[p] = IF p = o THEN x ELSE s.obj[p]
  BY <1>1, <1>3 DEF AreChannels
<1>7. \A m \in Channels : t.table[m] = IF m = n THEN Free ELSE s.table[m]
  BY <1>1 DEF IsTable
<1> HIDE DEF x
<1>8. ASSUME NEW c \in Clients
      PROVE  /\ t.obj[c].chan = s.obj[c].chan /\ t.obj[c].named = s.obj[c].named
             /\ t.obj[c].late = s.obj[c].late /\ t.obj[c].life = s.obj[c].life
             /\ s.obj[c].term => t.obj[c].term
             /\ t.obj[c].term /\ ~ s.obj[c].term => c = o
  BY <1>5, <1>6 DEF Owners
<1>9. ASSUME NEW c \in Clients, c = o
      PROVE  /\ \A m \in Channels : t.table[m] # c
             /\ \E m \in Channels : s.table[m] = c
             /\ t.obj[c].term
  <2>1. \A m \in Channels : s.table[m] = c => m = n
    BY <1>9 DEF Settled, Seats
  <2>2. t.obj[c].term
    BY <1>5, <1>6, <1>9
  <2> QED BY <2>1, <2>2, <1>7, <1>9, HoldersDiffer
<1>10. ASSUME NEW c \in Clients, NEW m \in Channels
       PROVE  /\ t.table[m] = c => s.table[m] = c
              /\ s.table[m] = c => t.table[m] = c \/ t.obj[c].term
  BY <1>7, <1>9, HoldersDiffer
<1> HIDE DEF o
<1> QED
  BY <1>4, <1>8, <1>9, <1>10 DEF Gentle

LEMMA LinkSeatedIsGentle ==
    ASSUME NEW s, NEW t, Shape(s), Plain(t), NEW n \in Channels, s.table[n] \notin Clients,
           NEW x, IsChannel(x),
           t.table = [s.table EXCEPT ![n] = Link], t.obj = [s.obj EXCEPT ![Link] = x]
    PROVE  Gentle(s, t)
<1>1. AreChannels(s.obj) /\ IsTable(s.table) /\ Link \in Owners
  BY DEF Shape, Owners
<1>2. Shape(t)
  <2>1. AreChannels(t.obj)
    BY <1>1, ChannelSet
  <2>2. IsTable(t.table)
    BY <1>1 DEF IsTable, Holders
  <2> QED BY <2>1, <2>2 DEF Shape
<1>3. \A c \in Clients : t.obj[c] = s.obj[c]
  BY <1>1, HoldersDiffer DEF AreChannels, Owners
<1>4. \A m \in Channels : t.table[m] = IF m = n THEN Link ELSE s.table[m]
  BY <1>1 DEF IsTable
<1> QED
  BY <1>2, <1>3, <1>4, HoldersDiffer DEF Gentle

(* getFirstUnusedChan: 0, or a number that is free.                        *)
LEMMA FirstUnusedIs ==
    ASSUME NEW s, Shape(s)
    PROVE  /\ FirstUnused(s) \in Channels
           /\ FirstUnused(s) # 0 => s.table[FirstUnused(s)] = Free
<1> DEFINE unused == {n \in 1 .. s.maxLinks - 1 : s.table[n] = Free}
<1>1. s.maxLinks \in Nat /\ s.maxLinks <= PsionLinks /\ PsionLinks \in Nat \ {0}
  BY LinksAssumption DEF Shape, Plain
<1>2. CASE unused = {}
  <2>1. FirstUnused(s) = 0
    BY <1>2 DEF FirstUnused
  <2> QED BY <1>1, <2>1 DEF Channels
<1>3. CASE unused # {}
  <2>1. unused \subseteq Nat
    BY <1>1
  <2>2. \E x \in unused : \A y \in unused : x <= y
    BY <1>3, <2>1, LeastElement
  <2>3. FirstUnused(s) = Min(unused)
    BY <1>3 DEF FirstUnused
  <2>4. Min(unused) \in unused
    BY <2>2, Zenon DEF Min
  <2> QED BY <1>1, <2>3, <2>4 DEF Channels
<1> QED BY <1>2, <1>3


-----------------------------------------------------------------------------
(* The handlers of the pump.                                               *)
LEMMA DisconnectGentle ==
    ASSUME NEW s, Settled(s), NEW n
    PROVE  Gentle(s, Disconnect(s, n))
<1>0. Shape(s)
  BY DEF Settled
<1>1. CASE ~ Valid(s, n)
  <2>1. Disconnect(s, n) = s
    BY <1>1 DEF Disconnect
  <2> QED BY <1>0, <2>1, AsideIsGentle DEF Shape
<1>2. CASE Valid(s, n) /\ Dangling(s, n)
  <2>1. Disconnect(s, n) = Undefined(s)
    BY <1>2 DEF Disconnect
  <2> QED BY <1>0, <2>1, UndefinedAside, AsideIsGentle
<1>3. CASE Valid(s, n) /\ ~ Dangling(s, n)
  <2> DEFINE o == s.table[n]
             e == [s EXCEPT !.obj[o].term = TRUE, !.table[n] = Free]
             ms == <<[kind |-> "disconnect", chan |-> n, to |-> s.remote[n]]>>
  <2>1. Disconnect(s, n) = Post(e, ms)
    BY <1>3 DEF Disconnect
  <2>2. n \in Channels /\ o \in Owners
    BY <1>0, <1>3 DEF Valid, Dangling, Shape, IsTable, Holders, Owners
  <2>3. /\ Plain(e) /\ e.table = [s.table EXCEPT ![n] = Free]
        /\ e.obj = [s.obj EXCEPT ![o].term = TRUE]
    BY <1>0 DEF Shape, Plain, NcpFields
  <2>4. Gentle(s, e)
    BY <2>2, <2>3, EndedIsGentle
  <2> HIDE DEF e, ms
  <2>5. Shape(e)
    BY <2>4 DEF Gentle
  <2>6. Gentle(e, Post(e, ms))
    BY <2>5, PostAside, AsideIsGentle
  <2> QED BY <2>1, <2>4, <2>6, GentleTwice
<1> QED BY <1>1, <1>2, <1>3

(* A channel that is in the table is connected and registered at its own   *)
(* number.                                                                 *)
LEMMA SeatedGentle ==
    ASSUME NEW s, Settled(s), NEW n \in Channels, NEW c \in Clients, s.table[n] = c
    PROVE  /\ Occupy(s, c) = n /\ n # 0
           /\ Gentle(s, Seated(s, c))
<1>1. s.obj[c].chan = n /\ n # 0
  BY DEF Settled, Seats
<1>2. Occupy(s, c) = n
  BY <1>1 DEF Occupy
<1> DEFINE t == [s EXCEPT !.table[n] = c, !.obj[c].chan = n]
           x == [s.obj[c] EXCEPT !.chan = n]
<1>3. Seated(s, c) = t
  BY <1>2 DEF Seated
<1>4. Shape(s)
  BY DEF Settled
<1>5. Plain(t) /\ t.table = [s.table EXCEPT ![n] = c] /\ t.obj = [s.obj EXCEPT ![c] = x]
  BY <1>4 DEF Shape, Plain, NcpFields
<1>6. t.table = s.table
  BY <1>4, <1>5 DEF Shape, IsTable
<1>7. c \in Owners /\ IsChannel(s.obj[c])
  BY <1>4 DEF Shape, AreChannels, Owners
<1>8. /\ IsChannel(x)
      /\ x.chan = s.obj[c].chan /\ x.named = s.obj[c].named /\ x.term = s.obj[c].term
      /\ x.late = s.obj[c].late /\ x.life = s.obj[c].life
  BY <1>1, <1>7 DEF IsChannel, ChannelFields
<1> HIDE DEF t, x
<1>9. Gentle(s, t)
  BY <1>4, <1>5, <1>6, <1>7, <1>8, ChangedIsGentle
<1> QED
  BY <1>1, <1>2, <1>3, <1>9

LEMMA PostGentle ==
    ASSUME NEW s, NEW ms, Shape(s)
    PROVE  Gentle(s, Post(s, ms))
BY PostAside, AsideIsGentle

LEMMA ConnectGentle ==
    ASSUME NEW s, Settled(s), NEW n \in Channels, NEW c \in Clients, s.table[n] = c
    PROVE  Gentle(s, Connect(s, c))
<1> DEFINE t == Seated(s, c)
           ms == <<[kind |-> "connect", chan |-> Occupy(s, c), name |-> ConnectName(s, c)]>>
<1>1. Occupy(s, c) # 0 /\ Gentle(s, t)
  BY SeatedGentle
<1>2. Connect(s, c) = Post(t, ms)
  BY <1>1 DEF Connect
<1>3. Gentle(t, Post(t, ms))
  BY <1>1, PostGentle DEF Gentle
<1> QED
  BY <1>1, <1>2, <1>3, GentleTwice

LEMMA LinkRegisterGentle ==
    ASSUME NEW s, Shape(s), NEW c
    PROVE  Gentle(s, LinkRegister(s, c))
<1> DEFINE e == [s EXCEPT !.stack = @ \cup {<<s.ser, s.obj[c].chan>>}, !.ser = @ + 1]
           body == <<<<"reg", s.ser, Service[c]>>>>
           to == s.obj[Link].chan
<1>1. LinkRegister(s, c) = SendData(e, to, body)
  BY DEF LinkRegister
<1>2. Plain(e) /\ e.table = s.table /\ e.obj = s.obj
  BY DEF Shape, Plain, NcpFields
<1> HIDE DEF e, body, to
<1>3. Shape(e)
  BY <1>2 DEF Shape
<1>4. LET t == SendData(e, to, body) IN Plain(t) /\ t.table = s.table /\ t.obj = s.obj
  BY <1>2, <1>3, SendDataAside
<1> QED
  BY <1>1, <1>4, AsideIsGentle

LEMMA RegisterGentle ==
    ASSUME NEW s, Settled(s), NEW n \in Channels, NEW c \in Clients, s.table[n] = c
    PROVE  Gentle(s, Register(s, c))
<1> DEFINE t == Seated(s, c)
<1>0. Gentle(s, s)
  BY AsideIsGentle DEF Settled, Shape
<1>1. Occupy(s, c) # 0 /\ Gentle(s, t)
  BY SeatedGentle
<1>2. Register(s, c) = IF ~ s.link THEN s ELSE LinkRegister(t, c)
  BY <1>1 DEF Register
<1>3. Gentle(t, LinkRegister(t, c))
  BY <1>1, LinkRegisterGentle DEF Gentle
<1> QED
  BY <1>0, <1>1, <1>2, <1>3, GentleTwice

(* Any change of what the model keeps of a connection attempt.             *)
LEMMA AttemptGentle ==
    ASSUME NEW s, Settled(s), NEW c \in Clients, NEW t, Plain(t), t.table = s.table,
           NEW x, t.obj = [s.obj EXCEPT ![c] = x], DOMAIN x = ChannelFields, x.tries \in Nat,
           \A f \in ChannelFields \ {"tries", "up", "cname"} : x[f] = s.obj[c][f]
    PROVE  Gentle(s, t)
<1>1. Shape(s) /\ c \in Owners
  BY DEF Settled, Owners
<1>2. IsChannel(s.obj[c])
  BY <1>1 DEF Shape, AreChannels
<1>3. IsChannel(x) /\ x.chan = s.obj[c].chan /\ x.named = s.obj[c].named
      /\ x.late = s.obj[c].late /\ x.life = s.obj[c].life /\ x.term = s.obj[c].term
  BY <1>2 DEF IsChannel, ChannelFields
<1> QED
  BY <1>1, <1>3, ChangedIsGentle

LEMMA ConnectAckGentle ==
    ASSUME NEW s, Settled(s), NEW n, Valid(s, n)
    PROVE  Gentle(s, ConnectAck(s, n))
<1> DEFINE c == s.table[n]
<1>0. Shape(s)
  BY DEF Settled
<1>1. CASE Dangling(s, n)
  BY <1>0, <1>1, UndefinedAside, AsideIsGentle DEF ConnectAck
<1>2. CASE ~ Dangling(s, n) /\ c = Link
  <2>1. ConnectAck(s, n) = s
    BY <1>2 DEF ConnectAck
  <2> QED BY <1>0, <2>1, AsideIsGentle DEF Shape
<1>3. CASE ~ Dangling(s, n) /\ c # Link
  <2> DEFINE e == Answer(s, c, "Ok")
             t == [e EXCEPT !.obj[c].up = TRUE, !.obj[c].tries = 3]
             x == [s.obj[c] EXCEPT !.up = TRUE, !.tries = 3]
  <2>1. ConnectAck(s, n) = t
    BY <1>3 DEF ConnectAck
  <2>2. c \in Clients
    BY <1>0, <1>3 DEF Valid, Dangling, Shape, IsTable, Holders
  <2>3. Plain(e) /\ e.table = s.table /\ e.obj = s.obj
    BY <1>0, AnswerAside
  <2>4. DOMAIN s.obj = Owners /\ c \in Owners /\ IsChannel(s.obj[c])
    BY <1>0, <2>2 DEF Shape, AreChannels, Owners
  <2> HIDE DEF e
  <2>5. Plain(t) /\ t.table = s.table /\ t.obj = [s.obj EXCEPT ![c].up = TRUE, ![c].tries = 3]
    BY <2>3 DEF Plain, NcpFields
  <2>6. t.obj = [s.obj EXCEPT ![c] = x]
    BY <2>4, <2>5
  <2>7. /\ DOMAIN x = ChannelFields /\ x.tries \in Nat
        /\ \A f \in ChannelFields \ {"tries", "up", "cname"} : x[f] = s.obj[c][f]
    BY <2>4 DEF IsChannel, ChannelFields
  <2> HIDE DEF t, x, c
  <2>8. Gentle(s, t)
    BY <2>2, <2>5, <2>6, <2>7, AttemptGentle
  <2> QED BY <2>1, <2>8
<1> QED BY <1>1, <1>2, <1>3


LEMMA SocketNakGentle ==
    ASSUME NEW s, Settled(s), NEW n \in Channels, NEW c \in Clients, s.table[n] = c
    PROVE  Gentle(s, SocketNak(s, c))
<1>0. Shape(s)
  BY DEF Settled
<1>1. CASE ~ s.obj[c].named \/ s.obj[c].tries > 1
  <2> DEFINE t == Answer(s, c, "NAK")
             k == s.obj[c].chan
  <2>1. SocketNak(s, c) = Disconnect(t, k)
    BY <1>1 DEF SocketNak
  <2>2. Gentle(s, t)
    BY <1>0, AnswerAside, AsideIsGentle
  <2>3. Gentle(t, Disconnect(t, k))
    BY <2>2, GentleSettles, DisconnectGentle
  <2> QED BY <2>1, <2>2, <2>3, GentleTwice
<1>2. CASE ~ (~ s.obj[c].named \/ s.obj[c].tries > 1)
  <2> DEFINE t == [s EXCEPT !.obj[c].tries = @ + 1]
             x == [s.obj[c] EXCEPT !.tries = @ + 1]
  <2>1. SocketNak(s, c) = Register(t, c)
    BY <1>2 DEF SocketNak
  <2>2. Plain(t) /\ t.table = s.table /\ t.obj = [s.obj EXCEPT ![c] = x]
    BY <1>0 DEF Shape, Plain, NcpFields
  <2>3. IsChannel(s.obj[c])
    BY <1>0 DEF Shape, AreChannels, Owners
  <2>4. /\ DOMAIN x = ChannelFields /\ x.tries \in Nat
        /\ \A f \in ChannelFields \ {"tries", "up", "cname"} : x[f] = s.obj[c][f]
    BY <2>3 DEF IsChannel, ChannelFields
  <2> HIDE DEF t, x
  <2>5. Gentle(s, t)
    BY <2>2, <2>4, AttemptGentle
  <2>6. Gentle(t, Register(t, c))
    BY <2>2, <2>5, GentleSettles, RegisterGentle
  <2> QED BY <2>1, <2>5, <2>6, GentleTwice
<1> QED BY <1>1, <1>2

LEMMA ConnectNakGentle ==
    ASSUME NEW s, Settled(s), NEW n, Valid(s, n)
    PROVE  Gentle(s, ConnectNak(s, n))
<1>0. Shape(s) /\ n \in Channels
  BY DEF Settled, Valid
<1>1. CASE Dangling(s, n)
  BY <1>0, <1>1, UndefinedAside, AsideIsGentle DEF ConnectNak
<1>2. CASE ~ Dangling(s, n) /\ s.table[n] = Link
  <2> DEFINE t == [s EXCEPT !.obj[Link].term = TRUE]
             x == [s.obj[Link] EXCEPT !.term = TRUE]
  <2>1. ConnectNak(s, n) = t
    BY <1>2 DEF ConnectNak
  <2>2. Plain(t) /\ t.table = s.table /\ t.obj = [s.obj EXCEPT ![Link] = x]
    BY <1>0 DEF Shape, Plain, NcpFields
  <2>3. IsChannel(s.obj[Link]) /\ Link \in Owners
    BY <1>0 DEF Shape, AreChannels, Owners
  <2>4. IsChannel(x)
    BY <2>3 DEF IsChannel, ChannelFields
  <2> HIDE DEF t, x
  <2>5. Gentle(s, t)
    BY <1>0, <2>2, <2>3, <2>4, HoldersDiffer, ChangedIsGentle
  <2> QED BY <2>1, <2>5
<1>3. CASE ~ Dangling(s, n) /\ s.table[n] # Link
  <2>1. s.table[n] \in Clients
    BY <1>0, <1>3 DEF Valid, Dangling, Shape, IsTable, Holders
  <2>2. ConnectNak(s, n) = SocketNak(s, s.table[n])
    BY <1>3 DEF ConnectNak
  <2> QED BY <1>0, <2>1, <2>2, SocketNakGentle
<1> QED BY <1>1, <1>2, <1>3

LEMMA RegisterAckGentle ==
    ASSUME NEW s, Settled(s), NEW chan, NEW name
    PROVE  Gentle(s, RegisterAck(s, chan, name))
<1> DEFINE searched == {n \in 1 .. s.maxLinks - 1 : Valid(s, n)}
           found == {n \in searched : ~ Dangling(s, n) /\ s.obj[s.table[n]].chan = chan}
           first == Min(found)
           c == s.table[first]
           lost == \E n \in searched : Dangling(s, n) /\ \A f \in found : n < f
           t == [s EXCEPT !.obj[c].cname = name, !.obj[c].tries = @ + 1]
           x == [s.obj[c] EXCEPT !.cname = name, !.tries = @ + 1]
<1>0. Shape(s) /\ Gentle(s, s)
  BY AsideIsGentle DEF Settled, Shape
<1>1. RegisterAck(s, chan, name) = IF lost THEN Undefined(s)
                                   ELSE IF found = {} \/ c = Link THEN s
                                   ELSE Connect(t, c)
  BY DEF RegisterAck
<1>2. Gentle(s, Undefined(s))
  BY <1>0, UndefinedAside, AsideIsGentle
<1>3. ASSUME found # {}, c # Link
      PROVE  Gentle(s, Connect(t, c))
  <2>1. found \subseteq Nat
    BY <1>0, LinksAssumption DEF Shape, Plain
  <2>2. \E a \in found : \A b \in found : a <= b
    BY <1>3, <2>1, LeastElement
  <2>3. first \in found
    BY <2>2, Zenon DEF Min
  <2> HIDE DEF first
  <2>4. Valid(s, first) /\ ~ Dangling(s, first)
    BY <2>3
  <2>5. first \in Channels /\ c \in Clients
    BY <1>0, <1>3, <2>4 DEF Valid, Dangling, Shape, IsTable, Holders
  <2>6. Plain(t) /\ t.table = s.table
        /\ t.obj = [s.obj EXCEPT ![c].cname = name, ![c].tries = @ + 1]
    BY <1>0 DEF Shape, Plain, NcpFields
  <2>7. c \in DOMAIN s.obj /\ IsChannel(s.obj[c])
    BY <1>0, <2>5 DEF Shape, AreChannels, Owners
  <2> HIDE DEF c
  <2>8. t.obj = [s.obj EXCEPT ![c] = x]
    BY <2>6, <2>7 DEF IsChannel, ChannelFields
  <2>9. /\ DOMAIN x = ChannelFields /\ x.tries \in Nat
        /\ \A f \in ChannelFields \ {"tries", "up", "cname"} : x[f] = s.obj[c][f]
    <3> HIDE DEF t, found
    <3>1. DOMAIN x = ChannelFields /\ x.tries = s.obj[c].tries + 1
      BY <2>7 DEF IsChannel, ChannelFields
    <3>2. \A f \in ChannelFields \ {"tries", "up", "cname"} : x[f] = s.obj[c][f]
      BY <2>7 DEF IsChannel, ChannelFields
    <3> QED BY <2>7, <3>1, <3>2 DEF IsChannel
  <2>10. t.table[first] = c
    BY <2>6 DEF c
  <2> HIDE DEF t, x
  <2>11. Gentle(s, t)
    BY <2>5, <2>6, <2>8, <2>9, AttemptGentle
  <2>12. Gentle(t, Connect(t, c))
    BY <2>5, <2>10, <2>11, GentleSettles, ConnectGentle
  <2> QED BY <2>11, <2>12, GentleTwice
<1> HIDE DEF lost, t, c, found
<1> QED
  BY <1>0, <1>1, <1>2, <1>3

LEMMA LinkDataGentle ==
    ASSUME NEW s, Settled(s), NEW reply
    PROVE  Gentle(s, LinkData(s, reply))
<1> DEFINE mine == {e \in s.stack : e[1] = reply[2]}
           rest == [s EXCEPT !.stack = @ \ mine]
           chan == (CHOOSE e \in mine : TRUE)[2]
           name == reply[3]
<1>0. Shape(s) /\ Gentle(s, s)
  BY AsideIsGentle DEF Settled, Shape
<1>1. \/ LinkData(s, reply) = s
      \/ LinkData(s, reply) = RegisterAck(rest, chan, name)
  BY DEF LinkData
<1>2. Plain(rest) /\ rest.table = s.table /\ rest.obj = s.obj
  BY <1>0 DEF Shape, Plain, NcpFields
<1> HIDE DEF rest, chan, name
<1>3. Gentle(s, rest)
  BY <1>0, <1>2, AsideIsGentle
<1>4. Gentle(rest, RegisterAck(rest, chan, name))
  BY <1>3, GentleSettles, RegisterAckGentle
<1> QED
  BY <1>0, <1>1, <1>3, <1>4, GentleTwice

LEMMA DataCallbackGentle ==
    ASSUME NEW s, Settled(s), NEW n, NEW body
    PROVE  Gentle(s, DataCallback(s, n, body))
<1> DEFINE reply == body[1]
           c == s.table[n]
<1>0. Shape(s) /\ Gentle(s, s)
  BY AsideIsGentle DEF Settled, Shape
<1>1. \/ DataCallback(s, n, body) = Undefined(s)
      \/ DataCallback(s, n, body) = LinkData(s, reply)
      \/ DataCallback(s, n, body) = Deliver(s, c, body)
      \/ DataCallback(s, n, body) = s
  BY DEF DataCallback
<1> HIDE DEF reply, c
<1>2. Gentle(s, Undefined(s))
  BY <1>0, UndefinedAside, AsideIsGentle
<1>3. Gentle(s, Deliver(s, c, body))
  BY <1>0, DeliverAside, AsideIsGentle
<1> QED
  BY <1>0, <1>1, <1>2, <1>3, LinkDataGentle


LEMMA ConnectLinkGentle ==
    ASSUME NEW s, Shape(s),
           s.obj[Link].chan # 0 => s.table[s.obj[Link].chan] \notin Clients
    PROVE  Gentle(s, Connect(s, Link))
<1> DEFINE n == Occupy(s, Link)
           t == Seated(s, Link)
           x == [s.obj[Link] EXCEPT !.chan = n]
           ms == <<[kind |-> "connect", chan |-> n, name |-> ConnectName(s, Link)]>>
<1>1. Link \in Owners /\ IsChannel(s.obj[Link]) /\ Gentle(s, s)
  BY AsideIsGentle DEF Shape, AreChannels, Owners
<1>2. CASE n = 0
  <2>1. Connect(s, Link) = s
    BY <1>2 DEF Connect
  <2> QED BY <1>1, <2>1
<1>3. CASE n # 0
  <2>1. Connect(s, Link) = Post(t, ms)
    BY <1>3 DEF Connect
  <2>2. n \in Channels /\ s.table[n] \notin Clients
    BY <1>1, <1>3, FirstUnusedIs, HoldersDiffer DEF Occupy, IsChannel
  <2>3. Plain(t) /\ t.table = [s.table EXCEPT ![n] = Link] /\ t.obj = [s.obj EXCEPT ![Link] = x]
    BY DEF Shape, Plain, NcpFields, Seated
  <2> HIDE DEF n, t
  <2>4. IsChannel(x)
    BY <1>1, <2>2 DEF IsChannel, ChannelFields
  <2> HIDE DEF x, ms
  <2>5. Gentle(s, t)
    BY <2>2, <2>3, <2>4, LinkSeatedIsGentle
  <2>6. Gentle(t, Post(t, ms))
    BY <2>5, PostGentle DEF Gentle
  <2> QED BY <2>1, <2>5, <2>6, GentleTwice
<1> QED BY <1>2, <1>3

LEMMA NewLinkChannelGentle ==
    ASSUME NEW s, Shape(s), NEW at \in Channels, s.table[at] \notin Clients,
           NEW own \in {0, at}
    PROVE  Gentle(s, NewLinkChannel(s, own, at))
<1> DEFINE new == [NewChannel EXCEPT !.chan = own]
           e == [s EXCEPT !.link = TRUE, !.stack = {}, !.ser = 0, !.obj[Link] = new]
           k == Connect(e, Link)
           t == [k EXCEPT !.table[at] = Link]
<1>1. NewLinkChannel(s, own, at) = t
  BY DEF NewLinkChannel
<1>2. Link \in Owners /\ 0 \in Channels /\ DOMAIN s.obj = Owners
  BY LinksAssumption DEF Owners, Channels, Shape, AreChannels
<1>3. IsChannel(new) /\ new.chan = own
  BY <1>2 DEF IsChannel, ChannelFields, NewChannel
<1>4. Plain(e) /\ e.table = s.table /\ e.obj = [s.obj EXCEPT ![Link] = new]
  BY DEF Shape, Plain, NcpFields
<1> HIDE DEF new, e
<1>5. Gentle(s, e)
  BY <1>2, <1>3, <1>4, HoldersDiffer, ChangedIsGentle
<1>6. e.obj[Link].chan = own
  BY <1>2, <1>3, <1>4
<1>7. Shape(e)
  BY <1>5 DEF Gentle
<1>8. Gentle(e, k)
  BY <1>4, <1>6, <1>7, ConnectLinkGentle
<1> HIDE DEF k
<1>9. Gentle(s, k) /\ Shape(k)
  BY <1>5, <1>8, GentleTwice DEF Gentle
<1>10. k.table[at] \notin Clients
  BY <1>9 DEF Gentle
<1>11. Plain(t) /\ t.table = [k.table EXCEPT ![at] = Link] /\ t.obj = k.obj
  BY <1>9 DEF Shape, Plain, NcpFields
<1>12. IsChannel(k.obj[Link])
  BY <1>2, <1>9 DEF Shape, AreChannels
<1> HIDE DEF t
<1>13. Shape(t) 
  BY <1>2, <1>9, <1>11 DEF Shape, IsTable, Holders
<1>14. \A m \in Channels : t.table[m] = IF m = at THEN Link ELSE k.table[m]
  BY <1>9, <1>11 DEF Shape, IsTable
<1>15. Gentle(k, t)
  BY <1>10, <1>11, <1>13, <1>14, HoldersDiffer DEF Gentle
<1> QED
  BY <1>1, <1>9, <1>15, GentleTwice

LEMMA LinkRequestedGentle ==
    ASSUME NEW s, Settled(s), NEW m
    PROVE  Gentle(s, LinkRequested(s, m))
<1> DEFINE n == FirstUnused(s)
           at == IF s.link THEN s.obj[Link].chan ELSE n
           a == Post(s, <<[kind |-> "response", chan |-> at, to |-> m.chan, ok |-> TRUE]>>)
<1>1. LinkRequested(s, m) = IF s.link THEN a ELSE NewLinkChannel(a, at, at)
  BY DEF LinkRequested
<1>2. Shape(s)
  BY DEF Settled
<1>3. Gentle(s, a) /\ Shape(a) /\ a.table = s.table
  BY <1>2, PostGentle, PostAside DEF Gentle
<1>4. n \in Channels /\ s.table[n] \notin Clients
  BY <1>2, FirstUnusedIs, HoldersDiffer DEF Settled, Seats
<1> HIDE DEF a, n
<1>5. ASSUME ~ s.link PROVE Gentle(a, NewLinkChannel(a, at, at))
  BY <1>3, <1>4, <1>5, NewLinkChannelGentle
<1> HIDE DEF at
<1> QED
  BY <1>1, <1>3, <1>5, GentleTwice

LEMMA ServerRequestedGentle ==
    ASSUME NEW s, Settled(s), NEW m
    PROVE  Gentle(s, ServerRequested(s, m))
<1> DEFINE a == Post(s, <<[kind |-> "response", chan |-> 0, to |-> m.chan, ok |-> FALSE]>>)
<1>1. ServerRequested(s, m) = IF s.link THEN a ELSE NewLinkChannel(a, 0, 0)
  BY DEF ServerRequested
<1>2. Shape(s)
  BY DEF Settled
<1>3. Gentle(s, a) /\ Shape(a) /\ a.table = s.table
  BY <1>2, PostGentle, PostAside DEF Gentle
<1>4. 0 \in Channels /\ s.table[0] \notin Clients
  BY LinksAssumption DEF Settled, Seats, Channels
<1> HIDE DEF a
<1>5. Gentle(a, NewLinkChannel(a, 0, 0))
  BY <1>3, <1>4, NewLinkChannelGentle
<1> QED
  BY <1>1, <1>3, <1>5, GentleTwice

LEMMA RespondedGentle ==
    ASSUME NEW s, Settled(s), NEW m
    PROVE  Gentle(s, Responded(s, m))
<1> DEFINE t == [s EXCEPT !.remote[m.to] = m.chan]
           n == m.to
<1>1. CASE ~ Valid(s, n)
  <2>1. Responded(s, m) = s
    BY <1>1 DEF Responded
  <2> QED BY <2>1, AsideIsGentle DEF Settled, Shape
<1>2. CASE Valid(s, n) /\ m.ok
  <2>1. Responded(s, m) = ConnectAck(t, n)
    BY <1>2 DEF Responded
  <2>2. Plain(t) /\ t.table = s.table /\ t.obj = s.obj
    BY DEF Settled, Shape, Plain, NcpFields
  <2> HIDE DEF t
  <2>3. Gentle(s, t)
    BY <2>2, AsideIsGentle DEF Settled
  <2>4. Valid(t, n)
    BY <1>2, <2>2 DEF Valid
  <2>5. Gentle(t, ConnectAck(t, n))
    BY <2>3, <2>4, GentleSettles, ConnectAckGentle
  <2> QED BY <2>1, <2>3, <2>5, GentleTwice
<1>3. CASE Valid(s, n) /\ ~ m.ok
  <2>1. Responded(s, m) = ConnectNak(s, n)
    BY <1>3 DEF Responded
  <2> QED BY <1>3, <2>1, ConnectNakGentle
<1> QED BY <1>1, <1>2, <1>3

LEMMA InfoReceivedGentle ==
    ASSUME NEW s, Settled(s), NEW m
    PROVE  Gentle(s, InfoReceived(s, m))
<1>0. Shape(s)
  BY DEF Settled
<1>1. CASE m.version \notin {3, 6}
  <2> DEFINE t == [s EXCEPT !.failed = TRUE]
  <2>1. InfoReceived(s, m) = t
    BY <1>1 DEF InfoReceived
  <2>2. Plain(t) /\ t.table = s.table /\ t.obj = s.obj
    BY <1>0 DEF Shape, Plain, NcpFields
  <2> QED BY <1>0, <2>1, <2>2, AsideIsGentle
<1>2. CASE m.version \in {3, 6}
  <2> DEFINE limit == IF m.version = 6 THEN PsionLinks ELSE s.maxLinks
             t == [s EXCEPT !.version = m.version, !.maxLinks = limit]
             ms == <<[kind |-> "info", version |-> IF m.version = 3 THEN 2 ELSE 6]>>
  <2>1. InfoReceived(s, m) = Post(t, ms)
    BY <1>2 DEF InfoReceived
  <2>2. limit \in {SiboLinks, PsionLinks}
    BY <1>0 DEF Shape, Plain
  <2> HIDE DEF limit
  <2>3. Plain(t) /\ t.table = s.table /\ t.obj = s.obj
    BY <1>0, <1>2, <2>2 DEF Shape, Plain, NcpFields
  <2> HIDE DEF t, ms
  <2>4. Gentle(s, t)
    BY <1>0, <2>3, AsideIsGentle
  <2>5. Gentle(t, Post(t, ms))
    BY <2>4, PostGentle DEF Gentle
  <2> QED BY <2>1, <2>4, <2>5, GentleTwice
<1> QED BY <1>1, <1>2

LEMMA DisconnectedGentle ==
    ASSUME NEW s, Settled(s), NEW m, NEW kept
    PROVE  Gentle(s, Disconnected(s, m, kept))
<1> DEFINE d == Disconnect(s, m.to)
           rest == SubSeq(d.toPsion, 1, kept) \o
                   SelectSeq(SubSeq(d.toPsion, kept + 1, Len(d.toPsion)),
                             LAMBDA x : ~ (x.kind = "data" /\ x.to = m.chan))
           t == [d EXCEPT !.toPsion = rest]
<1>1. Disconnected(s, m, kept) = t
  BY DEF Disconnected
<1>2. Gentle(s, d)
  BY DisconnectGentle
<1> HIDE DEF d, rest
<1>3. Plain(t) /\ t.table = d.table /\ t.obj = d.obj
  BY <1>2 DEF Gentle, Shape, Plain, NcpFields
<1> HIDE DEF t
<1>4. Gentle(d, t)
  BY <1>2, <1>3, AsideIsGentle DEF Gentle
<1> QED
  BY <1>1, <1>2, <1>4, GentleTwice

LEMMA DataReceivedGentle ==
    ASSUME NEW s, Settled(s), NEW m
    PROVE  Gentle(s, DataReceived(s, m))
<1> DEFINE n == IF s.version = 3 THEN s.lastSent ELSE m.to
           whole == Append(s.partial[n], m.body)
           d == DataCallback(s, n, whole)
           t == [s EXCEPT !.partial[n] = whole]
           u == [d EXCEPT !.partial[n] = <<>>]
<1>0. Shape(s) /\ Gentle(s, s)
  BY AsideIsGentle DEF Settled, Shape
<1>1. DataReceived(s, m) \in {s, t, u}
  BY DEF DataReceived
<1> HIDE DEF n, whole
<1>2. Gentle(s, t)
  <2>1. Plain(t) /\ t.table = s.table /\ t.obj = s.obj
    BY <1>0 DEF Shape, Plain, NcpFields
  <2> QED BY <1>0, <2>1, AsideIsGentle
<1>3. Gentle(s, u)
  <2>1. Gentle(s, d)
    BY DataCallbackGentle
  <2> HIDE DEF d
  <2>2. Plain(u) /\ u.table = d.table /\ u.obj = d.obj
    BY <2>1 DEF Gentle, Shape, Plain, NcpFields
  <2> HIDE DEF u
  <2>3. Gentle(d, u)
    BY <2>1, <2>2, AsideIsGentle DEF Gentle
  <2> QED BY <2>1, <2>3, GentleTwice
<1> QED
  BY <1>0, <1>1, <1>2, <1>3

(* NCP::receive does nothing else.                                         *)
LEMMA ReceiveGentle ==
    ASSUME NEW s, Settled(s), NEW m, NEW kept
    PROVE  Gentle(s, Receive(s, m, kept))
<1> DEFINE w == [s EXCEPT !.failed = FALSE]
<1>1. \/ Receive(s, m, kept) = LinkRequested(w, m)
      \/ Receive(s, m, kept) = ServerRequested(w, m)
      \/ Receive(s, m, kept) = Responded(w, m)
      \/ Receive(s, m, kept) = InfoReceived(w, m)
      \/ Receive(s, m, kept) = Disconnected(s, m, kept)
      \/ Receive(s, m, kept) = DataReceived(s, m)
  BY DEF Receive
<1>2. Plain(w) /\ w.table = s.table /\ w.obj = s.obj
  BY DEF Settled, Shape, Plain, NcpFields
<1> HIDE DEF w
<1>3. Gentle(s, w) /\ Settled(w)
  BY <1>2, AsideIsGentle, GentleSettles DEF Settled
<1>4. CASE \/ Receive(s, m, kept) = LinkRequested(w, m)
           \/ Receive(s, m, kept) = ServerRequested(w, m)
  BY <1>3, <1>4, LinkRequestedGentle, ServerRequestedGentle, GentleTwice
<1>5. CASE \/ Receive(s, m, kept) = Responded(w, m)
           \/ Receive(s, m, kept) = InfoReceived(w, m)
  BY <1>3, <1>5, RespondedGentle, InfoReceivedGentle, GentleTwice
<1>6. CASE \/ Receive(s, m, kept) = Disconnected(s, m, kept)
           \/ Receive(s, m, kept) = DataReceived(s, m)
  BY <1>6, DisconnectedGentle, DataReceivedGentle
<1> QED
  BY <1>1, <1>4, <1>5, <1>6


-----------------------------------------------------------------------------
(* The polling thread.                                                     *)
LEMMA GentleFresh ==
    ASSUME NEW s, NEW t, Settled(s), Gentle(s, t), NEW c \in Clients, Fresh(s, c)
    PROVE  Fresh(t, c)
BY DEF Gentle, Settled, Seats, Fresh

LEMMA GentlePoll ==
    ASSUME NEW s, NEW t, Settled(s), Gentle(s, t), NEW c \in Clients
    PROVE  PollOf(s, t, c)
<1>1. Settled(t)
  BY GentleSettles
<1>2. \A d \in Clients : Fresh(s, d) => Fresh(t, d)
  BY GentleFresh
<1> QED
  BY <1>1, <1>2 DEF PollOf, Gentle

LEMMA PollThenGentle ==
    ASSUME NEW s, NEW t, NEW u, NEW c \in Clients, Settled(s), PollOf(s, t, c), Gentle(t, u)
    PROVE  PollOf(s, u, c)
<1>1. Settled(t)
  BY DEF PollOf
<1>2. Settled(u)
  BY <1>1, GentleSettles
<1>3. \A d \in Clients \ {c} : Fresh(s, d) => Fresh(u, d)
  BY <1>1, GentleFresh DEF PollOf
<1>4. \A d \in Clients : /\ u.obj[d].late = s.obj[d].late
                         /\ u.obj[d].life = "deleted" => s.obj[d].life = "deleted"
                         /\ s.obj[d].term => u.obj[d].term
  BY DEF PollOf, Gentle
<1>5. ASSUME NEW d \in Clients, NEW n \in Channels
      PROVE  /\ s.table[n] = d => u.table[n] = d \/ u.obj[d].term
             /\ u.table[n] = d => s.table[n] = d \/ d = c
  BY DEF PollOf, Gentle
<1> QED
  BY <1>2, <1>3, <1>4, <1>5 DEF PollOf

(* A step that changes only channel c, which is not in the table.          *)
LEMMA OwnPoll ==
    ASSUME NEW s, NEW t, Settled(s), NEW c \in Clients, NEW x, IsChannel(x),
           Plain(t), t.table = s.table, t.obj = [s.obj EXCEPT ![c] = x],
           \A n \in Channels : s.table[n] # c,
           x.late = s.obj[c].late, x.life = "deleted" => s.obj[c].life = "deleted",
           s.obj[c].term => x.term
    PROVE  PollOf(s, t, c)
<1>1. Shape(s) /\ c \in Owners
  BY DEF Settled, Owners
<1>2. Shape(t)
  BY <1>1, ChannelSet DEF Shape
<1>3. \A d \in Clients : t.obj[d] = IF d = c THEN x ELSE s.obj[d]
  BY <1>1 DEF Shape, AreChannels, Owners
<1>4. Settled(t)
  BY <1>2, <1>3 DEF Settled, Seats
<1> QED
  BY <1>3, <1>4 DEF PollOf, Fresh

(* A fresh channel takes a number nobody has.                              *)
LEMMA SeatedPoll ==
    ASSUME NEW s, Settled(s), NEW c \in Clients, s.obj[c].chan = 0, s.obj[c].named,
           ~ s.obj[c].term, \A n \in Channels : s.table[n] # c, Occupy(s, c) # 0
    PROVE  PollOf(s, Seated(s, c), c)
<1> DEFINE n == Occupy(s, c)
           t == Seated(s, c)
           x == [s.obj[c] EXCEPT !.chan = n]
<1>1. Shape(s) /\ c \in Owners
  BY DEF Settled, Owners
<1>2. n \in Channels /\ s.table[n] = Free
  BY <1>1, FirstUnusedIs DEF Occupy
<1>3. Plain(t) /\ t.table = [s.table EXCEPT ![n] = c] /\ t.obj = [s.obj EXCEPT ![c] = x]
  BY <1>1 DEF Shape, Plain, NcpFields, Seated
<1> HIDE DEF n, t
<1>4. IsChannel(s.obj[c])
  BY <1>1 DEF Shape, AreChannels
<1>5. /\ IsChannel(x) /\ x.chan = n /\ x.named /\ ~ x.term
      /\ x.late = s.obj[c].late /\ x.life = s.obj[c].life
  BY <1>2, <1>4 DEF IsChannel, ChannelFields
<1> HIDE DEF x
<1>6. \A d \in Clients : t.obj[d] = IF d = c THEN x ELSE s.obj[d]
  BY <1>1, <1>3 DEF Shape, AreChannels, Owners
<1>7. \A m \in Channels : t.table[m] = IF m = n THEN c ELSE s.table[m]
  BY <1>1, <1>3 DEF Shape, IsTable
<1>8. Shape(t)
  <2>1. AreChannels(t.obj)
    BY <1>1, <1>3, <1>5, ChannelSet DEF Shape
  <2>2. IsTable(t.table)
    BY <1>1, <1>2, <1>3 DEF Shape, IsTable, Holders
  <2> QED BY <1>3, <2>1, <2>2 DEF Shape
<1>9. ASSUME NEW d \in Clients, NEW m \in Channels, t.table[m] = d
      PROVE  /\ t.obj[d].chan = m /\ m # 0
             /\ t.obj[d].named
             /\ t.obj[d].term => t.obj[d].late
  <2>1. CASE d = c
    <3>1. m = n
      BY <1>7, <1>9, <2>1
    <3> QED BY <1>5, <1>6, <2>1, <3>1 DEF n
  <2>2. CASE d # c
    <3>1. s.table[m] = d /\ t.obj[d] = s.obj[d]
      BY <1>6, <1>7, <1>9, <2>2
    <3> QED BY <3>1 DEF Settled, Seats
  <2> QED BY <2>1, <2>2
<1>10. Settled(t)
  BY <1>8, <1>9 DEF Settled, Seats
<1>11. ASSUME NEW d \in Clients
       PROVE  /\ d # c /\ Fresh(s, d) => Fresh(t, d)
              /\ t.obj[d].late = s.obj[d].late /\ t.obj[d].life = s.obj[d].life
              /\ s.obj[d].term => t.obj[d].term
  BY <1>5, <1>6 DEF Fresh
<1>12. ASSUME NEW d \in Clients, NEW m \in Channels
       PROVE  /\ s.table[m] = d => t.table[m] = d
              /\ t.table[m] = d => s.table[m] = d \/ d = c
  BY <1>2, <1>7, HoldersDiffer
<1>13. PollOf(s, t, c)
  BY <1>10, <1>11, <1>12 DEF PollOf
<1> QED
  BY <1>13 DEF t


LEMMA PollTwice ==
    ASSUME NEW s, NEW t, NEW u, NEW c \in Clients, PollOf(s, t, c), PollOf(t, u, c)
    PROVE  PollOf(s, u, c)
<1>1. Settled(u) /\ \A d \in Clients \ {c} : Fresh(s, d) => Fresh(u, d)
  BY DEF PollOf
<1>2. \A d \in Clients : /\ u.obj[d].late = s.obj[d].late
                         /\ u.obj[d].life = "deleted" => s.obj[d].life = "deleted"
                         /\ s.obj[d].term => u.obj[d].term
  BY DEF PollOf
<1>3. ASSUME NEW d \in Clients, NEW n \in Channels
      PROVE  /\ s.table[n] = d => u.table[n] = d \/ u.obj[d].term
             /\ u.table[n] = d => s.table[n] = d \/ d = c
  BY DEF PollOf
<1> QED
  BY <1>1, <1>2, <1>3 DEF PollOf

LEMMA AnnouncedPoll ==
    ASSUME NEW s, Settled(s), NEW c \in Clients, Fresh(s, c)
    PROVE  PollOf(s, Announced(s, c), c)
<1> DEFINE e == [s EXCEPT !.obj[c].named = TRUE, !.obj[c].tries = @ + 1]
           x == [s.obj[c] EXCEPT !.named = TRUE, !.tries = @ + 1]
           t == Seated(e, c)
           ms == <<[kind |-> "connect", chan |-> Occupy(e, c), name |-> ConnectName(e, c)]>>
<1>1. Announced(s, c) \in {Connect(e, c), Register(e, c)}
  BY DEF Announced
<1>2. Connect(e, c) = IF Occupy(e, c) = 0 THEN e ELSE Post(t, ms)
  BY DEF Connect
<1>3. Register(e, c) = IF ~ e.link \/ Occupy(e, c) = 0 THEN e ELSE LinkRegister(t, c)
  BY DEF Register
<1>4. Shape(s) /\ c \in Owners
  BY DEF Settled, Owners
<1>5. Plain(e) /\ e.table = s.table /\ e.obj = [s.obj EXCEPT ![c].named = TRUE, ![c].tries = @ + 1]
  BY <1>4 DEF Shape, Plain, NcpFields
<1>6. c \in DOMAIN s.obj /\ IsChannel(s.obj[c])
  BY <1>4 DEF Shape, AreChannels
<1>7. e.obj = [s.obj EXCEPT ![c] = x]
  BY <1>5, <1>6 DEF IsChannel, ChannelFields
<1> HIDE DEF e
<1>8. /\ DOMAIN x = ChannelFields /\ x.tries = s.obj[c].tries + 1 /\ x.named
      /\ x.chan = s.obj[c].chan /\ x.term = s.obj[c].term
      /\ x.late = s.obj[c].late /\ x.life = s.obj[c].life
  BY <1>6 DEF IsChannel, ChannelFields
<1> HIDE DEF x
<1>9. IsChannel(x)
  <2>1. x.named = TRUE
    BY <1>6 DEF x, IsChannel, ChannelFields
  <2> QED BY <1>6, <1>8, <2>1 DEF IsChannel
<1>10. \A n \in Channels : s.table[n] # c
  BY DEF Settled, Seats, Fresh
<1>11. PollOf(s, e, c)
  BY <1>5, <1>7, <1>8, <1>9, <1>10, OwnPoll
<1>12. Settled(e) /\ e.obj[c].chan = 0 /\ e.obj[c].named /\ ~ e.obj[c].term
  BY <1>6, <1>7, <1>8, <1>11 DEF PollOf, Fresh
<1>13. ASSUME Occupy(e, c) # 0 PROVE PollOf(s, t, c)
  BY <1>5, <1>10, <1>11, <1>12, <1>13, SeatedPoll, PollTwice
<1> HIDE DEF t, ms
<1>14. ASSUME Occupy(e, c) # 0
       PROVE  PollOf(s, Post(t, ms), c) /\ PollOf(s, LinkRegister(t, c), c)
  <2>1. PollOf(s, t, c) /\ Shape(t)
    BY <1>13, <1>14 DEF PollOf, Settled
  <2>2. Gentle(t, Post(t, ms)) /\ Gentle(t, LinkRegister(t, c))
    BY <2>1, PostGentle, LinkRegisterGentle
  <2> QED BY <2>1, <2>2, PollThenGentle
<1> QED
  BY <1>1, <1>2, <1>3, <1>11, <1>14

LEMMA HungUpPoll ==
    ASSUME NEW s, Settled(s), NEW c \in Clients, s.obj[c].life # "deleted"
    PROVE  PollOf(s, HungUp(s, c), c)
<1> DEFINE k == s.obj[c].chan
           e == Disconnect(s, k)
           t == [e EXCEPT !.obj[c].named = FALSE, !.obj[c].life = "closed"]
           x == [e.obj[c] EXCEPT !.named = FALSE, !.life = "closed"]
<1>1. HungUp(s, c) = t
  BY DEF HungUp
<1>2. Gentle(s, e) /\ Shape(s) /\ c \in Owners
  BY DisconnectGentle DEF Settled, Owners
<1>3. k \in Channels
  BY <1>2 DEF Shape, AreChannels, IsChannel
<1>4. e.table[k] # c
  <2>1. CASE s.table[k] # c
    BY <1>2, <1>3, <2>1 DEF Gentle
  <2>2. CASE s.table[k] = c
    <3>1. Valid(s, k) /\ ~ Dangling(s, k)
      BY <1>3, <2>2, HoldersDiffer DEF Valid, Dangling
    <3> DEFINE ms == <<[kind |-> "disconnect", chan |-> k, to |-> s.remote[k]]>>
               d == [s EXCEPT !.obj[s.table[k]].term = TRUE, !.table[k] = Free]
    <3>2. e = Post(d, ms)
      BY <3>1 DEF Disconnect
    <3>3. e.table = d.table
      BY <1>2, <3>2 DEF Post, Shape, Plain, NcpFields
    <3>4. d.table = [s.table EXCEPT ![k] = Free]
      BY <1>2 DEF Shape, Plain, NcpFields
    <3> HIDE DEF d, e, k
    <3>5. e.table[k] = Free
      BY <1>2, <1>3, <3>3, <3>4 DEF Shape, IsTable
    <3> QED BY <3>5, HoldersDiffer
  <2> QED BY <2>1, <2>2
<1> HIDE DEF e
<1>5. Settled(e) /\ PollOf(s, e, c)
  BY <1>2, GentleSettles, GentlePoll
<1>6. \A n \in Channels : e.table[n] # c
  <2> SUFFICES ASSUME NEW n \in Channels, e.table[n] = c PROVE FALSE
    OBVIOUS
  <2>1. s.table[n] = c
    BY <1>2 DEF Gentle
  <2>2. n = k
    BY <2>1 DEF Settled, Seats
  <2> QED BY <1>4, <2>2
<1> HIDE DEF k
<1>7. Plain(t) /\ t.table = e.table /\ t.obj = [e.obj EXCEPT ![c].named = FALSE, ![c].life = "closed"]
  BY <1>5 DEF Settled, Shape, Plain, NcpFields
<1>8. c \in DOMAIN e.obj /\ IsChannel(e.obj[c])
  BY <1>2, <1>5 DEF Settled, Shape, AreChannels
<1>9. t.obj = [e.obj EXCEPT ![c] = x]
  BY <1>7, <1>8 DEF IsChannel, ChannelFields
<1>10. IsChannel(x) /\ x.late = e.obj[c].late /\ x.life # "deleted" /\ x.term = e.obj[c].term
  BY <1>8 DEF IsChannel, ChannelFields
<1> HIDE DEF t, x
<1>11. PollOf(e, t, c)
  BY <1>5, <1>6, <1>7, <1>9, <1>10, OwnPoll
<1> QED
  BY <1>1, <1>5, <1>11, PollTwice

(* SocketChannel::socketPoll.                                              *)
LEMMA SocketPollOf ==
    ASSUME NEW s, Settled(s), NEW c \in Clients, s.obj[c].life # "deleted", NEW message,
           message = "name" => Fresh(s, c)
    PROVE  /\ PollOf(s, SocketPoll(s, c, message), c)
           /\ Fresh(s, c) /\ message \notin {"name", "eof"} => Fresh(SocketPoll(s, c, message), c)
<1> DEFINE u == SocketPoll(s, c, message)
           t == [s EXCEPT !.obj[c].term = TRUE]
           x == [s.obj[c] EXCEPT !.term = TRUE]
           k == s.obj[c].chan
<1>0. Shape(s) /\ c \in Owners
  BY DEF Settled, Owners
<1>1. CASE ~ s.obj[c].named /\ message = "eof"
  <2>1. u = t
    BY <1>1 DEF SocketPoll
  <2>2. Plain(t) /\ t.table = s.table /\ t.obj = [s.obj EXCEPT ![c] = x]
    BY <1>0 DEF Shape, Plain, NcpFields
  <2>3. IsChannel(s.obj[c])
    BY <1>0 DEF Shape, AreChannels
  <2>4. IsChannel(x) /\ x.late = s.obj[c].late /\ x.life = s.obj[c].life /\ x.term
    BY <2>3 DEF IsChannel, ChannelFields
  <2> HIDE DEF t, x
  <2>5. \A n \in Channels : s.table[n] # c
    BY <1>1 DEF Settled, Seats
  <2>6. PollOf(s, t, c)
    BY <2>2, <2>4, <2>5, OwnPoll
  <2> QED BY <1>1, <2>1, <2>6
<1>2. CASE ~ s.obj[c].named /\ message = "name"
  <2>1. u = Announced(s, c)
    BY <1>2 DEF SocketPoll
  <2> QED BY <1>2, <2>1, AnnouncedPoll
<1>3. CASE s.obj[c].named /\ message = "eof"
  <2>1. u = HungUp(s, c)
    BY <1>3 DEF SocketPoll
  <2> QED BY <1>3, <2>1, HungUpPoll
<1>4. CASE s.obj[c].named /\ message = "request"
  <2>1. u = SendData(s, k, Request(c))
    BY <1>4 DEF SocketPoll
  <2> HIDE DEF k, u
  <2>2. Gentle(s, u)
    BY <1>0, <2>1, SendDataAside, AsideIsGentle
  <2> QED BY <1>4, <2>2, GentlePoll DEF Fresh, u
<1>5. CASE /\ ~ (~ s.obj[c].named /\ message = "eof")
           /\ ~ (~ s.obj[c].named /\ message = "name")
           /\ ~ (s.obj[c].named /\ message = "eof")
           /\ ~ (s.obj[c].named /\ message = "request")
  <2>1. u = NcpCommand(s, c, message)
    BY <1>5 DEF SocketPoll
  <2>2. u = s \/ u = Answer(s, c, "told")
    BY <2>1 DEF NcpCommand
  <2> HIDE DEF u
  <2>3. Gentle(s, s) /\ Gentle(s, Answer(s, c, "told"))
    BY <1>0, AnswerAside, AsideIsGentle DEF Shape
  <2>4. Gentle(s, u)
    BY <2>2, <2>3
  <2>5. PollOf(s, u, c) /\ (Fresh(s, c) => Fresh(u, c))
    BY <2>4, GentlePoll, GentleFresh
  <2> QED BY <2>5 DEF u
<1> QED
  BY <1>1, <1>2, <1>3, <1>4, <1>5


-----------------------------------------------------------------------------
(* The link thread.                                                        *)
LEMMA HasFailedIs ==
    ASSUME NEW s, Settled(s), linkFailed \in BOOLEAN
    PROVE  LET t == HasFailed(s)
           IN  /\ Settled(t) /\ t.obj = s.obj
               /\ \A c \in Clients : \A n \in Channels :
                     /\ t.table[n] = c => s.table[n] = c
                     /\ s.table[n] = c =>
                           t.table[n] = c \/ (n = s.obj[Link].chan /\ s.link /\ ~ t.link)
<1> DEFINE bad == s.failed \/ linkFailed
           t == HasFailed(s)
           u == [s EXCEPT !.failed = bad]
           table == [n \in Channels |-> CASE n = s.obj[Link].chan -> Free
                                          [] n # s.obj[Link].chan /\ s.table[n] = Link -> Gone
                                          [] OTHER -> s.table[n]]
           w == [s EXCEPT !.failed = TRUE, !.link = FALSE, !.stack = {}, !.table = table]
<1>0. Shape(s) /\ bad \in BOOLEAN
  BY DEF Settled, Shape, Plain
<1>1. t = IF ~ bad \/ ~ s.link THEN u ELSE w
  BY DEF HasFailed
<1>2. Plain(u) /\ u.table = s.table /\ u.obj = s.obj
  <2> HIDE DEF bad
  <2> QED BY <1>0 DEF Shape, Plain, NcpFields
<1>3. ASSUME ~ (~ bad \/ ~ s.link)
      PROVE  /\ Settled(t) /\ t.obj = s.obj
             /\ \A c \in Clients : \A n \in Channels :
                   /\ t.table[n] = c => s.table[n] = c
                   /\ s.table[n] = c =>
                         t.table[n] = c \/ (n = s.obj[Link].chan /\ s.link /\ ~ t.link)
  <2>1. t = w /\ s.link
    BY <1>1, <1>3
  <2> HIDE DEF table, t
  <2>2. Plain(t) /\ t.table = table /\ t.obj = s.obj /\ ~ t.link
    BY <1>0, <2>1 DEF Shape, Plain, NcpFields
  <2> HIDE DEF w
  <2>3. \A n \in Channels : s.table[n] \in Holders
    BY <1>0 DEF Shape, IsTable
  <2>4. ASSUME NEW n \in Channels
        PROVE  /\ table[n] \in Holders
               /\ table[n] \in {Free, Gone, s.table[n]}
               /\ s.table[n] \in Clients /\ n # s.obj[Link].chan => table[n] = s.table[n]
    BY <2>3, HoldersDiffer DEF table, Holders
  <2>5. IsTable(table)
    <3>1. DOMAIN table = Channels /\ table = [n \in Channels |-> table[n]]
      BY DEF table
    <3> QED BY <2>4, <3>1 DEF IsTable
  <2>6. Shape(t)
    BY <1>0, <2>2, <2>5 DEF Shape
  <2>7. ASSUME NEW c \in Clients, NEW n \in Channels
        PROVE  /\ t.table[n] = c => s.table[n] = c
               /\ s.table[n] = c => t.table[n] = c \/ (n = s.obj[Link].chan /\ s.link /\ ~ t.link)
    BY <2>1, <2>2, <2>4, HoldersDiffer
  <2>8. Settled(t)
    BY <2>2, <2>6, <2>7 DEF Settled, Seats
  <2> QED BY <2>2, <2>7, <2>8
<1>4. CASE ~ bad \/ ~ s.link
  <2>1. t = u
    BY <1>1, <1>4
  <2> HIDE DEF t, u, bad
  <2>2. Settled(t)
    BY <1>0, <1>2, <2>1 DEF Settled, Shape, Seats
  <2> QED BY <1>2, <2>1, <2>2 DEF t
<1> QED BY <1>3, <1>4

LEMMA ResetNcpIs ==
    ASSUME NEW s, Settled(s)
    PROVE  LET t == ResetNcp(s)
           IN  /\ Settled(t)
               /\ \A c \in Clients :
                     /\ t.obj[c].late = s.obj[c].late /\ t.obj[c].life = s.obj[c].life
                     /\ Fresh(s, c) => Fresh(t, c)
               /\ \A c \in Clients : \A n \in Channels :
                     /\ t.table[n] = c => s.table[n] = c
                     /\ s.table[n] = c => t.table[n] = c \/ t.obj[c].term
<1> DEFINE t == ResetNcp(s)
           here(o) == \E n \in Channels : s.table[n] = o
           obj == AllEnded(s)
           table == [n \in Channels |-> Free]
           w == [s EXCEPT !.obj = obj, !.table = table, !.failed = FALSE, !.link = FALSE,
                          !.stack = {}, !.version = 6, !.toPsion = <<>>]
<1>0. Shape(s) /\ DOMAIN s.obj = Owners
  BY DEF Settled, Shape, AreChannels
<1>1. t = Undefined(s) \/ t = w
  <2>1. t = IF \E n \in 0 .. s.maxLinks - 1 : Dangling(s, n) THEN Undefined(s) ELSE w
    BY DEF ResetNcp
  <2> HIDE DEF t, w
  <2> QED BY <2>1
<1> HIDE DEF t
<1>2. CASE t = Undefined(s)
  <2>1. Gentle(s, t)
    BY <1>0, <1>2, UndefinedAside, AsideIsGentle
  <2>2. Settled(t) /\ \A c \in Clients : Fresh(s, c) => Fresh(t, c)
    BY <2>1, GentleSettles, GentleFresh
  <2> QED BY <2>1, <2>2 DEF Gentle, t
<1>3. CASE t = w
  <2> HIDE DEF here, obj, table
  <2>1. Plain(t) /\ t.obj = obj /\ t.table = table
    BY <1>0, <1>3 DEF Shape, Plain, NcpFields
  <2> HIDE DEF w
  <2>2. \A n \in Channels : t.table[n] = Free
    BY <2>1 DEF table
  <2>3. \A o \in Owners : t.obj[o] = [s.obj[o] EXCEPT !.term = s.obj[o].term \/ here(o)]
    BY <1>0, <2>1, Zenon DEF obj, here, AllEnded
  <2>4. \A o \in Owners : here(o) \in BOOLEAN /\ IsChannel(s.obj[o])
    BY <1>0 DEF here, Shape, AreChannels
  <2>5. ASSUME NEW o \in Owners
        PROVE  /\ IsChannel(t.obj[o])
               /\ t.obj[o].late = s.obj[o].late /\ t.obj[o].life = s.obj[o].life
               /\ t.obj[o].named = s.obj[o].named /\ t.obj[o].chan = s.obj[o].chan
               /\ t.obj[o].term = (s.obj[o].term \/ here(o))
    <3> DEFINE v == s.obj[o].term \/ here(o)
    <3>1. v \in BOOLEAN
      OBVIOUS
    <3>2. t.obj[o] = [s.obj[o] EXCEPT !.term = v] /\ IsChannel(s.obj[o])
      BY <2>3, <2>4
    <3> HIDE DEF v
    <3>3. /\ IsChannel(t.obj[o])
          /\ t.obj[o].late = s.obj[o].late /\ t.obj[o].life = s.obj[o].life
          /\ t.obj[o].named = s.obj[o].named /\ t.obj[o].chan = s.obj[o].chan
          /\ t.obj[o].term = v
      BY <3>1, <3>2 DEF IsChannel, ChannelFields
    <3> QED BY <3>3 DEF v
  <2>6. Shape(t)
    <3>1. AreChannels(t.obj)
      BY <1>0, <2>1, <2>5 DEF AreChannels, obj, AllEnded
    <3>2. IsTable(t.table)
      BY <2>1 DEF IsTable, table, Holders
    <3> QED BY <2>1, <3>1, <3>2 DEF Shape
  <2>7. Settled(t)
    BY <2>2, <2>6, HoldersDiffer DEF Settled, Seats
  <2>8. ASSUME NEW c \in Clients
        PROVE  /\ t.obj[c].late = s.obj[c].late /\ t.obj[c].life = s.obj[c].life
               /\ Fresh(s, c) => Fresh(t, c)
               /\ t.obj[c].term = (s.obj[c].term \/ here(c))
    <3>1. c \in Owners
      BY DEF Owners
    <3>2. here(c) => s.obj[c].named
      BY DEF here, Settled, Seats
    <3> QED BY <2>5, <3>1, <3>2 DEF Fresh
  <2>9. ASSUME NEW c \in Clients, NEW n \in Channels
        PROVE  /\ t.table[n] = c => s.table[n] = c
               /\ s.table[n] = c => t.table[n] = c \/ t.obj[c].term
    <3>1. s.table[n] = c => here(c)
      BY DEF here
    <3>2. t.table[n] # c
      BY <2>2, HoldersDiffer
    <3> HIDE DEF here
    <3> QED BY <2>8, <3>1, <3>2
  <2> QED BY <2>7, <2>8, <2>9 DEF t
<1> QED BY <1>1, <1>2, <1>3

-----------------------------------------------------------------------------
(* remove_if leaves the channels of the list that nothing has ended.       *)
LEMMA UnendedIs ==
    ASSUME NEW s, NEW cs \in Seq(Clients)
    PROVE  Unended(s, cs) \in Seq({c \in Clients : ~ s.obj[c].term /\ \E i \in DOMAIN cs : cs[i] = c})
<1> DEFINE K == {c \in Clients : ~ s.obj[c].term /\ \E i \in DOMAIN cs : cs[i] = c}
           kept == CHOOSE g : g = [i \in 0 .. Len(cs) |->
                      IF i = 0 THEN <<>>
                      ELSE IF s.obj[cs[i]].term THEN g[i - 1] ELSE Append(g[i - 1], cs[i])]
<1>1. PICK n \in Nat : n = Len(cs)
  OBVIOUS
<1>2. \A i \in 1 .. n : ~ s.obj[cs[i]].term => cs[i] \in K
  BY <1>1
<1> HIDE DEF K
<1>3. \E g : g = [i \in 0 .. Len(cs) |->
                    IF i = 0 THEN <<>>
                    ELSE IF s.obj[cs[i]].term THEN g[i - 1] ELSE Append(g[i - 1], cs[i])]
  <2> DEFINE step == [i \in 1 .. n |-> [x \in Seq(K) |->
                        IF s.obj[cs[i]].term THEN x ELSE Append(x, cs[i])]]
  <2>1. step \in [1 .. n -> [Seq(K) -> Seq(K)]]
    BY <1>2
  <2>2. \A i \in 1 .. n : \A x \in Seq(K) :
           step[i][x] = IF s.obj[cs[i]].term THEN x ELSE Append(x, cs[i])
    OBVIOUS
  <2>3. <<>> \in Seq(K)
    OBVIOUS
  <2> HIDE DEF step
  <2>4. PICK f \in [0 .. n -> Seq(K)] : Follows(f, <<>>, step, n)
    BY <2>1, <2>3, Recursion
  <2>5. ASSUME NEW i \in 0 .. n
        PROVE  f[i] = IF i = 0 THEN <<>>
                      ELSE IF s.obj[cs[i]].term THEN f[i - 1] ELSE Append(f[i - 1], cs[i])
    <3>1. CASE i = 0
      BY <2>4, <3>1 DEF Follows
    <3>2. CASE i # 0
      <4>1. i \in 1 .. n /\ f[i - 1] \in Seq(K)
        BY <3>2
      <4> QED BY <2>2, <2>4, <3>2, <4>1 DEF Follows
    <3> QED BY <3>1, <3>2
  <2>6. f = [i \in 0 .. n |->
                IF i = 0 THEN <<>>
                ELSE IF s.obj[cs[i]].term THEN f[i - 1] ELSE Append(f[i - 1], cs[i])]
    BY <2>5
  <2> QED BY <1>1, <2>6
<1>4. kept = [i \in 0 .. Len(cs) |->
                 IF i = 0 THEN <<>>
                 ELSE IF s.obj[cs[i]].term THEN kept[i - 1] ELSE Append(kept[i - 1], cs[i])]
  BY <1>3, Zenon
<1>5. Unended(s, cs) = kept[Len(cs)]
  BY Zenon DEF Unended
<1> HIDE DEF kept
<1> DEFINE T == {i \in Nat : i <= n => kept[i] \in Seq(K)}
<1>6. 0 \in T
  BY <1>1, <1>4
<1>7. ASSUME NEW i \in T PROVE i + 1 \in T
  <2>1. i + 1 \in Nat /\ i + 1 # 0 /\ i + 1 - 1 = i
    OBVIOUS
  <2> SUFFICES ASSUME i + 1 <= n PROVE kept[i + 1] \in Seq(K)
    BY <2>1
  <2>2. kept[i] \in Seq(K) /\ i + 1 \in 1 .. n /\ i + 1 \in 0 .. n
    OBVIOUS
  <2>3. kept[i + 1] = IF s.obj[cs[i + 1]].term THEN kept[i] ELSE Append(kept[i], cs[i + 1])
    <3> DEFINE j == i + 1
    <3>1. j \in 0 .. Len(cs) /\ j # 0 /\ j - 1 = i
      BY <1>1, <2>1, <2>2
    <3> HIDE DEF j
    <3>2. kept[j] = IF j = 0 THEN <<>>
                    ELSE IF s.obj[cs[j]].term THEN kept[j - 1] ELSE Append(kept[j - 1], cs[j])
      BY <1>4, <3>1, Zenon
    <3>3. kept[j] = IF s.obj[cs[j]].term THEN kept[i] ELSE Append(kept[i], cs[j])
      BY <3>1, <3>2
    <3> QED BY <3>3 DEF j
  <2> QED BY <1>2, <2>2, <2>3
<1>8. n \in T
  <2> HIDE DEF T
  <2>1. T \subseteq Nat
    BY DEF T
  <2> QED BY <1>6, <1>7, <2>1, Induction
<1> QED
  BY <1>1, <1>5, <1>8 DEF K


-----------------------------------------------------------------------------
(* The inductive invariant: the seats, the threads, what the clients say,  *)
(* and who is still to be polled.                                          *)
Words == Commands \cup {"name", "request", "eof"}

Threads ==
    /\ order \in Seq(Clients) /\ pass \in Seq(Clients) /\ accepted \in Clients \cup {""}
    /\ pollPc \in {"watch", "poll", "done"} /\ linkPc \in {"watch", "wait", "done"}
    /\ mainPc \in {"accept", "ended"}
    /\ cancelled \in BOOLEAN /\ linkFailed \in BOOLEAN

(* A client announces itself once, after its commands and before it leaves. *)
Orderly(words, where) ==
    /\ \A i, j \in DOMAIN words : words[i] = "name" =>
          /\ words[j] = "name" => i = j
          /\ words[j] = "eof" => i < j
    /\ where \in {"new", "asked"} => \A i \in DOMAIN words : words[i] \in Commands
Talks ==
    /\ inbox \in [Clients -> Seq(Words)] /\ DOMAIN stage = Clients
    /\ \A c \in Clients : Orderly(inbox[c], stage[c])

Unannounced(words, where) ==
    where \in {"new", "asked"} \/ \E i \in DOMAIN words : words[i] = "name"
FreshOnes == \A c \in Clients : Unannounced(inbox[c], stage[c]) => Fresh(ncp, c)

(* What is polled is listed, and what is listed is not deleted.            *)
IsListed(c) == \E i \in DOMAIN order : order[i] = c
Lists ==
    /\ \A c \in Clients : ncp.obj[c].life = "deleted" => ~ IsListed(c)
    /\ \A i \in DOMAIN pass : IsListed(pass[i])

Inv == Settled(ncp) /\ Threads /\ Talks /\ FreshOnes /\ Lists /\ DeletedOnlyByTimeout

(* The step that EndedIsTold allows.                                       *)
Told ==
    \A c \in Clients : \A n \in Channels :
        ncp.table[n] = c =>
            \/ ncp'.table[n] = c \/ ncp'.obj[c].term \/ mainPc' = "ended"
            \/ n = ncp.obj[Link].chan /\ ncp.link /\ ~ ncp'.link

(* What a step of any thread but the polling one does to the multiplexer.  *)
Harmless(s, t) ==
    /\ Settled(t)
    /\ \A c \in Clients : /\ Fresh(s, c) => Fresh(t, c)
                          /\ t.obj[c].late = s.obj[c].late
                          /\ t.obj[c].life = "deleted" => s.obj[c].life = "deleted"
    /\ \A c \in Clients : \A n \in Channels : t.table[n] = c => s.table[n] = c

LEMMA HarmlessStep ==
    ASSUME Inv, Harmless(ncp, ncp'), Threads', UNCHANGED <<order, pass, clientVars>>
    PROVE  Inv'
<1>1. Settled(ncp')
  BY DEF Harmless
<1>2. Talks'
  BY DEF Inv, Talks, clientVars
<1>3. FreshOnes'
  BY DEF Inv, FreshOnes, Harmless, clientVars
<1>4. Lists'
  BY DEF Inv, Lists, IsListed, Harmless
<1>5. DeletedOnlyByTimeout'
  BY DEF Inv, DeletedOnlyByTimeout, Harmless
<1> QED
  BY <1>1, <1>2, <1>3, <1>4, <1>5 DEF Inv

LEMMA GentleHarmless ==
    ASSUME NEW s, NEW t, Settled(s), Gentle(s, t)
    PROVE  Harmless(s, t)
BY GentleSettles, GentleFresh DEF Harmless, Gentle

LEMMA GentleStep ==
    ASSUME Inv, Gentle(ncp, ncp'), Threads', UNCHANGED <<order, pass, clientVars>>
    PROVE  Inv' /\ Told
<1>1. Inv'
  BY GentleHarmless, HarmlessStep DEF Inv
<1>2. Told
  BY DEF Told, Gentle
<1> QED
  BY <1>1, <1>2

LEMMA ThreadsKept ==
    ASSUME Threads, UNCHANGED sessionVars, UNCHANGED linkFailed
    PROVE  Threads'
BY DEF Threads, sessionVars

LEMMA SameGentle ==
    ASSUME NEW s, NEW t, Settled(s), t = s
    PROVE  Gentle(s, t)
BY AsideIsGentle DEF Settled, Shape

LEMMA InitInv ==
    ASSUME Init
    PROVE  Inv
<1>1. /\ DOMAIN ncp = NcpFields
      /\ ncp.table = [n \in Channels |-> Free]
      /\ \E g \in Garbage : ncp.remote = [n \in Channels |-> g]
      /\ ncp.partial = [n \in Channels |-> <<>>]
      /\ ncp.obj = [o \in Clients \cup {Link} |-> NewChannel]
  BY DEF Init, NcpFields
<1>2. ncp.link = FALSE /\ ncp.failed = FALSE /\ ncp.undefined = FALSE
      /\ ncp.version = 6 /\ ncp.maxLinks = SiboLinks
  BY DEF Init
<1>3. Plain(ncp)
  BY <1>1, <1>2 DEF Plain
<1>4. 0 \in Channels
  BY LinksAssumption DEF Channels
<1>5. AreChannels(ncp.obj)
  <2>1. IsChannel(NewChannel)
    BY <1>4 DEF IsChannel, NewChannel, ChannelFields
  <2>2. ncp.obj = [o \in Owners |-> NewChannel]
    BY <1>1 DEF Owners
  <2> QED BY <2>1, <2>2 DEF AreChannels
<1>6. IsTable(ncp.table)
  BY <1>1 DEF IsTable, Holders
<1>7. \A c \in Clients : ncp.obj[c] = NewChannel
  BY <1>1
<1>8. \A n \in Channels : \A c \in Clients : ncp.table[n] # c
  BY <1>1, HoldersDiffer
<1>9. Settled(ncp)
  BY <1>3, <1>5, <1>6, <1>8 DEF Settled, Shape, Seats
<1>10. /\ order = <<>> /\ pass = <<>> /\ accepted = ""
       /\ pollPc = "watch" /\ linkPc = "watch" /\ mainPc = "accept"
       /\ cancelled = FALSE /\ linkFailed = FALSE
       /\ inbox = [c \in Clients |-> <<>>] /\ stage = [c \in Clients |-> "new"]
  BY DEF Init
<1>11. Threads
  <2>1. order \in Seq(Clients) /\ pass \in Seq(Clients)
    <3>1. <<>> \in Seq(Clients)
      OBVIOUS
    <3> QED BY <1>10, <3>1, Zenon
  <2>2. cancelled \in BOOLEAN /\ linkFailed \in BOOLEAN
    BY <1>10
  <2>3. /\ pollPc \in {"watch", "poll", "done"} /\ linkPc \in {"watch", "wait", "done"}
        /\ mainPc \in {"accept", "ended"} /\ accepted \in Clients \cup {""}
    BY <1>10
  <2> QED BY <2>1, <2>2, <2>3 DEF Threads
<1>12. Talks
  <2>1. \A c \in Clients : inbox[c] = <<>>
    BY <1>10
  <2>2. Orderly(<<>>, "new")
    BY DEF Orderly
  <2>3. inbox \in [Clients -> Seq(Words)] /\ \A c \in Clients : stage[c] = "new"
    <3>1. <<>> \in Seq(Words)
      OBVIOUS
    <3>2. [c \in Clients |-> <<>>] \in [Clients -> Seq(Words)]
      BY <3>1
    <3> QED BY <1>10, <3>2
  <2>4. \A c \in Clients : Orderly(inbox[c], stage[c])
    BY <2>1, <2>2, <2>3
  <2> QED BY <1>10, <2>3, <2>4 DEF Talks
<1>13. FreshOnes /\ Lists
  <2>1. \A c \in Clients : ncp.obj[c].chan = 0 /\ ~ ncp.obj[c].named /\ ~ ncp.obj[c].term
                          /\ ncp.obj[c].life = "none"
    <3>1. NewChannel.chan = 0 /\ ~ NewChannel.named /\ ~ NewChannel.term
          /\ NewChannel.life = "none"
      BY DEF NewChannel
    <3> QED BY <1>7, <3>1
  <2>2. FreshOnes
    BY <2>1 DEF FreshOnes, Fresh
  <2>3. Lists
    <3>1. \A i : i \notin DOMAIN <<>>
      OBVIOUS
    <3>2. \A i \in DOMAIN pass : IsListed(pass[i])
      BY <1>10, <3>1, Zenon
    <3> QED BY <2>1, <3>2 DEF Lists
  <2> QED BY <2>2, <2>3
<1>14. DeletedOnlyByTimeout
  BY <1>8 DEF DeletedOnlyByTimeout
<1> QED
  BY <1>9, <1>11, <1>12, <1>13, <1>14 DEF Inv


-----------------------------------------------------------------------------
(* The steps of the pump and of the link and main threads.                 *)
LEMMA PumpReceiveStep ==
    ASSUME Inv, PumpReceive
    PROVE  Inv' /\ Told
<1>1. PICK kept : ncp' = Receive(ncp, Head(fromPsion), kept)
  BY DEF PumpReceive
<1>2. UNCHANGED <<sessionVars, linkFailed, clientVars>>
  BY DEF PumpReceive
<1>3. Gentle(ncp, ncp')
  BY <1>1, ReceiveGentle DEF Inv
<1>4. Threads'
  BY <1>2, ThreadsKept DEF Inv
<1> QED
  BY <1>2, <1>3, <1>4, GentleStep DEF sessionVars

LEMMA AcceptWatchStep ==
    ASSUME Inv, AcceptWatch
    PROVE  Inv' /\ Told
<1>1. ncp' = ncp \/ ncp' = Undefined(ncp)
  BY DEF AcceptWatch
<1>2. UNCHANGED <<order, pass, pollPc, linkPc, mainPc, cancelled, linkFailed, clientVars>>
      /\ accepted' = ""
  BY DEF AcceptWatch
<1>3. Gentle(ncp, ncp')
  BY <1>1, UndefinedAside, AsideIsGentle, SameGentle DEF Inv, Settled
<1>4. Threads'
  BY <1>2 DEF Inv, Threads
<1> QED
  BY <1>2, <1>3, <1>4, GentleStep

LEMMA CancelStep ==
    ASSUME Inv, Cancel
    PROVE  Inv' /\ Told
<1>1. UNCHANGED <<ncp, order, pass, pollPc, linkPc, mainPc, accepted, linkFailed, clientVars>>
      /\ cancelled' = TRUE
  BY DEF Cancel, clientVars
<1>2. Gentle(ncp, ncp')
  BY <1>1, SameGentle DEF Inv
<1>3. Threads'
  BY <1>1 DEF Inv, Threads
<1> QED
  BY <1>1, <1>2, <1>3, GentleStep

LEMMA LinkCheckStep ==
    ASSUME Inv, LinkCheck
    PROVE  Inv' /\ Told
<1>1. /\ ncp' = ncp \/ ncp' = HasFailed(ncp)
      /\ linkPc' \in {"watch", "wait", "done"}
      /\ cancelled' = TRUE \/ cancelled' = cancelled
  BY DEF LinkCheck
<1>2. UNCHANGED <<order, pass, pollPc, mainPc, accepted, linkFailed, clientVars>>
  BY DEF LinkCheck
<1>3. Threads'
  BY <1>1, <1>2 DEF Inv, Threads
<1>4. CASE ncp' = ncp
  BY <1>2, <1>3, <1>4, SameGentle, GentleStep DEF Inv
<1>5. CASE ncp' = HasFailed(ncp)
  <2>1. /\ Settled(ncp') /\ ncp'.obj = ncp.obj
        /\ \A c \in Clients : \A n \in Channels :
              /\ ncp'.table[n] = c => ncp.table[n] = c
              /\ ncp.table[n] = c =>
                    ncp'.table[n] = c \/ (n = ncp.obj[Link].chan /\ ncp.link /\ ~ ncp'.link)
    <3>1. Settled(ncp) /\ linkFailed \in BOOLEAN
      BY DEF Inv, Threads
    <3> HIDE DEF Inv
    <3> QED BY <1>5, <3>1, HasFailedIs
  <2>2. Harmless(ncp, ncp')
    BY <2>1 DEF Harmless, Fresh
  <2>3. Told
    BY <2>1 DEF Told
  <2> QED BY <1>2, <1>3, <2>2, <2>3, HarmlessStep
<1> QED BY <1>1, <1>4, <1>5

LEMMA LinkRestartStep ==
    ASSUME Inv, LinkRestart
    PROVE  Inv' /\ Told
<1>1. /\ ncp' = ncp \/ ncp' = ResetNcp(ncp)
      /\ linkPc' \in {"watch", "wait", "done"}
      /\ linkFailed' = FALSE \/ linkFailed' = linkFailed
  BY DEF LinkRestart
<1>2. UNCHANGED <<order, pass, pollPc, mainPc, accepted, cancelled, clientVars>>
  BY DEF LinkRestart
<1>3. Threads'
  BY <1>1, <1>2 DEF Inv, Threads
<1>4. CASE ncp' = ncp
  BY <1>2, <1>3, <1>4, SameGentle, GentleStep DEF Inv
<1>5. CASE ncp' = ResetNcp(ncp)
  <2>1. /\ Settled(ncp')
        /\ \A c \in Clients :
              /\ ncp'.obj[c].late = ncp.obj[c].late /\ ncp'.obj[c].life = ncp.obj[c].life
              /\ Fresh(ncp, c) => Fresh(ncp', c)
        /\ \A c \in Clients : \A n \in Channels :
              /\ ncp'.table[n] = c => ncp.table[n] = c
              /\ ncp.table[n] = c => ncp'.table[n] = c \/ ncp'.obj[c].term
    BY <1>5, ResetNcpIs DEF Inv
  <2>2. Harmless(ncp, ncp')
    BY <2>1 DEF Harmless
  <2>3. Told
    BY <2>1 DEF Told
  <2> QED BY <1>2, <1>3, <2>2, <2>3, HarmlessStep
<1> QED BY <1>1, <1>4, <1>5

LEMMA MainEndsStep ==
    ASSUME Inv, MainEnds
    PROVE  Inv' /\ Told
<1> DEFINE e == [ncp EXCEPT !.table = [n \in Channels |-> Free]]
           bye == [i \in 1 .. ncp.maxLinks |->
                     [kind |-> "disconnect", chan |-> i - 1, to |-> ncp.remote[i - 1]]]
           ms == SelectSeq(bye, LAMBDA m : Valid(ncp, m.chan)) \o <<[kind |-> "end"]>>
<1>1. ncp' = Post(e, ms) /\ mainPc' = "ended"
  BY DEF MainEnds
<1>2. UNCHANGED <<order, pass, pollPc, linkPc, accepted, cancelled, linkFailed, clientVars>>
  BY DEF MainEnds
<1>3. Threads'
  BY <1>1, <1>2 DEF Inv, Threads
<1> HIDE DEF ms
<1>4. Plain(e) /\ e.obj = ncp.obj /\ e.table = [n \in Channels |-> Free]
  BY DEF Inv, Settled, Shape, Plain, NcpFields
<1> HIDE DEF e
<1>5. Shape(e)
  BY <1>4 DEF Inv, Settled, Shape, IsTable, Holders
<1>6. Plain(ncp') /\ ncp'.table = e.table /\ ncp'.obj = ncp.obj
  BY <1>1, <1>4, <1>5, PostAside
<1>7. \A n \in Channels : \A c \in Clients : ncp'.table[n] # c
  BY <1>4, <1>6, HoldersDiffer
<1>8. Settled(ncp')
  BY <1>5, <1>6, <1>7 DEF Inv, Settled, Shape, Seats
<1>9. Harmless(ncp, ncp')
  BY <1>6, <1>7, <1>8 DEF Harmless, Fresh
<1>10. Told
  BY <1>1 DEF Told
<1> QED
  BY <1>2, <1>3, <1>9, <1>10, HarmlessStep

(* A client is listed, or told that there is no room.                      *)
LEMMA AcceptStep ==
    ASSUME Inv, NEW c \in Clients, Accept(c)
    PROVE  Inv' /\ Told
<1> DEFINE life == IF Len(order) < ncp.maxLinks /\ ncp.link THEN "listed" ELSE "closed"
           e == IF Len(order) < ncp.maxLinks /\ ncp.link THEN ncp ELSE Answer(ncp, c, "none")
           x == [ncp.obj[c] EXCEPT !.life = life]
           t == [e EXCEPT !.obj[c].life = life]
<1>0. c \in Owners /\ Shape(ncp) /\ stage[c] = "new"
  BY DEF Inv, Settled, Owners, Accept
<1>1. ncp' = t
  BY DEF Accept
<1>2. life # "deleted"
  OBVIOUS
<1>3. Plain(e) /\ e.table = ncp.table /\ e.obj = ncp.obj
  BY <1>0, AnswerAside DEF Shape
<1> HIDE DEF e, life
<1>4. Plain(t) /\ t.table = ncp.table /\ t.obj = [ncp.obj EXCEPT ![c] = x]
  BY <1>3 DEF Plain, NcpFields
<1>5. IsChannel(ncp.obj[c]) /\ DOMAIN ncp.obj = Owners
  BY <1>0 DEF Shape, AreChannels
<1>6. /\ IsChannel(x) /\ x.life = life /\ x.chan = ncp.obj[c].chan /\ x.named = ncp.obj[c].named
      /\ x.term = ncp.obj[c].term /\ x.late = ncp.obj[c].late
  BY <1>5 DEF IsChannel, ChannelFields
<1> HIDE DEF t, x
<1>7. \A d \in Clients : ncp'.obj[d] = IF d = c THEN x ELSE ncp.obj[d]
  BY <1>1, <1>4, <1>5 DEF Owners
<1>8. Shape(ncp')
  BY <1>0, <1>1, <1>4, <1>6, ChannelSet DEF Shape
<1>9. Settled(ncp') /\ ncp'.table = ncp.table
  BY <1>1, <1>4, <1>6, <1>7, <1>8 DEF Inv, Settled, Seats
<1>10. \A d \in Clients : Fresh(ncp, d) => Fresh(ncp', d)
  BY <1>6, <1>7 DEF Fresh
<1>11. UNCHANGED <<pass, pollPc, linkPc, mainPc, cancelled, linkFailed>>
       /\ stage' = [stage EXCEPT ![c] = "asked"]
  BY DEF Accept
<1>12. \/ order' = order /\ accepted' = accepted /\ inbox' = inbox
       \/ order' = Append(order, c) /\ accepted' = c
          /\ \E command \in Commands : inbox' = [inbox EXCEPT ![c] = <<command>>]
  BY DEF Accept
<1>13. Threads'
  <2>1. order' \in Seq(Clients) /\ accepted' \in Clients \cup {""}
    <3>1. order \in Seq(Clients)
      BY DEF Inv, Threads
    <3>2. Append(order, c) \in Seq(Clients)
      BY <3>1
    <3>3. accepted \in Clients \cup {""}
      BY DEF Inv, Threads
    <3> QED BY <1>12, <3>1, <3>2, <3>3
  <2> QED BY <1>11, <2>1 DEF Inv, Threads
<1>14. \A d \in Clients : stage'[d] = IF d = c THEN "asked" ELSE stage[d]
  BY <1>11 DEF Inv, Talks
<1>15. \A d \in Clients : /\ inbox'[d] \in Seq(Words)
                          /\ Orderly(inbox'[d], stage'[d])
                          /\ d # c => inbox'[d] = inbox[d]
  <2>1. ASSUME NEW d \in Clients, inbox'[d] = inbox[d]
        PROVE  Orderly(inbox'[d], stage'[d]) /\ inbox'[d] \in Seq(Words)
    BY <1>0, <1>14, <2>1 DEF Inv, Talks, Orderly
  <2>2. ASSUME NEW command \in Commands, inbox' = [inbox EXCEPT ![c] = <<command>>]
        PROVE  /\ inbox'[c] \in Seq(Words) /\ Orderly(inbox'[c], "asked")
               /\ \A d \in Clients : d # c => inbox'[d] = inbox[d]
    <3>1. inbox'[c] = <<command>> /\ \A d \in Clients : d # c => inbox'[d] = inbox[d]
      BY <2>2 DEF Inv, Talks
    <3>2. <<command>> \in Seq(Words) /\ DOMAIN <<command>> = {1} /\ <<command>>[1] = command
      BY DEF Words
    <3>3. command \notin {"name", "eof"}
      BY CommandsAssumption
    <3>4. Orderly(<<command>>, "asked")
      BY <3>2, <3>3 DEF Orderly
    <3> QED BY <3>1, <3>2, <3>4
  <2>3. CASE inbox' = inbox
    BY <2>1, <2>3
  <2>4. CASE \E command \in Commands : inbox' = [inbox EXCEPT ![c] = <<command>>]
    BY <1>14, <2>1, <2>2, <2>4
  <2> QED BY <1>12, <2>3, <2>4
<1>16. Talks'
  <2>1. DOMAIN stage' = Clients /\ inbox' \in [Clients -> Seq(Words)]
    <3>1. DOMAIN stage' = Clients
      BY <1>11 DEF Inv, Talks
    <3>2. inbox \in [Clients -> Seq(Words)]
      BY DEF Inv, Talks
    <3>3. inbox' = inbox \/ \E v : inbox' = [inbox EXCEPT ![c] = v]
      BY <1>12
    <3> QED BY <1>15, <3>1, <3>2, <3>3
  <2> QED BY <1>15, <2>1 DEF Talks
<1>17. FreshOnes'
  <2>1. \A d \in Clients : Unannounced(inbox'[d], stage'[d]) => Unannounced(inbox[d], stage[d])
    BY <1>0, <1>14, <1>15 DEF Unannounced
  <2> QED BY <1>10, <2>1 DEF Inv, FreshOnes
<1>18. Lists'
  <2> DEFINE listed(o, d) == \E i \in DOMAIN o : o[i] = d
  <2>1. order \in Seq(Clients) /\ pass \in Seq(Clients)
    BY DEF Inv, Threads
  <2>2. order' = order \/ order' = Append(order, c)
    BY <1>12
  <2>3. \A d : listed(order, d) => listed(order', d)
    BY <2>1, <2>2
  <2>4. \A d : d # c /\ listed(order', d) => listed(order, d)
    BY <2>1, <2>2
  <2> HIDE DEF listed
  <2>5. /\ \A d \in Clients : ncp.obj[d].life = "deleted" => ~ listed(order, d)
        /\ \A i \in DOMAIN pass : listed(order, pass[i])
    BY DEF Inv, Lists, IsListed, listed
  <2>6. \A d \in Clients : ncp'.obj[d].life = "deleted" => ~ listed(order', d)
    BY <1>2, <1>6, <1>7, <2>4, <2>5
  <2>7. \A i \in DOMAIN pass' : listed(order', pass'[i])
    BY <1>11, <2>3, <2>5
  <2> QED BY <2>6, <2>7 DEF Lists, IsListed, listed
<1>19. DeletedOnlyByTimeout'
  BY <1>2, <1>6, <1>7, <1>9 DEF Inv, DeletedOnlyByTimeout
<1>20. Told
  BY <1>9 DEF Told
<1> QED
  BY <1>9, <1>13, <1>16, <1>17, <1>18, <1>19, <1>20 DEF Inv


-----------------------------------------------------------------------------
(* The steps of the polling thread.                                        *)
LEMMA PolledIs ==
    ASSUME Inv, NEW c \in Clients, Polled(c)
    PROVE  /\ pass' \in Seq(Clients)
           /\ \A i \in DOMAIN pass' : IsListed(pass'[i])
           /\ ncp.obj[c].life # "deleted" /\ pollPc' = "poll"
<1>1. order \in Seq(Clients) /\ pass \in Seq(Clients)
  BY DEF Inv, Threads
<1>2. Turn \in Seq(Clients)
  BY <1>1 DEF Turn
<1>3. \A i \in DOMAIN Turn : IsListed(Turn[i])
  BY DEF Inv, Lists, IsListed, Turn
<1>4. PICK i \in DOMAIN Turn : Turn[i] = c /\ pass' = SubSeq(Turn, i + 1, Len(Turn))
  BY DEF Polled
<1>5. IsListed(c) /\ pollPc' = "poll"
  BY <1>3, <1>4 DEF Polled
<1>6. ncp.obj[c].life # "deleted"
  BY <1>5 DEF Inv, Lists
<1> HIDE DEF Turn
<1>7. PICK n \in Nat : n = Len(Turn) /\ DOMAIN Turn = 1 .. n
  BY <1>2
<1>8. /\ SubSeq(Turn, i + 1, n) \in Seq(Clients)
      /\ \A j \in DOMAIN SubSeq(Turn, i + 1, n) :
            i + j \in DOMAIN Turn /\ SubSeq(Turn, i + 1, n)[j] = Turn[i + j]
  BY <1>2, <1>4, <1>7
<1>9. pass' = SubSeq(Turn, i + 1, n)
  BY <1>4, <1>7
<1>10. \A j \in DOMAIN pass' : IsListed(pass'[j])
  BY <1>3, <1>8, <1>9
<1> QED
  BY <1>5, <1>6, <1>8, <1>9, <1>10

(* A client that has yet to announce itself has announced nothing before,  *)
(* and does not leave first.                                               *)
LEMMA OrderlyWords ==
    ASSUME NEW q \in Seq(Words), q # <<>>, NEW where, Orderly(q, where)
    PROVE  /\ Tail(q) \in Seq(Words) /\ Orderly(Tail(q), where)
           /\ Head(q) = "name" => Unannounced(q, where)
           /\ Head(q) = "eof" => ~ Unannounced(q, where)
           /\ Unannounced(Tail(q), where) =>
                 Unannounced(q, where) /\ Head(q) \notin {"name", "eof"}
<1>1. PICK n \in Nat \ {0} : n = Len(q) /\ DOMAIN q = 1 .. n
  OBVIOUS
<1>2. /\ Tail(q) \in Seq(Words) /\ DOMAIN Tail(q) = 1 .. n - 1
      /\ \A i \in 1 .. n - 1 : Tail(q)[i] = q[i + 1]
  BY <1>1
<1>3. Head(q) = q[1] /\ 1 \in DOMAIN q
  BY <1>1
<1>4. \A i \in 1 .. n - 1 : i + 1 \in 1 .. n
  OBVIOUS
<1>5. Orderly(Tail(q), where)
  <2>1. ASSUME NEW i \in DOMAIN Tail(q), NEW j \in DOMAIN Tail(q), Tail(q)[i] = "name"
        PROVE  /\ Tail(q)[j] = "name" => i = j
               /\ Tail(q)[j] = "eof" => i < j
    <3>1. i + 1 \in DOMAIN q /\ j + 1 \in DOMAIN q /\ i \in Nat /\ j \in Nat
      BY <1>1, <1>2
    <3>2. q[i + 1] = "name" /\ Tail(q)[j] = q[j + 1]
      BY <1>2, <2>1
    <3>3. /\ q[j + 1] = "name" => i + 1 = j + 1
          /\ q[j + 1] = "eof" => i + 1 < j + 1
      BY <3>1, <3>2 DEF Orderly
    <3> QED BY <3>1, <3>2, <3>3
  <2>2. ASSUME where \in {"new", "asked"}, NEW i \in DOMAIN Tail(q)
        PROVE  Tail(q)[i] \in Commands
    BY <1>1, <1>2, <1>4, <2>2 DEF Orderly
  <2> QED BY <2>1, <2>2 DEF Orderly
<1>6. where \in {"new", "asked"} => Head(q) \notin {"name", "eof"}
  BY <1>3, CommandsAssumption DEF Orderly
<1>7. Head(q) = "name" => Unannounced(q, where)
  BY <1>3 DEF Unannounced
<1>8. ASSUME NEW i \in DOMAIN q, q[i] = "name"
      PROVE  Head(q) # "eof" /\ (i # 1 => Head(q) # "name")
  BY <1>1, <1>3, <1>8 DEF Orderly
<1>9. Unannounced(Tail(q), where) => Unannounced(q, where) /\ Head(q) \notin {"name", "eof"}
  <2>1. ASSUME NEW i \in DOMAIN Tail(q), Tail(q)[i] = "name"
        PROVE  i + 1 \in DOMAIN q /\ q[i + 1] = "name" /\ i + 1 # 1
    BY <1>1, <1>2, <2>1
  <2> QED BY <1>6, <1>8, <2>1 DEF Unannounced
<1> QED
  BY <1>2, <1>5, <1>6, <1>7, <1>8, <1>9 DEF Unannounced

LEMMA PollMessageStep ==
    ASSUME Inv, NEW c \in Clients, PollMessage(c)
    PROVE  Inv' /\ Told
<1> DEFINE q == inbox[c]
           m == Head(q)
<1>1. /\ Polled(c) /\ q # <<>> /\ ncp' = SocketPoll(ncp, c, m)
      /\ inbox' = [inbox EXCEPT ![c] = IF m = "eof" THEN q ELSE Tail(q)]
      /\ UNCHANGED <<order, linkPc, mainPc, accepted, cancelled, linkFailed, stage>>
  BY DEF PollMessage, Idle
<1>2. /\ pass' \in Seq(Clients)
      /\ \A i \in DOMAIN pass' : IsListed(pass'[i])
      /\ ncp.obj[c].life # "deleted" /\ pollPc' = "poll"
  BY <1>1, PolledIs
<1>3. inbox \in [Clients -> Seq(Words)] /\ DOMAIN stage = Clients
      /\ \A d \in Clients : Orderly(inbox[d], stage[d])
  BY DEF Inv, Talks
<1>4. q \in Seq(Words) /\ Orderly(q, stage[c])
  BY <1>3
<1>5. /\ Tail(q) \in Seq(Words) /\ Orderly(Tail(q), stage[c])
      /\ m = "name" => Unannounced(q, stage[c])
      /\ m = "eof" => ~ Unannounced(q, stage[c])
      /\ Unannounced(Tail(q), stage[c]) =>
            Unannounced(q, stage[c]) /\ m \notin {"name", "eof"}
  BY <1>1, <1>4, OrderlyWords
<1>6. Unannounced(q, stage[c]) => Fresh(ncp, c)
  BY DEF Inv, FreshOnes
<1>7. /\ PollOf(ncp, ncp', c)
      /\ Fresh(ncp, c) /\ m \notin {"name", "eof"} => Fresh(ncp', c)
  BY <1>1, <1>2, <1>5, <1>6, SocketPollOf DEF Inv
<1>8. \A d \in Clients : inbox'[d] = IF d = c THEN IF m = "eof" THEN q ELSE Tail(q) ELSE inbox[d]
  BY <1>1, <1>3
<1> HIDE DEF m, q
<1>9. Talks'
  <2>1. inbox' \in [Clients -> Seq(Words)]
    BY <1>1, <1>3, <1>4, <1>5
  <2>2. \A d \in Clients : Orderly(inbox'[d], stage[d])
    BY <1>3, <1>4, <1>5, <1>8 DEF q
  <2> QED BY <1>1, <1>3, <2>1, <2>2 DEF Talks
<1>10. FreshOnes'
  <2> SUFFICES ASSUME NEW d \in Clients, Unannounced(inbox'[d], stage[d]) PROVE Fresh(ncp', d)
    BY <1>1 DEF FreshOnes
  <2>1. CASE d = c
    BY <1>5, <1>6, <1>7, <1>8, <2>1
  <2>2. CASE d # c
    BY <1>7, <1>8, <2>2 DEF Inv, FreshOnes, PollOf
  <2> QED BY <2>1, <2>2
<1>11. Threads'
  BY <1>1, <1>2 DEF Inv, Threads
<1>12. Lists'
  BY <1>1, <1>2, <1>7 DEF Inv, Lists, IsListed, PollOf
<1>13. DeletedOnlyByTimeout'
  BY <1>2, <1>7 DEF Inv, DeletedOnlyByTimeout, PollOf
<1>14. Settled(ncp') /\ Told
  BY <1>7 DEF Told, PollOf
<1> QED
  BY <1>9, <1>10, <1>11, <1>12, <1>13, <1>14 DEF Inv

LEMMA PollTimeoutStep ==
    ASSUME Inv, NEW c \in Clients, PollTimeout(c)
    PROVE  Inv' /\ Told
<1> DEFINE t == [ncp EXCEPT !.obj[c].term = TRUE, !.obj[c].late = TRUE]
           x == [ncp.obj[c] EXCEPT !.term = TRUE, !.late = TRUE]
<1>1. /\ Polled(c) /\ ncp.obj[c].named /\ ncp' = t
      /\ UNCHANGED <<order, linkPc, mainPc, accepted, cancelled, linkFailed, clientVars>>
  BY DEF PollTimeout
<1>2. /\ pass' \in Seq(Clients)
      /\ \A i \in DOMAIN pass' : IsListed(pass'[i])
      /\ ncp.obj[c].life # "deleted" /\ pollPc' = "poll"
  BY <1>1, PolledIs
<1>3. Shape(ncp) /\ c \in Owners
  BY DEF Inv, Settled, Owners
<1>4. DOMAIN ncp.obj = Owners /\ IsChannel(ncp.obj[c])
  BY <1>3 DEF Shape, AreChannels
<1>5. Plain(t) /\ t.table = ncp.table /\ t.obj = [ncp.obj EXCEPT ![c].term = TRUE, ![c].late = TRUE]
  BY <1>3 DEF Shape, Plain, NcpFields
<1>6. t.obj = [ncp.obj EXCEPT ![c] = x]
  BY <1>3, <1>4, <1>5 DEF IsChannel, ChannelFields
<1>7. /\ IsChannel(x) /\ x.chan = ncp.obj[c].chan /\ x.named = ncp.obj[c].named
      /\ x.term /\ x.late /\ x.life = ncp.obj[c].life
  BY <1>4 DEF IsChannel, ChannelFields
<1> HIDE DEF t, x
<1>8. \A d \in Clients : ncp'.obj[d] = IF d = c THEN x ELSE ncp.obj[d]
  BY <1>1, <1>4, <1>6 DEF Owners
<1>9. Shape(ncp') /\ ncp'.table = ncp.table
  BY <1>1, <1>3, <1>5, <1>6, <1>7, ChannelSet DEF Shape
<1>10. Settled(ncp')
  BY <1>7, <1>8, <1>9 DEF Inv, Settled, Seats
<1>11. Talks'
  BY <1>1 DEF Inv, Talks, clientVars
<1>12. FreshOnes'
  BY <1>1, <1>8 DEF Inv, FreshOnes, Fresh, clientVars
<1>13. Threads'
  BY <1>1, <1>2 DEF Inv, Threads
<1>14. Lists'
  BY <1>1, <1>2, <1>7, <1>8 DEF Inv, Lists, IsListed
<1>15. DeletedOnlyByTimeout'
  BY <1>7, <1>8, <1>9 DEF Inv, DeletedOnlyByTimeout
<1>16. Told
  BY <1>9 DEF Told
<1> QED
  BY <1>10, <1>11, <1>12, <1>13, <1>14, <1>15, <1>16 DEF Inv

LEMMA PollEndsStep ==
    ASSUME Inv, PollEnds
    PROVE  Inv' /\ Told
<1>1. UNCHANGED <<ncp, order, pass, linkPc, mainPc, accepted, cancelled, linkFailed, clientVars>>
      /\ pollPc' = "done"
  BY DEF PollEnds, clientVars
<1>2. Gentle(ncp, ncp')
  BY <1>1, SameGentle DEF Inv
<1>3. Threads'
  BY <1>1 DEF Inv, Threads
<1> QED
  BY <1>1, <1>2, <1>3, GentleStep


LEMMA PollCleanStep ==
    ASSUME Inv, PollClean
    PROVE  Inv' /\ Told
<1> DEFINE gone(o) == o \in Clients /\ ncp.obj[o].term /\ IsListed(o)
<1>1. /\ pass' = <<>> /\ order' = Unended(ncp, order) /\ pollPc' = "watch"
      /\ UNCHANGED <<linkPc, mainPc, accepted, cancelled, linkFailed, clientVars>>
  BY DEF PollClean
<1>2. ncp' = [ncp EXCEPT !.obj = [o \in DOMAIN ncp.obj |->
                 IF gone(o) THEN [ncp.obj[o] EXCEPT !.life = "deleted"] ELSE ncp.obj[o]]]
  BY DEF PollClean, IsListed
<1> HIDE DEF gone
<1>3. Shape(ncp) /\ DOMAIN ncp.obj = Owners /\ \A o \in Owners : IsChannel(ncp.obj[o])
  BY DEF Inv, Settled, Shape, AreChannels
<1>4. Plain(ncp') /\ ncp'.table = ncp.table
      /\ ncp'.obj = [o \in Owners |->
            IF gone(o) THEN [ncp.obj[o] EXCEPT !.life = "deleted"] ELSE ncp.obj[o]]
  BY <1>2, <1>3 DEF Shape, Plain, NcpFields
<1>5. ASSUME NEW o \in Owners
      PROVE  /\ IsChannel(ncp'.obj[o])
             /\ ncp'.obj[o].chan = ncp.obj[o].chan /\ ncp'.obj[o].named = ncp.obj[o].named
             /\ ncp'.obj[o].term = ncp.obj[o].term /\ ncp'.obj[o].late = ncp.obj[o].late
             /\ ncp'.obj[o].life = "deleted" => ncp.obj[o].life = "deleted" \/ gone(o)
  <2>1. ncp'.obj[o] = IF gone(o) THEN [ncp.obj[o] EXCEPT !.life = "deleted"] ELSE ncp.obj[o]
    BY <1>4
  <2>2. IsChannel(ncp.obj[o])
    BY <1>3
  <2> QED BY <2>1, <2>2 DEF IsChannel, ChannelFields
<1>6. Shape(ncp')
  <2>1. AreChannels(ncp'.obj)
    BY <1>4, <1>5 DEF AreChannels
  <2> QED BY <1>3, <1>4, <2>1 DEF Shape
<1>7. \A c \in Clients : c \in Owners
  BY DEF Owners
<1>8. Settled(ncp')
  BY <1>4, <1>5, <1>6, <1>7 DEF Inv, Settled, Seats
<1>9. Talks'
  BY <1>1 DEF Inv, Talks, clientVars
<1>10. FreshOnes'
  BY <1>1, <1>5, <1>7 DEF Inv, FreshOnes, Fresh, clientVars
<1>11. order' \in Seq({c \in Clients : ~ ncp.obj[c].term /\ \E i \in DOMAIN order : order[i] = c})
  <2>1. order \in Seq(Clients)
    BY DEF Inv, Threads
  <2> QED BY <1>1, <2>1, UnendedIs
<1>12. \A i \in DOMAIN order' : order'[i] \in Clients /\ ~ ncp.obj[order'[i]].term /\ IsListed(order'[i])
  BY <1>11 DEF IsListed
<1>13. Threads'
  <2>1. <<>> \in Seq(Clients)
    OBVIOUS
  <2>2. order' \in Seq(Clients)
    BY <1>11
  <2> QED BY <1>1, <2>1, <2>2 DEF Inv, Threads
<1>14. Lists'
  <2>1. \A i : i \notin DOMAIN <<>>
    OBVIOUS
  <2>2. \A i \in DOMAIN pass' : \E j \in DOMAIN order' : order'[j] = pass'[i]
    BY <1>1, <2>1, Zenon
  <2>3. ASSUME NEW c \in Clients, ncp'.obj[c].life = "deleted", NEW i \in DOMAIN order', order'[i] = c
        PROVE  FALSE
    <3>1. ~ ncp.obj[c].term /\ IsListed(c)
      BY <1>12, <2>3
    <3>2. ncp.obj[c].life = "deleted"
      BY <1>5, <1>7, <2>3, <3>1 DEF gone
    <3> QED BY <3>1, <3>2 DEF Inv, Lists
  <2> QED BY <2>2, <2>3 DEF Lists, IsListed
<1>15. DeletedOnlyByTimeout'
  <2> SUFFICES ASSUME NEW n \in Channels, NEW c \in Clients,
                      ncp.table[n] = c, ncp'.obj[c].life = "deleted"
               PROVE  ncp'.obj[c].late
    BY <1>4 DEF DeletedOnlyByTimeout
  <2>1. ncp.obj[c].life = "deleted" \/ ncp.obj[c].term
    BY <1>5, <1>7 DEF gone
  <2>2. ncp.obj[c].late
    BY <2>1 DEF Inv, Settled, Seats, DeletedOnlyByTimeout
  <2> QED BY <1>5, <1>7, <2>2
<1>16. Told
  BY <1>4 DEF Told
<1> QED
  BY <1>8, <1>9, <1>10, <1>13, <1>14, <1>15, <1>16 DEF Inv

-----------------------------------------------------------------------------
(* The steps of the clients and of the Psion.                              *)
LEMMA OrderlySays ==
    ASSUME NEW q \in Seq(Words), NEW where, Orderly(q, where), NEW next,
           next \notin {"new", "asked"}
    PROVE  /\ Orderly(q, next) /\ (Unannounced(q, next) => Unannounced(q, where))
           /\ \A w \in {"request", "eof"} :
                 /\ Append(q, w) \in Seq(Words) /\ Orderly(Append(q, w), next)
                 /\ Unannounced(Append(q, w), next) => Unannounced(q, where)
           /\ where = "asked" =>
                 Append(q, "name") \in Seq(Words) /\ Orderly(Append(q, "name"), next)
<1>1. PICK n \in Nat : n = Len(q) /\ DOMAIN q = 1 .. n
  OBVIOUS
<1>2. ASSUME NEW w \in Words
      PROVE  /\ Append(q, w) \in Seq(Words) /\ DOMAIN Append(q, w) = 1 .. n + 1
             /\ Append(q, w)[n + 1] = w
             /\ \A i \in 1 .. n : Append(q, w)[i] = q[i]
  BY <1>1
<1>3. \A i \in 1 .. n + 1 : i # n + 1 => i \in DOMAIN q
  BY <1>1
<1>4. Orderly(q, next) /\ (Unannounced(q, next) => Unannounced(q, where))
  BY DEF Orderly, Unannounced
<1>5. ASSUME NEW w \in {"request", "eof"}
      PROVE  /\ Append(q, w) \in Seq(Words) /\ Orderly(Append(q, w), next)
             /\ Unannounced(Append(q, w), next) => Unannounced(q, where)
  <2> DEFINE a == Append(q, w)
  <2>1. /\ a \in Seq(Words) /\ DOMAIN a = 1 .. n + 1 /\ a[n + 1] = w
        /\ \A i \in 1 .. n : a[i] = q[i]
    BY <1>2 DEF Words
  <2> HIDE DEF a
  <2>2. ASSUME NEW i \in DOMAIN a, a[i] = "name"
        PROVE  i \in DOMAIN q /\ q[i] = "name" /\ i < n + 1
    BY <1>1, <1>3, <2>1, <2>2
  <2>3. ASSUME NEW i \in DOMAIN a, NEW j \in DOMAIN a, a[i] = "name"
        PROVE  (a[j] = "name" => i = j) /\ (a[j] = "eof" => i < j)
    <3>1. CASE j = n + 1
      BY <2>1, <2>2, <2>3, <3>1
    <3>2. CASE j # n + 1
      <4>1. j \in DOMAIN q /\ a[j] = q[j]
        BY <1>1, <1>3, <2>1, <3>2
      <4> QED BY <2>2, <2>3, <4>1 DEF Orderly
    <3> QED BY <3>1, <3>2
  <2>4. Orderly(a, next)
    BY <2>3 DEF Orderly
  <2>5. Unannounced(a, next) => Unannounced(q, where)
    BY <2>2 DEF Unannounced
  <2> QED BY <2>1, <2>4, <2>5 DEF a
<1>6. ASSUME where = "asked"
      PROVE  Append(q, "name") \in Seq(Words) /\ Orderly(Append(q, "name"), next)
  <2> DEFINE a == Append(q, "name")
  <2>1. /\ a \in Seq(Words) /\ DOMAIN a = 1 .. n + 1 /\ a[n + 1] = "name"
        /\ \A i \in 1 .. n : a[i] = q[i]
    BY <1>2 DEF Words
  <2> HIDE DEF a
  <2>2. \A i \in DOMAIN q : q[i] \notin {"name", "eof"}
    BY <1>6, CommandsAssumption DEF Orderly
  <2>3. ASSUME NEW i \in DOMAIN a, a[i] \in {"name", "eof"}
        PROVE  i = n + 1
    BY <1>1, <1>3, <2>1, <2>2, <2>3
  <2>4. Orderly(a, next)
    BY <2>1, <2>3 DEF Orderly
  <2> QED BY <2>1, <2>4 DEF a
<1> QED
  BY <1>4, <1>5, <1>6

(* What a client says changes nothing but its own words.                   *)
LEMMA SaysStep ==
    ASSUME Inv, NEW c \in Clients, Gentle(ncp, ncp'), UNCHANGED sessionVars, UNCHANGED linkFailed,
           NEW q \in Seq(Words), inbox' = [inbox EXCEPT ![c] = q],
           NEW next, stage' = [stage EXCEPT ![c] = next],
           Orderly(q, next), Unannounced(q, next) => Unannounced(inbox[c], stage[c])
    PROVE  Inv' /\ Told
<1>1. /\ inbox \in [Clients -> Seq(Words)] /\ DOMAIN stage = Clients
      /\ \A d \in Clients : Orderly(inbox[d], stage[d])
  BY DEF Inv, Talks
<1>2. \A d \in Clients : /\ inbox'[d] = IF d = c THEN q ELSE inbox[d]
                         /\ stage'[d] = IF d = c THEN next ELSE stage[d]
  BY <1>1
<1>3. Talks'
  <2>1. inbox' \in [Clients -> Seq(Words)] /\ DOMAIN stage' = Clients
    BY <1>1
  <2>2. \A d \in Clients : Orderly(inbox'[d], stage'[d])
    BY <1>1, <1>2
  <2> QED BY <2>1, <2>2 DEF Talks
<1>4. FreshOnes'
  <2>1. \A d \in Clients : Unannounced(inbox'[d], stage'[d]) => Unannounced(inbox[d], stage[d])
    BY <1>2
  <2> QED BY <2>1, GentleFresh DEF Inv, FreshOnes
<1>5. Threads'
  BY ThreadsKept DEF Inv
<1>6. Harmless(ncp, ncp')
  BY GentleHarmless DEF Inv
<1>7. Lists'
  BY <1>6 DEF Inv, Lists, IsListed, Harmless, sessionVars
<1>8. DeletedOnlyByTimeout'
  BY <1>6 DEF Inv, DeletedOnlyByTimeout, Harmless
<1>9. Settled(ncp') /\ Told
  BY <1>6 DEF Harmless, Told, Gentle
<1> QED
  BY <1>3, <1>4, <1>5, <1>7, <1>8, <1>9 DEF Inv

LEMMA ClientReadsStep ==
    ASSUME Inv, NEW c \in Clients, ClientReads(c)
    PROVE  Inv' /\ Told
<1> DEFINE a == Head(ncp.answers[c])
           q == inbox[c]
<1>1. /\ ncp' = [ncp EXCEPT !.answers[c] = Tail(@)]
      /\ UNCHANGED sessionVars /\ UNCHANGED linkFailed
      /\ \/ Say(c, "name") /\ Becomes(c, "announced") /\ stage[c] = "asked"
         \/ Say(c, "request") /\ Becomes(c, "requested")
         \/ Becomes(c, "served") /\ UNCHANGED inbox
         \/ Say(c, "eof") /\ Becomes(c, "closed")
  BY DEF ClientReads, ClientOthers
<1>2. Gentle(ncp, ncp')
  <2>1. Plain(ncp') /\ ncp'.table = ncp.table /\ ncp'.obj = ncp.obj
    BY <1>1 DEF Inv, Settled, Shape, Plain, NcpFields
  <2> QED BY <2>1, AsideIsGentle DEF Inv, Settled
<1>3. inbox \in [Clients -> Seq(Words)] /\ Orderly(inbox[c], stage[c])
  BY DEF Inv, Talks
<1>4. q \in Seq(Words) /\ Orderly(q, stage[c]) /\ [inbox EXCEPT ![c] = q] = inbox
  BY <1>3
<1> HIDE DEF q
<1>5. CASE Say(c, "name") /\ Becomes(c, "announced") /\ stage[c] = "asked"
  <2>1. /\ Append(q, "name") \in Seq(Words) /\ Orderly(Append(q, "name"), "announced")
        /\ Unannounced(inbox[c], stage[c])
    BY <1>4, <1>5, OrderlySays DEF Unannounced
  <2>2. /\ inbox' = [inbox EXCEPT ![c] = Append(q, "name")]
        /\ stage' = [stage EXCEPT ![c] = "announced"]
    BY <1>5 DEF Say, Becomes, q
  <2> QED BY <1>1, <1>2, <2>1, <2>2, SaysStep
<1>6. ASSUME NEW w \in {"request", "eof"}, NEW next, next \notin {"new", "asked"},
             Say(c, w), Becomes(c, next)
      PROVE  Inv' /\ Told
  <2>1. /\ Append(q, w) \in Seq(Words) /\ Orderly(Append(q, w), next)
        /\ Unannounced(Append(q, w), next) => Unannounced(q, stage[c])
    BY <1>4, <1>6, OrderlySays
  <2>2. /\ inbox' = [inbox EXCEPT ![c] = Append(q, w)]
        /\ stage' = [stage EXCEPT ![c] = next]
    BY <1>6 DEF Say, Becomes, q
  <2> QED BY <1>1, <1>2, <2>1, <2>2, SaysStep DEF q
<1>7. CASE Becomes(c, "served") /\ UNCHANGED inbox
  <2>1. Orderly(q, "served") /\ (Unannounced(q, "served") => Unannounced(q, stage[c]))
    BY <1>4, OrderlySays
  <2>2. inbox' = [inbox EXCEPT ![c] = q] /\ stage' = [stage EXCEPT ![c] = "served"]
    BY <1>4, <1>7 DEF Becomes
  <2> QED BY <1>1, <1>2, <1>4, <2>1, <2>2, SaysStep DEF q
<1> QED BY <1>1, <1>5, <1>6, <1>7

LEMMA ClientLeavesStep ==
    ASSUME Inv, NEW c \in Clients, ClientLeaves(c)
    PROVE  Inv' /\ Told
<1> DEFINE q == inbox[c]
<1>1. /\ ncp' = ncp /\ UNCHANGED sessionVars /\ UNCHANGED linkFailed
      /\ inbox' = [inbox EXCEPT ![c] = Append(q, "eof")]
      /\ stage' = [stage EXCEPT ![c] = "closed"]
  BY DEF ClientLeaves, ClientOthers, Say, Becomes
<1>2. Gentle(ncp, ncp')
  BY <1>1, SameGentle DEF Inv
<1>3. q \in Seq(Words) /\ Orderly(q, stage[c])
  BY DEF Inv, Talks
<1> HIDE DEF q
<1>4. /\ Append(q, "eof") \in Seq(Words) /\ Orderly(Append(q, "eof"), "closed")
      /\ Unannounced(Append(q, "eof"), "closed") => Unannounced(q, stage[c])
  BY <1>3, OrderlySays
<1> QED
  BY <1>1, <1>2, <1>4, SaysStep DEF q

LEMMA PsionStep ==
    ASSUME Inv, PsionSteps
    PROVE  Inv' /\ Told
<1>1. UNCHANGED <<sessionVars, clientVars>>
  BY DEF PsionSteps, PsionStart, PsionReceives, PsionRegisters, PsionCuts, LinkFails,
         PsionServes, PsionOthers
<1>2. linkFailed' = linkFailed \/ linkFailed' = TRUE
  BY DEF PsionSteps, PsionStart, PsionReceives, PsionRegisters, PsionCuts, LinkFails,
         PsionServes, PsionOthers
<1>3. ncp' = ncp \/ ncp' = [ncp EXCEPT !.toPsion = Tail(@)]
  BY DEF PsionSteps, PsionStart, PsionReceives, PsionRegisters, PsionCuts, LinkFails,
         PsionServes, PsionOthers
<1>4. Gentle(ncp, ncp')
  <2>1. Plain(ncp') /\ ncp'.table = ncp.table /\ ncp'.obj = ncp.obj
    BY <1>3 DEF Inv, Settled, Shape, Plain, NcpFields
  <2> QED BY <2>1, AsideIsGentle DEF Inv, Settled
<1>5. Threads'
  BY <1>1, <1>2 DEF Inv, Threads, sessionVars
<1> QED
  BY <1>1, <1>4, <1>5, GentleStep DEF sessionVars

LEMMA NextInv ==
    ASSUME Inv, [Next]_vars
    PROVE  Inv' /\ Told
<1>1. CASE PumpReceive
  BY <1>1, PumpReceiveStep
<1>2. CASE Poll
  BY <1>2, PollEndsStep, PollCleanStep, PollMessageStep, PollTimeoutStep DEF Poll
<1>3. CASE LinkThread
  BY <1>3, LinkCheckStep, LinkRestartStep DEF LinkThread
<1>4. CASE MainThread
  BY <1>4, MainEndsStep, AcceptWatchStep, AcceptStep DEF MainThread
<1>5. CASE Cancel
  BY <1>5, CancelStep
<1>6. CASE \E c \in Clients : ClientSteps(c)
  BY <1>6, ClientReadsStep, ClientLeavesStep DEF ClientSteps
<1>7. CASE PsionSteps
  BY <1>7, PsionStep
<1>8. CASE UNCHANGED vars
  <2>1. ncp' = ncp /\ UNCHANGED <<sessionVars, linkFailed, clientVars>>
    BY <1>8 DEF vars
  <2>2. Gentle(ncp, ncp')
    BY <2>1, SameGentle DEF Inv
  <2>3. Threads'
    BY <2>1, ThreadsKept DEF Inv
  <2> QED BY <2>1, <2>2, <2>3, GentleStep DEF sessionVars
<1> QED
  BY <1>1, <1>2, <1>3, <1>4, <1>5, <1>6, <1>7, <1>8 DEF Next

-----------------------------------------------------------------------------
(* The theorems.                                                           *)
LEMMA AlwaysInv == Spec => []Inv
<1>1. Init => Inv
  BY InitInv
<1>2. Inv /\ [Next]_vars => Inv'
  BY NextInv
<1> QED
  BY <1>1, <1>2, PTL DEF Spec

(* The variables of Ncp keep their types: whatever the Psion, the clients  *)
(* and the faults do, every number a channel has is one of the table, and  *)
(* every entry of the table is a channel, deleted or not.                  *)
THEOREM TypeCorrect == Spec => []TypeOK
<1>1. Inv => TypeOK
  <2> SUFFICES ASSUME Inv PROVE TypeOK
    OBVIOUS
  <2>1. Shape(ncp) /\ Threads
    BY DEF Inv, Settled
  <2>2. ncp.table \in [Channels -> Clients \cup {Link, Free, Gone}]
    BY <2>1 DEF Shape, IsTable, Holders
  <2>3. /\ DOMAIN ncp.remote = Channels /\ DOMAIN ncp.partial = Channels
        /\ ncp.version \in {3, 6} /\ ncp.maxLinks \in {SiboLinks, PsionLinks}
        /\ ncp.undefined \in BOOLEAN /\ ncp.link \in BOOLEAN /\ ncp.failed \in BOOLEAN
    BY <2>1 DEF Shape, Plain
  <2>4. \A o \in Clients \cup {Link} : ncp.obj[o].chan \in Channels /\ ncp.obj[o].tries \in Nat
    BY <2>1 DEF Shape, AreChannels, IsChannel, Owners
  <2>5. {cancelled, linkFailed, ncp.undefined, ncp.link, ncp.failed} \subseteq BOOLEAN
    BY <2>1, <2>3 DEF Threads
  <2> QED BY <2>1, <2>2, <2>3, <2>4, <2>5 DEF TypeOK, Threads
<1> QED
  BY <1>1, AlwaysInv, PTL

(* The polling thread deletes a channel that is still in the table of NCP  *)
(* only after its 15 seconds: Disconnect and reset take a channel out      *)
(* before they end it, and a client that has announced nothing has no      *)
(* number.                                                                 *)
THEOREM DeletedChannelsLeft == Spec => []DeletedOnlyByTimeout
<1>1. Inv => DeletedOnlyByTimeout
  BY DEF Inv
<1> QED
  BY <1>1, AlwaysInv, PTL

(* No step of any thread takes a client's number out of the table without  *)
(* ending its channel, but for the end of ncpd and for a link that clears  *)
(* the number its own channel once had.                                    *)
THEOREM NoChannelForgotten == Spec => EndedIsTold
<1>1. Inv /\ [Next]_vars => [Told]_vars
  BY NextInv
<1>2. [Told]_vars => [\A c \in Clients : \A n \in Channels :
          ncp.table[n] = c =>
              \/ ncp'.table[n] = c \/ ncp'.obj[c].term \/ mainPc' = "ended"
              \/ n = ncp.obj[Link].chan /\ ncp.link /\ ~ ncp'.link]_vars
  BY DEF Told
<1> QED
  BY <1>1, <1>2, AlwaysInv, PTL DEF Spec, EndedIsTold
=============================================================================
