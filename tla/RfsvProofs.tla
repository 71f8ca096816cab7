---------------------------- MODULE RfsvProofs ----------------------------
(***************************************************************************)
(* Proofs that no call of RFSV leaves a handle open and that a copy that   *)
(* reports success is whole (module Rfsv).                                 *)
(*                                                                         *)
(* HandlesInv says which handles the session that the client knows of may  *)
(* have at each place of each call: that of the file or directory the call *)
(* reads and that of the file it writes, as long as the call is sure to    *)
(* close them.  It holds because of what an exchange leaves (OutcomeIs): a *)
(* command is executed by the server as it is, or by that of a session     *)
(* made anew, which has no handles; the steps are then alike, so each says *)
(* what command it sends and what it makes of each outcome.                *)
(*                                                                         *)
(* CopyInv says how far a copy is: what has been written down and what is  *)
(* in the buffer are together the front of the source, and the handles are *)
(* behind it.  A failed exchange may have executed its command and so have *)
(* moved a handle, or have lost it with its session; but then the call can *)
(* only end, and no longer reports success.  copyOnPsion can read in a     *)
(* session in which the number of its source names the target: CopiesOn    *)
(* says what still holds as long as the session was not made anew.         *)
(***************************************************************************)
EXTENDS ClientProofs

-----------------------------------------------------------------------------
(* The server: each command leaves a server, and what it does to handles.  *)

ServerShape(s) ==
    /\ s = [files |-> s.files, handles |-> s.handles]
    /\ s.handles = [x \in DOMAIN s.handles |-> s.handles[x]]
    /\ DOMAIN s.handles \subseteq {1, 2}

LEMMA NoHandles ==
    ASSUME NEW s, ServerShape(s)
    PROVE  /\ ServerShape([s EXCEPT !.handles = Rfsv!None])
           /\ [s EXCEPT !.handles = Rfsv!None].files = s.files
           /\ DOMAIN [s EXCEPT !.handles = Rfsv!None].handles = {}
BY DEF Rfsv!None, ServerShape

LEMMA StoreKeeps ==
    ASSUME NEW s, ServerShape(s), NEW h, NEW f, NEW p
    PROVE  /\ ServerShape(Rfsv!Store(s, h, f, p))
           /\ DOMAIN Rfsv!Store(s, h, f, p).handles = DOMAIN s.handles
<1> DEFINE fs == [s.files EXCEPT ![s.handles[h].name] = f]
           k == [s.handles[h] EXCEPT !.pos = p]
           hs == [s.handles EXCEPT ![h] = k]
           half == [s EXCEPT !.files = fs]
           all == [half EXCEPT !.handles = hs]
<1>1. half = [files |-> fs, handles |-> s.handles]
  <2> HIDE DEF fs
  <2> QED
    BY DEF ServerShape
<1>2. Rfsv!Store(s, h, f, p) = [half EXCEPT !.handles[h].pos = p]
  BY DEF Rfsv!Store
<1>3. [half EXCEPT !.handles[h].pos = p] = [files |-> fs, handles |-> hs]
  <2>1. half.handles = s.handles
    BY <1>1
  <2> HIDE DEF half, fs
  <2> QED
    BY <1>1, <2>1
<1>4. DOMAIN hs = DOMAIN s.handles /\ hs = [x \in DOMAIN hs |-> hs[x]]
  <2> HIDE DEF k
  <2> QED
    BY DEF ServerShape
<1> HIDE DEF hs, half, fs
<1> QED
  BY <1>2, <1>3, <1>4 DEF ServerShape

LEMMA SetIs ==
    ASSUME NEW f, NEW k, NEW v
    PROVE  /\ DOMAIN Rfsv!Set(f, k, v) = DOMAIN f \cup {k}
           /\ Rfsv!Set(f, k, v) = [x \in DOMAIN Rfsv!Set(f, k, v) |-> Rfsv!Set(f, k, v)[x]]
           /\ Rfsv!Set(f, k, v)[k] = v
           /\ \A x \in DOMAIN f : x # k => Rfsv!Set(f, k, v)[x] = f[x]
BY DEF Rfsv!Set

(* A server s opens the handle h: for a file, or in its directory.         *)
LEMMA OpenedIs ==
    ASSUME NEW s, ServerShape(s), NEW n, NEW content, NEW e \in Rfsv!Opened(s, n, content)
    PROVE  /\ ServerShape(e.server) /\ e.res = "none" /\ e.data \in {1, 2} \ DOMAIN s.handles
           /\ DOMAIN e.server.handles = DOMAIN s.handles \cup {e.data}
<1>1. PICK h \in {1, 2} \ DOMAIN s.handles :
         e = [server |-> [files |-> Rfsv!Set(s.files, n, content),
                          handles |-> Rfsv!Set(s.handles, h, [name |-> n, pos |-> 0])],
              res |-> "none", data |-> h]
  BY DEF Rfsv!Opened, Rfsv!Reply, Rfsv!Handles
<1>2. PICK g : g = Rfsv!Set(s.handles, h, [name |-> n, pos |-> 0])
  OBVIOUS
<1>3. DOMAIN g = DOMAIN s.handles \cup {h} /\ g = [x \in DOMAIN g |-> g[x]]
  BY <1>2 DEF Rfsv!Set
<1>4. DOMAIN g \subseteq {1, 2}
  BY <1>3 DEF ServerShape
<1>5. /\ e.server = [files |-> Rfsv!Set(s.files, n, content), handles |-> g]
      /\ e.res = "none" /\ e.data = h
  BY <1>1, <1>2
<1> QED
  BY <1>2, <1>3, <1>4, <1>5 DEF ServerShape

LEMMA OpenedDir ==
    ASSUME NEW s, ServerShape(s), NEW n, NEW h \in {1, 2} \ DOMAIN s.handles
    PROVE  LET t == [s EXCEPT !.handles = Rfsv!Set(@, h, [name |-> n, pos |-> 0])]
           IN  /\ ServerShape(t) /\ t.files = s.files
               /\ DOMAIN t.handles = DOMAIN s.handles \cup {h}
               /\ t.handles = Rfsv!Set(s.handles, h, [name |-> n, pos |-> 0])
<1> DEFINE t == [s EXCEPT !.handles = Rfsv!Set(@, h, [name |-> n, pos |-> 0])]
<1>1. PICK g : g = Rfsv!Set(s.handles, h, [name |-> n, pos |-> 0])
  OBVIOUS
<1>2. DOMAIN g = DOMAIN s.handles \cup {h} /\ g = [x \in DOMAIN g |-> g[x]]
  BY <1>1 DEF Rfsv!Set
<1>3. DOMAIN g \subseteq {1, 2}
  BY <1>2 DEF ServerShape
<1>4. t = [files |-> s.files, handles |-> g]
  BY <1>1 DEF ServerShape
<1> HIDE DEF t
<1>5. ServerShape(t) /\ t.files = s.files /\ t.handles = g
  BY <1>2, <1>3, <1>4 DEF ServerShape
<1> QED
  BY <1>1, <1>2, <1>5 DEF t

LEMMA ExecuteOpen ==
    ASSUME NEW s, ServerShape(s), NEW c, c[1] = "open", c[2] \in {"read", "create", "replace", "dir"},
           NEW e \in Rfsv!Execute(s, c)
    PROVE  /\ ServerShape(e.server) /\ e.res # "disc"
           /\ e.res = "none" => /\ e.data \in {1, 2}
                                /\ DOMAIN e.server.handles \subseteq DOMAIN s.handles \cup {e.data}
           /\ e.res # "none" => DOMAIN e.server.handles \subseteq DOMAIN s.handles
<1>1. CASE \E content : e \in Rfsv!Opened(s, c[3], content)
  <2>1. PICK content : e \in Rfsv!Opened(s, c[3], content)
    BY <1>1
  <2>2. /\ ServerShape(e.server) /\ e.res = "none" /\ e.data \in {1, 2} \ DOMAIN s.handles
        /\ DOMAIN e.server.handles = DOMAIN s.handles \cup {e.data}
    BY <2>1, OpenedIs
  <2> QED
    BY <2>2
<1>2. CASE \E h \in {1, 2} \ DOMAIN s.handles :
             e = [server |-> [s EXCEPT !.handles = Rfsv!Set(@, h, [name |-> c[3], pos |-> 0])],
                  res |-> "none", data |-> h]
  <2>1. PICK h \in {1, 2} \ DOMAIN s.handles :
             e = [server |-> [s EXCEPT !.handles = Rfsv!Set(@, h, [name |-> c[3], pos |-> 0])],
                  res |-> "none", data |-> h]
    BY <1>2
  <2>2. PICK t : t = [s EXCEPT !.handles = Rfsv!Set(@, h, [name |-> c[3], pos |-> 0])]
    OBVIOUS
  <2>3. ServerShape(t) /\ DOMAIN t.handles = DOMAIN s.handles \cup {h}
    BY <2>2, OpenedDir
  <2>4. e.server = t /\ e.res = "none" /\ e.data = h
    BY <2>1, <2>2
  <2> QED
    BY <2>3, <2>4
<1>3. CASE e.server = s /\ e.res \in {"nxist", "exist"}
  BY <1>3
<1> QED
  BY <1>1, <1>2, <1>3 DEF Rfsv!Execute, Rfsv!Reply, Rfsv!Handles

LEMMA ExecuteClose ==
    ASSUME NEW s, ServerShape(s), NEW c, c[1] = "close", NEW e \in Rfsv!Execute(s, c)
    PROVE  /\ ServerShape(e.server) /\ e.res # "disc"
           /\ DOMAIN e.server.handles = DOMAIN s.handles \ {c[2]}
BY DEF Rfsv!Execute, Rfsv!OnHandle, Rfsv!Reply, Rfsv!Restrict, ServerShape

LEMMA PosKeeps ==
    ASSUME NEW s, ServerShape(s), NEW h, NEW p
    PROVE  /\ ServerShape(Rfsv!MovedTo(s, h, p)) /\ Rfsv!MovedTo(s, h, p).files = s.files
           /\ DOMAIN Rfsv!MovedTo(s, h, p).handles = DOMAIN s.handles
<1> DEFINE k == [s.handles[h] EXCEPT !.pos = p]
           hs == [s.handles EXCEPT ![h] = k]
           t == [s EXCEPT !.handles[h].pos = p]
<1>1. DOMAIN hs = DOMAIN s.handles /\ hs = [x \in DOMAIN hs |-> hs[x]]
  <2> HIDE DEF k
  <2> QED
    BY DEF ServerShape
<1>2. t = [files |-> s.files, handles |-> hs]
  BY DEF ServerShape
<1> HIDE DEF hs, t
<1>3. ServerShape(t) /\ t.files = s.files /\ DOMAIN t.handles = DOMAIN s.handles
  BY <1>1, <1>2 DEF ServerShape
<1> QED
  BY <1>3 DEF t, Rfsv!MovedTo

OnHandles == {"read", "write", "seek", "setsize", "readdir", "readwrite"}
Others == {"delete", "attr", "drive", "devlist", "parse"}

LEMMA ExecuteOnHandle ==
    ASSUME NEW s, ServerShape(s), NEW c, c[1] \in OnHandles, NEW e \in Rfsv!Execute(s, c)
    PROVE  /\ ServerShape(e.server) /\ e.res # "disc"
           /\ DOMAIN e.server.handles = DOMAIN s.handles
<1>1. CASE c[2] \notin DOMAIN s.handles
  BY <1>1 DEF Rfsv!Execute, Rfsv!Reply, OnHandles
<1>2. CASE c[2] \in DOMAIN s.handles
  <2>1. PICK h : h = c[2] /\ e \in Rfsv!OnHandle(s, h, c)
    BY <1>2 DEF Rfsv!Execute, OnHandles
  <2>2. /\ e.res # "disc"
        /\ \/ e.server = s
           \/ \E f, p : e.server = Rfsv!Store(s, h, f, p)
           \/ \E p : e.server = Rfsv!MovedTo(s, h, p)
           \/ \E g, f, p, q : e.server = Rfsv!Store(Rfsv!MovedTo(s, h, q), g, f, p)
    <3>1. CASE c[1] = "read"
      BY <2>1, <3>1 DEF Rfsv!OnHandle, Rfsv!Reply
    <3>2. CASE c[1] = "write"
      BY <2>1, <3>2 DEF Rfsv!OnHandle, Rfsv!Reply
    <3>3. CASE c[1] = "seek"
      BY <2>1, <3>3 DEF Rfsv!OnHandle, Rfsv!Reply
    <3>4. CASE c[1] = "setsize"
      BY <2>1, <3>4 DEF Rfsv!OnHandle, Rfsv!Reply
    <3>5. CASE c[1] = "readdir"
      <4>1. \/ e = Rfsv!Reply(s, "eof", Rfsv!None)
            \/ \E p, d : e = Rfsv!Reply(Rfsv!MovedTo(s, h, p), "none", d)
        BY <2>1, <3>5 DEF Rfsv!OnHandle
      <4> QED
        BY <4>1 DEF Rfsv!Reply
    <3>6. CASE c[1] = "readwrite"
      <4>1. \/ e = Rfsv!Reply(s, "handle", Rfsv!None)
            \/ \E g, f, p, q, d : e = Rfsv!Reply(Rfsv!Store(Rfsv!MovedTo(s, h, q), g, f, p), "none", d)
        BY <2>1, <3>6 DEF Rfsv!OnHandle
      <4> QED
        BY <4>1 DEF Rfsv!Reply
    <3> QED
      BY <3>1, <3>2, <3>3, <3>4, <3>5, <3>6 DEF OnHandles
  <2>3. CASE \E f, p : e.server = Rfsv!Store(s, h, f, p)
    BY <2>2, <2>3, StoreKeeps
  <2>4. CASE \E p : e.server = Rfsv!MovedTo(s, h, p)
    BY <2>2, <2>4, PosKeeps
  <2>5. CASE \E g, f, p, q : e.server = Rfsv!Store(Rfsv!MovedTo(s, h, q), g, f, p)
    <3>1. PICK g, f, p, q : e.server = Rfsv!Store(Rfsv!MovedTo(s, h, q), g, f, p)
      BY <2>5
    <3>2. ServerShape(Rfsv!MovedTo(s, h, q)) /\ DOMAIN Rfsv!MovedTo(s, h, q).handles = DOMAIN s.handles
      BY PosKeeps
    <3> QED
      BY <2>2, <3>1, <3>2, StoreKeeps
  <2> QED
    BY <2>2, <2>3, <2>4, <2>5
<1> QED
  BY <1>1, <1>2

LEMMA ExecuteOther ==
    ASSUME NEW s, ServerShape(s), NEW c, c[1] \in Others, NEW e \in Rfsv!Execute(s, c)
    PROVE  /\ ServerShape(e.server) /\ (c[1] # "drive" => e.res # "disc")
           /\ DOMAIN e.server.handles = DOMAIN s.handles
<1>1. CASE c[1] # "delete"
  BY <1>1 DEF Rfsv!Execute, Rfsv!Reply, Others
<1>2. CASE c[1] = "delete"
  BY <1>2 DEF Rfsv!Execute, Rfsv!Reply, ServerShape
<1> QED
  BY <1>1, <1>2

Command(c) ==
    \/ c[1] = "open" /\ c[2] \in {"read", "create", "replace", "dir"}
    \/ c[1] = "close"
    \/ c[1] \in OnHandles \cup Others

LEMMA ExecuteShape ==
    ASSUME NEW s, ServerShape(s), NEW c, Command(c), NEW e \in Rfsv!Execute(s, c)
    PROVE  ServerShape(e.server)
BY ExecuteOpen, ExecuteClose, ExecuteOnHandle, ExecuteOther DEF Command

-----------------------------------------------------------------------------
(* An exchange: a command is executed by the server as it is, or by that   *)
(* of a new session, which has no handles and in which the files may be as *)
(* the command has left them in the old one.                               *)

Outcome(c, o) == \E t \in Rfsv!SendCommand(c) : o \in Rfsv!GetResponse(t, c)

LeftBy(c, s) ==
    \/ s.files = server.files
    \/ \E x : /\ ServerShape(x) /\ x.files = server.files
              /\ (x = server /\ status # "disc") \/ DOMAIN x.handles = {}
              /\ \E e \in Rfsv!Execute(x, c) : s.files = e.server.files

LEMMA AfterIs ==
    ASSUME NEW s, ServerShape(s), NEW c, Command(c), NEW x \in Rfsv!After(s, c)
    PROVE  ServerShape(x) /\ (x = s \/ \E e \in Rfsv!Execute(s, c) : x = e.server)
BY ExecuteShape DEF Rfsv!After

SessionShape(t) ==
    t = [server |-> t.server, status |-> t.status, sent |-> t.sent, renewed |-> t.renewed,
         faults |-> t.faults]

LEMMA ReconnectsIs ==
    ASSUME NEW s, ServerShape(s), NEW r \in Rfsv!Reconnects(s)
    PROVE  /\ ServerShape(r.server) /\ r.server.files = s.files /\ DOMAIN r.server.handles = {}
           /\ r.status \in {"none", "disc"} /\ r.sent = TRUE /\ r.renewed = TRUE
           /\ SessionShape(r)
<1>1. PICK st \in {"none", "disc"} :
         r = [server |-> [s EXCEPT !.handles = Rfsv!None], status |-> st, sent |-> TRUE,
              renewed |-> TRUE, faults |-> IF st = "disc" THEN 1 ELSE 0]
  BY DEF Rfsv!Reconnects, Rfsv!Renewed
<1>2. PICK x : x = [s EXCEPT !.handles = Rfsv!None]
  OBVIOUS
<1>3. ServerShape(x) /\ x.files = s.files /\ DOMAIN x.handles = {}
  BY <1>2, NoHandles
<1> QED
  BY <1>1, <1>2, <1>3 DEF SessionShape

LEMMA SendCommandIs ==
    ASSUME ServerShape(server), NEW c, Command(c), NEW t \in Rfsv!SendCommand(c)
    PROVE  /\ ServerShape(t.server)
           /\ \/ t.server = server /\ t.status = status /\ status # "disc" /\ t.renewed = FALSE
              \/ DOMAIN t.server.handles = {} /\ LeftBy(c, t.server) /\ t.renewed = TRUE
<1> DEFINE old == [server |-> server, status |-> status, sent |-> TRUE, renewed |-> FALSE, faults |-> 0]
           begun == IF status = "disc" THEN Rfsv!Reconnects(server) ELSE {old}
           again(b) == UNION {Rfsv!Reconnects(x) : x \in Rfsv!After(b.server, c)}
<1>1. PICK b \in begun :
        t \in IF b.status = "disc" THEN {[b EXCEPT !.sent = FALSE]}
              ELSE {b} \cup {[r EXCEPT !.faults = @ + 1] : r \in again(b)}
                       \cup {[r EXCEPT !.faults = 2, !.sent = FALSE, !.status = "disc"] : r \in again(b)}
  BY Zenon DEF Rfsv!SendCommand
<1>2. /\ ServerShape(b.server)
      /\ \/ b = old /\ status # "disc"
         \/ /\ b.server.files = server.files /\ DOMAIN b.server.handles = {} /\ b.renewed = TRUE
            /\ SessionShape(b)
  <2>1. CASE status = "disc"
    BY <2>1, ReconnectsIs
  <2>2. CASE status # "disc"
    BY <2>2
  <2> QED
    BY <2>1, <2>2
<1>3. ASSUME NEW r \in again(b)
      PROVE  /\ ServerShape(r.server) /\ DOMAIN r.server.handles = {} /\ LeftBy(c, r.server)
             /\ r.renewed = TRUE /\ SessionShape(r)
  <2>1. PICK x \in Rfsv!After(b.server, c) : r \in Rfsv!Reconnects(x)
    BY <1>3
  <2>2. ServerShape(x) /\ (x = b.server \/ \E e \in Rfsv!Execute(b.server, c) : x = e.server)
    BY <1>2, AfterIs
  <2>3. /\ ServerShape(r.server) /\ DOMAIN r.server.handles = {} /\ r.server.files = x.files
        /\ r.renewed = TRUE /\ SessionShape(r)
    BY <2>1, <2>2, ReconnectsIs
  <2>4. /\ b.server.files = server.files
        /\ (b.server = server /\ status # "disc") \/ DOMAIN b.server.handles = {}
    BY <1>2
  <2>5. LeftBy(c, r.server)
    BY <1>2, <2>2, <2>3, <2>4 DEF LeftBy
  <2> QED
    BY <2>3, <2>5
<1> HIDE DEF again
<1>4. CASE t \in {b, [b EXCEPT !.sent = FALSE]}
  BY <1>2, <1>4 DEF LeftBy, SessionShape
<1> DEFINE like == \E r \in again(b) : t.server = r.server /\ t.renewed = r.renewed
<1>5. ASSUME NEW r \in again(b), t = [r EXCEPT !.faults = @ + 1] PROVE like
  BY <1>3, <1>5 DEF SessionShape
<1>6. ASSUME NEW r \in again(b), t = [r EXCEPT !.faults = 2, !.sent = FALSE, !.status = "disc"] PROVE like
  <2>1. t.server = r.server /\ t.renewed = r.renewed
    BY <1>3, <1>6 DEF SessionShape
  <2> QED
    BY <2>1
<1>7. CASE like
  BY <1>3, <1>7
<1> HIDE DEF begun, like
<1>8. t \in {b, [b EXCEPT !.sent = FALSE]} \/ like
  BY <1>1, <1>5, <1>6, Zenon
<1> QED
  BY <1>4, <1>7, <1>8

(* The command c was executed by s, and o is what the client gets; or the  *)
(* answer is lost and c may have been executed or not; or c has failed.    *)
Replied(s, c, o) ==
    /\ o.status = "none"
    /\ \E e \in Rfsv!Execute(s, c) : o.server = e.server /\ o.res = e.res /\ o.data = e.data
Failed(s, c, o) == o.status = "none" /\ Rfsv!MayFail(c) /\ o.server = s /\ o.res = "general"
LostAt(s, c, o) ==
    /\ o.status = "disc" /\ o.res = "disc"
    /\ o.server = s \/ \E e \in Rfsv!Execute(s, c) : o.server = e.server

LEMMA GetResponseIs ==
    ASSUME NEW t, ServerShape(t.server), NEW c, Command(c), NEW o \in Rfsv!GetResponse(t, c)
    PROVE  /\ ServerShape(o.server) /\ o.renewed = t.renewed
           /\ Replied(t.server, c, o) \/ Failed(t.server, c, o) \/ LostAt(t.server, c, o)
<1>1. CASE \E s \in Rfsv!After(t.server, c) : o = Rfsv!Lost(t, s)
  <2>1. PICK s \in Rfsv!After(t.server, c) : o = Rfsv!Lost(t, s)
    BY <1>1
  <2>2. o.server = s /\ o.status = "disc" /\ o.res = "disc" /\ o.renewed = t.renewed
    BY <2>1 DEF Rfsv!Lost
  <2>3. ServerShape(s) /\ (s = t.server \/ \E e \in Rfsv!Execute(t.server, c) : s = e.server)
    BY AfterIs
  <2> QED
    BY <2>2, <2>3 DEF LostAt
<1>2. CASE \E e \in Rfsv!Execute(t.server, c) : o = Rfsv!Got(t, e)
  <2>1. PICK e \in Rfsv!Execute(t.server, c) : o = Rfsv!Got(t, e)
    BY <1>2
  <2>2. /\ o.server = e.server /\ o.status = "none" /\ o.res = e.res /\ o.data = e.data
        /\ o.renewed = t.renewed
    BY <2>1 DEF Rfsv!Got
  <2> QED
    BY <2>2, ExecuteShape DEF Replied
<1>3. CASE Rfsv!MayFail(c) /\ o = [Rfsv!Got(t, Rfsv!Reply(t.server, "general", Rfsv!None)) EXCEPT !.faults = @ + 1]
  <2>1. o.server = t.server /\ o.status = "none" /\ o.res = "general" /\ o.renewed = t.renewed
    BY <1>3 DEF Rfsv!Got, Rfsv!Reply
  <2> QED
    BY <1>3, <2>1 DEF Failed
<1>4. t.server \in Rfsv!After(t.server, c)
  BY DEF Rfsv!After
<1> QED
  BY <1>1, <1>2, <1>3, <1>4, Zenon DEF Rfsv!GetResponse

LEMMA OutcomeIs ==
    ASSUME ServerShape(server), NEW c, Command(c), NEW o, Outcome(c, o)
    PROVE  /\ ServerShape(o.server)
           /\ \E s : /\ ServerShape(s)
                     /\ Replied(s, c, o) \/ Failed(s, c, o) \/ LostAt(s, c, o)
                     /\ \/ s = server /\ status # "disc" /\ o.renewed = FALSE
                        \/ DOMAIN s.handles = {} /\ LeftBy(c, s) /\ o.renewed = TRUE
<1>1. PICK t \in Rfsv!SendCommand(c) : o \in Rfsv!GetResponse(t, c)
  BY DEF Outcome
<1>2. PICK s : s = t.server
  OBVIOUS
<1>3. /\ ServerShape(s)
      /\ \/ s = server /\ status # "disc" /\ t.renewed = FALSE
         \/ DOMAIN s.handles = {} /\ LeftBy(c, s) /\ t.renewed = TRUE
  BY <1>2, SendCommandIs
<1>4. /\ ServerShape(o.server) /\ o.renewed = t.renewed
      /\ Replied(s, c, o) \/ Failed(s, c, o) \/ LostAt(s, c, o)
  BY <1>1, <1>2, <1>3, GetResponseIs
<1> QED
  BY <1>3, <1>4

-----------------------------------------------------------------------------
(* The handles that are open in the session the client knows of.           *)

Live == IF status = "none" THEN DOMAIN server.handles ELSE {}

Taken(o) == server' = o.server /\ status' = o.status

LEMMA OpenLive ==
    ASSUME ServerShape(server), status \in {"none", "disc"}, NEW c, c[1] = "open",
           c[2] \in {"read", "create", "replace", "dir"}, NEW o, Outcome(c, o), Taken(o)
    PROVE  /\ ServerShape(server)' /\ status' \in {"none", "disc"}
           /\ status' = "none" => o.res # "disc"
           /\ o.res = "none" => o.data \in {1, 2} /\ Live' \subseteq Live \cup {o.data}
           /\ o.res # "none" => Live' \subseteq Live
<1>1. Command(c)
  BY DEF Command
<1>2. ServerShape(o.server)
  BY <1>1, OutcomeIs
<1>3. PICK s : /\ ServerShape(s)
               /\ Replied(s, c, o) \/ Failed(s, c, o) \/ LostAt(s, c, o)
               /\ (s = server /\ status # "disc") \/ DOMAIN s.handles = {}
  BY <1>1, OutcomeIs
<1>4. DOMAIN s.handles \subseteq Live
  BY <1>3 DEF Live
<1>5. ServerShape(server')
  BY <1>2 DEF Taken
<1>6. CASE Replied(s, c, o)
  <2>1. PICK e \in Rfsv!Execute(s, c) : o.server = e.server /\ o.res = e.res /\ o.data = e.data
    BY <1>6 DEF Replied
  <2>2. /\ e.res # "disc"
        /\ e.res = "none" => e.data \in {1, 2} /\ DOMAIN e.server.handles \subseteq DOMAIN s.handles \cup {e.data}
        /\ e.res # "none" => DOMAIN e.server.handles \subseteq DOMAIN s.handles
    BY <1>3, ExecuteOpen
  <2> QED
    BY <1>4, <1>5, <1>6, <2>1, <2>2 DEF Replied, Taken, Live, ServerShape
<1>7. CASE Failed(s, c, o)
  BY <1>4, <1>5, <1>7 DEF Failed, Taken, Live, ServerShape
<1>8. CASE LostAt(s, c, o)
  BY <1>4, <1>5, <1>8 DEF LostAt, Taken, Live, ServerShape
<1> QED
  BY <1>3, <1>6, <1>7, <1>8

LEMMA CloseLive ==
    ASSUME ServerShape(server), status \in {"none", "disc"}, NEW c, c[1] = "close",
           NEW o, Outcome(c, o), Taken(o)
    PROVE  /\ ServerShape(server)' /\ status' \in {"none", "disc"}
           /\ Live' \subseteq Live \ {c[2]}
<1>1. Command(c)
  BY DEF Command
<1>2. ServerShape(o.server)
  BY <1>1, OutcomeIs
<1>3. PICK s : /\ ServerShape(s)
               /\ Replied(s, c, o) \/ Failed(s, c, o) \/ LostAt(s, c, o)
               /\ (s = server /\ status # "disc") \/ DOMAIN s.handles = {}
  BY <1>1, OutcomeIs
<1>4. DOMAIN s.handles \subseteq Live
  BY <1>3 DEF Live
<1>5. ServerShape(server')
  BY <1>2 DEF Taken
<1>6. CASE Replied(s, c, o)
  <2>1. PICK e \in Rfsv!Execute(s, c) : o.server = e.server
    BY <1>6 DEF Replied
  <2>2. DOMAIN e.server.handles = DOMAIN s.handles \ {c[2]}
    BY <1>3, ExecuteClose
  <2> QED
    BY <1>4, <1>5, <1>6, <2>1, <2>2 DEF Replied, Taken, Live, ServerShape
<1>7. ~ Failed(s, c, o)
  BY DEF Failed, Rfsv!MayFail
<1>8. CASE LostAt(s, c, o)
  BY <1>4, <1>5, <1>8 DEF LostAt, Taken, Live, ServerShape
<1> QED
  BY <1>3, <1>6, <1>7, <1>8

LEMMA OtherLive ==
    ASSUME ServerShape(server), status \in {"none", "disc"}, NEW c, c[1] \in OnHandles \cup Others,
           NEW o, Outcome(c, o), Taken(o)
    PROVE  /\ ServerShape(server)' /\ status' \in {"none", "disc"}
           /\ status' = "none" /\ c[1] # "drive" => o.res # "disc"
           /\ Live' \subseteq Live
<1>1. Command(c)
  BY DEF Command
<1>2. ServerShape(o.server)
  BY <1>1, OutcomeIs
<1>3. PICK s : /\ ServerShape(s)
               /\ Replied(s, c, o) \/ Failed(s, c, o) \/ LostAt(s, c, o)
               /\ (s = server /\ status # "disc") \/ DOMAIN s.handles = {}
  BY <1>1, OutcomeIs
<1>4. DOMAIN s.handles \subseteq Live
  BY <1>3 DEF Live
<1>5. ServerShape(server')
  BY <1>2 DEF Taken
<1>6. CASE Replied(s, c, o)
  <2>1. PICK e \in Rfsv!Execute(s, c) : o.server = e.server /\ o.res = e.res
    BY <1>6 DEF Replied
  <2>2. DOMAIN e.server.handles = DOMAIN s.handles /\ (c[1] # "drive" => e.res # "disc")
    BY <1>3, ExecuteOnHandle, ExecuteOther DEF OnHandles
  <2> QED
    BY <1>4, <1>5, <1>6, <2>1, <2>2 DEF Replied, Taken, Live, ServerShape
<1>7. CASE Failed(s, c, o)
  BY <1>4, <1>5, <1>7 DEF Failed, Taken, Live, ServerShape
<1>8. CASE LostAt(s, c, o)
  BY <1>4, <1>5, <1>8 DEF LostAt, Taken, Live, ServerShape
<1> QED
  BY <1>3, <1>6, <1>7, <1>8

-----------------------------------------------------------------------------
(* Contents: files and buffers are sequences of blocks.                    *)

Blocks == Seq(Nat)
Part(f, i, j) == SubSeq(f, i + 1, j)        \* the blocks behind the first i, up to the j-th
UpTo(f, n) == Part(f, 0, n)

LEMMA BlocksJoin ==
    /\ \A a, b \in Blocks : a ++ b \in Blocks /\ Len(a ++ b) = Len(a) + Len(b)
    /\ \A a, b, c \in Blocks : (a ++ b) ++ c = a ++ (b ++ c)
    /\ <<>> \in Blocks /\ \A a \in Blocks : a ++ <<>> = a /\ <<>> ++ a = a
<1>1. \A a, b \in Blocks : a ++ b \in Blocks /\ Len(a ++ b) = Len(a) + Len(b)
  BY ConcatProperties DEF Blocks, ++
<1>2. \A a, b, c \in Blocks : (a ++ b) ++ c = a ++ (b ++ c)
  BY ConcatAssociative DEF Blocks, ++
<1>3. <<>> \in Blocks /\ \A a \in Blocks : a ++ <<>> = a /\ <<>> ++ a = a
  BY ConcatEmptySeq, EmptySeq DEF Blocks, ++
<1> QED
  BY <1>1, <1>2, <1>3

LEMMA BlocksLen == \A a \in Blocks : Len(a) \in Nat /\ (Len(a) = 0 => a = <<>>)
BY LenProperties, EmptySeq DEF Blocks

LEMMA PartIs ==
    ASSUME NEW f \in Blocks, NEW i \in Nat, NEW j \in Nat, i <= j, j <= Len(f)
    PROVE  /\ Part(f, i, j) \in Blocks /\ Len(Part(f, i, j)) = j - i
           /\ UpTo(f, i) \in Blocks
           /\ UpTo(f, i) ++ Part(f, i, j) = UpTo(f, j)
<1>1. Len(f) \in Nat /\ \A k \in 1 .. Len(f) : f[k] \in Nat
  BY DEF Blocks
<1>2. Part(f, i, j) \in Blocks /\ Len(Part(f, i, j)) = j - i
  <2>1. i + 1 \in Int /\ j \in Int /\ \A k \in i + 1 .. j : f[k] \in Nat
    BY <1>1
  <2>2. /\ SubSeq(f, i + 1, j) \in Seq(Nat)
        /\ Len(SubSeq(f, i + 1, j)) = IF i + 1 <= j THEN j - (i + 1) + 1 ELSE 0
    BY <2>1, SubSeqProperties
  <2> QED
    BY <2>2 DEF Part, Blocks
<1>3. UpTo(f, i) \in Blocks
  <2>1. 1 \in Int /\ i \in Int /\ \A k \in 1 .. i : f[k] \in Nat
    BY <1>1
  <2>2. SubSeq(f, 1, i) \in Seq(Nat)
    BY <2>1, SubSeqProperties
  <2> QED
    BY <2>2 DEF UpTo, Part, Blocks
<1>4. UpTo(f, i) ++ Part(f, i, j) = UpTo(f, j)
  <2>1. 1 \in 1 .. Len(f) + 1 /\ i \in 1 - 1 .. Len(f) /\ j \in i .. Len(f)
    BY <1>1
  <2>2. SubSeq(f, 1, i) \o SubSeq(f, i + 1, j) = SubSeq(f, 1, j)
    BY <2>1, ConcatAdjacentSubSeq DEF Blocks
  <2>3. 0 + 1 = 1
    OBVIOUS
  <2> QED
    BY <2>2, <2>3 DEF UpTo, Part, ++
<1> QED
  BY <1>2, <1>3, <1>4

LEMMA WholeFront ==
    ASSUME NEW f \in Blocks
    PROVE  UpTo(f, Len(f)) = f /\ UpTo(f, 0) = <<>>
<1>1. SubSeq(f, 1, Len(f)) = f
  BY SubSeqFull DEF Blocks
<1>2. SubSeq(f, 1, 0) = <<>>
  BY SubSeqEmpty
<1> QED
  BY <1>1, <1>2 DEF UpTo, Part

(* What is written at the end of a file is put behind it.                  *)
LEMMA OverwriteEnd ==
    ASSUME NEW f \in Blocks, NEW b \in Blocks
    PROVE  Rfsv!Overwrite(f, Len(f), b) = f ++ b
<1>1. Len(f) \in Nat /\ Len(b) \in Nat
  BY BlocksLen
<1>2. SubSeq(f, 1, Len(f)) = f
  BY SubSeqFull DEF Blocks
<1>3. SubSeq(f, Len(f) + Len(b) + 1, Len(f)) = <<>>
  BY <1>1, SubSeqEmpty
<1>4. (f ++ b) \o <<>> = f ++ b
  <2>1. (f ++ b) ++ <<>> = f ++ b
    BY BlocksJoin
  <2> QED
    BY <2>1 DEF ++
<1>5. Rfsv!Overwrite(f, Len(f), b) = f \o b \o <<>>
  BY <1>2, <1>3 DEF Rfsv!Overwrite
<1> QED
  BY <1>4, <1>5 DEF ++

LEMMA ResizedIs ==
    ASSUME NEW f \in Blocks, NEW n \in Nat
    PROVE  Rfsv!Resized(f, n) \in Blocks
<1>1. Len(f) \in Nat /\ \A k \in 1 .. Len(f) : f[k] \in Nat
  BY DEF Blocks
<1>2. \A k \in 1 .. n : (IF k <= Len(f) THEN f[k] ELSE 0) \in Nat
  BY <1>1
<1>3. Rfsv!Resized(f, n) \in [1 .. n -> Nat]
  BY <1>2 DEF Rfsv!Resized
<1> QED
  BY <1>3, SeqDef DEF Blocks

(* The Psion's files: the source and perhaps the target.                   *)
FileSets == [{"from"} -> Blocks] \cup [{"from", "to"} -> Blocks]

LEMMA FilesAre ==
    ASSUME NEW fs \in FileSets
    PROVE  /\ "from" \in DOMAIN fs /\ DOMAIN fs \subseteq {"from", "to"}
           /\ fs = [x \in DOMAIN fs |-> fs[x]] /\ \A x \in DOMAIN fs : fs[x] \in Blocks
BY DEF FileSets

LEMMA FilesChange ==
    ASSUME NEW fs \in FileSets, NEW f \in Blocks, NEW n
    PROVE  /\ [fs EXCEPT ![n] = f] \in FileSets
           /\ DOMAIN [fs EXCEPT ![n] = f] = DOMAIN fs
           /\ n \in DOMAIN fs => [fs EXCEPT ![n] = f][n] = f
           /\ \A m \in DOMAIN fs : m # n => [fs EXCEPT ![n] = f][m] = fs[m]
BY DEF FileSets

LEMMA FilesSame ==
    ASSUME NEW fs \in FileSets, NEW n, NEW f, n \in DOMAIN fs => f = fs[n]
    PROVE  [fs EXCEPT ![n] = f] = fs
BY DEF FileSets

LEMMA FilesSet ==
    ASSUME NEW fs \in FileSets, NEW f \in Blocks, NEW n \in {"from", "to"}
    PROVE  /\ Rfsv!Set(fs, n, f) \in FileSets /\ n \in DOMAIN Rfsv!Set(fs, n, f) /\ Rfsv!Set(fs, n, f)[n] = f
           /\ n \in DOMAIN fs /\ f = fs[n] => Rfsv!Set(fs, n, f) = fs
BY DEF FileSets, Rfsv!Set

LEMMA FilesRestrict ==
    ASSUME NEW fs \in FileSets
    PROVE  Rfsv!Restrict(fs, DOMAIN fs \ {"to"}) \in FileSets
<1>1. DOMAIN fs \ {"to"} = {"from"}
  BY DEF FileSets
<1>2. Rfsv!Restrict(fs, {"from"}) = [x \in {"from"} |-> fs[x]]
  BY DEF Rfsv!Restrict
<1> QED
  BY <1>1, <1>2 DEF FileSets

(* What a command does to the files and the handles of a server s.         *)
Named(s, h, n, p) == h \in DOMAIN s.handles /\ s.handles[h] = [name |-> n, pos |-> p]

Wrote(s, t, n, f) ==
    /\ t.files \in FileSets /\ DOMAIN t.files = DOMAIN s.files
    /\ n \in DOMAIN s.files => t.files[n] = f
    /\ \A m \in DOMAIN s.files : m # n => t.files[m] = s.files[m]

SameHandles(s, t, h) ==
    /\ DOMAIN t.handles = DOMAIN s.handles
    /\ \A x \in DOMAIN s.handles : x # h => t.handles[x] = s.handles[x]

Updated(f, g, x, v) == g = [f EXCEPT ![x] = v]
Moved(r, k, p) == k = [r EXCEPT !.pos = p]

LEMMA StoreParts ==
    ASSUME NEW s, ServerShape(s), NEW h, NEW f, NEW p, NEW t, t = Rfsv!Store(s, h, f, p)
    PROVE  /\ Updated(s.files, t.files, s.handles[h].name, f)
           /\ \E k : Moved(s.handles[h], k, p) /\ Updated(s.handles, t.handles, h, k)
<1> DEFINE fs == [s.files EXCEPT ![s.handles[h].name] = f]
           k == [s.handles[h] EXCEPT !.pos = p]
           hs == [s.handles EXCEPT ![h] = k]
           half == [s EXCEPT !.files = fs]
<1>1. half = [files |-> fs, handles |-> s.handles]
  <2> HIDE DEF fs
  <2> QED
    BY DEF ServerShape
<1>2. Rfsv!Store(s, h, f, p) = [half EXCEPT !.handles[h].pos = p]
  BY DEF Rfsv!Store
<1>3. [half EXCEPT !.handles[h].pos = p] = [files |-> fs, handles |-> hs]
  <2>1. half.handles = s.handles
    BY <1>1
  <2> HIDE DEF half, fs
  <2> QED
    BY <1>1, <2>1
<1>4. [files |-> fs, handles |-> hs].files = fs /\ [files |-> fs, handles |-> hs].handles = hs
  <2> HIDE DEF fs, hs
  <2> QED
    OBVIOUS
<1>5. t.files = fs /\ t.handles = hs
  <2> HIDE DEF half, fs, hs
  <2> QED
    BY <1>2, <1>3, <1>4
<1>6. Updated(s.files, t.files, s.handles[h].name, f)
  <2> HIDE DEF hs, half
  <2> QED
    BY <1>5, Zenon DEF Updated
<1>7. Moved(s.handles[h], k, p)
  <2> HIDE DEF fs, hs, half
  <2> QED
    BY Zenon DEF Moved
<1>8. Updated(s.handles, t.handles, h, k)
  <2> HIDE DEF fs, half, k
  <2> QED
    BY <1>5, Zenon DEF Updated
<1> HIDE DEF k, fs, hs, half
<1> QED
  BY <1>6, <1>7, <1>8

LEMMA HandleMoved ==
    ASSUME NEW s, ServerShape(s), NEW h, NEW n, NEW q, Named(s, h, n, q), NEW p, NEW t,
           \E k : Moved(s.handles[h], k, p) /\ Updated(s.handles, t.handles, h, k)
    PROVE  Named(t, h, n, p) /\ SameHandles(s, t, h)
<1>1. PICK k : Moved(s.handles[h], k, p) /\ Updated(s.handles, t.handles, h, k)
  OBVIOUS
<1>2. k = [name |-> n, pos |-> p]
  BY <1>1 DEF Moved, Named
<1> QED
  BY <1>1, <1>2 DEF Updated, Named, ServerShape, SameHandles

LEMMA StoreIs ==
    ASSUME NEW s, ServerShape(s), s.files \in FileSets, NEW h, NEW n, NEW q, Named(s, h, n, q),
           NEW f \in Blocks, NEW p, NEW t, t = Rfsv!Store(s, h, f, p)
    PROVE  Wrote(s, t, n, f) /\ Named(t, h, n, p) /\ SameHandles(s, t, h)
<1>1. s.handles[h].name = n
  BY DEF Named
<1>2. Updated(s.files, t.files, n, f)
  BY <1>1, StoreParts
<1>3. Named(t, h, n, p) /\ SameHandles(s, t, h)
  BY StoreParts, HandleMoved
<1>4. Wrote(s, t, n, f)
  BY <1>2 DEF Updated, Wrote, FileSets
<1> QED
  BY <1>3, <1>4

LEMMA MovedIs ==
    ASSUME NEW s, ServerShape(s), NEW h, NEW n, NEW q, Named(s, h, n, q),
           NEW p, NEW t, t = Rfsv!MovedTo(s, h, p)
    PROVE  ServerShape(t) /\ t.files = s.files /\ Named(t, h, n, p) /\ SameHandles(s, t, h)
<1>1. PICK hs, k : k = [s.handles[h] EXCEPT !.pos = p] /\ hs = [s.handles EXCEPT ![h] = k]
  OBVIOUS
<1>2. t.handles = hs
  BY <1>1 DEF Rfsv!MovedTo, ServerShape
<1>3. Moved(s.handles[h], k, p) /\ Updated(s.handles, t.handles, h, k)
  BY <1>1, <1>2 DEF Updated, Moved
<1>4. ServerShape(t) /\ t.files = s.files
  BY PosKeeps
<1> QED
  BY <1>3, <1>4, HandleMoved

LEMMA StoreFiles ==
    ASSUME NEW s, ServerShape(s), s.files \in FileSets, NEW h, NEW f \in Blocks, NEW p,
           NEW t, t = Rfsv!Store(s, h, f, p)
    PROVE  /\ t.files \in FileSets
           /\ (s.handles[h].name \in DOMAIN s.files => f = s.files[s.handles[h].name]) => t.files = s.files
<1>1. PICK n : n = s.handles[h].name
  OBVIOUS
<1>2. Updated(s.files, t.files, n, f)
  BY <1>1, StoreParts
<1>3. t.files \in FileSets /\ ((n \in DOMAIN s.files => f = s.files[n]) => t.files = s.files)
  BY <1>2 DEF Updated, FileSets
<1> QED
  BY <1>1, <1>3

(* The file of a handle, or nothing.                                       *)
FileOf(s, h) == IF Rfsv!Has(s, s.handles[h].name) THEN s.files[s.handles[h].name] ELSE <<>>

LEMMA FileOfIs ==
    ASSUME NEW s, s.files \in FileSets, NEW h
    PROVE  /\ FileOf(s, h) \in Blocks
           /\ s.handles[h].name \in DOMAIN s.files => FileOf(s, h) = s.files[s.handles[h].name]
BY FilesAre, BlocksJoin DEF FileOf, Rfsv!Has

LEMMA OpenedAs ==
    ASSUME NEW s, ServerShape(s), s.files \in FileSets, NEW n \in {"from", "to"}, NEW f \in Blocks,
           NEW e \in Rfsv!Opened(s, n, f)
    PROVE  /\ e.server.files \in FileSets /\ n \in DOMAIN e.server.files /\ e.server.files[n] = f
           /\ n \in DOMAIN s.files /\ f = s.files[n] => e.server.files = s.files
           /\ e.res = "none" /\ e.data \in {1, 2} \ DOMAIN s.handles /\ Named(e.server, e.data, n, 0)
           /\ DOMAIN e.server.handles = DOMAIN s.handles \cup {e.data}
           /\ \A x \in DOMAIN s.handles : e.server.handles[x] = s.handles[x]
<1>1. PICK h \in {1, 2} \ DOMAIN s.handles :
         e = [server |-> [files |-> Rfsv!Set(s.files, n, f),
                          handles |-> Rfsv!Set(s.handles, h, [name |-> n, pos |-> 0])],
              res |-> "none", data |-> h]
  BY DEF Rfsv!Opened, Rfsv!Reply, Rfsv!Handles
<1>2. PICK g, fs, k : k = [name |-> n, pos |-> 0] /\ g = Rfsv!Set(s.handles, h, k) /\ fs = Rfsv!Set(s.files, n, f)
  OBVIOUS
<1>3. e.server.files = fs /\ e.server.handles = g /\ e.res = "none" /\ e.data = h
  BY <1>1, <1>2
<1>4. fs \in FileSets /\ n \in DOMAIN fs /\ fs[n] = f /\ (n \in DOMAIN s.files /\ f = s.files[n] => fs = s.files)
  BY <1>2, FilesSet
<1>5. DOMAIN g = DOMAIN s.handles \cup {h} /\ g[h] = k /\ \A x \in DOMAIN s.handles : x # h => g[x] = s.handles[x]
  BY <1>2 DEF Rfsv!Set
<1> QED
  BY <1>2, <1>3, <1>4, <1>5 DEF Named

(* Commands that leave the files as they are.                              *)
Quiet(c) ==
    \/ c[1] \in {"close", "read", "seek", "readdir", "attr", "drive", "devlist", "parse"}
    \/ c[1] = "open" /\ (c[2] = "dir" \/ (c[2] = "read" /\ c[3] = "from"))

LEMMA QuietFiles ==
    ASSUME NEW s, ServerShape(s), s.files \in FileSets, NEW c, Quiet(c), NEW e \in Rfsv!Execute(s, c)
    PROVE  e.server.files = s.files
<1>1. CASE c[1] = "open" /\ c[2] = "dir"
  <2>1. PICK h \in {1, 2} \ DOMAIN s.handles :
             e = [server |-> [s EXCEPT !.handles = Rfsv!Set(@, h, [name |-> c[3], pos |-> 0])],
                  res |-> "none", data |-> h]
    BY <1>1 DEF Rfsv!Execute, Rfsv!Reply, Rfsv!Handles
  <2>2. PICK g : g = Rfsv!Set(s.handles, h, [name |-> c[3], pos |-> 0])
    OBVIOUS
  <2>3. e.server = [s EXCEPT !.handles = g]
    BY <2>1, <2>2
  <2> QED
    BY <2>3 DEF ServerShape
<1>2. CASE c[1] = "open" /\ c[2] = "read" /\ c[3] = "from"
  <2>1. "from" \in DOMAIN s.files /\ s.files["from"] \in Blocks
    BY FilesAre
  <2>2. e \in Rfsv!Opened(s, "from", s.files["from"])
    BY <1>2, <2>1 DEF Rfsv!Execute, Rfsv!Has
  <2> QED
    BY <2>1, <2>2, OpenedAs
<1>3. CASE c[1] \in {"attr", "drive", "devlist", "parse"}
  BY <1>3 DEF Rfsv!Execute, Rfsv!Reply
<1>4. CASE c[1] = "close"
  BY <1>4 DEF Rfsv!Execute, Rfsv!OnHandle, Rfsv!Reply, ServerShape
<1>5. CASE c[1] \in {"read", "seek", "readdir"}
  <2>1. CASE c[2] \notin DOMAIN s.handles
    BY <1>5, <2>1 DEF Rfsv!Execute, Rfsv!Reply
  <2>2. CASE c[2] \in DOMAIN s.handles
    <3>1. PICK h : h = c[2] /\ e \in Rfsv!OnHandle(s, h, c)
      BY <1>5, <2>2 DEF Rfsv!Execute
    <3>2. CASE c[1] = "readdir"
      <4>1. \/ e = Rfsv!Reply(s, "eof", Rfsv!None)
            \/ \E p, d : e = Rfsv!Reply(Rfsv!MovedTo(s, h, p), "none", d)
        BY <3>1, <3>2 DEF Rfsv!OnHandle
      <4> QED
        BY <4>1, PosKeeps DEF Rfsv!Reply
    <3>3. CASE c[1] \in {"read", "seek"}
      <4>1. e.server = s \/ \E p : e.server = Rfsv!Store(s, h, FileOf(s, h), p)
        <5>1. CASE c[1] = "read"
          BY <3>1, <5>1 DEF Rfsv!OnHandle, Rfsv!Reply, FileOf
        <5>2. CASE c[1] = "seek"
          BY <3>1, <5>2 DEF Rfsv!OnHandle, Rfsv!Reply, FileOf
        <5> QED
          BY <3>3, <5>1, <5>2
      <4>2. ASSUME NEW p, e.server = Rfsv!Store(s, h, FileOf(s, h), p) PROVE e.server.files = s.files
        <5>1. PICK f \in Blocks : f = FileOf(s, h)
          BY FileOfIs
        <5>2. s.handles[h].name \in DOMAIN s.files => f = s.files[s.handles[h].name]
          BY <5>1, FileOfIs
        <5>3. PICK t : t = e.server /\ t = Rfsv!Store(s, h, f, p)
          BY <4>2, <5>1
        <5> QED
          BY <5>2, <5>3, StoreFiles
      <4> QED
        BY <4>1, <4>2
    <3> QED
      BY <1>5, <3>2, <3>3
  <2> QED
    BY <2>1, <2>2
<1> QED
  BY <1>1, <1>2, <1>3, <1>4, <1>5 DEF Quiet

(* Commands that leave sequences, wherever they are executed.              *)
Reached(s) == (s = server /\ status # "disc") \/ DOMAIN s.handles = {}
Sound(c) ==
    \A s : ServerShape(s) /\ s.files \in FileSets /\ Reached(s)
             => \A e \in Rfsv!Execute(s, c) : e.server.files \in FileSets

LEMMA LeftFiles ==
    ASSUME ServerShape(server), server.files \in FileSets, NEW c, Sound(c), NEW s, LeftBy(c, s)
    PROVE  s.files \in FileSets
BY DEF LeftBy, Sound, Reached

LEMMA OutcomeFiles ==
    ASSUME ServerShape(server), server.files \in FileSets, NEW c, Command(c), Sound(c), NEW o, Outcome(c, o)
    PROVE  o.server.files \in FileSets
<1>1. PICK s : /\ ServerShape(s)
               /\ Replied(s, c, o) \/ Failed(s, c, o) \/ LostAt(s, c, o)
               /\ (s = server /\ status # "disc") \/ (DOMAIN s.handles = {} /\ LeftBy(c, s))
  BY OutcomeIs
<1>2. s.files \in FileSets /\ Reached(s)
  BY <1>1, LeftFiles DEF Reached
<1>3. \A e \in Rfsv!Execute(s, c) : e.server.files \in FileSets
  BY <1>1, <1>2 DEF Sound
<1> QED
  BY <1>1, <1>2, <1>3 DEF Replied, Failed, LostAt

LEMMA OutcomeQuiet ==
    ASSUME ServerShape(server), server.files \in FileSets, NEW c, Command(c), Quiet(c), NEW o, Outcome(c, o)
    PROVE  o.server.files = server.files
<1>1. PICK s : /\ ServerShape(s)
               /\ Replied(s, c, o) \/ Failed(s, c, o) \/ LostAt(s, c, o)
               /\ s = server \/ LeftBy(c, s)
  BY OutcomeIs
<1>2. s.files = server.files
  BY <1>1, QuietFiles DEF LeftBy
<1>3. \A e \in Rfsv!Execute(s, c) : e.server.files = server.files
  BY <1>1, <1>2, QuietFiles
<1> QED
  BY <1>1, <1>2, <1>3 DEF Replied, Failed, LostAt

(* What is written to the other file.                                      *)
LEMMA OpensSound ==
    ASSUME NEW c, c[1] = "open", c[2] \in {"create", "replace"}, c[3] = "to"
    PROVE  Sound(c)
<1> SUFFICES ASSUME NEW s, ServerShape(s), s.files \in FileSets, NEW e \in Rfsv!Execute(s, c)
             PROVE  e.server.files \in FileSets
  BY DEF Sound
<1>1. e \in Rfsv!Opened(s, "to", <<>>) \/ e.server = s
  BY DEF Rfsv!Execute, Rfsv!Reply
<1> QED
  BY <1>1, OpenedAs, BlocksJoin

LEMMA DeleteSound ==
    ASSUME NEW c, c[1] = "delete", c[2] = "to"
    PROVE  Sound(c)
<1> SUFFICES ASSUME NEW s, ServerShape(s), s.files \in FileSets, NEW e \in Rfsv!Execute(s, c)
             PROVE  e.server.files \in FileSets
  BY DEF Sound
<1>1. PICK fs : fs = Rfsv!Restrict(s.files, DOMAIN s.files \ {"to"})
  OBVIOUS
<1>2. e.server = s \/ e.server.files = fs
  BY <1>1 DEF Rfsv!Execute, Rfsv!Reply, ServerShape
<1> QED
  BY <1>1, <1>2, FilesRestrict

LEMMA SetsizeSound ==
    ASSUME NEW c, c[1] = "setsize", c[3] \in Nat
    PROVE  Sound(c)
<1> SUFFICES ASSUME NEW s, ServerShape(s), s.files \in FileSets, NEW e \in Rfsv!Execute(s, c)
             PROVE  e.server.files \in FileSets
  BY DEF Sound
<1>1. e.server = s \/ \E h, p : e.server = Rfsv!Store(s, h, Rfsv!Resized(FileOf(s, h), c[3]), p)
  BY DEF Rfsv!Execute, Rfsv!OnHandle, Rfsv!Reply, FileOf
<1>2. ASSUME NEW h, NEW p, e.server = Rfsv!Store(s, h, Rfsv!Resized(FileOf(s, h), c[3]), p)
      PROVE  e.server.files \in FileSets
  <2>1. PICK f \in Blocks : f = Rfsv!Resized(FileOf(s, h), c[3])
    BY FileOfIs, ResizedIs
  <2>2. PICK t : t = Rfsv!Store(s, h, f, p)
    OBVIOUS
  <2>3. t.files \in FileSets
    BY <2>2, StoreFiles
  <2> QED
    BY <1>2, <2>1, <2>2, <2>3
<1> QED
  BY <1>1, <1>2

(* What a command has done when the client is told that it has.            *)
LEMMA HandleOutcome ==
    ASSUME ServerShape(server), status \in {"none", "disc"}, NEW c, c[1] \in OnHandles, NEW o, Outcome(c, o),
           o.res \notin {"disc", "general", "handle"}
    PROVE  /\ c[2] \in DOMAIN server.handles /\ status = "none" /\ o.status = "none" /\ o.renewed = FALSE
           /\ \E e \in Rfsv!OnHandle(server, c[2], c) : o.server = e.server /\ o.res = e.res /\ o.data = e.data
<1>1. Command(c)
  BY DEF Command
<1>2. PICK s : /\ ServerShape(s)
               /\ Replied(s, c, o) \/ Failed(s, c, o) \/ LostAt(s, c, o)
               /\ (s = server /\ status # "disc" /\ o.renewed = FALSE) \/ DOMAIN s.handles = {}
  BY <1>1, OutcomeIs
<1>3. Replied(s, c, o)
  BY <1>2 DEF Failed, LostAt
<1>4. PICK e \in Rfsv!Execute(s, c) : o.server = e.server /\ o.res = e.res /\ o.data = e.data
  BY <1>3 DEF Replied
<1>5. c[2] \in DOMAIN s.handles /\ e \in Rfsv!OnHandle(s, c[2], c)
  <2>1. CASE c[2] \notin DOMAIN s.handles
    <3>1. e = Rfsv!Reply(s, "handle", Rfsv!None)
      BY <2>1 DEF Rfsv!Execute, OnHandles
    <3> QED
      BY <1>4, <3>1 DEF Rfsv!Reply
  <2>2. CASE c[2] \in DOMAIN s.handles
    BY <2>2 DEF Rfsv!Execute, OnHandles
  <2> QED
    BY <2>1, <2>2
<1> QED
  BY <1>2, <1>3, <1>4, <1>5 DEF Replied

(* Either the session has lasted, or it is new and has no handle but one   *)
(* that was just opened.                                                   *)
LEMMA OpenOutcome ==
    ASSUME ServerShape(server), server.files \in FileSets, status \in {"none", "disc"},
           NEW c, c[1] = "open", NEW o, Outcome(c, o),
           \/ c[2] = "read" /\ c[3] = "from"
           \/ c[2] \in {"create", "replace"} /\ c[3] = "to"
    PROVE  \E s : /\ ServerShape(s) /\ s.files \in FileSets
                  /\ \/ s = server /\ status = "none" /\ o.renewed = FALSE
                     \/ DOMAIN s.handles = {} /\ o.renewed = TRUE
                  /\ o.res # "none" => o.status = "disc" \/ o.server = s
                  /\ o.res = "none" =>
                       /\ o.status = "none" /\ o.data \in {1, 2} \ DOMAIN s.handles
                       /\ Named(o.server, o.data, c[3], 0)
                       /\ DOMAIN o.server.handles = DOMAIN s.handles \cup {o.data}
                       /\ \A x \in DOMAIN s.handles : o.server.handles[x] = s.handles[x]
                       /\ c[3] \in DOMAIN o.server.files
                       /\ c[3] = "to" => o.server.files[c[3]] = <<>>
<1>1. Command(c) /\ Sound(c)
  <2>1. c[2] \in {"create", "replace"} => Sound(c)
    BY OpensSound
  <2>2. c[2] = "read" => Quiet(c)
    BY DEF Quiet
  <2>3. c[2] = "read" => Sound(c)
    BY <2>2, QuietFiles DEF Sound
  <2> QED
    BY <2>1, <2>3 DEF Command
<1>2. PICK s : /\ ServerShape(s)
               /\ Replied(s, c, o) \/ Failed(s, c, o) \/ LostAt(s, c, o)
               /\ \/ s = server /\ status # "disc" /\ o.renewed = FALSE
                  \/ DOMAIN s.handles = {} /\ LeftBy(c, s) /\ o.renewed = TRUE
  BY <1>1, OutcomeIs
<1>3. s.files \in FileSets
  BY <1>1, <1>2, LeftFiles
<1>4. CASE Failed(s, c, o) \/ LostAt(s, c, o)
  BY <1>2, <1>3, <1>4 DEF Failed, LostAt
<1>5. CASE Replied(s, c, o)
  <2>1. PICK e \in Rfsv!Execute(s, c) : o.server = e.server /\ o.res = e.res /\ o.data = e.data /\ o.status = "none"
    BY <1>5 DEF Replied
  <2>2. \/ e.server = s /\ e.res # "none"
        \/ \E f \in Blocks : e \in Rfsv!Opened(s, c[3], f) /\ (c[3] = "to" => f = <<>>)
    <3>1. "from" \in DOMAIN s.files /\ s.files["from"] \in Blocks /\ <<>> \in Blocks
      BY <1>3, FilesAre, BlocksJoin
    <3>2. CASE c[2] = "read"
      BY <3>1, <3>2 DEF Rfsv!Execute, Rfsv!Has
    <3>3. CASE c[2] = "create"
      <4>1. e \in Rfsv!Opened(s, c[3], <<>>) \/ e = Rfsv!Reply(s, "exist", Rfsv!None)
        BY <3>3 DEF Rfsv!Execute
      <4> QED
        BY <3>1, <4>1 DEF Rfsv!Reply
    <3>4. CASE c[2] = "replace"
      <4>1. e \in Rfsv!Opened(s, c[3], <<>>)
        BY <3>4 DEF Rfsv!Execute
      <4> QED
        BY <3>1, <4>1
    <3> QED
      BY <3>2, <3>3, <3>4
  <2>3. CASE e.server = s /\ e.res # "none"
    BY <1>2, <1>3, <2>1, <2>3
  <2>4. CASE \E f \in Blocks : e \in Rfsv!Opened(s, c[3], f) /\ (c[3] = "to" => f = <<>>)
    <3>1. PICK f \in Blocks : e \in Rfsv!Opened(s, c[3], f) /\ (c[3] = "to" => f = <<>>)
      BY <2>4
    <3>2. PICK n \in {"from", "to"} : n = c[3]
      OBVIOUS
    <3>3. /\ n \in DOMAIN e.server.files /\ e.server.files[n] = f
          /\ e.res = "none" /\ e.data \in {1, 2} \ DOMAIN s.handles /\ Named(e.server, e.data, n, 0)
          /\ DOMAIN e.server.handles = DOMAIN s.handles \cup {e.data}
          /\ \A x \in DOMAIN s.handles : e.server.handles[x] = s.handles[x]
      BY <1>2, <1>3, <3>1, <3>2, OpenedAs
    <3> QED
      BY <1>2, <1>3, <2>1, <3>1, <3>2, <3>3
  <2> QED
    BY <2>2, <2>3, <2>4
<1> QED
  BY <1>2, <1>4, <1>5

(* What the commands of a copy do to the file of the handle.               *)
LEMMA ReadIs ==
    ASSUME NEW s, ServerShape(s), s.files \in FileSets, NEW n \in {"from", "to"}, n \in DOMAIN s.files,
           NEW h, NEW p \in Nat, Named(s, h, n, p), NEW c, c[1] = "read", c[3] \in Int,
           NEW e \in Rfsv!OnHandle(s, h, c)
    PROVE  LET f == s.files[n]
           IN  \/ /\ p = Len(f) /\ e.server = s
                  /\ e.res \in {"none", "eof"} /\ (e.res = "none" => e.data = <<>>)
               \/ \E z \in Nat :
                    /\ p < z /\ z <= Len(f) /\ e.res = "none" /\ e.data = Part(f, p, z)
                    /\ Wrote(s, e.server, n, f) /\ Named(e.server, h, n, z) /\ SameHandles(s, e.server, h)
<1>1. PICK f \in Blocks : f = s.files[n]
  BY FilesAre
<1>2. s.handles[h].name = n /\ s.handles[h].pos = p
  BY DEF Named
<1>3. Len(f) \in Nat
  BY <1>1, BlocksLen
<1>4. \/ p = Len(f) /\ e \in {Rfsv!Reply(s, IF proto = "16" THEN "eof" ELSE "none", <<>>)}
      \/ \E z \in p + 1 .. Rfsv!Clamp(p + c[3], Len(f)) :
           e = Rfsv!Reply(Rfsv!Store(s, h, f, z), "none", SubSeq(f, p + 1, z))
  BY <1>1, <1>2 DEF Rfsv!OnHandle, Rfsv!Has
<1>5. CASE p = Len(f) /\ e \in {Rfsv!Reply(s, IF proto = "16" THEN "eof" ELSE "none", <<>>)}
  BY <1>1, <1>5 DEF Rfsv!Reply
<1>6. ASSUME NEW z \in p + 1 .. Rfsv!Clamp(p + c[3], Len(f)),
             e = Rfsv!Reply(Rfsv!Store(s, h, f, z), "none", SubSeq(f, p + 1, z))
      PROVE  /\ z \in Nat /\ p < z /\ z <= Len(f) /\ e.res = "none" /\ e.data = Part(f, p, z)
             /\ Wrote(s, e.server, n, f) /\ Named(e.server, h, n, z) /\ SameHandles(s, e.server, h)
  <2>1. z \in Nat /\ p < z /\ z <= Len(f)
    BY <1>3, <1>6 DEF Rfsv!Clamp
  <2>2. PICK t : t = Rfsv!Store(s, h, f, z)
    OBVIOUS
  <2>3. e.server = t /\ e.res = "none" /\ e.data = Part(f, p, z)
    BY <1>6, <2>2 DEF Rfsv!Reply, Part
  <2>4. Wrote(s, t, n, f) /\ Named(t, h, n, z) /\ SameHandles(s, t, h)
    BY <2>2, StoreIs
  <2> QED
    BY <2>1, <2>3, <2>4
<1> QED
  BY <1>1, <1>4, <1>5, <1>6

LEMMA WriteIs ==
    ASSUME NEW s, ServerShape(s), s.files \in FileSets, NEW n \in {"from", "to"}, n \in DOMAIN s.files,
           NEW h, Named(s, h, n, Len(s.files[n])), NEW c, c[1] = "write", c[3] \in Blocks,
           NEW e \in Rfsv!OnHandle(s, h, c)
    PROVE  LET f == s.files[n] ++ c[3]
           IN  /\ f \in Blocks /\ e.res = "none"
               /\ Wrote(s, e.server, n, f) /\ Named(e.server, h, n, Len(f)) /\ SameHandles(s, e.server, h)
<1>1. PICK f \in Blocks, b \in Blocks : f = s.files[n] /\ b = c[3]
  BY FilesAre
<1>2. s.handles[h].name = n /\ s.handles[h].pos = Len(f)
  BY <1>1 DEF Named
<1>3. PICK g \in Blocks : g = f ++ b /\ Len(g) = Len(f) + Len(b) /\ Rfsv!Overwrite(f, Len(f), b) = g
  BY BlocksJoin, OverwriteEnd
<1>4. e = Rfsv!Reply(Rfsv!Store(s, h, g, Len(g)), "none", Rfsv!None)
  BY <1>1, <1>2, <1>3 DEF Rfsv!OnHandle, Rfsv!Has
<1>5. PICK t : t = Rfsv!Store(s, h, g, Len(g))
  OBVIOUS
<1>6. e.server = t /\ e.res = "none"
  BY <1>4, <1>5 DEF Rfsv!Reply
<1>7. Wrote(s, t, n, g) /\ Named(t, h, n, Len(g)) /\ SameHandles(s, t, h)
  BY <1>5, StoreIs
<1> QED
  BY <1>1, <1>3, <1>6, <1>7

(* From h, which is of n and at p, to the end of "to", with t.             *)
Spliced(s, s2, n, p, h, t, z) ==
    LET f == s.files["to"] ++ Part(s.files[n], p, z)
    IN  /\ z <= Len(s.files[n]) /\ f \in Blocks
        /\ Wrote(s, s2, "to", f) /\ Named(s2, t, "to", Len(f))
        /\ DOMAIN s2.handles = DOMAIN s.handles
        /\ h # t => Named(s2, h, n, z)

LEMMA ReadWriteIs ==
    ASSUME NEW s, ServerShape(s), s.files \in FileSets, NEW n \in {"from", "to"}, n \in DOMAIN s.files,
           NEW h, NEW p \in Nat, p <= Len(s.files[n]), Named(s, h, n, p),
           NEW t, "to" \in DOMAIN s.files, Named(s, t, "to", Len(s.files["to"])),
           NEW c, c[1] = "readwrite", c[3] \in Nat, c[4] = t, NEW e \in Rfsv!OnHandle(s, h, c)
    PROVE  \E z \in Nat : p <= z /\ (e.data = c[3] \/ z = Len(s.files[n])) /\ Spliced(s, e.server, n, p, h, t, z)
<1>1. PICK f \in Blocks, b \in Blocks : f = s.files[n] /\ b = s.files["to"]
  BY FilesAre
<1>2. s.handles[h].name = n /\ s.handles[h].pos = p /\ s.handles[t] = [name |-> "to", pos |-> Len(b)]
  BY <1>1 DEF Named
<1>3. Len(f) \in Nat /\ Len(b) \in Nat
  BY BlocksLen
<1>4. PICK z \in Nat : z = Rfsv!Clamp(p + c[3], Len(f)) /\ p <= z /\ z <= Len(f) /\ (z = p + c[3] \/ z = Len(f))
  <2>1. p + c[3] \in Nat /\ p <= p + c[3] /\ p <= Len(f)
    BY <1>1
  <2>2. Rfsv!Clamp(p + c[3], Len(f)) \in {p + c[3], Len(f)} /\ Rfsv!Clamp(p + c[3], Len(f)) <= Len(f)
    BY <1>3, <2>1 DEF Rfsv!Clamp
  <2> QED
    BY <1>3, <2>1, <2>2
<1>5. PICK m \in Blocks : m = Part(f, p, z) /\ Len(m) = z - p
  BY <1>4, PartIs
<1>6. PICK g \in Blocks : g = b ++ m /\ Len(g) = Len(b) + Len(m) /\ Rfsv!Overwrite(b, Len(b), m) = g
  BY BlocksJoin, OverwriteEnd
<1>7. PICK u : u = Rfsv!MovedTo(s, h, z)
  OBVIOUS
<1>8. PICK v : v = Rfsv!Store(u, t, g, Len(g))
  OBVIOUS
<1>9. e = Rfsv!Reply(v, "none", Len(m))
  <2>1. c[4] \in DOMAIN s.handles /\ c[4] = t
    BY DEF Named
  <2>2. SubSeq(f, p + 1, z) = m
    BY <1>5 DEF Part
  <2>3. f = IF Rfsv!Has(s, s.handles[h].name) THEN s.files[s.handles[h].name] ELSE <<>>
    BY <1>1, <1>2 DEF Rfsv!Has
  <2>4. PICK k : k = s.handles[t] /\ k.pos = Len(b) /\ s.files[k.name] = b
    BY <1>1, <1>2
  <2>5. e = Rfsv!Reply(Rfsv!Store(Rfsv!MovedTo(s, h, z), t, Rfsv!Overwrite(s.files[k.name], k.pos, m),
                                  k.pos + Len(m)), "none", Len(m))
    BY <1>2, <1>4, <2>1, <2>2, <2>3, <2>4 DEF Rfsv!OnHandle
  <2> QED
    BY <1>6, <1>7, <1>8, <2>4, <2>5
<1>10. ServerShape(u) /\ u.files = s.files /\ Named(u, h, n, z) /\ SameHandles(s, u, h)
  BY <1>7, MovedIs
<1>11. PICK q, k : Named(u, t, k, q) /\ k = "to"
  <2>1. CASE h = t
    <3>1. n = "to"
      BY <1>2, <2>1
    <3>2. Named(u, t, n, z)
      BY <1>10, <2>1
    <3> QED
      BY <3>1, <3>2
  <2>2. CASE h # t
    BY <1>10, <2>2 DEF Named, SameHandles
  <2> QED
    BY <2>1, <2>2
<1>12. Wrote(u, v, k, g) /\ Named(v, t, k, Len(g)) /\ SameHandles(u, v, t)
  BY <1>8, <1>10, <1>11, StoreIs
<1>13. Wrote(s, v, "to", g) /\ Named(v, t, "to", Len(g)) /\ DOMAIN v.handles = DOMAIN s.handles
  BY <1>10, <1>11, <1>12 DEF Wrote, SameHandles
<1>14. h # t => Named(v, h, n, z)
  BY <1>10, <1>12 DEF Named, SameHandles
<1>15. e.server = v /\ e.data = z - p
  BY <1>5, <1>9 DEF Rfsv!Reply
<1> QED
  BY <1>1, <1>4, <1>5, <1>6, <1>13, <1>14, <1>15 DEF Spliced

LEMMA WriteSound ==
    ASSUME ServerShape(server), server.files \in FileSets, "to" \in DOMAIN server.files,
           NEW c, c[1] = "write", c[3] \in Blocks, Named(server, c[2], "to", Len(server.files["to"]))
    PROVE  Sound(c)
<1> SUFFICES ASSUME NEW s, ServerShape(s), s.files \in FileSets, Reached(s), NEW e \in Rfsv!Execute(s, c)
             PROVE  e.server.files \in FileSets
  BY DEF Sound
<1>1. CASE DOMAIN s.handles = {}
  BY <1>1 DEF Rfsv!Execute, Rfsv!Reply
<1>2. CASE s = server
  <2>1. PICK h : h = c[2] /\ e \in Rfsv!OnHandle(server, h, c) /\ Named(server, h, "to", Len(server.files["to"]))
    BY <1>2 DEF Rfsv!Execute, Named
  <2>2. \E f : Wrote(server, e.server, "to", f)
    BY <2>1, WriteIs
  <2> QED
    BY <2>2 DEF Wrote
<1> QED
  BY <1>1, <1>2 DEF Reached

LEMMA ReadWriteSound ==
    ASSUME ServerShape(server), server.files \in FileSets, "to" \in DOMAIN server.files,
           NEW c, c[1] = "readwrite", c[3] \in Nat, Named(server, c[4], "to", Len(server.files["to"])),
           c[2] \in DOMAIN server.handles /\ c[2] # c[4]
             => \E p \in Nat : p <= Len(server.files["from"]) /\ Named(server, c[2], "from", p)
    PROVE  Sound(c)
<1> SUFFICES ASSUME NEW s, ServerShape(s), s.files \in FileSets, Reached(s), NEW e \in Rfsv!Execute(s, c)
             PROVE  e.server.files \in FileSets
  BY DEF Sound
<1>1. CASE c[2] \notin DOMAIN s.handles
  BY <1>1 DEF Rfsv!Execute, Rfsv!Reply
<1>2. CASE s = server /\ c[2] \in DOMAIN server.handles
  <2>1. PICK h, t : /\ h = c[2] /\ t = c[4] /\ e \in Rfsv!OnHandle(server, h, c)
                  /\ Named(server, t, "to", Len(server.files["to"]))
    BY <1>2 DEF Rfsv!Execute
  <2>2. PICK n \in {"from", "to"}, p \in Nat :
           /\ n \in DOMAIN server.files /\ p <= Len(server.files[n]) /\ Named(server, h, n, p)
    <3>1. Len(server.files["to"]) \in Nat
      BY FilesAre, BlocksLen
    <3> QED
      BY <1>2, <2>1, <3>1, FilesAre
  <2>3. \E z \in Nat : Spliced(server, e.server, n, p, h, t, z)
    BY <2>1, <2>2, ReadWriteIs
  <2> QED
    BY <2>3 DEF Spliced, Wrote
<1> QED
  BY <1>1, <1>2 DEF Reached

(* Handles with positions that are numbers: what fseek needs.              *)
Positioned(s) == \A x \in DOMAIN s.handles : \E n : \E p \in Int : Named(s, x, n, p)

LEMMA SeekIs ==
    ASSUME NEW s, ServerShape(s), s.files \in FileSets, Positioned(s), NEW h \in DOMAIN s.handles,
           NEW c, \/ c[1] = "seek" /\ c[3] \in Int
                  \/ c[1] = "setsize" /\ c[3] \in Nat,
           NEW e \in Rfsv!OnHandle(s, h, c)
    PROVE  Positioned(e.server) /\ (c[1] = "seek" /\ e.res = "none" => e.data \in Nat)
<1>0. PICK n : \E p \in Int : Named(s, h, n, p)
  BY DEF Positioned
<1>1. PICK p \in Int : Named(s, h, n, p)
  BY <1>0
<1>2. PICK f \in Blocks : f = FileOf(s, h)
  BY FileOfIs
<1>3. Len(f) \in Nat
  BY BlocksLen
<1>4. p = s.handles[h].pos
  BY <1>1 DEF Named
<1>5. ASSUME NEW g \in Blocks, NEW q \in Int, e.server = Rfsv!Store(s, h, g, q) PROVE Positioned(e.server)
  <2>1. PICK t : t = Rfsv!Store(s, h, g, q)
    OBVIOUS
  <2>2. Named(t, h, n, q) /\ SameHandles(s, t, h)
    BY <1>1, <2>1, StoreIs
  <2>3. ASSUME NEW x \in DOMAIN t.handles PROVE \E m : \E r \in Int : Named(t, x, m, r)
    <3>1. x # h => x \in DOMAIN s.handles /\ t.handles[x] = s.handles[x]
      BY <2>2, <2>3 DEF SameHandles
    <3>2. x \in DOMAIN s.handles => \E m : \E r \in Int : Named(s, x, m, r)
      BY DEF Positioned
    <3> QED
      BY <2>2, <2>3, <3>1, <3>2 DEF Named
  <2>4. Positioned(t)
    BY <2>3 DEF Positioned
  <2> QED
    BY <1>5, <2>1, <2>4
<1>6. CASE c[1] = "seek"
  <2>1. PICK q : q = Rfsv!SeekTo(f, p, c[3], c[4])
    OBVIOUS
  <2>2. q \in Int
    BY <1>3, <1>6, <2>1 DEF Rfsv!SeekTo
  <2>3. \/ q < 0 /\ e = Rfsv!Reply(s, "arg", Rfsv!None)
        \/ q >= 0 /\ e = Rfsv!Reply(Rfsv!Store(s, h, f, Rfsv!Clamp(q, Len(f))), "none", Rfsv!Clamp(q, Len(f)))
    BY <1>2, <1>4, <1>6, <2>1, <2>2 DEF Rfsv!OnHandle, FileOf
  <2>4. q >= 0 => Rfsv!Clamp(q, Len(f)) \in Nat
    BY <1>3, <2>2 DEF Rfsv!Clamp
  <2>5. CASE q < 0 /\ e = Rfsv!Reply(s, "arg", Rfsv!None)
    BY <2>5 DEF Rfsv!Reply
  <2>6. CASE q >= 0 /\ e = Rfsv!Reply(Rfsv!Store(s, h, f, Rfsv!Clamp(q, Len(f))), "none", Rfsv!Clamp(q, Len(f)))
    <3>1. PICK r \in Nat : r = Rfsv!Clamp(q, Len(f))
      BY <2>4, <2>6
    <3>2. e.server = Rfsv!Store(s, h, f, r) /\ e.data = r
      BY <2>6, <3>1 DEF Rfsv!Reply
    <3> QED
      BY <1>5, <3>2
  <2> QED
    BY <2>3, <2>5, <2>6
<1>7. CASE c[1] = "setsize"
  <2>1. PICK g \in Blocks, q \in Int : g = Rfsv!Resized(f, c[3]) /\ q = Rfsv!Clamp(p, c[3])
    <3>1. Rfsv!Clamp(p, c[3]) \in Int
      BY <1>7 DEF Rfsv!Clamp
    <3> QED
      BY <1>7, <3>1, ResizedIs
  <2>2. e.server = s \/ e.server = Rfsv!Store(s, h, g, q)
    BY <1>2, <1>4, <1>7, <2>1 DEF Rfsv!OnHandle, Rfsv!Reply, FileOf
  <2> QED
    BY <1>5, <1>7, <2>2
<1> QED
  BY <1>6, <1>7

LEMMA WrapIs ==
    ASSUME NEW n \in Int
    PROVE  Rfsv!Wrap(n) \in Nat
<1>1. PICK w \in Nat \ {0} : w = Half * Half
  BY RfsvAssumption
<1>2. n % w \in Nat
  OBVIOUS
<1> QED
  BY <1>1, <1>2 DEF Rfsv!Wrap

LEMMA MovedPositioned ==
    ASSUME NEW s, ServerShape(s), Positioned(s), NEW h \in DOMAIN s.handles, NEW p \in Int
    PROVE  Positioned(Rfsv!MovedTo(s, h, p))
<1>1. PICK n, q : Named(s, h, n, q)
  BY DEF Positioned
<1>2. PICK t : t = Rfsv!MovedTo(s, h, p)
  OBVIOUS
<1>3. ServerShape(t) /\ Named(t, h, n, p) /\ SameHandles(s, t, h)
  BY <1>1, <1>2, MovedIs
<1>4. ASSUME NEW x \in DOMAIN t.handles PROVE \E m : \E r \in Int : Named(t, x, m, r)
  <2>1. x # h => x \in DOMAIN s.handles /\ t.handles[x] = s.handles[x]
    BY <1>3, <1>4 DEF SameHandles
  <2>2. x \in DOMAIN s.handles => \E m : \E r \in Int : Named(s, x, m, r)
    BY DEF Positioned
  <2> QED
    BY <1>3, <1>4, <2>1, <2>2 DEF Named
<1> QED
  BY <1>2, <1>4 DEF Positioned

LEMMA SeekOutcome ==
    ASSUME ServerShape(server), server.files \in FileSets, status \in {"none", "disc"},
           status = "none" => Positioned(server),
           NEW c, \/ c[1] = "seek" /\ c[3] \in Int
                  \/ c[1] = "setsize" /\ c[3] \in Nat,
           NEW o, Outcome(c, o)
    PROVE  /\ o.server.files \in FileSets /\ (o.status = "none" => Positioned(o.server))
           /\ c[1] = "seek" /\ o.res = "none" => o.data \in Nat
<1>1. Command(c) /\ c[1] \in OnHandles
  BY DEF Command, OnHandles
<1>2. PICK s : /\ ServerShape(s)
               /\ Replied(s, c, o) \/ Failed(s, c, o) \/ LostAt(s, c, o)
               /\ (s = server /\ status # "disc") \/ (DOMAIN s.handles = {} /\ LeftBy(c, s))
  BY <1>1, OutcomeIs
<1>3. Sound(c)
  <2>1. c[1] = "seek" => Quiet(c)
    BY DEF Quiet
  <2> QED
    BY <2>1, SetsizeSound, QuietFiles DEF Sound
<1>4. s.files \in FileSets /\ Positioned(s)
  BY <1>2, <1>3, LeftFiles DEF Positioned
<1>5. ASSUME NEW e \in Rfsv!Execute(s, c)
      PROVE  Positioned(e.server) /\ (c[1] = "seek" /\ e.res = "none" => e.data \in Nat)
  <2>1. CASE c[2] \notin DOMAIN s.handles
    <3>1. e = Rfsv!Reply(s, "handle", Rfsv!None)
      BY <2>1 DEF Rfsv!Execute
    <3> QED
      BY <1>4, <3>1 DEF Rfsv!Reply
  <2>2. CASE c[2] \in DOMAIN s.handles
    <3>1. PICK h \in DOMAIN s.handles : h = c[2] /\ e \in Rfsv!OnHandle(s, h, c)
      BY <2>2 DEF Rfsv!Execute
    <3> QED
      BY <1>2, <1>4, <3>1, SeekIs
  <2> QED
    BY <2>1, <2>2
<1>6. o.server.files \in FileSets
  BY <1>1, <1>3, OutcomeFiles
<1> QED
  BY <1>2, <1>4, <1>5, <1>6 DEF Replied, Failed, LostAt

-----------------------------------------------------------------------------
(* Which handles a running call has: that of the file or directory it      *)
(* reads, and that of the file it writes.                                  *)

RunShape(c) ==
    c = [op |-> c.op, at |-> c.at, res |-> c.res, h |-> c.h, to |-> c.to, buf |-> c.buf,
         out |-> c.out, eof |-> c.eof, renewed |-> c.renewed]

SourceAt == {"local", "create", "replace", "fill", "read", "write", "callback", "readwrite", "close",
             "position", "sense", "expand", "seek", "extend", "reseek",
             "readdir", "closedir", "devread", "devclose"}
TargetAt == {"fill", "read", "write", "callback", "readwrite", "close", "closeTo"}

Claims(x) ==
    \/ x = call.h /\ call.op # "copyTo" /\ call.at \in SourceAt
    \/ x = call.to /\ call.op \in {"copyTo", "copyOn"} /\ call.at \in TargetAt
    \/ x = call.h /\ call.op = "copyOn" /\ proto = "16" /\ call.at = "done" /\ call.to = 0

HandlesInv ==
    /\ ServerShape(server) /\ RunShape(call) /\ status \in {"none", "disc"} /\ proto \in {"16", "32"}
    /\ \A x \in Live : Claims(x)
    /\ call.op = "copyOn" /\ call.at \in {"attr", "open", "create", "replace"} => call.to = 0

(* A step with the exchange of c that ended with o, of which x was made.   *)
Exchanged(c, o, x) ==
    /\ Outcome(c, o) /\ Taken(o) /\ proto' = proto /\ pcFile' = pcFile
    /\ call' = [x EXCEPT !.renewed = @ \/ o.renewed]

Becomes(x) ==
    /\ RunShape(call)' /\ call'.op = x.op /\ call'.at = x.at /\ call'.res = x.res /\ call'.h = x.h
    /\ call'.to = x.to /\ call'.buf = x.buf /\ call'.out = x.out /\ call'.eof = x.eof

LEMMA ExchangedBecomes ==
    ASSUME NEW c, NEW o, NEW x, Exchanged(c, o, x), RunShape(x)
    PROVE  Becomes(x)
BY DEF Exchanged, RunShape, Becomes

(* What a step needs to have kept.                                         *)
LEMMA HandlesKept ==
    ASSUME HandlesInv, ServerShape(server)', RunShape(call)', status' \in {"none", "disc"}, proto' = proto,
           \A y \in {1, 2} : y \in Live' => Claims(y)',
           call'.op = "copyOn" /\ call'.at \in {"attr", "open", "create", "replace"} => call'.to = 0
    PROVE  HandlesInv'
<1>1. Live' \subseteq {1, 2}
  BY DEF Live, ServerShape
<1> QED
  BY <1>1 DEF HandlesInv

LEMMA NothingClaimed ==
    ASSUME HandlesInv, call.at \notin SourceAt, call.at \notin TargetAt, call.at # "done"
    PROVE  Live = {}
BY DEF HandlesInv, Claims

-----------------------------------------------------------------------------
(* What a running copy has done: what is in the target, in the buffer and  *)
(* written down, and where in their files the handles are.                 *)

Going == {"fill", "read", "write", "callback", "readwrite"}
SeekAt == {"position", "sense", "expand", "seek", "extend", "reseek"}
From == server.files["from"]
Target == server.files["to"]
HasTarget == "to" \in DOMAIN server.files
HasSource == call.h \in DOMAIN server.handles

(* The handle h is behind as much of the source as the blocks b.           *)
ReadUpTo(h, b) == \E p \in Nat : p <= Len(From) /\ Named(server, h, "from", p) /\ b = UpTo(From, p)

CopiesFrom ==
    call.op = "copyFrom" =>
      /\ call.at = "open" => call.res = "none" /\ call.out = <<>> /\ call.buf = <<>>
      /\ call.at \in {"local", "read", "callback"} =>
           /\ call.res = "none" /\ call.out \in Blocks /\ call.buf \in Blocks
           /\ ReadUpTo(call.h, call.out ++ call.buf)
      /\ call.at = "callback" /\ call.buf = <<>> => call.out = From
      /\ call.at \in {"close", "done"} /\ call.res = "none" => call.out = From

Writing ==
    call.op \in {"copyTo", "copyOn"} /\ call.at \in Going =>
      /\ call.res = "none" /\ call.buf \in Blocks
      /\ call.at \in {"fill", "callback", "readwrite"} => call.buf = <<>>
      /\ HasTarget /\ Named(server, call.to, "to", Len(Target))

CopiesTo ==
    call.op = "copyTo" =>
      /\ call.at \in {"create", "replace"} => call.res = "none" /\ call.out = <<>> /\ call.buf = <<>> /\ ~ call.eof
      /\ call.at \in Going =>
           /\ call.at \notin {"read", "readwrite"}
           /\ \E n \in Nat : n <= Len(pcFile) /\ call.out = UpTo(pcFile, n)
           /\ Target ++ call.buf = call.out
           /\ call.eof => call.out = pcFile
      /\ call.at \in {"close", "done"} /\ call.res = "none" => HasTarget /\ Target = pcFile

CopiesOn ==
    call.op = "copyOn" =>
      /\ call.at \in {"attr", "open", "create", "replace"} => call.res = "none" /\ call.buf = <<>>
      /\ call.at \in {"create", "replace"} /\ status = "none" =>
           /\ HasSource => Named(server, call.h, "from", 0)
           /\ call.renewed \/ HasSource
      /\ call.at \in Going =>
           /\ HasSource /\ call.h # call.to => ReadUpTo(call.h, Target ++ call.buf)
           /\ call.renewed \/ (HasSource /\ call.h # call.to)
      /\ call.at \in {"close", "closeTo", "done"} /\ call.res = "none" =>
           call.renewed \/ (HasTarget /\ Target = From)
      /\ call.at = "delete" => call.res # "none"

Seeks ==
    call.op = "seek" =>
      /\ call.at \in SeekAt => call.h \in Nat /\ (status = "none" => Positioned(server))
      /\ call.at \in SeekAt \ {"position"} =>
           \E pos \in Int, found \in Int : \E mode : call.buf = <<<<pos, mode>>, found>>
      /\ call.at = "extend" => call.buf[2] \in Nat

CopyInv ==
    /\ server.files \in FileSets /\ pcFile \in Blocks
    /\ CopiesFrom /\ Writing /\ CopiesTo /\ CopiesOn /\ Seeks

LEMMA CopyKept ==
    ASSUME server'.files \in FileSets, pcFile' \in Blocks,
           call'.op = "copyFrom" => CopiesFrom', call'.op \in {"copyTo", "copyOn"} => Writing',
           call'.op = "copyTo" => CopiesTo', call'.op = "copyOn" => CopiesOn', call'.op = "seek" => Seeks'
    PROVE  CopyInv'
BY DEF CopyInv, CopiesFrom, Writing, CopiesTo, CopiesOn, Seeks

(* A call that failed promises nothing; one of another kind copies nothing. *)
LEMMA FailedKept ==
    ASSUME server'.files \in FileSets, pcFile' \in Blocks,
           \/ call'.at \in {"close", "done", "delete"} /\ call'.res # "none"
           \/ call'.op \notin {"copyFrom", "copyTo", "copyOn", "seek"}
    PROVE  CopyInv'
BY DEF CopyInv, CopiesFrom, Writing, CopiesTo, CopiesOn, Seeks, Going, SeekAt

LEMMA QuietKept ==
    ASSUME HandlesInv, CopyInv, NEW c, Command(c), Quiet(c), NEW o, NEW x, Exchanged(c, o, x)
    PROVE  server'.files = server.files /\ server'.files \in FileSets /\ pcFile' \in Blocks
<1>1. o.server.files = server.files
  BY OutcomeQuiet DEF HandlesInv, CopyInv, Exchanged
<1> QED
  BY <1>1 DEF Exchanged, Taken, CopyInv

LEMMA OthersKept ==
    ASSUME HandlesInv, CopyInv, NEW c, Quiet(c), NEW o, NEW x, Exchanged(c, o, x), Becomes(x),
           x.op \notin {"copyFrom", "copyTo", "copyOn", "seek"}
    PROVE  CopyInv'
<1>1. Command(c)
  BY DEF Quiet, Command, OnHandles, Others
<1>2. server'.files \in FileSets /\ pcFile' \in Blocks
  BY <1>1, QuietKept
<1>3. call'.op = x.op
  BY DEF Becomes
<1> QED
  BY <1>2, <1>3, FailedKept

LEMMA Renews ==
    ASSUME NEW c, NEW o, NEW x, Exchanged(c, o, x), RunShape(x)
    PROVE  /\ x.renewed => call'.renewed
           /\ o.renewed = TRUE => call'.renewed
           /\ o.renewed = FALSE /\ ~ x.renewed => ~ call'.renewed
<1>1. call' = [x EXCEPT !.renewed = x.renewed \/ o.renewed]
  BY DEF Exchanged
<1>2. call'.renewed = (x.renewed \/ o.renewed)
  BY <1>1 DEF RunShape
<1> QED
  BY <1>2

LEMMA OpenReadCopies ==
    ASSUME HandlesInv, CopyInv, Live = {}, call.at = "open", call.op \in {"copyFrom", "copyOn", "seek"},
           NEW c, c = <<"open", "read", "from">>, NEW o, NEW x, Exchanged(c, o, x), Becomes(x),
           x.op = call.op,
           IF o.res = "none"
           THEN /\ x.h = o.data /\ x.res = call.res /\ x.buf = call.buf /\ x.out = call.out
                /\ x.at = IF call.op = "copyFrom" THEN "local"
                          ELSE IF call.op = "copyOn" THEN "create" ELSE "position"
           ELSE x.at = "done" /\ x.res = o.res
    PROVE  CopyInv'
<1>1. Quiet(c) /\ Command(c) /\ c[1] = "open" /\ c[2] = "read" /\ c[3] = "from"
  BY DEF Quiet, Command
<1>2. server'.files \in FileSets /\ pcFile' \in Blocks
  BY <1>1, QuietKept
<1>3. CASE o.res # "none"
  BY <1>2, <1>3, FailedKept DEF Becomes
<1>4. CASE o.res = "none"
  <2>1. PICK s : /\ (s = server /\ status = "none") \/ DOMAIN s.handles = {}
                 /\ o.status = "none" /\ o.data \in {1, 2} /\ Named(o.server, o.data, "from", 0)
                 /\ DOMAIN o.server.handles = DOMAIN s.handles \cup {o.data}
    <3>1. ServerShape(server) /\ server.files \in FileSets /\ status \in {"none", "disc"} /\ Outcome(c, o)
      BY DEF HandlesInv, CopyInv, Exchanged
    <3>2. PICK s : /\ ServerShape(s) /\ s.files \in FileSets
                   /\ \/ s = server /\ status = "none" /\ o.renewed = FALSE
                      \/ DOMAIN s.handles = {} /\ o.renewed = TRUE
                   /\ o.res # "none" => o.status = "disc" \/ o.server = s
                   /\ o.res = "none" =>
                        /\ o.status = "none" /\ o.data \in {1, 2} \ DOMAIN s.handles
                        /\ Named(o.server, o.data, c[3], 0)
                        /\ DOMAIN o.server.handles = DOMAIN s.handles \cup {o.data}
                        /\ \A y \in DOMAIN s.handles : o.server.handles[y] = s.handles[y]
                        /\ c[3] \in DOMAIN o.server.files
                        /\ c[3] = "to" => o.server.files[c[3]] = <<>>
      BY <1>1, <3>1, OpenOutcome
    <3> QED
      BY <1>1, <1>4, <3>2
  <2>2. /\ server' = o.server /\ status' = "none" /\ call'.h = o.data /\ call'.op = call.op
        /\ call'.at = IF call.op = "copyFrom" THEN "local" ELSE IF call.op = "copyOn" THEN "create" ELSE "position"
        /\ call'.res = call.res /\ call'.buf = call.buf /\ call'.out = call.out
    BY <1>4, <2>1 DEF Exchanged, Taken, Becomes
  <2>3. Named(server', call'.h, "from", 0) /\ DOMAIN server'.handles = {call'.h} /\ call'.h \in {1, 2}
    BY <2>1, <2>2 DEF Live
  <2>4. CASE call.op = "copyFrom"
    <3>1. call'.res = "none" /\ call'.out = <<>> /\ call'.buf = <<>>
      BY <2>2, <2>4 DEF CopyInv, CopiesFrom
    <3>2. PICK f \in Blocks : f = From'
      BY <1>2, FilesAre DEF From
    <3>3. UpTo(f, 0) = <<>> /\ Len(f) \in Nat /\ <<>> \in Blocks /\ <<>> ++ <<>> = <<>>
      BY WholeFront, BlocksLen, BlocksJoin
    <3>4. PICK b \in Blocks : b = <<>> /\ b ++ b = b
      BY <3>3
    <3>5. 0 <= Len(f) /\ Named(server', call'.h, "from", 0) /\ b = UpTo(f, 0)
      BY <2>3, <3>3, <3>4
    <3>6. ReadUpTo(call.h, b)'
      BY <3>2, <3>5 DEF ReadUpTo
    <3>7. CopiesFrom'
      BY <2>2, <2>4, <3>1, <3>4, <3>6 DEF CopiesFrom
    <3> QED
      BY <1>2, <2>2, <2>4, <3>7, CopyKept
  <2>5. CASE call.op = "copyOn"
    <3>1. CopiesOn' /\ Writing'
      BY <2>2, <2>3, <2>5 DEF CopyInv, CopiesOn, Writing, Going, HasSource, Named
    <3> QED
      BY <1>2, <2>2, <2>5, <3>1, CopyKept
  <2>6. CASE call.op = "seek"
    <3>1. Positioned(server')
      BY <2>3 DEF Positioned
    <3>2. Seeks'
      BY <2>2, <2>3, <2>6, <3>1 DEF Seeks, SeekAt
    <3> QED
      BY <1>2, <2>2, <2>6, <3>2, CopyKept
  <2> QED
    BY <2>4, <2>5, <2>6
<1> QED
  BY <1>3, <1>4

LEMMA OpenTargetCopies ==
    ASSUME HandlesInv, CopyInv, call.at \in {"create", "replace"}, call.op \in {"copyTo", "copyOn"},
           NEW c, c[1] = "open", c[2] \in {"create", "replace"}, c[3] = "to",
           NEW o, NEW x, Exchanged(c, o, x), RunShape(x), x.op = call.op, x.renewed = call.renewed,
           \/ /\ IF o.res = "none" THEN x.to = o.data /\ x.at = "fill" ELSE x.at = "replace"
              /\ x.h = call.h /\ x.res = call.res /\ x.buf = call.buf /\ x.out = call.out /\ x.eof = call.eof
           \/ o.res # "none" /\ x.at \in {"close", "done"} /\ x.res # "none"
    PROVE  CopyInv'
<1>0. Becomes(x)
  BY ExchangedBecomes
<1>1. PICK s : /\ ServerShape(s) /\ s.files \in FileSets
               /\ \/ s = server /\ status = "none" /\ o.renewed = FALSE
                  \/ DOMAIN s.handles = {} /\ o.renewed = TRUE
               /\ o.res # "none" => o.status = "disc" \/ o.server = s
               /\ o.res = "none" =>
                    /\ o.status = "none" /\ o.data \in {1, 2} \ DOMAIN s.handles
                    /\ Named(o.server, o.data, "to", 0)
                    /\ DOMAIN o.server.handles = DOMAIN s.handles \cup {o.data}
                    /\ \A y \in DOMAIN s.handles : o.server.handles[y] = s.handles[y]
                    /\ "to" \in DOMAIN o.server.files /\ o.server.files["to"] = <<>>
  <2>1. ServerShape(server) /\ server.files \in FileSets /\ status \in {"none", "disc"} /\ Outcome(c, o)
    BY DEF HandlesInv, CopyInv, Exchanged
  <2>2. PICK s : /\ ServerShape(s) /\ s.files \in FileSets
                 /\ \/ s = server /\ status = "none" /\ o.renewed = FALSE
                    \/ DOMAIN s.handles = {} /\ o.renewed = TRUE
                 /\ o.res # "none" => o.status = "disc" \/ o.server = s
                 /\ o.res = "none" =>
                      /\ o.status = "none" /\ o.data \in {1, 2} \ DOMAIN s.handles
                      /\ Named(o.server, o.data, c[3], 0)
                      /\ DOMAIN o.server.handles = DOMAIN s.handles \cup {o.data}
                      /\ \A y \in DOMAIN s.handles : o.server.handles[y] = s.handles[y]
                      /\ c[3] \in DOMAIN o.server.files
                      /\ c[3] = "to" => o.server.files[c[3]] = <<>>
    BY <2>1, OpenOutcome
  <2> QED
    BY <2>2
<1>2. server'.files \in FileSets /\ pcFile' \in Blocks
  <2>1. Command(c) /\ Sound(c)
    BY OpensSound DEF Command
  <2>2. o.server.files \in FileSets
    BY <2>1, OutcomeFiles DEF HandlesInv, CopyInv, Exchanged
  <2> QED
    BY <2>2 DEF Exchanged, Taken, CopyInv
<1>3. call.renewed \/ o.renewed = TRUE => call'.renewed
  BY Renews
<1>4. CASE x.at \in {"close", "done"} /\ x.res # "none"
  BY <1>0, <1>2, <1>4, FailedKept DEF Becomes
<1>5. CASE o.res # "none" /\ x.at = "replace" /\ x.h = call.h /\ x.res = call.res /\ x.buf = call.buf
           /\ x.out = call.out /\ x.eof = call.eof
  <2>1. /\ call'.at = "replace" /\ call'.op = call.op /\ call'.h = call.h /\ call'.res = call.res
        /\ call'.buf = call.buf /\ call'.out = call.out /\ call'.eof = call.eof
    BY <1>0, <1>5 DEF Becomes
  <2>2. Writing'
    BY <2>1 DEF Writing, Going
  <2>3. call'.op = "copyTo" => CopiesTo'
    BY <2>1 DEF CopyInv, CopiesTo, Going
  <2>4. call'.op = "copyOn" => CopiesOn'
    BY <1>1, <1>3, <1>5, <2>1 DEF Exchanged, Taken, CopyInv, CopiesOn, Going, HasSource
  <2> QED
    BY <1>2, <2>1, <2>2, <2>3, <2>4, CopyKept
<1>6. CASE o.res = "none" /\ x.to = o.data /\ x.at = "fill" /\ x.h = call.h /\ x.res = call.res
           /\ x.buf = call.buf /\ x.out = call.out /\ x.eof = call.eof
  <2>1. /\ call'.at = "fill" /\ call'.op = call.op /\ call'.h = call.h /\ call'.res = call.res
        /\ call'.buf = call.buf /\ call'.out = call.out /\ call'.eof = call.eof /\ call'.to = o.data
        /\ server' = o.server /\ status' = "none" /\ pcFile' = pcFile
    BY <1>0, <1>1, <1>6 DEF Becomes, Exchanged, Taken
  <2>2. /\ call.res = "none" /\ call.buf = <<>>
        /\ call.op = "copyTo" => call.out = <<>> /\ ~ call.eof
    BY DEF CopyInv, CopiesTo, CopiesOn
  <2>3. HasTarget' /\ Target' = <<>> /\ Named(server', call'.to, "to", 0)
    BY <1>1, <1>6, <2>1 DEF HasTarget, Target
  <2>4. Len(<<>>) = 0 /\ <<>> \in Blocks /\ <<>> ++ <<>> = <<>>
    BY BlocksJoin
  <2>5. Writing'
    BY <2>1, <2>2, <2>3, <2>4 DEF Writing, Going
  <2>6. CASE call.op = "copyTo"
    <3>1. PICK f \in Blocks : f = pcFile'
      BY <1>2
    <3>2. 0 <= Len(f) /\ UpTo(f, 0) = <<>>
      BY BlocksLen, WholeFront
    <3>3. \E n \in Nat : n <= Len(pcFile') /\ call'.out = UpTo(pcFile', n)
      BY <2>1, <2>2, <2>6, <3>1, <3>2
    <3>4. Target' ++ call'.buf = call'.out
      BY <2>1, <2>2, <2>3, <2>4, <2>6
    <3>5. CopiesTo'
      BY <2>1, <2>2, <2>6, <3>3, <3>4 DEF CopiesTo, Going
    <3> QED
      BY <1>2, <2>1, <2>5, <2>6, <3>5, CopyKept
  <2>7. CASE call.op = "copyOn"
    <3>1. HasSource' /\ call'.h # call'.to =>
             call.h \in DOMAIN s.handles /\ s = server /\ status = "none" /\ Named(server', call'.h, "from", 0)
      <4>1. ASSUME call.h \in DOMAIN s.handles PROVE s = server /\ status = "none"
        BY <1>1, <4>1
      <4>2. ASSUME call.h \in DOMAIN s.handles PROVE Named(server', call.h, "from", 0)
        <5>1. Named(server, call.h, "from", 0)
          BY <2>7, <4>1, <4>2 DEF CopyInv, CopiesOn, HasSource
        <5> QED
          BY <1>1, <1>6, <2>1, <4>1, <4>2, <5>1 DEF Named
      <4>3. HasSource' /\ call'.h # call'.to => call.h \in DOMAIN s.handles
        BY <1>1, <1>6, <2>1 DEF HasSource
      <4> QED
        BY <2>1, <4>1, <4>2, <4>3
    <3>2. PICK f \in Blocks : f = From'
      BY <1>2, FilesAre DEF From
    <3>3. 0 <= Len(f) /\ UpTo(f, 0) = <<>>
      BY BlocksLen, WholeFront
    <3>4. HasSource' /\ call'.h # call'.to => ReadUpTo(call.h, Target ++ call.buf)'
      <4>1. (Target ++ call.buf)' = <<>>
        BY <2>1, <2>2, <2>3, <2>4
      <4> QED
        BY <3>1, <3>2, <3>3, <4>1 DEF ReadUpTo
    <3>5. call'.renewed \/ (HasSource' /\ call'.h # call'.to)
      <4>1. CASE s = server /\ status = "none"
        <5>1. call.renewed \/ call.h \in DOMAIN server.handles
          BY <2>7, <4>1 DEF CopyInv, CopiesOn, HasSource
        <5> QED
          BY <1>1, <1>3, <1>6, <2>1, <4>1, <5>1 DEF HasSource
      <4> QED
        BY <1>1, <1>3, <4>1
    <3>6. CopiesOn'
      BY <2>1, <2>7, <3>4, <3>5 DEF CopiesOn, Going
    <3> QED
      BY <1>2, <2>1, <2>5, <2>7, <3>6, CopyKept
  <2> QED
    BY <2>6, <2>7
<1> QED
  BY <1>4, <1>5, <1>6

LEMMA OwnHandle ==
    ASSUME HandlesInv, NEW c, c[1] \in OnHandles, NEW o, NEW x, Exchanged(c, o, x),
           o.res \notin {"disc", "general", "handle"}
    PROVE  /\ status = "none" /\ status' = "none" /\ c[2] \in DOMAIN server.handles
           /\ \E e \in Rfsv!OnHandle(server, c[2], c) : server' = e.server /\ o.res = e.res /\ o.data = e.data
<1>1. ServerShape(server) /\ status \in {"none", "disc"} /\ Outcome(c, o)
  BY DEF HandlesInv, Exchanged
<1>2. /\ c[2] \in DOMAIN server.handles /\ status = "none" /\ o.status = "none" /\ o.renewed = FALSE
      /\ \E e \in Rfsv!OnHandle(server, c[2], c) : o.server = e.server /\ o.res = e.res /\ o.data = e.data
  BY <1>1, HandleOutcome
<1> QED
  BY <1>2 DEF Exchanged, Taken

LEMMA FreadCopies ==
    ASSUME HandlesInv, CopyInv, call.at = "read", call.op \in {"copyFrom", "copyOn"},
           NEW c, c[1] = "read", c[2] = call.h, c[3] \in Int,
           NEW o, NEW x, Exchanged(c, o, x), RunShape(x), x.op = call.op, x.h = call.h, x.renewed = call.renewed,
           IF o.res = "none" \/ (o.res = "eof" /\ proto = "16")
           THEN /\ x.to = call.to /\ x.res = call.res /\ x.out = call.out
                /\ x.buf = IF o.res = "none" THEN call.buf ++ o.data ELSE call.buf
                /\ IF call.op = "copyFrom" THEN x.at \in {"read", "callback"}
                   ELSE x.at \in {"read", "close", "write"}
                /\ (o.res = "eof" \/ o.data = <<>>) => x.at # "read"
                /\ x.at = "close" <=> call.op = "copyOn" /\ x.buf = <<>>
           ELSE x.at = "close" /\ x.res # "none"
    PROVE  CopyInv'
<1>0. Becomes(x) /\ (call.renewed => call'.renewed)
  BY ExchangedBecomes, Renews
<1>1. Quiet(c) /\ Command(c) /\ c[1] \in OnHandles
  BY DEF Quiet, Command, OnHandles
<1>2. server'.files = server.files /\ server'.files \in FileSets /\ pcFile' \in Blocks
  BY <1>1, QuietKept
<1>3. CASE ~ (o.res = "none" \/ (o.res = "eof" /\ proto = "16"))
  BY <1>0, <1>2, <1>3, FailedKept DEF Becomes
<1>4. CASE o.res = "none" \/ (o.res = "eof" /\ proto = "16")
  <2>1. o.res \notin {"disc", "general", "handle"}
    BY <1>4
  <2>2. PICK e \in Rfsv!OnHandle(server, call.h, c) : server' = e.server /\ o.res = e.res /\ o.data = e.data
    BY <1>1, <2>1, OwnHandle
  <2>3. /\ call'.op = call.op /\ call'.h = call.h /\ call'.to = call.to
        /\ call'.res = call.res /\ call'.out = call.out
        /\ call'.at = x.at /\ call'.buf = x.buf
    BY <1>0, <1>4 DEF Becomes
  <2>4. PICK f \in Blocks : f = From /\ f = From' /\ "from" \in DOMAIN server.files
    BY <1>2, FilesAre DEF From
  <2>5. Len(f) \in Nat /\ UpTo(f, Len(f)) = f
    BY <2>4, BlocksLen, WholeFront
  <2>6. ASSUME NEW b \in Blocks, NEW k \in Blocks, k = call.buf, ReadUpTo(call.h, b ++ call.buf)
        PROVE  /\ call'.buf \in Blocks /\ ReadUpTo(call.h, b ++ call.buf)'
               /\ call'.at # "read" /\ call'.buf = <<>> => b = f
               /\ \A y \in DOMAIN server.handles :
                    y # call.h => y \in DOMAIN server'.handles /\ server'.handles[y] = server.handles[y]
    <3>1. PICK p \in Nat : p <= Len(f) /\ Named(server, call.h, "from", p) /\ b ++ call.buf = UpTo(f, p)
      BY <2>4, <2>6 DEF ReadUpTo
    <3>2. \/ /\ p = Len(f) /\ e.server = server
             /\ e.res \in {"none", "eof"} /\ (e.res = "none" => e.data = <<>>)
          \/ \E z \in Nat :
               /\ p < z /\ z <= Len(f) /\ e.res = "none" /\ e.data = Part(f, p, z)
               /\ Named(e.server, call.h, "from", z) /\ SameHandles(server, e.server, call.h)
      <4>1. ServerShape(server) /\ server.files \in FileSets /\ server.files["from"] = f
        BY <2>4 DEF HandlesInv, CopyInv, From
      <4> QED
        BY <2>2, <2>4, <3>1, <4>1, ReadIs
    <3>3. CASE p = Len(f) /\ e.server = server /\ (e.res = "none" => e.data = <<>>)
      <4>1. call'.buf = call.buf
        <5>1. k ++ <<>> = k
          BY BlocksJoin
        <5> QED
          BY <1>4, <2>2, <2>3, <2>6, <3>3, <5>1
      <4>2. call'.at # "read"
        BY <1>4, <2>2, <2>3, <3>3
      <4>3. ReadUpTo(call.h, b ++ call.buf)'
        BY <2>2, <2>3, <2>4, <3>1, <3>3, <4>1 DEF ReadUpTo
      <4>4. call'.buf = <<>> => b = f
        BY <2>5, <3>1, <3>3, <4>1, BlocksJoin
      <4> QED
        BY <2>2, <2>6, <3>3, <4>1, <4>2, <4>3, <4>4
    <3>4. ASSUME NEW z \in Nat, p < z, z <= Len(f), e.res = "none", e.data = Part(f, p, z),
                 Named(e.server, call.h, "from", z), SameHandles(server, e.server, call.h)
          PROVE  /\ call'.buf \in Blocks /\ call'.buf # <<>> /\ ReadUpTo(call.h, b ++ call.buf)'
                 /\ \A y \in DOMAIN server.handles :
                      y # call.h => y \in DOMAIN server'.handles /\ server'.handles[y] = server.handles[y]
      <4>1. PICK m \in Blocks : m = Part(f, p, z) /\ Len(m) = z - p /\ UpTo(f, p) ++ m = UpTo(f, z)
        <5>1. p <= z
          BY <3>4
        <5>2. /\ Part(f, p, z) \in Blocks /\ Len(Part(f, p, z)) = z - p
              /\ UpTo(f, p) ++ Part(f, p, z) = UpTo(f, z)
          BY <3>4, <5>1, PartIs
        <5> QED
          BY <5>2
      <4>2. call'.buf = k ++ m
        BY <1>4, <2>2, <2>3, <2>6, <3>4, <4>1
      <4>3. call'.buf \in Blocks /\ call'.buf # <<>>
        <5>1. k ++ m \in Blocks /\ Len(k ++ m) = Len(k) + Len(m) /\ Len(k) \in Nat
          BY BlocksJoin, BlocksLen
        <5>2. Len(<<>>) = 0
          OBVIOUS
        <5> QED
          BY <3>4, <4>1, <4>2, <5>1, <5>2
      <4>4. b ++ call'.buf = UpTo(f, z)
        <5>1. (b ++ k) ++ m = b ++ (k ++ m)
          BY BlocksJoin
        <5> QED
          BY <2>6, <3>1, <4>1, <4>2, <5>1
      <4>5. ReadUpTo(call.h, b ++ call.buf)'
        BY <2>2, <2>3, <2>4, <3>4, <4>4 DEF ReadUpTo
      <4>6. \A y \in DOMAIN server.handles :
              y # call.h => y \in DOMAIN server'.handles /\ server'.handles[y] = server.handles[y]
        BY <2>2, <3>4 DEF SameHandles
      <4> QED
        BY <4>3, <4>5, <4>6
    <3> QED
      BY <3>2, <3>3, <3>4
  <2>7. CASE call.op = "copyFrom"
    <3>1. call.res = "none" /\ call.out \in Blocks /\ call.buf \in Blocks /\ ReadUpTo(call.h, call.out ++ call.buf)
      BY <2>7 DEF CopyInv, CopiesFrom
    <3>2. PICK b \in Blocks : b = call.out /\ ReadUpTo(call.h, b ++ call.buf)
      BY <3>1
    <3>3. /\ call'.buf \in Blocks /\ ReadUpTo(call.h, b ++ call.buf)'
          /\ call'.at # "read" /\ call'.buf = <<>> => b = f
      BY <2>6, <3>1, <3>2
    <3>4. CopiesFrom'
      BY <1>4, <2>3, <2>4, <2>7, <3>1, <3>2, <3>3 DEF CopiesFrom
    <3> QED
      BY <1>2, <2>3, <2>7, <3>4, CopyKept
  <2>8. CASE call.op = "copyOn"
    <3>1. /\ call.res = "none" /\ call.buf \in Blocks /\ HasTarget /\ Named(server, call.to, "to", Len(Target))
          /\ call.h # call.to => ReadUpTo(call.h, Target ++ call.buf)
          /\ call.renewed \/ call.h # call.to
      BY <1>1, <2>1, <2>8, OwnHandle DEF CopyInv, Writing, CopiesOn, Going, HasSource
    <3>2. PICK b \in Blocks : b = Target /\ b = Target' /\ HasTarget'
      BY <1>2, <3>1, FilesAre DEF Target, HasTarget
    <3>3. CASE call.h # call.to
      <4>1. /\ call'.buf \in Blocks /\ ReadUpTo(call.h, b ++ call.buf)'
            /\ call'.at # "read" /\ call'.buf = <<>> => b = f
            /\ \A y \in DOMAIN server.handles :
                 y # call.h => y \in DOMAIN server'.handles /\ server'.handles[y] = server.handles[y]
        BY <2>6, <3>1, <3>2, <3>3
      <4>2. Named(server', call'.to, "to", Len(Target'))
        BY <2>3, <3>1, <3>2, <3>3, <4>1 DEF Named
      <4>3. Writing'
        BY <1>4, <2>3, <2>8, <3>1, <3>2, <4>1, <4>2 DEF Writing, Going
      <4>4. HasSource'
        BY <2>3, <4>1 DEF ReadUpTo, HasSource, Named
      <4>5. CopiesOn'
        BY <1>4, <2>3, <2>4, <2>8, <3>2, <3>3, <4>1, <4>4 DEF CopiesOn, Going
      <4> QED
        BY <1>2, <2>3, <2>8, <4>3, <4>5, CopyKept
    <3>4. CASE call.h = call.to
      <4>1. /\ e.server = server /\ (e.res = "none" => e.data = <<>>)
        <5>1. PICK p \in Nat : p = Len(Target)
          BY <3>2, BlocksLen
        <5>2. ServerShape(server) /\ server.files \in FileSets /\ "to" \in DOMAIN server.files
              /\ Named(server, call.h, "to", p) /\ Len(server.files["to"]) = p
          BY <3>1, <3>4, <5>1 DEF HandlesInv, CopyInv, HasTarget, Target
        <5> QED
          BY <2>2, <5>1, <5>2, ReadIs
      <4>2. call'.buf = call.buf /\ call'.at # "read" /\ server' = server
        <5>1. call.buf ++ <<>> = call.buf
          BY <3>1, BlocksJoin
        <5> QED
          BY <1>4, <2>2, <2>3, <2>8, <4>1, <5>1
      <4>3. Writing'
        BY <1>4, <2>3, <2>8, <3>1, <3>2, <4>2 DEF Writing, Going
      <4>4. CopiesOn'
        BY <1>0, <1>4, <2>3, <2>8, <3>1, <3>4, <4>2 DEF CopiesOn, Going
      <4> QED
        BY <1>2, <2>3, <2>8, <4>3, <4>4, CopyKept
    <3> QED
      BY <3>3, <3>4
  <2> QED
    BY <2>7, <2>8
<1> QED
  BY <1>3, <1>4

LEMMA FwriteCopies ==
    ASSUME HandlesInv, CopyInv, call.at = "write", call.op \in {"copyTo", "copyOn"},
           NEW n \in Nat, n <= Len(call.buf), NEW c, c[1] = "write", c[2] = call.to, c[3] = UpTo(call.buf, n),
           NEW o, NEW x, Exchanged(c, o, x), RunShape(x), x.op = call.op, x.renewed = call.renewed,
           IF o.res = "none"
           THEN /\ x.h = call.h /\ x.to = call.to /\ x.res = call.res /\ x.out = call.out /\ x.eof = call.eof
                /\ x.at = "write" /\ x.buf = Part(call.buf, n, Len(call.buf))
           ELSE x.at = "close" /\ x.res # "none"
    PROVE  CopyInv'
<1>0. Becomes(x) /\ (call.renewed => call'.renewed)
  BY ExchangedBecomes, Renews
<1>1. call.res = "none" /\ HasTarget /\ Named(server, call.to, "to", Len(Target))
  BY DEF CopyInv, Writing, Going
<1>2. PICK b \in Blocks, m \in Blocks, r \in Blocks :
         /\ b = call.buf /\ m = c[3] /\ r = Part(call.buf, n, Len(call.buf)) /\ m ++ r = b
  <2>1. PICK b \in Blocks : b = call.buf
    BY DEF CopyInv, Writing, Going
  <2>2. Len(b) \in Nat /\ UpTo(b, Len(b)) = b
    BY BlocksLen, WholeFront
  <2>3. UpTo(b, n) \in Blocks /\ Part(b, n, Len(b)) \in Blocks /\ UpTo(b, n) ++ Part(b, n, Len(b)) = UpTo(b, Len(b))
    <3>1. PICK j \in Nat : j = Len(b)
      BY <2>2
    <3>2. n <= j /\ j <= Len(b)
      BY <2>1, <3>1
    <3> QED
      BY <3>1, <3>2, PartIs
  <2> QED
    BY <2>1, <2>2, <2>3
<1>3. server'.files \in FileSets /\ pcFile' \in Blocks
  <2>1. Command(c) /\ Sound(c)
    BY <1>1, <1>2, WriteSound DEF Command, OnHandles, HandlesInv, CopyInv, HasTarget, Target
  <2>2. o.server.files \in FileSets
    BY <2>1, OutcomeFiles DEF HandlesInv, CopyInv, Exchanged
  <2> QED
    BY <2>2 DEF Exchanged, Taken, CopyInv
<1>4. CASE o.res # "none"
  BY <1>0, <1>3, <1>4, FailedKept DEF Becomes
<1>5. CASE o.res = "none"
  <2>1. PICK e \in Rfsv!OnHandle(server, call.to, c) : server' = e.server
    <3>1. c[1] \in OnHandles
      BY DEF OnHandles
    <3>2. o.res \notin {"disc", "general", "handle"}
      BY <1>5
    <3> QED
      BY <3>1, <3>2, OwnHandle
  <2>2. PICK t \in Blocks : t = Target
    BY <1>1, FilesAre DEF CopyInv, HasTarget, Target
  <2>3. PICK g \in Blocks :
           /\ g = t ++ m /\ Wrote(server, server', "to", g)
           /\ Named(server', call.to, "to", Len(g)) /\ SameHandles(server, server', call.to)
    <3>1. ServerShape(server) /\ server.files \in FileSets /\ "to" \in DOMAIN server.files
          /\ server.files["to"] = t /\ Named(server, call.to, "to", Len(server.files["to"]))
      BY <1>1, <2>2 DEF HandlesInv, CopyInv, HasTarget, Target
    <3> QED
      BY <1>2, <2>1, <3>1, WriteIs
  <2>4. HasTarget' /\ Target' = g /\ From' = From
    BY <1>1, <2>3, FilesAre DEF Wrote, HasTarget, Target, From, CopyInv
  <2>5. /\ call'.op = call.op /\ call'.h = call.h /\ call'.to = call.to
        /\ call'.res = call.res /\ call'.out = call.out
        /\ call'.eof = call.eof /\ call'.at = "write" /\ call'.buf = r /\ pcFile' = pcFile
    BY <1>0, <1>2, <1>5 DEF Becomes, Exchanged
  <2>6. Target' ++ call'.buf = Target ++ call.buf
    BY <1>2, <2>2, <2>3, <2>4, <2>5, BlocksJoin
  <2>7. Writing'
    BY <1>1, <2>3, <2>4, <2>5 DEF Writing, Going
  <2>8. CASE call.op = "copyTo"
    <3>1. CopiesTo'
      BY <2>5, <2>6, <2>8 DEF CopyInv, CopiesTo, Going
    <3> QED
      BY <1>3, <2>5, <2>7, <2>8, <3>1, CopyKept
  <2>9. CASE call.op = "copyOn"
    <3>1. /\ HasSource /\ call.h # call.to => ReadUpTo(call.h, Target ++ call.buf)
          /\ call.renewed \/ (HasSource /\ call.h # call.to)
      BY <2>9 DEF CopyInv, CopiesOn, Going
    <3>2. HasSource' => HasSource
      BY <2>3, <2>5 DEF SameHandles, HasSource
    <3>3. HasSource => HasSource'
      BY <2>3, <2>5 DEF SameHandles, HasSource
    <3>4. ASSUME HasSource, call.h # call.to PROVE ReadUpTo(call.h, Target ++ call.buf)'
      <4>1. PICK p \in Nat : p <= Len(From) /\ Named(server, call.h, "from", p) /\ Target ++ call.buf = UpTo(From, p)
        BY <3>1, <3>4 DEF ReadUpTo
      <4>2. Named(server', call'.h, "from", p)
        BY <2>3, <2>5, <3>4, <4>1 DEF SameHandles, Named
      <4> QED
        BY <2>4, <2>6, <4>1, <4>2 DEF ReadUpTo
    <3>5. CopiesOn'
      BY <1>0, <2>5, <2>9, <3>1, <3>2, <3>3, <3>4 DEF CopiesOn, Going
    <3> QED
      BY <1>3, <2>5, <2>7, <2>9, <3>5, CopyKept
  <2> QED
    BY <2>8, <2>9
<1> QED
  BY <1>4, <1>5

LEMMA ReadWriteCopies ==
    ASSUME HandlesInv, CopyInv, call.at = "readwrite", call.op = "copyOn",
           NEW c, c[1] = "readwrite", c[2] = call.h, c[3] \in Nat, c[4] = call.to,
           NEW o, NEW x, Exchanged(c, o, x), RunShape(x), x.op = call.op, x.renewed = call.renewed,
           \/ x.at \in {"close", "done"} /\ x.res # "none"
           \/ /\ o.res = "none" /\ x.h = call.h /\ x.to = call.to /\ x.res = call.res /\ x.buf = call.buf
              /\ x.at \in {"close", "readwrite"} /\ (x.at = "close" => o.data # c[3])
    PROVE  CopyInv'
<1>0. Becomes(x) /\ (call.renewed => call'.renewed)
  BY ExchangedBecomes, Renews
<1>1. call.res = "none" /\ call.buf = <<>> /\ HasTarget /\ Named(server, call.to, "to", Len(Target))
  BY DEF CopyInv, Writing, Going
<1>2. /\ HasSource /\ call.h # call.to => ReadUpTo(call.h, Target ++ call.buf)
      /\ call.renewed \/ (HasSource /\ call.h # call.to)
  BY DEF CopyInv, CopiesOn, Going
<1>3. PICK f \in Blocks, t \in Blocks : f = From /\ t = Target /\ "from" \in DOMAIN server.files
  BY <1>1, FilesAre DEF CopyInv, HasTarget, From, Target
<1>4. HasSource /\ call.h # call.to =>
        \E p \in Nat : p <= Len(f) /\ Named(server, call.h, "from", p) /\ t = UpTo(f, p)
  <2>1. t ++ <<>> = t
    BY BlocksJoin
  <2> QED
    BY <1>1, <1>2, <1>3, <2>1 DEF ReadUpTo
<1>5. Command(c) /\ c[1] \in OnHandles
  BY DEF Command, OnHandles
<1>6. server'.files \in FileSets /\ pcFile' \in Blocks
  <2>1. c[2] \in DOMAIN server.handles /\ c[2] # c[4]
          => \E p \in Nat : p <= Len(server.files["from"]) /\ Named(server, c[2], "from", p)
    BY <1>3, <1>4 DEF From, HasSource
  <2>2. Named(server, c[4], "to", Len(server.files["to"]))
    BY <1>1 DEF Target
  <2>3. Sound(c)
    BY <1>1, <2>1, <2>2, ReadWriteSound DEF HandlesInv, CopyInv, HasTarget
  <2>4. o.server.files \in FileSets
    BY <1>5, <2>3, OutcomeFiles DEF HandlesInv, CopyInv, Exchanged
  <2> QED
    BY <2>4 DEF Exchanged, Taken, CopyInv
<1>7. CASE x.at \in {"close", "done"} /\ x.res # "none"
  BY <1>0, <1>6, <1>7, FailedKept DEF Becomes
<1>8. CASE /\ o.res = "none" /\ x.h = call.h /\ x.to = call.to /\ x.res = call.res /\ x.buf = call.buf
           /\ x.at \in {"close", "readwrite"} /\ (x.at = "close" => o.data # c[3])
  <2>1. o.res \notin {"disc", "general", "handle"}
    BY <1>8
  <2>2. HasSource /\ \E e \in Rfsv!OnHandle(server, c[2], c) : server' = e.server /\ o.res = e.res /\ o.data = e.data
    BY <1>5, <2>1, OwnHandle DEF HasSource
  <2>3. PICK e \in Rfsv!OnHandle(server, call.h, c) : server' = e.server /\ o.data = e.data
    BY <2>2
  <2>4. PICK n \in {"from", "to"}, p \in Nat :
           /\ n \in DOMAIN server.files /\ p <= Len(server.files[n]) /\ Named(server, call.h, n, p)
           /\ call.h # call.to => n = "from" /\ t = UpTo(f, p)
    <3>1. CASE call.h # call.to
      BY <1>3, <1>4, <2>2, <3>1 DEF From
    <3>2. CASE call.h = call.to
      <4>1. Len(t) \in Nat /\ Len(t) <= Len(server.files["to"]) /\ "to" \in DOMAIN server.files
        BY <1>1, <1>3, BlocksLen DEF Target, HasTarget
      <4>2. Named(server, call.h, "to", Len(t))
        BY <1>1, <1>3, <3>2
      <4> QED
        BY <3>2, <4>1, <4>2
    <3> QED
      BY <3>1, <3>2
  <2>5. PICK z \in Nat, m, g \in Blocks :
           /\ m = Part(server.files[n], p, z) /\ g = server.files["to"] ++ m
           /\ p <= z /\ z <= Len(server.files[n]) /\ (e.data = c[3] \/ z = Len(server.files[n]))
           /\ Wrote(server, e.server, "to", g) /\ Named(e.server, call.to, "to", Len(g))
           /\ DOMAIN e.server.handles = DOMAIN server.handles
           /\ call.h # call.to => Named(e.server, call.h, n, z)
    <3>0. PICK h, u : h = call.h /\ u = call.to
      OBVIOUS
    <3>1. /\ ServerShape(server) /\ server.files \in FileSets /\ "to" \in DOMAIN server.files
          /\ Named(server, u, "to", Len(server.files["to"])) /\ Named(server, h, n, p)
          /\ e \in Rfsv!OnHandle(server, h, c) /\ c[4] = u
      BY <1>1, <2>4, <3>0 DEF HandlesInv, CopyInv, HasTarget, Target
    <3>2. PICK z \in Nat :
             p <= z /\ (e.data = c[3] \/ z = Len(server.files[n])) /\ Spliced(server, e.server, n, p, h, u, z)
      BY <2>4, <3>1, ReadWriteIs
    <3>3. Part(server.files[n], p, z) \in Blocks
      <4>1. PICK w \in Blocks : w = server.files[n]
        BY <2>4, <3>1, FilesAre
      <4> QED
        BY <3>2, <4>1, PartIs DEF Spliced
    <3> QED
      BY <3>0, <3>2, <3>3 DEF Spliced
  <2>6. HasTarget' /\ Target' = g /\ From' = f
    BY <1>1, <1>3, <2>3, <2>5 DEF Wrote, HasTarget, Target, From
  <2>7. /\ call'.op = "copyOn" /\ call'.h = call.h /\ call'.to = call.to /\ call'.res = "none"
        /\ call'.at = x.at /\ call'.buf = <<>>
    BY <1>0, <1>1, <1>8 DEF Becomes
  <2>8. HasSource' /\ Named(server', call'.to, "to", Len(Target'))
    BY <2>2, <2>3, <2>5, <2>6, <2>7 DEF HasSource
  <2>9. Writing'
    BY <1>8, <2>6, <2>7, <2>8, BlocksJoin DEF Writing, Going
  <2>10. ASSUME call.h # call.to
         PROVE  /\ ReadUpTo(call.h, Target ++ call.buf)'
                /\ call'.at = "close" => g = f
    <3>1. n = "from" /\ t = UpTo(f, p) /\ server.files[n] = f /\ server.files["to"] = t
      BY <1>3, <2>4, <2>10 DEF From, Target
    <3>2. z <= Len(f) /\ m = Part(f, p, z) /\ g = t ++ m
      BY <2>5, <3>1
    <3>3. UpTo(f, p) ++ Part(f, p, z) = UpTo(f, z)
      BY <2>5, <3>2, PartIs
    <3>4. g = UpTo(f, z)
      BY <3>1, <3>2, <3>3
    <3>5. g ++ <<>> = g
      BY BlocksJoin
    <3>6. ReadUpTo(call.h, Target ++ call.buf)'
      BY <2>3, <2>5, <2>6, <2>7, <2>10, <3>1, <3>2, <3>4, <3>5 DEF ReadUpTo
    <3>7. call'.at = "close" => z = Len(f)
      BY <1>8, <2>3, <2>5, <2>7, <3>1
    <3>8. UpTo(f, Len(f)) = f
      BY WholeFront
    <3> QED
      BY <3>4, <3>6, <3>7, <3>8
  <2>11. CopiesOn'
    BY <1>0, <1>2, <1>8, <2>6, <2>7, <2>8, <2>10 DEF CopiesOn, Going
  <2> QED
    BY <1>6, <2>7, <2>9, <2>11, CopyKept
<1> QED
  BY <1>7, <1>8

(* Closing the files and asking for attributes change nothing.             *)
LEMMA QuietCopies ==
    ASSUME HandlesInv, CopyInv, call.op \in {"copyFrom", "copyTo", "copyOn", "seek"},
           call.at = "close" \/ (call.at \in {"attr", "closeTo"} /\ call.op = "copyOn"),
           NEW c, Quiet(c), NEW o, NEW x, Exchanged(c, o, x), RunShape(x),
           x.op = call.op, x.renewed = call.renewed,
           \/ x.at = "done" /\ x.res # "none"
           \/ /\ x.h = call.h /\ x.to = call.to /\ x.res = call.res /\ x.buf = call.buf /\ x.out = call.out
              /\ x.at \in IF call.at = "attr" THEN {"open"} ELSE {"closeTo", "done", "delete"}
              /\ x.at = "delete" => x.res # "none"
              /\ x.at \in {"open", "closeTo", "delete"} => x.op = "copyOn"
    PROVE  CopyInv'
<1>0. Becomes(x) /\ (call.renewed => call'.renewed)
  BY ExchangedBecomes, Renews
<1>1. Command(c)
  BY DEF Quiet, Command, OnHandles, Others
<1>2. server'.files = server.files /\ server'.files \in FileSets /\ pcFile' \in Blocks /\ pcFile' = pcFile
  BY <1>1, QuietKept DEF Exchanged
<1>3. CASE x.at = "done" /\ x.res # "none"
  BY <1>0, <1>2, <1>3, FailedKept DEF Becomes
<1>4. CASE /\ x.h = call.h /\ x.to = call.to /\ x.res = call.res /\ x.buf = call.buf /\ x.out = call.out
           /\ x.at \in IF call.at = "attr" THEN {"open"} ELSE {"closeTo", "done", "delete"}
           /\ x.at = "delete" => x.res # "none"
           /\ x.at \in {"open", "closeTo", "delete"} => x.op = "copyOn"
  <2>1. /\ call'.op = call.op /\ call'.at = x.at /\ call'.res = call.res /\ call'.buf = call.buf
        /\ call'.out = call.out /\ Target' = Target /\ From' = From /\ HasTarget' = HasTarget
    BY <1>0, <1>2, <1>4 DEF Becomes, Target, From, HasTarget
  <2>2. call.op = "copyFrom" => CopiesFrom'
    BY <1>4, <2>1 DEF CopyInv, CopiesFrom
  <2>3. call.op = "copyTo" => CopiesTo'
    BY <1>2, <1>4, <2>1 DEF CopyInv, CopiesTo, Going
  <2>4. call.op = "copyOn" => CopiesOn'
    BY <1>0, <1>4, <2>1 DEF CopyInv, CopiesOn, Going
  <2>5. Writing' /\ Seeks'
    BY <1>4, <2>1 DEF Writing, Going, Seeks, SeekAt
  <2> QED
    BY <1>2, <2>1, <2>2, <2>3, <2>4, <2>5, CopyKept
<1> QED
  BY <1>3, <1>4

LEMMA DeleteCopies ==
    ASSUME HandlesInv, CopyInv, call.at = "delete",
           NEW c, c[1] = "delete", c[2] = "to", NEW o, NEW x, Exchanged(c, o, x), RunShape(x),
           x.op = call.op, x.at = "done", call.op = "copyOn" => x.res = call.res,
           call.op \in {"copyOn", "remove", "rmdir"}
    PROVE  CopyInv'
<1>1. Command(c) /\ Sound(c)
  BY DeleteSound DEF Command, Others
<1>2. o.server.files \in FileSets
  BY <1>1, OutcomeFiles DEF HandlesInv, CopyInv, Exchanged
<1>3. server'.files \in FileSets /\ pcFile' \in Blocks
  BY <1>2 DEF Exchanged, Taken, CopyInv
<1>4. call.op = "copyOn" => call.res # "none"
  BY DEF CopyInv, CopiesOn
<1>5. Becomes(x)
  BY ExchangedBecomes
<1> QED
  BY <1>3, <1>4, <1>5, FailedKept DEF Becomes

(* A step of fseek that goes on holds a position in buf.                   *)
LEMMA SeekCopies ==
    ASSUME HandlesInv, CopyInv, call.at \in SeekAt, call.op = "seek",
           NEW c, \/ c[1] = "seek" /\ c[3] \in Int
                  \/ c[1] = "setsize" /\ c[3] \in Nat,
           NEW o, NEW x, Exchanged(c, o, x), RunShape(x), x.op = call.op,
           \/ x.at = "close"
           \/ /\ o.res = "none" /\ x.h = call.h /\ x.at \in SeekAt \ {"position"}
              /\ (c[1] = "seek" => o.data \in Nat) =>
                   /\ \E pos \in Int, found \in Int : \E mode : x.buf = <<<<pos, mode>>, found>>
                   /\ x.at = "extend" => x.buf[2] \in Nat
    PROVE  CopyInv'
<1>1. /\ o.server.files \in FileSets /\ (o.status = "none" => Positioned(o.server))
      /\ c[1] = "seek" /\ o.res = "none" => o.data \in Nat
  <2>1. /\ ServerShape(server) /\ server.files \in FileSets /\ status \in {"none", "disc"}
        /\ status = "none" => Positioned(server)
        /\ Outcome(c, o)
    BY DEF HandlesInv, CopyInv, Seeks, Exchanged
  <2> QED
    BY <2>1, SeekOutcome
<1>2. /\ server'.files \in FileSets /\ pcFile' \in Blocks /\ (status' = "none" => Positioned(server'))
  BY <1>1 DEF Exchanged, Taken, CopyInv
<1>3. Becomes(x) /\ call'.op = "seek" /\ call'.at = x.at /\ call'.buf = x.buf
  BY ExchangedBecomes DEF Becomes
<1>4. CASE x.at = "close"
  <2>1. Seeks'
    BY <1>3, <1>4 DEF Seeks, SeekAt
  <2> QED
    BY <1>2, <1>3, <2>1, CopyKept
<1>5. CASE /\ o.res = "none" /\ x.h = call.h /\ x.at \in SeekAt \ {"position"}
           /\ (c[1] = "seek" => o.data \in Nat) =>
                   /\ \E pos \in Int, found \in Int : \E mode : x.buf = <<<<pos, mode>>, found>>
                   /\ x.at = "extend" => x.buf[2] \in Nat
  <2>1. call'.h \in Nat
    BY <1>3, <1>5 DEF CopyInv, Seeks, Becomes
  <2>2. Seeks'
    BY <1>1, <1>2, <1>3, <1>5, <2>1 DEF Seeks, SeekAt
  <2> QED
    BY <1>2, <1>3, <2>2, CopyKept
<1> QED
  BY <1>4, <1>5

-----------------------------------------------------------------------------
LEMMA OpenReadStep ==
    ASSUME HandlesInv, CopyInv, Rfsv!OpenRead
    PROVE  HandlesInv' /\ CopyInv'
<1> DEFINE cmd == <<"open", "read", "from">>
           Then(r, d) ==
             IF r # "none" THEN Rfsv!Done(r)
             ELSE [call EXCEPT !.h = d,
                               !.at = CASE call.op = "copyFrom" -> "local"
                                        [] call.op = "copyOn" -> "create" [] OTHER -> "position"]
<1>1. /\ Rfsv!At({"copyFrom", "copyOn", "seek"}, "open")
      /\ \E t \in Rfsv!SendCommand(cmd) : \E o \in Rfsv!GetResponse(t, cmd) :
           /\ faults + o.faults <= MaxFaults /\ faults' = faults + o.faults
           /\ server' = o.server /\ status' = o.status
           /\ call' = [Then(o.res, o.data) EXCEPT !.renewed = @ \/ o.renewed]
           /\ UNCHANGED <<proto, pcFile>>
  BY Zenon DEF Rfsv!OpenRead, Rfsv!Exchange
<1> HIDE DEF cmd, Then
<1>2. PICK o, x : Exchanged(cmd, o, x) /\ x = Then(o.res, o.data)
  BY <1>1 DEF Exchanged, Outcome, Taken
<1>3. /\ RunShape(x) /\ x.op = call.op
      /\ x.to = call.to
      /\ IF o.res = "none" THEN x.h = o.data /\ x.at \in {"local", "create", "position"}
         ELSE x.h = call.h /\ x.at = "done"
  BY <1>1, <1>2 DEF HandlesInv, RunShape, Rfsv!At, Rfsv!Done, Rfsv!Ends, Rfsv!Next_, Then
<1>4. Becomes(x)
  BY <1>2, <1>3, ExchangedBecomes
<1>5. ServerShape(server) /\ status \in {"none", "disc"} /\ Outcome(cmd, o) /\ Taken(o)
  BY <1>2 DEF HandlesInv, Exchanged
<1>6. /\ ServerShape(server)' /\ status' \in {"none", "disc"}
      /\ status' = "none" => o.res # "disc"
      /\ o.res = "none" => o.data \in {1, 2} /\ Live' \subseteq Live \cup {o.data}
      /\ o.res # "none" => Live' \subseteq Live
  BY <1>5, OpenLive DEF cmd
<1>7. HandlesInv'
  BY <1>1, <1>2, <1>3, <1>4, <1>6, HandlesKept
     DEF HandlesInv, Rfsv!At, Exchanged, Becomes, Claims, SourceAt, TargetAt, Live
<1>8. CopyInv'
  <2>1. Live = {}
    BY <1>1, NothingClaimed DEF Rfsv!At, SourceAt, TargetAt
  <2>2. IF o.res = "none"
        THEN /\ x.h = o.data /\ x.res = call.res /\ x.buf = call.buf /\ x.out = call.out
             /\ x.at = IF call.op = "copyFrom" THEN "local" ELSE IF call.op = "copyOn" THEN "create" ELSE "position"
        ELSE x.at = "done" /\ x.res = o.res
    BY <1>1, <1>2 DEF HandlesInv, RunShape, Rfsv!At, Rfsv!Done, Rfsv!Ends, Then
  <2> QED
    BY <1>1, <1>2, <1>3, <1>4, <2>1, <2>2, OpenReadCopies DEF cmd, Rfsv!At
<1> QED
  BY <1>7, <1>8

LEMMA CreateFileStep ==
    ASSUME HandlesInv, CopyInv, Rfsv!CreateFile
    PROVE  HandlesInv' /\ CopyInv'
<1> DEFINE cmd == <<"open", "create", "to">>
           Then(r, d) ==
             IF r # "none" THEN Rfsv!Next_("replace")
             ELSE [call EXCEPT !.to = d, !.at = "fill"]
<1>1. /\ Rfsv!At({"copyTo", "copyOn"}, "create")
      /\ \E t \in Rfsv!SendCommand(cmd) : \E o \in Rfsv!GetResponse(t, cmd) :
           /\ faults + o.faults <= MaxFaults /\ faults' = faults + o.faults
           /\ server' = o.server /\ status' = o.status
           /\ call' = [Then(o.res, o.data) EXCEPT !.renewed = @ \/ o.renewed]
           /\ UNCHANGED <<proto, pcFile>>
  BY Zenon DEF Rfsv!CreateFile, Rfsv!Exchange
<1> HIDE DEF cmd, Then
<1>2. PICK o, x : Exchanged(cmd, o, x) /\ x = Then(o.res, o.data)
  BY <1>1 DEF Exchanged, Outcome, Taken
<1>3. /\ RunShape(x) /\ x.op = call.op
      /\ x.h = call.h
      /\ IF o.res = "none" THEN x.to = o.data /\ x.at = "fill" ELSE x.to = call.to /\ x.at = "replace"
  BY <1>1, <1>2 DEF HandlesInv, RunShape, Rfsv!At, Rfsv!Done, Rfsv!Ends, Rfsv!Next_, Then
<1>4. Becomes(x)
  BY <1>2, <1>3, ExchangedBecomes
<1>5. ServerShape(server) /\ status \in {"none", "disc"} /\ Outcome(cmd, o) /\ Taken(o)
  BY <1>2 DEF HandlesInv, Exchanged
<1>6. /\ ServerShape(server)' /\ status' \in {"none", "disc"}
      /\ status' = "none" => o.res # "disc"
      /\ o.res = "none" => o.data \in {1, 2} /\ Live' \subseteq Live \cup {o.data}
      /\ o.res # "none" => Live' \subseteq Live
  BY <1>5, OpenLive DEF cmd
<1>7. HandlesInv'
  BY <1>1, <1>2, <1>3, <1>4, <1>6, HandlesKept
     DEF HandlesInv, Rfsv!At, Exchanged, Becomes, Claims, SourceAt, TargetAt, Live
<1>8. CopyInv'
  <2>1. /\ x.renewed = call.renewed /\ IF o.res = "none" THEN x.to = o.data /\ x.at = "fill" ELSE x.at = "replace"
        /\ x.h = call.h /\ x.res = call.res /\ x.buf = call.buf /\ x.out = call.out /\ x.eof = call.eof
    BY <1>1, <1>2 DEF HandlesInv, RunShape, Rfsv!Next_, Then
  <2> QED
    BY <1>1, <1>2, <1>3, <2>1, OpenTargetCopies DEF cmd, Rfsv!At
<1> QED
  BY <1>7, <1>8

LEMMA ReplaceFileStep ==
    ASSUME HandlesInv, CopyInv, Rfsv!ReplaceFile
    PROVE  HandlesInv' /\ CopyInv'
<1> DEFINE cmd == <<"open", "replace", "to">>
           Then(r, d) ==
             IF r = "none" THEN [call EXCEPT !.to = d, !.at = "fill"]
             ELSE IF call.op = "copyOn" /\ proto = "32" THEN Rfsv!Ends("close", r)
             ELSE Rfsv!Done(r)
<1>1. /\ Rfsv!At({"copyTo", "copyOn"}, "replace")
      /\ \E t \in Rfsv!SendCommand(cmd) : \E o \in Rfsv!GetResponse(t, cmd) :
           /\ faults + o.faults <= MaxFaults /\ faults' = faults + o.faults
           /\ server' = o.server /\ status' = o.status
           /\ call' = [Then(o.res, o.data) EXCEPT !.renewed = @ \/ o.renewed]
           /\ UNCHANGED <<proto, pcFile>>
  BY Zenon DEF Rfsv!ReplaceFile, Rfsv!Exchange
<1> HIDE DEF cmd, Then
<1>2. PICK o, x : Exchanged(cmd, o, x) /\ x = Then(o.res, o.data)
  BY <1>1 DEF Exchanged, Outcome, Taken
<1>3. /\ RunShape(x) /\ x.op = call.op
      /\ x.h = call.h
      /\ IF o.res = "none" THEN x.to = o.data /\ x.at = "fill"
         ELSE x.to = call.to /\ x.at = IF call.op = "copyOn" /\ proto = "32" THEN "close" ELSE "done"
  BY <1>1, <1>2 DEF HandlesInv, RunShape, Rfsv!At, Rfsv!Done, Rfsv!Ends, Rfsv!Next_, Then
<1>4. Becomes(x)
  BY <1>2, <1>3, ExchangedBecomes
<1>5. ServerShape(server) /\ status \in {"none", "disc"} /\ Outcome(cmd, o) /\ Taken(o)
  BY <1>2 DEF HandlesInv, Exchanged
<1>6. /\ ServerShape(server)' /\ status' \in {"none", "disc"}
      /\ status' = "none" => o.res # "disc"
      /\ o.res = "none" => o.data \in {1, 2} /\ Live' \subseteq Live \cup {o.data}
      /\ o.res # "none" => Live' \subseteq Live
  BY <1>5, OpenLive DEF cmd
<1>7. HandlesInv'
  BY <1>1, <1>2, <1>3, <1>4, <1>6, HandlesKept
     DEF HandlesInv, Rfsv!At, Exchanged, Becomes, Claims, SourceAt, TargetAt, Live
<1>8. CopyInv'
  <2>1. /\ x.renewed = call.renewed
        /\ \/ /\ o.res = "none" /\ x.to = o.data /\ x.at = "fill"
              /\ x.h = call.h /\ x.res = call.res /\ x.buf = call.buf /\ x.out = call.out /\ x.eof = call.eof
           \/ o.res # "none" /\ x.at \in {"close", "done"} /\ x.res # "none"
    BY <1>1, <1>2 DEF HandlesInv, RunShape, Rfsv!Done, Rfsv!Ends, Then
  <2> QED
    BY <1>1, <1>2, <1>3, <2>1, OpenTargetCopies DEF cmd, Rfsv!At
<1> QED
  BY <1>7, <1>8

LEMMA CloseStep ==
    ASSUME HandlesInv, CopyInv, Rfsv!Close
    PROVE  HandlesInv' /\ CopyInv'
<1> DEFINE cmd == <<"close", IF call.op = "copyTo" THEN call.to ELSE call.h>>
           Then(r, d) ==
             IF call.op = "copyOn" /\ call.to # 0 THEN Rfsv!Next_("closeTo") ELSE Rfsv!Next_("done")
<1>1. /\ Rfsv!At((Rfsv!IsCopy \cup {"seek"}), "close")
      /\ \E t \in Rfsv!SendCommand(cmd) : \E o \in Rfsv!GetResponse(t, cmd) :
           /\ faults + o.faults <= MaxFaults /\ faults' = faults + o.faults
           /\ server' = o.server /\ status' = o.status
           /\ call' = [Then(o.res, o.data) EXCEPT !.renewed = @ \/ o.renewed]
           /\ UNCHANGED <<proto, pcFile>>
  BY Zenon DEF Rfsv!Close, Rfsv!Exchange
<1> HIDE DEF cmd, Then
<1>2. PICK o, x : Exchanged(cmd, o, x) /\ x = Then(o.res, o.data)
  BY <1>1 DEF Exchanged, Outcome, Taken
<1>3. /\ RunShape(x) /\ x.op = call.op
      /\ x.to = call.to /\ x.h = call.h
      /\ x.at = IF call.op = "copyOn" /\ call.to # 0 THEN "closeTo" ELSE "done"
  BY <1>1, <1>2 DEF HandlesInv, RunShape, Rfsv!At, Rfsv!Done, Rfsv!Ends, Rfsv!Next_, Then
<1>4. Becomes(x)
  BY <1>2, <1>3, ExchangedBecomes
<1>5. ServerShape(server) /\ status \in {"none", "disc"} /\ Outcome(cmd, o) /\ Taken(o)
  BY <1>2 DEF HandlesInv, Exchanged
<1>6. /\ ServerShape(server)' /\ status' \in {"none", "disc"}
      /\ Live' \subseteq Live \ {IF call.op = "copyTo" THEN call.to ELSE call.h}
  BY <1>5, CloseLive DEF cmd
<1>7. HandlesInv'
  BY <1>1, <1>2, <1>3, <1>4, <1>6, HandlesKept
     DEF HandlesInv, Rfsv!At, Exchanged, Becomes, Claims, SourceAt, TargetAt, Live
<1>8. CopyInv'
  <2>1. /\ x.renewed = call.renewed /\ x.h = call.h /\ x.to = call.to /\ x.res = call.res
        /\ x.buf = call.buf /\ x.out = call.out
        /\ x.at = "done" \/ (x.at = "closeTo" /\ x.op = "copyOn")
    BY <1>1, <1>2 DEF HandlesInv, RunShape, Rfsv!Next_, Then
  <2> QED
    BY <1>1, <1>2, <1>3, <2>1, QuietCopies DEF cmd, Quiet, Rfsv!At, Rfsv!IsCopy
<1> QED
  BY <1>7, <1>8

LEMMA CloseToStep ==
    ASSUME HandlesInv, CopyInv, Rfsv!CloseTo
    PROVE  HandlesInv' /\ CopyInv'
<1> DEFINE cmd == <<"close", call.to>>
           Then(r, d) ==
             IF proto = "32" /\ call.res # "none" THEN Rfsv!Next_("delete") ELSE Rfsv!Next_("done")
<1>1. /\ Rfsv!At({"copyOn"}, "closeTo")
      /\ \E t \in Rfsv!SendCommand(cmd) : \E o \in Rfsv!GetResponse(t, cmd) :
           /\ faults + o.faults <= MaxFaults /\ faults' = faults + o.faults
           /\ server' = o.server /\ status' = o.status
           /\ call' = [Then(o.res, o.data) EXCEPT !.renewed = @ \/ o.renewed]
           /\ UNCHANGED <<proto, pcFile>>
  BY Zenon DEF Rfsv!CloseTo, Rfsv!Exchange
<1> HIDE DEF cmd, Then
<1>2. PICK o, x : Exchanged(cmd, o, x) /\ x = Then(o.res, o.data)
  BY <1>1 DEF Exchanged, Outcome, Taken
<1>3. /\ RunShape(x) /\ x.op = call.op
      /\ x.to = call.to /\ x.h = call.h /\ x.at \in {"delete", "done"}
  BY <1>1, <1>2 DEF HandlesInv, RunShape, Rfsv!At, Rfsv!Done, Rfsv!Ends, Rfsv!Next_, Then
<1>4. Becomes(x)
  BY <1>2, <1>3, ExchangedBecomes
<1>5. ServerShape(server) /\ status \in {"none", "disc"} /\ Outcome(cmd, o) /\ Taken(o)
  BY <1>2 DEF HandlesInv, Exchanged
<1>6. /\ ServerShape(server)' /\ status' \in {"none", "disc"} /\ Live' \subseteq Live \ {call.to}
  BY <1>5, CloseLive DEF cmd
<1>7. HandlesInv'
  BY <1>1, <1>2, <1>3, <1>4, <1>6, HandlesKept
     DEF HandlesInv, Rfsv!At, Exchanged, Becomes, Claims, SourceAt, TargetAt, Live
<1>8. CopyInv'
  <2>1. /\ x.renewed = call.renewed /\ x.h = call.h /\ x.to = call.to /\ x.res = call.res
        /\ x.buf = call.buf /\ x.out = call.out
        /\ x.at = "done" \/ (x.at = "delete" /\ x.res # "none")
    BY <1>1, <1>2 DEF HandlesInv, RunShape, Rfsv!Next_, Then
  <2> QED
    BY <1>1, <1>2, <1>3, <2>1, QuietCopies DEF cmd, Quiet, Rfsv!At
<1> QED
  BY <1>7, <1>8

LEMMA FreadStep ==
    ASSUME HandlesInv, CopyInv, Rfsv!Fread
    PROVE  HandlesInv' /\ CopyInv'
<1> DEFINE cmd == <<"read", call.h, Rfsv!Asked(SendLen - Len(call.buf))>>
           Then(r, d) ==
             LET end == r = "eof" /\ proto = "16"
                 more == [call EXCEPT !.buf = IF r = "none" THEN @ \o d ELSE @]
             IN  IF r # "none" /\ ~ end THEN Rfsv!Ends("close", r)
                 ELSE IF ~ Rfsv!ReadDone(r, d) THEN more
                 ELSE IF call.op = "copyFrom" THEN [more EXCEPT !.at = "callback"]
                 ELSE IF more.buf = <<>> THEN [more EXCEPT !.at = "close"]
                 ELSE [more EXCEPT !.at = "write"]
<1>1. /\ Rfsv!At({"copyFrom", "copyOn"}, "read")
      /\ \E t \in Rfsv!SendCommand(cmd) : \E o \in Rfsv!GetResponse(t, cmd) :
           /\ faults + o.faults <= MaxFaults /\ faults' = faults + o.faults
           /\ server' = o.server /\ status' = o.status
           /\ call' = [Then(o.res, o.data) EXCEPT !.renewed = @ \/ o.renewed]
           /\ UNCHANGED <<proto, pcFile>>
  BY Zenon DEF Rfsv!Fread, Rfsv!Exchange
<1> HIDE DEF cmd, Then
<1>2. PICK o, x : Exchanged(cmd, o, x) /\ x = Then(o.res, o.data)
  BY <1>1 DEF Exchanged, Outcome, Taken
<1>3. /\ RunShape(x) /\ x.op = call.op
      /\ x.to = call.to /\ x.h = call.h /\ x.at \in {"close", "read", "callback", "write"}
  BY <1>1, <1>2 DEF HandlesInv, RunShape, Rfsv!At, Rfsv!Done, Rfsv!Ends, Rfsv!Next_, Then
<1>4. Becomes(x)
  BY <1>2, <1>3, ExchangedBecomes
<1>5. ServerShape(server) /\ status \in {"none", "disc"} /\ Outcome(cmd, o) /\ Taken(o)
  BY <1>2 DEF HandlesInv, Exchanged
<1>6. /\ ServerShape(server)' /\ status' \in {"none", "disc"} /\ Live' \subseteq Live
      /\ status' = "none" => o.res # "disc"
  BY <1>5, OtherLive DEF OnHandles, Others, cmd
<1>7. HandlesInv'
  BY <1>1, <1>2, <1>3, <1>4, <1>6, HandlesKept
     DEF HandlesInv, Rfsv!At, Exchanged, Becomes, Claims, SourceAt, TargetAt, Live
<1>8. CopyInv'
  <2>1. IF o.res = "none" \/ (o.res = "eof" /\ proto = "16")
        THEN /\ x.to = call.to /\ x.res = call.res /\ x.out = call.out
             /\ x.buf = IF o.res = "none" THEN call.buf ++ o.data ELSE call.buf
             /\ IF call.op = "copyFrom" THEN x.at \in {"read", "callback"}
                ELSE x.at \in {"read", "close", "write"}
             /\ (o.res = "eof" \/ o.data = <<>>) => x.at # "read"
             /\ x.at = "close" <=> call.op = "copyOn" /\ x.buf = <<>>
        ELSE x.at = "close" /\ x.res # "none"
    <3>1. CASE ~ (o.res = "none" \/ (o.res = "eof" /\ proto = "16"))
      BY <1>2, <3>1 DEF HandlesInv, RunShape, Rfsv!Ends, Then
    <3>2. CASE o.res = "none" \/ (o.res = "eof" /\ proto = "16")
      BY <1>1, <1>2, <3>2 DEF HandlesInv, RunShape, Rfsv!ReadDone, Rfsv!At, Then, ++
    <3> QED
      BY <3>1, <3>2
  <2>2. x.renewed = call.renewed
    BY <1>2 DEF HandlesInv, RunShape, Rfsv!Ends, Then
  <2>3. cmd[1] = "read" /\ cmd[2] = call.h /\ cmd[3] \in Int
    <3>1. call.buf \in Blocks
      BY <1>1 DEF CopyInv, CopiesFrom, Writing, Going, Rfsv!At
    <3>2. Rfsv!Asked(SendLen - Len(call.buf)) \in Int
      BY <3>1, BlocksLen, RfsvAssumption DEF Rfsv!Asked
    <3> QED
      BY <3>2 DEF cmd
  <2> QED
    BY <1>1, <1>2, <1>3, <2>1, <2>2, <2>3, FreadCopies DEF Rfsv!At
<1> QED
  BY <1>7, <1>8

LEMMA ReadWriteStep ==
    ASSUME HandlesInv, CopyInv, Rfsv!ReadWrite
    PROVE  HandlesInv' /\ CopyInv'
<1> DEFINE cmd == <<"readwrite", call.h, OnLen, call.to>>
           Then(cancel, r, d) ==
             IF Rfsv!Unsent(r, d) THEN Rfsv!Done(r)
             ELSE IF r # "none" THEN Rfsv!Ends("close", r)
             ELSE [call EXCEPT !.res = IF cancel THEN "cancel" ELSE @,
                               !.at = IF cancel \/ d # OnLen THEN "close" ELSE @]
<1>1. PICK cancel \in BOOLEAN :
      /\ Rfsv!At({"copyOn"}, "readwrite")
      /\ \E t \in Rfsv!SendCommand(cmd) : \E o \in Rfsv!GetResponse(t, cmd) :
           /\ faults + o.faults <= MaxFaults /\ faults' = faults + o.faults
           /\ server' = o.server /\ status' = o.status
           /\ call' = [Then(cancel, o.res, o.data) EXCEPT !.renewed = @ \/ o.renewed]
           /\ UNCHANGED <<proto, pcFile>>
  BY Zenon DEF Rfsv!ReadWrite, Rfsv!Exchange
<1> HIDE DEF cmd, Then
<1>2. PICK o, x : Exchanged(cmd, o, x) /\ x = Then(cancel, o.res, o.data)
  BY <1>1 DEF Exchanged, Outcome, Taken
<1>3. /\ RunShape(x) /\ x.op = call.op
      /\ x.to = call.to /\ x.h = call.h /\ x.at \in {"close", "done", "readwrite"}
      /\ x.at = "done" => o.res = "disc"
  BY <1>1, <1>2 DEF HandlesInv, RunShape, Rfsv!At, Rfsv!Done, Rfsv!Ends, Rfsv!Next_, Then, Rfsv!Unsent
<1>4. Becomes(x)
  BY <1>2, <1>3, ExchangedBecomes
<1>5. ServerShape(server) /\ status \in {"none", "disc"} /\ Outcome(cmd, o) /\ Taken(o)
  BY <1>2 DEF HandlesInv, Exchanged
<1>6. /\ ServerShape(server)' /\ status' \in {"none", "disc"} /\ Live' \subseteq Live
      /\ status' = "none" => o.res # "disc"
  BY <1>5, OtherLive DEF OnHandles, Others, cmd
<1>7. HandlesInv'
  BY <1>1, <1>2, <1>3, <1>4, <1>6, HandlesKept
     DEF HandlesInv, Rfsv!At, Exchanged, Becomes, Claims, SourceAt, TargetAt, Live
<1>8. CopyInv'
  <2>1. /\ x.renewed = call.renewed
        /\ \/ x.at \in {"close", "done"} /\ x.res # "none"
           \/ /\ o.res = "none" /\ x.h = call.h /\ x.to = call.to /\ x.res = call.res /\ x.buf = call.buf
              /\ x.at \in {"close", "readwrite"} /\ (x.at = "close" => o.data # OnLen)
    BY <1>1, <1>2 DEF HandlesInv, RunShape, Rfsv!At, Rfsv!Unsent, Rfsv!Done, Rfsv!Ends, Then
  <2>2. cmd[1] = "readwrite" /\ cmd[2] = call.h /\ cmd[3] = OnLen /\ OnLen \in Nat /\ cmd[4] = call.to
    BY RfsvAssumption DEF cmd
  <2> QED
    BY <1>1, <1>2, <1>3, <2>1, <2>2, ReadWriteCopies DEF Rfsv!At
<1> QED
  BY <1>7, <1>8

LEMMA FwriteSends ==
    ASSUME HandlesInv, CopyInv, Rfsv!Fwrite, call.buf # <<>>
    PROVE  HandlesInv' /\ CopyInv'
<1> DEFINE cmd == <<"write", call.to, SubSeq(call.buf, 1, Rfsv!Clamp(Rfsv!Asked(SendLen), Len(call.buf)))>>
           Then(r, d) ==
             IF r # "none" THEN Rfsv!Ends("close", r)
             ELSE [call EXCEPT !.buf = SubSeq(@, Rfsv!Clamp(Rfsv!Asked(SendLen), Len(call.buf)) + 1, Len(@))]
<1>1. /\ Rfsv!At({"copyTo", "copyOn"}, "write")
      /\ \E t \in Rfsv!SendCommand(cmd) : \E o \in Rfsv!GetResponse(t, cmd) :
           /\ faults + o.faults <= MaxFaults /\ faults' = faults + o.faults
           /\ server' = o.server /\ status' = o.status
           /\ call' = [Then(o.res, o.data) EXCEPT !.renewed = @ \/ o.renewed]
           /\ UNCHANGED <<proto, pcFile>>
  BY Zenon DEF Rfsv!Fwrite, Rfsv!Exchange
<1> HIDE DEF cmd, Then
<1>2. PICK o, x : Exchanged(cmd, o, x) /\ x = Then(o.res, o.data)
  BY <1>1 DEF Exchanged, Outcome, Taken
<1>3. /\ RunShape(x) /\ x.op = call.op
      /\ x.to = call.to /\ x.h = call.h /\ x.at \in {"close", "write"}
  BY <1>1, <1>2 DEF HandlesInv, RunShape, Rfsv!At, Rfsv!Done, Rfsv!Ends, Rfsv!Next_, Then
<1>4. Becomes(x)
  BY <1>2, <1>3, ExchangedBecomes
<1>5. ServerShape(server) /\ status \in {"none", "disc"} /\ Outcome(cmd, o) /\ Taken(o)
  BY <1>2 DEF HandlesInv, Exchanged
<1>6. /\ ServerShape(server)' /\ status' \in {"none", "disc"} /\ Live' \subseteq Live
      /\ status' = "none" => o.res # "disc"
  BY <1>5, OtherLive DEF OnHandles, Others, cmd
<1>7. HandlesInv'
  BY <1>1, <1>2, <1>3, <1>4, <1>6, HandlesKept
     DEF HandlesInv, Rfsv!At, Exchanged, Becomes, Claims, SourceAt, TargetAt, Live
<1>8. CopyInv'
  <2>1. PICK n \in Nat : n = Rfsv!Clamp(Rfsv!Asked(SendLen), Len(call.buf)) /\ n <= Len(call.buf)
    <3>1. Len(call.buf) \in Nat
      BY <1>1, BlocksLen DEF CopyInv, Writing, Going, Rfsv!At
    <3>2. Rfsv!Asked(SendLen) \in Nat
      BY RfsvAssumption DEF Rfsv!Asked
    <3> QED
      BY <3>1, <3>2 DEF Rfsv!Clamp
  <2>2. cmd[1] = "write" /\ cmd[2] = call.to /\ cmd[3] = UpTo(call.buf, n)
    BY <2>1 DEF cmd, UpTo, Part
  <2>3. /\ x.renewed = call.renewed
        /\ IF o.res = "none"
           THEN /\ x.h = call.h /\ x.to = call.to /\ x.res = call.res /\ x.out = call.out /\ x.eof = call.eof
                /\ x.at = "write" /\ x.buf = Part(call.buf, n, Len(call.buf))
           ELSE x.at = "close" /\ x.res # "none"
    BY <1>1, <1>2, <2>1 DEF HandlesInv, RunShape, Rfsv!At, Rfsv!Ends, Then, Part
  <2> QED
    BY <1>1, <1>2, <1>3, <2>1, <2>2, <2>3, FwriteCopies DEF Rfsv!At
<1> QED
  BY <1>7, <1>8

LEMMA DeleteFileStep ==
    ASSUME HandlesInv, CopyInv, Rfsv!Delete
    PROVE  HandlesInv' /\ CopyInv'
<1> DEFINE cmd == <<"delete", "to">>
           Then(r, d) == Rfsv!Done(IF call.op = "copyOn" THEN call.res ELSE r)
<1>1. /\ Rfsv!At({"copyOn", "remove", "rmdir"}, "delete")
      /\ \E t \in Rfsv!SendCommand(cmd) : \E o \in Rfsv!GetResponse(t, cmd) :
           /\ faults + o.faults <= MaxFaults /\ faults' = faults + o.faults
           /\ server' = o.server /\ status' = o.status
           /\ call' = [Then(o.res, o.data) EXCEPT !.renewed = @ \/ o.renewed]
           /\ UNCHANGED <<proto, pcFile>>
  BY Zenon DEF Rfsv!Delete, Rfsv!Exchange
<1> HIDE DEF cmd, Then
<1>0. Live = {}
  BY <1>1, NothingClaimed DEF Rfsv!At, SourceAt, TargetAt
<1>2. PICK o, x : Exchanged(cmd, o, x) /\ x = Then(o.res, o.data)
  BY <1>1 DEF Exchanged, Outcome, Taken
<1>3. /\ RunShape(x) /\ x.op = call.op
      /\ x.to = call.to /\ x.h = call.h /\ x.at = "done"
  BY <1>1, <1>2 DEF HandlesInv, RunShape, Rfsv!At, Rfsv!Done, Rfsv!Ends, Rfsv!Next_, Then
<1>4. Becomes(x)
  BY <1>2, <1>3, ExchangedBecomes
<1>5. ServerShape(server) /\ status \in {"none", "disc"} /\ Outcome(cmd, o) /\ Taken(o)
  BY <1>2 DEF HandlesInv, Exchanged
<1>6. /\ ServerShape(server)' /\ status' \in {"none", "disc"} /\ Live' \subseteq Live
      /\ status' = "none" => o.res # "disc"
  BY <1>5, OtherLive DEF OnHandles, Others, cmd
<1>7. HandlesInv'
  BY <1>0, <1>1, <1>2, <1>3, <1>4, <1>6, HandlesKept
     DEF HandlesInv, Rfsv!At, Exchanged, Becomes, Claims, SourceAt, TargetAt, Live
<1>8. CopyInv'
  <2>1. call.op = "copyOn" => x.res = call.res
    BY <1>2 DEF HandlesInv, RunShape, Rfsv!Done, Rfsv!Ends, Then
  <2> QED
    BY <1>1, <1>2, <1>3, <2>1, DeleteCopies DEF cmd, Rfsv!At
<1> QED
  BY <1>7, <1>8

LEMMA OtherStep ==
    ASSUME HandlesInv, CopyInv, Rfsv!Other
    PROVE  HandlesInv' /\ CopyInv'
<1> DEFINE cmd == <<"attr", "from">>
           Then(r, d) == Rfsv!Done(r)
<1>1. /\ Rfsv!At({"other", "rmdir"}, "other")
      /\ \E t \in Rfsv!SendCommand(cmd) : \E o \in Rfsv!GetResponse(t, cmd) :
           /\ faults + o.faults <= MaxFaults /\ faults' = faults + o.faults
           /\ server' = o.server /\ status' = o.status
           /\ call' = [Then(o.res, o.data) EXCEPT !.renewed = @ \/ o.renewed]
           /\ UNCHANGED <<proto, pcFile>>
  BY Zenon DEF Rfsv!Other, Rfsv!Exchange
<1> HIDE DEF cmd, Then
<1>0. Live = {}
  BY <1>1, NothingClaimed DEF Rfsv!At, SourceAt, TargetAt
<1>2. PICK o, x : Exchanged(cmd, o, x) /\ x = Then(o.res, o.data)
  BY <1>1 DEF Exchanged, Outcome, Taken
<1>3. /\ RunShape(x) /\ x.op = call.op
      /\ x.to = call.to /\ x.h = call.h /\ x.at = "done"
  BY <1>1, <1>2 DEF HandlesInv, RunShape, Rfsv!At, Rfsv!Done, Rfsv!Ends, Rfsv!Next_, Then
<1>4. Becomes(x)
  BY <1>2, <1>3, ExchangedBecomes
<1>5. ServerShape(server) /\ status \in {"none", "disc"} /\ Outcome(cmd, o) /\ Taken(o)
  BY <1>2 DEF HandlesInv, Exchanged
<1>6. /\ ServerShape(server)' /\ status' \in {"none", "disc"} /\ Live' \subseteq Live
      /\ status' = "none" => o.res # "disc"
  BY <1>5, OtherLive DEF OnHandles, Others, cmd
<1>7. HandlesInv'
  BY <1>0, <1>1, <1>2, <1>3, <1>4, <1>6, HandlesKept
     DEF HandlesInv, Rfsv!At, Exchanged, Becomes, Claims, SourceAt, TargetAt, Live
<1>8. CopyInv'
  BY <1>1, <1>2, <1>3, <1>4, OthersKept DEF cmd, Quiet, Rfsv!At
<1> QED
  BY <1>7, <1>8

LEMMA GetAttrStep ==
    ASSUME HandlesInv, CopyInv, Rfsv!GetAttr
    PROVE  HandlesInv' /\ CopyInv'
<1> DEFINE cmd == <<"attr", IF call.op = "copyOn" THEN "from" ELSE "to">>
           Then(r, d) ==
             IF r # "none" THEN Rfsv!Done(r)
             ELSE IF call.op = "rmdir" THEN Rfsv!Done("dir")
             ELSE Rfsv!Next_("open")
<1>1. /\ Rfsv!At({"copyOn", "rmdir"}, "attr")
      /\ \E t \in Rfsv!SendCommand(cmd) : \E o \in Rfsv!GetResponse(t, cmd) :
           /\ faults + o.faults <= MaxFaults /\ faults' = faults + o.faults
           /\ server' = o.server /\ status' = o.status
           /\ call' = [Then(o.res, o.data) EXCEPT !.renewed = @ \/ o.renewed]
           /\ UNCHANGED <<proto, pcFile>>
  BY Zenon DEF Rfsv!GetAttr, Rfsv!Exchange
<1> HIDE DEF cmd, Then
<1>0. Live = {}
  BY <1>1, NothingClaimed DEF Rfsv!At, SourceAt, TargetAt
<1>2. PICK o, x : Exchanged(cmd, o, x) /\ x = Then(o.res, o.data)
  BY <1>1 DEF Exchanged, Outcome, Taken
<1>3. /\ RunShape(x) /\ x.op = call.op
      /\ x.to = call.to /\ x.h = call.h /\ x.at \in {"done", "open"}
  BY <1>1, <1>2 DEF HandlesInv, RunShape, Rfsv!At, Rfsv!Done, Rfsv!Ends, Rfsv!Next_, Then
<1>4. Becomes(x)
  BY <1>2, <1>3, ExchangedBecomes
<1>5. ServerShape(server) /\ status \in {"none", "disc"} /\ Outcome(cmd, o) /\ Taken(o)
  BY <1>2 DEF HandlesInv, Exchanged
<1>6. /\ ServerShape(server)' /\ status' \in {"none", "disc"} /\ Live' \subseteq Live
      /\ status' = "none" => o.res # "disc"
  BY <1>5, OtherLive DEF OnHandles, Others, cmd
<1>7. HandlesInv'
  BY <1>0, <1>1, <1>2, <1>3, <1>4, <1>6, HandlesKept
     DEF HandlesInv, Rfsv!At, Exchanged, Becomes, Claims, SourceAt, TargetAt, Live
<1>8. CopyInv'
  <2>1. CASE call.op = "rmdir"
    BY <1>1, <1>2, <1>3, <1>4, <2>1, OthersKept DEF cmd, Quiet
  <2>2. CASE call.op = "copyOn"
    <3>1. /\ x.renewed = call.renewed
          /\ \/ x.at = "done" /\ x.res # "none"
             \/ /\ x.h = call.h /\ x.to = call.to /\ x.res = call.res /\ x.buf = call.buf /\ x.out = call.out
                /\ x.at = "open"
      BY <1>2, <2>2 DEF HandlesInv, RunShape, Rfsv!Next_, Rfsv!Done, Rfsv!Ends, Then
    <3> QED
      BY <1>1, <1>2, <1>3, <2>2, <3>1, QuietCopies DEF cmd, Quiet, Rfsv!At
  <2> QED
    BY <1>1, <2>1, <2>2 DEF Rfsv!At
<1> QED
  BY <1>7, <1>8

LEMMA OpenDirStep ==
    ASSUME HandlesInv, CopyInv, Rfsv!OpenDir
    PROVE  HandlesInv' /\ CopyInv'
<1> DEFINE cmd == <<"open", "dir", "dir">>
           Then(r, d) ==
             IF r = "none" THEN [call EXCEPT !.h = d, !.at = "readdir"]
             ELSE IF call.op = "dircount" /\ proto = "32" THEN Rfsv!Done(r)
             ELSE Rfsv!Ends("closedir", r)
<1>1. /\ Rfsv!At({"dir", "dircount"}, "opendir")
      /\ \E t \in Rfsv!SendCommand(cmd) : \E o \in Rfsv!GetResponse(t, cmd) :
           /\ faults + o.faults <= MaxFaults /\ faults' = faults + o.faults
           /\ server' = o.server /\ status' = o.status
           /\ call' = [Then(o.res, o.data) EXCEPT !.renewed = @ \/ o.renewed]
           /\ UNCHANGED <<proto, pcFile>>
  BY Zenon DEF Rfsv!OpenDir, Rfsv!Exchange
<1> HIDE DEF cmd, Then
<1>0. Live = {}
  BY <1>1, NothingClaimed DEF Rfsv!At, SourceAt, TargetAt
<1>2. PICK o, x : Exchanged(cmd, o, x) /\ x = Then(o.res, o.data)
  BY <1>1 DEF Exchanged, Outcome, Taken
<1>3. /\ RunShape(x) /\ x.op = call.op
      /\ x.to = call.to
      /\ IF o.res = "none" THEN x.h = o.data /\ x.at = "readdir"
         ELSE x.h = call.h /\ x.at \in {"done", "closedir"}
  BY <1>1, <1>2 DEF HandlesInv, RunShape, Rfsv!At, Rfsv!Done, Rfsv!Ends, Rfsv!Next_, Then
<1>4. Becomes(x)
  BY <1>2, <1>3, ExchangedBecomes
<1>5. ServerShape(server) /\ status \in {"none", "disc"} /\ Outcome(cmd, o) /\ Taken(o)
  BY <1>2 DEF HandlesInv, Exchanged
<1>6. /\ ServerShape(server)' /\ status' \in {"none", "disc"}
      /\ status' = "none" => o.res # "disc"
      /\ o.res = "none" => o.data \in {1, 2} /\ Live' \subseteq Live \cup {o.data}
      /\ o.res # "none" => Live' \subseteq Live
  BY <1>5, OpenLive DEF cmd
<1>7. HandlesInv'
  BY <1>0, <1>1, <1>2, <1>3, <1>4, <1>6, HandlesKept
     DEF HandlesInv, Rfsv!At, Exchanged, Becomes, Claims, SourceAt, TargetAt, Live
<1>8. CopyInv'
  BY <1>1, <1>2, <1>3, <1>4, OthersKept DEF cmd, Quiet, Rfsv!At
<1> QED
  BY <1>7, <1>8

LEMMA ReadDirStep ==
    ASSUME HandlesInv, CopyInv, Rfsv!ReadDir
    PROVE  HandlesInv' /\ CopyInv'
<1> DEFINE cmd == <<"readdir", call.h>>
           Then(r, d) ==
             IF call.op = "dircount" /\ proto = "32" /\ Rfsv!Unsent(r, d) THEN Rfsv!Done(r)
             ELSE IF r # "none" THEN Rfsv!Ends("closedir", r)
             ELSE [call EXCEPT !.out = @ \o d]
<1>1. /\ Rfsv!At({"dir", "dircount"}, "readdir")
      /\ \E t \in Rfsv!SendCommand(cmd) : \E o \in Rfsv!GetResponse(t, cmd) :
           /\ faults + o.faults <= MaxFaults /\ faults' = faults + o.faults
           /\ server' = o.server /\ status' = o.status
           /\ call' = [Then(o.res, o.data) EXCEPT !.renewed = @ \/ o.renewed]
           /\ UNCHANGED <<proto, pcFile>>
  BY Zenon DEF Rfsv!ReadDir, Rfsv!Exchange
<1> HIDE DEF cmd, Then
<1>2. PICK o, x : Exchanged(cmd, o, x) /\ x = Then(o.res, o.data)
  BY <1>1 DEF Exchanged, Outcome, Taken
<1>3. /\ RunShape(x) /\ x.op = call.op
      /\ x.to = call.to /\ x.h = call.h /\ x.at \in {"done", "closedir", "readdir"}
      /\ x.at = "done" => o.res = "disc"
  BY <1>1, <1>2 DEF HandlesInv, RunShape, Rfsv!At, Rfsv!Done, Rfsv!Ends, Rfsv!Next_, Then, Rfsv!Unsent
<1>4. Becomes(x)
  BY <1>2, <1>3, ExchangedBecomes
<1>5. ServerShape(server) /\ status \in {"none", "disc"} /\ Outcome(cmd, o) /\ Taken(o)
  BY <1>2 DEF HandlesInv, Exchanged
<1>6. /\ ServerShape(server)' /\ status' \in {"none", "disc"} /\ Live' \subseteq Live
      /\ status' = "none" => o.res # "disc"
  BY <1>5, OtherLive DEF OnHandles, Others, cmd
<1>7. HandlesInv'
  BY <1>1, <1>2, <1>3, <1>4, <1>6, HandlesKept
     DEF HandlesInv, Rfsv!At, Exchanged, Becomes, Claims, SourceAt, TargetAt, Live
<1>8. CopyInv'
  BY <1>1, <1>2, <1>3, <1>4, OthersKept DEF cmd, Quiet, Rfsv!At
<1> QED
  BY <1>7, <1>8

LEMMA CloseDirStep ==
    ASSUME HandlesInv, CopyInv, Rfsv!CloseDir
    PROVE  HandlesInv' /\ CopyInv'
<1> DEFINE cmd(h) == <<"close", h>>
           Then(r, d) == Rfsv!Done(IF call.res = "eof" THEN "none" ELSE call.res)
<1>1. PICK h \in IF call.h = 0 THEN 0 .. 2 ELSE {call.h} :
      /\ Rfsv!At({"dir", "dircount"}, "closedir")
      /\ \E t \in Rfsv!SendCommand(cmd(h)) : \E o \in Rfsv!GetResponse(t, cmd(h)) :
           /\ faults + o.faults <= MaxFaults /\ faults' = faults + o.faults
           /\ server' = o.server /\ status' = o.status
           /\ call' = [Then(o.res, o.data) EXCEPT !.renewed = @ \/ o.renewed]
           /\ UNCHANGED <<proto, pcFile>>
  BY Zenon DEF Rfsv!CloseDir, Rfsv!Exchange
<1> HIDE DEF cmd, Then
<1>2. PICK o, x : Exchanged(cmd(h), o, x) /\ x = Then(o.res, o.data)
  BY <1>1 DEF Exchanged, Outcome, Taken
<1>3. /\ RunShape(x) /\ x.op = call.op
      /\ x.to = call.to /\ x.h = call.h /\ x.at = "done"
  BY <1>1, <1>2 DEF HandlesInv, RunShape, Rfsv!At, Rfsv!Done, Rfsv!Ends, Rfsv!Next_, Then
<1>4. Becomes(x)
  BY <1>2, <1>3, ExchangedBecomes
<1>5. ServerShape(server) /\ status \in {"none", "disc"} /\ Outcome(cmd(h), o) /\ Taken(o)
  BY <1>2 DEF HandlesInv, Exchanged
<1>6. /\ ServerShape(server)' /\ status' \in {"none", "disc"} /\ Live' \subseteq Live \ {h}
  BY <1>5, CloseLive DEF cmd
<1>7. Live \subseteq {h}
  <2>1. \A y \in Live : y = call.h /\ y \in {1, 2}
    BY <1>1 DEF HandlesInv, ServerShape, Live, Claims, Rfsv!At, TargetAt
  <2> QED
    BY <1>1, <2>1
<1>8. HandlesInv'
  BY <1>1, <1>2, <1>3, <1>4, <1>6, HandlesKept, <1>7
     DEF HandlesInv, Rfsv!At, Exchanged, Becomes, Claims, SourceAt, TargetAt, Live
<1>9. CopyInv'
  BY <1>1, <1>2, <1>3, <1>4, OthersKept DEF cmd, Quiet, Rfsv!At
<1> QED
  BY <1>8, <1>9

LEMMA DevList32 ==
    ASSUME HandlesInv, CopyInv, Rfsv!DevList, proto = "32"
    PROVE  HandlesInv' /\ CopyInv'
<1> DEFINE cmd == <<"devlist", "x">>
           Then(r, d) ==
             IF r # "none" THEN Rfsv!Done(r) ELSE [call EXCEPT !.buf = Rfsv!SetToSeq(d), !.at = "devinfo"]
<1>1. /\ Rfsv!At({"drives"}, "devlist")
      /\ \E t \in Rfsv!SendCommand(cmd) : \E o \in Rfsv!GetResponse(t, cmd) :
           /\ faults + o.faults <= MaxFaults /\ faults' = faults + o.faults
           /\ server' = o.server /\ status' = o.status
           /\ call' = [Then(o.res, o.data) EXCEPT !.renewed = @ \/ o.renewed]
           /\ UNCHANGED <<proto, pcFile>>
  BY Zenon DEF Rfsv!DevList, Rfsv!Exchange
<1> HIDE DEF cmd, Then
<1>0. Live = {}
  BY <1>1, NothingClaimed DEF Rfsv!At, SourceAt, TargetAt
<1>2. PICK o, x : Exchanged(cmd, o, x) /\ x = Then(o.res, o.data)
  BY <1>1 DEF Exchanged, Outcome, Taken
<1>3. /\ RunShape(x) /\ x.op = call.op
      /\ x.to = call.to /\ x.h = call.h /\ x.at \in {"done", "devinfo"}
  BY <1>1, <1>2 DEF HandlesInv, RunShape, Rfsv!At, Rfsv!Done, Rfsv!Ends, Rfsv!Next_, Then
<1>4. Becomes(x)
  BY <1>2, <1>3, ExchangedBecomes
<1>5. ServerShape(server) /\ status \in {"none", "disc"} /\ Outcome(cmd, o) /\ Taken(o)
  BY <1>2 DEF HandlesInv, Exchanged
<1>6. /\ ServerShape(server)' /\ status' \in {"none", "disc"} /\ Live' \subseteq Live
      /\ status' = "none" => o.res # "disc"
  BY <1>5, OtherLive DEF OnHandles, Others, cmd
<1>7. HandlesInv'
  BY <1>0, <1>1, <1>2, <1>3, <1>4, <1>6, HandlesKept
     DEF HandlesInv, Rfsv!At, Exchanged, Becomes, Claims, SourceAt, TargetAt, Live
<1>8. CopyInv'
  BY <1>1, <1>2, <1>3, <1>4, OthersKept DEF cmd, Quiet, Rfsv!At
<1> QED
  BY <1>7, <1>8

LEMMA DevList16 ==
    ASSUME HandlesInv, CopyInv, Rfsv!DevList, proto # "32"
    PROVE  HandlesInv' /\ CopyInv'
<1> DEFINE cmd == <<"parse", "x">>
           Then(r, d) == IF r # "none" THEN Rfsv!Done(r) ELSE Rfsv!Next_("devopen")
<1>1. /\ Rfsv!At({"drives"}, "devlist")
      /\ \E t \in Rfsv!SendCommand(cmd) : \E o \in Rfsv!GetResponse(t, cmd) :
           /\ faults + o.faults <= MaxFaults /\ faults' = faults + o.faults
           /\ server' = o.server /\ status' = o.status
           /\ call' = [Then(o.res, o.data) EXCEPT !.renewed = @ \/ o.renewed]
           /\ UNCHANGED <<proto, pcFile>>
  BY Zenon DEF Rfsv!DevList, Rfsv!Exchange
<1> HIDE DEF cmd, Then
<1>0. Live = {}
  BY <1>1, NothingClaimed DEF Rfsv!At, SourceAt, TargetAt
<1>2. PICK o, x : Exchanged(cmd, o, x) /\ x = Then(o.res, o.data)
  BY <1>1 DEF Exchanged, Outcome, Taken
<1>3. /\ RunShape(x) /\ x.op = call.op
      /\ x.to = call.to /\ x.h = call.h /\ x.at \in {"done", "devopen"}
  BY <1>1, <1>2 DEF HandlesInv, RunShape, Rfsv!At, Rfsv!Done, Rfsv!Ends, Rfsv!Next_, Then
<1>4. Becomes(x)
  BY <1>2, <1>3, ExchangedBecomes
<1>5. ServerShape(server) /\ status \in {"none", "disc"} /\ Outcome(cmd, o) /\ Taken(o)
  BY <1>2 DEF HandlesInv, Exchanged
<1>6. /\ ServerShape(server)' /\ status' \in {"none", "disc"} /\ Live' \subseteq Live
      /\ status' = "none" => o.res # "disc"
  BY <1>5, OtherLive DEF OnHandles, Others, cmd
<1>7. HandlesInv'
  BY <1>0, <1>1, <1>2, <1>3, <1>4, <1>6, HandlesKept
     DEF HandlesInv, Rfsv!At, Exchanged, Becomes, Claims, SourceAt, TargetAt, Live
<1>8. CopyInv'
  BY <1>1, <1>2, <1>3, <1>4, OthersKept DEF cmd, Quiet, Rfsv!At
<1> QED
  BY <1>7, <1>8

LEMMA DevOpenStep ==
    ASSUME HandlesInv, CopyInv, Rfsv!DevOpen
    PROVE  HandlesInv' /\ CopyInv'
<1> DEFINE cmd == <<"open", "dir", "drives">>
           Then(r, d) ==
             CASE r = "none" -> [call EXCEPT !.h = d, !.at = "devread"]
               [] r = "disc" -> Rfsv!Done(r)
               [] OTHER -> Rfsv!Next_("devinfo")
<1>1. /\ Rfsv!At({"drives"}, "devopen")
      /\ \E t \in Rfsv!SendCommand(cmd) : \E o \in Rfsv!GetResponse(t, cmd) :
           /\ faults + o.faults <= MaxFaults /\ faults' = faults + o.faults
           /\ server' = o.server /\ status' = o.status
           /\ call' = [Then(o.res, o.data) EXCEPT !.renewed = @ \/ o.renewed]
           /\ UNCHANGED <<proto, pcFile>>
  BY Zenon DEF Rfsv!DevOpen, Rfsv!Exchange
<1> HIDE DEF cmd, Then
<1>0. Live = {}
  BY <1>1, NothingClaimed DEF Rfsv!At, SourceAt, TargetAt
<1>2. PICK o, x : Exchanged(cmd, o, x) /\ x = Then(o.res, o.data)
  BY <1>1 DEF Exchanged, Outcome, Taken
<1>3. /\ RunShape(x) /\ x.op = call.op
      /\ x.to = call.to
      /\ IF o.res = "none" THEN x.h = o.data /\ x.at = "devread"
         ELSE x.h = call.h /\ x.at \in {"done", "devinfo"}
  BY <1>1, <1>2 DEF HandlesInv, RunShape, Rfsv!At, Rfsv!Done, Rfsv!Ends, Rfsv!Next_, Then
<1>4. Becomes(x)
  BY <1>2, <1>3, ExchangedBecomes
<1>5. ServerShape(server) /\ status \in {"none", "disc"} /\ Outcome(cmd, o) /\ Taken(o)
  BY <1>2 DEF HandlesInv, Exchanged
<1>6. /\ ServerShape(server)' /\ status' \in {"none", "disc"}
      /\ status' = "none" => o.res # "disc"
      /\ o.res = "none" => o.data \in {1, 2} /\ Live' \subseteq Live \cup {o.data}
      /\ o.res # "none" => Live' \subseteq Live
  BY <1>5, OpenLive DEF cmd
<1>7. HandlesInv'
  BY <1>0, <1>1, <1>2, <1>3, <1>4, <1>6, HandlesKept
     DEF HandlesInv, Rfsv!At, Exchanged, Becomes, Claims, SourceAt, TargetAt, Live
<1>8. CopyInv'
  BY <1>1, <1>2, <1>3, <1>4, OthersKept DEF cmd, Quiet, Rfsv!At
<1> QED
  BY <1>7, <1>8

LEMMA DevReadStep ==
    ASSUME HandlesInv, CopyInv, Rfsv!DevRead
    PROVE  HandlesInv' /\ CopyInv'
<1> DEFINE cmd == <<"readdir", call.h>>
           Then(r, d) ==
             IF Rfsv!Unsent(r, d) THEN Rfsv!Done(r)
             ELSE IF r # "none" THEN Rfsv!Ends("devclose", IF r = "eof" THEN "none" ELSE r)
             ELSE [call EXCEPT !.buf = @ \o d]
<1>1. /\ Rfsv!At({"drives"}, "devread")
      /\ \E t \in Rfsv!SendCommand(cmd) : \E o \in Rfsv!GetResponse(t, cmd) :
           /\ faults + o.faults <= MaxFaults /\ faults' = faults + o.faults
           /\ server' = o.server /\ status' = o.status
           /\ call' = [Then(o.res, o.data) EXCEPT !.renewed = @ \/ o.renewed]
           /\ UNCHANGED <<proto, pcFile>>
  BY Zenon DEF Rfsv!DevRead, Rfsv!Exchange
<1> HIDE DEF cmd, Then
<1>2. PICK o, x : Exchanged(cmd, o, x) /\ x = Then(o.res, o.data)
  BY <1>1 DEF Exchanged, Outcome, Taken
<1>3. /\ RunShape(x) /\ x.op = call.op
      /\ x.to = call.to /\ x.h = call.h /\ x.at \in {"done", "devclose", "devread"}
      /\ x.at = "done" => o.res = "disc"
  BY <1>1, <1>2 DEF HandlesInv, RunShape, Rfsv!At, Rfsv!Done, Rfsv!Ends, Rfsv!Next_, Then, Rfsv!Unsent
<1>4. Becomes(x)
  BY <1>2, <1>3, ExchangedBecomes
<1>5. ServerShape(server) /\ status \in {"none", "disc"} /\ Outcome(cmd, o) /\ Taken(o)
  BY <1>2 DEF HandlesInv, Exchanged
<1>6. /\ ServerShape(server)' /\ status' \in {"none", "disc"} /\ Live' \subseteq Live
      /\ status' = "none" => o.res # "disc"
  BY <1>5, OtherLive DEF OnHandles, Others, cmd
<1>7. HandlesInv'
  BY <1>1, <1>2, <1>3, <1>4, <1>6, HandlesKept
     DEF HandlesInv, Rfsv!At, Exchanged, Becomes, Claims, SourceAt, TargetAt, Live
<1>8. CopyInv'
  BY <1>1, <1>2, <1>3, <1>4, OthersKept DEF cmd, Quiet, Rfsv!At
<1> QED
  BY <1>7, <1>8

LEMMA DevCloseStep ==
    ASSUME HandlesInv, CopyInv, Rfsv!DevClose
    PROVE  HandlesInv' /\ CopyInv'
<1> DEFINE cmd == <<"close", call.h>>
           Then(r, d) == IF call.res = "none" THEN Rfsv!Next_("devinfo") ELSE Rfsv!Done(call.res)
<1>1. /\ Rfsv!At({"drives"}, "devclose")
      /\ \E t \in Rfsv!SendCommand(cmd) : \E o \in Rfsv!GetResponse(t, cmd) :
           /\ faults + o.faults <= MaxFaults /\ faults' = faults + o.faults
           /\ server' = o.server /\ status' = o.status
           /\ call' = [Then(o.res, o.data) EXCEPT !.renewed = @ \/ o.renewed]
           /\ UNCHANGED <<proto, pcFile>>
  BY Zenon DEF Rfsv!DevClose, Rfsv!Exchange
<1> HIDE DEF cmd, Then
<1>2. PICK o, x : Exchanged(cmd, o, x) /\ x = Then(o.res, o.data)
  BY <1>1 DEF Exchanged, Outcome, Taken
<1>3. /\ RunShape(x) /\ x.op = call.op
      /\ x.to = call.to /\ x.h = call.h /\ x.at \in {"done", "devinfo"}
  BY <1>1, <1>2 DEF HandlesInv, RunShape, Rfsv!At, Rfsv!Done, Rfsv!Ends, Rfsv!Next_, Then
<1>4. Becomes(x)
  BY <1>2, <1>3, ExchangedBecomes
<1>5. ServerShape(server) /\ status \in {"none", "disc"} /\ Outcome(cmd, o) /\ Taken(o)
  BY <1>2 DEF HandlesInv, Exchanged
<1>6. /\ ServerShape(server)' /\ status' \in {"none", "disc"} /\ Live' \subseteq Live \ {call.h}
  BY <1>5, CloseLive DEF cmd
<1>7. HandlesInv'
  BY <1>1, <1>2, <1>3, <1>4, <1>6, HandlesKept
     DEF HandlesInv, Rfsv!At, Exchanged, Becomes, Claims, SourceAt, TargetAt, Live
<1>8. CopyInv'
  BY <1>1, <1>2, <1>3, <1>4, OthersKept DEF cmd, Quiet, Rfsv!At
<1> QED
  BY <1>7, <1>8

LEMMA DevParseStep ==
    ASSUME HandlesInv, CopyInv, Rfsv!DevParse
    PROVE  HandlesInv' /\ CopyInv'
<1> DEFINE cmd == <<"parse", "x">>
           Then(r, d) == IF r # "none" THEN Rfsv!Done(r) ELSE Rfsv!Next_("devstatus")
<1>1. /\ Rfsv!At({"drives"}, "devinfo") /\ proto = "16" /\ call.buf # <<>>
      /\ \E t \in Rfsv!SendCommand(cmd) : \E o \in Rfsv!GetResponse(t, cmd) :
           /\ faults + o.faults <= MaxFaults /\ faults' = faults + o.faults
           /\ server' = o.server /\ status' = o.status
           /\ call' = [Then(o.res, o.data) EXCEPT !.renewed = @ \/ o.renewed]
           /\ UNCHANGED <<proto, pcFile>>
  BY Zenon DEF Rfsv!DevParse, Rfsv!Exchange
<1> HIDE DEF cmd, Then
<1>0. Live = {}
  BY <1>1, NothingClaimed DEF Rfsv!At, SourceAt, TargetAt
<1>2. PICK o, x : Exchanged(cmd, o, x) /\ x = Then(o.res, o.data)
  BY <1>1 DEF Exchanged, Outcome, Taken
<1>3. /\ RunShape(x) /\ x.op = call.op
      /\ x.to = call.to /\ x.h = call.h /\ x.at \in {"done", "devstatus"}
  BY <1>1, <1>2 DEF HandlesInv, RunShape, Rfsv!At, Rfsv!Done, Rfsv!Ends, Rfsv!Next_, Then
<1>4. Becomes(x)
  BY <1>2, <1>3, ExchangedBecomes
<1>5. ServerShape(server) /\ status \in {"none", "disc"} /\ Outcome(cmd, o) /\ Taken(o)
  BY <1>2 DEF HandlesInv, Exchanged
<1>6. /\ ServerShape(server)' /\ status' \in {"none", "disc"} /\ Live' \subseteq Live
      /\ status' = "none" => o.res # "disc"
  BY <1>5, OtherLive DEF OnHandles, Others, cmd
<1>7. HandlesInv'
  BY <1>0, <1>1, <1>2, <1>3, <1>4, <1>6, HandlesKept
     DEF HandlesInv, Rfsv!At, Exchanged, Becomes, Claims, SourceAt, TargetAt, Live
<1>8. CopyInv'
  BY <1>1, <1>2, <1>3, <1>4, OthersKept DEF cmd, Quiet, Rfsv!At
<1> QED
  BY <1>7, <1>8

LEMMA DevInfoAsks ==
    ASSUME HandlesInv, CopyInv, Rfsv!DevInfo, call.buf # <<>>
    PROVE  HandlesInv' /\ CopyInv'
<1> DEFINE cmd == <<"drive", Head(call.buf)>>
           Then(r, d) ==
             CASE r = "none" -> [call EXCEPT !.buf = Tail(@), !.out = Append(@, Head(call.buf)), !.at = "devinfo"]
               [] r = "notready" -> [call EXCEPT !.buf = Tail(@), !.at = "devinfo"]
               [] OTHER -> Rfsv!Done(r)
<1>1. /\ Rfsv!At({"drives"}, IF proto = "16" /\ call.buf # <<>> THEN "devstatus" ELSE "devinfo")
      /\ \E t \in Rfsv!SendCommand(cmd) : \E o \in Rfsv!GetResponse(t, cmd) :
           /\ faults + o.faults <= MaxFaults /\ faults' = faults + o.faults
           /\ server' = o.server /\ status' = o.status
           /\ call' = [Then(o.res, o.data) EXCEPT !.renewed = @ \/ o.renewed]
           /\ UNCHANGED <<proto, pcFile>>
  BY Zenon DEF Rfsv!DevInfo, Rfsv!Exchange
<1> HIDE DEF cmd, Then
<1>0. Live = {}
  BY <1>1, NothingClaimed DEF Rfsv!At, SourceAt, TargetAt
<1>2. PICK o, x : Exchanged(cmd, o, x) /\ x = Then(o.res, o.data)
  BY <1>1 DEF Exchanged, Outcome, Taken
<1>3. /\ RunShape(x) /\ x.op = call.op
      /\ x.to = call.to /\ x.h = call.h /\ x.at \in {"done", "devinfo"}
  BY <1>1, <1>2 DEF HandlesInv, RunShape, Rfsv!At, Rfsv!Done, Rfsv!Ends, Rfsv!Next_, Then
<1>4. Becomes(x)
  BY <1>2, <1>3, ExchangedBecomes
<1>5. ServerShape(server) /\ status \in {"none", "disc"} /\ Outcome(cmd, o) /\ Taken(o)
  BY <1>2 DEF HandlesInv, Exchanged
<1>6. /\ ServerShape(server)' /\ status' \in {"none", "disc"} /\ Live' \subseteq Live
  BY <1>5, OtherLive DEF OnHandles, Others, cmd
<1>7. HandlesInv'
  BY <1>0, <1>1, <1>2, <1>3, <1>4, <1>6, HandlesKept
     DEF HandlesInv, Rfsv!At, Exchanged, Becomes, Claims, SourceAt, TargetAt, Live
<1>8. CopyInv'
  BY <1>1, <1>2, <1>3, <1>4, OthersKept DEF cmd, Quiet, Rfsv!At
<1> QED
  BY <1>7, <1>8

LEMMA SenseStep ==
    ASSUME HandlesInv, CopyInv, Rfsv!Sense
    PROVE  HandlesInv' /\ CopyInv'
<1> DEFINE cmd == <<"seek", call.h, 0, Rfsv!Want[2]>>
           Then(r, d) ==
             IF r # "none" THEN Rfsv!Ends("close", r)
             ELSE IF Rfsv!Want[1] = 0 THEN [call EXCEPT !.buf[2] = d, !.at = "close"]
             ELSE [call EXCEPT !.buf[2] = d, !.eof = proto = "16",
                   !.at = IF proto = "32" /\ Rfsv!Want[2] = 3 THEN "expand" ELSE "seek"]
<1>1. /\ Rfsv!At({"seek"}, "sense")
      /\ \E t \in Rfsv!SendCommand(cmd) : \E o \in Rfsv!GetResponse(t, cmd) :
           /\ faults + o.faults <= MaxFaults /\ faults' = faults + o.faults
           /\ server' = o.server /\ status' = o.status
           /\ call' = [Then(o.res, o.data) EXCEPT !.renewed = @ \/ o.renewed]
           /\ UNCHANGED <<proto, pcFile>>
  BY Zenon DEF Rfsv!Sense, Rfsv!Exchange
<1> HIDE DEF cmd, Then
<1>2. PICK o, x : Exchanged(cmd, o, x) /\ x = Then(o.res, o.data)
  BY <1>1 DEF Exchanged, Outcome, Taken
<1>3. /\ RunShape(x) /\ x.op = call.op
      /\ x.to = call.to /\ x.h = call.h /\ x.at \in {"close", "expand", "seek"}
  BY <1>1, <1>2 DEF HandlesInv, RunShape, Rfsv!At, Rfsv!Done, Rfsv!Ends, Rfsv!Next_, Then
<1>4. Becomes(x)
  BY <1>2, <1>3, ExchangedBecomes
<1>5. ServerShape(server) /\ status \in {"none", "disc"} /\ Outcome(cmd, o) /\ Taken(o)
  BY <1>2 DEF HandlesInv, Exchanged
<1>6. /\ ServerShape(server)' /\ status' \in {"none", "disc"} /\ Live' \subseteq Live
      /\ status' = "none" => o.res # "disc"
  BY <1>5, OtherLive DEF OnHandles, Others, cmd
<1>7. HandlesInv'
  BY <1>1, <1>2, <1>3, <1>4, <1>6, HandlesKept
     DEF HandlesInv, Rfsv!At, Exchanged, Becomes, Claims, SourceAt, TargetAt, Live
<1>8. CopyInv'
  <2>1. PICK pos \in Int, found \in Int : \E mode : call.buf = <<<<pos, mode>>, found>>
    BY <1>1 DEF CopyInv, Seeks, SeekAt, Rfsv!At
  <2>2. cmd[1] = "seek" /\ cmd[3] \in Int
    BY DEF cmd
  <2>3. \/ x.at = "close"
        \/ /\ o.res = "none" /\ x.h = call.h /\ x.at \in SeekAt \ {"position"}
           /\ (cmd[1] = "seek" => o.data \in Nat) =>
                /\ \E p \in Int, q \in Int : \E m : x.buf = <<<<p, m>>, q>>
                /\ x.at = "extend" => x.buf[2] \in Nat
    BY <1>2, <2>1, <2>2 DEF HandlesInv, RunShape, Rfsv!Ends, Then, SeekAt
  <2> QED
    BY <1>1, <1>2, <1>3, <2>2, <2>3, SeekCopies DEF Rfsv!At, SeekAt
<1> QED
  BY <1>7, <1>8

LEMMA ExpandStep ==
    ASSUME HandlesInv, CopyInv, Rfsv!Expand
    PROVE  HandlesInv' /\ CopyInv'
<1> DEFINE cmd == <<"setsize", call.h, Rfsv!Wrap(Rfsv!Saved + Rfsv!Want[1])>>
           Then(r, d) ==
             IF r # "none" THEN Rfsv!Ends("close", r)
             ELSE [call EXCEPT !.buf[1] = <<0, 3>>, !.at = "seek"]
<1>1. /\ Rfsv!At({"seek"}, "expand")
      /\ \E t \in Rfsv!SendCommand(cmd) : \E o \in Rfsv!GetResponse(t, cmd) :
           /\ faults + o.faults <= MaxFaults /\ faults' = faults + o.faults
           /\ server' = o.server /\ status' = o.status
           /\ call' = [Then(o.res, o.data) EXCEPT !.renewed = @ \/ o.renewed]
           /\ UNCHANGED <<proto, pcFile>>
  BY Zenon DEF Rfsv!Expand, Rfsv!Exchange
<1> HIDE DEF cmd, Then
<1>2. PICK o, x : Exchanged(cmd, o, x) /\ x = Then(o.res, o.data)
  BY <1>1 DEF Exchanged, Outcome, Taken
<1>3. /\ RunShape(x) /\ x.op = call.op
      /\ x.to = call.to /\ x.h = call.h /\ x.at \in {"close", "seek"}
  BY <1>1, <1>2 DEF HandlesInv, RunShape, Rfsv!At, Rfsv!Done, Rfsv!Ends, Rfsv!Next_, Then
<1>4. Becomes(x)
  BY <1>2, <1>3, ExchangedBecomes
<1>5. ServerShape(server) /\ status \in {"none", "disc"} /\ Outcome(cmd, o) /\ Taken(o)
  BY <1>2 DEF HandlesInv, Exchanged
<1>6. /\ ServerShape(server)' /\ status' \in {"none", "disc"} /\ Live' \subseteq Live
      /\ status' = "none" => o.res # "disc"
  BY <1>5, OtherLive DEF OnHandles, Others, cmd
<1>7. HandlesInv'
  BY <1>1, <1>2, <1>3, <1>4, <1>6, HandlesKept
     DEF HandlesInv, Rfsv!At, Exchanged, Becomes, Claims, SourceAt, TargetAt, Live
<1>8. CopyInv'
  <2>1. PICK pos \in Int, found \in Int : \E mode : call.buf = <<<<pos, mode>>, found>>
    BY <1>1 DEF CopyInv, Seeks, SeekAt, Rfsv!At
  <2>2. cmd[1] = "setsize" /\ cmd[3] \in Nat
    <3>1. Rfsv!Wrap(Rfsv!Saved + Rfsv!Want[1]) \in Nat
      BY <2>1, WrapIs DEF Rfsv!Saved, Rfsv!Want
    <3> QED
      BY <3>1 DEF cmd
  <2>3. \/ x.at = "close"
        \/ /\ o.res = "none" /\ x.h = call.h /\ x.at \in SeekAt \ {"position"}
           /\ (cmd[1] = "seek" => o.data \in Nat) =>
                /\ \E p \in Int, q \in Int : \E m : x.buf = <<<<p, m>>, q>>
                /\ x.at = "extend" => x.buf[2] \in Nat
    BY <1>2, <2>1, <2>2 DEF HandlesInv, RunShape, Rfsv!Ends, Then, SeekAt
  <2> QED
    BY <1>1, <1>2, <1>3, <2>2, <2>3, SeekCopies DEF Rfsv!At, SeekAt
<1> QED
  BY <1>7, <1>8

LEMMA SeekStep ==
    ASSUME HandlesInv, CopyInv, Rfsv!Seek
    PROVE  HandlesInv' /\ CopyInv'
<1> DEFINE cmd == Rfsv!SeekCommand(Rfsv!Want[1], Rfsv!Want[2])
           Then(r, d) ==
             LET calc == Rfsv!Wrap(IF Rfsv!Want[2] = 1 THEN Rfsv!Want[1] ELSE Rfsv!Saved + Rfsv!Want[1])
             IN  IF r # "none" THEN Rfsv!Ends("close", r)
                 ELSE IF Rfsv!Want[2] = 3 \/ calc <= d THEN [call EXCEPT !.buf[2] = d, !.at = "close"]
                 ELSE [call EXCEPT !.buf[2] = calc, !.eof = FALSE, !.at = "extend"]
<1>1. /\ Rfsv!At({"seek"}, "seek")
      /\ \E t \in Rfsv!SendCommand(cmd) : \E o \in Rfsv!GetResponse(t, cmd) :
           /\ faults + o.faults <= MaxFaults /\ faults' = faults + o.faults
           /\ server' = o.server /\ status' = o.status
           /\ call' = [Then(o.res, o.data) EXCEPT !.renewed = @ \/ o.renewed]
           /\ UNCHANGED <<proto, pcFile>>
  BY Zenon DEF Rfsv!Seek, Rfsv!Exchange
<1> HIDE DEF cmd, Then
<1>2. PICK o, x : Exchanged(cmd, o, x) /\ x = Then(o.res, o.data)
  BY <1>1 DEF Exchanged, Outcome, Taken
<1>3. /\ RunShape(x) /\ x.op = call.op
      /\ x.to = call.to /\ x.h = call.h /\ x.at \in {"close", "extend"}
  BY <1>1, <1>2 DEF HandlesInv, RunShape, Rfsv!At, Rfsv!Done, Rfsv!Ends, Rfsv!Next_, Then
<1>4. Becomes(x)
  BY <1>2, <1>3, ExchangedBecomes
<1>5. ServerShape(server) /\ status \in {"none", "disc"} /\ Outcome(cmd, o) /\ Taken(o)
  BY <1>2 DEF HandlesInv, Exchanged
<1>6. /\ ServerShape(server)' /\ status' \in {"none", "disc"} /\ Live' \subseteq Live
      /\ status' = "none" => o.res # "disc"
  BY <1>5, OtherLive DEF OnHandles, Others, cmd, Rfsv!SeekCommand
<1>7. HandlesInv'
  BY <1>1, <1>2, <1>3, <1>4, <1>6, HandlesKept
     DEF HandlesInv, Rfsv!At, Exchanged, Becomes, Claims, SourceAt, TargetAt, Live
<1>8. CopyInv'
  <2>1. PICK pos \in Int, found \in Int : \E mode : call.buf = <<<<pos, mode>>, found>>
    BY <1>1 DEF CopyInv, Seeks, SeekAt, Rfsv!At
  <2>2. cmd[1] = "seek" /\ cmd[3] \in Int
    <3>1. call.h * Half \in Int
      BY <1>1, RfsvAssumption DEF CopyInv, Seeks, SeekAt, Rfsv!At
    <3> QED
      BY <2>1, <3>1 DEF cmd, Rfsv!SeekCommand, Rfsv!Want
  <2>3. \/ x.at = "close"
        \/ /\ o.res = "none" /\ x.h = call.h /\ x.at \in SeekAt \ {"position"}
           /\ (cmd[1] = "seek" => o.data \in Nat) =>
                /\ \E p \in Int, q \in Int : \E m : x.buf = <<<<p, m>>, q>>
                /\ x.at = "extend" => x.buf[2] \in Nat
    <3>1. PICK calc \in Nat :
             calc = Rfsv!Wrap(IF Rfsv!Want[2] = 1 THEN Rfsv!Want[1] ELSE Rfsv!Saved + Rfsv!Want[1])
      BY <2>1, WrapIs DEF Rfsv!Saved, Rfsv!Want
    <3> QED
      BY <1>2, <2>1, <2>2, <3>1 DEF HandlesInv, RunShape, Rfsv!Ends, Then, SeekAt
  <2> QED
    BY <1>1, <1>2, <1>3, <2>2, <2>3, SeekCopies DEF Rfsv!At, SeekAt
<1> QED
  BY <1>7, <1>8

LEMMA ExtendStep ==
    ASSUME HandlesInv, CopyInv, Rfsv!Extend
    PROVE  HandlesInv' /\ CopyInv'
<1> DEFINE cmd == <<"setsize", call.h, Rfsv!Saved>>
           Then(r, d) == IF r # "none" THEN Rfsv!Ends("close", r) ELSE Rfsv!Next_("reseek")
<1>1. /\ Rfsv!At({"seek"}, "extend")
      /\ \E t \in Rfsv!SendCommand(cmd) : \E o \in Rfsv!GetResponse(t, cmd) :
           /\ faults + o.faults <= MaxFaults /\ faults' = faults + o.faults
           /\ server' = o.server /\ status' = o.status
           /\ call' = [Then(o.res, o.data) EXCEPT !.renewed = @ \/ o.renewed]
           /\ UNCHANGED <<proto, pcFile>>
  BY Zenon DEF Rfsv!Extend, Rfsv!Exchange
<1> HIDE DEF cmd, Then
<1>2. PICK o, x : Exchanged(cmd, o, x) /\ x = Then(o.res, o.data)
  BY <1>1 DEF Exchanged, Outcome, Taken
<1>3. /\ RunShape(x) /\ x.op = call.op
      /\ x.to = call.to /\ x.h = call.h /\ x.at \in {"close", "reseek"}
  BY <1>1, <1>2 DEF HandlesInv, RunShape, Rfsv!At, Rfsv!Done, Rfsv!Ends, Rfsv!Next_, Then
<1>4. Becomes(x)
  BY <1>2, <1>3, ExchangedBecomes
<1>5. ServerShape(server) /\ status \in {"none", "disc"} /\ Outcome(cmd, o) /\ Taken(o)
  BY <1>2 DEF HandlesInv, Exchanged
<1>6. /\ ServerShape(server)' /\ status' \in {"none", "disc"} /\ Live' \subseteq Live
      /\ status' = "none" => o.res # "disc"
  BY <1>5, OtherLive DEF OnHandles, Others, cmd
<1>7. HandlesInv'
  BY <1>1, <1>2, <1>3, <1>4, <1>6, HandlesKept
     DEF HandlesInv, Rfsv!At, Exchanged, Becomes, Claims, SourceAt, TargetAt, Live
<1>8. CopyInv'
  <2>1. PICK pos \in Int, found \in Int : \E mode : call.buf = <<<<pos, mode>>, found>>
    BY <1>1 DEF CopyInv, Seeks, SeekAt, Rfsv!At
  <2>2. cmd[1] = "setsize" /\ cmd[3] \in Nat
    BY <1>1 DEF cmd, CopyInv, Seeks, SeekAt, Rfsv!At, Rfsv!Saved
  <2>3. \/ x.at = "close"
        \/ /\ o.res = "none" /\ x.h = call.h /\ x.at \in SeekAt \ {"position"}
           /\ (cmd[1] = "seek" => o.data \in Nat) =>
                /\ \E p \in Int, q \in Int : \E m : x.buf = <<<<p, m>>, q>>
                /\ x.at = "extend" => x.buf[2] \in Nat
    BY <1>2, <2>1, <2>2 DEF HandlesInv, RunShape, Rfsv!Ends, Rfsv!Next_, Then, SeekAt
  <2> QED
    BY <1>1, <1>2, <1>3, <2>2, <2>3, SeekCopies DEF Rfsv!At, SeekAt
<1> QED
  BY <1>7, <1>8

LEMMA ReseekStep ==
    ASSUME HandlesInv, CopyInv, Rfsv!Reseek
    PROVE  HandlesInv' /\ CopyInv'
<1> DEFINE cmd == <<"seek", call.h, Rfsv!Saved, 1>>
           Then(r, d) ==
             IF r # "none" THEN Rfsv!Ends("close", r) ELSE [call EXCEPT !.buf[2] = d, !.at = "close"]
<1>1. /\ Rfsv!At({"seek"}, "reseek")
      /\ \E t \in Rfsv!SendCommand(cmd) : \E o \in Rfsv!GetResponse(t, cmd) :
           /\ faults + o.faults <= MaxFaults /\ faults' = faults + o.faults
           /\ server' = o.server /\ status' = o.status
           /\ call' = [Then(o.res, o.data) EXCEPT !.renewed = @ \/ o.renewed]
           /\ UNCHANGED <<proto, pcFile>>
  BY Zenon DEF Rfsv!Reseek, Rfsv!Exchange
<1> HIDE DEF cmd, Then
<1>2. PICK o, x : Exchanged(cmd, o, x) /\ x = Then(o.res, o.data)
  BY <1>1 DEF Exchanged, Outcome, Taken
<1>3. /\ RunShape(x) /\ x.op = call.op
      /\ x.to = call.to /\ x.h = call.h /\ x.at = "close"
  BY <1>1, <1>2 DEF HandlesInv, RunShape, Rfsv!At, Rfsv!Done, Rfsv!Ends, Rfsv!Next_, Then
<1>4. Becomes(x)
  BY <1>2, <1>3, ExchangedBecomes
<1>5. ServerShape(server) /\ status \in {"none", "disc"} /\ Outcome(cmd, o) /\ Taken(o)
  BY <1>2 DEF HandlesInv, Exchanged
<1>6. /\ ServerShape(server)' /\ status' \in {"none", "disc"} /\ Live' \subseteq Live
      /\ status' = "none" => o.res # "disc"
  BY <1>5, OtherLive DEF OnHandles, Others, cmd
<1>7. HandlesInv'
  BY <1>1, <1>2, <1>3, <1>4, <1>6, HandlesKept
     DEF HandlesInv, Rfsv!At, Exchanged, Becomes, Claims, SourceAt, TargetAt, Live
<1>8. CopyInv'
  <2>1. PICK pos \in Int, found \in Int : \E mode : call.buf = <<<<pos, mode>>, found>>
    BY <1>1 DEF CopyInv, Seeks, SeekAt, Rfsv!At
  <2>2. cmd[1] = "seek" /\ cmd[3] \in Int
    BY <2>1 DEF cmd, Rfsv!Saved
  <2>3. \/ x.at = "close"
        \/ /\ o.res = "none" /\ x.h = call.h /\ x.at \in SeekAt \ {"position"}
           /\ (cmd[1] = "seek" => o.data \in Nat) =>
                /\ \E p \in Int, q \in Int : \E m : x.buf = <<<<p, m>>, q>>
                /\ x.at = "extend" => x.buf[2] \in Nat
    BY <1>2, <2>1, <2>2 DEF HandlesInv, RunShape, Rfsv!Ends, Then, SeekAt
  <2> QED
    BY <1>1, <1>2, <1>3, <2>2, <2>3, SeekCopies DEF Rfsv!At, SeekAt
<1> QED
  BY <1>7, <1>8

(* Steps that exchange nothing with the server.                            *)
LEMMA GoesKept ==
    ASSUME HandlesInv, NEW x, Rfsv!Goes(x), RunShape(x),
           Live = {} \/ (x.op = call.op /\ x.h = call.h /\ x.to = call.to /\ call.at \in SourceAt /\ call.at # "close"
                         /\ x.at \in SourceAt /\ (call.at \in TargetAt => x.at \in TargetAt)),
           x.op = "copyOn" /\ x.at \in {"attr", "open", "create", "replace"} => x.to = 0
    PROVE  HandlesInv'
<1>1. call' = x /\ Live' = Live /\ ServerShape(server)' /\ RunShape(call)' /\ status' = status /\ proto' = proto
  BY DEF Rfsv!Goes, HandlesInv, Live, ServerShape, RunShape
<1> QED
  BY <1>1 DEF HandlesInv, Claims, SourceAt, TargetAt

LEMMA BeginStep ==
    ASSUME HandlesInv, CopyInv, NEW o \in DOMAIN Rfsv!FirstStep, Rfsv!Start(o)
    PROVE  HandlesInv' /\ CopyInv'
<1> DEFINE at == CASE o = "copyOn" /\ proto = "32" -> "attr"
                   [] o = "rmdir" /\ proto = "32" -> "other"
                   [] OTHER -> Rfsv!FirstStep[o]
           begun(n) == [Rfsv!NoCall EXCEPT !.op = o, !.to = n, !.out = SubSeq(Entries, 1, n), !.at = at]
<1>1. PICK n \in 0 .. 1 : /\ call.at = "idle"
                          /\ n > 0 => o = "dircount" /\ proto = "16"
                          /\ Rfsv!Goes(begun(n))
  BY Zenon DEF Rfsv!Start
<1> HIDE DEF at
<1>2. PICK x : x = begun(n)
  OBVIOUS
<1>3. RunShape(x) /\ x.op = o /\ x.to = n
  BY <1>2 DEF Rfsv!NoCall, RunShape
<1> HIDE DEF begun
<1>4. Live = {}
  BY <1>1, NothingClaimed DEF SourceAt, TargetAt
<1>5. o = "copyOn" => n = 0
  BY <1>1
<1>7. HandlesInv'
  BY <1>1, <1>2, <1>3, <1>4, <1>5, GoesKept
<1>8. CopyInv'
  <2>1. /\ server' = server /\ pcFile' = pcFile /\ call' = x /\ server.files \in FileSets /\ pcFile \in Blocks
    BY <1>1, <1>2 DEF Rfsv!Goes, CopyInv
  <2>2. /\ x.res = "none" /\ x.buf = <<>> /\ ~ x.eof /\ x.at = at
        /\ x.out = SubSeq(Entries, 1, n) /\ x.op = o /\ x.to = n
    BY <1>2 DEF Rfsv!NoCall, begun
  <2>3. SubSeq(Entries, 1, 0) = <<>>
    BY SubSeqEmpty
  <2>4. /\ o = "copyFrom" => at = "open"
        /\ o = "copyTo" => at = "create"
        /\ o = "copyOn" => at \in {"attr", "open"}
        /\ o = "seek" => at = "open"
    BY DEF at, Rfsv!FirstStep
  <2>5. o \in {"copyFrom", "copyTo"} => x.out = <<>>
    BY <1>1, <2>2, <2>3
  <2> QED
    BY <2>1, <2>2, <2>4, <2>5 DEF CopyInv, CopiesFrom, Writing, CopiesTo, CopiesOn, Seeks, Going, SeekAt
<1> QED
  BY <1>7, <1>8

LEMMA ReturnStep ==
    ASSUME HandlesInv, CopyInv, Rfsv!Return
    PROVE  HandlesInv' /\ CopyInv'
<1>1. Rfsv!Goes(Rfsv!NoCall) /\ RunShape(Rfsv!NoCall) /\ Rfsv!NoCall.op = "none"
  BY DEF Rfsv!Return, Rfsv!NoCall, RunShape
<1>2. Live = {}
  BY DEF Rfsv!Return, Live, Rfsv!None
<1>7. HandlesInv'
  BY <1>1, <1>2, GoesKept
<1>8. CopyInv'
  <2>1. server' = server /\ pcFile' = pcFile /\ call'.op = "none"
    BY <1>1 DEF Rfsv!Goes
  <2> QED
    BY <2>1, FailedKept DEF CopyInv
<1> QED
  BY <1>7, <1>8

LEMMA QuitStep ==
    ASSUME HandlesInv, CopyInv, Rfsv!Quit
    PROVE  HandlesInv' /\ CopyInv'
<1>1. ServerShape(server') /\ DOMAIN server'.handles = {}
  BY NoHandles DEF Rfsv!Quit, HandlesInv
<1>2. call' = Rfsv!NoCall /\ status' = "none" /\ proto' = proto
  BY DEF Rfsv!Quit
<1>3. RunShape(call)' /\ call'.op = "none"
  BY <1>2 DEF Rfsv!NoCall, RunShape
<1>7. HandlesInv'
  BY <1>1, <1>2, <1>3 DEF HandlesInv, Live, ServerShape
<1>8. CopyInv'
  <2>1. server'.files = server.files /\ pcFile' = pcFile
    BY NoHandles DEF Rfsv!Quit, HandlesInv
  <2> QED
    BY <1>3, <2>1, FailedKept DEF CopyInv
<1> QED
  BY <1>7, <1>8

LEMMA OpenLocalStep ==
    ASSUME HandlesInv, CopyInv, Rfsv!OpenLocal
    PROVE  HandlesInv' /\ CopyInv'
<1>1. PICK ok \in BOOLEAN : call.op = "copyFrom" /\ call.at = "local"
                            /\ Rfsv!Goes(IF ok THEN Rfsv!Next_("read") ELSE Rfsv!Ends("close", "fail"))
  BY DEF Rfsv!OpenLocal, Rfsv!At
<1>2. PICK x : x = IF ok THEN Rfsv!Next_("read") ELSE Rfsv!Ends("close", "fail")
  OBVIOUS
<1>3. RunShape(x) /\ x.op = call.op /\ x.h = call.h /\ x.to = call.to /\ x.at \in {"read", "close"}
  BY <1>2 DEF HandlesInv, RunShape, Rfsv!Next_, Rfsv!Ends
<1>7. HandlesInv'
  BY <1>1, <1>2, <1>3, GoesKept DEF SourceAt, TargetAt
<1>8. CopyInv'
  <2>1. server' = server /\ status' = status /\ pcFile' = pcFile /\ call' = x
    BY <1>1, <1>2 DEF Rfsv!Goes
  <2>2. /\ x.out = call.out /\ x.buf = call.buf
        /\ \/ x.at = "read" /\ x.res = call.res
           \/ x.at = "close" /\ x.res = "fail"
    BY <1>2 DEF HandlesInv, RunShape, Rfsv!Next_, Rfsv!Ends
  <2>3. CopiesFrom'
    BY <1>1, <1>3, <2>1, <2>2 DEF CopyInv, CopiesFrom, ReadUpTo, From
  <2> QED
    BY <1>1, <1>3, <2>1, <2>3, CopyKept DEF CopyInv
<1> QED
  BY <1>7, <1>8

LEMMA FillStep ==
    ASSUME HandlesInv, CopyInv, Rfsv!Fill
    PROVE  HandlesInv' /\ CopyInv'
<1> DEFINE b == SubSeq(pcFile, Len(call.out) + 1, Rfsv!Clamp(Len(call.out) + SendLen, Len(pcFile)))
           next == IF call.op = "copyOn" THEN Rfsv!Next_(IF proto = "32" THEN "readwrite" ELSE "read")
                   ELSE IF call.eof THEN Rfsv!Next_("close")
                   ELSE [call EXCEPT !.buf = b, !.out = @ \o b, !.at = "write", !.eof = Len(b) < SendLen]
<1>1. call.at = "fill" /\ Rfsv!Goes(next)
  BY Zenon DEF Rfsv!Fill, Rfsv!At
<1>2. PICK x : x = next
  OBVIOUS
<1>3. RunShape(x) /\ x.op = call.op /\ x.h = call.h /\ x.to = call.to
      /\ x.at \in {"readwrite", "read", "close", "write"}
  <2> HIDE DEF b
  <2> QED
    BY <1>2 DEF HandlesInv, RunShape, Rfsv!Next_
<1> HIDE DEF next
<1>7. HandlesInv'
  BY <1>1, <1>2, <1>3, GoesKept DEF SourceAt, TargetAt
<1>8. CopyInv'
  <2>1. /\ server' = server /\ status' = status /\ pcFile' = pcFile /\ call' = x
        /\ call.op \in {"copyTo", "copyOn"} /\ call.at = "fill"
    BY <1>1, <1>2 DEF Rfsv!Goes, Rfsv!Fill, Rfsv!At
  <2>2. call.res = "none" /\ call.buf = <<>> /\ HasTarget /\ Named(server, call.to, "to", Len(Target))
    BY <2>1 DEF CopyInv, Writing, Going
  <2>3. /\ x.res = call.res /\ x.renewed = call.renewed
        /\ \/ call.op = "copyOn" /\ x.at \in {"readwrite", "read"} /\ x.buf = call.buf
           \/ call.op = "copyTo" /\ call.eof /\ x.at = "close"
           \/ /\ call.op = "copyTo" /\ ~ call.eof /\ x.at = "write"
              /\ x.buf = b /\ x.out = call.out ++ b /\ x.eof = (Len(b) < SendLen)
    <3> HIDE DEF b
    <3> QED
      BY <1>2, <2>1 DEF HandlesInv, RunShape, Rfsv!Next_, next, ++
  <2> HIDE DEF b
  <2>4. CASE call.op = "copyOn"
    <3>1. <<>> \in Blocks
      BY BlocksJoin
    <3>2. Writing'
      BY <1>3, <2>1, <2>2, <2>3, <2>4, <3>1 DEF Writing, Going, HasTarget, Target
    <3>3. CopiesOn'
      BY <1>3, <2>1, <2>2, <2>3, <2>4 DEF CopyInv, CopiesOn, Going, HasSource, ReadUpTo, From, Target
    <3> QED
      BY <1>3, <2>1, <2>4, <3>2, <3>3, CopyKept DEF CopyInv
  <2>5. CASE call.op = "copyTo"
    <3>1. PICK f \in Blocks, t \in Blocks : f = pcFile /\ t = Target
      BY <2>2, FilesAre DEF CopyInv, HasTarget, Target
    <3>2. PICK n \in Nat : n <= Len(f) /\ call.out = UpTo(f, n)
      BY <2>1, <2>5, <3>1 DEF CopyInv, CopiesTo, Going
    <3>3. t = call.out
      <4>1. t ++ <<>> = t
        BY BlocksJoin
      <4>2. Target ++ call.buf = call.out
        BY <2>1, <2>5 DEF CopyInv, CopiesTo, Going
      <4> QED
        BY <2>2, <3>1, <4>1, <4>2
    <3>4. CASE call.eof /\ x.at = "close"
      <4>1. HasTarget' /\ Target' = pcFile'
        BY <2>1, <2>2, <2>5, <3>1, <3>3, <3>4 DEF CopyInv, CopiesTo, Going, HasTarget, Target
      <4>2. CopiesTo' /\ Writing'
        BY <2>1, <3>4, <4>1 DEF CopiesTo, Writing, Going
      <4> QED
        BY <1>3, <2>1, <2>5, <4>2, CopyKept DEF CopyInv
    <3>5. CASE /\ ~ call.eof /\ x.at = "write"
               /\ x.buf = b /\ x.out = call.out ++ b /\ x.eof = (Len(b) < SendLen)
      <4>1. Len(f) \in Nat /\ UpTo(f, Len(f)) = f
        BY BlocksLen, WholeFront
      <4>2. Len(call.out) = n
        <5>1. PICK z \in Nat : z = 0 /\ z <= n
          OBVIOUS
        <5>2. Len(Part(f, z, n)) = n - z
          BY <3>2, <5>1, PartIs
        <5> QED
          BY <3>2, <5>1, <5>2 DEF UpTo
      <4>3. PICK m \in Nat : /\ m = Rfsv!Clamp(n + SendLen, Len(f)) /\ n <= m /\ m <= Len(f)
                             /\ m = n + SendLen \/ m = Len(f)
        BY <3>2, <4>1, RfsvAssumption DEF Rfsv!Clamp
      <4>4. b = Part(f, n, m)
        BY <3>1, <4>2, <4>3 DEF b, Part
      <4>5. b \in Blocks /\ Len(b) = m - n /\ UpTo(f, n) ++ b = UpTo(f, m)
        BY <4>3, <4>4, PartIs
      <4>6. x.out = UpTo(f, m) /\ Target ++ x.buf = x.out
        BY <3>1, <3>2, <3>3, <3>5, <4>5
      <4>7. x.eof => x.out = f
        <5>1. x.eof => Len(b) < SendLen
          BY <3>5
        <5>2. SendLen \in Nat
          BY RfsvAssumption
        <5>3. x.eof => m = Len(f)
          BY <4>1, <4>3, <4>5, <5>1, <5>2
        <5> QED
          BY <4>1, <4>6, <5>3
      <4>8. Writing'
        BY <1>3, <2>1, <2>2, <2>3, <3>5, <4>5 DEF Writing, Going, HasTarget, Target
      <4>9. CopiesTo'
        BY <2>1, <2>5, <3>1, <3>5, <4>3, <4>6, <4>7 DEF CopiesTo, Going, Target
      <4> QED
        BY <1>3, <2>1, <2>5, <4>8, <4>9, CopyKept DEF CopyInv
    <3> QED
      BY <2>3, <2>5, <3>4, <3>5
  <2> QED
    BY <2>1, <2>4, <2>5
<1> QED
  BY <1>7, <1>8

LEMMA FwriteStep ==
    ASSUME HandlesInv, CopyInv, Rfsv!Fwrite
    PROVE  HandlesInv' /\ CopyInv'
<1>1. CASE call.buf = <<>>
  <2>0. call.op \in {"copyTo", "copyOn"}
    BY Zenon DEF Rfsv!Fwrite, Rfsv!At
  <2>1. call.at = "write" /\ Rfsv!Goes(Rfsv!Next_("callback"))
    BY <1>1 DEF Rfsv!Fwrite, Rfsv!At
  <2>2. PICK x : x = Rfsv!Next_("callback")
    OBVIOUS
  <2>3. RunShape(x) /\ x.op = call.op /\ x.h = call.h /\ x.to = call.to /\ x.at = "callback"
    BY <2>2 DEF HandlesInv, RunShape, Rfsv!Next_
  <2>4. HandlesInv'
    BY <2>1, <2>2, <2>3, GoesKept DEF SourceAt, TargetAt
  <2>5. CopyInv'
    <3>1. server' = server /\ status' = status /\ pcFile' = pcFile /\ call' = x
      BY <2>1, <2>2 DEF Rfsv!Goes
    <3>2. /\ x.res = call.res /\ x.buf = call.buf /\ x.out = call.out
          /\ x.renewed = call.renewed /\ x.eof = call.eof
      BY <2>2 DEF HandlesInv, RunShape, Rfsv!Next_
    <3>3. Writing'
      BY <1>1, <2>0, <2>1, <2>3, <3>1, <3>2 DEF CopyInv, Writing, Going, HasTarget, Target
    <3>4. call.op = "copyTo" => CopiesTo'
      BY <2>1, <2>3, <3>1, <3>2 DEF CopyInv, CopiesTo, Going, Target
    <3>5. call.op = "copyOn" => CopiesOn'
      BY <2>1, <2>3, <3>1, <3>2 DEF CopyInv, CopiesOn, Going, HasSource, ReadUpTo, From, Target
    <3> QED
      BY <2>0, <2>3, <3>1, <3>3, <3>4, <3>5, CopyKept DEF CopyInv
  <2> QED
    BY <2>4, <2>5
<1> QED
  BY <1>1, FwriteSends

LEMMA CallbackStep ==
    ASSUME HandlesInv, CopyInv, Rfsv!Callback
    PROVE  HandlesInv' /\ CopyInv'
<1> DEFINE b == IF call.op = "copyFrom" THEN [call EXCEPT !.out = @ \o call.buf, !.buf = <<>>] ELSE call
           next(cancel) == IF cancel THEN [b EXCEPT !.at = "close", !.res = "cancel"]
                           ELSE IF call.op = "copyFrom" THEN
                                  [b EXCEPT !.at = IF call.buf = <<>> THEN "close" ELSE "read"]
                           ELSE [b EXCEPT !.at = "fill"]
<1>1. PICK cancel \in BOOLEAN : Rfsv!At(Rfsv!IsCopy, "callback") /\ Rfsv!Goes(next(cancel))
  BY Zenon DEF Rfsv!Callback
<1>2. PICK x : x = next(cancel)
  OBVIOUS
<1>3. RunShape(b) /\ b.op = call.op /\ b.h = call.h /\ b.to = call.to
  BY DEF HandlesInv, RunShape
<1>4. RunShape(x) /\ x.op = call.op /\ x.h = call.h /\ x.to = call.to /\ x.at \in {"close", "read", "fill"}
  <2> HIDE DEF b
  <2> QED
    BY <1>2, <1>3 DEF RunShape
<1> HIDE DEF next
<1>7. HandlesInv'
  BY <1>1, <1>2, <1>4, GoesKept DEF SourceAt, TargetAt, Rfsv!At
<1>8. CopyInv'
  <2>1. /\ server' = server /\ status' = status /\ pcFile' = pcFile /\ call' = x
        /\ call.op \in {"copyFrom", "copyTo", "copyOn"} /\ call.at = "callback"
    BY <1>1, <1>2 DEF Rfsv!Goes, Rfsv!At, Rfsv!IsCopy
  <2>2. /\ x.renewed = call.renewed /\ x.eof = call.eof
        /\ \/ x.at = "close" /\ x.res = "cancel"
           \/ /\ call.op = "copyFrom" /\ x.res = call.res /\ x.out = call.out ++ call.buf /\ x.buf = <<>>
              /\ x.at = IF call.buf = <<>> THEN "close" ELSE "read"
           \/ /\ call.op # "copyFrom" /\ x.res = call.res /\ x.out = call.out /\ x.buf = call.buf
              /\ x.at = "fill"
    BY <1>2 DEF HandlesInv, RunShape, next, ++
  <2> HIDE DEF b
  <2>3. CASE x.at = "close" /\ x.res = "cancel"
    BY <2>1, <2>3, FailedKept DEF CopyInv
  <2>4. CASE /\ call.op = "copyFrom" /\ x.res = call.res /\ x.out = call.out ++ call.buf /\ x.buf = <<>>
             /\ x.at = IF call.buf = <<>> THEN "close" ELSE "read"
    <3>1. PICK f, g \in Blocks : f = call.out /\ g = call.buf /\ ReadUpTo(call.h, f ++ g) /\ (g = <<>> => f = From)
      BY <2>1, <2>4 DEF CopyInv, CopiesFrom
    <3>2. f ++ g \in Blocks /\ <<>> \in Blocks /\ (f ++ g) ++ <<>> = f ++ g /\ f ++ <<>> = f
      BY BlocksJoin
    <3>3. ReadUpTo(call.h, call.out ++ call.buf)'
      BY <1>4, <2>1, <2>4, <3>1, <3>2 DEF ReadUpTo, From
    <3>4. CopiesFrom'
      BY <1>4, <2>1, <2>4, <3>1, <3>2, <3>3 DEF CopyInv, CopiesFrom, From
    <3> QED
      BY <1>4, <2>1, <2>4, <3>4, CopyKept DEF CopyInv
  <2>5. CASE /\ call.op # "copyFrom" /\ x.res = call.res /\ x.out = call.out /\ x.buf = call.buf
             /\ x.at = "fill"
    <3>1. Writing'
      BY <1>4, <2>1, <2>5 DEF CopyInv, Writing, Going, HasTarget, Target
    <3>2. call.op = "copyTo" => CopiesTo'
      BY <1>4, <2>1, <2>2, <2>5 DEF CopyInv, CopiesTo, Going, Target
    <3>3. call.op = "copyOn" => CopiesOn'
      BY <1>4, <2>1, <2>2, <2>5 DEF CopyInv, CopiesOn, Going, HasSource, ReadUpTo, From, Target
    <3> QED
      BY <1>4, <2>1, <2>5, <3>1, <3>2, <3>3, CopyKept DEF CopyInv
  <2> QED
    BY <2>2, <2>3, <2>4, <2>5
<1> QED
  BY <1>7, <1>8

LEMMA DevInfoStep ==
    ASSUME HandlesInv, CopyInv, Rfsv!DevInfo
    PROVE  HandlesInv' /\ CopyInv'
<1>1. CASE call.buf = <<>>
  <2>1. call.at = "devinfo" /\ Rfsv!Goes(Rfsv!Done("none"))
    BY <1>1 DEF Rfsv!DevInfo, Rfsv!At
  <2>2. PICK x : x = Rfsv!Done("none")
    OBVIOUS
  <2>3. RunShape(x) /\ x.at = "done"
    BY <2>2 DEF HandlesInv, RunShape, Rfsv!Done, Rfsv!Ends
  <2>4. Live = {}
    BY <2>1, NothingClaimed DEF SourceAt, TargetAt
  <2>5. HandlesInv'
    BY <2>1, <2>2, <2>3, <2>4, GoesKept
  <2>6. server' = server /\ pcFile' = pcFile /\ call' = x
    BY <2>1, <2>2 DEF Rfsv!Goes
  <2>0. call.op = "drives"
    BY Zenon DEF Rfsv!DevInfo, Rfsv!At
  <2>7. x.op = "drives"
    BY <2>0, <2>2 DEF HandlesInv, RunShape, Rfsv!Done, Rfsv!Ends
  <2>8. CopyInv'
    BY <2>6, <2>7, FailedKept DEF CopyInv
  <2> QED
    BY <2>5, <2>8
<1> QED
  BY <1>1, DevInfoAsks

LEMMA PositionStep ==
    ASSUME HandlesInv, CopyInv, Rfsv!Position
    PROVE  HandlesInv' /\ CopyInv'
<1> DEFINE next(pos, mode, k) ==
             [call EXCEPT !.buf = <<<<pos, mode>>, 0>>,
                          !.out = <<k, Len(server.files.from), pos, mode>>,
                          !.at = IF mode > 1 /\ pos >= 0 THEN "sense" ELSE "seek"]
<1>1. PICK pos \in Offsets, mode \in 1 .. 3, k \in 0 .. 1 :
        /\ Rfsv!At({"seek"}, "position")
        /\ call' = next(pos, mode, k)
        /\ k <= Len(server.files.from)
        /\ server' = IF call.h \in DOMAIN server.handles THEN Rfsv!MovedTo(server, call.h, k) ELSE server
        /\ UNCHANGED <<proto, status, pcFile, faults>>
  BY Zenon DEF Rfsv!Position
<1>2. RunShape(call)' /\ call'.op = call.op /\ call'.h = call.h /\ call'.to = call.to
      /\ call'.at \in {"sense", "seek"}
  BY <1>1 DEF HandlesInv, RunShape
<1> HIDE DEF next
<1>3. ServerShape(server') /\ DOMAIN server'.handles = DOMAIN server.handles
  BY <1>1, PosKeeps DEF HandlesInv
<1>7. HandlesInv'
  BY <1>1, <1>2, <1>3, HandlesKept DEF HandlesInv, ServerShape, Rfsv!At, Claims, SourceAt, TargetAt, Live
<1>8. CopyInv'
  <2>1. /\ call.op = "seek" /\ call.at = "position" /\ call'.buf = <<<<pos, mode>>, 0>> /\ pos \in Int
        /\ status' = status /\ pcFile' = pcFile
    BY <1>1, RfsvAssumption DEF next, HandlesInv, RunShape, Rfsv!At
  <2>2. call.h \in Nat /\ (status = "none" => Positioned(server))
    BY <2>1 DEF CopyInv, Seeks, SeekAt
  <2>3. server'.files = server.files
    BY <1>1, PosKeeps DEF HandlesInv
  <2>4. status = "none" => Positioned(server')
    <3>1. CASE call.h \notin DOMAIN server.handles
      BY <1>1, <2>2, <3>1
    <3>2. CASE status = "none" /\ call.h \in DOMAIN server.handles
      BY <1>1, <2>2, <3>2, MovedPositioned DEF HandlesInv
    <3> QED
      BY <3>1, <3>2
  <2>5. Seeks'
    BY <1>2, <2>1, <2>2, <2>4 DEF Seeks, SeekAt
  <2> QED
    BY <1>2, <2>1, <2>3, <2>5, CopyKept DEF CopyInv
<1> QED
  BY <1>7, <1>8

-----------------------------------------------------------------------------
LEMMA HandlesInit ==
    ASSUME Init
    PROVE  HandlesInv
<1>1. Rfsv!RfsvInit
  BY Zenon DEF Init
<1>2. server = [files |-> server.files, handles |-> <<>>]
  BY <1>1 DEF Rfsv!RfsvInit, Rfsv!None
<1>3. PICK none : none = <<>> /\ server.handles = none
  BY <1>2
<1>4. none = [x \in DOMAIN none |-> none[x]] /\ DOMAIN none = {}
  BY <1>3
<1>5. ServerShape(server) /\ Live = {}
  BY <1>2, <1>3, <1>4 DEF ServerShape, Live
<1> QED
  BY <1>1, <1>5 DEF Rfsv!RfsvInit, HandlesInv, RunShape, Rfsv!NoCall

LEMMA CopyInit ==
    ASSUME Init
    PROVE  CopyInv
<1>1. Rfsv!RfsvInit
  BY Zenon DEF Init
<1>2. PICK s \in Source : \/ server.files = [from |-> s]
                         \/ server.files = [from |-> s, to |-> <<9>>]
  BY <1>1 DEF Rfsv!RfsvInit
<1>3. s \in Blocks /\ <<9>> \in Blocks /\ pcFile \in Blocks
  BY <1>1, RfsvAssumption DEF Rfsv!RfsvInit, Blocks
<1>4. server.files \in FileSets
  BY <1>2, <1>3 DEF FileSets
<1>5. call.op = "none"
  BY <1>1 DEF Rfsv!RfsvInit, Rfsv!NoCall
<1> QED
  BY <1>3, <1>4, <1>5 DEF CopyInv, CopiesFrom, Writing, CopiesTo, CopiesOn, Seeks

LEMMA RfsvKeeps ==
    ASSUME HandlesInv, CopyInv, Rfsv!RfsvNext
    PROVE  HandlesInv' /\ CopyInv'
<1>1. CASE \E o \in DOMAIN Rfsv!FirstStep : Rfsv!Start(o)
  BY <1>1, BeginStep
<1>2. CASE Rfsv!Return \/ Rfsv!Quit
  BY <1>2, ReturnStep, QuitStep
<1>3. CASE Rfsv!Opening
  BY <1>3, OpenReadStep, OpenLocalStep, CreateFileStep, ReplaceFileStep DEF Rfsv!Opening
<1>4. CASE Rfsv!Copying
  BY <1>4, FillStep, FreadStep, FwriteStep, CallbackStep, ReadWriteStep DEF Rfsv!Copying
<1>5. CASE Rfsv!Ending
  BY <1>5, CloseStep, CloseToStep, DeleteFileStep, GetAttrStep, OtherStep DEF Rfsv!Ending
<1>6. CASE Rfsv!Listing
  BY <1>6, OpenDirStep, ReadDirStep, CloseDirStep DEF Rfsv!Listing
<1>7. CASE Rfsv!Driving
  BY <1>7, DevList16, DevList32, DevOpenStep, DevReadStep, DevCloseStep, DevParseStep, DevInfoStep DEF Rfsv!Driving
<1>8. CASE Rfsv!Seeking
  BY <1>8, PositionStep, SenseStep, ExpandStep, SeekStep, ExtendStep, ReseekStep DEF Rfsv!Seeking
<1> QED
  BY <1>1, <1>2, <1>3, <1>4, <1>5, <1>6, <1>7, <1>8 DEF Rfsv!RfsvNext

LEMMA RfsvUntouched ==
    ASSUME HandlesInv, CopyInv, UNCHANGED rfsvVars
    PROVE  HandlesInv' /\ CopyInv'
<1>1. proto' = proto /\ status' = status /\ server' = server /\ call' = call /\ pcFile' = pcFile
  BY DEF rfsvVars
<1>2. HandlesInv'
  BY <1>1 DEF HandlesInv, ServerShape, RunShape, Live, Claims
<1>3. CopiesFrom' /\ Writing' /\ CopiesTo'
  BY <1>1 DEF CopyInv, CopiesFrom, Writing, CopiesTo, Going, HasTarget, ReadUpTo, From, Target
<1>4. CopiesOn'
  BY <1>1 DEF CopyInv, CopiesOn, Going, HasSource, HasTarget, ReadUpTo, From, Target
<1>5. Seeks'
  BY <1>1 DEF CopyInv, Seeks, SeekAt
<1> QED
  BY <1>1, <1>2, <1>3, <1>4, <1>5 DEF CopyInv

LEMMA RfsvInvariant == Spec => [](HandlesInv /\ CopyInv)
<1>1. Init => HandlesInv /\ CopyInv
  BY HandlesInit, CopyInit
<1>2. HandlesInv /\ CopyInv /\ [Next]_vars => HandlesInv' /\ CopyInv'
  BY OneProgram, RfsvKeeps, RfsvUntouched
<1> QED
  BY <1>1, <1>2, PTL DEF Spec

(* No call of RFSV leaves a handle open in the session it returns in,      *)
(* however it ends, whatever the files, the sizes and the broken sessions. *)
THEOREM NothingStaysOpen == Spec => []NothingLeftOpen
<1>1. HandlesInv => NothingLeftOpen
  <2> SUFFICES ASSUME HandlesInv, call.at = "done", status = "none",
                      ~ (proto = "16" /\ call.op = "copyOn" /\ call.to = 0)
               PROVE  server.handles = Rfsv!None
    BY DEF NothingLeftOpen, Rfsv!NothingLeftOpen
  <2>1. DOMAIN server.handles = {}
    BY DEF HandlesInv, Live, Claims, SourceAt, TargetAt
  <2> QED
    BY <2>1 DEF HandlesInv, ServerShape, Rfsv!None
<1> QED
  BY <1>1, RfsvInvariant, PTL

(* A copy that reports success has left in its target what the source held  *)
(* at the time, however the blocks fell: copyFromPsion in the file on the PC, *)
(* copyToPsion and, while the session it was begun in lasts, copyOnPsion in   *)
(* the file on the Psion.                                                     *)
THEOREM CopiesAreWhole == Spec => []CopiesWhole
<1>1. CopyInv => CopiesWhole
  <2> SUFFICES ASSUME CopyInv PROVE CopiesWhole
    OBVIOUS
  <2>1. Rfsv!Succeeded("copyFrom") => call.out = server.files["from"]
    BY DEF CopyInv, CopiesFrom, From, Rfsv!Succeeded
  <2>2. Rfsv!Succeeded("copyTo") => Rfsv!To = pcFile
    BY DEF CopyInv, CopiesTo, HasTarget, Target, Rfsv!Succeeded, Rfsv!To, Rfsv!Has
  <2>3. Rfsv!Succeeded("copyOn") /\ ~ call.renewed => Rfsv!To = server.files["from"]
    BY DEF CopyInv, CopiesOn, HasTarget, Target, From, Rfsv!Succeeded, Rfsv!To, Rfsv!Has
  <2> QED
    BY <2>1, <2>2, <2>3 DEF CopiesWhole, Rfsv!CopiesWhole
<1> QED
  BY <1>1, RfsvInvariant, PTL
=============================================================================
