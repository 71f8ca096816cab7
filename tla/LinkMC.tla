------------------------------ MODULE LinkMC ------------------------------
(* Instances of Link for TLC. *)
EXTENDS Link

Item(k, r) == [kind |-> k, chan |-> 1, reply |-> r]

NoScript == <<>>
FlowScript == <<Item("data", TRUE), Item("xoff", FALSE), Item("data", TRUE),
                Item("xon", FALSE), Item("disconnect", TRUE)>>
DisconnectScript == <<Item("disconnect", TRUE)>>
OneChannel == {1}
SameChannel == [p \in Packet |-> 1]

(* The state the handshake ends in: our request was confirmed (EPOC) or *)
(* acknowledged (SIBO), and nothing has been sent since.                *)
Connected ==
    /\ peer \in {[type |-> t, up |-> TRUE, rx |-> 0, txSeq |-> 1, item |-> 1,
                 con |-> FALSE, magic |-> FALSE] : t \in PeerTypes}
    /\ linkType = peer.type /\ failed = FALSE
    /\ txSequence = 1 /\ rxSequence = 0
    /\ ackWaitQueue = {}
    /\ holdQueue = [c \in Channels |-> <<>>] /\ waitQueue = <<>>
    /\ xoff = [c \in Channels |-> FALSE]
    /\ pc = [t \in Threads |-> "idle"]
    /\ todo = [t \in Senders |-> <<>>]
    /\ eseq = [t \in Senders |-> 0]
    /\ pending = [t \in Threads |-> {}] /\ purging = None
    /\ toPeer = <<>> /\ fromPeer = <<>>
    /\ peerGot = <<>> /\ ncpGot = <<>> /\ ncpEver = {}
    /\ nextSend = 1 /\ faults = 0

ConnectedSpec == Connected /\ [][Next]_vars /\ Fairness
=============================================================================
