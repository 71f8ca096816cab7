------------------------------- MODULE Device -------------------------------
(***************************************************************************)
(* The device's identity: its id and name in a file on the Psion, read by  *)
(* DeviceEndpoint::connect and written by setName (lib/deviceendpoint.cc,  *)
(* device.cc, deviceconfiguration.cc) in the format of ini.cc.             *)
(*                                                                         *)
(* Text is a sequence of characters; a word of letters is one of them.     *)
(* The names asked for have no line breaks.                                *)
(***************************************************************************)
EXTENDS Integers, Sequences, FiniteSets, TLC, SequencesExt

CONSTANTS
    Programs,       \* programs that are connected to the device
    Names,          \* names a user may set
    Ids,            \* what uuid4 returns, one after the other
    MaxDevFaults    \* bound: remote file calls that fail

VARIABLES
    endpoint,       \* each program's DeviceEndpoint
    deviceFile,     \* the configuration file: {} or its text
    saved,          \* what was last saved, if that succeeded
    uuids,          \* how many ids were made
    devFaults

deviceVars == <<endpoint, deviceFile, saved, uuids, devFaults>>

NoEndpoint == [at |-> "none", id |-> <<>>, name |-> {}, persistent |-> FALSE, asked |-> <<>>]

DeviceInit ==
    /\ endpoint = [p \in Programs |-> NoEndpoint]
    /\ deviceFile = {} /\ saved = {} /\ uuids = 0 /\ devFaults = 0

DevFault == devFaults < MaxDevFaults /\ devFaults' = devFaults + 1

-----------------------------------------------------------------------------
(* The format: a line for each key, in the order of the keys.              *)

Blank == {" ", "\r", "\n"}
Letters == {"id", "name"}
Serialize(id, name) ==
    <<"id", " ", "=", " ">> \o id \o <<"\r", "\n", "name", " ", "=", " ">> \o name \o <<"\r", "\n">>

(* A line ends: its value counts, and the next key begins.                 *)
Start == [at |-> "keyStart", key |-> <<>>, value |-> <<>>, blanks |-> <<>>, result |-> <<>>]
Emit(s) == [Start EXCEPT !.result = (s.key :> s.value) @@ s.result]

ParseKey(s, c) ==
    CASE s.at = "keyStart" /\ c \in Blank -> s
      [] s.at = "keyStart" /\ c \in Letters -> [s EXCEPT !.at = "key", !.key = <<c>>]
      [] s.at = "key" /\ c \in Letters -> [s EXCEPT !.key = Append(@, c)]
      [] s.at \in {"key", "keyEnd"} /\ c = "=" -> [s EXCEPT !.at = "valueStart"]
      [] s.at \in {"key", "keyEnd"} /\ c \in Blank -> [s EXCEPT !.at = "keyEnd"]
      [] OTHER -> [s EXCEPT !.at = "failed"]

ParseValue(s, c) ==
    IF s.at = "valueStart" THEN IF c \in Blank THEN s ELSE [s EXCEPT !.at = "value", !.value = <<c>>]
    ELSE IF s.at = "valueEnd" THEN IF c = "\n" THEN Emit(s) ELSE [s EXCEPT !.at = "failed"]
    ELSE IF c = "\r" THEN [s EXCEPT !.at = "valueEnd", !.blanks = <<>>]
    ELSE IF c = "\n" THEN Emit(s)
    ELSE IF c \in Blank THEN [s EXCEPT !.at = "blanks", !.blanks = Append(@, c)]
    ELSE [s EXCEPT !.at = "value", !.value = @ \o s.blanks \o <<c>>, !.blanks = <<>>]

Parse(s, c) ==
    CASE s.at = "failed" -> s
      [] s.at \in {"keyStart", "key", "keyEnd"} -> ParseKey(s, c)
      [] OTHER -> ParseValue(s, c)

(* The last line needs no end.  A configuration has an id and a name.      *)
Deserialize(text) ==
    LET s == FoldLeft(Parse, Start, text)
        t == IF s.at \in {"valueStart", "value", "blanks"} THEN Emit(s) ELSE s
    IN  IF t.at = "keyStart" /\ {<<"id">>, <<"name">>} \subseteq DOMAIN t.result
        THEN {[id |-> t.result[<<"id">>], name |-> t.result[<<"name">>]]} ELSE {}

-----------------------------------------------------------------------------
(* connect: without a configuration it could read, whatever the reason,    *)
(* the device gets a new id.  A file that another program writes cannot be *)
(* opened.                                                                 *)

Busy == \E p \in Programs : endpoint[p].at = "writing"
ReadConfiguration == IF Busy THEN {} ELSE UNION {Deserialize(t) : t \in deviceFile}

Connected(p, configuration) ==
    /\ endpoint[p].at = "none"
    /\ \/ \E c \in configuration :
            /\ endpoint' = [endpoint EXCEPT ![p] =
                 [NoEndpoint EXCEPT !.at = "connected", !.id = c.id, !.name = {c.name}, !.persistent = TRUE]]
            /\ UNCHANGED uuids
       \/ /\ configuration = {} /\ uuids < Len(Ids)
          /\ uuids' = uuids + 1
          /\ endpoint' = [endpoint EXCEPT ![p] =
               [NoEndpoint EXCEPT !.at = "connected", !.id = Ids[uuids + 1]]]
    /\ UNCHANGED <<deviceFile, saved>>

Connect(p) == Connected(p, ReadConfiguration) /\ UNCHANGED devFaults
ConnectUnread(p) == Connected(p, {}) /\ DevFault

(* setName.  write_configuration makes the directory, then the file, or    *)
(* the file anew; a failure up to here changes nothing.                    *)
CreateConfigurationOver(p) ==   \* variant: a file that exists is opened, not replaced
    /\ endpoint[p].at = "connected" /\ ~Busy
    /\ \E n \in Names : endpoint' = [endpoint EXCEPT ![p].at = "writing", ![p].asked = n]
    /\ deviceFile' = (IF deviceFile = {} THEN {<<>>} ELSE deviceFile) /\ saved' = {}
    /\ UNCHANGED <<uuids, devFaults>>
CreateConfiguration(p) ==
    /\ endpoint[p].at = "connected" /\ ~Busy
    /\ \E n \in Names : endpoint' = [endpoint EXCEPT ![p].at = "writing", ![p].asked = n]
    /\ deviceFile' = {<<>>} /\ saved' = {}
    /\ UNCHANGED <<uuids, devFaults>>

(* fwrite puts the text over what the file has; then fclose.               *)
Over(old, new) == new \o SubSeq(old, Len(new) + 1, Len(old))
WriteConfiguration(p) ==
    LET e == endpoint[p]
        text == Serialize(e.id, e.asked)
        failed == [e EXCEPT !.at = "connected", !.asked = <<>>]
    IN  /\ e.at = "writing" /\ UNCHANGED uuids
        /\ \/ /\ deviceFile' = {Over(t, text) : t \in deviceFile}
              /\ \/ /\ endpoint' = [endpoint EXCEPT ![p] =
                         [failed EXCEPT !.name = {e.asked}, !.persistent = TRUE]]
                    /\ saved' = {[id |-> e.id, name |-> e.asked]} /\ UNCHANGED devFaults
                 \/ endpoint' = [endpoint EXCEPT ![p] = failed] /\ DevFault /\ UNCHANGED saved
           \/ /\ DevFault /\ UNCHANGED saved
              /\ \E k \in 0 .. Len(text) :
                   deviceFile' = {Over(t, SubSeq(text, 1, k)) : t \in deviceFile}
              /\ endpoint' = [endpoint EXCEPT ![p] = failed]

Leave(p) ==
    /\ endpoint[p].at # "none"
    /\ endpoint' = [endpoint EXCEPT ![p] = NoEndpoint]
    /\ UNCHANGED <<deviceFile, saved, uuids, devFaults>>

DeviceNext ==
    \E p \in Programs :
        \/ Connect(p) \/ ConnectUnread(p) \/ CreateConfiguration(p)
        \/ WriteConfiguration(p) \/ Leave(p)

-----------------------------------------------------------------------------
Trimmed(name) ==
    LET seen == {i \in DOMAIN name : name[i] \notin Blank}
    IN  IF seen = {} THEN <<>>
        ELSE SubSeq(name, CHOOSE i \in seen : \A j \in seen : i <= j,
                          CHOOSE i \in seen : \A j \in seen : j <= i)

(* What setName reported as saved is what the next program to connect      *)
(* reads: the same id, and the name without the blanks at its ends,        *)
(* whatever the file held before and whichever programs failed to write it *)
(* or left while they did.                                                 *)
NameSurvives ==
    \A s \in saved : \A t \in deviceFile :
        Deserialize(t) = {[s EXCEPT !.name = Trimmed(s.name)]}
=============================================================================
