--------------------------- MODULE CommandsProofs ---------------------------
(* Proofs about the commands, for any number of them, any files, things on   *)
(* the server, failing accesses, killed commands and restarts of the server. *)
EXTENDS Commands, TLAPS

(* What the calls of the commands are.                                       *)
LEMMA CallType ==
    ASSUME call \in {s.call : s \in Starts}
    PROVE  /\ call \in [Command -> Call]
           /\ \A c \in Command :
                 /\ Len(call[c].args) <= MaxArgs
                 /\ call[c].op = "delete" => call[c].args = <<>>
                 /\ call[c].op \in Reading => call[c].args # <<>>
                 /\ call[c].op = "upload" => call[c].kind = "any"
                 /\ call[c].op \in {"upload", "update"} => Len(call[c].args) = 1
                 /\ call[c].op = "files" => call[c].kind = "file"
<1>1. PICK s \in Starts : call = s.call
  OBVIOUS
<1> QED
  BY <1>1, StartAssumption

LEMMA CallFields ==
    ASSUME call \in {s.call : s \in Starts}, NEW c \in Command
    PROVE  /\ call[c].op \in {"init", "install", "upload", "files", "update", "delete"}
           /\ call[c].args \in Seq(Path) /\ call[c].kind \in {"any", "page", "file"}
           /\ call[c].id \in DOMAIN Initial /\ call[c].id \in Id
           /\ call[c].env \in Key \cup {NoKey} /\ call[c].version \in Version
<1>1. call[c] \in Call
  BY CallType
<1> QED
  BY <1>1 DEF Call, Id

(* The argument that a command is at is a path, and its name an id.          *)
LEMMA ArgType ==
    ASSUME TypeOK, NEW c \in Command, call[c].op \in Reading
    PROVE  Arg(c) \in Path /\ at[c] \in 1 .. MaxArgs /\ NewId(c) \in Id
<1>1. call[c].args \in Seq(Path) /\ Len(call[c].args) <= MaxArgs /\ at[c] \in DOMAIN call[c].args
  BY CallType, CallFields DEF TypeOK, DeviceOK, StepsOK
<1>2. at[c] \in 1 .. Len(call[c].args) /\ Len(call[c].args) \in Nat
  BY <1>1
<1>3. at[c] \in 1 .. MaxArgs
  BY <1>1, <1>2, BoundAssumption
<1>4. Arg(c) \in Path
  BY <1>1, <1>2 DEF Arg
<1> QED
  BY <1>3, <1>4 DEF NewId, Id

LEMMA FileType ==
    ASSUME TypeOK, NEW c \in Command, call[c].op = "install"
    PROVE  /\ File(c) \in SkillFile /\ at[c] \in Nat
           /\ ~LastFile(c) => at[c] + 1 \in DOMAIN SkillFiles
<1>1. at[c] \in DOMAIN SkillFiles /\ SkillFiles \in Seq(STRING)
  BY DeviceAssumption DEF TypeOK, StepsOK
<1>2. at[c] \in 1 .. Len(SkillFiles) /\ Len(SkillFiles) \in Nat
  BY <1>1
<1> QED
  BY <1>1, <1>2 DEF File, SkillFile, LastFile

-----------------------------------------------------------------------------
(* The types.  Every action keeps the parts of the state it does not touch;  *)
(* the parts are those of TypeOK.                                            *)
LEMMA InitTypeOK == Init => TypeOK
<1> SUFFICES ASSUME Init PROVE TypeOK
  OBVIOUS
<1>1. PICK s \in Starts : call = s.call /\ config = s.config /\ skill = s.skill
  BY DEF Init, InitDevice
<1>2. call \in {t.call : t \in Starts}
  BY <1>1
<1>3. DeviceOK
  <2>1. pc \in [Command -> Steps]
    BY <1>2, CallFields DEF Init, FirstStep, Steps
  <2>2. config \in Key \cup {NoKey} /\ skill \in [SkillFile -> Version \cup {Absent}]
    BY <1>1, StartAssumption
  <2>3. skillDir \in BOOLEAN
    BY DEF Init, InitDevice
  <2> QED
    BY <1>2, <2>1, <2>2, <2>3, FaultAssumption DEF Init, InitDevice, DeviceOK
<1>4. CommandOK
  <2>1. request \in [Command -> Request]
    BY <1>2, CallFields DEF Init, NoRequest, Request
  <2>2. store \in [Id -> Stored]
    BY InitialAssumption DEF Init, Stored, Nothing, Id
  <2>3. kind \in [Command -> {"any", "page", "file"}]
    BY <1>2, CallFields DEF Init
  <2>4. disk \in [Path -> Body \cup {Absent}]
    BY BodyAssumption DEF Init
  <2> QED
    BY <2>1, <2>2, <2>3, <2>4, BoundAssumption DEF Init, CommandOK
<1>5. StepsOK
  <2> SUFFICES ASSUME NEW c \in Command
      PROVE  /\ pc[c] \in {"check", "save"} <=> call[c].op = "init"
             /\ pc[c] \in {"stat"} \cup Installing <=> call[c].op = "install"
             /\ pc[c] \in {"classify", "read"} => call[c].op \in Reading
             /\ call[c].op \in Reading => at[c] \in DOMAIN call[c].args
             /\ call[c].op = "install" => at[c] \in DOMAIN SkillFiles
             /\ pc[c] # "send"
             /\ pc[c] = "load" => call[c].op # "upload"
             /\ request[c].state = "none"
    BY DEF StepsOK
  <2>1. pc[c] = FirstStep(call[c].op) /\ at[c] = 1 /\ request[c].state = "none"
    BY DEF Init, InitDevice, NoRequest
  <2>2. call[c].op \in Reading => 1 \in DOMAIN call[c].args
    <3>1. call[c].args \in Seq(Path) /\ (call[c].op \in Reading => call[c].args # <<>>)
      BY <1>2, CallType, CallFields
    <3> QED
      BY <3>1
  <2>3. 1 \in DOMAIN SkillFiles
    BY DeviceAssumption
  <2> QED
    BY <1>2, <2>1, <2>2, <2>3, CallFields DEF FirstStep, Installing, Reading
<1> QED
  BY <1>3, <1>4, <1>5 DEF TypeOK

(* What a command does on its device.                                        *)
LEMMA DeviceTypeOK ==
    ASSUME TypeOK, NEW c \in Command, DeviceStep(c),
           UNCHANGED <<command, network, lifecycle, editor>>
    PROVE  TypeOK'
<1>1. /\ \A d \in Command \ {c} : pc'[d] = pc[d] /\ at'[d] = at[d]
      /\ pc'[c] \in {"check", "save"} <=> pc[c] \in {"check", "save"}
      /\ pc'[c] \in {"stat"} \cup Installing <=> pc[c] \in {"stat"} \cup Installing
      /\ pc[c] \in {"check", "save", "stat"} \cup Installing
      /\ pc' \in [Command -> Steps]
  BY DEF TypeOK, DeviceOK, DeviceStep, CheckConfig, Save, CheckSkill, Prepare, Rename, Remove,
     RenameAgain, Put, Running, Step, Ends, Installing, Steps
<1>2. /\ at' \in [Command -> Nat]
      /\ call[c].op = "install" => at'[c] \in DOMAIN SkillFiles
      /\ call[c].op # "install" => at'[c] = at[c]
  <2>1. CASE at' = at
    BY <2>1 DEF TypeOK, DeviceOK, StepsOK
  <2>2. CASE at' = [at EXCEPT ![c] = @ + 1] /\ ~LastFile(c) /\ pc[c] \in Installing
    <3>1. call[c].op = "install"
      BY <2>2 DEF TypeOK, StepsOK
    <3> QED
      BY <2>2, <3>1, FileType DEF TypeOK, DeviceOK
  <2> QED
    BY <2>1, <2>2 DEF DeviceStep, CheckConfig, Save, CheckSkill, Prepare, Rename, Remove,
     RenameAgain, Put, Running, Step, Ends, Installing
<1>3. DeviceOK'
  <2>1. status' \in [Command -> {"running", "ok", "failed", "killed"}]
    BY DEF TypeOK, DeviceOK, DeviceStep, CheckConfig, Save, CheckSkill, Prepare, Rename, Remove,
       RenameAgain, Put, Step, Ends
  <2>2. config' \in Key \cup {NoKey}
    BY DEF TypeOK, DeviceOK, DeviceStep, CheckConfig, Save, CheckSkill, Prepare, Rename, Remove,
       RenameAgain, Put, Key, device
  <2>3. skill' \in [SkillFile -> Version \cup {Absent}]
    <3>1. CASE skill' = skill
      BY <3>1 DEF TypeOK, DeviceOK
    <3>2. CASE skill' = [skill EXCEPT ![File(c)] = call[c].version]
      BY <3>2, CallFields DEF TypeOK, DeviceOK
    <3>3. CASE skill' = [skill EXCEPT ![File(c)] = Absent]
      BY <3>3 DEF TypeOK, DeviceOK
    <3> QED
      BY <3>1, <3>2, <3>3 DEF DeviceStep, CheckConfig, Save, CheckSkill, Prepare, Rename,
         Remove, RenameAgain, Put, device
  <2>4. skillDir' \in BOOLEAN
    BY DEF TypeOK, DeviceOK, DeviceStep, CheckConfig, Save, CheckSkill, Prepare, Rename, Remove,
       RenameAgain, Put, device
  <2>5. rivals' \in [Command -> SUBSET Command]
    <3>1. CASE rivals' = rivals
      BY <3>1 DEF TypeOK, DeviceOK
    <3>2. CASE \E steps \in SUBSET Steps : WriteBeside(c, steps)
      BY <3>2 DEF TypeOK, DeviceOK, WriteBeside
    <3>3. Installing \in SUBSET Steps /\ {"save"} \in SUBSET Steps
      BY DEF Installing, Steps
    <3> QED
      BY <3>1, <3>2, <3>3 DEF DeviceStep, CheckConfig, Save, CheckSkill, Prepare, Rename, Remove,
         RenameAgain, Put, device
  <2>6. faults' = faults \/ Fault
    BY DEF DeviceStep, CheckConfig, Save, CheckSkill, Prepare, Rename, Remove, RenameAgain, Put
  <2>7. faults' \in 0 .. MaxFaults
    BY <2>6, FaultAssumption DEF TypeOK, DeviceOK, Fault
  <2>8. kills' = kills /\ call' = call
    BY DEF DeviceStep, CheckConfig, Save, CheckSkill, Prepare, Rename, Remove, RenameAgain
  <2> QED
    BY <1>1, <1>2, <2>1, <2>2, <2>3, <2>4, <2>5, <2>7, <2>8 DEF TypeOK, DeviceOK
<1>4. CommandOK'
  BY DEF TypeOK, CommandOK, command, network, lifecycle, editor
<1>5. StepsOK'
  <2>1. call' = call /\ UNCHANGED <<kind, body, request>>
    BY DEF DeviceStep, CheckConfig, Save, CheckSkill, Prepare, Rename, Remove, RenameAgain,
       Put, command, network
  <2>2. call[c].op \notin Reading
    BY <1>1 DEF TypeOK, StepsOK, Reading
  <2>3. Installing = {"prepare", "rename", "remove", "rename again"}
    BY DEF Installing
  <2>4. ASSUME NEW d \in Command
        PROVE  /\ pc'[d] \in {"check", "save"} <=> call[d].op = "init"
               /\ pc'[d] \in {"stat"} \cup Installing <=> call[d].op = "install"
    BY <1>1 DEF TypeOK, StepsOK
  <2>5. ASSUME NEW d \in Command
        PROVE  /\ call[d].op \in Reading => at'[d] = at[d]
               /\ call[d].op = "install" => at'[d] \in DOMAIN SkillFiles
    BY <1>1, <1>2, <2>2 DEF TypeOK, StepsOK
  <2>6. ASSUME NEW d \in Command
        PROVE  /\ pc'[d] \in {"classify", "read", "send", "load"} => pc'[d] = pc[d]
    BY <1>1, <2>3
  <2> QED
    BY <2>1, <2>4, <2>5, <2>6 DEF TypeOK, StepsOK
<1> QED
  BY <1>3, <1>4, <1>5 DEF TypeOK

(* Most steps leave the device alone, and move one command.                  *)
LEMMA Moved ==
    ASSUME TypeOK, NEW c \in Command, UNCHANGED <<call, device, kills>>, faults' \in 0 .. MaxFaults,
           UNCHANGED at,
           \/ \E step \in Steps : Step(c, step)
           \/ \E how \in {"ok", "failed", "killed"} : Ends(c, how)
           \/ UNCHANGED process
    PROVE  DeviceOK'
<1>1. pc' \in [Command -> Steps] /\ at' \in [Command -> Nat]
      /\ status' \in [Command -> {"running", "ok", "failed", "killed"}]
  BY DEF TypeOK, DeviceOK, Step, Ends, process
<1> QED
  BY <1>1 DEF TypeOK, DeviceOK, device

LEMMA StepsKept ==
    ASSUME TypeOK, NEW c \in Command, UNCHANGED <<call, at>>,
           \A d \in Command \ {c} : /\ pc'[d] = pc[d] /\ kind'[d] = kind[d]
                                    /\ body'[d] = body[d] /\ request'[d] = request[d],
           call[c].op \notin {"init", "install"},
           pc'[c] \in {"load", "classify", "read", "send", "wait"},
           pc'[c] \in {"classify", "read"} => call[c].op \in Reading,
           pc'[c] = "send" /\ call[c].op \in Reading => body'[c] \in Body,
           pc'[c] = "load" /\ call[c].op = "upload" /\ kind'[c] = "page" => body'[c] \in Body,
           request'[c].state # "none" /\ request'[c].method # "delete"
              => request'[c].hash \in Body /\ call[c].op \in Reading
    PROVE  StepsOK'
<1> SUFFICES ASSUME NEW d \in Command
    PROVE  /\ pc'[d] \in {"check", "save"} <=> call[d].op = "init"
           /\ pc'[d] \in {"stat"} \cup Installing <=> call[d].op = "install"
           /\ pc'[d] \in {"classify", "read"} => call[d].op \in Reading
           /\ call[d].op \in Reading => at[d] \in DOMAIN call[d].args
           /\ call[d].op = "install" => at[d] \in DOMAIN SkillFiles
           /\ pc'[d] = "send" /\ call[d].op \in Reading => body'[d] \in Body
           /\ pc'[d] = "load" /\ call[d].op = "upload" /\ kind'[d] = "page" => body'[d] \in Body
           /\ request'[d].state # "none" /\ request'[d].method # "delete"
              => request'[d].hash \in Body /\ call[d].op \in Reading
  BY DEF StepsOK, Installing
<1>1. CASE d = c
  BY <1>1 DEF TypeOK, StepsOK, Installing
<1>2. CASE d # c
  BY <1>2 DEF TypeOK, StepsOK
<1> QED
  BY <1>1, <1>2

LEMMA LoadTypeOK == ASSUME TypeOK, NEW c \in Command, Load(c) PROVE TypeOK'
<1>1. pc[c] = "load" /\ at' = at /\ UNCHANGED <<call, device, faults, kills, kind, body, results, network, lifecycle, editor>>
  BY DEF Load, Running, Step, Ends, Fails
<1>2. call[c].op \in {"upload", "files", "update", "delete"} /\ AfterLoad(c) \in {"send", "classify", "read"}
      /\ call[c].env \in Key \cup {NoKey} /\ config \in Key \cup {NoKey}
  BY <1>1, CallFields DEF TypeOK, DeviceOK, StepsOK, AfterLoad, Installing
<1>3. Ends(c, "failed") \/ Step(c, AfterLoad(c))
  BY DEF Load, Fails
<1>4. DeviceOK'
  BY <1>1, <1>2, <1>3, Moved DEF TypeOK, DeviceOK, Steps
<1>5. key' \in [Command -> Key \cup {NoKey}]
  BY <1>2 DEF TypeOK, CommandOK, Load
<1>6. printed' \in [Command -> SUBSET Id]
  BY DEF TypeOK, CommandOK, Load, Fails, PrintedOnFailure
<1>7. CommandOK'
  BY <1>1, <1>5, <1>6 DEF TypeOK, CommandOK, network, lifecycle, editor
<1>8. StepsOK'
  <2>1. CASE UNCHANGED pc
    BY <1>1, <2>1 DEF TypeOK, StepsOK, network
  <2>2. CASE pc' = [pc EXCEPT ![c] = AfterLoad(c)]
    <3>1. AfterLoad(c) = "send" /\ call[c].op \in Reading => call[c].op = "upload" /\ kind[c] = "page"
      BY DEF AfterLoad, Reading
    <3>2. AfterLoad(c) \in {"classify", "read"} => call[c].op \in Reading
      BY <1>2 DEF AfterLoad, Reading
    <3>3. pc'[c] = AfterLoad(c) /\ \A d \in Command \ {c} : pc'[d] = pc[d]
      BY <2>2 DEF TypeOK, DeviceOK
    <3> QED
      BY <1>1, <1>2, <3>1, <3>2, <3>3 DEF TypeOK, StepsOK, network, Installing
  <2> QED
    BY <1>3, <2>1, <2>2 DEF Ends, Step
<1> QED
  BY <1>4, <1>7, <1>8 DEF TypeOK

LEMMA ClassifyTypeOK == ASSUME TypeOK, NEW c \in Command, Classify(c) PROVE TypeOK'
<1>1. pc[c] = "classify" /\ at' = at /\ UNCHANGED <<call, device, faults, kills, key, body, results, network, lifecycle, editor>>
  BY DEF Classify, Running, Step, Ends, Fails
<1>2. call[c].op \in Reading
  BY <1>1 DEF TypeOK, StepsOK
<1>3. \/ Ends(c, "failed") /\ kind' = kind
      \/ Step(c, "read") /\ kind' \in [Command -> {"any", "page", "file"}] /\ \A d \in Command \ {c} : kind'[d] = kind[d]
      \/ Step(c, "load") /\ kind' = [kind EXCEPT ![c] = "file"]
  BY DEF TypeOK, CommandOK, Classify, Fails
<1>4. DeviceOK'
  BY <1>1, <1>3, Moved DEF TypeOK, DeviceOK, Steps
<1>5. kind' \in [Command -> {"any", "page", "file"}]
  BY <1>3 DEF TypeOK, CommandOK
<1>6. printed' \in [Command -> SUBSET Id]
  BY DEF TypeOK, CommandOK, Classify, Fails, PrintedOnFailure
<1>7. CommandOK'
  BY <1>1, <1>5, <1>6 DEF TypeOK, CommandOK, network, lifecycle, editor
<1>8. StepsOK'
  <2>1. CASE Ends(c, "failed") /\ UNCHANGED kind
    BY <1>1, <2>1 DEF TypeOK, StepsOK, network, Ends
  <2>2. CASE ~(Ends(c, "failed") /\ UNCHANGED kind)
    <3>1. UNCHANGED request /\ UNCHANGED body
      BY <1>1 DEF network
    <3>2. /\ \A d \in Command \ {c} : pc'[d] = pc[d] /\ kind'[d] = kind[d]
          /\ pc'[c] = "read" \/ (pc'[c] = "load" /\ kind'[c] = "file")
      BY <1>3, <2>2 DEF TypeOK, DeviceOK, CommandOK, Step
    <3>3. call[c].op \notin {"init", "install"}
      BY <1>2 DEF Reading
    <3>4. request[c].state # "none" /\ request[c].method # "delete"
          => request[c].hash \in Body /\ call[c].op \in Reading
      BY DEF TypeOK, StepsOK
    <3> QED
      BY <1>1, <1>2, <3>1, <3>2, <3>3, <3>4, StepsKept
  <2> QED
    BY <2>1, <2>2
<1> QED
  BY <1>4, <1>7, <1>8 DEF TypeOK

LEMMA ReadTypeOK == ASSUME TypeOK, NEW c \in Command, Read(c) PROVE TypeOK'
<1>1. pc[c] = "read" /\ at' = at /\ UNCHANGED <<call, device, faults, kills, key, kind, results, network, lifecycle, editor>>
  BY DEF Read, Running, Step, Ends, Fails
<1>2. call[c].op \in Reading
  BY <1>1 DEF TypeOK, StepsOK
<1>3. \/ Ends(c, "failed") /\ body' = body
      \/ /\ \E step \in {"load", "send"} : Step(c, step)
         /\ disk[Arg(c)] \in Body /\ body' = [body EXCEPT ![c] = disk[Arg(c)]]
  BY <1>2, ArgType DEF TypeOK, CommandOK, Read, Fails, Readable
<1>4. DeviceOK'
  BY <1>1, <1>3, Moved DEF TypeOK, DeviceOK, Steps
<1>5. body' \in [Command -> Body \cup {Absent}]
  BY <1>3 DEF TypeOK, CommandOK
<1>6. printed' \in [Command -> SUBSET Id]
  BY DEF TypeOK, CommandOK, Read, Fails, PrintedOnFailure
<1>7. CommandOK'
  BY <1>1, <1>5, <1>6 DEF TypeOK, CommandOK, network, lifecycle, editor
<1>8. StepsOK'
  <2>1. CASE Ends(c, "failed") /\ UNCHANGED body
    BY <1>1, <2>1 DEF TypeOK, StepsOK, network, Ends
  <2>2. CASE ~(Ends(c, "failed") /\ UNCHANGED body)
    <3>1. UNCHANGED request /\ UNCHANGED kind
      BY <1>1 DEF network
    <3>2. /\ \A d \in Command \ {c} : pc'[d] = pc[d] /\ body'[d] = body[d]
          /\ pc'[c] \in {"load", "send"} /\ body'[c] \in Body
      BY <1>3, <2>2 DEF TypeOK, DeviceOK, CommandOK, Step
    <3>3. call[c].op \notin {"init", "install"}
      BY <1>2 DEF Reading
    <3>4. request[c].state # "none" /\ request[c].method # "delete"
          => request[c].hash \in Body /\ call[c].op \in Reading
      BY DEF TypeOK, StepsOK
    <3> QED
      BY <1>1, <1>2, <3>1, <3>2, <3>3, <3>4, StepsKept
  <2> QED
    BY <2>1, <2>2
<1> QED
  BY <1>4, <1>7, <1>8 DEF TypeOK

LEMMA SendTypeOK == ASSUME TypeOK, NEW c \in Command, Send(c) PROVE TypeOK'
<1>1. pc[c] = "send" /\ at' = at /\ UNCHANGED <<call, device, faults, kills, key, kind, body, results, store, lifecycle, editor>>
  BY DEF Send, Running, Step, Ends, Fails
<1>2. call[c].op \in {"upload", "files", "update", "delete"} /\ call[c].id \in Id
  BY <1>1, CallFields DEF TypeOK, DeviceOK, StepsOK, Installing
<1>3. CASE Ends(c, "failed") /\ UNCHANGED request
  <2>1. DeviceOK'
    BY <1>1, <1>3, Moved DEF TypeOK, DeviceOK
  <2>2. CommandOK'
    BY <1>1, <1>3 DEF TypeOK, CommandOK, lifecycle, editor, Send, Fails, PrintedOnFailure
  <2>3. StepsOK'
    BY <1>1, <1>3 DEF TypeOK, StepsOK, Ends
  <2> QED
    BY <2>1, <2>2, <2>3 DEF TypeOK
<1>4. CASE Step(c, "wait") /\ UNCHANGED printed
           /\ request' = [request EXCEPT ![c] =
                [state |-> "sent", method |-> Method(c), endpoint |-> Endpoint(c),
                 id |-> IF Method(c) = "create" THEN NewId(c) ELSE call[c].id,
                 hash |-> body[c], body |-> Absent]]
  <2>1. DeviceOK'
    BY <1>1, <1>4, Moved DEF TypeOK, DeviceOK, Steps
  <2>2. /\ Method(c) \in {"create", "update", "delete"} /\ Endpoint(c) \in {"page", "file"}
        /\ Method(c) = "create" => NewId(c) \in Id
        /\ Method(c) # "delete" => call[c].op \in Reading
    BY <1>2, ArgType DEF Method, Endpoint, Reading
  <2>3. request' \in [Command -> Request]
    BY <1>2, <1>4, <2>2 DEF TypeOK, CommandOK, Request
  <2>4. CommandOK'
    BY <1>1, <1>4, <2>3 DEF TypeOK, CommandOK, lifecycle, editor
  <2>5. /\ request'[c].method = Method(c) /\ request'[c].hash = body[c] /\ pc'[c] = "wait"
        /\ \A d \in Command \ {c} : request'[d] = request[d] /\ pc'[d] = pc[d]
    BY <1>4 DEF TypeOK, DeviceOK, CommandOK, Step
  <2>6. StepsOK'
    <3>1. call[c].op \in Reading => body[c] \in Body
      BY <1>1 DEF TypeOK, StepsOK
    <3>2. request'[c].method # "delete" => request'[c].hash \in Body /\ call[c].op \in Reading
      BY <2>2, <2>5, <3>1
    <3>3. /\ \A d \in Command \ {c} : /\ pc'[d] = pc[d] /\ kind'[d] = kind[d]
                                      /\ body'[d] = body[d] /\ request'[d] = request[d]
          /\ call[c].op \notin {"init", "install"} /\ pc'[c] = "wait"
          /\ UNCHANGED <<call, at>>
      BY <1>1, <1>2, <2>5
    <3> QED
      BY <3>2, <3>3, StepsKept
  <2> QED
    BY <2>1, <2>4, <2>6 DEF TypeOK
<1> QED
  BY <1>3, <1>4 DEF Send, Fails


(* Steps of the network and of the server change states and bodies only.     *)
LEMMA OnlyRequests ==
    ASSUME TypeOK, UNCHANGED <<call, process, device, kills, command, editor>>,
           faults' \in 0 .. MaxFaults, store' \in [Id -> Stored],
           server' \in {"running", "stopping", "exited"}, stops' \in 0 .. MaxStops,
           request' \in [Command -> Request],
           \A c \in Command : /\ request'[c].method = request[c].method
                              /\ request'[c].hash = request[c].hash
                              /\ request[c].state = "none" => request'[c].state = "none"
    PROVE  TypeOK'
<1>1. DeviceOK'
  BY DEF TypeOK, DeviceOK, process, device
<1>2. CommandOK'
  BY DEF TypeOK, CommandOK, command, editor
<1>3. StepsOK'
  BY DEF TypeOK, StepsOK, process, command
<1> QED
  BY <1>1, <1>2, <1>3 DEF TypeOK

LEMMA ReceiveTypeOK == ASSUME TypeOK, NEW c \in Command, Receive(c) PROVE TypeOK'
<1>1. PICK b \in Streamed(c) :
          request' = [request EXCEPT ![c].state = "received", ![c].body = b]
  BY DEF Receive
<1>2. request \in [Command -> Request] /\ request[c] \in Request
  BY DEF TypeOK, CommandOK
<1>3. b \in Body \cup {Absent, Mixed}
  <2>1. CASE b = request[c].hash
    BY <1>2, <2>1 DEF Request
  <2>2. CASE b # request[c].hash
    <3>1. request[c].method # "delete" /\ (b = Mixed \/ b \in {disk[Arg(c)]} \ {Absent})
      BY <2>2, <1>2 DEF Streamed
    <3>2. \A p \in Path : disk[p] \in Body \cup {Absent}
      BY DEF TypeOK, CommandOK
    <3>3. request[c].state # "none"
      BY DEF Receive
    <3>4. b = Mixed \/ b = disk[Arg(c)]
      BY <3>1
    <3>5. Arg(c) \in Path
      BY <3>1, <3>3, ArgType DEF TypeOK, StepsOK
    <3> QED
      BY <3>2, <3>4, <3>5
  <2> QED
    BY <2>1, <2>2
<1>4. request' \in [Command -> Request]
  BY <1>1, <1>2, <1>3 DEF Request
<1> QED
  BY <1>1, <1>2, <1>4, OnlyRequests
     DEF TypeOK, DeviceOK, CommandOK, Receive, deviceVars, process, device, command, lifecycle, editor

LEMMA HandleTypeOK == ASSUME TypeOK, NEW c \in Command, Handle(c) PROVE TypeOK'
<1>1. PICK answer \in {"ok", "refused"} : request' = [request EXCEPT ![c].state = answer]
  BY DEF Handle, Answered
<1>2. request \in [Command -> Request] /\ request[c] \in Request
  BY DEF TypeOK, CommandOK
<1>3. request' \in [Command -> Request]
  BY <1>1, <1>2 DEF Request
<1>4. store' \in [Id -> Stored]
  <2>1. CASE store' = store
    BY <2>1 DEF TypeOK, CommandOK
  <2>2. CASE MayHandle(c) /\ store' = [store EXCEPT ![request[c].id] = Outcome(request[c])]
    <3>1. request[c].method = "delete" \/ (request[c].body \in Body /\ request[c].endpoint \in {"page", "file"})
      BY <1>2, <2>2 DEF MayHandle, TypeOK, StepsOK, Handle, Request
    <3>2. Outcome(request[c]) \in Stored
      BY <3>1 DEF Outcome, Stored, Gone
    <3> QED
      BY <2>2, <3>2 DEF TypeOK, CommandOK
  <2> QED
    BY <2>1, <2>2 DEF Handle
<1>5. faults' \in 0 .. MaxFaults
  <2>1. faults' = faults \/ Fault
    BY DEF Handle
  <2> QED
    BY <2>1, FaultAssumption DEF TypeOK, DeviceOK, Fault
<1> QED
  BY <1>1, <1>2, <1>3, <1>4, <1>5, OnlyRequests DEF TypeOK, CommandOK, Handle, lifecycle

LEMMA ServerTypeOK == ASSUME TypeOK, Signal \/ Exit \/ Restart PROVE TypeOK'
<1>1. request \in [Command -> Request] /\ faults \in 0 .. MaxFaults /\ store \in [Id -> Stored]
      /\ server \in {"running", "stopping", "exited"} /\ stops \in 0 .. MaxStops
  BY DEF TypeOK, DeviceOK, CommandOK
<1>2. CASE Signal
  <2>1. stops' \in 0 .. MaxStops
    BY <1>1, <1>2, BoundAssumption DEF Signal
  <2> QED
    BY <1>1, <1>2, <2>1, OnlyRequests DEF Signal, deviceVars, network
<1>3. CASE Exit
  <2>1. request' \in [Command -> Request]
        /\ \A c \in Command : /\ request'[c].method = request[c].method
                              /\ request'[c].hash = request[c].hash
                              /\ request[c].state = "none" => request'[c].state = "none"
    BY <1>1, <1>3 DEF Exit, Request, InProgress
  <2> QED
    BY <1>1, <1>3, <2>1, OnlyRequests DEF Exit, deviceVars
<1>4. CASE Restart
  BY <1>1, <1>4, OnlyRequests DEF Restart, deviceVars, network
<1> QED
  BY <1>2, <1>3, <1>4

LEMMA AnswerTypeOK == ASSUME TypeOK, NEW c \in Command, Answer(c) PROVE TypeOK'
<1>1. /\ pc[c] = "wait" /\ request[c] \in Request /\ request[c].id \in Id
      /\ UNCHANGED <<call, device, faults, kills, key, kind, body, network, lifecycle, editor>>
  BY DEF TypeOK, CommandOK, Answer, Running, Request
<1>2. results' \in [Command -> SUBSET Id] /\ printed' \in [Command -> SUBSET Id]
  BY <1>1 DEF TypeOK, CommandOK, Answer, Fails, PrintedOnFailure
<1>3. CommandOK'
  BY <1>1, <1>2 DEF TypeOK, CommandOK, network, lifecycle, editor
<1>4. CASE \E how \in {"ok", "failed", "killed"} : Ends(c, how)
  <2>1. DeviceOK'
    BY <1>1, <1>4, Moved DEF TypeOK, DeviceOK, Ends
  <2>2. StepsOK'
    BY <1>1, <1>4 DEF TypeOK, StepsOK, network, Ends
  <2> QED
    BY <1>3, <2>1, <2>2 DEF TypeOK
<1>5. CASE /\ ~Done(c) /\ pc' = [pc EXCEPT ![c] = "read"]
           /\ at' = [at EXCEPT ![c] = @ + 1] /\ UNCHANGED status
  <2>1. /\ at[c] \in Nat /\ call[c].args \in Seq(Path)
        /\ call[c].op \in {"upload", "files", "update", "delete"}
    BY <1>1, CallFields DEF TypeOK, DeviceOK, StepsOK, Installing
  <2>2. at[c] < Len(call[c].args)
    BY <1>5, <2>1 DEF Done
  <2>3. at[c] + 1 \in DOMAIN call[c].args
    BY <2>1, <2>2
  <2>4. call[c].op \in Reading
    <3>1. CASE call[c].op = "delete"
      <4>1. call[c].args = <<>>
        BY <3>1, CallType DEF TypeOK, DeviceOK
      <4> QED
        BY <2>1, <2>2, <4>1
    <3> QED
      BY <2>1, <3>1 DEF Reading
  <2>5. /\ pc' \in [Command -> Steps] /\ at' \in [Command -> Nat]
        /\ pc'[c] = "read" /\ at'[c] = at[c] + 1
        /\ \A d \in Command \ {c} : pc'[d] = pc[d] /\ at'[d] = at[d]
    <3>1. pc \in [Command -> Steps] /\ at \in [Command -> Nat] /\ "read" \in Steps
      BY DEF TypeOK, DeviceOK, Steps
    <3> QED
      BY <1>5, <2>1, <3>1
  <2>6. DeviceOK'
    BY <1>1, <1>5, <2>5 DEF TypeOK, DeviceOK, device
  <2>7. StepsOK'
    <3>1. call' = call /\ UNCHANGED <<kind, body, request>> /\ StepsOK
      BY <1>1 DEF TypeOK, network
    <3>2. pc[c] \notin {"check", "save"} /\ pc[c] \notin {"stat"} \cup Installing
      BY <2>4, <3>1 DEF StepsOK, Reading
    <3> QED
      BY <2>1, <2>3, <2>4, <2>5, <3>1, <3>2 DEF StepsOK, Installing
  <2> QED
    BY <1>3, <2>6, <2>7 DEF TypeOK
<1> QED
  BY <1>4, <1>5 DEF Answer, Fails

LEMMA EndsTypeOK == ASSUME TypeOK, NEW c \in Command, GivesUp(c) \/ Kill(c) PROVE TypeOK'
<1>1. CASE GivesUp(c)
  <2>1. DeviceOK'
    BY <1>1, Moved DEF TypeOK, DeviceOK, GivesUp, Fails, Ends
  <2>2. CommandOK'
    BY <1>1 DEF TypeOK, CommandOK, GivesUp, Fails, PrintedOnFailure, network, lifecycle, editor
  <2>3. StepsOK'
    BY <1>1 DEF TypeOK, StepsOK, GivesUp, Fails, Ends, network
  <2> QED
    BY <2>1, <2>2, <2>3 DEF TypeOK
<1>2. CASE Kill(c)
  <2>1. kills' \in 0 .. MaxKills
    BY <1>2, FaultAssumption DEF TypeOK, DeviceOK, Kill
  <2>2. DeviceOK'
    BY <1>2, <2>1 DEF TypeOK, DeviceOK, Kill, Ends, device
  <2>3. CommandOK'
    BY <1>2 DEF TypeOK, CommandOK, Kill, command, network, lifecycle, editor
  <2>4. StepsOK'
    BY <1>2 DEF TypeOK, StepsOK, Kill, Ends, command, network
  <2> QED
    BY <2>2, <2>3, <2>4 DEF TypeOK
<1> QED
  BY <1>1, <1>2

LEMMA EditTypeOK ==
    ASSUME TypeOK, NEW p \in Editable, NEW b \in Edited, Edit(p, b)
    PROVE  TypeOK'
<1>1. p \in Path /\ b \in Body \cup {Absent}
  BY PathAssumption, BodyAssumption
<1>2. edits' \in 0 .. MaxEdits
  BY BoundAssumption DEF TypeOK, CommandOK, Edit
<1>3. disk' \in [Path -> Body \cup {Absent}]
  BY <1>1 DEF TypeOK, CommandOK, Edit
<1>4. DeviceOK'
  BY DEF TypeOK, DeviceOK, Edit, deviceVars, process, device
<1>5. CommandOK'
  BY <1>2, <1>3 DEF TypeOK, CommandOK, Edit, command, network, lifecycle
<1>6. StepsOK'
  BY DEF TypeOK, StepsOK, Edit, deviceVars, process, command, network
<1> QED
  BY <1>4, <1>5, <1>6 DEF TypeOK

LEMMA StutterTypeOK == ASSUME TypeOK, UNCHANGED vars PROVE TypeOK'
<1>1. DeviceOK'
  BY DEF TypeOK, DeviceOK, vars, deviceVars, process, device
<1>2. CommandOK'
  BY DEF TypeOK, CommandOK, vars, command, network, lifecycle, editor
<1>3. StepsOK'
  BY DEF TypeOK, StepsOK, vars, deviceVars, process, command, network
<1> QED
  BY <1>1, <1>2, <1>3 DEF TypeOK

LEMMA NextTypeOK == TypeOK /\ [Next]_vars => TypeOK'
<1> SUFFICES ASSUME TypeOK, [Next]_vars PROVE TypeOK'
  OBVIOUS
<1>1. ASSUME NEW c \in Command, ClientStep(c) PROVE TypeOK'
  BY <1>1, DeviceTypeOK, LoadTypeOK, ClassifyTypeOK, ReadTypeOK, SendTypeOK, AnswerTypeOK, EndsTypeOK
     DEF ClientStep
<1>2. ASSUME NEW c \in Command, Kill(c) \/ Receive(c) \/ Handle(c) PROVE TypeOK'
  BY <1>2, EndsTypeOK, ReceiveTypeOK, HandleTypeOK
<1>3. ASSUME NEW p \in Editable, NEW b \in Edited, Edit(p, b) PROVE TypeOK'
  BY <1>3, EditTypeOK
<1>4. CASE Signal \/ Exit \/ Restart
  BY <1>4, ServerTypeOK
<1>5. CASE UNCHANGED vars
  BY <1>5, StutterTypeOK
<1> QED
  BY <1>1, <1>2, <1>3, <1>4, <1>5 DEF Next, Terminating

THEOREM TypeCorrect == Spec => []TypeOK
<1> QED
  BY InitTypeOK, NextTypeOK, PTL DEF Spec


-----------------------------------------------------------------------------
(* What a request does to the store, whoever sent it: nothing is unmade, what*)
(* is deleted stays so, and a new thing is the one its command is making.    *)
LEMMA StoreSteps ==
    ASSUME ReportInv, NEW c \in Command, Handle(c), NEW i \in Id
    PROVE  /\ store[i] # Nothing => store'[i] # Nothing
           /\ store[i] = Gone => store'[i] = Gone
           /\ store'[i] # store[i] =>
                 /\ i = request[c].id
                 /\ IF request[c].method = "create" THEN i = NewId(c) /\ store[i] = Nothing
                    ELSE i \in DOMAIN Initial
           /\ store[i] # Nothing /\ store'[i] # store[i]
              => \/ store'[i].kind = store[i].kind
                 \/ (store[i].kind = "file" /\ store'[i] = Gone)
<1> DEFINE r == request[c]
<1>1. CASE store'[i] = store[i]
  BY <1>1
<1>2. CASE store'[i] # store[i]
  <2>1. /\ MayHandle(c) /\ r.state = "received" /\ i = r.id /\ store'[i] = Outcome(r)
    BY <1>2 DEF Handle, ReportInv, TypeOK, CommandOK
  <2>2. r.method \in {"create", "update", "delete"} /\ r.endpoint \in {"page", "file"}
    BY DEF ReportInv, TypeOK, CommandOK, Request
  <2>3. pc[c] = "wait" /\ RequestOK(c) /\ UnderWay(c)
    BY <2>1 DEF ReportInv, RequestOK, UnderWay
  <2>4. /\ Gone.kind = "gone" /\ Nothing.kind = "nothing"
        /\ r.method # "delete" => Outcome(r).kind = r.endpoint
        /\ r.method = "delete" => Outcome(r) = Gone
    BY DEF Outcome, Gone, Nothing
  <2>5. CASE r.method = "create"
    <3>1. store[i] = Nothing /\ i = NewId(c)
      BY <2>1, <2>3, <2>5 DEF RequestOK
    <3> QED
      BY <2>1, <2>2, <2>4, <2>5, <3>1
  <2>6. CASE r.method # "create"
    <3>1. store[i].kind = r.endpoint /\ i \in DOMAIN Initial
      BY <2>1, <2>3, <2>6 DEF RequestOK, MayHandle, Found
    <3>2. r.method = "delete" => r.endpoint = "file"
      BY <2>3 DEF RequestOK
    <3> QED
      BY <2>1, <2>2, <2>4, <2>6, <3>1, <3>2
  <2> QED
    BY <2>5, <2>6
<1> QED
  BY <1>1, <1>2

(* A command that does not move keeps its part of the invariant, whatever    *)
(* else the others make, change and delete.                                  *)
LEMMA Unmoved ==
    ASSUME ReportInv, NEW d \in Command, call' = call,
           pc'[d] = pc[d], at'[d] = at[d], status'[d] = status[d],
           results'[d] = results[d], printed'[d] = printed[d], kind'[d] = kind[d],
           request'[d] = request[d],
           \A i \in Id : /\ store[i] # Nothing => store'[i] # Nothing
                         /\ store[i] = Gone => store'[i] = Gone
                         /\ i \in {d} \X (1 .. MaxArgs) => store'[i] = store[i]
    PROVE  RequestOK(d)' /\ ResultOK(d)'
<1>1. RequestOK(d) /\ ResultOK(d) /\ TypeOK
  BY DEF ReportInv
<1>2. {d} \X (1 .. MaxArgs) \subseteq Id /\ results[d] \subseteq Id /\ request[d].id \in Id
  BY <1>1 DEF Id, TypeOK, CommandOK, Request
<1>3. Made(d)' = Made(d) /\ NewId(d)' = NewId(d) /\ Method(d)' = Method(d)
      /\ (UnderWay(d)' <=> UnderWay(d))
  BY <1>2 DEF Made, NewId, Method, UnderWay
<1>4. UnderWay(d) /\ request[d].method = "create" => store'[request[d].id] = Nothing
  <2> SUFFICES ASSUME UnderWay(d), request[d].method = "create"
      PROVE  store'[request[d].id] = Nothing
    OBVIOUS
  <2>1. pc[d] = "wait" /\ request[d].id = NewId(d) /\ store[request[d].id] = Nothing
        /\ Method(d) = "create"
    BY <1>1 DEF RequestOK
  <2>2. call[d].op \in Reading
    BY <1>1, <2>1, CallFields DEF TypeOK, DeviceOK, Method, Reading
  <2>3. NewId(d) \in {d} \X (1 .. MaxArgs)
    BY <1>1, <2>2, ArgType DEF NewId
  <2> QED
    BY <1>2, <2>1, <2>3
<1>5. RequestOK(d)'
  BY <1>1, <1>2, <1>3, <1>4 DEF RequestOK
<1>6. ResultOK(d)'
  BY <1>1, <1>2, <1>3 DEF ResultOK
<1> QED
  BY <1>5, <1>6

(* A step of c itself that leaves the store alone.                           *)
LEMMA OthersUnmoved ==
    ASSUME ReportInv, NEW c \in Command, UNCHANGED <<call, store>>, TypeOK',
           \A d \in Command \ {c} :
              /\ pc'[d] = pc[d] /\ at'[d] = at[d] /\ status'[d] = status[d]
              /\ results'[d] = results[d] /\ printed'[d] = printed[d] /\ kind'[d] = kind[d]
              /\ request'[d] = request[d],
           RequestOK(c)', ResultOK(c)'
    PROVE  ReportInv'
<1>1. ASSUME NEW d \in Command \ {c} PROVE RequestOK(d)' /\ ResultOK(d)'
  BY <1>1, Unmoved
<1> QED
  BY <1>1 DEF ReportInv

LEMMA InitReportInv == Init => ReportInv
<1> SUFFICES ASSUME Init PROVE ReportInv
  OBVIOUS
<1>1. TypeOK
  BY InitTypeOK
<1>2. ASSUME NEW c \in Command PROVE RequestOK(c) /\ ResultOK(c)
  <2>1. Made(c) = {}
    <3> SUFFICES ASSUME NEW i \in {c} \X (1 .. MaxArgs) PROVE store[i] = Nothing
      BY DEF Made
    <3>1. i \in Command \X (1 .. MaxArgs)
      OBVIOUS
    <3>2. i \in Id /\ i \notin DOMAIN Initial
      BY <3>1, InitialAssumption DEF Id
    <3> QED
      BY <3>2 DEF Init
  <2>2. /\ request[c].state = "none" /\ request[c].method = "create"
        /\ results[c] = {} /\ printed[c] = {} /\ status[c] = "running"
    BY DEF Init, InitDevice, NoRequest
  <2>3. pc[c] # "wait"
    BY <1>1, CallFields DEF Init, FirstStep, TypeOK, DeviceOK
  <2> QED
    BY <2>1, <2>2, <2>3 DEF RequestOK, ResultOK, UnderWay
<1> QED
  BY <1>1, <1>2 DEF ReportInv


(* The steps of one command that change neither the store nor what it has    *)
(* printed keep its part: it goes from one step to the next.                 *)
LEMMA Walks ==
    ASSUME ReportInv, NEW c \in Command, UNCHANGED <<call, store>>,
           pc[c] # "wait", pc'[c] # "wait", at'[c] >= at[c], at'[c] \in Nat,
           status[c] = "running", results'[c] = results[c], request'[c] = request[c],
           \/ status'[c] \in {"running", "killed"} /\ printed'[c] = printed[c]
           \/ status'[c] = "failed" /\ printed'[c] = printed[c] \cup results[c]
           \/ status'[c] \in {"ok", "failed"} /\ printed'[c] = printed[c] /\ results[c] = {}
    PROVE  RequestOK(c)' /\ ResultOK(c)'
<1>1. RequestOK(c) /\ ResultOK(c) /\ TypeOK
  BY DEF ReportInv
<1>2. Made(c)' = Made(c) /\ (UnderWay(c)' <=> UnderWay(c)) /\ ~UnderWay(c)
  BY <1>1 DEF Made, UnderWay, RequestOK
<1>3. RequestOK(c)'
  BY <1>1, <1>2 DEF RequestOK
<1>4. NewId(c) \notin Made(c)
  BY <1>1 DEF ResultOK
<1>5. \A i \in Made(c) : i[2] <= at'[c] /\ i[2] # at[c]
  <2> SUFFICES ASSUME NEW i \in Made(c) PROVE i[2] <= at'[c] /\ i[2] # at[c]
    OBVIOUS
  <2>1. i \in {c} \X (1 .. MaxArgs) /\ i[2] <= at[c] /\ i[1] = c /\ i = <<c, i[2]>>
    BY <1>1 DEF ResultOK, Made
  <2>2. i[2] \in Nat /\ at[c] \in Nat
    BY <1>1, <2>1, BoundAssumption DEF TypeOK, DeviceOK
  <2> QED
    BY <1>4, <2>1, <2>2 DEF NewId
<1>6. NewId(c)' \notin Made(c)
  <2>1. CASE at'[c] = at[c]
    BY <1>4, <2>1 DEF NewId
  <2>2. CASE at'[c] # at[c]
    <3>1. at[c] \in Nat /\ NewId(c)'[2] = at'[c]
      BY <1>1 DEF TypeOK, DeviceOK, NewId
    <3>2. \A i \in Made(c) : i[2] <= at[c]
      BY <1>1 DEF ResultOK
    <3> QED
      BY <2>2, <3>1, <3>2
  <2> QED
    BY <2>1, <2>2
<1>7. Made(c) \subseteq results[c]
  BY <1>1, <1>4 DEF ResultOK
<1>8. ResultOK(c)'
  BY <1>1, <1>2, <1>5, <1>6, <1>7 DEF ResultOK
<1> QED
  BY <1>3, <1>8

LEMMA DeviceReportInv ==
    ASSUME ReportInv, NEW c \in Command, DeviceStep(c),
           UNCHANGED <<command, network, lifecycle, editor>>
    PROVE  ReportInv'
<1>1. TypeOK /\ TypeOK' /\ ResultOK(c)
  BY DeviceTypeOK DEF ReportInv
<1>2. /\ call' = call /\ status[c] = "running" /\ pc[c] \in {"check", "save", "stat"} \cup Installing
      /\ pc'[c] \in {"check", "save", "stat"} \cup Installing
      /\ \A d \in Command \ {c} : pc'[d] = pc[d] /\ at'[d] = at[d] /\ status'[d] = status[d]
      /\ status'[c] \in {"running", "ok", "failed"}
  BY <1>1 DEF TypeOK, DeviceOK, DeviceStep, CheckConfig, Save, CheckSkill, Prepare, Rename, Remove,
     RenameAgain, Put, Running, Step, Ends, Installing
<1>3. at'[c] \in Nat /\ at'[c] >= at[c]
  <2>1. at' = at \/ at' = [at EXCEPT ![c] = @ + 1]
    BY DEF DeviceStep, CheckConfig, Save, CheckSkill, Prepare, Rename, Remove, RenameAgain, Put,
       Step, Ends
  <2>2. at \in [Command -> Nat]
    BY <1>1 DEF TypeOK, DeviceOK
  <2> QED
    BY <2>1, <2>2
<1>4. call[c].op \in {"init", "install"} /\ results[c] = {}
  BY <1>1, <1>2 DEF TypeOK, StepsOK, ResultOK
<1>5. RequestOK(c)' /\ ResultOK(c)'
  BY <1>2, <1>3, <1>4, Walks DEF Installing, command, network
<1> QED
  BY <1>1, <1>2, <1>5, OthersUnmoved DEF command, network

LEMMA ReadingReportInv ==
    ASSUME ReportInv, NEW c \in Command, Load(c) \/ Classify(c) \/ Read(c)
    PROVE  ReportInv'
<1>1. TypeOK /\ TypeOK'
  BY LoadTypeOK, ClassifyTypeOK, ReadTypeOK DEF ReportInv
<1>2. /\ UNCHANGED <<call, at, results, request, store>> /\ status[c] = "running"
      /\ pc[c] \in {"load", "classify", "read"}
      /\ \/ Ends(c, "failed") /\ printed' = [printed EXCEPT ![c] = printed[c] \cup results[c]]
         \/ printed' = printed /\ \E step \in {"load", "classify", "read", "send"} : Step(c, step)
      /\ \A d \in Command \ {c} : kind'[d] = kind[d]
  BY <1>1 DEF TypeOK, CommandOK, Load, Classify, Read, Running, Step, Ends, Fails, PrintedOnFailure, AfterLoad, network
<1>3. \A d \in Command \ {c} : pc'[d] = pc[d] /\ status'[d] = status[d] /\ printed'[d] = printed[d]
  BY <1>1, <1>2 DEF TypeOK, DeviceOK, CommandOK, Ends, Step
<1>4. /\ pc'[c] # "wait"
      /\ \/ status'[c] = "failed" /\ printed'[c] = printed[c] \cup results[c]
         \/ status'[c] = "running" /\ printed'[c] = printed[c]
  BY <1>1, <1>2 DEF TypeOK, DeviceOK, CommandOK, Ends, Step
<1>5. at[c] \in Nat /\ at[c] >= at[c]
  BY <1>1 DEF TypeOK, DeviceOK
<1>6. RequestOK(c)' /\ ResultOK(c)'
  BY <1>2, <1>4, <1>5, Walks
<1> QED
  BY <1>1, <1>2, <1>3, <1>6, OthersUnmoved


(* What is sent as new is for this argument, and nothing is there for it yet.*)
LEMMA SendReportInv ==
    ASSUME ReportInv, NEW c \in Command, Send(c)
    PROVE  ReportInv'
<1>1. TypeOK /\ TypeOK' /\ RequestOK(c) /\ ResultOK(c)
  BY SendTypeOK DEF ReportInv
<1>2. /\ UNCHANGED <<call, at, kind, results, store>> /\ status[c] = "running" /\ pc[c] = "send"
  BY DEF Send, Running, Step, Ends, Fails
<1>3. at[c] \in Nat /\ at[c] >= at[c] /\ call[c].id \in DOMAIN Initial
      /\ call[c].op \in {"upload", "files", "update", "delete"}
  <2>1. at[c] \in Nat /\ at[c] >= at[c]
    BY <1>1 DEF TypeOK, DeviceOK
  <2>2. call[c].id \in DOMAIN Initial
        /\ call[c].op \in {"init", "install", "upload", "files", "update", "delete"}
    BY <1>1, CallFields DEF TypeOK, DeviceOK
  <2>3. call[c].op \notin {"init", "install"}
    BY <1>1, <1>2 DEF TypeOK, StepsOK, Installing
  <2> QED
    BY <2>1, <2>2, <2>3
<1>4. CASE Fails(c) /\ UNCHANGED request
  <2>1. /\ pc' = pc /\ status'[c] = "failed" /\ printed'[c] = printed[c] \cup results[c]
        /\ \A d \in Command \ {c} : status'[d] = status[d] /\ printed'[d] = printed[d]
    BY <1>1, <1>4 DEF Fails, Ends, PrintedOnFailure, TypeOK, DeviceOK, CommandOK
  <2>2. RequestOK(c)' /\ ResultOK(c)'
    BY <1>2, <1>3, <1>4, <2>1, Walks
  <2> QED
    BY <1>1, <1>2, <1>4, <2>1, <2>2, OthersUnmoved
<1>5. CASE /\ Sendable(c) /\ Step(c, "wait") /\ UNCHANGED printed
           /\ request' = [request EXCEPT ![c] =
                [state |-> "sent", method |-> Method(c), endpoint |-> Endpoint(c),
                 id |-> IF Method(c) = "create" THEN NewId(c) ELSE call[c].id,
                 hash |-> body[c], body |-> Absent]]
  <2>1. /\ status' = status /\ pc'[c] = "wait"
        /\ request'[c].state = "sent" /\ request'[c].method = Method(c)
        /\ request'[c].endpoint = Endpoint(c)
        /\ request'[c].id = (IF Method(c) = "create" THEN NewId(c) ELSE call[c].id)
        /\ \A d \in Command \ {c} : pc'[d] = pc[d] /\ request'[d] = request[d]
    BY <1>1, <1>5 DEF Step, TypeOK, DeviceOK, CommandOK
  <2>2. /\ Made(c)' = Made(c) /\ NewId(c)' = NewId(c) /\ Method(c)' = Method(c)
        /\ NewId(c) \notin Made(c)
    BY <1>1, <1>2 DEF Made, NewId, Method, ResultOK
  <2>3. Method(c) = "create" => store[NewId(c)] = Nothing
    <3>1. Method(c) = "create" => call[c].op \in Reading
      BY <1>3 DEF Method, Reading
    <3>2. call[c].op \in Reading => NewId(c) \in {c} \X (1 .. MaxArgs)
      BY <1>1, ArgType DEF NewId
    <3> QED
      BY <2>2, <3>1, <3>2 DEF Made
  <2>4. RequestOK(c)'
    BY <1>2, <1>3, <2>1, <2>2, <2>3 DEF RequestOK, UnderWay, Endpoint
  <2>5. ResultOK(c)'
    BY <1>1, <1>2, <1>5, <2>1, <2>2 DEF ResultOK
  <2> QED
    BY <1>1, <1>2, <1>5, <2>1, <2>4, <2>5, OthersUnmoved
<1> QED
  BY <1>4, <1>5 DEF Send

(* A good answer says that what was asked for is so.                         *)
LEMMA AnswerReportInv ==
    ASSUME ReportInv, NEW c \in Command, Answer(c)
    PROVE  ReportInv'
<1>1. TypeOK /\ TypeOK' /\ RequestOK(c) /\ ResultOK(c)
  BY AnswerTypeOK DEF ReportInv
<1>2. /\ UNCHANGED <<call, kind, request, store>> /\ status[c] = "running" /\ pc[c] = "wait"
      /\ request[c].state \in {"ok", "refused"} /\ at[c] \in Nat
  BY <1>1 DEF Answer, Running, network, TypeOK, DeviceOK
<1>3. \A d \in Command \ {c} :
          /\ pc'[d] = pc[d] /\ at'[d] = at[d] /\ status'[d] = status[d]
          /\ results'[d] = results[d] /\ printed'[d] = printed[d]
  BY <1>1 DEF Answer, Ends, Fails, TypeOK, DeviceOK, CommandOK
<1>4. Made(c)' = Made(c) /\ Method(c)' = Method(c) /\ (UnderWay(c)' <=> UnderWay(c)) /\ ~UnderWay(c)
  BY <1>2 DEF Made, Method, UnderWay
<1>5. CASE Fails(c) /\ UNCHANGED results
  <2>1. /\ pc' = pc /\ at' = at /\ status'[c] = "failed" /\ printed'[c] = printed[c] \cup results[c]
    BY <1>1, <1>5 DEF Fails, Ends, PrintedOnFailure, TypeOK, DeviceOK, CommandOK
  <2>2. RequestOK(c)'
    BY <1>1, <1>2, <1>4, <2>1 DEF RequestOK, NewId
  <2>3. ResultOK(c)'
    BY <1>1, <1>2, <1>4, <1>5, <2>1 DEF ResultOK, NewId
  <2> QED
    BY <1>1, <1>2, <1>3, <2>2, <2>3, OthersUnmoved
<1>6. CASE ~(Fails(c) /\ UNCHANGED results)
  <2>1. /\ request[c].state = "ok"
        /\ results'[c] = results[c] \cup {request[c].id}
        /\ printed'[c] = printed[c] \/ printed'[c] = results'[c]
        /\ Done(c) => printed'[c] = results'[c] /\ status'[c] = "ok" /\ pc'[c] = pc[c] /\ at'[c] = at[c]
        /\ ~Done(c) => pc'[c] = "read" /\ at'[c] = at[c] + 1 /\ status'[c] = "running"
    BY <1>1, <1>2, <1>6 DEF Answer, IsSuccess, Ends, TypeOK, DeviceOK, CommandOK
  <2>2. /\ request[c].method = Method(c) /\ (Method(c) = "create" => request[c].id = NewId(c))
        /\ IF Method(c) = "delete" THEN store[request[c].id] = Gone
           ELSE store[request[c].id] # Nothing
    BY <1>1, <1>2, <2>1 DEF RequestOK
  <2>3. /\ Method(c) = "delete" <=> call[c].op = "delete"
        /\ Method(c) # "create" => call[c].op \notin {"upload", "files"}
        /\ call[c].op \notin {"init", "install"}
    BY <1>1, <1>2, CallFields DEF Method, TypeOK, DeviceOK, StepsOK, Installing
  <2>4. Made(c) \subseteq results'[c]
    BY <1>1, <2>1, <2>2, <2>3 DEF ResultOK
  <2>5. RequestOK(c)'
    BY <1>1, <1>2, <1>4, <2>1 DEF RequestOK, NewId
  <2>6. /\ \A i \in results'[c] :
              IF call[c].op = "delete" THEN store[i] = Gone ELSE store[i] # Nothing
        /\ printed'[c] \subseteq results'[c]
    BY <1>1, <2>1, <2>2, <2>3 DEF ResultOK
  <2>7. \A i \in Made(c) : i[2] <= at[c] /\ i[2] \in Nat
    <3> SUFFICES ASSUME NEW i \in Made(c) PROVE i[2] <= at[c] /\ i[2] \in Nat
      OBVIOUS
    <3>1. i \in {c} \X (1 .. MaxArgs) /\ i[2] <= at[c]
      BY <1>1 DEF ResultOK, Made
    <3> QED
      BY <3>1, BoundAssumption
  <2>8. ASSUME Done(c) PROVE ResultOK(c)'
    <3>1. NewId(c)' = NewId(c) /\ at'[c] = at[c] /\ pc'[c] = "wait" /\ status'[c] = "ok"
          /\ printed'[c] = results'[c]
      BY <1>2, <2>1, <2>8 DEF NewId
    <3>2. call[c].op \notin {"upload", "files"} => Made(c) = {}
      BY <1>1 DEF ResultOK
    <3> QED
      BY <1>2, <1>4, <2>3, <2>4, <2>6, <2>7, <3>1, <3>2 DEF ResultOK
  <2>9. ASSUME ~Done(c) PROVE ResultOK(c)'
    <3>1. NewId(c)' = <<c, at[c] + 1>>
      BY <2>1, <2>9 DEF NewId
    <3>2. \A i \in Made(c) : i[2] <= at[c] + 1 /\ i # <<c, at[c] + 1>>
      BY <1>2, <2>7
    <3>3. at'[c] = at[c] + 1 /\ pc'[c] = "read" /\ status'[c] = "running"
      BY <2>1, <2>9
    <3>4. call[c].op \notin {"upload", "files"} => Made(c) = {}
      BY <1>1 DEF ResultOK
    <3>5. NewId(c)' \notin Made(c)
      BY <3>1, <3>2
    <3> QED
      BY <1>2, <1>4, <2>3, <2>4, <2>6, <3>2, <3>3, <3>4, <3>5 DEF ResultOK
  <2> QED
    BY <1>1, <1>2, <1>3, <2>5, <2>8, <2>9, OthersUnmoved
<1> QED
  BY <1>5, <1>6

LEMMA EndsReportInv ==
    ASSUME ReportInv, NEW c \in Command, GivesUp(c) \/ Kill(c)
    PROVE  ReportInv'
<1>1. TypeOK /\ TypeOK' /\ RequestOK(c) /\ ResultOK(c)
  BY EndsTypeOK DEF ReportInv
<1>2. /\ UNCHANGED <<call, pc, at, kind, results, request, store>>
      /\ \/ status'[c] = "failed" /\ printed'[c] = printed[c] \cup results[c]
         \/ status'[c] = "killed" /\ printed'[c] = printed[c]
      /\ \A d \in Command \ {c} : status'[d] = status[d] /\ printed'[d] = printed[d]
  BY <1>1 DEF GivesUp, Kill, Fails, Ends, PrintedOnFailure, command, network, TypeOK, DeviceOK, CommandOK
<1>3. /\ Made(c)' = Made(c) /\ NewId(c)' = NewId(c) /\ Method(c)' = Method(c)
      /\ (UnderWay(c)' <=> UnderWay(c))
  BY <1>2 DEF Made, NewId, Method, UnderWay
<1>4. RequestOK(c)'
  BY <1>1, <1>2, <1>3 DEF RequestOK
<1>5. ResultOK(c)'
  BY <1>1, <1>2, <1>3 DEF ResultOK
<1> QED
  BY <1>1, <1>2, <1>4, <1>5, OthersUnmoved


LEMMA ReceiveReportInv ==
    ASSUME ReportInv, NEW c \in Command, Receive(c)
    PROVE  ReportInv'
<1>1. TypeOK /\ TypeOK' /\ RequestOK(c) /\ ResultOK(c)
  BY ReceiveTypeOK DEF ReportInv
<1>2. /\ UNCHANGED <<call, pc, at, status, kind, results, printed, store>>
      /\ request[c].state = "sent" /\ request'[c].state = "received"
      /\ request'[c].method = request[c].method /\ request'[c].endpoint = request[c].endpoint
      /\ request'[c].id = request[c].id
      /\ \A d \in Command \ {c} : request'[d] = request[d]
  BY <1>1 DEF Receive, TypeOK, CommandOK, Request, deviceVars, process, command
<1>3. Made(c)' = Made(c) /\ NewId(c)' = NewId(c) /\ Method(c)' = Method(c)
  BY <1>2 DEF Made, NewId, Method
<1>4. RequestOK(c)'
  BY <1>1, <1>2, <1>3 DEF RequestOK, UnderWay
<1>5. ResultOK(c)'
  BY <1>1, <1>2, <1>3 DEF ResultOK
<1> QED
  BY <1>1, <1>2, <1>4, <1>5, OthersUnmoved

(* The one step that changes the store.                                      *)
LEMMA HandleReportInv ==
    ASSUME ReportInv, NEW c \in Command, Handle(c)
    PROVE  ReportInv'
<1>1. TypeOK /\ TypeOK' /\ RequestOK(c) /\ ResultOK(c)
  BY HandleTypeOK DEF ReportInv
<1>2. /\ UNCHANGED <<call, pc, at, status, kind, results, printed>>
      /\ request[c].state = "received" /\ request'[c].state \in {"ok", "refused"}
      /\ request'[c].method = request[c].method /\ request'[c].endpoint = request[c].endpoint
      /\ request'[c].id = request[c].id
      /\ \A d \in Command \ {c} : request'[d] = request[d]
  BY <1>1 DEF Handle, Answered, TypeOK, CommandOK, Request, process, command
<1>3. pc[c] = "wait" /\ status[c] # "ok" /\ request[c].method = Method(c) /\ request[c].id \in Id
      /\ (Method(c) = "create" => request[c].id = NewId(c))
  BY <1>1, <1>2 DEF RequestOK, UnderWay, TypeOK, CommandOK, Request
<1>4. ASSUME NEW d \in Command \ {c} PROVE RequestOK(d)' /\ ResultOK(d)'
  <2>1. \A i \in Id : /\ store[i] # Nothing => store'[i] # Nothing
                      /\ store[i] = Gone => store'[i] = Gone
                      /\ i \in {d} \X (1 .. MaxArgs) => store'[i] = store[i]
    <3> SUFFICES ASSUME NEW i \in Id
        PROVE  /\ store[i] # Nothing => store'[i] # Nothing
               /\ store[i] = Gone => store'[i] = Gone
               /\ i \in {d} \X (1 .. MaxArgs) => store'[i] = store[i]
      OBVIOUS
    <3>1. i \in {d} \X (1 .. MaxArgs) => i # NewId(c) /\ i \notin DOMAIN Initial
      BY InitialAssumption DEF NewId
    <3> QED
      BY <3>1, StoreSteps
  <2> QED
    BY <1>2, <1>4, <2>1, Unmoved
<1>5. NewId(c)' = NewId(c) /\ Method(c)' = Method(c)
  BY <1>2 DEF NewId, Method
<1>6. RequestOK(c)'
  <2>1. request'[c].state = "ok" =>
          IF request'[c].method = "delete" THEN store'[request'[c].id] = Gone
          ELSE store'[request'[c].id] # Nothing
    <3> SUFFICES ASSUME request'[c].state = "ok"
        PROVE  IF request[c].method = "delete" THEN store'[request[c].id] = Gone
               ELSE store'[request[c].id] # Nothing
      BY <1>2
    <3>1. request[c].endpoint \in {"page", "file"}
      BY <1>1 DEF TypeOK, CommandOK, Request
    <3>2. store'[request[c].id] = Outcome(request[c])
      <4>1. Answered(c, "refused") => request'[c].state = "refused"
        BY <1>1 DEF Answered, TypeOK, CommandOK, Request
      <4>2. store' = [store EXCEPT ![request[c].id] = Outcome(request[c])]
        BY <4>1 DEF Handle
      <4> QED
        BY <1>1, <1>3, <4>2 DEF TypeOK, CommandOK
    <3>3. request[c].method # "delete" => Outcome(request[c]).kind \in {"page", "file"}
      BY <3>1 DEF Outcome
    <3>4. Nothing.kind = "nothing" /\ (request[c].method = "delete" => Outcome(request[c]) = Gone)
      BY DEF Nothing, Outcome
    <3> QED
      BY <3>2, <3>3, <3>4
  <2> QED
    BY <1>1, <1>2, <1>3, <1>5, <2>1 DEF RequestOK, UnderWay
<1>7. ResultOK(c)'
  <2>1. Made(c)' \subseteq Made(c) \cup {NewId(c)}
        /\ (Method(c) # "create" => Made(c)' \subseteq Made(c))
    <3> SUFFICES ASSUME NEW i \in {c} \X (1 .. MaxArgs), store'[i] # Nothing, store[i] = Nothing
        PROVE  i = NewId(c) /\ Method(c) = "create"
      BY DEF Made
    <3>1. i \in Id /\ i \notin DOMAIN Initial
      BY InitialAssumption DEF Id
    <3> QED
      BY <1>3, <3>1, StoreSteps
  <2>2. at[c] \in Nat /\ NewId(c)[2] = at[c]
    BY <1>1 DEF TypeOK, DeviceOK, NewId
  <2>3. \A i \in Made(c)' : i[2] <= at[c]
    BY <1>1, <2>1, <2>2 DEF ResultOK
  <2>4. call[c].op \notin {"upload", "files"} => Made(c)' = {}
    <3>1. call[c].op \in {"init", "install", "upload", "files", "update", "delete"}
      BY <1>1, CallFields DEF TypeOK, DeviceOK
    <3>2. call[c].op \notin {"upload", "files"} => Method(c) # "create" /\ Made(c) = {}
      BY <1>1, <3>1 DEF Method, ResultOK
    <3> QED
      BY <2>1, <3>2
  <2>5. \A i \in results[c] :
              IF call[c].op = "delete" THEN store'[i] = Gone ELSE store'[i] # Nothing
    <3>1. results[c] \subseteq Id
      BY <1>1 DEF TypeOK, CommandOK
    <3>2. \A i \in results[c] :
              IF call[c].op = "delete" THEN store[i] = Gone ELSE store[i] # Nothing
      BY <1>1 DEF ResultOK
    <3> QED
      BY <3>1, <3>2, StoreSteps
  <2> QED
    BY <1>1, <1>2, <1>3, <1>5, <2>1, <2>3, <2>4, <2>5 DEF ResultOK
<1>8. ASSUME NEW d \in Command PROVE RequestOK(d)' /\ ResultOK(d)'
  BY <1>4, <1>6, <1>7
<1> QED
  BY <1>1, <1>8 DEF ReportInv

(* Everything else: the editor, and the server's start and end, which cuts   *)
(* the requests that are under way.                                          *)
LEMMA RestReportInv ==
    ASSUME ReportInv, TypeOK',
           \/ \E p \in Editable, b \in Edited : Edit(p, b)
           \/ Signal \/ Exit \/ Restart \/ UNCHANGED vars
    PROVE  ReportInv'
<1>1. UNCHANGED <<call, pc, at, status, kind, results, printed, store>>
  BY DEF Edit, Signal, Exit, Restart, vars, deviceVars, process, command, network
<1>2. ASSUME NEW d \in Command PROVE RequestOK(d)' /\ ResultOK(d)'
  <2>1. RequestOK(d) /\ ResultOK(d) /\ TypeOK
    BY DEF ReportInv
  <2>2. CASE request'[d] = request[d]
    BY <1>1, <2>2, Unmoved
  <2>3. CASE request' # request /\ Exit
    <3>1. \/ request'[d] = request[d]
          \/ /\ InProgress(d) /\ request'[d].state = "cut"
             /\ request'[d].method = request[d].method /\ request'[d].id = request[d].id
             /\ request'[d].endpoint = request[d].endpoint
      BY <2>1, <2>3 DEF Exit, InProgress, TypeOK, CommandOK, Request
    <3>2. Made(d)' = Made(d) /\ NewId(d)' = NewId(d) /\ Method(d)' = Method(d)
      BY <1>1 DEF Made, NewId, Method
    <3>3. CASE request'[d].state = "cut" /\ InProgress(d)
      <4>1. RequestOK(d)'
        BY <1>1, <2>1, <2>2, <3>1, <3>2, <3>3 DEF RequestOK, UnderWay, InProgress
      <4>2. ResultOK(d)'
        BY <1>1, <2>1, <3>2 DEF ResultOK
      <4> QED
        BY <4>1, <4>2
    <3> QED
      BY <2>2, <3>1, <3>3
  <2>4. request' = request \/ Exit
    BY DEF Edit, Signal, Restart, vars, network
  <2> QED
    BY <2>2, <2>3, <2>4
<1> QED
  BY <1>2 DEF ReportInv

LEMMA NextReportInv == ReportInv /\ [Next]_vars => ReportInv'
<1> SUFFICES ASSUME ReportInv, [Next]_vars PROVE ReportInv'
  OBVIOUS
<1>1. TypeOK'
  BY NextTypeOK DEF ReportInv
<1>2. ASSUME NEW c \in Command, ClientStep(c) PROVE ReportInv'
  BY <1>2, DeviceReportInv, ReadingReportInv, SendReportInv, AnswerReportInv, EndsReportInv
     DEF ClientStep
<1>3. ASSUME NEW c \in Command, Kill(c) \/ Receive(c) \/ Handle(c) PROVE ReportInv'
  BY <1>3, EndsReportInv, ReceiveReportInv, HandleReportInv
<1>4. CASE \/ \E p \in Editable, b \in Edited : Edit(p, b)
           \/ Signal \/ Exit \/ Restart \/ UNCHANGED vars
  BY <1>1, <1>4, RestReportInv
<1> QED
  BY <1>2, <1>3, <1>4 DEF Next, Terminating


-----------------------------------------------------------------------------
(* On this the theorems below rest.                                          *)
LEMMA ReportInvariant == Spec => []ReportInv
<1> QED
  BY InitReportInv, NextReportInv, PTL DEF Spec

(* MadeIsReported: a command that was not killed has printed the URL of all  *)
(* that it has made, except for the one request it got no good answer to.    *)
THEOREM WhatIsMadeIsReported == Spec => []MadeIsReported
<1>1. ReportInv => MadeIsReported
  <2> SUFFICES ASSUME ReportInv, NEW c \in Command
      PROVE  /\ status[c] = "failed" => Made(c) \subseteq printed[c] \cup {NewId(c)}
             /\ status[c] = "ok" => Made(c) \subseteq printed[c]
    BY DEF MadeIsReported
  <2> QED
    BY DEF ReportInv, ResultOK
<1> QED
  BY <1>1, ReportInvariant, PTL

(* ReportedIsTrue: what a command says it made was made, and what it says it *)
(* deleted is gone, whatever other commands do before and after.             *)
THEOREM WhatIsReportedIsTrue == Spec => []ReportedIsTrue
<1>1. ReportInv => ReportedIsTrue
  <2> SUFFICES ASSUME ReportInv, NEW c \in Command, NEW i \in printed[c]
      PROVE  IF call[c].op = "delete" THEN store[i] = Gone ELSE store[i] # Nothing
    BY DEF ReportedIsTrue
  <2> QED
    BY DEF ReportInv, ResultOK
<1> QED
  BY <1>1, ReportInvariant, PTL

(* NoMixture: the server stores what was hashed, or nothing.                 *)
THEOREM NothingMixed == Spec => []NoMixture
<1>1. Init => NoMixture
  BY InitialAssumption, BodyAssumption DEF Init, NoMixture, Nothing
<1>2. TypeOK /\ NoMixture /\ [Next]_vars => NoMixture'
  <2> SUFFICES ASSUME TypeOK, NoMixture, [Next]_vars, NEW i \in Id PROVE store'[i].body # Mixed
    BY DEF NoMixture
  <2>1. CASE store' = store
    BY <2>1 DEF NoMixture
  <2>2. ASSUME NEW c \in Command, Handle(c), store' # store PROVE store'[i].body # Mixed
    <3>1. /\ MayHandle(c) /\ request[c] \in Request
          /\ store' = [store EXCEPT ![request[c].id] = Outcome(request[c])]
      BY <2>2 DEF Handle, TypeOK, CommandOK
    <3>2. request[c].body # Mixed
      BY <3>1, BodyAssumption DEF MayHandle, Request
    <3>3. Outcome(request[c]).body # Mixed
      BY <3>2, BodyAssumption DEF Outcome, Gone
    <3> QED
      BY <3>1, <3>3 DEF NoMixture, TypeOK, CommandOK
  <2> QED
    BY <2>1, <2>2 DEF Next, ClientStep, Load, Classify, Read, Send, Answer, GivesUp, Kill, Receive,
       Edit, Signal, Exit, Restart, Terminating, vars, network
<1> QED
  BY <1>1, <1>2, TypeCorrect, PTL DEF Spec

(* KindsKept: a page stays a page and a file a file, and only files are      *)
(* deleted.                                                                  *)
THEOREM KindsStay == Spec => KindsKept
<1>1. ReportInv /\ [Next]_vars =>
      [\A i \in Id : store[i] # Nothing /\ store'[i] # store[i]
                     => \/ store'[i].kind = store[i].kind
                        \/ (store[i].kind = "file" /\ store'[i] = Gone)]_vars
  <2> SUFFICES ASSUME ReportInv, [Next]_vars, NEW i \in Id, store[i] # Nothing, store'[i] # store[i]
      PROVE  \/ store'[i].kind = store[i].kind
             \/ (store[i].kind = "file" /\ store'[i] = Gone)
    OBVIOUS
  <2>1. \E c \in Command : Handle(c)
    BY DEF Next, ClientStep, Load, Classify, Read, Send, Answer, GivesUp, Kill, Receive,
       Edit, Signal, Exit, Restart, Terminating, vars, network
  <2> QED
    BY <2>1, StoreSteps
<1> QED
  BY <1>1, ReportInvariant, PTL DEF Spec, KindsKept

(* CredentialsKept: an init without --force replaces no key but one written  *)
(* after it looked.                                                          *)
Replaced == \A c \in Command :
               pc[c] = "save" /\ status[c] = "running" /\ ~call[c].force /\ config # NoKey
               => config \in rivals[c]


LEMMA ReplacedInv == TypeOK /\ Replaced /\ [Next]_vars => Replaced'
<1> SUFFICES ASSUME TypeOK, Replaced, [Next]_vars, NEW c \in Command,
                    pc'[c] = "save", status'[c] = "running", ~call'[c].force, config' # NoKey
    PROVE  config' \in rivals'[c]
  BY DEF Replaced
<1>1. ASSUME NEW d \in Command, DeviceStep(d) PROVE config' \in rivals'[c]
  <2>1. CASE d = c
    <3>1. CheckConfig(c) /\ Step(c, "save") /\ MayInit(c)
      BY <1>1, <2>1 DEF TypeOK, DeviceOK, DeviceStep, CheckConfig, Save, CheckSkill, Prepare,
         Rename, Remove, RenameAgain, Put, Running, Step, Ends
    <3> QED
      BY <3>1 DEF CheckConfig, MayInit, device
  <2>2. CASE d # c
    <3>1. pc[c] = "save" /\ status[c] = "running" /\ call' = call
      BY <1>1, <2>2 DEF TypeOK, DeviceOK, DeviceStep, CheckConfig, Save, CheckSkill, Prepare,
         Rename, Remove, RenameAgain, Put, Running, Step, Ends
    <3>2. \/ config' = config /\ (rivals' = rivals \/ WriteBeside(d, Installing))
          \/ config' = d /\ WriteBeside(d, {"save"})
      BY <1>1 DEF DeviceStep, CheckConfig, Save, CheckSkill, Prepare, Rename, Remove, RenameAgain,
         Put, device
    <3>3. config' = config => config \in rivals[c]
      BY <3>1 DEF Replaced
    <3> QED
      BY <2>2, <3>1, <3>2, <3>3 DEF WriteBeside
  <2> QED
    BY <2>1, <2>2
<1>2. CASE ~\E d \in Command : DeviceStep(d)
  <2>1. UNCHANGED <<call, device>>
    BY <1>2 DEF Next, ClientStep, Load, Classify, Read, Send, Answer, GivesUp, Kill, Receive, Handle,
       Edit, Signal, Exit, Restart, Terminating, vars, deviceVars
  <2>2. pc[c] = "save" /\ status[c] = "running"
    <3>1. /\ pc \in [Command -> Steps] /\ \A d \in Command : AfterLoad(d) # "save"
          /\ status \in [Command -> {"running", "ok", "failed", "killed"}]
      BY DEF TypeOK, DeviceOK, AfterLoad
    <3>2. ASSUME NEW d \in Command, Load(d) \/ Classify(d) \/ Read(d) \/ Send(d)
          PROVE  pc[c] = "save" /\ status[c] = "running"
      BY <3>1, <3>2 DEF Load, Classify, Read, Send, Fails, Step, Ends
    <3>3. ASSUME NEW d \in Command, Answer(d) \/ GivesUp(d) \/ Kill(d)
          PROVE  pc[c] = "save" /\ status[c] = "running"
      BY <3>1, <3>3 DEF Answer, GivesUp, Kill, Fails, Ends
    <3>4. CASE UNCHANGED <<pc, status>>
      BY <3>4
    <3>5. ASSUME ~UNCHANGED <<pc, status>>
          PROVE  \E d \in Command : Load(d) \/ Classify(d) \/ Read(d) \/ Send(d) \/ Answer(d)
                                   \/ GivesUp(d) \/ Kill(d)
      BY <1>2, <3>5 DEF Next, ClientStep, Receive, Handle, Edit, Signal, Exit, Restart, Terminating,
         vars, deviceVars, process
    <3> QED
      BY <3>2, <3>3, <3>4, <3>5
  <2> QED
    BY <2>1, <2>2 DEF Replaced, device
<1> QED
  BY <1>1, <1>2

THEOREM NoCredentialsLost == Spec => CredentialsKept
<1>1. Init => Replaced
  BY CallFields, InitTypeOK DEF Init, FirstStep, Replaced, TypeOK, DeviceOK
<1>2. TypeOK /\ Replaced /\ [Next]_vars =>
      [\A c \in Command : config' # config /\ config # NoKey /\ config' = c
                          => call[c].force \/ config \in rivals[c]]_deviceVars
  <2> SUFFICES ASSUME Replaced, [Next]_vars, NEW c \in Command,
                      config' # config, config # NoKey, config' = c
      PROVE  call[c].force \/ config \in rivals[c]
    OBVIOUS
  <2>1. PICK d \in Command : Save(d)
    BY DEF Next, ClientStep, DeviceStep, CheckConfig, CheckSkill, Prepare, Rename, Remove,
       RenameAgain, Load, Classify, Read, Send, Answer, GivesUp, Kill, Receive, Handle,
       Edit, Signal, Exit, Restart, Terminating, vars, deviceVars, device
  <2>2. d = c /\ pc[c] = "save" /\ status[c] = "running"
    BY <2>1 DEF Save, Running
  <2> QED
    BY <2>2 DEF Replaced
<1> QED
  BY <1>1, <1>2, ReplacedInv, TypeCorrect, PTL DEF Spec, CredentialsKept

-----------------------------------------------------------------------------
(* SkillComplete.  A file of the skill is there, or torn; that stays so. An  *)
(* install that has got to its at-th file has all the files before it in     *)
(* place, in a directory that exists.                                        *)
There(f) == skill[f] = Absent => Torn(f)
PlacedInv ==
    \A c \in Command : call[c].op = "install" =>
        /\ at[c] > 1 \/ status[c] = "ok" \/ pc[c] \in {"rename", "remove", "rename again"} => skillDir
        /\ \A i \in DOMAIN SkillFiles : i < at[c] \/ status[c] = "ok" => There(SkillFiles[i])

LEMMA StaysThere ==
    ASSUME TypeOK, NEW c \in Command, DeviceStep(c), call' = call, NEW f \in SkillFile, There(f)
    PROVE  There(f)'
<1>1. /\ pc \in [Command -> Steps] /\ at \in [Command -> Nat]
      /\ skill \in [SkillFile -> Version \cup {Absent}]
  BY DEF TypeOK, DeviceOK
<1>2. pc[c] \in Installing => File(c) \in SkillFile /\ call[c].version # Absent
  BY FileType, CallFields, DeviceAssumption DEF TypeOK, DeviceOK, StepsOK
<1>3. CASE Rename(c) \/ RenameAgain(c)
  <2>1. CASE Put(c) /\ File(c) = f
    BY <1>1, <1>2, <1>3, <2>1 DEF Put, There, Rename, RenameAgain, Running, Installing
  <2>2. CASE Put(c) /\ File(c) # f
    <3>1. skill'[f] = skill[f]
      BY <1>1, <2>2 DEF Put
    <3>2. ASSUME NEW d \in Command, pc[d] = "rename again", File(d) = f
          PROVE  pc'[d] = "rename again" /\ at'[d] = at[d]
      <4>1. d # c
        BY <2>2, <3>2
      <4> QED
        BY <1>1, <2>2, <3>2, <4>1 DEF Put, Ends
    <3> QED
      BY <3>1, <3>2 DEF There, Torn, File
  <2>3. CASE skill' = skill /\ (Ends(c, "failed") \/ (pc[c] = "rename" /\ Step(c, "remove")))
    <3>1. at' = at /\ (\A d \in Command : pc[d] = "rename again" => pc'[d] = "rename again")
      BY <1>1, <2>3 DEF Step, Ends
    <3> QED
      BY <2>3, <3>1 DEF There, Torn, File
  <2> QED
    BY <1>3, <2>1, <2>2, <2>3 DEF Rename, RenameAgain, Running
<1>4. CASE Remove(c)
  <2>1. at' = at /\ (\A d \in Command : pc[d] = "rename again" => pc'[d] = "rename again")
    BY <1>1, <1>4 DEF Remove, Running, Step, Ends
  <2>2. Torn(f) => Torn(f)'
    BY <2>1 DEF Torn, File
  <2>3. skill'[f] = skill[f] \/ (File(c) = f /\ Step(c, "rename again"))
    BY <1>1, <1>4 DEF Remove
  <2>4. File(c) = f /\ Step(c, "rename again") => Torn(f)'
    BY <1>1 DEF Torn, Step, File
  <2> QED
    BY <2>2, <2>3, <2>4 DEF There
<1>5. CASE CheckConfig(c) \/ Save(c) \/ CheckSkill(c) \/ Prepare(c)
  <2>1. skill' = skill /\ at' = at /\ (\A d \in Command : pc[d] = "rename again" => pc'[d] = "rename again")
    BY <1>1, <1>5 DEF CheckConfig, Save, CheckSkill, Prepare, Running, Step, Ends, device
  <2> QED
    BY <2>1 DEF There, Torn, File
<1> QED
  BY <1>3, <1>4, <1>5 DEF DeviceStep


(* An install reaches its next file, or its end, by putting one in place.    *)
LEMMA PlacesFile ==
    ASSUME TypeOK, NEW c \in Command, call[c].op = "install", DeviceStep(c), call' = call
    PROVE  /\ status[c] = "running" /\ (skillDir => skillDir')
           /\ \/ at'[c] = at[c]
              \/ at'[c] = at[c] + 1 /\ skill'[File(c)] # Absent /\ pc[c] \in {"rename", "rename again"}
           /\ status'[c] = "ok" =>
                 LastFile(c) /\ skill'[File(c)] # Absent /\ pc[c] \in {"rename", "rename again"}
           /\ pc'[c] \in {"rename", "remove", "rename again"}
              => skillDir' \/ pc[c] \in {"rename", "remove", "rename again"}
<1>1. /\ pc \in [Command -> Steps] /\ skill \in [SkillFile -> Version \cup {Absent}]
      /\ at \in [Command -> Nat] /\ status \in [Command -> {"running", "ok", "failed", "killed"}]
      /\ skillDir \in BOOLEAN /\ pc[c] \in {"stat"} \cup Installing
  BY DEF TypeOK, DeviceOK, StepsOK
<1>2. call[c].version # Absent /\ File(c) \in SkillFile
  BY FileType, CallFields, DeviceAssumption DEF TypeOK, DeviceOK
<1>3. CASE CheckSkill(c)
  BY <1>1, <1>3 DEF CheckSkill, Running, Step, Ends, device
<1>4. CASE Prepare(c)
  BY <1>1, <1>4 DEF Prepare, Running, Step, Ends
<1>5. CASE Remove(c)
  BY <1>1, <1>5 DEF Remove, Running, Step, Ends
<1>6. CASE Rename(c) \/ RenameAgain(c)
  <2>1. CASE Put(c)
    <3>1. skill'[File(c)] # Absent /\ pc[c] \in {"rename", "rename again"} /\ skillDir' = skillDir
          /\ status[c] = "running"
      BY <1>1, <1>2, <1>6, <2>1 DEF Put, Rename, RenameAgain, Running
    <3>2. \/ at'[c] = at[c] /\ LastFile(c)
          \/ at'[c] = at[c] + 1 /\ status'[c] = status[c]
          \/ at'[c] = at[c] /\ status'[c] = "failed"
      BY <1>1, <2>1 DEF Put, Ends
    <3> QED
      BY <3>1, <3>2
  <2>2. CASE /\ status[c] = "running" /\ skillDir' = skillDir /\ at' = at
             /\ pc[c] \in {"rename", "rename again"} /\ status'[c] # "ok"
    BY <2>2
  <2> QED
    BY <1>1, <1>6, <2>1, <2>2 DEF Rename, RenameAgain, Running, Step, Ends
<1> QED
  BY <1>1, <1>3, <1>4, <1>5, <1>6 DEF DeviceStep, CheckConfig, Save, Running, Installing

(* Steps that are not a device's leave it, and the commands that write it.   *)
LEMMA OffDevice ==
    ASSUME TypeOK, [Next]_vars, ~\E c \in Command : DeviceStep(c)
    PROVE  /\ UNCHANGED <<call, device>>
           /\ \A c \in Command : pc[c] \in {"check", "save", "stat"} \cup Installing =>
                 pc'[c] = pc[c] /\ at'[c] = at[c] /\ status'[c] \in {status[c], "killed"}
           /\ \A c \in Command : pc[c] \notin {"check", "save", "stat"} \cup Installing =>
                 pc'[c] \notin {"check", "save", "stat"} \cup Installing
<1>1. UNCHANGED <<call, device>>
  BY DEF Next, ClientStep, Load, Classify, Read, Send, Answer, GivesUp, Kill, Receive, Handle,
     Edit, Signal, Exit, Restart, Terminating, vars, deviceVars
<1>2. \/ UNCHANGED process
      \/ \E c \in Command :
            \/ Ends(c, "killed")
            \/ /\ pc[c] \in {"load", "classify", "read", "send", "wait"}
               /\ \/ \E how \in {"ok", "failed"} : Ends(c, how)
                  \/ \E step \in {"load", "classify", "read", "send", "wait"} : Step(c, step)
                  \/ /\ pc' = [pc EXCEPT ![c] = "read"]
                     /\ at' = [at EXCEPT ![c] = @ + 1] /\ UNCHANGED status
  <2>1. \A c \in Command : AfterLoad(c) \in {"send", "classify", "read"}
    BY DEF AfterLoad
  <2>2. CASE \E c \in Command : Load(c) \/ Classify(c) \/ Read(c)
    BY <2>1, <2>2 DEF Load, Classify, Read, Fails, Running
  <2>3. CASE \E c \in Command : Send(c) \/ Answer(c) \/ GivesUp(c)
    BY <2>3 DEF Send, Answer, GivesUp, Fails, Running
  <2>4. CASE \E c \in Command : Kill(c)
    BY <2>4 DEF Kill
  <2>5. CASE \E c \in Command : Receive(c) \/ Handle(c)
    BY <2>5 DEF Receive, Handle, deviceVars
  <2>6. CASE \/ \E p \in Editable, b \in Edited : Edit(p, b)
             \/ Signal \/ Exit \/ Restart \/ Terminating \/ UNCHANGED vars
    BY <2>6 DEF Edit, Signal, Exit, Restart, Terminating, vars, deviceVars, process
  <2> QED
    BY <2>2, <2>3, <2>4, <2>5, <2>6 DEF Next, ClientStep
<1>3. /\ pc \in [Command -> Steps] /\ at \in [Command -> Nat]
      /\ status \in [Command -> {"running", "ok", "failed", "killed"}]
  BY DEF TypeOK, DeviceOK
<1>4. ASSUME NEW c \in Command
      PROVE  /\ pc[c] \in {"check", "save"} \cup {"stat"} \cup Installing =>
                   pc'[c] = pc[c] /\ at'[c] = at[c] /\ status'[c] \in {status[c], "killed"}
             /\ pc[c] \notin {"check", "save"} \cup {"stat"} \cup Installing =>
                   pc'[c] \notin {"check", "save"} \cup {"stat"} \cup Installing
  <2>1. CASE UNCHANGED process
    BY <2>1 DEF process
  <2>2. ASSUME NEW d \in Command, Ends(d, "killed")
        PROVE  pc'[c] = pc[c] /\ at'[c] = at[c] /\ status'[c] \in {status[c], "killed"}
    BY <1>3, <2>2 DEF Ends
  <2>3. ASSUME NEW d \in Command, pc[d] \in {"load", "classify", "read", "send", "wait"},
               \/ \E how \in {"ok", "failed"} : Ends(d, how)
               \/ \E step \in {"load", "classify", "read", "send", "wait"} : Step(d, step)
               \/ /\ pc' = [pc EXCEPT ![d] = "read"]
                  /\ at' = [at EXCEPT ![d] = @ + 1] /\ UNCHANGED status
        PROVE  /\ pc'[d] \in {"load", "classify", "read", "send", "wait"}
               /\ d # c => pc'[c] = pc[c] /\ at'[c] = at[c] /\ status'[c] = status[c]
    BY <1>3, <2>3 DEF Step, Ends
  <2> QED
    BY <1>2, <2>1, <2>2, <2>3 DEF Installing
<1> QED
  BY <1>1, <1>4

LEMMA PlacedInvariant == TypeOK /\ PlacedInv /\ [Next]_vars => PlacedInv'
<1> SUFFICES ASSUME TypeOK, PlacedInv, [Next]_vars, NEW c \in Command, call'[c].op = "install"
    PROVE  /\ at'[c] > 1 \/ status'[c] = "ok" \/ pc'[c] \in {"rename", "remove", "rename again"}
              => skillDir'
           /\ \A i \in DOMAIN SkillFiles :
                 i < at'[c] \/ status'[c] = "ok" => There(SkillFiles[i])'
  BY DEF PlacedInv
<1>1. at[c] \in Nat /\ at[c] \in DOMAIN SkillFiles /\ call' = call
  <2>1. call' = call
    BY DEF Next, ClientStep, DeviceStep, CheckConfig, Save, CheckSkill, Prepare, Rename, Remove,
       RenameAgain, Load, Classify, Read, Send, Answer, GivesUp, Kill, Receive, Handle,
       Edit, Signal, Exit, Restart, Terminating, vars, deviceVars
  <2> QED
    BY <2>1 DEF TypeOK, DeviceOK, StepsOK
<1>2. \A i \in DOMAIN SkillFiles : SkillFiles[i] \in SkillFile /\ i \in Nat
  BY DeviceAssumption DEF SkillFile
<1>3. /\ at[c] > 1 \/ status[c] = "ok" \/ pc[c] \in {"rename", "remove", "rename again"} => skillDir
      /\ \A i \in DOMAIN SkillFiles : i < at[c] \/ status[c] = "ok" => There(SkillFiles[i])
  BY <1>1 DEF PlacedInv
<1>4. ASSUME NEW d \in Command, DeviceStep(d), d # c
      PROVE  pc'[c] = pc[c] /\ at'[c] = at[c] /\ status'[c] = status[c] /\ (skillDir => skillDir')
  <2>1. pc'[c] = pc[c] /\ at'[c] = at[c] /\ status'[c] = status[c]
    BY <1>4 DEF TypeOK, DeviceOK, DeviceStep, CheckConfig, Save, CheckSkill, Prepare, Rename, Remove,
       RenameAgain, Put, Step, Ends
  <2>2. skillDir => skillDir'
    BY <1>4 DEF DeviceStep, CheckConfig, Save, CheckSkill, Prepare, Rename, Remove, RenameAgain, device
  <2> QED
    BY <2>1, <2>2
<1>5. ASSUME NEW d \in Command, DeviceStep(d), d # c
      PROVE  /\ at'[c] > 1 \/ status'[c] = "ok" \/ pc'[c] \in {"rename", "remove", "rename again"}
                => skillDir'
             /\ \A i \in DOMAIN SkillFiles :
                   i < at'[c] \/ status'[c] = "ok" => There(SkillFiles[i])'
  BY <1>1, <1>2, <1>3, <1>4, <1>5, StaysThere
<1>6. CASE DeviceStep(c)
  <2>1. /\ status[c] = "running" /\ (skillDir => skillDir')
        /\ \/ at'[c] = at[c]
           \/ at'[c] = at[c] + 1 /\ skill'[File(c)] # Absent /\ pc[c] \in {"rename", "rename again"}
        /\ status'[c] = "ok" =>
              LastFile(c) /\ skill'[File(c)] # Absent /\ pc[c] \in {"rename", "rename again"}
        /\ pc'[c] \in {"rename", "remove", "rename again"}
              => skillDir' \/ pc[c] \in {"rename", "remove", "rename again"}
    BY <1>1, <1>6, PlacesFile
  <2>2. ASSUME NEW i \in DOMAIN SkillFiles, i < at'[c] \/ status'[c] = "ok"
        PROVE  There(SkillFiles[i])'
    <3>1. CASE i < at[c]
      BY <1>1, <1>2, <1>3, <1>6, <3>1, StaysThere
    <3>2. CASE i >= at[c]
      <4>1. i = at[c] /\ skill'[File(c)] # Absent
        <5>1. Len(SkillFiles) \in Nat /\ i \in 1 .. Len(SkillFiles) /\ at[c] \in 1 .. Len(SkillFiles)
          BY <1>1, DeviceAssumption
        <5>2. i \in Nat /\ at[c] \in Nat /\ i <= Len(SkillFiles)
          BY <5>1
        <5>3. CASE status'[c] = "ok"
          <6>1. at[c] >= Len(SkillFiles) /\ skill'[File(c)] # Absent
            BY <2>1, <5>3 DEF LastFile
          <6> QED
            BY <3>2, <5>1, <5>2, <6>1
        <5>4. CASE status'[c] # "ok" /\ i < at'[c]
          <6>1. at'[c] # at[c]
            BY <3>2, <5>2, <5>4
          <6>2. at'[c] = at[c] + 1 /\ skill'[File(c)] # Absent
            BY <2>1, <6>1
          <6> QED
            BY <3>2, <5>2, <5>4, <6>2
        <5> QED
          BY <2>2, <5>3, <5>4
      <4> QED
        BY <4>1 DEF There, File
    <3> QED
      BY <1>1, <1>2, <3>1, <3>2
  <2>3. at'[c] > 1 \/ status'[c] = "ok" \/ pc'[c] \in {"rename", "remove", "rename again"} => skillDir'
    BY <1>1, <1>3, <2>1
  <2> QED
    BY <2>2, <2>3
<1>7. CASE ~\E d \in Command : DeviceStep(d)
  <2>1. pc[c] \in {"stat"} \cup Installing
    BY <1>1 DEF TypeOK, StepsOK
  <2>2. pc'[c] = pc[c] /\ at'[c] = at[c] /\ status'[c] \in {status[c], "killed"}
        /\ skillDir' = skillDir /\ skill' = skill
    BY <1>7, <2>1, OffDevice DEF device
  <2>3. ASSUME NEW f \in SkillFile, There(f) PROVE There(f)'
    <3>1. ASSUME NEW d \in Command, pc[d] = "rename again", File(d) = f
          PROVE  pc'[d] = "rename again" /\ File(d)' = f
      BY <1>7, <3>1, OffDevice DEF Installing, File
    <3> QED
      BY <2>2, <2>3, <3>1 DEF There, Torn
  <2> QED
    BY <1>2, <1>3, <2>2, <2>3
<1> QED
  BY <1>5, <1>6, <1>7

(* SkillComplete: once an install has succeeded, no file of the skill is     *)
(* missing that no install has removed and not put back.                     *)
THEOREM NoFileOfTheSkillIsLost == Spec => []SkillComplete
<1>1. Init => PlacedInv
  <2> SUFFICES ASSUME Init, NEW c \in Command, call[c].op = "install"
      PROVE  /\ ~(at[c] > 1) /\ status[c] # "ok" /\ pc[c] = "stat"
             /\ \A i \in DOMAIN SkillFiles : ~(i < at[c])
    BY DEF PlacedInv
  <2>1. at[c] = 1 /\ status[c] = "running" /\ pc[c] = "stat"
    BY DEF Init, InitDevice, FirstStep
  <2> QED
    BY <2>1, DeviceAssumption
<1>2. PlacedInv => SkillComplete
  <2> SUFFICES ASSUME PlacedInv, NEW c \in Command, call[c].op = "install", status[c] = "ok"
      PROVE  skillDir /\ \A f \in SkillFile : skill[f] = Absent => Torn(f)
    BY DEF SkillComplete
  <2> QED
    BY DEF PlacedInv, SkillFile, There
<1> QED
  BY <1>1, <1>2, PlacedInvariant, TypeCorrect, PTL DEF Spec


(* InstalledVersion.  While nobody else writes, the files that an install    *)
(* has been through are of its own version.                                  *)
OwnVersion(c) == \A i \in DOMAIN SkillFiles : i < at[c] => skill[SkillFiles[i]] = call[c].version
VersionInv ==
    \A c \in Command : call[c].op = "install" =>
        /\ pc[c] = "stat" => at[c] = 1
        /\ status[c] = "running" /\ rivals[c] = {} => OwnVersion(c)

LEMMA VersionInvariant == TypeOK /\ VersionInv /\ [Next]_vars => VersionInv'
<1> SUFFICES ASSUME TypeOK, VersionInv, [Next]_vars, NEW c \in Command, call'[c].op = "install"
    PROVE  /\ pc'[c] = "stat" => at'[c] = 1
           /\ status'[c] = "running" /\ rivals'[c] = {} => OwnVersion(c)'
  BY DEF VersionInv
<1>1. call' = call
  BY DEF Next, ClientStep, DeviceStep, CheckConfig, Save, CheckSkill, Prepare, Rename, Remove,
     RenameAgain, Load, Classify, Read, Send, Answer, GivesUp, Kill, Receive, Handle,
     Edit, Signal, Exit, Restart, Terminating, vars, deviceVars
<1>2. /\ pc \in [Command -> Steps] /\ at \in [Command -> Nat] /\ rivals \in [Command -> SUBSET Command]
      /\ status \in [Command -> {"running", "ok", "failed", "killed"}]
      /\ skill \in [SkillFile -> Version \cup {Absent}]
      /\ pc[c] \in {"stat"} \cup Installing /\ at[c] \in DOMAIN SkillFiles
  BY <1>1 DEF TypeOK, DeviceOK, StepsOK
<1>3. /\ pc[c] = "stat" => at[c] = 1
      /\ status[c] = "running" /\ rivals[c] = {} => OwnVersion(c)
  BY <1>1 DEF VersionInv
<1>4. /\ at[c] \in Nat
      /\ \A i \in DOMAIN SkillFiles : i \in Nat /\ i >= 1 /\ SkillFiles[i] \in SkillFile
      /\ \A i \in DOMAIN SkillFiles : SkillFiles[i] = SkillFiles[at[c]] => i = at[c]
  BY <1>2, DeviceAssumption DEF SkillFile
<1>5. ASSUME NEW d \in Command, DeviceStep(d), d # c
      PROVE  /\ pc'[c] = "stat" => at'[c] = 1
             /\ status'[c] = "running" /\ rivals'[c] = {} => OwnVersion(c)'
  <2>1. pc'[c] = pc[c] /\ at'[c] = at[c] /\ status'[c] = status[c]
    BY <1>2, <1>5 DEF DeviceStep, CheckConfig, Save, CheckSkill, Prepare, Rename, Remove,
       RenameAgain, Put, Step, Ends
  <2>2. \/ skill' = skill /\ (rivals' = rivals \/ WriteBeside(d, {"save"}))
        \/ WriteBeside(d, Installing)
    BY <1>5 DEF DeviceStep, CheckConfig, Save, CheckSkill, Prepare, Rename, Remove,
       RenameAgain, Put, device
  <2>3. rivals[c] \subseteq rivals'[c]
    BY <1>2, <2>2 DEF WriteBeside
  <2>4. CASE skill' = skill
    BY <1>1, <1>3, <2>1, <2>3, <2>4 DEF OwnVersion
  <2>5. CASE WriteBeside(d, Installing)
    <3>1. CASE pc[c] = "stat"
      <4>1. at'[c] = 1
        BY <1>3, <2>1, <3>1
      <4> QED
        BY <1>4, <4>1 DEF OwnVersion
    <3>2. CASE pc[c] \in Installing
      BY <1>2, <1>5, <2>1, <2>5, <3>2 DEF WriteBeside, Installing
    <3> QED
      BY <1>2, <3>1, <3>2
  <2> QED
    BY <2>2, <2>4, <2>5
<1>6. CASE DeviceStep(c)
  <2>1. status[c] = "running" /\ rivals[c] \subseteq rivals'[c]
    BY <1>2, <1>6 DEF DeviceStep, CheckConfig, Save, CheckSkill, Prepare, Rename, Remove,
       RenameAgain, Put, Running, device, WriteBeside
  <2>2. pc'[c] = "stat" => pc[c] = "stat" /\ at'[c] = at[c]
    BY <1>2, <1>6 DEF DeviceStep, CheckConfig, Save, CheckSkill, Prepare, Rename, Remove,
       RenameAgain, Put, Running, Step, Ends, Installing
  <2>3. rivals'[c] = {} => OwnVersion(c)
    BY <1>3, <2>1
  <2>4. \/ at'[c] = at[c] /\ skill' = skill
        \/ at'[c] = at[c] /\ \E v : skill' = [skill EXCEPT ![File(c)] = v]
        \/ at'[c] = at[c] + 1 /\ skill' = [skill EXCEPT ![File(c)] = call[c].version]
    BY <1>2, <1>6 DEF DeviceStep, CheckConfig, Save, CheckSkill, Prepare, Rename, Remove,
       RenameAgain, Put, Step, Ends, device
  <2>5. OwnVersion(c) => OwnVersion(c)'
    <3> SUFFICES ASSUME OwnVersion(c), NEW i \in DOMAIN SkillFiles, i < at'[c]
        PROVE  skill'[SkillFiles[i]] = call[c].version
      BY <1>1 DEF OwnVersion
    <3>1. CASE i < at[c]
      <4>1. skill[SkillFiles[i]] = call[c].version /\ SkillFiles[i] # File(c)
        BY <1>4, <3>1 DEF OwnVersion, File
      <4> QED
        BY <1>2, <1>4, <2>4, <4>1
    <3>2. CASE ~(i < at[c])
      <4>1. at'[c] = at[c] + 1 /\ i = at[c]
        BY <1>4, <2>4, <3>2
      <4>2. skill' = [skill EXCEPT ![File(c)] = call[c].version] /\ SkillFiles[i] = File(c)
        BY <1>4, <2>4, <4>1 DEF File
      <4> QED
        BY <1>2, <1>4, <4>2
    <3> QED
      BY <3>1, <3>2
  <2> QED
    BY <1>3, <2>2, <2>3, <2>5
<1>7. CASE ~\E d \in Command : DeviceStep(d)
  <2>1. pc'[c] = pc[c] /\ at'[c] = at[c] /\ status'[c] \in {status[c], "killed"}
        /\ skill' = skill /\ rivals' = rivals
    BY <1>2, <1>7, OffDevice DEF device
  <2> QED
    BY <1>1, <1>3, <2>1 DEF OwnVersion
<1> QED
  BY <1>5, <1>6, <1>7

THEOREM AnUndisturbedInstallIsWhole == Spec => InstalledVersion
<1>1. Init => VersionInv
  <2> SUFFICES ASSUME Init, NEW c \in Command PROVE at[c] = 1 /\ OwnVersion(c)
    BY DEF VersionInv
  <2>1. \A i \in DOMAIN SkillFiles : ~(i < 1)
    BY DeviceAssumption
  <2> QED
    BY <2>1 DEF Init, InitDevice, OwnVersion
<1>2. TypeOK /\ VersionInv /\ [Next]_vars =>
      [\A c \in Command : /\ call[c].op = "install" /\ rivals'[c] = {}
                          /\ status[c] = "running" /\ status'[c] = "ok"
                          => skill' = [f \in SkillFile |-> call[c].version]]_deviceVars
  <2> SUFFICES ASSUME TypeOK, VersionInv, [Next]_vars, NEW c \in Command, call[c].op = "install",
                      rivals'[c] = {}, status[c] = "running", status'[c] = "ok"
      PROVE  skill' = [f \in SkillFile |-> call[c].version]
    OBVIOUS
  <2>1. /\ pc \in [Command -> Steps] /\ skill \in [SkillFile -> Version \cup {Absent}]
        /\ status \in [Command -> {"running", "ok", "failed", "killed"}]
        /\ rivals \in [Command -> SUBSET Command]
        /\ pc[c] \in {"stat"} \cup Installing /\ at[c] \in DOMAIN SkillFiles
    BY DEF TypeOK, DeviceOK, StepsOK
  <2>2. DeviceStep(c)
    <3>1. \E d \in Command : DeviceStep(d)
      BY <2>1, OffDevice DEF Installing
    <3>2. ASSUME NEW d \in Command, DeviceStep(d), d # c PROVE status'[c] = status[c]
      BY <2>1, <3>2 DEF DeviceStep, CheckConfig, Save, CheckSkill, Prepare, Rename, Remove,
         RenameAgain, Put, Step, Ends
    <3> QED
      BY <3>1, <3>2
  <2>3. Put(c) /\ LastFile(c)
    BY <2>1, <2>2 DEF DeviceStep, CheckConfig, Save, CheckSkill, Prepare, Rename, Remove,
       RenameAgain, Put, Running, Step, Ends, Installing
  <2>4. rivals[c] = {}
    BY <2>1, <2>3 DEF Put, WriteBeside
  <2>5. OwnVersion(c)
    BY <2>4 DEF VersionInv
  <2>6. skill' = [skill EXCEPT ![File(c)] = call[c].version]
    BY <2>3 DEF Put
  <2>7. ASSUME NEW f \in SkillFile PROVE skill'[f] = call[c].version
    <3>1. PICK i \in DOMAIN SkillFiles : f = SkillFiles[i]
      BY DEF SkillFile
    <3>2. /\ Len(SkillFiles) \in Nat /\ i \in Nat /\ i <= Len(SkillFiles)
          /\ at[c] \in Nat /\ at[c] >= Len(SkillFiles)
      BY <2>1, <2>3, DeviceAssumption DEF LastFile
    <3>3. CASE i < at[c]
      BY <2>1, <2>5, <2>6, <3>1, <3>3 DEF OwnVersion
    <3>4. CASE i = at[c]
      BY <2>1, <2>6, <3>1, <3>4 DEF File
    <3> QED
      BY <3>2, <3>3, <3>4
  <2> QED
    BY <2>1, <2>6, <2>7
<1> QED
  BY <1>1, <1>2, VersionInvariant, TypeCorrect, PTL DEF Spec, InstalledVersion

-----------------------------------------------------------------------------
(* KindByContent.  What a step leaves alone of a command keeps its KindOK.   *)
LEMMA KindKept ==
    ASSUME TypeOK, NEW c \in Command, KindOK(c), call' = call,
           pc'[c] = pc[c], at'[c] = at[c], kind'[c] = kind[c], body'[c] = body[c],
           edits' = 0 => edits = 0 /\ disk' = disk,
           request'[c].state # "none" => request[c].state # "none",
           request'[c].endpoint = request[c].endpoint, request'[c].hash = request[c].hash
    PROVE  KindOK(c)'
<1>1. Arg(c)' = Arg(c) /\ (Told(c)' <=> Told(c))
  BY DEF Arg, Told
<1>2. CASE edits' = 0
  <2>1. (ByContent(c)' <=> ByContent(c)) /\ disk'[Arg(c)'] = disk[Arg(c)] /\ edits = 0
    BY <1>1, <1>2 DEF ByContent, IsHostedFile
  <2> QED
    BY <1>1, <1>2, <2>1 DEF KindOK
<1>3. CASE edits' # 0
  BY <1>1, <1>3 DEF KindOK
<1> QED
  BY <1>2, <1>3

(* A command moves along its operation before it has sent anything.          *)
LEMMA KindWalks ==
    ASSUME TypeOK, NEW c \in Command, KindOK(c), Load(c) \/ Classify(c) \/ Read(c)
    PROVE  KindOK(c)'
<1>1. /\ UNCHANGED <<call, at, request, disk, edits>>
      /\ pc \in [Command -> Steps] /\ kind \in [Command -> {"any", "page", "file"}]
      /\ body \in [Command -> Body \cup {Absent}]
  BY DEF TypeOK, DeviceOK, CommandOK, Load, Classify, Read, Fails, Step, Ends, network, editor
<1>2. Arg(c)' = Arg(c) /\ (Told(c)' <=> Told(c))
  BY <1>1 DEF Arg, Told
<1>3. IsHostedFile(Arg(c))' <=> IsHostedFile(Arg(c))
  BY <1>1, <1>2 DEF IsHostedFile
<1>4. CASE Load(c)
  <2>1. kind'[c] = kind[c] /\ body'[c] = body[c] /\ pc[c] = "load" /\ pc'[c] \in {"load", AfterLoad(c)}
    BY <1>1, <1>4 DEF Load, Running, Fails, Step, Ends
  <2>2. ASSUME call[c].op \in Reading, ~Told(c)
        PROVE  call[c].op \in {"upload", "update"}
    BY <2>2, CallType DEF TypeOK, DeviceOK, Reading, Told
  <2>3. ASSUME call[c].op \in Reading, ~Told(c)
        PROVE  AfterLoad(c) = IF kind[c] = "any" /\ call[c].op = "update" THEN "classify"
                              ELSE IF call[c].op = "upload" /\ kind[c] = "page" THEN "send" ELSE "read"
    BY <2>2, <2>3 DEF AfterLoad
  <2>4. ByContent(c)' <=> ByContent(c)
    BY <1>2, <1>3, <2>1 DEF ByContent
  <2>5. ASSUME call[c].op \in Reading, Told(c)
        PROVE  AfterLoad(c) # "classify"
    BY <2>5 DEF AfterLoad, KindOK, Told
  <2>6. UNCHANGED <<call, disk, edits, request>>
    BY <1>1
  <2>7. CASE call[c].op \in Reading /\ Told(c)
    BY <1>2, <2>1, <2>5, <2>6, <2>7 DEF KindOK, Reading
  <2>8. CASE call[c].op \in Reading /\ ~Told(c)
    BY <1>2, <2>1, <2>2, <2>3, <2>4, <2>6, <2>8 DEF KindOK, Reading
  <2> QED
    BY <2>6, <2>7, <2>8 DEF KindOK
<1>5. CASE Classify(c)
  <2>1. body'[c] = body[c] /\ pc[c] = "classify"
    BY <1>1, <1>5 DEF Classify, Running
  <2>2. CASE pc'[c] = "classify" /\ kind'[c] = kind[c]
    <3>1. ByContent(c)' <=> ByContent(c)
      BY <1>2, <1>3, <2>2 DEF ByContent
    <3> QED
      BY <1>1, <1>2, <2>1, <2>2, <3>1 DEF KindOK
  <2>3. CASE /\ kind'[c] = (IF IsHostedFile(Arg(c)) THEN "file" ELSE "page")
             /\ pc'[c] = (IF call[c].op = "upload" /\ IsHostedFile(Arg(c)) THEN "load" ELSE "read")
    <3>1. ByContent(c)'
      BY <1>2, <1>3, <2>3 DEF ByContent
    <3>2. ~Told(c)
      BY <2>1 DEF KindOK, TypeOK, StepsOK
    <3> QED
      BY <1>1, <1>2, <2>1, <2>3, <3>1, <3>2 DEF KindOK
  <2>4. CASE Fails(c) /\ UNCHANGED kind
    BY <1>1, <2>1, <2>2, <2>4 DEF Fails, Ends
  <2>5. CASE ~(Fails(c) /\ UNCHANGED kind)
    <3>1. /\ kind' = [kind EXCEPT ![c] = IF IsHostedFile(Arg(c)) THEN "file" ELSE "page"]
          /\ Step(c, IF call[c].op = "upload" /\ IsHostedFile(Arg(c)) THEN "load" ELSE "read")
      BY <1>5, <2>5 DEF Classify
    <3> QED
      BY <1>1, <2>3, <3>1 DEF Step
  <2> QED
    BY <2>4, <2>5
<1>6. CASE Read(c)
  <2>1. kind'[c] = kind[c] /\ pc[c] = "read"
    BY <1>1, <1>6 DEF Read, Running
  <2>2. ByContent(c)' <=> ByContent(c)
    BY <1>2, <1>3, <2>1 DEF ByContent
  <2>3. \/ pc'[c] = "read" /\ body'[c] = body[c]
        \/ body'[c] = disk[Arg(c)]
           /\ pc'[c] = (IF call[c].op = "upload" /\ kind[c] = "page" THEN "load" ELSE "send")
    <3>1. CASE Fails(c) /\ UNCHANGED body
      BY <2>1, <3>1 DEF Fails, Ends
    <3>2. CASE ~(Fails(c) /\ UNCHANGED body)
      BY <1>1, <1>6, <3>2 DEF Read, Step
    <3> QED
      BY <3>1, <3>2
  <2> QED
    BY <1>1, <1>2, <2>1, <2>2, <2>3 DEF KindOK
<1> QED
  BY <1>4, <1>5, <1>6

LEMMA KindSends ==
    ASSUME TypeOK, NEW c \in Command, KindOK(c), Send(c)
    PROVE  KindOK(c)'
<1>1. /\ UNCHANGED <<call, at, kind, body, disk, edits>> /\ pc[c] = "send"
      /\ pc \in [Command -> Steps] /\ kind \in [Command -> {"any", "page", "file"}]
      /\ request \in [Command -> Request]
  BY DEF TypeOK, DeviceOK, CommandOK, Send, Running, Fails, Step, Ends, editor
<1>2. Arg(c)' = Arg(c) /\ (Told(c)' <=> Told(c))
  BY <1>1 DEF Arg, Told
<1>3. ByContent(c)' <=> ByContent(c)
  BY <1>1, <1>2 DEF ByContent, IsHostedFile
<1>4. CASE Fails(c) /\ UNCHANGED request
  BY <1>1, <1>4, KindKept DEF Fails, Ends
<1>5. CASE ~(Fails(c) /\ UNCHANGED request)
  <2>1. /\ pc'[c] = "wait" /\ request'[c].state = "sent"
        /\ request'[c].endpoint = Endpoint(c) /\ request'[c].hash = body[c]
    BY <1>1, <1>5 DEF Send, Step
  <2>2. call[c].op \notin {"init", "install"}
    BY <1>1 DEF TypeOK, StepsOK, Installing
  <2>3. ASSUME call[c].op \in Reading PROVE kind[c] # "any"
    BY <1>1, <2>3 DEF KindOK, Told
  <2>4. ASSUME call[c].op \in Reading PROVE Endpoint(c) = kind[c]
    BY <1>1, <2>3, <2>4 DEF Endpoint, Method, Reading
  <2> QED
    BY <1>1, <1>2, <1>3, <2>1, <2>2, <2>3, <2>4 DEF KindOK
<1> QED
  BY <1>4, <1>5

LEMMA KindAnswered ==
    ASSUME TypeOK, NEW c \in Command, KindOK(c), Answer(c)
    PROVE  KindOK(c)'
<1>1. UNCHANGED <<call, kind, body, request, disk, edits>> /\ pc[c] = "wait"
  BY DEF Answer, Running, network, editor
<1>2. CASE pc' = pc /\ at' = at
  BY <1>1, <1>2, KindKept
<1>3. CASE ~Done(c) /\ pc'[c] = "read"
  <2>1. ASSUME call[c].op \in {"upload", "update"} PROVE FALSE
    <3>1. Len(call[c].args) = 1 /\ at[c] \in DOMAIN call[c].args /\ call[c].args \in Seq(Path)
      BY <2>1, CallType, CallFields DEF TypeOK, DeviceOK, StepsOK, Reading
    <3>2. at[c] = 1
      BY <3>1
    <3> QED
      BY <1>3, <3>1, <3>2 DEF Done
  <2>2. call[c].op \in Reading => Told(c)
    BY <2>1, CallType DEF TypeOK, DeviceOK, Reading, Told
  <2> QED
    BY <1>1, <1>3, <2>2 DEF KindOK, Told
<1>4. pc \in [Command -> Steps]
  BY DEF TypeOK, DeviceOK
<1> QED
  BY <1>2, <1>3, <1>4 DEF Answer, Fails, Ends

LEMMA NextKindOK == TypeOK /\ [Next]_vars /\ (\A c \in Command : KindOK(c))
                    => \A c \in Command : KindOK(c)'
<1> SUFFICES ASSUME TypeOK, [Next]_vars, NEW c \in Command, KindOK(c) PROVE KindOK(c)'
  OBVIOUS
<1>1. /\ pc \in [Command -> Steps] /\ at \in [Command -> Nat] /\ edits \in Nat
      /\ kind \in [Command -> {"any", "page", "file"}] /\ body \in [Command -> Body \cup {Absent}]
      /\ request \in [Command -> Request]
  BY BoundAssumption DEF TypeOK, DeviceOK, CommandOK
<1>2. CASE Load(c) \/ Classify(c) \/ Read(c) \/ Send(c) \/ Answer(c)
  BY <1>2, KindWalks, KindSends, KindAnswered
<1>3. CASE DeviceStep(c) /\ UNCHANGED <<command, network, lifecycle, editor>>
  <2>1. call' = call /\ request' = request
    BY <1>3 DEF DeviceStep, CheckConfig, Save, CheckSkill, Prepare, Rename, Remove, RenameAgain, network
  <2>2. pc[c] \in {"check", "save", "stat"} \cup Installing
    BY <1>3 DEF DeviceStep, CheckConfig, Save, CheckSkill, Prepare, Rename, Remove, RenameAgain,
       Running, Installing
  <2>3. call[c].op \in {"init", "install"}
    BY <2>2 DEF TypeOK, StepsOK
  <2> QED
    BY <2>1, <2>3 DEF KindOK, Reading
<1>4. ASSUME NEW d \in Command, d # c,
             \/ DeviceStep(d) /\ UNCHANGED <<command, network, lifecycle, editor>>
             \/ Load(d) \/ Classify(d) \/ Read(d) \/ Send(d) \/ Answer(d)
      PROVE  KindOK(c)'
  <2>1. /\ call' = call /\ pc'[c] = pc[c] /\ at'[c] = at[c] /\ kind'[c] = kind[c]
        /\ body'[c] = body[c] /\ request'[c] = request[c] /\ edits' = edits /\ disk' = disk
    <3>1. CASE DeviceStep(d) /\ UNCHANGED <<command, network, lifecycle, editor>>
      BY <1>1, <1>4, <3>1 DEF DeviceStep, CheckConfig, Save, CheckSkill, Prepare, Rename, Remove,
         RenameAgain, Put, Step, Ends, command, network, editor
    <3>2. CASE Load(d) \/ Classify(d) \/ Read(d) \/ Send(d) \/ Answer(d)
      BY <1>1, <1>4, <3>2 DEF Load, Classify, Read, Send, Answer, Fails, Step, Ends, network, editor
    <3> QED
      BY <1>4, <3>1, <3>2
  <2> QED
    BY <2>1, KindKept
<1>5. ASSUME NEW d \in Command, GivesUp(d) \/ Kill(d) PROVE KindOK(c)'
  <2>1. /\ call' = call /\ pc' = pc /\ at' = at /\ kind' = kind
        /\ body' = body /\ request' = request /\ edits' = edits /\ disk' = disk
    BY <1>5 DEF GivesUp, Kill, Fails, Ends, command, network, editor
  <2> QED
    BY <2>1, KindKept
<1>6. ASSUME NEW d \in Command, Receive(d) \/ Handle(d) PROVE KindOK(c)'
  <2>1. /\ UNCHANGED <<call, pc, at, kind, body, edits, disk>>
        /\ request[d].state \in {"sent", "received"}
    BY <1>6 DEF Receive, Handle, deviceVars, process, command, editor
  <2>2. /\ request'[c].endpoint = request[c].endpoint /\ request'[c].hash = request[c].hash
        /\ request'[c].state # "none" => request[c].state # "none"
    <3>1. CASE Receive(d)
      <4>1. PICK b \in Streamed(d) :
               request' = [request EXCEPT ![d].state = "received", ![d].body = b]
        BY <3>1 DEF Receive
      <4> QED
        BY <1>1, <2>1, <4>1 DEF Request
    <3>2. CASE Handle(d)
      <4>1. PICK a \in {"ok", "refused"} : request' = [request EXCEPT ![d].state = a]
        BY <3>2 DEF Handle, Answered
      <4> QED
        BY <1>1, <2>1, <4>1 DEF Request
    <3> QED
      BY <1>6, <3>1, <3>2
  <2> QED
    BY <2>1, <2>2, KindKept
<1>7. ASSUME NEW p \in Editable, NEW b \in Edited, Edit(p, b) PROVE KindOK(c)'
  <2>1. UNCHANGED <<call, pc, at, kind, body, request>> /\ edits' # 0
    BY <1>1, <1>7 DEF Edit, deviceVars, process, command, network
  <2> QED
    BY <2>1, KindKept
<1>8. CASE Signal \/ Restart \/ UNCHANGED vars
  BY <1>8, KindKept DEF Signal, Restart, vars, deviceVars, process, command, network, editor
<1>9. CASE Exit
  <2>1. /\ UNCHANGED <<call, pc, at, kind, body, edits, disk>>
        /\ request'[c] = IF InProgress(c) THEN [request[c] EXCEPT !.state = "cut"] ELSE request[c]
    BY <1>9 DEF Exit, deviceVars, process, command, editor
  <2>2. /\ request'[c].endpoint = request[c].endpoint /\ request'[c].hash = request[c].hash
        /\ request'[c].state # "none" => request[c].state # "none"
    BY <1>1, <2>1 DEF Request, InProgress
  <2> QED
    BY <2>1, <2>2, KindKept
<1> QED
  BY <1>2, <1>3, <1>4, <1>5, <1>6, <1>7, <1>8, <1>9 DEF Next, ClientStep, Terminating

LEMMA InitKindOK == Init => \A c \in Command : KindOK(c)
<1> SUFFICES ASSUME Init, NEW c \in Command PROVE KindOK(c)
  OBVIOUS
<1>1. /\ pc[c] = FirstStep(call[c].op) /\ kind[c] = call[c].kind /\ request[c].state = "none"
      /\ call \in {s.call : s \in Starts}
  BY DEF Init, InitDevice, NoRequest
<1>2. /\ call[c].op = "upload" => ~Told(c)
      /\ call[c].op = "files" => Told(c)
  BY <1>1, CallType DEF Told
<1> QED
  BY <1>1, <1>2 DEF KindOK, FirstStep, Reading, Told

(* CommandsInv: ReportInv and KindOK, whatever the commands are asked to do. *)
THEOREM CommandsInvariant == Spec => []CommandsInv
<1>1. Init => CommandsInv
  BY InitReportInv, InitKindOK DEF CommandsInv
<1>2. CommandsInv /\ [Next]_vars => CommandsInv'
  <2> SUFFICES ASSUME CommandsInv, [Next]_vars PROVE CommandsInv'
    OBVIOUS
  <2>1. ReportInv'
    BY NextReportInv DEF CommandsInv
  <2>2. \A c \in Command : KindOK(c)'
    BY NextKindOK DEF CommandsInv, ReportInv
  <2> QED
    BY <2>1, <2>2 DEF CommandsInv
<1> QED
  BY <1>1, <1>2, PTL DEF Spec

(* KindByContent: what becomes a page and what becomes a file follows from   *)
(* its content and its name, unless the user said which.                     *)
THEOREM ContentDecidesTheKind == Spec => []KindByContent
<1>1. CommandsInv => KindByContent
  <2> SUFFICES ASSUME CommandsInv, NEW c \in Command,
                      request[c].state # "none", Method(c) # "delete", edits = 0
      PROVE  /\ (request[c].endpoint = "page" /\ Kind[request[c].hash] = "text")
                => (Extension[Arg(c)] = "html" \/ Arg(c) = Stdin \/ Asked(c, "page"))
             /\ (request[c].endpoint = "file" /\ Kind[request[c].hash] = "html")
                => (Extension[Arg(c)] = "other" \/ Asked(c, "file"))
    BY DEF KindByContent
  <2>1. TypeOK /\ KindOK(c) /\ call[c].op \in {"init", "install", "upload", "files", "update", "delete"}
    BY CallFields DEF CommandsInv, ReportInv, TypeOK, DeviceOK
  <2>2. call[c].op \in Reading
    BY <2>1 DEF KindOK, Method, Reading
  <2>3. CASE Told(c)
    BY <2>1, <2>2, <2>3 DEF KindOK, Asked
  <2>4. CASE ~Told(c)
    <3>1. /\ request[c].endpoint = kind[c] /\ ByContent(c)
          /\ request[c].hash = disk[Arg(c)]
      BY <2>1, <2>2, <2>4 DEF KindOK
    <3>2. Extension[Arg(c)] \in {"html", "none", "other"}
      BY <2>1, <2>2, ArgType, PathAssumption
    <3> QED
      BY <3>1, <3>2 DEF ByContent, IsHostedFile
  <2> QED
    BY <2>3, <2>4
<1> QED
  BY <1>1, CommandsInvariant, PTL

=============================================================================
