--------------------------- MODULE KeyStoreProofs ---------------------------
(* The authorized keys, for every set of keys and requests: the server can   *)
(* always be restarted, what it grants is what it has saved, and it          *)
(* implements KeyRegistry.                                                   *)
EXTENDS KeyStore, TLAPS

USE DEF ReadLock, AlreadyThere

(* What each request asks.                                                   *)
LEMMA CallType ==
    ASSUME call \in Workload, NEW r \in Request
    PROVE  call[r] \in CallRecord
BY WorkloadAssumption

(* Every step keeps the variables in their types.                            *)
LEMMA NextTypeOK ==
    ASSUME TypeOK, [Next]_vars
    PROVE  TypeOK'
<1> USE SentinelAssumption DEF TypeOK, Keys, Role
<1>1. CASE Start
  <2>1. keys' \in Keys /\ disk' \in Keys \cup {NoFile}
    BY <1>1, BootstrapAssumption DEF Start, Load, Bootstrap
  <2> QED
    BY <1>1, <2>1 DEF Start
<1>2. CASE Crash
  <2>1. pc' \in [Request -> Phase]
    BY <1>2 DEF Crash, Phase
  <2>2. keys' \in Keys /\ lock' \in Request \cup {Free}
    BY <1>2 DEF Crash, NoKeys
  <2>3. up' = FALSE /\ crashes' = crashes + 1
    BY <1>2 DEF Crash
  <2>4. UNCHANGED <<disk, call, answer, taken, told, faults>>
    BY <1>2 DEF Crash
  <2>5. up' \in BOOLEAN
    BY <2>3
  <2>6. crashes' \in Nat
    BY <2>3
  <2> QED
    BY <2>1, <2>2, <2>4, <2>5, <2>6
<1>3. ASSUME NEW r \in Request, Handle(r) PROVE TypeOK'
  <2>0. call[r].op \in {"add", "remove", "list", "whoami"} /\ call[r].by \in Key
        /\ call[r].key \in Key /\ call[r].role \in Role
    BY CallType DEF CallRecord
  <2>1. CASE Authorize(r)
    <3>1. pc' \in [Request -> Phase] /\ answer' \in [Request -> Success \cup Refused \cup {"none"}]
      BY <2>1 DEF Authorize, Goto, Decide, Phase, Success, Refused
    <3>2. told' \in [Request -> Keys]
      <4>1. [NoKeys EXCEPT ![call[r].by] = keys[call[r].by]] \in Keys
        BY <2>0 DEF NoKeys
      <4> QED
        BY <2>1, <4>1 DEF Authorize
    <3> QED
      BY <2>1, <3>1, <3>2 DEF Authorize
  <2>2. CASE RejectInput(r) \/ WhoAmI(r)
    BY <2>2 DEF RejectInput, WhoAmI, Goto, Decide, Phase, Success, Refused
  <2>3. CASE List(r)
    BY <2>3 DEF List, Goto, Decide, Phase, Success, Refused
  <2>4. CASE Add(r)
    BY <2>0, <2>4 DEF Add, Answered, Change, Goto, Decide, Phase, Success, Refused
  <2>5. CASE Remove(r)
    <3>1. keys' \in Keys /\ taken' \in [Request -> Role \cup {"none"}]
      BY <2>0, <2>5 DEF Remove, Answered, Change
    <3>2. /\ pc' \in [Request -> Phase]
          /\ answer' \in [Request -> Success \cup Refused \cup {"none"}]
          /\ lock' \in Request \cup {Free}
      BY <2>5 DEF Remove, Answered, Change, Goto, Decide, Phase, Success, Refused
    <3> QED
      BY <2>5, <3>1, <3>2 DEF Remove
  <2>6. CASE Save(r)
    <3>1. Restored(r) \in Keys
      BY <2>0 DEF Restored
    <3>2. /\ pc' \in [Request -> Phase]
          /\ answer' \in [Request -> Success \cup Refused \cup {"none"}]
      BY <2>6 DEF Save, Goto, Decide, Phase, Success, Refused
    <3> QED
      BY <2>6, <3>1, <3>2 DEF Save, Fault, NoFault
  <2>7. CASE Reply(r)
    BY <2>7 DEF Reply, Goto, Phase
  <2> QED
    BY <1>3, <2>1, <2>2, <2>3, <2>4, <2>5, <2>6, <2>7 DEF Handle
<1>4. CASE Terminating \/ UNCHANGED vars
  BY <1>4 DEF Terminating, vars
<1> QED
  BY <1>1, <1>2, <1>3, <1>4 DEF Next

(* The invariant holds before the first start.                               *)
LEMMA InitKeysInv == Init => KeysInv
<1> SUFFICES ASSUME Init PROVE KeysInv
  OBVIOUS
<1>1. TypeOK
  BY BoundAssumption DEF Init, TypeOK, Keys, NoKeys, Phase
<1> QED
  BY <1>1, SentinelAssumption DEF Init, KeysInv, Restartable, MemoryIsSaved, Running, Saving

-----------------------------------------------------------------------------
(* With the lock free the memory is what is saved, so a change in memory     *)
(* differs from the file in the one key, and it leaves an admin.             *)
LEMMA Changing ==
    ASSUME KeysInv, NEW r \in Request, Add(r) \/ Remove(r), lock' # Free
    PROVE  LET c == call[r] IN
           /\ lock' = r /\ pc' = [pc EXCEPT ![r] = "save"]
           /\ c.op \in {"add", "remove"}
           /\ keys' = [disk EXCEPT ![c.key] = IF c.op = "add" THEN c.role ELSE "none"]
           /\ disk[c.key] = IF c.op = "add" THEN "none" ELSE taken'[r]
           /\ c.op = "remove" => taken'[r] # "none"
           /\ Admins(keys') # {}
<1>0. /\ call[r].key \in Key /\ call[r].role \in Role
      /\ lock = Free /\ pc[r] = "enter" /\ TypeOK
  BY CallType DEF CallRecord, KeysInv, TypeOK, Add, Remove
<1>1. keys = disk /\ disk \in Keys /\ Admins(disk) # {}
  BY <1>0 DEF KeysInv, TypeOK, Running, MemoryIsSaved, Restartable
<1>2. CASE Add(r)
  <2>1. /\ lock' = r /\ pc' = [pc EXCEPT ![r] = "save"]
        /\ call[r].op = "add" /\ keys[call[r].key] = "none"
        /\ keys' = [keys EXCEPT ![call[r].key] = call[r].role]
    BY <1>0, <1>2 DEF Add, Change, Answered, Goto
  <2>2. PICK k \in Key : disk[k] = "admin"
    BY <1>1 DEF Admins
  <2>3. keys'[k] = "admin"
    BY <1>0, <1>1, <2>1, <2>2 DEF Keys
  <2> QED
    BY <1>1, <2>1, <2>3 DEF Admins
<1>3. CASE Remove(r)
  <2>1. /\ lock' = r /\ pc' = [pc EXCEPT ![r] = "save"]
        /\ call[r].op = "remove" /\ ~LastAdmin(call[r].key)
        /\ keys[call[r].key] # "none"
        /\ keys' = [keys EXCEPT ![call[r].key] = "none"]
        /\ taken' = [taken EXCEPT ![r] = keys[call[r].key]]
    BY <1>0, <1>3 DEF Remove, Change, Answered, Goto
  <2>2. PICK k \in Key : disk[k] = "admin" /\ k # call[r].key
    BY <1>1, <2>1 DEF Admins, LastAdmin
  <2>3. keys'[k] = "admin"
    BY <1>0, <1>1, <2>1, <2>2 DEF Keys
  <2>4. taken'[r] = disk[call[r].key]
    BY <1>0, <1>1, <2>1 DEF TypeOK
  <2> QED
    BY <1>1, <2>1, <2>3, <2>4 DEF Admins
<1> QED
  BY <1>2, <1>3

(* A save ends with the memory as it is on disk, in either outcome.          *)
LEMMA SaveEnds ==
    ASSUME KeysInv, NEW r \in Request, Save(r)
    PROVE  /\ keys' = disk' /\ lock' = Free /\ lock = r
           /\ disk' \in Keys /\ Admins(disk') # {}
           /\ pc' = [pc EXCEPT ![r] = "reply"]
           /\ up /\ UNCHANGED <<up, call>>
<1>0. /\ call[r].key \in Key /\ pc[r] = "save" /\ lock = r
      /\ keys \in Keys /\ disk \in Keys
      /\ Admins(keys) # {} /\ Admins(disk) # {}
      /\ up
  <2>1. call[r].key \in Key /\ pc[r] = "save" /\ TypeOK
    BY CallType DEF CallRecord, Save, KeysInv, TypeOK
  <2>2. lock = r /\ Admins(keys) # {}
    BY <2>1 DEF KeysInv, Saving
  <2>3. up /\ disk # NoFile
    BY <2>1 DEF KeysInv, Running
  <2> QED
    BY <2>1, <2>2, <2>3 DEF KeysInv, Restartable, TypeOK
<1>1. /\ lock' = Free /\ pc' = [pc EXCEPT ![r] = "reply"]
      /\ UNCHANGED <<up, call>>
  BY DEF Save, Decide, Goto
<1>2. CASE disk' = keys /\ keys' = keys
  BY <1>0, <1>1, <1>2
<1>3. CASE keys' = Restored(r) /\ disk' = disk
  <2>1. Restored(r) = disk
    BY <1>0 DEF Restored, KeysInv, Saving, Keys
  <2> QED
    BY <1>0, <1>1, <1>3, <2>1
<1> QED
  BY <1>2, <1>3 DEF Save

(* Every step keeps the invariant.                                           *)
LEMMA NextKeysInv ==
    ASSUME KeysInv, [Next]_vars
    PROVE  KeysInv'
<1> USE SentinelAssumption
<1>0. TypeOK /\ TypeOK'
  BY NextTypeOK DEF KeysInv
<1>1. pc \in [Request -> Phase] /\ lock \in Request \cup {Free}
  BY <1>0 DEF TypeOK
<1>2. CASE Start
  <2>1. /\ ~up /\ up' /\ keys' = disk' /\ Admins(disk') # {} /\ disk' # NoFile
        /\ UNCHANGED <<lock, call, pc, taken>>
    BY <1>2, BootstrapAssumption DEF Start, Load, Bootstrap
  <2>2. Restartable' /\ MemoryIsSaved' /\ Running'
    BY <2>1 DEF Restartable, MemoryIsSaved, Running
  <2>3. Saving'
    BY <2>1 DEF KeysInv, Running, Saving
  <2> QED
    BY <1>0, <2>2, <2>3 DEF KeysInv
<1>3. CASE Crash
  <2>1. /\ ~up' /\ lock' = Free /\ disk' = disk /\ call' = call
        /\ \A r \in Request : pc'[r] \in {"idle", "done", "lost"}
    BY <1>3 DEF Crash
  <2> QED
    BY <1>0, <2>1 DEF KeysInv, Restartable, MemoryIsSaved, Running, Saving
<1>4. ASSUME NEW r \in Request, Handle(r) PROVE KeysInv'
  <2>1. CASE Authorize(r) \/ RejectInput(r) \/ WhoAmI(r) \/ List(r) \/ Reply(r)
             \/ ((Add(r) \/ Remove(r)) /\ lock' = Free)
    <3>1. /\ UNCHANGED <<up, keys, disk, lock, call>>
          /\ pc[r] \in {"idle", "enter", "reply"}
          /\ pc'[r] \in {"enter", "reply", "done"}
          /\ \A q \in Request \ {r} : pc'[q] = pc[q] /\ taken'[q] = taken[q]
          /\ pc[r] = "idle" => up
      <4>1. CASE Authorize(r)
        BY <1>0, <1>1, <4>1 DEF Authorize, Goto, Decide, TypeOK
      <4>2. CASE RejectInput(r) \/ WhoAmI(r) \/ List(r) \/ Reply(r)
        BY <1>0, <1>1, <4>2 DEF RejectInput, WhoAmI, List, Reply, Goto, Decide, TypeOK
      <4>3. CASE (Add(r) \/ Remove(r)) /\ lock' = Free
        BY <1>0, <1>1, <4>3 DEF Add, Remove, Answered, Change, Goto, Decide, TypeOK
      <4> QED
        BY <2>1, <4>1, <4>2, <4>3
    <3>2. lock # r
      BY <3>1 DEF KeysInv, Saving
    <3>3. Restartable' /\ MemoryIsSaved' /\ Running'
      BY <3>1 DEF KeysInv, Restartable, MemoryIsSaved, Running
    <3>4. Saving'
      BY <3>1, <3>2 DEF KeysInv, Saving
    <3> QED
      BY <1>0, <3>3, <3>4 DEF KeysInv
  <2>2. CASE (Add(r) \/ Remove(r)) /\ lock' # Free
    <3>1. /\ UNCHANGED <<up, disk, call>>
          /\ lock = Free /\ lock' = r /\ pc' = [pc EXCEPT ![r] = "save"]
          /\ pc[r] = "enter"
      BY <2>2, Changing DEF Add, Remove
    <3>2. up
      BY <3>1 DEF KeysInv, Running
    <3>3. Restartable' /\ MemoryIsSaved' /\ Running'
      BY <3>1, <3>2 DEF KeysInv, Restartable, MemoryIsSaved, Running
    <3>4. Saving'
      <4>1. \A q \in Request : pc'[q] = "save" => q = r
        BY <1>1, <3>1 DEF KeysInv, Saving
      <4>2. pc'[r] = "save"
        BY <1>1, <3>1
      <4> QED
        BY <2>2, <3>1, <4>1, <4>2, Changing DEF Saving
    <3> QED
      BY <1>0, <3>3, <3>4 DEF KeysInv
  <2>3. CASE Save(r)
    <3>1. /\ keys' = disk' /\ lock' = Free /\ lock = r
          /\ disk' \in Keys /\ Admins(disk') # {}
          /\ pc' = [pc EXCEPT ![r] = "reply"]
          /\ up /\ UNCHANGED <<up, call>>
      BY <2>3, SaveEnds
    <3>2. Restartable' /\ MemoryIsSaved' /\ Running'
      BY <3>1 DEF Restartable, MemoryIsSaved, Running
    <3>3. Saving'
      BY <1>1, <3>1 DEF KeysInv, Saving
    <3> QED
      BY <1>0, <3>2, <3>3 DEF KeysInv
  <2>4. CASE Add(r) \/ Remove(r)
    BY <2>1, <2>2, <2>4
  <2>5. CASE Authorize(r) \/ RejectInput(r) \/ WhoAmI(r) \/ List(r) \/ Reply(r)
    BY <2>1, <2>5
  <2> QED
    BY <1>4, <2>3, <2>4, <2>5 DEF Handle
<1>5. CASE Terminating \/ UNCHANGED vars
  BY <1>0, <1>5 DEF Terminating, vars, KeysInv, Restartable, MemoryIsSaved, Running, Saving
<1> QED
  BY <1>2, <1>3, <1>4, <1>5 DEF Next

-----------------------------------------------------------------------------
(* The invariant of the store, from which the rest follows.                  *)
THEOREM KeysSafe == Spec => []KeysInv
<1> QED
  BY InitKeysInv, NextKeysInv, PTL DEF Spec

(* Whatever admins remove each other, whatever save fails and wherever the   *)
(* process dies, keys.json names an admin, so the server starts again        *)
(* (KeyStore.Remove, KeyStore.load).                                         *)
THEOREM AlwaysRestartable == Spec => []Restartable
<1>1. KeysInv => Restartable
  BY DEF KeysInv
<1> QED
  BY <1>1, KeysSafe, PTL

(* What the running server grants is what a restart would grant: Add and     *)
(* Remove take back what saveLocked could not save.                          *)
THEOREM MemoryAlwaysSaved == Spec => []MemoryIsSaved
<1>1. KeysInv => MemoryIsSaved
  BY DEF KeysInv
<1> QED
  BY <1>1, KeysSafe, PTL

-----------------------------------------------------------------------------
(* The file changes at the first start, or by the one key that a request     *)
(* whose save succeeds adds or removes.                                      *)
LEMMA DiskChanges ==
    ASSUME KeysInv, [Next]_vars, disk' # disk
    PROVE  \/ disk = NoFile /\ disk' \in Bootstraps /\ Admins(disk') # {}
              /\ UNCHANGED <<call, pc, answer>>
           \/ \E r \in Request :
                 /\ Save(r) /\ lock = r /\ disk' = keys
                 /\ call[r].op \in {"add", "remove"}
                 /\ disk' = [disk EXCEPT ![call[r].key] =
                               IF call[r].op = "add" THEN call[r].role ELSE "none"]
                 /\ disk[call[r].key] = "none" <=> call[r].op = "add"
<1>1. \/ disk = NoFile /\ disk' \in Bootstraps /\ Admins(disk') # {}
         /\ UNCHANGED <<call, pc, answer>>
      \/ \E r \in Request : Save(r) /\ disk' = keys
  BY DEF Next, vars, Start, Load, Bootstrap, Crash, Terminating, Handle, Authorize,
         RejectInput, WhoAmI, List, Add, Remove, Save, Reply
<1>2. ASSUME NEW r \in Request, Save(r), disk' = keys
      PROVE  /\ lock = r /\ call[r].op \in {"add", "remove"}
             /\ disk' = [disk EXCEPT ![call[r].key] =
                           IF call[r].op = "add" THEN call[r].role ELSE "none"]
             /\ disk[call[r].key] = "none" <=> call[r].op = "add"
  BY <1>2 DEF Save, KeysInv, Saving
<1> QED
  BY <1>1, <1>2

(* No failed addition, restart or bootstrap setting authorizes a key: only a *)
(* request that adds it does (KeyStore.Add, NewKeyStore).                    *)
THEOREM OnlyAdditions == Spec => OnlyAddAuthorizes
<1>1. KeysInv /\ [Next]_vars => AuthorizedByAdd
  <2> SUFFICES ASSUME KeysInv, [Next]_vars, NEW k \in Key,
                      disk # NoFile, disk[k] = "none", disk'[k] # "none"
               PROVE  \E r \in Request : /\ pc[r] = "save" /\ pc'[r] = "reply"
                                         /\ call[r].op = "add" /\ call[r].key = k
    BY DEF AuthorizedByAdd
  <2>1. PICK r \in Request :
           /\ Save(r) /\ disk' = keys
           /\ call[r].op \in {"add", "remove"}
           /\ disk' = [disk EXCEPT ![call[r].key] =
                         IF call[r].op = "add" THEN call[r].role ELSE "none"]
    BY DiskChanges
  <2>2. disk \in Keys /\ pc \in [Request -> Phase]
    BY DEF KeysInv, TypeOK
  <2> QED
    BY <2>1, <2>2 DEF Keys, Save, Decide, Goto
<1> QED
  BY <1>1, KeysSafe, PTL DEF Spec, OnlyAddAuthorizes

(* A key has one role from its addition to its removal (KeyStore.Add).       *)
THEOREM RolesKept == Spec => RoleKept
<1>1. KeysInv /\ [Next]_vars => SameRole
  <2> SUFFICES ASSUME KeysInv, [Next]_vars, NEW k \in Key,
                      disk # NoFile, disk[k] # "none", disk'[k] # "none"
               PROVE  disk'[k] = disk[k]
    BY DEF SameRole
  <2>1. disk \in Keys
    BY DEF KeysInv, TypeOK
  <2> QED
    BY <2>1, DiskChanges DEF Keys
<1> QED
  BY <1>1, KeysSafe, PTL DEF Spec, RoleKept

(* Requests are authorized by saved keys only, and lists show only those:    *)
(* readers wait while a change is being saved (KeyStore.Get, KeyStore.List). *)
THEOREM SeesOnlySavedKeys == Spec => SeesOnlySaved
<1>1. KeysInv /\ [Next]_vars => SeesSaved
  <2> SUFFICES ASSUME KeysInv, [Next]_vars, NEW r \in Request,
                      (pc[r] = "idle" /\ pc'[r] = "enter") \/ told'[r] # told[r]
               PROVE  keys = disk
    BY DEF SeesSaved
  <2>1. pc \in [Request -> Phase] /\ told \in [Request -> Keys]
    BY DEF KeysInv, TypeOK
  <2>2. PICK q \in Request : Authorize(q) \/ List(q)
    BY <2>1 DEF Next, vars, Start, Crash, Terminating, Handle, RejectInput, WhoAmI, Add,
                Remove, Save, Reply, Answered, Change, Decide, Goto
  <2>3. up /\ lock = Free
    BY <2>2 DEF Authorize, List, KeysInv, Running
  <2> QED
    BY <2>3 DEF KeysInv, MemoryIsSaved
<1> QED
  BY <1>1, KeysSafe, PTL DEF Spec, SeesOnlySaved

-----------------------------------------------------------------------------
(* A step that leaves the keys alone and takes one request from one status   *)
(* to another is a step of the registry.                                     *)
LEMMA StatusChanges ==
    ASSUME NEW r \in Request, pc \in [Request -> Phase],
           \A q \in Request \ {r} : pc'[q] = pc[q] /\ answer'[q] = answer[q]
    PROVE  [q \in Request |-> StatusOf(q)]'
           = [[q \in Request |-> StatusOf(q)] EXCEPT ![r] = StatusOf(r)']
BY DEF StatusOf

(* Every step of the store is a step of the registry, or none.               *)
LEMMA NextRegistry ==
    ASSUME KeysInv, [Next]_vars
    PROVE  [Registry!Next]_(Registry!vars)
<1> USE SentinelAssumption
<1> DEFINE status == [q \in Request |-> StatusOf(q)]
<1>0. /\ pc \in [Request -> Phase] /\ call \in Workload
      /\ answer \in [Request -> Success \cup Refused \cup {"none"}]
      /\ disk \in Keys \cup {NoFile}
  BY DEF KeysInv, TypeOK
<1>1. CASE Start
  <2>1. UNCHANGED <<call, pc, answer>>
    BY <1>1 DEF Start
  <2>2. UNCHANGED status
    BY <2>1 DEF StatusOf
  <2>3. CASE Load
    BY <2>1, <2>2, <2>3 DEF Load, Registry!vars
  <2>4. CASE Bootstrap
    <3>1. Registry!Open
      BY <2>1, <2>2, <2>4 DEF Bootstrap, Registry!Open, Registry!HasAdmin, Admins
    <3> QED
      BY <3>1 DEF Registry!Next
  <2> QED
    BY <1>1, <2>3, <2>4 DEF Start
<1>2. CASE Crash
  <2>1. status' = [q \in Request |-> IF status[q] \in Registry!InFlight THEN "lost"
                                     ELSE status[q]]
    BY <1>0, <1>2 DEF Crash, StatusOf, Registry!InFlight, Phase
  <2>2. Registry!Crash
    BY <1>2, <2>1 DEF Crash, Registry!Crash
  <2> QED
    BY <2>2 DEF Registry!Next
<1>3. ASSUME NEW r \in Request, Handle(r) PROVE [Registry!Next]_(Registry!vars)
  <2>0. call' = call
    BY <1>3 DEF Handle, Authorize, RejectInput, WhoAmI, List, Add, Remove, Save, Reply
  <2>1. status' = [status EXCEPT ![r] = StatusOf(r)']
    <3>1. \A q \in Request \ {r} : pc'[q] = pc[q] /\ answer'[q] = answer[q]
      BY <1>0, <1>3 DEF Handle, Authorize, RejectInput, WhoAmI, List, Add, Remove, Save,
                        Reply, Answered, Change, Decide, Goto
    <3> QED
      BY <1>0, <3>1, StatusChanges
  <2>2. CASE Authorize(r)
    <3>1. UNCHANGED <<disk>> /\ keys = disk /\ disk # NoFile
      BY <2>2 DEF Authorize, KeysInv, MemoryIsSaved, Running
    <3>2. status[r] = "idle"
      BY <2>2 DEF Authorize, StatusOf
    <3>3. CASE May(call[r], keys[call[r].by])
      <4>1. StatusOf(r)' = "accepted"
        BY <1>0, <2>2, <3>3 DEF Authorize, Goto, StatusOf
      <4>2. Registry!Accept(r)
        BY <2>0, <2>1, <3>1, <3>2, <3>3, <4>1 DEF May, Registry!Accept, Registry!Becomes
      <4> QED
        BY <4>2 DEF Registry!Next
    <3>4. CASE ~May(call[r], keys[call[r].by])
      <4>1. StatusOf(r)' = "refused"
        BY <1>0, <2>2, <3>4 DEF Authorize, Decide, Goto, StatusOf, Success
      <4>2. Registry!Refuse(r)
        BY <2>0, <2>1, <3>1, <3>2, <4>1 DEF Registry!Refuse, Registry!Becomes
      <4> QED
        BY <4>2 DEF Registry!Next
    <3> QED
      BY <3>3, <3>4
  <2>3. CASE RejectInput(r)
    <3>1. status[r] = "accepted" /\ StatusOf(r)' = "refused" /\ disk' = disk
      BY <1>0, <2>3 DEF RejectInput, Decide, Goto, StatusOf, Success
    <3>2. Registry!Refuse(r)
      BY <2>0, <2>1, <3>1 DEF Registry!Refuse, Registry!Becomes
    <3> QED
      BY <3>2 DEF Registry!Next
  <2>4. CASE WhoAmI(r) \/ List(r)
    <3>1. status[r] = "accepted" /\ StatusOf(r)' = "applied" /\ disk' = disk
          /\ call[r].op \in {"list", "whoami"}
      BY <1>0, <2>4 DEF WhoAmI, List, Decide, Goto, StatusOf, Success
    <3>2. disk # NoFile /\ Admins(disk) # {}
      BY <1>0, <2>4 DEF WhoAmI, List, KeysInv, Running, Restartable
    <3>3. Registry!Effect(r)
      BY <2>0, <2>1, <3>1, <3>2
         DEF Admins, Registry!Effect, Registry!Becomes, Registry!HasAdmin
    <3> QED
      BY <3>3 DEF Registry!Next
  <2>5. CASE Add(r) \/ Remove(r)
    <3>1. /\ disk' = disk /\ status[r] = "accepted"
          /\ keys = disk /\ disk # NoFile /\ Admins(disk) # {}
      BY <2>5 DEF Add, Remove, StatusOf, KeysInv, Running, MemoryIsSaved, Restartable
    <3>2. CASE pc'[r] = "save"
      <4>1. status' = status
        BY <2>1, <3>1, <3>2 DEF StatusOf
      <4> QED
        BY <2>0, <3>1, <4>1 DEF Registry!vars
    <3>3. CASE Add(r) /\ Answered(r, "exists") /\ keys[call[r].key] # "none"
      <4>1. StatusOf(r)' = "applied" /\ call[r].op = "add"
        BY <1>0, <3>3 DEF Add, Answered, Decide, Goto, StatusOf, Success
      <4>2. Registry!Effect(r)
        BY <2>0, <2>1, <3>1, <3>3, <4>1
           DEF Admins, Registry!Effect, Registry!Becomes, Registry!HasAdmin
      <4> QED
        BY <4>2 DEF Registry!Next
    <3>4. CASE Answered(r, "notFound") \/ Answered(r, "lastAdmin")
      <4>1. StatusOf(r)' = "refused"
        BY <1>0, <3>4 DEF Answered, Decide, Goto, StatusOf, Success
      <4>2. Registry!Refuse(r)
        BY <2>0, <2>1, <3>1, <4>1 DEF Registry!Refuse, Registry!Becomes
      <4> QED
        BY <4>2 DEF Registry!Next
    <3> QED
      BY <1>0, <2>5, <3>2, <3>3, <3>4 DEF Add, Remove, Change, Goto
  <2>6. CASE Save(r)
    <3>1. /\ status[r] = "accepted" /\ disk \in Keys /\ disk # NoFile
          /\ lock = r /\ Admins(keys) # {} /\ call[r].op \in {"add", "remove"}
      BY <1>0, <2>6 DEF Save, StatusOf, KeysInv, Running, Saving
    <3>2. CASE disk' = keys /\ StatusOf(r)' = "applied"
      <4>1. /\ disk' = [disk EXCEPT ![call[r].key] =
                          IF call[r].op = "add" THEN call[r].role ELSE "none"]
            /\ disk[call[r].key] = "none" <=> call[r].op = "add"
        BY <3>1, <3>2 DEF KeysInv, Saving
      <4>2. Registry!Effect(r)
        BY <2>0, <2>1, <3>1, <3>2, <4>1
           DEF Admins, Registry!Effect, Registry!Becomes, Registry!HasAdmin
      <4> QED
        BY <4>2 DEF Registry!Next
    <3>3. CASE disk' = disk /\ StatusOf(r)' = "refused"
      <4>1. Registry!Refuse(r)
        BY <2>0, <2>1, <3>1, <3>3 DEF Registry!Refuse, Registry!Becomes
      <4> QED
        BY <4>1 DEF Registry!Next
    <3> QED
      BY <1>0, <2>6, <3>2, <3>3 DEF Save, Decide, Goto, StatusOf, Success
  <2>7. CASE Reply(r)
    <3>1. /\ disk' = disk
          /\ \/ status[r] = "applied" /\ StatusOf(r)' = "ok"
             \/ status[r] = "refused" /\ StatusOf(r)' = "failed"
      BY <1>0, <2>7 DEF Reply, Goto, StatusOf
    <3>2. Registry!Respond(r)
      BY <2>0, <2>1, <3>1 DEF Registry!Respond, Registry!Becomes
    <3> QED
      BY <3>2 DEF Registry!Next
  <2> QED
    BY <1>3, <2>2, <2>3, <2>4, <2>5, <2>6, <2>7 DEF Handle
<1>4. CASE Terminating \/ UNCHANGED vars
  <2>1. UNCHANGED <<disk, call, pc, answer>>
    BY <1>4 DEF Terminating, vars
  <2> QED
    BY <2>1 DEF Registry!vars, StatusOf
<1> QED
  BY <1>1, <1>2, <1>3, <1>4 DEF Next

(* The store implements the registry: requests change it in one step each,   *)
(* and what was answered is what a restart finds.                            *)
THEOREM StoreImplementsRegistry == Spec => ImplementsRegistry
<1>1. Init => Registry!Init
  BY DEF Init, Registry!Init, StatusOf
<1> QED
  BY <1>1, KeysSafe, NextRegistry, PTL DEF Spec, ImplementsRegistry, Registry!Spec
=============================================================================
