------------------------------ MODULE KeyStore ------------------------------
(* The authorized keys of pageup-server: the KeyStore of server/keystore.go  *)
(* and the handlers of /api/keys and /api/whoami in server/server.go.        *)
(*                                                                           *)
(* The keys are held in memory, behind a RWMutex, and in the file keys.json, *)
(* which is replaced by a rename.  A change is made in memory first and then *)
(* saved; a save that fails takes it back.  The write lock is held across    *)
(* the save, so it is the state between the two that crashes, failing writes *)
(* and other requests could see.                                             *)
EXTENDS FiniteSets, Naturals

CONSTANTS
    Request,    \* signed requests
    Key,
    Workload,   \* the assignments of calls to requests to explore
    Bootstraps, \* the values of PAGEUP_BOOTSTRAP_KEYS to explore
    NoFile,     \* there is no keys.json
    Free,
    MaxFaults,  \* bound: saves that fail
    MaxCrashes  \* bound: process crashes

Role == {"admin", "upload"}
Keys == [Key -> Role \cup {"none"}]
CallRecord == [op : {"add", "remove", "list", "whoami"}, by : Key, key : Key, role : Role]

ASSUME WorkloadAssumption == Workload \subseteq [Request -> CallRecord]
ASSUME BootstrapAssumption == Bootstraps \subseteq Keys
ASSUME SentinelAssumption == NoFile \notin Keys /\ Free \notin Request
ASSUME BoundAssumption == MaxFaults \in Nat /\ MaxCrashes \in Nat

VARIABLES
    up,      \* does a process run?
    keys,    \* store.keys: the role of each key in memory
    disk,    \* keys.json: the role of each key, or NoFile
    lock,    \* store.mu: the request that holds it for writing
    call,    \* what each request asks
    pc,      \* where the handler of each request is
    answer,  \* the response a handler has decided on
    taken,   \* the role of the key that a removal has taken out of memory
    told,    \* the keys that a list or whoami reports
    faults, crashes

vars == <<up, keys, disk, lock, call, pc, answer, taken, told, faults, crashes>>

Phase == {"idle", "enter", "save", "reply", "done", "lost"}
Success == {"added", "exists", "removed", "listed"}
Refused == {"unauthorized", "invalid", "notFound", "lastAdmin", "error"}

NoKeys == [k \in Key |-> "none"]
Admins(ks) == {k \in Key : ks[k] = "admin"}

Goto(r, phase) == pc' = [pc EXCEPT ![r] = phase]
Decide(r, a) == answer' = [answer EXCEPT ![r] = a] /\ Goto(r, "reply")
Fault == faults < MaxFaults /\ faults' = faults + 1
NoFault == UNCHANGED faults

Init ==
    /\ up = FALSE /\ keys = NoKeys /\ disk = NoFile /\ lock = Free
    /\ call \in Workload
    /\ pc = [r \in Request |-> "idle"]
    /\ answer = [r \in Request |-> "none"]
    /\ taken = [r \in Request |-> "none"]
    /\ told = [r \in Request |-> NoKeys]
    /\ faults = 0 /\ crashes = 0

-----------------------------------------------------------------------------
(* The operators Bad... are mistakes that this code could contain in place of *)
(* the definition that follows them; README.md names what each would break.  *)
BadLoad == /\ disk # NoFile
           /\ \E b \in Bootstraps :
                 /\ keys' = [k \in Key |-> IF disk[k] = "none" THEN b[k] ELSE disk[k]]
                 /\ disk' = keys'

(* NewKeyStore: the file is loaded if there is one; else the configured keys *)
(* are taken, and saved.  Either must hold an admin key, or nothing starts.  *)
Load == /\ disk # NoFile /\ Admins(disk) # {}
        /\ keys' = disk
        /\ UNCHANGED disk

Bootstrap == /\ disk = NoFile
             /\ \E b \in Bootstraps : Admins(b) # {} /\ keys' = b /\ disk' = b

Start ==
    /\ ~up /\ up' = TRUE
    /\ Load \/ Bootstrap
    /\ UNCHANGED <<lock, call, pc, answer, taken, told, faults, crashes>>

BadReadLock == TRUE
ReadLock == lock = Free

(* Everything but whoami is for admin keys.                                  *)
May(c, role) == role = "admin" \/ (c.op = "whoami" /\ role # "none")

(* authorizeHash looks the key up once, under the read lock; the handler     *)
(* works with what it found.                                                 *)
Authorize(r) ==
    LET c == call[r] IN
    /\ up /\ pc[r] = "idle" /\ ReadLock
    /\ \/ /\ May(c, keys[c.by])
          /\ Goto(r, "enter")
          /\ told' = [told EXCEPT ![r] = IF c.op = "whoami"
                                        THEN [NoKeys EXCEPT ![c.by] = keys[c.by]] ELSE @]
          /\ UNCHANGED answer
       \/ /\ ~May(c, keys[c.by])
          /\ Decide(r, "unauthorized")
          /\ UNCHANGED told
    /\ UNCHANGED <<up, keys, disk, lock, call, taken, faults, crashes>>

(* The body names no key, no name or no role.                                *)
RejectInput(r) ==
    /\ pc[r] = "enter" /\ call[r].op = "add"
    /\ Decide(r, "invalid")
    /\ UNCHANGED <<up, keys, disk, lock, call, taken, told, faults, crashes>>

(* The answer is the key as authorizeHash found it.                          *)
WhoAmI(r) ==
    /\ pc[r] = "enter" /\ call[r].op = "whoami"
    /\ Decide(r, "listed")
    /\ UNCHANGED <<up, keys, disk, lock, call, taken, told, faults, crashes>>

List(r) ==
    /\ pc[r] = "enter" /\ call[r].op = "list" /\ ReadLock
    /\ told' = [told EXCEPT ![r] = keys]
    /\ Decide(r, "listed")
    /\ UNCHANGED <<up, keys, disk, lock, call, taken, faults, crashes>>

(* A change in memory, with the write lock taken and a save to follow.       *)
Change(r, role) ==
    /\ keys' = [keys EXCEPT ![call[r].key] = role]
    /\ lock' = r
    /\ Goto(r, "save")
    /\ UNCHANGED answer

Answered(r, a) == Decide(r, a) /\ UNCHANGED <<keys, lock, taken>>

(* A key that is there already is left as it is, with its role.              *)
BadAlreadyThere(c) == keys[c.key] = c.role
AlreadyThere(c) == keys[c.key] # "none"

Add(r) ==
    LET c == call[r] IN
    /\ pc[r] = "enter" /\ c.op = "add" /\ lock = Free
    /\ \/ AlreadyThere(c) /\ Answered(r, "exists")
       \/ ~AlreadyThere(c) /\ Change(r, c.role) /\ UNCHANGED taken
    /\ UNCHANGED <<up, disk, call, told, faults, crashes>>

(* adminCountLocked() <= 1 for an admin key: it is the only one.             *)
BadLastAdmin(k) == Admins(keys) = {}
LastAdmin(k) == Admins(keys) = {k}

Remove(r) ==
    LET k == call[r].key IN
    /\ pc[r] = "enter" /\ call[r].op = "remove" /\ lock = Free
    /\ \/ keys[k] = "none" /\ Answered(r, "notFound")
       \/ LastAdmin(k) /\ Answered(r, "lastAdmin")
       \/ /\ keys[k] # "none" /\ ~LastAdmin(k)
          /\ Change(r, "none") /\ taken' = [taken EXCEPT ![r] = keys[k]]
    /\ UNCHANGED <<up, disk, call, told, faults, crashes>>

(* saveLocked: the rename is its last access, so a save that fails has left  *)
(* the file alone; then the change in memory is taken back.                  *)
BadRestored(r) == keys
Restored(r) ==
    [keys EXCEPT ![call[r].key] = IF call[r].op = "add" THEN "none" ELSE taken[r]]

Save(r) ==
    /\ pc[r] = "save" /\ lock' = Free
    /\ \/ /\ disk' = keys /\ NoFault
          /\ Decide(r, IF call[r].op = "add" THEN "added" ELSE "removed")
          /\ UNCHANGED keys
       \/ /\ keys' = Restored(r) /\ Fault
          /\ Decide(r, "error")
          /\ UNCHANGED disk
    /\ UNCHANGED <<up, call, taken, told, crashes>>

Reply(r) ==
    /\ pc[r] = "reply" /\ Goto(r, "done")
    /\ UNCHANGED <<up, keys, disk, lock, call, answer, taken, told, faults, crashes>>

Crash ==
    /\ up /\ crashes < MaxCrashes /\ crashes' = crashes + 1
    /\ up' = FALSE /\ keys' = NoKeys /\ lock' = Free
    /\ pc' = [r \in Request |-> IF pc[r] \in {"idle", "done"} THEN pc[r] ELSE "lost"]
    /\ UNCHANGED <<disk, call, answer, taken, told, faults>>

-----------------------------------------------------------------------------
Handle(r) == \/ Authorize(r) \/ RejectInput(r) \/ WhoAmI(r) \/ List(r)
             \/ Add(r) \/ Remove(r) \/ Save(r) \/ Reply(r)

Terminating == /\ up /\ \A r \in Request : pc[r] \in {"done", "lost"}
               /\ UNCHANGED vars

Next == Start \/ Crash \/ Terminating \/ \E r \in Request : Handle(r)

Spec == Init /\ [][Next]_vars

-----------------------------------------------------------------------------
TypeOK ==
    /\ up \in BOOLEAN
    /\ keys \in Keys /\ disk \in Keys \cup {NoFile}
    /\ lock \in Request \cup {Free}
    /\ call \in Workload
    /\ pc \in [Request -> Phase]
    /\ answer \in [Request -> Success \cup Refused \cup {"none"}]
    /\ taken \in [Request -> Role \cup {"none"}]
    /\ told \in [Request -> Keys]
    /\ faults \in Nat /\ crashes \in Nat

(* The server can always be started again: whatever admins remove each other *)
(* and wherever it dies, keys.json names an admin.                           *)
Restartable == disk # NoFile => Admins(disk) # {}

(* What the running server grants is what a restart would grant, except      *)
(* while a change is being saved: a save that fails takes the change back.   *)
MemoryIsSaved == up /\ lock = Free => keys = disk

(* A key becomes authorized only by the request that adds it: no failed add, *)
(* no restart and no bootstrap setting brings one back after its revocation. *)
AuthorizedByAdd ==
    \A k \in Key : disk # NoFile /\ disk[k] = "none" /\ disk'[k] # "none"
        => \E r \in Request : /\ pc[r] = "save" /\ pc'[r] = "reply"
                              /\ call[r].op = "add" /\ call[r].key = k
OnlyAddAuthorizes == [][AuthorizedByAdd]_vars

(* A key has one role from its addition to its removal: adding it again with *)
(* another role does not promote it.                                         *)
SameRole == \A k \in Key : disk # NoFile /\ disk[k] # "none" /\ disk'[k] # "none"
                           => disk'[k] = disk[k]
RoleKept == [][SameRole]_vars

(* Requests are authorized by, and lists show, only keys that are saved: a   *)
(* key whose addition may still fail grants nothing.                         *)
SeesSaved == \A r \in Request :
    (pc[r] = "idle" /\ pc'[r] = "enter") \/ told'[r] # told[r] => keys = disk
SeesOnlySaved == [][SeesSaved]_vars

(* A handler in flight, or the write lock, means a process that has a file.  *)
Running ==
    /\ up => disk # NoFile
    /\ ~up => lock = Free /\ \A r \in Request : pc[r] \in {"idle", "done", "lost"}

(* What a handler that is saving has changed in memory, and only that.       *)
Saving ==
    /\ \A r \in Request : pc[r] = "save" => lock = r
    /\ \A r \in Request : lock = r =>
          LET c == call[r] IN
          /\ pc[r] = "save" /\ c.op \in {"add", "remove"}
          /\ keys = [disk EXCEPT ![c.key] = IF c.op = "add" THEN c.role ELSE "none"]
          /\ disk[c.key] = IF c.op = "add" THEN "none" ELSE taken[r]
          /\ c.op = "remove" => taken[r] # "none"
          /\ Admins(keys) # {}

(* The inductive invariant.                                                  *)
KeysInv == TypeOK /\ Restartable /\ MemoryIsSaved /\ Running /\ Saving

-----------------------------------------------------------------------------
(* The keys as KeyRegistry sees them: the registry is what is on disk.       *)
StatusOf(r) ==
    IF pc[r] \in {"idle", "lost"} THEN pc[r]
    ELSE IF pc[r] \in {"enter", "save"} THEN "accepted"
    ELSE IF pc[r] = "reply"
         THEN IF answer[r] \in Success THEN "applied" ELSE "refused"
         ELSE IF answer[r] \in Success THEN "ok" ELSE "failed"

Registry == INSTANCE KeyRegistry WITH
    Unset <- NoFile,
    registry <- disk,
    request <- call,
    status <- [r \in Request |-> StatusOf(r)]

(* Every behaviour of the store is one of the registry: a request that was   *)
(* answered with success changed the keys for good, one that was answered    *)
(* with an error did not, and there is an admin at all times.                *)
ImplementsRegistry == Registry!Spec
=============================================================================
