---------------------------- MODULE HostedFiles ----------------------------
(* The hosted-file store of pageup-server: POST, PUT and DELETE under        *)
(* /api/files/ and GET under /f/ (server/files.go), over the file system     *)
(* object store (server/storage.go, writeImmutable in server/server.go,      *)
(* writeAtomicStream in server/pages.go).                                    *)
(*                                                                           *)
(* A file is a metadata object plus one blob per revision.  A handler        *)
(* touches several objects one after the other, and only the re-read and the *)
(* rewrite of the metadata happen under the mutex server.files: every object *)
(* access is an action of its own here, so that handlers, GETs, failing      *)
(* object accesses and process crashes interleave as they do in the server.  *)
EXTENDS Naturals, FiniteSets

CONSTANTS
    Id,          \* UUIDs: the ids of files and the nonces of requests
    Request,     \* signed requests
    Reader,      \* GET requests
    Stored,      \* ids of the files on disk when the server starts
    Key, Admin,  \* authorized keys, and those with the admin role
    Name, Content,
    KeepName,    \* the name of an update whose path gives none
    Missing,     \* no metadata object
    Torn,        \* a metadata object that is created but not yet written
    NoBlob, Free,
    Preload,     \* the owners, names and contents of the Stored files to explore
    Workload,    \* the assignments of calls to requests to explore
    Asked,       \* the URLs (id and name) the GETs start from
    MaxFaults,   \* bound: object accesses that fail
    MaxCrashes,  \* bound: process crashes
    LateFaults,  \* may a write report an error after its effect is visible?
    Redeliver    \* may an unanswered request be delivered again after a crash?

(* The client chooses the nonce of a request, and useNonce refuses only one  *)
(* that the same key has used lately: requests may share a nonce, and a      *)
(* nonce may be the id of a file that exists.                                *)
CallRecord == [op : {"create", "update", "delete"}, key : Key, nonce : Id, id : Id,
               name : Name \cup {KeepName}, content : Content]

Metadata == [owner : Key, name : Name, content : Content, blob : Id, rev : Nat]

Described == [owner : Key, name : Name, content : Content]
File(d, b, n) == [owner |-> d.owner, name |-> d.name, content |-> d.content,
                  blob |-> b, rev |-> n]

ASSUME IdAssumption == Stored \subseteq Id
ASSUME PreloadAssumption == Preload \subseteq [Stored -> Described]
ASSUME WorkloadAssumption ==
    /\ Workload \subseteq [Request -> CallRecord]
    /\ \A w \in Workload, r \in Request :  \* a file takes its id from the nonce (files.go:155)
          w[r].op = "create" => w[r].id = w[r].nonce /\ w[r].name # KeepName
ASSUME AskedAssumption == Asked \subseteq [id : Id, name : Name]
ASSUME SentinelAssumption ==
    /\ Missing \notin Metadata /\ Torn \notin Metadata /\ Missing # Torn
    /\ Missing \notin [owner : Key, name : Name, content : Content, rev : Nat]
    /\ NoBlob \notin Content /\ KeepName \notin Name /\ Free \notin Request
ASSUME BoundAssumption ==
    /\ MaxFaults \in Nat /\ MaxCrashes \in Nat
    /\ LateFaults \in BOOLEAN /\ Redeliver \in BOOLEAN

VARIABLES
    meta,     \* files/<id>.json
    blobs,    \* files/<id>.<blob>.blob
    lock,     \* server.files: the request that holds it
    pc,       \* where the handler of each request is
    call,     \* what each request asks
    named,    \* an update's name, resolved before the body is spooled
    prev,     \* the metadata an update or a delete read under the lock
    answer,   \* the response a handler has decided on
    applied,  \* history: requests whose metadata change became visible,
              \* with the number of crashes before it
    rpc, ask, \* where each GET is, and the URL it asks
    rmeta,    \* the metadata a GET has read
    body,     \* the blob a GET has opened
    start,    \* the revision current when the GET began
    faults, crashes

objects == <<meta, blobs>>
handlers == <<pc, call, named, prev, answer, applied>>
readers == <<rpc, ask, rmeta, body, start>>
vars == <<objects, lock, handlers, readers, faults, crashes>>

Finished == {"idle", "done", "lost"}
Phase == Finished \cup {"check", "upload", "create", "fill", "seal", "discard", "lock",
                        "locked", "commit", "remove", "undo", "cleanup", "reply"}
Success == {"created", "updated", "unchanged", "deleted"}
Refused == {"notFound", "broken", "forbidden", "conflict", "rejected", "error"}
Waiting == {"idle", "open", "again", "reopen"}
Got == {"served", "notFound", "failed", "cut"}

Live(i) == meta[i] \notin {Missing, Torn}

-----------------------------------------------------------------------------
(* The operators Bad... are mistakes that this code could contain in place of *)
(* the definition that follows them; README.md names what each would break.  *)

(* allowFileChange: the creator's key or an admin key may change a file that *)
(* can be read.                                                              *)
BadAllowed(key, m) == m \notin {Missing, Torn}
Allowed(key, m) == /\ m \notin {Missing, Torn}
                   /\ m.owner = key \/ key \in Admin

Refusal(m) == IF m = Missing THEN "notFound"
              ELSE IF m = Torn THEN "broken" ELSE "forbidden"

Goto(r, phase) == pc' = [pc EXCEPT ![r] = phase]
Decide(r, a) == answer' = [answer EXCEPT ![r] = a]
SetMeta(i, m) == meta' = [meta EXCEPT ![i] = m]
SetBlob(i, b, c) == blobs' = [blobs EXCEPT ![<<i, b>>] = c]
Apply(r) == applied' = applied \cup {<<r, crashes>>}

(* A revision's content is stored under the nonce of the request that made   *)
(* it (fileBlobKey), not under a key of the file.                            *)
BadBlobKey(r) == call[r].id
BlobKey(r) == call[r].nonce

BadFilesFree == TRUE
FilesFree == lock = Free
BadUnlock == UNCHANGED lock
Unlock == lock' = Free

(* One object access fails.                                                  *)
Fault == faults < MaxFaults /\ faults' = faults + 1
NoFault == UNCHANGED faults

Init ==
    /\ call \in Workload
    /\ \E f \in Preload :
          /\ meta = [i \in Id |-> IF i \in Stored THEN File(f[i], i, 1) ELSE Missing]
          /\ blobs = [ib \in Id \X Id |-> IF ib[1] \in Stored /\ ib[2] = ib[1]
                                          THEN f[ib[1]].content ELSE NoBlob]
    /\ lock = Free /\ applied = {}
    /\ pc = [r \in Request |-> "idle"]
    /\ named = [r \in Request |-> KeepName]
    /\ prev = [r \in Request |-> Missing]
    /\ answer = [r \in Request |-> "none"]
    /\ rpc = [x \in Reader |-> "idle"]
    /\ ask \in [Reader -> Asked]
    /\ rmeta = [x \in Reader |-> Missing]
    /\ body = [x \in Reader |-> NoBlob]
    /\ start = [x \in Reader |-> 0]
    /\ faults = 0 /\ crashes = 0

-----------------------------------------------------------------------------
(* A handler starts once authorizeHash has accepted the request (see         *)
(* RequestAuth; a repetition that it refuses changes nothing here).  The     *)
(* nonces are in memory: a request that got no answer because the process    *)
(* died may reach the next process.                                          *)
Deliver(r) ==
    /\ pc[r] = "idle" \/ (Redeliver /\ pc[r] = "lost")
    /\ Goto(r, CASE call[r].op = "create" -> "upload"
                 [] call[r].op = "update" -> "check"
                 [] call[r].op = "delete" -> "lock")
    /\ UNCHANGED <<objects, lock, call, named, prev, answer, applied, readers,
                   faults, crashes>>

(* handleFileUpdate looks at the metadata without the lock, before it reads  *)
(* the body: it refuses, or answers that nothing changes, or settles the     *)
(* name the file will have.                                                  *)
RefuseEarly(r) ==
    LET c == call[r] IN
    /\ pc[r] = "check"
    /\ \/ ~Allowed(c.key, meta[c.id]) /\ NoFault /\ Decide(r, Refusal(meta[c.id]))
       \/ Fault /\ Decide(r, "error")
    /\ Goto(r, "reply")
    /\ UNCHANGED <<objects, lock, call, named, prev, applied, readers, crashes>>

Resolved(c, m) == IF c.name = KeepName THEN m.name ELSE c.name

AnswerUnchanged(r) ==
    LET c == call[r] IN
    /\ pc[r] = "check" /\ Allowed(c.key, meta[c.id])
    /\ c.content = meta[c.id].content
    /\ Resolved(c, meta[c.id]) = meta[c.id].name
    /\ Decide(r, "unchanged") /\ Goto(r, "reply")
    /\ UNCHANGED <<objects, lock, call, named, prev, applied, readers,
                   faults, crashes>>

ResolveName(r) ==
    LET c == call[r] IN
    /\ pc[r] = "check" /\ Allowed(c.key, meta[c.id])
    /\ \/ c.content # meta[c.id].content
       \/ Resolved(c, meta[c.id]) # meta[c.id].name
    /\ named' = [named EXCEPT ![r] = Resolved(c, meta[c.id])]
    /\ Goto(r, "upload")
    /\ UNCHANGED <<objects, lock, call, prev, answer, applied, readers,
                   faults, crashes>>

(* spoolUpload: the body is cut short, too long or not what was signed.      *)
RejectBody(r) ==
    /\ pc[r] = "upload"
    /\ Decide(r, "rejected") /\ Goto(r, "reply")
    /\ UNCHANGED <<objects, lock, call, named, prev, applied, readers,
                   faults, crashes>>

(* storeFileBlob: the whole body appears under its own key by a rename.      *)
StoreBlob(r) ==
    LET c == call[r] IN
    /\ pc[r] = "upload"
    /\ \/ /\ SetBlob(c.id, BlobKey(r), c.content) /\ NoFault
          /\ Goto(r, IF c.op = "create" THEN "create" ELSE "lock")
          /\ UNCHANGED answer
       \/ /\ Fault /\ Decide(r, "error") /\ Goto(r, "reply")
          /\ \/ UNCHANGED blobs
             \/ LateFaults /\ SetBlob(c.id, BlobKey(r), c.content)
    /\ UNCHANGED <<meta, lock, call, named, prev, applied, readers, crashes>>

-----------------------------------------------------------------------------
(* writeImmutable, as handleFileCreate uses it for the metadata: create the  *)
(* object exclusively, write it, then sync and close it.  Other requests see *)
(* what is there in between.                                                 *)
ReserveMetadata(r) ==
    LET i == call[r].id IN
    /\ pc[r] = "create"
    /\ \/ /\ meta[i] = Missing /\ SetMeta(i, Torn) /\ NoFault
          /\ Goto(r, "fill") /\ UNCHANGED answer
       \/ /\ meta[i] # Missing /\ Decide(r, "conflict") /\ NoFault
          /\ Goto(r, "undo") /\ UNCHANGED meta
       \/ /\ Fault /\ Decide(r, "error")
          /\ Goto(r, "undo") /\ UNCHANGED meta
    /\ UNCHANGED <<blobs, lock, call, named, prev, applied, readers, crashes>>

FillMetadata(r) ==
    LET c == call[r] IN
    /\ pc[r] = "fill"
    /\ \/ /\ SetMeta(c.id, File([owner |-> c.key, name |-> c.name,
                                 content |-> c.content], BlobKey(r), 1))
          /\ NoFault /\ Apply(r) /\ Goto(r, "seal") /\ UNCHANGED answer
       \/ /\ Fault /\ Decide(r, "error") /\ Goto(r, "discard")
          /\ UNCHANGED <<meta, applied>>
    /\ UNCHANGED <<blobs, lock, call, named, prev, readers, crashes>>

SealMetadata(r) ==
    /\ pc[r] = "seal"
    /\ \/ NoFault /\ Decide(r, "created") /\ Goto(r, "reply")
       \/ LateFaults /\ Fault /\ Decide(r, "error") /\ Goto(r, "discard")
    /\ UNCHANGED <<objects, lock, call, named, prev, applied, readers, crashes>>

(* The deferred os.Remove of an object that was not completed; its error is  *)
(* dropped.                                                                  *)
Discard(r) ==
    /\ pc[r] = "discard"
    /\ \/ SetMeta(call[r].id, Missing) /\ NoFault
       \/ UNCHANGED meta /\ Fault
    /\ Goto(r, "undo")
    /\ UNCHANGED <<blobs, lock, call, named, prev, answer, applied, readers, crashes>>

-----------------------------------------------------------------------------
(* Updates and deletes take server.files and read the metadata again.  A     *)
(* refusal releases the lock at once.                                        *)
Lock(r) ==
    /\ pc[r] = "lock" /\ FilesFree /\ lock' = r
    /\ Goto(r, "locked")
    /\ UNCHANGED <<objects, call, named, prev, answer, applied, readers, faults, crashes>>

CheckAgain(r) ==
    LET c == call[r] IN
    /\ pc[r] = "locked"
    /\ \/ /\ Allowed(c.key, meta[c.id]) /\ NoFault
          /\ prev' = [prev EXCEPT ![r] = meta[c.id]]
          /\ Goto(r, IF c.op = "update" THEN "commit" ELSE "remove")
          /\ UNCHANGED <<lock, answer>>
       \/ /\ \/ ~Allowed(c.key, meta[c.id]) /\ NoFault /\ Decide(r, Refusal(meta[c.id]))
             \/ Fault /\ Decide(r, "error")
          /\ Unlock
          /\ Goto(r, IF c.op = "update" THEN "undo" ELSE "reply")
          /\ UNCHANGED prev
    /\ UNCHANGED <<objects, call, named, applied, readers, crashes>>

(* The new metadata replaces the old by a rename; then the lock is released. *)
Replacement(r) ==
    File([owner |-> prev[r].owner, name |-> named[r], content |-> call[r].content],
         BlobKey(r), prev[r].rev + 1)

Commit(r) ==
    /\ pc[r] = "commit"
    /\ Unlock
    /\ \/ /\ SetMeta(call[r].id, Replacement(r)) /\ Apply(r)
          /\ \/ NoFault /\ Decide(r, "updated") /\ Goto(r, "cleanup")
             \/ LateFaults /\ Fault /\ Decide(r, "error") /\ Goto(r, "undo")
       \/ /\ Fault /\ Decide(r, "error") /\ Goto(r, "undo")
          /\ UNCHANGED <<meta, applied>>
    /\ UNCHANGED <<blobs, call, named, prev, readers, crashes>>

Remove(r) ==
    /\ pc[r] = "remove"
    /\ Unlock
    /\ \/ /\ SetMeta(call[r].id, Missing) /\ Apply(r)
          /\ NoFault /\ Decide(r, "deleted") /\ Goto(r, "cleanup")
       \/ /\ Fault /\ Decide(r, "error") /\ Goto(r, "reply")
          /\ UNCHANGED <<meta, applied>>
    /\ UNCHANGED <<blobs, call, named, prev, readers, crashes>>

(* After the lock: the blob of a change that failed, or the one that was     *)
(* replaced, is deleted.  A failure to delete it is only logged.             *)
DropBlob(r, phase, b) ==
    /\ pc[r] = phase
    /\ \/ SetBlob(call[r].id, b, NoBlob) /\ NoFault
       \/ UNCHANGED blobs /\ Fault
    /\ Goto(r, "reply")
    /\ UNCHANGED <<meta, lock, call, named, prev, answer, applied, readers, crashes>>

Undo(r) == DropBlob(r, "undo", BlobKey(r))
BadCleanup(r) == DropBlob(r, "cleanup", call[r].id)
Cleanup(r) == DropBlob(r, "cleanup", prev[r].blob)

Reply(r) ==
    /\ pc[r] = "reply"
    /\ Goto(r, "done")
    /\ UNCHANGED <<objects, lock, call, named, prev, answer, applied, readers,
                   faults, crashes>>

-----------------------------------------------------------------------------
(* handleFile.  A GET reads the metadata, redirects to the file's name, and  *)
(* opens the blob; if the blob is gone it reads the metadata again, once.    *)
BadRedirected(x, m) == ask[x]
Redirected(x, m) == [id |-> ask[x].id, name |-> m.name]

Get(x) ==
    LET m == meta[ask[x].id] IN
    /\ rpc[x] = "idle"
    /\ \/ /\ m \in {Missing, Torn}
          /\ rpc' = [rpc EXCEPT ![x] = IF m = Missing THEN "notFound" ELSE "failed"]
          /\ UNCHANGED <<ask, rmeta, start>>
       \/ /\ m \notin {Missing, Torn} /\ m.name # ask[x].name
          /\ ask' = [ask EXCEPT ![x] = Redirected(x, m)]
          /\ UNCHANGED <<rpc, rmeta, start>>
       \/ /\ m \notin {Missing, Torn} /\ m.name = ask[x].name
          /\ rmeta' = [rmeta EXCEPT ![x] = m] /\ start' = [start EXCEPT ![x] = m.rev]
          /\ rpc' = [rpc EXCEPT ![x] = "open"]
          /\ UNCHANGED ask
    /\ UNCHANGED <<objects, lock, handlers, body, faults, crashes>>

Open(x) ==
    LET b == blobs[<<ask[x].id, rmeta[x].blob>>] IN
    /\ rpc[x] \in {"open", "reopen"}
    /\ body' = [body EXCEPT ![x] = b]
    /\ rpc' = [rpc EXCEPT ![x] = IF b # NoBlob THEN "served"
                                 ELSE IF @ = "open" THEN "again" ELSE "notFound"]
    /\ UNCHANGED <<objects, lock, handlers, ask, rmeta, start, faults, crashes>>

BadReadAgain(x) ==
    /\ rpc[x] = "again"
    /\ rpc' = [rpc EXCEPT ![x] = IF meta[ask[x].id] = Missing THEN "notFound"
                                 ELSE IF meta[ask[x].id] = Torn THEN "failed" ELSE "reopen"]
    /\ UNCHANGED <<objects, lock, handlers, ask, rmeta, body, start, faults, crashes>>

ReadAgain(x) ==
    LET m == meta[ask[x].id] IN
    /\ rpc[x] = "again"
    /\ rmeta' = [rmeta EXCEPT ![x] = IF m \in {Missing, Torn} THEN @ ELSE m]
    /\ rpc' = [rpc EXCEPT ![x] = IF m = Missing THEN "notFound"
                                 ELSE IF m = Torn THEN "failed" ELSE "reopen"]
    /\ UNCHANGED <<objects, lock, handlers, ask, body, start, faults, crashes>>

FailGet(x) ==
    /\ rpc[x] \in Waiting /\ Fault
    /\ rpc' = [rpc EXCEPT ![x] = "failed"]
    /\ UNCHANGED <<objects, lock, handlers, ask, rmeta, body, start, crashes>>

(* The process dies: what is on disk stays, what is in memory is gone, and   *)
(* the requests in flight get no answer.                                     *)
Crash ==
    /\ crashes < MaxCrashes /\ crashes' = crashes + 1
    /\ lock' = Free
    /\ pc' = [r \in Request |-> IF pc[r] \in Finished THEN pc[r] ELSE "lost"]
    /\ rpc' = [x \in Reader |-> IF rpc[x] \in Waiting THEN "cut" ELSE rpc[x]]
    /\ UNCHANGED <<objects, call, named, prev, answer, applied, ask, rmeta, body,
                   start, faults>>

-----------------------------------------------------------------------------
Handle(r) ==
    \/ RefuseEarly(r) \/ AnswerUnchanged(r) \/ ResolveName(r)
    \/ RejectBody(r) \/ StoreBlob(r)
    \/ ReserveMetadata(r) \/ FillMetadata(r) \/ SealMetadata(r) \/ Discard(r)
    \/ Lock(r) \/ CheckAgain(r) \/ Commit(r) \/ Remove(r)
    \/ Undo(r) \/ Cleanup(r) \/ Reply(r)

Read(x) == Get(x) \/ Open(x) \/ ReadAgain(x) \/ FailGet(x)

(* Everything asked has been dealt with: nothing more happens.               *)
Terminating == /\ \A r \in Request : pc[r] \in Finished \ {"idle"}
               /\ \A x \in Reader : rpc[x] \in Got
               /\ UNCHANGED vars

Next == \/ \E r \in Request : Deliver(r) \/ Handle(r)
        \/ \E x \in Reader : Read(x)
        \/ Crash
        \/ Terminating

Spec == Init /\ [][Next]_vars

(* The Go scheduler runs every handler that can take a step, and a sync.Mutex*)
(* is not withheld for ever from a waiter that finitely many others contend  *)
(* with: weak fairness of each handler.  Nothing makes a request arrive.     *)
FairSpec == /\ Spec
            /\ \A r \in Request : WF_vars(Handle(r))
            /\ \A x \in Reader : WF_vars(Read(x))

-----------------------------------------------------------------------------
TypeOK ==
    /\ meta \in [Id -> Metadata \cup {Missing, Torn}]
    /\ blobs \in [Id \X Id -> Content \cup {NoBlob}]
    /\ lock \in Request \cup {Free}
    /\ pc \in [Request -> Phase]
    /\ call \in Workload
    /\ named \in [Request -> Name \cup {KeepName}]
    /\ prev \in [Request -> Metadata \cup {Missing}]
    /\ answer \in [Request -> Success \cup Refused \cup {"none"}]
    /\ applied \subseteq Request \X Nat
    /\ rpc \in [Reader -> Waiting \cup Got]
    /\ ask \in [Reader -> [id : Id, name : Name]]
    /\ rmeta \in [Reader -> Metadata \cup {Missing}]
    /\ body \in [Reader -> Content \cup {NoBlob}]
    /\ start \in [Reader -> Nat]
    /\ faults \in Nat /\ crashes \in Nat

(* What a handler and a GET have in hand in each phase: the kind of call, a  *)
(* resolved name, the metadata they read.                                    *)
PhaseOK ==
    /\ \A r \in Request :
          /\ pc[r] \in {"create", "fill", "seal", "discard"} => call[r].op = "create"
          /\ pc[r] \in {"check", "commit"} => call[r].op = "update"
          /\ pc[r] \in {"upload", "undo"} => call[r].op # "delete"
          /\ pc[r] \in {"lock", "locked"} => call[r].op # "create"
          /\ pc[r] = "remove" => call[r].op = "delete"
          /\ pc[r] \in {"upload", "lock", "locked", "commit"} /\ call[r].op = "update"
             => named[r] \in Name
          /\ pc[r] \in {"commit", "remove", "cleanup"} => prev[r] # Missing
    /\ \A x \in Reader : rpc[x] \in {"open", "again", "reopen"} => rmeta[x] # Missing

(* The case in which the blobs of a file have one writer each: the requests  *)
(* that store content for it carry different nonces, and none carries the id *)
(* of a file that was there before.  Clients that draw their nonces as UUIDs *)
(* keep to it; the server does not make them.                                *)
Writers(i) == {r \in Request : call[r].op # "delete" /\ call[r].id = i}

NoncesDiffer(i) ==
    /\ \A q, r \in Writers(i) : call[q].nonce = call[r].nonce => q = r
    /\ i \in Stored => \A r \in Writers(i) : call[r].nonce # i

(* A file that has metadata has its content: no handler that loses a race,   *)
(* is refused, fails or dies ever deletes, and no one ever overwrites, the   *)
(* blob that the current revision names, if its writers' nonces differ.      *)
LiveBlob ==
    \A i \in Id : NoncesDiffer(i) /\ Live(i) => blobs[<<i, meta[i].blob>>] = meta[i].content

(* README.md:91, "The creator key or an admin can update or delete a file":  *)
(* a request of another key leaves every file its content, whatever nonce it *)
(* carries.                                                                  *)
ContentKept ==
    [][\A r \in Request, i \in Id :
          (pc'[r] # pc[r] /\ Live(i) /\ ~Allowed(call[r].key, meta[i]))
          => blobs'[<<i, meta[i].blob>>] = blobs[<<i, meta[i].blob>>]]_vars

(* When no request is in flight and nothing has failed, no blob is left on   *)
(* disk that its file does not name: every losing, refused or replaced       *)
(* upload was deleted by the handler responsible for it, also where requests *)
(* share a nonce.                                                            *)
NoOrphanBlobs ==
    (faults = 0 /\ crashes = 0 /\ \A r \in Request : pc[r] \in {"idle", "done"})
    => \A i, b \in Id : blobs[<<i, b>>] # NoBlob => Live(i) /\ meta[i].blob = b

(* No update is lost: the revision of a file is one more than the number of  *)
(* updates of it that took effect, whatever they raced with, unless the file *)
(* was taken away and created again.                                         *)
Creations(i) == {e \in applied : call[e[1]].op = "create" /\ call[e[1]].id = i}
Updates(i) == {e \in applied : call[e[1]].op = "update" /\ call[e[1]].id = i}
CreatedOnce(i) == IF i \in Stored THEN Creations(i) = {} ELSE Cardinality(Creations(i)) <= 1

RevisionCountsUpdates ==
    \A i \in Id : Live(i) /\ CreatedOnce(i) => meta[i].rev = 1 + Cardinality(Updates(i))

(* A file that is not there comes into being only through a create of it: an *)
(* update that was already past its first check cannot bring a deleted file  *)
(* back.                                                                     *)
OnlyCreateMakesAFile ==
    [][\A i \in Id : (meta[i] = Missing /\ meta'[i] # Missing)
                     => \E r \in Request : /\ call[r].op = "create" /\ call[r].id = i
                                          /\ pc[r] = "create" /\ pc'[r] = "fill"]_vars

(* What a GET serves is the content that the metadata it sends along (ETag,  *)
(* length, type) describes, although it reads the two one after the other,   *)
(* if the nonces of the file's writers differ.                               *)
GetConsistent ==
    \A x \in Reader :
        rpc[x] = "served" /\ NoncesDiffer(ask[x].id) => body[x] = rmeta[x].content

(* A GET answers "not found" for a file that is there only if the file was   *)
(* updated at least twice since the GET first read its metadata: the second  *)
(* read (files.go:305) makes up for one update.                              *)
NotFoundOnlyIfReplaced ==
    [][\A x \in Reader : (/\ rpc[x] \in {"again", "reopen"} /\ rpc'[x] = "notFound"
                          /\ NoncesDiffer(ask[x].id))
          => \/ ~Live(ask[x].id)
             \/ meta[ask[x].id].rev >= start[x] + 2]_vars

(* README.md:91: an update keeps the file name unless it gives one.          *)
KeepsName ==
    [][\A r \in Request :
          (pc[r] = "commit" /\ pc'[r] = "cleanup" /\ call[r].name = KeepName)
          => meta'[call[r].id].name = meta[call[r].id].name]_vars

(* Every request the server starts on is answered unless the process dies,   *)
(* and every GET ends: no handler waits for ever for server.files, and the   *)
(* redirects and the second read of a GET do not go on for ever.             *)
EveryRequestEnds ==
    \A r \in Request : pc[r] \notin Finished ~> pc[r] \in {"done", "lost"}
EveryGetEnds == \A x \in Reader : rpc[x] \in Waiting ~> rpc[x] \in Got

-----------------------------------------------------------------------------
(* Why LiveBlob holds.  A blob key that one request writes is written before *)
(* that request's metadata change and never after it: the key is settled.  A *)
(* blob is deleted only by the request that wrote it and did not get that    *)
(* far, or by the one that, under the lock, replaced it.                     *)
Past == {"seal", "cleanup", "reply", "done", "lost"}
Settled(i, b) == \A r \in Writers(i) : call[r].nonce = b => pc[r] \in Past

Uploaded ==
    \A r \in Request :
        /\ \/ pc[r] \in {"create", "fill", "commit"}
           \/ pc[r] \in {"lock", "locked"} /\ call[r].op = "update"
        /\ NoncesDiffer(call[r].id)
        => blobs[<<call[r].id, call[r].nonce>>] = call[r].content

LiveBlobSettled ==
    \A i \in Id : NoncesDiffer(i) /\ Live(i) => Settled(i, meta[i].blob)

(* A metadata object that is not yet written belongs to one create.          *)
TornIsOurs ==
    \A r \in Request : pc[r] \in {"fill", "discard"} =>
        /\ meta[call[r].id] = Torn
        /\ \A q \in Request \ {r} :
              pc[q] \in {"fill", "discard"} => call[q].id # call[r].id

HoldsLock ==
    \A r \in Request :
        /\ pc[r] \in {"locked", "commit", "remove"} => lock = r
        /\ pc[r] \in {"commit", "remove"} =>
              Live(call[r].id) /\ prev[r] = meta[call[r].id]

ReplacedBlob ==
    \A r \in Request : pc[r] = "cleanup" /\ NoncesDiffer(call[r].id) =>
        /\ Settled(call[r].id, prev[r].blob)
        /\ Live(call[r].id) => meta[call[r].id].blob # prev[r].blob

(* The inductive invariant: with writes that fail before they are visible    *)
(* and no request delivered twice, no live content is lost of a file whose   *)
(* writers carry different nonces.                                           *)
SafeContent == /\ TypeOK /\ PhaseOK /\ LiveBlob /\ LiveBlobSettled
               /\ Uploaded /\ TornIsOurs /\ HoldsLock /\ ReplacedBlob

(* Why GetConsistent holds: the blob that a GET is about to open is gone or  *)
(* has the content that its metadata names; its key is never written again.  *)
ReadsSettled ==
    \A x \in Reader : rpc[x] \in {"open", "again", "reopen"} /\ NoncesDiffer(ask[x].id) =>
        /\ Settled(ask[x].id, rmeta[x].blob)
        /\ blobs[<<ask[x].id, rmeta[x].blob>>] \in {NoBlob, rmeta[x].content}

(* Why ImplementsService holds: a handler has decided nothing until its      *)
(* change is visible or given up, and it changes a file only for a key that  *)
(* may, which the metadata it read under the lock still says.                *)
Applied(r) == \E e \in applied : e[1] = r

OutcomeOK(r) ==
    /\ pc[r] \in {"idle", "check", "upload", "create", "fill", "lock", "locked",
                  "commit", "remove"}
       => answer[r] = "none" /\ ~Applied(r)
    /\ pc[r] = "seal" => answer[r] = "none" /\ Applied(r)
    /\ pc[r] = "cleanup" => answer[r] \in Success
    /\ pc[r] \in {"discard", "undo"} => answer[r] \in Refused /\ ~Applied(r)
    /\ pc[r] \in {"reply", "done"}
       => answer[r] \in Success \/ (answer[r] \in Refused /\ ~Applied(r))
    /\ pc[r] \in {"commit", "remove"} => Allowed(call[r].key, prev[r])

Outcomes == \A r \in Request : OutcomeOK(r)

(* Why a GET that finds no blob twice has been overtaken twice: an id is     *)
(* given once, so while its file lives the revisions only go up, and two     *)
(* descriptions with the same revision are the same.                         *)
Given(i) == \A r \in Request : call[r].op = "create" /\ call[r].id = i => pc[r] \in Past

IdSettled == \A i \in Id : NoncesDiffer(i) /\ Live(i) => Given(i)

ReadsOrdered ==
    \A x \in Reader : rpc[x] \in {"open", "again", "reopen"} /\ NoncesDiffer(ask[x].id) =>
        LET m == meta[ask[x].id] IN
        /\ Given(ask[x].id)
        /\ Live(ask[x].id) => /\ rmeta[x].rev <= m.rev
                              /\ rmeta[x].rev = m.rev => rmeta[x] = m
        /\ rpc[x] \in {"open", "again"} => rmeta[x].rev = start[x]
        /\ rpc[x] = "again" /\ Live(ask[x].id) => start[x] < m.rev
        /\ rpc[x] = "reopen" => start[x] < rmeta[x].rev

(* Why NoOrphanBlobs holds: while nothing fails, every blob is named by its  *)
(* file, or is in the hands of the handler that stored it, or of the one     *)
(* that replaced or removed what it belonged to.                             *)
BlobsHaveOwners ==
    faults = 0 /\ crashes = 0 =>
        \A i, b \in Id : blobs[<<i, b>>] # NoBlob =>
            \/ Live(i) /\ meta[i].blob = b
            \/ \E r \in Request :
                  /\ pc[r] \in {"create", "fill", "lock", "locked", "commit", "undo"}
                  /\ call[r].op # "delete" /\ call[r].id = i /\ call[r].nonce = b
            \/ \E r \in Request : pc[r] = "cleanup" /\ call[r].id = i /\ prev[r].blob = b

(* Why RevisionCountsUpdates holds: a request takes effect once in the life  *)
(* of a process, an update only on a file that was there, and the revision   *)
(* that it goes by is the last one, since the lock keeps other updates away. *)
RevisionsCounted ==
    /\ IsFiniteSet(applied)
    /\ \A e \in applied : e[2] <= crashes
    /\ \A r \in Request :
          /\ <<r, crashes>> \in applied
             => pc[r] \in {"seal", "discard", "cleanup", "undo", "reply", "done"}
          /\ pc[r] \in {"locked", "commit", "remove"} => lock = r
          /\ pc[r] = "commit" =>
                /\ call[r].id \in Stored \/ Creations(call[r].id) # {}
                /\ CreatedOnce(call[r].id)
                   => prev[r].rev = 1 + Cardinality(Updates(call[r].id))
    /\ \A i \in Id :
          /\ i \notin Stored /\ Creations(i) = {} => ~Live(i) /\ Updates(i) = {}
          /\ Live(i) /\ CreatedOnce(i) => meta[i].rev = 1 + Cardinality(Updates(i))

-----------------------------------------------------------------------------
(* The hosted files as FileService sees them: a file is its metadata with    *)
(* the content that is in the blob store under the key the metadata names.   *)
(* Of a file whose writers share a nonce only the metadata is promised.      *)
VersionOf(m, c) == [owner |-> m.owner, name |-> m.name, content |-> c, rev |-> m.rev]

FileOf(i) ==
    VersionOf(meta[i], IF NoncesDiffer(i) THEN blobs[<<i, meta[i].blob>>]
                       ELSE meta[i].content)

StatusOf(r) ==
    IF pc[r] \in {"idle", "lost"} THEN pc[r]
    ELSE IF pc[r] = "done" THEN IF answer[r] \in Success THEN "ok" ELSE "failed"
    ELSE IF answer[r] \in Success \/ \E e \in applied : e[1] = r THEN "applied"
    ELSE IF answer[r] \in Refused THEN "refused" ELSE "pending"

GotOf(x) ==
    IF rpc[x] \in Waiting THEN "none"
    ELSE IF rpc[x] = "cut" \/ (rpc[x] = "notFound" /\ ~NoncesDiffer(ask[x].id))
    THEN "failed" ELSE rpc[x]

SentOf(x) ==
    IF rpc[x] # "served" THEN Missing
    ELSE VersionOf(rmeta[x], IF NoncesDiffer(ask[x].id) THEN body[x] ELSE rmeta[x].content)

Service == INSTANCE FileService WITH
    Absent <- Missing,
    files <- [i \in Id |-> IF Live(i) THEN FileOf(i) ELSE Missing],
    request <- call,
    status <- [r \in Request |-> StatusOf(r)],
    chosen <- named,
    wanted <- [x \in Reader |-> ask[x].id],
    seen <- [x \in Reader |-> IF rmeta[x] = Missing THEN Missing
                              ELSE VersionOf(rmeta[x], rmeta[x].content)],
    got <- [x \in Reader |-> GotOf(x)],
    sent <- [x \in Reader |-> SentOf(x)]

(* Every behaviour of the handlers is one of the service: each request takes *)
(* effect in one step, once if it is answered with success and not at all if *)
(* it is answered with an error, and GETs serve what was there.              *)
ImplementsService == Service!Spec

=============================================================================
