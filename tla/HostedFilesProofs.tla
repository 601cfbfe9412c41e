------------------------- MODULE HostedFilesProofs -------------------------
(* Theorems about HostedFiles, for any number of requests, readers, files,   *)
(* keys, names and contents, and any bounds.                                 *)
EXTENDS HostedFiles, TLAPS, FiniteSetTheorems

USE DEF BlobKey, FilesFree, Unlock, Redirected

TypeInv == TypeOK /\ PhaseOK

(* What each request asks, in each workload that is explored.                *)
LEMMA CallType ==
    ASSUME NEW w \in Workload, NEW r \in Request
    PROVE  /\ w[r] \in CallRecord
           /\ w[r].op = "create" => w[r].id = w[r].nonce /\ w[r].name # KeepName
  BY WorkloadAssumption

(* A revision of a described file is a metadata record.                      *)
LEMMA FileType ==
    ASSUME NEW d \in Described, NEW b \in Id, NEW n \in Nat
    PROVE  File(d, b, n) \in Metadata
  BY DEF File, Described, Metadata

(* A revision has the content it was described with and names its blob.      *)
LEMMA FileFields ==
    ASSUME NEW d, NEW b, NEW n
    PROVE  File(d, b, n).content = d.content /\ File(d, b, n).blob = b
  BY DEF File

-----------------------------------------------------------------------------
(* Every variable keeps its type: the phases, the objects and the counters   *)
(* of the handlers of files.go.                                              *)
LEMMA InitTypeInv == Init => TypeInv
  <1> SUFFICES ASSUME Init PROVE TypeInv
    OBVIOUS
  <1>2. PICK f \in Preload :
          /\ meta = [i \in Id |-> IF i \in Stored THEN File(f[i], i, 1) ELSE Missing]
          /\ blobs = [ib \in Id \X Id |-> IF ib[1] \in Stored /\ ib[2] = ib[1]
                                          THEN f[ib[1]].content ELSE NoBlob]
    BY DEF Init
  <1>3. f \in [Stored -> Described]
    BY PreloadAssumption
  <1>4. meta \in [Id -> Metadata \cup {Missing, Torn}]
    BY <1>2, <1>3, FileType, IdAssumption
  <1>5. blobs \in [Id \X Id -> Content \cup {NoBlob}]
    BY <1>2, <1>3 DEF Described
  <1>6. ask \in [Reader -> [id : Id, name : Name]]
    BY AskedAssumption DEF Init
  <1>7. TypeOK
    BY <1>4, <1>5, <1>6 DEF Init, TypeOK, Phase, Finished, Waiting
  <1>8. PhaseOK
    BY DEF Init, PhaseOK
  <1> QED
    BY <1>7, <1>8 DEF TypeInv

(* Every step of the handlers, the GETs and the crashes keeps the types.     *)
LEMMA NextTypeInv == TypeInv /\ [Next]_vars => TypeInv'
  <1> SUFFICES ASSUME TypeOK, PhaseOK, [Next]_vars PROVE TypeInv'
    BY DEF TypeInv
  <1> USE DEF TypeInv, TypeOK, Goto, Decide, Fault, NoFault, objects, handlers, readers
  <1>1. ASSUME NEW r \in Request, Deliver(r) PROVE TypeInv'
    <2> USE <1>1
    <2>1. call[r].op \in {"create", "update", "delete"}
      BY CallType DEF CallRecord
    <2>2. pc' \in [Request -> Phase]
      BY <2>1 DEF Deliver, Phase
    <2>3. TypeOK'
      BY <2>1, <2>2 DEF Deliver
    <2>4. PhaseOK'
      BY CallType DEF PhaseOK, Deliver, CallRecord, Finished
    <2> QED
      BY <2>3, <2>4
  <1>2. ASSUME NEW r \in Request, RefuseEarly(r) PROVE TypeInv'
    <2> USE <1>2
    <2>1. pc' \in [Request -> Phase]
      BY DEF RefuseEarly, Phase
    <2>2. answer' \in [Request -> Success \cup Refused \cup {"none"}]
      BY DEF RefuseEarly, Refusal, Refused
    <2>3. TypeOK'
      BY <2>1, <2>2 DEF RefuseEarly
    <2>4. PhaseOK'
      BY DEF PhaseOK, RefuseEarly
    <2> QED
      BY <2>3, <2>4
  <1>3. ASSUME NEW r \in Request, AnswerUnchanged(r) PROVE TypeInv'
    <2> USE <1>3
    <2>1. pc' \in [Request -> Phase]
      BY DEF AnswerUnchanged, Phase
    <2>2. answer' \in [Request -> Success \cup Refused \cup {"none"}]
      BY DEF AnswerUnchanged, Success
    <2>3. TypeOK'
      BY <2>1, <2>2 DEF AnswerUnchanged
    <2>4. PhaseOK'
      BY DEF PhaseOK, AnswerUnchanged
    <2> QED
      BY <2>3, <2>4
  <1>4. ASSUME NEW r \in Request, ResolveName(r) PROVE TypeInv'
    <2> USE <1>4
    <2>1. Resolved(call[r], meta[call[r].id]) \in Name
      BY CallType DEF ResolveName, Resolved, Allowed, CallRecord, Metadata
    <2>2. pc' \in [Request -> Phase]
      BY DEF ResolveName, Phase
    <2>3. named' \in [Request -> Name \cup {KeepName}]
      BY <2>1 DEF ResolveName
    <2>4. TypeOK'
      BY <2>1, <2>2, <2>3 DEF ResolveName
    <2>5. PhaseOK'
      BY <2>1 DEF PhaseOK, ResolveName
    <2> QED
      BY <2>4, <2>5
  <1>5. ASSUME NEW r \in Request, RejectBody(r) PROVE TypeInv'
    <2> USE <1>5
    <2>1. pc' \in [Request -> Phase]
      BY DEF RejectBody, Phase
    <2>2. answer' \in [Request -> Success \cup Refused \cup {"none"}]
      BY DEF RejectBody, Refused
    <2>3. TypeOK'
      BY <2>1, <2>2 DEF RejectBody
    <2>4. PhaseOK'
      BY DEF PhaseOK, RejectBody
    <2> QED
      BY <2>3, <2>4
  <1>6. ASSUME NEW r \in Request, StoreBlob(r) PROVE TypeInv'
    <2> USE <1>6
    <2>1. pc' \in [Request -> Phase]
      BY DEF StoreBlob, Phase
    <2>2. answer' \in [Request -> Success \cup Refused \cup {"none"}]
      BY DEF StoreBlob, Refused
    <2>3. <<call[r].id, call[r].nonce>> \in Id \X Id /\ call[r].content \in Content
      BY CallType DEF CallRecord
    <2>4. blobs' \in [Id \X Id -> Content \cup {NoBlob}]
      BY <2>3 DEF StoreBlob, SetBlob
    <2>5. TypeOK'
      BY <2>1, <2>2, <2>3, <2>4 DEF StoreBlob
    <2>6. PhaseOK'
      BY CallType DEF PhaseOK, StoreBlob, CallRecord
    <2> QED
      BY <2>5, <2>6
  <1>7. ASSUME NEW r \in Request, ReserveMetadata(r) PROVE TypeInv'
    <2> USE <1>7
    <2>1. pc' \in [Request -> Phase]
      BY DEF ReserveMetadata, Phase
    <2>2. answer' \in [Request -> Success \cup Refused \cup {"none"}]
      BY DEF ReserveMetadata, Refused
    <2>3. meta' \in [Id -> Metadata \cup {Missing, Torn}]
      BY DEF ReserveMetadata, SetMeta
    <2>4. TypeOK'
      BY <2>1, <2>2, <2>3 DEF ReserveMetadata
    <2>5. PhaseOK'
      BY DEF PhaseOK, ReserveMetadata
    <2> QED
      BY <2>4, <2>5
  <1>8. ASSUME NEW r \in Request, FillMetadata(r) PROVE TypeInv'
    <2> USE <1>8
    <2>1. pc' \in [Request -> Phase]
      BY DEF FillMetadata, Phase
    <2>2. answer' \in [Request -> Success \cup Refused \cup {"none"}]
      BY DEF FillMetadata, Refused
    <2>3. [owner |-> call[r].key, name |-> call[r].name, content |-> call[r].content] \in Described
      BY CallType DEF PhaseOK, FillMetadata, CallRecord, Described
    <2>4. File([owner |-> call[r].key, name |-> call[r].name, content |-> call[r].content],
              call[r].nonce, 1) \in Metadata
      BY <2>3, CallType, FileType DEF PhaseOK, CallRecord
    <2>5. meta' \in [Id -> Metadata \cup {Missing, Torn}]
      BY <2>4 DEF PhaseOK, FillMetadata, SetMeta
    <2>6. applied' \subseteq Request \X Nat
      BY DEF FillMetadata, Apply
    <2>7. TypeOK'
      BY <2>1, <2>2, <2>3, <2>4, <2>5, <2>6 DEF FillMetadata
    <2>8. PhaseOK'
      BY DEF PhaseOK, FillMetadata
    <2> QED
      BY <2>7, <2>8
  <1>9. ASSUME NEW r \in Request, SealMetadata(r) PROVE TypeInv'
    <2> USE <1>9
    <2>1. pc' \in [Request -> Phase]
      BY DEF SealMetadata, Phase
    <2>2. answer' \in [Request -> Success \cup Refused \cup {"none"}]
      BY DEF SealMetadata, Refused, Success
    <2>3. TypeOK'
      BY <2>1, <2>2 DEF SealMetadata
    <2>4. PhaseOK'
      BY DEF PhaseOK, SealMetadata
    <2> QED
      BY <2>3, <2>4
  <1>10. ASSUME NEW r \in Request, Lock(r) PROVE TypeInv'
    <2> USE <1>10
    <2>1. pc' \in [Request -> Phase]
      BY DEF Lock, Phase
    <2>2. TypeOK'
      BY <2>1 DEF Lock
    <2>3. PhaseOK'
      BY DEF PhaseOK, Lock
    <2> QED
      BY <2>2, <2>3
  <1>22. ASSUME NEW r \in Request, CheckAgain(r) PROVE TypeInv'
    <2> USE <1>22
    <2>1. pc' \in [Request -> Phase]
      BY DEF CheckAgain, Phase
    <2>2. answer' \in [Request -> Success \cup Refused \cup {"none"}]
      BY DEF CheckAgain, Refusal, Refused
    <2>3. call[r] \in CallRecord
      BY CallType
    <2>4. prev' \in [Request -> Metadata \cup {Missing}]
      BY <2>3 DEF CheckAgain, Allowed, CallRecord
    <2>5. TypeOK'
      BY <2>1, <2>2, <2>3, <2>4 DEF CheckAgain
    <2>6. PhaseOK'
      BY <2>3, SentinelAssumption DEF PhaseOK, CheckAgain, Allowed, CallRecord
    <2> QED
      BY <2>5, <2>6
  <1>23. ASSUME NEW r \in Request, Discard(r) PROVE TypeInv'
    <2> USE <1>23
    <2>1. pc' \in [Request -> Phase]
      BY DEF Discard, Phase
    <2>2. meta' \in [Id -> Metadata \cup {Missing, Torn}]
      BY DEF Discard, SetMeta
    <2>3. TypeOK'
      BY <2>1, <2>2 DEF Discard
    <2>4. PhaseOK'
      BY DEF PhaseOK, Discard
    <2> QED
      BY <2>3, <2>4
  <1>11. ASSUME NEW r \in Request, Commit(r) PROVE TypeInv'
    <2> USE <1>11
    <2>1. pc' \in [Request -> Phase]
      BY DEF Commit, Phase
    <2>2. answer' \in [Request -> Success \cup Refused \cup {"none"}]
      BY DEF Commit, Refused, Success
    <2>3. [owner |-> prev[r].owner, name |-> named[r], content |-> call[r].content] \in Described
      BY CallType DEF PhaseOK, Commit, CallRecord, Described, Metadata
    <2>4. Replacement(r) \in Metadata
      <3>1. call[r].nonce \in Id /\ prev[r].rev + 1 \in Nat
        BY CallType DEF PhaseOK, Commit, Metadata, CallRecord
      <3> QED
        BY <2>3, <3>1, FileType DEF Replacement
    <2>5. meta' \in [Id -> Metadata \cup {Missing, Torn}]
      BY <2>4 DEF PhaseOK, Commit, SetMeta
    <2>6. applied' \subseteq Request \X Nat
      BY DEF Commit, Apply
    <2>7. TypeOK'
      BY <2>1, <2>2, <2>3, <2>4, <2>5, <2>6 DEF Commit
    <2>8. PhaseOK'
      BY DEF PhaseOK, Commit
    <2> QED
      BY <2>7, <2>8
  <1>12. ASSUME NEW r \in Request, Remove(r) PROVE TypeInv'
    <2> USE <1>12
    <2>1. pc' \in [Request -> Phase]
      BY DEF Remove, Phase
    <2>2. answer' \in [Request -> Success \cup Refused \cup {"none"}]
      BY DEF Remove, Refused, Success
    <2>3. meta' \in [Id -> Metadata \cup {Missing, Torn}]
      BY DEF Remove, SetMeta
    <2>4. applied' \subseteq Request \X Nat
      BY DEF Remove, Apply
    <2>5. TypeOK'
      BY <2>1, <2>2, <2>3, <2>4 DEF Remove
    <2>6. PhaseOK'
      BY DEF PhaseOK, Remove
    <2> QED
      BY <2>5, <2>6
  <1>13. ASSUME NEW r \in Request, Undo(r) PROVE TypeInv'
    <2> USE <1>13
    <2>1. pc' \in [Request -> Phase]
      BY DEF Undo, DropBlob, Phase
    <2>2. blobs' \in [Id \X Id -> Content \cup {NoBlob}]
      BY DEF Undo, DropBlob, SetBlob
    <2>3. TypeOK'
      BY <2>1, <2>2 DEF Undo, DropBlob
    <2>4. PhaseOK'
      BY DEF PhaseOK, Undo, DropBlob
    <2> QED
      BY <2>3, <2>4
  <1>14. ASSUME NEW r \in Request, Cleanup(r) PROVE TypeInv'
    <2> USE <1>14
    <2>1. pc' \in [Request -> Phase]
      BY DEF Cleanup, DropBlob, Phase
    <2>2. blobs' \in [Id \X Id -> Content \cup {NoBlob}]
      BY DEF PhaseOK, Cleanup, DropBlob, SetBlob
    <2>3. TypeOK'
      BY <2>1, <2>2 DEF Cleanup, DropBlob
    <2>4. PhaseOK'
      BY DEF PhaseOK, Cleanup, DropBlob
    <2> QED
      BY <2>3, <2>4
  <1>15. ASSUME NEW r \in Request, Reply(r) PROVE TypeInv'
    <2> USE <1>15
    <2>1. pc' \in [Request -> Phase]
      BY DEF Reply, Phase, Finished
    <2>2. TypeOK'
      BY <2>1 DEF Reply
    <2>3. PhaseOK'
      BY DEF PhaseOK, Reply
    <2> QED
      BY <2>2, <2>3
  <1>16. ASSUME NEW x \in Reader, Get(x) PROVE TypeInv'
    <2> USE <1>16
    <2>1. rpc' \in [Reader -> Waiting \cup Got]
      BY DEF Get, Waiting, Got
    <2>2. ask' \in [Reader -> [id : Id, name : Name]]
      BY DEF Get, Metadata
    <2>3. rmeta' \in [Reader -> Metadata \cup {Missing}]
      BY DEF Get
    <2>4. start' \in [Reader -> Nat]
      BY DEF Get, Metadata
    <2>5. TypeOK'
      BY <2>1, <2>2, <2>3, <2>4 DEF Get
    <2>6. PhaseOK'
      BY SentinelAssumption DEF PhaseOK, Get
    <2> QED
      BY <2>5, <2>6
  <1>17. ASSUME NEW x \in Reader, Open(x) PROVE TypeInv'
    <2> USE <1>17
    <2>1. rpc' \in [Reader -> Waiting \cup Got]
      BY DEF PhaseOK, Open, Waiting, Got
    <2>2. body' \in [Reader -> Content \cup {NoBlob}]
      BY DEF PhaseOK, Open, Metadata
    <2>3. TypeOK'
      BY <2>1, <2>2 DEF Open
    <2>4. PhaseOK'
      BY DEF PhaseOK, Open
    <2> QED
      BY <2>3, <2>4
  <1>18. ASSUME NEW x \in Reader, ReadAgain(x) PROVE TypeInv'
    <2> USE <1>18
    <2>1. rpc' \in [Reader -> Waiting \cup Got]
      BY DEF PhaseOK, ReadAgain, Waiting, Got
    <2>2. rmeta' \in [Reader -> Metadata \cup {Missing}]
      BY DEF PhaseOK, ReadAgain
    <2>3. TypeOK'
      BY <2>1, <2>2 DEF ReadAgain
    <2>4. PhaseOK'
      BY SentinelAssumption DEF PhaseOK, ReadAgain
    <2> QED
      BY <2>3, <2>4
  <1>19. ASSUME NEW x \in Reader, FailGet(x) PROVE TypeInv'
    <2> USE <1>19
    <2>1. rpc' \in [Reader -> Waiting \cup Got]
      BY DEF FailGet, Waiting, Got
    <2>2. TypeOK'
      BY <2>1 DEF FailGet
    <2>3. PhaseOK'
      BY DEF PhaseOK, FailGet
    <2> QED
      BY <2>2, <2>3
  <1>20. CASE Crash
    <2>1. TypeOK'
      BY <1>20, BoundAssumption DEF Crash, Phase, Finished, Waiting, Got
    <2>2. PhaseOK'
      BY <1>20 DEF PhaseOK, Crash, Finished, Waiting
    <2> QED
      BY <2>1, <2>2
  <1>21. CASE UNCHANGED vars
    BY <1>21 DEF PhaseOK, vars
  <1> QED
    BY <1>1, <1>2, <1>3, <1>4, <1>5, <1>6, <1>7, <1>8, <1>9, <1>10, <1>11,
       <1>12, <1>13, <1>14, <1>15, <1>16, <1>17, <1>18, <1>19, <1>20, <1>21, <1>22, <1>23
       DEF Next, Handle, Read, Terminating

(* In every reachable state each handler of files.go works with the kind of  *)
(* call and the objects that its phase supposes.                             *)
THEOREM TypeCorrect == Spec => []TypeOK
  <1>1. TypeInv => TypeOK
    BY DEF TypeInv
  <1> QED
    BY InitTypeInv, NextTypeInv, <1>1, PTL DEF Spec

-----------------------------------------------------------------------------
(* What a request asks does not change, and a request that is past its       *)
(* writing stays so: none is delivered again.                                *)
LEMMA CallStays == [Next]_vars => call' = call
  BY DEF Next, Terminating, vars, handlers, Deliver, Handle, RefuseEarly, AnswerUnchanged,
     ResolveName, RejectBody, StoreBlob, ReserveMetadata, FillMetadata, SealMetadata,
     Discard, Lock, CheckAgain, Commit, Remove, Undo, Cleanup, DropBlob, Reply, Read, Get,
     Open, ReadAgain, FailGet, Crash

LEMMA PastStays ==
    ASSUME ~LateFaults, ~Redeliver, TypeOK, [Next]_vars,
           NEW q \in Request, pc[q] \in Past
    PROVE  pc'[q] \in Past
  <1> USE DEF TypeOK, Past, Goto, handlers
  <1>1. ASSUME NEW r \in Request, Deliver(r) \/ Handle(r) PROVE pc'[q] \in Past
    BY <1>1 DEF Deliver, Handle, RefuseEarly, AnswerUnchanged, ResolveName, RejectBody,
       StoreBlob, ReserveMetadata, FillMetadata, SealMetadata, Discard, Lock, CheckAgain,
       Commit, Remove, Undo, Cleanup, DropBlob, Reply
  <1>2. ASSUME NEW x \in Reader, Read(x) PROVE pc'[q] \in Past
    BY <1>2 DEF Read, Get, Open, ReadAgain, FailGet
  <1>3. CASE Crash
    BY <1>3 DEF Crash, Finished
  <1>4. CASE UNCHANGED vars
    BY <1>4 DEF vars
  <1> QED
    BY <1>1, <1>2, <1>3, <1>4 DEF Next, Terminating

(* A settled key stays settled: no request takes it again.                   *)
LEMMA SettledStays ==
    ASSUME ~LateFaults, ~Redeliver, TypeOK, [Next]_vars, NEW i, NEW b, Settled(i, b)
    PROVE  Settled(i, b)'
  <1>1. call' = call
    BY CallStays
  <1> QED
    BY <1>1, PastStays DEF Settled, Writers

(* The content of a live file is never lost (LiveBlob) if the nonces of its  *)
(* writers differ, as long as a write that reports an error has not happened *)
(* and a request reaches at most one process: SafeContent is inductive.      *)
LEMMA InitSafeContent == Init => SafeContent
  <1> SUFFICES ASSUME Init PROVE SafeContent
    OBVIOUS
  <1>1. TypeOK /\ PhaseOK
    BY InitTypeInv DEF TypeInv
  <1>2. PICK f \in Preload :
          /\ meta = [i \in Id |-> IF i \in Stored THEN File(f[i], i, 1) ELSE Missing]
          /\ blobs = [ib \in Id \X Id |-> IF ib[1] \in Stored /\ ib[2] = ib[1]
                                          THEN f[ib[1]].content ELSE NoBlob]
    BY DEF Init
  <1>3. f \in [Stored -> Described]
    BY PreloadAssumption
  <1>4. ASSUME NEW i \in Id, Live(i)
        PROVE  i \in Stored /\ meta[i].blob = i /\ meta[i].content = f[i].content
    BY <1>2, <1>3, <1>4, FileFields DEF Live
  <1>5. LiveBlob
    BY <1>2, <1>4 DEF LiveBlob
  <1>6. LiveBlobSettled
    BY <1>4 DEF LiveBlobSettled, Settled, NoncesDiffer
  <1>7. Uploaded /\ TornIsOurs /\ HoldsLock /\ ReplacedBlob
    BY DEF Init, Uploaded, TornIsOurs, HoldsLock, ReplacedBlob
  <1> QED
    BY <1>1, <1>5, <1>6, <1>7 DEF SafeContent

(* Every step keeps the invariant.                                           *)
LEMMA NextSafeContent ==
    ASSUME ~LateFaults, ~Redeliver, SafeContent, [Next]_vars
    PROVE  SafeContent'
  <1>1. TypeInv'
    BY NextTypeInv DEF SafeContent, TypeInv
  <1>2. \A i, b : Settled(i, b) => Settled(i, b)'
    BY SettledStays DEF SafeContent
  <1>3. \A r \in Request : /\ call[r].id \in Id /\ call[r].nonce \in Id
                           /\ call[r].op \in {"create", "update", "delete"}
    BY CallType DEF SafeContent, TypeOK, CallRecord
  <1>4. call' = call /\ \A i : NoncesDiffer(i)' <=> NoncesDiffer(i)
    BY CallStays DEF NoncesDiffer, Writers
  <1>5. \A q, r \in Request :
           /\ call[q].op # "delete" /\ call[r].op # "delete"
           /\ call[q].id = call[r].id /\ call[q].nonce = call[r].nonce
           /\ NoncesDiffer(call[r].id)
           => q = r
    BY DEF NoncesDiffer, Writers
  <1>6. \A r \in Request :
           /\ call[r].op # "delete"
           /\ pc[r] \in {"upload", "create", "fill", "discard", "lock", "locked", "commit", "undo"}
           => ~Settled(call[r].id, call[r].nonce)
    BY DEF Settled, Writers, Past
  <1>7. /\ pc \in [Request -> Phase] /\ prev \in [Request -> Metadata \cup {Missing}]
        /\ meta \in [Id -> Metadata \cup {Missing, Torn}]
        /\ blobs \in [Id \X Id -> Content \cup {NoBlob}]
        /\ \A i \in Id : Live(i) => meta[i].blob \in Id
        /\ \A r \in Request : pc[r] = "cleanup" => prev[r].blob \in Id
    BY DEF SafeContent, TypeOK, PhaseOK, Live, Metadata
  <1> DEFINE Core == LiveBlob /\ LiveBlobSettled /\ Uploaded /\ TornIsOurs
                     /\ HoldsLock /\ ReplacedBlob
  <1> SUFFICES Core'
    BY <1>1 DEF SafeContent, TypeInv
  <1> USE DEF SafeContent, Goto, NoFault, objects, handlers, readers
  <1>8. ASSUME NEW r \in Request,
               \A q \in Request \ {r} : pc'[q] = pc[q],
               UNCHANGED <<meta, blobs, lock, prev>>,
               pc'[r] \in {"check", "upload", "lock", "reply", "done"},
               pc'[r] = "lock" => call[r].op = "delete"
        PROVE  Core'
    <2>1. LiveBlob' /\ LiveBlobSettled'
      BY <1>2, <1>4, <1>8 DEF LiveBlob, LiveBlobSettled, Live
    <2>2. Uploaded' /\ TornIsOurs' /\ HoldsLock'
      BY <1>4, <1>8 DEF Uploaded, TornIsOurs, HoldsLock, Live
    <2>3. ReplacedBlob'
      BY <1>2, <1>4, <1>8 DEF ReplacedBlob, Live
    <2> QED
      BY <2>1, <2>2, <2>3
  <1>9. ASSUME NEW r \in Request,
               \/ Deliver(r) \/ RefuseEarly(r) \/ AnswerUnchanged(r) \/ ResolveName(r)
               \/ RejectBody(r) \/ SealMetadata(r) \/ Reply(r)
        PROVE  Core'
    <2>1. \A q \in Request \ {r} : pc'[q] = pc[q]
      BY <1>7, <1>9 DEF Deliver, RefuseEarly, AnswerUnchanged, ResolveName, RejectBody,
         SealMetadata, Reply
    <2>2. UNCHANGED <<meta, blobs, lock, prev>>
      BY <1>9 DEF Deliver, RefuseEarly, AnswerUnchanged, ResolveName, RejectBody,
         SealMetadata, Reply
    <2>3. /\ pc'[r] \in {"check", "upload", "lock", "reply", "done"}
          /\ pc'[r] = "lock" => call[r].op = "delete"
      BY <1>3, <1>7, <1>9 DEF Deliver, RefuseEarly, AnswerUnchanged, ResolveName, RejectBody,
         SealMetadata, Reply
    <2> QED
      BY <1>8, <2>1, <2>2, <2>3
  <1>10. ASSUME NEW r \in Request, StoreBlob(r) PROVE Core'
    <2>1. /\ pc[r] = "upload" /\ pc'[r] \in {"create", "lock", "reply"}
          /\ call[r].op # "delete"
          /\ \A q \in Request \ {r} : pc'[q] = pc[q]
          /\ UNCHANGED <<meta, lock, prev>>
      BY <1>10, <1>7 DEF StoreBlob, PhaseOK
    <2>2. \A i, b \in Id : <<i, b>> # <<call[r].id, call[r].nonce>>
                           => blobs'[<<i, b>>] = blobs[<<i, b>>]
      BY <1>10, <1>7, <1>3 DEF StoreBlob, SetBlob
    <2>3. pc'[r] # "reply" => blobs'[<<call[r].id, call[r].nonce>>] = call[r].content
      BY <1>10, <1>7, <1>3 DEF StoreBlob, SetBlob
    <2>4. \A i \in Id : NoncesDiffer(i) /\ Live(i)
                        => <<i, meta[i].blob>> # <<call[r].id, call[r].nonce>>
      BY <1>6, <2>1 DEF LiveBlobSettled
    <2>5. LiveBlob'
      BY <1>4, <1>7, <2>1, <2>2, <2>4 DEF LiveBlob, Live
    <2>6. LiveBlobSettled'
      BY <1>2, <1>4, <2>1 DEF LiveBlobSettled, Live
    <2>7. ASSUME NEW q \in Request, NoncesDiffer(call[q].id),
                 \/ pc'[q] \in {"create", "fill", "commit"}
                 \/ pc'[q] \in {"lock", "locked"} /\ call[q].op = "update"
          PROVE  blobs'[<<call[q].id, call[q].nonce>>] = call[q].content
      <3>1. CASE q = r
        BY <2>1, <2>3, <2>7, <3>1
      <3>2. CASE q # r
        <4>1. call[q].op # "delete" /\ pc'[q] = pc[q]
          BY <2>1, <2>7, <3>2 DEF PhaseOK
        <4>2. <<call[q].id, call[q].nonce>> # <<call[r].id, call[r].nonce>>
          BY <1>5, <2>1, <2>7, <3>2, <4>1
        <4> QED
          BY <1>3, <2>2, <2>7, <4>1, <4>2 DEF Uploaded
      <3> QED
        BY <3>1, <3>2
    <2>8. Uploaded'
      BY <1>4, <2>7 DEF Uploaded
    <2>9. TornIsOurs' /\ HoldsLock'
      BY <1>4, <2>1 DEF TornIsOurs, HoldsLock, Live
    <2>10. ReplacedBlob'
      BY <1>2, <1>4, <2>1 DEF ReplacedBlob, Live
    <2> QED
      BY <2>5, <2>6, <2>8, <2>9, <2>10
  <1>11. ASSUME NEW r \in Request, ReserveMetadata(r) PROVE Core'
    <2>1. /\ pc[r] = "create" /\ pc'[r] \in {"fill", "undo"}
          /\ \A q \in Request \ {r} : pc'[q] = pc[q]
          /\ UNCHANGED <<blobs, lock, prev>>
      BY <1>11, <1>7 DEF ReserveMetadata
    <2>2. \A i \in Id : meta'[i] # meta[i] => meta[i] = Missing /\ meta'[i] = Torn
      BY <1>11, <1>7, <1>3 DEF ReserveMetadata, SetMeta
    <2>3. pc'[r] = "fill" => meta[call[r].id] = Missing /\ meta'[call[r].id] = Torn
      BY <1>11, <1>7, <1>3 DEF ReserveMetadata, SetMeta
    <2>4. \A i \in Id : (Live(i)' => Live(i) /\ meta'[i] = meta[i])
                        /\ (Live(i) => Live(i)' /\ meta'[i] = meta[i])
      BY <2>2 DEF Live
    <2>5. LiveBlob' /\ LiveBlobSettled'
      BY <1>2, <1>4, <2>1, <2>4 DEF LiveBlob, LiveBlobSettled
    <2>6. Uploaded'
      BY <1>4, <2>1 DEF Uploaded
    <2>7. TornIsOurs'
      BY <1>3, <1>4, <2>1, <2>2, <2>3, SentinelAssumption DEF TornIsOurs
    <2>8. HoldsLock'
      BY <1>3, <1>4, <2>1, <2>4 DEF HoldsLock
    <2>9. ReplacedBlob'
      BY <1>2, <1>3, <1>4, <2>1, <2>4 DEF ReplacedBlob
    <2> QED
      BY <2>5, <2>6, <2>7, <2>8, <2>9
  <1>12. ASSUME NEW r \in Request, FillMetadata(r) PROVE Core'
    <2>1. /\ pc[r] = "fill" /\ pc'[r] \in {"seal", "discard"}
          /\ \A q \in Request \ {r} : pc'[q] = pc[q]
          /\ UNCHANGED <<blobs, lock, prev>>
      BY <1>12, <1>7 DEF FillMetadata
    <2>2. /\ call[r].op # "delete" /\ meta[call[r].id] = Torn
          /\ \A q \in Request \ {r} :
                /\ pc[q] \in {"fill", "discard"} => call[q].id # call[r].id
                /\ pc[q] \in {"commit", "remove"} => call[q].id # call[r].id
      BY <2>1 DEF PhaseOK, TornIsOurs, HoldsLock, Live
    <2>3. \A i \in Id \ {call[r].id} : meta'[i] = meta[i]
      BY <1>12, <1>7, <1>3 DEF FillMetadata, SetMeta
    <2>4. \/ pc'[r] = "discard" /\ meta' = meta
          \/ /\ pc'[r] = "seal" /\ meta'[call[r].id].blob = call[r].nonce
             /\ meta'[call[r].id].content = call[r].content
      <3> DEFINE d == [owner |-> call[r].key, name |-> call[r].name,
                       content |-> call[r].content]
      <3>1. \/ pc'[r] = "discard" /\ meta' = meta
            \/ pc'[r] = "seal" /\ meta'[call[r].id] = File(d, call[r].nonce, 1)
        BY <1>12, <1>7, <1>3 DEF FillMetadata, SetMeta
      <3>2. d.content = call[r].content
        OBVIOUS
      <3> HIDE DEF d
      <3> QED
        BY <3>1, <3>2, FileFields
    <2>5. NoncesDiffer(call[r].id) /\ pc'[r] = "seal" => Settled(call[r].id, call[r].nonce)'
      BY <1>4, <1>5, <2>2 DEF Settled, Writers, Past
    <2>6. NoncesDiffer(call[r].id) => blobs[<<call[r].id, call[r].nonce>>] = call[r].content
      BY <2>1 DEF Uploaded
    <2>7. LiveBlob'
      BY <1>4, <2>1, <2>2, <2>3, <2>4, <2>6 DEF LiveBlob, Live
    <2>8. LiveBlobSettled'
      BY <1>2, <1>4, <2>2, <2>3, <2>4, <2>5 DEF LiveBlobSettled, Live
    <2>9. Uploaded'
      BY <1>4, <2>1 DEF Uploaded
    <2>10. TornIsOurs'
      BY <1>3, <1>4, <2>1, <2>2, <2>3, <2>4 DEF TornIsOurs
    <2>11. HoldsLock'
      BY <1>3, <1>4, <2>1, <2>2, <2>3 DEF HoldsLock, Live
    <2>12. ASSUME NEW q \in Request, pc'[q] = "cleanup", NoncesDiffer(call[q].id)
           PROVE  /\ Settled(call[q].id, prev[q].blob)'
                  /\ Live(call[q].id)' => meta'[call[q].id].blob # prev[q].blob
      <3>1. pc[q] = "cleanup"
        BY <2>1, <2>12
      <3>2. Settled(call[q].id, prev[q].blob)
        BY <2>12, <3>1 DEF ReplacedBlob
      <3>3. Settled(call[q].id, prev[q].blob)'
        BY <1>2, <1>4, <2>1, <3>2
      <3>4. CASE call[q].id = call[r].id
        BY <1>4, <1>6, <2>1, <2>2, <2>4, <3>2, <3>3, <3>4 DEF Live
      <3>5. CASE call[q].id # call[r].id
        BY <1>3, <1>4, <2>3, <2>12, <3>1, <3>3, <3>5 DEF ReplacedBlob, Live
      <3> QED
        BY <3>4, <3>5
    <2>13. ReplacedBlob'
      BY <1>4, <2>1, <2>12 DEF ReplacedBlob
    <2> QED
      BY <2>7, <2>8, <2>9, <2>10, <2>11, <2>13
  <1>13. ASSUME NEW r \in Request, Discard(r) PROVE Core'
    <2>1. /\ pc[r] = "discard" /\ pc'[r] = "undo"
          /\ \A q \in Request \ {r} : pc'[q] = pc[q]
          /\ UNCHANGED <<blobs, lock, prev>>
      BY <1>13, <1>7 DEF Discard
    <2>2. /\ meta[call[r].id] = Torn
          /\ \A q \in Request \ {r} :
                /\ pc[q] \in {"fill", "discard"} => call[q].id # call[r].id
                /\ pc[q] \in {"commit", "remove"} => call[q].id # call[r].id
      BY <2>1 DEF TornIsOurs, HoldsLock, Live
    <2>3. /\ \A i \in Id \ {call[r].id} : meta'[i] = meta[i]
          /\ meta'[call[r].id] \in {Missing, Torn}
      BY <1>13, <1>7, <1>3, <2>2 DEF Discard, SetMeta
    <2>4. \A i \in Id : (Live(i)' => Live(i) /\ meta'[i] = meta[i])
                        /\ (Live(i) => Live(i)' /\ meta'[i] = meta[i])
      BY <2>2, <2>3 DEF Live
    <2>5. LiveBlob' /\ LiveBlobSettled'
      BY <1>2, <1>4, <2>1, <2>4 DEF LiveBlob, LiveBlobSettled
    <2>6. Uploaded'
      BY <1>4, <2>1 DEF Uploaded
    <2>7. TornIsOurs'
      BY <1>3, <1>4, <2>1, <2>2, <2>3 DEF TornIsOurs
    <2>8. HoldsLock'
      BY <1>3, <1>4, <2>1, <2>4 DEF HoldsLock
    <2>9. ReplacedBlob'
      BY <1>2, <1>3, <1>4, <2>1, <2>4 DEF ReplacedBlob
    <2> QED
      BY <2>5, <2>6, <2>7, <2>8, <2>9
  <1>14. ASSUME NEW r \in Request, Lock(r) PROVE Core'
    <2>1. /\ pc[r] = "lock" /\ pc'[r] = "locked" /\ lock' = r
          /\ \A q \in Request \ {r} : pc'[q] = pc[q]
          /\ UNCHANGED <<meta, blobs, prev>>
          /\ lock = Free
      BY <1>14, <1>7 DEF Lock
    <2>2. \A q \in Request : pc[q] \notin {"locked", "commit", "remove"}
      BY <2>1, SentinelAssumption DEF HoldsLock
    <2>3. LiveBlob' /\ LiveBlobSettled'
      BY <1>2, <1>4, <2>1 DEF LiveBlob, LiveBlobSettled, Live
    <2>4. Uploaded' /\ TornIsOurs'
      BY <1>4, <2>1 DEF Uploaded, TornIsOurs
    <2>5. HoldsLock'
      BY <2>1, <2>2 DEF HoldsLock
    <2>6. ReplacedBlob'
      BY <1>2, <1>4, <2>1 DEF ReplacedBlob, Live
    <2> QED
      BY <2>3, <2>4, <2>5, <2>6
  <1>15. ASSUME NEW r \in Request, CheckAgain(r) PROVE Core'
    <2>1. /\ pc[r] = "locked" /\ pc'[r] \in {"commit", "remove", "undo", "reply"}
          /\ pc'[r] = "commit" => call[r].op = "update"
          /\ \A q \in Request \ {r} : pc'[q] = pc[q] /\ prev'[q] = prev[q]
          /\ UNCHANGED <<meta, blobs>>
      BY <1>15, <1>7 DEF CheckAgain
    <2>2. pc'[r] \in {"commit", "remove"}
          => lock' = lock /\ prev'[r] = meta[call[r].id] /\ Live(call[r].id)
      BY <1>15, <1>7 DEF CheckAgain, Allowed, Live
    <2>3. lock = r /\ \A q \in Request \ {r} : pc[q] \notin {"locked", "commit", "remove"}
      BY <2>1 DEF HoldsLock
    <2>4. LiveBlob' /\ LiveBlobSettled'
      BY <1>2, <1>4, <2>1 DEF LiveBlob, LiveBlobSettled, Live
    <2>5. Uploaded' /\ TornIsOurs'
      BY <1>4, <2>1 DEF Uploaded, TornIsOurs
    <2>6. HoldsLock'
      BY <1>4, <2>1, <2>2, <2>3 DEF HoldsLock, Live
    <2>7. ReplacedBlob'
      BY <1>2, <1>4, <2>1 DEF ReplacedBlob, Live
    <2> QED
      BY <2>4, <2>5, <2>6, <2>7
  <1>16. ASSUME NEW r \in Request, Commit(r) PROVE Core'
    <2>1. /\ pc[r] = "commit" /\ pc'[r] \in {"cleanup", "undo"} /\ call[r].op # "delete"
          /\ \A q \in Request \ {r} : pc'[q] = pc[q]
          /\ UNCHANGED <<blobs, prev>>
      BY <1>16, <1>7 DEF Commit, PhaseOK
    <2>2. \A i \in Id \ {call[r].id} : meta'[i] = meta[i]
      BY <1>16, <1>7, <1>3 DEF Commit, SetMeta
    <2>3. \/ /\ pc'[r] = "cleanup" /\ meta'[call[r].id].blob = call[r].nonce
             /\ meta'[call[r].id].content = call[r].content
          \/ pc'[r] = "undo" /\ meta'[call[r].id] = meta[call[r].id]
      <3>1. \/ pc'[r] = "cleanup" /\ meta'[call[r].id] = Replacement(r)
            \/ pc'[r] = "undo" /\ meta'[call[r].id] = meta[call[r].id]
        BY <1>16, <1>7, <1>3 DEF Commit, SetMeta
      <3>2. Replacement(r).blob = call[r].nonce /\ Replacement(r).content = call[r].content
        BY FileFields DEF Replacement
      <3> QED
        BY <3>1, <3>2
    <2>4. /\ lock = r /\ Live(call[r].id) /\ prev[r] = meta[call[r].id]
          /\ NoncesDiffer(call[r].id) =>
                /\ Settled(call[r].id, prev[r].blob) /\ prev[r].blob # call[r].nonce
                /\ blobs[<<call[r].id, call[r].nonce>>] = call[r].content
      BY <1>3, <1>6, <2>1 DEF HoldsLock, LiveBlobSettled, Uploaded
    <2>5. \A q \in Request \ {r} : pc[q] \notin {"locked", "commit", "remove"}
      BY <2>4 DEF HoldsLock
    <2>6. NoncesDiffer(call[r].id) /\ pc'[r] = "cleanup"
          => Settled(call[r].id, call[r].nonce)'
      BY <1>4, <1>5, <2>1 DEF Settled, Writers, Past
    <2>7. LiveBlob'
      BY <1>4, <2>1, <2>2, <2>3, <2>4 DEF LiveBlob, Live
    <2>8. LiveBlobSettled'
      BY <1>2, <1>4, <2>2, <2>3, <2>4, <2>6 DEF LiveBlobSettled, Live
    <2>9. Uploaded'
      BY <1>4, <2>1 DEF Uploaded
    <2>10. TornIsOurs'
      BY <1>3, <1>4, <2>1, <2>2, <2>4 DEF TornIsOurs, Live
    <2>11. HoldsLock'
      BY <2>1, <2>5 DEF HoldsLock
    <2>12. ASSUME NEW q \in Request, pc'[q] = "cleanup", NoncesDiffer(call[q].id)
           PROVE  /\ Settled(call[q].id, prev[q].blob)'
                  /\ Live(call[q].id)' => meta'[call[q].id].blob # prev[q].blob
      <3>1. CASE q = r
        BY <1>2, <1>4, <2>1, <2>3, <2>4, <2>12, <3>1
      <3>2. CASE q # r
        <4>1. pc[q] = "cleanup"
          BY <2>1, <2>12, <3>2
        <4>2. Settled(call[q].id, prev[q].blob)
          BY <2>12, <4>1 DEF ReplacedBlob
        <4>3. Settled(call[q].id, prev[q].blob)'
          BY <1>2, <1>4, <2>1, <4>2
        <4>4. CASE call[q].id = call[r].id
          BY <1>6, <2>1, <2>3, <2>4, <2>12, <4>1, <4>2, <4>3, <4>4 DEF ReplacedBlob
        <4>5. CASE call[q].id # call[r].id
          BY <1>3, <1>4, <2>2, <2>12, <4>1, <4>3, <4>5 DEF ReplacedBlob, Live
        <4> QED
          BY <4>4, <4>5
      <3> QED
        BY <3>1, <3>2
    <2>13. ReplacedBlob'
      BY <1>4, <2>1, <2>12 DEF ReplacedBlob
    <2> QED
      BY <2>7, <2>8, <2>9, <2>10, <2>11, <2>13
  <1>17. ASSUME NEW r \in Request, Remove(r) PROVE Core'
    <2>1. /\ pc[r] = "remove" /\ pc'[r] \in {"cleanup", "reply"}
          /\ \A q \in Request \ {r} : pc'[q] = pc[q]
          /\ UNCHANGED <<blobs, prev>>
      BY <1>17, <1>7 DEF Remove
    <2>2. \A i \in Id \ {call[r].id} : meta'[i] = meta[i]
      BY <1>17, <1>7, <1>3 DEF Remove, SetMeta
    <2>3. meta'[call[r].id] = IF pc'[r] = "cleanup" THEN Missing ELSE meta[call[r].id]
      BY <1>17, <1>7, <1>3 DEF Remove, SetMeta
    <2>4. /\ lock = r /\ Live(call[r].id) /\ prev[r] = meta[call[r].id]
          /\ NoncesDiffer(call[r].id) => Settled(call[r].id, prev[r].blob)
      BY <1>3, <2>1 DEF HoldsLock, LiveBlobSettled
    <2>5. \A q \in Request \ {r} : pc[q] \notin {"locked", "commit", "remove"}
      BY <2>4 DEF HoldsLock
    <2>6. \A i \in Id : Live(i)' => Live(i) /\ meta'[i] = meta[i]
      BY <2>2, <2>3 DEF Live
    <2>7. LiveBlob' /\ LiveBlobSettled'
      BY <1>2, <1>4, <2>1, <2>6 DEF LiveBlob, LiveBlobSettled
    <2>8. Uploaded'
      BY <1>4, <2>1 DEF Uploaded
    <2>9. TornIsOurs'
      BY <1>3, <1>4, <2>1, <2>2, <2>4 DEF TornIsOurs, Live
    <2>10. HoldsLock'
      BY <2>1, <2>5 DEF HoldsLock
    <2>11. ReplacedBlob'
      BY <1>2, <1>3, <1>4, <2>1, <2>3, <2>4, <2>6 DEF ReplacedBlob, Live
    <2> QED
      BY <2>7, <2>8, <2>9, <2>10, <2>11
  <1>18. ASSUME NEW r \in Request, Undo(r) PROVE Core'
    <2>1. /\ pc[r] = "undo" /\ pc'[r] = "reply" /\ call[r].op # "delete"
          /\ \A q \in Request \ {r} : pc'[q] = pc[q]
          /\ UNCHANGED <<meta, lock, prev>>
      BY <1>18, <1>7 DEF Undo, DropBlob, PhaseOK
    <2>2. \A i, b \in Id : <<i, b>> # <<call[r].id, call[r].nonce>>
                           => blobs'[<<i, b>>] = blobs[<<i, b>>]
      BY <1>18, <1>7 DEF Undo, DropBlob, SetBlob
    <2>3. \A i \in Id : NoncesDiffer(i) /\ Live(i)
                        => <<i, meta[i].blob>> # <<call[r].id, call[r].nonce>>
      BY <1>6, <2>1 DEF LiveBlobSettled
    <2>4. LiveBlob'
      BY <1>4, <1>7, <2>1, <2>2, <2>3 DEF LiveBlob, Live
    <2>5. LiveBlobSettled'
      BY <1>2, <1>4, <2>1 DEF LiveBlobSettled, Live
    <2>6. ASSUME NEW q \in Request, NoncesDiffer(call[q].id),
                 \/ pc'[q] \in {"create", "fill", "commit"}
                 \/ pc'[q] \in {"lock", "locked"} /\ call[q].op = "update"
          PROVE  blobs'[<<call[q].id, call[q].nonce>>] = call[q].content
      <3>1. q # r /\ pc'[q] = pc[q] /\ call[q].op # "delete"
        BY <2>1, <2>6 DEF PhaseOK
      <3>2. <<call[q].id, call[q].nonce>> # <<call[r].id, call[r].nonce>>
        BY <1>5, <2>1, <2>6, <3>1
      <3> QED
        BY <1>3, <2>2, <2>6, <3>1, <3>2 DEF Uploaded
    <2>7. Uploaded'
      BY <1>4, <2>6 DEF Uploaded
    <2>8. TornIsOurs' /\ HoldsLock'
      BY <1>4, <2>1 DEF TornIsOurs, HoldsLock, Live
    <2>9. ReplacedBlob'
      BY <1>2, <1>4, <2>1 DEF ReplacedBlob, Live
    <2> QED
      BY <2>4, <2>5, <2>7, <2>8, <2>9
  <1>19. ASSUME NEW r \in Request, Cleanup(r) PROVE Core'
    <2>1. /\ pc[r] = "cleanup" /\ pc'[r] = "reply"
          /\ \A q \in Request \ {r} : pc'[q] = pc[q]
          /\ UNCHANGED <<meta, lock, prev>>
      BY <1>19, <1>7 DEF Cleanup, DropBlob
    <2>2. \A i, b \in Id : <<i, b>> # <<call[r].id, prev[r].blob>>
                           => blobs'[<<i, b>>] = blobs[<<i, b>>]
      BY <1>19, <1>7 DEF Cleanup, DropBlob, SetBlob
    <2>3. \A i \in Id : NoncesDiffer(i) /\ Live(i)
                        => <<i, meta[i].blob>> # <<call[r].id, prev[r].blob>>
      BY <2>1 DEF ReplacedBlob
    <2>4. LiveBlob'
      BY <1>4, <1>7, <2>1, <2>2, <2>3 DEF LiveBlob, Live
    <2>5. LiveBlobSettled'
      BY <1>2, <1>4, <2>1 DEF LiveBlobSettled, Live
    <2>6. ASSUME NEW q \in Request, NoncesDiffer(call[q].id),
                 \/ pc'[q] \in {"create", "fill", "commit"}
                 \/ pc'[q] \in {"lock", "locked"} /\ call[q].op = "update"
          PROVE  blobs'[<<call[q].id, call[q].nonce>>] = call[q].content
      <3>1. q # r /\ pc'[q] = pc[q] /\ call[q].op # "delete"
        BY <2>1, <2>6 DEF PhaseOK
      <3>2. ~Settled(call[q].id, call[q].nonce)
        BY <1>6, <2>6, <3>1
      <3>3. <<call[q].id, call[q].nonce>> # <<call[r].id, prev[r].blob>>
        BY <2>1, <2>6, <3>2 DEF ReplacedBlob
      <3> QED
        BY <1>3, <2>2, <2>6, <3>1, <3>3 DEF Uploaded
    <2>7. Uploaded'
      BY <1>4, <2>6 DEF Uploaded
    <2>8. TornIsOurs' /\ HoldsLock'
      BY <1>4, <2>1 DEF TornIsOurs, HoldsLock, Live
    <2>9. ReplacedBlob'
      BY <1>2, <1>4, <2>1 DEF ReplacedBlob, Live
    <2> QED
      BY <2>4, <2>5, <2>7, <2>8, <2>9
  <1>20. CASE Crash
    <2>1. UNCHANGED <<objects, prev>>
      BY <1>20 DEF Crash
    <2>2. \A q \in Request : pc'[q] \in {"idle", "done", "lost"}
      BY <1>20 DEF Crash, Finished
    <2>3. LiveBlob' /\ LiveBlobSettled'
      BY <1>2, <1>4, <2>1 DEF LiveBlob, LiveBlobSettled, Live
    <2>4. Uploaded' /\ TornIsOurs' /\ HoldsLock' /\ ReplacedBlob'
      BY <2>2 DEF Uploaded, TornIsOurs, HoldsLock, ReplacedBlob
    <2> QED
      BY <2>3, <2>4
  <1>21. CASE UNCHANGED vars \/ \E x \in Reader : Read(x)
    <2>1. UNCHANGED <<objects, pc, lock, prev>>
      BY <1>21 DEF vars, Read, Get, Open, ReadAgain, FailGet
    <2>2. LiveBlob' /\ LiveBlobSettled'
      BY <1>2, <1>4, <2>1 DEF LiveBlob, LiveBlobSettled, Live
    <2>3. Uploaded' /\ TornIsOurs' /\ HoldsLock'
      BY <1>4, <2>1 DEF Uploaded, TornIsOurs, HoldsLock, Live
    <2>4. ReplacedBlob'
      BY <1>2, <1>4, <2>1 DEF ReplacedBlob, Live
    <2> QED
      BY <2>2, <2>3, <2>4
  <1> QED
    BY <1>9, <1>10, <1>11, <1>12, <1>13, <1>14, <1>15, <1>16, <1>17, <1>18, <1>19,
       <1>20, <1>21 DEF Next, Handle, Terminating

(* The inductive invariant of the hosted files (handleFileCreate,            *)
(* handleFileUpdate, handleFileDelete): the key of a blob that a file names  *)
(* is settled, and only its owner deletes a blob, if the nonces of the       *)
(* file's writers differ.                                                    *)
THEOREM FilesInvariant ==
    ASSUME ~LateFaults, ~Redeliver
    PROVE  Spec => []SafeContent
  <1>1. SafeContent /\ [Next]_vars => SafeContent'
    BY NextSafeContent
  <1> QED
    BY InitSafeContent, <1>1, PTL DEF Spec

(* A file that has metadata has its content, for any number of requests,     *)
(* files, failing accesses and crashes (handleFileCreate, handleFileUpdate,  *)
(* handleFileDelete), if no two of the requests that store content for it    *)
(* carry one nonce and none carries the id of a file that was there before.  *)
(* Without that it may lose its content: ContentKept is refuted.             *)
THEOREM ContentSafe ==
    ASSUME ~LateFaults, ~Redeliver
    PROVE  Spec => []LiveBlob
  <1>1. SafeContent => LiveBlob
    BY DEF SafeContent
  <1> QED
    BY FilesInvariant, <1>1, PTL

-----------------------------------------------------------------------------
(* Only a create makes a file: whatever else writes metadata finds some.     *)
LEMMA NextOnlyCreate ==
    ASSUME SafeContent, ~LateFaults, [Next]_vars,
           NEW i \in Id, meta[i] = Missing, meta'[i] # Missing
    PROVE  \E r \in Request : /\ call[r].op = "create" /\ call[r].id = i
                              /\ pc[r] = "create" /\ pc'[r] = "fill"
  <1>1. \A r \in Request : call[r].id \in Id
    BY CallType DEF SafeContent, TypeOK, CallRecord
  <1>2. /\ meta \in [Id -> Metadata \cup {Missing, Torn}] /\ pc \in [Request -> Phase]
        /\ Torn # Missing
    BY SentinelAssumption DEF SafeContent, TypeOK
  <1>3. ASSUME NEW r \in Request, ReserveMetadata(r)
        PROVE  /\ call[r].op = "create" /\ call[r].id = i
               /\ pc[r] = "create" /\ pc'[r] = "fill"
    <2>1. pc[r] = "create" /\ call[r].op = "create"
      BY <1>3 DEF ReserveMetadata, SafeContent, PhaseOK
    <2>2. /\ meta' = [meta EXCEPT ![call[r].id] = Torn]
          /\ pc' = [pc EXCEPT ![r] = "fill"]
      BY <1>3 DEF ReserveMetadata, SetMeta, Goto
    <2>3. i = call[r].id
      BY <1>1, <1>2, <2>2
    <2> QED
      BY <1>2, <2>1, <2>2, <2>3
  <1>4. ASSUME NEW r \in Request, FillMetadata(r) \/ Commit(r) PROVE FALSE
    <2>1. meta[call[r].id] # Missing
      BY <1>2, <1>4 DEF FillMetadata, Commit, SafeContent, TornIsOurs, HoldsLock, Live
    <2>2. meta' = meta \/ \E m : meta' = [meta EXCEPT ![call[r].id] = m]
      BY <1>4 DEF FillMetadata, Commit, SetMeta
    <2> QED
      BY <1>1, <1>2, <2>1, <2>2
  <1>5. ASSUME NEW r \in Request, Discard(r) \/ Remove(r) PROVE FALSE
    <2>1. meta' = meta \/ meta' = [meta EXCEPT ![call[r].id] = Missing]
      BY <1>5 DEF Discard, Remove, SetMeta
    <2> QED
      BY <1>1, <1>2, <2>1
  <1>6. ASSUME NEW r \in Request,
               \/ Deliver(r) \/ RefuseEarly(r) \/ AnswerUnchanged(r) \/ ResolveName(r)
               \/ RejectBody(r) \/ StoreBlob(r) \/ SealMetadata(r) \/ Lock(r)
               \/ CheckAgain(r) \/ Undo(r) \/ Cleanup(r) \/ Reply(r)
        PROVE  FALSE
    BY <1>6 DEF Deliver, RefuseEarly, AnswerUnchanged, ResolveName, RejectBody, StoreBlob,
       SealMetadata, Lock, CheckAgain, Undo, Cleanup, DropBlob, Reply, objects
  <1>7. ASSUME Crash \/ UNCHANGED vars \/ \E x \in Reader : Read(x) PROVE FALSE
    BY <1>7 DEF Crash, vars, Read, Get, Open, ReadAgain, FailGet, objects
  <1> QED
    BY <1>3, <1>4, <1>5, <1>6, <1>7 DEF Next, Handle, Terminating

(* A file that is not there comes into being only through a create: an       *)
(* update that is past its first check cannot bring a deleted file back      *)
(* (handleFileUpdate reads the metadata again under server.files).           *)
THEOREM OnlyCreates ==
    ASSUME ~LateFaults, ~Redeliver
    PROVE  Spec => OnlyCreateMakesAFile
  <1>1. SafeContent /\ [Next]_vars
        => [\A i \in Id : (meta[i] = Missing /\ meta'[i] # Missing)
                          => \E r \in Request : /\ call[r].op = "create" /\ call[r].id = i
                                               /\ pc[r] = "create" /\ pc'[r] = "fill"]_vars
    BY NextOnlyCreate
  <1> QED
    BY FilesInvariant, <1>1, PTL DEF Spec, OnlyCreateMakesAFile

-----------------------------------------------------------------------------
(* The blob of a GET: it is what its metadata says from the reading of the   *)
(* metadata on, or it is gone.                                               *)
LEMMA NextReadsSettled ==
    ASSUME ~LateFaults, ~Redeliver, SafeContent, ReadsSettled, GetConsistent, [Next]_vars
    PROVE  (ReadsSettled /\ GetConsistent)'
  <1>1. \A i, b : Settled(i, b) => Settled(i, b)'
    BY SettledStays DEF SafeContent
  <1>13. \A i : NoncesDiffer(i)' <=> NoncesDiffer(i)
    BY CallStays DEF NoncesDiffer, Writers
  <1>2. \A x \in Reader : rpc[x] \in {"open", "again", "reopen"} => rmeta[x].blob \in Id
    BY DEF SafeContent, TypeOK, PhaseOK, Metadata
  <1>3. /\ blobs \in [Id \X Id -> Content \cup {NoBlob}]
        /\ rpc \in [Reader -> Waiting \cup Got]
        /\ ask \in [Reader -> [id : Id, name : Name]]
        /\ DOMAIN rmeta = Reader /\ DOMAIN body = Reader
        /\ meta \in [Id -> Metadata \cup {Missing, Torn}]
    BY DEF SafeContent, TypeOK
  <1>4. \A r \in Request : call[r].id \in Id /\ call[r].nonce \in Id
    BY CallType DEF SafeContent, TypeOK, CallRecord
  <1>5. \A r \in Request : pc[r] = "upload" => ~Settled(call[r].id, call[r].nonce)
    BY DEF Settled, Writers, Past, SafeContent, PhaseOK
  <1>6. ASSUME UNCHANGED <<rpc, ask, rmeta, body>>,
               \A i, b \in Id : Settled(i, b) => blobs'[<<i, b>>] \in {NoBlob, blobs[<<i, b>>]}
        PROVE  (ReadsSettled /\ GetConsistent)'
    <2>1. ReadsSettled'
      BY <1>1, <1>2, <1>3, <1>6, <1>13 DEF ReadsSettled
    <2>2. GetConsistent'
      BY <1>6, <1>13 DEF GetConsistent
    <2> QED
      BY <2>1, <2>2
  <1>7. ASSUME NEW r \in Request, StoreBlob(r) PROVE (ReadsSettled /\ GetConsistent)'
    <2>1. UNCHANGED <<rpc, ask, rmeta, body>> /\ pc[r] = "upload"
      BY <1>7 DEF StoreBlob, readers
    <2>2. blobs' = blobs \/ \E c : blobs' = [blobs EXCEPT ![<<call[r].id, call[r].nonce>>] = c]
      BY <1>7 DEF StoreBlob, SetBlob, BlobKey
    <2>3. ASSUME NEW i \in Id, NEW b \in Id, Settled(i, b)
          PROVE  blobs'[<<i, b>>] = blobs[<<i, b>>]
      BY <1>3, <1>4, <1>5, <2>1, <2>2, <2>3
    <2> QED
      BY <1>6, <2>1, <2>3
  <1>8. ASSUME NEW r \in Request, Undo(r) \/ Cleanup(r)
        PROVE  (ReadsSettled /\ GetConsistent)'
    <2>1. UNCHANGED <<rpc, ask, rmeta, body>>
      BY <1>8 DEF Undo, Cleanup, DropBlob, readers
    <2>2. blobs' = blobs \/ \E k : blobs' = [blobs EXCEPT ![k] = NoBlob]
      BY <1>8 DEF Undo, Cleanup, DropBlob, SetBlob
    <2>3. \A i, b \in Id : blobs'[<<i, b>>] \in {NoBlob, blobs[<<i, b>>]}
      BY <1>3, <2>2
    <2> QED
      BY <1>6, <2>1, <2>3
  <1>9. ASSUME NEW r \in Request,
               \/ Deliver(r) \/ RefuseEarly(r) \/ AnswerUnchanged(r) \/ ResolveName(r)
               \/ RejectBody(r) \/ ReserveMetadata(r) \/ FillMetadata(r) \/ SealMetadata(r)
               \/ Discard(r) \/ Lock(r) \/ CheckAgain(r) \/ Commit(r) \/ Remove(r) \/ Reply(r)
        PROVE  (ReadsSettled /\ GetConsistent)'
    <2>1. UNCHANGED <<rpc, ask, rmeta, body, blobs>>
      BY <1>9 DEF Deliver, RefuseEarly, AnswerUnchanged, ResolveName, RejectBody,
         ReserveMetadata, FillMetadata, SealMetadata, Discard, Lock,
         CheckAgain, Commit, Remove, Reply, objects, readers
    <2> QED
      BY <1>6, <2>1
  <1>10. CASE UNCHANGED vars
    <2>1. UNCHANGED <<rpc, ask, rmeta, body, blobs>>
      BY <1>10 DEF vars, objects, readers
    <2> QED
      BY <1>6, <2>1
  <1>11. CASE Crash
    <2>1. /\ UNCHANGED <<ask, rmeta, body, blobs>>
          /\ \A x \in Reader : rpc'[x] \in {rpc[x], "cut"}
          /\ \A x \in Reader : rpc'[x] \notin {"open", "again", "reopen"}
      BY <1>11 DEF Crash, Waiting, objects
    <2> QED
      BY <1>13, <2>1 DEF ReadsSettled, GetConsistent
  <1>12. ASSUME NEW x \in Reader, Read(x) PROVE (ReadsSettled /\ GetConsistent)'
    <2>1. /\ UNCHANGED blobs /\ rpc[x] \in Waiting
          /\ \A y \in Reader \ {x} : /\ rpc'[y] = rpc[y] /\ ask'[y] = ask[y]
                                     /\ rmeta'[y] = rmeta[y] /\ body'[y] = body[y]
      BY <1>3, <1>12 DEF Read, Get, Open, ReadAgain, FailGet, objects, Waiting
    <2>2. \A y \in Reader \ {x} :
             rpc'[y] \in {"open", "again", "reopen"} /\ NoncesDiffer(ask'[y].id) =>
               /\ Settled(ask[y].id, rmeta[y].blob)'
               /\ blobs'[<<ask'[y].id, rmeta'[y].blob>>] \in {NoBlob, rmeta'[y].content}
      BY <1>1, <1>2, <2>1 DEF ReadsSettled
    <2>3. ASSUME rpc'[x] = "served", NoncesDiffer(ask'[x].id) PROVE body'[x] = rmeta'[x].content
      <3>1. Open(x)
        BY <1>3, <1>12, <2>1, <2>3 DEF Read, Get, ReadAgain, FailGet, Waiting
      <3>2. /\ body'[x] = blobs[<<ask[x].id, rmeta[x].blob>>] /\ body'[x] # NoBlob
            /\ rmeta' = rmeta /\ ask' = ask /\ rpc[x] \in {"open", "reopen"}
        BY <1>3, <2>3, <3>1 DEF Open
      <3> QED
        BY <2>3, <3>2 DEF ReadsSettled
    <2>4. ASSUME rpc'[x] \in {"open", "again", "reopen"}, NoncesDiffer(ask'[x].id)
          PROVE  /\ Settled(ask[x].id, rmeta[x].blob)'
                 /\ blobs'[<<ask'[x].id, rmeta'[x].blob>>] \in {NoBlob, rmeta'[x].content}
      <3>1. CASE Get(x) \/ ReadAgain(x)
        <4>1. ask'[x] = ask[x] /\ ask[x].id \in Id
          BY <1>3, <2>4, <3>1 DEF Get, ReadAgain
        <4>2. rmeta'[x] = meta[ask[x].id] /\ Live(ask[x].id)
          BY <1>3, <2>4, <3>1 DEF Get, ReadAgain, Live
        <4>3. meta[ask[x].id].blob \in Id
          BY <1>3, <4>1, <4>2 DEF Live, Metadata
        <4>4. /\ Settled(ask[x].id, meta[ask[x].id].blob)
              /\ blobs[<<ask[x].id, meta[ask[x].id].blob>>] = meta[ask[x].id].content
          BY <2>4, <4>1, <4>2 DEF SafeContent, LiveBlob, LiveBlobSettled
        <4>5. Settled(ask[x].id, rmeta[x].blob)'
          BY <1>1, <4>1, <4>2, <4>3, <4>4
        <4> QED
          BY <2>1, <4>1, <4>2, <4>4, <4>5
      <3>2. CASE Open(x)
        <4>1. /\ ask' = ask /\ rmeta' = rmeta /\ rpc[x] \in {"open", "reopen"}
          BY <3>2 DEF Open
        <4> QED
          BY <1>1, <1>2, <2>1, <2>4, <4>1 DEF ReadsSettled
      <3>3. CASE FailGet(x)
        BY <1>3, <2>4, <3>3 DEF FailGet
      <3> QED
        BY <1>12, <3>1, <3>2, <3>3 DEF Read
    <2>5. ReadsSettled'
      BY <1>13, <2>2, <2>4 DEF ReadsSettled
    <2>6. GetConsistent'
      BY <1>13, <2>1, <2>3 DEF GetConsistent
    <2> QED
      BY <2>5, <2>6
  <1> QED
    BY <1>7, <1>8, <1>9, <1>10, <1>11, <1>12 DEF Next, Handle, Terminating

(* What a GET serves is what its headers describe (handleFile), although it  *)
(* opens the blob after it has read the metadata, without a lock, while      *)
(* updates replace and delete blobs, if the nonces of the requests that      *)
(* store content for the file differ.                                        *)
THEOREM GetsAreConsistent ==
    ASSUME ~LateFaults, ~Redeliver
    PROVE  Spec => []GetConsistent
  <1>1. Init => ReadsSettled /\ GetConsistent
    BY DEF Init, ReadsSettled, GetConsistent
  <1>2. SafeContent /\ ReadsSettled /\ GetConsistent /\ [Next]_vars
        => (ReadsSettled /\ GetConsistent)'
    BY NextReadsSettled
  <1> QED
    BY FilesInvariant, <1>1, <1>2, PTL DEF Spec

-----------------------------------------------------------------------------
(* How often each file was created and updated, when one more change becomes *)
(* visible.                                                                  *)
LEMMA CountsGrow ==
    ASSUME NEW r \in Request, IsFiniteSet(applied), <<r, crashes>> \notin applied,
           Apply(r), call' = call, NEW i
    PROVE  /\ IsFiniteSet(applied')
           /\ Cardinality(Updates(i)) \in Nat
           /\ Creations(i) \subseteq Creations(i)'
           /\ CreatedOnce(i)' => CreatedOnce(i)
           /\ (call[r].op = "create" /\ call[r].id = i)
              => Creations(i)' # {} /\ (CreatedOnce(i)' => i \notin Stored /\ Creations(i) = {})
           /\ ~(call[r].op = "create" /\ call[r].id = i) => Creations(i)' = Creations(i)
           /\ ~(call[r].op = "update" /\ call[r].id = i) => Updates(i)' = Updates(i)
           /\ (call[r].op = "update" /\ call[r].id = i)
              => Cardinality(Updates(i))' = Cardinality(Updates(i)) + 1
<1> DEFINE e == <<r, crashes>>
<1>1. applied' = applied \cup {e} /\ e[1] = r /\ IsFiniteSet(applied')
  BY FS_AddElement DEF Apply
<1>2. Creations(i) \in SUBSET applied /\ Updates(i) \in SUBSET applied
  BY DEF Creations, Updates
<1>3. /\ IsFiniteSet(Creations(i)) /\ IsFiniteSet(Updates(i))
      /\ e \notin Creations(i) /\ e \notin Updates(i)
  BY <1>2, FS_Subset
<1> HIDE DEF e
<1>4. Creations(i)' = IF call[r].op = "create" /\ call[r].id = i
                      THEN Creations(i) \cup {e} ELSE Creations(i)
  BY <1>1 DEF Creations
<1>5. Updates(i)' = IF call[r].op = "update" /\ call[r].id = i
                    THEN Updates(i) \cup {e} ELSE Updates(i)
  BY <1>1 DEF Updates
<1>6. /\ Cardinality(Creations(i) \cup {e}) = Cardinality(Creations(i)) + 1
      /\ Cardinality(Updates(i) \cup {e}) = Cardinality(Updates(i)) + 1
  BY <1>3, FS_AddElement
<1>7. /\ Cardinality(Creations(i)) \in Nat /\ Cardinality(Updates(i)) \in Nat
      /\ Cardinality(Creations(i)) = 0 => Creations(i) = {}
  BY <1>3, FS_CardinalityType, FS_EmptySet
<1>8. (call[r].op = "create" /\ call[r].id = i)
      => Creations(i)' # {} /\ (CreatedOnce(i)' => i \notin Stored /\ Creations(i) = {})
  BY <1>4, <1>6, <1>7 DEF CreatedOnce
<1>9. CreatedOnce(i)' => CreatedOnce(i)
  BY <1>4, <1>7, <1>8, FS_EmptySet DEF CreatedOnce
<1> QED
  BY <1>1, <1>4, <1>5, <1>6, <1>7, <1>8, <1>9

(* A step of a handler that makes no change visible: a file goes, or it      *)
(* stays as it is.  An update that gets the lock finds the last revision.    *)
LEMMA QuietCounts ==
    ASSUME TypeInv, RevisionsCounted, NEW r \in Request, Deliver(r) \/ Handle(r),
           applied' = applied
    PROVE  RevisionsCounted'
<1>1. /\ pc \in [Request -> Phase] /\ meta \in [Id -> Metadata \cup {Missing, Torn}]
      /\ prev \in [Request -> Metadata \cup {Missing}]
      /\ call[r].id \in Id /\ call[r].op \in {"create", "update", "delete"}
  BY CallType DEF TypeInv, TypeOK, CallRecord
<1>2. call' = call /\ crashes' = crashes
  BY DEF Deliver, Handle, RefuseEarly, AnswerUnchanged, ResolveName, RejectBody, StoreBlob,
     ReserveMetadata, FillMetadata, SealMetadata, Discard, Lock, CheckAgain, Commit, Remove, Undo, Cleanup,
     DropBlob, Reply
<1>3. \A i : /\ Creations(i)' = Creations(i) /\ Updates(i)' = Updates(i)
             /\ CreatedOnce(i)' = CreatedOnce(i)
  BY <1>2 DEF Creations, Updates, CreatedOnce
<1>9. <<r, crashes>> \in applied
      => ~Deliver(r) /\ pc[r] \in {"seal", "discard", "cleanup", "undo", "reply", "done"}
  BY DEF RevisionsCounted, Deliver
<1>4. \/ meta' = meta
      \/ meta' = [meta EXCEPT ![call[r].id] = Missing]
      \/ meta' = [meta EXCEPT ![call[r].id] = Torn]
  BY <1>9 DEF Apply, SetMeta, Deliver, Handle, RefuseEarly, AnswerUnchanged, ResolveName, RejectBody,
     StoreBlob, ReserveMetadata, FillMetadata, SealMetadata, Discard, Lock, CheckAgain, Commit, Remove, Undo,
     Cleanup, DropBlob, Reply, objects
<1>5. \A i \in Id : Live(i)' => meta'[i] = meta[i] /\ Live(i)
  BY <1>1, <1>4 DEF Live
<1>6. \A q \in Request \ {r} : pc'[q] = pc[q] /\ prev'[q] = prev[q]
  BY <1>1 DEF Goto, Deliver, Handle, RefuseEarly, AnswerUnchanged, ResolveName, RejectBody,
     StoreBlob, ReserveMetadata, FillMetadata, SealMetadata, Discard, Lock, CheckAgain, Commit, Remove, Undo,
     Cleanup, DropBlob, Reply
<1>7. /\ pc'[r] = "locked" => lock = Free /\ lock' = r
      /\ pc'[r] \in {"commit", "remove"} => CheckAgain(r) /\ pc[r] = "locked" /\ lock' = lock
      /\ lock' # lock => lock = Free \/ pc[r] \in {"locked", "commit", "remove"}
  BY <1>1 DEF Goto, Deliver, Handle, RefuseEarly, AnswerUnchanged, ResolveName, RejectBody,
     StoreBlob, ReserveMetadata, FillMetadata, SealMetadata, Discard, Lock, CheckAgain,
     Commit, Remove, Undo, Cleanup, DropBlob, Reply
<1>10. <<r, crashes>> \in applied => pc'[r] \in {"seal", "discard", "cleanup", "undo", "reply", "done"}
  BY <1>1, <1>9 DEF Goto, Handle, RefuseEarly, AnswerUnchanged, ResolveName, RejectBody,
     StoreBlob, ReserveMetadata, FillMetadata, SealMetadata, Discard, Lock, CheckAgain, Commit, Remove, Undo,
     Cleanup, DropBlob, Reply
<1>11. \A q \in Request : pc'[q] \in {"locked", "commit", "remove"} => lock' = q
  BY <1>1, <1>6, <1>7, SentinelAssumption DEF RevisionsCounted
<1>13. pc'[r] = "commit" =>
          /\ call[r].id \in Stored \/ Creations(call[r].id) # {}
          /\ CreatedOnce(call[r].id)
             => prev'[r].rev = 1 + Cardinality(Updates(call[r].id))
  <2> SUFFICES ASSUME pc'[r] = "commit"
               PROVE  /\ call[r].id \in Stored \/ Creations(call[r].id) # {}
                      /\ CreatedOnce(call[r].id)
                         => prev'[r].rev = 1 + Cardinality(Updates(call[r].id))
    OBVIOUS
  <2>1. Live(call[r].id) /\ prev'[r] = meta[call[r].id]
    BY <1>1, <1>7 DEF CheckAgain, Goto, Allowed, Live
  <2> QED
    BY <1>1, <2>1 DEF RevisionsCounted
<1> QED
  BY <1>1, <1>2, <1>3, <1>5, <1>6, <1>10, <1>11, <1>13 DEF RevisionsCounted

(* A create, an update or a delete becomes visible.                          *)
LEMMA LoudCounts ==
    ASSUME TypeInv, RevisionsCounted, NEW r \in Request, Handle(r), applied' # applied
    PROVE  RevisionsCounted'
<1> DEFINE i == call[r].id
<1>1. /\ pc \in [Request -> Phase] /\ meta \in [Id -> Metadata \cup {Missing, Torn}]
      /\ prev \in [Request -> Metadata \cup {Missing}] /\ crashes \in Nat /\ i \in Id
  BY CallType DEF TypeInv, TypeOK, CallRecord
<1>2. /\ FillMetadata(r) \/ Commit(r) \/ Remove(r)
      /\ Apply(r) /\ pc[r] \in {"fill", "commit", "remove"}
      /\ UNCHANGED <<call, crashes, prev>>
  BY DEF Handle, RefuseEarly, AnswerUnchanged, ResolveName, RejectBody, StoreBlob,
     ReserveMetadata, FillMetadata, SealMetadata, Discard, Lock, CheckAgain, Commit, Remove,
     Undo, Cleanup, DropBlob, Reply
<1>3. pc'[r] \in {"seal", "cleanup", "undo"} /\ \A q \in Request \ {r} : pc'[q] = pc[q]
  BY <1>1, <1>2 DEF FillMetadata, Commit, Remove, Goto
<1>4. <<r, crashes>> \notin applied /\ IsFiniteSet(applied)
  BY <1>2 DEF RevisionsCounted
<1>5. \A j : /\ IsFiniteSet(applied')
             /\ Cardinality(Updates(j)) \in Nat
             /\ Creations(j) \subseteq Creations(j)'
             /\ CreatedOnce(j)' => CreatedOnce(j)
             /\ (call[r].op = "create" /\ i = j)
                => Creations(j)' # {} /\ (CreatedOnce(j)' => j \notin Stored /\ Creations(j) = {})
             /\ ~(call[r].op = "create" /\ i = j) => Creations(j)' = Creations(j)
             /\ ~(call[r].op = "update" /\ i = j) => Updates(j)' = Updates(j)
             /\ (call[r].op = "update" /\ i = j)
                => Cardinality(Updates(j))' = Cardinality(Updates(j)) + 1
  BY <1>2, <1>4, CountsGrow
<1>6. \A e \in applied' : e[2] <= crashes'
  BY <1>1, <1>2 DEF Apply, RevisionsCounted
<1>7. \A q \in Request : <<q, crashes'>> \in applied' /\ q # r => <<q, crashes>> \in applied
  BY <1>2, <1>4 DEF Apply
<1>8. \A q \in Request :
         <<q, crashes'>> \in applied'
         => pc'[q] \in {"seal", "discard", "cleanup", "undo", "reply", "done"}
  BY <1>2, <1>3, <1>4, <1>7 DEF RevisionsCounted
<1>9. CASE FillMetadata(r)
  <2> DEFINE n == File([owner |-> call[r].key, name |-> call[r].name, content |-> call[r].content],
                       BlobKey(r), 1)
  <2>1. /\ pc[r] = "fill" /\ call[r].op = "create" /\ lock' = lock
        /\ meta' = [meta EXCEPT ![i] = n] /\ n.rev = 1
    <3>1. pc[r] = "fill" /\ lock' = lock /\ meta' = [meta EXCEPT ![i] = n]
      BY <1>1, <1>2, <1>3, <1>4, <1>9 DEF FillMetadata, SetMeta, Goto, Apply
    <3>2. n.rev = 1
      BY DEF File
    <3> QED
      BY <3>1, <3>2 DEF TypeInv, PhaseOK
  <2>2. i \notin Stored /\ Creations(i) = {} => Cardinality(Updates(i)) = 0
    BY <1>1, FS_EmptySet DEF RevisionsCounted
  <2> HIDE DEF n
  <2>3. ASSUME NEW j \in Id
        PROVE  /\ j \notin Stored /\ Creations(j)' = {} => ~Live(j)' /\ Updates(j)' = {}
               /\ Live(j)' /\ CreatedOnce(j)' => meta'[j].rev = 1 + Cardinality(Updates(j)')
    <3>1. CASE j = i
      BY <1>1, <1>5, <2>1, <2>2, <3>1 DEF Live
    <3>2. CASE j # i
      BY <1>1, <1>5, <2>1, <3>2 DEF Live, RevisionsCounted
    <3> QED
      BY <3>1, <3>2
  <2>4. ASSUME NEW q \in Request, pc'[q] = "commit"
        PROVE  /\ call'[q].id \in Stored \/ Creations(call[q].id)' # {}
               /\ CreatedOnce(call[q].id)'
                  => prev'[q].rev = 1 + Cardinality(Updates(call[q].id)')
    <3>1. pc[q] = "commit" /\ call' = call /\ prev' = prev
      BY <1>2, <1>3, <2>4
    <3>2. /\ call[q].id \in Stored \/ Creations(call[q].id) # {}
          /\ CreatedOnce(call[q].id) => prev[q].rev = 1 + Cardinality(Updates(call[q].id))
      BY <3>1 DEF RevisionsCounted
    <3>3. PICK k : k = call[q].id /\ k = call'[q].id
      BY <3>1
    <3>4. /\ k \in Stored \/ Creations(k)' # {}
          /\ CreatedOnce(k)' => prev[q].rev = 1 + Cardinality(Updates(k)')
      BY <1>5, <2>1, <3>2, <3>3
    <3> QED
      BY <3>1, <3>3, <3>4
  <2>5. \A q \in Request : pc'[q] \in {"locked", "commit", "remove"} => lock' = q
    BY <1>2, <1>3, <2>1 DEF RevisionsCounted
  <2> QED
    BY <1>5, <1>6, <1>8, <2>3, <2>4, <2>5 DEF RevisionsCounted
<1>10. CASE Commit(r) \/ Remove(r)
  <2>1. lock = r /\ \A q \in Request : pc'[q] \notin {"locked", "commit", "remove"}
    BY <1>2, <1>3, <1>10 DEF RevisionsCounted, Commit, Remove
  <2>2. ASSUME NEW j \in Id, Commit(r)
        PROVE  /\ j \notin Stored /\ Creations(j)' = {} => ~Live(j)' /\ Updates(j)' = {}
               /\ Live(j)' /\ CreatedOnce(j)' => meta'[j].rev = 1 + Cardinality(Updates(j)')
    <3>1. /\ call[r].op = "update"
          /\ meta' = [meta EXCEPT ![i] = Replacement(r)]
          /\ Replacement(r).rev = prev[r].rev + 1
      BY <1>2, <1>4, <2>2 DEF Commit, SetMeta, Replacement, File, TypeInv, PhaseOK, Apply
    <3>2. /\ i \in Stored \/ Creations(i) # {}
          /\ CreatedOnce(i) => prev[r].rev = 1 + Cardinality(Updates(i))
      BY <2>2 DEF RevisionsCounted, Commit
    <3> QED
      BY <1>1, <1>5, <3>1, <3>2 DEF Live, RevisionsCounted
  <2>3. ASSUME NEW j \in Id, Remove(r)
        PROVE  /\ j \notin Stored /\ Creations(j)' = {} => ~Live(j)' /\ Updates(j)' = {}
               /\ Live(j)' /\ CreatedOnce(j)' => meta'[j].rev = 1 + Cardinality(Updates(j)')
    <3>1. call[r].op = "delete" /\ meta' = [meta EXCEPT ![i] = Missing]
      BY <1>2, <1>4, <2>3 DEF Remove, SetMeta, TypeInv, PhaseOK, Apply
    <3> QED
      BY <1>1, <1>5, <3>1 DEF Live, RevisionsCounted
  <2>4. \A j \in Id :
           /\ j \notin Stored /\ Creations(j)' = {} => ~Live(j)' /\ Updates(j)' = {}
           /\ Live(j)' /\ CreatedOnce(j)' => meta'[j].rev = 1 + Cardinality(Updates(j)')
    BY <1>10, <2>2, <2>3
  <2> QED
    BY <1>5, <1>6, <1>8, <2>1, <2>4 DEF RevisionsCounted
<1> QED
  BY <1>2, <1>9, <1>10

LEMMA InitCounts == Init => RevisionsCounted
<1> SUFFICES ASSUME Init PROVE RevisionsCounted
  OBVIOUS
<1>1. /\ applied = {} /\ IsFiniteSet(applied) /\ Cardinality({}) = 0
      /\ \A i : Creations(i) = {} /\ Updates(i) = {}
  BY FS_EmptySet DEF Init, Creations, Updates
<1>2. \A i \in Id : Live(i) => i \in Stored /\ meta[i].rev = 1
  BY PreloadAssumption DEF Init, Live, File
<1>3. pc = [r \in Request |-> "idle"]
  BY DEF Init
<1> QED
  BY <1>1, <1>2, <1>3 DEF RevisionsCounted, Finished

LEMMA NextCounts == TypeInv /\ RevisionsCounted /\ [Next]_vars => RevisionsCounted'
<1> SUFFICES ASSUME TypeInv, RevisionsCounted, [Next]_vars PROVE RevisionsCounted'
  OBVIOUS
<1>1. ASSUME NEW r \in Request, Deliver(r) \/ Handle(r) PROVE RevisionsCounted'
  <2>1. Deliver(r) => applied' = applied
    BY DEF Deliver
  <2> QED
    BY <1>1, <2>1, QuietCounts, LoudCounts
<1>2. CASE UNCHANGED vars \/ \E x \in Reader : Read(x)
  <2>1. UNCHANGED <<meta, lock, pc, call, prev, applied, crashes>>
    BY <1>2 DEF vars, objects, handlers, Read, Get, Open, ReadAgain, FailGet
  <2> QED
    BY <2>1 DEF RevisionsCounted, Creations, Updates, CreatedOnce, Live
<1>3. CASE Crash
  <2>1. /\ UNCHANGED <<meta, call, prev, applied>> /\ crashes' = crashes + 1 /\ crashes \in Nat
        /\ \A r \in Request : pc'[r] \in Finished
    BY <1>3 DEF Crash, objects, Finished, TypeInv, TypeOK
  <2>2. /\ \A r \in Request : <<r, crashes'>> \notin applied
        /\ \A e \in applied : e[2] <= crashes'
    BY <2>1 DEF RevisionsCounted, TypeInv, TypeOK
  <2>3. \A i : /\ Creations(i)' = Creations(i) /\ Updates(i)' = Updates(i)
               /\ CreatedOnce(i)' = CreatedOnce(i) /\ Live(i)' = Live(i)
    BY <2>1 DEF Creations, Updates, CreatedOnce, Live
  <2> QED
    BY <2>1, <2>2, <2>3 DEF RevisionsCounted, Finished
<1> QED
  BY <1>1, <1>2, <1>3 DEF Next, Terminating

(* No update is lost (handleFileUpdate reads the revision again under        *)
(* server.files): the revision of a file is one more than the number of      *)
(* updates that took effect, whatever raced, failed, died or was delivered   *)
(* again.                                                                    *)
THEOREM NoUpdateIsLost == Spec => []RevisionCountsUpdates
<1>1. RevisionsCounted => RevisionCountsUpdates
  BY DEF RevisionsCounted, RevisionCountsUpdates
<1> QED
  BY InitTypeInv, NextTypeInv, InitCounts, NextCounts, <1>1, PTL DEF Spec
=============================================================================
