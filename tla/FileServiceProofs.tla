------------------------- MODULE FileServiceProofs -------------------------
(* HostedFiles implements FileService, misses a file only when it was        *)
(* replaced, and leaves no blob behind: for any number of requests, GETs,    *)
(* files, keys, names and contents, and any bounds, as long as a write that  *)
(* reports an error has not happened and no request is delivered twice.      *)
EXTENDS HostedFilesProofs

USE DEF BlobKey, FilesFree, Unlock, Redirected

(* What a step of the handler of one request leaves alone.                   *)
LEMMA HandlerFrame ==
    ASSUME TypeOK, NEW r \in Request, Deliver(r) \/ Handle(r)
    PROVE  /\ UNCHANGED <<call, readers, crashes>>
           /\ \A q \in Request \ {r} : /\ pc'[q] = pc[q] /\ answer'[q] = answer[q]
                                       /\ prev'[q] = prev[q] /\ named'[q] = named[q]
                                       /\ Applied(q)' = Applied(q)
<1>1. UNCHANGED <<call, readers, crashes>>
  BY DEF Deliver, Handle, RefuseEarly, AnswerUnchanged, ResolveName, RejectBody,
     StoreBlob, ReserveMetadata, FillMetadata, SealMetadata, Discard, Lock, CheckAgain,
     Commit, Remove, Undo, Cleanup, DropBlob, Reply, readers
<1>2. \A q \in Request \ {r} : pc'[q] = pc[q]
  BY DEF TypeOK, Goto, Deliver, Handle, RefuseEarly, AnswerUnchanged, ResolveName, RejectBody,
     StoreBlob, ReserveMetadata, FillMetadata, SealMetadata, Discard, Lock, CheckAgain,
     Commit, Remove, Undo, Cleanup, DropBlob, Reply
<1>3. \A q \in Request \ {r} : answer'[q] = answer[q]
  BY DEF TypeOK, Decide, Deliver, Handle, RefuseEarly, AnswerUnchanged, ResolveName, RejectBody,
     StoreBlob, ReserveMetadata, FillMetadata, SealMetadata, Discard, Lock, CheckAgain,
     Commit, Remove, Undo, Cleanup, DropBlob, Reply
<1>4. \A q \in Request \ {r} : prev'[q] = prev[q] /\ named'[q] = named[q]
  BY DEF TypeOK, Deliver, Handle, RefuseEarly, AnswerUnchanged, ResolveName, RejectBody,
     StoreBlob, ReserveMetadata, FillMetadata, SealMetadata, Discard, Lock, CheckAgain,
     Commit, Remove, Undo, Cleanup, DropBlob, Reply
<1>5. applied' = applied \/ applied' = applied \cup {<<r, crashes>>}
  BY DEF Apply, Deliver, Handle, RefuseEarly, AnswerUnchanged, ResolveName, RejectBody,
     StoreBlob, ReserveMetadata, FillMetadata, SealMetadata, Discard, Lock, CheckAgain,
     Commit, Remove, Undo, Cleanup, DropBlob, Reply
<1>6. \A q \in Request \ {r} : Applied(q)' = Applied(q)
  BY <1>5 DEF Applied
<1> QED
  BY <1>1, <1>2, <1>3, <1>4, <1>6

(* A GET changes nothing but its own state.                                  *)
LEMMA ReaderFrame ==
    ASSUME TypeOK, NEW x \in Reader, Read(x)
    PROVE  /\ UNCHANGED <<objects, lock, handlers, crashes>>
           /\ \A y \in Reader \ {x} : /\ rpc'[y] = rpc[y] /\ ask'[y] = ask[y]
                                      /\ rmeta'[y] = rmeta[y] /\ body'[y] = body[y]
                                      /\ start'[y] = start[y]
  BY DEF TypeOK, Read, Get, Open, ReadAgain, FailGet

(* Whose nonces differ is settled with the calls.                            *)
LEMMA DifferStays ==
    ASSUME call' = call, NEW i
    PROVE  NoncesDiffer(i)' <=> NoncesDiffer(i)
  BY DEF NoncesDiffer, Writers

(* A change that becomes visible is recorded for its request.                *)
LEMMA ApplyRecords ==
    ASSUME NEW r \in Request
    PROVE  /\ Apply(r) => Applied(r)'
           /\ UNCHANGED applied => Applied(r)' = Applied(r)
<1>1. ASSUME Apply(r) PROVE Applied(r)'
  <2>1. <<r, crashes>> \in applied' /\ <<r, crashes>>[1] = r
    BY <1>1 DEF Apply
  <2> QED
    BY <2>1 DEF Applied
<1> QED
  BY <1>1 DEF Applied

-----------------------------------------------------------------------------
(* What a handler has decided, phase by phase.                               *)
LEMMA HandlerOutcome ==
    ASSUME ~LateFaults, ~Redeliver, TypeOK, PhaseOK, NEW r \in Request, OutcomeOK(r),
           Deliver(r) \/ Handle(r)
    PROVE  OutcomeOK(r)'
<1> USE ApplyRecords
<1>1. /\ pc \in [Request -> Phase] /\ prev \in [Request -> Metadata \cup {Missing}]
      /\ answer \in [Request -> Success \cup Refused \cup {"none"}]
      /\ call' = call /\ call[r].op \in {"create", "update", "delete"}
  BY HandlerFrame, CallType DEF TypeOK, CallRecord
<1>2. CASE Deliver(r)
  BY <1>1, <1>2 DEF Deliver, Goto, OutcomeOK, handlers
<1>3. CASE RefuseEarly(r)
  <2>1. Refusal(meta[call[r].id]) \in Refused /\ "error" \in Refused
    BY DEF Refusal, Refused
  <2> QED
    BY <1>1, <1>3, <2>1 DEF RefuseEarly, Goto, Decide, OutcomeOK
<1>4. CASE AnswerUnchanged(r) \/ RejectBody(r) \/ Reply(r)
  BY <1>1, <1>4 DEF AnswerUnchanged, RejectBody, Reply, Goto, Decide, OutcomeOK, Success, Refused
<1>5. CASE ResolveName(r)
  BY <1>1, <1>5 DEF ResolveName, PhaseOK, Goto, OutcomeOK
<1>6. CASE StoreBlob(r)
  BY <1>1, <1>6 DEF StoreBlob, Goto, Decide, OutcomeOK, Refused
<1>7. CASE ReserveMetadata(r) \/ Discard(r) \/ Lock(r)
  BY <1>1, <1>7 DEF ReserveMetadata, Discard, Lock, Goto, Decide, OutcomeOK, Refused
<1>8. CASE FillMetadata(r) \/ SealMetadata(r)
  BY <1>1, <1>8 DEF FillMetadata, SealMetadata, Goto, Decide, OutcomeOK, Refused, Success
<1>9. CASE CheckAgain(r)
  <2>1. Refusal(meta[call[r].id]) \in Refused /\ "error" \in Refused
    BY DEF Refusal, Refused
  <2>2. pc[r] = "locked" /\ applied' = applied
    BY <1>9 DEF CheckAgain
  <2>3. \/ /\ Allowed(call[r].key, meta[call[r].id]) /\ prev'[r] = meta[call[r].id]
           /\ pc'[r] \in {"commit", "remove"} /\ answer' = answer
        \/ /\ answer'[r] \in Refused /\ pc'[r] \in {"undo", "reply"} /\ prev' = prev
    BY <1>1, <1>9, <2>1 DEF CheckAgain, Goto, Decide
  <2> QED
    BY <1>1, <2>2, <2>3 DEF OutcomeOK
<1>10. CASE Commit(r) \/ Remove(r)
  BY <1>1, <1>10 DEF Commit, Remove, Goto, Decide, OutcomeOK, Refused, Success
<1>11. CASE Undo(r) \/ Cleanup(r)
  BY <1>1, <1>11 DEF Undo, Cleanup, DropBlob, Goto, OutcomeOK
<1> QED
  BY <1>2, <1>3, <1>4, <1>5, <1>6, <1>7, <1>8, <1>9, <1>10, <1>11 DEF Handle

LEMMA NextOutcomes ==
    ASSUME ~LateFaults, ~Redeliver, TypeOK, PhaseOK, Outcomes, [Next]_vars
    PROVE  Outcomes'
<1>1. ASSUME NEW r \in Request, Deliver(r) \/ Handle(r) PROVE Outcomes'
  <2>1. OutcomeOK(r)'
    BY <1>1, HandlerOutcome DEF Outcomes
  <2>2. ASSUME NEW q \in Request \ {r} PROVE OutcomeOK(q)'
    BY <1>1, HandlerFrame DEF Outcomes, OutcomeOK
  <2> QED
    BY <2>1, <2>2 DEF Outcomes
<1>2. CASE UNCHANGED vars \/ \E x \in Reader : Read(x)
  <2>1. UNCHANGED handlers
    BY <1>2, ReaderFrame DEF vars
  <2> QED
    BY <2>1 DEF Outcomes, OutcomeOK, Applied, handlers
<1>3. CASE Crash
  <2>1. UNCHANGED <<call, prev, answer, applied>>
    BY <1>3 DEF Crash
  <2>2. \A q \in Request : pc'[q] = pc[q] \/ pc'[q] = "lost"
    BY <1>3 DEF Crash
  <2> QED
    BY <2>1, <2>2 DEF Outcomes, OutcomeOK, Applied
<1> QED
  BY <1>1, <1>2, <1>3 DEF Next, Terminating

-----------------------------------------------------------------------------
(* What a step does to the metadata of one file.                             *)
LEMMA FileStep ==
    ASSUME ~LateFaults, SafeContent, [Next]_vars, NEW i \in Id
    PROVE  \/ meta'[i] = meta[i]
           \/ ~Live(i) /\ ~Live(i)'
           \/ /\ ~Live(i)
              /\ \E r \in Request : /\ call[r].op = "create" /\ call[r].id = i
                                    /\ pc[r] = "fill" /\ pc'[r] = "seal"
           \/ Live(i) /\ ~Live(i)'
           \/ Live(i) /\ Live(i)' /\ meta'[i].rev = meta[i].rev + 1
<1>1. /\ TypeOK /\ PhaseOK /\ meta \in [Id -> Metadata \cup {Missing, Torn}]
      /\ pc \in [Request -> Phase]
  BY DEF SafeContent, TypeOK
<1>2. \A r \in Request : call[r].id \in Id /\ call[r].nonce \in Id
  BY <1>1, CallType DEF TypeOK, CallRecord
<1>3. CASE meta' = meta
  BY <1>3
<1>4. ASSUME NEW r \in Request, ReserveMetadata(r) \/ Discard(r)
      PROVE  meta'[i] = meta[i] \/ (~Live(i) /\ ~Live(i)')
  <2>1. \/ meta' = meta
        \/ /\ ~Live(call[r].id)
           /\ \/ meta' = [meta EXCEPT ![call[r].id] = Torn]
              \/ meta' = [meta EXCEPT ![call[r].id] = Missing]
    BY <1>4 DEF ReserveMetadata, Discard, SetMeta, SafeContent, TornIsOurs, Live
  <2> QED
    BY <1>1, <1>2, <2>1 DEF Live
<1>10. ASSUME NEW r \in Request, FillMetadata(r)
       PROVE  \/ meta'[i] = meta[i]
              \/ /\ ~Live(i) /\ call[r].op = "create" /\ call[r].id = i
                 /\ pc[r] = "fill" /\ pc'[r] = "seal"
  <2>1. ~Live(call[r].id) /\ pc[r] = "fill" /\ call[r].op = "create"
    BY <1>10 DEF FillMetadata, SafeContent, PhaseOK, TornIsOurs, Live
  <2>2. meta' = meta \/ (pc'[r] = "seal" /\ \E m : meta' = [meta EXCEPT ![call[r].id] = m])
    BY <1>1, <1>10 DEF FillMetadata, SetMeta, Goto
  <2> QED
    BY <1>1, <1>2, <2>1, <2>2
<1>5. ASSUME NEW r \in Request, Commit(r)
      PROVE  \/ meta'[i] = meta[i]
             \/ Live(i) /\ Live(i)' /\ meta'[i].rev = meta[i].rev + 1
  <2>1. meta' = meta \/ meta' = [meta EXCEPT ![call[r].id] = Replacement(r)]
    BY <1>5 DEF Commit, SetMeta
  <2>2. /\ Live(call[r].id) /\ prev[r] = meta[call[r].id]
        /\ Replacement(r).rev = prev[r].rev + 1
    BY <1>5 DEF Commit, SafeContent, HoldsLock, Replacement, File
  <2>3. Replacement(r) \notin {Missing, Torn}
    <3>1. prev[r] \in Metadata /\ named[r] \in Name /\ call[r].content \in Content
      BY <1>1, <1>5, CallType DEF Commit, TypeOK, PhaseOK, CallRecord
    <3>2. [owner |-> prev[r].owner, name |-> named[r], content |-> call[r].content] \in Described
      BY <3>1 DEF Described, Metadata
    <3>3. call[r].nonce \in Id /\ prev[r].rev + 1 \in Nat
      BY <1>2, <3>1 DEF Metadata
    <3>4. Replacement(r) \in Metadata
      BY <3>2, <3>3, FileType DEF Replacement
    <3> QED
      BY <3>4, SentinelAssumption
  <2> QED
    BY <1>1, <1>2, <2>1, <2>2, <2>3 DEF Live
<1>6. ASSUME NEW r \in Request, SealMetadata(r) PROVE meta' = meta
  BY <1>6 DEF SealMetadata, objects
<1>7. ASSUME NEW r \in Request, Remove(r)
      PROVE  meta'[i] = meta[i] \/ (Live(i) /\ ~Live(i)')
  BY <1>1, <1>2, <1>7 DEF Remove, SetMeta, SafeContent, HoldsLock, Live
<1>8. ASSUME NEW r \in Request, Deliver(r) \/ Handle(r)
      PROVE  \/ meta' = meta
             \/ ReserveMetadata(r) \/ FillMetadata(r) \/ SealMetadata(r) \/ Discard(r)
             \/ Commit(r) \/ Remove(r)
  BY <1>8 DEF Deliver, Handle, RefuseEarly, AnswerUnchanged, ResolveName, RejectBody,
     StoreBlob, Lock, CheckAgain, Undo, Cleanup, DropBlob, Reply, objects
<1>9. CASE Crash \/ UNCHANGED vars \/ \E x \in Reader : Read(x)
  BY <1>1, <1>3, <1>9, ReaderFrame DEF Crash, vars, objects
<1> QED
  BY <1>3, <1>4, <1>5, <1>6, <1>7, <1>8, <1>9, <1>10 DEF Next, Terminating

(* An id is given to a file once, if nonces differ: when it names a live     *)
(* file, the handler that took it is past its write.                         *)
LEMMA NextIdSettled ==
    ASSUME ~LateFaults, ~Redeliver, SafeContent, IdSettled, [Next]_vars
    PROVE  IdSettled'
<1> SUFFICES ASSUME NEW i \in Id, Live(i)', NoncesDiffer(i)', NEW q \in Request,
                    call'[q].op = "create", call'[q].id = i
             PROVE  pc'[q] \in Past
  BY DEF IdSettled, Given
<1>1. /\ TypeOK /\ call' = call /\ NoncesDiffer(i)
      /\ call[q].op = "create" /\ call[q].id = i
  BY CallStays, DifferStays DEF SafeContent
<1>2. CASE Live(i)
  BY <1>1, <1>2, PastStays DEF IdSettled, Given
<1>3. CASE ~Live(i)
  <2>1. PICK r \in Request : call[r].op = "create" /\ call[r].id = i /\ pc'[r] = "seal"
    BY <1>3, FileStep DEF Live
  <2>2. call[q].nonce = i /\ call[r].nonce = i
    BY <1>1, <2>1, CallType DEF TypeOK
  <2>3. q = r
    BY <1>1, <2>1, <2>2 DEF NoncesDiffer, Writers
  <2> QED
    BY <2>1, <2>3 DEF Past
<1> QED
  BY <1>2, <1>3

(* A file whose id was given either stays as it is, goes for good or has its *)
(* next revision.                                                            *)
LEMMA GivenFile ==
    ASSUME ~LateFaults, SafeContent, [Next]_vars, NEW i \in Id, Given(i), Live(i)'
    PROVE  /\ Live(i)
           /\ meta'[i] = meta[i] \/ meta'[i].rev = meta[i].rev + 1
<1>1. \A r \in Request : call[r].op = "create" /\ call[r].id = i => pc[r] # "fill"
  BY DEF Given, Past
<1> QED
  BY <1>1, FileStep DEF Live

LEMMA GivenStays ==
    ASSUME ~LateFaults, ~Redeliver, TypeOK, [Next]_vars, NEW i, Given(i)
    PROVE  Given(i)'
  BY CallStays, PastStays DEF Given

(* A GET keeps a description that is current or out of date, and knows by    *)
(* how many revisions at least.                                              *)
LEMMA ReaderOrdered ==
    ASSUME SafeContent, IdSettled, ReadsOrdered, NEW x \in Reader, Read(x)
    PROVE  ReadsOrdered'
<1>1. /\ TypeOK /\ PhaseOK /\ rpc \in [Reader -> Waiting \cup Got]
      /\ ask \in [Reader -> [id : Id, name : Name]] /\ start \in [Reader -> Nat]
      /\ rmeta \in [Reader -> Metadata \cup {Missing}]
      /\ meta \in [Id -> Metadata \cup {Missing, Torn}]
  BY DEF SafeContent, TypeOK
<1>2. UNCHANGED <<meta, pc, call>>
  BY <1>1, ReaderFrame DEF objects, handlers
<1>3. ask'[x].id = ask[x].id
  BY <1>1 DEF Read, Get, Open, ReadAgain, FailGet
<1>4. ASSUME rpc'[x] \in {"open", "again", "reopen"}, NoncesDiffer(ask[x].id)
      PROVE  LET m == meta[ask[x].id] IN
             /\ Given(ask[x].id)
             /\ Live(ask[x].id) => /\ rmeta'[x].rev <= m.rev
                                   /\ rmeta'[x].rev = m.rev => rmeta'[x] = m
             /\ rpc'[x] \in {"open", "again"} => rmeta'[x].rev = start'[x]
             /\ rpc'[x] = "again" /\ Live(ask[x].id) => start'[x] < m.rev
             /\ rpc'[x] = "reopen" => start'[x] < rmeta'[x].rev
  <2> DEFINE m == meta[ask[x].id]
  <2>1. m \in Metadata => m.rev \in Nat
    BY DEF Metadata
  <2>2. ask[x].id \in Id /\ (Live(ask[x].id) => m \in Metadata)
    BY <1>1 DEF Live
  <2>3. CASE Get(x)
    <3>1. Live(ask[x].id) /\ rmeta'[x] = m /\ start'[x] = m.rev /\ rpc'[x] = "open"
      BY <1>1, <1>4, <2>3 DEF Get, Live
    <3> QED
      BY <1>4, <2>1, <2>2, <3>1 DEF IdSettled
  <2>4. CASE Open(x)
    <3>1. /\ rpc[x] = "open" /\ rpc'[x] = "again" /\ UNCHANGED <<rmeta, start>>
          /\ blobs[<<ask[x].id, rmeta[x].blob>>] = NoBlob
      BY <1>1, <1>4, <2>4 DEF Open
    <3>2. Live(ask[x].id) => rmeta[x] # m
      BY <1>1, <1>4, <2>2, <3>1, SentinelAssumption DEF SafeContent, LiveBlob, Metadata
    <3>3. rmeta[x] \in Metadata /\ rmeta[x].rev \in Nat
      BY <1>1, <3>1 DEF PhaseOK, Metadata
    <3> QED
      BY <1>4, <2>1, <2>2, <3>1, <3>2, <3>3 DEF ReadsOrdered
  <2>5. CASE ReadAgain(x)
    <3>1. /\ rpc[x] = "again" /\ rpc'[x] = "reopen" /\ start' = start
          /\ Live(ask[x].id) /\ rmeta'[x] = m
      BY <1>1, <1>4, <2>5 DEF ReadAgain, Live
    <3> QED
      BY <1>4, <2>1, <2>2, <3>1 DEF ReadsOrdered
  <2>6. ~FailGet(x)
    BY <1>1, <1>4 DEF FailGet
  <2> QED
    BY <2>3, <2>4, <2>5, <2>6 DEF Read
<1>5. ASSUME NEW y \in Reader \ {x}
      PROVE  UNCHANGED <<rpc[y], ask[y], rmeta[y], start[y]>>
  BY <1>1, ReaderFrame
<1>6. \A i \in Id : /\ Given(i)' = Given(i) /\ Live(i)' = Live(i) /\ meta'[i] = meta[i]
                    /\ NoncesDiffer(i)' <=> NoncesDiffer(i)
  BY <1>2, DifferStays DEF Given, Live
<1>7. \A y \in Reader : ask[y].id \in Id
  BY <1>1
<1> QED
  BY <1>3, <1>4, <1>5, <1>6, <1>7 DEF ReadsOrdered

LEMMA NextReadsOrdered ==
    ASSUME ~LateFaults, ~Redeliver, SafeContent, IdSettled, ReadsOrdered, [Next]_vars
    PROVE  ReadsOrdered'
<1>1. CASE \E x \in Reader : Read(x)
  BY <1>1, ReaderOrdered
<1>2. CASE ~\E x \in Reader : Read(x)
  <2> SUFFICES ASSUME NEW x \in Reader, rpc'[x] \in {"open", "again", "reopen"},
                      NoncesDiffer(ask[x].id)'
               PROVE  LET m == meta'[ask'[x].id] IN
                      /\ Given(ask[x].id)'
                      /\ Live(ask[x].id)' => /\ rmeta'[x].rev <= m.rev
                                             /\ rmeta'[x].rev = m.rev => rmeta'[x] = m
                      /\ rpc'[x] \in {"open", "again"} => rmeta'[x].rev = start'[x]
                      /\ rpc'[x] = "again" /\ Live(ask[x].id)' => start'[x] < m.rev
                      /\ rpc'[x] = "reopen" => start'[x] < rmeta'[x].rev
    BY DEF ReadsOrdered
  <2>1. UNCHANGED <<ask, rmeta, start>>
    BY <1>2, HandlerFrame DEF Next, Terminating, vars, readers, Crash, SafeContent
  <2>2. rpc'[x] = rpc[x]
    BY <1>2, HandlerFrame DEF Next, Terminating, vars, readers, Crash, SafeContent, Waiting, TypeOK
  <2>3. ask[x].id \in Id /\ rmeta[x] \in Metadata /\ start[x] \in Nat /\ rmeta[x].rev \in Nat
    BY <2>2 DEF SafeContent, TypeOK, PhaseOK, Metadata
  <2>7. NoncesDiffer(ask[x].id)
    <3>1. \A i : NoncesDiffer(i)' <=> NoncesDiffer(i)
      BY CallStays, DifferStays
    <3> QED
      BY <2>1, <3>1 DEF NoncesDiffer, Writers
  <2>4. Given(ask[x].id) /\ Given(ask[x].id)'
    <3>1. Given(ask[x].id)
      BY <2>2, <2>7 DEF ReadsOrdered
    <3>2. \A i : Given(i) => Given(i)'
      BY GivenStays DEF SafeContent
    <3> QED
      BY <2>1, <3>1, <3>2 DEF Given
  <2>5. CASE ~Live(ask[x].id)'
    BY <2>1, <2>2, <2>4, <2>5, <2>7 DEF ReadsOrdered
  <2>6. CASE Live(ask[x].id)'
    <3>0. PICK i \in Id : i = ask[x].id /\ i = ask'[x].id
      BY <2>1, <2>3
    <3>1. /\ Live(ask[x].id)
          /\ \/ meta'[ask[x].id] = meta[ask[x].id]
             \/ meta'[ask[x].id].rev = meta[ask[x].id].rev + 1
      <4>1. Given(i) /\ Live(i)'
        BY <2>4, <2>6, <3>0 DEF Live
      <4> QED
        BY <3>0, <4>1, GivenFile
    <3>2. meta[ask[x].id].rev \in Nat
      BY <2>3, <3>1 DEF SafeContent, TypeOK, Live, Metadata
    <3> QED
      BY <2>1, <2>2, <2>3, <2>4, <2>7, <3>1, <3>2 DEF ReadsOrdered
  <2> QED
    BY <2>5, <2>6
<1> QED
  BY <1>1, <1>2

-----------------------------------------------------------------------------
(* All of it together, for handlers, GETs and crashes in any order.          *)
ServiceInv == /\ SafeContent /\ Outcomes /\ IdSettled
              /\ ReadsOrdered /\ ReadsSettled /\ GetConsistent

LEMMA InitServiceInv == Init => ServiceInv
<1> SUFFICES ASSUME Init PROVE ServiceInv
  OBVIOUS
<1>1. SafeContent
  BY InitSafeContent
<1>2. Outcomes
  BY DEF Init, Outcomes, OutcomeOK, Applied
<1>3. IdSettled
  <2> SUFFICES ASSUME NEW i \in Id, Live(i), NoncesDiffer(i), NEW r \in Request,
                      call[r].op = "create", call[r].id = i
               PROVE  FALSE
    BY DEF IdSettled, Given
  <2>1. i \notin Stored => meta[i] = Missing
    BY DEF Init
  <2>2. call[r].nonce = i
    BY CallType DEF Init
  <2> QED
    BY <2>1, <2>2 DEF Live, NoncesDiffer, Writers
<1>4. ReadsOrdered /\ ReadsSettled /\ GetConsistent
  BY DEF Init, ReadsOrdered, ReadsSettled, GetConsistent
<1> QED
  BY <1>1, <1>2, <1>3, <1>4 DEF ServiceInv

(* In every reachable state a handler has decided what its phase says, and a *)
(* GET holds a description that is current or older than the file's.         *)
THEOREM ServiceInvariant ==
    ASSUME ~LateFaults, ~Redeliver
    PROVE  Spec => []ServiceInv
<1>1. ServiceInv /\ [Next]_vars => ServiceInv'
  BY NextSafeContent, NextOutcomes, NextIdSettled, NextReadsOrdered, NextReadsSettled
     DEF ServiceInv, SafeContent
<1> QED
  BY InitServiceInv, <1>1, PTL DEF Spec

(* handleFile (files.go) answers "not found" for a file that is there only   *)
(* when the file was updated twice since the GET first read its metadata:    *)
(* its second read would have found the first replacement.  The nonces of    *)
(* the file's writers differ.                                                *)
THEOREM NotFoundIsReplaced ==
    ASSUME ~LateFaults, ~Redeliver
    PROVE  Spec => NotFoundOnlyIfReplaced
<1>1. ASSUME ServiceInv, [Next]_vars, NEW x \in Reader,
             rpc[x] \in {"again", "reopen"}, rpc'[x] = "notFound",
             NoncesDiffer(ask[x].id), Live(ask[x].id)
      PROVE  meta[ask[x].id].rev >= start[x] + 2
  <2>1. /\ TypeOK /\ PhaseOK /\ LiveBlob /\ rmeta[x] \in Metadata /\ ask[x].id \in Id
        /\ meta[ask[x].id] \in Metadata /\ start[x] \in Nat
        /\ rmeta[x].rev \in Nat /\ meta[ask[x].id].rev \in Nat
    BY <1>1 DEF ServiceInv, SafeContent, TypeOK, PhaseOK, Live, Metadata
  <2>2. \E y \in Reader : Read(y)
    BY <1>1, <2>1, HandlerFrame DEF Next, Terminating, vars, readers, Crash, TypeOK, Waiting
  <2>3. Read(x)
    BY <1>1, <2>1, <2>2, ReaderFrame
  <2>4. rpc[x] = "reopen" /\ blobs[<<ask[x].id, rmeta[x].blob>>] = NoBlob
    BY <1>1, <2>1, <2>3 DEF Read, Get, Open, ReadAgain, FailGet, TypeOK, Live
  <2>5. rmeta[x] # meta[ask[x].id]
    BY <1>1, <2>1, <2>4, SentinelAssumption DEF LiveBlob, Metadata
  <2>6. start[x] < rmeta[x].rev /\ rmeta[x].rev < meta[ask[x].id].rev
    BY <1>1, <2>1, <2>4, <2>5 DEF ServiceInv, ReadsOrdered
  <2> QED
    BY <2>1, <2>6
<1>2. ServiceInv /\ [Next]_vars
      => [\A x \in Reader : (/\ rpc[x] \in {"again", "reopen"} /\ rpc'[x] = "notFound"
                             /\ NoncesDiffer(ask[x].id))
             => \/ ~Live(ask[x].id)
                \/ meta[ask[x].id].rev >= start[x] + 2]_vars
  BY <1>1
<1> QED
  BY ServiceInvariant, <1>2, PTL DEF Spec, NotFoundOnlyIfReplaced

-----------------------------------------------------------------------------
(* What the service sees.                                                    *)
Fs == [i \in Id |-> IF Live(i) THEN FileOf(i) ELSE Missing]
St == [r \in Request |-> StatusOf(r)]

(* A file is its metadata, since the content that it names is there.         *)
LEMMA FilesAre ==
    ASSUME LiveBlob
    PROVE  Fs = [i \in Id |-> IF Live(i) THEN VersionOf(meta[i], meta[i].content) ELSE Missing]
  BY DEF LiveBlob, Fs, FileOf

LEMMA FilesAreNext ==
    ASSUME LiveBlob'
    PROVE  Fs' = [i \in Id |-> IF Live(i)' THEN VersionOf(meta'[i], meta'[i].content)
                               ELSE Missing]
<1>1. (LiveBlob
       => Fs = [i \in Id |-> IF Live(i) THEN VersionOf(meta[i], meta[i].content)
                             ELSE Missing])'
  BY FilesAre, PTL
<1> QED
  BY <1>1

(* How far a request is, from its phase and its answer.                      *)
Shown(phase, a) ==
    IF phase \in {"idle", "lost"} THEN phase
    ELSE IF phase \in {"seal", "cleanup"} THEN "applied"
    ELSE IF phase \in {"discard", "undo"} THEN "refused"
    ELSE IF phase = "reply" THEN IF a \in Success THEN "applied" ELSE "refused"
    ELSE IF phase = "done" THEN IF a \in Success THEN "ok" ELSE "failed"
    ELSE "pending"

LEMMA StatusIs ==
    ASSUME TypeOK, NEW r \in Request, OutcomeOK(r)
    PROVE  StatusOf(r) = Shown(pc[r], answer[r])
<1>1. pc[r] \in Phase /\ answer[r] \in Success \cup Refused \cup {"none"}
  BY DEF TypeOK
<1>2. Success \cap Refused = {} /\ "none" \notin Success \cup Refused
  BY DEF Success, Refused
<1> QED
  BY <1>1, <1>2 DEF StatusOf, OutcomeOK, Phase, Finished, Applied, Shown

LEMMA StatusIsNext ==
    ASSUME TypeOK', NEW r \in Request, OutcomeOK(r)'
    PROVE  StatusOf(r)' = Shown(pc'[r], answer'[r])
<1>1. (TypeOK /\ OutcomeOK(r) => StatusOf(r) = Shown(pc[r], answer[r]))'
  BY StatusIs, PTL
<1> QED
  BY <1>1

(* One request moves on in the eyes of the service.                          *)
LEMMA StatusSet ==
    ASSUME NEW r \in Request, NEW from, NEW to, StatusOf(r) \in from, StatusOf(r)' = to,
           \A q \in Request \ {r} : /\ pc'[q] = pc[q] /\ answer'[q] = answer[q]
                                    /\ Applied(q)' = Applied(q)
    PROVE  Service!Becomes(r, from, to)
<1>1. \A q \in Request \ {r} : StatusOf(q)' = StatusOf(q)
  BY DEF StatusOf, Applied
<1> QED
  BY <1>1 DEF Service!Becomes

LEMMA GetsUntouched == UNCHANGED <<call, readers>> => Service!Unread
  BY DEF readers, Service!Unread, GotOf, SentOf, NoncesDiffer, Writers

LEMMA FilesUntouched ==
    UNCHANGED <<objects, handlers>> => Service!Unwritten
<1> SUFFICES ASSUME UNCHANGED <<objects, handlers>> PROVE Service!Unwritten
  OBVIOUS
<1>1. Fs' = Fs /\ St' = St
  BY DEF objects, handlers, Fs, FileOf, NoncesDiffer, Writers, St, Live, StatusOf
<1> QED
  BY <1>1 DEF handlers, Service!Unwritten, Fs, St

(* Whether the files look the same to the service.                           *)
LEMMA SameFiles ==
    ASSUME LiveBlob, LiveBlob',
           \A i \in Id : meta'[i] # meta[i] => ~Live(i) /\ ~Live(i)'
    PROVE  Fs' = Fs
<1>1. Fs = [i \in Id |-> IF Live(i) THEN VersionOf(meta[i], meta[i].content) ELSE Missing]
  BY FilesAre
<1>2. Fs' = [i \in Id |-> IF Live(i)' THEN VersionOf(meta'[i], meta'[i].content) ELSE Missing]
  BY FilesAreNext
<1> QED
  BY <1>1, <1>2 DEF Live

(* One file changes in the eyes of the service.                              *)
LEMMA FileSet ==
    ASSUME LiveBlob, LiveBlob', NEW k \in Id, NEW m, m \notin {Missing, Torn},
           meta \in [Id -> Metadata \cup {Missing, Torn}], meta' = [meta EXCEPT ![k] = m]
    PROVE  Fs' = [Fs EXCEPT ![k] = VersionOf(m, m.content)]
<1>1. Fs = [i \in Id |-> IF Live(i) THEN VersionOf(meta[i], meta[i].content) ELSE Missing]
  BY FilesAre
<1>2. Fs' = [i \in Id |-> IF Live(i)' THEN VersionOf(meta'[i], meta'[i].content) ELSE Missing]
  BY FilesAreNext
<1>3. meta'[k] = m /\ \A i \in Id : i # k => meta'[i] = meta[i]
  OBVIOUS
<1> QED
  BY <1>1, <1>2, <1>3 DEF Live

(* What the service knows of the file that a request is about.               *)
LEMMA FileSeen ==
    ASSUME LiveBlob, TypeOK, NEW r \in Request
    PROVE  LET m == meta[call[r].id] IN
           /\ call[r].id \in Id
           /\ Fs[call[r].id] = IF m \in {Missing, Torn} THEN Missing
                               ELSE VersionOf(m, m.content)
           /\ Fs[call[r].id] # Missing <=> m \notin {Missing, Torn}
           /\ Service!MayChange(r) <=> Allowed(call[r].key, m)
<1> DEFINE i == call[r].id
           m == meta[i]
<1>1. i \in Id
  BY CallType DEF TypeOK, CallRecord
<1>2. Fs[i] = IF m \in {Missing, Torn} THEN Missing ELSE VersionOf(m, m.content)
  BY <1>1, FilesAre DEF Live
<1>3. m \notin {Missing, Torn} => /\ VersionOf(m, m.content) # Missing
                                  /\ VersionOf(m, m.content).owner = m.owner
  <2>1. m \notin {Missing, Torn}
        => VersionOf(m, m.content) \in [owner : Key, name : Name, content : Content, rev : Nat]
    BY <1>1 DEF TypeOK, Metadata, VersionOf
  <2> QED
    BY <2>1, SentinelAssumption DEF VersionOf
<1> QED
  BY <1>1, <1>2, <1>3 DEF Service!MayChange, Allowed, Fs

-----------------------------------------------------------------------------
(* The steps of a handler that the service does not see, and its refusals.   *)
LEMMA QuietStep ==
    ASSUME ServiceInv, ServiceInv', NEW r \in Request, Deliver(r) \/ Handle(r),
           \A i \in Id : meta'[i] # meta[i] => ~Live(i) /\ ~Live(i)',
           pc[r] \in {"check", "upload", "create", "fill", "lock", "locked", "commit", "remove"},
           pc'[r] \in {"upload", "create", "fill", "lock", "locked", "commit", "remove"}
           \/ (pc'[r] \in {"discard", "undo", "reply"} /\ answer'[r] \in Refused),
           named' = named
    PROVE  Service!Refuse(r) \/ (Fs' = Fs /\ St' = St)
<1>1. /\ TypeOK /\ TypeOK' /\ LiveBlob /\ LiveBlob'
      /\ StatusOf(r) = "pending" /\ StatusOf(r)' = Shown(pc'[r], answer'[r])
  BY StatusIs, StatusIsNext DEF ServiceInv, SafeContent, Outcomes, Shown
<1>2. Fs' = Fs
  BY <1>1, SameFiles
<1>3. /\ UNCHANGED <<call, readers>>
      /\ \A q \in Request \ {r} : /\ pc'[q] = pc[q] /\ answer'[q] = answer[q]
                                  /\ Applied(q)' = Applied(q)
  BY <1>1, HandlerFrame
<1>4. CASE pc'[r] \in {"upload", "create", "fill", "lock", "locked", "commit", "remove"}
  <2>1. StatusOf(r)' = "pending"
    BY <1>1, <1>4 DEF Shown
  <2>2. St' = St
    BY <1>1, <1>3, <2>1 DEF St, StatusOf, Applied
  <2> QED
    BY <1>2, <2>2
<1>5. CASE pc'[r] \in {"discard", "undo", "reply"} /\ answer'[r] \in Refused
  <2>1. StatusOf(r)' = "refused"
    BY <1>1, <1>5 DEF Success, Refused, Shown
  <2>2. Service!Becomes(r, {"pending"}, "refused") /\ Service!Unread
    BY <1>1, <1>3, <2>1, StatusSet, GetsUntouched
  <2> QED
    BY <1>2, <1>3, <2>2 DEF Service!Refuse, Fs
<1> QED
  BY <1>4, <1>5

(* The first step of a handler, the steps after the change is visible, and   *)
(* the answer.                                                               *)
LEMMA OuterStep ==
    ASSUME ServiceInv, ServiceInv', NEW r \in Request,
           Deliver(r) \/ SealMetadata(r) \/ Discard(r) \/ Undo(r) \/ Cleanup(r) \/ Reply(r),
           ~LateFaults, ~Redeliver
    PROVE  Service!Invoke(r) \/ Service!Respond(r) \/ (Fs' = Fs /\ St' = St)
<1>1. /\ TypeOK /\ TypeOK' /\ LiveBlob /\ LiveBlob' /\ OutcomeOK(r) /\ OutcomeOK(r)'
      /\ StatusOf(r) = Shown(pc[r], answer[r]) /\ StatusOf(r)' = Shown(pc'[r], answer'[r])
  BY StatusIs, StatusIsNext DEF ServiceInv, SafeContent, Outcomes
<1>2. /\ UNCHANGED <<call, readers>>
      /\ \A q \in Request \ {r} : /\ pc'[q] = pc[q] /\ answer'[q] = answer[q]
                                  /\ Applied(q)' = Applied(q)
  BY <1>1, HandlerFrame DEF Handle
<1>3. /\ named' = named
      /\ \A i \in Id : meta'[i] # meta[i] => ~Live(i) /\ ~Live(i)'
  <2>1. named' = named
    BY DEF Deliver, SealMetadata, Discard, Undo, Cleanup, DropBlob, Reply
  <2>2. CASE Discard(r)
    <3>1. meta[call[r].id] = Torn /\ meta \in [Id -> Metadata \cup {Missing, Torn}]
      BY <2>2 DEF Discard, ServiceInv, SafeContent, TornIsOurs, TypeOK
    <3>2. meta' = meta \/ meta' = [meta EXCEPT ![call[r].id] = Missing]
      BY <2>2 DEF Discard, SetMeta
    <3> QED
      BY <2>1, <3>1, <3>2 DEF Live
  <2>3. CASE Deliver(r) \/ SealMetadata(r) \/ Undo(r) \/ Cleanup(r) \/ Reply(r)
    <3>1. meta' = meta
      BY <2>3 DEF Deliver, SealMetadata, Undo, Cleanup, DropBlob, Reply, objects
    <3> QED
      BY <2>1, <3>1
  <2> QED
    BY <2>2, <2>3
<1>4. Fs' = Fs
  BY <1>1, <1>3, SameFiles
<1>5. Service!Unread
  BY <1>2, GetsUntouched
<1>6. CASE Deliver(r)
  <2>1. pc[r] = "idle" /\ pc'[r] \in {"upload", "check", "lock"}
    BY <1>1, <1>6, CallType DEF Deliver, Goto, TypeOK, CallRecord
  <2>2. Service!Becomes(r, {"idle"}, "pending")
    BY <1>1, <1>2, <2>1, StatusSet DEF Shown
  <2> QED
    BY <1>2, <1>3, <1>4, <1>5, <2>2 DEF Service!Invoke, Fs
<1>7. CASE Reply(r)
  <2>1. pc[r] = "reply" /\ pc'[r] = "done" /\ answer'[r] = answer[r]
    BY <1>1, <1>7 DEF Reply, Goto, TypeOK
  <2>2. Service!Becomes(r, {"applied"}, "ok") \/ Service!Becomes(r, {"refused"}, "failed")
    BY <1>1, <1>2, <2>1, StatusSet DEF Shown
  <2> QED
    BY <1>2, <1>3, <1>4, <1>5, <2>2 DEF Service!Respond, Fs
<1>8. CASE SealMetadata(r) \/ Discard(r) \/ Undo(r) \/ Cleanup(r)
  <2>1. StatusOf(r)' = StatusOf(r)
    <3>1. CASE SealMetadata(r)
      <4>1. pc[r] = "seal" /\ pc'[r] = "reply" /\ answer'[r] = "created"
        BY <1>1, <3>1 DEF SealMetadata, Goto, Decide, TypeOK
      <4> QED
        BY <1>1, <4>1 DEF Shown, Success
    <3>2. CASE Undo(r) \/ Cleanup(r)
      <4>1. pc[r] \in {"undo", "cleanup"} /\ pc'[r] = "reply" /\ answer'[r] = answer[r]
        BY <1>1, <3>2 DEF Undo, Cleanup, DropBlob, Goto, TypeOK
      <4> QED
        BY <1>1, <4>1 DEF Shown, OutcomeOK, Success, Refused
    <3>3. CASE Discard(r)
      <4>1. pc[r] = "discard" /\ pc'[r] = "undo"
        BY <1>1, <3>3 DEF Discard, Goto, TypeOK
      <4> QED
        BY <1>1, <4>1 DEF Shown
    <3> QED
      BY <1>8, <3>1, <3>2, <3>3
  <2>2. St' = St
    BY <1>2, <2>1 DEF St, StatusOf, Applied
  <2> QED
    BY <1>4, <2>2
<1> QED
  BY <1>6, <1>7, <1>8

(* An update that gives no name settles on the one that the file has.        *)
LEMMA ResolveIsChoice ==
    ASSUME ServiceInv, ServiceInv', NEW r \in Request, ResolveName(r)
    PROVE  Service!Choose(r)
<1> DEFINE m == meta[call[r].id]
           f == Fs[call[r].id]
<1>1. /\ TypeOK /\ TypeOK' /\ LiveBlob /\ LiveBlob' /\ PhaseOK
      /\ StatusOf(r) = Shown(pc[r], answer[r]) /\ StatusOf(r)' = Shown(pc'[r], answer'[r])
  BY StatusIs, StatusIsNext DEF ServiceInv, SafeContent, Outcomes
<1>2. /\ UNCHANGED <<call, readers>> /\ meta' = meta
      /\ \A q \in Request \ {r} : /\ pc'[q] = pc[q] /\ answer'[q] = answer[q]
                                  /\ Applied(q)' = Applied(q)
  BY <1>1, HandlerFrame DEF Handle, ResolveName, objects
<1>3. /\ pc[r] = "check" /\ pc'[r] = "upload" /\ call[r].op = "update"
      /\ Allowed(call[r].key, m) /\ named' = [named EXCEPT ![r] = Resolved(call[r], m)]
  BY <1>1 DEF ResolveName, Goto, TypeOK, PhaseOK
<1>4. Fs' = Fs /\ Service!Unread
  BY <1>1, <1>2, SameFiles, GetsUntouched
<1>5. StatusOf(r) = "pending" /\ St' = St
  <2>1. StatusOf(r) = "pending" /\ StatusOf(r)' = "pending"
    BY <1>1, <1>3 DEF Shown
  <2> QED
    BY <1>2, <2>1 DEF St, StatusOf, Applied
<1>6. f = VersionOf(m, m.content) /\ f.name = m.name /\ Service!MayChange(r)
  BY <1>1, <1>3, FileSeen DEF Allowed, VersionOf
<1>7. named' = [named EXCEPT ![r] = IF call[r].name = KeepName THEN f.name ELSE call[r].name]
  BY <1>3, <1>6 DEF Resolved
<1> QED
  BY <1>2, <1>3, <1>4, <1>5, <1>6, <1>7 DEF Service!Choose, Fs, St

(* A create takes effect when its metadata is written.                       *)
LEMMA CreateIsEffect ==
    ASSUME ~LateFaults, ServiceInv, ServiceInv', NEW r \in Request, FillMetadata(r),
           pc'[r] = "seal"
    PROVE  Service!Effect(r)
<1> DEFINE d == [owner |-> call[r].key, name |-> call[r].name, content |-> call[r].content]
           n == File(d, call[r].nonce, 1)
<1>1. /\ TypeOK /\ TypeOK' /\ LiveBlob /\ LiveBlob' /\ PhaseOK /\ TornIsOurs
      /\ StatusOf(r) = Shown(pc[r], answer[r]) /\ StatusOf(r)' = Shown(pc'[r], answer'[r])
  BY StatusIs, StatusIsNext DEF ServiceInv, SafeContent, Outcomes
<1>2. /\ UNCHANGED <<call, readers, named>>
      /\ \A q \in Request \ {r} : /\ pc'[q] = pc[q] /\ answer'[q] = answer[q]
                                  /\ Applied(q)' = Applied(q)
  BY <1>1, HandlerFrame DEF Handle, FillMetadata
<1>3. /\ pc[r] = "fill" /\ call[r].op = "create" /\ meta[call[r].id] = Torn
      /\ meta' = [meta EXCEPT ![call[r].id] = n]
  BY <1>1 DEF FillMetadata, Goto, TypeOK, PhaseOK, TornIsOurs, SetMeta
<1>4. n \in Metadata /\ call[r].id \in Id
  <2>1. d \in Described /\ call[r].nonce \in Id /\ call[r].id \in Id /\ 1 \in Nat
    BY <1>1, <1>3, CallType DEF Described, TypeOK, CallRecord
  <2> HIDE DEF d
  <2> QED
    BY <2>1, FileType
<1>5. VersionOf(n, n.content)
      = [owner |-> call[r].key, name |-> call[r].name, content |-> call[r].content, rev |-> 1]
  BY DEF VersionOf, File
<1> HIDE DEF n
<1>6. Fs' = [Fs EXCEPT ![call[r].id] = VersionOf(n, n.content)]
  <2>1. n \notin {Missing, Torn} /\ meta \in [Id -> Metadata \cup {Missing, Torn}]
    BY <1>1, <1>4, SentinelAssumption DEF TypeOK
  <2> QED
    BY <1>1, <1>3, <1>4, <2>1, FileSet
<1>7. Fs[call[r].id] = Missing
  BY <1>1, <1>3, FileSeen
<1>8. Service!Becomes(r, {"pending"}, "applied") /\ Service!Unread
  BY <1>1, <1>2, <1>3, StatusSet, GetsUntouched DEF Shown
<1> QED
  BY <1>2, <1>3, <1>5, <1>6, <1>7, <1>8 DEF Service!Effect, Fs

(* The next version of a file, written out.                                  *)
LEMMA NextVersion ==
    ASSUME NEW v, NEW b, NEW d,
           v = [owner |-> v.owner, name |-> v.name, content |-> v.content, rev |-> v.rev]
    PROVE  [v EXCEPT !.name = b, !.content = d, !.rev = @ + 1]
           = [owner |-> v.owner, name |-> b, content |-> d, rev |-> v.rev + 1]
<1> DEFINE w == [v EXCEPT !.name = b, !.content = d, !.rev = v.rev + 1]
           u == [owner |-> v.owner, name |-> b, content |-> d, rev |-> v.rev + 1]
<1>1. DOMAIN w = {"owner", "name", "content", "rev"} /\ w = [i \in DOMAIN w |-> w[i]]
  <2>1. DOMAIN w = DOMAIN v /\ w = [i \in DOMAIN w |-> w[i]]
    BY Zenon
  <2>2. DOMAIN v = {"owner", "name", "content", "rev"}
    OBVIOUS
  <2> QED
    BY <2>1, <2>2
<1>2. /\ w["owner"] = v.owner /\ w["name"] = b
      /\ w["content"] = d /\ w["rev"] = v.rev + 1
  OBVIOUS
<1>3. /\ DOMAIN u = {"owner", "name", "content", "rev"} /\ u = [i \in DOMAIN u |-> u[i]]
      /\ u["owner"] = v.owner /\ u["name"] = b
      /\ u["content"] = d /\ u["rev"] = v.rev + 1
  OBVIOUS
<1>4. w = u
  <2> HIDE DEF w, u
  <2>1. DOMAIN w = DOMAIN u /\ \A i \in DOMAIN w : w[i] = u[i]
    BY <1>1, <1>2, <1>3
  <2>2. [i \in DOMAIN w |-> w[i]] = [i \in DOMAIN u |-> u[i]]
    BY <2>1
  <2> QED
    BY <2>2, <1>1, <1>3
<1> QED
  BY <1>4

(* An update takes effect when its metadata replaces what it read under the  *)
(* lock: the file is still the one that it was allowed to change.            *)
LEMMA CommitIsEffect ==
    ASSUME ~LateFaults, ServiceInv, ServiceInv', NEW r \in Request, Commit(r),
           pc'[r] = "cleanup"
    PROVE  Service!Effect(r)
<1> DEFINE m == meta[call[r].id]
           n == Replacement(r)
           f == Fs[call[r].id]
<1>1. /\ TypeOK /\ TypeOK' /\ LiveBlob /\ LiveBlob' /\ PhaseOK /\ HoldsLock /\ OutcomeOK(r)
      /\ StatusOf(r) = Shown(pc[r], answer[r]) /\ StatusOf(r)' = Shown(pc'[r], answer'[r])
  BY StatusIs, StatusIsNext DEF ServiceInv, SafeContent, Outcomes
<1>2. /\ UNCHANGED <<call, readers, named>>
      /\ \A q \in Request \ {r} : /\ pc'[q] = pc[q] /\ answer'[q] = answer[q]
                                  /\ Applied(q)' = Applied(q)
  BY <1>1, HandlerFrame DEF Handle, Commit
<1>3. /\ pc[r] = "commit" /\ call[r].op = "update" /\ prev[r] = m
      /\ Allowed(call[r].key, m) /\ meta' = [meta EXCEPT ![call[r].id] = n]
  BY <1>1 DEF Commit, Goto, TypeOK, PhaseOK, HoldsLock, SetMeta, OutcomeOK
<1>4. n \in Metadata /\ call[r].id \in Id /\ m \in Metadata
  <2> DEFINE d == [owner |-> prev[r].owner, name |-> named[r], content |-> call[r].content]
  <2>1. /\ call[r].id \in Id /\ call[r].content \in Content /\ named[r] \in Name
        /\ m \in Metadata /\ call[r].nonce \in Id
    BY <1>1, <1>3, CallType DEF TypeOK, CallRecord, PhaseOK, Allowed
  <2>2. d \in Described /\ prev[r].rev + 1 \in Nat
    BY <1>3, <2>1 DEF Described, Metadata
  <2>3. n = File(d, call[r].nonce, prev[r].rev + 1)
    BY DEF Replacement
  <2> HIDE DEF d, n
  <2> QED
    BY <2>1, <2>2, <2>3, FileType
<1>5. f = VersionOf(m, m.content) /\ Service!MayChange(r)
  BY <1>1, <1>3, FileSeen DEF Allowed
<1>6. VersionOf(n, n.content)
      = [f EXCEPT !.name = named[r], !.content = call[r].content, !.rev = @ + 1]
  <2>1. n = File([owner |-> m.owner, name |-> named[r], content |-> call[r].content],
                 call[r].nonce, m.rev + 1)
    BY <1>3 DEF Replacement
  <2> HIDE DEF n, m, f
  <2>2. VersionOf(n, n.content) = [owner |-> m.owner, name |-> named[r],
                                   content |-> call[r].content, rev |-> m.rev + 1]
    BY <2>1 DEF VersionOf, File
  <2>3. f = [owner |-> m.owner, name |-> m.name, content |-> m.content, rev |-> m.rev]
    BY <1>5 DEF VersionOf
  <2>4. [f EXCEPT !.name = named[r], !.content = call[r].content, !.rev = @ + 1]
        = [owner |-> f.owner, name |-> named[r], content |-> call[r].content, rev |-> f.rev + 1]
    <3>1. f = [owner |-> f.owner, name |-> f.name, content |-> f.content, rev |-> f.rev]
      BY <2>3
    <3> QED
      BY <3>1, NextVersion, Zenon
  <2>5. f.owner = m.owner /\ f.rev = m.rev
    BY <2>3
  <2> QED
    BY <2>2, <2>4, <2>5, Zenon
<1> HIDE DEF n
<1>7. Fs' = [Fs EXCEPT ![call[r].id] = VersionOf(n, n.content)]
  <2>1. n \notin {Missing, Torn} /\ meta \in [Id -> Metadata \cup {Missing, Torn}]
    BY <1>1, <1>4, SentinelAssumption DEF TypeOK
  <2> QED
    BY <1>1, <1>3, <1>4, <2>1, FileSet
<1>8. Service!Becomes(r, {"pending"}, "applied") /\ Service!Unread
  BY <1>1, <1>2, <1>3, StatusSet, GetsUntouched DEF Shown
<1> QED
  BY <1>2, <1>3, <1>5, <1>6, <1>7, <1>8 DEF Service!Effect, Fs

(* A delete takes effect when the metadata is gone.                          *)
LEMMA RemoveIsEffect ==
    ASSUME ServiceInv, ServiceInv', NEW r \in Request, Remove(r), pc'[r] = "cleanup"
    PROVE  Service!Effect(r)
<1> DEFINE m == meta[call[r].id]
<1>1. /\ TypeOK /\ TypeOK' /\ LiveBlob /\ LiveBlob' /\ PhaseOK /\ HoldsLock /\ OutcomeOK(r)
      /\ StatusOf(r) = Shown(pc[r], answer[r]) /\ StatusOf(r)' = Shown(pc'[r], answer'[r])
  BY StatusIs, StatusIsNext DEF ServiceInv, SafeContent, Outcomes
<1>2. /\ UNCHANGED <<call, readers, named>>
      /\ \A q \in Request \ {r} : /\ pc'[q] = pc[q] /\ answer'[q] = answer[q]
                                  /\ Applied(q)' = Applied(q)
  BY <1>1, HandlerFrame DEF Handle, Remove
<1>3. /\ pc[r] = "remove" /\ call[r].op = "delete" /\ Allowed(call[r].key, m)
      /\ meta' = [meta EXCEPT ![call[r].id] = Missing]
  BY <1>1 DEF Remove, Goto, TypeOK, PhaseOK, HoldsLock, SetMeta, OutcomeOK
<1>4. Service!MayChange(r) /\ call[r].id \in Id
  BY <1>1, <1>3, FileSeen
<1>5. Fs' = [Fs EXCEPT ![call[r].id] = Missing]
  <2>1. /\ meta'[call[r].id] = Missing
        /\ \A i \in Id : i # call[r].id => meta'[i] = meta[i]
    BY <1>1, <1>3, <1>4 DEF TypeOK
  <2> QED
    BY <1>1, <2>1, FilesAre, FilesAreNext DEF Live
<1>6. Service!Becomes(r, {"pending"}, "applied") /\ Service!Unread
  BY <1>1, <1>2, <1>3, StatusSet, GetsUntouched DEF Shown
<1> QED
  BY <1>2, <1>3, <1>4, <1>5, <1>6 DEF Service!Effect, Fs

(* An update that asks for what is there already takes effect at once.       *)
LEMMA UnchangedIsEffect ==
    ASSUME ServiceInv, ServiceInv', NEW r \in Request, AnswerUnchanged(r)
    PROVE  Service!Effect(r)
<1> DEFINE m == meta[call[r].id]
           f == Fs[call[r].id]
<1>1. /\ TypeOK /\ TypeOK' /\ LiveBlob /\ LiveBlob' /\ PhaseOK
      /\ StatusOf(r) = Shown(pc[r], answer[r]) /\ StatusOf(r)' = Shown(pc'[r], answer'[r])
  BY StatusIs, StatusIsNext DEF ServiceInv, SafeContent, Outcomes
<1>2. /\ UNCHANGED <<call, readers, named>> /\ meta' = meta
      /\ \A q \in Request \ {r} : /\ pc'[q] = pc[q] /\ answer'[q] = answer[q]
                                  /\ Applied(q)' = Applied(q)
  BY <1>1, HandlerFrame DEF Handle, AnswerUnchanged, objects
<1>3. /\ pc[r] = "check" /\ pc'[r] = "reply" /\ answer'[r] = "unchanged"
      /\ call[r].op = "update" /\ Allowed(call[r].key, m) /\ call[r].content = m.content
      /\ call[r].name \in {KeepName, m.name}
  BY <1>1 DEF AnswerUnchanged, Goto, Decide, TypeOK, PhaseOK, Resolved
<1>4. Fs' = Fs /\ Service!Unread
  BY <1>1, <1>2, SameFiles, GetsUntouched
<1>5. f = VersionOf(m, m.content) /\ f.name = m.name /\ f.content = m.content
      /\ Service!MayChange(r)
  BY <1>1, <1>3, FileSeen DEF Allowed, VersionOf
<1>6. Service!Becomes(r, {"pending"}, "applied")
  BY <1>1, <1>2, <1>3, StatusSet DEF Shown, Success
<1> QED
  BY <1>2, <1>3, <1>4, <1>5, <1>6 DEF Service!Effect, Fs
(* Each step of a handler is one of the service, or nothing that it sees.    *)
LEMMA HandlerRefines ==
    ASSUME ~LateFaults, ~Redeliver, ServiceInv, ServiceInv', NEW r \in Request,
           Deliver(r) \/ Handle(r)
    PROVE  \/ Service!Invoke(r) \/ Service!Choose(r) \/ Service!Effect(r)
           \/ Service!Refuse(r) \/ Service!Respond(r)
           \/ Fs' = Fs /\ St' = St /\ UNCHANGED <<call, named, readers>>
<1>1. /\ TypeOK /\ PhaseOK /\ TornIsOurs /\ pc \in [Request -> Phase]
      /\ answer \in [Request -> Success \cup Refused \cup {"none"}]
      /\ meta \in [Id -> Metadata \cup {Missing, Torn}]
      /\ call[r].id \in Id /\ OutcomeOK(r) /\ call[r].op \in {"create", "update", "delete"}
  BY CallType DEF ServiceInv, SafeContent, Outcomes, TypeOK, CallRecord
<1>2. UNCHANGED <<call, readers>>
  BY <1>1, HandlerFrame
<1>3. \A m : Refusal(m) \in Refused
  BY DEF Refusal, Refused
<1>4. CASE Deliver(r) \/ SealMetadata(r) \/ Discard(r) \/ Undo(r) \/ Cleanup(r) \/ Reply(r)
  <2>1. named' = named
    BY <1>4 DEF Deliver, SealMetadata, Discard, Undo, Cleanup, DropBlob, Reply
  <2> QED
    BY <1>2, <1>4, <2>1, OuterStep
<1>5. CASE ResolveName(r)
  BY <1>5, ResolveIsChoice
<1>6. CASE AnswerUnchanged(r)
  BY <1>6, UnchangedIsEffect
<1>7. CASE FillMetadata(r) /\ pc'[r] = "seal"
  BY <1>7, CreateIsEffect
<1>8. CASE Commit(r) /\ pc'[r] = "cleanup"
  BY <1>8, CommitIsEffect
<1>9. CASE Remove(r) /\ pc'[r] = "cleanup"
  BY <1>9, RemoveIsEffect
<1>10. ASSUME \A i \in Id : meta'[i] # meta[i] => ~Live(i) /\ ~Live(i)',
              pc[r] \in {"check", "upload", "create", "fill", "lock", "locked", "commit",
                        "remove"},
              \/ pc'[r] \in {"upload", "create", "fill", "lock", "locked", "commit", "remove"}
              \/ pc'[r] \in {"discard", "undo", "reply"} /\ answer'[r] \in Refused,
              named' = named
       PROVE  Service!Refuse(r) \/ (Fs' = Fs /\ St' = St /\ UNCHANGED <<call, named, readers>>)
  BY <1>2, <1>10, QuietStep
<1>11. CASE RefuseEarly(r)
  <2>1. /\ pc[r] = "check" /\ pc'[r] = "reply" /\ answer'[r] \in Refused
        /\ meta' = meta /\ named' = named
    BY <1>1, <1>3, <1>11 DEF RefuseEarly, Goto, Decide, objects, Refused
  <2> QED
    BY <1>10, <2>1
<1>12. CASE RejectBody(r) \/ StoreBlob(r)
  <2>1. /\ pc[r] = "upload" /\ meta' = meta /\ named' = named
        /\ \/ pc'[r] \in {"create", "lock"}
           \/ pc'[r] = "reply" /\ answer'[r] \in Refused
    BY <1>1, <1>12 DEF RejectBody, StoreBlob, Goto, Decide, objects, Refused
  <2> QED
    BY <1>10, <2>1
<1>13. CASE ReserveMetadata(r)
  <2>1. /\ pc[r] = "create" /\ named' = named
        /\ pc'[r] = "fill" \/ (pc'[r] = "undo" /\ answer'[r] \in Refused)
    BY <1>1, <1>13 DEF ReserveMetadata, Goto, Decide, Refused
  <2>2. \A i \in Id : meta'[i] # meta[i] => ~Live(i) /\ ~Live(i)'
    BY <1>1, <1>13 DEF ReserveMetadata, SetMeta, Live
  <2> QED
    BY <1>10, <2>1, <2>2
<1>14. CASE FillMetadata(r) /\ pc'[r] # "seal"
  <2>1. /\ pc[r] = "fill" /\ named' = named /\ meta' = meta
        /\ pc'[r] = "discard" /\ answer'[r] \in Refused
    BY <1>1, <1>14 DEF FillMetadata, Goto, Decide, Refused
  <2> QED
    BY <1>10, <2>1
<1>15. CASE Lock(r)
  <2>1. /\ pc[r] = "lock" /\ pc'[r] = "locked" /\ meta' = meta /\ named' = named
    BY <1>1, <1>15 DEF Lock, Goto, objects
  <2> QED
    BY <1>10, <2>1
<1>17. CASE CheckAgain(r)
  <2>1. /\ pc[r] = "locked" /\ meta' = meta /\ named' = named
        /\ \/ pc'[r] \in {"commit", "remove"}
           \/ pc'[r] \in {"undo", "reply"} /\ answer'[r] \in Refused
    BY <1>1, <1>3, <1>17 DEF CheckAgain, Goto, Decide, objects, Refused
  <2> QED
    BY <1>10, <2>1
<1>16. CASE (Commit(r) \/ Remove(r)) /\ pc'[r] # "cleanup"
  <2>1. /\ pc[r] \in {"commit", "remove"} /\ meta' = meta /\ named' = named
        /\ pc'[r] \in {"undo", "reply"} /\ answer'[r] \in Refused
    BY <1>1, <1>16 DEF Commit, Remove, Goto, Decide, Refused
  <2> QED
    BY <1>10, <2>1
<1> QED
  BY <1>4, <1>5, <1>6, <1>7, <1>8, <1>9, <1>11, <1>12, <1>13, <1>14, <1>15, <1>16,
     <1>17 DEF Handle

-----------------------------------------------------------------------------
(* What the service sees of the GETs.                                        *)
SeenOf(m) == IF m = Missing THEN Missing ELSE VersionOf(m, m.content)

Wn == [x \in Reader |-> ask[x].id]
Sn == [x \in Reader |-> SeenOf(rmeta[x])]
Gt == [x \in Reader |-> GotOf(x)]
Se == [x \in Reader |-> SentOf(x)]

(* A GET that moves on, seen by the service.                                 *)
LEMMA ReaderSeen ==
    ASSUME TypeOK, NEW x \in Reader, Read(x)
    PROVE  /\ Service!Unwritten
           /\ Wn' = Wn
           /\ Sn' = [Sn EXCEPT ![x] = SeenOf(rmeta'[x])]
           /\ Gt' = [Gt EXCEPT ![x] = GotOf(x)']
           /\ Se' = [Se EXCEPT ![x] = SentOf(x)']
           /\ NoncesDiffer(ask[x].id)' <=> NoncesDiffer(ask[x].id)
<1>1. Service!Unwritten
  BY ReaderFrame, FilesUntouched
<1>2. \A y \in Reader \ {x} : /\ rpc'[y] = rpc[y] /\ ask'[y] = ask[y]
                               /\ rmeta'[y] = rmeta[y] /\ body'[y] = body[y]
  BY ReaderFrame
<1>3. ask'[x].id = ask[x].id /\ call' = call
  BY ReaderFrame DEF TypeOK, Read, Get, Open, ReadAgain, FailGet, handlers
<1>4. \A y \in Reader \ {x} : GotOf(y)' = GotOf(y) /\ SentOf(y)' = SentOf(y)
  BY <1>2, <1>3 DEF GotOf, SentOf, NoncesDiffer, Writers
<1>5. NoncesDiffer(ask[x].id)' <=> NoncesDiffer(ask[x].id)
  BY <1>3 DEF NoncesDiffer, Writers
<1> QED
  BY <1>1, <1>2, <1>3, <1>4, <1>5 DEF Wn, Sn, Gt, Se

(* What the service knows of the file that a GET asks for.                   *)
LEMMA FileAsked ==
    ASSUME LiveBlob, TypeOK, NEW x \in Reader
    PROVE  LET m == meta[ask[x].id] IN
           /\ ask[x].id \in Id
           /\ Fs[Wn[x]] = IF m \in {Missing, Torn} THEN Missing ELSE VersionOf(m, m.content)
           /\ m \notin {Missing, Torn} => /\ m \in Metadata
                                          /\ VersionOf(m, m.content) # Missing
                                          /\ Fs[Wn[x]].rev = m.rev
<1> DEFINE m == meta[ask[x].id]
<1>1. ask[x].id \in Id /\ Wn[x] = ask[x].id
  BY DEF TypeOK, Wn
<1>2. Fs[Wn[x]] = IF m \in {Missing, Torn} THEN Missing ELSE VersionOf(m, m.content)
  BY <1>1, FilesAre DEF Live
<1>3. m \notin {Missing, Torn}
      => /\ m \in Metadata
         /\ VersionOf(m, m.content) \in [owner : Key, name : Name, content : Content, rev : Nat]
  BY <1>1 DEF TypeOK, Metadata, VersionOf
<1> QED
  BY <1>1, <1>2, <1>3, SentinelAssumption DEF VersionOf

(* Each step of a GET is one of the service, or nothing that it sees.        *)
LEMMA ReaderRefines ==
    ASSUME ServiceInv, ServiceInv', NEW x \in Reader, Read(x)
    PROVE  \/ Service!Look(x) \/ Service!Serve(x) \/ Service!NotFound(x) \/ Service!GiveUp(x)
           \/ Service!Unwritten /\ Wn' = Wn /\ Sn' = Sn /\ Gt' = Gt /\ Se' = Se
<1> DEFINE m == meta[ask[x].id]
           differ == NoncesDiffer(ask[x].id)
<1>1. /\ TypeOK /\ PhaseOK /\ LiveBlob /\ rpc \in [Reader -> Waiting \cup Got]
      /\ rmeta \in [Reader -> Metadata \cup {Missing}] /\ ReadsSettled /\ ReadsOrdered
      /\ body \in [Reader -> Content \cup {NoBlob}]
  BY DEF ServiceInv, SafeContent, TypeOK
<1>2. /\ Service!Unwritten /\ Wn' = Wn
      /\ Sn' = [Sn EXCEPT ![x] = SeenOf(rmeta'[x])]
      /\ Gt' = [Gt EXCEPT ![x] = GotOf(x)']
      /\ Se' = [Se EXCEPT ![x] = SentOf(x)']
  BY <1>1, ReaderSeen
<1>3. Sn[x] = SeenOf(rmeta[x]) /\ Gt[x] = GotOf(x) /\ Se[x] = SentOf(x)
  BY DEF Sn, Gt, Se
<1>4. /\ Fs[Wn[x]] = IF m \in {Missing, Torn} THEN Missing ELSE VersionOf(m, m.content)
      /\ m \notin {Missing, Torn} => /\ m \in Metadata
                                     /\ VersionOf(m, m.content) # Missing
                                     /\ Fs[Wn[x]].rev = m.rev
  BY <1>1, FileAsked
<1>16. /\ rpc[x] \in Waiting => GotOf(x) = "none" /\ SentOf(x) = Missing
       /\ rpc'[x] \in Waiting => GotOf(x)' = "none" /\ SentOf(x)' = Missing
       /\ rpc'[x] = "failed" => GotOf(x)' = "failed" /\ SentOf(x)' = Missing
       /\ rpc'[x] = "notFound" => /\ GotOf(x)' = IF differ THEN "notFound" ELSE "failed"
                                  /\ SentOf(x)' = Missing
       /\ rpc'[x] = "served" =>
             /\ GotOf(x)' = "served"
             /\ SentOf(x)' = VersionOf(rmeta'[x], IF differ THEN body'[x] ELSE rmeta'[x].content)
  <2>1. NoncesDiffer(ask[x].id)' <=> differ
    BY <1>1, ReaderSeen
  <2> HIDE DEF differ
  <2> QED
    BY <2>1 DEF GotOf, SentOf, Waiting
<1> HIDE DEF differ
<1>17. /\ Sn = [Sn EXCEPT ![x] = Sn[x]] /\ Gt = [Gt EXCEPT ![x] = Gt[x]]
       /\ Se = [Se EXCEPT ![x] = Se[x]]
  BY DEF Sn, Gt, Se
<1>6. ASSUME rmeta' = rmeta, rpc'[x] \in Waiting \cup {"failed", "notFound"}, rpc[x] \in Waiting
      PROVE  Sn' = Sn /\ Se' = Se
  <2>1. SeenOf(rmeta'[x]) = Sn[x] /\ SentOf(x)' = Se[x]
    BY <1>3, <1>6, <1>16
  <2> QED
    BY <1>2, <1>17, <2>1
<1>7. ASSUME rmeta' = rmeta, rpc[x] \in Waiting,
             rpc'[x] = "failed" \/ (rpc'[x] = "notFound" /\ ~differ)
      PROVE  Service!GiveUp(x)
  <2>1. Gt[x] = "none" /\ Gt' = [Gt EXCEPT ![x] = "failed"]
    BY <1>2, <1>3, <1>7, <1>16
  <2>2. Sn' = Sn /\ Se' = Se
    BY <1>6, <1>7
  <2> QED
    BY <1>2, <2>1, <2>2 DEF Service!GiveUp, Service!Returns, Wn, Sn, Gt, Se, SeenOf
<1>8. ASSUME rmeta' = rmeta, rpc[x] \in Waiting, rpc'[x] = "notFound", differ,
             \/ m \in {Missing, Torn}
             \/ rmeta[x] # Missing /\ Fs[Wn[x]].rev > Sn[x].rev /\ Sn[x] # Missing
      PROVE  Service!NotFound(x)
  <2>1. Gt[x] = "none" /\ Gt' = [Gt EXCEPT ![x] = "notFound"]
    BY <1>2, <1>3, <1>8, <1>16
  <2>2. Sn' = Sn /\ Se' = Se
    BY <1>6, <1>8
  <2>3. Fs[Wn[x]] = Missing \/ (Sn[x] # Missing /\ Fs[Wn[x]].rev > Sn[x].rev)
    BY <1>4, <1>8
  <2> QED
    BY <1>2, <2>1, <2>2, <2>3
       DEF Service!NotFound, Service!Returns, Fs, Wn, Sn, Gt, Se, SeenOf
<1>9. ASSUME rpc[x] \in Waiting, rpc'[x] \in Waiting, m \notin {Missing, Torn}, rmeta'[x] = m
      PROVE  Service!Look(x)
  <2>0. Gt[x] = "none" /\ GotOf(x)' = Gt[x] /\ SentOf(x)' = Se[x]
    BY <1>3, <1>9, <1>16
  <2>1. Gt[x] = "none" /\ Gt' = Gt /\ Se' = Se
    BY <1>2, <1>17, <2>0
  <2>2. Fs[Wn[x]] # Missing /\ Sn' = [Sn EXCEPT ![x] = Fs[Wn[x]]]
    BY <1>2, <1>4, <1>9 DEF SeenOf
  <2> QED
    BY <1>2, <2>1, <2>2 DEF Service!Look, Fs, Wn, Sn, Gt, Se, SeenOf
<1>10. ASSUME rpc[x] \in Waiting, rpc'[x] \in Waiting, rmeta' = rmeta
       PROVE  Sn' = Sn /\ Gt' = Gt /\ Se' = Se
  <2>1. Sn' = Sn /\ Se' = Se
    BY <1>6, <1>10
  <2>2. Gt[x] = "none" /\ Gt' = [Gt EXCEPT ![x] = "none"]
    BY <1>2, <1>3, <1>10, <1>16
  <2> QED
    BY <2>1, <2>2 DEF Gt
<1>11. CASE Get(x)
  <2>1. rpc[x] = "idle"
    BY <1>11 DEF Get
  <2>2. CASE m = Missing
    BY <1>1, <1>7, <1>8, <1>11, <2>1, <2>2 DEF Get, Waiting
  <2>3. CASE m # Missing /\ m = Torn
    BY <1>1, <1>7, <1>11, <2>1, <2>3 DEF Get, Waiting
  <2>4. CASE m \notin {Missing, Torn} /\ m.name # ask[x].name
    BY <1>2, <1>10, <1>11, <2>1, <2>4 DEF Get, Waiting
  <2>5. CASE m \notin {Missing, Torn} /\ m.name = ask[x].name
    BY <1>1, <1>9, <1>11, <2>1, <2>5 DEF Get, Waiting
  <2> QED
    BY <2>2, <2>3, <2>4, <2>5
<1>12. CASE Open(x)
  <2> DEFINE b == blobs[<<ask[x].id, rmeta[x].blob>>]
  <2>1. /\ rpc[x] \in {"open", "reopen"} /\ rpc[x] \in Waiting /\ rmeta' = rmeta
        /\ rpc'[x] = IF b # NoBlob THEN "served"
                     ELSE IF rpc[x] = "open" THEN "again" ELSE "notFound"
        /\ body'[x] = b
    BY <1>1, <1>12 DEF Open, Waiting
  <2>2. /\ rmeta[x] \in Metadata /\ rmeta[x] # Missing /\ rmeta[x].rev \in Nat
        /\ Sn[x] = VersionOf(rmeta[x], rmeta[x].content) /\ Sn[x].rev = rmeta[x].rev
        /\ Sn[x] # Missing
    <3>1. rmeta[x] \in Metadata /\ rmeta[x] # Missing
      BY <1>1, <2>1 DEF PhaseOK
    <3>2. VersionOf(rmeta[x], rmeta[x].content)
          \in [owner : Key, name : Name, content : Content, rev : Nat]
      BY <3>1 DEF Metadata, VersionOf
    <3>3. Sn[x] = VersionOf(rmeta[x], rmeta[x].content)
      BY <1>3, <3>1 DEF SeenOf
    <3> QED
      BY <3>1, <3>2, <3>3, SentinelAssumption DEF VersionOf, Metadata
  <2>3. CASE b # NoBlob
    <3>1. differ => b = rmeta[x].content
      BY <1>1, <2>1, <2>3 DEF ReadsSettled, differ
    <3>2. Gt[x] = "none" /\ Gt' = [Gt EXCEPT ![x] = "served"]
      BY <1>2, <1>3, <1>16, <2>1, <2>3
    <3>3. SeenOf(rmeta'[x]) = Sn[x]
      BY <1>3, <2>1
    <3>4. SentOf(x)' = Sn[x]
      BY <1>16, <2>1, <2>2, <2>3, <3>1
    <3>5. Sn' = Sn /\ Se' = [Se EXCEPT ![x] = Sn[x]]
      BY <1>2, <1>17, <3>3, <3>4
    <3> QED
      BY <1>2, <2>2, <3>2, <3>5
         DEF Service!Serve, Service!Returns, Wn, Sn, Gt, Se, SeenOf
  <2>4. CASE b = NoBlob /\ rpc[x] = "open"
    BY <1>2, <1>10, <2>1, <2>4 DEF Waiting
  <2>7. CASE b = NoBlob /\ rpc[x] = "reopen" /\ ~differ
    BY <1>7, <2>1, <2>7
  <2>5. CASE b = NoBlob /\ rpc[x] = "reopen" /\ differ /\ m \notin {Missing, Torn}
    <3>1. m \in Metadata /\ m.rev \in Nat /\ Fs[Wn[x]].rev = m.rev /\ ask[x].id \in Id
      BY <1>1, <1>4, <2>5 DEF Metadata, TypeOK
    <3>2. rmeta[x] # m
      BY <1>1, <2>5, <3>1, SentinelAssumption DEF LiveBlob, Live, Metadata, differ
    <3>3. rmeta[x].rev < m.rev
      BY <1>1, <2>2, <2>5, <3>1, <3>2 DEF ReadsOrdered, Live, differ
    <3> QED
      BY <1>8, <2>1, <2>2, <2>5, <3>1, <3>3
  <2>6. CASE b = NoBlob /\ rpc[x] = "reopen" /\ differ /\ m \in {Missing, Torn}
    BY <1>8, <2>1, <2>6
  <2> QED
    BY <2>1, <2>3, <2>4, <2>5, <2>6, <2>7
<1>13. CASE ReadAgain(x)
  <2>1. rpc[x] = "again" /\ rpc[x] \in Waiting
    BY <1>13 DEF ReadAgain, Waiting
  <2>2. rmeta' = rmeta \/ m \notin {Missing, Torn}
    BY <1>1, <1>13 DEF ReadAgain
  <2>3. CASE m = Missing
    BY <1>1, <1>7, <1>8, <1>13, <2>1, <2>2, <2>3 DEF ReadAgain
  <2>4. CASE m # Missing /\ m = Torn
    BY <1>1, <1>7, <1>13, <2>1, <2>2, <2>4 DEF ReadAgain
  <2>5. CASE m \notin {Missing, Torn}
    BY <1>1, <1>9, <1>13, <2>1, <2>5 DEF ReadAgain, Waiting
  <2> QED
    BY <2>3, <2>4, <2>5
<1>14. CASE FailGet(x)
  BY <1>1, <1>7, <1>14 DEF FailGet
<1> QED
  BY <1>11, <1>12, <1>13, <1>14 DEF Read

-----------------------------------------------------------------------------
(* A crash ends what is in flight, for the service too: a file is what its   *)
(* metadata says, and that stays on the disk.                                *)
LEMMA CrashRefines ==
    ASSUME ServiceInv, ServiceInv', Crash
    PROVE  Service!Crash
<1>1. /\ UNCHANGED <<meta, blobs, call, named, answer, ask, rmeta, body>>
      /\ pc' = [r \in Request |-> IF pc[r] \in Finished THEN pc[r] ELSE "lost"]
      /\ rpc' = [x \in Reader |-> IF rpc[x] \in Waiting THEN "cut" ELSE rpc[x]]
      /\ TypeOK /\ TypeOK'
      /\ pc \in [Request -> Phase] /\ rpc \in [Reader -> Waiting \cup Got]
      /\ answer \in [Request -> Success \cup Refused \cup {"none"}]
  <2>1. /\ UNCHANGED <<meta, blobs, call, named, answer, ask, rmeta, body>>
        /\ pc' = [r \in Request |-> IF pc[r] \in Finished THEN pc[r] ELSE "lost"]
        /\ rpc' = [x \in Reader |-> IF rpc[x] \in Waiting THEN "cut" ELSE rpc[x]]
    BY DEF Crash, objects
  <2>2. TypeOK /\ TypeOK'
    BY DEF ServiceInv, SafeContent
  <2>3. /\ pc \in [Request -> Phase] /\ rpc \in [Reader -> Waiting \cup Got]
        /\ answer \in [Request -> Success \cup Refused \cup {"none"}]
    BY <2>2 DEF TypeOK
  <2> QED
    BY <2>1, <2>2, <2>3
<1>2. Fs' = Fs
  BY <1>1 DEF Fs, FileOf, NoncesDiffer, Writers, Live
<1>3. St' = [r \in Request |-> IF St[r] \in Service!InFlight THEN "lost" ELSE St[r]]
  <2> SUFFICES ASSUME NEW r \in Request
               PROVE  StatusOf(r)' = IF StatusOf(r) \in Service!InFlight THEN "lost"
                                     ELSE StatusOf(r)
    BY DEF St
  <2>1. /\ StatusOf(r) = Shown(pc[r], answer[r])
        /\ StatusOf(r)' = Shown(pc'[r], answer'[r])
    BY <1>1, StatusIs, StatusIsNext DEF ServiceInv, Outcomes
  <2>2. CASE pc[r] \in Finished
    BY <1>1, <2>1, <2>2 DEF Shown, Finished, Service!InFlight
  <2>3. CASE pc[r] \notin Finished
    <3>1. StatusOf(r) \in {"pending", "applied", "refused"} /\ StatusOf(r)' = "lost"
      BY <1>1, <2>1, <2>3 DEF Shown, Finished, Phase
    <3> QED
      BY <3>1 DEF Service!InFlight
  <2> QED
    BY <2>2, <2>3
<1>4. /\ Gt' = [x \in Reader |-> IF Gt[x] = "none" THEN "failed" ELSE Gt[x]]
      /\ Wn' = Wn /\ Sn' = Sn /\ Se' = Se
  <2>1. ASSUME NEW x \in Reader
        PROVE  /\ GotOf(x)' = IF GotOf(x) = "none" THEN "failed" ELSE GotOf(x)
               /\ SentOf(x)' = SentOf(x)
    <3>1. NoncesDiffer(ask[x].id)' <=> NoncesDiffer(ask[x].id)
      BY <1>1 DEF NoncesDiffer, Writers
    <3>2. rpc[x] \in Waiting \cup Got /\ rpc'[x] = IF rpc[x] \in Waiting THEN "cut" ELSE rpc[x]
      BY <1>1
    <3>3. UNCHANGED <<rmeta, body>>
      BY <1>1
    <3> QED
      BY <3>1, <3>2, <3>3 DEF GotOf, SentOf, Waiting, Got
  <2> QED
    BY <1>1, <2>1 DEF Gt, Wn, Sn, Se, SeenOf
<1> QED
  BY <1>1, <1>2, <1>3, <1>4
     DEF Service!Crash, Fs, St, Gt, Wn, Sn, Se, SeenOf

LEMMA InitRefines == Init => Service!Init
<1> SUFFICES ASSUME Init PROVE Service!Init
  OBVIOUS
<1>1. TypeOK /\ LiveBlob
  BY InitSafeContent DEF SafeContent
<1>2. PICK f \in Preload :
         meta = [i \in Id |-> IF i \in Stored THEN File(f[i], i, 1) ELSE Missing]
  BY DEF Init
<1>3. \A i \in Id : Live(i) <=> i \in Stored
  <2> SUFFICES ASSUME NEW i \in Stored PROVE meta[i] \notin {Missing, Torn}
    BY <1>2 DEF Live
  <2>1. f[i] \in Described /\ i \in Id
    BY PreloadAssumption, IdAssumption
  <2>2. meta[i] \in Metadata
    BY <1>2, <2>1, FileType
  <2> QED
    BY <2>2, SentinelAssumption
<1>4. Fs = [i \in Id |-> IF Live(i) THEN VersionOf(meta[i], meta[i].content) ELSE Missing]
  BY <1>1, FilesAre
<1>5. \A i \in Id : Live(i) => VersionOf(meta[i], meta[i].content) \in Service!Version
  BY <1>1 DEF TypeOK, Live, Metadata, VersionOf, Service!Version
<1>6. Missing \notin Service!Version
  BY SentinelAssumption DEF Service!Version
<1>7. /\ Fs \in [Id -> Service!Version \cup {Missing}]
      /\ \A i \in Id : Fs[i] = Missing <=> i \notin Stored
  BY <1>3, <1>4, <1>5, <1>6
<1>8. St = [r \in Request |-> "idle"] /\ named = [r \in Request |-> KeepName]
  BY DEF Init, St, StatusOf
<1>9. /\ Sn = [x \in Reader |-> Missing] /\ Gt = [x \in Reader |-> "none"]
      /\ Se = [x \in Reader |-> Missing]
  BY DEF Init, Sn, Gt, Se, SeenOf, GotOf, SentOf, Waiting
<1> QED
  BY <1>7, <1>8, <1>9 DEF Service!Init, Fs, St, Sn, Gt, Se, SeenOf

LEMMA NextRefines ==
    ASSUME ~LateFaults, ~Redeliver, ServiceInv, ServiceInv', [Next]_vars
    PROVE  [Service!Next]_(Service!vars)
<1>1. ASSUME NEW r \in Request, Deliver(r) \/ Handle(r)
      PROVE  [Service!Next]_(Service!vars)
  <2>1. CASE Fs' = Fs /\ St' = St /\ UNCHANGED <<call, named, readers>>
    <3>1. Wn' = Wn /\ Sn' = Sn /\ Gt' = Gt /\ Se' = Se
      BY <2>1 DEF readers, Wn, Sn, Gt, Se, SeenOf, GotOf, SentOf, NoncesDiffer, Writers
    <3> QED
      BY <2>1, <3>1 DEF Service!vars, Fs, St, Wn, Sn, Gt, Se, SeenOf
  <2> QED
    BY <1>1, <2>1, HandlerRefines DEF Service!Next
<1>2. ASSUME NEW x \in Reader, Read(x)
      PROVE  [Service!Next]_(Service!vars)
  <2>1. CASE Service!Unwritten /\ Wn' = Wn /\ Sn' = Sn /\ Gt' = Gt /\ Se' = Se
    BY <2>1 DEF Service!vars, Service!Unwritten, Wn, Sn, Gt, Se, SeenOf
  <2> QED
    BY <1>2, <2>1, ReaderRefines DEF Service!Next
<1>3. CASE Crash
  BY <1>3, CrashRefines DEF Service!Next
<1>4. CASE UNCHANGED vars
  BY <1>4 DEF vars, objects, handlers, readers, Service!vars, Live, FileOf, StatusOf, GotOf,
     SentOf, NoncesDiffer, Writers
<1> QED
  BY <1>1, <1>2, <1>3, <1>4 DEF Next, Terminating

(* Whatever the handlers of files.go, the GETs, failing object accesses and  *)
(* crashes do between them, each request changes its file in one step, once  *)
(* when it is answered with success and not at all when it is answered with  *)
(* an error, and a GET serves a version that the file had while the GET was  *)
(* going on.  The content of a file is promised when its writers' nonces     *)
(* differ; of the others only the metadata.                                  *)
THEOREM FilesImplementService ==
    ASSUME ~LateFaults, ~Redeliver
    PROVE  Spec => ImplementsService
<1>1. ServiceInv /\ ServiceInv' /\ [Next]_vars => [Service!Next]_(Service!vars)
  BY NextRefines
<1> QED
  BY InitRefines, <1>1, ServiceInvariant, PTL DEF Spec, ImplementsService, Service!Spec

-----------------------------------------------------------------------------
(* No blob is left behind while nothing fails.                               *)
Holds(r, i, b) ==
    \/ /\ pc[r] \in {"create", "fill", "lock", "locked", "commit", "undo"}
       /\ call[r].op # "delete" /\ call[r].id = i /\ call[r].nonce = b
    \/ pc[r] = "cleanup" /\ call[r].id = i /\ prev[r].blob = b
Named(i, b) == Live(i) /\ meta[i].blob = b

LEMMA OwnersAre ==
    BlobsHaveOwners
    <=> (faults = 0 /\ crashes = 0
         => \A i, b \in Id : blobs[<<i, b>>] # NoBlob
                            => Named(i, b) \/ \E r \in Request : Holds(r, i, b))
  BY DEF BlobsHaveOwners, Holds, Named

LEMMA OwnersAreNext ==
    BlobsHaveOwners'
    <=> (faults' = 0 /\ crashes' = 0
         => \A i, b \in Id : blobs'[<<i, b>>] # NoBlob
                            => Named(i, b)' \/ \E r \in Request : Holds(r, i, b)')
  BY DEF BlobsHaveOwners, Holds, Named

LEMMA InitOwners == Init => BlobsHaveOwners
<1> SUFFICES ASSUME Init, NEW i \in Id, NEW b \in Id, blobs[<<i, b>>] # NoBlob
             PROVE  Live(i) /\ meta[i].blob = b
  BY DEF BlobsHaveOwners
<1>1. PICK f \in Preload :
         /\ meta = [j \in Id |-> IF j \in Stored THEN File(f[j], j, 1) ELSE Missing]
         /\ blobs = [jb \in Id \X Id |-> IF jb[1] \in Stored /\ jb[2] = jb[1]
                                         THEN f[jb[1]].content ELSE NoBlob]
  BY DEF Init
<1>2. i \in Stored /\ b = i
  BY <1>1
<1>3. f[i] \in Described
  BY <1>2, PreloadAssumption
<1>4. meta[i] = File(f[i], i, 1) /\ meta[i] \in Metadata
  BY <1>1, <1>2, <1>3, FileType
<1> QED
  BY <1>2, <1>4, SentinelAssumption DEF Live, File

(* A step of a handler in which nothing fails leaves every blob with its     *)
(* file, or with a handler that will see to it.                              *)
LEMMA HandlerOwners ==
    ASSUME ServiceInv, ServiceInv', BlobsHaveOwners, NEW r \in Request, Deliver(r) \/ Handle(r)
    PROVE  BlobsHaveOwners'
<1> SUFFICES ASSUME faults' = 0, crashes' = 0, NEW i \in Id, NEW b \in Id,
                    blobs'[<<i, b>>] # NoBlob
             PROVE  Named(i, b)' \/ \E q \in Request : Holds(q, i, b)'
  BY OwnersAreNext
<1>1. /\ TypeOK /\ PhaseOK /\ TornIsOurs /\ HoldsLock /\ OutcomeOK(r) /\ faults \in Nat
      /\ pc \in [Request -> Phase] /\ meta \in [Id -> Metadata \cup {Missing, Torn}]
      /\ blobs \in [Id \X Id -> Content \cup {NoBlob}] /\ call[r].id \in Id
      /\ call[r].op \in {"create", "update", "delete"} /\ call[r].nonce \in Id
  BY CallType DEF ServiceInv, SafeContent, Outcomes, TypeOK, CallRecord
<1>2. /\ call' = call /\ crashes' = crashes
      /\ \A q \in Request \ {r} : pc'[q] = pc[q] /\ prev'[q] = prev[q]
  BY <1>1, HandlerFrame
<1>3. ~Fault /\ (NoFault \/ UNCHANGED faults => faults = 0)
  BY <1>1 DEF Fault, NoFault
<1>4. \A q \in Request \ {r} : Holds(q, i, b)' = Holds(q, i, b)
  BY <1>2 DEF Holds
<1>5. ASSUME faults = 0, blobs[<<i, b>>] # NoBlob
      PROVE  Named(i, b) \/ \E q \in Request : Holds(q, i, b)
  BY <1>2, <1>5, OwnersAre
<1>6. ASSUME faults = 0, blobs' = blobs, meta' = meta, Holds(r, i, b) => Holds(r, i, b)'
      PROVE  Named(i, b)' \/ \E q \in Request : Holds(q, i, b)'
  <2>1. Named(i, b)' = Named(i, b)
    BY <1>6 DEF Named, Live
  <2> QED
    BY <1>4, <1>5, <1>6, <2>1
<1>7. CASE Deliver(r) \/ RefuseEarly(r) \/ AnswerUnchanged(r) \/ ResolveName(r) \/ RejectBody(r)
           \/ Reply(r)
  <2>1. /\ pc[r] \in {"idle", "lost", "check", "upload", "reply"}
        /\ blobs' = blobs /\ meta' = meta /\ faults = 0
    BY <1>1, <1>3, <1>7 DEF Deliver, RefuseEarly, AnswerUnchanged, ResolveName, RejectBody,
       Reply, objects
  <2> QED
    BY <1>6, <2>1 DEF Holds
<1>8. CASE StoreBlob(r)
  <2>1. /\ pc[r] = "upload" /\ meta' = meta /\ faults = 0 /\ call[r].op # "delete"
        /\ blobs' = [blobs EXCEPT ![<<call[r].id, call[r].nonce>>] = call[r].content]
        /\ pc'[r] \in {"create", "lock"}
    BY <1>1, <1>3, <1>8 DEF StoreBlob, SetBlob, Goto, PhaseOK
  <2>2. CASE i = call[r].id /\ b = call[r].nonce
    <3>1. Holds(r, i, b)'
      BY <1>2, <2>1, <2>2 DEF Holds
    <3> QED
      BY <3>1
  <2>3. CASE ~(i = call[r].id /\ b = call[r].nonce)
    <3>1. blobs'[<<i, b>>] = blobs[<<i, b>>]
      BY <1>1, <2>1, <2>3
    <3>2. ~Holds(r, i, b) /\ Named(i, b)' = Named(i, b)
      BY <2>1 DEF Holds, Named, Live
    <3> QED
      BY <1>4, <1>5, <2>1, <3>1, <3>2
  <2> QED
    BY <2>2, <2>3
<1>9. CASE ReserveMetadata(r)
  <2>1. /\ pc[r] = "create" /\ pc'[r] \in {"fill", "undo"} /\ faults = 0 /\ blobs' = blobs
        /\ meta' = meta \/ (meta[call[r].id] = Missing /\ meta' = [meta EXCEPT ![call[r].id] = Torn])
    BY <1>1, <1>3, <1>9 DEF ReserveMetadata, SetMeta, Goto
  <2>2. Named(i, b) => Named(i, b)'
    BY <1>1, <2>1 DEF Named, Live
  <2>3. Holds(r, i, b) => Holds(r, i, b)'
    BY <1>2, <2>1 DEF Holds
  <2> QED
    BY <1>4, <1>5, <2>1, <2>2, <2>3
<1>10. CASE FillMetadata(r)
  <2> DEFINE n == File([owner |-> call[r].key, name |-> call[r].name, content |-> call[r].content],
                       BlobKey(r), 1)
  <2>1. /\ pc[r] = "fill" /\ pc'[r] = "seal" /\ faults = 0 /\ blobs' = blobs
        /\ meta' = [meta EXCEPT ![call[r].id] = n] /\ meta[call[r].id] = Torn
    BY <1>1, <1>3, <1>10 DEF FillMetadata, SetMeta, Goto, TornIsOurs
  <2>2. n.blob = call[r].nonce
    BY DEF File
  <2>3. n \notin {Missing, Torn}
    <3>1. call[r].op = "create" /\ call[r].name \in Name /\ call[r].key \in Key
          /\ call[r].content \in Content
      BY <1>1, <2>1, CallType DEF PhaseOK, TypeOK, CallRecord
    <3>2. [owner |-> call[r].key, name |-> call[r].name, content |-> call[r].content] \in Described
      BY <3>1 DEF Described
    <3>3. n \in Metadata
      BY <1>1, <3>2, FileType
    <3> QED
      BY <3>3, SentinelAssumption
  <2> HIDE DEF n
  <2>4. Named(i, b) => Named(i, b)'
    BY <1>1, <2>1 DEF Named, Live
  <2>5. Holds(r, i, b) => Named(i, b)'
    BY <1>1, <2>1, <2>2, <2>3 DEF Holds, Named, Live
  <2> QED
    BY <1>4, <1>5, <2>1, <2>4, <2>5
<1>11. CASE SealMetadata(r)
  <2>1. pc[r] = "seal" /\ blobs' = blobs /\ meta' = meta /\ faults = 0
    BY <1>3, <1>11 DEF SealMetadata, objects
  <2> QED
    BY <1>6, <2>1 DEF Holds
<1>12. CASE Lock(r) \/ CheckAgain(r)
  <2>1. /\ blobs' = blobs /\ meta' = meta /\ faults = 0
        /\ pc[r] \in {"lock", "locked"} /\ call[r].op # "create"
        /\ call[r].op # "delete" => pc'[r] \in {"locked", "commit", "undo"}
    BY <1>1, <1>3, <1>12 DEF Lock, CheckAgain, objects, Goto, PhaseOK
  <2> QED
    BY <1>2, <1>6, <2>1 DEF Holds
<1>16. CASE Discard(r)
  <2>1. /\ pc[r] = "discard" /\ blobs' = blobs /\ faults = 0 /\ meta[call[r].id] = Torn
        /\ meta' = [meta EXCEPT ![call[r].id] = Missing]
    BY <1>1, <1>3, <1>16 DEF Discard, SetMeta, TornIsOurs
  <2>2. Named(i, b) => Named(i, b)'
    BY <1>1, <2>1 DEF Named, Live
  <2>3. ~Holds(r, i, b)
    BY <2>1 DEF Holds
  <2> QED
    BY <1>4, <1>5, <2>1, <2>2, <2>3
<1>13. CASE Commit(r)
  <2>1. /\ pc[r] = "commit" /\ pc'[r] = "cleanup" /\ faults = 0 /\ blobs' = blobs /\ prev' = prev
        /\ meta' = [meta EXCEPT ![call[r].id] = Replacement(r)] /\ prev[r] = meta[call[r].id]
    BY <1>1, <1>3, <1>13 DEF Commit, SetMeta, Goto, HoldsLock
  <2>2. Replacement(r).blob = call[r].nonce /\ Replacement(r) \notin {Missing, Torn}
    <3>1. /\ call[r].content \in Content /\ named[r] \in Name /\ prev[r] \in Metadata
          /\ call[r].op = "update"
      BY <1>1, <2>1, CallType DEF TypeOK, CallRecord, PhaseOK
    <3>2. [owner |-> prev[r].owner, name |-> named[r], content |-> call[r].content] \in Described
          /\ prev[r].rev + 1 \in Nat
      BY <3>1 DEF Described, Metadata
    <3>3. Replacement(r) \in Metadata
      BY <1>1, <3>1, <3>2, FileType DEF Replacement
    <3> QED
      BY <3>3, SentinelAssumption DEF Replacement, File
  <2>3. Named(i, b) => Named(i, b)' \/ Holds(r, i, b)'
    BY <1>1, <1>2, <2>1 DEF Named, Live, Holds
  <2>4. Holds(r, i, b) => Named(i, b)'
    BY <1>1, <2>1, <2>2 DEF Holds, Named, Live
  <2> QED
    BY <1>4, <1>5, <2>1, <2>3, <2>4
<1>14. CASE Remove(r)
  <2>1. /\ pc[r] = "remove" /\ pc'[r] = "cleanup" /\ faults = 0 /\ blobs' = blobs /\ prev' = prev
        /\ meta' = [meta EXCEPT ![call[r].id] = Missing] /\ prev[r] = meta[call[r].id]
    BY <1>1, <1>3, <1>14 DEF Remove, SetMeta, Goto, HoldsLock
  <2>2. Named(i, b) => Named(i, b)' \/ Holds(r, i, b)'
    BY <1>1, <1>2, <2>1 DEF Named, Live, Holds
  <2>3. ~Holds(r, i, b)
    BY <2>1 DEF Holds
  <2> QED
    BY <1>4, <1>5, <2>1, <2>2, <2>3
<1>15. CASE Undo(r) \/ Cleanup(r)
  <2> DEFINE gone == IF pc[r] = "undo" THEN call[r].nonce ELSE prev[r].blob
  <2>1. /\ pc[r] \in {"undo", "cleanup"} /\ faults = 0 /\ meta' = meta
        /\ blobs' = [blobs EXCEPT ![<<call[r].id, gone>>] = NoBlob]
    BY <1>1, <1>3, <1>15 DEF Undo, Cleanup, DropBlob, SetBlob
  <2>2. gone \in Id
    BY <1>1, <2>1 DEF PhaseOK, TypeOK, Metadata
  <2>3. ~(i = call[r].id /\ b = gone) /\ blobs[<<i, b>>] # NoBlob
    BY <1>1, <2>1, <2>2
  <2>4. ~Holds(r, i, b)
    BY <2>1, <2>3 DEF Holds
  <2>5. Named(i, b)' = Named(i, b)
    BY <2>1 DEF Named, Live
  <2> QED
    BY <1>4, <1>5, <2>1, <2>3, <2>4, <2>5
<1> QED
  BY <1>7, <1>8, <1>9, <1>10, <1>11, <1>12, <1>13, <1>14, <1>15,
     <1>16 DEF Handle

LEMMA NextOwners ==
    ASSUME ServiceInv, ServiceInv', BlobsHaveOwners, [Next]_vars
    PROVE  BlobsHaveOwners'
<1>1. CASE \E r \in Request : Deliver(r) \/ Handle(r)
  BY <1>1, HandlerOwners
<1>2. CASE UNCHANGED vars
  BY <1>2 DEF vars, objects, handlers, BlobsHaveOwners, Live
<1>3. ASSUME NEW x \in Reader, Read(x) PROVE BlobsHaveOwners'
  <2>1. UNCHANGED <<objects, handlers, crashes>>
    BY <1>3, ReaderFrame DEF ServiceInv, SafeContent
  <2>2. faults' = 0 => faults = 0
    BY <1>3 DEF Read, Get, Open, ReadAgain, FailGet, Fault, ServiceInv, SafeContent, TypeOK
  <2> QED
    BY <2>1, <2>2 DEF objects, handlers, BlobsHaveOwners, Live
<1>4. CASE Crash
  <2>1. crashes' # 0
    BY <1>4 DEF Crash, ServiceInv, SafeContent, TypeOK
  <2> QED
    BY <2>1 DEF BlobsHaveOwners
<1> QED
  BY <1>1, <1>2, <1>3, <1>4 DEF Next, Terminating

(* As long as no object access fails and the process does not die, the       *)
(* handlers of files.go leave no blob behind: when none is at work, the      *)
(* blobs on disk are ones that the metadata name, whatever raced and         *)
(* whatever nonces the requests carried.                                     *)
THEOREM NoBlobIsLeftBehind ==
    ASSUME ~LateFaults, ~Redeliver
    PROVE  Spec => []NoOrphanBlobs
<1>1. ServiceInv /\ BlobsHaveOwners => NoOrphanBlobs
  <2> SUFFICES ASSUME ServiceInv, BlobsHaveOwners, faults = 0, crashes = 0,
                      \A r \in Request : pc[r] \in {"idle", "done"},
                      NEW i \in Id, NEW b \in Id
               PROVE  blobs[<<i, b>>] # NoBlob => Live(i) /\ meta[i].blob = b
    BY DEF NoOrphanBlobs
  <2> QED
    BY DEF BlobsHaveOwners
<1>2. ServiceInv /\ ServiceInv' /\ BlobsHaveOwners /\ [Next]_vars => BlobsHaveOwners'
  BY NextOwners
<1> QED
  BY InitOwners, <1>1, <1>2, ServiceInvariant, PTL DEF Spec
=============================================================================
