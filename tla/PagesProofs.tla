---------------------------- MODULE PagesProofs ----------------------------
(* Theorems about Pages, for any number of requests, GETs, pages, keys and   *)
(* bodies, and any bounds.                                                   *)
EXTENDS Pages, TLAPS, FiniteSetTheorems

USE DEF PagesFree

-----------------------------------------------------------------------------
(* What each request asks.                                                   *)
LEMMA CallType ==
    ASSUME call \in Workload, NEW r \in Request
    PROVE  /\ call[r] \in CallRecord /\ P(r) \in Page
           /\ call[r].kind \in Kind /\ call[r].body \in Body /\ call[r].key \in Key
           /\ call[r].op \in {"create", "update"}
<1>1. call[r] \in CallRecord
  BY WorkloadAssumption
<1> QED
  BY <1>1 DEF CallRecord, P

(* What a handler may go on with after its checks, and what it then knows    *)
(* about the page it found.                                                  *)
LEMMA VerdictIs ==
    ASSUME NEW q \in CallRecord, NEW c \in Contents, NEW m \in Metadata \cup {None}
    PROVE  LET v == Verdict(q, c, m) IN
           /\ v \in {"reserve", "write", "meta"} \cup Success \cup Refused
           /\ v = "reserve" => Kinds(c) = {} /\ q.op = "create"
           /\ v \in {"write", "meta"} => /\ Kinds(c) # {} /\ Kinds(c) # Kind
                                         /\ May(q.key, m)
           /\ v = "write" => c[q.kind] # q.body /\ q.op = "update"
           /\ v = "meta" => c[q.kind] = q.body /\ m = None
<1> DEFINE same == c[q.kind] = q.body
<1>1. CASE Kinds(c) = Kind
  <2>1. Kinds(c) # {}
    BY <1>1 DEF Kind
  <2>2. Verdict(q, c, m) = "broken"
    BY <1>1, <2>1 DEF Verdict
  <2> QED
    BY <2>1, <2>2 DEF Success, Refused
<1>2. CASE Kinds(c) = {}
  <2>1. Kinds(c) # Kind
    BY <1>2 DEF Kind
  <2>2. Verdict(q, c, m) = IF q.op = "create" THEN "reserve" ELSE "notFound"
    BY <1>2, <2>1 DEF Verdict
  <2> QED
    BY <1>2, <2>2 DEF Success, Refused, CallRecord
<1>3. CASE Kinds(c) # Kind /\ Kinds(c) # {}
  <2>1. Verdict(q, c, m) =
            IF q.op = "create" /\ ~(same /\ May(q.key, m)) THEN "conflict"
            ELSE IF ~May(q.key, m) THEN "forbidden"
            ELSE IF ~same THEN "write"
            ELSE IF m = None THEN "meta"
            ELSE IF q.op = "create" THEN "exists" ELSE "unchanged"
    BY <1>3 DEF Verdict
  <2> HIDE DEF same
  <2>2. \/ Verdict(q, c, m) \in {"conflict", "forbidden", "exists", "unchanged"}
        \/ Verdict(q, c, m) = "write" /\ May(q.key, m) /\ ~same /\ q.op # "create"
        \/ Verdict(q, c, m) = "meta" /\ May(q.key, m) /\ same /\ m = None
    BY <2>1
  <2> QED
    BY <1>3, <2>2 DEF Success, Refused, same, CallRecord
<1> QED
  BY <1>1, <1>2, <1>3

(* The kind of a page that is there, which is its only one if not both are.  *)
LEMMA OldKindIs ==
    ASSUME NEW r \in Request, old[r] \in Stored, ~IsNew(r)
    PROVE  /\ OldKind(r) \in Kind /\ old[r].content[OldKind(r)] # None
           /\ Kinds(old[r].content) # Kind =>
                 \A k \in Kind : k # OldKind(r) => old[r].content[k] = None
<1>1. OldKind(r) \in Kinds(old[r].content)
  BY DEF IsNew, OldKind
<1>2. ASSUME Kinds(old[r].content) # Kind, NEW k \in Kind, k # OldKind(r),
             old[r].content[k] # None
      PROVE  FALSE
  <2>1. Kinds(old[r].content) = Kind
    BY <1>1, <1>2 DEF Kinds, Kind
  <2> QED
    BY <1>2, <2>1
<1> QED
  BY <1>1, <1>2 DEF Kinds

(* An object of a page changes and all others stay.                          *)
LEMMA ContentSet ==
    ASSUME content \in [Page -> Contents], NEW r \in Request, P(r) \in Page,
           NEW k \in Kind, NEW c, SetContent(r, k, c)
    PROVE  /\ content'[P(r)][k] = c
           /\ \A j \in Kind : j # k => content'[P(r)][j] = content[P(r)][j]
           /\ \A p \in Page : p # P(r) => content'[p] = content[p]
           /\ c \in Body \cup {None, Torn} => content' \in [Page -> Contents]
  BY DEF SetContent, Contents

(* A revision that is written is a first one, the one that was found or the  *)
(* one after it.                                                             *)
LEMMA RevisionWritten ==
    ASSUME NEW r \in Request, old[r] \in Stored, call[r].key \in Key
    PROVE  /\ NewMetadata(r) \in Metadata
           /\ NewMetadata(r).rev = (IF IsNew(r) \/ old[r].meta = None THEN 1 ELSE old[r].meta.rev)
                                   + (IF Replaces(r) THEN 1 ELSE 0)
<1> DEFINE m == IF IsNew(r) \/ old[r].meta = None THEN Fresh(r) ELSE old[r].meta
<1>1. /\ m \in Metadata
      /\ m.rev = IF IsNew(r) \/ old[r].meta = None THEN 1 ELSE old[r].meta.rev
  BY DEF Stored, Fresh, Metadata
<1>2. NewMetadata(r) = IF Replaces(r) THEN [m EXCEPT !.rev = @ + 1] ELSE m
  BY DEF NewMetadata
<1> HIDE DEF m
<1>3. [m EXCEPT !.rev = @ + 1] \in Metadata /\ [m EXCEPT !.rev = @ + 1].rev = m.rev + 1
      /\ m.rev \in Nat
  BY <1>1 DEF Metadata
<1> QED
  BY <1>1, <1>2, <1>3

-----------------------------------------------------------------------------
(* Every step keeps the variables in their types.                            *)
LEMMA NextTypeOK ==
    ASSUME TypeOK, HoldsPage, [Next]_vars
    PROVE  TypeOK'
<1> USE SentinelAssumption, BoundAssumption DEF TypeOK
<1>0. late' \in Request \cup {Free}
  BY DEF Next, Handle, Begin, Reserve, Fill, Unmake, Write, Remove, WriteMeta, Restore,
     Unwrite, Get, Crash, Terminating, vars, OnTime, LateFault
<1> DEFINE Rest == UNCHANGED <<call, old, got, crashes>>
<1>1. ASSUME NEW r \in Request, Begin(r)
      PROVE  TypeOK'
  <2> DEFINE c == content[P(r)]
             m == meta[P(r)]
             v == Verdict(call[r], c, m)
  <2>1. /\ call[r] \in CallRecord /\ P(r) \in Page
        /\ c \in Contents /\ m \in Metadata \cup {None}
    BY CallType
  <2>2. v \in {"reserve", "write", "meta"} \cup Success \cup Refused
    BY <2>1, VerdictIs
  <2> HIDE DEF v
  <2>3. old' \in [Request -> Stored \cup {None}]
    BY <1>1, <2>1 DEF Begin, Stored
  <2>4. /\ lock' \in Request \cup {Free} /\ pc' \in [Request -> Phase] /\ faults' \in Nat
        /\ answer' \in [Request -> Success \cup Refused \cup {"none", "error"}]
    <3>1. CASE v \in Phase /\ Goto(r, v) /\ lock' = r /\ NoFault /\ UNCHANGED answer
      BY <3>1 DEF Goto, NoFault
    <3>2. CASE v \notin Phase /\ Answer(r, v) /\ NoFault
      <4>1. v \in Success \cup Refused
        BY <2>2, <3>2 DEF Phase
      <4> QED
        BY <3>2, <4>1 DEF Answer, Goto, NoFault, Phase
    <3>3. CASE Fault /\ Answer(r, "error")
      BY <3>3 DEF Answer, Goto, Fault, Phase
    <3> QED
      BY <1>1, <3>1, <3>2, <3>3 DEF Begin, v
  <2> QED
    BY <1>0, <1>1, <2>3, <2>4 DEF Begin, objects
<1>2. ASSUME NEW r \in Request, NEW k \in Kind, NEW c \in Body \cup {None, Torn},
             SetContent(r, k, c) \/ UNCHANGED content
      PROVE  content' \in [Page -> Contents]
  BY <1>2, ContentSet, CallType
<1>3. ASSUME NEW r \in Request, NEW a \in {"error", "created", "updated", "exists", "unchanged"},
             NEW ph \in Phase, Answer(r, a) \/ Proceed(r, ph)
      PROVE  /\ lock' \in Request \cup {Free} /\ pc' \in [Request -> Phase]
             /\ answer' \in [Request -> Success \cup Refused \cup {"none", "error"}]
  BY <1>3 DEF Answer, Proceed, Goto, Phase, Success
<1>4. ASSUME Fault \/ NoFault \/ TwoFaults \/ \E r \in Request : LateFault(r)
      PROVE  faults' \in Nat
  BY <1>4 DEF Fault, NoFault, TwoFaults, LateFault
<1>5. ASSUME NEW r \in Request, Reserve(r)
      PROVE  TypeOK'
  BY <1>0, <1>2, <1>3, <1>4, <1>5, CallType DEF Reserve, Phase
<1>6. ASSUME NEW r \in Request, Fill(r)
      PROVE  TypeOK'
  BY <1>0, <1>2, <1>3, <1>4, <1>6, CallType DEF Fill, Phase
<1>7. ASSUME NEW r \in Request, Unmake(r)
      PROVE  TypeOK'
  BY <1>0, <1>2, <1>3, <1>4, <1>7, CallType DEF Unmake, Phase
<1>8. ASSUME NEW r \in Request, Write(r)
      PROVE  TypeOK'
  BY <1>0, <1>2, <1>3, <1>4, <1>8, CallType DEF Write, Phase
<1>9. ASSUME NEW r \in Request, pc[r] \in Changing
      PROVE  /\ OldKind(r) \in Kind
             /\ old[r].content[OldKind(r)] \in Body \cup {None, Torn}
  <2>1. old[r] \in Stored /\ ~IsNew(r)
    BY <1>9 DEF HoldsPage, Changing, Working, Phase, Replaces
  <2>2. OldKind(r) \in Kind
    BY <2>1, OldKindIs
  <2> QED
    BY <2>1, <2>2 DEF Stored, Contents
<1>10. ASSUME NEW r \in Request, Remove(r)
       PROVE  TypeOK'
  <2>1. OldKind(r) \in Kind
    BY <1>9, <1>10 DEF Remove, Changing
  <2> QED
    BY <1>0, <1>2, <1>3, <1>4, <1>10, <2>1 DEF Remove, Phase
<1>11. ASSUME NEW r \in Request, WriteMeta(r)
       PROVE  TypeOK'
  <2>1. NewMetadata(r) \in Metadata
    <3>1. old[r] \in Stored /\ call[r].key \in Key
      BY <1>11, CallType DEF WriteMeta, HoldsPage, Working, Phase
    <3> QED
      BY <3>1, RevisionWritten
  <2>2. meta' \in [Page -> Metadata \cup {None}]
    BY <1>11, <2>1 DEF WriteMeta, SetMeta
  <2>3. faults' \in Nat
    BY <1>4, <1>11 DEF WriteMeta
  <2>4. /\ lock' \in Request \cup {Free} /\ pc' \in [Request -> Phase]
        /\ answer' \in [Request -> Success \cup Refused \cup {"none", "error"}]
    <3>1. \/ \E a \in {"error", "created", "updated", "exists", "unchanged"} : Answer(r, a)
          \/ \E ph \in Phase : Proceed(r, ph)
      BY <1>11 DEF WriteMeta, Phase
    <3> QED
      BY <1>3, <3>1 DEF Phase
  <2> QED
    BY <1>0, <1>11, <2>2, <2>3, <2>4 DEF WriteMeta
<1>12. ASSUME NEW r \in Request, Restore(r)
       PROVE  TypeOK'
  <2>1. /\ OldKind(r) \in Kind
        /\ old[r].content[OldKind(r)] \in Body \cup {None, Torn}
    BY <1>9, <1>12 DEF Restore, Changing
  <2>2. content' \in [Page -> Contents]
    BY <1>2, <1>12, <2>1 DEF Restore
  <2>3. faults' \in Nat
    BY <1>4, <1>12 DEF Restore
  <2> QED
    BY <1>0, <1>3, <1>12, <2>2, <2>3 DEF Restore, Phase
<1>13. ASSUME NEW r \in Request, Unwrite(r)
       PROVE  TypeOK'
  BY <1>0, <1>2, <1>3, <1>4, <1>13, CallType DEF Unwrite, Phase
<1>14. ASSUME NEW x \in Reader, NEW p \in Page, Get(x, p)
       PROVE  TypeOK'
  <2>1. Response(content[p]) \in Responses
    BY DEF Response, Responses, Kinds
  <2> QED
    BY <1>0, <1>4, <1>14, <2>1 DEF Get, Responses, objects
<1>15. ASSUME Crash
       PROVE  TypeOK'
  BY <1>15 DEF Crash, Phase, objects
<1>16. ASSUME UNCHANGED vars
       PROVE  TypeOK'
  BY <1>16 DEF vars, objects
<1> QED
  BY <1>1, <1>5, <1>6, <1>7, <1>8, <1>10, <1>11, <1>12, <1>13, <1>14, <1>15, <1>16
     DEF Next, Handle, Terminating

-----------------------------------------------------------------------------
(* A handler that goes from one phase to the next keeps the lock, and one    *)
(* that answers gives it up; the others are not at work.                     *)
LEMMA OneAtWork ==
    ASSUME HoldsPage, lock # Free, NEW r \in Request, pc[r] \in Working, NEW q \in Request, q # r
    PROVE  pc[q] \notin Working
  BY DEF HoldsPage

LEMMA AnswerKeepsHoldsPage ==
    ASSUME TypeOK, HoldsPage, NEW r \in Request, pc[r] \in Working,
           NEW a, Answer(r, a), UNCHANGED <<call, old>>
    PROVE  HoldsPage'
<1>1. \A q \in Request : pc'[q] \notin Working
  BY OneAtWork, SentinelAssumption DEF TypeOK, HoldsPage, Answer, Goto, Working
<1> QED
  BY <1>1 DEF HoldsPage

LEMMA ProceedKeepsHoldsPage ==
    ASSUME TypeOK, HoldsPage, NEW r \in Request, pc[r] \in Working,
           NEW ph \in Working, Proceed(r, ph), UNCHANGED <<call, old>>,
           ph \in Making => IsNew(r),
           ph \in Changing => Replaces(r),
           ph \in {"remove", "unwrite"} => Converts(r)
    PROVE  HoldsPage'
<1>0. /\ lock' = r /\ old'[r] # None /\ old' = old /\ call' = call
      /\ pc'[r] = ph /\ (IsNew(r) \/ Owned(r))
  BY DEF TypeOK, HoldsPage, Proceed, Goto
<1>1. /\ (IsNew(r) \/ Owned(r))'
      /\ IsNew(r)' = IsNew(r) /\ Replaces(r)' = Replaces(r) /\ Converts(r)' = Converts(r)
  BY <1>0 DEF IsNew, Owned, Replaces, Converts, OldKind
<1>2. \A q \in Request : q # r => pc'[q] \notin Working
  BY OneAtWork, SentinelAssumption DEF TypeOK, HoldsPage, Proceed, Goto
<1> QED
  BY <1>0, <1>1, <1>2 DEF HoldsPage, P

(* Every step keeps what is known of the handler at work.                    *)
LEMMA NextHoldsPage ==
    ASSUME TypeOK, HoldsPage, [Next]_vars
    PROVE  HoldsPage'
<1> USE SentinelAssumption
<1>1. ASSUME NEW r \in Request, Begin(r)
      PROVE  HoldsPage'
  <2> DEFINE c == content[P(r)]
             m == meta[P(r)]
             v == Verdict(call[r], c, m)
  <2>1. /\ call[r] \in CallRecord /\ P(r) \in Page
        /\ c \in Contents /\ m \in Metadata \cup {None}
    BY CallType DEF TypeOK
  <2>2. /\ v \in {"reserve", "write", "meta"} \cup Success \cup Refused
        /\ v = "reserve" => Kinds(c) = {} /\ call[r].op = "create"
        /\ v \in {"write", "meta"} => /\ Kinds(c) # {} /\ Kinds(c) # Kind
                                      /\ May(call[r].key, m)
        /\ v = "write" => c[call[r].kind] # call[r].body /\ call[r].op = "update"
        /\ v = "meta" => c[call[r].kind] = call[r].body
    BY <2>1, VerdictIs
  <2>3. old'[r] = [content |-> c, meta |-> m] /\ call' = call
    BY <1>1 DEF Begin, TypeOK
  <2>4. \A q \in Request : pc[q] \notin Working
    BY <1>1 DEF Begin, HoldsPage
  <2> HIDE DEF v
  <2>5. CASE v \in Phase /\ Goto(r, v) /\ lock' = r
    <3>1. v \in {"reserve", "write", "meta"} /\ pc'[r] = v
      BY <2>2, <2>5 DEF Phase, Success, Refused, Goto, TypeOK
    <3>2. \A q \in Request : pc'[q] \in Working => q = r
      BY <2>4, <2>5 DEF Goto, TypeOK
    <3>3. (IsNew(r) \/ Owned(r))'
      BY <2>2, <2>3, <3>1 DEF IsNew, Owned, May
    <3>4. pc'[r] \in Making => IsNew(r)'
      BY <2>2, <2>3, <3>1 DEF IsNew, Making
    <3>5. pc'[r] \in Changing => Replaces(r)'
      BY <2>2, <2>3, <3>1 DEF IsNew, Replaces, Changing
    <3>6. old'[r] # None
      <4>1. old'[r] \in Stored
        BY <2>1, <2>3 DEF Stored
      <4> QED
        BY <4>1
    <3>7. /\ Kinds(old'[r].content) # Kind
          /\ call'[r].op = "create" => ~Replaces(r)'
          /\ call'[r].op = "update" => ~IsNew(r)'
      BY <2>2, <2>3, <3>1 DEF IsNew, Replaces, Kind
    <3> QED
      BY <2>5, <3>1, <3>2, <3>3, <3>4, <3>5, <3>6, <3>7 DEF HoldsPage
  <2>6. CASE \E a \in Success \cup Refused \cup {"error"} : Answer(r, a)
    <3>1. \A q \in Request : pc'[q] \notin Working
      BY <2>4, <2>6 DEF Answer, Goto, TypeOK, Working
    <3> QED
      BY <3>1 DEF HoldsPage
  <2> QED
    BY <1>1, <2>2, <2>5, <2>6 DEF Begin, v, Phase
<1>2. ASSUME NEW r \in Request, Reserve(r)
      PROVE  HoldsPage'
  <2>1. IsNew(r)
    BY <1>2 DEF Reserve, HoldsPage, Working, Making, Phase
  <2> QED
    BY <1>2, <2>1, AnswerKeepsHoldsPage, ProceedKeepsHoldsPage
       DEF Reserve, Working, Phase, Making, Changing
<1>3. ASSUME NEW r \in Request, Fill(r)
      PROVE  HoldsPage'
  BY <1>3, AnswerKeepsHoldsPage, ProceedKeepsHoldsPage
     DEF Fill, Working, Phase, Making, Changing
<1>4. ASSUME NEW r \in Request, Unmake(r)
      PROVE  HoldsPage'
  BY <1>4, AnswerKeepsHoldsPage DEF Unmake, Working, Phase
<1>5. ASSUME NEW r \in Request, Write(r)
      PROVE  HoldsPage'
  <2>1. Replaces(r)
    BY <1>5 DEF Write, HoldsPage, Working, Changing, Phase
  <2> QED
    BY <1>5, <2>1, AnswerKeepsHoldsPage, ProceedKeepsHoldsPage
       DEF Write, Working, Phase, Making, Changing
<1>6. ASSUME NEW r \in Request, Remove(r)
      PROVE  HoldsPage'
  <2>1. Replaces(r) /\ Converts(r)
    BY <1>6 DEF Remove, HoldsPage, Working, Changing, Phase
  <2> QED
    BY <1>6, <2>1, ProceedKeepsHoldsPage DEF Remove, Working, Phase, Making, Changing
<1>7. ASSUME NEW r \in Request, WriteMeta(r)
      PROVE  HoldsPage'
  <2>1. \/ \E a \in {"error", "created", "updated", "exists", "unchanged"} : Answer(r, a)
        \/ IsNew(r) /\ Proceed(r, "unmake")
        \/ Replaces(r) /\ Proceed(r, "restore")
    BY <1>7 DEF WriteMeta
  <2>2. pc[r] \in Working /\ UNCHANGED <<call, old>>
    BY <1>7 DEF WriteMeta, Working, Phase
  <2>3. CASE \E a \in {"error", "created", "updated", "exists", "unchanged"} : Answer(r, a)
    BY <2>2, <2>3, AnswerKeepsHoldsPage
  <2>4. CASE IsNew(r) /\ Proceed(r, "unmake")
    BY <2>2, <2>4, ProceedKeepsHoldsPage DEF Working, Phase, Making, Changing
  <2>5. CASE Replaces(r) /\ Proceed(r, "restore")
    BY <2>2, <2>5, ProceedKeepsHoldsPage DEF Working, Phase, Making, Changing
  <2> QED
    BY <2>1, <2>3, <2>4, <2>5
<1>8. ASSUME NEW r \in Request, Restore(r)
      PROVE  HoldsPage'
  <2>1. Replaces(r) /\ pc[r] \in Working /\ UNCHANGED <<call, old>>
    BY <1>8 DEF Restore, HoldsPage, Working, Changing, Phase
  <2>2. \/ Converts(r) /\ Proceed(r, "unwrite")
        \/ Answer(r, "error")
    BY <1>8 DEF Restore
  <2> QED
    BY <2>1, <2>2, AnswerKeepsHoldsPage, ProceedKeepsHoldsPage
       DEF Working, Phase, Making, Changing
<1>9. ASSUME NEW r \in Request, Unwrite(r)
      PROVE  HoldsPage'
  BY <1>9, AnswerKeepsHoldsPage DEF Unwrite, Working, Phase
<1>10. ASSUME Crash
       PROVE  HoldsPage'
  <2>1. \A r \in Request : pc'[r] \notin Working
    BY <1>10 DEF Crash, Working
  <2> QED
    BY <2>1 DEF HoldsPage
<1>11. ASSUME UNCHANGED <<lock, pc, call, old>>
       PROVE  HoldsPage'
  BY <1>11 DEF HoldsPage, IsNew, Owned, Replaces, Converts, OldKind
<1>12. ASSUME NEW x \in Reader, NEW p \in Page, Get(x, p)
       PROVE  HoldsPage'
  BY <1>11, <1>12 DEF Get
<1> QED
  BY <1>1, <1>2, <1>3, <1>4, <1>5, <1>6, <1>7, <1>8, <1>9, <1>10, <1>11, <1>12
     DEF Next, Handle, Terminating, vars

-----------------------------------------------------------------------------
(* One object and nothing beside it is a whole page.                         *)
LEMMA OneObject ==
    ASSUME NEW c \in Contents, NEW k \in Kind, c[k] \in Body,
           \A j \in Kind : j # k => c[j] = None
    PROVE  Whole(c)
<1>1. PICK j \in Kind : j # k
  BY DEF Kind
<1>2. Kinds(c) # Kind
  BY <1>1 DEF Kinds
<1> QED
  BY <1>2, SentinelAssumption DEF Whole

(* What the handler at work has found and done.                              *)
LEMMA AtWork ==
    ASSUME WorkInv, OneFault, NEW r \in Request, pc[r] \in Working
    PROVE  /\ old[r] \in Stored /\ Kinds(old[r].content) # Kind
           /\ \/ meta[P(r)] = old[r].meta
              \/ late = r /\ meta[P(r)] = NewMetadata(r)
           /\ late # Free => faults = 1
           /\ P(r) \in Page /\ call[r].kind \in Kind /\ call[r].body \in Body
           /\ content[P(r)] \in Contents /\ old[r].content \in Contents
           /\ \A k \in Kind : content[P(r)][k] = SoFar(r, k)
           /\ pc[r] \in {"unmake", "restore", "unwrite"} => faults = 1
           /\ pc[r] \in Making => IsNew(r)
           /\ pc[r] \in Changing => Replaces(r)
           /\ pc[r] \in {"remove", "unwrite"} => Converts(r)
           /\ IsNew(r) => \A k \in Kind : old[r].content[k] = None
           /\ Replaces(r) => /\ OldKind(r) \in Kind
                             /\ \A k \in Kind : k # OldKind(r) => old[r].content[k] = None
<1>1. old[r] \in Stored
  BY DEF PagesInv, WorkInv, TypeOK, HoldsPage
<1>2. /\ Kinds(old[r].content) # Kind
      /\ \/ meta[P(r)] = old[r].meta
         \/ late = r /\ meta[P(r)] = NewMetadata(r)
      /\ late # Free => faults = 1
  BY DEF PagesInv, WorkInv, HoldsPage, InProgress
<1>3. /\ P(r) \in Page /\ call[r].kind \in Kind /\ call[r].body \in Body
      /\ content[P(r)] \in Contents /\ old[r].content \in Contents
  BY <1>1, CallType DEF PagesInv, WorkInv, TypeOK, Stored
<1>4. /\ \A k \in Kind : content[P(r)][k] = SoFar(r, k)
      /\ pc[r] \in {"unmake", "restore", "unwrite"} => faults = 1
  BY DEF PagesInv, WorkInv, InProgress
<1>5. /\ pc[r] \in Making => IsNew(r)
      /\ pc[r] \in Changing => Replaces(r)
      /\ pc[r] \in {"remove", "unwrite"} => Converts(r)
  BY DEF PagesInv, WorkInv, HoldsPage
<1>6. IsNew(r) => \A k \in Kind : old[r].content[k] = None
  BY DEF IsNew, Kinds
<1>7. Replaces(r) => /\ OldKind(r) \in Kind
                     /\ \A k \in Kind : k # OldKind(r) => old[r].content[k] = None
  BY <1>1, <1>2, OldKindIs DEF Replaces
<1> QED
  BY <1>1, <1>2, <1>3, <1>4, <1>5, <1>6, <1>7

(* Contents that agree on both kinds are the same.                           *)
LEMMA SameContents ==
    ASSUME NEW c \in Contents, NEW d \in Contents, \A k \in Kind : c[k] = d[k]
    PROVE  c = d
  BY DEF Contents

(* Accesses only fail, never unfail.                                         *)
LEMMA WasUndisturbed ==
    ASSUME TypeOK, [Next]_vars
    PROVE  /\ OneFault' => OneFault
           /\ Calm' => Calm
           /\ Undisturbed' => Undisturbed
           /\ late' # late => late' \in Request /\ faults' = faults + 1
           /\ faults \in Nat /\ faults' \in Nat /\ faults <= faults'
<1>1. faults \in Nat /\ faults' \in Nat /\ faults <= faults'
  BY DEF TypeOK, Next, Handle, Begin, Reserve, Fill, Unmake, Write, Remove, WriteMeta,
     Restore, Unwrite, Get, Crash, Terminating, vars, Fault, NoFault, TwoFaults, LateFault
<1>2. crashes' = 0 => crashes = 0
  BY DEF TypeOK, Next, Handle, Begin, Reserve, Fill, Unmake, Write, Remove, WriteMeta,
     Restore, Unwrite, Get, Crash, Terminating, vars
<1>3. late' = late \/ \E r \in Request : LateFault(r)
  BY DEF Next, Handle, Begin, Reserve, Fill, Unmake, Write, Remove, WriteMeta,
     Restore, Unwrite, Get, Crash, Terminating, vars, OnTime
<1>4. late' # late => late' \in Request /\ faults' = faults + 1
  BY <1>3 DEF LateFault, Fault
<1> QED
  BY <1>1, <1>2, <1>4, SentinelAssumption DEF Undisturbed, Calm, OneFault

(* The page that a request asks for, and only that.                          *)
Asked(r) == [k \in Kind |-> IF k = call[r].kind THEN call[r].body ELSE None]

SuccessOf(r) == IF IsNew(r) THEN "created"
                ELSE IF Replaces(r) THEN "updated"
                ELSE IF call[r].op = "create" THEN "exists" ELSE "unchanged"

(* What a handler that answers with an error leaves: what it found, or what  *)
(* a write that failed late put there.                                       *)
Undid(r) == content'[P(r)] = old[r].content /\ meta'[P(r)] = old[r].meta

Slipped(r) ==
    /\ late' = r
    /\ \/ /\ ~IsNew(r) /\ meta'[P(r)] = old[r].meta
          /\ content'[P(r)] = [old[r].content EXCEPT ![call[r].kind] = call[r].body]
       \/ content'[P(r)] = old[r].content /\ meta'[P(r)] = NewMetadata(r)

(* What a step of the handler at work makes of its page.                     *)
Progress(r) ==
    /\ pc'[r] \in Working =>
          /\ \/ meta'[P(r)] = old[r].meta
             \/ late' = r /\ meta'[P(r)] = NewMetadata(r)
          /\ \A k \in Kind : content'[P(r)][k] = SoFar(r, k)'
          /\ pc'[r] \in {"unmake", "restore", "unwrite"} => faults' = 1
    /\ pc'[r] \notin Working =>
          /\ pc'[r] = "done" /\ answer'[r] \in {"error", SuccessOf(r)}
          /\ answer'[r] \notin Success => Undid(r) \/ Slipped(r)
          /\ answer'[r] \in Success =>
                content'[P(r)] = Asked(r) /\ meta'[P(r)] = NewMetadata(r)

Work(r) == \/ Reserve(r) \/ Fill(r) \/ Unmake(r) \/ Write(r) \/ Remove(r)
           \/ WriteMeta(r) \/ Restore(r) \/ Unwrite(r)

LEMMA WorkFrame ==
    ASSUME TypeOK, NEW r \in Request, Work(r)
    PROVE  /\ pc[r] \in Working /\ UNCHANGED <<call, old, got, crashes>>
           /\ \A p \in Page : p # P(r) => content'[p] = content[p]
  BY DEF Work, Reserve, Fill, Unmake, Write, Remove, WriteMeta, Restore, Unwrite,
     SetContent, TypeOK, Working, Phase

(* A handler that fails leaves the page as it found it, or with what a late  *)
(* write put there, one that succeeds leaves its own content, and one that   *)
(* goes on has done one access more.                                         *)
LEMMA WorkProgress ==
    ASSUME WorkInv, TypeOK', OneFault, OneFault', NEW r \in Request, Work(r)
    PROVE  Progress(r)
<1> DEFINE k0 == call[r].kind
           c == content[P(r)]
           o == old[r].content
<1>1. TypeOK /\ P(r) \in Page /\ k0 \in Kind /\ c \in Contents /\ content'[P(r)] \in Contents
  <2>1. TypeOK /\ P(r) \in Page /\ k0 \in Kind
    BY CallType DEF PagesInv, WorkInv, TypeOK
  <2> QED
    BY <2>1 DEF TypeOK
<1>2. /\ pc[r] \in Working
      /\ old' = old /\ call' = call
      /\ IsNew(r)' = IsNew(r) /\ Replaces(r)' = Replaces(r) /\ Converts(r)' = Converts(r)
  BY <1>1, WorkFrame DEF IsNew, Replaces, Converts, OldKind
<1>3. /\ Kinds(o) # Kind /\ o \in Contents
      /\ \/ meta[P(r)] = old[r].meta
         \/ late = r /\ meta[P(r)] = NewMetadata(r)
      /\ late # Free => faults = 1
      /\ call[r].body \in Body
      /\ \A k \in Kind : c[k] = SoFar(r, k)
      /\ pc[r] \in {"unmake", "restore", "unwrite"} => faults = 1
      /\ pc[r] \in Making => IsNew(r)
      /\ pc[r] \in Changing => Replaces(r)
      /\ pc[r] \in {"remove", "unwrite"} => Converts(r)
      /\ IsNew(r) => \A k \in Kind : o[k] = None
      /\ Replaces(r) => /\ OldKind(r) \in Kind
                        /\ \A k \in Kind : k # OldKind(r) => o[k] = None
  BY <1>2, AtWork
<1>4. faults \in Nat /\ faults <= 1 /\ faults' <= 1
  BY <1>1 DEF TypeOK, OneFault
<1>5. /\ ~TwoFaults /\ (Fault => faults = 0 /\ faults' = 1)
      /\ LateFault(r) => faults = 0 /\ faults' = 1 /\ late' = r
  BY <1>4 DEF TwoFaults, Fault, LateFault
<1> DEFINE MetaSoFar == \/ meta'[P(r)] = old[r].meta
                        \/ late' = r /\ meta'[P(r)] = NewMetadata(r)
<1>0. meta' = meta /\ late' = late => MetaSoFar
  BY <1>3
<1> HIDE DEF MetaSoFar
<1>6. ASSUME Answer(r, "error"), MetaSoFar, \A k \in Kind : content'[P(r)][k] = o[k]
      PROVE  Progress(r)
  <2>1. content'[P(r)] = o
    BY <1>1, <1>3, <1>6, SameContents
  <2>2. pc'[r] = "done" /\ pc'[r] \notin Working /\ answer'[r] = "error"
    BY <1>1, <1>6 DEF Answer, Goto, TypeOK, Working
  <2> QED
    BY <1>6, <2>1, <2>2 DEF Progress, Success, MetaSoFar, Undid, Slipped
<1>7. ASSUME NEW ph \in Working, Proceed(r, ph), MetaSoFar,
             \A k \in Kind : content'[P(r)][k] = SoFar(r, k)',
             ph \in {"unmake", "restore", "unwrite"} => faults' = 1
      PROVE  Progress(r)
  <2>1. pc'[r] = ph
    BY <1>1, <1>7 DEF Proceed, Goto, TypeOK
  <2> QED
    BY <1>7, <2>1 DEF Progress, MetaSoFar
<1>8. ASSUME NEW k \in Kind, NEW d, SetContent(r, k, d)
      PROVE  content'[P(r)][k] = d /\ \A j \in Kind : j # k => content'[P(r)][j] = c[j]
  BY <1>1, <1>8, ContentSet DEF TypeOK
<1>9. \A ph \in Phase : Goto(r, ph) => pc'[r] = ph
  BY <1>1 DEF Goto, TypeOK
<1> HIDE DEF c, o
<1>10. CASE Reserve(r)
  <2>1. pc[r] = "reserve" /\ IsNew(r) /\ \A k \in Kind : c[k] = o[k]
    BY <1>3, <1>10 DEF Reserve, Making, SoFar, Wrote, Removed, o
  <2>2. CASE SetContent(r, k0, Torn) /\ Proceed(r, "fill")
    <3>1. \A k \in Kind : content'[P(r)][k] = SoFar(r, k)'
      BY <1>1, <1>2, <1>8, <1>9, <2>1, <2>2 DEF Proceed, Phase, SoFar, Wrote, Removed, o
    <3> QED
      BY <1>0, <1>7, <1>10, <2>2, <3>1 DEF Reserve, Working, Phase
  <2>3. CASE UNCHANGED content /\ Answer(r, "error")
    BY <1>0, <1>6, <1>10, <2>1, <2>3 DEF Reserve, c
  <2> QED
    BY <1>10, <2>2, <2>3 DEF Reserve
<1>11. CASE Fill(r)
  <2>1. /\ pc[r] = "fill" /\ IsNew(r)
        /\ \A k \in Kind : k # k0 => c[k] = o[k]
    BY <1>3, <1>11 DEF Fill, Making, SoFar, Wrote, Removed, o
  <2>2. CASE SetContent(r, k0, call[r].body) /\ Proceed(r, "meta")
    <3>1. \A k \in Kind : content'[P(r)][k] = SoFar(r, k)'
      <4>1. ~Replaces(r)
        BY <2>1 DEF Replaces
      <4> QED
        BY <1>1, <1>2, <1>8, <1>9, <2>1, <2>2, <4>1
           DEF Proceed, Phase, SoFar, Wrote, Removed, o
    <3> QED
      BY <1>0, <1>7, <1>11, <2>2, <3>1 DEF Fill, Working, Phase
  <2>3. CASE SetContent(r, k0, None) /\ Answer(r, "error")
    <3>1. \A k \in Kind : content'[P(r)][k] = o[k]
      BY <1>1, <1>3, <1>8, <2>1, <2>3
    <3> QED
      BY <1>0, <1>6, <1>11, <2>3, <3>1 DEF Fill
  <2> QED
    BY <1>5, <1>11, <2>2, <2>3 DEF Fill
<1>12. CASE Unmake(r)
  <2>1. /\ faults = 1 /\ IsNew(r)
        /\ \A k \in Kind : k # k0 => c[k] = o[k]
    BY <1>3, <1>12 DEF Unmake, Making, SoFar, Wrote, Removed, o
  <2>2. SetContent(r, k0, None) /\ Answer(r, "error") /\ meta' = meta /\ late' = late
    BY <1>5, <1>12, <2>1 DEF Unmake
  <2>3. \A k \in Kind : content'[P(r)][k] = o[k]
    BY <1>1, <1>3, <1>8, <2>1, <2>2
  <2> QED
    BY <1>0, <1>6, <2>2, <2>3
<1>13. CASE Write(r)
  <2>1. pc[r] = "write" /\ Replaces(r) /\ \A k \in Kind : c[k] = o[k]
    BY <1>3, <1>13 DEF Write, Changing, SoFar, Wrote, Removed, o
  <2>2. CASE /\ SetContent(r, k0, call[r].body)
             /\ Proceed(r, IF Converts(r) THEN "remove" ELSE "meta")
             /\ late' = late
    <3>1. \A k \in Kind : content'[P(r)][k] = SoFar(r, k)'
      BY <1>1, <1>2, <1>8, <1>9, <2>1, <2>2 DEF Proceed, Phase, SoFar, Wrote, Removed, o
    <3> QED
      BY <1>0, <1>7, <1>13, <2>2, <3>1 DEF Write, Working, Phase
  <2>3. CASE UNCHANGED <<content, late>> /\ Answer(r, "error")
    BY <1>0, <1>6, <1>13, <2>1, <2>3 DEF Write, c
  <2>4. CASE SetContent(r, k0, call[r].body) /\ LateFault(r) /\ Answer(r, "error")
    <3>1. late = Free
      BY <1>3, <1>5, <2>4
    <3>2. meta'[P(r)] = old[r].meta /\ late' = r
      BY <1>3, <1>5, <1>13, <2>4, <3>1, SentinelAssumption DEF Write
    <3>3. content'[P(r)] = [o EXCEPT ![k0] = call[r].body]
      <4>1. \A k \in Kind : content'[P(r)][k] = [o EXCEPT ![k0] = call[r].body][k]
        BY <1>1, <1>3, <1>8, <2>1, <2>4 DEF Contents
      <4> QED
        BY <1>1, <1>3, <4>1 DEF Contents
    <3>4. pc'[r] = "done" /\ pc'[r] \notin Working /\ answer'[r] = "error"
      BY <1>1, <2>4 DEF Answer, Goto, TypeOK, Working
    <3>5. ~IsNew(r)
      BY <2>1 DEF Replaces
    <3> QED
      BY <3>2, <3>3, <3>4, <3>5 DEF Progress, Slipped, Success, o
  <2> QED
    BY <1>13, <2>2, <2>3, <2>4 DEF Write, OnTime
<1>14. CASE Remove(r)
  <2>1. /\ pc[r] = "remove" /\ Replaces(r) /\ Converts(r) /\ OldKind(r) \in Kind
        /\ OldKind(r) # k0
        /\ c[k0] = call[r].body /\ \A k \in Kind : k # k0 => c[k] = o[k]
    BY <1>1, <1>3, <1>14 DEF Remove, Changing, SoFar, Wrote, Removed, o, Converts
  <2>2. CASE SetContent(r, OldKind(r), None) /\ Proceed(r, "meta")
    <3>1. pc'[r] = "meta" /\ Wrote(r)' /\ Removed(r)'
      BY <1>2, <1>9, <2>1, <2>2 DEF Proceed, Phase, Wrote, Removed
    <3>2. \A k \in Kind : k # k0 => k = OldKind(r)
      BY <1>1, <2>1 DEF Kind
    <3>3. \A k \in Kind : content'[P(r)][k] = SoFar(r, k)'
      BY <1>1, <1>2, <1>8, <2>1, <2>2, <3>1, <3>2 DEF SoFar
    <3> QED
      BY <1>0, <1>7, <1>14, <2>2, <3>3 DEF Remove, Working, Phase
  <2>3. CASE UNCHANGED content /\ Fault /\ Proceed(r, "unwrite")
    <3>1. pc'[r] = "unwrite" /\ Wrote(r)' /\ ~Removed(r)'
      BY <1>9, <2>3 DEF Proceed, Phase, Wrote, Removed
    <3>2. \A k \in Kind : content'[P(r)][k] = SoFar(r, k)'
      BY <1>2, <2>1, <2>3, <3>1 DEF SoFar, c, o
    <3> QED
      BY <1>0, <1>5, <1>7, <1>14, <2>3, <3>2 DEF Remove, Working, Phase
  <2> QED
    BY <1>14, <2>2, <2>3 DEF Remove
<1>15. CASE WriteMeta(r)
  <2>1. pc[r] = "meta" /\ content' = content
    BY <1>15 DEF WriteMeta
  <2>2. CASE Answer(r, SuccessOf(r)) /\ SetMeta(r, NewMetadata(r))
    <3>1. c = Asked(r)
      <4>1. c[k0] = call[r].body
        <5>1. CASE IsNew(r) \/ Replaces(r)
          BY <1>1, <1>3, <2>1, <5>1 DEF SoFar, Wrote
        <5>2. CASE ~IsNew(r) /\ ~Replaces(r)
          BY <1>1, <1>3, <2>1, <5>2 DEF SoFar, Wrote, Removed, Replaces, o
        <5> QED
          BY <5>1, <5>2
      <4>2. ASSUME NEW k \in Kind, k # k0
            PROVE  c[k] = None
        <5>1. CASE Removed(r)
          BY <1>3, <2>1, <4>2, <5>1 DEF SoFar
        <5>2. CASE ~Removed(r)
          <6>1. c[k] = o[k]
            BY <1>3, <2>1, <4>2, <5>2 DEF SoFar, o
          <6>2. CASE IsNew(r)
            BY <1>3, <6>1, <6>2
          <6>3. CASE Replaces(r)
            BY <1>3, <2>1, <4>2, <5>2, <6>1, <6>3 DEF Removed, Converts
          <6>4. CASE ~IsNew(r) /\ ~Replaces(r)
            <7>1. o[k0] # None
              BY <1>3, <6>4, SentinelAssumption DEF Replaces, o
            <7>2. o[k] # None => Kinds(o) = Kind
              BY <1>1, <4>2, <7>1 DEF Kinds, Kind
            <7> QED
              BY <1>3, <6>1, <7>2
          <6> QED
            BY <6>2, <6>3, <6>4
        <5> QED
          BY <5>1, <5>2
      <4> QED
        BY <1>1, <4>1, <4>2 DEF Asked, Contents, c
    <3>2. pc'[r] = "done" /\ answer'[r] = SuccessOf(r) /\ pc'[r] \notin Working
      BY <1>1, <2>2 DEF Answer, Goto, TypeOK, Working
    <3>3. meta'[P(r)] = NewMetadata(r) /\ SuccessOf(r) \in Success
      BY <1>1, <2>2 DEF SetMeta, TypeOK, SuccessOf, Success
    <3> QED
      BY <2>1, <3>1, <3>2, <3>3 DEF Progress, c
  <2>0. ASSUME \/ UNCHANGED meta /\ Fault /\ OnTime
               \/ SetMeta(r, NewMetadata(r)) /\ LateFault(r)
        PROVE  MetaSoFar /\ faults' = 1
    BY <1>0, <1>1, <1>5, <2>0 DEF OnTime, SetMeta, TypeOK, MetaSoFar
  <2>3. CASE /\ faults' = 1 /\ MetaSoFar
             /\ \E ph \in {"unmake", "restore"} : 
                   /\ Proceed(r, ph) /\ (IsNew(r) \/ Replaces(r))
                   /\ ph = "unmake" => IsNew(r)
                   /\ ph = "restore" => Replaces(r)
    <3>1. PICK ph \in {"unmake", "restore"} : 
             /\ Proceed(r, ph) /\ (IsNew(r) \/ Replaces(r))
             /\ ph = "unmake" => IsNew(r)
             /\ ph = "restore" => Replaces(r)
      BY <2>3
    <3>2. ph \in Phase /\ ph \in Working /\ pc'[r] = ph
      BY <1>9, <3>1 DEF Proceed, Phase, Working
    <3>3. IsNew(r) => ~Replaces(r)
      BY DEF Replaces
    <3>4. Wrote(r) /\ Wrote(r)' /\ Removed(r)' = Removed(r)
      BY <1>2, <2>1, <3>1, <3>2, <3>3 DEF Wrote, Removed
    <3>5. \A k \in Kind : content'[P(r)][k] = SoFar(r, k)'
      BY <1>2, <1>3, <2>1, <3>2, <3>4 DEF SoFar, c
    <3> QED
      BY <1>0, <1>5, <1>7, <2>3, <3>1, <3>2, <3>5
  <2>4. CASE MetaSoFar /\ ~IsNew(r) /\ ~Replaces(r) /\ Answer(r, "error")
    <3>1. \A k \in Kind : content'[P(r)][k] = o[k]
      BY <1>3, <2>1, <2>4 DEF SoFar, Wrote, Removed, o, c
    <3> QED
      BY <1>0, <1>6, <2>4, <3>1
  <2> QED
    BY <1>15, <2>0, <2>2, <2>3, <2>4 DEF WriteMeta, SuccessOf
<1>16. CASE Restore(r)
  <2> DEFINE k1 == OldKind(r)
  <2>1. /\ pc[r] = "restore" /\ faults = 1 /\ Replaces(r) /\ k1 \in Kind
        /\ Wrote(r)
    BY <1>3, <1>16 DEF Restore, Changing, Wrote
  <2>2. SetContent(r, k1, o[k1]) /\ MetaSoFar /\ faults' = faults
    BY <1>0, <1>5, <1>16, <2>1 DEF Restore, o, OnTime, NoFault
  <2> HIDE DEF k1
  <2>3. content'[P(r)][k1] = o[k1] /\ \A k \in Kind : k # k1 => content'[P(r)][k] = c[k]
    BY <1>8, <2>1, <2>2
  <2>4. CASE Converts(r) /\ Proceed(r, "unwrite")
    <3>1. pc'[r] = "unwrite" /\ Wrote(r)' /\ ~Removed(r)' /\ k1 # k0
      BY <1>9, <2>4 DEF Proceed, Phase, Wrote, Removed, Converts, k1
    <3>2. c[k0] = call[r].body
      BY <1>1, <1>3, <2>1 DEF SoFar
    <3>3. \A k \in Kind : k = k0 \/ k = k1
      BY <1>1, <2>1, <3>1 DEF Kind
    <3>4. \A k \in Kind : content'[P(r)][k] = SoFar(r, k)'
      BY <1>1, <1>2, <2>3, <3>1, <3>2, <3>3 DEF SoFar, o
    <3>5. faults' = 1
      BY <2>1, <2>2
    <3> QED
      BY <1>7, <2>2, <2>4, <3>4, <3>5 DEF Restore, Working, Phase
  <2>5. CASE ~Converts(r) /\ Answer(r, "error")
    <3>1. k1 = k0 /\ ~Removed(r)
      BY <2>5 DEF Converts, Removed, k1
    <3>2. \A k \in Kind : content'[P(r)][k] = o[k]
      BY <1>3, <2>1, <2>3, <3>1 DEF SoFar, o
    <3> QED
      BY <1>6, <2>2, <2>5, <3>2
  <2> QED
    BY <1>16, <2>4, <2>5 DEF Restore
<1>17. CASE Unwrite(r)
  <2>1. /\ pc[r] = "unwrite" /\ faults = 1 /\ Replaces(r) /\ Converts(r) /\ o[k0] = None
        /\ \A k \in Kind : k # k0 => c[k] = o[k]
    BY <1>1, <1>3, <1>17 DEF Unwrite, Changing, Converts, SoFar, Wrote, Removed, o
  <2>2. SetContent(r, k0, None) /\ Answer(r, "error") /\ meta' = meta /\ late' = late
    BY <1>5, <1>17, <2>1 DEF Unwrite
  <2>3. \A k \in Kind : content'[P(r)][k] = o[k]
    BY <1>1, <1>8, <2>1, <2>2
  <2> QED
    BY <1>0, <1>6, <2>2, <2>3
<1> QED
  BY <1>10, <1>11, <1>12, <1>13, <1>14, <1>15, <1>16, <1>17 DEF Work

(* A handler that only looks at the page leaves it whole, and one that goes  *)
(* on has done nothing yet.                                                  *)
LEMMA BeginProgress ==
    ASSUME WorkInv, TypeOK', NEW r \in Request, Begin(r)
    PROVE  /\ \A q \in Request : pc[q] \notin Working
           /\ UNCHANGED objects
           /\ old'[r] = [content |-> content[P(r)], meta |-> meta[P(r)]]
           /\ pc'[r] \in Working =>
                 /\ \A k \in Kind : content'[P(r)][k] = SoFar(r, k)'
                 /\ pc'[r] \notin {"unmake", "restore", "unwrite"}
<1> DEFINE c == content[P(r)]
           m == meta[P(r)]
           v == Verdict(call[r], c, m)
<1>1. /\ TypeOK /\ call[r] \in CallRecord /\ P(r) \in Page
      /\ c \in Contents /\ m \in Metadata \cup {None}
  <2>1. TypeOK /\ call[r] \in CallRecord /\ P(r) \in Page
    BY CallType DEF PagesInv, WorkInv, TypeOK
  <2> QED
    BY <2>1 DEF TypeOK
<1>2. /\ v \in {"reserve", "write", "meta"} \cup Success \cup Refused
      /\ v \in {"write", "meta"} => Kinds(c) # {}
      /\ v = "meta" => c[call[r].kind] = call[r].body
  BY <1>1, VerdictIs
<1>3. /\ \A q \in Request : pc[q] \notin Working
      /\ UNCHANGED <<objects, call>>
      /\ old'[r] = [content |-> c, meta |-> m]
  BY <1>1, SentinelAssumption DEF Begin, PagesInv, WorkInv, HoldsPage, TypeOK
<1> HIDE DEF v
<1>4. pc'[r] \in Working => pc'[r] = v /\ v \in {"reserve", "write", "meta"}
  <2>1. CASE v \in Phase /\ Goto(r, v)
    BY <1>1, <1>2, <2>1 DEF Goto, TypeOK, Phase, Success, Refused
  <2>2. CASE \E a : Answer(r, a)
    BY <1>1, <2>2 DEF Answer, Goto, TypeOK, Working
  <2> QED
    BY <2>1, <2>2 DEF Begin, v
<1>5. ASSUME pc'[r] = v, v \in {"reserve", "write", "meta"}
      PROVE  \A k \in Kind : content'[P(r)][k] = SoFar(r, k)'
  <2>1. v = "meta" => ~IsNew(r)' /\ ~Replaces(r)'
    BY <1>2, <1>3 DEF IsNew, Replaces
  <2>2. pc'[r] # "fill" /\ ~Wrote(r)' /\ ~Removed(r)'
    BY <1>5, <2>1 DEF Wrote, Removed
  <2> QED
    BY <1>3, <2>2 DEF SoFar, objects
<1> QED
  BY <1>3, <1>4, <1>5

-----------------------------------------------------------------------------
(* No other handler is at work, or moves, while one is.                      *)
LEMMA OthersRest ==
    ASSUME TypeOK, HoldsPage, NEW r \in Request, Work(r)
    PROVE  /\ \A q \in Request : q # r => pc[q] \notin Working /\ pc'[q] = pc[q]
           /\ \A q \in Request : pc'[q] \in Working => q = r
           /\ \A q \in Request : P(q)' = P(q)
<1>1. pc[r] \in Working /\ call' = call
  BY WorkFrame
<1>2. \A q \in Request : q # r => pc[q] \notin Working
  BY <1>1 DEF HoldsPage
<1>3. \E ph : Goto(r, ph)
  BY DEF Work, Reserve, Fill, Unmake, Write, Remove, WriteMeta, Restore, Unwrite,
         Answer, Proceed
<1> QED
  BY <1>1, <1>2, <1>3 DEF Goto, TypeOK, P

(* A GET finds no handler at work.                                           *)
LEMMA GetFrame ==
    ASSUME HoldsPage, NEW x \in Reader, NEW p \in Page, Get(x, p)
    PROVE  /\ \A q \in Request : pc[q] \notin Working /\ pc'[q] \notin Working
           /\ content' = content
  BY SentinelAssumption DEF Get, HoldsPage, objects

(* A step that changes nothing changes nothing that is known.                *)
LEMMA Stutter ==
    ASSUME UNCHANGED vars
    PROVE  /\ \A r \in Request, k \in Kind : SoFar(r, k)' = SoFar(r, k)
           /\ \A r \in Request : P(r)' = P(r)
           /\ content' = content /\ meta' = meta /\ pc' = pc /\ old' = old
           /\ faults' = faults /\ crashes' = crashes /\ late' = late
           /\ \A r \in Request : NewMetadata(r)' = NewMetadata(r)
  BY DEF vars, objects, SoFar, Wrote, Removed, IsNew, Replaces, Converts, OldKind, P,
         NewMetadata, Fresh

(* Every step keeps what is known of the page that is worked on.             *)
LEMMA NextInProgress ==
    ASSUME WorkInv, TypeOK', HoldsPage', [Next]_vars
    PROVE  InProgress'
<1> SUFFICES ASSUME OneFault' PROVE InProgress'
  BY DEF InProgress
<1>1. TypeOK /\ HoldsPage /\ InProgress /\ OneFault
  BY WasUndisturbed DEF PagesInv, WorkInv
<1>0. late' # Free => faults' = 1
  BY <1>1, WasUndisturbed DEF InProgress, OneFault
<1>2. ASSUME NEW r \in Request, Begin(r)
      PROVE  InProgress'
  <2>1. /\ \A q \in Request : pc[q] \notin Working
        /\ content' = content /\ meta' = meta /\ call' = call
        /\ old'[r] = [content |-> content[P(r)], meta |-> meta[P(r)]]
        /\ pc'[r] \in Working =>
              /\ \A k \in Kind : content'[P(r)][k] = SoFar(r, k)'
              /\ pc'[r] \notin {"unmake", "restore", "unwrite"}
    BY <1>1, <1>2, BeginProgress DEF objects, Begin
  <2>2. \A q \in Request : pc'[q] \in Working => q = r
    BY <1>1, <1>2, <2>1 DEF Begin, Answer, Goto, TypeOK
  <2>3. P(r) \in Page /\ P(r)' = P(r)
    BY <1>1, <2>1, CallType DEF TypeOK, P
  <2> QED
    BY <1>0, <2>1, <2>2, <2>3 DEF InProgress
<1>3. ASSUME NEW r \in Request, Work(r)
      PROVE  InProgress'
  <2>1. Progress(r)
    BY <1>1, <1>3, WorkProgress
  <2>2. old' = old /\ NewMetadata(r)' = NewMetadata(r)
    BY <1>1, <1>3, WorkFrame DEF NewMetadata, Fresh, IsNew, Replaces
  <2> QED
    BY <1>0, <1>1, <1>3, <2>1, <2>2, OthersRest DEF InProgress, Progress
<1>4. ASSUME NEW x \in Reader, NEW p \in Page, Get(x, p)
      PROVE  InProgress'
  BY <1>0, <1>1, <1>4, GetFrame DEF InProgress
<1>5. ASSUME Crash
      PROVE  InProgress'
  <2>1. \A r \in Request : pc'[r] \notin Working
    BY <1>5 DEF Crash, Working
  <2> QED
    BY <1>0, <2>1 DEF InProgress
<1>6. ASSUME UNCHANGED vars
      PROVE  InProgress'
  BY <1>0, <1>1, <1>6, Stutter DEF InProgress
<1> QED
  BY <1>2, <1>3, <1>4, <1>5, <1>6 DEF Next, Handle, Work, Terminating

(* Every step but a crash keeps the pages that are not worked on whole.      *)
LEMMA NextWholeElsewhere ==
    ASSUME PagesInv, TypeOK', [Next]_vars
    PROVE  WholeElsewhere'
<1> SUFFICES ASSUME Undisturbed' PROVE WholeElsewhere'
  BY DEF WholeElsewhere
<1>1. /\ TypeOK /\ HoldsPage /\ WorkInv /\ WholeElsewhere /\ Undisturbed
      /\ OneFault /\ OneFault' /\ late' = Free
  BY WasUndisturbed DEF PagesInv, WorkInv, Undisturbed, Calm
<1>2. ASSUME NEW r \in Request, Begin(r)
      PROVE  WholeElsewhere'
  <2>1. /\ \A q \in Request : pc[q] \notin Working
        /\ content' = content
        /\ old'[r] = [content |-> content[P(r)], meta |-> meta[P(r)]]
    BY <1>1, <1>2, BeginProgress DEF objects, Begin
  <2>2. \A q \in Request : pc'[q] \in Working => q = r
    BY <1>1, <1>2, <2>1 DEF Begin, Answer, Goto, TypeOK
  <2>3. P(r) \in Page
    BY <1>1, CallType DEF TypeOK
  <2> QED
    BY <1>1, <2>1, <2>2, <2>3 DEF WholeElsewhere
<1>3. ASSUME NEW r \in Request, Work(r)
      PROVE  WholeElsewhere'
  <2>1. Progress(r) /\ old' = old /\ P(r)' = P(r) /\ pc[r] \in Working
    BY <1>1, <1>3, WorkProgress, WorkFrame, OthersRest
  <2>2. /\ Whole(old[r].content)
        /\ \A p \in Page : p # P(r) => Whole(content[p]) /\ content'[p] = content[p]
    BY <1>1, <1>3, WorkFrame, OthersRest DEF WholeElsewhere
  <2>3. Asked(r) \in Contents /\ Whole(Asked(r))
    <3>1. call[r].kind \in Kind /\ call[r].body \in Body
      BY <1>1, CallType DEF TypeOK
    <3>2. Asked(r) \in Contents
      BY <3>1 DEF Asked, Contents
    <3> QED
      BY <3>1, <3>2, OneObject DEF Asked
  <2>4. pc'[r] \notin Working => Whole(content'[P(r)])
    BY <1>1, <2>1, <2>2, <2>3, SentinelAssumption DEF Progress, Undid, Slipped
  <2> QED
    BY <1>1, <1>3, <2>1, <2>2, <2>4, OthersRest DEF WholeElsewhere
<1>4. ASSUME NEW x \in Reader, NEW p \in Page, Get(x, p)
      PROVE  WholeElsewhere'
  BY <1>1, <1>4, GetFrame DEF WholeElsewhere
<1>5. ASSUME Crash
      PROVE  FALSE
  BY <1>1, <1>5 DEF Crash, Undisturbed, TypeOK
<1>6. ASSUME UNCHANGED vars
      PROVE  WholeElsewhere'
  BY <1>1, <1>6, Stutter DEF WholeElsewhere
<1> QED
  BY <1>2, <1>3, <1>4, <1>5, <1>6 DEF Next, Handle, Work, Terminating

-----------------------------------------------------------------------------
LEMMA InitTyped ==
    ASSUME Init
    PROVE  TypeOK /\ HoldsPage
<1>1. content \in [Page -> Contents] /\ meta \in [Page -> Metadata \cup {None}]
  BY PreloadAssumption DEF Init, Stored
<1> QED
  BY <1>1 DEF Init, TypeOK, HoldsPage, Phase, Working, Responses

(* The types, and that a handler at work holds the lock on a page that is    *)
(* new or that its key may change (createPage and updatePage check before    *)
(* they write and hold server.pages throughout), whatever fails or crashes   *)
(* and whatever is on disk at the start.                                     *)
THEOREM HandlersHoldTheirPage == Spec => [](TypeOK /\ HoldsPage)
<1>1. Init => TypeOK /\ HoldsPage
  BY InitTyped
<1>2. TypeOK /\ HoldsPage /\ [Next]_vars => (TypeOK /\ HoldsPage)'
  BY NextTypeOK, NextHoldsPage
<1> QED
  BY <1>1, <1>2, PTL DEF Spec

(* A page is changed only by a handler that holds its lock and found it new, *)
(* with its creator's key, or with an admin key: canChangePage is asked      *)
(* before every write, also when accesses fail and after crashes.            *)
THEOREM ChangesAreByOwner == Spec => ChangedByOwner
<1>1. TypeOK /\ HoldsPage /\ [Next]_vars => [OwnerChange]_vars
  <2> SUFFICES ASSUME TypeOK, HoldsPage, Next PROVE OwnerChange
    BY DEF OwnerChange, vars, objects
  <2>1. ASSUME NEW r \in Request, Work(r)
        PROVE  OwnerChange
    <3>1. lock = r /\ (IsNew(r) \/ Owned(r))
      BY <2>1, WorkFrame DEF HoldsPage
    <3> QED
      BY <2>1, <3>1, WorkFrame DEF OwnerChange
  <2>2. ASSUME content' = content
        PROVE  OwnerChange
    BY <2>2 DEF OwnerChange
  <2> QED
    BY <2>1, <2>2 DEF Next, Handle, Work, Begin, Get, Crash, Terminating, vars, objects
<1> QED
  BY <1>1, HandlersHoldTheirPage, PTL DEF Spec, ChangedByOwner

-----------------------------------------------------------------------------
(* From whatever is on disk at the start, and through crashes: while no more *)
(* than one access has failed, a handler at work knows exactly which objects *)
(* of its page it has changed.                                               *)
THEOREM WorkInvariant == Spec => []WorkInv
<1>1. Init => WorkInv
  <2> SUFFICES ASSUME Init PROVE InProgress
    BY InitTyped DEF WorkInv
  <2>1. late = Free /\ \A r \in Request : pc[r] \notin Working
    BY DEF Init, Working
  <2> QED
    BY <2>1 DEF InProgress
<1>2. WorkInv /\ [Next]_vars => WorkInv'
  <2> SUFFICES ASSUME WorkInv, [Next]_vars PROVE WorkInv'
    OBVIOUS
  <2>1. TypeOK' /\ HoldsPage'
    BY NextTypeOK, NextHoldsPage DEF WorkInv
  <2> QED
    BY <2>1, NextInProgress DEF WorkInv
<1> QED
  BY <1>1, <1>2, PTL DEF Spec

(* The pages that are there when the server starts are whole.                *)
WholePreload == \A s \in Preload, p \in Page : Whole(s[p].content)

(* The inductive invariant, from pages that are whole at the start: as long  *)
(* as nothing crashes, also every page that is not worked on is whole.       *)
THEOREM PagesInvariant == WholePreload /\ Spec => []PagesInv
<1>1. WholePreload /\ Init => WholeElsewhere
  <2> SUFFICES ASSUME WholePreload, Init PROVE WholeElsewhere
    OBVIOUS
  <2>1. \A p \in Page : Whole(content[p])
    BY DEF Init, WholePreload
  <2>2. \A r \in Request : pc[r] \notin Working
    BY DEF Init, Working
  <2> QED
    BY <2>1, <2>2 DEF WholeElsewhere
<1>2. PagesInv /\ WorkInv' /\ [Next]_vars => WholeElsewhere'
  BY NextWholeElsewhere DEF PagesInv, WorkInv
<1> QED
  BY <1>1, <1>2, WorkInvariant, PTL DEF Spec, PagesInv

(* Whenever no handler holds server.pages, a page has one content object at  *)
(* most, and it is written through, however often it was converted between   *)
(* html and site and wherever a create or an update failed, if no write      *)
(* failed after its effect.                                                  *)
THEOREM PagesAreWhole == WholePreload /\ Spec => []OneWholeContent
<1>1. PagesInv => OneWholeContent
  <2> SUFFICES ASSUME PagesInv, lock = Free, Undisturbed
               PROVE  \A p \in Page : Whole(content[p])
    BY DEF OneWholeContent
  <2>1. \A r \in Request : pc[r] \notin Working
    BY SentinelAssumption DEF PagesInv, WorkInv, HoldsPage
  <2> QED
    BY <2>1 DEF PagesInv, WorkInv, WholeElsewhere
<1> QED
  BY <1>1, PagesInvariant, PTL

(* A create or an update that answers with an error or a refusal has undone  *)
(* what it wrote: removed the new content, put the old one back in its place *)
(* and kind, and left the metadata alone, wherever its one access failed,    *)
(* unless that was a write that failed after its effect; whatever crashed,   *)
(* and whatever a late write of another request left behind.                 *)
THEOREM FailuresAreUndone == Spec => FailureChangesNothing
<1>1. WorkInv /\ [Next]_vars => [Undone]_vars
  <2> SUFFICES ASSUME WorkInv, Next, NEW r \in Request,
                      pc[r] # "done", pc'[r] = "done", answer'[r] \notin Success,
                      OneFault', late' # r
               PROVE  content'[P(r)] = old'[r].content /\ meta'[P(r)] = old'[r].meta
    BY DEF Undone, vars
  <2>1. TypeOK /\ HoldsPage /\ OneFault
    BY WasUndisturbed DEF WorkInv
  <2>2. TypeOK'
    BY <2>1, NextTypeOK
  <2>3. Handle(r)
    <3>1. ASSUME NEW q \in Request, Handle(q), q # r
          PROVE  FALSE
      <4>1. \E ph : Goto(q, ph)
        BY <3>1 DEF Handle, Begin, Reserve, Fill, Unmake, Write, Remove, WriteMeta, Restore,
                    Unwrite, Answer, Proceed
      <4> QED
        BY <2>1, <3>1, <4>1 DEF Goto, TypeOK
    <3> QED
      BY <2>1, <3>1 DEF Next, Get, Crash, Terminating, vars, TypeOK
  <2>4. CASE Begin(r)
    <3>1. /\ content' = content /\ meta' = meta
          /\ old'[r] = [content |-> content[P(r)], meta |-> meta[P(r)]]
      BY <2>1, <2>2, <2>4, BeginProgress DEF objects
    <3> QED
      BY <3>1
  <2>5. CASE Work(r)
    <3>1. Progress(r) /\ old' = old
      BY <2>1, <2>2, <2>5, WorkProgress, WorkFrame
    <3> QED
      BY <3>1 DEF Progress, Working, Undid, Slipped
  <2> QED
    BY <2>3, <2>4, <2>5 DEF Handle, Work
<1> QED
  BY <1>1, WorkInvariant, PTL DEF Spec, FailureChangesNothing

(* handlePage answers from a page that is whole: no GET meets one that a     *)
(* create has not written yet or a conversion has in both kinds, if no write *)
(* failed after its effect.                                                  *)
THEOREM GetsSeeWholePages == WholePreload /\ Spec => []GetSeesWholePage
<1>1. Init => GetSeesWholePage
  BY DEF Init, GetSeesWholePage
<1>2. PagesInv /\ GetSeesWholePage /\ [Next]_vars => GetSeesWholePage'
  <2> SUFFICES ASSUME PagesInv, GetSeesWholePage, [Next]_vars, Undisturbed'
               PROVE  \A x \in Reader : got'[x] \notin {"broken", "torn"}
    BY DEF GetSeesWholePage
  <2>1. TypeOK /\ Undisturbed
    BY WasUndisturbed DEF PagesInv, WorkInv
  <2>2. ASSUME NEW x \in Reader, NEW p \in Page, Get(x, p)
        PROVE  \A y \in Reader : got'[y] \notin {"broken", "torn"}
    <3>1. \A r \in Request : pc[r] \notin Working
      BY <2>2, SentinelAssumption DEF Get, PagesInv, WorkInv, HoldsPage
    <3>2. Whole(content[p])
      BY <2>1, <3>1 DEF PagesInv, WorkInv, WholeElsewhere
    <3>3. Kinds(content[p]) # Kind /\ content[p]["site"] # Torn /\ content[p]["html"] # Torn
      BY <3>2 DEF Whole, Kind
    <3>4. Response(content[p]) \in {"notFound", "served"}
      BY <3>3 DEF Response
    <3> QED
      BY <2>1, <2>2, <3>4 DEF Get, TypeOK, GetSeesWholePage
  <2>3. CASE UNCHANGED got
    BY <2>1, <2>3 DEF GetSeesWholePage
  <2> QED
    BY <2>2, <2>3, WorkFrame, <2>1 DEF Next, Handle, Work, Begin, Crash, Terminating, vars
<1> QED
  BY <1>1, <1>2, PagesInvariant, PTL DEF Spec

-----------------------------------------------------------------------------
(* A page that a handler found there is there in every phase.                *)
LEMMA FoundIsThere ==
    ASSUME TypeOK, NEW r \in Request, old[r] # None, ~IsNew(r)
    PROVE  \E k \in Kind : SoFar(r, k) # None
<1>1. /\ call[r].kind \in Kind /\ call[r].body \in Body /\ None \notin Body /\ Torn # None
      /\ old[r] \in Stored
  BY CallType, SentinelAssumption DEF TypeOK
<1>2. CASE pc[r] = "fill" \/ Wrote(r)
  <2>1. SoFar(r, call[r].kind) # None
    BY <1>1, <1>2 DEF SoFar
  <2> QED
    BY <1>1, <2>1
<1>3. CASE ~(pc[r] = "fill" \/ Wrote(r))
  <2>1. ~Removed(r)
    BY <1>3 DEF Removed, Wrote
  <2>2. \A k \in Kind : SoFar(r, k) = old[r].content[k]
    BY <1>3, <2>1 DEF SoFar
  <2> QED
    BY <1>1, <2>2 DEF IsNew, Kinds
<1> QED
  BY <1>2, <1>3

LEMMA FoundIsThereNext ==
    ASSUME TypeOK', NEW r \in Request, old'[r] # None, ~IsNew(r)'
    PROVE  \E k \in Kind : SoFar(r, k)' # None
<1>1. (TypeOK /\ old[r] # None /\ ~IsNew(r) => \E k \in Kind : SoFar(r, k) # None)'
  BY FoundIsThere, PTL
<1> QED
  BY <1>1

(* A handler that found a page there leaves one there, step by step.         *)
LEMMA WorkLeavesPage ==
    ASSUME WorkInv, TypeOK', OneFault, OneFault', NEW r \in Request, Work(r), ~IsNew(r)
    PROVE  Kinds(content'[P(r)]) # {}
<1>1. Progress(r) /\ pc[r] \in Working /\ old' = old /\ call' = call /\ P(r) \in Page
  BY WorkProgress, WorkFrame, CallType DEF WorkInv, TypeOK
<1>2. old[r] \in Stored /\ old[r] # None /\ ~IsNew(r)' /\ Asked(r)[call[r].kind] # None
      /\ call[r].kind \in Kind
  <2>1. call[r].kind \in Kind /\ call[r].body \in Body
    BY CallType DEF WorkInv, TypeOK
  <2> QED
    BY <1>1, <2>1, SentinelAssumption DEF WorkInv, TypeOK, HoldsPage, IsNew, Asked
<1>3. \E k \in Kind : content'[P(r)][k] # None
  <2>1. CASE pc'[r] \in Working
    BY <1>1, <1>2, <2>1, FoundIsThereNext DEF Progress
  <2>2. CASE pc'[r] \notin Working /\ answer'[r] \in Success
    BY <1>1, <1>2, <2>2 DEF Progress
  <2>3. CASE pc'[r] \notin Working /\ answer'[r] \notin Success
    <3>1. content'[P(r)] = old[r].content \/ content'[P(r)][call[r].kind] = call[r].body
      <4>1. old[r].content \in Contents
        BY <1>2 DEF Stored
      <4> QED
        BY <1>1, <1>2, <2>3, <4>1 DEF Progress, Undid, Slipped, Contents
    <3>2. call[r].body # None
      BY CallType, SentinelAssumption DEF WorkInv, TypeOK
    <3> QED
      BY <1>1, <1>2, <3>1, <3>2 DEF IsNew, Kinds
  <2> QED
    BY <2>1, <2>2, <2>3
<1> QED
  BY <1>3 DEF Kinds

(* A page that is there stays there (updatePage writes the new kind before   *)
(* it removes the old, and its rollback the other way round), through one    *)
(* failing access, be it a late one, and crashes; only a failing create      *)
(* takes back its own.                                                       *)
THEOREM PagesStay == Spec => PageStays
<1>1. ASSUME WorkInv, TypeOK', [Next]_vars, OneFault', NEW p \in Page,
             Kinds(content[p]) # {}, Kinds(content'[p]) = {}
      PROVE  \E r \in Request : lock = r /\ P(r) = p /\ IsNew(r)
  <2>1. OneFault /\ content' # content
    BY <1>1, WasUndisturbed DEF WorkInv
  <2>2. PICK r \in Request : Work(r)
    BY <1>1, <2>1 DEF Next, Handle, Work, Begin, Get, Crash, Terminating, vars, objects
  <2>3. lock = r /\ P(r) = p
    BY <1>1, <2>2, WorkFrame DEF WorkInv, HoldsPage
  <2>4. IsNew(r)
    BY <1>1, <2>1, <2>2, <2>3, WorkLeavesPage
  <2> QED
    BY <2>3, <2>4
<1>2. WorkInv /\ WorkInv' /\ [Next]_vars
      => [\A p \in Page :
             Kinds(content[p]) # {} /\ Kinds(content'[p]) = {} /\ OneFault'
             => \E r \in Request : lock = r /\ P(r) = p /\ IsNew(r)]_vars
  BY <1>1 DEF WorkInv
<1> QED
  BY <1>2, WorkInvariant, PTL DEF Spec, PageStays

-----------------------------------------------------------------------------
(* The pages that are there when the server starts are in their first        *)
(* revision, or have none.                                                   *)
FirstRevisions == \A d \in Preload, p \in Page : d[p].meta # None => d[p].meta.rev = 1

(* Answers that are not reports of an update leave the counts alone, and one *)
(* that is adds to its own page only.                                        *)
LEMMA UpdatedSet ==
    ASSUME NEW r \in Request, NEW p, call' = call,
           \A q \in Request : q # r => answer'[q] = answer[q],
           answer[r] # "updated", IsFiniteSet(Updated(p))
    PROVE  /\ answer'[r] # "updated" \/ P(r) # p => Updated(p)' = Updated(p)
           /\ answer'[r] = "updated" /\ P(r) = p
              => /\ Cardinality(Updated(p)') = Cardinality(Updated(p)) + 1
                 /\ Updated(p)' # {}
           /\ IsFiniteSet(Updated(p)')
           /\ Updated(p) = {} => Cardinality(Updated(p)) = 0
           /\ Cardinality(Updated(p)) \in Nat
<1>1. Updated(p)' = IF answer'[r] = "updated" /\ P(r) = p THEN Updated(p) \cup {r} ELSE Updated(p)
  BY DEF Updated, P
<1>2. r \notin Updated(p)
  BY DEF Updated
<1> QED
  BY <1>1, <1>2, FS_AddElement, FS_CardinalityType, FS_EmptySet

(* The frame of a step at work, for the metadata and the answers.            *)
LEMMA AnswerFrame ==
    ASSUME TypeOK, NEW r \in Request, Work(r)
    PROVE  /\ \A q \in Request : q # r => answer'[q] = answer[q]
           /\ \A p \in Page : p # P(r) => meta'[p] = meta[p]
           /\ pc'[r] = "done" \/ (pc'[r] \in Working /\ answer' = answer)
<1>1. \A p \in Page : p # P(r) => meta'[p] = meta[p]
  BY DEF Work, Reserve, Fill, Unmake, Write, Remove, WriteMeta, Restore, Unwrite, SetMeta, TypeOK
<1>2. (\E a : Answer(r, a)) \/ (\E ph \in Working : Proceed(r, ph))
  BY DEF Work, Reserve, Fill, Unmake, Write, Remove, WriteMeta, Restore, Unwrite, Working, Phase
<1> QED
  BY <1>1, <1>2 DEF Answer, Proceed, Goto, TypeOK, Working

(* The checks never answer that a page was updated.                          *)
LEMMA VerdictIsNoUpdate ==
    ASSUME NEW q, NEW c, NEW m
    PROVE  Verdict(q, c, m) # "updated"
<1> DEFINE v == IF q.op = "create" /\ ~(c[q.kind] = q.body /\ May(q.key, m)) THEN "conflict"
                ELSE IF ~May(q.key, m) THEN "forbidden"
                ELSE IF c[q.kind] # q.body THEN "write"
                ELSE IF m = None THEN "meta"
                ELSE IF q.op = "create" THEN "exists" ELSE "unchanged"
<1>1. v # "updated"
  OBVIOUS
<1>2. /\ Kinds(c) = Kind => Kinds(c) # {} /\ Verdict(q, c, m) = "broken"
      /\ Kinds(c) = {} => Verdict(q, c, m) = IF q.op = "create" THEN "reserve" ELSE "notFound"
      /\ Kinds(c) # Kind /\ Kinds(c) # {} => Verdict(q, c, m) = v
  BY DEF Verdict, Kind
<1> QED
  BY <1>1, <1>2

LEMMA BeginCounts ==
    ASSUME WorkInv, TypeOK', RevisionsCounted, NEW r \in Request, Begin(r)
    PROVE  RevisionsCounted'
<1>1. /\ TypeOK /\ P(r) \in Page /\ \A q \in Request : pc[q] \notin Working
      /\ UNCHANGED <<content, meta, call, crashes>> /\ pc[r] = "idle" /\ answer[r] # "updated"
      /\ old'[r] = [content |-> content[P(r)], meta |-> meta[P(r)]]
  BY BeginProgress, CallType DEF WorkInv, TypeOK, Begin, objects, RevisionsCounted
<1>2. /\ \A q \in Request : q # r => answer'[q] = answer[q] /\ pc'[q] = pc[q]
      /\ answer'[r] # "updated"
  BY <1>1, VerdictIsNoUpdate DEF Begin, Answer, Goto, TypeOK
<1>3. \A p \in Page : Updated(p)' = Updated(p)
  BY <1>1, <1>2 DEF Updated, P
<1>4. \A q \in Request : pc'[q] \in Working => q = r
  BY <1>1, <1>2
<1>5. Undisturbed' => Undisturbed
  BY <1>1, WasUndisturbed DEF Next, Handle
<1>6. \A p \in Page : Undisturbed /\ Updated(p) # {} => Kinds(content[p]) # {}
  BY <1>1 DEF RevisionsCounted
<1>7. IsNew(r)' => Kinds(content[P(r)]) = {}
  BY <1>1 DEF IsNew
<1>8. \A q \in Request : P(q)' = P(q)
  BY <1>1 DEF P
<1>9. \A q \in Request : answer'[q] = "updated" => pc'[q] = "done"
  BY <1>2 DEF RevisionsCounted
<1>10. \A p \in Page : Undisturbed' /\ Updated(p)' # {}
         => /\ \A q \in Request : pc'[q] \in Working /\ P(q)' = p => ~IsNew(q)'
            /\ Kinds(content'[p]) # {}
  BY <1>1, <1>3, <1>4, <1>5, <1>6, <1>7, <1>8
<1> QED
  BY <1>1, <1>3, <1>5, <1>9, <1>10 DEF RevisionsCounted

LEMMA WorkCounts ==
    ASSUME WorkInv, TypeOK', RevisionsCounted, NEW r \in Request, Work(r)
    PROVE  RevisionsCounted'
<1>1. /\ TypeOK /\ P(r) \in Page /\ pc[r] \in Working /\ UNCHANGED <<call, old, crashes>>
      /\ \A q \in Request : q # r => pc[q] \notin Working /\ pc'[q] = pc[q]
      /\ \A q \in Request : P(q)' = P(q) /\ IsNew(q)' = IsNew(q)
      /\ \A q \in Request : q # r => answer'[q] = answer[q]
      /\ \A p \in Page : p # P(r) => meta'[p] = meta[p] /\ content'[p] = content[p]
      /\ pc'[r] = "done" \/ (pc'[r] \in Working /\ answer' = answer)
      /\ answer[r] # "updated" /\ pc[r] # "done"
  <2>1. TypeOK /\ HoldsPage /\ P(r) \in Page
    BY CallType DEF WorkInv, TypeOK
  <2>2. pc[r] \in Working /\ UNCHANGED <<call, old, crashes>>
    BY <2>1, WorkFrame
  <2>3. \A q \in Request : IsNew(q)' = IsNew(q)
    BY <2>2 DEF IsNew
  <2> QED
    BY <2>1, <2>2, <2>3, WorkFrame, OthersRest, AnswerFrame DEF RevisionsCounted, Working
<1>2. \A p \in Page :
         /\ answer'[r] # "updated" \/ P(r) # p => Updated(p)' = Updated(p)
         /\ answer'[r] = "updated" /\ P(r) = p
            => /\ Cardinality(Updated(p)') = Cardinality(Updated(p)) + 1
               /\ Updated(p)' # {}
         /\ IsFiniteSet(Updated(p)')
         /\ Updated(p) = {} => Cardinality(Updated(p)) = 0
         /\ Cardinality(Updated(p)) \in Nat
  BY <1>1, UpdatedSet DEF RevisionsCounted
<1>3. ASSUME Undisturbed', NEW p \in Page, p # P(r)
      PROVE  /\ meta'[p] = None => Updated(p)' = {}
             /\ meta'[p] # None => meta'[p].rev = 1 + Cardinality(Updated(p)')
             /\ Updated(p)' # {} =>
                   /\ \A q \in Request : pc'[q] \in Working /\ P(q)' = p => ~IsNew(q)'
                   /\ Kinds(content'[p]) # {}
  <2>1. Undisturbed
    BY <1>1, <1>3, WasUndisturbed DEF Next, Handle, Work
  <2> QED
    BY <1>1, <1>2, <1>3, <2>1 DEF RevisionsCounted
<1>4. ASSUME Undisturbed', NEW p \in Page, p = P(r)
      PROVE  /\ meta'[p] = None => Updated(p)' = {}
             /\ meta'[p] # None => meta'[p].rev = 1 + Cardinality(Updated(p)')
             /\ Updated(p)' # {} =>
                   /\ \A q \in Request : pc'[q] \in Working /\ P(q)' = p => ~IsNew(q)'
                   /\ (\A q \in Request : pc'[q] \in Working => P(q)' # p)
                      => Kinds(content'[p]) # {}
  <2>1. /\ Undisturbed /\ OneFault /\ OneFault'
        /\ late # r /\ late' # r
    BY <1>1, <1>4, WasUndisturbed, SentinelAssumption
       DEF Next, Handle, Work, Undisturbed, Calm
  <2>2. /\ meta[p] = old[r].meta /\ old[r] \in Stored /\ call[r].key \in Key
        /\ call[r].kind \in Kind /\ call[r].body \in Body
    BY <1>1, <1>4, <2>1, AtWork, CallType DEF TypeOK
  <2>3. Progress(r)
    BY <2>1, WorkProgress
  <2>4. /\ meta[p] = None => Updated(p) = {}
        /\ meta[p] # None => meta[p].rev = 1 + Cardinality(Updated(p))
        /\ Updated(p) # {} => ~IsNew(r)
    BY <1>1, <1>4, <2>1 DEF RevisionsCounted
  <2>5. CASE pc'[r] \in Working
    <3>1. answer'[r] # "updated"
      BY <1>1, <2>5 DEF Working
    <3>2. Updated(p)' = Updated(p)
      BY <1>2, <3>1
    <3>3. meta'[p] = meta[p]
      BY <1>4, <2>1, <2>2, <2>3, <2>5 DEF Progress
    <3> QED
      BY <1>1, <1>4, <2>4, <2>5, <3>2, <3>3
  <2>6. CASE pc'[r] \notin Working
    <3>1. \A q \in Request : pc'[q] \notin Working
      BY <1>1, <2>6
    <3>2. ~IsNew(r) => Kinds(content'[p]) # {}
      BY <1>4, <2>1, WorkLeavesPage
    <3>3. CASE answer'[r] \notin Success
      <4>1. Updated(p)' = Updated(p) /\ meta'[p] = meta[p]
        BY <1>2, <1>4, <2>1, <2>2, <2>3, <2>6, <3>3 DEF Progress, Success, Undid, Slipped
      <4> QED
        BY <1>4, <2>4, <3>1, <3>2, <4>1
    <3>4. CASE answer'[r] \in Success
      <4>1. /\ meta'[p] = NewMetadata(r) /\ answer'[r] = SuccessOf(r)
            /\ Kinds(content'[p]) # {}
        <5>1. content'[p] = Asked(r) /\ meta'[p] = NewMetadata(r) /\ answer'[r] = SuccessOf(r)
          BY <1>4, <2>3, <2>6, <3>4 DEF Progress, Success
        <5>2. Asked(r)[call[r].kind] # None
          BY <2>2, SentinelAssumption DEF Asked
        <5> QED
          BY <2>2, <5>1, <5>2 DEF Kinds
      <4>2. /\ NewMetadata(r) \in Metadata
            /\ NewMetadata(r).rev = (IF IsNew(r) \/ meta[p] = None THEN 1 ELSE meta[p].rev)
                                    + (IF Replaces(r) THEN 1 ELSE 0)
        BY <2>2, RevisionWritten
      <4>3. (answer'[r] = "updated") <=> Replaces(r)
        BY <4>1 DEF SuccessOf, Replaces
      <4>4. NewMetadata(r).rev = 1 + Cardinality(Updated(p)')
        BY <1>2, <1>4, <2>4, <4>2, <4>3
      <4> QED
        BY <1>4, <3>1, <4>1, <4>2, <4>4, SentinelAssumption
    <3> QED
      BY <3>3, <3>4
  <2> QED
    BY <2>5, <2>6
<1>5. \A q \in Request : answer'[q] = "updated" => pc'[q] = "done"
  BY <1>1 DEF RevisionsCounted
<1> QED
  BY <1>1, <1>2, <1>3, <1>4, <1>5 DEF RevisionsCounted

LEMMA NextCounts ==
    ASSUME WorkInv, TypeOK', RevisionsCounted, [Next]_vars
    PROVE  RevisionsCounted'
<1>1. ASSUME NEW r \in Request, Handle(r) PROVE RevisionsCounted'
  BY <1>1, BeginCounts, WorkCounts DEF Handle, Work
<1>2. CASE UNCHANGED vars \/ \E x \in Reader, p \in Page : Get(x, p)
  <2>1. UNCHANGED <<content, meta, call, pc, answer, old, crashes>>
    BY <1>2 DEF vars, objects, Get
  <2>2. Undisturbed' => Undisturbed
    BY WasUndisturbed DEF WorkInv
  <2>3. \A r \in Request : P(r)' = P(r) /\ IsNew(r)' = IsNew(r)
    BY <2>1 DEF P, IsNew
  <2>4. \A p : Updated(p)' = Updated(p)
    BY <2>1 DEF Updated, P
  <2> QED
    BY <2>1, <2>2, <2>3, <2>4 DEF RevisionsCounted
<1>3. CASE Crash
  <2>1. ~Undisturbed'
    BY <1>3 DEF Crash, Undisturbed, WorkInv, TypeOK
  <2>2. /\ UNCHANGED <<call, answer>>
        /\ \A r \in Request : pc[r] = "done" => pc'[r] = "done"
    BY <1>3 DEF Crash
  <2>3. \A p : Updated(p)' = Updated(p)
    BY <2>2 DEF Updated, P
  <2> QED
    BY <2>1, <2>2, <2>3 DEF RevisionsCounted
<1> QED
  BY <1>1, <1>2, <1>3 DEF Next, Terminating

(* No update of a page is lost or counted twice (updatePage,                 *)
(* writePageMetadata): at rest its revision is one more than the number of   *)
(* updates that were reported as made, however it got its first metadata, if *)
(* no write failed after its effect.                                         *)
THEOREM RevisionsCountUpdates ==
    ASSUME FirstRevisions
    PROVE  Spec => []RevisionCountsUpdates
<1>1. Init => RevisionsCounted
  <2> SUFFICES ASSUME Init PROVE RevisionsCounted
    OBVIOUS
  <2>1. /\ \A r \in Request : answer[r] # "updated"
        /\ \A p \in Page : meta[p] # None => meta[p].rev = 1
    BY DEF Init, FirstRevisions
  <2>2. \A p : Updated(p) = {} /\ IsFiniteSet(Updated(p)) /\ Cardinality(Updated(p)) = 0
    BY <2>1, FS_EmptySet DEF Updated
  <2> QED
    BY <2>1, <2>2 DEF RevisionsCounted
<1>2. WorkInv /\ WorkInv' /\ RevisionsCounted /\ [Next]_vars => RevisionsCounted'
  BY NextCounts DEF WorkInv
<1>3. RevisionsCounted => RevisionCountsUpdates
  BY DEF RevisionsCounted, RevisionCountsUpdates, Updated
<1> QED
  BY <1>1, <1>2, <1>3, WorkInvariant, PTL DEF Spec
=============================================================================
