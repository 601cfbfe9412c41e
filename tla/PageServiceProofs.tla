------------------------- MODULE PageServiceProofs -------------------------
(* Pages implements PageService, for any number of requests, GETs, pages,    *)
(* keys and bodies, and any bounds, whatever is on disk at the start.        *)
EXTENDS PagesProofs

Pg == [p \in Page |-> Seen(p)]
St == [r \in Request |-> StatusOf(r)]
OnDisk(p) == [content |-> content[p], meta |-> meta[p]]

(* Why a handler that only looks at the page answers as it does.             *)
LEMMA VerdictReason ==
    ASSUME NEW q \in CallRecord, NEW c \in Contents, NEW m \in Metadata \cup {None}
    PROVE  LET v == Verdict(q, c, m) IN
           /\ v = "broken" => Kinds(c) = Kind
           /\ v = "notFound" => Kinds(c) = {} /\ q.op = "update"
           /\ v = "conflict" => /\ Kinds(c) # {} /\ q.op = "create"
                                /\ ~(c[q.kind] = q.body /\ May(q.key, m))
           /\ v = "forbidden" => Kinds(c) # {} /\ q.op = "update" /\ ~May(q.key, m)
           /\ v \in {"exists", "unchanged"} =>
                /\ Kinds(c) # Kind /\ c[q.kind] = q.body /\ May(q.key, m) /\ m # None
                /\ v = IF q.op = "create" THEN "exists" ELSE "unchanged"
<1> DEFINE same == c[q.kind] = q.body
           may == May(q.key, m)
           v == Verdict(q, c, m)
<1>1. CASE Kinds(c) = Kind
  <2>1. v = "broken"
    BY <1>1 DEF Verdict, Kind
  <2> QED
    BY <1>1, <2>1
<1>2. CASE Kinds(c) = {}
  <2>1. Kinds(c) # Kind
    BY <1>2 DEF Kind
  <2>2. v = IF q.op = "create" THEN "reserve" ELSE "notFound"
    BY <1>2, <2>1 DEF Verdict
  <2> QED
    BY <1>2, <2>2 DEF CallRecord
<1>3. CASE Kinds(c) # Kind /\ Kinds(c) # {}
  <2>1. v = IF q.op = "create" /\ ~(same /\ may) THEN "conflict"
            ELSE IF ~may THEN "forbidden"
            ELSE IF ~same THEN "write"
            ELSE IF m = None THEN "meta"
            ELSE IF q.op = "create" THEN "exists" ELSE "unchanged"
    BY <1>3 DEF Verdict
  <2> HIDE DEF same, may, v
  <2>2. \/ v = "conflict" /\ q.op = "create" /\ ~(same /\ may)
        \/ v = "forbidden" /\ q.op # "create" /\ ~may
        \/ v = "write" \/ v = "meta"
        \/ /\ same /\ may /\ m # None
           /\ v = IF q.op = "create" THEN "exists" ELSE "unchanged"
    BY <2>1
  <2>3. q.op # "create" => q.op = "update"
    BY DEF CallRecord
  <2> QED
    BY <1>3, <2>2, <2>3 DEF same, may, v
<1> QED
  BY <1>1, <1>2, <1>3

(* What the service sees of the pages: all of the disk when no handler is at *)
(* work, and what the handler at work found in place of its own page.        *)
LEMMA SeenAtRest ==
    ASSUME \A q \in Request : pc[q] \notin Working
    PROVE  Pg = [p \in Page |-> OnDisk(p)]
  BY DEF Pg, Seen, OnDisk

LEMMA SeenAtWork ==
    ASSUME HoldsPage, NEW r \in Request, pc[r] \in Working
    PROVE  Pg = [p \in Page |-> IF p = P(r) THEN old[r] ELSE OnDisk(p)]
<1>1. lock = r /\ \A q \in Request : pc[q] \in Working => q = r
  BY DEF HoldsPage
<1> QED
  BY <1>1 DEF Pg, Seen, OnDisk

(* What the service asks of a page, in the words of the handlers.            *)
LEMMA ServiceWords ==
    ASSUME NEW r \in Request, P(r) \in Page, NEW c, NEW m, Pg[P(r)] = [content |-> c, meta |-> m]
    PROVE  /\ Service!Exists(Service!P(r)) <=> Kinds(c) # {}
           /\ Service!Conflicts(Service!P(r)) <=> Kinds(c) = Kind
           /\ Service!Same(r) <=> c[call[r].kind] = call[r].body
           /\ Service!MayChange(r) <=> May(call[r].key, m)
           /\ Service!Asked(r) = Asked(r)
           /\ Service!P(r) = P(r)
           /\ Pg[Service!P(r)].content = c /\ Pg[Service!P(r)].meta = m
<1>1. Service!P(r) = P(r) /\ Pg[P(r)].content = c /\ Pg[P(r)].meta = m
  BY DEF Service!P, P
<1>2. Pg[P(r)] = Seen(P(r))
  BY DEF Pg
<1>3. Service!Kind = Kind
  BY DEF Service!Kind, Kind
<1> QED
  BY <1>1, <1>2, <1>3 DEF Service!Exists, Service!Conflicts, Service!Same, Service!MayChange,
     Service!Asked, Service!P, Kinds, Kind, May, Asked, Pg

(* A page of one kind at most that holds what is asked holds nothing else.   *)
LEMMA OnlyAsked ==
    ASSUME call \in Workload, NEW r \in Request, NEW c \in Contents, Kinds(c) # Kind,
           c[call[r].kind] = call[r].body
    PROVE  c = Asked(r)
<1>1. call[r].kind \in Kind /\ call[r].body \in Body
  BY CallType
<1>2. \A k \in Kind : k # call[r].kind => c[k] = None
  BY <1>1, SentinelAssumption DEF Kinds, Kind
<1> QED
  BY <1>1, <1>2 DEF Asked, Contents

(* A request whose handler is at work, or has not begun, is given a status.  *)
LEMMA StatusSet ==
    ASSUME NEW r \in Request, NEW s,
           \A q \in Request : q # r => pc'[q] = pc[q] /\ answer'[q] = answer[q],
           StatusOf(r) \in {"idle", "working"}, StatusOf(r)' = s
    PROVE  Service!Becomes(r, s)
<1>1. St[r] \in {"idle", "working"}
  BY DEF St
<1>2. St' = [St EXCEPT ![r] = s]
  BY DEF St, StatusOf
<1> QED
  BY <1>1, <1>2 DEF Service!Becomes, St

(* A handler that has not begun, is at work, or has answered.                *)
LEMMA StatusIs ==
    ASSUME TypeOK, NEW r \in Request
    PROVE  /\ pc[r] = "idle" => StatusOf(r) = "idle"
           /\ pc[r] \in Working => StatusOf(r) = "working"
           /\ pc[r] = "done" => StatusOf(r) = answer[r]
  BY DEF StatusOf, Working

(* The page of one request changes to what the service makes of it.          *)
LEMMA SetPageIs ==
    ASSUME NEW r \in Request, P(r) \in Page, NEW c, NEW m,
           Pg' = [Pg EXCEPT ![P(r)] = [content |-> c, meta |-> m]]
    PROVE  Service!SetPage(r, c, m)
  BY DEF Service!SetPage, Service!P, P, Pg

(* The metadata that the handler at work writes is what the service records. *)
LEMMA RecordedIs ==
    ASSUME TypeOK, NEW r \in Request, P(r) \in Page, old[r] \in Stored, Pg[P(r)] = old[r]
    PROVE  Service!Recorded(r) = NewMetadata(r)
<1> DEFINE c == old[r].content
           m == old[r].meta
<1>1. old[r] = [content |-> c, meta |-> m] /\ m \in Metadata \cup {None}
  BY DEF Stored
<1>2. /\ Service!Exists(Service!P(r)) <=> ~IsNew(r)
      /\ Service!Same(r) <=> c[call[r].kind] = call[r].body
      /\ Pg[Service!P(r)].meta = m
  BY <1>1, ServiceWords DEF IsNew
<1> DEFINE Has == ~IsNew(r) /\ m # None
<1>3. Service!Recorded(r) = [owner |-> IF Has THEN m.owner ELSE call[r].key,
                             rev |-> (IF Has THEN m.rev ELSE 1) + (IF Replaces(r) THEN 1 ELSE 0)]
  BY <1>2 DEF Service!Recorded, Replaces, Pg
<1> DEFINE n == IF Has THEN m ELSE Fresh(r)
<1>4. n = [owner |-> IF Has THEN m.owner ELSE call[r].key, rev |-> IF Has THEN m.rev ELSE 1]
      /\ n.rev \in Nat
  BY <1>1 DEF Metadata, Fresh
<1>5. NewMetadata(r) = IF Replaces(r) THEN [n EXCEPT !.rev = @ + 1] ELSE n
  BY DEF NewMetadata
<1> QED
  BY <1>3, <1>4, <1>5

-----------------------------------------------------------------------------
(* A handler that answers after it has looked confirms the page or refuses,  *)
(* with the reasons that the service asks for.                               *)
LEMMA BeginIsPromised ==
    ASSUME WorkInv, TypeOK', HoldsPage', NEW r \in Request, Begin(r)
    PROVE  Service!Promised
<1> USE SentinelAssumption
<1> DEFINE c == content[P(r)]
           m == meta[P(r)]
           v == Verdict(call[r], c, m)
<1>1. /\ TypeOK /\ HoldsPage /\ call[r] \in CallRecord /\ P(r) \in Page
      /\ c \in Contents /\ m \in Metadata \cup {None}
      /\ call[r].op \in {"create", "update"}
  <2>1. TypeOK /\ HoldsPage /\ call[r] \in CallRecord /\ P(r) \in Page
        /\ call[r].op \in {"create", "update"}
    BY CallType DEF WorkInv, TypeOK
  <2> QED
    BY <2>1 DEF TypeOK
<1>2. /\ \A q \in Request : pc[q] \notin Working
      /\ content' = content /\ meta' = meta /\ call' = call /\ got' = got
      /\ old'[r] = [content |-> c, meta |-> m] /\ pc[r] = "idle"
  BY <1>1, BeginProgress DEF Begin, objects
<1>3. Pg = [p \in Page |-> OnDisk(p)] /\ Pg[P(r)] = [content |-> c, meta |-> m]
  BY <1>1, <1>2, SeenAtRest DEF OnDisk
<1>4. \A q \in Request : q # r => pc'[q] = pc[q] /\ answer'[q] = answer[q]
  BY <1>1 DEF Begin, Answer, Goto, TypeOK
<1>5. /\ v \in {"reserve", "write", "meta"} \cup Success \cup Refused
      /\ v = "reserve" => Kinds(c) = {} /\ call[r].op = "create"
      /\ v \in {"write", "meta"} => Kinds(c) # {} /\ Kinds(c) # Kind
  BY <1>1, VerdictIs
<1>6. /\ v = "broken" => Kinds(c) = Kind
      /\ v = "notFound" => Kinds(c) = {} /\ call[r].op = "update"
      /\ v = "conflict" => /\ Kinds(c) # {} /\ call[r].op = "create"
                           /\ ~(c[call[r].kind] = call[r].body /\ May(call[r].key, m))
      /\ v = "forbidden" => Kinds(c) # {} /\ call[r].op = "update" /\ ~May(call[r].key, m)
      /\ v \in {"exists", "unchanged"} =>
           /\ Kinds(c) # Kind /\ c[call[r].kind] = call[r].body
           /\ May(call[r].key, m) /\ m # None
           /\ v = IF call[r].op = "create" THEN "exists" ELSE "unchanged"
  BY <1>1, VerdictReason
<1>7. /\ Service!Exists(Service!P(r)) <=> Kinds(c) # {}
      /\ Service!Conflicts(Service!P(r)) <=> Kinds(c) = Kind
      /\ Service!Same(r) <=> c[call[r].kind] = call[r].body
      /\ Service!MayChange(r) <=> May(call[r].key, m)
      /\ Service!Asked(r) = Asked(r)
      /\ Service!P(r) = P(r) /\ Pg[Service!P(r)].meta = m
  BY <1>1, <1>3, ServiceWords
<1> HIDE DEF v
<1>8. ASSUME v \in Phase, Goto(r, v)
      PROVE  Service!Promised
  <2>1. v \in {"reserve", "write", "meta"} /\ pc'[r] = v /\ pc'[r] \in Working
    BY <1>1, <1>5, <1>8 DEF Goto, TypeOK, Phase, Success, Refused, Working
  <2>2. St[r] = "idle" /\ Service!Becomes(r, "working")
    BY <1>1, <1>2, <1>4, <2>1, StatusIs, StatusSet DEF St, StatusOf, Working
  <2>3. P(r)' = P(r) /\ Pg' = [p \in Page |-> IF p = P(r) THEN old'[r] ELSE OnDisk(p)']
    <3>1. P(r)' = P(r)
      BY <1>2 DEF P
    <3>2. (HoldsPage /\ pc[r] \in Working
           => Pg = [p \in Page |-> IF p = P(r) THEN old[r] ELSE OnDisk(p)])'
      BY SeenAtWork, PTL
    <3> QED
      BY <2>1, <3>1, <3>2
  <2>4. Pg' = Pg
    BY <1>2, <1>3, <2>3 DEF OnDisk
  <2>5. Service!Accept(r)
    BY <1>2, <2>2, <2>4 DEF Service!Accept, St, Pg
  <2> QED
    BY <2>5 DEF Service!Promised
<1>9. ASSUME NEW a, Answer(r, a)
      PROVE  Pg' = Pg /\ Service!Becomes(r, a)
  <2>1. pc'[r] = "done" /\ answer'[r] = a /\ \A q \in Request : pc'[q] \notin Working
    BY <1>1, <1>2, <1>4, <1>9 DEF Answer, Goto, TypeOK, Working
  <2>2. Pg' = Pg
    BY <1>2, <2>1 DEF Pg, Seen
  <2>3. StatusOf(r)' = a
    BY <2>1 DEF StatusOf
  <2> QED
    BY <1>1, <1>2, <1>4, <2>2, <2>3, StatusIs, StatusSet
<1>10. ASSUME v \notin Phase, Answer(r, v)
       PROVE  Service!Promised
  <2>1. v \in Refused \cup {"exists", "unchanged", "created", "updated"}
    BY <1>5, <1>10 DEF Phase, Success
  <2>2. v \notin {"created", "updated"}
    BY <1>1 DEF v, Verdict
  <2>3. Pg' = Pg /\ got' = got /\ Service!Becomes(r, v)
    BY <1>2, <1>9, <1>10
  <2>4. CASE v \in Refused
    <3>1. Service!Refuse(r)
      BY <1>6, <1>7, <2>3, <2>4 DEF Service!Refuse, Refused, Kind, Pg, St
    <3> QED
      BY <3>1 DEF Service!Promised
  <2>5. CASE v \in {"exists", "unchanged"}
    <3>1. c = Asked(r)
      BY <1>1, <1>6, <2>5, OnlyAsked DEF TypeOK
    <3>2. m = [owner |-> m.owner, rev |-> m.rev + 0]
      BY <1>1, <1>6, <2>5 DEF Metadata
    <3>3. Pg' = [Pg EXCEPT ![P(r)] = [content |-> Asked(r), meta |-> m]]
      BY <1>1, <1>3, <2>3, <3>1 DEF OnDisk
    <3>4. Service!SetPage(r, Asked(r), m)
      BY <1>1, <3>3, SetPageIs
    <3>5. Service!Make(r)
      <4>1. c[call[r].kind] # None
        BY <1>1, <1>6, <2>5, CallType DEF TypeOK
      <4>2. Service!Exists(Service!P(r)) /\ Service!Same(r)
        BY <1>1, <1>6, <1>7, <2>5, <4>1, CallType DEF Kinds, TypeOK
      <4>3. Service!Recorded(r) = m
        BY <1>6, <1>7, <2>5, <3>2, <4>2 DEF Service!Recorded, Pg
      <4> QED
        BY <1>6, <1>7, <2>3, <2>5, <3>4, <4>2, <4>3
           DEF Service!Make, Service!ToConfirm, Pg, St
    <3> QED
      BY <3>5 DEF Service!Promised
  <2> QED
    BY <2>1, <2>2, <2>4, <2>5
<1>11. ASSUME Answer(r, "error")
       PROVE  Service!Promised
  <2>1. Service!Refuse(r)
    BY <1>2, <1>9, <1>11 DEF Service!Refuse, Pg, St
  <2> QED
    BY <2>1 DEF Service!Promised
<1> QED
  BY <1>8, <1>10, <1>11 DEF Begin, v

(* A handler at work may do to its page what it is about to do.              *)
LEMMA WorkIsEntitled ==
    ASSUME TypeOK, HoldsPage, NEW r \in Request, pc[r] \in Working, Pg[P(r)] = old[r]
    PROVE  Service!Entitled(r)
<1>1. old[r] \in Stored /\ P(r) \in Page /\ call[r].op \in {"create", "update"}
  BY CallType DEF TypeOK, HoldsPage
<1>2. old[r] = [content |-> old[r].content, meta |-> old[r].meta]
  BY <1>1 DEF Stored
<1>3. /\ Service!Exists(Service!P(r)) <=> ~IsNew(r)
      /\ ~Service!Conflicts(Service!P(r))
      /\ Service!Same(r) <=> old[r].content[call[r].kind] = call[r].body
      /\ Service!MayChange(r) <=> Owned(r)
  BY <1>1, <1>2, ServiceWords DEF IsNew, May, Owned, HoldsPage
<1>4. CASE IsNew(r)
  <2>1. Service!ToCreate(r)
    BY <1>1, <1>3, <1>4 DEF HoldsPage, Service!ToCreate
  <2> QED
    BY <2>1 DEF Service!Entitled
<1>5. CASE Replaces(r)
  <2>1. Service!ToUpdate(r)
    BY <1>1, <1>3, <1>5 DEF HoldsPage, Replaces, Service!ToUpdate
  <2> QED
    BY <2>1 DEF Service!Entitled
<1>6. CASE ~IsNew(r) /\ ~Replaces(r)
  <2>1. Service!ToConfirm(r)
    BY <1>3, <1>6 DEF HoldsPage, Replaces, Service!ToConfirm
  <2> QED
    BY <2>1 DEF Service!Entitled
<1> QED
  BY <1>4, <1>5, <1>6

(* A handler at work either is not done, or has done what the service does   *)
(* in one step, or nothing.                                                  *)
LEMMA WorkIsPromised ==
    ASSUME WorkInv, TypeOK', HoldsPage', OneFault, OneFault', NEW r \in Request, Work(r)
    PROVE  Service!Promised \/ (Pg' = Pg /\ St' = St /\ got' = got)
<1> USE SentinelAssumption
<1> DEFINE c == old[r].content
           m == old[r].meta
<1>1. /\ TypeOK /\ HoldsPage /\ P(r) \in Page /\ pc[r] \in Working
      /\ call' = call /\ old' = old /\ got' = got /\ P(r)' = P(r)
      /\ \A p \in Page : p # P(r) => content'[p] = content[p]
      /\ call[r].op \in {"create", "update"}
  BY WorkFrame, OthersRest, CallType DEF WorkInv, TypeOK
<1>2. Progress(r)
  BY WorkProgress
<1>3. /\ old[r] = [content |-> c, meta |-> m]
      /\ m \in Metadata \cup {None} /\ Kinds(c) # Kind
      /\ IsNew(r) \/ Owned(r)
      /\ call[r].op = "create" => ~Replaces(r)
      /\ call[r].op = "update" => ~IsNew(r)
  BY <1>1, AtWork DEF Stored, HoldsPage
<1>4. Pg = [p \in Page |-> IF p = P(r) THEN old[r] ELSE OnDisk(p)]
  BY <1>1, SeenAtWork
<1>5. \A q \in Request : q # r => pc'[q] = pc[q] /\ answer'[q] = answer[q]
  <2>1. \/ \E ph : Proceed(r, ph)
        \/ \E a : Answer(r, a)
    BY DEF Work, Reserve, Fill, Unmake, Write, Remove, WriteMeta, Restore, Unwrite
  <2> QED
    BY <1>1, <2>1 DEF Proceed, Answer, Goto, TypeOK
<1>6. \A p \in Page : p # P(r) => OnDisk(p)' = OnDisk(p)
  <2>1. meta' = meta \/ \E d : SetMeta(r, d)
    BY DEF Work, Reserve, Fill, Unmake, Write, Remove, WriteMeta, Restore, Unwrite
  <2> QED
    BY <1>1, <2>1 DEF OnDisk, SetMeta, TypeOK
<1>7. Pg[P(r)] = [content |-> c, meta |-> m]
  BY <1>1, <1>3, <1>4
<1>8. /\ Service!Exists(Service!P(r)) <=> ~IsNew(r)
      /\ ~Service!Conflicts(Service!P(r))
      /\ Service!Same(r) <=> c[call[r].kind] = call[r].body
      /\ Service!MayChange(r) <=> Owned(r)
      /\ Service!Asked(r) = Asked(r)
      /\ Service!P(r) = P(r)
      /\ Pg[Service!P(r)].content = c /\ Pg[Service!P(r)].meta = m
      /\ Service!Recorded(r) = NewMetadata(r) /\ Service!Entitled(r)
  <2>1. old[r] \in Stored
    BY <1>1, AtWork
  <2> QED
    BY <1>1, <1>3, <1>7, <2>1, ServiceWords, RecordedIs, WorkIsEntitled
       DEF IsNew, May, Owned
<1>9. CASE pc'[r] \in Working
  <2>1. (HoldsPage /\ pc[r] \in Working
         => Pg = [p \in Page |-> IF p = P(r) THEN old[r] ELSE OnDisk(p)])'
    BY SeenAtWork, PTL
  <2>2. Pg' = Pg
    BY <1>1, <1>4, <1>6, <1>9, <2>1
  <2>3. St' = St
    BY <1>1, <1>5, <1>9 DEF St, StatusOf, Working
  <2> QED
    BY <1>1, <2>2, <2>3
<1>10. CASE pc'[r] \notin Working
  <2>1. \A q \in Request : pc'[q] \notin Working
    BY <1>1, <1>10, OthersRest
  <2>2. Pg' = [p \in Page |-> IF p = P(r) THEN OnDisk(p)' ELSE Pg[p]]
    <3>1. ((\A q \in Request : pc[q] \notin Working) => Pg = [p \in Page |-> OnDisk(p)])'
      BY SeenAtRest, PTL
    <3> QED
      BY <1>4, <1>6, <2>1, <3>1
  <2>3. StatusOf(r) = "working" /\ StatusOf(r)' = answer'[r]
    BY <1>1, <1>2, <1>10 DEF Progress, StatusOf, Working
  <2>4. Service!Becomes(r, answer'[r])
    BY <1>5, <2>3, StatusSet
  <2>5. CASE answer'[r] \notin Success
    <3>1. answer'[r] = "error" /\ (Undid(r) \/ Slipped(r))
      BY <1>2, <1>10, <2>5 DEF Progress, SuccessOf, Success
    <3>2. CASE Undid(r)
      <4>1. OnDisk(P(r))' = old[r]
        BY <1>1, <1>3, <3>2 DEF Undid, OnDisk
      <4>2. Pg' = Pg
        BY <1>1, <1>4, <2>2, <4>1
      <4>3. Service!Refuse(r)
        BY <1>1, <2>4, <3>1, <4>2 DEF Service!Refuse, Pg, St
      <4> QED
        BY <4>3 DEF Service!Promised
    <3>3. CASE Slipped(r)
      <4>1. OnDisk(P(r))' = [content |-> content'[P(r)], meta |-> meta'[P(r)]]
        BY <1>1 DEF OnDisk
      <4>2. Pg' = [Pg EXCEPT ![P(r)] = [content |-> content'[P(r)], meta |-> meta'[P(r)]]]
        BY <1>1, <2>2, <4>1 DEF Pg
      <4>3. Service!SetPage(r, content'[P(r)], meta'[P(r)])
        BY <1>1, <4>2, SetPageIs
      <4>4. Service!SlipsThrough(r)
        BY <1>8, <3>3, <4>3 DEF Service!SlipsThrough, Slipped, Pg
      <4>5. Service!FailLate(r)
        BY <1>1, <1>8, <2>4, <3>1, <3>3, <4>4 DEF Service!FailLate, Slipped, Pg, St
      <4> QED
        BY <4>5 DEF Service!Promised
    <3> QED
      BY <3>1, <3>2, <3>3
  <2>6. CASE answer'[r] \in Success
    <3> DEFINE n == NewMetadata(r)
    <3>1. /\ answer'[r] = SuccessOf(r)
          /\ OnDisk(P(r))' = [content |-> Asked(r), meta |-> n]
      BY <1>1, <1>2, <1>10, <2>6 DEF Progress, OnDisk, Success
    <3>2. Pg' = [Pg EXCEPT ![P(r)] = [content |-> Asked(r), meta |-> n]]
      BY <1>1, <2>2, <3>1 DEF Pg
    <3>3. Service!SetPage(r, Asked(r), n)
      BY <1>1, <3>2, SetPageIs
    <3>5. CASE IsNew(r)
      <4>1. Service!Make(r)
        BY <1>1, <1>3, <1>8, <2>4, <3>1, <3>3, <3>5
           DEF Service!Make, Service!ToCreate, SuccessOf, Replaces, St, Pg
      <4> QED
        BY <4>1 DEF Service!Promised
    <3>6. CASE Replaces(r)
      <4>1. Service!Make(r)
        BY <1>1, <1>3, <1>8, <2>4, <3>1, <3>3, <3>6
           DEF Service!Make, Service!ToUpdate, SuccessOf, Replaces, St, Pg
      <4> QED
        BY <4>1 DEF Service!Promised
    <3>7. CASE ~IsNew(r) /\ ~Replaces(r)
      <4>1. Service!Make(r)
        BY <1>1, <1>3, <1>8, <2>4, <3>1, <3>3, <3>7
           DEF Service!Make, Service!ToConfirm, SuccessOf, Replaces, St, Pg
      <4> QED
        BY <4>1 DEF Service!Promised
    <3> QED
      BY <3>5, <3>6, <3>7
  <2> QED
    BY <2>5, <2>6
<1> QED
  BY <1>9, <1>10

(* A GET answers from the page that the service sees.                        *)
LEMMA GetIsPromised ==
    ASSUME WorkInv, NEW x \in Reader, NEW p \in Page, Get(x, p)
    PROVE  Service!Promised
<1>1. TypeOK /\ content[p] \in Contents
  BY DEF WorkInv, TypeOK
<1>2. Pg = [q \in Page |-> OnDisk(q)] /\ Pg' = Pg /\ St' = St
  <2>1. \A q \in Request : pc[q] \notin Working
    BY GetFrame DEF WorkInv
  <2> QED
    BY <2>1, SeenAtRest DEF Get, Pg, Seen, St, StatusOf, objects
<1>3. PICK a \in {Response(content[p]), "failed"} : got' = [got EXCEPT ![x] = a]
  BY DEF Get
<1> DEFINE c == content[p]
<1>4. /\ Pg[p].content = c
      /\ Service!Exists(p) <=> Kinds(c) # {}
      /\ Service!Whole(c) <=> Whole(c)
  <2>1. Pg[p].content = c
    BY <1>2 DEF OnDisk
  <2>2. Service!Exists(p) <=> \E k \in Kind : Pg[p].content[k] # None
    BY DEF Service!Exists, Service!Kind, Kind, Pg
  <2> QED
    BY <2>1, <2>2 DEF Service!Whole, Whole, Kinds, Service!Kind, Kind
<1>5. /\ a \in {"served", "notFound", "broken", "torn", "failed"}
      /\ a = "served" => Kinds(c) # {} /\ Whole(c)
      /\ a = "notFound" => Kinds(c) = {}
      /\ a \in {"broken", "torn"} => ~Whole(c)
  <2>1. CASE Kinds(c) = {}
    <3>0. Kinds(c) # Kind /\ c["site"] # Torn
      BY <2>1, SentinelAssumption DEF Kinds, Kind
    <3>1. Response(c) = "notFound"
      BY <2>1, <3>0 DEF Response
    <3> QED
      BY <1>3, <2>1, <3>1
  <2>2. CASE Kinds(c) # {} /\ (Kinds(c) = Kind \/ c["site"] = Torn)
    <3>1. Response(c) = "broken"
      BY <2>2 DEF Response
    <3> QED
      BY <1>3, <2>2, <3>1 DEF Whole, Kind
  <2>3. CASE Kinds(c) # {} /\ Kinds(c) # Kind /\ c["site"] # Torn
    <3>1. Response(c) = IF c["html"] = Torn THEN "torn" ELSE "served"
      BY <2>3 DEF Response
    <3>2. CASE c["html"] = Torn
      BY <1>3, <3>1, <3>2 DEF Whole, Kind
    <3>3. CASE c["html"] # Torn
      BY <1>3, <2>3, <3>1, <3>3 DEF Whole, Kind
    <3> QED
      BY <3>2, <3>3
  <2> QED
    BY <2>1, <2>2, <2>3
<1>6. Service!Get(x, p)
  <2>1. got[x] = "none"
    BY DEF Get
  <2>2. /\ a = "served" => Service!Exists(p) /\ Service!Whole(Pg[p].content)
        /\ a = "notFound" => ~Service!Exists(p)
        /\ a \in {"broken", "torn"} => ~Service!Whole(Pg[p].content)
    BY <1>4, <1>5
  <2> QED
    BY <1>2, <1>3, <1>5, <2>1, <2>2 DEF Service!Get, Pg, St
<1> QED
  BY <1>6 DEF Service!Promised

(* A crash leaves the page of the handler at work with the accesses that the *)
(* handler has made, which are one of the ways to leave it half made.        *)
LEMMA CrashIsPromised ==
    ASSUME WorkInv, OneFault, Crash
    PROVE  Service!Promised
<1> USE SentinelAssumption
<1>1. /\ TypeOK /\ HoldsPage /\ content' = content /\ meta' = meta /\ got' = got
      /\ \A q \in Request : pc'[q] \notin Working
  BY DEF WorkInv, Crash, objects, Working
<1>2. Pg' = [p \in Page |-> OnDisk(p)]
  <2>1. ((\A q \in Request : pc[q] \notin Working) => Pg = [p \in Page |-> OnDisk(p)])'
    BY SeenAtRest, PTL
  <2> QED
    BY <1>1, <2>1 DEF OnDisk
<1>3. St' = [r \in Request |-> IF St[r] = "working" THEN "lost" ELSE St[r]]
  <2>1. \A r \in Request : answer[r] # "working" /\ answer'[r] = answer[r]
    BY <1>1 DEF Crash, TypeOK, Success, Refused
  <2> QED
    BY <1>1, <2>1 DEF Crash, St, StatusOf, Working, Phase, TypeOK
<1>4. CASE \A q \in Request : pc[q] \notin Working
  <2>1. Pg' = Pg
    BY <1>2, <1>4, SeenAtRest
  <2> QED
    BY <1>1, <1>3, <2>1 DEF Service!Crash, Service!Promised, Pg, St
<1>5. ASSUME NEW r \in Request, pc[r] \in Working
      PROVE  Service!Promised
  <2> DEFINE o == old[r].content
             c == content[P(r)]
             k0 == call[r].kind
  <2>1. /\ old[r] = [content |-> o, meta |-> old[r].meta] /\ old[r] \in Stored
        /\ \/ meta[P(r)] = old[r].meta
           \/ late = r /\ meta[P(r)] = NewMetadata(r)
        /\ P(r) \in Page /\ k0 \in Kind /\ c \in Contents /\ o \in Contents
        /\ \A k \in Kind : c[k] = SoFar(r, k)
        /\ pc[r] \in Making => IsNew(r)
        /\ IsNew(r) => \A k \in Kind : o[k] = None
        /\ Replaces(r) => /\ OldKind(r) \in Kind
                          /\ \A k \in Kind : k # OldKind(r) => o[k] = None
    BY <1>5, AtWork DEF Stored
  <2>2. Pg = [p \in Page |-> IF p = P(r) THEN old[r] ELSE OnDisk(p)]
    BY <1>1, <1>5, SeenAtWork
  <2>3. Pg[P(r)] = old[r]
    BY <2>1, <2>2
  <2>4. Pg' = [Pg EXCEPT ![P(r)] = [content |-> c, meta |-> meta[P(r)]]]
    BY <1>2, <2>1, <2>2 DEF OnDisk, Pg
  <2>5. /\ Service!Exists(Service!P(r)) <=> ~IsNew(r)
        /\ Service!Asked(r) = Asked(r) /\ Service!P(r) = P(r)
        /\ Pg[Service!P(r)].content = o /\ Pg[Service!P(r)].meta = old[r].meta
        /\ Service!Recorded(r) = NewMetadata(r) /\ Service!Entitled(r)
    BY <1>1, <1>5, <2>1, <2>3, ServiceWords, RecordedIs, WorkIsEntitled DEF IsNew
  <2> HIDE DEF o, c
  <2>6. \/ c = o
        \/ c = [o EXCEPT ![k0] = call[r].body]
        \/ c = Asked(r)
        \/ IsNew(r) /\ c = [o EXCEPT ![k0] = Torn]
    <3>1. CASE pc[r] = "fill"
      <4>1. \A k \in Kind : c[k] = [o EXCEPT ![k0] = Torn][k]
        BY <2>1, <3>1 DEF SoFar, Wrote, Removed, o, Contents
      <4> QED
        BY <2>1, <3>1, <4>1 DEF Contents, Making
    <3>2. CASE pc[r] # "fill" /\ Wrote(r) /\ Removed(r)
      <4>1. \A k \in Kind : c[k] = Asked(r)[k]
        BY <2>1, <3>2 DEF SoFar, Asked
      <4> QED
        BY <2>1, <4>1 DEF Contents, Asked
    <3>3. CASE pc[r] # "fill" /\ Wrote(r) /\ ~Removed(r)
      <4>1. \A k \in Kind : c[k] = [o EXCEPT ![k0] = call[r].body][k]
        BY <2>1, <3>3 DEF SoFar, Contents, o
      <4> QED
        BY <2>1, <4>1 DEF Contents
    <3>4. CASE pc[r] # "fill" /\ ~Wrote(r)
      <4>1. ~Removed(r)
        BY <3>4 DEF Wrote, Removed
      <4>2. \A k \in Kind : c[k] = o[k]
        BY <2>1, <3>4, <4>1 DEF SoFar, o
      <4> QED
        BY <2>1, <4>2, SameContents
    <3> QED
      BY <3>1, <3>2, <3>3, <3>4
  <2>7. c \in Service!HalfMade(r)
    BY <2>3, <2>5, <2>6 DEF Service!HalfMade, Pg, o
  <2>8. St[r] = "working"
    BY <1>1, <1>5, StatusIs DEF St
  <2>9. Service!Crash
    <3>1. Service!SetPage(r, c, meta[P(r)])
      BY <2>1, <2>4, SetPageIs
    <3>2. \/ Service!SetPage(r, c, Pg[Service!P(r)].meta)
          \/ late = r /\ Service!SetPage(r, c, Service!Recorded(r))
      BY <2>1, <2>5, <3>1
    <3> QED
      BY <1>1, <1>3, <2>5, <2>7, <2>8, <3>2 DEF Service!Crash, Pg, St
  <2> QED
    BY <2>9 DEF Service!Promised
<1> QED
  BY <1>4, <1>5

-----------------------------------------------------------------------------
(* Every step of the handlers is one of the service, or none.                *)
LEMMA NextService ==
    ASSUME WorkInv, TypeOK', HoldsPage', [Next]_vars
    PROVE  [Service!Next]_(Service!vars)
<1>1. call' = call
  BY DEF Next, Handle, Begin, Reserve, Fill, Unmake, Write, Remove, WriteMeta, Restore,
         Unwrite, Get, Crash, Terminating, vars
<1>2. CASE ~OneFault'
  BY <1>1, <1>2 DEF Service!Next
<1>3. CASE OneFault'
  <2>1. TypeOK /\ HoldsPage /\ OneFault
    BY <1>3, WasUndisturbed DEF WorkInv
  <2>4. Service!OneLate
    <3>1. CASE late' = late
      BY <3>1 DEF Service!OneLate
    <3>2. CASE late' # late
      <4>1. late = Free
        BY <1>3, <2>1, <3>2, WasUndisturbed DEF WorkInv, InProgress, OneFault
      <4>2. PICK r \in Request : Work(r) /\ late' = r
        BY <3>2 DEF Next, Handle, Begin, Reserve, Fill, Unmake, Write, Remove, WriteMeta,
                    Restore, Unwrite, Get, Crash, Terminating, vars, OnTime, LateFault, Work
      <4>3. St[r] = "working"
        BY <2>1, <4>2, WorkFrame, StatusIs DEF St
      <4> QED
        BY <4>1, <4>2, <4>3 DEF Service!OneLate, St
    <3> QED
      BY <3>1, <3>2
  <2>2. CASE UNCHANGED vars
    <3>1. Pg' = Pg /\ St' = St /\ got' = got
      BY <2>2 DEF vars, objects, Pg, Seen, St, StatusOf, P
    <3> QED
      BY <1>1, <1>3, <2>1, <2>4, <3>1 DEF Service!Next, Pg, St
  <2>3. Service!Promised \/ (Pg' = Pg /\ St' = St /\ got' = got) \/ UNCHANGED vars
    BY <1>3, <2>1, BeginIsPromised, WorkIsPromised, GetIsPromised, CrashIsPromised
       DEF Next, Handle, Work, Terminating
  <2> QED
    BY <1>1, <1>3, <2>1, <2>2, <2>3, <2>4 DEF Service!Next, Pg, St
<1> QED
  BY <1>2, <1>3

(* Each request changes its page and its metadata together when it is        *)
(* answered, or not at all, and a refusal has its reason; a crash leaves the *)
(* page it cuts short in one of the four ways of HalfMade, a write that      *)
(* fails after its effect in one of the two ways of SlipsThrough, and the    *)
(* handlers that find it so keep the same promise.                           *)
THEOREM PagesImplementService == Spec => ImplementsPageService
<1>1. Init => Service!Init
  BY BoundAssumption DEF Init, Service!Init, StatusOf, OneFault, Working
<1>2. WorkInv /\ WorkInv' /\ [Next]_vars => [Service!Next]_(Service!vars)
  BY NextService DEF WorkInv
<1> QED
  BY <1>1, <1>2, WorkInvariant, PTL DEF Spec, ImplementsPageService, Service!Spec
=============================================================================
