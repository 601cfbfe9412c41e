------------------------------- MODULE Pages -------------------------------
(* The pages of pageup-server: createPage and updatePage (server/pages.go),  *)
(* writeImmutable and the GET of a page (server/server.go).                  *)
(*                                                                           *)
(* A page is one content object, of kind html or site, and a metadata        *)
(* object.  Everything happens under the mutex server.pages, so requests see *)
(* only what a handler leaves behind; but a handler writes and removes       *)
(* several objects, undoes them when one access fails, and may die in        *)
(* between.  Each object access is an action of its own.                     *)
EXTENDS Naturals, FiniteSets

CONSTANTS
    Request,    \* signed POST and PUT requests
    Reader,     \* GET requests
    Page, Key, Admin,
    Body,
    None,       \* no such object
    Torn,       \* a content object that is created but not yet written
    Free,
    Preload,    \* the pages on disk when the server starts, to explore
    Workload,   \* the assignments of calls to requests to explore
    MaxFaults,  \* bound: object accesses that fail
    MaxCrashes  \* bound: process crashes

Kind == {"html", "site"}
Contents == [Kind -> Body \cup {None, Torn}]
Metadata == [owner : Key, rev : Nat]
Stored == [content : Contents, meta : Metadata \cup {None}]
CallRecord == [op : {"create", "update"}, key : Key, page : Page, kind : Kind, body : Body]

ASSUME WorkloadAssumption == Workload \subseteq [Request -> CallRecord]
ASSUME PreloadAssumption == Preload \subseteq [Page -> Stored]
ASSUME SentinelAssumption ==
    /\ None \notin Body /\ Torn \notin Body /\ None # Torn
    /\ None \notin Metadata /\ None \notin Stored /\ Free \notin Request
ASSUME BoundAssumption == MaxFaults \in Nat /\ MaxCrashes \in Nat

VARIABLES
    content,  \* pages/<id>.html and pages/<id>.site.zip
    meta,     \* pages/<id>.json
    lock,     \* server.pages: the request that holds it
    pc,       \* where the handler of each request is
    call,     \* what each request asks
    old,      \* what a handler found when it took the lock
    answer,   \* the response of a handler
    got,      \* the response of each GET
    late,     \* history: the request one of whose writes reported an error
              \* after its effect was visible, or Free
    faults, crashes

objects == <<content, meta>>
vars == <<objects, lock, pc, call, old, answer, got, late, faults, crashes>>

Phase == {"idle", "reserve", "fill", "unmake", "write", "remove", "meta", "restore",
          "unwrite", "done", "lost"}
Success == {"created", "exists", "updated", "unchanged"}
Refused == {"conflict", "notFound", "forbidden", "broken"}
Responses == {"none", "served", "torn", "notFound", "broken", "failed"}

P(r) == call[r].page
Goto(r, phase) == pc' = [pc EXCEPT ![r] = phase]
Fault == faults < MaxFaults /\ faults' = faults + 1
NoFault == UNCHANGED faults

(* An access fails, and so does the one that was to make up for it.          *)
TwoFaults == faults + 2 <= MaxFaults /\ faults' = faults + 2

(* A write puts its file in place, and then its chmod fails.                 *)
LateFault(r) == Fault /\ late' = r
OnTime == UNCHANGED late

(* The handler unlocks server.pages and answers.                             *)
Answer(r, a) == /\ answer' = [answer EXCEPT ![r] = a]
                /\ Goto(r, "done") /\ lock' = Free
Proceed(r, phase) == Goto(r, phase) /\ UNCHANGED <<lock, answer>>

SetContent(r, kind, c) == content' = [content EXCEPT ![P(r)][kind] = c]
SetMeta(r, m) == meta' = [meta EXCEPT ![P(r)] = m]

Kinds(c) == {k \in Kind : c[k] # None}

Init ==
    /\ call \in Workload
    /\ \E s \in Preload : /\ content = [p \in Page |-> s[p].content]
                          /\ meta = [p \in Page |-> s[p].meta]
    /\ lock = Free
    /\ pc = [r \in Request |-> "idle"]
    /\ old = [r \in Request |-> None]
    /\ answer = [r \in Request |-> "none"]
    /\ got = [x \in Reader |-> "none"]
    /\ late = Free /\ faults = 0 /\ crashes = 0

-----------------------------------------------------------------------------
(* The operators Bad... are mistakes that this code could contain in place of *)
(* the definition that follows them; README.md names what each would break.  *)

BadPagesFree == TRUE
PagesFree == lock = Free

(* The creator's key and admin keys may change a page; a page without        *)
(* metadata belongs to admin keys.                                           *)
BadMay(key, m) == key \in Admin \/ m = None \/ m.owner = key
May(key, m) == key \in Admin \/ (m # None /\ m.owner = key)

(* readPageContent, readPageMetadata and the checks that follow them.        *)
Verdict(q, c, m) ==
    LET same == c[q.kind] = q.body IN
    CASE Kinds(c) = Kind -> "broken"
      [] Kinds(c) = {} -> IF q.op = "create" THEN "reserve" ELSE "notFound"
      [] OTHER ->
            IF q.op = "create" /\ ~(same /\ May(q.key, m)) THEN "conflict"
            ELSE IF ~May(q.key, m) THEN "forbidden"
            ELSE IF ~same THEN "write"
            ELSE IF m = None THEN "meta"
            ELSE IF q.op = "create" THEN "exists" ELSE "unchanged"

Begin(r) ==
    LET v == Verdict(call[r], content[P(r)], meta[P(r)]) IN
    /\ pc[r] = "idle" /\ PagesFree
    /\ old' = [old EXCEPT ![r] = [content |-> content[P(r)], meta |-> meta[P(r)]]]
    /\ \/ v \in Phase /\ Goto(r, v) /\ lock' = r /\ NoFault /\ UNCHANGED answer
       \/ v \notin Phase /\ Answer(r, v) /\ NoFault
       \/ Fault /\ Answer(r, "error")
    /\ UNCHANGED <<objects, call, got, late, crashes>>

IsNew(r) == Kinds(old[r].content) = {}
Replaces(r) == ~IsNew(r) /\ old[r].content[call[r].kind] # call[r].body
OldKind(r) == CHOOSE k \in Kinds(old[r].content) : TRUE
Converts(r) == OldKind(r) # call[r].kind

-----------------------------------------------------------------------------
(* writeImmutable creates the content object of a new page, then writes it;  *)
(* if that fails it removes the object, ignoring a failure to do so.         *)
Reserve(r) ==
    /\ pc[r] = "reserve"
    /\ \/ SetContent(r, call[r].kind, Torn) /\ NoFault /\ Proceed(r, "fill")
       \/ UNCHANGED content /\ Fault /\ Answer(r, "error")
    /\ UNCHANGED <<meta, call, old, got, late, crashes>>

Fill(r) ==
    /\ pc[r] = "fill"
    /\ \/ SetContent(r, call[r].kind, call[r].body) /\ NoFault /\ Proceed(r, "meta")
       \/ SetContent(r, call[r].kind, None) /\ Fault /\ Answer(r, "error")
       \/ /\ \E c \in {Torn, call[r].body} : SetContent(r, call[r].kind, c)
          /\ TwoFaults /\ Answer(r, "error")
    /\ UNCHANGED <<meta, call, old, got, late, crashes>>

(* createPage removes the content whose metadata it could not write.         *)
BadUnmake(r) == /\ pc[r] = "unmake" /\ Answer(r, "error") /\ NoFault
                /\ UNCHANGED <<objects, call, old, got, late, crashes>>

Unmake(r) ==
    /\ pc[r] = "unmake"
    /\ \/ SetContent(r, call[r].kind, None) /\ NoFault
       \/ UNCHANGED content /\ Fault
    /\ Answer(r, "error")
    /\ UNCHANGED <<meta, call, old, got, late, crashes>>

-----------------------------------------------------------------------------
(* updatePage writes the new content over the old, or beside it and removes  *)
(* the old when the kind changes.                                            *)
Write(r) ==
    /\ pc[r] = "write"
    /\ \/ /\ SetContent(r, call[r].kind, call[r].body) /\ NoFault /\ OnTime
          /\ Proceed(r, IF Converts(r) THEN "remove" ELSE "meta")
       \/ UNCHANGED content /\ Fault /\ OnTime /\ Answer(r, "error")
       \/ SetContent(r, call[r].kind, call[r].body) /\ LateFault(r) /\ Answer(r, "error")
    /\ UNCHANGED <<meta, call, old, got, crashes>>

BadRemove(r) ==
    /\ pc[r] = "remove" /\ Proceed(r, "meta")
    /\ \/ SetContent(r, OldKind(r), None) /\ NoFault
       \/ UNCHANGED content /\ Fault
    /\ UNCHANGED <<meta, call, old, got, late, crashes>>

Remove(r) ==
    /\ pc[r] = "remove"
    /\ \/ SetContent(r, OldKind(r), None) /\ NoFault /\ Proceed(r, "meta")
       \/ UNCHANGED content /\ Fault /\ Proceed(r, "unwrite")
    /\ UNCHANGED <<meta, call, old, got, late, crashes>>

(* writePageMetadata: the last access of a create or an update, and the only *)
(* one of a request that finds its own content without metadata.             *)
Fresh(r) == [owner |-> call[r].key, rev |-> 1]

BadOwner(r) == [owner |-> call[r].key,
                rev |-> IF Replaces(r) /\ old[r].meta # None THEN old[r].meta.rev + 1 ELSE 1]
BadLegacy(r) == IF old[r].meta # None THEN [old[r].meta EXCEPT !.rev = @ + 1]
                ELSE [owner |-> IF IsNew(r) THEN call[r].key ELSE None, rev |-> 1]
NewMetadata(r) ==
    LET m == IF IsNew(r) \/ old[r].meta = None THEN Fresh(r) ELSE old[r].meta
    IN IF Replaces(r) THEN [m EXCEPT !.rev = @ + 1] ELSE m

WriteMeta(r) ==
    /\ pc[r] = "meta"
    /\ \/ /\ SetMeta(r, NewMetadata(r)) /\ NoFault /\ OnTime
          /\ Answer(r, IF IsNew(r) THEN "created"
                       ELSE IF Replaces(r) THEN "updated"
                       ELSE IF call[r].op = "create" THEN "exists" ELSE "unchanged")
       \/ /\ \/ UNCHANGED meta /\ Fault /\ OnTime
             \/ SetMeta(r, NewMetadata(r)) /\ LateFault(r)
          /\ \/ IsNew(r) /\ Proceed(r, "unmake")
             \/ Replaces(r) /\ Proceed(r, "restore")
             \/ ~IsNew(r) /\ ~Replaces(r) /\ Answer(r, "error")
    /\ UNCHANGED <<content, call, old, got, crashes>>

(* The rollback of an update whose metadata could not be written.            *)
BadRestore(r) ==
    /\ pc[r] = "restore" /\ NoFault
    /\ IF Converts(r) THEN Proceed(r, "unwrite") ELSE Answer(r, "error")
    /\ UNCHANGED <<objects, call, old, got, late, crashes>>

Restore(r) ==
    LET k == OldKind(r) IN
    /\ pc[r] = "restore"
    /\ \/ SetContent(r, k, old[r].content[k]) /\ NoFault /\ OnTime
       \/ UNCHANGED content /\ Fault /\ OnTime
       \/ SetContent(r, k, old[r].content[k]) /\ LateFault(r)
    /\ IF Converts(r) THEN Proceed(r, "unwrite") ELSE Answer(r, "error")
    /\ UNCHANGED <<meta, call, old, got, crashes>>

Unwrite(r) ==
    /\ pc[r] = "unwrite"
    /\ \/ SetContent(r, call[r].kind, None) /\ NoFault
       \/ UNCHANGED content /\ Fault
    /\ Answer(r, "error")
    /\ UNCHANGED <<meta, call, old, got, late, crashes>>

-----------------------------------------------------------------------------
(* handlePage reads the content under the lock.  A site that is not whole    *)
(* does not parse; an HTML page is served as it is.                          *)
Response(c) ==
    CASE Kinds(c) = {} -> "notFound"
      [] Kinds(c) = Kind \/ c["site"] = Torn -> "broken"
      [] OTHER -> IF c["html"] = Torn THEN "torn" ELSE "served"

Get(x, p) ==
    /\ got[x] = "none" /\ PagesFree
    /\ \/ NoFault /\ got' = [got EXCEPT ![x] = Response(content[p])]
       \/ Fault /\ got' = [got EXCEPT ![x] = "failed"]
    /\ UNCHANGED <<objects, lock, pc, call, old, answer, late, crashes>>

Crash ==
    /\ crashes < MaxCrashes /\ crashes' = crashes + 1
    /\ lock' = Free
    /\ pc' = [r \in Request |-> IF pc[r] \in {"idle", "done"} THEN pc[r] ELSE "lost"]
    /\ UNCHANGED <<objects, call, old, answer, got, late, faults>>

-----------------------------------------------------------------------------
Handle(r) == \/ Begin(r) \/ Reserve(r) \/ Fill(r) \/ Unmake(r) \/ Write(r) \/ Remove(r)
             \/ WriteMeta(r) \/ Restore(r) \/ Unwrite(r)

Terminating == /\ \A r \in Request : pc[r] \in {"done", "lost"}
               /\ \A x \in Reader : got[x] # "none"
               /\ UNCHANGED vars

Next == \/ \E r \in Request : Handle(r)
        \/ \E x \in Reader, p \in Page : Get(x, p)
        \/ Crash \/ Terminating

Spec == Init /\ [][Next]_vars

-----------------------------------------------------------------------------
TypeOK ==
    /\ content \in [Page -> Contents]
    /\ meta \in [Page -> Metadata \cup {None}]
    /\ lock \in Request \cup {Free}
    /\ pc \in [Request -> Phase]
    /\ call \in Workload
    /\ old \in [Request -> Stored \cup {None}]
    /\ answer \in [Request -> Success \cup Refused \cup {"none", "error"}]
    /\ got \in [Reader -> Responses]
    /\ late \in Request \cup {Free}
    /\ faults \in Nat /\ crashes \in Nat

(* One failing access is what the undo steps of the handlers are made for.   *)
(* They are not made for a write that fails after its effect (LateFault):    *)
(* then the new content stays, beside the old in a conversion, or the new    *)
(* metadata does.                                                            *)
OneFault == faults <= 1
Calm == OneFault /\ late = Free
Undisturbed == Calm /\ crashes = 0

(* When no handler is at work a page has one content, whole, whatever kinds  *)
(* it has been converted between and wherever an update failed; LateFault    *)
(* excepted.                                                                 *)
Whole(c) == Kinds(c) # Kind /\ \A k \in Kind : c[k] # Torn
OneWholeContent == lock = Free /\ Undisturbed => \A p \in Page : Whole(content[p])

(* A GET never meets a page half-way through a create or a conversion, nor   *)
(* what an undone one left.                                                  *)
GetSeesWholePage == Undisturbed => \A x \in Reader : got[x] \notin {"broken", "torn"}

(* A request that is answered with an error or a refusal leaves the page and *)
(* its metadata as they were when it took the lock: every write that came    *)
(* before the failing access is undone, unless that access is itself a write *)
(* that fails after its effect.  A late write of another request, whose      *)
(* remains this one may have met, is no excuse.                              *)
Undone ==
    \A r \in Request :
        /\ pc[r] # "done" /\ pc'[r] = "done" /\ answer'[r] \notin Success
        /\ OneFault' /\ late' # r
        => content'[P(r)] = old'[r].content /\ meta'[P(r)] = old'[r].meta
FailureChangesNothing == [][Undone]_vars

(* The revision of a page counts the updates that were reported as made,     *)
(* those of a page without metadata included, and none that was undone.      *)
RevisionCountsUpdates ==
    lock = Free /\ Undisturbed =>
        \A p \in Page : meta[p] # None =>
            meta[p].rev = 1 + Cardinality({r \in Request : P(r) = p /\ answer[r] = "updated"})

(* A page that is there stays there, through updates, conversions, one       *)
(* failing access, be it a late one, and crashes; only a create that fails   *)
(* takes its own page back.                                                  *)
PageStays ==
    [][\A p \in Page :
          Kinds(content[p]) # {} /\ Kinds(content'[p]) = {} /\ OneFault'
          => \E r \in Request : lock = r /\ P(r) = p /\ IsNew(r)]_vars

(* A page that exists when a request begins is changed only with its         *)
(* creator's key or an admin key, and one without metadata only with an      *)
(* admin key, also after crashes.                                            *)
Owned(r) == \/ call[r].key \in Admin
            \/ old[r].meta # None /\ old[r].meta.owner = call[r].key

OwnerChange ==
    \A p \in Page : content'[p] # content[p] =>
        \E r \in Request : lock = r /\ P(r) = p /\ (IsNew(r) \/ Owned(r))
ChangedByOwner == [][OwnerChange]_vars

(* README.md:99: each page records its creator key.                          *)
CreatorRecorded ==
    lock = Free => \A r \in Request :
        (old[r] # None /\ IsNew(r) /\ content[P(r)][call[r].kind] = call[r].body)
        => meta[P(r)] # None

(* pages.go:182: stored content does not conflict.                           *)
NoConflictingContent == lock = Free => \A p \in Page : Kinds(content[p]) # Kind

-----------------------------------------------------------------------------
(* Why these hold.  A handler at work holds the lock, on a page of one kind  *)
(* at most that is new or that its key may change, and knows which of the    *)
(* two it deals with.                                                        *)
Working == Phase \ {"idle", "done", "lost"}
Making == {"reserve", "fill", "unmake"}
Changing == {"write", "remove", "restore", "unwrite"}

HoldsPage ==
    \A r \in Request : pc[r] \in Working =>
        /\ lock = r /\ old[r] # None
        /\ IsNew(r) \/ Owned(r)
        /\ Kinds(old[r].content) # Kind
        /\ call[r].op = "create" => ~Replaces(r)
        /\ call[r].op = "update" => ~IsNew(r)
        /\ pc[r] \in Making => IsNew(r)
        /\ pc[r] \in Changing => Replaces(r)
        /\ pc[r] \in {"remove", "unwrite"} => Converts(r)

(* While no more than one access has failed, the content of the page a       *)
(* handler works on is what it found, with the accesses of the phases it has *)
(* been through, and the metadata is what it found, or what it was to write, *)
(* if that write failed late.                                                *)
Wrote(r) == \/ pc[r] \in {"unmake", "remove", "unwrite"}
            \/ pc[r] \in {"meta", "restore"} /\ (IsNew(r) \/ Replaces(r))
Removed(r) == pc[r] \in {"meta", "restore"} /\ Replaces(r) /\ Converts(r)

SoFar(r, k) ==
    IF k = call[r].kind /\ pc[r] = "fill" THEN Torn
    ELSE IF k = call[r].kind /\ Wrote(r) THEN call[r].body
    ELSE IF k # call[r].kind /\ Removed(r) THEN None
    ELSE old[r].content[k]

InProgress ==
    OneFault =>
        /\ late # Free => faults = 1
        /\ \A r \in Request : pc[r] \in Working =>
              /\ \/ meta[P(r)] = old[r].meta
                 \/ late = r /\ meta[P(r)] = NewMetadata(r)
              /\ \A k \in Kind : content[P(r)][k] = SoFar(r, k)
              /\ pc[r] \in {"unmake", "restore", "unwrite"} => faults = 1

(* What holds whatever is on disk at the start, and through crashes.         *)
WorkInv == TypeOK /\ HoldsPage /\ InProgress

(* Without a crash, every page but the one that is worked on is whole.       *)
WholeElsewhere ==
    Undisturbed =>
        /\ \A r \in Request : pc[r] \in Working => Whole(old[r].content)
        /\ \A p \in Page : (\A r \in Request : pc[r] \in Working => P(r) # p)
                           => Whole(content[p])

(* Why RevisionCountsUpdates holds: a page that was updated is there, so no  *)
(* create takes it for new, and its revision, which the next update goes by, *)
(* counts the updates also while a handler is at work on it.                 *)
Updated(p) == {r \in Request : P(r) = p /\ answer[r] = "updated"}

RevisionsCounted ==
    /\ \A r \in Request : answer[r] = "updated" => pc[r] = "done"
    /\ \A p \in Page : IsFiniteSet(Updated(p))
    /\ Undisturbed => \A p \in Page :
          /\ meta[p] = None => Updated(p) = {}
          /\ meta[p] # None => meta[p].rev = 1 + Cardinality(Updated(p))
          /\ Updated(p) # {} =>
                /\ \A r \in Request : pc[r] \in Working /\ P(r) = p => ~IsNew(r)
                /\ (\A r \in Request : pc[r] \in Working => P(r) # p)
                   => Kinds(content[p]) # {}

(* The inductive invariant.                                                  *)
PagesInv == WorkInv /\ WholeElsewhere

-----------------------------------------------------------------------------
(* The pages as PageService sees them: while a handler is at work, its page  *)
(* is still what the handler found when it took the lock.                    *)
Seen(p) == IF \E r \in Request : pc[r] \in Working /\ P(r) = p
           THEN old[lock] ELSE [content |-> content[p], meta |-> meta[p]]

StatusOf(r) == IF pc[r] = "done" THEN answer[r]
               ELSE IF pc[r] \in Working THEN "working" ELSE pc[r]

Service == INSTANCE PageService WITH
    page <- [p \in Page |-> Seen(p)],
    ask <- call,
    status <- [r \in Request |-> StatusOf(r)],
    seen <- got,
    calm <- OneFault

(* Every behaviour of the handlers is one of the service: a request changes  *)
(* content and metadata together when it is answered or not at all, whatever *)
(* it is interrupted by; what a crash leaves of it is one of four cases, and *)
(* what a write that fails after its effect leaves, one of two.              *)
ImplementsPageService == Service!Spec
=============================================================================
