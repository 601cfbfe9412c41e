---------------------------- MODULE PageService ----------------------------
(* What the pages of pageup-server promise, without a lock, files or undo    *)
(* steps: a page and its metadata change together, in one step, when the     *)
(* request that changes them is answered; a refusal has a reason; a crash    *)
(* cuts short at most one request, and leaves its page in one of the four    *)
(* ways of HalfMade; a write that reports an error after its effect makes    *)
(* one request answer with an error and leave its page in one of the two     *)
(* ways of SlipsThrough.  The promise is off (calm = FALSE) once two object  *)
(* accesses have failed.  Pages implements it.                               *)
EXTENDS Naturals

CONSTANTS Request, Reader, Page, Key, Admin, Body, None, Torn, Free

Kind == {"html", "site"}

VARIABLES
    page,   \* the content and the metadata of each page
    ask,    \* what each request asks
    status, \* how far each request is, in the end its answer
    seen,   \* what each GET was answered with
    late,   \* the request one of whose writes failed after its effect, or Free
    calm

vars == <<page, ask, status, seen, late, calm>>

P(r) == ask[r].page
Exists(p) == \E k \in Kind : page[p].content[k] # None
Conflicts(p) == \A k \in Kind : page[p].content[k] # None
Same(r) == page[P(r)].content[ask[r].kind] = ask[r].body
MayChange(r) == LET m == page[P(r)].meta IN
                ask[r].key \in Admin \/ (m # None /\ m.owner = ask[r].key)

(* The page that a request asks for, and only that.                          *)
Asked(r) == [k \in Kind |-> IF k = ask[r].kind THEN ask[r].body ELSE None]

(* The metadata of its page once it is done: a page keeps its owner, one     *)
(* that has none gets the key of the request; an update is a new revision.   *)
Recorded(r) ==
    LET m == page[P(r)].meta
        Has == Exists(P(r)) /\ m # None
    IN [owner |-> IF Has THEN m.owner ELSE ask[r].key,
        rev |-> (IF Has THEN m.rev ELSE 1) + (IF Exists(P(r)) /\ ~Same(r) THEN 1 ELSE 0)]

Becomes(r, s) == status[r] \in {"idle", "working"} /\ status' = [status EXCEPT ![r] = s]
SetPage(r, c, m) == page' = [page EXCEPT ![P(r)] = [content |-> c, meta |-> m]]

Accept(r) == status[r] = "idle" /\ Becomes(r, "working") /\ UNCHANGED <<page, seen>>

(* What a request may do to its page, if anything.                           *)
ToCreate(r) == ask[r].op = "create" /\ ~Exists(P(r))
ToUpdate(r) == /\ ask[r].op = "update" /\ Exists(P(r)) /\ ~Conflicts(P(r)) /\ ~Same(r)
               /\ MayChange(r)
ToConfirm(r) == Same(r) /\ ~Conflicts(P(r)) /\ MayChange(r)
Entitled(r) == ToCreate(r) \/ ToUpdate(r) \/ ToConfirm(r)

(* To confirm is to find the page as asked; an admin's records an owner.     *)
Make(r) == /\ \/ ToCreate(r) /\ Becomes(r, "created")
              \/ ToUpdate(r) /\ Becomes(r, "updated")
              \/ /\ ToConfirm(r)
                 /\ Becomes(r, IF ask[r].op = "create" THEN "exists" ELSE "unchanged")
           /\ SetPage(r, Asked(r), Recorded(r))
           /\ UNCHANGED seen

(* Either the new content is there, over or beside the old, or the new       *)
(* metadata is, with the content as it was.                                  *)
SlipsThrough(r) ==
    LET c == page[P(r)].content
        m == page[P(r)].meta
    IN \/ Exists(P(r)) /\ SetPage(r, [c EXCEPT ![ask[r].kind] = ask[r].body], m)
       \/ SetPage(r, c, Recorded(r))

FailLate(r) == /\ Becomes(r, "error") /\ Entitled(r) /\ late' = r
               /\ SlipsThrough(r)
               /\ UNCHANGED seen

Refuse(r) == /\ \/ Becomes(r, "error")
                \/ Becomes(r, "broken") /\ Conflicts(P(r))
                \/ Becomes(r, "notFound") /\ ask[r].op = "update" /\ ~Exists(P(r))
                \/ /\ Becomes(r, "conflict") /\ ask[r].op = "create" /\ Exists(P(r))
                   /\ ~Same(r) \/ ~MayChange(r)
                \/ /\ Becomes(r, "forbidden") /\ ask[r].op = "update" /\ Exists(P(r))
                   /\ ~MayChange(r)
             /\ UNCHANGED <<page, seen>>

Whole(c) == (\E k \in Kind : c[k] = None) /\ \A k \in Kind : c[k] # Torn

Get(x, p) == /\ seen[x] = "none"
             /\ \E a \in {"served", "notFound", "broken", "torn", "failed"} :
                   /\ seen' = [seen EXCEPT ![x] = a]
                   /\ a = "served" => Exists(p) /\ Whole(page[p].content)
                   /\ a = "notFound" => ~Exists(p)
                   /\ a \in {"broken", "torn"} => ~Whole(page[p].content)
             /\ UNCHANGED <<page, status>>

(* The page of a request that a crash cuts short: as it was, the new content *)
(* beside or over the old, the new content alone, or, if there was none, an  *)
(* object not yet written.  The metadata is as it was, or its write failed   *)
(* after its effect.                                                         *)
HalfMade(r) ==
    LET c == page[P(r)].content IN
    {c, [c EXCEPT ![ask[r].kind] = ask[r].body], Asked(r)}
    \cup {d \in {[c EXCEPT ![ask[r].kind] = Torn]} : ~Exists(P(r))}

Crash == /\ status' = [r \in Request |-> IF status[r] = "working" THEN "lost" ELSE status[r]]
         /\ \/ UNCHANGED page
            \/ \E r \in Request :
                  /\ status[r] = "working" /\ Entitled(r)
                  /\ \E c \in HalfMade(r) :
                        \/ SetPage(r, c, page[P(r)].meta)
                        \/ late = r /\ SetPage(r, c, Recorded(r))
         /\ UNCHANGED seen

Promised == \/ \E r \in Request : Accept(r) \/ Make(r) \/ Refuse(r) \/ FailLate(r)
            \/ \E x \in Reader, p \in Page : Get(x, p)
            \/ Crash

(* At most one request meets a write that fails late.                        *)
OneLate == \/ UNCHANGED late
           \/ late = Free /\ late' \in Request /\ status[late'] = "working"

Next == /\ UNCHANGED ask
        /\ \/ calm /\ calm' /\ OneLate /\ (Promised \/ UNCHANGED <<page, status, seen>>)
           \/ ~calm'

Init == /\ calm = TRUE /\ late = Free
        /\ status = [r \in Request |-> "idle"] /\ seen = [x \in Reader |-> "none"]

Spec == Init /\ [][Next]_vars
=============================================================================
