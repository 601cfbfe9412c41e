---------------------------- MODULE FileService ----------------------------
(* What the hosted files of pageup-server promise, without locks, blobs or   *)
(* temporary objects: a file changes in one step, a request that is answered *)
(* with success changed its file exactly once, one that is answered with an  *)
(* error changed nothing, and a GET serves a version that the file had while *)
(* the GET was going on.  HostedFiles implements it.                         *)
EXTENDS Naturals

CONSTANTS Id, Request, Reader, Stored, Key, Admin, Name, Content, KeepName, Absent

VARIABLES
    files,   \* what each id names: a version of a file, or Absent
    request, \* what each request asks
    status,  \* how far each request is
    chosen,  \* the name an update gives its file
    wanted,  \* the id each GET asks for
    seen,    \* the version a GET has settled on
    got,     \* how each GET ended
    sent     \* the version a GET served

vars == <<files, request, status, chosen, wanted, seen, got, sent>>

Version == [owner : Key, name : Name, content : Content, rev : Nat]
InFlight == {"pending", "applied", "refused"}

Init ==
    /\ files \in [Id -> Version \cup {Absent}]
    /\ \A i \in Id : files[i] = Absent <=> i \notin Stored
    /\ status = [r \in Request |-> "idle"]
    /\ chosen = [r \in Request |-> KeepName]
    /\ seen = [x \in Reader |-> Absent]
    /\ got = [x \in Reader |-> "none"]
    /\ sent = [x \in Reader |-> Absent]

Becomes(r, from, to) == /\ status[r] \in from
                        /\ status' = [status EXCEPT ![r] = to]

Unread == UNCHANGED <<wanted, seen, got, sent>>

Invoke(r) == /\ Becomes(r, {"idle"}, "pending")
             /\ UNCHANGED <<files, request, chosen>> /\ Unread

MayChange(r) == LET q == request[r] IN
                /\ files[q.id] # Absent
                /\ files[q.id].owner = q.key \/ q.key \in Admin

(* An update that gives no name takes the one the file has at some moment    *)
(* while the update is going on.                                             *)
Choose(r) ==
    LET q == request[r] IN
    /\ status[r] = "pending" /\ q.op = "update" /\ MayChange(r)
    /\ chosen' = [chosen EXCEPT ![r] = IF q.name = KeepName
                                       THEN files[q.id].name ELSE q.name]
    /\ UNCHANGED <<files, request, status>> /\ Unread

Effect(r) ==
    LET q == request[r]
        Set(v) == files' = [files EXCEPT ![q.id] = v]
    IN
    /\ Becomes(r, {"pending"}, "applied")
    /\ \/ /\ q.op = "create" /\ files[q.id] = Absent
          /\ Set([owner |-> q.key, name |-> q.name, content |-> q.content, rev |-> 1])
       \/ /\ q.op = "update" /\ MayChange(r)
          /\ \/ Set([files[q.id] EXCEPT !.name = chosen[r], !.content = q.content,
                                        !.rev = @ + 1])
             \/ /\ files[q.id].content = q.content
                /\ q.name \in {KeepName, files[q.id].name}
                /\ UNCHANGED files
       \/ q.op = "delete" /\ MayChange(r) /\ Set(Absent)
    /\ UNCHANGED <<request, chosen>> /\ Unread

Refuse(r) == /\ Becomes(r, {"pending"}, "refused")
             /\ UNCHANGED <<files, request, chosen>> /\ Unread

Respond(r) == /\ Becomes(r, {"applied"}, "ok") \/ Becomes(r, {"refused"}, "failed")
              /\ UNCHANGED <<files, request, chosen>> /\ Unread

-----------------------------------------------------------------------------
Returns(x, v) == got[x] = "none" /\ got' = [got EXCEPT ![x] = v]
Unwritten == UNCHANGED <<files, request, status, chosen>>

Look(x) == /\ got[x] = "none" /\ files[wanted[x]] # Absent
           /\ seen' = [seen EXCEPT ![x] = files[wanted[x]]]
           /\ UNCHANGED <<wanted, got, sent>> /\ Unwritten

Serve(x) == /\ seen[x] # Absent /\ Returns(x, "served")
            /\ sent' = [sent EXCEPT ![x] = seen[x]]
            /\ UNCHANGED <<wanted, seen>> /\ Unwritten

(* A GET may miss a file that is there only when the file changed again      *)
(* after the GET last looked at it.                                          *)
NotFound(x) == /\ \/ files[wanted[x]] = Absent
                  \/ seen[x] # Absent /\ files[wanted[x]].rev > seen[x].rev
               /\ Returns(x, "notFound")
               /\ UNCHANGED <<wanted, seen, sent>> /\ Unwritten

GiveUp(x) == Returns(x, "failed") /\ UNCHANGED <<wanted, seen, sent>> /\ Unwritten

Crash == /\ status' = [r \in Request |-> IF status[r] \in InFlight THEN "lost"
                                         ELSE status[r]]
         /\ got' = [x \in Reader |-> IF got[x] = "none" THEN "failed" ELSE got[x]]
         /\ UNCHANGED <<files, request, chosen, wanted, seen, sent>>

Next == \/ \E r \in Request : Invoke(r) \/ Choose(r) \/ Effect(r) \/ Refuse(r) \/ Respond(r)
        \/ \E x \in Reader : Look(x) \/ Serve(x) \/ NotFound(x) \/ GiveUp(x)
        \/ Crash

Spec == Init /\ [][Next]_vars
=============================================================================
