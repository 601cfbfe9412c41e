---------------------------- MODULE KeyRegistry ----------------------------
(* What the authorized keys of pageup-server promise, without a process, a   *)
(* lock or a file: a registry that outlives crashes, changes in one step per *)
(* request, only for requests that an admin of that moment asked for, and is *)
(* never without an admin.  KeyStore implements it.                          *)

CONSTANTS Request, Key, Bootstraps, Unset

VARIABLES
    registry, \* the role of each key, or Unset before the first start
    request,  \* what each request asks
    status    \* how far each request is

vars == <<registry, request, status>>

Roles == [Key -> {"admin", "upload", "none"}]
HasAdmin(keys) == \E k \in Key : keys[k] = "admin"

Init == registry = Unset /\ status = [r \in Request |-> "idle"]

Becomes(r, from, to) == /\ status[r] \in from
                        /\ status' = [status EXCEPT ![r] = to]

(* The first start takes the registry from the configuration.                *)
Open == /\ registry = Unset
        /\ \E b \in Bootstraps : HasAdmin(b) /\ registry' = b
        /\ UNCHANGED <<request, status>>

Accept(r) ==
    LET by == request[r].by IN
    /\ registry # Unset
    /\ \/ registry[by] = "admin"
       \/ request[r].op = "whoami" /\ registry[by] # "none"
    /\ Becomes(r, {"idle"}, "accepted")
    /\ UNCHANGED <<registry, request>>

(* A key that is in the registry keeps its role until it is removed.         *)
Effect(r) ==
    LET q == request[r]
        Set(role) == registry' = [registry EXCEPT ![q.key] = role]
    IN
    /\ registry # Unset
    /\ Becomes(r, {"accepted"}, "applied")
    /\ \/ q.op = "add" /\ registry[q.key] = "none" /\ Set(q.role)
       \/ q.op = "add" /\ registry[q.key] # "none" /\ UNCHANGED registry
       \/ q.op = "remove" /\ registry[q.key] # "none" /\ Set("none")
       \/ q.op \in {"list", "whoami"} /\ UNCHANGED registry
    /\ HasAdmin(registry')
    /\ UNCHANGED request

Refuse(r) == /\ Becomes(r, {"idle", "accepted"}, "refused")
             /\ UNCHANGED <<registry, request>>

Respond(r) == /\ Becomes(r, {"applied"}, "ok") \/ Becomes(r, {"refused"}, "failed")
              /\ UNCHANGED <<registry, request>>

InFlight == {"accepted", "applied", "refused"}

Crash == /\ status' = [r \in Request |-> IF status[r] \in InFlight THEN "lost"
                                         ELSE status[r]]
         /\ UNCHANGED <<registry, request>>

Next == \/ Open \/ Crash
        \/ \E r \in Request : Accept(r) \/ Effect(r) \/ Refuse(r) \/ Respond(r)

Spec == Init /\ [][Next]_vars
=============================================================================
