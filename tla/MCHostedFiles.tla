--------------------------- MODULE MCHostedFiles ---------------------------
(* Small instances of HostedFiles: one file on disk (f1), three requests     *)
(* with nonces of their own (u1, u2, u3) or shared ones, the key that owns   *)
(* f1, a key that does not and an admin key.                                 *)
EXTENDS HostedFiles, TLC

CONSTANTS r1, r2, r3, f1, u1, u2, u3, g1, owner, other, admin, n1, n2, c1, c2, c3

Ask(op, k, u, i, n, c) ==
    [op |-> op, key |-> k, nonce |-> u, id |-> i, name |-> n, content |-> c]
Create(k, u, n, c) == Ask("create", k, u, u, n, c)
Update(k, u, i, n, c) == Ask("update", k, u, i, n, c)
Delete(k, u, i) == Ask("delete", k, u, i, KeepName, c1)
Calls(a, b, c) == (r1 :> a) @@ (r2 :> b) @@ (r3 :> c)

MCPreload == {[i \in Stored |-> [owner |-> owner, name |-> n1, content |-> c1]]}
MCAsked == {[id |-> f1, name |-> n2], [id |-> u1, name |-> n1]}

(* An update that keeps the name races with a rename to the same content or  *)
(* a delete, and with an update by an admin, one by a key that may not, or a *)
(* delete.                                                                   *)
OnStored ==
    {Calls(Update(owner, u1, f1, KeepName, c2), b[1], b[2]) :
        b \in {Update(owner, u2, f1, n2, c1)}
                  \X {Update(other, u3, f1, n2, c3), Delete(admin, u3, f1)}
              \cup {Delete(owner, u2, f1)}
                  \X {Update(other, u3, f1, n2, c3), Update(admin, u3, f1, n1, c3)}}

(* The same against a file that is being created.                            *)
OnCreated ==
    {Calls(Create(owner, u1, n1, c2), Update(owner, u2, u1, KeepName, c1), c) :
        c \in {Update(owner, u3, u1, n2, c3), Delete(admin, u3, u1), Delete(other, u3, u1)}}

(* Two creates with one nonce; two updates with one; a create whose nonce is *)
(* the id of the file on disk.                                               *)
SharedNonce ==
    {Calls(Create(owner, u1, n1, c2), Create(other, u1, n2, c3),
           Update(owner, u3, u1, KeepName, c1)),
     Calls(Update(owner, u1, f1, KeepName, c2), Update(admin, u1, f1, n2, c3),
           Delete(owner, u3, f1))}

Reused == {Calls(Create(other, f1, n2, c3), Update(owner, u2, f1, KeepName, c2),
                 Delete(owner, u3, f1))}

AllCalls == OnStored \cup OnCreated \cup SharedNonce \cup Reused

(* Two requests only, for runs in which late faults and redelivery multiply  *)
(* what each of them may go through.                                         *)
Pair(a, b) == (r1 :> a) @@ (r2 :> b)

PairCalls ==
    {Pair(Update(owner, u1, f1, KeepName, c2), b) :
        b \in {Update(owner, u2, f1, n2, c1), Update(other, u2, f1, n2, c3),
               Delete(admin, u2, f1), Create(other, f1, n2, c3)}}
    \cup {Pair(Create(owner, u1, n1, c2), b) :
        b \in {Update(owner, u2, u1, n2, c1), Delete(owner, u2, u1),
               Create(other, u1, n2, c3)}}
=============================================================================
