------------------------------ MODULE MCPages ------------------------------
(* One page that may exist, be a legacy page or not exist, and three         *)
(* requests by its owner, by another key or by an admin.                     *)
EXTENDS Pages, TLC

CONSTANTS r1, r2, r3, x1, p1, owner, other, admin, b1, b2

Html(c) == [html |-> c, site |-> None]
Page1(c, m) == [p \in Page |-> [content |-> c, meta |-> m]]

MCPreload == {Page1(Html(None), None), Page1(Html(b1), None),
              Page1(Html(b1), [owner |-> owner, rev |-> 1])}

Ask(op, key, kind, body) ==
    [op |-> op, key |-> key, page |-> p1, kind |-> kind, body |-> body]

Updates(key) == {Ask("update", key, kind, b) : kind \in Kind, b \in {b1, b2}}
Creates == {Ask("create", owner, "html", b1), Ask("create", other, "site", b2),
            Ask("create", admin, "html", b1)}

MCWorkload == {(r1 :> a) @@ (r2 :> b) @@ (r3 :> c) :
                  a \in Creates, b \in Updates(owner) \cup Updates(admin),
                  c \in Updates(owner) \cup {Ask("update", other, "html", b2)}}
=============================================================================
