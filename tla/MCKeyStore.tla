----------------------------- MODULE MCKeyStore -----------------------------
(* Two admins who may revoke each other and a device that is to be added.    *)
EXTENDS KeyStore, TLC

CONSTANTS r1, r2, r3, k1, k2, k3

Ask(op, by, k, role) == [op |-> op, by |-> by, key |-> k, role |-> role]
Calls(x, y, z) == (r1 :> x) @@ (r2 :> y) @@ (r3 :> z)

Revoke(by, k) == Ask("remove", by, k, "upload")

(* Every pair of changes by the two admins, with a request by the device, or *)
(* by an admin, that may look in between.                                    *)
Changes(by) ==
    {Revoke(by, k) : k \in Key} \cup {Ask("add", by, k, role) : k \in {k1, k3}, role \in Role}
Looks == {Ask("list", k2, k2, "upload"), Ask("whoami", k3, k3, "upload"),
          Ask("add", k3, k3, "admin"), Ask("remove", k2, k3, "upload")}

MCWorkload == {Calls(x, y, z) : x \in Changes(k1), y \in Changes(k2), z \in Looks}

MCBootstraps == {(k1 :> "admin") @@ (k2 :> "admin") @@ (k3 :> "none"),
                 (k1 :> "admin") @@ (k2 :> "none") @@ (k3 :> "upload"),
                 (k1 :> "upload") @@ (k2 :> "none") @@ (k3 :> "none")}
=============================================================================
