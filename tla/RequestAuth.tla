---------------------------- MODULE RequestAuth ----------------------------
(* authorizeHash and useNonce (server/server.go): how the server decides     *)
(* that a signed request is genuine, recent and not a repetition.            *)
(*                                                                           *)
(* One signed message may be delivered several times; every delivery is      *)
(* handled by a goroutine of its own, which reads the clock first and takes  *)
(* the lock of the nonce table last.  Clock readings are in ticks; the code  *)
(* has Window = 5 minutes and Retention = 10 minutes.                        *)
EXTENDS Naturals, FiniteSets

CONSTANTS
    Delivery,     \* deliveries of messages
    Nonce,        \* pairs of key id and nonce (the keys of nonces.used)
    Mailing,      \* the assignments of messages to deliveries to explore
    Window,       \* how far a timestamp may be from the clock
    Retention,    \* how long a used nonce is remembered
    MaxTime,      \* bound: the last tick
    Unused

(* genuine: the key is authorized and the signature is the key's own.        *)
Message == [nonce : Nonce, stamp : Nat, genuine : BOOLEAN]

ASSUME MailingAssumption == Mailing \subseteq [Delivery -> Message]
ASSUME TimeAssumption == Window \in Nat /\ Retention \in Nat /\ MaxTime \in Nat
ASSUME UnusedAssumption == Unused \notin Nat

VARIABLES
    clock,
    mail,   \* the message of each delivery
    pc,     \* where the handler of each delivery is, or how it ended
    now,    \* the clock reading a handler works with
    used    \* nonces.used: when each nonce was used

vars == <<clock, mail, pc, now, used>>

Deciding == {"verify", "nonce"}
Ended == {"expired", "forged", "replayed", "accepted"}

Init == /\ clock = 0 /\ mail \in Mailing
        /\ pc = [d \in Delivery |-> "sent"]
        /\ now = [d \in Delivery |-> 0]
        /\ used = [n \in Nonce |-> Unused]

(* The clock is read once, and the timestamp checked against it.             *)
ReadClock(d) ==
    /\ pc[d] = "sent"
    /\ now' = [now EXCEPT ![d] = clock]
    /\ pc' = [pc EXCEPT ![d] =
                IF mail[d].stamp + Window < clock \/ mail[d].stamp > clock + Window
                THEN "expired" ELSE "verify"]
    /\ UNCHANGED <<clock, mail, used>>

(* The operators Bad... are mistakes that this code could contain in place of *)
(* the definition that follows them; README.md names what each would break.  *)
BadVerify(d) ==
    /\ pc[d] = "verify"
    /\ pc' = [pc EXCEPT ![d] = IF mail[d].genuine THEN "nonce" ELSE "forged"]
    /\ used' = IF mail[d].genuine THEN used ELSE [used EXCEPT ![mail[d].nonce] = now[d]]
    /\ UNCHANGED <<clock, mail, now>>

(* The key is looked up and the signature verified before the nonce is used. *)
Verify(d) ==
    /\ pc[d] = "verify"
    /\ pc' = [pc EXCEPT ![d] = IF mail[d].genuine THEN "nonce" ELSE "forged"]
    /\ UNCHANGED <<clock, mail, now, used>>

(* useNonce, under the lock of the table: every nonce that is older than     *)
(* Retention, by this handler's reading of the clock, is forgotten first.    *)
BadRemembered(d) ==
    [n \in Nonce |-> IF used[n] # Unused /\ used[n] + Window < now[d]
                     THEN Unused ELSE used[n]]
Remembered(d) ==
    [n \in Nonce |-> IF used[n] # Unused /\ used[n] + Retention < now[d]
                     THEN Unused ELSE used[n]]

UseNonce(d) ==
    LET n == mail[d].nonce IN
    /\ pc[d] = "nonce"
    /\ \/ /\ Remembered(d)[n] # Unused
          /\ used' = Remembered(d)
          /\ pc' = [pc EXCEPT ![d] = "replayed"]
       \/ /\ Remembered(d)[n] = Unused
          /\ used' = [Remembered(d) EXCEPT ![n] = now[d]]
          /\ pc' = [pc EXCEPT ![d] = "accepted"]
    /\ UNCHANGED <<clock, mail, now>>

(* Time passes, however long a handler takes from the clock to the table.    *)
Tick ==
    /\ clock < MaxTime /\ clock' = clock + 1
    /\ UNCHANGED <<mail, pc, now, used>>

Terminating == /\ clock = MaxTime /\ \A d \in Delivery : pc[d] \in Ended
               /\ UNCHANGED vars

Next == \/ \E d \in Delivery : ReadClock(d) \/ Verify(d) \/ UseNonce(d)
        \/ Tick
        \/ Terminating

Spec == Init /\ [][Next]_vars

-----------------------------------------------------------------------------
TypeOK == /\ clock \in Nat /\ mail \in Mailing
          /\ pc \in [Delivery -> {"sent"} \cup Deciding \cup Ended]
          /\ now \in [Delivery -> Nat]
          /\ used \in [Nonce -> Nat \cup {Unused}]

(* README.md:97, "The server rejects unknown keys, modified requests,        *)
(* timestamps outside five minutes, and replayed nonces": one signed message *)
(* is accepted once, however often it is delivered.                          *)
AcceptedOnce ==
    \A c, d \in Delivery :
        pc[c] = "accepted" /\ pc[d] = "accepted" /\ mail[c] = mail[d] => c = d

(* A handler whose reading of the clock is past the age of this message has  *)
(* been through the table of nonces already.                                 *)
Overtaken(d) ==
    \E e \in Delivery : /\ pc[e] \in {"accepted", "replayed"}
                        /\ now[e] > mail[d].stamp + Window

(* How often a message can take effect: a second delivery of it is accepted  *)
(* only if a handler with a later reading of the clock overtook it between   *)
(* its own reading (server.go:481) and the table (server.go:501), however    *)
(* late, and with whatever other messages and nonces, copies arrive.         *)
RepeatOnlyIfOvertaken ==
    \A c, d \in Delivery :
        pc[c] = "accepted" /\ pc[d] = "accepted" /\ mail[c] = mail[d] /\ c # d
        => Overtaken(d)

(* A delivery is turned away as a repetition only after its message has been *)
(* accepted: a damaged copy that arrives first does not use up the nonce.    *)
NoFalseReplay ==
    \A d \in Delivery : pc[d] = "replayed" =>
        \E c \in Delivery : pc[c] = "accepted" /\ mail[c].nonce = mail[d].nonce

-----------------------------------------------------------------------------
(* Why RepeatOnlyIfOvertaken holds when Retention covers both sides of the   *)
(* window: a nonce is forgotten only by a handler for which the message that *)
(* used it has expired.                                                      *)
DecidingInTime ==
    \A d \in Delivery : pc[d] \in Deciding =>
        mail[d].stamp <= now[d] + Window /\ now[d] <= mail[d].stamp + Window

AcceptedRemembered ==
    \A d \in Delivery : pc[d] = "accepted" =>
        \/ Overtaken(d)
        \/ /\ used[mail[d].nonce] # Unused
           /\ mail[d].stamp + Window <= used[mail[d].nonce] + Retention

(* Why NoFalseReplay holds: what is in the table was put there by a delivery *)
(* that was accepted.                                                        *)
UsedWasAccepted ==
    \A n \in Nonce : used[n] # Unused =>
        \E c \in Delivery : pc[c] = "accepted" /\ mail[c].nonce = n

OnceInv == TypeOK /\ DecidingInTime /\ AcceptedRemembered /\ RepeatOnlyIfOvertaken
=============================================================================
