------------------------- MODULE RequestAuthProofs -------------------------
(* RequestAuth accepts a signed message again only if a handler with a later *)
(* reading of the clock overtook the second delivery, for every number of    *)
(* deliveries, every mailing and every window, as long as nonces are         *)
(* remembered for both sides of the window, as the code does                 *)
(* (server/server.go:483, 511).                                              *)
EXTENDS RequestAuth, TLAPS

(* The message of a delivery, in each mailing that is explored.              *)
LEMMA MailType ==
    ASSUME mail \in Mailing
    PROVE  /\ mail \in [Delivery -> Message]
           /\ \A d \in Delivery : /\ mail[d].nonce \in Nonce
                                  /\ mail[d].stamp \in Nat
                                  /\ mail[d].genuine \in BOOLEAN
BY MailingAssumption DEF Message

(* The table after old nonces are forgotten is a table, and what is left in  *)
(* it is as it was.                                                          *)
LEMMA RememberedType ==
    ASSUME used \in [Nonce -> Nat \cup {Unused}], NEW d \in Delivery
    PROVE  /\ Remembered(d) \in [Nonce -> Nat \cup {Unused}]
           /\ \A n \in Nonce :
                 /\ Remembered(d)[n] # Unused => Remembered(d)[n] = used[n]
                 /\ used[n] # Unused => \/ Remembered(d)[n] = used[n]
                                        \/ used[n] + Retention < now[d]
BY DEF Remembered

-----------------------------------------------------------------------------
(* Every step keeps the variables in their types.                            *)
LEMMA NextTypeOK ==
    ASSUME TypeOK, [Next]_vars
    PROVE  TypeOK'
<1> USE DEF TypeOK
<1>1. ASSUME NEW d \in Delivery, ReadClock(d) PROVE TypeOK'
  BY <1>1 DEF ReadClock, Deciding, Ended
<1>2. ASSUME NEW d \in Delivery, Verify(d) PROVE TypeOK'
  BY <1>2 DEF Verify, Deciding, Ended
<1>3. ASSUME NEW d \in Delivery, UseNonce(d) PROVE TypeOK'
  <2>1. /\ Remembered(d) \in [Nonce -> Nat \cup {Unused}]
        /\ mail[d].nonce \in Nonce
        /\ now[d] \in Nat
    BY RememberedType, MailType
  <2>2. used' \in [Nonce -> Nat \cup {Unused}]
    BY <1>3, <2>1 DEF UseNonce
  <2>3. pc' \in [Delivery -> {"sent"} \cup Deciding \cup Ended]
    BY <1>3 DEF UseNonce, Deciding, Ended
  <2> QED
    BY <1>3, <2>2, <2>3 DEF UseNonce
<1>4. CASE Tick
  BY <1>4 DEF Tick
<1>5. CASE Terminating \/ UNCHANGED vars
  BY <1>5 DEF Terminating, vars
<1> QED
  BY <1>1, <1>2, <1>3, <1>4, <1>5 DEF Next

(* The invariant holds before anything is delivered.                         *)
LEMMA InitOnceInv == Init => OnceInv
<1> SUFFICES ASSUME Init PROVE OnceInv
  OBVIOUS
<1>1. TypeOK
  BY DEF Init, TypeOK
<1>2. \A d \in Delivery : pc[d] = "sent"
  BY DEF Init
<1> QED
  BY <1>1, <1>2 DEF OnceInv, DecidingInTime, AcceptedRemembered, RepeatOnlyIfOvertaken, Deciding

-----------------------------------------------------------------------------
(* A handler that is through with the table stays so, with its reading of    *)
(* the clock, whatever another does: a message once overtaken stays so.      *)
LEMMA OvertakenStays ==
    ASSUME mail' = mail, NEW d \in Delivery,
           \A e \in Delivery : pc[e] \in {"accepted", "replayed"}
                              => pc'[e] = pc[e] /\ now'[e] = now[e]
    PROVE  \A c \in Delivery : Overtaken(c) => Overtaken(c)'
BY DEF Overtaken

(* With nonces remembered long enough, every step keeps the invariant.       *)
LEMMA NextOnceInv ==
    ASSUME Retention >= 2 * Window, OnceInv, [Next]_vars
    PROVE  OnceInv'
<1> USE TimeAssumption, UnusedAssumption
<1>0. TypeOK /\ TypeOK'
  BY NextTypeOK DEF OnceInv
<1>1. /\ mail \in Mailing /\ used \in [Nonce -> Nat \cup {Unused}]
      /\ \A d \in Delivery : now[d] \in Nat
      /\ pc \in [Delivery -> {"sent"} \cup Deciding \cup Ended]
      /\ now \in [Delivery -> Nat] /\ clock \in Nat
  BY <1>0 DEF TypeOK
<1>2. \A d \in Delivery : mail[d].nonce \in Nonce /\ mail[d].stamp \in Nat
  BY <1>1, MailType
<1>3. ASSUME NEW d \in Delivery, ReadClock(d) \/ Verify(d) PROVE OnceInv'
  <2>1. /\ \A c \in Delivery \ {d} : pc'[c] = pc[c] /\ now'[c] = now[c]
        /\ pc[d] \in {"sent", "verify"} /\ pc'[d] \in Deciding \cup {"expired", "forged"}
        /\ pc'[d] \in Deciding => /\ mail[d].stamp <= now'[d] + Window
                                 /\ now'[d] <= mail[d].stamp + Window
        /\ mail' = mail /\ used' = used
    <3>1. CASE ReadClock(d)
      BY <1>1, <1>2, <3>1 DEF ReadClock, Deciding
    <3>2. CASE Verify(d)
      BY <1>1, <3>2 DEF Verify, Deciding, OnceInv, DecidingInTime
    <3> QED
      BY <1>3, <3>1, <3>2
  <2>2. \A c \in Delivery : Overtaken(c) => Overtaken(c)'
    BY <2>1, OvertakenStays
  <2>3. DecidingInTime'
    BY <2>1 DEF OnceInv, DecidingInTime
  <2>4. \A c \in Delivery : pc'[c] = "accepted" => pc[c] = "accepted"
    BY <2>1 DEF Deciding
  <2>5. AcceptedRemembered' /\ RepeatOnlyIfOvertaken'
    BY <2>1, <2>2, <2>4 DEF OnceInv, AcceptedRemembered, RepeatOnlyIfOvertaken
  <2> QED
    BY <1>0, <2>3, <2>5 DEF OnceInv
<1>5. ASSUME NEW d \in Delivery, UseNonce(d) PROVE OnceInv'
  <2> DEFINE n == mail[d].nonce
  <2>1. /\ \A c \in Delivery \ {d} : pc'[c] = pc[c]
        /\ pc[d] = "nonce" /\ pc'[d] \in {"replayed", "accepted"}
        /\ mail' = mail /\ now' = now
    BY <1>1, <1>5 DEF UseNonce
  <2>2. mail[d].stamp <= now[d] + Window /\ now[d] <= mail[d].stamp + Window
    BY <2>1 DEF OnceInv, DecidingInTime, Deciding
  <2>3. \A c \in Delivery : Overtaken(c) => Overtaken(c)'
    BY <2>1, OvertakenStays
  <2>4. \A k \in Nonce : used[k] # Unused => \/ Remembered(d)[k] = used[k]
                                             \/ used[k] + Retention < now[d]
    BY <1>1, RememberedType
  <2>5. \A c \in Delivery : now[d] > mail[c].stamp + Window => Overtaken(c)'
    BY <2>1 DEF Overtaken
  <2>6. \A c \in Delivery : (pc[c] = "accepted" /\ Remembered(d)[mail[c].nonce] = Unused)
                            => Overtaken(c) \/ Overtaken(c)'
    <3> SUFFICES ASSUME NEW c \in Delivery, pc[c] = "accepted", ~Overtaken(c),
                        Remembered(d)[mail[c].nonce] = Unused
                 PROVE  Overtaken(c)'
      OBVIOUS
    <3>1. /\ used[mail[c].nonce] # Unused
          /\ mail[c].stamp + Window <= used[mail[c].nonce] + Retention
      BY DEF OnceInv, AcceptedRemembered
    <3>2. used[mail[c].nonce] \in Nat /\ used[mail[c].nonce] + Retention < now[d]
      BY <1>1, <1>2, <2>4, <3>1
    <3> QED
      BY <1>1, <1>2, <2>5, <3>1, <3>2
  <2>7. DecidingInTime'
    BY <2>1 DEF OnceInv, DecidingInTime, Deciding
  <2>8. CASE pc'[d] = "replayed"
    <3>1. used' = Remembered(d)
      BY <1>1, <1>5, <2>8 DEF UseNonce
    <3>2. AcceptedRemembered'
      <4> SUFFICES ASSUME NEW c \in Delivery, pc[c] = "accepted", ~Overtaken(c)'
                   PROVE  /\ used'[mail[c].nonce] # Unused
                          /\ mail[c].stamp + Window <= used'[mail[c].nonce] + Retention
        BY <2>1, <2>8 DEF AcceptedRemembered
      <4>1. /\ used[mail[c].nonce] # Unused
            /\ mail[c].stamp + Window <= used[mail[c].nonce] + Retention
        BY <2>3 DEF OnceInv, AcceptedRemembered
      <4>2. used'[mail[c].nonce] = used[mail[c].nonce]
        <5>1. used'[mail[c].nonce] # Unused
          BY <2>3, <2>6, <3>1
        <5> QED
          BY <1>1, <1>2, <3>1, <5>1, RememberedType
      <4> QED
        BY <4>1, <4>2
    <3>3. RepeatOnlyIfOvertaken'
      BY <2>1, <2>3, <2>8 DEF OnceInv, RepeatOnlyIfOvertaken
    <3> QED
      BY <1>0, <2>7, <3>2, <3>3 DEF OnceInv
  <2>9. CASE pc'[d] = "accepted"
    <3>1. Remembered(d)[n] = Unused /\ used' = [Remembered(d) EXCEPT ![n] = now[d]]
      BY <1>1, <1>5, <2>9 DEF UseNonce
    <3>2. Remembered(d) \in [Nonce -> Nat \cup {Unused}] /\ n \in Nonce
      BY <1>1, <1>2, RememberedType
    <3>3. /\ used'[n] = now[d]
          /\ \A k \in Nonce \ {n} : used'[k] = Remembered(d)[k]
      BY <3>1, <3>2
    <3>4. AcceptedRemembered'
      <4> SUFFICES ASSUME NEW c \in Delivery, pc'[c] = "accepted", ~Overtaken(c)'
                   PROVE  /\ used'[mail[c].nonce] # Unused
                          /\ mail[c].stamp + Window <= used'[mail[c].nonce] + Retention
        BY <2>1 DEF AcceptedRemembered
      <4>1. CASE c = d
        BY <1>1, <1>2, <2>2, <3>3, <4>1
      <4>2. CASE c # d
        <5>1. pc[c] = "accepted"
          BY <2>1, <4>2
        <5>2. /\ used[mail[c].nonce] # Unused
              /\ mail[c].stamp + Window <= used[mail[c].nonce] + Retention
          BY <2>3, <5>1 DEF OnceInv, AcceptedRemembered
        <5>3. Remembered(d)[mail[c].nonce] # Unused
          BY <2>3, <2>6, <5>1
        <5>4. used'[mail[c].nonce] = used[mail[c].nonce]
          BY <1>1, <1>2, <3>1, <3>3, <5>3, RememberedType
        <5> QED
          BY <5>2, <5>4
      <4> QED
        BY <4>1, <4>2
    <3>5. \A c \in Delivery : pc[c] = "accepted" /\ mail[c].nonce = n => Overtaken(c)'
      BY <2>3, <2>6, <3>1
    <3>6. RepeatOnlyIfOvertaken'
      <4> SUFFICES ASSUME NEW a \in Delivery, NEW c \in Delivery, a # c, mail[a] = mail[c],
                          pc'[a] = "accepted", pc'[c] = "accepted"
                   PROVE  Overtaken(c)'
        BY <2>1 DEF RepeatOnlyIfOvertaken
      <4>1. Overtaken(a)' = Overtaken(c)'
        BY <2>1 DEF Overtaken
      <4>2. CASE a = d
        BY <2>1, <3>5, <4>2
      <4>3. CASE c = d
        BY <2>1, <3>5, <4>1, <4>3
      <4>4. CASE a # d /\ c # d
        BY <2>1, <2>3, <4>4 DEF OnceInv, RepeatOnlyIfOvertaken
      <4> QED
        BY <4>2, <4>3, <4>4
    <3> QED
      BY <1>0, <2>7, <3>4, <3>6 DEF OnceInv
  <2> QED
    BY <2>1, <2>8, <2>9
<1>6. CASE Tick \/ Terminating \/ UNCHANGED vars
  <2>1. UNCHANGED <<mail, pc, now, used>>
    BY <1>6 DEF Tick, Terminating, vars
  <2> QED
    BY <1>0, <2>1 DEF OnceInv, DecidingInTime, AcceptedRemembered, RepeatOnlyIfOvertaken, Overtaken
<1> QED
  BY <1>3, <1>5, <1>6 DEF Next

-----------------------------------------------------------------------------
(* The inductive invariant of the nonces (authorizeHash, useNonce): a        *)
(* handler decides on a message that was in time by its reading of the       *)
(* clock, and an accepted nonce is remembered until a handler goes through   *)
(* the table for which its message has expired.                              *)
THEOREM NoncesRemembered ==
    ASSUME Retention >= 2 * Window
    PROVE  Spec => []OnceInv
<1>1. OnceInv /\ [Next]_vars => OnceInv'
  BY NextOnceInv
<1> QED
  BY InitOnceInv, <1>1, PTL DEF Spec

(* A signed message takes effect again only if a handler that read the clock *)
(* later, past the age of the message, overtook the second delivery on the   *)
(* way from the clock to the table of nonces (server.go:481, 501).  Handlers *)
(* may lag behind the clock by any time; nonces are remembered for twice the *)
(* window, as in the code.                                                   *)
THEOREM RepeatsAreOvertaken ==
    ASSUME Retention >= 2 * Window
    PROVE  Spec => []RepeatOnlyIfOvertaken
<1>1. OnceInv => RepeatOnlyIfOvertaken
  BY DEF OnceInv
<1> QED
  BY NoncesRemembered, <1>1, PTL

-----------------------------------------------------------------------------
(* What is in the table was put there by an accepted delivery, and stays so. *)
LEMMA NextUsedWasAccepted ==
    ASSUME TypeOK, UsedWasAccepted, NoFalseReplay, [Next]_vars
    PROVE  (UsedWasAccepted /\ NoFalseReplay)'
<1>1. /\ mail \in Mailing /\ DOMAIN pc = Delivery
      /\ used \in [Nonce -> Nat \cup {Unused}]
      /\ \A d \in Delivery : mail[d].nonce \in Nonce
  BY MailType DEF TypeOK
<1>2. ASSUME NEW d \in Delivery, ReadClock(d) \/ Verify(d)
      PROVE  (UsedWasAccepted /\ NoFalseReplay)'
  <2>1. /\ \A c \in Delivery \ {d} : pc'[c] = pc[c]
        /\ pc[d] # "accepted" /\ pc'[d] # "replayed"
        /\ mail' = mail /\ used' = used
    BY <1>1, <1>2 DEF ReadClock, Verify
  <2> QED
    BY <2>1 DEF UsedWasAccepted, NoFalseReplay
<1>3. ASSUME NEW d \in Delivery, UseNonce(d)
      PROVE  (UsedWasAccepted /\ NoFalseReplay)'
  <2>1. /\ \A c \in Delivery \ {d} : pc'[c] = pc[c]
        /\ pc[d] = "nonce"
        /\ mail' = mail
    BY <1>1, <1>3 DEF UseNonce
  <2>2. \A c \in Delivery : pc[c] = "accepted" => pc'[c] = "accepted"
    BY <2>1
  <2>3. \A n \in Nonce : used'[n] # Unused =>
           used[n] # Unused \/ (pc'[d] = "accepted" /\ mail[d].nonce = n)
    BY <1>1, <1>3, RememberedType DEF UseNonce
  <2>4. UsedWasAccepted'
    BY <2>1, <2>2, <2>3 DEF UsedWasAccepted
  <2>5. pc'[d] = "replayed" => used[mail[d].nonce] # Unused
    BY <1>1, <1>3, RememberedType DEF UseNonce
  <2> QED
    BY <1>1, <2>1, <2>2, <2>4, <2>5 DEF UsedWasAccepted, NoFalseReplay
<1>4. CASE Tick \/ Terminating \/ UNCHANGED vars
  BY <1>4 DEF Tick, Terminating, vars, UsedWasAccepted, NoFalseReplay
<1> QED
  BY <1>2, <1>3, <1>4 DEF Next

(* A delivery is turned away as a repetition only after its message has been *)
(* accepted: useNonce comes after the signature check, so a damaged copy     *)
(* does not use up the nonce.  No condition on Retention is needed.          *)
THEOREM RejectsOnlyRepetitions == Spec => []NoFalseReplay
<1>1. Init => TypeOK /\ UsedWasAccepted /\ NoFalseReplay
  BY DEF Init, TypeOK, UsedWasAccepted, NoFalseReplay
<1>2. TypeOK /\ UsedWasAccepted /\ NoFalseReplay /\ [Next]_vars
      => (TypeOK /\ UsedWasAccepted /\ NoFalseReplay)'
  BY NextTypeOK, NextUsedWasAccepted
<1> QED
  BY <1>1, <1>2, PTL DEF Spec

=============================================================================
