---------------------------- MODULE PasskeysProofs ----------------------------
(***************************************************************************)
(* That a passkey ceremony serves once, that a stored counter never goes   *)
(* back, and that a start is refused only when the table is full, for any  *)
(* number of threads, passkeys and ceremonies, any limits and any schedule.*)
(*                                                                         *)
(* A ceremony is in one place: pending in the table, held by the thread    *)
(* that took it, or used up.  A counter is written by the thread that read *)
(* the very row it replaces.                                               *)
(***************************************************************************)
EXTENDS Passkeys, FiniteSetTheorems, TLAPS

\* The time each prover may take for a step.
USE ZenonT(60), SMTT(60)

Answers == [ceremony : CeremonyId, passkey : Passkey, counter : Nat]
Counters == UNION {[known -> Nat] : known \in SUBSET Passkey}

Calls ==
    [pc : {"idle"}]
      \union [pc : {"registering"}, now : Nat, session : SessionId]
      \union [pc : {"taking", "adding"}, now : Nat, session : SessionId,
              ceremony : CeremonyId, passkey : Passkey]
      \union [pc : {"listing"}, now : Nat]
      \union [pc : {"challenging"}, now : Nat, known : Counters]
      \union [pc : {"answered", "asserted"}, now : Nat, answer : Answers]
      \union [pc : {"login"}, now : Nat, answer : Answers,
              seen : OwnerAuthenticatorRecord, counter : Nat]

PasskeysTyped ==
    /\ clock \in Nat /\ begun \in Nat
    /\ ceremonies = [c \in CeremonyId |-> ceremonies[c]]
    /\ served \in [CeremonyId -> Nat]
    /\ passkeys \in [Passkey -> OwnerAuthenticatorRecord \union {None}]
    /\ device \in [Passkey -> Nat]
    /\ answers \subseteq Answers
    /\ call \in [Thread -> Calls]

\* The thread has taken the ceremony from the table.
Holds(t, c) ==
    \/ call[t].pc = "adding" /\ call[t].ceremony = c
    \/ call[t].pc \in {"asserted", "login"} /\ call[t].answer.ceremony = c

\* A ceremony that is not begun is nowhere.
NotBegun ==
    /\ \A c \in CeremonyId : c > begun => ceremonies[c] = None /\ served[c] = 0
    /\ \A a \in answers : a.ceremony <= begun

\* One that is pending was not taken, and one that was taken is with one thread
\* and has not served.
InOnePlace ==
    /\ \A c \in CeremonyId : ceremonies[c] # None =>
          served[c] = 0 /\ \A t \in Thread : ~Holds(t, c)
    /\ \A t \in Thread, c \in CeremonyId : Holds(t, c) =>
          /\ served[c] = 0 /\ c <= begun /\ ceremonies[c] = None
          /\ \A u \in Thread : Holds(u, c) => u = t

\* The passkeys a ceremony keeps are registered, and so is the one that answered.
KnownAreRegistered ==
    /\ \A c \in CeremonyId : ceremonies[c] # None =>
          /\ ceremonies[c].kind = "authentication" =>
                ceremonies[c].known \in Counters /\ DOMAIN ceremonies[c].known \subseteq Registered
          /\ (\E a \in answers : a.ceremony = c) => ceremonies[c].kind = "authentication"
    /\ \A t \in Thread :
          /\ call[t].pc = "challenging" => DOMAIN call[t].known \subseteq Registered
          /\ call[t].pc = "answered" => call[t].answer \in answers
          /\ call[t].pc \in {"asserted", "login"} => call[t].answer.passkey \in Registered

\* A login writes a counter no lower than the one of the row it read.
LoginRaises ==
    \A t \in Thread : call[t].pc = "login" => call[t].counter >= call[t].seen.counter

PInv ==
    /\ PasskeysTyped /\ NotBegun /\ InOnePlace /\ KnownAreRegistered /\ LoginRaises
    /\ CeremonyServesOnce

-----------------------------------------------------------------------------
\* The initial state: no ceremony, no passkey, no request.
LEMMA InitPInv == Init => PInv
  <1> SUFFICES ASSUME Init PROVE PInv
    OBVIOUS
  <1>1. PasskeysTyped
    <2>1. call \in [Thread -> Calls]
      BY DEF Init, Idle, Calls
    <2> QED
      BY <2>1 DEF Init, PasskeysTyped
  <1>2. \A t \in Thread : call[t].pc = "idle"
    BY DEF Init, Idle
  <1>3. NotBegun /\ InOnePlace
    BY <1>2 DEF Init, NotBegun, InOnePlace, Holds, CeremonyId
  <1>4. KnownAreRegistered /\ LoginRaises
    BY <1>2 DEF Init, KnownAreRegistered, LoginRaises
  <1> QED
    BY <1>1, <1>3, <1>4, SMTT(60) DEF Init, PInv, CeremonyServesOnce

\* What a thread does keeps the invariant when the table only loses ceremonies, the
\* passkeys stay registered, and the thread holds nothing it did not hold before.
Quiet(t, next) ==
    /\ call' = [call EXCEPT ![t] = next] /\ next \in Calls
    /\ next.pc \notin {"adding", "asserted", "login"}
    /\ next.pc = "challenging" => DOMAIN next.known \subseteq Registered
    /\ next.pc = "answered" => next.answer \in answers
    /\ UNCHANGED <<clock, passkeys, begun, browser, served>>

\* The table lost some of its ceremonies.
Shrinks ==
    /\ ceremonies' = [c \in CeremonyId |-> ceremonies'[c]]
    /\ \A c \in CeremonyId : ceremonies'[c] \in {ceremonies[c], None}

\* Such a step keeps the invariant.
LEMMA QuietStep ==
    ASSUME PInv, NEW t \in Thread, NEW next, Quiet(t, next), Shrinks
    PROVE  PInv'
  <1>1. PasskeysTyped'
    BY DEF PInv, PasskeysTyped, Quiet, Shrinks, browser
  <1>2. \A u \in Thread : call'[u] = IF u = t THEN next ELSE call[u]
    BY DEF PInv, PasskeysTyped, Quiet
  <1>3. \A u \in Thread, c \in CeremonyId : Holds(u, c)' => Holds(u, c) /\ u # t
    BY <1>2 DEF Holds, Quiet
  <1>4. NotBegun'
    BY DEF PInv, NotBegun, Quiet, Shrinks, browser
  <1>5. InOnePlace'
    <2>1. begun' = begun /\ served' = served
      BY DEF Quiet
    <2>2. \A c \in CeremonyId : ceremonies'[c] # None => ceremonies'[c] = ceremonies[c]
      BY DEF Shrinks
    <2>3. \A c \in CeremonyId : ceremonies[c] = None => ceremonies'[c] = None
      BY DEF Shrinks
    <2> QED
      BY <1>3, <2>1, <2>2, <2>3 DEF PInv, InOnePlace
  <1>6. KnownAreRegistered'
    <2>1. Registered' = Registered /\ answers' = answers
      BY DEF Quiet, Registered, browser
    <2>2. \A c \in CeremonyId : ceremonies'[c] # None => ceremonies'[c] = ceremonies[c]
      BY DEF Shrinks
    <2>3. next.pc \notin {"asserted", "login"}
      BY DEF Quiet
    <2> QED
      BY <1>2, <2>1, <2>2, <2>3, SMTT(60) DEF PInv, KnownAreRegistered, Quiet
  <1>7. LoginRaises'
    BY <1>2 DEF PInv, LoginRaises, Quiet
  <1> QED
    BY <1>1, <1>4, <1>5, <1>6, <1>7 DEF PInv, CeremonyServesOnce, Quiet

\* The table as it was.
LEMMA SameTable ==
    ASSUME PInv, UNCHANGED ceremonies
    PROVE  Shrinks
  BY DEF PInv, PasskeysTyped, Shrinks

\* A thread between two requests.
LEMMA IdleIsACall == Idle \in Calls /\ Idle.pc = "idle"
  BY DEF Idle, Calls

\* A handler that only answers, from a state it was in, changes nothing else.
LEMMA Returning ==
    ASSUME PInv, NEW t \in Thread, Return(t), Shrinks,
           UNCHANGED <<clock, passkeys, begun, browser, served>>
    PROVE  PInv'
  <1>1. Quiet(t, Idle)
    BY IdleIsACall DEF Quiet, Return, Goto
  <1> QED
    BY <1>1, QuietStep

\* The requests as they arrive, and those that fail.
LEMMA Requests ==
    ASSUME PInv, NEW t \in Thread,
           \/ \E s \in SessionId :
                \/ start_passkey_registration(t, s)
                \/ \E c \in CeremonyId, p \in Passkey : finish_passkey_registration(t, s, c, p)
           \/ start_passkey_authentication(t)
           \/ \E a \in answers : finish_passkey_authentication(t, a)
           \/ fail(t)
    PROVE  PInv'
  <1> clock \in Nat /\ answers \subseteq Answers
    BY DEF PInv, PasskeysTyped
  <1>1. ASSUME NEW s \in SessionId, start_passkey_registration(t, s) PROVE PInv'
    <2> DEFINE next == [pc |-> "registering", now |-> clock, session |-> s]
    <2>1. next \in Calls /\ next.pc = "registering"
      BY DEF Calls
    <2> HIDE DEF next
    <2>2. call' = [call EXCEPT ![t] = next] /\ UNCHANGED <<clock, passkeys, begun, browser, served, ceremonies>>
      BY <1>1 DEF start_passkey_registration, enter, Goto, next
    <2>3. Quiet(t, next)
      BY <2>1, <2>2 DEF Quiet
    <2> QED
      BY <2>2, <2>3, QuietStep, SameTable
  <1>2. ASSUME NEW s \in SessionId, NEW c \in CeremonyId, NEW p \in Passkey,
               finish_passkey_registration(t, s, c, p)
        PROVE  PInv'
    <2> DEFINE next == [pc |-> "taking", now |-> clock, session |-> s, ceremony |-> c, passkey |-> p]
    <2>1. next \in Calls /\ next.pc = "taking"
      BY DEF Calls
    <2> HIDE DEF next
    <2>2. call' = [call EXCEPT ![t] = next] /\ UNCHANGED <<clock, passkeys, begun, browser, served, ceremonies>>
      BY <1>2 DEF finish_passkey_registration, enter, Goto, next
    <2>3. Quiet(t, next)
      BY <2>1, <2>2 DEF Quiet
    <2> QED
      BY <2>2, <2>3, QuietStep, SameTable
  <1>3. ASSUME start_passkey_authentication(t) PROVE PInv'
    <2> DEFINE next == [pc |-> "listing", now |-> clock]
    <2>1. next \in Calls /\ next.pc = "listing"
      BY DEF Calls
    <2> HIDE DEF next
    <2>2. call' = [call EXCEPT ![t] = next] /\ UNCHANGED <<clock, passkeys, begun, browser, served, ceremonies>>
      BY <1>3 DEF start_passkey_authentication, Goto, next
    <2>3. Quiet(t, next)
      BY <2>1, <2>2 DEF Quiet
    <2> QED
      BY <2>2, <2>3, QuietStep, SameTable
  <1>4. ASSUME NEW a \in answers, finish_passkey_authentication(t, a) PROVE PInv'
    <2> DEFINE next == [pc |-> "answered", now |-> clock, answer |-> a]
    <2>1. next \in Calls /\ next.pc = "answered" /\ next.answer = a
      BY DEF Calls
    <2> HIDE DEF next
    <2>2. call' = [call EXCEPT ![t] = next] /\ UNCHANGED <<clock, passkeys, begun, browser, served, ceremonies>>
      BY <1>4 DEF finish_passkey_authentication, Goto, next
    <2>3. Quiet(t, next)
      BY <2>1, <2>2 DEF Quiet
    <2> QED
      BY <2>2, <2>3, QuietStep, SameTable
  <1>5. ASSUME fail(t) PROVE PInv'
    BY <1>5, SameTable, Returning DEF fail
  <1> QED
    BY <1>1, <1>2, <1>3, <1>4, <1>5

\* The passkeys a login may use are listed.
LEMMA Listing ==
    ASSUME PInv, NEW t \in Thread, owner_authenticators(t)
    PROVE  PInv'
  <1>1. CASE Registered = {}
    BY <1>1, SameTable, Returning DEF owner_authenticators
  <1>2. CASE Registered # {}
    <2> DEFINE known == [p \in Registered |-> passkeys[p].counter]
               next == [pc |-> "challenging", now |-> call[t].now, known |-> known]
    <2>1. call[t].now \in Nat
      BY DEF PInv, PasskeysTyped, Calls, owner_authenticators
    <2>2. \A p \in Registered : passkeys[p].counter \in Nat
      BY DEF PInv, PasskeysTyped, Registered, OwnerAuthenticatorRecord
    <2>3. known \in [Registered -> Nat] /\ Registered \in SUBSET Passkey
      BY <2>2 DEF Registered
    <2>4. known \in Counters /\ DOMAIN known = Registered
      BY <2>3 DEF Counters
    <2> HIDE DEF known
    <2>5. next \in Calls /\ next.pc = "challenging" /\ next.known = known
      BY <2>1, <2>4 DEF Calls
    <2> HIDE DEF next
    <2>6. call' = [call EXCEPT ![t] = next] /\ UNCHANGED <<clock, passkeys, begun, browser, served, ceremonies>>
      BY <1>2 DEF owner_authenticators, Goto, next, known
    <2>7. Quiet(t, next)
      BY <2>4, <2>5, <2>6 DEF Quiet
    <2> QED
      BY <2>6, <2>7, QuietStep, SameTable
  <1> QED
    BY <1>1, <1>2

\* A start stores its ceremony under a number nobody has heard of, or only sweeps.
LEMMA Inserting ==
    ASSUME PInv, NEW t \in Thread, NEW ceremony, insert_ceremony(t, ceremony),
           ceremony.kind = "authentication" =>
              ceremony.known \in Counters /\ DOMAIN ceremony.known \subseteq Registered
    PROVE  PInv'
  <1> DEFINE table == cleanup(call[t].now)
  <1>1. /\ table = [c \in CeremonyId |-> table[c]]
        /\ \A c \in CeremonyId : table[c] \in {ceremonies[c], None}
    BY DEF cleanup
  <1> HIDE DEF table
  <1>2. CASE ceremonies' = table /\ UNCHANGED begun
    <2>1. Shrinks
      BY <1>1, <1>2 DEF Shrinks
    <2> QED
      BY <1>2, <2>1, Returning DEF insert_ceremony
  <1>3. CASE begun' = begun + 1 /\ ceremonies' = [table EXCEPT ![begun'] = ceremony]
    <2>1. begun \in Nat /\ begun' \in CeremonyId /\ begun' > begun
      BY <1>3, PasskeyAssumption, SMTT(60) DEF PInv, PasskeysTyped, insert_ceremony, CeremonyId
    <2>2. \A c \in CeremonyId : ceremonies'[c] = IF c = begun' THEN ceremony ELSE table[c]
      BY <1>1, <1>3, <2>1
    <2>3. \A u \in Thread : call'[u] = IF u = t THEN Idle ELSE call[u]
      BY DEF PInv, PasskeysTyped, insert_ceremony, Return, Goto
    <2>4. \A u \in Thread, c \in CeremonyId : Holds(u, c)' => Holds(u, c) /\ c # begun'
      <3>1. \A u \in Thread, c \in CeremonyId : Holds(u, c)' => Holds(u, c)
        BY <2>3, IdleIsACall DEF Holds
      <3> QED
        BY <3>1, <2>1, SMTT(60) DEF PInv, InOnePlace, CeremonyId
    <2>5. UNCHANGED <<clock, sessions, passkeys, browser, served>>
      BY DEF insert_ceremony
    <2>6. PasskeysTyped'
      <3>1. ceremonies' = [c \in CeremonyId |-> ceremonies'[c]]
        BY <1>1, <1>3, <2>1
      <3>2. call' \in [Thread -> Calls]
        BY IdleIsACall DEF PInv, PasskeysTyped, insert_ceremony, Return, Goto
      <3> QED
        BY <3>1, <3>2, <2>1, <2>5, <1>3, SMTT(60) DEF PInv, PasskeysTyped, browser
    <2>7. NotBegun'
      <3>1. \A c \in CeremonyId : c > begun' => c > begun /\ c # begun'
        BY <2>1, SMTT(60) DEF CeremonyId
      <3>2. \A a \in answers : a.ceremony \in CeremonyId
        BY DEF PInv, PasskeysTyped, Answers
      <3>3. \A a \in answers : a.ceremony <= begun'
        BY <3>2, <2>1, SMTT(60) DEF PInv, NotBegun, CeremonyId
      <3> QED
        BY <3>1, <3>3, <1>1, <2>2, <2>5 DEF PInv, NotBegun, browser
    <2>8. InOnePlace'
      <3>1. served[begun'] = 0
        BY <2>1 DEF PInv, NotBegun
      <3>2. \A c \in CeremonyId : c <= begun => c <= begun'
        BY <2>1, SMTT(60) DEF CeremonyId
      <3> QED
        BY <3>1, <3>2, <1>1, <2>2, <2>4, <2>5, SMTT(60) DEF PInv, InOnePlace
    <2>9. KnownAreRegistered'
      <3>1. Registered' = Registered /\ answers' = answers
        BY <2>5 DEF Registered, browser
      <3>2. \A a \in answers : a.ceremony # begun'
        <4>1. \A a \in answers : a.ceremony \in CeremonyId /\ a.ceremony <= begun
          BY DEF PInv, PasskeysTyped, NotBegun, Answers
        <4> QED
          BY <4>1, <2>1, SMTT(60) DEF CeremonyId
      <3> QED
        BY <3>1, <3>2, <1>1, <2>2, <2>3, IdleIsACall, SMTT(60) DEF PInv, KnownAreRegistered
    <2>10. LoginRaises'
      BY <2>3, IdleIsACall DEF PInv, LoginRaises
    <2> QED
      BY <2>5, <2>6, <2>7, <2>8, <2>9, <2>10 DEF PInv, CeremonyServesOnce
  <1> QED
    BY <1>2, <1>3 DEF insert_ceremony, table

\* Both starts store a ceremony of the kind they say; a login keeps the passkeys it listed.
LEMMA Starting ==
    ASSUME PInv, NEW t \in Thread, start_registration(t) \/ start_authentication(t)
    PROVE  PInv'
  <1>1. CASE start_registration(t)
    <2> DEFINE ceremony == Ceremony("registration", call[t].now, call[t].session, None)
    <2>1. ceremony.kind # "authentication"
      BY DEF Ceremony
    <2> HIDE DEF ceremony
    <2>2. insert_ceremony(t, ceremony)
      BY <1>1 DEF start_registration, ceremony
    <2> QED
      BY <2>1, <2>2, Inserting
  <1>2. CASE start_authentication(t)
    <2> DEFINE ceremony == Ceremony("authentication", call[t].now, None, call[t].known)
    <2>1. ceremony.known = call[t].known
      BY DEF Ceremony
    <2>2. call[t].known \in Counters
      BY <1>2 DEF PInv, PasskeysTyped, Calls, start_authentication
    <2>3. DOMAIN call[t].known \subseteq Registered
      BY <1>2 DEF PInv, KnownAreRegistered, start_authentication
    <2> HIDE DEF ceremony
    <2>4. insert_ceremony(t, ceremony)
      BY <1>2 DEF start_authentication, ceremony
    <2> QED
      BY <2>1, <2>2, <2>3, <2>4, Inserting
  <1> QED
    BY <1>1, <1>2

\* A taken ceremony leaves the table for one thread.
LEMMA Taken ==
    ASSUME PInv, NEW t \in Thread, NEW c \in CeremonyId, NEW next \in Calls,
           ceremonies[c] # None, ceremonies' = Take(c),
           call' = [call EXCEPT ![t] = next],
           \/ next.pc = "adding" /\ next.ceremony = c
           \/ next.pc = "asserted" /\ next.answer.ceremony = c /\ next.answer.passkey \in Registered,
           UNCHANGED <<clock, passkeys, begun, browser, served>>
    PROVE  PInv'
  <1>1. PasskeysTyped'
    BY DEF PInv, PasskeysTyped, Take, browser
  <1>2. \A u \in Thread : call'[u] = IF u = t THEN next ELSE call[u]
    BY DEF PInv, PasskeysTyped
  <1>3. \A d \in CeremonyId : ceremonies'[d] = IF d = c THEN None ELSE ceremonies[d]
    BY DEF PInv, PasskeysTyped, Take
  <1>4. \A u \in Thread, d \in CeremonyId :
           Holds(u, d)' => (u = t /\ d = c) \/ (u # t /\ Holds(u, d))
    BY <1>2, SMTT(60) DEF Holds
  <1>5. NotBegun'
    BY <1>3 DEF PInv, NotBegun, browser
  <1>6. InOnePlace'
    <2>1. c <= begun
      BY SMTT(60) DEF PInv, NotBegun, PasskeysTyped, CeremonyId
    <2>2. served[c] = 0 /\ \A u \in Thread : ~Holds(u, c)
      BY DEF PInv, InOnePlace
    <2>3. \A d \in CeremonyId : ceremonies'[d] # None => d # c /\ ceremonies[d] # None
      BY <1>3
    <2>4. \A d \in CeremonyId : ceremonies'[d] # None =>
             served'[d] = 0 /\ \A u \in Thread : ~Holds(u, d)'
      BY <1>4, <2>3 DEF PInv, InOnePlace
    <2>5. ASSUME NEW u \in Thread, NEW d \in CeremonyId, Holds(u, d)'
          PROVE  /\ served'[d] = 0 /\ d <= begun' /\ ceremonies'[d] = None
                 /\ \A v \in Thread : Holds(v, d)' => v = u
      <3>1. CASE d = c
        BY <3>1, <1>3, <1>4, <2>1, <2>2, <2>5
      <3>2. CASE d # c
        BY <3>2, <1>3, <1>4, <2>5 DEF PInv, InOnePlace
      <3> QED
        BY <3>1, <3>2
    <2> QED
      BY <2>4, <2>5 DEF InOnePlace
  <1>7. KnownAreRegistered'
    <2>1. Registered' = Registered /\ answers' = answers
      BY DEF Registered, browser
    <2> QED
      BY <1>2, <1>3, <2>1, SMTT(60) DEF PInv, KnownAreRegistered
  <1>8. LoginRaises'
    BY <1>2 DEF PInv, LoginRaises
  <1> QED
    BY <1>1, <1>5, <1>6, <1>7, <1>8 DEF PInv, CeremonyServesOnce

\* What is lost from the table when a ceremony is taken.
LEMMA TakeShrinks ==
    ASSUME PInv, NEW c \in CeremonyId, ceremonies' = Take(c)
    PROVE  Shrinks
  BY DEF PInv, PasskeysTyped, Shrinks, Take

\* take_registration: the ceremony is gone from the table whether or not it is in time.
LEMMA TakingRegistration ==
    ASSUME PInv, NEW t \in Thread, take_registration(t)
    PROVE  PInv'
  <1> DEFINE c == call[t].ceremony
  <1>0. call[t] \in Calls /\ call[t].pc = "taking"
    BY DEF PInv, PasskeysTyped, take_registration
  <1>1. call[t] \in [pc : {"taking", "adding"}, now : Nat, session : SessionId,
                     ceremony : CeremonyId, passkey : Passkey]
    BY <1>0 DEF Calls
  <1>2. c \in CeremonyId
    BY <1>1
  <1>3. CASE UNCHANGED ceremonies /\ Return(t)
    BY <1>3, SameTable, Returning DEF take_registration
  <1>4. CASE ceremonies' = Take(c) /\ Return(t)
    BY <1>2, <1>4, TakeShrinks, Returning DEF take_registration
  <1>5. CASE ceremonies[c] # None /\ ceremonies' = Take(c) /\ Step(t, "adding")
    <2> DEFINE next == [call[t] EXCEPT !.pc = "adding"]
    <2>1. next.pc = "adding" /\ next.ceremony = c
      BY <1>1
    <2>2. next \in Calls
      BY <1>1 DEF Calls
    <2> HIDE DEF next, c
    <2>3. call' = [call EXCEPT ![t] = next]
      BY <1>5 DEF Step, Goto, next
    <2> QED
      BY <1>2, <1>5, <2>1, <2>2, <2>3, Taken DEF take_registration
  <1> QED
    BY <1>3, <1>4, <1>5 DEF take_registration

\* take_authentication: only an answer of a passkey the ceremony keeps goes on.
LEMMA TakingAuthentication ==
    ASSUME PInv, NEW t \in Thread, take_authentication(t)
    PROVE  PInv'
  <1> DEFINE c == call[t].answer.ceremony
  <1>0. call[t] \in Calls /\ call[t].pc = "answered"
    BY DEF PInv, PasskeysTyped, take_authentication
  <1>1. call[t] \in [pc : {"answered", "asserted"}, now : Nat, answer : Answers]
    BY <1>0 DEF Calls
  <1>2. call[t].answer \in answers /\ c \in CeremonyId
    BY <1>0, <1>1 DEF PInv, KnownAreRegistered, Answers
  <1>3. CASE UNCHANGED ceremonies /\ Return(t)
    BY <1>3, SameTable, Returning DEF take_authentication
  <1>4. CASE ceremonies' = Take(c) /\ Return(t)
    BY <1>2, <1>4, TakeShrinks, Returning DEF take_authentication
  <1>5. CASE /\ ceremonies[c] # None /\ ceremonies' = Take(c) /\ Step(t, "asserted")
             /\ assertion_valid(c, call[t].answer)
    <2> DEFINE next == [call[t] EXCEPT !.pc = "asserted"]
    <2>1. next.pc = "asserted" /\ next.answer = call[t].answer
      BY <1>1
    <2>2. next \in Calls
      BY <1>1 DEF Calls
    <2>3. call[t].answer.passkey \in Registered
      <3>1. ceremonies[c].kind = "authentication"
        BY <1>2, <1>5 DEF PInv, KnownAreRegistered
      <3>2. DOMAIN ceremonies[c].known \subseteq Registered
        BY <3>1, <1>2, <1>5 DEF PInv, KnownAreRegistered
      <3> QED
        BY <3>2, <1>5 DEF assertion_valid
    <2> HIDE DEF next
    <2>4. call' = [call EXCEPT ![t] = next]
      BY <1>5 DEF Step, Goto, next
    <2>5. next.answer.ceremony = c /\ next.answer.passkey \in Registered
      BY <2>1, <2>3
    <2> HIDE DEF c
    <2> QED
      BY <1>2, <1>5, <2>1, <2>2, <2>4, <2>5, Taken DEF take_authentication
  <1> QED
    BY <1>3, <1>4, <1>5 DEF take_authentication

\* The login that read a row of a registered passkey writes no lower counter.
LEMMA Reading ==
    ASSUME PInv, NEW t \in Thread, finish_authentication(t)
    PROVE  PInv'
  <1> DEFINE p == call[t].answer.passkey
             row == passkeys[p]
             counter == IF call[t].answer.counter > row.counter
                        THEN call[t].answer.counter ELSE row.counter
             next == [pc |-> "login", now |-> call[t].now, answer |-> call[t].answer,
                      seen |-> row, counter |-> counter]
  <1>0. call[t] \in Calls /\ call[t].pc = "asserted"
    BY DEF PInv, PasskeysTyped, finish_authentication
  <1>1. call[t] \in [pc : {"answered", "asserted"}, now : Nat, answer : Answers]
    BY <1>0 DEF Calls
  <1>2. call[t].answer \in Answers /\ call[t].now \in Nat
    BY <1>1
  <1>3. p \in Registered
    BY <1>0 DEF PInv, KnownAreRegistered
  <1>4. row \in OwnerAuthenticatorRecord
    BY <1>3 DEF PInv, PasskeysTyped, Registered
  <1>5. counter \in Nat /\ counter >= row.counter
    BY <1>2, <1>4, SMTT(60) DEF Answers, OwnerAuthenticatorRecord
  <1>6. CASE Return(t)
    BY <1>6, SameTable, Returning DEF finish_authentication
  <1>7. CASE Goto(t, next)
    <2> HIDE DEF counter, row
    <2>1. next \in Calls
      BY <1>2, <1>4, <1>5 DEF Calls
    <2>2. /\ next.pc = "login" /\ next.answer = call[t].answer
          /\ next.seen = row /\ next.counter = counter
      OBVIOUS
    <2> HIDE DEF next
    <2>3. UNCHANGED <<clock, passkeys, ceremonies, begun, browser, served>>
      BY DEF finish_authentication
    <2>4. \A u \in Thread : call'[u] = IF u = t THEN next ELSE call[u]
      BY <1>7 DEF PInv, PasskeysTyped, Goto
    <2>5. \A u \in Thread, c \in CeremonyId : Holds(u, c)' => Holds(u, c)
      BY <1>0, <2>2, <2>4 DEF Holds
    <2>6. PasskeysTyped'
      BY <1>7, <2>1, <2>3 DEF PInv, PasskeysTyped, Goto, browser
    <2>7. NotBegun'
      BY <2>3 DEF PInv, NotBegun, browser
    <2>8. InOnePlace'
      BY <2>3, <2>5 DEF PInv, InOnePlace
    <2>9. KnownAreRegistered'
      <3>1. Registered' = Registered /\ answers' = answers
        BY <2>3 DEF Registered, browser
      <3> QED
        BY <1>3, <2>2, <2>3, <2>4, <3>1 DEF PInv, KnownAreRegistered
    <2>10. LoginRaises'
      BY <1>5, <2>2, <2>4 DEF PInv, LoginRaises
    <2> QED
      BY <2>3, <2>6, <2>7, <2>8, <2>9, <2>10 DEF PInv, CeremonyServesOnce
  <1> QED
    BY <1>6, <1>7 DEF finish_authentication

\* The thread that holds a ceremony writes a row and is done with the ceremony.
LEMMA Serving ==
    ASSUME PInv, NEW t \in Thread, NEW c \in CeremonyId, Holds(t, c), Return(t),
           NEW p \in Passkey, NEW row \in OwnerAuthenticatorRecord,
           passkeys' = [passkeys EXCEPT ![p] = row],
           served' = [served EXCEPT ![c] = @ + 1],
           UNCHANGED <<clock, ceremonies, begun, browser>>
    PROVE  PInv'
  <1>1. \A u \in Thread : call'[u] = IF u = t THEN Idle ELSE call[u]
    BY DEF PInv, PasskeysTyped, Return, Goto
  <1>2. \A u \in Thread, d \in CeremonyId : Holds(u, d)' => Holds(u, d) /\ u # t /\ d # c
    <2>1. \A u \in Thread, d \in CeremonyId : Holds(u, d)' => Holds(u, d) /\ u # t
      BY <1>1, IdleIsACall DEF Holds
    <2> QED
      BY <2>1 DEF PInv, InOnePlace
  <1>3. served[c] = 0 /\ c <= begun /\ ceremonies[c] = None
    BY DEF PInv, InOnePlace
  <1>4. \A d \in CeremonyId : served'[d] = IF d = c THEN 1 ELSE served[d]
    BY <1>3, SMTT(60) DEF PInv, PasskeysTyped
  <1>5. PasskeysTyped'
    <2>1. call' \in [Thread -> Calls]
      BY IdleIsACall DEF PInv, PasskeysTyped, Return, Goto
    <2>2. served' \in [CeremonyId -> Nat]
      BY SMTT(60) DEF PInv, PasskeysTyped
    <2>3. passkeys' \in [Passkey -> OwnerAuthenticatorRecord \union {None}]
      BY DEF PInv, PasskeysTyped
    <2> QED
      BY <2>1, <2>2, <2>3 DEF PInv, PasskeysTyped, browser
  <1>6. NotBegun'
    <2>1. \A d \in CeremonyId : d > begun => d # c
      BY <1>3, SMTT(60) DEF CeremonyId, PInv, PasskeysTyped
    <2> QED
      BY <2>1, <1>4 DEF PInv, NotBegun, browser
  <1>7. InOnePlace'
    BY <1>2, <1>3, <1>4, SMTT(60) DEF PInv, InOnePlace
  <1>8. KnownAreRegistered'
    <2>1. Registered \subseteq Registered'
      BY AbsenceAssumption DEF PInv, PasskeysTyped, Registered
    <2>2. answers' = answers
      BY DEF browser
    <2> QED
      BY <1>1, <2>1, <2>2, IdleIsACall DEF PInv, KnownAreRegistered
  <1>9. LoginRaises'
    BY <1>1, IdleIsACall DEF PInv, LoginRaises
  <1>10. CeremonyServesOnce'
    BY <1>4, SMTT(60) DEF PInv, CeremonyServesOnce
  <1> QED
    BY <1>5, <1>6, <1>7, <1>8, <1>9, <1>10 DEF PInv

\* A finished registration writes a new row, or finds the credential there already.
LEMMA Adding ==
    ASSUME PInv, NEW t \in Thread, finish_registration(t)
    PROVE  PInv'
  <1>0. call[t] \in Calls /\ call[t].pc = "adding"
    BY DEF PInv, PasskeysTyped, finish_registration
  <1>1. call[t] \in [pc : {"taking", "adding"}, now : Nat, session : SessionId,
                     ceremony : CeremonyId, passkey : Passkey]
    BY <1>0 DEF Calls
  <1>2. CASE UNCHANGED <<passkeys, served>>
    BY <1>2, SameTable, Returning DEF finish_registration
  <1>3. CASE /\ passkeys' = [passkeys EXCEPT ![call[t].passkey] =
                               [counter |-> 0, created |-> call[t].now, last_used |-> None]]
             /\ served' = [served EXCEPT ![call[t].ceremony] = @ + 1]
    <2> DEFINE row == [counter |-> 0, created |-> call[t].now, last_used |-> None]
    <2>1. row \in OwnerAuthenticatorRecord
      BY <1>1 DEF OwnerAuthenticatorRecord
    <2>2. Holds(t, call[t].ceremony) /\ call[t].ceremony \in CeremonyId /\ call[t].passkey \in Passkey
      BY <1>0, <1>1 DEF Holds
    <2>3. Return(t) /\ UNCHANGED <<clock, ceremonies, begun, browser>>
      BY DEF finish_registration
    <2>4. passkeys' = [passkeys EXCEPT ![call[t].passkey] = row]
      BY <1>3
    <2> HIDE DEF row
    <2> QED
      BY <1>3, <2>1, <2>2, <2>3, <2>4, Serving
  <1> QED
    BY <1>2, <1>3 DEF finish_registration

\* What a login writes: the row it read with a counter no lower.
LEMMA LoginRow ==
    ASSUME PInv, NEW t \in Thread, call[t].pc = "login",
           passkeys[call[t].answer.passkey] = call[t].seen
    PROVE  LET p == call[t].answer.passkey
               row == [call[t].seen EXCEPT !.counter = call[t].counter, !.last_used = call[t].now]
           IN /\ p \in Passkey /\ call[t].answer.ceremony \in CeremonyId
              /\ row \in OwnerAuthenticatorRecord
              /\ row.counter >= passkeys[p].counter
  <1>1. call[t] \in [pc : {"login"}, now : Nat, answer : Answers,
                     seen : OwnerAuthenticatorRecord, counter : Nat]
    BY DEF PInv, PasskeysTyped, Calls
  <1>2. /\ call[t].seen \in OwnerAuthenticatorRecord /\ call[t].counter \in Nat
        /\ call[t].now \in Nat /\ call[t].answer \in Answers
    BY <1>1
  <1>3. call[t].counter >= call[t].seen.counter
    BY DEF PInv, LoginRaises
  <1> DEFINE row == [call[t].seen EXCEPT !.counter = call[t].counter, !.last_used = call[t].now]
  <1>4. row \in OwnerAuthenticatorRecord /\ row.counter = call[t].counter
    BY <1>2 DEF OwnerAuthenticatorRecord
  <1> QED
    BY <1>2, <1>3, <1>4 DEF Answers

\* create_browser_session writes over the row that was read, or nothing.
LEMMA LoggingIn ==
    ASSUME PInv, NEW t \in Thread, create_browser_session(t)
    PROVE  PInv'
  <1> DEFINE p == call[t].answer.passkey
             row == [call[t].seen EXCEPT !.counter = call[t].counter, !.last_used = call[t].now]
  <1>0. call[t].pc = "login"
    BY DEF create_browser_session
  <1>1. CASE UNCHANGED <<passkeys, served>>
    BY <1>1, SameTable, Returning DEF create_browser_session
  <1>2. CASE /\ passkeys[p] = call[t].seen
             /\ passkeys' = [passkeys EXCEPT ![p].counter = call[t].counter,
                                             ![p].last_used = call[t].now]
             /\ served' = [served EXCEPT ![call[t].answer.ceremony] = @ + 1]
    <2>1. p \in Passkey /\ call[t].answer.ceremony \in CeremonyId /\ row \in OwnerAuthenticatorRecord
      BY <1>0, <1>2, LoginRow
    <2>2. passkeys' = [passkeys EXCEPT ![p] = row]
      BY <1>2, <2>1 DEF PInv, PasskeysTyped
    <2>3. Holds(t, call[t].answer.ceremony)
      BY <1>0 DEF Holds
    <2>4. Return(t) /\ UNCHANGED <<clock, ceremonies, begun, browser>>
      BY DEF create_browser_session
    <2> HIDE DEF row, p
    <2> QED
      BY <1>2, <2>1, <2>2, <2>3, <2>4, Serving
  <1> QED
    BY <1>1, <1>2 DEF create_browser_session, commitment_expected

\* Steps that change neither the table, the passkeys nor the requests.
LEMMA Apart ==
    ASSUME PInv, clock' \in Nat,
           UNCHANGED <<passkeys, ceremonies, begun, browser, call, served>>
    PROVE  PInv'
  <1>1. PasskeysTyped'
    BY DEF PInv, PasskeysTyped, browser
  <1>2. NotBegun' /\ InOnePlace'
    BY SMTT(60) DEF PInv, NotBegun, InOnePlace, Holds, browser
  <1>3. KnownAreRegistered' /\ LoginRaises'
    BY DEF PInv, KnownAreRegistered, LoginRaises, Registered, browser
  <1> QED
    BY <1>1, <1>2, <1>3 DEF PInv, CeremonyServesOnce

\* A device answers a ceremony that is pending, and so is begun.
LEMMA Signing ==
    ASSUME PInv, NEW p \in Passkey, NEW c \in CeremonyId, sign(p, c)
    PROVE  PInv'
  <1> DEFINE answer == [ceremony |-> c, passkey |-> p, counter |-> device[p] + 1]
  <1>1. UNCHANGED <<clock, passkeys, ceremonies, begun, call, served>>
    BY DEF sign
  <1>2. answer \in Answers /\ answer.ceremony = c
    BY SMTT(60) DEF PInv, PasskeysTyped, Answers
  <1> HIDE DEF answer
  <1>3. answers' = answers \union {answer}
    BY DEF sign, answer
  <1>4. PasskeysTyped'
    <2>1. device' \in [Passkey -> Nat]
      BY SMTT(60) DEF sign, PInv, PasskeysTyped
    <2> QED
      BY <2>1, <1>1, <1>2, <1>3 DEF PInv, PasskeysTyped
  <1>5. NotBegun'
    <2>1. c <= begun
      BY SMTT(60) DEF sign, PInv, NotBegun, PasskeysTyped, CeremonyId
    <2> QED
      BY <2>1, <1>1, <1>2, <1>3 DEF PInv, NotBegun
  <1>6. InOnePlace' /\ LoginRaises' /\ CeremonyServesOnce'
    BY <1>1, SMTT(60) DEF PInv, InOnePlace, Holds, LoginRaises, CeremonyServesOnce
  <1>7. KnownAreRegistered'
    <2>1. Registered' = Registered
      BY <1>1 DEF Registered
    <2>2. ceremonies[c].kind = "authentication"
      BY DEF sign
    <2> QED
      BY <1>1, <1>2, <1>3, <2>1, <2>2 DEF PInv, KnownAreRegistered
  <1> QED
    BY <1>4, <1>5, <1>6, <1>7 DEF PInv

\* A restart forgets the ceremonies and the requests, whoever held what.
LEMMA Restarting ==
    ASSUME PInv, restart
    PROVE  PInv'
  <1>1. \A t \in Thread : call'[t].pc = "idle"
    BY IdleIsACall DEF restart
  <1>2. \A c \in CeremonyId : ceremonies'[c] = None
    BY DEF restart
  <1>3. UNCHANGED <<clock, passkeys, begun, browser, served>>
    BY DEF restart
  <1>4. PasskeysTyped'
    <2>1. call' \in [Thread -> Calls]
      BY IdleIsACall DEF restart
    <2>2. ceremonies' = [c \in CeremonyId |-> ceremonies'[c]]
      BY DEF restart
    <2> QED
      BY <1>3, <2>1, <2>2 DEF PInv, PasskeysTyped, browser
  <1>5. NotBegun'
    BY <1>2, <1>3 DEF PInv, NotBegun, browser
  <1>6. InOnePlace' /\ KnownAreRegistered' /\ LoginRaises'
    BY <1>1, <1>2 DEF InOnePlace, Holds, KnownAreRegistered, LoginRaises
  <1> QED
    BY <1>3, <1>4, <1>5, <1>6 DEF PInv, CeremonyServesOnce

-----------------------------------------------------------------------------
\* The invariant is inductive: one case per action.
LEMMA NextPInv == PInv /\ [Next]_vars => PInv'
  <1> SUFFICES ASSUME PInv, [Next]_vars PROVE PInv'
    OBVIOUS
  <1>0. clock \in Nat
    BY DEF PInv, PasskeysTyped
  <1>1. CASE tick
    BY <1>0, <1>1, Apart, SMTT(60) DEF tick
  <1>2. CASE login_with_password
    BY <1>0, <1>2, Apart DEF login_with_password
  <1>3. CASE restart
    BY <1>3, Restarting
  <1>4. ASSUME NEW s \in SessionId, logout_browser_session(s) PROVE PInv'
    BY <1>0, <1>4, Apart DEF logout_browser_session
  <1>5. ASSUME NEW p \in Passkey, NEW c \in CeremonyId, sign(p, c) PROVE PInv'
    BY <1>5, Signing
  <1>6. ASSUME NEW t \in Thread, Registration(t) PROVE PInv'
    BY <1>6, Requests, Starting, TakingRegistration, Adding DEF Registration
  <1>7. ASSUME NEW t \in Thread, Authentication(t) PROVE PInv'
    BY <1>7, Requests, Listing, Starting, TakingAuthentication, Reading, LoggingIn
       DEF Authentication
  <1>8. ASSUME NEW t \in Thread, fail(t) PROVE PInv'
    BY <1>8, Requests
  <1>9. CASE UNCHANGED vars
    BY <1>0, <1>9, Apart DEF vars
  <1> QED
    BY <1>1, <1>2, <1>3, <1>4, <1>5, <1>6, <1>7, <1>8, <1>9 DEF Next

\* The invariant holds in every reachable state.
LEMMA PasskeysInvariant == Spec => []PInv
  BY InitPInv, NextPInv, PTL DEF Spec

\* A ceremony gives one session or one passkey: take_registration and
\* take_authentication remove it before anything is written for it, so of all the
\* requests that bring an answer one finds it, whatever their number and order.
THEOREM CeremoniesServeOnce == Spec => []CeremonyServesOnce
  <1>1. PInv => CeremonyServesOnce
    BY DEF PInv
  <1> QED
    BY <1>1, PasskeysInvariant, PTL

\* A row that is stored stays, and the step that replaces it raises its counter.
LEMMA CounterStep ==
    ASSUME PInv, [Next]_vars, NEW p \in Passkey, passkeys[p] # None
    PROVE  passkeys'[p] # None /\ passkeys'[p].counter >= passkeys[p].counter
  <1>1. passkeys[p] \in OwnerAuthenticatorRecord
    BY DEF PInv, PasskeysTyped
  <1>2. CASE UNCHANGED passkeys
    BY <1>1, <1>2, SMTT(60) DEF OwnerAuthenticatorRecord
  <1>3. ASSUME NEW t \in Thread, finish_registration(t), ~UNCHANGED passkeys
        PROVE  passkeys'[p] = passkeys[p]
    BY <1>3 DEF finish_registration, PInv, PasskeysTyped
  <1>4. ASSUME NEW t \in Thread, create_browser_session(t), ~UNCHANGED passkeys
        PROVE  passkeys'[p] # None /\ passkeys'[p].counter >= passkeys[p].counter
    <2> DEFINE q == call[t].answer.passkey
               row == [call[t].seen EXCEPT !.counter = call[t].counter, !.last_used = call[t].now]
    <2>1. /\ call[t].pc = "login" /\ passkeys[q] = call[t].seen
          /\ passkeys' = [passkeys EXCEPT ![q].counter = call[t].counter,
                                          ![q].last_used = call[t].now]
      BY <1>4 DEF create_browser_session, commitment_expected
    <2>2. /\ q \in Passkey /\ row \in OwnerAuthenticatorRecord
          /\ row.counter >= passkeys[q].counter
      BY <2>1, LoginRow
    <2>3. passkeys' = [passkeys EXCEPT ![q] = row]
      BY <2>1, <2>2 DEF PInv, PasskeysTyped
    <2> HIDE DEF row, q
    <2>4. passkeys'[p] = IF p = q THEN row ELSE passkeys[p]
      BY <2>2, <2>3 DEF PInv, PasskeysTyped
    <2>5. passkeys[p].counter \in Nat
      BY <1>1 DEF OwnerAuthenticatorRecord
    <2> QED
      BY <2>2, <2>4, <2>5, AbsenceAssumption, SMTT(60)
  <1>5. \/ UNCHANGED passkeys
        \/ \E t \in Thread : finish_registration(t) \/ create_browser_session(t)
    BY DEF Next, vars, tick, login_with_password, restart, logout_browser_session, sign,
           Registration, Authentication, fail, start_passkey_registration,
           finish_passkey_registration, enter, start_registration, insert_ceremony,
           take_registration, start_passkey_authentication, finish_passkey_authentication,
           owner_authenticators, start_authentication, take_authentication,
           finish_authentication
  <1> QED
    BY <1>1, <1>2, <1>3, <1>4, <1>5, SMTT(60) DEF OwnerAuthenticatorRecord

\* The stored counter of a passkey never goes back: create_browser_session writes only
\* over the row its login read (expected_authenticator_state_commitment), and
\* update_credential gave it a counter no lower than that row's.
THEOREM CountersNeverGoBack == Spec => CounterNeverBack
  <1>1. PInv /\ [Next]_vars =>
          [\A p \in Passkey : passkeys[p] # None =>
              passkeys'[p] # None /\ passkeys'[p].counter >= passkeys[p].counter]_vars
    BY CounterStep
  <1> QED
    BY <1>1, PasskeysInvariant, PTL DEF Spec, CounterNeverBack

-----------------------------------------------------------------------------
\* The times of pending ceremonies are numbers, and the time of a start is not ahead
\* of the clock.
TimesKnown ==
    /\ \A c \in CeremonyId : ceremonies[c] # None =>
          ceremonies[c].created \in Nat /\ ceremonies[c].expires \in Nat
    /\ \A t \in Thread :
          call[t].pc \in {"registering", "listing", "challenging"} => call[t].now <= clock

\* What a thread does to the table and to its own call.
LEMMA TimesStep ==
    ASSUME PInv, TimesKnown, NEW t \in Thread, NEW next \in Calls,
           call' = [call EXCEPT ![t] = next], UNCHANGED clock,
           next.pc \in {"registering", "listing", "challenging"} => next.now <= clock,
           \A c \in CeremonyId : ceremonies'[c] # None =>
              \/ ceremonies'[c] = ceremonies[c]
              \/ ceremonies'[c].created \in Nat /\ ceremonies'[c].expires \in Nat
    PROVE  TimesKnown'
  <1>1. \A u \in Thread : call'[u] = IF u = t THEN next ELSE call[u]
    BY DEF PInv, PasskeysTyped
  <1> QED
    BY <1>1 DEF TimesKnown

\* The same for a handler that answers.
LEMMA TimesReturn ==
    ASSUME PInv, TimesKnown, NEW t \in Thread, Return(t), UNCHANGED clock,
           \A c \in CeremonyId : ceremonies'[c] # None =>
              \/ ceremonies'[c] = ceremonies[c]
              \/ ceremonies'[c].created \in Nat /\ ceremonies'[c].expires \in Nat
    PROVE  TimesKnown'
  BY IdleIsACall, TimesStep DEF Return, Goto

\* A start stores a ceremony of its own time, and sweeps by it.
LEMMA TimesInsert ==
    ASSUME PInv, TimesKnown, NEW t \in Thread, start_registration(t) \/ start_authentication(t)
    PROVE  TimesKnown'
  <1> DEFINE table == cleanup(call[t].now)
  <1>1. call[t].now \in Nat
    BY DEF PInv, PasskeysTyped, Calls, start_registration, start_authentication
  <1>2. PICK ceremony :
          /\ insert_ceremony(t, ceremony)
          /\ ceremony.created \in Nat /\ ceremony.expires \in Nat
    BY <1>1, PasskeyAssumption, SMTT(60) DEF start_registration, start_authentication, Ceremony
  <1>3. /\ table = [c \in CeremonyId |-> table[c]]
        /\ \A c \in CeremonyId : table[c] \in {ceremonies[c], None}
    BY DEF cleanup
  <1> HIDE DEF table
  <1>4. ceremonies' = table \/ ceremonies' = [table EXCEPT ![begun'] = ceremony]
    BY <1>2 DEF insert_ceremony, table
  <1>5. \A c \in CeremonyId : ceremonies'[c] \in {ceremonies[c], None, ceremony}
    BY <1>3, <1>4
  <1> QED
    BY <1>2, <1>5, TimesReturn DEF insert_ceremony

\* One case per action.
LEMMA NextTimes == PInv /\ TimesKnown /\ [Next]_vars => TimesKnown'
  <1> SUFFICES ASSUME PInv, TimesKnown, [Next]_vars PROVE TimesKnown'
    OBVIOUS
  <1>0. clock \in Nat /\ answers \subseteq Answers
    BY DEF PInv, PasskeysTyped
  <1>1. CASE tick
    <2>1. \A t \in Thread :
             call[t].pc \in {"registering", "listing", "challenging"} => call[t].now \in Nat
      BY DEF PInv, PasskeysTyped, Calls
    <2> QED
      BY <1>0, <1>1, <2>1, SMTT(60) DEF tick, TimesKnown
  <1>2. CASE \/ login_with_password
             \/ \E s \in SessionId : logout_browser_session(s)
             \/ \E p \in Passkey, c \in CeremonyId : sign(p, c)
             \/ UNCHANGED vars
    <2>1. UNCHANGED <<clock, ceremonies, call>>
      BY <1>2 DEF login_with_password, logout_browser_session, sign, vars
    <2> QED
      BY <2>1 DEF TimesKnown
  <1>3. CASE restart
    <2>1. (\A c \in CeremonyId : ceremonies'[c] = None) /\ \A t \in Thread : call'[t].pc = "idle"
      BY <1>3, IdleIsACall DEF restart
    <2> QED
      BY <2>1 DEF TimesKnown
  <1>4. ASSUME NEW t \in Thread, NEW s \in SessionId, start_passkey_registration(t, s)
        PROVE  TimesKnown'
    <2> DEFINE next == [pc |-> "registering", now |-> clock, session |-> s]
    <2>1. next \in Calls /\ next.now <= clock
      BY <1>0, SMTT(60) DEF Calls
    <2> HIDE DEF next
    <2>2. call' = [call EXCEPT ![t] = next] /\ UNCHANGED <<clock, ceremonies>>
      BY <1>4 DEF start_passkey_registration, enter, Goto, next
    <2> QED
      BY <2>1, <2>2, TimesStep
  <1>5. ASSUME NEW t \in Thread, NEW s \in SessionId, NEW c \in CeremonyId, NEW p \in Passkey,
               finish_passkey_registration(t, s, c, p)
        PROVE  TimesKnown'
    <2> DEFINE next == [pc |-> "taking", now |-> clock, session |-> s, ceremony |-> c, passkey |-> p]
    <2>1. next \in Calls /\ next.now <= clock
      BY <1>0, SMTT(60) DEF Calls
    <2> HIDE DEF next
    <2>2. call' = [call EXCEPT ![t] = next] /\ UNCHANGED <<clock, ceremonies>>
      BY <1>5 DEF finish_passkey_registration, enter, Goto, next
    <2> QED
      BY <2>1, <2>2, TimesStep
  <1>6. ASSUME NEW t \in Thread, start_passkey_authentication(t) PROVE TimesKnown'
    <2> DEFINE next == [pc |-> "listing", now |-> clock]
    <2>1. next \in Calls /\ next.now <= clock
      BY <1>0, SMTT(60) DEF Calls
    <2> HIDE DEF next
    <2>2. call' = [call EXCEPT ![t] = next] /\ UNCHANGED <<clock, ceremonies>>
      BY <1>6 DEF start_passkey_authentication, Goto, next
    <2> QED
      BY <2>1, <2>2, TimesStep
  <1>7. ASSUME NEW t \in Thread, NEW a \in answers, finish_passkey_authentication(t, a)
        PROVE  TimesKnown'
    <2> DEFINE next == [pc |-> "answered", now |-> clock, answer |-> a]
    <2>1. next \in Calls /\ next.now <= clock
      BY <1>0, SMTT(60) DEF Calls
    <2> HIDE DEF next
    <2>2. call' = [call EXCEPT ![t] = next] /\ UNCHANGED <<clock, ceremonies>>
      BY <1>7 DEF finish_passkey_authentication, Goto, next
    <2> QED
      BY <2>1, <2>2, TimesStep
  <1>8. ASSUME NEW t \in Thread, start_registration(t) \/ start_authentication(t) PROVE TimesKnown'
    BY <1>8, TimesInsert
  <1>9. ASSUME NEW t \in Thread,
               fail(t) \/ finish_registration(t) \/ create_browser_session(t)
        PROVE  TimesKnown'
    <2>1. Return(t) /\ UNCHANGED <<clock, ceremonies>>
      BY <1>9, SMTT(60) DEF fail, finish_registration, create_browser_session
    <2> QED
      BY <2>1, TimesReturn
  <1>10. ASSUME NEW t \in Thread,
                \/ owner_authenticators(t) \/ finish_authentication(t)
                \/ take_registration(t) \/ take_authentication(t)
         PROVE  TimesKnown'
    <2>1. UNCHANGED clock
      BY <1>10 DEF owner_authenticators, finish_authentication, take_registration, take_authentication
    <2>2. \A c \in CeremonyId : ceremonies'[c] # None => ceremonies'[c] = ceremonies[c]
      BY <1>10 DEF owner_authenticators, finish_authentication, take_registration,
                   take_authentication, Take, PInv, PasskeysTyped
    <2>3. call'[t].pc \in {"registering", "listing", "challenging"} => call'[t].now <= clock
      <3>1. CASE owner_authenticators(t)
        BY <3>1, IdleIsACall, SMTT(60) DEF owner_authenticators, Return, Goto, PInv, PasskeysTyped, TimesKnown
      <3>2. CASE finish_authentication(t)
        BY <3>2, IdleIsACall, SMTT(60) DEF finish_authentication, Return, Goto, PInv, PasskeysTyped
      <3>3. CASE take_registration(t) \/ take_authentication(t)
        <4>1. call[t] \in Calls /\ call[t].pc \in {"taking", "answered"}
          BY <3>3 DEF PInv, PasskeysTyped, take_registration, take_authentication
        <4>2. [call[t] EXCEPT !.pc = "adding"].pc = "adding"
              /\ [call[t] EXCEPT !.pc = "asserted"].pc = "asserted"
          BY <4>1 DEF Calls
        <4> QED
          BY <3>3, <4>2, IdleIsACall
             DEF take_registration, take_authentication, Step, Return, Goto, PInv, PasskeysTyped
      <3> QED
        BY <1>10, <3>1, <3>2, <3>3
    <2>4. \A u \in Thread : u # t => call'[u] = call[u]
      BY <1>10 DEF owner_authenticators, finish_authentication, take_registration,
                   take_authentication, Step, Return, Goto, PInv, PasskeysTyped
    <2> QED
      BY <2>1, <2>2, <2>3, <2>4, SMTT(60) DEF TimesKnown
  <1>11. ASSUME NEW t \in Thread, Registration(t) \/ Authentication(t) \/ fail(t)
         PROVE  TimesKnown'
    BY <1>4, <1>5, <1>6, <1>7, <1>8, <1>9, <1>10, <1>11 DEF Registration, Authentication
  <1> QED
    BY <1>1, <1>2, <1>3, <1>11 DEF Next

\* At first there is no ceremony and no request.
LEMMA InitTimes == Init => TimesKnown
  <1>1. Init => /\ \A c \in CeremonyId : ceremonies[c] = None
                /\ \A t \in Thread : call[t].pc = "idle"
    BY SMTT(60) DEF Init, Idle
  <1> QED
    BY <1>1 DEF TimesKnown

\* Which steps touch the table.
LEMMA TableSteps ==
    ASSUME [Next]_vars
    PROVE  \/ UNCHANGED ceremonies
           \/ restart
           \/ \E t \in Thread : \/ take_registration(t) \/ take_authentication(t)
                                \/ start_registration(t) \/ start_authentication(t)
  BY DEF Next, vars, tick, login_with_password, logout_browser_session, sign, Registration,
         Authentication, fail, start_passkey_registration, finish_passkey_registration, enter,
         finish_registration, start_passkey_authentication, finish_passkey_authentication,
         owner_authenticators, finish_authentication, create_browser_session

\* Which steps lose a ceremony.
LEMMA LosingStep ==
    ASSUME PInv, TimesKnown, [Next]_vars, NEW c \in CeremonyId,
           ceremonies[c] # None, ceremonies'[c] = None, ceremonies[c].expires >= clock
    PROVE  \/ \E t \in Thread :
                \/ call[t].pc = "taking" /\ call[t].ceremony = c
                \/ call[t].pc = "answered" /\ call[t].answer.ceremony = c
                \/ call[t].pc \in {"registering", "challenging"}
                     /\ call[t].now < ceremonies[c].created
           \/ ceremonies' = [d \in CeremonyId |-> None]
  <1>1. \/ restart
        \/ \E t \in Thread : \/ take_registration(t) \/ take_authentication(t)
                             \/ start_registration(t) \/ start_authentication(t)
    BY TableSteps
  <1>2. CASE restart
    BY <1>2 DEF restart
  <1>3. ASSUME NEW t \in Thread, take_registration(t)
        PROVE  call[t].pc = "taking" /\ call[t].ceremony = c
    BY <1>3 DEF take_registration, Take, PInv, PasskeysTyped
  <1>4. ASSUME NEW t \in Thread, take_authentication(t)
        PROVE  call[t].pc = "answered" /\ call[t].answer.ceremony = c
    BY <1>4 DEF take_authentication, Take, PInv, PasskeysTyped
  <1>5. ASSUME NEW t \in Thread, start_registration(t) \/ start_authentication(t)
        PROVE  call[t].pc \in {"registering", "challenging"} /\ call[t].now < ceremonies[c].created
    <2> DEFINE table == cleanup(call[t].now)
    <2>1. /\ call[t].pc \in {"registering", "challenging"}
          /\ \E ceremony : insert_ceremony(t, ceremony)
      BY <1>5 DEF start_registration, start_authentication
    <2>2. call[t].now \in Nat /\ call[t].now <= clock
      BY <2>1 DEF PInv, PasskeysTyped, Calls, TimesKnown
    <2>3. ceremonies[c].created \in Nat /\ ceremonies[c].expires \in Nat /\ clock \in Nat
      BY DEF TimesKnown, PInv, PasskeysTyped
    <2>4. c # begun + 1
      BY SMTT(60) DEF PInv, NotBegun, PasskeysTyped, CeremonyId
    <2>5. table[c] = None
      <3>1. table = [d \in CeremonyId |-> table[d]]
        BY DEF cleanup
      <3> HIDE DEF table
      <3>2. PICK ceremony : ceremonies' = table \/ ceremonies' = [table EXCEPT ![begun + 1] = ceremony]
        BY <2>1 DEF insert_ceremony, table
      <3> QED
        BY <2>4, <3>1, <3>2
    <2>6. ~(ceremonies[c].created <= call[t].now /\ ceremonies[c].expires >= call[t].now)
      BY <2>5 DEF cleanup
    <2> QED
      BY <2>1, <2>2, <2>3, <2>6, SMTT(60)
  <1> QED
    BY <1>1, <1>2, <1>3, <1>4, <1>5

\* A pending ceremony that has not expired is lost only to the request that finishes
\* it, to a restart, or to a start that read the clock before the ceremony began
\* (insert_ceremony sweeps what is from its future).
THEOREM PendingAreKept == Spec => PendingKept
  <1>2. PInv /\ TimesKnown /\ [Next]_vars =>
          [\A c \in CeremonyId :
              ceremonies[c] # None /\ ceremonies'[c] = None /\ ceremonies[c].expires >= clock =>
                 \/ \E t \in Thread :
                      \/ call[t].pc = "taking" /\ call[t].ceremony = c
                      \/ call[t].pc = "answered" /\ call[t].answer.ceremony = c
                      \/ call[t].pc \in {"registering", "challenging"}
                           /\ call[t].now < ceremonies[c].created
                 \/ ceremonies' = [d \in CeremonyId |-> None]]_vars
    BY LosingStep
  <1> QED
    BY <1>2, InitTimes, NextTimes, PasskeysInvariant, PTL DEF Spec, PendingKept
-----------------------------------------------------------------------------
(* The table at its limit.  insert_ceremony counts after its sweep and before *)
(* it adds, so that the table never holds more than its limit; a start that   *)
(* is refused counted as many, and it counted only what is in time.           *)

Pending == {c \in CeremonyId : ceremonies[c] # None}
PendingInTime(now) == {c \in CeremonyId : ceremonies[c] # None /\ in_time(c, now)}
TableBounded == Cardinality(Pending) <= MAX_PENDING_CEREMONIES

\* The ceremonies begun are finitely many.
LEMMA CeremoniesFinite ==
    ASSUME NEW S \in SUBSET CeremonyId
    PROVE  IsFiniteSet(S) /\ Cardinality(S) \in Nat
  <1>1. 1 \in Int /\ MaxCeremonies \in Int
    BY PasskeyAssumption, SMTT(60)
  <1>2. IsFiniteSet(CeremonyId)
    BY <1>1, FS_Interval DEF CeremonyId
  <1> QED
    BY <1>2, FS_Subset, FS_CardinalityType

\* There are no more of them in a smaller set.
LEMMA FewerCeremonies ==
    ASSUME NEW S \in SUBSET CeremonyId, NEW T \in SUBSET S
    PROVE  Cardinality(T) <= Cardinality(S)
  BY CeremoniesFinite, FS_Subset

\* The table stays within its limit when it only loses ceremonies.
LEMMA FewerPending ==
    ASSUME TableBounded, Shrinks
    PROVE  TableBounded'
  <1>1. Pending \in SUBSET CeremonyId /\ Pending' \in SUBSET Pending
    BY DEF Shrinks, Pending
  <1>2. Cardinality(Pending') <= Cardinality(Pending)
    BY <1>1, FewerCeremonies
  <1>3. Cardinality(Pending) \in Nat /\ Cardinality(Pending') \in Nat
    BY <1>1, CeremoniesFinite
  <1> QED
    BY <1>2, <1>3, PasskeyAssumption, SMTT(60) DEF TableBounded

\* A start adds one ceremony, and only below the limit.
LEMMA InsertBounded ==
    ASSUME PInv, TableBounded, NEW t \in Thread, NEW ceremony, insert_ceremony(t, ceremony)
    PROVE  TableBounded'
  <1> DEFINE table == cleanup(call[t].now)
             kept == {c \in CeremonyId : table[c] # None}
  <1>1. /\ table = [c \in CeremonyId |-> table[c]]
        /\ \A c \in CeremonyId : table[c] \in {ceremonies[c], None}
    BY DEF cleanup
  <1>2. ceremony_count(table) = Cardinality(kept)
    BY DEF ceremony_count
  <1>3. \/ ceremonies' = table
        \/ /\ ~(Cardinality(kept) >= MAX_PENDING_CEREMONIES)
           /\ ceremonies' = [table EXCEPT ![begun'] = ceremony]
    BY <1>2 DEF insert_ceremony
  <1>4. kept \in SUBSET CeremonyId
    OBVIOUS
  <1>5. CASE ceremonies' = table
    <2>1. Shrinks
      BY <1>1, <1>5 DEF Shrinks
    <2> QED
      BY <2>1, FewerPending
  <1>6. CASE /\ ~(Cardinality(kept) >= MAX_PENDING_CEREMONIES)
             /\ ceremonies' = [table EXCEPT ![begun'] = ceremony]
    <2>1. Pending' \in SUBSET (kept \union {begun'}) /\ Pending' \in SUBSET CeremonyId
      <3> HIDE DEF table
      <3> QED
        BY <1>1, <1>6 DEF Pending
    <2> HIDE DEF kept, table
    <2>2. IsFiniteSet(kept) /\ Cardinality(kept) \in Nat
      BY <1>4, CeremoniesFinite
    <2>3. /\ IsFiniteSet(kept \union {begun'})
          /\ Cardinality(kept \union {begun'})
               = IF begun' \in kept THEN Cardinality(kept) ELSE Cardinality(kept) + 1
      BY <2>2, FS_AddElement
    <2>4. Cardinality(Pending') <= Cardinality(kept \union {begun'})
      BY <2>1, <2>3, FS_Subset
    <2>5. Cardinality(Pending') \in Nat
      BY <2>1, CeremoniesFinite
    <2>6. MAX_PENDING_CEREMONIES \in Nat
      BY PasskeyAssumption
    <2> QED
      BY <1>6, <2>2, <2>3, <2>4, <2>5, <2>6, SMTT(60) DEF TableBounded
  <1> QED
    BY <1>3, <1>5, <1>6

\* The table never holds more ceremonies than MAX_PENDING_CEREMONIES.
LEMMA NextBounded == PInv /\ TableBounded /\ [Next]_vars => TableBounded'
  <1> SUFFICES ASSUME PInv, TableBounded, [Next]_vars PROVE TableBounded'
    OBVIOUS
  <1>1. CASE UNCHANGED ceremonies
    BY <1>1, SameTable, FewerPending
  <1>2. CASE restart
    <2>1. Shrinks
      BY <1>2 DEF restart, Shrinks
    <2> QED
      BY <2>1, FewerPending
  <1>3. ASSUME NEW t \in Thread, take_registration(t) PROVE TableBounded'
    <2>1. call[t] \in Calls /\ call[t].pc = "taking"
      BY <1>3 DEF PInv, PasskeysTyped, take_registration
    <2>2. call[t].ceremony \in CeremonyId
      BY <2>1, SMTT(60) DEF Calls
    <2>3. UNCHANGED ceremonies \/ ceremonies' = Take(call[t].ceremony)
      BY <1>3 DEF take_registration
    <2> QED
      BY <2>2, <2>3, <1>1, TakeShrinks, FewerPending
  <1>4. ASSUME NEW t \in Thread, take_authentication(t) PROVE TableBounded'
    <2>1. call[t] \in Calls /\ call[t].pc = "answered"
      BY <1>4 DEF PInv, PasskeysTyped, take_authentication
    <2>2. call[t].answer.ceremony \in CeremonyId
      BY <2>1, SMTT(60) DEF Calls, Answers
    <2>3. UNCHANGED ceremonies \/ ceremonies' = Take(call[t].answer.ceremony)
      BY <1>4 DEF take_authentication
    <2> QED
      BY <2>2, <2>3, <1>1, TakeShrinks, FewerPending
  <1>5. ASSUME NEW t \in Thread, start_registration(t) \/ start_authentication(t)
        PROVE  TableBounded'
    BY <1>5, InsertBounded DEF start_registration, start_authentication
  <1> QED
    BY <1>1, <1>2, <1>3, <1>4, <1>5, TableSteps

\* What is left after the sweep of a start is in time by its reading of the clock.
LEMMA SweptInTime ==
    ASSUME PInv, TimesKnown, NEW t \in Thread, call[t].now \in Nat
    PROVE  ceremony_count(cleanup(call[t].now)) = Cardinality(PendingInTime(call[t].now))
  <1> DEFINE now == call[t].now
  <1>1. \A c \in CeremonyId : ceremonies[c] # None =>
          ceremonies[c].created \in Nat /\ ceremonies[c].expires \in Nat
    BY DEF TimesKnown
  <1>2. \A c \in CeremonyId : ceremonies[c] # None =>
          (ceremonies[c].created <= now /\ ceremonies[c].expires >= now <=> in_time(c, now))
    BY <1>1, SMTT(60) DEF in_time
  <1> HIDE DEF now
  <1>3. \A c \in CeremonyId : cleanup(now)[c] # None <=> ceremonies[c] # None /\ in_time(c, now)
    BY <1>2 DEF cleanup
  <1>4. {c \in CeremonyId : cleanup(now)[c] # None} = PendingInTime(now)
    BY <1>3 DEF PendingInTime
  <1> QED
    BY <1>4 DEF ceremony_count, now

\* Which steps end a start that stores nothing.
LEMMA BusyStep ==
    ASSUME PInv, TimesKnown, TableBounded, [Next]_vars, NEW t \in Thread,
           call[t].pc \in {"registering", "challenging"}, call'[t].pc = "idle",
           begun' = begun, \E c \in CeremonyId : ceremonies'[c] # None
    PROVE  Cardinality(PendingInTime(call[t].now)) = MAX_PENDING_CEREMONIES
  <1> DEFINE pending == PendingInTime(call[t].now)
  <1>1. ~restart
    BY DEF restart
  <1>2. ~(call' = call)
    OBVIOUS
  <1>3. \A u \in Thread : \A c : u # t => call' # [call EXCEPT ![u] = c]
    BY DEF PInv, PasskeysTyped
  <1>4. start_registration(t) \/ start_authentication(t)
    <2>1. PICK u \in Thread : Registration(u) \/ Authentication(u) \/ fail(u)
      BY <1>1, <1>2 DEF Next, vars, tick, login_with_password, logout_browser_session, sign
    <2>2. \E c : call' = [call EXCEPT ![u] = c]
      BY <2>1 DEF Registration, Authentication, fail, start_passkey_registration,
            finish_passkey_registration, enter, start_registration, take_registration,
            finish_registration, start_passkey_authentication, finish_passkey_authentication,
            owner_authenticators, start_authentication, take_authentication,
            finish_authentication, create_browser_session, insert_ceremony, Return, Step, Goto
    <2>3. u = t
      BY <1>3, <2>2
    <2> QED
      BY <2>1, <2>3 DEF Registration, Authentication, fail, start_passkey_registration,
            finish_passkey_registration, enter, take_registration,
            finish_registration, start_passkey_authentication, finish_passkey_authentication,
            owner_authenticators, take_authentication, finish_authentication,
            create_browser_session
  <1>5. call[t].now \in Nat
    BY SMTT(60) DEF PInv, PasskeysTyped, Calls
  <1>6. begun # begun + 1
    BY SMTT(60) DEF PInv, PasskeysTyped
  <1>7. ceremony_count(cleanup(call[t].now)) >= MAX_PENDING_CEREMONIES
    BY <1>4, <1>6 DEF start_registration, start_authentication, insert_ceremony
  <1>8. Cardinality(pending) >= MAX_PENDING_CEREMONIES
    BY <1>5, <1>7, SweptInTime
  <1>9. Pending \in SUBSET CeremonyId /\ pending \in SUBSET Pending
    BY DEF Pending, PendingInTime
  <1> HIDE DEF pending
  <1>10. Cardinality(pending) <= Cardinality(Pending)
    BY <1>9, FewerCeremonies
  <1>11. Cardinality(Pending) \in Nat /\ Cardinality(pending) \in Nat
    BY <1>9, CeremoniesFinite
  <1>12. MAX_PENDING_CEREMONIES \in Nat
    BY PasskeyAssumption
  <1>13. Cardinality(pending) = MAX_PENDING_CEREMONIES
    BY <1>8, <1>10, <1>11, <1>12, SMTT(60) DEF TableBounded
  <1> QED
    BY <1>13 DEF pending

\* A start is refused for want of room only when the table is exactly full of
\* ceremonies that are in time: insert_ceremony sweeps the expired ones before it
\* counts, and no schedule of starts brings the table over its limit.
THEOREM BusyMeansFull == Spec => BusyOnlyWhenFull
  <1>1. Init => TableBounded
    <2>1. Init => Pending = {}
      BY DEF Init, Pending
    <2>2. MAX_PENDING_CEREMONIES \in Nat
      BY PasskeyAssumption
    <2>3. 0 <= MAX_PENDING_CEREMONIES
      BY <2>2, SMTT(60)
    <2> QED
      BY <2>1, <2>3, FS_EmptySet DEF TableBounded
  <1>2. PInv /\ TimesKnown /\ TableBounded /\ [Next]_vars =>
          [\A t \in Thread :
              /\ call[t].pc \in {"registering", "challenging"} /\ call'[t].pc = "idle"
              /\ begun' = begun /\ \E c \in CeremonyId : ceremonies'[c] # None
              => Cardinality({c \in CeremonyId : ceremonies[c] # None /\ in_time(c, call[t].now)})
                    = MAX_PENDING_CEREMONIES]_vars
    BY BusyStep DEF PendingInTime
  <1> QED
    BY <1>1, <1>2, InitTimes, NextTimes, NextBounded, PasskeysInvariant, PTL
       DEF Spec, BusyOnlyWhenFull
=============================================================================
