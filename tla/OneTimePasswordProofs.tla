----------------------- MODULE OneTimePasswordProofs -----------------------
(* The limits on a one-time code and on the sends of codes hold for any limits,
   TTLs, purposes and number of concurrent handlers, and the scripts implement
   OneTimeCode. *)
EXTENDS OneTimePassword, TLAPS, FiniteSetTheorems

(* Ranges the invariant's arithmetic needs. *)
Counters ==
    /\ otp \in [Purposes -> Codes \cup {NoCode}]
    /\ otpTtl \in [Purposes -> Nat]
    /\ attempts \in [Purposes -> Nat]
    /\ attemptsTtl \in [Purposes -> Nat]
    /\ wrong \in [Purposes -> Nat]
    /\ uses \in [Purposes -> Nat]
    /\ job \in [Senders -> Purposes]

(* While a code is stored its counter counts exactly its wrong guesses: the
   counter, once set, outlives the code, so it cannot expire and start again
   at 0 under a code that is still valid. *)
CodeInv(p) ==
    /\ otp[p] # NoCode =>
          /\ otpTtl[p] > 0
          /\ attempts[p] = wrong[p]
          /\ attempts[p] < MaxAttempts
          /\ attempts[p] > 0 => attemptsTtl[p] >= otpTtl[p]
          /\ uses[p] = 0
    /\ wrong[p] <= MaxAttempts
    /\ uses[p] <= 1

OtpInv == Counters /\ \A p \in Purposes : CodeInv(p)

LEMMA InitEstablishesOtpInv == Init => OtpInv
  BY OtpAssumption DEF Init, OtpInv, Counters, CodeInv

(* A script run touches the keys of one purpose. *)
LEMMA SaveOtpPreservesOtpInv ==
    ASSUME OtpInv, NEW s \in Senders, SaveOtp(s)
    PROVE  OtpInv'
<1> DEFINE q == job[s]
<1>1. q \in Purposes
  BY DEF OtpInv, Counters
<1>2. PICK c \in Codes : otp' = [otp EXCEPT ![q] = c]
  BY DEF SaveOtp
<1>3. /\ otpTtl' = [otpTtl EXCEPT ![q] = Ttl]
      /\ attempts' = [attempts EXCEPT ![q] = 0]
      /\ attemptsTtl' = [attemptsTtl EXCEPT ![q] = 0]
      /\ wrong' = [wrong EXCEPT ![q] = 0]
      /\ uses' = [uses EXCEPT ![q] = 0]
      /\ job' = job
  BY DEF SaveOtp
<1> HIDE DEF q
<1>4. Counters'
  BY <1>1, <1>2, <1>3, OtpAssumption DEF OtpInv, Counters
<1>5. ASSUME NEW p \in Purposes PROVE CodeInv(p)'
  BY <1>1, <1>2, <1>3, OtpAssumption DEF OtpInv, Counters, CodeInv
<1> QED
  BY <1>4, <1>5 DEF OtpInv

LEMMA ConsumePreservesOtpInv ==
    ASSUME OtpInv, NEW p \in Purposes, NEW c \in Codes, Consume(p, c)
    PROVE  OtpInv'
<1>1. Counters'
  BY OtpAssumption DEF Consume, OtpInv, Counters
<1>2. ASSUME NEW q \in Purposes PROVE CodeInv(q)'
  BY OtpAssumption DEF Consume, OtpInv, Counters, CodeInv
<1> QED
  BY <1>1, <1>2 DEF OtpInv

LEMMA RejectPreservesOtpInv ==
    ASSUME OtpInv, NEW p \in Purposes, NEW c \in Codes, Reject(p, c)
    PROVE  OtpInv'
<1>1. /\ otp[p] # NoCode
      /\ attempts' = [attempts EXCEPT ![p] = @ + 1]
      /\ wrong' = [wrong EXCEPT ![p] = @ + 1]
      /\ uses' = uses /\ job' = job
  BY DEF Reject, SpendAttempt
<1>2. PICK t \in {otpTtl[p], Ttl, attemptsTtl[p]} :
         /\ attemptsTtl' = [attemptsTtl EXCEPT ![p] = t]
         /\ attempts[p] = 0 => t \in RemainingTtl(p)
         /\ attempts[p] # 0 => t = attemptsTtl[p]
  BY DEF Reject, SpendAttempt, RemainingTtl, OtpInv, Counters
<1>3. t \in Nat /\ t >= otpTtl[p]
  BY <1>1, <1>2, OtpAssumption DEF RemainingTtl, OtpInv, Counters, CodeInv
<1>4. CASE LastAttempt(p)
  <2>1. /\ otp' = [otp EXCEPT ![p] = NoCode]
        /\ otpTtl' = [otpTtl EXCEPT ![p] = 0]
    BY <1>4 DEF Reject
  <2>2. Counters'
    BY <1>1, <1>2, <1>3, <2>1, OtpAssumption DEF OtpInv, Counters
  <2>3. ASSUME NEW q \in Purposes PROVE CodeInv(q)'
    BY <1>1, <1>2, <1>3, <2>1, OtpAssumption DEF OtpInv, Counters, CodeInv
  <2> QED
    BY <2>2, <2>3 DEF OtpInv
<1>5. CASE ~LastAttempt(p)
  <2>1. otp' = otp /\ otpTtl' = otpTtl
    BY <1>5 DEF Reject
  <2>2. Counters'
    BY <1>1, <1>2, <1>3, <2>1, OtpAssumption DEF OtpInv, Counters
  <2>3. ASSUME NEW q \in Purposes PROVE CodeInv(q)'
    BY <1>1, <1>2, <1>3, <1>5, <2>1, OtpAssumption
    DEF OtpInv, Counters, CodeInv, LastAttempt
  <2> QED
    BY <2>2, <2>3 DEF OtpInv
<1> QED
  BY <1>4, <1>5

LEMMA NothingToVerifyPreservesOtpInv ==
    ASSUME OtpInv, NEW p \in Purposes, NothingToVerify(p)
    PROVE  OtpInv'
<1>1. Counters'
  BY OtpAssumption DEF NothingToVerify, OtpInv, Counters
<1>2. ASSUME NEW q \in Purposes PROVE CodeInv(q)'
  BY OtpAssumption DEF NothingToVerify, OtpInv, Counters, CodeInv
<1> QED
  BY <1>1, <1>2 DEF OtpInv

(* Time: the counter cannot expire before the code it counts for. *)
LEMMA TickPreservesOtpInv ==
    ASSUME OtpInv, Tick
    PROVE  OtpInv'
<1>1. \A n \in Nat : Aged(n) \in Nat /\ (n > 1 => Aged(n) > 0)
  BY DEF Aged
<1>2. \A m, n \in Nat : m >= n => Aged(m) >= Aged(n)
  BY DEF Aged
<1>3. Counters'
  BY <1>1 DEF Tick, OtpInv, Counters, Kept
<1>4. ASSUME NEW p \in Purposes PROVE CodeInv(p)'
  <2>1. /\ otp'[p] = Kept(otp[p], otpTtl[p], NoCode)
        /\ otpTtl'[p] = Aged(otpTtl[p])
        /\ attempts'[p] = Kept(attempts[p], attemptsTtl[p], 0)
        /\ attemptsTtl'[p] = Aged(attemptsTtl[p])
        /\ wrong'[p] = wrong[p] /\ uses'[p] = uses[p]
    BY DEF Tick
  <2>2. CodeInv(p) /\ Counters
    BY DEF OtpInv
  <2>3. CASE otp'[p] = NoCode
    BY <2>1, <2>2, <2>3 DEF CodeInv
  <2>4. CASE otp'[p] # NoCode
    <3>1. otp[p] # NoCode /\ otpTtl[p] > 1
      BY <2>1, <2>2, <2>4 DEF Kept, CodeInv, Counters
    <3>2. attempts'[p] = attempts[p]
      BY <2>1, <2>2, <3>1 DEF Kept, CodeInv, Counters
    <3> QED
      BY <1>1, <1>2, <2>1, <2>2, <3>1, <3>2 DEF CodeInv, Counters
  <2> QED
    BY <2>3, <2>4
<1> QED
  BY <1>3, <1>4 DEF OtpInv

LEMMA NextPreservesOtpInv == OtpInv /\ [Next]_vars => OtpInv'
<1> SUFFICES ASSUME OtpInv, [Next]_vars PROVE OtpInv'
  OBVIOUS
<1>1. ASSUME NEW s \in Senders, NEW p \in Purposes, AcquireSendSlot(s, p) PROVE OtpInv'
  BY <1>1 DEF AcquireSendSlot, OtpInv, Counters, CodeInv
<1>2. ASSUME NEW s \in Senders, SaveOtp(s) PROVE OtpInv'
  BY <1>2, SaveOtpPreservesOtpInv
<1>3. ASSUME NEW s \in Senders, SaveFails(s) PROVE OtpInv'
  BY <1>3 DEF SaveFails, redis, OtpInv, Counters, CodeInv
<1>4. ASSUME NEW p \in Purposes, NothingToVerify(p) PROVE OtpInv'
  BY <1>4, NothingToVerifyPreservesOtpInv
<1>5. ASSUME NEW p \in Purposes, NEW c \in Codes, Consume(p, c) PROVE OtpInv'
  BY <1>5, ConsumePreservesOtpInv
<1>6. ASSUME NEW p \in Purposes, NEW c \in Codes, Reject(p, c) PROVE OtpInv'
  BY <1>6, RejectPreservesOtpInv
<1>7. CASE Tick
  BY <1>7, TickPreservesOtpInv
<1>8. CASE UNCHANGED vars
  BY <1>8 DEF vars, redis, OtpInv, Counters, CodeInv
<1> QED
  BY <1>1, <1>2, <1>3, <1>4, <1>5, <1>6, <1>7, <1>8 DEF Next

THEOREM OtpInvInvariant == Spec => []OtpInv
  BY InitEstablishesOtpInv, NextPreservesOtpInv, PTL DEF Spec

(* No code is ever compared with more than MaxAttempts wrong guesses, for any
   limits, TTLs and interleaving of sends, guesses and expiry. *)
THEOREM GuessesAlwaysBounded == Spec => []GuessesPerCode
<1>1. OtpInv => GuessesPerCode
  BY DEF OtpInv, CodeInv, GuessesPerCode
<1> QED
  BY OtpInvInvariant, <1>1, PTL

(* A stored code is never blocked by an exhausted counter. *)
THEOREM StoredCodeAlwaysUsable == Spec => []StoredCodeIsUsable
<1>1. OtpInv => StoredCodeIsUsable
  BY DEF OtpInv, CodeInv, StoredCodeIsUsable, Guessable
<1> QED
  BY OtpInvInvariant, <1>1, PTL

(* A code is accepted at most once. *)
THEOREM CodesConsumedOnce == Spec => []ConsumedOnce
<1>1. OtpInv => ConsumedOnce
  BY DEF OtpInv, CodeInv, ConsumedOnce
<1> QED
  BY OtpInvInvariant, <1>1, PTL

-----------------------------------------------------------------------------
(* The one-time codes of OneTimeCode.  Their promise first, from the abstract
   steps alone: AttemptsLeft is never expanded in it. *)
BudgetInv ==
    /\ otp \in [Purposes -> Codes \cup {NoCode}]
    /\ AttemptsLeft \in [Purposes -> Nat]
    /\ wrong \in [Purposes -> Nat]
    /\ uses \in [Purposes -> Nat]
    /\ \A p \in Purposes : otp[p] = NoCode => AttemptsLeft[p] = 0
    /\ OneTime!BudgetKept

LEMMA BudgetStep == BudgetInv /\ [OneTime!Next]_(OneTime!codeVars) => BudgetInv'
<1> SUFFICES ASSUME BudgetInv, [OneTime!Next]_(OneTime!codeVars) PROVE BudgetInv'
  OBVIOUS
<1> USE OtpAssumption DEF BudgetInv, OneTime!BudgetKept
<1>1. CASE OneTime!Expire
  BY <1>1 DEF OneTime!Expire, OneTime!End
<1>2. ASSUME NEW p \in Purposes, OneTime!Issue(p) PROVE BudgetInv'
  BY <1>2 DEF OneTime!Issue
<1>3. ASSUME NEW p \in Purposes, OneTime!Accept(p) PROVE BudgetInv'
  BY <1>3 DEF OneTime!Accept, OneTime!End
<1>4. ASSUME NEW p \in Purposes, OneTime!WrongGuess(p) PROVE BudgetInv'
  <2>1. CASE AttemptsLeft[p] = 1 /\ OneTime!End({p})
    BY <1>4, <2>1 DEF OneTime!WrongGuess, OneTime!End
  <2>2. CASE /\ AttemptsLeft[p] > 1
             /\ AttemptsLeft' = [AttemptsLeft EXCEPT ![p] = @ - 1]
             /\ UNCHANGED otp
    BY <1>4, <2>2 DEF OneTime!WrongGuess
  <2> QED
    BY <1>4, <2>1, <2>2 DEF OneTime!WrongGuess
<1>5. CASE UNCHANGED OneTime!codeVars
  BY <1>5 DEF OneTime!codeVars
<1> QED
  BY <1>1, <1>2, <1>3, <1>4, <1>5 DEF OneTime!Next

(* In every behaviour of the abstract codes, for any purposes and any budget: a
   code that is out has guesses left, which with the wrong ones made at it add up
   to its budget, and was never accepted; no code is guessed at more often than
   its budget or accepted twice. *)
THEOREM OneTimeCodesKeepBudget == OneTime!Spec => []OneTime!BudgetKept
<1>1. OneTime!Init => BudgetInv
  BY OtpAssumption DEF OneTime!Init, BudgetInv, OneTime!BudgetKept
<1>2. BudgetInv => OneTime!BudgetKept
  BY DEF BudgetInv
<1> QED
  BY <1>1, <1>2, BudgetStep, PTL DEF OneTime!Spec

(* How AttemptsLeft moves with the two variables it is made of. *)
LEMMA AttemptsLeftMoves ==
    ASSUME OtpInv
    PROVE  /\ \A p \in Purposes :
                 AttemptsLeft[p] = IF otp[p] = NoCode THEN 0 ELSE MaxAttempts - attempts[p]
           /\ \A p \in Purposes :
                 AttemptsLeft'[p] = IF otp'[p] = NoCode THEN 0 ELSE MaxAttempts - attempts'[p]
           /\ AttemptsLeft \in [Purposes -> Nat]
           /\ AttemptsLeft' = [p \in Purposes |-> AttemptsLeft'[p]]
  BY OtpAssumption DEF AttemptsLeft, OtpInv, CodeInv, Counters

(* Each script run is one step of the abstract codes or none. *)
LEMMA StepIsCodeStep == OtpInv /\ [Next]_vars => [OneTime!Next]_(OneTime!codeVars)
<1> SUFFICES ASSUME OtpInv, [Next]_vars PROVE OneTime!Next \/ UNCHANGED OneTime!codeVars
  OBVIOUS
<1>0. /\ otp \in [Purposes -> Codes \cup {NoCode}] /\ attempts \in [Purposes -> Nat]
      /\ otp = [p \in Purposes |-> otp[p]]
      /\ \A p \in Purposes : CodeInv(p)
  BY DEF OtpInv, Counters
<1>a. /\ \A p \in Purposes :
            AttemptsLeft[p] = IF otp[p] = NoCode THEN 0 ELSE MaxAttempts - attempts[p]
      /\ \A p \in Purposes :
            AttemptsLeft'[p] = IF otp'[p] = NoCode THEN 0 ELSE MaxAttempts - attempts'[p]
      /\ AttemptsLeft \in [Purposes -> Nat]
      /\ AttemptsLeft' = [p \in Purposes |-> AttemptsLeft'[p]]
  BY AttemptsLeftMoves
<1>1. ASSUME NEW s \in Senders, SaveOtp(s) PROVE \E p \in Purposes : OneTime!Issue(p)
  <2> DEFINE q == job[s]
  <2>1. q \in Purposes
    BY DEF OtpInv, Counters
  <2>2. PICK c \in Codes : otp' = [otp EXCEPT ![q] = c]
    BY <1>1 DEF SaveOtp
  <2>3. /\ attempts' = [attempts EXCEPT ![q] = 0]
        /\ wrong' = [wrong EXCEPT ![q] = 0]
        /\ uses' = [uses EXCEPT ![q] = 0]
    BY <1>1 DEF SaveOtp
  <2> HIDE DEF q
  <2>4. AttemptsLeft' = [AttemptsLeft EXCEPT ![q] = MaxAttempts]
    BY <1>0, <1>a, <2>1, <2>2, <2>3, OtpAssumption
  <2> QED
    BY <2>1, <2>2, <2>3, <2>4 DEF OneTime!Issue
<1>2. ASSUME NEW p \in Purposes, NEW c \in Codes, Consume(p, c) PROVE OneTime!Accept(p)
  <2>1. /\ otp[p] # NoCode
        /\ otp' = [otp EXCEPT ![p] = NoCode] /\ attempts' = [attempts EXCEPT ![p] = 0]
        /\ uses' = [uses EXCEPT ![p] = @ + 1] /\ UNCHANGED wrong
    BY <1>2, OtpAssumption DEF Consume
  <2>2. OneTime!End({p})
    BY <1>0, <1>a, <2>1 DEF OneTime!End
  <2> QED
    BY <2>1, <2>2 DEF OneTime!Accept
<1>3. ASSUME NEW p \in Purposes, NEW c \in Codes, Reject(p, c) PROVE OneTime!WrongGuess(p)
  <2>1. /\ otp[p] # NoCode /\ attempts[p] < MaxAttempts
        /\ attempts' = [attempts EXCEPT ![p] = @ + 1]
        /\ wrong' = [wrong EXCEPT ![p] = @ + 1] /\ UNCHANGED uses
    BY <1>3 DEF Reject, SpendAttempt, Guessable
  <2>2. CASE LastAttempt(p)
    <3>1. otp' = [otp EXCEPT ![p] = NoCode] /\ AttemptsLeft[p] = 1
      BY <1>0, <1>3, <1>a, <2>1, <2>2, OtpAssumption DEF Reject, LastAttempt
    <3>2. OneTime!End({p})
      BY <1>0, <1>a, <2>1, <3>1 DEF OneTime!End
    <3> QED
      BY <2>1, <3>1, <3>2 DEF OneTime!WrongGuess
  <2>3. CASE ~LastAttempt(p)
    <3>1. UNCHANGED otp /\ AttemptsLeft[p] > 1
      BY <1>0, <1>3, <1>a, <2>1, <2>3, OtpAssumption DEF Reject, LastAttempt
    <3>2. AttemptsLeft' = [AttemptsLeft EXCEPT ![p] = @ - 1]
      BY <1>0, <1>a, <2>1, <3>1, OtpAssumption
    <3> QED
      BY <2>1, <3>1, <3>2 DEF OneTime!WrongGuess
  <2> QED
    BY <2>2, <2>3
<1>4. ASSUME UNCHANGED <<otp, wrong, uses>>,
             \A p \in Purposes : otp[p] # NoCode => attempts'[p] = attempts[p]
      PROVE  UNCHANGED OneTime!codeVars
  <2>1. \A p \in Purposes : AttemptsLeft'[p] = AttemptsLeft[p]
    BY <1>4, <1>a
  <2>2. AttemptsLeft' = AttemptsLeft
    BY <1>a, <2>1
  <2> QED
    BY <1>4, <2>2 DEF OneTime!codeVars
<1>5. ASSUME NEW p \in Purposes, NothingToVerify(p) PROVE UNCHANGED OneTime!codeVars
  BY <1>0, <1>4, <1>5 DEF NothingToVerify
<1>6. CASE Tick
  <2> DEFINE P == {p \in Purposes : otpTtl[p] = 1}
  <2>1. /\ otp' = [p \in Purposes |-> Kept(otp[p], otpTtl[p], NoCode)]
        /\ \A p \in Purposes : attempts'[p] = Kept(attempts[p], attemptsTtl[p], 0)
        /\ UNCHANGED <<wrong, uses>>
    BY <1>6 DEF Tick
  <2>2. otp' = [p \in Purposes |-> IF p \in P THEN NoCode ELSE otp[p]]
    BY <2>1 DEF Kept
  <2>3. ASSUME NEW p \in Purposes, otp[p] # NoCode, p \notin P
        PROVE  attempts'[p] = attempts[p]
    BY <1>0, <2>1, <2>3 DEF CodeInv, Kept, OtpInv, Counters
  <2>4. \A p \in Purposes : AttemptsLeft'[p] = IF p \in P THEN 0 ELSE AttemptsLeft[p]
    BY <1>a, <2>2, <2>3
  <2>5. OneTime!End(P)
    <3>1. AttemptsLeft' = [p \in Purposes |-> IF p \in P THEN 0 ELSE AttemptsLeft[p]]
      BY <1>a, <2>4
    <3> QED
      BY <2>2, <3>1 DEF OneTime!End
  <2> QED
    BY <2>1, <2>5 DEF OneTime!Next, OneTime!Expire
<1>7. CASE UNCHANGED <<otp, attempts, wrong, uses>>
  BY <1>4, <1>7
<1> QED
  BY <1>1, <1>2, <1>3, <1>5, <1>6, <1>7
  DEF Next, AcquireSendSlot, SaveFails, redis, vars, OneTime!Next

(* The four Redis keys of a purpose, each with its own TTL, and the three scripts
   implement one-time codes, however sends, guesses and expiries interleave and
   whatever the limits (otp.py:70-205). *)
THEOREM ScriptsImplementOneTimeCode == Spec => ImplementsOneTimeCode
<1>1. Init => OneTime!Init
  BY DEF Init, OneTime!Init, AttemptsLeft
<1> QED
  BY <1>1, StepIsCodeStep, OtpInvInvariant, PTL DEF Spec, ImplementsOneTimeCode, OneTime!Spec

-----------------------------------------------------------------------------
(* Types: no counter passes its limit, no TTL the one it was set to. *)
LEMMA TypeStep == TypeOK /\ [Next]_vars => TypeOK'
<1> SUFFICES ASSUME TypeOK, [Next]_vars PROVE TypeOK'
  OBVIOUS
<1> USE OtpAssumption DEF TypeOK
<1>1. ASSUME NEW s \in Senders, NEW p \in Purposes, AcquireSendSlot(s, p) PROVE TypeOK'
  <2>1. count[p] < MaxSends
    BY <1>1 DEF AcquireSendSlot, SlotFree
  <2>2. count[p] + 1 \in 0..MaxSends /\ Window \in 0..Window /\ Cooldown \in 0..Cooldown
    BY <2>1
  <2>3. /\ count' = [count EXCEPT ![p] = count[p] + 1]
        /\ countTtl' = [countTtl EXCEPT ![p] = IF count[p] = 0 THEN Window ELSE countTtl[p]]
        /\ cooldownTtl' = [cooldownTtl EXCEPT ![p] = Cooldown]
        /\ pc' = [pc EXCEPT ![s] = "slot"] /\ job' = [job EXCEPT ![s] = p]
        /\ UNCHANGED <<otp, otpTtl, attempts, attemptsTtl, wrong, uses>>
    BY <1>1 DEF AcquireSendSlot, CountSend
  <2>4. count' \in [Purposes -> 0..MaxSends] /\ countTtl' \in [Purposes -> 0..Window]
        /\ cooldownTtl' \in [Purposes -> 0..Cooldown]
    BY <2>2, <2>3
  <2> QED
    BY <2>3, <2>4
<1>2. ASSUME NEW s \in Senders, SaveOtp(s) PROVE TypeOK'
  BY <1>2 DEF SaveOtp
<1>3. ASSUME NEW s \in Senders, SaveFails(s) PROVE TypeOK'
  BY <1>3 DEF SaveFails, redis
<1>4. ASSUME NEW p \in Purposes, NothingToVerify(p) PROVE TypeOK'
  BY <1>4 DEF NothingToVerify
<1>5. ASSUME NEW p \in Purposes, NEW c \in Codes, Consume(p, c) PROVE TypeOK'
  BY <1>5 DEF Consume
<1>6. ASSUME NEW p \in Purposes, NEW c \in Codes, Reject(p, c) PROVE TypeOK'
  <2>1. attempts[p] < MaxAttempts
    BY <1>6 DEF Reject, Guessable
  <2>2. RemainingTtl(p) \subseteq 0..Ttl
    BY DEF RemainingTtl
  <2>3. attempts' \in [Purposes -> 0..MaxAttempts] /\ attemptsTtl' \in [Purposes -> 0..Ttl]
    BY <1>6, <2>1, <2>2 DEF Reject, SpendAttempt
  <2>4. otp' \in [Purposes -> Codes \cup {NoCode}] /\ otpTtl' \in [Purposes -> 0..Ttl]
    BY <1>6 DEF Reject
  <2>5. /\ wrong' = [wrong EXCEPT ![p] = wrong[p] + 1]
        /\ UNCHANGED <<cooldownTtl, count, countTtl, pc, job, uses>>
    BY <1>6 DEF Reject
  <2>6. wrong' \in [Purposes -> Nat]
    BY <2>5
  <2> QED
    BY <2>3, <2>4, <2>5, <2>6
<1>7. CASE Tick
  <2>1. \A b \in Nat : \A t \in 0..b : Aged(t) \in 0..b
    BY DEF Aged
  <2>2. /\ otpTtl' \in [Purposes -> 0..Ttl] /\ attemptsTtl' \in [Purposes -> 0..Ttl]
        /\ cooldownTtl' \in [Purposes -> 0..Cooldown] /\ countTtl' \in [Purposes -> 0..Window]
    BY <1>7, <2>1 DEF Tick
  <2>3. /\ attempts' \in [Purposes -> 0..MaxAttempts] /\ count' \in [Purposes -> 0..MaxSends]
        /\ otp' \in [Purposes -> Codes \cup {NoCode}]
    <3>1. /\ \A p \in Purposes : Kept(attempts[p], attemptsTtl[p], 0) \in 0..MaxAttempts
          /\ \A p \in Purposes : Kept(count[p], countTtl[p], 0) \in 0..MaxSends
          /\ \A p \in Purposes : Kept(otp[p], otpTtl[p], NoCode) \in Codes \cup {NoCode}
      BY DEF Kept
    <3>2. /\ attempts' = [p \in Purposes |-> Kept(attempts[p], attemptsTtl[p], 0)]
          /\ count' = [p \in Purposes |-> Kept(count[p], countTtl[p], 0)]
          /\ otp' = [p \in Purposes |-> Kept(otp[p], otpTtl[p], NoCode)]
      BY <1>7 DEF Tick
    <3> QED
      BY <3>1, <3>2
  <2>4. UNCHANGED <<pc, job, wrong, uses>>
    BY <1>7 DEF Tick
  <2> QED
    BY <2>2, <2>3, <2>4
<1>8. CASE UNCHANGED vars
  BY <1>8 DEF vars, redis
<1> QED
  BY <1>1, <1>2, <1>3, <1>4, <1>5, <1>6, <1>7, <1>8 DEF Next

(* The send count and the guesses of a code never pass their limits, whatever
   the interleaving (otp.py:80-94, 154-187). *)
THEOREM OtpTyped == Spec => []TypeOK
<1>1. Init => TypeOK
  BY OtpAssumption DEF Init, TypeOK
<1> QED
  BY <1>1, TypeStep, PTL DEF Spec

-----------------------------------------------------------------------------
(* How many numbers there are up to n. *)
LEMMA UpTo ==
    ASSUME NEW n \in Nat
    PROVE  IsFiniteSet(1..n) /\ Cardinality(1..n) = n
<1>1. IsFiniteSet(1..n) /\ Cardinality(1..n) = IF 1 > n THEN 0 ELSE n - 1 + 1
  BY FS_Interval
<1> QED
  BY <1>1

(* What a tick leaves of a log of ages: a suffix, a tick older, without the
   first m entries if these are a Window old. *)
LEMMA OlderIsASuffix ==
    ASSUME NEW ages \in Seq(Nat)
    PROVE  \E gone \in 0..Len(ages) :
              /\ Older(ages) \in Seq(Nat)
              /\ Len(Older(ages)) = Len(ages) - gone
              /\ \A i \in 1..(Len(ages) - gone) : Older(ages)[i] = ages[i + gone] + 1
              /\ \A m \in 0..Len(ages) :
                    (\A i \in 1..m : ages[i] + 1 >= Window) => gone >= m
<1>0. Len(ages) \in Nat /\ DOMAIN ages = 1..Len(ages)
  OBVIOUS
<1>1. IsFiniteSet(1..Len(ages)) /\ Cardinality(1..Len(ages)) = Len(ages)
  BY <1>0, UpTo
<1> DEFINE old == {n \in DOMAIN ages : ages[n] + 1 >= Window}
           gone == Cardinality(old)
<1>2. old \in SUBSET (1..Len(ages))
  OBVIOUS
<1>3. IsFiniteSet(old) /\ gone <= Len(ages)
  BY <1>1, <1>2, FS_Subset
<1>4. gone \in 0..Len(ages)
  BY <1>3, FS_CardinalityType
<1>5. ASSUME NEW m \in 0..Len(ages), \A i \in 1..m : ages[i] + 1 >= Window
      PROVE  gone >= m
  <2>1. 1..m \in SUBSET old
    BY <1>5
  <2>2. Cardinality(1..m) = m
    BY UpTo
  <2> QED
    BY <1>3, <2>1, <2>2, FS_Subset
<1>6. Older(ages) = [n \in 1..(Len(ages) - gone) |-> ages[n + gone] + 1]
  BY DEF Older
<1> HIDE DEF gone
<1>7. \A n \in 1..(Len(ages) - gone) : ages[n + gone] + 1 \in Nat
  BY <1>4
<1>8. Older(ages) \in Seq(Nat) /\ Len(Older(ages)) = Len(ages) - gone
  BY <1>4, <1>6, <1>7
<1> QED
  BY <1>4, <1>5, <1>6, <1>8

(* The log of one purpose.  A running window of count > 0 slots began
   Window - countTtl ticks ago with its first slot: its slots are the last count
   of the log, and that first slot and those before it are at least as old.
   Fewer than MaxSends of the windows before are still in the log, and they
   leave it with the first slot when the window ends. *)
WindowLog(log, n, ttl) ==
    /\ n = 0 <=> ttl = 0
    /\ Len(log) < n + MaxSends
    /\ n > 0 => \A i \in 1..(Len(log) - n + 1) : log[i] >= Window - ttl

(* The last slot is as old as its cooldown has run, so that the next one, which
   waits for the end of it, keeps the distance. *)
Spaced(log, ttl) ==
    /\ Len(log) > 0 => log[Len(log)] >= Cooldown - ttl
    /\ \A i \in 1..(Len(log) - 1) : log[i] >= log[i + 1] + Cooldown

SlotInv(p) ==
    /\ WindowLog(slots[p], count[p], countTtl[p])
    /\ Spaced(slots[p], cooldownTtl[p])

SendInv ==
    /\ TypeOK
    /\ slots \in [Purposes -> Seq(Nat)]
    /\ \A p \in Purposes : SlotInv(p)

(* Granting a slot: with count = 0 the whole log is of the window before. *)
LEMMA GrantKeepsLog ==
    ASSUME NEW log \in Seq(Nat), NEW n \in 0..(MaxSends - 1), NEW ttl \in 0..Window,
           WindowLog(log, n, ttl), Spaced(log, 0)
    PROVE  /\ Append(log, 0) \in Seq(Nat)
           /\ WindowLog(Append(log, 0), n + 1, IF n = 0 THEN Window ELSE ttl)
           /\ Spaced(Append(log, 0), Cooldown)
<1> DEFINE new == Append(log, 0)
<1>1. /\ new \in Seq(Nat) /\ Len(log) \in Nat /\ Len(new) = Len(log) + 1
      /\ new[Len(log) + 1] = 0
      /\ \A i \in 1..Len(log) : new[i] = log[i] /\ log[i] \in Nat
  OBVIOUS
<1> HIDE DEF new
<1>2. WindowLog(new, n + 1, IF n = 0 THEN Window ELSE ttl)
  <2>1. Len(log) < n + MaxSends /\ (n = 0 <=> ttl = 0)
    BY DEF WindowLog
  <2>2. Len(new) < n + 1 + MaxSends
    BY <1>1, <2>1, OtpAssumption
  <2>3. ASSUME NEW i \in 1..(Len(new) - (n + 1) + 1)
        PROVE  new[i] >= Window - (IF n = 0 THEN Window ELSE ttl)
    <3>1. CASE n = 0
      <4>1. i \in 1..(Len(log) + 1) /\ new[i] \in Nat
        BY <1>1, <3>1
      <4> QED
        BY <3>1, <4>1, OtpAssumption
    <3>2. CASE n > 0
      <4>1. i \in 1..Len(log) /\ i \in 1..(Len(log) - n + 1)
        BY <1>1, <3>2
      <4>2. new[i] = log[i] /\ log[i] \in Nat
        BY <1>1, <4>1
      <4>3. log[i] >= Window - ttl
        BY <3>2, <4>1 DEF WindowLog
      <4> QED
        BY <3>2, <4>2, <4>3
    <3> QED
      BY <3>1, <3>2
  <2> QED
    BY <2>1, <2>2, <2>3, OtpAssumption DEF WindowLog
<1>3. Spaced(new, Cooldown)
  <2>1. new[Len(new)] = 0
    BY <1>1
  <2>2. ASSUME NEW i \in 1..(Len(new) - 1) PROVE new[i] >= new[i + 1] + Cooldown
    <3>1. i \in 1..Len(log) /\ new[i] = log[i]
      BY <1>1
    <3>2. CASE i = Len(log)
      BY <1>1, <3>1, <3>2, OtpAssumption DEF Spaced
    <3>3. CASE i # Len(log)
      <4>1. i \in 1..(Len(log) - 1) /\ i + 1 \in 1..Len(log)
        BY <1>1, <3>1, <3>3
      <4>2. new[i + 1] = log[i + 1]
        BY <1>1, <4>1
      <4> QED
        BY <3>1, <4>1, <4>2 DEF Spaced
    <3> QED
      BY <3>2, <3>3
  <2> QED
    BY <2>1, <2>2, OtpAssumption DEF Spaced
<1> QED
  BY <1>1, <1>2, <1>3 DEF new

(* A tick; with ttl = 1 the window ends, and everything before it is gone. *)
LEMMA TickKeepsLog ==
    ASSUME NEW log \in Seq(Nat), NEW n \in 0..MaxSends, NEW ttl \in 0..Window,
           NEW wait \in 0..Cooldown, WindowLog(log, n, ttl), Spaced(log, wait)
    PROVE  /\ Older(log) \in Seq(Nat)
           /\ WindowLog(Older(log), Kept(n, ttl, 0), Aged(ttl))
           /\ Spaced(Older(log), Aged(wait))
<1> DEFINE new == Older(log)
<1>1. PICK gone \in 0..Len(log) :
         /\ new \in Seq(Nat)
         /\ Len(new) = Len(log) - gone
         /\ \A i \in 1..(Len(log) - gone) : new[i] = log[i + gone] + 1
         /\ \A m \in 0..Len(log) :
               (\A i \in 1..m : log[i] + 1 >= Window) => gone >= m
  BY OlderIsASuffix
<1>2. Len(log) \in Nat /\ \A i \in 1..Len(log) : log[i] \in Nat
  OBVIOUS
<1> HIDE DEF new
<1>3. WindowLog(new, Kept(n, ttl, 0), Aged(ttl))
  <2>1. CASE ttl = 0
    <3>1. n = 0 /\ Kept(n, ttl, 0) = 0 /\ Aged(ttl) = 0
      BY <2>1 DEF WindowLog, Kept, Aged
    <3>2. Len(log) < 0 + MaxSends
      BY <3>1 DEF WindowLog
    <3>3. Len(new) < 0 + MaxSends
      BY <1>1, <1>2, <3>2, OtpAssumption
    <3> QED
      BY <3>1, <3>3 DEF WindowLog
  <2>2. CASE ttl = 1
    <3>1. n > 0 /\ Kept(n, ttl, 0) = 0 /\ Aged(ttl) = 0
      BY <2>2 DEF WindowLog, Kept, Aged
    <3>2. CASE Len(log) < n
      <4>1. Len(new) < MaxSends
        BY <1>1, <1>2, <3>2, OtpAssumption
      <4>2. Len(new) < 0 + MaxSends
        BY <1>1, <4>1, OtpAssumption
      <4> QED
        BY <3>1, <4>2 DEF WindowLog
    <3>3. CASE Len(log) >= n
      <4>1. \A i \in 1..(Len(log) - n + 1) : log[i] + 1 >= Window
        BY <1>2, <2>2, <3>1, OtpAssumption DEF WindowLog
      <4>2. Len(log) - n + 1 \in 0..Len(log)
        BY <1>2, <3>1, <3>3
      <4>3. gone >= Len(log) - n + 1
        BY <1>1, <4>1, <4>2
      <4>4. Len(new) < n
        BY <1>1, <1>2, <4>3
      <4> QED
        BY <1>1, <3>1, <4>4, OtpAssumption DEF WindowLog
    <3> QED
      BY <1>2, <3>2, <3>3
  <2>3. CASE ttl > 1
    <3>1. n > 0 /\ Kept(n, ttl, 0) = n /\ Aged(ttl) = ttl - 1
      BY <2>3 DEF WindowLog, Kept, Aged
    <3>2. Len(new) < n + MaxSends
      BY <1>1, <1>2, OtpAssumption DEF WindowLog
    <3>3. ASSUME NEW i \in 1..(Len(new) - n + 1) PROVE new[i] >= Window - (ttl - 1)
      <4>1. i + gone \in 1..(Len(log) - n + 1) /\ i \in 1..(Len(log) - gone)
        BY <1>1, <1>2, <3>1
      <4>2. log[i + gone] >= Window - ttl /\ log[i + gone] \in Nat
        BY <1>2, <3>1, <4>1 DEF WindowLog
      <4>3. new[i] = log[i + gone] + 1
        BY <1>1, <4>1
      <4>4. \A age \in Nat : age >= Window - ttl => age + 1 >= Window - (ttl - 1)
        BY OtpAssumption
      <4> QED
        BY <4>2, <4>3, <4>4
    <3> QED
      BY <2>3, <3>1, <3>2, <3>3 DEF WindowLog
  <2> QED
    BY <2>1, <2>2, <2>3
<1>4. \A older, younger \in Nat :
         older >= younger + Cooldown => older + 1 >= younger + 1 + Cooldown
  BY OtpAssumption
<1>5. Spaced(new, Aged(wait))
  <2>1. ASSUME Len(new) > 0 PROVE new[Len(new)] >= Cooldown - Aged(wait)
    <3>1. new[Len(new)] = log[Len(log)] + 1 /\ Len(log) > 0
      <4>1. Len(new) \in 1..(Len(log) - gone) /\ Len(new) + gone = Len(log)
        BY <1>1, <1>2, <2>1
      <4>2. new[Len(new)] = log[Len(new) + gone] + 1
        BY <1>1, <4>1
      <4> QED
        BY <1>1, <1>2, <4>1, <4>2
    <3>2. log[Len(log)] >= Cooldown - wait /\ log[Len(log)] \in Nat
      BY <1>2, <3>1 DEF Spaced
    <3> QED
      BY <3>1, <3>2, OtpAssumption DEF Aged
  <2>2. ASSUME NEW i \in 1..(Len(new) - 1) PROVE new[i] >= new[i + 1] + Cooldown
    <3>1. i \in 1..(Len(log) - gone) /\ i + 1 \in 1..(Len(log) - gone)
      BY <1>1, <1>2
    <3>2. PICK j \in 1..(Len(log) - 1) :
             j = i + gone /\ j + 1 = (i + 1) + gone /\ j + 1 \in 1..Len(log)
      BY <1>1, <1>2, <3>1
    <3>3. new[i] = log[j] + 1 /\ new[i + 1] = log[j + 1] + 1
      BY <1>1, <3>1, <3>2
    <3>4. log[j] \in Nat /\ log[j + 1] \in Nat
      BY <1>2, <3>2
    <3>5. log[j] >= log[j + 1] + Cooldown
      BY <3>2 DEF Spaced
    <3>6. log[j] + 1 >= log[j + 1] + 1 + Cooldown
      BY <1>4, <3>4, <3>5
    <3> QED
      BY <3>3, <3>6
  <2> QED
    BY <2>1, <2>2 DEF Spaced
<1> QED
  BY <1>1, <1>3, <1>5 DEF new

LEMMA SendStep == SendInv /\ [Next]_vars => SendInv'
<1> SUFFICES ASSUME SendInv, [Next]_vars PROVE SendInv'
  OBVIOUS
<1>0. TypeOK /\ TypeOK' /\ slots \in [Purposes -> Seq(Nat)]
      /\ \A p \in Purposes : SlotInv(p)
  BY TypeStep DEF SendInv
<1>n. ASSUME NEW p \in Purposes
      PROVE  /\ slots[p] \in Seq(Nat) /\ count[p] \in 0..MaxSends
             /\ countTtl[p] \in 0..Window /\ cooldownTtl[p] \in 0..Cooldown
             /\ WindowLog(slots[p], count[p], countTtl[p])
             /\ Spaced(slots[p], cooldownTtl[p])
  BY <1>0 DEF TypeOK, SlotInv
<1>1. ASSUME NEW s \in Senders, NEW p \in Purposes, AcquireSendSlot(s, p)
      PROVE  SendInv'
  <2>0. slots' \in [Purposes -> Seq(Nat)]
    <3>1. Append(slots[p], 0) \in Seq(Nat)
      BY <1>n
    <3> QED
      BY <1>1, <1>0, <3>1 DEF AcquireSendSlot
  <2> SUFFICES ASSUME NEW q \in Purposes PROVE SlotInv(q)'
    BY <2>0, <1>0 DEF SendInv
  <2>1. CASE q # p
    <3>1. slots'[q] = slots[q] /\ count'[q] = count[q] /\ countTtl'[q] = countTtl[q]
          /\ cooldownTtl'[q] = cooldownTtl[q]
      BY <1>1, <2>1 DEF AcquireSendSlot, CountSend
    <3> QED
      BY <3>1, <1>n DEF SlotInv
  <2>2. CASE q = p
    <3>1. cooldownTtl[p] = 0 /\ count[p] < MaxSends
      BY <1>1 DEF AcquireSendSlot, SlotFree
    <3>2. /\ slots'[p] = Append(slots[p], 0) /\ count'[p] = count[p] + 1
          /\ countTtl'[p] = IF count[p] = 0 THEN Window ELSE countTtl[p]
          /\ cooldownTtl'[p] = Cooldown
      BY <1>1, <1>0 DEF AcquireSendSlot, CountSend, TypeOK
    <3>3. count[p] \in 0..(MaxSends - 1)
      BY <1>n, <3>1, OtpAssumption
    <3> QED
      BY <1>n, <2>2, <3>1, <3>2, <3>3, GrantKeepsLog DEF SlotInv
  <2> QED
    BY <2>1, <2>2
<1>2. CASE Tick
  <2>1. ASSUME NEW q \in Purposes PROVE SlotInv(q)'
    <3>1. slots'[q] = Older(slots[q]) /\ count'[q] = Kept(count[q], countTtl[q], 0)
          /\ countTtl'[q] = Aged(countTtl[q]) /\ cooldownTtl'[q] = Aged(cooldownTtl[q])
      BY <1>2 DEF Tick
    <3> QED
      BY <1>n, <3>1, TickKeepsLog DEF SlotInv
  <2>2. slots' \in [Purposes -> Seq(Nat)]
    BY <1>2, <1>n, OlderIsASuffix DEF Tick
  <2> QED
    BY <2>1, <2>2, <1>0 DEF SendInv
<1>3. CASE UNCHANGED <<slots, count, countTtl, cooldownTtl>>
  BY <1>0, <1>3 DEF SendInv, SlotInv
<1> QED
  BY <1>0, <1>1, <1>2, <1>3
  DEF Next, SendInv, SaveOtp, SaveFails, NothingToVerify, Consume, Reject, vars, redis

LEMMA SendInvInvariant == Spec => []SendInv
<1>1. Init => SendInv
  BY OtpAssumption DEF Init, SendInv, TypeOK, SlotInv, WindowLog, Spaced
<1> QED
  BY <1>1, SendStep, PTL DEF Spec

(* Every stretch of one window's length, wherever it begins, holds fewer slots
   than two windows grant, and two slots are a cooldown apart, for any limits and
   however sends, refusals and the expiry of the two keys interleave
   (otp.py:80-94). *)
THEOREM SendRateAlwaysBounded == Spec => []SendRateBounded
<1>1. SendInv => SendRateBounded
  <2> SUFFICES ASSUME SendInv, NEW p \in Purposes
               PROVE  /\ Len(slots[p]) < 2 * MaxSends
                      /\ \A i \in 1..(Len(slots[p]) - 1) :
                            slots[p][i] >= slots[p][i + 1] + Cooldown
    BY DEF SendRateBounded
  <2>1. slots[p] \in Seq(Nat) /\ Len(slots[p]) < count[p] + MaxSends
        /\ count[p] \in 0..MaxSends
    BY DEF SendInv, SlotInv, WindowLog, TypeOK
  <2>2. Len(slots[p]) < 2 * MaxSends
    BY <2>1, OtpAssumption
  <2> QED
    BY <2>2 DEF SendInv, SlotInv, Spaced
<1> QED
  BY <1>1, SendInvInvariant, PTL
=============================================================================
