-------------------------- MODULE OneTimePassword --------------------------
(* OTPService (service/otp.py) for one e-mail address: one set of Redis keys
   per purpose, three Lua scripts, each atomic.  Time is a Tick; a key's TTL
   counts down and the key is gone at 0.  Any number of handlers send codes
   (slot first, code saved by a second script, either call may fail) and any
   number verify.                                                           *)
EXTENDS Naturals, Sequences, FiniteSets

CONSTANTS
    Purposes,       \* "signup", "reset", "password_change"
    Senders,        \* concurrent handlers that send a code
    Codes,          \* six-digit codes
    NoCode,
    Ttl,            \* ttl
    Cooldown,       \* cooldown
    Window,         \* send_window
    MaxSends,       \* max_sends
    MaxAttempts     \* max_verify_attempts

ASSUME OtpAssumption ==
    /\ NoCode \notin Codes
    /\ Ttl \in Nat \ {0} /\ Cooldown \in Nat \ {0} /\ Window \in Nat \ {0}
    /\ MaxSends \in Nat \ {0} /\ MaxAttempts \in Nat \ {0}

VARIABLES
    otp,            \* otp:{purpose}:{email}, NoCode when the key is absent
    otpTtl,
    attempts,       \* otp:verify-attempts, 0 when absent
    attemptsTtl,
    cooldownTtl,    \* otp:cooldown, absent at 0
    count,          \* otp:send-count, 0 when absent
    countTtl,
    pc,             \* per sender: "idle" or "slot"
    job,            \* per sender: the purpose it sends for
    wrong,          \* history: failed guesses at the code now or last stored
    uses,           \* history: VERIFIED answers for that code
    slots           \* history: ages of the slots granted in the last Window ticks

redis == <<otp, otpTtl, attempts, attemptsTtl, cooldownTtl, count, countTtl>>
vars == <<redis, pc, job, wrong, uses, slots>>

Init ==
    /\ otp = [p \in Purposes |-> NoCode]
    /\ otpTtl = [p \in Purposes |-> 0]
    /\ attempts = [p \in Purposes |-> 0]
    /\ attemptsTtl = [p \in Purposes |-> 0]
    /\ cooldownTtl = [p \in Purposes |-> 0]
    /\ count = [p \in Purposes |-> 0]
    /\ countTtl = [p \in Purposes |-> 0]
    /\ pc = [s \in Senders |-> "idle"]
    /\ job \in [Senders -> Purposes]
    /\ wrong = [p \in Purposes |-> 0]
    /\ uses = [p \in Purposes |-> 0]
    /\ slots = [p \in Purposes |-> <<>>]

-----------------------------------------------------------------------------
SlotFreeDuringCooldown(p) == count[p] < MaxSends
SlotFreeOneMore(p) == cooldownTtl[p] = 0 /\ count[p] <= MaxSends
SlotFree(p) == cooldownTtl[p] = 0 /\ count[p] < MaxSends

CountSendWithoutExpiry(p) ==
    /\ count' = [count EXCEPT ![p] = @ + 1]
    /\ UNCHANGED countTtl

(* INCR, and EXPIRE when the counter is new. *)
CountSend(p) ==
    /\ count' = [count EXCEPT ![p] = @ + 1]
    /\ countTtl' = [countTtl EXCEPT ![p] = IF count[p] = 0 THEN Window ELSE @]

(* OTP_ACQUIRE_SEND_SLOT answering 1 (answering 0 changes nothing). *)
AcquireSendSlot(s, p) ==
    /\ pc[s] = "idle"
    /\ SlotFree(p)
    /\ cooldownTtl' = [cooldownTtl EXCEPT ![p] = Cooldown]
    /\ CountSend(p)
    /\ pc' = [pc EXCEPT ![s] = "slot"]
    /\ job' = [job EXCEPT ![s] = p]
    /\ slots' = [slots EXCEPT ![p] = Append(@, 0)]
    /\ UNCHANGED <<otp, otpTtl, attempts, attemptsTtl, wrong, uses>>

(* OTP_SAVE_AND_RESET_ATTEMPTS with a fresh code; the mail follows the answer. *)
SaveOtp(s) ==
    LET p == job[s] IN
    /\ pc[s] = "slot"
    /\ \E c \in Codes : otp' = [otp EXCEPT ![p] = c]
    /\ otpTtl' = [otpTtl EXCEPT ![p] = Ttl]
    /\ attempts' = [attempts EXCEPT ![p] = 0]
    /\ attemptsTtl' = [attemptsTtl EXCEPT ![p] = 0]
    /\ wrong' = [wrong EXCEPT ![p] = 0]
    /\ uses' = [uses EXCEPT ![p] = 0]
    /\ pc' = [pc EXCEPT ![s] = "idle"]
    /\ UNCHANGED <<cooldownTtl, count, countTtl, job, slots>>

(* Redis fails or the worker dies between the two scripts: the slot is spent. *)
SaveFails(s) ==
    /\ pc[s] = "slot"
    /\ pc' = [pc EXCEPT ![s] = "idle"]
    /\ UNCHANGED <<redis, job, wrong, uses, slots>>

-----------------------------------------------------------------------------
(* OTP_VERIFY_AND_CONSUME, one action per branch.  The answer -2 to a counter
   at its limit changes nothing. *)
Guessable(p) == attempts[p] < MaxAttempts

NothingToVerify(p) ==
    /\ Guessable(p)
    /\ otp[p] = NoCode
    /\ attempts' = [attempts EXCEPT ![p] = 0]
    /\ attemptsTtl' = [attemptsTtl EXCEPT ![p] = 0]
    /\ UNCHANGED <<otp, otpTtl, cooldownTtl, count, countTtl, pc, job, wrong, uses, slots>>

ConsumeWithoutDelete(p, c) ==
    /\ Guessable(p)
    /\ otp[p] = c
    /\ attempts' = [attempts EXCEPT ![p] = 0]
    /\ attemptsTtl' = [attemptsTtl EXCEPT ![p] = 0]
    /\ uses' = [uses EXCEPT ![p] = @ + 1]
    /\ UNCHANGED <<otp, otpTtl, cooldownTtl, count, countTtl, pc, job, wrong, slots>>

Consume(p, c) ==
    /\ Guessable(p)
    /\ otp[p] = c
    /\ otp' = [otp EXCEPT ![p] = NoCode]
    /\ otpTtl' = [otpTtl EXCEPT ![p] = 0]
    /\ attempts' = [attempts EXCEPT ![p] = 0]
    /\ attemptsTtl' = [attemptsTtl EXCEPT ![p] = 0]
    /\ uses' = [uses EXCEPT ![p] = @ + 1]
    /\ UNCHANGED <<cooldownTtl, count, countTtl, pc, job, wrong, slots>>

ShortCounterTtl(p) == {1}

(* PTTL of the code, in ticks; in the code's last tick PTTL may read 0 ms, and
   the script falls back to a full ttl. *)
RemainingTtl(p) == {otpTtl[p]} \cup (IF otpTtl[p] = 1 THEN {Ttl} ELSE {})

SpendAttempt(p) ==
    /\ attempts' = [attempts EXCEPT ![p] = @ + 1]
    /\ IF attempts[p] = 0
       THEN \E t \in RemainingTtl(p) : attemptsTtl' = [attemptsTtl EXCEPT ![p] = t]
       ELSE UNCHANGED attemptsTtl

LastAttemptMissed(p) == attempts[p] + 1 > MaxAttempts
LastAttempt(p) == attempts[p] + 1 >= MaxAttempts

Reject(p, c) ==
    /\ Guessable(p)
    /\ otp[p] \notin {NoCode, c}
    /\ SpendAttempt(p)
    /\ IF LastAttempt(p)
       THEN /\ otp' = [otp EXCEPT ![p] = NoCode]
            /\ otpTtl' = [otpTtl EXCEPT ![p] = 0]
       ELSE UNCHANGED <<otp, otpTtl>>
    /\ wrong' = [wrong EXCEPT ![p] = @ + 1]
    /\ UNCHANGED <<cooldownTtl, count, countTtl, pc, job, uses, slots>>

-----------------------------------------------------------------------------
(* A key with a TTL loses one tick and is deleted at 0. *)
Aged(ttl) == IF ttl = 0 THEN 0 ELSE ttl - 1
Kept(value, ttl, absent) == IF ttl = 1 THEN absent ELSE value
(* A log of ages, oldest first, one tick later: what is a Window old leaves it. *)
Older(ages) ==
    LET gone == Cardinality({n \in DOMAIN ages : ages[n] + 1 >= Window})
    IN  [n \in 1..(Len(ages) - gone) |-> ages[n + gone] + 1]

Tick ==
    /\ otp' = [p \in Purposes |-> Kept(otp[p], otpTtl[p], NoCode)]
    /\ otpTtl' = [p \in Purposes |-> Aged(otpTtl[p])]
    /\ attempts' = [p \in Purposes |-> Kept(attempts[p], attemptsTtl[p], 0)]
    /\ attemptsTtl' = [p \in Purposes |-> Aged(attemptsTtl[p])]
    /\ cooldownTtl' = [p \in Purposes |-> Aged(cooldownTtl[p])]
    /\ count' = [p \in Purposes |-> Kept(count[p], countTtl[p], 0)]
    /\ countTtl' = [p \in Purposes |-> Aged(countTtl[p])]
    /\ slots' = [p \in Purposes |-> Older(slots[p])]
    /\ UNCHANGED <<pc, job, wrong, uses>>

Next ==
    \/ \E s \in Senders, p \in Purposes : AcquireSendSlot(s, p)
    \/ \E s \in Senders : SaveOtp(s) \/ SaveFails(s)
    \/ \E p \in Purposes : NothingToVerify(p)
    \/ \E p \in Purposes, c \in Codes : Consume(p, c) \/ Reject(p, c)
    \/ Tick

Spec == Init /\ [][Next]_vars

(* Time passes; nothing else is promised. *)
FairSpec == Spec /\ WF_vars(Tick)

-----------------------------------------------------------------------------
(* The guesses a code has left.  The one-time codes this module implements: the
   attempt counter is a key of its own with a TTL of its own, yet no expiry of
   either key, in whatever order, gives a code back guesses it has lost or keeps
   a code that has none left (otp.py:171-187). *)
AttemptsLeft ==
    [p \in Purposes |-> IF otp[p] = NoCode THEN 0 ELSE MaxAttempts - attempts[p]]
OneTime == INSTANCE OneTimeCode WITH code <- otp, budget <- AttemptsLeft, guesses <- wrong
ImplementsOneTimeCode == OneTime!Spec

TypeOK ==
    /\ otp \in [Purposes -> Codes \cup {NoCode}]
    /\ otpTtl \in [Purposes -> 0..Ttl]
    /\ attemptsTtl \in [Purposes -> 0..Ttl]
    /\ attempts \in [Purposes -> 0..MaxAttempts]
    /\ cooldownTtl \in [Purposes -> 0..Cooldown]
    /\ count \in [Purposes -> 0..MaxSends]
    /\ countTtl \in [Purposes -> 0..Window]
    /\ pc \in [Senders -> {"idle", "slot"}]
    /\ job \in [Senders -> Purposes]
    /\ wrong \in [Purposes -> Nat]
    /\ uses \in [Purposes -> Nat]

(* At most max_verify_attempts wrong guesses are ever compared with one code,
   however the guesses, the expiry of the counter and a re-send interleave
   (otp.py:42, README "five per code"). *)
GuessesPerCode == \A p \in Purposes : wrong[p] <= MaxAttempts

(* A stored code can be verified: no exhausted counter, of this code or left
   over from an earlier one, makes the right answer a 429 (otp.py:117-121). *)
StoredCodeIsUsable == \A p \in Purposes : otp[p] # NoCode => Guessable(p)

(* A code is accepted once: the other concurrent requests with the same code
   find it consumed (otp.py:142-144). *)
ConsumedOnce == \A p \in Purposes : uses[p] <= 1

(* Granted slots keep the cooldown between them, and every stretch of one
   window's length holds fewer than two windows grant (the window is fixed, not
   sliding, and its first slot starts it, otp.py:40-41, 90-93). *)
SendRateBounded ==
    \A p \in Purposes :
        /\ Len(slots[p]) < 2 * MaxSends
        /\ \A i \in 1..(Len(slots[p]) - 1) : slots[p][i] >= slots[p][i + 1] + Cooldown

(* No throttle lasts for ever: whatever others do with the address, again and
   again a slot is free and a guess is possible; a counter without expiry would
   lock the address for good. *)
ThrottlesOpen == \A p \in Purposes : []<>SlotFree(p) /\ []<>Guessable(p)
=============================================================================
