----------------------------- MODULE OneTimeCode -----------------------------
(* What OTPService promises its callers about the codes of one address, without
   the Redis keys that keep the promise: per purpose at most one code is out, it
   has a budget of guesses that a wrong guess lowers by one, and it is gone once
   it is accepted, its budget is spent or its time is over.  Only a new code
   restores the budget.  OneTimePassword implements this module.             *)
EXTENDS Naturals

CONSTANTS
    Purposes,
    Codes,
    NoCode,
    MaxAttempts     \* guesses a code is good for

VARIABLES
    code,           \* per purpose: the code that is out, or NoCode
    budget,         \* per purpose: the guesses left, 0 without a code
    guesses,        \* per purpose: wrong guesses at the code now or last out
    uses            \* per purpose: times that code was accepted

codeVars == <<code, budget, guesses, uses>>

Init ==
    /\ code = [p \in Purposes |-> NoCode]
    /\ budget = [p \in Purposes |-> 0]
    /\ guesses = [p \in Purposes |-> 0]
    /\ uses = [p \in Purposes |-> 0]

(* A new code replaces the old one and what was guessed at it. *)
Issue(p) ==
    /\ \E c \in Codes : code' = [code EXCEPT ![p] = c]
    /\ budget' = [budget EXCEPT ![p] = MaxAttempts]
    /\ guesses' = [guesses EXCEPT ![p] = 0]
    /\ uses' = [uses EXCEPT ![p] = 0]

(* The codes of P are no more. *)
End(P) ==
    /\ code' = [p \in Purposes |-> IF p \in P THEN NoCode ELSE code[p]]
    /\ budget' = [p \in Purposes |-> IF p \in P THEN 0 ELSE budget[p]]

Accept(p) ==
    /\ code[p] # NoCode
    /\ End({p})
    /\ uses' = [uses EXCEPT ![p] = @ + 1]
    /\ UNCHANGED guesses

WrongGuess(p) ==
    /\ \/ budget[p] = 1 /\ End({p})
       \/ budget[p] > 1 /\ budget' = [budget EXCEPT ![p] = @ - 1] /\ UNCHANGED code
    /\ guesses' = [guesses EXCEPT ![p] = @ + 1]
    /\ UNCHANGED uses

(* Time is over, for any of the codes at once. *)
Expire == (\E P \in SUBSET Purposes : End(P)) /\ UNCHANGED <<guesses, uses>>

Next == Expire \/ \E p \in Purposes : Issue(p) \/ Accept(p) \/ WrongGuess(p)

Spec == Init /\ [][Next]_codeVars

(* A code that is out can still be guessed; the guesses made and left are its
   budget, and it has never been accepted. *)
BudgetKept ==
    \A p \in Purposes :
        /\ guesses[p] <= MaxAttempts /\ uses[p] <= 1
        /\ code[p] # NoCode =>
              budget[p] > 0 /\ budget[p] + guesses[p] = MaxAttempts /\ uses[p] = 0
=============================================================================
