-------------------------- MODULE PasswordSessions --------------------------
(* Password change, password reset and the sessions they are to end, for one
   account: users.password and users.token_version in PostgreSQL, the token's
   ver claim in the browser, one outstanding code per purpose in Redis.

   A handler reads the row once, works on the copy its session holds (bcrypt
   runs in a thread in between) and writes password and token_version + 1 of
   the COPY; no row lock, no version check in the UPDATE.                   *)
EXTENDS Naturals, FiniteSets

CONSTANTS
    Passwords,
    Logins,         \* handlers of POST /user/log-in
    Changers,       \* handlers of PATCH /user/me/password
    Resetters,      \* handlers of POST /user/password/reset/verify
    MaxCodes        \* bound: codes ever sent

ASSUME SessionsAssumption ==
    /\ Passwords # {}
    /\ Logins \cap (Changers \cup Resetters) = {}
    /\ Changers \cap Resetters = {}
    /\ IsFiniteSet(Changers) /\ IsFiniteSet(Resetters)
    /\ MaxCodes \in Nat

Writers == Changers \cup Resetters
Handlers == Logins \cup Writers
CodePurposes == {"password_change", "reset"}

VARIABLES
    password, version,   \* the committed row
    tokens,         \* tokens issued: ver, and the history fields epoch and pw
    outstanding,    \* purposes with a code in Redis
    pc,             \* per handler
    readPassword, readVersion,   \* per handler: the copy in its session
    issued,         \* codes sent so far
    epoch,          \* history: password writes committed so far
    raced           \* history: a write's copy had been overtaken by another write

row == <<password, version>>
copy == <<readPassword, readVersion>>
history == <<epoch, raced>>
vars == <<row, tokens, outstanding, pc, copy, issued, history>>

Init ==
    /\ password \in Passwords
    /\ version = 0
    /\ tokens = {}
    /\ outstanding = {}
    /\ pc = [h \in Handlers |-> "idle"]
    /\ readPassword = [h \in Handlers |-> password]
    /\ readVersion = [h \in Handlers |-> 0]
    /\ issued = 0
    /\ epoch = 0
    /\ raced = FALSE

Goto(h, stage) == pc' = [pc EXCEPT ![h] = stage]
Read(h) ==
    /\ readPassword' = [readPassword EXCEPT ![h] = password]
    /\ readVersion' = [readVersion EXCEPT ![h] = version]

(* _session_version_matches, on the row as it is now. *)
Accepted(t) == t.ver = version
SignedIn == \E t \in tokens : Accepted(t)

-----------------------------------------------------------------------------
(* A code for p is saved, replacing an unused one. *)
CodeSent(p) ==
    /\ issued < MaxCodes
    /\ outstanding' = outstanding \cup {p}
    /\ issued' = issued + 1
    /\ UNCHANGED <<row, tokens, pc, copy, history>>

(* Who changes a password is signed in, who resets one only names the account. *)
SendChangeCode == SignedIn /\ CodeSent("password_change")
SendResetCode == CodeSent("reset")

(* It expires or its attempts are used up. *)
CodeGone(p) ==
    /\ p \in outstanding
    /\ outstanding' = outstanding \ {p}
    /\ UNCHANGED <<row, tokens, pc, copy, issued, history>>

CompareCode(p) ==
    /\ p \in outstanding
    /\ UNCHANGED outstanding

(* verify_and_consume answering VERIFIED, in one Redis script. *)
ConsumeCode(p) ==
    /\ p \in outstanding
    /\ outstanding' = outstanding \ {p}

-----------------------------------------------------------------------------
(* bcrypt, against the copy. *)
Matches(h, guess) == guess = readPassword[h]

(* create_jwt; the history fields are not in the token. *)
Token(ver, guess) == [ver |-> ver, epoch |-> epoch, pw |-> guess]

LoginRead(h) ==
    /\ pc[h] = "idle"
    /\ Read(h)
    /\ Goto(h, "read")
    /\ UNCHANGED <<row, tokens, outstanding, issued, history>>

LoginRereading(h) ==
    /\ pc[h] = "read"
    /\ \E guess \in Passwords :
         tokens' = IF Matches(h, guess) THEN tokens \cup {Token(version, guess)} ELSE tokens
    /\ Goto(h, "idle")
    /\ UNCHANGED <<row, outstanding, copy, issued, history>>

(* The password is compared, then a token with the copy's version is set. *)
LoginAnswer(h) ==
    /\ pc[h] = "read"
    /\ \E guess \in Passwords :
         tokens' = IF Matches(h, guess) THEN tokens \cup {Token(readVersion[h], guess)} ELSE tokens
    /\ Goto(h, "idle")
    /\ UNCHANGED <<row, outstanding, copy, issued, history>>

(* get_current_user of PATCH /me/password. *)
ChangeAuth(h) ==
    /\ pc[h] = "idle"
    /\ SignedIn
    /\ Read(h)
    /\ Goto(h, "read")
    /\ UNCHANGED <<row, tokens, outstanding, issued, history>>

(* The current password matches the copy and the code is consumed. *)
ChangeVerify(h) ==
    /\ pc[h] = "read"
    /\ ConsumeCode("password_change")
    /\ Goto(h, "writing")
    /\ UNCHANGED <<row, tokens, copy, issued, history>>

(* A wrong current password (403) or a wrong code (400, 429). *)
ChangeRefused(h) ==
    /\ pc[h] = "read"
    /\ Goto(h, "idle")
    /\ UNCHANGED <<row, tokens, outstanding, copy, issued, history>>

ResetVerify(h) ==
    /\ pc[h] = "idle"
    /\ ConsumeCode("reset")
    /\ Goto(h, "verified")
    /\ UNCHANGED <<row, tokens, copy, issued, history>>

ResetRead(h) ==
    /\ pc[h] = "verified"
    /\ Read(h)
    /\ Goto(h, "writing")
    /\ UNCHANGED <<row, tokens, outstanding, issued, history>>

WriteKeepingSessions(h) ==
    /\ pc[h] = "writing"
    /\ password' \in Passwords
    /\ epoch' = epoch + 1
    /\ raced' = (raced \/ readVersion[h] # version)
    /\ Goto(h, "idle")
    /\ UNCHANGED <<version, tokens, outstanding, copy, issued>>

(* Both handlers: the new hash and the copy's version + 1, committed. *)
WritePassword(h) ==
    /\ pc[h] = "writing"
    /\ password' \in Passwords
    /\ version' = readVersion[h] + 1
    /\ epoch' = epoch + 1
    /\ raced' = (raced \/ readVersion[h] # version)
    /\ Goto(h, "idle")
    /\ UNCHANGED <<tokens, outstanding, copy, issued>>

FailAfterBump(h) ==
    /\ pc[h] \in {"verified", "writing"}
    /\ version' = readVersion[h] + 1
    /\ Goto(h, "idle")
    /\ UNCHANGED <<password, tokens, outstanding, copy, issued, history>>

(* The read or the commit raises after the code was consumed. *)
WriteFails(h) ==
    /\ pc[h] \in {"verified", "writing"}
    /\ Goto(h, "idle")
    /\ UNCHANGED <<row, tokens, outstanding, copy, issued, history>>

Next ==
    \/ SendChangeCode \/ SendResetCode
    \/ \E p \in CodePurposes : CodeGone(p)
    \/ \E h \in Logins : LoginRead(h) \/ LoginAnswer(h)
    \/ \E h \in Changers : ChangeAuth(h) \/ ChangeVerify(h) \/ ChangeRefused(h)
    \/ \E h \in Resetters : ResetVerify(h) \/ ResetRead(h)
    \/ \E h \in Writers : WritePassword(h) \/ WriteFails(h)

Spec == Init /\ [][Next]_vars

-----------------------------------------------------------------------------
Tokens == [ver : Nat, epoch : Nat, pw : Passwords]

TypeOK ==
    /\ password \in Passwords
    /\ epoch \in Nat
    /\ raced \in BOOLEAN
    /\ version \in 0..epoch
    /\ tokens \subseteq Tokens
    /\ outstanding \subseteq CodePurposes
    /\ pc \in [Handlers -> {"idle", "read", "verified", "writing"}]
    /\ readPassword \in [Handlers -> Passwords]
    /\ readVersion \in [Handlers -> 0..epoch]
    /\ issued \in 0..MaxCodes

(* A password write ends every session older than it: README.md:31, "the value
   goes up, and every token issued before that is invalid". *)
OlderTokensRefused == \A t \in tokens : Accepted(t) => t.epoch = epoch

(* What holds of it: a session outlives a write only once some write started
   from a copy that another write had overtaken (user.py:256, 549). *)
SessionsEndUnlessRaced == ~raced => OlderTokensRefused

(* The holder of an accepted token proved the password that is now in the row,
   never an earlier one: a login that straddles a change gets a dead token. *)
TokensKnowPasswordUnlessRaced ==
    ~raced => \A t \in tokens : Accepted(t) => t.pw = password

(* Each password write used up a code of its own: two requests with one code,
   or a request whose write failed and is repeated, write at most once. *)
InProgress == {h \in Resetters : pc[h] \in {"verified", "writing"}}
              \cup {h \in Changers : pc[h] = "writing"}
EachWriteHasItsCode ==
    epoch + Cardinality(InProgress) + Cardinality(outstanding) <= issued
=============================================================================
