--------------------------- MODULE LoginRateLimit ---------------------------
(* LoginRateLimitService (service/ratelimit.py) under POST /user/log-in: an
   attempt is counted for its e-mail and its IP before bcrypt runs, and given
   back after it succeeded.  Two Lua scripts, each atomic, with the password
   check of any number of handlers in between; Redis may raise in either.   *)
EXTENDS Naturals, Integers, Sequences, FiniteSets

CONSTANTS
    Emails, Ips,
    Attempts,       \* concurrent handlers of POST /user/log-in
    MaxPerEmail,    \* max_per_email
    MaxPerIp,       \* max_per_ip
    Window,         \* window
    MaxOutages      \* bound: calls on which Redis raises

ASSUME LoginLimitAssumption ==
    /\ MaxPerEmail \in Nat \ {0} /\ MaxPerIp \in Nat \ {0}
    /\ Window \in Nat \ {0} /\ MaxOutages \in Nat
    /\ IsFiniteSet(Attempts)

VARIABLES
    emailCount, emailTtl,   \* login-fail:email, absent at TTL 0
    ipCount, ipTtl,         \* login-fail:ip
    pc,             \* per handler: "idle", "checking" or "matched"
    email, ip,      \* per handler: whom it tries, from where
    outages,
    counted,        \* history: its attempt is in the IP counter that exists now
    failed,         \* history, per IP: failures counted in that counter
    stray,          \* history, per IP: times it gave back an attempt not in it
    lost,           \* history, per IP: successes in it that were not given back
    checks          \* history, per e-mail: ages of the counted password checks
                    \* since the account's last success, those of one Window

counters == <<emailCount, emailTtl, ipCount, ipTtl>>
request == <<email, ip>>
history == <<counted, failed, stray, lost, checks>>
vars == <<counters, pc, request, outages, history>>

Init ==
    /\ emailCount = [e \in Emails |-> 0] /\ emailTtl = [e \in Emails |-> 0]
    /\ ipCount = [i \in Ips |-> 0] /\ ipTtl = [i \in Ips |-> 0]
    /\ pc = [h \in Attempts |-> "idle"]
    /\ email \in [Attempts -> Emails] /\ ip \in [Attempts -> Ips]
    /\ outages = 0
    /\ counted = [h \in Attempts |-> FALSE]
    /\ failed = [i \in Ips |-> 0]
    /\ stray = [i \in Ips |-> 0]
    /\ lost = [i \in Ips |-> 0]
    /\ checks = [e \in Emails |-> <<>>]

Goto(h, stage) == pc' = [pc EXCEPT ![h] = stage]
RedisRaises == outages < MaxOutages /\ outages' = outages + 1

-----------------------------------------------------------------------------
BlockedWhenBoth(e, i) == emailCount[e] >= MaxPerEmail /\ ipCount[i] >= MaxPerIp
Blocked(e, i) == emailCount[e] >= MaxPerEmail \/ ipCount[i] >= MaxPerIp

NoExpiry(count, ttl) == ttl

(* INCR of a counter without a count starts its window. *)
Expiry(count, ttl) == IF count = 0 THEN Window ELSE ttl

(* LOGIN_ATTEMPT_ACQUIRE answering 1 (answering 0 is a 429 and changes
   nothing). *)
AcquireAttempt(h, e, i) ==
    /\ pc[h] = "idle"
    /\ ~Blocked(e, i)
    /\ emailCount' = [emailCount EXCEPT ![e] = @ + 1]
    /\ emailTtl' = [emailTtl EXCEPT ![e] = Expiry(emailCount[e], @)]
    /\ ipCount' = [ipCount EXCEPT ![i] = @ + 1]
    /\ ipTtl' = [ipTtl EXCEPT ![i] = Expiry(ipCount[i], @)]
    /\ Goto(h, "checking")
    /\ email' = [email EXCEPT ![h] = e] /\ ip' = [ip EXCEPT ![h] = i]
    /\ counted' = [counted EXCEPT ![h] = TRUE]
    /\ checks' = [checks EXCEPT ![e] = Append(@, 0)]
    /\ UNCHANGED <<outages, failed, stray, lost>>

(* Redis raises: the attempt is allowed, uncounted. *)
FailOpen(h, e, i) ==
    /\ pc[h] = "idle"
    /\ RedisRaises
    /\ Goto(h, "checking")
    /\ email' = [email EXCEPT ![h] = e] /\ ip' = [ip EXCEPT ![h] = i]
    /\ UNCHANGED <<counters, history>>

(* No such account, the wrong password, or the handler raises: what was counted
   stays. *)
Fails(h) ==
    /\ pc[h] = "checking"
    /\ Goto(h, "idle")
    /\ counted' = [counted EXCEPT ![h] = FALSE]
    /\ failed' = [failed EXCEPT ![ip[h]] = IF counted[h] THEN @ + 1 ELSE @]
    /\ UNCHANGED <<counters, request, outages, stray, lost, checks>>

Matches(h) ==
    /\ pc[h] = "checking"
    /\ Goto(h, "matched")
    /\ UNCHANGED <<counters, request, outages, history>>

GiveBackUnguarded(count) == count - 1
GiveBackAll(count) == 0
GiveBackNothing(count) == count

(* DECR, never below 0 (a DECR to 0 keeps the key and its TTL). *)
GiveBack(count) == IF count > 0 THEN count - 1 ELSE 0

(* LOGIN_ATTEMPT_RESET. *)
Reset(h) ==
    LET e == email[h]
        i == ip[h] IN
    /\ pc[h] = "matched"
    /\ emailCount' = [emailCount EXCEPT ![e] = 0]
    /\ emailTtl' = [emailTtl EXCEPT ![e] = 0]
    /\ ipCount' = [ipCount EXCEPT ![i] = GiveBack(@)]
    /\ Goto(h, "idle")
    /\ counted' = [counted EXCEPT ![h] = FALSE]
    /\ stray' = [stray EXCEPT ![i] = IF ~counted[h] /\ ipCount[i] > 0 THEN @ + 1 ELSE @]
    /\ checks' = [checks EXCEPT ![e] = <<>>]
    /\ UNCHANGED <<ipTtl, request, outages, failed, lost>>

(* Redis raises: the login succeeds all the same. *)
ResetFails(h) ==
    /\ pc[h] = "matched"
    /\ RedisRaises
    /\ Goto(h, "idle")
    /\ counted' = [counted EXCEPT ![h] = FALSE]
    /\ lost' = [lost EXCEPT ![ip[h]] = IF counted[h] THEN @ + 1 ELSE @]
    /\ UNCHANGED <<counters, request, failed, stray, checks>>

(* A key with a TTL loses one tick and is deleted at 0. *)
Aged(ttl) == IF ttl = 0 THEN 0 ELSE ttl - 1
Kept(value, ttl, absent) == IF ttl = 1 THEN absent ELSE value
(* A log of ages, oldest first, one tick later: what is a Window old leaves it. *)
Older(ages) ==
    LET gone == Cardinality({n \in DOMAIN ages : ages[n] + 1 >= Window})
    IN  [n \in 1..(Len(ages) - gone) |-> ages[n + gone] + 1]

Tick ==
    /\ emailCount' = [e \in Emails |-> Kept(emailCount[e], emailTtl[e], 0)]
    /\ emailTtl' = [e \in Emails |-> Aged(emailTtl[e])]
    /\ ipCount' = [i \in Ips |-> Kept(ipCount[i], ipTtl[i], 0)]
    /\ ipTtl' = [i \in Ips |-> Aged(ipTtl[i])]
    /\ counted' = [h \in Attempts |-> Kept(counted[h], ipTtl[ip[h]], FALSE)]
    /\ failed' = [i \in Ips |-> Kept(failed[i], ipTtl[i], 0)]
    /\ stray' = [i \in Ips |-> Kept(stray[i], ipTtl[i], 0)]
    /\ lost' = [i \in Ips |-> Kept(lost[i], ipTtl[i], 0)]
    /\ checks' = [e \in Emails |-> Older(checks[e])]
    /\ UNCHANGED <<pc, request, outages>>

Next ==
    \/ \E h \in Attempts, e \in Emails, i \in Ips : AcquireAttempt(h, e, i) \/ FailOpen(h, e, i)
    \/ \E h \in Attempts : Fails(h) \/ Matches(h) \/ Reset(h) \/ ResetFails(h)
    \/ Tick

Spec == Init /\ [][Next]_vars

(* Time passes; nothing else is promised. *)
FairSpec == Spec /\ WF_vars(Tick)

-----------------------------------------------------------------------------
TypeOK ==
    /\ emailCount \in [Emails -> 0..MaxPerEmail]
    /\ emailTtl \in [Emails -> 0..Window]
    /\ ipCount \in [Ips -> 0..MaxPerIp]
    /\ ipTtl \in [Ips -> 0..Window]
    /\ pc \in [Attempts -> {"idle", "checking", "matched"}]
    /\ email \in [Attempts -> Emails]
    /\ ip \in [Attempts -> Ips]
    /\ outages \in 0..MaxOutages
    /\ counted \in [Attempts -> BOOLEAN]
    /\ failed \in [Ips -> Nat]
    /\ stray \in [Ips -> Nat]
    /\ lost \in [Ips -> Nat]

Pending(i) == Cardinality({h \in Attempts : counted[h] /\ ip[h] = i})

(* A success takes back its own attempt only, the failures of others from that IP
   stay counted (ratelimit.py:98-101): a failure, or an attempt still being
   checked, is missing from its counter only if an attempt that is not in that
   counter, because the window rolled over or Redis was away when it began, was
   given back to it. *)
FailuresStayUnlessStray ==
    \A i \in Ips : ipCount[i] + stray[i] >= failed[i] + Pending(i)

(* A success leaves no trace: the counter holds failures, checks in progress
   and successes whose give-back raised, nothing else, so that an office whose
   people log in successfully is not locked out. *)
SuccessesLeaveNoTrace ==
    \A i \in Ips : ipCount[i] <= failed[i] + Pending(i) + lost[i]

(* However many attempts at one account run at once, and from however many
   addresses, at most max_per_email passwords per window are compared between
   two successes: fewer than two windows' worth in any stretch of one window's
   length, whose first check starts the window. *)
ChecksPerAccount == \A e \in Emails : Len(checks[e]) < 2 * MaxPerEmail

(* Neither limit lasts for ever, whatever others try. *)
LimitsReopen ==
    /\ \A e \in Emails : []<>(emailCount[e] < MaxPerEmail)
    /\ \A i \in Ips : []<>(ipCount[i] < MaxPerIp)
=============================================================================
