------------------------ MODULE LoginRateLimitProofs ------------------------
(* What an IP's counter of LoginRateLimit holds, for every number of attempts,
   accounts, addresses and for every limit: no more and, strays apart, no less
   than the failures and the checks in progress.  Both facts are inductive
   together with the types; the work is in the count of the checks in progress,
   which a step changes by at most one attempt.  And how many counted checks any
   stretch of a window's length holds for one account.                      *)
EXTENDS LoginRateLimit, TLAPS, FiniteSetTheorems

LEMMA TypeStep == TypeOK /\ [Next]_vars => TypeOK'
<1> SUFFICES ASSUME TypeOK, [Next]_vars PROVE TypeOK'
  OBVIOUS
<1>c. MaxPerEmail \in Nat \ {0} /\ MaxPerIp \in Nat \ {0} /\ Window \in Nat \ {0}
      /\ MaxOutages \in Nat
  BY LoginLimitAssumption
<1> USE DEF TypeOK, Goto, counters, request, history
<1>1. ASSUME NEW h \in Attempts, NEW e \in Emails, NEW i \in Ips, AcquireAttempt(h, e, i)
      PROVE  TypeOK'
  <2>0. emailCount[e] \in 0..MaxPerEmail /\ ipCount[i] \in 0..MaxPerIp
        /\ ~(emailCount[e] >= MaxPerEmail) /\ ~(ipCount[i] >= MaxPerIp)
    BY <1>1 DEF AcquireAttempt, Blocked
  <2>1. emailCount[e] + 1 \in 0..MaxPerEmail /\ ipCount[i] + 1 \in 0..MaxPerIp
    BY <2>0, <1>c
  <2>2. Expiry(emailCount[e], emailTtl[e]) \in 0..Window
        /\ Expiry(ipCount[i], ipTtl[i]) \in 0..Window
    BY <1>c DEF Expiry
  <2> QED
    BY <1>1, <2>1, <2>2 DEF AcquireAttempt
<1>2. ASSUME NEW h \in Attempts, NEW e \in Emails, NEW i \in Ips, FailOpen(h, e, i)
      PROVE  TypeOK'
  BY <1>2, <1>c DEF FailOpen, RedisRaises
<1>3. ASSUME NEW h \in Attempts, Fails(h) PROVE TypeOK'
  BY <1>3 DEF Fails
<1>4. ASSUME NEW h \in Attempts, Matches(h) PROVE TypeOK'
  BY <1>4 DEF Matches
<1>5. ASSUME NEW h \in Attempts, Reset(h) PROVE TypeOK'
  <2>1. GiveBack(ipCount[ip[h]]) \in 0..MaxPerIp
    BY <1>c DEF GiveBack
  <2>2. ipCount' \in [Ips -> 0..MaxPerIp]
    BY <1>5, <2>1 DEF Reset
  <2>3. emailCount' \in [Emails -> 0..MaxPerEmail] /\ emailTtl' \in [Emails -> 0..Window]
    BY <1>5, <1>c DEF Reset
  <2>4. stray' \in [Ips -> Nat]
    BY <1>5 DEF Reset
  <2>5. pc' \in [Attempts -> {"idle", "checking", "matched"}] /\ counted' \in [Attempts -> BOOLEAN]
    BY <1>5 DEF Reset
  <2>6. UNCHANGED <<ipTtl, email, ip, outages, failed, lost>>
    BY <1>5 DEF Reset
  <2> QED
    BY <2>2, <2>3, <2>4, <2>5, <2>6
<1>6. ASSUME NEW h \in Attempts, ResetFails(h) PROVE TypeOK'
  BY <1>6, <1>c DEF ResetFails, RedisRaises
<1>7. CASE Tick
  <2>1. \A t \in 0..Window : Aged(t) \in 0..Window
    BY <1>c DEF Aged
  <2>2. emailTtl' \in [Emails -> 0..Window] /\ ipTtl' \in [Ips -> 0..Window]
    BY <1>7, <2>1 DEF Tick
  <2>3. emailCount' \in [Emails -> 0..MaxPerEmail] /\ ipCount' \in [Ips -> 0..MaxPerIp]
    BY <1>7, <1>c DEF Tick, Kept
  <2>4. failed' \in [Ips -> Nat] /\ stray' \in [Ips -> Nat] /\ lost' \in [Ips -> Nat]
    BY <1>7 DEF Tick, Kept
  <2>5. counted' \in [Attempts -> BOOLEAN]
    <3>1. counted' = [h \in Attempts |-> Kept(counted[h], ipTtl[ip[h]], FALSE)]
      BY <1>7 DEF Tick
    <3>2. ASSUME NEW h \in Attempts PROVE Kept(counted[h], ipTtl[ip[h]], FALSE) \in BOOLEAN
      BY Zenon DEF Kept
    <3> QED
      BY <3>1, <3>2, Zenon
  <2> QED
    BY <1>7, <2>2, <2>3, <2>4, <2>5 DEF Tick
<1>8. CASE UNCHANGED vars
  BY <1>8 DEF vars
<1> QED
  BY <1>1, <1>2, <1>3, <1>4, <1>5, <1>6, <1>7, <1>8 DEF Next

LEMMA TypeInit == Init => TypeOK
BY LoginLimitAssumption DEF Init, TypeOK

(* The counters stay within their limits and every state variable in its type:
   the guard of the DECR keeps the IP counter from going below 0. *)
THEOREM LimitTyped == Spec => []TypeOK
BY TypeInit, TypeStep, PTL DEF Spec

-----------------------------------------------------------------------------
InCheck(i) == {h \in Attempts : counted[h] /\ ip[h] = i}

LEMMA PendingNat == \A i \in Ips : Pending(i) \in Nat /\ Pending(i) = Cardinality(InCheck(i))
                                   /\ IsFiniteSet(InCheck(i))
<1> SUFFICES ASSUME NEW i \in Ips PROVE Pending(i) \in Nat /\ Pending(i) = Cardinality(InCheck(i))
                                        /\ IsFiniteSet(InCheck(i))
  OBVIOUS
<1>1. IsFiniteSet(InCheck(i))
  BY LoginLimitAssumption, FS_Subset DEF InCheck
<1> QED
  BY <1>1, FS_CardinalityType DEF Pending, InCheck

(* How the count of one address moves when one attempt enters or leaves it. *)
LEMMA PendingMoves ==
    ASSUME NEW i \in Ips, NEW h
    PROVE  /\ InCheck(i)' = InCheck(i) => Pending(i)' = Pending(i)
           /\ InCheck(i)' = InCheck(i) \cup {h} /\ h \notin InCheck(i)
              => Pending(i)' = Pending(i) + 1
           /\ InCheck(i)' = InCheck(i) \ {h} /\ h \in InCheck(i)
              => Pending(i)' = Pending(i) - 1
           /\ InCheck(i)' = {} => Pending(i)' = 0
<1>1. IsFiniteSet(InCheck(i)) /\ Pending(i) = Cardinality(InCheck(i))
  BY PendingNat
<1>2. Pending(i)' = Cardinality(InCheck(i)')
  BY DEF Pending, InCheck
<1> QED
  BY <1>1, <1>2, FS_AddElement, FS_RemoveElement, FS_EmptySet

(* The two bounds of one address. *)
Balanced(i) ==
    /\ ipCount[i] + stray[i] >= failed[i] + Pending(i)
    /\ ipCount[i] <= failed[i] + Pending(i) + lost[i]

(* An attempt in the counter belongs to a handler that is at work. *)
CountedAtWork == \A h \in Attempts : counted[h] => pc[h] # "idle"

LimitInv == TypeOK /\ CountedAtWork /\ \A i \in Ips : Balanced(i)

LEMMA LimitStep == LimitInv /\ [Next]_vars => LimitInv'
<1> SUFFICES ASSUME LimitInv, [Next]_vars PROVE LimitInv'
  OBVIOUS
<1>0. TypeOK /\ TypeOK' /\ CountedAtWork /\ \A i \in Ips : Balanced(i)
  BY TypeStep DEF LimitInv
<1>n. ASSUME NEW i \in Ips
      PROVE  /\ ipCount[i] \in Nat /\ failed[i] \in Nat /\ stray[i] \in Nat
             /\ lost[i] \in Nat /\ Pending(i) \in Nat
             /\ ipCount[i] + stray[i] >= failed[i] + Pending(i)
             /\ ipCount[i] <= failed[i] + Pending(i) + lost[i]
  BY <1>0, PendingNat, LoginLimitAssumption DEF TypeOK, Balanced
<1> USE DEF Goto, counters, request, history
<1>1. ASSUME NEW h \in Attempts, NEW e \in Emails, NEW i \in Ips, AcquireAttempt(h, e, i)
      PROVE  CountedAtWork' /\ \A j \in Ips : Balanced(j)'
  <2>1. CountedAtWork' /\ ~counted[h]
    BY <1>1, <1>0 DEF AcquireAttempt, CountedAtWork, TypeOK
  <2>2. ASSUME NEW j \in Ips PROVE Balanced(j)'
    <3>1. CASE j = i
      <4>0. counted' = [counted EXCEPT ![h] = TRUE] /\ ip' = [ip EXCEPT ![h] = i]
        BY <1>1 DEF AcquireAttempt
      <4>1. InCheck(j)' = InCheck(j) \cup {h} /\ h \notin InCheck(j)
        <5>1. \A g \in Attempts : counted'[g] /\ ip'[g] = j <=> (counted[g] /\ ip[g] = j) \/ g = h
          BY <4>0, <1>0, <3>1 DEF TypeOK
        <5> QED
          BY <5>1, <2>1 DEF InCheck
      <4>2. Pending(j)' = Pending(j) + 1
        BY <4>1, PendingMoves
      <4>3. ipCount'[j] = ipCount[j] + 1 /\ UNCHANGED <<failed, stray, lost>>
        BY <1>1, <1>0, <3>1 DEF AcquireAttempt, TypeOK
      <4> QED
        BY <4>2, <4>3, <1>n DEF Balanced
    <3>2. CASE j # i
      <4>0. counted' = [counted EXCEPT ![h] = TRUE] /\ ip' = [ip EXCEPT ![h] = i]
        BY <1>1 DEF AcquireAttempt
      <4>1. InCheck(j)' = InCheck(j)
        <5>1. \A g \in Attempts : counted'[g] /\ ip'[g] = j <=> counted[g] /\ ip[g] = j
          BY <4>0, <1>0, <2>1, <3>2 DEF TypeOK
        <5> QED
          BY <5>1 DEF InCheck
      <4>2. Pending(j)' = Pending(j)
        BY <4>1, PendingMoves
      <4>3. ipCount'[j] = ipCount[j] /\ UNCHANGED <<failed, stray, lost>>
        BY <1>1, <1>0, <3>2 DEF AcquireAttempt, TypeOK
      <4> QED
        BY <4>2, <4>3, <1>n DEF Balanced
    <3> QED
      BY <3>1, <3>2
  <2> QED
    BY <2>1, <2>2
<1>2. ASSUME NEW h \in Attempts, NEW e \in Emails, NEW i \in Ips, FailOpen(h, e, i)
      PROVE  CountedAtWork' /\ \A j \in Ips : Balanced(j)'
  <2>1. CountedAtWork' /\ ~counted[h]
    BY <1>2, <1>0 DEF FailOpen, CountedAtWork, TypeOK
  <2>2. ASSUME NEW j \in Ips PROVE Balanced(j)'
    <3>1. InCheck(j)' = InCheck(j)
      BY <1>2, <1>0, <2>1 DEF FailOpen, InCheck, TypeOK
    <3>2. Pending(j)' = Pending(j) /\ UNCHANGED <<ipCount, failed, stray, lost>>
      BY <1>2, <3>1, PendingMoves DEF FailOpen
    <3> QED
      BY <3>2, <1>n DEF Balanced
  <2> QED
    BY <2>1, <2>2
<1>3. ASSUME NEW h \in Attempts, counted[h], NEW j \in Ips, j = ip[h], UNCHANGED ip,
             counted' = [counted EXCEPT ![h] = FALSE]
      PROVE  Pending(j)' = Pending(j) - 1
  <2>1. InCheck(j)' = InCheck(j) \ {h} /\ h \in InCheck(j)
    BY <1>3, <1>0 DEF InCheck, TypeOK
  <2> QED
    BY <2>1, PendingMoves
<1>4. ASSUME NEW h \in Attempts, NEW j \in Ips, ~counted[h] \/ j # ip[h], UNCHANGED ip,
             counted' = [counted EXCEPT ![h] = FALSE]
      PROVE  Pending(j)' = Pending(j)
  <2>1. InCheck(j)' = InCheck(j)
    BY <1>4, <1>0 DEF InCheck, TypeOK
  <2> QED
    BY <2>1, PendingMoves
<1>5. ASSUME NEW h \in Attempts, Fails(h)
      PROVE  CountedAtWork' /\ \A j \in Ips : Balanced(j)'
  <2>1. CountedAtWork'
    BY <1>5, <1>0 DEF Fails, CountedAtWork, TypeOK
  <2>2. UNCHANGED <<ip, ipCount, stray, lost>> /\ counted' = [counted EXCEPT ![h] = FALSE]
        /\ failed' = [failed EXCEPT ![ip[h]] = IF counted[h] THEN @ + 1 ELSE @]
    BY <1>5 DEF Fails
  <2>3. ASSUME NEW j \in Ips PROVE Balanced(j)'
    <3>1. CASE counted[h] /\ j = ip[h]
      <4>1. Pending(j)' = Pending(j) - 1 /\ failed'[j] = failed[j] + 1
        BY <3>1, <2>2, <1>3, <1>0 DEF TypeOK
      <4> QED
        BY <4>1, <2>2, <1>n DEF Balanced
    <3>2. CASE ~(counted[h] /\ j = ip[h])
      <4>1. Pending(j)' = Pending(j) /\ failed'[j] = failed[j]
        BY <3>2, <2>2, <1>4, <1>0 DEF TypeOK
      <4> QED
        BY <4>1, <2>2, <1>n DEF Balanced
    <3> QED
      BY <3>1, <3>2
  <2> QED
    BY <2>1, <2>3
<1>6. ASSUME NEW h \in Attempts, Matches(h)
      PROVE  CountedAtWork' /\ \A j \in Ips : Balanced(j)'
  <2>1. CountedAtWork'
    BY <1>6, <1>0 DEF Matches, CountedAtWork, TypeOK
  <2>2. \A j \in Ips : Pending(j)' = Pending(j)
    BY <1>6 DEF Matches, Pending
  <2> QED
    BY <1>6, <2>1, <2>2, <1>n DEF Matches, Balanced
<1>7. ASSUME NEW h \in Attempts, Reset(h)
      PROVE  CountedAtWork' /\ \A j \in Ips : Balanced(j)'
  <2>1. CountedAtWork'
    BY <1>7, <1>0 DEF Reset, CountedAtWork, TypeOK
  <2>2. /\ UNCHANGED <<ip, failed, lost>> /\ counted' = [counted EXCEPT ![h] = FALSE]
        /\ ipCount' = [ipCount EXCEPT ![ip[h]] = GiveBack(@)]
        /\ stray' = [stray EXCEPT ![ip[h]] =
                        IF ~counted[h] /\ ipCount[ip[h]] > 0 THEN @ + 1 ELSE @]
    BY <1>7 DEF Reset
  <2>3. ASSUME NEW j \in Ips PROVE Balanced(j)'
    <3>1. CASE counted[h] /\ j = ip[h]
      <4>1. Pending(j)' = Pending(j) - 1 /\ stray'[j] = stray[j]
            /\ ipCount'[j] = GiveBack(ipCount[j])
        BY <3>1, <2>2, <1>3, <1>0 DEF TypeOK
      <4>2. Pending(j)' \in Nat /\ failed'[j] = failed[j] /\ lost'[j] = lost[j]
        <5>1. InCheck(j)' \subseteq Attempts
          BY <1>0 DEF InCheck
        <5>2. IsFiniteSet(InCheck(j)')
          BY <5>1, LoginLimitAssumption, FS_Subset
        <5>3. Pending(j)' = Cardinality(InCheck(j)')
          BY DEF Pending, InCheck
        <5> QED
          BY <5>2, <5>3, <2>2, FS_CardinalityType
      <4> QED
        BY <4>1, <4>2, <1>n DEF Balanced, GiveBack
    <3>2. CASE ~counted[h] /\ j = ip[h]
      <4>1. Pending(j)' = Pending(j) /\ ipCount'[j] = GiveBack(ipCount[j])
            /\ stray'[j] = IF ipCount[j] > 0 THEN stray[j] + 1 ELSE stray[j]
        BY <3>2, <2>2, <1>4, <1>0 DEF TypeOK
      <4> QED
        BY <4>1, <2>2, <1>n DEF Balanced, GiveBack
    <3>3. CASE j # ip[h]
      <4>1. Pending(j)' = Pending(j) /\ stray'[j] = stray[j] /\ ipCount'[j] = ipCount[j]
        BY <3>3, <2>2, <1>4, <1>0 DEF TypeOK
      <4> QED
        BY <4>1, <2>2, <1>n DEF Balanced
    <3> QED
      BY <3>1, <3>2, <3>3
  <2> QED
    BY <2>1, <2>3
<1>8. ASSUME NEW h \in Attempts, ResetFails(h)
      PROVE  CountedAtWork' /\ \A j \in Ips : Balanced(j)'
  <2>1. CountedAtWork'
    BY <1>8, <1>0 DEF ResetFails, CountedAtWork, TypeOK
  <2>2. /\ UNCHANGED <<ip, ipCount, failed, stray>> /\ counted' = [counted EXCEPT ![h] = FALSE]
        /\ lost' = [lost EXCEPT ![ip[h]] = IF counted[h] THEN @ + 1 ELSE @]
    BY <1>8 DEF ResetFails
  <2>3. ASSUME NEW j \in Ips PROVE Balanced(j)'
    <3>1. CASE counted[h] /\ j = ip[h]
      <4>1. Pending(j)' = Pending(j) - 1 /\ lost'[j] = lost[j] + 1
        BY <3>1, <2>2, <1>3, <1>0 DEF TypeOK
      <4> QED
        BY <4>1, <2>2, <1>n DEF Balanced
    <3>2. CASE ~(counted[h] /\ j = ip[h])
      <4>1. Pending(j)' = Pending(j) /\ lost'[j] = lost[j]
        BY <3>2, <2>2, <1>4, <1>0 DEF TypeOK
      <4> QED
        BY <4>1, <2>2, <1>n DEF Balanced
    <3> QED
      BY <3>1, <3>2
  <2> QED
    BY <2>1, <2>3
<1>9. CASE Tick
  <2>0. \A h \in Attempts : counted'[h] <=> counted[h] /\ ipTtl[ip[h]] # 1
    <3>1. counted' = [h \in Attempts |-> Kept(counted[h], ipTtl[ip[h]], FALSE)]
      BY <1>9 DEF Tick
    <3>2. ASSUME NEW h \in Attempts PROVE counted'[h] <=> counted[h] /\ ipTtl[ip[h]] # 1
      <4>1. counted'[h] = Kept(counted[h], ipTtl[ip[h]], FALSE)
        BY <3>1, Zenon
      <4> QED
        BY <4>1, Zenon DEF Kept
    <3> QED
      BY <3>2
  <2>1. CountedAtWork'
    BY <1>9, <1>0, <2>0 DEF Tick, CountedAtWork
  <2>2. ASSUME NEW j \in Ips PROVE Balanced(j)'
    <3>1. CASE ipTtl[j] = 1
      <4>1. InCheck(j)' = {}
        BY <1>9, <3>1, <2>0 DEF Tick, InCheck
      <4>2. Pending(j)' = 0
        BY <4>1, PendingMoves
      <4>3. ipCount'[j] = 0 /\ failed'[j] = 0 /\ stray'[j] = 0 /\ lost'[j] = 0
        BY <1>9, <3>1 DEF Tick, Kept
      <4> QED
        BY <4>2, <4>3 DEF Balanced
    <3>2. CASE ipTtl[j] # 1
      <4>1. InCheck(j)' = InCheck(j)
        BY <1>9, <3>2, <2>0 DEF Tick, InCheck
      <4>2. Pending(j)' = Pending(j)
        BY <4>1, PendingMoves
      <4>3. ipCount'[j] = ipCount[j] /\ failed'[j] = failed[j] /\ stray'[j] = stray[j]
            /\ lost'[j] = lost[j]
        BY <1>9, <3>2 DEF Tick, Kept
      <4> QED
        BY <4>2, <4>3, <1>n DEF Balanced
    <3> QED
      BY <3>1, <3>2
  <2> QED
    BY <1>0, <2>1, <2>2 DEF LimitInv
<1>10. CASE UNCHANGED vars
  <2>1. CountedAtWork'
    BY <1>10, <1>0 DEF vars, CountedAtWork
  <2>2. \A j \in Ips : Pending(j)' = Pending(j)
    BY <1>10 DEF vars, Pending
  <2> QED
    BY <1>0, <1>10, <2>1, <2>2, <1>n DEF vars, Balanced, LimitInv
<1> QED
  BY <1>0, <1>1, <1>2, <1>5, <1>6, <1>7, <1>8, <1>9, <1>10 DEF Next, LimitInv

LEMMA LimitInvInvariant == Spec => []LimitInv
<1>1. Init => LimitInv
  <2> SUFFICES ASSUME Init PROVE LimitInv
    OBVIOUS
  <2>1. TypeOK /\ CountedAtWork
    BY TypeInit DEF Init, CountedAtWork
  <2>2. ASSUME NEW i \in Ips PROVE Balanced(i)
    <3>1. InCheck(i) = {}
      BY DEF Init, InCheck
    <3>2. Pending(i) = 0
      BY <3>1, PendingNat, FS_EmptySet
    <3> QED
      BY <3>2 DEF Init, Balanced
  <2> QED
    BY <2>1, <2>2 DEF LimitInv
<1> QED
  BY <1>1, LimitStep, PTL DEF Spec

(* A failure is missing from its address's counter only through a stray give-back
   (ratelimit.py:98-108). *)
THEOREM FailuresMissOnlyByStrays == Spec => []FailuresStayUnlessStray
<1>1. LimitInv => FailuresStayUnlessStray
  BY DEF LimitInv, Balanced, FailuresStayUnlessStray
<1> QED
  BY <1>1, LimitInvInvariant, PTL

(* A successful login leaves nothing in its address's counter unless Redis
   raised when it was given back (ratelimit.py:95-119). *)
THEOREM SuccessesAlwaysGivenBack == Spec => []SuccessesLeaveNoTrace
<1>1. LimitInv => SuccessesLeaveNoTrace
  BY DEF LimitInv, Balanced, SuccessesLeaveNoTrace
<1> QED
  BY <1>1, LimitInvInvariant, PTL

-----------------------------------------------------------------------------
(* How many numbers there are up to n. *)
LEMMA UpTo ==
    ASSUME NEW n \in Nat
    PROVE  IsFiniteSet(1..n) /\ Cardinality(1..n) = n
<1>1. IsFiniteSet(1..n) /\ Cardinality(1..n) = IF 1 > n THEN 0 ELSE n - 1 + 1
  BY FS_Interval
<1> QED
  BY <1>1

(* What a tick leaves of a log of ages: a suffix, a tick older, without the
   first m entries if these are a Window old. *)
LEMMA OlderIsASuffix ==
    ASSUME NEW ages \in Seq(Nat)
    PROVE  \E gone \in 0..Len(ages) :
              /\ Older(ages) \in Seq(Nat)
              /\ Len(Older(ages)) = Len(ages) - gone
              /\ \A i \in 1..(Len(ages) - gone) : Older(ages)[i] = ages[i + gone] + 1
              /\ \A m \in 0..Len(ages) :
                    (\A i \in 1..m : ages[i] + 1 >= Window) => gone >= m
<1>0. Len(ages) \in Nat /\ DOMAIN ages = 1..Len(ages)
  OBVIOUS
<1>1. IsFiniteSet(1..Len(ages)) /\ Cardinality(1..Len(ages)) = Len(ages)
  BY <1>0, UpTo
<1> DEFINE old == {n \in DOMAIN ages : ages[n] + 1 >= Window}
           gone == Cardinality(old)
<1>2. old \in SUBSET (1..Len(ages))
  OBVIOUS
<1>3. IsFiniteSet(old) /\ gone <= Len(ages)
  BY <1>1, <1>2, FS_Subset
<1>4. gone \in 0..Len(ages)
  BY <1>3, FS_CardinalityType
<1>5. ASSUME NEW m \in 0..Len(ages), \A i \in 1..m : ages[i] + 1 >= Window
      PROVE  gone >= m
  <2>1. 1..m \in SUBSET old
    BY <1>5
  <2>2. Cardinality(1..m) = m
    BY UpTo
  <2> QED
    BY <1>3, <2>1, <2>2, FS_Subset
<1>6. Older(ages) = [n \in 1..(Len(ages) - gone) |-> ages[n + gone] + 1]
  BY DEF Older
<1> HIDE DEF gone
<1>7. \A n \in 1..(Len(ages) - gone) : ages[n + gone] + 1 \in Nat
  BY <1>4
<1>8. Older(ages) \in Seq(Nat) /\ Len(Older(ages)) = Len(ages) - gone
  BY <1>4, <1>6, <1>7
<1> QED
  BY <1>4, <1>5, <1>6, <1>8

(* The log of one e-mail's password checks.  A running window of emailCount > 0
   checks began Window - emailTtl ticks ago with its first check: its checks are
   the last of the log, and that first check and those before it are at least as
   old.  Fewer than MaxPerEmail of the windows before are still in the log, and
   they leave it with the first check when the window ends. *)
WindowLog(log, n, ttl) ==
    /\ n = 0 <=> ttl = 0
    /\ Len(log) < n + MaxPerEmail
    /\ n > 0 => \A i \in 1..(Len(log) - n + 1) : log[i] >= Window - ttl

CheckInv ==
    /\ TypeOK
    /\ checks \in [Emails -> Seq(Nat)]
    /\ \A e \in Emails : WindowLog(checks[e], emailCount[e], emailTtl[e])

(* Counting an attempt: with a count of 0 the whole log is of the window
   before. *)
LEMMA AcquireKeepsLog ==
    ASSUME NEW log \in Seq(Nat), NEW n \in 0..MaxPerEmail, n < MaxPerEmail,
           NEW ttl \in 0..Window, WindowLog(log, n, ttl)
    PROVE  /\ Append(log, 0) \in Seq(Nat)
           /\ WindowLog(Append(log, 0), n + 1, Expiry(n, ttl))
<1> DEFINE new == Append(log, 0)
<1>1. /\ new \in Seq(Nat) /\ Len(log) \in Nat /\ Len(new) = Len(log) + 1
      /\ new[Len(log) + 1] = 0
      /\ \A i \in 1..Len(log) : new[i] = log[i] /\ log[i] \in Nat
  OBVIOUS
<1> HIDE DEF new
<1>2. Len(log) < n + MaxPerEmail /\ (n = 0 <=> ttl = 0)
  BY DEF WindowLog
<1>3. Len(new) < n + 1 + MaxPerEmail
  BY <1>1, <1>2, LoginLimitAssumption
<1>4. Expiry(n, ttl) # 0
  BY <1>2, LoginLimitAssumption DEF Expiry
<1>5. ASSUME NEW i \in 1..(Len(new) - (n + 1) + 1) PROVE new[i] >= Window - Expiry(n, ttl)
  <2>1. CASE n = 0
    <3>1. i \in 1..(Len(log) + 1) /\ new[i] \in Nat
      BY <1>1, <2>1
    <3> QED
      BY <2>1, <3>1, LoginLimitAssumption DEF Expiry
  <2>2. CASE n > 0
    <3>1. i \in 1..Len(log) /\ i \in 1..(Len(log) - n + 1)
      BY <1>1, <2>2
    <3>2. new[i] = log[i] /\ log[i] \in Nat
      BY <1>1, <3>1
    <3>3. log[i] >= Window - ttl
      BY <2>2, <3>1 DEF WindowLog
    <3> QED
      BY <2>2, <3>2, <3>3 DEF Expiry
  <2> QED
    BY <2>1, <2>2
<1> QED
  BY <1>1, <1>3, <1>4, <1>5 DEF WindowLog, new

(* A tick; with ttl = 1 the window ends, and everything before it is gone. *)
LEMMA TickKeepsLog ==
    ASSUME NEW log \in Seq(Nat), NEW n \in 0..MaxPerEmail, NEW ttl \in 0..Window,
           WindowLog(log, n, ttl)
    PROVE  /\ Older(log) \in Seq(Nat)
           /\ WindowLog(Older(log), Kept(n, ttl, 0), Aged(ttl))
<1> DEFINE new == Older(log)
<1>1. PICK gone \in 0..Len(log) :
         /\ new \in Seq(Nat)
         /\ Len(new) = Len(log) - gone
         /\ \A i \in 1..(Len(log) - gone) : new[i] = log[i + gone] + 1
         /\ \A m \in 0..Len(log) :
               (\A i \in 1..m : log[i] + 1 >= Window) => gone >= m
  BY OlderIsASuffix
<1>2. Len(log) \in Nat /\ \A i \in 1..Len(log) : log[i] \in Nat
  OBVIOUS
<1> HIDE DEF new
<1>3. WindowLog(new, Kept(n, ttl, 0), Aged(ttl))
  <2>1. CASE ttl = 0
    <3>1. n = 0 /\ Kept(n, ttl, 0) = 0 /\ Aged(ttl) = 0
      BY <2>1 DEF WindowLog, Kept, Aged
    <3>2. Len(log) < 0 + MaxPerEmail
      BY <3>1 DEF WindowLog
    <3>3. Len(new) < 0 + MaxPerEmail
      BY <1>1, <1>2, <3>2, LoginLimitAssumption
    <3> QED
      BY <3>1, <3>3 DEF WindowLog
  <2>2. CASE ttl = 1
    <3>1. n > 0 /\ Kept(n, ttl, 0) = 0 /\ Aged(ttl) = 0
      BY <2>2 DEF WindowLog, Kept, Aged
    <3>2. CASE Len(log) < n
      <4>1. Len(new) < MaxPerEmail
        BY <1>1, <1>2, <3>2, LoginLimitAssumption
      <4>2. Len(new) < 0 + MaxPerEmail
        BY <1>1, <4>1, LoginLimitAssumption
      <4> QED
        BY <3>1, <4>2 DEF WindowLog
    <3>3. CASE Len(log) >= n
      <4>1. \A i \in 1..(Len(log) - n + 1) : log[i] + 1 >= Window
        BY <1>2, <2>2, <3>1, LoginLimitAssumption DEF WindowLog
      <4>2. Len(log) - n + 1 \in 0..Len(log)
        BY <1>2, <3>1, <3>3
      <4>3. gone >= Len(log) - n + 1
        BY <1>1, <4>1, <4>2
      <4>4. Len(new) < n
        BY <1>1, <1>2, <4>3
      <4> QED
        BY <1>1, <3>1, <4>4, LoginLimitAssumption DEF WindowLog
    <3> QED
      BY <1>2, <3>2, <3>3
  <2>3. CASE ttl > 1
    <3>1. n > 0 /\ Kept(n, ttl, 0) = n /\ Aged(ttl) = ttl - 1
      BY <2>3 DEF WindowLog, Kept, Aged
    <3>2. Len(new) < n + MaxPerEmail
      BY <1>1, <1>2, LoginLimitAssumption DEF WindowLog
    <3>3. ASSUME NEW i \in 1..(Len(new) - n + 1) PROVE new[i] >= Window - (ttl - 1)
      <4>1. i + gone \in 1..(Len(log) - n + 1) /\ i \in 1..(Len(log) - gone)
        BY <1>1, <1>2, <3>1
      <4>2. log[i + gone] >= Window - ttl /\ log[i + gone] \in Nat
        BY <1>2, <3>1, <4>1 DEF WindowLog
      <4>3. new[i] = log[i + gone] + 1
        BY <1>1, <4>1
      <4>4. \A age \in Nat : age >= Window - ttl => age + 1 >= Window - (ttl - 1)
        BY LoginLimitAssumption
      <4> QED
        BY <4>2, <4>3, <4>4
    <3> QED
      BY <2>3, <3>1, <3>2, <3>3 DEF WindowLog
  <2> QED
    BY <2>1, <2>2, <2>3
<1> QED
  BY <1>1, <1>3 DEF new

LEMMA CheckStep == CheckInv /\ [Next]_vars => CheckInv'
<1> SUFFICES ASSUME CheckInv, [Next]_vars PROVE CheckInv'
  OBVIOUS
<1>0. TypeOK /\ TypeOK' /\ checks \in [Emails -> Seq(Nat)]
      /\ emailCount \in [Emails -> 0..MaxPerEmail] /\ emailTtl \in [Emails -> 0..Window]
      /\ email \in [Attempts -> Emails]
  BY TypeStep DEF CheckInv, TypeOK
<1>n. ASSUME NEW e \in Emails
      PROVE  /\ checks[e] \in Seq(Nat) /\ emailCount[e] \in 0..MaxPerEmail
             /\ emailTtl[e] \in 0..Window
             /\ WindowLog(checks[e], emailCount[e], emailTtl[e])
  BY <1>0 DEF CheckInv
<1>1. ASSUME NEW h \in Attempts, NEW e \in Emails, NEW i \in Ips, AcquireAttempt(h, e, i)
      PROVE  CheckInv'
  <2>1. /\ emailCount' = [emailCount EXCEPT ![e] = @ + 1]
        /\ emailTtl' = [emailTtl EXCEPT ![e] = Expiry(emailCount[e], @)]
        /\ checks' = [checks EXCEPT ![e] = Append(@, 0)]
        /\ ~(emailCount[e] >= MaxPerEmail)
    BY <1>1 DEF AcquireAttempt, Blocked
  <2>2. emailCount[e] < MaxPerEmail
    BY <1>n, <2>1, LoginLimitAssumption
  <2>3. /\ Append(checks[e], 0) \in Seq(Nat)
        /\ WindowLog(Append(checks[e], 0), emailCount[e] + 1, Expiry(emailCount[e], emailTtl[e]))
    BY <1>n, <2>2, AcquireKeepsLog
  <2>4. checks' \in [Emails -> Seq(Nat)]
    BY <1>0, <2>1, <2>3
  <2>5. ASSUME NEW f \in Emails PROVE WindowLog(checks[f], emailCount[f], emailTtl[f])'
    BY <1>0, <1>n, <2>1, <2>3
  <2> QED
    BY <1>0, <2>4, <2>5 DEF CheckInv
<1>2. ASSUME NEW h \in Attempts, Reset(h)
      PROVE  CheckInv'
  <2> DEFINE e == email[h]
  <2>1. /\ emailCount' = [emailCount EXCEPT ![e] = 0]
        /\ emailTtl' = [emailTtl EXCEPT ![e] = 0]
        /\ checks' = [checks EXCEPT ![e] = <<>>]
    BY <1>2 DEF Reset
  <2>2. <<>> \in Seq(Nat) /\ WindowLog(<<>>, 0, 0)
    BY LoginLimitAssumption DEF WindowLog
  <2>3. checks' \in [Emails -> Seq(Nat)]
    BY <1>0, <2>1, <2>2
  <2>4. ASSUME NEW f \in Emails PROVE WindowLog(checks[f], emailCount[f], emailTtl[f])'
    BY <1>0, <1>n, <2>1, <2>2
  <2> QED
    BY <1>0, <2>3, <2>4 DEF CheckInv
<1>3. CASE Tick
  <2>1. ASSUME NEW e \in Emails
        PROVE  /\ checks'[e] \in Seq(Nat)
               /\ WindowLog(checks[e], emailCount[e], emailTtl[e])'
    <3>1. checks'[e] = Older(checks[e]) /\ emailTtl'[e] = Aged(emailTtl[e])
          /\ emailCount'[e] = Kept(emailCount[e], emailTtl[e], 0)
      BY <1>3 DEF Tick
    <3> QED
      BY <1>n, <3>1, TickKeepsLog
  <2>2. checks' = [e \in Emails |-> Older(checks[e])]
    BY <1>3 DEF Tick
  <2>3. checks' \in [Emails -> Seq(Nat)]
    BY <2>1, <2>2
  <2> QED
    BY <1>0, <2>1, <2>3 DEF CheckInv
<1>4. CASE UNCHANGED <<checks, emailCount, emailTtl>>
  BY <1>0, <1>4 DEF CheckInv
<1> QED
  BY <1>1, <1>2, <1>3, <1>4
  DEF Next, FailOpen, Fails, Matches, ResetFails, vars, counters, history

LEMMA CheckInvInvariant == Spec => []CheckInv
<1>1. Init => CheckInv
  <2> SUFFICES ASSUME Init PROVE CheckInv
    OBVIOUS
  <2>1. TypeOK
    BY TypeInit
  <2>2. \A e \in Emails : checks[e] = <<>> /\ emailCount[e] = 0 /\ emailTtl[e] = 0
    BY DEF Init
  <2>3. <<>> \in Seq(Nat) /\ WindowLog(<<>>, 0, 0)
    BY LoginLimitAssumption DEF WindowLog
  <2>4. checks \in [Emails -> Seq(Nat)]
    BY <2>3 DEF Init
  <2> QED
    BY <2>1, <2>2, <2>3, <2>4 DEF CheckInv
<1> QED
  BY <1>1, CheckStep, PTL DEF Spec

(* However many attempts at one account run at once, from however many addresses
   and with whatever outages and successes in between, every stretch of one
   window's length holds fewer counted password checks since the last success
   than two windows allow (ratelimit.py:57-73). *)
THEOREM ChecksAlwaysBounded == Spec => []ChecksPerAccount
<1>1. CheckInv => ChecksPerAccount
  <2> SUFFICES ASSUME CheckInv, NEW e \in Emails PROVE Len(checks[e]) < 2 * MaxPerEmail
    BY DEF ChecksPerAccount
  <2>1. checks[e] \in Seq(Nat) /\ Len(checks[e]) < emailCount[e] + MaxPerEmail
        /\ emailCount[e] \in 0..MaxPerEmail
    BY DEF CheckInv, WindowLog, TypeOK
  <2> QED
    BY <2>1, LoginLimitAssumption
<1> QED
  BY <1>1, CheckInvInvariant, PTL
=============================================================================
