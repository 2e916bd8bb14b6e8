------------------------ MODULE RequestCountersProofs ------------------------
(* The promises of RequestCounters for any clients, headers, proxies, posts,
   handlers and limits.  What a key admits is bounded by what its TTL still
   forbids: each bound is inductive once the rest of the window is part of it. *)
EXTENDS RequestCounters, TLAPS, FiniteSetTheorems, SequenceTheorems

-----------------------------------------------------------------------------
(* The address of a request. *)

(* The hops of a request, one by one. *)
LEMMA TrailFacts ==
    ASSUME NEW c \in Clients, NEW prefix \in Prefixes, NEW route \in Routes
    PROVE  LET hops == Trail(prefix, c, route)
               n == Len(prefix)
               m == Len(route) IN
           /\ n \in Nat /\ m \in Nat
           /\ hops \in Seq(Addresses \cup {Junk})
           /\ Len(hops) = n + 1 + m
           /\ \A i \in 1..n : hops[i] = prefix[i]
           /\ hops[n + 1] = c
           /\ \A i \in 1..m : hops[n + 1 + i] = route[i] /\ route[i] \in Trusted
<1> DEFINE T == Addresses \cup {Junk}
<1>1. prefix \in Seq(T)
  BY CountersAssumption
<1>2. route \in Seq(Trusted)
  BY CountersAssumption
<1>3. route \in Seq(T)
  <2>1. Trusted \subseteq T
    BY DEF Addresses
  <2> QED
    BY <1>2, <2>1, SeqMonotonic
<1>4. c \in T
  BY DEF Addresses
<1> HIDE DEF T
<1> DEFINE n == Len(prefix)
           m == Len(route)
           start == prefix \o <<c>>
<1>5. n \in Nat /\ m \in Nat
  BY <1>1, <1>3
<1>6. <<c>> \in Seq(T) /\ Len(<<c>>) = 1 /\ <<c>>[1] = c
  BY <1>4
<1>7. /\ start \in Seq(T) /\ Len(start) = n + 1
      /\ \A i \in 1..n : start[i] = prefix[i]
      /\ start[n + 1] = c
  BY <1>1, <1>5, <1>6
<1> HIDE DEF start
<1>8. /\ start \o route \in Seq(T)
      /\ Len(start \o route) = n + 1 + m
      /\ \A i \in 1..(n + 1) : (start \o route)[i] = start[i]
      /\ \A i \in 1..m : (start \o route)[n + 1 + i] = route[i]
  <2>1. start \o route \in Seq(T) /\ Len(start \o route) = n + 1 + m
    BY <1>3, <1>5, <1>7
  <2>2. \A i \in 1..(n + 1) : (start \o route)[i] = start[i]
    BY <1>3, <1>5, <1>7
  <2>3. ASSUME NEW i \in 1..m PROVE (start \o route)[n + 1 + i] = route[i]
    BY <1>3, <1>5, <1>7
  <2> QED
    BY <2>1, <2>2, <2>3
<1>9. \A i \in 1..m : route[i] \in Trusted
  BY <1>2
<1>10. Trail(prefix, c, route) = start \o route
  BY DEF Trail, start
<1>11. \A i \in 1..n : (start \o route)[i] = prefix[i]
  BY <1>5, <1>7, <1>8
<1>12. (start \o route)[n + 1] = c
  BY <1>5, <1>7, <1>8
<1> QED
  BY <1>5, <1>8, <1>9, <1>10, <1>11, <1>12 DEF T

(* Trusted proxies append what they see, so the walk from the right ends at the
   client, whatever the client itself wrote to the left of it. *)
LEMMA AddressIsOwner ==
    ASSUME NEW c \in Clients, NEW prefix \in Prefixes, NEW route \in Routes
    PROVE  LET hops == Trail(prefix, c, route) IN
           /\ GetClientIp(SubSeq(hops, 1, Len(hops) - 1), hops[Len(hops)])
                = Owner(prefix, c, route)
           /\ Owner(prefix, c, route) \in Addresses
<1> DEFINE hops == Trail(prefix, c, route)
           n == Len(prefix)
           m == Len(route)
           T == Addresses \cup {Junk}
           header == SubSeq(hops, 1, n + m)
           peer == hops[n + 1 + m]
<1>1. /\ n \in Nat /\ m \in Nat
      /\ hops \in Seq(T)
      /\ Len(hops) = n + 1 + m
      /\ \A i \in 1..n : hops[i] = prefix[i]
      /\ hops[n + 1] = c
      /\ \A i \in 1..m : hops[n + 1 + i] = route[i] /\ route[i] \in Trusted
  BY TrailFacts
<1>2. Clients \cap Trusted = {} /\ Junk \notin Addresses /\ c \in Addresses
  BY CountersAssumption DEF Addresses
<1>3. prefix \in Seq(T) /\ route \in Seq(Trusted)
  BY CountersAssumption
<1> HIDE DEF hops, T
<1>4. header \in Seq(T) /\ Len(header) = n + m /\ \A i \in 1..(n + m) : header[i] = hops[i]
  BY <1>1
<1>5. Len(hops) - 1 = n + m
  BY <1>1
<1>6. GetClientIp(header, peer) = Owner(prefix, c, route) /\ Owner(prefix, c, route) \in Addresses
  <2>1. CASE m = 0
    <3>1. route = <<>> /\ peer = c
      BY <1>1, <1>3, <2>1
    <3> QED
      BY <3>1, <1>2 DEF GetClientIp, Owner
  <2>2. CASE m > 0
    <3> HIDE DEF n, m, header
    <3>1. peer = route[m] /\ peer \in Trusted /\ peer \in Addresses
      BY <1>1, <2>2 DEF Addresses
    <3>2. route # <<>> /\ header # <<>>
      BY <1>1, <1>3, <1>4, <2>2 DEF m
    <3>3. Malformed(header) <=> Malformed(prefix)
      <4>1. DOMAIN header = 1..(n + m) /\ DOMAIN prefix = 1..n
        BY <1>3, <1>4, <1>1 DEF n
      <4>2. ASSUME NEW i \in 1..n PROVE i \in 1..(n + m) /\ header[i] = prefix[i]
        BY <1>1, <1>4
      <4>3. ASSUME NEW i \in 1..(n + m), i \notin 1..n PROVE header[i] # Junk
        <5>1. CASE i = n + 1
          BY <5>1, <1>1, <1>2, <1>4
        <5>2. CASE i # n + 1
          <6>1. i - n - 1 \in 1..m /\ i = n + 1 + (i - n - 1)
            BY <1>1, <4>3, <5>2
          <6>2. hops[i] = route[i - n - 1] /\ route[i - n - 1] \in Trusted
            BY <1>1, <6>1
          <6> QED
            BY <6>2, <1>2, <1>4 DEF Addresses
        <5> QED
          BY <5>1, <5>2
      <4> QED
        BY <4>1, <4>2, <4>3 DEF Malformed
    <3>4. CASE Malformed(prefix)
      BY <3>1, <3>2, <3>3, <3>4 DEF GetClientIp, Owner, m
    <3>5. CASE ~Malformed(prefix)
      <4> DEFINE all == Append(header, peer)
      <4>1. peer \in T
        BY <3>1 DEF T
      <4>2. /\ DOMAIN all = 1..(n + m + 1) /\ Len(all) = n + m + 1
            /\ \A i \in 1..(n + m) : all[i] = hops[i]
            /\ all[n + m + 1] = peer
        BY <1>1, <1>4, <4>1
      <4> HIDE DEF all
      <4>3. all[n + 1] = c
        BY <1>1, <2>2, <4>2
      <4>4. ASSUME NEW i \in (n + 2)..(n + m + 1) PROVE ~StopsAt(all, i)
        <5>1. i - n - 1 \in 1..m /\ i = n + 1 + (i - n - 1) /\ i # 1
          BY <1>1
        <5>2. hops[i] \in Trusted
          BY <1>1, <5>1
        <5>3. all[i] = hops[i]
          BY <1>1, <4>2
        <5> QED
          BY <5>1, <5>2, <5>3 DEF StopsAt
      <4>5. StopsAt(all, n + 1)
        BY <4>3, <1>2 DEF StopsAt
      <4>6. Walk(all) = n + 1
        <5> DEFINE P(i) == StopsAt(all, i) /\ \A j \in (i + 1)..Len(all) : ~StopsAt(all, j)
        <5>1. n + 1 \in DOMAIN all /\ P(n + 1)
          <6>1. \A j \in ((n + 1) + 1)..Len(all) : j \in (n + 2)..(n + m + 1)
            BY <1>1, <4>2
          <6>2. n + 1 \in DOMAIN all
            BY <1>1, <4>2
          <6> QED
            BY <6>1, <6>2, <4>4, <4>5
        <5>2. ASSUME NEW i \in DOMAIN all, P(i) PROVE i = n + 1
          <6>1. CASE i > n + 1
            <7>1. i \in (n + 2)..(n + m + 1)
              BY <6>1, <4>2, <1>1
            <7> QED
              BY <7>1, <4>4, <5>2
          <6>2. CASE i < n + 1
            <7>1. n + 1 \in (i + 1)..Len(all)
              BY <6>2, <4>2, <1>1
            <7> QED
              BY <7>1, <4>5, <5>2
          <6> QED
            BY <6>1, <6>2, <4>2, <1>1
        <5> QED
          BY <5>1, <5>2 DEF Walk
      <4>7. GetClientIp(header, peer) = all[Walk(all)]
        BY <3>1, <3>2, <3>3, <3>5 DEF GetClientIp, all
      <4> QED
        BY <4>3, <4>6, <4>7, <3>5, <1>2 DEF Owner
    <3> QED
      BY <3>4, <3>5
  <2> QED
    BY <2>1, <2>2, <1>1
<1> QED
  BY <1>1, <1>5, <1>6 DEF hops

-----------------------------------------------------------------------------
(* Types. *)

LEMMA InitTyped == Init => TypeOK
<1> SUFFICES ASSUME Init PROVE TypeOK
  OBVIOUS
<1>1. count \in [Keys -> Nat] /\ ttl \in [Keys -> Nat]
  <2>1. UNION {0..(Limit[k] + 1) : k \in Keys} \subseteq Nat
    BY CountersAssumption
  <2>2. UNION {0..Window[k] : k \in Keys} \subseteq Nat
    BY CountersAssumption
  <2> QED
    BY <2>1, <2>2 DEF Init
<1> QED
  BY <1>1, CountersAssumption DEF Init, TypeOK

(* The counter of a key after a request was counted in it. *)
LEMMA CountTyped ==
    ASSUME TypeOK, NEW k \in Keys, Count(k)
    PROVE  /\ count' \in [Keys -> Nat] /\ ttl' \in [Keys -> Nat]
           /\ \A j \in Keys : count'[j] <= Limit[j] + 1 /\ ttl'[j] <= Window[j]
                              /\ (count'[j] = 0 <=> ttl'[j] = 0)
<1>1. /\ count \in [Keys -> Nat] /\ ttl \in [Keys -> Nat]
      /\ \A j \in Keys : count[j] <= Limit[j] + 1 /\ ttl[j] <= Window[j]
                         /\ (count[j] = 0 <=> ttl[j] = 0)
  BY DEF TypeOK
<1>2. \A j \in Keys : Limit[j] \in Nat /\ Window[j] \in Nat \ {0}
  BY CountersAssumption
<1>3. Counted(k) \in Nat \ {0} /\ Counted(k) <= Limit[k] + 1
  BY <1>1, <1>2 DEF Counted
<1>4. Expiry(k) \in Nat \ {0} /\ Expiry(k) <= Window[k]
  BY <1>1, <1>2 DEF Expiry
<1>5. count' = [count EXCEPT ![k] = Counted(k)] /\ ttl' = [ttl EXCEPT ![k] = Expiry(k)]
  BY DEF Count
<1> QED
  BY <1>1, <1>3, <1>4, <1>5

LEMMA TypeStep == TypeOK /\ [Next]_vars => TypeOK'
<1> SUFFICES ASSUME TypeOK, [Next]_vars PROVE TypeOK'
  OBVIOUS
<1>c. /\ ViewTtl \in Nat \ {0} /\ Horizon \in Nat /\ MaxOutages \in Nat /\ MaxRestarts \in Nat
      /\ \A k \in Keys : Limit[k] \in Nat /\ Window[k] \in Nat \ {0}
  BY CountersAssumption
<1> USE DEF TypeOK, Goto, Finish, writeKeys, session, faults, viewHistory, writeHistory
<1>1. ASSUME NEW r \in Readers, NEW p \in Posts, Open(r, p) PROVE TypeOK'
  <2>1. PICK c \in Clients, prefix \in Prefixes, route \in Routes :
          LET hops == Trail(prefix, c, route)
              header == SubSeq(hops, 1, Len(hops) - 1) IN
          /\ addr' = [addr EXCEPT ![r] = GetClientIp(header, hops[Len(hops)])]
          /\ owner' = [owner EXCEPT ![r] = Owner(prefix, c, route)]
    BY <1>1 DEF Open
  <2>2. PICK a \in Addresses :
          addr' = [addr EXCEPT ![r] = a] /\ owner' = [owner EXCEPT ![r] = a]
    BY <2>1, AddressIsOwner
  <2>3. /\ pc' = [pc EXCEPT ![r] = "deduplicating"]
        /\ page' = [page EXCEPT ![r] = p]
        /\ seen' = [seen EXCEPT ![r] = views[p]]
        /\ UNCHANGED <<viewed, views, hidden, count, ttl, now, outages, restarts,
                       firsts, granted, lost, written, told>>
    BY <1>1 DEF Open
  <2> QED
    BY <2>2, <2>3
<1>2. ASSUME NEW r \in Readers, Deduplicate(r) PROVE TypeOK'
  <2>1. page[r] \in Posts /\ addr[r] \in Addresses
    BY <1>2 DEF Deduplicate
  <2>2. ViewTtl \in 0..ViewTtl
    BY <1>c
  <2>3. CASE Mark(page[r], addr[r]) /\ Goto(r, "counting") /\ UNCHANGED session
    BY <1>2, <2>1, <2>2, <2>3 DEF Deduplicate, Mark
  <2>4. CASE Finish(r) /\ UNCHANGED <<viewed, firsts, granted>>
    BY <1>2, <2>4 DEF Deduplicate
  <2> QED
    BY <1>2, <2>3, <2>4 DEF Deduplicate
<1>3. ASSUME NEW r \in Readers, DeduplicationRaises(r) PROVE TypeOK'
  <2>1. page[r] \in Posts /\ addr[r] \in Addresses
    BY <1>3 DEF DeduplicationRaises
  <2>2. ViewTtl \in 0..ViewTtl
    BY <1>c
  <2>3. CASE UNCHANGED <<viewed, viewHistory>>
    BY <1>3, <2>3, <1>c DEF DeduplicationRaises, RedisRaises
  <2>4. CASE Mark(page[r], addr[r]) /\ lost' = [lost EXCEPT ![page[r]] = @ + 1]
    BY <1>3, <2>1, <2>2, <2>4, <1>c DEF DeduplicationRaises, RedisRaises, Mark
  <2> QED
    BY <1>3, <2>3, <2>4 DEF DeduplicationRaises
<1>4. ASSUME NEW r \in Readers, CountView(r) PROVE TypeOK'
  BY <1>4 DEF CountView, Incremented
<1>5. ASSUME NEW r \in Readers, CountFails(r) PROVE TypeOK'
  BY <1>5 DEF CountFails
<1>6. ASSUME NEW k \in Keys, Consume(k) PROVE TypeOK'
  BY <1>6, CountTyped DEF Consume
<1>7. ASSUME NEW k \in Keys, Refuse(k) PROVE TypeOK'
  <2>1. Expiry(k) \in Nat
    BY <1>c DEF Expiry
  <2> QED
    BY <1>7, <2>1, CountTyped DEF Refuse
<1>8. ASSUME NEW k \in Keys, FailOpen(k) PROVE TypeOK'
  <2>1. CASE Count(k)
    BY <1>8, <2>1, <1>c, CountTyped DEF FailOpen, RedisRaises
  <2>2. CASE UNCHANGED writeKeys
    BY <1>8, <2>2, <1>c DEF FailOpen, RedisRaises
  <2> QED
    BY <1>8, <2>1, <2>2 DEF FailOpen
<1>9. ASSUME NEW p \in Posts, DeletePost(p) \/ RestorePost(p) PROVE TypeOK'
  BY <1>9 DEF DeletePost, RestorePost
<1>10. ASSUME NEW r \in Readers, Crash(r) PROVE TypeOK'
  BY <1>10 DEF Crash
<1>11. CASE Tick
  <2>1. \A t \in Nat : Aged(t) \in Nat /\ Aged(t) <= t /\ (Aged(t) = 0 <=> t = 0 \/ t = 1)
    BY DEF Aged
  <2>2. viewed' \in [Posts -> [Addresses -> 0..ViewTtl]]
    <3>1. \A t \in 0..ViewTtl : Aged(t) \in 0..ViewTtl
      BY <1>c DEF Aged
    <3> QED
      BY <1>11, <3>1 DEF Tick
  <2>3. /\ count' \in [Keys -> Nat] /\ ttl' \in [Keys -> Nat] /\ told' \in [Keys -> Nat]
        /\ \A k \in Keys : count'[k] <= Limit[k] + 1 /\ ttl'[k] <= Window[k]
                           /\ (count'[k] = 0 <=> ttl'[k] = 0)
    BY <1>11, <2>1, <1>c DEF Tick
  <2>4. now' \in 0..Horizon
    BY <1>11, <1>c DEF Tick
  <2> QED
    BY <1>11, <2>2, <2>3, <2>4 DEF Tick
<1>12. CASE RedisRestart
  BY <1>12, <1>c DEF RedisRestart
<1>13. CASE UNCHANGED vars
  BY <1>13 DEF vars
<1> QED
  BY <1>1, <1>2, <1>3, <1>4, <1>5, <1>6, <1>7, <1>8, <1>9, <1>10, <1>11, <1>12, <1>13 DEF Next

(* Every counter, key and clock stays within its range. *)
THEOREM CountersTyped == Spec => []TypeOK
  BY InitTyped, TypeStep, PTL DEF Spec

(* No request is accounted to another client than its own (client_ip.py:48-83). *)
THEOREM RequestsAccountedToThemselves == Spec => []AccountedToItself
<1>1. Init => AccountedToItself
  BY DEF Init, AccountedToItself
<1>2. TypeOK /\ AccountedToItself /\ [Next]_vars => AccountedToItself'
  <2> SUFFICES ASSUME TypeOK, AccountedToItself, [Next]_vars PROVE AccountedToItself'
    OBVIOUS
  <2>1. ASSUME NEW r \in Readers, NEW p \in Posts, Open(r, p) PROVE AccountedToItself'
    <3>1. PICK c \in Clients, prefix \in Prefixes, route \in Routes :
            LET hops == Trail(prefix, c, route) IN
            /\ addr' = [addr EXCEPT ![r] =
                           GetClientIp(SubSeq(hops, 1, Len(hops) - 1), hops[Len(hops)])]
            /\ owner' = [owner EXCEPT ![r] = Owner(prefix, c, route)]
      BY <2>1 DEF Open
    <3>2. PICK a : addr' = [addr EXCEPT ![r] = a] /\ owner' = [owner EXCEPT ![r] = a]
      BY <3>1, AddressIsOwner
    <3>3. DOMAIN addr = Readers /\ DOMAIN owner = Readers
      BY DEF TypeOK
    <3> QED
      BY <3>2, <3>3 DEF AccountedToItself
  <2>2. ASSUME NEW r \in Readers, Finish(r) PROVE AccountedToItself'
    BY <2>2 DEF Finish, AccountedToItself, TypeOK
  <2>3. ASSUME UNCHANGED <<addr, owner>> PROVE AccountedToItself'
    BY <2>3 DEF AccountedToItself
  <2>4. ASSUME NEW r \in Readers,
               \/ Deduplicate(r) \/ DeduplicationRaises(r)
               \/ CountView(r) \/ CountFails(r) \/ Crash(r)
        PROVE  Finish(r) \/ UNCHANGED <<addr, owner>>
    BY <2>4 DEF Deduplicate, DeduplicationRaises, CountView, CountFails, Crash, session
  <2>5. CASE \/ \E k \in Keys : Consume(k) \/ Refuse(k) \/ FailOpen(k)
             \/ \E p \in Posts : DeletePost(p) \/ RestorePost(p)
             \/ Tick \/ RedisRestart \/ UNCHANGED vars
    BY <2>3, <2>5 DEF Consume, Refuse, FailOpen, DeletePost, RestorePost, Tick, RedisRestart,
                      vars, session
  <2> QED
    BY <2>1, <2>2, <2>3, <2>4, <2>5 DEF Next
<1> QED
  BY <1>1, <1>2, CountersTyped, PTL DEF Spec

-----------------------------------------------------------------------------
(* Views of an address: each took a key that is gone, or is in the one there is. *)

ViewsInv ==
    \A p \in Posts, a \in Addresses :
        firsts[p][a] * ViewTtl <= now + viewed[p][a] + restarts * ViewTtl

LEMMA MarkKeepsViewsInv ==
    ASSUME TypeOK, ViewsInv, NEW q \in Posts, NEW b \in Addresses, Mark(q, b),
           UNCHANGED <<now, restarts>>
    PROVE  ViewsInv'
<1> SUFFICES ASSUME NEW p \in Posts, NEW a \in Addresses
             PROVE  firsts'[p][a] * ViewTtl <= now + viewed'[p][a] + restarts * ViewTtl
  BY DEF ViewsInv
<1>1. /\ firsts[p][a] \in Nat /\ viewed[p][a] \in Nat /\ now \in Nat /\ restarts \in Nat
      /\ ViewTtl \in Nat
      /\ firsts[p][a] * ViewTtl <= now + viewed[p][a] + restarts * ViewTtl
  BY CountersAssumption DEF TypeOK, ViewsInv
<1>2. CASE p = q /\ a = b
  <2>1. viewed[p][a] = 0 /\ viewed'[p][a] = ViewTtl /\ firsts'[p][a] = firsts[p][a] + 1
    BY <1>2 DEF Mark, FirstView, TypeOK
  <2>2. (firsts[p][a] + 1) * ViewTtl = firsts[p][a] * ViewTtl + ViewTtl
    BY <1>1
  <2>3. firsts[p][a] * ViewTtl \in Nat /\ restarts * ViewTtl \in Nat
    BY <1>1
  <2> QED
    BY <1>1, <2>1, <2>2, <2>3
<1>3. CASE ~(p = q /\ a = b)
  <2>1. viewed'[p][a] = viewed[p][a] /\ firsts'[p][a] = firsts[p][a]
    BY <1>3 DEF Mark, TypeOK
  <2> QED
    BY <1>1, <2>1
<1> QED
  BY <1>2, <1>3

LEMMA ViewsInvStep == TypeOK /\ ViewsInv /\ [Next]_vars => ViewsInv'
<1> SUFFICES ASSUME TypeOK, ViewsInv, [Next]_vars PROVE ViewsInv'
  OBVIOUS
<1>0. ASSUME UNCHANGED <<firsts, viewed, now, restarts>> PROVE ViewsInv'
  BY <1>0 DEF ViewsInv
<1>1. ASSUME NEW r \in Readers, Deduplicate(r) PROVE ViewsInv'
  <2>1. page[r] \in Posts /\ addr[r] \in Addresses
    BY <1>1 DEF Deduplicate, TypeOK
  <2>2. CASE Mark(page[r], addr[r])
    BY <1>1, <2>1, <2>2, MarkKeepsViewsInv DEF Deduplicate, faults
  <2>3. CASE UNCHANGED <<viewed, firsts, granted>>
    BY <1>1, <2>3, <1>0 DEF Deduplicate, faults
  <2> QED
    BY <1>1, <2>2, <2>3 DEF Deduplicate
<1>2. ASSUME NEW r \in Readers, DeduplicationRaises(r) PROVE ViewsInv'
  <2>1. page[r] \in Posts /\ addr[r] \in Addresses
    BY <1>2 DEF DeduplicationRaises, TypeOK
  <2>2. CASE Mark(page[r], addr[r])
    BY <1>2, <2>1, <2>2, MarkKeepsViewsInv DEF DeduplicationRaises
  <2>3. CASE UNCHANGED <<viewed, viewHistory>>
    BY <1>2, <2>3, <1>0 DEF DeduplicationRaises, viewHistory
  <2> QED
    BY <1>2, <2>2, <2>3 DEF DeduplicationRaises
<1>3. ASSUME Tick \/ RedisRestart, NEW p \in Posts, NEW a \in Addresses
      PROVE  firsts'[p][a] * ViewTtl <= now' + viewed'[p][a] + restarts' * ViewTtl
  <2>1. /\ firsts[p][a] \in Nat /\ viewed[p][a] \in 0..ViewTtl /\ now \in Nat
        /\ restarts \in Nat /\ ViewTtl \in Nat
        /\ firsts[p][a] * ViewTtl <= now + viewed[p][a] + restarts * ViewTtl
        /\ firsts'[p][a] = firsts[p][a]
    BY <1>3, CountersAssumption DEF TypeOK, ViewsInv, Tick, RedisRestart, viewHistory
  <2>2. firsts[p][a] * ViewTtl \in Nat /\ restarts * ViewTtl \in Nat
        /\ (restarts + 1) * ViewTtl = restarts * ViewTtl + ViewTtl
    BY <2>1
  <2>3. CASE Tick
    <3>1. now' = now + 1 /\ restarts' = restarts /\ viewed'[p][a] = Aged(viewed[p][a])
      BY <2>3 DEF Tick, faults
    <3>2. \A u \in Nat : Aged(u) \in Nat /\ Aged(u) + 1 >= u
      BY DEF Aged
    <3>3. viewed[p][a] \in Nat
      BY <2>1
    <3> QED
      BY <2>1, <2>2, <3>1, <3>2, <3>3
  <2>4. CASE RedisRestart
    <3>1. now' = now /\ restarts' = restarts + 1 /\ viewed'[p][a] = 0
      BY <2>4 DEF RedisRestart
    <3> QED
      BY <2>1, <2>2, <3>1
  <2> QED
    BY <1>3, <2>3, <2>4
<1>4. CASE Tick \/ RedisRestart
  BY <1>3, <1>4 DEF ViewsInv
<1>5. ASSUME \/ \E r \in Readers, p \in Posts : Open(r, p)
             \/ \E r \in Readers : CountView(r) \/ CountFails(r) \/ Crash(r)
             \/ \E k \in Keys : Consume(k) \/ Refuse(k) \/ FailOpen(k)
             \/ \E p \in Posts : DeletePost(p) \/ RestorePost(p)
             \/ UNCHANGED vars
      PROVE  UNCHANGED <<firsts, viewed, now, restarts>>
  BY <1>5 DEF Open, CountView, CountFails, Consume, Refuse, FailOpen, DeletePost, RestorePost,
              Crash, vars, viewHistory, faults
<1> QED
  BY <1>0, <1>1, <1>2, <1>4, <1>5 DEF Next

(* An address raises a post's count once per window (post.py:160-173). *)
THEOREM ViewsAlwaysPerWindow == Spec => []ViewsPerWindow
<1>1. Init => ViewsInv
  <2> SUFFICES ASSUME Init, NEW p \in Posts, NEW a \in Addresses
               PROVE  firsts[p][a] * ViewTtl <= now + viewed[p][a] + restarts * ViewTtl
    BY DEF ViewsInv
  <2>1. firsts[p][a] = 0 /\ now = 0 /\ restarts = 0 /\ viewed[p][a] \in Nat /\ ViewTtl \in Nat
    BY CountersAssumption DEF Init
  <2> QED
    BY <2>1
<1>2. TypeOK /\ ViewsInv => ViewsPerWindow
  <2> SUFFICES ASSUME TypeOK, ViewsInv, NEW p \in Posts, NEW a \in Addresses
               PROVE  firsts[p][a] * ViewTtl <= now + (1 + restarts) * ViewTtl
    BY DEF ViewsPerWindow
  <2>1. /\ firsts[p][a] \in Nat /\ viewed[p][a] \in 0..ViewTtl /\ now \in Nat
        /\ restarts \in Nat /\ ViewTtl \in Nat
        /\ firsts[p][a] * ViewTtl <= now + viewed[p][a] + restarts * ViewTtl
    BY CountersAssumption DEF TypeOK, ViewsInv
  <2>2. (1 + restarts) * ViewTtl = ViewTtl + restarts * ViewTtl
        /\ firsts[p][a] * ViewTtl \in Nat /\ restarts * ViewTtl \in Nat
    BY <2>1
  <2> QED
    BY <2>1, <2>2
<1> QED
  BY <1>1, <1>2, ViewsInvStep, CountersTyped, PTL DEF Spec

-----------------------------------------------------------------------------
(* First views on their way into view_count. *)

Counting(p) == {r \in Readers : pc[r] = "counting" /\ page[r] = p}

LEMMA CountingFinite ==
    ASSUME NEW p
    PROVE  IsFiniteSet(Counting(p)) /\ Pending(p) = Cardinality(Counting(p)) /\ Pending(p) \in Nat
<1>1. Counting(p) \subseteq Readers
  BY DEF Counting
<1> QED
  BY <1>1, CountersAssumption, FS_Subset, FS_CardinalityType DEF Pending, Counting

(* A reader that does not start or end counting changes no post's pending views. *)
LEMMA PendingKept ==
    ASSUME TypeOK, NEW r \in Readers, pc[r] # "counting", NEW stage, stage # "counting",
           pc' = [pc EXCEPT ![r] = stage], NEW x, page' = [page EXCEPT ![r] = x]
    PROVE  \A p \in Posts : Pending(p)' = Pending(p)
  BY DEF Pending, TypeOK

LEMMA PendingStarts ==
    ASSUME TypeOK, NEW r \in Readers, pc[r] # "counting",
           pc' = [pc EXCEPT ![r] = "counting"], page' = page
    PROVE  \A p \in Posts : Pending(p)' = IF p = page[r] THEN Pending(p) + 1 ELSE Pending(p)
<1> SUFFICES ASSUME NEW p \in Posts
             PROVE  Pending(p)' = IF p = page[r] THEN Pending(p) + 1 ELSE Pending(p)
  OBVIOUS
<1>1. CASE p = page[r]
  <2>1. Counting(p)' = Counting(p) \cup {r} /\ r \notin Counting(p)
    BY <1>1 DEF Counting, TypeOK
  <2>2. Cardinality(Counting(p) \cup {r}) = Cardinality(Counting(p)) + 1
    BY <2>1, CountingFinite, FS_AddElement
  <2>3. Pending(p)' = Cardinality(Counting(p)')
    BY DEF Pending, Counting
  <2> QED
    BY <1>1, <2>1, <2>2, <2>3, CountingFinite
<1>2. CASE p # page[r]
  BY <1>2 DEF Pending, TypeOK
<1> QED
  BY <1>1, <1>2

LEMMA PendingEnds ==
    ASSUME TypeOK, NEW r \in Readers, pc[r] = "counting",
           pc' = [pc EXCEPT ![r] = "idle"], page' = [page EXCEPT ![r] = NoPost]
    PROVE  \A p \in Posts : Pending(p)' = IF p = page[r] THEN Pending(p) - 1 ELSE Pending(p)
<1> SUFFICES ASSUME NEW p \in Posts
             PROVE  Pending(p)' = IF p = page[r] THEN Pending(p) - 1 ELSE Pending(p)
  OBVIOUS
<1>1. CASE p = page[r]
  <2>1. Counting(p)' = Counting(p) \ {r} /\ r \in Counting(p)
    BY <1>1 DEF Counting, TypeOK
  <2>2. Cardinality(Counting(p) \ {r}) = Cardinality(Counting(p)) - 1
    BY <2>1, CountingFinite, FS_RemoveElement
  <2>3. Pending(p)' = Cardinality(Counting(p)')
    BY DEF Pending, Counting
  <2> QED
    BY <1>1, <2>1, <2>2, <2>3, CountingFinite
<1>2. CASE p # page[r]
  BY <1>2 DEF Pending, TypeOK
<1> QED
  BY <1>1, <1>2

LEMMA ViewsKept == TypeOK /\ ViewsNotLost /\ [Next]_vars => ViewsNotLost'
<1> SUFFICES ASSUME TypeOK, ViewsNotLost, [Next]_vars, NEW p \in Posts
             PROVE  views'[p] + Pending(p)' + lost'[p] = granted'[p]
  BY DEF ViewsNotLost
<1>t. /\ views[p] \in Nat /\ lost[p] \in Nat /\ granted[p] \in Nat /\ Pending(p) \in Nat
      /\ views[p] + Pending(p) + lost[p] = granted[p]
  BY CountingFinite DEF TypeOK, ViewsNotLost
<1>0. ASSUME Pending(p)' = Pending(p), UNCHANGED <<views, lost, granted>>
      PROVE  views'[p] + Pending(p)' + lost'[p] = granted'[p]
  BY <1>0, <1>t
<1>1. ASSUME NEW r \in Readers, NEW q \in Posts, Open(r, q)
      PROVE  views'[p] + Pending(p)' + lost'[p] = granted'[p]
  <2>1. /\ pc[r] # "counting" /\ pc' = [pc EXCEPT ![r] = "deduplicating"]
        /\ page' = [page EXCEPT ![r] = q]
        /\ UNCHANGED <<views, lost, granted>>
    BY <1>1 DEF Open, Goto, viewHistory
  <2>2. Pending(p)' = Pending(p)
    BY <2>1, PendingKept
  <2> QED
    BY <1>0, <2>1, <2>2
<1>2. ASSUME NEW r \in Readers, Deduplicate(r)
      PROVE  views'[p] + Pending(p)' + lost'[p] = granted'[p]
  <2>0. pc[r] # "counting" /\ UNCHANGED <<views, lost>>
    BY <1>2 DEF Deduplicate
  <2>1. CASE Mark(page[r], addr[r]) /\ Goto(r, "counting") /\ UNCHANGED session
    <3>1. Pending(p)' = IF p = page[r] THEN Pending(p) + 1 ELSE Pending(p)
      BY <2>0, <2>1, PendingStarts DEF Goto, session
    <3>2. granted'[p] = IF p = page[r] THEN granted[p] + 1 ELSE granted[p]
      BY <2>1 DEF Mark, TypeOK
    <3> QED
      BY <1>t, <2>0, <3>1, <3>2
  <2>2. CASE Finish(r) /\ UNCHANGED <<viewed, firsts, granted>>
    <3>1. Pending(p)' = Pending(p)
      BY <2>0, <2>2, PendingKept DEF Finish, Goto
    <3> QED
      BY <1>0, <2>0, <2>2, <3>1
  <2> QED
    BY <1>2, <2>1, <2>2 DEF Deduplicate
<1>3. ASSUME NEW r \in Readers, DeduplicationRaises(r)
      PROVE  views'[p] + Pending(p)' + lost'[p] = granted'[p]
  <2>1. pc[r] # "counting" /\ Finish(r) /\ UNCHANGED views
    BY <1>3 DEF DeduplicationRaises
  <2>2. Pending(p)' = Pending(p)
    BY <2>1, PendingKept DEF Finish, Goto
  <2>3. CASE UNCHANGED <<viewed, viewHistory>>
    BY <1>0, <2>1, <2>2, <2>3 DEF viewHistory
  <2>4. CASE Mark(page[r], addr[r]) /\ lost' = [lost EXCEPT ![page[r]] = @ + 1]
    <3>1. /\ granted'[p] = IF p = page[r] THEN granted[p] + 1 ELSE granted[p]
          /\ lost'[p] = IF p = page[r] THEN lost[p] + 1 ELSE lost[p]
      BY <2>4 DEF Mark, TypeOK
    <3> QED
      BY <1>t, <2>1, <2>2, <3>1
  <2> QED
    BY <1>3, <2>3, <2>4 DEF DeduplicationRaises
<1>4. ASSUME NEW r \in Readers, CountView(r) \/ CountFails(r)
      PROVE  views'[p] + Pending(p)' + lost'[p] = granted'[p]
  <2>1. pc[r] = "counting" /\ Finish(r) /\ UNCHANGED granted
    BY <1>4 DEF CountView, CountFails, viewHistory
  <2>2. Pending(p)' = IF p = page[r] THEN Pending(p) - 1 ELSE Pending(p)
    BY <2>1, PendingEnds DEF Finish, Goto
  <2>3. \/ /\ views'[p] = IF p = page[r] THEN views[p] + 1 ELSE views[p]
           /\ lost' = lost
        \/ /\ lost'[p] = IF p = page[r] THEN lost[p] + 1 ELSE lost[p]
           /\ views' = views
    BY <1>4 DEF CountView, CountFails, Incremented, viewHistory, TypeOK
  <2> QED
    BY <1>t, <2>1, <2>2, <2>3
<1>5. ASSUME NEW r \in Readers, Crash(r)
      PROVE  views'[p] + Pending(p)' + lost'[p] = granted'[p]
  <2>1. Finish(r) /\ UNCHANGED <<views, granted>>
    BY <1>5 DEF Crash
  <2>2. CASE pc[r] = "counting"
    <3>1. Pending(p)' = IF p = page[r] THEN Pending(p) - 1 ELSE Pending(p)
      BY <2>1, <2>2, PendingEnds DEF Finish, Goto
    <3>2. lost'[p] = IF p = page[r] THEN lost[p] + 1 ELSE lost[p]
      BY <1>5, <2>2 DEF Crash, TypeOK
    <3> QED
      BY <1>t, <2>1, <3>1, <3>2
  <2>3. CASE pc[r] # "counting"
    <3>1. Pending(p)' = Pending(p)
      BY <2>1, <2>3, PendingKept DEF Finish, Goto
    <3>2. lost' = lost
      BY <1>5, <2>3 DEF Crash
    <3> QED
      BY <1>0, <2>1, <3>1, <3>2
  <2> QED
    BY <2>2, <2>3
<1>6. ASSUME \/ \E k \in Keys : Consume(k) \/ Refuse(k) \/ FailOpen(k)
             \/ \E q \in Posts : DeletePost(q) \/ RestorePost(q)
             \/ Tick \/ RedisRestart \/ UNCHANGED vars
      PROVE  UNCHANGED <<pc, page, views, lost, granted>>
  BY <1>6 DEF Consume, Refuse, FailOpen, DeletePost, RestorePost, Tick, RedisRestart, vars,
              viewHistory, session
<1>7. ASSUME UNCHANGED <<pc, page, views, lost, granted>>
      PROVE  views'[p] + Pending(p)' + lost'[p] = granted'[p]
  <2>1. Pending(p)' = Pending(p)
    BY <1>7 DEF Pending
  <2> QED
    BY <1>0, <1>7, <2>1
<1> QED
  BY <1>1, <1>2, <1>3, <1>4, <1>5, <1>6, <1>7 DEF Next

(* A first view is lost to failures only (repository.py:200-209). *)
THEOREM ViewsNeverLostToReaders == Spec => []ViewsNotLost
<1>1. Init => ViewsNotLost
  <2> SUFFICES ASSUME Init, NEW p \in Posts
               PROVE  views[p] + Pending(p) + lost[p] = granted[p]
    BY DEF ViewsNotLost
  <2>1. Counting(p) = {}
    BY DEF Init, Counting
  <2>2. Pending(p) = 0
    BY <2>1, CountingFinite, FS_EmptySet
  <2>3. views[p] = 0 /\ lost[p] = 0 /\ granted[p] = 0
    BY DEF Init
  <2> QED
    BY <2>2, <2>3
<1> QED
  BY <1>1, ViewsKept, CountersTyped, PTL DEF Spec

-----------------------------------------------------------------------------
(* What a write-rate key allows.  n requests of a key with limit l and window w are
   allowed by time t after o outages and s restarts: with c counted and r ticks
   of the window left, what the window may still allow is held back.          *)

Spare(l, w, c, r) == IF r = 0 THEN 0 ELSE (IF c < l THEN l - c ELSE 0) * w
Bounded(l, w, n, c, r, t, o, s) ==
    n * w + Spare(l, w, c, r) <= o * w + l * (t + r) + (1 + s) * (l * w)

LEMMA BoundedCounts ==
    ASSUME NEW l \in Nat, NEW w \in Nat \ {0}, NEW n \in Nat, NEW c \in Nat, NEW r \in Nat,
           NEW t \in Nat, NEW o \in Nat, NEW s \in Nat,
           r <= w, c = 0 <=> r = 0,
           Bounded(l, w, n, c, r, t, o, s),
           NEW c2 \in Nat, c2 = IF c > l THEN c ELSE c + 1,
           NEW r2 \in Nat, r2 = IF c = 0 THEN w ELSE r
    PROVE  /\ c2 <= l => Bounded(l, w, n + 1, c2, r2, t, o, s)
           /\ Bounded(l, w, n, c2, r2, t, o, s)
           /\ Bounded(l, w, n + 1, c2, r2, t, o + 1, s)
<1> DEFINE A == n * w
           O == o * w
           B == (1 + s) * (l * w)
           lw == l * w
<1>1. A \in Nat /\ O \in Nat /\ B \in Nat /\ lw \in Nat /\ l * (t + r) \in Nat
  BY SMT
<1>2. (n + 1) * w = A + w /\ (o + 1) * w = O + w
  BY SMT
<1>3. A + Spare(l, w, c, r) <= O + l * (t + r) + B
  BY DEF Bounded
<1>4. CASE c = 0
  <2>1. r = 0 /\ Spare(l, w, c, r) = 0 /\ r2 = w /\ c2 = 1
    BY <1>4 DEF Spare
  <2>2. l * (t + r2) = l * (t + r) + lw
    BY <2>1, SMT
  <2>3. l >= 1 => Spare(l, w, c2, r2) = lw - w
    <3>1. (l - 1) * w = lw - w /\ 0 * w = 0
      BY SMT
    <3>2. CASE l = 1
      BY <2>1, <3>1, <3>2 DEF Spare
    <3>3. CASE l > 1
      BY <2>1, <3>1, <3>3 DEF Spare
    <3> QED
      BY <3>2, <3>3
  <2>4. l = 0 => Spare(l, w, c2, r2) = 0
    BY <2>1 DEF Spare
  <2>5. A + 0 <= O + l * (t + r) + B
    BY <1>3, <2>1
  <2> HIDE DEF A, O, B, lw
  <2>6. Spare(l, w, c2, r2) <= lw /\ Spare(l, w, c2, r2) \in Int
        /\ (c2 <= l => Spare(l, w, c2, r2) + w <= lw)
    BY <1>1, <2>1, <2>3, <2>4
  <2>7. /\ c2 <= l => A + w + Spare(l, w, c2, r2) <= O + l * (t + r2) + B
        /\ A + Spare(l, w, c2, r2) <= O + l * (t + r2) + B
        /\ A + w + Spare(l, w, c2, r2) <= O + w + l * (t + r2) + B
    BY <1>1, <2>2, <2>5, <2>6
  <2> QED
    BY <1>2, <2>7 DEF Bounded, A, O, B
<1>5. CASE c # 0
  <2>1. r # 0 /\ r2 = r
    BY <1>5
  <2>2. /\ Spare(l, w, c2, r2) \in Int /\ Spare(l, w, c, r) \in Int
        /\ Spare(l, w, c2, r2) <= Spare(l, w, c, r)
        /\ c2 <= l => Spare(l, w, c2, r2) + w = Spare(l, w, c, r)
    <3>1. CASE c < l
      <4>1. c2 = c + 1 /\ Spare(l, w, c, r) = (l - c) * w
        BY <2>1, <3>1 DEF Spare
      <4>2. Spare(l, w, c2, r2) = (l - (c + 1)) * w
        <5>1. CASE c + 1 < l
          BY <2>1, <4>1, <5>1 DEF Spare
        <5>2. CASE c + 1 = l
          <6>1. (l - (c + 1)) * w = 0 /\ Spare(l, w, c2, r2) = 0 * w /\ 0 * w = 0
            BY <2>1, <4>1, <5>2 DEF Spare
          <6> QED
            BY <6>1
        <5> QED
          BY <3>1, <5>1, <5>2
      <4>3. (l - c) * w = (l - (c + 1)) * w + w /\ (l - c) * w \in Int /\ (l - (c + 1)) * w \in Int
        BY SMT
      <4> QED
        BY <4>1, <4>2, <4>3
    <3>2. CASE ~(c < l)
      <4>1. ~(c2 <= l) /\ ~(c2 < l) /\ 0 * w = 0
        BY <3>2
      <4> QED
        BY <2>1, <3>2, <4>1 DEF Spare
    <3> QED
      BY <3>1, <3>2
  <2> HIDE DEF A, O, B, lw
  <2>3. /\ c2 <= l => A + w + Spare(l, w, c2, r2) <= O + l * (t + r) + B
        /\ A + Spare(l, w, c2, r2) <= O + l * (t + r) + B
        /\ A + w + Spare(l, w, c2, r2) <= O + w + l * (t + r) + B
    BY <1>1, <1>3, <2>2
  <2> QED
    BY <1>2, <2>1, <2>3 DEF Bounded, A, O, B
<1> QED
  BY <1>4, <1>5

LEMMA BoundedElsewhere ==
    ASSUME NEW l \in Nat, NEW w \in Nat \ {0}, NEW n \in Nat, NEW c \in Nat, NEW r \in Nat,
           NEW t \in Nat, NEW o \in Nat, NEW s \in Nat,
           r <= w, c = 0 <=> r = 0,
           Bounded(l, w, n, c, r, t, o, s)
    PROVE  /\ Bounded(l, w, n, c, r, t, o + 1, s)
           /\ Bounded(l, w, n + 1, c, r, t, o + 1, s)
           /\ Bounded(l, w, n, IF r = 1 THEN 0 ELSE c, Aged(r), t + 1, o, s)
           /\ Bounded(l, w, n, 0, 0, t, o, s + 1)
           /\ n * w <= o * w + l * (t + (2 + s) * w)
<1> DEFINE A == n * w
           O == o * w
           B == (1 + s) * (l * w)
           lw == l * w
           S == Spare(l, w, c, r)
           lt == l * t
           lr == l * r
<1>1. A \in Nat /\ O \in Nat /\ B \in Nat /\ lw \in Nat /\ lt \in Nat /\ lr \in Nat
  BY SMT
<1>2. /\ (n + 1) * w = A + w /\ (o + 1) * w = O + w
      /\ l * (t + r) = lt + lr /\ l * (t + 1) = lt + l
      /\ (1 + (s + 1)) * (l * w) = B + lw
      /\ l * (t + (2 + s) * w) = lt + lw + B
  BY SMT
<1>3. S \in Nat
  <2>1. \A d \in Nat : d * w \in Nat
    BY SMT
  <2>2. (IF c < l THEN l - c ELSE 0) \in Nat
    OBVIOUS
  <2> QED
    BY <2>1, <2>2 DEF Spare
<1>4. lr <= lw
  BY SMT
<1>5. A + S <= O + (lt + lr) + B
  BY <1>2 DEF Bounded
<1>6. r = 0 => lr = 0
  BY SMT
<1>7. r > 0 => lr >= l
  BY SMT
<1>8. l * ((t + 1) + (r - 1)) = lt + lr /\ l * ((t + 1) + 0) = lt + l /\ l * (t + 0) = lt
  BY SMT
<1>9. Spare(l, w, 0, 0) = 0
  BY DEF Spare
<1> HIDE DEF A, O, B, lw, lt, lr, S
<1>10. Bounded(l, w, n, c, r, t, o + 1, s)
  <2>1. A + S <= (O + w) + (lt + lr) + B
    BY <1>1, <1>3, <1>5
  <2> QED
    BY <2>1, <1>2 DEF Bounded, S, A, B
<1>11. Bounded(l, w, n + 1, c, r, t, o + 1, s)
  <2>1. (A + w) + S <= (O + w) + (lt + lr) + B
    BY <1>1, <1>3, <1>5
  <2> QED
    BY <2>1, <1>2 DEF Bounded, S, B
<1>12. Bounded(l, w, n, IF r = 1 THEN 0 ELSE c, Aged(r), t + 1, o, s)
  <2>1. CASE r > 1
    <3>1. Aged(r) = r - 1 /\ (IF r = 1 THEN 0 ELSE c) = c
      BY <2>1 DEF Aged
    <3>2. Spare(l, w, c, r - 1) = S
      BY <2>1 DEF Spare, S
    <3> QED
      BY <3>1, <3>2, <1>5, <1>8 DEF Bounded, A, O, B
  <2>2. CASE r = 1 \/ r = 0
    <3>1. Aged(r) = 0 /\ (IF r = 1 THEN 0 ELSE c) = 0
      BY <2>2 DEF Aged
    <3>2. lr <= l
      BY <2>2, <1>6 DEF lr
    <3>3. A + 0 <= O + (lt + l) + B
      BY <1>1, <1>3, <1>5, <3>2
    <3> QED
      BY <3>1, <3>3, <1>8, <1>9 DEF Bounded, A, O, B
  <2> QED
    BY <2>1, <2>2
<1>13. Bounded(l, w, n, 0, 0, t, o, s + 1)
  <2>1. A + 0 <= O + lt + (B + lw)
    BY <1>1, <1>3, <1>4, <1>5
  <2> QED
    BY <2>1, <1>2, <1>8, <1>9 DEF Bounded, A, O
<1>14. A <= O + (lt + lw + B)
  BY <1>1, <1>3, <1>4, <1>5
<1>15. n * w <= o * w + l * (t + (2 + s) * w)
  BY <1>14, <1>2 DEF A, O
<1> QED
  BY <1>10, <1>11, <1>12, <1>13, <1>15

LEMMA BoundedStarts ==
    ASSUME NEW l \in Nat, NEW w \in Nat \ {0}, NEW c \in Nat, NEW r \in Nat
    PROVE  Bounded(l, w, 0, c, r, 0, 0, 0)
<1> DEFINE lw == l * w
           S == Spare(l, w, c, r)
<1>1. lw \in Nat /\ l * (0 + r) \in Nat /\ 0 * w = 0 /\ (1 + 0) * (l * w) = lw
  BY SMT
<1>2. S <= lw /\ S \in Int
  <2>1. CASE r = 0 \/ ~(c < l)
    <3>1. S = 0
      BY <2>1, <1>1 DEF Spare
    <3> QED
      BY <3>1, <1>1
  <2>2. CASE r # 0 /\ c < l
    <3>1. S = (l - c) * w
      BY <2>2 DEF Spare
    <3>2. (l - c) * w = l * w - c * w /\ c * w \in Nat /\ (l - c) * w \in Int
      BY SMT
    <3> QED
      BY <3>1, <3>2, <1>1
  <2> QED
    BY <2>1, <2>2
<1> HIDE DEF lw, S
<1>3. 0 + S <= 0 + l * (0 + r) + lw
  BY <1>1, <1>2
<1> QED
  BY <1>1, <1>3 DEF Bounded, S

WritesInv ==
    \A k \in Keys :
        Bounded(Limit[k], Window[k], written[k], count[k], ttl[k], now, outages, restarts)

LEMMA KeyFacts ==
    ASSUME TypeOK, NEW k \in Keys
    PROVE  /\ Limit[k] \in Nat /\ Window[k] \in Nat \ {0}
           /\ written[k] \in Nat /\ count[k] \in Nat /\ ttl[k] \in Nat
           /\ now \in Nat /\ outages \in Nat /\ restarts \in Nat
           /\ ttl[k] <= Window[k] /\ (count[k] = 0 <=> ttl[k] = 0)
  BY CountersAssumption DEF TypeOK

(* What counting one request, and what everything else, does to the bound of a key. *)
LEMMA KeyBounds ==
    ASSUME TypeOK, WritesInv, NEW k \in Keys
    PROVE  LET B(n, c, r, t, o, s) == Bounded(Limit[k], Window[k], n, c, r, t, o, s) IN
           /\ ~Over(k) => B(written[k] + 1, Counted(k), Expiry(k), now, outages, restarts)
           /\ B(written[k], Counted(k), Expiry(k), now, outages, restarts)
           /\ B(written[k] + 1, Counted(k), Expiry(k), now, outages + 1, restarts)
           /\ B(written[k], count[k], ttl[k], now, outages + 1, restarts)
           /\ B(written[k] + 1, count[k], ttl[k], now, outages + 1, restarts)
           /\ B(written[k], IF ttl[k] = 1 THEN 0 ELSE count[k], Aged(ttl[k]), now + 1,
                outages, restarts)
           /\ B(written[k], 0, 0, now, outages, restarts + 1)
           /\ written[k] * Window[k] <=
                outages * Window[k] + Limit[k] * (now + (2 + restarts) * Window[k])
<1>1. Bounded(Limit[k], Window[k], written[k], count[k], ttl[k], now, outages, restarts)
  BY DEF WritesInv
<1>2. /\ Limit[k] \in Nat /\ Window[k] \in Nat \ {0}
      /\ written[k] \in Nat /\ count[k] \in Nat /\ ttl[k] \in Nat
      /\ now \in Nat /\ outages \in Nat /\ restarts \in Nat
      /\ ttl[k] <= Window[k] /\ (count[k] = 0 <=> ttl[k] = 0)
  BY KeyFacts
<1>3. /\ Counted(k) \in Nat /\ Counted(k) = IF count[k] > Limit[k] THEN count[k] ELSE count[k] + 1
      /\ Expiry(k) \in Nat /\ Expiry(k) = IF count[k] = 0 THEN Window[k] ELSE ttl[k]
      /\ (Over(k) <=> ~(Counted(k) <= Limit[k]))
  BY <1>2 DEF Counted, Expiry, Over
<1>4. /\ Counted(k) <= Limit[k] =>
           Bounded(Limit[k], Window[k], written[k] + 1, Counted(k), Expiry(k), now, outages, restarts)
      /\ Bounded(Limit[k], Window[k], written[k], Counted(k), Expiry(k), now, outages, restarts)
      /\ Bounded(Limit[k], Window[k], written[k] + 1, Counted(k), Expiry(k), now, outages + 1, restarts)
  <2> HIDE DEF Bounded, Counted, Expiry
  <2> QED
    BY <1>1, <1>2, <1>3, BoundedCounts
<1>5. /\ Bounded(Limit[k], Window[k], written[k], count[k], ttl[k], now, outages + 1, restarts)
      /\ Bounded(Limit[k], Window[k], written[k] + 1, count[k], ttl[k], now, outages + 1, restarts)
      /\ Bounded(Limit[k], Window[k], written[k], IF ttl[k] = 1 THEN 0 ELSE count[k],
                 Aged(ttl[k]), now + 1, outages, restarts)
      /\ Bounded(Limit[k], Window[k], written[k], 0, 0, now, outages, restarts + 1)
      /\ written[k] * Window[k] <=
            outages * Window[k] + Limit[k] * (now + (2 + restarts) * Window[k])
  BY <1>1, <1>2, BoundedElsewhere
<1> QED
  BY <1>3, <1>4, <1>5

LEMMA WritesInvStep == TypeOK /\ WritesInv /\ [Next]_vars => WritesInv'
<1> SUFFICES ASSUME TypeOK, WritesInv, [Next]_vars, NEW k \in Keys
             PROVE  Bounded(Limit[k], Window[k], written'[k], count'[k], ttl'[k], now',
                            outages', restarts')
  BY DEF WritesInv
<1> DEFINE Goal == Bounded(Limit[k], Window[k], written'[k], count'[k], ttl'[k], now',
                           outages', restarts')
<1>t. /\ written \in [Keys -> Nat] /\ count \in [Keys -> Nat] /\ ttl \in [Keys -> Nat]
  BY DEF TypeOK
<1>b. Bounded(Limit[k], Window[k], written[k], count[k], ttl[k], now, outages, restarts)
  BY DEF WritesInv
<1>1. ASSUME NEW j \in Keys, Consume(j) PROVE Goal
  <2>1. /\ written' = [written EXCEPT ![j] = @ + 1] /\ ~Over(j)
        /\ count' = [count EXCEPT ![j] = Counted(j)] /\ ttl' = [ttl EXCEPT ![j] = Expiry(j)]
        /\ UNCHANGED <<now, outages, restarts>>
    BY <1>1 DEF Consume, Count, faults
  <2>2. CASE j = k
    <3>1. /\ written'[k] = written[k] + 1 /\ count'[k] = Counted(k) /\ ttl'[k] = Expiry(k)
      BY <1>t, <2>1, <2>2
    <3> QED
      BY <2>1, <2>2, <3>1, KeyBounds
  <2>3. CASE j # k
    BY <1>t, <1>b, <2>1, <2>3
  <2> QED
    BY <2>2, <2>3
<1>2. ASSUME NEW j \in Keys, Refuse(j) PROVE Goal
  <2>1. /\ written' = written
        /\ count' = [count EXCEPT ![j] = Counted(j)] /\ ttl' = [ttl EXCEPT ![j] = Expiry(j)]
        /\ UNCHANGED <<now, outages, restarts>>
    BY <1>2 DEF Refuse, Count, faults
  <2>2. CASE j = k
    <3>1. count'[k] = Counted(k) /\ ttl'[k] = Expiry(k)
      BY <1>t, <2>1, <2>2
    <3> QED
      BY <2>1, <3>1, KeyBounds
  <2>3. CASE j # k
    BY <1>t, <1>b, <2>1, <2>3
  <2> QED
    BY <2>2, <2>3
<1>3. ASSUME NEW j \in Keys, FailOpen(j) PROVE Goal
  <2>1. /\ written' = [written EXCEPT ![j] = @ + 1]
        /\ outages' = outages + 1
        /\ UNCHANGED <<now, restarts>>
    BY <1>3 DEF FailOpen, RedisRaises
  <2>2. CASE Count(j)
    <3>1. count' = [count EXCEPT ![j] = Counted(j)] /\ ttl' = [ttl EXCEPT ![j] = Expiry(j)]
      BY <2>2 DEF Count
    <3>2. CASE j = k
      <4>1. /\ written'[k] = written[k] + 1 /\ count'[k] = Counted(k) /\ ttl'[k] = Expiry(k)
        BY <1>t, <2>1, <3>1, <3>2
      <4> QED
        BY <2>1, <4>1, KeyBounds
    <3>3. CASE j # k
      <4>1. written'[k] = written[k] /\ count'[k] = count[k] /\ ttl'[k] = ttl[k]
        BY <1>t, <2>1, <3>1, <3>3
      <4> QED
        BY <2>1, <4>1, KeyBounds
    <3> QED
      BY <3>2, <3>3
  <2>3. CASE UNCHANGED writeKeys
    <3>1. count'[k] = count[k] /\ ttl'[k] = ttl[k]
      BY <2>3 DEF writeKeys
    <3>2. written'[k] = written[k] + 1 \/ written'[k] = written[k]
      BY <1>t, <2>1
    <3> QED
      BY <2>1, <3>1, <3>2, KeyBounds
  <2> QED
    BY <1>3, <2>2, <2>3 DEF FailOpen
<1>4. ASSUME NEW r \in Readers, DeduplicationRaises(r) PROVE Goal
  <2>1. /\ outages' = outages + 1
        /\ UNCHANGED <<written, count, ttl, now, restarts>>
    BY <1>4 DEF DeduplicationRaises, RedisRaises, writeKeys, writeHistory
  <2> QED
    BY <2>1, KeyBounds
<1>5. ASSUME Tick PROVE Goal
  <2>1. /\ ttl'[k] = Aged(ttl[k]) /\ count'[k] = IF ttl[k] = 1 THEN 0 ELSE count[k]
        /\ now' = now + 1
        /\ UNCHANGED <<written, outages, restarts>>
    BY <1>5 DEF Tick, faults
  <2> QED
    BY <2>1, KeyBounds
<1>6. ASSUME RedisRestart PROVE Goal
  <2>1. /\ ttl'[k] = 0 /\ count'[k] = 0 /\ restarts' = restarts + 1
        /\ UNCHANGED <<written, outages, now>>
    BY <1>6 DEF RedisRestart
  <2> QED
    BY <2>1, KeyBounds
<1>7. ASSUME \/ \E r \in Readers, p \in Posts : Open(r, p)
             \/ \E r \in Readers : Deduplicate(r) \/ CountView(r) \/ CountFails(r) \/ Crash(r)
             \/ \E p \in Posts : DeletePost(p) \/ RestorePost(p)
             \/ UNCHANGED vars
      PROVE  Goal
  <2>1. UNCHANGED <<written, count, ttl, now, outages, restarts>>
    BY <1>7 DEF Open, Deduplicate, CountView, CountFails, DeletePost, RestorePost, Crash, vars,
                writeKeys, writeHistory, faults
  <2> QED
    BY <2>1, <1>b
<1> HIDE DEF Goal
<1>8. Goal
  BY <1>1, <1>2, <1>3, <1>4, <1>5, <1>6, <1>7 DEF Next
<1> QED
  BY <1>8 DEF Goal

(* A key allows max_requests per window, and twice that around the end of one,
   outages and restarts apart (write_ratelimit.py:64-102). *)
THEOREM WritesAlwaysPerWindow == Spec => []WritesPerWindow
<1>1. Init /\ TypeOK => WritesInv
  <2> SUFFICES ASSUME Init, TypeOK, NEW k \in Keys
               PROVE  Bounded(Limit[k], Window[k], written[k], count[k], ttl[k], now, outages, restarts)
    BY DEF WritesInv
  <2>1. written[k] = 0 /\ now = 0 /\ outages = 0 /\ restarts = 0
    BY DEF Init
  <2> QED
    BY <2>1, KeyFacts, BoundedStarts
<1>2. TypeOK /\ WritesInv => WritesPerWindow
  BY KeyBounds DEF WritesPerWindow
<1> QED
  BY <1>1, <1>2, InitTyped, WritesInvStep, CountersTyped, PTL DEF Spec

-----------------------------------------------------------------------------
(* What a Retry-After said and what is left of the window run down together. *)

ToldInv == \A k \in Keys : told[k] = 0 \/ told[k] = ttl[k]

LEMMA ToldInvStep == TypeOK /\ ToldInv /\ [Next]_vars => ToldInv'
<1> SUFFICES ASSUME TypeOK, ToldInv, [Next]_vars, NEW k \in Keys
             PROVE  told'[k] = 0 \/ told'[k] = ttl'[k]
  BY DEF ToldInv
<1>t. /\ told \in [Keys -> Nat] /\ ttl \in [Keys -> Nat]
      /\ (count[k] = 0 <=> ttl[k] = 0)
      /\ (told[k] = 0 \/ told[k] = ttl[k])
  BY DEF TypeOK, ToldInv
<1>c. ASSUME NEW j \in Keys, Count(j) PROVE told[k] = 0 \/ told[k] = ttl'[k]
  <2>1. ttl'[k] = IF k = j THEN Expiry(k) ELSE ttl[k]
    BY <1>c, <1>t DEF Count
  <2>2. told[k] = 0 \/ Expiry(k) = ttl[k]
    BY <1>t DEF Expiry
  <2> QED
    BY <1>t, <2>1, <2>2
<1>1. ASSUME NEW j \in Keys, Consume(j) PROVE told'[k] = 0 \/ told'[k] = ttl'[k]
  BY <1>1, <1>c DEF Consume
<1>2. ASSUME NEW j \in Keys, Refuse(j) PROVE told'[k] = 0 \/ told'[k] = ttl'[k]
  <2>1. Count(j) /\ told' = [told EXCEPT ![j] = IF @ = 0 THEN Expiry(j) ELSE @]
    BY <1>2 DEF Refuse
  <2>2. ttl' = [ttl EXCEPT ![j] = Expiry(j)]
    BY <2>1 DEF Count
  <2>3. CASE j = k /\ told[k] = 0
    <3>1. told'[k] = Expiry(k) /\ ttl'[k] = Expiry(k)
      BY <1>t, <2>1, <2>2, <2>3
    <3> QED
      BY <3>1
  <2>4. CASE ~(j = k /\ told[k] = 0)
    <3>1. told'[k] = told[k]
      BY <1>t, <2>1, <2>4
    <3> QED
      BY <2>1, <3>1, <1>c
  <2> QED
    BY <2>3, <2>4
<1>3. ASSUME NEW j \in Keys, FailOpen(j) PROVE told'[k] = 0 \/ told'[k] = ttl'[k]
  <2>1. told' = told /\ (Count(j) \/ ttl' = ttl)
    BY <1>3 DEF FailOpen, writeKeys
  <2> QED
    BY <1>t, <1>c, <2>1
<1>4. ASSUME Tick PROVE told'[k] = 0 \/ told'[k] = ttl'[k]
  <2>1. told'[k] = Aged(told[k]) /\ ttl'[k] = Aged(ttl[k])
    BY <1>4 DEF Tick
  <2>2. Aged(0) = 0
    BY DEF Aged
  <2> QED
    BY <1>t, <2>1, <2>2
<1>5. ASSUME RedisRestart PROVE told'[k] = 0 \/ told'[k] = ttl'[k]
  BY <1>5 DEF RedisRestart
<1>6. ASSUME \/ \E r \in Readers, p \in Posts : Open(r, p)
             \/ \E r \in Readers :
                   \/ Deduplicate(r) \/ DeduplicationRaises(r)
                   \/ CountView(r) \/ CountFails(r) \/ Crash(r)
             \/ \E p \in Posts : DeletePost(p) \/ RestorePost(p)
             \/ UNCHANGED vars
      PROVE  told'[k] = 0 \/ told'[k] = ttl'[k]
  <2>1. UNCHANGED <<told, ttl>>
    BY <1>6 DEF Open, Deduplicate, DeduplicationRaises, CountView, CountFails, DeletePost,
                RestorePost, Crash, vars, writeKeys, writeHistory
  <2> QED
    BY <1>t, <2>1
<1> QED
  BY <1>1, <1>2, <1>3, <1>4, <1>5, <1>6 DEF Next

(* Refused requests do not push the end of the window away from what a
   Retry-After said (write_ratelimit.py:64-80). *)
THEOREM RetryAfterAlwaysKept == Spec => []RetryAfterIsKept
<1>1. Init => ToldInv
  BY DEF Init, ToldInv
<1>2. TypeOK /\ ToldInv => RetryAfterIsKept
  <2> SUFFICES ASSUME TypeOK, ToldInv, NEW k \in Keys, told[k] > 0 PROVE ttl[k] <= told[k]
    BY DEF RetryAfterIsKept
  <2>1. told[k] \in Nat /\ ttl[k] \in Nat /\ (told[k] = 0 \/ told[k] = ttl[k])
    BY DEF TypeOK, ToldInv
  <2> QED
    BY <2>1
<1> QED
  BY <1>1, <1>2, ToldInvStep, CountersTyped, PTL DEF Spec
=============================================================================
