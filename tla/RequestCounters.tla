--------------------------- MODULE RequestCounters ---------------------------
(* What requests are counted for in Redis apart from logins: views of a post,
   once per address and six hours (GET /page/{id}, api/post.py), and the posts
   and comments a user creates (service/write_ratelimit.py).  Both keep a key
   that expires; Redis may raise, with or without having done its work, and
   holds nothing on disk.

   The clock starts at any moment of the service: keys of earlier requests may
   be there.                                                                 *)
EXTENDS ClientAddress, FiniteSets

CONSTANTS
    Posts,
    Readers,        \* handlers of GET /page/{id}
    Clients,        \* addresses of clients
    Prefixes,       \* what a client may send as X-Forwarded-For
    Routes,         \* the proxies between a client and the application
    ViewTtl,        \* VIEW_DEDUP_TTL_SECONDS
    Keys,           \* write-rate keys: an action of a user
    Limit, Window,  \* per key: max_requests, window_seconds
    Horizon,        \* bound: ticks of the clock
    MaxOutages,     \* bound: calls on which Redis raises
    MaxRestarts,    \* bound: restarts of Redis
    NoPost, NoAddress

Addresses == Clients \cup Trusted

ASSUME CountersAssumption ==
    /\ Clients \cap Trusted = {} /\ Junk \notin Addresses
    /\ Prefixes \subseteq Seq(Addresses \cup {Junk})
    /\ Routes \subseteq Seq(Trusted)
    /\ IsFiniteSet(Readers)
    /\ ViewTtl \in Nat \ {0}
    /\ Limit \in [Keys -> Nat] /\ Window \in [Keys -> Nat \ {0}]
    /\ Horizon \in Nat /\ MaxOutages \in Nat /\ MaxRestarts \in Nat

VARIABLES
    viewed,         \* per post and address: TTL of the key viewed, 0 without it
    views,          \* posts.view_count, less what it was when the clock started
    hidden,         \* posts that are soft-deleted
    count, ttl,     \* per write-rate key, both 0 without it
    pc,
    page, addr,     \* per reader: the post it opens, for whom
    seen,           \* per reader: post.view_count of its session's copy
    now, outages, restarts,
    owner,          \* history, per reader: whom its request comes from
    firsts,         \* history, per post and address: views that were first
    granted,        \* history, per post: views that were first
    lost,           \* history, per post: those a failure kept out of view_count
    written,        \* history, per key: requests allowed
    told            \* history, per key: what is left of a Retry-After

writeKeys == <<count, ttl>>
session == <<page, addr, seen, owner>>
faults == <<outages, restarts>>
viewHistory == <<firsts, granted, lost>>
writeHistory == <<written, told>>
vars == <<viewed, views, hidden, writeKeys, pc, session, now, faults,
          viewHistory, writeHistory>>

Init ==
    /\ viewed \in [Posts -> [Addresses -> 0..ViewTtl]]
    /\ views = [p \in Posts |-> 0]
    /\ hidden = {}
    /\ count \in [Keys -> UNION {0..(Limit[k] + 1) : k \in Keys}]
    /\ ttl \in [Keys -> UNION {0..Window[k] : k \in Keys}]
    /\ \A k \in Keys :
         count[k] <= Limit[k] + 1 /\ ttl[k] <= Window[k] /\ (count[k] = 0 <=> ttl[k] = 0)
    /\ pc = [r \in Readers |-> "idle"]
    /\ page = [r \in Readers |-> NoPost]
    /\ addr = [r \in Readers |-> NoAddress]
    /\ seen = [r \in Readers |-> 0]
    /\ now = 0 /\ outages = 0 /\ restarts = 0
    /\ owner = [r \in Readers |-> NoAddress]
    /\ firsts = [p \in Posts |-> [a \in Addresses |-> 0]]
    /\ granted = [p \in Posts |-> 0]
    /\ lost = [p \in Posts |-> 0]
    /\ written = [k \in Keys |-> 0]
    /\ told = [k \in Keys |-> 0]

RedisRaises == outages < MaxOutages /\ outages' = outages + 1
Goto(r, stage) == pc' = [pc EXCEPT ![r] = stage]

Finish(r) ==
    /\ Goto(r, "idle")
    /\ page' = [page EXCEPT ![r] = NoPost]
    /\ addr' = [addr EXCEPT ![r] = NoAddress]
    /\ seen' = [seen EXCEPT ![r] = 0]
    /\ owner' = [owner EXCEPT ![r] = NoAddress]

-----------------------------------------------------------------------------
(* Reading a post. *)

(* The hops of a request of c: what c sent, c itself, the proxies it passed. *)
Trail(prefix, c, route) == prefix \o <<c>> \o route

(* A request is its client's; one whose header is garbled is its last proxy's. *)
Owner(prefix, c, route) ==
    IF route # <<>> /\ Malformed(prefix) THEN route[Len(route)] ELSE c

(* The post is looked up (404 when it is deleted; an admin who sees it all the
   same is not counted). *)
Open(r, p) ==
    /\ pc[r] = "idle"
    /\ p \notin hidden
    /\ \E c \in Clients, prefix \in Prefixes, route \in Routes :
         LET hops == Trail(prefix, c, route)
             header == SubSeq(hops, 1, Len(hops) - 1) IN
         /\ addr' = [addr EXCEPT ![r] = GetClientIp(header, hops[Len(hops)])]
         /\ owner' = [owner EXCEPT ![r] = Owner(prefix, c, route)]
    /\ page' = [page EXCEPT ![r] = p]
    /\ seen' = [seen EXCEPT ![r] = views[p]]
    /\ Goto(r, "deduplicating")
    /\ UNCHANGED <<viewed, views, hidden, writeKeys, now, faults, viewHistory, writeHistory>>

AlwaysFirst(p, a) == TRUE
FirstView(p, a) == viewed[p][a] = 0

(* SET NX EX sets the key. *)
Mark(p, a) ==
    /\ FirstView(p, a)
    /\ viewed' = [viewed EXCEPT ![p][a] = ViewTtl]
    /\ firsts' = [firsts EXCEPT ![p][a] = @ + 1]
    /\ granted' = [granted EXCEPT ![p] = @ + 1]

Deduplicate(r) ==
    /\ pc[r] = "deduplicating"
    /\ \/ /\ Mark(page[r], addr[r])
          /\ Goto(r, "counting")
          /\ UNCHANGED session
       \/ /\ ~FirstView(page[r], addr[r])
          /\ Finish(r)
          /\ UNCHANGED <<viewed, firsts, granted>>
    /\ UNCHANGED <<views, hidden, writeKeys, now, faults, lost, writeHistory>>

(* Redis raises, the key may be set all the same: the post is served. *)
DeduplicationRaises(r) ==
    /\ pc[r] = "deduplicating"
    /\ RedisRaises
    /\ \/ UNCHANGED <<viewed, viewHistory>>
       \/ Mark(page[r], addr[r]) /\ lost' = [lost EXCEPT ![page[r]] = @ + 1]
    /\ Finish(r)
    /\ UNCHANGED <<views, hidden, writeKeys, now, restarts, writeHistory>>

OneMoreThanSeen(r) == seen[r] + 1

(* SET view_count = view_count + 1, in the database. *)
Incremented(r) == views[page[r]] + 1

CountView(r) ==
    /\ pc[r] = "counting"
    /\ views' = [views EXCEPT ![page[r]] = Incremented(r)]
    /\ Finish(r)
    /\ UNCHANGED <<viewed, hidden, writeKeys, now, faults, viewHistory, writeHistory>>

(* The commit raises: rolled back, 500. *)
CountFails(r) ==
    /\ pc[r] = "counting"
    /\ lost' = [lost EXCEPT ![page[r]] = @ + 1]
    /\ Finish(r)
    /\ UNCHANGED <<viewed, views, hidden, writeKeys, now, faults, firsts, granted, writeHistory>>

(* The process or the task that serves the request ends; with a process, its
   other requests end one after the other. *)
Crash(r) ==
    /\ pc[r] # "idle"
    /\ lost' = IF pc[r] = "counting" THEN [lost EXCEPT ![page[r]] = @ + 1] ELSE lost
    /\ Finish(r)
    /\ UNCHANGED <<viewed, views, hidden, writeKeys, now, faults, firsts, granted, writeHistory>>

-----------------------------------------------------------------------------
(* Creating a post or a comment: the limit is asked before anything else. *)

(* INCR; one more than Limit + 1 makes no difference. *)
Counted(k) == IF count[k] > Limit[k] THEN count[k] ELSE count[k] + 1

NoExpiry(k) == ttl[k]
ExpireEachTime(k) == Window[k]

(* EXPIRE of a counter that starts. *)
Expiry(k) == IF count[k] = 0 THEN Window[k] ELSE ttl[k]

OverBefore(k) == count[k] > Limit[k]
Over(k) == Counted(k) > Limit[k]

Count(k) ==
    /\ count' = [count EXCEPT ![k] = Counted(k)]
    /\ ttl' = [ttl EXCEPT ![k] = Expiry(k)]

Consume(k) ==
    /\ Count(k)
    /\ ~Over(k)
    /\ written' = [written EXCEPT ![k] = @ + 1]
    /\ UNCHANGED <<viewed, views, hidden, pc, session, now, faults, viewHistory, told>>

(* 429 with Retry-After; the oldest answer that still runs is remembered. *)
Refuse(k) ==
    /\ Count(k)
    /\ Over(k)
    /\ told' = [told EXCEPT ![k] = IF @ = 0 THEN Expiry(k) ELSE @]
    /\ UNCHANGED <<viewed, views, hidden, pc, session, now, faults, viewHistory, written>>

(* Redis raises, the script may have run: the request is allowed. *)
FailOpen(k) ==
    /\ RedisRaises
    /\ Count(k) \/ UNCHANGED writeKeys
    /\ written' = [written EXCEPT ![k] = @ + 1]
    /\ UNCHANGED <<viewed, views, hidden, pc, session, now, restarts, viewHistory, told>>

-----------------------------------------------------------------------------
(* A key loses one tick of its TTL and is gone at 0. *)
Aged(t) == IF t = 0 THEN 0 ELSE t - 1

Tick ==
    /\ now < Horizon
    /\ now' = now + 1
    /\ viewed' = [p \in Posts |-> [a \in Addresses |-> Aged(viewed[p][a])]]
    /\ ttl' = [k \in Keys |-> Aged(ttl[k])]
    /\ count' = [k \in Keys |-> IF ttl[k] = 1 THEN 0 ELSE count[k]]
    /\ told' = [k \in Keys |-> Aged(told[k])]
    /\ UNCHANGED <<views, hidden, pc, session, faults, viewHistory, written>>

(* Redis is started again, empty; what it answered before is void. *)
RedisRestart ==
    /\ restarts < MaxRestarts
    /\ restarts' = restarts + 1
    /\ viewed' = [p \in Posts |-> [a \in Addresses |-> 0]]
    /\ ttl' = [k \in Keys |-> 0]
    /\ count' = [k \in Keys |-> 0]
    /\ told' = [k \in Keys |-> 0]
    /\ UNCHANGED <<views, hidden, pc, session, now, outages, viewHistory, written>>

(* What Posts' Delete and Restore commit. *)
DeletePost(p) ==
    /\ p \notin hidden
    /\ hidden' = hidden \cup {p}
    /\ UNCHANGED <<viewed, views, writeKeys, pc, session, now, faults, viewHistory, writeHistory>>
RestorePost(p) ==
    /\ p \in hidden
    /\ hidden' = hidden \ {p}
    /\ UNCHANGED <<viewed, views, writeKeys, pc, session, now, faults, viewHistory, writeHistory>>

Next ==
    \/ \E r \in Readers, p \in Posts : Open(r, p)
    \/ \E r \in Readers :
          \/ Deduplicate(r) \/ DeduplicationRaises(r)
          \/ CountView(r) \/ CountFails(r) \/ Crash(r)
    \/ \E k \in Keys : Consume(k) \/ Refuse(k) \/ FailOpen(k)
    \/ \E p \in Posts : DeletePost(p) \/ RestorePost(p)
    \/ Tick \/ RedisRestart

Spec == Init /\ [][Next]_vars

-----------------------------------------------------------------------------
TypeOK ==
    /\ viewed \in [Posts -> [Addresses -> 0..ViewTtl]]
    /\ views \in [Posts -> Nat]
    /\ hidden \in SUBSET Posts
    /\ count \in [Keys -> Nat] /\ ttl \in [Keys -> Nat]
    /\ \A k \in Keys :
         count[k] <= Limit[k] + 1 /\ ttl[k] <= Window[k] /\ (count[k] = 0 <=> ttl[k] = 0)
    /\ pc \in [Readers -> {"idle", "deduplicating", "counting"}]
    /\ page \in [Readers -> Posts \cup {NoPost}]
    /\ addr \in [Readers -> Addresses \cup {NoAddress}]
    /\ \A r \in Readers : pc[r] # "idle" => page[r] \in Posts /\ addr[r] \in Addresses
    /\ seen \in [Readers -> Nat]
    /\ owner \in [Readers -> Addresses \cup {NoAddress}]
    /\ now \in 0..Horizon /\ outages \in 0..MaxOutages /\ restarts \in 0..MaxRestarts
    /\ firsts \in [Posts -> [Addresses -> Nat]]
    /\ granted \in [Posts -> Nat] /\ lost \in [Posts -> Nat]
    /\ written \in [Keys -> Nat] /\ told \in [Keys -> Nat]

(* Whatever a client puts in X-Forwarded-For, its request is accounted to
   itself, however many trusted proxies it passes; with a garbled header to the
   proxy that delivered it, never to another client (client_ip.py:51-54). *)
AccountedToItself == \A r \in Readers : addr[r] = owner[r]

(* An address raises a post's count once when the clock starts and once per
   ViewTtl that has passed since, however many of its requests run at once; a
   restart of Redis makes it once more (post.py:160-173). *)
ViewsPerWindow ==
    \A p \in Posts, a \in Addresses :
        firsts[p][a] * ViewTtl <= now + (1 + restarts) * ViewTtl

Pending(p) == Cardinality({r \in Readers : pc[r] = "counting" /\ page[r] = p})

(* A first view is in view_count, about to be, or was lost to a failure: readers
   of one post at the same time do not overwrite each other's increment
   (repository.py:200-209). *)
ViewsNotLost == \A p \in Posts : views[p] + Pending(p) + lost[p] = granted[p]

(* The fixed window: in any stretch of time a user creates max_requests per
   window of its length, and twice that around the end of a window; outages and
   restarts apart, for which each call and each restart may add its share. *)
WritesPerWindow ==
    \A k \in Keys :
        written[k] * Window[k] <=
            outages * Window[k] + Limit[k] * (now + (2 + restarts) * Window[k])

(* Who waits as long as Retry-After said finds the window over, although every
   refused request in between was counted too (write_ratelimit.py:64-80). *)
RetryAfterIsKept == \A k \in Keys : told[k] > 0 => ttl[k] <= told[k]
=============================================================================
