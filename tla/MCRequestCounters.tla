------------------------- MODULE MCRequestCounters -------------------------
(* Two small instances of RequestCounters, which share nothing but the clock and
   the faults.  In the scene "views" two clients behind up to two proxies read a
   post; one sends nothing, addresses of others, or junk.  In the scene
   "writes" a user creates posts and comments.                              *)
EXTENDS RequestCounters, TLC

CONSTANTS c1, c2, q1, q2, post, comment,
          ViewsHorizon      \* bound: ticks of the clock in the scene "views"

VARIABLE scene

SomePrefixes == {<<>>, <<c2>>, <<c1, q2>>, <<Junk, c2>>}
UpToTwoProxies == {<<>>, <<q2>>, <<q1, q2>>}

Limits == post :> 2 @@ comment :> 1
Windows == post :> 3 @@ comment :> 2

MCInit ==
    /\ Init
    /\ scene \in {"views", "writes"}
    /\ scene = "views" => \A k \in Keys : count[k] = 0
    /\ \A p \in Posts, a \in Addresses : viewed[p][a] > 0 => scene = "views" /\ a = c1

MCNext ==
    /\ Next
    /\ UNCHANGED scene
    /\ scene = "views" =>
         /\ UNCHANGED <<count, written>>
         /\ now' <= ViewsHorizon /\ outages' + restarts' <= 1
    /\ scene = "writes" => UNCHANGED <<pc, hidden>>

\* Nothing tells one handler from another.
Interchangeable == Permutations(Readers)

MCSpec == MCInit /\ [][MCNext]_<<vars, scene>>
=============================================================================
