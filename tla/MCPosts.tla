------------------------------ MODULE MCPosts ------------------------------
(* Small instances of Posts: two bodies with different first images, and one
   more with the first image of the second. *)
EXTENDS Posts, TLC

CONSTANTS c1, c2, c3, i1, i2

TwoBodies == {c1, c2}
TwoImages == c1 :> i1 @@ c2 :> i2
ThreeBodies == {c1, c2, c3}
SharedImage == c1 :> i1 @@ c2 :> i2 @@ c3 :> i1

\* For symmetry: nothing tells one post from another.
Interchangeable == Permutations(PostIds)
=============================================================================
