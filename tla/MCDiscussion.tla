---------------------------- MODULE MCDiscussion ----------------------------
(* Small instances of Discussion: the requests of two users, in three scenes whose
   product would be too large.  In "threads" two handlers write, answer, edit and
   delete up to three comments on two posts; in "edits" three handlers, two of
   them of one user, change one comment; in "likes" both users press the like
   buttons of two posts.                                                     *)
EXTENDS Discussion, TLC

CONSTANTS h1, h2, h3, l1, l2, u1, u2, p1, t1

VARIABLE scene

TwoUsers == h1 :> u1 @@ h2 :> u2 @@ h3 :> u1 @@ l1 :> u1 @@ l2 :> u2

MCInit == Init /\ scene \in {"threads", "edits", "likes"}

Active == CASE scene = "threads" -> {h1, h2}
            [] scene = "edits" -> Talkers
            [] scene = "likes" -> Likers

MCNext ==
    /\ \/ \E h \in Active \cap Talkers : TalkerStep(h)
       \/ \E h \in Active \cap Likers : LikerStep(h)
       \/ \E h \in Active : WriteFails(h)
       \/ \E p \in Posts : DeletePost(p) \/ RestorePost(p)
    /\ UNCHANGED scene
    /\ scene = "threads" => \A h \in Active : new'[h] # NoRow => new'[h].contents = t1
    /\ scene = "edits" =>
         /\ Len(comments') <= 1
         /\ hidden' \subseteq {p1}
         /\ \A h \in Active : new'[h] # NoRow => new'[h].post = p1

MCSpec == MCInit /\ [][MCNext]_<<vars, scene>>
=============================================================================
