----------------------------- MODULE Discussion -----------------------------
(* Comments and likes of posts (api/comment.py, service/comment.py, the like
   handlers of api/post.py) while the posts are deleted and restored.

   Comment ids are positions in the table; rows are never removed.  A handler
   finds the post, then the parent, then inserts, then reads the post again:
   other requests run between these steps.                                   *)
EXTENDS Naturals, Sequences

CONSTANTS
    Posts,
    Users,
    Texts,
    Talkers,        \* handlers of comment requests
    Likers,         \* handlers of the like button
    UserOf,         \* whose request a handler serves
    MaxComments,    \* bound on the table
    NoRow, NoPost

NoParent == 0
Handlers == Talkers \cup Likers
Rows == [post : Posts, parent : Nat, author : Users, contents : Texts, deleted : BOOLEAN]

ASSUME DiscussionAssumption ==
    /\ Handlers \subseteq DOMAIN UserOf
    /\ \A h \in Handlers : UserOf[h] \in Users
    /\ Talkers \cap Likers = {}
    /\ MaxComments \in Nat
    /\ NoRow \notin Rows

VARIABLES
    hidden,         \* posts that are soft-deleted
    comments,
    likes,          \* pairs <<user, post>>
    pc,
    target,         \* per handler: the comment it edits or deletes
    copy,           \* per handler: that comment as its session read it
    new,            \* per handler: the row as it is to be
    page,           \* per handler: the post it toggles a like on
    pressed         \* history: the pairs toggled an odd number of times

table == <<hidden, comments, likes>>
session == <<target, copy, new>>
vars == <<table, pc, session, page, pressed>>

Init ==
    /\ hidden = {}
    /\ comments = <<>>
    /\ likes = {}
    /\ pc = [h \in Handlers |-> "idle"]
    /\ target = [h \in Handlers |-> NoParent]
    /\ copy = [h \in Handlers |-> NoRow]
    /\ new = [h \in Handlers |-> NoRow]
    /\ page = [h \in Handlers |-> NoPost]
    /\ pressed = {}

Ids == DOMAIN comments
Goto(h, stage) == pc' = [pc EXCEPT ![h] = stage]

Finish(h) ==
    /\ Goto(h, "idle")
    /\ target' = [target EXCEPT ![h] = NoParent]
    /\ copy' = [copy EXCEPT ![h] = NoRow]
    /\ new' = [new EXCEPT ![h] = NoRow]
    /\ page' = [page EXCEPT ![h] = NoPost]

-----------------------------------------------------------------------------
(* Writing a comment. *)

Comment(h, p, q, t) ==
    [post |-> p, parent |-> q, author |-> UserOf[h], contents |-> t, deleted |-> FALSE]

(* The post is looked up (404 when it is deleted). *)
WriteComment(h) ==
    /\ pc[h] = "idle"
    /\ \E p \in Posts \ hidden, q \in Ids \cup {NoParent}, t \in Texts :
         /\ new' = [new EXCEPT ![h] = Comment(h, p, q, t)]
         /\ Goto(h, IF q = NoParent THEN "saving" ELSE "checking")
    /\ UNCHANGED <<table, target, copy, page, pressed>>

AnyDepth(q, p) == ~comments[q].deleted /\ comments[q].post = p

MayAnswer(q, p) ==
    /\ ~comments[q].deleted
    /\ comments[q].post = p
    /\ comments[q].parent = NoParent

CheckParent(h) ==
    /\ pc[h] = "checking"
    /\ IF MayAnswer(new[h].parent, new[h].post)
       THEN Goto(h, "saving") /\ UNCHANGED <<session, page>>
       ELSE Finish(h)
    /\ UNCHANGED <<table, pressed>>

Save(h) ==
    /\ pc[h] = "saving"
    /\ Len(comments) < MaxComments
    /\ comments' = Append(comments, new[h])
    /\ Goto(h, "rereading")
    /\ UNCHANGED <<hidden, likes, session, page, pressed>>

(* The post is read again and answered with its comments; when it is not found
   any more, building the answer raises and the request ends with 500. *)
Reread(h) ==
    /\ pc[h] = "rereading"
    /\ Finish(h)
    /\ UNCHANGED <<table, pressed>>

-----------------------------------------------------------------------------
(* Editing and deleting one's own comment: read, change the copy, commit the
   columns that changed. *)

ReadOwn(h, c, row) ==
    /\ pc[h] = "idle"
    /\ ~comments[c].deleted
    /\ comments[c].author = UserOf[h]
    /\ target' = [target EXCEPT ![h] = c]
    /\ copy' = [copy EXCEPT ![h] = comments[c]]
    /\ new' = [new EXCEPT ![h] = row]
    /\ Goto(h, "writing")
    /\ UNCHANGED <<table, page, pressed>>

EditComment(h, c) == \E t \in Texts : ReadOwn(h, c, [comments[c] EXCEPT !.contents = t])
DeleteComment(h, c) == ReadOwn(h, c, [comments[c] EXCEPT !.deleted = TRUE])

CopyValue(row, old, changed) == changed
Column(row, old, changed) == IF changed # old THEN changed ELSE row

Written(row, old, changed) ==
    [post |-> row.post, parent |-> row.parent, author |-> row.author,
     contents |-> Column(row.contents, old.contents, changed.contents),
     deleted  |-> Column(row.deleted, old.deleted, changed.deleted)]

Update(h) ==
    LET c == target[h] IN
    /\ pc[h] = "writing"
    /\ comments' = [comments EXCEPT ![c] = Written(comments[c], copy[h], new[h])]
    /\ Finish(h)
    /\ UNCHANGED <<hidden, likes, pressed>>

-----------------------------------------------------------------------------
(* The like button. *)

Toggle(h) ==
    /\ pc[h] = "idle"
    /\ \E p \in Posts \ hidden : page' = [page EXCEPT ![h] = p]
    /\ Goto(h, "looking")
    /\ UNCHANGED <<table, session, pressed>>

SwappedPair(h) == <<page[h], UserOf[h]>>
Pair(h) == <<UserOf[h], page[h]>>

Look(h) ==
    /\ pc[h] = "looking"
    /\ Goto(h, IF Pair(h) \in likes THEN "removing" ELSE "adding")
    /\ UNCHANGED <<table, session, page, pressed>>

Press(h) ==
    pressed' = IF Pair(h) \in pressed THEN pressed \ {Pair(h)} ELSE pressed \cup {Pair(h)}

(* INSERT ... ON CONFLICT DO NOTHING. *)
Add(h) ==
    /\ pc[h] = "adding"
    /\ likes' = likes \cup {Pair(h)}
    /\ Press(h)
    /\ Finish(h)
    /\ UNCHANGED <<hidden, comments>>

RemovedOfPost(h) == {l \in likes : l[2] = page[h]}
Removed(h) == {Pair(h)}

Remove(h) ==
    /\ pc[h] = "removing"
    /\ likes' = likes \ Removed(h)
    /\ Press(h)
    /\ Finish(h)
    /\ UNCHANGED <<hidden, comments>>

(* A commit that raises: rolled back, 500. *)
WriteFails(h) ==
    /\ pc[h] \in {"saving", "writing", "adding", "removing"}
    /\ Finish(h)
    /\ UNCHANGED <<table, pressed>>

-----------------------------------------------------------------------------
(* What Posts' Delete and Restore commit. *)
DeletePost(p) ==
    /\ hidden' = hidden \cup {p}
    /\ UNCHANGED <<comments, likes, pc, session, page, pressed>>
RestorePost(p) ==
    /\ hidden' = hidden \ {p}
    /\ UNCHANGED <<comments, likes, pc, session, page, pressed>>

TalkerStep(h) ==
    \/ WriteComment(h) \/ CheckParent(h) \/ Save(h) \/ Reread(h)
    \/ \E c \in Ids : EditComment(h, c) \/ DeleteComment(h, c)
    \/ Update(h)
LikerStep(h) == Toggle(h) \/ Look(h) \/ Add(h) \/ Remove(h)

Next ==
    \/ \E h \in Talkers : TalkerStep(h)
    \/ \E h \in Likers : LikerStep(h)
    \/ \E h \in Handlers : WriteFails(h)
    \/ \E p \in Posts : DeletePost(p) \/ RestorePost(p)

Spec == Init /\ [][Next]_vars

-----------------------------------------------------------------------------
(* What a page shows (visible_comments). *)
Thread(p) == {c \in Ids : comments[c].post = p}
ParentsInUse(p) == {comments[c].parent : c \in {d \in Thread(p) : ~comments[d].deleted}} \ {NoParent}
Visible(p) ==
    {c \in Thread(p) : \/ ~comments[c].deleted
                       \/ comments[c].parent = NoParent /\ c \in ParentsInUse(p)}

TypeOK ==
    /\ hidden \in SUBSET Posts
    /\ comments \in Seq(Rows)
    /\ likes \in SUBSET (Users \X Posts)
    /\ pc \in [Handlers -> {"idle", "checking", "saving", "rereading", "writing",
                            "looking", "adding", "removing"}]
    /\ target \in [Handlers -> Nat]
    /\ copy \in [Handlers -> Rows \cup {NoRow}]
    /\ new \in [Handlers -> Rows \cup {NoRow}]
    /\ page \in [Handlers -> Posts \cup {NoPost}]
    /\ pressed \in SUBSET (Users \X Posts)

(* Every comment a page shows is shown with the comment it answers, on the same
   page, although the parent may be deleted between the check and the insert
   (comment.py:60-73, service/comment.py:15-31). *)
AnswersShownWithParent ==
    \A p \in Posts : \A c \in Visible(p) :
        comments[c].parent # NoParent => comments[c].parent \in Visible(p)

(* A comment changes only by requests of its author, whatever copy they write:
   it never moves, and once deleted it stays deleted even when an edit that read
   it before commits after (comment.py:93-95, 117-119). *)
Serves(h, c) == pc[h] = "writing" /\ target[h] = c /\ pc'[h] = "idle"
CommentStep ==
    \A c \in Ids :
        /\ comments'[c].post = comments[c].post /\ comments'[c].parent = comments[c].parent
        /\ comments'[c].author = comments[c].author
        /\ comments[c].deleted => comments'[c].deleted
        /\ comments'[c] # comments[c] =>
             \E h \in Talkers : Serves(h, c) /\ UserOf[h] = comments[c].author
DeletedCommentsStay == [][CommentStep]_vars

(* Pressing the button once more takes the like back (post.py:322): when a user
   has one request at a time, a like is there exactly when the user pressed an
   odd number of times, whatever the others press. *)
LikesFollowPresses == likes = pressed

(* The post a comment was written on is there to be read again (comment.py:76-81). *)
RereadFindsPost == \A h \in Talkers : pc[h] = "rereading" => new[h].post \notin hidden
=============================================================================
