------------------------------- MODULE Posts -------------------------------
(* Posts and categories: the rows of both tables under concurrent requests that
   create, edit, delete, restore and move posts (api/post.py) and create and
   delete categories (api/category.py).

   A handler reads a row into its session, changes the copy and commits; the
   UPDATE writes the columns of the copy that changed.  PostgreSQL contributes
   the foreign key on posts.category_id and the row locks of an open
   transaction.  Who may do what is AdminModeration's subject.              *)
EXTENDS Naturals, FiniteSets

CONSTANTS
    PostIds, NoPost,
    CategoryIds, Uncategorized,
    InitialCategories,
    Contents,       \* bodies of posts
    Images, NoImage,
    FirstImage,     \* extract_first_image, as a function on Contents
    Editors,        \* handlers of PATCH /page/{id}
    Writers         \* handlers of the other operations

Handlers == Editors \cup Writers
Rows == [contents : Contents, thumbnail : Images \cup {NoImage},
         deleted : BOOLEAN, category : CategoryIds]

ASSUME PostsAssumption ==
    /\ Uncategorized \in InitialCategories
    /\ InitialCategories \subseteq CategoryIds
    /\ FirstImage \in [Contents -> Images \cup {NoImage}]
    /\ Editors \cap Writers = {}
    /\ NoPost \notin Rows

VARIABLES
    posts,          \* committed row, or NoPost
    status,         \* of a category: "new", "live" or "gone" (ids are not reused)
    pc,
    target,         \* per handler: the post it read
    copy,           \* per handler: that row as its session read it
    new,            \* per handler: that row as the handler changed it
    dropped,        \* per handler: the category it deletes
    locked,         \* per handler: the posts its open transaction reassigned
    late            \* history, per handler: posts that came to the category since

table == <<posts, status>>
session == <<target, copy, new>>
drop == <<dropped, locked, late>>
vars == <<table, pc, session, drop>>

Init ==
    /\ posts = [p \in PostIds |-> NoPost]
    /\ status = [k \in CategoryIds |-> IF k \in InitialCategories THEN "live" ELSE "new"]
    /\ pc = [h \in Handlers |-> "idle"]
    /\ target = [h \in Handlers |-> NoPost]
    /\ copy = [h \in Handlers |-> NoPost]
    /\ new = [h \in Handlers |-> NoPost]
    /\ dropped = [h \in Handlers |-> Uncategorized]
    /\ locked = [h \in Handlers |-> {}]
    /\ late = [h \in Handlers |-> {}]

Exists(p) == posts[p] # NoPost
Live(k) == status[k] = "live"
InCategory(k) == {p \in PostIds : Exists(p) /\ posts[p].category = k}
Goto(h, stage) == pc' = [pc EXCEPT ![h] = stage]

(* The request is answered; its session is closed, its locks are released. *)
Finish(h) ==
    /\ Goto(h, "idle")
    /\ target' = [target EXCEPT ![h] = NoPost]
    /\ copy' = [copy EXCEPT ![h] = NoPost]
    /\ new' = [new EXCEPT ![h] = NoPost]
    /\ dropped' = [dropped EXCEPT ![h] = Uncategorized]
    /\ locked' = [locked EXCEPT ![h] = {}]

-----------------------------------------------------------------------------
(* Editing, deleting, restoring and moving: read, change the copy, commit.   *)

ReadPost(h, p, row, stage) ==
    /\ pc[h] = "idle"
    /\ Exists(p)
    /\ target' = [target EXCEPT ![h] = p]
    /\ copy' = [copy EXCEPT ![h] = posts[p]]
    /\ new' = [new EXCEPT ![h] = row]
    /\ Goto(h, stage)
    /\ UNCHANGED <<table, drop>>

ContentsAsThumbnail(c) == c
Thumbnail(c) == FirstImage[c]

EditKeepingThumbnail(h, p) ==
    /\ Exists(p) /\ ~posts[p].deleted
    /\ \E c \in Contents : ReadPost(h, p, [posts[p] EXCEPT !.contents = c], "writing")

Edit(h, p) ==
    /\ Exists(p) /\ ~posts[p].deleted
    /\ \E c \in Contents :
         ReadPost(h, p, [posts[p] EXCEPT !.contents = c, !.thumbnail = Thumbnail(c)], "writing")

Delete(h, p) ==
    /\ Exists(p) /\ ~posts[p].deleted
    /\ ReadPost(h, p, [posts[p] EXCEPT !.deleted = TRUE], "writing")

Restore(h, p) ==
    /\ Exists(p)
    /\ ReadPost(h, p, [posts[p] EXCEPT !.deleted = FALSE], "writing")

Move(h, p) ==
    /\ Exists(p)
    /\ \E k \in CategoryIds : ReadPost(h, p, [posts[p] EXCEPT !.category = k], "moving")

(* The category it moves to is looked up: on, or 400. *)
CheckCategory(h) ==
    /\ pc[h] = "moving"
    /\ IF Live(new[h].category)
       THEN Goto(h, "writing") /\ UNCHANGED <<session, dropped, locked>>
       ELSE Finish(h)
    /\ UNCHANGED <<table, late>>

CopyValue(row, old, changed) == changed

(* What an UPDATE leaves in a column: the changed value, or the row's own when
   the handler did not change its copy. *)
Column(row, old, changed) == IF changed # old THEN changed ELSE row

Written(row, old, changed) ==
    [contents  |-> Column(row.contents, old.contents, changed.contents),
     thumbnail |-> Column(row.thumbnail, old.thumbnail, changed.thumbnail),
     deleted   |-> Column(row.deleted, old.deleted, changed.deleted),
     category  |-> Column(row.category, old.category, changed.category)]

(* p is put into category k under the eyes of deletions of k in progress. *)
Arrives(p, k) ==
    late' = [g \in Handlers |-> IF pc[g] = "reassigned" /\ dropped[g] = k
                                THEN late[g] \cup {p} ELSE late[g]]

Update(h) ==
    LET p == target[h] IN
    /\ pc[h] = "writing"
    /\ \A g \in Handlers : p \notin locked[g]
    /\ new[h].category # copy[h].category => Live(new[h].category)
    /\ posts' = [posts EXCEPT ![p] = Written(posts[p], copy[h], new[h])]
    /\ Arrives(p, posts'[p].category)
    /\ Finish(h)
    /\ UNCHANGED status

(* The commit raises, on the foreign key or otherwise: rolled back, 500. *)
WriteFails(h) ==
    /\ pc[h] \in {"writing", "inserting"}
    /\ Finish(h)
    /\ UNCHANGED <<table, late>>

-----------------------------------------------------------------------------
(* Creating a post. *)

NewPost(c, k) ==
    [contents |-> c, thumbnail |-> Thumbnail(c), deleted |-> FALSE, category |-> k]

(* The category is looked up (400 when there is none). *)
Create(h) ==
    /\ pc[h] = "idle"
    /\ \E c \in Contents, k \in CategoryIds :
         Live(k) /\ new' = [new EXCEPT ![h] = NewPost(c, k)]
    /\ Goto(h, "inserting")
    /\ UNCHANGED <<table, target, copy, drop>>

Insert(h, p) ==
    /\ pc[h] = "inserting"
    /\ ~Exists(p)
    /\ Live(new[h].category)
    /\ posts' = [posts EXCEPT ![p] = new[h]]
    /\ Arrives(p, new[h].category)
    /\ Finish(h)
    /\ UNCHANGED status

-----------------------------------------------------------------------------
(* Categories. *)

CreateCategory(k) ==
    /\ status[k] = "new"
    /\ status' = [status EXCEPT ![k] = "live"]
    /\ UNCHANGED <<posts, pc, session, drop>>

DropCategory(h, k) ==
    /\ pc[h] = "idle"
    /\ Live(k) /\ k # Uncategorized
    /\ dropped' = [dropped EXCEPT ![h] = k]
    /\ Goto(h, "dropping")
    /\ UNCHANGED <<table, session, locked, late>>

VisiblePosts(k) == {p \in InCategory(k) : ~posts[p].deleted}

(* The posts the bulk UPDATE of reassign_and_delete takes along. *)
Reassigned(k) == InCategory(k)

(* The UPDATE, waiting for rows another transaction holds. *)
Reassign(h) ==
    /\ pc[h] = "dropping"
    /\ \A g \in Handlers : Reassigned(dropped[h]) \cap locked[g] = {}
    /\ locked' = [locked EXCEPT ![h] = Reassigned(dropped[h])]
    /\ Goto(h, "reassigned")
    /\ UNCHANGED <<table, session, dropped, late>>

Stragglers(h) == InCategory(dropped[h]) \ locked[h]

(* The DELETE and the commit: posts land in Uncategorized, the category is gone
   (if another request deleted it, that changes nothing). *)
Drop(h) ==
    /\ pc[h] = "reassigned"
    /\ Stragglers(h) = {}
    /\ posts' = [p \in PostIds |-> IF p \in locked[h]
                                   THEN [posts[p] EXCEPT !.category = Uncategorized]
                                   ELSE posts[p]]
    /\ status' = [status EXCEPT ![dropped[h]] = "gone"]
    /\ late' = [late EXCEPT ![h] = {}]
    /\ Finish(h)

(* A post still refers to it, or a statement or the commit raises otherwise:
   rolled back, 500. *)
DropFails(h) ==
    /\ pc[h] \in {"dropping", "reassigned"}
    /\ late' = [late EXCEPT ![h] = {}]
    /\ Finish(h)
    /\ UNCHANGED table

Next ==
    \/ \E h \in Editors, p \in PostIds : Edit(h, p)
    \/ \E h \in Writers, p \in PostIds :
          Delete(h, p) \/ Restore(h, p) \/ Move(h, p) \/ Insert(h, p)
    \/ \E h \in Writers : Create(h) \/ CheckCategory(h)
    \/ \E h \in Handlers : Update(h) \/ WriteFails(h)
    \/ \E k \in CategoryIds : CreateCategory(k)
    \/ \E h \in Writers, k \in CategoryIds : DropCategory(h, k)
    \/ \E h \in Writers : Reassign(h) \/ Drop(h) \/ DropFails(h)

Spec == Init /\ [][Next]_vars

-----------------------------------------------------------------------------
TypeOK ==
    /\ posts \in [PostIds -> Rows \cup {NoPost}]
    /\ status \in [CategoryIds -> {"new", "live", "gone"}]
    /\ pc \in [Handlers -> {"idle", "moving", "writing", "inserting", "dropping", "reassigned"}]
    /\ target \in [Handlers -> PostIds \cup {NoPost}]
    /\ copy \in [Handlers -> Rows \cup {NoPost}]
    /\ new \in [Handlers -> Rows \cup {NoPost}]
    /\ dropped \in [Handlers -> CategoryIds]
    /\ locked \in [Handlers -> SUBSET PostIds]
    /\ late \in [Handlers -> SUBSET PostIds]

(* The preview of the post list is the first image of the body (post.py:202-203,
   228-229). *)
ThumbnailIsFirstImage ==
    \A p \in PostIds : Exists(p) => posts[p].thumbnail = FirstImage[posts[p].contents]

(* A category's deletion is refused only because posts came to it after its
   posts were reassigned, deleted ones included (repository.py:310-313): left
   alone, it always succeeds. *)
OnlyLateArrivalsStay ==
    \A h \in Writers : pc[h] = "reassigned" => Stragglers(h) \subseteq late[h]

(* No request undoes another's: whatever copy it works on, a body changes only
   by an edit, a deleted post comes back only by a restore of a handler that saw
   it deleted, a category changes only by a move or a category's deletion. *)
Writes(h, p) == pc[h] = "writing" /\ target[h] = p /\ pc'[h] = "idle"
OwnColumnsStep ==
    \A p \in PostIds : Exists(p) =>
        /\ posts'[p].contents # posts[p].contents => \E h \in Editors : Writes(h, p)
        /\ posts[p].deleted /\ ~posts'[p].deleted
             => \E h \in Writers : Writes(h, p) /\ copy[h].deleted /\ ~new[h].deleted
        /\ posts'[p].category # posts[p].category
             => \/ \E h \in Writers : Writes(h, p) /\ new[h].category # copy[h].category
                \/ \E h \in Writers : p \in locked[h] /\ status'[dropped[h]] = "gone"
NothingUndone == [][OwnColumnsStep]_vars
=============================================================================
