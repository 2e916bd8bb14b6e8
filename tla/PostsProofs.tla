---------------------------- MODULE PostsProofs ----------------------------
(* For every number of posts, categories and handlers: no request undoes
   another's, and no post is left in a category that is gone.  With one editor
   at a time: a post's thumbnail is the first image of its body.  With two
   editors it need not be (run posts_thumbnail).

   The first and the last rest on what a handler's pending row may differ in from the copy it
   read: an editor's only in body and thumbnail, another's only in the deleted
   flag or the category.                                                    *)
EXTENDS Posts, TLAPS

(* The pending row of an editor, of another handler, and of a new post. *)
EditorRow(h) ==
    /\ new[h].deleted = copy[h].deleted
    /\ new[h].category = copy[h].category
    /\ new[h].thumbnail = FirstImage[new[h].contents]
WriterRow(h) ==
    /\ new[h].contents = copy[h].contents
    /\ new[h].thumbnail = copy[h].thumbnail
PendingRow(h) ==
    /\ target[h] \in PostIds /\ posts[target[h]] \in Rows
    /\ copy[h] \in Rows /\ new[h] \in Rows
    /\ h \in Editors => EditorRow(h)
    /\ h \in Writers => WriterRow(h)
InsertRow(h) ==
    /\ h \in Writers
    /\ new[h] \in Rows
    /\ new[h].thumbnail = FirstImage[new[h].contents]

LockedExist ==
    \A h \in Handlers : \A p \in locked[h] : posts[p] \in Rows

PostsInv ==
    /\ TypeOK
    /\ LockedExist
    /\ \A h \in Handlers :
         /\ pc[h] \in {"moving", "writing"} => PendingRow(h)
         /\ pc[h] = "inserting" => InsertRow(h)

LEMMA ThumbnailType == \A c \in Contents : Thumbnail(c) \in Images \cup {NoImage}
BY PostsAssumption DEF Thumbnail

LEMMA ColumnsRow ==
    ASSUME NEW row \in Rows, NEW old \in Rows, NEW changed \in Rows
    PROVE  /\ Written(row, old, changed) \in Rows
           /\ Written(row, old, changed).contents = Column(row.contents, old.contents, changed.contents)
           /\ Written(row, old, changed).thumbnail = Column(row.thumbnail, old.thumbnail, changed.thumbnail)
           /\ Written(row, old, changed).deleted = Column(row.deleted, old.deleted, changed.deleted)
           /\ Written(row, old, changed).category = Column(row.category, old.category, changed.category)
BY DEF Written, Column, Rows

(* A row once there stays a row. *)
LEMMA RowsStay ==
    ASSUME PostsInv, [Next]_vars, NEW p \in PostIds, posts[p] \in Rows
    PROVE  posts'[p] \in Rows
<1> USE DEF PostsInv, TypeOK, Handlers
<1>1. ASSUME NEW h \in Handlers, Update(h) PROVE posts'[p] \in Rows
  <2>1. PendingRow(h) /\ posts' = [posts EXCEPT ![target[h]] = Written(posts[target[h]], copy[h], new[h])]
    BY <1>1 DEF Update
  <2>2. Written(posts[target[h]], copy[h], new[h]) \in Rows
    BY <2>1, ColumnsRow DEF PendingRow
  <2> QED
    BY <2>1, <2>2
<1>2. ASSUME NEW h \in Writers, NEW q \in PostIds, Insert(h, q) PROVE posts'[p] \in Rows
  BY <1>2 DEF Insert, InsertRow
<1>3. ASSUME NEW h \in Writers, Drop(h) PROVE posts'[p] \in Rows
  <2>1. posts'[p] = IF p \in locked[h] THEN [posts[p] EXCEPT !.category = Uncategorized] ELSE posts[p]
    BY <1>3 DEF Drop
  <2> QED
    BY <2>1, PostsAssumption DEF Rows
<1>4. ASSUME UNCHANGED posts PROVE posts'[p] \in Rows
  BY <1>4
<1> QED
  BY <1>1, <1>2, <1>3, <1>4
     DEF Next, Edit, Delete, Restore, Move, ReadPost, Create, CheckCategory, WriteFails,
         CreateCategory, DropCategory, Reassign, DropFails, vars, table

-----------------------------------------------------------------------------
(* A handler that read p and changed its copy to row. *)
LEMMA ReadKeeps ==
    ASSUME PostsInv, NEW h \in Handlers, NEW p \in PostIds, NEW row \in Rows,
           NEW stage \in {"moving", "writing"}, ReadPost(h, p, row, stage),
           h \in Editors =>
             /\ row.deleted = posts[p].deleted /\ row.category = posts[p].category
             /\ row.thumbnail = FirstImage[row.contents],
           h \in Writers =>
             row.contents = posts[p].contents /\ row.thumbnail = posts[p].thumbnail
    PROVE  PostsInv'
<1> USE DEF PostsInv, TypeOK, LockedExist, ReadPost, Goto, table, drop, Exists
<1>1. posts[p] \in Rows
  OBVIOUS
<1>2. TypeOK' /\ LockedExist'
  BY <1>1
<1>3. ASSUME NEW g \in Handlers, pc'[g] \in {"moving", "writing"} PROVE PendingRow(g)'
  <2>1. CASE g = h
    BY <1>1, <2>1 DEF PendingRow, EditorRow, WriterRow
  <2>2. CASE g # h
    BY <1>3, <2>2 DEF PendingRow, EditorRow, WriterRow
  <2> QED
    BY <2>1, <2>2
<1>4. ASSUME NEW g \in Handlers, pc'[g] = "inserting" PROVE InsertRow(g)'
  BY <1>4 DEF InsertRow
<1> QED
  BY <1>2, <1>3, <1>4

(* A handler that is done: the others keep their rows. *)
LEMMA FinishKeeps ==
    ASSUME PostsInv, NEW h \in Handlers, Finish(h),
           posts' \in [PostIds -> Rows \cup {NoPost}],
           status' \in [CategoryIds -> {"new", "live", "gone"}],
           late' \in [Handlers -> SUBSET PostIds],
           \A p \in PostIds : posts[p] \in Rows => posts'[p] \in Rows
    PROVE  PostsInv'
<1> USE DEF PostsInv, TypeOK, LockedExist, Finish, Goto
<1>1. TypeOK' /\ LockedExist'
  BY PostsAssumption
<1>2. ASSUME NEW g \in Handlers, pc'[g] # "idle"
      PROVE  /\ pc'[g] = pc[g] /\ target'[g] = target[g] /\ copy'[g] = copy[g]
             /\ new'[g] = new[g]
  BY <1>2
<1>3. ASSUME NEW g \in Handlers, pc'[g] \in {"moving", "writing"} PROVE PendingRow(g)'
  BY <1>2, <1>3 DEF PendingRow, EditorRow, WriterRow
<1>4. ASSUME NEW g \in Handlers, pc'[g] = "inserting" PROVE InsertRow(g)'
  BY <1>2, <1>4 DEF InsertRow
<1> QED
  BY <1>1, <1>3, <1>4

LEMMA PostsStep == PostsInv /\ [Next]_vars => PostsInv'
<1> SUFFICES ASSUME PostsInv, [Next]_vars PROVE PostsInv'
  OBVIOUS
<1>h. Editors \subseteq Handlers /\ Writers \subseteq Handlers /\ Editors \cap Writers = {}
  BY PostsAssumption DEF Handlers
<1>r. \A p \in PostIds : posts[p] \in Rows => posts'[p] \in Rows
  BY RowsStay
<1>t. TypeOK
  BY DEF PostsInv
<1>e. \A p \in PostIds : Exists(p) => posts[p] \in Rows
  BY <1>t DEF TypeOK, Exists
<1>l. \A p \in PostIds, k \in CategoryIds :
        Arrives(p, k) => late' \in [Handlers -> SUBSET PostIds]
  BY <1>t DEF Arrives, TypeOK
<1>1. ASSUME NEW h \in Editors, NEW p \in PostIds, Edit(h, p) PROVE PostsInv'
  <2>1. PICK c \in Contents :
          ReadPost(h, p, [posts[p] EXCEPT !.contents = c, !.thumbnail = Thumbnail(c)], "writing")
    BY <1>1 DEF Edit
  <2> DEFINE row == [posts[p] EXCEPT !.contents = c, !.thumbnail = Thumbnail(c)]
  <2>2. posts[p] \in Rows
    BY <1>1, <1>e DEF Edit
  <2>3. /\ row \in Rows /\ row.deleted = posts[p].deleted
        /\ row.category = posts[p].category /\ row.thumbnail = FirstImage[row.contents]
    BY <2>2, ThumbnailType DEF Rows, Thumbnail
  <2> HIDE DEF row
  <2>4. ReadPost(h, p, row, "writing")
    BY <2>1 DEF row
  <2> QED
    BY <2>3, <2>4, <1>h, ReadKeeps
<1>2. ASSUME NEW h \in Writers, NEW p \in PostIds, Delete(h, p) \/ Restore(h, p) PROVE PostsInv'
  <2>1. PICK d \in BOOLEAN : ReadPost(h, p, [posts[p] EXCEPT !.deleted = d], "writing")
    BY <1>2 DEF Delete, Restore
  <2> DEFINE row == [posts[p] EXCEPT !.deleted = d]
  <2>2. posts[p] \in Rows
    BY <1>2, <1>e DEF Delete, Restore
  <2>3. row \in Rows /\ row.contents = posts[p].contents /\ row.thumbnail = posts[p].thumbnail
    BY <2>2 DEF Rows
  <2> HIDE DEF row
  <2>4. ReadPost(h, p, row, "writing")
    BY <2>1 DEF row
  <2> QED
    BY <2>3, <2>4, <1>h, ReadKeeps
<1>3. ASSUME NEW h \in Writers, NEW p \in PostIds, Move(h, p) PROVE PostsInv'
  <2>1. PICK k \in CategoryIds : ReadPost(h, p, [posts[p] EXCEPT !.category = k], "moving")
    BY <1>3 DEF Move
  <2> DEFINE row == [posts[p] EXCEPT !.category = k]
  <2>2. posts[p] \in Rows
    BY <1>3, <1>e DEF Move
  <2>3. row \in Rows /\ row.contents = posts[p].contents /\ row.thumbnail = posts[p].thumbnail
    BY <2>2 DEF Rows
  <2> HIDE DEF row
  <2>4. ReadPost(h, p, row, "moving")
    BY <2>1 DEF row
  <2> QED
    BY <2>3, <2>4, <1>h, ReadKeeps
<1>4. ASSUME NEW h \in Writers, NEW p \in PostIds, Insert(h, p) PROVE PostsInv'
  <2>1. new[h] \in Rows
    BY <1>4, <1>h DEF PostsInv, InsertRow, Insert
  <2>2. posts' \in [PostIds -> Rows \cup {NoPost}] /\ new[h].category \in CategoryIds
    BY <1>4, <2>1, <1>t DEF Insert, TypeOK, Rows
  <2> QED
    BY <1>4, <2>2, <1>h, <1>l, <1>r, <1>t, FinishKeeps DEF Insert, TypeOK
<1>5. ASSUME NEW h \in Writers, Create(h) PROVE PostsInv'
  <2>1. PICK c \in Contents, k \in CategoryIds : new' = [new EXCEPT ![h] = NewPost(c, k)]
    BY <1>5 DEF Create
  <2>2. NewPost(c, k) \in Rows /\ NewPost(c, k).thumbnail = FirstImage[NewPost(c, k).contents]
    BY ThumbnailType DEF NewPost, Rows, Thumbnail
  <2>3. UNCHANGED <<posts, status, target, copy, dropped, locked, late>>
        /\ pc' = [pc EXCEPT ![h] = "inserting"]
    BY <1>5 DEF Create, table, drop, Goto
  <2>4. TypeOK' /\ LockedExist'
    BY <2>1, <2>2, <2>3, <1>h DEF PostsInv, TypeOK, LockedExist
  <2>5. ASSUME NEW g \in Handlers, pc'[g] \in {"moving", "writing"} PROVE PendingRow(g)'
    <3>1. g # h
      BY <2>3, <2>5, <1>t, <1>h DEF TypeOK
    <3> QED
      BY <2>1, <2>3, <2>5, <3>1, <1>t, <1>h DEF PostsInv, TypeOK, PendingRow, EditorRow, WriterRow
  <2>6. ASSUME NEW g \in Handlers, pc'[g] = "inserting" PROVE InsertRow(g)'
    <3>1. CASE g = h
      BY <3>1, <2>1, <2>2, <1>t, <1>h DEF InsertRow, TypeOK
    <3>2. CASE g # h
      BY <3>2, <2>1, <2>3, <2>6, <1>t, <1>h DEF PostsInv, InsertRow, TypeOK
    <3> QED
      BY <3>1, <3>2
  <2> QED
    BY <2>4, <2>5, <2>6 DEF PostsInv
<1>6. ASSUME NEW h \in Writers, CheckCategory(h) PROVE PostsInv'
  <2>1. CASE ~Live(new[h].category)
    BY <1>6, <2>1, <1>h, <1>r, <1>t, FinishKeeps DEF CheckCategory, TypeOK, table
  <2>2. CASE Live(new[h].category)
    <3>1. /\ UNCHANGED <<posts, status, target, copy, new, dropped, locked, late>>
          /\ pc' = [pc EXCEPT ![h] = "writing"] /\ pc[h] = "moving"
      BY <1>6, <2>2 DEF CheckCategory, table, session, Goto
    <3> QED
      BY <3>1, <1>h DEF PostsInv, TypeOK, LockedExist, PendingRow, EditorRow, WriterRow, InsertRow
  <2> QED
    BY <2>1, <2>2
<1>7. ASSUME NEW h \in Handlers, Update(h) PROVE PostsInv'
  <2>1. /\ PendingRow(h) /\ Finish(h) /\ UNCHANGED status
        /\ posts' = [posts EXCEPT ![target[h]] = Written(posts[target[h]], copy[h], new[h])]
    BY <1>7 DEF Update, PostsInv
  <2>2. Written(posts[target[h]], copy[h], new[h]) \in Rows
    BY <2>1, ColumnsRow DEF PendingRow
  <2>3. posts' \in [PostIds -> Rows \cup {NoPost}] /\ posts'[target[h]].category \in CategoryIds
    BY <2>1, <2>2, <1>t DEF TypeOK, PendingRow, Rows
  <2>4. late' \in [Handlers -> SUBSET PostIds]
    BY <1>7, <2>1, <2>3, <1>l DEF Update, PendingRow
  <2> QED
    BY <2>1, <2>3, <2>4, <1>r, <1>t, FinishKeeps DEF TypeOK
<1>8. ASSUME NEW h \in Handlers, WriteFails(h) PROVE PostsInv'
  BY <1>8, <1>r, <1>t, FinishKeeps DEF WriteFails, TypeOK, table
<1>9. ASSUME NEW k \in CategoryIds, CreateCategory(k) PROVE PostsInv'
  BY <1>9 DEF CreateCategory, session, drop, PostsInv, TypeOK, LockedExist, PendingRow,
              EditorRow, WriterRow, InsertRow
<1>10. ASSUME NEW h \in Writers, NEW k \in CategoryIds, DropCategory(h, k) PROVE PostsInv'
  BY <1>10, <1>h DEF DropCategory, session, table, Goto, PostsInv, TypeOK, LockedExist, PendingRow,
              EditorRow, WriterRow, InsertRow
<1>11. ASSUME NEW h \in Writers, Reassign(h) PROVE PostsInv'
  <2>1. /\ UNCHANGED <<posts, status, target, copy, new, dropped, late>>
        /\ locked' = [locked EXCEPT ![h] = Reassigned(dropped[h])]
        /\ pc' = [pc EXCEPT ![h] = "reassigned"]
    BY <1>11 DEF Reassign, table, session, Goto
  <2>2. Reassigned(dropped[h]) \subseteq PostIds
        /\ \A p \in Reassigned(dropped[h]) : posts[p] \in Rows
    BY <1>e DEF Reassigned, InCategory
  <2>3. TypeOK' /\ LockedExist'
    BY <2>1, <2>2, <1>h DEF PostsInv, TypeOK, LockedExist
  <2> QED
    BY <2>1, <2>3, <1>h, <1>t DEF PostsInv, TypeOK, PendingRow, EditorRow, WriterRow, InsertRow
<1>12. ASSUME NEW h \in Writers, Drop(h) PROVE PostsInv'
  <2>1. posts' \in [PostIds -> Rows \cup {NoPost}]
    <3>1. \A p \in PostIds : p \in locked[h] => [posts[p] EXCEPT !.category = Uncategorized] \in Rows
      BY <1>h, PostsAssumption DEF PostsInv, LockedExist, Rows
    <3> QED
      BY <1>12, <3>1, <1>t DEF Drop, TypeOK
  <2>2. status' \in [CategoryIds -> {"new", "live", "gone"}]
        /\ late' \in [Handlers -> SUBSET PostIds] /\ Finish(h)
    BY <1>12, <1>t, <1>h DEF Drop, TypeOK
  <2> QED
    BY <2>1, <2>2, <1>h, <1>r, FinishKeeps
<1>13. ASSUME NEW h \in Writers, DropFails(h) PROVE PostsInv'
  <2>1. late' \in [Handlers -> SUBSET PostIds] /\ Finish(h) /\ UNCHANGED <<posts, status>>
    BY <1>13, <1>t, <1>h DEF DropFails, TypeOK, table
  <2> QED
    BY <2>1, <1>h, <1>t, FinishKeeps DEF TypeOK
<1>14. CASE UNCHANGED vars
  BY <1>14 DEF vars, table, session, drop, PostsInv, TypeOK, LockedExist, PendingRow,
               EditorRow, WriterRow, InsertRow
<1> QED
  BY <1>1, <1>2, <1>3, <1>4, <1>5, <1>6, <1>7, <1>8, <1>9, <1>10, <1>11, <1>12, <1>13, <1>14
     DEF Next

LEMMA PostsInvInvariant == Spec => []PostsInv
<1>1. Init => PostsInv
  BY PostsAssumption DEF Init, PostsInv, TypeOK, LockedExist
<1> QED
  BY <1>1, PostsStep, PTL DEF Spec

(* Every variable keeps its type (the shape of rows in particular: orm.py:60-92). *)
THEOREM PostsTyped == Spec => []TypeOK
<1>1. PostsInv => TypeOK
  BY DEF PostsInv
<1> QED
  BY <1>1, PostsInvInvariant, PTL

-----------------------------------------------------------------------------
(* What a commit does to the row, by who commits. *)
LEMMA UpdateColumns ==
    ASSUME PostsInv, NEW h \in Handlers, Update(h)
    PROVE  LET p == target[h] IN
           /\ p \in PostIds /\ posts[p] \in Rows /\ posts'[p] \in Rows
           /\ \A q \in PostIds : q # p => posts'[q] = posts[q]
           /\ posts'[p].contents = Column(posts[p].contents, copy[h].contents, new[h].contents)
           /\ posts'[p].thumbnail = Column(posts[p].thumbnail, copy[h].thumbnail, new[h].thumbnail)
           /\ posts'[p].deleted = Column(posts[p].deleted, copy[h].deleted, new[h].deleted)
           /\ posts'[p].category = Column(posts[p].category, copy[h].category, new[h].category)
<1> DEFINE p == target[h]
<1>1. /\ PendingRow(h)
      /\ posts' = [posts EXCEPT ![p] = Written(posts[p], copy[h], new[h])]
  BY DEF PostsInv, Update
<1>2. posts'[p] = Written(posts[p], copy[h], new[h]) /\ \A q \in PostIds : q # p => posts'[q] = posts[q]
  BY <1>1 DEF PendingRow, PostsInv, TypeOK
<1> QED
  BY <1>1, <1>2, ColumnsRow DEF PendingRow

(* No request undoes another's, whatever stale copy it works on: the UPDATE
   writes only the columns its handler changed (repository.py:193-198). *)
THEOREM NoRequestUndoesAnother == Spec => NothingUndone
<1>1. PostsInv /\ [Next]_vars => [OwnColumnsStep]_vars
  <2> SUFFICES ASSUME PostsInv, [Next]_vars, NEW p \in PostIds, Exists(p)
               PROVE  \/ /\ posts'[p].contents # posts[p].contents => \E h \in Editors : Writes(h, p)
                         /\ posts[p].deleted /\ ~posts'[p].deleted
                              => \E h \in Writers : Writes(h, p) /\ copy[h].deleted /\ ~new[h].deleted
                         /\ posts'[p].category # posts[p].category
                              => \/ \E h \in Writers : Writes(h, p) /\ new[h].category # copy[h].category
                                 \/ \E h \in Writers : p \in locked[h] /\ status'[dropped[h]] = "gone"
                      \/ UNCHANGED vars
    BY DEF OwnColumnsStep
  <2>t. TypeOK /\ Handlers = Editors \cup Writers
    BY DEF PostsInv, Handlers
  <2>1. ASSUME NEW h \in Handlers, Update(h), p = target[h] PROVE
          /\ posts'[p].contents # posts[p].contents => h \in Editors /\ Writes(h, p)
          /\ posts[p].deleted /\ ~posts'[p].deleted
               => h \in Writers /\ Writes(h, p) /\ copy[h].deleted /\ ~new[h].deleted
          /\ posts'[p].category # posts[p].category
               => h \in Writers /\ Writes(h, p) /\ new[h].category # copy[h].category
    <3>1. Writes(h, p) /\ PendingRow(h)
      BY <2>1, <2>t DEF Update, Writes, Finish, Goto, PostsInv, TypeOK
    <3>2. posts[p] \in Rows /\ copy[h] \in Rows /\ new[h] \in Rows
      BY <2>1, <3>1 DEF PendingRow
    <3>3. /\ posts'[p].contents = Column(posts[p].contents, copy[h].contents, new[h].contents)
          /\ posts'[p].deleted = Column(posts[p].deleted, copy[h].deleted, new[h].deleted)
          /\ posts'[p].category = Column(posts[p].category, copy[h].category, new[h].category)
      BY <2>1, UpdateColumns
    <3>4. posts'[p].contents # posts[p].contents => h \in Editors
      BY <3>1, <3>3, <2>t DEF Column, PendingRow, WriterRow
    <3>5. posts'[p].category # posts[p].category
            => h \in Writers /\ new[h].category # copy[h].category
      BY <3>1, <3>3, <2>t DEF Column, PendingRow, EditorRow
    <3>6. posts[p].deleted /\ ~posts'[p].deleted
            => new[h].deleted # copy[h].deleted /\ new[h].deleted = posts'[p].deleted
      BY <3>3 DEF Column
    <3>7. posts[p].deleted /\ ~posts'[p].deleted => h \in Writers
      BY <3>6, <3>1, <2>t DEF PendingRow, EditorRow
    <3>8. copy[h].deleted \in BOOLEAN /\ new[h].deleted \in BOOLEAN
      BY <3>2 DEF Rows
    <3>9. posts[p].deleted /\ ~posts'[p].deleted => copy[h].deleted /\ ~new[h].deleted
      <4> SUFFICES ASSUME posts[p].deleted, ~posts'[p].deleted
                   PROVE  copy[h].deleted /\ ~new[h].deleted
        OBVIOUS
      <4>1. new[h].deleted # copy[h].deleted /\ new[h].deleted = posts'[p].deleted
        BY <3>6
      <4> QED
        BY <4>1, <3>8, Zenon
    <3> QED
      BY <3>1, <3>4, <3>5, <3>7, <3>9
  <2>2. ASSUME NEW h \in Handlers, Update(h), p # target[h] PROVE posts'[p] = posts[p]
    BY <2>2, UpdateColumns
  <2>3. ASSUME NEW h \in Writers, NEW q \in PostIds, Insert(h, q) PROVE posts'[p] = posts[p]
    BY <2>3, <2>t DEF Insert, TypeOK
  <2>4. ASSUME NEW h \in Writers, Drop(h), p \in locked[h]
        PROVE  /\ posts'[p].contents = posts[p].contents
               /\ posts'[p].deleted = posts[p].deleted
               /\ status'[dropped[h]] = "gone"
    <3>1. posts'[p] = [posts[p] EXCEPT !.category = Uncategorized] /\ posts[p] \in Rows
      BY <2>4, <2>t DEF Drop, TypeOK, Exists
    <3>2. status'[dropped[h]] = "gone"
      BY <2>4, <2>t DEF Drop, TypeOK
    <3> QED
      BY <3>1, <3>2 DEF Rows
  <2>5. ASSUME NEW h \in Writers, Drop(h), p \notin locked[h] PROVE posts'[p] = posts[p]
    BY <2>5 DEF Drop
  <2>6. ASSUME UNCHANGED posts PROVE posts'[p] = posts[p]
    BY <2>6
  <2>7. \/ posts' = posts
        \/ \E h \in Handlers : Update(h)
        \/ \E h \in Writers : Drop(h) \/ \E q \in PostIds : Insert(h, q)
    BY DEF Next, Edit, Delete, Restore, Move, ReadPost, Create, CheckCategory, WriteFails,
           CreateCategory, DropCategory, Reassign, DropFails, vars, table
  <2> QED
    BY <2>1, <2>2, <2>3, <2>4, <2>5, <2>6, <2>7
<1> QED
  BY <1>1, PostsInvInvariant, PTL DEF Spec, NothingUndone

-----------------------------------------------------------------------------
(* One editor at a time: its copy has the row's body and thumbnail. *)
EditorCurrent ==
    \A h \in Editors : pc[h] = "writing" =>
        /\ copy[h].contents = posts[target[h]].contents
        /\ copy[h].thumbnail = posts[target[h]].thumbnail

ThumbInv == PostsInv /\ ThumbnailIsFirstImage /\ EditorCurrent

(* A step by anyone else leaves every body and thumbnail alone. *)
LEMMA BodiesStay ==
    ASSUME PostsInv, [Next]_vars, ~\E h \in Editors : Update(h),
           NEW p \in PostIds, Exists(p)
    PROVE  posts'[p].contents = posts[p].contents /\ posts'[p].thumbnail = posts[p].thumbnail
<1>t. TypeOK /\ Handlers = Editors \cup Writers
  BY DEF PostsInv, Handlers
<1>1. ASSUME NEW h \in Handlers, Update(h)
      PROVE  posts'[p].contents = posts[p].contents /\ posts'[p].thumbnail = posts[p].thumbnail
  <2>1. h \in Writers /\ PendingRow(h)
    BY <1>1, <1>t DEF PostsInv, Update
  <2> QED
    BY <2>1, <1>1, UpdateColumns DEF PendingRow, WriterRow, Column
<1>2. ASSUME NEW h \in Writers, NEW q \in PostIds, Insert(h, q) PROVE posts'[p] = posts[p]
  BY <1>2, <1>t DEF Insert, TypeOK
<1>3. ASSUME NEW h \in Writers, Drop(h)
      PROVE  posts'[p].contents = posts[p].contents /\ posts'[p].thumbnail = posts[p].thumbnail
  <2>1. posts[p] \in Rows
    BY <1>t DEF TypeOK, Exists
  <2>2. posts'[p] = IF p \in locked[h] THEN [posts[p] EXCEPT !.category = Uncategorized] ELSE posts[p]
    BY <1>3 DEF Drop
  <2> QED
    BY <2>1, <2>2 DEF Rows
<1>4. ASSUME UNCHANGED posts PROVE posts'[p] = posts[p]
  BY <1>4
<1> QED
  BY <1>1, <1>2, <1>3, <1>4
     DEF Next, Edit, Delete, Restore, Move, ReadPost, Create, CheckCategory, WriteFails,
         CreateCategory, DropCategory, Reassign, DropFails, vars, table

LEMMA ThumbStep ==
    ASSUME \A a, b \in Editors : a = b
    PROVE  ThumbInv /\ [Next]_vars => ThumbInv'
<1> SUFFICES ASSUME ThumbInv, [Next]_vars PROVE ThumbInv'
  OBVIOUS
<1>i. PostsInv /\ PostsInv' /\ ThumbnailIsFirstImage /\ EditorCurrent
  BY PostsStep DEF ThumbInv
<1>t. TypeOK /\ TypeOK' /\ Handlers = Editors \cup Writers
      /\ Editors \cap Writers = {} /\ NoPost \notin Rows
  BY <1>i, PostsAssumption DEF PostsInv, Handlers
<1>1. ASSUME NEW h \in Editors, Update(h) PROVE ThumbInv'
  <2>1. PendingRow(h) /\ EditorRow(h) /\ pc[h] = "writing"
    BY <1>1, <1>i, <1>t DEF PostsInv, PendingRow, Update
  <2>2. /\ copy[h].contents = posts[target[h]].contents
        /\ copy[h].thumbnail = posts[target[h]].thumbnail
    BY <2>1, <1>i DEF EditorCurrent
  <2>3. /\ posts'[target[h]].contents = new[h].contents
        /\ posts'[target[h]].thumbnail = new[h].thumbnail
        /\ \A q \in PostIds : q # target[h] => posts'[q] = posts[q]
    BY <2>1, <2>2, <1>1, <1>i, <1>t, UpdateColumns DEF Column
  <2>4. ThumbnailIsFirstImage'
    <3> SUFFICES ASSUME NEW q \in PostIds, Exists(q)'
                 PROVE  posts'[q].thumbnail = FirstImage[posts'[q].contents]
      BY DEF ThumbnailIsFirstImage
    <3>1. CASE q = target[h]
      BY <3>1, <2>3, <2>1 DEF EditorRow
    <3>2. CASE q # target[h]
      BY <3>2, <2>3, <1>i DEF ThumbnailIsFirstImage, Exists
    <3> QED
      BY <3>1, <3>2
  <2>5. EditorCurrent'
    <3>1. \A g \in Editors : pc'[g] = "idle"
      BY <1>1, <1>t DEF Update, Finish, Goto, TypeOK
    <3> QED
      BY <3>1 DEF EditorCurrent
  <2> QED
    BY <2>4, <2>5, <1>i DEF ThumbInv
<1>2. CASE ~\E h \in Editors : Update(h)
  <2>1. \A p \in PostIds : Exists(p) => /\ posts'[p].contents = posts[p].contents
                                       /\ posts'[p].thumbnail = posts[p].thumbnail
    BY <1>2, <1>i, BodiesStay
  <2>2. ThumbnailIsFirstImage'
    <3> SUFFICES ASSUME NEW q \in PostIds, Exists(q)'
                 PROVE  posts'[q].thumbnail = FirstImage[posts'[q].contents]
      BY DEF ThumbnailIsFirstImage
    <3>1. CASE Exists(q)
      BY <3>1, <2>1, <1>i DEF ThumbnailIsFirstImage
    <3>2. CASE ~Exists(q)
      <4>1. posts'[q] # posts[q]
        BY <3>2 DEF Exists
      <4>2. ASSUME NEW h \in Handlers, Update(h) PROVE FALSE
        <5>1. PendingRow(h)
          BY <4>2, <1>i DEF PostsInv, Update
        <5>2. q # target[h]
          BY <5>1, <3>2, <1>t DEF PendingRow, Exists
        <5> QED
          BY <5>2, <4>1, <4>2, <1>i, UpdateColumns
      <4>3. ASSUME NEW h \in Writers, Drop(h) PROVE FALSE
        <5>1. q \notin locked[h]
          BY <3>2, <1>i, <1>t DEF PostsInv, LockedExist, Exists
        <5> QED
          BY <4>1, <4>3, <5>1 DEF Drop
      <4>4. PICK h \in Writers, p \in PostIds : Insert(h, p)
        BY <4>1, <4>2, <4>3
           DEF Next, Edit, Delete, Restore, Move, ReadPost, Create, CheckCategory, WriteFails,
               CreateCategory, DropCategory, Reassign, DropFails, vars, table
      <4>5. q = p /\ posts'[q] = new[h] /\ InsertRow(h)
        BY <4>1, <4>4, <1>i, <1>t DEF Insert, TypeOK, PostsInv
      <4> QED
        BY <4>5 DEF InsertRow
    <3> QED
      BY <3>1, <3>2
  <2>3. EditorCurrent'
    <3> SUFFICES ASSUME NEW g \in Editors, pc'[g] = "writing"
                 PROVE  /\ copy'[g].contents = posts'[target'[g]].contents
                        /\ copy'[g].thumbnail = posts'[target'[g]].thumbnail
      BY DEF EditorCurrent
    <3>1. ASSUME NEW p \in PostIds, Edit(g, p)
          PROVE  /\ copy'[g].contents = posts'[target'[g]].contents
                 /\ copy'[g].thumbnail = posts'[target'[g]].thumbnail
      BY <3>1, <1>t DEF Edit, ReadPost, table, TypeOK
    <3>2. ASSUME pc[g] = "writing", copy'[g] = copy[g], target'[g] = target[g]
          PROVE  /\ copy'[g].contents = posts'[target'[g]].contents
                 /\ copy'[g].thumbnail = posts'[target'[g]].thumbnail
      <4>1. PendingRow(g)
        BY <3>2, <1>i, <1>t DEF PostsInv
      <4>2. Exists(target[g]) /\ target[g] \in PostIds
        BY <4>1, <1>t DEF PendingRow, Exists
      <4> QED
        BY <3>2, <4>2, <2>1, <1>i DEF EditorCurrent
    <3>3. ASSUME NEW h \in Handlers, h # g,
                 \/ \E p \in PostIds : \E row, stage : ReadPost(h, p, row, stage)
                 \/ Finish(h)
                 \/ Create(h)
                 \/ pc' = [pc EXCEPT ![h] = "writing"] /\ UNCHANGED session
                 \/ pc' = [pc EXCEPT ![h] = "dropping"] /\ UNCHANGED session
                 \/ pc' = [pc EXCEPT ![h] = "reassigned"] /\ UNCHANGED session
          PROVE  pc[g] = "writing" /\ copy'[g] = copy[g] /\ target'[g] = target[g]
      BY <3>3, <1>t DEF ReadPost, Finish, Create, Goto, session, TypeOK
    <3>4. ASSUME UNCHANGED <<pc, copy, target>>
          PROVE  pc[g] = "writing" /\ copy'[g] = copy[g] /\ target'[g] = target[g]
      BY <3>4
    <3>5. ASSUME Finish(g) PROVE FALSE
      BY <3>5, <1>t DEF Finish, Goto, TypeOK
    <3>6. g \notin Writers
      BY <1>t
    <3>7. ASSUME NEW h \in Editors, NEW p \in PostIds, Edit(h, p)
          PROVE  /\ copy'[g].contents = posts'[target'[g]].contents
                 /\ copy'[g].thumbnail = posts'[target'[g]].thumbnail
      <4>1. h = g
        OBVIOUS
      <4> QED
        BY <4>1, <3>1, <3>7
    <3>8. ASSUME NEW h \in Writers, NEW p \in PostIds,
                 Delete(h, p) \/ Restore(h, p) \/ Move(h, p)
          PROVE  \E row, stage : ReadPost(h, p, row, stage)
      BY <3>8 DEF Delete, Restore, Move
    <3>9. ASSUME NEW h \in Writers,
                 \/ \E p \in PostIds : Delete(h, p) \/ Restore(h, p) \/ Move(h, p) \/ Insert(h, p)
                 \/ Create(h) \/ CheckCategory(h) \/ Reassign(h) \/ Drop(h) \/ DropFails(h)
                 \/ \E k \in CategoryIds : DropCategory(h, k)
                 \/ Update(h) \/ WriteFails(h)
          PROVE  pc[g] = "writing" /\ copy'[g] = copy[g] /\ target'[g] = target[g]
      <4>1. h # g /\ h \in Handlers
        BY <3>6, <1>t
      <4> QED
        BY <4>1, <3>3, <3>8, <3>9
           DEF Insert, CheckCategory, Reassign, Drop, DropFails, DropCategory, Update,
               WriteFails, Goto
    <3>10. ASSUME NEW h \in Editors, Update(h) \/ WriteFails(h) PROVE FALSE
      <4>1. h = g
        OBVIOUS
      <4> QED
        BY <4>1, <3>5, <3>10 DEF Update, WriteFails
    <3>11. ASSUME \/ \E k \in CategoryIds : CreateCategory(k)
                  \/ UNCHANGED vars
           PROVE  UNCHANGED <<pc, copy, target>>
      BY <3>11 DEF CreateCategory, session, vars
    <3> QED
      BY <3>2, <3>4, <3>7, <3>9, <3>10, <3>11, <1>t DEF Next
  <2> QED
    BY <2>2, <2>3, <1>i DEF ThumbInv
<1> QED
  BY <1>1, <1>2

(* With one editor at a time, whatever creations, deletions, restores, moves and
   category deletions run beside it, a post's thumbnail is the first image of
   its body (post.py:202-203, 224-231). *)
THEOREM OneEditorKeepsThumbnail ==
    ASSUME \A a, b \in Editors : a = b
    PROVE  Spec => []ThumbnailIsFirstImage
<1>1. Init => ThumbInv
  BY PostsAssumption DEF Init, ThumbInv, PostsInv, TypeOK, LockedExist,
     ThumbnailIsFirstImage, EditorCurrent, Exists, Handlers
<1>2. ThumbInv /\ [Next]_vars => ThumbInv'
  BY ThumbStep
<1>3. ThumbInv => ThumbnailIsFirstImage
  BY DEF ThumbInv
<1> QED
  BY <1>1, <1>2, <1>3, PTL DEF Spec

-----------------------------------------------------------------------------
(* Why a category is not empty when its deletion reaches the DELETE. *)

(* Uncategorized is never being deleted, so the posts another deletion puts there
   are nobody's stragglers. *)
DropsNamed ==
    \A h \in Handlers : pc[h] \in {"dropping", "reassigned"} => dropped[h] # Uncategorized

LateInv == TypeOK /\ DropsNamed /\ OnlyLateArrivalsStay

(* A row written or inserted reaches the category it comes to under the eyes of
   every deletion of it; the handler that wrote it is done. *)
LEMMA ArrivalsKeep ==
    ASSUME LateInv, NEW p \in PostIds, Arrives(p, posts'[p].category),
           \A q \in PostIds : q # p => posts'[q] = posts[q],
           NEW h \in Handlers, Finish(h)
    PROVE  DropsNamed' /\ OnlyLateArrivalsStay'
<1> USE DEF LateInv, TypeOK, Finish, Goto
<1>1. ASSUME NEW g \in Handlers, pc'[g] # "idle"
      PROVE  g # h /\ pc'[g] = pc[g] /\ dropped'[g] = dropped[g] /\ locked'[g] = locked[g]
  BY <1>1
<1>2. DropsNamed'
  BY <1>1 DEF DropsNamed
<1>3. ASSUME NEW g \in Writers, pc'[g] = "reassigned", NEW q \in PostIds, q \in Stragglers(g)'
      PROVE  q \in late'[g]
  <2>0. g \in Handlers
    BY DEF Handlers
  <2>1. /\ pc[g] = "reassigned" /\ dropped'[g] = dropped[g] /\ locked'[g] = locked[g]
    BY <1>1, <1>3, <2>0
  <2>2. posts'[q] # NoPost /\ posts'[q].category = dropped[g] /\ q \notin locked[g]
    BY <1>3, <2>1 DEF Stragglers, InCategory, Exists
  <2>3. late'[g] = IF dropped[g] = posts'[p].category THEN late[g] \cup {p} ELSE late[g]
    BY <2>0, <2>1 DEF Arrives
  <2>4. CASE q = p
    BY <2>2, <2>3, <2>4
  <2>5. CASE q # p
    <3>1. q \in Stragglers(g)
      BY <2>2, <2>5 DEF Stragglers, InCategory, Exists
    <3>2. q \in late[g]
      BY <2>1, <3>1 DEF OnlyLateArrivalsStay
    <3> QED
      BY <2>3, <3>2
  <2> QED
    BY <2>4, <2>5
<1>4. OnlyLateArrivalsStay'
  <2>1. \A g \in Writers : Stragglers(g)' \subseteq PostIds
    BY DEF Stragglers, InCategory
  <2> QED
    BY <1>3, <2>1 DEF OnlyLateArrivalsStay
<1> QED
  BY <1>2, <1>4

(* A step that leaves posts, dropped, locked and late alone, and starts no
   deletion. *)
LEMMA QuietKeeps ==
    ASSUME LateInv, UNCHANGED <<posts, dropped, locked, late>>,
           \A g \in Handlers : pc'[g] \in {"dropping", "reassigned"} => pc'[g] = pc[g]
    PROVE  DropsNamed' /\ OnlyLateArrivalsStay'
<1>1. \A g \in Writers : Stragglers(g)' = Stragglers(g)
  BY DEF Stragglers, InCategory, Exists
<1>2. Writers \subseteq Handlers
  BY DEF Handlers
<1> QED
  BY <1>1, <1>2 DEF LateInv, DropsNamed, OnlyLateArrivalsStay

(* A handler that is done without having written a row. *)
LEMMA EndKeeps ==
    ASSUME LateInv, NEW h \in Handlers, Finish(h), posts' = posts,
           \A g \in Handlers : g # h => late'[g] = late[g]
    PROVE  DropsNamed' /\ OnlyLateArrivalsStay'
<1> USE DEF LateInv, TypeOK, Finish, Goto
<1>1. ASSUME NEW g \in Handlers, pc'[g] # "idle"
      PROVE  /\ pc'[g] = pc[g] /\ dropped'[g] = dropped[g] /\ locked'[g] = locked[g]
             /\ late'[g] = late[g]
  BY <1>1
<1>2. DropsNamed'
  BY <1>1 DEF DropsNamed
<1>3. ASSUME NEW g \in Writers, pc'[g] = "reassigned" PROVE Stragglers(g)' \subseteq late'[g]
  <2>1. g \in Handlers
    BY DEF Handlers
  <2>2. Stragglers(g)' = Stragglers(g) /\ late'[g] = late[g] /\ pc[g] = "reassigned"
    BY <1>1, <1>3, <2>1 DEF Stragglers, InCategory, Exists
  <2> QED
    BY <2>2 DEF OnlyLateArrivalsStay
<1> QED
  BY <1>2, <1>3 DEF OnlyLateArrivalsStay

LEMMA DropKeeps ==
    ASSUME PostsInv, LateInv, NEW h \in Writers, Drop(h)
    PROVE  DropsNamed' /\ OnlyLateArrivalsStay'
<1> USE DEF LateInv, TypeOK, Drop, Finish, Goto
<1>0. h \in Handlers
  BY DEF Handlers
<1>1. ASSUME NEW g \in Handlers, pc'[g] # "idle"
      PROVE  /\ pc'[g] = pc[g] /\ dropped'[g] = dropped[g] /\ locked'[g] = locked[g]
             /\ late'[g] = late[g]
  BY <1>0, <1>1
<1>2. DropsNamed'
  BY <1>1 DEF DropsNamed
<1>3. ASSUME NEW g \in Writers, pc'[g] = "reassigned", NEW q \in PostIds, q \in Stragglers(g)'
      PROVE  q \in late'[g]
  <2>0. g \in Handlers
    BY DEF Handlers
  <2>1. /\ pc[g] = "reassigned" /\ dropped'[g] = dropped[g] /\ locked'[g] = locked[g]
        /\ late'[g] = late[g] /\ dropped[g] # Uncategorized
    BY <1>1, <1>3, <2>0 DEF DropsNamed
  <2>2. posts'[q] # NoPost /\ posts'[q].category = dropped[g] /\ q \notin locked[g]
    BY <1>3, <2>1 DEF Stragglers, InCategory, Exists
  <2>3. posts'[q] = IF q \in locked[h] THEN [posts[q] EXCEPT !.category = Uncategorized]
                                       ELSE posts[q]
    OBVIOUS
  <2>4. CASE q \notin locked[h]
    <3>1. q \in Stragglers(g)
      BY <2>2, <2>3, <2>4 DEF Stragglers, InCategory, Exists
    <3> QED
      BY <2>1, <3>1 DEF OnlyLateArrivalsStay
  <2>5. CASE q \in locked[h] /\ posts[q] \in Rows
    <3>1. posts'[q].category = Uncategorized
      BY <2>3, <2>5 DEF Rows
    <3> QED
      BY <2>1, <2>2, <3>1
  <2> QED
    BY <2>4, <2>5, <1>0 DEF PostsInv, LockedExist
<1>4. \A g \in Writers : Stragglers(g)' \subseteq PostIds
  BY DEF Stragglers, InCategory
<1> QED
  BY <1>2, <1>3, <1>4 DEF OnlyLateArrivalsStay

LEMMA LateStep == PostsInv /\ LateInv /\ [Next]_vars => DropsNamed' /\ OnlyLateArrivalsStay'
<1> SUFFICES ASSUME PostsInv, LateInv, [Next]_vars PROVE DropsNamed' /\ OnlyLateArrivalsStay'
  OBVIOUS
<1> USE DEF Handlers
<1>1. ASSUME NEW h \in Handlers, NEW p \in PostIds, NEW row \in Rows \cup {NoPost},
             NEW stage \in {"moving", "writing"}, ReadPost(h, p, row, stage)
      PROVE  DropsNamed' /\ OnlyLateArrivalsStay'
  <2>1. UNCHANGED <<posts, dropped, locked, late>>
    BY <1>1 DEF ReadPost, table, drop
  <2>2. \A g \in Handlers : pc'[g] \in {"dropping", "reassigned"} => pc'[g] = pc[g]
    BY <1>1 DEF ReadPost, Goto, LateInv, TypeOK
  <2> QED
    BY <2>1, <2>2, QuietKeeps
<1>2. ASSUME NEW h \in Handlers, Update(h) PROVE DropsNamed' /\ OnlyLateArrivalsStay'
  <2>1. target[h] \in PostIds
    BY <1>2 DEF Update, PostsInv, PendingRow
  <2>2. /\ Arrives(target[h], posts'[target[h]].category) /\ Finish(h)
        /\ \A q \in PostIds : q # target[h] => posts'[q] = posts[q]
    BY <1>2 DEF Update, LateInv, TypeOK
  <2> QED
    BY <2>1, <2>2, ArrivalsKeep
<1>3. ASSUME NEW h \in Writers, NEW p \in PostIds, Insert(h, p)
      PROVE  DropsNamed' /\ OnlyLateArrivalsStay'
  <2>1. posts' = [posts EXCEPT ![p] = new[h]] /\ Arrives(p, new[h].category) /\ Finish(h)
    BY <1>3 DEF Insert
  <2>2. posts'[p] = new[h] /\ \A q \in PostIds : q # p => posts'[q] = posts[q]
    BY <2>1 DEF LateInv, TypeOK
  <2> QED
    BY <2>1, <2>2, ArrivalsKeep
<1>4. ASSUME NEW h \in Handlers, WriteFails(h) PROVE DropsNamed' /\ OnlyLateArrivalsStay'
  BY <1>4, EndKeeps DEF WriteFails, table
<1>5. ASSUME NEW h \in Writers, CheckCategory(h) PROVE DropsNamed' /\ OnlyLateArrivalsStay'
  <2>1. posts' = posts /\ late' = late
    BY <1>5 DEF CheckCategory, table
  <2>2. CASE Finish(h)
    BY <2>1, <2>2, EndKeeps
  <2>3. CASE Goto(h, "writing") /\ UNCHANGED <<dropped, locked>>
    <3>1. \A g \in Handlers : pc'[g] \in {"dropping", "reassigned"} => pc'[g] = pc[g]
      BY <2>3 DEF Goto, LateInv, TypeOK
    <3> QED
      BY <2>1, <2>3, <3>1, QuietKeeps
  <2> QED
    BY <1>5, <2>2, <2>3 DEF CheckCategory
<1>6. ASSUME NEW h \in Writers, Create(h) PROVE DropsNamed' /\ OnlyLateArrivalsStay'
  <2>1. UNCHANGED <<posts, dropped, locked, late>> /\ Goto(h, "inserting")
    BY <1>6 DEF Create, table, drop
  <2>2. \A g \in Handlers : pc'[g] \in {"dropping", "reassigned"} => pc'[g] = pc[g]
    BY <2>1 DEF Goto, LateInv, TypeOK
  <2> QED
    BY <2>1, <2>2, QuietKeeps
<1>7. ASSUME NEW k \in CategoryIds, CreateCategory(k) PROVE DropsNamed' /\ OnlyLateArrivalsStay'
  BY <1>7, QuietKeeps DEF CreateCategory, drop
<1>8. ASSUME NEW h \in Writers, NEW k \in CategoryIds, DropCategory(h, k)
      PROVE  DropsNamed' /\ OnlyLateArrivalsStay'
  <2>1. /\ \A g \in Handlers : g # h => pc'[g] = pc[g] /\ dropped'[g] = dropped[g]
        /\ pc'[h] = "dropping" /\ dropped'[h] = k /\ k # Uncategorized
        /\ UNCHANGED <<posts, locked, late>>
    BY <1>8 DEF DropCategory, Goto, LateInv, TypeOK, table
  <2>2. DropsNamed'
    BY <2>1 DEF LateInv, DropsNamed
  <2>3. \A g \in Writers : g # h => Stragglers(g)' = Stragglers(g)
    BY <2>1 DEF Stragglers, InCategory, Exists
  <2>4. OnlyLateArrivalsStay'
    BY <2>1, <2>3 DEF LateInv, OnlyLateArrivalsStay
  <2> QED
    BY <2>2, <2>4
<1>9. ASSUME NEW h \in Writers, Reassign(h) PROVE DropsNamed' /\ OnlyLateArrivalsStay'
  <2>1. /\ \A g \in Handlers : g # h => pc'[g] = pc[g] /\ locked'[g] = locked[g]
        /\ pc[h] = "dropping" /\ locked'[h] = InCategory(dropped[h])
        /\ UNCHANGED <<posts, dropped, late>>
    BY <1>9 DEF Reassign, Reassigned, Goto, LateInv, TypeOK, table
  <2>2. DropsNamed'
    BY <2>1 DEF LateInv, DropsNamed
  <2>3. \A g \in Writers : g # h => Stragglers(g)' = Stragglers(g)
    BY <2>1 DEF Stragglers, InCategory, Exists
  <2>4. Stragglers(h)' = {}
    BY <2>1 DEF Stragglers, InCategory, Exists
  <2>5. OnlyLateArrivalsStay'
    BY <2>1, <2>3, <2>4 DEF LateInv, OnlyLateArrivalsStay
  <2> QED
    BY <2>2, <2>5
<1>10. ASSUME NEW h \in Writers, Drop(h) PROVE DropsNamed' /\ OnlyLateArrivalsStay'
  BY <1>10, DropKeeps
<1>11. ASSUME NEW h \in Writers, DropFails(h) PROVE DropsNamed' /\ OnlyLateArrivalsStay'
  <2>1. \A g \in Handlers : g # h => late'[g] = late[g]
    BY <1>11 DEF DropFails, LateInv, TypeOK
  <2> QED
    BY <1>11, <2>1, EndKeeps DEF DropFails, table
<1>12. ASSUME UNCHANGED vars PROVE DropsNamed' /\ OnlyLateArrivalsStay'
  BY <1>12, QuietKeeps DEF vars, table, drop
<1>13. ASSUME NEW h \in Editors, NEW p \in PostIds, Edit(h, p)
       PROVE  DropsNamed' /\ OnlyLateArrivalsStay'
  <2>1. PICK c \in Contents :
          ReadPost(h, p, [posts[p] EXCEPT !.contents = c, !.thumbnail = Thumbnail(c)], "writing")
    BY <1>13 DEF Edit
  <2>2. posts[p] \in Rows
    BY <1>13 DEF Edit, Exists, LateInv, TypeOK
  <2>3. [posts[p] EXCEPT !.contents = c, !.thumbnail = Thumbnail(c)] \in Rows
    BY <2>2, ThumbnailType DEF Rows
  <2> QED
    BY <1>1, <2>1, <2>3
<1>14. ASSUME NEW h \in Writers, NEW p \in PostIds, Delete(h, p) \/ Restore(h, p) \/ Move(h, p)
       PROVE  DropsNamed' /\ OnlyLateArrivalsStay'
  <2>1. posts[p] \in Rows
    BY <1>14 DEF Delete, Restore, Move, Exists, LateInv, TypeOK
  <2>2. /\ \A d \in BOOLEAN : [posts[p] EXCEPT !.deleted = d] \in Rows
        /\ \A k \in CategoryIds : [posts[p] EXCEPT !.category = k] \in Rows
    BY <2>1 DEF Rows
  <2> QED
    BY <1>1, <1>14, <2>2 DEF Delete, Restore, Move
<1> QED
  BY <1>2, <1>3, <1>4, <1>5, <1>6, <1>7, <1>8, <1>9, <1>10, <1>11, <1>12, <1>13, <1>14 DEF Next

(* For every number of handlers: a deletion of a category is refused only
   because of posts that came to it after its posts were reassigned
   (repository.py:294-319). *)
THEOREM RefusalsAreLateArrivals == Spec => []OnlyLateArrivalsStay
<1>1. Init => DropsNamed /\ OnlyLateArrivalsStay
  BY DEF Init, DropsNamed, OnlyLateArrivalsStay, Handlers
<1>2. PostsInv => TypeOK
  BY DEF PostsInv
<1> QED
  BY <1>1, <1>2, PostsInvInvariant, LateStep, PTL DEF Spec, LateInv

-----------------------------------------------------------------------------
(* Between the bulk UPDATE of a category's deletion and its commit. *)

(* Only a deletion that has done its UPDATE holds rows, no two hold the same
   row, and a row held is still in the category that is being deleted. *)
LocksHeld ==
    /\ \A h \in Handlers : locked[h] # {} => h \in Writers /\ pc[h] = "reassigned"
    /\ \A h \in Handlers : \A p \in locked[h] : posts[p].category = dropped[h]
    /\ \A g, h \in Handlers : g # h => locked[g] \cap locked[h] = {}

(* Every post is in a category there is: the foreign key of posts.category_id,
   with Uncategorized for the posts whose category goes. *)
CategoriesLive ==
    /\ Live(Uncategorized)
    /\ \A p \in PostIds : Exists(p) => Live(posts[p].category)

RowInv == PostsInv /\ DropsNamed /\ OnlyLateArrivalsStay /\ LocksHeld /\ CategoriesLive

(* Handlers elsewhere than in the UPDATE hold nothing before and after. *)
LEMMA LocksUntouched ==
    ASSUME TypeOK, LocksHeld, NEW h \in Handlers, pc[h] # "reassigned",
           locked' = locked, posts' = posts,
           \A g \in Handlers : g # h => pc'[g] = pc[g] /\ dropped'[g] = dropped[g]
    PROVE  LocksHeld'
<1>1. locked[h] = {}
  BY DEF LocksHeld
<1> QED
  BY <1>1 DEF LocksHeld

(* A handler that is done lets its rows go; the rows of the others stay in place. *)
LEMMA LocksReleased ==
    ASSUME TypeOK, LocksHeld, NEW h \in Handlers, Finish(h),
           \A g \in Handlers : \A p \in locked[g] : g # h => posts'[p] = posts[p]
    PROVE  LocksHeld'
<1>1. locked'[h] = {} /\ \A g \in Handlers : g # h =>
        pc'[g] = pc[g] /\ dropped'[g] = dropped[g] /\ locked'[g] = locked[g]
  BY DEF Finish, Goto, TypeOK
<1>2. ASSUME NEW g \in Handlers, locked'[g] # {}
      PROVE  /\ g # h /\ g \in Writers /\ pc'[g] = "reassigned"
             /\ \A p \in locked'[g] : posts'[p].category = dropped'[g]
  BY <1>1, <1>2 DEF LocksHeld
<1>3. ASSUME NEW g \in Handlers, NEW f \in Handlers, g # f
      PROVE  locked'[g] \cap locked'[f] = {}
  BY <1>1, <1>3 DEF LocksHeld
<1> QED
  BY <1>2, <1>3 DEF LocksHeld

LEMMA LocksStep == RowInv /\ [Next]_vars => LocksHeld'
<1> SUFFICES ASSUME RowInv, [Next]_vars PROVE LocksHeld'
  OBVIOUS
<1>t. TypeOK /\ LocksHeld /\ PostsInv
  BY DEF RowInv, PostsInv
<1>h. Editors \subseteq Handlers /\ Writers \subseteq Handlers
  BY DEF Handlers
<1>1. ASSUME NEW h \in Handlers, NEW p \in PostIds, NEW row, NEW stage,
             ReadPost(h, p, row, stage)
      PROVE  LocksHeld'
  <2>1. /\ pc[h] # "reassigned" /\ locked' = locked /\ posts' = posts
        /\ \A g \in Handlers : g # h => pc'[g] = pc[g] /\ dropped'[g] = dropped[g]
    BY <1>1, <1>t DEF ReadPost, Goto, TypeOK, table, drop
  <2> QED
    BY <2>1, <1>t, LocksUntouched
<1>2. ASSUME NEW h \in Editors, NEW p \in PostIds, Edit(h, p) PROVE LocksHeld'
  BY <1>1, <1>2, <1>h DEF Edit
<1>3. ASSUME NEW h \in Writers, NEW p \in PostIds, Delete(h, p) \/ Restore(h, p) \/ Move(h, p)
      PROVE  LocksHeld'
  BY <1>1, <1>3, <1>h DEF Delete, Restore, Move
<1>4. ASSUME NEW h \in Writers, Create(h) \/ \E k \in CategoryIds : DropCategory(h, k)
      PROVE  LocksHeld'
  <2>1. /\ h \in Handlers /\ pc[h] # "reassigned" /\ locked' = locked /\ posts' = posts
        /\ \A g \in Handlers : g # h => pc'[g] = pc[g] /\ dropped'[g] = dropped[g]
    BY <1>4, <1>t, <1>h DEF Create, DropCategory, Goto, TypeOK, table, drop
  <2> QED
    BY <2>1, <1>t, LocksUntouched
<1>5. ASSUME NEW h \in Writers, CheckCategory(h) PROVE LocksHeld'
  <2>1. CASE Finish(h)
    BY <1>5, <2>1, <1>t, <1>h, LocksReleased DEF CheckCategory, table
  <2>2. CASE Goto(h, "writing") /\ UNCHANGED <<session, dropped, locked>>
    <3>1. /\ h \in Handlers /\ pc[h] # "reassigned" /\ locked' = locked /\ posts' = posts
          /\ \A g \in Handlers : g # h => pc'[g] = pc[g] /\ dropped'[g] = dropped[g]
      BY <1>5, <2>2, <1>t, <1>h DEF CheckCategory, Goto, TypeOK, table
    <3> QED
      BY <3>1, <1>t, LocksUntouched
  <2> QED
    BY <1>5, <2>1, <2>2 DEF CheckCategory
<1>6. ASSUME NEW h \in Handlers, Update(h) PROVE LocksHeld'
  <2>1. /\ Finish(h) /\ \A g \in Handlers : target[h] \notin locked[g]
        /\ \A q \in PostIds : q # target[h] => posts'[q] = posts[q]
    BY <1>6, <1>t DEF Update, TypeOK
  <2>2. \A g \in Handlers : \A p \in locked[g] : posts'[p] = posts[p]
    BY <2>1, <1>t DEF TypeOK
  <2> QED
    BY <2>1, <2>2, <1>t, LocksReleased
<1>7. ASSUME NEW h \in Handlers, WriteFails(h) PROVE LocksHeld'
  BY <1>7, <1>t, LocksReleased DEF WriteFails, table
<1>8. ASSUME NEW h \in Writers, NEW p \in PostIds, Insert(h, p) PROVE LocksHeld'
  <2>1. /\ Finish(h) /\ posts[p] = NoPost /\ h \in Handlers
        /\ \A q \in PostIds : q # p => posts'[q] = posts[q]
    BY <1>8, <1>t, <1>h DEF Insert, Exists, TypeOK
  <2>2. \A g \in Handlers : \A q \in locked[g] : q \in PostIds /\ q # p
    BY <2>1, <1>t, PostsAssumption DEF PostsInv, LockedExist, TypeOK
  <2> QED
    BY <2>1, <2>2, <1>t, LocksReleased
<1>9. ASSUME NEW k \in CategoryIds, CreateCategory(k) PROVE LocksHeld'
  BY <1>9, <1>t DEF CreateCategory, drop, LocksHeld
<1>10. ASSUME NEW h \in Writers, Reassign(h) PROVE LocksHeld'
  <2>1. /\ h \in Handlers /\ UNCHANGED <<posts, dropped>>
        /\ locked'[h] = InCategory(dropped[h]) /\ pc'[h] = "reassigned"
        /\ \A g \in Handlers : locked[g] \cap InCategory(dropped[h]) = {}
        /\ \A g \in Handlers : g # h => pc'[g] = pc[g] /\ locked'[g] = locked[g]
    BY <1>10, <1>t, <1>h DEF Reassign, Reassigned, Goto, TypeOK, table
  <2>2. \A p \in locked'[h] : posts'[p].category = dropped'[h]
    BY <2>1 DEF InCategory
  <2>3. \A g \in Handlers : g # h => locked'[g] \cap locked'[h] = {}
    BY <2>1
  <2>4. ASSUME NEW g \in Handlers
        PROVE  /\ locked'[g] # {} => g \in Writers /\ pc'[g] = "reassigned"
               /\ \A p \in locked'[g] : posts'[p].category = dropped'[g]
    BY <2>1, <2>2, <1>t DEF LocksHeld
  <2>5. ASSUME NEW g \in Handlers, NEW f \in Handlers, g # f
        PROVE  locked'[g] \cap locked'[f] = {}
    BY <2>1, <2>3, <2>5, <1>t DEF LocksHeld
  <2> QED
    BY <2>4, <2>5 DEF LocksHeld
<1>11. ASSUME NEW h \in Writers, Drop(h) PROVE LocksHeld'
  <2>1. /\ Finish(h) /\ h \in Handlers
        /\ \A p \in PostIds : p \notin locked[h] => posts'[p] = posts[p]
    BY <1>11, <1>h DEF Drop
  <2>2. \A g \in Handlers : \A p \in locked[g] : g # h => posts'[p] = posts[p]
    BY <2>1, <1>t DEF LocksHeld, TypeOK
  <2> QED
    BY <2>1, <2>2, <1>t, LocksReleased
<1>12. ASSUME NEW h \in Writers, DropFails(h) PROVE LocksHeld'
  BY <1>12, <1>t, <1>h, LocksReleased DEF DropFails, table
<1>13. CASE UNCHANGED vars
  BY <1>13, <1>t DEF vars, table, drop, LocksHeld
<1> QED
  BY <1>2, <1>3, <1>4, <1>5, <1>6, <1>7, <1>8, <1>9, <1>10, <1>11, <1>12, <1>13 DEF Next

LEMMA CategoriesStep == RowInv /\ [Next]_vars => CategoriesLive'
<1> SUFFICES ASSUME RowInv, [Next]_vars PROVE CategoriesLive'
  OBVIOUS
<1>t. TypeOK /\ CategoriesLive /\ PostsInv
  BY DEF RowInv, PostsInv
<1>h. Editors \subseteq Handlers /\ Writers \subseteq Handlers /\ Uncategorized \in CategoryIds
  BY PostsAssumption DEF Handlers
<1>1. ASSUME UNCHANGED <<posts, status>> PROVE CategoriesLive'
  BY <1>1, <1>t DEF CategoriesLive, Exists, Live
<1>2. ASSUME NEW h \in Handlers, Update(h) PROVE CategoriesLive'
  <2> DEFINE p == target[h]
  <2>1. /\ p \in PostIds /\ posts[p] \in Rows
        /\ \A q \in PostIds : q # p => posts'[q] = posts[q]
        /\ posts'[p].category = Column(posts[p].category, copy[h].category, new[h].category)
    BY <1>2, <1>t, UpdateColumns
  <2>2. status' = status /\ (new[h].category # copy[h].category => Live(new[h].category))
    BY <1>2 DEF Update
  <2>3. Live(posts'[p].category)
    BY <2>1, <2>2, <1>t, PostsAssumption DEF Column, CategoriesLive, Exists
  <2> QED
    BY <2>1, <2>2, <2>3, <1>t DEF CategoriesLive, Exists, Live
<1>3. ASSUME NEW h \in Writers, NEW p \in PostIds, Insert(h, p) PROVE CategoriesLive'
  <2>1. /\ posts' = [posts EXCEPT ![p] = new[h]] /\ Live(new[h].category) /\ status' = status
    BY <1>3 DEF Insert
  <2> QED
    BY <2>1, <1>t DEF CategoriesLive, Exists, Live, TypeOK
<1>4. ASSUME NEW k \in CategoryIds, CreateCategory(k) PROVE CategoriesLive'
  <2>1. posts' = posts /\ \A c \in CategoryIds : Live(c) => status'[c] = "live"
    BY <1>4, <1>t DEF CreateCategory, Live, TypeOK
  <2>2. \A p \in PostIds : Exists(p) => posts[p].category \in CategoryIds
    BY <1>t DEF TypeOK, Exists, Rows
  <2> QED
    BY <2>1, <2>2, <1>t, <1>h DEF CategoriesLive, Exists, Live
<1>5. ASSUME NEW h \in Writers, Drop(h) PROVE CategoriesLive'
  <2>1. /\ h \in Handlers /\ pc[h] = "reassigned" /\ Stragglers(h) = {}
        /\ \A p \in PostIds : posts'[p] = IF p \in locked[h]
                                          THEN [posts[p] EXCEPT !.category = Uncategorized]
                                          ELSE posts[p]
        /\ status' = [status EXCEPT ![dropped[h]] = "gone"]
    BY <1>5, <1>h DEF Drop
  <2>2. dropped[h] # Uncategorized /\ dropped[h] \in CategoryIds
    BY <2>1, <1>t DEF RowInv, DropsNamed, TypeOK
  <2>3. \A c \in CategoryIds : c # dropped[h] /\ Live(c) => status'[c] = "live"
    BY <2>1, <1>t DEF Live, TypeOK
  <2>4. status'[Uncategorized] = "live"
    BY <2>2, <2>3, <1>h, <1>t DEF CategoriesLive
  <2>5. ASSUME NEW p \in PostIds, posts'[p] # NoPost PROVE status'[posts'[p].category] = "live"
    <3>1. CASE p \in locked[h]
      <4>1. posts[p] \in Rows
        BY <3>1, <2>1, <1>t DEF PostsInv, LockedExist
      <4>2. posts'[p].category = Uncategorized
        BY <3>1, <4>1, <2>1 DEF Rows
      <4> QED
        BY <4>2, <2>4
    <3>2. CASE p \notin locked[h]
      <4>1. posts'[p] = posts[p] /\ Exists(p)
        BY <3>2, <2>1, <2>5 DEF Exists
      <4>2. posts[p].category # dropped[h]
        BY <3>2, <4>1, <2>1 DEF Stragglers, InCategory
      <4>3. Live(posts[p].category) /\ posts[p].category \in CategoryIds
        BY <4>1, <1>t DEF CategoriesLive, TypeOK, Exists, Rows
      <4> QED
        BY <4>1, <4>2, <4>3, <2>3
    <3> QED
      BY <3>1, <3>2
  <2> QED
    BY <2>4, <2>5 DEF CategoriesLive, Exists, Live
<1> QED
  BY <1>1, <1>2, <1>3, <1>4, <1>5
     DEF Next, Edit, Delete, Restore, Move, ReadPost, Create, CheckCategory, WriteFails,
         DropCategory, Reassign, DropFails, vars, table

LEMMA RowInvInvariant == Spec => []RowInv
<1>1. Init => DropsNamed /\ OnlyLateArrivalsStay /\ LocksHeld /\ CategoriesLive
  BY PostsAssumption
     DEF Init, DropsNamed, OnlyLateArrivalsStay, LocksHeld, CategoriesLive, Handlers, Live, Exists
<1>2. PostsInv => TypeOK
  BY DEF PostsInv
<1>3. RowInv /\ [Next]_vars => DropsNamed' /\ OnlyLateArrivalsStay'
  BY <1>2, LateStep DEF RowInv, LateInv
<1> QED
  BY <1>1, <1>3, PostsInvInvariant, LocksStep, CategoriesStep, PTL DEF Spec, RowInv

(* What a category's deletion takes along it keeps until its commit: rows are
   held by one deletion at a time, and none of them is edited, deleted, moved or
   taken by another deletion in between, so the commit finds them where the
   UPDATE did (repository.py:310-317). *)
THEOREM ReassignedRowsAreHeld == Spec => []LocksHeld
<1>1. RowInv => LocksHeld
  BY DEF RowInv
<1> QED
  BY <1>1, RowInvInvariant, PTL

(* No post is left in a category that is gone, whatever is created, moved or
   edited while the category is deleted, and Uncategorized, where the others
   land, is always there (category.py:49-52, repository.py:294-319). *)
THEOREM EveryPostHasACategory == Spec => []CategoriesLive
<1>1. RowInv => CategoriesLive
  BY DEF RowInv
<1> QED
  BY <1>1, RowInvInvariant, PTL
=============================================================================
