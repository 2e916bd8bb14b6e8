-------------------------- MODULE DiscussionProofs --------------------------
(* Proofs about Discussion.  DiscInv ties a handler's session to the table:
   the parent a new comment names is an older comment of the same post and is
   not an answer itself, and the copy an update starts from was not deleted. *)
EXTENDS Discussion, TLAPS

Rooted(row) ==
    row.parent # NoParent =>
        /\ row.parent \in Ids
        /\ comments[row.parent].post = row.post
        /\ comments[row.parent].parent = NoParent

DepthOne == \A c \in Ids : Rooted(comments[c])

Session(h) ==
    /\ pc[h] \in {"checking", "saving", "rereading"} => new[h] \in Rows
    /\ pc[h] = "checking" => new[h].parent \in Ids \cup {NoParent}
    /\ pc[h] = "saving" => Rooted(new[h])
    /\ pc[h] = "writing" =>
         /\ target[h] \in Ids
         /\ copy[h] \in Rows /\ new[h] \in Rows
         /\ ~copy[h].deleted
         /\ comments[target[h]].author = UserOf[h]
    /\ pc[h] \in {"looking", "adding", "removing"} => page[h] \in Posts
    /\ h \in Likers => pc[h] \in {"idle", "looking", "adding", "removing"}

DiscInv ==
    /\ TypeOK
    /\ DepthOne
    /\ \A h \in Handlers : Session(h)

LEMMA InitDisc == Init => DiscInv
  BY DiscussionAssumption DEF Init, DiscInv, TypeOK, DepthOne, Session, Rooted, Ids,
     NoParent, Handlers

(* The table only grows, and no row changes its post, parent or author. *)
Grows ==
    /\ Len(comments') \in Nat /\ Ids \subseteq Ids'
    /\ \A c \in Ids : /\ comments'[c].post = comments[c].post
                      /\ comments'[c].parent = comments[c].parent
                      /\ comments'[c].author = comments[c].author

LEMMA IdsAre == ASSUME TypeOK PROVE Ids = 1..Len(comments) /\ Len(comments) \in Nat
  BY DEF TypeOK, Ids

(* What a row relies on in the table stays. *)
LEMMA RootedStays ==
    ASSUME TypeOK, Grows, NEW row, Rooted(row)
    PROVE  Rooted(row)'
  BY DEF Grows, Rooted

LEMMA GrownUpdate ==
    ASSUME DiscInv, NEW h \in Talkers, Update(h)
    PROVE  /\ comments' \in Seq(Rows) /\ Grows /\ Ids' = Ids
           /\ \A c \in Ids : c # target[h] => comments'[c] = comments[c]
           /\ comments'[target[h]] = Written(comments[target[h]], copy[h], new[h])
<1> DEFINE c == target[h]
<1>1. /\ c \in Ids /\ comments[c] \in Rows /\ copy[h] \in Rows /\ new[h] \in Rows
  BY DEF DiscInv, Session, Update, TypeOK, Handlers, Ids
<1>2. Written(comments[c], copy[h], new[h]) \in Rows
  BY <1>1 DEF Written, Column, Rows
<1>3. comments' = [comments EXCEPT ![c] = Written(comments[c], copy[h], new[h])]
  BY DEF Update
<1>4. comments' \in Seq(Rows) /\ Len(comments') = Len(comments) /\ DOMAIN comments' = DOMAIN comments
  BY <1>1, <1>2, <1>3 DEF DiscInv, TypeOK, Ids
<1>5. /\ \A d \in Ids : d # c => comments'[d] = comments[d]
      /\ comments'[c] = Written(comments[c], copy[h], new[h])
  BY <1>1, <1>3, <1>4 DEF Ids
<1>6. \A d \in Ids : /\ comments'[d].post = comments[d].post
                     /\ comments'[d].parent = comments[d].parent
                     /\ comments'[d].author = comments[d].author
  BY <1>1, <1>5 DEF Written
<1> QED
  BY <1>4, <1>5, <1>6, IdsAre DEF Grows, Ids, DiscInv

LEMMA GrownSave ==
    ASSUME DiscInv, NEW h \in Talkers, Save(h)
    PROVE  /\ comments' \in Seq(Rows) /\ Grows
           /\ \A c \in Ids : comments'[c] = comments[c]
           /\ Ids' = Ids \cup {Len(comments) + 1}
           /\ comments'[Len(comments) + 1] = new[h]
<1>1. new[h] \in Rows /\ comments \in Seq(Rows)
  BY DEF DiscInv, Session, Save, TypeOK, Handlers
<1>2. comments' = Append(comments, new[h])
  BY DEF Save
<1> QED
  BY <1>1, <1>2 DEF Grows, Ids

(* Closing or stepping a session without touching the table. *)
LEMMA QuietKeeps ==
    ASSUME DiscInv, UNCHANGED comments, TypeOK',
           NEW h \in Handlers, Session(h)',
           \A g \in Handlers \ {h} : /\ pc'[g] = pc[g] /\ target'[g] = target[g]
                                     /\ copy'[g] = copy[g] /\ new'[g] = new[g]
                                     /\ page'[g] = page[g]
    PROVE  DiscInv'
<1>1. DepthOne'
  BY DEF DiscInv, DepthOne, Rooted, Ids
<1>2. ASSUME NEW g \in Handlers, g # h PROVE Session(g)'
  BY <1>2 DEF DiscInv, Session, Rooted, Ids
<1> QED
  BY <1>1, <1>2 DEF DiscInv

(* A step that changes the table leaves the other sessions right. *)
LEMMA SessionStays ==
    ASSUME DiscInv, Grows, NEW g \in Handlers,
           pc'[g] = pc[g], target'[g] = target[g], copy'[g] = copy[g],
           new'[g] = new[g], page'[g] = page[g]
    PROVE  Session(g)'
  BY DEF DiscInv, Session, Rooted, Grows

LEMMA FinishType ==
    ASSUME TypeOK, NEW h \in Handlers, Finish(h)
    PROVE  /\ pc' \in [Handlers -> {"idle", "checking", "saving", "rereading", "writing",
                                    "looking", "adding", "removing"}]
           /\ target' \in [Handlers -> Nat]
           /\ copy' \in [Handlers -> Rows \cup {NoRow}]
           /\ new' \in [Handlers -> Rows \cup {NoRow}]
           /\ page' \in [Handlers -> Posts \cup {NoPost}]
           /\ Session(h)'
           /\ \A g \in Handlers \ {h} : /\ pc'[g] = pc[g] /\ target'[g] = target[g]
                                        /\ copy'[g] = copy[g] /\ new'[g] = new[g]
                                        /\ page'[g] = page[g]
<1>1. /\ pc' = [pc EXCEPT ![h] = "idle"] /\ target' = [target EXCEPT ![h] = 0]
      /\ copy' = [copy EXCEPT ![h] = NoRow] /\ new' = [new EXCEPT ![h] = NoRow]
      /\ page' = [page EXCEPT ![h] = NoPost]
  BY DEF Finish, Goto, NoParent
<1>2. pc'[h] = "idle"
  BY <1>1 DEF TypeOK
<1>3. Session(h)'
  BY <1>2 DEF Session
<1> QED
  BY <1>1, <1>3 DEF TypeOK

LEMMA PairType ==
    ASSUME DiscInv, NEW h \in Likers, pc[h] \in {"looking", "adding", "removing"}
    PROVE  Pair(h) \in Users \X Posts
  BY DiscussionAssumption DEF DiscInv, Session, Pair, Handlers

-----------------------------------------------------------------------------
(* One lemma per operation. *)

LEMMA WriteCommentStep == ASSUME DiscInv, NEW h \in Talkers, WriteComment(h) PROVE DiscInv'
<1>1. PICK p \in Posts \ hidden, q \in Ids \cup {NoParent}, t \in Texts :
        /\ new' = [new EXCEPT ![h] = Comment(h, p, q, t)]
        /\ pc' = [pc EXCEPT ![h] = IF q = NoParent THEN "saving" ELSE "checking"]
  BY DEF WriteComment, Goto
<1>2. UNCHANGED <<hidden, comments, likes, target, copy, page, pressed>> /\ h \in Handlers
  BY DEF WriteComment, table, Handlers
<1>3. q \in Nat
  BY IdsAre DEF DiscInv, NoParent
<1>4. Comment(h, p, q, t) \in Rows /\ Comment(h, p, q, t).parent = q
  BY <1>2, <1>3, DiscussionAssumption DEF Comment, Rows
<1>5. /\ pc'[h] = IF q = NoParent THEN "saving" ELSE "checking"
      /\ new'[h] = Comment(h, p, q, t)
  BY <1>1, <1>2 DEF DiscInv, TypeOK
<1>6. TypeOK'
  BY <1>1, <1>2, <1>4 DEF DiscInv, TypeOK
<1>7. Session(h)'
  BY <1>2, <1>4, <1>5, DiscussionAssumption DEF Session, Rooted, Ids, NoParent
<1>8. \A g \in Handlers \ {h} : pc'[g] = pc[g] /\ new'[g] = new[g]
  BY <1>1 DEF DiscInv, TypeOK
<1> QED
  BY <1>2, <1>6, <1>7, <1>8, QuietKeeps

LEMMA CheckParentStep == ASSUME DiscInv, NEW h \in Talkers, CheckParent(h) PROVE DiscInv'
<1>1. UNCHANGED <<hidden, comments, likes, pressed>> /\ h \in Handlers /\ pc[h] = "checking"
  BY DEF CheckParent, table, Handlers
<1>2. CASE MayAnswer(new[h].parent, new[h].post)
  <2>1. pc' = [pc EXCEPT ![h] = "saving"] /\ UNCHANGED <<target, copy, new, page>>
    BY <1>2 DEF CheckParent, Goto, session
  <2>2. new[h] \in Rows /\ new[h].parent \in Ids \cup {NoParent}
    BY <1>1 DEF DiscInv, Session
  <2>3. Rooted(new[h])
    BY <1>2, <2>2 DEF Rooted, MayAnswer
  <2>4. pc'[h] = "saving" /\ \A g \in Handlers \ {h} : pc'[g] = pc[g]
    BY <1>1, <2>1 DEF DiscInv, TypeOK
  <2>5. TypeOK'
    BY <1>1, <2>1 DEF DiscInv, TypeOK
  <2>6. Session(h)'
    BY <1>1, <2>1, <2>2, <2>3, <2>4, DiscussionAssumption DEF Session, Rooted, Ids
  <2> QED
    BY <1>1, <2>1, <2>4, <2>5, <2>6, QuietKeeps
<1>3. CASE ~MayAnswer(new[h].parent, new[h].post)
  <2>1. Finish(h)
    BY <1>3 DEF CheckParent
  <2>2. TypeOK'
    BY <1>1, <2>1, FinishType DEF DiscInv, TypeOK
  <2> QED
    BY <1>1, <2>1, <2>2, FinishType, QuietKeeps DEF DiscInv
<1> QED
  BY <1>2, <1>3

LEMMA SaveStep == ASSUME DiscInv, NEW h \in Talkers, Save(h) PROVE DiscInv'
<1>1. /\ UNCHANGED <<hidden, likes, target, copy, new, page, pressed>> /\ h \in Handlers
      /\ pc[h] = "saving" /\ pc' = [pc EXCEPT ![h] = "rereading"]
  BY DEF Save, session, Goto, Handlers
<1>2. /\ comments' \in Seq(Rows) /\ Grows
      /\ \A c \in Ids : comments'[c] = comments[c]
      /\ Ids' = Ids \cup {Len(comments) + 1}
      /\ comments'[Len(comments) + 1] = new[h]
  BY GrownSave
<1>3. pc'[h] = "rereading" /\ \A g \in Handlers \ {h} : pc'[g] = pc[g]
  BY <1>1 DEF DiscInv, TypeOK
<1>4. TypeOK'
  BY <1>1, <1>2 DEF DiscInv, TypeOK
<1>5. Session(h)'
  BY <1>1, <1>3, DiscussionAssumption DEF DiscInv, Session, Handlers
<1>6. ASSUME NEW g \in Handlers, g # h PROVE Session(g)'
  BY <1>1, <1>2, <1>3, <1>6, SessionStays
<1>7. Rooted(new[h]) /\ \A c \in Ids : Rooted(comments[c])
  BY <1>1 DEF DiscInv, Session, DepthOne
<1>8. DepthOne'
  BY <1>2, <1>7 DEF DepthOne, Rooted, Grows
<1> QED
  BY <1>4, <1>5, <1>6, <1>8 DEF DiscInv

LEMMA ReadOwnStep ==
    ASSUME DiscInv, NEW h \in Talkers, NEW c \in Ids, NEW row \in Rows, ReadOwn(h, c, row)
    PROVE  DiscInv'
<1>1. /\ UNCHANGED <<hidden, comments, likes, page, pressed>> /\ h \in Handlers
      /\ pc' = [pc EXCEPT ![h] = "writing"] /\ target' = [target EXCEPT ![h] = c]
      /\ copy' = [copy EXCEPT ![h] = comments[c]] /\ new' = [new EXCEPT ![h] = row]
      /\ ~comments[c].deleted /\ comments[c].author = UserOf[h]
  BY DEF ReadOwn, table, Goto, Handlers
<1>2. c \in Nat /\ comments[c] \in Rows
  BY IdsAre DEF DiscInv, TypeOK, Ids
<1>3. pc'[h] = "writing" /\ target'[h] = c /\ copy'[h] = comments[c] /\ new'[h] = row
  BY <1>1 DEF DiscInv, TypeOK
<1>4. TypeOK'
  BY <1>1, <1>2 DEF DiscInv, TypeOK
<1>5. Session(h)'
  BY <1>1, <1>2, <1>3, DiscussionAssumption DEF Session, Ids
<1>6. \A g \in Handlers \ {h} : /\ pc'[g] = pc[g] /\ target'[g] = target[g]
                                /\ copy'[g] = copy[g] /\ new'[g] = new[g]
  BY <1>1 DEF DiscInv, TypeOK
<1> QED
  BY <1>1, <1>4, <1>5, <1>6, QuietKeeps

LEMMA UpdateStep == ASSUME DiscInv, NEW h \in Talkers, Update(h) PROVE DiscInv'
<1>1. UNCHANGED <<hidden, likes, pressed>> /\ h \in Handlers /\ Finish(h)
  BY DEF Update, Handlers
<1>2. comments' \in Seq(Rows) /\ Grows /\ Ids' = Ids
  BY GrownUpdate
<1>3. TypeOK'
  BY <1>1, <1>2, FinishType DEF DiscInv, TypeOK
<1>4. ASSUME NEW g \in Handlers PROVE Session(g)'
  BY <1>1, <1>2, FinishType, SessionStays DEF DiscInv
<1>5. DepthOne'
  BY <1>2 DEF DiscInv, DepthOne, Rooted, Grows
<1> QED
  BY <1>3, <1>4, <1>5 DEF DiscInv

LEMMA ClosingStep ==
    ASSUME DiscInv, NEW h \in Handlers, Finish(h), UNCHANGED <<hidden, comments>>,
           likes' \in SUBSET (Users \X Posts), pressed' \in SUBSET (Users \X Posts)
    PROVE  DiscInv'
<1>1. TypeOK'
  BY FinishType DEF DiscInv, TypeOK
<1> QED
  BY <1>1, FinishType, QuietKeeps DEF DiscInv

LEMMA LikeStep ==
    ASSUME DiscInv, NEW h \in Likers, Toggle(h) \/ Look(h) \/ Add(h) \/ Remove(h)
    PROVE  DiscInv'
<1>h. h \in Handlers
  BY DEF Handlers
<1>1. CASE Toggle(h)
  <2>1. PICK p \in Posts : page' = [page EXCEPT ![h] = p]
    BY <1>1 DEF Toggle
  <2>2. /\ pc' = [pc EXCEPT ![h] = "looking"]
        /\ UNCHANGED <<hidden, comments, likes, target, copy, new, pressed>>
    BY <1>1 DEF Toggle, Goto, table, session
  <2>3. pc'[h] = "looking" /\ page'[h] = p
    BY <1>h, <2>1, <2>2 DEF DiscInv, TypeOK
  <2>4. TypeOK'
    BY <2>1, <2>2 DEF DiscInv, TypeOK
  <2>5. Session(h)'
    BY <2>3 DEF Session
  <2>6. \A g \in Handlers \ {h} : pc'[g] = pc[g] /\ page'[g] = page[g]
    BY <2>1, <2>2 DEF DiscInv, TypeOK
  <2> QED
    BY <1>h, <2>2, <2>4, <2>5, <2>6, QuietKeeps
<1>2. CASE Look(h)
  <2>1. /\ pc' = [pc EXCEPT ![h] = IF Pair(h) \in likes THEN "removing" ELSE "adding"]
        /\ UNCHANGED <<hidden, comments, likes, target, copy, new, page, pressed>>
    BY <1>2 DEF Look, Goto, table, session
  <2>2. pc'[h] \in {"removing", "adding"} /\ \A g \in Handlers \ {h} : pc'[g] = pc[g]
    BY <1>h, <2>1 DEF DiscInv, TypeOK
  <2>3. page[h] \in Posts
    BY <1>h, <1>2 DEF DiscInv, Session, Look
  <2>4. TypeOK'
    BY <2>1 DEF DiscInv, TypeOK
  <2>5. Session(h)'
    BY <2>1, <2>2, <2>3 DEF Session
  <2> QED
    BY <1>h, <2>1, <2>2, <2>4, <2>5, QuietKeeps
<1>3. CASE Add(h) \/ Remove(h)
  <2>1. Finish(h) /\ UNCHANGED <<hidden, comments>>
    BY <1>3 DEF Add, Remove
  <2>2. Pair(h) \in Users \X Posts
    BY <1>3, PairType DEF Add, Remove
  <2>3. /\ likes' \in SUBSET (Users \X Posts)
        /\ pressed' \in SUBSET (Users \X Posts)
    BY <1>3, <2>2 DEF Add, Remove, Press, Removed, DiscInv, TypeOK
  <2> QED
    BY <1>h, <2>1, <2>3, ClosingStep
<1> QED
  BY <1>1, <1>2, <1>3

LEMMA DiscStep == DiscInv /\ [Next]_vars => DiscInv'
<1> SUFFICES ASSUME DiscInv, [Next]_vars PROVE DiscInv'
  OBVIOUS
<1>1. CASE UNCHANGED vars
  BY <1>1 DEF vars, table, session, DiscInv, TypeOK, DepthOne, Session, Rooted, Ids
<1>2. ASSUME NEW h \in Talkers,
             WriteComment(h) \/ CheckParent(h) \/ Save(h) \/ Update(h)
      PROVE  DiscInv'
  BY <1>2, WriteCommentStep, CheckParentStep, SaveStep, UpdateStep
<1>3. ASSUME NEW h \in Talkers, Reread(h) PROVE DiscInv'
  BY <1>3, ClosingStep DEF Reread, table, Handlers, DiscInv, TypeOK
<1>4. ASSUME NEW h \in Talkers, NEW c \in Ids, EditComment(h, c) \/ DeleteComment(h, c)
      PROVE  DiscInv'
  <2>1. comments[c] \in Rows
    BY DEF DiscInv, TypeOK, Ids
  <2>2. CASE EditComment(h, c)
    <3>1. PICK t \in Texts : ReadOwn(h, c, [comments[c] EXCEPT !.contents = t])
      BY <2>2 DEF EditComment
    <3>2. [comments[c] EXCEPT !.contents = t] \in Rows
      BY <2>1 DEF Rows
    <3> QED
      BY <3>1, <3>2, ReadOwnStep
  <2>3. CASE DeleteComment(h, c)
    <3>1. [comments[c] EXCEPT !.deleted = TRUE] \in Rows
      BY <2>1 DEF Rows
    <3> QED
      BY <2>3, <3>1, ReadOwnStep DEF DeleteComment
  <2> QED
    BY <1>4, <2>2, <2>3
<1>5. ASSUME NEW h \in Likers, Toggle(h) \/ Look(h) \/ Add(h) \/ Remove(h) PROVE DiscInv'
  BY <1>5, LikeStep
<1>6. ASSUME NEW h \in Handlers, WriteFails(h) PROVE DiscInv'
  BY <1>6, ClosingStep DEF WriteFails, table, DiscInv, TypeOK
<1>7. ASSUME NEW p \in Posts, DeletePost(p) \/ RestorePost(p) PROVE DiscInv'
  BY <1>7 DEF DeletePost, RestorePost, session, DiscInv, TypeOK, DepthOne, Session, Rooted, Ids
<1> QED
  BY <1>1, <1>2, <1>3, <1>4, <1>5, <1>6, <1>7 DEF Next, TalkerStep, LikerStep

LEMMA DiscInvariant == Spec => []DiscInv
  BY InitDisc, DiscStep, PTL DEF Spec

(* Comments, likes and sessions are well formed (comment.py, post.py:311-330):
   in particular a like is a pair of a user and a post, in that order. *)
THEOREM DiscussionTyped == Spec => []TypeOK
<1>1. DiscInv => TypeOK
  BY DEF DiscInv
<1> QED
  BY <1>1, DiscInvariant, PTL

(* Every shown answer is shown with its parent (comment.py:60-68,
   service/comment.py:15-31), on every page, for any number of comments,
   authors and concurrent requests. *)
THEOREM AnswersAlwaysHaveParents == Spec => []AnswersShownWithParent
<1>1. DiscInv => AnswersShownWithParent
  <2> SUFFICES ASSUME DiscInv, NEW p \in Posts, NEW c \in Visible(p),
                      comments[c].parent # NoParent
               PROVE  comments[c].parent \in Visible(p)
    BY DEF AnswersShownWithParent
  <2> DEFINE q == comments[c].parent
  <2>1. c \in Ids /\ comments[c].post = p /\ ~comments[c].deleted
    BY DEF Visible, Thread
  <2>2. q \in Ids /\ comments[q].post = p /\ comments[q].parent = NoParent
    BY <2>1 DEF DiscInv, DepthOne, Rooted
  <2>3. q \in ParentsInUse(p)
    BY <2>1 DEF ParentsInUse, Thread
  <2> QED
    BY <2>2, <2>3 DEF Visible, Thread
<1> QED
  BY <1>1, DiscInvariant, PTL

(* A comment never moves, changes only by its author's requests, and once
   deleted stays deleted, although updates start from stale copies
   (comment.py:84-120, repository.py:227-231). *)
THEOREM CommentsOnlyByAuthors == Spec => DeletedCommentsStay
<1>1. DiscInv /\ [Next]_vars => [CommentStep]_vars
  <2> SUFFICES ASSUME DiscInv, Next PROVE CommentStep
    OBVIOUS
  <2>1. CASE \A c \in Ids : comments'[c] = comments[c]
    BY <2>1 DEF CommentStep
  <2>2. ASSUME NEW h \in Talkers, Update(h) PROVE CommentStep
    <3>1. /\ Grows
          /\ \A c \in Ids : c # target[h] => comments'[c] = comments[c]
          /\ comments'[target[h]] = Written(comments[target[h]], copy[h], new[h])
      BY <2>2, GrownUpdate
    <3>2. /\ pc[h] = "writing" /\ target[h] \in Ids /\ copy[h] \in Rows /\ new[h] \in Rows
          /\ comments[target[h]].author = UserOf[h] /\ comments[target[h]] \in Rows
          /\ ~copy[h].deleted
      BY <2>2 DEF DiscInv, Session, Update, Handlers, TypeOK, Ids
    <3>3. pc'[h] = "idle"
      BY <2>2 DEF Update, Finish, Goto, DiscInv, TypeOK, Handlers
    <3>4. comments[target[h]].deleted => comments'[target[h]].deleted
      <4>1. comments'[target[h]].deleted =
              Column(comments[target[h]].deleted, copy[h].deleted, new[h].deleted)
        BY <3>1 DEF Written
      <4>2. new[h].deleted \in BOOLEAN /\ comments[target[h]].deleted \in BOOLEAN
        BY <3>2 DEF Rows
      <4>3. copy[h].deleted \in BOOLEAN
        BY <3>2 DEF Rows
      <4>4. ~copy[h].deleted
        BY <3>2
      <4>5. copy[h].deleted = FALSE
        BY <4>3, <4>4
      <4> QED
        BY <4>1, <4>2, <4>5, Zenon DEF Column
    <3>5. ASSUME NEW c \in Ids, comments[c].deleted PROVE comments'[c].deleted
      BY <3>1, <3>4, <3>5
    <3>6. ASSUME NEW c \in Ids, comments'[c] # comments[c]
          PROVE  Serves(h, c) /\ UserOf[h] = comments[c].author
      BY <3>1, <3>2, <3>3, <3>6 DEF Serves
    <3> QED
      BY <3>1, <3>5, <3>6 DEF CommentStep, Grows
  <2>3. ASSUME NEW h \in Talkers, Save(h) PROVE \A c \in Ids : comments'[c] = comments[c]
    BY <2>3, GrownSave
  <2>4. CASE UNCHANGED comments
    BY <2>1, <2>4
  <2>5. ASSUME NEW h \in Talkers,
               WriteComment(h) \/ CheckParent(h) \/ Reread(h) \/
               \E c \in Ids : EditComment(h, c) \/ DeleteComment(h, c)
        PROVE  UNCHANGED comments
    BY <2>5 DEF WriteComment, CheckParent, Reread, EditComment, DeleteComment, ReadOwn, table
  <2>6. ASSUME NEW h \in Likers, Toggle(h) \/ Look(h) \/ Add(h) \/ Remove(h)
        PROVE  UNCHANGED comments
    BY <2>6 DEF Toggle, Look, Add, Remove, table
  <2>7. ASSUME NEW h \in Handlers, WriteFails(h) PROVE UNCHANGED comments
    BY <2>7 DEF WriteFails, table
  <2>8. ASSUME NEW p \in Posts, DeletePost(p) \/ RestorePost(p) PROVE UNCHANGED comments
    BY <2>8 DEF DeletePost, RestorePost
  <2> QED
    BY <2>1, <2>2, <2>3, <2>4, <2>5, <2>6, <2>7, <2>8 DEF Next, TalkerStep, LikerStep
<1> QED
  BY <1>1, DiscInvariant, PTL DEF Spec, DeletedCommentsStay

-----------------------------------------------------------------------------
(* What a handler saw of its own like stays true until it acts on it, when its
   user has no other request. *)
LikeInv ==
    /\ DiscInv
    /\ likes = pressed
    /\ \A h \in Likers : /\ pc[h] = "adding" => Pair(h) \notin likes
                         /\ pc[h] = "removing" => Pair(h) \in likes

LEMMA LikeInvStep ==
    ASSUME \A g, h \in Likers : UserOf[g] = UserOf[h] => g = h,
           LikeInv, [Next]_vars
    PROVE  LikeInv'
<1>d. DiscInv /\ DiscInv'
  BY DiscStep DEF LikeInv
<1>o. ASSUME NEW g \in Likers, NEW h \in Likers, g # h
      PROVE  Pair(g) # Pair(h)
  BY <1>o DEF Pair
<1>1. ASSUME UNCHANGED <<likes, pressed>>,
             \A h \in Likers : pc'[h] \in {"adding", "removing"} =>
                                  pc'[h] = pc[h] /\ page'[h] = page[h]
      PROVE  LikeInv'
  BY <1>1, <1>d DEF LikeInv, Pair
<1>2. ASSUME NEW h \in Handlers, Finish(h), UNCHANGED <<likes, pressed>> PROVE LikeInv'
  <2>1. \A g \in Likers : pc'[g] \in {"adding", "removing"} =>
                              pc'[g] = pc[g] /\ page'[g] = page[g]
    BY <1>2, <1>d DEF Finish, Goto, DiscInv, TypeOK, Handlers
  <2> QED
    BY <1>1, <1>2, <2>1
<1>3. ASSUME NEW h \in Handlers, NEW s, s \notin {"adding", "removing"}, pc' = [pc EXCEPT ![h] = s],
             UNCHANGED <<likes, pressed>>, \A g \in Handlers \ {h} : page'[g] = page[g]
      PROVE  LikeInv'
  <2>1. \A g \in Likers : pc'[g] \in {"adding", "removing"} =>
                              pc'[g] = pc[g] /\ page'[g] = page[g]
    BY <1>3, <1>d DEF DiscInv, TypeOK, Handlers
  <2> QED
    BY <1>1, <1>3, <2>1
<1>4. CASE UNCHANGED vars
  BY <1>1, <1>4 DEF vars, table
<1>5. ASSUME NEW h \in Talkers,
             \/ WriteComment(h) \/ CheckParent(h) \/ Save(h) \/ Reread(h)
             \/ \E c \in Ids : EditComment(h, c) \/ DeleteComment(h, c)
             \/ Update(h)
      PROVE  LikeInv'
  <2>h. h \in Handlers
    BY DEF Handlers
  <2>1. CASE WriteComment(h)
    BY <1>3, <2>h, <2>1 DEF WriteComment, Goto, table
  <2>2. CASE CheckParent(h)
    BY <1>2, <1>3, <2>h, <2>2 DEF CheckParent, Goto, table
  <2>3. CASE Save(h)
    BY <1>3, <2>h, <2>3 DEF Save, Goto
  <2>4. CASE Reread(h) \/ Update(h)
    BY <1>2, <2>h, <2>4 DEF Reread, Update, table
  <2>5. CASE \E c \in Ids : EditComment(h, c) \/ DeleteComment(h, c)
    BY <1>3, <2>h, <2>5 DEF EditComment, DeleteComment, ReadOwn, Goto, table
  <2> QED
    BY <1>5, <2>1, <2>2, <2>3, <2>4, <2>5
<1>6. ASSUME NEW h \in Likers, Toggle(h) PROVE LikeInv'
  <2>1. \A g \in Handlers \ {h} : page'[g] = page[g]
    BY <1>6 DEF Toggle, LikeInv, DiscInv, TypeOK
  <2> QED
    BY <1>3, <1>6, <2>1 DEF Toggle, Goto, table, Handlers
<1>7. ASSUME NEW h \in Likers, Look(h) PROVE LikeInv'
  <2>1. /\ pc' = [pc EXCEPT ![h] = IF Pair(h) \in likes THEN "removing" ELSE "adding"]
        /\ UNCHANGED <<likes, page, pressed>> /\ h \in Handlers
    BY <1>7 DEF Look, Goto, table, Handlers
  <2>2. /\ pc'[h] = IF Pair(h) \in likes THEN "removing" ELSE "adding"
        /\ \A g \in Handlers \ {h} : pc'[g] = pc[g]
    BY <2>1, <1>d DEF DiscInv, TypeOK
  <2> QED
    BY <1>d, <2>1, <2>2 DEF LikeInv, Pair, Handlers
<1>8. ASSUME NEW h \in Likers, Add(h) \/ Remove(h) PROVE LikeInv'
  <2>1. /\ pc[h] \in {"adding", "removing"} /\ Finish(h) /\ h \in Handlers
        /\ pc[h] = "adding" => Pair(h) \notin likes
        /\ pc[h] = "removing" => Pair(h) \in likes
        /\ likes = pressed
    BY <1>8 DEF Add, Remove, LikeInv, Handlers
  <2>2. likes' = pressed'
    BY <1>8, <2>1 DEF Add, Remove, Press, Removed
  <2>3. pc'[h] = "idle" /\ \A g \in Handlers \ {h} : pc'[g] = pc[g] /\ page'[g] = page[g]
    BY <2>1, <1>d DEF Finish, Goto, DiscInv, TypeOK
  <2>4. \A l : l # Pair(h) => (l \in likes' <=> l \in likes)
    BY <1>8 DEF Add, Remove, Removed
  <2>5. ASSUME NEW g \in Likers, g # h
        PROVE  /\ pc'[g] = "adding" => Pair(g)' \notin likes'
               /\ pc'[g] = "removing" => Pair(g)' \in likes'
    <3>1. pc'[g] = pc[g] /\ Pair(g)' = Pair(g)
      BY <2>3, <2>5 DEF Pair, Handlers
    <3>2. Pair(g) # Pair(h)
      BY <1>o, <2>5
    <3>3. /\ pc[g] = "adding" => Pair(g) \notin likes
          /\ pc[g] = "removing" => Pair(g) \in likes
      BY DEF LikeInv
    <3> QED
      BY <3>1, <3>2, <3>3, <2>4
  <2>6. /\ pc'[h] = "adding" => Pair(h)' \notin likes'
        /\ pc'[h] = "removing" => Pair(h)' \in likes'
    BY <2>3
  <2> QED
    BY <1>d, <2>2, <2>5, <2>6 DEF LikeInv
<1>9. ASSUME NEW h \in Handlers, WriteFails(h) PROVE LikeInv'
  BY <1>2, <1>9 DEF WriteFails, table
<1>10. ASSUME NEW p \in Posts, DeletePost(p) \/ RestorePost(p) PROVE LikeInv'
  BY <1>1, <1>10 DEF DeletePost, RestorePost
<1> QED
  BY <1>4, <1>5, <1>6, <1>7, <1>8, <1>9, <1>10 DEF Next, TalkerStep, LikerStep

(* When no user has two like requests in progress, a like is there exactly when
   its user pressed the button an odd number of times (post.py:311-330), however
   many users press it. *)
THEOREM OneToggleEachKeepsCount ==
    ASSUME \A g, h \in Likers : UserOf[g] = UserOf[h] => g = h
    PROVE  Spec => []LikesFollowPresses
<1>1. Init => LikeInv
  BY InitDisc DEF Init, LikeInv, Handlers
<1>2. LikeInv /\ [Next]_vars => LikeInv'
  BY LikeInvStep
<1>3. LikeInv => LikesFollowPresses
  BY DEF LikeInv, LikesFollowPresses
<1> QED
  BY <1>1, <1>2, <1>3, PTL DEF Spec
=============================================================================
