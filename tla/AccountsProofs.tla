--------------------------- MODULE AccountsProofs ---------------------------
(* What holds of Accounts for every set of users, nicknames and files and any
   number of requests in progress. *)
EXTENDS Accounts, TLAPS

(* A step of one request changes its own job only. *)
OwnJob(h) == \A g \in Handlers \ {h} : job'[g] = job[g]

LEMMA StepsOwnJob ==
    ASSUME TypeOK, NEW h \in Handlers, Step(h)
    PROVE  /\ OwnJob(h)
           /\ job' = [job EXCEPT ![h] = job'[h]]
BY DEF TypeOK, OwnJob, Step, SignUp, EditProfile, LookUpNickname, InsertUser,
       UpdateProfile, StartFile, SaveFile, SaveRefused, AvatarStored,
       UploadStored, StoreFails, AvatarStoredRaises, UploadStoredRaises,
       RemoveFile, Crash, ReadUser, Goto, Finish, WriteFile

-----------------------------------------------------------------------------
(* An UPDATE leaves a nickname and a file name in the row. *)
LEMMA UpdateTyped ==
    ASSUME TypeOK, NEW h \in Handlers, ~ At(h, "idle"), Update(h)
    PROVE  /\ nickname' \in [Emails -> Nicknames \cup {None}]
           /\ avatar' \in [Emails -> Files \cup {None}]
           /\ job[h].who \in Emails
<1>1. job[h] \in Jobs /\ job[h].who \in Emails
  BY DEF TypeOK, Jobs
<1>2. NicknameWritten(h) \in Nicknames \cup {None}
  BY <1>1 DEF TypeOK, NicknameWritten, Jobs
<1>3. AvatarWritten(h) \in Files \cup {None}
  BY <1>1 DEF TypeOK, AvatarWritten, Jobs
<1> QED BY <1>1, <1>2, <1>3 DEF TypeOK, Update

(* The job of the request that moves, for each kind of step. *)
GoodJob(j) ==
    /\ j \in Jobs
    /\ j.stage # "idle" => j.who # None /\ j.wanted # None
    /\ j.stage \in {"avatar", "upload", "undo"} => j.new # None
    /\ j.stage = "cleanup" => j.previous # None

LEMMA JobsTyped ==
    ASSUME job \in [Handlers -> Jobs]
    PROVE  (\A h \in Handlers :
              /\ ~ At(h, "idle") => job[h].who # None /\ job[h].wanted # None
              /\ Held(h) \subseteq Files)
           <=> \A h \in Handlers : GoodJob(job[h])
BY AccountsAssumption DEF GoodJob, Jobs, At, Held, Unwanted

LEMMA StepsTypeJobs ==
    ASSUME TypeOK, NEW h \in Handlers, Step(h)
    PROVE  GoodJob(job'[h])
<1> USE AccountsAssumption DEF TypeOK, GoodJob, Jobs, Stages, At
<1>0. GoodJob(job[h]) /\ job[h] \in Jobs
  BY JobsTyped
<1>1. ASSUME NEW e \in Emails, NEW n \in Nicknames, NEW stage \in Stages,
             ReadUser(h, e, n, stage), stage \in {"lookup", "edit", "save_avatar", "save_upload"}
      PROVE  GoodJob(job'[h])
  <2>1. job'[h] = [stage |-> stage, who |-> e, read |-> nickname[e], wanted |-> n,
                   previous |-> avatar[e], new |-> None]
    BY <1>1 DEF ReadUser
  <2>2. nickname[e] \in Nicknames \cup {None} /\ avatar[e] \in Files \cup {None}
    OBVIOUS
  <2> QED BY <2>1, <2>2, <1>1
<1>2. CASE SignUp(h)
  BY <1>1, <1>2 DEF SignUp
<1>3. CASE EditProfile(h)
  BY <1>1, <1>3 DEF EditProfile
<1>4. CASE StartFile(h)
  <2>1. PICK e \in Emails, stage \in {"save_avatar", "save_upload"} :
          Registered(e) /\ ReadUser(h, e, nickname[e], stage)
    BY <1>4 DEF StartFile
  <2>2. nickname[e] \in Nicknames
    BY <2>1 DEF Registered
  <2> QED BY <2>1, <2>2, <1>1
<1>5. ASSUME Finish(h) PROVE GoodJob(job'[h])
  BY <1>5 DEF Finish, Idle
<1>6. ASSUME NEW stage \in Stages, Goto(h, stage), ~ At(h, "idle"),
             stage \in {"avatar", "upload", "undo"} => job[h].new # None,
             stage = "cleanup" => job[h].previous # None
      PROVE  GoodJob(job'[h])
  <2>1. job'[h] = [job[h] EXCEPT !.stage = stage]
    BY <1>6 DEF Goto
  <2> QED BY <1>0, <1>6, <2>1
<1>7. CASE LookUpNickname(h)
  <2>1. CASE Taken(job[h].wanted, job[h].who)
    BY <1>5, <1>7, <2>1 DEF LookUpNickname
  <2>2. CASE ~ Taken(job[h].wanted, job[h].who)
    <3>1. Goto(h, IF job[h].read = None THEN "insert" ELSE "edit")
      BY <1>7, <2>2 DEF LookUpNickname
    <3> QED BY <1>6, <1>7, <3>1 DEF LookUpNickname
  <2> QED BY <2>1, <2>2
<1>8. CASE SaveFile(h)
  BY <1>0, <1>8 DEF SaveFile, Saving
<1>9. CASE AvatarStored(h)
  BY <1>0, <1>5, <1>6, <1>9 DEF AvatarStored, CleanupNeeded
<1>10. CASE StoreFails(h) \/ AvatarStoredRaises(h) \/ UploadStoredRaises(h)
  BY <1>0, <1>6, <1>10 DEF StoreFails, AvatarStoredRaises, UploadStoredRaises
<1>11. CASE \/ InsertUser(h) \/ UpdateProfile(h) \/ SaveRefused(h)
           \/ UploadStored(h) \/ RemoveFile(h) \/ Crash(h)
  BY <1>5, <1>11 DEF InsertUser, UpdateProfile, SaveRefused, UploadStored, RemoveFile, Crash
<1> QED BY <1>2, <1>3, <1>4, <1>7, <1>8, <1>9, <1>10, <1>11 DEF Step

LEMMA StepsTypeRows ==
    ASSUME TypeOK, NEW h \in Handlers, Step(h)
    PROVE  /\ nickname' \in [Emails -> Nicknames \cup {None}]
           /\ avatar' \in [Emails -> Files \cup {None}]
<1>1. CASE UNCHANGED <<nickname, avatar>>
  BY <1>1 DEF TypeOK
<1>2. CASE ~ At(h, "idle") /\ Update(h)
  BY <1>2, UpdateTyped
<1> QED
  BY <1>1, <1>2
  DEF At, Step, SignUp, EditProfile, LookUpNickname, InsertUser, UpdateProfile,
      StartFile, SaveFile, SaveRefused, AvatarStored, UploadStored, StoreFails,
      AvatarStoredRaises, UploadStoredRaises, RemoveFile, Crash, rows

LEMMA StepsTypeFiles ==
    ASSUME TypeOK, NEW h \in Handlers, Step(h)
    PROVE  /\ uploads' \subseteq Files /\ files' \subseteq Files /\ used' \subseteq Files
           /\ crashed' \subseteq Files /\ stuck' \subseteq Files
           /\ overtaken' \subseteq Files /\ unacked' \subseteq Files
<1>1. job[h] \in Jobs /\ Held(h) \subseteq Files /\ GoodJob(job[h])
  BY JobsTyped DEF TypeOK
<1>2. ~ At(h, "idle") => job[h].who \in Emails
  BY <1>1 DEF GoodJob, Jobs, At
<1>3. CASE UNCHANGED <<uploads, files, used, history>>
  BY <1>3 DEF TypeOK, history
<1>4. CASE SaveFile(h) \/ RemoveFile(h) \/ UploadStored(h) \/ UploadStoredRaises(h)
  BY <1>1, <1>4
  DEF TypeOK, SaveFile, WriteFile, RemoveFile, UploadStored, UploadStoredRaises, GoodJob, Jobs, At,
      Held, rows, disk, history
<1>6. CASE Crash(h)
  BY <1>1, <1>6 DEF TypeOK, Crash, rows, disk
<1>5. CASE AvatarStored(h) \/ AvatarStoredRaises(h)
  <2>1. avatar[job[h].who] \in Files \cup {None} /\ job[h].new \in Files \cup {None}
    BY <1>1, <1>2, <1>5 DEF TypeOK, AvatarStored, AvatarStoredRaises, At, Jobs
  <2> QED BY <1>5, <2>1 DEF TypeOK, AvatarStored, AvatarStoredRaises, Update, disk
<1> QED
  BY <1>3, <1>4, <1>5, <1>6
  DEF Step, SignUp, EditProfile, LookUpNickname, InsertUser, UpdateProfile,
      StartFile, SaveRefused, StoreFails, Update, rows, disk

LEMMA TypeStep == TypeOK /\ [Next]_vars => TypeOK'
<1> SUFFICES ASSUME TypeOK, [Next]_vars PROVE TypeOK'
  OBVIOUS
<1>1. ASSUME NEW h \in Handlers, Step(h) PROVE TypeOK'
  <2>1. job' = [job EXCEPT ![h] = job'[h]] /\ OwnJob(h)
    BY <1>1, StepsOwnJob
  <2>2. GoodJob(job'[h]) /\ job'[h] \in Jobs
    BY <1>1, StepsTypeJobs DEF GoodJob
  <2>3. job' \in [Handlers -> Jobs]
    BY <2>1, <2>2 DEF TypeOK
  <2>4. \A g \in Handlers : GoodJob(job[g])
    BY JobsTyped DEF TypeOK
  <2>5. \A g \in Handlers : GoodJob(job'[g])
    BY <2>1, <2>2, <2>4 DEF OwnJob
  <2>6. \A g \in Handlers :
           /\ ~ At(g, "idle")' => job'[g].who # None /\ job'[g].wanted # None
           /\ Held(g)' \subseteq Files
    BY <2>3, <2>5, AccountsAssumption DEF GoodJob, Jobs, At, Held, Unwanted
  <2> QED BY <1>1, <2>3, <2>6, StepsTypeRows, StepsTypeFiles DEF TypeOK
<1>2. CASE UNCHANGED vars
  BY <1>2 DEF TypeOK, vars, rows, disk, history, At, Held, Unwanted
<1> QED BY <1>1, <1>2 DEF Next

LEMMA TypeInit == Init => TypeOK
BY DEF Init, TypeOK, Idle, Jobs, Stages, At, Held, Unwanted

(* Every variable holds values of its kind, and a request that has a file to
   name or to remove has its name. *)
THEOREM AccountsTyped == Spec => []TypeOK
BY TypeInit, TypeStep, PTL DEF Spec
-----------------------------------------------------------------------------
(* Nicknames.  The constraint keeps them apart, accounts stay, and a handler
   that updates has read a nickname. *)
NicknamesUnique ==
    \A e, f \in Emails : nickname[e] = nickname[f] /\ nickname[e] # None => e = f
ReadersRegistered ==
    \A h \in Handlers :
      /\ job[h].read # None => job[h].who # None /\ nickname[job[h].who] # None
      /\ job[h].stage \in {"edit", "save_avatar", "avatar"} => job[h].read # None
NicknameInv == TypeOK /\ NicknamesUnique /\ ReadersRegistered

LEMMA NicknamesStep ==
    ASSUME TypeOK, NicknamesUnique, NEW h \in Handlers, Step(h)
    PROVE  /\ NicknamesUnique'
           /\ \A e \in Emails : nickname[e] # None => nickname'[e] # None
<1>1. CASE UNCHANGED nickname
  BY <1>1 DEF NicknamesUnique
<1>2. CASE ~ At(h, "idle") /\ Update(h)
  <2>1. job[h].who \in Emails /\ job[h].wanted # None
    BY <1>2, UpdateTyped DEF TypeOK
  <2>2. \A e \in Emails \ {job[h].who} : nickname[e] # NicknameWritten(h)
    BY <1>2 DEF Update, Refused, Taken
  <2>3. nickname' = [nickname EXCEPT ![job[h].who] = NicknameWritten(h)]
    BY <1>2 DEF Update
  <2>4. nickname[job[h].who] # None => NicknameWritten(h) # None
    BY <2>1 DEF NicknameWritten
  <2> QED BY <2>1, <2>2, <2>3, <2>4 DEF NicknamesUnique, TypeOK
<1> QED
  BY <1>1, <1>2
  DEF At, Step, SignUp, EditProfile, LookUpNickname, InsertUser, UpdateProfile,
      StartFile, SaveFile, SaveRefused, AvatarStored, UploadStored, StoreFails,
      AvatarStoredRaises, UploadStoredRaises, RemoveFile, Crash, rows

LEMMA ReadersStep ==
    ASSUME NicknameInv, NEW h \in Handlers, Step(h)
    PROVE  ReadersRegistered'
<1> USE DEF NicknameInv
<1>1. job' = [job EXCEPT ![h] = job'[h]] /\ OwnJob(h)
  BY StepsOwnJob
<1>2. \A e \in Emails : nickname[e] # None => nickname'[e] # None
  BY NicknamesStep
<1>3. \A g \in Handlers : job[g].read # None => job[g].who \in Emails
  BY DEF TypeOK, Jobs, ReadersRegistered, At, Held, Unwanted
<1>4. CASE job'[h] = Idle
  BY <1>1, <1>2, <1>3, <1>4 DEF ReadersRegistered, OwnJob, Idle
<1>5. CASE /\ job'[h].read = job[h].read /\ job'[h].who = job[h].who
           /\ job'[h].stage \in {"edit", "save_avatar", "avatar"} => job[h].read # None
  BY <1>1, <1>2, <1>3, <1>5 DEF ReadersRegistered, OwnJob
<1>6. ASSUME NEW e \in Emails, job'[h].who = e, job'[h].read = nickname[e],
             job'[h].stage = "lookup" \/ nickname[e] # None
      PROVE  ReadersRegistered'
  BY <1>1, <1>2, <1>3, <1>6, AccountsAssumption DEF ReadersRegistered, OwnJob
<1>7. CASE SignUp(h) \/ EditProfile(h) \/ StartFile(h)
  <2>1. PICK e \in Emails, n \in Nicknames, stage \in Stages :
          /\ ReadUser(h, e, n, stage)
          /\ stage = "lookup" \/ nickname[e] # None
    <3>1. CASE SignUp(h)
      BY <3>1 DEF SignUp, Stages
    <3>2. CASE EditProfile(h)
      BY <3>2 DEF EditProfile, Registered, Stages
    <3>3. CASE StartFile(h)
      BY <3>3 DEF StartFile, Registered, Stages, TypeOK
    <3> QED BY <1>7, <3>1, <3>2, <3>3
  <2>2. job'[h] = [stage |-> stage, who |-> e, read |-> nickname[e], wanted |-> n,
                   previous |-> avatar[e], new |-> None]
    BY <2>1 DEF ReadUser, TypeOK
  <2> QED BY <1>6, <2>1, <2>2
<1>8. CASE Finish(h)
  BY <1>4, <1>8 DEF Finish, TypeOK
<1>9. CASE SaveFile(h)
  BY <1>5, <1>9 DEF SaveFile, Saving, At, TypeOK, Jobs, ReadersRegistered
<1>10. ASSUME NEW stage \in Stages, Goto(h, stage),
              stage \in {"edit", "save_avatar", "avatar"} => job[h].read # None
       PROVE  ReadersRegistered'
  BY <1>5, <1>10 DEF Goto, TypeOK, Jobs
<1>11. CASE LookUpNickname(h)
  <2>1. CASE Taken(job[h].wanted, job[h].who)
    BY <1>8, <1>11, <2>1 DEF LookUpNickname
  <2>2. CASE ~ Taken(job[h].wanted, job[h].who)
    <3>1. Goto(h, IF job[h].read = None THEN "insert" ELSE "edit")
      BY <1>11, <2>2 DEF LookUpNickname
    <3> QED BY <1>10, <3>1 DEF Stages
  <2> QED BY <2>1, <2>2
<1>12. CASE AvatarStored(h) \/ StoreFails(h) \/ AvatarStoredRaises(h) \/ UploadStoredRaises(h)
  BY <1>8, <1>10, <1>12
  DEF AvatarStored, StoreFails, AvatarStoredRaises, UploadStoredRaises, Stages
<1> QED
  BY <1>7, <1>8, <1>9, <1>11, <1>12
  DEF Step, InsertUser, UpdateProfile, SaveRefused, UploadStored, RemoveFile, Crash

LEMMA NicknameStep == NicknameInv /\ [Next]_vars => NicknameInv'
<1> SUFFICES ASSUME NicknameInv, [Next]_vars PROVE NicknameInv'
  OBVIOUS
<1>1. TypeOK'
  BY TypeStep DEF NicknameInv
<1>2. ASSUME NEW h \in Handlers, Step(h) PROVE NicknameInv'
  BY <1>1, <1>2, NicknamesStep, ReadersStep DEF NicknameInv
<1>3. CASE UNCHANGED vars
  BY <1>1, <1>3 DEF NicknameInv, NicknamesUnique, ReadersRegistered, vars, rows
<1> QED BY <1>2, <1>3 DEF Next

LEMMA NicknameInit == Init => NicknameInv
BY TypeInit DEF Init, NicknameInv, NicknamesUnique, ReadersRegistered, Idle

LEMMA RenamesOnly == NicknameInv => OnlyRenamesAreRefused
<1> SUFFICES ASSUME NicknameInv, NEW h \in Handlers, At(h, "edit") \/ At(h, "avatar"),
                    ~ Renames(h), Refused(h)
             PROVE  FALSE
  BY DEF OnlyRenamesAreRefused
<1>1. job[h].who \in Emails /\ nickname[job[h].who] # None
  BY DEF NicknameInv, TypeOK, Jobs, ReadersRegistered, At
<1>2. PICK e \in Emails \ {job[h].who} : nickname[e] = nickname[job[h].who]
  BY DEF Refused, Taken, NicknameWritten
<1> QED BY <1>1, <1>2 DEF NicknameInv, NicknamesUnique

(* An UPDATE that does not rename is never refused by the unique constraint,
   whatever copy of the row its handler has read. *)
THEOREM RefusalsAreRenames == Spec => []OnlyRenamesAreRefused
BY NicknameInit, NicknameStep, RenamesOnly, PTL DEF Spec
-----------------------------------------------------------------------------
(* Files.  A name is used once, so a file that waits for its row is named by
   no row and no copy; an avatar and the copies of it belong to one user; what
   a request is to remove is named by no row, unless its commit raised. *)
NamesUsed ==
    /\ files \subseteq used /\ uploads \subseteq used
    /\ \A e \in Emails : avatar[e] # None => avatar[e] \in used
    /\ \A h \in Handlers :
         /\ job[h].new # None => job[h].new \in used
         /\ job[h].previous # None => job[h].previous \in used
NewApart ==
    \A h \in Handlers : job[h].new # None =>
      /\ job[h].stage \in {"avatar", "upload", "undo", "cleanup"}
      /\ \A g \in Handlers : job[g].new = job[h].new => g = h
NewUnnamed ==
    \A h \in Handlers : job[h].stage \in {"avatar", "upload"} =>
      /\ job[h].new \in files
      /\ job[h].new \notin uploads
      /\ \A e \in Emails : avatar[e] # job[h].new
      /\ \A g \in Handlers : job[g].previous # job[h].new
AvatarsApart ==
    /\ \A e \in Emails : avatar[e] # None =>
         /\ avatar[e] \notin uploads
         /\ \A d \in Emails : avatar[d] = avatar[e] => d = e
    /\ \A h \in Handlers : job[h].previous # None =>
         /\ job[h].previous \notin uploads
         /\ \A e \in Emails : avatar[e] = job[h].previous => e = job[h].who
Named(f) == f \in uploads \/ \E e \in Emails : avatar[e] = f
RemovalsSafe ==
    \A h \in Handlers :
      /\ job[h].stage = "undo" /\ Named(job[h].new) => job[h].new \in unacked
      /\ job[h].stage = "cleanup" => ~ Named(job[h].previous)
NamedExist ==
    \A f \in Files : Named(f) => f \in files \cup unacked
FilesInv ==
    /\ TypeOK /\ NamesUsed /\ NewApart /\ NewUnnamed /\ AvatarsApart
    /\ RemovalsSafe /\ NamedExist

(* A job that reads, or goes on, with no file written or named. *)
LEMMA FilesKept ==
    ASSUME FilesInv, TypeOK', NEW h \in Handlers, OwnJob(h),
           UNCHANGED <<avatar, uploads, files, used, unacked>>,
           \/ job'[h] = Idle
           \/ /\ job'[h].new = job[h].new /\ job'[h].previous = job[h].previous
              /\ job'[h].who = job[h].who
              /\ \/ job'[h].stage \notin {"avatar", "upload", "undo", "cleanup"} /\ job[h].new = None
                 \/ job'[h].stage = "undo" /\ job[h].stage \in {"avatar", "upload"}
           \/ /\ job'[h].new = None
              /\ job'[h].stage \notin {"avatar", "upload", "undo", "cleanup"}
              /\ job'[h].who \in Emails /\ job'[h].previous = avatar[job'[h].who]
    PROVE  FilesInv'
<1> USE DEF FilesInv, OwnJob, Idle
<1>1. NamesUsed'
  BY DEF NamesUsed
<1>2. NewApart'
  BY DEF NewApart
<1>3. NewUnnamed'
  BY AccountsAssumption DEF NewUnnamed, TypeOK
<1>4. AvatarsApart'
  BY DEF AvatarsApart
<1>5. RemovalsSafe'
  BY DEF RemovalsSafe, NewUnnamed, Named
<1>6. NamedExist'
  BY DEF NamedExist, Named
<1> QED BY <1>1, <1>2, <1>3, <1>4, <1>5, <1>6
(* A handler that has no file writes the avatar that is there. *)
LEMMA UpdateKeepsAvatar ==
    ASSUME TypeOK, NewApart, NEW h \in Handlers,
           job[h].stage \in {"insert", "edit"}, Update(h)
    PROVE  UNCHANGED <<avatar, uploads>>
<1>1. job[h].new = None
  BY DEF NewApart
<1> QED BY <1>1 DEF Update, AvatarWritten, TypeOK

LEMMA QuietFilesStep ==
    ASSUME FilesInv, TypeOK', NEW h \in Handlers, Step(h),
           ~ \/ SaveFile(h) \/ AvatarStored(h) \/ UploadStored(h)
             \/ AvatarStoredRaises(h) \/ UploadStoredRaises(h) \/ RemoveFile(h)
    PROVE  FilesInv'
<1> USE DEF At, rows, disk, history
<1>1. OwnJob(h) /\ TypeOK /\ NewApart
  BY StepsOwnJob DEF FilesInv
<1>2. CASE SignUp(h) \/ EditProfile(h) \/ StartFile(h)
  <2>1. PICK e \in Emails, n \in Nicknames \cup {None},
             stage \in {"lookup", "edit", "save_avatar", "save_upload"} :
          ReadUser(h, e, n, stage)
    <3>1. CASE SignUp(h)
      BY <3>1 DEF SignUp
    <3>2. CASE EditProfile(h)
      BY <3>2 DEF EditProfile
    <3>3. CASE StartFile(h)
      BY <1>1, <3>3 DEF StartFile, TypeOK
    <3> QED BY <1>2, <3>1, <3>2, <3>3
  <2>2. job'[h] = [stage |-> stage, who |-> e, read |-> nickname[e], wanted |-> n,
                   previous |-> avatar[e], new |-> None]
    BY <1>1, <2>1 DEF ReadUser, TypeOK
  <2>3. UNCHANGED <<avatar, uploads, files, used, unacked>>
    BY <1>2 DEF SignUp, EditProfile, StartFile
  <2> QED BY <1>1, <2>2, <2>3, FilesKept
<1>3. ASSUME NEW stage \in Stages, Goto(h, stage)
      PROVE  /\ job'[h].new = job[h].new /\ job'[h].previous = job[h].previous
             /\ job'[h].who = job[h].who /\ job'[h].stage = stage
  BY <1>1, <1>3 DEF Goto, TypeOK, Jobs
<1>4. Finish(h) => job'[h] = Idle
  BY <1>1 DEF Finish, TypeOK
<1>5. CASE LookUpNickname(h)
  <2>1. UNCHANGED <<avatar, uploads, files, used, unacked>> /\ job[h].stage = "lookup"
    BY <1>5 DEF LookUpNickname
  <2>2. CASE Taken(job[h].wanted, job[h].who)
    BY <1>1, <1>4, <1>5, <2>1, <2>2, FilesKept DEF LookUpNickname
  <2>3. CASE ~ Taken(job[h].wanted, job[h].who)
    <3>1. Goto(h, IF job[h].read = None THEN "insert" ELSE "edit")
      BY <1>5, <2>3 DEF LookUpNickname
    <3>2. /\ job'[h].new = job[h].new /\ job'[h].previous = job[h].previous
          /\ job'[h].who = job[h].who /\ job'[h].stage \in {"insert", "edit"}
      BY <1>3, <3>1 DEF Stages
    <3>3. job[h].new = None
      BY <1>1, <2>1 DEF NewApart
    <3> QED BY <1>1, <2>1, <3>2, <3>3, FilesKept
  <2> QED BY <2>2, <2>3
<1>6. CASE InsertUser(h) \/ UpdateProfile(h)
  <2>1. UNCHANGED <<avatar, uploads, files, used, unacked>>
    BY <1>1, <1>6, UpdateKeepsAvatar DEF InsertUser, UpdateProfile
  <2> QED BY <1>1, <1>4, <1>6, <2>1, FilesKept DEF InsertUser, UpdateProfile
<1>7. CASE SaveRefused(h)
  BY <1>1, <1>4, <1>7, FilesKept DEF SaveRefused
<1>8. CASE StoreFails(h)
  BY <1>1, <1>3, <1>8, FilesKept DEF StoreFails, Stages
<1>9. CASE Crash(h)
  BY <1>1, <1>4, <1>9, FilesKept DEF Crash
<1> QED BY <1>2, <1>5, <1>6, <1>7, <1>8, <1>9 DEF Step

LEMMA SaveFileStep ==
    ASSUME FilesInv, TypeOK', NEW h \in Handlers, SaveFile(h)
    PROVE  FilesInv'
<1>1. OwnJob(h) /\ TypeOK /\ Step(h)
  BY StepsOwnJob DEF FilesInv, Step
<1>2. PICK f \in Files :
        /\ f \notin used /\ files' = files \cup {f} /\ used' = used \cup {f}
        /\ job' = [job EXCEPT ![h].new = f,
                     ![h].stage = IF At(h, "save_avatar") THEN "avatar" ELSE "upload"]
  BY DEF SaveFile, FreshName, WriteFile
<1>4. /\ job'[h].new = f /\ job'[h].previous = job[h].previous
      /\ job'[h].who = job[h].who /\ job'[h].stage \in {"avatar", "upload"}
  BY <1>1, <1>2 DEF TypeOK, Jobs
<1>3. f \notin used /\ files' = files \cup {f} /\ used' = used \cup {f}
  BY <1>2
<1>5. UNCHANGED <<avatar, uploads, unacked>>
  BY DEF SaveFile, rows, history
<1>6. f # None
  BY AccountsAssumption
<1> USE DEF FilesInv, OwnJob
<1>7. NamesUsed'
  BY <1>1, <1>3, <1>4, <1>5, <1>6 DEF NamesUsed
<1>8. NewApart'
  BY <1>1, <1>3, <1>4, <1>5, <1>6 DEF NewApart, NamesUsed
<1>9. NewUnnamed'
  <2>1. \A e \in Emails : avatar[e] # f
    BY <1>1, <1>3, <1>4, <1>5, <1>6 DEF NamesUsed
  <2>2. \A g \in Handlers : job[g].previous # f
    BY <1>1, <1>3, <1>4, <1>5, <1>6 DEF NamesUsed
  <2> QED BY <1>1, <1>3, <1>4, <1>5, <1>6, <2>1, <2>2 DEF NewUnnamed, NamesUsed
<1>10. AvatarsApart'
  BY <1>1, <1>3, <1>4, <1>5, <1>6 DEF AvatarsApart
<1>11. RemovalsSafe'
  BY <1>1, <1>3, <1>4, <1>5, <1>6 DEF RemovalsSafe, Named
<1>12. NamedExist'
  BY <1>1, <1>3, <1>4, <1>5, <1>6 DEF NamedExist, Named
<1> QED BY <1>7, <1>8, <1>9, <1>10, <1>11, <1>12
(* A row comes to name the file that waits for it. *)
LEMMA FileNamed ==
    ASSUME FilesInv, TypeOK', NEW h \in Handlers, OwnJob(h),
           UNCHANGED <<files, used>>, unacked \subseteq unacked',
           \/ /\ job[h].stage = "avatar" /\ uploads' = uploads
              /\ avatar' = [avatar EXCEPT ![job[h].who] = job[h].new]
           \/ /\ job[h].stage = "upload" /\ avatar' = avatar
              /\ uploads' = uploads \cup {job[h].new},
           \/ job'[h] = Idle
           \/ /\ job'[h].new = job[h].new /\ job'[h].previous = job[h].previous
              /\ job'[h].who = job[h].who
              /\ \/ job'[h].stage = "undo" /\ job[h].new \in unacked'
                 \/ /\ job'[h].stage = "cleanup" /\ job[h].stage = "avatar"
                    /\ job[h].previous # None
    PROVE  FilesInv'
<1> USE DEF FilesInv, OwnJob, Idle
<1>1. /\ job[h].who \in Emails /\ job[h].new \in Files /\ job[h].new # None
      /\ job[h].new \in files /\ job[h].new \notin uploads
      /\ \A e \in Emails : avatar[e] # job[h].new
      /\ \A g \in Handlers : job[g].previous # job[h].new
      /\ \A g \in Handlers : job[g].new = job[h].new => g = h
  <2>1. job[h].who \in Emails /\ job[h].new \in Files
    BY DEF TypeOK, Jobs, At, Held, Unwanted
  <2>2. job[h].new # None
    BY <2>1, AccountsAssumption
  <2> QED BY <2>1, <2>2 DEF NewUnnamed, NewApart
<1>2. \A e \in Emails :
        avatar'[e] = IF job[h].stage = "avatar" /\ e = job[h].who THEN job[h].new ELSE avatar[e]
  BY <1>1 DEF TypeOK
<1>3. /\ uploads \subseteq uploads' /\ uploads' \subseteq uploads \cup {job[h].new}
      /\ job[h].stage = "avatar" => uploads' = uploads
  OBVIOUS
<1>4. NamesUsed'
  BY <1>1, <1>2, <1>3 DEF NamesUsed
<1>5. NewApart'
  BY <1>1, <1>2, <1>3 DEF NewApart
<1>6. NewUnnamed'
  <2> SUFFICES ASSUME NEW g \in Handlers, job'[g].stage \in {"avatar", "upload"}
               PROVE  /\ job'[g].new \in files'
                      /\ job'[g].new \notin uploads'
                      /\ \A e \in Emails : avatar'[e] # job'[g].new
                      /\ \A k \in Handlers : job'[k].previous # job'[g].new
    BY DEF NewUnnamed
  <2>1. g # h /\ job'[g] = job[g]
    OBVIOUS
  <2>2. job[g].new \in files /\ job[g].new # job[h].new /\ job[g].new # None
    BY <1>1, <2>1, AccountsAssumption DEF NewUnnamed, TypeOK
  <2> QED BY <1>1, <1>2, <1>3, <2>1, <2>2 DEF NewUnnamed
<1>7. AvatarsApart'
  BY <1>1, <1>2, <1>3 DEF AvatarsApart
<1>8. RemovalsSafe'
  <2>1. \A f : Named(f)' => Named(f) \/ f = job[h].new
    BY <1>1, <1>2, <1>3 DEF Named
  <2>2. job'[h].stage = "cleanup" => ~ Named(job[h].previous)'
    <3> SUFFICES ASSUME job'[h].stage = "cleanup" PROVE ~ Named(job[h].previous)'
      OBVIOUS
    <3>1. job[h].stage = "avatar" /\ job[h].previous # None
      OBVIOUS
    <3>2. job[h].previous \notin uploads'
      BY <1>3, <3>1 DEF AvatarsApart
    <3>3. \A e \in Emails : avatar'[e] # job[h].previous
      BY <1>1, <1>2, <3>1 DEF AvatarsApart
    <3> QED BY <3>2, <3>3 DEF Named
  <2>3. job'[h].stage = "undo" => job'[h].new \in unacked'
    OBVIOUS
  <2>4. \A g \in Handlers \ {h} :
          /\ (job[g].stage = "undo" /\ Named(job[g].new) => job[g].new \in unacked)'
          /\ (job[g].stage = "cleanup" => ~ Named(job[g].previous))'
    BY <1>1, <2>1 DEF RemovalsSafe
  <2>5. job'[h].stage = "cleanup" => job'[h].previous = job[h].previous
    OBVIOUS
  <2> QED BY <2>2, <2>3, <2>4, <2>5 DEF RemovalsSafe
<1>9. NamedExist'
  BY <1>1, <1>2, <1>3 DEF NamedExist, Named
<1> QED BY <1>4, <1>5, <1>6, <1>7, <1>8, <1>9

LEMMA FileNamedStep ==
    ASSUME FilesInv, TypeOK', NEW h \in Handlers,
           \/ AvatarStored(h) \/ UploadStored(h)
           \/ AvatarStoredRaises(h) \/ UploadStoredRaises(h)
    PROVE  FilesInv'
<1> USE DEF At, rows, disk, history
<1>1. OwnJob(h) /\ TypeOK
  BY StepsOwnJob DEF FilesInv, Step
<1>2. job[h].stage \in {"avatar", "upload"} /\ job[h].new # None
  BY <1>1, AccountsAssumption
  DEF AvatarStored, UploadStored, AvatarStoredRaises, UploadStoredRaises, TypeOK, Held
<1>3. ASSUME NEW stage \in Stages, Goto(h, stage)
      PROVE  /\ job'[h].new = job[h].new /\ job'[h].previous = job[h].previous
             /\ job'[h].who = job[h].who /\ job'[h].stage = stage
  BY <1>1, <1>3 DEF Goto, TypeOK, Jobs
<1>4. Finish(h) => job'[h] = Idle
  BY <1>1 DEF Finish, TypeOK
<1>5. CASE AvatarStored(h) \/ AvatarStoredRaises(h)
  <2>1. /\ job[h].stage = "avatar" /\ uploads' = uploads
        /\ avatar' = [avatar EXCEPT ![job[h].who] = job[h].new]
    BY <1>2, <1>5 DEF AvatarStored, AvatarStoredRaises, Update, AvatarWritten
  <2>2. UNCHANGED <<files, used>> /\ unacked \subseteq unacked'
    BY <1>5 DEF AvatarStored, AvatarStoredRaises
  <2>3. CASE AvatarStored(h)
    <3>1. Finish(h) \/ (Goto(h, "cleanup") /\ job[h].previous # None)
      BY <2>3 DEF AvatarStored, CleanupNeeded
    <3> QED BY <1>1, <1>3, <1>4, <2>1, <2>2, <3>1, FileNamed DEF Stages
  <2>4. CASE AvatarStoredRaises(h)
    <3>1. Goto(h, "undo") /\ job[h].new \in unacked'
      BY <1>2, <2>4 DEF AvatarStoredRaises
    <3> QED BY <1>1, <1>3, <2>1, <2>2, <3>1, FileNamed DEF Stages
  <2> QED BY <1>5, <2>3, <2>4
<1>6. CASE UploadStored(h)
  BY <1>1, <1>4, <1>6, FileNamed DEF UploadStored
<1>7. CASE UploadStoredRaises(h)
  <2>1. Goto(h, "undo") /\ job[h].new \in unacked' /\ unacked \subseteq unacked'
    BY <1>7 DEF UploadStoredRaises
  <2> QED BY <1>1, <1>3, <1>7, <2>1, FileNamed DEF UploadStoredRaises, Stages
<1> QED BY <1>5, <1>6, <1>7

LEMMA RemoveFileStep ==
    ASSUME FilesInv, TypeOK', NEW h \in Handlers, RemoveFile(h)
    PROVE  FilesInv'
<1> USE DEF FilesInv, OwnJob, Idle
<1>1. OwnJob(h) /\ TypeOK
  BY StepsOwnJob DEF Step
<1>2. job'[h] = Idle /\ UNCHANGED <<avatar, uploads, used, unacked>>
  BY <1>1 DEF RemoveFile, Finish, rows, TypeOK
<1>3. /\ files' \subseteq files
      /\ \A f \in files \ files' :
           \/ job[h].stage = "undo" /\ f = job[h].new
           \/ job[h].stage = "cleanup" /\ f = job[h].previous
  BY DEF RemoveFile, Unwanted, At
<1>4. NamesUsed'
  BY <1>1, <1>2, <1>3 DEF NamesUsed
<1>5. NewApart'
  BY <1>1, <1>2 DEF NewApart
<1>6. NewUnnamed'
  <2> SUFFICES ASSUME NEW g \in Handlers, job'[g].stage \in {"avatar", "upload"}
               PROVE  /\ job'[g].new \in files'
                      /\ job'[g].new \notin uploads'
                      /\ \A e \in Emails : avatar'[e] # job'[g].new
                      /\ \A k \in Handlers : job'[k].previous # job'[g].new
    BY DEF NewUnnamed
  <2>1. g # h /\ job'[g] = job[g]
    BY <1>1, <1>2
  <2>2. job[g].new \in files /\ job[g].new # None /\ job[g].new # job[h].previous
    BY <2>1, AccountsAssumption DEF NewUnnamed, TypeOK
  <2>3. job[h].new # job[g].new
    BY <2>1, <2>2 DEF NewApart
  <2> QED BY <1>1, <1>2, <1>3, <2>1, <2>2, <2>3 DEF NewUnnamed
<1>7. AvatarsApart'
  BY <1>1, <1>2 DEF AvatarsApart
<1>8. RemovalsSafe'
  BY <1>1, <1>2 DEF RemovalsSafe, Named
<1>9. NamedExist'
  BY <1>2, <1>3 DEF NamedExist, Named, RemovalsSafe
<1> QED BY <1>4, <1>5, <1>6, <1>7, <1>8, <1>9

LEMMA FilesStep == FilesInv /\ [Next]_vars => FilesInv'
<1> SUFFICES ASSUME FilesInv, [Next]_vars PROVE FilesInv'
  OBVIOUS
<1>1. TypeOK'
  BY TypeStep DEF FilesInv
<1>2. ASSUME NEW h \in Handlers, Step(h) PROVE FilesInv'
  BY <1>1, <1>2, QuietFilesStep, SaveFileStep, FileNamedStep, RemoveFileStep
<1>3. CASE UNCHANGED vars
  BY <1>1, <1>3
  DEF FilesInv, NamesUsed, NewApart, NewUnnamed, AvatarsApart, RemovalsSafe, NamedExist,
      Named, vars, rows, disk, history
<1> QED BY <1>2, <1>3 DEF Next

LEMMA FilesInit == Init => FilesInv
<1> SUFFICES ASSUME Init PROVE FilesInv
  OBVIOUS
<1>1. /\ \A h \in Handlers : job[h] = Idle
      /\ \A e \in Emails : avatar[e] = None
      /\ uploads = {} /\ files = {}
  BY DEF Init
<1>2. NewApart /\ NewUnnamed
  BY <1>1 DEF NewApart, NewUnnamed, Idle
<1>3. NamesUsed /\ AvatarsApart /\ RemovalsSafe
  BY <1>1 DEF NamesUsed, AvatarsApart, RemovalsSafe, Idle
<1>4. NamedExist
  BY <1>1, AccountsAssumption DEF NamedExist, Named
<1> QED BY <1>2, <1>3, <1>4, TypeInit DEF FilesInv

LEMMA NamedFilesAreNamed ==
    ASSUME TypeOK, NEW f
    PROVE  f \in NamedFiles <=> Named(f) /\ f \in Files
BY AccountsAssumption DEF TypeOK, NamedFiles, Named

(* Handlers remove only files that no row names, except after a commit that
   took effect and raised: for any number of users and requests, every other
   file that a row names is there. *)
THEOREM NamedFilesAlwaysExist == Spec => []NamedFilesExist
<1>1. FilesInv => NamedFilesExist
  BY NamedFilesAreNamed DEF FilesInv, NamedExist, NamedFilesExist
<1> QED BY <1>1, FilesInit, FilesStep, PTL DEF Spec
-----------------------------------------------------------------------------
(* What is left behind. *)
Excused(f) == f \in crashed \cup stuck \cup overtaken \cup unacked
Explained(f) == Named(f) \/ Excused(f) \/ \E h \in Handlers : f \in Held(h)
LeftInv == FilesInv /\ \A f \in files : Explained(f)

(* It is enough to look at the files the request that moves has had in hand,
   at the new ones, and at the avatar it may replace. *)
LEMMA OthersExplained ==
    ASSUME NEW h \in Handlers, OwnJob(h),
           NEW f, Explained(f), f \notin Held(h),
           Excused(f) => Excused(f)', Named(f) => Named(f)'
    PROVE  Explained(f)'
<1>1. CASE Named(f) \/ Excused(f)
  BY <1>1 DEF Explained
<1>2. CASE \E g \in Handlers : f \in Held(g)
  <2>1. PICK g \in Handlers \ {h} : f \in Held(g)
    BY <1>2
  <2>2. job'[g] = job[g]
    BY <2>1 DEF OwnJob
  <2>3. f \in Held(g)'
    BY <2>1, <2>2 DEF Held, Unwanted, At
  <2> QED BY <2>3 DEF Explained
<1> QED BY <1>1, <1>2 DEF Explained

LEMMA LeftoversStep ==
    ASSUME LeftInv, TypeOK', NEW h \in Handlers, Step(h), NEW f \in files'
    PROVE  Explained(f)'
<1>1. OwnJob(h) /\ TypeOK /\ NewApart
  BY StepsOwnJob DEF LeftInv, FilesInv
<1>2. Excused(f) => Excused(f)'
  BY DEF Excused, Step, SignUp, EditProfile, LookUpNickname, InsertUser, UpdateProfile,
         StartFile, SaveFile, SaveRefused, AvatarStored, UploadStored, StoreFails,
         AvatarStoredRaises, UploadStoredRaises, RemoveFile, Crash, history
<1>3. ASSUME UNCHANGED files PROVE Explained(f)
  BY <1>3 DEF LeftInv
<1>4. ASSUME NEW stage \in Stages, Goto(h, stage)
      PROVE  /\ job'[h].new = job[h].new /\ job'[h].previous = job[h].previous
             /\ job'[h].stage = stage
  BY <1>1, <1>4 DEF Goto, TypeOK, Jobs
<1>5. CASE \/ SignUp(h) \/ EditProfile(h) \/ StartFile(h) \/ LookUpNickname(h)
           \/ InsertUser(h) \/ UpdateProfile(h) \/ SaveRefused(h)
  <2>1. Held(h) = {}
    BY <1>5 DEF SignUp, EditProfile, StartFile, LookUpNickname, InsertUser, UpdateProfile,
                SaveRefused, Saving, Held, Unwanted, At
  <2>2. UNCHANGED <<avatar, uploads>>
    BY <1>1, <1>5, UpdateKeepsAvatar
    DEF SignUp, EditProfile, StartFile, LookUpNickname, InsertUser, UpdateProfile,
        SaveRefused, At, rows
  <2>3. UNCHANGED files
    BY <1>5 DEF SignUp, EditProfile, StartFile, LookUpNickname, InsertUser, UpdateProfile,
                SaveRefused, disk
  <2>4. Named(f) => Named(f)'
    BY <2>2 DEF Named
  <2> QED BY <1>1, <1>2, <1>3, <2>1, <2>3, <2>4, OthersExplained
<1>6. CASE SaveFile(h)
  <2>1. Held(h) = {} /\ (Named(f) => Named(f)')
    BY <1>6 DEF SaveFile, Saving, Held, Unwanted, At, Named, rows
  <2>2. CASE f \in files
    BY <1>1, <1>2, <2>1, <2>2, OthersExplained DEF LeftInv
  <2>3. CASE f \notin files
    <3>1. job'[h].new = f /\ job'[h].stage \in {"avatar", "upload"}
      BY <1>1, <1>6, <2>3 DEF SaveFile, WriteFile, TypeOK, Jobs
    <3>2. f \in Held(h)'
      BY <3>1 DEF Held, At
    <3> QED BY <3>2 DEF Explained
  <2> QED BY <2>2, <2>3
<1>7. CASE StoreFails(h)
  <2>1. UNCHANGED files /\ (Named(f) => Named(f)')
    BY <1>7 DEF StoreFails, Named, rows, disk
  <2>2. job'[h].new = job[h].new /\ job'[h].stage = "undo"
    BY <1>4, <1>7 DEF StoreFails, Stages
  <2>3. CASE f \in Held(h)
    <3>1. f \in Held(h)'
      BY <1>7, <2>2, <2>3 DEF StoreFails, Held, Unwanted, At
    <3> QED BY <3>1 DEF Explained
  <2> QED BY <1>1, <1>2, <1>3, <2>1, <2>3, OthersExplained
<1>8. CASE UploadStored(h) \/ UploadStoredRaises(h)
  <2>1. UNCHANGED files /\ (Named(f) => Named(f)')
    BY <1>8 DEF UploadStored, UploadStoredRaises, Named, disk
  <2>2. f \in Held(h) => Named(f)'
    BY <1>8 DEF UploadStored, UploadStoredRaises, Held, Unwanted, At, Named
  <2> QED BY <1>1, <1>2, <1>3, <2>1, <2>2, OthersExplained DEF Explained
<1>9. CASE AvatarStored(h) \/ AvatarStoredRaises(h)
  <2>1. UNCHANGED <<files, uploads>> /\ job[h].stage = "avatar" /\ job[h].who \in Emails
    BY <1>1, <1>9
    DEF AvatarStored, AvatarStoredRaises, Update, TypeOK, Jobs, At, disk
  <2>2. job[h].new # None /\ f # None
    BY <1>1, <2>1, AccountsAssumption DEF TypeOK, Held, At
  <2>3. \A e \in Emails : avatar'[e] = IF e = job[h].who THEN job[h].new ELSE avatar[e]
    BY <1>1, <1>9, <2>1, <2>2
    DEF AvatarStored, AvatarStoredRaises, Update, AvatarWritten, TypeOK
  <2>4. f \in Held(h) => Named(f)'
    BY <2>1, <2>3 DEF Held, Unwanted, At, Named
  <2>5. CASE f = avatar[job[h].who]
    <3>1. CASE AvatarStored(h) /\ f # job[h].previous
      BY <2>2, <2>5, <3>1 DEF AvatarStored, Excused, Explained
    <3>2. CASE AvatarStored(h) /\ f = job[h].previous
      <4>1. Goto(h, "cleanup")
        BY <2>2, <3>2 DEF AvatarStored, CleanupNeeded
      <4>2. job'[h].previous = f /\ job'[h].stage = "cleanup"
        BY <1>4, <3>2, <4>1 DEF Stages
      <4>3. f \in Held(h)'
        BY <4>2 DEF Held, Unwanted, At
      <4> QED BY <4>3 DEF Explained
    <3>3. CASE AvatarStoredRaises(h)
      BY <2>2, <2>5, <3>3 DEF AvatarStoredRaises, Excused, Explained
    <3> QED BY <1>9, <3>1, <3>2, <3>3
  <2>6. CASE f # avatar[job[h].who]
    <3>1. Named(f) => Named(f)'
      BY <2>1, <2>3, <2>6 DEF Named
    <3> QED BY <1>1, <1>2, <1>3, <2>1, <2>4, <3>1, OthersExplained DEF Explained
  <2> QED BY <2>5, <2>6
<1>10. CASE RemoveFile(h)
  <2>1. f \in files /\ (Named(f) => Named(f)')
    BY <1>10 DEF RemoveFile, Named, rows
  <2>2. CASE f \in Held(h)
    <3>1. f \in stuck'
      BY <1>10, <2>2 DEF RemoveFile, Held, At
    <3> QED BY <3>1 DEF Excused, Explained
  <2>3. CASE f \notin Held(h)
    BY <1>1, <1>2, <2>1, <2>3, OthersExplained DEF LeftInv
  <2> QED BY <2>2, <2>3
<1>11. CASE Crash(h)
  <2>1. UNCHANGED files /\ (Named(f) => Named(f)')
    BY <1>11 DEF Crash, Named, rows, disk
  <2>2. f \in Held(h) => Excused(f)'
    BY <1>11 DEF Crash, Excused
  <2> QED BY <1>1, <1>2, <1>3, <2>1, <2>2, OthersExplained DEF Explained
<1> QED BY <1>5, <1>6, <1>7, <1>8, <1>9, <1>10, <1>11 DEF Step

LEMMA LeftStep == LeftInv /\ [Next]_vars => LeftInv'
<1> SUFFICES ASSUME LeftInv, [Next]_vars PROVE LeftInv'
  OBVIOUS
<1>1. FilesInv' /\ TypeOK'
  BY FilesStep DEF LeftInv, FilesInv
<1>2. ASSUME NEW h \in Handlers, Step(h) PROVE LeftInv'
  BY <1>1, <1>2, LeftoversStep DEF LeftInv
<1>3. CASE UNCHANGED vars
  BY <1>1, <1>3
  DEF LeftInv, Explained, Excused, Named, Held, Unwanted, At, vars, rows, disk, history
<1> QED BY <1>2, <1>3 DEF Next

(* Nothing removes a file but its request, and yet, for any number of users
   and requests, what is left over was in the hands of a request that ended
   early, could not be removed, or was replaced by a request that had read
   another avatar. *)
THEOREM LeftoversAlwaysExplained == Spec => []LeftoversExplained
<1>1. Init => LeftInv
  BY FilesInit DEF Init, LeftInv
<1>2. LeftInv => LeftoversExplained
  <2> SUFFICES ASSUME LeftInv, NEW f \in files, f \notin NamedFiles
               PROVE  f \in InHands \cup crashed \cup stuck \cup overtaken \cup unacked
    BY DEF LeftoversExplained
  <2>1. ~ Named(f)
    BY NamedFilesAreNamed DEF LeftInv, FilesInv, TypeOK
  <2> QED BY <2>1 DEF LeftInv, Explained, Excused, InHands
<1> QED BY <1>1, <1>2, LeftStep, PTL DEF Spec
-----------------------------------------------------------------------------
(* A user with one avatar upload in progress at a time. *)
Uploading(h) == job[h].stage \in {"save_avatar", "avatar"}
OneUploadEach ==
    \A g, h \in Handlers :
      Uploading(g) /\ Uploading(h) /\ job[g].who = job[h].who => g = h

(* Nobody else replaces the avatar an upload has read. *)
PreviousCurrent ==
    \A h \in Handlers : Uploading(h) => job[h].previous = avatar[job[h].who]
QuietInv == LeftInv /\ PreviousCurrent /\ overtaken = {}

(* An avatar changes only under an upload that is about to end. *)
LEMMA AvatarChanges ==
    ASSUME FilesInv, NEW h \in Handlers, Step(h)
    PROVE  /\ \/ avatar' = avatar
              \/ /\ At(h, "avatar") /\ ~ Uploading(h)'
                 /\ \A e \in Emails : e # job[h].who => avatar'[e] = avatar[e]
           /\ overtaken' \subseteq
                overtaken \cup (IF At(h, "avatar")
                                THEN {avatar[job[h].who]} \ {job[h].previous, None} ELSE {})
<1>1. TypeOK /\ NewApart
  BY DEF FilesInv
<1> USE DEF At, rows, disk, history
<1>2. CASE InsertUser(h) \/ UpdateProfile(h)
  BY <1>1, <1>2, UpdateKeepsAvatar DEF InsertUser, UpdateProfile
<1>3. ASSUME NEW stage \in {"cleanup", "undo"}, Goto(h, stage) PROVE ~ Uploading(h)'
  BY <1>1, <1>3 DEF Goto, Uploading, TypeOK, Jobs
<1>4. ASSUME Finish(h) PROVE ~ Uploading(h)'
  BY <1>1, <1>4 DEF Finish, Idle, Uploading, TypeOK
<1>5. ASSUME Update(h) PROVE \A e \in Emails : e # job[h].who => avatar'[e] = avatar[e]
  BY <1>1, <1>5 DEF Update, TypeOK
<1>6. CASE AvatarStored(h)
  BY <1>3, <1>4, <1>5, <1>6 DEF AvatarStored
<1>7. CASE AvatarStoredRaises(h)
  BY <1>3, <1>5, <1>7 DEF AvatarStoredRaises
<1>8. CASE SignUp(h) \/ EditProfile(h) \/ LookUpNickname(h) \/ StartFile(h) \/ SaveFile(h)
           \/ SaveRefused(h) \/ UploadStored(h) \/ StoreFails(h) \/ UploadStoredRaises(h)
           \/ RemoveFile(h) \/ Crash(h)
  BY <1>8 DEF SignUp, EditProfile, LookUpNickname, StartFile, SaveFile, SaveRefused,
              UploadStored, StoreFails, UploadStoredRaises, RemoveFile, Crash
<1> QED BY <1>2, <1>6, <1>7, <1>8 DEF Step

(* An upload begins with the avatar there is and keeps what it has read. *)
LEMMA UploadsRead ==
    ASSUME FilesInv, NEW h \in Handlers, Step(h), Uploading(h)'
    PROVE  /\ avatar' = avatar
           /\ \/ job'[h].previous = avatar[job'[h].who]
              \/ Uploading(h) /\ job'[h].previous = job[h].previous /\ job'[h].who = job[h].who
<1>1. TypeOK
  BY DEF FilesInv
<1>2. ASSUME Finish(h) PROVE FALSE
  BY <1>1, <1>2 DEF Finish, Idle, Uploading, TypeOK
<1>3. ASSUME NEW stage \in {"insert", "edit", "cleanup", "undo"}, Goto(h, stage) PROVE FALSE
  BY <1>1, <1>3 DEF Goto, Uploading, TypeOK, Jobs
<1>4. CASE SignUp(h) \/ EditProfile(h)
  <2>1. PICK e \in Emails, n \in Nicknames, stage \in {"lookup", "edit"} : ReadUser(h, e, n, stage)
    BY <1>4 DEF SignUp, EditProfile
  <2> QED BY <1>1, <2>1 DEF ReadUser, Uploading, TypeOK
<1>5. CASE StartFile(h)
  <2>1. PICK e \in Emails, stage \in {"save_avatar", "save_upload"} :
          ReadUser(h, e, nickname[e], stage)
    BY <1>5 DEF StartFile
  <2>2. job'[h].previous = avatar[e] /\ job'[h].who = e
    BY <1>1, <2>1 DEF ReadUser, TypeOK
  <2> QED BY <1>5, <2>2 DEF StartFile, rows
<1>6. CASE SaveFile(h)
  <2>1. PICK f \in Files :
          job' = [job EXCEPT ![h].new = f,
                     ![h].stage = IF At(h, "save_avatar") THEN "avatar" ELSE "upload"]
    BY <1>6 DEF SaveFile
  <2>2. /\ job'[h].previous = job[h].previous /\ job'[h].who = job[h].who
        /\ job'[h].stage = IF At(h, "save_avatar") THEN "avatar" ELSE "upload"
    BY <1>1, <2>1 DEF TypeOK, Jobs
  <2> QED BY <1>6, <2>2 DEF SaveFile, rows, Uploading, At
<1>7. CASE LookUpNickname(h) \/ InsertUser(h) \/ UpdateProfile(h) \/ SaveRefused(h) \/ UploadStored(h)
           \/ StoreFails(h) \/ UploadStoredRaises(h) \/ AvatarStored(h) \/ AvatarStoredRaises(h)
           \/ RemoveFile(h) \/ Crash(h)
  BY <1>2, <1>3, <1>7 DEF LookUpNickname, InsertUser, UpdateProfile, SaveRefused, UploadStored, StoreFails,
     UploadStoredRaises, AvatarStored, AvatarStoredRaises, RemoveFile, Crash
<1> QED BY <1>4, <1>5, <1>6, <1>7 DEF Step

LEMMA QuietStep ==
    QuietInv /\ OneUploadEach /\ [Next]_vars => QuietInv'
<1> SUFFICES ASSUME QuietInv, OneUploadEach, [Next]_vars PROVE QuietInv'
  OBVIOUS
<1>0. LeftInv'
  BY LeftStep DEF QuietInv
<1>1. FilesInv /\ TypeOK /\ PreviousCurrent /\ overtaken = {}
  BY DEF QuietInv, LeftInv, FilesInv
<1>2. ASSUME NEW h \in Handlers, Step(h) PROVE PreviousCurrent' /\ overtaken' = {}
  <2>1. OwnJob(h)
    BY <1>1, <1>2, StepsOwnJob
  <2>2. overtaken' = {}
    BY <1>1, <1>2, AvatarChanges DEF PreviousCurrent, Uploading, At
  <2>3. ASSUME NEW g \in Handlers, Uploading(g)' PROVE job'[g].previous = avatar'[job'[g].who]
    <3>1. CASE g = h
      BY <1>1, <1>2, <2>3, <3>1, UploadsRead DEF PreviousCurrent
    <3>2. CASE g # h
      <4>1. job'[g] = job[g] /\ Uploading(g) /\ job[g].previous = avatar[job[g].who]
        BY <1>1, <2>1, <2>3, <3>2 DEF OwnJob, Uploading, PreviousCurrent
      <4>2. job[g].who \in Emails
        BY <1>1, <4>1 DEF TypeOK, Jobs, Uploading, At
      <4>3. At(h, "avatar") => job[h].who # job[g].who
        BY <3>2, <4>1 DEF OneUploadEach, Uploading, At
      <4> QED BY <1>1, <1>2, <4>1, <4>2, <4>3, AvatarChanges
    <3> QED BY <3>1, <3>2
  <2> QED BY <2>2, <2>3 DEF PreviousCurrent
<1>3. ASSUME UNCHANGED vars PROVE PreviousCurrent' /\ overtaken' = {}
  BY <1>1, <1>3 DEF vars, rows, history, PreviousCurrent, Uploading
<1> QED BY <1>0, <1>2, <1>3 DEF Next, QuietInv

(* Where nobody sends two avatars at once, no upload is left behind: every file
   is named by a row, in the hands of a request, or in those of one that a
   crash ended, or its removal or its commit raised (user.py:264-297). *)
THEOREM OneUploadEachLeavesNothing ==
    Spec /\ []OneUploadEach
      => [](files \ NamedFiles \subseteq InHands \cup crashed \cup stuck \cup unacked)
<1>1. Init => QuietInv
  BY FilesInit DEF Init, QuietInv, LeftInv, PreviousCurrent, Uploading, Idle
<1>2. QuietInv => files \ NamedFiles \subseteq InHands \cup crashed \cup stuck \cup unacked
  <2> SUFFICES ASSUME QuietInv, NEW f \in files, f \notin NamedFiles
               PROVE  f \in InHands \cup crashed \cup stuck \cup unacked
    OBVIOUS
  <2>1. ~ Named(f)
    BY NamedFilesAreNamed DEF QuietInv, LeftInv, FilesInv, TypeOK
  <2> QED BY <2>1 DEF QuietInv, LeftInv, Explained, Excused, InHands
<1> QED BY <1>1, <1>2, QuietStep, PTL DEF Spec
=============================================================================
