------------------------------ MODULE Accounts ------------------------------
(* Sign-up, profile edits, avatars and uploads: rows of users and uploads in
   PostgreSQL, image files in static/img, and the handlers between the two.

   A nickname is looked up first and guarded by a unique constraint in the
   end.  A file is written first, named by a row after that, and removed by
   the handler when it believes that no row names it; nothing else ever
   removes a file.  An UPDATE writes the columns in which the handler's copy
   of the row differs from what it read.  Biographies are left out: no other
   state depends on them, so an edit that changes nothing else is one with
   the nickname it had.                                                     *)
EXTENDS Naturals

CONSTANTS
    Emails,
    Nicknames,
    Files,          \* bound: names that uuid4 may draw
    Handlers,       \* requests that may be in progress at a time
    None

ASSUME AccountsAssumption == None \notin Emails \cup Nicknames \cup Files

VARIABLES
    nickname,       \* users.nickname by e-mail, None without an account
    avatar,         \* users.avatar_url by e-mail
    uploads,        \* filenames in the table uploads
    files,          \* files in static/img
    used,           \* names drawn so far
    job,            \* per handler: where it stands and what it holds
    crashed,        \* history: files in the hands of a request that a crash ended
    stuck,          \* history: files whose removal raised
    overtaken,      \* history: avatars replaced by a handler that read another
    unacked         \* history: files in a commit that took effect and raised

rows == <<nickname, avatar, uploads>>
disk == <<files, used>>
history == <<crashed, stuck, overtaken, unacked>>
vars == <<rows, disk, job, history>>

Stages == {"idle", "lookup", "insert", "edit", "save_avatar", "avatar",
           "save_upload", "upload", "undo", "cleanup"}
Jobs == [stage : Stages,
         who : Emails \cup {None},
         read : Nicknames \cup {None},      \* current_user.nickname as read
         wanted : Nicknames \cup {None},    \* and as it is now
         previous : Files \cup {None},      \* previous_filename
         new : Files \cup {None}]           \* filename
Idle == [stage |-> "idle", who |-> None, read |-> None, wanted |-> None,
         previous |-> None, new |-> None]

Init ==
    /\ nickname = [e \in Emails |-> None]
    /\ avatar = [e \in Emails |-> None]
    /\ uploads = {} /\ files = {} /\ used = {}
    /\ job = [h \in Handlers |-> Idle]
    /\ crashed = {} /\ stuck = {} /\ overtaken = {} /\ unacked = {}

At(h, stage) == job[h].stage = stage
Goto(h, stage) == job' = [job EXCEPT ![h].stage = stage]
Finish(h) == job' = [job EXCEPT ![h] = Idle]

Registered(e) == nickname[e] # None
Taken(n, e) == \E other \in Emails \ {e} : nickname[other] = n
Renames(h) == job[h].wanted # job[h].read

(* What the UPDATE leaves in the two columns. *)
NicknameOfCopy(h) == job[h].wanted
NicknameWritten(h) ==
    IF Renames(h) THEN job[h].wanted ELSE nickname[job[h].who]
AvatarOfCopy(h) ==
    IF job[h].new # None THEN job[h].new ELSE job[h].previous
AvatarWritten(h) ==
    IF job[h].new # None THEN job[h].new ELSE avatar[job[h].who]

(* The unique constraint on users.nickname. *)
Refused(h) == Taken(NicknameWritten(h), job[h].who)

Update(h) ==
    /\ ~ Refused(h)
    /\ nickname' = [nickname EXCEPT ![job[h].who] = NicknameWritten(h)]
    /\ avatar' = [avatar EXCEPT ![job[h].who] = AvatarWritten(h)]
    /\ UNCHANGED uploads

(* get_current_user, the copy the request works on. *)
ReadUser(h, e, n, stage) ==
    job' = [job EXCEPT ![h] =
              [stage |-> stage, who |-> e, read |-> nickname[e], wanted |-> n,
               previous |-> avatar[e], new |-> None]]

-----------------------------------------------------------------------------
(* sign_up_handler: the e-mail is free; the nickname is looked up next. *)
SignUp(h) ==
    /\ At(h, "idle")
    /\ \E e \in Emails, n \in Nicknames :
         /\ ~ Registered(e)
         /\ ReadUser(h, e, n, "lookup")
    /\ UNCHANGED <<rows, disk, history>>

(* update_me_handler: a nickname that changes is looked up. *)
EditProfile(h) ==
    /\ At(h, "idle")
    /\ \E e \in Emails, n \in Nicknames :
         /\ Registered(e)
         /\ ReadUser(h, e, n, IF n # nickname[e] THEN "lookup" ELSE "edit")
    /\ UNCHANGED <<rows, disk, history>>

LookUpNickname(h) ==
    /\ At(h, "lookup")
    /\ IF Taken(job[h].wanted, job[h].who)
       THEN Finish(h)
       ELSE Goto(h, IF job[h].read = None THEN "insert" ELSE "edit")
    /\ UNCHANGED <<rows, disk, history>>

(* save_user and update_user: committed, or refused, or failed.  A refresh
   that raises after the commit changes the answer only. *)
InsertUser(h) ==
    /\ At(h, "insert")
    /\ \/ ~ Registered(job[h].who) /\ Update(h)
       \/ UNCHANGED rows
    /\ Finish(h)
    /\ UNCHANGED <<disk, history>>

UpdateProfile(h) ==
    /\ At(h, "edit")
    /\ Update(h) \/ UNCHANGED rows
    /\ Finish(h)
    /\ UNCHANGED <<disk, history>>

-----------------------------------------------------------------------------
(* upload_avatar_handler and upload_handler up to the file. *)
StartFile(h) ==
    /\ At(h, "idle")
    /\ \E e \in Emails, stage \in {"save_avatar", "save_upload"} :
         /\ Registered(e)
         /\ ReadUser(h, e, nickname[e], stage)
    /\ UNCHANGED <<rows, disk, history>>

Saving(h) == At(h, "save_avatar") \/ At(h, "save_upload")
FreshName(f) == f \notin used

(* _write_file: written beside its place and moved into it at once. *)
WriteFile(f) ==
    /\ files' = files \cup {f}
    /\ used' = used \cup {f}

(* UploadService.save accepts the content. *)
SaveFile(h) ==
    /\ Saving(h)
    /\ \E f \in Files :
         /\ FreshName(f)
         /\ WriteFile(f)
         /\ job' = [job EXCEPT ![h].new = f,
                      ![h].stage = IF At(h, "save_avatar") THEN "avatar" ELSE "upload"]
    /\ UNCHANGED <<rows, history>>

SaveRefusalIgnored(h) ==
    /\ Saving(h)
    /\ Goto(h, IF At(h, "save_avatar") THEN "avatar" ELSE "upload")
    /\ UNCHANGED <<rows, disk, history>>

(* It refuses the content, or the disk does. *)
SaveRefused(h) ==
    /\ Saving(h)
    /\ Finish(h)
    /\ UNCHANGED <<rows, disk, history>>

CleanupForgotten(h) == FALSE
CleanupNeeded(h) == job[h].previous # None

(* The commit of the row returns. *)
AvatarStored(h) ==
    /\ At(h, "avatar")
    /\ Update(h)
    /\ overtaken' = overtaken \cup ({avatar[job[h].who]} \ {job[h].previous, None})
    /\ IF CleanupNeeded(h) THEN Goto(h, "cleanup") ELSE Finish(h)
    /\ UNCHANGED <<disk, crashed, stuck, unacked>>

UploadStored(h) ==
    /\ At(h, "upload")
    /\ job[h].new \notin uploads
    /\ uploads' = uploads \cup {job[h].new}
    /\ Finish(h)
    /\ UNCHANGED <<nickname, avatar, disk, history>>

(* It raises and nothing is stored: refused, or the connection is gone. *)
StoreFails(h) ==
    /\ At(h, "avatar") \/ At(h, "upload")
    /\ Goto(h, "undo")
    /\ UNCHANGED <<rows, disk, history>>

(* It is stored and raises all the same: the refresh fails. *)
AvatarStoredRaises(h) ==
    /\ At(h, "avatar")
    /\ Update(h)
    /\ unacked' = unacked \cup ({job[h].new, avatar[job[h].who]} \ {None})
    /\ Goto(h, "undo")
    /\ UNCHANGED <<disk, crashed, stuck, overtaken>>

UploadStoredRaises(h) ==
    /\ At(h, "upload")
    /\ job[h].new \notin uploads
    /\ uploads' = uploads \cup {job[h].new}
    /\ unacked' = unacked \cup {job[h].new}
    /\ Goto(h, "undo")
    /\ UNCHANGED <<nickname, avatar, disk, crashed, stuck, overtaken>>

(* The file the handler removes before it ends: its new one after a failure,
   the one it replaced after a success. *)
Unwanted(h) ==
    (IF At(h, "undo") THEN {job[h].new} ELSE {})
      \cup (IF At(h, "cleanup") THEN {job[h].previous} ELSE {})

RemoveFile(h) ==
    /\ At(h, "undo") \/ At(h, "cleanup")
    /\ \/ files' = files \ Unwanted(h) /\ UNCHANGED stuck
       \/ stuck' = stuck \cup Unwanted(h) /\ UNCHANGED files
    /\ Finish(h)
    /\ UNCHANGED <<rows, used, crashed, overtaken, unacked>>

(* Files that a request in progress has still to name or to remove. *)
Held(h) ==
    Unwanted(h) \cup (IF At(h, "avatar") \/ At(h, "upload") THEN {job[h].new} ELSE {})
InHands == UNION {Held(h) : h \in Handlers}

(* The process or the task that serves the request ends; with a process, its
   other requests end one after the other. *)
Crash(h) ==
    /\ ~ At(h, "idle")
    /\ crashed' = crashed \cup Held(h)
    /\ Finish(h)
    /\ UNCHANGED <<rows, disk, stuck, overtaken, unacked>>

Step(h) ==
    \/ SignUp(h) \/ EditProfile(h) \/ LookUpNickname(h)
    \/ InsertUser(h) \/ UpdateProfile(h)
    \/ StartFile(h) \/ SaveFile(h) \/ SaveRefused(h)
    \/ AvatarStored(h) \/ UploadStored(h) \/ StoreFails(h)
    \/ AvatarStoredRaises(h) \/ UploadStoredRaises(h)
    \/ RemoveFile(h) \/ Crash(h)

Next == \E h \in Handlers : Step(h)

Spec == Init /\ [][Next]_vars

-----------------------------------------------------------------------------
(* Each variable holds values of its kind; a handler that has yet to find its
   file's row has the file's name and one that edits has a user. *)
TypeOK ==
    /\ nickname \in [Emails -> Nicknames \cup {None}]
    /\ avatar \in [Emails -> Files \cup {None}]
    /\ uploads \subseteq Files /\ files \subseteq Files /\ used \subseteq Files
    /\ job \in [Handlers -> Jobs]
    /\ \A h \in Handlers :
         /\ ~ At(h, "idle") => job[h].who # None /\ job[h].wanted # None
         /\ Held(h) \subseteq Files
    /\ crashed \subseteq Files /\ stuck \subseteq Files
    /\ overtaken \subseteq Files /\ unacked \subseteq Files

NamedFiles == ({avatar[e] : e \in Emails} \ {None}) \cup uploads

(* Every file that a row names can be served, however requests of the same
   and of other users, failures and restarts are interleaved: handlers remove
   only files that no row names (api/user.py:279-295, api/upload.py:45-55).
   The exception is a commit that took effect and raised in its refresh:
   there the handler removes the file the row has just named. *)
NamedFilesExist == NamedFiles \ unacked \subseteq files

(* A file that no row names is about to be named or removed, or one of four
   things happened to it: a crash in mid-request, a removal that raised, a
   commit that took effect and raised, or an avatar replaced by a request
   that had read an earlier one (two uploads of one user at once).  In quiet
   operation no upload is left behind. *)
LeftoversExplained ==
    files \ NamedFiles \subseteq InHands \cup crashed \cup stuck \cup overtaken \cup unacked

(* The unique constraint can refuse a sign-up or an edit that changes the
   nickname, which answer 409; it never refuses an UPDATE for another reason,
   whose handler does not expect it (api/user.py:204-213, 277-284): not even
   when the user has been renamed since the copy was read and somebody else
   has taken the nickname in the copy. *)
OnlyRenamesAreRefused ==
    \A h \in Handlers :
      (At(h, "edit") \/ At(h, "avatar")) /\ ~ Renames(h) => ~ Refused(h)
=============================================================================
