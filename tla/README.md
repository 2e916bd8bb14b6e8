# Verification of fastapi-blog

TLA+ models of the blog's server, the TLC runs that check them and the TLAPS
proofs about them. Paths such as `user.py:256` are under `src/app/` (`api/`,
`database/`, `service/`).

## 1. The system

A FastAPI process (any number of workers) serves a JSON API. Each request runs
its handler as a coroutine with one SQLAlchemy `AsyncSession` of its own
(`autoflush=False`, `expire_on_commit=False`), against one PostgreSQL database
(READ COMMITTED), one Redis and the directory `static/img`. Handlers share no
memory: they meet only in the database, in Redis and in that directory, and every
`await` is a point where another handler may run. Three facts of that setting
decide most of what follows, and every model of a handler keeps them:

- a handler works on the **copy** of a row its session read; nothing refreshes it
  except a locked re-read (`populate_existing`) or the `refresh` after a commit;
- an UPDATE writes **only the columns whose value changed relative to the copy**;
- a commit may succeed and the handler still fail (in the `refresh` after it).

### Components

| component | state | operations | meets |
|---|---|---|---|
| admin moderation (`user.py:371-469`, `audit_repository.py`) | permission and sanction columns of `users`; `admin_audit_logs` | set permissions, suspend, ban: gate, lock the target, write, log, commit | `users` rows (row locks, foreign-key locks of the log) |
| permission gates (`dependency.py`) | none; reads the caller's row | verified, not banned, not suspended, holds the permission | every handler, through the copy of the caller |
| one-time passwords (`otp.py`) | per purpose and e-mail: code, failed attempts, cooldown, send count, each with a TTL | acquire a send slot, save a code, verify and consume | Redis |
| password sessions (`user.py:133-169, 216-261, 511-551`, `auth.py`) | `users.password`, `users.token_version`; the `ver` claim of tokens | log in, change password, reset password | `users`, one-time passwords |
| login limiter (`ratelimit.py`) | attempt counters per e-mail and per IP, TTLs | acquire an attempt, give it back after success | Redis, log in |
| write limiter (`write_ratelimit.py`) | counter per user and action, TTL | consume | Redis, create post, create comment |
| posts (`post.py`, `PostRepository`) | `posts` (contents, thumbnail, soft-delete flag, category, view count) | create, edit, delete, restore, move, read, list | `categories`, `comments`, `likes` |
| categories (`category.py`, `CategoryRepository`) | `categories` | list, create, rename, delete with reassignment | `posts` (foreign key) |
| comments (`comment.py`, `service/comment.py`) | `comments` (parent, soft-delete flag) | create, edit, delete; what a page shows | `posts` |
| likes (`post.py:296-330`, `LikeRepository`) | `likes`, unique per user and post | toggle, count | `posts` |
| view counter (`post.py:144-176`, `PostRepository.increment_view_count`) | `posts.view_count`; `viewed:` keys in Redis | count the first view per IP in six hours | Redis, `posts` |
| accounts (`user.py:106-130, 185-213`) | `users.email`, `users.nickname` (unique) | sign up, edit the profile | `users` |
| avatars and uploads (`user.py:264-297`, `upload.py`) | files in `static/img`, `users.avatar_url`, `uploads` | save a file, record it, remove the replaced one | the file system, `users`, `uploads` |
| client address (`client_ip.py`) | none | pick the client's address from a proxy chain | login limiter, view counter |
| seed and promotion (`seed.py`, `promote.py`) | default categories, the first manager | create if absent; promote | `categories`, `users` |
| mail (`email.py`) | none | background task after the answer | an SMTP server |
| schema migrations (`alembic/`) | the schema | upgrade | the database |
| request/response schemas (`schema/`) | none | validate, hide deleted comments | every handler |
| browser scripts (`static/js`) | the page | render, call the API | the API |

### What is hard in it

- **Check, then act, with an `await` between**: the permission gate and the locked
  write; the existence of a post and the comment or like on it; the existence of a
  category and the post moved into it; the uniqueness of a nickname.
- **Stale copies written back**: `token_version + 1` of a copy; a thumbnail that
  did not change relative to the copy and is therefore not written.
- **Two stores, no common transaction**: a code consumed in Redis before the
  password is written in PostgreSQL; a file on disk before its row; a Redis key
  set before the view is counted.
- **Counters with expiry**: whether a counter can outlive its window, be exhausted
  for ever, or be decremented on behalf of a window that is over.
- **Row locks taken in the order of requests**: `FOR UPDATE` on the target and the
  foreign-key lock on the actor can form a cycle; the database aborts one.
- **Nothing retries**: a failed request is answered 500 and forgotten, so what was
  done before the failure must be acceptable as it stands.

## 2. Plan

In the order of what matters most to the blog: who may act, who is signed in, how
often, then the content, then the stores beside the database.

| step | module | composes | abstract promise | state |
|---|---|---|---|---|
| A | `AdminModeration` | gates, `users`, audit table, row locks | `AuditLedger` | checked, proved |
| B | `OneTimePassword` | the scripts of `otp.py` | `OneTimeCode` | checked, proved |
| C | `PasswordSessions` | log in, change, reset, codes | stated as invariants | checked, proved |
| D | `LoginRateLimit` | both counters, log in | stated as invariants | checked, proved |
| E | `Posts` | posts and categories | stated as action properties | checked, proved |
| F | `Discussion` | comments, likes, deletion of posts | stated as invariants | checked, proved |
| G | `Accounts` | sign-up, profile, avatar and upload handlers; `users`, `uploads`, files | "what a row names exists" | checked, proved |
| H | `ClientAddress` | the hops of a request | the client, whatever it sent | checked, proved |
| I | `RequestCounters` | `ClientAddress`, view counter, write limiter, Redis with outages and restarts | per-window bounds | checked, proved |

What could follow: `PasswordSessions` over `OneTimeCode` (the codes the first
treats as a set are what the second promises), restarts of Redis in the login
limiter and the one-time passwords.

## 3. Modules and code

Every module keeps the control of the code: one action per stretch between two
awaits that touch a shared store, with its guards and early returns, and the order
of the stores. Data is reduced to what the properties tell apart. A handler is a
process with a program counter `pc[h]`; it is used again after it answers, so two
handlers stand for any sequence of requests of which two overlap.

- **`AuditLedger`** is what the audit table promises, with no requests in it: a
  table of values and a log, one action `Record` that changes a row and appends the
  entry that says so. `LedgerExplainsValues`: replaying the log gives the table.
  `LedgerIsChained`: an entry starts where the previous one on that column ended.
- **`AdminModeration`** has the committed `users` and `logs`, and per request the
  actor, target, body and the values read. `Authenticate` is the dependency chain
  on an unlocked row; `LockTarget` the `SELECT ... FOR UPDATE` with everything
  computed from it; `Flush` the INSERT whose foreign key locks the actor's row;
  `Commit`, `Fail` and `Reload` the transaction's end. `DeadlockAbort` breaks
  a cycle of waits. `ImplementsLedger` is the refinement to `AuditLedger`.
- **`OneTimeCode`** is what `OTPService` promises its callers, with no Redis in it: per
  purpose at most one code and a budget of guesses. `Issue` sets both, `WrongGuess`
  takes one guess, and a code ends by `Accept`, by its last guess or by `Expire`.
- **`OneTimePassword`** has the four keys of a purpose with their TTLs in ticks.
  `AcquireSendSlot`, `SaveOtp` and the outcomes of `verify_and_consume` (`Consume`,
  `Reject`, `NothingToVerify`) are one script run each; `Tick` ages every key.
  `ImplementsOneTimeCode` maps the stored code to the abstract one and what the attempt
  counter leaves of `MaxAttempts` (`AttemptsLeft`) to its budget; the counter's own
  key and TTL, and the two keys of the throttle, have no counterpart.
- **`PasswordSessions`** has the row's password and `token_version`, the tokens
  handed out (each with the version it carries and, as history, the password proved
  and the write it followed), the codes outstanding, and what each handler read.
  `raced` records that a write's copy was no longer the row.
- **`LoginRateLimit`** has the two counters with TTLs; an attempt is counted by
  `AcquireAttempt`, compared (`Fails`, `Matches`) and given back (`Reset`,
  `ResetFails`); `FailOpen` is an attempt let through while Redis is away. `failed`,
  `stray`, `lost`, `counted` and `checks` are history: what the counters stand for.
- **`Posts`** has the rows of posts and the categories. A handler reads a row into
  `copy`, decides the row as it should be (`new`), and `Update` writes the columns
  in which the two differ. `Reassign` and `Drop` are the two statements of a
  category's deletion with the row locks between them; `DropFails` is
  the refusal of the foreign key or any other failure. `MCPosts` gives bodies and images.
- **`Discussion`** has the comments (a row's id is its position), the likes and the
  posts that are hidden. `WriteComment`, `CheckParent`, `Save`, `Reread` are the
  steps of one request. `Visible` is `visible_comments`. `Toggle`, `Look`,
  `Add`/`Remove` are the like button.
- **`Accounts`** has the nickname and avatar of each user, the upload rows and the
  files. A request's `job` says where it stands, whose copy it has and the file it has
  written. `SaveFile` comes before `AvatarStored` or `UploadStored`, `RemoveFile` after
  them; `StoreFails` is a commit without effect and `AvatarStoredRaises`,
  `UploadStoredRaises` one with effect whose refresh raises; `Crash` ends a request where it
  stands. `crashed`, `stuck`, `overtaken` and `unacked` are history: why a file was left
  behind.

- **`ClientAddress`** is `get_client_ip`: `Walk` is the loop from the right over the
  forwarded hops and the peer, `Malformed` the parse that discards the whole header.
- **`RequestCounters`** composes it with the two counters that are not about logins.
  A reader's request is `Open` (lookup and client address, over every header the
  client may send and every route of trusted proxies), `Deduplicate` (`SET NX EX`) or
  `DeduplicationRaises`, then `CountView` or `CountFails`. A write-rate key takes one
  script run at a time: `Consume`, `Refuse` or `FailOpen`, which happens before or after
  the script has had its effect. `Tick` ages all keys, `RedisRestart` empties Redis
  (`docker-compose.yml:34`), `Crash` ends a request where it stands. `owner`, `firsts`, `granted`,
  `lost`, `written` and `told` are history: whom a request comes from, what was
  counted and what should have been, what a refused user was told.

A `Crash` of `Accounts` or `RequestCounters` is of one request: a cancelled task, or one
request of a process that ends. All requests of a process are as many crashes in a row,
and with several workers the others go on. In the other modules a request that ends early
is one whose store fails (`Fail`, `SaveFails`, `WriteFails`, `DropFails`), or one that
takes no further step, which nothing there obliges it to.

The operators next to a definition with a longer name that is not used by `Next`
(`FailBetweenTwoCommits`, `CopyValue`, `AnyDepth`, ...) are its plausible wrong
versions: put in place of the right one, they make the property named in
`PROJECT.json` fail, which shows that the property depends on that line of code.

## 4. Runs

| run | instance | what it shows |
|---|---|---|
| `moderation_pair` | 3 accounts (2 managers), 2 requests, revoke, grant, ban, suspend, 2 days | ledger promises, refinement, authority, lockouts take an overlap, every request is answered |
| `moderation_lockout` | 2 managers, 2 requests | **violation**: two requests remove the last manager |
| `otp_reset` | 1 purpose, 2 senders, 2 codes, 3 guesses, 2 sends | limits of a code and of the sends, refinement of `OneTimeCode`, throttles open again |
| `sessions_account` | 1 change, 1 reset, 2 logins, 3 codes | a write ends every older session until writes race; one code per write |
| `sessions_lostupdate` | 1 change, 1 reset, 1 login | **violation**: concurrent writes store one version |
| `login_limit` | 2 accounts, 1 address, 2 attempts, limits 2 and 3, 1 outage | what the counters hold, bounds, reopening |
| `posts_editor` | 2 posts, 2 categories, 1 editor, 2 others | nothing undone, thumbnail follows the body, deletion of a category refused only for late arrivals |
| `posts_thumbnail` | 1 post, 3 bodies, 2 editors | **violation**: thumbnail of another body |
| `discussion_scenes` | three scenes: 2 posts, 3 comments, 2 handlers; 1 post, 1 comment, 3 handlers of 2 users; 2 posts, 2 like handlers | answers shown with their parents, deletions last, authors only, likes follow presses |
| `discussion_reread` | 1 post, 1 comment, 3 handlers of 2 users | **violation**: the post to answer with is gone |
| `accounts_files` | 2 users, 2 nicknames, 3 files, 2 requests | named files exist, leftovers have a cause, only renames are refused |
| `request_counters` | two scenes: 1 post, 2 readers, 2 clients, routes of up to 2 proxies, 4 headers; 2 keys with limits 2 and 1; 1 outage, 1 restart | whom a request is accounted to, views and writes per window, no increment lost, Retry-After kept |

**Why these bounds.** The races here are between two handlers and one row, so two
handlers of each kind suffice, three where a third could separate two (a login
between two writes, an edit and a deletion by one user under another's eyes). Three
accounts are needed for two managers and a bystander, and two requests already close
the shortest cycle of waits, each holding the account the other acts as. Three comments give a root,
an answer and an answer to it, the shortest thread the depth rule forbids. Limits
of 2 and 3 let a counter be below, at and refused; windows of 2 to 8 ticks let
keys expire before, between and after the steps of a request. Three bodies with
two images give two edits that do and do not change the image. `MaxNow`,
`MaxCodes`, `MaxOutages` and `MaxComments` bound the clock, the codes sent, the
Redis failures and the table; three files are one to replace and one for each
of two requests that replace it. No property mentions these bounds, and no theorem depends
on their values. The posts of `posts_editor` are interchangeable, and TLC is told
so (`Interchangeable`), and so are the users, nicknames, files and requests of
`accounts_files` (`Symmetry`): these runs check no liveness, for which symmetry would
be unsound.

`discussion_scenes` and `request_counters` are each several instances in one run: a
variable `scene` of the MC module, chosen at the start, says which handlers act. What
the scenes keep apart shares no state a property relates: the like button reads and
writes no comment, and views and write-rate keys meet only in the clock and the
faults. In `request_counters` the clock runs for 6 ticks over windows of 3 and 2 (two
window ends and what lies around them), for 2 in the scene of the readers, whose key lives
2; it starts with any keys earlier requests may have left, so that a window may
end right after the first write.

A TTL counts whole ticks; Redis reports it rounded to the nearest second, so
`RetryAfterIsKept` is exact to within a second of real time.

**Fairness.** `OneTimePassword` and `LoginRateLimit` assume only that time passes
(`WF_vars(Tick)`): no verifier, sender or attempt need ever come. `AdminModeration`
assumes that a request which can run does (the event loop and PostgreSQL schedule
it) and that the database breaks a deadlock; requests need not arrive and nothing
need fail. The other modules state safety only and assume nothing.

**Deadlock** is checked where the clock or idle handlers always leave a step. In
`AdminModeration` and `PasswordSessions` requests and codes run out, and a state
with all of them answered has no successor, so it is not.

### Disagreements between the code and what is said of it

1. *The last manager* (`user.py:379-381`): the comment argues that refusing oneself
   as a target keeps one manager. False of two requests that overlap
   (`moderation_lockout`), and only of those: `OnlyOverlapLocksOut`.
2. *Tokens before a password change* (`user.py:256`, `user.py:549`): two writes that
   read one version store one version, and a token issued between them survives
   (`sessions_lostupdate`). Until a write has raced in that way the claim holds
   (`SessionsEndUnlessRaced`).
3. *The thumbnail is recomputed with the body* (`post.py:228-229`): recomputed, but
   not written when it equals the stale copy's (`posts_thumbnail`).
4. *The post is read again with its new comment* (`comment.py:78-81`): it may have
   been deleted; the answer is 500, the comment stays (`discussion_reread`).

Three more are visible in the models and have no run of their own. *Failures stay
counted* (`ratelimit.py:98-107`) does not extend to a window opened after the
successful attempt was counted; `FailuresStayUnlessStray` says what does hold. *A
deleted post cannot be liked* (`post.py:318`) is decided at the lookup: a post deleted
between `Toggle` and `Add` takes the like, which shows only if it is restored. *The order of file and row leaves
no reference without a file* (the repository's `README.md:407`) does not extend to a
commit that takes effect and whose refresh raises: the handler then removes the file the
row has just named. `NamedFilesExist` excepts those files (`unacked`) and no others.

## 5. Proofs

Each `...Proofs` module extends the module it is about and is checked by TLAPS to the
last leaf, for every value of the constants that satisfies the module's `ASSUME`.
The shape is the same throughout: a strengthened invariant, a lemma that `Init`
gives it, one lemma or step per action that keeps it, and a temporal theorem.

- **`AdminModerationProofs`**: first the ledger by itself, `LedgerKeepsItsPromises`. The
  invariant `LedgerInv` says what the first *n* entries say of a column, for every *n*;
  appending changes none of it. Then `ModerationImplementsLedger` and, through the ledger,
  `LogAlwaysExplainsUsers`, `LogAlwaysChained`, `AuthorityAlwaysCommitted`; also
  `LockedReadsStayTrue`, `LockoutTakesOverlap`, `TypeCorrect`. `ModInv` adds to the types that no two requests
  hold one row and that a request's `before` equals the row while it holds it: without
  that, a commit could record a value nobody saw, and the step would not be `Record`.
  `LockoutTakesOverlap` reads the log instead of the table: it entitled the actor when
  its gates opened and no longer does, so an entry in between revoked it.
  `OneAtATimeKeepsAManager`: if no two requests ever overlap (`OneAtATime`), some manager
  remains, so the comment disagreement 1 quotes holds exactly there; the invariant is that
  nothing was committed since an unfinished request authenticated (`NothingMissed`).
  `SomebodyAlwaysGoesOn`, for finitely many requests: they never all wait. A set whose every
  member waits for a member has a smallest such subset, and that is a cycle
  (`WaitersFormACycle`), which the detector may break.
- **`OneTimePasswordProofs`**: `GuessesAlwaysBounded`, `StoredCodeAlwaysUsable`,
  `CodesConsumedOnce`, `OtpTyped` (no counter passes its limit). The key of `CodeInv` is `attemptsTtl >= otpTtl` while a code has
  been guessed at: the counter cannot expire before the code it belongs to, so it
  equals the number of wrong guesses. From that, `ScriptsImplementOneTimeCode`, one script
  at a time (a tick maps to `Expire` for the codes whose TTL ends); `OneTimeCodesKeepBudget`
  is the promise itself, proved of `OneTimeCode` alone. `SendRateAlwaysBounded`: the
  history is the ages of the slots granted. It is not inductive; `WindowLog` says that the
  log has fewer than `n + MaxSends` slots, `n` being the stored counter, and that all but
  the last `n - 1` are at least as old as the open window, whose first slot started it, so
  that the two leave together: in any stretch of one window's length there are fewer than
  `2 * MaxSends`, never exactly as many. `Spaced` says that each is a cooldown older than the
  next, with the cooldown key's TTL making up the difference for the last.
- **`PasswordSessionsProofs`**: `SessionsTyped` and `WritesHaveCodes` without condition;
  `WritesEndSessions` and `TokensKnowPassword` until some write starts from a copy that
  another write overtook (`raced`), which `sessions_lostupdate` shows to be necessary.
  Until then versions only grow, and what a login has read is the row or older:
  `LoginNotAhead` and `TokensNotAhead` are the invariant.
  `WritersOneAtATimeEndSessions` replaces the history by a condition on the requests: if no
  two changes or resets are ever between read and write at once (`OneCopyAtATime`), every
  write ends all older sessions, since each copy is then the row (`CopiesCurrent`).
- **`LoginRateLimitProofs`**: `LimitTyped`, `FailuresMissOnlyByStrays`,
  `SuccessesAlwaysGivenBack`, `ChecksAlwaysBounded`. The counter lies between failures and checks in progress
  less strays, and the same plus lost give-backs; the work is the cardinality of the
  set of counted attempts, which a step changes by at most one. `ChecksAlwaysBounded`
  has the `WindowLog` of the one-time passwords for the checks of an account.
- **`PostsProofs`**: `PostsTyped`, `NoRequestUndoesAnother` (a pending row differs from its
  copy only in the columns its handler is meant to change), `OneEditorKeepsThumbnail`
  (with one editor a copy's body and thumbnail are the row's; necessary,
  see `posts_thumbnail`), `RefusalsAreLateArrivals` (Uncategorized is never dropped, so the
  posts a deletion puts there are nobody's stragglers, and every other arrival is seen by
  each deletion of that category in progress). `ReassignedRowsAreHeld` (`LocksHeld`) and
  `EveryPostHasACategory` (`CategoriesLive`) say what a deletion rests on and what it
  leaves: the rows it reassigned are still where its UPDATE found them, so no post
  is left in a category that is gone. TLC agrees with both on `posts_editor`.
- **`DiscussionProofs`**: `DiscussionTyped`, `AnswersAlwaysHaveParents` (every row's parent
  is an earlier root of the same post, and so is the parent of a comment about to be
  saved: rows never change post or parent, so the check cannot go stale),
  `CommentsOnlyByAuthors` (a copy about to be written was not deleted), and
  `OneToggleEachKeepsCount` under one like request per user at a time.
- **`AccountsProofs`**: `AccountsTyped`; `RefusalsAreRenames` (the constraint keeps
  nicknames apart, and an UPDATE that does not rename leaves the row's own);
  `NamedFilesAlwaysExist`, whose invariant `FilesInv` says that a file waiting for its row
  is named by no row and no copy, that an avatar and every copy of it belong to one user,
  and that what is about to be removed is named by no row; `LeftoversAlwaysExplained`,
  by following each file through the one step that may take it out of a row or a hand.
  `OneUploadEachLeavesNothing` drops the cause `overtaken` where no user has two avatar
  uploads in progress (`OneUploadEach`): what an upload has read is then the row's avatar.
- **`RequestCountersProofs`**: `RequestsAccountedToThemselves` for routes of any
  length (every hop to the right of the client's is trusted and the client's is not, so
  the walk ends there); `ViewsNeverLostToReaders` (a step changes the set of readers about
  to count by at most one); `ViewsAlwaysPerWindow` and `WritesAlwaysPerWindow`, which are
  not inductive: what a key admitted is bounded by what its TTL still forbids.
  `ViewsInv` adds the TTL that is left to the time that passed, and `WritesInv`
  (`Bounded`) holds back what the open window may still allow (`Spare`), so that the
  end of a window gives up exactly what the next one starts with.
  `RetryAfterAlwaysKept`: the answer and the TTL run down together.

Five theorems say what holds while requests of one kind do not overlap.
`OneAtATimeKeepsAManager`, `WritersOneAtATimeEndSessions` and `OneUploadEachLeavesNothing`
have that as a condition on the behaviour beside `Spec`; `OneEditorKeepsThumbnail` and
`OneToggleEachKeepsCount` as an assumption on the handlers (one editor; one like handler
per user). The first two and `OneEditorKeepsThumbnail` have a run that shows the
violation without the condition; without that of the third, files are `overtaken`.
`SomebodyAlwaysGoesOn` assumes that `Requests` is finite.

Model-checked only: liveness (`EveryRequestAnswered`, `ThrottlesOpen`, `LimitsReopen`),
which is outside the prover's reach under fairness. Every invariant and action property
that a run expects to hold is also proved.

## 6. What is not modelled

- Renaming a category: it writes only the name, which no other operation reads, and the
  handler expects the refusal of its unique constraint (`category.py:92-95`). A rename of
  a category that is deleted at the same moment finds no row for its UPDATE and fails, with
  nothing changed.
- `seed.py`: one transaction that inserts what it did not find. Of two at once the
  second is refused by a unique constraint as a whole and can be run again; no state in
  between is ever visible. `promote.py` calls `scalar` and `commit` without `await` and
  stops at the first attribute of the coroutine: there is no state to model.
- Restarts of Redis in `LoginRateLimit` and `OneTimePassword`: they give every counter a
  fresh start and void every code, as `RequestCounters` shows for its keys.
- The mails of two sends in progress: which is read last is decided outside the server.
- Reads: lists, searches, paging, public profiles, the log's pages. They change
  nothing and each is one or two queries.
- Text: validation, formatting, Markdown, hashing, token encoding. A password, a body
  or a code is a value; two are equal or not. An image URL longer than its column
  (`post.py:203`) is one of the commits that fail.
- Mail, static files, migrations, browser scripts: outside the stores handlers share.
- The database beyond what the handlers meet: READ COMMITTED visibility, row and
  foreign-key locks and unique constraints are modelled where a handler depends on
  them and marked external; disk and replication are not.
