# A TLA+ verification of the blog server

The repository is a personal blog: a C++ server on the Crow framework over MySQL, static pages, and
scripts that fill or convert the database. This directory holds TLA+ modules for the parts whose
correctness depends on the order of things, TLC configurations that check them on small instances, and
TLAPS proofs of what matters most for all instances. Paths are relative to the repository (the root is
`src/` in the tables of `PROJECT.json`); `routes.cpp:567` is `src/routes.cpp`, line 567.

## 1. The system

Crow runs the route handlers of `routes.cpp` on several threads. A handler calls, one after the other,
methods of `DataBase` (each one critical section of `mtx_`, over one MySQL connection in autocommit mode),
session functions of `auth.cpp` (each one critical section of `g_sessionsMtx`), the rate limiter (its own
mutex) and, for a submitted exercise, `judgeSubmission`, which starts processes. **Nothing holds across two
calls of a handler**, and no two SQL statements are a transaction: those two facts are where most of the
hard behaviour comes from. Pages run in browsers with several requests under way. Tables survive a
restart; sessions and limiter do not.

| component | state | operations | hard behaviour | what makes it correct | module |
|---|---|---|---|---|---|
| accounts and sessions (`auth.cpp`, `database.cpp`) | `admins` table; `g_sessions` in memory | login, logout, password change, registration, deletion | login and password change are several steps each; cached privilege; restart | the cached `isMain` is right; old sessions end after a password change, but for at most one login per thread | `Accounts` |
| articles (`database.cpp`, `routes.cpp`) | `posts`, `admins.nickname` | create, change, hide, delete; profile; `deleteAdmin`'s hand-over | check and write are two critical sections; two-statement methods without a transaction | who changes an article has owned it; a proper author | `Posts` (with `Accounts`) |
| rate limiter (`routes.cpp:19-62`) | times per key | `allow`, called once or twice per comment | one sweep for keys of different windows; cap | limits hold; nobody is refused without cause; bounded memory | `RateLimiter` |
| question of the day | `daily_questions`, base date, `questions` | lazy choice of the day's question; edits of the bank | edits between choices, midnight inside a call, crash | the same question for all; rotation; no early repetition | `DailyQuestion` |
| daily streaks | `daily_seen` | record an answer, compute the streak | midnight between reading the date and recording | the streak is a counter | `DailyStreak`, `StreakCounter` |
| comments and anonymous identity | `comments`, the `blog_anon` cookie in the browsers | post, reply, edit, hide, delete; minting of identities | several requests in flight, responses lost or in another order | identities are private; visitors change only their own; a browser with one identity keeps what it wrote and can do what its pages offer | `Comments` |
| practice judge (`practice.cpp`) | a child process, its pipes, a temporary directory | compile and run a submission under limits | child, helpers, pipes, clock and `waitpid` racing; every call may fail | verdicts are earned, and given unless what the program left behind keeps writing; nothing is left behind | `Judge`, `Grading` |
| practice progress and page (`practice.js`, `database.cpp`) | `practice_progress`; `doneSet` in the tabs and in `localStorage` | choose, submit, record, mark, load | answers out of order or lost, tabs sharing a store, a page that has moved on | a recorded pass is earned and kept; the page marks what was passed | `Practice` |
| database connection, start-up and migrations | `conn_`; the tables' columns and indexes | connect, ping, reconnect; `initTable`, `seedMainAdmin`, `backfillLegacyPosts`; the exercise import | outage, lost session or kill between any two statements, tables of any age | a start is safe to repeat, serves on complete tables only, leaves articles without an owner only if it has lost its session, and the service comes back | `Startup` |
| character sets (`database.cpp`, `charset_to_utf8.sql`, `gen_seed.py`) | charset of each table, of the connection and of `MYSQL_CHARSET`; texts | detect, align, read, save, import, migrate | a new site's first connect, mixed tables, a script cut off or repeated | what was written is what is shown | `Charset` |
| topics and settings | two small tables | single statements | none beyond the lock | | tables only, in `Startup` |
| question and exercise banks (`tools/`) | | generators of SQL | | | the statements they write, in `Startup`, `Charset`; drivers in `Judge` |
| likes, lists, statistics, uploads, the other pages, rendering | rows, DOM | single statements, forms | none beyond the lock | | not modelled (section 6) |
| Crow, marked, DOMPurify, build output | | | third-party or generated | | not modelled |

`PROJECT.json` lists every component with its status, and under `hazards` what is hard to test in
this code, line by line, with the properties that would catch it going wrong.

## 2. The modules

`Posts` extends `Accounts` (one database, one mutex, one set of sessions); `DailyQuestion` and `DailyStreak` extend
`DailyClock`, the date both read; `DailyStreak` implements `StreakCounter` and `Judge` implements `Grading`, both by refinement mappings; `Practice` uses the verdicts
`Grading` promises in place of the judge. The other modules share no state the others read: what `Comments`
keeps of a rate limiter's refusal is a lost request, what `Practice` keeps of identities is that a token may be
replaced.

### Accounts
`account` and `password` are the `admins` table, `sessions` is `g_sessions`, and `req[w]` is the program
counter with the locals of the request thread `w` serves. A login is `LoginAdmin` (the
database accepts the password) and `CreateSession`; a password change is `GetSession`, `ChangePassword`,
`DestroySessionsForAdmin`; a deletion is `IsMainAdmin`, then the two statements `ReassignPosts` and
`EraseAdmin`, during which `DbFree` is false because `mtx_` is held. `Restart` empties the
sessions and drops the requests. A session carries two history fields: `cred`, whether the password it
was granted for is still the account's, and `by`, the thread that served its login. Nothing is assumed of the
tokens: `generateToken` draws from a generator seeded with 32 bits (`auth.cpp:29`), so `CreateSession` takes any token, and
one that is in use loses its session to the new login (`g_sessions[token] = s`).

### Posts
`task[e]` is the article request of thread `e`: check (`AskAuthor`) and write (`ApplyChange`), nickname
(`AskNickname`) and insert (`AddPost`), and the two statements of `updateProfile`; `deleteAdmin`'s first statement
is composed with its effect on articles (`DeleteAdminMovesPosts`). Statements whose failure the code ignores or takes
for "no such row" may fail (`failed` remembers that one did); the others' failure only refuses the request.

### RateLimiter
`hits` is the map; a call of `allow` is one action: `Swept` (every key with the *caller's* window),
`Capped`, then refusal or a new hit. A request calls it for its address and then, with a cookie, for its
visitor; between the two anything may run. `granted` is the history of hits since the map was last
emptied.

### DailyQuestion
`TodayStr` is `getDailyQuestion` taking the lock and reading the date; `GetDailyQuestion` is the rest: the stored row,
or the choice (`Generate`: category and start by day index, probe over the recent ones, `INSERT IGNORE`, read back). The
bank is edited between calls; `Midnight` may pass inside one; `Restart` kills one, possibly after the base date was
stored.

### DailyStreak, StreakCounter
`DailyStreak` is the table `daily_seen` and the computation of `getDailyStreak`: `GetDailyAnswer` takes the lock and reads the
date, `RecordSeen` inserts the row, and midnight or the end of the process may come between. `StreakCounter` is what the
documentation describes: a counter per visitor. `DailyStreak` implements it under the mapping *last day
seen, streak as of that day* (`StreakIsCounted`).

### Comments
`request[ch]` is a request or its response on the way. A request carries the cookie its browser had when it was
sent. The handler of a comment (`AddComment`) or of the two other routes that give out identities (`Visit`)
mints a token when there was none and sends it back; `Receive` stores it over whatever the browser
holds; `Lose` loses either. `givenTo` and `writer` are history. Editing and deleting follow the `WHERE` clauses,
`Mine` and `CanEdit` the conditions with which `getComments` decides what a page offers; `fresh` stands for the
30 minutes. What a browser owns follows its cookie, and the cookie may be replaced: two requests sent before the first
response came back get an identity each (`CommentsIdentity`), and a lost response leaves a comment without a writer.
`SettledWritersKeepTheirComments` says where this ends: once every request of a browser under way carries the cookie it
holds, that stays so whatever is lost or late, everything it is told is its own and everything it writes remains its own, and
its deletions and timely edits are carried out.

### Judge, Grading
`Judge` is `judgeSubmission` with both calls of `runProcess`, one action per system call that others can interleave
with: pipes, `fork`, the closing of the write ends, then the loop `ReadOutput`, `Wait`, `LookAtClock`, `Reap`, and
`Drain` and `Conclude` after it. Around it move the child (writes, starts helpers, leaves files, ends by itself or by a
signal), the helpers that keep the pipe open, a child another thread forks in the moment in which the write ends are
inheritable, and the clock. `helper` stands for all processes the child has started and those they have: `RLIMIT_CPU` counts
each process from zero and `RLIMIT_NPROC` is void for root (`practice.cpp:13`, 72-86), so a program's helper that was quiet
or gone may be followed by one that writes, as often as it likes. `pipe` counts the "FAIL:" lines not read yet; `wrote`,
`fate` and `endedAt` are history: what really happened to the child, and at which step of the judge it ended by itself.

A program that ends between `waitpid` and the look at the clock is told "timeout" when the limit is over by then, even if
it ended with 0 and in time: `VerdictIsEarned` names this one exemption (`Overlooked`) and claims every other case, ends
after the limit that a `waitpid` still sees included.

`Grading` is what a caller sees: *a submission is taken*, *its verdict*, and *held*: processes the program left behind are
writing while the judge drains the pipe. Its fairness says that a verdict is given unless the judge is held again and again.
The escape is the code's: `drainPipe` reads as long as there is something and looks at no clock (`practice.cpp:116`).

### Practice
The tabs of one browser, the calls they have under way (`Slot`), `stored` (the browser's `localStorage`) and `progress`
(the table). Each call is sent, answered by the server and received by its page, in any order, or lost. `Judge` of this
module is the handler of a submission: identity, verdict, recording (which may fail unnoticed) and reply. `VerdictArrives` marks
whatever the page shows at that moment, as the code does; `strayed` is the history of a verdict that met another exercise.

### Startup
`InitTable` is the list of `initTable`'s statements, each with the part it makes, what it needs and what comes with
it, in the order of the code; `at` is the next one. `ColumnExists` and `AddColumn` are two steps. The constant `Old` is
the set of schemas an earlier version may have left. The back-fill of the articles' owners is two statements: the query of `getMainAdmin`, whose
failure the code takes for "there is none" (`database.cpp:1831`) and passes over without a word (`SkipBackfill`), so that the start
comes to its end with `author_id = 0`; and the `UPDATE`, which throws. `lost` is the history that this start has lost its session.
`DatabaseStops`, `SessionEnds` and `Killed` come between any two statements; `CheckConnection` is a ping with the reconnect, which may fail and leave `conn` null, and `PingNull` is
what the next request does with it. The import of `gen_practice_seed.py` runs beside the server as a client of its own.

### Charset
A text is its *level*: how often its UTF-8 has been taken for latin1, or `LOST` when it has become question marks.
`Connect`, `Align` (after `initTable`, whose `Backfill` of author names may be passed over) and `Reconnect` choose the connection's charset; pages read and save through it, editors save what they have read, the
import and the migration script write with charsets of their own. `routeB` is the history that the README's procedure was
followed.

## 3. The runs

`tlc -config <run>.cfg <module>` with the module `MC...`. Properties are described at their definitions.

| run | bounds | shows |
|---|---|---|
| `Accounts` | 2 accounts, 2 passwords, 2 tokens, 2 threads | privilege and old-session invariants, at most one login per thread slips past a purge; with fairness, that old sessions end |
| `Posts` | 2 accounts, 1 article id, 2 article threads, 1 account thread, 2 logins | `deleteAdmin` leaves no article to the erased account; named authors; who writes once owned |
| `Limiter` | 2 addresses, 2 visitors, 2 threads, at most 2 per address, windows 3 and 1, 2 keys, 4 ticks | visitor limit, burst limit, no refusal without cause, bounded map |
| `Daily` | 3 questions, 2 categories, 3 days, window 1 | same question for all, no repetition in the window, rotation |
| `Streak` | 2 visitors, 6 days, cap 3 | the table implements the counter; midnight takes nobody's streak |
| `Comments` | 2 browsers (one staff), 2 identities, 2 comments, 2 requests under way | identities private, visitors keep to their own, settled browsers keep their comments and their buttons work |
| `Judge` | 3 test cases, exit codes to 4, 3 lines in the pipe | earned verdicts, no report lost, clean end; implements `Grading`, its liveness included |
| `Practice` | 2 tabs, 2 exercises (one to code, one to answer), 2 identities, 2 calls under way, 2 passes, verdicts passed and failed | a recorded pass is kept; only a stray verdict misleads; the button comes back |
| `PracticeDone` | the same with 1 tab | **violated**: an exercise is marked that was not passed (section 4) |
| `Startup` | tables of five ages and none, 3 faults | upgrades are safe, unowned articles are served only by a start that has lost its session, an import after a start works, only the import's own column can be in a start's way, the service always comes back |
| `Charset` | an article with its author, a nickname and a question in three tables, texts to level 2 | a new site stays clean, one charset is harmless, the migration by the book restores |
| `CharsetTwice` | same | **violated**: the migration's guard lets true Chinese through (section 4) |

The bounds are the smallest at which the cases happen. Every interleaving hazard of accounts and articles needs two
requests (one step of one between two of the other) and at most one more actor (a password change during a login with
an old session besides: two tokens, two threads; three threads were run once by hand); two logins exist in `Posts` so that a main administrator and another are
logged in together. The limiter needs a window longer than the other,
time for both to pass, and one key more than fits. The rotation needs two categories of which
one has two questions and two days that may be more than one apart; the streak a run longer than its cap and a gap.
In `Comments` a reply needs two comments, an identity race two requests, and a stranger a second browser. `Judge` needs an
exit code above the number of cases (the clamp) and a pipe that takes some of a child's lines and not all (a
child that blocks on a full pipe). `Practice` needs two exercises (the one submitted and the one shown), two calls (a
verdict and a selection, or a late list) and two tabs over one store. `Startup` needs an outage in the start, one while
serving and a kill besides; the ages in `Old` are no tables, articles only, the oldest with accounts and exercises, one a
cut-off start may leave, and two that lack a single late column each. `Charset` needs a text that is copied into another
table (the author), one that is edited, and one that is imported; level 2 is what a second escape makes.
The parameters that stand for a limit of the code (`IpMax`, `StreakCap`, `RecentDays`, ...) are smaller than in the
code; the code uses them only in comparisons that the models keep. The largest runs are `Posts` and `Comments` (1.8 million states each,
some two minutes).

**Fairness.**

- `Accounts`: weak fairness of each step of a request that Crow has started (`Serve`). A handler is straight-line code on
  a thread of its own and the mutexes are held for a bounded time, so a started request goes on unless the process dies
  (`Restart`). No client is assumed to send anything.
- `Judge`: the judging thread is scheduled (`JudgeStep`), time passes (`Expire`), and a compiler that a killed g++ has left
  behind stops writing (`CompilerStops`): it forks nothing, so `RLIMIT_CPU` (`practice.cpp:72`) does bound it. Nothing is assumed of the
  submitted program, nor of what it has started: the limit is per process, and a chain of writers never meets it.
  That is why `Grading` promises an answer only if the judge is not held again and again.
- `Startup`: the process goes on, the supervisor restarts one that has ended (`docs/practice-sandbox.md:25` names the
  systemd service), requests keep coming, and the database is started again some time. The faults are finite because
  `MaxFaults` bounds them: what is shown is that the service comes back after the last.

Deadlock is checked in every run.

## 4. Where the code and its texts disagree

Two listed runs are violated. `PROJECT.json` quotes the lines.

- `PracticeDone`: `doneSet` is documented as the exercises that were passed (`practice.js:31`), and a verdict marks whatever is shown
  when it arrives (`practice.js:1120`). Open another exercise while the judge works, and that one is marked.
- `CharsetTwice`: `charset_to_utf8.sql:39` compares `CONVERT(x USING latin1)` with that value converted to utf8mb4;
  both sides have lost what latin1 cannot hold, so the guard holds of *every* text. True Chinese becomes question marks, which the
  script's header (lines 18-23) and README.md:733-741 exclude.

Eleven configurations besides, run by hand in the same way, state one property each that a reader would expect or a text
promises, and that TLC finds violated. They are kept beside the passing runs because the passing properties are best read next to them.

| configuration | module | what TLC shows |
|---|---|---|
| `AccountsLogout` | `MCAccounts` | a password change destroys the sessions that exist, not one a login is about to store (`routes.cpp:224`) |
| `PostsOwnWrites` | `MCPosts` | `DELETE /api/posts/<id>` goes on when no owner was found, and all three article handlers write by id alone after a check made in an earlier critical section (README.md:787) |
| `PostsOwners` | `MCPosts` | `deleteAdmin` leaves sessions alive, and `addPost` asks for no account (`database.cpp:1939`) |
| `PostsAuthors` | `MCPosts` | the nickname is copied to articles in a statement of its own, and read for new articles in an earlier one (`database.cpp:2042`) |
| `LimiterAddress` | `MCRateLimiter` | `allow` sweeps all keys with the caller's window, so the 10 s visitor calls shorten the 60 s address limit (`routes.cpp:22`) |
| `CommentsIdentity` | `MCComments` | two first requests of one browser get two identities, and one of them is lost (README.md:828, `routes.cpp:575`) |
| `JudgeDirectory` | `MCJudge` | "only the files we wrote" (`practice.cpp:304`): the program may leave one of its own, `rmdir` fails and the directory stays |
| `JudgeDrain` | `MCJudge` | `practice.cpp:111` and `:231` say that the write ends are closed when `drainPipe` is called, so that it reads to the end of the file; a process the child has started, or a child forked by another thread, may hold one and write on |
| `StartupOwners` | `MCStartup` | `database.cpp:625` says that historic articles all go to the main administrator; a session lost just before the back-fill makes `getMainAdmin`'s query fail, which is taken for "no main administrator", and the process serves articles with `author_id = 0` until the next start |
| `StartupOutage` | `MCStartup` | `checkConnection()` "reconnects" (README.md:1018): if the reconnect fails, `conn_` is null and the next request's ping ends the process (`database.cpp:217`) |
| `StartupImport` | `MCStartup` | the import adds the column `solution` only, and `docs/practice-sandbox.md:14-26` runs it *before* the first start of the new version, when `options` and `answer` are missing too (`gen_practice_seed.py:8196`, against 8202-8207) |

Two more were noticed and have no configuration, because the models leave out what is read: `getPostById` withholds hidden
articles but not drafts (`database.cpp:823` against README.md:786), and `deleteComment` removes direct replies only
though its comment speaks of all (`database.cpp:1375`).

## 5. What is proved

`tlapm <module>.tla`. The theorems hold for every value of the constants, finite or not where no assumption says otherwise, under the
assumptions named in the modules (the main account is one of the accounts; the words used for "none" are no members of the sets; positive
bounds; a finite bank; no earlier version has left a table or column that this one does not make).

| module | theorem | argument |
|---|---|---|
| `PostsProofs` | `TypeCorrect`, `PrivilegeIsAuthentic`, `OutdatedSessionsAreDoomed` | about `Accounts`; each invariant is inductive together with the types; a password change relabels sessions without touching tokens or owners, and itself becomes the pending purge |
| | `FewSlipThrough` | at most one session or login per thread rests on an old password once no purge is pending: a change makes its own purge pending, a purge leaves no session and every thread at most its one login, and a thread with a login under way for the old password stores it before it serves another (`SlipStep`) |
| | `PostsImplementAccounts`, `SessionsStaySound` | every step of `Posts` is, on the variables of `Accounts`, one of its steps or a stutter; so what holds of the sessions there holds with article requests running too |
| | `PostsTypeCorrect`, `ErasureIsClean` | no article request takes a step inside `deleteAdmin` because `mtx_` is held |
| | `WhoWritesHasOwned` | strengthened by `Owned`: the current owner is among the past ones, which only grow, and an article id that was found is never an unused one again |
| | `AuthorsAreNamed` | strengthened by `Logged` and `Signed`: accounts come and go once, so a request that found no nickname writes for an account that stays gone |
| `RateLimiterProofs` | `VisitorsAreLimited` | strengthened by: a hit of a visitor that is still in its window is still in the map, since no sweep uses a shorter window (`TokWindow <= IpWindow`) and emptying empties the history too |
| | `TheMapIsBounded`, `BurstsAreLimited`, `NobodyIsRefusedWithoutCause` | from `Account`: hits are grants, no more per address than `allow` lets in, no more keys than it empties; finite sets of which a sweep removes and a grant adds one |
| `DailyProofs` | `DailyTypeCorrect`, `ScheduleIsImmutable`, `EveryoneGetsTheSame` | a stored row never changes, and what is told is what is stored |
| | `CategoriesTakeTurns` | strengthened by `TurnsDue`: a row's category is the one whose rank is the day's index modulo their number; two days with one remainder have one category, and ranks are injective |
| | `NoEarlyRepetition` | the last `RecentDays` rows are few enough that a category with more questions has one outside them, the probe finds it, and a row within the window is among the last ones |
| | `StreakTypeCorrect` | about `DailyStreak` |
| | `StreakIsACounter` | refinement, with the invariant `DaysInOrder` (no recorded day is after the date of the call under way, nor that after today, since `mtx_` keeps other calls out); the run of days up to a given one exists and is unique (a least element, no induction), the `LIMIT` newest days contain it, and a day that is later than all others lengthens it by one or starts it afresh |
| | `StreakIsShownRight` | from the same: the run up to today, or to yesterday, is the run up to the last day, or empty |
| `CommentsProofs` | `CommentsTypeCorrect`, `IdentitiesArePrivate`, `VisitorsTouchOnlyTheirOwn` | strengthened by: an owner is always a token given to somebody (`OwnersExist`), so minting a fresh token changes no owner's writer; the action property then follows because who presents a comment's owner is its writer |
| | `SettledWritersKeep` | no request that carries a cookie is answered with another (`SettledStep`), a live comment keeps its owner (`OwnersRemain`), what is written with a cookie is owned by it (`WrittenIsOwn`), and the conditions of `deleteComment` and `updateCommentContent` follow from those of `getComments` under the same cookie (`OffersAreHonoured`) |
| `JudgeProofs` | `JudgeTypeCorrect`, `VerdictsAreEarned`, `NoReportIsLost`, `NothingIsLeftBehind` | inductive together: `Phase` (what each stage and step imply about child and descriptors), `Counted` (what the child wrote is in the pipe or read, and nothing else is unless it has a helper), and `Outcome` (the three properties themselves); for `VerdictsAreEarned`, `Phase` ties `endedAt` to the judge's steps: a child that is told timeout and was not killed ended between `waitpid` and the clock |
| | `JudgeGrades` | every step of `Judge` is a step of `Grading` (`Take`, `Give`, `Hold`) or changes nothing a caller sees; that a verdict comes is TLC's |
| `PracticeProofs` | `PracticeTypeCorrect`, `RecordedProgressIsEarned`, `RecordedProgressIsKept` | a verdict is recorded for the exercise and identity of its call; recording takes the larger of old and new |
| | `StrayVerdictsAlone`, `TheButtonComesBack` | `CallsOK` and `Misled`: what any store, list or answer under way carries was passed unless a verdict strayed; a tab has at most one submission under way |
| `StartupProofs` | `StartupTypeCorrect`, `UpgradesAreSafe` | the 32 statements of `InitTable` one by one (`Table`), and that what each needs is made by those before it (`NeedsAreMadeBefore`); then `Progress` (a start has left behind what the statements before `at` make) and `Answered` (what it knows of a column is still so, for nobody takes one away); the back-fill is passed over only by a start that has lost its session, or where there is no administrator, which there is by then (`ThereIsOneThen`) |
| | `CompleteForGood`, `ImportsAfterAStartWork` | `Lasting`: once a start has come to its end nothing is missing, so later starts and imports add nothing, and the import's look finds its column; `CompleteForGood` claims of owners only what the code keeps: once articles have them, nothing takes them away (a start that served may have left them without) |
| | `StartsFailForTheImportOnly` | `StillMissing`: a column found missing still is, unless it is the import's own; the table an import could make with its columns is there before a start looks for them |
| `CharsetProofs` | `CharsetTypeCorrect` | |
| | `AFreshSiteStaysClean` | invariant `Clean`: tables this version makes are utf8mb4, and what is under way was read through the same charset |
| | `OneCharsetShowsWhatWasWritten` | invariant `OneForm`: with one charset spoken all texts are of the one level that it shows right |
| | `TheMigrationRestores` | invariant `ByTheBook`: the columns before the script's position are converted, those from it on are not |

Every invariant and action property of the passing runs is stated by one of these theorems, and so is the refinement `StreakIsCounted`.
Only model-checked are the liveness properties `OutdatedSessionsEnd` and `ComesBack`, and in
`ImplementsGrading` that a verdict is given (its safety part is `JudgeGrades`): liveness under fairness and `ENABLED` are
out of the prover's reach. TLC evaluates the assumptions on every instance.

## 6. What the models leave out

*In the modelled components.* Texts, nicknames' contents and other data no property tells apart; the random bits of tokens (the `randomHex(16)` of `Comments` and `Practice` is
assumed to mint none twice; of session tokens nothing is assumed); expiry of the cookie and of the staff's sessions in `Comments`; the article a comment belongs to, which nothing in the
code ties to it; failures of statements whose failure merely refuses the request; a failing `INSERT` of the day's
question; a failing `waitpid`, which nothing in the program can cause; that a stranger who inherited the judge's pipe writes into it (a child of
another judgement has pipes of its own for its output); `CleanEnd` allows the directory a program has littered and the two descriptors that a
failing second `pipe()` leaks (`practice.cpp:133`); in `Charset` the import writes one question in one
step.

*Components.* Likes, article lists, statistics, settings and topics are one statement each under the lock; the upload
writes a file with a random name; the pages other than practice keep no state that outlives a request except a page number; rendering
and themes are layout. Crow, marked, DOMPurify and highlight.js are third-party.

*Python.* Nearly all lines of `src/tools` are the question and exercise banks: `tools/qbank/*.py` and most of
`gen_practice_seed.py` are lists of texts (questions, answers, drivers in C++ strings), which run once to print SQL and
have no behaviour of their own. What acts, the statements they print against tables of any age, charset and moment, is modelled in
`Startup`, `Charset` and (the drivers) `Judge`; the rest could be mapped only by calling data a model.

*Hazards of the code that no module covers.* A topic list emptied on purpose is filled again from the articles by the next start
(`database.cpp:310`); comments stay when their article is deleted and may be added to one that is gone
(`database.cpp:1000`); a scheduled question that is deleted leaves its day without one (`database.cpp:2457`); paging
answers arriving in another order (`daily.js:383`); two clicks on a like under way at once (`post.js:384`); the first
password is printed after its row is committed, so a crash between the two loses it (`database.cpp:1817`).

## 7. What is left

- A page module for the bank listing and likes (responses out of order), of the kind of `Practice` but smaller.
- Articles with the comments that belong to them, and their visibility (`hidden` and `status`) as `getPostById` and the lists see it.
- Proofs of the liveness properties, should the prover come to treat `ENABLED`.
