------------------------------ MODULE Startup ------------------------------
(***************************************************************************)
(* The server process and its one connection to the database: the          *)
(* constructor of DataBase connects and brings the tables up to date,      *)
(* statement by statement, then the routes serve; a request pings the      *)
(* connection first and reconnects.  A client beside it imports the        *)
(* exercises of the practice page (tools/seed_practice.sql).               *)
(*                                                                         *)
(* The database, the process and the session between them may go away      *)
(* between any two statements.  The supervisor starts the process again.   *)
(*                                                                         *)
(* Abstracted: a table is what the statements depend on, that is, its      *)
(* name, the columns that are not as old as the table, and an index;       *)
(* rows are the articles with or without an owner and the main             *)
(* administrator.  Charset has the charset of the connection.              *)
(***************************************************************************)
EXTENDS Naturals, Sequences, SequencesExt

CONSTANTS
    Old,       \* the schemas an earlier version may have left
    MaxFaults  \* bound: outages, lost sessions, kills and imports

VARIABLES
    up,        \* the database server runs
    at,        \* 0: no process, 1..: the next statement of initTable, Serving
    conn,      \* conn_: "none" without a process, else "alive", "dead" or "null"
    present,   \* what columnExists, indexExists or getMainAdmin has answered, "unknown" before
    lost,      \* history: this start has lost its session on the way
    schema,    \* the parts of the tables
    articles,  \* "none", or whether they are "unowned" (author_id = 0) or "owned"
    mainAdmin, \* there is a main administrator
    served,    \* history: some start has come to its end
    import,    \* 0: none runs, 1..: the next statement of the import
    lacking,   \* @ddl: the import found no column solution
    after,     \* history: the import was begun when a start had come to its end
    faults     \* faults so far

database == <<schema, articles, mainAdmin>>
client == <<import, lacking, after>>
process == <<at, conn, present, lost>>
vars == <<up, process, database, served, client, faults>>

-----------------------------------------------------------------------------
(***************************************************************************)
(* A statement of initTable: what it does, to which part, what comes with  *)
(* it, and the parts without which it fails.  A table's own name stands    *)
(* for its oldest columns.                                                 *)
(***************************************************************************)
Create(t, with) == [does |-> "create", part |-> t, with |-> with, needs |-> {}]
AddAfter(c, needs) == [does |-> "add", part |-> c, with |-> {}, needs |-> needs]
Run(does, needs) == [does |-> does, part |-> "none", with |-> {}, needs |-> needs]

PostsFirst ==
    <<Create("posts", {"posts.topic", "posts.summary", "posts.status", "posts.likes",
                       "posts.hidden"}),
      AddAfter("posts.topic", {"posts"}), AddAfter("posts.summary", {"posts"}),
      AddAfter("posts.status", {"posts.topic"}), AddAfter("posts.likes", {"posts.status"})>>
Topics ==
    <<Create("topics", {}), Run("fill_topics", {"topics", "posts.topic"}),
      AddAfter("posts.theme", {"posts.topic"})>>
Comments ==
    <<Create("comments", {"comments.parent_id", "comments.hidden"}),
      AddAfter("comments.parent_id", {"comments"}), AddAfter("comments.hidden", {"comments"}),
      AddAfter("comments.owner_token", {"comments"}),
      AddAfter("idx_comments_owner", {"comments.owner_token"})>>
Questions == <<Create("questions", {}), Create("daily_questions", {}), Create("daily_seen", {})>>
Admins ==
    <<Create("settings", {}), Create("admins", {"admins.nickname", "admins.avatar"}),
      AddAfter("admins.nickname", {"admins"}), AddAfter("admins.avatar", {"admins.nickname"}),
      Run("name_admins", {"admins.nickname"}), Run("seed_admin", {"admins.nickname"})>>
Practice ==
    <<Create("practice_chapters", {}),
      Create("practice_exercises", {"exercises.options", "exercises.answer",
                                    "exercises.solution", "test_driver_null"}),
      AddAfter("exercises.options", {"practice_exercises"}),
      AddAfter("exercises.answer", {"exercises.options"}),
      AddAfter("exercises.solution", {"exercises.answer"}),
      Run("test_driver_null", {"practice_exercises"}),
      Create("practice_progress", {})>>
PostsLast ==
    <<AddAfter("posts.author_id", {"posts"}), AddAfter("posts.hidden", {"posts.likes"}),
      Run("backfill", {"posts.author_id", "admins.nickname"})>>

Swapped ==   \* mutant: theme and author are migrated before the columns they come after
    Practice \o Topics \o PostsFirst \o Comments \o Questions \o Admins \o PostsLast
Unchanged == \* mutant: test_driver stays NOT NULL in old tables
    PostsFirst \o Topics \o Comments \o Questions \o Admins
        \o SelectSeq(Practice, LAMBDA s : s.does # "test_driver_null") \o PostsLast
InitTable == PostsFirst \o Topics \o Comments \o Questions \o Admins \o Practice \o PostsLast

Serving == Len(InitTable) + 1
Complete ==
    {"test_driver_null"}
        \cup {s.part : s \in {t \in ToSet(InitTable) : t.does \in {"create", "add"}}}

\* No version has had a table or a column that this one no longer makes.
ASSUME StartupAssumption == Old \subseteq SUBSET Complete /\ MaxFaults \in Nat

(***************************************************************************)
(* A statement of the import, with what it needs.                          *)
(***************************************************************************)
ExerciseColumns == {"practice_exercises", "exercises.options", "exercises.answer",
                    "exercises.solution"}
Import ==
    <<Create("practice_chapters", {}),
      Create("practice_exercises", (ExerciseColumns \ {"practice_exercises"})
                                       \cup {"test_driver_null"}),
      Create("practice_progress", {}),
      Run("look", {}), Run("alter", {"exercises.answer"}),
      Run("chapters", {"practice_chapters"}),
      Run("code", ExerciseColumns), Run("choice", ExerciseColumns \cup {"test_driver_null"})>>

TypeOK ==
    /\ up \in BOOLEAN
    /\ at \in 0..Serving
    /\ conn \in {"none", "alive", "dead", "null"} /\ (conn = "none" <=> at = 0)
    /\ present \in {"yes", "no", "unknown"}
    /\ schema \subseteq Complete
    /\ articles \in {"none", "unowned", "owned"}
    /\ mainAdmin \in BOOLEAN /\ served \in BOOLEAN /\ lacking \in BOOLEAN /\ after \in BOOLEAN
    /\ lost \in BOOLEAN
    /\ import \in 0..Len(Import)
    /\ faults \in 0..MaxFaults
    /\ conn = "alive" => up
    /\ import # 0 => up

\* A database as an earlier version left it: articles have owners if that version knew any,
\* and there is an administrator unless its first start was cut off.
Init ==
    /\ up = TRUE
    /\ at = 0 /\ conn = "none" /\ present = "unknown" /\ lost = FALSE
    /\ schema \in Old
    /\ articles \in {"none"} \cup (IF "posts" \in schema THEN {"unowned"} ELSE {})
                             \cup (IF "posts.author_id" \in schema THEN {"owned"} ELSE {})
    /\ mainAdmin \in IF "admins" \in schema THEN BOOLEAN ELSE {FALSE}
    /\ served = FALSE
    /\ import = 0 /\ lacking = FALSE /\ after = FALSE
    /\ faults = 0

Possible(s) == s.needs \subseteq schema

-----------------------------------------------------------------------------
\* Starting.

Exit ==
    /\ at' = 0 /\ conn' = "none" /\ present' = "unknown" /\ lost' = FALSE

\* The constructor's connect; when it throws, the process is gone before anything is done.
Start ==
    /\ at = 0 /\ up
    /\ at' = 1 /\ conn' = "alive" /\ lost' = FALSE
    /\ UNCHANGED <<up, present, database, served, client, faults>>

Current == InitTable[at]
Starting(does) == at \in DOMAIN InitTable /\ Current.does \in does
GoOn ==
    /\ at' = at + 1 /\ present' = "unknown" /\ UNCHANGED <<conn, lost>>
    /\ served' = (served \/ at + 1 = Serving)

CreateTable ==
    /\ Starting({"create"}) /\ conn = "alive"
    /\ schema' = IF Current.part \in schema THEN schema
                 ELSE schema \cup {Current.part} \cup Current.with
    /\ GoOn
    /\ UNCHANGED <<up, articles, mainAdmin, client, faults>>

ColumnExists ==
    /\ Starting({"add"}) /\ conn = "alive" /\ present = "unknown"
    /\ present' = IF Current.part \in schema THEN "yes" ELSE "no"
    /\ UNCHANGED <<up, at, conn, lost, database, served, client, faults>>

SkipColumn ==
    /\ Starting({"add"}) /\ present = "yes"
    /\ GoOn
    /\ UNCHANGED <<up, database, client, faults>>

AddColumn ==
    /\ Starting({"add"}) /\ conn = "alive" /\ present = "no"
    /\ Possible(Current) /\ Current.part \notin schema
    /\ schema' = schema \cup {Current.part}
    \* author_id starts as 0, whatever author says
    /\ articles' = IF Current.part = "posts.author_id" /\ articles # "none" THEN "unowned"
                   ELSE articles
    /\ GoOn
    /\ UNCHANGED <<up, mainAdmin, client, faults>>

RunStatement ==
    /\ Starting({"fill_topics", "name_admins", "seed_admin", "test_driver_null"})
    /\ conn = "alive" /\ Possible(Current)
    /\ schema' = IF Current.does = "test_driver_null" THEN schema \cup {"test_driver_null"}
                 ELSE schema
    /\ mainAdmin' = (mainAdmin \/ Current.does = "seed_admin")
    /\ GoOn
    /\ UNCHANGED <<up, articles, client, faults>>

(***************************************************************************)
(* backfillLegacyPosts asks for the main administrator and gives him the   *)
(* articles.  When it is told of none, be it that there is none or that    *)
(* the query fails, it returns without a word; only its UPDATE throws.     *)
(* What comes after it, the charset, throws nothing either.                *)
(***************************************************************************)
ThereIsOne == conn = "alive" /\ "admins.nickname" \in schema /\ mainAdmin

GetMainAdmin ==
    /\ Starting({"backfill"}) /\ present = "unknown" /\ ThereIsOne
    /\ present' = "yes"
    /\ UNCHANGED <<up, at, conn, lost, database, served, client, faults>>

SkipBackfill ==
    /\ Starting({"backfill"}) /\ present = "unknown" /\ ~ThereIsOne
    /\ GoOn
    /\ UNCHANGED <<up, database, client, faults>>

Idle ==   \* mutant: only articles that nobody has written get an owner
    /\ Starting({"backfill"}) /\ present = "yes" /\ conn = "alive" /\ Possible(Current)
    /\ GoOn
    /\ UNCHANGED <<up, database, client, faults>>
Backfill ==
    /\ Starting({"backfill"}) /\ present = "yes" /\ conn = "alive" /\ Possible(Current)
    /\ articles' = IF articles = "unowned" THEN "owned" ELSE articles
    /\ GoOn
    /\ UNCHANGED <<up, schema, mainAdmin, client, faults>>

\* A statement fails, initTable throws, and main returns.
Refused ==
    /\ at \in DOMAIN InitTable
    /\ \/ Current.does # "backfill" /\ conn # "alive" /\ present # "yes"
       \/ Current.does = "add" /\ present = "no"
              /\ (~Possible(Current) \/ Current.part \in schema)
       \/ Current.does \notin {"add", "create", "backfill"} /\ ~Possible(Current)
       \/ Current.does = "backfill" /\ present = "yes" /\ (conn # "alive" \/ ~Possible(Current))
    /\ Exit
    /\ UNCHANGED <<up, database, served, client, faults>>

-----------------------------------------------------------------------------
\* Serving.

(***************************************************************************)
(* checkConnection, with which every method begins: a dead connection is   *)
(* closed and opened anew; a connect that fails leaves conn_ null, and the *)
(* exception becomes the answer.                                           *)
(***************************************************************************)
Trusting ==   \* mutant: nobody looks whether connect has worked
    /\ at = Serving /\ conn \in {"alive", "dead"}
    /\ conn' = "alive"
    /\ UNCHANGED <<up, at, present, lost, database, served, client, faults>>
Resigned ==   \* mutant: a ping that fails is no reason to connect again
    /\ at = Serving /\ conn \in {"alive", "dead"}
    /\ UNCHANGED vars
CheckConnection ==
    /\ at = Serving /\ conn \in {"alive", "dead"}
    /\ conn' = IF up THEN "alive" ELSE "null"
    /\ UNCHANGED <<up, at, present, lost, database, served, client, faults>>

\* The next request pings a null connection, which the client library follows.
PingNull ==
    /\ at = Serving /\ conn = "null"
    /\ Exit
    /\ UNCHANGED <<up, database, served, client, faults>>

Publish ==
    /\ at = Serving /\ conn = "alive" /\ articles = "none"
    /\ articles' = "owned"
    /\ UNCHANGED <<up, process, schema, mainAdmin, served, client, faults>>

-----------------------------------------------------------------------------
\* The import.

BeginImport ==
    /\ up /\ import = 0 /\ faults < MaxFaults
    /\ import' = 1 /\ after' = served
    /\ faults' = faults + 1
    /\ UNCHANGED <<up, process, database, served, lacking>>

Row == Import[import]
\* The client has the column to add, and somebody has added it, or it has nothing to come after.
Works == CASE Row.does = "alter" -> lacking => Possible(Row) /\ "exercises.solution" \notin schema
           [] OTHER -> Possible(Row)

ImportStatement ==
    /\ import # 0 /\ Works
    /\ schema' = CASE Row.does = "create" /\ Row.part \notin schema ->
                          schema \cup {Row.part} \cup Row.with
                   [] Row.does = "alter" /\ lacking -> schema \cup {"exercises.solution"}
                   [] OTHER -> schema
    /\ lacking' = IF Row.does = "look" THEN "exercises.solution" \notin schema ELSE lacking
    /\ import' = (import + 1) % (Len(Import) + 1)
    /\ UNCHANGED <<up, process, articles, mainAdmin, served, after, faults>>

\* The client stops at the first error.
ImportFails ==
    /\ import # 0 /\ ~Works
    /\ import' = 0
    /\ UNCHANGED <<up, process, database, served, lacking, after, faults>>

-----------------------------------------------------------------------------
\* Faults.

Fault == faults < MaxFaults /\ faults' = faults + 1
Cut ==
    /\ conn' = IF conn = "alive" THEN "dead" ELSE conn
    /\ lost' = (lost \/ at \in DOMAIN InitTable)

DatabaseStops ==
    /\ up /\ Fault
    /\ up' = FALSE /\ Cut /\ import' = 0
    /\ UNCHANGED <<at, present, database, served, lacking, after>>

DatabaseStarts ==
    /\ ~up
    /\ up' = TRUE
    /\ UNCHANGED <<process, database, served, client, faults>>

\* wait_timeout, or a connection that breaks.
SessionEnds ==
    /\ conn = "alive" /\ Fault
    /\ Cut
    /\ UNCHANGED <<up, at, present, database, served, client>>

Killed ==
    /\ at # 0 /\ Fault
    /\ Exit
    /\ UNCHANGED <<up, database, served, client>>

-----------------------------------------------------------------------------
Step ==
    \/ Start \/ CreateTable \/ ColumnExists \/ SkipColumn \/ AddColumn \/ RunStatement
    \/ GetMainAdmin \/ SkipBackfill \/ Backfill \/ Refused
    \/ CheckConnection \/ PingNull

Next ==
    \/ Step \/ Publish \/ BeginImport \/ ImportStatement \/ ImportFails
    \/ DatabaseStops \/ DatabaseStarts \/ SessionEnds \/ Killed

\* The supervisor starts a process that has ended, a process goes on, requests keep coming, and
\* somebody starts the database again.
Fairness == WF_vars(Step) /\ WF_vars(DatabaseStarts)

Spec == Init /\ [][Next]_vars /\ Fairness

-----------------------------------------------------------------------------
(***************************************************************************)
(* Upgrades are safe: from whatever an earlier version left, cut off       *)
(* wherever, with an import running beside it, a start never asks for      *)
(* something that is not there, and a process serves only on complete      *)
(* tables with an administrator.  It serves articles without an owner only *)
(* if its start has lost its session on the way: the back-fill is passed   *)
(* over for no other reason, and the next start makes it good.             *)
(***************************************************************************)
UpgradeIsSafe ==
    /\ at \in DOMAIN InitTable => Possible(Current) \/ present = "yes"
    /\ at = Serving => schema = Complete /\ mainAdmin
    /\ at = Serving /\ articles = "unowned" => lost

(***************************************************************************)
(* "Historic articles (author_id=0) all go to the main administrator",     *)
(* says the comment at the back-fill.  A query of getMainAdmin that fails  *)
(* is taken for "there is none", and the process serves them unowned.      *)
(***************************************************************************)
HistoricArticlesAreOwned == at = Serving => articles # "unowned"

(***************************************************************************)
(* A start with a live connection comes to its end.  It looks whether a    *)
(* column is there and adds it in two steps, and the import may add one    *)
(* between them: then, for that column only, the start fails (and the next *)
(* one finds the column).                                                  *)
(***************************************************************************)
OnlyTheImportIsInTheWay ==
    [][conn = "alive" /\ at \in DOMAIN InitTable /\ at' = 0
         => Killed \/ (present = "no" /\ Current.part = "exercises.solution")]_vars

(***************************************************************************)
(* An import that is begun when a start has come to its end fails at no    *)
(* statement.  (On the tables of an earlier version it may: that is        *)
(* ImportNeedsNoStart.)                                                    *)
(***************************************************************************)
ImportAfterStartWorks == import # 0 /\ after => Works

(***************************************************************************)
(* Whatever is lost, the service comes back, and with a connection.        *)
(***************************************************************************)
Available == at = Serving /\ conn = "alive"
ComesBack == []<>Available

(***************************************************************************)
(* "checkConnection() reconnects": an outage of the database does not end  *)
(* the process that serves.                                                *)
(***************************************************************************)
OutageIsSurvived == [][at = Serving /\ at' = 0 => Killed]_vars

(***************************************************************************)
(* "Old databases are given the missing column, lest the INSERT fails":    *)
(* the import finds or makes the columns it needs, in whatever order it    *)
(* and the first start of the new version come.                            *)
(***************************************************************************)
ImportNeedsNoStart == import # 0 => Works

=============================================================================
