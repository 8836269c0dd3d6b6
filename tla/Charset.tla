------------------------------ MODULE Charset ------------------------------
(***************************************************************************)
(* Texts between the pages, the connection of the server and the tables.   *)
(* MySQL converts a text that goes in or out from the charset of the       *)
(* connection to that of the table, and back; the server sends UTF-8       *)
(* whatever the connection was told.  Which charset that is depends on the *)
(* tables there are when the connection is made, on MYSQL_CHARSET and on   *)
(* the client library.  Besides, tools/seed_questions.sql and              *)
(* tools/charset_to_utf8.sql write into the tables.                        *)
(*                                                                         *)
(* A text is what has become of Chinese that somebody wrote: its level is  *)
(* how often its UTF-8 has been taken for latin1 (0 is the text itself, 1  *)
(* the "escaped" form of README 13.8), LOST is question marks.  ASCII is   *)
(* the same in all of them: BLANK stands for it.                           *)
(***************************************************************************)
EXTENDS Integers, Sequences, FiniteSets

CONSTANTS
    Cell,      \* places for a text
    Table,     \* the core tables
    TableOf,   \* TableOf[c]: the table of cell c
    Nick,      \* nickname of the main administrator
    Author,    \* name of the author of an article of that administrator
    Question,  \* a question of the bank
    Script,    \* the columns charset_to_utf8.sql converts, in its order
    MaxLevel,  \* bound: how often a text is taken for latin1
    LOST, BLANK, NONE

ASSUME CharsetAssumption ==
    /\ TableOf \in [Cell -> Table]
    /\ {Nick, Author, Question} \subseteq Cell
    /\ Script \in Seq(Cell \ {Question})
    /\ \A i, j \in DOMAIN Script : Script[i] = Script[j] => i = j
    /\ MaxLevel \in Nat /\ MaxLevel >= 1
    /\ {LOST, BLANK, NONE} \cap Int = {} /\ LOST # BLANK /\ LOST # NONE
    /\ NONE \notin {"latin1", "utf8mb4"}

VARIABLES
    charset,  \* charset[t]: the table's, "absent" before it is made
    text,     \* text[c]
    article,  \* "none", "legacy" (author_id = 0) or "owned" (by the main administrator)
    phase,    \* of the process: "down", "connected", "created", "serving"
    conn,     \* the charset of the connection
    env,      \* MYSQL_CHARSET, NONE if not set
    default,  \* the charset the client library begins with
    draft,    \* an editor somewhere: the cell and what it shows
    step,     \* 0, or the next statement of charset_to_utf8.sql
    used,     \* history: the charsets through which texts have come and gone
    fresh,    \* history: this version made all tables, and was never told to speak latin1
    scripted, \* history: charset_to_utf8.sql has been begun
    narrowed, \* history: a table could not hold what was written into it
    routeB    \* history: the migration has been done by the book so far

tables == <<charset, text, article>>
server == <<phase, conn, env>>
history == <<fresh, scripted>>
vars == <<tables, server, default, draft, step, used, history, narrowed, routeB>>

Encoding == {"latin1", "utf8mb4"}
Level == 0..MaxLevel
Plain == {LOST, BLANK}   \* ASCII, which is the same in every charset

TypeOK ==
    /\ charset \in [Table -> Encoding \cup {"absent"}]
    /\ text \in [Cell -> Level \cup Plain]
    /\ article \in {"none", "legacy", "owned"}
    /\ phase \in {"down", "connected", "created", "serving"}
    /\ conn \in Encoding /\ default \in Encoding
    /\ env \in Encoding \cup {NONE}
    /\ draft \in [cell : Cell, shows : Level \cup {LOST}] \cup {NONE}
    /\ step \in 0..Len(Script)
    /\ used \subseteq Encoding
    /\ fresh \in BOOLEAN /\ scripted \in BOOLEAN
    /\ narrowed \in BOOLEAN /\ routeB \in BOOLEAN

-----------------------------------------------------------------------------
\* Conversions.

\* What a connection shows of a text.  Latin1 has no Chinese.
Unset(cs, l) ==   \* mutant: results come in the client's own charset (no character_set_results)
    IF l \in Plain \/ default = "utf8mb4" THEN l ELSE IF l = 0 THEN LOST ELSE l - 1
Shown(cs, l) ==
    IF l \in Plain \/ cs = "utf8mb4" THEN l ELSE IF l = 0 THEN LOST ELSE l - 1

\* What the database makes of a text that comes over a connection.
Received(cs, l) == IF l \in Plain \/ cs = "utf8mb4" THEN l ELSE l + 1

\* What of it a table can hold: a latin1 column takes question marks for Chinese (or the
\* statement fails, and nothing has happened).
Held(t, l) == IF charset[t] = "latin1" /\ l = 0 THEN LOST ELSE l

\* The server writes l into some cells.  By the book nobody writes during the migration, and
\* after it nobody through latin1 nor from a page that shows what it was before.
Store(cells, l) ==
    LET came == Received(conn, l)
    IN  /\ came \in Level \cup Plain
        /\ text' = [c \in Cell |-> IF c \in cells THEN Held(TableOf[c], came) ELSE text[c]]
        /\ narrowed' = (narrowed \/ \E c \in cells : Held(TableOf[c], came) # came)
        /\ used' = used \cup {conn}
        /\ routeB' = (routeB /\ step = 0 /\ conn = "utf8mb4" /\ l \in {0, BLANK})

-----------------------------------------------------------------------------
\* The charset of a connection.

Made == {t \in Table : charset[t] # "absent"}
DetectTableCharset ==
    LET found == {charset[t] : t \in Made}
    IN  IF Cardinality(found) = 1 THEN CHOOSE cs \in found : TRUE ELSE NONE

\* Mixed tables, or none yet: the connection is left as it is.
ApplyConnectionCharset(e, was) ==
    IF e # NONE THEN e ELSE IF DetectTableCharset # NONE THEN DetectTableCharset ELSE was

-----------------------------------------------------------------------------
\* The tables are those of a new site, or those of an old one, whose texts were written
\* over latin1, except that the questions were imported.
Init ==
    /\ charset \in [Table -> Encoding \cup {"absent"}]
    /\ text \in [Cell -> {0, 1, BLANK}]
    /\ \A c \in Cell :
          /\ charset[TableOf[c]] = "absent" => text[c] = BLANK
          /\ charset[TableOf[c]] = "latin1" => text[c] # 0
    /\ article \in IF charset[TableOf[Author]] = "absent" THEN {"none"} ELSE {"none", "legacy"}
    /\ article = "none" => text[Author] = BLANK
    /\ phase = "down" /\ conn = "latin1" /\ env = NONE
    /\ default \in Encoding
    /\ draft = NONE /\ step = 0
    /\ used = (IF 0 \in {text[c] : c \in Cell} THEN {"utf8mb4"} ELSE {})
                  \cup (IF 1 \in {text[c] : c \in Cell} THEN {"latin1"} ELSE {})
    /\ fresh = (Made = {}) /\ scripted = FALSE /\ narrowed = FALSE /\ routeB = FALSE

-----------------------------------------------------------------------------
\* The server.

Connect(e) ==
    /\ phase = "down"
    /\ phase' = "connected" /\ env' = e
    /\ conn' = ApplyConnectionCharset(e, default)
    /\ fresh' = (fresh /\ e # "latin1")
    /\ UNCHANGED <<tables, default, draft, step, used, scripted, narrowed, routeB>>

\* Old articles go to the main administrator, whose name is read and written.
Backfill ==
    /\ article = "legacy"
    /\ article' = "owned"
    /\ Store({Author}, Shown(conn, text[Nick]))

\* initTable makes the tables that are missing, then comes the back-fill, which is passed over
\* when there is nothing to do or the session is lost (Startup).
InitTable ==
    /\ phase = "connected"
    /\ phase' = "created"
    /\ charset' = [t \in Table |-> IF t \in Made THEN charset[t] ELSE "utf8mb4"]
    /\ Backfill \/ UNCHANGED <<article, text, used, narrowed, routeB>>
    /\ UNCHANGED <<conn, env, default, draft, step, history>>

Unaligned ==   \* mutant: the charset is not looked at again when the tables are there
    /\ phase = "created"
    /\ phase' = "serving"
    /\ UNCHANGED <<tables, conn, env, default, draft, step, used, history, narrowed, routeB>>
Align ==
    /\ phase = "created"
    /\ phase' = "serving"
    /\ conn' = ApplyConnectionCharset(env, conn)
    /\ UNCHANGED <<tables, env, default, draft, step, used, history, narrowed, routeB>>

Stop ==
    /\ phase # "down"
    /\ phase' = "down"
    /\ UNCHANGED <<tables, conn, env, default, draft, step, used, history, narrowed, routeB>>

\* checkConnection
Reconnect ==
    /\ phase = "serving"
    /\ conn' = ApplyConnectionCharset(env, default)
    /\ UNCHANGED <<tables, phase, env, default, draft, step, used, history, narrowed, routeB>>

\* addPost, with the name of the administrator as the handler has read it.
Publish ==
    /\ phase = "serving" /\ article = "none"
    /\ article' = "owned"
    /\ Store({Author}, Shown(conn, text[Nick]))
    /\ UNCHANGED <<charset, server, default, draft, step, history>>

\* updateProfile writes a nickname to the articles as well.
Cells(c) == IF c = Nick /\ article = "owned" THEN {Nick, Author} ELSE {c}

\* A nickname or a question is written by hand.
Write(c) ==
    /\ phase = "serving" /\ c # Author
    /\ Store(Cells(c), 0)
    /\ UNCHANGED <<charset, article, server, default, draft, step, history>>

\* An editor is filled with what the server reads, and saved as a whole.
OpenEditor(c) ==
    /\ phase = "serving" /\ c # Author /\ text[c] # BLANK
    /\ draft' = [cell |-> c, shows |-> Shown(conn, text[c])]
    /\ used' = used \cup {conn}
    /\ UNCHANGED <<tables, server, default, step, history, narrowed, routeB>>

Save ==
    /\ phase = "serving" /\ draft # NONE
    /\ Store(Cells(draft.cell), draft.shows)
    /\ draft' = NONE
    /\ UNCHANGED <<charset, article, server, default, step, history>>

-----------------------------------------------------------------------------
\* The scripts: an mysql client that speaks utf8mb4.

\* CREATE TABLE IF NOT EXISTS, CONVERT TO, and the questions that are not there.
SeedQuestions ==
    /\ charset' = [charset EXCEPT ![TableOf[Question]] = "utf8mb4"]
    /\ text' = [text EXCEPT ![Question] = IF @ = BLANK THEN 0 ELSE @]
    /\ used' = used \cup {"utf8mb4"}
    /\ UNCHANGED <<article, server, default, draft, step, history, narrowed, routeB>>

\* CONVERT(x USING latin1), the same CONVERTed to utf8mb4, and its bytes taken for UTF-8.
UsingLatin1(l) == IF l = 0 THEN LOST ELSE l
UsingUtf8mb4(l) == l
BytesAsUtf8mb4(l) == IF l = LOST THEN LOST ELSE l - 1

\* CONVERT(x USING latin1) = CONVERT(CONVERT(x USING latin1) USING utf8mb4)
Guard(l) == UsingLatin1(l) = UsingUtf8mb4(UsingLatin1(l))

\* The migration is by the book if it is the first, and of tables as README 13.8 has them.
BeginScript ==
    /\ step = 0 /\ Len(Script) > 0 /\ Made = Table
    /\ step' = 1
    /\ scripted' = TRUE
    /\ routeB' = /\ ~scripted
                 /\ \A t \in Table : charset[t] = "utf8mb4"
                 /\ \A c \in Cell : text[c] = BLANK
                       \/ text[c] = IF \E i \in DOMAIN Script : Script[i] = c THEN 1 ELSE 0
    /\ UNCHANGED <<tables, server, default, draft, used, fresh, narrowed>>

Uncast ==   \* mutant: CONVERT(CONVERT(x USING latin1) USING utf8mb4), without the CAST
    /\ step # 0
    /\ LET c == Script[step]
           converted == Held(TableOf[c], UsingUtf8mb4(UsingLatin1(text[c])))
       IN  text' = [text EXCEPT ![c] = IF @ # BLANK /\ Guard(@) THEN converted ELSE @]
    /\ step' = (step + 1) % (Len(Script) + 1)
    /\ UNCHANGED <<charset, article, server, default, draft, used, history, narrowed, routeB>>
ScriptStatement ==
    /\ step # 0
    /\ LET c == Script[step]
           converted == Held(TableOf[c], BytesAsUtf8mb4(UsingLatin1(text[c])))
       IN  text' = [text EXCEPT ![c] = IF @ # BLANK /\ Guard(@) THEN converted ELSE @]
    /\ step' = (step + 1) % (Len(Script) + 1)
    /\ UNCHANGED <<charset, article, server, default, draft, used, history, narrowed, routeB>>

\* The client ends before the script does.
CutScript ==
    /\ step # 0
    /\ step' = 0 /\ routeB' = FALSE
    /\ UNCHANGED <<tables, server, default, draft, used, history, narrowed>>

-----------------------------------------------------------------------------
Next ==
    \/ \E e \in Encoding \cup {NONE} : Connect(e)
    \/ InitTable \/ Align \/ Stop \/ Reconnect \/ Publish \/ Save
    \/ \E c \in Cell : Write(c) \/ OpenEditor(c)
    \/ SeedQuestions \/ BeginScript \/ ScriptStatement \/ CutScript

Spec == Init /\ [][Next]_vars

-----------------------------------------------------------------------------
(***************************************************************************)
(* A site whose tables this version has made is free of all this, whatever *)
(* charset the client library begins with, in whatever order the server    *)
(* starts, fails, reconnects and the questions are imported: texts are     *)
(* stored as they were written, and the server speaks UTF-8 with the       *)
(* database, unless somebody sets MYSQL_CHARSET=latin1 or runs the         *)
(* migration.  The first start connects before there is a table to look    *)
(* at.                                                                     *)
(***************************************************************************)
FreshStaysClean ==
    fresh /\ ~scripted =>
        /\ \A c \in Cell : text[c] \in {0, BLANK}
        /\ phase = "serving" => conn = "utf8mb4"

(***************************************************************************)
(* README 13.8: which charset it is does not matter as long as it is one.  *)
(* If every text has come and gone through the charset the connection has  *)
(* now, and the tables could hold it, pages show what was written: an old  *)
(* site on latin1 is read right by luck, and editing, importing into other *)
(* tables, restarts and the author back-fill keep it so.                   *)
(***************************************************************************)
OneCharsetIsHarmless ==
    phase = "serving" /\ ~scripted /\ ~narrowed /\ used \subseteq {conn} =>
        \A c \in Cell : text[c] # BLANK => Shown(conn, text[c]) = 0

(***************************************************************************)
(* Route B of README 13.8.1: the script turns every escaped text of the    *)
(* columns it names into the text itself and leaves the questions alone,   *)
(* and so it stays, whatever happens to the server around it, if nobody    *)
(* writes meanwhile, or later through latin1 or from an editor opened      *)
(* before.                                                                 *)
(***************************************************************************)
RouteBRestores ==
    routeB /\ step = 0 => \A c \in Cell : text[c] \in {0, BLANK}

(***************************************************************************)
(* The header of tools/charset_to_utf8.sql (lines 18-23): the guard holds  *)
(* of texts latin1 can represent only, so rows with true Chinese are left  *)
(* alone, and a second run changes nothing.  On a site where nothing but   *)
(* utf8mb4 was ever spoken no text would become question marks.  It does:  *)
(* both sides of the guard are the converted text, question marks and all, *)
(* so the guard holds of every text.                                       *)
(***************************************************************************)
TrueTextIsSkipped ==
    ~narrowed /\ used \subseteq {"utf8mb4"} => \A c \in Cell : text[c] # LOST
=============================================================================
