--------------------------- MODULE CharsetProofs ---------------------------
(* What holds of Charset for any tables, texts and scripts, and for any number of levels. *)
EXTENDS Charset, FiniteSetTheorems, TLAPS

Text == Level \cup Plain

-----------------------------------------------------------------------------
\* What the operators return.

LEMMA ZeroIsALevel == 0 \in Level /\ 1 \in Level
BY CharsetAssumption DEF Level

LEMMA PlainIsNoLevel == \A l \in Level : l \in Int /\ l # LOST /\ l # BLANK
BY CharsetAssumption DEF Level

LEMMA ShownIsText ==
    ASSUME NEW cs \in Encoding, NEW l \in Text
    PROVE  Shown(cs, l) \in Text /\ (l # BLANK => Shown(cs, l) # BLANK)
<1>1. CASE l \in Plain
  BY <1>1 DEF Shown, Text
<1>2. CASE l \notin Plain
  <2>1. l \in Level /\ LOST \in Plain /\ LOST # BLANK
    BY <1>2, CharsetAssumption DEF Text, Plain
  <2>2. l = 0 \/ l - 1 \in Level
    BY <2>1, CharsetAssumption DEF Level
  <2>3. Shown(cs, l) \in Level \cup {LOST}
    BY <1>2, <2>1, <2>2 DEF Shown
  <2> QED
    BY <2>1, <2>3, PlainIsNoLevel DEF Text
<1> QED
  BY <1>1, <1>2

LEMMA HeldIsText ==
    ASSUME NEW t, NEW l \in Text
    PROVE  Held(t, l) \in Text
BY DEF Held, Text, Plain

LEMMA ApplyIsEncoding ==
    ASSUME NEW e \in Encoding \cup {NONE}, NEW was \in Encoding,
           charset \in [Table -> Encoding \cup {"absent"}]
    PROVE  ApplyConnectionCharset(e, was) \in Encoding
<1> DEFINE found == {charset[t] : t \in Made}
<1>1. found \subseteq Encoding
  BY DEF Made
<1>2. CASE Cardinality(found) = 1
  <2>1. found # {}
    <3> HIDE DEF found
    <3> QED
      BY <1>2, FS_EmptySet
  <2>2. (CHOOSE cs \in found : TRUE) \in Encoding
    BY <1>1, <2>1
  <2> QED
    BY <1>2, <2>2 DEF ApplyConnectionCharset, DetectTableCharset
<1>3. CASE Cardinality(found) # 1
  BY <1>3 DEF ApplyConnectionCharset, DetectTableCharset
<1> QED
  BY <1>2, <1>3

\* The server finds utf8mb4 when all tables that exist have it.
LEMMA DetectsUtf8mb4 ==
    ASSUME Made # {}, \A t \in Made : charset[t] = "utf8mb4"
    PROVE  DetectTableCharset = "utf8mb4"
<1> DEFINE found == {charset[t] : t \in Made}
<1>1. found = {"utf8mb4"}
  OBVIOUS
<1>2. Cardinality(found) = 1
  BY <1>1, FS_Singleton
<1> QED
  BY <1>1, <1>2 DEF DetectTableCharset

-----------------------------------------------------------------------------
\* Type correctness.

LEMMA TypeInit == Init => TypeOK
<1> SUFFICES ASSUME Init PROVE TypeOK
  OBVIOUS
<1>1. text \in [Cell -> Level \cup Plain]
  BY ZeroIsALevel DEF Init, Plain
<1>2. used \subseteq Encoding
  BY DEF Init, Encoding
<1>3. step \in 0..Len(Script)
  BY CharsetAssumption DEF Init
<1>4. fresh \in BOOLEAN /\ scripted \in BOOLEAN /\ narrowed \in BOOLEAN /\ routeB \in BOOLEAN
  BY DEF Init
<1> QED
  BY <1>1, <1>2, <1>3, <1>4 DEF Init, TypeOK, Encoding

LEMMA StoreType ==
    ASSUME TypeOK, NEW cells, NEW l, Store(cells, l)
    PROVE  /\ text' \in [Cell -> Level \cup Plain]
           /\ used' \subseteq Encoding
           /\ narrowed' \in BOOLEAN /\ routeB' \in BOOLEAN
<1>1. text' \in [Cell -> Level \cup Plain]
  BY HeldIsText DEF TypeOK, Store, Text
<1>2. used' \subseteq Encoding
  BY DEF TypeOK, Store
<1>3. narrowed' \in BOOLEAN /\ routeB' \in BOOLEAN
  BY Zenon DEF TypeOK, Store
<1> QED
  BY <1>1, <1>2, <1>3

LEMMA ConvertedIsText ==
    ASSUME TypeOK, NEW c \in Cell, text[c] # BLANK
    PROVE  Held(TableOf[c], BytesAsUtf8mb4(UsingLatin1(text[c]))) \in Level \cup Plain
<1>1. text[c] \in Level \cup Plain
  BY DEF TypeOK
<1>2. BytesAsUtf8mb4(UsingLatin1(text[c])) \in Level \cup Plain
  BY <1>1, CharsetAssumption DEF BytesAsUtf8mb4, UsingLatin1, Level, Plain
<1> QED
  BY <1>2, HeldIsText DEF Text

LEMMA TypeStep == TypeOK /\ [Next]_vars => TypeOK'
<1> SUFFICES ASSUME TypeOK, [Next]_vars PROVE TypeOK'
  OBVIOUS
<1> USE DEF TypeOK, tables, server, history
<1>1. ASSUME NEW e \in Encoding \cup {NONE}, Connect(e) PROVE TypeOK'
  <2>1. fresh' \in BOOLEAN
    BY <1>1, Zenon DEF Connect
  <2> QED
    BY <1>1, <2>1, ApplyIsEncoding DEF Connect
<1>2. ASSUME InitTable PROVE TypeOK'
  <2>1. charset' \in [Table -> Encoding \cup {"absent"}]
    BY <1>2 DEF InitTable, Encoding
  <2>2. CASE Backfill
    BY <1>2, <2>1, <2>2, StoreType DEF InitTable, Backfill
  <2>3. CASE UNCHANGED <<article, text, used, narrowed, routeB>>
    BY <1>2, <2>1, <2>3 DEF InitTable
  <2> QED
    BY <1>2, <2>2, <2>3 DEF InitTable
<1>3. ASSUME Align PROVE TypeOK'
  BY <1>3, ApplyIsEncoding DEF Align
<1>4. ASSUME Stop PROVE TypeOK'
  BY <1>4 DEF Stop
<1>5. ASSUME Reconnect PROVE TypeOK'
  BY <1>5, ApplyIsEncoding DEF Reconnect
<1>6. ASSUME Publish PROVE TypeOK'
  BY <1>6, StoreType DEF Publish
<1>7. ASSUME NEW c \in Cell, Write(c) PROVE TypeOK'
  BY <1>7, StoreType DEF Write
<1>8. ASSUME NEW c \in Cell, OpenEditor(c) PROVE TypeOK'
  <2>1. conn \in Encoding /\ text[c] \in Text /\ text[c] # BLANK
    BY <1>8 DEF OpenEditor, Text
  <2>2. Shown(conn, text[c]) \in Text /\ Shown(conn, text[c]) # BLANK
    BY <2>1, ShownIsText
  <2>3. Shown(conn, text[c]) \in Level \cup {LOST}
    BY <2>2 DEF Text, Plain
  <2>4. draft' \in [cell : Cell, shows : Level \cup {LOST}]
    BY <1>8, <2>3 DEF OpenEditor
  <2> QED
    BY <1>8, <2>4 DEF OpenEditor
<1>9. ASSUME Save PROVE TypeOK'
  BY <1>9, StoreType DEF Save
<1>10. ASSUME SeedQuestions PROVE TypeOK'
  <2>1. charset' \in [Table -> Encoding \cup {"absent"}]
    BY <1>10 DEF SeedQuestions, Encoding
  <2>2. text' \in [Cell -> Level \cup Plain]
    BY <1>10, ZeroIsALevel DEF SeedQuestions
  <2> QED
    BY <1>10, <2>1, <2>2 DEF SeedQuestions, Encoding
<1>11. ASSUME BeginScript PROVE TypeOK'
  <2>1. scripted' \in BOOLEAN /\ routeB' \in BOOLEAN
    BY <1>11, Zenon DEF BeginScript
  <2>2. step' \in 0..Len(Script)
    BY <1>11, CharsetAssumption DEF BeginScript
  <2> QED
    BY <1>11, <2>1, <2>2 DEF BeginScript
<1>12. ASSUME ScriptStatement PROVE TypeOK'
  <2>1. step' \in 0..Len(Script)
    BY <1>12, CharsetAssumption DEF ScriptStatement
  <2>2. Script[step] \in Cell
    BY <1>12, CharsetAssumption DEF ScriptStatement
  <2>3. text' \in [Cell -> Level \cup Plain]
    BY <1>12, <2>2, ConvertedIsText DEF ScriptStatement
  <2> QED
    BY <1>12, <2>1, <2>3 DEF ScriptStatement
<1>13. ASSUME CutScript PROVE TypeOK'
  <2>1. 0 \in 0..Len(Script)
    BY CharsetAssumption
  <2>2. step' \in 0..Len(Script) /\ routeB' \in BOOLEAN
    BY <1>13, <2>1 DEF CutScript
  <2> QED
    BY <1>13, <2>2 DEF CutScript
<1>14. ASSUME UNCHANGED vars PROVE TypeOK'
  BY <1>14 DEF vars
<1> QED
  BY <1>1, <1>2, <1>3, <1>4, <1>5, <1>6, <1>7, <1>8, <1>9, <1>10, <1>11, <1>12, <1>13, <1>14
  DEF Next

(* Every variable keeps its type: texts never leave the bound of levels, whatever the      *)
(* server, the editors and the scripts do.                                                 *)
THEOREM CharsetTypeCorrect == Spec => []TypeOK
BY TypeInit, TypeStep, PTL DEF Spec

-----------------------------------------------------------------------------
(***************************************************************************)
(* A new site.  What keeps it clean: its tables are all utf8mb4, no old    *)
(* article is waiting for the back-fill of a first start that may still    *)
(* speak latin1, no editor holds anything but the text, and by the time    *)
(* the server serves it has looked at tables that exist.                   *)
(***************************************************************************)
Clean ==
    /\ step # 0 => scripted
    /\ fresh /\ ~scripted =>
        /\ \A c \in Cell : text[c] \in {0, BLANK}
        /\ \A t \in Table : charset[t] \in {"utf8mb4", "absent"}
        /\ article # "legacy" /\ env # "latin1"
        /\ draft # NONE => draft.shows = 0
        /\ phase \in {"created", "serving"} => \A t \in Table : charset[t] = "utf8mb4"
        /\ phase = "serving" => conn = "utf8mb4"

LEMMA CleanInit == Init => Clean
<1> SUFFICES ASSUME Init PROVE Clean
  OBVIOUS
<1>1. ASSUME fresh PROVE \A t \in Table : charset[t] = "absent"
  BY <1>1 DEF Init, Made
<1>2. ASSUME fresh PROVE \A c \in Cell : text[c] = BLANK
  BY <1>1, <1>2, CharsetAssumption DEF Init
<1>3. ASSUME fresh PROVE article = "none"
  BY <1>1, <1>3, CharsetAssumption DEF Init
<1>4. env # "latin1" /\ draft = NONE /\ phase = "down" /\ step = 0
  BY CharsetAssumption DEF Init
<1> QED
  BY <1>1, <1>2, <1>3, <1>4 DEF Clean

\* What the server writes over utf8mb4 into utf8mb4 tables is what it was given.
LEMMA CleanStore ==
    ASSUME TypeOK, NEW cells, NEW l \in {0, BLANK}, Store(cells, l), conn = "utf8mb4",
           \A t \in Table : charset[t] = "utf8mb4",
           \A c \in Cell : text[c] \in {0, BLANK}
    PROVE  \A c \in Cell : text'[c] \in {0, BLANK}
<1>1. Received(conn, l) = l
  BY DEF Received
<1>2. \A c \in Cell : Held(TableOf[c], l) = l
  BY CharsetAssumption DEF Held
<1> QED
  BY <1>1, <1>2 DEF Store

LEMMA CleanStep == TypeOK /\ Clean /\ [Next]_vars => Clean'
<1> SUFFICES ASSUME TypeOK, Clean, [Next]_vars PROVE Clean'
  OBVIOUS
<1> USE DEF tables, server, history
<1>0. Table # {}
  BY CharsetAssumption
<1>1. ASSUME NEW e \in Encoding \cup {NONE}, Connect(e) PROVE Clean'
  BY <1>1, CharsetAssumption DEF Connect, Clean
<1>2. ASSUME InitTable PROVE Clean'
  <2>1. ASSUME fresh, ~scripted PROVE \A t \in Table : charset'[t] = "utf8mb4"
    BY <1>2, <2>1 DEF Clean, InitTable, Made
  <2>2. CASE Backfill
    BY <1>2, <2>2 DEF InitTable, Backfill, Clean
  <2>3. CASE UNCHANGED <<article, text, used, narrowed, routeB>>
    BY <1>2, <2>1, <2>3 DEF InitTable, Clean
  <2> QED
    BY <1>2, <2>2, <2>3 DEF InitTable
<1>3. ASSUME Align PROVE Clean'
  <2>1. ASSUME fresh, ~scripted PROVE conn' = "utf8mb4"
    <3>1. /\ env \in {"utf8mb4", NONE}
          /\ \A t \in Table : charset[t] = "utf8mb4"
      BY <1>3, <2>1 DEF Align, Clean, TypeOK, Encoding
    <3>2. Made = Table
      BY <3>1 DEF Made
    <3>3. DetectTableCharset = "utf8mb4"
      BY <1>0, <3>1, <3>2, DetectsUtf8mb4
    <3> QED
      BY <1>3, <3>1, <3>3, CharsetAssumption DEF Align, ApplyConnectionCharset
  <2> QED
    BY <1>3, <2>1 DEF Align, Clean
<1>4. ASSUME Stop PROVE Clean'
  BY <1>4 DEF Stop, Clean
<1>5. ASSUME Reconnect PROVE Clean'
  <2>1. ASSUME fresh, ~scripted PROVE conn' = "utf8mb4"
    <3>1. /\ env \in {"utf8mb4", NONE}
          /\ \A t \in Table : charset[t] = "utf8mb4"
      BY <1>5, <2>1 DEF Reconnect, Clean, TypeOK, Encoding
    <3>2. Made = Table
      BY <3>1 DEF Made
    <3>3. DetectTableCharset = "utf8mb4"
      BY <1>0, <3>1, <3>2, DetectsUtf8mb4
    <3> QED
      BY <1>5, <3>1, <3>3, CharsetAssumption DEF Reconnect, ApplyConnectionCharset
  <2> QED
    BY <1>5, <2>1 DEF Reconnect, Clean
<1>6. ASSUME Publish PROVE Clean'
  <2>1. ASSUME fresh, ~scripted PROVE \A c \in Cell : text'[c] \in {0, BLANK}
    <3>1. Shown(conn, text[Nick]) \in {0, BLANK}
      BY <1>6, <2>1, CharsetAssumption DEF Publish, Clean, Shown
    <3> QED
      BY <1>6, <2>1, <3>1, CleanStore DEF Publish, Clean
  <2> QED
    BY <1>6, <2>1 DEF Publish, Clean
<1>7. ASSUME NEW c \in Cell, Write(c) PROVE Clean'
  <2>1. ASSUME fresh, ~scripted PROVE \A d \in Cell : text'[d] \in {0, BLANK}
    BY <1>7, <2>1, CleanStore DEF Write, Clean
  <2> QED
    BY <1>7, <2>1 DEF Write, Clean
<1>8. ASSUME NEW c \in Cell, OpenEditor(c) PROVE Clean'
  <2>1. ASSUME fresh, ~scripted PROVE draft'.shows = 0
    BY <1>8, <2>1 DEF OpenEditor, Clean, Shown
  <2> QED
    BY <1>8, <2>1 DEF OpenEditor, Clean
<1>9. ASSUME Save PROVE Clean'
  <2>1. ASSUME fresh, ~scripted PROVE \A c \in Cell : text'[c] \in {0, BLANK}
    BY <1>9, <2>1, CleanStore DEF Save, Clean
  <2> QED
    BY <1>9, <2>1 DEF Save, Clean
<1>10. ASSUME SeedQuestions PROVE Clean'
  <2>1. ASSUME fresh, ~scripted PROVE \A c \in Cell : text'[c] \in {0, BLANK}
    BY <1>10, <2>1 DEF SeedQuestions, Clean, TypeOK
  <2>2. ASSUME fresh, ~scripted PROVE \A t \in Table : charset'[t] \in {"utf8mb4", "absent"}
    BY <1>10, <2>2 DEF SeedQuestions, Clean, TypeOK
  <2>3. ASSUME fresh, ~scripted, phase \in {"created", "serving"}
        PROVE  \A t \in Table : charset'[t] = "utf8mb4"
    BY <1>10, <2>3 DEF SeedQuestions, Clean, TypeOK
  <2> QED
    BY <1>10, <2>1, <2>2, <2>3 DEF SeedQuestions, Clean
<1>11. ASSUME BeginScript PROVE Clean'
  BY <1>11 DEF BeginScript, Clean
<1>12. ASSUME ScriptStatement PROVE Clean'
  BY <1>12 DEF ScriptStatement, Clean
<1>13. ASSUME CutScript PROVE Clean'
  BY <1>13 DEF CutScript, Clean
<1>14. ASSUME UNCHANGED vars PROVE Clean'
  BY <1>14 DEF vars, Clean
<1> QED
  BY <1>1, <1>2, <1>3, <1>4, <1>5, <1>6, <1>7, <1>8, <1>9, <1>10, <1>11, <1>12, <1>13, <1>14
  DEF Next

(* On a site whose tables this version made, texts are stored as written and the serving    *)
(* connection speaks utf8mb4, whatever the client library, crashes and imports do.          *)
THEOREM AFreshSiteStaysClean == Spec => []FreshStaysClean
<1>1. Clean => FreshStaysClean
  BY DEF Clean, FreshStaysClean
<1> QED
  BY <1>1, TypeInit, TypeStep, CleanInit, CleanStep, PTL DEF Spec

-----------------------------------------------------------------------------
(***************************************************************************)
(* One charset.  While texts have gone through cs only, each is the form   *)
(* that cs gives to what was written, or ASCII, and so editors hold what   *)
(* was written.                                                            *)
(***************************************************************************)
Form(cs) == IF cs = "latin1" THEN 1 ELSE 0

OneForm ==
    /\ step # 0 => scripted
    /\ ~scripted /\ ~narrowed =>
        \A cs \in Encoding : used \subseteq {cs} =>
            /\ \A c \in Cell : text[c] \in {Form(cs), BLANK}
            /\ draft # NONE => draft.shows = 0

LEMMA FormIsShown ==
    ASSUME NEW cs \in Encoding
    PROVE  Shown(cs, Form(cs)) = 0 /\ Received(cs, 0) = Form(cs) /\ Received(cs, BLANK) = BLANK
           /\ Shown(cs, BLANK) = BLANK /\ Form(cs) # BLANK
<1>1. 0 \notin Plain /\ 1 \notin Plain /\ BLANK \in Plain
  BY ZeroIsALevel, PlainIsNoLevel DEF Plain
<1>2. 0 # BLANK /\ 1 # BLANK
  BY ZeroIsALevel, PlainIsNoLevel
<1> QED
  BY <1>1, <1>2 DEF Shown, Received, Form, Encoding

LEMMA OneFormInit == Init => OneForm
<1> SUFFICES ASSUME Init, NEW cs \in Encoding, used \subseteq {cs}, NEW c \in Cell
             PROVE  text[c] \in {Form(cs), BLANK}
  BY DEF Init, OneForm
<1>1. text[c] \in {0, 1, BLANK}
  BY DEF Init
<1>2. text[c] = 0 => "utf8mb4" \in used
  BY DEF Init
<1>3. text[c] = 1 => "latin1" \in used
  BY DEF Init
<1> QED
  BY <1>1, <1>2, <1>3 DEF Form

LEMMA OneFormStore ==
    ASSUME NEW cells, NEW l \in {0, BLANK}, Store(cells, l), conn \in Encoding,
           cells \subseteq Cell, ~narrowed', \A c \in Cell : text[c] \in {Form(conn), BLANK}
    PROVE  \A c \in Cell : text'[c] \in {Form(conn), BLANK}
<1>1. Received(conn, l) \in {Form(conn), BLANK}
  BY FormIsShown
<1>2. \A c \in cells : Held(TableOf[c], Received(conn, l)) = Received(conn, l)
  BY DEF Store
<1> QED
  BY <1>1, <1>2 DEF Store

\* A write of the server: it adds the charset of the connection to those used.
LEMMA OneFormWrite ==
    ASSUME TypeOK, OneForm, NEW cells, NEW l, Store(cells, l), cells \subseteq Cell,
           ~scripted /\ ~narrowed /\ used \subseteq {conn} => l \in {0, BLANK},
           ~scripted, ~narrowed', NEW cs \in Encoding, used' \subseteq {cs}
    PROVE  /\ ~narrowed /\ used \subseteq {cs}
           /\ \A c \in Cell : text'[c] \in {Form(cs), BLANK}
<1>1. ~narrowed /\ used \subseteq {cs} /\ cs = conn
  BY DEF Store
<1>2. \A c \in Cell : text[c] \in {Form(conn), BLANK}
  BY <1>1 DEF OneForm
<1> QED
  BY <1>1, <1>2, OneFormStore DEF TypeOK

LEMMA NameIsShown ==
    ASSUME TypeOK, OneForm, NEW c \in Cell
    PROVE  ~scripted /\ ~narrowed /\ used \subseteq {conn} => Shown(conn, text[c]) \in {0, BLANK}
BY FormIsShown DEF OneForm, TypeOK

LEMMA CellsAreCells ==
    ASSUME NEW c \in Cell
    PROVE  Cells(c) \subseteq Cell
BY CharsetAssumption DEF Cells

LEMMA OneFormStep == TypeOK /\ OneForm /\ [Next]_vars => OneForm'
<1> SUFFICES ASSUME TypeOK, OneForm, [Next]_vars PROVE OneForm'
  OBVIOUS
<1> USE DEF tables, server, history
<1>1. ASSUME NEW e \in Encoding \cup {NONE}, Connect(e) PROVE OneForm'
  BY <1>1 DEF Connect, OneForm
<1>2. ASSUME InitTable PROVE OneForm'
  <2>1. CASE Backfill
    <3>1. Store({Author}, Shown(conn, text[Nick])) /\ {Author} \subseteq Cell /\ Nick \in Cell
      BY <2>1, CharsetAssumption DEF Backfill
    <3>2. UNCHANGED <<draft, step, scripted>>
      BY <1>2 DEF InitTable
    <3>3. ASSUME ~scripted, ~narrowed', NEW cs \in Encoding, used' \subseteq {cs}
          PROVE  ~narrowed /\ used \subseteq {cs} /\ \A c \in Cell : text'[c] \in {Form(cs), BLANK}
      BY <3>1, <3>3, OneFormWrite, NameIsShown
    <3> QED
      BY <3>2, <3>3 DEF OneForm
  <2>2. CASE UNCHANGED <<article, text, used, narrowed, routeB>>
    BY <1>2, <2>2 DEF InitTable, OneForm
  <2> QED
    BY <1>2, <2>1, <2>2 DEF InitTable
<1>3. ASSUME Align PROVE OneForm'
  BY <1>3 DEF Align, OneForm
<1>4. ASSUME Stop PROVE OneForm'
  BY <1>4 DEF Stop, OneForm
<1>5. ASSUME Reconnect PROVE OneForm'
  BY <1>5 DEF Reconnect, OneForm
<1>6. ASSUME Publish PROVE OneForm'
  <2>1. Store({Author}, Shown(conn, text[Nick])) /\ {Author} \subseteq Cell /\ Nick \in Cell
    BY <1>6, CharsetAssumption DEF Publish
  <2>2. UNCHANGED <<draft, step, scripted>>
    BY <1>6 DEF Publish
  <2>3. ASSUME ~scripted, ~narrowed', NEW cs \in Encoding, used' \subseteq {cs}
        PROVE  ~narrowed /\ used \subseteq {cs} /\ \A c \in Cell : text'[c] \in {Form(cs), BLANK}
    BY <2>1, <2>3, OneFormWrite, NameIsShown
  <2> QED
    BY <2>2, <2>3 DEF OneForm
<1>7. ASSUME NEW c \in Cell, Write(c) PROVE OneForm'
  <2>1. Store(Cells(c), 0) /\ UNCHANGED <<draft, step, scripted>>
    BY <1>7 DEF Write
  <2>2. ASSUME ~scripted, ~narrowed', NEW cs \in Encoding, used' \subseteq {cs}
        PROVE  ~narrowed /\ used \subseteq {cs} /\ \A d \in Cell : text'[d] \in {Form(cs), BLANK}
    BY <2>1, <2>2, OneFormWrite, CellsAreCells
  <2> QED
    BY <2>1, <2>2 DEF OneForm
<1>8. ASSUME NEW c \in Cell, OpenEditor(c) PROVE OneForm'
  <2>1. ASSUME ~scripted, ~narrowed, NEW cs \in Encoding, used' \subseteq {cs}
        PROVE  used \subseteq {cs} /\ draft'.shows = 0
    <3>1. used \subseteq {conn} /\ cs = conn
      BY <1>8, <2>1 DEF OpenEditor
    <3>2. text[c] = Form(conn)
      BY <1>8, <2>1, <3>1 DEF OpenEditor, OneForm
    <3> QED
      BY <1>8, <3>1, <3>2, FormIsShown DEF OpenEditor
  <2> QED
    BY <1>8, <2>1 DEF OpenEditor, OneForm
<1>9. ASSUME Save PROVE OneForm'
  <2>1. Store(Cells(draft.cell), draft.shows) /\ UNCHANGED <<step, scripted>> /\ draft' = NONE
    BY <1>9 DEF Save
  <2>2. draft.cell \in Cell
    BY <1>9 DEF Save, TypeOK
  <2>3. ~scripted /\ ~narrowed /\ used \subseteq {conn} => draft.shows \in {0, BLANK}
    BY <1>9 DEF Save, OneForm, TypeOK
  <2>4. ASSUME ~scripted, ~narrowed', NEW cs \in Encoding, used' \subseteq {cs}
        PROVE  ~narrowed /\ used \subseteq {cs} /\ \A c \in Cell : text'[c] \in {Form(cs), BLANK}
    BY <2>1, <2>2, <2>3, <2>4, OneFormWrite, CellsAreCells
  <2> QED
    BY <2>1, <2>4 DEF OneForm
<1>10. ASSUME SeedQuestions PROVE OneForm'
  <2>1. ASSUME ~scripted, ~narrowed, NEW cs \in Encoding, used' \subseteq {cs}
        PROVE  used \subseteq {cs} /\ \A c \in Cell : text'[c] \in {Form(cs), BLANK}
    <3>1. used \subseteq {cs} /\ Form(cs) = 0
      BY <1>10, <2>1 DEF SeedQuestions, Form
    <3>2. \A c \in Cell : text[c] \in {Form(cs), BLANK}
      BY <2>1, <3>1 DEF OneForm
    <3> QED
      BY <1>10, <3>1, <3>2 DEF SeedQuestions, TypeOK
  <2> QED
    BY <1>10, <2>1 DEF SeedQuestions, OneForm
<1>11. ASSUME BeginScript PROVE OneForm'
  BY <1>11 DEF BeginScript, OneForm
<1>12. ASSUME ScriptStatement PROVE OneForm'
  BY <1>12 DEF ScriptStatement, OneForm
<1>13. ASSUME CutScript PROVE OneForm'
  BY <1>13 DEF CutScript, OneForm
<1>14. ASSUME UNCHANGED vars PROVE OneForm'
  BY <1>14 DEF vars, OneForm
<1> QED
  BY <1>1, <1>2, <1>3, <1>4, <1>5, <1>6, <1>7, <1>8, <1>9, <1>10, <1>11, <1>12, <1>13, <1>14
  DEF Next

(* A site that has only ever spoken one charset shows every text as it was written,        *)
(* whichever charset that is and whatever the tables have.                                 *)
THEOREM OneCharsetShowsWhatWasWritten == Spec => []OneCharsetIsHarmless
<1>1. TypeOK /\ OneForm => OneCharsetIsHarmless
  BY FormIsShown DEF TypeOK, OneForm, OneCharsetIsHarmless
<1> QED
  BY <1>1, TypeInit, TypeStep, OneFormInit, OneFormStep, PTL DEF Spec

-----------------------------------------------------------------------------
(***************************************************************************)
(* The migration by the book.  Columns the script has still to come to are *)
(* escaped, all other texts are true, and all tables can hold them.  The   *)
(* script does not come to a column twice, nor to the questions.           *)
(***************************************************************************)
Pending(c) == step # 0 /\ \E i \in DOMAIN Script : i >= step /\ Script[i] = c

ByTheBook ==
    routeB =>
        /\ \A t \in Table : charset[t] = "utf8mb4"
        /\ \A c \in Cell : text[c] \in {IF Pending(c) THEN 1 ELSE 0, BLANK}

LEMMA ByTheBookInit == Init => ByTheBook
BY DEF Init, ByTheBook

\* A write of the server after the migration.
LEMMA ByTheBookStore ==
    ASSUME ByTheBook, NEW cells, NEW l, Store(cells, l), step' = step,
           routeB' => charset' = charset
    PROVE  ByTheBook'
<1> SUFFICES ASSUME routeB'
             PROVE  /\ \A t \in Table : charset'[t] = "utf8mb4"
                    /\ \A c \in Cell : text'[c] \in {0, BLANK}
  BY DEF ByTheBook, Pending, Store
<1>1. routeB /\ step = 0 /\ conn = "utf8mb4" /\ l \in {0, BLANK}
  BY DEF Store
<1>2. /\ \A t \in Table : charset[t] = "utf8mb4"
      /\ \A c \in Cell : text[c] \in {0, BLANK}
  BY <1>1 DEF ByTheBook, Pending
<1>3. Received(conn, l) = l
  BY <1>1 DEF Received
<1>4. \A c \in Cell : Held(TableOf[c], l) = l
  BY <1>2, CharsetAssumption DEF Held
<1> QED
  BY <1>1, <1>2, <1>3, <1>4 DEF Store

LEMMA ByTheBookStatement ==
    ASSUME TypeOK, ByTheBook, ScriptStatement
    PROVE  ByTheBook'
<1> SUFFICES ASSUME routeB, NEW c \in Cell
             PROVE  text'[c] \in {IF Pending(c)' THEN 1 ELSE 0, BLANK}
  BY DEF ByTheBook, ScriptStatement, tables
<1> DEFINE d == Script[step]
<1>1. step \in 1..Len(Script) /\ step \in DOMAIN Script /\ d \in Cell
  BY CharsetAssumption DEF TypeOK, ScriptStatement
<1>2. step' = IF step = Len(Script) THEN 0 ELSE step + 1
  BY <1>1, CharsetAssumption DEF ScriptStatement
<1>3. Pending(d)
  BY <1>1 DEF Pending
<1>4. CASE c = d
  <2>1. ~Pending(c)'
    BY <1>1, <1>2, <1>4, CharsetAssumption DEF Pending
  <2>2. text[c] \in {1, BLANK}
    BY <1>3, <1>4 DEF ByTheBook
  <2>3. text[c] = 1 => text'[c] = 0
    <3>1. Held(TableOf[d], 0) = 0
      BY <1>1, CharsetAssumption DEF Held, ByTheBook
    <3>2. BytesAsUtf8mb4(UsingLatin1(1)) = 0 /\ Guard(1) /\ 1 # BLANK
      BY ZeroIsALevel, PlainIsNoLevel DEF BytesAsUtf8mb4, UsingLatin1, UsingUtf8mb4, Guard
    <3> QED
      BY <1>4, <3>1, <3>2 DEF ScriptStatement, TypeOK
  <2>4. text[c] = BLANK => text'[c] = BLANK
    BY <1>4 DEF ScriptStatement, TypeOK
  <2> QED
    BY <2>1, <2>2, <2>3, <2>4
<1>5. CASE c # d
  <2>1. Pending(c)' = Pending(c)
    BY <1>1, <1>2, <1>5, CharsetAssumption DEF Pending
  <2>2. text'[c] = text[c]
    BY <1>1, <1>5 DEF ScriptStatement, TypeOK
  <2> QED
    BY <2>1, <2>2 DEF ByTheBook
<1> QED
  BY <1>4, <1>5

LEMMA ByTheBookStep == TypeOK /\ ByTheBook /\ [Next]_vars => ByTheBook'
<1> SUFFICES ASSUME TypeOK, ByTheBook, [Next]_vars PROVE ByTheBook'
  OBVIOUS
<1> USE DEF tables, server, history
<1>1. ASSUME NEW e \in Encoding \cup {NONE}, Connect(e) PROVE ByTheBook'
  BY <1>1 DEF Connect, ByTheBook, Pending
<1>2. ASSUME InitTable PROVE ByTheBook'
  <2>1. routeB => charset' = charset
    BY <1>2 DEF InitTable, ByTheBook, Made, TypeOK
  <2>2. CASE Backfill
    <3>1. routeB' => routeB
      BY <2>2 DEF Backfill, Store
    <3> QED
      BY <1>2, <2>1, <2>2, <3>1, ByTheBookStore DEF InitTable, Backfill
  <2>3. CASE UNCHANGED <<article, text, used, narrowed, routeB>>
    BY <1>2, <2>1, <2>3 DEF InitTable, ByTheBook, Pending
  <2> QED
    BY <1>2, <2>2, <2>3 DEF InitTable
<1>3. ASSUME Align PROVE ByTheBook'
  BY <1>3 DEF Align, ByTheBook, Pending
<1>4. ASSUME Stop PROVE ByTheBook'
  BY <1>4 DEF Stop, ByTheBook, Pending
<1>5. ASSUME Reconnect PROVE ByTheBook'
  BY <1>5 DEF Reconnect, ByTheBook, Pending
<1>6. ASSUME Publish PROVE ByTheBook'
  BY <1>6, ByTheBookStore DEF Publish
<1>7. ASSUME NEW c \in Cell, Write(c) PROVE ByTheBook'
  BY <1>7, ByTheBookStore DEF Write
<1>8. ASSUME NEW c \in Cell, OpenEditor(c) PROVE ByTheBook'
  BY <1>8 DEF OpenEditor, ByTheBook, Pending
<1>9. ASSUME Save PROVE ByTheBook'
  BY <1>9, ByTheBookStore DEF Save
<1>10. ASSUME SeedQuestions PROVE ByTheBook'
  <2>1. ~Pending(Question)
    BY CharsetAssumption DEF Pending
  <2>2. ASSUME routeB, NEW c \in Cell PROVE text'[c] \in {IF Pending(c) THEN 1 ELSE 0, BLANK}
    BY <1>10, <2>1, <2>2 DEF SeedQuestions, ByTheBook, TypeOK
  <2>3. ASSUME routeB, NEW t \in Table PROVE charset'[t] = "utf8mb4"
    BY <1>10, <2>3 DEF SeedQuestions, ByTheBook, TypeOK
  <2> QED
    BY <1>10, <2>2, <2>3 DEF SeedQuestions, ByTheBook, Pending
<1>11. ASSUME BeginScript PROVE ByTheBook'
  <2>1. ASSUME routeB', NEW c \in Cell
        PROVE  Pending(c)' <=> (\E i \in DOMAIN Script : Script[i] = c)
    <3>1. \A i \in DOMAIN Script : i >= 1
      BY CharsetAssumption
    <3>2. step' = 1
      BY <1>11 DEF BeginScript
    <3> QED
      BY <3>1, <3>2 DEF Pending
  <2> QED
    BY <1>11, <2>1 DEF BeginScript, ByTheBook
<1>12. ASSUME ScriptStatement PROVE ByTheBook'
  BY <1>12, ByTheBookStatement
<1>13. ASSUME CutScript PROVE ByTheBook'
  BY <1>13 DEF CutScript, ByTheBook
<1>14. ASSUME UNCHANGED vars PROVE ByTheBook'
  BY <1>14 DEF vars, ByTheBook, Pending
<1> QED
  BY <1>1, <1>2, <1>3, <1>4, <1>5, <1>6, <1>7, <1>8, <1>9, <1>10, <1>11, <1>12, <1>13, <1>14
  DEF Next

(* The migration done once, by the book and to its end, restores every escaped text and    *)
(* leaves the questions alone, for any list of columns.                                    *)
THEOREM TheMigrationRestores == Spec => []RouteBRestores
<1>1. ByTheBook => RouteBRestores
  BY DEF ByTheBook, Pending, RouteBRestores
<1> QED
  BY <1>1, TypeInit, TypeStep, ByTheBookInit, ByTheBookStep, PTL DEF Spec
=============================================================================
