--------------------------- MODULE StartupProofs ---------------------------
(***************************************************************************)
(* Proofs about Startup: the types, that no statement of initTable needs   *)
(* what the statements before it have not made, and with it that upgrades  *)
(* are safe and that imports after a start work.  The table of statements  *)
(* comes first: it is a concatenation, that the proofs need row by row.    *)
(***************************************************************************)
EXTENDS Startup, SequenceTheorems, TLAPS

\* The statements of initTable.
Statements ==
    {PostsFirst[i] : i \in 1..5} \cup {Topics[i] : i \in 1..3} \cup {Comments[i] : i \in 1..5}
        \cup {Questions[i] : i \in 1..3} \cup {Admins[i] : i \in 1..6}
        \cup {Practice[i] : i \in 1..7} \cup {PostsLast[i] : i \in 1..3}

IsBlock(a, n) == n \in Nat /\ a \in Seq(Statements) /\ Len(a) = n
\* The statements after the first n of c are those of b.
Continues(c, n, b, m) == \A i \in 1..m : c[n + i] = b[i]

\* A concatenation, index by index.
LEMMA Joined ==
    ASSUME NEW S, NEW a \in Seq(S), NEW b \in Seq(S)
    PROVE  /\ a \o b \in Seq(S) /\ Len(a \o b) = Len(a) + Len(b)
           /\ \A i \in 1..Len(a) : (a \o b)[i] = a[i]
           /\ \A i \in 1..Len(b) : (a \o b)[Len(a) + i] = b[i]
  <1> DEFINE c == a \o b
  <1>1. Len(a) \in Nat /\ Len(b) \in Nat
    BY LenProperties
  <1>2. /\ c \in Seq(S) /\ Len(c) = Len(a) + Len(b)
        /\ \A i \in 1 .. Len(a) + Len(b) : c[i] = IF i <= Len(a) THEN a[i] ELSE b[i - Len(a)]
    BY ConcatProperties
  <1> HIDE DEF c
  <1>3. \A i \in 1..Len(a) : c[i] = a[i]
    BY <1>1, <1>2
  <1>4. ASSUME NEW i \in 1..Len(b) PROVE c[Len(a) + i] = b[i]
    <2> DEFINE k == Len(a) + i
    <2>1. k \in 1..Len(a) + Len(b) /\ ~(k <= Len(a)) /\ k - Len(a) = i BY <1>1
    <2> HIDE DEF k
    <2>2. c[k] = b[i] BY <1>2, <2>1
    <2> QED BY <2>2 DEF k
  <1> QED BY <1>2, <1>3, <1>4 DEF c

LEMMA ConcatBlocks ==
    ASSUME NEW a, NEW b, NEW n, NEW m, IsBlock(a, n), IsBlock(b, m)
    PROVE  /\ IsBlock(a \o b, n + m) /\ Continues(a \o b, n, b, m)
           /\ \A f, k \in Nat : \A d :
                f + k <= n /\ Continues(a, f, d, k) => Continues(a \o b, f, d, k)
  <1> DEFINE c == a \o b
  <1>1. a \in Seq(Statements) /\ b \in Seq(Statements) /\ n \in Nat /\ m \in Nat
    BY DEF IsBlock
  <1>2. /\ c \in Seq(Statements) /\ Len(c) = Len(a) + Len(b)
        /\ \A i \in 1..Len(a) : c[i] = a[i]
        /\ \A i \in 1..Len(b) : c[Len(a) + i] = b[i]
    BY <1>1, Joined
  <1> HIDE DEF c
  <1>3. IsBlock(c, n + m)
    BY <1>1, <1>2 DEF IsBlock
  <1>4. Continues(c, n, b, m)
    BY <1>2 DEF IsBlock, Continues
  <1>5. \A f, k \in Nat : \A d :
           f + k <= n /\ Continues(a, f, d, k) => Continues(c, f, d, k)
    <2> TAKE f, k \in Nat
    <2> TAKE d
    <2> HAVE f + k <= n /\ Continues(a, f, d, k)
    <2>1. \A i \in 1..k : f + i \in 1..n BY <1>1
    <2>2. \A i \in 1..n : c[i] = a[i] BY <1>2 DEF IsBlock
    <2> QED BY <2>1, <2>2 DEF Continues
  <1> QED BY <1>3, <1>4, <1>5 DEF c

LEMMA FirstBlock ==
    ASSUME NEW b, NEW m, IsBlock(b, m)
    PROVE  Continues(b, 0, b, m)
  <1> QED BY DEF IsBlock, Continues

LEMMA BlocksAreBlocks ==
    /\ IsBlock(PostsFirst, 5) /\ IsBlock(Topics, 3) /\ IsBlock(Comments, 5) /\ IsBlock(Questions, 3)
    /\ IsBlock(Admins, 6) /\ IsBlock(Practice, 7) /\ IsBlock(PostsLast, 3)
  <1>1. IsBlock(PostsFirst, 5)
    <2>1. PostsFirst = [i \in 1..5 |-> PostsFirst[i]] /\ Len(PostsFirst) = 5 BY DEF PostsFirst
    <2>2. \A i \in 1..5 : PostsFirst[i] \in Statements BY DEF Statements
    <2>3. PostsFirst \in [1..5 -> Statements] BY <2>1, <2>2
    <2> QED BY <2>1, <2>3, SeqDef DEF IsBlock
  <1>2. IsBlock(Topics, 3)
    <2>1. Topics = [i \in 1..3 |-> Topics[i]] /\ Len(Topics) = 3 BY DEF Topics
    <2>2. \A i \in 1..3 : Topics[i] \in Statements BY DEF Statements
    <2>3. Topics \in [1..3 -> Statements] BY <2>1, <2>2
    <2> QED BY <2>1, <2>3, SeqDef DEF IsBlock
  <1>3. IsBlock(Comments, 5)
    <2>1. Comments = [i \in 1..5 |-> Comments[i]] /\ Len(Comments) = 5 BY DEF Comments
    <2>2. \A i \in 1..5 : Comments[i] \in Statements BY DEF Statements
    <2>3. Comments \in [1..5 -> Statements] BY <2>1, <2>2
    <2> QED BY <2>1, <2>3, SeqDef DEF IsBlock
  <1>4. IsBlock(Questions, 3)
    <2>1. Questions = [i \in 1..3 |-> Questions[i]] /\ Len(Questions) = 3 BY DEF Questions
    <2>2. \A i \in 1..3 : Questions[i] \in Statements BY DEF Statements
    <2>3. Questions \in [1..3 -> Statements] BY <2>1, <2>2
    <2> QED BY <2>1, <2>3, SeqDef DEF IsBlock
  <1>5. IsBlock(Admins, 6)
    <2>1. Admins = [i \in 1..6 |-> Admins[i]] /\ Len(Admins) = 6 BY DEF Admins
    <2>2. \A i \in 1..6 : Admins[i] \in Statements BY DEF Statements
    <2>3. Admins \in [1..6 -> Statements] BY <2>1, <2>2
    <2> QED BY <2>1, <2>3, SeqDef DEF IsBlock
  <1>6. IsBlock(Practice, 7)
    <2>1. Practice = [i \in 1..7 |-> Practice[i]] /\ Len(Practice) = 7 BY DEF Practice
    <2>2. \A i \in 1..7 : Practice[i] \in Statements BY DEF Statements
    <2>3. Practice \in [1..7 -> Statements] BY <2>1, <2>2
    <2> QED BY <2>1, <2>3, SeqDef DEF IsBlock
  <1>7. IsBlock(PostsLast, 3)
    <2>1. PostsLast = [i \in 1..3 |-> PostsLast[i]] /\ Len(PostsLast) = 3 BY DEF PostsLast
    <2>2. \A i \in 1..3 : PostsLast[i] \in Statements BY DEF Statements
    <2>3. PostsLast \in [1..3 -> Statements] BY <2>1, <2>2
    <2> QED BY <2>1, <2>3, SeqDef DEF IsBlock
  <1> QED BY <1>1, <1>2, <1>3, <1>4, <1>5, <1>6, <1>7

LEMMA BlocksInOrder ==
    /\ IsBlock(InitTable, 32)
    /\ Continues(InitTable, 0, PostsFirst, 5) /\ Continues(InitTable, 5, Topics, 3)
    /\ Continues(InitTable, 8, Comments, 5) /\ Continues(InitTable, 13, Questions, 3)
    /\ Continues(InitTable, 16, Admins, 6) /\ Continues(InitTable, 22, Practice, 7)
    /\ Continues(InitTable, 29, PostsLast, 3)
  <1> DEFINE t2 == PostsFirst \o Topics
             t3 == t2 \o Comments
             t4 == t3 \o Questions
             t5 == t4 \o Admins
             t6 == t5 \o Practice
  <1> HIDE DEF t2, t3, t4, t5, t6
  <1>0. /\ t2 = PostsFirst \o Topics /\ t3 = t2 \o Comments /\ t4 = t3 \o Questions
        /\ t5 = t4 \o Admins /\ t6 = t5 \o Practice /\ InitTable = t6 \o PostsLast
    BY DEF t2, t3, t4, t5, t6, InitTable
  <1>1. Continues(PostsFirst, 0, PostsFirst, 5)
    BY BlocksAreBlocks, FirstBlock
  <1>2. /\ IsBlock(t2, 8)
        /\ Continues(t2, 0, PostsFirst, 5)
        /\ Continues(t2, 5, Topics, 3)
    <2>1. /\ IsBlock(t2, 5 + 3) /\ Continues(t2, 5, Topics, 3)
          /\ \A f, k \in Nat : \A d :
                f + k <= 5 /\ Continues(PostsFirst, f, d, k) => Continues(t2, f, d, k)
      BY <1>0, <1>1, BlocksAreBlocks, ConcatBlocks
    <2> QED BY <1>1, <2>1
  <1>3. /\ IsBlock(t3, 13)
        /\ Continues(t3, 0, PostsFirst, 5)
        /\ Continues(t3, 5, Topics, 3)
        /\ Continues(t3, 8, Comments, 5)
    <2>1. /\ IsBlock(t3, 8 + 5) /\ Continues(t3, 8, Comments, 5)
          /\ \A f, k \in Nat : \A d :
                f + k <= 8 /\ Continues(t2, f, d, k) => Continues(t3, f, d, k)
      BY <1>0, <1>2, BlocksAreBlocks, ConcatBlocks
    <2> QED BY <1>2, <2>1
  <1>4. /\ IsBlock(t4, 16)
        /\ Continues(t4, 0, PostsFirst, 5)
        /\ Continues(t4, 5, Topics, 3)
        /\ Continues(t4, 8, Comments, 5)
        /\ Continues(t4, 13, Questions, 3)
    <2>1. /\ IsBlock(t4, 13 + 3) /\ Continues(t4, 13, Questions, 3)
          /\ \A f, k \in Nat : \A d :
                f + k <= 13 /\ Continues(t3, f, d, k) => Continues(t4, f, d, k)
      BY <1>0, <1>3, BlocksAreBlocks, ConcatBlocks
    <2> QED BY <1>3, <2>1
  <1>5. /\ IsBlock(t5, 22)
        /\ Continues(t5, 0, PostsFirst, 5)
        /\ Continues(t5, 5, Topics, 3)
        /\ Continues(t5, 8, Comments, 5)
        /\ Continues(t5, 13, Questions, 3)
        /\ Continues(t5, 16, Admins, 6)
    <2>1. /\ IsBlock(t5, 16 + 6) /\ Continues(t5, 16, Admins, 6)
          /\ \A f, k \in Nat : \A d :
                f + k <= 16 /\ Continues(t4, f, d, k) => Continues(t5, f, d, k)
      BY <1>0, <1>4, BlocksAreBlocks, ConcatBlocks
    <2> QED BY <1>4, <2>1
  <1>6. /\ IsBlock(t6, 29)
        /\ Continues(t6, 0, PostsFirst, 5)
        /\ Continues(t6, 5, Topics, 3)
        /\ Continues(t6, 8, Comments, 5)
        /\ Continues(t6, 13, Questions, 3)
        /\ Continues(t6, 16, Admins, 6)
        /\ Continues(t6, 22, Practice, 7)
    <2>1. /\ IsBlock(t6, 22 + 7) /\ Continues(t6, 22, Practice, 7)
          /\ \A f, k \in Nat : \A d :
                f + k <= 22 /\ Continues(t5, f, d, k) => Continues(t6, f, d, k)
      BY <1>0, <1>5, BlocksAreBlocks, ConcatBlocks
    <2> QED BY <1>5, <2>1
  <1>7. /\ IsBlock(InitTable, 32)
        /\ Continues(InitTable, 0, PostsFirst, 5)
        /\ Continues(InitTable, 5, Topics, 3)
        /\ Continues(InitTable, 8, Comments, 5)
        /\ Continues(InitTable, 13, Questions, 3)
        /\ Continues(InitTable, 16, Admins, 6)
        /\ Continues(InitTable, 22, Practice, 7)
        /\ Continues(InitTable, 29, PostsLast, 3)
    <2>1. /\ IsBlock(InitTable, 29 + 3) /\ Continues(InitTable, 29, PostsLast, 3)
          /\ \A f, k \in Nat : \A d :
                f + k <= 29 /\ Continues(t6, f, d, k) => Continues(InitTable, f, d, k)
      BY <1>0, <1>6, BlocksAreBlocks, ConcatBlocks
    <2> QED BY <1>6, <2>1
  <1> QED BY <1>7

LEMMA Rows ==
    /\ InitTable[1] = PostsFirst[1] /\ InitTable[2] = PostsFirst[2]
    /\ InitTable[3] = PostsFirst[3] /\ InitTable[4] = PostsFirst[4]
    /\ InitTable[5] = PostsFirst[5]
    /\ InitTable[6] = Topics[1] /\ InitTable[7] = Topics[2] /\ InitTable[8] = Topics[3]
    /\ InitTable[9] = Comments[1] /\ InitTable[10] = Comments[2]
    /\ InitTable[11] = Comments[3] /\ InitTable[12] = Comments[4]
    /\ InitTable[13] = Comments[5]
    /\ InitTable[14] = Questions[1] /\ InitTable[15] = Questions[2]
    /\ InitTable[16] = Questions[3]
    /\ InitTable[17] = Admins[1] /\ InitTable[18] = Admins[2] /\ InitTable[19] = Admins[3]
    /\ InitTable[20] = Admins[4] /\ InitTable[21] = Admins[5] /\ InitTable[22] = Admins[6]
    /\ InitTable[23] = Practice[1] /\ InitTable[24] = Practice[2]
    /\ InitTable[25] = Practice[3] /\ InitTable[26] = Practice[4]
    /\ InitTable[27] = Practice[5] /\ InitTable[28] = Practice[6]
    /\ InitTable[29] = Practice[7]
    /\ InitTable[30] = PostsLast[1] /\ InitTable[31] = PostsLast[2]
    /\ InitTable[32] = PostsLast[3]
  <1> QED BY BlocksInOrder DEF Continues

(***************************************************************************)
(* The statements of initTable one by one.                                 *)
(***************************************************************************)
IsStatement(i, does, part, needs) ==
    InitTable[i].does = does /\ InitTable[i].part = part /\ InitTable[i].needs = needs

LEMMA TableLength == DOMAIN InitTable = 1..32 /\ Len(InitTable) = 32 /\ Serving = 33
  <1>1. IsBlock(InitTable, 32)
    BY BlocksInOrder
  <1>2. InitTable \in Seq(Statements) /\ Len(InitTable) = 32
    BY <1>1 DEF IsBlock
  <1>3. DOMAIN InitTable = 1..Len(InitTable)
    BY <1>2, LenProperties
  <1> QED BY <1>2, <1>3 DEF Serving

LEMMA Table ==
    /\ IsStatement(1, "create", "posts", {})
    /\ IsStatement(2, "add", "posts.topic", {"posts"})
    /\ IsStatement(3, "add", "posts.summary", {"posts"})
    /\ IsStatement(4, "add", "posts.status", {"posts.topic"})
    /\ IsStatement(5, "add", "posts.likes", {"posts.status"})
    /\ IsStatement(6, "create", "topics", {})
    /\ IsStatement(7, "fill_topics", "none", {"topics", "posts.topic"})
    /\ IsStatement(8, "add", "posts.theme", {"posts.topic"})
    /\ IsStatement(9, "create", "comments", {})
    /\ IsStatement(10, "add", "comments.parent_id", {"comments"})
    /\ IsStatement(11, "add", "comments.hidden", {"comments"})
    /\ IsStatement(12, "add", "comments.owner_token", {"comments"})
    /\ IsStatement(13, "add", "idx_comments_owner", {"comments.owner_token"})
    /\ IsStatement(14, "create", "questions", {})
    /\ IsStatement(15, "create", "daily_questions", {})
    /\ IsStatement(16, "create", "daily_seen", {})
    /\ IsStatement(17, "create", "settings", {})
    /\ IsStatement(18, "create", "admins", {})
    /\ IsStatement(19, "add", "admins.nickname", {"admins"})
    /\ IsStatement(20, "add", "admins.avatar", {"admins.nickname"})
    /\ IsStatement(21, "name_admins", "none", {"admins.nickname"})
    /\ IsStatement(22, "seed_admin", "none", {"admins.nickname"})
    /\ IsStatement(23, "create", "practice_chapters", {})
    /\ IsStatement(24, "create", "practice_exercises", {})
    /\ IsStatement(25, "add", "exercises.options", {"practice_exercises"})
    /\ IsStatement(26, "add", "exercises.answer", {"exercises.options"})
    /\ IsStatement(27, "add", "exercises.solution", {"exercises.answer"})
    /\ IsStatement(28, "test_driver_null", "none", {"practice_exercises"})
    /\ IsStatement(29, "create", "practice_progress", {})
    /\ IsStatement(30, "add", "posts.author_id", {"posts"})
    /\ IsStatement(31, "add", "posts.hidden", {"posts.likes"})
    /\ IsStatement(32, "backfill", "none", {"posts.author_id", "admins.nickname"})
  <1>1. /\ IsStatement(1, "create", "posts", {})
        /\ IsStatement(2, "add", "posts.topic", {"posts"})
        /\ IsStatement(3, "add", "posts.summary", {"posts"})
        /\ IsStatement(4, "add", "posts.status", {"posts.topic"})
        /\ IsStatement(5, "add", "posts.likes", {"posts.status"})
    BY Rows DEF IsStatement, PostsFirst, Create, AddAfter, Run
  <1>2. /\ IsStatement(6, "create", "topics", {})
        /\ IsStatement(7, "fill_topics", "none", {"topics", "posts.topic"})
        /\ IsStatement(8, "add", "posts.theme", {"posts.topic"})
    BY Rows DEF IsStatement, Topics, Create, AddAfter, Run
  <1>3. /\ IsStatement(9, "create", "comments", {})
        /\ IsStatement(10, "add", "comments.parent_id", {"comments"})
        /\ IsStatement(11, "add", "comments.hidden", {"comments"})
        /\ IsStatement(12, "add", "comments.owner_token", {"comments"})
        /\ IsStatement(13, "add", "idx_comments_owner", {"comments.owner_token"})
    BY Rows DEF IsStatement, Comments, Create, AddAfter, Run
  <1>4. /\ IsStatement(14, "create", "questions", {})
        /\ IsStatement(15, "create", "daily_questions", {})
        /\ IsStatement(16, "create", "daily_seen", {})
    BY Rows DEF IsStatement, Questions, Create, AddAfter, Run
  <1>5. /\ IsStatement(17, "create", "settings", {})
        /\ IsStatement(18, "create", "admins", {})
        /\ IsStatement(19, "add", "admins.nickname", {"admins"})
        /\ IsStatement(20, "add", "admins.avatar", {"admins.nickname"})
        /\ IsStatement(21, "name_admins", "none", {"admins.nickname"})
        /\ IsStatement(22, "seed_admin", "none", {"admins.nickname"})
    BY Rows DEF IsStatement, Admins, Create, AddAfter, Run
  <1>6. /\ IsStatement(23, "create", "practice_chapters", {})
        /\ IsStatement(24, "create", "practice_exercises", {})
        /\ IsStatement(25, "add", "exercises.options", {"practice_exercises"})
        /\ IsStatement(26, "add", "exercises.answer", {"exercises.options"})
        /\ IsStatement(27, "add", "exercises.solution", {"exercises.answer"})
        /\ IsStatement(28, "test_driver_null", "none", {"practice_exercises"})
        /\ IsStatement(29, "create", "practice_progress", {})
    BY Rows DEF IsStatement, Practice, Create, AddAfter, Run
  <1>7. /\ IsStatement(30, "add", "posts.author_id", {"posts"})
        /\ IsStatement(31, "add", "posts.hidden", {"posts.likes"})
        /\ IsStatement(32, "backfill", "none", {"posts.author_id", "admins.nickname"})
    BY Rows DEF IsStatement, PostsLast, Create, AddAfter, Run
  <1> QED BY <1>1, <1>2, <1>3, <1>4, <1>5, <1>6, <1>7

(***************************************************************************)
(* What a statement leaves behind, and what the statements before the i-th *)
(* leave behind.                                                           *)
(***************************************************************************)
Made(s) == IF s.does \in {"create", "add"} THEN {s.part}
           ELSE IF s.does = "test_driver_null" THEN {"test_driver_null"} ELSE {}
MadeBefore(i) == {p \in Complete : \E j \in DOMAIN InitTable : j < i /\ p \in Made(InitTable[j])}

LEMMA CompleteIs ==
    \A p : p \in Complete <=> \/ p = "test_driver_null"
                              \/ \E i \in 1..32 : /\ InitTable[i].does \in {"create", "add"}
                                                  /\ InitTable[i].part = p
  <1>1. ToSet(InitTable) = {InitTable[i] : i \in 1..32}
    BY TableLength DEF ToSet
  <1> HIDE DEF InitTable
  <1> QED BY <1>1 DEF Complete

LEMMA AllIsMade == Complete \subseteq MadeBefore(33)
  <1> SUFFICES ASSUME NEW p \in Complete
               PROVE  \E j \in 1..32 : p \in Made(InitTable[j])
    BY TableLength DEF MadeBefore
  <1>1. CASE p = "test_driver_null"
    <2>1. InitTable[28].does = "test_driver_null" BY Table DEF IsStatement
    <2> QED BY <1>1, <2>1 DEF Made
  <1>2. CASE \E i \in 1..32 : InitTable[i].does \in {"create", "add"} /\ InitTable[i].part = p
    BY <1>2 DEF Made
  <1> QED BY <1>1, <1>2, CompleteIs

LEMMA MadeAt ==
    ASSUME NEW i \in Nat, NEW j \in 1..32, j < i, InitTable[j].does \in {"create", "add"}
    PROVE  InitTable[j].part \in MadeBefore(i)
  <1> QED BY TableLength, CompleteIs DEF MadeBefore, Made

\* From which statement on a part is there, for the parts that some statement needs.
LEMMA MadeInTime ==
    ASSUME NEW i \in 1..32
    PROVE  /\ i > 1 => "posts" \in MadeBefore(i)
           /\ i > 2 => "posts.topic" \in MadeBefore(i)
           /\ i > 4 => "posts.status" \in MadeBefore(i)
           /\ i > 5 => "posts.likes" \in MadeBefore(i)
           /\ i > 6 => "topics" \in MadeBefore(i)
           /\ i > 9 => "comments" \in MadeBefore(i)
           /\ i > 12 => "comments.owner_token" \in MadeBefore(i)
           /\ i > 18 => "admins" \in MadeBefore(i)
           /\ i > 19 => "admins.nickname" \in MadeBefore(i)
           /\ i > 24 => "practice_exercises" \in MadeBefore(i)
           /\ i > 25 => "exercises.options" \in MadeBefore(i)
           /\ i > 26 => "exercises.answer" \in MadeBefore(i)
           /\ i > 30 => "posts.author_id" \in MadeBefore(i)
  <1>1. i > 1 => "posts" \in MadeBefore(i)
    BY Table, MadeAt DEF IsStatement
  <1>2. i > 2 => "posts.topic" \in MadeBefore(i)
    BY Table, MadeAt DEF IsStatement
  <1>3. i > 4 => "posts.status" \in MadeBefore(i)
    BY Table, MadeAt DEF IsStatement
  <1>4. i > 5 => "posts.likes" \in MadeBefore(i)
    BY Table, MadeAt DEF IsStatement
  <1>5. i > 6 => "topics" \in MadeBefore(i)
    BY Table, MadeAt DEF IsStatement
  <1>6. i > 9 => "comments" \in MadeBefore(i)
    BY Table, MadeAt DEF IsStatement
  <1>7. i > 12 => "comments.owner_token" \in MadeBefore(i)
    BY Table, MadeAt DEF IsStatement
  <1>8. i > 18 => "admins" \in MadeBefore(i)
    BY Table, MadeAt DEF IsStatement
  <1>9. i > 19 => "admins.nickname" \in MadeBefore(i)
    BY Table, MadeAt DEF IsStatement
  <1>10. i > 24 => "practice_exercises" \in MadeBefore(i)
    BY Table, MadeAt DEF IsStatement
  <1>11. i > 25 => "exercises.options" \in MadeBefore(i)
    BY Table, MadeAt DEF IsStatement
  <1>12. i > 26 => "exercises.answer" \in MadeBefore(i)
    BY Table, MadeAt DEF IsStatement
  <1>13. i > 30 => "posts.author_id" \in MadeBefore(i)
    BY Table, MadeAt DEF IsStatement
  <1> QED BY <1>1, <1>2, <1>3, <1>4, <1>5, <1>6, <1>7, <1>8, <1>9, <1>10, <1>11, <1>12, <1>13

(***************************************************************************)
(* Whatever a statement needs is made by the statements before it.         *)
(***************************************************************************)
LEMMA NeedsAreMadeBefore ==
    ASSUME NEW i \in 1..32
    PROVE  InitTable[i].needs \subseteq MadeBefore(i)
  <1>0. /\ i > 1 => "posts" \in MadeBefore(i)
        /\ i > 2 => "posts.topic" \in MadeBefore(i)
        /\ i > 4 => "posts.status" \in MadeBefore(i)
        /\ i > 5 => "posts.likes" \in MadeBefore(i)
        /\ i > 6 => "topics" \in MadeBefore(i)
        /\ i > 9 => "comments" \in MadeBefore(i)
        /\ i > 12 => "comments.owner_token" \in MadeBefore(i)
        /\ i > 18 => "admins" \in MadeBefore(i)
        /\ i > 19 => "admins.nickname" \in MadeBefore(i)
        /\ i > 24 => "practice_exercises" \in MadeBefore(i)
        /\ i > 25 => "exercises.options" \in MadeBefore(i)
        /\ i > 26 => "exercises.answer" \in MadeBefore(i)
        /\ i > 30 => "posts.author_id" \in MadeBefore(i)
    BY MadeInTime
  <1>1. CASE i \in 1..5
    <2>1. /\ InitTable[1].needs = {}
          /\ InitTable[2].needs = {"posts"}
          /\ InitTable[3].needs = {"posts"}
          /\ InitTable[4].needs = {"posts.topic"}
          /\ InitTable[5].needs = {"posts.status"}
      BY Table DEF IsStatement
    <2>2. i = 1 \/ i = 2 \/ i = 3 \/ i = 4 \/ i = 5
      BY <1>1
    <2> QED BY <1>0, <2>1, <2>2
  <1>2. CASE i \in 6..8
    <2>1. /\ InitTable[6].needs = {}
          /\ InitTable[7].needs = {"topics", "posts.topic"}
          /\ InitTable[8].needs = {"posts.topic"}
      BY Table DEF IsStatement
    <2>2. i = 6 \/ i = 7 \/ i = 8
      BY <1>2
    <2> QED BY <1>0, <2>1, <2>2
  <1>3. CASE i \in 9..13
    <2>1. /\ InitTable[9].needs = {}
          /\ InitTable[10].needs = {"comments"}
          /\ InitTable[11].needs = {"comments"}
          /\ InitTable[12].needs = {"comments"}
          /\ InitTable[13].needs = {"comments.owner_token"}
      BY Table DEF IsStatement
    <2>2. i = 9 \/ i = 10 \/ i = 11 \/ i = 12 \/ i = 13
      BY <1>3
    <2> QED BY <1>0, <2>1, <2>2
  <1>4. CASE i \in 14..16
    <2>1. /\ InitTable[14].needs = {}
          /\ InitTable[15].needs = {}
          /\ InitTable[16].needs = {}
      BY Table DEF IsStatement
    <2>2. i = 14 \/ i = 15 \/ i = 16
      BY <1>4
    <2> QED BY <1>0, <2>1, <2>2
  <1>5. CASE i \in 17..22
    <2>1. /\ InitTable[17].needs = {}
          /\ InitTable[18].needs = {}
          /\ InitTable[19].needs = {"admins"}
          /\ InitTable[20].needs = {"admins.nickname"}
          /\ InitTable[21].needs = {"admins.nickname"}
          /\ InitTable[22].needs = {"admins.nickname"}
      BY Table DEF IsStatement
    <2>2. i = 17 \/ i = 18 \/ i = 19 \/ i = 20 \/ i = 21 \/ i = 22
      BY <1>5
    <2> QED BY <1>0, <2>1, <2>2
  <1>6. CASE i \in 23..29
    <2>1. /\ InitTable[23].needs = {}
          /\ InitTable[24].needs = {}
          /\ InitTable[25].needs = {"practice_exercises"}
          /\ InitTable[26].needs = {"exercises.options"}
          /\ InitTable[27].needs = {"exercises.answer"}
          /\ InitTable[28].needs = {"practice_exercises"}
          /\ InitTable[29].needs = {}
      BY Table DEF IsStatement
    <2>2. i = 23 \/ i = 24 \/ i = 25 \/ i = 26 \/ i = 27 \/ i = 28 \/ i = 29
      BY <1>6
    <2> QED BY <1>0, <2>1, <2>2
  <1>7. CASE i \in 30..32
    <2>1. /\ InitTable[30].needs = {"posts"}
          /\ InitTable[31].needs = {"posts.likes"}
          /\ InitTable[32].needs = {"posts.author_id", "admins.nickname"}
      BY Table DEF IsStatement
    <2>2. i = 30 \/ i = 31 \/ i = 32
      BY <1>7
    <2> QED BY <1>0, <2>1, <2>2
  <1>8. \/ i \in 1..5 \/ i \in 6..8 \/ i \in 9..13 \/ i \in 14..16
        \/ i \in 17..22 \/ i \in 23..29 \/ i \in 30..32
    OBVIOUS
  <1> QED BY <1>1, <1>2, <1>3, <1>4, <1>5, <1>6, <1>7, <1>8

LEMMA PartsMade ==
    ASSUME NEW i \in 1..32, InitTable[i].does \in {"create", "add"}
    PROVE  InitTable[i].part \in Complete
  <1> QED BY CompleteIs

LEMMA PartsOfComplete ==
    /\ {"posts.topic", "posts.summary", "posts.status", "posts.likes", "posts.hidden"} \subseteq Complete
    /\ {"comments.parent_id", "comments.hidden", "admins.nickname", "admins.avatar"} \subseteq Complete
    /\ {"exercises.options", "exercises.answer", "exercises.solution", "practice_chapters",
        "practice_exercises", "practice_progress"} \subseteq Complete
    /\ "test_driver_null" \in Complete
  <1>1. {"posts.topic", "posts.summary", "posts.status", "posts.likes", "posts.hidden"}
          \subseteq Complete
    <2>1. /\ InitTable[2].does \in {"create", "add"} /\ InitTable[2].part = "posts.topic"
          /\ InitTable[3].does \in {"create", "add"} /\ InitTable[3].part = "posts.summary"
          /\ InitTable[4].does \in {"create", "add"} /\ InitTable[4].part = "posts.status"
          /\ InitTable[5].does \in {"create", "add"} /\ InitTable[5].part = "posts.likes"
          /\ InitTable[31].does \in {"create", "add"} /\ InitTable[31].part = "posts.hidden"
      BY Table DEF IsStatement
    <2>2. "posts.topic" \in Complete
      BY <2>1, PartsMade
    <2>3. "posts.summary" \in Complete
      BY <2>1, PartsMade
    <2>4. "posts.status" \in Complete
      BY <2>1, PartsMade
    <2>5. "posts.likes" \in Complete
      BY <2>1, PartsMade
    <2>6. "posts.hidden" \in Complete
      BY <2>1, PartsMade
    <2> QED BY <2>2, <2>3, <2>4, <2>5, <2>6
  <1>2. {"comments.parent_id", "comments.hidden", "admins.nickname", "admins.avatar"} \subseteq Complete
    <2>1. /\ InitTable[10].does \in {"create", "add"} /\ InitTable[10].part = "comments.parent_id"
          /\ InitTable[11].does \in {"create", "add"} /\ InitTable[11].part = "comments.hidden"
          /\ InitTable[19].does \in {"create", "add"} /\ InitTable[19].part = "admins.nickname"
          /\ InitTable[20].does \in {"create", "add"} /\ InitTable[20].part = "admins.avatar"
      BY Table DEF IsStatement
    <2>2. "comments.parent_id" \in Complete
      BY <2>1, PartsMade
    <2>3. "comments.hidden" \in Complete
      BY <2>1, PartsMade
    <2>4. "admins.nickname" \in Complete
      BY <2>1, PartsMade
    <2>5. "admins.avatar" \in Complete
      BY <2>1, PartsMade
    <2> QED BY <2>2, <2>3, <2>4, <2>5
  <1>3. {"exercises.options", "exercises.answer", "exercises.solution", "practice_chapters",
        "practice_exercises", "practice_progress"} \subseteq Complete
    <2>1. /\ InitTable[25].does \in {"create", "add"} /\ InitTable[25].part = "exercises.options"
          /\ InitTable[26].does \in {"create", "add"} /\ InitTable[26].part = "exercises.answer"
          /\ InitTable[27].does \in {"create", "add"} /\ InitTable[27].part = "exercises.solution"
          /\ InitTable[23].does \in {"create", "add"} /\ InitTable[23].part = "practice_chapters"
          /\ InitTable[24].does \in {"create", "add"} /\ InitTable[24].part = "practice_exercises"
          /\ InitTable[29].does \in {"create", "add"} /\ InitTable[29].part = "practice_progress"
      BY Table DEF IsStatement
    <2>2. "exercises.options" \in Complete
      BY <2>1, PartsMade
    <2>3. "exercises.answer" \in Complete
      BY <2>1, PartsMade
    <2>4. "exercises.solution" \in Complete
      BY <2>1, PartsMade
    <2>5. "practice_chapters" \in Complete
      BY <2>1, PartsMade
    <2>6. "practice_exercises" \in Complete
      BY <2>1, PartsMade
    <2>7. "practice_progress" \in Complete
      BY <2>1, PartsMade
    <2> QED BY <2>2, <2>3, <2>4, <2>5, <2>6, <2>7
  <1>4. "test_driver_null" \in Complete
    BY CompleteIs
  <1> QED BY <1>1, <1>2, <1>3, <1>4

LEMMA WithIsComplete == \A i \in 1..32 : InitTable[i].with \subseteq Complete
  <1> SUFFICES ASSUME NEW i \in 1..32 PROVE InitTable[i].with \subseteq Complete
    OBVIOUS
  <1>1. CASE i \in 1..5
    <2>1. /\ InitTable[1] = PostsFirst[1]
          /\ InitTable[2] = PostsFirst[2]
          /\ InitTable[3] = PostsFirst[3]
          /\ InitTable[4] = PostsFirst[4]
          /\ InitTable[5] = PostsFirst[5]
      BY Rows
    <2>2. /\ PostsFirst[1].with = {"posts.topic", "posts.summary", "posts.status",
                                    "posts.likes", "posts.hidden"}
          /\ PostsFirst[2].with = {}
          /\ PostsFirst[3].with = {}
          /\ PostsFirst[4].with = {}
          /\ PostsFirst[5].with = {}
      BY DEF PostsFirst, Create, AddAfter, Run
    <2>3. i = 1 \/ i = 2 \/ i = 3 \/ i = 4 \/ i = 5
      BY <1>1
    <2> QED BY <2>1, <2>2, <2>3, PartsOfComplete
  <1>2. CASE i \in 6..8
    <2>1. /\ InitTable[6] = Topics[1]
          /\ InitTable[7] = Topics[2]
          /\ InitTable[8] = Topics[3]
      BY Rows
    <2>2. /\ Topics[1].with = {}
          /\ Topics[2].with = {}
          /\ Topics[3].with = {}
      BY DEF Topics, Create, AddAfter, Run
    <2>3. i = 6 \/ i = 7 \/ i = 8
      BY <1>2
    <2> QED BY <2>1, <2>2, <2>3, PartsOfComplete
  <1>3. CASE i \in 9..13
    <2>1. /\ InitTable[9] = Comments[1]
          /\ InitTable[10] = Comments[2]
          /\ InitTable[11] = Comments[3]
          /\ InitTable[12] = Comments[4]
          /\ InitTable[13] = Comments[5]
      BY Rows
    <2>2. /\ Comments[1].with = {"comments.parent_id", "comments.hidden"}
          /\ Comments[2].with = {}
          /\ Comments[3].with = {}
          /\ Comments[4].with = {}
          /\ Comments[5].with = {}
      BY DEF Comments, Create, AddAfter, Run
    <2>3. i = 9 \/ i = 10 \/ i = 11 \/ i = 12 \/ i = 13
      BY <1>3
    <2> QED BY <2>1, <2>2, <2>3, PartsOfComplete
  <1>4. CASE i \in 14..16
    <2>1. /\ InitTable[14] = Questions[1]
          /\ InitTable[15] = Questions[2]
          /\ InitTable[16] = Questions[3]
      BY Rows
    <2>2. /\ Questions[1].with = {}
          /\ Questions[2].with = {}
          /\ Questions[3].with = {}
      BY DEF Questions, Create, AddAfter, Run
    <2>3. i = 14 \/ i = 15 \/ i = 16
      BY <1>4
    <2> QED BY <2>1, <2>2, <2>3, PartsOfComplete
  <1>5. CASE i \in 17..22
    <2>1. /\ InitTable[17] = Admins[1]
          /\ InitTable[18] = Admins[2]
          /\ InitTable[19] = Admins[3]
          /\ InitTable[20] = Admins[4]
          /\ InitTable[21] = Admins[5]
          /\ InitTable[22] = Admins[6]
      BY Rows
    <2>2. /\ Admins[1].with = {}
          /\ Admins[2].with = {"admins.nickname", "admins.avatar"}
          /\ Admins[3].with = {}
          /\ Admins[4].with = {}
          /\ Admins[5].with = {}
          /\ Admins[6].with = {}
      BY DEF Admins, Create, AddAfter, Run
    <2>3. i = 17 \/ i = 18 \/ i = 19 \/ i = 20 \/ i = 21 \/ i = 22
      BY <1>5
    <2> QED BY <2>1, <2>2, <2>3, PartsOfComplete
  <1>6. CASE i \in 23..29
    <2>1. /\ InitTable[23] = Practice[1]
          /\ InitTable[24] = Practice[2]
          /\ InitTable[25] = Practice[3]
          /\ InitTable[26] = Practice[4]
          /\ InitTable[27] = Practice[5]
          /\ InitTable[28] = Practice[6]
          /\ InitTable[29] = Practice[7]
      BY Rows
    <2>2. /\ Practice[1].with = {}
          /\ Practice[2].with = {"exercises.options", "exercises.answer", "exercises.solution",
                                  "test_driver_null"}
          /\ Practice[3].with = {}
          /\ Practice[4].with = {}
          /\ Practice[5].with = {}
          /\ Practice[6].with = {}
          /\ Practice[7].with = {}
      BY DEF Practice, Create, AddAfter, Run
    <2>3. i = 23 \/ i = 24 \/ i = 25 \/ i = 26 \/ i = 27 \/ i = 28 \/ i = 29
      BY <1>6
    <2> QED BY <2>1, <2>2, <2>3, PartsOfComplete
  <1>7. CASE i \in 30..32
    <2>1. /\ InitTable[30] = PostsLast[1]
          /\ InitTable[31] = PostsLast[2]
          /\ InitTable[32] = PostsLast[3]
      BY Rows
    <2>2. /\ PostsLast[1].with = {}
          /\ PostsLast[2].with = {}
          /\ PostsLast[3].with = {}
      BY DEF PostsLast, Create, AddAfter, Run
    <2>3. i = 30 \/ i = 31 \/ i = 32
      BY <1>7
    <2> QED BY <2>1, <2>2, <2>3, PartsOfComplete
  <1>8. \/ i \in 1..5 \/ i \in 6..8 \/ i \in 9..13 \/ i \in 14..16
        \/ i \in 17..22 \/ i \in 23..29 \/ i \in 30..32
    OBVIOUS
  <1> QED BY <1>1, <1>2, <1>3, <1>4, <1>5, <1>6, <1>7, <1>8

(***************************************************************************)
(* The import: eight statements, that need and make parts of the complete  *)
(* tables only.  Where it looks for the column and where it adds it.       *)
(***************************************************************************)
LEMMA ImportStatements ==
    /\ Len(Import) = 8
    /\ \A k \in 1..8 :
          /\ Import[k].needs \subseteq Complete
          /\ Import[k].does = "create" => Import[k].part \in Complete
                                            /\ Import[k].with \subseteq Complete
          /\ Import[k].does = "look" <=> k = 4
          /\ Import[k].does = "alter" <=> k = 5
  <1>1. Len(Import) = 8
    BY DEF Import
  <1>2. ExerciseColumns \subseteq Complete /\ "test_driver_null" \in Complete
    BY PartsOfComplete DEF ExerciseColumns
  <1>3. /\ Import[1] = Create("practice_chapters", {})
        /\ Import[2] = Create("practice_exercises", (ExerciseColumns \ {"practice_exercises"})
                                                        \cup {"test_driver_null"})
        /\ Import[3] = Create("practice_progress", {})
        /\ Import[4] = Run("look", {}) /\ Import[5] = Run("alter", {"exercises.answer"})
        /\ Import[6] = Run("chapters", {"practice_chapters"})
        /\ Import[7] = Run("code", ExerciseColumns)
        /\ Import[8] = Run("choice", ExerciseColumns \cup {"test_driver_null"})
    BY DEF Import
  <1>4. \A k \in 1..8 : k = 1 \/ k = 2 \/ k = 3 \/ k = 4 \/ k = 5 \/ k = 6 \/ k = 7 \/ k = 8
    OBVIOUS
  <1>5. ASSUME NEW k \in 1..8
        PROVE  /\ Import[k].needs \subseteq Complete
               /\ Import[k].does = "create" => Import[k].part \in Complete
                                                 /\ Import[k].with \subseteq Complete
    <2>1. k \in 1..3 => /\ Import[k].needs = {} /\ Import[k].part \in Complete
                        /\ Import[k].with \subseteq Complete
      BY <1>2, <1>3, <1>4, PartsOfComplete DEF Create
    <2>2. k \in 4..8 => Import[k].does # "create" /\ Import[k].needs \subseteq Complete
      BY <1>2, <1>3, <1>4, PartsOfComplete DEF Run
    <2> QED BY <2>1, <2>2
  <1>6. ASSUME NEW k \in 1..8
        PROVE  (Import[k].does = "look" <=> k = 4) /\ (Import[k].does = "alter" <=> k = 5)
    BY <1>3, <1>4 DEF Create, Run
  <1> QED BY <1>1, <1>5, <1>6

LEMMA MadeNext ==
    ASSUME NEW i \in 1..32
    PROVE  \A p \in MadeBefore(i + 1) : p \in MadeBefore(i) \/ p \in Made(InitTable[i])
  <1>1. \A j \in DOMAIN InitTable : j < i + 1 => j < i \/ j = i
    BY TableLength
  <1> QED BY <1>1 DEF MadeBefore

LEMMA NothingMadeYet == MadeBefore(0) = {} /\ MadeBefore(1) = {}
  <1> QED BY TableLength DEF MadeBefore

-----------------------------------------------------------------------------
(***************************************************************************)
(* Types.                                                                  *)
(***************************************************************************)
\* The statements that a start goes on from.
Statement == CreateTable \/ SkipColumn \/ AddColumn \/ RunStatement \/ SkipBackfill \/ Backfill

LEMMA StartTypeInit == Init => TypeOK
  <1> SUFFICES ASSUME Init PROVE TypeOK
    OBVIOUS
  <1>1. /\ at \in 0..Serving
        /\ conn \in {"none", "alive", "dead", "null"} /\ (conn = "none" <=> at = 0)
        /\ present \in {"yes", "no", "unknown"}
        /\ articles \in {"none", "unowned", "owned"}
        /\ import = 0 /\ conn # "alive"
    BY TableLength DEF Init
  <1>5. up \in BOOLEAN /\ served \in BOOLEAN /\ lacking \in BOOLEAN /\ after \in BOOLEAN
    BY Zenon DEF Init
  <1>2. schema \subseteq Complete /\ faults \in 0..MaxFaults
    BY StartupAssumption DEF Init
  <1>3. mainAdmin \in BOOLEAN /\ lost \in BOOLEAN
    BY DEF Init
  <1>4. import \in 0..Len(Import)
    BY <1>1, ImportStatements
  <1> QED BY <1>1, <1>2, <1>3, <1>4, <1>5 DEF TypeOK

\* The statement that is the next of a start.
LEMMA CurrentPart ==
    ASSUME at \in DOMAIN InitTable
    PROVE  /\ at \in 1..32
           /\ Current.does \in {"create", "add"} => Current.part \in Complete
           /\ Current.with \subseteq Complete
           /\ Current.needs \subseteq MadeBefore(at)
  <1>1. at \in 1..32
    BY TableLength
  <1> QED BY <1>1, PartsMade, WithIsComplete, NeedsAreMadeBefore DEF Current

LEMMA GoOnType ==
    ASSUME TypeOK, at \in DOMAIN InitTable, GoOn
    PROVE  /\ at' \in 0..Serving /\ at' # 0 /\ at' = at + 1 /\ present' = "unknown" /\ conn' = conn
           /\ served' \in BOOLEAN /\ lost' \in BOOLEAN
  <1>1. at \in 1..32
    BY CurrentPart
  <1>2. served' \in BOOLEAN /\ lost' = lost
    BY Zenon DEF GoOn
  <1>3. lost \in BOOLEAN
    BY DEF TypeOK
  <1> QED BY <1>1, <1>2, <1>3, TableLength DEF GoOn

LEMMA ExitType ==
    ASSUME Exit
    PROVE  /\ at' \in 0..Serving /\ conn' \in {"none", "alive", "dead", "null"}
           /\ (conn' = "none" <=> at' = 0) /\ conn' # "alive" /\ present' \in {"yes", "no", "unknown"}
           /\ lost' \in BOOLEAN
  <1>1. lost' \in BOOLEAN
    BY Zenon DEF Exit
  <1> QED BY <1>1, TableLength DEF Exit

LEMMA StatementType ==
    ASSUME TypeOK, Statement
    PROVE  TypeOK'
  <1>1. at \in DOMAIN InitTable /\ GoOn
    BY DEF Statement, CreateTable, SkipColumn, AddColumn, RunStatement, SkipBackfill, Backfill,
           Starting
  <1>2. /\ at' \in 0..Serving /\ at' # 0 /\ at # 0 /\ present' = "unknown" /\ conn' = conn
        /\ served' \in BOOLEAN /\ lost' \in BOOLEAN
    BY <1>1, GoOnType, CurrentPart
  <1>3. UNCHANGED <<up, client, faults>>
    BY DEF Statement, CreateTable, SkipColumn, AddColumn, RunStatement, SkipBackfill, Backfill
  <1>4. schema' \subseteq Complete
    <2>1. "test_driver_null" \in Complete BY PartsOfComplete
    <2>2. schema \subseteq Complete BY DEF TypeOK
    <2>3. CASE CreateTable
      BY <1>1, <2>2, <2>3, CurrentPart DEF CreateTable, Starting
    <2>4. CASE SkipColumn
      BY <2>2, <2>4 DEF SkipColumn, database
    <2>5. CASE AddColumn
      BY <1>1, <2>2, <2>5, CurrentPart DEF AddColumn, Starting
    <2>6. CASE RunStatement
      BY <2>1, <2>2, <2>6 DEF RunStatement
    <2>7. CASE SkipBackfill \/ Backfill
      BY <2>2, <2>7 DEF SkipBackfill, Backfill, database
    <2> QED BY <2>3, <2>4, <2>5, <2>6, <2>7 DEF Statement
  <1>5. articles' \in {"none", "unowned", "owned"}
    BY DEF TypeOK, Statement, CreateTable, SkipColumn, AddColumn, RunStatement, SkipBackfill,
           Backfill, database
  <1>6. mainAdmin' \in BOOLEAN
    <2>1. CASE RunStatement BY <2>1, Zenon DEF RunStatement
    <2>2. CASE CreateTable \/ SkipColumn \/ AddColumn \/ SkipBackfill \/ Backfill
      BY <2>2 DEF TypeOK, CreateTable, SkipColumn, AddColumn, SkipBackfill, Backfill, database
    <2> QED BY <2>1, <2>2 DEF Statement
  <1> QED BY <1>2, <1>3, <1>4, <1>5, <1>6 DEF TypeOK, client

LEMMA ImportType ==
    ASSUME TypeOK, ImportStatement
    PROVE  TypeOK'
  <1>1. import \in 1..8 /\ Len(Import) = 8
    BY ImportStatements DEF ImportStatement, TypeOK
  <1>2. schema' \subseteq Complete
    <2>1. "exercises.solution" \in Complete BY PartsOfComplete
    <2>2. Row.does = "create" => Row.part \in Complete /\ Row.with \subseteq Complete
      BY <1>1, ImportStatements DEF Row
    <2>3. CASE Row.does = "create" /\ Row.part \notin schema
      BY <2>2, <2>3 DEF ImportStatement, TypeOK
    <2>4. CASE ~(Row.does = "create" /\ Row.part \notin schema) /\ Row.does = "alter" /\ lacking
      BY <2>1, <2>4 DEF ImportStatement, TypeOK
    <2>5. CASE ~(Row.does = "create" /\ Row.part \notin schema) /\ ~(Row.does = "alter" /\ lacking)
      BY <2>5 DEF ImportStatement, TypeOK
    <2> QED BY <2>3, <2>4, <2>5
  <1>3. import' \in 0..8 /\ up
    BY <1>1 DEF ImportStatement, TypeOK
  <1>4. lacking' \in BOOLEAN
    BY Zenon DEF ImportStatement, TypeOK
  <1>5. UNCHANGED <<up, process, articles, mainAdmin, served, after, faults>>
    BY DEF ImportStatement
  <1> QED BY <1>1, <1>2, <1>3, <1>4, <1>5 DEF TypeOK, process

LEMMA StartTypeStep == TypeOK /\ [Next]_vars => TypeOK'
  <1> SUFFICES ASSUME TypeOK, [Next]_vars PROVE TypeOK'
    OBVIOUS
  <1>0. Serving = 33 /\ Len(Import) = 8
    BY TableLength, ImportStatements
  <1>1. CASE Start
    <2>1. lost' \in BOOLEAN
      BY <1>1, Zenon DEF Start
    <2> QED BY <1>0, <1>1, <2>1 DEF Start, TypeOK, database, client
  <1>2. CASE Statement
    BY <1>2, StatementType
  <1>3. CASE ColumnExists \/ GetMainAdmin
    BY <1>3 DEF ColumnExists, GetMainAdmin, TypeOK, database, client
  <1>4. CASE Refused
    BY <1>4, ExitType DEF Refused, TypeOK, database, client
  <1>5. CASE CheckConnection
    BY <1>0, <1>5 DEF CheckConnection, TypeOK, database, client
  <1>6. CASE PingNull
    BY <1>6, ExitType DEF PingNull, TypeOK, database, client
  <1>7. CASE Publish
    BY <1>7 DEF Publish, TypeOK, process, client
  <1>8. CASE BeginImport
    <2>1. faults' \in 0..MaxFaults /\ import' \in 0..Len(Import) 
      BY <1>0, <1>8, StartupAssumption DEF BeginImport, TypeOK
    <2>2. up' /\ up' = up /\ after' \in BOOLEAN
      BY <1>8 DEF BeginImport, TypeOK
    <2> QED BY <1>8, <2>1, <2>2 DEF BeginImport, TypeOK, process, database
  <1>9. CASE ImportStatement
    BY <1>9, ImportType
  <1>10. CASE ImportFails
    BY <1>0, <1>10 DEF ImportFails, TypeOK, process, database
  <1>11. ASSUME Fault PROVE faults' \in 0..MaxFaults
    BY <1>11, StartupAssumption DEF Fault, TypeOK
  <1>12. CASE DatabaseStops
    <2>1. faults' \in 0..MaxFaults BY <1>11, <1>12 DEF DatabaseStops
    <2>2. up' \in BOOLEAN /\ conn' \in {"none", "alive", "dead", "null"} /\ conn' # "alive"
          /\ (conn' = "none" <=> at = 0)
      BY <1>12 DEF DatabaseStops, Cut, TypeOK
    <2>4. lost' \in BOOLEAN
      BY <1>12, Zenon DEF DatabaseStops, Cut
    <2>3. import' = 0 /\ 0 \in 0..Len(Import) BY <1>0, <1>12 DEF DatabaseStops
    <2> QED BY <1>12, <2>1, <2>2, <2>3, <2>4 DEF DatabaseStops, TypeOK, database
  <1>13. CASE DatabaseStarts
    BY <1>13 DEF DatabaseStarts, TypeOK, process, database, client
  <1>14. CASE SessionEnds
    <2>1. lost' \in BOOLEAN
      BY <1>14, Zenon DEF SessionEnds, Cut
    <2> QED BY <1>11, <1>14, <2>1 DEF SessionEnds, Cut, TypeOK, database, client
  <1>15. CASE Killed
    BY <1>11, <1>15, ExitType DEF Killed, TypeOK, database, client
  <1>16. CASE UNCHANGED vars
    BY <1>16 DEF vars, TypeOK, process, database, client
  <1> QED BY <1>1, <1>2, <1>3, <1>4, <1>5, <1>6, <1>7, <1>8, <1>9, <1>10, <1>12, <1>13,
             <1>14, <1>15, <1>16 DEF Next, Step, Statement

(***************************************************************************)
(* Startup is well typed whatever an earlier version has left and however  *)
(* many faults there are.                                                  *)
(***************************************************************************)
THEOREM StartupTypeCorrect == Spec => []TypeOK
  <1> QED BY StartTypeInit, StartTypeStep, PTL DEF Spec

-----------------------------------------------------------------------------
(***************************************************************************)
(* The inductive invariant.  A start has made what the statements behind   *)
(* it make; what it knows of a column is still true, since nobody takes a  *)
(* column away; it has its session for as long as nobody has cut it; and   *)
(* once a start has come to its end no part is missing any more, so a      *)
(* later one, or an import, adds nothing.                                  *)
(***************************************************************************)
Progress ==
    /\ MadeBefore(at) \subseteq schema
    /\ at > 22 => mainAdmin                          \* the 22nd seeds the administrator
    /\ at > 32 => (articles = "unowned" => lost)     \* the last gives him the articles
Answered ==
    /\ present # "unknown" => Starting({"add"}) \/ (Starting({"backfill"}) /\ present = "yes")
    /\ present = "yes" /\ Starting({"add"}) => Current.part \in schema
Kept == at \in DOMAIN InitTable /\ ~lost => conn = "alive"
Whole == schema = Complete /\ mainAdmin
Lasting ==
    /\ served => Whole
    /\ after => served
    /\ import = 5 /\ after => ~lacking
IInv == TypeOK /\ Progress /\ Answered /\ Kept /\ Lasting

LEMMA IInvInit == Init => IInv
  <1> SUFFICES ASSUME Init PROVE IInv
    OBVIOUS
  <1>1. Progress
    BY NothingMadeYet DEF Init, Progress
  <1>2. Answered /\ Kept /\ Lasting
    BY TableLength DEF Init, Answered, Kept, Lasting
  <1> QED BY <1>1, <1>2, StartTypeInit DEF IInv

LEMMA SafeFollows == IInv => UpgradeIsSafe
  <1> SUFFICES ASSUME IInv PROVE UpgradeIsSafe
    OBVIOUS
  <1>1. at \in DOMAIN InitTable => Possible(Current)
    BY CurrentPart DEF IInv, Progress, Possible
  <1>2. ASSUME at = Serving PROVE Whole /\ (articles = "unowned" => lost)
    <2>1. at = 33 BY <1>2, TableLength
    <2>2. Complete \subseteq schema BY <2>1, AllIsMade DEF IInv, Progress
    <2>3. schema = Complete BY <2>2 DEF IInv, TypeOK
    <2> QED BY <2>1, <2>3 DEF IInv, Progress, Whole
  <1> QED BY <1>1, <1>2 DEF UpgradeIsSafe, Whole

LEMMA ImportFollows == IInv => ImportAfterStartWorks
  <1> SUFFICES ASSUME IInv, import # 0, after PROVE Works
    BY DEF ImportAfterStartWorks
  <1>1. import \in 1..8 /\ schema = Complete
    BY ImportStatements DEF IInv, TypeOK, Lasting, Whole
  <1>2. Possible(Row)
    BY <1>1, ImportStatements DEF Possible, Row
  <1>3. Row.does = "alter" => ~lacking
    BY <1>1, ImportStatements DEF Row, IInv, Lasting
  <1> QED BY <1>2, <1>3 DEF Works

(***************************************************************************)
(* One more statement of a start.                                          *)
(***************************************************************************)
LEMMA GoOnStep ==
    ASSUME IInv, TypeOK', at \in DOMAIN InitTable, GoOn, UNCHANGED client,
           schema \subseteq schema', Made(Current) \subseteq schema',
           mainAdmin => mainAdmin', at = 22 => mainAdmin',
           at = 32 => (articles' = "unowned" => lost)
    PROVE  IInv'
  <1>0. served' <=> served \/ at + 1 = Serving
    BY Zenon DEF GoOn
  <1>1. at \in 1..32 /\ at' = at + 1 /\ present' = "unknown" /\ (served' => served \/ at = 32)
        /\ (served => served') /\ conn' = conn
    BY <1>0, CurrentPart, TableLength DEF GoOn
  <1>5. lost' <=> lost
    BY Zenon DEF GoOn
  <1>2. Progress'
    <2>1. MadeBefore(at') \subseteq schema'
      BY <1>1, MadeNext DEF IInv, Progress, Current
    <2>2. at' > 22 => mainAdmin'
      BY <1>1 DEF IInv, Progress
    <2>3. at' > 32 => (articles' = "unowned" => lost')
      BY <1>1, <1>5
    <2>4. MadeBefore(at)' = MadeBefore(at')
      BY DEF MadeBefore, Complete, InitTable, Made
    <2> QED BY <2>1, <2>2, <2>3, <2>4 DEF Progress
  <1>3. Answered'
    BY <1>1 DEF Answered
  <1>6. Kept'
    BY <1>1, <1>5 DEF IInv, Kept
  <1>4. Lasting'
    <2>1. ASSUME served' PROVE Whole'
      <3>1. Complete \subseteq schema'
        <4>1. CASE served BY <4>1 DEF IInv, Lasting, Whole
        <4>2. CASE at = 32 BY <1>1, <1>2, <4>2, AllIsMade DEF Progress
        <4> QED BY <1>1, <2>1, <4>1, <4>2
      <3>2. schema' \subseteq Complete BY DEF TypeOK
      <3>3. mainAdmin'
        BY <1>1, <2>1 DEF IInv, Lasting, Whole, Progress
      <3> QED BY <3>1, <3>2, <3>3 DEF Whole
    <2> QED BY <1>1, <2>1 DEF IInv, Lasting, client
  <1> QED BY <1>2, <1>3, <1>4, <1>6 DEF IInv

\* With its session kept, a start finds the main administrator when it comes to ask for him.
LEMMA ThereIsOneThen ==
    ASSUME IInv, at = 32, ~lost
    PROVE  ThereIsOne
  <1>1. "admins.nickname" \in MadeBefore(32)
    BY MadeInTime
  <1>2. 32 \in DOMAIN InitTable
    BY TableLength
  <1> QED BY <1>1, <1>2 DEF IInv, Progress, Kept, ThereIsOne

LEMMA StatementStep ==
    ASSUME IInv, TypeOK', Statement
    PROVE  IInv'
  <1>1. at \in DOMAIN InitTable /\ GoOn /\ UNCHANGED client
    BY DEF Statement, CreateTable, SkipColumn, AddColumn, RunStatement, SkipBackfill, Backfill,
           Starting
  <1>2. /\ at = 22 => Current.does = "seed_admin"
        /\ at = 32 => Current.does = "backfill"
    BY Table DEF IsStatement, Current
  <1>3. CASE CreateTable
    <2>1. schema \subseteq schema' /\ Made(Current) \subseteq schema'
      BY <1>3 DEF CreateTable, Starting, Made
    <2>2. at # 22 /\ at # 32 /\ mainAdmin' = mainAdmin /\ articles' = articles
      BY <1>2, <1>3 DEF CreateTable, Starting
    <2> QED BY <1>1, <2>1, <2>2, GoOnStep
  <1>4. CASE SkipColumn
    <2>1. Starting({"add"}) /\ Current.does = "add" /\ schema' = schema /\ present = "yes"
      BY <1>4 DEF SkipColumn, Starting, database
    <2>2. Made(Current) \subseteq schema'
      BY <2>1 DEF IInv, Answered, Made
    <2>3. at # 22 /\ at # 32 /\ mainAdmin' = mainAdmin /\ articles' = articles
      BY <1>2, <1>4, <2>1 DEF SkipColumn, database
    <2> QED BY <1>1, <2>1, <2>2, <2>3, GoOnStep
  <1>5. CASE AddColumn
    <2>1. Current.does = "add" /\ Current.part \notin schema
          /\ schema' = schema \cup {Current.part}
      BY <1>5 DEF AddColumn, Starting
    <2>2. schema \subseteq schema' /\ Made(Current) \subseteq schema'
      BY <2>1 DEF Made
    <2>3. at # 22 /\ at # 32 /\ mainAdmin' = mainAdmin
      BY <1>2, <1>5, <2>1 DEF AddColumn
    <2> QED BY <1>1, <2>2, <2>3, GoOnStep
  <1>6. CASE RunStatement
    <2>1. schema \subseteq schema' /\ Made(Current) \subseteq schema'
      BY <1>6 DEF RunStatement, Starting, Made
    <2>2. mainAdmin' <=> mainAdmin \/ Current.does = "seed_admin"
      BY <1>6, Zenon DEF RunStatement
    <2>3. at # 32
      BY <1>2, <1>6 DEF RunStatement, Starting
    <2> QED BY <1>1, <1>2, <2>1, <2>2, <2>3, GoOnStep
  <1>7. CASE SkipBackfill
    <2>1. Current.does = "backfill" /\ schema' = schema /\ mainAdmin' = mainAdmin /\ ~ThereIsOne
      BY <1>7 DEF SkipBackfill, Starting, database
    <2>2. at # 22 /\ Made(Current) \subseteq schema'
      BY <1>2, <2>1 DEF Made
    <2>3. at = 32 => lost
      BY <2>1, ThereIsOneThen
    <2> QED BY <1>1, <2>1, <2>2, <2>3, GoOnStep
  <1>8. CASE Backfill
    <2>1. /\ Current.does = "backfill" /\ schema' = schema /\ mainAdmin' = mainAdmin
          /\ articles' # "unowned"
      BY <1>8 DEF Backfill, Starting
    <2>2. at # 22 /\ Made(Current) \subseteq schema'
      BY <1>2, <2>1 DEF Made
    <2> QED BY <1>1, <2>1, <2>2, GoOnStep
  <1> QED BY <1>3, <1>4, <1>5, <1>6, <1>7, <1>8 DEF Statement

(***************************************************************************)
(* Steps with which the start is where it was, or is given up.             *)
(***************************************************************************)
LEMMA StayStep ==
    ASSUME IInv, TypeOK', schema \subseteq schema', served' = served, mainAdmin' = mainAdmin,
           articles' = articles \/ articles' = "owned",
           \/ at' = 0 /\ present' = "unknown"
           \/ at' = at /\ present' = present /\ (lost => lost')
    PROVE  Progress' /\ Answered' /\ (served' => Whole')
  <1>1. Progress'
    <2>1. MadeBefore(at)' = MadeBefore(at')
      BY DEF MadeBefore, Complete, InitTable, Made
    <2>2. CASE at' = 0
      BY <2>1, <2>2, NothingMadeYet DEF Progress
    <2>3. CASE at' = at
      BY <2>1, <2>3 DEF IInv, Progress
    <2> QED BY <2>2, <2>3
  <1>2. Answered'
    <2>1. CASE present' = "unknown"
      BY <2>1 DEF Answered
    <2>2. CASE at' = at /\ present' = present
      BY <2>2 DEF IInv, Answered, Starting, Current
    <2> QED BY <2>1, <2>2
  <1>3. served' => Whole'
    BY DEF IInv, Lasting, Whole, TypeOK
  <1> QED BY <1>1, <1>2, <1>3

LEMMA ImportStep ==
    ASSUME IInv, TypeOK', ImportStatement
    PROVE  IInv'
  <1>1. import \in 1..8 /\ import' = (import + 1) % 9
    BY ImportStatements DEF ImportStatement, IInv, TypeOK
  <1>2. schema \subseteq schema'
    BY DEF ImportStatement
  <1>3. Progress' /\ Answered' /\ (served' => Whole')
    <2>1. UNCHANGED <<process, articles, mainAdmin, served>>
      BY DEF ImportStatement
    <2> QED BY <1>2, <2>1, StayStep DEF process
  <1>6. Kept'
    BY DEF ImportStatement, process, IInv, Kept, InitTable
  <1>4. after' => served'
    BY DEF ImportStatement, IInv, Lasting
  <1>5. import' = 5 /\ after' => ~lacking'
    <2> SUFFICES ASSUME import' = 5, after' PROVE ~lacking'
      OBVIOUS
    <2>1. import = 4 BY <1>1
    <2>2. Row.does = "look" BY <2>1, ImportStatements DEF Row
    <2>3. lacking' <=> "exercises.solution" \notin schema
      BY <2>2, Zenon DEF ImportStatement
    <2>4. schema = Complete
      BY DEF ImportStatement, IInv, Lasting, Whole
    <2> QED BY <2>3, <2>4, PartsOfComplete
  <1> QED BY <1>3, <1>4, <1>5, <1>6 DEF IInv, Lasting

LEMMA StartStep == IInv /\ [Next]_vars => IInv'
  <1> SUFFICES ASSUME IInv, [Next]_vars PROVE IInv'
    OBVIOUS
  <1>0. TypeOK'
    BY StartTypeStep DEF IInv
  <1>1. CASE Start
    <2>1. Progress'
      <3>1. MadeBefore(at)' = MadeBefore(at')
        BY DEF MadeBefore, Complete, InitTable, Made
      <3> QED BY <1>1, <3>1, NothingMadeYet DEF Start, Progress
    <2>2. Answered'
      <3>1. present' = "unknown" BY <1>1, TableLength DEF Start, IInv, Answered, Starting
      <3> QED BY <3>1 DEF Answered
    <2>3. Lasting'
      BY <1>1 DEF Start, IInv, Lasting, Whole, database, client
    <2>4. Kept'
      BY <1>1 DEF Start, Kept
    <2> QED BY <1>0, <2>1, <2>2, <2>3, <2>4 DEF IInv
  <1>2. CASE Statement
    BY <1>0, <1>2, StatementStep
  <1>3. CASE ColumnExists \/ GetMainAdmin
    <2>1. Progress' /\ Lasting'
      BY <1>3 DEF ColumnExists, GetMainAdmin, IInv, Progress, Lasting, Whole, database, client
    <2>2. Answered'
      <3>1. CASE ColumnExists
        BY <3>1 DEF ColumnExists, Answered, Starting, Current, database
      <3>2. CASE GetMainAdmin
        BY <3>2 DEF GetMainAdmin, Answered, Starting, Current, database
      <3> QED BY <1>3, <3>1, <3>2
    <2>3. Kept'
      BY <1>3 DEF ColumnExists, GetMainAdmin, IInv, Kept, InitTable
    <2> QED BY <1>0, <2>1, <2>2, <2>3 DEF IInv
  <1>4. CASE ImportStatement
    BY <1>0, <1>4, ImportStep
  <1>5. CASE Refused \/ CheckConnection \/ PingNull \/ Publish \/ BeginImport \/ ImportFails
             \/ DatabaseStops \/ DatabaseStarts \/ SessionEnds \/ Killed \/ UNCHANGED vars
    <2>1. /\ schema' = schema /\ served' = served /\ mainAdmin' = mainAdmin
          /\ articles' = articles \/ articles' = "owned"
      BY <1>5 DEF Refused, CheckConnection, PingNull, Publish, BeginImport, ImportFails,
                  DatabaseStops, DatabaseStarts, SessionEnds, Killed, vars, database
    <2>2. \/ at' = 0 /\ present' = "unknown"
          \/ at' = at /\ present' = present /\ (lost => lost')
      <3>1. CASE Refused \/ PingNull \/ Killed
        BY <3>1 DEF Refused, PingNull, Killed, Exit
      <3>2. CASE CheckConnection \/ Publish \/ BeginImport \/ ImportFails \/ DatabaseStarts
                   \/ UNCHANGED vars
        BY <3>2 DEF CheckConnection, Publish, BeginImport, ImportFails, DatabaseStarts, vars,
                    process
      <3>3. CASE DatabaseStops \/ SessionEnds
        <4>1. lost => lost'
          BY <3>3, Zenon DEF DatabaseStops, SessionEnds, Cut
        <4> QED BY <3>3, <4>1 DEF DatabaseStops, SessionEnds
      <3> QED BY <1>5, <3>1, <3>2, <3>3
    <2>5. Kept'
      <3>1. CASE Refused \/ PingNull \/ Killed
        BY <3>1, TableLength DEF Refused, PingNull, Killed, Exit, Kept
      <3>2. CASE CheckConnection
        BY <3>2, TableLength DEF CheckConnection, Kept
      <3>3. CASE Publish \/ BeginImport \/ ImportFails \/ DatabaseStarts \/ UNCHANGED vars
        BY <3>3 DEF Publish, BeginImport, ImportFails, DatabaseStarts, vars, process, IInv, Kept
      <3>4. CASE DatabaseStops \/ SessionEnds
        <4>1. lost' <=> lost \/ at \in DOMAIN InitTable
          BY <3>4, Zenon DEF DatabaseStops, SessionEnds, Cut
        <4> QED BY <3>4, <4>1 DEF DatabaseStops, SessionEnds, Kept
      <3> QED BY <1>5, <3>1, <3>2, <3>3, <3>4
    <2>3. Progress' /\ Answered' /\ (served' => Whole')
      BY <1>0, <2>1, <2>2, StayStep
    <2>4. \/ import' = import /\ after' = after /\ lacking' = lacking
          \/ import' = 0 /\ after' = after
          \/ import' = 1 /\ after' = served
      BY <1>5 DEF Refused, CheckConnection, PingNull, Publish, BeginImport, ImportFails,
                  DatabaseStops, DatabaseStarts, SessionEnds, Killed, vars, client
    <2> QED BY <1>0, <2>1, <2>3, <2>4, <2>5 DEF IInv, Lasting
  <1> QED BY <1>1, <1>2, <1>3, <1>4, <1>5 DEF Next, Step, Statement

(***************************************************************************)
(* initTable (database.cpp:223-635) is safe from whatever tables an        *)
(* earlier version has left and however starts and imports are cut off: no *)
(* statement needs what is not there, and a process serves only on         *)
(* complete tables with an administrator.  Without an owner for an article *)
(* it serves only if its start has lost its session: backfillLegacyPosts   *)
(* takes the failing query for "no administrator" (database.cpp:1831-1834, *)
(* 1853-1856).                                                             *)
(***************************************************************************)
THEOREM UpgradesAreSafe == Spec => []UpgradeIsSafe
  <1> QED BY IInvInit, StartStep, SafeFollows, PTL DEF Spec

(***************************************************************************)
(* What the first complete start has brought about is never undone, by no  *)
(* later start, import or fault: the tables and their administrator from   *)
(* then on, and the owners of the articles as soon as they have them.      *)
(***************************************************************************)
THEOREM CompleteForGood ==
    Spec => /\ [](served => schema = Complete /\ mainAdmin)
            /\ [][served /\ articles # "unowned" => articles' # "unowned"]_vars
  <1>1. IInv => (served => schema = Complete /\ mainAdmin)
    BY DEF IInv, Lasting, Whole
  <1>2. IInv /\ [Next]_vars => [served /\ articles # "unowned" => articles' # "unowned"]_vars
    <2> SUFFICES ASSUME IInv, Next, served, articles # "unowned" PROVE articles' # "unowned"
      OBVIOUS
    <2>1. ~AddColumn
      BY CurrentPart DEF AddColumn, Starting, IInv, Lasting, Whole
    <2>2. \/ Start \/ CreateTable \/ ColumnExists \/ SkipColumn \/ RunStatement \/ GetMainAdmin
          \/ SkipBackfill \/ Refused \/ CheckConnection \/ PingNull \/ BeginImport
          \/ ImportStatement \/ ImportFails \/ DatabaseStops \/ DatabaseStarts \/ SessionEnds
          \/ Killed
          => articles' = articles
      BY DEF Start, CreateTable, ColumnExists, SkipColumn, RunStatement, GetMainAdmin,
             SkipBackfill, Refused, CheckConnection, PingNull, BeginImport, ImportStatement,
             ImportFails, DatabaseStops, DatabaseStarts, SessionEnds, Killed, database
    <2>3. Publish \/ Backfill => articles' \in {articles, "owned"}
      BY DEF Publish, Backfill
    <2> QED BY <2>1, <2>2, <2>3 DEF Next, Step
  <1> QED BY <1>1, <1>2, IInvInit, StartStep, PTL DEF Spec

(***************************************************************************)
(* No statement of an import (tools/seed_practice.sql) fails if it was     *)
(* begun after a start had come to its end, whatever that import, other    *)
(* starts and faults do meanwhile.                                         *)
(***************************************************************************)
THEOREM ImportsAfterAStartWork == Spec => []ImportAfterStartWorks
  <1> QED BY IInvInit, StartStep, ImportFollows, PTL DEF Spec

-----------------------------------------------------------------------------
(***************************************************************************)
(* columnExists answers for the moment at which it looks.  What an import  *)
(* makes of its own is the columns of a table that a start has already     *)
(* found or made when it looks for them, and the one column it adds.       *)
(***************************************************************************)
Solution == "exercises.solution"
OfItsTable == {"exercises.options", "exercises.answer"}
OfImport == {"practice_chapters", "practice_exercises", "practice_progress", "test_driver_null"}

LEMMA AddedParts ==
    ASSUME NEW i \in 1..32, InitTable[i].does = "add"
    PROVE  /\ InitTable[i].part \notin OfImport
           /\ InitTable[i].part \in OfItsTable => i > 24
  <1>1. CASE i \in 1..15
    <2>1. \/ i = 1 \/ i = 2 \/ i = 3 \/ i = 4 \/ i = 5 \/ i = 6 \/ i = 7 \/ i = 8 \/ i = 9
          \/ i = 10 \/ i = 11 \/ i = 12 \/ i = 13 \/ i = 14 \/ i = 15
      BY <1>1
    <2> QED BY <2>1, Table DEF IsStatement, OfImport, OfItsTable
  <1>2. CASE i \in 16..32
    <2>1. \/ i = 16 \/ i = 17 \/ i = 18 \/ i = 19 \/ i = 20 \/ i = 21 \/ i = 22 \/ i = 23
          \/ i = 24 \/ i = 25 \/ i = 26 \/ i = 27 \/ i = 28 \/ i = 29 \/ i = 30 \/ i = 31 \/ i = 32
      BY <1>2
    <2> QED BY <2>1, Table DEF IsStatement, OfImport, OfItsTable
  <1>3. i \in 1..15 \/ i \in 16..32
    OBVIOUS
  <1> QED BY <1>1, <1>2, <1>3

LEMMA ImportedParts ==
    ASSUME NEW k \in 1..8, Import[k].does = "create"
    PROVE  /\ Import[k].part \in OfImport
           /\ Import[k].with \subseteq OfImport \cup OfItsTable \cup {Solution}
           /\ Import[k].part # "practice_exercises" => Import[k].with = {}
  <1>1. /\ Import[1] = Create("practice_chapters", {})
        /\ Import[2] = Create("practice_exercises", (ExerciseColumns \ {"practice_exercises"})
                                                        \cup {"test_driver_null"})
        /\ Import[3] = Create("practice_progress", {})
        /\ Import[4] = Run("look", {}) /\ Import[5] = Run("alter", {"exercises.answer"})
        /\ Import[6] = Run("chapters", {"practice_chapters"})
        /\ Import[7] = Run("code", ExerciseColumns)
        /\ Import[8] = Run("choice", ExerciseColumns \cup {"test_driver_null"})
    BY DEF Import
  <1>2. k = 1 \/ k = 2 \/ k = 3 \/ k = 4 \/ k = 5 \/ k = 6 \/ k = 7 \/ k = 8
    OBVIOUS
  <1>3. k = 1 \/ k = 2 \/ k = 3
    BY <1>1, <1>2 DEF Run
  <1> QED BY <1>1, <1>3 DEF Create, OfImport, OfItsTable, Solution, ExerciseColumns

\* What columnExists has missed is still missing, but for the column of the import.
StillMissing == present = "no" /\ Current.part # Solution => Current.part \notin schema

\* The import makes no column that a start has found missing, but for its own.
LEMMA ImportLeavesIt ==
    ASSUME IInv, ImportStatement, Starting({"add"}), Current.part # Solution
    PROVE  Current.part \in schema' => Current.part \in schema
  <1>1. at \in 1..32 /\ Current.does = "add" /\ Current = InitTable[at]
    BY TableLength DEF Starting, Current
  <1>2. Current.part \notin OfImport /\ (Current.part \in OfItsTable => at > 24)
    BY <1>1, AddedParts
  <1>3. import \in 1..8
    BY ImportStatements DEF ImportStatement, IInv, TypeOK
  <1>4. CASE Row.does = "create" /\ Row.part \notin schema
    <2>1. schema' = schema \cup {Row.part} \cup Row.with
      BY <1>4 DEF ImportStatement
    <2>2. /\ Row.part \in OfImport /\ Row.with \subseteq OfImport \cup OfItsTable \cup {Solution}
          /\ Row.part # "practice_exercises" => Row.with = {}
      BY <1>3, <1>4, ImportedParts DEF Row
    <2>3. Current.part \notin Row.with
      <3> SUFFICES ASSUME Current.part \in Row.with PROVE FALSE
        OBVIOUS
      <3>1. Row.part = "practice_exercises" /\ Current.part \in OfItsTable
        BY <1>2, <2>2
      <3>2. "practice_exercises" \in MadeBefore(at)
        BY <1>1, <1>2, <3>1, MadeInTime
      <3> QED BY <1>4, <3>1, <3>2 DEF IInv, Progress
    <2> QED BY <1>2, <2>1, <2>2, <2>3
  <1>5. CASE ~(Row.does = "create" /\ Row.part \notin schema)
    <2>1. schema' = schema \/ schema' = schema \cup {Solution}
      BY <1>5 DEF ImportStatement, Solution
    <2> QED BY <2>1
  <1> QED BY <1>4, <1>5

LEMMA StillMissingStep == IInv /\ StillMissing /\ [Next]_vars => StillMissing'
  <1> SUFFICES ASSUME IInv, StillMissing, [Next]_vars, present' = "no", Current'.part # Solution
               PROVE  Current'.part \notin schema'
    BY DEF StillMissing
  <1>1. CASE Start
    <2>1. present = "unknown" BY <1>1, TableLength DEF Start, IInv, Answered, Starting
    <2> QED BY <1>1, <2>1 DEF Start
  <1>2. CASE Statement
    BY <1>2 DEF Statement, CreateTable, SkipColumn, AddColumn, RunStatement, SkipBackfill,
                Backfill, GoOn
  <1>3. CASE ColumnExists \/ GetMainAdmin
    BY <1>3 DEF ColumnExists, GetMainAdmin, Current, database
  <1>4. CASE ImportStatement
    <2>1. at' = at /\ present' = present
      BY <1>4 DEF ImportStatement, process
    <2>2. Starting({"add"})
      BY <2>1 DEF IInv, Answered
    <2>3. Current' = Current
      BY <2>1 DEF Current, InitTable
    <2> QED BY <1>4, <2>1, <2>2, <2>3, ImportLeavesIt DEF StillMissing
  <1>5. CASE Refused \/ CheckConnection \/ PingNull \/ Publish \/ BeginImport \/ ImportFails
             \/ DatabaseStops \/ DatabaseStarts \/ SessionEnds \/ Killed \/ UNCHANGED vars
    <2>1. schema' = schema
      BY <1>5 DEF Refused, CheckConnection, PingNull, Publish, BeginImport, ImportFails,
                  DatabaseStops, DatabaseStarts, SessionEnds, Killed, vars, database
    <2>2. \/ at' = 0 /\ present' = "unknown"
          \/ at' = at /\ present' = present
      BY <1>5 DEF Refused, CheckConnection, PingNull, Publish, BeginImport, ImportFails, Exit,
                  DatabaseStops, DatabaseStarts, SessionEnds, Killed, vars, process
    <2>3. at' = at => Current' = Current
      BY DEF Current, InitTable
    <2> QED BY <2>1, <2>2, <2>3 DEF StillMissing
  <1> QED BY <1>1, <1>2, <1>3, <1>4, <1>5 DEF Next, Step, Statement

LEMMA EndsFollow ==
    IInv /\ StillMissing /\ [Next]_vars
      => [conn = "alive" /\ at \in DOMAIN InitTable /\ at' = 0
            => Killed \/ (present = "no" /\ Current.part = "exercises.solution")]_vars
  <1> SUFFICES ASSUME IInv, StillMissing, Next, ~Killed, conn = "alive",
                      at \in DOMAIN InitTable, at' = 0
               PROVE  present = "no" /\ Current.part = Solution
    BY DEF Solution
  <1>1. at \in 1..32 /\ Serving = 33
    BY TableLength
  <1>2. Refused
    <2>1. ~Start /\ ~PingNull
      BY <1>1 DEF Start, PingNull
    <2>2. Statement => at' = at + 1
      BY DEF Statement, CreateTable, SkipColumn, AddColumn, RunStatement, SkipBackfill, Backfill,
             GoOn
    <2>3. ColumnExists \/ GetMainAdmin \/ CheckConnection \/ Publish \/ BeginImport \/ ImportStatement
            \/ ImportFails \/ DatabaseStops \/ DatabaseStarts \/ SessionEnds => at' = at
      BY DEF ColumnExists, GetMainAdmin, CheckConnection, Publish, BeginImport,
             ImportStatement, ImportFails, DatabaseStops, DatabaseStarts, SessionEnds, process
    <2> QED BY <1>1, <2>1, <2>2, <2>3 DEF Next, Step, Statement
  <1>3. Possible(Current)
    BY CurrentPart DEF IInv, Progress, Possible
  <1>4. present = "no" /\ Current.part \in schema
    BY <1>2, <1>3 DEF Refused
  <1> QED BY <1>4 DEF StillMissing

(***************************************************************************)
(* A start on a living connection is given up for one reason only: it has  *)
(* not found exercises.solution, and an import has added that column       *)
(* before the start could (database.cpp:571-578).                          *)
(***************************************************************************)
THEOREM StartsFailForTheImportOnly == Spec => OnlyTheImportIsInTheWay
  <1>1. Init => StillMissing
    BY DEF Init, StillMissing
  <1> QED BY <1>1, IInvInit, StartStep, StillMissingStep, EndsFollow, PTL
          DEF Spec, OnlyTheImportIsInTheWay

=============================================================================
