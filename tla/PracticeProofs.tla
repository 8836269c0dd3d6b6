--------------------------- MODULE PracticeProofs ---------------------------
(***************************************************************************)
(* Theorems about Practice, for any tabs, exercises, chapters, identities  *)
(* and calls under way.                                                    *)
(*                                                                         *)
(* IInv adds to the properties what the calls carry: what they ask for     *)
(* fits their kind, and a pass or a list of passes on its way to a page    *)
(* was earned (CallsOK).                                                   *)
(***************************************************************************)
EXTENDS Practice, TLAPS

CallOK(c) ==
    /\ c.kind \in {"exercise", "submit", "answer"} => c.what \in Exercise
    /\ c.kind = "list" => c.what \in Chapter
    /\ c.kind = "submit" /\ c.tab # NONE => c.tab \in Tab

Carries(c) ==
    /\ c.kind \in {"submit", "answer"} /\ c.verdict = "passed" => c.what \in Passed
    /\ c.kind = "progress" => c.ids \subseteq Passed

CallsOK == \A s \in Slot : CallOK(calls[s])
CallsCarry == \A s \in Slot : Carries(calls[s])

Misled == ProgressIsEarned /\ OnlyStrayVerdictsMislead /\ CallsCarry

IInv == TypeOK /\ CallsOK /\ Misled /\ ButtonComesBack

-----------------------------------------------------------------------------
LEMMA Requested ==
    ASSUME NEW kind \in {"progress", "list", "exercise", "submit", "answer"}, NEW t \in Tab,
           NEW what \in Exercise \cup Chapter \cup {NONE}, TypeOK
    PROVE  Request(kind, t, what) \in Call
  BY DEF TypeOK, Call, Request

LEMMA FirstChapterIsOne == FirstChapter \in Chapter
  BY PracticeAssumption DEF FirstChapter, Chapter

LEMMA FirstTodoIsOne ==
    ASSUME NEW t \in Tab, NEW c \in Chapter
    PROVE  FirstTodo(t, c) \in Exercise
  <1> DEFINE todo == Contents[c] \ doneSet[t]
             from == IF todo = {} THEN Contents[c] ELSE todo
  <1>1. from \in SUBSET Exercise /\ from # {}
    BY PracticeAssumption DEF Chapter
  <1>2. \E e \in from : \A f \in from : e <= f
    BY <1>1, PracticeAssumption
  <1>3. FirstTodo(t, c) = CHOOSE e \in from : \A f \in from : e <= f
    BY DEF FirstTodo
  <1> QED
    BY <1>1, <1>2, <1>3

LEMMA NotFree ==
    ASSUME TypeOK, NEW s \in Slot, calls[s].kind # "none"
    PROVE  calls[s] \in Call
  BY DEF TypeOK, Free

\* What a call is when it has been answered.
LEMMA Replied ==
    ASSUME TypeOK, NEW s \in Slot, calls[s] \in Call, NEW v \in Verdict, NEW token \in Token,
           Reply(s, v, token)
    PROVE  /\ calls'[s] \in Call
           /\ calls'[s].kind = calls[s].kind /\ calls'[s].what = calls[s].what
           /\ calls'[s].tab = calls[s].tab /\ calls'[s].ids = calls[s].ids
           /\ calls'[s].verdict = v
           /\ \A x \in Slot : x # s => calls'[x] = calls[x]
           /\ calls' \in [Slot -> Call \cup {Free}]
  <1>1. calls'[s] = [calls[s] EXCEPT !.phase = "back", !.verdict = v, !.token = NONE,
                        !.set = IF calls[s].token = NONE THEN token ELSE NONE]
    BY DEF TypeOK, Reply
  <1>2. /\ calls'[s] \in Call
        /\ calls'[s].kind = calls[s].kind /\ calls'[s].what = calls[s].what
        /\ calls'[s].tab = calls[s].tab /\ calls'[s].ids = calls[s].ids
        /\ calls'[s].verdict = v
    BY <1>1 DEF Call
  <1> QED
    BY <1>2 DEF TypeOK, Reply

LEMMA ProgressRead ==
    ASSUME TypeOK, NEW s \in Slot, GetPracticeProgress(s)
    PROVE  /\ calls'[s] \in Call
           /\ calls'[s].kind = "progress"
           /\ calls'[s].ids = {e \in Exercise : <<calls[s].token, e>> \in progress}
           /\ \A x \in Slot : x # s => calls'[x] = calls[x]
           /\ calls' \in [Slot -> Call \cup {Free}]
  <1>1. calls[s] \in Call
    BY NotFree DEF GetPracticeProgress
  <1>2. calls'[s] = [calls[s] EXCEPT !.phase = "back", !.token = NONE,
                        !.ids = {e \in Exercise : <<calls[s].token, e>> \in progress}]
    BY DEF TypeOK, GetPracticeProgress
  <1>3. /\ calls'[s] \in Call
        /\ calls'[s].kind = "progress"
        /\ calls'[s].ids = {e \in Exercise : <<calls[s].token, e>> \in progress}
    <2> DEFINE ids == {e \in Exercise : <<calls[s].token, e>> \in progress}
    <2>1. ids \in SUBSET Exercise
      OBVIOUS
    <2>2. calls'[s] = [calls[s] EXCEPT !.phase = "back", !.token = NONE, !.ids = ids]
      BY <1>2
    <2>3. calls[s].kind = "progress"
      BY DEF GetPracticeProgress
    <2> HIDE DEF ids
    <2>4. calls'[s] \in Call /\ calls'[s].kind = "progress" /\ calls'[s].ids = ids
      BY <1>1, <2>1, <2>2, <2>3 DEF Call
    <2> QED
      BY <2>4 DEF ids
  <1> QED
    BY <1>3 DEF TypeOK, GetPracticeProgress

LEMMA TypeOKKept == IInv /\ [Next]_vars => TypeOK'
  <1> SUFFICES ASSUME IInv, [Next]_vars PROVE TypeOK'
    OBVIOUS
  <1> USE PracticeAssumption DEF IInv, page, server
  <1>1. ASSUME NEW t \in Tab, NEW s \in Slot, Load(t, s) PROVE TypeOK'
    <2>1. ASSUME NEW x \in Slot PROVE calls'[x] \in Call \cup {Free}
      <3>1. CASE x = s
        BY <1>1, <3>1, Requested DEF Load
      <3>2. CASE x # s /\ ~IsFree(x) /\ calls[x].tab = t
        <4>1. calls[x] \in Call /\ calls'[x] = Abandoned(x)
          BY <1>1, <3>2, NotFree DEF Load, IsFree
        <4> QED
          BY <4>1 DEF Abandoned, Call
      <3>3. CASE x # s /\ ~(~IsFree(x) /\ calls[x].tab = t)
        BY <1>1, <3>3 DEF Load, TypeOK
      <3> QED
        BY <3>1, <3>2, <3>3
    <2>2. calls' \in [Slot -> Call \cup {Free}]
      BY <1>1, <2>1 DEF Load
    <2> HIDE DEF Call
    <2> QED
      BY <1>1, <2>2 DEF Load, TypeOK
  <1>2. ASSUME NEW t \in Tab, NEW c \in Chapter, NEW s \in Slot, ClickChapter(t, c, s) PROVE TypeOK'
    BY <1>2, Requested, NotFree DEF ClickChapter, SelectChapter, Send, IsFree, TypeOK, CallsOK, CallOK, Call, Free
  <1>3. ASSUME NEW t \in Tab, NEW e \in Exercise, NEW s \in Slot, ClickExercise(t, e, s) PROVE TypeOK'
    BY <1>3, Requested, NotFree DEF ClickExercise, Send, IsFree, TypeOK, CallsOK, CallOK, Call, Free
  <1>4. ASSUME NEW t \in Tab, NEW s \in Slot, SubmitCode(t, s) PROVE TypeOK'
    BY <1>4, Requested, NotFree DEF SubmitCode, Send, IsFree, TypeOK, CallsOK, CallOK, Call, Free
  <1>5. ASSUME NEW t \in Tab, NEW s \in Slot, SubmitAnswer(t, s) PROVE TypeOK'
    BY <1>5, Requested, NotFree DEF SubmitAnswer, Send, IsFree, TypeOK, CallsOK, CallOK, Call, Free
  <1>6. ASSUME NEW s \in Slot, Judge(s) PROVE TypeOK'
    <2> DEFINE e == calls[s].what
    <2>1. e \in Exercise /\ calls[s] \in Call /\ calls[s].phase = "sent"
      BY <1>6, NotFree DEF Judge, Judging, TypeOK, CallsOK, CallOK
    <2>2. PICK token \in Token, v \in Verdict :
             /\ earned' = IF v = "passed" THEN earned \cup {<<token, e>>} ELSE earned
             /\ RecordPracticeAttempt(token, e, v) \/ UNCHANGED progress
             /\ IF calls[s].tab = NONE THEN Clear(s) ELSE Reply(s, v, token)
      <3>1. Identity(s) \subseteq Token
        BY <2>1 DEF Identity, Call
      <3> QED
        BY <1>6, <3>1 DEF Judge
    <2>3. UNCHANGED <<page, stored, cookie, strayed>>
      BY <1>6 DEF Judge
    <2> QED
      <3>1. earned' \subseteq Token \X Exercise
        BY <2>1, <2>2 DEF TypeOK
      <3>2. progress' \subseteq Token \X Exercise
        BY <2>1, <2>2 DEF TypeOK, RecordPracticeAttempt
      <3>3. calls' \in [Slot -> Call \cup {Free}]
        <4>1. CASE calls[s].tab = NONE
          BY <2>2, <4>1 DEF Clear, TypeOK
        <4>2. CASE calls[s].tab # NONE
          <5>1. Reply(s, v, token)
            BY <2>2, <4>2
          <5> QED
            BY <2>1, <5>1, Replied
        <4> QED
          BY <4>1, <4>2
      <3> QED
        BY <2>3, <3>1, <3>2, <3>3 DEF TypeOK
  <1>7. ASSUME NEW s \in Slot, GetPracticeProgress(s) PROVE TypeOK'
    BY <1>7, ProgressRead DEF GetPracticeProgress, TypeOK
  <1>8. ASSUME NEW s \in Slot, ProgressArrives(s) PROVE TypeOK'
    BY <1>8, Requested, FirstChapterIsOne, NotFree DEF ProgressArrives, Arrived, Live, SelectChapter, Send, TypeOK, CallsOK, CallOK, Call, Free
  <1>9. ASSUME NEW s \in Slot, ProgressFails(s) PROVE TypeOK'
    BY <1>9, Requested, FirstChapterIsOne, NotFree DEF ProgressFails, Live, SelectChapter, Send, TypeOK, CallsOK, CallOK, Call, Free
  <1>10. ASSUME NEW s \in Slot, ListArrives(s) PROVE TypeOK'
    BY <1>10, Requested, FirstTodoIsOne, NotFree DEF ListArrives, Live, Send, TypeOK, CallsOK, CallOK, Call, Free
  <1>11. ASSUME NEW s \in Slot, ExerciseArrives(s) PROVE TypeOK'
    BY <1>11, NotFree DEF ExerciseArrives, Live, Clear, TypeOK, CallsOK, CallOK, Call, Free
  <1>12. ASSUME NEW s \in Slot, LookupFails(s) PROVE TypeOK'
    BY <1>12, NotFree DEF LookupFails, Live, Clear, TypeOK, CallsOK, CallOK, Call, Free
  <1>13. ASSUME NEW s \in Slot, VerdictArrives(s) PROVE TypeOK'
    BY <1>13, NotFree DEF VerdictArrives, Arrived, Live, IsPass, MarkDone, Release, Clear, TypeOK, CallsOK, CallOK, Call, Free
  <1>14. ASSUME NEW s \in Slot, VerdictLost(s) PROVE TypeOK'
    BY <1>14, NotFree DEF VerdictLost, Live, Release, Clear, TypeOK, CallsOK, CallOK, Call, Free
  <1>15. ASSUME NEW s \in Slot, Drop(s) PROVE TypeOK'
    BY <1>15, NotFree DEF Drop, IsFree, Clear, TypeOK, CallsOK, CallOK, Call, Free
  <1>16. CASE UNCHANGED vars
    BY <1>16 DEF vars, TypeOK
  <1> QED
    BY <1>1, <1>2, <1>3, <1>4, <1>5, <1>6, <1>7, <1>8, <1>9, <1>10, <1>11, <1>12, <1>13, <1>14, <1>15, <1>16 DEF Next, User, Progress

LEMMA CallsOKKept == IInv /\ [Next]_vars => CallsOK'
  <1> SUFFICES ASSUME IInv, [Next]_vars PROVE CallsOK'
    OBVIOUS
  <1> USE PracticeAssumption DEF IInv, page, server
  <1>1. ASSUME NEW t \in Tab, NEW s \in Slot, Load(t, s) PROVE CallsOK'
    BY <1>1, Requested, NotFree DEF Load, Abandoned, IsFree, Judging, TypeOK, CallsOK, CallOK, Free, Request
  <1>2. ASSUME NEW t \in Tab, NEW c \in Chapter, NEW s \in Slot, ClickChapter(t, c, s) PROVE CallsOK'
    BY <1>2, Requested, NotFree DEF ClickChapter, SelectChapter, Send, IsFree, TypeOK, CallsOK, CallOK, Free, Request
  <1>3. ASSUME NEW t \in Tab, NEW e \in Exercise, NEW s \in Slot, ClickExercise(t, e, s) PROVE CallsOK'
    BY <1>3, Requested, NotFree DEF ClickExercise, Send, IsFree, TypeOK, CallsOK, CallOK, Free, Request
  <1>4. ASSUME NEW t \in Tab, NEW s \in Slot, SubmitCode(t, s) PROVE CallsOK'
    BY <1>4, Requested, NotFree DEF SubmitCode, Send, IsFree, TypeOK, CallsOK, CallOK, Free, Request
  <1>5. ASSUME NEW t \in Tab, NEW s \in Slot, SubmitAnswer(t, s) PROVE CallsOK'
    BY <1>5, Requested, NotFree DEF SubmitAnswer, Send, IsFree, TypeOK, CallsOK, CallOK, Free, Request
  <1>6. ASSUME NEW s \in Slot, Judge(s) PROVE CallsOK'
    <2> DEFINE e == calls[s].what
    <2>1. e \in Exercise /\ calls[s] \in Call /\ calls[s].phase = "sent"
      BY <1>6, NotFree DEF Judge, Judging, TypeOK, CallsOK, CallOK
    <2>2. PICK token \in Token, v \in Verdict :
             /\ earned' = IF v = "passed" THEN earned \cup {<<token, e>>} ELSE earned
             /\ RecordPracticeAttempt(token, e, v) \/ UNCHANGED progress
             /\ IF calls[s].tab = NONE THEN Clear(s) ELSE Reply(s, v, token)
      <3>1. Identity(s) \subseteq Token
        BY <2>1 DEF Identity, Call
      <3> QED
        BY <1>6, <3>1 DEF Judge
    <2>3. UNCHANGED <<page, stored, cookie, strayed>>
      BY <1>6 DEF Judge
    <2> QED
      <3>1. CASE calls[s].tab = NONE
        BY <2>2, <3>1 DEF Clear, CallsOK, CallOK, TypeOK, Free
      <3>2. CASE calls[s].tab # NONE
        <4>1. Reply(s, v, token)
          BY <2>2, <3>2
        <4> QED
          BY <2>1, <4>1, Replied DEF CallsOK, CallOK
      <3> QED
        BY <3>1, <3>2
  <1>7. ASSUME NEW s \in Slot, GetPracticeProgress(s) PROVE CallsOK'
    BY <1>7, NotFree DEF GetPracticeProgress, TypeOK, CallsOK, CallOK, Free, Request
  <1>8. ASSUME NEW s \in Slot, ProgressArrives(s) PROVE CallsOK'
    BY <1>8, Requested, FirstChapterIsOne, NotFree DEF ProgressArrives, Arrived, Live, SelectChapter, Send, TypeOK, CallsOK, CallOK, Free, Request
  <1>9. ASSUME NEW s \in Slot, ProgressFails(s) PROVE CallsOK'
    BY <1>9, Requested, FirstChapterIsOne, NotFree DEF ProgressFails, Live, SelectChapter, Send, TypeOK, CallsOK, CallOK, Free, Request
  <1>10. ASSUME NEW s \in Slot, ListArrives(s) PROVE CallsOK'
    <2> DEFINE t == calls[s].tab
               e == FirstTodo(t, calls[s].what)
    <2>1. t \in Tab /\ calls[s].what \in Chapter
      BY <1>10, NotFree DEF ListArrives, Live, CallsOK, CallOK, Call
    <2>2. e \in Exercise
      BY <2>1, FirstTodoIsOne
    <2>3. calls' = [calls EXCEPT ![s] = Request("exercise", t, e)]
      BY <1>10 DEF ListArrives, Send
    <2> HIDE DEF t, e
    <2> QED
      BY <2>2, <2>3 DEF TypeOK, CallsOK, CallOK, Request
  <1>11. ASSUME NEW s \in Slot, ExerciseArrives(s) PROVE CallsOK'
    BY <1>11, NotFree DEF ExerciseArrives, Live, Clear, TypeOK, CallsOK, CallOK, Free, Request
  <1>12. ASSUME NEW s \in Slot, LookupFails(s) PROVE CallsOK'
    BY <1>12, NotFree DEF LookupFails, Live, Clear, TypeOK, CallsOK, CallOK, Free, Request
  <1>13. ASSUME NEW s \in Slot, VerdictArrives(s) PROVE CallsOK'
    BY <1>13, NotFree DEF VerdictArrives, Arrived, Live, IsPass, MarkDone, Release, Clear, TypeOK, CallsOK, CallOK, Free, Request
  <1>14. ASSUME NEW s \in Slot, VerdictLost(s) PROVE CallsOK'
    BY <1>14, NotFree DEF VerdictLost, Live, Release, Clear, TypeOK, CallsOK, CallOK, Free, Request
  <1>15. ASSUME NEW s \in Slot, Drop(s) PROVE CallsOK'
    BY <1>15, NotFree DEF Drop, IsFree, Clear, TypeOK, CallsOK, CallOK, Free, Request
  <1>16. CASE UNCHANGED vars
    BY <1>16 DEF vars, CallsOK, CallOK
  <1> QED
    BY <1>1, <1>2, <1>3, <1>4, <1>5, <1>6, <1>7, <1>8, <1>9, <1>10, <1>11, <1>12, <1>13, <1>14, <1>15, <1>16 DEF Next, User, Progress

LEMMA MisledKept == IInv /\ [Next]_vars => Misled'
  <1> SUFFICES ASSUME IInv, [Next]_vars PROVE Misled'
    OBVIOUS
  <1> USE PracticeAssumption DEF IInv, page, server
  <1>1. ASSUME NEW t \in Tab, NEW s \in Slot, Load(t, s) PROVE Misled'
    BY <1>1, Requested, NotFree DEF Load, Abandoned, IsFree, Judging, TypeOK, CallsOK, CallOK, Free, Request, Misled, ProgressIsEarned, OnlyStrayVerdictsMislead, CallsCarry, Carries, Passed
  <1>2. ASSUME NEW t \in Tab, NEW c \in Chapter, NEW s \in Slot, ClickChapter(t, c, s) PROVE Misled'
    BY <1>2, Requested, NotFree DEF ClickChapter, SelectChapter, Send, IsFree, TypeOK, CallsOK, CallOK, Free, Request, Misled, ProgressIsEarned, OnlyStrayVerdictsMislead, CallsCarry, Carries, Passed
  <1>3. ASSUME NEW t \in Tab, NEW e \in Exercise, NEW s \in Slot, ClickExercise(t, e, s) PROVE Misled'
    BY <1>3, Requested, NotFree DEF ClickExercise, Send, IsFree, TypeOK, CallsOK, CallOK, Free, Request, Misled, ProgressIsEarned, OnlyStrayVerdictsMislead, CallsCarry, Carries, Passed
  <1>4. ASSUME NEW t \in Tab, NEW s \in Slot, SubmitCode(t, s) PROVE Misled'
    BY <1>4, Requested, NotFree DEF SubmitCode, Send, IsFree, TypeOK, CallsOK, CallOK, Free, Request, Misled, ProgressIsEarned, OnlyStrayVerdictsMislead, CallsCarry, Carries, Passed
  <1>5. ASSUME NEW t \in Tab, NEW s \in Slot, SubmitAnswer(t, s) PROVE Misled'
    BY <1>5, Requested, NotFree DEF SubmitAnswer, Send, IsFree, TypeOK, CallsOK, CallOK, Free, Request, Misled, ProgressIsEarned, OnlyStrayVerdictsMislead, CallsCarry, Carries, Passed
  <1>6. ASSUME NEW s \in Slot, Judge(s) PROVE Misled'
    <2> DEFINE e == calls[s].what
    <2>1. e \in Exercise /\ calls[s] \in Call /\ calls[s].phase = "sent"
      BY <1>6, NotFree DEF Judge, Judging, TypeOK, CallsOK, CallOK
    <2>2. PICK token \in Token, v \in Verdict :
             /\ earned' = IF v = "passed" THEN earned \cup {<<token, e>>} ELSE earned
             /\ RecordPracticeAttempt(token, e, v) \/ UNCHANGED progress
             /\ IF calls[s].tab = NONE THEN Clear(s) ELSE Reply(s, v, token)
      <3>1. Identity(s) \subseteq Token
        BY <2>1 DEF Identity, Call
      <3> QED
        BY <1>6, <3>1 DEF Judge
    <2>3. UNCHANGED <<page, stored, cookie, strayed>>
      BY <1>6 DEF Judge
    <2> QED
      <3>1. earned \subseteq earned' /\ ProgressIsEarned'
        BY <2>2 DEF RecordPracticeAttempt, Misled, ProgressIsEarned
      <3>2. Passed \subseteq Passed' /\ (v = "passed" => e \in Passed')
        <4>1. Passed \subseteq Passed'
          BY <3>1 DEF Passed
        <4>2. ASSUME v = "passed" PROVE e \in Passed'
          <5>1. <<token, e>> \in earned' /\ <<token, e>>[2] = e
            BY <2>2, <4>2
          <5> QED
            BY <5>1 DEF Passed
        <4> QED
          BY <4>1, <4>2
      <3>3. OnlyStrayVerdictsMislead'
        BY <2>3, <3>2 DEF Misled, OnlyStrayVerdictsMislead
      <3>4. ASSUME NEW x \in Slot PROVE Carries(calls[x])'
        <4>0. Carries(calls[x]) => (calls'[x] = calls[x] => Carries(calls[x])')
          BY <3>2 DEF Carries
        <4>1. CASE calls[s].tab = NONE
          <5>1. calls'[x] = calls[x] \/ calls'[x] = Free
            BY <2>2, <4>1 DEF Clear, TypeOK
          <5> QED
            BY <4>0, <5>1 DEF Misled, CallsCarry, Carries, Free
        <4>2. CASE calls[s].tab # NONE
          <5>1. Reply(s, v, token)
            BY <2>2, <4>2
          <5>2. CASE x = s
            BY <2>1, <3>2, <5>1, <5>2, Replied DEF Misled, CallsCarry, Carries
          <5>3. CASE x # s
            BY <2>1, <4>0, <5>1, <5>3, Replied DEF Misled, CallsCarry
          <5> QED
            BY <5>2, <5>3
        <4> QED
          BY <4>1, <4>2
      <3> QED
        BY <3>1, <3>3, <3>4 DEF Misled, CallsCarry
  <1>7. ASSUME NEW s \in Slot, GetPracticeProgress(s) PROVE Misled'
    <2>1. UNCHANGED <<page, stored, cookie, server, strayed>>
      BY <1>7 DEF GetPracticeProgress
    <2>2. calls'[s].kind = "progress" /\ calls'[s].ids \subseteq Passed
      <3>1. ASSUME NEW x \in Exercise, <<calls[s].token, x>> \in progress PROVE x \in Passed
        <4>1. <<calls[s].token, x>> \in earned /\ <<calls[s].token, x>>[2] = x
          BY <3>1 DEF Misled, ProgressIsEarned
        <4> QED
          BY <4>1 DEF Passed
      <3>2. /\ calls'[s].kind = "progress"
            /\ calls'[s].ids = {x \in Exercise : <<calls[s].token, x>> \in progress}
        <4>1. TypeOK
          OBVIOUS
        <4> QED
          BY ONLY <1>7, <4>1, ProgressRead
      <3> QED
        BY <3>1, <3>2
    <2>3. Passed' = Passed
      BY <2>1 DEF Passed
    <2>4. CallsCarry'
      BY <1>7, <2>2, <2>3, ProgressRead DEF Misled, CallsCarry, Carries
    <2> QED
      BY <2>1, <2>3, <2>4 DEF Misled, ProgressIsEarned, OnlyStrayVerdictsMislead
  <1>8. ASSUME NEW s \in Slot, ProgressArrives(s) PROVE Misled'
    <2> DEFINE t == calls[s].tab
    <2>1. t \in Tab /\ calls[s].ids \subseteq Passed
      BY <1>8, NotFree DEF ProgressArrives, Arrived, Live, Call, Misled, CallsCarry, Carries
    <2>2. Passed' = Passed /\ UNCHANGED <<server, strayed>>
      BY <1>8 DEF ProgressArrives, Passed
    <2>3. calls' = [calls EXCEPT ![s] = Request("list", t, FirstChapter)]
      BY <1>8 DEF ProgressArrives, SelectChapter, Send
    <2>4. CallsCarry'
      BY <2>2, <2>3 DEF TypeOK, Misled, CallsCarry, Carries, Request
    <2>5. /\ doneSet' = [doneSet EXCEPT ![t] = @ \cup calls[s].ids]
          /\ stored' = stored \/ stored' = doneSet'[t]
      BY <1>8 DEF ProgressArrives
    <2> HIDE DEF t
    <2>6. OnlyStrayVerdictsMislead'
      <3>1. SUFFICES ASSUME ~strayed PROVE (stored \subseteq Passed /\ \A u \in Tab : doneSet[u] \subseteq Passed)'
        BY <2>2 DEF OnlyStrayVerdictsMislead
      <3>2. \A u \in Tab : doneSet'[u] \subseteq Passed
        BY <2>1, <2>5, <3>1 DEF TypeOK, Misled, OnlyStrayVerdictsMislead
      <3>3. stored' \subseteq Passed
        BY <2>1, <2>5, <3>1, <3>2 DEF Misled, OnlyStrayVerdictsMislead
      <3> QED
        BY <2>2, <3>2, <3>3
    <2> QED
      BY <2>2, <2>4, <2>6 DEF Misled, ProgressIsEarned
  <1>9. ASSUME NEW s \in Slot, ProgressFails(s) PROVE Misled'
    BY <1>9, Requested, FirstChapterIsOne, NotFree DEF ProgressFails, Live, SelectChapter, Send, TypeOK, CallsOK, CallOK, Free, Request, Misled, ProgressIsEarned, OnlyStrayVerdictsMislead, CallsCarry, Carries, Passed
  <1>10. ASSUME NEW s \in Slot, ListArrives(s) PROVE Misled'
    BY <1>10, Requested, FirstTodoIsOne, NotFree DEF ListArrives, Live, Send, TypeOK, CallsOK, CallOK, Free, Request, Misled, ProgressIsEarned, OnlyStrayVerdictsMislead, CallsCarry, Carries, Passed
  <1>11. ASSUME NEW s \in Slot, ExerciseArrives(s) PROVE Misled'
    BY <1>11, NotFree DEF ExerciseArrives, Live, Clear, TypeOK, CallsOK, CallOK, Free, Request, Misled, ProgressIsEarned, OnlyStrayVerdictsMislead, CallsCarry, Carries, Passed
  <1>12. ASSUME NEW s \in Slot, LookupFails(s) PROVE Misled'
    BY <1>12, NotFree DEF LookupFails, Live, Clear, TypeOK, CallsOK, CallOK, Free, Request, Misled, ProgressIsEarned, OnlyStrayVerdictsMislead, CallsCarry, Carries, Passed
  <1>13. ASSUME NEW s \in Slot, VerdictArrives(s) PROVE Misled'
    <2> DEFINE t == calls[s].tab
    <2>1. t \in Tab /\ (IsPass(s) => calls[s].what \in Passed)
      BY <1>13, NotFree DEF VerdictArrives, Arrived, Live, Call, IsPass, Misled, CallsCarry, Carries
    <2>2. Passed' = Passed /\ UNCHANGED server
      BY <1>13 DEF VerdictArrives, Passed
    <2>3. CallsCarry'
      BY <1>13, <2>2 DEF VerdictArrives, Clear, TypeOK, Misled, CallsCarry, Carries, Free
    <2>4. /\ IF IsPass(s) /\ current[t] # NONE THEN MarkDone(t) ELSE UNCHANGED <<doneSet, stored>>
          /\ ~strayed' => ~strayed /\ (IsPass(s) => current[t] = calls[s].what)
      BY <1>13 DEF VerdictArrives
    <2> HIDE DEF t
    <2>5. OnlyStrayVerdictsMislead'
      <3>1. SUFFICES ASSUME ~strayed' PROVE (stored \subseteq Passed /\ \A u \in Tab : doneSet[u] \subseteq Passed)'
        BY DEF OnlyStrayVerdictsMislead
      <3>2. stored \subseteq Passed /\ \A u \in Tab : doneSet[u] \subseteq Passed
        BY <2>4, <3>1 DEF Misled, OnlyStrayVerdictsMislead
      <3>3. CASE IsPass(s) /\ current[t] # NONE
        <4>1. current[t] \in Passed
          BY <2>1, <2>4, <3>1, <3>3
        <4>2. \A u \in Tab : doneSet'[u] \subseteq Passed
          BY <2>1, <2>4, <3>2, <3>3, <4>1 DEF MarkDone, TypeOK
        <4>3. stored' \subseteq Passed
          BY <2>1, <2>4, <3>2, <3>3, <4>2 DEF MarkDone
        <4> QED
          BY <2>2, <4>2, <4>3
      <3>4. CASE ~(IsPass(s) /\ current[t] # NONE)
        BY <2>2, <2>4, <3>2, <3>4
      <3> QED
        BY <3>3, <3>4
    <2> QED
      BY <2>2, <2>3, <2>5 DEF Misled, ProgressIsEarned
  <1>14. ASSUME NEW s \in Slot, VerdictLost(s) PROVE Misled'
    BY <1>14, NotFree DEF VerdictLost, Live, Release, Clear, TypeOK, CallsOK, CallOK, Free, Request, Misled, ProgressIsEarned, OnlyStrayVerdictsMislead, CallsCarry, Carries, Passed
  <1>15. ASSUME NEW s \in Slot, Drop(s) PROVE Misled'
    BY <1>15, NotFree DEF Drop, IsFree, Clear, TypeOK, CallsOK, CallOK, Free, Request, Misled, ProgressIsEarned, OnlyStrayVerdictsMislead, CallsCarry, Carries, Passed
  <1>16. CASE UNCHANGED vars
    BY <1>16 DEF vars, Misled, ProgressIsEarned, OnlyStrayVerdictsMislead, CallsCarry, Carries, Passed
  <1> QED
    BY <1>1, <1>2, <1>3, <1>4, <1>5, <1>6, <1>7, <1>8, <1>9, <1>10, <1>11, <1>12, <1>13, <1>14, <1>15, <1>16 DEF Next, User, Progress

LEMMA ButtonKept == IInv /\ [Next]_vars => ButtonComesBack'
  <1> SUFFICES ASSUME IInv, [Next]_vars PROVE ButtonComesBack'
    OBVIOUS
  <1> USE PracticeAssumption DEF IInv, page, server
  <1>1. ASSUME NEW t \in Tab, NEW s \in Slot, Load(t, s) PROVE ButtonComesBack'
    BY <1>1, Requested, NotFree DEF Load, Abandoned, IsFree, Judging, TypeOK, CallsOK, CallOK, Free, Request, ButtonComesBack, Submitting
  <1>2. ASSUME NEW t \in Tab, NEW c \in Chapter, NEW s \in Slot, ClickChapter(t, c, s) PROVE ButtonComesBack'
    BY <1>2, Requested, NotFree DEF ClickChapter, SelectChapter, Send, IsFree, TypeOK, CallsOK, CallOK, Free, Request, ButtonComesBack, Submitting
  <1>3. ASSUME NEW t \in Tab, NEW e \in Exercise, NEW s \in Slot, ClickExercise(t, e, s) PROVE ButtonComesBack'
    BY <1>3, Requested, NotFree DEF ClickExercise, Send, IsFree, TypeOK, CallsOK, CallOK, Free, Request, ButtonComesBack, Submitting
  <1>4. ASSUME NEW t \in Tab, NEW s \in Slot, SubmitCode(t, s) PROVE ButtonComesBack'
    BY <1>4, Requested, NotFree DEF SubmitCode, Send, IsFree, TypeOK, CallsOK, CallOK, Free, Request, ButtonComesBack, Submitting
  <1>5. ASSUME NEW t \in Tab, NEW s \in Slot, SubmitAnswer(t, s) PROVE ButtonComesBack'
    BY <1>5, Requested, NotFree DEF SubmitAnswer, Send, IsFree, TypeOK, CallsOK, CallOK, Free, Request, ButtonComesBack, Submitting
  <1>6. ASSUME NEW s \in Slot, Judge(s) PROVE ButtonComesBack'
    <2> DEFINE e == calls[s].what
    <2>1. e \in Exercise /\ calls[s] \in Call /\ calls[s].phase = "sent"
      BY <1>6, NotFree DEF Judge, Judging, TypeOK, CallsOK, CallOK
    <2>2. PICK token \in Token, v \in Verdict :
             /\ earned' = IF v = "passed" THEN earned \cup {<<token, e>>} ELSE earned
             /\ RecordPracticeAttempt(token, e, v) \/ UNCHANGED progress
             /\ IF calls[s].tab = NONE THEN Clear(s) ELSE Reply(s, v, token)
      <3>1. Identity(s) \subseteq Token
        BY <2>1 DEF Identity, Call
      <3> QED
        BY <1>6, <3>1 DEF Judge
    <2>3. UNCHANGED <<page, stored, cookie, strayed>>
      BY <1>6 DEF Judge
    <2> QED
      <3>1. CASE calls[s].tab = NONE
        <4>1. \A x \in Slot, u \in Tab : Submitting(x, u)' <=> Submitting(x, u)
          BY <2>2, <3>1, PracticeAssumption DEF Clear, TypeOK, Free, Submitting
        <4> QED
          BY <2>3, <4>1 DEF ButtonComesBack
      <3>2. CASE calls[s].tab # NONE
        <4>1. Reply(s, v, token)
          BY <2>2, <3>2
        <4>2. \A x \in Slot, u \in Tab : Submitting(x, u)' <=> Submitting(x, u)
          BY <2>1, <4>1, Replied DEF Submitting
        <4> QED
          BY <2>3, <4>2 DEF ButtonComesBack
      <3> QED
        BY <3>1, <3>2
  <1>7. ASSUME NEW s \in Slot, GetPracticeProgress(s) PROVE ButtonComesBack'
    BY <1>7, NotFree DEF GetPracticeProgress, TypeOK, CallsOK, CallOK, Free, Request, ButtonComesBack, Submitting
  <1>8. ASSUME NEW s \in Slot, ProgressArrives(s) PROVE ButtonComesBack'
    BY <1>8, Requested, FirstChapterIsOne, NotFree DEF ProgressArrives, Arrived, Live, SelectChapter, Send, TypeOK, CallsOK, CallOK, Free, Request, ButtonComesBack, Submitting
  <1>9. ASSUME NEW s \in Slot, ProgressFails(s) PROVE ButtonComesBack'
    BY <1>9, Requested, FirstChapterIsOne, NotFree DEF ProgressFails, Live, SelectChapter, Send, TypeOK, CallsOK, CallOK, Free, Request, ButtonComesBack, Submitting
  <1>10. ASSUME NEW s \in Slot, ListArrives(s) PROVE ButtonComesBack'
    BY <1>10, Requested, FirstTodoIsOne, NotFree DEF ListArrives, Live, Send, TypeOK, CallsOK, CallOK, Free, Request, ButtonComesBack, Submitting
  <1>11. ASSUME NEW s \in Slot, ExerciseArrives(s) PROVE ButtonComesBack'
    BY <1>11, NotFree DEF ExerciseArrives, Live, Clear, TypeOK, CallsOK, CallOK, Free, Request, ButtonComesBack, Submitting
  <1>12. ASSUME NEW s \in Slot, LookupFails(s) PROVE ButtonComesBack'
    BY <1>12, NotFree DEF LookupFails, Live, Clear, TypeOK, CallsOK, CallOK, Free, Request, ButtonComesBack, Submitting
  <1>13. ASSUME NEW s \in Slot, VerdictArrives(s) PROVE ButtonComesBack'
    BY <1>13, NotFree DEF VerdictArrives, Arrived, Live, IsPass, MarkDone, Release, Clear, TypeOK, CallsOK, CallOK, Free, Request, ButtonComesBack, Submitting
  <1>14. ASSUME NEW s \in Slot, VerdictLost(s) PROVE ButtonComesBack'
    BY <1>14, NotFree DEF VerdictLost, Live, Release, Clear, TypeOK, CallsOK, CallOK, Free, Request, ButtonComesBack, Submitting
  <1>15. ASSUME NEW s \in Slot, Drop(s) PROVE ButtonComesBack'
    BY <1>15, NotFree DEF Drop, IsFree, Clear, TypeOK, CallsOK, CallOK, Free, Request, ButtonComesBack, Submitting
  <1>16. CASE UNCHANGED vars
    BY <1>16 DEF vars, ButtonComesBack, Submitting
  <1> QED
    BY <1>1, <1>2, <1>3, <1>4, <1>5, <1>6, <1>7, <1>8, <1>9, <1>10, <1>11, <1>12, <1>13, <1>14, <1>15, <1>16 DEF Next, User, Progress

-----------------------------------------------------------------------------
LEMMA InitIInv == Init => IInv
  <1> SUFFICES ASSUME Init PROVE IInv
    OBVIOUS
  <1>1. TypeOK
    BY DEF Init, TypeOK, Free
  <1>2. CallsOK /\ CallsCarry
    BY DEF Init, CallsOK, CallOK, CallsCarry, Carries, Free
  <1>3. ProgressIsEarned /\ OnlyStrayVerdictsMislead
    BY DEF Init, ProgressIsEarned, OnlyStrayVerdictsMislead
  <1>4. ButtonComesBack
    BY DEF Init, ButtonComesBack, Submitting, Free
  <1> QED
    BY <1>1, <1>2, <1>3, <1>4 DEF IInv, Misled

LEMMA Invariance == Spec => []IInv
  <1>1. IInv /\ [Next]_vars => IInv'
    BY TypeOKKept, CallsOKKept, MisledKept, ButtonKept DEF IInv
  <1> QED
    BY InitIInv, <1>1, PTL DEF Spec

\* The state of the pages, the calls and the table are always of their types.
THEOREM PracticeTypeCorrect == Spec => []TypeOK
  <1>1. IInv => TypeOK
    BY DEF IInv
  <1> QED
    BY Invariance, <1>1, PTL

\* recordPracticeAttempt stores a pass only for the identity whose solution passed the judge.
THEOREM RecordedProgressIsEarned == Spec => []ProgressIsEarned
  <1>1. IInv => ProgressIsEarned
    BY DEF IInv, Misled
  <1> QED
    BY Invariance, <1>1, PTL

\* No request, of whatever outcome and order, takes a pass out of practice_progress:
\* recordPracticeAttempt is the only writer, and a row it finds keeps passed or gets it set.
THEOREM RecordedProgressIsKept == Spec => ProgressIsKept
  <1>1. ASSUME [Next]_vars PROVE progress \subseteq progress'
    <2>1. ASSUME NEW s \in Slot, Judge(s) PROVE progress \subseteq progress'
      BY <2>1 DEF Judge, RecordPracticeAttempt
    <2>2. CASE UNCHANGED vars
      BY <2>2 DEF vars, server
    <2>3. ASSUME User PROVE UNCHANGED progress
      BY <2>3 DEF User, Load, SubmitCode, SubmitAnswer, ClickChapter, ClickExercise, server
    <2>4. ASSUME NEW s \in Slot, Progress(s), ~Judge(s) PROVE UNCHANGED progress
      BY <2>4 DEF Progress, GetPracticeProgress, ProgressArrives, ProgressFails, ListArrives,
                  ExerciseArrives, LookupFails, VerdictArrives, VerdictLost, Drop, server
    <2> QED
      BY <1>1, <2>1, <2>2, <2>3, <2>4 DEF Next
  <1>2. [Next]_vars => [progress \subseteq progress']_vars
    BY <1>1
  <1> QED
    BY <1>2, PTL DEF Spec, ProgressIsKept

\* renderResult and renderObjResult mark an exercise that was never passed only when a
\* verdict finds another exercise on the page than the one it is about.
THEOREM StrayVerdictsAlone == Spec => []OnlyStrayVerdictsMislead
  <1>1. IInv => OnlyStrayVerdictsMislead
    BY DEF IInv, Misled
  <1> QED
    BY Invariance, <1>1, PTL

\* submitCode disables its button exactly while one submission of its tab is under way.
THEOREM TheButtonComesBack == Spec => []ButtonComesBack
  <1>1. IInv => ButtonComesBack
    BY DEF IInv
  <1> QED
    BY Invariance, <1>1, PTL

=============================================================================
