------------------------------ MODULE Practice ------------------------------
(***************************************************************************)
(* The practice page and the server: exercises are chosen and solved in    *)
(* the tabs of one browser, solutions are judged by the server, what was   *)
(* passed is remembered in the page (doneSet), in the browser's            *)
(* localStorage and in the table practice_progress.                        *)
(*                                                                         *)
(* Every fetch is a call in a slot: sent, then back with the server's      *)
(* answer, then received by its page.  Either way may fail.  Answers come  *)
(* in any order, and the page that gets one may have moved on.             *)
(*                                                                         *)
(* Abstracted: a verdict of the judge is one that Grading allows, whose    *)
(* liveness Judge shows; tiers share one row, since the page only asks     *)
(* whether any was passed; the chapter list and the exercises do not       *)
(* change; the panel of the last result, which goes astray exactly as the  *)
(* mark does, is display.  The browser is one; Comments keeps apart the    *)
(* identities of several.                                                  *)
(***************************************************************************)
EXTENDS Naturals, FiniteSets

CONSTANTS
    Tab,       \* tabs of the browser
    Exercise,  \* ids, in the order of the chapters
    Coding,    \* the exercises solved by code; the others are choice and blank
    Contents,  \* Contents[c]: the exercises of chapter c
    Token,     \* identities randomHex may mint
    Slot,      \* calls under way at a time
    Verdict,   \* what Grading may give
    MaxPasses, \* bound: exercises passed, counted per identity
    NONE

ASSUME PracticeAssumption ==
    /\ Exercise \subseteq Nat
    /\ DOMAIN Contents \subseteq Nat /\ DOMAIN Contents # {}
    /\ Coding \subseteq Exercise
    /\ Contents \in [DOMAIN Contents -> (SUBSET Exercise) \ {{}}]
    /\ MaxPasses \in Nat
    /\ {"passed", "failed"} \subseteq Verdict
    /\ Verdict \subseteq {"passed", "failed", "compile_error", "timeout", "runtime_error",
                         "internal_error"}
    /\ \A S \in (SUBSET Exercise) \cup SUBSET DOMAIN Contents :
          S # {} => \E least \in S : \A e \in S : least <= e
    /\ NONE \notin Tab \cup Token
    /\ NONE \notin Exercise
    /\ NONE \notin Verdict

VARIABLES
    listed,   \* listed[t]: the chapter of chapterExercises
    current,  \* current[t]: currentExercise
    doneSet,  \* doneSet[t]
    busy,     \* busy[t]: submitBtn.disabled
    stored,   \* localStorage, DONE_KEY
    cookie,   \* blog_anon
    calls,    \* calls[s]: the fetch in slot s
    progress, \* practice_progress: pairs of token and exercise that are passed
    earned,   \* history: tokens and exercises for which the judge said passed
    strayed   \* history: an answer has met a page that showed another exercise

page == <<listed, current, doneSet, busy>>
server == <<progress, earned>>
vars == <<page, stored, cookie, calls, server, strayed>>

Chapter == DOMAIN Contents

(***************************************************************************)
(* A call: what it asks for, the cookie it was sent with, and in the       *)
(* answer the verdict, the ids of the passed exercises and the cookie to   *)
(* set.  The tab is NONE once its page is gone.                            *)
(***************************************************************************)
Call == [kind : {"progress", "list", "exercise", "submit", "answer"}, tab : Tab \cup {NONE},
         what : Exercise \cup Chapter \cup {NONE}, token : Token \cup {NONE},
         phase : {"sent", "back"}, verdict : Verdict \cup {NONE},
         ids : SUBSET Exercise, set : Token \cup {NONE}]
Free == [kind |-> "none"]

TypeOK ==
    /\ listed \in [Tab -> Chapter \cup {NONE}]
    /\ current \in [Tab -> Exercise \cup {NONE}]
    /\ doneSet \in [Tab -> SUBSET Exercise]
    /\ busy \in [Tab -> BOOLEAN]
    /\ stored \subseteq Exercise
    /\ cookie \in Token \cup {NONE}
    /\ calls \in [Slot -> Call \cup {Free}]
    /\ progress \subseteq Token \X Exercise
    /\ earned \subseteq Token \X Exercise
    /\ strayed \in BOOLEAN

\* Every tab has the page open, and has not found any progress.
Init ==
    /\ listed = [t \in Tab |-> NONE]
    /\ current = [t \in Tab |-> NONE]
    /\ doneSet = [t \in Tab |-> {}]
    /\ busy = [t \in Tab |-> FALSE]
    /\ stored = {}
    /\ cookie = NONE
    /\ calls = [s \in Slot |-> Free]
    /\ progress = {}
    /\ earned = {}
    /\ strayed = FALSE

-----------------------------------------------------------------------------
\* Calls.

\* A list or an exercise is the same for everybody.
Request(kind, t, what) ==
    [kind |-> kind, tab |-> t, what |-> what, phase |-> "sent", verdict |-> NONE, ids |-> {},
     token |-> IF kind \in {"list", "exercise"} THEN NONE ELSE cookie, set |-> NONE]
Send(s, kind, t, what) == calls' = [calls EXCEPT ![s] = Request(kind, t, what)]
Clear(s) == calls' = [calls EXCEPT ![s] = Free]

IsFree(s) == calls[s].kind = "none"
Live(s, kind) == calls[s].kind = kind /\ calls[s].tab # NONE
Arrived(s, kind) == Live(s, kind) /\ calls[s].phase = "back"
Judging(s) == calls[s].kind \in {"submit", "answer"} /\ calls[s].phase = "sent"

-----------------------------------------------------------------------------
\* The server.

\* randomHex returns no identity that is known anywhere.
Known(k) ==
    \/ cookie = k
    \/ \E s \in Slot : ~IsFree(s) /\ k \in {calls[s].token, calls[s].set}
    \/ \E e \in Exercise : <<k, e>> \in progress \cup earned

\* A request without a cookie is given an identity.
Unidentified(s) == {calls[s].token}   \* mutant: attempts without a cookie are recorded as they are
Identity(s) == IF calls[s].token = NONE THEN {k \in Token : ~Known(k)} ELSE {calls[s].token}

Overwrite(token, e, v) ==   \* mutant: passed = VALUES(passed)
    progress' = IF v = "passed" THEN progress \cup {<<token, e>>} ELSE progress \ {<<token, e>>}
Lenient(token, e, v) ==   \* mutant: j.ok is recorded instead of j.status == "passed"
    progress' = IF v # "internal_error" THEN progress \cup {<<token, e>>} ELSE progress
RecordPracticeAttempt(token, e, v) ==
    progress' = IF v = "passed" THEN progress \cup {<<token, e>>} ELSE progress

Reply(s, v, token) ==
    calls' = [calls EXCEPT ![s] =
        [@ EXCEPT !.phase = "back", !.verdict = v, !.token = NONE,
                  !.set = IF calls[s].token = NONE THEN token ELSE NONE]]

(***************************************************************************)
(* A submission is judged, the attempt recorded, an answer made.  Nobody   *)
(* looks whether the recording has worked, or who reads the answer.        *)
(***************************************************************************)
Judge(s) ==
    /\ Judging(s)
    /\ \E token \in Identity(s), v \in Verdict :
          /\ earned' = IF v = "passed" THEN earned \cup {<<token, calls[s].what>>} ELSE earned
          /\ Cardinality(earned') <= MaxPasses
          /\ RecordPracticeAttempt(token, calls[s].what, v) \/ UNCHANGED progress
          /\ IF calls[s].tab = NONE THEN Clear(s) ELSE Reply(s, v, token)
    /\ UNCHANGED <<page, stored, cookie, strayed>>

GetPracticeProgress(s) ==
    /\ calls[s].kind = "progress" /\ calls[s].phase = "sent"
    /\ calls' = [calls EXCEPT ![s] =
          [@ EXCEPT !.phase = "back", !.token = NONE,
                    !.ids = {e \in Exercise : <<calls[s].token, e>> \in progress}]]
    /\ UNCHANGED <<page, stored, cookie, server, strayed>>

-----------------------------------------------------------------------------
\* The page.

(***************************************************************************)
(* A tab loads the page again: what it had under way is given up, though   *)
(* the server may still get a submission.                                  *)
(***************************************************************************)
Abandoned(s) ==
    IF Judging(s) THEN [calls[s] EXCEPT !.tab = NONE] ELSE Free

Load(t, s) ==
    /\ IsFree(s)
    /\ listed' = [listed EXCEPT ![t] = NONE]
    /\ current' = [current EXCEPT ![t] = NONE]
    /\ doneSet' = [doneSet EXCEPT ![t] = stored]
    /\ busy' = [busy EXCEPT ![t] = FALSE]
    /\ calls' = [x \in Slot |->
                    IF x = s THEN Request("progress", t, NONE)
                    ELSE IF ~IsFree(x) /\ calls[x].tab = t THEN Abandoned(x) ELSE calls[x]]
    /\ UNCHANGED <<stored, cookie, server, strayed>>

SelectChapter(t, c, s) ==
    /\ current' = [current EXCEPT ![t] = NONE]
    /\ listed' = [listed EXCEPT ![t] = NONE]
    /\ Send(s, "list", t, c)

ClickChapter(t, c, s) ==
    /\ IsFree(s)
    /\ SelectChapter(t, c, s)
    /\ UNCHANGED <<doneSet, busy, stored, cookie, server, strayed>>

FirstChapter == CHOOSE c \in Chapter : \A d \in Chapter : c <= d

\* loadProgress, which may fail, and autoSelectFirst.
ProgressArrives(s) ==
    /\ Arrived(s, "progress")
    /\ LET t == calls[s].tab IN
       /\ doneSet' = [doneSet EXCEPT ![t] = @ \cup calls[s].ids]
       /\ stored' = IF calls[s].ids \subseteq doneSet[t] THEN stored ELSE doneSet'[t]
       /\ SelectChapter(t, FirstChapter, s)
    /\ UNCHANGED <<busy, cookie, server, strayed>>

ProgressFails(s) ==
    /\ Live(s, "progress")
    /\ SelectChapter(calls[s].tab, FirstChapter, s)
    /\ UNCHANGED <<doneSet, busy, stored, cookie, server, strayed>>

\* The first exercise of the chapter that is not done, or the first.
FirstTodo(t, c) ==
    LET todo == Contents[c] \ doneSet[t]
        from == IF todo = {} THEN Contents[c] ELSE todo
    IN  CHOOSE e \in from : \A f \in from : e <= f

ListArrives(s) ==
    /\ Live(s, "list")
    /\ LET t == calls[s].tab IN
       /\ listed' = [listed EXCEPT ![t] = calls[s].what]
       /\ Send(s, "exercise", t, FirstTodo(t, calls[s].what))
    /\ UNCHANGED <<current, doneSet, busy, stored, cookie, server, strayed>>

ClickExercise(t, e, s) ==
    /\ IsFree(s)
    /\ listed[t] # NONE /\ e \in Contents[listed[t]]
    /\ Send(s, "exercise", t, e)
    /\ UNCHANGED <<page, stored, cookie, server, strayed>>

ExerciseArrives(s) ==
    /\ Live(s, "exercise")
    /\ current' = [current EXCEPT ![calls[s].tab] = calls[s].what]
    /\ Clear(s)
    /\ UNCHANGED <<listed, doneSet, busy, stored, cookie, server, strayed>>

\* A list or an exercise that does not come changes nothing but the display.
LookupFails(s) ==
    /\ Live(s, "list") \/ Live(s, "exercise")
    /\ Clear(s)
    /\ UNCHANGED <<page, stored, cookie, server, strayed>>

SubmitCode(t, s) ==
    /\ IsFree(s)
    /\ current[t] \in Coding /\ ~busy[t]
    /\ busy' = [busy EXCEPT ![t] = TRUE]
    /\ Send(s, "submit", t, current[t])
    /\ UNCHANGED <<listed, current, doneSet, stored, cookie, server, strayed>>

\* submitChoice and submitBlank
SubmitAnswer(t, s) ==
    /\ IsFree(s)
    /\ current[t] \in Exercise \ Coding
    /\ Send(s, "answer", t, current[t])
    /\ UNCHANGED <<page, stored, cookie, server, strayed>>

(***************************************************************************)
(* renderResult and renderObjResult: a pass is credited to the exercise    *)
(* that is shown.  Without one the attempt to do so throws, and the catch  *)
(* shows that the judge is out of reach.                                   *)
(***************************************************************************)
SuccessIsPass(s) == calls[s].verdict \in Verdict \ {"internal_error"}   \* mutant: result.success
IsPass(s) == calls[s].verdict = "passed"

MarkDone(t) ==
    /\ doneSet' = [doneSet EXCEPT ![t] = @ \cup {current[t]}]
    /\ stored' = IF current[t] \in doneSet[t] THEN stored ELSE doneSet'[t]

Release(s) ==
    busy' = IF calls[s].kind = "submit" THEN [busy EXCEPT ![calls[s].tab] = FALSE] ELSE busy

HalfWay(s) ==   \* mutant: the exception is not caught
    /\ Arrived(s, "submit") \/ Arrived(s, "answer")
    /\ LET t == calls[s].tab
           marks == IsPass(s) /\ current[t] # NONE
       IN  /\ IF marks THEN MarkDone(t) ELSE UNCHANGED <<doneSet, stored>>
           /\ strayed' = (strayed \/ (IsPass(s) /\ current[t] # calls[s].what))
           /\ IF marks \/ ~IsPass(s) THEN Release(s) ELSE UNCHANGED busy
    /\ cookie' = IF calls[s].set = NONE THEN cookie ELSE calls[s].set
    /\ Clear(s)
    /\ UNCHANGED <<listed, current, server>>
VerdictArrives(s) ==
    /\ Arrived(s, "submit") \/ Arrived(s, "answer")
    /\ LET t == calls[s].tab IN
       /\ IF IsPass(s) /\ current[t] # NONE THEN MarkDone(t) ELSE UNCHANGED <<doneSet, stored>>
       /\ strayed' = (strayed \/ (IsPass(s) /\ current[t] # calls[s].what))
    /\ Release(s)
    /\ cookie' = IF calls[s].set = NONE THEN cookie ELSE calls[s].set
    /\ Clear(s)
    /\ UNCHANGED <<listed, current, server>>

\* The submission or its verdict is lost on the way, or the database was out of reach
\* and the answer is no JSON.
VerdictLost(s) ==
    /\ Live(s, "submit") \/ Live(s, "answer")
    /\ Release(s)
    /\ Clear(s)
    /\ UNCHANGED <<listed, current, doneSet, stored, cookie, server, strayed>>

\* The page is gone, and the submission does not get to the server either.
Drop(s) ==
    /\ ~IsFree(s) /\ calls[s].tab = NONE
    /\ Clear(s)
    /\ UNCHANGED <<page, stored, cookie, server, strayed>>

-----------------------------------------------------------------------------
User == \E t \in Tab, s \in Slot :
    \/ Load(t, s) \/ SubmitCode(t, s) \/ SubmitAnswer(t, s)
    \/ \E c \in Chapter : ClickChapter(t, c, s)
    \/ \E e \in Exercise : ClickExercise(t, e, s)

Progress(s) ==
    \/ Judge(s) \/ GetPracticeProgress(s)
    \/ ProgressArrives(s) \/ ProgressFails(s) \/ ListArrives(s) \/ ExerciseArrives(s)
    \/ LookupFails(s) \/ VerdictArrives(s) \/ VerdictLost(s) \/ Drop(s)

Next == User \/ \E s \in Slot : Progress(s)

Spec == Init /\ [][Next]_vars

-----------------------------------------------------------------------------
Passed == {p[2] : p \in earned}

(***************************************************************************)
(* The server lists an exercise under an identity only if a submission     *)
(* under that identity passed the judge.                                   *)
(***************************************************************************)
ProgressIsEarned == progress \subseteq earned

(***************************************************************************)
(* Once passed is passed ("passed only rises"): later attempts, of         *)
(* whatever outcome and order, in whatever tab, take nothing back.         *)
(***************************************************************************)
ProgressIsKept == [][progress \subseteq progress']_vars

(***************************************************************************)
(* Reloads, two tabs over one localStorage, lost answers, late progress    *)
(* and changed identities never mark an exercise that was not passed: only *)
(* a verdict that meets another exercise does.                             *)
(***************************************************************************)
OnlyStrayVerdictsMislead ==
    ~strayed => stored \subseteq Passed /\ \A t \in Tab : doneSet[t] \subseteq Passed

(***************************************************************************)
(* "Local record: ids of the exercises that were passed": what the page    *)
(* marks as done was passed.                                               *)
(***************************************************************************)
DoneIsPassed == \A t \in Tab : doneSet[t] \subseteq Passed

(***************************************************************************)
(* The button that a submission of code disables is disabled only as long  *)
(* as that submission is under way, and then only one is: since the judge  *)
(* answers (Grading) and a fetch ends one way or the other, it comes back. *)
(***************************************************************************)
Submitting(s, t) == calls[s].kind = "submit" /\ calls[s].tab = t

ButtonComesBack == \A t \in Tab :
    /\ busy[t] <=> \E s \in Slot : Submitting(s, t)
    /\ \A s, r \in Slot : Submitting(s, t) /\ Submitting(r, t) => s = r

=============================================================================
