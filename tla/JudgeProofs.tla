---------------------------- MODULE JudgeProofs -----------------------------
(***************************************************************************)
(* Theorems about Judge, for any number of cases, any largest exit code    *)
(* and any size of the pipe: the verdict is what became of the child, no   *)
(* report is lost, and nothing is left behind.                             *)
(*                                                                         *)
(* IInv adds to TypeOK where the child can be in each step of the judge    *)
(* (Phase), what the pipe and the count of failures still owe each other   *)
(* (Counted), and the three properties themselves, which outlive the       *)
(* judgement because nothing but the next Submit touches what they name.   *)
(***************************************************************************)
EXTENDS Judge, TLAPS

Ended == (0..MaxCode) \cup {Signal}

(***************************************************************************)
(* The child in each step of the judge.  Killed goes with timedOut; a      *)
(* child that has ended when the judge looks at the clock did so after the *)
(* waitpid before, which would have seen it.                               *)
(***************************************************************************)
Phase ==
    /\ stage = "idle" => step = "prepare" /\ child \in {"none", "reaped"}
    /\ At("prepare") \/ At("pipe") \/ At("fork") => child = "none"
    /\ At("prepare") => stage = "compile" /\ fds = 0
    /\ At("close") \/ At("read") \/ At("wait") \/ At("clock") => child \in {"running", "zombie"}
    /\ At("reap") => child = "zombie"
    /\ At("drain") => child = "reaped"
    /\ child \in {"none", "running"} <=> fate = NoFate
    /\ fate = Killed => timedOut
    /\ timedOut => expired
    /\ timedOut => stage = "idle" \/ step \in {"reap", "drain"}
    /\ endedAt = "none" <=> fate \in {NoFate, Killed}
    /\ At("clock") /\ child = "zombie" => endedAt = "clock"
    /\ timedOut /\ fate # Killed => endedAt = "clock"

\* What the child has written is in out or still in the pipe.
Counted ==
    /\ child = "none" => helper = "none" /\ wrote = 0 /\ (stage # "idle" => pipe = 0 /\ out = 0)
    /\ stage # "idle" => out + pipe >= wrote
    /\ stage # "idle" /\ helper = "none" /\ wrote < Cases => out + pipe = wrote

Outcome == VerdictIsEarned /\ OutputComplete /\ CleanEnd

IInv == TypeOK /\ Phase /\ Counted /\ Outcome

-----------------------------------------------------------------------------
LEMMA InitIInv == Init => IInv
  <1> USE JudgeAssumption
  <1>1. Init => inherited \in BOOLEAN /\ expired \in BOOLEAN /\ timedOut \in BOOLEAN
    BY Zenon DEF Init
  <1>2. Init => TypeOK
    BY <1>1 DEF Init, TypeOK, Pending, Result, Fate, NoFate, NoVerdict
  <1>3. Init => Phase /\ Counted
    BY DEF Init, Phase, Counted, At, NoFate, Killed
  <1>4. Init => Outcome
    BY DEF Init, Outcome, VerdictIsEarned, OutputComplete, CleanEnd, Judged, Pending
  <1> QED
    BY <1>2, <1>3, <1>4 DEF IInv

LEMMA TypeOKKept == IInv /\ [Next]_vars => TypeOK'
  <1> USE JudgeAssumption DEF IInv, TypeOK, Phase, Counted, At, Fate, Result, Pending, Status, NoVerdict, Signal, Killed, NoFate
  <1>0. SUFFICES ASSUME IInv, [Next]_vars PROVE TypeOK'
    OBVIOUS
  <1>1. CASE Submit
    <2>1. inherited' \in BOOLEAN /\ expired' \in BOOLEAN /\ timedOut' \in BOOLEAN
      BY <1>0, <1>1, Zenon DEF Submit, Fresh
    <2> QED
      BY <2>1, <1>0, <1>1 DEF Submit, Fresh
  <1>2. CASE Prepare
    BY <1>0, <1>2 DEF Prepare, Goto, Answer, RemoveDir, process
  <1>3. CASE OpenPipes
    BY <1>0, <1>3 DEF OpenPipes, Goto, Answer, RemoveDir, process
  <1>4. CASE Fork
    BY <1>0, <1>4 DEF Fork, Goto, Answer, RemoveDir
  <1>5. CASE CloseWriteEnds
    BY <1>0, <1>5 DEF CloseWriteEnds, Goto, process
  <1>6. CASE ReadOutput
    BY <1>0, <1>6 DEF ReadOutput, Read, OneMore, Goto, process
  <1>7. CASE Wait
    BY <1>0, <1>7 DEF Wait, Goto
  <1>8. CASE LookAtClock
    <2>1. inherited' \in BOOLEAN /\ expired' \in BOOLEAN /\ timedOut' \in BOOLEAN
      BY <1>0, <1>8, Zenon DEF LookAtClock, Goto, process
    <2> QED
      BY <2>1, <1>0, <1>8 DEF LookAtClock, Goto, process
  <1>9. CASE Reap
    BY <1>0, <1>9 DEF Reap, Goto
  <1>10. CASE Drain
    BY <1>0, <1>10 DEF Drain, Read, OneMore, process
  <1>11. CASE Conclude
    <2>1. inherited' \in BOOLEAN /\ expired' \in BOOLEAN /\ timedOut' \in BOOLEAN
      BY <1>0, <1>11, Zenon DEF Conclude, CompileDone, RunDone, Fresh, process
    <2> QED
      BY <2>1, <1>0, <1>11 DEF Conclude, CompileDone, RunDone, RunStatus, Passed, FailCount, Answer, RemoveDir, Fresh, process
  <1>12. CASE ChildWrites
    BY <1>0, <1>12 DEF ChildWrites, OneMore, judging, process
  <1>13. CASE ChildSpawns
    BY <1>0, <1>13 DEF ChildSpawns, judging, process
  <1>14. CASE ChildKeepsFile
    BY <1>0, <1>14 DEF ChildKeepsFile, judging, process
  <1>15. CASE ChildEnds
    BY <1>0, <1>15 DEF ChildEnds, judging, process
  <1>16. CASE HelperWrites
    BY <1>0, <1>16 DEF HelperWrites, judging, process
  <1>17. CASE HelperQuiet
    BY <1>0, <1>17 DEF HelperQuiet, judging, process
  <1>18. CASE HelperGone
    BY <1>0, <1>18 DEF HelperGone, judging, process
  <1>19. CASE StrangerForks
    BY <1>0, <1>19 DEF StrangerForks, judging, process
  <1>20. CASE StrangersGo
    <2>1. inherited' \in BOOLEAN /\ expired' \in BOOLEAN /\ timedOut' \in BOOLEAN
      BY <1>0, <1>20, Zenon DEF StrangersGo, judging, process
    <2> QED
      BY <2>1, <1>0, <1>20 DEF StrangersGo, judging, process
  <1>21. CASE Expire
    BY <1>0, <1>21 DEF Expire, judging, process
  <1>22. CASE UNCHANGED vars
    BY <1>0, <1>22 DEF vars, process
  <1> QED
    BY <1>0, <1>1, <1>2, <1>3, <1>4, <1>5, <1>6, <1>7, <1>8, <1>9, <1>10, <1>11, <1>12, <1>13, <1>14, <1>15, <1>16, <1>17, <1>18, <1>19, <1>20, <1>21, <1>22 DEF Next, JudgeStep, Surroundings

LEMMA PhaseKept == IInv /\ [Next]_vars => Phase'
  <1> USE JudgeAssumption DEF IInv, TypeOK, Phase, At, Fate, Signal, Killed, NoFate
  <1>0. SUFFICES ASSUME IInv, [Next]_vars PROVE Phase'
    OBVIOUS
  <1>1. CASE Submit
    BY <1>0, <1>1 DEF Submit, Fresh
  <1>2. CASE Prepare
    BY <1>0, <1>2 DEF Prepare, Goto, Answer, RemoveDir, process
  <1>3. CASE OpenPipes
    BY <1>0, <1>3 DEF OpenPipes, Goto, Answer, RemoveDir, process
  <1>4. CASE Fork
    BY <1>0, <1>4 DEF Fork, Goto, Answer, RemoveDir
  <1>5. CASE CloseWriteEnds
    BY <1>0, <1>5 DEF CloseWriteEnds, Goto, process
  <1>6. CASE ReadOutput
    BY <1>0, <1>6 DEF ReadOutput, Read, OneMore, Goto, process
  <1>7. CASE Wait
    BY <1>0, <1>7 DEF Wait, Goto
  <1>8. CASE LookAtClock
    BY <1>0, <1>8 DEF LookAtClock, Goto, process
  <1>9. CASE Reap
    BY <1>0, <1>9 DEF Reap, Goto
  <1>10. CASE Drain
    BY <1>0, <1>10 DEF Drain, Read, OneMore, process
  <1>11. CASE Conclude
    BY <1>0, <1>11 DEF Conclude, CompileDone, RunDone, RunStatus, Passed, FailCount, Answer, RemoveDir, Fresh, process
  <1>12. CASE ChildWrites
    BY <1>0, <1>12 DEF ChildWrites, OneMore, judging, process
  <1>13. CASE ChildSpawns
    BY <1>0, <1>13 DEF ChildSpawns, judging, process
  <1>14. CASE ChildKeepsFile
    BY <1>0, <1>14 DEF ChildKeepsFile, judging, process
  <1>15. CASE ChildEnds
    BY <1>0, <1>15 DEF ChildEnds, judging, process
  <1>16. CASE HelperWrites
    BY <1>0, <1>16 DEF HelperWrites, judging, process
  <1>17. CASE HelperQuiet
    BY <1>0, <1>17 DEF HelperQuiet, judging, process
  <1>18. CASE HelperGone
    BY <1>0, <1>18 DEF HelperGone, judging, process
  <1>19. CASE StrangerForks
    BY <1>0, <1>19 DEF StrangerForks, judging, process
  <1>20. CASE StrangersGo
    BY <1>0, <1>20 DEF StrangersGo, judging, process
  <1>21. CASE Expire
    BY <1>0, <1>21 DEF Expire, judging, process
  <1>22. CASE UNCHANGED vars
    BY <1>0, <1>22 DEF vars, process
  <1> QED
    BY <1>0, <1>1, <1>2, <1>3, <1>4, <1>5, <1>6, <1>7, <1>8, <1>9, <1>10, <1>11, <1>12, <1>13, <1>14, <1>15, <1>16, <1>17, <1>18, <1>19, <1>20, <1>21, <1>22 DEF Next, JudgeStep, Surroundings

LEMMA CountedKept == IInv /\ [Next]_vars => Counted'
  <1> USE JudgeAssumption DEF IInv, TypeOK, Phase, Counted, At, Fate, Signal, Killed, NoFate
  <1>0. SUFFICES ASSUME IInv, [Next]_vars PROVE Counted'
    OBVIOUS
  <1>1. CASE Submit
    BY <1>0, <1>1 DEF Submit, Fresh
  <1>2. CASE Prepare
    BY <1>0, <1>2 DEF Prepare, Goto, Answer, RemoveDir, process
  <1>3. CASE OpenPipes
    BY <1>0, <1>3 DEF OpenPipes, Goto, Answer, RemoveDir, process
  <1>4. CASE Fork
    BY <1>0, <1>4 DEF Fork, Goto, Answer, RemoveDir
  <1>5. CASE CloseWriteEnds
    BY <1>0, <1>5 DEF CloseWriteEnds, Goto, process
  <1>6. CASE ReadOutput
    BY <1>0, <1>6 DEF ReadOutput, Read, OneMore, Goto, process
  <1>7. CASE Wait
    BY <1>0, <1>7 DEF Wait, Goto
  <1>8. CASE LookAtClock
    BY <1>0, <1>8 DEF LookAtClock, Goto, process
  <1>9. CASE Reap
    BY <1>0, <1>9 DEF Reap, Goto
  <1>10. CASE Drain
    BY <1>0, <1>10 DEF Drain, Read, OneMore, process
  <1>11. CASE Conclude
    BY <1>0, <1>11 DEF Conclude, CompileDone, RunDone, RunStatus, Passed, FailCount, Answer, RemoveDir, Fresh, process
  <1>12. CASE ChildWrites
    BY <1>0, <1>12 DEF ChildWrites, OneMore, judging, process
  <1>13. CASE ChildSpawns
    BY <1>0, <1>13 DEF ChildSpawns, judging, process
  <1>14. CASE ChildKeepsFile
    BY <1>0, <1>14 DEF ChildKeepsFile, judging, process
  <1>15. CASE ChildEnds
    BY <1>0, <1>15 DEF ChildEnds, judging, process
  <1>16. CASE HelperWrites
    BY <1>0, <1>16 DEF HelperWrites, judging, process
  <1>17. CASE HelperQuiet
    BY <1>0, <1>17 DEF HelperQuiet, judging, process
  <1>18. CASE HelperGone
    BY <1>0, <1>18 DEF HelperGone, judging, process
  <1>19. CASE StrangerForks
    BY <1>0, <1>19 DEF StrangerForks, judging, process
  <1>20. CASE StrangersGo
    BY <1>0, <1>20 DEF StrangersGo, judging, process
  <1>21. CASE Expire
    BY <1>0, <1>21 DEF Expire, judging, process
  <1>22. CASE UNCHANGED vars
    BY <1>0, <1>22 DEF vars, process
  <1> QED
    BY <1>0, <1>1, <1>2, <1>3, <1>4, <1>5, <1>6, <1>7, <1>8, <1>9, <1>10, <1>11, <1>12, <1>13, <1>14, <1>15, <1>16, <1>17, <1>18, <1>19, <1>20, <1>21, <1>22 DEF Next, JudgeStep, Surroundings

LEMMA OutcomeKept == IInv /\ [Next]_vars => Outcome'
  <1> USE JudgeAssumption DEF IInv, TypeOK, Phase, Counted, Outcome, VerdictIsEarned, Overlooked, OutputComplete, CleanEnd, Judged, At, Fate, Result, Pending, Status, NoVerdict, Signal, Killed, NoFate
  <1>0. SUFFICES ASSUME IInv, [Next]_vars PROVE Outcome'
    OBVIOUS
  <1>1. CASE Submit
    BY <1>0, <1>1 DEF Submit, Fresh
  <1>2. CASE Prepare
    BY <1>0, <1>2 DEF Prepare, Goto, Answer, RemoveDir, process
  <1>3. CASE OpenPipes
    BY <1>0, <1>3 DEF OpenPipes, Goto, Answer, RemoveDir, process
  <1>4. CASE Fork
    BY <1>0, <1>4 DEF Fork, Goto, Answer, RemoveDir
  <1>5. CASE CloseWriteEnds
    BY <1>0, <1>5 DEF CloseWriteEnds, Goto, process
  <1>6. CASE ReadOutput
    BY <1>0, <1>6 DEF ReadOutput, Read, OneMore, Goto, process
  <1>7. CASE Wait
    BY <1>0, <1>7 DEF Wait, Goto
  <1>8. CASE LookAtClock
    BY <1>0, <1>8 DEF LookAtClock, Goto, process
  <1>9. CASE Reap
    BY <1>0, <1>9 DEF Reap, Goto
  <1>10. CASE Drain
    BY <1>0, <1>10 DEF Drain, Read, OneMore, process
  <1>11. CASE Conclude
    BY <1>0, <1>11 DEF Conclude, CompileDone, RunDone, RunStatus, Passed, FailCount, Answer, RemoveDir, Fresh, process
  <1>12. CASE ChildWrites
    BY <1>0, <1>12 DEF ChildWrites, OneMore, judging, process
  <1>13. CASE ChildSpawns
    BY <1>0, <1>13 DEF ChildSpawns, judging, process
  <1>14. CASE ChildKeepsFile
    BY <1>0, <1>14 DEF ChildKeepsFile, judging, process
  <1>15. CASE ChildEnds
    BY <1>0, <1>15 DEF ChildEnds, judging, process
  <1>16. CASE HelperWrites
    BY <1>0, <1>16 DEF HelperWrites, judging, process
  <1>17. CASE HelperQuiet
    BY <1>0, <1>17 DEF HelperQuiet, judging, process
  <1>18. CASE HelperGone
    BY <1>0, <1>18 DEF HelperGone, judging, process
  <1>19. CASE StrangerForks
    BY <1>0, <1>19 DEF StrangerForks, judging, process
  <1>20. CASE StrangersGo
    BY <1>0, <1>20 DEF StrangersGo, judging, process
  <1>21. CASE Expire
    BY <1>0, <1>21 DEF Expire, judging, process
  <1>22. CASE UNCHANGED vars
    BY <1>0, <1>22 DEF vars, process
  <1> QED
    BY <1>0, <1>1, <1>2, <1>3, <1>4, <1>5, <1>6, <1>7, <1>8, <1>9, <1>10, <1>11, <1>12, <1>13, <1>14, <1>15, <1>16, <1>17, <1>18, <1>19, <1>20, <1>21, <1>22 DEF Next, JudgeStep, Surroundings

-----------------------------------------------------------------------------
LEMMA Invariance == Spec => []IInv
  <1>1. IInv /\ [Next]_vars => IInv'
    BY TypeOKKept, PhaseKept, CountedKept, OutcomeKept DEF IInv
  <1> QED
    BY InitIInv, <1>1, PTL DEF Spec

\* judgeSubmission keeps to the types of its state.
THEOREM JudgeTypeCorrect == Spec => []TypeOK
  <1>1. IInv => TypeOK
    BY DEF IInv
  <1> QED
    BY Invariance, <1>1, PTL

(***************************************************************************)
(* The status shown follows from how the child really ended, for every     *)
(* order of its end, its output and the clock, but for one: an end between *)
(* the last waitpid and a look at the clock that comes too late.           *)
(***************************************************************************)
THEOREM VerdictsAreEarned == Spec => []VerdictIsEarned
  <1>1. IInv => VerdictIsEarned
    BY DEF IInv, Outcome
  <1> QED
    BY Invariance, <1>1, PTL

\* Every failure that the child reported is taken off the cases shown as passed.
THEOREM NoReportIsLost == Spec => []OutputComplete
  <1>1. IInv => OutputComplete
    BY DEF IInv, Outcome
  <1> QED
    BY Invariance, <1>1, PTL

\* A judgement that is over has reaped its child, closed its pipes and emptied its directory.
THEOREM NothingIsLeftBehind == Spec => []CleanEnd
  <1>1. IInv => CleanEnd
    BY DEF IInv, Outcome
  <1> QED
    BY Invariance, <1>1, PTL

(***************************************************************************)
(* Without its fairness, Grading is implemented step by step: what a       *)
(* caller sees of a judgement is that it is taken and that a verdict is    *)
(* given, once; only one that is taken can be held up.                     *)
(***************************************************************************)
THEOREM JudgeGrades == Spec => G!Init /\ [][G!Next]_(G!vars)
  <1>1. Init => G!Init
    BY DEF Init, G!Init, G!NoVerdict, Pending, NoVerdict
  <1>2. IInv /\ [Next]_vars => [G!Next]_(G!vars)
    <2> SUFFICES ASSUME IInv, [Next]_vars PROVE [G!Next]_(G!vars)
      OBVIOUS
    <2> DEFINE held == stage = "run" /\ step = "drain" /\ helper = "busy"
    <2>0. /\ stage = "idle" => ~held
          /\ stage' = "idle" => ~held'
          /\ step' = "prepare" => ~held'
      OBVIOUS
    <2>1. CASE Submit
      <3>1. G!Take
        BY <2>0, <2>1 DEF Submit, Pending, NoVerdict, G!Take, G!NoVerdict
      <3> QED
        BY <3>1 DEF G!Next
    <2>2. CASE JudgeStep
      <3> DEFINE Told == \E v \in Status :
                  stage # "idle" /\ stage' = "idle" /\ result'.status = v
                 Mute == stage # "idle" /\ stage' # "idle" /\ UNCHANGED result
      <3>1. Prepare => Told \/ Mute
        BY DEF Prepare, At, Goto, Answer, Status
      <3>2. OpenPipes => Told \/ Mute
        BY DEF OpenPipes, At, Goto, Answer, Status
      <3>3. Fork => Told \/ Mute
        BY DEF Fork, At, Goto, Answer, Status
      <3>4. (CloseWriteEnds \/ ReadOutput \/ Wait \/ LookAtClock \/ Reap \/ Drain) => Told \/ Mute
        BY DEF CloseWriteEnds, ReadOutput, Wait, LookAtClock, Reap, Drain, Goto, At
      <3>5. Conclude => Told \/ Mute
        BY DEF Conclude, At, CompileDone, RunDone, RunStatus, Answer, Status
      <3>6. Told \/ Mute
        BY <2>2, <3>1, <3>2, <3>3, <3>4, <3>5 DEF JudgeStep
      <3>7. Told => \E v \in G!Status : G!Give(v)
        BY <2>0 DEF Status, G!Status, G!Give
      <3>8. Mute => G!Hold
        BY <2>0 DEF G!Hold
      <3> QED
        BY <3>6, <3>7, <3>8 DEF G!Next
    <2>3. CASE Surroundings
      <3>1. UNCHANGED <<stage, step, result>>
        BY <2>3 DEF Surroundings, ChildWrites, ChildSpawns, ChildKeepsFile, ChildEnds,
                    HelperWrites, HelperQuiet, HelperGone, StrangerForks, StrangersGo, Expire,
                    judging
      <3>2. CASE stage = "idle"
        BY <2>0, <3>1, <3>2 DEF G!vars
      <3>3. CASE stage # "idle"
        <4>1. G!Hold
          BY <3>1, <3>3 DEF G!Hold
        <4> QED
          BY <4>1 DEF G!Next
      <3> QED
        BY <3>2, <3>3
    <2>4. CASE UNCHANGED vars
      BY <2>4 DEF vars, process, G!vars
    <2> QED
      BY <2>1, <2>2, <2>3, <2>4 DEF Next
  <1> QED
    BY Invariance, <1>1, <1>2, PTL DEF Spec

=============================================================================
