------------------------------- MODULE Judge ---------------------------------
(***************************************************************************)
(* judgeSubmission: compile a submission joined with the hidden test       *)
(* driver, run it, and tell what came of it.                               *)
(*                                                                         *)
(* Each stage is one runProcess: pipes, fork, a loop that reads without    *)
(* blocking, asks waitpid without blocking and looks at the clock, and     *)
(* then the rest of the output.  The child runs meanwhile, and so may      *)
(* processes it has started: a killed g++ leaves its compiler behind, a    *)
(* submitted program may fork, and what it forks may fork again.  They     *)
(* keep the pipe open, and so does a child that another thread forks while *)
(* this one has the write end open.                                        *)
(*                                                                         *)
(* Abstracted: stdout and stderr are one pipe, and of what is written only *)
(* the lines with "FAIL:" are kept; the time limits are "expired or not";  *)
(* a status is an exit code or a signal.  The caller has refused an empty  *)
(* driver and empty code.  waitpid does not fail: nothing in the program   *)
(* ignores SIGCHLD or waits elsewhere.  removeDir is one step.             *)
(***************************************************************************)
EXTENDS Integers

CONSTANTS
    Cases,    \* total_cases of the exercise
    MaxCode,  \* the largest exit code
    Room      \* lines that a pipe holds

ASSUME JudgeAssumption ==
    /\ Cases \in Nat \ {0}
    /\ MaxCode \in Nat \ {0}
    /\ Room \in Nat \ {0}

VARIABLES
    stage,     \* "idle", or which of the two runProcess calls
    step,      \* where in it
    child,     \* the direct child
    fate,      \* history: how the child really ended
    endedAt,   \* history: the judge's step when it ended by itself
    wrote,     \* history: FAIL lines the child wrote, at most Cases
    helper,    \* processes that the child, or one of them, has started
    inherited, \* a child of another thread holds the write ends
    pipe,      \* how many lines are not read yet
    fds,       \* how many descriptors of the pipes this thread has open
    out,       \* FAIL lines read, at most Cases
    expired,   \* the time limit has passed
    timedOut,  \* r.timedOut
    dir,       \* the temporary directory
    result     \* what the caller was told last

process == <<child, fate, endedAt, wrote, helper, inherited>>
judging == <<stage, step, fds, out, timedOut, result>>
vars == <<stage, step, process, pipe, fds, out, expired, timedOut, dir, result>>

\* A child's end: an exit code, or one of these.
Signal == -1    \* a signal of its own making
Killed == -2    \* the judge's SIGKILL
NoFate == -3    \* none yet
Fate == (0..MaxCode) \cup {Signal, Killed, NoFate}

NoVerdict == "none"
Status == {"passed", "failed", "compile_error", "timeout", "runtime_error", "internal_error"}
Result == [status : Status \cup {NoVerdict}, passed : 0..Cases]
Pending == [status |-> NoVerdict, passed |-> 0]

TypeOK ==
    /\ stage \in {"idle", "compile", "run"}
    /\ step \in {"prepare", "pipe", "fork", "close", "read", "wait", "clock", "reap", "drain"}
    /\ child \in {"none", "running", "zombie", "reaped"}
    /\ fate \in Fate
    /\ endedAt \in {"none", "close", "read", "wait", "clock"}
    /\ wrote \in 0..Cases
    /\ helper \in {"none", "busy", "quiet", "gone"}
    /\ inherited \in BOOLEAN
    /\ pipe \in 0..Room
    /\ fds \in {0, 2, 4}
    /\ out \in 0..Cases
    /\ expired \in BOOLEAN
    /\ timedOut \in BOOLEAN
    /\ dir \in {"none", "clean", "littered"}
    /\ result \in Result

Init ==
    /\ stage = "idle"
    /\ step = "prepare"
    /\ child = "none"
    /\ fate = NoFate
    /\ endedAt = "none"
    /\ wrote = 0
    /\ helper = "none"
    /\ inherited = FALSE
    /\ pipe = 0
    /\ fds = 0
    /\ out = 0
    /\ expired = FALSE
    /\ timedOut = FALSE
    /\ dir = "none"
    /\ result = Pending

-----------------------------------------------------------------------------
At(s) == stage # "idle" /\ step = s
Goto(s) == step' = s /\ UNCHANGED stage

OneMore(n) == IF n < Cases THEN n + 1 ELSE n

\* removeDir unlinks a.out and solution.cpp; rmdir fails when there is more.
RemoveDir == dir' = IF dir = "littered" THEN dir ELSE "none"

Answer(status, passed) ==
    /\ stage' = "idle"
    /\ step' = "prepare"
    /\ result' = [status |-> status, passed |-> passed]
    /\ RemoveDir

\* A new child, of which nothing is known yet.
Fresh ==
    /\ child' = "none" /\ fate' = NoFate /\ endedAt' = "none" /\ wrote' = 0
    /\ helper' = "none" /\ inherited' = FALSE
    /\ pipe' = 0 /\ fds' = 0 /\ out' = 0
    /\ expired' = FALSE /\ timedOut' = FALSE

-----------------------------------------------------------------------------
\* POST /api/practice/submit calls judgeSubmission.
Submit ==
    /\ stage = "idle"
    /\ stage' = "compile"
    /\ step' = "prepare"
    /\ result' = Pending
    /\ dir' = "none"
    /\ Fresh

\* mkdtemp and the source file, or one of them fails.
Prepare ==
    /\ At("prepare")
    /\ \/ /\ dir' = "clean"
          /\ Goto("pipe")
          /\ UNCHANGED result
       \/ Answer("internal_error", 0)
    /\ UNCHANGED <<process, pipe, fds, out, expired, timedOut>>

\* pipe() twice.  When the second fails nobody closes what the first has opened.
OpenPipes ==
    /\ At("pipe")
    /\ \/ Goto("fork") /\ fds' = 4 /\ UNCHANGED <<dir, result>>
       \/ \E opened \in {0, 2} : Answer("internal_error", 0) /\ fds' = opened
    /\ UNCHANGED <<process, pipe, out, expired, timedOut>>

\* fork, or it fails.
Fork ==
    /\ At("fork")
    /\ \/ /\ Goto("close")
          /\ child' = "running"
          /\ UNCHANGED <<fds, dir, result>>
       \/ /\ Answer("internal_error", 0)
          /\ fds' = 0
          /\ UNCHANGED child
    /\ UNCHANGED <<fate, endedAt, wrote, helper, inherited, pipe, out, expired, timedOut>>

\* The parent closes its write ends, and its clock starts.
CloseWriteEnds ==
    /\ At("close")
    /\ Goto("read")
    /\ fds' = 2
    /\ UNCHANGED <<process, pipe, out, expired, timedOut, dir, result>>

-----------------------------------------------------------------------------
\* A read takes what there is, a line here, and returns even if there is none.
BlockingRead ==   \* mutant: O_NONBLOCK is not set
    /\ \/ pipe > 0
       \/ child # "running" /\ helper \in {"none", "gone"} /\ ~inherited
    /\ pipe' = IF pipe = 0 THEN pipe ELSE pipe - 1
    /\ out' = IF pipe = 0 THEN out ELSE OneMore(out)
Read ==
    /\ pipe' = IF pipe = 0 THEN pipe ELSE pipe - 1
    /\ out' = IF pipe = 0 THEN out ELSE OneMore(out)

ReadOutput ==
    /\ At("read")
    /\ Read
    /\ Goto("wait")
    /\ UNCHANGED <<process, fds, expired, timedOut, dir, result>>

\* waitpid(pid, &status, WNOHANG)
ClockFirst ==   \* mutant: the time limit is looked at before waitpid
    /\ At("wait")
    /\ IF child = "zombie" /\ ~expired
       THEN child' = "reaped" /\ Goto("drain")
       ELSE UNCHANGED child /\ Goto("clock")
    /\ UNCHANGED <<fate, endedAt, wrote, helper, inherited, pipe, fds, out, expired, timedOut,
                   dir, result>>
Wait ==
    /\ At("wait")
    /\ IF child = "zombie"
       THEN child' = "reaped" /\ Goto("drain")
       ELSE UNCHANGED child /\ Goto("clock")
    /\ UNCHANGED <<fate, endedAt, wrote, helper, inherited, pipe, fds, out, expired, timedOut,
                   dir, result>>

(***************************************************************************)
(* Too late: kill, which does nothing to a child that has ended since.     *)
(* What a killed g++ has started goes on.  In time: sleep, and again.      *)
(***************************************************************************)
LookAtClock ==
    /\ At("clock")
    /\ \/ /\ ~expired
          /\ Goto("read")
          /\ UNCHANGED <<process, timedOut>>
       \/ /\ expired
          /\ Goto("reap")
          /\ timedOut' = TRUE
          /\ \/ /\ child = "running"
                /\ child' = "zombie"
                /\ fate' = Killed
                /\ \/ UNCHANGED helper
                   \/ stage = "compile" /\ helper' = "busy"
             \/ child # "running" /\ UNCHANGED <<child, fate, helper>>
          /\ UNCHANGED <<endedAt, wrote>>
    /\ UNCHANGED <<inherited, pipe, fds, out, expired, dir, result>>

\* waitpid(pid, &status, 0) after the kill.
NoReap ==   \* mutant: nobody waits for a killed child
    /\ At("reap")
    /\ UNCHANGED child
    /\ Goto("drain")
    /\ UNCHANGED <<fate, endedAt, wrote, helper, inherited, pipe, fds, out, expired, timedOut,
                   dir, result>>
Reap ==
    /\ At("reap")
    /\ child = "zombie"
    /\ child' = "reaped"
    /\ Goto("drain")
    /\ UNCHANGED <<fate, endedAt, wrote, helper, inherited, pipe, fds, out, expired, timedOut,
                   dir, result>>

\* drainPipe: as long as there is something.
Drain ==
    /\ At("drain")
    /\ pipe > 0
    /\ Read
    /\ UNCHANGED <<stage, step, process, fds, expired, timedOut, dir, result>>

-----------------------------------------------------------------------------
(***************************************************************************)
(* Nothing left to read: close the pipe and conclude.  Codes and signals   *)
(* come from the status that waitpid gave, which is the child's fate.      *)
(***************************************************************************)
FailCount == IF out = 0 /\ fate # 0 THEN fate ELSE out
Unclamped == Cases - FailCount   \* mutant: may go below 0
Passed == IF FailCount < Cases THEN Cases - FailCount ELSE 0

CompileDone ==
    \/ /\ ~timedOut /\ fate = 0
       /\ stage' = "run"
       /\ step' = "pipe"
       /\ Fresh
       /\ UNCHANGED <<dir, result>>
    \/ /\ timedOut \/ fate # 0
       /\ Answer("compile_error", 0)
       /\ fds' = 0
       /\ UNCHANGED <<process, pipe, out, expired, timedOut>>

RunStatus ==
    CASE timedOut -> "timeout"
      [] ~timedOut /\ fate = Signal -> "runtime_error"
      [] ~timedOut /\ fate = 0 /\ out = 0 -> "passed"
      [] OTHER -> "failed"

RunDone ==
    /\ Answer(RunStatus, IF RunStatus \in {"passed", "failed"} THEN Passed ELSE 0)
    /\ fds' = 0
    /\ UNCHANGED <<process, pipe, out, expired, timedOut>>

Hasty ==   \* mutant: no drainPipe after the child's end
    /\ At("drain")
    /\ \/ stage = "compile" /\ CompileDone
       \/ stage = "run" /\ RunDone
Conclude ==
    /\ At("drain")
    /\ pipe = 0
    /\ \/ stage = "compile" /\ CompileDone
       \/ stage = "run" /\ RunDone

-----------------------------------------------------------------------------
\* What goes on beside the judge.

\* The child writes; in a full pipe it would wait.
ChildWrites ==
    /\ child = "running"
    /\ pipe < Room
    /\ pipe' = pipe + 1
    /\ wrote' = OneMore(wrote)
    /\ UNCHANGED <<judging, child, fate, endedAt, helper, inherited, expired, dir>>

(***************************************************************************)
(* A submitted program, or a process that it has left behind, starts       *)
(* another.  RLIMIT_CPU counts for each process from 0 and RLIMIT_NPROC    *)
(* does not bind root, so there is no last one.                            *)
(***************************************************************************)
ChildSpawns ==
    /\ stage = "run"
    /\ child = "running" \/ helper = "quiet"
    /\ helper # "busy"
    /\ helper' = "busy"
    /\ UNCHANGED <<judging, child, fate, endedAt, wrote, inherited, pipe, expired, dir>>

\* Programs write files here and, if they get so far, remove them again.
ChildKeepsFile ==
    /\ stage = "run" /\ (child = "running" \/ helper = "busy")
    /\ \/ dir = "clean" /\ dir' = "littered"
       \/ dir = "littered" /\ dir' = "clean"
    /\ UNCHANGED <<judging, process, pipe, expired>>

ChildEnds ==
    /\ child = "running"
    /\ child' = "zombie"
    /\ \E f \in (0..MaxCode) \cup {Signal} : fate' = f
    /\ endedAt' = step
    /\ UNCHANGED <<judging, wrote, helper, inherited, pipe, expired, dir>>

HelperWrites ==
    /\ helper = "busy"
    /\ pipe < Room
    /\ pipe' = pipe + 1
    /\ UNCHANGED <<judging, process, expired, dir>>

\* Those that write have ended or been ended by RLIMIT_CPU, or wait.
HelperQuiet ==
    /\ helper = "busy"
    /\ helper' = "quiet"
    /\ UNCHANGED <<judging, child, fate, endedAt, wrote, inherited, pipe, expired, dir>>

HelperGone ==
    /\ helper \in {"busy", "quiet"}
    /\ helper' = "gone"
    /\ UNCHANGED <<judging, child, fate, endedAt, wrote, inherited, pipe, expired, dir>>

(***************************************************************************)
(* Another thread forks while this one has its write ends open: there is   *)
(* no O_CLOEXEC, its child inherits them and keeps them for as long as it  *)
(* likes.  That is all that threads that judge do to each other.           *)
(***************************************************************************)
StrangerForks ==
    /\ fds = 4
    /\ inherited' = TRUE
    /\ UNCHANGED <<judging, child, fate, endedAt, wrote, helper, pipe, expired, dir>>

StrangersGo ==
    /\ inherited
    /\ inherited' = FALSE
    /\ UNCHANGED <<judging, child, fate, endedAt, wrote, helper, pipe, expired, dir>>

\* The time limit passes.
Expire ==
    /\ stage # "idle" /\ step \in {"read", "wait", "clock"}
    /\ ~expired
    /\ expired' = TRUE
    /\ UNCHANGED <<judging, process, pipe, dir>>

-----------------------------------------------------------------------------
JudgeStep ==
    \/ Prepare \/ OpenPipes \/ Fork \/ CloseWriteEnds
    \/ ReadOutput \/ Wait \/ LookAtClock \/ Reap
    \/ Drain \/ Conclude

Surroundings ==
    \/ ChildWrites \/ ChildSpawns \/ ChildKeepsFile \/ ChildEnds
    \/ HelperWrites \/ HelperQuiet \/ HelperGone
    \/ StrangerForks \/ StrangersGo \/ Expire

Next == Submit \/ JudgeStep \/ Surroundings

(***************************************************************************)
(* The judging thread is scheduled and time passes.  A compiler that a     *)
(* killed g++ leaves behind starts nothing and has RLIMIT_CPU, so it stops *)
(* writing; what a submitted program leaves behind need not, since each    *)
(* process may start the next.  Nothing is assumed of the program itself,  *)
(* of a process that only waits, or of who submits.                        *)
(***************************************************************************)
CompilerStops == stage = "compile" /\ helper = "busy" /\ (HelperQuiet \/ HelperGone)

Fairness ==
    /\ WF_vars(JudgeStep)
    /\ WF_vars(Expire)
    /\ WF_vars(CompilerStops)

Spec == Init /\ [][Next]_vars /\ Fairness

-----------------------------------------------------------------------------
Judged == stage = "idle" /\ result.status # NoVerdict

(***************************************************************************)
(* A verdict is what became of the child.  An end that a waitpid could see *)
(* counts, even one after the limit; "passed" is told of a child that      *)
(* ended with 0 and reported no failure, and "timeout" of one that was     *)
(* still running when waitpid last looked.  There is one exemption: a      *)
(* child that ends by itself between that waitpid and the look at the      *)
(* clock, when the limit is over by then, is told "timeout" although it    *)
(* may have ended with 0, and in time (Overlooked).                        *)
(***************************************************************************)
Overlooked == endedAt = "clock" /\ expired

VerdictIsEarned == Judged =>
    LET v == result.status
        late == v \in {"timeout", "compile_error"} /\ Overlooked
    IN
    /\ v = "passed" => fate = 0 /\ wrote = 0
    /\ fate = 0 /\ wrote = 0 /\ helper = "none" => v = "passed" \/ late
    /\ v = "timeout" => expired /\ (fate = Killed \/ Overlooked)
    /\ v = "runtime_error" => fate = Signal
    /\ fate = Signal => v \in {"runtime_error", "compile_error"} \/ late
    /\ v = "compile_error" => fate # 0 \/ Overlooked
    /\ v = "internal_error" <=> fate = NoFate

(***************************************************************************)
(* No report is lost between the last read and the child's end: the number *)
(* of cases shown as passed takes off every failure the child reported,    *)
(* and only those if no other process wrote into the pipe.                 *)
(***************************************************************************)
OutputComplete == Judged /\ result.status = "failed" =>
    /\ result.passed <= Cases - wrote
    /\ result.passed < Cases
    /\ helper = "none" /\ wrote > 0 => result.passed = Cases - wrote

(***************************************************************************)
(* A judgement leaves no zombie and no running child behind, of its        *)
(* directory nothing but what the program put there itself, and no open    *)
(* descriptor unless pipe() failed.                                        *)
(***************************************************************************)
CleanEnd == Judged =>
    /\ child \in {"none", "reaped"}
    /\ fds = 0 \/ (fds = 2 /\ result.status = "internal_error")
    /\ dir \in {"none", "littered"}

(***************************************************************************)
(* removeDir removes the directory because "it holds only the solution.cpp *)
(* and a.out that we wrote", says its comment.  A program that ends before *)
(* it removes a file of its own makes rmdir fail, and nobody looks.        *)
(***************************************************************************)
DirectoryIsRemoved == Judged => dir = "none"

(***************************************************************************)
(* drainPipe is called when "the child has exited and the write ends are   *)
(* closed", say its comment and the one at the call, so that it reads to   *)
(* the end of the file.  A process the child has started, or a stranger,   *)
(* may hold a write end and go on writing.                                 *)
(***************************************************************************)
WriteEndsAreClosed == At("drain") => helper \in {"none", "gone"} /\ ~inherited

(***************************************************************************)
(* Seen from outside, a judgement is Take and later Give (module Grading): *)
(* every submission is answered once.  An endless program, a full pipe, a  *)
(* process that outlives the child and waits, a stranger that inherited    *)
(* the pipe, a compiler that a kill leaves behind, none of them can keep   *)
(* the judge waiting.  What can is stated (held): processes that outlive   *)
(* the submitted program and feed its pipe again and again, since          *)
(* drainPipe has no limit of its own.                                      *)
(***************************************************************************)
G == INSTANCE Grading WITH
        taken <- stage # "idle",
        held <- stage = "run" /\ step = "drain" /\ helper = "busy",
        verdict <- result.status

ImplementsGrading == G!Spec

=============================================================================
