------------------------------ MODULE Grading -------------------------------
(***************************************************************************)
(* What POST /api/practice/submit promises of judgeSubmission: every       *)
(* submission taken gets one verdict, whatever the submitted program does, *)
(* unless processes that outlive it hold up the judge again and again.     *)
(*                                                                         *)
(* Module Judge implements it with processes, pipes and a time limit.      *)
(***************************************************************************)
VARIABLES
    taken,    \* a submission is being judged
    held,     \* what it has left behind still writes
    verdict   \* what the last one got

vars == <<taken, held, verdict>>

Status == {"passed", "failed", "compile_error", "timeout", "runtime_error", "internal_error"}

NoVerdict == "none"

Init == taken = FALSE /\ held = FALSE /\ verdict = NoVerdict

Take ==
    /\ ~taken
    /\ taken' = TRUE
    /\ held' = FALSE
    /\ verdict' = NoVerdict

Give(v) ==
    /\ taken
    /\ taken' = FALSE
    /\ held' = FALSE
    /\ verdict' = v

\* The processes left behind begin to write, or stop.
Hold ==
    /\ taken
    /\ held' \in BOOLEAN
    /\ UNCHANGED <<taken, verdict>>

Next == Take \/ Hold \/ \E v \in Status : Give(v)

Spec == Init /\ [][Next]_vars /\ WF_vars(~held /\ \E v \in Status : Give(v))

=============================================================================
