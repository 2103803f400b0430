----------------------------- MODULE SampleLoop -----------------------------
(***************************************************************************)
(* What a capture command promises about its samples: it takes exactly the *)
(* number it was asked for, or fails.  A sample that fails is tried again  *)
(* no more often than the command line tool says, and one that was taken   *)
(* is never taken back or counted twice.                                   *)
(***************************************************************************)
EXTENDS Naturals

CONSTANT Samples        \* the number asked for with --samples

VARIABLES count, attempt, status,
          limit         \* how often one sample is tried, which the command fixes

Init == count = 0 /\ attempt = 1 /\ status = "sampling" /\ limit \in Nat \ {0}

Take ==
    /\ status = "sampling" /\ count < Samples
    /\ count' = count + 1
    /\ attempt' = 1
    /\ UNCHANGED <<status, limit>>

Lose ==
    /\ status = "sampling" /\ attempt < limit
    /\ attempt' = attempt + 1
    /\ UNCHANGED <<count, status, limit>>

\* The last attempt failed; or the command could not even be set up; or, with all samples
\* taken, the clean-up after them failed.
GiveUp ==
    /\ status = "sampling"
    /\ attempt = limit \/ count \in {0, Samples}
    /\ status' = "failed"
    /\ UNCHANGED <<count, attempt, limit>>

Finish ==
    /\ status = "sampling" /\ count = Samples
    /\ status' = "taken"
    /\ UNCHANGED <<count, attempt, limit>>

Next == Take \/ Lose \/ GiveUp \/ Finish

Spec == Init /\ [][Next]_<<count, attempt, status, limit>>
=============================================================================
