------------------------------ MODULE MCHarvest ------------------------------
(***************************************************************************)
(* Command lines to run the harvester with.                                *)
(***************************************************************************)
EXTENDS Harvest, TLC

Line(cmd, samples) ==
    [cmd |-> cmd, samples |-> samples, mode |-> "headful", check |-> TRUE,
     allow |-> FALSE, expected |-> NoVersion, output |-> CHOOSE o \in Outputs : TRUE]

\* Scheduled polls, with and without --allow-version-mismatch.
Polls == {[Line("harvest", 3) EXCEPT !.allow = allow] : allow \in BOOLEAN}

\* The commands a developer runs by hand, with the options that change what they do.
ByHand ==
    {Line("cft-harvest", 3), Line("safari-capture", 3), Line("android-capture", 3),
     [Line("android-capture", 3) EXCEPT !.expected = 1],
     Line("capture", 2), Line("capture", 3),
     [Line("capture", 3) EXCEPT !.allow = TRUE],
     [Line("capture", 3) EXCEPT !.mode = "headless"],
     [Line("capture", 3) EXCEPT !.check = FALSE]}

Symmetry == Permutations(Procs)
=============================================================================
