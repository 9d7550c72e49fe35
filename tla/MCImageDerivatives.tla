------------------------- MODULE MCImageDerivatives -------------------------
(***************************************************************************)
(* A small instance of ImageDerivatives for TLC: two workers meet at one    *)
(* job, or one worker finds two jobs, of two images, the second of which is  *)
(* there for the order of the claims: its own attempt goes well.             *)
(***************************************************************************)
EXTENDS ImageDerivatives, TLC

CONSTANTS first, second, image, other, w1, w2

TwoJobs == {first, second}
InOrder == <<first, second>>
TwoImages == {image, other}
OwnImage == [j \in TwoJobs |-> IF j = first THEN image ELSE other]

TwoWorkers == {w1, w2}
Everything == DisturbanceKinds
OnlyLease == {"lease"}

Narrow ==
  state[second] # "none" =>
    /\ pc[w2] = "idle"
    /\ lease[second] # "over"
    /\ job[w1] = second => pc[w1] \notin {"cleaning", "deleting"}

NarrowSpec == Init /\ [][Next /\ Narrow']_vars /\ Fairness

=============================================================================
