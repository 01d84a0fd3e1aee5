---------------------------- MODULE MCWindowCovering ----------------------------
(* Three raw positions between the ends; next to an end the percentage is      *)
(* already rounded to that of the end.                                        *)
EXTENDS WindowCovering

MCPercentage == [p \in Positions |-> CASE p < 2 -> 0 [] p = Last -> 100 [] OTHER -> 50]
=============================================================================
