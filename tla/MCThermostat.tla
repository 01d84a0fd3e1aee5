---------------------------- MODULE MCThermostat ----------------------------
(***************************************************************************)
(* One thermostat.  The situations have set points at a limit, less than a *)
(* step from it and far from it, the defaults and narrower limits, and a   *)
(* largest heating set point so far below the initial one that the         *)
(* difference does not fit in the amount.                                  *)
(***************************************************************************)
EXTENDS Thermostat

MCSituations ==
  {<<"heat", 2995, 700, 3000>>, <<"heat", 1204, 1200, 1500>>, <<"heat", 704, 700, 710>>,
   <<"cool", 3200, 1600, 3200>>, <<"cool", 1605, 1600, 2000>>}
MCAmounts == {-128, -1, 1, 127}
MCWritten == {1200, 3000}
=============================================================================
