-------------------------- MODULE MCPointResources --------------------------
(* Two requests at a time on a point with up to two connectors; the         *)
(* assumptions of the modules without a behaviour of their own are          *)
(* evaluated with it.                                                       *)
EXTENDS PointResources, OperationResults, CommandAnswers, ProtocolClock

SlotsAreAlike == Permutations(Slots)
=============================================================================
