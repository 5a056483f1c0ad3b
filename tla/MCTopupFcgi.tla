---------------------------- MODULE MCTopupFcgi ----------------------------
(* The fronts before the thrift server on small instances: the requests    *)
(* and the numbers of MCOrderIntake.                                       *)
EXTENDS MCOrderIntake, TopupFcgi, TLC

FrontSymmetry == Permutations(Fronts)
=============================================================================
