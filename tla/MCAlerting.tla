----------------------------- MODULE MCAlerting -----------------------------
(* One entity, three stages of the handler, three times and two requests.    *)
EXTENDS Alerting, TLC
StagesInOrder == <<"ioc", "store", "sigma">>
Symmetry == Permutations(Requests) \cup Permutations(Verdicts)
=============================================================================
