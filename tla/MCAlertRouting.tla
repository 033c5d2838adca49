--------------------------- MODULE MCAlertRouting ---------------------------
(* Two digest channels of both kinds and one that is notified at once; one  *)
(* alert goes to all of them.                                               *)
EXTENDS AlertRouting

CONSTANTS email, hook, pager

MCNotify == [a \in Alerts |-> IF a = 2 THEN <<pager, email, hook>>
                              ELSE IF a = 1 THEN <<email, hook>> ELSE <<hook>>]
=============================================================================
