--------------------------- MODULE MCEventDelivery ---------------------------
(***************************************************************************)
(* Instances of EventDelivery for TLC.                                     *)
(***************************************************************************)
EXTENDS EventDelivery, TLC

CONSTANTS e1, e2, h1, h2

InOrder == e1 :> 1 @@ e2 :> 2
=============================================================================
