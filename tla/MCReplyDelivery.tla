--------------------------- MODULE MCReplyDelivery ---------------------------
(***************************************************************************)
(* Instances of ReplyDelivery for TLC.                                     *)
(***************************************************************************)
EXTENDS ReplyDelivery, TLC

CONSTANTS e1, h1, h2

OneEvent == e1 :> {"reply", "foreign", "incomplete", "direct"}
==============================================================================
