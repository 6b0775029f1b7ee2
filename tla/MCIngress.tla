------------------------------ MODULE MCIngress ------------------------------
(***************************************************************************)
(* Instances of Ingress for TLC.                                           *)
(***************************************************************************)
EXTENDS Ingress, TLC

CONSTANTS p1, p2

\* The first message may come without a customer id.
TicketCustomers == 1 :> {[email |-> "a", id |-> 0], [email |-> "a", id |-> 1]}
                @@ 2 :> {[email |-> "b", id |-> 2]}

\* The second message may be without text.
RequestFirst == 1 :> {"request"} @@ 2 :> {"request", "empty"}

\* The webhook of the first message may be posted again.
TwicePosted == 1 :> 2 @@ 2 :> 1
==============================================================================
