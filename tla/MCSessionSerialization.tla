---------------------- MODULE MCSessionSerialization ----------------------
(***************************************************************************)
(* Instances of SessionSerialization for TLC.                              *)
(***************************************************************************)
EXTENDS SessionSerialization, TLC

CONSTANTS r1, r2, p1, p2, d1, d2

\* Any request at any pod; requests, pods and deliveries are then
\* interchangeable, for no definition names one of them.  The symmetry is used
\* for safety only.
AnyRoute == [r \in Requests |-> Pods]
Symmetric == Permutations(Requests) \union Permutations(Pods)
               \union Permutations(Deliveries)

\* One request at the first pod, the other at any: at the same one or elsewhere.
OneAnywhere == (r1 :> {p1} @@ r2 :> {p1, p2})

\* One request per pod.
OnePerPod == (r1 :> {p1} @@ r2 :> {p2})
=============================================================================
