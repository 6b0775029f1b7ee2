------------------------ MODULE MCSessionResolution ------------------------
(* Instances of SessionResolution for TLC.  Session ids are interchangeable: the *)
(* order of last_request_at goes with them.                                  *)
EXTENDS SessionResolution, TLC

Symmetry == Permutations(Requests) \union Permutations(Users)
    \union Permutations(Channels) \union Permutations(Uuids)
=============================================================================
