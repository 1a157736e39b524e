------------------------------ MODULE MCGateway -------------------------------
(***************************************************************************)
(* A finite instance of Gateway: three requests with one key, one of them  *)
(* with another body, and a request with another key.                      *)
(***************************************************************************)
EXTENDS Gateway, TLC

CONSTANTS r1, r2, r3, r4, k1, k2, b1, b2

MCRequests == {r1, r2, r3, r4}
MCKey == (r1 :> k1) @@ (r2 :> k1) @@ (r3 :> k1) @@ (r4 :> k2)
MCBody == (r1 :> b1) @@ (r2 :> b1) @@ (r3 :> b2) @@ (r4 :> b1)
=============================================================================
