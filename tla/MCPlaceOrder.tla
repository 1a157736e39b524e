----------------------------- MODULE MCPlaceOrder -----------------------------
(***************************************************************************)
(* A finite instance of PlaceOrder: four requests with one key, two that   *)
(* differ in their bytes only, one with another payload, and one whose     *)
(* total overflows.                                                        *)
(***************************************************************************)
EXTENDS PlaceOrder, TLC

CONSTANTS asked, respaced, changed, huge, key1, bytes1, bytes2, bytes3, bytes4,
          cart1, cart2, cart3

MCRequests == {asked, respaced, changed, huge}
MCKey == [r \in MCRequests |-> key1]
MCBody == (asked :> bytes1) @@ (respaced :> bytes2) @@ (changed :> bytes3)
          @@ (huge :> bytes4)
MCFingerprint == (asked :> cart1) @@ (respaced :> cart1) @@ (changed :> cart2)
                 @@ (huge :> cart3)
=============================================================================
