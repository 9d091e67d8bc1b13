--------------------------- MODULE MC_JobConsumer ---------------------------
(***************************************************************************)
(* Small instances of JobConsumer.                                         *)
(***************************************************************************)
EXTENDS JobConsumer, TLC

CONSTANTS c1, c2, g1, g2

ClaimEach == (g1 :> c1) @@ (g2 :> c2)

SecondInvalid == {<<c1, 2>>}

=============================================================================
