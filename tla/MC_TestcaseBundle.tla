------------------------- MODULE MC_TestcaseBundle --------------------------
(***************************************************************************)
(* Small instances of TestcaseBundle.                                      *)
(***************************************************************************)
EXTENDS TestcaseBundle

\* Three uploads, the last with another number of testcases.
ThreeUploads == <<2, 2, 1>>

=============================================================================
