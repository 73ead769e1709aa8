---------------------------- MODULE MCAttemptLog ----------------------------
(***************************************************************************)
(* A log that holds a marker and two or three records and is rotated by    *)
(* the third or the fourth.                                                *)
(***************************************************************************)
EXTENDS AttemptLog

TwoSizes == {1, 2}
=============================================================================
