------------------------------ MODULE MCCapture ------------------------------
(***************************************************************************)
(* Capture for TLC.  Nothing tells one capture from another but the order  *)
(* in which they begin, so their identities may be permuted.               *)
(***************************************************************************)
EXTENDS Capture, TLC

CaptureSymmetry == Permutations(Captures)
=============================================================================
