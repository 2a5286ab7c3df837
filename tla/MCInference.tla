----------------------------- MODULE MCInference -----------------------------
(* Two workers, one NRVNA_BATCH, and prompts of three sizes: one that just   *)
(* fits into a batch; one that does not, and leaves room for less than the   *)
(* limit of text but more than that of a transcript; one that fills the      *)
(* context.                                                                  *)
EXTENDS Inference

CONSTANTS w1, w2

TwoWorkers == {w1, w2}
SixKinds == Kind
ThreeSizes == {2, 3, 6}
=============================================================================
