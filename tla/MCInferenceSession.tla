----------------------- MODULE MCInferenceSession -----------------------
(* Models and bounds for model checking InferenceSession.                  *)
EXTENDS InferenceSession

TwoModels  == {1, 2}
OneModel   == {1}
OwnSize(m) == m * 320
=============================================================================
