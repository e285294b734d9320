-------------------------- MODULE MCStreamRecorder --------------------------
(* Instances of StreamRecorder for TLC: every stream of up to MaxLines.    *)
EXTENDS StreamRecorder
=============================================================================
