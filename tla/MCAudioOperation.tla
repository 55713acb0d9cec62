-------------------------- MODULE MCAudioOperation --------------------------
(* Instances of AudioOperation: two concurrent invocations. *)
EXTENDS AudioOperation

CONSTANTS w1, w2, c1, c2

MCWorkers == {w1, w2}
TwoCopies == {c1, c2}
SharedOwner == [w \in Workers |-> "fc_jobs_unknown"]
=============================================================================
