-------------------------- MODULE MCDetectionStore --------------------------
(* Instances of DetectionStore for TLC. *)
EXTENDS DetectionStore, TLC

Interchangeable ==
  Permutations(Ids \ Controllers) \cup Permutations(Handlers) \cup Permutations(Workers)
=============================================================================
