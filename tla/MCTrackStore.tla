---------------------------- MODULE MCTrackStore ----------------------------
(* Instances of TrackStore for TLC. *)
EXTENDS TrackStore, TLC

\* UAVs are interchangeable, and so are controllers.
Interchangeable == Permutations(Ids \ Controllers) \cup Permutations(Controllers)
=============================================================================
