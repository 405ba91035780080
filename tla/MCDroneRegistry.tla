------------------------- MODULE MCDroneRegistry -------------------------
(***************************************************************************)
(* Instances of DroneRegistry for TLC: the detections handlers can be      *)
(* given in each run.                                                      *)
(***************************************************************************)
EXTENDS DroneRegistry, TLC

\* Two identifiers for one serial.
SameSerialDetections ==
  [id : Ids, serial : Serials, mac : {None}, ctrl : {FALSE}, fix : {"bare"}]

\* Serial, MAC, both or neither, and controllers known by their MAC.
IdentityDetections ==
  [id : Ids, serial : Serials \cup {None}, mac : Macs \cup {None},
   ctrl : {FALSE}, fix : {"bare"}]
  \cup [id : Ids, serial : {None}, mac : Macs, ctrl : {TRUE}, fix : {"bare"}]

\* Two identifiers for one radio: the second detection is merged.
RadioDetections ==
  [id : Ids, serial : {None}, mac : Macs, ctrl : {FALSE}, fix : {"gps", "wifi"}]

Interchangeable ==
  Permutations(Ids) \cup Permutations(Serials) \cup Permutations(Macs)
    \cup Permutations(Handlers)
=============================================================================
