------------------------------ MODULE MCSensing ------------------------------
(***************************************************************************)
(* What a detection goes through in the node, checked side by side: its    *)
(* intake, the check against dismissals, the trust analysis, the range     *)
(* estimates, the track numbers and the pairing of controllers.  Each      *)
(* behaviour is one of one part, the others stay where they began.  The    *)
(* variables and constants of TrackStore are its own.                      *)
(***************************************************************************)
EXTENDS TrackStore, Trust, Estimates, ControllerLinks, FalsePositives, DetectionIntake, TLC

VARIABLE part

partVars == <<vars, spoofVars, rangeVars, pairVars, dismissalVars, intakeVars, part>>

PartInit ==
  /\ Init /\ SpoofInit /\ RangeInit /\ PairInit /\ DismissalInit /\ IntakeInit
  /\ part \in {"tracks", "spoof", "ranges", "pairs", "dismissals", "intake"}

PartNext ==
  /\ \/ /\ part = "tracks" /\ Next
        /\ UNCHANGED <<spoofVars, rangeVars, pairVars, dismissalVars, intakeVars>>
     \/ /\ part = "spoof" /\ SpoofNext
        /\ UNCHANGED <<vars, rangeVars, pairVars, dismissalVars, intakeVars>>
     \/ /\ part = "ranges" /\ RangeNext
        /\ UNCHANGED <<vars, spoofVars, pairVars, dismissalVars, intakeVars>>
     \/ /\ part = "pairs" /\ PairNext
        /\ UNCHANGED <<vars, spoofVars, rangeVars, dismissalVars, intakeVars>>
     \/ /\ part = "dismissals" /\ DismissalNext
        /\ UNCHANGED <<vars, spoofVars, rangeVars, pairVars, intakeVars>>
     \/ /\ part = "intake" /\ IntakeNext
        /\ UNCHANGED <<vars, spoofVars, rangeVars, pairVars, dismissalVars>>
  /\ UNCHANGED part

PartSpec == PartInit /\ [][PartNext]_partVars
-----------------------------------------------------------------------------
\* UAVs are interchangeable, in the store and in the pairing.
Interchangeable == Permutations(Ids \ Controllers)

\* Ordinary detections of two radios, and one for each group of anomalies.
TrustSamples ==
  {Sample("m1", "A"),
   [Sample("m2", "B") EXCEPT !.alt = 2, !.confidence = "high"],
   [Sample("m1", "none") EXCEPT !.serial = FALSE, !.randomized = TRUE],
   [Sample("m1", "A") EXCEPT !.oui = "ESPRESSIF", !.claims = {"DJI", "ESPRESSIF"},
      !.alt = 1, !.rssi = "very strong", !.operatorFar = TRUE, !.confidence = "low"],
   [Sample("m1", "B") EXCEPT !.oui = "DJI", !.claims = {"DJI"}, !.maker = "DJI",
      !.rssi = "strong", !.high = TRUE, !.fast = TRUE, !.late = TRUE, !.confidence = "medium"]}

\* A clear pair, and two makers.
PairEvidence ==
  {[sameMaker |-> TRUE, sameTap |-> TRUE, bothRecent |-> TRUE, operator |-> "close"],
   [sameMaker |-> FALSE, sameTap |-> TRUE, bothRecent |-> TRUE, operator |-> "near"]}

\* Garbled identifiers, wild and far positions from each source, and controllers.
IntakeMessages ==
  {[Message(1, "r1") EXCEPT !.id = "garbled", !.serial = "garbled", !.ssid = "none",
      !.pos = "near1", !.op = "near1"],
   [Message(2, "r1") EXCEPT !.pos = "wild", !.op = "far", !.ssid = "rid",
      !.rid = Payload("far", "near1", "serial")],
   [Message(3, "r1") EXCEPT !.controller = TRUE, !.ssid = "controller",
      !.source = "beacon", !.op = "near2"],
   [Message(4, "r1") EXCEPT !.rid = Payload("near1", "wild", "none"),
      !.dji = Payload("near2", "far", "dji serial"), !.op = "wild"],
   [Message(5, "r1") EXCEPT !.source = "beacon", !.controller = TRUE]}
=============================================================================
