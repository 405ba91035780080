------------------------------- MODULE Trust -------------------------------
(***************************************************************************)
(* SpoofDetector: what it remembers of the detections of one identifier,   *)
(* the flags Analyze reports, the trust score and the classification made  *)
(* from them, and the periodic Cleanup.  Tracks of different identifiers   *)
(* share a lock and nothing else, so one identifier is modelled.           *)
(***************************************************************************)
EXTENDS Integers, Sequences, FiniteSets, Folds

CONSTANTS
  Samples,        \* the detections that may arrive, see Sample
  FlagExpiry,     \* flagExpirySec and the window of duplicate_id (5 min)
  CleanupAge,     \* the age Cleanup is called with (30 min)
  RecoveryClean,  \* trustRecoveryClean (10)
  MaxSamples,     \* bound on detections
  MaxTime         \* bound on the clock

ASSUME TrustAssumption ==
  {FlagExpiry, CleanupAge} \subseteq Nat /\ FlagExpiry <= CleanupAge

VARIABLES
  spoofTrack,  \* the droneTrack of the identifier, NoTrack without one
  macSeen,     \* identifierMACs of the identifier: MAC -> place and time
  verdict,     \* what the latest Analyze returned, and the classification
  past,        \* every detection so far, for the properties
  clock

spoofVars == <<spoofTrack, macSeen, verdict, past, clock>>

(***************************************************************************)
(* A detection as the checks tell it apart.  Positions have passed the     *)
(* receiver's validation: "none" or a place, places more than 100 m apart. *)
(***************************************************************************)
Sample(mac, place) ==
  [mac |-> mac, place |-> place, alt |-> 0, serial |-> TRUE, randomized |-> FALSE,
   oui |-> "", claims |-> {}, maker |-> "", late |-> FALSE, rssi |-> "normal",
   operatorFar |-> FALSE, high |-> FALSE, fast |-> FALSE, confidence |-> "some"]

NeverHeard == -1
NoTrack == [flags |-> <<>>, clean |-> 0, place |-> "none", alt |-> 0, last |-> NeverHeard]

penalties ==
  [coordinate_jump |-> 30, altitude_spike |-> 20, speed_violation |-> 25, no_serial |-> 5,
   timestamp_anomaly |-> 15, duplicate_id |-> 35, rssi_impossible |-> 20,
   randomized_mac |-> 15, rssi_distance_mismatch |-> 25, low_confidence |-> 15,
   oui_ssid_mismatch |-> 35, impossible_vendor |-> 40]

-----------------------------------------------------------------------------
\* The vendors that count as one maker.
vendorMatches(oui, vendor) ==
  \/ oui = vendor
  \/ vendor = "DJI" /\ oui \in {"GOERTEK", "BAIWANG"}
  \/ vendor = "FIMI" /\ oui = "XIAOMI"

\* The vendor an SSID claims; a map is walked, so which of several claims is found
\* first is open, and with it the flag.
checkOUISSIDConsistency(d) ==
  IF d.oui = "" \/ d.claims = {} THEN {{}}
  ELSE {IF d.oui = "ESPRESSIF" /\ v \in {"DJI", "PARROT", "AUTEL", "SKYDIO"}
          THEN {"impossible_vendor"}
        ELSE IF ~vendorMatches(d.oui, v) THEN {"oui_ssid_mismatch"}
        ELSE {} : v \in d.claims}

\* Bonus for a maker the OUI, the SSID and RemoteID agree on.
calculateCorrelationBonus(d) ==
  IF d.oui = "" \/ d.claims = {} THEN {0}
  ELSE {IF ~vendorMatches(d.oui, v) THEN 0
        ELSE IF d.maker = "" THEN 10
        ELSE IF ~vendorMatches(d.oui, d.maker) THEN 0
        ELSE IF d.serial THEN 20 ELSE 15 : v \in d.claims}

\* Below the noise floor, above any transmitter, or too strong for the height.
ImpossibleRSSI(d) ==
  \/ d.rssi \in {"noise", "too strong"}
  \/ d.rssi \in {"strong", "very strong"} /\ d.place # "none" /\ d.high

\* What the detection alone gives away.
FrameFlags(d, vendorFlags) ==
  {f \in {"no_serial"} : ~d.serial}
  \union {f \in {"randomized_mac"} : d.randomized}
  \union vendorFlags
  \union {f \in {"timestamp_anomaly"} : d.late}
  \union {f \in {"rssi_distance_mismatch"} :
            d.rssi \in {"very strong", "too strong"} /\ d.place # "none" /\ d.operatorFar}
  \union {f \in {"rssi_impossible"} : ImpossibleRSSI(d)}
  \union {f \in {"speed_violation"} : d.fast}
  \union {f \in {"low_confidence"} : d.confidence = "low"}

\* Against the previous position: gap is the time since, "instant" up to 100 ms and
\* "short" when the way to another place or altitude cannot be covered in it.
MovementFlags(track, d, gap) ==
  IF track.last = NeverHeard \/ track.place = "none" \/ d.place = "none" \/ gap # "short"
  THEN {}
  ELSE {f \in {"coordinate_jump"} : d.place # track.place}
       \union {f \in {"altitude_spike"} : track.alt # 0 /\ d.alt # 0 /\ d.alt # track.alt}

\* The identifier came from another MAC, elsewhere, in the last five minutes.
DuplicateFlag(seenAt, d) ==
  {f \in {"duplicate_id"} :
     d.place # "none" /\ \E m \in DOMAIN seenAt \ {d.mac} :
       clock - seenAt[m].at <= FlagExpiry /\ seenAt[m].place # d.place}

Unexpired(flags) == {f \in DOMAIN flags : clock - flags[f] <= FlagExpiry}

AddFlags_KeepTime(flags, raised) ==
  [f \in Unexpired(flags) \union raised |-> IF f \in Unexpired(flags) THEN flags[f] ELSE clock]

\* Expired flags go, raised ones carry the time of this detection.
AddFlags(flags, raised) ==
  [f \in Unexpired(flags) \union raised |-> IF f \in raised THEN clock ELSE flags[f]]

Penalty(flags) ==
  MapThenFoldSet(LAMBDA p, sum : p + sum, 0, LAMBDA f : penalties[f],
                 LAMBDA left : CHOOSE f \in left : TRUE, flags)

ConfidenceBonus(d) ==
  CASE d.confidence = "high" -> 10 [] d.confidence = "medium" -> 5 [] OTHER -> 0

Clamp(n) == IF n < 0 THEN 0 ELSE IF n > 100 THEN 100 ELSE n

\* The score, with its recovery after detections that raised no new flag.
TrustScore(d, flags, clean, bonus) ==
  LET score == 100 - Penalty(flags) + ConfidenceBonus(d) + bonus IN
  Clamp(IF clean >= RecoveryClean /\ flags = {} THEN 100
        ELSE IF clean >= RecoveryClean \div 2 /\ flags # {} THEN score + 5
        ELSE score)

classifyByTrust(trust, flags) ==
  LET critical == flags \intersect {"coordinate_jump", "impossible_vendor", "duplicate_id"} # {}
      spoof == Cardinality(flags \intersect {"oui_ssid_mismatch", "rssi_distance_mismatch",
                                             "rssi_impossible"})
  IN CASE trust < 20 \/ (critical /\ trust < 40) -> "HOSTILE"
       [] trust < 40 \/ spoof >= 2 \/ (spoof >= 1 /\ trust < 50) \/ Cardinality(flags) > 3
            -> "SUSPECT"
       [] trust < 60 \/ Cardinality(flags) > 1 -> "UNKNOWN"
       [] trust < 80 -> "NEUTRAL"
       [] OTHER -> "FRIENDLY"

\* Detections without a position are not entered.
Remembered(seenAt, d) ==
  IF d.place = "none" THEN seenAt
  ELSE [m \in DOMAIN seenAt \union {d.mac} |->
          IF m = d.mac THEN [place |-> d.place, at |-> clock] ELSE seenAt[m]]

Analyze(d, gap) ==
  \E vendorFlags \in checkOUISSIDConsistency(d), bonus \in calculateCorrelationBonus(d) :
    LET frame == FrameFlags(d, vendorFlags)
        raised == frame \union MovementFlags(spoofTrack, d, gap) \union DuplicateFlag(macSeen, d)
        clean == IF raised \subseteq Unexpired(spoofTrack.flags) THEN spoofTrack.clean + 1 ELSE 0
        flags == AddFlags(spoofTrack.flags, raised)
        trust == TrustScore(d, DOMAIN flags, clean, bonus)
    IN /\ spoofTrack' = [flags |-> flags, clean |-> clean, place |-> d.place, alt |-> d.alt,
                         last |-> clock]
       /\ macSeen' = Remembered(macSeen, d)
       /\ verdict' = [trust |-> trust, flags |-> DOMAIN flags,
                      class |-> classifyByTrust(trust, DOMAIN flags)]
       /\ past' = Append(past, [mac |-> d.mac, place |-> d.place, alt |-> d.alt, gap |-> gap,
                                frame |-> frame, at |-> clock])

\* Detections lie within 50 km of their TAP, so no way is too long for CleanupAge.
Gaps == IF spoofTrack.last # NeverHeard /\ clock - spoofTrack.last < CleanupAge
        THEN {"instant", "short", "long"} ELSE {"long"}

\* handleDetection and handleSuspectDetection analyze every drone they build.
HandleSample ==
  /\ Len(past) < MaxSamples
  /\ \E d \in Samples, gap \in Gaps : Analyze(d, gap)
  /\ UNCHANGED clock

Old(at) == clock - at > CleanupAge

\* Every five minutes: tracks and MACs that have been silent for too long.
Cleanup ==
  /\ spoofTrack' = IF spoofTrack.last # NeverHeard /\ Old(spoofTrack.last)
                   THEN NoTrack ELSE spoofTrack
  /\ macSeen' = [m \in {n \in DOMAIN macSeen : ~Old(macSeen[n].at)} |-> macSeen[m]]
  /\ UNCHANGED <<verdict, past, clock>>

ClockTick ==
  /\ clock < MaxTime /\ clock' = clock + 1
  /\ UNCHANGED <<spoofTrack, macSeen, verdict, past>>

SpoofInit ==
  /\ spoofTrack = NoTrack /\ macSeen = <<>>
  /\ verdict = [trust |-> 100, flags |-> {}, class |-> "FRIENDLY"]
  /\ past = <<>> /\ clock = 0

SpoofNext == HandleSample \/ Cleanup \/ ClockTick

SpoofSpec == SpoofInit /\ [][SpoofNext]_spoofVars

-----------------------------------------------------------------------------
\* What the i-th detection showed, judged by the whole past: it was elsewhere, or at
\* another altitude, too soon after the detection before it ...
Jumps(i) ==
  /\ i > 1 /\ past[i].gap = "short"
  /\ "none" \notin {past[i].place, past[i - 1].place} /\ past[i].place # past[i - 1].place

Spikes(i) ==
  /\ i > 1 /\ past[i].gap = "short"
  /\ "none" \notin {past[i].place, past[i - 1].place}
  /\ 0 \notin {past[i].alt, past[i - 1].alt} /\ past[i].alt # past[i - 1].alt

\* ... or elsewhere than another radio was when it last gave a position.
Duplicates(i) ==
  /\ past[i].place # "none"
  /\ \E j \in 1..(i - 1) :
       /\ past[j].mac # past[i].mac /\ past[j].place \notin {"none", past[i].place}
       /\ past[i].at - past[j].at <= FlagExpiry
       /\ \A k \in (j + 1)..(i - 1) : past[k].mac = past[j].mac => past[k].place = "none"

Shown(i) ==
  past[i].frame
  \union {f \in {"coordinate_jump"} : Jumps(i)}
  \union {f \in {"altitude_spike"} : Spikes(i)}
  \union {f \in {"duplicate_id"} : Duplicates(i)}

Recent(i) == clock - past[i].at <= FlagExpiry

\* Analyze and Cleanup (spoof.go): the flags reported with a detection are exactly the
\* anomalies shown in the last five minutes, by this detection or an earlier one:
\* nothing is forgiven early, although tracks and MACs are dropped by age, and nothing
\* is held longer.
FlagsAreEvidence ==
  past # <<>> /\ past[Len(past)].at = clock =>
    verdict.flags = UNION {Shown(i) : i \in {j \in DOMAIN past : Recent(j)}}
=============================================================================
