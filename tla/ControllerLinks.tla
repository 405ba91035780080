-------------------------- MODULE ControllerLinks --------------------------
(***************************************************************************)
(* ControllerCorrelator: every ten seconds controllers are paired with     *)
(* UAVs.  The links live in a map of the state manager, and each side's    *)
(* drone carries the name of the other; detections, silence and deletions  *)
(* go on while a pass is under way.                                        *)
(***************************************************************************)
EXTENDS Naturals, FiniteSets

CONSTANTS
  Remotes, UAVs,
  Evidence,     \* what scoreLink may find for a pair, see scoreLink
  MaxPasses     \* bound on passes that do any work

\* No drone has the empty identifier.
ASSUME PairAssumption == "" \notin UAVs

VARIABLES
  heard,       \* drones: "absent" from the state, "active", or "silent" for a minute
  linkedUAV,   \* Drone.LinkedUAVID of each controller
  linkedCtrl,  \* Drone.LinkedControllerID of each UAV
  links,       \* controllerLinks
  pass,        \* the pass under way
  passes

pairVars == <<heard, linkedUAV, linkedCtrl, links, pass, passes>>

Nobody == ""
Unlinked == [uav |-> Nobody, confidence |-> 0]
Waiting(of) == [at |-> "waiting", of |-> of]

-----------------------------------------------------------------------------
\* UpdateDrone: a drone the state did not hold comes without links.
Hear(d) ==
  /\ heard[d] # "active"
  /\ heard' = [heard EXCEPT ![d] = "active"]
  /\ UNCHANGED <<linkedUAV, linkedCtrl, links, pass, passes>>

Silence(d) ==
  /\ heard[d] = "active"
  /\ heard' = [heard EXCEPT ![d] = "silent"]
  /\ UNCHANGED <<linkedUAV, linkedCtrl, links, pass, passes>>

\* DeleteDrone and eviction know nothing of controllerLinks.
DeleteHeard(d) ==
  /\ heard[d] # "absent"
  /\ heard' = [heard EXCEPT ![d] = "absent"]
  /\ linkedUAV' = IF d \in Remotes THEN [linkedUAV EXCEPT ![d] = Nobody] ELSE linkedUAV
  /\ linkedCtrl' = IF d \in UAVs THEN [linkedCtrl EXCEPT ![d] = Nobody] ELSE linkedCtrl
  /\ UNCHANGED <<links, pass, passes>>

\* In hundredths, for a pair of one manufacturer.
scoreLink(e) ==
  IF ~e.sameMaker THEN 0
  ELSE 25 + (IF e.sameTap THEN 20 ELSE 0) + (IF e.bothRecent THEN 15 ELSE 0)
          + (CASE e.operator = "close" -> 30
               [] e.operator \in {"near", "ranged"} -> 10
               [] OTHER -> 0)

\* GetAllDrones, and the score of every pair of those heard within the minute.
Snapshot ==
  LET ctrls == {c \in Remotes : heard[c] = "active"}
      uavs == {u \in UAVs : heard[u] = "active"}
  IN /\ pass.at = "waiting" /\ passes < MaxPasses
     /\ ctrls # {} /\ uavs # {}
     /\ \E found \in [ctrls \X uavs -> Evidence] :
          pass' = [at |-> "claim", of |-> ctrls, claimed |-> {},
                   score |-> [p \in {q \in ctrls \X uavs : scoreLink(found[q]) >= 40} |->
                                scoreLink(found[p])]]
     /\ passes' = passes + 1
     /\ UNCHANGED <<heard, linkedUAV, linkedCtrl, links>>

Claimable_AnyUAV == {p \in DOMAIN pass.score : \A q \in pass.claimed : p[1] # q[1]}

\* Candidates neither side of which is claimed.
Claimable == {p \in DOMAIN pass.score : \A q \in pass.claimed : p[1] # q[1] /\ p[2] # q[2]}

\* The best candidate left.  A link to the same UAV that scored no worse stays as it is.
Claim ==
  /\ pass.at = "claim"
  /\ \E p \in Claimable :
       LET old == links[p[1]]
           kept == old.uav = p[2] /\ pass.score[p] <= old.confidence
       IN /\ \A q \in Claimable : pass.score[q] <= pass.score[p]
          /\ links' = IF kept THEN links
                      ELSE [links EXCEPT ![p[1]] = [uav |-> p[2], confidence |-> pass.score[p]]]
          /\ pass' = [at |-> IF kept THEN "claim" ELSE "controller", of |-> pass.of,
                      claimed |-> pass.claimed \union {p}, score |-> pass.score, pair |-> p]
  /\ UNCHANGED <<heard, linkedUAV, linkedCtrl, passes>>

\* updateDroneField: only a drone that is still there.
NameUAV ==
  /\ pass.at = "controller"
  /\ linkedUAV' = IF heard[pass.pair[1]] = "absent" THEN linkedUAV
                  ELSE [linkedUAV EXCEPT ![pass.pair[1]] = pass.pair[2]]
  /\ pass' = [pass EXCEPT !.at = "uav"]
  /\ UNCHANGED <<heard, linkedCtrl, links, passes>>

NameController ==
  /\ pass.at = "uav"
  /\ linkedCtrl' = IF heard[pass.pair[2]] = "absent" THEN linkedCtrl
                   ELSE [linkedCtrl EXCEPT ![pass.pair[2]] = pass.pair[1]]
  /\ pass' = [pass EXCEPT !.at = "claim"]
  /\ UNCHANGED <<heard, linkedUAV, links, passes>>

Unmatched == {c \in pass.of : links[c] # Unlinked /\ \A p \in pass.claimed : p[1] # c}

\* Controllers of the pass that got nothing lose the link they had.
RemoveControllerLink ==
  /\ pass.at = "claim" /\ Claimable = {}
  /\ \E c \in Unmatched :
       /\ links' = [links EXCEPT ![c] = Unlinked]
       /\ pass' = [at |-> "clear", of |-> pass.of, claimed |-> pass.claimed,
                   score |-> pass.score, pair |-> <<c, Nobody>>]
  /\ UNCHANGED <<heard, linkedUAV, linkedCtrl, passes>>

ClearField_Kept == UNCHANGED linkedUAV

ClearField == linkedUAV' = [linkedUAV EXCEPT ![pass.pair[1]] = Nobody]

ForgetUAV ==
  /\ pass.at = "clear"
  /\ ClearField
  /\ pass' = [pass EXCEPT !.at = "claim"]
  /\ UNCHANGED <<heard, linkedCtrl, links, passes>>

EndPass ==
  /\ pass.at = "claim" /\ Claimable = {} /\ Unmatched = {}
  /\ pass' = Waiting(pass.of)
  /\ UNCHANGED <<heard, linkedUAV, linkedCtrl, links, passes>>

PairInit ==
  /\ heard = [d \in Remotes \union UAVs |-> "absent"]
  /\ linkedUAV = [c \in Remotes |-> Nobody]
  /\ linkedCtrl = [u \in UAVs |-> Nobody]
  /\ links = [c \in Remotes |-> Unlinked]
  /\ pass = Waiting({}) /\ passes = 0

PairNext ==
  \/ \E d \in Remotes \union UAVs : Hear(d) \/ Silence(d) \/ DeleteHeard(d)
  \/ Snapshot \/ Claim \/ NameUAV \/ NameController
  \/ RemoveControllerLink \/ ForgetUAV \/ EndPass

PairSpec == PairInit /\ [][PairNext]_pairVars

-----------------------------------------------------------------------------
\* correlate (controller_link.go): between passes a controller names a UAV only when
\* the map links it to that one, and no two controllers of the last pass are linked
\* to one UAV, although drones come, go and come back during the pass.
ControllersTrue ==
  pass.at = "waiting" =>
    /\ \A c \in Remotes : linkedUAV[c] # Nobody => links[c].uav = linkedUAV[c]
    /\ \A c, b \in pass.of : c # b /\ links[c] # Unlinked => links[c].uav # links[b].uav
=============================================================================
