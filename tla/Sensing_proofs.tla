--------------------------- MODULE Sensing_proofs ---------------------------
(***************************************************************************)
(* Track numbers stay with one drone across restarts, as long as           *)
(* GetMaxTrackNumber does not fail; after every pass the controllers and   *)
(* the link map agree; and what was dismissed is not tracked again: for    *)
(* any number of drones, jobs, controllers, UAVs, MACs, passes, restarts   *)
(* and failures.                                                           *)
(*                                                                         *)
(* OneHolder alone is not inductive: a new number is unheld only because   *)
(* the counter is ahead of every number held (CounterAhead), and a start   *)
(* may forget the counter only because a process that is down has neither  *)
(* drones nor jobs (DownIsEmpty), so that the rows are all there is.       *)
(*                                                                         *)
(* ControllersTrue speaks of the moments between passes only.  What makes  *)
(* it inductive is what a pass keeps up while it runs: the pairs claimed   *)
(* so far are one-to-one and in the map (ClaimsLinked), and a controller   *)
(* names a UAV the map does not only while the pass is about to change     *)
(* that name (NamesFollow), which relies on a drone that is gone naming    *)
(* none (AbsentNamesNone).                                                 *)
(*                                                                         *)
(* DismissedStays follows what a "no" from before the dismissal can do.    *)
(* It may be on its way to the cache (NoWasTrue), in the cache, where it   *)
(* is at most a tick younger than the dismissal (CacheNotAhead), or with a *)
(* detection that read it there (ReadInTime); each bounds the next.        *)
(***************************************************************************)
EXTENDS ControllerLinks, FalsePositives, TrackStore, TLAPS

-----------------------------------------------------------------------------
(* Controllers and UAVs.                                                   *)

Pairs == Remotes \X UAVs
Link == [uav : UAVs \cup {Nobody}, confidence : Nat]

\* The pass has the fields its step works with.
PassOK ==
  /\ pass.at \in {"waiting", "claim", "controller", "uav", "clear"}
  /\ pass.of \subseteq Remotes
  /\ pass.at # "waiting" =>
       /\ pass.claimed \subseteq Pairs
       /\ DOMAIN pass.score \subseteq Pairs
       /\ \A p \in DOMAIN pass.score : pass.score[p] \in Nat
  /\ pass.at \in {"controller", "uav"} => pass.pair \in pass.claimed
  /\ pass.at = "clear" => pass.pair[1] \in Remotes
  /\ pass.at \in {"controller", "uav", "clear"} =>
       pass = [at |-> pass.at, of |-> pass.of, claimed |-> pass.claimed,
               score |-> pass.score, pair |-> pass.pair]

PairTyped ==
  /\ heard \in [Remotes \cup UAVs -> {"absent", "active", "silent"}]
  /\ linkedUAV \in [Remotes -> UAVs \cup {Nobody}]
  /\ links \in [Remotes -> Link]
  /\ PassOK

\* Pairs of the pass are one-to-one, and in the map.
ClaimsLinked ==
  pass.at # "waiting" =>
    /\ \A p \in pass.claimed : links[p[1]].uav = p[2]
    /\ \A p, q \in pass.claimed : p # q => p[1] # q[1] /\ p[2] # q[2]

\* A name differs from the map only where the pass is about to write it.
NamesFollow ==
  \A c \in Remotes :
    linkedUAV[c] # Nobody /\ links[c].uav # linkedUAV[c] =>
      pass.at \in {"controller", "clear"} /\ pass.pair[1] = c

AbsentNamesNone == \A c \in Remotes : heard[c] = "absent" => linkedUAV[c] = Nobody

\* Between passes: controllers of the last one have UAVs of their own.
OwnUAVs ==
  pass.at = "waiting" =>
    \A c, b \in pass.of : c # b /\ links[c] # Unlinked => links[c].uav # links[b].uav

PairInv == PairTyped /\ ClaimsLinked /\ NamesFollow /\ AbsentNamesNone /\ OwnUAVs

\* No controller is linked at the start.
LEMMA PairInitially == PairInit => PairInv
<1> SUFFICES ASSUME PairInit PROVE PairInv
  OBVIOUS
<1>1. pass.at = "waiting" /\ pass.of = {}
  BY DEF PairInit, Waiting
<1>2. /\ heard \in [Remotes \cup UAVs -> {"absent", "active", "silent"}]
      /\ linkedUAV \in [Remotes -> UAVs \cup {Nobody}]
      /\ \A c \in Remotes : linkedUAV[c] = Nobody
  BY DEF PairInit
<1>3. links \in [Remotes -> Link]
  BY DEF PairInit, Link, Unlinked
<1> QED
  BY <1>1, <1>2, <1>3 DEF PairInv, PairTyped, PassOK, ClaimsLinked, NamesFollow,
      AbsentNamesNone, OwnUAVs

\* A drone heard, silent or deleted leaves the map and the pass alone.
LEMMA DronesKeep ==
  ASSUME PairInv, NEW d \in Remotes \cup UAVs, Hear(d) \/ Silence(d) \/ DeleteHeard(d)
  PROVE  PairInv'
<1>1. UNCHANGED <<links, pass>>
  BY DEF Hear, Silence, DeleteHeard
<1>2. heard' \in [Remotes \cup UAVs -> {"absent", "active", "silent"}]
  BY DEF PairInv, PairTyped, Hear, Silence, DeleteHeard
<1>3. /\ linkedUAV' \in [Remotes -> UAVs \cup {Nobody}]
      /\ \A c \in Remotes : linkedUAV'[c] = linkedUAV[c] \/ linkedUAV'[c] = Nobody
  BY DEF PairInv, PairTyped, Hear, Silence, DeleteHeard
<1>4. AbsentNamesNone'
  BY DEF PairInv, PairTyped, Hear, Silence, DeleteHeard, AbsentNamesNone
<1>5. PairTyped' /\ ClaimsLinked' /\ OwnUAVs'
  BY <1>1, <1>2, <1>3 DEF PairInv, PairTyped, PassOK, ClaimsLinked, OwnUAVs
<1>6. NamesFollow'
  BY <1>1, <1>3 DEF PairInv, NamesFollow
<1> QED
  BY <1>4, <1>5, <1>6 DEF PairInv

\* A score is a number of hundredths.
LEMMA ScoreType == ASSUME NEW e PROVE scoreLink(e) \in Nat
<1>1. (CASE e.operator = "close" -> 30
         [] e.operator \in {"near", "ranged"} -> 10
         [] OTHER -> 0) \in Nat
  OBVIOUS
<1> QED
  BY <1>1 DEF scoreLink

\* The pass looks at the drones and assigns, and changes no drone yet.
LEMMA SnapshotKeeps == ASSUME PairInv, Snapshot PROVE PairInv'
<1>1. UNCHANGED <<heard, linkedUAV, linkedCtrl, links>>
  BY DEF Snapshot
<1>2. /\ pass'.at = "claim" /\ pass'.claimed = {}
      /\ pass'.of \subseteq Remotes
      /\ DOMAIN pass'.score \subseteq Pairs
      /\ \A p \in DOMAIN pass'.score : pass'.score[p] \in Nat
  <2> DEFINE C == {c \in Remotes : heard[c] = "active"}
             U == {u \in UAVs : heard[u] = "active"}
  <2>1. PICK found \in [C \X U -> Evidence] :
          pass' = [at |-> "claim", of |-> C, claimed |-> {},
                   score |-> [p \in {q \in C \X U : scoreLink(found[q]) >= 40} |->
                                scoreLink(found[p])]]
    BY Zenon DEF Snapshot
  <2>2. C \subseteq Remotes /\ C \X U \subseteq Pairs
    BY DEF Pairs
  <2> HIDE DEF C, U
  <2> QED
    BY <2>1, <2>2, ScoreType
<1>3. PairTyped'
  BY <1>1, <1>2 DEF PairInv, PairTyped, PassOK
<1>4. pass.at = "waiting"
  BY DEF Snapshot
<1> QED
  BY <1>1, <1>2, <1>3, <1>4 DEF PairInv, ClaimsLinked, NamesFollow, AbsentNamesNone, OwnUAVs

\* A claim enters a pair neither side of which is claimed.
LEMMA ClaimKeeps == ASSUME PairInv, Claim PROVE PairInv'
<1>1. PICK p \in Claimable :
        LET old == links[p[1]]
            kept == old.uav = p[2] /\ pass.score[p] <= old.confidence
        IN /\ links' = IF kept THEN links
                       ELSE [links EXCEPT ![p[1]] = [uav |-> p[2], confidence |-> pass.score[p]]]
           /\ pass' = [at |-> IF kept THEN "claim" ELSE "controller", of |-> pass.of,
                       claimed |-> pass.claimed \union {p}, score |-> pass.score, pair |-> p]
  BY Zenon DEF Claim
<1> DEFINE kept == links[p[1]].uav = p[2] /\ pass.score[p] <= links[p[1]].confidence
<1>2. /\ pass.at = "claim" /\ UNCHANGED <<heard, linkedUAV, linkedCtrl>>
      /\ pass.claimed \subseteq Pairs /\ DOMAIN pass.score \subseteq Pairs
  BY DEF Claim, PairInv, PairTyped, PassOK
<1>3. /\ p \in Pairs /\ p[1] \in Remotes /\ p[2] \in UAVs
      /\ pass.score[p] \in Nat
      /\ \A q \in pass.claimed : p[1] # q[1] /\ p[2] # q[2]
  BY <1>2 DEF Claimable, Pairs, PairInv, PairTyped, PassOK
<1>4. /\ links' \in [Remotes -> Link]
      /\ links'[p[1]].uav = p[2]
      /\ \A c \in Remotes : c # p[1] => links'[c] = links[c]
  BY <1>1, <1>3 DEF PairInv, PairTyped, Link
<1>5. /\ pass'.at = (IF kept THEN "claim" ELSE "controller")
      /\ pass'.of = pass.of /\ pass'.score = pass.score /\ pass'.pair = p
      /\ pass'.claimed = pass.claimed \cup {p}
  BY <1>1
<1>6. PassOK'
  <2>1. pass' = [at |-> pass'.at, of |-> pass'.of, claimed |-> pass'.claimed,
                 score |-> pass'.score, pair |-> pass'.pair]
    BY <1>1
  <2> HIDE DEF kept
  <2> QED
    BY <2>1, <1>2, <1>3, <1>5 DEF PairInv, PairTyped, PassOK
<1>7. PairTyped'
  BY <1>2, <1>4, <1>6 DEF PairInv, PairTyped
<1>8. ClaimsLinked'
  BY <1>2, <1>3, <1>4, <1>5 DEF PairInv, ClaimsLinked, Pairs
<1>9. NamesFollow'
  <2>1. CASE kept
    <3>1. links' = links
      BY <1>1, <2>1
    <3> QED
      BY <3>1, <1>2 DEF PairInv, NamesFollow
  <2>2. CASE ~kept
    BY <2>2, <1>2, <1>3, <1>4, <1>5 DEF PairInv, NamesFollow
  <2> QED
    BY <2>1, <2>2
<1>10. AbsentNamesNone' /\ OwnUAVs'
  BY <1>2, <1>5 DEF PairInv, AbsentNamesNone, OwnUAVs
<1> QED
  BY <1>7, <1>8, <1>9, <1>10 DEF PairInv

\* The controller is given the name that is in the map, unless it is gone.
LEMMA NameUAVKeeps == ASSUME PairInv, NameUAV PROVE PairInv'
<1>1. /\ pass.at = "controller" /\ UNCHANGED <<heard, linkedCtrl, links>>
      /\ pass.pair \in pass.claimed /\ pass.pair \in Pairs
      /\ pass.pair[1] \in Remotes /\ pass.pair[2] \in UAVs
      /\ links[pass.pair[1]].uav = pass.pair[2]
  BY DEF NameUAV, PairInv, PairTyped, PassOK, ClaimsLinked, Pairs
<1>2. /\ pass' = [at |-> "uav", of |-> pass.of, claimed |-> pass.claimed,
                  score |-> pass.score, pair |-> pass.pair]
  BY <1>1 DEF NameUAV, PairInv, PairTyped, PassOK
<1>3. /\ linkedUAV' \in [Remotes -> UAVs \cup {Nobody}]
      /\ linkedUAV'[pass.pair[1]] = IF heard[pass.pair[1]] = "absent" THEN Nobody ELSE pass.pair[2]
      /\ \A c \in Remotes : c # pass.pair[1] => linkedUAV'[c] = linkedUAV[c]
  BY <1>1 DEF NameUAV, PairInv, PairTyped, AbsentNamesNone
<1>4. PassOK'
  BY <1>1, <1>2 DEF PairInv, PairTyped, PassOK
<1>5. PairTyped' /\ ClaimsLinked' /\ OwnUAVs'
  BY <1>1, <1>2, <1>3, <1>4 DEF PairInv, PairTyped, ClaimsLinked, OwnUAVs
<1>6. NamesFollow' /\ AbsentNamesNone'
  BY <1>1, <1>2, <1>3 DEF PairInv, NamesFollow, AbsentNamesNone
<1> QED
  BY <1>5, <1>6 DEF PairInv

\* The second field of a pair names the controller.
LEMMA NameControllerKeeps == ASSUME PairInv, NameController PROVE PairInv'
<1>1. /\ pass.at = "uav" /\ UNCHANGED <<heard, linkedUAV, links>>
  BY DEF NameController
<1>2. /\ pass' = [at |-> "claim", of |-> pass.of, claimed |-> pass.claimed,
                  score |-> pass.score, pair |-> pass.pair]
  BY <1>1 DEF NameController, PairInv, PairTyped, PassOK
<1> QED
  BY <1>1, <1>2 DEF PairInv, PairTyped, PassOK, ClaimsLinked, NamesFollow, AbsentNamesNone,
      OwnUAVs

\* What is removed was not claimed.
LEMMA RemoveKeeps == ASSUME PairInv, RemoveControllerLink PROVE PairInv'
<1>1. PICK c \in Unmatched :
        /\ links' = [links EXCEPT ![c] = Unlinked]
        /\ pass' = [at |-> "clear", of |-> pass.of, claimed |-> pass.claimed,
                    score |-> pass.score, pair |-> <<c, Nobody>>]
  BY Zenon DEF RemoveControllerLink
<1>2. /\ pass.at = "claim" /\ UNCHANGED <<heard, linkedUAV, linkedCtrl>>
      /\ c \in Remotes
      /\ pass.claimed \subseteq Pairs
      /\ \A p \in pass.claimed : p[1] # c /\ p[1] \in Remotes
  BY DEF RemoveControllerLink, Unmatched, PairInv, PairTyped, PassOK, Pairs
<1>3. /\ links' \in [Remotes -> Link]
      /\ \A b \in Remotes : b # c => links'[b] = links[b]
  BY <1>1, <1>2 DEF PairInv, PairTyped, Link, Unlinked
<1>4. PassOK'
  BY <1>1, <1>2 DEF PairInv, PairTyped, PassOK
<1>5. PairTyped' /\ ClaimsLinked' /\ OwnUAVs' /\ AbsentNamesNone'
  BY <1>1, <1>2, <1>3, <1>4 DEF PairInv, PairTyped, ClaimsLinked, OwnUAVs, AbsentNamesNone
<1>6. NamesFollow'
  BY <1>1, <1>2, <1>3 DEF PairInv, NamesFollow
<1> QED
  BY <1>5, <1>6 DEF PairInv

\* The UAV of a removed link forgets its controller.
LEMMA ForgetKeeps == ASSUME PairInv, ForgetUAV PROVE PairInv'
<1>1. /\ pass.at = "clear" /\ UNCHANGED <<heard, linkedCtrl, links>>
      /\ pass.pair[1] \in Remotes
  BY DEF ForgetUAV, PairInv, PairTyped, PassOK
<1>2. /\ pass' = [at |-> "claim", of |-> pass.of, claimed |-> pass.claimed,
                  score |-> pass.score, pair |-> pass.pair]
  BY <1>1 DEF ForgetUAV, PairInv, PairTyped, PassOK
<1>3. /\ linkedUAV' \in [Remotes -> UAVs \cup {Nobody}]
      /\ linkedUAV'[pass.pair[1]] = Nobody
      /\ \A c \in Remotes : c # pass.pair[1] => linkedUAV'[c] = linkedUAV[c]
  BY <1>1 DEF ForgetUAV, ClearField, PairInv, PairTyped
<1>4. PairTyped' /\ ClaimsLinked' /\ OwnUAVs'
  BY <1>1, <1>2, <1>3 DEF PairInv, PairTyped, PassOK, ClaimsLinked, OwnUAVs
<1>5. NamesFollow' /\ AbsentNamesNone'
  BY <1>1, <1>2, <1>3 DEF PairInv, NamesFollow, AbsentNamesNone
<1> QED
  BY <1>4, <1>5 DEF PairInv

\* At the end every controller of the pass is claimed or has no link.
LEMMA EndPassKeeps == ASSUME Nobody \notin UAVs, PairInv, EndPass PROVE PairInv'
<1>1. /\ pass.at = "claim" /\ Unmatched = {} /\ UNCHANGED <<heard, linkedUAV, linkedCtrl, links>>
      /\ pass'.at = "waiting" /\ pass'.of = pass.of
      /\ pass.of \subseteq Remotes /\ pass.claimed \subseteq Pairs
  BY DEF EndPass, Waiting, PairInv, PairTyped, PassOK
<1>2. ASSUME NEW c \in pass.of, links[c] # Unlinked
      PROVE  \E p \in pass.claimed : p[1] = c /\ links[c].uav = p[2] /\ p[2] \in UAVs
  BY <1>1, <1>2 DEF Unmatched, PairInv, ClaimsLinked, Pairs
<1>3. ASSUME NEW c \in pass.of, NEW b \in pass.of, c # b, links[c] # Unlinked
      PROVE  links[c].uav # links[b].uav
  <2>1. CASE links[b] = Unlinked
    BY <1>2, <1>3, <2>1 DEF Unlinked
  <2>2. CASE links[b] # Unlinked
    BY <1>1, <1>2, <1>3, <2>2 DEF PairInv, ClaimsLinked
  <2> QED
    BY <2>1, <2>2
<1> QED
  BY <1>1, <1>3 DEF PairInv, PairTyped, PassOK, ClaimsLinked, NamesFollow, AbsentNamesNone,
      OwnUAVs

\* correlate (controller_link.go): between passes a controller names a UAV only when the
\* map links it to that one, and no two controllers of the last pass are linked to one
\* UAV, for any drones that come, go and come back; no drone has the empty identifier.
THEOREM LinksAgree == PairSpec => []ControllersTrue
<1>1. PairInv /\ [PairNext]_pairVars => PairInv'
  <2> SUFFICES ASSUME PairInv, [PairNext]_pairVars PROVE PairInv'
    OBVIOUS
  <2>1. CASE \E d \in Remotes \cup UAVs : Hear(d) \/ Silence(d) \/ DeleteHeard(d)
    BY <2>1, DronesKeep
  <2>2. CASE Snapshot
    BY <2>2, SnapshotKeeps
  <2>3. CASE Claim
    BY <2>3, ClaimKeeps
  <2>4. CASE NameUAV
    BY <2>4, NameUAVKeeps
  <2>5. CASE NameController
    BY <2>5, NameControllerKeeps
  <2>6. CASE RemoveControllerLink
    BY <2>6, RemoveKeeps
  <2>7. CASE ForgetUAV
    BY <2>7, ForgetKeeps
  <2>8. CASE EndPass
    BY <2>8, EndPassKeeps, PairAssumption, Zenon DEF Nobody
  <2>9. CASE UNCHANGED pairVars
    BY <2>9 DEF pairVars, PairInv, PairTyped, PassOK, ClaimsLinked, NamesFollow,
        AbsentNamesNone, OwnUAVs
  <2> QED
    BY <2>1, <2>2, <2>3, <2>4, <2>5, <2>6, <2>7, <2>8, <2>9 DEF PairNext
<1>2. PairInv => ControllersTrue
  BY DEF PairInv, NamesFollow, OwnUAVs, ControllersTrue
<1> QED
  BY PairInitially, <1>1, <1>2, PTL DEF PairSpec

\* The detection being handled has the fields its step works with.
SuspectOK ==
  /\ suspect.at \in {"idle", "cache", "query", "set", "track"}
  /\ suspect.at # "idle" =>
       /\ suspect.mac \in MACs
       /\ suspect.since \in Nat /\ suspect.since <= age /\ age <= suspect.since + 1
  /\ suspect.at \in {"cache", "query"} =>
       suspect = [at |-> suspect.at, mac |-> suspect.mac, since |-> suspect.since]
  /\ suspect.at = "set" => suspect.isFP \in {"0", "1"}
  /\ suspect.at = "track" => suspect.source \in {"cache", "table", "error"}

DismissalTyped ==
  /\ age \in Nat
  /\ fpRows \in [Keys -> Int] /\ \A k \in Keys : fpRows[k] >= NeverCached /\ fpRows[k] <= age
  /\ fpCache \in [Keys -> [value : {"none", "0", "1"}, at : Int]]
  /\ \A k \in Keys : fpCache[k].at <= age
  /\ begun \in [MACs -> [at : Int, source : {"none", "cache", "table", "error"}]]
  /\ \A m \in MACs : begun[m].at <= age
  /\ SuspectOK

\* A cached "no" was written at most a tick after the dismissal.
CacheNotAhead ==
  \A m \in MACs :
    Dismissed(m) # NeverCached /\ fpCache[m].value = "0" => fpCache[m].at <= Dismissed(m) + 1

\* A query that found nothing was asked for a detection from before the dismissal.
NoWasTrue ==
  suspect.at = "set" /\ suspect.isFP = "0" /\ Dismissed(suspect.mac) # NeverCached =>
    suspect.since <= Dismissed(suspect.mac)

\* A detection let through came while a "no" could still be in the cache.
ReadInTime ==
  suspect.at = "track" /\ suspect.source # "error" /\ Dismissed(suspect.mac) # NeverCached =>
    suspect.since <= Dismissed(suspect.mac) + CacheTTL + 1

DismissalInv == DismissalTyped /\ CacheNotAhead /\ NoWasTrue /\ ReadInTime /\ DismissedStays

-----------------------------------------------------------------------------
\* Dismissed is the earlier of the two rows.
LEMMA DismissedIs ==
  ASSUME DismissalTyped, NEW m \in MACs
  PROVE  /\ Dismissed(m) \in Int /\ Dismissed(m) >= NeverCached /\ Dismissed(m) <= age
         /\ Dismissed(m) = NeverCached <=> fpRows[m] = NeverCached /\ fpRows[Prefix] = NeverCached
BY DEF DismissalTyped, Dismissed, Keys, NeverCached

\* A MAC that was dismissed stays dismissed since the same time; one that is dismissed
\* by a step is dismissed now.
LEMMA DismissedFixed ==
  ASSUME DismissalTyped, NEW k \in Keys, Dismiss(k), NEW m \in MACs
  PROVE  Dismissed(m)' = Dismissed(m) \/ (Dismissed(m) = NeverCached /\ Dismissed(m)' = age)
<1>1. fpRows' = [fpRows EXCEPT ![k] = age] \/ fpRows' = fpRows
  BY DEF Dismiss
<1>2. fpRows[k] = NeverCached
  BY DEF Dismiss
<1>3. /\ fpRows[m] \in Int /\ fpRows[m] >= NeverCached /\ fpRows[m] <= age
      /\ fpRows[Prefix] \in Int /\ fpRows[Prefix] >= NeverCached /\ fpRows[Prefix] <= age
      /\ age \in Nat /\ m \in Keys /\ Prefix \in Keys
  BY DEF DismissalTyped, Keys
<1>4. CASE fpRows' = fpRows
  BY <1>4 DEF Dismissed
<1>5. CASE fpRows' = [fpRows EXCEPT ![k] = age]
  <2>1. /\ fpRows'[m] = IF m = k THEN age ELSE fpRows[m]
        /\ fpRows'[Prefix] = IF Prefix = k THEN age ELSE fpRows[Prefix]
    BY <1>3, <1>5 DEF DismissalTyped
  <2>2. NeverCached \in Int /\ age # NeverCached
    BY <1>3 DEF NeverCached
  <2> QED
    BY <1>2, <1>3, <2>1, <2>2 DEF Dismissed
<1> QED
  BY <1>1, <1>4, <1>5

\* Nothing is dismissed, cached or tracked at the start.
LEMMA DismissalInitially == DismissalInit => DismissalInv
<1> SUFFICES ASSUME DismissalInit PROVE DismissalInv
  OBVIOUS
<1>1. SuspectOK
  BY DEF DismissalInit, SuspectOK, NoSuspect
<1>2. /\ fpCache \in [Keys -> [value : {"none", "0", "1"}, at : Int]]
      /\ \A k \in Keys : fpCache[k].at = NeverCached
  BY DEF DismissalInit, NoEntry, NeverCached
<1>3. /\ begun \in [MACs -> [at : Int, source : {"none", "cache", "table", "error"}]]
      /\ \A m \in MACs : begun[m].at = NeverCached
  BY DEF DismissalInit, NeverCached
<1>4. DismissalTyped
  BY <1>1, <1>2, <1>3 DEF DismissalInit, DismissalTyped, NeverCached
<1>5. \A m \in MACs : Dismissed(m) = NeverCached
  BY DEF DismissalInit, Dismissed, Keys
<1>6. suspect.at = "idle"
  BY SMTT(30) DEF DismissalInit, NoSuspect
<1> QED
  BY <1>4, <1>5, <1>6 DEF DismissalInv, CacheNotAhead, NoWasTrue, ReadInTime, DismissedStays

\* A detection is handled from now on.
LEMMA HandleKeeps ==
  ASSUME CacheTTL \in Nat, DismissalInv, NEW m \in MACs, handleSuspectDetection(m)
  PROVE  DismissalInv'
<1>1. /\ UNCHANGED <<fpRows, fpCache, begun, age>>
      /\ suspect' = [at |-> "cache", mac |-> m, since |-> age]
  BY DEF handleSuspectDetection
<1>2. DismissalTyped'
  BY <1>1 DEF DismissalInv, DismissalTyped, SuspectOK
<1> QED
  BY <1>1, <1>2 DEF DismissalInv, CacheNotAhead, NoWasTrue, ReadInTime, DismissedStays,
      Dismissed

\* What a look into the cache leads to.
LEMMA ReadCacheKeeps == ASSUME CacheTTL \in Nat, DismissalInv, ReadCache PROVE DismissalInv'
<1> DEFINE m == suspect.mac
<1>1. /\ UNCHANGED <<fpRows, fpCache, begun, age>>
      /\ suspect.at = "cache" /\ m \in MACs /\ m \in Keys
      /\ suspect.since \in Nat /\ suspect.since <= age /\ age <= suspect.since + 1
      /\ suspect = [at |-> "cache", mac |-> m, since |-> suspect.since]
  BY DEF ReadCache, DismissalInv, DismissalTyped, SuspectOK, Keys
<1>2. \/ suspect' = NoSuspect
      \/ suspect' = [at |-> "query", mac |-> m, since |-> suspect.since]
      \/ /\ Entry(m) # "none" /\ Entry(m) # "1"
         /\ suspect' = [at |-> "track", mac |-> m, since |-> suspect.since, source |-> "cache"]
  BY <1>1 DEF ReadCache, Decided
<1>3. ASSUME Entry(m) # "none", Entry(m) # "1"
      PROVE  fpCache[m].value = "0" /\ age - fpCache[m].at <= CacheTTL
  BY <1>1, <1>3 DEF Entry, DismissalInv, DismissalTyped
<1>4. DismissalTyped'
  BY <1>1, <1>2 DEF DismissalInv, DismissalTyped, SuspectOK, NoSuspect
<1>5. CacheNotAhead' /\ DismissedStays'
  BY <1>1 DEF DismissalInv, CacheNotAhead, DismissedStays, Dismissed
<1>6. NoWasTrue'
  BY <1>2 DEF NoWasTrue, NoSuspect
<1>7. ReadInTime'
  <2> SUFFICES ASSUME suspect'.at = "track", Dismissed(suspect.mac)' # NeverCached
               PROVE  suspect'.since <= Dismissed(suspect.mac)' + CacheTTL + 1
    BY DEF ReadInTime
  <2>1. suspect'.mac = m /\ suspect'.since = suspect.since /\ Entry(m) # "none" /\ Entry(m) # "1"
    BY <1>2 DEF NoSuspect
  <2>2. Dismissed(suspect.mac)' = Dismissed(m)
    BY <1>1, <2>1 DEF Dismissed
  <2>3. /\ fpCache[m].at <= Dismissed(m) + 1 /\ Dismissed(m) \in Int
        /\ fpCache[m].at \in Int /\ age - fpCache[m].at <= CacheTTL /\ age \in Nat
    BY <1>1, <1>3, <2>1, <2>2, DismissedIs DEF DismissalInv, CacheNotAhead, DismissalTyped
  <2> QED
    BY <1>1, <2>1, <2>2, <2>3
<1> QED
  BY <1>4, <1>5, <1>6, <1>7 DEF DismissalInv

\* A query that finds nothing is asked before any dismissal.
LEMMA QueryKeeps == ASSUME CacheTTL \in Nat, DismissalInv, Query PROVE DismissalInv'
<1> DEFINE m == suspect.mac
<1>1. /\ UNCHANGED <<fpRows, fpCache, begun, age>>
      /\ suspect.at = "query" /\ m \in MACs
      /\ suspect.since \in Nat /\ suspect.since <= age /\ age <= suspect.since + 1
  BY DEF Query, CachedOnError, DismissalInv, DismissalTyped, SuspectOK
<1>2. \/ suspect' = [at |-> "set", mac |-> m, since |-> suspect.since, isFP |-> Found]
      \/ suspect' = [at |-> "track", mac |-> m, since |-> suspect.since, source |-> "error"]
  BY DEF Query, Decided
<1>3. DismissalTyped'
  <2>1. Found \in {"0", "1"}
    BY DEF Found
  <2> QED
    BY <1>1, <1>2, <2>1 DEF DismissalInv, DismissalTyped, SuspectOK
<1>4. CacheNotAhead' /\ DismissedStays'
  BY <1>1 DEF DismissalInv, CacheNotAhead, DismissedStays, Dismissed
<1>5. ReadInTime'
  BY <1>2 DEF ReadInTime
<1>6. NoWasTrue'
  <2> SUFFICES ASSUME suspect'.at = "set", suspect'.isFP = "0" PROVE Dismissed(suspect.mac)' = NeverCached
    BY DEF NoWasTrue
  <2>1. suspect'.mac = m /\ Found = "0"
    BY <1>2
  <2>2. Dismissed(m) = NeverCached
    BY <1>1, <2>1, DismissedIs DEF DismissalInv, Found
  <2> QED
    BY <1>1, <2>1, <2>2 DEF Dismissed
<1> QED
  BY <1>3, <1>4, <1>5, <1>6 DEF DismissalInv

\* The answer of the query reaches the cache at most a tick later.
LEMMA SetCacheKeeps == ASSUME CacheTTL \in Nat, DismissalInv, SetCache PROVE DismissalInv'
<1> DEFINE m == suspect.mac
<1>1. /\ UNCHANGED <<fpRows, begun, age>>
      /\ suspect.at = "set" /\ m \in MACs /\ m \in Keys /\ suspect.isFP \in {"0", "1"}
      /\ suspect.since \in Nat /\ suspect.since <= age /\ age <= suspect.since + 1
  BY DEF SetCache, DismissalInv, DismissalTyped, SuspectOK, Keys
<1>2. fpCache' = fpCache \/ fpCache' = [fpCache EXCEPT ![m] = [value |-> suspect.isFP, at |-> age]]
  BY DEF SetCache
<1>3. \/ suspect' = NoSuspect
      \/ /\ suspect.isFP = "0"
         /\ suspect' = [at |-> "track", mac |-> m, since |-> suspect.since, source |-> "table"]
  BY <1>1 DEF SetCache, Decided
<1>4. \A n \in MACs : Dismissed(n)' = Dismissed(n) /\ Dismissed(n) \in Int
  BY <1>1, DismissedIs DEF Dismissed, DismissalInv
<1>5. /\ fpCache' \in [Keys -> [value : {"none", "0", "1"}, at : Int]]
      /\ \A k \in Keys : fpCache'[k].at <= age
  BY <1>1, <1>2 DEF DismissalInv, DismissalTyped
<1>6. SuspectOK'
  BY <1>1, <1>3 DEF SuspectOK, NoSuspect
<1>7. DismissalTyped'
  BY <1>1, <1>5, <1>6 DEF DismissalInv, DismissalTyped
<1>8. CacheNotAhead'
  <2> SUFFICES ASSUME NEW n \in MACs, Dismissed(n) # NeverCached, fpCache'[n].value = "0"
               PROVE  fpCache'[n].at <= Dismissed(n) + 1
    BY <1>4 DEF CacheNotAhead
  <2>1. CASE fpCache'[n] = fpCache[n]
    BY <2>1 DEF DismissalInv, CacheNotAhead
  <2>2. CASE fpCache'[n] # fpCache[n]
    <3>1. n = m /\ fpCache'[n].at = age /\ suspect.isFP = "0"
      BY <1>1, <1>2, <2>2 DEF DismissalInv, DismissalTyped, Keys
    <3>2. suspect.since <= Dismissed(n)
      BY <1>1, <3>1 DEF DismissalInv, NoWasTrue
    <3> QED
      BY <1>1, <1>4, <3>1, <3>2 DEF DismissalInv, DismissalTyped
  <2> QED
    BY <2>1, <2>2
<1>9. NoWasTrue'
  BY <1>3 DEF NoWasTrue, NoSuspect
<1>10. ReadInTime'
  <2> SUFFICES ASSUME suspect'.at = "track", Dismissed(suspect.mac)' # NeverCached
               PROVE  suspect'.since <= Dismissed(suspect.mac)' + CacheTTL + 1
    BY DEF ReadInTime
  <2>1. suspect'.mac = m /\ suspect'.since = suspect.since /\ suspect.isFP = "0"
    BY <1>3 DEF NoSuspect
  <2>2. Dismissed(suspect.mac)' = Dismissed(m)
    BY <1>1, <2>1 DEF Dismissed
  <2>3. suspect.since <= Dismissed(m)
    BY <1>1, <2>1, <2>2 DEF DismissalInv, NoWasTrue
  <2> QED
    BY <1>1, <1>4, <2>1, <2>2, <2>3
<1>11. DismissedStays'
  BY <1>1, <1>4 DEF DismissalInv, DismissedStays
<1> QED
  BY <1>7, <1>8, <1>9, <1>10, <1>11 DEF DismissalInv

\* Tracking begins at most a tick after the detection came.
LEMMA TrackKeeps == ASSUME CacheTTL \in Nat, DismissalInv, TrackMAC PROVE DismissalInv'
<1> DEFINE m == suspect.mac
<1>1. /\ UNCHANGED <<fpRows, fpCache, age>> /\ suspect' = NoSuspect
      /\ suspect.at = "track" /\ m \in MACs /\ suspect.source \in {"cache", "table", "error"}
      /\ suspect.since \in Nat /\ suspect.since <= age /\ age <= suspect.since + 1 /\ age \in Nat
      /\ begun' = [begun EXCEPT ![m] = [at |-> age, source |-> suspect.source]]
  BY Zenon DEF TrackMAC, DismissalInv, DismissalTyped, SuspectOK
<1>2. \A n \in MACs : Dismissed(n)' = Dismissed(n) /\ Dismissed(n) \in Int
  BY <1>1, DismissedIs, Zenon DEF Dismissed, DismissalInv
<1>3. SuspectOK' /\ NoWasTrue' /\ ReadInTime'
  BY <1>1 DEF SuspectOK, NoWasTrue, ReadInTime, NoSuspect
<1>4. /\ begun' \in [MACs -> [at : Int, source : {"none", "cache", "table", "error"}]]
      /\ \A n \in MACs : begun'[n].at <= age
  BY <1>1 DEF DismissalInv, DismissalTyped
<1>5. DismissalTyped'
  BY <1>1, <1>3, <1>4, Zenon DEF DismissalInv, DismissalTyped
<1>6. CacheNotAhead'
  BY <1>1, <1>2 DEF DismissalInv, CacheNotAhead
<1>7. DismissedStays'
  <2> SUFFICES ASSUME NEW n \in MACs, Dismissed(n) # NeverCached, begun'[n].source # "error"
               PROVE  begun'[n].at <= Dismissed(n) + CacheTTL + 2
    BY <1>2 DEF DismissedStays
  <2>1. CASE n = m
    <3>1. begun'[n].at = age /\ begun'[n].source = suspect.source
      BY <1>1, <2>1 DEF DismissalInv, DismissalTyped
    <3>2. suspect.since <= Dismissed(m) + CacheTTL + 1
      BY <1>1, <2>1, <3>1 DEF DismissalInv, ReadInTime
    <3> QED
      BY <1>1, <1>2, <2>1, <3>1, <3>2
  <2>2. CASE n # m
    BY <1>1, <2>2 DEF DismissalInv, DismissalTyped, DismissedStays
  <2> QED
    BY <2>1, <2>2
<1> QED
  BY <1>3, <1>5, <1>6, <1>7 DEF DismissalInv

\* Everything that happened so far happened before a dismissal made now.
LEMMA DismissKeeps == ASSUME CacheTTL \in Nat, DismissalInv, NEW k \in Keys, Dismiss(k) PROVE DismissalInv'
<1>1. UNCHANGED <<fpCache, suspect, begun, age>> /\ age \in Nat
  BY DEF Dismiss, DismissalInv, DismissalTyped
<1>2. /\ fpRows' \in [Keys -> Int]
      /\ \A j \in Keys : fpRows'[j] >= NeverCached /\ fpRows'[j] <= age
  BY DEF Dismiss, DismissalInv, DismissalTyped, NeverCached
<1>3. DismissalTyped'
  BY <1>1, <1>2 DEF DismissalInv, DismissalTyped, SuspectOK
<1>4. \A m \in MACs : Dismissed(m)' = Dismissed(m) \/ (Dismissed(m) = NeverCached /\ Dismissed(m)' = age)
  BY DismissedFixed DEF DismissalInv
<1>5. CacheNotAhead'
  BY <1>1, <1>4 DEF DismissalInv, DismissalTyped, Keys, CacheNotAhead
<1>6. NoWasTrue'
  <2>1. suspect.at = "set" => \/ Dismissed(suspect.mac)' = Dismissed(suspect.mac)
                               \/ Dismissed(suspect.mac)' = age
    <3>1. suspect.at = "set" => suspect.mac \in MACs
      BY DEF DismissalInv, DismissalTyped, SuspectOK
    <3>2. suspect' = suspect
      BY <1>1
    <3> QED
      BY <1>4, <3>1, <3>2 DEF Dismissed
  <2> QED
    BY <1>1, <2>1, Zenon DEF DismissalInv, DismissalTyped, SuspectOK, NoWasTrue
<1>7. ReadInTime'
  <2>1. suspect.at = "track" => \/ Dismissed(suspect.mac)' = Dismissed(suspect.mac)
                                 \/ Dismissed(suspect.mac)' = age
    <3>1. suspect.at = "track" => suspect.mac \in MACs
      BY DEF DismissalInv, DismissalTyped, SuspectOK
    <3>2. suspect' = suspect
      BY <1>1
    <3> QED
      BY <1>4, <3>1, <3>2 DEF Dismissed
  <2> QED
    BY <1>1, <2>1, SMTT(30) DEF DismissalInv, DismissalTyped, SuspectOK, ReadInTime
<1>8. DismissedStays'
  BY <1>1, <1>4, SMTT(30) DEF DismissalInv, DismissalTyped, DismissedStays
<1> QED
  BY <1>3, <1>5, <1>6, <1>7, <1>8 DEF DismissalInv

\* A start fills the cache with dismissals only.
LEMMA RestartedKeeps == ASSUME CacheTTL \in Nat, DismissalInv, Restart PROVE DismissalInv'
<1>1. UNCHANGED <<fpRows, suspect, begun, age>> /\ age \in Nat
  BY DEF Restart, DismissalInv, DismissalTyped
<1>2. \/ fpCache' = fpCache
      \/ fpCache' = [k \in Keys |-> IF fpRows[k] # NeverCached THEN [value |-> "1", at |-> age]
                                    ELSE fpCache[k]]
  BY DEF Restart
<1>3. /\ fpCache' \in [Keys -> [value : {"none", "0", "1"}, at : Int]]
      /\ \A k \in Keys : fpCache'[k].at <= age
      /\ \A k \in Keys : fpCache'[k].value = "0" => fpCache'[k] = fpCache[k]
  BY <1>1, <1>2 DEF DismissalInv, DismissalTyped
<1>4. \A m \in MACs : Dismissed(m)' = Dismissed(m)
  BY <1>1 DEF Dismissed
<1>5. DismissalTyped'
  BY <1>1, <1>3 DEF DismissalInv, DismissalTyped, SuspectOK
<1>6. CacheNotAhead'
  BY <1>3, <1>4, SMTT(20) DEF DismissalInv, CacheNotAhead, Keys
<1> QED
  BY <1>1, <1>4, <1>5, <1>6 DEF DismissalInv, NoWasTrue, ReadInTime, DismissedStays, Dismissed

\* Time passes a detection at most once.
LEMMA AgeKeeps == ASSUME CacheTTL \in Nat, DismissalInv, AgeTick PROVE DismissalInv'
<1>1. UNCHANGED <<fpRows, fpCache, suspect, begun>> /\ age \in Nat /\ age' = age + 1
  BY DEF AgeTick, DismissalInv, DismissalTyped
<1>2. suspect.at # "idle" => suspect.since = age
  BY DEF AgeTick, NoSuspect
<1>3. SuspectOK'
  BY <1>1, <1>2 DEF DismissalInv, DismissalTyped, SuspectOK
<1>4. DismissalTyped'
  BY <1>1, <1>3 DEF DismissalInv, DismissalTyped
<1> QED
  BY <1>1, <1>4 DEF DismissalInv, CacheNotAhead, NoWasTrue, ReadInTime, DismissedStays,
      Dismissed

\* IsFalsePositive and RecordFalsePositive (store.go): once the lifetime of a cache entry
\* has passed since a dismissal, and the ticks of a slow check before and after, tracking
\* of the MAC does not begin again unless Postgres failed the check; for any MACs, any
\* lifetime and any failures of the stores.
THEOREM DismissalHolds == DismissalSpec => []DismissedStays
<1>1. DismissalInv /\ [DismissalNext]_dismissalVars => DismissalInv'
  <2> SUFFICES ASSUME DismissalInv, [DismissalNext]_dismissalVars PROVE DismissalInv'
    OBVIOUS
  <2> USE DismissalAssumption
  <2>1. CASE \E m \in MACs : handleSuspectDetection(m)
    BY <2>1, HandleKeeps, SMTT(20)
  <2>2. CASE \E m \in MACs : DeleteTracked(m)
    BY <2>2, ZenonT(40) DEF DeleteTracked, DismissalInv, DismissalTyped, SuspectOK, CacheNotAhead,
        NoWasTrue, ReadInTime,
                DismissedStays, Dismissed
  <2>3. CASE ReadCache
    BY <2>3, ReadCacheKeeps
  <2>4. CASE Query
    BY <2>4, QueryKeeps
  <2>5. CASE SetCache
    BY <2>5, SetCacheKeeps
  <2>6. CASE TrackMAC
    BY <2>6, TrackKeeps
  <2>7. CASE \E k \in Keys : Dismiss(k)
    BY <2>7, DismissKeeps, SMTT(20)
  <2>8. CASE Restart
    BY <2>8, RestartedKeeps
  <2>9. CASE AgeTick
    BY <2>9, AgeKeeps
  <2>10. CASE UNCHANGED dismissalVars
    BY <2>10 DEF dismissalVars, DismissalInv, DismissalTyped, SuspectOK, CacheNotAhead,
        NoWasTrue, ReadInTime,
                 DismissedStays, Dismissed
  <2> QED
    BY <2>1, <2>2, <2>3, <2>4, <2>5, <2>6, <2>7, <2>8, <2>9, <2>10 DEF DismissalNext
<1>2. DismissalInv => DismissedStays
  BY DEF DismissalInv
<1> QED
  BY DismissalInitially, <1>1, <1>2, PTL DEF DismissalSpec

-----------------------------------------------------------------------------
(* Track numbers.                                                          *)

\* A process that is down has nothing in memory.
DownIsEmpty ==
  phase = "down" => jobs = {} /\ \A i \in Ids : mem[i] = None

IInv == TypeOK /\ DownIsEmpty /\ CounterAhead /\ OneHolder

\* Zero and the successor of a counter below its bound are track numbers.
LEMMA NumbersInRange ==
  /\ 0 \in TrackNumber
  /\ None \notin TrackNumber
  /\ \A n \in TrackNumber : n \in Nat
  /\ \A n \in TrackNumber : n < MaxTrack => n + 1 \in TrackNumber /\ n + 1 > 0
BY TrackStoreAssumption DEF TrackStoreAssumption, TrackNumber, None

\* Upsert yields a table, and every entry is the old one or a job's number.
LEMMA UpsertEntries ==
  ASSUME TypeOK, NEW S \in SUBSET jobs
  PROVE  /\ Upsert(S) \in [Ids -> TrackNumber \cup {None}]
         /\ \A i \in Ids : \/ Upsert(S)[i] = rows[i]
                           \/ [id |-> i, track |-> Upsert(S)[i]] \in jobs
<1>1. ASSUME NEW i \in Ids
      PROVE  /\ Upsert(S)[i] \in TrackNumber \cup {None}
             /\ \/ Upsert(S)[i] = rows[i]
                \/ [id |-> i, track |-> Upsert(S)[i]] \in jobs
  <2>1. CASE \E j \in S : j.id = i
    <3> DEFINE j == CHOOSE j \in S : j.id = i
    <3>1. j \in S /\ j.id = i
      BY <2>1
    <3>2. j \in jobs /\ j \in Job
      BY <3>1 DEF TypeOK
    <3>3. Upsert(S)[i] = j.track
      BY <2>1 DEF Upsert
    <3> HIDE DEF j
    <3>4. j = [id |-> i, track |-> j.track] /\ j.track \in TrackNumber
      BY <3>1, <3>2 DEF Job
    <3> QED
      BY <3>2, <3>3, <3>4
  <2>2. CASE ~ \E j \in S : j.id = i
    BY <2>2 DEF Upsert, TypeOK
  <2> QED
    BY <2>1, <2>2
<1>2. Upsert(S) = [i \in Ids |-> Upsert(S)[i]]
  BY DEF Upsert
<1> QED
  BY <1>1, <1>2, ZenonT(40)

\* Numbering a drone keeps the types.
LEMMA AssignType ==
  ASSUME TypeOK, NEW i \in Ids, Assign(i)
  PROVE  /\ mem' \in [Ids -> TrackNumber \cup {None}]
         /\ mem'[i] = next + 1
         /\ mem'[i] \in TrackNumber
         /\ next' \in TrackNumber
         /\ next' = next + 1
         /\ issued' \subseteq Ids \X TrackNumber
         /\ \A k \in Ids : k # i => mem'[k] = mem[k]
<1>1. next + 1 \in TrackNumber
  BY NumbersInRange DEF Assign, TypeOK
<1>2. mem' = [mem EXCEPT ![i] = next + 1] /\ mem \in [Ids -> TrackNumber \cup {None}]
  BY DEF Assign, TypeOK
<1>3. issued' = issued \cup {<<i, next + 1>>} /\ next' = next + 1
  BY DEF Assign
<1> HIDE DEF TrackNumber
<1>4. issued' \subseteq Ids \X TrackNumber
  BY <1>1, <1>3 DEF TypeOK
<1> QED
  BY <1>1, <1>2, <1>3, <1>4

\* Every start state and every step keeps the types.
LEMMA TypeStep ==
  ASSUME TypeOK, [Next]_vars
  PROVE  TypeOK'
<1> USE DEF Job
<1>1. ASSUME NEW i \in Ids, Track(i) PROVE TypeOK'
  <2>1. CASE i \in Controllers
    <3>1. mem' = [mem EXCEPT ![i] = 0] /\ mem'[i] = 0
      BY <1>1, <2>1 DEF Track, TypeOK
    <3>2. jobs' = jobs \cup {[id |-> i, track |-> 0]}
      BY <1>1, <3>1 DEF Track
    <3> QED
      BY <1>1, <2>1, <3>1, <3>2, NumbersInRange DEF Track, TypeOK
  <2>2. CASE i \notin Controllers
    <3>1. Assign(i)
      BY <1>1, <2>2 DEF Track
    <3>2. jobs' = jobs \cup {[id |-> i, track |-> mem'[i]]}
      BY <1>1 DEF Track
    <3>3. [id |-> i, track |-> mem'[i]] \in Job
      BY <3>1, AssignType
    <3>4. jobs' \subseteq Job
      BY <3>2, <3>3 DEF TypeOK
    <3> QED
      BY <1>1, <3>1, <3>4, AssignType DEF Track, TypeOK
  <2> QED
    BY <2>1, <2>2
<1>2. ASSUME NEW i \in Ids, TrackMerged(i) PROVE TypeOK'
  BY <1>2, NumbersInRange DEF TrackMerged, TypeOK
<1>3. ASSUME NEW i \in Ids, Forget(i) PROVE TypeOK'
  BY <1>3 DEF Forget, TypeOK
<1>4. ASSUME NEW i \in Ids, Expire(i) PROVE TypeOK'
  BY <1>4 DEF Expire, TypeOK
<1>5. ASSUME NEW i \in Ids, Backfill(i) PROVE TypeOK'
  <2>1. Assign(i)
    BY <1>5 DEF Backfill
  <2>2. rows' \in [Ids -> TrackNumber \cup {None}]
    BY <1>5, <2>1, AssignType DEF Backfill, Stored, TypeOK
  <2> QED
    BY <1>5, <2>1, <2>2, AssignType DEF Backfill, TypeOK
<1>6. ASSUME NEW S \in SUBSET jobs, NEW D \in SUBSET jobs, Save(S, D) PROVE TypeOK'
  BY <1>6, UpsertEntries DEF Save, TypeOK
<1>7. CASE Crash
  BY <1>7, NumbersInRange DEF Crash, TypeOK
<1>8. ASSUME NEW L \in SUBSET Ids, NEW m \in TrackNumber, Boot(L, m) PROVE TypeOK'
  BY <1>8 DEF Boot, TypeOK
<1>9. CASE Serve
  BY <1>9 DEF Serve, TypeOK
<1>10. CASE UNCHANGED vars
  BY <1>10 DEF vars, TypeOK
<1> QED
  BY <1>1, <1>2, <1>3, <1>4, <1>5, <1>6, <1>7, <1>8, <1>9, <1>10 DEF Next

\* The state of every behaviour is well typed: the counter never runs past
\* its bound and no job or row carries anything but a number (SaveDetection,
\* UpdateTrackNumber), whether or not the counter can be read on a start.
THEOREM TypeCorrect == Spec => []TypeOK
<1>1. Init => TypeOK
  BY NumbersInRange DEF Init, TypeOK
<1>2. TypeOK /\ [Next]_vars => TypeOK'
  BY TypeStep
<1> QED
  BY <1>1, <1>2, PTL DEF Spec

-----------------------------------------------------------------------------
(***************************************************************************)
(* What a step does to the numbers held.  Every step of a running process  *)
(* moves held numbers about, or adds the successor of the counter to one   *)
(* drone.                                                                  *)
(***************************************************************************)
NoNewHolder ==
  /\ next' = next
  /\ \A i \in Ids, t \in TrackNumber \ {0} : Holds(i, t)' => Holds(i, t)

OneNewHolder(k) ==
  /\ next' = next + 1
  /\ \A i \in Ids, t \in TrackNumber \ {0} :
       Holds(i, t)' => Holds(i, t) \/ (i = k /\ t = next + 1)

\* A new drone, and a reloaded drone that is numbered, take the next number.
LEMMA NumberingSteps ==
  ASSUME TypeOK, NEW k \in Ids, Track(k) \/ Backfill(k)
  PROVE  NoNewHolder \/ OneNewHolder(k)
<1>1. CASE Track(k) /\ k \in Controllers
  <2>1. /\ next' = next
        /\ rows' = rows
        /\ mem' = [mem EXCEPT ![k] = 0]
        /\ mem'[k] = 0
        /\ jobs' = jobs \cup {[id |-> k, track |-> mem'[k]]}
    BY <1>1, SMTT(30) DEF Track, TypeOK
  <2>2. ASSUME NEW i \in Ids, NEW t \in TrackNumber \ {0}, Holds(i, t)'
        PROVE  Holds(i, t)
    BY <2>1, <2>2, SMTT(30) DEF Holds, TypeOK
  <2> QED
    BY <2>1, <2>2, SMTT(30) DEF NoNewHolder
<1>2. CASE Track(k) /\ k \notin Controllers
  <2>1. Assign(k) /\ rows' = rows /\ jobs' = jobs \cup {[id |-> k, track |-> mem'[k]]}
    BY <1>2 DEF Track
  <2>2. ASSUME NEW i \in Ids, NEW t \in TrackNumber \ {0}, Holds(i, t)'
        PROVE  Holds(i, t) \/ (i = k /\ t = next + 1)
    BY <2>1, <2>2, AssignType DEF Holds
  <2> QED
    BY <2>1, <2>2, AssignType DEF OneNewHolder
<1>3. CASE Backfill(k)
  <2>1. Assign(k) /\ jobs' = jobs /\ rows' \in {rows, [rows EXCEPT ![k] = mem'[k]]}
    BY <1>3 DEF Backfill, Stored
  <2>2. ASSUME NEW i \in Ids, NEW t \in TrackNumber \ {0}, Holds(i, t)'
        PROVE  Holds(i, t) \/ (i = k /\ t = next + 1)
    BY <2>1, <2>2, AssignType DEF Holds, TypeOK
  <2> QED
    BY <2>1, <2>2, AssignType, SMTT(30) DEF OneNewHolder
<1> QED
  BY <1>1, <1>2, <1>3

\* The steps that write rows, or drop drones, jobs or rows, give no number to
\* anyone who did not hold it.
LEMMA OtherRunningSteps ==
  ASSUME TypeOK,
         \/ \E i \in Ids : TrackMerged(i) \/ Forget(i) \/ Expire(i)
         \/ \E S, D \in SUBSET jobs : Save(S, D)
         \/ Serve
         \/ UNCHANGED vars
  PROVE  NoNewHolder
<1>1. ASSUME NEW i \in Ids, TrackMerged(i) PROVE NoNewHolder
  BY <1>1, SMTT(30) DEF TrackMerged, NoNewHolder, Holds
<1>2. ASSUME NEW i \in Ids, Forget(i) PROVE NoNewHolder
  BY <1>2, NumbersInRange, SMTT(30) DEF Forget, NoNewHolder, Holds, TypeOK
<1>3. ASSUME NEW i \in Ids, Expire(i) PROVE NoNewHolder
  BY <1>3, NumbersInRange DEF Expire, NoNewHolder, Holds, TypeOK
<1>4. ASSUME NEW S \in SUBSET jobs, NEW D \in SUBSET jobs, Save(S, D) PROVE NoNewHolder
  <2>1. rows' = Upsert(S) /\ mem' = mem /\ next' = next /\ jobs' \subseteq jobs
    BY <1>4, SMTT(30) DEF Save
  <2>2. ASSUME NEW i \in Ids, NEW t \in TrackNumber \ {0}, Holds(i, t)'
        PROVE  Holds(i, t)
    BY <2>1, <2>2, UpsertEntries, SMTT(30) DEF Holds
  <2> QED
    BY <2>1, <2>2 DEF NoNewHolder
<1>5. CASE Serve
  BY <1>5, SMTT(30) DEF Serve, NoNewHolder, Holds
<1>6. CASE UNCHANGED vars
  BY <1>6 DEF vars, NoNewHolder, Holds
<1> QED
  BY <1>1, <1>2, <1>3, <1>4, <1>5, <1>6, SMTT(30)

\* A step that only moves numbers keeps the invariant.
LEMMA NoNewHolderKeeps ==
  ASSUME TypeOK, TypeOK', CounterAhead, OneHolder, NoNewHolder,
         phase' # "down" => phase # "down"
  PROVE  CounterAhead' /\ OneHolder'
<1>1. OneHolder'
  BY DEF OneHolder, NoNewHolder
<1>2. ASSUME phase' # "down", NEW i \in Ids, NEW t \in TrackNumber, Holds(i, t)'
      PROVE  t <= next'
  <2>1. CASE t = 0
    BY <2>1, NumbersInRange DEF TypeOK
  <2>2. CASE t # 0
    BY <1>2, <2>2 DEF NoNewHolder, CounterAhead
  <2> QED
    BY <2>1, <2>2
<1>3. CounterAhead'
  BY <1>2 DEF CounterAhead
<1> QED
  BY <1>1, <1>3

\* The successor of the counter is held by no one, so giving it away is safe.
LEMMA OneNewHolderKeeps ==
  ASSUME TypeOK, TypeOK', CounterAhead, OneHolder, NEW k \in Ids,
         OneNewHolder(k), phase # "down"
  PROVE  CounterAhead' /\ OneHolder'
<1>1. \A n \in TrackNumber : n \in Nat
  BY NumbersInRange
<1>2. next \in Nat
  BY <1>1 DEF TypeOK
<1>3. \A i \in Ids, t \in TrackNumber : Holds(i, t) => t # next + 1
  BY <1>1, <1>2 DEF CounterAhead
<1>4. OneHolder'
  BY <1>3 DEF OneHolder, OneNewHolder
<1>5. ASSUME NEW i \in Ids, NEW t \in TrackNumber, Holds(i, t)'
      PROVE  t <= next'
  <2>1. CASE t = 0
    BY <1>2, <2>1 DEF OneNewHolder
  <2>2. CASE t # 0
    <3>1. t <= next \/ t = next + 1
      BY <1>5, <2>2 DEF OneNewHolder, CounterAhead
    <3> QED
      BY <1>1, <1>2, <3>1 DEF OneNewHolder
  <2> QED
    BY <2>1, <2>2
<1>6. CounterAhead'
  BY <1>5 DEF CounterAhead
<1> QED
  BY <1>4, <1>6

\* A start that can read the largest stored number brings the counter ahead
\* of all that is left, the rows.
LEMMA BootKeeps ==
  ASSUME IInv, TypeOK', ~CounterReadMayFail,
         NEW L \in SUBSET Ids, NEW m \in TrackNumber, Boot(L, m)
  PROVE  CounterAhead' /\ OneHolder'
<1>1. jobs' = {} /\ rows' = rows /\ next' = m
  BY DEF IInv, DownIsEmpty, Boot
<1>2. \A i \in Ids : mem'[i] = rows[i] \/ mem'[i] = None
  BY DEF Boot
<1>3. \A i \in Ids, t \in TrackNumber : Holds(i, t)' => rows[i] = t
  BY <1>1, <1>2, NumbersInRange DEF Holds
<1>4. \A i \in Ids : rows[i] <= m
  BY DEF Boot, RestoredCounter, IsMaxTrackNumber
<1>5. CounterAhead'
  BY <1>1, <1>3, <1>4, SMTT(30) DEF CounterAhead
<1>6. OneHolder'
  BY <1>3 DEF OneHolder, IInv, Holds
<1> QED
  BY <1>5, <1>6, SMTT(30)

\* One step of the specification keeps the invariant.
LEMMA IInvStep ==
  ASSUME IInv, [Next]_vars, ~CounterReadMayFail
  PROVE  IInv'
<1>0. TypeOK /\ DownIsEmpty /\ CounterAhead /\ OneHolder
  BY DEF IInv
<1>1. TypeOK'
  BY <1>0, TypeStep
<1>2. DownIsEmpty'
  <2>1. CASE Crash
    BY <2>1 DEF Crash, DownIsEmpty
  <2>2. CASE UNCHANGED vars
    BY <1>0, <2>2 DEF vars, DownIsEmpty
  <2>3. CASE Next /\ ~Crash
    <3>1. phase' # "down"
      BY <2>3 DEF Next, Track, TrackMerged, Forget, Expire, Backfill, Save, Boot, Serve
    <3> QED
      BY <3>1, SMTT(30) DEF DownIsEmpty
  <2> QED
    BY <2>1, <2>2, <2>3
<1>3. ASSUME NEW k \in Ids, Track(k) \/ Backfill(k)
      PROVE  CounterAhead' /\ OneHolder'
  <2>1. phase # "down"
    BY <1>3 DEF Track, Backfill
  <2> QED
    BY <1>0, <1>1, <1>3, <2>1, NumberingSteps, NoNewHolderKeeps, OneNewHolderKeeps
<1>4. ASSUME \/ \E i \in Ids : TrackMerged(i) \/ Forget(i) \/ Expire(i)
             \/ \E S, D \in SUBSET jobs : Save(S, D)
             \/ Serve
             \/ UNCHANGED vars
      PROVE  CounterAhead' /\ OneHolder'
  <2>1. phase' # "down" => phase # "down"
    BY <1>4 DEF TrackMerged, Forget, Expire, Save, Serve, vars
  <2> QED
    BY <1>0, <1>1, <1>4, <2>1, OtherRunningSteps, NoNewHolderKeeps, SMTT(30)
<1>5. ASSUME Crash
      PROVE  CounterAhead' /\ OneHolder'
  <2>1. CounterAhead'
    BY <1>5, SMTT(30) DEF Crash, CounterAhead
  <2>2. \A i \in Ids, t \in TrackNumber : Holds(i, t)' => Holds(i, t)
    BY <1>5, NumbersInRange DEF Crash, Holds
  <2> QED
    BY <1>0, <2>1, <2>2 DEF OneHolder
<1>6. ASSUME NEW L \in SUBSET Ids, NEW m \in TrackNumber, Boot(L, m)
      PROVE  CounterAhead' /\ OneHolder'
  BY <1>1, <1>6, BootKeeps
<1>7. CounterAhead' /\ OneHolder'
  BY <1>3, <1>4, <1>5, <1>6 DEF Next
<1> QED
  BY <1>1, <1>2, <1>7 DEF IInv

\* The invariant holds in every behaviour in which the counter can be read.
LEMMA IInvHolds == ~CounterReadMayFail => (Spec => []IInv)
<1> SUFFICES ASSUME ~CounterReadMayFail
             PROVE  Spec => []IInv
  OBVIOUS
<1>1. Init => IInv
  <2> SUFFICES ASSUME Init PROVE IInv
    OBVIOUS
  <2>1. TypeOK
    BY NumbersInRange DEF Init, TypeOK
  <2>2. \A i \in Ids, t \in TrackNumber : ~Holds(i, t)
    BY NumbersInRange DEF Init, Holds
  <2> QED
    BY <2>1, <2>2 DEF Init, IInv, DownIsEmpty, CounterAhead, OneHolder
<1>2. IInv /\ [Next]_vars => IInv'
  BY IInvStep
<1> QED
  BY <1>1, <1>2, PTL DEF Spec

\* No number is ever held by two drones, in memory, in a pending job or in a
\* row, through any sequence of crashes and starts, whatever jobs are lost,
\* repeated or reordered, provided every start reads the counter back
\* (GetMaxTrackNumber in main).
THEOREM OneHolderAcrossRestarts == ~CounterReadMayFail => (Spec => []OneHolder)
<1>1. IInv => OneHolder
  BY DEF IInv
<1> QED
  BY <1>1, IInvHolds, PTL

\* The counter of a started process is ahead of every number that is held,
\* so assignTrackNumber always gives out a fresh one.
THEOREM CounterAheadAfterStart == ~CounterReadMayFail => (Spec => []CounterAhead)
<1>1. IInv => CounterAhead
  BY DEF IInv
<1> QED
  BY <1>1, IInvHolds, PTL

=============================================================================
