------------------------------- MODULE MCLinks -------------------------------
(***************************************************************************)
(* What connects the node to the world around it, checked side by side:    *)
(* the TAK server, commands to TAPs, and the subscriptions to what TAPs    *)
(* send.  The parts share no state: each behaviour is one of one part, the *)
(* others stay where they began.                                           *)
(***************************************************************************)
EXTENDS TakLink, CommandAck, TapWatch

CONSTANT First   \* the address at the start, when there is one

VARIABLE part

vars == <<takVars, commandVars, hearingVars, part>>

\* Of the servers, which are alike, the first is the one the file may name.
Init ==
  /\ part \in {"tak", "command", "hearing"}
  /\ TakInit /\ CommandInit /\ HearingInit
  /\ address \in IF part = "tak" THEN {"none", First} ELSE {"none"}

TakStep(action) == part = "tak" /\ action /\ UNCHANGED <<commandVars, hearingVars, part>>
HearingStep(action) == part = "hearing" /\ action /\ UNCHANGED <<takVars, commandVars, part>>

Next ==
  \/ TakStep(TakNext)
  \/ part = "command" /\ CommandNext /\ UNCHANGED <<takVars, hearingVars, part>>
  \/ HearingStep(HearingNext)

\* The fairness of TakLink and of TapWatch.
Fairness ==
  /\ WF_vars(TakStep(Start)) /\ WF_vars(TakStep(DialWorks)) /\ WF_vars(TakStep(Publish))
  /\ WF_vars(HearingStep(Watchdog)) /\ WF_vars(HearingStep(handleHeartbeat))

Spec == Init /\ [][Next]_vars /\ Fairness

\* TakLink and TapWatch: no connection and no subscription is open that the code can
\* no longer close.
NothingLeaks == NoneLeft /\ NoneOrphaned

\* TakLink: in the end the client is connected to the configured address.
TakConverges == part = "tak" => Converges
=============================================================================
