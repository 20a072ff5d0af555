--------------------------- MODULE CampaignPhases ---------------------------
(***************************************************************************)
(* The campaign lifecycle graph (campaign/machine.py) and what a campaign  *)
(* history is.  Shared by the abstract lifecycle, the orchestrator and the *)
(* control-plane API.                                                      *)
(***************************************************************************)
EXTENDS Integers, Sequences

(* _FORWARD_EDGES *)
Edges == {<<"discover", "plan">>, <<"plan", "propose">>, <<"propose", "dev_evaluate">>,
          <<"dev_evaluate", "propose">>, <<"dev_evaluate", "select_freeze">>,
          <<"select_freeze", "holdout">>, <<"holdout", "approve">>,
          <<"approve", "canary">>, <<"approve", "rolled_back">>,
          <<"canary", "promoted">>, <<"canary", "rolled_back">>,
          <<"promoted", "learn">>, <<"rolled_back", "learn">>}

Phases == {"discover", "plan", "propose", "dev_evaluate", "select_freeze", "holdout", "approve",
           "canary", "promoted", "rolled_back", "learn", "paused", "cancelled"}

None == "none"

Terminal == {"learn", "cancelled"}
CanPause(p)  == p \notin Terminal \cup {"paused"}
CanCancel(p) == p \notin Terminal

(* CampaignTransition; sequence is the hop's index in the history *)
Hops == [seq : Nat, from : Phases, to : Phases]
HopTo(log, p, q) == [seq |-> Len(log), from |-> p, to |-> q]

-----------------------------------------------------------------------------
(* What a history says: the phase and the resume target after its first n hops *)
PhaseAfter(log, n)  == IF n = 0 THEN "discover" ELSE log[n].to
TargetAfter(log, n) == IF n > 0 /\ PhaseAfter(log, n) = "paused" THEN log[n].from ELSE None

(* the machine could have made the n-th hop where the n - 1 before it lead *)
LegalHop(log, n) ==
  /\ log[n].seq = n - 1
  /\ log[n].from = PhaseAfter(log, n - 1)
  /\ \/ <<log[n].from, log[n].to>> \in Edges
     \/ log[n].to = "paused" /\ CanPause(log[n].from)
     \/ log[n].to = "cancelled" /\ CanCancel(log[n].from)
     \/ log[n].from = "paused" /\ log[n].to = TargetAfter(log, n - 1)

(* "append-only, gapless, replayable" *)
IsHistory(log) == \A n \in 1..Len(log) : LegalHop(log, n)

=============================================================================
