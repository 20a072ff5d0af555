------------------------- MODULE CampaignLifecycle -------------------------
(***************************************************************************)
(* What a campaign record promises, whoever keeps it: one history, every   *)
(* hop of which the lifecycle graph allows, and a current phase and resume *)
(* target that are what the history says.  A checkpoint is a copy of all   *)
(* three, and the campaign may be put back to any checkpoint.  The history *)
(* may refuse a hop: then the phase stays, but a pause, a resume and a     *)
(* cancel have already changed the resume target.                          *)
(***************************************************************************)
EXTENDS CampaignPhases

VARIABLES phase, target, log, saved

vars == <<phase, target, log, saved>>

Snapshot == [phase |-> phase, target |-> target, log |-> log]

Init == phase = "discover" /\ target = None /\ log = <<>> /\ saved = {}

Move(q) == phase' = q /\ log' = Append(log, HopTo(log, phase, q)) /\ UNCHANGED saved

(* the history takes the hop, or refuses it *)
Try(q) == Move(q) \/ UNCHANGED <<phase, log, saved>>

Advance == \E q \in Phases : <<phase, q>> \in Edges /\ Move(q) /\ UNCHANGED target
Pause   == CanPause(phase) /\ Try("paused") /\ target' = phase
Resume  == phase = "paused" /\ target # None /\ Try(target) /\ target' = None
Cancel  == CanCancel(phase) /\ Try("cancelled") /\ target' = None

Save == saved' = saved \cup {Snapshot} /\ UNCHANGED <<phase, target, log>>

Restore == \E s \in saved : /\ phase' = s.phase /\ target' = s.target /\ log' = s.log
                            /\ UNCHANGED saved

Next == Advance \/ Pause \/ Resume \/ Cancel \/ Save \/ Restore

Spec == Init /\ [][Next]_vars

=============================================================================
