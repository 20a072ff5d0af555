--------------------------- MODULE EvidenceDistillers ---------------------------
(***************************************************************************)
(* The three reference plugins that turn a bundle of redacted evidence     *)
(* into proposals, an item at a time: the experience distiller, the        *)
(* bootstrap demonstration compiler and the text-skill optimizer           *)
(* (plugins/reference).  An item is [id, flaws, tokens, edits]: "flaws"    *)
(* are the checks it would fail, of which the code reports the first; an   *)
(* edit is the set of its flaws.  A plugin answers with its proposals      *)
(* only: what it skipped, and why, is worked out and not sent.             *)
(***************************************************************************)
EXTENDS Integers, Sequences, SequencesExt, FiniteSets

CONSTANTS
  EvidenceItems,    (* the items of which bundles are made *)
  MaxBundle,        (* items in a bundle, a bound of the model *)
  MaxRoom,          (* proposals left in the budget, a bound of the model *)
  MaxEdits,         (* edits that one proposal may carry *)
  MaxJudged         (* results reported to the skill optimizer, a bound of the model *)

VARIABLES
  trade,        (* the plugin that works *)
  bundleItems,  (* the evidence it was handed, Absent when it was handed none *)
  room,         (* proposals_remaining *)
  taken,        (* how many items the loop has been through *)
  made,         (* proposals, demonstrations or edits made so far, in order *)
  passedOver,   (* [id, why] of what was refused, in order *)
  answer,       (* the proposals sent, as a set of at most one sequence *)
  tally         (* what the skill optimizer was told: [repairs, regressions, rejects, failed] *)

distillVars == <<trade, bundleItems, room, taken, made, passedOver, answer, tally>>

Trades == {"distill", "compile", "edit"}
Silent == {}
NoTally == [repairs |-> 0, regressions |-> 0, rejects |-> <<>>, failed |-> 0]

Checks ==
  [distill |-> <<"object", "pair", "rewrite", "executable", "route", "text", "outcome">>,
   compile |-> <<"object", "approved", "teacher", "tokens", "labels">>,
   edit |-> <<"object", "list">>]
EditChecks == <<"object", "action", "executable", "text", "section">>

DistillInit ==
  /\ trade \in Trades
  /\ bundleItems \in SeqOf(EvidenceItems, MaxBundle)
  /\ room \in 0..MaxRoom
  /\ taken = 0 /\ made = <<>> /\ passedOver = <<>> /\ answer = Silent /\ tally = NoTally

(* The first check that fails, or "none" *)
FirstFlaw(flaws, checks) ==
  LET failing == {i \in DOMAIN checks : checks[i] \in flaws}
  IN  IF failing = {} THEN "none" ELSE checks[CHOOSE i \in failing : \A j \in failing : i <= j]

ReadsToTheEnd == taken < Len(bundleItems)
(* distill_proposals stops as soon as the budget is used up; the others read on *)
ReadsOn == taken < Len(bundleItems) /\ (trade = "distill" => Len(made) < room)

Skip(id, why) == passedOver' = Append(passedOver, [id |-> id, why |-> why])

(* distill_proposals: an item is a proposal, or skipped for one reason *)
Distill ==
  LET item == bundleItems[taken + 1]
      why == FirstFlaw(item.flaws, Checks.distill)
  IN  /\ trade = "distill"
      /\ IF why = "none"
         THEN made' = Append(made, [id |-> item.id, source |-> item.id]) /\ UNCHANGED passedOver
         ELSE Skip(item.id, why) /\ UNCHANGED made

(* compile_demonstrations: an approved trace is a demonstration *)
Demonstrate ==
  LET item == bundleItems[taken + 1]
      why == FirstFlaw(item.flaws, Checks.compile)
  IN  /\ trade = "compile"
      /\ IF why = "none"
         THEN /\ made' = Append(made, [order |-> taken, source |-> item.id, tokens |-> item.tokens])
              /\ UNCHANGED passedOver
         ELSE Skip(item.id, why) /\ UNCHANGED made

(* plan_edits: every edit of an item is kept, refused, or put off when the *)
(* proposal is full                                                        *)
EditFate(done, id, flaws) ==
  LET why == FirstFlaw(flaws, EditChecks)
      Refuse2(reason) == [done EXCEPT !.over = Append(@, [id |-> id, why |-> reason])]
  IN  CASE why # "none" -> Refuse2(why)
        [] why = "none" /\ Len(done.kept) >= MaxEdits -> Refuse2("deferred")
        [] OTHER -> [done EXCEPT !.kept = Append(@, [source |-> id])]

PlanEdits ==
  LET item == bundleItems[taken + 1]
      why == FirstFlaw(item.flaws, Checks.edit)
      done == FoldLeft(LAMBDA d, flaws : EditFate(d, item.id, flaws), [kept |-> made, over |-> passedOver], item.edits)
  IN  /\ trade = "edit" /\ room >= 1
      /\ IF why = "none" THEN made' = done.kept /\ passedOver' = done.over
         ELSE Skip(item.id, why) /\ UNCHANGED made

TakeItem ==
  /\ answer = Silent /\ ReadsOn
  /\ Distill \/ Demonstrate \/ PlanEdits
  /\ taken' = taken + 1
  /\ UNCHANGED <<trade, bundleItems, room, answer, tally>>

SumTokens(demos) == FoldLeft(LAMBDA n, d : n + d.tokens, 0, demos)
Sources == [i \in DOMAIN made |-> made[i].source]

(* Both whatever the room *)
CompiledInPairs ==
  LET set == [role |-> "set", sources |-> Sources, budget |-> SumTokens(made)]
  IN  IF made = <<>> THEN <<>> ELSE <<set, [set EXCEPT !.role = "control"]>>

(* The set, and its control when there is room for two: both with the same *)
(* traces and the tokens of them all                                       *)
Compiled ==
  IF made = <<>> \/ room < 1 THEN <<>>
  ELSE LET set == [role |-> "set", sources |-> Sources, budget |-> SumTokens(made)]
       IN  IF room >= 2 THEN <<set, [set EXCEPT !.role = "control"]>> ELSE <<set>>
EditProposal == IF made = <<>> THEN <<>> ELSE <<[role |-> "edits", sources |-> Sources, budget |-> Len(made)]>>

AnswerBundle ==
  /\ answer = Silent
  /\ ~ReadsOn \/ (trade = "edit" /\ room < 1)
  /\ answer' = {CASE trade = "distill" ->
                       [i \in DOMAIN made |-> [role |-> "entry", sources |-> <<made[i].source>>, budget |-> 0]]
                  [] trade = "compile" -> Compiled
                  [] trade = "edit" -> EditProposal}
  /\ UNCHANGED <<trade, bundleItems, room, taken, made, passedOver, tally>>

(* observe of the skill optimizer: repairs and regressions apart, and a    *)
(* failed candidate buffered with the totals of the moment                 *)
JudgeSkill ==
  /\ trade = "edit" /\ answer # Silent /\ tally.failed + tally.repairs + tally.regressions < MaxJudged
  /\ \E repairs, regressions \in 0..1, ok \in BOOLEAN :
       LET told2 == [tally EXCEPT !.repairs = @ + repairs, !.regressions = @ + regressions]
       IN  tally' = IF ok THEN told2
                    ELSE [told2 EXCEPT !.failed = @ + 1,
                            !.rejects = Append(@, [repairs |-> told2.repairs, regressions |-> told2.regressions])]
  /\ UNCHANGED <<trade, bundleItems, room, taken, made, passedOver, answer>>

DistillNext == TakeItem \/ AnswerBundle \/ JudgeSkill

-----------------------------------------------------------------------------
DistillTypes ==
  /\ trade \in Trades /\ taken \in 0..Len(bundleItems) /\ room \in 0..MaxRoom
  /\ Len(tally.rejects) = tally.failed

(* What a bundle gives, said without the loop: the items without a flaw,    *)
(* in their order, as many as there is room for                            *)
Sound(i, checks) == FirstFlaw(bundleItems[i].flaws, checks) = "none"
SoundOnes(checks) == SetToSortSeq({i \in DOMAIN bundleItems : Sound(i, checks)}, <)

(* A plugin never answers with more proposals than the budget leaves, every *)
(* proposal goes back to evidence without a flaw, the first of it comes     *)
(* first, and the control costs what the set costs (distill_proposals,      *)
(* compile_demonstrations)                                                 *)
AnswersFitTheBudget ==
  \A proposals \in answer :
    LET sound == SoundOnes(Checks[trade])
        ids == [k \in DOMAIN sound |-> bundleItems[sound[k]].id]
        first == SubSeq(ids, 1, IF Len(ids) < room THEN Len(ids) ELSE room)
    IN  /\ Len(proposals) <= room
        /\ trade = "distill" => [k \in DOMAIN proposals |-> proposals[k].sources[1]] = first
        /\ trade = "compile" => \A k \in DOMAIN proposals :
             /\ proposals[k].sources = ids
             /\ proposals[k].budget = proposals[1].budget

(* Every edit is accounted for once, as made, refused or put off, and none  *)
(* is put off while there is room for it (plan_edits)                      *)
EditsAreAccountedFor ==
  trade = "edit" /\ answer # Silent /\ room >= 1 =>
    LET Count(item) == IF FirstFlaw(item.flaws, Checks.edit) = "none" THEN Len(item.edits) ELSE 1
        edits == FoldLeft(LAMBDA n, item : n + Count(item), 0, bundleItems)
    IN  /\ Len(made) + Len(passedOver) = edits /\ Len(made) <= MaxEdits
        /\ (\E i \in DOMAIN passedOver : passedOver[i].why = "deferred") => Len(made) = MaxEdits

(* What the three plugins answer rests on the evidence, all of it (plugins/reference) *)
DistillersAreSound == AnswersFitTheBudget /\ EditsAreAccountedFor

=============================================================================
