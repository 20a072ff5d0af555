-------------------------- MODULE ExperimentAnalysis --------------------------
(***************************************************************************)
(* An experiment from its preregistration to what is kept of it (eval/):   *)
(* the declaration (experiment.py), the task set of a governed partition   *)
(* (sources.py), the runs of every arm, seed and task (runner.py; what one *)
(* run does is EvalHarness), the paired comparison with the incumbent      *)
(* (results.py, statistics.py), slices (slices.py), and the ablations'     *)
(* contributions (ablation.py).  Scores are sums over the seeds, and a     *)
(* comparison's differences sums over the tasks.                           *)
(***************************************************************************)
EXTENDS Integers, Sequences, FiniteSets, Functions

CONSTANTS
  ExperimentDrafts,  (* [arms, family, seeds, partition, alpha, multiplicity]; an arm is *)
                     (* [id, kind, component, editor, attempts]                          *)
  TaskSources,       (* what a dataset has: sets of [kind, tasks, disclosed]; a task is [id, slice] *)
  LeastSeeds,        (* MIN_SEEDS *)
  MaxBreaks          (* bound: runs a backend breaks *)

(* what the declaration's types say: arms and tasks are tuples, a count of *)
(* seeds and an alpha are numbers                                          *)
ASSUME AnalysisAssumption ==
  /\ LeastSeeds \in Nat
  /\ \A e \in ExperimentDrafts : e.arms \in Seq(Range(e.arms)) /\ e.seeds \in Int /\ e.alpha \in Int
  /\ \A source \in TaskSources : \A p \in source : p.tasks \in Seq(Range(p.tasks))

VARIABLES
  experimentNow,   (* the experiment, NoExperiment before one is declared *)
  tasksNow,        (* its task set, in order *)
  runLog,          (* the runs so far: [arm, seed, task, score] *)
  resultNow,       (* the comparison, NoComparison before it *)
  contributionAt,  (* the stored bytes: [address, bytes], both record sets *)
  contributions,   (* what was loaded of them *)
  breaks

analysisVars == <<experimentNow, tasksNow, runLog, resultNow, contributionAt, contributions, breaks>>

NoExperiment == [arms |-> <<>>, seeds |-> 0]
NoComparison == [compared |-> <<>>]
NothingKept == [address |-> <<>>, bytes |-> <<>>]
NotLoaded == [loaded |-> FALSE, records |-> <<>>]
NoName == ""

AnalysisInit ==
  /\ experimentNow = NoExperiment /\ tasksNow = <<>> /\ runLog = <<>> /\ resultNow = NoComparison
  /\ contributionAt = NothingKept /\ contributions = NotLoaded /\ breaks = 0

-----------------------------------------------------------------------------
(* Preregistration                                                         *)

(* only an ablation names a component, only a fixed-editor arm an editor,  *)
(* and only a retry arm retries                                            *)
ArmSound(a) ==
  /\ a.id # NoName
  /\ (a.component # NoName) = (a.kind = "ablation")
  /\ (a.editor # NoName) = (a.kind = "fixed-editor")
  /\ a.attempts >= 1 /\ (a.kind # "retry" => a.attempts = 1)

Ablations(e) == {i \in DOMAIN e.arms : e.arms[i].kind = "ablation"}
Candidates(e) == {i \in DOMAIN e.arms : e.arms[i].kind # "incumbent"}
ArmsSound(e) ==
  /\ \A i, j \in DOMAIN e.arms : e.arms[i].id = e.arms[j].id => i = j
  /\ \A i \in DOMAIN e.arms : ArmSound(e.arms[i])
  /\ Cardinality(Candidates(e)) = Len(e.arms) - 1

(* the family is declared before the runs, and each component asked once   *)
FamilyDeclared(e) ==
  /\ (Ablations(e) = {}) = (e.family = {})
  /\ \A i \in Ablations(e) : e.arms[i].component \in e.family
FamilySound(e) ==
  /\ FamilyDeclared(e)
  /\ \A i, j \in Ablations(e) : e.arms[i].component = e.arms[j].component => i = j

(* A sealed partition is refused when the experiment is declared and again *)
(* when its tasks are resolved                                             *)
AnyPartition(partition) == TRUE
Unsealed(partition) == partition \notin {"holdout", "canary"}
StatisticsSound(e) == e.seeds >= LeastSeeds /\ e.alpha > 0 /\ e.alpha < 100

DeclareExperiment ==
  /\ experimentNow = NoExperiment
  /\ \E e \in ExperimentDrafts :
       /\ ArmsSound(e) /\ FamilySound(e) /\ Unsealed(e.partition) /\ StatisticsSound(e)
       /\ experimentNow' = e
  /\ UNCHANGED <<tasksNow, runLog, resultNow, contributionAt, contributions, breaks>>

-----------------------------------------------------------------------------
(* The task set: of the one partition of that kind, disclosed, no task     *)
(* twice                                                                   *)
PartitionsOf(source, partition) == {p \in source : p.kind = partition}
TaskSetSound(tasks) == tasks # <<>> /\ \A i, j \in DOMAIN tasks : tasks[i].id = tasks[j].id => i = j
LoadTasks ==
  /\ experimentNow # NoExperiment /\ tasksNow = <<>>
  /\ \E source \in TaskSources :
       LET found == PartitionsOf(source, experimentNow.partition) IN
       \E p \in found :
         /\ Cardinality(found) = 1 /\ Unsealed(p.kind) /\ p.disclosed
         /\ TaskSetSound(p.tasks)
         /\ tasksNow' = p.tasks
  /\ UNCHANGED <<experimentNow, runLog, resultNow, contributionAt, contributions, breaks>>

-----------------------------------------------------------------------------
(* The grid: arm by arm, seed by seed, task by task                        *)
Cells == Len(experimentNow.arms) * experimentNow.seeds * Len(tasksNow)
CellAt(n) ==
  LET perSeed == Len(tasksNow)
      perArm == perSeed * experimentNow.seeds
  IN [arm |-> experimentNow.arms[(n \div perArm) + 1].id, seed |-> (n % perArm) \div perSeed,
      task |-> tasksNow[(n % perSeed) + 1].id]

RunCell ==
  /\ tasksNow # <<>> /\ Len(runLog) < Cells
  /\ \E score \in {0, 1} :
       LET cell == CellAt(Len(runLog)) IN
       runLog' = Append(runLog, [arm |-> cell.arm, seed |-> cell.seed, task |-> cell.task, score |-> score])
  /\ UNCHANGED <<experimentNow, tasksNow, resultNow, contributionAt, contributions, breaks>>

(* A backend that breaks outside the harness's taxonomy ends run_experiment *)
(* with nothing; the next call loads the tasks anew                        *)
BackendBreaks ==
  /\ runLog # <<>> /\ Len(runLog) < Cells
  /\ breaks < MaxBreaks /\ breaks' = breaks + 1
  /\ runLog' = <<>> /\ tasksNow' = <<>>
  /\ UNCHANGED <<experimentNow, resultNow, contributionAt, contributions>>

-----------------------------------------------------------------------------
(* The comparison                                                          *)
SumOver(f) ==
  LET sum[S \in SUBSET DOMAIN f] ==
        IF S = {} THEN 0 ELSE LET x == CHOOSE x \in S : TRUE IN f[x] + sum[S \ {x}]
  IN  sum[DOMAIN f]
SumScores(set) == SumOver([n \in set |-> runLog[n].score])
RunsOf(arm) == {n \in DOMAIN runLog : runLog[n].arm = arm}
ScoreOf(arm, task) == SumScores({n \in RunsOf(arm) : runLog[n].task = task})
SeedRate(arm, seed) == SumScores({n \in RunsOf(arm) : runLog[n].seed = seed})
IncumbentOf(e) == CHOOSE i \in DOMAIN e.arms : e.arms[i].kind = "incumbent"

(* aligned_scores: in the order of the incumbent's tasks *)
Aligned(arm) == [i \in DOMAIN tasksNow |-> ScoreOf(arm, tasksNow[i].id)]
Differences(arm) ==
  LET base == Aligned(experimentNow.arms[IncumbentOf(experimentNow)].id)
      own == Aligned(arm)
  IN [i \in DOMAIN tasksNow |-> own[i] - base[i]]

(* paired_bootstrap: between two means of tasks drawn with replacement *)
Resampled(arm) ==
  {SumOver([i \in DOMAIN tasksNow |-> Differences(arm)[draw[i]]]) : draw \in [DOMAIN tasksNow -> DOMAIN tasksNow]}
IntervalsOf(arm) == {ci \in Resampled(arm) \X Resampled(arm) : ci[1] <= ci[2]}

LooseVerdict(ci) == IF ci[1] >= 0 THEN "improvement" ELSE IF ci[2] < 0 THEN "regression" ELSE "inconclusive"
VerdictOn(ci) == IF ci[1] > 0 THEN "improvement" ELSE IF ci[2] < 0 THEN "regression" ELSE "inconclusive"

PerComparison(e) == IF e.multiplicity = "none" THEN e.alpha ELSE e.alpha \div Cardinality(Candidates(e))

IdOf(i) == experimentNow.arms[i].id
Summarize ==
  /\ tasksNow # <<>> /\ Len(runLog) = Cells /\ resultNow = NoComparison
  /\ Candidates(experimentNow) # {}
  /\ \E cis \in [Candidates(experimentNow) -> UNION {IntervalsOf(IdOf(i)) : i \in Candidates(experimentNow)}] :
       /\ \A i \in DOMAIN cis : cis[i] \in IntervalsOf(IdOf(i))
       /\ resultNow' =
            [compared |-> [i \in DOMAIN cis |->
               [arm |-> IdOf(i), ci |-> cis[i], delta |-> SumOver(Differences(IdOf(i))),
                verdict |-> VerdictOn(cis[i])]],
             alpha |-> PerComparison(experimentNow)]
  /\ UNCHANGED <<experimentNow, tasksNow, runLog, contributionAt, contributions, breaks>>

(* slices: a run counts where its task declares the key *)
SliceValues == {tasksNow[i].slice : i \in DOMAIN tasksNow} \ {NoName}
SliceRuns(arm, value) ==
  {n \in RunsOf(arm) : \E i \in DOMAIN tasksNow : tasksNow[i].id = runLog[n].task /\ tasksNow[i].slice = value}

-----------------------------------------------------------------------------
(* What is kept of the ablations: one record an arm, under their address   *)
ContributionOf(a) ==
  LET of == CHOOSE i \in DOMAIN resultNow.compared : resultNow.compared[i].arm = a.id
  IN [component |-> a.component, arm |-> a.id, delta |-> resultNow.compared[of].delta,
      verdict |-> resultNow.compared[of].verdict]
MarginalContributions == [i \in Ablations(experimentNow) |-> ContributionOf(experimentNow.arms[i])]

PersistContributions ==
  /\ resultNow # NoComparison /\ Ablations(experimentNow) # {} /\ contributionAt = NothingKept
  /\ contributionAt' = [address |-> MarginalContributions, bytes |-> MarginalContributions]
  /\ UNCHANGED <<experimentNow, tasksNow, runLog, resultNow, contributions, breaks>>

(* a record is lost from the bytes at rest *)
DamageContributions ==
  /\ contributionAt # NothingKept
  /\ \E i \in DOMAIN contributionAt.bytes :
       contributionAt' = [contributionAt EXCEPT !.bytes = Restrict(@, DOMAIN @ \ {i})]
  /\ UNCHANGED <<experimentNow, tasksNow, runLog, resultNow, contributions, breaks>>

AnyBytes(stored) == TRUE
HashesToAddress(stored) == stored.bytes = stored.address
LoadContributions ==
  /\ contributionAt # NothingKept /\ HashesToAddress(contributionAt)
  /\ contributions' = [loaded |-> TRUE, records |-> contributionAt.bytes]
  /\ UNCHANGED <<experimentNow, tasksNow, runLog, resultNow, contributionAt, breaks>>

AnalysisNext ==
  \/ DeclareExperiment \/ LoadTasks \/ RunCell \/ BackendBreaks \/ Summarize
  \/ PersistContributions \/ DamageContributions \/ LoadContributions

-----------------------------------------------------------------------------
AnalysisTypes ==
  /\ experimentNow \in ExperimentDrafts \cup {NoExperiment} /\ Len(runLog) <= Cells /\ breaks \in 0..MaxBreaks
  /\ \A n \in DOMAIN runLog : runLog[n].score \in {0, 1}

(* Nothing is said of an arm that its runs do not say: the mean paired     *)
(* difference is the difference of the means, an arm that did as well on    *)
(* every task has no verdict, an improvement won a task and a regression    *)
(* lost one, and the comparisons together spend no more than the alpha that *)
(* was declared, if it is shared (summarize_experiment)                    *)
ComparedAsPairs == \A k \in DOMAIN resultNow.compared :
  LET c == resultNow.compared[k]
      total(arm) == SumScores(RunsOf(arm))
      base == experimentNow.arms[IncumbentOf(experimentNow)].id
  IN /\ c.delta = total(c.arm) - total(base)
     /\ c.verdict = "improvement" => \E i \in DOMAIN tasksNow : Differences(c.arm)[i] > 0
     /\ c.verdict = "regression" => \E i \in DOMAIN tasksNow : Differences(c.arm)[i] < 0
     /\ experimentNow.multiplicity # "none" =>
          resultNow.alpha * Cardinality(DOMAIN resultNow.compared) <= experimentNow.alpha

(* every seed weighs the same, and a slice's runs are shared out among its  *)
(* values (build_variance_report, slice_aggregates)                        *)
EveryRunCounts == resultNow # NoComparison =>
  \A a \in DOMAIN experimentNow.arms :
    LET arm == experimentNow.arms[a].id IN
    /\ SumOver([s \in 0..(experimentNow.seeds - 1) |-> SeedRate(arm, s)]) = SumScores(RunsOf(arm))
    /\ SumOver([v \in SliceValues |-> Cardinality(SliceRuns(arm, v))])
         = Cardinality(RunsOf(arm)) - Cardinality(SliceRuns(arm, NoName))

(* An ablation is asked once and was declared before the runs, and what is  *)
(* loaded of it is all there was, whatever became of the bytes              *)
(* (_validate_ablation_family, load_contributions)                         *)
AblationsWereDeclared == contributions.loaded =>
  LET kept == contributions.records IN
  /\ DOMAIN kept = Ablations(experimentNow)
  /\ Cardinality(DOMAIN kept) = Cardinality({kept[k].component : k \in DOMAIN kept})
  /\ \A k \in DOMAIN kept :
       /\ kept[k].component \in experimentNow.family
       /\ \E c \in DOMAIN resultNow.compared :
            resultNow.compared[c].arm = kept[k].arm /\ resultNow.compared[c].delta = kept[k].delta

(* Sealed tasks are never run: whatever ran is in a partition that is open  *)
(* (ensure_unsealed, _validate_partition)                                  *)
SealedStaysSealed == \A n \in DOMAIN runLog :
  \E p \in UNION TaskSources :
    p.kind \notin {"holdout", "canary"} /\ \E i \in DOMAIN p.tasks : p.tasks[i].id = runLog[n].task

AnalysisIsHonest == ComparedAsPairs /\ EveryRunCounts /\ AblationsWereDeclared /\ SealedStaysSealed

=============================================================================
