--------------------------- MODULE SearchStrategies ---------------------------
(***************************************************************************)
(* The four strategies that learn from what they observe: the evolutionary *)
(* search over islands of elites, the workflow-graph search that replays   *)
(* its score history, the harness mutator that ranks its lineage           *)
(* (plugins/research), and the reflective prompt optimizer                 *)
(* (plugins/reference/gepa_prompt_optimizer.py).  A handler keeps nothing: *)
(* the orchestrator hands every call the state the last one returned, and  *)
(* it may ask twice for proposals before it reports a result, report       *)
(* results in any order, and report one candidate again.                   *)
(*                                                                         *)
(* Scores are small numbers; a descriptor is a pair of quarters of the     *)
(* unit square, so that a cell is a quarter and parents are apart when     *)
(* they are four quarters apart.                                           *)
(***************************************************************************)
EXTENDS Integers, Sequences, SequencesExt, FiniteSets

CONSTANTS
  Trials,           (* metrics of an algorithm: [marks, at], marks in the order of the keys *)
  NodeScores,       (* metrics of a graph: functions from nodes to scores *)
  Minibatches,      (* metrics of a prompt bundle: functions from instances to scores *)
  LineageRows,      (* rows of the productivity projection: [digest, passed, tokens] *)
  PlansPinned,      (* the stage plans an orchestrator may pin; <<>> when it pins none *)
  ModuleNames,      (* the prompt modules of the campaign, in their order *)
  ModuleFor,        (* instance -> the module that names it *)
  ObservedMost,     (* bounds of the model: results of a search, by strategy, *)
  RowsMost          (* and rows of a lineage *)

VARIABLES
  searching,    (* the strategy of the campaign *)
  learned,      (* the state that the orchestrator carries *)
  told,     (* the results reported so far *)
  offered       (* the proposal made from this state, a set of at most one *)

searchVars == <<searching, learned, told, offered>>

Strategies == {"evolution", "graph", "mutator", "gepa"}
NoOffer == {}
MostOf(S) == CHOOSE x \in S : \A y \in S : y <= x
LeastOf(S) == CHOOSE x \in S : \A y \in S : x <= y

-----------------------------------------------------------------------------
(* The evolutionary search                                                 *)

Islands == 0..1
CellOf(at) == [d \in 1..2 |-> LeastOf({at[d], 3})]
OriginPoint == <<2, 2>>
FarApart(p, q) == (p[1] - q[1]) * (p[1] - q[1]) + (p[2] - q[2]) * (p[2] - q[2]) >= 16

(* infer_stage_plan: one evaluator a stage, the one whose key comes last *)
InferredPlan(marks) ==
  LET numbers == {marks[i].stage : i \in DOMAIN marks}
      NameAt(s) == marks[MostOf({i \in DOMAIN marks : marks[i].stage = s})].name
  IN  [i \in 1..Cardinality(numbers) |->
         LET s == CHOOSE n \in numbers : Cardinality({k \in numbers : k < n}) = i - 1
         IN  [stage |-> s, name |-> NameAt(s), short |-> TRUE]]

MarksOf(marks, at) == {marks[i] : i \in {k \in DOMAIN marks : marks[k].stage = at.stage /\ marks[k].name = at.name}}
FailsAt(marks, at) == \E x \in MarksOf(marks, at) : ~x.passed
Unrun(marks, at) == MarksOf(marks, at) = {}

(* The same without the short circuit *)
VerdictOfLast(marks, plan) ==
  LET scores == IF plan = <<>> THEN {} ELSE {x.score : x \in MarksOf(marks, plan[Len(plan)])} \ {-1}
  IN  [passed |-> scores # {}, resolved |-> -1, score |-> IF scores = {} THEN -1 ELSE MostOf(scores), shorted |-> FALSE]

(* cascaded_verdict: a stage that never ran, or fails and short-circuits,  *)
(* ends the cascade; the others that fail leave it running                 *)
CascadeVerdict(marks, plan) ==
  LET ends == {i \in DOMAIN plan : Unrun(marks, plan[i]) \/ (FailsAt(marks, plan[i]) /\ plan[i].short)}
      reach == IF ends = {} THEN Len(plan) ELSE LeastOf(ends)
      failing == {i \in 1..reach : Unrun(marks, plan[i]) \/ FailsAt(marks, plan[i])}
      scores == IF plan = <<>> THEN {} ELSE {x.score : x \in MarksOf(marks, plan[Len(plan)])} \ {-1}
      short == ends # {} /\ ~Unrun(marks, plan[reach])
  IN  [passed |-> failing = {} /\ scores # {},
       resolved |-> IF failing = {} THEN -1 ELSE plan[MostOf(failing)].stage,
       score |-> IF short \/ scores = {} THEN -1 ELSE MostOf(scores),
       shorted |-> short]

(* archive_insert: a challenger has to beat the elite of its cell *)
Inserted(archive, cell, elite) ==
  IF cell \in DOMAIN archive /\ elite.score <= archive[cell].score THEN archive
  ELSE [c \in DOMAIN archive \cup {cell} |-> IF c = cell THEN elite ELSE archive[c]]

(* The islands merged: of equals in a cell, the first island's *)
Elites(islands) ==
  LET Holders(c) == {i \in Islands : c \in DOMAIN islands[i]}
      Best(c) == {i \in Holders(c) : \A j \in Holders(c) : islands[j][c].score <= islands[i][c].score}
  IN  {islands[LeastOf(Best(c))][c] : c \in UNION {DOMAIN islands[i] : i \in Islands}}

(* sample_diverse_parents, two at most: the best, and the best that is far *)
(* enough from it; equals in either order                                  *)
ParentPairs(elites) ==
  {p \in elites \X elites :
     LET a == p[1]  b == p[2] IN
     /\ \A e \in elites : e.score <= a.score
     /\ IF \E e \in elites : FarApart(e.at, a.at)
        THEN FarApart(b.at, a.at) /\ \A e \in elites : FarApart(e.at, a.at) => e.score <= b.score
        ELSE b = a}

(* mutate_descriptor: less than a quarter either way *)
Neighbours(at) == {at[1] - 1, at[1]} \X {at[2] - 1, at[2]}
Mutated(at) == {CellOf(<<MostOf({p[1], 0}), MostOf({p[2], 0})>>) : p \in Neighbours(at)}

EvolutionOffers ==
  LET elites == Elites(learned.islands)
  IN  IF elites = {} THEN {[id |-> learned.counter + 1, base |-> {}, cell |-> CellOf(OriginPoint), tool |-> TRUE]}
      ELSE UNION {{[id |-> learned.counter + 1, base |-> {pair[1], pair[2]}, cell |-> c,
                    tool |-> c # CellOf(pair[1].at)] :
                     c \in Mutated(pair[1].at)} : pair \in ParentPairs(elites)}

PlanFor(marks, pinned) == IF pinned # <<>> THEN pinned ELSE InferredPlan(marks)

(* observe: only what cleared every stage may enter its island *)
EvolutionLearns(result) ==
  LET verdict == CascadeVerdict(result.metrics.marks, PlanFor(result.metrics.marks, learned.plan))
      elite == [candidate |-> result.id, at |-> result.metrics.at, score |-> verdict.score,
                generation |-> learned.counter]
      island == learned.counter % 2
  IN  [learned EXCEPT !.counter = @ + 1, !.verdict = verdict,
         !.islands = IF verdict.passed
                     THEN [@ EXCEPT ![island] = Inserted(@, CellOf(result.metrics.at), elite)] ELSE @]

-----------------------------------------------------------------------------
(* The workflow-graph search.  A graph is [nodes, edges]; a node carries   *)
(* the number of its name and its operator.                                *)

Operators == <<"generate", "verify", "ensemble", "reflect">>
Weak == 1
MinNodes == 2
SeedGraph == [nodes |-> <<[id |-> 1, operator |-> "generate"], [id |-> 2, operator |-> "verify"]>>,
              edges |-> <<<<1, 2>>>>]
NamesIn(nodes) == {nodes[i].id : i \in DOMAIN nodes}

(* weakest_node among the scored ones: the first of the lowest *)
Scored(nodes, scores) == {i \in DOMAIN nodes : nodes[i].id \in DOMAIN scores}
WeakestOf(nodes, scores) ==
  nodes[LeastOf({i \in Scored(nodes, scores) :
                   \A j \in Scored(nodes, scores) : scores[nodes[i].id] <= scores[nodes[j].id]})].id

Refinement(nodes, scores) ==
  IF DOMAIN scores = {} THEN "seed"
  ELSE IF /\ Scored(nodes, scores) # {}
          /\ scores[WeakestOf(nodes, scores)] < Weak
          /\ Len(nodes) > MinNodes
       THEN "prune" ELSE "expand"

(* expand: the new node is named after the length of the graph *)
Expanded(graph, step) ==
  LET new == Len(graph.nodes) + 1
  IN  [nodes |-> Append(graph.nodes, [id |-> new, operator |-> Operators[(step % 4) + 1]]),
       edges |-> Append(graph.edges, <<new, Last(graph.nodes).id>>)]

(* The edges that are left, and no more *)
LeftAlone(kept, edges) == edges

(* prune: drop the node, walk the edges that are left once, in their order, *)
(* and hang every node the walk missed on the last one it reached           *)
Reattached(kept, edges) ==
  LET walked == FoldLeft(LAMBDA seen, e : IF e[1] \in seen THEN seen \cup {e[2]} ELSE seen, {kept[1].id}, edges)
      Hang(done, node) ==
        IF node.id \in done.seen THEN done
        ELSE [seen |-> done.seen \cup {node.id}, edges |-> Append(done.edges, <<MostOf(done.seen), node.id>>)]
  IN  FoldLeft(Hang, [seen |-> walked, edges |-> edges], kept).edges

Pruned(graph, name) ==
  LET kept == SelectSeq(graph.nodes, LAMBDA n : n.id # name)
      left == SelectSeq(graph.edges, LAMBDA e : e[1] # name /\ e[2] # name)
  IN  [nodes |-> kept, edges |-> Reattached(kept, left)]

Refined(graph, scores, step) ==
  CASE Refinement(graph.nodes, scores) = "seed" -> graph
    [] Refinement(graph.nodes, scores) = "expand" -> Expanded(graph, step)
    [] Refinement(graph.nodes, scores) = "prune" -> Pruned(graph, WeakestOf(graph.nodes, scores))

(* propose: the graph is replayed, an entry of the history a refinement *)
GraphOffers ==
  LET replay == FoldLeft(LAMBDA graph, i : Refined(graph, learned.history[i], i - 1), SeedGraph,
                         [i \in 1..(Len(learned.history) - 1) |-> i])
      newest == IF learned.history = <<>> THEN <<>> ELSE Last(learned.history)
      op == Refinement(replay.nodes, newest)
      next == Refined(replay, newest, learned.counter)
  IN  {[id |-> learned.counter + 1, op |-> op, graph |-> next,
        tool |-> op = "expand" /\ Last(next.nodes).operator \in {"verify", "ensemble"}]}

GraphLearns(result) ==
  [learned EXCEPT !.counter = @ + 1, !.history = Append(@, result.metrics)]

-----------------------------------------------------------------------------
(* The harness mutator                                                     *)

ExploreInterval == 4
RowsOf(rows, digest) == {i \in DOMAIN rows : rows[i].digest = digest}
PassesOf(rows, digest) == Cardinality({i \in RowsOf(rows, digest) : rows[i].passed})
TokensOf(rows, digest) ==
  FoldLeft(LAMBDA n, r : IF r.digest = digest /\ r.tokens # -1 THEN n + r.tokens ELSE n, 0, rows)
Costed(rows, digest) == \E i \in RowsOf(rows, digest) : rows[i].tokens # -1

(* productivity_ranking: the pass ratio, then the tokens an attestation    *)
(* costs (the ones that name none count too), then the digest              *)
RanksAbove(rows, d, e) ==
  LET n(x) == Cardinality(RowsOf(rows, x))
      ratio == PassesOf(rows, d) * n(e) - PassesOf(rows, e) * n(d)
      tokens == TokensOf(rows, d) * n(e) - TokensOf(rows, e) * n(d)
  IN  \/ ratio > 0
      \/ ratio = 0 /\ Costed(rows, d) /\ ~Costed(rows, e)
      \/ ratio = 0 /\ Costed(rows, d) /\ Costed(rows, e) /\ tokens < 0
      \/ ratio = 0 /\ Costed(rows, d) = Costed(rows, e) /\ (Costed(rows, d) => tokens = 0) /\ d < e

RankOf(rows, d) == Cardinality({r.digest : r \in {x \in ToSet(rows) : x.digest # d /\ RanksAbove(rows, x.digest, d)}})

(* choose_parent: the best, and every fourth time the runner-up *)
ParentOf(rows, counter) ==
  LET turn == counter % ExploreInterval = ExploreInterval - 1
      many == Cardinality({r.digest : r \in ToSet(rows)}) > 1
  IN  {r.digest : r \in {x \in ToSet(rows) : RankOf(rows, x.digest) = IF turn /\ many THEN 1 ELSE 0}}

(* propose: without attested rows, the incumbent that the runtime names, if any *)
MutatorOffers ==
  LET parents == ParentOf(learned.rows, learned.counter)
  IN  {[id |-> learned.counter + 1, base |-> base] : base \in IF parents # {} THEN {parents} ELSE {{}, {0}}}

MutatorLearns(result) ==
  [learned EXCEPT !.counter = @ + 1, !.archive = Append(@, [candidate |-> result.id, passed |-> result.passed])]

-----------------------------------------------------------------------------
(* The reflective prompt optimizer                                         *)

(* update_pareto_state: of the instances the newest result names *)
ParetoAfter(pareto, scores) ==
  [x \in DOMAIN scores |-> IF x \in DOMAIN pareto THEN MostOf({pareto[x], scores[x]}) ELSE scores[x]]

(* select_target_module: the first whose lowest score is the highest *)
Weakness(name, pareto) ==
  LET scores == {pareto[x] : x \in {y \in DOMAIN pareto : ModuleFor[y] = name}}
  IN  IF scores = {} THEN -1 ELSE LeastOf(scores)
TargetModule(pareto) ==
  ModuleNames[LeastOf({i \in DOMAIN ModuleNames :
                         \A j \in DOMAIN ModuleNames :
                           Weakness(ModuleNames[j], pareto) <= Weakness(ModuleNames[i], pareto)})]

GepaOffers ==
  {[id |-> learned.counter + 1, module |-> TargetModule(learned.pareto), parents |-> learned.frontier]}

StaysOn(list, id) == list
Without(list, id) == SelectSeq(list, LAMBDA c : c # id)
GepaLearns(result) ==
  LET counted == [learned EXCEPT !.counter = @ + 1]
  IN  IF result.passed
      THEN [counted EXCEPT !.frontier = Append(Without(@, result.id), result.id),
                           !.pareto = ParetoAfter(@, result.metrics)]
      ELSE [counted EXCEPT !.frontier = Without(@, result.id),
                           !.rejected = Append(Without(@, result.id), result.id)]

-----------------------------------------------------------------------------
(* The orchestrator's calls                                                *)

(* initialize: a strategy serves one class of artifacts, and a search that *)
(* runs code serves only a class whose correctness running it can settle;  *)
(* a campaign that is refused has no state to call with                    *)
ExternallyExecutable == {"workflow_graph", "tool_spec", "skill_script", "algorithm", "harness_patch", "scaffold"}
ServedBy == [evolution |-> "algorithm", graph |-> "workflow_graph", mutator |-> "scaffold", gepa |-> "prompt_bundle"]
Serves(class) == ServedBy[searching] = class /\ (searching # "gepa" => class \in ExternallyExecutable)

EvolutionState ==
  {[counter |-> 0, islands |-> [i \in Islands |-> <<>>], plan |-> plan, verdict |-> {}] : plan \in PlansPinned}
GraphState == {[counter |-> 0, history |-> <<>>]}
MutatorState == {[counter |-> 0, rows |-> <<>>, archive |-> <<>>]}
GepaState == {[counter |-> 0, pareto |-> <<>>, frontier |-> <<>>, rejected |-> <<>>]}

Fresh ==
  CASE searching = "evolution" -> EvolutionState
    [] searching = "graph" -> GraphState
    [] searching = "mutator" -> MutatorState
    [] searching = "gepa" -> GepaState

SearchInit ==
  /\ searching \in Strategies
  /\ \E class \in ExternallyExecutable \cup {"prompt_bundle"} : Serves(class) /\ learned \in Fresh
  /\ told = <<>> /\ offered = NoOffer

(* The orchestrator pins the rows that the lineage service gives *)
PinRow ==
  /\ searching = "mutator" /\ Len(learned.rows) < RowsMost
  /\ \E row \in LineageRows : learned' = [learned EXCEPT !.rows = Append(@, row)]
  /\ offered' = NoOffer /\ UNCHANGED <<searching, told>>

Offers ==
  CASE searching = "evolution" -> EvolutionOffers
    [] searching = "graph" -> GraphOffers
    [] searching = "mutator" -> MutatorOffers
    [] searching = "gepa" -> GepaOffers

(* propose changes nothing: asked again, it offers the same name; with no  *)
(* budget left it offers nothing                                           *)
Propose ==
  /\ \E p \in Offers : offered' = {p}
  /\ UNCHANGED <<searching, learned, told>>

ProposeNothing ==
  /\ offered' = NoOffer
  /\ UNCHANGED <<searching, learned, told>>

(* The results that can come back: of any candidate offered so far, where  *)
(* the strategy tells candidates apart by name or by whether they passed   *)
ToldOf == IF searching = "gepa" THEN 1..(learned.counter + 1) ELSE {learned.counter + 1}
Outcomes == IF searching = "gepa" THEN BOOLEAN ELSE {TRUE}
Metrics ==
  CASE searching = "evolution" -> Trials
    [] searching = "graph" -> NodeScores
    [] searching = "mutator" -> {<<>>}
    [] searching = "gepa" -> Minibatches

ObserveTrial ==
  /\ Len(told) < ObservedMost[searching]
  /\ \E id \in ToldOf, ok \in Outcomes, given \in Metrics :
       LET result == [id |-> id, passed |-> ok, metrics |-> given]
       IN  /\ told' = Append(told, result)
           /\ learned' = CASE searching = "evolution" -> EvolutionLearns(result)
                           [] searching = "graph" -> GraphLearns(result)
                           [] searching = "mutator" -> MutatorLearns(result)
                           [] searching = "gepa" -> GepaLearns(result)
  /\ offered' = NoOffer
  /\ UNCHANGED searching

SearchNext == PinRow \/ Propose \/ ProposeNothing \/ ObserveTrial

-----------------------------------------------------------------------------
SearchTypes ==
  /\ searching \in Strategies
  /\ learned.counter = Len(told)
  /\ \A o \in offered : o.id = learned.counter + 1

(* A cell of an island holds the first of the best candidates that cleared *)
(* every stage of the cascade while it was that island's turn, and nothing *)
(* else (archive_insert, cascaded_verdict, observe)                        *)
Cleared(i) ==
  LET plan == PlanFor(told[i].metrics.marks, learned.plan)
      Ran(at) == {x \in ToSet(told[i].metrics.marks) : x.stage = at.stage /\ x.name = at.name}
  IN  /\ plan # <<>>
      /\ \A k \in DOMAIN plan : \E x \in Ran(plan[k]) : x.passed
      /\ \E x \in Ran(Last(plan)) : x.score # -1
FitnessOf(i) ==
  LET final == Last(PlanFor(told[i].metrics.marks, learned.plan))
  IN  MostOf({x.score : x \in {y \in ToSet(told[i].metrics.marks) : y.stage = final.stage /\ y.name = final.name}})
ElitesAreEarned ==
  searching = "evolution" =>
    \A island \in Islands :
      LET entered(c) == {i \in DOMAIN told : /\ (i - 1) % 2 = island /\ Cleared(i)
                                                 /\ CellOf(told[i].metrics.at) = c}
          archive == learned.islands[island]
          cells == {CellOf(told[i].metrics.at) : i \in {k \in DOMAIN told : (k - 1) % 2 = island /\ Cleared(k)}}
      IN  /\ DOMAIN archive = cells
          /\ \A c \in cells : \E i \in entered(c) :
               /\ archive[c].candidate = told[i].id /\ archive[c].score = FitnessOf(i)
               /\ \A k \in entered(c) : FitnessOf(k) < FitnessOf(i) \/ (FitnessOf(k) = FitnessOf(i) /\ i <= k)

(* The parents of an evolved candidate are elites that lie apart           *)
ParentsLieApart ==
  searching = "evolution" => \A o \in offered : \A a, b \in o.base : a = b \/ FarApart(a.at, b.at)

(* A graph that is offered is in one piece: its edges join its nodes, and  *)
(* every node hangs together with the first (expand, prune)                *)
HangTogether(nodes, edges) ==
  LET grow[n \in 0..Len(nodes)] ==
        IF n = 0 THEN {nodes[1].id}
        ELSE grow[n - 1] \cup UNION {{e[1], e[2]} : e \in {x \in ToSet(edges) : {x[1], x[2]} \cap grow[n - 1] # {}}}
  IN  grow[Len(nodes)]
GraphStaysWhole ==
  searching = "graph" => \A o \in offered :
    LET g == o.graph
    IN  /\ \A i \in DOMAIN g.edges : {g.edges[i][1], g.edges[i][2]} \subseteq NamesIn(g.nodes)
        /\ HangTogether(g.nodes, g.edges) = NamesIn(g.nodes)

(* The frontier, from which parents are taken, is what passed its minibatch *)
(* the last time it was told (gepa observe, propose)                    *)
LatestPassed(id) ==
  LET mine == {i \in DOMAIN told : told[i].id = id}
  IN  mine # {} /\ told[MostOf(mine)].passed
ParentsHavePassed ==
  searching = "gepa" => ToSet(learned.frontier) = {id \in 1..Len(told) : LatestPassed(id)}

(* No lineage passes a larger share of its attestations than the one that  *)
(* is mutated, but for every fourth proposal, when at most one may          *)
(* (productivity_ranking, choose_parent)                                    *)
Better(d, e) == PassesOf(learned.rows, d) * Cardinality(RowsOf(learned.rows, e)) >
                PassesOf(learned.rows, e) * Cardinality(RowsOf(learned.rows, d))
BestIsMutated ==
  searching = "mutator" => \A o \in offered : \A e \in o.base \ {0} :
    Cardinality({d \in {r.digest : r \in ToSet(learned.rows)} : Better(d, e)}) <=
      IF learned.counter % 4 = 3 THEN 1 ELSE 0

(* What the search strategies have learned is what they were told, and     *)
(* what they offer rests on it (plugins/research, gepa_prompt_optimizer.py) *)
StrategiesLearn ==
  ElitesAreEarned /\ ParentsLieApart /\ GraphStaysWhole /\ ParentsHavePassed /\ BestIsMutated

=============================================================================
