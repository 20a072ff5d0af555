----------------------------- MODULE ArchiveViews -----------------------------
(***************************************************************************)
(* What the archives report of the evidence (selection/pareto_archive.py,  *)
(* selection/mutation_archive.py, selection/productivity.py, and the       *)
(* service's comparison with parents): rows join proposals to the          *)
(* attestations of their artifact; slices, classes and artifacts add rows  *)
(* up; the frontier is what nothing dominates.  A report is of the evidence *)
(* there is; the stored projections, which lag behind it, come second.     *)
(***************************************************************************)
EXTENDS Integers, Sequences, FiniteSets, Functions

CONSTANTS
  Ideas,        (* proposals that may be recorded: [id, artifact, parent, campaign, slices, class] *)
  Findings,     (* attestations that may be: [artifact, outcome, metrics, slices] *)
  CostMetrics,  (* of the names metrics have, those that are costs *)
  Dimensions,   (* of slices *)
  MaxFindings   (* bound of the model *)

(* proposal_id is a key, and _numeric_metrics keeps numbers only *)
ASSUME ViewAssumption ==
  /\ \A i, j \in Ideas : i.id = j.id => i = j
  /\ \A f \in Findings : \A k \in DOMAIN f.metrics : f.metrics[k] \in Int

VARIABLES
  ideas,        (* proposal_records *)
  findings      (* evaluation_attestations, oldest first *)

viewVars == <<ideas, findings>>

ViewInit == ideas = {} /\ findings = <<>>

RecordIdea == (\E i \in Ideas \ ideas : ideas' = ideas \cup {i}) /\ UNCHANGED findings
RecordFinding ==
  /\ Len(findings) < MaxFindings
  /\ \E f \in Findings : findings' = Append(findings, f)
  /\ UNCHANGED ideas

ViewNext == RecordIdea \/ RecordFinding

-----------------------------------------------------------------------------
(* Rows                                                                    *)
IdeasOf(c) == {i \in ideas : i.campaign = c}
Pair == [idea : ideas, finding : DOMAIN findings]
RowsIn(c) == {r \in Pair : r.idea \in IdeasOf(c) /\ findings[r.finding].artifact = r.idea.artifact}

(* of what is attested, the costs; every other metric is noise here *)
CostOf(r) == Restrict(findings[r.finding].metrics, CostMetrics \cap DOMAIN findings[r.finding].metrics)
PassedRows(rows) == {r \in rows : findings[r.finding].outcome = "pass"}

(* A slice that is declared wins over one that is attested *)
AttestedSlice(r, d) == {findings[r.finding].slices[e] : e \in {d} \cap DOMAIN findings[r.finding].slices}
SliceAttestedFirst(r, d) ==
  IF AttestedSlice(r, d) # {} THEN AttestedSlice(r, d) ELSE {r.idea.slices[e] : e \in {d} \cap DOMAIN r.idea.slices}
SliceOf(r, d) == IF d \in DOMAIN r.idea.slices THEN {r.idea.slices[d]} ELSE AttestedSlice(r, d)

-----------------------------------------------------------------------------
(* Sums, one to a value of a slice, a mutation class or an artifact        *)
SumOfAll(f) ==
  LET sum[S \in SUBSET DOMAIN f] ==
        IF S = {} THEN 0 ELSE LET x == CHOOSE x \in S : TRUE IN f[x] + sum[S \ {x}]
  IN  sum[DOMAIN f]

TotalOf(rows, k) == SumOfAll([r \in {r \in rows : k \in DOMAIN CostOf(r)} |-> CostOf(r)[k]])
SumUp(rows) ==
  [ideas |-> Cardinality({r.idea : r \in rows}), count |-> Cardinality(rows), passes |-> Cardinality(PassedRows(rows)),
   total |-> [k \in UNION {DOMAIN CostOf(r) : r \in rows} |-> TotalOf(rows, k)]]

SummarizeBySlice(c, d) ==
  [v \in UNION {SliceOf(r, d) : r \in RowsIn(c)} |-> SumUp({r \in RowsIn(c) : SliceOf(r, d) = {v}})]

ByArtifact(c) == [a \in {r.idea.artifact : r \in RowsIn(c)} |-> SumUp({r \in RowsIn(c) : r.idea.artifact = a})]

(* mutation classes: a proposal that declares none leaves no row, and the  *)
(* mean is of the rows that attest a fitness                               *)
NoClass == ""
ClassRows(k) == {r \in UNION {RowsIn(c) : c \in {i.campaign : i \in ideas}} : r.idea.class = k}
FitRows(k) == {r \in ClassRows(k) : "fitness" \in DOMAIN findings[r.finding].metrics}
SummarizeClasses ==
  [k \in {i.class : i \in {j \in ideas : ClassRows(j.class) # {}}} \ {NoClass} |->
     [ideas |-> Cardinality({r.idea : r \in ClassRows(k)}), count |-> Cardinality(ClassRows(k)),
      passes |-> Cardinality(PassedRows(ClassRows(k))), fit |-> Cardinality(FitRows(k)),
      fitness |-> SumOfAll([r \in FitRows(k) |-> findings[r.finding].metrics.fitness])]]

-----------------------------------------------------------------------------
(* Dominance, on rates and on the mean costs both sides have               *)
RateAtLeast(a, b) == a.passes * b.count >= b.passes * a.count
Cheaper(a, b, k) == a.total[k] * b.count < b.total[k] * a.count
Shared(a, b) == DOMAIN a.total \cap DOMAIN b.total
NotWorse(a, b) == RateAtLeast(a, b) /\ \A k \in Shared(a, b) : ~Cheaper(b, a, k)
DominatesWeakly(a, b) == NotWorse(a, b)
Dominates(a, b) ==
  /\ NotWorse(a, b)
  /\ ~RateAtLeast(b, a) \/ \E k \in Shared(a, b) : Cheaper(a, b, k)

DominatorsOf(c, x) == {y \in DOMAIN ByArtifact(c) \ {x} : Dominates(ByArtifact(c)[y], ByArtifact(c)[x])}
Frontier(c) == {x \in DOMAIN ByArtifact(c) : DominatorsOf(c, x) = {}}

-----------------------------------------------------------------------------
(* Against the parent: the latest attestation of each side                 *)
LatestFinding(a) ==
  LET of == {n \in DOMAIN findings : findings[n].artifact = a} IN
  {findings[n] : n \in {m \in of : \A o \in of : o <= m}}
MetricsOf(a) == UNION {{<<k, f.metrics[k]>> : k \in DOMAIN f.metrics} : f \in LatestFinding(a)}
Deltas(i) ==
  UNION {{<<m[1], m[2] - p[2]>> : p \in {q \in MetricsOf(i.parent) : q[1] = m[1]}} : m \in MetricsOf(i.artifact)}
GoodUp(k, delta) == delta > 0
GoodDelta(k, delta) == IF k \in CostMetrics THEN delta < 0 ELSE delta > 0
Gains(i) == {x[1] : x \in {y \in Deltas(i) : y[2] # 0 /\ GoodDelta(y[1], y[2])}}
Regressions(i) == {x[1] : x \in {y \in Deltas(i) : y[2] # 0 /\ ~GoodDelta(y[1], y[2])}}

-----------------------------------------------------------------------------
ViewTypes == ideas \subseteq Ideas /\ Len(findings) <= MaxFindings /\ Range(findings) \subseteq Findings

(* The frontier is fair: nothing dominates what dominates it, and where all *)
(* were measured on the same costs the frontier has someone, and whoever is *)
(* off it is dominated by someone on it (_dominates, pareto_frontier)      *)
FrontierIsFair == \A c \in {i.campaign : i \in ideas} :
  LET all == ByArtifact(c) IN
  /\ \A x, y \in DOMAIN all : y \in DominatorsOf(c, x) => x \notin DominatorsOf(c, y)
  /\ (\A x, y \in DOMAIN all : DOMAIN all[x].total = DOMAIN all[y].total) =>
       \A x \in DOMAIN all \ Frontier(c) : Frontier(c) \cap DominatorsOf(c, x) # {}

(* However often an artifact is proposed, its rate is that of its own       *)
(* attestations; a proposal that declares a slice has all its rows in it,   *)
(* and the values of a slice share its rows out                            *)
(* (_aggregate_by_artifact, _slice_values, summarize_by_slice)             *)
RowsAddUp == \A c \in {i.campaign : i \in ideas} :
  /\ \A x \in DOMAIN ByArtifact(c) :
       LET own == {n \in DOMAIN findings : findings[n].artifact = x}
           good == {n \in own : findings[n].outcome = "pass"}
       IN ByArtifact(c)[x].passes * Cardinality(own) = Cardinality(good) * ByArtifact(c)[x].count
  /\ \A d \in Dimensions :
       LET told == SummarizeBySlice(c, d) IN
       /\ \A r \in RowsIn(c) : d \in DOMAIN r.idea.slices => SliceOf(r, d) = {r.idea.slices[d]}
       /\ SumOfAll([v \in DOMAIN told |-> told[v].count]) = Cardinality({r \in RowsIn(c) : SliceOf(r, d) # {}})
       /\ \A v \in DOMAIN told : told[v].passes <= told[v].count

(* A comparison reads the same from both ends: what a candidate gains over  *)
(* its parent is what the parent loses to it, costs the other way about     *)
(* (compare_with_parent); and a class's mean fitness lies among the ones    *)
(* that were attested (summarize_mutation_archive)                         *)
ComparedFairly ==
  /\ \A i \in ideas, j \in ideas :
       i.artifact = j.parent /\ j.artifact = i.parent => Gains(i) = Regressions(j) /\ Gains(j) = Regressions(i)
  /\ \A i \in ideas : \A x \in Deltas(i) : x[1] \in CostMetrics /\ x[2] > 0 => x[1] \in Regressions(i)
  /\ \A k \in DOMAIN SummarizeClasses :
       LET told == SummarizeClasses[k] IN
       told.fit > 0 => \E r \in FitRows(k), s \in FitRows(k) :
            /\ findings[r.finding].metrics.fitness * told.fit <= told.fitness
            /\ findings[s.finding].metrics.fitness * told.fit >= told.fitness

ViewsAreFair == FrontierIsFair /\ RowsAddUp /\ ComparedFairly

-----------------------------------------------------------------------------
(* The stored projections: a table of typed rows that one call rebuilds    *)
(* from the evidence, others read whenever they are asked, and reconcile   *)
(* compares with the evidence.  Nothing keeps it fresh, and it may be      *)
(* written by hand ("it is not append-only").  One table is followed, with *)
(* the calls of one session; EvidenceArchive has concurrent ones.          *)
CONSTANTS
  Archives,       (* tables to follow: "productivity", "pareto", "mutation" *)
  TableIdeas,     (* of the Ideas, those recorded *)
  TableFindings,  (* of the Findings, those attested *)
  MaxListed       (* bound on each of the two *)

(* there are three of these tables *)
ASSUME TableAssumption == Archives \subseteq {"productivity", "pareto", "mutation"}

VARIABLES
  archive,        (* which table this is *)
  table,          (* its rows, by proposal and attestation *)
  spoiled         (* history: written to by hand since its last rebuild *)

tableVars == <<archive, table, spoiled>>

TablesInit == archive \in Archives /\ table = <<>> /\ spoiled = FALSE

-----------------------------------------------------------------------------
(* The pure builders                                                       *)
AllRows == {r \in Pair : findings[r.finding].artifact = r.idea.artifact}
KeyOf(r) == <<r.idea.id, r.finding>>
TableOf(columns) ==
  [k \in {KeyOf(r) : r \in DOMAIN columns} |-> columns[CHOOSE r \in DOMAIN columns : KeyOf(r) = k]]

NoColumns == [artifact |-> "", parent |-> "", campaign |-> "", outcome |-> "", class |-> "",
              cost |-> <<>>, fitness |-> {}, slices |-> {}]
EvidenceOf(r) ==
  [NoColumns EXCEPT !.artifact = r.idea.artifact, !.parent = r.idea.parent, !.campaign = r.idea.campaign,
                    !.outcome = findings[r.finding].outcome]

ProductivityRow(r) == [EvidenceOf(r) EXCEPT !.cost = CostOf(r)]
ParetoRow(r) ==
  [EvidenceOf(r) EXCEPT !.cost = CostOf(r),
     !.slices = UNION {{<<d, v>> : v \in SliceOf(r, d)} : d \in Dimensions}]
MutationRow(r) ==
  [EvidenceOf(r) EXCEPT !.class = r.idea.class,
     !.fitness = {findings[r.finding].metrics[m] : m \in {"fitness"} \cap DOMAIN findings[r.finding].metrics}]

ProjectProductivity == TableOf([r \in AllRows |-> ProductivityRow(r)])
ProjectParetoRows == TableOf([r \in AllRows |-> ParetoRow(r)])
ProjectMutationArchive == TableOf([r \in {r \in AllRows : r.idea.class # NoClass} |-> MutationRow(r)])

Expected == CASE archive = "productivity" -> ProjectProductivity
              [] archive = "pareto" -> ProjectParetoRows
              [] archive = "mutation" -> ProjectMutationArchive

(* rebuild: the rows are deleted and written anew *)
RowsAdded == [k \in DOMAIN Expected \cup DOMAIN table |-> IF k \in DOMAIN table THEN table[k] ELSE Expected[k]]
RowsReplaced == Expected
Rebuild == table' = RowsReplaced /\ spoiled' = FALSE /\ UNCHANGED <<archive, viewVars>>

(* A row is written by hand: lost, its outcome turned over, a cost changed *)
SpoilRow ==
  /\ ~spoiled /\ spoiled' = TRUE
  /\ \E k \in DOMAIN table :
       \/ table' = Restrict(table, DOMAIN table \ {k})
       \/ table' = [table EXCEPT ![k].outcome = IF @ = "pass" THEN "fail" ELSE "pass"]
       \/ \E c \in DOMAIN table[k].cost : table' = [table EXCEPT ![k].cost[c] = @ + 1]
  /\ UNCHANGED <<archive, viewVars>>

-----------------------------------------------------------------------------
(* _row_diffs: rows only one side has, and for a row of both the columns   *)
(* that differ; a column without a value differs from one with any         *)
KeysApart(expected) ==
  {<<"missing", k>> : k \in (DOMAIN expected) \ (DOMAIN table)} \cup
  {<<"stale", k>> : k \in (DOMAIN table) \ (DOMAIN expected)}
Common(expected) == DOMAIN table \cap DOMAIN expected
FieldsApart(expected, fields) ==
  {p \in fields \X Common(expected) : table[p[2]][p[1]] # expected[p[2]][p[1]]}
Told(f, x) == {f[y] : y \in {x} \cap DOMAIN f}
CostsTrusted(expected) == {}
CostsApart(expected) ==
  {p \in CostMetrics \X Common(expected) : Told(table[p[2]].cost, p[1]) # Told(expected[p[2]].cost, p[1])}

SharedColumns == {"artifact", "parent", "campaign", "outcome"}
ProductivityDrift ==
  LET expected == ProjectProductivity IN
  KeysApart(expected) \cup FieldsApart(expected, SharedColumns) \cup CostsApart(expected)
ParetoDrift ==
  LET expected == ProjectParetoRows IN
  KeysApart(expected) \cup FieldsApart(expected, SharedColumns \cup {"slices"}) \cup CostsApart(expected)
MutationDrift ==
  LET expected == ProjectMutationArchive IN
  KeysApart(expected) \cup FieldsApart(expected, SharedColumns \cup {"class", "fitness"})

Drift == CASE archive = "productivity" -> ProductivityDrift
           [] archive = "pareto" -> ParetoDrift
           [] archive = "mutation" -> MutationDrift

-----------------------------------------------------------------------------
(* What is read of the table, as of the rows it has                        *)
KeysWith(column, value) == {k \in DOMAIN table : table[k][column] = value}
SumOfColumn(keys, c) == SumOfAll([k \in {k \in keys : c \in DOMAIN table[k].cost} |-> table[k].cost[c]])
Figures(keys) ==
  [ideas |-> Cardinality({k[1] : k \in keys}), count |-> Cardinality(keys),
   passes |-> Cardinality({k \in keys : table[k].outcome = "pass"}),
   total |-> [c \in UNION {DOMAIN table[k].cost : k \in keys} |-> SumOfColumn(keys, c)]]

Summary == [a \in {table[k].artifact : k \in DOMAIN table} |-> Figures(KeysWith("artifact", a))]
StoredFrontier(c) ==
  LET of == KeysWith("campaign", c)
      all == [a \in {table[k].artifact : k \in of} |-> Figures({k \in of : table[k].artifact = a})]
  IN  {a \in DOMAIN all : \A b \in DOMAIN all : ~Dominates(all[b], all[a])}
Classes ==
  [m \in {table[k].class : k \in DOMAIN table} |->
     LET of == KeysWith("class", m) IN
     [ideas |-> Cardinality({k[1] : k \in of}), count |-> Cardinality(of),
      passes |-> Cardinality({k \in of : table[k].outcome = "pass"}),
      fit |-> Cardinality({k \in of : table[k].fitness # {}}),
      fitness |-> SumOfAll([k \in {k \in of : table[k].fitness # {}} |-> CHOOSE x \in table[k].fitness : TRUE])]]

TablesNext ==
  \/ Cardinality(ideas) < MaxListed /\ RecordIdea /\ ideas' \subseteq TableIdeas /\ UNCHANGED tableVars
  \/ Len(findings) < MaxListed /\ RecordFinding /\ Range(findings') \subseteq TableFindings /\ UNCHANGED tableVars
  \/ Rebuild
  \/ SpoilRow

-----------------------------------------------------------------------------
TablesTypes ==
  /\ archive \in Archives /\ spoiled \in BOOLEAN
  /\ DOMAIN table \subseteq {i.id : i \in ideas} \X DOMAIN findings

(* The tables are only ever behind: the evidence is append-only, so a table *)
(* nobody wrote to by hand lacks rows at most; one that was written to     *)
(* never reconciles; and a table that reconciles says of artifacts,        *)
(* frontiers and classes what the evidence says (reconcile, summary,       *)
(* frontier, classes)                                                      *)
TablesTellDrift ==
  /\ ~spoiled => \A x \in Drift : x[1] = "missing"
  /\ spoiled => Drift # {}
  /\ archive = "productivity" /\ Drift = {} =>
       Summary = [a \in {r.idea.artifact : r \in AllRows} |-> SumUp({r \in AllRows : r.idea.artifact = a})]
  /\ archive = "pareto" /\ Drift = {} => \A c \in {i.campaign : i \in ideas} : StoredFrontier(c) = Frontier(c)
  /\ archive = "mutation" /\ Drift = {} => Classes = SummarizeClasses

=============================================================================
