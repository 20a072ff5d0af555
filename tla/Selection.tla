------------------------------- MODULE Selection -------------------------------
(***************************************************************************)
(* The selection plane (selection/): the trusted selector freezes one      *)
(* nominee per arm into the tenant's status-event log; and a mutation      *)
(* class joins the production extensions (at the end of this module).      *)
(*                                                                         *)
(* One tenant.  The log is shared: approvals and memory promotions write   *)
(* the same event kinds, with reasons that name no arm.  An approval whose *)
(* reason starts with "arm=" is left out.  Candidates and arms are numbers *)
(* in digest order; scores and costs are small integers, cost 0 standing   *)
(* for "not attested" (attested_cost treats both alike).                   *)
(***************************************************************************)
EXTENDS Integers, Sequences, FiniteSets, GateReadings

CONSTANTS
  Results,       (* observations: [arm, candidate, score, cost] *)
  Floors,        (* min_score of the rules to try *)
  MaxObservations, MaxOthers     (* bounds of the model: observations, other events *)

ASSUME SelectionAssumption ==
  /\ Results \subseteq [arm : Nat \ {0}, candidate : Nat, score : Nat, cost : Nat]
  /\ Floors \subseteq Int

VARIABLES
  rule,          (* the campaign's pinned nomination rule *)
  eventLog,      (* status events of the tenant, in the order of their commits *)
  pending,       (* observations of the selection partition, edits included *)
  observed       (* history: the observations the freeze chose from *)

selectionVars == <<rule, eventLog, pending, observed>>

NoArm == 0
SetMin(S) == CHOOSE x \in S : \A y \in S : x <= y

SelectionInit ==
  /\ rule \in [metric : {"selection_score", "productivity_score"}, floor : Floors]
  /\ eventLog = <<>> /\ pending = {} /\ observed = {}

-----------------------------------------------------------------------------
(* _nominate: the floor is on the score, whatever the metric; productivity *)
(* ranks what it can price, by score per unit of the arm's largest cost    *)
Eligible(candidates) == {o \in candidates : o.score >= rule.floor}
Priced(candidates) == {o \in Eligible(candidates) : o.cost > 0}

Above(o, p) == IF rule.metric = "selection_score" THEN o.score > p.score
               ELSE o.score * p.cost > p.score * o.cost

Rankable(candidates) == IF rule.metric = "selection_score" THEN Eligible(candidates) ELSE Priced(candidates)
Tied(candidates) == {o \in Rankable(candidates) : \A p \in Rankable(candidates) : ~Above(p, o)}
Nominee(candidates) == SetMin({o.candidate : o \in Tied(candidates)})

ArmsOf(observations) == {o.arm : o \in observations}
OfArm(observations, arm) == {o \in observations : o.arm = arm}

(* frozen(): the last nomination of each arm that list_status_events gives. *)
(* It gives them in the order of their ids, which are random: any of an     *)
(* arm's nominations may be the last.                                       *)
NominationsAll(events) == {events[e] : e \in {e \in DOMAIN events : events[e].kind = "nominate"}}
Nominations(events) ==
  {events[e] : e \in {e \in DOMAIN events : events[e].kind = "nominate" /\ events[e].arm # NoArm}}
Frozen(events) ==
  {f \in [ArmsOf(Nominations(events)) -> {n.candidate : n \in Nominations(events)}] :
     \A arm \in DOMAIN f : \E n \in Nominations(events) : n.arm = arm /\ n.candidate = f[arm]}

Closed(arm) == arm \in ArmsOf(Nominations(eventLog))

(* one observation per candidate and arm *)
New(o) == \A p \in pending : <<p.arm, p.candidate>> # <<o.arm, o.candidate>>
Collect(o) ==
  /\ Cardinality(pending) < MaxObservations
  /\ New(o)
  /\ pending' = pending \cup {o}
  /\ UNCHANGED <<rule, eventLog, observed>>

Observe(o) == Collect(o)

(* apply_strategy_edit: an unscored observation, refused once the arm is frozen *)
StrategyEdit(o) == ~Closed(o.arm) /\ Collect([o EXCEPT !.score = 0, !.cost = 0])

(* The events of a freeze: what they are, and arm by arm the nominee, then *)
(* the losers                                                              *)
Decisions(observations) ==
  LET best == [arm \in ArmsOf(observations) |-> Nominee(OfArm(observations, arm))]
  IN  {[arm |-> o.arm, candidate |-> o.candidate,
        kind |-> IF o.candidate = best[o.arm] THEN "nominate" ELSE "reject"] : o \in observations}

Before(e, f) == \/ e.arm < f.arm
                \/ e.arm = f.arm /\ e.kind = "nominate" /\ f.kind = "reject"
                \/ e.arm = f.arm /\ e.kind = f.kind /\ e.candidate < f.candidate

FreezeEvents(observations) ==
  LET events == Decisions(observations)
  IN  CHOOSE s \in [1..Cardinality(events) -> events] :
        {s[i] : i \in DOMAIN s} = events /\ \A i, j \in DOMAIN s : i < j => Before(s[i], s[j])

(* freeze: once per tenant, and only if every arm has something to nominate *)
Unfrozen == Nominations(eventLog) = {}

Freeze ==
  /\ Unfrozen
  /\ pending # {} /\ \A arm \in ArmsOf(pending) : Rankable(OfArm(pending, arm)) # {}
  /\ eventLog' = eventLog \o FreezeEvents(pending)
  /\ observed' = pending
  /\ UNCHANGED <<rule, pending>>

(* record_approval, promote_entry: the same kinds, about the same artifacts *)
OtherEvent(candidate, kindOf) ==
  /\ Cardinality({e \in DOMAIN eventLog : eventLog[e].arm = NoArm}) < MaxOthers
  /\ eventLog' = Append(eventLog, [arm |-> NoArm, candidate |-> candidate, kind |-> kindOf])
  /\ UNCHANGED <<rule, pending, observed>>

SelectionNext ==
  \/ \E o \in Results : Observe(o) \/ StrategyEdit(o) \/ \E k \in {"nominate", "reject"} : OtherEvent(o.candidate, k)
  \/ Freeze

-----------------------------------------------------------------------------
SelectionTypes ==
  /\ rule.floor \in Floors /\ observed \subseteq pending
  /\ \A o \in pending : o.arm > NoArm /\ o.score \in Nat /\ o.cost \in Nat
  /\ eventLog \in Seq([arm : Nat, candidate : Nat, kind : {"nominate", "reject"}])

(* "exactly one nominee digest per arm", chosen by the pinned rule, and    *)
(* immutable (nomination.py): whatever is appended after the freeze -      *)
(* approvals and memory promotions of the same artifacts, another freeze - *)
(* and in whatever order the registry lists the events,                    *)
(* the arms of the frozen selection and no other have a nominee; it is at  *)
(* the floor, no rival with a better score (or, per cost, with as good a   *)
(* score at less cost and one of the two strictly better) was passed over, *)
(* and every other candidate of the arm was rejected.                      *)
NomineesFollowTheRule ==
  /\ ArmsOf(Nominations(eventLog)) = ArmsOf(observed)
  /\ \A frozen \in Frozen(eventLog), arm \in ArmsOf(observed) :
       LET rivals == OfArm(observed, arm)
           chosen == CHOOSE o \in rivals : o.candidate = frozen[arm]
       IN /\ chosen \in rivals /\ chosen.score >= rule.floor
          /\ \A o \in rivals \ {chosen} :
               /\ \E e \in DOMAIN eventLog : eventLog[e] = [arm |-> arm, candidate |-> o.candidate, kind |-> "reject"]
               /\ rule.metric = "selection_score" => o.score <= chosen.score
               /\ rule.metric = "productivity_score" /\ o.score >= rule.floor /\ o.cost > 0 =>
                    ~(/\ o.score >= chosen.score /\ o.cost <= chosen.cost
                      /\ <<o.score, o.cost>> # <<chosen.score, chosen.cost>> /\ o.score > 0)

-----------------------------------------------------------------------------
(* Graduation of mutation classes (selection/graduation.py): a class joins *)
(* the production extensions when its signed risk dossier is the one its   *)
(* binding pinned and resolves to no more authority than they have.  A     *)
(* dossier is drawn with the tier its binding allows and with what its     *)
(* verification says, and is shown as its binding pinned it or not.        *)
(* Decisions are appended to a ledger that nothing reads back: the model   *)
(* keeps the last of them.                                                 *)
CONSTANTS Dossiers   (* [artifact, radius, isolation, reversible, compensable, maxTier, genuine] *)

VARIABLES
  production,    (* dossiers of the extensions in production *)
  precedent,     (* history: the dossiers production began with *)
  decided        (* the last row of graduation_decisions *)

graduationVars == <<production, precedent, decided>>

(* GraduationRefusal, and the row of a decision *)
Refusals == {"no_dossier", "unverified_dossier", "class_id_mismatch", "dossier_digest_mismatch",
             "tier_exceeds_binding", "not_compensable", "risk_not_comparable"}
DecisionRows == [granted : BOOLEAN, refusal : Refusals \cup {"none"}, tier : 0..4]

(* GraduationBinding: what the class's binding says of the dossier shown;  *)
(* a class without a binding pinned nothing                                *)
Showings == {"nothing", "of_another_class", "not_as_pinned", "as_pinned"}

GraduationInit ==
  /\ production \in SUBSET Dossiers /\ precedent = production
  /\ decided = [granted |-> FALSE, refusal |-> "none", tier |-> 0]

(* resolved_release: what a dossier projects to, and the tier it warrants  *)
DossierRelease(d) ==
  [classes |-> {d.artifact}, executable |-> d.radius \in {"runtime", "self_source"},
   harness |-> d.radius = "self_source", direct |-> FALSE, reversible |-> d.reversible,
   runtime |-> d.radius \in {"runtime", "self_source"}]
AuthorityTier(d) == ResolveTier(DossierRelease(d))

(* RiskDossier.__post_init__ *)
Coherent(d) ==
  /\ d.radius = "self_source" => d.isolation = 3
  /\ d.radius = "runtime" => d.isolation >= 2
  /\ d.reversible => d.compensable

(* the tier of the extensions in production *)
AnyPrecedent(d) == production # {}
Comparable(d) == \E p \in production : AuthorityTier(d) <= AuthorityTier(p)

(* evaluate_graduation: the questions in the order they are asked; one     *)
(* dossier in production that does not verify leaves nothing to compare with *)
Question(refusal, holds) == [refusal |-> refusal, holds |-> holds]
Questions(d, shown) ==
  <<Question("no_dossier", shown # "nothing"),
    Question("unverified_dossier", d.genuine),
    Question("class_id_mismatch", shown # "of_another_class"),
    Question("dossier_digest_mismatch", shown # "not_as_pinned"),
    Question("tier_exceeds_binding", d.isolation <= d.maxTier),
    Question("not_compensable", d.compensable),
    Question("unverified_dossier", \A p \in production : p.genuine),
    Question("risk_not_comparable", Comparable(d))>>

Granted(d, shown) == \A i \in 1..8 : Questions(d, shown)[i].holds

(* _refused: the first question answered no; the tier of the class is      *)
(* resolved once the dossier itself has passed                             *)
Refused(d, shown) ==
  LET asked == Questions(d, shown)
      first == CHOOSE i \in DOMAIN asked : ~asked[i].holds /\ \A j \in 1..(i - 1) : asked[j].holds
  IN  [granted |-> FALSE, refusal |-> asked[first].refusal, tier |-> IF first > 6 THEN AuthorityTier(d) ELSE 0]

(* record_graduation_decision; a granted class is deployed *)
Graduate(d) ==
  /\ Coherent(d)
  /\ \E shown \in Showings :
       \/ /\ Granted(d, shown)
          /\ decided' = [granted |-> TRUE, refusal |-> "none", tier |-> AuthorityTier(d)]
          /\ production' = production \cup {d}
       \/ /\ ~Granted(d, shown)
          /\ decided' = Refused(d, shown)
          /\ UNCHANGED production
  /\ UNCHANGED precedent

GraduationNext == \E d \in Dossiers : Graduate(d)

GraduationTypes ==
  /\ precedent \subseteq production /\ production \subseteq Dossiers
  /\ decided \in DecisionRows

(* "graduation demands risk comparable to production, not more"            *)
(* (graduation.py): however many classes graduate, none has more authority *)
(* than what production began with, and nothing graduates without that.    *)
RiskNeverClimbs ==
  \A d \in production : \E p \in precedent : AuthorityTier(d) <= AuthorityTier(p)

=============================================================================
