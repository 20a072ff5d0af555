--------------------------- MODULE FleetConvergence ---------------------------
(***************************************************************************)
(* The fleet behind the release plane, as the in-process simulator keeps   *)
(* it (release/fleet.py) and the service wraps it (ServiceNamespacedFleet, *)
(* api/canary.py): workers whose caches are dropped by an invalidation and *)
(* fill again, each after its own latency; sessions pinned for life; the   *)
(* digests they report; and the memory of the two arms.  The wrapper keeps *)
(* an arm of its own for every session it pins, a new wrapper for every    *)
(* canary, and the fleet outlives them all.                                *)
(***************************************************************************)
EXTENDS Integers, FiniteSets

CONSTANTS
  Latency,      (* worker -> the seconds it takes to resolve again *)
  Sessions,     (* names of sessions *)
  Digests,      (* manifests *)
  StateKeys,         (* keys of state *)
  MaxClock,     (* bounds of the model *)
  MaxMoves

VARIABLES
  seconds,      (* the fleet's clock *)
  cached,       (* worker -> the digest it serves, None when it serves none *)
  resolvesAt,   (* worker -> when it resolves again, -1 when nothing is pending *)
  current,      (* the digest that is active, as the fleet knows it *)
  invalidatedAt,    (* when caches were dropped last, -1 for never *)
  pinnedTo,     (* session -> [digest, arm], for those that are pinned *)
  armOf,        (* the wrapper's own record of arms *)
  digestReports,      (* [session, digest] reported *)
  fleetMemory,  (* <<namespace, key>> -> the session that wrote it last *)
  fleetMoves    (* calls made, a bound of the model *)

fleetVars ==
  <<seconds, cached, resolvesAt, current, invalidatedAt, pinnedTo, armOf, digestReports, fleetMemory, fleetMoves>>

Workers == DOMAIN Latency

(* a fleet has a worker (InProcessFleetSimulator.__post_init__) *)
ASSUME FleetAssumption ==
  /\ Workers # {} /\ IsFiniteSet(Workers) /\ Latency \in [Workers -> Nat]
  /\ IsFiniteSet(Sessions) /\ "none" \notin Digests

SessionArms == {"incumbent", "candidate"}
Uncached == "none"

FleetInit ==
  /\ seconds = 0
  /\ cached = [w \in Workers |-> Uncached] /\ resolvesAt = [w \in Workers |-> -1]
  /\ current = Uncached /\ invalidatedAt = -1
  /\ pinnedTo = <<>> /\ armOf = <<>> /\ digestReports = {} /\ fleetMemory = <<>> /\ fleetMoves = 0

Called == fleetMoves < MaxMoves /\ fleetMoves' = fleetMoves + 1

-----------------------------------------------------------------------------
(* Convergence                                                             *)

SetActive ==
  /\ Called
  /\ \E d \in Digests : current' = d
  /\ UNCHANGED <<seconds, cached, resolvesAt, invalidatedAt, pinnedTo, armOf, digestReports, fleetMemory>>

(* Every cache is dropped, at once; the refills come as they come *)
Invalidate ==
  /\ Called
  /\ \E d \in Digests : current' = d
  /\ invalidatedAt' = seconds
  /\ cached' = [w \in Workers |-> Uncached]
  /\ resolvesAt' = [w \in Workers |-> seconds + Latency[w]]
  /\ UNCHANGED <<seconds, pinnedTo, armOf, digestReports, fleetMemory>>

Pass ==
  /\ seconds < MaxClock /\ seconds' = seconds + 1
  /\ UNCHANGED <<cached, resolvesAt, current, invalidatedAt, pinnedTo, armOf, digestReports, fleetMemory, fleetMoves>>

(* tick: a worker whose time has come resolves what is active now *)
Elapsed(w) == resolvesAt[w] # -1 /\ resolvesAt[w] <= seconds
ResolvePending ==
  /\ cached' = [w \in Workers |-> IF Elapsed(w) THEN current ELSE cached[w]]
  /\ resolvesAt' = [w \in Workers |-> IF Elapsed(w) THEN -1 ELSE resolvesAt[w]]
  /\ UNCHANGED <<seconds, current, invalidatedAt, pinnedTo, armOf, digestReports, fleetMemory, fleetMoves>>

Converged == {w \in Workers : cached[w] = current}

(* p99_convergence_seconds: of the latencies, the one at the rank *)
Rank99 == LET n == Cardinality(Workers) IN (99 * n + 99) \div 100
P99 == CHOOSE s \in {Latency[w] : w \in Workers} :
         /\ Cardinality({w \in Workers : Latency[w] <= s}) >= Rank99
         /\ Cardinality({w \in Workers : Latency[w] < s}) < Rank99

-----------------------------------------------------------------------------
(* Sessions                                                                *)

PinnedSessions == DOMAIN pinnedTo

(* a dict, with the value of one key set *)
PutIn(dict, k, value) == [j \in DOMAIN dict \cup {k} |-> IF j = k THEN value ELSE dict[j]]

(* Pinned for life: another digest is refused, the same one a no-op *)
PinnedAnew(s, d, arm) == PutIn(pinnedTo, s, [digest |-> d, arm |-> arm])
PinnedBy(s, d, arm) == IF s \in PinnedSessions THEN pinnedTo ELSE PutIn(pinnedTo, s, [digest |-> d, arm |-> arm])

(* Through the wrapper, which notes the arm before the fleet has its say *)
PinSession ==
  /\ Called
  /\ \E s \in Sessions, d \in Digests, arm \in SessionArms :
       /\ armOf' = PutIn(armOf, s, arm)
       /\ pinnedTo' = PinnedBy(s, d, arm)
  /\ UNCHANGED <<seconds, cached, resolvesAt, current, invalidatedAt, digestReports, fleetMemory>>

(* A new canary wraps the same fleet anew *)
NewWrapper ==
  /\ Called /\ armOf' = <<>>
  /\ UNCHANGED <<seconds, cached, resolvesAt, current, invalidatedAt, pinnedTo, digestReports, fleetMemory>>

(* report_digest: only what the session resolves *)
Truthful(s, d) == pinnedTo[s].digest = d
ReportDigest ==
  /\ Called
  /\ \E s \in PinnedSessions, d \in Digests :
       Truthful(s, d) /\ digestReports' = digestReports \cup {[session |-> s, digest |-> d]}
  /\ UNCHANGED <<seconds, cached, resolvesAt, current, invalidatedAt, pinnedTo, armOf, fleetMemory>>

(* digest_report_coverage, over the sessions a canary created: [reported, of] *)
CoverageOf(expected) ==
  [reported |-> Cardinality({r.session : r \in digestReports} \cap expected), of |-> Cardinality(expected)]

(* write_state: the wrapper's arm, then the fleet's own *)
MayWrite(s, namespace) == s \in DOMAIN armOf /\ armOf[s] = namespace
WrapperSaidSo(s, namespace) == s \in PinnedSessions
FleetMayWrite(s, namespace) == s \in PinnedSessions /\ pinnedTo[s].arm = namespace
WriteState ==
  /\ Called
  /\ \E s \in Sessions, namespace \in SessionArms, key \in StateKeys :
       /\ MayWrite(s, namespace) /\ FleetMayWrite(s, namespace)
       /\ fleetMemory' = PutIn(fleetMemory, <<namespace, key>>, s)
  /\ UNCHANGED <<seconds, cached, resolvesAt, current, invalidatedAt, pinnedTo, armOf, digestReports>>

FleetNext == SetActive \/ Invalidate \/ Pass \/ ResolvePending \/ PinSession \/ NewWrapper \/ ReportDigest \/ WriteState

-----------------------------------------------------------------------------
FleetTypes ==
  /\ seconds \in 0..MaxClock /\ cached \in [Workers -> Digests \cup {Uncached}]
  /\ resolvesAt \in [Workers -> -1..(2 * MaxClock)] /\ current \in Digests \cup {Uncached}
  /\ \A s \in PinnedSessions : pinnedTo[s] \in [digest : Digests, arm : SessionArms]

(* An invalidation is heard by every worker: nobody serves what was cached  *)
(* before it, a refill is due when the worker's latency says, and once the  *)
(* p99 has passed and the fleet was looked at, that share of the workers    *)
(* serves again (invalidate_caches, tick, p99_convergence_seconds)          *)
ServingAgain == {w \in Workers : cached[w] # Uncached}
EveryWorkerHears ==
  /\ \A w \in Workers :
       IF resolvesAt[w] # -1 THEN cached[w] = Uncached /\ resolvesAt[w] = invalidatedAt + Latency[w]
                             ELSE invalidatedAt # -1 => w \in ServingAgain /\ seconds >= invalidatedAt + Latency[w]
  /\ invalidatedAt # -1 /\ seconds >= invalidatedAt + P99 /\ {w \in Workers : Elapsed(w)} = {} =>
       Cardinality(ServingAgain) >= Rank99
  /\ Converged \subseteq ServingAgain \/ current = Uncached

(* What was reported is what is served, for good: a report names the digest *)
(* of its session, whatever was pinned since; and a canary whose sessions   *)
(* all reported has every one of them pinned (pin_session, report_digest,   *)
(* digest_report_coverage)                                                 *)
ReportsStayTrue ==
  /\ \A r \in digestReports : r.session \in PinnedSessions /\ pinnedTo[r.session].digest = r.digest
  /\ \A expected \in SUBSET Sessions :
       CoverageOf(expected).reported = CoverageOf(expected).of => expected \subseteq PinnedSessions

(* An arm writes its own memory: what a namespace holds was written by a    *)
(* session of that arm (write_state, at both boundaries)                   *)
MemoryStaysApart == \A at \in DOMAIN fleetMemory : pinnedTo[fleetMemory[at]].arm = at[1]

FleetIsHonest == EveryWorkerHears /\ ReportsStayTrue /\ MemoryStaysApart

=============================================================================
