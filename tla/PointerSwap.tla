----------------------------- MODULE PointerSwap -----------------------------
(***************************************************************************)
(* The compare-and-swap of the release pointer                             *)
(* (selection/release_pointer.py) in the threads of one server: the        *)
(* identity is checked, the pointer compared and the next version worked   *)
(* out, the attempt audited, and the pointer assigned, without a lock.     *)
(***************************************************************************)
EXTENDS Integers, Sequences, FiniteSets

CONSTANTS
  Movers,           (* threads *)
  SwapManifests,    (* digests of release manifests *)
  NoDigest,
  MaxAttempts       (* bound of the model *)

VARIABLES
  activePointer,   (* ReleasePointer: [digest, version] *)
  auditTrail,      (* entries [role, outcome, expected, new, version] *)
  moved,           (* history: what was assigned, in order: [entry, seen] *)
  attempt,         (* per thread: [at, role, expected, new, version, seen, entry] *)
  asksMade         (* attempts so far *)

swapVars == <<activePointer, auditTrail, moved, attempt, asksMade>>

Untouched == [digest |-> NoDigest, version |-> 0]
NoAttempt == [at |-> "idle", role |-> "none", expected |-> NoDigest, new |-> NoDigest,
              version |-> 0, seen |-> 0, entry |-> 0]

SwapInit ==
  /\ activePointer = Untouched /\ auditTrail = <<>> /\ moved = <<>>
  /\ attempt = [w \in Movers |-> NoAttempt] /\ asksMade = 0

(* ReleaseController.activate swaps from what it has just read, rollback   *)
(* from the manifest's own digest; nobody else should                      *)
AskToSwap(w) ==
  /\ attempt[w].at = "idle" /\ asksMade < MaxAttempts
  /\ \E role \in {"release-controller", "candidate-runner"}, new \in SwapManifests,
        expected \in SwapManifests \cup {activePointer.digest} :
       attempt' = [attempt EXCEPT ![w] = [NoAttempt EXCEPT !.at = "asked", !.role = role, !.new = new,
                                                           !.expected = expected]]
  /\ asksMade' = asksMade + 1
  /\ UNCHANGED <<activePointer, auditTrail, moved>>

(* _audit: an entry, or PointerAuditError *)
EntryFor(w, outcome) ==
  LET a == attempt[w] IN
  [role |-> a.role, outcome |-> outcome, expected |-> a.expected, new |-> a.new, version |-> a.version]

StillExpected(w) == attempt[w].expected = activePointer.digest
Overwrites(w) == TRUE
Swaps(w) == StillExpected(w)

(* denied, or in conflict: audited if it can be, and the caller's error    *)
(* either way                                                              *)
RefuseSwap(w) ==
  /\ attempt[w].at = "asked"
  /\ attempt[w].role # "release-controller" \/ ~Swaps(w)
  /\ LET outcome == IF attempt[w].role # "release-controller" THEN "denied" ELSE "conflict" IN
     auditTrail' \in {auditTrail, Append(auditTrail, EntryFor(w, outcome))}
  /\ attempt' = [attempt EXCEPT ![w] = NoAttempt]
  /\ UNCHANGED <<activePointer, moved, asksMade>>

Compare(w) ==
  /\ attempt[w].at = "asked" /\ attempt[w].role = "release-controller" /\ Swaps(w)
  /\ attempt' = [attempt EXCEPT ![w].at = "agreed", ![w].seen = Len(moved)]
  /\ UNCHANGED <<activePointer, auditTrail, moved, asksMade>>

(* the version is read again, not kept from the comparison *)
NumberSwap(w) ==
  /\ attempt[w].at = "agreed"
  /\ attempt' = [attempt EXCEPT ![w].at = "numbered", ![w].version = activePointer.version + 1]
  /\ UNCHANGED <<activePointer, auditTrail, moved, asksMade>>

(* a swap whose audit fails is not performed *)
MovesUnaudited(w) == attempt' = [attempt EXCEPT ![w].at = "audited", ![w].entry = Len(auditTrail)]
AuditFails(w) == attempt' = [attempt EXCEPT ![w] = NoAttempt]
AuditSwap(w) ==
  /\ attempt[w].at = "numbered"
  /\ \/ /\ auditTrail' = Append(auditTrail, EntryFor(w, "allowed"))
        /\ attempt' = [attempt EXCEPT ![w].at = "audited", ![w].entry = Len(auditTrail) + 1]
     \/ AuditFails(w) /\ UNCHANGED auditTrail
  /\ UNCHANGED <<activePointer, moved, asksMade>>

MovePointer(w) ==
  /\ attempt[w].at = "audited"
  /\ activePointer' = [digest |-> attempt[w].new, version |-> attempt[w].version]
  /\ moved' = Append(moved, [entry |-> attempt[w].entry, seen |-> attempt[w].seen])
  /\ attempt' = [attempt EXCEPT ![w] = NoAttempt]
  /\ UNCHANGED <<auditTrail, asksMade>>

SwapNext ==
  \E w \in Movers : \/ AskToSwap(w) \/ RefuseSwap(w) \/ Compare(w) \/ NumberSwap(w)
                    \/ AuditSwap(w) \/ MovePointer(w)

-----------------------------------------------------------------------------
SwapTypes ==
  LET SwapDigests == SwapManifests \cup {NoDigest}
      Roles == {"release-controller", "candidate-runner"} IN
  /\ activePointer \in [digest : SwapDigests, version : Nat]
  /\ auditTrail \in Seq([role : Roles, outcome : {"allowed", "denied", "conflict"}, expected : SwapDigests,
                         new : SwapManifests, version : Nat])
  /\ moved \in Seq([entry : Nat, seen : Nat])
  /\ attempt \in [Movers -> [at : {"idle", "asked", "agreed", "numbered", "audited"}, role : Roles \cup {"none"},
                             expected : SwapDigests, new : SwapDigests, version : Nat, seen : Nat,
                             entry : 0..Len(auditTrail)]]
  /\ asksMade \in Nat

(* the pointer after the first n moves *)
PointerAfter(n) ==
  IF n = 0 THEN Untouched
  ELSE LET e == auditTrail[moved[n].entry] IN [digest |-> e.new, version |-> e.version]

(* "never performed unaudited" (selection/release_pointer.py:13-17): the   *)
(* pointer is what its last move was audited as; what the trail allows was *)
(* done once, or is about to be, by the release controller; and a swap     *)
(* during which nobody else moved the pointer took it from the digest that *)
(* was expected, one version on.  Of two that overlap, one is lost.        *)
PointerIsAsAudited ==
  /\ \A n \in DOMAIN moved : moved[n].entry \in DOMAIN auditTrail
  /\ activePointer = PointerAfter(Len(moved))
  /\ \A i \in DOMAIN auditTrail : auditTrail[i].outcome = "allowed" =>
       /\ auditTrail[i].role = "release-controller"
       /\ Cardinality({n \in DOMAIN moved : moved[n].entry = i})
          + Cardinality({w \in Movers : attempt[w].at = "audited" /\ attempt[w].entry = i}) = 1
  /\ \A n \in DOMAIN moved :
       LET e == auditTrail[moved[n].entry] IN
       /\ e.outcome = "allowed"
       /\ moved[n].seen = n - 1 =>
            PointerAfter(n - 1) = [digest |-> e.expected, version |-> e.version - 1]

=============================================================================
