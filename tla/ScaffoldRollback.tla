---------------------------- MODULE ScaffoldRollback ----------------------------
(***************************************************************************)
(* Undoing a scaffold candidate (campaign/scaffold_compensation.py): the   *)
(* incumbent's modules are written back one by one from the registry, each *)
(* re-read and re-hashed, and then the incumbent's own conformance suite   *)
(* is run again on the tree; only a green run discharges the plan.  A      *)
(* failed step raises, a stopped process leaves the tree as it is, and the *)
(* rollback is tried again from the start.                                 *)
(*                                                                         *)
(* A module's digest binds its path and its content and stands for both.   *)
(***************************************************************************)
EXTENDS GateReadings, FiniteSets

LOCAL INSTANCE Functions

CONSTANTS
  Pinned,       (* the incumbent's file map: path -> content *)
  Strays,       (* paths outside the map that a candidate may add *)
  Scribbles,    (* what a candidate writes; none is a content of Pinned *)
  Noise,        (* lines the suite's tests print themselves *)
  MaxDamage     (* bound of the model: how often the registry changes *)

VARIABLES
  crlf,         (* the paths whose module has a carriage return, which read_text does not *)
                (* give back *)
  tree,         (* the working tree: path -> content, NoFile for none *)
  left,         (* history: the tree as the candidate left it *)
  damaged,      (* what the registry cannot give back: paths, or the file map itself *)
  damages,
  rollback,     (* "none", "restoring", "restored", "failed" or "discharged" *)
  unrestored    (* the modules the restore has not written yet, in the order of their paths *)

rollbackVars == <<crlf, tree, left, damaged, damages, rollback, unrestored>>

NoFile == "no file"
Torn == "torn"             (* a write that was cut short *)
FileMap == "file map"

Paths == DOMAIN Pinned
TreePaths == Paths \cup Strays
Changed(t) == {p \in Paths : t[p] # Pinned[p]}

(* a file map is finite, and what is outside it is not in it *)
ASSUME RollbackAssumption == IsFiniteSet(Paths) /\ Strays \cap Paths = {}

RollbackInit ==
  /\ crlf \in {{}} \cup {{p} : p \in Paths}
  /\ tree = [p \in TreePaths |-> IF p \in Paths THEN Pinned[p] ELSE NoFile] /\ left = tree
  /\ damaged = {} /\ damages = 0
  /\ rollback = "none" /\ unrestored = <<>>

-----------------------------------------------------------------------------
(* A candidate edits, adds and deletes *)
CandidateWrites(p, content) ==
  /\ rollback = "none"
  /\ tree' = [tree EXCEPT ![p] = content] /\ left' = tree'
  /\ UNCHANGED <<crlf, damaged, damages, rollback, unrestored>>

(* an artifact is purged, or its bytes no longer match their digest; and   *)
(* it is registered again                                                  *)
RegistryChanges ==
  /\ damages < MaxDamage /\ damages' = damages + 1
  /\ damaged' \in {{}} \cup {{a} : a \in Paths \cup {FileMap}}
  /\ UNCHANGED <<crlf, tree, left, rollback, unrestored>>

(* ScaffoldSourceRestorer.restore: the file map is read and re-hashed, and *)
(* its modules follow in the order of their paths                          *)
SortedPaths(set) == CHOOSE s \in [1..Cardinality(set) -> set] : \A p \in set : \E i \in DOMAIN s : s[i] = p
EveryFile == SortedPaths(TreePaths)
InOrder == SortedPaths(Paths)
Resumed == IF unrestored # <<>> THEN Tail(unrestored) ELSE InOrder
FromTheStart == InOrder

StartRestore ==
  /\ rollback \in {"none", "failed"}
  /\ IF FileMap \in damaged
     THEN rollback' = "failed" /\ UNCHANGED unrestored
     ELSE rollback' = "restoring" /\ unrestored' = FromTheStart
  /\ UNCHANGED <<crlf, tree, left, damaged, damages>>

(* one module: read from the registry, written, read again, re-hashed *)
RestoreModule ==
  /\ rollback = "restoring" /\ unrestored # <<>>
  /\ LET p == Head(unrestored) IN
       IF p \in damaged THEN rollback' = "failed" /\ UNCHANGED <<tree, unrestored>>
       ELSE /\ tree' = [tree EXCEPT ![p] = Pinned[p]]
            /\ IF p \in crlf
               THEN rollback' = "failed" /\ UNCHANGED unrestored
               ELSE unrestored' = Tail(unrestored) /\ UNCHANGED rollback
  /\ UNCHANGED <<crlf, left, damaged, damages>>

EndRestore ==
  /\ rollback = "restoring" /\ unrestored = <<>> /\ rollback' = "restored"
  /\ UNCHANGED <<crlf, tree, left, damaged, damages, unrestored>>

(* the process stops, in a write or between two *)
StopRollback ==
  /\ rollback \in {"restoring", "restored"} /\ rollback' = "failed"
  /\ tree' \in {tree} \cup (IF unrestored = <<>> THEN {} ELSE {[tree EXCEPT ![Head(unrestored)] = Torn]})
  /\ UNCHANGED <<crlf, left, damaged, damages, unrestored>>

(* What the suite does on a tree: a test for each module, which fails when *)
(* the module is not the incumbent's, and one more that a stray file may   *)
(* break                                                                   *)
Suite(t) ==
  LET broken == Cardinality(Changed(t)) + (IF \E p \in Strays : t[p] # NoFile THEN 1 ELSE 0)
  IN [failed |-> broken, passed |-> Cardinality(Paths) + 1 - broken]

(* ConformanceRerunExecutor.execute *)
RerunConformance(run) ==
  /\ rollback = "restored"
  /\ rollback' = IF FileMap \notin damaged /\ SuitePasses(run) THEN "discharged" ELSE "failed"
  /\ UNCHANGED <<crlf, tree, left, damaged, damages, unrestored>>

Reruns(t) ==
  {SuiteRun(Suite(t), ruled, <<>>) : ruled \in BOOLEAN} \cup
  {SuiteRun(Suite(t), TRUE, <<line>>) : line \in Noise} \cup
  {KilledRun(<<>>)} \cup {CrashedRun(<<line>>) : line \in Noise}

RollbackNext ==
  \/ \E p \in TreePaths, content \in Scribbles \cup {NoFile} : CandidateWrites(p, content)
  \/ RegistryChanges \/ StartRestore \/ RestoreModule \/ EndRestore \/ StopRollback
  \/ \E run \in Reruns(tree) : RerunConformance(run)

-----------------------------------------------------------------------------
RollbackTypes ==
  /\ crlf \subseteq Paths
  /\ tree \in [TreePaths -> Range(Pinned) \cup Scribbles \cup {NoFile, Torn}]
  /\ damaged \subseteq Paths \cup {FileMap} /\ damages \in 0..MaxDamage
  /\ rollback \in {"none", "restoring", "restored", "failed", "discharged"}
  /\ Range(unrestored) \subseteq Paths

(* "a restore that cannot prove what it wrote does not discharge a         *)
(* rollback" (scaffold_compensation.py): across failed reads, stopped      *)
(* writes and second attempts, a tree that is reported restored has every  *)
(* module of the incumbent, a plan is discharged on a suite that is green  *)
(* in truth, and no file outside the map was touched.                      *)
DischargedIsRestored ==
  /\ rollback \in {"restored", "discharged"} => Changed(tree) = {}
  /\ rollback = "discharged" => Suite(tree).failed = 0
  /\ \A p \in Strays : tree[p] = left[p]

=============================================================================
