---------------------------- MODULE CandidateGates ----------------------------
(***************************************************************************)
(* The gates an executable candidate passes before it is registered        *)
(* (api/service.py gate_executable_candidate): output admission over the   *)
(* entries it brings (plugins/admission.py), then static analysis of their *)
(* source (plugins/static_analysis.py) against the paths it declares and   *)
(* the protected modules (security/protected_modules.py).  A path or a     *)
(* module is the sequence of its segments; a source file is the sequence   *)
(* of its statements.                                                      *)
(*                                                                         *)
(* A statement is how it is spelled, which is all that the scanners read,  *)
(* and what it does when it runs, which they do not know: a call by a name *)
(* bound elsewhere, a path object, the second argument of a copy or a mode *)
(* passed by keyword does what its spelling does not say.                  *)
(***************************************************************************)
EXTENDS Integers, Sequences, SequencesExt, FiniteSetsExt

CONSTANTS
  Entries,          (* candidate file entries: [path, kind, size, sparse, executable, expands, source] *)
  MaxFiles,         (* files of a candidate; bound of the model *)
  DeclaredSets,     (* the executables a manifest may declare *)
  Roots,            (* the protected modules, DEFAULT_PROTECTED_ROOTS *)
  ProtectedNames,   (* names no output may imitate, DEFAULT_PROTECTED_PATHS *)
  NetworkRoots, ProcessRoots,               (* modules whose import asks for either *)
  MaxFileBytes, MaxTotalBytes, MaxRatio     (* the caps of output admission *)

(* A statement: [form, call, names, mode, args, does, loads, writes].      *)
(* Spelled: what the scanners take its name for; a call of a name or of an *)
(* attribute; the modules an import names; the mode of an open, if it is a *)
(* literal; the paths passed by position.  Done: spawning or running code  *)
(* made at run time; modules loaded; paths written.                        *)
ASSUME EntryAssumption ==
  /\ MaxTotalBytes \in Nat
  /\ \A entry \in Entries :
       entry.kind \in {"file", "directory", "symlink", "device"} /\ entry.expands \in Nat

VARIABLES
  bundle,    (* the entries under judgement, in order *)
  ruling     (* what the gates said of it: [gate, passed, report] *)

gateVars == <<bundle, ruling>>

Nowhere == [absolute |-> FALSE, parts |-> <<>>, python |-> FALSE, looks |-> <<>>]
OpaqueTarget == [Nowhere EXCEPT !.looks = <<"opaque">>]

(* The caller's masks name the paths that the candidate itself brings *)
Allowed == {bundle[i].path : i \in DOMAIN bundle}

Undecided == [gate |-> "none", passed |-> FALSE, report |-> {}]
GatesInit == bundle = <<>> /\ ruling = Undecided

(* candidate_file_entries *)
Bring(entry) ==
  /\ Len(bundle) < MaxFiles /\ ruling = Undecided
  /\ bundle' = Append(bundle, entry)
  /\ UNCHANGED ruling

-----------------------------------------------------------------------------
(* Output admission                                                        *)

(* A name that reads like a protected one and is not spelled like it: the  *)
(* path names how each segment looks                                       *)
Confusable(path) ==
  \E i \in DOMAIN path.parts : path.looks[i] # path.parts[i] /\ path.looks[i] \in ProtectedNames

ShapeRefused(path) == path.absolute \/ \E i \in DOMAIN path.parts : path.parts[i] = ".."

(* entries say themselves what they expand to; Max keeps the divisor positive *)
Expands(entry) ==
  entry.expands > MaxTotalBytes \/ entry.expands > MaxRatio * Max({entry.size, 1})

EntryRefused(entry, declared) ==
  \/ ShapeRefused(entry.path)
  \/ entry.kind \in {"symlink", "device"}
  \/ entry.sparse
  \/ entry.size > MaxFileBytes
  \/ Expands(entry)
  \/ entry.executable /\ entry.path \notin declared
  \/ Confusable(entry.path)

(* admit_output: one refused entry refuses the bundle *)
TotalBytes ==
  LET sum[n \in 0..Len(bundle)] == IF n = 0 THEN 0 ELSE sum[n - 1] + bundle[n].size
  IN  sum[Len(bundle)]
Admitted(declared) ==
  /\ \A i \in DOMAIN bundle : ~EntryRefused(bundle[i], declared)
  /\ TotalBytes <= MaxTotalBytes

-----------------------------------------------------------------------------
(* Static analysis                                                         *)

(* path_to_module: the layout prefix goes *)
ModuleOf(path) == IF path.parts # <<>> /\ path.parts[1] = "src" THEN Tail(path.parts) ELSE path.parts

CoversExactly(name) == name \in Roots
Covers(name) == \E root \in Roots : IsPrefix(root, name)
CoversPath(path) == Covers(ModuleOf(path))

Codes == {"protected_module_import", "network_import", "subprocess_spawn", "dynamic_exec", "opaque_path_write",
          "protected_module_write", "mask_path_write", "unparseable_source"}

(* _check_import: one finding for each name, the protected ones first; of  *)
(* "from m import n" the name is m, and a relative import may have none    *)
ImportFinds(name, code) ==
  \/ code = "protected_module_import" /\ Covers(name)
  \/ code = "network_import" /\ ~Covers(name) /\ name[1] \in NetworkRoots
  \/ code = "subprocess_spawn" /\ ~Covers(name) /\ name[1] \in ProcessRoots

(* _check_write_target: of the arguments the first, if there is one, be it *)
(* the file that is written or the one that a copy reads                   *)
ProtectedWrite(path, code) == code = "protected_module_write" /\ CoversPath(path)
MaskWrite(path, code) == code = "mask_path_write" /\ path \notin Allowed

TargetsOf(s) == IF s.args = <<>> THEN {} ELSE {s.args[1]}
WriteFinds(s, code) ==
  \E target \in TargetsOf(s) :
    IF target = OpaqueTarget THEN code = "opaque_path_write"
    ELSE ProtectedWrite(target, code) \/ (~CoversPath(target) /\ MaskWrite(target, code))

(* _check_call: calls of names and of attributes; any other is passed     *)
(* over.  Of names only those that run code and open are known             *)
OpenFinds(s, code) == s.mode = "writes" /\ WriteFinds(s, code)
NamedCallFinds(s, code) ==
  \/ code = "dynamic_exec" /\ s.form = "dynamic"
  \/ s.form = "open" /\ OpenFinds(s, code)
AttributeCallFinds(s, code) ==
  \/ code = "dynamic_exec" /\ s.form = "dynamic"
  \/ code = "subprocess_spawn" /\ s.form = "spawn"
  \/ s.form = "mutate" /\ WriteFinds(s, code)
CallFinds(s, code) == \/ s.call = "name" /\ NamedCallFinds(s, code)
                      \/ s.call = "attribute" /\ AttributeCallFinds(s, code)

(* _scan_source: source that does not parse is not scanned *)
Garbled(entry) == \E i \in DOMAIN entry.source : entry.source[i].form = "garbled"
SourceFinds(entry, code) ==
  IF Garbled(entry) THEN code = "unparseable_source"
  ELSE \E s \in Range(entry.source) :
         \/ CallFinds(s, code)
         \/ s.form = "import" /\ \E name \in Range(s.names) : ImportFinds(name, code)

(* analyze_files *)
EntryFinds(entry, code) ==
  \/ code = "mask_path_write" /\ entry.path = Nowhere
  \/ MaskWrite(entry.path, code) \/ ProtectedWrite(entry.path, code)
  \/ entry.path.python /\ SourceFinds(entry, code)

AnalysisReport == {code \in Codes : \E i \in DOMAIN bundle : EntryFinds(bundle[i], code)}
SeverityOf(code) == IF code = "opaque_path_write" THEN "warning" ELSE "blocker"
Blocked(report) == \E code \in report : SeverityOf(code) = "blocker"

-----------------------------------------------------------------------------
(* gate_executable_candidate: admission first, over entries that carry no  *)
(* more than a path and a size                                             *)
AsOutput ==
  \A entry \in Range(bundle) : entry.kind = "file" /\ ~entry.sparse /\ ~entry.executable /\ entry.expands = 0

GateCandidate ==
  /\ ruling = Undecided /\ AsOutput
  /\ ruling' = IF ~Admitted({}) THEN [gate |-> "admission", passed |-> FALSE, report |-> {}]
               ELSE [gate |-> "analysis", passed |-> ~Blocked(AnalysisReport), report |-> AnalysisReport]
  /\ UNCHANGED bundle

(* admit_output by itself, for the outputs of a plugin *)
AdmitOutputs(declared) ==
  /\ bundle # <<>> /\ ruling = Undecided
  /\ ruling' = [gate |-> "outputs", passed |-> Admitted(declared), report |-> {}]
  /\ UNCHANGED bundle

GatesNext ==
  \/ \E entry \in Entries : Bring(entry)
  \/ GateCandidate
  \/ \E declared \in DeclaredSets : AdmitOutputs(declared)

-----------------------------------------------------------------------------
GatesTypes ==
  /\ bundle \in Seq(Entries) /\ Len(bundle) <= MaxFiles
  /\ ruling \in [gate : {"none", "admission", "analysis", "outputs"}, passed : BOOLEAN, report : SUBSET Codes]

Scanned == UNION {Range(entry.source) : entry \in {e \in Range(bundle) : e.path.python}}
Apart(name) == \A root \in Roots : ~IsPrefix(root, name)

(* Code that spawns nothing, runs no other code, loads nothing protected   *)
(* and no network, and writes only what the candidate brings               *)
Tame(does, loads, writes) ==
  /\ does = {}
  /\ \A name \in loads : Apart(name) /\ name[1] \notin NetworkRoots \cup ProcessRoots
  /\ \A path \in writes : Apart(ModuleOf(path)) /\ path \in Allowed

(* What a statement does by its spelling, in the terms of the tables at    *)
(* the head of plugins/static_analysis.py                                  *)
SpelledDoes(s) ==
  {what \in {"dynamic", "spawn"} : s.form = what /\ (s.call = "attribute" \/ (s.call = "name" /\ what = "dynamic"))}
SpelledLoads(s) == IF s.form = "import" THEN Range(s.names) ELSE {}
SpelledWrites(s) ==
  IF \/ s.form = "mutate" /\ s.call = "attribute"
     \/ s.form = "open" /\ s.call = "name" /\ s.mode = "writes" THEN TargetsOf(s) ELSE {}

(* the spelling leaves out nothing of what is done *)
SaysAll(s) ==
  /\ s.does \subseteq SpelledDoes(s) /\ s.loads \subseteq SpelledLoads(s)
  /\ s.writes \subseteq SpelledWrites(s) \ {OpaqueTarget}

LooksHarmless ==
  /\ \A entry \in Range(bundle) : entry.path # Nowhere /\ Apart(ModuleOf(entry.path))
  /\ \A s \in Scanned :
       s.form # "garbled" /\ Tame(SpelledDoes(s), SpelledLoads(s), SpelledWrites(s) \ {OpaqueTarget})

(* "Executable candidates must be analyzed before any execution"           *)
(* (plugins/static_analysis.py).  A candidate passes the analysis exactly  *)
(* when no file of it is protected and no statement looks harmful: so a    *)
(* statement of it that does harm is one whose spelling does not say so,   *)
(* or it writes to what the report has as unresolved.  (By its docstring   *)
(* analyze_files checks "every statically-resolvable write target": of a   *)
(* copy, a move or a rename it checks the source.)  What admission lets    *)
(* through is files below the root, within its limits.                     *)
PassedIsContained ==
  ruling # Undecided =>
    /\ ruling.gate = "analysis" => (ruling.passed <=> LooksHarmless)
    /\ ruling.gate = "analysis" /\ ruling.passed =>
         \A s \in Scanned :
           /\ SaysAll(s) => Tame(s.does, s.loads, s.writes)
           /\ OpaqueTarget \in SpelledWrites(s) => ruling.report # {}
    /\ ruling.passed =>
         /\ TotalBytes <= MaxTotalBytes
         /\ \A entry \in Range(bundle) :
              /\ entry.kind \in {"file", "directory"} /\ ~entry.path.absolute
              /\ ".." \notin Range(entry.path.parts)
              /\ entry.expands <= MaxTotalBytes

=============================================================================
