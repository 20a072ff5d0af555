----------------------------- MODULE PluginSupply -----------------------------
(***************************************************************************)
(* A plugin on its way to a sandbox: the manifest its author declares      *)
(* (plugins/manifest.py), the grant that every policy plane cuts down, the *)
(* profile that a manifest projects to (sandbox/profile.py), and the image *)
(* that is built, carried and verified (plugins/packaging.py).  A digest   *)
(* stands for the bytes it is made of, so that a blob is whole, damaged or *)
(* lost; what carries the archive may do that to any part of it.           *)
(***************************************************************************)
EXTENDS Integers, Sequences, SequencesExt, FiniteSets

CONSTANTS
  Manifests,        (* what authors write: [executes, requires, network, access, hosts, tier, *)
                    (* min, max, pinned, deterministic, seeded] *)
  Planes,           (* sets of policy planes, each [network, access, hosts] *)
  RuntimeVersion,
  MaxHarm           (* bound of the model *)

(* An IsolationTier, or no field isolation_tier at all *)
ASSUME SupplyAssumption ==
  \A m \in Manifests : m.tier \in {"undeclared", "text-only", "executable", "brokered", "highest"}

VARIABLES
  manifest,     (* the manifest in hand, as a set of at most one *)
  granted,      (* the effective grant worked out last: [planes, grant] *)
  blobs,        (* blob -> "whole", "damaged" or "lost" *)
  index,        (* index.json: [listed, signed, id] *)
  verdict       (* verify_plugin_image: "none", "verified", "refused" *)

supplyVars == <<manifest, granted, blobs, index, verdict>>

Blobs == {"config", "layer", "image", "sbom", "attached", "envelope"}
Unlisted == [listed |-> <<>>, signed |-> FALSE, id |-> "none"]

Complete == [listed |-> <<"image", "attached">>, signed |-> TRUE, id |-> "own"]

SupplyInit ==
  /\ manifest = {} /\ granted = {}
  /\ blobs = [b \in Blobs |-> "lost"] /\ index = Unlisted /\ verdict = "none"

-----------------------------------------------------------------------------
(* The manifest                                                            *)

(* _cross_check_tier: only a tier that is declared has to agree *)
TierAgreesIfBrokered(m) == m.tier = "brokered" => m.network = "brokered" /\ m.hosts # {}
TierAgrees(m) ==
  /\ m.tier = "text-only" => m.network = "none" /\ ~m.access
  /\ m.tier = "brokered" => m.network = "brokered" /\ m.hosts # {}
  /\ m.tier \in {"executable", "highest"} => m.network = "none"

(* The range is in order, and the image is pinned by its digest *)
Ordered(m) == m.min <= m.max
DigestPinned(m) == m.pinned

(* PluginManifest: what its validators accept *)
Consistent(m) ==
  /\ m.network = "brokered" => m.access /\ m.hosts # {}
  /\ m.executes => m.requires
  /\ TierAgrees(m)
  /\ Ordered(m) /\ DigestPinned(m)

(* validate_manifest: no problem found *)
Compatible(m) == m.min <= RuntimeVersion /\ RuntimeVersion <= m.max
Problemless(m) == Compatible(m) /\ (m.deterministic => m.seeded)

Declare(m) ==
  /\ manifest = {} /\ Consistent(m) /\ Problemless(m)
  /\ manifest' = {m}
  /\ UNCHANGED <<granted, blobs, index, verdict>>

(* effective_grant: what every plane allows *)
Hosts(planes) == {h \in UNION {p.hosts : p \in planes} : \A p \in planes : h \in p.hosts}
Grant(planes) ==
  [network |-> IF \E p \in planes : p.network = "none" THEN "none" ELSE "brokered",
   access |-> \A p \in planes : p.access,
   hosts |-> Hosts(planes)]
Requested(m) == [network |-> m.network, access |-> m.access, hosts |-> m.hosts]

Intersect(planes) ==
  \E m \in manifest :
    /\ granted' = {[planes |-> planes, grant |-> Grant({Requested(m)} \cup planes)]}
    /\ UNCHANGED <<manifest, blobs, index, verdict>>

(* ExecutionProfile: the brokered tier, and no other, runs with a network *)
RunTier(m) == IF m.tier = "undeclared" THEN "executable" ELSE m.tier
Projects(m) == RunTier(m) = "brokered" <=> m.network = "brokered"

-----------------------------------------------------------------------------
(* The image                                                               *)

(* build_plugin_image *)
Build ==
  /\ manifest # {} /\ index = Unlisted
  /\ blobs' = [b \in Blobs |-> "whole"]
  /\ index' = Complete
  /\ UNCHANGED <<manifest, granted, verdict>>

UnderWay == index # Unlisted /\ verdict = "none"

HarmBlob(b, outcome) ==
  /\ UnderWay /\ blobs[b] = "whole"
  /\ Cardinality({c \in Blobs : blobs[c] # "whole"}) < MaxHarm
  /\ blobs' = [blobs EXCEPT ![b] = outcome]
  /\ UNCHANGED <<manifest, granted, index, verdict>>

(* index.json is neither signed nor addressed by its content *)
HarmIndex ==
  /\ UnderWay /\ index = Complete
  /\ index' \in {[index EXCEPT !.listed = <<>>], [index EXCEPT !.listed = Reverse(index.listed)],
                 [index EXCEPT !.signed = FALSE], [index EXCEPT !.id = "other"]}
  /\ UNCHANGED <<manifest, granted, blobs, verdict>>

(* _read_archive's files, each against the digest it is named by *)
ManifestMatches == blobs["image"] # "damaged"
BlobsMatch == \A b \in Blobs : blobs[b] # "damaged"

(* _blob *)
Present(b) == blobs[b] = "whole"

(* _verify_signature: over the manifest that is listed first *)
SignatureHolds ==
  /\ index.listed # <<>> /\ Present(index.listed[1])
  /\ index.signed /\ Present("envelope") /\ index.listed[1] = "image"

(* _find_sbom_manifest, among those listed, all of which are read *)
SbomFound == "attached" \in Range(index.listed) /\ Present("attached")

(* _verify_sbom_covers_layer *)
SbomCovers == Present("sbom") /\ Present("layer")

Verify ==
  /\ UnderWay
  /\ verdict' = IF BlobsMatch /\ SignatureHolds /\ SbomFound /\ SbomCovers THEN "verified" ELSE "refused"
  /\ UNCHANGED <<manifest, granted, blobs, index>>

SupplyNext ==
  \/ \E m \in Manifests : Declare(m)
  \/ \E planes \in Planes : Intersect(planes)
  \/ Build \/ HarmIndex \/ Verify
  \/ \E b \in Blobs, outcome \in {"damaged", "lost"} : HarmBlob(b, outcome)

-----------------------------------------------------------------------------
SupplyTypes ==
  /\ manifest \subseteq Manifests /\ Cardinality(manifest) <= 1 /\ Cardinality(granted) <= 1
  /\ blobs \in [Blobs -> {"whole", "damaged", "lost"}]
  /\ index \in [listed : Seq({"image", "attached"}), signed : BOOLEAN, id : {"none", "own", "other"}]
  /\ verdict \in {"none", "verified", "refused"}

(* Nothing on the way widens what was declared: an image that verifies has *)
(* every byte that a run would read as it was built, whatever happened to  *)
(* the archive (the id in its index excepted, which no signature covers);  *)
(* a manifest that declares its tier "can be projected straight" to a      *)
(* profile (sandbox/profile.py), its network that of the tier; and a grant *)
(* gives what every plane and the manifest give, no more and no less.      *)
SupplyIsSound ==
  /\ verdict = "verified" => /\ \A b \in Blobs \ {"config"} : blobs[b] = "whole"
                             /\ blobs["config"] # "damaged" /\ index.listed[1] = "image"
  /\ \A m \in manifest :
       /\ m.tier # "undeclared" => Projects(m)
       /\ \A g \in granted :
            /\ m.network = "none" => g.grant.network = "none"
            /\ \A p \in g.planes : /\ g.grant.access => p.access
                                   /\ g.grant.hosts \subseteq p.hosts \cap m.hosts
                                   /\ p.network = "none" => g.grant.network = "none"
            /\ \A h \in m.hosts : (\A p \in g.planes : h \in p.hosts) => h \in g.grant.hosts

=============================================================================
