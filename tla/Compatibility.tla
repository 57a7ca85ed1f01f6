----------------------------- MODULE Compatibility -----------------------------
(***************************************************************************)
(* The compatibility rules between a wallet, a crypto policy and a         *)
(* provider's solution profile: internal/domain/provider and the persist   *)
(* gate of internal/domain/policy.  Pure operators; ProviderJourney uses   *)
(* them in the routes that apply them.                                     *)
(*                                                                         *)
(* A profile is the record of its fields that a rule reads.  Ids are       *)
(* compared after the trimming and case folding the code does, so they are *)
(* represented by their folded form.  A list of findings is the set of     *)
(* their codes.                                                            *)
(***************************************************************************)
EXTENDS SortedLists

CONSTANTS ChainId,   \* the chain ids manifests and scans name
          None

ASSUME ChainAssumption == ChainId \subseteq Int

Ok         == "ok"
Posture    == {"classical_only", "hybrid", "full_pq"}
Kind       == {"eoa", "erc4337_smart_account", "unknown"}
Rotation   == {"none", "per_userop"}
Capability == {"deploy", "sign_userop", "rotate_signer"}
Soft       == {"requires_bundler", "requires_local_signer_state"}

(* user_constraints, and a profile's suggested_user_constraints            *)
Constraints == [newWallet : BOOLEAN, continuity : BOOLEAN, rotation : Rotation]

Chain == [id : ChainId, status : {"testnet_supported", "planned"},
          caps : SUBSET Capability]

(* refs: "none" for a profile without a list of references, "empty" for    *)
(* one whose list is empty; "unpinned" when a reference has neither commit *)
(* nor version, or the placeholder.                                        *)
Profile == [posture : Posture, kinds : SUBSET Kind, rotation : Rotation,
            newAccount : BOOLEAN, continuity : BOOLEAN,
            bundler : BOOLEAN, localState : BOOLEAN,
            suggested : Constraints \cup {None}, chains : Seq(Chain),
            refs : {"none", "empty", "unpinned", "pinned"}]

(* A wallet as a scan observes it (HardObservation).                       *)
Observation == [kind : Kind, chains : SUBSET ChainId]

(* The first entry for the chain counts: a manifest may list a chain twice. *)
findChainSupport(chains, id) ==
    LET hits == {i \in DOMAIN chains : chains[i].id = id}
    IN  IF hits = {} THEN None
        ELSE chains[CHOOSE i \in hits : \A j \in hits : i <= j]

minimumScanCapabilities(rotation) ==
    {"deploy", "sign_userop"}
        \cup (IF rotation = "per_userop" THEN {"rotate_signer"} ELSE {})

(* Replaces NonPlanned in a mutation run: planned chains count.            *)
NonPlannedOrPlanned(ids, chains) ==
    {findChainSupport(chains, id) : id \in {n \in ids : n > 0}} \ {None}

(* The entries of the observed chains that are listed and not planned.     *)
NonPlanned(ids, chains) ==
    {c \in {findChainSupport(chains, id) : id \in {n \in ids : n > 0}} \ {None} :
        c.status # "planned"}

CodeIf(cond, code) == IF cond THEN {code} ELSE {}

hasPositiveChainID(ids) == \E id \in ids : id > 0

(* Replaces EvaluateScanCompatibility in a mutation run: every listed      *)
(* chain has to be capable, as in the combined gate.                       *)
EvaluateScanEveryChain(obs, posture, p) ==
    LET listed  == NonPlanned(obs.chains, p.chains)
        capable == \A c \in listed : minimumScanCapabilities(p.rotation) \subseteq c.caps
        gated   == hasPositiveChainID(obs.chains) /\ ~(capable /\ listed # {})
    IN  CodeIf(p.posture # posture, "posture")
          \cup CodeIf(obs.kind \notin p.kinds, "wallet_type")
          \cup CodeIf(gated /\ listed # {}, "capability")
          \cup CodeIf(gated /\ listed = {}, "chain")

(* Couche A: may this wallet use this profile?  One capable chain is       *)
(* enough, and a wallet seen on no chain is not constrained to any.        *)
EvaluateScanCompatibility(obs, posture, p) ==
    LET listed  == NonPlanned(obs.chains, p.chains)
        capable == \E c \in listed : minimumScanCapabilities(p.rotation) \subseteq c.caps
        gated   == hasPositiveChainID(obs.chains) /\ ~capable
    IN  CodeIf(p.posture # posture, "posture")
          \cup CodeIf(obs.kind \notin p.kinds, "wallet_type")
          \cup CodeIf(gated /\ listed # {}, "capability")
          \cup CodeIf(gated /\ listed = {}, "chain")

(* Replaces EvaluateUserConstraints in a mutation run: address continuity  *)
(* is left to the combined gate.                                           *)
EvaluateUserConstraintsNoContinuity(uc, p) ==
    CodeIf(p.newAccount /\ ~uc.newWallet, "new_wallet")
      \cup CodeIf(uc.rotation # p.rotation, "rotation")

(* Couche B: does the profile offer what the user insists on?              *)
EvaluateUserConstraints(uc, p) ==
    CodeIf(p.newAccount /\ ~uc.newWallet, "new_wallet")
      \cup CodeIf(uc.continuity /\ ~p.continuity, "continuity")
      \cup CodeIf(uc.rotation # p.rotation, "rotation")

(* The combined hard gate: every observed chain has to be deployable.      *)
EvaluateHardCompatibility(obs, posture, uc, p) ==
    LET Undeployable(id) ==
            LET c == findChainSupport(p.chains, id)
            IN  c = None \/ c.status = "planned" \/ c.caps = {}
    IN  CodeIf(p.posture # posture, "posture")
          \cup CodeIf(obs.kind \notin p.kinds, "wallet_type")
          \cup CodeIf(p.newAccount /\ ~uc.newWallet, "new_wallet")
          \cup CodeIf(uc.continuity /\ ~p.continuity, "continuity")
          \cup CodeIf(uc.rotation # p.rotation, "rotation")
          \cup CodeIf(\E id \in obs.chains : id > 0 /\ Undeployable(id), "chain")

EvaluateSoftFindings(p) ==
    CodeIf(p.bundler, "requires_bundler")
      \cup CodeIf(p.localState, "requires_local_signer_state")

(* Replaces ValidateSuggestedUserConstraints in a mutation run: the        *)
(* suggested rotation model is not compared with the signature's.          *)
ValidateSuggestedIgnoresRotation(p) ==
    p.suggested # None =>
        /\ p.newAccount => p.suggested.newWallet
        /\ p.suggested.continuity => p.continuity

ValidateSuggestedUserConstraints(p) ==
    p.suggested # None =>
        /\ p.newAccount => p.suggested.newWallet
        /\ p.suggested.continuity => p.continuity
        /\ p.suggested.rotation = p.rotation

validateSolutionProfile(p) ==
    /\ p.kinds # {}
    /\ p.chains # <<>>
    /\ \A i \in DOMAIN p.chains : p.chains[i].id > 0

deployable(c) == c.id > 0 /\ c.status # "planned"

(* The positions of the deployable entries.                                *)
DeployableAt(chains) == {i \in DOMAIN chains : deployable(chains[i])}

(* Replaces collectPersistableChainSupport in a mutation run: only the     *)
(* chain with the smallest id is pinned, as before CFB-P14.                *)
collectSmallestChain(chains) ==
    LET kept  == DeployableAt(chains)
        order == SortedBy(kept, [i \in kept |-> chains[i].id])
    IN  IF kept = {} THEN <<>> ELSE <<chains[order[1]]>>

collectPersistableChainSupport(chains) ==
    LET kept  == DeployableAt(chains)
        order == SortedBy(kept, [i \in kept |-> chains[i].id])
    IN  [k \in DOMAIN order |-> chains[order[k]]]

(* The persist payload.  closed: it has exactly the seven closed fields,   *)
(* well-formed, with a non-empty policy id, schema version and profile     *)
(* reference.  snapshot: the accepted provider snapshot, a profile and the *)
(* findings listed in it; a missing "references" list is sent as null.     *)
Snapshot == [profile : Profile, findings : SUBSET Soft]

(* Replaces requireAcceptedSoftFindings in a mutation run: only the        *)
(* bundler finding has to be accepted.                                     *)
requireBundlerFinding(payload) ==
    LET top == payload.findings
        own == payload.snapshot.findings
    IN  IF top # {} /\ own # {} /\ top # own THEN "CRYPTO_POLICY_PAYLOAD_INVALID"
        ELSE IF EvaluateSoftFindings(payload.snapshot.profile) \cap {"requires_bundler"}
                  \subseteq (IF top # {} THEN top ELSE own) THEN Ok
        ELSE "PROVIDER_SOFT_FINDINGS_REQUIRED"

(* The top-level findings are authoritative and the snapshot's stand in    *)
(* when there are none; two non-empty lists must agree.                    *)
requireAcceptedSoftFindings(payload) ==
    LET top == payload.findings
        own == payload.snapshot.findings
    IN  IF top # {} /\ own # {} /\ top # own THEN "CRYPTO_POLICY_PAYLOAD_INVALID"
        ELSE IF EvaluateSoftFindings(payload.snapshot.profile)
                  \subseteq (IF top # {} THEN top ELSE own) THEN Ok
        ELSE "PROVIDER_SOFT_FINDINGS_REQUIRED"

validatePersistSnapshot(chains) ==
    LET bad == {i \in DOMAIN chains : chains[i].id <= 0 \/ chains[i].status = "planned"}
    IN  IF chains = <<>> THEN "CRYPTO_POLICY_PAYLOAD_INVALID"
        ELSE IF bad = {} THEN Ok
        ELSE IF chains[CHOOSE i \in bad : \A j \in bad : i <= j].id <= 0
             THEN "CRYPTO_POLICY_PAYLOAD_INVALID"
        ELSE "PROVIDER_CHAIN_PLANNED"

replayCoucheAB(payload, obs) ==
    LET p == payload.snapshot.profile
    IN  IF EvaluateScanCompatibility(obs, payload.posture, p) # {}
        THEN "PROVIDER_SCAN_COMPAT_FAILED"
        ELSE IF EvaluateUserConstraints(payload.constraints, p) # {}
        THEN "PROVIDER_USER_CONSTRAINTS_INCOMPATIBLE"
        ELSE IF EvaluateHardCompatibility(obs, payload.posture, payload.constraints, p) # {}
        THEN "PROVIDER_USER_CONSTRAINTS_INCOMPATIBLE"
        ELSE Ok

(* The closed payload has no policy_context, so the gate is replayed for   *)
(* an externally owned account seen on no chain.                           *)
observationFromPersistRaw == [kind |-> "eoa", chains |-> {}]

(* DigestCanonicalJSON, then ValidatePayloadForPersist on what it returns. *)
ValidateForPersist(payload) ==
    LET p    == payload.snapshot.profile
        pin  == validatePersistSnapshot(p.chains)
        soft == requireAcceptedSoftFindings(payload)
    IN  IF ~payload.closed \/ p.refs = "none" THEN "CRYPTO_POLICY_PAYLOAD_INVALID"
        ELSE IF pin # Ok THEN pin
        ELSE IF soft # Ok THEN soft
        ELSE IF p.refs # "pinned" THEN "PROVIDER_REFS_UNPINNED"
        ELSE replayCoucheAB(payload, observationFromPersistRaw)
================================================================================
