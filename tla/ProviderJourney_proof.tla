------------------------- MODULE ProviderJourney_proof -------------------------
(***************************************************************************)
(* Proofs about ProviderJourney, for every catalogue and footprint: what a *)
(* payload that passes the persist gate guarantees, that the combined hard *)
(* gate adds nothing on this path, that a client is given the snapshot of  *)
(* the profile it picked across restarts and passes the gate with it, that *)
(* a ranked candidate can be assisted and is shown in the catalogue, that  *)
(* a wider scan loses no candidate, and what the no-deployable-candidate   *)
(* signal means.                                                           *)
(***************************************************************************)
EXTENDS ProviderJourney, SortedLists_proof

(* A list of findings is empty exactly when the condition fails.           *)
LEMMA CodeIfEmpty ==
    ASSUME NEW cond, NEW code
    PROVE  CodeIf(cond, code) = {} <=> ~cond
  BY Zenon DEF CodeIf

(* Couche B accepts exactly the constraints the profile honours.           *)
LEMMA CoucheB ==
    ASSUME NEW uc, NEW p
    PROVE  EvaluateUserConstraints(uc, p) = {} <=>
             /\ ~(p.newAccount /\ ~uc.newWallet)
             /\ ~(uc.continuity /\ ~p.continuity)
             /\ ~(uc.rotation # p.rotation)
  BY CodeIfEmpty, Zenon DEF EvaluateUserConstraints

(* Couche A for a wallet seen on no chain is posture and wallet type.      *)
LEMMA CoucheAGreenfield ==
    ASSUME NEW posture, NEW p
    PROVE  EvaluateScanCompatibility(observationFromPersistRaw, posture, p) = {} <=>
             /\ ~(p.posture # posture)
             /\ ~("eoa" \notin p.kinds)
  BY CodeIfEmpty, Zenon DEF EvaluateScanCompatibility, observationFromPersistRaw, hasPositiveChainID

(* On the persist path the combined hard gate refuses exactly what couche  *)
(* A or couche B refuses.                                                  *)
THEOREM HardGateIsRedundant ==
    ASSUME NEW posture, NEW uc, NEW p
    PROVE  EvaluateHardCompatibility(observationFromPersistRaw, posture, uc, p) = {} <=>
             /\ EvaluateScanCompatibility(observationFromPersistRaw, posture, p) = {}
             /\ EvaluateUserConstraints(uc, p) = {}
  <1>1. EvaluateHardCompatibility(observationFromPersistRaw, posture, uc, p) = {} <=>
             /\ ~(p.posture # posture)
             /\ ~("eoa" \notin p.kinds)
             /\ ~(p.newAccount /\ ~uc.newWallet)
             /\ ~(uc.continuity /\ ~p.continuity)
             /\ ~(uc.rotation # p.rotation)
    BY CodeIfEmpty, Zenon DEF EvaluateHardCompatibility, observationFromPersistRaw
  <1> QED BY <1>1, CoucheB, CoucheAGreenfield, Zenon

(* A suggestion that the catalogue does not flag as erroneous passes       *)
(* couche B.                                                               *)
THEOREM SuggestionPasses ==
    ASSUME NEW p, p.suggested # None, ValidateSuggestedUserConstraints(p)
    PROVE  EvaluateUserConstraints(p.suggested, p) = {}
  BY CoucheB, Zenon DEF ValidateSuggestedUserConstraints

(* What the gate lets through, field by field.                             *)
LEMMA GateLetsThrough ==
    ASSUME NEW payload, ValidateForPersist(payload) = Ok
    PROVE  LET p == payload.snapshot.profile
           IN  /\ p.refs = "pinned"
               /\ validatePersistSnapshot(p.chains) = Ok
               /\ requireAcceptedSoftFindings(payload) = Ok
               /\ EvaluateScanCompatibility(observationFromPersistRaw, payload.posture, p) = {}
               /\ EvaluateUserConstraints(payload.constraints, p) = {}
  BY Zenon DEF ValidateForPersist, replayCoucheAB, Ok

(* A pin the gate accepts is not empty and has no planned chain.           *)
LEMMA PinIsDeployable ==
    ASSUME NEW chains, validatePersistSnapshot(chains) = Ok
    PROVE  /\ chains # <<>>
           /\ \A i \in DOMAIN chains : chains[i].status # "planned"
  BY Zenon DEF validatePersistSnapshot, Ok

(* Findings the gate accepts cover the profile's drawbacks.                *)
LEMMA FindingsCover ==
    ASSUME NEW payload, requireAcceptedSoftFindings(payload) = Ok
    PROVE  LET accepted == payload.findings \cup payload.snapshot.findings
           IN  /\ payload.snapshot.profile.bundler => "requires_bundler" \in accepted
               /\ payload.snapshot.profile.localState
                     => "requires_local_signer_state" \in accepted
  <1>1. EvaluateSoftFindings(payload.snapshot.profile)
          \subseteq payload.findings \cup payload.snapshot.findings
    BY Zenon DEF requireAcceptedSoftFindings, Ok
  <1> QED BY <1>1, Zenon DEF EvaluateSoftFindings, CodeIf

(* The code of every answered persist request is the gate's verdict.       *)
GateDecides == result # None => result.code = ValidateForPersist(result.payload)

(* The gate alone determines the answer, in every reachable state.         *)
LEMMA GateDecidesAlways == Spec => []GateDecides
  <1>1. Init => GateDecides
    BY Zenon DEF Init, GateDecides
  <1>2. GateDecides /\ [Next]_vars => GateDecides'
    <2> SUFFICES ASSUME GateDecides, [Next]_vars PROVE GateDecides'
      BY Zenon
    <2>1. CASE Restart \/ Rescan \/ UNCHANGED vars
      BY <2>1, Zenon DEF GateDecides, Restart, Rescan, vars
    <2>2. CASE Explore \/ Assist
      BY <2>2, Zenon DEF GateDecides, Explore, Assist
    <2>3. CASE Persist
      BY <2>3 DEF GateDecides, Persist
    <2> QED BY <2>1, <2>2, <2>3, Zenon DEF Next
  <1> QED BY <1>1, <1>2, PTL DEF Spec

(* Whatever payload a client submits, to whatever catalogue: if            *)
(* ValidateForPersist accepts it, it pins a deployable provider that       *)
(* reaches the required posture and honours the user's constraints, with   *)
(* its drawbacks accepted.                                                 *)
THEOREM GateIsSound ==
    ASSUME NEW payload, ValidateForPersist(payload) = Ok
    PROVE  Sound(payload)
  <1> DEFINE p == payload.snapshot.profile
  <1>1. /\ p.refs = "pinned" /\ validatePersistSnapshot(p.chains) = Ok
        /\ requireAcceptedSoftFindings(payload) = Ok
        /\ EvaluateScanCompatibility(observationFromPersistRaw, payload.posture, p) = {}
        /\ EvaluateUserConstraints(payload.constraints, p) = {}
    BY GateLetsThrough, Zenon
  <1>2. payload.posture = p.posture /\ "eoa" \in p.kinds
    BY <1>1, CoucheAGreenfield, Zenon
  <1>3. p.chains # <<>> /\ \A i \in DOMAIN p.chains : p.chains[i].status # "planned"
    BY <1>1, PinIsDeployable, Zenon
  <1>4. /\ p.newAccount => payload.constraints.newWallet
        /\ payload.constraints.continuity => p.continuity
        /\ payload.constraints.rotation = p.rotation
    BY <1>1, CoucheB
  <1>5. /\ p.bundler => "requires_bundler" \in payload.findings \cup payload.snapshot.findings
        /\ p.localState
             => "requires_local_signer_state" \in payload.findings \cup payload.snapshot.findings
    BY <1>1, FindingsCover, Zenon
  <1> QED BY <1>1, <1>2, <1>3, <1>4, <1>5, Zenon DEF Sound

(* The payload of every answered persist request that passed is sound,     *)
(* whatever was loaded, scanned and altered before it.                     *)
THEOREM StoredTheorem == Spec => []StoredIsSound
  <1>1. GateDecides => StoredIsSound
    BY GateIsSound, Zenon DEF GateDecides, StoredIsSound
  <1> QED BY <1>1, GateDecidesAlways, PTL

(* A refusal that blames the user's constraints is couche B's.             *)
THEOREM ConstraintRefusalTheorem == Spec => []ConstraintRefusalIsCoucheB
  <1>1. GateDecides => ConstraintRefusalIsCoucheB
    <2> SUFFICES ASSUME GateDecides, result # None,
                        result.code = "PROVIDER_USER_CONSTRAINTS_INCOMPATIBLE"
                 PROVE  EvaluateUserConstraints(result.payload.constraints,
                                                result.payload.snapshot.profile) # {}
      BY Zenon DEF ConstraintRefusalIsCoucheB
    <2>1. ValidateForPersist(result.payload) = "PROVIDER_USER_CONSTRAINTS_INCOMPATIBLE"
      BY Zenon DEF GateDecides
    <2>2. replayCoucheAB(result.payload, observationFromPersistRaw)
            = "PROVIDER_USER_CONSTRAINTS_INCOMPATIBLE"
      BY <2>1, Zenon DEF ValidateForPersist, validatePersistSnapshot, requireAcceptedSoftFindings, Ok
    <2> QED BY <2>2, HardGateIsRedundant, Zenon DEF replayCoucheAB, Ok
  <1> QED BY <1>1, GateDecidesAlways, PTL

(* m is a manifest of some directory the service may boot from.            *)
Published(m) ==
    \E dir \in Catalogues : \E i \in DOMAIN dir : m = dir[i] /\ m.type = "manifest"

(* What is loaded was published, the candidate the client holds was        *)
(* published under the version in its reference, and the snapshot it was   *)
(* given is the candidate's.                                               *)
JourneyInv ==
    /\ store # None => \A m \in store.manifests : Published(m)
    /\ explored # None =>
         \E m : /\ Published(m) /\ m.id = explored.ref.provider
                /\ m.version = explored.ref.version
                /\ explored.profile = m.profiles[explored.ref.profile]
    /\ explored # None => /\ explored.profile \in Profile
                          /\ explored.shown = DeriveCompositionView(explored.profile)
    /\ SnapshotIsExplored

(* Only published manifests are loaded.                                    *)
LEMMA LoadsPublished ==
    ASSUME NEW dir \in Catalogues, NEW s,
           s = loadReadStoreFromCatalogueDir(dir), s # None,
           NEW m \in s.manifests
    PROVE  Published(m)
  <1>1. m \in Loaded(dir, "manifest")
    BY Zenon DEF loadReadStoreFromCatalogueDir
  <1> QED BY <1>1, Zenon DEF Loaded, Published

(* A published version has one content.                                    *)
LEMMA VersionPinsContent ==
    ASSUME NEW m, NEW n, Published(m), Published(n),
           m.id = n.id, m.version = n.version
    PROVE  m.profiles = n.profiles
  BY CatalogueAssumption DEF Published

(* A reference names one profile of a loaded catalogue.                    *)
LEMMA OneProfile ==
    ASSUME NEW s, \A m \in s.manifests : Published(m), NEW ref, NEW p \in Lookup(s, ref)
    PROVE  ProfileOf(s, ref) = p
  <1>1. \A q \in Lookup(s, ref) : q = p
    BY VersionPinsContent DEF Lookup
  <1> QED BY <1>1, Zenon DEF ProfileOf

(* What a loaded catalogue resolves is a profile.                          *)
LEMMA ResolvesProfiles ==
    ASSUME NEW s, \A m \in s.manifests : Published(m), NEW ref, NEW p \in Lookup(s, ref)
    PROVE  p \in Profile
  <1>1. PICK m \in s.manifests : ref.profile \in DOMAIN m.profiles /\ p = m.profiles[ref.profile]
    BY Zenon DEF Lookup
  <1>2. m.type = "manifest" /\ IsFile(m)
    BY <1>1, CatalogueAssumption, Zenon DEF Published
  <1> QED BY <1>1, <1>2, Zenon DEF IsFile

(* Explore shows the composition of the profile it ranks.                  *)
LEMMA RankedShows ==
    ASSUME NEW s, NEW cp, NEW obs, NEW c \in EvaluateExploreCoucheA(s, cp, obs).ranked
    PROVE  \E i \in DOMAIN cp.allowed : \E ref \in RefsOf(s, cp, i) :
             RejectionsOf(s, cp, obs, i, ref) = {} /\ c = Ranked(i, ref, ProfileOf(s, ref))
  BY Zenon DEF EvaluateExploreCoucheA

(* The snapshot keeps the composition of the profile.                      *)
LEMMA SnapshotComposition ==
    ASSUME NEW p \in Profile, NEW findings
    PROVE  DeriveCompositionView(SnapshotOf(p, findings).profile) = DeriveCompositionView(p)
  BY Zenon DEF SnapshotOf, DeriveCompositionView, Profile

(* The candidate the client holds is what its reference resolves to in any *)
(* catalogue that still serves it.                                         *)
LEMMA StillTheCandidate ==
    ASSUME JourneyInv, store # None, explored # None, NEW p \in Lookup(store, explored.ref)
    PROVE  p = explored.profile
  <1>1. PICK m \in store.manifests :
           /\ m.id = explored.ref.provider /\ m.version = explored.ref.version
           /\ p = m.profiles[explored.ref.profile]
    BY Zenon DEF Lookup
  <1>2. PICK n : /\ Published(n) /\ n.id = explored.ref.provider
                 /\ n.version = explored.ref.version
                 /\ explored.profile = n.profiles[explored.ref.profile]
    BY Zenon DEF JourneyInv
  <1>3. Published(m)
    BY <1>1, Zenon DEF JourneyInv
  <1> QED BY <1>1, <1>2, <1>3, VersionPinsContent, Zenon

(* Restarting, scanning, exploring, asking for the snapshot and persisting *)
(* preserve the invariant.                                                 *)
LEMMA JourneyStep == JourneyInv /\ [Next]_vars => JourneyInv'
  <1> SUFFICES ASSUME JourneyInv, [Next]_vars PROVE JourneyInv'
    BY Zenon
  <1>1. CASE Restart
    <2>1. PICK dir \in Catalogues : store' = loadReadStoreFromCatalogueDir(dir)
      BY <1>1, Zenon DEF Restart
    <2>2. store' # None => \A m \in store'.manifests : Published(m)
      BY <2>1, LoadsPublished, Zenon
    <2> QED BY <1>1, <2>2, Zenon DEF Restart, JourneyInv, SnapshotIsExplored, Published
  <1>2. CASE Rescan \/ UNCHANGED vars
    BY <1>2, Zenon DEF Rescan, vars, JourneyInv, SnapshotIsExplored, Published
  <1>3. CASE Explore
    <2>1. CASE explored' = None
      BY <1>3, <2>1, Zenon DEF Explore, JourneyInv, SnapshotIsExplored, Published
    <2>2. CASE explored' # None
      <3>1. PICK cp \in store.policies :
              \E c \in EvaluateExploreCoucheA(store, cp, scan).ranked :
              \E p \in Lookup(store, c.ref) :
                /\ store # None
                /\ explored' = [policy |-> cp.id, posture |-> cp.posture, obs |-> scan,
                                ref |-> c.ref, profile |-> p, shown |-> c.composition]
        BY <1>3, <2>2, Zenon DEF Explore
      <3>2. PICK c \in EvaluateExploreCoucheA(store, cp, scan).ranked :
              \E p \in Lookup(store, c.ref) :
                /\ store # None
                /\ explored'.ref = c.ref /\ explored'.profile = p
                /\ explored'.shown = c.composition
        BY <3>1
      <3> PICK p \in Lookup(store, c.ref) : explored'.profile = p
        BY <3>2, Zenon
      <3>3. PICK m \in store.manifests : /\ m.id = c.ref.provider /\ m.version = c.ref.version
                                         /\ p = m.profiles[c.ref.profile]
        BY <3>2, Zenon DEF Lookup
      <3>4. \A n \in store.manifests : Published(n)
        BY <3>2, Zenon DEF JourneyInv
      <3>5. p \in Profile /\ p = ProfileOf(store, c.ref)
        BY <3>2, <3>4, ResolvesProfiles, OneProfile, Zenon
      <3>6. c.composition = DeriveCompositionView(ProfileOf(store, c.ref))
        BY <3>2, RankedShows DEF Ranked
      <3>7. /\ store' = store /\ assisted' = None
            /\ \E n : /\ Published(n) /\ n.id = explored'.ref.provider
                      /\ n.version = explored'.ref.version
                      /\ explored'.profile = n.profiles[explored'.ref.profile]
        BY <1>3, <3>2, <3>3, <3>4, Zenon DEF Explore
      <3>8. explored'.profile \in Profile
            /\ explored'.shown = DeriveCompositionView(explored'.profile)
        BY <3>2, <3>5, <3>6, Zenon
      <3> QED BY <3>4, <3>7, <3>8, Zenon DEF JourneyInv, SnapshotIsExplored, Published
    <2> QED BY <2>1, <2>2, Zenon
  <1>4. CASE Assist
    <2>1. PICK findings \in SUBSET Soft, p \in Lookup(store, explored.ref) :
             /\ store # None /\ explored # None
             /\ assisted'.snapshot = SnapshotOf(p, findings)
      BY <1>4 DEF Assist
    <2>2. p = explored.profile
      BY <2>1, StillTheCandidate, Zenon
    <2>3. DeriveCompositionView(assisted'.snapshot.profile) = explored.shown
      BY <2>1, <2>2, SnapshotComposition, Zenon DEF JourneyInv
    <2>4. explored' = explored
      BY <1>4, Zenon DEF Assist
    <2>5. SnapshotIsExplored'
      BY <2>1, <2>2, <2>3, <2>4, Zenon DEF SnapshotIsExplored
    <2> QED BY <1>4, <2>5, Zenon DEF Assist, JourneyInv, Published
  <1>5. CASE Persist
    BY <1>5, Zenon DEF Persist, JourneyInv, SnapshotIsExplored, Published
  <1> QED BY <1>1, <1>2, <1>3, <1>4, <1>5, Zenon DEF Next

(* The invariant holds in every reachable state.                           *)
LEMMA JourneyAlways == Spec => []JourneyInv
  <1>1. Init => JourneyInv
    <2> SUFFICES ASSUME Init PROVE JourneyInv
      BY Zenon
    <2>1. PICK dir \in Catalogues : store = loadReadStoreFromCatalogueDir(dir)
      BY Zenon DEF Init
    <2> QED BY <2>1, LoadsPublished, Zenon DEF Init, JourneyInv, SnapshotIsExplored
  <1> QED BY <1>1, JourneyStep, PTL DEF Spec

(* The snapshot a client is given is that of the profile it picked, across *)
(* any restarts with other catalogues: Lookup compares the version, and a  *)
(* version has one content (CatalogueAssumption).                          *)
THEOREM SnapshotTheorem == Spec => []SnapshotIsExplored
  <1>1. JourneyInv => SnapshotIsExplored
    BY Zenon DEF JourneyInv
  <1> QED BY <1>1, JourneyAlways, PTL

-------------------------------------------------------------------------------
(* An explore answer is what the loaded catalogue decides for an offered   *)
(* policy.                                                                 *)
AnswerInv ==
    answer # None =>
        /\ HasPostureCompatibleProvider(store, answer.policy)
        /\ answer.decision = EvaluateExploreCoucheA(store, answer.policy, answer.obs)
        /\ answer.signals = recordNoDeployableCandidate(answer.obs, answer.decision)
        /\ \A m \in store.manifests : Published(m)

(* Every explore answer satisfies it, until the catalogue is reloaded.     *)
LEMMA AnswerAlways == Spec => []AnswerInv
  <1>1. Init => AnswerInv
    BY Zenon DEF Init, AnswerInv
  <1>2. JourneyInv /\ AnswerInv /\ [Next]_vars => AnswerInv'
    <2> SUFFICES ASSUME JourneyInv, AnswerInv, [Next]_vars PROVE AnswerInv'
      BY Zenon
    <2>1. CASE Restart \/ Rescan \/ Assist \/ Persist
      BY <2>1, Zenon DEF AnswerInv, Restart, Rescan, Assist, Persist
    <2>2. CASE Explore
      BY <2>2 DEF AnswerInv, Explore, JourneyInv, Published
    <2>3. CASE UNCHANGED vars
      BY <2>3, Zenon DEF AnswerInv, vars, Published
    <2> QED BY <2>1, <2>2, <2>3, Zenon DEF Next
  <1>3. Spec => []JourneyInv
    BY JourneyAlways, Zenon
  <1> QED BY <1>1, <1>2, <1>3, PTL DEF Spec

(* Couche A lets a candidate through exactly when posture and wallet type  *)
(* fit and, for a wallet seen on some chain, one listed chain is capable.  *)
LEMMA CoucheA ==
    ASSUME NEW obs, NEW posture, NEW p
    PROVE  EvaluateScanCompatibility(obs, posture, p) = {} <=>
             /\ p.posture = posture
             /\ obs.kind \in p.kinds
             /\ hasPositiveChainID(obs.chains) =>
                  \E c \in NonPlanned(obs.chains, p.chains) :
                     minimumScanCapabilities(p.rotation) \subseteq c.caps
  <1> DEFINE listed  == NonPlanned(obs.chains, p.chains)
             capable == \E c \in listed : minimumScanCapabilities(p.rotation) \subseteq c.caps
             gated   == hasPositiveChainID(obs.chains) /\ ~capable
  <1>1. EvaluateScanCompatibility(obs, posture, p) = {} <=>
             /\ ~(p.posture # posture)
             /\ ~(obs.kind \notin p.kinds)
             /\ ~(gated /\ listed # {})
             /\ ~(gated /\ listed = {})
    BY CodeIfEmpty, Zenon DEF EvaluateScanCompatibility
  <1> QED BY <1>1, Zenon

(* A wallet seen on more chains is accepted wherever it was accepted on    *)
(* some chain.                                                             *)
THEOREM WiderScan ==
    ASSUME NEW obs, NEW wider, NEW posture, NEW p,
           hasPositiveChainID(obs.chains), obs.chains \subseteq wider.chains,
           wider.kind = obs.kind,
           EvaluateScanCompatibility(obs, posture, p) = {}
    PROVE  EvaluateScanCompatibility(wider, posture, p) = {}
  <1>1. NonPlanned(obs.chains, p.chains) \subseteq NonPlanned(wider.chains, p.chains)
    BY Zenon DEF NonPlanned
  <1> QED BY <1>1, CoucheA

(* A candidate without a rejection resolves, is not erroneous and suits    *)
(* the wallet.                                                             *)
LEMMA NoRejection ==
    ASSUME NEW s, NEW cp, NEW obs, NEW i, NEW ref
    PROVE  RejectionsOf(s, cp, obs, i, ref) = {} <=>
             /\ Lookup(s, ref) # {}
             /\ ValidateSuggestedUserConstraints(ProfileOf(s, ref))
             /\ EvaluateScanCompatibility(obs, cp.posture, ProfileOf(s, ref)) = {}
  BY Zenon DEF RejectionsOf

(* Every candidate ranked for a wallet seen on some chain stays ranked     *)
(* when a scan sees the wallet on more chains.                             *)
THEOREM WiderScanTheorem == Spec => []WiderScanKeepsCandidates
  <1>1. AnswerInv => WiderScanKeepsCandidates
    <2> SUFFICES ASSUME AnswerInv, answer # None, hasPositiveChainID(answer.obs.chains),
                        NEW wider \in Footprints, NEW c \in answer.decision.ranked,
                        wider.kind = answer.obs.kind, answer.obs.chains \subseteq wider.chains
                 PROVE  RejectionsOf(store, answer.policy, wider, c.entry, c.ref) = {}
      BY Zenon DEF WiderScanKeepsCandidates
    <2>1. c \in EvaluateExploreCoucheA(store, answer.policy, answer.obs).ranked
      BY Zenon DEF AnswerInv
    <2>2. RejectionsOf(store, answer.policy, answer.obs, c.entry, c.ref) = {}
      BY <2>1, RankedShows DEF Ranked
    <2> QED BY <2>2, NoRejection, WiderScan, Zenon
  <1> QED BY <1>1, AnswerAlways, PTL

(* The reasons couche A gives, and when it blames the chains.              *)
LEMMA CoucheAReasons ==
    ASSUME NEW obs, NEW posture, NEW p
    PROVE  LET hard == EvaluateScanCompatibility(obs, posture, p)
           IN  /\ hard \subseteq {"posture", "wallet_type", "capability", "chain"}
               /\ "chain" \in hard \/ "capability" \in hard => hasPositiveChainID(obs.chains)
               /\ (hard # {} /\ p.posture = posture /\ obs.kind \in p.kinds)
                    => "chain" \in hard \/ "capability" \in hard
  BY Zenon DEF EvaluateScanCompatibility, CodeIf

(* Every rejection has a reason the signal knows.                          *)
LEMMA RejectionReasons ==
    ASSUME NEW s, NEW cp, NEW obs, NEW x \in EvaluateExploreCoucheA(s, cp, obs).rejected
    PROVE  /\ x.reasons # {}
           /\ x.reasons \subseteq {CodeOrder[k] : k \in 1..6}
           /\ "chain" \in x.reasons \/ "capability" \in x.reasons
                => hasPositiveChainID(obs.chains)
  <1>1. ASSUME NEW i, NEW ref, x \in RejectionsOf(s, cp, obs, i, ref)
        PROVE  \/ x.reasons = {"unresolved"} \/ x.reasons = {"suggested"}
               \/ /\ x.reasons # {}
                  /\ x.reasons = EvaluateScanCompatibility(obs, cp.posture, ProfileOf(s, ref))
    BY <1>1 DEF RejectionsOf, Rejected
  <1>2. \/ x.reasons = {"unresolved"} \/ x.reasons = {"suggested"}
        \/ \E ref : /\ x.reasons # {}
                    /\ x.reasons = EvaluateScanCompatibility(obs, cp.posture, ProfileOf(s, ref))
    BY <1>1 DEF EvaluateExploreCoucheA, Rejected
  <1>3. CodeOrder[1] = "suggested" /\ CodeOrder[2] = "capability" /\ CodeOrder[3] = "chain"
        /\ CodeOrder[4] = "posture" /\ CodeOrder[5] = "unresolved" /\ CodeOrder[6] = "wallet_type"
    BY Zenon DEF CodeOrder
  <1>4. {"suggested", "capability", "chain", "posture", "unresolved", "wallet_type"}
          \subseteq {CodeOrder[k] : k \in 1..6}
    BY <1>3
  <1> QED BY <1>2, <1>4, CoucheAReasons

(* Every candidate is ranked or its rejection is listed.                   *)
LEMMA DecidesCandidates ==
    ASSUME NEW s, NEW cp, NEW obs, NEW i \in DOMAIN cp.allowed, NEW ref \in RefsOf(s, cp, i)
    PROVE  LET d == EvaluateExploreCoucheA(s, cp, obs)
           IN  /\ RejectionsOf(s, cp, obs, i, ref) = {} => d.ranked # {}
               /\ RejectionsOf(s, cp, obs, i, ref) \subseteq d.rejected
  <1> DEFINE Fits(j) == {r \in RefsOf(s, cp, j) : RejectionsOf(s, cp, obs, j, r) = {}}
             d == EvaluateExploreCoucheA(s, cp, obs)
             Listed(j) == UNION {RejectionsOf(s, cp, obs, j, r) : r \in RefsOf(s, cp, j)}
  <1>1. /\ d.ranked = UNION {{Ranked(j, r, ProfileOf(s, r)) : r \in Fits(j)} :
                               j \in DOMAIN cp.allowed}
        /\ \A x : (\E j \in DOMAIN cp.allowed : x \in Listed(j)) => x \in d.rejected
    BY DEF EvaluateExploreCoucheA
  <1>2. ASSUME RejectionsOf(s, cp, obs, i, ref) = {}
        PROVE  Ranked(i, ref, ProfileOf(s, ref)) \in d.ranked
    <2>1. ref \in Fits(i)
      BY <1>2, Zenon
    <2>2. Ranked(i, ref, ProfileOf(s, ref)) \in {Ranked(i, r, ProfileOf(s, r)) : r \in Fits(i)}
      BY <2>1, Zenon
    <2> HIDE DEF Fits, d
    <2> QED BY <1>1, <2>2
  <1>3. RejectionsOf(s, cp, obs, i, ref) \subseteq d.rejected
    <2>1. RejectionsOf(s, cp, obs, i, ref) \subseteq Listed(i)
      BY Zenon
    <2> HIDE DEF Listed, d
    <2> QED BY <1>1, <2>1, Zenon
  <1> QED BY <1>2, <1>3, Zenon

(* The dominant code is a reason of some rejection, and no reason of a     *)
(* rejection comes before it.                                              *)
LEMMA DominantCode ==
    ASSUME NEW rejected, NEW c \in rejected, NEW k \in 1..6, CodeOrder[k] \in c.reasons
    PROVE  \E i \in 1..k : /\ dominantExploreRejectionCode(rejected) = CodeOrder[i]
                           /\ \E x \in rejected : CodeOrder[i] \in x.reasons
  <1> DEFINE codes == UNION {x.reasons : x \in rejected}
             hits  == {i \in DOMAIN CodeOrder : CodeOrder[i] \in codes}
  <1>1. DOMAIN CodeOrder = 1..6
    BY DEF CodeOrder
  <1>2. k \in hits /\ hits \subseteq 1..6
    BY <1>1, Zenon
  <1>3. \E i \in hits : \A j \in hits : i <= j
    <2> HIDE DEF hits
    <2> QED BY <1>2
  <1>4. PICK i \in hits : /\ \A j \in hits : i <= j
                          /\ i = CHOOSE i1 \in hits : \A j \in hits : i1 <= j
    <2> HIDE DEF hits
    <2> QED BY <1>3, Zenon
  <1>5. dominantExploreRejectionCode(rejected) = CodeOrder[i]
    BY <1>2, <1>4, Zenon DEF dominantExploreRejectionCode
  <1>6. \E x \in rejected : CodeOrder[i] \in x.reasons
    BY <1>4, Zenon
  <1>7. i \in 1..k
    BY <1>2, <1>4
  <1> QED BY <1>5, <1>6, <1>7, Zenon

(* The no-deployable-candidate signal is given exactly when nothing is     *)
(* ranked, for a reason of some rejection, and any code but a chain or     *)
(* catalogue fault means that all candidates of the required posture       *)
(* refuse the wallet's type.                                               *)
THEOREM SignalTheorem == Spec => []SignalIsTruthful
  <1>1. AnswerInv => SignalIsTruthful
    <2> SUFFICES ASSUME AnswerInv, answer # None PROVE SignalIsTruthful
      BY Zenon DEF SignalIsTruthful
    <2> DEFINE cp  == answer.policy
               obs == answer.obs
               d   == answer.decision
    <2>1. /\ HasPostureCompatibleProvider(store, cp)
          /\ d = EvaluateExploreCoucheA(store, cp, obs)
          /\ answer.signals = recordNoDeployableCandidate(obs, d)
          /\ \A m \in store.manifests : Published(m)
      BY Zenon DEF AnswerInv
    <2> HIDE DEF cp, obs, d
    <2>2. ASSUME NEW i \in DOMAIN cp.allowed, NEW ref \in RefsOf(store, cp, i)
          PROVE  /\ RejectionsOf(store, cp, obs, i, ref) = {} => d.ranked # {}
                 /\ RejectionsOf(store, cp, obs, i, ref) \subseteq d.rejected
      BY <2>1, DecidesCandidates, Zenon
    <2>3. d.ranked # {} \/ d.rejected # {}
      BY <2>1, <2>2, Zenon DEF HasPostureCompatibleProvider
    <2>4. answer.signals = {} <=> d.ranked # {}
      BY <2>1, <2>3, Zenon DEF recordNoDeployableCandidate
    <2>5. ASSUME NEW signal \in answer.signals
          PROVE  /\ d.ranked = {}
                 /\ signal.code = dominantExploreRejectionCode(d.rejected)
      BY <2>1, <2>4, <2>5 DEF recordNoDeployableCandidate
    <2>6. ASSUME NEW signal \in answer.signals
          PROVE  \E x \in d.rejected : signal.code \in x.reasons
      <3>1. PICK c \in d.rejected : TRUE
        BY <2>3, <2>5, <2>6, Zenon
      <3>2. PICK k \in 1..6 : CodeOrder[k] \in c.reasons
        BY <2>1, <3>1, RejectionReasons
      <3> QED BY <2>5, <2>6, <3>1, <3>2, DominantCode
    <2>7. ASSUME NEW signal \in answer.signals, signal.code \in {"chain", "capability"}
          PROVE  hasPositiveChainID(obs.chains)
      BY <2>1, <2>6, <2>7, RejectionReasons
    <2>8. ASSUME NEW signal \in answer.signals,
                 signal.code \notin {"suggested", "chain", "capability"},
                 NEW i \in DOMAIN cp.allowed, NEW ref \in RefsOf(store, cp, i),
                 NEW p \in Lookup(store, ref), p.posture = cp.posture, obs.kind \in p.kinds
          PROVE  FALSE
      <3>1. ProfileOf(store, ref) = p
        BY <2>1, OneProfile, Zenon
      <3>2. PICK x \in RejectionsOf(store, cp, obs, i, ref) : x \in d.rejected
        BY <2>2, <2>5, <2>8, Zenon
      <3>3. \/ "suggested" \in x.reasons
            \/ /\ x.reasons # {}
               /\ x.reasons = EvaluateScanCompatibility(obs, cp.posture, p)
        BY <3>1, <3>2 DEF RejectionsOf, Rejected
      <3>4. "suggested" \in x.reasons \/ "chain" \in x.reasons \/ "capability" \in x.reasons
        BY <2>8, <3>3, CoucheAReasons
      <3>5. CodeOrder[1] = "suggested" /\ CodeOrder[2] = "capability" /\ CodeOrder[3] = "chain"
        BY Zenon DEF CodeOrder
      <3>6. PICK k \in 1..3 : CodeOrder[k] \in x.reasons
        BY <3>4, <3>5
      <3>7. PICK j \in 1..k : dominantExploreRejectionCode(d.rejected) = CodeOrder[j]
        BY <3>2, <3>6, DominantCode
      <3>8. j = 1 \/ j = 2 \/ j = 3
        BY <3>6, <3>7
      <3> QED BY <2>5, <2>8, <3>5, <3>7, <3>8, Zenon
    <2> QED BY <2>4, <2>6, <2>7, <2>8, Zenon DEF SignalIsTruthful, cp, obs, d
  <1> QED BY <1>1, AnswerAlways, PTL

-------------------------------------------------------------------------------
(* Lists of chains                                                         *)

(* The chains a snapshot pins are the deployable entries of the profile.   *)
LEMMA PinIsPerimeter ==
    ASSUME NEW chains \in Seq(Chain)
    PROVE  LET pin == collectPersistableChainSupport(chains)
           IN  /\ pin \in Seq(Chain)
               /\ \A k \in DOMAIN pin : \E i \in DeployableAt(chains) : pin[k] = chains[i]
               /\ \A i \in DeployableAt(chains) : \E k \in DOMAIN pin : pin[k] = chains[i]
  <1> DEFINE kept  == DeployableAt(chains)
             pin   == collectPersistableChainSupport(chains)
             n     == Cardinality(kept)
  <1>1. kept \subseteq 1..Len(chains) /\ Len(chains) \in Nat
    BY DEF DeployableAt
  <1>2. IsFiniteSet(kept)
    BY <1>1, PositionsFinite, Zenon
  <1>3. \A i \in kept : chains[i] \in Chain /\ chains[i].id \in Int
    <2>1. \A c \in Chain : c.id \in Int
      BY ChainAssumption, Zenon DEF Chain
    <2>2. \A i \in 1..Len(chains) : chains[i] \in Chain
      OBVIOUS
    <2> QED BY <1>1, <2>1, <2>2, Zenon
  <1>4. PICK key \in [kept -> Int] : key = [i \in kept |-> chains[i].id]
    BY <1>3, Zenon
  <1>5. PICK order : order = SortedBy(kept, key)
    BY Zenon
  <1>6. /\ n \in Nat /\ order \in [1..n -> kept]
        /\ \A x \in kept : \E i \in 1..n : order[i] = x
    BY <1>2, <1>5, SortedByProperties DEF Sorts
  <1>7. pin = [k \in 1..n |-> chains[order[k]]]
    BY <1>4, <1>5, <1>6, Zenon DEF collectPersistableChainSupport
  <1> HIDE DEF kept, pin, n
  <1>8. pin \in Seq(Chain) /\ DOMAIN pin = 1..n /\ \A k \in 1..n : pin[k] = chains[order[k]]
    BY <1>3, <1>6, <1>7
  <1>9. \A k \in DOMAIN pin : \E i \in kept : pin[k] = chains[i]
    <2>1. \A k \in 1..n : order[k] \in kept
      BY <1>6, Zenon
    <2> QED BY <1>8, <2>1, Zenon
  <1>10. \A i \in kept : \E k \in DOMAIN pin : pin[k] = chains[i]
    <2> TAKE i \in kept
    <2>1. PICK k \in 1..n : order[k] = i
      BY <1>6, Zenon
    <2>2. pin[k] = chains[i]
      BY <1>8, <2>1, Zenon
    <2> QED BY <1>8, <2>2, Zenon
  <1> QED BY <1>8, <1>9, <1>10, Zenon DEF kept, pin

(* The deployable entries of a list, in the order of the list.             *)
LEMMA ListedProperties ==
    ASSUME NEW chains \in Seq(Chain)
    PROVE  LET listed == Pick(chains, DeployableAt(chains))
           IN  /\ listed \in Seq(Chain)
               /\ \A k \in DOMAIN listed : \E i \in DeployableAt(chains) : listed[k] = chains[i]
               /\ \A i \in DeployableAt(chains) : \E k \in DOMAIN listed : listed[k] = chains[i]
  <1> DEFINE kept == DeployableAt(chains)
  <1>1. kept \subseteq 1..Len(chains) /\ Len(chains) \in Nat
    BY DEF DeployableAt
  <1>2. IsFiniteSet(kept) /\ kept \subseteq Int
    BY <1>1, PositionsFinite, Zenon
  <1>3. \A i \in kept : chains[i] \in Chain
    BY <1>1
  <1> HIDE DEF kept
  <1>4. Holds(chains, kept, Chain)
    BY <1>3, Zenon DEF Holds
  <1>5. Pick(chains, kept) \in Seq(Chain) /\ Picks(Pick(chains, kept), chains, kept)
    BY <1>2, <1>4, PickList, Zenon
  <1> QED BY <1>5, Zenon DEF kept, Picks

(* findChainSupport finds the first entry for a chain, if there is one.    *)
LEMMA FirstEntry ==
    ASSUME NEW chains \in Seq(Chain), NEW id
    PROVE  /\ (\E i \in DOMAIN chains : chains[i].id = id) =>
                \E i \in DOMAIN chains : /\ chains[i].id = id
                                         /\ findChainSupport(chains, id) = chains[i]
           /\ findChainSupport(chains, id) # None =>
                \E i \in DOMAIN chains : /\ chains[i].id = id
                                         /\ findChainSupport(chains, id) = chains[i]
  <1> DEFINE hits == {i \in DOMAIN chains : chains[i].id = id}
  <1>1. CASE hits = {}
    BY <1>1, Zenon DEF findChainSupport
  <1>2. CASE hits # {}
    <2>1. hits \subseteq Nat
      OBVIOUS
    <2>2. \E i \in hits : \A j \in hits : i <= j
      <3> HIDE DEF hits
      <3> QED BY <1>2, <2>1, LeastNatural, Zenon
    <2>3. PICK i \in hits : i = CHOOSE k \in hits : \A j \in hits : k <= j
      <3> HIDE DEF hits
      <3> QED BY <2>2, Zenon
    <2>4. findChainSupport(chains, id) = chains[i]
      BY <1>2, <2>3, Zenon DEF findChainSupport
    <2> QED BY <2>4, Zenon
  <1> QED BY <1>1, <1>2, Zenon

-------------------------------------------------------------------------------
(* What is loaded, and what the client holds                               *)

(* s was loaded from one of the directories.                               *)
Catalogued(s) == s # None /\ \E dir \in Catalogues : s = loadReadStoreFromCatalogueDir(dir)

(* A file that repeats the id of a loaded one is not loaded.               *)
LEMMA LoadedOnce ==
    ASSUME NEW dir \in Catalogues, NEW type, NEW f \in Loaded(dir, type),
           NEW g \in Loaded(dir, type), f.id = g.id
    PROVE  f = g
  <1>1. DOMAIN dir = 1..Len(dir) /\ Len(dir) \in Nat
    BY CatalogueAssumption, Zenon
  <1>2. PICK i \in DOMAIN dir :
          /\ f = dir[i] /\ dir[i].type = type /\ Valid(dir[i])
          /\ \A k \in 1..(i - 1) : ~(dir[k].type = type /\ Valid(dir[k]) /\ dir[k].id = dir[i].id)
    BY Zenon DEF Loaded
  <1>3. PICK j \in DOMAIN dir :
          /\ g = dir[j] /\ dir[j].type = type /\ Valid(dir[j])
          /\ \A k \in 1..(j - 1) : ~(dir[k].type = type /\ Valid(dir[k]) /\ dir[k].id = dir[j].id)
    BY Zenon DEF Loaded
  <1>4. ~(i < j) /\ ~(j < i)
    BY <1>1, <1>2, <1>3
  <1>5. i = j
    BY <1>1, <1>2, <1>3, <1>4
  <1> QED BY <1>2, <1>3, <1>5, Zenon

(* Normalising a policy keeps its id and its posture, and leaves a list of *)
(* allowed providers.                                                      *)
LEMMA NormalizeKeeps ==
    ASSUME NEW f, IsFile(f), f.type = "policy"
    PROVE  /\ Normalize(f).id = f.id
           /\ \E n \in Nat : DOMAIN Normalize(f).allowed = 1..n
  <1>1. /\ {"type", "id", "sound", "posture", "allowed"} \subseteq DOMAIN f
        /\ Len(f.allowed) \in Nat /\ DOMAIN f.allowed = 1..Len(f.allowed)
    BY Zenon DEF IsFile
  <1>2. PICK names : names = f.allowed
    BY Zenon
  <1> DEFINE P == {i \in DOMAIN names : \A j \in 1..(i - 1) : names[j] # names[i]}
  <1>3. P \subseteq 1..Len(names) /\ Len(names) \in Nat
    BY <1>1, <1>2, Zenon
  <1>4. Normalize(f).id = f.id /\ Normalize(f).allowed = Pick(names, P)
    BY <1>1, <1>2, Zenon DEF Normalize, normalizeStringsPreserveOrder
  <1>5. PICK X : X = {names[i] : i \in P}
    BY Zenon
  <1>6. Holds(names, P, X)
    BY <1>5, Zenon DEF Holds
  <1> HIDE DEF P
  <1>7. IsFiniteSet(P) /\ P \subseteq Int
    BY <1>3, PositionsFinite, Zenon
  <1>8. Pick(names, P) \in Seq(X)
    BY <1>6, <1>7, PickList, Zenon
  <1>9. PICK t \in Seq(X) : t = Pick(names, P)
    BY <1>8, Zenon
  <1>10. Len(t) \in Nat /\ DOMAIN t = 1..Len(t)
    OBVIOUS
  <1> QED BY <1>4, <1>9, <1>10, Zenon

(* What is loaded is usable: one policy and one manifest per id, valid     *)
(* profiles, and the allowed providers of a policy are a list.             *)
LEMMA LoadIsUsable ==
    ASSUME NEW s, Catalogued(s)
    PROVE  /\ s.policies # {} /\ s.manifests # {}
           /\ \A f, g \in s.policies : f.id = g.id => f = g
           /\ \A f, g \in s.manifests : f.id = g.id => f = g
           /\ \A m \in s.manifests : Published(m)
           /\ \A m \in s.manifests :
                /\ DOMAIN m.profiles \subseteq Nat /\ IsFiniteSet(DOMAIN m.profiles)
                /\ \A id \in DOMAIN m.profiles :
                     m.profiles[id] \in Profile /\ validateSolutionProfile(m.profiles[id])
           /\ \A cp \in s.policies : \E n \in Nat : DOMAIN cp.allowed = 1..n
  <1>1. PICK dir \in Catalogues : s = loadReadStoreFromCatalogueDir(dir)
    BY Zenon DEF Catalogued
  <1>2. /\ s.policies = {Normalize(f) : f \in Loaded(dir, "policy")}
        /\ s.manifests = Loaded(dir, "manifest")
        /\ s.policies # {} /\ s.manifests # {}
    BY <1>1, Zenon DEF loadReadStoreFromCatalogueDir, Catalogued
  <1>3. \A i \in DOMAIN dir : IsFile(dir[i])
    BY CatalogueAssumption, Zenon
  <1>4. \A type : \A f \in Loaded(dir, type) : IsFile(f) /\ f.type = type /\ Valid(f)
    BY <1>3, Zenon DEF Loaded
  <1>5. ASSUME NEW f \in s.policies, NEW g \in s.policies, f.id = g.id PROVE f = g
    <2>1. PICK a \in Loaded(dir, "policy") : f = Normalize(a)
      BY <1>2, Zenon
    <2>2. PICK b \in Loaded(dir, "policy") : g = Normalize(b)
      BY <1>2, Zenon
    <2>3. a.id = f.id /\ b.id = g.id
      BY <1>4, <2>1, <2>2, NormalizeKeeps, Zenon
    <2> QED BY <1>5, <2>1, <2>2, <2>3, LoadedOnce, Zenon
  <1>6. \A f, g \in s.manifests : f.id = g.id => f = g
    BY <1>2, LoadedOnce
  <1>7. \A m \in s.manifests : Published(m)
    BY <1>1, LoadsPublished, Zenon DEF Catalogued
  <1>8. ASSUME NEW m \in s.manifests
        PROVE  /\ DOMAIN m.profiles \subseteq Nat /\ IsFiniteSet(DOMAIN m.profiles)
               /\ \A id \in DOMAIN m.profiles :
                    m.profiles[id] \in Profile /\ validateSolutionProfile(m.profiles[id])
    <2>1. m.type = "manifest" /\ IsFile(m) /\ Valid(m)
      BY <1>2, <1>4
    <2> QED BY <2>1, Zenon DEF IsFile, Valid, ValidPolicy, ValidManifest
  <1>9. ASSUME NEW cp \in s.policies PROVE \E n \in Nat : DOMAIN cp.allowed = 1..n
    BY <1>2, <1>4, NormalizeKeeps
  <1> QED BY <1>2, <1>5, <1>6, <1>7, <1>8, <1>9, Zenon

(* The snapshot built from a profile is a snapshot.                        *)
LEMMA SnapshotTyped ==
    ASSUME NEW p \in Profile, NEW findings \in SUBSET Soft
    PROVE  SnapshotOf(p, findings) \in Snapshot
  <1>1. collectPersistableChainSupport(p.chains) \in Seq(Chain)
    <2>1. p.chains \in Seq(Chain)
      BY Zenon DEF Profile
    <2> QED BY <2>1, PinIsPerimeter, Zenon
  <1>2. EvaluateSoftFindings(p) \subseteq Soft
    BY Zenon DEF EvaluateSoftFindings, CodeIf, Soft
  <1>3. SnapshotOf(p, findings).profile \in Profile
    BY <1>1, Zenon DEF SnapshotOf, Profile
  <1> QED BY <1>2, <1>3, Zenon DEF SnapshotOf, Snapshot

(* A request that alters a payload leaves the constraints alone.           *)
LEMMA AlteredKeepsConstraints ==
    ASSUME NEW base, "constraints" \in DOMAIN base, NEW payload \in Altered(base)
    PROVE  payload.constraints = base.constraints
  <1>1. CASE payload \in Unpinned(base)
    <2>1. PICK m \in store.manifests : \E id \in DOMAIN m.profiles :
             payload = [base EXCEPT !.snapshot.profile = m.profiles[id]]
      BY <1>1, Zenon DEF Unpinned
    <2> QED BY <2>1, Zenon
  <1>2. CASE payload \notin Unpinned(base)
    BY <1>2, ZenonT(30) DEF Altered
  <1> QED BY <1>1, <1>2, Zenon

(* What the three requests leave behind.  The candidate the client holds   *)
(* passed couche A for the scan it was explored for and its suggestion is  *)
(* not erroneous, and it had a chain to pin when the snapshot was built:   *)
(* none of this is looked at again by the persist gate, and a restart      *)
(* does not undo it.                                                       *)
HeldInv ==
    /\ store # None => Catalogued(store)
    /\ scan \in Footprints
    /\ answer # None => store # None /\ answer.policy \in store.policies /\ answer.obs = scan
    /\ explored # None =>
         /\ explored.obs \in Footprints
         /\ ValidateSuggestedUserConstraints(explored.profile)
         /\ EvaluateScanCompatibility(explored.obs, explored.posture, explored.profile) = {}
    /\ assisted # None =>
         /\ explored # None
         /\ collectPersistableChainSupport(explored.profile.chains) # <<>>
    /\ result # None => assisted # None /\ result.payload.constraints \in Constraints

(* Every request preserves it.                                             *)
LEMMA HeldStep == JourneyInv /\ HeldInv /\ [Next]_vars => HeldInv'
  <1> SUFFICES ASSUME JourneyInv, HeldInv, [Next]_vars PROVE HeldInv'
    BY Zenon
  <1>1. CASE Restart
    <2>1. store' # None => Catalogued(store')
      BY <1>1, Zenon DEF Restart, Catalogued
    <2> QED BY <1>1, <2>1, Zenon DEF Restart, HeldInv
  <1>2. CASE Rescan
    BY <1>2, Zenon DEF Rescan, HeldInv, Catalogued
  <1>3. CASE Explore
    <2>1. PICK cp \in store.policies :
             /\ answer' = [policy |-> cp, obs |-> scan,
                           decision |-> EvaluateExploreCoucheA(store, cp, scan),
                           signals |-> recordNoDeployableCandidate(scan,
                                         EvaluateExploreCoucheA(store, cp, scan))]
             /\ \/ explored' = None
                \/ \E c \in EvaluateExploreCoucheA(store, cp, scan).ranked :
                   \E p \in Lookup(store, c.ref) :
                     explored' = [policy |-> cp.id, posture |-> cp.posture, obs |-> scan,
                                  ref |-> c.ref, profile |-> p, shown |-> c.composition]
      BY <1>3, Zenon DEF Explore
    <2>2. store # None /\ store' = store /\ scan' = scan /\ assisted' = None /\ result' = None
      BY <1>3, Zenon DEF Explore
    <2>3. ASSUME explored' # None
          PROVE  /\ explored'.obs \in Footprints
                 /\ ValidateSuggestedUserConstraints(explored'.profile)
                 /\ EvaluateScanCompatibility(explored'.obs, explored'.posture,
                                              explored'.profile) = {}
      <3>1. PICK c \in EvaluateExploreCoucheA(store, cp, scan).ranked :
            \E p \in Lookup(store, c.ref) :
              /\ explored'.posture = cp.posture /\ explored'.obs = scan
              /\ explored'.profile = p
        BY <2>1, <2>3
      <3>2. PICK p \in Lookup(store, c.ref) :
              /\ explored'.posture = cp.posture /\ explored'.obs = scan
              /\ explored'.profile = p
        BY <3>1, Zenon
      <3>3. RejectionsOf(store, cp, scan, c.entry, c.ref) = {}
        BY <3>1, RankedShows DEF Ranked
      <3>4. ProfileOf(store, c.ref) = p
        BY <2>2, <3>2, OneProfile, Zenon DEF JourneyInv
      <3>5. /\ ValidateSuggestedUserConstraints(p)
            /\ EvaluateScanCompatibility(scan, cp.posture, p) = {}
        BY <3>3, <3>4, NoRejection, Zenon
      <3> QED BY <3>2, <3>5, Zenon DEF HeldInv
    <2>4. answer'.policy = cp /\ answer'.obs = scan
      BY <2>1, Zenon
    <2> QED BY <2>2, <2>3, <2>4, Zenon DEF HeldInv, Catalogued
  <1>4. CASE Assist
    <2>1. PICK p \in Lookup(store, explored.ref) :
             collectPersistableChainSupport(p.chains) # <<>>
      BY <1>4, Zenon DEF Assist
    <2>2. /\ store # None /\ explored # None /\ answer' = None /\ result' = None
          /\ store' = store /\ scan' = scan /\ explored' = explored
      BY <1>4, Zenon DEF Assist
    <2>3. p = explored.profile
      BY <2>2, StillTheCandidate, Zenon
    <2> QED BY <2>1, <2>2, <2>3, Zenon DEF HeldInv, Catalogued
  <1>5. CASE Persist
    <2>1. PICK constraints \in Constraints :
            \E payload \in {PayloadWith(constraints)} \cup Altered(PayloadWith(constraints)) :
              result'.payload = payload
      BY <1>5 DEF Persist
    <2>2. result'.payload.constraints \in Constraints
      <3>1. /\ PayloadWith(constraints).constraints = constraints
            /\ "constraints" \in DOMAIN PayloadWith(constraints)
        BY Zenon DEF PayloadWith
      <3> QED BY <2>1, <3>1, AlteredKeepsConstraints, Zenon
    <2> QED BY <1>5, <2>2, Zenon DEF Persist, HeldInv, Catalogued
  <1>6. CASE UNCHANGED vars
    BY <1>6, Zenon DEF vars, HeldInv, Catalogued
  <1> QED BY <1>1, <1>2, <1>3, <1>4, <1>5, <1>6, Zenon DEF Next

(* It holds in every reachable state.                                      *)
LEMMA HeldAlways == Spec => []HeldInv
  <1>1. Init => HeldInv
    BY Zenon DEF Init, HeldInv, Catalogued
  <1>2. Spec => []JourneyInv
    BY JourneyAlways, Zenon
  <1> QED BY <1>1, <1>2, HeldStep, PTL DEF Spec

(* Whatever directories the service boots from, the loaded catalogue has   *)
(* one policy or manifest per id and valid profiles only, and what the     *)
(* client holds has its type.                                              *)
THEOREM JourneyTypes == Spec => []TypeOK
  <1>1. JourneyInv /\ HeldInv => TypeOK
    <2> SUFFICES ASSUME JourneyInv, HeldInv PROVE TypeOK
      BY Zenon
    <2>1. ASSUME store # None
          PROVE  /\ store.policies # {} /\ store.manifests # {}
                 /\ \A f, g \in store.policies : f.id = g.id => f = g
                 /\ \A f, g \in store.manifests : f.id = g.id => f = g
                 /\ \A m \in store.manifests : \A id \in DOMAIN m.profiles :
                      m.profiles[id] \in Profile /\ validateSolutionProfile(m.profiles[id])
      <3>1. Catalogued(store)
        BY <2>1, Zenon DEF HeldInv
      <3> QED BY <3>1, LoadIsUsable, Zenon
    <2>2. ASSUME assisted # None
          PROVE  explored # None /\ assisted.snapshot \in Snapshot
      <3>1. explored # None /\ explored.profile \in Profile
        BY <2>2, Zenon DEF HeldInv, JourneyInv
      <3>2. PICK findings \in SUBSET Soft :
              assisted.snapshot = SnapshotOf(explored.profile, findings)
        BY <2>2, Zenon DEF JourneyInv, SnapshotIsExplored
      <3> QED BY <3>1, <3>2, SnapshotTyped, Zenon
    <2>3. explored # None => explored.profile \in Profile
      BY Zenon DEF JourneyInv
    <2> QED BY <2>1, <2>2, <2>3, Zenon DEF TypeOK, HeldInv
  <1> QED BY <1>1, JourneyAlways, HeldAlways, PTL

-------------------------------------------------------------------------------
(* The way through the gate                                                *)

(* A pin built by the service satisfies the gate's rules for pins.         *)
LEMMA OwnPinPasses ==
    ASSUME NEW chains \in Seq(Chain), collectPersistableChainSupport(chains) # <<>>
    PROVE  validatePersistSnapshot(collectPersistableChainSupport(chains)) = Ok
  <1>1. PICK pin \in Seq(Chain) : pin = collectPersistableChainSupport(chains)
    BY PinIsPerimeter, Zenon
  <1>2. ASSUME NEW k \in DOMAIN pin PROVE pin[k].id > 0 /\ pin[k].status # "planned"
    <2>1. \E i \in DeployableAt(chains) : pin[k] = chains[i]
      BY <1>1, PinIsPerimeter, Zenon
    <2> QED BY <2>1, Zenon DEF DeployableAt, deployable
  <1>3. \A k \in DOMAIN pin : pin[k].id \in Int
    <2>1. \A c \in Chain : c.id \in Int
      BY ChainAssumption, Zenon DEF Chain
    <2> QED BY <2>1
  <1>4. {k \in DOMAIN pin : pin[k].id <= 0 \/ pin[k].status = "planned"} = {}
    BY <1>2, <1>3
  <1> QED BY <1>1, <1>4, Zenon DEF validatePersistSnapshot

(* What a snapshot keeps of a profile, and what it replaces.               *)
LEMMA SnapshotFields ==
    ASSUME NEW p \in Profile, NEW findings
    PROVE  LET q == SnapshotOf(p, findings).profile
           IN  /\ q.chains = collectPersistableChainSupport(p.chains)
               /\ p.refs = "pinned" => q.refs = "pinned"
               /\ q.posture = p.posture /\ q.kinds = p.kinds /\ q.rotation = p.rotation
               /\ q.newAccount = p.newAccount /\ q.continuity = p.continuity
               /\ q.bundler = p.bundler /\ q.localState = p.localState
  <1>1. PICK pin : pin = collectPersistableChainSupport(p.chains)
    BY Zenon
  <1>2. PICK refs : refs = IF p.refs = "empty" THEN "none" ELSE p.refs
    BY Zenon
  <1>3. SnapshotOf(p, findings).profile = [p EXCEPT !.chains = pin, !.refs = refs]
    BY <1>1, <1>2, Zenon DEF SnapshotOf
  <1>4. PICK q : q = [p EXCEPT !.chains = pin, !.refs = refs]
    BY Zenon
  <1>5. /\ q.chains = pin /\ q.refs = refs
        /\ q.posture = p.posture /\ q.kinds = p.kinds /\ q.rotation = p.rotation
        /\ q.newAccount = p.newAccount /\ q.continuity = p.continuity
        /\ q.bundler = p.bundler /\ q.localState = p.localState
    BY <1>4, Zenon DEF Profile
  <1> QED BY <1>1, <1>2, <1>3, <1>4, <1>5, Zenon

(* What the gate decides about the snapshot of a profile, submitted with   *)
(* the findings in it.                                                     *)
LEMMA SnapshotPasses ==
    ASSUME NEW p \in Profile, NEW findings \in SUBSET Soft, NEW payload,
           payload.closed, payload.posture = p.posture,
           payload.snapshot = SnapshotOf(p, findings),
           payload.findings = payload.snapshot.findings,
           collectPersistableChainSupport(p.chains) # <<>>,
           "eoa" \in p.kinds, p.refs = "pinned",
           EvaluateUserConstraints(payload.constraints, p) = {}
    PROVE  ValidateForPersist(payload) = Ok
  <1>1. PICK q : q = payload.snapshot.profile
    BY Zenon
  <1>2. /\ q.chains = collectPersistableChainSupport(p.chains) /\ q.refs = "pinned"
        /\ q.posture = p.posture /\ q.kinds = p.kinds /\ q.rotation = p.rotation
        /\ q.newAccount = p.newAccount /\ q.continuity = p.continuity
        /\ q.bundler = p.bundler /\ q.localState = p.localState
        /\ payload.snapshot.findings = findings \cup EvaluateSoftFindings(p)
    <2>1. payload.snapshot.findings = findings \cup EvaluateSoftFindings(p)
      BY DEF SnapshotOf
    <2> QED BY <1>1, <2>1, SnapshotFields
  <1>3. p.chains \in Seq(Chain)
    BY Zenon DEF Profile
  <1>4. validatePersistSnapshot(q.chains) = Ok
    BY <1>2, <1>3, OwnPinPasses, Zenon
  <1>5. requireAcceptedSoftFindings(payload) = Ok
    <2>1. EvaluateSoftFindings(q) = EvaluateSoftFindings(p)
      BY <1>2, Zenon DEF EvaluateSoftFindings
    <2>2. EvaluateSoftFindings(q) \subseteq payload.findings
      BY <1>2, <2>1, Zenon
    <2> QED BY <1>1, <2>2, Zenon DEF requireAcceptedSoftFindings
  <1>6. EvaluateScanCompatibility(observationFromPersistRaw, payload.posture, q) = {}
    BY <1>2, CoucheAGreenfield, Zenon
  <1>7. EvaluateUserConstraints(payload.constraints, q) = {}
    BY <1>2, CoucheB
  <1>8. EvaluateHardCompatibility(observationFromPersistRaw, payload.posture,
                                  payload.constraints, q) = {}
    BY <1>6, <1>7, HardGateIsRedundant, Zenon
  <1>9. replayCoucheAB(payload, observationFromPersistRaw) = Ok
    BY <1>1, <1>6, <1>7, <1>8, Zenon DEF replayCoucheAB
  <1> QED BY <1>1, <1>2, <1>4, <1>5, <1>9, Zenon DEF ValidateForPersist, Ok

(* No dead end: an externally owned account's client that picks a ranked   *)
(* candidate with pinned references and submits the snapshot it is given   *)
(* with advised constraints passes the persist gate, whatever catalogues   *)
(* are loaded and whatever is scanned between its requests.                *)
THEOREM HonestJourneyTheorem == Spec => []HonestJourneyPersists
  <1>1. JourneyInv /\ HeldInv /\ GateDecides => HonestJourneyPersists
    <2> SUFFICES ASSUME JourneyInv, HeldInv, GateDecides, Honest,
                        explored.obs.kind = "eoa", explored.posture = assisted.posture,
                        explored.profile.refs = "pinned",
                        Advised(result.payload.constraints, explored.profile)
                 PROVE  result.code = Ok
      BY Zenon DEF HonestJourneyPersists
    <2> DEFINE p       == explored.profile
               payload == result.payload
    <2>1. /\ result # None /\ assisted # None /\ explored # None
          /\ collectPersistableChainSupport(p.chains) # <<>>
          /\ ValidateSuggestedUserConstraints(p)
          /\ EvaluateScanCompatibility(explored.obs, explored.posture, p) = {}
          /\ result.code = ValidateForPersist(payload)
      BY Zenon DEF Honest, HeldInv, GateDecides
    <2>2. p \in Profile
      BY <2>1, Zenon DEF JourneyInv
    <2>3. PICK findings \in SUBSET Soft : assisted.snapshot = SnapshotOf(p, findings)
      BY <2>1, Zenon DEF JourneyInv, SnapshotIsExplored
    <2>4. /\ payload.closed /\ payload.posture = assisted.posture
          /\ payload.snapshot = assisted.snapshot
          /\ payload.findings = assisted.snapshot.findings
      <3>1. payload = PayloadWith(payload.constraints)
        BY Zenon DEF Honest
      <3>2. PICK uc : uc = payload.constraints
        BY Zenon
      <3>3. PayloadWith(uc).closed /\ PayloadWith(uc).posture = assisted.posture
            /\ PayloadWith(uc).snapshot = assisted.snapshot
            /\ PayloadWith(uc).findings = assisted.snapshot.findings
        BY Zenon DEF PayloadWith
      <3> HIDE DEF payload
      <3> QED BY <3>1, <3>2, <3>3, Zenon
    <2>5. p.posture = explored.posture /\ "eoa" \in p.kinds
      BY <2>1, CoucheA
    <2>6. EvaluateUserConstraints(payload.constraints, p) = {}
      BY <2>1, SuggestionPasses, Zenon DEF Advised
    <2> HIDE DEF p, payload
    <2>7. p.refs = "pinned" /\ explored.posture = assisted.posture
      BY Zenon DEF p
    <2> QED BY <2>1, <2>2, <2>3, <2>4, <2>5, <2>6, <2>7, SnapshotPasses, Zenon
  <1> QED BY <1>1, JourneyAlways, HeldAlways, GateDecidesAlways, PTL

(* Couche A's capable chain is a deployable entry of the profile.          *)
LEMMA CapableIsDeployable ==
    ASSUME NEW chains \in Seq(Chain), NEW ids, NEW c \in NonPlanned(ids, chains)
    PROVE  c.id \in ids /\ \E i \in DeployableAt(chains) : c = chains[i]
  <1>1. PICK id \in ids : /\ id > 0 /\ c = findChainSupport(chains, id) /\ c # None
                          /\ c.status # "planned"
    BY Zenon DEF NonPlanned
  <1>2. PICK i \in DOMAIN chains : chains[i].id = id /\ c = chains[i]
    BY <1>1, FirstEntry
  <1> QED BY <1>1, <1>2, Zenon DEF DeployableAt, deployable

(* The pin of the persisted snapshot covers a capable chain of the scan    *)
(* the candidate was explored for.                                         *)
THEOREM PinCoversTheorem == Spec => []PinCoversExploredScan
  <1>1. JourneyInv /\ HeldInv => PinCoversExploredScan
    <2> SUFFICES ASSUME JourneyInv, HeldInv, Honest, hasPositiveChainID(explored.obs.chains)
                 PROVE  LET q == result.payload.snapshot.profile
                        IN  \E i \in DOMAIN q.chains :
                              /\ q.chains[i].id \in explored.obs.chains
                              /\ minimumScanCapabilities(q.rotation) \subseteq q.chains[i].caps
      BY Zenon DEF PinCoversExploredScan
    <2> DEFINE p == explored.profile
    <2>1. /\ assisted # None /\ explored # None
          /\ EvaluateScanCompatibility(explored.obs, explored.posture, p) = {}
      BY Zenon DEF Honest, HeldInv
    <2>2. p \in Profile /\ p.chains \in Seq(Chain)
      BY <2>1, Zenon DEF JourneyInv, Profile
    <2>3. PICK findings \in SUBSET Soft : assisted.snapshot = SnapshotOf(p, findings)
      BY <2>1, Zenon DEF JourneyInv, SnapshotIsExplored
    <2>4. result.payload.snapshot = assisted.snapshot
      <3>1. result.payload = PayloadWith(result.payload.constraints)
        BY Zenon DEF Honest
      <3>2. PICK uc : uc = result.payload.constraints
        BY Zenon
      <3>3. PayloadWith(uc).snapshot = assisted.snapshot
        BY Zenon DEF PayloadWith
      <3> QED BY <3>1, <3>2, <3>3, Zenon
    <2>5. /\ result.payload.snapshot.profile.chains = collectPersistableChainSupport(p.chains)
          /\ result.payload.snapshot.profile.rotation = p.rotation
      BY <2>2, <2>3, <2>4, SnapshotFields
    <2>6. PICK c \in NonPlanned(explored.obs.chains, p.chains) :
             minimumScanCapabilities(p.rotation) \subseteq c.caps
      BY <2>1, CoucheA, Zenon
    <2>7. c.id \in explored.obs.chains /\ \E i \in DeployableAt(p.chains) : c = p.chains[i]
      BY <2>2, <2>6, CapableIsDeployable, Zenon
    <2>8. \E k \in DOMAIN collectPersistableChainSupport(p.chains) :
             collectPersistableChainSupport(p.chains)[k] = c
      BY <2>2, <2>7, PinIsPerimeter
    <2> HIDE DEF p
    <2> QED BY <2>5, <2>6, <2>7, <2>8, Zenon
  <1> QED BY <1>1, JourneyAlways, HeldAlways, PTL

-------------------------------------------------------------------------------
(* Candidates, and what is shown of them                                   *)

(* The references to the profiles of the loaded manifests.                 *)
Served(s) == UNION {{Ref(m, id) : id \in DOMAIN m.profiles} : m \in s.manifests}

(* A served reference resolves to the profile it names.                    *)
LEMMA ServedResolves ==
    ASSUME NEW s, Catalogued(s), NEW ref \in Served(s)
    PROVE  /\ \E m \in s.manifests : \E id \in DOMAIN m.profiles : ref = Ref(m, id)
           /\ ProfileOf(s, ref) \in Lookup(s, ref)
           /\ ProfileOf(s, ref) \in Profile /\ ProfileOf(s, ref).chains \in Seq(Chain)
  <1>1. PICK m \in s.manifests : \E id \in DOMAIN m.profiles : ref = Ref(m, id)
    BY Zenon DEF Served
  <1>2. PICK id \in DOMAIN m.profiles : ref = Ref(m, id)
    BY <1>1, Zenon
  <1>3. ref.provider = m.id /\ ref.profile = id /\ ref.version = m.version
    BY <1>2, Zenon DEF Ref
  <1>4. m.profiles[id] \in Lookup(s, ref)
    BY <1>2, <1>3, Zenon DEF Lookup
  <1>5. \A n \in s.manifests : Published(n)
    BY LoadIsUsable, Zenon
  <1>6. ProfileOf(s, ref) = m.profiles[id] /\ m.profiles[id] \in Profile
    BY <1>4, <1>5, OneProfile, ResolvesProfiles, Zenon
  <1>7. m.profiles[id].chains \in Seq(Chain)
    BY <1>6, Zenon DEF Profile
  <1> QED BY <1>1, <1>4, <1>6, <1>7, Zenon

(* The candidates of a provider are served, under that provider's id.      *)
LEMMA ProviderRefs ==
    ASSUME NEW s, Catalogued(s), NEW id
    PROVE  /\ ProfilesForProvider(s, id) \in Seq(Served(s))
           /\ \A k \in DOMAIN ProfilesForProvider(s, id) :
                ProfilesForProvider(s, id)[k].provider = id
  <1> DEFINE found == {m \in s.manifests : m.id = id}
  <1>1. CASE found = {}
    <2>1. ProfilesForProvider(s, id) = <<>>
      BY <1>1, Zenon DEF ProfilesForProvider
    <2> QED BY <2>1
  <1>2. CASE found # {}
    <2>1. PICK m \in found : m = CHOOSE n \in found : TRUE
      <3> HIDE DEF found
      <3> QED BY <1>2, Zenon
    <2>2. m \in s.manifests /\ m.id = id
      BY Zenon
    <2>3. PICK P : P = DOMAIN m.profiles
      BY Zenon
    <2>4. P \subseteq Int /\ IsFiniteSet(P)
      BY <2>2, <2>3, LoadIsUsable
    <2>5. PICK n : n = Cardinality(P)
      BY Zenon
    <2>6. PICK ids : ids = Ascending(P)
      BY Zenon
    <2>7. n \in Nat /\ ids \in [1..n -> P]
      BY <2>4, <2>5, <2>6, AscendingProperties, Zenon
    <2>8. PICK refs : refs = [k \in DOMAIN ids |-> Ref(m, ids[k])]
      BY Zenon
    <2>9. ProfilesForProvider(s, id) = refs
      BY <1>2, <2>1, <2>3, <2>6, <2>8, Zenon DEF ProfilesForProvider
    <2>10. \A k \in 1..n : Ref(m, ids[k]) \in Served(s) /\ Ref(m, ids[k]).provider = id
      BY <2>2, <2>3, <2>7 DEF Served, Ref
    <2>11. refs = [k \in 1..n |-> refs[k]] /\ \A k \in 1..n : refs[k] = Ref(m, ids[k])
      BY <2>7, <2>8, Zenon
    <2>12. DOMAIN refs = 1..n /\ \A k \in 1..n : refs[k] \in Served(s) /\ refs[k].provider = id
      BY <2>10, <2>11, Zenon
    <2>13. refs \in Seq(Served(s))
      BY <2>7, <2>11, <2>12
    <2> QED BY <2>9, <2>12, <2>13, Zenon
  <1> QED BY <1>1, <1>2, Zenon

(* What explore ranks is served by an allowed provider, and its profile    *)
(* suits the wallet.                                                       *)
LEMMA RankedIsServed ==
    ASSUME HeldInv, AnswerInv, answer # None, NEW c \in answer.decision.ranked
    PROVE  /\ Catalogued(store) /\ answer.policy \in store.policies
           /\ \E i \in DOMAIN answer.policy.allowed :
                /\ c.ref \in Range(ProfilesForProvider(store, answer.policy.allowed[i].id))
                /\ c.ref.provider = answer.policy.allowed[i].id
           /\ c.ref \in Served(store)
           /\ EvaluateScanCompatibility(answer.obs, answer.policy.posture,
                                        ProfileOf(store, c.ref)) = {}
  <1> DEFINE cp == answer.policy
  <1>1. Catalogued(store) /\ cp \in store.policies
    BY Zenon DEF HeldInv
  <1>2. c \in EvaluateExploreCoucheA(store, cp, answer.obs).ranked
    BY Zenon DEF AnswerInv
  <1>3. PICK i \in DOMAIN cp.allowed : \E ref \in RefsOf(store, cp, i) :
          /\ RejectionsOf(store, cp, answer.obs, i, ref) = {}
          /\ c.ref = ref
    BY <1>2, RankedShows DEF Ranked
  <1>4. c.ref \in Range(ProfilesForProvider(store, cp.allowed[i].id))
    BY <1>3, Zenon DEF RefsOf
  <1>5. PICK refs \in Seq(Served(store)) :
          /\ refs = ProfilesForProvider(store, cp.allowed[i].id)
          /\ \A k \in DOMAIN refs : refs[k].provider = cp.allowed[i].id
    BY <1>1, ProviderRefs
  <1>6. PICK k \in DOMAIN refs : c.ref = refs[k]
    BY <1>4, <1>5, Zenon DEF Range
  <1>7. c.ref \in Served(store) /\ c.ref.provider = cp.allowed[i].id
    BY <1>5, <1>6
  <1>8. EvaluateScanCompatibility(answer.obs, cp.posture, ProfileOf(store, c.ref)) = {}
    BY <1>3, NoRejection, Zenon
  <1> QED BY <1>1, <1>3, <1>4, <1>7, <1>8, Zenon

(* A candidate ranked for a wallet seen on some chain can be assisted      *)
(* while the catalogue stays: its provider is allowed, it is looked up,    *)
(* and it has a chain to pin.                                              *)
THEOREM RankedIsAssistableTheorem == Spec => []RankedIsAssistable
  <1>1. HeldInv /\ AnswerInv => RankedIsAssistable
    <2> SUFFICES ASSUME HeldInv, AnswerInv, answer # None,
                        hasPositiveChainID(answer.obs.chains), NEW c \in answer.decision.ranked
                 PROVE  /\ providerAllowedByCryptoPolicy(answer.policy, c.ref.provider)
                        /\ \E p \in Lookup(store, c.ref) :
                             collectPersistableChainSupport(p.chains) # <<>>
      BY Zenon DEF RankedIsAssistable
    <2>1. PICK p : p = ProfileOf(store, c.ref)
      BY Zenon
    <2>2. /\ Catalogued(store) /\ c.ref \in Served(store)
          /\ \E i \in DOMAIN answer.policy.allowed :
               c.ref.provider = answer.policy.allowed[i].id
          /\ EvaluateScanCompatibility(answer.obs, answer.policy.posture, p) = {}
      BY <2>1, RankedIsServed, Zenon
    <2>3. p \in Lookup(store, c.ref) /\ p.chains \in Seq(Chain)
      BY <2>1, <2>2, ServedResolves, Zenon
    <2>4. PICK d \in NonPlanned(answer.obs.chains, p.chains) : TRUE
      BY <2>2, CoucheA
    <2>5. \E i \in DeployableAt(p.chains) : d = p.chains[i]
      BY <2>3, <2>4, CapableIsDeployable, Zenon
    <2>6. \E k \in DOMAIN collectPersistableChainSupport(p.chains) : TRUE
      BY <2>3, <2>5, PinIsPerimeter, Zenon
    <2>7. collectPersistableChainSupport(p.chains) # <<>>
      BY <2>6
    <2> QED BY <2>2, <2>3, <2>7, Zenon DEF providerAllowedByCryptoPolicy
  <1> QED BY <1>1, HeldAlways, AnswerAlways, PTL

(* The chain ids GET /crypto-policies shows for a policy.                  *)
ShownIds(s, cp) == {n.id : n \in DeriveCompatibleNetworks(s, cp)}

(* A chain with a deployable entry anywhere in the list is shown.          *)
LEMMA FirstPerChainCovers ==
    ASSUME NEW chains \in Seq(Chain), NEW i \in DeployableAt(chains)
    PROVE  \E n \in FirstPerChain(chains) : n.id = chains[i].id
  <1>1. PICK listed \in Seq(Chain) :
          /\ listed = Pick(chains, DeployableAt(chains))
          /\ \A j \in DeployableAt(chains) : \E k \in DOMAIN listed : listed[k] = chains[j]
    BY ListedProperties, Zenon
  <1>2. PICK k \in DOMAIN listed : listed[k] = chains[i]
    BY <1>1, Zenon
  <1>3. PICK id : id = chains[i].id
    BY Zenon
  <1>4. id \in {c.id : c \in Range(listed)}
    BY <1>2, <1>3, Zenon DEF Range
  <1>5. \E j \in DOMAIN listed : listed[j].id = id /\ findChainSupport(listed, id) = listed[j]
    BY <1>2, <1>3, FirstEntry
  <1>6. findChainSupport(listed, id) \in FirstPerChain(chains)
    BY <1>1, <1>4, Zenon DEF FirstPerChain
  <1> QED BY <1>3, <1>5, <1>6, Zenon

(* The candidates of a policy are those of all its allowed entries.        *)
LEMMA CandidatesOfEntries ==
    ASSUME NEW s, Catalogued(s), NEW cp \in s.policies
    PROVE  /\ ProfilesFor(s, cp) \in Seq(Served(s))
           /\ \A i \in DOMAIN cp.allowed :
                Range(ProfilesForProvider(s, cp.allowed[i].id)) \subseteq Range(ProfilesFor(s, cp))
  <1>1. PICK n \in Nat : DOMAIN cp.allowed = 1..n
    BY LoadIsUsable, Zenon
  <1>2. \A i \in 1..n : ProfilesForProvider(s, cp.allowed[i].id) \in Seq(Served(s))
    BY ProviderRefs, Zenon
  <1>3. PICK X : X = Served(s)
    BY Zenon
  <1>4. PICK seqs \in [1..n -> Seq(X)] :
          seqs = [i \in 1..n |-> ProfilesForProvider(s, cp.allowed[i].id)]
    BY <1>2, <1>3, Zenon
  <1>5. ProfilesFor(s, cp) = Joined(seqs)
    BY <1>1, <1>4, Zenon DEF ProfilesFor
  <1>6. Joined(seqs) \in Seq(X) /\ Range(Joined(seqs)) = Elements(seqs, n)
    BY JoinedProperties, Zenon
  <1>7. \A i \in 1..n : Range(seqs[i]) \subseteq Elements(seqs, n)
    BY Zenon DEF Elements
  <1>8. \A i \in 1..n : seqs[i] = ProfilesForProvider(s, cp.allowed[i].id)
    BY <1>4, Zenon
  <1> QED BY <1>1, <1>3, <1>5, <1>6, <1>7, <1>8, Zenon

(* compatible_networks shows every chain on which some candidate of the    *)
(* policy is deployable.                                                   *)
LEMMA NetworksCover ==
    ASSUME NEW s, Catalogued(s), NEW cp \in s.policies, NEW i \in DOMAIN cp.allowed,
           NEW ref \in Range(ProfilesForProvider(s, cp.allowed[i].id)),
           NEW j \in DeployableAt(ProfileOf(s, ref).chains)
    PROVE  ProfileOf(s, ref).chains[j].id \in ShownIds(s, cp)
  <1>1. PICK refs \in Seq(Served(s)) : refs = ProfilesFor(s, cp) /\ ref \in Range(refs)
    BY CandidatesOfEntries, Zenon
  <1>2. PICK r \in DOMAIN refs : refs[r] = ref
    BY <1>1, Zenon DEF Range
  <1>3. PICK n \in Nat : n = Len(refs) /\ DOMAIN refs = 1..n
    OBVIOUS
  <1>4. \A k \in 1..n : ProfileOf(s, refs[k]).chains \in Seq(Chain)
    BY <1>3, ServedResolves
  <1>5. PICK seqs \in [1..n -> Seq(Chain)] : seqs = [k \in 1..n |-> ProfileOf(s, refs[k]).chains]
    BY <1>4, Zenon
  <1>6. DeriveCompatibleNetworks(s, cp) = FirstPerChain(Joined(seqs))
    BY <1>1, <1>3, <1>5, Zenon DEF DeriveCompatibleNetworks
  <1>7. PICK all \in Seq(Chain) : all = Joined(seqs) /\ Range(all) = Elements(seqs, n)
    BY JoinedProperties, Zenon
  <1>8. PICK e : e = ProfileOf(s, ref).chains[j]
    BY Zenon
  <1>9. e \in Range(seqs[r]) /\ deployable(e)
    <2>1. seqs[r] = ProfileOf(s, ref).chains
      BY <1>2, <1>3, <1>5, Zenon
    <2> QED BY <1>8, <2>1, Zenon DEF Range, DeployableAt
  <1>10. e \in Range(all)
    BY <1>2, <1>3, <1>7, <1>9, Zenon DEF Elements
  <1>11. PICK k \in DeployableAt(all) : all[k] = e
    BY <1>9, <1>10, Zenon DEF Range, DeployableAt
  <1>12. \E m \in FirstPerChain(all) : m.id = e.id
    BY <1>11, FirstPerChainCovers, Zenon
  <1> QED BY <1>6, <1>7, <1>8, <1>12, Zenon DEF ShownIds

(* A provider with a candidate of the required posture is presented by     *)
(* one.                                                                    *)
LEMMA PresentedByFit ==
    ASSUME NEW s, Catalogued(s), NEW id, NEW posture,
           NEW ref \in Range(ProfilesForProvider(s, id)),
           ProfileOf(s, ref).posture = posture
    PROVE  LET chosen == pickCatalogProfile(s, ProfilesForProvider(s, id), posture)
           IN  /\ chosen \in Served(s) /\ chosen.provider = id
               /\ ProfileOf(s, chosen).posture = posture
  <1>1. PICK refs \in Seq(Served(s)) :
          /\ refs = ProfilesForProvider(s, id)
          /\ \A k \in DOMAIN refs : refs[k].provider = id
    BY ProviderRefs, Zenon
  <1>2. PICK r \in DOMAIN refs : refs[r] = ref
    BY <1>1, Zenon DEF Range
  <1> DEFINE P == {i \in DOMAIN refs : ProfileOf(s, refs[i]).posture = posture}
  <1>3. P \subseteq 1..Len(refs) /\ Len(refs) \in Nat /\ \A i \in P : refs[i] \in Served(s)
    OBVIOUS
  <1>4. r \in P
    BY <1>2, Zenon
  <1>5. PICK fits : fits = Pick(refs, P)
    BY Zenon
  <1>6. /\ fits \in Seq(Served(s))
        /\ \A k \in DOMAIN fits : \E i \in P : fits[k] = refs[i]
        /\ \A i \in P : \E k \in DOMAIN fits : fits[k] = refs[i]
    <2> HIDE DEF P
    <2>1. IsFiniteSet(P) /\ P \subseteq Int
      BY <1>3, PositionsFinite, Zenon
    <2>2. Holds(refs, P, Served(s))
      BY <1>3, Zenon DEF Holds
    <2>3. fits \in Seq(Served(s)) /\ Picks(fits, refs, P)
      BY <1>5, <2>1, <2>2, PickList, Zenon
    <2> QED BY <2>3, Zenon DEF Picks
  <1>7. fits # <<>> /\ 1 \in DOMAIN fits
    <2>1. PICK k \in DOMAIN fits : TRUE
      BY <1>4, <1>6, Zenon
    <2> QED BY <1>6, <2>1
  <1>8. pickCatalogProfile(s, refs, posture) = fits[1]
    BY <1>5, <1>7, Zenon DEF pickCatalogProfile
  <1>9. PICK i \in P : fits[1] = refs[i]
    BY <1>6, <1>7, Zenon
  <1> QED BY <1>1, <1>8, <1>9

(* Such a provider has a row, taken from that profile.                     *)
LEMMA RowOfProvider ==
    ASSUME NEW s, Catalogued(s), NEW cp \in s.policies, NEW i \in DOMAIN cp.allowed,
           NEW ref \in Range(ProfilesForProvider(s, cp.allowed[i].id)),
           ref.provider = cp.allowed[i].id, ref \in Served(s),
           ProfileOf(s, ref).posture = cp.posture
    PROVE  \E k \in DOMAIN DeriveAllowedProviderSummaries(s, cp) :
             LET row == DeriveAllowedProviderSummaries(s, cp)[k]
             IN  /\ row.provider.id = ref.provider
                 /\ ProfileOf(s, [ref EXCEPT !.profile = row.profile]).posture = cp.posture
  <1>1. PICK n \in Nat : DOMAIN cp.allowed = 1..n
    BY LoadIsUsable, Zenon
  <1> DEFINE P == {j \in DOMAIN cp.allowed : ProfilesForProvider(s, cp.allowed[j].id) # <<>>}
             X == {cp.allowed[j] : j \in DOMAIN cp.allowed}
  <1>2. P \subseteq 1..n /\ \A j \in P : cp.allowed[j] \in X
    BY <1>1, Zenon
  <1>3. i \in P
    BY DEF Range
  <1>4. PICK known : known = Pick(cp.allowed, P)
    BY Zenon
  <1>5. \E k \in DOMAIN known : known[k] = cp.allowed[i]
    <2> HIDE DEF P, X
    <2>1. IsFiniteSet(P) /\ P \subseteq Int
      BY <1>2, PositionsFinite, Zenon
    <2>2. Holds(cp.allowed, P, X)
      BY <1>2, Zenon DEF Holds
    <2>3. Picks(known, cp.allowed, P)
      BY <1>4, <2>1, <2>2, PickList, Zenon
    <2> QED BY <1>3, <2>3, Zenon DEF Picks
  <1>6. PICK k \in DOMAIN known : known[k] = cp.allowed[i]
    BY <1>5, Zenon
  <1>7. PICK chosen : chosen = pickCatalogProfile(s, ProfilesForProvider(s, cp.allowed[i].id),
                                                  cp.posture)
    BY Zenon
  <1>8. /\ chosen \in Served(s) /\ chosen.provider = cp.allowed[i].id
        /\ ProfileOf(s, chosen).posture = cp.posture
    BY <1>7, PresentedByFit
  <1>9. [ref EXCEPT !.profile = chosen.profile] = chosen
    <2>1. PICK m \in s.manifests : \E id \in DOMAIN m.profiles : ref = Ref(m, id)
      BY ServedResolves, Zenon
    <2>2. PICK o \in s.manifests : \E id \in DOMAIN o.profiles : chosen = Ref(o, id)
      BY <1>8, ServedResolves, Zenon
    <2>3. m.id = o.id
      BY <1>8, <2>1, <2>2 DEF Ref
    <2>4. m = o
      BY <2>3, LoadIsUsable, Zenon
    <2> QED BY <2>1, <2>2, <2>4 DEF Ref
  <1>10. PICK rows : rows = DeriveAllowedProviderSummaries(s, cp)
    BY Zenon
  <1>11. /\ DOMAIN rows = DOMAIN known
         /\ rows[k].provider = cp.allowed[i] /\ rows[k].profile = chosen.profile
    BY <1>4, <1>6, <1>7, <1>10, Zenon DEF DeriveAllowedProviderSummaries
  <1> HIDE DEF P, X
  <1>12. /\ rows[k].provider.id = ref.provider
         /\ ProfileOf(s, [ref EXCEPT !.profile = rows[k].profile]).posture = cp.posture
    BY <1>8, <1>9, <1>11, Zenon
  <1> QED BY <1>6, <1>10, <1>11, <1>12, Zenon

(* GET /crypto-policies and explore tell one story: for every candidate    *)
(* explore ranks, the derived networks contain all chains its snapshot     *)
(* would pin and one the wallet was seen on, and its provider's row is of  *)
(* a profile of the required posture.                                      *)
THEOREM CatalogueShowsTheorem == Spec => []CatalogueShowsCandidates
  <1>1. HeldInv /\ AnswerInv => CatalogueShowsCandidates
    <2> SUFFICES ASSUME HeldInv, AnswerInv, answer # None, NEW c \in answer.decision.ranked
                 PROVE  LET cp   == answer.policy
                            rows == DeriveAllowedProviderSummaries(store, cp)
                            Shown(i) == ProfileOf(store, [c.ref EXCEPT !.profile = rows[i].profile])
                            pin  == collectPersistableChainSupport(ProfileOf(store, c.ref).chains)
                        IN  /\ {n.id : n \in Range(pin)} \subseteq ShownIds(store, cp)
                            /\ hasPositiveChainID(answer.obs.chains)
                                 => answer.obs.chains \cap ShownIds(store, cp) # {}
                            /\ \E i \in DOMAIN rows :
                                 /\ rows[i].provider.id = c.ref.provider
                                 /\ Shown(i).posture = cp.posture
      BY Zenon DEF CatalogueShowsCandidates, ShownIds
    <2> DEFINE cp == answer.policy
    <2>1. PICK p : p = ProfileOf(store, c.ref)
      BY Zenon
    <2>2. /\ Catalogued(store) /\ cp \in store.policies /\ c.ref \in Served(store)
          /\ EvaluateScanCompatibility(answer.obs, cp.posture, p) = {}
      BY <2>1, RankedIsServed, Zenon
    <2>3. PICK i \in DOMAIN cp.allowed :
             /\ c.ref \in Range(ProfilesForProvider(store, cp.allowed[i].id))
             /\ c.ref.provider = cp.allowed[i].id
      BY RankedIsServed, Zenon
    <2>4. p.chains \in Seq(Chain)
      BY <2>1, <2>2, ServedResolves, Zenon
    <2>5. \A j \in DeployableAt(p.chains) : p.chains[j].id \in ShownIds(store, cp)
      BY <2>1, <2>2, <2>3, NetworksCover, Zenon
    <2>6. ASSUME NEW e \in Range(collectPersistableChainSupport(p.chains))
          PROVE  e.id \in ShownIds(store, cp)
      <3>1. PICK pin : pin = collectPersistableChainSupport(p.chains)
        BY Zenon
      <3>2. PICK k \in DOMAIN pin : pin[k] = e
        BY <2>6, <3>1, Zenon DEF Range
      <3>3. \E j \in DeployableAt(p.chains) : pin[k] = p.chains[j]
        BY <2>4, <3>1, PinIsPerimeter, Zenon
      <3> QED BY <2>5, <3>2, <3>3, Zenon
    <2>7. ASSUME hasPositiveChainID(answer.obs.chains)
          PROVE  answer.obs.chains \cap ShownIds(store, cp) # {}
      <3>1. PICK d \in NonPlanned(answer.obs.chains, p.chains) : TRUE
        BY <2>2, <2>7, CoucheA
      <3>2. d.id \in answer.obs.chains /\ \E j \in DeployableAt(p.chains) : d = p.chains[j]
        BY <2>4, <3>1, CapableIsDeployable, Zenon
      <3> QED BY <2>5, <3>2, Zenon
    <2>8. p.posture = cp.posture
      BY <2>2, CoucheA
    <2>9. \E k \in DOMAIN DeriveAllowedProviderSummaries(store, cp) :
             LET row == DeriveAllowedProviderSummaries(store, cp)[k]
             IN  /\ row.provider.id = c.ref.provider
                 /\ ProfileOf(store, [c.ref EXCEPT !.profile = row.profile]).posture = cp.posture
      <3> DEFINE ref == c.ref
      <3>1. /\ Catalogued(store) /\ cp \in store.policies /\ i \in DOMAIN cp.allowed
            /\ ref \in Range(ProfilesForProvider(store, cp.allowed[i].id))
            /\ ref.provider = cp.allowed[i].id /\ ref \in Served(store)
            /\ ProfileOf(store, ref).posture = cp.posture
        BY <2>1, <2>2, <2>3, <2>8, Zenon
      <3> HIDE DEF ref, cp
      <3>2. \E k \in DOMAIN DeriveAllowedProviderSummaries(store, cp) :
               LET row == DeriveAllowedProviderSummaries(store, cp)[k]
               IN  /\ row.provider.id = ref.provider
                   /\ ProfileOf(store, [ref EXCEPT !.profile = row.profile]).posture = cp.posture
        BY <3>1, RowOfProvider
      <3> QED BY <3>2, Zenon DEF ref
    <2> QED BY <2>1, <2>6, <2>7, <2>9, Zenon
  <1> QED BY <1>1, HeldAlways, AnswerAlways, PTL
===============================================================================
