---------------------------- MODULE ProviderJourney ----------------------------
(***************************************************************************)
(* A client's way to a persisted policy: explore the providers that suit   *)
(* the scanned wallet, let the service build the provider snapshot for the *)
(* candidate it picked, then submit the payload that the persist gate      *)
(* replays.  The three requests are independent: between them the service  *)
(* may restart with another catalogue (the directory is read at boot), and *)
(* the wallet may be scanned again.  The persist request here is its       *)
(* provider gate; PersistFlow has the rest of it.                          *)
(***************************************************************************)
EXTENDS ExploreDecision

CONSTANTS Catalogues,   \* the directories the service may boot from
          Footprints    \* what scans of the wallet may observe

VARIABLES store,        \* the loaded catalogue, None while the service is down
          scan,         \* the latest completed scan's observation
          answer,       \* the answer to an explore request, until the next event
          explored,     \* the candidate the client picked from an explore answer
          assisted,     \* the answer to its accepted-provider-snapshots request
          result        \* the outcome of its persist request

vars == <<store, scan, answer, explored, assisted, result>>

(* A provider that publishes other profiles publishes another version.     *)
ASSUME CatalogueAssumption ==
    /\ Footprints \subseteq Observation
    /\ \A dir \in Catalogues :
         /\ Len(dir) \in Nat /\ DOMAIN dir = 1..Len(dir)
         /\ \A i \in DOMAIN dir : IsFile(dir[i])
    /\ \A d, e \in Catalogues : \A i \in DOMAIN d, j \in DOMAIN e :
         (/\ d[i].type = "manifest" /\ e[j].type = "manifest"
          /\ d[i].id = e[j].id /\ d[i].version = e[j].version)
         => d[i].profiles = e[j].profiles

-------------------------------------------------------------------------------
(* The requests                                                            *)

Init ==
    /\ store \in {loadReadStoreFromCatalogueDir(dir) : dir \in Catalogues}
    /\ scan \in Footprints
    /\ answer = None /\ explored = None /\ assisted = None /\ result = None

(* The persist answer ends a journey.  What could follow it could as well  *)
(* happen before it: persisting changes neither the store, the scan nor    *)
(* what the client holds.                                                  *)
Restart ==
    /\ result = None
    /\ \E dir \in Catalogues : store' = loadReadStoreFromCatalogueDir(dir)
    /\ answer' = None
    /\ UNCHANGED <<scan, explored, assisted, result>>

Rescan ==
    /\ result = None
    /\ scan' \in Footprints
    /\ answer' = None
    /\ UNCHANGED <<store, explored, assisted, result>>

(* The client explores a policy for its scan and picks a ranked candidate; *)
(* an answer that ranks nothing leaves it with none.  A refused request    *)
(* changes nothing.  The code takes the observation from the policy_context*)
(* of the request: a client that sends another one is a client whose scan  *)
(* observed that, between two Rescans.                                     *)
Explore ==
    /\ store # None /\ result = None
    /\ \E cp \in store.policies :
         LET decision == EvaluateExploreCoucheA(store, cp, scan)
         IN  /\ HasPostureCompatibleProvider(store, cp)
             /\ answer' = [policy |-> cp, obs |-> scan, decision |-> decision,
                           signals |-> recordNoDeployableCandidate(scan, decision)]
             /\ \/ decision.ranked = {} /\ explored' = None
                \/ \E c \in decision.ranked : \E p \in Lookup(store, c.ref) :
                     explored' = [policy |-> cp.id, posture |-> cp.posture, obs |-> scan,
                                  ref |-> c.ref, profile |-> p, shown |-> c.composition]
    /\ assisted' = None
    /\ UNCHANGED <<store, scan, result>>

(* BuildAcceptedProviderSnapshot's answer for a looked-up profile.         *)
SnapshotOf(p, findings) ==
    [profile  |-> [p EXCEPT !.chains = collectPersistableChainSupport(p.chains),
                            !.refs   = IF @ = "empty" THEN "none" ELSE @],
     findings |-> findings \cup EvaluateSoftFindings(p)]

(* Ids are compared without case or surrounding blanks.                    *)
providerAllowedByCryptoPolicy(cp, id) == \E i \in DOMAIN cp.allowed : cp.allowed[i].id = id

(* The client asks for the snapshot of its candidate, accepting some soft  *)
(* findings itself.  No deployable chain, an unknown finding, a provider   *)
(* no longer allowed or a version no longer served is an error.            *)
Assist ==
    /\ store # None /\ explored # None /\ result = None
    /\ \E cp \in store.policies, findings \in SUBSET Soft :
         /\ cp.id = explored.policy
         /\ HasPostureCompatibleProvider(store, cp)
         /\ providerAllowedByCryptoPolicy(cp, explored.ref.provider)
         /\ \E p \in Lookup(store, explored.ref) :
              /\ collectPersistableChainSupport(p.chains) # <<>>
              /\ assisted' = [posture |-> cp.posture, snapshot |-> SnapshotOf(p, findings)]
    /\ answer' = None
    /\ UNCHANGED <<store, scan, explored, result>>

(* The payload of a client that submits what it was given.                 *)
PayloadWith(constraints) ==
    [closed |-> TRUE, posture |-> assisted.posture, constraints |-> constraints,
     snapshot |-> assisted.snapshot, findings |-> assisted.snapshot.findings]

(* Profiles as GET /providers lists them, not as they are pinned.          *)
Unpinned(payload) ==
    UNION {{[payload EXCEPT !.snapshot.profile = m.profiles[id]] : id \in DOMAIN m.profiles} :
              m \in store.manifests}

(* Some of what a client may submit instead.                               *)
Altered(payload) ==
    LET planned == [id |-> 1, status |-> "planned", caps |-> {}]
    IN  {[payload EXCEPT !.closed = FALSE],
         [payload EXCEPT !.findings = {}],
         [payload EXCEPT !.findings = {"requires_bundler"}],
         [payload EXCEPT !.snapshot.profile.chains = Append(@, planned)],
         [payload EXCEPT !.snapshot.profile.chains = <<>>],
         [payload EXCEPT !.snapshot.profile.refs = "empty"]}
        \cup {[payload EXCEPT !.findings = kept, !.snapshot.findings = kept] :
                 kept \in SUBSET {"requires_bundler"}}
        \cup {[payload EXCEPT !.posture = posture] : posture \in Posture}
        \cup Unpinned(payload)

Persist ==
    /\ store # None /\ assisted # None /\ result = None
    /\ \E constraints \in Constraints :
       \E payload \in {PayloadWith(constraints)} \cup Altered(PayloadWith(constraints)) :
         result' = [payload |-> payload, scan |-> scan, code |-> ValidateForPersist(payload)]
    /\ answer' = None
    /\ UNCHANGED <<store, scan, explored, assisted>>

Next == Restart \/ Rescan \/ Explore \/ Assist \/ Persist

Spec == Init /\ [][Next]_vars

-------------------------------------------------------------------------------
(* Properties                                                              *)

(* The loaded catalogue is usable: it has one policy or manifest per id,   *)
(* all its profiles are valid, and what the client holds has its type.     *)
TypeOK ==
    /\ store # None =>
         /\ store.policies # {} /\ store.manifests # {}
         /\ \A f, g \in store.policies : f.id = g.id => f = g
         /\ \A f, g \in store.manifests : f.id = g.id => f = g
         /\ \A m \in store.manifests : \A id \in DOMAIN m.profiles :
              m.profiles[id] \in Profile /\ validateSolutionProfile(m.profiles[id])
    /\ scan \in Footprints
    /\ answer # None => store # None /\ answer.policy \in store.policies /\ answer.obs = scan
    /\ explored # None => explored.profile \in Profile /\ explored.obs \in Footprints
    /\ assisted # None => explored # None /\ assisted.snapshot \in Snapshot
    /\ result # None => assisted # None /\ result.payload.constraints \in Constraints

(* The client submitted what the service gave it.                          *)
Honest == result # None /\ result.payload = PayloadWith(result.payload.constraints)

(* The constraints a client is led to: the profile's suggestion, or any    *)
(* that couche B accepts when the profile suggests none.                   *)
Advised(constraints, p) ==
    IF p.suggested # None THEN constraints = p.suggested
    ELSE EvaluateUserConstraints(constraints, p) = {}

(* No dead end: a client with an externally owned account that picks a     *)
(* ranked candidate with pinned references, takes the snapshot it is given *)
(* and the constraints it is advised passes the persist gate, whatever was *)
(* reloaded or scanned in between.  (A policy whose required posture was   *)
(* changed in between is the exception: explore and assist then speak of   *)
(* different policies.)  Explore, assist and the gate are three            *)
(* evaluations of the same rules over three representations.               *)
HonestJourneyPersists ==
    (/\ Honest
     /\ explored.obs.kind = "eoa"
     /\ explored.posture = assisted.posture
     /\ explored.profile.refs = "pinned"
     /\ Advised(result.payload.constraints, explored.profile))
    => result.code = Ok

(* The snapshot the client is given is that of the profile it picked, not  *)
(* of another version of it that the catalogue now serves (Lookup compares *)
(* manifest_version), and it is composed as explore showed.                *)
SnapshotIsExplored ==
    assisted # None =>
        /\ \E findings \in SUBSET Soft :
             assisted.snapshot = SnapshotOf(explored.profile, findings)
        /\ DeriveCompositionView(assisted.snapshot.profile) = explored.shown

(* A chain of the explored scan on which the profile is deployable and     *)
(* capable is among the chains the persisted snapshot pins: the pin is the *)
(* whole deployable perimeter, not one chain of it.                        *)
PinCoversExploredScan ==
    (Honest /\ result.code = Ok /\ hasPositiveChainID(explored.obs.chains))
    => LET p == result.payload.snapshot.profile
       IN  \E i \in DOMAIN p.chains :
             /\ p.chains[i].id \in explored.obs.chains
             /\ minimumScanCapabilities(p.rotation) \subseteq p.chains[i].caps

(* The payload pins a provider that reaches the required posture from an   *)
(* externally owned account, honours every constraint the user set, is     *)
(* deployable, is pinned, and whose drawbacks are all accepted in it.      *)
Sound(payload) ==
    LET p        == payload.snapshot.profile
        accepted == payload.findings \cup payload.snapshot.findings
    IN  /\ payload.posture = p.posture /\ "eoa" \in p.kinds /\ p.refs = "pinned"
        /\ p.chains # <<>>
        /\ \A i \in DOMAIN p.chains : p.chains[i].status # "planned"
        /\ p.newAccount => payload.constraints.newWallet
        /\ payload.constraints.continuity => p.continuity
        /\ payload.constraints.rotation = p.rotation
        /\ p.bundler => "requires_bundler" \in accepted
        /\ p.localState => "requires_local_signer_state" \in accepted

(* A payload that passes the persist gate is sound, also when its client   *)
(* altered what the service gave it.                                       *)
StoredIsSound == (result # None /\ result.code = Ok) => Sound(result.payload)

(* A refusal that blames the user's constraints is couche B's: the         *)
(* combined hard gate, which reports under the same code, never refuses    *)
(* what couches A and B let through, so the finding code extracted for the *)
(* client names one of its constraints.                                    *)
ConstraintRefusalIsCoucheB ==
    (result # None /\ result.code = "PROVIDER_USER_CONSTRAINTS_INCOMPATIBLE")
    => EvaluateUserConstraints(result.payload.constraints, result.payload.snapshot.profile) # {}

(* One capable chain is enough, so a wallet that explore found candidates  *)
(* for on some chain keeps them when a later scan sees it on more chains.  *)
WiderScanKeepsCandidates ==
    (answer # None /\ hasPositiveChainID(answer.obs.chains)) =>
        \A wider \in Footprints, c \in answer.decision.ranked :
            (wider.kind = answer.obs.kind /\ answer.obs.chains \subseteq wider.chains)
            => RejectionsOf(store, answer.policy, wider, c.entry, c.ref) = {}

(* A candidate ranked for a wallet that was seen on some chain can be      *)
(* assisted while the catalogue stays: its provider is allowed, its        *)
(* reference is looked up and it has a chain to pin.  Explore decides by   *)
(* the first entry of an observed chain, assist by any entry that is not   *)
(* planned.  (A wallet seen on no chain is not promised this: for it       *)
(* explore also ranks a profile whose chains are all planned.)             *)
RankedIsAssistable ==
    (answer # None /\ hasPositiveChainID(answer.obs.chains)) =>
        \A c \in answer.decision.ranked :
            /\ providerAllowedByCryptoPolicy(answer.policy, c.ref.provider)
            /\ \E p \in Lookup(store, c.ref) : collectPersistableChainSupport(p.chains) # <<>>

(* GET /crypto-policies and explore tell one story: for every candidate    *)
(* that explore ranks, compatible_networks lists each chain its snapshot   *)
(* would pin and one the wallet was seen on, and its provider has a        *)
(* summary row taken from a profile of the required posture.  A planned    *)
(* entry of a chain does not hide a deployable one further down.           *)
CatalogueShowsCandidates ==
    answer # None =>
        LET cp       == answer.policy
            networks == {n.id : n \in DeriveCompatibleNetworks(store, cp)}
            rows     == DeriveAllowedProviderSummaries(store, cp)
        IN  \A c \in answer.decision.ranked :
              LET pin == collectPersistableChainSupport(ProfileOf(store, c.ref).chains)
              IN  /\ {n.id : n \in Range(pin)} \subseteq networks
                  /\ hasPositiveChainID(answer.obs.chains)
                       => answer.obs.chains \cap networks # {}
                  /\ \E i \in DOMAIN rows :
                       /\ rows[i].provider.id = c.ref.provider
                       /\ ProfileOf(store, [c.ref EXCEPT !.profile = rows[i].profile]).posture
                            = cp.posture

(* The no-deployable-candidate signal is given exactly when explore ranks  *)
(* nothing, for a reason some candidate was rejected for, and it blames    *)
(* the chains only for a wallet that was seen on one.  Its one code stands *)
(* for all rejections: any code but a chain or catalogue fault means that  *)
(* every candidate of the required posture refuses the wallet's type.      *)
SignalIsTruthful ==
    answer # None =>
        LET cp == answer.policy
        IN  /\ answer.signals = {} <=> answer.decision.ranked # {}
            /\ \A signal \in answer.signals :
                 /\ \E c \in answer.decision.rejected : signal.code \in c.reasons
                 /\ signal.code \in {"chain", "capability"}
                      => hasPositiveChainID(answer.obs.chains)
                 /\ signal.code \notin {"suggested", "chain", "capability"} =>
                      \A i \in DOMAIN cp.allowed : \A ref \in RefsOf(store, cp, i) :
                      \A p \in Lookup(store, ref) :
                        p.posture = cp.posture => answer.obs.kind \notin p.kinds

(* The documented persist gate: for a scan that observed the wallet on     *)
(* some chain, a persisted snapshot pins one of the observed chains.  The  *)
(* gate does not see the scan: the closed payload carries no               *)
(* policy_context, and observationFromPersistRaw leaves the chains empty.  *)
PersistOverlapsScan ==
    (result # None /\ result.code = Ok /\ hasPositiveChainID(result.scan.chains))
    => \E i \in DOMAIN result.payload.snapshot.profile.chains :
         result.payload.snapshot.profile.chains[i].id \in result.scan.chains
================================================================================
