------------------------------- MODULE Catalogue -------------------------------
(***************************************************************************)
(* The catalogue of crypto policies and provider manifests: how it is read *)
(* from a directory at boot, the registry's lookups, and what the GET      *)
(* routes derive from it.  Pure operators; s is a loaded catalogue.        *)
(*                                                                         *)
(* A directory is the sequence of its JSON files, in name order.  sound:   *)
(* the file decodes and the fields no rule reads are valid.  A manifest's  *)
(* profiles are a function from their ids, which are numbered in the       *)
(* order of their text.  allowed: the provider ids a policy lists, as      *)
(* spelled; two spellings of one id differ in case or blanks.              *)
(***************************************************************************)
EXTENDS Compatibility

Spelled(id, spelling) == [id |-> id, spelling |-> spelling]

IsFile(f) ==
    \/ f.type = "skip"
    \/ /\ f.type = "policy" /\ {"type", "id", "sound", "posture", "allowed"} \subseteq DOMAIN f
       /\ f.sound \in BOOLEAN /\ f.posture \in Posture
       /\ Len(f.allowed) \in Nat /\ DOMAIN f.allowed = 1..Len(f.allowed)
       /\ \A i \in DOMAIN f.allowed : DOMAIN f.allowed[i] = {"id", "spelling"}
    \/ /\ f.type = "manifest" /\ f.sound \in BOOLEAN
       /\ DOMAIN f.profiles \subseteq Nat /\ IsFiniteSet(DOMAIN f.profiles)
       /\ \A id \in DOMAIN f.profiles : f.profiles[id] \in Profile

-------------------------------------------------------------------------------
(* Loading                                                                 *)

(* LoadCryptoPolicyFromBytes *)
ValidPolicy(f) == f.type = "policy" /\ f.sound /\ f.allowed # <<>>

(* LoadProviderManifestFromBytes *)
ValidManifest(f) ==
    /\ f.type = "manifest" /\ f.sound /\ DOMAIN f.profiles # {}
    /\ \A id \in DOMAIN f.profiles : validateSolutionProfile(f.profiles[id])

Valid(f) == ValidPolicy(f) \/ ValidManifest(f)

(* Replaces Loaded in a mutation run: a repeated id is not skipped.        *)
LoadedRepeats(dir, type) ==
    {dir[i] : i \in {k \in DOMAIN dir : dir[k].type = type /\ Valid(dir[k])}}

(* Files that are invalid, or repeat the id of one already loaded, are     *)
(* skipped.                                                                *)
Loaded(dir, type) ==
    {dir[i] : i \in {k \in DOMAIN dir :
        /\ dir[k].type = type /\ Valid(dir[k])
        /\ \A j \in 1..(k - 1) :
             ~(dir[j].type = type /\ Valid(dir[j]) /\ dir[j].id = dir[k].id)}}

(* A spelling is kept once; two spellings of one id are both kept.         *)
normalizeStringsPreserveOrder(names) ==
    Pick(names, {i \in DOMAIN names : \A j \in 1..(i - 1) : names[j] # names[i]})

(* CryptoPolicy.Normalize *)
Normalize(f) == [f EXCEPT !.allowed = normalizeStringsPreserveOrder(@)]

loadReadStoreFromCatalogueDir(dir) ==
    LET policies  == {Normalize(f) : f \in Loaded(dir, "policy")}
        manifests == Loaded(dir, "manifest")
    IN  IF policies = {} \/ manifests = {} THEN None
        ELSE [policies |-> policies, manifests |-> manifests]

-------------------------------------------------------------------------------
(* The registry                                                            *)

Ref(m, id) == [provider |-> m.id, profile |-> id, version |-> m.version]

(* Replaces Lookup in a mutation run: the manifest version is not compared. *)
LookupAnyVersion(s, ref) ==
    {m.profiles[ref.profile] : m \in {n \in s.manifests :
        n.id = ref.provider /\ ref.profile \in DOMAIN n.profiles}}

(* The profile a reference names: a set of at most one.                    *)
Lookup(s, ref) ==
    {m.profiles[ref.profile] : m \in {n \in s.manifests :
        /\ n.id = ref.provider /\ ref.profile \in DOMAIN n.profiles
        /\ n.version = ref.version}}

(* References to a provider's profiles in the order of their ids, empty    *)
(* for a provider that is not loaded.  Ids are compared without case.      *)
ProfilesForProvider(s, id) ==
    LET Refs(m) == LET ids == Ascending(DOMAIN m.profiles)
                   IN  [k \in DOMAIN ids |-> Ref(m, ids[k])]
        found   == {m \in s.manifests : m.id = id}
    IN  IF found = {} THEN <<>> ELSE Refs(CHOOSE m \in found : TRUE)

(* All candidates of a policy, in the order in which they are met.         *)
ProfilesFor(s, cp) ==
    Joined([i \in DOMAIN cp.allowed |-> ProfilesForProvider(s, cp.allowed[i].id)])

(* Those of the allowed entry i.                                           *)
RefsOf(s, cp, i) == Range(ProfilesForProvider(s, cp.allowed[i].id))

(* A policy without one is not offered: it is hidden and cannot be explored. *)
HasPostureCompatibleProvider(s, cp) ==
    \E i \in DOMAIN cp.allowed : \E ref \in RefsOf(s, cp, i) : \E p \in Lookup(s, ref) :
        p.posture = cp.posture

-------------------------------------------------------------------------------
(* What GET /crypto-policies derives for a policy                          *)

ProfileOf(s, ref) == CHOOSE p \in Lookup(s, ref) : TRUE

(* One entry per chain, the first that is deployable.                      *)
FirstPerChain(chains) ==
    LET listed == Pick(chains, DeployableAt(chains))
    IN  {findChainSupport(listed, id) : id \in {c.id : c \in Range(listed)}}

(* Replaces DeriveCompatibleNetworks in a mutation run: the first entry of *)
(* a chain decides whether the chain is shown.                             *)
DeriveFromFirstEntries(s, cp) ==
    LET refs == ProfilesFor(s, cp)
        all  == Joined([i \in DOMAIN refs |-> ProfileOf(s, refs[i]).chains])
    IN  {c \in {findChainSupport(all, id) : id \in {c.id : c \in Range(all)}} : deployable(c)}

DeriveCompatibleNetworks(s, cp) ==
    LET refs == ProfilesFor(s, cp)
    IN  FirstPerChain(Joined([i \in DOMAIN refs |-> ProfileOf(s, refs[i]).chains]))

(* The profile a provider is presented by: the first of the required       *)
(* posture, or else the first.                                             *)
pickCatalogProfile(s, refs, posture) ==
    LET fits == Pick(refs, {i \in DOMAIN refs : ProfileOf(s, refs[i]).posture = posture})
    IN  IF fits # <<>> THEN fits[1] ELSE refs[1]

(* One row per listed provider that is loaded.                             *)
DeriveAllowedProviderSummaries(s, cp) ==
    LET Row(name) ==
            LET chosen == pickCatalogProfile(s, ProfilesForProvider(s, name.id), cp.posture)
            IN  [provider |-> name, profile |-> chosen.profile,
                 networks |-> FirstPerChain(ProfileOf(s, chosen).chains)]
        known == Pick(cp.allowed, {i \in DOMAIN cp.allowed :
                                      ProfilesForProvider(s, cp.allowed[i].id) # <<>>})
    IN  [i \in DOMAIN known |-> Row(known[i])]
================================================================================
