--------------------------- MODULE MCProviderJourney ---------------------------
(* Catalogues of two providers.  Provider p1 publishes one of several      *)
(* profiles; p2's only chain is planned.  The directories differ in which  *)
(* versions, policies and defective files they hold.                       *)
EXTENDS ProviderJourney

Entry(id, status, caps) == [id |-> id, status |-> status, caps |-> caps]

Base == [posture |-> "full_pq", kinds |-> {"eoa"}, rotation |-> "none",
         newAccount |-> TRUE, continuity |-> FALSE,
         bundler |-> TRUE, localState |-> FALSE, suggested |-> None,
         chains |-> <<Entry(1, "testnet_supported", {"deploy", "sign_userop"})>>,
         refs |-> "pinned"]

Want(newWallet, continuity, rotation) ==
    [newWallet |-> newWallet, continuity |-> continuity, rotation |-> rotation]

(* Variations of one profile: each rule has a profile that it decides.     *)
Variants == {
    Base,
    [Base EXCEPT !.posture = "hybrid"],
    [Base EXCEPT !.kinds = {"erc4337_smart_account"}],
    [Base EXCEPT !.rotation = "per_userop", !.localState = TRUE],
    [Base EXCEPT !.newAccount = FALSE, !.continuity = TRUE, !.localState = TRUE],
    [Base EXCEPT !.bundler = FALSE, !.newAccount = FALSE],
    [Base EXCEPT !.suggested = Want(TRUE, FALSE, "none")],
    [Base EXCEPT !.suggested = Want(TRUE, FALSE, "per_userop")],
    [Base EXCEPT !.suggested = Want(FALSE, FALSE, "none")],
    [Base EXCEPT !.refs = "unpinned"],
    [Base EXCEPT !.refs = "empty"],
    [Base EXCEPT !.chains = <<>>],
    [Base EXCEPT !.chains = <<Entry(2, "testnet_supported", Capability), @[1]>>],
    [Base EXCEPT !.chains = <<Entry(2, "testnet_supported", {"deploy"}), @[1]>>],
    [Base EXCEPT !.chains = <<Entry(2, "planned", Capability), @[1]>>],
    [Base EXCEPT !.chains = <<Entry(1, "planned", {}), Entry(2, "testnet_supported", {}), @[1]>>],
    [Base EXCEPT !.chains = <<Entry(0, "testnet_supported", {}), @[1]>>]}

Policy(posture, allowed) ==
    [type |-> "policy", id |-> "cp", sound |-> TRUE, posture |-> posture,
     allowed |-> [i \in DOMAIN allowed |-> Spelled(allowed[i], "as loaded")]]

(* The version stands for the profiles, as published manifests do.         *)
ManifestOf(id, profiles) ==
    [type |-> "manifest", id |-> id, sound |-> TRUE, version |-> profiles,
     profiles |-> profiles]

Manifest(id, p) == ManifestOf(id, <<p>>)

(* A provider with a profile of each posture, in either order, and a       *)
(* policy that lists it twice as spelled and once in another spelling.     *)
Twofold == {<<[Base EXCEPT !.posture = "hybrid", !.chains = <<Entry(2, "testnet_supported", {})>>],
              Base>>,
            <<Base, [Base EXCEPT !.posture = "hybrid"]>>}

Respelled ==
    [Policy("full_pq", <<"p1", "p2", "p1">>) EXCEPT
        !.allowed = Append(@, Spelled("p1", "upper case"))]

Planned == [Base EXCEPT !.chains = <<Entry(1, "planned", Capability)>>]

MCCatalogues ==
    {<<Policy("full_pq", <<"p1">>), Manifest("p1", p)>> : p \in Variants}
    \cup {<<Respelled, ManifestOf("p1", profiles)>> :
             profiles \in Twofold}
    \cup {<<[type |-> "skip"], Policy("full_pq", <<"p1", "p2">>), Policy("hybrid", <<"p2">>),
            Manifest("p2", Planned), Manifest("p1", Base),
            Manifest("p1", [Base EXCEPT !.bundler = FALSE])>>,
          <<Policy("hybrid", <<"p1", "p2">>), Manifest("p1", Base),
            Manifest("p2", [Base EXCEPT !.posture = "hybrid"])>>,
          <<Policy("full_pq", <<"p2">>), Manifest("p1", Base)>>,
          <<[Policy("full_pq", <<"p1">>) EXCEPT !.sound = FALSE], Manifest("p1", Base)>>}

MCFootprints ==
    {[kind |-> "eoa", chains |-> chains] : chains \in {{}, {1}, {0, 2}, {1, 2}}}
        \cup {[kind |-> "erc4337_smart_account", chains |-> {}]}
================================================================================
