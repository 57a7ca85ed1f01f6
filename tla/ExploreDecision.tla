---------------------------- MODULE ExploreDecision ----------------------------
(***************************************************************************)
(* The answer of POST /policies/decisions/explore: which candidates of a   *)
(* policy suit the scanned wallet and why the others do not, and the       *)
(* no-deployable-candidate signal that operations see.                     *)
(*                                                                         *)
(* The lists are sets of candidates that carry the position of the allowed *)
(* entry they come from, since an entry spelled twice is evaluated twice.  *)
(* The order of a list is left out: SelectedPolicyID, the only thing read  *)
(* from it, is the policy's own id.                                        *)
(***************************************************************************)
EXTENDS Catalogue

(* DeriveCompositionView: what explore shows of a ranked profile.          *)
DeriveCompositionView(p) ==
    [bundler |-> p.bundler, rotation |-> p.rotation, newAccount |-> p.newAccount,
     continuity |-> p.continuity, localState |-> p.localState]

Ranked(entry, ref, p) ==
    [entry |-> entry, ref |-> ref, findings |-> EvaluateSoftFindings(p),
     suggested |-> p.suggested, composition |-> DeriveCompositionView(p)]

Rejected(entry, ref, status, reasons) ==
    [entry |-> entry, ref |-> ref, status |-> status, reasons |-> reasons]

(* The rejections of a candidate: none, or one.                            *)
RejectionsOf(s, cp, obs, entry, ref) ==
    LET p    == ProfileOf(s, ref)
        hard == EvaluateScanCompatibility(obs, cp.posture, p)
    IN  IF Lookup(s, ref) = {}
        THEN {Rejected(entry, ref, "incompatible", {"unresolved"})}
        ELSE IF ~ValidateSuggestedUserConstraints(p)
        THEN {Rejected(entry, ref, "erroneous", {"suggested"})}
        ELSE IF hard # {} THEN {Rejected(entry, ref, "incompatible", hard)}
        ELSE {}

(* An allowed provider that is not loaded is itself rejected.              *)
EvaluateExploreCoucheA(s, cp, obs) ==
    LET Fits(i)    == {r \in RefsOf(s, cp, i) : RejectionsOf(s, cp, obs, i, r) = {}}
        Missing(i) == Rejected(i, cp.allowed[i], "incompatible", {"unresolved"})
    IN  [ranked   |-> UNION {{Ranked(i, ref, ProfileOf(s, ref)) : ref \in Fits(i)} :
                             i \in DOMAIN cp.allowed},
         rejected |-> {Missing(i) : i \in {j \in DOMAIN cp.allowed : RefsOf(s, cp, j) = {}}}
                        \cup UNION {UNION {RejectionsOf(s, cp, obs, i, ref) :
                                              ref \in RefsOf(s, cp, i)} :
                                       i \in DOMAIN cp.allowed}]

-------------------------------------------------------------------------------
(* The signal                                                              *)

(* The codes of the rejection reasons in the order of their text.          *)
CodeOrder == <<"suggested", "capability", "chain", "posture", "unresolved", "wallet_type">>

(* The first code in string order; chain_scope, which would come first, is *)
(* not emitted by couche A.                                                *)
dominantExploreRejectionCode(rejected) ==
    LET codes == UNION {c.reasons : c \in rejected}
        hits  == {i \in DOMAIN CodeOrder : CodeOrder[i] \in codes}
    IN  IF hits = {} THEN "unknown" ELSE CodeOrder[CHOOSE i \in hits : \A j \in hits : i <= j]

(* Replaces recordNoDeployableCandidate in a mutation run: the signal is   *)
(* given whenever something is rejected.                                   *)
recordAnyRejection(obs, decision) ==
    IF decision.rejected = {} THEN {}
    ELSE {[code |-> dominantExploreRejectionCode(decision.rejected), wallet |-> obs.kind]}

(* The signals given, none or one, by the labels of the metric.  The       *)
(* binding label is "discovery" for every request with a completed scan,   *)
(* and the missing-chain bucket is "unknown": explore v0.2 has no target   *)
(* chains.                                                                 *)
recordNoDeployableCandidate(obs, decision) ==
    IF decision.ranked # {} \/ decision.rejected = {} THEN {}
    ELSE {[code |-> dominantExploreRejectionCode(decision.rejected), wallet |-> obs.kind]}
================================================================================
