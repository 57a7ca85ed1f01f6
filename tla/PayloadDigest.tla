----------------------------- MODULE PayloadDigest -----------------------------
(***************************************************************************)
(* DigestCanonical of internal/payloadhash: which JSON payloads have a     *)
(* digest, and the closed object that is hashed and stored.                *)
(*                                                                         *)
(* JSON as json.Unmarshal leaves it: a scalar [t, v], where t is "string", *)
(* "bool", "number" or "null" and v a number that stands for its value     *)
(* (strings in their byte order); an array [t, items], a sequence; or an   *)
(* object [t, fields], a function.  The order of an object's members is    *)
(* gone already, as it is after canonicalization.                          *)
(***************************************************************************)
EXTENDS SortedLists

CONSTANT MaxNesting  \* encoding/json: Unmarshal refuses objects and arrays
                     \* inside one another more than 10000 deep

ASSUME NestingAssumption == MaxNesting \in Nat

closedFields == {"schema_version", "crypto_policy_id", "required_posture",
                 "user_constraints", "solution_profile_ref",
                 "accepted_provider_snapshot", "accepted_findings"}

Containers == {"object", "array"}

(* One of the values described above, its parts apart.                     *)
IsValue(v) ==
    \/ /\ v.t \in {"string", "bool", "number", "null"}
       /\ v = [t |-> v.t, v |-> v.v] /\ v.v \in Int
    \/ /\ v.t = "array" /\ v = [t |-> "array", items |-> v.items]
       /\ v.items \in Seq(Range(v.items))
    \/ /\ v.t = "object" /\ v = [t |-> "object", fields |-> v.fields]
       /\ v.fields \in [DOMAIN v.fields -> Range(v.fields)]

(* The values directly inside a value, and inside a set of them.           *)
Children(v) == CASE v.t = "object" -> Range(v.fields)
                 [] v.t = "array"  -> Range(v.items)
                 [] OTHER          -> {}

ChildrenOf(S) == UNION {Children(v) : v \in S}

(* The values n levels below v, for every n.                               *)
Levels(v) ==
    LET level[n \in 0..MaxNesting] == IF n = 0 THEN {v} ELSE ChildrenOf(level[n - 1])
    IN  level

(* A value and all that is nested in it.                                   *)
Subtree(v) == UNION {Levels(v)[n] : n \in 0..MaxNesting}

(* json.Unmarshal returns no error.  (A request whose payload is nested    *)
(* too deep is refused before, by the decoder of its body.)                *)
Unmarshals(v) == \A w \in Levels(v)[MaxNesting] : w.t \notin Containers

(* The recursion visits every value of the subtree.                        *)
assertAllowedSubtree(v) ==
    \A w \in Subtree(v) : w.t \in {"string", "bool"} \cup Containers

findingsAsStrings(v) == v.t = "array" /\ \A i \in DOMAIN v.items : v.items[i].t = "string"

(* Every element but one that equals its predecessor.                      *)
DropRepeated(s) == Pick(s, {i \in DOMAIN s : i > 1 => s[i] # s[i - 1]})

(* sort.Strings: the positions of the findings, in the order of the values.*)
Sorted(s) ==
    LET order == SortedBy(DOMAIN s, [i \in DOMAIN s |-> s[i].v])
    IN  [k \in DOMAIN order |-> s[order[k]]]

(* Replaces NormalizeAcceptedFindings in a mutation run: repetitions are   *)
(* dropped before they are neighbours.                                     *)
NormalizeThenSort(findings) == Sorted(DropRepeated(findings))

NormalizeAcceptedFindings(findings) == DropRepeated(Sorted(findings))

(* DigestCanonicalJSON returns no error.  Which of several errors it       *)
(* returns depends on the iteration order of Go's maps and is left out.    *)
HasDigest(root) ==
    /\ Unmarshals(root)
    /\ root.t = "object"
    /\ DOMAIN root.fields = closedFields
    /\ assertAllowedSubtree(root)
    /\ findingsAsStrings(root.fields["accepted_findings"])

(* The closed object DigestCanonical hashes and returns.                   *)
Closed(root) ==
    [root EXCEPT !.fields["accepted_findings"].items = NormalizeAcceptedFindings(@)]
-------------------------------------------------------------------------------
(* What payloads are compared by                                           *)

Leaves(v) == {w.t : w \in Subtree(v)} \ Containers

Findings(v) == v.fields["accepted_findings"].items

(* Two payloads that say the same, whatever the order and repetition of    *)
(* their findings.                                                         *)
SameContent(v, w) ==
    /\ DOMAIN v.fields = DOMAIN w.fields
    /\ Range(Findings(v)) = Range(Findings(w))
    /\ \A k \in DOMAIN v.fields \ {"accepted_findings"} : v.fields[k] = w.fields[k]
================================================================================
