---------------------------- MODULE MCEngagementWire ----------------------------
(* The instance of EngagementWire: one persist, with everything a client   *)
(* may get wrong, beside a list.                                           *)
EXTENDS MCPersistFlow, EngagementWire

Str(n)   == [t |-> "string", v |-> n]
Arr(s)   == [t |-> "array", items |-> s]
Obj(f)   == [t |-> "object", fields |-> f]

\* a payload for policy id with these findings; limit is a nested value
MCTree(id, findings, limit) ==
    Obj([k \in closedFields |->
            CASE k = "crypto_policy_id"  -> Str(id)
              [] k = "accepted_findings" -> findings
              [] k = "user_constraints"  -> Obj([limits |-> Arr(<<[t |-> "bool", v |-> 0], limit>>)])
              [] OTHER                   -> Str(0)])

Plain == MCTree(1, Arr(<<Str(1), Str(2)>>), Str(3))

\* p1b says what p1 says; p2 fails a gate; p3 has a number deep inside,
\* p4 findings that are no array, p5 a field too many; p6 is nested too deep
\* to be decoded, so that no body brings it
WireTree ==
    "p1"  :> Plain
 @@ "p1b" :> MCTree(1, Arr(<<Str(2), Str(1), Str(2)>>), Str(3))
 @@ "p2"  :> MCTree(2, Arr(<<>>), Str(3))
 @@ "p3"  :> MCTree(1, Arr(<<Str(1), Str(2)>>), [t |-> "number", v |-> 3])
 @@ "p4"  :> MCTree(1, Str(1), Str(3))
 @@ "p5"  :> Obj(Plain.fields @@ "draft_id" :> Str(1))
 @@ "p6"  :> MCTree(1, Arr(<<Str(1), Str(2)>>), Arr(<<>>))

WireSha(c) == CASE c = Closed(WireTree["p1"]) -> "d1"
                [] c = Closed(WireTree["p2"]) -> "d2"
                [] OTHER                      -> "d3"

WireDigestOf == [p \in DOMAIN WireTree |->
                    IF HasDigest(WireTree[p]) THEN WireSha(Closed(WireTree[p])) ELSE None]
WireGateOf == [d \in {"d1", "d2", "d3"} |-> IF d = "d2" THEN "PROVIDER_REFS_UNPINNED" ELSE Ok]

BodiesWire == (BodiesVerify \ {MCBody(o1, "w1", 1, "s2", "p1b")})
                \cup {MCBody(o1, "w1", 1, "s2", "p1")}
                \cup {MCBody(o1, "w1", 1, "s1", p) : p \in {"p1b", "p4", "p5"}}
MessagesWire == MessagesVerify \cup {MCMessage("w1", 1, "s1", WireDigestOf["p1b"], 0, 1)}

\* the list is only of interest beside a create that is under way
ListBesideCreate == pc[r3] # "idle" => pc[r2] \in {"wait", "done"}
================================================================================
