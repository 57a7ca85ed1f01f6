---------------------------- MODULE MCPersistFlow ----------------------------
(* Small instances of PersistFlow: the values shared by its TLC runs.      *)
EXTENDS PersistFlow, TLC

CONSTANTS o1, o2, r1, r2, r3

MCBody(o, w, c, s, p) ==
    [readable |-> TRUE, owner |-> o, wallet |-> w, chain |-> c, scan |-> s,
     payload |-> p, action |-> PersistAction, domain |-> "cpm"]

MCMessage(w, c, s, d, i, e) ==
    [form |-> "canonical", domain |-> "cpm", action |-> PersistAction,
     wallet |-> w, chain |-> c, scan |-> s, sha |-> d, issued |-> i, expires |-> e]

\* p1 and p1b differ in spelling only; p2 fails a gate; p3 has no digest
MCDigestOf == "p1" :> "d1" @@ "p1b" :> "d1" @@ "p2" :> "d2" @@ "p3" :> None
MCGateOf == "d1" :> Ok @@ "d2" :> "PROVIDER_REFS_UNPINNED"

\* two persists of the same wallet race, a delete makes room for the second
RouteRace == [r \in Req |-> IF r = r3 THEN "delete" ELSE "persist"]
BodiesRace == {MCBody(o1, "w1", 1, "s1", "p1")}
MessagesRace == {MCMessage("w1", 1, "s1", "d1", 0, 1), MCMessage("w1", 1, "s1", "d1", 0, 2)}
RaceSymmetry == Permutations({r1, r2})

\* one persist, with everything a client may get wrong, beside a list
RouteVerify == [r \in Req |-> IF r = r3 THEN "list" ELSE "persist"]
Good == MCBody(o1, "w1", 1, "s1", "p1")
BodiesVerify ==
    {Good, MCBody(o1, "w1", 1, "s2", "p1b"), MCBody(o1, "w1", 2, "s1", "p1"),
     MCBody(o1, "w1", 1, "s1", "p2"), MCBody(o1, "w1", 1, "s1", "p3"),
     MCBody(o1, "w2", 1, "s1", "p1"),
     [Good EXCEPT !.readable = FALSE], [Good EXCEPT !.owner = Blank],
     [Good EXCEPT !.wallet = Blank], [Good EXCEPT !.wallet = Invalid],
     [Good EXCEPT !.chain = 0], [Good EXCEPT !.scan = Blank],
     [Good EXCEPT !.scan = Invalid], [Good EXCEPT !.payload = Blank],
     [Good EXCEPT !.action = Invalid], [Good EXCEPT !.domain = "other"]}
MessagesVerify ==
    LET m == MCMessage("w1", 1, "s1", "d1", 0, 1) IN
    {m, [m EXCEPT !.sha = "d2"], [m EXCEPT !.form = "variant"], [m EXCEPT !.form = "unparsable"],
     [m EXCEPT !.action = Invalid], [m EXCEPT !.issued = 1],
     [m EXCEPT !.issued = -1, !.expires = 0], [m EXCEPT !.expires = 2]}

\* a challenge, then a persist that may use its message, while scans complete
RouteEngage == [r \in Req |-> IF r = r1 THEN "challenge" ELSE "persist"]
BodiesEngage ==
    {Good, MCBody(o1, "w1", 1, "s2", "p1b"), MCBody(o1, "w1", 1, "s1", "p3"),
     [Good EXCEPT !.wallet = Blank], [Good EXCEPT !.action = Invalid]}
MessagesEngage ==
    {MCMessage("w1", 1, "s1", "d1", 0, 3), MCMessage("w1", 1, "s1", "d1", 2, 3)}

\* policies of two owners, read and deleted by the one and the other
RouteOwners == [r \in Req |-> CASE r = r1 -> "persist" [] r = r2 -> "delete"
                               [] OTHER -> "get"]
BodiesOwners == {MCBody(o, "w1", 1, "s1", "p1") : o \in {o1, o2}}
MessagesOwners == {MCMessage("w1", 1, "s1", "d1", 0, 1)}
===============================================================================
