-------------------------- MODULE MCOwnerScopedStore --------------------------
(* Small instances of OwnerScopedStore: the values shared by its TLC runs. *)
EXTENDS OwnerScopedStore, TLC

CONSTANTS o1, o2, p1, p2, p3

MCAddress == {"w1", "W1", "w2", "junk", Blank}

\* "W1" is another spelling of w1
MCNormalizeOf == "w1" :> "w1" @@ "W1" :> "w1" @@ "w2" :> "w2"
                   @@ "junk" :> Invalid @@ Blank :> Invalid

\* "S1" is another spelling of s1
MCFoldOf == "s1" :> "s1" @@ "S1" :> "s1"

Plain == [wallet |-> Blank, target |-> Blank]

MCCall(op, o, i, w, payload, at) ==
    [op |-> op, owner |-> o, id |-> i, scan |-> "s1", complete |-> TRUE,
     wallet |-> w, payload |-> payload, at |-> at]

\* what the routes call: the payload of a create is the closed hashed set
CallsRoutes ==
    {MCCall("create", o1, 1, "w1", Plain, 1), MCCall("create", o1, 1, "W1", Plain, 2),
     MCCall("create", o2, 1, "w1", Plain, 2), MCCall("delete", o1, 1, "w1", Plain, 1),
     MCCall("count", o1, 1, "W1", Plain, 1),
     [MCCall("list", o1, 1, "w1", Plain, 1) EXCEPT !.scan = "S1"],
     MCCall("get", o2, 1, "w1", Plain, 1)}

\* all operations, with arguments that are refused
CallsAll ==
    {MCCall("save", o1, 1, "w1", [wallet |-> "W1", target |-> Blank], 1),
     MCCall("save", o2, 1, "w1", [wallet |-> "junk", target |-> "w1"], 2),
     MCCall("create", o1, 1, "w1", Plain, 2), MCCall("create", Blank, 1, "w2", Plain, 1),
     MCCall("create", o1, 1, "junk", Plain, 1),
     [MCCall("list", o2, 1, "w1", Plain, 1) EXCEPT !.complete = FALSE],
     MCCall("list", o1, 1, "w1", Plain, 1), MCCall("delete", o2, 1, "w1", Plain, 1),
     MCCall("get", o1, 2, "w1", Plain, 1), MCCall("count", o2, 1, "w1", Plain, 1)}
===============================================================================
