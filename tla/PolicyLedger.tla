----------------------------- MODULE PolicyLedger -----------------------------
(***************************************************************************)
(* What a PolicyStore promises its callers: every call takes effect at     *)
(* once, at some moment between the call and its return, and its result    *)
(* is what the table of policies gives at that moment.  CreatePolicy       *)
(* enforces W1: it never adds a policy for an owner and wallet that have   *)
(* one.  No lock and no loop appears here.                                 *)
(***************************************************************************)
EXTENDS PolicyRecords

CONSTANTS Proc, Calls

VARIABLES policies, used, pending, ret

vars == <<policies, used, pending, ret>>

Init ==
    /\ policies = [i \in Id |-> None]
    /\ used = {}
    /\ pending = [p \in Proc |-> None]
    /\ ret = [p \in Proc |-> Result("none", <<>>, 0)]

(* A call with missing arguments returns at once, without an effect.       *)
Refuse(p, a) ==
    /\ pending[p] = None /\ Refusal(a) # "ok"
    /\ ret' = [ret EXCEPT ![p] = Result(Refusal(a), <<>>, 0)]
    /\ UNCHANGED <<policies, used, pending>>

Invoke(p, a) ==
    /\ pending[p] = None /\ Refusal(a) = "ok"
    /\ pending' = [pending EXCEPT ![p] = a]
    /\ UNCHANGED <<policies, used, ret>>

Respond(p, result) ==
    /\ pending' = [pending EXCEPT ![p] = None]
    /\ ret' = [ret EXCEPT ![p] = result]

Put(i, x) ==
    /\ policies' = [policies EXCEPT ![i] = x]
    /\ used' = used \cup {i}

Create(p) ==
    LET a == pending[p] IN
    /\ pending[p] # None /\ a.op = "create"
    /\ \/ /\ Hits(policies, a) # {}
          /\ Respond(p, Result("already_exists", <<>>, 0))
          /\ UNCHANGED <<policies, used>>
       \/ /\ Hits(policies, a) = {}
          /\ \E i \in Id \ used :
                /\ Put(i, CreatedRecord(i, a))
                /\ Respond(p, Result("ok", <<CreatedRecord(i, a)>>, 1))
       \/ /\ Hits(policies, a) = {}
          /\ Respond(p, Result("no_id", <<>>, 0))
          /\ UNCHANGED <<policies, used>>

ById(p) ==
    LET a == pending[p] IN
    /\ pending[p] # None /\ a.op \in {"save", "delete", "get"}
    /\ \/ /\ Access(policies, a) # "ok"
          /\ Respond(p, Result(Access(policies, a), <<>>, 0))
          /\ UNCHANGED <<policies, used>>
       \/ /\ Access(policies, a) = "ok" /\ a.op = "save"
          /\ Put(a.id, SavedRecord(policies, a))
          /\ Respond(p, Result("ok", <<SavedRecord(policies, a)>>, 1))
       \/ /\ Access(policies, a) = "ok" /\ a.op = "delete"
          /\ policies' = [policies EXCEPT ![a.id] = None]
          /\ Respond(p, Result("ok", <<>>, 0))
          /\ UNCHANGED used
       \/ /\ Access(policies, a) = "ok" /\ a.op = "get"
          /\ Respond(p, Result("ok", <<policies[a.id]>>, 1))
          /\ UNCHANGED <<policies, used>>

Query(p) ==
    LET a == pending[p] IN
    /\ pending[p] # None /\ a.op \in {"list", "count"}
    /\ Respond(p, Report(policies, a, Hits(policies, a)))
    /\ UNCHANGED <<policies, used>>

Next ==
    \E p \in Proc :
        \/ \E a \in Calls : Refuse(p, a) \/ Invoke(p, a)
        \/ Create(p) \/ ById(p) \/ Query(p)

Spec == Init /\ [][Next]_vars
===============================================================================
