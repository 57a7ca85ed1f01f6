--------------------------- MODULE OwnerScopedStore ---------------------------
(***************************************************************************)
(* The in-memory PolicyStore (owner_scoped_store_dev.go and                *)
(* wallet_target_dev.go): a map guarded by a read-write lock, used by      *)
(* concurrent callers.  An operation validates its arguments, takes the    *)
(* lock, goes over the map in an order of the runtime's choosing (create,  *)
(* list, count) or looks one id up (save, delete, get), and releases the   *)
(* lock as it returns.                                                     *)
(*                                                                         *)
(* The lock is sync.RWMutex, and a new id is 16 random bytes: both are     *)
(* external.  An id is taken to be one that was never used before.         *)
(***************************************************************************)
EXTENDS PolicyRecords

CONSTANTS Proc,   \* callers
          Calls   \* the calls they make

ASSUME CallsAssumption == Calls \subseteq Call /\ None \notin Calls

VARIABLES policies, used,
          pc,     \* "idle", "lock" (waiting for it), "scan", "apply"
          arg,    \* the arguments of the call
          lock,   \* "free", "read" or "write": how the caller holds the lock
          todo,   \* ids the loop has yet to visit
          hits,   \* ids the loop has collected
          ret     \* the result of the last call

vars == <<policies, used, pc, arg, lock, todo, hits, ret>>

Init ==
    /\ policies = [i \in Id |-> None]
    /\ used = {}
    /\ pc = [p \in Proc |-> "idle"]
    /\ arg = [p \in Proc |-> None]
    /\ lock = [p \in Proc |-> "free"]
    /\ todo = [p \in Proc |-> {}]
    /\ hits = [p \in Proc |-> {}]
    /\ ret = [p \in Proc |-> Result("none", <<>>, 0)]

(* The bound on creates: an id is left for every one under way.            *)
IdsLeft ==
    Cardinality({p \in Proc : arg[p] # None /\ arg[p].op = "create"})
        < Cardinality(Id \ used)

(* Replaces Enter in a mutation run: the principal is not validated.       *)
EnterUnchecked(p, a) ==
    /\ pc[p] = "idle"
    /\ a.op = "create" => IdsLeft
    /\ pc' = [pc EXCEPT ![p] = "lock"]
    /\ arg' = [arg EXCEPT ![p] = a]
    /\ UNCHANGED <<policies, used, lock, todo, hits, ret>>

(* The caller enters an operation: early return, or on to the lock.        *)
Enter(p, a) ==
    /\ pc[p] = "idle"
    /\ a.op = "create" => IdsLeft
    /\ \/ /\ Refusal(a) # "ok"
          /\ ret' = [ret EXCEPT ![p] = Result(Refusal(a), <<>>, 0)]
          /\ UNCHANGED <<pc, arg>>
       \/ /\ Refusal(a) = "ok"
          /\ pc' = [pc EXCEPT ![p] = "lock"]
          /\ arg' = [arg EXCEPT ![p] = a]
          /\ UNCHANGED ret
    /\ UNCHANGED <<policies, used, lock, todo, hits>>

(* Replaces Writes in a mutation run: CreatePolicy takes the lock for      *)
(* reading, as the other loops do.                                         *)
WritesButCreate(a) == a.op \in {"save", "delete"}

Writes(a) == a.op \in {"save", "create", "delete"}

Loops(a) == a.op \in {"create", "list", "count"}

(* Replaces Acquire in a mutation run: the readers do without the lock.    *)
AcquireWritersOnly(p) ==
    /\ pc[p] = "lock"
    /\ Writes(arg[p]) => \A q \in Proc : lock[q] = "free"
    /\ lock' = [lock EXCEPT ![p] = IF Writes(arg[p]) THEN "write" ELSE "free"]
    /\ pc' = [pc EXCEPT ![p] = IF Loops(arg[p]) THEN "scan" ELSE "apply"]
    /\ todo' = [todo EXCEPT ![p] = IF Loops(arg[p]) THEN Live(policies) ELSE {}]
    /\ UNCHANGED <<policies, used, arg, hits, ret>>

(* mu.Lock() or mu.RLock() returns.                                        *)
Acquire(p) ==
    /\ pc[p] = "lock"
    /\ IF Writes(arg[p]) THEN \A q \in Proc : lock[q] = "free"
       ELSE \A q \in Proc : lock[q] # "write"
    /\ lock' = [lock EXCEPT ![p] = IF Writes(arg[p]) THEN "write" ELSE "read"]
    /\ pc' = [pc EXCEPT ![p] = IF Loops(arg[p]) THEN "scan" ELSE "apply"]
    /\ todo' = [todo EXCEPT ![p] = IF Loops(arg[p]) THEN Live(policies) ELSE {}]
    /\ UNCHANGED <<policies, used, arg, hits, ret>>

(* Replaces Return in a mutation run: a refused call keeps the lock.       *)
ReturnLocked(p, result) ==
    /\ pc' = [pc EXCEPT ![p] = "idle"]
    /\ arg' = [arg EXCEPT ![p] = None]
    /\ lock' = [lock EXCEPT ![p] = IF result.code = "ok" THEN "free" ELSE @]
    /\ todo' = [todo EXCEPT ![p] = {}]
    /\ hits' = [hits EXCEPT ![p] = {}]
    /\ ret' = [ret EXCEPT ![p] = result]

(* The deferred unlock, and the return.                                    *)
Return(p, result) ==
    /\ pc' = [pc EXCEPT ![p] = "idle"]
    /\ arg' = [arg EXCEPT ![p] = None]
    /\ lock' = [lock EXCEPT ![p] = "free"]
    /\ todo' = [todo EXCEPT ![p] = {}]
    /\ hits' = [hits EXCEPT ![p] = {}]
    /\ ret' = [ret EXCEPT ![p] = result]

(* One iteration.  CreatePolicy leaves its loop at the first match.        *)
Visit(p) ==
    /\ pc[p] = "scan"
    /\ \E i \in todo[p] :
          LET match == policies[i] # None /\ Matches(policies[i], arg[p]) IN
          \/ /\ match /\ arg[p].op = "create"
             /\ Return(p, Result("already_exists", <<>>, 0))
          \/ /\ ~(match /\ arg[p].op = "create")
             /\ todo' = [todo EXCEPT ![p] = @ \ {i}]
             /\ hits' = [hits EXCEPT ![p] = IF match THEN @ \cup {i} ELSE @]
             /\ UNCHANGED <<pc, arg, lock, ret>>
    /\ UNCHANGED <<policies, used>>

Put(i, x) ==
    /\ policies' = [policies EXCEPT ![i] = x]
    /\ used' = used \cup {i}

(* CreatePolicy after its loop, when newPolicyID gives an id.              *)
Insert(p) ==
    /\ pc[p] = "scan" /\ todo[p] = {} /\ arg[p].op = "create"
    /\ \E i \in Id \ used :
          /\ Put(i, CreatedRecord(i, arg[p]))
          /\ Return(p, Result("ok", <<CreatedRecord(i, arg[p])>>, 1))

(* CreatePolicy after its loop, when there is no randomness for an id.     *)
InsertFails(p) ==
    /\ pc[p] = "scan" /\ todo[p] = {} /\ arg[p].op = "create"
    /\ Return(p, Result("no_id", <<>>, 0))
    /\ UNCHANGED <<policies, used>>

(* The other loops end: sort and return what was collected.                *)
Collected(p) ==
    /\ pc[p] = "scan" /\ todo[p] = {} /\ arg[p].op \in {"list", "count"}
    /\ Return(p, Report(policies, arg[p], hits[p]))
    /\ UNCHANGED <<policies, used>>

(* SavePolicy, DeletePolicy and GetPolicy under the lock.                  *)
Apply(p) ==
    LET a == arg[p] IN
    /\ pc[p] = "apply"
    /\ \/ /\ Access(policies, a) # "ok"
          /\ Return(p, Result(Access(policies, a), <<>>, 0))
          /\ UNCHANGED <<policies, used>>
       \/ /\ Access(policies, a) = "ok" /\ a.op = "save"
          /\ Put(a.id, SavedRecord(policies, a))
          /\ Return(p, Result("ok", <<SavedRecord(policies, a)>>, 1))
       \/ /\ Access(policies, a) = "ok" /\ a.op = "delete"
          /\ policies' = [policies EXCEPT ![a.id] = None]
          /\ Return(p, Result("ok", <<>>, 0))
          /\ UNCHANGED used
       \/ /\ Access(policies, a) = "ok" /\ a.op = "get"
          /\ Return(p, Result("ok", <<policies[a.id]>>, 1))
          /\ UNCHANGED <<policies, used>>

Body(p) == Visit(p) \/ Insert(p) \/ InsertFails(p) \/ Collected(p) \/ Apply(p)

Next ==
    \E p \in Proc :
        \/ \E a \in Calls : Enter(p, a)
        \/ Acquire(p)
        \/ Body(p)

(* A running goroutine goes on; RWMutex lets no caller wait for ever while *)
(* the lock keeps being released.  Callers need not make further calls.    *)
Fairness == \A p \in Proc : WF_vars(Body(p)) /\ SF_vars(Acquire(p))

Spec == Init /\ [][Next]_vars /\ Fairness
-------------------------------------------------------------------------------
(* Every variable stays in its domain; in particular every record has an   *)
(* owner, whatever principals the operations were called with.             *)
TypeOK ==
    /\ policies \in [Id -> Record \cup {None}]
    /\ used \subseteq Id
    /\ pc \in [Proc -> {"idle", "lock", "scan", "apply"}]
    /\ arg \in [Proc -> Call \cup {None}]
    /\ lock \in [Proc -> {"free", "read", "write"}]
    /\ todo \in [Proc -> SUBSET Id]
    /\ hits \in [Proc -> SUBSET Id]
    /\ DOMAIN ret = Proc
    /\ \A p \in Proc : ret[p].code \in {"none", "ok", "principal_required", "invalid",
                                        "already_exists", "no_id", "not_found", "forbidden"}

(* The store is linearizable: seen by its callers it is PolicyLedger,      *)
(* although its loops read the map entry by entry.                         *)
Ledger == INSTANCE PolicyLedger WITH pending <- arg

LedgerSpec == Ledger!Spec

(* W1: at most one policy created for an owner and a wallet is there at a  *)
(* time, whatever creates race and however the wallet is spelled.          *)
OneActivePolicy ==
    \A i, j \in Live(policies) :
        /\ policies[i].owner = policies[j].owner
        /\ policies[i].wallet = policies[j].wallet /\ policies[i].wallet # Blank
        => i = j

(* The wallet-target context agrees with W1: the count it gives for an     *)
(* owner and wallet (from the payload) is nonzero exactly when a create    *)
(* would be refused (from the wallet column and the payload).  It is a     *)
(* property of the calls the routes make, which never use SavePolicy.      *)
CountAgreesWithW1 ==
    \A i \in Live(policies), a \in Calls :
        a.op = "create" /\ Refusal(a) = "ok" =>
            (Occupies(policies[i], a) <=> Counted(policies[i], a))

(* A policy is changed or removed only by a call of its own owner that     *)
(* holds the lock, and never changes its id or its owner.                  *)
OnlyTheOwnerWrites ==
    [][\A i \in Id :
          policies[i] # None /\ policies'[i] # policies[i] =>
              /\ \E p \in Proc : /\ lock[p] = "write" /\ lock'[p] = "free"
                                 /\ arg[p].owner = policies[i].owner
              /\ policies'[i] # None =>
                    /\ policies'[i].id = i
                    /\ policies'[i].owner = policies[i].owner
                    /\ policies'[i].created = policies[i].created]_vars

(* A loop over the map is undisturbed: until its caller returns and gives  *)
(* the lock back, no one writes the map (Go aborts the process that writes *)
(* a map during an iteration over it) and the loop never has more left to  *)
(* visit than before.                                                      *)
LoopsAreUndisturbed ==
    [][\A p \in Proc : pc[p] = "scan" =>
          \/ pc'[p] = "idle" /\ lock'[p] = "free"
          \/ /\ UNCHANGED <<policies, pc[p], arg[p], lock[p]>>
             /\ todo'[p] \subseteq todo[p]]_vars

(* Every call returns.                                                     *)
EveryCallReturns == \A p \in Proc : (pc[p] # "idle") ~> (pc[p] = "idle")
===============================================================================
