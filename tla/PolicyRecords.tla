---------------------------- MODULE PolicyRecords ----------------------------
(***************************************************************************)
(* The data of the policy store (internal/persistence) and what each of    *)
(* its operations computes from the table of policies.  The table is a     *)
(* function from ids to records, None where there is no policy.            *)
(*                                                                         *)
(* An owner is a user and tenant pair.  A payload is reduced to the two    *)
(* places an address can come from: its wallet_address field, and the      *)
(* fields the wallet-target lookup prefers to it (policy_context,          *)
(* selected_wallet_policy_context, target_address).                        *)
(***************************************************************************)
EXTENDS Integers, FiniteSets

CONSTANTS Owner, Wallet,
          Scan,           \* spellings of scan ids
          FoldOf,         \* a scan id trimmed and in one case, as lists compare it
          Address,        \* spellings of addresses, normalized ones included
          NormalizeOf,    \* NormalizeWalletTargetAddress: Invalid on error
          Id,             \* ids of policies
          Blank, Invalid, None

ASSUME RecordsAssumption ==
    /\ Id \subseteq Nat
    /\ FoldOf \in [Scan -> Scan]
    /\ Wallet \subseteq Address /\ Blank \in Address
    /\ NormalizeOf \in [Address -> Wallet \cup {Invalid}]
    /\ \A w \in Wallet : NormalizeOf[w] = w
    /\ NormalizeOf[Blank] = Invalid
    /\ Blank \notin Owner \cup Wallet /\ Invalid \notin Wallet

Op == {"save", "create", "list", "delete", "get", "count"}

Payload == [wallet : Address, target : Address]

Record == [id : Id, owner : Owner, scan : Scan, wallet : Wallet \cup {Blank},
           payload : Payload, created : Nat, updated : Nat]

ASSUME NoneAssumption == None \notin Record

(* The arguments of a call.  "complete" says that the scan id, and for a   *)
(* create also the digest, the payload and the chain id, are given.  "at"  *)
(* is the time the caller passes (create) or that is read before the lock  *)
(* is taken (save).                                                        *)
Call == [op : Op, owner : Owner \cup {Blank}, id : Id, scan : Scan,
         complete : BOOLEAN, wallet : Address, payload : Payload, at : Nat]

Result(code, rows, n) == [code |-> code, rows |-> rows, n |-> n]

(* Errors returned before the lock is taken.                               *)
Refusal(a) ==
    IF a.owner = Blank THEN "principal_required"
    ELSE IF a.op \in {"create", "list"} /\ ~a.complete THEN "invalid"
    ELSE IF a.op \in {"create", "count"} /\ NormalizeOf[a.wallet] = Invalid
    THEN "invalid"
    ELSE "ok"
-------------------------------------------------------------------------------
walletAddressesEqual(a, b) ==
    IF NormalizeOf[a] = Invalid \/ NormalizeOf[b] = Invalid THEN a = b
    ELSE NormalizeOf[a] = NormalizeOf[b]

walletFromPolicyPayload(p) ==
    IF NormalizeOf[p.wallet] = Invalid THEN Blank ELSE NormalizeOf[p.wallet]

walletTargetFromPayload(p) ==
    LET addr == IF p.target # Blank THEN p.target ELSE p.wallet
    IN  IF NormalizeOf[addr] = Invalid THEN Blank ELSE NormalizeOf[addr]

(* Replaces sameOwner in a mutation run: ownership is not compared.        *)
sameOwnerAlways(x, owner) == TRUE

sameOwner(x, owner) == x.owner = owner

(* The test of CreatePolicy's loop.                                        *)
Occupies(x, a) ==
    /\ sameOwner(x, a.owner)
    /\ \/ walletAddressesEqual(x.wallet, NormalizeOf[a.wallet])
       \/ walletAddressesEqual(walletFromPolicyPayload(x.payload), NormalizeOf[a.wallet])

(* The test of the loop of ListPersistedPoliciesForScan.                   *)
Listed(x, a) == sameOwner(x, a.owner) /\ FoldOf[x.scan] = FoldOf[a.scan]

(* The test of the loop of lookupActiveWalletCPMContext.                   *)
Counted(x, a) ==
    /\ sameOwner(x, a.owner)
    /\ walletTargetFromPayload(x.payload) = NormalizeOf[a.wallet]

Matches(x, a) ==
    CASE a.op = "create" -> Occupies(x, a)
      [] a.op = "list"   -> Listed(x, a)
      [] OTHER           -> Counted(x, a)
-------------------------------------------------------------------------------
Live(db) == {i \in Id : db[i] # None}

Hits(db, a) == {i \in Live(db) : Matches(db[i], a)}

(* Replaces CreatedRecord in a mutation run: the payload is stored as it   *)
(* was received.                                                           *)
CreatedRecordRawPayload(i, a) ==
    [id |-> i, owner |-> a.owner, scan |-> a.scan, wallet |-> NormalizeOf[a.wallet],
     payload |-> a.payload, created |-> a.at, updated |-> a.at]

CreatedRecord(i, a) ==
    [id |-> i, owner |-> a.owner, scan |-> a.scan, wallet |-> NormalizeOf[a.wallet],
     payload |-> [a.payload EXCEPT !.wallet = NormalizeOf[a.wallet]],
     created |-> a.at, updated |-> a.at]

(* SavePolicy keeps the creation time and nothing else.                    *)
SavedRecord(db, a) ==
    [id |-> a.id, owner |-> a.owner, scan |-> a.scan, wallet |-> Blank,
     payload |-> a.payload,
     created |-> IF db[a.id] = None THEN a.at ELSE db[a.id].created,
     updated |-> a.at]

(* How an operation on one id ends, before it does anything.               *)
Access(db, a) ==
    IF db[a.id] = None THEN IF a.op = "save" THEN "ok" ELSE "not_found"
    ELSE IF ~sameOwner(db[a.id], a.owner) THEN "forbidden"
    ELSE "ok"

(* Newest UpdatedAt first, then by id.                                     *)
Before(x, y) == x.updated > y.updated \/ (x.updated = y.updated /\ x.id < y.id)

Sorted(S) ==
    CHOOSE s \in [1..Cardinality(S) -> S] :
        \A m, n \in 1..Cardinality(S) : m < n => Before(s[m], s[n])

(* What list and count return, given the ids their loops collected.        *)
Report(db, a, ids) ==
    IF a.op = "list" THEN Result("ok", Sorted({db[i] : i \in ids}), Cardinality(ids))
    ELSE Result("ok", <<>>, Cardinality(ids))
===============================================================================
