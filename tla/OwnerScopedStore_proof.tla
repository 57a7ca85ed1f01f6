------------------------ MODULE OwnerScopedStore_proof ------------------------
(***************************************************************************)
(* Proofs about OwnerScopedStore, for every set of callers, calls, ids,    *)
(* owners and addresses.                                                   *)
(*                                                                         *)
(* The heart is LoopInv: what a loop has collected so far is exactly what  *)
(* matches among the entries it has left behind.  It is kept because no    *)
(* other caller writes while the lock is held (LockInv), and it makes the  *)
(* end of a loop the moment at which the whole call takes effect.          *)
(***************************************************************************)
EXTENDS OwnerScopedStore, TLAPS

(* Who is where, with which arguments.                                     *)
CallInv ==
    \A p \in Proc :
        /\ pc[p] = "idle" <=> arg[p] = None
        /\ arg[p] # None => arg[p] \in Calls /\ Refusal(arg[p]) = "ok"
        /\ pc[p] = "scan" => Loops(arg[p])
        /\ pc[p] = "apply" => ~Loops(arg[p])

(* A caller past Acquire holds the lock, in the mode of its operation.     *)
LockInv ==
    /\ \A p \in Proc :
          /\ lock[p] = "free" <=> pc[p] \in {"idle", "lock"}
          /\ lock[p] = "write" => Writes(arg[p])
          /\ lock[p] = "read" => ~Writes(arg[p])
    /\ \A p, q \in Proc : lock[p] = "write" /\ p # q => lock[q] = "free"

LoopInv ==
    \A p \in Proc :
        /\ pc[p] # "scan" => hits[p] = {}
        /\ pc[p] = "scan" =>
              /\ todo[p] \subseteq Live(policies)
              /\ hits[p] = {i \in Live(policies) \ todo[p] : Matches(policies[i], arg[p])}
              /\ arg[p].op = "create" => hits[p] = {}

IdInv == \A i \in Live(policies) : i \in used /\ policies[i].id = i

Inv == CallInv /\ LockInv /\ LoopInv /\ IdInv /\ OneActivePolicy
-------------------------------------------------------------------------------
(* A call that passed its validation names an owner, and for a create a    *)
(* wallet.                                                                 *)
LEMMA AcceptedCall ==
    ASSUME NEW a \in Calls, Refusal(a) = "ok"
    PROVE  /\ a \in Call /\ a.owner \in Owner
           /\ a.op \in {"create", "count"} => NormalizeOf[a.wallet] \in Wallet
BY CallsAssumption, RecordsAssumption, Zenon DEF Call, Refusal

(* The records the store makes are records.                                *)
LEMMA RecordTypes ==
    ASSUME NEW a \in Calls, Refusal(a) = "ok", TypeOK
    PROVE  /\ a.op = "create" => \A i \in Id : CreatedRecord(i, a) \in Record
           /\ a.op = "save" => SavedRecord(policies, a) \in Record
<1> USE AcceptedCall, RecordsAssumption, NoneAssumption
<1>1. ASSUME a.op = "create", NEW i \in Id PROVE CreatedRecord(i, a) \in Record
  <2>1. [a.payload EXCEPT !.wallet = NormalizeOf[a.wallet]] \in Payload
    BY <1>1, Zenon DEF Call, Payload
  <2>2. QED
    BY <1>1, <2>1, Zenon DEF CreatedRecord, Record, Call
<1>2. ASSUME a.op = "save" PROVE SavedRecord(policies, a) \in Record
  <2>1. (IF policies[a.id] = None THEN a.at ELSE policies[a.id].created) \in Nat
    BY DEF TypeOK, Record, Call
  <2>2. QED
    BY <1>2, <2>1, Zenon DEF SavedRecord, Record, Call
<1>3. QED
  BY <1>1, <1>2, Zenon

(* An empty store with no call under way satisfies the invariant.          *)
LEMMA InitInv == Init => TypeOK /\ Inv
BY CallsAssumption DEF Init, TypeOK, Inv, CallInv, LockInv, LoopInv, IdInv,
   OneActivePolicy, Live, Result

(* Entering an operation.                                                  *)
LEMMA EnterInv ==
    ASSUME TypeOK, Inv, NEW p \in Proc, NEW a \in Calls, Enter(p, a)
    PROVE  TypeOK' /\ Inv'
<1> USE DEF Enter, TypeOK, Inv
<1>1. Refusal(a) \in {"ok", "principal_required", "invalid"} /\ a \in Call /\ a # None
  BY CallsAssumption, Zenon DEF Refusal
<1>2. TypeOK'
  BY <1>1 DEF Result
<1>3. CallInv'
  BY <1>1 DEF CallInv
<1>4. LockInv'
  BY DEF LockInv, CallInv
<1>5. LoopInv'
  BY DEF LoopInv, CallInv
<1>6. IdInv' /\ OneActivePolicy'
  BY Zenon DEF IdInv, OneActivePolicy
<1>7. QED
  BY <1>2, <1>3, <1>4, <1>5, <1>6, Zenon

(* Taking the lock, for reading or for writing.                            *)
LEMMA AcquireInv ==
    ASSUME TypeOK, Inv, NEW p \in Proc, Acquire(p)
    PROVE  TypeOK' /\ Inv'
<1> USE DEF Acquire, TypeOK, Inv
<1>1. TypeOK'
  BY Zenon DEF Live
<1>2. CallInv'
  BY Zenon DEF CallInv
<1>3. LockInv'
  BY DEF LockInv, CallInv
<1>4. LoopInv'
  BY DEF LoopInv, CallInv, Live
<1>5. IdInv' /\ OneActivePolicy'
  BY Zenon DEF IdInv, OneActivePolicy
<1>6. QED
  BY <1>1, <1>2, <1>3, <1>4, <1>5, Zenon

Codes == {"ok", "already_exists", "no_id", "not_found", "forbidden"}

(* Returning releases the lock.  A caller that changed the table held the  *)
(* lock for writing, so that nobody else's loop was under way.             *)
LEMMA ReturnInv ==
    ASSUME TypeOK, Inv, NEW p \in Proc, NEW result, Return(p, result),
           result.code \in Codes, pc[p] \in {"scan", "apply"},
           policies' = policies \/ lock[p] = "write",
           policies' \in [Id -> Record \cup {None}], used' \subseteq Id,
           IdInv', OneActivePolicy'
    PROVE  TypeOK' /\ Inv'
<1> USE DEF Return, TypeOK, Inv
<1>1. TypeOK'
  BY Zenon DEF Codes
<1>2. CallInv'
  BY Zenon DEF CallInv
<1>3. LockInv'
  BY DEF LockInv
<1>4. LoopInv'
  <2> SUFFICES ASSUME NEW q \in Proc PROVE LoopInv!(q)'
    BY Zenon DEF LoopInv
  <2>1. CASE q = p
    BY <2>1, Zenon
  <2>2. CASE q # p /\ policies' = policies
    BY <2>2, Zenon DEF LoopInv, Live
  <2>3. CASE q # p /\ lock[p] = "write"
    <3>1. pc[q] # "scan"
      BY <2>3, Zenon DEF LockInv
    <3>2. QED
      BY <2>3, <3>1, Zenon DEF LoopInv
  <2>4. QED
    BY <2>1, <2>2, <2>3, Zenon
<1>5. QED
  BY <1>1, <1>2, <1>3, <1>4, Zenon

(* One iteration of a loop.                                                *)
LEMMA VisitInv ==
    ASSUME TypeOK, Inv, NEW p \in Proc, Visit(p)
    PROVE  TypeOK' /\ Inv'
<1>0. IdInv' /\ OneActivePolicy'
  BY Zenon DEF Visit, Inv, IdInv, OneActivePolicy
<1>1. CASE Return(p, Result("already_exists", <<>>, 0))
  BY <1>0, <1>1, ReturnInv, Zenon DEF Visit, Result, Codes, TypeOK
<1>2. CASE ~Return(p, Result("already_exists", <<>>, 0))
  <2>1. PICK i \in todo[p] :
          /\ ~(policies[i] # None /\ Matches(policies[i], arg[p]) /\ arg[p].op = "create")
          /\ todo' = [todo EXCEPT ![p] = @ \ {i}]
          /\ hits' = [hits EXCEPT ![p] =
                        IF policies[i] # None /\ Matches(policies[i], arg[p])
                        THEN @ \cup {i} ELSE @]
          /\ UNCHANGED <<pc, arg, lock, ret>>
    BY <1>2, Zenon DEF Visit
  <2>2. UNCHANGED <<policies, used>> /\ pc[p] = "scan"
    BY Zenon DEF Visit
  <2>3. TypeOK'
    BY <2>1, <2>2 DEF TypeOK
  <2>4. CallInv' /\ LockInv'
    BY <2>1, <2>2, Zenon DEF Inv, CallInv, LockInv
  <2>5. LoopInv'
    <3> SUFFICES ASSUME NEW q \in Proc PROVE LoopInv!(q)'
      BY Zenon DEF LoopInv
    <3>1. CASE q # p
      BY <2>1, <2>2, <3>1, Zenon DEF Inv, LoopInv, TypeOK, Live
    <3>2. CASE q = p
      <4>1. /\ todo[p] \subseteq Live(policies)
            /\ hits[p] = {j \in Live(policies) \ todo[p] : Matches(policies[j], arg[p])}
            /\ arg[p].op = "create" => hits[p] = {}
        BY <2>2, Zenon DEF Inv, LoopInv
      <4>2. i \in Live(policies) /\ policies[i] # None
        BY <4>1, Zenon DEF Live
      <4>3. /\ todo'[p] = todo[p] \ {i}
            /\ hits'[p] = IF Matches(policies[i], arg[p]) THEN hits[p] \cup {i} ELSE hits[p]
        BY <2>1, <4>2, Zenon DEF TypeOK
      <4>4. hits'[p] = {j \in Live(policies) \ todo'[p] : Matches(policies[j], arg[p])}
        BY <4>1, <4>2, <4>3, Zenon
      <4>5. arg[p].op = "create" => hits'[p] = {}
        BY <2>1, <4>1, <4>2, <4>3, Zenon
      <4>6. QED
        BY <2>1, <2>2, <3>2, <4>1, <4>3, <4>4, <4>5, Zenon DEF Live
    <3>3. QED
      BY <3>1, <3>2, Zenon
  <2>6. QED
    BY <1>0, <2>3, <2>4, <2>5, Zenon DEF Inv
<1>3. QED
  BY <1>1, <1>2, Zenon

(* A loop that has ended has collected every match.                        *)
LEMMA LoopEnds ==
    ASSUME Inv, NEW p \in Proc, pc[p] = "scan", todo[p] = {}
    PROVE  hits[p] = Hits(policies, arg[p])
BY Zenon DEF Inv, LoopInv, Hits

(* CreatePolicy inserts for an owner and wallet that have no policy.       *)
LEMMA InsertInv ==
    ASSUME TypeOK, Inv, NEW p \in Proc, Insert(p)
    PROVE  TypeOK' /\ Inv'
<1> DEFINE a == arg[p]
           w == NormalizeOf[arg[p].wallet]
<1>1. a \in Calls /\ Refusal(a) = "ok" /\ a.op = "create" /\ a.owner \in Owner /\ w \in Wallet
  BY AcceptedCall, Zenon DEF Insert, Inv, CallInv
<1>2. PICK i \in Id \ used :
        /\ policies' = [policies EXCEPT ![i] = CreatedRecord(i, a)]
        /\ used' = used \cup {i}
        /\ Return(p, Result("ok", <<CreatedRecord(i, a)>>, 1))
  BY Zenon DEF Insert, Put
<1>3. CreatedRecord(i, a) \in Record /\ CreatedRecord(i, a) # None
  BY <1>1, RecordTypes, NoneAssumption, Zenon
<1>4. policies[i] = None
  BY Zenon DEF Inv, IdInv, Live
<1>5. /\ policies'[i] = CreatedRecord(i, a)
      /\ \A j \in Id \ {i} : policies'[j] = policies[j]
  BY <1>2, Zenon DEF TypeOK
<1>6. policies' \in [Id -> Record \cup {None}] /\ used' \subseteq Id
  BY <1>2, <1>3, Zenon DEF TypeOK
<1>7. IdInv'
  <2>1. policies'[i].id = i
    BY <1>5 DEF CreatedRecord
  <2>2. QED
    BY <1>2, <1>5, <2>1, Zenon DEF Inv, IdInv, Live
<1>8. Hits(policies, a) = {}
  <2>1. pc[p] = "scan" /\ todo[p] = {} /\ hits[p] = {}
    BY <1>1, Zenon DEF Insert, Inv, LoopInv
  <2>2. QED
    BY <2>1, LoopEnds, Zenon
<1>9. \A j \in Live(policies) : ~(policies[j].owner = a.owner /\ policies[j].wallet = w)
  <2> SUFFICES ASSUME NEW j \in Live(policies),
                      policies[j].owner = a.owner, policies[j].wallet = w
               PROVE  FALSE
    BY Zenon
  <2>1. walletAddressesEqual(policies[j].wallet, w)
    BY <1>1, RecordsAssumption, Zenon DEF walletAddressesEqual
  <2>2. Matches(policies[j], a)
    BY <1>1, <2>1, Zenon DEF Matches, Occupies, sameOwner
  <2>3. QED
    BY <1>8, <2>2, Zenon DEF Hits
<1>10. OneActivePolicy'
  <2>1. policies'[i].owner = a.owner /\ policies'[i].wallet = w
    BY <1>5 DEF CreatedRecord
  <2>2. \A j \in Live(policies') : j = i \/ j \in Live(policies)
    BY <1>5, Zenon DEF Live
  <2>3. QED
    BY <1>5, <1>9, <2>1, <2>2 DEF Inv, OneActivePolicy, Live
<1>11. lock[p] = "write" /\ pc[p] = "scan"
  BY <1>1, Zenon DEF Insert, Inv, LockInv, Writes, TypeOK
<1>12. QED
  BY <1>2, <1>6, <1>7, <1>10, <1>11, ReturnInv, Zenon DEF Codes, Result

(* A create that gets no id leaves the table as it is.                     *)
LEMMA InsertFailsInv ==
    ASSUME TypeOK, Inv, NEW p \in Proc, InsertFails(p)
    PROVE  TypeOK' /\ Inv'
<1>1. IdInv' /\ OneActivePolicy'
  BY Zenon DEF InsertFails, Inv, IdInv, OneActivePolicy
<1>2. QED
  BY <1>1, ReturnInv, Zenon DEF InsertFails, Result, Codes, TypeOK

(* The end of a list or count loop.                                        *)
LEMMA CollectedInv ==
    ASSUME TypeOK, Inv, NEW p \in Proc, Collected(p)
    PROVE  TypeOK' /\ Inv'
<1>1. IdInv' /\ OneActivePolicy'
  BY Zenon DEF Collected, Inv, IdInv, OneActivePolicy
<1>2. Report(policies, arg[p], hits[p]).code \in Codes
  BY Zenon DEF Report, Result, Codes
<1>3. QED
  BY <1>1, <1>2, ReturnInv, Zenon DEF Collected, TypeOK

(* A saved record names no wallet, and a deleted one is not there: neither *)
(* can be a second policy for a wallet.                                    *)
LEMMA ReplaceInv ==
    ASSUME TypeOK, Inv, NEW p \in Proc, NEW x \in Record \cup {None}, NEW i \in Id,
           policies' = [policies EXCEPT ![i] = x],
           x # None => x.id = i /\ x.wallet = Blank /\ i \in used',
           used \subseteq used', used' \subseteq Id
    PROVE  /\ policies' \in [Id -> Record \cup {None}]
           /\ IdInv' /\ OneActivePolicy'
<1>1. policies'[i] = x /\ \A j \in Id \ {i} : policies'[j] = policies[j]
  BY Zenon DEF TypeOK
<1>2. QED
  BY <1>1 DEF TypeOK, Inv, IdInv, OneActivePolicy, Live

(* SavePolicy, DeletePolicy and GetPolicy.                                 *)
LEMMA ApplyInv ==
    ASSUME TypeOK, Inv, NEW p \in Proc, Apply(p)
    PROVE  TypeOK' /\ Inv'
<1> DEFINE a == arg[p]
<1>1. pc[p] = "apply" /\ a \in Calls /\ Refusal(a) = "ok" /\ a \in Call
  BY AcceptedCall, Zenon DEF Apply, Inv, CallInv
<1>2. a.op \in {"save", "delete"} => lock[p] = "write"
  BY <1>1, Zenon DEF Inv, LockInv, Writes, TypeOK
<1>3. ASSUME UNCHANGED <<policies, used>>, NEW result, Return(p, result),
             result.code \in Codes
      PROVE  TypeOK' /\ Inv'
  <2>1. IdInv' /\ OneActivePolicy'
    BY <1>3, Zenon DEF Inv, IdInv, OneActivePolicy
  <2>2. QED
    BY <1>1, <1>3, <2>1, ReturnInv, Zenon DEF TypeOK
<1>4. CASE Access(policies, a) # "ok"
  <2>1. Access(policies, a) \in Codes
    BY Zenon DEF Access, Codes
  <2>2. QED
    BY <1>3, <1>4, <2>1, Zenon DEF Apply, Result
<1>5. CASE Access(policies, a) = "ok" /\ a.op = "save"
  <2>1. /\ policies' = [policies EXCEPT ![a.id] = SavedRecord(policies, a)]
        /\ used' = used \cup {a.id}
        /\ Return(p, Result("ok", <<SavedRecord(policies, a)>>, 1))
    BY <1>5, Zenon DEF Apply, Put
  <2>2. SavedRecord(policies, a) \in Record /\ a.id \in Id
    BY <1>1, <1>5, RecordTypes, Zenon DEF Call
  <2>3. SavedRecord(policies, a).id = a.id /\ SavedRecord(policies, a).wallet = Blank
    BY Zenon DEF SavedRecord
  <2>4. used' \subseteq Id /\ used \subseteq used' /\ a.id \in used'
    BY <2>1, <2>2, Zenon DEF TypeOK
  <2>5. policies' \in [Id -> Record \cup {None}] /\ IdInv' /\ OneActivePolicy'
    BY <2>1, <2>2, <2>3, <2>4, ReplaceInv, Zenon
  <2>6. QED
    BY <1>1, <1>2, <1>5, <2>1, <2>4, <2>5, ReturnInv, Zenon DEF Result, Codes
<1>6. CASE Access(policies, a) = "ok" /\ a.op = "delete"
  <2>1. /\ policies' = [policies EXCEPT ![a.id] = None] /\ used' = used
        /\ Return(p, Result("ok", <<>>, 0))
    BY <1>6, Zenon DEF Apply
  <2>2. a.id \in Id
    BY <1>1, Zenon DEF Call
  <2>3. policies' \in [Id -> Record \cup {None}] /\ IdInv' /\ OneActivePolicy'
    BY <2>1, <2>2, ReplaceInv, Zenon DEF TypeOK
  <2>4. QED
    BY <1>1, <1>2, <1>6, <2>1, <2>3, ReturnInv, Zenon DEF Result, Codes, TypeOK
<1>7. CASE Access(policies, a) = "ok" /\ a.op = "get"
  BY <1>3, <1>7, Zenon DEF Apply, Result, Codes
<1>8. QED
  BY <1>4, <1>5, <1>6, <1>7, Zenon DEF Apply

(* Every step of every caller preserves the invariant.                     *)
LEMMA NextInv ==
    ASSUME TypeOK, Inv, [Next]_vars
    PROVE  TypeOK' /\ Inv'
<1>1. CASE UNCHANGED vars
  BY <1>1 DEF vars, TypeOK, Inv, CallInv, LockInv, LoopInv, IdInv, OneActivePolicy
<1>2. CASE Next
  BY <1>2, EnterInv, AcquireInv, VisitInv, InsertInv, InsertFailsInv, CollectedInv,
     ApplyInv, Zenon DEF Next, Body
<1>3. QED
  BY <1>1, <1>2, Zenon
-------------------------------------------------------------------------------
(* The ledger and the store compute with the same operators.               *)
LEMMA SameData ==
    /\ \A c, rows, n : Ledger!Result(c, rows, n) = Result(c, rows, n)
    /\ \A a : Ledger!Refusal(a) = Refusal(a)
    /\ \A db, a : Ledger!Hits(db, a) = Hits(db, a)
    /\ \A db, a : Ledger!Access(db, a) = Access(db, a)
    /\ \A i, a : Ledger!CreatedRecord(i, a) = CreatedRecord(i, a)
    /\ \A db, a : Ledger!SavedRecord(db, a) = SavedRecord(db, a)
    /\ \A db, a, ids : Ledger!Report(db, a, ids) = Report(db, a, ids)
<1>1. \A c, rows, n : Ledger!Result(c, rows, n) = Result(c, rows, n)
  BY Zenon DEF Result, Ledger!Result
<1>2. \A a : Ledger!Refusal(a) = Refusal(a)
  BY Zenon DEF Refusal, Ledger!Refusal
<1>3. \A x, a : Ledger!Matches(x, a) = Matches(x, a)
  BY Zenon DEF Matches, Occupies, Listed, Counted, sameOwner, walletAddressesEqual,
     walletFromPolicyPayload, walletTargetFromPayload, Ledger!Matches,
     Ledger!Occupies, Ledger!Listed, Ledger!Counted, Ledger!sameOwner,
     Ledger!walletAddressesEqual, Ledger!walletFromPolicyPayload,
     Ledger!walletTargetFromPayload
<1>4. \A db, a : Ledger!Hits(db, a) = Hits(db, a)
  BY <1>3, Zenon DEF Hits, Live, Ledger!Hits, Ledger!Live
<1>5. \A db, a : Ledger!Access(db, a) = Access(db, a)
  BY Zenon DEF Access, sameOwner, Ledger!Access, Ledger!sameOwner
<1>6. \A i, a : Ledger!CreatedRecord(i, a) = CreatedRecord(i, a)
  BY Zenon DEF CreatedRecord, Ledger!CreatedRecord
<1>7. \A db, a : Ledger!SavedRecord(db, a) = SavedRecord(db, a)
  BY Zenon DEF SavedRecord, Ledger!SavedRecord
<1>8. \A S : Ledger!Cardinality(S) = Cardinality(S)
  BY Zenon DEF Cardinality, Ledger!Cardinality
<1>9. \A S : Ledger!Sorted(S) = Sorted(S)
  BY Zenon DEF Sorted, Before, Cardinality, Ledger!Sorted, Ledger!Before,
     Ledger!Cardinality
<1>10. \A db, a, ids : Ledger!Report(db, a, ids) = Report(db, a, ids)
  BY <1>1, <1>8, <1>9, Zenon DEF Report, Ledger!Report
<1>11. QED
  BY <1>1, <1>2, <1>4, <1>5, <1>6, <1>7, <1>10, Zenon

(* The step of a call that takes effect is a step of the ledger, the other *)
(* steps are invisible to it.                                              *)
LEMMA StepRefines ==
    ASSUME TypeOK, Inv, [Next]_vars
    PROVE  [Ledger!Next]_(Ledger!vars)
<1> USE SameData DEF Ledger!vars
<1>1. CASE UNCHANGED vars
  BY <1>1, Zenon DEF vars
<1>2. ASSUME NEW p \in Proc, NEW a \in Calls, Enter(p, a)
      PROVE  Ledger!Next
  <2>1. Ledger!Refuse(p, a) \/ Ledger!Invoke(p, a)
    BY <1>2, Zenon DEF Enter, Inv, CallInv, Ledger!Refuse, Ledger!Invoke
  <2>2. QED
    BY <2>1, Zenon DEF Ledger!Next
<1>3. ASSUME NEW p \in Proc, Acquire(p)
      PROVE  UNCHANGED Ledger!vars
  BY <1>3, Zenon DEF Acquire
<1>4. ASSUME NEW p \in Proc, Visit(p)
      PROVE  [Ledger!Next]_(Ledger!vars)
  <2>1. PICK i \in todo[p] :
          \/ /\ Matches(policies[i], arg[p]) /\ arg[p].op = "create"
             /\ Return(p, Result("already_exists", <<>>, 0))
          \/ UNCHANGED <<pc, arg, lock, ret>>
    BY <1>4, Zenon DEF Visit
  <2>2. UNCHANGED <<policies, used>> /\ pc[p] = "scan"
    BY <1>4, Zenon DEF Visit
  <2>3. CASE UNCHANGED <<pc, arg, lock, ret>>
    BY <2>2, <2>3, Zenon
  <2>4. CASE /\ Matches(policies[i], arg[p]) /\ arg[p].op = "create"
             /\ Return(p, Result("already_exists", <<>>, 0))
    <3>1. Hits(policies, arg[p]) # {}
      BY <2>2, <2>4, Zenon DEF Hits, Inv, LoopInv
    <3>2. arg[p] # None
      BY <2>2, Zenon DEF Inv, CallInv
    <3>3. Ledger!Create(p)
      BY <2>2, <2>4, <3>1, <3>2, Zenon DEF Ledger!Create, Ledger!Respond, Return
    <3>4. QED
      BY <3>3, Zenon DEF Ledger!Next
  <2>5. QED
    BY <2>1, <2>3, <2>4, Zenon
<1>5. ASSUME NEW p \in Proc, Insert(p)
      PROVE  Ledger!Next
  <2>1. pc[p] = "scan" /\ todo[p] = {} /\ arg[p].op = "create" /\ arg[p] # None
    BY <1>5, Zenon DEF Insert, Inv, CallInv
  <2>2. Hits(policies, arg[p]) = {}
    BY <2>1, LoopEnds, Zenon DEF Inv, LoopInv
  <2>3. Ledger!Create(p)
    BY <1>5, <2>1, <2>2, Zenon DEF Insert, Put, Return, Ledger!Create, Ledger!Put, Ledger!Respond
  <2>4. QED
    BY <2>3, Zenon DEF Ledger!Next
<1>6. ASSUME NEW p \in Proc, InsertFails(p)
      PROVE  Ledger!Next
  <2>1. arg[p] # None /\ arg[p].op = "create" /\ Hits(policies, arg[p]) = {}
    BY <1>6, LoopEnds, Zenon DEF InsertFails, Inv, CallInv, LoopInv
  <2>2. Ledger!Create(p)
    BY <1>6, <2>1, Zenon DEF InsertFails, Return, Ledger!Create, Ledger!Respond
  <2>3. QED
    BY <2>2, Zenon DEF Ledger!Next
<1>7. ASSUME NEW p \in Proc, Collected(p)
      PROVE  Ledger!Next
  <2>1. arg[p] # None /\ hits[p] = Hits(policies, arg[p])
    BY <1>7, LoopEnds, Zenon DEF Collected, Inv, CallInv
  <2>2. Ledger!Query(p)
    BY <1>7, <2>1, Zenon DEF Collected, Return, Ledger!Query, Ledger!Respond
  <2>3. QED
    BY <2>2, Zenon DEF Ledger!Next
<1>8. ASSUME NEW p \in Proc, Apply(p)
      PROVE  Ledger!Next
  <2>1. arg[p] # None /\ arg[p].op \in {"save", "delete", "get"}
    <3>1. pc[p] = "apply" /\ arg[p] \in Calls /\ ~Loops(arg[p]) /\ arg[p] # None
      BY <1>8, Zenon DEF Apply, Inv, CallInv
    <3>2. arg[p].op \in Op
      BY <3>1, CallsAssumption, Zenon DEF Call
    <3>3. QED
      BY <3>1, <3>2, Zenon DEF Loops, Op
  <2>2. Ledger!ById(p)
    BY <1>8, <2>1, Zenon DEF Apply, Put, Return, Ledger!ById, Ledger!Put, Ledger!Respond
  <2>3. QED
    BY <2>2, Zenon DEF Ledger!Next
<1>9. QED
  BY <1>1, <1>2, <1>3, <1>4, <1>5, <1>6, <1>7, <1>8, Zenon DEF Next, Body

(* TypeOK and the invariant hold in every reachable state of the store.    *)
THEOREM StoreInvariant == Spec => [](TypeOK /\ Inv)
<1>1. Init => TypeOK /\ Inv
  BY InitInv, Zenon
<1>2. TypeOK /\ Inv /\ [Next]_vars => (TypeOK /\ Inv)'
  BY NextInv, Zenon
<1>3. QED
  BY <1>1, <1>2, PTL DEF Spec

(* The store is linearizable: to its callers, every operation of           *)
(* OwnerScopedStore takes effect at once, as PolicyLedger says.            *)
THEOREM LedgerTheorem == Spec => LedgerSpec
<1>1. Init => Ledger!Init
  BY SameData, Zenon DEF Init, Ledger!Init
<1>2. TypeOK /\ Inv /\ [Next]_vars => [Ledger!Next]_(Ledger!vars)
  BY StepRefines, Zenon
<1>3. QED
  BY <1>1, <1>2, StoreInvariant, PTL DEF Spec, LedgerSpec, Ledger!Spec

(* W1: CreatePolicy never leaves two policies for an owner and a wallet.   *)
THEOREM W1Theorem == Spec => []OneActivePolicy
<1>1. Inv => OneActivePolicy
  BY Zenon DEF Inv
<1>2. QED
  BY <1>1, StoreInvariant, PTL

(* A policy is changed only by a call of its owner that holds the lock.    *)
THEOREM OwnerTheorem == Spec => OnlyTheOwnerWrites
<1> DEFINE Allowed == \A i \in Id :
      policies[i] # None /\ policies'[i] # policies[i] =>
          /\ \E p \in Proc : /\ lock[p] = "write" /\ lock'[p] = "free"
                             /\ arg[p].owner = policies[i].owner
          /\ policies'[i] # None =>
                /\ policies'[i].id = i
                /\ policies'[i].owner = policies[i].owner
                /\ policies'[i].created = policies[i].created
<1>1. TypeOK /\ Inv /\ [Next]_vars => [Allowed]_vars
  <2> SUFFICES ASSUME TypeOK, Inv, Next, NEW i \in Id, policies[i] # None,
                      policies'[i] # policies[i]
               PROVE  /\ \E p \in Proc : /\ lock[p] = "write" /\ lock'[p] = "free"
                                         /\ arg[p].owner = policies[i].owner
                      /\ policies'[i] # None =>
                            /\ policies'[i].id = i
                            /\ policies'[i].owner = policies[i].owner
                            /\ policies'[i].created = policies[i].created
    BY Zenon
  <2>1. ~ \E p \in Proc : Insert(p)
    BY Zenon DEF Insert, Put, TypeOK, Inv, IdInv, Live
  <2>2. PICK p \in Proc : Apply(p)
    BY <2>1, Zenon DEF Next, Body, Enter, Acquire, Visit, InsertFails, Collected
  <2>3. /\ pc[p] = "apply" /\ arg[p] \in Calls /\ Refusal(arg[p]) = "ok"
        /\ arg[p] \in Call /\ lock'[p] = "free"
    BY <2>2, AcceptedCall, Zenon DEF Apply, Return, Inv, CallInv, TypeOK
  <2>4. /\ arg[p].op \in {"save", "delete"} /\ arg[p].id = i
        /\ Access(policies, arg[p]) = "ok"
    BY <2>2, <2>3, Zenon DEF Apply, Put, TypeOK
  <2>5. policies[i].owner = arg[p].owner
    BY <2>4, Zenon DEF Access, sameOwner
  <2>6. lock[p] = "write"
    BY <2>3, <2>4, Zenon DEF Inv, LockInv, Writes, TypeOK
  <2>7. ASSUME policies'[i] # None
        PROVE  policies'[i] = SavedRecord(policies, arg[p])
    BY <2>2, <2>4, <2>7, Zenon DEF Apply, Put, TypeOK
  <2>8. QED
    BY <2>3, <2>4, <2>5, <2>6, <2>7 DEF SavedRecord
<1>2. QED
  BY <1>1, StoreInvariant, PTL DEF Spec, OnlyTheOwnerWrites

(* The calls the routes make: no SavePolicy, and payloads that carry no    *)
(* address but the one CreatePolicy writes into them.                      *)
RoutesOnly ==
    \A a \in Calls : a.op # "save" /\ (a.op = "create" => a.payload.target = Blank)

PlainInv ==
    \A i \in Live(policies) :
        /\ policies[i].wallet \in Wallet
        /\ policies[i].payload.wallet = policies[i].wallet
        /\ policies[i].payload.target = Blank

(* On a plain record the two ways to find its wallet agree.                *)
LEMMA PlainAgrees ==
    ASSUME PlainInv PROVE CountAgreesWithW1
<1> SUFFICES ASSUME NEW i \in Live(policies), NEW a \in Calls, a.op = "create",
                    Refusal(a) = "ok"
             PROVE  Occupies(policies[i], a) <=> Counted(policies[i], a)
  BY Zenon DEF CountAgreesWithW1
<1> DEFINE x == policies[i]
<1>1. x.wallet \in Wallet /\ x.payload.wallet = x.wallet /\ x.payload.target = Blank
  BY Zenon DEF PlainInv
<1>2. NormalizeOf[x.wallet] = x.wallet /\ x.wallet # Invalid
  BY <1>1, RecordsAssumption, Zenon
<1>3. NormalizeOf[a.wallet] \in Wallet
  BY AcceptedCall, Zenon
<1>4. NormalizeOf[NormalizeOf[a.wallet]] = NormalizeOf[a.wallet]
      /\ NormalizeOf[a.wallet] # Invalid
  BY <1>3, RecordsAssumption, Zenon
<1>5. walletTargetFromPayload(x.payload) = x.wallet /\ walletFromPolicyPayload(x.payload) = x.wallet
  BY <1>1, <1>2, Zenon DEF walletTargetFromPayload, walletFromPolicyPayload
<1>6. walletAddressesEqual(x.wallet, NormalizeOf[a.wallet]) <=> x.wallet = NormalizeOf[a.wallet]
  BY <1>2, <1>4, Zenon DEF walletAddressesEqual
<1>7. QED
  BY <1>5, <1>6, Zenon DEF Occupies, Counted

(* The wallet-target context tells the routes exactly whether a create     *)
(* would be refused.                                                       *)
THEOREM CountTheorem == ASSUME RoutesOnly PROVE Spec => []CountAgreesWithW1
<1>1. Init => PlainInv
  BY Zenon DEF Init, PlainInv, Live
<1>2. TypeOK /\ Inv /\ PlainInv /\ [Next]_vars => PlainInv'
  <2> SUFFICES ASSUME TypeOK, Inv, PlainInv, [Next]_vars PROVE PlainInv'
    BY Zenon
  <2>1. CASE UNCHANGED policies
    BY <2>1, Zenon DEF PlainInv
  <2>2. ASSUME NEW p \in Proc, Insert(p)
        PROVE  PlainInv'
    <3>1. arg[p] \in Calls /\ Refusal(arg[p]) = "ok" /\ arg[p].op = "create"
      BY <2>2, Zenon DEF Insert, Inv, CallInv
    <3>2. /\ arg[p] \in Call /\ NormalizeOf[arg[p].wallet] \in Wallet
          /\ arg[p].payload.target = Blank
      BY <3>1, AcceptedCall, Zenon DEF RoutesOnly
    <3>3. PICK i \in Id : policies' = [policies EXCEPT ![i] = CreatedRecord(i, arg[p])]
      BY <2>2, Zenon DEF Insert, Put
    <3>4. \A j \in Id : policies'[j] = IF j = i THEN CreatedRecord(i, arg[p]) ELSE policies[j]
      BY <3>3, Zenon DEF TypeOK
    <3>5. /\ CreatedRecord(i, arg[p]).wallet = NormalizeOf[arg[p].wallet]
          /\ CreatedRecord(i, arg[p]).payload.wallet = NormalizeOf[arg[p].wallet]
          /\ CreatedRecord(i, arg[p]).payload.target = Blank
      BY <3>2, Zenon DEF CreatedRecord, Call, Payload
    <3>6. QED
      BY <3>2, <3>4, <3>5, Zenon DEF PlainInv, Live
  <2>3. ASSUME NEW p \in Proc, Apply(p)
        PROVE  PlainInv'
    <3>1. arg[p].op # "save"
      BY <2>3, Zenon DEF Apply, Inv, CallInv, RoutesOnly
    <3>2. \A j \in Id : policies'[j] = policies[j] \/ policies'[j] = None
      BY <2>3, <3>1, Zenon DEF Apply, TypeOK
    <3>3. QED
      BY <3>2, Zenon DEF PlainInv, Live
  <2>4. QED
    BY <2>1, <2>2, <2>3, Zenon DEF Next, Body, Enter, Acquire, Visit, InsertFails, Collected, vars
<1>3. PlainInv => CountAgreesWithW1
  BY PlainAgrees, Zenon
<1>4. QED
  BY <1>1, <1>2, <1>3, StoreInvariant, PTL DEF Spec

(* Nobody writes the map while someone loops over it, and the loop gets    *)
(* shorter until its caller returns and gives the lock back.               *)
THEOREM LoopsTheorem == Spec => LoopsAreUndisturbed
<1> DEFINE Returned(p) == pc'[p] = "idle" /\ lock'[p] = "free"
           Kept(p) == /\ UNCHANGED <<policies, pc[p], arg[p], lock[p]>>
                      /\ todo'[p] \subseteq todo[p]
           Undisturbed == \A p \in Proc : pc[p] = "scan" =>
                 \/ pc'[p] = "idle" /\ lock'[p] = "free"
                 \/ /\ UNCHANGED <<policies, pc[p], arg[p], lock[p]>>
                    /\ todo'[p] \subseteq todo[p]
<1>1. TypeOK /\ Inv /\ [Next]_vars => [Undisturbed]_vars
  <2> SUFFICES ASSUME TypeOK, Inv, Next, NEW p \in Proc, pc[p] = "scan"
               PROVE  Returned(p) \/ Kept(p)
    BY Zenon
  <2> USE DEF TypeOK
  <2>1. lock[p] # "free"
    BY Zenon DEF Inv, LockInv
  <2>2. ASSUME NEW q \in Proc, NEW a \in Calls, Enter(q, a)
        PROVE  Kept(p)
    BY <2>2, Zenon DEF Enter
  <2>3. ASSUME NEW q \in Proc, Acquire(q)
        PROVE  Kept(p)
    BY <2>3, Zenon DEF Acquire
  <2>4. ASSUME NEW q \in Proc, NEW result, Return(q, result),
               policies' = policies \/ lock[q] = "write"
        PROVE  Returned(p) \/ Kept(p)
    <3>1. CASE q = p
      BY <2>4, <3>1, Zenon DEF Return
    <3>2. CASE q # p
      <4>1. policies' = policies
        BY <2>1, <2>4, <3>2, Zenon DEF Inv, LockInv
      <4>2. QED
        BY <2>4, <3>2, <4>1, Zenon DEF Return
    <3>3. QED
      BY <3>1, <3>2, Zenon
  <2>5. ASSUME NEW q \in Proc, Visit(q)
        PROVE  Returned(p) \/ Kept(p)
    <3>1. CASE Return(q, Result("already_exists", <<>>, 0))
      BY <2>4, <2>5, <3>1, Zenon DEF Visit
    <3>2. CASE ~Return(q, Result("already_exists", <<>>, 0))
      <4>1. PICK i \in todo[q] : todo' = [todo EXCEPT ![q] = @ \ {i}]
        BY <2>5, <3>2, Zenon DEF Visit
      <4>2. UNCHANGED <<policies, pc, arg, lock>>
        BY <2>5, <3>2, Zenon DEF Visit
      <4>3. QED
        BY <4>1, <4>2, Zenon
    <3>3. QED
      BY <3>1, <3>2, Zenon
  <2>6. ASSUME NEW q \in Proc, Insert(q)
        PROVE  Returned(p) \/ Kept(p)
    <3>1. lock[q] = "write"
      BY <2>6, Zenon DEF Insert, Inv, LockInv, Writes
    <3>2. QED
      BY <2>4, <2>6, <3>1, Zenon DEF Insert
  <2>7. ASSUME NEW q \in Proc, InsertFails(q)
        PROVE  Returned(p) \/ Kept(p)
    BY <2>4, <2>7, Zenon DEF InsertFails
  <2>8. ASSUME NEW q \in Proc, Collected(q)
        PROVE  Returned(p) \/ Kept(p)
    BY <2>4, <2>8, Zenon DEF Collected
  <2>9. ASSUME NEW q \in Proc, Apply(q)
        PROVE  Returned(p) \/ Kept(p)
    <3>1. policies' = policies \/ arg[q].op \in {"save", "delete"}
      BY <2>9, Zenon DEF Apply
    <3>2. arg[q].op \in {"save", "delete"} => lock[q] = "write"
      BY <2>9, Zenon DEF Apply, Inv, LockInv, Writes
    <3>3. \E result : Return(q, result)
      BY <2>9, Zenon DEF Apply
    <3>4. QED
      BY <2>4, <3>1, <3>2, <3>3, Zenon
  <2>10. QED
    BY <2>2, <2>3, <2>5, <2>6, <2>7, <2>8, <2>9, Zenon DEF Next, Body
<1>2. QED
  BY <1>1, StoreInvariant, PTL DEF Spec, LoopsAreUndisturbed
===============================================================================
