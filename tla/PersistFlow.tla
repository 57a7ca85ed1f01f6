----------------------------- MODULE PersistFlow -----------------------------
(***************************************************************************)
(* The owner's policy routes, from an authenticated request to its reply:  *)
(*   POST /wallet-challenges        (Route = "challenge")                  *)
(*   POST /policies                 (Route = "persist")                    *)
(*   DELETE /policies?id=           (Route = "delete")                     *)
(*   GET /policies?id= , ?scan_id=  (Route = "get", "list")                *)
(*   GET /wallet-target-context     (Route = "context")                    *)
(*                                                                         *)
(* Every request is a process.  Its handler runs between remote calls      *)
(* without being observable, so a step ends where the handler reads the    *)
(* clock, asks Discovery, or calls cafe-persistence.  Around the handlers  *)
(* the environment moves: time passes, Discovery completes new scans, and  *)
(* cafe-persistence (external, modelled from how cphttp.Client uses it)    *)
(* serves calls late, loses them, or loses the answer.                     *)
(***************************************************************************)
EXTENDS WalletAuth

CONSTANTS Req,             \* requests, each served by one handler goroutine
          Route,           \* Route[r]: the route request r is sent to
          Owner, Wallet, Chain, Scan, Domain,
          Payload, Digest, \* payloads as sent; canonical payloads, named by
                           \* their SHA-256
          DigestOf,        \* payloadhash.DigestCanonicalJSON: None on error
          GateOf,          \* policy.ValidatePayloadForPersist: Ok or the code
          Bodies,          \* the JSON bodies clients send
          ClientMessages,  \* messages clients compose without a challenge
          Signatures,      \* the signatures clients send (see WalletAuth)
          MaxClock,        \* bound on the clock
          MaxTarget,       \* bound on the policy ids clients ask for
          None

Op == {"challenge", "persist", "delete", "get", "list", "context"}

Body == [readable : BOOLEAN,
         owner    : Owner \cup {Blank},
         wallet   : Wallet \cup {Blank, Invalid},
         chain    : Chain \cup {0},
         scan     : Scan \cup {Blank, Invalid},
         payload  : Payload \cup {Blank},
         action   : {PersistAction, Blank, Invalid},
         domain   : Domain]

Message == [form    : {"canonical", "variant", "unparsable"},
            domain  : Domain,
            action  : {PersistAction, Invalid},
            wallet  : Wallet \cup {Invalid},
            chain   : Chain,
            scan    : Scan,
            sha     : Digest,
            issued  : Int,
            expires : Int]

Signer == Wallet \cup {Blank, Invalid}

GateCode == {"CRYPTO_POLICY_PAYLOAD_INVALID", "PROVIDER_REFS_UNPINNED",
             "PROVIDER_SOFT_FINDINGS_REQUIRED", "PROVIDER_CHAIN_PLANNED",
             "PROVIDER_SCAN_COMPAT_FAILED",
             "PROVIDER_USER_CONSTRAINTS_INCOMPATIBLE"}

VerifyCode == {"WALLET_CONTROL_PROOF_REQUIRED", "INVALID_WALLET_SIGNATURE",
               "WALLET_SIGNATURE_ADDRESS_MISMATCH", "WALLET_AUTHORIZATION_EXPIRED",
               "WALLET_AUTHORIZATION_NOT_YET_VALID",
               "WALLET_AUTHORIZATION_VALIDITY_TOO_LONG", "PAYLOAD_SHA256_MISMATCH",
               "WALLET_AUTHORIZATION_SCAN_MISMATCH",
               "WALLET_AUTHORIZATION_WALLET_MISMATCH",
               "WALLET_AUTHORIZATION_CHAIN_MISMATCH",
               "WALLET_AUTHORIZATION_ACTION_MISMATCH"}

(* The codes of the replies: the code field of the body, or for a body     *)
(* without one, its meaning.                                               *)
Code == {Ok, "no_content", "not_found", "bad_request", "internal_error",
         "AUTHZ_PRINCIPAL_REQUIRED", "AUTHZ_OWNER_FORBIDDEN", "BODY_NOT_JSON",
         "WALLET_ADDRESS_REQUIRED", "INVALID_WALLET_ADDRESS", "CHAIN_ID_REQUIRED",
         "SCAN_NOT_FOUND", "SCAN_NOT_LATEST", "DISCOVERY_UNAVAILABLE",
         "PERSISTENCE_UNAVAILABLE", "POLICY_ALREADY_EXISTS"}
            \cup VerifyCode \cup GateCode

Answer == {Ok, "conflict", "not_found", "forbidden"}

ASSUME FlowAssumption ==
    /\ Route \in [Req -> Op]
    /\ DigestOf \in [Payload -> Digest \cup {None}]
    /\ GateOf \in [Digest -> GateCode \cup {Ok}]
    /\ Bodies \subseteq Body
    /\ ClientMessages \subseteq Message
    /\ Signatures \subseteq Signer
    /\ MaxClock \in Nat /\ MaxTarget \in Nat
    /\ 0 \notin Chain
    /\ {Blank, Invalid} \cap (Owner \cup Wallet \cup Scan \cup Payload) = {}
    /\ None \notin Digest \cup Scan \cup Message \cup Code \cup Answer

VARIABLES
    \* the environment
    clock,       \* the service's wall clock, in seconds
    latest,      \* Discovery: latest completed scan per owner and wallet
    completed,   \* Discovery: scans that have completed
    created,     \* cafe-persistence: every row ever inserted
    removed,     \* cafe-persistence: <<id, request>> of every deleted row
    nextId,      \* cafe-persistence: the next row's id
    calls,       \* calls to cafe-persistence that are not served yet
    held,        \* authorization messages in the clients' hands
    \* the handlers' state, per request; a handler's locals die with it
    pc,          \* where the handler is
    task,        \* the decoded request, then the input of the store call
    try,         \* doJSON's attempt counter, 0 before the first attempt
    answer,      \* answer of cafe-persistence to the current attempt
    reply,       \* the code of the reply sent to the client
    \* history, read by no guard
    since        \* what held when the request was received (clock, nextId),
                 \* and the scans that were latest at some moment since then

envVars     == <<clock, latest, completed>>
storeVars   == <<created, removed, nextId>>
handlerVars == <<pc, task, try, answer, reply, since>>
vars        == <<envVars, storeVars, calls, held, handlerVars>>

(* Rows that are active, i.e. not deleted.                                 *)
Rows == {x \in created : \A d \in removed : d[1] # x.id}

NotReceived == [clock |-> 0, nextId |-> 0, vouched |-> {}]

Init ==
    /\ clock = 0
    /\ latest = [ow \in Owner \X Wallet |-> None]
    /\ completed = {}
    /\ created = {} /\ removed = {} /\ nextId = 1
    /\ calls = {}
    /\ held = ClientMessages
    /\ pc = [r \in Req |-> "idle"]
    /\ task = [r \in Req |-> None]
    /\ try = [r \in Req |-> 0]
    /\ answer = [r \in Req |-> None]
    /\ reply = [r \in Req |-> None]
    /\ since = [r \in Req |-> NotReceived]
-------------------------------------------------------------------------------
(* Early returns that look at the request alone, in the order of the code. *)

challengeRefusal(b) ==
    IF b.owner = Blank THEN "AUTHZ_PRINCIPAL_REQUIRED"
    ELSE IF ~b.readable \/ b.wallet = Blank THEN "WALLET_ADDRESS_REQUIRED"
    ELSE IF b.chain = 0 THEN "CHAIN_ID_REQUIRED"
    ELSE IF b.scan = Blank THEN "SCAN_NOT_FOUND"
    ELSE IF b.payload = Blank THEN "CRYPTO_POLICY_PAYLOAD_INVALID"
    ELSE IF b.action # PersistAction THEN "WALLET_AUTHORIZATION_ACTION_MISMATCH"
    ELSE IF b.wallet = Invalid THEN "INVALID_WALLET_ADDRESS"
    ELSE IF b.scan = Invalid THEN "SCAN_NOT_FOUND"
    ELSE Ok

(* A body that is not a JSON object and a missing proof carry the same     *)
(* code but statuses 400 and 403: the model tells them apart.              *)
persistRefusal(b, m, signer) ==
    IF b.owner = Blank THEN "AUTHZ_PRINCIPAL_REQUIRED"
    ELSE IF ~b.readable THEN "BODY_NOT_JSON"
    ELSE IF b.wallet = Blank THEN "WALLET_ADDRESS_REQUIRED"
    ELSE IF b.chain = 0 THEN "CHAIN_ID_REQUIRED"
    ELSE IF b.scan = Blank THEN "SCAN_NOT_FOUND"
    ELSE IF b.payload = Blank THEN "CRYPTO_POLICY_PAYLOAD_INVALID"
    ELSE IF m = None \/ signer = Blank THEN "WALLET_CONTROL_PROOF_REQUIRED"
    ELSE IF b.wallet = Invalid THEN "INVALID_WALLET_ADDRESS"
    ELSE IF b.scan = Invalid THEN "SCAN_NOT_FOUND"
    ELSE Ok

(* The HTTP status a reply code is sent with.                              *)
StatusOf(op, code) ==
    CASE op = "challenge" /\ code = "WALLET_AUTHORIZATION_ACTION_MISMATCH" -> 400
      [] code = Ok -> 200
      [] code = "no_content" -> 204
      [] code \in {"AUTHZ_PRINCIPAL_REQUIRED", "INVALID_WALLET_SIGNATURE",
                   "WALLET_SIGNATURE_ADDRESS_MISMATCH"} -> 401
      [] code \in {"WALLET_CONTROL_PROOF_REQUIRED", "AUTHZ_OWNER_FORBIDDEN"} -> 403
      [] code = "not_found" -> 404
      [] code \in {"POLICY_ALREADY_EXISTS", "WALLET_AUTHORIZATION_SCAN_MISMATCH",
                   "WALLET_AUTHORIZATION_WALLET_MISMATCH",
                   "WALLET_AUTHORIZATION_CHAIN_MISMATCH"} -> 409
      [] op = "persist" /\ code = "WALLET_AUTHORIZATION_ACTION_MISMATCH" -> 409
      [] code = "WALLET_AUTHORIZATION_EXPIRED" -> 410
      [] code = "SCAN_NOT_LATEST" -> 422
      [] code = "internal_error" -> 500
      [] code \in {"DISCOVERY_UNAVAILABLE", "PERSISTENCE_UNAVAILABLE"} -> 503
      [] OTHER -> 400

(* The handler writes its reply and returns.                               *)
Finish(r, code) ==
    /\ pc' = [pc EXCEPT ![r] = "done"]
    /\ reply' = [reply EXCEPT ![r] = code]
    /\ task' = [task EXCEPT ![r] = None]
    /\ try' = [try EXCEPT ![r] = 0]
    /\ answer' = [answer EXCEPT ![r] = None]
    /\ since' = [since EXCEPT ![r] = NotReceived]
    /\ UNCHANGED calls

Goto(r, label) ==
    /\ pc' = [pc EXCEPT ![r] = label]
    /\ UNCHANGED <<calls, task, try, answer, reply, since>>

(* doJSON's attempt n: the call is on its way.                             *)
Send(r, n, input) ==
    /\ pc' = [pc EXCEPT ![r] = "wait"]
    /\ task' = [task EXCEPT ![r] = input]
    /\ try' = [try EXCEPT ![r] = n]
    /\ answer' = [answer EXCEPT ![r] = None]
    /\ calls' = calls \cup {[by |-> r, n |-> n, in |-> input]}
    /\ UNCHANGED reply
-------------------------------------------------------------------------------
(* Receiving a request.                                                    *)

LatestFor(b) == IF <<b.owner, b.wallet>> \in Owner \X Wallet
                THEN {latest[<<b.owner, b.wallet>>]} ELSE {}

Now(seen) == [clock |-> clock, nextId |-> nextId, vouched |-> seen]

(* handleWalletChallenge and handlePolicyPersist up to the W2 gate.        *)
ReceiveBody(r, b, m, signer) ==
    LET refusal == IF Route[r] = "challenge" THEN challengeRefusal(b)
                   ELSE persistRefusal(b, m, signer)
    IN  /\ pc[r] = "idle"
        /\ IF refusal # Ok THEN Finish(r, refusal)
           ELSE /\ pc' = [pc EXCEPT ![r] = "w2"]
                /\ task' = [task EXCEPT ![r] =
                              [body |-> b, msg |-> m, signer |-> signer]]
                /\ since' = [since EXCEPT ![r] = Now(LatestFor(b))]
                /\ UNCHANGED <<calls, try, answer, reply>>
        /\ UNCHANGED <<envVars, storeVars, held>>

ReceiveChallenge(r) ==
    Route[r] = "challenge" /\ \E b \in Bodies : ReceiveBody(r, b, None, Blank)

ReceivePersist(r) ==
    /\ Route[r] = "persist"
    /\ \E b \in Bodies, m \in held \cup {None}, signer \in Signatures :
           ReceiveBody(r, b, m, signer)

(* The handlers that only validate their query before they call the store. *)
(* Target 0 stands for a missing or malformed parameter.                   *)
ReceiveQuery(r) ==
    /\ Route[r] \in {"delete", "get", "list", "context"}
    /\ pc[r] = "idle"
    /\ \E o \in Owner \cup {Blank}, target \in 0..MaxTarget :
          \/ o = Blank /\ Finish(r, "AUTHZ_PRINCIPAL_REQUIRED")
          \/ o # Blank /\ target = 0 /\ Finish(r, "bad_request")
          \/ /\ o # Blank /\ target # 0
             /\ Send(r, 1, [owner |-> o, target |-> target])
             /\ since' = [since EXCEPT ![r] = Now({})]
    /\ UNCHANGED <<envVars, storeVars, held>>
-------------------------------------------------------------------------------
(* ensureOwnerScopedW2: Discovery is asked for the latest completed scan   *)
(* of the wallet, in the owner's scope.  Without a Discovery URL, on an    *)
(* error, a timeout or a malformed scan id the request fails closed.       *)

(* Replaces W2Pass in a mutation run: any completed scan will do.          *)
W2PassCompleted(b) == b.scan \in completed

W2Pass(b) == latest[<<b.owner, b.wallet>>] = b.scan

W2(r) ==
    /\ pc[r] = "w2"
    /\ \/ Finish(r, "DISCOVERY_UNAVAILABLE")
       \/ ~W2Pass(task[r].body) /\ Finish(r, "SCAN_NOT_LATEST")
       \/ /\ W2Pass(task[r].body)
          /\ Goto(r, IF Route[r] = "challenge" THEN "issue" ELSE "verify")
    /\ UNCHANGED <<envVars, storeVars, held>>

ChallengeFor(b) ==
    [form |-> "canonical", domain |-> b.domain, action |-> PersistAction,
     wallet |-> b.wallet, chain |-> b.chain, scan |-> b.scan,
     sha |-> DigestOf[b.payload], issued |-> clock,
     expires |-> clock + MaxValidityWindow]

(* The rest of handleWalletChallenge.  The service stores nothing.         *)
Issue(r) ==
    LET b == task[r].body IN
    /\ pc[r] = "issue"
    /\ \/ /\ DigestOf[b.payload] = None
          /\ Finish(r, "CRYPTO_POLICY_PAYLOAD_INVALID")
          /\ UNCHANGED held
       \/ /\ DigestOf[b.payload] # None
          /\ Finish(r, Ok)
          /\ held' = held \cup {ChallengeFor(b)}
    /\ UNCHANGED <<envVars, storeVars>>

Expected(b) == [domain |-> b.domain, wallet |-> b.wallet, chain |-> b.chain,
                scan |-> b.scan, sha |-> DigestOf[b.payload]]

Verdict(t, now) == VerifyAuthorization(t.msg, t.signer, Expected(t.body), now)

(* handlePolicyPersist: digest of the payload, then VerifyAuthorization.   *)
Verify(r) ==
    /\ pc[r] = "verify"
    /\ IF DigestOf[task[r].body.payload] = None
       THEN Finish(r, "CRYPTO_POLICY_PAYLOAD_INVALID")
       ELSE IF Verdict(task[r], clock) # Ok THEN Finish(r, Verdict(task[r], clock))
       ELSE Goto(r, "gate")
    /\ UNCHANGED <<envVars, storeVars, held>>

(* CreatePolicyInput, and (field "from") where it comes from.              *)
CreateInput(t, s) ==
    [owner |-> t.body.owner, wallet |-> t.body.wallet, chain |-> t.body.chain,
     scan |-> t.body.scan, sha |-> DigestOf[t.body.payload], msg |-> t.msg,
     verifiedAt |-> clock,
     from |-> [body |-> t.body, signer |-> t.signer, arrived |-> s.clock,
               vouched |-> s.vouched]]

(* Replaces Gate in a mutation run: a valid signature bypasses the gates.  *)
GateBypassed(r) ==
    /\ pc[r] = "gate"
    /\ Send(r, 1, CreateInput(task[r], since[r]))
    /\ UNCHANGED <<envVars, storeVars, held, since>>

(* handlePolicyPersist: the business gates, the second reading of the      *)
(* clock, and the call to CreatePolicy.                                    *)
Gate(r) ==
    LET verdict == GateOf[DigestOf[task[r].body.payload]] IN
    /\ pc[r] = "gate"
    /\ \/ verdict # Ok /\ Finish(r, verdict)
       \/ /\ verdict = Ok
          /\ Send(r, 1, CreateInput(task[r], since[r]))
          /\ UNCHANGED since
    /\ UNCHANGED <<envVars, storeVars, held>>
-------------------------------------------------------------------------------
(* cafe-persistence.  A call is served atomically, at any time after it    *)
(* was sent, even after the handler stopped waiting for it.                *)

(* W1: an active row of this owner for this wallet.                        *)
HasActive(owner, wallet) ==
    \E x \in Rows : x.in.owner = owner /\ x.in.wallet = wallet

RowOf(c) == [id |-> nextId, by |-> c.by, in |-> c.in]

(* The answer reaches the handler if it still waits for this attempt.      *)
Deliver(c, a) ==
    answer' = IF pc[c.by] = "wait" /\ try[c.by] = c.n
              THEN [answer EXCEPT ![c.by] = a] ELSE answer

(* cafe-persistence may refuse the caller of a create, list or count with  *)
(* 403, or with 404: their handlers do not tell the two apart.             *)
Refused(c) == Deliver(c, "forbidden")

ServeCreate(c) ==
    /\ Route[c.by] = "persist"
    /\ \/ /\ HasActive(c.in.owner, c.in.wallet)
          /\ Deliver(c, "conflict")
          /\ UNCHANGED storeVars
       \/ /\ ~HasActive(c.in.owner, c.in.wallet)
          /\ created' = created \cup {RowOf(c)}
          /\ nextId' = nextId + 1
          /\ Deliver(c, Ok)
          /\ UNCHANGED removed
       \/ Refused(c) /\ UNCHANGED storeVars

Targets(q) == {x \in Rows : x.id = q.target}
Owned(q)   == {x \in Targets(q) : x.in.owner = q.owner}

(* A row of another owner is answered with 404 or 403.                     *)
ServeById(c) ==
    /\ Route[c.by] \in {"delete", "get"}
    /\ \/ /\ Owned(c.in) # {}
          /\ removed' = IF Route[c.by] = "delete"
                        THEN removed \cup {<<c.in.target, c.by>>} ELSE removed
          /\ Deliver(c, Ok)
       \/ /\ Owned(c.in) = {}
          /\ UNCHANGED removed
          /\ \/ Deliver(c, "not_found")
             \/ Targets(c.in) # {} /\ Deliver(c, "forbidden")
    /\ UNCHANGED <<created, nextId>>

ServeQuery(c) ==
    /\ Route[c.by] \in {"list", "context"}
    /\ Deliver(c, Ok) \/ Refused(c)
    /\ UNCHANGED storeVars

Serve(c) ==
    /\ calls' = calls \ {c}
    /\ ServeCreate(c) \/ ServeById(c) \/ ServeQuery(c)
    /\ UNCHANGED <<envVars, held, pc, task, try, reply, since>>

(* The call never reaches cafe-persistence, or fails there (5xx).          *)
Lose(c) ==
    /\ calls' = calls \ {c}
    /\ UNCHANGED <<envVars, storeVars, held, handlerVars>>
-------------------------------------------------------------------------------
(* cphttp.Client: the end of an attempt, and what the handler replies.     *)

(* Replaces RepliesTo in a mutation run: a conflict is taken for success.  *)
RepliesConflictIsOk(op, a) ==
    CASE op = "delete" -> IF a = Ok THEN {"no_content"} ELSE {"not_found"}
      [] OTHER         -> {Ok, "internal_error"}

(* Replies to an answer.  A body whose timestamps do not parse turns a     *)
(* served create, get or list into an error, and so does an answer that    *)
(* the handler has no case for.                                            *)
RepliesTo(op, a) ==
    CASE a = Ok /\ op = "delete"                  -> {"no_content"}
      [] a = Ok /\ op = "context"                 -> {Ok}
      [] a = Ok /\ op \notin {"delete", "context"} -> {Ok, "internal_error"}
      [] a = "conflict" /\ op = "persist"         -> {"POLICY_ALREADY_EXISTS"}
      [] a = "not_found" /\ op \in {"delete", "get"} -> {"not_found"}
      [] a = "forbidden" /\ op = "delete"         -> {"not_found"}
      [] a = "forbidden" /\ op = "get"            -> {"AUTHZ_OWNER_FORBIDDEN"}
      [] OTHER                                    -> {"internal_error"}

Return(r) ==
    /\ pc[r] = "wait" /\ answer[r] # None
    /\ \E code \in RepliesTo(Route[r], answer[r]) : Finish(r, code)
    /\ UNCHANGED <<envVars, storeVars, held>>

(* Replaces Idempotent in a mutation run: creates are retried too.         *)
IdempotentAlways(op) == TRUE

(* Everything but the create is retried once.                              *)
Idempotent(op) == op # "persist"

(* Replaces UnavailableReply in a mutation run: mapHTTPError's default is  *)
(* ErrPolicyNotFound.                                                      *)
UnavailableIsNotFound(op) ==
    IF op \in {"persist", "context"} THEN "PERSISTENCE_UNAVAILABLE"
    ELSE "not_found"

(* The reply when the last attempt ends in ErrPersistenceUnavailable.      *)
UnavailableReply(op) ==
    IF op \in {"persist", "get", "context"} THEN "PERSISTENCE_UNAVAILABLE"
    ELSE "internal_error"

(* Replaces Unavailable in a mutation run: doJSON makes one attempt more.  *)
UnavailableOffByOne(r) ==
    /\ pc[r] = "wait"
    /\ IF Idempotent(Route[r]) /\ try[r] <= 2
       THEN Send(r, try[r] + 1, task[r]) /\ UNCHANGED since
       ELSE Finish(r, UnavailableReply(Route[r]))
    /\ UNCHANGED <<envVars, storeVars, held>>

(* Replaces Unavailable in a mutation run: doJSON never counts attempts.   *)
UnavailableForever(r) ==
    /\ pc[r] = "wait"
    /\ IF Idempotent(Route[r])
       THEN Send(r, try[r], task[r]) /\ UNCHANGED since
       ELSE Finish(r, UnavailableReply(Route[r]))
    /\ UNCHANGED <<envVars, storeVars, held>>

(* The attempt fails: connection error, client timeout, unreadable answer, *)
(* or a status mapHTTPError does not know.  The call may still be served.  *)
Unavailable(r) ==
    /\ pc[r] = "wait"
    /\ IF Idempotent(Route[r]) /\ try[r] = 1
       THEN Send(r, 2, task[r]) /\ UNCHANGED since
       ELSE Finish(r, UnavailableReply(Route[r]))
    /\ UNCHANGED <<envVars, storeVars, held>>
-------------------------------------------------------------------------------
(* The environment of the handlers.                                        *)

Tick ==
    /\ clock < MaxClock
    /\ clock' = clock + 1
    /\ UNCHANGED <<latest, completed, storeVars, calls, held, handlerVars>>

Engaging == {"w2", "issue", "verify", "gate"}

(* A new scan of a wallet completes and becomes the latest.                *)
ScanCompletes(o, w, s) ==
    /\ s \notin completed
    /\ completed' = completed \cup {s}
    /\ latest' = [latest EXCEPT ![<<o, w>>] = s]
    /\ since' = [r \in Req |->
          IF /\ pc[r] \in Engaging
             /\ task[r].body.owner = o /\ task[r].body.wallet = w
          THEN [since[r] EXCEPT !.vouched = @ \cup {s}] ELSE since[r]]
    /\ UNCHANGED <<clock, storeVars, calls, held, pc, task, try, answer, reply>>

Handler(r) ==
    W2(r) \/ Issue(r) \/ Verify(r) \/ Gate(r) \/ Return(r) \/ Unavailable(r)

Next ==
    \/ \E r \in Req : ReceiveChallenge(r) \/ ReceivePersist(r) \/ ReceiveQuery(r)
    \/ \E r \in Req : Handler(r)
    \/ \E c \in calls : Serve(c) \/ Lose(c)
    \/ Tick
    \/ \E o \in Owner, w \in Wallet, s \in Scan : ScanCompletes(o, w, s)

(* Every remote call of a handler has a timeout, so a handler that started *)
(* always goes on.  Nothing is assumed of the clients, of Discovery or of  *)
(* cafe-persistence.                                                       *)
Fairness == \A r \in Req : WF_vars(Handler(r))

Spec == Init /\ [][Next]_vars /\ Fairness
-------------------------------------------------------------------------------
Seen    == SUBSET (Scan \cup {None})
Request == [body : Body, msg : Message \cup {None}, signer : Signer]
Query   == [owner : Owner, target : Nat]
Input   == [owner : Owner, wallet : Wallet, chain : Chain, scan : Scan,
            sha : Digest, msg : Message, verifiedAt : Nat,
            from : [body : Body, signer : Signer, arrived : Nat, vouched : Seen]]

(* Every variable stays in its domain; in particular every row is complete,*)
(* whatever was missing from the requests handlePolicyPersist decoded.     *)
TypeOK ==
    /\ clock \in Nat
    /\ latest \in [Owner \X Wallet -> Scan \cup {None}]
    /\ completed \subseteq Scan
    /\ created \subseteq [id : Nat, by : Req, in : Input]
    /\ removed \subseteq Nat \X Req
    /\ nextId \in Nat
    /\ calls \subseteq [by : Req, n : {1, 2}, in : Input \cup Query]
    /\ held \subseteq Message
    /\ pc \in [Req -> {"idle", "w2", "issue", "verify", "gate", "wait", "done"}]
    /\ task \in [Req -> Request \cup Input \cup Query \cup {None}]
    /\ try \in [Req -> {0, 1, 2}]
    /\ answer \in [Req -> Answer \cup {None}]
    /\ reply \in [Req -> Code \cup {None}]
    /\ since \in [Req -> [clock : Nat, nextId : Nat, vouched : Seen]]

(* Every policy that was ever stored was engaged by its wallet: the        *)
(* request that stored it carried a canonical message, signed by the       *)
(* wallet of the row, that names the row's wallet, chain, scan and digest  *)
(* and the domain of the service; the digest is that of the payload sent   *)
(* and its canonical form passed the business gates (handlePolicyPersist   *)
(* reads all of these from the request, in different steps).               *)
EngagementSound ==
    \A x \in created :
        LET i == x.in
            m == x.in.msg
        IN  /\ i.owner = i.from.body.owner /\ i.from.signer = i.wallet
            /\ m.form = "canonical" /\ m.action = PersistAction
            /\ m.domain = i.from.body.domain
            /\ m.wallet = i.wallet /\ m.chain = i.chain
            /\ m.scan = i.scan /\ m.sha = i.sha
            /\ i.sha = DigestOf[i.from.body.payload]
            /\ GateOf[i.sha] = Ok

(* A stored policy's authorization had not expired when its request        *)
(* arrived, was valid for at most the maximum window, and was not issued   *)
(* further in the future than the clock skew: the freshness test of        *)
(* VerifyAuthorization, although the clock moves between the arrival, this *)
(* test, and the second reading that is stored with the row.               *)
FreshDuringRequest ==
    \A x \in created :
        /\ x.in.from.arrived <= x.in.msg.expires
        /\ x.in.msg.expires - x.in.msg.issued <= MaxValidityWindow
        /\ x.in.msg.issued <= x.in.verifiedAt + ClockSkew

(* A signature is not a lasting permission.  Challenges are not stored, so *)
(* after a DELETE the same signed message may persist a policy again, but  *)
(* only by a request received within one window plus the skew of the       *)
(* first use.                                                              *)
ReplayWindow ==
    \A x, y \in created :
        x.in.msg = y.in.msg =>
            y.in.from.arrived <= x.in.verifiedAt + MaxValidityWindow + ClockSkew

(* W2 as the code can guarantee it: the scan of a stored policy was the    *)
(* wallet's latest completed scan, in its owner's scope, at some moment    *)
(* while the request was being served (ensureOwnerScopedW2).               *)
ScanLatestDuringRequest ==
    \A x \in created : x.in.scan \in x.in.from.vouched

(* One POST /policies stores at most one policy, even when answers are     *)
(* lost and other requests delete what it stored: doJSON never repeats a   *)
(* create.                                                                 *)
AtMostOnePolicyPerRequest ==
    \A x, y \in created : x.by = y.by => x = y

Undecided == {Ok, "internal_error", "PERSISTENCE_UNAVAILABLE"}

(* A refused persist is refused for good: unless the reply is success, a   *)
(* persistence failure or an internal error, the request stored nothing    *)
(* and no call of it is left that could store something later.             *)
RefusalIsFinal ==
    \A r \in Req :
        Route[r] = "persist" /\ pc[r] = "done" /\ reply[r] \notin Undecided =>
            /\ \A x \in created : x.by # r
            /\ \A c \in calls : c.by # r

(* A persist answered with 200 stored its policy (CreatePolicy's result is *)
(* not made up from a conflict or a lost answer).                          *)
OkMeansPersisted ==
    \A r \in Req :
        Route[r] = "persist" /\ reply[r] = Ok => \E x \in created : x.by = r

(* 404 is authoritative: when GET or DELETE answers not found for a policy *)
(* of the caller that existed when the request arrived, the policy is      *)
(* gone; an unreachable cafe-persistence is never reported as not found.   *)
NotFoundMeansGone ==
    [][\A r \in Req : \A x \in Rows :
          /\ pc[r] = "wait" /\ reply'[r] = "not_found"
          /\ x.id = task[r].target /\ x.id < since[r].nextId
          => x.in.owner # task[r].owner]_vars

(* A challenge is honoured: a message that handleWalletChallenge made (and *)
(* no client), signed by its wallet and sent back with the wallet, chain,  *)
(* scan, payload and domain it was made for, passes VerifyAuthorization    *)
(* whenever it is read until the message expires.                          *)
ChallengeIsHonoured ==
    \A r \in Req :
        LET b == task[r].body
            m == task[r].msg
        IN  /\ pc[r] = "verify" /\ task[r].signer = b.wallet
            /\ m \in held \ ClientMessages /\ clock <= m.expires
            /\ m.domain = b.domain /\ m.wallet = b.wallet /\ m.chain = b.chain
            /\ m.scan = b.scan /\ m.sha = DigestOf[b.payload]
            => Verdict(task[r], clock) = Ok

(* The persist route keeps the promise of PersistPromise to its clients,   *)
(* although rows are made by calls that outlive the handlers' patience and *)
(* answers are lost.  AtMostOnePolicyPerRequest and OkMeansPersisted are   *)
(* consequences of it.                                                     *)
Promise == INSTANCE PersistPromise WITH rows <- {[id |-> x.id, by |-> x.by] : x \in created}

PromiseSpec == Promise!Spec

(* Every request that was received is answered, whatever fails: each       *)
(* remote call ends and doJSON gives up after its second attempt.          *)
EveryRequestAnswered ==
    \A r \in Req : (pc[r] # "idle") ~> (pc[r] = "done")
-------------------------------------------------------------------------------
(* What the documentation says of these routes and the code does not do.   *)

(* PERS_D5C_REMOVE_MEMORY.md: an unavailable cafe-persistence is answered  *)
(* with 503 on every durable operation.  A handler that gave up waiting    *)
(* replies with another status on DELETE and on the list.                  *)
UnavailableIs503 ==
    [][\A r \in Req :
          pc[r] = "wait" /\ answer[r] = None /\ pc'[r] = "done" =>
              StatusOf(Route[r], reply'[r]) = 503]_vars

(* cpm-v1.yaml: DELETE answers 204 if it deleted the policy.  When the     *)
(* answer to the first attempt is lost, the retry finds the policy gone.   *)
DeletedIs204 ==
    \A r \in Req :
        Route[r] = "delete" /\ (\E d \in removed : d[2] = r) =>
            reply[r] # "not_found"
===============================================================================
