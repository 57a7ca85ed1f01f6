-------------------------- MODULE PersistFlow_proof ---------------------------
(***************************************************************************)
(* The inductive invariant of PersistFlow, for every set of requests,      *)
(* owners, wallets, scans, payloads and messages, every window and skew.   *)
(*                                                                         *)
(* None of the properties is inductive.  What a stored row says was        *)
(* checked in three earlier steps of the handler, so the invariant follows *)
(* the evidence along the pipeline: StageInv says what a request that      *)
(* reached a stage has shown, CallInv and RowInv that a call in flight and *)
(* a row carry it on, and OnceInv that a create is in exactly one place:   *)
(* in flight, answered, or given up on.  The lemmas are about Init, the    *)
(* operators the handlers are made of (Finish, Send and Goto), the steps   *)
(* of the handlers, what a step does to rows and replies, the challenges   *)
(* in the clients' hands, and the steps of cafe-persistence, the network,  *)
(* the clock and Discovery.  The theorems come last.                       *)
(***************************************************************************)
EXTENDS PersistFlow, TLAPS

(* What the early returns of handlePolicyPersist leave through.            *)
Decoded(t) ==
    /\ t \in Request
    /\ t.body.owner \in Owner /\ t.body.wallet \in Wallet
    /\ t.body.chain \in Chain /\ t.body.scan \in Scan
    /\ t.body.payload \in Payload

(* VerifyAuthorization accepted the request at some moment since arrival.  *)
Verified(t, s) ==
    /\ DigestOf[t.body.payload] \in Digest
    /\ \E now \in s.clock..clock : Verdict(t, now) = Ok

(* The three properties of a row, of the input it is made from.            *)
Engaged(i) ==
    /\ i \in Input
    /\ i.owner = i.from.body.owner /\ i.from.signer = i.wallet
    /\ i.msg.form = "canonical" /\ i.msg.action = PersistAction
    /\ i.msg.domain = i.from.body.domain
    /\ i.msg.wallet = i.wallet /\ i.msg.chain = i.chain
    /\ i.msg.scan = i.scan /\ i.msg.sha = i.sha
    /\ i.from.body.payload \in Payload /\ i.sha = DigestOf[i.from.body.payload]
    /\ GateOf[i.sha] = Ok
    /\ i.from.arrived <= i.msg.expires
    /\ i.msg.expires - i.msg.issued <= MaxValidityWindow
    /\ i.msg.issued <= i.verifiedAt + ClockSkew
    /\ i.scan \in i.from.vouched

Waiting(r) ==
    /\ Route[r] # "challenge"
    /\ Route[r] = "persist" =>
          Engaged(task[r]) /\ try[r] = 1
    /\ Route[r] # "persist" =>
          task[r] \in Query /\ try[r] \in {1, 2} /\ answer[r] # "conflict"

StageInv ==
    \A r \in Req :
        /\ since[r].clock <= clock /\ since[r].nextId <= nextId
        /\ pc[r] \in Engaging =>
              /\ Route[r] \in {"challenge", "persist"}
              /\ Decoded(task[r])
              /\ latest[<<task[r].body.owner, task[r].body.wallet>>]
                    \in since[r].vouched
              /\ Route[r] = "persist" => task[r].msg \in Message
        /\ pc[r] = "issue" => Route[r] = "challenge"
        /\ pc[r] \in {"verify", "gate"} =>
              /\ Route[r] = "persist"
              /\ task[r].body.scan \in since[r].vouched
        /\ pc[r] = "gate" => Verified(task[r], since[r])
        /\ pc[r] = "wait" => Waiting(r)
        /\ pc[r] # "done" => reply[r] = None

CallInv ==
    \A c \in calls :
        /\ pc[c.by] \in {"wait", "done"} /\ Route[c.by] # "challenge"
        /\ Route[c.by] = "persist" =>
              /\ Engaged(c.in) /\ c.n = 1
              /\ answer[c.by] = None
              /\ pc[c.by] = "done" => reply[c.by] = "PERSISTENCE_UNAVAILABLE"
        /\ Route[c.by] # "persist" =>
              /\ c.in \in Query
              /\ pc[c.by] = "wait" => c.in = task[c.by]

RowInv ==
    \A x \in created :
        /\ x.id < nextId
        /\ Route[x.by] = "persist" /\ Engaged(x.in)
        /\ pc[x.by] \in {"wait", "done"}
        /\ pc[x.by] = "wait" => answer[x.by] = Ok
        /\ pc[x.by] = "done" => reply[x.by] \in Undecided

OnceInv ==
    /\ \A x, y \in created : x.by = y.by => x = y
    /\ \A x \in created, c \in calls : x.by # c.by
    /\ \A c, d \in calls : c.by = d.by /\ Route[c.by] = "persist" => c = d
    /\ \A r \in Req :
          /\ Route[r] = "persist"
          /\ (pc[r] = "wait" /\ answer[r] = Ok) \/ (pc[r] = "done" /\ reply[r] = Ok)
          => \E x \in created : x.by = r

(* A policy that was there when the request arrived and that an answer     *)
(* said is not there, is gone for good.                                    *)
GoneInv ==
    \A r \in Req : \A x \in created :
        /\ pc[r] = "wait" /\ Route[r] \in {"delete", "get"}
        /\ answer[r] \in {"not_found", "forbidden"}
        /\ x.id = task[r].target /\ x.id < since[r].nextId
        /\ x.in.owner = task[r].owner
        => \E d \in removed : d[1] = x.id

Inv == StageInv /\ CallInv /\ RowInv /\ OnceInv /\ GoneInv
-------------------------------------------------------------------------------
(* What VerifyAuthorization establishes when it accepts.                   *)
LEMMA VerdictFacts ==
    ASSUME NEW t, NEW now, Verdict(t, now) = Ok
    PROVE  /\ t.signer = t.body.wallet
           /\ t.msg.form = "canonical" /\ t.msg.action = PersistAction
           /\ t.msg.domain = t.body.domain /\ t.msg.wallet = t.body.wallet
           /\ t.msg.chain = t.body.chain /\ t.msg.scan = t.body.scan
           /\ t.msg.sha = DigestOf[t.body.payload]
           /\ ~(t.msg.expires - t.msg.issued > MaxValidityWindow)
           /\ ~(now > t.msg.expires)
           /\ ~(t.msg.issued > now + ClockSkew)
<1>1. validateFreshness(t.msg.issued, t.msg.expires, now) = Ok
  BY Zenon DEF Verdict, VerifyAuthorization, Ok
<1>2. compareBindings(t.msg, Expected(t.body)) = Ok
  BY Zenon DEF Verdict, VerifyAuthorization, Ok
<1>3. IsExpectedMessage(t.msg, Expected(t.body)) /\ t.signer = Expected(t.body).wallet
  BY Zenon DEF Verdict, VerifyAuthorization, Ok
<1>4. QED
  BY <1>1, <1>2, <1>3, Zenon DEF validateFreshness, compareBindings, IsExpectedMessage,
     Expected, Ok

(* None is neither a reply code nor an answer.                             *)
LEMMA NoneFacts ==
    /\ None # Ok /\ None # "conflict" /\ None # "not_found" /\ None # "forbidden"
    /\ None \notin Code
BY FlowAssumption, Zenon DEF Answer

(* Nothing is under way when the service starts.                           *)
LEMMA InitInv == Init => TypeOK /\ Inv
<1> SUFFICES ASSUME Init PROVE TypeOK /\ Inv
  BY Zenon
<1>1. TypeOK
  BY FlowAssumption, Zenon DEF Init, TypeOK, NotReceived, Seen
<1>2. Inv
  BY FlowAssumption DEF Init, Inv, StageInv, CallInv, RowInv, OnceInv, GoneInv,
     Engaging, NotReceived
<1>3. QED
  BY <1>1, <1>2, Zenon

(* A handler that replies keeps the invariant, provided the reply does not *)
(* contradict what the request did to the store.                           *)
LEMMA FinishInv ==
    ASSUME TypeOK, Inv, NEW r \in Req, NEW code \in Code, Finish(r, code),
           UNCHANGED <<envVars, storeVars>>, held' \subseteq Message,
           Route[r] = "persist" =>
              /\ \A c \in calls : c.by = r => code = "PERSISTENCE_UNAVAILABLE"
              /\ \A x \in created : x.by = r => code \in Undecided
              /\ code = Ok => \E x \in created : x.by = r
    PROVE  TypeOK' /\ Inv'
<1> USE NoneFacts DEF envVars, storeVars
<1>0. /\ pc' = [pc EXCEPT ![r] = "done"] /\ reply' = [reply EXCEPT ![r] = code]
      /\ task' = [task EXCEPT ![r] = None] /\ try' = [try EXCEPT ![r] = 0]
      /\ answer' = [answer EXCEPT ![r] = None]
      /\ since' = [since EXCEPT ![r] = NotReceived] /\ calls' = calls
  BY Zenon DEF Finish
<1>1. TypeOK'
  BY <1>0, Zenon DEF TypeOK, NotReceived, Seen
<1>2. StageInv'
  BY <1>0 DEF TypeOK, Inv, StageInv, Engaging, Waiting, Verified, NotReceived
<1>3. CallInv'
  BY <1>0, Zenon DEF TypeOK, Inv, CallInv
<1>4. RowInv'
  BY <1>0, Zenon DEF TypeOK, Inv, RowInv
<1>5. OnceInv'
  BY <1>0, Zenon DEF TypeOK, Inv, OnceInv
<1>6. GoneInv'
  BY <1>0, Zenon DEF TypeOK, Inv, GoneInv
<1>7. QED
  BY <1>1, <1>2, <1>3, <1>4, <1>5, <1>6, Zenon DEF Inv

(* A call that is sent carries the evidence the next steps rely on.        *)
LEMMA SendInv ==
    ASSUME TypeOK, Inv, NEW r \in Req, NEW n \in {1, 2}, NEW input,
           Send(r, n, input), UNCHANGED <<envVars, storeVars, held>>,
           Route[r] # "challenge", pc[r] # "done",
           Route[r] = "persist" => /\ Engaged(input) /\ n = 1
                                   /\ pc[r] \notin {"wait", "done"},
           Route[r] # "persist" =>
              input \in Query /\ (pc[r] = "wait" => input = task[r]),
           since' \in [Req -> [clock : Nat, nextId : Nat, vouched : Seen]],
           \A q \in Req \ {r} : since'[q] = since[q],
           since'[r].clock <= clock, since'[r].nextId <= nextId
    PROVE  TypeOK' /\ Inv'
<1> DEFINE c == [by |-> r, n |-> n, in |-> input]
<1> USE NoneFacts DEF envVars, storeVars
<1>0. /\ pc' = [pc EXCEPT ![r] = "wait"] /\ UNCHANGED reply
      /\ task' = [task EXCEPT ![r] = input] /\ try' = [try EXCEPT ![r] = n]
      /\ answer' = [answer EXCEPT ![r] = None]
      /\ calls' = calls \cup {c}
  BY Zenon DEF Send
<1>a. input \in Input \cup Query
  BY Zenon DEF Engaged
<1>1. TypeOK'
  BY <1>0, <1>a DEF TypeOK
<1>2. StageInv'
  <2> SUFFICES ASSUME NEW q \in Req PROVE StageInv!(q)'
    BY Zenon DEF StageInv
  <2>1. CASE q = r
    BY <1>0, <2>1, Zenon DEF TypeOK, Inv, StageInv, Engaging, Waiting
  <2>2. CASE q # r
    <3>1. /\ pc'[q] = pc[q] /\ task'[q] = task[q] /\ try'[q] = try[q]
          /\ answer'[q] = answer[q] /\ reply'[q] = reply[q] /\ since'[q] = since[q]
          /\ clock' = clock /\ nextId' = nextId
      BY <1>0, <2>2, Zenon DEF TypeOK
    <3>2. QED
      BY <3>1 DEF Inv, StageInv, Engaging, Waiting, Verified
  <2>3. QED
    BY <2>1, <2>2, Zenon
<1>b. ASSUME Route[r] = "persist"
      PROVE  /\ \A d \in calls : d.by # r
             /\ \A x \in created : x.by # r
  BY <1>b, Zenon DEF Inv, CallInv, RowInv
<1>3. CallInv'
  BY <1>0, <1>b DEF TypeOK, Inv, CallInv
<1>4. RowInv'
  BY <1>0, <1>b, Zenon DEF TypeOK, Inv, RowInv
<1>5. OnceInv'
  <2>1. \A x \in created : x.by # r
    BY <1>b, Zenon DEF Inv, RowInv
  <2>2. \A x \in created', d \in calls' : x.by # d.by
    BY <1>0, <2>1 DEF Inv, OnceInv
  <2>3. \A d, e \in calls' : d.by = e.by /\ Route[d.by] = "persist" => d = e
    BY <1>0, <1>b DEF Inv, OnceInv
  <2>4. \A q \in Req :
          /\ Route[q] = "persist"
          /\ (pc'[q] = "wait" /\ answer'[q] = Ok) \/ (pc'[q] = "done" /\ reply'[q] = Ok)
          => \E x \in created : x.by = q
    BY <1>0, Zenon DEF TypeOK, Inv, OnceInv, Ok
  <2>5. QED
    BY <2>2, <2>3, <2>4, Zenon DEF Inv, OnceInv
<1>6. GoneInv'
  <2> SUFFICES ASSUME NEW q \in Req, NEW x \in created, GoneInv!(q)!(x)!1'
               PROVE  \E d \in removed : d[1] = x.id
    BY Zenon DEF GoneInv
  <2>1. q # r
    BY <1>0, Zenon DEF TypeOK
  <2>2. QED
    BY <1>0, <2>1, Zenon DEF TypeOK, Inv, GoneInv
<1>7. QED
  BY <1>1, <1>2, <1>3, <1>4, <1>5, <1>6, Zenon DEF Inv

(* A handler moves on to a later stage of handlePolicyPersist or           *)
(* handleWalletChallenge.                                                  *)
LEMMA AdvanceInv ==
    ASSUME TypeOK, Inv, NEW r \in Req, NEW label \in Engaging,
           pc[r] \in Engaging, Goto(r, label),
           UNCHANGED <<envVars, storeVars, held>>,
           label = "issue" => Route[r] = "challenge",
           label \in {"verify", "gate"} =>
              Route[r] = "persist" /\ task[r].body.scan \in since[r].vouched,
           label = "gate" => Verified(task[r], since[r])
    PROVE  TypeOK' /\ Inv'
<1> USE NoneFacts DEF envVars, storeVars
<1>0. /\ pc' = [pc EXCEPT ![r] = label]
      /\ UNCHANGED <<calls, task, try, answer, reply, since>>
  BY Zenon DEF Goto
<1>1. TypeOK'
  BY <1>0, Zenon DEF TypeOK, Engaging
<1>2. StageInv'
  BY <1>0 DEF TypeOK, Inv, StageInv, Engaging, Waiting, Verified
<1>3. CallInv' /\ RowInv' /\ OnceInv' /\ GoneInv'
  BY <1>0 DEF TypeOK, Inv, CallInv, RowInv, OnceInv, GoneInv, Engaging
<1>4. QED
  BY <1>1, <1>2, <1>3, Zenon DEF Inv
-------------------------------------------------------------------------------
(* Receiving.                                                              *)

(* What the decoders let through is a complete request.                    *)
LEMMA ReceiveBodyInv ==
    ASSUME TypeOK, Inv, NEW r \in Req, Route[r] \in {"challenge", "persist"},
           NEW b \in Body, NEW m \in Message \cup {None}, NEW signer \in Signer,
           ReceiveBody(r, b, m, signer)
    PROVE  TypeOK' /\ Inv'
<1> DEFINE refusal == IF Route[r] = "challenge" THEN challengeRefusal(b)
                      ELSE persistRefusal(b, m, signer)
<1>1. CASE refusal # Ok
  <2>1. refusal \in Code
    <3>1. challengeRefusal(b) \in Code
      BY Zenon DEF challengeRefusal, Code, VerifyCode, GateCode
    <3>2. persistRefusal(b, m, signer) \in Code
      BY Zenon DEF persistRefusal, Code, VerifyCode, GateCode
    <3>3. QED
      BY <3>1, <3>2, Zenon
  <2>2. Finish(r, refusal) /\ UNCHANGED <<envVars, storeVars, held>> /\ pc[r] = "idle"
    BY <1>1, Zenon DEF ReceiveBody
  <2>3. /\ \A c \in calls : c.by # r
        /\ \A x \in created : x.by # r
    BY <2>2, Zenon DEF Inv, CallInv, RowInv
  <2>4. QED
    BY <1>1, <2>1, <2>2, <2>3, FinishInv, Zenon DEF TypeOK
<1>2. CASE refusal = Ok
  <2> DEFINE t == [body |-> b, msg |-> m, signer |-> signer]
  <2>0. /\ pc[r] = "idle" /\ pc' = [pc EXCEPT ![r] = "w2"]
        /\ task' = [task EXCEPT ![r] = t]
        /\ since' = [since EXCEPT ![r] = Now(LatestFor(b))]
        /\ UNCHANGED <<calls, try, answer, reply>>
        /\ UNCHANGED <<clock, latest, completed, created, removed, nextId, held>>
    BY <1>2, Zenon DEF ReceiveBody, envVars, storeVars
  <2>1. Now(LatestFor(b)) \in [clock : Nat, nextId : Nat, vouched : Seen]
    <3>1. LatestFor(b) \in Seen
      <4>1. CASE <<b.owner, b.wallet>> \in Owner \X Wallet
        <5>1. latest[<<b.owner, b.wallet>>] \in Scan \cup {None}
          BY <4>1, Zenon DEF TypeOK
        <5>2. QED
          BY <4>1, <5>1, Zenon DEF LatestFor, Seen
      <4>2. CASE <<b.owner, b.wallet>> \notin Owner \X Wallet
        BY <4>2, Zenon DEF LatestFor, Seen
      <4>3. QED
        BY <4>1, <4>2, Zenon
    <3>2. QED
      BY <3>1, Zenon DEF Now, TypeOK
  <2>2. t \in Request
    BY Zenon DEF Request
  <2>3. Decoded(t) /\ (Route[r] = "persist" => m \in Message)
    <3>1. CASE Route[r] = "challenge"
      BY <1>2, <2>2, <3>1, Zenon DEF challengeRefusal, Decoded, Body, Ok
    <3>2. CASE Route[r] = "persist"
      BY <1>2, <2>2, <3>2, Zenon DEF persistRefusal, Decoded, Body, Ok
    <3>3. QED
      BY <3>1, <3>2, Zenon
  <2>4. TypeOK'
    BY <2>0, <2>1, <2>2, Zenon DEF TypeOK
  <2>5. StageInv'
    <3> SUFFICES ASSUME NEW q \in Req PROVE StageInv!(q)'
      BY Zenon DEF StageInv
    <3>1. CASE q = r
      <4>1. latest[<<b.owner, b.wallet>>] \in since'[r].vouched
        BY <2>0, <2>3, Zenon DEF TypeOK, Decoded, Now, LatestFor
      <4>2. /\ pc'[r] = "w2" /\ task'[r] = t
            /\ since'[r].clock <= clock' /\ since'[r].nextId <= nextId'
            /\ latest' = latest
        BY <2>0 DEF TypeOK, Now
      <4>3. reply'[r] = None
        BY <2>0, Zenon DEF Inv, StageInv
      <4>4. t.body = b /\ t.msg = m
        BY Zenon
      <4> HIDE DEF t
      <4>5. QED
        BY <2>3, <3>1, <4>1, <4>2, <4>3, <4>4, Zenon DEF StageInv, Engaging
    <3>2. CASE q # r
      BY <2>0, <3>2, Zenon DEF TypeOK, Inv, StageInv, Engaging, Waiting, Verified
    <3>3. QED
      BY <3>1, <3>2, Zenon
  <2>6. CallInv' /\ RowInv'
    BY <2>0, Zenon DEF TypeOK, Inv, CallInv, RowInv
  <2>7. OnceInv'
    BY <2>0, Zenon DEF TypeOK, Inv, OnceInv
  <2>8. GoneInv'
    BY <2>0, Zenon DEF TypeOK, Inv, GoneInv
  <2>9. QED
    BY <2>4, <2>5, <2>6, <2>7, <2>8, Zenon DEF Inv
<1>3. QED
  BY <1>1, <1>2, Zenon

(* GET, DELETE and the context route send their first attempt.             *)
LEMMA ReceiveQueryInv ==
    ASSUME TypeOK, Inv, NEW r \in Req, ReceiveQuery(r)
    PROVE  TypeOK' /\ Inv'
<1>0. /\ Route[r] \in {"delete", "get", "list", "context"} /\ pc[r] = "idle"
      /\ UNCHANGED <<envVars, storeVars, held>>
  BY Zenon DEF ReceiveQuery
<1>1. PICK o \in Owner \cup {Blank}, target \in 0..MaxTarget :
        \/ Finish(r, "AUTHZ_PRINCIPAL_REQUIRED")
        \/ Finish(r, "bad_request")
        \/ /\ o # Blank
           /\ Send(r, 1, [owner |-> o, target |-> target])
           /\ since' = [since EXCEPT ![r] = Now({})]
  BY Zenon DEF ReceiveQuery
<1>2. ASSUME NEW code \in {"AUTHZ_PRINCIPAL_REQUIRED", "bad_request"}, Finish(r, code)
      PROVE  TypeOK' /\ Inv'
  <2>1. code \in Code /\ held' \subseteq Message
    BY <1>0, Zenon DEF Code, TypeOK
  <2>2. QED
    BY <1>0, <1>2, <2>1, FinishInv, Zenon
<1>3. ASSUME o # Blank, Send(r, 1, [owner |-> o, target |-> target]),
             since' = [since EXCEPT ![r] = Now({})]
      PROVE  TypeOK' /\ Inv'
  <2>1. [owner |-> o, target |-> target] \in Query
    BY <1>3 DEF Query
  <2>2. Now({}) \in [clock : Nat, nextId : Nat, vouched : Seen]
    BY Zenon DEF Now, TypeOK, Seen
  <2>3. /\ since' \in [Req -> [clock : Nat, nextId : Nat, vouched : Seen]]
        /\ \A q \in Req \ {r} : since'[q] = since[q]
        /\ since'[r].clock <= clock /\ since'[r].nextId <= nextId
    BY <1>3, <2>2 DEF TypeOK, Now
  <2>4. Route[r] # "persist" /\ Route[r] # "challenge" /\ pc[r] # "done" /\ pc[r] # "wait"
    BY <1>0, Zenon
  <2>5. QED
    BY <1>0, <1>3, <2>1, <2>3, <2>4, SendInv, Zenon
<1>4. QED
  BY <1>1, <1>2, <1>3, Zenon
-------------------------------------------------------------------------------
(* The handlers' own steps.                                                *)

(* A request still being engaged has neither a call in flight nor a row.   *)
LEMMA NothingStored ==
    ASSUME Inv, NEW r \in Req, pc[r] \notin {"wait", "done"}
    PROVE  (\A c \in calls : c.by # r) /\ (\A x \in created : x.by # r)
BY Zenon DEF Inv, CallInv, RowInv

(* ensureOwnerScopedW2 passes a request only with a vouched scan.          *)
LEMMA W2Inv ==
    ASSUME TypeOK, Inv, NEW r \in Req, W2(r)
    PROVE  TypeOK' /\ Inv'
<1>0. pc[r] = "w2" /\ UNCHANGED <<envVars, storeVars, held>> /\ held' \subseteq Message
  BY Zenon DEF W2, TypeOK
<1>1. ASSUME NEW code \in {"DISCOVERY_UNAVAILABLE", "SCAN_NOT_LATEST"}, Finish(r, code)
      PROVE  TypeOK' /\ Inv'
  <2>1. code \in Code /\ code # Ok
    BY Zenon DEF Code, Ok
  <2>2. QED
    BY <1>0, <1>1, <2>1, FinishInv, NothingStored, Zenon
<1>2. ASSUME W2Pass(task[r].body),
             Goto(r, IF Route[r] = "challenge" THEN "issue" ELSE "verify")
      PROVE  TypeOK' /\ Inv'
  <2> DEFINE label == IF Route[r] = "challenge" THEN "issue" ELSE "verify"
  <2>1. Route[r] \in {"challenge", "persist"} /\ pc[r] \in Engaging
    BY <1>0, Zenon DEF Inv, StageInv, Engaging
  <2>2. task[r].body.scan \in since[r].vouched
    BY <1>0, <1>2, Zenon DEF Inv, StageInv, Engaging, W2Pass
  <2>3. /\ label \in Engaging /\ label # "gate"
        /\ label = "issue" => Route[r] = "challenge"
        /\ label = "verify" => Route[r] = "persist"
    BY <2>1, Zenon DEF Engaging
  <2> HIDE DEF label
  <2>4. Goto(r, label)
    BY <1>2, Zenon DEF label
  <2>5. QED
    BY <1>0, <2>1, <2>2, <2>3, <2>4, AdvanceInv, Zenon
<1>3. QED
  BY <1>1, <1>2, Zenon DEF W2

(* A challenge hands out a message and stores nothing.                     *)
LEMMA IssueInv ==
    ASSUME TypeOK, Inv, NEW r \in Req, Issue(r)
    PROVE  TypeOK' /\ Inv'
<1> DEFINE b == task[r].body
<1>0. /\ pc[r] = "issue" /\ Route[r] = "challenge" /\ Decoded(task[r])
      /\ UNCHANGED <<envVars, storeVars>>
  BY Zenon DEF Issue, Inv, StageInv, Engaging
<1>1. PICK code \in {Ok, "CRYPTO_POLICY_PAYLOAD_INVALID"} : Finish(r, code)
  BY Zenon DEF Issue
<1>2. held' \subseteq Message
  <2>1. CASE UNCHANGED held
    BY <2>1, Zenon DEF TypeOK
  <2>2. CASE DigestOf[b.payload] # None /\ held' = held \cup {ChallengeFor(b)}
    <3>1. DigestOf[b.payload] \in Digest
      BY <1>0, <2>2, FlowAssumption, Zenon DEF Decoded
    <3>2. b \in Body /\ b.wallet \in Wallet /\ b.chain \in Chain /\ b.scan \in Scan
      BY <1>0, Zenon DEF Decoded, Request
    <3>3. ChallengeFor(b) \in Message
      BY <3>1, <3>2, WindowAssumption DEF ChallengeFor, Body, Message, TypeOK
    <3>4. QED
      BY <2>2, <3>3, Zenon DEF TypeOK
  <2>3. QED
    BY <2>1, <2>2, Zenon DEF Issue
<1>3. code \in Code
  BY Zenon DEF Code, GateCode
<1>4. QED
  BY <1>0, <1>1, <1>2, <1>3, FinishInv, Zenon

(* VerifyAuthorization returns Ok or one of its codes.                     *)
LEMMA VerdictCode ==
    ASSUME NEW t, NEW now PROVE Verdict(t, now) \in Code
<1>1. validateFreshness(t.msg.issued, t.msg.expires, now) \in Code
  BY Zenon DEF validateFreshness, Code, VerifyCode
<1>2. compareBindings(t.msg, Expected(t.body)) \in Code
  BY Zenon DEF compareBindings, Code, VerifyCode
<1>3. QED
  BY <1>1, <1>2, ZenonT(30) DEF Verdict, VerifyAuthorization, Code, VerifyCode

(* A request that passes VerifyAuthorization is verified.                  *)
LEMMA VerifyInv ==
    ASSUME TypeOK, Inv, NEW r \in Req, Verify(r)
    PROVE  TypeOK' /\ Inv'
<1>0. /\ pc[r] = "verify" /\ Route[r] = "persist" /\ Decoded(task[r])
      /\ UNCHANGED <<envVars, storeVars, held>> /\ held' \subseteq Message
      /\ task[r].body.scan \in since[r].vouched /\ since[r].clock <= clock
  BY Zenon DEF Verify, TypeOK, Inv, StageInv, Engaging
<1>1. ASSUME NEW code \in Code, code # Ok, Finish(r, code)
      PROVE  TypeOK' /\ Inv'
  BY <1>0, <1>1, FinishInv, NothingStored, Zenon
<1>2. CASE DigestOf[task[r].body.payload] = None
  <2>1. "CRYPTO_POLICY_PAYLOAD_INVALID" \in Code /\ "CRYPTO_POLICY_PAYLOAD_INVALID" # Ok
    BY Zenon DEF Code, GateCode, Ok
  <2>2. QED
    BY <1>1, <1>2, <2>1, Zenon DEF Verify
<1>3. CASE DigestOf[task[r].body.payload] # None /\ Verdict(task[r], clock) # Ok
  BY <1>1, <1>3, VerdictCode, Zenon DEF Verify
<1>4. CASE DigestOf[task[r].body.payload] # None /\ Verdict(task[r], clock) = Ok
  <2>1. DigestOf[task[r].body.payload] \in Digest
    BY <1>0, <1>4, FlowAssumption, Zenon DEF Decoded
  <2>2. clock \in since[r].clock..clock
    BY <1>0 DEF TypeOK
  <2>3. Verified(task[r], since[r])
    BY <1>4, <2>1, <2>2, Zenon DEF Verified
  <2>4. Goto(r, "gate")
    BY <1>4, Zenon DEF Verify
  <2>5. pc[r] \in Engaging /\ "gate" \in Engaging
    BY <1>0, Zenon DEF Engaging
  <2>6. QED
    BY <1>0, <2>3, <2>4, <2>5, AdvanceInv, Zenon
<1>5. QED
  BY <1>2, <1>3, <1>4, Zenon

(* The evidence of the three stages, gathered in the input of CreatePolicy.*)
LEMMA EngagedInput ==
    ASSUME TypeOK, Inv, NEW r \in Req, pc[r] = "gate",
           GateOf[DigestOf[task[r].body.payload]] = Ok
    PROVE  Engaged(CreateInput(task[r], since[r]))
<1> DEFINE t == task[r]
           s == since[r]
           i == CreateInput(t, s)
<1>1. /\ Decoded(t) /\ t.msg \in Message /\ t.body.scan \in s.vouched
      /\ Verified(t, s)
  BY Zenon DEF Inv, StageInv, Engaging
<1>2. s \in [clock : Nat, nextId : Nat, vouched : Seen] /\ clock \in Nat
  BY Zenon DEF TypeOK
<1>3. PICK now \in s.clock..clock : Verdict(t, now) = Ok
  BY <1>1, Zenon DEF Verified
<1>4. DigestOf[t.body.payload] \in Digest
  BY <1>1, Zenon DEF Verified
<1>5. /\ i.owner = t.body.owner /\ i.wallet = t.body.wallet /\ i.chain = t.body.chain
      /\ i.scan = t.body.scan /\ i.sha = DigestOf[t.body.payload]
      /\ i.msg = t.msg /\ i.verifiedAt = clock
      /\ i.from.body = t.body /\ i.from.signer = t.signer
      /\ i.from.arrived = s.clock /\ i.from.vouched = s.vouched
  BY Zenon DEF CreateInput
<1>6. i \in Input
  BY <1>1, <1>2, <1>4, Zenon DEF CreateInput, Input, Decoded, Request
<1>7. /\ i.from.arrived <= i.msg.expires
      /\ i.msg.expires - i.msg.issued <= MaxValidityWindow
      /\ i.msg.issued <= i.verifiedAt + ClockSkew
  <2>1. t.msg.expires \in Int /\ t.msg.issued \in Int
    BY <1>1, Zenon DEF Message
  <2>2. /\ ~(t.msg.expires - t.msg.issued > MaxValidityWindow)
        /\ ~(now > t.msg.expires)
        /\ ~(t.msg.issued > now + ClockSkew)
    BY <1>3, VerdictFacts, Zenon
  <2>3. s.clock \in Nat /\ now \in Int /\ s.clock <= now /\ now <= clock
    BY <1>2, <1>3
  <2> HIDE DEF i, t, s
  <2>4. QED
    BY <1>2, <1>5, <2>1, <2>2, <2>3, WindowAssumption
<1>8. /\ t.signer = t.body.wallet
      /\ t.msg.form = "canonical" /\ t.msg.action = PersistAction
      /\ t.msg.domain = t.body.domain /\ t.msg.wallet = t.body.wallet
      /\ t.msg.chain = t.body.chain /\ t.msg.scan = t.body.scan
      /\ t.msg.sha = DigestOf[t.body.payload]
      /\ GateOf[DigestOf[t.body.payload]] = Ok
  BY <1>3, VerdictFacts, Zenon
<1>9. Engaged(i)
  <2> HIDE DEF i, t, s
  <2>1. QED
    BY <1>1, <1>5, <1>6, <1>7, <1>8, Zenon DEF Engaged, Decoded
<1>10. QED
  BY <1>9, Zenon

(* The create that leaves the gates carries the whole engagement.          *)
LEMMA GateInv ==
    ASSUME TypeOK, Inv, NEW r \in Req, Gate(r)
    PROVE  TypeOK' /\ Inv'
<1> DEFINE verdict == GateOf[DigestOf[task[r].body.payload]]
<1>0. /\ pc[r] = "gate" /\ Route[r] = "persist" /\ Decoded(task[r])
      /\ Verified(task[r], since[r])
      /\ UNCHANGED <<envVars, storeVars, held>> /\ held' \subseteq Message
  BY Zenon DEF Gate, TypeOK, Inv, StageInv, Engaging
<1>1. CASE verdict # Ok
  <2>1. verdict \in Code
    BY <1>0, FlowAssumption, Zenon DEF Verified, Code
  <2>2. QED
    BY <1>0, <1>1, <2>1, FinishInv, NothingStored, Zenon DEF Gate
<1>2. CASE verdict = Ok
  <2> DEFINE input == CreateInput(task[r], since[r])
  <2>1. Engaged(input)
    BY <1>0, <1>2, EngagedInput, Zenon
  <2>2. Send(r, 1, input) /\ UNCHANGED since
    BY <1>2, Zenon DEF Gate
  <2> HIDE DEF input
  <2>3. since[r].clock <= clock /\ since[r].nextId <= nextId
    BY Zenon DEF Inv, StageInv
  <2>4. QED
    BY <1>0, <2>1, <2>2, <2>3, SendInv, Zenon DEF TypeOK
<1>3. QED
  BY <1>1, <1>2, Zenon

(* An answer that is returned to the handler agrees with the store.        *)
LEMMA ReturnInv ==
    ASSUME TypeOK, Inv, NEW r \in Req, Return(r)
    PROVE  TypeOK' /\ Inv'
<1> USE NoneFacts
<1>0. /\ pc[r] = "wait" /\ answer[r] # None /\ Waiting(r)
      /\ UNCHANGED <<envVars, storeVars, held>> /\ held' \subseteq Message
  BY Zenon DEF Return, TypeOK, Inv, StageInv
<1>1. PICK code \in RepliesTo(Route[r], answer[r]) : Finish(r, code)
  BY Zenon DEF Return
<1>2. code \in Code
  BY <1>1, Zenon DEF RepliesTo, Code
<1>3. CASE Route[r] # "persist"
  BY <1>0, <1>1, <1>2, <1>3, FinishInv, Zenon
<1>4. CASE Route[r] = "persist"
  <2>1. \A c \in calls : c.by # r
    BY <1>0, <1>4, Zenon DEF Inv, CallInv
  <2>3. CASE answer[r] = Ok
    <3>1. \E x \in created : x.by = r
      BY <1>0, <1>4, <2>3, Zenon DEF Inv, OnceInv
    <3>2. code \in Undecided
      BY <1>1, <1>4, <2>3 DEF RepliesTo, Undecided, Ok
    <3>3. QED
      BY <1>0, <1>1, <1>2, <2>1, <3>1, <3>2, FinishInv, Zenon
  <2>4. CASE answer[r] # Ok
    <3>1. \A x \in created : x.by # r
      BY <1>0, <1>4, <2>4, Zenon DEF Inv, RowInv
    <3>2. code # Ok
      BY <1>1, <1>4, <2>4, Zenon DEF RepliesTo, Ok
    <3>3. QED
      BY <1>0, <1>1, <1>2, <2>1, <3>1, <3>2, FinishInv, Zenon
  <2>5. QED
    BY <2>3, <2>4, Zenon
<1>5. QED
  BY <1>3, <1>4, Zenon

(* A failed attempt is retried (reads, delete) or reported (create).       *)
LEMMA UnavailableInv ==
    ASSUME TypeOK, Inv, NEW r \in Req, Unavailable(r)
    PROVE  TypeOK' /\ Inv'
<1>0. /\ pc[r] = "wait" /\ Waiting(r)
      /\ UNCHANGED <<envVars, storeVars, held>> /\ held' \subseteq Message
  BY Zenon DEF Unavailable, TypeOK, Inv, StageInv
<1>1. CASE Idempotent(Route[r]) /\ try[r] = 1
  <2>1. Route[r] # "persist" /\ Route[r] # "challenge" /\ task[r] \in Query
    BY <1>0, <1>1, Zenon DEF Idempotent, Waiting
  <2>2. Send(r, 2, task[r]) /\ UNCHANGED since
    BY <1>1, Zenon DEF Unavailable
  <2>3. since[r].clock <= clock /\ since[r].nextId <= nextId
    BY Zenon DEF Inv, StageInv
  <2>4. QED
    BY <1>0, <2>1, <2>2, <2>3, SendInv, Zenon DEF TypeOK
<1>2. CASE ~(Idempotent(Route[r]) /\ try[r] = 1)
  <2>1. Finish(r, UnavailableReply(Route[r]))
    BY <1>2, Zenon DEF Unavailable
  <2>2. UnavailableReply(Route[r]) \in Code
    BY Zenon DEF UnavailableReply, Code
  <2>3. Route[r] = "persist" =>
          /\ UnavailableReply(Route[r]) = "PERSISTENCE_UNAVAILABLE"
          /\ UnavailableReply(Route[r]) \in Undecided
          /\ UnavailableReply(Route[r]) # Ok
    BY Zenon DEF UnavailableReply, Undecided, Ok
  <2>4. QED
    BY <1>0, <2>1, <2>2, <2>3, FinishInv, Zenon
<1>3. QED
  BY <1>1, <1>2, Zenon
-------------------------------------------------------------------------------
(* A step makes a row, or replies to a request that is not done, or does   *)
(* neither.                                                                *)
LEMMA RowOrReply ==
    ASSUME [Next]_vars
    PROVE  \/ UNCHANGED <<created, nextId, reply>>
           \/ /\ \E r \in Req : /\ pc[r] # "done"
                               /\ \E code : reply' = [reply EXCEPT ![r] = code]
              /\ UNCHANGED <<created, nextId>>
           \/ /\ \E c \in calls : /\ Route[c.by] = "persist"
                                 /\ created' = created \cup {RowOf(c)}
              /\ nextId' = nextId + 1
              /\ UNCHANGED reply
<1> DEFINE Replies(r) == pc[r] # "done" /\ \E code : reply' = [reply EXCEPT ![r] = code]
<1> USE DEF envVars, storeVars, handlerVars
<1>1. CASE UNCHANGED vars
  BY <1>1, Zenon DEF vars
<1>2. ASSUME NEW r \in Req, ReceiveChallenge(r) \/ ReceivePersist(r) \/ ReceiveQuery(r)
      PROVE  UNCHANGED <<created, nextId>> /\ (UNCHANGED reply \/ Replies(r))
  BY <1>2, Zenon DEF ReceiveChallenge, ReceivePersist, ReceiveQuery, ReceiveBody, Finish, Send
<1>3. ASSUME NEW r \in Req, Handler(r)
      PROVE  UNCHANGED <<created, nextId>> /\ (UNCHANGED reply \/ Replies(r))
  BY <1>3, Zenon DEF Handler, W2, Issue, Verify, Gate, Return, Unavailable, Finish, Goto, Send
<1>4. ASSUME NEW c \in calls, Serve(c)
      PROVE  /\ UNCHANGED reply
             /\ \/ UNCHANGED <<created, nextId>>
                \/ /\ Route[c.by] = "persist" /\ nextId' = nextId + 1
                   /\ created' = created \cup {RowOf(c)}
  BY <1>4, Zenon DEF Serve, ServeCreate, ServeById, ServeQuery
<1>5. ASSUME \/ \E c \in calls : Lose(c)
             \/ Tick
             \/ \E o \in Owner, w \in Wallet, s \in Scan : ScanCompletes(o, w, s)
      PROVE  UNCHANGED <<created, nextId, reply>>
  BY <1>5, Zenon DEF Lose, Tick, ScanCompletes
<1>6. QED
  BY <1>1, <1>2, <1>3, <1>4, <1>5, ZenonT(30) DEF Next

(* Every step keeps the promise: a row is made for a request that has none *)
(* and was not refused, and a reply agrees with the rows.                  *)
LEMMA PromiseStep ==
    ASSUME TypeOK, Inv, [Next]_vars, TypeOK', Inv'
    PROVE  [Promise!Next]_(Promise!vars)
<1> DEFINE rows == {[id |-> x.id, by |-> x.by] : x \in created}
<1>0. \A r : Promise!HasRow(r) <=> \E x \in created : x.by = r
  <2> TAKE r
  <2>1. ASSUME NEW x \in created, x.by = r PROVE Promise!HasRow(r)
    <3>1. [id |-> x.id, by |-> x.by] \in rows
      BY Zenon
    <3>2. QED
      BY <2>1, <3>1, Zenon DEF Promise!HasRow
  <2>2. ASSUME Promise!HasRow(r) PROVE \E x \in created : x.by = r
    <3>1. PICK y \in rows : y.by = r
      BY <2>2, Zenon DEF Promise!HasRow
    <3>2. PICK x \in created : y = [id |-> x.id, by |-> x.by]
      BY Zenon
    <3>3. QED
      BY <3>1, <3>2, Zenon
  <2>3. QED
    BY <2>1, <2>2, Zenon
<1>1. CASE UNCHANGED <<created, nextId, reply>>
  BY <1>1, Zenon DEF Promise!vars
<1>2. ASSUME NEW r \in Req, pc[r] # "done", NEW code, code # None,
             reply' = [reply EXCEPT ![r] = code], UNCHANGED <<created, nextId>>
      PROVE  Promise!Next
  <2>1. reply[r] = None /\ reply'[r] = code
    BY <1>2, Zenon DEF TypeOK, Inv, StageInv
  <2>2. code \in Code /\ pc'[r] = "done"
    <3>1. reply'[r] \in Code \cup {None}
      BY Zenon DEF TypeOK
    <3>2. pc'[r] # "done" => reply'[r] = None
      BY Zenon DEF Inv, StageInv
    <3>3. QED
      BY <1>2, <2>1, <3>1, <3>2, Zenon
  <2>3. Route[r] = "persist" /\ code = Ok => \E x \in created : x.by = r
    BY <1>2, <2>1, <2>2, Zenon DEF Inv, OnceInv
  <2>4. \A x \in created : x.by = r => code \in Undecided
    BY <1>2, <2>1, <2>2, Zenon DEF Inv, RowInv
  <2>5. Promise!Answer(r, code)
    BY <1>0, <1>2, <2>1, <2>3, <2>4, Zenon DEF Promise!Answer
  <2>6. QED
    BY <2>2, <2>5, Zenon DEF Promise!Next
<1>3. ASSUME NEW c \in calls, Route[c.by] = "persist",
             created' = created \cup {RowOf(c)}, nextId' = nextId + 1, UNCHANGED reply
      PROVE  Promise!Next
  <2> DEFINE r == c.by
  <2>1. r \in Req
    BY Zenon DEF TypeOK
  <2>2. reply[r] \in Undecided \cup {None}
    <3>1. pc[r] # "done" => reply[r] = None
      BY <2>1, Zenon DEF Inv, StageInv
    <3>2. pc[r] = "done" => reply[r] = "PERSISTENCE_UNAVAILABLE"
      BY <1>3, Zenon DEF Inv, CallInv
    <3>3. QED
      BY <3>1, <3>2, Zenon DEF Undecided
  <2>3. ~Promise!HasRow(r)
    BY <1>0, Zenon DEF Inv, OnceInv
  <2>4. rows' = rows \cup {[id |-> nextId, by |-> r]}
    <3>1. RowOf(c).id = nextId /\ RowOf(c).by = r
      BY Zenon DEF RowOf
    <3>2. rows' = {[id |-> x.id, by |-> x.by] : x \in created \cup {RowOf(c)}}
      BY <1>3, Zenon
    <3>3. QED
      BY <3>1, <3>2, Zenon
  <2>5. Promise!Store(r)
    BY <1>3, <2>2, <2>3, <2>4, Zenon DEF Promise!Store
  <2>6. QED
    BY <2>1, <2>5, Zenon DEF Promise!Next
<1>4. ASSUME NEW r \in Req, pc[r] # "done", reply' = [reply EXCEPT ![r] = None]
      PROVE  UNCHANGED reply
  BY <1>4, Zenon DEF TypeOK, Inv, StageInv
<1>5. QED
  BY <1>1, <1>2, <1>3, <1>4, RowOrReply, Zenon

(* The messages that handleWalletChallenge made are canonical, run for     *)
(* MaxValidityWindow and were not issued in the future.                    *)
IssuedInv ==
    \A m \in held \ ClientMessages :
        /\ m.form = "canonical" /\ m.action = PersistAction
        /\ m.issued \in Nat /\ m.issued <= clock
        /\ m.expires = m.issued + MaxValidityWindow

(* Issue adds such a message; the clock never goes back.                   *)
LEMMA IssuedStep ==
    ASSUME TypeOK, IssuedInv, [Next]_vars
    PROVE  IssuedInv'
<1> USE DEF envVars, storeVars, handlerVars
<1>0. clock \in Nat
  BY Zenon DEF TypeOK
<1>1. ASSUME held' = held, clock' \in {clock, clock + 1}
      PROVE  IssuedInv'
  BY <1>0, <1>1 DEF IssuedInv
<1>2. CASE UNCHANGED vars
  BY <1>1, <1>2, Zenon DEF vars
<1>3. ASSUME NEW r \in Req, ReceiveChallenge(r) \/ ReceivePersist(r) \/ ReceiveQuery(r)
      PROVE  IssuedInv'
  BY <1>1, <1>3, Zenon DEF ReceiveChallenge, ReceivePersist, ReceiveQuery, ReceiveBody
<1>4. ASSUME NEW r \in Req, Issue(r)
      PROVE  IssuedInv'
  <2>1. /\ clock' = clock
        /\ held' = held \/ held' = held \cup {ChallengeFor(task[r].body)}
    BY <1>4, Zenon DEF Issue
  <2>2. CASE held' = held
    BY <1>1, <2>1, <2>2, Zenon
  <2>3. CASE held' = held \cup {ChallengeFor(task[r].body)}
    BY <1>0, <2>1, <2>3 DEF IssuedInv, ChallengeFor
  <2>4. QED
    BY <2>1, <2>2, <2>3, Zenon
<1>5. ASSUME NEW r \in Req, W2(r) \/ Verify(r) \/ Gate(r) \/ Return(r) \/ Unavailable(r)
      PROVE  IssuedInv'
  BY <1>1, <1>5, Zenon DEF W2, Verify, Gate, Return, Unavailable
<1>6. ASSUME \/ \E c \in calls : Serve(c) \/ Lose(c)
             \/ Tick
             \/ \E o \in Owner, w \in Wallet, s \in Scan : ScanCompletes(o, w, s)
      PROVE  IssuedInv'
  BY <1>1, <1>6, Zenon DEF Serve, Lose, Tick, ScanCompletes
<1>7. QED
  BY <1>2, <1>3, <1>4, <1>5, <1>6, Zenon DEF Next, Handler

(* VerifyAuthorization accepts what the signer's wallet was asked to sign, *)
(* from the moment it was issued until it expires.                         *)
LEMMA HonestVerdict ==
    ASSUME NEW t, t.signer = t.body.wallet, t.signer \in Wallet,
           NEW now \in Nat, t.msg.issued \in Nat, t.msg.issued <= now,
           now <= t.msg.expires, t.msg.expires = t.msg.issued + MaxValidityWindow,
           t.msg.form = "canonical", t.msg.action = PersistAction,
           t.msg.domain = t.body.domain, t.msg.wallet = t.body.wallet,
           t.msg.chain = t.body.chain, t.msg.scan = t.body.scan,
           t.msg.sha = DigestOf[t.body.payload]
    PROVE  Verdict(t, now) = Ok
<1>1. validateFreshness(t.msg.issued, t.msg.expires, now) = Ok
  BY WindowAssumption DEF validateFreshness
<1>2. compareBindings(t.msg, Expected(t.body)) = Ok
  BY Zenon DEF compareBindings, Expected
<1>3. IsExpectedMessage(t.msg, Expected(t.body)) /\ t.signer = Expected(t.body).wallet
  BY Zenon DEF IsExpectedMessage, Expected
<1>4. t.signer # Blank /\ t.signer # Invalid /\ t.msg.form # "unparsable"
  BY FlowAssumption, Zenon
<1>5. QED
  BY <1>1, <1>2, <1>3, <1>4, Zenon DEF Verdict, VerifyAuthorization
-------------------------------------------------------------------------------
(* cafe-persistence and the rest of the environment.                       *)

(* Delivering an answer touches the handler that waits for it, or nobody.  *)
LEMMA DeliverFacts ==
    ASSUME TypeOK, NEW c \in calls, NEW a \in Answer, Deliver(c, a)
    PROVE  /\ c \in [by : Req, n : {1, 2}, in : Input \cup Query]
           /\ answer' \in [Req -> Answer \cup {None}]
           /\ \A q \in Req \ {c.by} : answer'[q] = answer[q]
           /\ answer'[c.by] \in {answer[c.by], a}
           /\ pc[c.by] = "wait" /\ try[c.by] = c.n => answer'[c.by] = a
           /\ pc[c.by] # "wait" => answer'[c.by] = answer[c.by]
BY Zenon DEF TypeOK, Deliver

(* A served create becomes a row, or is refused by W1.                     *)
LEMMA ServeCreateInv ==
    ASSUME TypeOK, Inv, NEW c \in calls, Serve(c), ServeCreate(c)
    PROVE  TypeOK' /\ Inv'
<1> DEFINE r == c.by
<1> USE NoneFacts
<1>0. /\ calls' = calls \ {c} /\ Route[r] = "persist"
      /\ UNCHANGED <<clock, latest, completed, held, pc, task, try, reply, since, removed>>
  BY Zenon DEF Serve, ServeCreate, envVars, storeVars
<1>1. r \in Req /\ c \in [by : Req, n : {1, 2}, in : Input \cup Query]
  BY Zenon DEF TypeOK
<1>2. /\ Engaged(c.in) /\ c.n = 1 /\ answer[r] = None
      /\ pc[r] \in {"wait", "done"}
      /\ pc[r] = "done" => reply[r] = "PERSISTENCE_UNAVAILABLE"
  BY <1>0, Zenon DEF Inv, CallInv
<1>3. pc[r] = "wait" => try[r] = 1
  BY <1>0, <1>1, Zenon DEF Inv, StageInv, Waiting
<1>4. (\A x \in created : x.by # r) /\ (\A d \in calls' : d.by # r)
  BY <1>0, Zenon DEF Inv, OnceInv
<1>5. ASSUME NEW a \in {"conflict", "not_found", "forbidden"}, Deliver(c, a),
             UNCHANGED storeVars
      PROVE  TypeOK' /\ Inv'
  <2>1. /\ answer' \in [Req -> Answer \cup {None}]
        /\ \A q \in Req \ {r} : answer'[q] = answer[q]
        /\ answer'[r] \in {None, a} /\ a # Ok
        /\ created' = created /\ nextId' = nextId
    BY <1>2, <1>5, DeliverFacts, Zenon DEF Answer, storeVars, Ok
  <2>2. TypeOK'
    BY <1>0, <2>1, Zenon DEF TypeOK
  <2>3. StageInv'
    BY <1>0, <2>1 DEF Inv, StageInv, Waiting, Verified
  <2>4. CallInv'
    BY <1>0, <1>4, <2>1, <2>2, Zenon DEF TypeOK, Inv, CallInv
  <2>5. RowInv'
    BY <1>0, <1>4, <2>1, Zenon DEF TypeOK, Inv, RowInv
  <2>6. OnceInv'
    BY <1>0, <2>1 DEF Inv, OnceInv, Ok
  <2>7. GoneInv'
    BY <1>0, <2>1, Zenon DEF Inv, GoneInv
  <2>8. QED
    BY <2>2, <2>3, <2>4, <2>5, <2>6, <2>7, Zenon DEF Inv
<1>6. CASE /\ created' = created \cup {RowOf(c)} /\ nextId' = nextId + 1
           /\ Deliver(c, Ok)
  <2> DEFINE x == RowOf(c)
  <2>1. /\ answer' \in [Req -> Answer \cup {None}]
        /\ \A q \in Req \ {r} : answer'[q] = answer[q]
        /\ pc[r] = "wait" => answer'[r] = Ok
        /\ pc[r] # "wait" => answer'[r] = None
    BY <1>2, <1>3, <1>6, DeliverFacts, Zenon DEF Answer
  <2>2. x.id = nextId /\ x.by = r /\ x.in = c.in /\ nextId \in Nat
    BY Zenon DEF RowOf, TypeOK
  <2>3. x \in [id : Nat, by : Req, in : Input]
    BY <1>1, <1>2, <2>2, Zenon DEF RowOf, Engaged
  <2> HIDE DEF x
  <2>4. created' = created \cup {x}
    BY <1>6, Zenon DEF x
  <2>5. TypeOK'
    <3>1. nextId' \in Nat
      BY <1>6, <2>2
    <3>2. created' \subseteq [id : Nat, by : Req, in : Input]
      BY <2>3, <2>4, Zenon DEF TypeOK
    <3>3. QED
      BY <1>0, <2>1, <3>1, <3>2, Zenon DEF TypeOK
  <2>6. StageInv'
    <3>1. ASSUME NEW q \in Req PROVE since[q].nextId <= nextId'
      <4>1. since[q].nextId \in Nat /\ since[q].nextId <= nextId
        BY Zenon DEF TypeOK, Inv, StageInv
      <4>2. QED
        BY <1>6, <2>2, <4>1
    <3>2. ASSUME NEW q \in Req, pc[q] = "wait", Waiting(q)
          PROVE  Waiting(q)'
      BY <1>0, <2>1, <3>2, Zenon DEF Waiting
    <3>3. QED
      BY <1>0, <3>1, <3>2, Zenon DEF Inv, StageInv, Verified
  <2>7. CallInv'
    BY <1>0, <1>4, <2>1, <2>5, Zenon DEF TypeOK, Inv, CallInv
  <2>8. RowInv'
    <3> SUFFICES ASSUME NEW y \in created' PROVE RowInv!(y)'
      BY Zenon DEF RowInv
    <3>1. CASE y = x
      BY <1>0, <1>2, <1>6, <2>1, <2>2, <3>1 DEF Undecided
    <3>2. CASE y \in created
      BY <1>0, <1>4, <1>6, <2>1, <2>2, <3>2 DEF TypeOK, Inv, RowInv
    <3>3. QED
      BY <2>4, <3>1, <3>2, Zenon
  <2>9. OnceInv'
    <3>1. \A y, z \in created' : y.by = z.by => y = z
      BY <1>4, <2>2, <2>4, Zenon DEF Inv, OnceInv
    <3>2. \A y \in created', d \in calls' : y.by # d.by
      BY <1>0, <1>4, <2>2, <2>4 DEF Inv, OnceInv
    <3>3. \A d, e \in calls' : d.by = e.by /\ Route[d.by] = "persist" => d = e
      BY <1>0, Zenon DEF Inv, OnceInv
    <3>4. ASSUME NEW q \in Req, Route[q] = "persist",
                 (pc'[q] = "wait" /\ answer'[q] = Ok) \/ (pc'[q] = "done" /\ reply'[q] = Ok)
          PROVE  \E y \in created' : y.by = q
      <4>1. CASE q = r
        BY <2>2, <2>4, <4>1, Zenon
      <4>2. CASE q # r
        BY <1>0, <2>1, <2>4, <3>4, <4>2 DEF Inv, OnceInv
      <4>3. QED
        BY <4>1, <4>2, Zenon
    <3>5. QED
      BY <3>1, <3>2, <3>3, <3>4, Zenon DEF OnceInv
  <2>10. GoneInv'
    <3> SUFFICES ASSUME NEW q \in Req, NEW y \in created', GoneInv!(q)!(y)!1'
                 PROVE  \E d \in removed : d[1] = y.id
      BY <1>0, Zenon DEF GoneInv
    <3>1. q # r
      BY <1>0, Zenon
    <3>2. y # x
      <4>1. y.id < since[q].nextId
        BY <1>0, Zenon
      <4>2. since[q].nextId \in Nat /\ since[q].nextId <= nextId
        BY Zenon DEF TypeOK, Inv, StageInv
      <4>3. QED
        BY <2>2, <4>1, <4>2
    <3>3. QED
      BY <1>0, <2>1, <2>4, <3>1, <3>2 DEF Inv, GoneInv
  <2>11. QED
    BY <2>5, <2>6, <2>7, <2>8, <2>9, <2>10, Zenon DEF Inv
<1>7. QED
  BY <1>5, <1>6, Zenon DEF ServeCreate, Refused

(* A served GET or DELETE answers, and a delete removes its row.           *)
LEMMA ServeReadInv ==
    ASSUME TypeOK, Inv, NEW c \in calls, Serve(c), ServeById(c) \/ ServeQuery(c)
    PROVE  TypeOK' /\ Inv'
<1> DEFINE r == c.by
<1> USE NoneFacts
<1>0. /\ calls' = calls \ {c} /\ Route[r] # "persist"
      /\ UNCHANGED <<clock, latest, completed, held, pc, task, try, reply, since,
                     created, nextId>>
  BY Zenon DEF Serve, ServeById, ServeQuery, envVars, storeVars
<1>1. /\ r \in Req /\ c \in [by : Req, n : {1, 2}, in : Input \cup Query]
      /\ c.in \in Query /\ (pc[r] = "wait" => c.in = task[r])
  BY <1>0, Zenon DEF TypeOK, Inv, CallInv
<1>2. /\ answer' \in [Req -> Answer \cup {None}]
      /\ \A q \in Req \ {r} : answer'[q] = answer[q]
      /\ pc[r] # "wait" => answer'[r] = answer[r]
      /\ answer'[r] \in {answer[r], Ok, "not_found", "forbidden"}
  <2>1. PICK a \in {Ok, "not_found", "forbidden"} : Deliver(c, a)
    BY Zenon DEF ServeById, ServeQuery, Refused
  <2>2. QED
    BY <2>1, DeliverFacts, Zenon DEF Answer
<1>3. removed \subseteq removed' /\ removed' \subseteq removed \cup {<<c.in.target, r>>}
  BY Zenon DEF ServeById, ServeQuery, storeVars
<1>4. TypeOK'
  <2>1. <<c.in.target, r>> \in Nat \X Req
    BY <1>1 DEF Query
  <2>2. removed' \subseteq Nat \X Req
    BY <1>3, <2>1, Zenon DEF TypeOK
  <2>3. QED
    BY <1>0, <1>2, <2>2, Zenon DEF TypeOK
<1>5. StageInv'
  <2>1. ASSUME NEW q \in Req, Waiting(q)
        PROVE  Waiting(q)'
    <3>1. q = r => answer'[q] # "conflict"
      BY <1>0, <1>2, <2>1, Zenon DEF Waiting, Ok
    <3>2. QED
      BY <1>0, <1>2, <2>1, <3>1, Zenon DEF Waiting
  <2>2. QED
    BY <1>0, <2>1, Zenon DEF Inv, StageInv, Verified
<1>6. CallInv'
  <2> SUFFICES ASSUME NEW d \in calls' PROVE CallInv!(d)'
    BY Zenon DEF CallInv
  <2>1. d \in calls /\ d.by \in Req /\ CallInv!(d)
    BY <1>0, Zenon DEF TypeOK, Inv, CallInv
  <2>2. Route[d.by] = "persist" => answer'[d.by] = answer[d.by]
    BY <1>0, <1>2, <2>1, Zenon
  <2>3. QED
    BY <1>0, <2>1, <2>2, Zenon
<1>7. RowInv' /\ OnceInv'
  BY <1>0, <1>2 DEF TypeOK, Inv, RowInv, OnceInv
<1>8. GoneInv'
  <2> SUFFICES ASSUME NEW q \in Req, NEW x \in created, GoneInv!(q)!(x)!1'
               PROVE  \E d \in removed' : d[1] = x.id
    BY <1>0, Zenon DEF GoneInv
  <2>0. /\ pc[q] = "wait" /\ Route[q] \in {"delete", "get"}
        /\ answer'[q] \in {"not_found", "forbidden"}
        /\ x.id = task[q].target /\ x.id < since[q].nextId
        /\ x.in.owner = task[q].owner
    BY <1>0, Zenon
  <2>1. CASE answer'[q] = answer[q]
    BY <1>3, <2>0, <2>1, Zenon DEF Inv, GoneInv
  <2>2. CASE answer'[q] # answer[q]
    <3>1. q = r /\ c.in = task[q]
      BY <1>1, <1>2, <2>0, <2>2, Zenon
    <3>2. Owned(c.in) = {}
      <4>1. ServeById(c)
        BY <2>0, <3>1, Zenon DEF ServeQuery
      <4>2. CASE Owned(c.in) # {}
        BY <2>0, <2>2, <3>1, <4>1, <4>2, DeliverFacts, Zenon DEF ServeById, Deliver, Answer, Ok, TypeOK
      <4>3. QED
        BY <4>2, Zenon
    <3>3. x \notin Rows
      BY <2>0, <3>1, <3>2, Zenon DEF Owned, Targets
    <3>4. QED
      BY <1>3, <3>3, Zenon DEF Rows
  <2>3. QED
    BY <2>1, <2>2, Zenon
<1>9. QED
  BY <1>4, <1>5, <1>6, <1>7, <1>8, Zenon DEF Inv

(* A lost call leaves its request undecided.                               *)
LEMMA LoseInv ==
    ASSUME TypeOK, Inv, NEW c \in calls, Lose(c)
    PROVE  TypeOK' /\ Inv'
<1>0. /\ calls' = calls \ {c}
      /\ UNCHANGED <<clock, latest, completed, created, removed, nextId, held, pc,
                     task, try, answer, reply, since>>
  BY Zenon DEF Lose, envVars, storeVars, handlerVars
<1>1. TypeOK'
  BY <1>0, Zenon DEF TypeOK
<1>2. StageInv' /\ GoneInv'
  BY <1>0, Zenon DEF Inv, StageInv, Waiting, Verified, GoneInv
<1>3. CallInv' /\ RowInv' /\ OnceInv'
  BY <1>0 DEF Inv, CallInv, RowInv, OnceInv
<1>4. QED
  BY <1>1, <1>2, <1>3, Zenon DEF Inv

(* Time passing takes no evidence away.                                    *)
LEMMA TickInv ==
    ASSUME TypeOK, Inv, Tick
    PROVE  TypeOK' /\ Inv'
<1>0. /\ clock' = clock + 1
      /\ UNCHANGED <<latest, completed, created, removed, nextId, calls, held, pc,
                     task, try, answer, reply, since>>
  BY Zenon DEF Tick, storeVars, handlerVars
<1>1. TypeOK'
  BY <1>0 DEF TypeOK
<1>2. \A r \in Req : Verified(task[r], since[r]) => Verified(task[r], since[r])'
  BY <1>0 DEF TypeOK, Verified
<1>3. StageInv'
  BY <1>0, <1>2 DEF TypeOK, Inv, StageInv, Waiting
<1>4. CallInv' /\ RowInv' /\ OnceInv' /\ GoneInv'
  BY <1>0, Zenon DEF Inv, CallInv, RowInv, OnceInv, GoneInv
<1>5. QED
  BY <1>1, <1>3, <1>4, Zenon DEF Inv

(* A scan that completes is vouched for by every request being served for  *)
(* its wallet.                                                             *)
LEMMA ScanCompletesInv ==
    ASSUME TypeOK, Inv, NEW o \in Owner, NEW w \in Wallet, NEW s \in Scan,
           ScanCompletes(o, w, s)
    PROVE  TypeOK' /\ Inv'
<1>0. /\ completed' = completed \cup {s} /\ latest' = [latest EXCEPT ![<<o, w>>] = s]
      /\ UNCHANGED <<clock, created, removed, nextId, calls, held, pc, task, try,
                     answer, reply>>
  BY Zenon DEF ScanCompletes, storeVars
<1>1. \A r \in Req :
        since'[r] = IF /\ pc[r] \in Engaging
                       /\ task[r].body.owner = o /\ task[r].body.wallet = w
                    THEN [since[r] EXCEPT !.vouched = @ \cup {s}] ELSE since[r]
  BY Zenon DEF ScanCompletes
<1>2. \A r \in Req : /\ since[r] \in [clock : Nat, nextId : Nat, vouched : Seen]
                     /\ since'[r] \in [clock : Nat, nextId : Nat, vouched : Seen]
                     /\ since'[r].clock = since[r].clock
                     /\ since'[r].nextId = since[r].nextId
                     /\ since[r].vouched \subseteq since'[r].vouched
  <2> SUFFICES ASSUME NEW r \in Req PROVE <1>2!(r)
    BY Zenon
  <2>1. since[r] \in [clock : Nat, nextId : Nat, vouched : Seen]
    BY Zenon DEF TypeOK
  <2>2. CASE since'[r] = [since[r] EXCEPT !.vouched = @ \cup {s}]
    <3>1. since[r].vouched \cup {s} \in Seen
      BY <2>1, Zenon DEF Seen
    <3>2. QED
      BY <2>1, <2>2, <3>1, Zenon
  <2>3. CASE since'[r] = since[r]
    BY <2>1, <2>3, Zenon
  <2>4. QED
    BY <1>1, <2>2, <2>3, Zenon
<1>3. TypeOK'
  <2>1. since' \in [Req -> [clock : Nat, nextId : Nat, vouched : Seen]]
    <3>1. DOMAIN since' = Req /\ since' = [r \in Req |-> since'[r]]
      BY Zenon DEF ScanCompletes
    <3>2. QED
      BY <1>2, <3>1, Zenon
  <2>2. QED
    BY <1>0, <2>1, Zenon DEF TypeOK
<1>4. StageInv'
  <2> SUFFICES ASSUME NEW r \in Req PROVE StageInv!(r)'
    BY Zenon DEF StageInv
  <2>1. pc[r] \in Engaging =>
          latest'[<<task[r].body.owner, task[r].body.wallet>>] \in since'[r].vouched
    <3> SUFFICES ASSUME pc[r] \in Engaging
                 PROVE  latest'[<<task[r].body.owner, task[r].body.wallet>>]
                          \in since'[r].vouched
      BY Zenon
    <3>1. /\ task[r].body.owner \in Owner /\ task[r].body.wallet \in Wallet
          /\ latest[<<task[r].body.owner, task[r].body.wallet>>] \in since[r].vouched
      BY Zenon DEF Inv, StageInv, Decoded
    <3>2. CASE task[r].body.owner = o /\ task[r].body.wallet = w
      <4>1. since'[r] = [since[r] EXCEPT !.vouched = @ \cup {s}]
        BY <1>1, <3>2, Zenon
      <4>2. s \in since'[r].vouched
        BY <1>2, <4>1, Zenon
      <4>3. latest'[<<o, w>>] = s
        BY <1>0, Zenon DEF TypeOK
      <4>4. QED
        BY <3>2, <4>2, <4>3, Zenon
    <3>3. CASE ~(task[r].body.owner = o /\ task[r].body.wallet = w)
      BY <1>0, <1>2, <3>1, <3>3 DEF TypeOK
    <3>4. QED
      BY <3>2, <3>3, Zenon
  <2>2. Verified(task[r], since[r]) => Verified(task[r], since[r])'
    BY <1>0, <1>2, Zenon DEF Verified
  <2>3. Waiting(r) => Waiting(r)'
    BY <1>0, Zenon DEF Waiting
  <2>4. QED
    BY <1>0, <1>2, <2>1, <2>2, <2>3, Zenon DEF Inv, StageInv
<1>5. CallInv' /\ RowInv' /\ OnceInv'
  BY <1>0, Zenon DEF Inv, CallInv, RowInv, OnceInv
<1>6. GoneInv'
  BY <1>0, <1>2, Zenon DEF Inv, GoneInv
<1>7. QED
  BY <1>3, <1>4, <1>5, <1>6, Zenon DEF Inv

(* A step that changes nothing preserves the invariant.                    *)
LEMMA StutterInv ==
    ASSUME TypeOK, Inv, UNCHANGED vars
    PROVE  TypeOK' /\ Inv'
<1> USE DEF vars, envVars, storeVars, handlerVars
<1>1. TypeOK'
  BY Zenon DEF TypeOK
<1>2. StageInv' /\ GoneInv'
  BY DEF Inv, StageInv, Waiting, Verified, GoneInv
<1>3. CallInv' /\ RowInv' /\ OnceInv'
  BY Zenon DEF Inv, CallInv, RowInv, OnceInv
<1>4. QED
  BY <1>1, <1>2, <1>3, Zenon DEF Inv
-------------------------------------------------------------------------------

(* Every step of the handlers and of their environment preserves the       *)
(* invariant: one case per action.                                         *)
LEMMA NextInv ==
    ASSUME TypeOK, Inv, [Next]_vars
    PROVE  TypeOK' /\ Inv'
<1>1. ASSUME NEW r \in Req, ReceiveChallenge(r)
      PROVE  TypeOK' /\ Inv'
  BY <1>1, FlowAssumption, ReceiveBodyInv, Zenon DEF ReceiveChallenge, Signer
<1>2. ASSUME NEW r \in Req, ReceivePersist(r)
      PROVE  TypeOK' /\ Inv'
  BY <1>2, FlowAssumption, ReceiveBodyInv, Zenon DEF ReceivePersist, TypeOK
<1>3. ASSUME NEW r \in Req, Handler(r)
      PROVE  TypeOK' /\ Inv'
  BY <1>3, W2Inv, IssueInv, VerifyInv, GateInv, ReturnInv, UnavailableInv, Zenon DEF Handler
<1>4. ASSUME NEW c \in calls, Serve(c)
      PROVE  TypeOK' /\ Inv'
  BY <1>4, ServeCreateInv, ServeReadInv, Zenon DEF Serve
<1>5. QED
  BY <1>1, <1>2, <1>3, <1>4, ReceiveQueryInv, LoseInv, TickInv, ScanCompletesInv,
     StutterInv, Zenon DEF Next
-------------------------------------------------------------------------------
(* The invariant of the owner's routes: TypeOK and the pipeline invariant  *)
(* hold in every reachable state of the handlers and their environment.    *)
THEOREM FlowInvariant == Spec => [](TypeOK /\ Inv)
<1>1. Init => TypeOK /\ Inv
  BY InitInv, Zenon
<1>2. TypeOK /\ Inv /\ [Next]_vars => (TypeOK /\ Inv)'
  BY NextInv, Zenon
<1>3. QED
  BY <1>1, <1>2, PTL DEF Spec

(* Every policy ever stored by POST /policies carries its wallet's         *)
(* engagement: signature, bindings, digest and gates all belong to it.     *)
THEOREM EngagementTheorem == Spec => []EngagementSound
<1>1. Inv => EngagementSound
  BY DEF Inv, RowInv, Engaged, EngagementSound
<1>2. QED
  BY <1>1, FlowInvariant, PTL

(* The authorization of every stored policy was fresh during its request.  *)
THEOREM FreshnessTheorem == Spec => []FreshDuringRequest
<1>1. Inv => FreshDuringRequest
  BY Zenon DEF Inv, RowInv, Engaged, FreshDuringRequest
<1>2. QED
  BY <1>1, FlowInvariant, PTL

(* The same signed message is never used twice further apart than the      *)
(* validity window plus the skew, although challenges are not stored.      *)
THEOREM ReplayTheorem == Spec => []ReplayWindow
<1>1. TypeOK /\ Inv => ReplayWindow
  <2> SUFFICES ASSUME TypeOK, Inv, NEW x \in created, NEW y \in created,
                      x.in.msg = y.in.msg
               PROVE  y.in.from.arrived
                        <= x.in.verifiedAt + MaxValidityWindow + ClockSkew
    BY Zenon DEF ReplayWindow
  <2>1. /\ y.in.from.arrived <= x.in.msg.expires
        /\ x.in.msg.expires - x.in.msg.issued <= MaxValidityWindow
        /\ x.in.msg.issued <= x.in.verifiedAt + ClockSkew
    BY Zenon DEF Inv, RowInv, Engaged
  <2>2. /\ x.in.verifiedAt \in Nat /\ y.in.from.arrived \in Nat
        /\ x.in.msg.issued \in Int /\ x.in.msg.expires \in Int
    BY DEF TypeOK, Input, Message
  <2>3. QED
    BY <2>1, <2>2, WindowAssumption
<1>2. QED
  BY <1>1, FlowInvariant, PTL

(* The scan a stored policy names was the wallet's latest completed scan   *)
(* at some moment of the request that stored it (W2).                      *)
THEOREM LatestScanTheorem == Spec => []ScanLatestDuringRequest
<1>1. Inv => ScanLatestDuringRequest
  BY Zenon DEF Inv, RowInv, Engaged, ScanLatestDuringRequest
<1>2. QED
  BY <1>1, FlowInvariant, PTL

(* No POST /policies stores two policies, whatever is lost or late.        *)
THEOREM AtMostOneTheorem == Spec => []AtMostOnePolicyPerRequest
<1>1. Inv => AtMostOnePolicyPerRequest
  BY Zenon DEF Inv, OnceInv, AtMostOnePolicyPerRequest
<1>2. QED
  BY <1>1, FlowInvariant, PTL

(* A refusal of POST /policies is final: nothing was or will be stored.    *)
THEOREM RefusalTheorem == Spec => []RefusalIsFinal
<1>1. Inv => RefusalIsFinal
  BY Zenon DEF Inv, CallInv, RowInv, RefusalIsFinal, Undecided
<1>2. QED
  BY <1>1, FlowInvariant, PTL

(* A POST /policies answered with 200 stored its policy.                   *)
THEOREM OkTheorem == Spec => []OkMeansPersisted
<1>1. Inv => OkMeansPersisted
  BY FlowAssumption, NoneFacts, Zenon DEF Inv, StageInv, OnceInv, OkMeansPersisted
<1>2. QED
  BY <1>1, FlowInvariant, PTL

(* Only the handler itself replies to a request that waits for an answer.  *)
LEMMA WhoReplies ==
    ASSUME TypeOK, Next, NEW r \in Req, pc[r] = "wait", reply'[r] # reply[r]
    PROVE  Return(r) \/ Unavailable(r)
<1> USE DEF TypeOK, envVars, storeVars, handlerVars
<1>1. ASSUME NEW q \in Req, ReceiveChallenge(q) \/ ReceivePersist(q) \/ ReceiveQuery(q)
      PROVE  FALSE
  <2>1. (\E c : reply' = [reply EXCEPT ![q] = c]) \/ reply' = reply
    BY <1>1, Zenon DEF ReceiveChallenge, ReceivePersist, ReceiveQuery, ReceiveBody, Finish, Send
  <2>2. pc[q] = "idle"
    BY <1>1, Zenon DEF ReceiveChallenge, ReceivePersist, ReceiveQuery, ReceiveBody
  <2>3. QED
    BY <2>1, <2>2
<1>2. ASSUME NEW q \in Req, W2(q) \/ Issue(q) \/ Verify(q) \/ Gate(q)
      PROVE  FALSE
  <2>1. pc[q] # "wait" /\ ((\E c : reply' = [reply EXCEPT ![q] = c]) \/ reply' = reply)
    BY <1>2, Zenon DEF W2, Issue, Verify, Gate, Finish, Goto, Send
  <2>2. QED
    BY <2>1, Zenon
<1>3. ASSUME NEW q \in Req, Return(q) \/ Unavailable(q)
      PROVE  q = r
  <2>1. (\E c : reply' = [reply EXCEPT ![q] = c]) \/ reply' = reply
    BY <1>3, Zenon DEF Return, Unavailable, Finish, Send
  <2>2. QED
    BY <2>1, Zenon
<1>4. ASSUME \/ \E c \in calls : Serve(c) \/ Lose(c)
             \/ Tick
             \/ \E o \in Owner, w \in Wallet, s \in Scan : ScanCompletes(o, w, s)
      PROVE  FALSE
  BY <1>4, Zenon DEF Serve, Lose, Tick, ScanCompletes
<1>5. QED
  BY <1>1, <1>2, <1>3, <1>4 DEF Next, Handler

(* GET and DELETE report not found only for a policy the caller does not   *)
(* have: lost calls, late answers and retries never turn into a 404 for a  *)
(* policy that is still there.                                             *)
THEOREM NotFoundTheorem == Spec => NotFoundMeansGone
<1> DEFINE Honest == \A r \in Req : \A x \in Rows :
                        /\ pc[r] = "wait" /\ reply'[r] = "not_found"
                        /\ x.id = task[r].target /\ x.id < since[r].nextId
                        => x.in.owner # task[r].owner
<1>1. TypeOK /\ Inv /\ [Next]_vars => [Honest]_vars
  <2> SUFFICES ASSUME TypeOK, Inv, Next, NEW r \in Req, NEW x \in Rows,
                      pc[r] = "wait", reply'[r] = "not_found",
                      x.id = task[r].target, x.id < since[r].nextId,
                      x.in.owner = task[r].owner
               PROVE  FALSE
    BY Zenon
  <2>1. reply[r] = None
    BY Zenon DEF Inv, StageInv
  <2>2. Return(r) \/ Unavailable(r)
    BY <2>1, WhoReplies, FlowAssumption, Zenon DEF Code
  <2>3. ~Unavailable(r)
    <3>1. reply \in [Req -> Code \cup {None}] /\ None # "not_found"
      BY NoneFacts, Zenon DEF TypeOK
    <3>2. ASSUME Unavailable(r)
          PROVE  reply' = reply \/ reply' = [reply EXCEPT ![r] = UnavailableReply(Route[r])]
      BY <3>2, Zenon DEF Unavailable, Finish, Send
    <3>3. QED
      BY <2>1, <3>1, <3>2, Zenon DEF UnavailableReply
  <2>4. PICK c \in RepliesTo(Route[r], answer[r]) : reply' = [reply EXCEPT ![r] = c]
    BY <2>2, <2>3, ZenonT(30) DEF Return, Finish
  <2>5. c = "not_found"
    BY <2>4, Zenon DEF TypeOK
  <2>6. answer[r] # None /\ answer[r] \in Answer
    BY <2>2, <2>3, Zenon DEF Return, TypeOK
  <2>7. Waiting(r)
    BY Zenon DEF Inv, StageInv
  <2>8. Route[r] \in {"delete", "get"} /\ answer[r] \in {"not_found", "forbidden"}
    BY <2>4, <2>5, <2>6, <2>7, FlowAssumption DEF RepliesTo, Waiting, Answer, Op, Ok
  <2>9. x \in created /\ \A d \in removed : d[1] # x.id
    BY Zenon DEF Rows
  <2>10. QED
    BY <2>8, <2>9, Zenon DEF Inv, GoneInv
<1>2. QED
  BY <1>1, FlowInvariant, PTL DEF Spec, NotFoundMeansGone

(* POST /policies keeps its promise, whatever is lost, late or served      *)
(* after the handler gave up: to its clients the flow is PersistPromise.   *)
THEOREM PromiseTheorem == Spec => PromiseSpec
<1>1. Init => Promise!Init
  BY Zenon DEF Init, Promise!Init
<1>2. TypeOK /\ Inv /\ [Next]_vars /\ (TypeOK /\ Inv)' => [Promise!Next]_(Promise!vars)
  BY PromiseStep, Zenon
<1>3. QED
  BY <1>1, <1>2, FlowInvariant, PTL DEF Spec, PromiseSpec, Promise!Spec

(* A challenge that is sent back signed, with what it was asked for, is    *)
(* accepted whenever it is read before it expires.                         *)
THEOREM ChallengeTheorem == Spec => []ChallengeIsHonoured
<1>1. Init => IssuedInv
  BY Zenon DEF Init, IssuedInv
<1>2. TypeOK /\ IssuedInv /\ [Next]_vars => IssuedInv'
  BY IssuedStep, Zenon
<1>3. TypeOK /\ Inv /\ IssuedInv => ChallengeIsHonoured
  <2> SUFFICES ASSUME TypeOK, Inv, IssuedInv, NEW r \in Req,
                      pc[r] = "verify", task[r].signer = task[r].body.wallet,
                      task[r].msg \in held \ ClientMessages,
                      clock <= task[r].msg.expires,
                      task[r].msg.domain = task[r].body.domain,
                      task[r].msg.wallet = task[r].body.wallet,
                      task[r].msg.chain = task[r].body.chain,
                      task[r].msg.scan = task[r].body.scan,
                      task[r].msg.sha = DigestOf[task[r].body.payload]
               PROVE  Verdict(task[r], clock) = Ok
    BY Zenon DEF ChallengeIsHonoured
  <2>1. task[r].body.wallet \in Wallet /\ clock \in Nat
    <3>1. clock \in Nat
      BY Zenon DEF TypeOK
    <3>2. pc[r] \in Engaging
      BY Zenon DEF Engaging
    <3>3. Decoded(task[r])
      BY <3>2, Zenon DEF Inv, StageInv
    <3>4. QED
      BY <3>1, <3>3, Zenon DEF Decoded
  <2>2. QED
    BY <2>1, HonestVerdict, Zenon DEF IssuedInv
<1>4. QED
  BY <1>1, <1>2, <1>3, FlowInvariant, PTL DEF Spec

(* Every variable stays in its domain.                                     *)
THEOREM TypeCorrect == Spec => []TypeOK
BY FlowInvariant, PTL
===============================================================================
