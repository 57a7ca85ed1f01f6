------------------------- MODULE AuthMiddleware_proof -------------------------
(***************************************************************************)
(* The theorems about AuthMiddleware.  The invariant says of a request in  *)
(* flight that what holds of it now has been recorded (Recorded) and that  *)
(* the stages before the one it is at have passed (Passed); and of one     *)
(* that is answered, that its answer has its ground (Grounded).  The       *)
(* stages of the assessment route are included for AssessmentRequest.      *)
(***************************************************************************)
EXTENDS AuthMiddleware, TLAPS

Recorded(r) == pc[r] \in InFlight => FactsOf(task[r]) \subseteq since[r]

(* The stages at which something is asked about the scan of a request.     *)
Asking == {"authorize", "detail", "latest", "canread", "source", "publish"}

(* What holds of request r when it is at stage l.                          *)
Passed(r, l) ==
    /\ l \in InFlight \ {"handler"} => Protected
    /\ (Protected /\ l \in InFlight) => task[r].token \in Token
    /\ (Protected /\ l \in InFlight \ {"session"}) =>
          SessionPassed(r) /\ UserOf[task[r].token] # Blank
    /\ l \in Asking => NamedScans(task[r]) = {Named(task[r])}
    /\ l \in {"latest", "publish"} => "session" \in since[r]
    /\ l \in {"detail", "latest", "source", "publish"} => "readable" \in since[r]
    /\ l \in {"latest", "publish"} => "detailed" \in since[r]
    /\ l \in {"canread", "source", "publish"} =>
          task[r].route = "assessment" /\ Named(task[r]) # None
    /\ l = "publish" => WalletOf[Named(task[r])] # None
    /\ (Protected /\ l \in Handling /\ NamesScan(task[r])) =>
          /\ "readable" \in since[r]
          /\ task[r].route = "explore" => {"session", "detailed", "latest"} \subseteq since[r]

(* What must hold for request r to be answered with c.                     *)
Grounded(r, c) ==
    /\ c = "AUTH_UNAUTHENTICATED" =>
          \/ "nosession" \in since[r]
          \/ UserOf[task[r].token] = Blank
          \/ ~TokenHolds(task[r].token)
    /\ c = "AUTHZ_SCAN_FORBIDDEN" => "unreadable" \in since[r]
    /\ c = "not_found" => {"unreadable", "undetailed"} \cap since[r] # {}
    /\ c = "SCAN_NOT_LATEST" => "stale" \in since[r]
    /\ (c \in {"handled", "accepted"} /\ task[r].route \in Owned) => SessionPassed(r)

Good(r) ==
    /\ Recorded(r)
    /\ pc[r] \in InFlight => Passed(r, pc[r])
    /\ pc[r] = "done" => Grounded(r, reply[r])

Inv == \A r \in Req : Good(r)

(* What holds of a request depends on the state of Discovery alone.        *)
LEMMA SameFacts ==
    ASSUME UNCHANGED discovery, NEW q
    PROVE  FactsOf(q)' = FactsOf(q)
BY Zenon DEF discovery, FactsOf, readable, IsDetailed, IsLatest, Named, NamedScans

(* A step of one request leaves the others as they are.                    *)
LEMMA Others ==
    ASSUME TypeOK, Inv, UNCHANGED discovery, NEW r \in Req,
           NEW l, NEW c, NEW t, NEW f,
           pc' = [pc EXCEPT ![r] = l], reply' = [reply EXCEPT ![r] = c],
           task' = [task EXCEPT ![r] = t], since' = [since EXCEPT ![r] = f],
           NEW q \in Req \ {r}
    PROVE  Good(q)'
<1>1. pc'[q] = pc[q] /\ reply'[q] = reply[q] /\ task'[q] = task[q] /\ since'[q] = since[q]
  BY Zenon DEF TypeOK
<1>2. Good(q)
  BY Zenon DEF Inv
<1>3. Recorded(q)'
  <2>1. FactsOf(task[q])' = FactsOf(task[q])
    BY <1>1, SameFacts DEF discovery, FactsOf, readable, IsDetailed, IsLatest, Named, NamedScans
  <2>2. QED
    BY <1>1, <1>2, <2>1, Zenon DEF Good, Recorded
<1>4. pc'[q] \in InFlight => Passed(q, pc[q])'
  BY <1>1, <1>2, Zenon DEF Good, Passed, discovery, Protected, Named, NamedScans, NamesScan, SessionPassed
<1>5. pc'[q] = "done" => Grounded(q, reply[q])'
  BY <1>1, <1>2, Zenon DEF Good, Grounded, discovery, TokenHolds, SessionPassed
<1>6. QED
  BY <1>1, <1>3, <1>4, <1>5, Zenon DEF Good

(* Every name of a code, a stage and a route is itself.                    *)
LEMMA NoneFacts ==
    /\ \A c \in Code : c # None
    /\ \A q \in Inputs : q # None /\ q \in Input
BY MiddlewareAssumption, Zenon

(* A request in flight may be answered with any code that has its ground,  *)
(* and something noted of it at the same time.                             *)
LEMMA FinishNoting ==
    ASSUME TypeOK, Inv, NEW r \in Req, NEW c \in Code, NEW f \in SUBSET Facts,
           pc[r] \in InFlight, Finish(r, c), Grounded(r, c),
           since' = [since EXCEPT ![r] = since[r] \cup f], UNCHANGED discovery
    PROVE  TypeOK' /\ Inv'
<1>0. since' \in [Req -> SUBSET Facts] /\ since'[r] = since[r] \cup f
  BY Zenon DEF TypeOK
<1>1. TypeOK'
  <2>1. /\ pc' \in [Req -> InFlight \cup {"idle", "done"}]
        /\ reply' \in [Req -> Code \cup {None}]
    BY Zenon DEF TypeOK, Finish
  <2>2. \A q \in Req : /\ pc'[q] = "idle" <=> task'[q] = None
                       /\ pc'[q] = "done" <=> reply'[q] # None
    BY NoneFacts, Zenon DEF TypeOK, Finish, InFlight
  <2>3. QED
    BY <1>0, <2>1, <2>2, Zenon DEF TypeOK, Finish, discovery
<1>2. Good(r)'
  <2>1. pc'[r] = "done" /\ reply'[r] = c
    BY Zenon DEF TypeOK, Finish
  <2>2. Grounded(r, c)'
    BY <1>0, Zenon DEF Grounded, Finish, discovery, TokenHolds, SessionPassed
  <2>3. QED
    BY <2>1, <2>2, Zenon DEF Good, Recorded, InFlight
<1>3. \A q \in Req \ {r} : Good(q)'
  <2>1. task' = [task EXCEPT ![r] = task[r]]
    BY Zenon DEF Finish, TypeOK
  <2>2. QED
    BY <2>1, Others, Zenon DEF Finish
<1>4. QED
  BY <1>1, <1>2, <1>3, Zenon DEF Inv

(* A request in flight may proceed to any stage whose predecessors passed, *)
(* and something be noted of it at the same time.                          *)
LEMMA GotoNoting ==
    ASSUME TypeOK, Inv, NEW r \in Req, NEW l \in InFlight, NEW f \in SUBSET Facts,
           pc[r] \in InFlight, Goto(r, l), Passed(r, l)',
           since' = [since EXCEPT ![r] = since[r] \cup f], UNCHANGED discovery
    PROVE  TypeOK' /\ Inv'
<1>0. since' \in [Req -> SUBSET Facts] /\ since'[r] = since[r] \cup f
  BY Zenon DEF TypeOK
<1>1. TypeOK'
  <2>1. pc' \in [Req -> InFlight \cup {"idle", "done"}]
    BY Zenon DEF TypeOK, Goto
  <2>2. \A q \in Req : /\ pc'[q] = "idle" <=> task'[q] = None
                       /\ pc'[q] = "done" <=> reply'[q] # None
    BY Zenon DEF TypeOK, Goto, InFlight
  <2>3. QED
    BY <1>0, <2>1, <2>2, Zenon DEF TypeOK, Goto, discovery
<1>2. Good(r)'
  <2>1. pc'[r] = l /\ l # "done"
    BY Zenon DEF TypeOK, Goto, InFlight
  <2>2. FactsOf(task[r])' = FactsOf(task[r])
    BY Zenon DEF Goto, discovery, FactsOf, readable, IsDetailed, IsLatest, Named, NamedScans
  <2>3. FactsOf(task[r]) \subseteq since[r]
    BY Zenon DEF Inv, Good, Recorded
  <2>4. QED
    BY <1>0, <2>1, <2>2, <2>3, Zenon DEF Good, Recorded
<1>3. \A q \in Req \ {r} : Good(q)'
  <2>1. /\ task' = [task EXCEPT ![r] = task[r]]
        /\ reply' = [reply EXCEPT ![r] = reply[r]]
    BY Zenon DEF Goto, TypeOK
  <2>2. QED
    BY <2>1, Others, Zenon DEF Goto
<1>4. QED
  BY <1>1, <1>2, <1>3, Zenon DEF Inv

(* The steps in which nothing is noted.                                    *)
LEMMA NothingNoted ==
    ASSUME TypeOK, NEW r \in Req, UNCHANGED since
    PROVE  since' = [since EXCEPT ![r] = since[r] \cup {}]
BY Zenon DEF TypeOK

LEMMA FinishInv ==
    ASSUME TypeOK, Inv, NEW r \in Req, NEW c \in Code, pc[r] \in InFlight,
           Finish(r, c), Grounded(r, c), UNCHANGED <<discovery, since>>
    PROVE  TypeOK' /\ Inv'
<1>1. {} \in SUBSET Facts
  BY Zenon
<1>2. QED
  BY <1>1, NothingNoted, FinishNoting, Zenon

LEMMA GotoInv ==
    ASSUME TypeOK, Inv, NEW r \in Req, NEW l \in InFlight, pc[r] \in InFlight,
           Goto(r, l), Passed(r, l), UNCHANGED <<discovery, since>>
    PROVE  TypeOK' /\ Inv'
<1>1. {} \in SUBSET Facts
  BY Zenon
<1>2. Passed(r, l)'
  BY Zenon DEF Passed, Goto, discovery, Protected, Named, NamedScans, NamesScan, SessionPassed
<1>3. QED
  BY <1>1, <1>2, NothingNoted, GotoNoting, Zenon

(* What is recorded of a request in flight, by what holds of it now.       *)
LEMMA NowHolds ==
    ASSUME TypeOK, Inv, NEW r \in Req, pc[r] \in InFlight, task[r].token \in Token
    PROVE  LET u == UserOf[task[r].token]
               s == Named(task[r])
           IN  /\ (IF task[r].token \in sessions THEN "session" ELSE "nosession") \in since[r]
               /\ NamedScans(task[r]) = {s} =>
                     (IF readable(u, s) THEN "readable" ELSE "unreadable") \in since[r]
               /\ (IF IsDetailed(s) THEN "detailed" ELSE "undetailed") \in since[r]
               /\ (IF u # Blank /\ IsLatest(u, s) THEN "latest" ELSE "stale") \in since[r]
<1>1. FactsOf(task[r]) \subseteq since[r]
  BY Zenon DEF Inv, Good, Recorded
<1>2. QED
  BY <1>1, Zenon DEF FactsOf

(* A request in flight has an input, and is past what its stage implies.   *)
LEMMA AtStage ==
    ASSUME TypeOK, Inv, NEW r \in Req, pc[r] \in InFlight
    PROVE  task[r] \in Input /\ Passed(r, pc[r])
BY NoneFacts, Zenon DEF TypeOK, Inv, Good, InFlight

LEMMA ReceiveInv ==
    ASSUME TypeOK, Inv, NEW r \in Req, NEW q \in Inputs, Receive(r, q)
    PROVE  TypeOK' /\ Inv'
<1> DEFINE code == IF q.route = "public" THEN "handled"
                   ELSE IF q.route = "unknown"
                   THEN IF Protected THEN "AUTH_ROUTE_NOT_ENABLED" ELSE "route_not_found"
                   ELSE IF Protected /\ ~TokenHolds(q.token) THEN "AUTH_UNAUTHENTICATED"
                   ELSE None
           l == IF code # None THEN "done" ELSE IF Protected THEN "session" ELSE "handler"
<1>1. /\ pc' = [pc EXCEPT ![r] = l] /\ reply' = [reply EXCEPT ![r] = code]
      /\ task' = [task EXCEPT ![r] = q] /\ since' = [since EXCEPT ![r] = FactsOf(q)]
      /\ UNCHANGED discovery
  BY Zenon DEF Receive
<1>2. code \in Code \cup {None} /\ (l = "done" <=> code # None)
      /\ l \in {"done", "session", "handler"}
  BY NoneFacts, Zenon DEF Code
<1>3. q # None /\ q \in Input
  BY NoneFacts, Zenon
<1>4. FactsOf(q) \in SUBSET Facts
  BY Zenon DEF FactsOf, Facts
<1>5. TypeOK'
  <2>1. /\ pc' \in [Req -> InFlight \cup {"idle", "done"}]
        /\ reply' \in [Req -> Code \cup {None}]
        /\ task' \in [Req -> Inputs \cup {None}]
        /\ since' \in [Req -> SUBSET Facts]
    BY <1>1, <1>2, <1>4, Zenon DEF TypeOK, InFlight
  <2>2. \A p \in Req : /\ pc'[p] = "idle" <=> task'[p] = None
                       /\ pc'[p] = "done" <=> reply'[p] # None
    <3>1. /\ pc'[r] = l /\ task'[r] = q /\ reply'[r] = code
          /\ \A p \in Req \ {r} : pc'[p] = pc[p] /\ task'[p] = task[p] /\ reply'[p] = reply[p]
      BY <1>1, Zenon DEF TypeOK
    <3> HIDE DEF l, code
    <3>2. QED
      BY <1>2, <1>3, <3>1 DEF TypeOK
  <2>3. QED
    BY <1>1, <2>1, <2>2, Zenon DEF TypeOK, discovery
<1>6. Good(r)'
  <2>1. pc'[r] = l /\ reply'[r] = code /\ task'[r] = q /\ since'[r] = FactsOf(q)
    BY <1>1, Zenon DEF TypeOK
  <2>2. env' = env /\ clock' = clock /\ l' = l /\ code' = code
    BY <1>1, Zenon DEF discovery, Protected, TokenHolds
  <2>3. FactsOf(q)' = FactsOf(q)
    BY <1>1, SameFacts, Zenon
  <2>4. /\ l = "session" => Protected /\ q.token \in Token
        /\ l = "handler" => ~Protected
    BY NoneFacts, Zenon DEF TokenHolds, Code
  <2>5. /\ code = "AUTH_UNAUTHENTICATED" => ~TokenHolds(q.token)
        /\ code = "handled" => q.route = "public"
        /\ code \notin {"AUTHZ_SCAN_FORBIDDEN", "not_found", "SCAN_NOT_LATEST", "accepted"}
    BY NoneFacts, Zenon DEF Code
  <2> HIDE DEF l, code
  <2>6. FactsOf(task[r])' = FactsOf(q)
    BY <2>1, <2>3, ZenonT(30) DEF FactsOf, readable, IsDetailed, IsLatest, Named, NamedScans
  <2>7. l \in InFlight => Passed(r, l)'
    BY <1>2, <2>1, <2>2, <2>4, Zenon DEF Passed, Protected, InFlight, Handling, Asking
  <2>8. l = "done" => Grounded(r, code)'
    BY <2>1, <2>2, <2>5, Zenon DEF Grounded, TokenHolds, Owned
  <2>9. QED
    BY <1>2, <2>1, <2>2, <2>6, <2>7, <2>8, Zenon DEF Good, Recorded
<1>7. \A p \in Req \ {r} : Good(p)'
  <2> HIDE DEF l, code
  <2>1. QED
    BY <1>1, Others, Zenon
<1>8. QED
  BY <1>5, <1>6, <1>7, Zenon DEF Inv

(* A request that names a scan and is not refused for it names one scan.   *)
LEMMA OneScanNamed ==
    ASSUME NEW q \in Input, scanRefusal(q) = None, NamesScan(q)
    PROVE  NamedScans(q) = {Named(q)}
<1>1. /\ q.scan \in Id \cup {Blank, Invalid} /\ q.context \in Id \cup {Blank, Invalid}
      /\ Blank \notin Id /\ Invalid \notin Id
  BY MiddlewareAssumption, Zenon DEF Input
<1>2. CASE q.route = "list"
  <2>1. q.scan \in Id /\ q.route \notin WithBody
    BY <1>1, <1>2, MiddlewareAssumption DEF scanRefusal, queryRefusal, NamesScan, WithBody, Code
  <2>2. QED
    BY <2>1, Zenon DEF NamedScans, Named
<1>3. CASE q.route # "list"
  <2>1. q.route \in WithBody /\ {q.scan, q.context} \cap Id # {} /\ bodyRefusal(q) = None
    BY <1>3, Zenon DEF NamesScan, scanRefusal
  <2>2. Invalid \notin {q.scan, q.context}
        /\ ~({q.scan, q.context} \subseteq Id /\ q.scan # q.context)
    BY <1>3, <2>1, MiddlewareAssumption DEF bodyRefusal, NamesScan, Code
  <2>3. CASE q.scan \in Id
    <3>1. Id \cap {q.scan, q.context} = {q.scan}
      BY <1>1, <2>2, <2>3
    <3>2. QED
      BY <2>1, <2>3, <3>1, Zenon DEF NamedScans, Named
  <2>4. CASE q.scan \notin Id
    <3>1. q.context \in Id /\ Id \cap {q.scan, q.context} = {q.context}
      BY <2>1, <2>4
    <3>2. QED
      BY <2>1, <2>4, <3>1, Zenon DEF NamedScans, Named
  <2>5. QED
    BY <2>3, <2>4, Zenon
<1>4. QED
  BY <1>2, <1>3, Zenon

LEMMA ValidateSessionInv ==
    ASSUME TypeOK, Inv, NEW r \in Req, ValidateSession(r)
    PROVE  TypeOK' /\ Inv'
<1> DEFINE q == task[r]
<1>1. pc[r] = "session" /\ UNCHANGED discovery /\ pc[r] \in InFlight
  BY Zenon DEF ValidateSession, InFlight
<1>2. q \in Input /\ Protected /\ q.token \in Token
  BY <1>1, AtStage, Zenon DEF Passed, InFlight
<1>3. PICK answer \in SessionAnswers(q.token) :
          /\ \/ Finish(r, "AUTH_VALIDATION_UNAVAILABLE")
             \/ answer = "refused" /\ Finish(r, "AUTH_UNAUTHENTICATED")
             \/ answer \notin {"none", "refused"} /\ SessionAccepted(r)
          /\ since' = [since EXCEPT ![r] = since[r] \cup ({answer} \cap {"unread"})]
  BY Zenon DEF ValidateSession, validateTokenWithDiscovery
<1> DEFINE f == {answer} \cap {"unread"}
<1>4. f \in SUBSET Facts /\ since' = [since EXCEPT ![r] = since[r] \cup f]
  BY <1>3, Zenon DEF Facts
<1>5. since'[r] = since[r] \cup f
  BY <1>4, Zenon DEF TypeOK
<1>6. CASE Finish(r, "AUTH_VALIDATION_UNAVAILABLE")
  <2>1. Grounded(r, "AUTH_VALIDATION_UNAVAILABLE") /\ "AUTH_VALIDATION_UNAVAILABLE" \in Code
    BY Zenon DEF Grounded, Code
  <2> HIDE DEF f
  <2>2. QED
    BY <1>1, <1>4, <1>6, <2>1, FinishNoting, Zenon
<1>7. CASE answer = "refused" /\ Finish(r, "AUTH_UNAUTHENTICATED")
  <2>1. q.token \notin sessions
    BY <1>3, <1>7, Zenon DEF SessionAnswers
  <2>2. Grounded(r, "AUTH_UNAUTHENTICATED") /\ "AUTH_UNAUTHENTICATED" \in Code
    BY <1>1, <1>2, <2>1, NowHolds, Zenon DEF Grounded, Code
  <2> HIDE DEF f
  <2>3. QED
    BY <1>1, <1>4, <1>7, <2>2, FinishNoting, Zenon
<1>8. CASE answer \notin {"none", "refused"} /\ SessionAccepted(r)
  <2>1. SessionPassed(r)'
    <3>1. CASE answer = "unread"
      BY <1>5, <3>1, Zenon DEF SessionPassed
    <3>2. CASE answer = "accepted"
      <4>1. q.token \in sessions
        BY <1>3, <3>2, Zenon DEF SessionAnswers
      <4>2. "session" \in since[r]
        BY <1>1, <1>2, <4>1, NowHolds, Zenon
      <4>3. QED
        BY <1>5, <4>2, Zenon DEF SessionPassed
    <3>3. answer \in {"unread", "accepted"}
      BY <1>3, <1>8, Zenon DEF SessionAnswers
    <3>4. QED
      BY <3>1, <3>2, <3>3, Zenon
  <2> HIDE DEF f
  <2>2. CASE UserOf[q.token] = Blank
    <3>1. Grounded(r, "AUTH_UNAUTHENTICATED") /\ "AUTH_UNAUTHENTICATED" \in Code
          /\ Finish(r, "AUTH_UNAUTHENTICATED")
      BY <1>8, <2>2, Zenon DEF Grounded, Code, SessionAccepted
    <3>2. QED
      BY <1>1, <1>4, <3>1, FinishNoting, Zenon
  <2>3. CASE UserOf[q.token] # Blank /\ scanRefusal(q) # None
    <3>1. /\ Finish(r, scanRefusal(q))
          /\ scanRefusal(q) \in {"AUTHZ_SCAN_PAYLOAD_READ_FAILED", "AUTHZ_SCAN_ID_MALFORMED",
                                 "AUTHZ_SCAN_ID_CONFLICT"}
      BY <1>8, <2>3, Zenon DEF SessionAccepted, scanRefusal, bodyRefusal, queryRefusal
    <3>2. Grounded(r, scanRefusal(q)) /\ scanRefusal(q) \in Code
      BY <3>1, Zenon DEF Grounded, Code
    <3>3. QED
      BY <1>1, <1>4, <3>1, <3>2, FinishNoting, Zenon
  <2>4. CASE UserOf[q.token] # Blank /\ scanRefusal(q) = None
    <3>1. Goto(r, IF NamesScan(q) THEN "authorize" ELSE "handler")
      BY <1>8, <2>4, Zenon DEF SessionAccepted
    <3>2. task' = task /\ env' = env
      BY <1>1, <3>1, Zenon DEF Goto, discovery
    <3>3. NamesScan(q) => Passed(r, "authorize")'
      <4>1. NamesScan(q) => NamedScans(q) = {Named(q)}
        BY <1>2, <2>4, OneScanNamed, Zenon
      <4>2. QED
        BY <1>2, <2>1, <2>4, <3>2, <4>1, Zenon
           DEF Passed, InFlight, Handling, Asking, Protected, Named, NamedScans
    <3>4. ~NamesScan(q) => Passed(r, "handler")'
      BY <1>2, <2>1, <2>4, <3>2, Zenon
         DEF Passed, InFlight, Handling, Asking, Protected, NamesScan
    <3>5. {"authorize", "handler"} \subseteq InFlight
      BY Zenon DEF InFlight
    <3>6. QED
      BY <1>1, <1>4, <3>1, <3>3, <3>4, <3>5, GotoNoting, Zenon
  <2>5. QED
    BY <2>2, <2>3, <2>4, Zenon
<1>9. QED
  BY <1>3, <1>6, <1>7, <1>8, Zenon

LEMMA AuthorizeScanInv ==
    ASSUME TypeOK, Inv, NEW r \in Req, AuthorizeScan(r)
    PROVE  TypeOK' /\ Inv'
<1> DEFINE s == Named(task[r])
<1>1. pc[r] = "authorize" /\ UNCHANGED <<discovery, since>> /\ pc[r] \in InFlight
  BY Zenon DEF AuthorizeScan, InFlight
<1>2. /\ task[r] \in Input /\ Protected /\ task[r].token \in Token
      /\ SessionPassed(r) /\ UserOf[task[r].token] # Blank
      /\ NamedScans(task[r]) = {s}
  BY <1>1, AtStage, Zenon DEF Passed, InFlight, Asking
<1>3. CASE Finish(r, "AUTHZ_SCAN_UNAVAILABLE")
  BY <1>1, <1>3, FinishInv, Zenon DEF Grounded, Code
<1>4. CASE ~readable(Principal(r), s) /\ Finish(r, "AUTHZ_SCAN_FORBIDDEN")
  <2>1. Grounded(r, "AUTHZ_SCAN_FORBIDDEN")
    BY <1>1, <1>2, <1>4, NowHolds, Zenon DEF Grounded, Principal
  <2>2. QED
    BY <1>1, <1>4, <2>1, FinishInv, Zenon DEF Code
<1>5. CASE /\ readable(Principal(r), s)
           /\ Goto(r, IF task[r].route = "explore" /\ s # None THEN "detail" ELSE "handler")
  <2>1. "readable" \in since[r] /\ s # None
    BY <1>1, <1>2, <1>5, NowHolds, Zenon DEF Principal, readable
  <2>2. Passed(r, "detail")
    BY <1>2, <2>1, Zenon DEF Passed, InFlight, Handling, Asking
  <2>3. task[r].route # "explore" => Passed(r, "handler")
    BY <1>2, <2>1, Zenon DEF Passed, InFlight, Handling, Asking
  <2>4. {"detail", "handler"} \subseteq InFlight
    BY Zenon DEF InFlight
  <2>5. QED
    BY <1>1, <1>5, <2>1, <2>2, <2>3, <2>4, GotoInv, Zenon
<1>6. QED
  BY <1>3, <1>4, <1>5, Zenon DEF AuthorizeScan

LEMMA FetchTargetInv ==
    ASSUME TypeOK, Inv, NEW r \in Req, FetchTarget(r)
    PROVE  TypeOK' /\ Inv'
<1> DEFINE s == Named(task[r])
<1>1. pc[r] = "detail" /\ UNCHANGED <<discovery, since>> /\ pc[r] \in InFlight
  BY Zenon DEF FetchTarget, InFlight
<1>2. /\ task[r] \in Input /\ Protected /\ task[r].token \in Token
      /\ SessionPassed(r) /\ UserOf[task[r].token] # Blank
      /\ NamedScans(task[r]) = {s}
      /\ "readable" \in since[r]
  BY <1>1, AtStage, Zenon DEF Passed, InFlight, Asking
<1>3. CASE Finish(r, "DISCOVERY_UNAVAILABLE")
  BY <1>1, <1>3, FinishInv, Zenon DEF Grounded, Code
<1>4. CASE /\ DetailStatus(r) = 404 \/ (DetailStatus(r) = 200 /\ ~IsDetailed(s))
           /\ Finish(r, "not_found")
  <2>1. ~readable(Principal(r), s) \/ ~IsDetailed(s)
    BY <1>4 DEF DetailStatus
  <2>2. "unreadable" \in since[r] \/ "undetailed" \in since[r]
    BY <1>1, <1>2, <2>1, NowHolds, Zenon DEF Principal
  <2>3. Grounded(r, "not_found")
    BY <2>2, Zenon DEF Grounded
  <2>4. QED
    BY <1>1, <1>4, <2>3, FinishInv, Zenon DEF Code
<1>5. CASE DetailStatus(r) = 200 /\ IsDetailed(s) /\ Goto(r, "latest")
  <2>1. "detailed" \in since[r]
    BY <1>1, <1>2, <1>5, NowHolds, Zenon
  <2>2. "session" \in since[r]
    <3>1. task[r].token \in sessions
      BY <1>5 DEF DetailStatus
    <3>2. QED
      BY <1>1, <1>2, <3>1, NowHolds, Zenon
  <2>3. Passed(r, "latest")
    BY <1>2, <2>1, <2>2, Zenon DEF Passed, InFlight, Handling, Asking
  <2>4. QED
    BY <1>1, <1>5, <2>3, GotoInv, Zenon DEF InFlight
<1>6. QED
  BY <1>3, <1>4, <1>5, Zenon DEF FetchTarget

LEMMA RequireLatestInv ==
    ASSUME TypeOK, Inv, NEW r \in Req, RequireLatest(r)
    PROVE  TypeOK' /\ Inv'
<1> DEFINE s == Named(task[r])
<1>1. pc[r] = "latest" /\ UNCHANGED <<discovery, since>> /\ pc[r] \in InFlight
  BY Zenon DEF RequireLatest, InFlight
<1>2. /\ task[r] \in Input /\ Protected /\ task[r].token \in Token
      /\ SessionPassed(r) /\ UserOf[task[r].token] # Blank
      /\ NamedScans(task[r]) = {s}
      /\ {"session", "readable", "detailed"} \subseteq since[r]
  BY <1>1, AtStage, Zenon DEF Passed, InFlight, Asking
<1>3. CASE Finish(r, "DISCOVERY_UNAVAILABLE")
  BY <1>1, <1>3, FinishInv, Zenon DEF Grounded, Code
<1>4. CASE ~IsLatest(Principal(r), s) /\ Finish(r, "SCAN_NOT_LATEST")
  <2>1. Grounded(r, "SCAN_NOT_LATEST")
    BY <1>1, <1>2, <1>4, NowHolds, Zenon DEF Grounded, Principal
  <2>2. QED
    BY <1>1, <1>4, <2>1, FinishInv, Zenon DEF Code
<1>5. CASE IsLatest(Principal(r), s) /\ Goto(r, "handler")
  <2>1. "latest" \in since[r]
    BY <1>1, <1>2, <1>5, NowHolds, Zenon DEF Principal
  <2>2. Passed(r, "handler")
    BY <1>2, <2>1, Zenon DEF Passed, InFlight, Handling, Asking
  <2>3. QED
    BY <1>1, <1>5, <2>2, GotoInv, Zenon DEF InFlight
<1>6. QED
  BY <1>3, <1>4, <1>5, Zenon DEF RequireLatest

LEMMA ServeInv ==
    ASSUME TypeOK, Inv, NEW r \in Req, Serve(r)
    PROVE  TypeOK' /\ Inv'
<1> DEFINE code == IF task[r].route \in Owned /\ ~Protected
                   THEN "AUTHZ_PRINCIPAL_REQUIRED" ELSE "handled"
<1>1. /\ pc[r] = "handler" /\ pc[r] \in InFlight /\ Finish(r, code)
      /\ UNCHANGED <<discovery, since>>
  BY Zenon DEF Serve, InFlight
<1>2. Protected => SessionPassed(r)
  BY <1>1, AtStage, Zenon DEF Passed, InFlight
<1>3. Grounded(r, code) /\ code \in Code
  BY <1>2, Zenon DEF Grounded, Code
<1>4. QED
  BY <1>1, <1>3, FinishInv, Zenon

LEMMA MiddlewareInv ==
    ASSUME TypeOK, Inv, NEW r \in Req, Middleware(r)
    PROVE  TypeOK' /\ Inv'
BY ValidateSessionInv, AuthorizeScanInv, FetchTargetInv, RequireLatestInv, ServeInv, Zenon DEF Middleware

LEMMA FactsType ==
    ASSUME NEW q
    PROVE  FactsOf(q) \in SUBSET Facts /\ FactsOf(q)' \in SUBSET Facts
BY Zenon DEF FactsOf, Facts

(* A step of Discovery adds to what is recorded and changes nothing else   *)
(* of a request.                                                           *)
LEMMA WitnessInv ==
    ASSUME TypeOK, Inv, UNCHANGED <<env, clock, handlers>>, Witness,
           sessions' \subseteq Token,
           scans' \in [Scan -> {"none", "running", "completed", "deleted"}],
           latest' \in [User \X Wallet -> Scan \cup {None}]
    PROVE  TypeOK' /\ Inv'
<1>1. since' \in [Req -> SUBSET Facts]
  BY FactsType, Zenon DEF Witness, TypeOK
<1>2. TypeOK'
  BY <1>1, Zenon DEF TypeOK, handlers
<1>3. ASSUME NEW r \in Req
      PROVE  Good(r)'
  <2>1. pc'[r] = pc[r] /\ task'[r] = task[r] /\ reply'[r] = reply[r]
    BY Zenon DEF handlers
  <2>2. since'[r] = IF pc[r] \in InFlight THEN since[r] \cup FactsOf(task[r])' ELSE since[r]
    BY <1>3, Zenon DEF Witness
  <2>3. Good(r)
    BY Zenon DEF Inv
  <2>4. Recorded(r)'
    BY <2>1, <2>2, Zenon DEF Recorded
  <2>5. pc[r] \in InFlight => Passed(r, pc[r])'
    <3> HIDE DEF Witness
    <3>1. since[r] \subseteq since'[r]
      BY <2>2, Zenon
    <3>2. QED
      BY <2>1, <2>3, <3>1, Zenon DEF Good, Passed, Protected, Named, NamedScans, NamesScan, SessionPassed
  <2>6. pc[r] = "done" => Grounded(r, reply[r])'
    <3>1. since[r] \subseteq since'[r]
      BY <2>2, Zenon
    <3>2. QED
      BY <2>1, <2>3, <3>1, Zenon DEF Good, Grounded, TokenHolds, SessionPassed
  <2>7. QED
    BY <2>1, <2>4, <2>5, <2>6, Zenon DEF Good
<1>4. QED
  BY <1>2, <1>3, Zenon DEF Inv

LEMMA TickInv ==
    ASSUME TypeOK, Inv, Tick
    PROVE  TypeOK' /\ Inv'
<1>1. clock' = clock + 1 /\ clock' \in 0..MaxClock /\ clock \in Nat
  BY MiddlewareAssumption DEF Tick, TypeOK
<1>2. TypeOK'
  BY <1>1, Zenon DEF Tick, TypeOK, handlers
<1>3. ASSUME NEW r \in Req
      PROVE  Good(r)'
  <2>1. Good(r)
    BY Zenon DEF Inv
  <2>2. FactsOf(task[r])' = FactsOf(task[r])
    BY Zenon DEF Tick, handlers, FactsOf, readable, IsDetailed, IsLatest, Named, NamedScans
  <2>3. Recorded(r)'
    BY <2>1, <2>2, Zenon DEF Good, Recorded, Tick, handlers
  <2>4. pc[r] \in InFlight => Passed(r, pc[r])'
    BY <2>1, Zenon DEF Good, Passed, Protected, Named, NamedScans, NamesScan, SessionPassed, Tick, handlers
  <2>5. ~TokenHolds(task[r].token) => ~TokenHolds(task[r].token)'
    <3>1. task' = task
      BY Zenon DEF Tick, handlers
    <3>2. task[r].token \in Token => ExpiryOf[task[r].token] \in Int /\ Leeway \in Int
      BY MiddlewareAssumption
    <3>3. QED
      BY <1>1, <3>1, <3>2 DEF TokenHolds
  <2>6. pc[r] = "done" => Grounded(r, reply[r])'
    BY <2>1, <2>5, Zenon DEF Good, Grounded, SessionPassed, Tick, handlers
  <2>7. QED
    BY <2>3, <2>4, <2>6, Zenon DEF Good, Tick, handlers
<1>4. QED
  BY <1>2, <1>3, Zenon DEF Inv

LEMMA SurroundingsInv ==
    ASSUME TypeOK, Inv, Surroundings
    PROVE  TypeOK' /\ Inv'
<1>1. CASE Tick
  BY <1>1, TickInv, Zenon
<1>2. ASSUME NEW t \in Token, SessionEnds(t)
      PROVE  TypeOK' /\ Inv'
  BY <1>2, WitnessInv, Zenon DEF SessionEnds, TypeOK
<1>3. ASSUME NEW s \in Scan, ScanStarts(s)
      PROVE  TypeOK' /\ Inv'
  BY <1>3, WitnessInv, Zenon DEF ScanStarts, TypeOK
<1>4. ASSUME NEW s \in Scan, ScanCompletes(s)
      PROVE  TypeOK' /\ Inv'
  <2>1. OwnerOf[s] \in User /\ WalletOf[s] \in Wallet \cup {None}
    BY MiddlewareAssumption, Zenon
  <2>2. latest' \in [User \X Wallet -> Scan \cup {None}]
    BY <1>4, <2>1, Zenon DEF ScanCompletes, TypeOK
  <2>3. scans' \in [Scan -> {"none", "running", "completed", "deleted"}]
    BY <1>4, Zenon DEF ScanCompletes, TypeOK
  <2>4. QED
    BY <1>4, <2>2, <2>3, WitnessInv, Zenon DEF ScanCompletes, TypeOK
<1>5. ASSUME NEW s \in Scan, ScanDeleted(s)
      PROVE  TypeOK' /\ Inv'
  <2>1. OwnerOf[s] \in User /\ WalletOf[s] \in Wallet \cup {None}
    BY MiddlewareAssumption, Zenon
  <2>2. latest' = latest \/ \E o \in Scan \cup {None} :
                               latest' = [latest EXCEPT ![<<OwnerOf[s], WalletOf[s]>>] = o]
    BY <1>5, Zenon DEF ScanDeleted
  <2>3. latest' \in [User \X Wallet -> Scan \cup {None}]
    BY <2>1, <2>2, Zenon DEF TypeOK
  <2>4. scans' \in [Scan -> {"none", "running", "completed", "deleted"}]
    BY <1>5, Zenon DEF ScanDeleted, TypeOK
  <2>5. QED
    BY <1>5, <2>3, <2>4, WitnessInv, Zenon DEF ScanDeleted, TypeOK
<1>6. QED
  BY <1>1, <1>2, <1>3, <1>4, <1>5, Zenon DEF Surroundings

LEMMA InitInv == Init => TypeOK /\ Inv
BY MiddlewareAssumption
   DEF Init, TypeOK, Inv, Good, Recorded, InFlight, Code, Facts

LEMMA StutterInv ==
    ASSUME TypeOK, Inv, UNCHANGED vars
    PROVE  TypeOK' /\ Inv'
<1>1. TypeOK'
  BY Zenon DEF TypeOK, vars, discovery, handlers
<1>2. ASSUME NEW r \in Req
      PROVE  Good(r)'
  <2>1. Good(r) /\ FactsOf(task[r])' = FactsOf(task[r])
    BY Zenon DEF Inv, vars, discovery, handlers, FactsOf, readable, IsDetailed, IsLatest, Named, NamedScans
  <2>2. QED
    BY <2>1 DEF Good, Recorded, Passed, Grounded, Protected, Named, NamedScans, NamesScan, TokenHolds,
                SessionPassed,
                vars, discovery, handlers
<1>3. QED
  BY <1>1, <1>2, Zenon DEF Inv
-------------------------------------------------------------------------------
(* A request in flight has passed the stages before the one it is at, and  *)
(* a request that is answered has the ground of its answer, in every       *)
(* reachable state of the middleware, of Discovery and of the clock.       *)
THEOREM MiddlewareInvariant == Spec => [](TypeOK /\ Inv)
<1>1. Init => TypeOK /\ Inv
  BY InitInv, Zenon
<1>2. TypeOK /\ Inv /\ [Next]_vars => (TypeOK /\ Inv)'
  BY ReceiveInv, MiddlewareInv, SurroundingsInv, StutterInv, Zenon DEF Next
<1>3. QED
  BY <1>1, <1>2, PTL DEF Spec

(* The invariant has what is promised of handlers and of refusals.         *)
LEMMA InvImplies ==
    ASSUME TypeOK, Inv
    PROVE  HandlerIsVouched /\ OwnerRoutesNeedDiscovery /\ ExploresLatestScan /\ RefusalIsGrounded
<1>1. env.auth # "off" => Protected
  BY MiddlewareAssumption, Zenon DEF TypeOK, Environment, Protected, AuthRequired, getEnvBool
<1>2. Handling \subseteq InFlight \ {"session"}
  BY Zenon DEF Handling, InFlight
<1>3. HandlerIsVouched /\ ExploresLatestScan
  BY <1>1, <1>2, Zenon DEF Inv, Good, Passed, HandlerIsVouched, ExploresLatestScan
<1>4. OwnerRoutesNeedDiscovery /\ RefusalIsGrounded
  BY NoneFacts, Zenon DEF Inv, Good, Grounded, OwnerRoutesNeedDiscovery, RefusalIsGrounded, TypeOK, Code
<1>5. QED
  BY <1>3, <1>4, Zenon

(* Unless authentication is switched off by name, a handler runs only for  *)
(* a request whose session Discovery let pass and whose scans were         *)
(* readable since it was received.                                         *)
THEOREM HandlerTheorem == Spec => []HandlerIsVouched
BY MiddlewareInvariant, InvImplies, PTL

(* In every environment, an owner's route gives a result only to a request *)
(* whose session Discovery let pass.                                       *)
THEOREM OwnerRoutesTheorem == Spec => []OwnerRoutesNeedDiscovery
BY MiddlewareInvariant, InvImplies, PTL

(* The explore handler runs on a scan that was the wallet's latest, for a  *)
(* session that was open.                                                  *)
THEOREM ExploreTheorem == Spec => []ExploresLatestScan
BY MiddlewareInvariant, InvImplies, PTL

(* A final refusal by the middleware has its ground; a service that does   *)
(* not answer is no ground.                                                *)
THEOREM GroundsTheorem == Spec => []RefusalIsGrounded
BY MiddlewareInvariant, InvImplies, PTL
===============================================================================
