---------------------------- MODULE AuthMiddleware ----------------------------
(***************************************************************************)
(* withAuthentication (internal/app/auth.go), which every request passes   *)
(* before its handler: classify the route, check the bearer token, let     *)
(* Discovery validate the session, authorize the scan the request names,   *)
(* and on the explore route require that scan to be the wallet's latest.   *)
(* With CPM_AUTH_REQUIRED switched off the handlers are installed bare.    *)
(*                                                                         *)
(* A step ends at each remote call.  Between two steps of a request, other *)
(* requests run, sessions end, and scans start, complete or are deleted in *)
(* Discovery (external, modelled from how the client code uses it).        *)
(* Routes:                                                                 *)
(*   "public"      /healthz, /metrics, /version                            *)
(*   "unknown"     anything outside the route inventory                    *)
(*   "read"        GET /crypto-policies, /providers and their items        *)
(*   "owned"       GET /wallet-target-context, DELETE /policies            *)
(*   "list"        GET /policies                                           *)
(*   "post"        POST /wallet-challenges, /policies                      *)
(*   "assist"      POST /accepted-provider-snapshots                       *)
(*   "explore"     POST /policies/decisions/explore                        *)
(*   "assessment"  POST /policies/assessment/request                       *)
(***************************************************************************)
EXTENDS Integers, FiniteSets, ServiceConfig

CONSTANTS Req,         \* requests
          User, Wallet,
          Token,       \* session tokens that decode and are hybrid-signed
          UserOf,      \* UserOf[t]: the user_id claim, Blank if missing
          ExpiryOf,    \* ExpiryOf[t]: the exp claim
          Leeway,      \* CPM_AUTH_CLOCK_SKEW_SEC
          Id, Scan,    \* scan ids as clients spell them; Discovery's scans
          ScanOf,      \* NormalizeDiscoveryScanID: None if not a UUID
          OwnerOf,     \* the user whose scan it is
          WalletOf,    \* the scanned wallet, None for a TLS scan
          Inputs,      \* the requests clients send
          Environments, \* the environments the service may be started in
          MaxClock,    \* bound on the clock
          Blank, Invalid, None

Class == {"public", "unknown", "read", "owned", "list", "post", "assist", "explore",
          "assessment"}

(* The routes whose handlers need a principal, and those with a body in    *)
(* which the middleware looks for a scan.                                  *)
Owned    == {"owned", "list", "post", "assessment"}
WithBody == {"post", "assist", "explore"}

(* token: Blank for no bearer token, Invalid for one that does not decode. *)
(* body:  "rejected" is an object with a field its handler does not accept *)
(*        or without one that it requires; "other" is no JSON object.      *)
(* scan, context: scan_id (in the body or the query) and                   *)
(*        policy_context.scan_id; Invalid is JSON that is no string.       *)
(* id:    the query also names a policy id.                                *)
Input == [route   : Class,
          token   : Token \cup {Blank, Invalid},
          body    : {"object", "rejected", "other", "unreadable"},
          scan    : Id \cup {Blank, Invalid},
          context : Id \cup {Blank, Invalid},
          id      : BOOLEAN]

Code == {"handled", "route_not_found", "AUTHZ_PRINCIPAL_REQUIRED",
         "AUTH_ROUTE_NOT_ENABLED", "AUTH_UNAUTHENTICATED",
         "AUTH_VALIDATION_UNAVAILABLE", "AUTHZ_SCAN_PAYLOAD_READ_FAILED",
         "AUTHZ_SCAN_ID_MALFORMED", "AUTHZ_SCAN_ID_CONFLICT",
         "AUTHZ_SCAN_FORBIDDEN", "AUTHZ_SCAN_UNAVAILABLE", "not_found",
         "DISCOVERY_UNAVAILABLE", "SCAN_NOT_LATEST", "bad_request",
         "internal_error", "assessment_transport_unavailable",
         "publish_failed", "accepted"}

ASSUME MiddlewareAssumption ==
    /\ UserOf \in [Token -> User \cup {Blank}]
    /\ ExpiryOf \in [Token -> Int]
    /\ Leeway \in Nat /\ MaxClock \in Nat
    /\ ScanOf \in [Id -> Scan \cup {None}]
    /\ OwnerOf \in [Scan -> User]
    /\ WalletOf \in [Scan -> Wallet \cup {None}]
    /\ Inputs \subseteq Input
    /\ Environments \subseteq Environment
    /\ {Blank, Invalid, None} \cap (Token \cup User \cup Wallet \cup Id \cup Scan) = {}
    /\ None \notin Code /\ None \notin Inputs

VARIABLES
    env,        \* the environment the service was started in
    clock,      \* the service's clock
    sessions,   \* Discovery: tokens whose session is open
    scans,      \* Discovery: the state of every scan
    latest,     \* Discovery: latest completed scan per user and wallet
    pc, task,   \* per request: where it is, and its input
    reply,      \* per request: the code it was answered with
    since       \* history: what held of the request's session and scan at
                \* some moment since it was received

discovery == <<env, clock, sessions, scans, latest>>
handlers  == <<pc, task, reply>>
vars      == <<discovery, handlers, since>>

InFlight == {"session", "authorize", "detail", "latest", "handler",
             "canread", "source", "publish"}

readable(u, s) == s # None /\ OwnerOf[s] = u /\ scans[s] \in {"running", "completed"}

(* The scan the middleware asks about, None if none or not a scan.         *)
Named(q) ==
    IF q.scan \in Id THEN ScanOf[q.scan]
    ELSE IF q.context \in Id THEN ScanOf[q.context] ELSE None

(* All scans the fields of a request name: its handler may use any.        *)
NamedScans(q) ==
    {ScanOf[i] : i \in Id \cap IF q.route \in WithBody THEN {q.scan, q.context} ELSE {q.scan}}

(* "unread": the session check was answered with a 200 that did not say    *)
(* whether the session is open.                                            *)
Facts == {"session", "nosession", "unread", "readable", "unreadable", "detailed",
          "undetailed", "latest", "stale"}

(* A scan's detail is of use when it has a result on a wallet.             *)
IsDetailed(s) == s # None /\ WalletOf[s] # None /\ scans[s] = "completed"

IsLatest(u, s) == s # None /\ WalletOf[s] # None /\ latest[u, WalletOf[s]] = s

FactsOf(q) ==
    LET u == UserOf[q.token]
        s == Named(q)
    IN  IF q.token \notin Token THEN {"nosession"}
        ELSE {IF q.token \in sessions THEN "session" ELSE "nosession",
              IF NamedScans(q) # {} /\ \A x \in NamedScans(q) : readable(u, x)
              THEN "readable" ELSE "unreadable",
              IF IsDetailed(s) THEN "detailed" ELSE "undetailed",
              IF u # Blank /\ IsLatest(u, s) THEN "latest" ELSE "stale"}

(* The handlers run behind the middleware.                                 *)
Protected == AuthRequired(env)

Init ==
    /\ env \in Environments /\ Run(env)
    /\ clock = 0
    /\ sessions = Token
    /\ scans = [s \in Scan |-> "none"]
    /\ latest = [uw \in User \X Wallet |-> None]
    /\ pc = [r \in Req |-> "idle"]
    /\ task = [r \in Req |-> None]
    /\ reply = [r \in Req |-> None]
    /\ since = [r \in Req |-> {}]
-------------------------------------------------------------------------------
Finish(r, code) ==
    /\ pc' = [pc EXCEPT ![r] = "done"]
    /\ reply' = [reply EXCEPT ![r] = code]
    /\ UNCHANGED task

Goto(r, label) ==
    /\ pc' = [pc EXCEPT ![r] = label]
    /\ UNCHANGED <<task, reply>>

(* parseAndValidateDiscoveryToken: what is checked before Discovery is     *)
(* asked.                                                                  *)
TokenHolds(t) == t \in Token /\ clock <= ExpiryOf[t] + Leeway

Receive(r, q) ==
    /\ pc[r] = "idle"
    /\ task' = [task EXCEPT ![r] = q]
    /\ since' = [since EXCEPT ![r] = FactsOf(q)]
    /\ LET code == IF q.route = "public" THEN "handled"
                   ELSE IF q.route = "unknown"
                   THEN IF Protected THEN "AUTH_ROUTE_NOT_ENABLED" ELSE "route_not_found"
                   ELSE IF Protected /\ ~TokenHolds(q.token) THEN "AUTH_UNAUTHENTICATED"
                   ELSE None
       IN  /\ pc' = [pc EXCEPT ![r] = IF code # None THEN "done"
                                      ELSE IF Protected THEN "session" ELSE "handler"]
           /\ reply' = [reply EXCEPT ![r] = code]
    /\ UNCHANGED discovery

(* Replaces bodyRefusal in a mutation run: two ids are not compared.       *)
bodyRefusalFirstWins(q) ==
    IF q.body = "unreadable" THEN "AUTHZ_SCAN_PAYLOAD_READ_FAILED"
    ELSE IF q.body # "other" /\ Invalid \in {q.scan, q.context}
    THEN "AUTHZ_SCAN_ID_MALFORMED" ELSE None

(* collectScanIDs and the comparison that follows it: the texts must be    *)
(* equal, two spellings of one scan are a conflict.                        *)
bodyRefusal(q) ==
    IF q.body = "unreadable" THEN "AUTHZ_SCAN_PAYLOAD_READ_FAILED"
    ELSE IF q.body = "other" THEN None
    ELSE IF Invalid \in {q.scan, q.context} THEN "AUTHZ_SCAN_ID_MALFORMED"
    ELSE IF {q.scan, q.context} \subseteq Id /\ q.scan # q.context
         THEN "AUTHZ_SCAN_ID_CONFLICT"
    ELSE None

queryRefusal(q) ==
    IF q.scan = Blank THEN None
    ELSE IF q.id THEN "AUTHZ_SCAN_ID_CONFLICT"
    ELSE IF q.scan = Invalid \/ ScanOf[q.scan] = None THEN "AUTHZ_SCAN_ID_MALFORMED"
    ELSE None

(* extractScanIDsForAuthorization: the refusal, and whether there is a     *)
(* scan to authorize.                                                      *)
scanRefusal(q) ==
    IF q.route = "list" THEN queryRefusal(q)
    ELSE IF q.route \in WithBody THEN bodyRefusal(q)
    ELSE None

NamesScan(q) ==
    \/ q.route = "list" /\ q.scan # Blank
    \/ /\ q.route \in WithBody
       /\ q.body \in {"object", "rejected"}
       /\ {q.scan, q.context} \cap Id # {}

(* What follows an accepted session.                                       *)
SessionAccepted(r) ==
    LET q == task[r]
    IN  IF UserOf[q.token] = Blank THEN Finish(r, "AUTH_UNAUTHENTICATED")
        ELSE IF scanRefusal(q) # None THEN Finish(r, scanRefusal(q))
        ELSE Goto(r, IF NamesScan(q) THEN "authorize" ELSE "handler")

(* What comes back from POST SessionValidationURL (external).              *)
(*   "none"      nothing, or a status that is none of 200, 401 and 403     *)
(*   "refused"   401, 403, or a 200 with an error message                  *)
(*   "accepted"  a 200 that says so, or has claims                         *)
(*   "unread"    a 200 that says neither: without a body, cut off, no      *)
(*               JSON, or neither accepted nor with an error message       *)
(* Discovery refuses closed sessions and accepts open ones.  That it may   *)
(* refuse the service's own token, with the same 401, is left out.         *)
SessionAnswers(t) ==
    {"none", "unread", IF t \in sessions THEN "accepted" ELSE "refused"}

(* Replaces validateTokenWithDiscovery in a mutation run: no answer is     *)
(* taken for a yes.                                                        *)
validateTokenFailOpen(answer) == IF answer = "refused" THEN "rejected" ELSE "accepted"

(* What the client makes of the answer.                                    *)
validateTokenWithDiscovery(answer) ==
    IF answer = "none" THEN "unavailable"
    ELSE IF answer = "refused" THEN "rejected"
    ELSE "accepted"

(* The rest of authenticateBearerToken and the extraction of the scan id.  *)
(* A token carries the claims Discovery knows, so whether the answer       *)
(* repeats them is no matter.                                              *)
ValidateSession(r) ==
    /\ pc[r] = "session"
    /\ \E answer \in SessionAnswers(task[r].token) :
          /\ LET verdict == validateTokenWithDiscovery(answer)
             IN  \/ verdict = "unavailable" /\ Finish(r, "AUTH_VALIDATION_UNAVAILABLE")
                 \/ verdict = "rejected" /\ Finish(r, "AUTH_UNAUTHENTICATED")
                 \/ verdict = "accepted" /\ SessionAccepted(r)
          /\ since' = [since EXCEPT ![r] = @ \cup ({answer} \cap {"unread"})]
    /\ UNCHANGED discovery

Principal(r) == UserOf[task[r].token]

(* Replaces AuthorizeScan in a mutation run: an authorization service that *)
(* does not answer is taken for one that refuses.                          *)
AuthorizeScanUnavailableForbids(r) ==
    LET s == Named(task[r])
    IN  /\ pc[r] = "authorize"
        /\ \/ Finish(r, "AUTHZ_SCAN_FORBIDDEN")
           \/ /\ readable(Principal(r), s)
              /\ Goto(r, IF task[r].route = "explore" /\ s # None THEN "detail" ELSE "handler")
        /\ UNCHANGED <<discovery, since>>

(* Replaces AuthorizeScan in a mutation run: no return after the refusal.  *)
AuthorizeScanNoReturn(r) ==
    LET s == Named(task[r])
    IN  /\ pc[r] = "authorize"
        /\ \/ Finish(r, "AUTHZ_SCAN_UNAVAILABLE")
           \/ /\ env.scans /\ readable(Principal(r), s)
              /\ Goto(r, IF task[r].route = "explore" /\ s # None THEN "detail" ELSE "handler")
           \/ /\ env.scans /\ ~readable(Principal(r), s)
              /\ reply' = [reply EXCEPT ![r] = "AUTHZ_SCAN_FORBIDDEN"]
              /\ pc' = [pc EXCEPT ![r] = "handler"]
              /\ UNCHANGED task
        /\ UNCHANGED <<discovery, since>>

(* authorizeScanAccess, which needs its URL, then whether                  *)
(* enforceScanImmutabilityGuards has anything to ask: it passes an id that *)
(* is no UUID.                                                             *)
AuthorizeScan(r) ==
    LET s == Named(task[r])
    IN  /\ pc[r] = "authorize"
        /\ \/ Finish(r, "AUTHZ_SCAN_UNAVAILABLE")
           \/ /\ env.scans /\ readable(Principal(r), s)
              /\ Goto(r, IF task[r].route = "explore" /\ s # None THEN "detail" ELSE "handler")
           \/ /\ env.scans /\ ~readable(Principal(r), s)
              /\ Finish(r, "AUTHZ_SCAN_FORBIDDEN")
        /\ UNCHANGED <<discovery, since>>

(* fetchDiscoveryWalletScanDetail, asked with the client's own token.      *)
DetailStatus(r) ==
    IF ~env.discovery THEN 503
    ELSE IF task[r].token \notin sessions THEN 401
    ELSE IF ~readable(Principal(r), Named(task[r])) THEN 404
    ELSE 200

(* Replaces FetchTarget in a mutation run: the guard stops at the scan's   *)
(* detail and never asks which scan is the latest.                         *)
FetchTargetIsEnough(r) ==
    /\ pc[r] = "detail"
    /\ \/ Finish(r, "DISCOVERY_UNAVAILABLE")
       \/ /\ DetailStatus(r) = 404 \/ (DetailStatus(r) = 200 /\ ~IsDetailed(Named(task[r])))
          /\ Finish(r, "not_found")
       \/ /\ DetailStatus(r) = 200 /\ IsDetailed(Named(task[r]))
          /\ Goto(r, "handler")
    /\ UNCHANGED <<discovery, since>>

(* fetchWalletTargetAddressForScan: Discovery that does not answer, or     *)
(* answers anything but 200 and 404, is unavailable.                       *)
FetchTarget(r) ==
    /\ pc[r] = "detail"
    /\ \/ Finish(r, "DISCOVERY_UNAVAILABLE")
       \/ /\ DetailStatus(r) = 404 \/ (DetailStatus(r) = 200 /\ ~IsDetailed(Named(task[r])))
          /\ Finish(r, "not_found")
       \/ /\ DetailStatus(r) = 200 /\ IsDetailed(Named(task[r]))
          /\ Goto(r, "latest")
    /\ UNCHANGED <<discovery, since>>

(* ensureOwnerScopedW2, with the address the detail gave.                  *)
RequireLatest(r) ==
    /\ pc[r] = "latest"
    /\ \/ Finish(r, "DISCOVERY_UNAVAILABLE")
       \/ /\ env.discovery /\ task[r].token \in sessions
          /\ IF IsLatest(Principal(r), Named(task[r])) THEN Goto(r, "handler")
             ELSE Finish(r, "SCAN_NOT_LATEST")
    /\ UNCHANGED <<discovery, since>>

(* Replaces Serve in a mutation run: an owner route does without a         *)
(* principal.                                                              *)
ServeAnyone(r) ==
    /\ pc[r] = "handler" /\ task[r].route # "assessment"
    /\ Finish(r, "handled")
    /\ UNCHANGED <<discovery, since>>

(* next.ServeHTTP: the handlers of the other modules.  Only the middleware *)
(* puts a principal into the request's context.                            *)
Serve(r) ==
    /\ pc[r] = "handler" /\ task[r].route # "assessment"
    /\ Finish(r, IF task[r].route \in Owned /\ ~Protected
                 THEN "AUTHZ_PRINCIPAL_REQUIRED" ELSE "handled")
    /\ UNCHANGED <<discovery, since>>

Middleware(r) ==
    \/ ValidateSession(r)
    \/ AuthorizeScan(r)
    \/ FetchTarget(r)
    \/ RequireLatest(r)
    \/ Serve(r)
-------------------------------------------------------------------------------
(* Discovery and the clock.                                                *)

(* What is now true of the requests in flight is added to their history.   *)
Witness ==
    since' = [r \in Req |-> IF pc[r] \in InFlight
                            THEN since[r] \cup FactsOf(task[r])' ELSE since[r]]

Tick ==
    /\ clock < MaxClock
    /\ clock' = clock + 1
    /\ UNCHANGED <<env, sessions, scans, latest, handlers, since>>

SessionEnds(t) ==
    /\ t \in sessions
    /\ sessions' = sessions \ {t}
    /\ UNCHANGED <<env, clock, scans, latest, handlers>>
    /\ Witness

ScanStarts(s) ==
    /\ scans[s] = "none"
    /\ scans' = [scans EXCEPT ![s] = "running"]
    /\ UNCHANGED <<env, clock, sessions, latest, handlers>>
    /\ Witness

ScanCompletes(s) ==
    /\ scans[s] = "running"
    /\ scans' = [scans EXCEPT ![s] = "completed"]
    /\ latest' = IF WalletOf[s] = None THEN latest
                 ELSE [latest EXCEPT ![<<OwnerOf[s], WalletOf[s]>>] = s]
    /\ UNCHANGED <<env, clock, sessions, handlers>>
    /\ Witness

(* The latest scan of the wallet is then another completed one, if any.    *)
ScanDeleted(s) ==
    /\ scans[s] \in {"running", "completed"}
    /\ scans' = [scans EXCEPT ![s] = "deleted"]
    /\ IF IsLatest(OwnerOf[s], s)
       THEN LET others == {o \in Scan \ {s} : /\ OwnerOf[o] = OwnerOf[s]
                                              /\ WalletOf[o] = WalletOf[s]
                                              /\ scans[o] = "completed"}
            IN  \E o \in IF others = {} THEN {None} ELSE others :
                    latest' = [latest EXCEPT ![<<OwnerOf[s], WalletOf[s]>>] = o]
       ELSE UNCHANGED latest
    /\ UNCHANGED <<env, clock, sessions, handlers>>
    /\ Witness

Surroundings ==
    \/ Tick
    \/ \E t \in Token : SessionEnds(t)
    \/ \E s \in Scan : ScanStarts(s) \/ ScanCompletes(s) \/ ScanDeleted(s)

Next ==
    \/ \E r \in Req : Middleware(r) \/ \E q \in Inputs : Receive(r, q)
    \/ Surroundings

Spec == Init /\ [][Next]_vars
-------------------------------------------------------------------------------
(* The variables hold values of their types: a request has an input once   *)
(* received and a reply exactly when it is done.                           *)
TypeOK ==
    /\ env \in Environments
    /\ clock \in 0..MaxClock
    /\ sessions \subseteq Token
    /\ scans \in [Scan -> {"none", "running", "completed", "deleted"}]
    /\ latest \in [User \X Wallet -> Scan \cup {None}]
    /\ pc \in [Req -> InFlight \cup {"idle", "done"}]
    /\ task \in [Req -> Inputs \cup {None}]
    /\ reply \in [Req -> Code \cup {None}]
    /\ since \in [Req -> SUBSET Facts]
    /\ \A r \in Req : (pc[r] = "idle" <=> task[r] = None) /\ (pc[r] = "done" <=> reply[r] # None)

Handling == {"handler", "canread", "source", "publish"}

(* Discovery let the session pass: it was open at some moment since the    *)
(* request was received, or the check was answered with a 200 in which no  *)
(* refusal could be read.                                                  *)
SessionPassed(r) == {"session", "unread"} \cap since[r] # {}

(* Unless authentication was switched off by name, a handler runs only for *)
(* a request whose session Discovery let pass, and for which every scan    *)
(* its fields name (on the routes the middleware authorizes) was readable  *)
(* by its user at some moment since the request was received.  A service   *)
(* that is down or not configured lets nothing through; an unread 200 to   *)
(* the session check does (validateTokenWithDiscovery), to that check      *)
(* only.                                                                   *)
HandlerIsVouched ==
    \A r \in Req : (env.auth # "off" /\ pc[r] \in Handling) =>
        /\ SessionPassed(r)
        /\ NamesScan(task[r]) => "readable" \in since[r]

(* Without the middleware nothing that belongs to a user is served: in any *)
(* environment, an owner's route is answered with a result only for a      *)
(* request whose session Discovery was asked about and let pass.           *)
OwnerRoutesNeedDiscovery ==
    \A r \in Req : (task[r] # None /\ reply[r] \in {"handled", "accepted"}) =>
        (task[r].route \in Owned => SessionPassed(r))

(* An explore request that names a scan reaches its handler only if that   *)
(* scan was its wallet's latest completed one, and the session was really  *)
(* open, at some moment since the request was received: what the session   *)
(* check may have let pass unread is caught where                          *)
(* enforceScanImmutabilityGuards reads the scan with the client's token.   *)
ExploresLatestScan ==
    \A r \in Req :
        (/\ env.auth # "off" /\ pc[r] \in Handling
         /\ task[r].route = "explore" /\ NamesScan(task[r]))
            => {"session", "detailed", "latest"} \subseteq since[r]

(* A refusal that a client takes for final is one: 401 for a session,      *)
(* 403 and 404 for a scan and 422 SCAN_NOT_LATEST are answered only if     *)
(* the session was closed (or the token does not hold or names no user),   *)
(* the scan not readable or without a wallet result, or not the latest, at *)
(* some moment since the request was received.  A service that does not    *)
(* answer never turns into such a refusal.                                 *)
RefusalIsGrounded ==
    \A r \in Req :
        /\ reply[r] = "AUTH_UNAUTHENTICATED" =>
              \/ "nosession" \in since[r]
              \/ UserOf[task[r].token] = Blank
              \/ ~TokenHolds(task[r].token)
        /\ reply[r] = "AUTHZ_SCAN_FORBIDDEN" => "unreadable" \in since[r]
        /\ reply[r] = "not_found" =>
              {"unreadable", "undetailed"} \cap since[r] # {}
        /\ reply[r] = "SCAN_NOT_LATEST" => "stale" \in since[r]
===============================================================================
