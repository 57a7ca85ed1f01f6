# A TLA+ model of cafe-crypto-policy-mgt

This directory models the Crypto Policy Management service (CPM) in TLA+. TLC
checks the models on small instances; TLAPS proves the main safety properties
for every value of their constants. `PROJECT.json` maps each definition to the
lines of Go it translates.

## The system

CPM is a Go HTTP service. A client that owns a wallet explores which providers
can give the wallet a post-quantum posture, asks the service for a snapshot of
the provider it chose, signs an authorization with the wallet, and persists a
crypto policy. CPM keeps no durable state: policies live in *cafe-persistence*,
scans and sessions in *Discovery*, assessment commands go to NATS. A request
handler runs in its own goroutine and makes several remote calls; between two of
them the clock, the scans, the sessions and other requests move.

Terms of the code used below: **W1** is the rule that an owner has at most one
active policy per wallet; **W2** the rule that a request names the latest
completed scan of its wallet; **couche A** the compatibility of a provider
profile with a scan; **couche B** its compatibility with the user's constraints.

### Inventory

| Part (under `internal/`) | State | Operations | What is hard about it | What has to hold |
|---|---|---|---|---|
| `walletauth` | none | verify a signed authorization | boundaries of the validity window, non-canonical texts | only a fresh message, signed by the wallet and bound to this request, authorizes |
| `app`: challenge, persist, W2 | handler locals | `POST` challenge, `POST /policies` | W2 and freshness are checked long before the create; challenges are not stored; answers get lost | a stored policy was engaged by its wallet; one request stores at most one; refusals are final |
| `app/owner_routes*` | handler locals | get, list, delete, wallet context | retries of a delete; four error mappings | not found means gone; every request is answered |
| `persistence/cphttp` | attempt counter | create, get, list, delete, count | timeouts race late answers; only idempotent calls are retried | a create is never repeated |
| `persistence` (in-memory store) | map under an `RWMutex` | save, create, get, list, delete, count | loops over the map, spellings of an address | linearizable; W1; owners change only their own records |
| `app/auth.go` | handler locals | authenticate, authorize a scan, guard explore | sessions and scans change between calls; services fail | a handler runs only for a vouched request; an outage is never a final refusal |
| `app/assessment_request.go`, `integration/nats` | the NATS client's buffer | request an assessment | publish returns before the command is sent; a connection takes with it what is on it | commands are vouched, sent at most once and only if accepted, and lost only with the connection |
| `domain/provider` compatibility, `domain/policy/persist_payload.go` | none | couche A, couche B, hard gate, persist gates | one rule evaluated three times over three representations | what is stored satisfies every rule |
| `api` catalogue, explore, snapshot assist | the catalogue, read at boot | load, explore, assist | restarts with another catalogue between two requests of a client | the snapshot is of the explored profile; a client that follows the answers is not refused |
| read views and explore's signal | none | list networks and providers of a policy, signal an explore without candidates | the same catalogue read by different rules; one code for many rejections | catalogue, explore and signal tell one story |
| `payloadhash` | none | close, normalise and digest a payload | digested at three different times from different spellings | the stored payload is what was signed |
| `config`, `app/app.go`, `app/policy_store*.go` | written once | read the environment, start or refuse to | parts that are missing or switched off | what is missing is never taken for a yes |
| other metrics, version, `cmd` | none, or written once | | | not modelled |

## The modules

| Module | Models | Checked by | Proofs |
|---|---|---|---|
| `WalletAuth` | `VerifyAuthorization` as an operator | the runs of `PersistFlow` | `PersistFlow_proof` |
| `PersistFlow` | the challenge, persist, get, list, delete and context handlers, the persistence client, and the services they call | `MCPersistFlow` | `PersistFlow_proof` |
| `PersistPromise` | what `POST /policies` promises about rows and replies | as a property of `PersistFlow` | |
| `PolicyRecords` | records, validation and matching of the in-memory store | the runs of `OwnerScopedStore` | |
| `PolicyLedger` | the abstract store: every call takes effect at once | as a property of `OwnerScopedStore` | |
| `OwnerScopedStore` | the store with its lock and its loops | `MCOwnerScopedStore` | `OwnerScopedStore_proof` |
| `AuthorizationText` | the lines of a message: `BuildMessage`, `ParseMessage` and the check of the text | the run of `EngagementWire` | `WireFormats_proof` |
| `PayloadDigest` | which JSON payloads have a digest, and the closed object that is hashed | the run of `EngagementWire` | `WireFormats_proof` |
| `EngagementWire` | `PersistFlow` with the texts and the JSON its messages and payloads stand for | `MCEngagementWire` | `EngagementWire_proof` |
| `ServiceConfig` | the environment variables and whether the service starts, as operators | the runs of `AuthMiddleware` and `AssessmentRequest` | `AuthMiddleware_proof` |
| `AuthMiddleware` | `withAuthentication` and the services it asks | `MCAuthMiddleware` | `AuthMiddleware_proof` |
| `AssessmentRequest` | extends `AuthMiddleware` by the assessment handler and the NATS client | `MCAssessmentRequest` | `AssessmentRequest_proof` |
| `SortedLists` | sorting, filtering and joining of lists (`sort.Slice`, `sort.Strings` and the loops around them), as operators | the runs of `ProviderJourney` and `EngagementWire` | `SortedLists_proof` |
| `Compatibility` | the compatibility rules and the persist gate, as operators | the runs of `ProviderJourney` | `ProviderJourney_proof` |
| `Catalogue` | loading, the registry's lookups and what the catalogue routes derive, as operators | the runs of `ProviderJourney` | `ProviderJourney_proof` |
| `ExploreDecision` | the ranked and rejected candidates and the signal, as operators | the runs of `ProviderJourney` | `ProviderJourney_proof` |
| `ProviderJourney` | restarts, scans, explore, assist and the persist gate, as one client's way through them | `MCProviderJourney` | `ProviderJourney_proof` |

### PersistFlow

A request `r` has a fixed `Route[r]`; `pc[r]` is the point its handler has
reached: `idle`, `w2` (asking Discovery), `issue`, `verify`, `gate`, `wait`
(for cafe-persistence), `done`. `task[r]` is the decoded request and later the
input of the store call, `reply[r]` the code that is answered. A handler is cut
into actions at its remote calls and at its readings of the clock:
`ReceivePersist`, `W2`, `Verify`, `Gate`, then `Return` or `Unavailable`.

cafe-persistence is external. A call sits in `calls` until it is served (at any
time, also after its handler gave up) or lost. `created` and `removed` are its
history; a row is active while it is in no pair of `removed`. Its create refuses
a second active row of an owner for a wallet, as the 409 the client expects
implies; it may also refuse a caller, which a handler without a case for it
answers with 500. `since` is history: it records what was true since the request arrived,
and no guard reads it.

A message is its parsed fields and a `form` that says whether its text is the
canonical one. A payload is a value with a digest (`DigestOf`, which may refuse
it) and a verdict of the persist gates (`GateOf`); the gates themselves are in
`Compatibility`.

`PersistPromise` is the specification a client of `POST /policies` may rely on. It
has rows and replies and two actions: `Store` makes the one row of a request that
was not refused, `Answer` replies once, and what it says agrees with the rows.
`PromiseSpec` is the refinement: the rows are `created` without their contents,
and every other step of the flow is invisible. That at most one policy is stored
per request and that a 200 means a stored policy follow from it.

### EngagementWire

`EngagementWire` opens these two abstractions. `TextsOf(m)` are the texts a
message stands for: for a "variant" the ways in which a text can parse to the
same fields and still differ (blanks, another case or time zone, another order,
a superfluous, missing or second line), for an "unparsable" one the ways in which
it can fail. `TextAgrees` compares the verdict on the text with the verdict on
the record at every request that reaches the check. `Tree[p]` is the JSON of a
payload; `WireAssumption` makes `DigestOf` the function `PayloadDigest` computes,
with SHA-256 idealised as injective. The theorems about `PersistFlow` hold for
every `DigestOf` and so for this one.

`assertAllowedSubtree` recurses into a payload; `Levels` has the values it
visits, level by level. There are finitely many levels because `encoding/json`
refuses to decode what is nested more than `MaxNesting` deep (10000 in the
library, any number in the proofs, 3 in the run).

### OwnerScopedStore

`Enter` validates the arguments before the lock, `Acquire` takes it shared or
exclusive and starts the loop, `Visit` looks at one entry, `Insert` and `Apply`
write or report and return; `InsertFails` is the create that gets no id. Wallets
are compared normalised and scan ids without case. `PolicyLedger` is the specification: `Invoke`, one
atomic effect, `Respond`. `LedgerSpec` is the refinement, with `arg` as the
ledger's `pending` call.

### AuthMiddleware and AssessmentRequest

Each remote call of the middleware (session validation, scan authorization, scan
detail, latest scan) is an action with the failure of the service among its
outcomes. Sessions end and scans start, complete and are deleted at any time.
`since[r]` collects the facts that held at some moment of the request.
`AssessmentRequest` continues where the middleware hands over, and adds the NATS
client and the network: a buffer (`outbox`) that the flusher writes to the
connection, what is on the connection (`wire`), and what the server has received.
Core NATS delivers at most once. When the connection drops, what was buffered for
it and what was under way is gone (`lost`); what is published while the client
reconnects is buffered, sent once the connection is back, and gone if the client
gives up. A publish may fail in any of these states.

`env` is the environment the service was started in, one of those in which `Run`
of `ServiceConfig` succeeds. It decides whether the middleware is there at all,
and which of the services it asks have a URL.

The session check has four answers. `validateTokenWithDiscovery` takes 401, 403 and
a 200 with an error message for a refusal, and another status or none for an
outage. Every other 200 it takes for a yes, also one without a body, cut off or not
JSON (`auth.go:554-568`). Such an "unread" answer may come for any session, open or
not, and `since` notes it. So what holds for all routes is that Discovery was asked
and did not refuse (`SessionPassed`); that the session was open holds where a later
call is made with the client's token, as on explore with a scan and on the
assessment route. Of Discovery itself it is assumed that a refusal speaks of the
client's session, not of the service's own token, which it may refuse with the
same 401, and that the claims in a token are those Discovery knows.

### Compatibility, Catalogue, ExploreDecision and ProviderJourney

A profile keeps the fields the rules read. `Explore`, `Assist` and `Persist` are
independent requests; `Restart` reloads any of the catalogues in between and
`Rescan` changes the scan. Explore reads the observation that the client sends;
here it is the scan's, and a client that sends another is one whose scan was
another at that moment. A client submits what it was given or one of the
alterations `Altered` lists, which are some of the possible ones; `GateIsSound` is
about every payload. Two manifests with one provider id and one version
have the same profiles (`CatalogueAssumption`): this is what a manifest version
is for, and the service cannot check it. `answer` is the last explore answer, kept
until the next event so that the views, the signal and the decision can be
compared on one catalogue and one scan. An allowed provider that is spelled in
two ways is evaluated twice, so candidates carry the position of their entry.

The lists of a profile's chains, of a provider's profiles and of a policy's
providers are sorted, filtered and joined by the operators of `SortedLists`.
`sort.Slice` is not stable: `SortedBy` is some list in the order of the keys, and
nothing is known of the order of two elements with the same key.

## The runs

Passing runs:

| Run | Instance | Shows |
|---|---|---|
| `MCVerify` | a persist and a list; 19 bodies, 7 payloads, 8 messages, 4 signatures, up to 26 texts a message | `EngagementSound`, `TextAgrees`, `StoredPayloadIsSigned` |
| `MCEngage` | a challenge and a persist, 2 scans, clock 0..3, window 1, skew 1 | `FreshDuringRequest`, `ScanLatestDuringRequest`, `ChallengeIsHonoured` |
| `MCRace` | 2 persists and a delete of one wallet, clock 0..2, window 1 | `ReplayWindow`, `RefusalIsFinal`, `PromiseSpec` |
| `MCOwners` | a persist, a delete and a get of 2 owners | `TypeOK`, `NotFoundMeansGone`, `EveryRequestAnswered` |
| `MCStoreRoutes` | 2 callers, 3 ids, 2 owners, 2 spellings of a wallet and of a scan id, the calls of the routes | `OneActivePolicy`, `CountAgreesWithW1`, `LedgerSpec` |
| `MCStoreAll` | 2 callers, 2 ids, all operations, refused arguments included | `TypeOK`, `OnlyTheOwnerWrites`, `LoopsAreUndisturbed`, `EveryCallReturns` |
| `MCAuth` | one request of every kind, 8 environments of which 4 start, 2 users, 3 scans, 5 spellings of ids | `TypeOK`, `HandlerIsVouched`, `OwnerRoutesNeedDiscovery`, `ExploresLatestScan`, `RefusalIsGrounded` |
| `MCAssess` | 2 assessment requests, 4 environments, 1 scan | `TransportTypeOK`, `CommandsAreVouched`, `SentOnceIfAccepted`, `LostOnlyWithConnection`, `AcceptedIsSettled`, `EveryRequestAnswered` |
| `MCJourney` | 23 directories, 5 footprints, 3 chain ids | `TypeOK`, `HonestJourneyPersists`, `SnapshotIsExplored`, `PinCoversExploredScan`, `StoredIsSound`, `ConstraintRefusalIsCoucheB`, `WiderScanKeepsCandidates`, `RankedIsAssistable`, `CatalogueShowsCandidates`, `SignalIsTruthful` |

Each property is stated in words above its definition.

Runs in which TLC refutes what a document says:

| Run | The document | The code |
|---|---|---|
| `MCUnavailable` | 503 on every durable operation when cafe-persistence is down | delete answers 500 (and so does the list, by the same mapping) |
| `MCDeleteRetry` | 204 if deleted | 404 when the first answer is lost and the retry finds nothing |
| `MCOverlap` | the persist gate requires the pin to share a chain with a constrained scan | the gate sees no chains of the scan |

Four smaller differences between documents and code follow from reading the
definitions, and no run is spent on them. A signature that does not verify is
answered 401, as `docs/CP_PERSIST.md` says and the OpenAPI document does not.
The README calls W2 mandatory on explore, but the scan id is optional there and
the guard is skipped without one. The README says that a principal is only injected
"after Discovery validation succeeds", and the code takes an unread 200 for a
success. The OpenAPI document calls the assessment route fail-closed when NATS is
unavailable, but an assessment is answered 202 while NATS is disconnected, because
the client library buffers the command, and the command may then be lost.

### Bounds

`MaxClock`, `MaxTarget`, the sets in the configurations and two state constraints
are the only bounds. `Unfinished` (`MCAuth`) stops a behaviour once its request
is answered: what Discovery does afterwards concerns nobody. `ListBesideCreate`
(`MCVerify`) starts the list only when the create is under way: before that the
two handlers share nothing. The bounds are chosen so that each case arises: a window that
ends during a request and before a second use (`MaxClock` larger than the
window), a newer scan during a request (two scans), a race that the store
decides and a delete that makes room (three requests), both attempts of a retried
call served, a reader between two writers (two callers suffice for each pair of
lock modes, three ids for a loop that has visited some entries and not others).
Requests in `AuthMiddleware` share only Discovery, which moves freely anyway, so
one request at a time loses nothing there. In `MCAssess` all requests are
assessments: the other routes do not reach NATS, and the remote calls that only
explore makes are in `MCAuth`. In `PersistFlow` the wallet context
route takes the same steps as the list and differs only in its
replies, and no run spends a request on it; the theorems cover it. Liveness is
checked without symmetry. Deadlock is not checked: every behaviour ends when all
its requests are answered.

### Fairness

- `PersistFlow`: weak fairness of each handler's steps. Every remote call has a
  client timeout (`NewClient`, `http.Client{Timeout: ...}`), so a handler that
  waits can always go on by `Unavailable`. Nothing is assumed of the services.
- `OwnerScopedStore`: weak fairness of the steps inside the store, strong
  fairness of taking the lock: Go's `RWMutex` lets no caller wait for ever while
  the lock keeps being released.
- `AssessmentRequest`: weak fairness of the handlers; the NATS client flushes while
  it is connected, what is on a connection that lasts arrives, and a dropped
  connection is eventually restored or given up, as the library does. Nothing
  keeps the connection up.

## The proofs

`PersistFlow_proof` proves every safety property of `PersistFlow` that a passing
run checks. None is inductive: what a row says was checked in earlier steps of the
handler that wrote it. The invariant `Inv` follows the evidence: `StageInv`
says what a request at each stage has shown, `CallInv` and `RowInv` that calls
in flight and rows carry it on, `OnceInv` that a create is in one place only (in
flight, answered or given up), `GoneInv` that an answer "not found" stays true.
Each action of the handlers, of cafe-persistence, the network, the clock and
Discovery has a lemma that it preserves `TypeOK /\ Inv`. They rest on `WindowAssumption` and `FlowAssumption`, which say what type the constants
have and that the markers for blank, malformed and absent values are none of the
values.

`PromiseTheorem` is a step simulation (`PromiseStep`): a step makes a row, or
replies to one request, or does neither (`RowOrReply`); that the row is the first
of its request and the reply agrees with the rows is read off `Inv` before and
after the step. `ChallengeTheorem` is the other direction of the authorization
check: what the service issued it also accepts. It needs one more invariant,
`IssuedInv`: the messages no client made are canonical, run for exactly the
maximum window and were issued in the past, so that none of the three comparisons
of `validateFreshness` refuses them before their end.

`EngagementWire_proof` proves the two invariants that tie this flow to what is
on the wire. They follow from `TypeOK /\ Inv` in each state; the work is in the
lemmas of `WireFormats_proof` about texts and payloads.

- `TextAgreesTheorem`. A text *carries* a message (`Carries`) when the first line
  of each field has the message's value and nothing in it makes the parser fail;
  then `ParseMessage` returns the message (`CarriesParses`). `BuildMessage` is
  injective (`BuildInjective`), so comparing a text with the canonical one
  compares all fields (`CarriedAgrees`). Each variant of a text is shown to carry
  the same message and not to be canonical (`VariantsAre`), each broken one to
  fail (`BrokenFails`).
- `StoredPayloadTheorem`. The closed form of a payload has no value, at any level,
  that was not at that level before, but for its own top and its list of findings
  (`ClosedLevels`, by induction over the levels), so it has a digest again
  (`ClosedHasDigest`). Its findings are in strict order (`Normalized`), and a list
  in strict order is determined by its elements (`StrictOrderUnique`). Hence two
  payloads have one closed form exactly when they say the same (`SameClosed`), and
  closing a closed form changes nothing (`ClosedSays`).

They rest on `WireAssumption` too: digests are those of the closed forms, SHA-256
does not collide on the payloads at hand, payloads are JSON, and chain ids are
numbers.

`OwnerScopedStore_proof` proves that the store implements the ledger, that W1
holds, and that only owners write. The key is `LoopInv`: what a loop has
collected is exactly what matches among the entries it has left behind. With
`LockInv` (a writer is alone) the end of a loop is the moment the call takes
effect. `LoopsTheorem` follows from `LockInv` too: nobody writes the map under a
loop. `CountTheorem` needs the assumption `RoutesOnly`, that `SavePolicy` is
not called and the payload of a create names no wallet target of its own, as is
the case for the routes. W1 itself needs no such assumption: what `SavePolicy`
stores has no wallet and does not come under it.

`ProviderJourney_proof` proves that any payload the gate accepts is sound
(`GateIsSound`), that the combined hard gate is redundant at persist (so the
couche B code is given for couche B findings only), that constraints suggested by a valid profile pass
couche B, and, by the invariant `JourneyInv`, that the snapshot a client gets is
of the profile it explored although the catalogue may have changed. The theorem
on wider scans follows from couche A being monotone in the observed chains
(`WiderScan`), the one on the signal from what each rejection reason implies.

The other properties of `ProviderJourney` need a second invariant, `HeldInv`: what
was explored passed couche A for the scan and the posture it was explored with,
its profile is valid, and what was assisted has a chain to pin. `JourneyInv` alone
relates the three requests of a client only by the profile; with `HeldInv` the
persist gate sees a payload whose parts were each found good
(`HonestJourneyTheorem`, `PinCoversTheorem`). `RankedIsAssistableTheorem` and
`CatalogueShowsTheorem` compare what different loops make of one list of chains;
they, and `JourneyTypes`, use what `SortedLists_proof` shows of the operators on
lists.

`SortedLists_proof` shows that a sorting of every finite set exists and what
`SortedBy`, `Pick` and `Joined` return. These are inductions over sizes and
lengths. The induction theorems of the library take the induction hypothesis as
an operator, which the provers cannot instantiate; each induction is therefore
written as an argument about a least counterexample (`LeastNatural`, from the
well-foundedness of the naturals).

`AuthMiddleware_proof` proves every property of `AuthMiddleware` the run checks.
They are about facts that held at some moment since the request arrived, so the
invariant `Inv` says of each request, by its `pc`, which facts `since` holds
already (`Passed`), of each refusal which fact grounds it (`Grounded`), and that
what is true now has been recorded (`Recorded`): without the last, a handler that
sees a fact could not conclude that history knows it. An answer to the session
check adds to `since` what it was, so the lemmas on the two ways on, `FinishNoting`
and `GotoNoting`, allow for a note; `OneScanNamed` shows that a request that passes
the extraction of its scan ids names one scan, so that authorizing one is
authorizing all. `AssessmentRequest_proof` adds `SendInv`, that every command in
`Sent` (delivered, under way or buffered, in this order) belongs to a request that
was answered 202 and vouched for, to no other command, and was not lost. The steps
of the NATS client leave `Sent` as it is (`SentSame`) or cut it off behind what was
delivered (`SentDropped`). `AcceptedTheorem` is the converse, and the safety half of
`AcceptedIsSettled`: only `Publish` answers 202, as it buffers the command
(`WhoAccepts`), and a step that takes a command out of `Sent` notes its loss
(`AccountedStays`). Both
modules rest on `MiddlewareAssumption`, the types of the constants.

Every invariant, action property and refinement of a passing run is proved. Only
model-checked are the liveness properties `EveryRequestAnswered` (of `PersistFlow`
and of `AssessmentRequest`), `EveryCallReturns` and `AcceptedIsSettled`: the
prover has no rules for fairness and `ENABLED`. That the assumptions on the
constants can be met is shown by the runs, which evaluate them on their
instances. The refuted statements of the violation runs have no
theorem.

## Not modelled

- The canonical bytes of a payload and SHA-256: an injective function of the
  closed object. ECDSA recovery: a signature is the address it recovers to.
- The order within the lists of explore, its explanations, and the field names
  of the JSON answers.
- The wallet observed event and the assessment result contracts: data without
  operations on the paths modelled.
- Logs, audit events and the counters other than explore's signal, the version
  and health endpoints, path matching, ports and timeouts as numbers.
- Sharing of nested payload values after `cloneMap`: payloads are values, and no
  caller in the repository changes one after the call.
- A crash of the service in the middle of a request. It loses only handler
  locals, which for the other parties is a handler that takes no further step;
  safety covers it, since every prefix of a behaviour is one.
- The middleware in front of `PersistFlow`, which starts with its principal:
  the two share no state, and `HandlerIsVouched` is what the one gives the other,
  the unread answer to a session check included.
  Likewise `GateOf` is free in `PersistFlow` and computed in `Compatibility`.
- A refusal of the service's own token by Discovery.
