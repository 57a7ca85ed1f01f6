------------------------ MODULE AssessmentRequest_proof ------------------------
(***************************************************************************)
(* The theorems about AssessmentRequest.  The middleware's invariant holds *)
(* of the composition too; to it comes that a command that is buffered,    *)
(* under way or at the server belongs to a request that was answered 202,  *)
(* whose history is closed, and that no other command belongs to it, one   *)
(* that was lost included.                                                 *)
(***************************************************************************)
EXTENDS AssessmentRequest, AuthMiddleware_proof, SequenceTheorems

(* Command c was rightly sent.                                             *)
Vouched(c) ==
    /\ reply[c.event] = "accepted"
    /\ task[c.event].route = "assessment"
    /\ c.scan = Named(task[c.event]) /\ c.subject = WalletOf[c.scan]
    /\ {"session", "readable", "detailed"} \subseteq since[c.event]

SendInv ==
    /\ \A i \in DOMAIN Sent : Vouched(Sent[i]) /\ Sent[i].event \notin lost
    /\ \A i, j \in DOMAIN Sent : Sent[i].event = Sent[j].event => i = j
    /\ \A r \in lost : reply[r] = "accepted"

(* The sequence of what was sent and not lost.                             *)
LEMMA SentIs ==
    ASSUME TransportTypeOK
    PROVE  /\ Sent \in Seq(Command) /\ wire \o outbox \in Seq(Command)
           /\ Sent = delivered \o (wire \o outbox)
           /\ \A i \in DOMAIN Sent : Sent[i] \in Command /\ Sent[i].event \in Req
<1>1. outbox \in Seq(Command) /\ wire \in Seq(Command) /\ delivered \in Seq(Command)
  BY Zenon DEF TransportTypeOK
<1>2. Sent \in Seq(Command) /\ wire \o outbox \in Seq(Command)
  BY <1>1, ConcatProperties, Zenon DEF Sent
<1>3. Sent = delivered \o (wire \o outbox)
  BY <1>1, ConcatAssociative DEF Sent
<1>4. \A i \in DOMAIN Sent : Sent[i] \in Command
  BY <1>2
<1>5. QED
  BY <1>2, <1>3, <1>4, Zenon DEF Command

(* Writing the buffer and receiving a command change nothing about it.     *)
LEMMA SentSame ==
    ASSUME TransportTypeOK, Flush \/ Arrive \/ Reconnect
    PROVE  Sent' = Sent
<1>1. outbox \in Seq(Command) /\ wire \in Seq(Command) /\ delivered \in Seq(Command)
  BY Zenon DEF TransportTypeOK
<1>2. CASE Flush \/ Reconnect
  <2>1. wire' = wire \o outbox /\ outbox' = <<>> /\ delivered' = delivered
    BY <1>2, Zenon DEF Flush, Reconnect
  <2>2. delivered \o (wire \o outbox) \in Seq(Command)
    BY <1>1, ConcatProperties, Zenon
  <2>3. (delivered \o (wire \o outbox)) \o <<>> = delivered \o (wire \o outbox)
    BY <2>2, ConcatEmptySeq, Zenon
  <2>4. QED
    BY <2>1, <2>3, SentIs, Zenon DEF Sent
<1>3. CASE Arrive
  <2>1. /\ delivered' = Append(delivered, Head(wire)) /\ wire' = Tail(wire) /\ wire # <<>>
        /\ outbox' = outbox
    BY <1>3, Zenon DEF Arrive
  <2>2. Append(delivered, Head(wire)) \o Tail(wire) = delivered \o wire
    BY <1>1, <2>1
  <2>3. QED
    BY <2>1, <2>2, Zenon DEF Sent
<1>4. QED
  BY <1>2, <1>3, Zenon

LEMMA SentAppended ==
    ASSUME TransportTypeOK, NEW c \in Command,
           outbox' = Append(outbox, c), UNCHANGED <<wire, delivered>>
    PROVE  /\ Sent' = Append(Sent, c)
           /\ DOMAIN Sent' = DOMAIN Sent \cup {Len(Sent) + 1}
           /\ Sent'[Len(Sent) + 1] = c
           /\ \A i \in DOMAIN Sent : i # Len(Sent) + 1 /\ Sent'[i] = Sent[i]
<1>1. outbox \in Seq(Command) /\ delivered \o wire \in Seq(Command) /\ <<c>> \in Seq(Command)
  BY ConcatProperties DEF TransportTypeOK
<1>2. (delivered \o wire) \o (outbox \o <<c>>) = ((delivered \o wire) \o outbox) \o <<c>>
  BY <1>1, ConcatAssociative
<1>3. outbox \o <<c>> = Append(outbox, c) /\ Sent \o <<c>> = Append(Sent, c)
  BY <1>1, SentIs, AppendIsConcat, Zenon
<1>4. Sent' = Append(Sent, c)
  BY <1>2, <1>3, Zenon DEF Sent
<1>5. Sent \in Seq(Command)
  BY SentIs, Zenon
<1> HIDE DEF Sent
<1>6. QED
  BY <1>4, <1>5

(* What a lost connection leaves, and what it takes.                       *)
LEMMA SentDropped ==
    ASSUME TransportTypeOK, Drop
    PROVE  /\ Sent' = delivered
           /\ \A i \in DOMAIN delivered : i \in DOMAIN Sent /\ Sent[i] = delivered[i]
           /\ \A c \in Range(wire \o outbox) :
                  \E j \in DOMAIN Sent \ DOMAIN delivered : c = Sent[j]
           /\ \A j \in DOMAIN Sent \ DOMAIN delivered : Sent[j] \in Range(wire \o outbox)
<1>1. outbox \in Seq(Command) /\ wire \in Seq(Command) /\ delivered \in Seq(Command)
  BY Zenon DEF TransportTypeOK
<1>2. Sent' = delivered
  <2>1. outbox' = <<>> /\ wire' = <<>> /\ delivered' = delivered
    BY Zenon DEF Drop
  <2>2. delivered \o <<>> = delivered
    BY <1>1, ConcatEmptySeq, Zenon
  <2>3. QED
    BY <2>1, <2>2, Zenon DEF Sent
<1>3. PICK rest : rest = wire \o outbox
  BY Zenon
<1>4. rest \in Seq(Command) /\ Sent = delivered \o rest /\ Sent \in Seq(Command)
  BY <1>3, SentIs, Zenon
<1> HIDE DEF Sent
<1>5. /\ \A i \in DOMAIN delivered : i \in DOMAIN Sent /\ Sent[i] = delivered[i]
      /\ \A i \in DOMAIN rest : /\ i + Len(delivered) \in DOMAIN Sent \ DOMAIN delivered
                               /\ Sent[i + Len(delivered)] = rest[i]
      /\ \A j \in DOMAIN Sent \ DOMAIN delivered : /\ j - Len(delivered) \in DOMAIN rest
                                                   /\ Sent[j] = rest[j - Len(delivered)]
  BY <1>1, <1>4
<1>6. QED
  BY <1>2, <1>3, <1>5, Zenon DEF Range

(* An answered request keeps its input, its answer and its history.        *)
Kept ==
    \A q \in Req : reply[q] # None =>
        reply'[q] = reply[q] /\ task'[q] = task[q] /\ since[q] \subseteq since'[q]

LEMMA KeptByHandlers ==
    ASSUME TypeOK, NEW r \in Req, pc[r] # "done", \A q \in Req : since[q] \subseteq since'[q],
           \/ \E c : Finish(r, c)
           \/ \E l : Goto(r, l)
    PROVE  Kept
BY Zenon DEF TypeOK, Finish, Goto, Kept

LEMMA KeptBySteps ==
    ASSUME TypeOK, NEW r \in Req, pc[r] # "done", UNCHANGED since,
           (\E c : Finish(r, c)) \/ (\E l : Goto(r, l))
    PROVE  Kept
BY KeptByHandlers, Zenon

LEMMA KeptByMiddleware ==
    ASSUME TypeOK, NEW r \in Req, Middleware(r)
    PROVE  Kept
<1>1. pc[r] # "done" /\ ((\E c : Finish(r, c)) \/ (\E l : Goto(r, l)))
  BY Zenon DEF Middleware, ValidateSession, SessionAccepted, AuthorizeScan, FetchTarget,
         RequireLatest, Serve
<1>2. \A q \in Req : since[q] \subseteq since'[q]
  <2>1. UNCHANGED since \/ \E f : since' = [since EXCEPT ![r] = since[r] \cup f]
    BY Zenon DEF Middleware, ValidateSession, AuthorizeScan, FetchTarget, RequireLatest, Serve
  <2>2. QED
    BY <2>1, Zenon DEF TypeOK
<1>3. QED
  BY <1>1, <1>2, KeptByHandlers, Zenon

LEMMA KeptByReceive ==
    ASSUME TypeOK, NEW r \in Req, NEW q \in Inputs, Receive(r, q)
    PROVE  Kept
<1>1. reply[r] = None
  BY Zenon DEF Receive, TypeOK
<1>2. \A p \in Req \ {r} : reply'[p] = reply[p] /\ task'[p] = task[p] /\ since'[p] = since[p]
  BY Zenon DEF Receive, TypeOK
<1>3. QED
  BY <1>1, <1>2, Zenon DEF Kept

LEMMA KeptBySurroundings ==
    ASSUME TypeOK, Surroundings
    PROVE  Kept
<1>1. UNCHANGED <<reply, task>>
  BY Zenon DEF Surroundings, Tick, SessionEnds, ScanStarts, ScanCompletes, ScanDeleted, handlers
<1>2. Witness \/ UNCHANGED since
  BY Zenon DEF Surroundings, Tick, SessionEnds, ScanStarts, ScanCompletes, ScanDeleted
<1>3. \A q \in Req : since[q] \subseteq since'[q]
  BY <1>2, Zenon DEF Witness
<1>4. QED
  BY <1>1, <1>3, Zenon DEF Kept

(* What was rightly sent stays so.                                         *)
LEMMA KeptVouched ==
    ASSUME TransportTypeOK, SendInv, Kept
    PROVE  /\ \A i \in DOMAIN Sent : Vouched(Sent[i]) /\ reply'[Sent[i].event] = "accepted"
                                  /\ task'[Sent[i].event] = task[Sent[i].event]
                                  /\ since[Sent[i].event] \subseteq since'[Sent[i].event]
           /\ \A r \in lost : reply'[r] = "accepted"
<1>1. "accepted" # None
  BY NoneFacts, Zenon DEF Code
<1>2. \A i \in DOMAIN Sent : Vouched(Sent[i]) /\ Sent[i].event \in Req
  BY SentIs, Zenon DEF SendInv
<1>3. \A r \in lost : r \in Req /\ reply[r] = "accepted"
  BY Zenon DEF SendInv, TransportTypeOK
<1> HIDE DEF Sent
<1>4. QED
  BY <1>1, <1>2, <1>3, Zenon DEF Kept, Vouched

LEMMA KeptSend ==
    ASSUME TransportTypeOK, SendInv, Kept, Sent' = Sent, lost' = lost
    PROVE  SendInv'
<1>1. ASSUME NEW i \in DOMAIN Sent
      PROVE  Vouched(Sent[i])'
  <2>1. PICK c : c = Sent[i]
    BY Zenon
  <2>2. /\ Vouched(c) /\ reply'[c.event] = "accepted" /\ task'[c.event] = task[c.event]
        /\ since[c.event] \subseteq since'[c.event] /\ Sent'[i] = c
    BY <2>1, KeptVouched, Zenon
  <2> HIDE DEF Sent
  <2>3. QED
    BY <2>2, Zenon DEF Vouched, Named
<1> HIDE DEF Sent
<1>2. QED
  BY <1>1, KeptVouched, Zenon DEF SendInv

AllInv == TransportTypeOK /\ Inv /\ SendInv

(* A step that leaves the transport alone and keeps what is answered       *)
(* preserves the invariant if it preserves the middleware's.               *)
LEMMA QuietInv ==
    ASSUME AllInv, TypeOK', Inv', Kept, UNCHANGED transport
    PROVE  AllInv'
<1>1. Sent' = Sent /\ lost' = lost
  BY Zenon DEF transport, Sent
<1>2. TransportTypeOK'
  BY Zenon DEF AllInv, TransportTypeOK, transport
<1>3. QED
  BY <1>1, <1>2, KeptSend, Zenon DEF AllInv

LEMMA ParseInv ==
    ASSUME AllInv, NEW r \in Req, Parse(r)
    PROVE  AllInv'
<1> USE DEF AllInv, TransportTypeOK
<1>1. /\ pc[r] = "handler" /\ pc[r] \in InFlight /\ task[r].route = "assessment"
      /\ UNCHANGED <<discovery, since>> /\ UNCHANGED transport
  BY Zenon DEF Parse, InFlight
<1>2. CASE \E c \in {"AUTHZ_PRINCIPAL_REQUIRED", "assessment_transport_unavailable",
                     "DISCOVERY_UNAVAILABLE", "bad_request"} : Finish(r, c)
  <2>1. PICK c \in {"AUTHZ_PRINCIPAL_REQUIRED", "assessment_transport_unavailable",
                    "DISCOVERY_UNAVAILABLE", "bad_request"} : Finish(r, c)
    BY <1>2, Zenon
  <2>2. c \in Code /\ Grounded(r, c)
    BY Zenon DEF Code, Grounded
  <2>3. TypeOK' /\ Inv' /\ Kept
    BY <1>1, <2>1, <2>2, FinishInv, KeptBySteps, Zenon
  <2>4. QED
    BY <1>1, <2>3, QuietInv, Zenon
<1>3. CASE /\ Protected /\ task[r].context = Blank /\ Named(task[r]) # None
           /\ Goto(r, "canread")
  <2>1. Passed(r, "canread")
    <3>1. NamedScans(task[r]) = {Named(task[r])}
      <4>1. task[r].scan \in Id /\ "assessment" \notin WithBody
        BY <1>3, MiddlewareAssumption, Zenon DEF Named, WithBody
      <4>2. QED
        BY <1>1, <4>1, Zenon DEF Named, NamedScans
    <3>2. QED
      BY <1>1, <1>3, <3>1, AtStage, Zenon DEF Passed, InFlight, Handling
  <2>2. TypeOK' /\ Inv' /\ Kept
    BY <1>1, <1>3, <2>1, GotoInv, KeptBySteps, Zenon DEF InFlight
  <2>3. QED
    BY <1>1, <2>2, QuietInv, Zenon
<1>4. QED
  BY <1>2, <1>3, Zenon DEF Parse

LEMMA AuthorizeReadInv ==
    ASSUME AllInv, NEW r \in Req, AuthorizeRead(r)
    PROVE  AllInv'
<1> USE DEF AllInv, TransportTypeOK
<1>1. /\ pc[r] = "canread" /\ pc[r] \in InFlight
      /\ UNCHANGED <<discovery, since>> /\ UNCHANGED transport
  BY Zenon DEF AuthorizeRead, InFlight
<1>2. Passed(r, "canread") /\ task[r].token \in Token
      /\ NamedScans(task[r]) = {Named(task[r])}
  BY <1>1, AtStage, Zenon DEF Passed, Asking
<1>3. CASE Finish(r, "AUTHZ_SCAN_UNAVAILABLE")
  <2>1. TypeOK' /\ Inv' /\ Kept
    BY <1>1, <1>3, FinishInv, KeptBySteps, Zenon DEF Grounded, Code
  <2>2. QED
    BY <1>1, <2>1, QuietInv, Zenon
<1>4. CASE readable(Principal(r), Named(task[r])) /\ Goto(r, "source")
  <2>1. "readable" \in since[r]
    BY <1>1, <1>2, <1>4, NowHolds, Zenon DEF Principal
  <2>2. Passed(r, "source")
    BY <1>2, <2>1, Zenon DEF Passed, InFlight, Handling, Asking, NamesScan, WithBody
  <2>3. TypeOK' /\ Inv' /\ Kept
    BY <1>1, <1>4, <2>2, GotoInv, KeptBySteps, Zenon DEF InFlight
  <2>4. QED
    BY <1>1, <2>3, QuietInv, Zenon
<1>5. CASE ~readable(Principal(r), Named(task[r])) /\ Finish(r, "AUTHZ_SCAN_FORBIDDEN")
  <2>1. Grounded(r, "AUTHZ_SCAN_FORBIDDEN")
    BY <1>1, <1>2, <1>5, NowHolds, Zenon DEF Principal, Grounded
  <2>2. TypeOK' /\ Inv' /\ Kept
    BY <1>1, <1>5, <2>1, FinishInv, KeptBySteps, Zenon DEF Code
  <2>3. QED
    BY <1>1, <2>2, QuietInv, Zenon
<1>6. QED
  BY <1>3, <1>4, <1>5, Zenon DEF AuthorizeRead

LEMMA FetchSourceInv ==
    ASSUME AllInv, NEW r \in Req, FetchSource(r)
    PROVE  AllInv'
<1> USE DEF AllInv, TransportTypeOK
<1> DEFINE s == Named(task[r])
<1>1. /\ pc[r] = "source" /\ pc[r] \in InFlight
      /\ UNCHANGED <<discovery, since>> /\ UNCHANGED transport
  BY Zenon DEF FetchSource, InFlight
<1>2. Passed(r, "source") /\ task[r].token \in Token /\ NamedScans(task[r]) = {s}
  BY <1>1, AtStage, Zenon DEF Passed, Asking
<1>3. CASE \E c \in {"DISCOVERY_UNAVAILABLE", "bad_request"} : Finish(r, c)
  <2>1. PICK c \in {"DISCOVERY_UNAVAILABLE", "bad_request"} : Finish(r, c)
    BY <1>3, Zenon
  <2>2. c \in Code /\ Grounded(r, c)
    BY Zenon DEF Code, Grounded
  <2>3. TypeOK' /\ Inv' /\ Kept
    BY <1>1, <2>1, <2>2, FinishInv, KeptBySteps, Zenon
  <2>4. QED
    BY <1>1, <2>3, QuietInv, Zenon
<1>4. CASE /\ DetailStatus(r) = 404 \/ (DetailStatus(r) = 200 /\ ~IsDetailed(s))
           /\ Finish(r, "not_found")
  <2>1. ~readable(Principal(r), s) \/ ~IsDetailed(s)
    BY <1>4 DEF DetailStatus
  <2>2. "unreadable" \in since[r] \/ "undetailed" \in since[r]
    BY <1>1, <1>2, <2>1, NowHolds, Zenon DEF Principal
  <2>3. Grounded(r, "not_found") /\ "not_found" \in Code
    BY <2>2, Zenon DEF Grounded, Code
  <2>4. TypeOK' /\ Inv' /\ Kept
    BY <1>1, <1>4, <2>3, FinishInv, KeptBySteps
  <2>5. QED
    BY <1>1, <2>4, QuietInv, Zenon
<1>5. CASE DetailStatus(r) = 200 /\ IsDetailed(s) /\ Goto(r, "publish")
  <2>0. task[r].token \in sessions
    BY <1>5 DEF DetailStatus
  <2>1. "session" \in since[r]
    BY <1>1, <1>2, <2>0, NowHolds, Zenon
  <2>2. "detailed" \in since[r] /\ WalletOf[s] # None
    BY <1>1, <1>2, <1>5, NowHolds, Zenon DEF IsDetailed
  <2>3. Passed(r, "publish") /\ Goto(r, "publish") /\ "publish" \in InFlight
    BY <1>2, <1>5, <2>1, <2>2, Zenon DEF Passed, InFlight, Handling, Asking, NamesScan, WithBody
  <2>4. TypeOK' /\ Inv' /\ Kept
    BY <1>1, <2>3, GotoInv, KeptBySteps, Zenon
  <2>5. QED
    BY <1>1, <2>4, QuietInv, Zenon
<1>6. QED
  BY <1>3, <1>4, <1>5, Zenon DEF FetchSource

(* The command of a request that may publish, and that has sent none.      *)
LEMMA CommandOf ==
    ASSUME AllInv, NEW r \in Req, pc[r] = "publish"
    PROVE  /\ CommandFor(r) \in Command /\ Grounded(r, "accepted")
           /\ \A i \in DOMAIN Sent : Sent[i].event # r
           /\ r \notin lost
           /\ task[r].route = "assessment"
           /\ {"session", "readable", "detailed"} \subseteq since[r]
<1> USE DEF AllInv, TransportTypeOK
<1>1. pc[r] \in InFlight
  BY Zenon DEF InFlight
<1>2. task[r] \in Input /\ Passed(r, "publish")
  BY <1>1, AtStage, Zenon
<1>3. Named(task[r]) \in Scan
  BY <1>2, MiddlewareAssumption, Zenon DEF Passed, Named, Input
<1>4. WalletOf[Named(task[r])] \in Wallet
  BY <1>2, <1>3, MiddlewareAssumption, Zenon DEF Passed
<1>5. CommandFor(r) \in Command
  BY <1>3, <1>4, Zenon DEF CommandFor, Command
<1>6. {"session", "readable", "detailed"} \subseteq since[r] /\ task[r].route = "assessment"
  BY <1>2, Zenon DEF Passed, InFlight
<1>7. reply[r] # "accepted"
  BY NoneFacts, Zenon DEF TypeOK, Code
<1>8. Grounded(r, "accepted")
  BY <1>6, Zenon DEF Grounded, SessionPassed
<1>9. r \notin lost /\ \A i \in DOMAIN Sent : Sent[i].event # r
  BY <1>7, Zenon DEF SendInv, Vouched
<1>10. QED
  BY <1>5, <1>6, <1>8, <1>9, Zenon

LEMMA PublishInv ==
    ASSUME AllInv, NEW r \in Req, Publish(r)
    PROVE  AllInv'
<1> USE DEF AllInv, TransportTypeOK
<1>1. /\ pc[r] = "publish" /\ pc[r] \in InFlight
      /\ UNCHANGED <<discovery, since>> /\ UNCHANGED <<nats, wire, delivered, lost>>
  BY Zenon DEF Publish, InFlight
<1>2. CASE UNCHANGED outbox /\ \E c \in {"internal_error", "publish_failed"} : Finish(r, c)
  <2>1. PICK c \in {"internal_error", "publish_failed"} : Finish(r, c)
    BY <1>2, Zenon
  <2>2. c \in Code /\ Grounded(r, c)
    BY Zenon DEF Code, Grounded
  <2>3. TypeOK' /\ Inv' /\ Kept
    BY <1>1, <2>1, <2>2, FinishInv, KeptBySteps, Zenon
  <2>4. QED
    BY <1>1, <1>2, <2>3, QuietInv, Zenon DEF transport
<1>3. CASE /\ nats \in {"connected", "reconnecting"}
           /\ outbox' = Append(outbox, CommandFor(r))
           /\ Finish(r, "accepted")
  <2>1. TypeOK' /\ Inv' /\ Kept
    BY <1>1, <1>3, CommandOf, FinishInv, KeptBySteps, Zenon DEF Code
  <2>2. TransportTypeOK'
    BY <1>1, <1>3, <2>1, CommandOf
  <2>3. PICK c \in Command : c = CommandFor(r) /\ c.event = r
    BY <1>1, CommandOf, Zenon DEF CommandFor
  <2>4. /\ DOMAIN Sent' = DOMAIN Sent \cup {Len(Sent) + 1}
        /\ Sent'[Len(Sent) + 1] = c
        /\ \A i \in DOMAIN Sent : i # Len(Sent) + 1 /\ Sent'[i] = Sent[i]
    BY <1>1, <1>3, <2>3, SentAppended, Zenon
  <2>5. /\ reply'[r] = "accepted" /\ task'[r] = task[r] /\ r \notin lost'
        /\ \A i \in DOMAIN Sent : Sent[i].event # r
    BY <1>1, <1>3, CommandOf, Zenon DEF Finish, TypeOK
  <2>6. /\ reply'[c.event] = "accepted" /\ task'[c.event] = task[r]
        /\ task[r].route = "assessment"
        /\ c.scan = Named(task[r]) /\ c.subject = WalletOf[c.scan]
        /\ {"session", "readable", "detailed"} \subseteq since'[c.event]
    BY <1>1, <2>3, <2>5, CommandOf, Zenon DEF CommandFor
  <2> HIDE DEF Sent
  <2>7. ASSUME NEW i \in DOMAIN Sent'
        PROVE  Vouched(Sent[i])' /\ Sent'[i].event \notin lost'
    <3>1. CASE i \in DOMAIN Sent
      <4>1. PICK d : d = Sent[i]
        BY Zenon
      <4>2. /\ Vouched(d) /\ reply'[d.event] = "accepted" /\ task'[d.event] = task[d.event]
            /\ since[d.event] \subseteq since'[d.event] /\ Sent'[i] = d /\ d.event \notin lost'
        BY <1>1, <2>1, <2>4, <3>1, <4>1, KeptVouched, Zenon DEF SendInv
      <4>3. QED
        BY <4>2, Zenon DEF Vouched, Named
    <3>2. CASE i = Len(Sent) + 1
      <4>1. Sent'[i] = c
        BY <2>4, <3>2, Zenon
      <4>2. QED
        BY <2>3, <2>5, <2>6, <4>1, Zenon DEF Vouched, Named
    <3>3. QED
      BY <2>4, <3>1, <3>2, Zenon
  <2>8. \A i, j \in DOMAIN Sent' : Sent'[i].event = Sent'[j].event => i = j
    <3>1. \A i \in DOMAIN Sent : Sent'[i].event # r
      BY <2>4, <2>5, Zenon
    <3>2. \A i, j \in DOMAIN Sent : Sent'[i].event = Sent'[j].event => i = j
      BY <2>4, Zenon DEF SendInv
    <3>3. QED
      BY <2>3, <2>4, <3>1, <3>2, Zenon
  <2>9. \A q \in lost' : reply'[q] = "accepted"
    BY <1>1, <2>1, KeptVouched, Zenon
  <2>10. SendInv'
    BY <2>7, <2>8, <2>9, Zenon DEF SendInv
  <2>11. QED
    BY <2>1, <2>2, <2>10, Zenon
<1>4. QED
  BY <1>1, <1>2, <1>3, Zenon DEF Publish

(* The buffer is written, or a command arrives.                            *)
LEMMA SendingInv ==
    ASSUME AllInv, Flush \/ Arrive \/ Reconnect
    PROVE  AllInv'
<1> USE DEF AllInv
<1>1. UNCHANGED vars /\ lost' = lost
  BY Zenon DEF Flush, Arrive, Reconnect
<1>2. TypeOK' /\ Inv'
  BY <1>1, StutterInv, Zenon DEF TransportTypeOK
<1>3. TransportTypeOK'
  <2>1. CASE Flush \/ Reconnect
    <3>1. wire' = wire \o outbox /\ outbox' = <<>> /\ delivered' = delivered /\ nats' = "connected"
      BY <2>1, Zenon DEF Flush, Reconnect
    <3>2. wire' \in Seq(Command) /\ outbox' \in Seq(Command) /\ delivered' \in Seq(Command)
      BY <3>1 DEF TransportTypeOK
    <3>3. QED
      BY <1>1, <1>2, <3>1, <3>2, Zenon DEF TransportTypeOK
  <2>2. CASE Arrive
    <3>1. /\ delivered' = Append(delivered, Head(wire)) /\ wire' = Tail(wire) /\ wire # <<>>
          /\ outbox' = outbox /\ nats' = nats
      BY <2>2, Zenon DEF Arrive
    <3>2. wire' \in Seq(Command) /\ outbox' \in Seq(Command) /\ delivered' \in Seq(Command)
      BY <3>1 DEF TransportTypeOK
    <3>3. QED
      BY <1>1, <1>2, <3>1, <3>2, Zenon DEF TransportTypeOK
  <2>3. QED
    BY <2>1, <2>2, Zenon
<1>4. Kept
  BY <1>1, Zenon DEF Kept, vars, handlers
<1>5. QED
  BY <1>1, <1>2, <1>3, <1>4, SentSame, KeptSend, Zenon

(* The connection is lost or given up, with what it has.                   *)
LEMMA DropInv ==
    ASSUME AllInv, Disconnect \/ Close
    PROVE  AllInv'
<1> USE DEF AllInv
<1>1. /\ Drop /\ UNCHANGED vars /\ delivered' = delivered /\ outbox' = <<>> /\ wire' = <<>>
      /\ lost' = lost \cup {c.event : c \in Range(wire \o outbox)}
      /\ nats' \in {"reconnecting", "closed"}
  BY Zenon DEF Disconnect, Close, Drop
<1>2. TypeOK' /\ Inv'
  BY <1>1, StutterInv, Zenon DEF TransportTypeOK
<1>3. \A c \in Range(wire \o outbox) :
          \E j \in DOMAIN Sent \ DOMAIN delivered : c = Sent[j] /\ c.event \in Req
  BY <1>1, SentDropped, SentIs, Zenon
<1>4. TransportTypeOK'
  <2>1. wire' \in Seq(Command) /\ outbox' \in Seq(Command) /\ delivered' \in Seq(Command)
    BY <1>1 DEF TransportTypeOK
  <2>2. lost' \subseteq Req
    BY <1>1, <1>3, Zenon DEF TransportTypeOK
  <2>3. QED
    BY <1>1, <1>2, <2>1, <2>2, Zenon DEF TransportTypeOK
<1>5. /\ Sent' = delivered
      /\ \A i \in DOMAIN delivered : i \in DOMAIN Sent /\ Sent[i] = delivered[i]
  BY <1>1, SentDropped, Zenon
<1>6. UNCHANGED <<reply, task, since>>
  BY <1>1, Zenon DEF vars, handlers
<1> HIDE DEF Sent
<1>7. \A q \in lost' : reply'[q] = "accepted"
  <2>1. ASSUME NEW c \in Range(wire \o outbox)
        PROVE  reply[c.event] = "accepted"
    <3>1. PICK j \in DOMAIN Sent : c = Sent[j]
      BY <1>3, Zenon
    <3>2. Vouched(c)
      BY <3>1, Zenon DEF SendInv
    <3>3. QED
      BY <3>2, Zenon DEF Vouched
  <2>2. QED
    BY <1>1, <1>6, <2>1, Zenon DEF SendInv
<1>8. ASSUME NEW i \in DOMAIN delivered
      PROVE  Vouched(delivered[i]) /\ delivered[i].event \notin lost'
  <2>1. i \in DOMAIN Sent /\ Sent[i] = delivered[i]
    BY <1>5, Zenon
  <2>2. Vouched(delivered[i]) /\ delivered[i].event \notin lost
    BY <2>1, Zenon DEF SendInv
  <2>3. \A c \in Range(wire \o outbox) : c.event # delivered[i].event
    BY <1>3, <2>1, Zenon DEF SendInv
  <2>4. QED
    BY <1>1, <2>2, <2>3, Zenon
<1>9. ASSUME NEW i \in DOMAIN Sent'
      PROVE  Vouched(Sent[i])' /\ Sent'[i].event \notin lost'
  <2>1. PICK d : d = delivered[i]
    BY Zenon
  <2>2. Vouched(d) /\ d.event \notin lost' /\ Sent'[i] = d
    BY <1>5, <1>8, <2>1, Zenon
  <2>3. QED
    BY <1>6, <2>2, Zenon DEF Vouched, Named
<1>10. \A i, j \in DOMAIN Sent' : Sent'[i].event = Sent'[j].event => i = j
  BY <1>5, Zenon DEF SendInv
<1>11. QED
  BY <1>2, <1>4, <1>7, <1>9, <1>10, Zenon DEF SendInv

LEMMA NextAllInv ==
    ASSUME AllInv, [NextAll]_allVars
    PROVE  AllInv'
<1> USE DEF AllInv, TransportTypeOK
<1>1. ASSUME NEW r \in Req, Handler(r)
      PROVE  AllInv'
  BY <1>1, ParseInv, AuthorizeReadInv, FetchSourceInv, PublishInv, Zenon DEF Handler
<1>2. ASSUME NEW r \in Req, Middleware(r), UNCHANGED transport
      PROVE  AllInv'
  BY <1>2, MiddlewareInv, KeptByMiddleware, QuietInv, Zenon
<1>3. ASSUME NEW r \in Req, NEW q \in Inputs, Receive(r, q), UNCHANGED transport
      PROVE  AllInv'
  BY <1>3, ReceiveInv, KeptByReceive, QuietInv, Zenon
<1>4. CASE Surroundings /\ UNCHANGED transport
  BY <1>4, SurroundingsInv, KeptBySurroundings, QuietInv, Zenon
<1>5. CASE UNCHANGED allVars
  <2>1. UNCHANGED vars /\ UNCHANGED transport
    BY <1>5, Zenon DEF allVars
  <2>2. TypeOK' /\ Inv'
    BY <2>1, StutterInv, Zenon
  <2>3. Kept
    BY <2>1, Zenon DEF Kept, vars, handlers
  <2>4. QED
    BY <2>1, <2>2, <2>3, QuietInv, Zenon
<1> HIDE DEF AllInv
<1>6. QED
  BY <1>1, <1>2, <1>3, <1>4, <1>5, SendingInv, DropInv, Zenon DEF NextAll, Step
-------------------------------------------------------------------------------
(* The middleware's invariant and the one about commands hold in every     *)
(* reachable state of the assessment route, its middleware, Discovery and  *)
(* the NATS client.                                                        *)
THEOREM AssessmentInvariant == SpecAll => []AllInv
<1>1. InitAll => AllInv
  <2> SUFFICES ASSUME InitAll PROVE AllInv
    BY Zenon
  <2>1. TypeOK /\ Inv
    BY InitInv, Zenon DEF InitAll
  <2>2. /\ outbox = <<>> /\ wire = <<>> /\ delivered = <<>> /\ lost = {}
        /\ nats \in {"connected", "unset"}
    BY Zenon DEF InitAll
  <2>3. Sent = <<>>
    BY <2>2 DEF Sent
  <2>4. SendInv
    <3> HIDE DEF Sent
    <3>1. QED
      BY <2>2, <2>3 DEF SendInv
  <2>5. TransportTypeOK
    BY <2>1, <2>2 DEF TransportTypeOK
  <2>6. QED
    BY <2>1, <2>4, <2>5, Zenon DEF AllInv
<1>2. AllInv /\ [NextAll]_allVars => AllInv'
  BY NextAllInv, Zenon
<1>3. QED
  BY <1>1, <1>2, PTL DEF SpecAll

(* Every variable of the composition stays in its domain, and no command   *)
(* waits for a connection that is gone.                                    *)
THEOREM TransportTheorem == SpecAll => []TransportTypeOK
<1>1. AllInv => TransportTypeOK
  BY Zenon DEF AllInv
<1>2. QED
  BY <1>1, AssessmentInvariant, PTL

(* A command that is buffered or sent was asked for by a request whose     *)
(* session, whose right to read and whose scan's result were there during  *)
(* the request, also if the session check got an answer that said nothing. *)
THEOREM CommandsTheorem == SpecAll => []CommandsAreVouched
<1>1. AllInv => CommandsAreVouched
  BY Zenon DEF AllInv, SendInv, Vouched, CommandsAreVouched, Range
<1>2. QED
  BY <1>1, AssessmentInvariant, PTL

(* No command is sent twice, none after it was lost, and none for a        *)
(* request that was refused.                                               *)
THEOREM SentOnceTheorem == SpecAll => []SentOnceIfAccepted
<1>1. AllInv => SentOnceIfAccepted
  BY DEF AllInv, SendInv, Vouched, SentOnceIfAccepted, Range
<1>2. QED
  BY <1>1, AssessmentInvariant, PTL
-------------------------------------------------------------------------------
(* Request e has a command, or the connection took it.                     *)
Accounted(e) == e \in lost \/ \E i \in DOMAIN Sent : Sent[i].event = e

(* No step but the loss of the connection takes a command away.            *)
LEMMA AccountedStays ==
    ASSUME TransportTypeOK, Inv, SendInv, [NextAll]_allVars, NEW e \in Req, Accounted(e)
    PROVE  Accounted(e)'
<1>1. CASE UNCHANGED transport
  <2>1. Sent' = Sent /\ lost' = lost
    BY <1>1, Zenon DEF transport, Sent
  <2> HIDE DEF Sent
  <2>2. QED
    BY <2>1, Zenon DEF Accounted
<1>2. ASSUME NEW r \in Req, Publish(r)
      PROVE  Accounted(e)'
  <2>1. /\ UNCHANGED <<wire, delivered, lost>> /\ pc[r] = "publish"
        /\ outbox' = outbox \/ outbox' = Append(outbox, CommandFor(r))
    BY <1>2, Zenon DEF Publish
  <2>2. CASE outbox' = outbox
    <3>1. Sent' = Sent
      BY <2>1, <2>2, Zenon DEF Sent
    <3> HIDE DEF Sent
    <3>2. QED
      BY <2>1, <3>1, Zenon DEF Accounted
  <2>3. CASE outbox' = Append(outbox, CommandFor(r))
    <3>1. CommandFor(r) \in Command
      BY <2>1, CommandOf, Zenon DEF AllInv
    <3>2. \A i \in DOMAIN Sent : i \in DOMAIN Sent' /\ Sent'[i] = Sent[i]
      BY <2>1, <2>3, <3>1, SentAppended, Zenon
    <3> HIDE DEF Sent
    <3>3. QED
      BY <2>1, <3>2, Zenon DEF Accounted
  <2>4. QED
    BY <2>1, <2>2, <2>3, Zenon
<1>3. CASE Flush \/ Arrive \/ Reconnect
  <2>1. Sent' = Sent /\ lost' = lost
    BY <1>3, SentSame, Zenon DEF Flush, Arrive, Reconnect
  <2> HIDE DEF Sent
  <2>2. QED
    BY <2>1, Zenon DEF Accounted
<1>4. CASE Disconnect \/ Close
  <2>1. Drop /\ lost' = lost \cup {c.event : c \in Range(wire \o outbox)}
    BY <1>4, Zenon DEF Disconnect, Close, Drop
  <2>2. /\ Sent' = delivered
        /\ \A i \in DOMAIN delivered : i \in DOMAIN Sent /\ Sent[i] = delivered[i]
        /\ \A j \in DOMAIN Sent \ DOMAIN delivered : Sent[j] \in Range(wire \o outbox)
    BY <2>1, SentDropped, Zenon
  <2> HIDE DEF Sent
  <2>3. QED
    BY <2>1, <2>2, Zenon DEF Accounted
<1>5. QED
  BY <1>1, <1>2, <1>3, <1>4, Zenon
     DEF NextAll, Step, Handler, Parse, AuthorizeRead, FetchSource, allVars, transport

(* 202 is answered by Publish alone, as it buffers the command.            *)
LEMMA WhoAccepts ==
    ASSUME TypeOK, [NextAll]_allVars, NEW r \in Req,
           reply'[r] = "accepted", reply[r] # "accepted"
    PROVE  pc[r] = "publish" /\ outbox' = Append(outbox, CommandFor(r))
           /\ UNCHANGED <<wire, delivered, lost>>
<1>1. ASSUME NEW q \in Req, NEW code, Finish(q, code)
      PROVE  q = r /\ code = "accepted"
  BY <1>1, Zenon DEF Finish, TypeOK
<1>2. ASSUME NEW q \in Req, Middleware(q)
      PROVE  FALSE
  <2>1. CASE ValidateSession(q)
    BY <1>1, <2>1 DEF ValidateSession, SessionAccepted, Goto, scanRefusal, bodyRefusal, queryRefusal
  <2>2. CASE AuthorizeScan(q)
    BY <1>1, <2>2 DEF AuthorizeScan, Goto
  <2>3. CASE FetchTarget(q)
    BY <1>1, <2>3 DEF FetchTarget, Goto
  <2>4. CASE RequireLatest(q)
    BY <1>1, <2>4 DEF RequireLatest, Goto
  <2>5. CASE Serve(q)
    BY <1>1, <2>5 DEF Serve
  <2>6. QED
    BY <1>2, <2>1, <2>2, <2>3, <2>4, <2>5, Zenon DEF Middleware
<1>3. ASSUME NEW q \in Req, NEW in \in Inputs, Receive(q, in)
      PROVE  FALSE
  BY <1>3, NoneFacts, Zenon DEF Receive, TypeOK, Code
<1>4. ASSUME NEW q \in Req, Handler(q)
      PROVE  pc[r] = "publish" /\ outbox' = Append(outbox, CommandFor(r))
             /\ UNCHANGED <<wire, delivered, lost>>
  BY <1>1, <1>4 DEF Handler, Parse, AuthorizeRead, FetchSource, Publish, Goto
<1>5. CASE Surroundings \/ Flush \/ Arrive \/ Disconnect \/ Reconnect \/ Close
              \/ UNCHANGED allVars
  BY <1>5, Zenon DEF Surroundings, Tick, SessionEnds, ScanStarts, ScanCompletes, ScanDeleted,
         Flush, Arrive, Disconnect, Reconnect, Close, Drop, allVars, vars, handlers
<1>6. QED
  BY <1>2, <1>3, <1>4, <1>5, Zenon DEF NextAll, Step

(* The command of an accepted request is lost only with a connection, for  *)
(* any number of requests and any order of publishing, flushing, arriving  *)
(* and losing the connection.                                              *)
THEOREM AcceptedTheorem == SpecAll => []LostOnlyWithConnection
<1>1. InitAll => LostOnlyWithConnection
  BY NoneFacts, Zenon DEF InitAll, Init, LostOnlyWithConnection, Code
<1>2. AllInv /\ LostOnlyWithConnection /\ [NextAll]_allVars => LostOnlyWithConnection'
  <2> SUFFICES ASSUME AllInv, TransportTypeOK, LostOnlyWithConnection, [NextAll]_allVars,
                      NEW r \in Req, reply'[r] = "accepted"
               PROVE  Accounted(r)'
    BY Zenon DEF AllInv, LostOnlyWithConnection, Accounted, Range
  <2>1. CASE reply[r] = "accepted"
    <3>1. Accounted(r)
      BY <2>1, Zenon DEF LostOnlyWithConnection, Accounted, Range
    <3>2. QED
      BY <3>1, AccountedStays, Zenon DEF AllInv
  <2>2. CASE reply[r] # "accepted"
    <3>1. pc[r] = "publish" /\ outbox' = Append(outbox, CommandFor(r))
          /\ UNCHANGED <<wire, delivered, lost>>
      BY <2>2, WhoAccepts, Zenon DEF TransportTypeOK
    <3>2. CommandFor(r) \in Command /\ CommandFor(r).event = r
      BY <3>1, CommandOf, Zenon DEF CommandFor
    <3>3. Len(Sent) + 1 \in DOMAIN Sent' /\ Sent'[Len(Sent) + 1] = CommandFor(r)
      BY <3>1, <3>2, SentAppended, Zenon
    <3> HIDE DEF Sent
    <3>4. QED
      BY <3>2, <3>3, Zenon DEF Accounted
  <2>3. QED
    BY <2>1, <2>2, Zenon
<1>3. QED
  BY <1>1, <1>2, AssessmentInvariant, PTL DEF SpecAll
================================================================================
