-------------------------- MODULE AssessmentRequest --------------------------
(***************************************************************************)
(* POST /policies/assessment/request behind the middleware: authorize the  *)
(* scan (a refusal is 404 here), read it from Discovery, and publish one   *)
(* policy.assessment.requested command over NATS.                          *)
(*                                                                         *)
(* natsConnPublisher.Publish calls nats.Conn.Publish and nothing waits for *)
(* the server: the client library (external) buffers the message, writes   *)
(* its buffer to the connection a little later, and nobody acknowledges    *)
(* it.  When the connection is lost, what is buffered or under way is lost *)
(* with it.  While it is lost the library buffers up to a limit and tries  *)
(* to reconnect a bounded number of times; then the connection closes for  *)
(* good, what is buffered is lost, and Publish fails.                      *)
(***************************************************************************)
EXTENDS AuthMiddleware, Sequences, Functions

VARIABLES
    nats,       \* "unset" (CPM_NATS_URL is empty), or the connection's state
    outbox,     \* commands in the NATS client's buffer, oldest first
    wire,       \* commands written to the connection, oldest first
    delivered,  \* commands the NATS server received, oldest first
    lost        \* history: requests whose command a lost connection took
                \* with it

transport == <<nats, outbox, wire, delivered, lost>>
allVars   == <<vars, transport>>

(* A command: the request it answers stands for its fresh event id.        *)
Command == [event : Req, scan : Scan, subject : Wallet]

InitAll ==
    /\ Init
    /\ nats = IF env.nats THEN "connected" ELSE "unset"
    /\ outbox = <<>> /\ wire = <<>> /\ delivered = <<>> /\ lost = {}
-------------------------------------------------------------------------------
(* The handler up to its first remote call: the principal, the             *)
(* preconditions, then the body.                                           *)
Parse(r) ==
    LET q == task[r]
    IN  /\ pc[r] = "handler" /\ q.route = "assessment"
        /\ IF ~Protected THEN Finish(r, "AUTHZ_PRINCIPAL_REQUIRED")
           ELSE IF nats = "unset" THEN Finish(r, "assessment_transport_unavailable")
           ELSE IF ~env.discovery THEN Finish(r, "DISCOVERY_UNAVAILABLE")
           ELSE IF q.body # "object" \/ q.context # Blank \/ Named(q) = None
           THEN Finish(r, "bad_request")
           ELSE Goto(r, "canread")
        /\ UNCHANGED <<discovery, since, transport>>

(* Replaces AuthorizeRead in a mutation run: it waits for a usable answer. *)
AuthorizeReadNoTimeout(r) ==
    /\ pc[r] = "canread"
    /\ env.scans /\ readable(Principal(r), Named(task[r]))
    /\ Goto(r, "source")
    /\ UNCHANGED <<discovery, since, transport>>

(* authorizeScanReadForAssessment *)
AuthorizeRead(r) ==
    /\ pc[r] = "canread"
    /\ \/ Finish(r, "AUTHZ_SCAN_UNAVAILABLE")
       \/ /\ env.scans
          /\ IF readable(Principal(r), Named(task[r])) THEN Goto(r, "source")
             ELSE Finish(r, "AUTHZ_SCAN_FORBIDDEN")
    /\ UNCHANGED <<discovery, since, transport>>

(* Replaces FetchSource in a mutation run: a scan without a result passes. *)
FetchSourceAnyResult(r) ==
    LET s == Named(task[r])
    IN  /\ pc[r] = "source"
        /\ \/ Finish(r, "DISCOVERY_UNAVAILABLE")
           \/ /\ DetailStatus(r) = 404
              /\ Finish(r, "not_found")
           \/ /\ DetailStatus(r) = 200 /\ WalletOf[s] # None
              /\ Goto(r, "publish") \/ Finish(r, "bad_request")
        /\ UNCHANGED <<discovery, since, transport>>

(* fetchWalletScanAssessmentSource.  Whether the detail makes a valid      *)
(* observation (observationFromWalletPolicyContext) is left open.          *)
FetchSource(r) ==
    LET s == Named(task[r])
    IN  /\ pc[r] = "source"
        /\ \/ Finish(r, "DISCOVERY_UNAVAILABLE")
           \/ /\ DetailStatus(r) = 404 \/ (DetailStatus(r) = 200 /\ ~IsDetailed(s))
              /\ Finish(r, "not_found")
           \/ /\ DetailStatus(r) = 200 /\ IsDetailed(s)
              /\ Goto(r, "publish") \/ Finish(r, "bad_request")
        /\ UNCHANGED <<discovery, since, transport>>

CommandFor(r) ==
    LET s == Named(task[r]) IN [event |-> r, scan |-> s, subject |-> WalletOf[s]]

(* Replaces Publish in a mutation run: a publish error is only logged.     *)
PublishErrorIgnored(r) ==
    /\ pc[r] = "publish"
    /\ \/ /\ Finish(r, "accepted")
          /\ UNCHANGED outbox
       \/ /\ nats \in {"connected", "reconnecting"}
          /\ outbox' = Append(outbox, CommandFor(r))
          /\ Finish(r, "accepted")
    /\ UNCHANGED <<discovery, since, nats, wire, delivered, lost>>

(* Replaces Publish in a mutation run: the command is buffered before the  *)
(* connection is looked at.                                                *)
PublishThenCheck(r) ==
    /\ pc[r] = "publish"
    /\ outbox' = Append(outbox, CommandFor(r))
    /\ Finish(r, IF nats = "connected" THEN "accepted" ELSE "publish_failed")
    /\ UNCHANGED <<discovery, since, nats, wire, delivered, lost>>

(* Replaces Publish in a mutation run: a closed connection goes unnoticed. *)
PublishUnchecked(r) ==
    /\ pc[r] = "publish"
    /\ outbox' = Append(outbox, CommandFor(r))
    /\ Finish(r, "accepted")
    /\ UNCHANGED <<discovery, since, nats, wire, delivered, lost>>

(* publishPolicyAssessmentRequest.  No event id can be allocated; Publish  *)
(* fails, as it always does once the connection is closed, and may do when *)
(* its buffer is full, the command too large or a write fails; or the      *)
(* command is buffered.                                                    *)
Publish(r) ==
    /\ pc[r] = "publish"
    /\ \/ /\ Finish(r, "internal_error") \/ Finish(r, "publish_failed")
          /\ UNCHANGED outbox
       \/ /\ nats \in {"connected", "reconnecting"}
          /\ outbox' = Append(outbox, CommandFor(r))
          /\ Finish(r, "accepted")
    /\ UNCHANGED <<discovery, since, nats, wire, delivered, lost>>

Handler(r) == Parse(r) \/ AuthorizeRead(r) \/ FetchSource(r) \/ Publish(r)

-------------------------------------------------------------------------------
(* The NATS client library and the network.                                *)

(* The flusher writes the buffer to the connection.                        *)
Flush ==
    /\ nats = "connected" /\ outbox # <<>>
    /\ wire' = wire \o outbox /\ outbox' = <<>>
    /\ UNCHANGED <<vars, nats, delivered, lost>>

Arrive ==
    /\ wire # <<>>
    /\ delivered' = Append(delivered, Head(wire)) /\ wire' = Tail(wire)
    /\ UNCHANGED <<vars, nats, outbox, lost>>

(* What is buffered or under way is gone.                                  *)
Drop ==
    /\ outbox' = <<>> /\ wire' = <<>>
    /\ lost' = lost \cup {c.event : c \in Range(wire \o outbox)}
    /\ UNCHANGED <<vars, delivered>>

Disconnect ==
    /\ nats = "connected" /\ nats' = "reconnecting"
    /\ Drop

(* What was published in the meantime is written first.                    *)
Reconnect ==
    /\ nats = "reconnecting" /\ nats' = "connected"
    /\ wire' = wire \o outbox /\ outbox' = <<>>
    /\ UNCHANGED <<vars, delivered, lost>>

Close ==
    /\ nats = "reconnecting" /\ nats' = "closed"
    /\ Drop

Step(r) == Handler(r) \/ (Middleware(r) /\ UNCHANGED transport)

NextAll ==
    \/ \E r \in Req : Step(r)
    \/ \E r \in Req, q \in Inputs : Receive(r, q) /\ UNCHANGED transport
    \/ Surroundings /\ UNCHANGED transport
    \/ Flush \/ Arrive \/ Disconnect \/ Reconnect \/ Close

(* Go schedules every goroutine and every remote call has a timeout, so a  *)
(* request's next step is taken.  The library flushes while it is          *)
(* connected, what is written to a connection that lasts arrives, and a    *)
(* disconnected client reconnects or gives up.                             *)
Fairness ==
    /\ \A r \in Req : WF_allVars(Step(r))
    /\ WF_allVars(Flush) /\ WF_allVars(Arrive)
    /\ WF_allVars(Reconnect \/ Close)

SpecAll == InitAll /\ [][NextAll]_allVars /\ Fairness
-------------------------------------------------------------------------------
(* The commands that are at the server, under way or buffered, in order.   *)
Sent == delivered \o wire \o outbox

(* The middleware's variables, the connection and the buffer hold values   *)
(* of their types, nothing is under way on a connection that is lost, and  *)
(* commands wait only for one that can still send them.                    *)
TransportTypeOK ==
    /\ TypeOK
    /\ nats \in {"unset", "connected", "reconnecting", "closed"}
    /\ outbox \in Seq(Command) /\ wire \in Seq(Command) /\ delivered \in Seq(Command)
    /\ lost \subseteq Req
    /\ nats # "connected" => wire = <<>>
    /\ nats \in {"unset", "closed"} => outbox = <<>>

(* A command that is buffered or sent was asked for by an assessment       *)
(* request whose session was open, whose user could read the command's     *)
(* scan and whose scan had a result on the command's wallet, each at some  *)
(* moment of the request.  The session was really open, whatever answer    *)
(* the session check got: the detail is read with the client's token.      *)
CommandsAreVouched ==
    \A c \in Range(Sent) :
        /\ task[c.event].route = "assessment"
        /\ c.scan = Named(task[c.event]) /\ c.subject = WalletOf[c.scan]
        /\ {"session", "readable", "detailed"} \subseteq since[c.event]

(* What the client is told agrees with what is sent: a command is sent at  *)
(* most once, also after a connection was lost with it, and only for a     *)
(* request that is answered 202; one refused with another code sends none. *)
SentOnceIfAccepted ==
    /\ \A c \in Range(Sent) : reply[c.event] = "accepted" /\ c.event \notin lost
    /\ \A i, j \in DOMAIN Sent : Sent[i].event = Sent[j].event => i = j

(* The command of a request answered 202 is buffered, under way or at the  *)
(* server, unless it was buffered or under way when the connection was     *)
(* lost or given up: publishing loses none, and neither does the wait for  *)
(* a connection that comes back.                                           *)
LostOnlyWithConnection ==
    \A r \in Req : reply[r] = "accepted" =>
        r \in lost \/ \E c \in Range(Sent) : c.event = r

(* A command that was accepted does not stay in the service for ever: the  *)
(* server receives it, or it is lost with the connection.                  *)
AcceptedIsSettled ==
    \A r \in Req : (reply[r] = "accepted") ~>
        (r \in lost \/ \E c \in Range(delivered) : c.event = r)

(* Every request that is received is eventually answered.                  *)
EveryRequestAnswered == \A r \in Req : (pc[r] # "idle") ~> (pc[r] = "done")
===============================================================================
