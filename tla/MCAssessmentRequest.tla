------------------------- MODULE MCAssessmentRequest -------------------------
(* An instance of the assessment route and the middleware before it: two   *)
(* requests about one scan of a wallet, by its user or by nobody.          *)
EXTENDS AssessmentRequest, TLC

CONSTANTS u1, w1, t1, s1

MCUserOf   == t1 :> u1
MCExpiryOf == t1 :> 1
MCScanOf   == [i \in Id |-> s1]
MCOwnerOf  == [s \in Scan |-> u1]
MCWalletOf == [s \in Scan |-> w1]

Ask(token) == [route |-> "assessment", token |-> token, body |-> "object",
               scan |-> "s1", context |-> Blank, id |-> FALSE]

Complete == [auth |-> "unset", session |-> TRUE, scans |-> TRUE, discovery |-> TRUE, nats |-> TRUE,
             store |-> "unset", persistence |-> TRUE, token |-> TRUE,
             catalogue |-> TRUE, reachable |-> TRUE, dev |-> FALSE]

MCEnvironments == {Complete, [Complete EXCEPT !.nats = FALSE, !.reachable = FALSE],
                   [Complete EXCEPT !.discovery = FALSE], [Complete EXCEPT !.auth = "off"]}

MCInputs == {Ask(t1), Ask(Blank)}
===============================================================================
