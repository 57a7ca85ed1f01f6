--------------------------- MODULE MCAuthMiddleware ---------------------------
(* An instance of the middleware for one request of any kind (requests     *)
(* share nothing but Discovery): two users, two scans of one wallet and    *)
(* one spelled in two ways, a TLS scan, and an id that is no UUID.         *)
EXTENDS AuthMiddleware, TLC

CONSTANTS u1, u2, w1, t1, t2, t3, s1, s2, s3

MCUserOf   == (t1 :> u1) @@ (t2 :> u2) @@ (t3 :> Blank)
MCExpiryOf == (t1 :> 0 - 1) @@ (t2 :> 1) @@ (t3 :> 1)
MCScanOf   == ("s1" :> s1) @@ ("S1" :> s1) @@ ("s2" :> s2) @@ ("s3" :> s3)
                @@ ("no uuid" :> None)
MCOwnerOf  == (s1 :> u1) @@ (s2 :> u1) @@ (s3 :> u1)
MCWalletOf == (s1 :> w1) @@ (s2 :> w1) @@ (s3 :> None)

Ask(route, token, scan) == [route |-> route, token |-> token, body |-> "object",
                            scan |-> scan, context |-> Blank, id |-> FALSE]

(* A complete environment, and others in which one thing is different.  The *)
(* last ones do not start.                                                 *)
Complete == [auth |-> "unset", session |-> TRUE, scans |-> TRUE, discovery |-> TRUE, nats |-> TRUE,
             store |-> "unset", persistence |-> TRUE, token |-> TRUE,
             catalogue |-> TRUE, reachable |-> TRUE, dev |-> FALSE]

MCEnvironments ==
    {Complete,
     [Complete EXCEPT !.auth = "other", !.discovery = FALSE],
     [Complete EXCEPT !.auth = "on", !.scans = FALSE, !.store = "memory", !.dev = TRUE],
     [Complete EXCEPT !.auth = "off", !.session = FALSE],
     [Complete EXCEPT !.auth = "other", !.session = FALSE],
     [Complete EXCEPT !.store = "memory"],
     [Complete EXCEPT !.token = FALSE],
     [Complete EXCEPT !.reachable = FALSE]}

(* Nothing can happen to requests that are all answered.                   *)
Unfinished == \E r \in Req : pc[r] # "done"

(* Every token on a route without a scan, and every kind of scan id on     *)
(* every route that takes one.                                             *)
MCInputs ==
    {Ask(route, t1, Blank) : route \in Class}
        \cup {Ask("read", token, Blank) : token \in {t2, t3, Blank, Invalid}}
        \cup {Ask(route, t1, "s1") : route \in {"list", "post", "assist"}}
        \cup {Ask(route, t2, "s1") : route \in {"post", "explore"}}
        \cup {Ask("explore", t1, id) : id \in {"s1", "s2", "s3", "no uuid", Invalid}}
        \cup {[Ask("list", t1, "s1") EXCEPT !.id = TRUE], Ask("list", t1, "no uuid")}
        \cup {[Ask("explore", t1, "s1") EXCEPT !.context = id] : id \in {"s1", "S1", "s2", Invalid}}
        \cup {[Ask("explore", t1, Blank) EXCEPT !.context = "s2"]}
        \cup {[Ask("post", t1, Blank) EXCEPT !.body = body] : body \in {"other", "unreadable"}}
===============================================================================
