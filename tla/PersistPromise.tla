---------------------------- MODULE PersistPromise ----------------------------
(***************************************************************************)
(* What POST /policies promises its clients about rows and replies.  A     *)
(* request makes one row at most, under an id of its own.  It is answered  *)
(* once: with success only when the row is there, and with a refusal only  *)
(* when there is none; after a refusal no row comes.  After a reply that   *)
(* leaves the outcome open the row may still come.  No clock, no signature *)
(* and no call to another service appears here.                            *)
(***************************************************************************)
EXTENDS Naturals

CONSTANTS Req, Route, Code,
          Undecided,   \* the replies that do not rule a row out
          Ok, None

VARIABLES rows,        \* id and request of every row ever made
          nextId, reply

vars == <<rows, nextId, reply>>

Init ==
    /\ rows = {} /\ nextId = 1
    /\ reply = [r \in Req |-> None]

HasRow(r) == \E x \in rows : x.by = r

Store(r) ==
    /\ Route[r] = "persist" /\ ~HasRow(r)
    /\ reply[r] \in Undecided \cup {None}
    /\ rows' = rows \cup {[id |-> nextId, by |-> r]}
    /\ nextId' = nextId + 1
    /\ UNCHANGED reply

Answer(r, code) ==
    /\ reply[r] = None
    /\ Route[r] = "persist" => /\ code = Ok => HasRow(r)
                               /\ code \notin Undecided => ~HasRow(r)
    /\ reply' = [reply EXCEPT ![r] = code]
    /\ UNCHANGED <<rows, nextId>>

Next == \E r \in Req : Store(r) \/ \E code \in Code : Answer(r, code)

Spec == Init /\ [][Next]_vars
===============================================================================
