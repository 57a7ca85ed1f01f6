----------------------------- MODULE EngagementWire -----------------------------
(***************************************************************************)
(* PersistFlow with the texts its messages stand for and the JSON its      *)
(* payloads stand for.  PersistFlow names a payload's digest and compares  *)
(* a message's fields; here both are computed from what is really sent, at *)
(* every request PersistFlow reaches.                                      *)
(***************************************************************************)
EXTENDS PersistFlow, AuthorizationText, PayloadDigest

CONSTANTS Tree,    \* Tree[p]: payload p as json.Unmarshal decodes it
          Sha(_)   \* SHA-256 of the canonical bytes, idealised: no collisions

ASSUME WireAssumption ==
    /\ DigestOf = [p \in Payload |-> IF HasDigest(Tree[p]) THEN Sha(Closed(Tree[p])) ELSE None]
    /\ \A p, q \in {x \in Payload : HasDigest(Tree[x])} :
           DigestOf[p] = DigestOf[q] => Closed(Tree[p]) = Closed(Tree[q])
    /\ \A p \in Payload : \A v \in Subtree(Tree[p]) : IsValue(v)
    /\ Chain \subseteq Nat
    /\ Blank \notin Digest

(* What VerifyAuthorization decides about the text that was sent is what   *)
(* it decides about the parsed fields, for every text a message may stand  *)
(* for: blanks, another case, another time zone, fields in another order,  *)
(* a second line for a field, a missing or a superfluous line.  No such    *)
(* text is accepted in the place of the canonical one, and none of them    *)
(* changes which error is reported.                                        *)
TextAgrees ==
    \A r \in Req :
        pc[r] = "verify" /\ DigestOf[task[r].body.payload] # None =>
            \A text \in TextsOf(task[r].msg) :
                VerifyText(text, task[r].signer, Expected(task[r].body), clock)
                    = Verdict(task[r], clock)

(* What is stored of a payload is what the wallet signed: the stored form  *)
(* is one DigestCanonical accepts again, with the closed fields and        *)
(* nothing but strings and booleans in them, its findings are in strict    *)
(* order, it says what was sent, and digesting it again gives the signed   *)
(* digest.  The digest stands for this content and for no other: the       *)
(* payloads that have it are the ones that say the same (DigestCanonical   *)
(* at challenge time, at persist time and by whoever audits the row later).*)
StoredPayloadIsSigned ==
    \A x \in created :
        LET sent   == Tree[x.in.from.body.payload]
            stored == Closed(sent)
            found  == Findings(stored)
        IN  /\ HasDigest(stored) /\ DOMAIN stored.fields = closedFields
            /\ Leaves(stored) \subseteq {"string", "bool"}
            /\ \A i, j \in DOMAIN found : i < j => found[i].v < found[j].v
            /\ SameContent(stored, sent)
            /\ Sha(Closed(stored)) = x.in.msg.sha
            /\ \A p \in {y \in Payload : DigestOf[y] # None} :
                   DigestOf[p] = x.in.msg.sha <=> SameContent(Tree[p], sent)
================================================================================
