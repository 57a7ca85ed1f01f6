------------------------- MODULE EngagementWire_proof --------------------------
(***************************************************************************)
(* The theorems about the texts and the payloads of EngagementWire.  The   *)
(* invariant of PersistFlow_proof says that a request under verification   *)
(* has a message and that a stored row has the digest of the payload that  *)
(* was sent; what text and payload then say is in WireFormats_proof, and   *)
(* TextAgrees and StoredPayloadIsSigned follow from both.                  *)
(***************************************************************************)
EXTENDS EngagementWire, PersistFlow_proof, WireFormats_proof
-------------------------------------------------------------------------------
(* What VerifyAuthorization decides about a text is what it decides about  *)
(* the message the text stands for, at every request, for every set of     *)
(* bodies and messages: the parsed form that PersistFlow reasons with      *)
(* loses nothing that BuildMessage, ParseMessage and the byte comparison   *)
(* could tell apart.                                                       *)
THEOREM TextAgreesTheorem == Spec => []TextAgrees
<1>1. TypeOK /\ Inv => TextAgrees
  <2> SUFFICES ASSUME TypeOK, Inv, NEW r \in Req, pc[r] = "verify",
                      NEW text \in TextsOf(task[r].msg)
               PROVE  VerifyText(text, task[r].signer, Expected(task[r].body), clock)
                          = Verdict(task[r], clock)
    BY Zenon DEF TextAgrees
  <2>1. task[r].msg \in Message
    BY Zenon DEF Inv, StageInv, Engaging
  <2>2. Usable(task[r].msg)
    <3>1. task[r].msg["chain"] \in Chain /\ task[r].msg["sha"] \in Digest
      BY <2>1, Zenon DEF Message
    <3>2. QED
      BY <3>1, WireAssumption, FlowAssumption, Zenon DEF Usable
  <2>3. task[r].msg.form \in {"canonical", "variant", "unparsable"}
    BY <2>1, Zenon DEF Message
  <2>4. VerifyText(text, task[r].signer, Expected(task[r].body), clock)
            = VerifyAuthorization(task[r].msg, task[r].signer, Expected(task[r].body), clock)
    <3> DEFINE m        == task[r].msg
               signer   == task[r].signer
               expected == Expected(task[r].body)
    <3>1. m.form \in {"canonical", "variant", "unparsable"} /\ Usable(m) /\ text \in TextsOf(m)
      BY <2>2, <2>3, Zenon
    <3> HIDE DEF m, signer, expected
    <3>2. VerifyText(text, signer, expected, clock)
              = VerifyAuthorization(m, signer, expected, clock)
      BY <3>1, TextsAgree
    <3>3. QED
      BY <3>2, Zenon DEF m, signer, expected
  <2>5. QED
    BY <2>4, Zenon DEF Verdict
<1>2. QED
  BY <1>1, FlowInvariant, PTL

(* What StoredPayloadIsSigned says of one payload that has a digest.       *)
LEMMA ClosedIsSigned ==
    ASSUME NEW p \in Payload, DigestOf[p] # None
    PROVE  LET sent   == Tree[p]
               stored == Closed(sent)
               found  == Findings(stored)
           IN  /\ HasDigest(stored) /\ DOMAIN stored.fields = closedFields
               /\ Leaves(stored) \subseteq {"string", "bool"}
               /\ \A i, j \in DOMAIN found : i < j => found[i].v < found[j].v
               /\ SameContent(stored, sent)
               /\ Sha(Closed(stored)) = DigestOf[p]
               /\ \A q \in {y \in Payload : DigestOf[y] # None} :
                      DigestOf[q] = DigestOf[p] <=> SameContent(Tree[q], sent)
<1> DEFINE Digested == {y \in Payload : DigestOf[y] # None}
<1>1. ASSUME NEW q \in Digested
      PROVE  /\ HasDigest(Tree[q]) /\ WellFormed(Tree[q]) /\ Top(Tree[q])
             /\ DigestOf[q] = Sha(Closed(Tree[q]))
  <2>1. HasDigest(Tree[q]) /\ DigestOf[q] = Sha(Closed(Tree[q]))
    BY WireAssumption, Zenon
  <2>2. WellFormed(Tree[q])
    BY WireAssumption, Zenon DEF WellFormed
  <2>3. QED
    BY <2>1, <2>2, DigestTop, Zenon
<1>2. p \in Digested
  BY Zenon
<1> DEFINE sent   == Tree[p]
           stored == Closed(sent)
           found  == Findings(stored)
<1>3. IsStoredForm(stored, sent)
  <2>1. HasDigest(sent) /\ WellFormed(sent)
    BY <1>1, <1>2, Zenon
  <2> HIDE DEF sent
  <2>2. QED
    BY <2>1, StoredForm, Zenon
<1>4. Sha(Closed(stored)) = DigestOf[p]
  <2>1. DigestOf[p] = Sha(stored)
    BY <1>1, <1>2, Zenon
  <2>2. Closed(stored) = stored
    BY <1>3, Zenon DEF IsStoredForm
  <2> HIDE DEF stored
  <2>3. QED
    BY <2>1, <2>2, Zenon
<1>5. ASSUME NEW q \in Digested
      PROVE  DigestOf[q] = DigestOf[p] <=> SameContent(Tree[q], sent)
  <2>1. DigestOf[q] = DigestOf[p] <=> Closed(Tree[q]) = Closed(sent)
    <3>1. DigestOf[q] = Sha(Closed(Tree[q])) /\ DigestOf[p] = Sha(Closed(Tree[p]))
      BY <1>1, <1>2, <1>5, Zenon
    <3>2. DigestOf[q] = DigestOf[p] => Closed(Tree[q]) = Closed(Tree[p])
      BY <1>1, <1>2, <1>5, WireAssumption, Zenon
    <3>3. ASSUME Closed(Tree[q]) = Closed(Tree[p])
          PROVE  DigestOf[q] = DigestOf[p]
      BY <3>1, <3>3, Zenon
    <3>4. QED
      BY <3>2, <3>3, Zenon
  <2>2. Top(Tree[q])
    BY <1>1, <1>5, Zenon
  <2>3. Top(sent)
    BY <1>1, <1>2, Zenon
  <2>4. QED
    BY <2>1, <2>2, <2>3, SameClosed, Zenon
<1>6. QED
  BY <1>3, <1>4, <1>5, Zenon DEF IsStoredForm

(* What is stored of every payload is what the wallet signed, for every    *)
(* set of payloads, however long their findings and however deep their     *)
(* contents: the stored form has a digest, its findings are in strict      *)
(* order, it says what was sent, its digest is the signed one, and the     *)
(* payloads with that digest are the ones that say the same.               *)
THEOREM StoredPayloadTheorem == Spec => []StoredPayloadIsSigned
<1>1. TypeOK /\ Inv => StoredPayloadIsSigned
  <2> SUFFICES ASSUME TypeOK, Inv, NEW x \in created
               PROVE  StoredPayloadIsSigned!(x)
    BY Zenon DEF StoredPayloadIsSigned
  <2> DEFINE p == x.in.from.body.payload
  <2>1. p \in Payload /\ x.in.msg.sha = DigestOf[p] /\ x.in.sha = DigestOf[p] /\ x.in \in Input
    BY Zenon DEF Inv, RowInv, Engaged
  <2>2. DigestOf[p] # None
    BY <2>1, FlowAssumption, Zenon DEF Input
  <2> HIDE DEF p
  <2>3. QED
    BY <2>1, <2>2, ClosedIsSigned, Zenon DEF p
<1>2. QED
  BY <1>1, FlowInvariant, PTL
================================================================================
