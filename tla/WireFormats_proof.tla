--------------------------- MODULE WireFormats_proof ---------------------------
(***************************************************************************)
(* What AuthorizationText and PayloadDigest compute, for every message and *)
(* every payload.                                                          *)
(*                                                                         *)
(* Texts.  A text carries a message when the first line of each field has  *)
(* the message's value; ParseMessage then returns the message (Carries-    *)
(* Parses), and BuildMessage is injective, so the comparison with the      *)
(* canonical text compares messages (CarriedAgrees).  Each variant of the  *)
(* canonical text carries the same message or is one that ParseMessage     *)
(* refuses (VariantsAre, BrokenFails).                                     *)
(*                                                                         *)
(* Payloads.  The values of a payload are taken level by level; an         *)
(* induction over the levels, by their least counterexample, shows that    *)
(* closing a payload brings in no value that was not there (ClosedLevels). *)
(* A list in strict order is determined by its elements (StrictOrder-      *)
(* Unique): hence two payloads have one closed form if and only if they    *)
(* say the same (SameClosed).                                              *)
(***************************************************************************)
EXTENDS AuthorizationText, PayloadDigest, SortedLists_proof
-------------------------------------------------------------------------------
(* Texts                                                                   *)

(* The number of a field, and of its line in the canonical text.           *)
LEMMA FieldKeysFacts ==
    /\ FieldKeys \in [1..8 -> Range(FieldKeys)] /\ Len(FieldKeys) = 8
    /\ \A a, b \in 1..8 : FieldKeys[a] = FieldKeys[b] => a = b
    /\ \A a \in 1..8 : FieldKeys[a] \notin {"title", "none", "footer", "draft"}
    /\ \A key \in Range(FieldKeys) : \E a \in 1..8 : key = FieldKeys[a]
<1>1. /\ FieldKeys[1] = "domain" /\ FieldKeys[2] = "action" /\ FieldKeys[3] = "wallet"
      /\ FieldKeys[4] = "chain" /\ FieldKeys[5] = "scan" /\ FieldKeys[6] = "sha"
      /\ FieldKeys[7] = "issued" /\ FieldKeys[8] = "expires"
      /\ DOMAIN FieldKeys = 1..8 /\ Len(FieldKeys) = 8
  BY DEF FieldKeys
<1>2. \A a \in 1..8 : a = 1 \/ a = 2 \/ a = 3 \/ a = 4 \/ a = 5 \/ a = 6 \/ a = 7 \/ a = 8
  OBVIOUS
<1>3. FieldKeys \in [1..8 -> Range(FieldKeys)]
  BY <1>1 DEF FieldKeys, Range
<1>4. \A a, b \in 1..8 : FieldKeys[a] = FieldKeys[b] => a = b
  BY <1>1, <1>2
<1>5. \A a \in 1..8 : FieldKeys[a] \notin {"title", "none", "footer", "draft"}
  BY <1>1, <1>2, Zenon
<1>6. QED
  BY <1>1, <1>3, <1>4, <1>5, Zenon DEF Range
(* c is a followed by b.                                                   *)
Follows(c, a, b) ==
    /\ Len(c) = Len(a) + Len(b)
    /\ \A j \in 1..Len(a) : c[j] = a[j]
    /\ \A j \in 1..Len(b) : c[Len(a) + j] = b[j]

(* The elements of two lists, one after the other, and of a part of a list. *)
LEMMA ConcatLines ==
    ASSUME NEW S, NEW a \in Seq(S), NEW b \in Seq(S)
    PROVE  a \o b \in Seq(S) /\ Follows(a \o b, a, b)
<1>1. a \o b \in Seq(S) /\ Len(a \o b) = Len(a) + Len(b)
  OBVIOUS
<1>2. \A j \in 1..Len(a) : (a \o b)[j] = a[j]
  OBVIOUS
<1>3. \A j \in 1..Len(b) : (a \o b)[Len(a) + j] = b[j]
  OBVIOUS
<1>4. QED
  BY <1>1, <1>2, <1>3, Zenon DEF Follows

LEMMA PartLines ==
    ASSUME NEW S, NEW s \in Seq(S), NEW m \in 1..(Len(s) + 1), NEW n \in (m - 1)..Len(s)
    PROVE  /\ SubSeq(s, m, n) \in Seq(S) /\ Len(SubSeq(s, m, n)) = (n - m) + 1
           /\ \A j \in 1..((n - m) + 1) : SubSeq(s, m, n)[j] = s[(m + j) - 1]
<1>1. SubSeq(s, m, n) \in Seq(S)
  OBVIOUS
<1>2. Len(SubSeq(s, m, n)) = (n - m) + 1
  OBVIOUS
<1>3. \A j \in 1..((n - m) + 1) : SubSeq(s, m, n)[j] = s[(m + j) - 1]
  OBVIOUS
<1>4. QED
  BY <1>1, <1>2, <1>3, Zenon

(* A list as a function on its positions, and back.                        *)
LEMMA ListFunction ==
    ASSUME NEW S, NEW s \in Seq(S), NEW n, Len(s) = n
    PROVE  s \in [1..n -> S] /\ s \in [1..n -> Range(s)]
<1>1. s \in [1..n -> S] /\ DOMAIN s = 1..n
  OBVIOUS
<1>2. s = [i \in 1..n |-> s[i]] /\ \A i \in 1..n : s[i] \in Range(s)
  BY <1>1, Zenon DEF Range
<1>3. QED
  BY <1>1, <1>2, Zenon

LEMMA FunctionList ==
    ASSUME NEW S, NEW n \in Nat, NEW s \in [1..n -> S]
    PROVE  s \in Seq(S) /\ Len(s) = n
OBVIOUS

(* The lines of a canonical text.                                          *)
Shape(t, f) ==
    /\ t \in [1..12 -> Range(t)]
    /\ t[1] = Other("title") /\ t[2] = Other("none")
    /\ \A a \in 1..8 : t[a + 2] = Line(FieldKeys[a], f[FieldKeys[a]])
    /\ t[11] = Other("none") /\ t[12] = Other("footer")

LEMMA CanonicalShape ==
    ASSUME NEW f
    PROVE  Shape(BuildMessage(f), f)
<1> DEFINE t    == BuildMessage(f)
           mid  == [i \in DOMAIN FieldKeys |-> Line(FieldKeys[i], f[FieldKeys[i]])]
           S    == {Other("title"), Other("none"), Other("footer")}
                     \cup {Line(FieldKeys[i], f[FieldKeys[i]]) : i \in 1..8}
           head == <<Other("title"), Other("none")>>
           foot == <<Other("none"), Other("footer")>>
<1>1. /\ mid \in Seq(S) /\ Len(mid) = 8
      /\ \A a \in 1..8 : mid[a] = Line(FieldKeys[a], f[FieldKeys[a]])
  <2>1. DOMAIN FieldKeys = 1..8
    BY FieldKeysFacts, Zenon
  <2>2. mid \in [1..8 -> S] /\ \A a \in 1..8 : mid[a] = Line(FieldKeys[a], f[FieldKeys[a]])
    BY <2>1, Zenon
  <2>3. QED
    BY <2>2
<1>2. /\ head \in Seq(S) /\ Len(head) = 2 /\ head[1] = Other("title") /\ head[2] = Other("none")
      /\ foot \in Seq(S) /\ Len(foot) = 2 /\ foot[1] = Other("none") /\ foot[2] = Other("footer")
  OBVIOUS
<1>3. t = (head \o mid) \o foot
  BY Zenon DEF BuildMessage
<1> HIDE DEF mid, head, foot, S, t
<1>4. PICK u : u = head \o mid
  BY Zenon
<1>5. /\ u \in Seq(S) /\ Len(u) = 10 /\ u[1] = Other("title") /\ u[2] = Other("none")
      /\ \A a \in 1..8 : u[a + 2] = Line(FieldKeys[a], f[FieldKeys[a]])
  <2>1. u \in Seq(S) /\ Follows(u, head, mid)
    BY <1>1, <1>2, <1>4, ConcatLines, Zenon
  <2>2. QED
    BY <1>1, <1>2, <2>1 DEF Follows
<1>6. /\ t \in Seq(S) /\ Len(t) = 12 /\ t[11] = Other("none") /\ t[12] = Other("footer")
      /\ \A i \in 1..10 : t[i] = u[i]
  <2>1. t \in Seq(S) /\ Follows(t, u, foot)
    BY <1>2, <1>3, <1>4, <1>5, ConcatLines, Zenon
  <2>2. QED
    BY <1>2, <1>5, <2>1 DEF Follows
<1>7. t \in [1..12 -> Range(t)]
  BY <1>6, ListFunction, Zenon
<1>8. \A a \in 1..8 : t[a + 2] = u[a + 2]
  BY <1>6
<1>9. t[1] = Other("title") /\ t[2] = Other("none")
  BY <1>5, <1>6
<1>10. Shape(t, f)
  BY <1>5, <1>6, <1>7, <1>8, <1>9, Zenon DEF Shape
<1>11. QED
  BY <1>10, Zenon DEF t

(* The lines of a text without one of its lines, and with one line more.   *)
Lacks(u, t, n, i) ==
    /\ u \in [1..(n - 1) -> Range(u)]
    /\ \A j \in 1..(i - 1) : u[j] = t[j]
    /\ \A j \in i..(n - 1) : u[j] = t[j + 1]

Gains(u, t, n, i, line) ==
    /\ u \in [1..(n + 1) -> Range(u)]
    /\ \A j \in 1..(i - 1) : u[j] = t[j]
    /\ u[i] = line
    /\ \A j \in i..n : u[j + 1] = t[j]

LEMMA WithoutLines ==
    ASSUME NEW n \in Nat, NEW S, NEW t \in [1..n -> S], NEW i \in 1..n
    PROVE  Lacks(Without(t, i), t, n, i)
<1> DEFINE a == SubSeq(t, 1, i - 1)
           b == SubSeq(t, i + 1, n)
<1>1. t \in Seq(S) /\ Len(t) = n
  OBVIOUS
<1>2. a \in Seq(S) /\ Len(a) = i - 1 /\ \A j \in 1..(i - 1) : a[j] = t[j]
  BY <1>1
<1>3. b \in Seq(S) /\ Len(b) = n - i /\ \A j \in 1..(n - i) : b[j] = t[j + i]
  BY <1>1
<1>4. Without(t, i) = a \o b
  BY <1>1, Zenon DEF Without
<1> HIDE DEF a, b
<1>5. PICK c : c = a \o b
  BY Zenon
<1>6. c \in Seq(S) /\ Follows(c, a, b)
  BY <1>2, <1>3, <1>5, ConcatLines, Zenon
<1>7. c \in [1..(n - 1) -> Range(c)]
  <2>1. Len(c) = n - 1
    BY <1>2, <1>3, <1>6 DEF Follows
  <2>2. QED
    BY <1>6, <2>1, ListFunction, Zenon
<1>8. \A j \in 1..(i - 1) : c[j] = t[j]
  BY <1>2, <1>6, Zenon DEF Follows
<1>9. \A j \in i..(n - 1) : c[j] = t[j + 1]
  <2> TAKE j \in i..(n - 1)
  <2> DEFINE k == j - (i - 1)
  <2>1. k \in 1..(n - i) /\ (i - 1) + k = j /\ k + i = j + 1
    OBVIOUS
  <2>2. c[(i - 1) + k] = b[k]
    BY <1>2, <1>3, <1>6, <2>1, Zenon DEF Follows
  <2>3. b[k] = t[k + i]
    BY <1>3, <2>1, Zenon
  <2>4. QED
    BY <2>1, <2>2, <2>3, Zenon
<1>10. QED
  BY <1>4, <1>5, <1>7, <1>8, <1>9, Zenon DEF Lacks

LEMMA WithLines ==
    ASSUME NEW n \in Nat, NEW X, NEW t \in [1..n -> X], NEW i \in 1..n, NEW line
    PROVE  Gains(With(t, i, line), t, n, i, line)
<1> DEFINE S == X \cup {line}
           a == SubSeq(t, 1, i - 1)
           l == <<line>>
           b == SubSeq(t, i, n)
<1>1. t \in Seq(S) /\ Len(t) = n
  OBVIOUS
<1>2. a \in Seq(S) /\ Len(a) = i - 1 /\ \A j \in 1..(i - 1) : a[j] = t[j]
  BY <1>1
<1>3. /\ b \in Seq(S) /\ Len(b) = (n - i) + 1
      /\ \A j \in 1..((n - i) + 1) : b[j] = t[(i + j) - 1]
  BY <1>1, PartLines
<1>4. l \in Seq(S) /\ Len(l) = 1 /\ l[1] = line
  OBVIOUS
<1>5. With(t, i, line) = (a \o l) \o b
  BY <1>1, Zenon DEF With
<1> HIDE DEF a, b, l, S
<1>6. PICK c : c = a \o l
  BY Zenon
<1>7. PICK d : d = c \o b
  BY Zenon
<1>8. c \in Seq(S) /\ Follows(c, a, l)
  BY <1>2, <1>4, <1>6, ConcatLines, Zenon
<1>9. d \in Seq(S) /\ Follows(d, c, b)
  BY <1>3, <1>7, <1>8, ConcatLines, Zenon
<1>10. Len(c) = i /\ c[i] = line /\ \A j \in 1..(i - 1) : c[j] = t[j]
  BY <1>2, <1>4, <1>8 DEF Follows
<1>11. /\ Len(d) = n + 1 /\ d[i] = line
       /\ \A j \in 1..(i - 1) : d[j] = t[j]
  BY <1>3, <1>9, <1>10 DEF Follows
<1>12. \A j \in i..n : d[j + 1] = t[j]
  <2> TAKE j \in i..n
  <2> DEFINE k == (j - i) + 1
  <2>1. k \in 1..((n - i) + 1) /\ i + k = j + 1 /\ (i + k) - 1 = j
    OBVIOUS
  <2>2. d[i + k] = b[k]
    BY <1>3, <1>9, <1>10, <2>1, Zenon DEF Follows
  <2>3. b[k] = t[(i + k) - 1]
    BY <1>3, <2>1, Zenon
  <2>4. QED
    BY <2>1, <2>2, <2>3, Zenon
<1>13. d \in [1..(n + 1) -> Range(d)]
  BY <1>9, <1>11, ListFunction, Zenon
<1>14. QED
  BY <1>5, <1>6, <1>7, <1>11, <1>12, <1>13, Zenon DEF Gains

-------------------------------------------------------------------------------
(* Parsing                                                                 *)

(* Line i is the first one for field key.                                  *)
FirstFor(text, n, key, i) ==
    i \in 1..n /\ KeyOf(text[i]) = key /\ \A j \in 1..(i - 1) : KeyOf(text[j]) # key

(* readField returns the first line of a field.                            *)
LEMMA ReadsFirst ==
    ASSUME NEW n \in Nat, NEW text, DOMAIN text = 1..n, NEW key, NEW i, FirstFor(text, n, key, i)
    PROVE  readField(text, key) = text[i] /\ LinesWith(text, key) # {}
<1>1. i \in LinesWith(text, key) /\ \A j \in LinesWith(text, key) : j \in 1..n /\ i <= j
  BY DEF LinesWith, FirstFor
<1>2. \A k \in LinesWith(text, key) :
          (\A j \in LinesWith(text, key) : k <= j) => k = i
  BY <1>1
<1>3. (CHOOSE k \in LinesWith(text, key) : \A j \in LinesWith(text, key) : k <= j) = i
  BY <1>1, <1>2, Zenon
<1>4. QED
  BY <1>1, <1>3, Zenon DEF readField

(* A text of n lines whose first line for every field is well formed and   *)
(* has the field's value in f.                                             *)
Carries(text, n, f) ==
    /\ n >= 11 /\ text \in [1..n -> Range(text)]
    /\ KeyOf(text[1]) = "title" /\ KeyOf(text[n]) = "footer"
    /\ \A i \in 1..n : KeyOf(text[i]) # "draft"
    /\ \A a \in 1..8 : \E i \in 1..n :
          /\ FirstFor(text, n, FieldKeys[a], i)
          /\ ValueOf(text[i]) = f[FieldKeys[a]] /\ StyleOf(text[i]) # "malformed"

Usable(f) == f["chain"] \in Nat \ {0} /\ f["sha"] # Blank

(* ParseMessage reads these values.                                        *)
LEMMA CarriesParses ==
    ASSUME NEW n \in Nat, NEW text, NEW f, Carries(text, n, f), Usable(f)
    PROVE  /\ Parses(text)
           /\ ParseMessage(text) = [key \in Range(FieldKeys) |-> f[key]]
<1>1. DOMAIN text = 1..n /\ Len(text) = n
  BY FunctionList, Zenon DEF Carries
<1>2. ASSUME NEW key \in Range(FieldKeys)
      PROVE  /\ LinesWith(text, key) # {} /\ ValueOf(readField(text, key)) = f[key]
             /\ StyleOf(readField(text, key)) # "malformed"
  <2>1. PICK a \in 1..8 : key = FieldKeys[a]
    BY FieldKeysFacts, Zenon
  <2>2. PICK i \in 1..n : /\ FirstFor(text, n, key, i)
                         /\ ValueOf(text[i]) = f[key] /\ StyleOf(text[i]) # "malformed"
    BY <2>1, Zenon DEF Carries
  <2>3. readField(text, key) = text[i] /\ LinesWith(text, key) # {}
    BY <1>1, <2>2, ReadsFirst, Zenon
  <2>4. QED
    BY <2>2, <2>3, Zenon
<1>3. LinesWith(text, "draft") = {}
  BY <1>1, Zenon DEF LinesWith, Carries
<1>4. {"chain", "issued", "expires", "sha"} \subseteq Range(FieldKeys)
  BY DEF FieldKeys, Range
<1>5. \A key \in {"chain", "issued", "expires"} : StyleOf(readField(text, key)) # "malformed"
  BY <1>2, <1>4, Zenon
<1>6. ValueOf(readField(text, "chain")) >= 1 /\ ValueOf(readField(text, "sha")) # Blank
  BY <1>2, <1>4 DEF Usable
<1>7. Parses(text)
  BY <1>1, <1>2, <1>3, <1>5, <1>6, Zenon DEF Parses, Carries
<1>8. ParseMessage(text) = [key \in Range(FieldKeys) |-> f[key]]
  BY <1>2, Zenon DEF ParseMessage
<1>9. QED
  BY <1>7, <1>8, Zenon

-------------------------------------------------------------------------------
(* The verdict                                                             *)

(* A canonical text determines its fields.                                 *)
LEMMA BuildInjective ==
    ASSUME NEW f, NEW g
    PROVE  BuildMessage(f) = BuildMessage(g) <=> \A key \in Range(FieldKeys) : f[key] = g[key]
<1>1. Shape(BuildMessage(f), f) /\ Shape(BuildMessage(g), g)
  BY CanonicalShape, Zenon
<1>2. ASSUME BuildMessage(f) = BuildMessage(g), NEW key \in Range(FieldKeys)
      PROVE  f[key] = g[key]
  <2>1. PICK a \in 1..8 : key = FieldKeys[a]
    BY FieldKeysFacts, Zenon
  <2>2. Line(key, f[key]) = Line(key, g[key])
    BY <1>1, <1>2, <2>1, Zenon DEF Shape
  <2>3. QED
    BY <2>2, Zenon DEF Line
<1>3. ASSUME \A key \in Range(FieldKeys) : f[key] = g[key]
      PROVE  BuildMessage(f) = BuildMessage(g)
  <2>1. \A i \in DOMAIN FieldKeys : FieldKeys[i] \in Range(FieldKeys)
    BY Zenon DEF Range
  <2>2. [i \in DOMAIN FieldKeys |-> Line(FieldKeys[i], f[FieldKeys[i]])]
           = [i \in DOMAIN FieldKeys |-> Line(FieldKeys[i], g[FieldKeys[i]])]
    BY <1>3, <2>1, Zenon
  <2>3. QED
    BY <2>2, Zenon DEF BuildMessage
<1>4. QED
  BY <1>2, <1>3, Zenon

(* Whatever lines carry the fields of a message, the check of the text     *)
(* decides as the check of the fields, if the text is the canonical one    *)
(* exactly when the message says so.                                       *)
LEMMA CarriedAgrees ==
    ASSUME NEW m, Usable(m), NEW n \in Nat, NEW text, Carries(text, n, m),
           NEW signer, NEW in, NEW now,
           \/ m.form = "canonical" /\ text = BuildMessage(m)
           \/ m.form = "variant" /\ \A g : text # BuildMessage(g)
    PROVE  VerifyText(text, signer, in, now) = VerifyAuthorization(m, signer, in, now)
<1> DEFINE f == ParseMessage(text)
           e == [domain |-> in.domain, action |-> PersistAction, wallet |-> in.wallet,
                 chain |-> in.chain, scan |-> in.scan, sha |-> in.sha,
                 issued |-> f.issued, expires |-> f.expires]
<1>1. Parses(text) /\ text # <<>>
  <2>1. Parses(text)
    BY CarriesParses, Zenon
  <2>2. Len(text) >= 11
    BY <2>1, Zenon DEF Parses
  <2>3. QED
    BY <2>1, <2>2
<1>2. Range(FieldKeys) = {"domain", "action", "wallet", "chain", "scan", "sha", "issued", "expires"}
  BY FieldKeysFacts DEF Range, FieldKeys
<1>3. /\ f.domain = m.domain /\ f.action = m.action /\ f.wallet = m.wallet
      /\ f.chain = m.chain /\ f.scan = m.scan /\ f.sha = m.sha
      /\ f.issued = m.issued /\ f.expires = m.expires
  <2>1. f = [key \in Range(FieldKeys) |-> m[key]]
    BY CarriesParses
  <2>2. QED
    BY <1>2, <2>1, Zenon
<1>4. /\ validateFreshness(f.issued, f.expires, now) = validateFreshness(m.issued, m.expires, now)
      /\ compareBindings(f, in) = compareBindings(m, in)
  BY <1>3, Zenon DEF compareBindings
<1>5. ASSUME compareBindings(m, in) = Ok
      PROVE  text = ExpectedMessage(f, in) <=> IsExpectedMessage(m, in)
  <2>1. ExpectedMessage(f, in) = BuildMessage(e)
    BY Zenon DEF ExpectedMessage
  <2>2. /\ m.action = PersistAction /\ m.sha = in.sha /\ m.scan = in.scan
        /\ m.chain = in.chain /\ m.wallet = in.wallet
    BY <1>5, Zenon DEF compareBindings, Ok
  <2>3. CASE m.form = "canonical" /\ text = BuildMessage(m)
    <3>1. BuildMessage(m) = BuildMessage(e) <=> \A key \in Range(FieldKeys) : m[key] = e[key]
      BY BuildInjective, Zenon
    <3>2. /\ m["action"] = e["action"] /\ m["wallet"] = e["wallet"] /\ m["chain"] = e["chain"]
          /\ m["scan"] = e["scan"] /\ m["sha"] = e["sha"] /\ m["issued"] = e["issued"]
          /\ m["expires"] = e["expires"] /\ e["domain"] = in.domain
      BY <1>3, <2>2, Zenon
    <3>3. (\A key \in Range(FieldKeys) : m[key] = e[key]) <=> m.domain = in.domain
      BY <1>2, <3>2, Zenon
    <3>4. QED
      BY <2>1, <2>3, <3>1, <3>3, Zenon DEF IsExpectedMessage
  <2>4. CASE m.form = "variant" /\ \A g : text # BuildMessage(g)
    BY <2>1, <2>4, Zenon DEF IsExpectedMessage
  <2>5. QED
    BY <2>3, <2>4, Zenon
<1>6. m.form # "unparsable"
  BY Zenon
<1> HIDE DEF f
<1>7. QED
  BY <1>1, <1>4, <1>5, <1>6, Zenon DEF VerifyText, VerifyAuthorization, f

(* A text that does not parse is refused as a message that says so.        *)
LEMMA BrokenAgrees ==
    ASSUME NEW m, m.form = "unparsable", NEW text, text # <<>>, ~Parses(text),
           NEW signer, NEW in, NEW now
    PROVE  VerifyText(text, signer, in, now) = VerifyAuthorization(m, signer, in, now)
BY Zenon DEF VerifyText, VerifyAuthorization

-------------------------------------------------------------------------------
(* The texts a message stands for                                          *)

(* Keys, styles and values in a canonical text.                            *)
Canon(t, f) ==
    /\ t \in [1..12 -> Range(t)]
    /\ KeyOf(t[1]) = "title" /\ KeyOf(t[2]) = "none"
    /\ KeyOf(t[11]) = "none" /\ KeyOf(t[12]) = "footer"
    /\ \A i \in 1..12 : StyleOf(t[i]) = "plain" /\ KeyOf(t[i]) # "draft"
    /\ \A i \in 1..12 : t[i] = <<KeyOf(t[i]), "plain", ValueOf(t[i])>>
    /\ \A a \in 1..8 : KeyOf(t[a + 2]) = FieldKeys[a] /\ ValueOf(t[a + 2]) = f[FieldKeys[a]]
    /\ \A a \in 1..8, i \in 1..12 : KeyOf(t[i]) = FieldKeys[a] => i = a + 2

LEMMA CanonicalFacts ==
    ASSUME NEW f
    PROVE  Canon(BuildMessage(f), f)
<1> DEFINE t == BuildMessage(f)
<1>1. Shape(t, f)
  BY CanonicalShape, Zenon
<1> HIDE DEF t
<1>2. /\ t[1] = <<"title", "plain", Blank>> /\ t[2] = <<"none", "plain", Blank>>
      /\ t[11] = <<"none", "plain", Blank>> /\ t[12] = <<"footer", "plain", Blank>>
      /\ \A a \in 1..8 : t[a + 2] = <<FieldKeys[a], "plain", f[FieldKeys[a]]>>
      /\ t \in [1..12 -> Range(t)]
  BY <1>1, Zenon DEF Shape, Other, Line
<1>3. /\ KeyOf(t[1]) = "title" /\ KeyOf(t[2]) = "none"
      /\ KeyOf(t[11]) = "none" /\ KeyOf(t[12]) = "footer"
      /\ ValueOf(t[1]) = Blank /\ ValueOf(t[2]) = Blank
      /\ ValueOf(t[11]) = Blank /\ ValueOf(t[12]) = Blank
      /\ StyleOf(t[1]) = "plain" /\ StyleOf(t[2]) = "plain"
      /\ StyleOf(t[11]) = "plain" /\ StyleOf(t[12]) = "plain"
  BY <1>2 DEF KeyOf, ValueOf, StyleOf
<1>4. \A a \in 1..8 : /\ KeyOf(t[a + 2]) = FieldKeys[a] /\ StyleOf(t[a + 2]) = "plain"
                      /\ ValueOf(t[a + 2]) = f[FieldKeys[a]]
  BY <1>2 DEF KeyOf, ValueOf, StyleOf
<1>5. \A i \in 1..12 : i = 1 \/ i = 2 \/ i = 11 \/ i = 12 \/ \E a \in 1..8 : i = a + 2
  <2> TAKE i \in 1..12
  <2>1. CASE i \in 3..10
    <3>1. i - 2 \in 1..8 /\ i = (i - 2) + 2
      BY <2>1
    <3>2. QED
      BY <3>1, Zenon
  <2>2. QED
    BY <2>1
<1>6. \A i \in 1..12 : StyleOf(t[i]) = "plain" /\ KeyOf(t[i]) # "draft"
  BY <1>3, <1>4, <1>5, FieldKeysFacts
<1>7. \A i \in 1..12 : t[i] = <<KeyOf(t[i]), "plain", ValueOf(t[i])>>
  BY <1>2, <1>3, <1>4, <1>5
<1>8. \A a \in 1..8, i \in 1..12 : KeyOf(t[i]) = FieldKeys[a] => i = a + 2
  <2> SUFFICES ASSUME NEW a \in 1..8, NEW i \in 1..12, KeyOf(t[i]) = FieldKeys[a]
               PROVE  i = a + 2
    BY Zenon
  <2>1. FieldKeys[a] \notin {"title", "none", "footer"}
    BY FieldKeysFacts, Zenon
  <2>2. PICK c \in 1..8 : i = c + 2
    BY <1>3, <1>5, <2>1, Zenon
  <2>3. FieldKeys[c] = FieldKeys[a]
    BY <1>4, <2>2, Zenon
  <2>4. QED
    BY <2>2, <2>3, FieldKeysFacts, Zenon
<1>9. Canon(t, f)
  BY <1>2, <1>3, <1>4, <1>6, <1>7, <1>8, Zenon DEF Canon
<1>10. QED
  BY <1>9, Zenon DEF t

(* The canonical text carries its fields.                                  *)
LEMMA CanonCarries ==
    ASSUME NEW t, NEW f, Canon(t, f)
    PROVE  Carries(t, 12, f)
<1>1. ASSUME NEW a \in 1..8
      PROVE  /\ FirstFor(t, 12, FieldKeys[a], a + 2)
             /\ ValueOf(t[a + 2]) = f[FieldKeys[a]] /\ StyleOf(t[a + 2]) # "malformed"
  BY DEF Canon, FirstFor
<1>2. \A a \in 1..8 : a + 2 \in 1..12
  OBVIOUS
<1>3. QED
  BY <1>1, <1>2 DEF Carries, Canon

(* A text with a line in another style, a different number of lines or     *)
(* another key somewhere is not a canonical one.                           *)
LEMMA NotCanonical ==
    ASSUME NEW u, NEW t, NEW f, Canon(t, f),
           \/ DOMAIN u # 1..12
           \/ \E i \in 1..12 : StyleOf(u[i]) # "plain" \/ KeyOf(u[i]) # KeyOf(t[i])
    PROVE  \A g : u # BuildMessage(g)
<1> SUFFICES ASSUME NEW g, Canon(u, g)
             PROVE  FALSE
  BY CanonicalFacts, Zenon
<1>1. DOMAIN u = 1..12 /\ \A i \in 1..12 : StyleOf(u[i]) = "plain"
  BY Zenon DEF Canon
<1>2. PICK i \in 1..12 : KeyOf(u[i]) # KeyOf(t[i])
  BY <1>1, Zenon
<1>3. CASE i \in 3..10
  <2>1. i - 2 \in 1..8 /\ i = (i - 2) + 2
    BY <1>3
  <2>2. KeyOf(u[i]) = FieldKeys[i - 2] /\ KeyOf(t[i]) = FieldKeys[i - 2]
    BY <2>1, Zenon DEF Canon
  <2>3. QED
    BY <1>2, <2>2, Zenon
<1>4. CASE i \in {1, 2, 11, 12}
  BY <1>2, <1>4 DEF Canon
<1>5. QED
  BY <1>3, <1>4

(* A text that parses to f and is not a canonical one.                     *)
IsVariant(u, f) == (\E n \in Nat : Carries(u, n, f)) /\ \A g : u # BuildMessage(g)

(* u is t with line i in another style.                                    *)
RestyledAt(u, t, i, style) ==
    /\ u \in [1..12 -> Range(u)]
    /\ \A j \in 1..12 : KeyOf(u[j]) = KeyOf(t[j]) /\ ValueOf(u[j]) = ValueOf(t[j])
    /\ StyleOf(u[i]) = style /\ \A j \in 1..12 \ {i} : StyleOf(u[j]) = "plain"

LEMMA RestyledLines ==
    ASSUME NEW t, NEW f, Canon(t, f), NEW i \in 1..12, NEW style
    PROVE  RestyledAt(Restyled(t, i, style), t, i, style)
<1>0. PICK u : u = Restyled(t, i, style)
  BY Zenon
<1>1. DOMAIN t = 1..12 /\ t[i] = <<KeyOf(t[i]), "plain", ValueOf(t[i])>>
  BY Zenon DEF Canon
<1>2. u = [t EXCEPT ![i] = [t[i] EXCEPT ![2] = style]]
  BY <1>0, Zenon DEF Restyled
<1>3. DOMAIN u = 1..12 /\ u[i] = [t[i] EXCEPT ![2] = style] /\ \A j \in 1..12 \ {i} : u[j] = t[j]
  BY <1>1, <1>2, Zenon
<1>4. u[i][1] = KeyOf(t[i]) /\ u[i][2] = style /\ u[i][3] = ValueOf(t[i])
  BY <1>1, <1>3
<1>5. KeyOf(u[i]) = KeyOf(t[i]) /\ StyleOf(u[i]) = style /\ ValueOf(u[i]) = ValueOf(t[i])
  BY <1>4, Zenon DEF KeyOf, StyleOf, ValueOf
<1>6. u \in [1..12 -> Range(u)]
  BY <1>2, <1>3, Zenon DEF Range
<1>7. \A j \in 1..12 \ {i} : StyleOf(u[j]) = "plain"
  BY <1>3 DEF Canon
<1>8. QED
  BY <1>0, <1>3, <1>5, <1>6, <1>7, Zenon DEF RestyledAt

(* One line in another style.                                              *)
LEMMA RestyledVariant ==
    ASSUME NEW t, NEW f, Canon(t, f), NEW i \in 1..12, NEW style,
           style \notin {"plain", "malformed"}
    PROVE  IsVariant(Restyled(t, i, style), f)
<1>1. PICK u : u = Restyled(t, i, style)
  BY Zenon
<1>2. /\ u \in [1..12 -> Range(u)]
      /\ \A j \in 1..12 : KeyOf(u[j]) = KeyOf(t[j]) /\ ValueOf(u[j]) = ValueOf(t[j])
      /\ StyleOf(u[i]) = style /\ \A j \in 1..12 \ {i} : StyleOf(u[j]) = "plain"
  BY <1>1, RestyledLines DEF RestyledAt
<1>3. ASSUME NEW a \in 1..8
      PROVE  /\ FirstFor(u, 12, FieldKeys[a], a + 2)
             /\ ValueOf(u[a + 2]) = f[FieldKeys[a]] /\ StyleOf(u[a + 2]) # "malformed"
  <2>1. a + 2 \in 1..12 /\ \A j \in 1..((a + 2) - 1) : j \in 1..12 /\ j # a + 2
    OBVIOUS
  <2>2. FirstFor(u, 12, FieldKeys[a], a + 2)
    BY <1>2, <2>1 DEF FirstFor, Canon
  <2>3. ValueOf(u[a + 2]) = f[FieldKeys[a]] /\ StyleOf(u[a + 2]) # "malformed"
    BY <1>2, <2>1, Zenon DEF Canon
  <2>4. QED
    BY <2>2, <2>3, Zenon
<1>4. Carries(u, 12, f)
  <2>1. \A a \in 1..8 : a + 2 \in 1..12
    OBVIOUS
  <2>2. \A j \in 1..12 : KeyOf(u[j]) # "draft"
    BY <1>2, Zenon DEF Canon
  <2>3. KeyOf(u[1]) = "title" /\ KeyOf(u[12]) = "footer"
    BY <1>2 DEF Canon
  <2>4. QED
    BY <1>2, <1>3, <2>1, <2>2, <2>3 DEF Carries
<1>5. \A g : u # BuildMessage(g)
  BY <1>2, NotCanonical, Zenon
<1>6. QED
  BY <1>1, <1>4, <1>5, Zenon DEF IsVariant

(* Two neighbouring fields in the other order.                             *)
LEMMA SwappedVariant ==
    ASSUME NEW t, NEW f, Canon(t, f), NEW i \in 3..9
    PROVE  IsVariant(Swapped(t, i), f)
<1>1. PICK u : u = Swapped(t, i)
  BY Zenon
<1>2. /\ DOMAIN u = 1..12 /\ u[i] = t[i + 1] /\ u[i + 1] = t[i]
      /\ \A j \in 1..12 \ {i, i + 1} : u[j] = t[j]
  BY <1>1 DEF Canon, Swapped
<1>3. u \in [1..12 -> Range(u)]
  BY <1>1, <1>2 DEF Range, Swapped
<1> DEFINE pos(a) == IF a + 2 = i THEN i + 1 ELSE IF a + 2 = i + 1 THEN i ELSE a + 2
<1>4. ASSUME NEW a \in 1..8
      PROVE  /\ pos(a) \in 1..12 /\ u[pos(a)] = t[a + 2]
             /\ \A j \in 1..12 : KeyOf(u[j]) = FieldKeys[a] => j = pos(a)
  <2>1. pos(a) \in 1..12 /\ u[pos(a)] = t[a + 2]
    BY <1>2
  <2>2. ASSUME NEW j \in 1..12, KeyOf(u[j]) = FieldKeys[a]
        PROVE  j = pos(a)
    <3>1. \A k \in 1..12 : KeyOf(t[k]) = FieldKeys[a] => k = a + 2
      BY Zenon DEF Canon
    <3>2. CASE j = i
      BY <1>2, <2>2, <3>1, <3>2
    <3>3. CASE j = i + 1
      BY <1>2, <2>2, <3>1, <3>3
    <3>4. CASE j \notin {i, i + 1}
      BY <1>2, <2>2, <3>1, <3>4, Zenon
    <3>5. QED
      BY <3>2, <3>3, <3>4, Zenon
  <2>3. QED
    BY <2>1, <2>2, Zenon
<1>5. \A a \in 1..8 : KeyOf(t[a + 2]) = FieldKeys[a] /\ ValueOf(t[a + 2]) = f[FieldKeys[a]]
                      /\ StyleOf(t[a + 2]) # "malformed"
  <2>1. \A a \in 1..8 : a + 2 \in 1..12
    OBVIOUS
  <2>2. QED
    BY <2>1, Zenon DEF Canon
<1> HIDE DEF pos
<1>6. Carries(u, 12, f)
  <2>1. ASSUME NEW a \in 1..8
        PROVE  /\ FirstFor(u, 12, FieldKeys[a], pos(a))
               /\ ValueOf(u[pos(a)]) = f[FieldKeys[a]] /\ StyleOf(u[pos(a)]) # "malformed"
    BY <1>4, <1>5 DEF FirstFor
  <2>2. KeyOf(u[1]) = "title" /\ KeyOf(u[12]) = "footer"
    BY <1>2 DEF Canon
  <2>3. \A j \in 1..12 : KeyOf(u[j]) # "draft"
    BY <1>2 DEF Canon
  <2>4. QED
    BY <1>3, <1>4, <2>1, <2>2, <2>3 DEF Carries
<1>7. KeyOf(u[i]) # KeyOf(t[i])
  <2>1. i - 2 \in 1..8 /\ i = (i - 2) + 2 /\ i - 1 \in 1..8 /\ i + 1 = (i - 1) + 2
    OBVIOUS
  <2>2. KeyOf(t[i]) = FieldKeys[i - 2] /\ KeyOf(t[i + 1]) = FieldKeys[i - 1]
    BY <1>5, <2>1, Zenon
  <2>3. QED
    BY <1>2, <2>1, <2>2, FieldKeysFacts
<1>8. \A g : u # BuildMessage(g)
  BY <1>7, NotCanonical
<1>9. QED
  BY <1>1, <1>6, <1>8, Zenon DEF IsVariant

(* The text without the blank line under its title.                        *)
LEMMA ShorterVariant ==
    ASSUME NEW t, NEW f, Canon(t, f)
    PROVE  IsVariant(Without(t, 2), f)
<1>1. PICK u : u = Without(t, 2)
  BY Zenon
<1>2. t \in [1..12 -> Range(t)] /\ 12 \in Nat /\ 2 \in 1..12 /\ 12 - 1 = 11
  BY DEF Canon
<1>3. /\ u \in [1..11 -> Range(u)] /\ u[1] = t[1]
      /\ \A j \in 2..11 : u[j] = t[j + 1]
  <2>1. Lacks(u, t, 12, 2)
    BY <1>1, <1>2, WithoutLines, Zenon
  <2>2. QED
    BY <1>2, <2>1 DEF Lacks
<1>4. ASSUME NEW a \in 1..8
      PROVE  /\ FirstFor(u, 11, FieldKeys[a], a + 1)
             /\ ValueOf(u[a + 1]) = f[FieldKeys[a]] /\ StyleOf(u[a + 1]) # "malformed"
  <2>1. a + 2 \in 1..12 /\ a + 1 \in 2..11 /\ a + 1 \in 1..11 /\ (a + 1) + 1 = a + 2
    OBVIOUS
  <2>2. u[a + 1] = t[a + 2]
    BY <1>3, <2>1, Zenon
  <2>3. ASSUME NEW j \in 1..((a + 1) - 1)
        PROVE  KeyOf(u[j]) # FieldKeys[a]
    <3>1. CASE j = 1
      BY <1>3, <3>1 DEF Canon
    <3>2. CASE j # 1
      <4>1. j \in 2..11 /\ j + 1 \in 1..12 /\ j + 1 # a + 2
        BY <3>2
      <4>2. QED
        BY <1>3, <4>1, Zenon DEF Canon
    <3>3. QED
      BY <3>1, <3>2, Zenon
  <2>4. QED
    BY <2>1, <2>2, <2>3, Zenon DEF Canon, FirstFor
<1>5. Carries(u, 11, f)
  <2>1. \A a \in 1..8 : a + 1 \in 1..11
    OBVIOUS
  <2>2. KeyOf(u[1]) = "title" /\ KeyOf(u[11]) = "footer"
    BY <1>3 DEF Canon
  <2>3. \A j \in 1..11 : KeyOf(u[j]) # "draft"
    <3> TAKE j \in 1..11
    <3>1. j = 1 \/ (j \in 2..11 /\ j + 1 \in 1..12)
      OBVIOUS
    <3>2. QED
      BY <1>3, <3>1, Zenon DEF Canon
  <2>4. QED
    BY <1>3, <1>4, <2>1, <2>2, <2>3 DEF Carries
<1>6. \A g : u # BuildMessage(g)
  <2>1. DOMAIN u # 1..12
    <3>1. 12 \notin DOMAIN u
      BY <1>3
    <3>2. QED
      BY <3>1
  <2>2. QED
    BY <2>1, NotCanonical, Zenon
<1>7. QED
  BY <1>1, <1>5, <1>6, Zenon DEF IsVariant

(* The text with a line more, before the fields or after them, whatever it *)
(* says: the parser reads the first line of a field.                       *)
LEMMA LongerVariant ==
    ASSUME NEW t, NEW f, Canon(t, f), NEW line, NEW i \in {3, 11}, KeyOf(line) # "draft",
           i = 3 => \A a \in 1..8 : KeyOf(line) # FieldKeys[a]
    PROVE  IsVariant(With(t, i, line), f)
<1>1. PICK u : u = With(t, i, line)
  BY Zenon
<1>2. t \in [1..12 -> Range(t)] /\ 12 \in Nat /\ i \in 1..12 /\ 12 + 1 = 13
  BY DEF Canon
<1>3. /\ u \in [1..13 -> Range(u)] /\ u[i] = line
      /\ \A j \in 1..(i - 1) : u[j] = t[j]
      /\ \A j \in i..12 : u[j + 1] = t[j]
  <2>1. Gains(u, t, 12, i, line)
    BY <1>1, <1>2, WithLines, Zenon
  <2>2. QED
    BY <1>2, <2>1, Zenon DEF Gains
<1> DEFINE pos(a) == IF i = 3 THEN a + 3 ELSE a + 2
<1>4. ASSUME NEW j \in 1..13
      PROVE  \/ j < i /\ j \in 1..12 /\ u[j] = t[j]
             \/ j = i /\ u[j] = line
             \/ j > i /\ j - 1 \in 1..12 /\ u[j] = t[j - 1]
  <2>1. CASE j < i
    BY <1>3, <2>1
  <2>2. CASE j > i
    <3>1. j - 1 \in i..12 /\ (j - 1) + 1 = j /\ j - 1 \in 1..12
      BY <2>2
    <3>2. QED
      BY <1>3, <2>2, <3>1, Zenon
  <2>3. QED
    BY <1>3, <2>1, <2>2
<1>5. ASSUME NEW a \in 1..8
      PROVE  /\ pos(a) \in 1..13 /\ u[pos(a)] = t[a + 2]
             /\ \A j \in 1..(pos(a) - 1) : KeyOf(u[j]) # FieldKeys[a]
  <2>1. pos(a) \in 1..13
    OBVIOUS
  <2>2. u[pos(a)] = t[a + 2]
    <3>1. (i = 3 /\ a + 2 \in i..12 /\ (a + 2) + 1 = a + 3) \/ (i = 11 /\ a + 2 \in 1..(i - 1))
      OBVIOUS
    <3>2. QED
      BY <1>3, <3>1
  <2>3. ASSUME NEW j \in 1..(pos(a) - 1)
        PROVE  KeyOf(u[j]) # FieldKeys[a]
    <3>1. \A k \in 1..12 : KeyOf(t[k]) = FieldKeys[a] => k = a + 2
      BY Zenon DEF Canon
    <3>2. j \in 1..13 /\ (j < i => j # a + 2) /\ (j > i => j - 1 # a + 2) /\ (j = i => i = 3)
      BY <2>3
    <3>3. QED
      BY <1>4, <3>1, <3>2, Zenon
  <2>4. QED
    BY <2>1, <2>2, <2>3, Zenon
<1>6. \A a \in 1..8 : KeyOf(t[a + 2]) = FieldKeys[a] /\ ValueOf(t[a + 2]) = f[FieldKeys[a]]
                      /\ StyleOf(t[a + 2]) # "malformed"
  <2>1. \A a \in 1..8 : a + 2 \in 1..12
    OBVIOUS
  <2>2. QED
    BY <2>1, Zenon DEF Canon
<1> HIDE DEF pos
<1>7. Carries(u, 13, f)
  <2>1. ASSUME NEW a \in 1..8
        PROVE  /\ FirstFor(u, 13, FieldKeys[a], pos(a))
               /\ ValueOf(u[pos(a)]) = f[FieldKeys[a]] /\ StyleOf(u[pos(a)]) # "malformed"
    BY <1>5, <1>6, Zenon DEF FirstFor
  <2>2. KeyOf(u[1]) = "title" /\ KeyOf(u[13]) = "footer"
    <3>1. 1 \in 1..(i - 1) /\ 12 \in i..12 /\ 12 + 1 = 13
      OBVIOUS
    <3>2. u[1] = t[1] /\ u[13] = t[12]
      BY <1>3, <3>1, Zenon
    <3>3. QED
      BY <3>2, Zenon DEF Canon
  <2>3. \A j \in 1..13 : KeyOf(u[j]) # "draft"
    BY <1>4, Zenon DEF Canon
  <2>4. QED
    BY <1>3, <1>5, <2>1, <2>2, <2>3 DEF Carries
<1>8. \A g : u # BuildMessage(g)
  <2>1. DOMAIN u # 1..12
    <3>1. 13 \in DOMAIN u
      BY <1>3
    <3>2. QED
      BY <3>1
  <2>2. QED
    BY <2>1, NotCanonical, Zenon
<1>9. QED
  BY <1>1, <1>7, <1>8, Zenon DEF IsVariant

(* Every variant of a message is one.                                      *)
LEMMA VariantsAre ==
    ASSUME NEW f, NEW u \in Variants(f)
    PROVE  IsVariant(u, f)
<1> DEFINE t == BuildMessage(f)
<1>1. Canon(t, f) /\ DOMAIN t = 1..12
  BY CanonicalFacts, Zenon DEF Canon
<1>2. \/ \E i \in 1..12 : u = Restyled(t, i, "padded")
      \/ \E i \in 1..12 : u = Restyled(t, i, "respelled")
      \/ u = Without(t, 2)
      \/ u = With(t, 3, Other("none"))
      \/ u = With(t, 11, Line("wallet", Invalid))
      \/ u = With(t, 11, <<"expires", "malformed", f.expires>>)
      \/ \E i \in 3..9 : u = Swapped(t, i)
  BY <1>1 DEF Variants
<1> HIDE DEF t
<1>3. CASE \E i \in 1..12 : u = Restyled(t, i, "padded")
  BY <1>1, <1>3, RestyledVariant, Zenon
<1>4. CASE \E i \in 1..12 : u = Restyled(t, i, "respelled")
  BY <1>1, <1>4, RestyledVariant, Zenon
<1>5. CASE u = Without(t, 2)
  BY <1>1, <1>5, ShorterVariant, Zenon
<1>6. CASE u = With(t, 3, Other("none"))
  <2>1. KeyOf(Other("none")) = "none"
    BY Zenon DEF KeyOf, Other, Line
  <2>2. \A a \in 1..8 : FieldKeys[a] # "none"
    BY FieldKeysFacts, Zenon
  <2>3. QED
    BY <1>1, <1>6, <2>1, <2>2, LongerVariant, Zenon
<1>7. CASE u = With(t, 11, Line("wallet", Invalid))
  <2>1. KeyOf(Line("wallet", Invalid)) = "wallet"
    BY Zenon DEF KeyOf, Line
  <2>2. QED
    BY <1>1, <1>7, <2>1, LongerVariant
<1>8. CASE u = With(t, 11, <<"expires", "malformed", f.expires>>)
  <2>1. KeyOf(<<"expires", "malformed", f.expires>>) = "expires"
    BY Zenon DEF KeyOf
  <2>2. QED
    BY <1>1, <1>8, <2>1, LongerVariant
<1>9. CASE \E i \in 3..9 : u = Swapped(t, i)
  BY <1>1, <1>9, SwappedVariant, Zenon
<1>10. QED
  BY <1>2, <1>3, <1>4, <1>5, <1>6, <1>7, <1>8, <1>9, Zenon

(* None of the broken texts of a message parses, or is empty.              *)
LEMMA BrokenFails ==
    ASSUME NEW f, NEW u \in Broken(f)
    PROVE  u # <<>> /\ ~Parses(u)
<1> DEFINE t == BuildMessage(f)
<1>1. Canon(t, f) /\ t \in [1..12 -> Range(t)] /\ 12 \in Nat
  BY CanonicalFacts, Zenon DEF Canon
<1>2. \/ u = <<Other("title")>>
      \/ u = Without(Without(t, 11), 2)
      \/ u = Without(t, 1)
      \/ u = Without(t, 12)
      \/ u = With(t, 9, Line("draft", f.sha))
      \/ u = Replaced(t, 6, Line("chain", 0))
      \/ u = Replaced(t, 8, Line("sha", Blank))
      \/ u = t \o <<Other("none")>>
      \/ \E i \in 3..10 : u = Replaced(t, i, Other("none"))
      \/ \E i \in {6, 9, 10} : u = Restyled(t, i, "malformed")
  BY Zenon DEF Broken
<1>3. t \in Seq(Range(t)) /\ Len(t) = 12
  BY <1>1, FunctionList, ZenonT(30)
<1> HIDE DEF t
<1>a. ASSUME Len(u) > 0 PROVE u # <<>>
  BY <1>a
<1>b. ASSUME Parses(u)
      PROVE  /\ Len(u) >= 11 /\ KeyOf(u[1]) = "title" /\ KeyOf(u[Len(u)]) = "footer"
             /\ \A key \in Range(FieldKeys) : LinesWith(u, key) # {}
             /\ LinesWith(u, "draft") = {}
             /\ \A key \in {"chain", "issued", "expires"} :
                    StyleOf(readField(u, key)) # "malformed"
             /\ ValueOf(readField(u, "chain")) >= 1
             /\ ValueOf(readField(u, "sha")) # Blank
  BY <1>b, Zenon DEF Parses
<1>c. PICK n \in Nat : n = 12
  BY Zenon
<1>4. CASE u = <<Other("title")>>
  <2>1. Len(u) = 1
    BY <1>4, Zenon
  <2>2. QED
    BY <1>a, <1>b, <2>1
<1>5. CASE u = Without(Without(t, 11), 2)
  <2>1. PICK w : w = Without(t, 11)
    BY Zenon
  <2>2. Lacks(w, t, 12, 11)
    <3>1. 11 \in 1..12
      OBVIOUS
    <3>2. QED
      BY <1>1, <2>1, <3>1, WithoutLines, Zenon
  <2>3. w \in [1..11 -> Range(w)] /\ 11 \in Nat /\ 2 \in 1..11
    BY <2>2 DEF Lacks
  <2>4. Lacks(u, w, 11, 2)
    BY <1>5, <2>1, <2>3, WithoutLines, Zenon
  <2>5. u \in [1..10 -> Range(u)]
    BY <2>4 DEF Lacks
  <2>6. Len(u) = 10
    BY <2>5, FunctionList, Zenon
  <2>7. QED
    BY <1>a, <1>b, <2>6
<1>6. CASE u = Without(t, 1)
  <2>1. Lacks(u, t, 12, 1)
    <3>1. 1 \in 1..12
      OBVIOUS
    <3>2. QED
      BY <1>1, <1>6, <3>1, WithoutLines, Zenon
  <2>2. u \in [1..11 -> Range(u)] /\ u[1] = t[2]
    BY <2>1 DEF Lacks
  <2>3. Len(u) = 11
    BY <2>2, FunctionList
  <2>4. KeyOf(u[1]) = "none"
    BY <1>1, <2>2, Zenon DEF Canon
  <2>5. QED
    BY <1>a, <1>b, <2>3, <2>4
<1>7. CASE u = Without(t, 12)
  <2>1. Lacks(u, t, 12, 12)
    <3>1. 12 \in 1..12
      OBVIOUS
    <3>2. QED
      BY <1>1, <1>7, <3>1, WithoutLines, Zenon
  <2>2. u \in [1..11 -> Range(u)] /\ u[11] = t[11]
    BY <2>1 DEF Lacks
  <2>3. Len(u) = 11
    BY <2>2, FunctionList
  <2>4. KeyOf(u[11]) = "none"
    BY <1>1, <2>2, Zenon DEF Canon
  <2>5. QED
    BY <1>a, <1>b, <2>3, <2>4
<1>8. CASE u = With(t, 9, Line("draft", f.sha))
  <2>1. Gains(u, t, 12, 9, Line("draft", f.sha))
    <3>1. 9 \in 1..12
      OBVIOUS
    <3>2. QED
      BY <1>1, <1>8, <3>1, WithLines, Zenon
  <2>2. u \in [1..13 -> Range(u)] /\ u[9] = Line("draft", f.sha)
    BY <2>1 DEF Gains
  <2>3. Len(u) = 13 /\ 9 \in DOMAIN u
    BY <2>2, FunctionList
  <2>4. KeyOf(u[9]) = "draft"
    BY <2>2 DEF KeyOf, Line
  <2>5. 9 \in LinesWith(u, "draft")
    BY <2>3, <2>4, Zenon DEF LinesWith
  <2>6. QED
    BY <1>a, <1>b, <2>3, <2>5
<1>9. CASE u = t \o <<Other("none")>>
  <2>1. Len(u) = 13 /\ u[13] = Other("none")
    <3> DEFINE e == <<Other("none")>>
               S == Range(t) \cup {Other("none")}
    <3>1. t \in Seq(S) /\ e \in Seq(S) /\ Len(e) = 1 /\ e[1] = Other("none")
      BY <1>3
    <3> HIDE DEF e, S
    <3>2. Follows(u, t, e)
      BY <1>9, <3>1, ConcatLines, Zenon DEF e
    <3>3. QED
      BY <1>3, <3>1, <3>2 DEF Follows
  <2>2. KeyOf(u[13]) = "none"
    BY <2>1 DEF KeyOf, Other, Line
  <2>3. QED
    BY <1>a, <1>b, <2>1, <2>2
<1>10. ASSUME NEW a \in 1..8, NEW i, i = a + 2, NEW line, u = Replaced(t, i, line)
       PROVE  /\ u \in [1..12 -> Range(u)] /\ Len(u) = 12
              /\ KeyOf(line) = FieldKeys[a] => readField(u, FieldKeys[a]) = line
              /\ KeyOf(line) # FieldKeys[a] => LinesWith(u, FieldKeys[a]) = {}
  <2>1. /\ DOMAIN u = 1..12 /\ a + 2 \in 1..12 /\ u[a + 2] = line
        /\ \A j \in 1..12 \ {a + 2} : u[j] = t[j]
    BY <1>1, <1>10 DEF Replaced
  <2>2. u \in [1..12 -> Range(u)]
    BY <1>1, <1>10, <2>1 DEF Range, Replaced
  <2>3. Len(u) = 12
    BY <2>2, FunctionList, Zenon
  <2>4. \A j \in 1..12 \ {a + 2} : KeyOf(u[j]) # FieldKeys[a]
    BY <1>1, <2>1 DEF Canon
  <2>5. ASSUME KeyOf(line) = FieldKeys[a]
        PROVE  readField(u, FieldKeys[a]) = line
    <3>1. FirstFor(u, 12, FieldKeys[a], a + 2)
      BY <2>1, <2>4, <2>5 DEF FirstFor
    <3>2. DOMAIN u = 1..n /\ FirstFor(u, n, FieldKeys[a], a + 2)
      BY <1>c, <2>1, <3>1, Zenon
    <3>3. readField(u, FieldKeys[a]) = u[a + 2]
      BY <3>2, ReadsFirst, Zenon
    <3>4. QED
      BY <2>1, <3>3, Zenon
  <2>6. ASSUME KeyOf(line) # FieldKeys[a]
        PROVE  LinesWith(u, FieldKeys[a]) = {}
    BY <2>1, <2>4, <2>6, Zenon DEF LinesWith
  <2>7. QED
    BY <2>1, <2>2, <2>3, <2>5, <2>6, Zenon
<1>11. /\ FieldKeys[4] = "chain" /\ FieldKeys[6] = "sha" /\ FieldKeys[7] = "issued"
       /\ FieldKeys[8] = "expires"
  BY Zenon DEF FieldKeys
<1>12. CASE u = Replaced(t, 6, Line("chain", 0))
  <2>1. KeyOf(Line("chain", 0)) = "chain" /\ ValueOf(Line("chain", 0)) = 0
    BY Zenon DEF KeyOf, ValueOf, Line
  <2>2. 4 \in 1..8 /\ 4 + 2 = 6
    OBVIOUS
  <2>3. Len(u) = 12 /\ readField(u, "chain") = Line("chain", 0)
    BY <1>10, <1>11, <1>12, <2>1, <2>2, Zenon
  <2>4. QED
    BY <1>a, <1>b, <2>1, <2>3
<1>13. CASE u = Replaced(t, 8, Line("sha", Blank))
  <2>1. KeyOf(Line("sha", Blank)) = "sha" /\ ValueOf(Line("sha", Blank)) = Blank
    BY Zenon DEF KeyOf, ValueOf, Line
  <2>2. 6 \in 1..8 /\ 6 + 2 = 8
    OBVIOUS
  <2>3. Len(u) = 12 /\ readField(u, "sha") = Line("sha", Blank)
    BY <1>10, <1>11, <1>13, <2>1, <2>2, Zenon
  <2>4. QED
    BY <1>a, <1>b, <2>1, <2>3
<1>14. CASE \E i \in 3..10 : u = Replaced(t, i, Other("none"))
  <2>1. PICK i \in 3..10 : u = Replaced(t, i, Other("none"))
    BY <1>14, Zenon
  <2>2. PICK a \in 1..8 : i = a + 2
    <3>1. i - 2 \in 1..8 /\ i = (i - 2) + 2
      OBVIOUS
    <3>2. QED
      BY <3>1, Zenon
  <2>3. KeyOf(Other("none")) = "none"
    BY Zenon DEF KeyOf, Other, Line
  <2>4. FieldKeys[a] # "none" /\ FieldKeys[a] \in Range(FieldKeys)
    BY FieldKeysFacts, Zenon
  <2>5. Len(u) = 12 /\ LinesWith(u, FieldKeys[a]) = {}
    BY <1>10, <2>1, <2>2, <2>3, <2>4, Zenon
  <2>6. QED
    BY <1>a, <1>b, <2>4, <2>5
<1>15. CASE \E i \in {6, 9, 10} : u = Restyled(t, i, "malformed")
  <2>1. PICK i \in {6, 9, 10} : u = Restyled(t, i, "malformed")
    BY <1>15, Zenon
  <2>2. i \in 1..12
    OBVIOUS
  <2>3. RestyledAt(u, t, i, "malformed")
    BY <1>1, <2>1, <2>2, RestyledLines, Zenon
  <2>4. /\ u \in [1..12 -> Range(u)] /\ StyleOf(u[i]) = "malformed"
        /\ \A j \in 1..12 : KeyOf(u[j]) = KeyOf(t[j])
    BY <2>3, Zenon DEF RestyledAt
  <2>5. Len(u) = 12 /\ DOMAIN u = 1..12
    BY <2>4, FunctionList
  <2>6. PICK a \in 1..8 : i = a + 2 /\ FieldKeys[a] \in {"chain", "issued", "expires"}
    <3>1. i - 2 \in 1..8 /\ i = (i - 2) + 2 /\ i - 2 \in {4, 7, 8}
      OBVIOUS
    <3>2. QED
      BY <1>11, <3>1, Zenon
  <2>7. FirstFor(u, 12, FieldKeys[a], i)
    BY <1>1, <2>2, <2>4, <2>6 DEF FirstFor, Canon
  <2>8. readField(u, FieldKeys[a]) = u[i]
    <3>1. DOMAIN u = 1..n /\ FirstFor(u, n, FieldKeys[a], i)
      BY <1>c, <2>5, <2>7, Zenon
    <3>2. QED
      BY <3>1, ReadsFirst
  <2>9. QED
    BY <1>a, <1>b, <2>4, <2>5, <2>6, <2>8
<1>16. QED
  BY <1>2, <1>4, <1>5, <1>6, <1>7, <1>8, <1>9, <1>12, <1>13, <1>14, <1>15, Zenon

(* The text decides as the fields do, for every text a message stands for. *)
LEMMA TextsAgree ==
    ASSUME NEW m, m.form \in {"canonical", "variant", "unparsable"}, Usable(m),
           NEW text \in TextsOf(m), NEW signer, NEW in, NEW now
    PROVE  VerifyText(text, signer, in, now) = VerifyAuthorization(m, signer, in, now)
<1>1. m.form \in {"canonical", "variant", "unparsable"}
  BY Zenon
<1>2. CASE m.form = "canonical"
  <2>1. text = BuildMessage(m)
    BY <1>2, Zenon DEF TextsOf
  <2>2. Carries(text, 12, m) /\ 12 \in Nat
    BY <2>1, CanonicalFacts, CanonCarries, Zenon
  <2>3. QED
    BY <1>2, <2>1, <2>2, CarriedAgrees
<1>3. CASE m.form = "variant"
  <2>1. text \in Variants(m)
    BY <1>3, Zenon DEF TextsOf
  <2>2. IsVariant(text, m)
    BY <2>1, VariantsAre, Zenon
  <2>3. PICK n \in Nat : Carries(text, n, m)
    BY <2>2, Zenon DEF IsVariant
  <2>4. \A g : text # BuildMessage(g)
    BY <2>2, Zenon DEF IsVariant
  <2>5. QED
    BY <1>3, <2>3, <2>4, CarriedAgrees
<1>4. CASE m.form = "unparsable"
  <2>1. text \in Broken(m)
    BY <1>4, Zenon DEF TextsOf
  <2>2. QED
    BY <1>4, <2>1, BrokenFails, BrokenAgrees
<1>5. QED
  BY <1>1, <1>2, <1>3, <1>4, Zenon

-------------------------------------------------------------------------------
(* The subtrees of a payload                                               *)

(* The equation of the function that Levels defines.                       *)
Descends(g, v, n) ==
    g = [k \in 0..n |-> IF k = 0 THEN {v} ELSE ChildrenOf(g[k - 1])]

(* The function exists: a least depth without it is not 0, and is not one  *)
(* more than a depth with it.                                              *)
LEMMA LevelsExist ==
    ASSUME NEW v, NEW n \in Nat
    PROVE  \E g : Descends(g, v, n)
<1> DEFINE Bad == {k \in Nat : ~\E g : Descends(g, v, k)}
<1>1. ASSUME Bad # {}
      PROVE  FALSE
  <2>1. PICK k \in Bad : \A j \in Bad : k <= j
    <3>1. Bad \subseteq Nat
      BY Zenon
    <3> HIDE DEF Bad
    <3>2. QED
      BY <1>1, <3>1, LeastNatural, Zenon
  <2>2. k \in Nat /\ ~\E g : Descends(g, v, k)
    BY Zenon
  <2>3. k # 0
    <3>1. Descends([i \in 0..0 |-> {v}], v, 0)
      BY DEF Descends
    <3>2. QED
      BY <2>2, <3>1, Zenon
  <2>4. k - 1 \in Nat /\ k - 1 \notin Bad
    <3> HIDE DEF Bad
    <3>1. QED
      BY <2>1, <2>2, <2>3
  <2>5. PICK g : g = [i \in 0..(k - 1) |-> IF i = 0 THEN {v} ELSE ChildrenOf(g[i - 1])]
    BY <2>4, Zenon DEF Descends
  <2> DEFINE h == [i \in 0..k |-> IF i < k THEN g[i] ELSE ChildrenOf(g[i - 1])]
  <2>6. ASSUME NEW i \in 0..k
        PROVE  h[i] = IF i = 0 THEN {v} ELSE ChildrenOf(h[i - 1])
    <3>1. i # 0 => h[i - 1] = g[i - 1]
      BY <2>2
    <3>2. CASE i < k
      <4>1. h[i] = g[i] /\ i \in 0..(k - 1)
        BY <2>2, <3>2
      <4>2. g[i] = IF i = 0 THEN {v} ELSE ChildrenOf(g[i - 1])
        BY <2>5, <4>1, Zenon
      <4>3. QED
        BY <3>1, <4>1, <4>2, Zenon
    <3>3. CASE ~(i < k)
      <4>1. i # 0 /\ h[i] = ChildrenOf(g[i - 1])
        BY <2>2, <2>3, <3>3
      <4>2. QED
        BY <3>1, <4>1, Zenon
    <3>4. QED
      BY <3>2, <3>3, Zenon
  <2>7. Descends(h, v, k)
    <3>1. h = [i \in 0..k |-> h[i]]
      BY Zenon
    <3> HIDE DEF h
    <3>2. QED
      BY <2>6, <3>1, Zenon DEF Descends
  <2>8. QED
    BY <2>2, <2>7, Zenon
<1>2. QED
  BY <1>1, Zenon

(* The levels of a value, one by one.                                      *)
LEMMA LevelSteps ==
    ASSUME NEW v
    PROVE  /\ Levels(v)[0] = {v}
           /\ \A n \in 1..MaxNesting : Levels(v)[n] = ChildrenOf(Levels(v)[n - 1])
<1>0. MaxNesting \in Nat
  BY NestingAssumption, Zenon
<1>1. PICK g : g = CHOOSE f : f = [k \in 0..MaxNesting |->
                                   IF k = 0 THEN {v} ELSE ChildrenOf(f[k - 1])]
  BY Zenon
<1>2. Levels(v) = g
  BY <1>1, Zenon DEF Levels
<1>3. g = [k \in 0..MaxNesting |-> IF k = 0 THEN {v} ELSE ChildrenOf(g[k - 1])]
  <2>1. \E f : f = [k \in 0..MaxNesting |-> IF k = 0 THEN {v} ELSE ChildrenOf(f[k - 1])]
    BY <1>0, LevelsExist, ZenonT(30) DEF Descends
  <2>2. QED
    BY <1>1, <2>1, Zenon
<1>4. \A k \in 0..MaxNesting : g[k] = IF k = 0 THEN {v} ELSE ChildrenOf(g[k - 1])
  BY <1>3, Zenon
<1>5. QED
  BY <1>0, <1>2, <1>4

-------------------------------------------------------------------------------
(* The findings of a payload                                               *)

Strings == [t : {"string"}, v : Int]

(* n strings in their order, and in strict order.                          *)
InOrder(q, n)       == q \in [1..n -> Strings] /\ \A i, j \in 1..n : i < j => q[i].v <= q[j].v
InStrictOrder(q, n) == q \in [1..n -> Strings] /\ \A i, j \in 1..n : i < j => q[i].v < q[j].v

(* sort.Strings returns the findings it is given, in order.                *)
LEMMA SortedFindings ==
    ASSUME NEW n \in Nat, NEW s \in [1..n -> Strings]
    PROVE  \E m \in Nat : InOrder(Sorted(s), m) /\ Range(Sorted(s)) = Range(s)
<1> DEFINE D == DOMAIN s
           m == Cardinality(D)
           q == Sorted(s)
<1>0. PICK key : key = [i \in D |-> s[i].v]
  BY Zenon
<1>1. D = 1..n /\ IsFiniteSet(D) /\ key \in [D -> Int] /\ \A i \in D : key[i] = s[i].v
  <2>1. D = 1..n
    BY Zenon
  <2>2. IsFiniteSet(1..n)
    BY FS_Interval
  <2>3. QED
    BY <1>0, <2>1, <2>2, Zenon DEF Strings
<1> DEFINE f == SortedBy(D, key)
<1> HIDE DEF D
<1>2. /\ m \in Nat /\ f \in [1..m -> D]
      /\ \A i, j \in 1..m : i < j => key[f[i]] <= key[f[j]]
      /\ \A x \in D : \E i \in 1..m : f[i] = x
  <2>0. IsFiniteSet(D) /\ key \in [D -> Int]
    BY <1>1, Zenon
  <2>1. /\ m \in Nat /\ Sorts(f, D, key)
        /\ \A x \in D : \E i \in 1..m : f[i] = x
    BY <2>0, SortedByProperties, Zenon
  <2> HIDE DEF f
  <2>2. QED
    BY <2>1, Zenon DEF Sorts
<1> HIDE DEF m
<1>3. q = [k \in DOMAIN f |-> s[f[k]]]
  BY <1>0, Zenon DEF Sorted, D
<1> HIDE DEF f, q
<1>4. DOMAIN q = 1..m /\ \A k \in 1..m : f[k] \in D /\ q[k] = s[f[k]]
  BY <1>2, <1>3, Zenon
<1>5. q \in [1..m -> Strings]
  BY <1>1, <1>3, <1>4, Zenon
<1>6. \A i, j \in 1..m : i < j => q[i].v <= q[j].v
  <2>1. \A i \in 1..m : q[i].v = key[f[i]]
    BY <1>1, <1>4, Zenon
  <2>2. QED
    BY <1>2, <2>1, Zenon
<1>7. Range(q) = Range(s)
  <2>1. ASSUME NEW x \in Range(q) PROVE x \in Range(s)
    <3>1. PICK k \in 1..m : x = q[k]
      BY <1>4, Zenon DEF Range
    <3>2. QED
      BY <1>4, <3>1, Zenon DEF Range, D
  <2>2. ASSUME NEW x \in Range(s) PROVE x \in Range(q)
    <3>1. PICK i \in D : x = s[i]
      BY Zenon DEF Range, D
    <3>2. PICK k \in 1..m : f[k] = i
      BY <1>2, Zenon
    <3>3. QED
      BY <1>4, <3>1, <3>2, Zenon DEF Range
  <2>3. QED
    BY <2>1, <2>2, Zenon
<1>8. QED
  BY <1>2, <1>5, <1>6, <1>7, Zenon DEF InOrder, q

(* Dropping repetitions from strings in order leaves the same strings in   *)
(* strict order.                                                           *)
LEMMA RepetitionsDropped ==
    ASSUME NEW n \in Nat, NEW q, InOrder(q, n)
    PROVE  \E m \in Nat : InStrictOrder(DropRepeated(q), m) /\ Range(DropRepeated(q)) = Range(q)
<1> DEFINE P == {i \in DOMAIN q : i > 1 => q[i] # q[i - 1]}
           m == Cardinality(P)
           f == Ascending(P)
           d == DropRepeated(q)
<1>1. q \in [1..n -> Strings] /\ \A i, j \in 1..n : i < j => q[i].v <= q[j].v
  BY Zenon DEF InOrder
<1>2. DOMAIN q = 1..n /\ P \subseteq 1..n
  BY <1>1, Zenon
<1>3. IsFiniteSet(P) /\ P \subseteq Int
  <2> HIDE DEF P
  <2>1. QED
    BY <1>2, PositionsFinite, Zenon
<1>4. \A i \in P : i > 1 => q[i] # q[i - 1]
  BY Zenon
<1>5. \A i \in 1..n : i \notin P => i > 1 /\ q[i] = q[i - 1]
  BY <1>2, Zenon
<1>6. d = [k \in DOMAIN f |-> q[f[k]]]
  BY Zenon DEF DropRepeated, Pick
<1> HIDE DEF P, d
<1>7. /\ m \in Nat /\ f \in [1..m -> P]
      /\ \A i, j \in 1..m : i < j => f[i] < f[j]
      /\ \A x \in P : \E i \in 1..m : f[i] = x
  BY <1>3, AscendingProperties, Zenon
<1> HIDE DEF m, f
<1>8. DOMAIN d = 1..m /\ \A k \in 1..m : f[k] \in P /\ f[k] \in 1..n /\ d[k] = q[f[k]]
  BY <1>2, <1>6, <1>7, Zenon
<1>9. d \in [1..m -> Strings]
  BY <1>1, <1>6, <1>8, Zenon
<1>10. \A x, y \in Strings : x.v = y.v => x = y
  BY DEF Strings
<1>11. ASSUME NEW i \in 1..m, NEW j \in 1..m, i < j
       PROVE  d[i].v < d[j].v
  <2>1. PICK a \in 1..n : a = f[i]
    BY <1>8, Zenon
  <2>2. PICK b \in 1..n : b = f[j]
    BY <1>8, Zenon
  <2>3. a < b /\ b > 1 /\ b - 1 \in 1..n /\ (a = b - 1 \/ a < b - 1) /\ b - 1 < b
    BY <1>7, <1>11, <2>1, <2>2
  <2>4. q[b] # q[b - 1] /\ q[b] \in Strings /\ q[b - 1] \in Strings /\ q[a] \in Strings
    BY <1>1, <1>4, <1>8, <2>2, <2>3, Zenon
  <2>5. q[b - 1].v # q[b].v /\ q[b - 1].v <= q[b].v /\ q[a].v <= q[b - 1].v
    <3>1. q[b - 1].v # q[b].v
      BY <1>10, <2>4, Zenon
    <3>2. q[b - 1].v <= q[b].v
      BY <1>1, <2>3, Zenon
    <3>3. q[a].v <= q[b - 1].v
      <4>1. q[a].v \in Int
        BY <2>4, Zenon DEF Strings
      <4>2. QED
        BY <1>1, <2>3, <4>1
    <3>4. QED
      BY <3>1, <3>2, <3>3, Zenon
  <2>6. q[a].v \in Int /\ q[b].v \in Int /\ q[b - 1].v \in Int
    BY <2>4, Zenon DEF Strings
  <2>7. q[a].v < q[b].v
    BY <2>5, <2>6
  <2>8. QED
    BY <1>8, <2>1, <2>2, <2>7, Zenon
<1>12. Range(d) = Range(q)
  <2>1. ASSUME NEW x \in Range(d) PROVE x \in Range(q)
    <3>1. PICK k \in 1..m : x = d[k]
      BY <1>8, Zenon DEF Range
    <3>2. QED
      BY <1>2, <1>8, <3>1, Zenon DEF Range
  <2>2. ASSUME NEW x \in Range(q) PROVE x \in Range(d)
    <3> DEFINE E == {i \in 1..n : q[i] = x}
    <3>1. E # {} /\ E \subseteq Nat
      BY <1>2, <2>2 DEF Range
    <3>2. PICK i \in E : \A j \in E : i <= j
      <4> HIDE DEF E
      <4>1. QED
        BY <3>1, LeastNatural, Zenon
    <3>3. i \in 1..n /\ q[i] = x /\ \A j \in 1..n : q[j] = x => i <= j
      BY <3>2, Zenon
    <3>4. i \in P
      <4>1. ASSUME i > 1, q[i] = q[i - 1]
            PROVE  FALSE
        BY <3>3, <4>1
      <4>2. QED
        BY <1>5, <3>3, <4>1, Zenon
    <3>5. PICK k \in 1..m : f[k] = i
      BY <1>7, <3>4, Zenon
    <3>6. QED
      BY <1>8, <3>3, <3>5, Zenon DEF Range
  <2>3. QED
    BY <2>1, <2>2, Zenon
<1>13. InStrictOrder(d, m)
  BY <1>9, <1>11, Zenon DEF InStrictOrder
<1>14. QED
  BY <1>7, <1>12, <1>13, Zenon DEF d

(* What NormalizeAcceptedFindings returns.                                 *)
LEMMA Normalized ==
    ASSUME NEW n \in Nat, NEW s \in [1..n -> Strings]
    PROVE  \E m \in Nat : /\ InStrictOrder(NormalizeAcceptedFindings(s), m)
                          /\ Range(NormalizeAcceptedFindings(s)) = Range(s)
<1>1. PICK k \in Nat : InOrder(Sorted(s), k) /\ Range(Sorted(s)) = Range(s)
  BY SortedFindings, Zenon
<1>2. PICK m \in Nat : /\ InStrictOrder(DropRepeated(Sorted(s)), m)
                      /\ Range(DropRepeated(Sorted(s))) = Range(Sorted(s))
  BY <1>1, RepetitionsDropped, Zenon
<1>3. QED
  BY <1>1, <1>2, Zenon DEF NormalizeAcceptedFindings

(* Strings in strict order are determined by which strings they are.       *)
LEMMA StrictOrderUnique ==
    ASSUME NEW m \in Nat, NEW n \in Nat, NEW q, NEW r, InStrictOrder(q, m), InStrictOrder(r, n),
           Range(q) = Range(r)
    PROVE  q = r
<1> DEFINE f == [i \in 1..m |-> q[i].v]
           g == [i \in 1..n |-> r[i].v]
<1>1. /\ q \in [1..m -> Strings] /\ r \in [1..n -> Strings]
      /\ DOMAIN q = 1..m /\ DOMAIN r = 1..n
      /\ \A i, j \in 1..m : i < j => q[i].v < q[j].v
      /\ \A i, j \in 1..n : i < j => r[i].v < r[j].v
  BY Zenon DEF InStrictOrder
<1>2. /\ \A i \in 1..m : \E j \in 1..n : r[j] = q[i]
      /\ \A j \in 1..n : \E i \in 1..m : q[i] = r[j]
  <2>1. /\ \A i \in 1..m : q[i] \in Range(r)
        /\ \A j \in 1..n : r[j] \in Range(q)
    <3>1. \A i \in 1..m : q[i] \in Range(q)
      BY <1>1, Zenon DEF Range
    <3>2. \A j \in 1..n : r[j] \in Range(r)
      BY <1>1, Zenon DEF Range
    <3>3. QED
      BY <3>1, <3>2, Zenon
  <2>2. QED
    BY <1>1, <2>1, Zenon DEF Range
<1>3. Increasing(f, m) /\ Increasing(g, n)
  BY <1>1, Zenon DEF Increasing, Strings
<1>4. Within(f, m, g, n) /\ Within(g, n, f, m)
  BY <1>2, Zenon DEF Within
<1>5. m = n /\ f = g
  <2> HIDE DEF f, g
  <2>1. QED
    BY <1>3, <1>4, IncreasingUnique, Zenon
<1>6. \A i \in 1..m : q[i].v = r[i].v
  <2>1. \A i \in 1..m : f[i] = q[i].v
    BY Zenon
  <2>2. \A i \in 1..m : g[i] = r[i].v
    BY <1>5, Zenon
  <2> HIDE DEF f, g
  <2>3. QED
    BY <1>5, <2>1, <2>2, Zenon
<1>7. \A i \in 1..m : q[i] = r[i]
  BY <1>1, <1>5, <1>6 DEF Strings
<1>8. QED
  BY <1>1, <1>5, <1>7

-------------------------------------------------------------------------------
(* The closed form of a payload                                            *)

WellFormed(v) == \A w \in Subtree(v) : IsValue(w)

(* Levels are part of the subtree.                                         *)
LEMMA LevelInSubtree ==
    ASSUME NEW v, NEW n \in 0..MaxNesting, NEW w \in Levels(v)[n]
    PROVE  w \in Subtree(v)
BY Zenon DEF Subtree

LEMMA ChildOf ==
    ASSUME NEW v, NEW n \in Nat, n + 1 \in 0..MaxNesting, NEW w \in Levels(v)[n],
           NEW x \in Children(w)
    PROVE  x \in Levels(v)[n + 1]
<1>1. n + 1 \in 1..MaxNesting /\ (n + 1) - 1 = n
  BY NestingAssumption
<1>2. Levels(v)[n + 1] = ChildrenOf(Levels(v)[n])
  BY <1>1, LevelSteps
<1>3. QED
  BY <1>2, Zenon DEF ChildrenOf

(* The top of a payload that has a digest.                                 *)
Top(v) ==
    /\ v = [t |-> "object", fields |-> v.fields] /\ v.fields \in [closedFields -> Range(v.fields)]
    /\ v.fields["accepted_findings"] = [t |-> "array", items |-> Findings(v)]
    /\ \E n \in Nat : Findings(v) \in [1..n -> Strings]

LEMMA DigestTop ==
    ASSUME NEW v, HasDigest(v), WellFormed(v)
    PROVE  /\ Top(v) /\ MaxNesting >= 2
           /\ v.fields["accepted_findings"] \in Levels(v)[1]
           /\ Range(v.fields) \subseteq Levels(v)[1]
           /\ Range(Findings(v)) \subseteq Levels(v)[2]
<1> DEFINE F == v.fields
           A == v.fields["accepted_findings"]
           s == Findings(v)
<1>0. MaxNesting \in Nat
  BY NestingAssumption, Zenon
<1>1. v \in Levels(v)[0] /\ v.t = "object"
  BY LevelSteps, Zenon DEF HasDigest
<1>2. MaxNesting # 0
  BY <1>1, Zenon DEF HasDigest, Unmarshals, Containers
<1>3. v = [t |-> "object", fields |-> F] /\ F \in [closedFields -> Range(F)]
  <2>1. IsValue(v)
    BY <1>0, <1>1, LevelInSubtree DEF WellFormed
  <2>2. v = [t |-> "object", fields |-> F] /\ F \in [DOMAIN F -> Range(F)]
    BY <1>1, <2>1, Zenon DEF IsValue
  <2>3. DOMAIN F = closedFields
    BY Zenon DEF HasDigest
  <2>4. QED
    BY <2>2, <2>3, Zenon
<1>4. Range(F) \subseteq Levels(v)[1]
  <2>1. Children(v) = Range(F)
    BY <1>1, Zenon DEF Children
  <2>2. 0 + 1 \in 0..MaxNesting /\ 0 + 1 = 1 /\ 0 \in Nat
    BY <1>0, <1>2
  <2>3. QED
    BY <1>1, <2>1, <2>2, ChildOf, Zenon
<1>5. A \in Levels(v)[1]
  <2>1. "accepted_findings" \in closedFields
    BY Zenon DEF closedFields
  <2>2. A \in Range(F)
    BY <1>3, <2>1, Zenon
  <2>3. QED
    BY <1>4, <2>2, Zenon
<1>6. A.t = "array" /\ \A i \in DOMAIN A.items : A.items[i].t = "string"
  BY Zenon DEF HasDigest, findingsAsStrings
<1>7. MaxNesting >= 2
  <2>1. MaxNesting # 1
    BY <1>5, <1>6, Zenon DEF HasDigest, Unmarshals, Containers
  <2>2. QED
    BY <1>0, <1>2, <2>1
<1>8. s = A.items /\ A = [t |-> "array", items |-> s] /\ s \in Seq(Range(s))
  <2>1. IsValue(A)
    <3>1. 1 \in 0..MaxNesting
      BY <1>0, <1>7
    <3>2. QED
      BY <1>5, <3>1, LevelInSubtree, Zenon DEF WellFormed
  <2>2. QED
    BY <1>6, <2>1, Zenon DEF IsValue, Findings
<1>9. Range(s) \subseteq Levels(v)[2]
  <2>1. Children(A) = Range(s)
    BY <1>6, <1>8, Zenon DEF Children
  <2>2. 1 + 1 \in 0..MaxNesting /\ 1 + 1 = 2 /\ 1 \in Nat
    BY <1>0, <1>7
  <2>3. QED
    BY <1>5, <2>1, <2>2, ChildOf, Zenon
<1>10. \E n \in Nat : s \in [1..n -> Strings]
  <2>1. Len(s) \in Nat /\ s \in [1..Len(s) -> Range(s)] /\ DOMAIN s = 1..Len(s)
    BY <1>8
  <2>2. ASSUME NEW i \in 1..Len(s)
        PROVE  s[i] \in Strings
    <3>1. s[i] \in Range(s) /\ s[i].t = "string"
      BY <1>6, <1>8, <2>1, Zenon
    <3>2. IsValue(s[i])
      <4>1. 2 \in 0..MaxNesting
        BY <1>0, <1>7
      <4>2. QED
        BY <1>9, <3>1, <4>1, LevelInSubtree, Zenon DEF WellFormed
    <3>3. s[i] = [t |-> "string", v |-> s[i].v] /\ s[i].v \in Int
      BY <3>1, <3>2, Zenon DEF IsValue
    <3>4. QED
      BY <3>3 DEF Strings
  <2>3. s \in [1..Len(s) -> Strings]
    BY <2>1, <2>2, Zenon
  <2>4. QED
    BY <2>1, <2>3, Zenon
<1>11. QED
  BY <1>3, <1>4, <1>5, <1>7, <1>8, <1>9, <1>10, Zenon DEF Top

(* Its closed form.                                                        *)
LEMMA ClosedTop ==
    ASSUME NEW v, Top(v)
    PROVE  /\ Top(Closed(v))
           /\ Findings(Closed(v)) = NormalizeAcceptedFindings(Findings(v))
           /\ \A k \in closedFields \ {"accepted_findings"} : Closed(v).fields[k] = v.fields[k]
           /\ \E n \in Nat : InStrictOrder(Findings(Closed(v)), n)
           /\ Range(Findings(Closed(v))) = Range(Findings(v))
<1> DEFINE F == v.fields
           s == Findings(v)
           N == NormalizeAcceptedFindings(s)
           B == [t |-> "array", items |-> N]
           c == Closed(v)
<1>1. /\ v = [t |-> "object", fields |-> F] /\ F \in [closedFields -> Range(F)]
      /\ F["accepted_findings"] = [t |-> "array", items |-> s]
  BY Zenon DEF Top
<1>2. PICK n \in Nat : s \in [1..n -> Strings]
  BY Zenon DEF Top
<1>3. PICK m \in Nat : InStrictOrder(N, m) /\ Range(N) = Range(s)
  BY <1>2, Normalized, Zenon
<1>4. c = [v EXCEPT !.fields = [F EXCEPT !["accepted_findings"] =
              [F["accepted_findings"] EXCEPT !.items = N]]]
  BY <1>1, Zenon DEF Closed, Findings
<1> HIDE DEF N, c, s, F
<1>5. [F["accepted_findings"] EXCEPT !.items = N] = B
  BY <1>1
<1>6. PICK G : G = [F EXCEPT !["accepted_findings"] = B]
  BY Zenon
<1>7. c = [t |-> "object", fields |-> G]
  BY <1>1, <1>4, <1>5, <1>6, Zenon
<1>8. c.fields = G /\ c.t = "object"
  BY <1>7, Zenon
<1>9. "accepted_findings" \in closedFields
  BY Zenon DEF closedFields
<1>10. /\ DOMAIN G = closedFields /\ G["accepted_findings"] = B
       /\ \A k \in closedFields \ {"accepted_findings"} : G[k] = F[k]
  BY <1>1, <1>6, <1>9, Zenon
<1>11. G \in [closedFields -> Range(G)]
  <2>1. G = [k \in closedFields |-> G[k]]
    BY <1>6, <1>10, Zenon
  <2>2. \A k \in closedFields : G[k] \in Range(G)
    BY <1>10, Zenon DEF Range
  <2>3. QED
    BY <2>1, <2>2, Zenon
<1>12. Findings(c) = N
  BY <1>8, <1>10 DEF Findings
<1>13. N \in [1..m -> Strings]
  BY <1>3, Zenon DEF InStrictOrder
<1>14. Top(c)
  BY <1>7, <1>8, <1>10, <1>11, <1>12, <1>13, Zenon DEF Top
<1>15. QED
  BY <1>3, <1>8, <1>10, <1>12, <1>14, Zenon DEF c, N, s, F

(* A payload is determined by its fields.                                  *)
LEMMA TopEqual ==
    ASSUME NEW v, NEW w, Top(v), Top(w), Findings(v) = Findings(w),
           \A k \in closedFields \ {"accepted_findings"} : v.fields[k] = w.fields[k]
    PROVE  v = w
<1>1. v.fields["accepted_findings"] = w.fields["accepted_findings"]
  BY Zenon DEF Top
<1>2. \A k \in closedFields : v.fields[k] = w.fields[k]
  BY <1>1, Zenon
<1>3. v.fields = w.fields
  BY <1>2 DEF Top
<1>4. QED
  BY <1>3, Zenon DEF Top

(* Two payloads have one closed form if and only if they say the same.     *)
LEMMA SameClosed ==
    ASSUME NEW v, NEW w, Top(v), Top(w)
    PROVE  Closed(v) = Closed(w) <=> SameContent(v, w)
<1> DEFINE c == Closed(v)
           d == Closed(w)
<1>1. /\ Top(c) /\ Range(Findings(c)) = Range(Findings(v))
      /\ \A k \in closedFields \ {"accepted_findings"} : c.fields[k] = v.fields[k]
  BY ClosedTop, Zenon
<1>2. /\ Top(d) /\ Range(Findings(d)) = Range(Findings(w))
      /\ \A k \in closedFields \ {"accepted_findings"} : d.fields[k] = w.fields[k]
  BY ClosedTop, Zenon
<1>3. PICK m \in Nat : InStrictOrder(Findings(c), m)
  BY ClosedTop, Zenon
<1>4. PICK n \in Nat : InStrictOrder(Findings(d), n)
  BY ClosedTop, Zenon
<1>5. DOMAIN v.fields = closedFields /\ DOMAIN w.fields = closedFields
  BY Zenon DEF Top
<1> HIDE DEF c, d
<1>6. ASSUME c = d
      PROVE  SameContent(v, w)
  BY <1>1, <1>2, <1>5, <1>6, Zenon DEF SameContent
<1>7. ASSUME SameContent(v, w)
      PROVE  c = d
  <2>1. /\ Range(Findings(c)) = Range(Findings(d))
        /\ \A k \in closedFields \ {"accepted_findings"} : c.fields[k] = d.fields[k]
    BY <1>1, <1>2, <1>5, <1>7, Zenon DEF SameContent
  <2>2. Findings(c) = Findings(d)
    BY <1>3, <1>4, <2>1, StrictOrderUnique, Zenon
  <2>3. QED
    BY <1>1, <1>2, <2>1, <2>2, TopEqual, Zenon
<1>8. QED
  BY <1>6, <1>7, Zenon DEF c, d

(* The closed form says what was sent, and is its own closed form.         *)
LEMMA ClosedSays ==
    ASSUME NEW v, Top(v)
    PROVE  SameContent(Closed(v), v) /\ Closed(Closed(v)) = Closed(v)
<1> DEFINE c == Closed(v)
<1>1. /\ Top(c) /\ Range(Findings(c)) = Range(Findings(v))
      /\ \A k \in closedFields \ {"accepted_findings"} : c.fields[k] = v.fields[k]
  BY ClosedTop, Zenon
<1>2. DOMAIN v.fields = closedFields /\ DOMAIN c.fields = closedFields
  BY <1>1, Zenon DEF Top
<1> HIDE DEF c
<1>3. SameContent(c, v)
  BY <1>1, <1>2, Zenon DEF SameContent
<1>4. Closed(c) = Closed(v)
  BY <1>1, <1>3, SameClosed, Zenon
<1>5. QED
  BY <1>3, <1>4, Zenon DEF c

(* The closed form has nothing nested in it that was not nested in what    *)
(* was sent, at the same level, but for its own two top levels.            *)
LEMMA ClosedLevels ==
    ASSUME NEW v, HasDigest(v), WellFormed(v)
    PROVE  \A n \in 0..MaxNesting : \A w \in Levels(Closed(v))[n] :
               \/ w \in Levels(v)[n]
               \/ n = 0 /\ w = Closed(v)
               \/ n = 1 /\ w = Closed(v).fields["accepted_findings"]
<1> DEFINE c       == Closed(v)
           B       == c.fields["accepted_findings"]
           Good(n) == \A w \in Levels(c)[n] : \/ w \in Levels(v)[n]
                                              \/ n = 0 /\ w = c
                                              \/ n = 1 /\ w = B
           Bad     == {n \in 0..MaxNesting : ~Good(n)}
<1>0. MaxNesting \in Nat
  BY NestingAssumption, Zenon
<1>1. /\ Top(v) /\ Range(v.fields) \subseteq Levels(v)[1]
      /\ Range(Findings(v)) \subseteq Levels(v)[2]
  BY DigestTop, Zenon
<1>2. /\ Top(c) /\ Range(Findings(c)) = Range(Findings(v))
      /\ \A k \in closedFields \ {"accepted_findings"} : c.fields[k] = v.fields[k]
  BY <1>1, ClosedTop, Zenon
<1>3. c.t = "object" /\ B = [t |-> "array", items |-> Findings(c)] /\ DOMAIN c.fields = closedFields
      /\ DOMAIN v.fields = closedFields
  BY <1>1, <1>2 DEF Top
<1> HIDE DEF c, B
<1>4. Children(c) = Range(c.fields) /\ Children(B) = Range(Findings(c))
  BY <1>3, Zenon DEF Children
<1>5. ASSUME NEW x \in Children(c)
      PROVE  x \in Levels(v)[1] \/ x = B
  <2>1. PICK k \in closedFields : x = c.fields[k]
    BY <1>3, <1>4, Zenon DEF Range
  <2>2. CASE k = "accepted_findings"
    BY <2>1, <2>2, Zenon DEF B
  <2>3. CASE k # "accepted_findings"
    <3>1. x = v.fields[k] /\ x \in Range(v.fields)
      BY <1>2, <1>3, <2>1, <2>3, Zenon DEF Range
    <3>2. QED
      BY <1>1, <3>1, Zenon
  <2>4. QED
    BY <2>2, <2>3, Zenon
<1>6. ASSUME NEW x \in Children(B)
      PROVE  x \in Levels(v)[2]
  BY <1>1, <1>2, <1>4, Zenon
<1>7. ASSUME Bad # {}
      PROVE  FALSE
  <2>1. PICK n \in Bad : \A j \in Bad : n <= j
    <3>1. Bad \subseteq Nat
      BY <1>0
    <3> HIDE DEF Bad
    <3>2. QED
      BY <1>7, <3>1, LeastNatural, Zenon
  <2>2. n \in 0..MaxNesting /\ ~Good(n)
    BY Zenon
  <2>3. n # 0
    <3>1. Levels(c)[0] = {c}
      BY LevelSteps, Zenon
    <3>2. Good(0)
      BY <3>1, Zenon
    <3>3. QED
      BY <2>2, <3>2, Zenon
  <2>4. PICK k \in Nat : n = k + 1 /\ k \in 0..MaxNesting /\ k + 1 \in 1..MaxNesting
    <3>1. n - 1 \in Nat /\ n = (n - 1) + 1 /\ n - 1 \in 0..MaxNesting /\ (n - 1) + 1 \in 1..MaxNesting
      BY <1>0, <2>2, <2>3
    <3>2. QED
      BY <3>1, Zenon
  <2>5. Good(k)
    <3>1. k \notin Bad
      <4> HIDE DEF Bad
      <4>1. QED
        BY <2>1, <2>4
    <3>2. QED
      BY <2>4, <3>1, Zenon
  <2>6. ASSUME NEW x \in Levels(c)[n]
        PROVE  x \in Levels(v)[n] \/ (n = 1 /\ x = B)
    <3>1. Levels(c)[n] = ChildrenOf(Levels(c)[k])
      <4>1. (k + 1) - 1 = k
        OBVIOUS
      <4>2. QED
        BY <2>4, <4>1, LevelSteps, Zenon
    <3>2. PICK w \in Levels(c)[k] : x \in Children(w)
      BY <3>1, Zenon DEF ChildrenOf
    <3>3. CASE w \in Levels(v)[k]
      <4>1. k + 1 \in 0..MaxNesting
        BY <2>4, Zenon
      <4>2. QED
        BY <2>4, <3>2, <3>3, <4>1, ChildOf, Zenon
    <3>4. CASE k = 0 /\ w = c
      BY <1>5, <2>4, <3>2, <3>4
    <3>5. CASE k = 1 /\ w = B
      BY <1>6, <2>4, <3>2, <3>5
    <3>6. QED
      BY <2>5, <3>3, <3>4, <3>5, Zenon
  <2>7. Good(n)
    BY <2>6, Zenon
  <2>8. QED
    BY <2>2, <2>7, Zenon
<1>8. \A n \in 0..MaxNesting : Good(n)
  BY <1>7, Zenon
<1>9. QED
  BY <1>8, Zenon DEF c, B

(* The closed form has a digest itself, and its leaves are strings and     *)
(* booleans.                                                               *)
LEMMA ClosedHasDigest ==
    ASSUME NEW v, HasDigest(v), WellFormed(v)
    PROVE  HasDigest(Closed(v)) /\ Leaves(Closed(v)) \subseteq {"string", "bool"}
<1> DEFINE c == Closed(v)
           B == c.fields["accepted_findings"]
<1>0. MaxNesting \in Nat
  BY NestingAssumption, Zenon
<1>1. Top(v) /\ MaxNesting >= 2
  BY DigestTop, Zenon
<1>2. Top(c)
  BY <1>1, ClosedTop, Zenon
<1>3. \A n \in 0..MaxNesting : \A w \in Levels(c)[n] :
          w \in Levels(v)[n] \/ (n = 0 /\ w = c) \/ (n = 1 /\ w = B)
  BY ClosedLevels, Zenon
<1>4. c.t = "object" /\ DOMAIN c.fields = closedFields /\ B = [t |-> "array", items |-> Findings(c)]
  BY <1>2 DEF Top
<1> HIDE DEF c, B
<1>5. Unmarshals(c)
  <2>1. ASSUME NEW w \in Levels(c)[MaxNesting]
        PROVE  w.t \notin Containers
    <3>1. w \in Levels(v)[MaxNesting]
      <4>1. MaxNesting \in 0..MaxNesting /\ MaxNesting # 0 /\ MaxNesting # 1
        BY <1>0, <1>1
      <4>2. QED
        BY <1>3, <2>1, <4>1, Zenon
    <3>2. QED
      BY <3>1, Zenon DEF HasDigest, Unmarshals
  <2>2. QED
    BY <2>1, Zenon DEF Unmarshals
<1>6. ASSUME NEW w \in Subtree(c)
      PROVE  w.t \in {"string", "bool"} \cup Containers
  <2>1. PICK n \in 0..MaxNesting : w \in Levels(c)[n]
    BY <1>6, Zenon DEF Subtree
  <2>2. CASE w \in Levels(v)[n]
    <3>1. w \in Subtree(v)
      BY <2>2, LevelInSubtree, Zenon
    <3>2. QED
      BY <3>1, Zenon DEF HasDigest, assertAllowedSubtree
  <2>3. CASE w \in {c, B}
    BY <1>4, <2>3 DEF Containers
  <2>4. QED
    BY <1>3, <2>1, <2>2, <2>3, Zenon
<1>7. findingsAsStrings(c.fields["accepted_findings"])
  <2>1. PICK n \in Nat : Findings(c) \in [1..n -> Strings]
    BY <1>2, Zenon DEF Top
  <2>2. B.t = "array" /\ B.items = Findings(c)
    BY <1>4, Zenon
  <2>3. \A i \in DOMAIN Findings(c) : Findings(c)[i].t = "string"
    BY <2>1, Zenon DEF Strings
  <2>4. QED
    BY <2>2, <2>3, Zenon DEF findingsAsStrings, B
<1>8. HasDigest(c)
  BY <1>4, <1>5, <1>6, <1>7, Zenon DEF HasDigest, assertAllowedSubtree
<1>9. Leaves(c) \subseteq {"string", "bool"}
  BY <1>6, Zenon DEF Leaves
<1>10. QED
  BY <1>8, <1>9, Zenon DEF c

(* What is to be shown of the form in which a payload is stored.           *)
IsStoredForm(c, v) ==
    /\ HasDigest(c) /\ DOMAIN c.fields = closedFields
    /\ Leaves(c) \subseteq {"string", "bool"}
    /\ \A i, j \in DOMAIN Findings(c) : i < j => Findings(c)[i].v < Findings(c)[j].v
    /\ SameContent(c, v) /\ Closed(c) = c

LEMMA StoredForm ==
    ASSUME NEW v, HasDigest(v), WellFormed(v)
    PROVE  IsStoredForm(Closed(v), v)
<1> DEFINE c     == Closed(v)
           found == Findings(c)
<1>1. Top(v)
  BY DigestTop, Zenon
<1>2. HasDigest(c) /\ Leaves(c) \subseteq {"string", "bool"}
  BY ClosedHasDigest, Zenon
<1>3. DOMAIN c.fields = closedFields
  BY <1>2, Zenon DEF HasDigest
<1>4. \A i, j \in DOMAIN found : i < j => found[i].v < found[j].v
  <2>1. PICK n \in Nat : InStrictOrder(found, n)
    BY <1>1, ClosedTop, Zenon
  <2> HIDE DEF found
  <2>2. QED
    BY <2>1, Zenon DEF InStrictOrder
<1>5. SameContent(c, v) /\ Closed(c) = c
  BY <1>1, ClosedSays, Zenon
<1>6. QED
  BY <1>2, <1>3, <1>4, <1>5, Zenon DEF IsStoredForm
================================================================================
