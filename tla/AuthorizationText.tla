--------------------------- MODULE AuthorizationText ---------------------------
(***************************************************************************)
(* The text of an authorization message: BuildMessage and ParseMessage of  *)
(* internal/walletauth, and VerifyAuthorization on the text itself, where  *)
(* WalletAuth has it on the parsed fields.                                 *)
(*                                                                         *)
(* A text is its sequence of lines.  A line <<key, style, value>> has the  *)
(* key it is prefixed with ("title", "footer" and "none" for a line that   *)
(* is no field), the value it carries and the style the value is written   *)
(* in:                                                                     *)
(*   "plain"      as BuildMessage writes it                                *)
(*   "padded"     with blanks that TrimSpace removes                       *)
(*   "respelled"  another spelling of the same value: the letters' case in *)
(*                a digest or an address, a time in another zone, a number *)
(*                with leading zeros                                       *)
(*   "malformed"  a number or a time that does not parse                   *)
(***************************************************************************)
EXTENDS WalletAuth, Sequences, Functions

Line(key, value) == <<key, "plain", value>>
Other(key)       == Line(key, Blank)

KeyOf(line)   == line[1]
StyleOf(line) == line[2]
ValueOf(line) == line[3]

(* The fields in their order in the text.                                  *)
FieldKeys == <<"domain", "action", "wallet", "chain", "scan", "sha", "issued", "expires">>

BuildMessage(f) ==
    <<Other("title"), Other("none")>>
        \o [i \in DOMAIN FieldKeys |-> Line(FieldKeys[i], f[FieldKeys[i]])]
        \o <<Other("none"), Other("footer")>>

LinesWith(text, key) == {i \in DOMAIN text : KeyOf(text[i]) = key}

(* Replaces readField in a mutation run: the last line with the prefix.    *)
readFieldLast(text, key) ==
    text[CHOOSE i \in LinesWith(text, key) : \A j \in LinesWith(text, key) : j <= i]

(* The first line with the prefix.                                         *)
readField(text, key) ==
    text[CHOOSE i \in LinesWith(text, key) : \A j \in LinesWith(text, key) : i <= j]

(* None of the parser's errors applies.                                    *)
Parses(text) ==
    /\ Len(text) >= 11
    /\ KeyOf(text[1]) = "title" /\ KeyOf(text[Len(text)]) = "footer"
    /\ \A key \in Range(FieldKeys) : LinesWith(text, key) # {}
    /\ LinesWith(text, "draft") = {}
    /\ \A key \in {"chain", "issued", "expires"} : StyleOf(readField(text, key)) # "malformed"
    /\ ValueOf(readField(text, "chain")) >= 1
    /\ ValueOf(readField(text, "sha")) # Blank

ParseMessage(text) == [key \in Range(FieldKeys) |-> ValueOf(readField(text, key))]

(* ExpectedMessageFromFields: the request's bindings with the parsed times.*)
ExpectedMessage(f, in) ==
    BuildMessage([domain |-> in.domain, action |-> PersistAction, wallet |-> in.wallet,
                  chain |-> in.chain, scan |-> in.scan, sha |-> in.sha,
                  issued |-> f.issued, expires |-> f.expires])

VerifyText(text, signer, in, now) ==
    LET f     == ParseMessage(text)
        fresh == validateFreshness(f.issued, f.expires, now)
        bound == compareBindings(f, in)
    IN  IF text = <<>> \/ signer = Blank THEN "WALLET_CONTROL_PROOF_REQUIRED"
        ELSE IF ~Parses(text) THEN "INVALID_WALLET_SIGNATURE"
        ELSE IF fresh # Ok THEN fresh
        ELSE IF bound # Ok THEN bound
        ELSE IF text # ExpectedMessage(f, in) THEN "INVALID_WALLET_SIGNATURE"
        ELSE IF signer = Invalid THEN "INVALID_WALLET_SIGNATURE"
        ELSE IF signer # in.wallet THEN "WALLET_SIGNATURE_ADDRESS_MISMATCH"
        ELSE Ok
-------------------------------------------------------------------------------
(* The texts a message of WalletAuth stands for.                           *)

(* A text without its i-th line, and with a line before its i-th.          *)
Without(text, i)    == SubSeq(text, 1, i - 1) \o SubSeq(text, i + 1, Len(text))
With(text, i, line) == SubSeq(text, 1, i - 1) \o <<line>> \o SubSeq(text, i, Len(text))

(* A text with another line i, with line i written in another style, and   *)
(* with two neighbouring lines in the other order.                         *)
Replaced(text, i, line)  == [text EXCEPT ![i] = line]
Restyled(text, i, style) == [text EXCEPT ![i][2] = style]
Swapped(text, i)         == [text EXCEPT ![i] = text[i + 1], ![i + 1] = text[i]]

(* Texts that parse to the fields f and are not the canonical one: other   *)
(* styles, a line too many or too few, a second and contrary line, fields  *)
(* in another order.                                                       *)
Variants(f) ==
    LET text == BuildMessage(f)
    IN  {Restyled(text, i, "padded") : i \in DOMAIN text \ {2, 11}}
          \cup {Restyled(text, i, "respelled") : i \in {5, 6, 8, 9, 10}}
          \cup {Without(text, 2), With(text, 3, Other("none")),
                With(text, 11, Line("wallet", Invalid)),
                With(text, 11, <<"expires", "malformed", f.expires>>)}
          \cup {Swapped(text, i) : i \in 3..9}

(* Texts that do not parse.                                                *)
Broken(f) ==
    LET text == BuildMessage(f)
    IN  {<<Other("title")>>, Without(Without(text, 11), 2), Without(text, 1), Without(text, 12),
         With(text, 9, Line("draft", f.sha)), Replaced(text, 6, Line("chain", 0)),
         Replaced(text, 8, Line("sha", Blank)), text \o <<Other("none")>>}
          \cup {Replaced(text, i, Other("none")) : i \in 3..10}
          \cup {Restyled(text, i, "malformed") : i \in {6, 9, 10}}

TextsOf(m) ==
    CASE m.form = "canonical" -> {BuildMessage(m)}
      [] m.form = "variant"   -> Variants(m)
      [] OTHER                -> Broken(m)
================================================================================
