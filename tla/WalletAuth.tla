------------------------------ MODULE WalletAuth ------------------------------
(***************************************************************************)
(* The wallet authorization check of internal/walletauth: what a signed    *)
(* authorization message must say, and when, for a persist request to be   *)
(* accepted.  The service keeps no challenge: the message carries its own  *)
(* validity window and its bindings, and this check is all there is.       *)
(*                                                                         *)
(* A message is a record of the parsed Fields (message.go:14-23) plus      *)
(* "form", which abstracts its text:                                       *)
(*   "canonical"   byte for byte what BuildMessage writes for its fields   *)
(*   "variant"     ParseMessage accepts it, but the text differs           *)
(*   "unparsable"  ParseMessage returns an error                           *)
(* Times are whole seconds.  A signature is represented by the address     *)
(* RecoverSignerAddress computes from it over this message, "invalid" when *)
(* it does not decode or no key can be recovered, "blank" when empty.      *)
(***************************************************************************)
EXTENDS Integers

CONSTANTS MaxValidityWindow,  \* constants.go: 10 minutes
          ClockSkew           \* CPM_CLOCK_SKEW_SEC, 30 seconds by default

ASSUME WindowAssumption == MaxValidityWindow \in Nat /\ ClockSkew \in Nat

Ok      == "ok"
Blank   == "blank"
Invalid == "invalid"

PersistAction == "persist_crypto_policy"

(* Replaces validateFreshness in a mutation run: the comparison with the   *)
(* expiry is off by one.                                                   *)
validateFreshnessLate(issued, expires, now) ==
    IF expires - issued > MaxValidityWindow
    THEN "WALLET_AUTHORIZATION_VALIDITY_TOO_LONG"
    ELSE IF now > expires + 1 THEN "WALLET_AUTHORIZATION_EXPIRED"
    ELSE IF issued > now + ClockSkew THEN "WALLET_AUTHORIZATION_NOT_YET_VALID"
    ELSE Ok

(* Replaces validateFreshness in a mutation run: the window's length is    *)
(* not limited.                                                            *)
validateFreshnessUnlimited(issued, expires, now) ==
    IF now > expires THEN "WALLET_AUTHORIZATION_EXPIRED"
    ELSE IF issued > now + ClockSkew THEN "WALLET_AUTHORIZATION_NOT_YET_VALID"
    ELSE Ok

(* Replaces validateFreshness in a mutation run: a window of the maximum   *)
(* length is taken to be too long.                                         *)
validateFreshnessShort(issued, expires, now) ==
    IF expires - issued >= MaxValidityWindow
    THEN "WALLET_AUTHORIZATION_VALIDITY_TOO_LONG"
    ELSE IF now > expires THEN "WALLET_AUTHORIZATION_EXPIRED"
    ELSE IF issued > now + ClockSkew THEN "WALLET_AUTHORIZATION_NOT_YET_VALID"
    ELSE Ok

validateFreshness(issued, expires, now) ==
    IF expires - issued > MaxValidityWindow
    THEN "WALLET_AUTHORIZATION_VALIDITY_TOO_LONG"
    ELSE IF now > expires THEN "WALLET_AUTHORIZATION_EXPIRED"
    ELSE IF issued > now + ClockSkew THEN "WALLET_AUTHORIZATION_NOT_YET_VALID"
    ELSE Ok

compareBindings(m, in) ==
    IF m.action # PersistAction THEN "WALLET_AUTHORIZATION_ACTION_MISMATCH"
    ELSE IF m.sha # in.sha THEN "PAYLOAD_SHA256_MISMATCH"
    ELSE IF m.scan # in.scan THEN "WALLET_AUTHORIZATION_SCAN_MISMATCH"
    ELSE IF m.chain # in.chain THEN "WALLET_AUTHORIZATION_CHAIN_MISMATCH"
    ELSE IF m.wallet # in.wallet THEN "WALLET_AUTHORIZATION_WALLET_MISMATCH"
    ELSE Ok

(* SignedMessage = ExpectedMessageFromFields(...): the text is canonical   *)
(* and names the domain this request is served under.                      *)
IsExpectedMessage(m, in) == m.form = "canonical" /\ m.domain = in.domain

VerifyAuthorization(m, signer, in, now) ==
    LET fresh == validateFreshness(m.issued, m.expires, now)
        bound == compareBindings(m, in)
    IN  IF signer = Blank THEN "WALLET_CONTROL_PROOF_REQUIRED"
        ELSE IF m.form = "unparsable" THEN "INVALID_WALLET_SIGNATURE"
        ELSE IF fresh # Ok THEN fresh
        ELSE IF bound # Ok THEN bound
        ELSE IF ~IsExpectedMessage(m, in) THEN "INVALID_WALLET_SIGNATURE"
        ELSE IF signer = Invalid THEN "INVALID_WALLET_SIGNATURE"
        ELSE IF signer # in.wallet THEN "WALLET_SIGNATURE_ADDRESS_MISMATCH"
        ELSE Ok
===============================================================================
