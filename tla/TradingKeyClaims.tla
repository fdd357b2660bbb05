-------------------------- MODULE TradingKeyClaims --------------------------
(***************************************************************************)
(* TradingKeyClaim (claim.rs): the delegation an agent's transactions      *)
(* carry, its checks and its wire form.                                    *)
(*                                                                         *)
(* permissions and max_daily_usd are copied and compared but never         *)
(* interpreted by this crate; the two of them are the field limits.        *)
(***************************************************************************)
EXTENDS SigningTypes

CONSTANTS
  Limits,      \* values of (permissions, max_daily_usd)
  SigBytes,    \* 64-byte signature strings
  ZeroSig      \* the all-zero one among them

ClaimSignatures == [variant : {"Ed25519", "Secp256k1", "Schnorr"}, bytes : SigBytes]

TradingKeyClaim ==
  [issuer : AccountIds, subject : AccountIds, limits : Limits,
   expiry : Nat, sub_start : Nat, sub_end : Nat, signature : ClaimSignatures]

(* The sub-stream numbers a claim lets its holder use: [start, end). *)
SubInRange(claim, sub) == claim.sub_start <= sub /\ sub < claim.sub_end

(* TradingKeyClaim::validate *)
Validate(claim, now) ==
  IF claim.expiry <= now THEN "ClaimExpired"
  ELSE IF claim.sub_start >= claim.sub_end THEN "InvalidSubRange"
  ELSE IF claim.signature.bytes = ZeroSig THEN "MissingSignature"
  ELSE "Ok"

(* Mutant: the issuer is checked and nothing else. *)
VerifyIssuerOnly(claim, now, issuer_pubkey) ==
  IF claim.issuer # ToAccountId(issuer_pubkey) THEN "IssuerMismatch" ELSE "Ok"

(* TradingKeyClaim::verify: the issuer must be the account of the key the  *)
(* caller passes.  claim.signature is not checked here.                    *)
Verify(claim, now, issuer_pubkey) ==
  LET structural == Validate(claim, now) IN
  IF structural # "Ok" THEN structural
  ELSE IF claim.issuer # ToAccountId(issuer_pubkey) THEN "IssuerMismatch"
  ELSE "Ok"

-----------------------------------------------------------------------------
(* Wire form.  The signature goes out as bare bytes: its variant is lost.  *)

ClaimProto(claim) == [claim EXCEPT !.signature = claim.signature.bytes]

(* TradingKeyClaim::encode_to_vec *)
ClaimBytes(claim) == Encode(ClaimProto(claim))

(* Mutant: the limits are not part of what is signed. *)
ClaimDigestLimitless(claim) ==
  Sha256(Encode([claim EXCEPT !.signature = None, !.limits = None]))

(* claim_digest: what the issuer signs, every field but the signature.     *)
ClaimDigest(claim) ==
  Sha256(Encode([claim EXCEPT !.signature = None]))

(* SignerInfo.signing_options as sign() fills it. *)
ClaimOptions(claim) ==
  [algo_hint |-> "trading_key_claim",
   wasm_seed |-> [type_url |-> "TradingKeyClaim", value |-> ClaimBytes(claim)]]

ClaimProtos ==
  [issuer : AccountIds, subject : AccountIds, limits : Limits,
   expiry : Nat, sub_start : Nat, sub_end : Nat, signature : SigBytes]

ClaimOptionSet ==
  [algo_hint : {"trading_key_claim"},
   wasm_seed : [type_url : {"TradingKeyClaim"}, value : [bytes : ClaimProtos]]]

(* decode_from_signing_options.  Options that announce a claim whose bytes  *)
(* do not decode (None here) are an error.                                  *)
ClaimMalformed(opts) ==
  /\ opts.algo_hint = "trading_key_claim"
  /\ \/ opts.wasm_seed = None
     \/ opts.wasm_seed.type_url = "TradingKeyClaim" /\ opts.wasm_seed.value = None

(* Another algo_hint or type_url is "no claim"; the variant of a decoded    *)
(* signature is always Ed25519.                                             *)
DecodeFromSigningOptions(opts) ==
  IF \/ opts.algo_hint # "trading_key_claim"
     \/ ClaimMalformed(opts)
     \/ opts.wasm_seed.type_url # "TradingKeyClaim"
  THEN None
  ELSE LET proto == opts.wasm_seed.value.bytes IN
       [proto EXCEPT !.signature = [variant |-> "Ed25519", bytes |-> proto.signature]]

=============================================================================
