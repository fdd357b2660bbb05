----------------------------- MODULE TxVerifier -----------------------------
(***************************************************************************)
(* verify_signed_tx (verifier.rs): the pure function a chain runs on a     *)
(* SignedTx.  A failed check is an error name, a success is the VerifiedTx *)
(* with error "Ok".                                                        *)
(*                                                                         *)
(* A chain context has the chain's id, its genesis hash (None when the     *)
(* runtime has none), its fork version and the account number the caller   *)
(* passes.                                                                 *)
(***************************************************************************)
EXTENDS TxBuilder, FiniteSets

CONSTANTS
  GenesisFork,   \* first fork version that requires the genesis binding
  NonceFork      \* first fork version that requires the nonce binding

ASSUME TxVerifierAssumption ==
  /\ GenesisFork \in Nat /\ NonceFork \in Nat
  /\ None \notin Bodies /\ None \notin AuthInfos
  /\ None \notin KeyAnys /\ None \notin PublicKeys

-----------------------------------------------------------------------------
(* accepted_preimages (morpheum-primitives, external): the fully bound     *)
(* preimage and, before the fork that requires a binding, the one without  *)
(* it.  A required binding that is vacuous is an error.                    *)

VacuousBinding(nonce, ctx) ==
  \/ ctx.fork_version >= GenesisFork /\ ctx.genesis_hash = None
  \/ ctx.fork_version >= NonceFork /\ nonce = None

AcceptedPreimages(body_bytes, auth_info_bytes, account_number, nonce, ctx) ==
  LET hashes == {ctx.genesis_hash} \cup
                  (IF ctx.fork_version < GenesisFork THEN {None} ELSE {})
      nonces == {nonce} \cup (IF ctx.fork_version < NonceFork THEN {None} ELSE {})
  IN  {CanonicalSignDoc(body_bytes, auth_info_bytes, ctx.chain_id, account_number, h, n) :
         h \in hashes, n \in nonces}

-----------------------------------------------------------------------------
(* verify_signature: the (key variant, sign mode) pairs that are supported *)
(* and the signature scheme and lengths each verifies.                     *)

(* Mutant: Keccak256 is bundled into the SHA-256 arm. *)
SupportedBundled ==
  [kind : {"Ed25519", "Agent"}, mode : {"Ed25519", "GaslessEd25519"},
   scheme : {"ed25519"}, lens : {{64}}]
  \cup [kind : {"Secp256k1"}, mode : {"Secp256k1", "EcdsaLegacy", "Keccak256"},
        scheme : {"ecdsa-sha256"}, lens : {{64}}]
  \cup [kind : {"Secp256k1"}, mode : {"Eip191Personal"},
        scheme : {"eip191"}, lens : {{64, 65}}]
  \cup [kind : {"EvmAddress"}, mode : {"Eip191Personal"},
        scheme : {"eip191"}, lens : {{65}}]
  \cup [kind : {"Ed25519", "Agent"}, mode : {"SolanaOffchain"},
        scheme : {"ed25519-hex"}, lens : {{64}}]

Supported ==
  [kind : {"Ed25519", "Agent"}, mode : {"Ed25519", "GaslessEd25519"},
   scheme : {"ed25519"}, lens : {{64}}]
  \cup [kind : {"Secp256k1"}, mode : {"Secp256k1", "EcdsaLegacy"},
        scheme : {"ecdsa-sha256"}, lens : {{64}}]
  \cup [kind : {"Secp256k1"}, mode : {"Keccak256"},
        scheme : {"ecdsa-keccak"}, lens : {{64}}]
  \cup [kind : {"Secp256k1"}, mode : {"Eip191Personal"},
        scheme : {"eip191"}, lens : {{64, 65}}]
  \cup [kind : {"EvmAddress"}, mode : {"Eip191Personal"},
        scheme : {"eip191"}, lens : {{65}}]
  \cup [kind : {"Ed25519", "Agent"}, mode : {"SolanaOffchain"},
        scheme : {"ed25519-hex"}, lens : {{64}}]

VerifySignature(pubkey, preimage, signature, mode) ==
  LET arms == {a \in Supported : a.kind = pubkey.kind /\ a.mode = mode} IN
  IF arms = {} THEN "UnsupportedCurve"
  ELSE IF \E a \in arms : /\ signature.scheme = a.scheme
                          /\ signature.len \in a.lens
                          /\ signature.key = pubkey.key
                          /\ signature.over = preimage
       THEN "Ok"
  ELSE "BadSignature"

(* extract_sign_mode: a missing or unknown mode counts as Ed25519. *)
ExtractSignMode(si) == IF si.mode \in SignModes THEN si.mode ELSE "Ed25519"

-----------------------------------------------------------------------------
(* One signer: the first check that fails, in the order of the code. *)

(* The claim a SignerInfo carries, None when it carries none. *)
ClaimOf(si) ==
  IF si.signing_options = None THEN None
  ELSE DecodeFromSigningOptions(si.signing_options)

(* Mutant: without a nonce there is no range to check. *)
ClaimErrorLenient(si, pubkey, nonce, now) ==
  LET claim == ClaimOf(si) IN
  IF claim = None THEN "Ok"
  ELSE IF Verify(claim, now, pubkey) # "Ok" THEN Verify(claim, now, pubkey)
  ELSE IF nonce # None /\ ~ SubInRange(claim, nonce.sub) THEN "SubOutsideClaim"
  ELSE "Ok"

ClaimError(si, pubkey, nonce, now) ==
  LET claim == ClaimOf(si) IN
  IF si.signing_options # None /\ ClaimMalformed(si.signing_options)
  THEN "MalformedClaim"
  ELSE IF claim = None THEN "Ok"
  ELSE IF Verify(claim, now, pubkey) # "Ok" THEN Verify(claim, now, pubkey)
  ELSE IF nonce = None THEN "ClaimWithoutNonce"
  ELSE IF ~ SubInRange(claim, nonce.sub) THEN "SubOutsideClaim"
  ELSE "Ok"

SignerError(si, signature, ladder, nonce, now) ==
  IF si.public_key = None THEN "MissingPublicKey"
  ELSE LET pubkey == FromProtoAny(si.public_key) IN
  IF pubkey = None THEN "BadPublicKey"
  ELSE LET tried == {VerifySignature(pubkey, preimage, signature, ExtractSignMode(si)) :
                       preimage \in ladder} IN
  IF "Ok" \notin tried THEN CHOOSE e \in tried : TRUE
  ELSE ClaimError(si, pubkey, nonce, now)

-----------------------------------------------------------------------------
(* The whole transaction: the first failing signer's error is returned. *)

Refused(error) == [error |-> error]

(* Mutant: the claim of the primary signer only. *)
PrimaryClaim(infos) == ClaimOf(infos[1])

LastClaim(infos) ==
  LET carrying == {i \in 1 .. Len(infos) : ClaimOf(infos[i]) # None} IN
  IF carrying = {} THEN None
  ELSE ClaimOf(infos[CHOOSE i \in carrying : \A j \in carrying : j <= i])

(* Mutant: the "verified" flag is not reset between signers, so one good   *)
(* signature vouches for those after it.                                   *)
BadUnreset(tx, ladder, now) ==
  LET error(i) == SignerError(tx.auth_info.signer_infos[i], tx.signatures[i], ladder,
                              tx.nonce, now)
  IN  {i \in DOMAIN tx.auth_info.signer_infos :
         /\ error(i) # "Ok"
         /\ error(i) = "BadSignature" => \A j \in 1 .. i - 1 : error(j) # "Ok"}

BadSigners(tx, ladder, now) ==
  {i \in DOMAIN tx.auth_info.signer_infos :
     SignerError(tx.auth_info.signer_infos[i], tx.signatures[i], ladder, tx.nonce, now) # "Ok"}

VerifySigners(tx, ladder, now) ==
  LET infos   == tx.auth_info.signer_infos
      bad     == BadSigners(tx, ladder, now)
      primary == FromProtoAny(infos[1].public_key)
  IN
  IF bad # {}
  THEN LET i == CHOOSE i \in bad : \A j \in bad : i <= j IN
       Refused(SignerError(infos[i], tx.signatures[i], ladder, tx.nonce, now))
  ELSE [error |-> "Ok",
        account_ids |-> [i \in 1 .. Len(infos) |->
                           ToAccountId(FromProtoAny(infos[i].public_key))],
        trading_key_claim |-> LastClaim(infos),
        wallet_type |-> InferWalletType(primary),
        sign_mode |-> ExtractSignMode(infos[1]),
        body |-> tx.body, nonce |-> tx.nonce,
        trading_key_address |-> infos[1].trading_key_address]

(* TxRaw's bytes when there is one, a re-encoding otherwise. *)
BodyBytes(stx) ==
  IF stx.tx_raw = None THEN Encode(stx.tx.body) ELSE stx.tx_raw.body_bytes

(* Mutant: the re-encoding takes the wrong part. *)
AuthInfoBytesSwapped(stx) ==
  IF stx.tx_raw = None THEN Encode(stx.tx.body) ELSE stx.tx_raw.auth_info_bytes

AuthInfoBytes(stx) ==
  IF stx.tx_raw = None THEN Encode(stx.tx.auth_info) ELSE stx.tx_raw.auth_info_bytes

VerifySignedTx(stx, ctx, now) ==
  LET tx == stx.tx IN
  IF tx.body = None THEN Refused("MissingBody")
  ELSE IF tx.auth_info = None THEN Refused("MissingAuthInfo")
  ELSE IF Len(tx.auth_info.signer_infos) # Len(tx.signatures) THEN Refused("CountMismatch")
  ELSE IF tx.auth_info.signer_infos = <<>> THEN Refused("NoSigners")
  ELSE IF VacuousBinding(tx.nonce, ctx) THEN Refused("VacuousBinding")
  ELSE VerifySigners(tx,
         AcceptedPreimages(BodyBytes(stx), AuthInfoBytes(stx), ctx.account_number,
                           tx.nonce, ctx), now)

-----------------------------------------------------------------------------
(* SignedTx::decode, on the encoding of a Tx: a synthetic TxRaw is built   *)
(* by encoding the decoded body and auth_info again.                       *)
Decode(tx_bytes) ==
  LET tx == tx_bytes.bytes IN
  [tx |-> tx,
   tx_raw |-> [body_bytes |-> Encode(tx.body), auth_info_bytes |-> Encode(tx.auth_info),
               signatures |-> tx.signatures]]

(* What a Tx reader makes of the encoding of a TxRaw (raw_bytes): body,    *)
(* auth_info and signatures are there, and a TxRaw has no nonce to give.   *)
TxOfRawBytes(tx_raw) ==
  [body |-> tx_raw.body_bytes.bytes, auth_info |-> tx_raw.auth_info_bytes.bytes,
   signatures |-> tx_raw.signatures, nonce |-> None]

=============================================================================
