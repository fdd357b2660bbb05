--------------------------- MODULE CryptogramBridge ---------------------------
(***************************************************************************)
(* The bridge to the cryptogram library (cryptogram_bridge.rs): a caller   *)
(* has digests signed by algorithm, picks the algorithm by wallet type or  *)
(* by its own name, and converts the hex it gets to the SDK's Signature.   *)
(*                                                                         *)
(* verify_digest and validate_chain_address hand the library's verdict on  *)
(* and have no model.                                                      *)
(***************************************************************************)
EXTENDS SigningTypes, FiniteSets

CONSTANTS
  Digests,     \* 32-byte digests a caller has signed
  MaxSigned    \* bound on the signatures asked for

ASSUME CryptogramBridgeAssumption == MaxSigned \in Nat /\ "malformed" \notin Digests

VARIABLES
  signed,      \* hex signatures sign_digest returned
  converted,   \* what hex_sig_to_signature made of them, and for which algorithm
  failure      \* SigningError of the latest call, None when it succeeded

bridgeVars == <<signed, converted, failure>>

BridgeInit == signed = {} /\ converted = {} /\ failure = None

-----------------------------------------------------------------------------
(* Algorithms (cryptogram's SigType).  "Hybrid" stands for the rest, which *)
(* the bridge does not name.                                               *)

LegacyEd25519 == {"Ed25519LegacySui", "Ed25519LegacyTon", "Ed25519LegacyAda"}

LegacyEcdsa == {"EcdsaLegacy", "EcdsaLegacyBitcoin", "EcdsaLegacyTron", "EcdsaLegacySui"}

SigTypes ==
  {"Ed25519", "EcdsaLegacyEthereum", "Keccak256", "EcdsaSegwit", "EcdsaSegwitLike",
   "EcdsaNestedSegwit", "SchnorrTaproot", "SchnorrAggregate", "Hybrid"}
  \cup LegacyEd25519 \cup LegacyEcdsa

(* Mutant: a Bitcoin wallet is taken for a SegWit one. *)
WalletTypeToSigTypeSegwit(wallet) ==
  CASE wallet \in {"Native", "Solana", "Agent"} -> "Ed25519"
    [] wallet \in {"Evm", "Hardware"}           -> "EcdsaLegacyEthereum"
    [] wallet = "Bitcoin"                       -> "EcdsaSegwit"

WalletTypeToSigType(wallet) ==
  CASE wallet \in {"Native", "Solana", "Agent"} -> "Ed25519"
    [] wallet \in {"Evm", "Hardware"}           -> "EcdsaLegacyEthereum"
    [] wallet = "Bitcoin"                       -> "SchnorrTaproot"

SigTypeToWalletType(type) ==
  CASE type = "Ed25519"                               -> "Native"
    [] type \in {"SchnorrTaproot", "SchnorrAggregate"} -> "Bitcoin"
    [] type \in LegacyEd25519                         -> "Solana"
    [] type = "Hybrid"                                -> None
    [] OTHER                                          -> "Evm"

(* The Signature variant hex_sig_to_signature picks. *)
Variant(type) ==
  CASE type \in {"Ed25519"} \cup LegacyEd25519         -> "Ed25519"
    [] type \in {"SchnorrTaproot", "SchnorrAggregate"} -> "Schnorr"
    [] OTHER                                           -> "Secp256k1"

-----------------------------------------------------------------------------
(* The library (external).  An ECDSA signature comes compact or with its   *)
(* recovery byte, a hybrid one in lengths of its own; it may fail instead. *)

Lengths(type) ==
  CASE Variant(type) \in {"Ed25519", "Schnorr"} -> {64}
    [] type = "Hybrid"                          -> {65, 2485}
    [] OTHER                                    -> {64, 65}

LibraryErrors ==
  {"InvalidSecretKey", "InvalidDigestLen", "InvalidSignatureLen", "InvalidSignatureEncoding",
   "RecoveryFailed", "UnsupportedSigType", "EcdsaMldsa44", "Bls", "Other"}

(* SigningError::from(CryptoError) *)
ErrorFrom(e) ==
  CASE e = "InvalidSecretKey"         -> "InvalidKey"
    [] e = "InvalidSignatureLen"      -> "Crypto(Ed25519)"
    [] e = "InvalidSignatureEncoding" -> "Crypto(Secp256k1)"
    [] e = "RecoveryFailed"           -> "Crypto(SignatureVerificationFailed)"
    [] OTHER                          -> "Signing"

-----------------------------------------------------------------------------
(* sign_digest, with the algorithm of a wallet or one the caller names.    *)
SignDigest(type, wallet, key, digest) ==
  /\ Cardinality(signed) < MaxSigned
  /\ \/ /\ \E len \in Lengths(type) :
             signed' = signed \cup {[type |-> type, wallet |-> wallet, key |-> key,
                                     digest |-> digest, len |-> len]}
        /\ failure' = None
     \/ /\ \E e \in LibraryErrors : failure' = ErrorFrom(e)
        /\ UNCHANGED signed
  /\ UNCHANGED converted

(* The text is hex, with or without 0x, of 64 bytes. *)
Takes(text) == text.digest # "malformed" /\ text.len = 64

(* hex_sig_to_signature for algorithm type: of what sign_digest returned,  *)
(* or of a text that has lost characters on its way.                       *)
HexSigToSignature(text, type) ==
  /\ \/ /\ Takes(text)
        /\ converted' = converted \cup
             {[text |-> text, type |-> type,
               signature |-> [variant |-> Variant(type), len |-> 64]]}
        /\ failure' = None
     \/ /\ ~ Takes(text)
        /\ failure' = "Signing"
        /\ UNCHANGED converted
  /\ UNCHANGED signed

BridgeNext ==
  \/ \E key \in Keys, digest \in Digests :
       \/ \E wallet \in WalletTypes :
            SignDigest(WalletTypeToSigType(wallet), wallet, key, digest)
       \/ \E type \in SigTypes : SignDigest(type, None, key, digest)
  \/ \E text \in signed :
       \/ HexSigToSignature(text, text.type)
       \/ HexSigToSignature([text EXCEPT !.digest = "malformed"], text.type)

BridgeSpec == BridgeInit /\ [][BridgeNext]_bridgeVars

-----------------------------------------------------------------------------
(* Properties. *)

(* The signature variant a sign mode verifies. *)
ModeVariant(mode) ==
  CASE mode = "Ed25519"          -> "Ed25519"
    [] mode = "SchnorrAggregate" -> "Schnorr"
    [] OTHER                     -> "Secp256k1"

(* Four tables name curves -- wallet type to algorithm, algorithm to wallet *)
(* type, algorithm to Signature variant, wallet type to sign mode -- and    *)
(* agree: a converted signature is of the variant that the default mode of  *)
(* the wallet it was made for verifies, and that of the wallet type its     *)
(* algorithm maps back to.  Hardware is excepted, as its default mode is    *)
(* Ed25519 (types.rs:80) and its algorithm ECDSA (cryptogram_bridge.rs:108). *)
TablesAgree ==
  \A c \in converted :
    \A w \in {c.text.wallet, SigTypeToWalletType(c.type)} \ {None, "Hardware"} :
      c.signature.variant = ModeVariant(DefaultSignMode(w))

=============================================================================
