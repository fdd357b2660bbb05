---------------------------- MODULE SigningTypes ----------------------------
(***************************************************************************)
(* The value types of morpheum-signing-core (types.rs): wallet types, sign *)
(* modes, public keys and the account ids derived from them.               *)
(*                                                                         *)
(* Key material is opaque: a member of Keys stands for one key pair, and a *)
(* byte string built from it remembers which key it came from and its      *)
(* length, which is all that from_proto_any looks at.  Hashes and          *)
(* encodings are injective wrappers.                                       *)
(***************************************************************************)
EXTENDS Integers, Sequences

CONSTANTS
  Keys,       \* key pairs
  AgentIds,   \* account ids given out by identity registration
  None        \* Option::None, and the empty Vec where the code tests is_empty

WalletTypes == {"Native", "Evm", "Solana", "Bitcoin", "Agent", "Hardware"}

SignModes == {"Ed25519", "GaslessEd25519", "SolanaOffchain", "Secp256k1",
              "EcdsaLegacy", "Keccak256", "Eip191Personal", "SchnorrAggregate"}

(* Mutant: EVM keys announce the mode of their chain's own convention. *)
DefaultSignModeEthereum(wallet) ==
  CASE wallet = "Evm"     -> "Keccak256"
    [] wallet = "Bitcoin" -> "SchnorrAggregate"
    [] OTHER              -> "Ed25519"

(* WalletType::default_sign_mode *)
DefaultSignMode(wallet) ==
  CASE wallet = "Evm"     -> "Secp256k1"
    [] wallet = "Bitcoin" -> "SchnorrAggregate"
    [] OTHER              -> "Ed25519"

(* WalletType::chain_type: the enum's discriminant. *)
ChainType(wallet) ==
  CASE wallet = "Native"  -> 0
    [] wallet = "Evm"     -> 1
    [] wallet = "Solana"  -> 2
    [] wallet = "Bitcoin" -> 3
    [] wallet = "Agent"   -> 4
    [] OTHER              -> 255

-----------------------------------------------------------------------------
(* PublicKey, its raw bytes and its wire form. *)

KeyKinds == {"Ed25519", "Secp256k1", "EvmAddress", "Schnorr", "Agent"}

PublicKeys == [kind : KeyKinds, key : Keys]

Bytes == [len : {20, 32, 33}, key : Keys]

ToProtoBytes(pk) ==
  [len |-> CASE pk.kind = "Secp256k1"  -> 33
             [] pk.kind = "EvmAddress" -> 20
             [] OTHER                  -> 32,
   key |-> pk.key]

KeyUrls == {"ed25519", "secp256k1", "schnorr"}

TypeUrl(pk) ==
  CASE pk.kind \in {"Ed25519", "Agent"}        -> "ed25519"
    [] pk.kind \in {"Secp256k1", "EvmAddress"} -> "secp256k1"
    [] OTHER                                   -> "schnorr"

KeyAnys == [url : KeyUrls, value : Bytes]

ToProtoAny(pk) == [url |-> TypeUrl(pk), value |-> ToProtoBytes(pk)]

(* The variant from_proto_any parses an Any into: the url names the curve  *)
(* and the length picks the variant; no other pair parses.                 *)
ParsedKind ==
  {<<"ed25519", 32, "Ed25519">>, <<"secp256k1", 33, "Secp256k1">>,
   <<"secp256k1", 20, "EvmAddress">>, <<"schnorr", 32, "Schnorr">>}

FromProtoAny(any) ==
  LET matches == {p \in ParsedKind : p[1] = any.url /\ p[2] = any.value.len} IN
  IF matches = {} THEN None
  ELSE [kind |-> (CHOOSE p \in matches : TRUE)[3], key |-> any.value.key]

InferWalletType(pk) ==
  CASE pk.kind = "Ed25519" -> "Native"
    [] pk.kind = "Schnorr" -> "Bitcoin"
    [] pk.kind = "Agent"   -> "Agent"
    [] OTHER               -> "Evm"

-----------------------------------------------------------------------------
(* AccountId: the SHA-256 of the raw key bytes, or an id given by          *)
(* registration (AgentSigner.agent_id).                                    *)

Sha256(bytes) == [sha256 |-> bytes]

AccountIds == {Sha256(b) : b \in Bytes} \cup AgentIds

ToAccountId(pk) == Sha256(ToProtoBytes(pk))

(* Address and what DefaultAddressMapper makes of it: the hash of the      *)
(* address as it is written, a string in three of the five forms.          *)
AddressBytes(address) ==
  CASE address.kind = "Evm"    -> [len |-> 20, key |-> address.key]
    [] address.kind = "Solana" -> [len |-> 32, key |-> address.key]
    [] OTHER                   -> [text |-> address]

AddressAccountId(address) == Sha256(AddressBytes(address))

-----------------------------------------------------------------------------
(* Protobuf encoding.  prost encodes deterministically and the decoder     *)
(* inverts it, so distinct messages have distinct bytes.                   *)

Encode(message) == [bytes |-> message]

(* tx.v1.Nonce *)
Nonces == [monotonic : Nat, ts_ms : Nat, sub : Nat]

=============================================================================
