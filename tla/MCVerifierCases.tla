--------------------------- MODULE MCVerifierCases --------------------------
(***************************************************************************)
(* The inputs of VerifierCases for TLC.                                    *)
(***************************************************************************)
EXTENDS VerifierCases

CONSTANTS k1, k2, agent1, sigA, sigZero, g1, m1

Any(url, len, k) == [url |-> url, value |-> [len |-> len, key |-> k]]

(* A claim over subs 1 and 2, in force at 0 only. *)
Claim(issuer) ==
  [issuer |-> issuer, subject |-> agent1, limits |-> 0, expiry |-> 1,
   sub_start |-> 1, sub_end |-> 3, signature |-> [variant |-> "Ed25519", bytes |-> sigA]]

AccountOf(any) == Sha256(any.value)

Signer(key, mode, scheme, len, signed_with, over, options) ==
  [key |-> key, mode |-> mode, scheme |-> scheme, len |-> len,
   signed_with |-> signed_with, over |-> over, options |-> options]

Ed(k)     == Any("ed25519", 32, k)
Secp(k)   == Any("secp256k1", 33, k)
EvmAdr(k) == Any("secp256k1", 20, k)

(* A plain signer over each preimage, with each kind of options. *)
MCSignerCases ==
  {Signer(Ed(k1), "Ed25519", "ed25519", 64, k1, over, None) : over \in OverKinds}
  \cup
  {Signer(Ed(k2), "Ed25519", "ed25519", 64, k2, "bound", opts) :
     opts \in {ClaimOptions(Claim(AccountOf(Ed(k2)))),
               ClaimOptions(Claim(AccountOf(Ed(k1)))),
               [algo_hint |-> "trading_key_claim", wasm_seed |-> None],
               [algo_hint |-> "trading_key_claim",
                wasm_seed |-> [type_url |-> "other", value |-> None]],
               [algo_hint |-> "trading_key_claim",
                wasm_seed |-> [type_url |-> "TradingKeyClaim", value |-> None]],
               [algo_hint |-> "other", wasm_seed |-> None]}}
  \cup
  {Signer(Ed(k1), "SolanaOffchain", "ed25519-hex", 64, k1, "bound", None),
   Signer(Ed(k1), "unknown", "ed25519", 64, k1, "bound", None),
   Signer(Ed(k1), "Ed25519", "ed25519", 64, k2, "bound", None),
   Signer(Secp(k2), "EcdsaLegacy", "ecdsa-sha256", 64, k2, "bound",
          ClaimOptions(Claim(AccountOf(Secp(k2))))),
   Signer(Secp(k2), "Keccak256", "ecdsa-sha256", 64, k2, "bound", None),
   Signer(Secp(k2), "unknown", "ecdsa-sha256", 64, k2, "bound", None),
   Signer(EvmAdr(k2), "Eip191Personal", "eip191", 65, k2, "no_nonce", None),
   Signer(EvmAdr(k2), "Eip191Personal", "eip191", 64, k2, "bound", None),
   Signer(Any("schnorr", 32, k1), "SchnorrAggregate", "schnorr-sha256", 64, k1, "bound", None),
   Signer(Any("ed25519", 33, k1), "Ed25519", "ed25519", 64, k1, "bound", None),
   Signer(None, "Ed25519", "ed25519", 64, k1, "bound", None)}

MCTxNonces == {None, [monotonic |-> 1, ts_ms |-> 0, sub |-> 1],
               [monotonic |-> 1, ts_ms |-> 0, sub |-> 3]}

MCContexts ==
  [chain_id : {"home"}, genesis_hash : {g1, None}, fork_version : 0 .. 2, account_number : {0}]

=============================================================================
