--------------------------- MODULE MCSigningSystem --------------------------
(***************************************************************************)
(* Instances of SigningSystem for TLC: one call, the chains that could be  *)
(* handed its transaction.                                                 *)
(***************************************************************************)
EXTENDS SigningSystem

CONSTANTS k1, k2, agent1, sigA, sigZero, g1, g2, m1

KeyAccount(kind, k) == ToAccountId([kind |-> kind, key |-> k])

MCClaim(issuer, expiry) ==
  [issuer |-> issuer, subject |-> agent1, limits |-> 0, expiry |-> expiry,
   sub_start |-> 1, sub_end |-> 3, signature |-> [variant |-> "Ed25519", bytes |-> sigA]]

SelfIssued  == MCClaim(KeyAccount("Ed25519", k1), 1)
OwnerIssued == MCClaim(agent1, 2)

Agent(claim) == [kind |-> "Agent", key |-> k1, agent_id |-> agent1, claim |-> claim]
Human(kind, k) == [kind |-> kind, key |-> k, agent_id |-> None, claim |-> None]

Nonce(monotonic, sub) == [monotonic |-> monotonic, ts_ms |-> 0, sub |-> sub]

SystemSigners ==
  {Agent(SelfIssued), Human("Native", k2), Human("Evm", k1),
   Human("Solana", k2), Human("Bitcoin", k2)}
AgentSigners  == {Agent(None)}
HumanSigners  == {Human("Native", k2), Human("Evm", k1)}
AllAccounts   == {agent1, KeyAccount("Ed25519", k2), KeyAccount("Secp256k1", k1)}
NoClaims      == {}
OwnerClaims   == {SelfIssued, OwnerIssued}
SystemNonces  == {Nonce(1, 1)}
SystemRetries == {Nonce(1, 2), Nonce(2, 1)}

Chain(id, hash, fork, number) ==
  [chain_id |-> id, genesis_hash |-> hash, fork_version |-> fork, account_number |-> number]

(* 32-byte keys share one id space, so the native, Solana and Bitcoin      *)
(* signers of k2 have one account.                                         *)

(* Home before and after each fork, a sibling with the same chain id, a    *)
(* chain with another id, a runtime without a genesis hash.                *)
AllChains ==
  {Chain("home", g1, 0, 0), Chain("home", g1, 1, 0), Chain("home", g1, 2, 0),
   Chain("home", g2, 0, 0), Chain("home", g2, 2, 0), Chain("home", g1, 2, 7),
   Chain("other", g1, 0, 0), Chain("home", None, 0, 0)}
HomeOnly == {Chain("home", g1, 2, 0)}

=============================================================================
