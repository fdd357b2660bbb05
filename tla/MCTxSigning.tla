---------------------------- MODULE MCTxSigning -----------------------------
(***************************************************************************)
(* Instances of TxSigning for TLC.                                         *)
(***************************************************************************)
EXTENDS TxSigning

CONSTANTS k1, k2, agent1, sigA, sigZero, g1, m1

KeyAccount(kind, k) == ToAccountId([kind |-> kind, key |-> k])

MCClaim(sub_start, sub_end, expiry, bytes) ==
  [issuer |-> KeyAccount("Ed25519", k1), subject |-> agent1, limits |-> 0,
   expiry |-> expiry, sub_start |-> sub_start, sub_end |-> sub_end,
   signature |-> [variant |-> "Ed25519", bytes |-> bytes]]

(* In force at 0 and 1, covering subs 1 and 2. *)
LiveClaim == MCClaim(1, 3, 2, sigA)
(* The same bytes, held as another signature variant. *)
SameBytesClaim == [LiveClaim EXCEPT !.signature.variant = "Secp256k1"]
OtherClaim    == MCClaim(0, 2, 3, sigA)
EmptyRange    == MCClaim(2, 2, 3, sigA)
UnsignedClaim == MCClaim(0, 2, 3, sigZero)

Agent(claim) == [kind |-> "Agent", key |-> k1, agent_id |-> agent1, claim |-> claim]
EvmHuman == [kind |-> "Evm", key |-> k2, agent_id |-> None, claim |-> None]

(* One call, every setter. *)
OneCallSigners == {Agent(LiveClaim), Agent(None), EvmHuman}
OneCallClaims  == {SameBytesClaim, OtherClaim, EmptyRange, UnsignedClaim}
OneCallNonces  == {[monotonic |-> 2, ts_ms |-> 0, sub |-> 1]}
OneCallAccounts == {agent1, KeyAccount("Secp256k1", k2)}

(* Two calls of one agent racing for nonces; the claim covers the sub 0 of *)
(* a Sentry nonce as well as the portal's 1.                               *)
RaceClaim    == MCClaim(0, 2, 1, sigA)
RaceSigners  == {Agent(RaceClaim)}
RaceAccounts == {agent1}
NoNonces     == {}

=============================================================================
