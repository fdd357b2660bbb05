--------------------------- MODULE MCWalletSession --------------------------
(***************************************************************************)
(* Instances of WalletSession for TLC.                                     *)
(***************************************************************************)
EXTENDS WalletSession

CONSTANTS k1, k2, agent1, sigA, sigZero, g1, g2, m1

MCWallets == {"MetaMask", "Phantom", "Taproot"}

MCNonces == {[monotonic |-> 1, ts_ms |-> 0, sub |-> 0], [monotonic |-> 2, ts_ms |-> 0, sub |-> 0]}

Chain(id, hash, fork, number) ==
  [chain_id |-> id, genesis_hash |-> hash, fork_version |-> fork, account_number |-> number]

(* Home before, between and after the forks, siblings that share its id,   *)
(* another account number.                                                 *)
MCChains ==
  {Chain("home", g1, 0, 0), Chain("home", g1, 1, 0), Chain("home", g1, 2, 0),
   Chain("home", g2, 0, 0), Chain("home", g2, 2, 0), Chain("home", g1, 2, 7)}

=============================================================================
