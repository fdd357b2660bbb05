------------------------------ MODULE MCEdges --------------------------------
(***************************************************************************)
(* An instance for TLC of the four parts at the SDK's edges: how a local   *)
(* signer comes by its key, how an adapter talks to an injected wallet,    *)
(* the bridge to the cryptogram library, and the builder objects of a      *)
(* page.  They share no state, so a behaviour exercises one of them and    *)
(* leaves the others where they start.                                     *)
(***************************************************************************)
EXTENDS WasmPage, KeyDerivation, WalletAdapters, CryptogramBridge

CONSTANTS k1, k2, agent1, sigA, sigZero, g1, m1, p1, typo

edgeVars == <<pageVars, derivationVars, adapterVars, bridgeVars>>

EdgesInit == PageInit /\ DerivationInit /\ AdaptersInit /\ BridgeInit

PageIdle       == objects = <<>>
DerivationIdle == oracle = <<>> /\ made = {}
AdaptersIdle   == active = k1 /\ await = None /\ adapter = None /\ returned = None
BridgeIdle     == signed = {} /\ failure = None

EdgesNext ==
  \/ /\ DerivationIdle /\ AdaptersIdle /\ BridgeIdle
     /\ PageNext
     /\ UNCHANGED <<derivationVars, adapterVars, bridgeVars>>
  \/ /\ PageIdle /\ AdaptersIdle /\ BridgeIdle
     /\ DerivationNext
     /\ UNCHANGED <<pageVars, adapterVars, bridgeVars>>
  \/ /\ PageIdle /\ DerivationIdle /\ BridgeIdle
     /\ AdaptersNext
     /\ UNCHANGED <<pageVars, derivationVars, bridgeVars>>
  \/ /\ PageIdle /\ DerivationIdle /\ AdaptersIdle
     /\ BridgeNext
     /\ UNCHANGED <<pageVars, derivationVars, adapterVars>>

EdgesSpec == EdgesInit /\ [][EdgesNext]_edgeVars

-----------------------------------------------------------------------------
(* A claim in force at 0, and one that has expired. *)
LiveClaim == [issuer |-> agent1, subject |-> agent1, limits |-> 0, expiry |-> 1,
              sub_start |-> 1, sub_end |-> 3,
              signature |-> [variant |-> "Ed25519", bytes |-> sigA]]

MCClaims == {LiveClaim, [LiveClaim EXCEPT !.expiry = 0]}

(* u64 has 8 values and the gas budget is 2: 0, 1, 2, one too many and the *)
(* largest u64; and a number that wraps to 1.                              *)
MCGas == {0, 1, 2, 3, -1}
MCWrapping == {1, 9}

(* A hardened bit just above the coin types. *)
MCHard == 512

(* The default account, another, and the default's hardened alias. *)
MCIndices == {0, 1, MCHard}

=============================================================================
