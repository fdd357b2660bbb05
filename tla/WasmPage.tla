------------------------------ MODULE WasmPage -------------------------------
(***************************************************************************)
(* A page and its TxBuilderWasm objects (bindings.rs).  Every method takes *)
(* the builder out of the object it is called on: a setter hands it on in  *)
(* a new object, one that throws drops it, and sign() keeps it until the   *)
(* wallet's user answers.  The page may do all a script may: keep an old   *)
(* object, catch what a setter throws and go on, call sign() twice, run    *)
(* several builders at once.                                               *)
(*                                                                         *)
(* The auth_fields of a builder are its gas limit here.                    *)
(***************************************************************************)
EXTENDS TxBuilder

CONSTANTS
  U64Modulus,    \* 2^64
  GasBudget,     \* TxGasLimit::MAX, the chain's per-transaction gas budget
  PageGas,       \* BigInts pages pass to gasLimit
  PageClaims,    \* claims pages pass to withClaim
  Malformed,     \* a claim object whose fields do not parse
  PageWallets,   \* wallet types of the wallets pages connect to
  PageKeys,      \* keys of the accounts selected in them
  MaxObjects     \* bound on the objects made

ASSUME WasmPageAssumption ==
  /\ GasBudget \in 1 .. (U64Modulus - 1)
  /\ AuthFields = 1 .. GasBudget
  /\ PageGas \subseteq Int /\ None \notin PageGas
  /\ PageClaims \subseteq TradingKeyClaim
  /\ PageWallets \subseteq {"Evm", "Solana", "Bitcoin"}
  /\ PageKeys \subseteq Keys

VARIABLES
  objects,    \* the TxBuilderWasm objects made, in order: builder and the one new...() made
  live,       \* those that still own their builder
  wanted,     \* history: per object, what its page has called for on it
  requests    \* sign() calls that reached the wallet, in order

pageVars == <<objects, live, wanted, requests>>

PageInit == objects = <<>> /\ live = {} /\ wanted = <<>> /\ requests = <<>>

-----------------------------------------------------------------------------
(* Objects and their methods. *)

(* What a page may want of a builder: the last gas limit and claim it      *)
(* passed, as it passed them, and all the messages.  A claim object whose  *)
(* fields do not parse is Malformed.                                       *)
NothingYet == [gas |-> None, claim |-> None, messages |-> <<>>]

NewObject(builder, root, want) ==
  /\ Len(objects) < MaxObjects
  /\ objects' = Append(objects, [builder |-> builder, root |-> root])
  /\ wanted' = Append(wanted, want)
  /\ UNCHANGED requests

(* newMetamask(), newPhantom(), newTaproot(), once connect() has resolved. *)
NewBuilderWasm(type, key) ==
  /\ NewObject(NewBuilder([kind |-> type, key |-> key, agent_id |-> None, claim |-> None]),
               Len(objects) + 1, NothingYet)
  /\ live' = live \cup {Len(objects) + 1}

(* A setter of object i returns a new object; on the old one the page has  *)
(* asked for the same.                                                     *)
Returns(i, builder, want) ==
  /\ i \in live /\ Len(objects) < MaxObjects
  /\ objects' = Append(objects, [builder |-> builder, root |-> objects[i].root])
  /\ wanted' = Append([wanted EXCEPT ![i] = want], want)
  /\ live' = (live \ {i}) \cup {Len(objects) + 1}
  /\ UNCHANGED requests

(* Mutant: a setter borrows the object, so one that throws leaves it whole. *)
ThrowsBorrowing(i, want) ==
  /\ i \in live
  /\ wanted' = [wanted EXCEPT ![i] = want]
  /\ UNCHANGED <<objects, live, requests>>

(* A setter that throws has consumed the builder. *)
Throws(i, want) ==
  /\ i \in live
  /\ live' = live \ {i}
  /\ wanted' = [wanted EXCEPT ![i] = want]
  /\ UNCHANGED <<objects, requests>>

WithGenesisHashWasm(i, hash) ==
  i \in live /\ Returns(i, WithGenesisHash(objects[i].builder, hash), wanted[i])

AddMessageWasm(i, msg) ==
  /\ i \in live
  /\ Returns(i, AddMessage(objects[i].builder, msg),
             [wanted[i] EXCEPT !.messages = Append(@, msg)])

(* A u64 parameter takes a BigInt modulo 2^64 (wasm-bindgen, external). *)
AsU64(n) == n % U64Modulus

GasLimit(i, n) ==
  /\ i \in live
  /\ LET want == [wanted[i] EXCEPT !.gas = n] IN
     \/ /\ AsU64(n) \in 1 .. GasBudget
        /\ Returns(i, WithAuthFields(objects[i].builder, AsU64(n)), want)
     \/ AsU64(n) \notin 1 .. GasBudget /\ Throws(i, want)

WithClaim(i, claim) ==
  /\ i \in live
  /\ Returns(i, WithTradingKeyClaim(objects[i].builder, claim),
             [wanted[i] EXCEPT !.claim = claim])

WithMalformedClaim(i) ==
  i \in live /\ Throws(i, [wanted[i] EXCEPT !.claim = Malformed])

-----------------------------------------------------------------------------
(* sign() *)

(* The checks of TxBuilder::sign before it asks the wallet: those of its   *)
(* step 0, and those of the claim against the nonce it takes.  There is no *)
(* nonce setter and no provider.                                           *)
RefusesBuilder(b) == Precheck(b) # "Ok"

RefusesClaim(b) == ClaimCheck(b, LocalNonce(b), 0) # "Ok"

Refuses(b) == RefusesBuilder(b) \/ RefusesClaim(b)

(* Mutant: sign() borrows the object it is called on. *)
SignBorrowing(i) ==
  /\ i \in live /\ ~ Refuses(objects[i].builder)
  /\ requests' = Append(requests,
       [object |-> i, builder |-> objects[i].builder, nonce |-> LocalNonce(objects[i].builder),
        answer |-> "open"])
  /\ UNCHANGED <<objects, live, wanted>>

Sign(i) ==
  /\ i \in live
  /\ live' = live \ {i}
  /\ requests' = IF Refuses(objects[i].builder) THEN requests
                 ELSE Append(requests,
                        [object |-> i, builder |-> objects[i].builder,
                         nonce |-> LocalNonce(objects[i].builder), answer |-> "open"])
  /\ UNCHANGED <<objects, wanted>>

(* The wallet's user approves or rejects, in any order of requests. *)
Answers(n, answer) ==
  /\ requests[n].answer = "open"
  /\ requests' = [requests EXCEPT ![n].answer = answer]
  /\ UNCHANGED <<objects, live, wanted>>

PageNext ==
  \/ \E type \in PageWallets, key \in PageKeys : NewBuilderWasm(type, key)
  \/ \E i \in live :
       \/ \E hash \in GenesisHashes : WithGenesisHashWasm(i, hash)
       \/ \E msg \in Messages : AddMessageWasm(i, msg)
       \/ \E n \in PageGas : GasLimit(i, n)
       \/ \E claim \in PageClaims : WithClaim(i, claim)
       \/ WithMalformedClaim(i)
       \/ Sign(i)
  \/ \E n \in DOMAIN requests, answer \in {"approved", "rejected"} : Answers(n, answer)

PageSpec == PageInit /\ [][PageNext]_pageVars

-----------------------------------------------------------------------------
(* Properties. *)

(* Nothing the page called for on an object is missing from what the       *)
(* wallet is asked to sign through it -- also when the page dropped the    *)
(* object a setter returned, or caught what it threw and went on: then     *)
(* there is no builder left to sign with.                                  *)
NothingForgotten ==
  \A n \in DOMAIN requests :
    LET want == wanted[requests[n].object]  b == requests[n].builder IN
    /\ b.auth_fields = IF want.gas = None THEN DefaultAuthFields ELSE AsU64(want.gas)
    /\ b.trading_key_claim = want.claim
    /\ b.messages = want.messages

(* A second click finds nothing to sign: however its objects are shared    *)
(* and called, one builder asks its wallet at most once.                   *)
OneRequestPerBuilder ==
  \A m, n \in DOMAIN requests :
    m # n => objects[requests[m].object].root # objects[requests[n].object].root

(* bindings.rs:135, "0 or a value above the per-transaction budget is      *)
(* refused here, before anything is signed".                               *)
OverBudgetRefused ==
  \A n \in DOMAIN requests :
    LET gas == wanted[requests[n].object].gas IN
    gas # None => gas \in 1 .. GasBudget

=============================================================================
