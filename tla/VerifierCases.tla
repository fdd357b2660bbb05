---------------------------- MODULE VerifierCases ---------------------------
(***************************************************************************)
(* verify_signed_tx on every transaction a wire can carry, the builder's   *)
(* or not: no signer to two, keys that do not parse, unknown sign modes,   *)
(* claims that are malformed or meant for another account, signatures over *)
(* weaker preimages, a missing body, auth_info or nonce.                   *)
(*                                                                         *)
(* A state holds one input; Check computes the verdict.                    *)
(***************************************************************************)
EXTENDS TxVerifier

CONSTANTS
  SignerCases,   \* [key, mode, options, signature, over] of one signer
  TxNonces,      \* values of Tx.nonce
  Contexts,      \* chain contexts
  Clocks,        \* values of now
  MaxSigners     \* bound on the signers of one transaction

ASSUME VerifierCasesAssumption ==
  /\ MaxSigners \in Nat /\ Clocks \subseteq Nat /\ TxNonces \subseteq Nonces \cup {None}
  /\ \A ctx \in Contexts : ctx.fork_version \in Nat
  /\ \A case \in SignerCases : case.key \in KeyAnys \cup {None}
  /\ \A case \in SignerCases :
       /\ case.options # None /\ case.options.wasm_seed # None
       /\ case.options.wasm_seed.type_url = "TradingKeyClaim"
       => case.options.wasm_seed.value \in [bytes : ClaimProtos] \cup {None}

VARIABLES input, verdict

caseVars == <<input, verdict>>

(* What a signer may have signed: the bound preimage or one that leaves    *)
(* out a binding, each for this transaction and this chain. *)
OverKinds == {"bound", "no_genesis", "no_nonce", "no_binding", "other_nonce"}

OtherNonce == [monotonic |-> 9, ts_ms |-> 0, sub |-> 1]

Info(case) ==
  [public_key |-> case.key, mode |-> case.mode, chain_type |-> 0,
   fields |-> DefaultAuthFields, trading_key_address |-> None,
   signing_options |-> case.options]

CaseBody == [messages |-> <<CHOOSE m \in Messages : TRUE>>, fields |-> DefaultBodyFields]

CaseDoc(auth_info, nonce, ctx, over) ==
  CanonicalSignDoc(Encode(CaseBody), Encode(auth_info), ctx.chain_id, ctx.account_number,
    IF over \in {"no_genesis", "no_binding"} THEN None ELSE ctx.genesis_hash,
    CASE over \in {"no_nonce", "no_binding"} -> None
      [] over = "other_nonce"                -> OtherNonce
      [] OTHER                               -> nonce)

SignedBy(cases, nonce, ctx) ==
  LET auth_info == [signer_infos |-> [i \in DOMAIN cases |-> Info(cases[i])]] IN
  [body |-> CaseBody, auth_info |-> auth_info,
   signatures |-> [i \in DOMAIN cases |->
      [scheme |-> cases[i].scheme, len |-> cases[i].len, key |-> cases[i].signed_with,
       over |-> CaseDoc(auth_info, nonce, ctx, cases[i].over)]],
   nonce |-> nonce]

(* The same transaction whole, or with a part missing. *)
Cuts(tx) ==
  {tx, [tx EXCEPT !.body = None], [tx EXCEPT !.auth_info = None],
   [tx EXCEPT !.signatures = IF @ = <<>> THEN @ ELSE Tail(@)]}

CaseInit ==
  /\ verdict = None
  /\ \E n \in 0 .. MaxSigners : \E cases \in [1 .. n -> SignerCases] :
     \E nonce \in TxNonces, ctx \in Contexts, now \in Clocks :
     \E tx \in Cuts(SignedBy(cases, nonce, ctx)) :
       input = [stx |-> Decode(Encode(tx)), ctx |-> ctx, now |-> now]

Check ==
  /\ verdict = None
  /\ verdict' = VerifySignedTx(input.stx, input.ctx, input.now)
  /\ UNCHANGED input

CaseNext == Check

CaseSpec == CaseInit /\ [][CaseNext]_caseVars

-----------------------------------------------------------------------------
(* Properties. *)

Accepted == verdict # None /\ verdict.error = "Ok"

AcceptedTx == input.stx.tx
AcceptedInfos == AcceptedTx.auth_info.signer_infos

(* What was signed binds the value, or leaves it out before the fork. *)
Binds(bound, value, fork) ==
  IF bound = None THEN input.ctx.fork_version < fork ELSE bound = value

(* In an accepted transaction every signer, the second as well as the      *)
(* first, presents the key its own signature was made with, and signed     *)
(* this body and these signer infos for this chain; the genesis hash and   *)
(* the nonce are left out of what it signed only before their forks.       *)
EverySignerBound ==
  Accepted =>
    \A i \in DOMAIN AcceptedInfos :
      LET signature == AcceptedTx.signatures[i]
          doc == signature.over
      IN
      /\ signature.key = AcceptedInfos[i].public_key.value.key
      /\ doc.body_bytes = Encode(AcceptedTx.body)
      /\ doc.auth_info_bytes = Encode(AcceptedTx.auth_info)
      /\ doc.chain_id = input.ctx.chain_id
      /\ Binds(doc.genesis_hash, input.ctx.genesis_hash, GenesisFork)
      /\ Binds(doc.nonce, AcceptedTx.nonce, NonceFork)

(* The sign modes a signature scheme may be announced by.                  *)
ModesOf(scheme) ==
  CASE scheme = "ed25519"      -> {"Ed25519", "GaslessEd25519"}
    [] scheme = "ed25519-hex"  -> {"SolanaOffchain"}
    [] scheme = "ecdsa-sha256" -> {"Secp256k1", "EcdsaLegacy"}
    [] scheme = "ecdsa-keccak" -> {"Keccak256"}
    [] scheme = "eip191"       -> {"Eip191Personal"}
    [] OTHER                   -> {}

(* verifier.rs:317, the digest is part of the signature scheme: in an      *)
(* accepted transaction every signer's signature is of the scheme its mode *)
(* announces, and the reported mode announces the first one's.  A mode     *)
(* that is not recognised stands for Ed25519 (verifier.rs:509), so it      *)
(* vouches for an Ed25519 signature and for no other.                      *)
SchemeIsAnnounced ==
  Accepted =>
    /\ \A i \in DOMAIN AcceptedInfos :
         LET modes == ModesOf(AcceptedTx.signatures[i].scheme)
             mode  == AcceptedInfos[i].mode
         IN  IF mode \in SignModes THEN mode \in modes ELSE "Ed25519" \in modes
    /\ verdict.sign_mode \in ModesOf(AcceptedTx.signatures[1].scheme)

(* In an accepted transaction every claim any signer carries is readable,  *)
(* in force, issued by the account of that signer's own key, and covers    *)
(* the nonce -- so there is a nonce, on every fork version.                *)
EveryClaimHolds ==
  Accepted =>
    \A i \in DOMAIN AcceptedInfos :
      LET opts == AcceptedInfos[i].signing_options IN
      opts # None /\ opts.algo_hint = "trading_key_claim" =>
        /\ ~ ClaimMalformed(opts)
        /\ opts.wasm_seed.type_url = "TradingKeyClaim" =>
             LET proto == opts.wasm_seed.value.bytes IN
             /\ proto.expiry > input.now
             /\ proto.issuer = Sha256(AcceptedInfos[i].public_key.value)
             /\ AcceptedTx.nonce # None
             /\ AcceptedTx.nonce.sub \in proto.sub_start .. proto.sub_end - 1

(* verifier.rs:45, account_ids is position-matched to the signer infos,    *)
(* and the reported claim is absent exactly when no signer carries one;    *)
(* when several do it is one a signer carries.                             *)
ReportMatchesSigners ==
  Accepted =>
    /\ DOMAIN verdict.account_ids = DOMAIN AcceptedInfos
    /\ \A i \in DOMAIN AcceptedInfos :
         verdict.account_ids[i] = Sha256(AcceptedInfos[i].public_key.value)
    /\ LET claims == {ClaimOf(AcceptedInfos[i]) : i \in DOMAIN AcceptedInfos} IN
       IF claims = {None} THEN verdict.trading_key_claim = None
       ELSE verdict.trading_key_claim \in claims \ {None}

(* verifier.rs:165, the bytes are TxRaw's "if available, otherwise         *)
(* re-encodes": both ways give a decoded transaction the same verdict.     *)
RebuiltBytesAgree ==
  verdict # None =>
    VerifySignedTx([input.stx EXCEPT !.tx_raw = None], input.ctx, input.now) = verdict

=============================================================================
