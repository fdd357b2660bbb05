----------------------------- MODULE TxBuilder ------------------------------
(***************************************************************************)
(* TxBuilder (builder.rs) as a value: its fields, its consuming setters,   *)
(* and the pure parts of sign() -- the refusals, the body, the AuthInfo    *)
(* and the SignDoc the signature covers.                                   *)
(*                                                                         *)
(* The options that are copied into TxBody (memo, timeout, tip, tx_class,  *)
(* urgent) are one field, body_fields; those copied into AuthInfo          *)
(* (gas_limit, deadline, agent_did, verifiable_presentation) are           *)
(* auth_fields.  wallet_adapter and address_mapper are stored and never    *)
(* read, so they are left out.                                             *)
(***************************************************************************)
EXTENDS TradingKeyClaims

CONSTANTS
  ChainIds, DefaultChainId,     \* DefaultChainId is "morpheum-test-1"
  GenesisHashes,                \* non-empty genesis hashes
  AccountNumbers,
  Messages,
  BodyFields, DefaultBodyFields,
  AuthFields, DefaultAuthFields

(* NonceProvider implementations *)
Providers == {"Sentry", "AgentPortal"}

ASSUME TxBuilderAssumption ==
  /\ DefaultChainId \in ChainIds
  /\ DefaultBodyFields \in BodyFields
  /\ DefaultAuthFields \in AuthFields
  /\ 0 \in AccountNumbers
  /\ AccountNumbers \subseteq Nat /\ None \notin AccountNumbers
  /\ None \notin GenesisHashes
  /\ None \notin TradingKeyClaim
  /\ None \notin [type_url : {"TradingKeyClaim"}, value : [bytes : ClaimProtos]]
  /\ None \notin [bytes : ClaimProtos]
  /\ None \notin ClaimOptionSet
  /\ None \notin Nonces
  /\ None \notin Providers

-----------------------------------------------------------------------------
(* Signers (native/src/signers): a key, its kind and, for an AgentSigner,  *)
(* the registered agent id and an optional stored claim.                   *)

SignerKinds == {"Native", "Evm", "Solana", "Bitcoin", "Agent"}

SignerType ==
  [kind : SignerKinds, key : Keys, agent_id : AgentIds \cup {None},
   claim : TradingKeyClaim \cup {None}]

(* Signer::public_key of the five native signers.  An AgentSigner presents *)
(* its trading key as a plain Ed25519 key.                                 *)
SignerPublicKey(s) ==
  [kind |-> CASE s.kind = "Evm"     -> "Secp256k1"
              [] s.kind = "Bitcoin" -> "Schnorr"
              [] OTHER              -> "Ed25519",
   key |-> s.key]

(* Signer::account_id: derived from the key, except an agent's. *)
SignerAccountId(s) ==
  IF s.kind = "Agent" THEN s.agent_id ELSE ToAccountId(SignerPublicKey(s))

(* Signer::sign_mode *)
SignerMode(s) == DefaultSignMode(s.kind)

(* Mutant: EVM signers sign the personal message their wallets would. *)
SignDocPersonal(s, sign_doc) ==
  [scheme |-> IF s.kind = "Evm" THEN "eip191" ELSE "ed25519",
   len |-> 64, key |-> s.key, over |-> sign_doc]

(* Signer::sign: which scheme, under which key, over which document. *)
SignDocWith(s, sign_doc) ==
  [scheme |-> CASE s.kind = "Evm"     -> "ecdsa-sha256"
                [] s.kind = "Bitcoin" -> "schnorr-sha256"
                [] OTHER              -> "ed25519",
   len |-> 64, key |-> s.key, over |-> sign_doc]

-----------------------------------------------------------------------------
(* The builder and its setters.  Each takes the builder and returns it     *)
(* changed; a later call replaces an earlier one, except add_message.      *)

Builders ==
  [signer : SignerType, chain_id : ChainIds,
   genesis_hash : GenesisHashes \cup {None},
   account_number : AccountNumbers \cup {None},
   messages : Seq(Messages), body_fields : BodyFields, auth_fields : AuthFields,
   manual_nonce : Nonces \cup {None}, nonce_provider : Providers \cup {None},
   trading_key_claim : TradingKeyClaim \cup {None},
   trading_key_address : AccountIds \cup {None}]

(* Mutant: the signer's claim is left to with_trading_key_claim. *)
NewBuilderUnattached(s) ==
  [signer |-> s, chain_id |-> DefaultChainId, genesis_hash |-> None,
   account_number |-> None, messages |-> <<>>,
   body_fields |-> DefaultBodyFields, auth_fields |-> DefaultAuthFields,
   manual_nonce |-> None, nonce_provider |-> None,
   trading_key_claim |-> None, trading_key_address |-> None]

(* TxBuilder::new: a claim stored on the signer is attached. *)
NewBuilder(s) ==
  [signer |-> s, chain_id |-> DefaultChainId, genesis_hash |-> None,
   account_number |-> None, messages |-> <<>>,
   body_fields |-> DefaultBodyFields, auth_fields |-> DefaultAuthFields,
   manual_nonce |-> None, nonce_provider |-> None,
   trading_key_claim |-> s.claim, trading_key_address |-> None]

WithChainId(b, id)          == [b EXCEPT !.chain_id = id]
WithGenesisHash(b, hash)    == [b EXCEPT !.genesis_hash = hash]
WithAccountNumber(b, n)     == [b EXCEPT !.account_number = n]
AddMessage(b, msg)          == [b EXCEPT !.messages = Append(@, msg)]
WithBodyFields(b, fields)   == [b EXCEPT !.body_fields = fields]
WithAuthFields(b, fields)   == [b EXCEPT !.auth_fields = fields]
WithNonce(b, nonce)         == [b EXCEPT !.manual_nonce = nonce]
WithNonceProvider(b, p)     == [b EXCEPT !.nonce_provider = p]
WithTradingKeyAddress(b, a) == [b EXCEPT !.trading_key_address = a]
WithTradingKeyClaim(b, cl)  == [b EXCEPT !.trading_key_claim = cl]

-----------------------------------------------------------------------------
(* sign(), steps 0 to 0c: what is refused before a nonce is resolved.      *)

ClaimDisagrees(b) ==
  /\ b.signer.claim # None
  /\ b.trading_key_claim # None
  /\ ClaimBytes(b.signer.claim) # ClaimBytes(b.trading_key_claim)

(* Mutant: no genesis hash is no reason to refuse. *)
PrecheckUnbound(b) ==
  IF b.messages = <<>> THEN "NoMessages"
  ELSE IF ClaimDisagrees(b) THEN "ClaimDisagrees"
  ELSE "Ok"

Precheck(b) ==
  IF b.messages = <<>> THEN "NoMessages"
  ELSE IF b.genesis_hash = None THEN "GenesisHashUnset"
  ELSE IF ClaimDisagrees(b) THEN "ClaimDisagrees"
  ELSE "Ok"

(* Step 1, the paths that ask nobody: manual > provider > default.  With a *)
(* claim the default sub is the start of the claim's range.                *)

AsksProvider(b) == b.manual_nonce = None /\ b.nonce_provider # None

DefaultNonce(b) ==
  [monotonic |-> 0, ts_ms |-> 0,
   sub |-> IF b.trading_key_claim = None THEN 0 ELSE b.trading_key_claim.sub_start]

LocalNonce(b) == IF b.manual_nonce # None THEN b.manual_nonce ELSE DefaultNonce(b)

(* Mutant: the claim is validated but not matched with the nonce. *)
ClaimCheckNoRange(b, nonce, now) ==
  IF b.trading_key_claim = None THEN "Ok" ELSE Validate(b.trading_key_claim, now)

(* Step 3.5: the claim must be in force and must cover the nonce's sub. *)
ClaimCheck(b, nonce, now) ==
  IF b.trading_key_claim = None THEN "Ok"
  ELSE IF Validate(b.trading_key_claim, now) # "Ok"
       THEN Validate(b.trading_key_claim, now)
  ELSE IF ~ SubInRange(b.trading_key_claim, nonce.sub) THEN "SubOutsideClaim"
  ELSE "Ok"

-----------------------------------------------------------------------------
(* Steps 2 to 7: what is assembled once the nonce is known. *)

Body(b) == [messages |-> b.messages, fields |-> b.body_fields]

TradingKeyAddress(b) ==
  IF b.trading_key_address = None /\ b.trading_key_claim # None
  THEN b.trading_key_claim.subject
  ELSE b.trading_key_address

SignerInfo(b) ==
  [public_key |-> ToProtoAny(SignerPublicKey(b.signer)),
   mode |-> SignerMode(b.signer),
   chain_type |-> ChainType(b.signer.kind),
   fields |-> b.auth_fields,
   trading_key_address |-> TradingKeyAddress(b),
   signing_options |-> IF b.trading_key_claim = None THEN None
                       ELSE ClaimOptions(b.trading_key_claim)]

AuthInfo(b) == [signer_infos |-> <<SignerInfo(b)>>]

(* canonical_sign_doc (morpheum-primitives) *)
CanonicalSignDoc(body_bytes, auth_info_bytes, chain_id, account_number, genesis_hash, nonce) ==
  [body_bytes |-> body_bytes, auth_info_bytes |-> auth_info_bytes,
   chain_id |-> chain_id, account_number |-> account_number,
   genesis_hash |-> genesis_hash, nonce |-> nonce]

(* Mutant: the nonce is stamped on the Tx only. *)
SignDocNonceless(b, nonce) ==
  CanonicalSignDoc(Encode(Body(b)), Encode(AuthInfo(b)), b.chain_id,
                   IF b.account_number = None THEN 0 ELSE b.account_number,
                   b.genesis_hash, None)

SignDoc(b, nonce) ==
  CanonicalSignDoc(Encode(Body(b)), Encode(AuthInfo(b)), b.chain_id,
                   IF b.account_number = None THEN 0 ELSE b.account_number,
                   b.genesis_hash, nonce)

(* The SignedTx: Tx carries the nonce, TxRaw (which raw_bytes encodes)     *)
(* does not.                                                               *)
SignedTx(b, nonce, signature) ==
  [tx |-> [body |-> Body(b), auth_info |-> AuthInfo(b),
           signatures |-> <<signature>>, nonce |-> nonce],
   tx_raw |-> [body_bytes |-> Encode(Body(b)),
               auth_info_bytes |-> Encode(AuthInfo(b)),
               signatures |-> <<signature>>]]

(* SignedTx::txhash_hex and the txhash of the WASM bindings: raw_bytes,     *)
(* hashed.                                                                 *)
TxHash(stx) == Sha256(Encode(stx.tx_raw))

-----------------------------------------------------------------------------
(* The sets these values range over. *)

Bodies == [messages : Seq(Messages), fields : BodyFields]

SignerInfos ==
  [public_key : KeyAnys, mode : SignModes, chain_type : Nat,
   fields : AuthFields, trading_key_address : AccountIds \cup {None},
   signing_options : ClaimOptionSet \cup {None}]

AuthInfos == [signer_infos : Seq(SignerInfos)]

SignDocs ==
  [body_bytes : [bytes : Bodies], auth_info_bytes : [bytes : AuthInfos],
   chain_id : ChainIds, account_number : Nat,
   genesis_hash : GenesisHashes \cup {None}, nonce : Nonces \cup {None}]

TxSignatures ==
  [scheme : {"ed25519", "ecdsa-sha256", "schnorr-sha256"}, len : {64},
   key : Keys, over : SignDocs]

SignedTxs ==
  [tx : [body : Bodies, auth_info : AuthInfos, signatures : Seq(TxSignatures),
         nonce : Nonces \cup {None}],
   tx_raw : [body_bytes : [bytes : Bodies], auth_info_bytes : [bytes : AuthInfos],
             signatures : Seq(TxSignatures)]]

=============================================================================
