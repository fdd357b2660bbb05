--------------------------- MODULE SignDocAssembly --------------------------
(***************************************************************************)
(* build_sign_doc (preimage.rs): the preimage of a transaction that some   *)
(* external wallet will sign, assembled from one request without a Signer. *)
(* The caller stamps the pieces it returns onto a Tx.                      *)
(***************************************************************************)
EXTENDS TxVerifier

(* SignDocRequest.  message is (type_url, msg_bytes), body_fields the memo, *)
(* auth_fields the gas limit; an absent account number has become 0.        *)
Requests ==
  [signer_key : Bytes, chain_type : {ChainType(w) : w \in WalletTypes},
   sign_mode : SignModes, chain_id : ChainIds, account_number : AccountNumbers,
   genesis_hash : GenesisHashes \cup {None}, nonce : Nonces,
   message : Messages, body_fields : BodyFields, auth_fields : AuthFields]

(* Mutant: every external key is taken for an Ed25519 key. *)
KeyTypeUrlEd25519(chain_type) == "ed25519"

(* The type url follows the chain type: Ethereum or anything else. *)
KeyTypeUrl(chain_type) ==
  IF chain_type = ChainType("Evm") THEN "secp256k1" ELSE "ed25519"

(* Mutant: chain_type is left to the proto default. *)
RequestSignerInfoDefault(r) ==
  [public_key |-> [url |-> KeyTypeUrl(r.chain_type), value |-> r.signer_key],
   mode |-> r.sign_mode, chain_type |-> 0, fields |-> r.auth_fields,
   trading_key_address |-> None, signing_options |-> None]

RequestSignerInfo(r) ==
  [public_key |-> [url |-> KeyTypeUrl(r.chain_type), value |-> r.signer_key],
   mode |-> r.sign_mode, chain_type |-> r.chain_type, fields |-> r.auth_fields,
   trading_key_address |-> None, signing_options |-> None]

RequestBody(r) == [messages |-> <<r.message>>, fields |-> r.body_fields]
RequestAuthInfo(r) == [signer_infos |-> <<RequestSignerInfo(r)>>]

(* Mutant: the genesis hash is not passed on. *)
BuildSignDocUnbound(r) ==
  [sign_doc |-> CanonicalSignDoc(Encode(RequestBody(r)), Encode(RequestAuthInfo(r)),
                                 r.chain_id, r.account_number, None, r.nonce),
   body_bytes |-> Encode(RequestBody(r)), auth_info_bytes |-> Encode(RequestAuthInfo(r)),
   nonce |-> r.nonce]

(* Mutant: the nonce is returned but not bound. *)
BuildSignDocNonceless(r) ==
  [sign_doc |-> CanonicalSignDoc(Encode(RequestBody(r)), Encode(RequestAuthInfo(r)),
                                 r.chain_id, r.account_number, r.genesis_hash, None),
   body_bytes |-> Encode(RequestBody(r)), auth_info_bytes |-> Encode(RequestAuthInfo(r)),
   nonce |-> r.nonce]

BuildSignDoc(r) ==
  [sign_doc |-> CanonicalSignDoc(Encode(RequestBody(r)), Encode(RequestAuthInfo(r)),
                                 r.chain_id, r.account_number, r.genesis_hash, r.nonce),
   body_bytes |-> Encode(RequestBody(r)), auth_info_bytes |-> Encode(RequestAuthInfo(r)),
   nonce |-> r.nonce]

(* The Tx a caller makes of the parts and a signature. *)
StampedTx(parts, signature) ==
  [body |-> parts.body_bytes.bytes, auth_info |-> parts.auth_info_bytes.bytes,
   signatures |-> <<signature>>, nonce |-> parts.nonce]

=============================================================================
