--------------------------- MODULE TxBuilderProofs --------------------------
(***************************************************************************)
(* Facts about the pure parts of TxBuilder: what its operators return, and *)
(* that a claim survives its wire form.                                    *)
(***************************************************************************)
EXTENDS TxBuilder, TLAPS

-----------------------------------------------------------------------------
(* Types. *)

(* A new builder is a builder, holding the signer's claim. *)
LEMMA NewBuilderType ==
  ASSUME NEW s \in SignerType
  PROVE  NewBuilder(s) \in Builders
  BY TxBuilderAssumption DEF NewBuilder, Builders, SignerType

(* The body sign() encodes is a TxBody (builder.rs step 2). *)
LEMMA BodyType ==
  ASSUME NEW b \in Builders
  PROVE  Body(b) \in Bodies
  BY DEF Body, Bodies, Builders

(* A signer presents a public key and its wire form (types.rs to_proto_any). *)
LEMMA SignerKeyType ==
  ASSUME NEW s \in SignerType
  PROVE  /\ SignerPublicKey(s) \in PublicKeys
         /\ ToProtoAny(SignerPublicKey(s)) \in KeyAnys
  <1> DEFINE pk == SignerPublicKey(s)
  <1>1. pk \in PublicKeys
    BY DEF SignerPublicKey, SignerType, PublicKeys, KeyKinds
  <1>2. ToProtoBytes(pk) \in Bytes
    BY <1>1 DEF ToProtoBytes, Bytes, PublicKeys
  <1>3. TypeUrl(pk) \in KeyUrls
    BY DEF TypeUrl, KeyUrls
  <1> QED
    BY <1>1, <1>2, <1>3 DEF ToProtoAny, KeyAnys

(* The options sign() embeds for a claim are claim options. *)
LEMMA ClaimOptionsType ==
  ASSUME NEW claim \in TradingKeyClaim
  PROVE  /\ ClaimProto(claim) \in ClaimProtos
         /\ ClaimOptions(claim) \in ClaimOptionSet
  <1>1. ClaimProto(claim) \in ClaimProtos
    BY DEF ClaimProto, ClaimProtos, TradingKeyClaim, ClaimSignatures
  <1> QED
    BY <1>1 DEF ClaimOptions, ClaimOptionSet, ClaimBytes, Encode

(* The AuthInfo sign() encodes is one (builder.rs step 3). *)
LEMMA AuthInfoType ==
  ASSUME NEW b \in Builders
  PROVE  AuthInfo(b) \in AuthInfos
  <1>1. b.signer \in SignerType /\ b.auth_fields \in AuthFields
    BY DEF Builders
  <1>2. ToProtoAny(SignerPublicKey(b.signer)) \in KeyAnys
    BY <1>1, SignerKeyType
  <1>3. SignerMode(b.signer) \in SignModes
    BY DEF SignerMode, DefaultSignMode, SignModes
  <1>4. ChainType(b.signer.kind) \in Nat
    BY DEF ChainType
  <1>5. TradingKeyAddress(b) \in AccountIds \cup {None}
    BY DEF TradingKeyAddress, Builders, TradingKeyClaim
  <1>6. ASSUME b.trading_key_claim # None
        PROVE  ClaimOptions(b.trading_key_claim) \in ClaimOptionSet
    <2>1. b.trading_key_claim \in TradingKeyClaim
      BY <1>6 DEF Builders
    <2> QED
      BY <2>1, ClaimOptionsType
  <1>7. SignerInfo(b) \in SignerInfos
    BY <1>1, <1>2, <1>3, <1>4, <1>5, <1>6 DEF SignerInfo, SignerInfos
  <1> QED
    BY <1>7 DEF AuthInfo, AuthInfos

(* The SignDoc of a builder and a nonce is one (builder.rs step 5). *)
LEMMA SignDocType ==
  ASSUME NEW b \in Builders, NEW nonce \in Nonces
  PROVE  SignDoc(b, nonce) \in SignDocs
  <1>1. /\ Encode(Body(b)) \in [bytes : Bodies]
        /\ Encode(AuthInfo(b)) \in [bytes : AuthInfos]
    BY BodyType, AuthInfoType DEF Encode
  <1>2. /\ b.chain_id \in ChainIds
        /\ b.genesis_hash \in GenesisHashes \cup {None}
        /\ b.account_number \in AccountNumbers \cup {None}
    BY DEF Builders
  <1>3. (IF b.account_number = None THEN 0 ELSE b.account_number) \in Nat
    BY <1>2, TxBuilderAssumption
  <1> QED
    BY <1>1, <1>2, <1>3 DEF SignDoc, CanonicalSignDoc, SignDocs

(* What a signer returns for a SignDoc is a signature over it. *)
LEMMA SignatureType ==
  ASSUME NEW s \in SignerType, NEW doc \in SignDocs
  PROVE  SignDocWith(s, doc) \in TxSignatures
  BY DEF SignDocWith, TxSignatures, SignerType

(* The SignedTx of a builder, a nonce and a signature is one (step 7). *)
LEMMA SignedTxType ==
  ASSUME NEW b \in Builders, NEW nonce \in Nonces, NEW signature \in TxSignatures
  PROVE  SignedTx(b, nonce, signature) \in SignedTxs
  <1>1. Body(b) \in Bodies /\ AuthInfo(b) \in AuthInfos
    BY BodyType, AuthInfoType
  <1>2. <<signature>> \in Seq(TxSignatures)
    OBVIOUS
  <1>3. SignedTx(b, nonce, signature).tx \in
          [body : Bodies, auth_info : AuthInfos, signatures : Seq(TxSignatures),
           nonce : Nonces \cup {None}]
    BY <1>1, <1>2 DEF SignedTx
  <1>4. SignedTx(b, nonce, signature).tx_raw \in
          [body_bytes : [bytes : Bodies], auth_info_bytes : [bytes : AuthInfos],
           signatures : Seq(TxSignatures)]
    BY <1>1, <1>2 DEF SignedTx, Encode
  <1> QED
    BY <1>3, <1>4 DEF SignedTx, SignedTxs

(* The nonce of a call that asks nobody is a nonce (step 1). *)
LEMMA LocalNonceType ==
  ASSUME NEW b \in Builders
  PROVE  LocalNonce(b) \in Nonces
  <1>1. CASE b.manual_nonce # None
    BY <1>1 DEF LocalNonce, Builders
  <1>2. CASE b.manual_nonce = None
    <2>1. CASE b.trading_key_claim = None
      BY <1>2, <2>1 DEF LocalNonce, DefaultNonce, Nonces
    <2>2. CASE b.trading_key_claim # None
      <3>1. b.trading_key_claim.sub_start \in Nat
        BY <2>2 DEF Builders, TradingKeyClaim
      <3> QED
        BY <1>2, <2>2, <3>1 DEF LocalNonce, DefaultNonce, Nonces
    <2> QED
      BY <2>1, <2>2
  <1> QED
    BY <1>1, <1>2

-----------------------------------------------------------------------------
(* Claims. *)

(* What decode_from_signing_options reads back from the options sign()      *)
(* embeds has the claim's terms; only the signature's variant is replaced.  *)
LEMMA DecodeOfClaimOptions ==
  ASSUME NEW claim \in TradingKeyClaim
  PROVE  LET decoded == DecodeFromSigningOptions(ClaimOptions(claim)) IN
         /\ decoded \in TradingKeyClaim
         /\ decoded.expiry = claim.expiry
         /\ decoded.sub_start = claim.sub_start
         /\ decoded.sub_end = claim.sub_end
         /\ decoded.issuer = claim.issuer
         /\ decoded.subject = claim.subject /\ decoded.limits = claim.limits
         /\ decoded.signature.bytes = claim.signature.bytes
  <1> DEFINE opts == ClaimOptions(claim)
             proto == ClaimProto(claim)
  <1>1. proto \in ClaimProtos
    BY ClaimOptionsType
  <1>2. opts.wasm_seed.value = [bytes |-> proto]
    BY DEF ClaimOptions, ClaimBytes, Encode
  <1>3. /\ opts.wasm_seed \in [type_url : {"TradingKeyClaim"}, value : [bytes : ClaimProtos]]
        /\ opts.wasm_seed.value \in [bytes : ClaimProtos]
        /\ opts.wasm_seed.type_url = "TradingKeyClaim"
        /\ opts.algo_hint = "trading_key_claim"
    BY <1>1 DEF ClaimOptions, ClaimBytes, Encode
  <1>4. ~ ClaimMalformed(opts)
    BY <1>3, TxBuilderAssumption DEF ClaimMalformed
  <1>5. DecodeFromSigningOptions(opts) =
          [proto EXCEPT !.signature = [variant |-> "Ed25519", bytes |-> proto.signature]]
    BY <1>2, <1>3, <1>4 DEF DecodeFromSigningOptions
  <1>6. /\ proto.expiry = claim.expiry
        /\ proto.sub_start = claim.sub_start
        /\ proto.sub_end = claim.sub_end
        /\ proto.issuer = claim.issuer
        /\ proto.subject = claim.subject /\ proto.limits = claim.limits
        /\ proto.signature = claim.signature.bytes
    BY DEF ClaimProto, TradingKeyClaim
  <1>7. [variant |-> "Ed25519", bytes |-> proto.signature] \in ClaimSignatures
    BY <1>1 DEF ClaimSignatures, ClaimProtos
  <1> HIDE DEF opts, proto
  <1>8. /\ DecodeFromSigningOptions(opts) \in TradingKeyClaim
        /\ DecodeFromSigningOptions(opts).expiry = proto.expiry
        /\ DecodeFromSigningOptions(opts).sub_start = proto.sub_start
        /\ DecodeFromSigningOptions(opts).sub_end = proto.sub_end
        /\ DecodeFromSigningOptions(opts).issuer = proto.issuer
        /\ DecodeFromSigningOptions(opts).subject = proto.subject
        /\ DecodeFromSigningOptions(opts).limits = proto.limits
        /\ DecodeFromSigningOptions(opts).signature.bytes = proto.signature
    BY <1>1, <1>5, <1>7 DEF TradingKeyClaim, ClaimProtos
  <1> QED
    BY <1>6, <1>8 DEF opts

(* Claims with the same encoding have the same options. *)
LEMMA SameBytesSameOptions ==
  ASSUME NEW claim, NEW other, ClaimBytes(claim) = ClaimBytes(other)
  PROVE  ClaimOptions(claim) = ClaimOptions(other)
  BY DEF ClaimOptions

(* The claim check passes only for a claim in force that covers the nonce. *)
LEMMA ClaimCheckOk ==
  ASSUME NEW b \in Builders, NEW nonce \in Nonces, NEW time \in Nat,
         b.trading_key_claim # None, ClaimCheck(b, nonce, time) = "Ok"
  PROVE  /\ b.trading_key_claim \in TradingKeyClaim
         /\ time < b.trading_key_claim.expiry
         /\ SubInRange(b.trading_key_claim, nonce.sub)
  <1> DEFINE claim == b.trading_key_claim
  <1>1. claim \in TradingKeyClaim
    BY DEF Builders
  <1>2. Validate(claim, time) = "Ok" /\ SubInRange(claim, nonce.sub)
    BY DEF ClaimCheck
  <1>3. ~ (claim.expiry <= time)
    BY <1>2 DEF Validate
  <1> QED
    BY <1>1, <1>2, <1>3 DEF TradingKeyClaim

=============================================================================
