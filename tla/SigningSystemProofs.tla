------------------------- MODULE SigningSystemProofs -------------------------
(***************************************************************************)
(* What an admission is worth, for every set of calls, signers, chains and *)
(* retries: a chain that admits a transaction is the chain it was signed   *)
(* for, acts on the nonce that was signed, and sees the signer's claim in  *)
(* force.                                                                  *)
(***************************************************************************)
EXTENDS SigningSystem, TxSigningProofs, TxVerifierProofs

-----------------------------------------------------------------------------
(* The inductive invariant: what travels is what sign() returned, but for  *)
(* the nonce; an admission is of something that travelled.                 *)

Faithful(c, route, stx) ==
  /\ stx.tx.body = Body(builder[c])
  /\ stx.tx.auth_info = AuthInfo(builder[c])
  /\ stx.tx.signatures =
       <<SignDocWith(builder[c].signer, SignDoc(builder[c], draft[c].nonce))>>
  /\ route \in {"Object", "TxBytes"} =>
       /\ stx.tx.nonce = draft[c].nonce
       /\ BodyBytes(stx) = Encode(Body(builder[c]))
       /\ AuthInfoBytes(stx) = Encode(AuthInfo(builder[c]))

WireInv(c) ==
  wire[c] # None => outcome[c] = "Ok" /\ Faithful(c, wire[c].route, wire[c].stx)

AdmissionInv ==
  Verified =>
    /\ admission.call \in Calls
    /\ wire[admission.call] # None
    /\ admission.at \in Nat
    /\ admission.result =
         VerifySignedTx(wire[admission.call].stx, admission.chain, admission.at)

SystemInv ==
  /\ IInv
  /\ wire = [c \in Calls |-> wire[c]]
  /\ \A c \in Calls : WireInv(c)
  /\ AdmissionInv

(* What has travelled does so no more: a submission is made once. *)
LEMMA WireFrame ==
  ASSUME SystemInv, [Next]_vars, UNCHANGED <<wire, admission>>
  PROVE  SystemInv'
  <1>1. IInv' /\ TypeOK
    BY NextKeeps DEF SystemInv, IInv
  <1>2. ASSUME NEW c \in Calls
        PROVE  WireInv(c)'
    <2>1. WireInv(c) /\ CallInv(c)
      BY DEF SystemInv, IInv
    <2>2. CASE wire[c] = None
      BY <2>2 DEF WireInv
    <2>3. CASE wire[c] # None
      <3>1. phase[c] = "returned"
        BY <2>1, <2>3, TxSigningAssumption DEF WireInv, CallInv, StageInv, Outcomes
      <3>2. outcome'[c] = outcome[c] /\ draft'[c] = draft[c] /\ builder'[c] = builder[c]
        BY <1>1, <3>1, ReturnedStays
      <3> QED
        BY <2>1, <2>3, <3>2 DEF WireInv, Faithful, BodyBytes, AuthInfoBytes
    <2> QED
      BY <2>2, <2>3
  <1>3. AdmissionInv'
    BY DEF SystemInv, AdmissionInv, Verified
  <1> QED
    BY <1>1, <1>2, <1>3 DEF SystemInv

(* A submission, by any route, carries the signed body and AuthInfo. *)
LEMMA ArrivesKeeps ==
  ASSUME SystemInv, NEW c \in Calls, NEW route, NEW stx, Arrives(c, route, stx),
         Faithful(c, route, stx)
  PROVE  SystemInv'
  <1>1. UNCHANGED vars /\ UNCHANGED admission /\ outcome[c] = "Ok" /\ wire[c] = None
    BY DEF Arrives
  <1>2. IInv'
    BY <1>1, NextKeeps DEF SystemInv
  <1>3. /\ wire'[c] = [route |-> route, stx |-> stx]
        /\ wire' = [d \in Calls |-> wire'[d]]
        /\ \A d \in Calls \ {c} : wire'[d] = wire[d]
    BY DEF Arrives, SystemInv
  <1>4. ASSUME NEW d \in Calls
        PROVE  WireInv(d)'
    <2>1. CASE d = c
      BY <1>1, <1>3, <2>1 DEF WireInv, Faithful, BodyBytes, AuthInfoBytes, vars
    <2>2. CASE d # c
      BY <1>1, <1>3, <2>2 DEF WireInv, Faithful, BodyBytes, AuthInfoBytes, vars, SystemInv
    <2> QED
      BY <2>1, <2>2
  <1>5. AdmissionInv'
    BY <1>1, <1>3 DEF SystemInv, AdmissionInv, Verified
  <1> QED
    BY <1>2, <1>3, <1>4, <1>5 DEF SystemInv

(* All four routes are faithful. *)
LEMMA RoutesAreFaithful ==
  ASSUME SystemInv, NEW c \in Calls, outcome[c] = "Ok"
  PROVE  /\ Faithful(c, "Object", signed[c])
         /\ Faithful(c, "TxBytes", Decode(Encode(signed[c].tx)))
         /\ Faithful(c, "RawBytes", Decode(Encode(TxOfRawBytes(signed[c].tx_raw))))
         /\ \A nonce : Faithful(c, "Restamped",
                                Decode(Encode([signed[c].tx EXCEPT !.nonce = nonce])))
  <1> DEFINE signature == SignDocWith(builder[c].signer, SignDoc(builder[c], draft[c].nonce))
  <1>1. signed[c] = SignedTx(builder[c], draft[c].nonce, signature)
    BY DEF SystemInv, IInv, CallInv, DraftInv
  <1> HIDE DEF signature
  <1>2. /\ signed[c].tx = [body |-> Body(builder[c]), auth_info |-> AuthInfo(builder[c]),
                           signatures |-> <<signature>>, nonce |-> draft[c].nonce]
        /\ signed[c].tx_raw.body_bytes = Encode(Body(builder[c]))
        /\ signed[c].tx_raw.auth_info_bytes = Encode(AuthInfo(builder[c]))
        /\ signed[c].tx_raw.signatures = <<signature>>
    BY <1>1 DEF SignedTx
  <1>3. /\ TxOfRawBytes(signed[c].tx_raw).body = Body(builder[c])
        /\ TxOfRawBytes(signed[c].tx_raw).auth_info = AuthInfo(builder[c])
        /\ TxOfRawBytes(signed[c].tx_raw).signatures = <<signature>>
    BY <1>2 DEF TxOfRawBytes, Encode
  <1>4. \A tx : /\ Decode(Encode(tx)).tx = tx
                /\ BodyBytes(Decode(Encode(tx))) = Encode(tx.body)
                /\ AuthInfoBytes(Decode(Encode(tx))) = Encode(tx.auth_info)
    BY DEF Decode, Encode, BodyBytes, AuthInfoBytes
  <1>5. Faithful(c, "Object", signed[c])
    BY <1>2 DEF Faithful, BodyBytes, AuthInfoBytes, signature
  <1>6. Faithful(c, "TxBytes", Decode(Encode(signed[c].tx)))
    <2> DEFINE tx == signed[c].tx
    <2>1. /\ tx.body = Body(builder[c]) /\ tx.auth_info = AuthInfo(builder[c])
          /\ tx.signatures = <<signature>> /\ tx.nonce = draft[c].nonce
      BY <1>2
    <2> HIDE DEF tx
    <2>2. Faithful(c, "TxBytes", Decode(Encode(tx)))
      BY <1>4, <2>1 DEF Faithful, signature
    <2> QED
      BY <2>2 DEF tx
  <1>7. Faithful(c, "RawBytes", Decode(Encode(TxOfRawBytes(signed[c].tx_raw))))
    BY <1>3, <1>4 DEF Faithful, signature
  <1>8. ASSUME NEW nonce
        PROVE  Faithful(c, "Restamped", Decode(Encode([signed[c].tx EXCEPT !.nonce = nonce])))
    <2> DEFINE tx == [signed[c].tx EXCEPT !.nonce = nonce]
    <2>1. tx.body = Body(builder[c]) /\ tx.auth_info = AuthInfo(builder[c])
          /\ tx.signatures = <<signature>>
      BY <1>2
    <2> HIDE DEF tx
    <2>2. Faithful(c, "Restamped", Decode(Encode(tx)))
      BY <1>4, <2>1 DEF Faithful, signature
    <2> QED
      BY <2>2 DEF tx
  <1> QED
    BY <1>5, <1>6, <1>7, <1>8

LEMMA SubmitKeeps ==
  ASSUME SystemInv, NEW c \in Calls,
         SubmitObject(c) \/ SubmitTxBytes(c) \/ SubmitRawBytes(c)
           \/ \E nonce \in RetryNonces : Resubmit(c, nonce)
  PROVE  SystemInv'
  <1>1. outcome[c] = "Ok"
    BY DEF SubmitObject, SubmitTxBytes, SubmitRawBytes, Resubmit, Arrives
  <1>2. CASE SubmitObject(c)
    BY <1>1, <1>2, RoutesAreFaithful, ArrivesKeeps DEF SubmitObject
  <1>3. CASE SubmitTxBytes(c)
    BY <1>1, <1>3, RoutesAreFaithful, ArrivesKeeps DEF SubmitTxBytes
  <1>4. CASE SubmitRawBytes(c)
    BY <1>1, <1>4, RoutesAreFaithful, ArrivesKeeps DEF SubmitRawBytes
  <1>5. ASSUME NEW nonce \in RetryNonces, Resubmit(c, nonce)
        PROVE  SystemInv'
    BY <1>1, <1>5, RoutesAreFaithful, ArrivesKeeps DEF Resubmit
  <1> QED
    BY <1>2, <1>3, <1>4, <1>5

LEMMA VerifyKeeps ==
  ASSUME SystemInv, NEW c \in Calls, NEW chain \in Chains, VerifyOn(c, chain)
  PROVE  SystemInv'
  <1>1. UNCHANGED vars /\ UNCHANGED wire /\ wire[c] # None
    BY DEF VerifyOn
  <1>2. IInv' /\ now \in Nat
    BY <1>1, NextKeeps DEF SystemInv, IInv, TypeOK
  <1>3. \A d \in Calls : WireInv(d)'
    BY <1>1 DEF WireInv, Faithful, BodyBytes, AuthInfoBytes, vars, SystemInv
  <1>4. /\ admission'.call = c /\ admission'.chain = chain /\ admission'.at = now
        /\ admission'.result = VerifySignedTx(wire[c].stx, chain, now)
    BY DEF VerifyOn
  <1>5. AdmissionInv'
    BY <1>1, <1>2, <1>4 DEF AdmissionInv, Verified
  <1> QED
    BY <1>1, <1>2, <1>3, <1>5 DEF SystemInv

LEMMA SystemInitEstablishes == SystemInit => SystemInv
  BY InitEstablishes DEF SystemInit, SystemInv, WireInv, AdmissionInv, Verified

LEMMA SystemNextKeeps == SystemInv /\ [SystemNext]_systemVars => SystemInv'
  <1> SUFFICES ASSUME SystemInv, [SystemNext]_systemVars
               PROVE  SystemInv'
    OBVIOUS
  <1>1. CASE UNCHANGED systemVars
    BY <1>1, WireFrame DEF systemVars
  <1>2. CASE Next /\ UNCHANGED <<wire, admission>>
    BY <1>2, WireFrame
  <1>3. ASSUME NEW c \in Calls,
               SubmitObject(c) \/ SubmitTxBytes(c) \/ SubmitRawBytes(c)
                 \/ \E nonce \in RetryNonces : Resubmit(c, nonce)
        PROVE  SystemInv'
    BY <1>3, SubmitKeeps
  <1>4. ASSUME NEW c \in Calls, NEW chain \in Chains, VerifyOn(c, chain)
        PROVE  SystemInv'
    BY <1>4, VerifyKeeps
  <1> QED
    BY <1>1, <1>2, <1>3, <1>4 DEF SystemNext

(* Every reachable state of the system satisfies the inductive invariant.  *)
THEOREM SystemInvariant == SystemSpec => []SystemInv
  BY SystemInitEstablishes, SystemNextKeeps, PTL DEF SystemSpec

-----------------------------------------------------------------------------
(* What verify_signed_tx has checked when it admits a transaction of one   *)
(* signer. *)

(* The preimage a chain admits by is the SignDoc of the transaction's      *)
(* author, and the claim it reports is the one the author attached.        *)
LEMMA AdmittedIsSigned ==
  ASSUME SystemInv, Admitted
  PROVE  LET c == admission.call  stx == wire[c].stx  chain == admission.chain IN
         /\ c \in Calls /\ outcome[c] = "Ok" /\ admission.at \in Nat
         /\ SignDoc(builder[c], draft[c].nonce)
              \in AcceptedPreimages(BodyBytes(stx), AuthInfoBytes(stx),
                                    chain.account_number, stx.tx.nonce, chain)
         /\ admission.result.nonce = stx.tx.nonce
         /\ admission.result.trading_key_claim = LastClaim(<<SignerInfo(builder[c])>>)
         /\ ClaimError(SignerInfo(builder[c]), FromProtoAny(SignerInfo(builder[c]).public_key),
                       stx.tx.nonce, admission.at) = "Ok"
         /\ admission.result.body = Body(builder[c])
         /\ admission.result.account_ids =
              <<ToAccountId(FromProtoAny(SignerInfo(builder[c]).public_key))>>
  <1> DEFINE c == admission.call
             stx == wire[c].stx
             chain == admission.chain
             si == SignerInfo(builder[c])
             signature == SignDocWith(builder[c].signer, SignDoc(builder[c], draft[c].nonce))
             ladder == AcceptedPreimages(BodyBytes(stx), AuthInfoBytes(stx),
                                         chain.account_number, stx.tx.nonce, chain)
  <1>1. /\ c \in Calls /\ wire[c] # None /\ admission.at \in Nat
        /\ admission.result = VerifySignedTx(stx, chain, admission.at)
        /\ admission.result.error = "Ok"
    BY DEF SystemInv, AdmissionInv, Verified, Admitted
  <1>2. /\ outcome[c] = "Ok" /\ stx.tx.auth_info = AuthInfo(builder[c])
        /\ stx.tx.signatures = <<signature>> /\ stx.tx.body = Body(builder[c])
    BY <1>1 DEF SystemInv, WireInv, Faithful
  <1>3. stx.tx.auth_info.signer_infos = <<si>>
    BY <1>2 DEF AuthInfo
  <1> HIDE DEF stx, chain, si, signature, c
  <1>4. /\ SignerError(si, signature, ladder, stx.tx.nonce, admission.at) = "Ok"
        /\ admission.result.nonce = stx.tx.nonce
        /\ admission.result.trading_key_claim = LastClaim(<<si>>)
        /\ admission.result.body = stx.tx.body
        /\ admission.result.account_ids = <<ToAccountId(FromProtoAny(si.public_key))>>
    BY <1>1, <1>2, <1>3, OneSignerAdmitted
  <1>5. ladder # {}
    BY LadderNotEmpty
  <1>6. /\ SignedInLadder(si, signature, ladder)
        /\ ClaimError(si, FromProtoAny(si.public_key), stx.tx.nonce, admission.at) = "Ok"
    BY <1>4, <1>5, SignerOk
  <1>7. signature.over = SignDoc(builder[c], draft[c].nonce)
    BY DEF signature, SignDocWith
  <1> QED
    BY <1>1, <1>2, <1>4, <1>6, <1>7 DEF stx, chain, si, c, SignedInLadder

-----------------------------------------------------------------------------
(* Which chain, which nonce. *)

(* An accepted SignDoc of a builder binds the chain. *)
LEMMA SignDocBinds ==
  ASSUME NEW b, NEW signed_nonce, NEW body_bytes, NEW auth_info_bytes, NEW number,
         NEW nonce, NEW ctx,
         SignDoc(b, signed_nonce)
           \in AcceptedPreimages(body_bytes, auth_info_bytes, number, nonce, ctx)
  PROVE  /\ b.chain_id = ctx.chain_id
         /\ number = IF b.account_number = None THEN 0 ELSE b.account_number
         /\ b.genesis_hash \in {ctx.genesis_hash, None}
         /\ signed_nonce \in {nonce, None}
  <1> DEFINE doc == SignDoc(b, signed_nonce)
  <1>1. /\ doc.chain_id = b.chain_id /\ doc.genesis_hash = b.genesis_hash
        /\ doc.account_number = IF b.account_number = None THEN 0 ELSE b.account_number
        /\ doc.nonce = signed_nonce
    BY DEF SignDoc, CanonicalSignDoc
  <1> HIDE DEF doc
  <1>2. /\ doc.chain_id = ctx.chain_id /\ doc.account_number = number
        /\ doc.genesis_hash \in {ctx.genesis_hash, None} /\ doc.nonce \in {nonce, None}
    BY LadderBinds DEF doc
  <1> QED
    BY <1>1, <1>2

(* What sign() had checked of the author of an admitted transaction. *)
LEMMA AuthorIsChecked ==
  ASSUME SystemInv, NEW c \in Calls, outcome[c] = "Ok"
  PROVE  /\ builder[c] \in Builders /\ builder[c].genesis_hash # None
         /\ ~ ClaimDisagrees(builder[c])
         /\ builder[c].signer.claim # None => builder[c].trading_key_claim # None
         /\ draft[c].nonce \in Nonces /\ draft[c].nonce # None
  <1>1. /\ builder[c] \in Builders /\ Precheck(builder[c]) = "Ok"
        /\ draft[c].nonce \in Nonces
        /\ builder[c].signer.claim # None => builder[c].trading_key_claim # None
    BY SuccessIsChecked DEF SystemInv, Succeeded
  <1> QED
    BY <1>1, TxBuilderAssumption DEF Precheck

(* A chain admits only what was signed for it -- same id, same non-empty    *)
(* genesis hash, same account number -- on every fork version              *)
(* (verify_signed_tx and accepted_preimages, sign step 0b).                *)
THEOREM AdmissionBindsChain == SystemSpec => []AdmittedBindsChain
  <1>1. SystemInv => AdmittedBindsChain
    <2> SUFFICES ASSUME SystemInv, Admitted
                 PROVE  /\ admission.chain.chain_id = Author.chain_id
                        /\ admission.chain.genesis_hash = Author.genesis_hash
                        /\ admission.chain.genesis_hash # None
                        /\ admission.chain.account_number =
                             IF Author.account_number = None THEN 0 ELSE Author.account_number
      BY DEF AdmittedBindsChain
    <2> DEFINE c == admission.call
               chain == admission.chain
    <2>1. /\ c \in Calls /\ outcome[c] = "Ok"
          /\ SignDoc(builder[c], draft[c].nonce)
               \in AcceptedPreimages(BodyBytes(wire[c].stx), AuthInfoBytes(wire[c].stx),
                                     chain.account_number, wire[c].stx.tx.nonce, chain)
      BY AdmittedIsSigned
    <2>2. builder[c].genesis_hash # None
      BY <2>1, AuthorIsChecked
    <2> HIDE DEF chain
    <2>3. /\ builder[c].chain_id = chain.chain_id
          /\ builder[c].genesis_hash \in {chain.genesis_hash, None}
          /\ chain.account_number =
               IF builder[c].account_number = None THEN 0 ELSE builder[c].account_number
      BY <2>1, SignDocBinds
    <2> QED
      BY <2>2, <2>3 DEF Author, chain
  <1> QED
    BY <1>1, SystemInvariant, PTL

(* The nonce a chain acts on is the one sign() resolved: a retry with       *)
(* another one is refused, on every fork version (accepted_preimages).     *)
THEOREM AdmissionNonceSigned == SystemSpec => []AdmittedNonceIsSigned
  <1>1. SystemInv => AdmittedNonceIsSigned
    <2> SUFFICES ASSUME SystemInv, Admitted
                 PROVE  admission.result.nonce = draft[admission.call].nonce
      BY DEF AdmittedNonceIsSigned
    <2> DEFINE c == admission.call
               stx == wire[c].stx
               chain == admission.chain
    <2>1. /\ c \in Calls /\ outcome[c] = "Ok"
          /\ admission.result.nonce = stx.tx.nonce
          /\ SignDoc(builder[c], draft[c].nonce)
               \in AcceptedPreimages(BodyBytes(stx), AuthInfoBytes(stx),
                                     chain.account_number, stx.tx.nonce, chain)
      BY AdmittedIsSigned
    <2>2. draft[c].nonce # None
      BY <2>1, AuthorIsChecked
    <2> HIDE DEF chain, stx
    <2>3. draft[c].nonce \in {stx.tx.nonce, None}
      BY <2>1, SignDocBinds
    <2> QED
      BY <2>1, <2>2, <2>3
  <1> QED
    BY <1>1, SystemInvariant, PTL

-----------------------------------------------------------------------------
(* The claim. *)

(* What is read back from the options sign() embeds encodes to the same    *)
(* message, though its signature's variant is not the one that was signed. *)
LEMMA DecodedClaimProto ==
  ASSUME NEW claim \in TradingKeyClaim
  PROVE  /\ DecodeFromSigningOptions(ClaimOptions(claim)) \in TradingKeyClaim
         /\ ClaimProto(DecodeFromSigningOptions(ClaimOptions(claim))) = ClaimProto(claim)
  <1> DEFINE decoded == DecodeFromSigningOptions(ClaimOptions(claim))
  <1>1. /\ decoded \in TradingKeyClaim
        /\ decoded.signature.bytes = claim.signature.bytes
        /\ decoded.expiry = claim.expiry /\ decoded.issuer = claim.issuer
        /\ decoded.sub_start = claim.sub_start /\ decoded.sub_end = claim.sub_end
        /\ decoded.subject = claim.subject /\ decoded.limits = claim.limits
    BY DecodeOfClaimOptions
  <1> HIDE DEF decoded
  <1>2. ClaimProto(decoded) = ClaimProto(claim)
    BY <1>1 DEF ClaimProto, TradingKeyClaim
  <1> QED
    BY <1>1, <1>2 DEF decoded

(* An admitted transaction whose author's signer stores a claim reports    *)
(* that claim's terms, in force at the admission, and spends a nonce in    *)
(* its range (TxBuilder::new, sign steps 0c and 3.5, the claim section of  *)
(* verify_signed_tx).                                                      *)
THEOREM AdmissionClaimHolds == SystemSpec => []AdmittedClaimHolds
  <1>1. SystemInv => AdmittedClaimHolds
    <2> SUFFICES ASSUME SystemInv, Admitted, Author.signer.claim # None
                 PROVE  LET claim == admission.result.trading_key_claim IN
                        /\ claim # None
                        /\ ClaimProto(claim) = ClaimProto(Author.signer.claim)
                        /\ claim.expiry > admission.at
                        /\ SubInRange(claim, admission.result.nonce.sub)
      BY DEF AdmittedClaimHolds
    <2> DEFINE c == admission.call
               attached == builder[c].trading_key_claim
               si == SignerInfo(builder[c])
               pubkey == FromProtoAny(si.public_key)
               nonce == admission.result.nonce
               decoded == DecodeFromSigningOptions(ClaimOptions(attached))
    <2>1. /\ c \in Calls /\ outcome[c] = "Ok" /\ admission.at \in Nat
          /\ admission.result.trading_key_claim = LastClaim(<<si>>)
          /\ ClaimError(si, pubkey, nonce, admission.at) = "Ok"
      BY AdmittedIsSigned
    <2>2. /\ attached \in TradingKeyClaim /\ attached # None
          /\ ClaimBytes(builder[c].signer.claim) = ClaimBytes(attached)
      BY <2>1, AuthorIsChecked DEF Author, Builders, ClaimDisagrees
    <2>3. ClaimProto(builder[c].signer.claim) = ClaimProto(attached)
      BY <2>2 DEF ClaimBytes, Encode
    <2>4. decoded \in TradingKeyClaim /\ ClaimProto(decoded) = ClaimProto(attached)
      BY <2>2, DecodedClaimProto
    <2>5. si.signing_options = ClaimOptions(attached) /\ ClaimOptions(attached) # None
      BY <2>2, ClaimOptionsType, TxBuilderAssumption DEF SignerInfo
    <2>6. ClaimOf(si) = decoded /\ decoded # None
      BY <2>4, <2>5, TxBuilderAssumption DEF ClaimOf
    <2> HIDE DEF si, decoded, pubkey, nonce
    <2>7. LastClaim(<<si>>) = decoded
      <3>1. {i \in 1 .. Len(<<si>>) : ClaimOf(<<si>>[i]) # None} = {1}
        BY <2>6
      <3>2. (CHOOSE i \in {1} : \A j \in {1} : j <= i) = 1
        OBVIOUS
      <3> QED
        BY <2>6, <3>1, <3>2 DEF LastClaim
    <2>8. /\ Validate(decoded, admission.at) = "Ok"
          /\ SubInRange(decoded, nonce.sub)
      BY <2>1, <2>6 DEF ClaimError, Verify
    <2>9. decoded.expiry > admission.at
      BY <2>1, <2>4, <2>8 DEF Validate, TradingKeyClaim
    <2> QED
      BY <2>1, <2>3, <2>4, <2>6, <2>7, <2>8, <2>9 DEF Author, nonce
  <1> QED
    BY <1>1, SystemInvariant, PTL

-----------------------------------------------------------------------------
(* No false refusal. *)

(* A signature over an accepted preimage, by a signer whose curve the      *)
(* verifier has.                                                           *)
LEMMA SignatureAccepted ==
  ASSUME NEW s \in SignerType, s.kind # "Bitcoin", NEW preimage
  PROVE  VerifySignature(SignerPublicKey(s), preimage, SignDocWith(s, preimage),
                         SignerMode(s)) = "Ok"
  <1> DEFINE pk == SignerPublicKey(s)
             signature == SignDocWith(s, preimage)
  <1>1. s.kind \in {"Native", "Evm", "Solana", "Agent"}
    BY DEF SignerType, SignerKinds
  <1>2. \E a \in Supported : /\ a.kind = pk.kind /\ a.mode = SignerMode(s)
                             /\ signature.scheme = a.scheme /\ signature.len \in a.lens
    <2>1. CASE s.kind = "Evm"
      <3> DEFINE a == [kind |-> "Secp256k1", mode |-> "Secp256k1",
                       scheme |-> "ecdsa-sha256", lens |-> {64}]
      <3>1. a \in Supported
        BY DEF Supported
      <3>2. /\ pk.kind = "Secp256k1" /\ SignerMode(s) = "Secp256k1"
            /\ signature.scheme = "ecdsa-sha256" /\ signature.len = 64
        BY <2>1 DEF SignerPublicKey, SignerMode, DefaultSignMode, SignDocWith
      <3> QED
        BY <3>1, <3>2
    <2>2. CASE s.kind # "Evm"
      <3> DEFINE a == [kind |-> "Ed25519", mode |-> "Ed25519",
                       scheme |-> "ed25519", lens |-> {64}]
      <3>1. a \in Supported
        BY DEF Supported
      <3>2. /\ pk.kind = "Ed25519" /\ SignerMode(s) = "Ed25519"
            /\ signature.scheme = "ed25519" /\ signature.len = 64
        BY <1>1, <2>2 DEF SignerPublicKey, SignerMode, DefaultSignMode, SignDocWith
      <3> QED
        BY <3>1, <3>2
    <2> QED
      BY <2>1, <2>2
  <1>3. signature.key = pk.key /\ signature.over = preimage
    BY DEF SignDocWith, SignerPublicKey
  <1> HIDE DEF pk, signature
  <1>4. VerifySignature(pk, preimage, signature, SignerMode(s)) = "Ok"
    BY <1>2, <1>3 DEF VerifySignature
  <1> QED
    BY <1>4 DEF pk, signature

(* A claim that passed at the assembly, is issued by the signing key and    *)
(* has not expired, passes the verifier.                                   *)
LEMMA ClaimAccepted ==
  ASSUME NEW b \in Builders, NEW nonce \in Nonces, NEW then \in Nat, NEW at \in Nat,
         NEW pubkey, ClaimCheck(b, nonce, then) = "Ok",
         b.trading_key_claim # None =>
           /\ b.trading_key_claim.issuer = ToAccountId(pubkey)
           /\ b.trading_key_claim.expiry > at
  PROVE  ClaimError(SignerInfo(b), pubkey, nonce, at) = "Ok"
  <1> DEFINE claim == b.trading_key_claim
             si == SignerInfo(b)
             decoded == DecodeFromSigningOptions(ClaimOptions(claim))
  <1>1. CASE claim = None
    <2>1. si.signing_options = None
      BY <1>1 DEF SignerInfo
    <2> HIDE DEF si
    <2>2. ClaimError(si, pubkey, nonce, at) = "Ok"
      BY <2>1 DEF ClaimError, ClaimOf
    <2> QED
      BY <2>2 DEF si
  <1>2. CASE claim # None
    <2>1. claim \in TradingKeyClaim /\ SubInRange(claim, nonce.sub)
      BY <1>2, ClaimCheckOk
    <2>2. si.signing_options = ClaimOptions(claim) /\ ClaimOptions(claim) # None
      BY <1>2, <2>1, ClaimOptionsType, TxBuilderAssumption DEF SignerInfo
    <2>3. ~ ClaimMalformed(ClaimOptions(claim))
      BY <2>1, ClaimOptionsType, TxBuilderAssumption DEF ClaimMalformed, ClaimOptionSet
    <2>4. /\ decoded \in TradingKeyClaim
          /\ decoded.expiry = claim.expiry /\ decoded.issuer = claim.issuer
          /\ decoded.sub_start = claim.sub_start /\ decoded.sub_end = claim.sub_end
          /\ decoded.signature.bytes = claim.signature.bytes
      BY <2>1, DecodeOfClaimOptions
    <2>5. ClaimOf(si) = decoded
      BY <2>2 DEF ClaimOf
    <2>6. ~ (claim.sub_start >= claim.sub_end) /\ claim.signature.bytes # ZeroSig
      BY <1>2 DEF ClaimCheck, Validate
    <2> HIDE DEF si, decoded
    <2>7. claim.expiry \in Nat /\ claim.expiry > at /\ claim.issuer = ToAccountId(pubkey)
      BY <1>2, <2>1 DEF TradingKeyClaim
    <2> HIDE DEF claim
    <2>8. Verify(decoded, at, pubkey) = "Ok"
      BY <2>4, <2>6, <2>7 DEF Verify, Validate
    <2>9. SubInRange(decoded, nonce.sub) /\ nonce # None
      BY <2>1, <2>4, TxBuilderAssumption DEF SubInRange
    <2>10. ClaimError(si, pubkey, nonce, at) = "Ok"
      BY <2>2, <2>3, <2>5, <2>8, <2>9 DEF ClaimError
    <2> QED
      BY <2>10 DEF si
  <1> QED
    BY <1>1, <1>2

(* A transaction is admitted by the chain it was built for, at every fork   *)
(* version, as the object or as encoded Tx, whatever sign() suspended for:  *)
(* the verifier agrees with the builder on bytes, keys, schemes, nonces and *)
(* claims (sign steps 2 to 7 against verify_signed_tx).                     *)
THEOREM NoFalseRefusal == SystemSpec => []SignedTxVerifies
  <1>1. SystemInv => SignedTxVerifies
    <2> SUFFICES ASSUME SystemInv, Verified, NEW c, c = admission.call,
                        wire[c].route \in {"Object", "TxBytes"},
                        HomeChain(c, admission.chain),
                        builder[c].signer.kind # "Bitcoin",
                        SelfIssuedOrNoClaim(c),
                        builder[c].trading_key_claim # None =>
                          builder[c].trading_key_claim.expiry > admission.at
                 PROVE  /\ admission.result.error = "Ok"
                        /\ admission.result.body.messages = builder[c].messages
                        /\ admission.result.account_ids =
                             <<ToAccountId(SignerPublicKey(builder[c].signer))>>
      BY DEF SignedTxVerifies
    <2> DEFINE b == builder[c]
               nonce == draft[c].nonce
               stx == wire[c].stx
               chain == admission.chain
               si == SignerInfo(b)
               pubkey == SignerPublicKey(b.signer)
               signature == SignDocWith(b.signer, SignDoc(b, nonce))
    <2>1. /\ c \in Calls /\ wire[c] # None /\ admission.at \in Nat
          /\ admission.result = VerifySignedTx(stx, chain, admission.at)
      BY DEF SystemInv, AdmissionInv
    <2>2. outcome[c] = "Ok" /\ Faithful(c, wire[c].route, stx)
      BY <2>1 DEF SystemInv, WireInv
    <2>3. /\ stx.tx.body = Body(b) /\ stx.tx.auth_info = AuthInfo(b)
          /\ stx.tx.signatures = <<signature>> /\ stx.tx.nonce = nonce
          /\ BodyBytes(stx) = Encode(Body(b)) /\ AuthInfoBytes(stx) = Encode(AuthInfo(b))
      BY <2>2 DEF Faithful
    <2>4. /\ b \in Builders /\ b.signer \in SignerType /\ nonce \in Nonces
          /\ draft[c].now_secs \in Nat /\ ClaimCheck(b, nonce, draft[c].now_secs) = "Ok"
          /\ b.genesis_hash # None /\ nonce # None
      BY <2>1, <2>2, SuccessIsChecked, AuthorIsChecked DEF SystemInv, Succeeded
    <2>5. Body(b) # None /\ AuthInfo(b) # None
      BY <2>4, BodyType, AuthInfoType, TxVerifierAssumption
    <2>6. stx.tx.auth_info.signer_infos = <<si>>
      BY <2>3 DEF AuthInfo
    <2>7. ~ VacuousBinding(stx.tx.nonce, chain)
      BY <2>3, <2>4 DEF VacuousBinding, HomeChain
    <2>8. si.public_key # None /\ FromProtoAny(si.public_key) = pubkey /\ pubkey # None
      <3>1. si.public_key = ToProtoAny(pubkey)
        BY DEF SignerInfo
      <3>2. FromProtoAny(ToProtoAny(pubkey)) = pubkey
        BY <2>4, KeyReadBack
      <3>3. pubkey \in PublicKeys /\ ToProtoAny(pubkey) \in KeyAnys
        BY <2>4, SignerKeyType
      <3> QED
        BY <3>1, <3>2, <3>3, TxVerifierAssumption
    <2>9. signature.over \in AcceptedPreimages(BodyBytes(stx), AuthInfoBytes(stx),
                                               chain.account_number, stx.tx.nonce, chain)
      <3>1. SignDoc(b, nonce) =
              CanonicalSignDoc(Encode(Body(b)), Encode(AuthInfo(b)), chain.chain_id,
                               chain.account_number, chain.genesis_hash, nonce)
        BY DEF SignDoc, HomeChain
      <3>2. signature.over = SignDoc(b, nonce)
        BY DEF SignDocWith
      <3> QED
        BY <2>3, <3>1, <3>2 DEF AcceptedPreimages
    <2>10. VerifySignature(pubkey, signature.over, signature, ExtractSignMode(si)) = "Ok"
      <3>1. signature.over = SignDoc(b, nonce)
        BY DEF SignDocWith
      <3>2. si.mode = SignerMode(b.signer) /\ SignerMode(b.signer) \in SignModes
        BY DEF SignerInfo, SignerMode, DefaultSignMode, SignModes
      <3>3. ExtractSignMode(si) = SignerMode(b.signer)
        BY <3>2 DEF ExtractSignMode
      <3> QED
        BY <2>4, <3>1, <3>3, SignatureAccepted
    <2>11. ClaimError(si, pubkey, stx.tx.nonce, admission.at) = "Ok"
      BY <2>1, <2>3, <2>4, ClaimAccepted DEF SelfIssuedOrNoClaim
    <2> HIDE DEF si, pubkey, signature, stx, chain
    <2>12. /\ admission.result.error = "Ok" /\ admission.result.body = Body(b)
           /\ admission.result.account_ids = <<ToAccountId(pubkey)>>
      BY <2>1, <2>3, <2>5, <2>6, <2>7, <2>8, <2>9, <2>10, <2>11, OneSignerPasses
    <2> QED
      BY <2>12 DEF Body, pubkey
  <1> QED
    BY <1>1, SystemInvariant, PTL

-----------------------------------------------------------------------------
(* The composition. *)

(* Transport and chains leave the signing side alone: what is proved of    *)
(* Spec is true of the whole system.                                       *)
LEMMA SigningUndisturbed == SystemSpec => Spec
  <1>1. SystemInit => Init
    BY DEF SystemInit
  <1>2. [SystemNext]_systemVars => [Next]_vars
    <2> SUFFICES ASSUME [SystemNext]_systemVars PROVE [Next]_vars
      OBVIOUS
    <2>1. CASE UNCHANGED systemVars
      BY <2>1 DEF systemVars
    <2>2. ASSUME NEW c \in Calls, NEW route, NEW stx, Arrives(c, route, stx)
          PROVE  [Next]_vars
      BY <2>2 DEF Arrives
    <2>3. ASSUME NEW c \in Calls, NEW chain \in Chains, VerifyOn(c, chain)
          PROVE  [Next]_vars
      BY <2>3 DEF VerifyOn
    <2> QED
      BY <2>1, <2>2, <2>3 DEF SystemNext, SubmitObject, SubmitTxBytes, SubmitRawBytes, Resubmit
  <1> QED
    BY <1>1, <1>2, PTL DEF SystemSpec, Spec

(* What the document of a builder commits to. *)
LEMMA CommittedByBuilder ==
  ASSUME NEW b, NEW nonce
  PROVE  CommittedBy(SignDoc(b, nonce)) =
           [chain |-> ChainInstance(b.chain_id, b.genesis_hash,
                        IF b.account_number = None THEN 0 ELSE b.account_number),
            nonce |-> nonce,
            messages |-> b.messages,
            account |-> ToAccountId(FromProtoAny(SignerInfo(b).public_key)),
            claim |-> ClaimTerms(ClaimOf(SignerInfo(b)))]
  <1> DEFINE doc == SignDoc(b, nonce)
  <1>1. /\ doc.chain_id = b.chain_id /\ doc.genesis_hash = b.genesis_hash
        /\ doc.account_number = IF b.account_number = None THEN 0 ELSE b.account_number
        /\ doc.nonce = nonce
        /\ doc.body_bytes.bytes = Body(b) /\ doc.auth_info_bytes.bytes = AuthInfo(b)
    BY DEF SignDoc, CanonicalSignDoc, Encode
  <1>2. Body(b).messages = b.messages /\ AuthInfo(b).signer_infos[1] = SignerInfo(b)
    BY DEF Body, AuthInfo
  <1> HIDE DEF doc
  <1>3. CommittedBy(doc) =
           [chain |-> ChainInstance(b.chain_id, b.genesis_hash,
                        IF b.account_number = None THEN 0 ELSE b.account_number),
            nonce |-> nonce,
            messages |-> b.messages,
            account |-> ToAccountId(FromProtoAny(SignerInfo(b).public_key)),
            claim |-> ClaimTerms(ClaimOf(SignerInfo(b)))]
    BY <1>1, <1>2 DEF CommittedBy
  <1> QED
    BY <1>3 DEF doc

(* The claim a builder's SignerInfo carries, as the verifier reads it. *)
LEMMA CarriedClaim ==
  ASSUME NEW b \in Builders
  PROVE  LET claim == b.trading_key_claim  carried == ClaimOf(SignerInfo(b)) IN
         /\ claim = None => carried = None
         /\ claim # None =>
              /\ claim \in TradingKeyClaim /\ carried \in TradingKeyClaim
              /\ carried # None
              /\ carried.expiry = claim.expiry
              /\ carried.sub_start = claim.sub_start /\ carried.sub_end = claim.sub_end
  <1> DEFINE claim == b.trading_key_claim
             si == SignerInfo(b)
  <1>1. CASE claim = None
    <2>1. si.signing_options = None
      BY <1>1 DEF SignerInfo
    <2> HIDE DEF si
    <2>2. ClaimOf(si) = None
      BY <2>1 DEF ClaimOf
    <2> QED
      BY <1>1, <2>2 DEF si
  <1>2. CASE claim # None
    <2>1. claim \in TradingKeyClaim
      BY <1>2 DEF Builders
    <2>2. si.signing_options = ClaimOptions(claim) /\ ClaimOptions(claim) # None
      BY <1>2, <2>1, ClaimOptionsType, TxBuilderAssumption DEF SignerInfo
    <2> HIDE DEF si
    <2>3. ClaimOf(si) = DecodeFromSigningOptions(ClaimOptions(claim))
      BY <2>2 DEF ClaimOf
    <2> HIDE DEF claim
    <2>4. /\ ClaimOf(si) \in TradingKeyClaim /\ ClaimOf(si) # None
          /\ ClaimOf(si).expiry = claim.expiry
          /\ ClaimOf(si).sub_start = claim.sub_start /\ ClaimOf(si).sub_end = claim.sub_end
      BY <2>1, <2>3, DecodeOfClaimOptions, TxBuilderAssumption
    <2> QED
      BY <1>2, <2>1, <2>4 DEF si, claim
  <1> QED
    BY <1>1, <1>2

LEMMA LastOfOne == \A si : LastClaim(<<si>>) = ClaimOf(si)
  <1> SUFFICES ASSUME NEW si PROVE LastClaim(<<si>>) = ClaimOf(si)
    OBVIOUS
  <1> DEFINE carrying == {i \in 1 .. Len(<<si>>) : ClaimOf(<<si>>[i]) # None}
  <1>1. LastClaim(<<si>>) =
          IF carrying = {} THEN None
          ELSE ClaimOf(<<si>>[CHOOSE i \in carrying : \A j \in carrying : j <= i])
    BY DEF LastClaim
  <1>2. carrying = IF ClaimOf(si) = None THEN {} ELSE {1}
    OBVIOUS
  <1> HIDE DEF carrying
  <1>3. (CHOOSE i \in {1} : \A j \in {1} : j <= i) = 1
    OBVIOUS
  <1> QED
    BY <1>1, <1>2, <1>3

(* Of a claim's terms, those the contract speaks of are the claim's.       *)
LEMMA TermsOfClaim ==
  ASSUME NEW claim \in TradingKeyClaim, claim # None
  PROVE  /\ ClaimTerms(claim).expiry = claim.expiry
         /\ ClaimTerms(claim).sub_start = claim.sub_start
         /\ ClaimTerms(claim).sub_end = claim.sub_end
  BY DEF ClaimTerms, ClaimProto, TradingKeyClaim

(* A signature commits its author soundly. *)
SoundCommitments ==
  \A c \in Calls :
    outcome[c] = "Ok" => Admission!Sound(CommittedBy(signed[c].tx.signatures[1].over))

LEMMA CommitmentsSound == SystemInv => SoundCommitments
  <1> SUFFICES ASSUME SystemInv, NEW c \in Calls, outcome[c] = "Ok"
               PROVE  Admission!Sound(CommittedBy(signed[c].tx.signatures[1].over))
    BY DEF SoundCommitments
  <1> DEFINE b == builder[c]
             nonce == draft[c].nonce
             carried == ClaimOf(SignerInfo(b))
             x == CommittedBy(SignDoc(b, nonce))
  <1>1. /\ b \in Builders /\ nonce \in Nonces /\ nonce # None /\ b.genesis_hash # None
        /\ draft[c].now_secs \in Nat /\ ClaimCheck(b, nonce, draft[c].now_secs) = "Ok"
        /\ signed[c].tx.signatures[1].over = SignDoc(b, nonce)
    BY SuccessIsChecked, AuthorIsChecked DEF SystemInv, Succeeded
  <1>2. /\ x.chain.genesis_hash = b.genesis_hash /\ x.nonce = nonce
        /\ x.claim = ClaimTerms(carried)
    BY CommittedByBuilder DEF ChainInstance
  <1> HIDE DEF x
  <1>3. ASSUME x.claim # None
        PROVE  Admission!Covers(x.claim, x.nonce)
    <2>1. carried # None
      BY <1>2, <1>3 DEF ClaimTerms
    <2>2. /\ b.trading_key_claim # None /\ carried \in TradingKeyClaim
          /\ carried.sub_start = b.trading_key_claim.sub_start
          /\ carried.sub_end = b.trading_key_claim.sub_end
      BY <1>1, <2>1, CarriedClaim
    <2>3. SubInRange(b.trading_key_claim, nonce.sub)
      BY <1>1, <2>2, ClaimCheckOk
    <2> HIDE DEF carried
    <2>4. /\ x.claim.sub_start = b.trading_key_claim.sub_start
          /\ x.claim.sub_end = b.trading_key_claim.sub_end
      BY <1>2, <2>1, <2>2, TermsOfClaim
    <2> QED
      BY <1>2, <2>3, <2>4 DEF Admission!Covers, SubInRange
  <1> QED
    BY <1>1, <1>2, <1>3 DEF Admission!Sound, x

(* An admitting chain reports what was committed to, while it is in force. *)
FaithfulReport ==
  LET to == CommittedBy(signed[admission.call].tx.signatures[1].over) IN
  /\ outcome[admission.call] = "Ok"
  /\ Report(admission.chain, admission.result) = to
  /\ Admission!InForce(to.claim, admission.at)

LEMMA ReportIsCommitment == SystemInv => (Admitted => FaithfulReport)
  <1> SUFFICES ASSUME SystemInv, Admitted
               PROVE  FaithfulReport
    OBVIOUS
  <1> DEFINE c == admission.call
             b == builder[c]
             si == SignerInfo(b)
             chain == admission.chain
             result == admission.result
             nonce == draft[c].nonce
             stx == wire[c].stx
             to == CommittedBy(SignDoc(b, nonce))
             carried == ClaimOf(si)
  <1>1. /\ c \in Calls /\ outcome[c] = "Ok" /\ admission.at \in Nat
        /\ SignDoc(b, nonce)
             \in AcceptedPreimages(BodyBytes(stx), AuthInfoBytes(stx),
                                   chain.account_number, stx.tx.nonce, chain)
        /\ result.nonce = stx.tx.nonce
        /\ result.trading_key_claim = LastClaim(<<si>>)
        /\ ClaimError(si, FromProtoAny(si.public_key), stx.tx.nonce, admission.at) = "Ok"
        /\ result.body = Body(b)
        /\ result.account_ids = <<ToAccountId(FromProtoAny(si.public_key))>>
    BY AdmittedIsSigned
  <1>2. /\ b \in Builders /\ b.genesis_hash # None /\ nonce # None
        /\ signed[c].tx.signatures[1].over = SignDoc(b, nonce)
    BY <1>1, SuccessIsChecked, AuthorIsChecked DEF SystemInv, Succeeded
  <1> HIDE DEF chain, stx, result
  <1>3. /\ b.chain_id = chain.chain_id
        /\ chain.account_number = IF b.account_number = None THEN 0 ELSE b.account_number
        /\ b.genesis_hash = chain.genesis_hash
        /\ nonce = result.nonce
    BY <1>1, <1>2, SignDocBinds
  <1>4. to = [chain |-> ChainInstance(b.chain_id, b.genesis_hash,
                          IF b.account_number = None THEN 0 ELSE b.account_number),
              nonce |-> nonce,
              messages |-> b.messages,
              account |-> ToAccountId(FromProtoAny(si.public_key)),
              claim |-> ClaimTerms(carried)]
    BY CommittedByBuilder
  <1>5. result.body.messages = b.messages /\ result.trading_key_claim = carried
        /\ result.account_ids[1] = ToAccountId(FromProtoAny(si.public_key))
    BY <1>1, LastOfOne DEF Body
  <1>6. to.claim = ClaimTerms(carried)
    BY <1>4
  <1>7. ASSUME ClaimTerms(carried) # None
        PROVE  admission.at < ClaimTerms(carried).expiry
    <2>1. carried # None /\ carried \in TradingKeyClaim
      <3>1. carried # None
        BY <1>7 DEF ClaimTerms
      <3> QED
        BY <1>2, <3>1, CarriedClaim
    <2>2. Validate(carried, admission.at) = "Ok"
      <3> HIDE DEF si
      <3> QED
        BY <1>1, <2>1 DEF ClaimError, Verify
    <2> HIDE DEF carried
    <2>3. carried.expiry \in Nat /\ ~ (carried.expiry <= admission.at)
      BY <2>1, <2>2 DEF Validate, TradingKeyClaim
    <2> QED
      BY <1>1, <2>1, <2>3, TermsOfClaim
  <1> HIDE DEF carried, si, to
  <1>8. Report(chain, result) = to
    BY <1>3, <1>4, <1>5 DEF Report
  <1>9. Admission!InForce(to.claim, admission.at)
    BY <1>6, <1>7 DEF Admission!InForce
  <1> QED
    BY <1>1, <1>2, <1>8, <1>9 DEF FaithfulReport, chain, result, to

(* The signature of a call that has returned stays the one it is. *)
LEMMA CommitmentStays ==
  ASSUME IInv, [Next]_vars, NEW c \in Calls, outcome'[c] = outcome[c]
  PROVE  Commitment(c)' = Commitment(c)
  <1>1. CASE outcome[c] # "Ok"
    BY <1>1 DEF Commitment
  <1>2. CASE outcome[c] = "Ok"
    <2>1. phase[c] = "returned" /\ TypeOK
      BY <1>2, TxSigningAssumption DEF IInv, CallInv, StageInv, Outcomes
    <2>2. signed'[c] = signed[c]
      BY <2>1, ReturnedStays
    <2> QED
      BY <1>2, <2>2 DEF Commitment
  <1> QED
    BY <1>1, <1>2

(* A step of sign() is a commitment, or time passing, or nothing to see. *)
LEMMA SigningStepImplements ==
  ASSUME SystemInv, SoundCommitments', [Next]_vars, UNCHANGED <<wire, admission>>
  PROVE  [Admission!AdmissionNext]_(Admission!contractVars)
  <1> DEFINE commitment == [c \in Calls |-> Commitment(c)]
  <1>1. IInv /\ Verdict' = Verdict
    BY DEF SystemInv, Verdict, Admitted
  <1>2. CASE outcome' = outcome
    <2>1. commitment' = commitment
      BY <1>1, <1>2, CommitmentStays
    <2>2. now' = now + 1 \/ now' = now
      BY <1>1, OneAnswerAtATime
    <2> QED
      BY <1>1, <2>1, <2>2 DEF Admission!AdmissionNext, Admission!TimePasses,
                              Admission!contractVars
  <1>3. ASSUME now' = now, NEW c \in Calls, outcome[c] = None,
               NEW x \in Outcomes, outcome' = [outcome EXCEPT ![c] = x]
        PROVE  [Admission!AdmissionNext]_(Admission!contractVars)
    <2>1. outcome'[c] = x /\ outcome[c] # "Ok"
      BY <1>1, <1>3, TxSigningAssumption DEF IInv, TypeOK, Outcomes
    <2>2. \A d \in Calls \ {c} : Commitment(d)' = Commitment(d)
      BY <1>1, <1>3, CommitmentStays DEF IInv, TypeOK
    <2>3. CASE x # "Ok"
      <3>1. Commitment(c)' = Commitment(c)
        BY <2>1, <2>3 DEF Commitment
      <3>2. commitment' = commitment
        BY <2>2, <3>1
      <3> QED
        BY <1>1, <1>3, <3>2 DEF Admission!contractVars
    <2>4. CASE x = "Ok"
      <3>1. /\ commitment[c] = Admission!Uncommitted
            /\ commitment'[c].kind = "committed"
            /\ commitment'[c].to = CommittedBy(signed[c].tx.signatures[1].over)'
        BY <2>1, <2>4 DEF Commitment, Admission!Uncommitted
      <3>2. Admission!Sound(commitment'[c].to)
        BY <2>1, <2>4, <3>1 DEF SoundCommitments
      <3>3. commitment' = [commitment EXCEPT ![c] = commitment'[c]]
        BY <2>2
      <3> QED
        BY <1>1, <1>3, <3>1, <3>2, <3>3 DEF Admission!AdmissionNext, Admission!Commit
    <2> QED
      BY <2>3, <2>4
  <1> QED
    BY <1>1, <1>2, <1>3, OneAnswerAtATime

(* Submitting shows nothing. *)
LEMMA SubmissionImplements ==
  ASSUME NEW c \in Calls, NEW route, NEW stx, Arrives(c, route, stx)
  PROVE  [Admission!AdmissionNext]_(Admission!contractVars)
  <1>1. UNCHANGED vars /\ UNCHANGED admission
    BY DEF Arrives
  <1>2. [d \in Calls |-> Commitment(d)]' = [d \in Calls |-> Commitment(d)]
    BY <1>1 DEF Commitment, vars
  <1>3. Verdict' = Verdict /\ now' = now
    BY <1>1 DEF Verdict, Admitted, vars
  <1> QED
    BY <1>2, <1>3 DEF Admission!contractVars

(* A verification is an admission of the commitment, or a refusal. *)
LEMMA VerificationImplements ==
  ASSUME SystemInv, Admitted' => FaithfulReport', NEW c \in Calls, NEW chain \in Chains,
         VerifyOn(c, chain)
  PROVE  Admission!AdmissionNext
  <1> DEFINE commitment == [d \in Calls |-> Commitment(d)]
  <1>1. UNCHANGED vars /\ wire[c] # None
        /\ admission'.call = c /\ admission'.at = now
    BY DEF VerifyOn
  <1>2. commitment' = commitment /\ now' = now
    BY <1>1 DEF Commitment, vars
  <1>3. outcome[c] = "Ok"
    BY <1>1 DEF SystemInv, WireInv
  <1>4. commitment[c] = [kind |-> "committed",
                         to |-> CommittedBy(signed[c].tx.signatures[1].over)]
    BY <1>3 DEF Commitment
  <1>5. CASE Admitted'
    <2> DEFINE to == CommittedBy(signed[c].tx.signatures[1].over)
    <2>1. Report(admission'.chain, admission'.result) = to /\ Admission!InForce(to.claim, now)
      <3>1. signed' = signed
        BY <1>1 DEF vars
      <3>2. FaithfulReport'
        BY <1>5
      <3> QED
        BY <1>1, <3>1, <3>2 DEF FaithfulReport, Admission!InForce
    <2> HIDE DEF to
    <2>2. Verdict' = [kind |-> "admitted", call |-> c, report |-> to]
      BY <1>1, <1>5, <2>1 DEF Verdict, Admitted
    <2>3. commitment[c].kind = "committed" /\ commitment[c].to = to
      BY <1>4 DEF to
    <2>4. Admission!Admit(c)
      BY <1>2, <2>1, <2>2, <2>3 DEF Admission!Admit
    <2> QED
      BY <2>4 DEF Admission!AdmissionNext
  <1>6. CASE ~ Admitted'
    <2>1. Verdict' = Admission!NotAdmitted
      BY <1>6 DEF Verdict, Admission!NotAdmitted
    <2>2. Admission!Refuse
      BY <1>2, <2>1 DEF Admission!Refuse
    <2> QED
      BY <2>2 DEF Admission!AdmissionNext
  <1> QED
    BY <1>5, <1>6

LEMMA SystemStepImplements ==
  SystemInv /\ SoundCommitments' /\ (Admitted' => FaithfulReport') /\ [SystemNext]_systemVars
    => [Admission!AdmissionNext]_(Admission!contractVars)
  <1> SUFFICES ASSUME SystemInv, SoundCommitments', Admitted' => FaithfulReport',
                      [SystemNext]_systemVars
               PROVE  [Admission!AdmissionNext]_(Admission!contractVars)
    OBVIOUS
  <1>1. CASE (Next /\ UNCHANGED <<wire, admission>>) \/ UNCHANGED systemVars
    BY <1>1, SigningStepImplements DEF systemVars
  <1>2. ASSUME NEW c \in Calls, NEW route, NEW stx, Arrives(c, route, stx)
        PROVE  [Admission!AdmissionNext]_(Admission!contractVars)
    BY <1>2, SubmissionImplements
  <1>3. ASSUME NEW c \in Calls, NEW chain \in Chains, VerifyOn(c, chain)
        PROVE  [Admission!AdmissionNext]_(Admission!contractVars)
    BY <1>3, VerificationImplements
  <1> QED
    BY <1>1, <1>2, <1>3 DEF SystemNext, SubmitObject, SubmitTxBytes, SubmitRawBytes, Resubmit

LEMMA SystemInitImplements == SystemInit => Admission!AdmissionInit
  <1> SUFFICES ASSUME SystemInit PROVE Admission!AdmissionInit
    OBVIOUS
  <1>1. now = 0 /\ \A c \in Calls : outcome[c] = None
    BY DEF SystemInit, Init
  <1>2. \A c \in Calls : Commitment(c) = Admission!Uncommitted
    BY <1>1, TxSigningAssumption DEF Commitment, Admission!Uncommitted, Outcomes
  <1>3. Verdict = Admission!NotAdmitted
    BY DEF SystemInit, Verdict, Admitted, Admission!NotAdmitted
  <1> QED
    BY <1>1, <1>2, <1>3 DEF Admission!AdmissionInit

(* Concurrent sign() calls, whatever carries their transactions, and the   *)
(* chains that verify them, at whatever time and however often, implement  *)
(* AdmissionContract: what a chain acts on is what was signed              *)
(* (TxBuilder::sign against verify_signed_tx).                             *)
THEOREM AdmissionImplementation == SystemSpec => ImplementsAdmission
  <1> QED
    BY SystemInitImplements, SystemInvariant, CommitmentsSound, ReportIsCommitment,
       SystemStepImplements, PTL DEF SystemSpec, ImplementsAdmission, Admission!AdmissionSpec

(* Of the whole system is true what is true of its signing side: transport *)
(* and chains take nothing back that sign() promised its callers.          *)
THEOREM SystemKeepsContract == SystemSpec => ImplementsContract
  BY SigningUndisturbed, Implementation

=============================================================================
