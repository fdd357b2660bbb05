------------------------- MODULE VerifierCasesProofs ------------------------
(***************************************************************************)
(* What verify_signed_tx guarantees of any transaction it admits, for      *)
(* every number of signers, every case each may be, every nonce and        *)
(* context.                                                                *)
(***************************************************************************)
EXTENDS VerifierCases, TxVerifierProofs

-----------------------------------------------------------------------------
(* The invariant: the input is a decoded transaction of the cases, and the *)
(* verdict is the verifier's.                                              *)

SignedByCases(auth_info) ==
  \E n \in 0 .. MaxSigners : \E cases \in [1 .. n -> SignerCases] :
    auth_info.signer_infos = [i \in 1 .. n |-> Info(cases[i])]

CaseInv ==
  /\ input.stx = Decode(Encode(AcceptedTx))
  /\ input.ctx \in Contexts /\ input.now \in Nat
  /\ AcceptedTx.nonce \in Nonces \cup {None}
  /\ AcceptedTx.auth_info = None \/ SignedByCases(AcceptedTx.auth_info)
  /\ verdict # None => verdict = VerifySignedTx(input.stx, input.ctx, input.now)

(* Cutting a part off leaves the others as they were. *)
LEMMA CutsOf ==
  ASSUME NEW n \in 0 .. MaxSigners, NEW cases \in [1 .. n -> SignerCases],
         NEW nonce, NEW ctx, NEW tx \in Cuts(SignedBy(cases, nonce, ctx))
  PROVE  /\ tx.nonce = nonce
         /\ tx.auth_info = None \/ SignedByCases(tx.auth_info)
  <1> DEFINE whole == SignedBy(cases, nonce, ctx)
  <1>1. /\ whole.nonce = nonce
        /\ whole.auth_info.signer_infos = [i \in 1 .. n |-> Info(cases[i])]
        /\ DOMAIN whole = {"body", "auth_info", "signatures", "nonce"}
    BY DEF SignedBy
  <1> HIDE DEF whole
  <1>2. /\ tx.nonce = whole.nonce
        /\ tx.auth_info \in {None, whole.auth_info}
    BY <1>1 DEF Cuts, whole
  <1> QED
    BY <1>1, <1>2 DEF SignedByCases

LEMMA CaseInitEstablishes == CaseInit => CaseInv
  <1> SUFFICES ASSUME CaseInit
               PROVE  CaseInv
    OBVIOUS
  <1>1. PICK n \in 0 .. MaxSigners : \E cases \in [1 .. n -> SignerCases] :
          \E nonce \in TxNonces, ctx \in Contexts, now \in Clocks :
          \E tx \in Cuts(SignedBy(cases, nonce, ctx)) :
            input = [stx |-> Decode(Encode(tx)), ctx |-> ctx, now |-> now]
    BY DEF CaseInit
  <1>2. PICK cases \in [1 .. n -> SignerCases] :
          \E nonce \in TxNonces, ctx \in Contexts, now \in Clocks :
          \E tx \in Cuts(SignedBy(cases, nonce, ctx)) :
            input = [stx |-> Decode(Encode(tx)), ctx |-> ctx, now |-> now]
    BY <1>1
  <1>3. PICK nonce \in TxNonces, ctx \in Contexts, now \in Clocks :
          \E tx \in Cuts(SignedBy(cases, nonce, ctx)) :
            input = [stx |-> Decode(Encode(tx)), ctx |-> ctx, now |-> now]
    BY <1>2
  <1>4. PICK tx \in Cuts(SignedBy(cases, nonce, ctx)) :
          input = [stx |-> Decode(Encode(tx)), ctx |-> ctx, now |-> now]
    BY <1>3
  <1>5. Decode(Encode(tx)).tx = tx
    BY DEF Decode, Encode
  <1>6. /\ AcceptedTx = tx /\ input.stx = Decode(Encode(tx))
        /\ input.ctx = ctx /\ input.now = now
    BY <1>4, <1>5 DEF AcceptedTx
  <1>7. tx.nonce = nonce /\ (tx.auth_info = None \/ SignedByCases(tx.auth_info))
    BY CutsOf
  <1> QED
    BY <1>6, <1>7, VerifierCasesAssumption DEF CaseInv, CaseInit

(* Every reachable state satisfies the invariant.                          *)
THEOREM CaseInvariant == CaseSpec => []CaseInv
  <1>1. CaseInv /\ [CaseNext]_caseVars => CaseInv'
    BY DEF CaseInv, CaseNext, Check, caseVars, AcceptedTx
  <1> QED
    BY <1>1, CaseInitEstablishes, PTL DEF CaseSpec

(* An accepted transaction has signers, each of one of the cases.          *)
LEMMA AcceptedSigners ==
  ASSUME CaseInv, Accepted
  PROVE  /\ VerifySignedTx(Decode(Encode(AcceptedTx)), input.ctx, input.now).error = "Ok"
         /\ verdict = VerifySignedTx(Decode(Encode(AcceptedTx)), input.ctx, input.now)
         /\ \E n \in Nat \ {0} : \E cases \in [1 .. n -> SignerCases] :
              AcceptedInfos = [i \in 1 .. n |-> Info(cases[i])]
         /\ DOMAIN AcceptedInfos \subseteq Nat
         /\ ~ VacuousBinding(AcceptedTx.nonce, input.ctx)
  <1> DEFINE result == VerifySignedTx(Decode(Encode(AcceptedTx)), input.ctx, input.now)
             stx == Decode(Encode(AcceptedTx))
  <1>1. result.error = "Ok" /\ verdict = result
    BY DEF CaseInv, Accepted
  <1>2. stx.tx = AcceptedTx
    BY DEF Decode, Encode
  <1>3. AcceptedTx.auth_info # None /\ AcceptedInfos # <<>>
    <2> HIDE DEF stx
    <2> QED
      BY <1>1, <1>2 DEF VerifySignedTx, Refused, AcceptedInfos, stx
  <1>4. PICK n \in 0 .. MaxSigners : \E cases \in [1 .. n -> SignerCases] :
          AcceptedInfos = [i \in 1 .. n |-> Info(cases[i])]
    BY <1>3 DEF CaseInv, SignedByCases, AcceptedInfos
  <1>5. n \in Nat /\ n # 0
    BY <1>3, <1>4, VerifierCasesAssumption
  <1>6. DOMAIN AcceptedInfos \subseteq Nat
    BY <1>4, <1>5
  <1>7. ~ VacuousBinding(AcceptedTx.nonce, input.ctx)
    BY <1>1, <1>2, <1>6, EverySignerChecked DEF AcceptedInfos
  <1> QED
    BY <1>1, <1>4, <1>5, <1>6, <1>7

-----------------------------------------------------------------------------
(* Signatures. *)

(* Every signer of an admitted transaction, not only the first, presents   *)
(* the key it signed with and signed this body, these signer infos and     *)
(* this chain, leaving a binding out only before its fork (the loop of     *)
(* verify_signed_tx).                                                      *)
THEOREM EverySigner == CaseSpec => []EverySignerBound
  <1>1. CaseInv => EverySignerBound
    <2> SUFFICES ASSUME CaseInv, Accepted, NEW i \in DOMAIN AcceptedInfos
                 PROVE  LET answer == AcceptedTx.signatures[i]  doc == answer.over IN
                        /\ answer.key = AcceptedInfos[i].public_key.value.key
                        /\ doc.body_bytes = Encode(AcceptedTx.body)
                        /\ doc.auth_info_bytes = Encode(AcceptedTx.auth_info)
                        /\ doc.chain_id = input.ctx.chain_id
                        /\ Binds(doc.genesis_hash, input.ctx.genesis_hash, GenesisFork)
                        /\ Binds(doc.nonce, AcceptedTx.nonce, NonceFork)
      BY DEF EverySignerBound
    <2> DEFINE tx == AcceptedTx
               answer == tx.signatures[i]
               doc == answer.over
               ctx == input.ctx
    <2>1. /\ answer.key = AcceptedInfos[i].public_key.value.key
          /\ doc.body_bytes = Encode(tx.body)
          /\ doc.auth_info_bytes = Encode(tx.auth_info)
          /\ doc.chain_id = ctx.chain_id
          /\ doc.genesis_hash # ctx.genesis_hash =>
               doc.genesis_hash = None /\ ctx.fork_version < GenesisFork
          /\ doc.nonce # tx.nonce => doc.nonce = None /\ ctx.fork_version < NonceFork
      BY AcceptedSigners, EverySignerBinds DEF AcceptedInfos
    <2>2. /\ ctx.genesis_hash = None => ctx.fork_version < GenesisFork
          /\ tx.nonce = None => ctx.fork_version < NonceFork
      <3>1. ctx.fork_version \in Nat
        BY VerifierCasesAssumption DEF CaseInv
      <3> QED
        BY <3>1, AcceptedSigners, TxVerifierAssumption DEF VacuousBinding
    <2> HIDE DEF doc, ctx, tx
    <2>3. /\ Binds(doc.genesis_hash, input.ctx.genesis_hash, GenesisFork)
          /\ Binds(doc.nonce, tx.nonce, NonceFork)
      BY <2>1, <2>2 DEF Binds, ctx
    <2> QED
      BY <2>1, <2>3 DEF doc, ctx, tx
  <1> QED
    BY <1>1, CaseInvariant, PTL

(* A signature that passes is of a scheme that the signer's mode announces *)
(* (verify_signature: every arm is one pair of a mode and a scheme).       *)
LEMMA PassesByScheme ==
  ASSUME NEW si, NEW answer, NEW ladder, NEW nonce, NEW at,
         SignerError(si, answer, ladder, nonce, at) = "Ok", ladder # {}
  PROVE  ExtractSignMode(si) \in ModesOf(answer.scheme)
  <1> DEFINE pubkey == FromProtoAny(si.public_key)
             mode == ExtractSignMode(si)
             Tried(p) == VerifySignature(pubkey, p, answer, mode)
             tried == {Tried(p) : p \in ladder}
  <1>1. \A p : Tried(p) = "Ok" => \E arm \in Supported : arm.mode = mode /\ arm.scheme = answer.scheme
    BY DEF VerifySignature
  <1>2. tried # {}
    BY DEF tried
  <1>3. "Ok" \in tried => \E p \in ladder : Tried(p) = "Ok"
    BY DEF tried
  <1>4. \A arm \in Supported : arm.mode \in ModesOf(arm.scheme)
    BY DEF Supported, ModesOf
  <1> HIDE DEF Tried, tried, pubkey, mode
  <1>5. "Ok" \notin tried => (CHOOSE e \in tried : TRUE) # "Ok"
    BY <1>2
  <1>6. SignerError(si, answer, ladder, nonce, at) =
          IF si.public_key = None THEN "MissingPublicKey"
          ELSE IF pubkey = None THEN "BadPublicKey"
          ELSE IF "Ok" \notin tried THEN CHOOSE e \in tried : TRUE
          ELSE ClaimError(si, pubkey, nonce, at)
    BY DEF SignerError, tried, Tried, pubkey, mode
  <1>7. "Ok" \in tried
    BY <1>5, <1>6
  <1>8. PICK arm \in Supported : arm.mode = mode /\ arm.scheme = answer.scheme
    BY <1>1, <1>3, <1>7
  <1> QED
    BY <1>4, <1>8 DEF mode

(* Every signature of an admitted transaction is of the scheme its mode    *)
(* announces, and the reported mode announces the first one's              *)
(* (verify_signature, extract_sign_mode).                                  *)
THEOREM EveryScheme == CaseSpec => []SchemeIsAnnounced
  <1>1. CaseInv => SchemeIsAnnounced
    <2> SUFFICES ASSUME CaseInv, Accepted
                 PROVE  /\ \A i \in DOMAIN AcceptedInfos :
                             LET modes == ModesOf(AcceptedTx.signatures[i].scheme)
                                 mode  == AcceptedInfos[i].mode
                             IN  IF mode \in SignModes THEN mode \in modes ELSE "Ed25519" \in modes
                        /\ verdict.sign_mode \in ModesOf(AcceptedTx.signatures[1].scheme)
      BY DEF SchemeIsAnnounced
    <2> DEFINE stx == Decode(Encode(AcceptedTx))
               ladder == AcceptedPreimages(BodyBytes(stx), AuthInfoBytes(stx),
                           input.ctx.account_number, AcceptedTx.nonce, input.ctx)
    <2>1. /\ verdict = VerifySigners(AcceptedTx, ladder, input.now)
          /\ BadSigners(AcceptedTx, ladder, input.now) = {}
          /\ \A i \in DOMAIN AcceptedInfos :
               SignerError(AcceptedInfos[i], AcceptedTx.signatures[i], ladder,
                           AcceptedTx.nonce, input.now) = "Ok"
      <3>1. stx.tx = AcceptedTx
        BY DEF Decode, Encode
      <3>2. /\ verdict = VerifySignedTx(stx, input.ctx, input.now)
            /\ VerifySignedTx(stx, input.ctx, input.now).error = "Ok"
            /\ DOMAIN AcceptedTx.auth_info.signer_infos \subseteq Nat
        BY AcceptedSigners DEF AcceptedInfos
      <3> HIDE DEF stx
      <3> QED
        BY <3>1, <3>2, EverySignerChecked DEF AcceptedInfos
    <2>2. ladder # {}
      BY LadderNotEmpty
    <2> HIDE DEF ladder
    <2>3. \A i \in DOMAIN AcceptedInfos :
            ExtractSignMode(AcceptedInfos[i]) \in ModesOf(AcceptedTx.signatures[i].scheme)
      BY <2>1, <2>2, PassesByScheme
    <2>4. verdict.sign_mode = ExtractSignMode(AcceptedInfos[1])
      BY <2>1 DEF VerifySigners, AcceptedInfos
    <2>5. 1 \in DOMAIN AcceptedInfos
      <3>1. PICK n \in Nat \ {0} : \E cases \in [1 .. n -> SignerCases] :
              AcceptedInfos = [i \in 1 .. n |-> Info(cases[i])]
        BY AcceptedSigners
      <3> QED
        BY <3>1
    <2>6. verdict.sign_mode \in ModesOf(AcceptedTx.signatures[1].scheme)
      BY <2>3, <2>4, <2>5
    <2> QED
      BY <2>3, <2>6 DEF ExtractSignMode
  <1> QED
    BY <1>1, CaseInvariant, PTL

-----------------------------------------------------------------------------
(* Claims. *)

(* A claim that is read from options is what they encode; only the         *)
(* signature's variant is chosen by the reader.                            *)
LEMMA ReadClaim ==
  ASSUME NEW opts, opts.wasm_seed.value \in [bytes : ClaimProtos],
         ~ ClaimMalformed(opts), opts.algo_hint = "trading_key_claim",
         opts.wasm_seed.type_url = "TradingKeyClaim"
  PROVE  LET claim == DecodeFromSigningOptions(opts)
             proto == opts.wasm_seed.value.bytes
         IN
         /\ proto \in ClaimProtos /\ claim \in TradingKeyClaim
         /\ claim.expiry = proto.expiry /\ claim.issuer = proto.issuer
         /\ claim.sub_start = proto.sub_start /\ claim.sub_end = proto.sub_end
  <1> DEFINE proto == opts.wasm_seed.value.bytes
             answer == [variant |-> "Ed25519", bytes |-> proto.signature]
             claim == DecodeFromSigningOptions(opts)
  <1>1. proto \in ClaimProtos
    OBVIOUS
  <1>2. claim = [proto EXCEPT !.signature = answer]
    BY DEF DecodeFromSigningOptions
  <1>3. answer \in ClaimSignatures
    BY <1>1 DEF ClaimProtos, ClaimSignatures
  <1> HIDE DEF proto, claim, answer
  <1>4. /\ claim \in TradingKeyClaim
        /\ claim.expiry = proto.expiry /\ claim.issuer = proto.issuer
        /\ claim.sub_start = proto.sub_start /\ claim.sub_end = proto.sub_end
    BY <1>1, <1>2, <1>3 DEF ClaimProtos, TradingKeyClaim
  <1> QED
    BY <1>1, <1>4 DEF proto, claim

(* Every claim any signer of an admitted transaction carries is readable,  *)
(* in force, issued by that signer's own account and covers the nonce (the *)
(* claim section of verify_signed_tx).                                     *)
THEOREM EveryClaim == CaseSpec => []EveryClaimHolds
  <1>1. CaseInv => EveryClaimHolds
    <2> SUFFICES ASSUME CaseInv, Accepted, NEW i \in DOMAIN AcceptedInfos,
                        NEW opts, opts = AcceptedInfos[i].signing_options,
                        opts # None, opts.algo_hint = "trading_key_claim"
                 PROVE  /\ ~ ClaimMalformed(opts)
                        /\ opts.wasm_seed.type_url = "TradingKeyClaim" =>
                             LET proto == opts.wasm_seed.value.bytes IN
                             /\ proto.expiry > input.now
                             /\ proto.issuer = Sha256(AcceptedInfos[i].public_key.value)
                             /\ AcceptedTx.nonce # None
                             /\ AcceptedTx.nonce.sub \in proto.sub_start .. proto.sub_end - 1
      BY DEF EveryClaimHolds
    <2> DEFINE si == AcceptedInfos[i]
               pubkey == FromProtoAny(si.public_key)
               nonce == AcceptedTx.nonce
               claim == DecodeFromSigningOptions(opts)
               proto == opts.wasm_seed.value.bytes
    <2>1. /\ si.public_key # None /\ pubkey # None
          /\ ClaimError(si, pubkey, nonce, input.now) = "Ok"
      BY AcceptedSigners, EverySignerBinds DEF AcceptedInfos
    <2>2. PICK n \in Nat \ {0} : \E cases \in [1 .. n -> SignerCases] :
            AcceptedInfos = [j \in 1 .. n |-> Info(cases[j])]
      BY AcceptedSigners
    <2>3. PICK case \in SignerCases : si = Info(case)
      BY <2>2
    <2>4. /\ si.public_key = case.key /\ opts = case.options
          /\ si.signing_options = opts
      BY <2>3 DEF Info
    <2>5. nonce \in Nonces \cup {None} /\ input.now \in Nat
      BY DEF CaseInv
    <2> HIDE DEF si
    <2>6. ~ ClaimMalformed(opts)
      BY <2>1, <2>4 DEF ClaimError
    <2>7. ASSUME opts.wasm_seed.type_url = "TradingKeyClaim"
          PROVE  /\ proto.expiry > input.now
                 /\ proto.issuer = Sha256(si.public_key.value)
                 /\ nonce # None
                 /\ nonce.sub \in proto.sub_start .. proto.sub_end - 1
      <3>1. opts.wasm_seed # None /\ opts.wasm_seed.value # None
        BY <2>6, <2>7 DEF ClaimMalformed
      <3>2. opts.wasm_seed.value \in [bytes : ClaimProtos]
        BY <2>4, <2>7, <3>1, VerifierCasesAssumption
      <3>3. /\ proto \in ClaimProtos /\ claim \in TradingKeyClaim
            /\ claim.expiry = proto.expiry /\ claim.issuer = proto.issuer
            /\ claim.sub_start = proto.sub_start /\ claim.sub_end = proto.sub_end
        BY <2>6, <2>7, <3>2, ReadClaim
      <3>4. ClaimOf(si) = claim /\ claim # None
        BY <2>4, <3>3, TxBuilderAssumption DEF ClaimOf
      <3> HIDE DEF claim, proto
      <3>5. Verify(claim, input.now, pubkey) = "Ok" /\ nonce # None /\ SubInRange(claim, nonce.sub)
        BY <2>1, <3>4 DEF ClaimError
      <3>6. ~ (claim.expiry <= input.now) /\ claim.issuer = ToAccountId(pubkey)
        BY <3>5 DEF Verify, Validate
      <3>7. ToAccountId(pubkey) = Sha256(si.public_key.value)
        <4>1. si.public_key \in KeyAnys
          BY <2>1, <2>4, VerifierCasesAssumption
        <4> QED
          BY <2>1, <4>1, ParsedBytes DEF ToAccountId
      <3>8. nonce.sub \in Nat
        BY <2>5, <3>5 DEF Nonces
      <3>9. claim.expiry \in Nat /\ claim.sub_start \in Nat /\ claim.sub_end \in Nat
        BY <3>3 DEF TradingKeyClaim
      <3>10. proto.expiry > input.now
        BY <2>5, <3>3, <3>6, <3>9
      <3>11. nonce.sub \in proto.sub_start .. proto.sub_end - 1
        <4>1. claim.sub_start <= nonce.sub /\ nonce.sub < claim.sub_end
          BY <3>5 DEF SubInRange
        <4> HIDE DEF nonce
        <4> QED
          BY <3>3, <3>8, <3>9, <4>1
      <3> QED
        BY <3>3, <3>5, <3>6, <3>7, <3>10, <3>11
    <2> QED
      BY <2>6, <2>7 DEF si
  <1> QED
    BY <1>1, CaseInvariant, PTL

-----------------------------------------------------------------------------
(* The report. *)

(* The claim reported of several signers is one a signer carries.          *)
LEMMA LastClaimIsCarried ==
  ASSUME NEW n \in Nat, NEW infos, Len(infos) = n, DOMAIN infos = 1 .. n
  PROVE  LET claims == {ClaimOf(infos[i]) : i \in DOMAIN infos} IN
         IF claims \subseteq {None} THEN LastClaim(infos) = None
         ELSE LastClaim(infos) \in claims \ {None}
  <1> DEFINE carrying == {i \in 1 .. n : ClaimOf(infos[i]) # None}
             last == CHOOSE i \in carrying : \A j \in carrying : j <= i
  <1>1. LastClaim(infos) = IF carrying = {} THEN None ELSE ClaimOf(infos[last])
    BY DEF LastClaim
  <1>2. carrying # {} => last \in carrying
    <2>1. carrying \in SUBSET (1 .. n)
      OBVIOUS
    <2> HIDE DEF carrying
    <2> QED
      BY <2>1, LastOf
  <1> HIDE DEF last
  <1> QED
    BY <1>1, <1>2

(* account_ids names every signer's account in order, and the reported     *)
(* claim is missing exactly when no signer carries one (VerifiedTx).       *)
THEOREM ReportIsSigners == CaseSpec => []ReportMatchesSigners
  <1>1. CaseInv => ReportMatchesSigners
    <2> SUFFICES ASSUME CaseInv, Accepted
                 PROVE  /\ DOMAIN verdict.account_ids = DOMAIN AcceptedInfos
                        /\ \A i \in DOMAIN AcceptedInfos :
                             verdict.account_ids[i] = Sha256(AcceptedInfos[i].public_key.value)
                        /\ LET claims == {ClaimOf(AcceptedInfos[i]) : i \in DOMAIN AcceptedInfos}
                           IN IF claims = {None} THEN verdict.trading_key_claim = None
                              ELSE verdict.trading_key_claim \in claims \ {None}
      BY DEF ReportMatchesSigners
    <2> DEFINE infos == AcceptedInfos
               stx == Decode(Encode(AcceptedTx))
               ladder == AcceptedPreimages(BodyBytes(stx), AuthInfoBytes(stx),
                           input.ctx.account_number, AcceptedTx.nonce, input.ctx)
               claims == {ClaimOf(infos[i]) : i \in DOMAIN infos}
    <2>1. PICK n \in Nat \ {0} : \E cases \in [1 .. n -> SignerCases] :
            infos = [i \in 1 .. n |-> Info(cases[i])]
      BY AcceptedSigners
    <2>2. PICK cases \in [1 .. n -> SignerCases] : infos = [i \in 1 .. n |-> Info(cases[i])]
      BY <2>1
    <2>3. DOMAIN infos = 1 .. n /\ n \in Nat /\ 1 \in DOMAIN infos
      BY <2>2
    <2>4. Len(infos) = n
      BY <2>2, <2>3
    <2>5. verdict = VerifySigners(AcceptedTx, ladder, input.now)
          /\ BadSigners(AcceptedTx, ladder, input.now) = {}
      <3>1. stx.tx = AcceptedTx
        BY DEF Decode, Encode
      <3>2. /\ verdict = VerifySignedTx(stx, input.ctx, input.now)
            /\ VerifySignedTx(stx, input.ctx, input.now).error = "Ok"
            /\ DOMAIN AcceptedTx.auth_info.signer_infos \subseteq Nat
        BY AcceptedSigners DEF AcceptedInfos
      <3> HIDE DEF stx
      <3> QED
        BY <3>1, <3>2, EverySignerChecked
    <2> HIDE DEF ladder, infos
    <2>6. /\ verdict.account_ids =
               [i \in 1 .. Len(infos) |-> ToAccountId(FromProtoAny(infos[i].public_key))]
          /\ verdict.trading_key_claim = LastClaim(infos)
      BY <2>5 DEF VerifySigners, AcceptedInfos, infos
    <2>7. ASSUME NEW i \in DOMAIN infos
          PROVE  verdict.account_ids[i] = Sha256(infos[i].public_key.value)
      <3>1. infos[i].public_key # None /\ FromProtoAny(infos[i].public_key) # None
        BY <2>7, AcceptedSigners, EverySignerBinds DEF AcceptedInfos, infos
      <3>2. infos[i].public_key \in KeyAnys
        <4>1. infos[i].public_key = cases[i].key /\ cases[i] \in SignerCases
          BY <2>2, <2>3, <2>7 DEF Info
        <4> QED
          BY <3>1, <4>1, VerifierCasesAssumption
      <3>3. ToAccountId(FromProtoAny(infos[i].public_key)) = Sha256(infos[i].public_key.value)
        BY <3>1, <3>2, ParsedBytes DEF ToAccountId
      <3> QED
        BY <2>3, <2>4, <2>6, <2>7, <3>3
    <2>8. DOMAIN verdict.account_ids = DOMAIN infos
      BY <2>3, <2>4, <2>6
    <2>9. IF claims \subseteq {None} THEN verdict.trading_key_claim = None
          ELSE verdict.trading_key_claim \in claims \ {None}
      BY <2>3, <2>4, <2>6, LastClaimIsCarried
    <2>10. claims # {}
      BY <2>3
    <2> QED
      BY <2>7, <2>8, <2>9, <2>10 DEF infos
  <1> QED
    BY <1>1, CaseInvariant, PTL

(* A decoded transaction gets the same verdict from the bytes decode built *)
(* and from a re-encoding (verify_signed_tx, SignedTx::decode).            *)
THEOREM RebuiltBytesDoNotMatter == CaseSpec => []RebuiltBytesAgree
  <1>1. CaseInv => RebuiltBytesAgree
    <2> SUFFICES ASSUME CaseInv, verdict # None
                 PROVE  VerifySignedTx([input.stx EXCEPT !.tx_raw = None], input.ctx, input.now)
                          = verdict
      BY DEF RebuiltBytesAgree
    <2> DEFINE stx == input.stx
               bare == [stx EXCEPT !.tx_raw = None]
    <2>1. /\ stx = Decode(Encode(AcceptedTx))
          /\ verdict = VerifySignedTx(stx, input.ctx, input.now)
      BY DEF CaseInv
    <2>2. /\ stx = [tx |-> AcceptedTx,
                    tx_raw |-> [body_bytes |-> Encode(AcceptedTx.body),
                                auth_info_bytes |-> Encode(AcceptedTx.auth_info),
                                signatures |-> AcceptedTx.signatures]]
      BY <2>1 DEF Decode, Encode
    <2> HIDE DEF stx
    <2>3. bare.tx = stx.tx /\ bare.tx_raw = None
      BY <2>2
    <2>4. /\ stx.tx_raw.body_bytes = Encode(stx.tx.body)
          /\ stx.tx_raw.auth_info_bytes = Encode(stx.tx.auth_info)
      BY <2>2
    <2> HIDE DEF bare
    <2>5. BodyBytes(bare) = BodyBytes(stx) /\ AuthInfoBytes(bare) = AuthInfoBytes(stx)
      BY <2>3, <2>4 DEF BodyBytes, AuthInfoBytes
    <2>6. VerifySignedTx(bare, input.ctx, input.now) = VerifySignedTx(stx, input.ctx, input.now)
      BY <2>3, <2>5 DEF VerifySignedTx
    <2> QED
      BY <2>1, <2>6 DEF bare, stx
  <1> QED
    BY <1>1, CaseInvariant, PTL

=============================================================================
