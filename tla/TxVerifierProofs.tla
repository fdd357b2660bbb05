-------------------------- MODULE TxVerifierProofs --------------------------
(***************************************************************************)
(* What verify_signed_tx has checked when it admits a transaction, for     *)
(* every transaction, chain context and time; and when it does admit one.  *)
(***************************************************************************)
EXTENDS TxVerifier, TxBuilderProofs, WellFoundedInduction

-----------------------------------------------------------------------------
(* One signer. *)

(* A key that parses keeps its key material. *)
LEMMA ParsedKey ==
  ASSUME NEW any, FromProtoAny(any) # None
  PROVE  FromProtoAny(any).key = any.value.key
  BY DEF FromProtoAny

(* The bytes that were parsed are the key's bytes. *)
LEMMA ParsedBytes ==
  ASSUME NEW any \in KeyAnys, FromProtoAny(any) # None
  PROVE  ToProtoBytes(FromProtoAny(any)) = any.value
  <1> DEFINE matches == {p \in ParsedKind : p[1] = any.url /\ p[2] = any.value.len}
             pk == FromProtoAny(any)
  <1>1. any.value = [len |-> any.value.len, key |-> any.value.key]
    BY DEF KeyAnys, Bytes
  <1>2. pk = IF matches = {} THEN None
             ELSE [kind |-> (CHOOSE p \in matches : TRUE)[3], key |-> any.value.key]
    BY DEF FromProtoAny
  <1>3. matches # {}
    BY <1>2
  <1> HIDE DEF pk
  <1>4. PICK p \in matches : pk = [kind |-> p[3], key |-> any.value.key]
    BY <1>2, <1>3
  <1>5. /\ p \in {<<"ed25519", 32, "Ed25519">>, <<"secp256k1", 33, "Secp256k1">>,
                 <<"secp256k1", 20, "EvmAddress">>, <<"schnorr", 32, "Schnorr">>}
        /\ p[2] = any.value.len
    BY DEF ParsedKind
  <1>6. ToProtoBytes(pk) = [len |-> p[2], key |-> any.value.key]
    <2>1. pk.kind = p[3] /\ pk.key = any.value.key
      BY <1>4
    <2>2. CASE p[3] = "Secp256k1"
      BY <1>5, <2>1, <2>2 DEF ToProtoBytes
    <2>3. CASE p[3] = "EvmAddress"
      BY <1>5, <2>1, <2>3 DEF ToProtoBytes
    <2>4. CASE p[3] \in {"Ed25519", "Schnorr"}
      BY <1>5, <2>1, <2>4 DEF ToProtoBytes
    <2> QED
      BY <1>5, <2>2, <2>3, <2>4
  <1> QED
    BY <1>1, <1>5, <1>6 DEF pk

SignedInLadder(si, signature, ladder) ==
  /\ si.public_key # None /\ FromProtoAny(si.public_key) # None
  /\ signature.key = si.public_key.value.key
  /\ signature.over \in ladder

(* What passes for one signer: a key that parses, a signature by that key   *)
(* over one of the accepted preimages, and every check of its claim.        *)
LEMMA SignerOk ==
  ASSUME NEW si, NEW signature, NEW ladder, ladder # {}, NEW nonce, NEW at,
         SignerError(si, signature, ladder, nonce, at) = "Ok"
  PROVE  /\ SignedInLadder(si, signature, ladder)
         /\ ClaimError(si, FromProtoAny(si.public_key), nonce, at) = "Ok"
  <1> DEFINE pubkey == FromProtoAny(si.public_key)
             Tried(p) == VerifySignature(pubkey, p, signature, ExtractSignMode(si))
             tried == {Tried(p) : p \in ladder}
  <1>1. \A p : Tried(p) = "Ok" => signature.over = p /\ signature.key = pubkey.key
    BY DEF VerifySignature
  <1>2. tried # {}
    OBVIOUS
  <1> HIDE DEF Tried
  <1>3. "Ok" \in tried => signature.over \in ladder /\ signature.key = pubkey.key
    BY <1>1
  <1> HIDE DEF tried, pubkey
  <1>4. ("Ok" \notin tried) => (CHOOSE e \in tried : TRUE) # "Ok"
    BY <1>2
  <1>5. pubkey = FromProtoAny(si.public_key)
    BY DEF pubkey
  <1>6. SignerError(si, signature, ladder, nonce, at) =
          IF si.public_key = None THEN "MissingPublicKey"
          ELSE IF pubkey = None THEN "BadPublicKey"
          ELSE IF "Ok" \notin tried THEN CHOOSE e \in tried : TRUE
          ELSE ClaimError(si, pubkey, nonce, at)
    BY DEF SignerError, tried, Tried, pubkey
  <1>7. /\ si.public_key # None /\ pubkey # None
        /\ "Ok" \in tried /\ ClaimError(si, pubkey, nonce, at) = "Ok"
    BY <1>4, <1>6
  <1>8. pubkey.key = si.public_key.value.key
    BY <1>5, <1>7, ParsedKey
  <1> QED
    BY <1>3, <1>5, <1>7, <1>8 DEF SignedInLadder

LEMMA LadderNotEmpty ==
  ASSUME NEW body_bytes, NEW auth_info_bytes, NEW number, NEW nonce, NEW ctx
  PROVE  AcceptedPreimages(body_bytes, auth_info_bytes, number, nonce, ctx) # {}
  <1>1. CanonicalSignDoc(body_bytes, auth_info_bytes, ctx.chain_id, number,
                         ctx.genesis_hash, nonce)
          \in AcceptedPreimages(body_bytes, auth_info_bytes, number, nonce, ctx)
    BY DEF AcceptedPreimages
  <1> QED
    BY <1>1

(* A member of the ladder binds the body, the signer infos, the chain's id  *)
(* and account number; its genesis hash and its nonce are the chain's and   *)
(* the one shown, or missing before the fork that requires them.            *)
LEMMA LadderBinds ==
  ASSUME NEW doc, NEW body_bytes, NEW auth_info_bytes, NEW number, NEW nonce, NEW ctx,
         doc \in AcceptedPreimages(body_bytes, auth_info_bytes, number, nonce, ctx)
  PROVE  /\ doc.body_bytes = body_bytes /\ doc.auth_info_bytes = auth_info_bytes
         /\ doc.chain_id = ctx.chain_id /\ doc.account_number = number
         /\ doc.genesis_hash # ctx.genesis_hash =>
              doc.genesis_hash = None /\ ctx.fork_version < GenesisFork
         /\ doc.nonce # nonce => doc.nonce = None /\ ctx.fork_version < NonceFork
  BY DEF AcceptedPreimages, CanonicalSignDoc

(* The key the verifier reads back is the signer's. *)
LEMMA KeyReadBack ==
  ASSUME NEW s \in SignerType
  PROVE  FromProtoAny(ToProtoAny(SignerPublicKey(s))) = SignerPublicKey(s)
  <1> DEFINE pk == SignerPublicKey(s)
             any == ToProtoAny(pk)
             matches == {p \in ParsedKind : p[1] = any.url /\ p[2] = any.value.len}
  <1>1. /\ pk = [kind |-> pk.kind, key |-> s.key]
        /\ pk.kind \in {"Ed25519", "Secp256k1", "Schnorr"}
    BY DEF SignerPublicKey, SignerType
  <1> HIDE DEF pk
  <1>2. \E triple \in ParsedKind : matches = {triple} /\ triple[3] = pk.kind
    <2>1. CASE pk.kind = "Ed25519"
      <3>1. any.url = "ed25519" /\ any.value.len = 32
        BY <2>1 DEF ToProtoAny, TypeUrl, ToProtoBytes
      <3> QED
        BY <2>1, <3>1 DEF ParsedKind
    <2>2. CASE pk.kind = "Secp256k1"
      <3>1. any.url = "secp256k1" /\ any.value.len = 33
        BY <2>2 DEF ToProtoAny, TypeUrl, ToProtoBytes
      <3> QED
        BY <2>2, <3>1 DEF ParsedKind
    <2>3. CASE pk.kind = "Schnorr"
      <3>1. any.url = "schnorr" /\ any.value.len = 32
        BY <2>3 DEF ToProtoAny, TypeUrl, ToProtoBytes
      <3> QED
        BY <2>3, <3>1 DEF ParsedKind
    <2> QED
      BY <1>1, <2>1, <2>2, <2>3
  <1>3. any.value.key = s.key
    BY <1>1 DEF ToProtoAny, ToProtoBytes
  <1>4. FromProtoAny(any) =
          IF matches = {} THEN None
          ELSE [kind |-> (CHOOSE p \in matches : TRUE)[3], key |-> any.value.key]
    BY DEF FromProtoAny
  <1> HIDE DEF any, matches
  <1>5. FromProtoAny(any) = pk
    BY <1>1, <1>2, <1>3, <1>4
  <1> QED
    BY <1>5 DEF any, pk

-----------------------------------------------------------------------------
(* All signers. *)

(* A set of naturals has a least member: the first failing signer.          *)
LEMMA FirstOf ==
  ASSUME NEW T \in SUBSET Nat, T # {}
  PROVE  \E i \in T : \A j \in T : i <= j
  <1> DEFINE Less == {pair \in Nat \X Nat : pair[1] < pair[2]}
  <1>1. IsWellFoundedOn(Less, Nat)
    BY NatLessThanWellFounded DEF OpToRel
  <1> HIDE DEF Less
  <1>2. \E i \in T : \A j \in T : ~ (<<j, i>> \in Less)
    BY <1>1, WFMin
  <1>3. \A i, j \in Nat : (~ (<<j, i>> \in Less)) => i <= j
    BY DEF Less
  <1> QED
    BY <1>2, <1>3

(* ... and a set of positions has a last one: the claim that is reported.   *)
LEMMA LastOf ==
  ASSUME NEW n \in Nat, NEW T \in SUBSET (1 .. n), T # {}
  PROVE  \E i \in T : \A j \in T : j <= i
  <1> DEFINE mirror == {n - i : i \in T}
  <1>1. \A i \in T : i \in 1 .. n
    OBVIOUS
  <1>2. mirror \in SUBSET Nat /\ mirror # {}
    <2>1. \A i \in T : n - i \in Nat
      BY <1>1
    <2> QED
      BY <2>1
  <1>3. PICK m \in mirror : \A k \in mirror : m <= k
    BY <1>2, FirstOf
  <1> HIDE DEF mirror
  <1>4. PICK i \in T : m = n - i
    BY <1>3 DEF mirror
  <1>5. ASSUME NEW j \in T
        PROVE  j <= i
    <2>1. n - i <= n - j
      <3>1. n - j \in mirror
        BY <1>5 DEF mirror
      <3> QED
        BY <1>3, <1>4, <3>1
    <2> QED
      BY <1>1, <1>4, <2>1
  <1> QED
    BY <1>5

(* A transaction is admitted only when it is complete, binds what its fork  *)
(* requires, and every signer's checks pass.                                *)
LEMMA EverySignerChecked ==
  ASSUME NEW stx, NEW ctx, NEW at, VerifySignedTx(stx, ctx, at).error = "Ok",
         DOMAIN stx.tx.auth_info.signer_infos \subseteq Nat
  PROVE  LET tx == stx.tx
             ladder == AcceptedPreimages(BodyBytes(stx), AuthInfoBytes(stx),
                                         ctx.account_number, tx.nonce, ctx)
         IN
         /\ tx.auth_info.signer_infos # <<>> /\ ~ VacuousBinding(tx.nonce, ctx)
         /\ \A i \in DOMAIN tx.auth_info.signer_infos :
              SignerError(tx.auth_info.signer_infos[i], tx.signatures[i], ladder,
                          tx.nonce, at) = "Ok"
         /\ BadSigners(tx, ladder, at) = {}
         /\ VerifySignedTx(stx, ctx, at) = VerifySigners(tx, ladder, at)
  <1> DEFINE tx == stx.tx
             infos == tx.auth_info.signer_infos
             ladder == AcceptedPreimages(BodyBytes(stx), AuthInfoBytes(stx),
                                         ctx.account_number, tx.nonce, ctx)
             bad == BadSigners(tx, ladder, at)
             Error(i) == SignerError(infos[i], tx.signatures[i], ladder, tx.nonce, at)
             first == CHOOSE i \in bad : \A j \in bad : i <= j
  <1>1. /\ VerifySignedTx(stx, ctx, at) = VerifySigners(tx, ladder, at)
        /\ infos # <<>> /\ ~ VacuousBinding(tx.nonce, ctx)
    BY DEF VerifySignedTx, Refused
  <1>2. bad = {i \in DOMAIN infos : Error(i) # "Ok"}
    BY DEF BadSigners
  <1>3. bad # {} => VerifySigners(tx, ladder, at).error = Error(first)
    BY DEF VerifySigners, Refused
  <1>4. bad \in SUBSET Nat
    BY <1>2
  <1> HIDE DEF bad
  <1>5. bad # {} => first \in bad
    BY <1>4, FirstOf
  <1> HIDE DEF first, Error, ladder, infos, tx
  <1>6. bad = {}
    BY <1>1, <1>2, <1>3, <1>5
  <1>7. \A i \in DOMAIN infos : Error(i) = "Ok"
    BY <1>2, <1>6
  <1> QED
    BY <1>1, <1>6, <1>7 DEF bad, Error, ladder, infos, tx

(* In an admitted transaction that was decoded, every signer presents the   *)
(* key it signed with, and signed this body and these signer infos for this *)
(* chain, under a genesis hash and a nonce that are the chain's and the     *)
(* transaction's, or missing before their forks.                            *)
LEMMA EverySignerBinds ==
  ASSUME NEW tx, NEW ctx, NEW at, VerifySignedTx(Decode(Encode(tx)), ctx, at).error = "Ok",
         DOMAIN tx.auth_info.signer_infos \subseteq Nat,
         NEW i \in DOMAIN tx.auth_info.signer_infos
  PROVE  LET si == tx.auth_info.signer_infos[i]
             doc == tx.signatures[i].over
         IN
         /\ si.public_key # None /\ FromProtoAny(si.public_key) # None
         /\ tx.signatures[i].key = si.public_key.value.key
         /\ doc.body_bytes = Encode(tx.body) /\ doc.auth_info_bytes = Encode(tx.auth_info)
         /\ doc.chain_id = ctx.chain_id /\ doc.account_number = ctx.account_number
         /\ doc.genesis_hash # ctx.genesis_hash =>
              doc.genesis_hash = None /\ ctx.fork_version < GenesisFork
         /\ doc.nonce # tx.nonce => doc.nonce = None /\ ctx.fork_version < NonceFork
         /\ ClaimError(si, FromProtoAny(si.public_key), tx.nonce, at) = "Ok"
  <1> DEFINE stx == Decode(Encode(tx))
             ladder == AcceptedPreimages(Encode(tx.body), Encode(tx.auth_info),
                                         ctx.account_number, tx.nonce, ctx)
             si == tx.auth_info.signer_infos[i]
             signature == tx.signatures[i]
  <1>1. /\ stx.tx = tx /\ BodyBytes(stx) = Encode(tx.body)
        /\ AuthInfoBytes(stx) = Encode(tx.auth_info)
    BY DEF Decode, Encode, BodyBytes, AuthInfoBytes
  <1> HIDE DEF stx
  <1>2. SignerError(si, signature, ladder, tx.nonce, at) = "Ok"
    BY <1>1, EverySignerChecked DEF stx
  <1>3. ladder # {}
    BY LadderNotEmpty
  <1> HIDE DEF ladder, si, signature
  <1>4. /\ SignedInLadder(si, signature, ladder)
        /\ ClaimError(si, FromProtoAny(si.public_key), tx.nonce, at) = "Ok"
    BY <1>2, <1>3, SignerOk
  <1>5. /\ signature.over.body_bytes = Encode(tx.body)
        /\ signature.over.auth_info_bytes = Encode(tx.auth_info)
        /\ signature.over.chain_id = ctx.chain_id
        /\ signature.over.account_number = ctx.account_number
        /\ signature.over.genesis_hash # ctx.genesis_hash =>
             signature.over.genesis_hash = None /\ ctx.fork_version < GenesisFork
        /\ signature.over.nonce # tx.nonce =>
             signature.over.nonce = None /\ ctx.fork_version < NonceFork
    BY <1>4, LadderBinds DEF ladder, SignedInLadder
  <1> QED
    BY <1>4, <1>5 DEF si, signature, SignedInLadder

(* With one signer, what is admitted is what that signer's checks passed.  *)
LEMMA OneSignerAdmitted ==
  ASSUME NEW stx, NEW ctx, NEW at, NEW si, NEW signature,
         stx.tx.auth_info.signer_infos = <<si>>, stx.tx.signatures = <<signature>>,
         VerifySignedTx(stx, ctx, at).error = "Ok"
  PROVE  /\ SignerError(si, signature,
                        AcceptedPreimages(BodyBytes(stx), AuthInfoBytes(stx),
                                          ctx.account_number, stx.tx.nonce, ctx),
                        stx.tx.nonce, at) = "Ok"
         /\ VerifySignedTx(stx, ctx, at).nonce = stx.tx.nonce
         /\ VerifySignedTx(stx, ctx, at).trading_key_claim = LastClaim(<<si>>)
         /\ VerifySignedTx(stx, ctx, at).body = stx.tx.body
         /\ VerifySignedTx(stx, ctx, at).account_ids =
              <<ToAccountId(FromProtoAny(si.public_key))>>
  <1> DEFINE ladder == AcceptedPreimages(BodyBytes(stx), AuthInfoBytes(stx),
                                         ctx.account_number, stx.tx.nonce, ctx)
             bad == BadSigners(stx.tx, ladder, at)
             error == SignerError(si, signature, ladder, stx.tx.nonce, at)
  <1>1. VerifySignedTx(stx, ctx, at) = VerifySigners(stx.tx, ladder, at)
    BY DEF VerifySignedTx, Refused
  <1>2. bad = {i \in {1} : error # "Ok"}
    BY DEF BadSigners
  <1> HIDE DEF error, ladder
  <1>3. CASE error # "Ok"
    <2>1. bad = {1} /\ (CHOOSE i \in bad : \A j \in bad : i <= j) = 1
      BY <1>2, <1>3
    <2>2. VerifySigners(stx.tx, ladder, at) = Refused(error)
      BY <2>1 DEF VerifySigners, error
    <2> QED
      BY <1>1, <1>3, <2>2 DEF Refused
  <1>4. CASE error = "Ok"
    <2>1. bad = {}
      BY <1>2, <1>4
    <2>2. /\ VerifySigners(stx.tx, ladder, at).nonce = stx.tx.nonce
          /\ VerifySigners(stx.tx, ladder, at).trading_key_claim = LastClaim(<<si>>)
          /\ VerifySigners(stx.tx, ladder, at).body = stx.tx.body
          /\ VerifySigners(stx.tx, ladder, at).account_ids =
               [i \in 1 .. 1 |-> ToAccountId(FromProtoAny(<<si>>[i].public_key))]
      BY <2>1 DEF VerifySigners
    <2>3. [i \in 1 .. 1 |-> ToAccountId(FromProtoAny(<<si>>[i].public_key))]
            = <<ToAccountId(FromProtoAny(si.public_key))>>
      OBVIOUS
    <2> QED
      BY <1>1, <1>4, <2>2, <2>3 DEF error, ladder
  <1> QED
    BY <1>3, <1>4

(* With one signer whose signature and claim pass, verify_signed_tx admits. *)
LEMMA OneSignerPasses ==
  ASSUME NEW stx, NEW ctx, NEW at, NEW si, NEW signature,
         stx.tx.auth_info.signer_infos = <<si>>, stx.tx.signatures = <<signature>>,
         stx.tx.body # None, stx.tx.auth_info # None, ~ VacuousBinding(stx.tx.nonce, ctx),
         si.public_key # None, FromProtoAny(si.public_key) # None,
         signature.over \in AcceptedPreimages(BodyBytes(stx), AuthInfoBytes(stx),
                                              ctx.account_number, stx.tx.nonce, ctx),
         VerifySignature(FromProtoAny(si.public_key), signature.over, signature,
                         ExtractSignMode(si)) = "Ok",
         ClaimError(si, FromProtoAny(si.public_key), stx.tx.nonce, at) = "Ok"
  PROVE  LET result == VerifySignedTx(stx, ctx, at) IN
         /\ result.error = "Ok" /\ result.body = stx.tx.body
         /\ result.account_ids = <<ToAccountId(FromProtoAny(si.public_key))>>
  <1> DEFINE ladder == AcceptedPreimages(BodyBytes(stx), AuthInfoBytes(stx),
                                         ctx.account_number, stx.tx.nonce, ctx)
             error == SignerError(si, signature, ladder, stx.tx.nonce, at)
             bad == BadSigners(stx.tx, ladder, at)
  <1>1. VerifySignedTx(stx, ctx, at) = VerifySigners(stx.tx, ladder, at)
    BY DEF VerifySignedTx
  <1> HIDE DEF ladder
  <1>2. error = "Ok"
    <2> DEFINE pubkey == FromProtoAny(si.public_key)
               tried == {VerifySignature(pubkey, p, signature, ExtractSignMode(si)) : p \in ladder}
    <2>1. "Ok" \in tried
      BY DEF ladder
    <2> HIDE DEF tried
    <2>2. error = ClaimError(si, pubkey, stx.tx.nonce, at)
      BY <2>1 DEF SignerError, tried
    <2> QED
      BY <2>2
  <1>3. bad = {}
    <2>1. bad = {i \in {1} : error # "Ok"}
      BY DEF BadSigners
    <2> HIDE DEF error
    <2> QED
      BY <1>2, <2>1
  <1> HIDE DEF error
  <1>4. /\ VerifySigners(stx.tx, ladder, at).error = "Ok"
        /\ VerifySigners(stx.tx, ladder, at).body = stx.tx.body
        /\ VerifySigners(stx.tx, ladder, at).account_ids =
             [i \in 1 .. 1 |-> ToAccountId(FromProtoAny(<<si>>[i].public_key))]
    BY <1>3 DEF VerifySigners
  <1>5. [i \in 1 .. 1 |-> ToAccountId(FromProtoAny(<<si>>[i].public_key))]
          = <<ToAccountId(FromProtoAny(si.public_key))>>
    OBVIOUS
  <1> QED
    BY <1>1, <1>4, <1>5

=============================================================================
