------------------------- MODULE WalletSessionProofs ------------------------
(***************************************************************************)
(* What a page gets out of the wallet and the chains, for every set of     *)
(* accounts, nonces, modes and runtimes: however its assemblies and the    *)
(* wallet's answers interleave, an admitted transaction is one that the    *)
(* wallet was asked to sign, and an honest one is not refused.             *)
(***************************************************************************)
EXTENDS WalletSession, TxVerifierProofs

-----------------------------------------------------------------------------
(* The inductive invariant: where the parts, the request, the signature    *)
(* and the transaction of a session come from.                             *)

(* Parts the page assembled for the wallet it is connected to. *)
Assembled(p) ==
  /\ wallet # None
  /\ p.request \in Requests
  /\ p.request.chain_type = ChainType(WalletType(wallet))
  /\ p.request.signer_key.len = PageKey.len
  /\ p.built = BuildSignDoc(p.request)

(* Parts whose preimage covers them and binds their nonce. *)
Covered(made) ==
  /\ made.sign_doc.body_bytes = made.body_bytes
  /\ made.sign_doc.auth_info_bytes = made.auth_info_bytes
  /\ made.sign_doc.nonce = made.nonce /\ made.nonce \in Nonces
  /\ \E si : made.auth_info_bytes = Encode([signer_infos |-> <<si>>])

SignedBySession(s) ==
  /\ Assembled(s.of)
  /\ s.signature.over = s.of.built.sign_doc
  /\ s.signature.scheme = PageScheme.scheme /\ s.signature.len = PageScheme.len

PopupInv ==
  popup # None =>
    \/ /\ popup.route = "page" /\ Assembled(popup.of)
       /\ popup.doc = popup.of.built.sign_doc
       /\ popup.scheme = PageScheme.scheme /\ popup.len = PageScheme.len
    \/ /\ popup.route = "builder" /\ Covered(popup.of) /\ popup.doc = popup.of.sign_doc

(* A transaction has one signer and one signature; the page's was asked    *)
(* for by a request of its own, though perhaps not for these parts.        *)
MadeBySession(s) ==
  /\ \E si : s.tx.auth_info.signer_infos = <<si>>
  /\ s.tx.signatures = <<s.tx.signatures[1]>>
  /\ s.tx = [body |-> s.tx.body, auth_info |-> s.tx.auth_info,
             signatures |-> s.tx.signatures, nonce |-> s.tx.nonce]
  /\ s.tx.signatures[1].over.nonce \in Nonces
  /\ \/ s.route = "builder" /\ s.asked = None
     \/ /\ s.route = "page"
        /\ SignedBySession([of |-> [request |-> s.asked.request,
                                    built |-> BuildSignDoc(s.asked.request)],
                            signature |-> s.tx.signatures[1]])
        /\ s.asked.tx = StampedTx(BuildSignDoc(s.asked.request), s.tx.signatures[1])

VerdictInv ==
  admission # None =>
    /\ wallet # None
    /\ MadeBySession(admission.sent)
    /\ admission.chain \in Chains
    /\ admission.result =
         VerifySignedTx(Decode(Encode(admission.sent.tx)), admission.chain, 0)

SessionInv ==
  /\ active \in Keys
  /\ wallet # None => connected \in Keys
  /\ wallet = None => parts = None /\ popup = None /\ signature = None /\ sent = None
                        /\ admission = None
  /\ parts # None => Assembled(parts)
  /\ PopupInv
  /\ signature # None => SignedBySession(signature)
  /\ sent # None => MadeBySession(sent)
  /\ VerdictInv

-----------------------------------------------------------------------------
(* The parts. *)

LEMMA AssemblyCovered ==
  ASSUME NEW r \in Requests
  PROVE  Covered(BuildSignDoc(r))
  <1> DEFINE made == BuildSignDoc(r)
  <1>1. r.nonce \in Nonces
    BY DEF Requests
  <1>2. made.auth_info_bytes = Encode([signer_infos |-> <<RequestSignerInfo(r)>>])
    BY DEF BuildSignDoc, RequestAuthInfo
  <1>3. /\ made.sign_doc.body_bytes = made.body_bytes
        /\ made.sign_doc.auth_info_bytes = made.auth_info_bytes
        /\ made.sign_doc.nonce = made.nonce /\ made.nonce = r.nonce
    BY DEF BuildSignDoc, CanonicalSignDoc
  <1> HIDE DEF made
  <1>4. Covered(made)
    BY <1>1, <1>2, <1>3 DEF Covered
  <1> QED
    BY <1>4 DEF made

LEMMA AdapterCovered ==
  ASSUME NEW id, NEW hash, NEW msg
  PROVE  LET b == WasmBuilder(id, hash, msg) IN Covered(AdapterParts(b, LocalNonce(b)))
  <1> DEFINE b == WasmBuilder(id, hash, msg)
             made == AdapterParts(b, LocalNonce(b))
             si == [SignerInfo(b) EXCEPT !.public_key = AdapterKeyProto(b)]
  <1>1. LocalNonce(b) \in Nonces
    <2>1. b.manual_nonce = None /\ b.trading_key_claim = None
      BY DEF WasmBuilder, AddMessage, WithGenesisHash, WithChainId, NewBuilder, WasmSigner
    <2> HIDE DEF b
    <2> QED
      BY <2>1 DEF LocalNonce, DefaultNonce, Nonces
  <1> HIDE DEF b
  <1>2. made.auth_info_bytes = Encode([signer_infos |-> <<si>>])
    BY DEF AdapterParts, AdapterAuthInfo
  <1>3. /\ made.sign_doc.body_bytes = made.body_bytes
        /\ made.sign_doc.auth_info_bytes = made.auth_info_bytes
        /\ made.sign_doc.nonce = made.nonce /\ made.nonce = LocalNonce(b)
    BY DEF AdapterParts, SignDoc, CanonicalSignDoc
  <1> HIDE DEF made, si
  <1>4. Covered(made)
    BY <1>1, <1>2, <1>3 DEF Covered
  <1> QED
    BY <1>4 DEF made, b

-----------------------------------------------------------------------------
(* The steps. *)

(* What a session holds stays as good while the wallet does not change. *)
LEMMA SameWallet ==
  ASSUME wallet' = wallet
  PROVE  /\ \A p : Assembled(p)' <=> Assembled(p)
         /\ \A s : SignedBySession(s)' <=> SignedBySession(s)
         /\ \A s : MadeBySession(s)' <=> MadeBySession(s)
  <1>1. \A p : Assembled(p)' <=> Assembled(p)
    BY DEF Assembled, PageKey
  <1>2. \A s : SignedBySession(s)' <=> SignedBySession(s)
    BY <1>1 DEF SignedBySession, PageScheme
  <1>3. \A s : MadeBySession(s)' <=> MadeBySession(s)
    BY <1>2 DEF MadeBySession
  <1> QED
    BY <1>1, <1>2, <1>3

LEMMA ConnectKeeps ==
  ASSUME SessionInv, NEW w \in Wallets, Connect(w)
  PROVE  SessionInv'
  BY DEF SessionInv, Connect, PopupInv, VerdictInv

LEMMA SwitchKeeps ==
  ASSUME SessionInv, NEW k \in Keys, SwitchAccount(k)
  PROVE  SessionInv'
  <1>1. wallet' = wallet
    BY DEF SwitchAccount
  <1> QED
    BY <1>1, SameWallet DEF SessionInv, SwitchAccount, PopupInv, VerdictInv, PageScheme,
       Covered

(* buildSignDocBytes is asked for parts of a request. *)
LEMMA AssembleKeeps ==
  ASSUME SessionInv, NEW r \in PageRequests, Assemble(r)
  PROVE  SessionInv'
  <1>1. /\ wallet' = wallet /\ wallet # None
        /\ parts' = [request |-> r, built |-> BuildSignDoc(r)]
    BY DEF Assemble
  <1>2. r \in Requests
    <2>1. PageKey \in Bytes
      BY <1>1 DEF SessionInv, PageKey, Bytes
    <2>2. WalletType(wallet) \in WalletTypes
      BY DEF WalletType, WalletTypes
    <2>3. ChainType(WalletType(wallet)) \in {ChainType(w) : w \in WalletTypes}
      BY <2>2
    <2> QED
      BY <2>1, <2>3, WalletSessionAssumption DEF PageRequests, Requests
  <1>3. r.signer_key = PageKey /\ r.chain_type = ChainType(WalletType(wallet))
    BY DEF Assemble
  <1>4. Assembled(parts')
    BY <1>1, <1>2, <1>3 DEF Assembled
  <1>5. Assembled(parts)'
    BY <1>1, <1>4, SameWallet DEF Assembled, PageKey
  <1> QED
    BY <1>1, <1>5, SameWallet DEF SessionInv, Assemble, PopupInv, VerdictInv, PageScheme,
       Covered

LEMMA AskKeeps ==
  ASSUME SessionInv, AskWallet
  PROVE  SessionInv'
  <1>1. wallet' = wallet /\ wallet # None /\ Assembled(parts)
    BY DEF AskWallet, SessionInv
  <1>2. /\ popup'.route = "page" /\ popup'.of = parts
        /\ popup'.doc = parts.built.sign_doc
        /\ popup'.scheme = PageScheme.scheme /\ popup'.len = PageScheme.len
    BY DEF AskWallet
  <1>3. PopupInv'
    BY <1>1, <1>2, SameWallet DEF PopupInv, PageScheme, Assembled, PageKey
  <1> QED
    BY <1>1, <1>3, SameWallet DEF SessionInv, AskWallet, VerdictInv

LEMMA BuilderAsksKeeps ==
  ASSUME SessionInv, NEW id, NEW hash, NEW msg, SignWithAdapter(WasmBuilder(id, hash, msg))
  PROVE  SessionInv'
  <1> DEFINE b == WasmBuilder(id, hash, msg)
             made == AdapterParts(b, LocalNonce(b))
  <1>1. Covered(made)
    BY AdapterCovered
  <1>2. /\ popup'.route = "builder" /\ popup'.of = made /\ popup'.doc = made.sign_doc
        /\ wallet' = wallet /\ wallet # None
    BY DEF SignWithAdapter
  <1> HIDE DEF made
  <1>3. PopupInv'
    BY <1>1, <1>2 DEF PopupInv, Covered
  <1> QED
    BY <1>2, <1>3, SameWallet DEF SessionInv, SignWithAdapter, VerdictInv

LEMMA ApprovePageKeeps ==
  ASSUME SessionInv, ApprovePage
  PROVE  SessionInv'
  <1>1. /\ wallet' = wallet /\ wallet # None /\ popup' = None
        /\ popup # None /\ popup.route = "page"
        /\ signature' = [signature |-> WalletSignature(popup), of |-> popup.of]
    BY DEF ApprovePage, SessionInv
  <1>2. /\ Assembled(popup.of) /\ popup.doc = popup.of.built.sign_doc
        /\ popup.scheme = PageScheme.scheme /\ popup.len = PageScheme.len
    BY <1>1 DEF SessionInv, PopupInv
  <1>3. /\ WalletSignature(popup).over = popup.doc
        /\ WalletSignature(popup).scheme = popup.scheme
        /\ WalletSignature(popup).len = popup.len
    BY DEF WalletSignature
  <1>4. SignedBySession([signature |-> WalletSignature(popup), of |-> popup.of])
    BY <1>2, <1>3 DEF SignedBySession
  <1>5. SignedBySession(signature)'
    BY <1>1, <1>4 DEF SignedBySession, PageScheme, Assembled, PageKey
  <1> QED
    BY <1>1, <1>5, SameWallet DEF SessionInv, ApprovePage, VerdictInv, PopupInv

LEMMA ApproveBuilderKeeps ==
  ASSUME SessionInv, ApproveBuilder
  PROVE  SessionInv'
  <1> DEFINE made == popup.of
             answer == WalletSignature(popup)
  <1>1. /\ wallet' = wallet /\ wallet # None /\ popup' = None
        /\ popup # None /\ popup.route = "builder"
        /\ sent' = [tx |-> StampedTx(made, answer), route |-> "builder", asked |-> None]
    BY DEF ApproveBuilder, SessionInv
  <1>2. Covered(made) /\ popup.doc = made.sign_doc
    BY <1>1 DEF SessionInv, PopupInv
  <1>3. answer.over = popup.doc
    BY DEF WalletSignature
  <1> HIDE DEF made, answer
  <1>4. PICK si : made.auth_info_bytes = Encode([signer_infos |-> <<si>>])
    BY <1>2 DEF Covered
  <1>5. /\ sent'.tx.auth_info.signer_infos = <<si>>
        /\ sent'.tx.signatures = <<answer>> /\ sent'.tx.signatures[1] = answer
        /\ sent'.tx = [body |-> sent'.tx.body, auth_info |-> sent'.tx.auth_info,
                       signatures |-> sent'.tx.signatures, nonce |-> sent'.tx.nonce]
        /\ sent'.route = "builder" /\ sent'.asked = None
    BY <1>1, <1>4 DEF StampedTx, Encode
  <1>6. answer.over.nonce \in Nonces
    BY <1>2, <1>3 DEF Covered
  <1>7. MadeBySession(sent)'
    BY <1>5, <1>6 DEF MadeBySession
  <1> QED
    BY <1>1, <1>7, SameWallet DEF SessionInv, ApproveBuilder, VerdictInv, PopupInv

LEMMA RejectKeeps ==
  ASSUME SessionInv, Reject
  PROVE  SessionInv'
  <1>1. wallet' = wallet /\ popup' = None /\ popup # None
    BY DEF Reject
  <1> QED
    BY <1>1, SameWallet DEF SessionInv, Reject, VerdictInv, PopupInv

(* The page stamps the parts it holds with the signature it holds, whatever *)
(* that was asked for.                                                      *)
LEMMA StampKeeps ==
  ASSUME SessionInv, Stamp
  PROVE  SessionInv'
  <1> DEFINE answer == signature.signature
             made == parts.built
             r == signature.of.request
  <1>1. /\ wallet' = wallet /\ wallet # None
        /\ sent' = [tx |-> StampedTx(made, answer), route |-> "page",
                    asked |-> [request |-> r, tx |-> StampedTx(signature.of.built, answer)]]
    BY DEF Stamp, SessionInv
  <1>2. Assembled(parts) /\ SignedBySession(signature)
    BY DEF Stamp, SessionInv
  <1>3. /\ Covered(made) /\ r \in Requests /\ signature.of.built = BuildSignDoc(r)
        /\ answer.over = BuildSignDoc(r).sign_doc
    BY <1>2, AssemblyCovered DEF Assembled, SignedBySession
  <1>4. answer.over.nonce \in Nonces
    BY <1>3, AssemblyCovered DEF Covered
  <1>5. SignedBySession([of |-> [request |-> r, built |-> BuildSignDoc(r)],
                         signature |-> answer])
    BY <1>2, <1>3 DEF SignedBySession, Assembled
  <1> HIDE DEF made, answer, r
  <1>6. PICK si : made.auth_info_bytes = Encode([signer_infos |-> <<si>>])
    BY <1>3 DEF Covered
  <1>7. /\ sent'.tx.auth_info.signer_infos = <<si>>
        /\ sent'.tx.signatures = <<answer>> /\ sent'.tx.signatures[1] = answer
        /\ sent'.tx = [body |-> sent'.tx.body, auth_info |-> sent'.tx.auth_info,
                       signatures |-> sent'.tx.signatures, nonce |-> sent'.tx.nonce]
        /\ sent'.route = "page" /\ sent'.asked.request = r
        /\ sent'.asked.tx = StampedTx(BuildSignDoc(r), answer)
    BY <1>1, <1>3, <1>6 DEF StampedTx, Encode
  <1>8. MadeBySession(sent')
    BY <1>4, <1>5, <1>7 DEF MadeBySession
  <1>9. MadeBySession(sent)'
    BY <1>1, <1>8 DEF MadeBySession, SignedBySession, Assembled, PageKey, PageScheme
  <1> QED
    BY <1>1, <1>9, SameWallet DEF SessionInv, Stamp, VerdictInv, PopupInv, PageScheme, Covered

LEMMA VerifyOnKeeps ==
  ASSUME SessionInv, NEW chain \in Chains, VerifyOn(chain)
  PROVE  SessionInv'
  <1>1. /\ wallet' = wallet /\ wallet # None /\ MadeBySession(sent)
        /\ admission' = [sent |-> sent, chain |-> chain,
                         result |-> VerifySignedTx(Decode(Encode(sent.tx)), chain, 0)]
    BY DEF VerifyOn, SessionInv
  <1>2. VerdictInv'
    BY <1>1, SameWallet DEF VerdictInv, MadeBySession, SignedBySession, Assembled, PageKey,
       PageScheme
  <1> QED
    BY <1>1, <1>2, SameWallet DEF SessionInv, VerifyOn, PopupInv, PageScheme, Covered

LEMMA SessionNextKeeps == SessionInv /\ [SessionNext]_sessionVars => SessionInv'
  <1> SUFFICES ASSUME SessionInv, [SessionNext]_sessionVars
               PROVE  SessionInv'
    OBVIOUS
  <1>1. CASE UNCHANGED sessionVars
    <2>1. wallet' = wallet
      BY <1>1 DEF sessionVars
    <2> QED
      BY <1>1, <2>1, SameWallet DEF SessionInv, sessionVars, PopupInv, VerdictInv, PageScheme,
         Covered
  <1>2. CASE AskWallet \/ ApprovePage \/ ApproveBuilder \/ Reject \/ Stamp
    BY <1>2, AskKeeps, ApprovePageKeeps, ApproveBuilderKeeps, RejectKeeps, StampKeeps
  <1>3. CASE \/ \E w \in Wallets : Connect(w)
             \/ \E k \in Keys : SwitchAccount(k)
             \/ \E chain \in Chains : VerifyOn(chain)
    BY <1>3, ConnectKeeps, SwitchKeeps, VerifyOnKeeps
  <1>4. CASE \E r \in PageRequests : Assemble(r)
    BY <1>4, AssembleKeeps
  <1>5. CASE \E id \in ChainIds, hash \in GenesisHashes, msg \in Messages :
               SignWithAdapter(WasmBuilder(id, hash, msg))
    BY <1>5, BuilderAsksKeeps
  <1> QED
    BY <1>1, <1>2, <1>3, <1>4, <1>5 DEF SessionNext

(* Every reachable state of a session satisfies the inductive invariant.   *)
THEOREM SessionInvariant == SessionSpec => []SessionInv
  <1>1. SessionInit => SessionInv
    BY DEF SessionInit, SessionInv, PopupInv, VerdictInv
  <1> QED
    BY <1>1, SessionNextKeeps, PTL DEF SessionSpec

-----------------------------------------------------------------------------
(* Only what was asked for is admitted. *)

(* The one signature of an admitted transaction is by the key it presents,  *)
(* over a preimage of its parts, with its nonce.                            *)
LEMMA AdmittedBinds ==
  ASSUME SessionInv, Admitted
  PROVE  LET tx == admission.sent.tx
             doc == tx.signatures[1].over
             chain == admission.chain
         IN
         /\ MadeBySession(admission.sent) /\ chain \in Chains
         /\ tx.signatures[1].key = tx.auth_info.signer_infos[1].public_key.value.key
         /\ doc.body_bytes = Encode(tx.body) /\ doc.auth_info_bytes = Encode(tx.auth_info)
         /\ doc.chain_id = chain.chain_id /\ doc.account_number = chain.account_number
         /\ doc.genesis_hash # chain.genesis_hash =>
              doc.genesis_hash = None /\ chain.fork_version < GenesisFork
         /\ doc.nonce = tx.nonce
         /\ ~ VacuousBinding(tx.nonce, chain)
  <1> DEFINE tx == admission.sent.tx
             chain == admission.chain
             infos == tx.auth_info.signer_infos
             stx == Decode(Encode(tx))
  <1>1. /\ MadeBySession(admission.sent) /\ chain \in Chains
        /\ VerifySignedTx(stx, chain, 0).error = "Ok"
    BY DEF SessionInv, VerdictInv, Admitted
  <1>2. (\E si : infos = <<si>>) /\ tx.signatures[1].over.nonce \in Nonces
    BY <1>1 DEF MadeBySession
  <1>3. DOMAIN infos = {1} /\ {1} \subseteq Nat
    BY <1>2
  <1>4. stx.tx = tx
    BY DEF Decode, Encode
  <1> DEFINE doc == tx.signatures[1].over
  <1> HIDE DEF tx, chain
  <1>5. /\ tx.signatures[1].key = infos[1].public_key.value.key
        /\ doc.body_bytes = Encode(tx.body) /\ doc.auth_info_bytes = Encode(tx.auth_info)
        /\ doc.chain_id = chain.chain_id /\ doc.account_number = chain.account_number
        /\ doc.genesis_hash # chain.genesis_hash =>
             doc.genesis_hash = None /\ chain.fork_version < GenesisFork
        /\ doc.nonce # tx.nonce => doc.nonce = None
    BY <1>1, <1>3, EverySignerBinds
  <1>6. ~ VacuousBinding(tx.nonce, chain)
    BY <1>1, <1>3, <1>4, EverySignerChecked
  <1>7. doc.nonce = tx.nonce
    BY <1>2, <1>5, TxBuilderAssumption
  <1> QED
    BY <1>1, <1>5, <1>6, <1>7 DEF tx, chain

(* Whatever a page mixes of assemblies, accounts and late signatures, what  *)
(* a chain admits is what the wallet was asked to sign, nonce included,     *)
(* under the key that signed (build_sign_doc against verify_signed_tx).     *)
THEOREM OneAssembly == SessionSpec => []AdmittedIsOneAssembly
  <1>1. SessionInv => AdmittedIsOneAssembly
    <2> SUFFICES ASSUME SessionInv, Admitted
                 PROVE  LET tx == admission.sent.tx  doc == tx.signatures[1].over IN
                        /\ doc.nonce = tx.nonce
                        /\ doc.body_bytes = Encode(tx.body)
                        /\ doc.auth_info_bytes = Encode(tx.auth_info)
                        /\ tx.auth_info.signer_infos[1].public_key.value.key
                             = tx.signatures[1].key
                        /\ admission.sent.asked # None => tx = admission.sent.asked.tx
      BY DEF AdmittedIsOneAssembly
    <2> DEFINE tx == admission.sent.tx
               answer == tx.signatures[1]
               asked == admission.sent.asked
               made == BuildSignDoc(asked.request)
    <2>1. /\ MadeBySession(admission.sent)
          /\ answer.key = tx.auth_info.signer_infos[1].public_key.value.key
          /\ answer.over.body_bytes = Encode(tx.body)
          /\ answer.over.auth_info_bytes = Encode(tx.auth_info)
          /\ answer.over.nonce = tx.nonce
      BY AdmittedBinds
    <2>2. ASSUME asked # None
          PROVE  tx = asked.tx
      <3>1. /\ asked.request \in Requests /\ answer.over = made.sign_doc
            /\ asked.tx = StampedTx(made, answer) /\ tx.signatures = <<answer>>
        BY <2>1, <2>2 DEF MadeBySession, SignedBySession, Assembled
      <3>2. Covered(made)
        BY <3>1, AssemblyCovered
      <3> HIDE DEF made, answer
      <3>3. /\ made.body_bytes = Encode(tx.body)
            /\ made.auth_info_bytes = Encode(tx.auth_info) /\ made.nonce = tx.nonce
        BY <2>1, <3>1, <3>2 DEF Covered
      <3>4. /\ made.body_bytes.bytes = tx.body
            /\ made.auth_info_bytes.bytes = tx.auth_info
        BY <3>3 DEF Encode
      <3>5. asked.tx = [body |-> tx.body, auth_info |-> tx.auth_info,
                        signatures |-> tx.signatures, nonce |-> tx.nonce]
        BY <3>1, <3>3, <3>4 DEF StampedTx
      <3>6. tx = [body |-> tx.body, auth_info |-> tx.auth_info,
                  signatures |-> tx.signatures, nonce |-> tx.nonce]
        BY <2>1 DEF MadeBySession
      <3> QED
        BY <3>5, <3>6
    <2> QED
      BY <2>1, <2>2
  <1> QED
    BY <1>1, SessionInvariant, PTL

(* A genesis hash given to buildSignDocBytes ties the transaction to one    *)
(* chain; without one no chain past the fork admits it (build_sign_doc,     *)
(* accepted_preimages).                                                     *)
THEOREM AssemblyBindsChain == SessionSpec => []AssembledBindsChain
  <1>1. SessionInv => AssembledBindsChain
    <2> SUFFICES ASSUME SessionInv, Admitted, admission.sent.route = "page"
                 PROVE  LET r == admission.sent.asked.request IN
                        /\ r.chain_id = admission.chain.chain_id
                        /\ r.account_number = admission.chain.account_number
                        /\ IF r.genesis_hash = None
                           THEN admission.chain.fork_version < GenesisFork
                           ELSE r.genesis_hash = admission.chain.genesis_hash
      BY DEF AssembledBindsChain
    <2> DEFINE tx == admission.sent.tx
               doc == tx.signatures[1].over
               chain == admission.chain
               r == admission.sent.asked.request
    <2>1. /\ MadeBySession(admission.sent) /\ chain \in Chains
          /\ doc.chain_id = chain.chain_id /\ doc.account_number = chain.account_number
          /\ doc.genesis_hash # chain.genesis_hash =>
               doc.genesis_hash = None /\ chain.fork_version < GenesisFork
          /\ ~ VacuousBinding(tx.nonce, chain)
      BY AdmittedBinds
    <2>2. doc = BuildSignDoc(r).sign_doc
      BY <2>1 DEF MadeBySession, SignedBySession
    <2>3. /\ doc.chain_id = r.chain_id /\ doc.account_number = r.account_number
          /\ doc.genesis_hash = r.genesis_hash
      BY <2>2 DEF BuildSignDoc, CanonicalSignDoc
    <2>4. chain.genesis_hash = None => chain.fork_version < GenesisFork
      BY <2>1, WalletSessionAssumption, TxVerifierAssumption DEF VacuousBinding
    <2> HIDE DEF doc, chain, r
    <2> QED
      BY <2>1, <2>3, <2>4 DEF chain, r
  <1> QED
    BY <1>1, SessionInvariant, PTL

-----------------------------------------------------------------------------
(* No false refusal. *)

(* The key an honest request presents is read back as the variant whose     *)
(* convention its wallet follows.                                           *)
LEMMA RequestKeyParsed ==
  ASSUME NEW r \in Requests, NEW url, NEW len, NEW kind, <<url, len, kind>> \in ParsedKind,
         RequestSignerInfo(r).public_key.url = url, r.signer_key.len = len
  PROVE  FromProtoAny(RequestSignerInfo(r).public_key) = [kind |-> kind, key |-> r.signer_key.key]
  <1> DEFINE any == RequestSignerInfo(r).public_key
             matches == {p \in ParsedKind : p[1] = any.url /\ p[2] = any.value.len}
  <1>1. any.url = url /\ any.value = r.signer_key
    BY DEF RequestSignerInfo
  <1>2. matches = {<<url, len, kind>>}
    BY <1>1 DEF ParsedKind
  <1>3. FromProtoAny(any) =
          IF matches = {} THEN None
          ELSE [kind |-> (CHOOSE p \in matches : TRUE)[3], key |-> any.value.key]
    BY DEF FromProtoAny
  <1> HIDE DEF matches, any
  <1>4. FromProtoAny(any) = [kind |-> kind, key |-> r.signer_key.key]
    BY <1>1, <1>2, <1>3
  <1> QED
    BY <1>4 DEF any

(* The verifier knows what an honest request's wallet does. *)
LEMMA HonestSignatureAccepted ==
  ASSUME wallet # None, NEW r \in Requests, HonestMode(r),
         r.chain_type = ChainType(WalletType(wallet)), r.signer_key.len = PageKey.len,
         NEW answer, answer.scheme = PageScheme.scheme, answer.len = PageScheme.len,
         answer.key = r.signer_key.key
  PROVE  LET pubkey == FromProtoAny(RequestSignerInfo(r).public_key) IN
         /\ pubkey \in PublicKeys
         /\ VerifySignature(pubkey, answer.over, answer, r.sign_mode) = "Ok"
  <1> DEFINE pubkey == FromProtoAny(RequestSignerInfo(r).public_key)
  <1>1. r.signer_key.key \in Keys
    BY DEF Requests, Bytes
  <1>2. \E a \in Supported : /\ a.kind = pubkey.kind /\ a.mode = r.sign_mode
                             /\ answer.scheme = a.scheme /\ answer.len \in a.lens
                             /\ pubkey = [kind |-> a.kind, key |-> r.signer_key.key]
                             /\ a.kind \in KeyKinds
    <2>1. CASE r.chain_type = ChainType("Evm") /\ r.sign_mode = "Eip191Personal"
      <3> DEFINE a == [kind |-> "EvmAddress", mode |-> "Eip191Personal",
                       scheme |-> "eip191", lens |-> {65}]
      <3>1. wallet = "MetaMask"
        BY <2>1 DEF ChainType, WalletType
      <3>2. RequestSignerInfo(r).public_key.url = "secp256k1" /\ r.signer_key.len = 20
        BY <2>1, <3>1 DEF RequestSignerInfo, KeyTypeUrl, PageKey
      <3>3. <<"secp256k1", 20, "EvmAddress">> \in ParsedKind
        BY DEF ParsedKind
      <3>4. pubkey = [kind |-> "EvmAddress", key |-> r.signer_key.key]
        BY <3>2, <3>3, RequestKeyParsed
      <3>5. answer.scheme = "eip191" /\ answer.len = 65
        BY <3>1 DEF PageScheme
      <3>6. a \in Supported /\ a.kind \in KeyKinds
        BY DEF Supported, KeyKinds
      <3> HIDE DEF pubkey
      <3> QED
        BY <2>1, <3>4, <3>5, <3>6
    <2>2. CASE r.chain_type = ChainType("Solana") /\ r.sign_mode = "SolanaOffchain"
      <3> DEFINE a == [kind |-> "Ed25519", mode |-> "SolanaOffchain",
                       scheme |-> "ed25519-hex", lens |-> {64}]
      <3>1. wallet = "Phantom"
        BY <2>2 DEF ChainType, WalletType
      <3>2. RequestSignerInfo(r).public_key.url = "ed25519" /\ r.signer_key.len = 32
        BY <2>2, <3>1 DEF RequestSignerInfo, KeyTypeUrl, PageKey, ChainType
      <3>3. <<"ed25519", 32, "Ed25519">> \in ParsedKind
        BY DEF ParsedKind
      <3>4. pubkey = [kind |-> "Ed25519", key |-> r.signer_key.key]
        BY <3>2, <3>3, RequestKeyParsed
      <3>5. answer.scheme = "ed25519-hex" /\ answer.len = 64
        BY <3>1 DEF PageScheme
      <3>6. a \in Supported /\ a.kind \in KeyKinds
        BY DEF Supported, KeyKinds
      <3> HIDE DEF pubkey
      <3> QED
        BY <2>2, <3>4, <3>5, <3>6
    <2> QED
      BY <2>1, <2>2 DEF HonestMode
  <1> HIDE DEF pubkey
  <1>3. pubkey \in PublicKeys
    BY <1>1, <1>2 DEF PublicKeys
  <1>4. VerifySignature(pubkey, answer.over, answer, r.sign_mode) = "Ok"
    BY <1>2 DEF VerifySignature
  <1> QED
    BY <1>3, <1>4 DEF pubkey

(* What MetaMask or Phantom signed of one assembly, in the mode that says   *)
(* how, is admitted by the chain it names at every fork version             *)
(* (buildSignDocBytes, build_sign_doc against verify_signed_tx).            *)
THEOREM AssemblyVerifies == SessionSpec => []AssembledVerifies
  <1>1. SessionInv => AssembledVerifies
    <2> SUFFICES ASSUME SessionInv, admission # None, admission.sent.route = "page",
                        NEW r, r = admission.sent.asked.request,
                        admission.sent.tx = admission.sent.asked.tx,
                        HonestMode(r),
                        admission.sent.tx.signatures[1].key = r.signer_key.key,
                        r.genesis_hash # None,
                        r.chain_id = admission.chain.chain_id,
                        r.account_number = admission.chain.account_number,
                        r.genesis_hash = admission.chain.genesis_hash
                 PROVE  admission.result.error = "Ok"
      BY DEF AssembledVerifies
    <2> DEFINE tx == admission.sent.tx
               stx == Decode(Encode(tx))
               chain == admission.chain
               answer == tx.signatures[1]
               made == BuildSignDoc(r)
               si == RequestSignerInfo(r)
               pubkey == FromProtoAny(si.public_key)
    <2>1. /\ wallet # None /\ MadeBySession(admission.sent)
          /\ admission.result = VerifySignedTx(stx, chain, 0)
      BY DEF SessionInv, VerdictInv
    <2>2. /\ r \in Requests /\ r.chain_type = ChainType(WalletType(wallet))
          /\ r.signer_key.len = PageKey.len
          /\ answer.over = made.sign_doc /\ answer.scheme = PageScheme.scheme
          /\ answer.len = PageScheme.len /\ tx = StampedTx(made, answer)
      BY <2>1 DEF MadeBySession, SignedBySession, Assembled
    <2>3. pubkey \in PublicKeys /\ VerifySignature(pubkey, answer.over, answer, r.sign_mode) = "Ok"
      BY <2>1, <2>2, HonestSignatureAccepted
    <2>4. r.nonce \in Nonces /\ r.nonce # None
      BY <2>2, TxBuilderAssumption DEF Requests
    <2>5. /\ tx.body = RequestBody(r) /\ tx.auth_info = RequestAuthInfo(r)
          /\ tx.signatures = <<answer>> /\ tx.nonce = r.nonce
      <3> HIDE DEF tx, answer
      <3> QED
        BY <2>2 DEF StampedTx, BuildSignDoc, Encode
    <2>6. stx.tx = tx /\ BodyBytes(stx) = Encode(tx.body) /\ AuthInfoBytes(stx) = Encode(tx.auth_info)
      BY DEF Decode, Encode, BodyBytes, AuthInfoBytes
    <2>7. /\ si.public_key \in KeyAnys /\ si.mode = r.sign_mode /\ r.sign_mode \in SignModes
          /\ si.signing_options = None /\ si \in SignerInfos
      <3>1. r.chain_type \in Nat
        BY <2>2 DEF Requests, ChainType
      <3> QED
        BY <2>2, <3>1 DEF RequestSignerInfo, KeyTypeUrl, KeyAnys, KeyUrls, Requests, SignerInfos
    <2> HIDE DEF si
    <2>8. /\ RequestBody(r) \in Bodies
          /\ RequestAuthInfo(r) \in AuthInfos /\ RequestAuthInfo(r).signer_infos = <<si>>
      BY <2>2, <2>7 DEF Requests, RequestBody, RequestAuthInfo, Bodies, AuthInfos, si
    <2>9. answer.over \in AcceptedPreimages(BodyBytes(stx), AuthInfoBytes(stx),
                                            chain.account_number, stx.tx.nonce, chain)
      <3>1. answer.over = CanonicalSignDoc(Encode(tx.body), Encode(tx.auth_info), chain.chain_id,
                                           chain.account_number, chain.genesis_hash, tx.nonce)
        BY <2>2, <2>5 DEF BuildSignDoc
      <3> HIDE DEF tx, chain, answer, stx
      <3> QED
        BY <2>6, <3>1 DEF AcceptedPreimages
    <2>10. ClaimError(si, pubkey, stx.tx.nonce, 0) = "Ok"
      BY <2>7 DEF ClaimError, ClaimOf
    <2>11. ExtractSignMode(si) = r.sign_mode
      BY <2>7 DEF ExtractSignMode
    <2>12. ~ VacuousBinding(stx.tx.nonce, chain)
      BY <2>4, <2>5, <2>6 DEF VacuousBinding
    <2> HIDE DEF stx, chain, answer, pubkey, tx
    <2>13. /\ stx.tx.auth_info.signer_infos = <<si>> /\ stx.tx.signatures = <<answer>>
           /\ stx.tx.body # None /\ stx.tx.auth_info # None
           /\ si.public_key # None /\ pubkey # None
      BY <2>3, <2>5, <2>6, <2>7, <2>8, TxVerifierAssumption
    <2>14. VerifySignature(pubkey, answer.over, answer, ExtractSignMode(si)) = "Ok"
      BY <2>3, <2>11
    <2>15. VerifySignedTx(stx, chain, 0).error = "Ok"
      BY <2>9, <2>10, <2>12, <2>13, <2>14, OneSignerPasses DEF pubkey
    <2> QED
      BY <2>1, <2>15 DEF stx, chain, tx
  <1> QED
    BY <1>1, SessionInvariant, PTL

(* For a 32-byte Ed25519 key and the same inputs, the assembled preimage is *)
(* the SignDoc TxBuilder::sign covers (build_sign_doc against sign).        *)
THEOREM SamePreimage == SessionSpec => []PreimageAgreesWithBuilder
  <1>1. SessionInv => PreimageAgreesWithBuilder
    <2> SUFFICES ASSUME SessionInv, parts # None, NEW r, r = parts.request,
                        r.chain_type = ChainType("Solana"),
                        r.sign_mode = DefaultSignMode("Solana")
                 PROVE  parts.built.sign_doc = SignDoc(NativeBuilder(r), r.nonce)
      BY DEF PreimageAgreesWithBuilder
    <2> DEFINE b == NativeBuilder(r)
    <2>1. /\ r \in Requests /\ parts.built = BuildSignDoc(r)
          /\ r.chain_type = ChainType(WalletType(wallet)) /\ r.signer_key.len = PageKey.len
      BY DEF SessionInv, Assembled
    <2>2. /\ b.signer = [kind |-> "Solana", key |-> r.signer_key.key, agent_id |-> None,
                         claim |-> None]
          /\ b.chain_id = r.chain_id /\ b.genesis_hash = r.genesis_hash
          /\ b.account_number = r.account_number /\ b.messages = <<r.message>>
          /\ b.body_fields = r.body_fields /\ b.auth_fields = r.auth_fields
          /\ b.trading_key_claim = None /\ b.trading_key_address = None
      BY DEF NativeBuilder, NewBuilder
    <2>3. r.signer_key = [len |-> 32, key |-> r.signer_key.key]
      <3>1. wallet = "Phantom"
        BY <2>1 DEF ChainType, WalletType
      <3>2. r.signer_key \in Bytes /\ r.signer_key.len = 32
        BY <2>1, <3>1 DEF Requests, PageKey
      <3> QED
        BY <3>2 DEF Bytes
    <2> HIDE DEF b
    <2>4. Body(b) = RequestBody(r)
      BY <2>2 DEF Body, RequestBody
    <2>5. ToProtoAny(SignerPublicKey(b.signer)) = [url |-> "ed25519", value |-> r.signer_key]
      <3>1. SignerPublicKey(b.signer) = [kind |-> "Ed25519", key |-> r.signer_key.key]
        BY <2>2 DEF SignerPublicKey
      <3> QED
        BY <2>3, <3>1 DEF ToProtoAny, TypeUrl, ToProtoBytes
    <2>6. KeyTypeUrl(r.chain_type) = "ed25519"
      <3>1. ChainType("Solana") = 2 /\ ChainType("Evm") = 1
        BY DEF ChainType
      <3> QED
        BY <3>1 DEF KeyTypeUrl
    <2>7. /\ SignerMode(b.signer) = r.sign_mode /\ ChainType(b.signer.kind) = r.chain_type
          /\ TradingKeyAddress(b) = None
      <3>1. b.signer.kind = "Solana"
        BY <2>2
      <3> QED
        BY <2>2, <3>1 DEF SignerMode, TradingKeyAddress
    <2>8. SignerInfo(b) = RequestSignerInfo(r)
      BY <2>2, <2>5, <2>6, <2>7 DEF SignerInfo, RequestSignerInfo
    <2>9. AuthInfo(b) = RequestAuthInfo(r)
      BY <2>8 DEF AuthInfo, RequestAuthInfo
    <2>10. b.account_number # None
      BY <2>1, <2>2, TxBuilderAssumption DEF Requests
    <2> QED
      BY <2>1, <2>2, <2>4, <2>9, <2>10 DEF SignDoc, BuildSignDoc, b
  <1> QED
    BY <1>1, SessionInvariant, PTL

-----------------------------------------------------------------------------
(* The session's adapter and the contract of adapters. *)

(* A request that an adapter made of a wallet asks for 64 bytes. *)
UseInv ==
  /\ wallet # None => wallet \in {"MetaMask", "Phantom", "Taproot"}
  /\ popup # None /\ popup.route = "builder" => popup.len = 64

LEMMA UseStep == UseInv /\ [SessionNext]_sessionVars => UseInv'
  <1> SUFFICES ASSUME UseInv, [SessionNext]_sessionVars
               PROVE  UseInv'
    OBVIOUS
  <1>1. ASSUME NEW w \in Wallets, Connect(w)
        PROVE  UseInv'
    BY <1>1, WalletSessionAssumption DEF UseInv, Connect
  <1>2. CASE AskWallet
    BY <1>2 DEF UseInv, AskWallet
  <1>3. ASSUME NEW b, SignWithAdapter(b)
        PROVE  UseInv'
    <2>1. popup'.len = 64 /\ wallet' = wallet
      BY <1>3 DEF SignWithAdapter
    <2> QED
      BY <2>1 DEF UseInv
  <1>4. CASE ApprovePage \/ ApproveBuilder \/ Reject
    BY <1>4 DEF UseInv, ApprovePage, ApproveBuilder, Reject
  <1>5. CASE \/ \E k \in Keys : SwitchAccount(k)
             \/ \E r \in PageRequests : Assemble(r)
             \/ \E chain \in Chains : VerifyOn(chain)
             \/ Stamp \/ UNCHANGED sessionVars
    <2>1. UNCHANGED <<wallet, popup>>
      BY <1>5 DEF SwitchAccount, Assemble, VerifyOn, Stamp, sessionVars
    <2> QED
      BY <2>1 DEF UseInv
  <1> QED
    BY <1>1, <1>2, <1>3, <1>4, <1>5 DEF SessionNext

LEMMA UseInvariant == SessionSpec => []UseInv
  <1>1. SessionInit => UseInv
    BY DEF SessionInit, UseInv
  <1> QED
    BY <1>1, UseStep, PTL DEF SessionSpec

LEMMA ConnectUses ==
  ASSUME SessionInv, NEW w \in Wallets, Connect(w)
  PROVE  [Adapter!AdapterNext]_(Adapter!adapterVars)
  <1>1. /\ wallet' = w /\ connected' = active /\ active' = active
        /\ Holder = Adapter!Unconnected /\ AdapterAnswer' = AdapterAnswer
    BY DEF Connect, Holder, AdapterAnswer, Adapter!Unconnected
  <1>2. CASE w = None
    <2>1. Holder' = Holder
      BY <1>1, <1>2 DEF Holder, Adapter!Unconnected
    <2> QED
      BY <1>1, <2>1 DEF Adapter!adapterVars
  <1>3. CASE w # None
    <2>1. Holder' = [wallet |-> w, key |-> active]
      BY <1>1, <1>3 DEF Holder
    <2>2. w \in {"MetaMask", "Phantom", "Taproot"}
      BY WalletSessionAssumption
    <2> QED
      BY <1>1, <2>1, <2>2 DEF Adapter!AdapterNext, Adapter!Connect
  <1> QED
    BY <1>2, <1>3

(* The account a wallet signs a request with is the one the contract names. *)
LEMMA ApproveUses ==
  ASSUME SessionInv, UseInv, ApproveBuilder
  PROVE  Adapter!AdapterNext
  <1> DEFINE answer == WalletSignature(popup)
  <1>1. /\ wallet # None /\ wallet \in {"MetaMask", "Phantom", "Taproot"}
        /\ popup.len = 64 /\ wallet' = wallet /\ connected' = connected /\ active' = active
        /\ sent' = [tx |-> StampedTx(popup.of, answer), route |-> "builder", asked |-> None]
    BY DEF ApproveBuilder, SessionInv, UseInv
  <1>2. Holder = [wallet |-> wallet, key |-> connected] /\ Holder' = Holder
    BY <1>1 DEF Holder
  <1>3. answer.len = 64 /\ answer.key = Adapter!SignedBy
    BY <1>1, <1>2 DEF WalletSignature, Adapter!SignedBy
  <1> HIDE DEF answer
  <1>4. sent'.tx.signatures[1] = answer /\ sent'.route = "builder"
    BY <1>1 DEF StampedTx
  <1>5. CASE sent' = None
    <2>1. AdapterAnswer' = Adapter!NoSignature
      BY <1>5 DEF AdapterAnswer, Adapter!NoSignature
    <2> QED
      BY <1>1, <1>2, <2>1 DEF Adapter!AdapterNext, Adapter!Fail
  <1>6. CASE sent' # None
    <2>1. AdapterAnswer' = [what |-> "signature", len |-> 64, key |-> Adapter!SignedBy]
      BY <1>3, <1>4, <1>6 DEF AdapterAnswer
    <2>2. Holder # Adapter!Unconnected
      BY <1>1, <1>2 DEF Adapter!Unconnected
    <2> QED
      BY <1>1, <1>2, <2>1, <2>2 DEF Adapter!AdapterNext, Adapter!Sign
  <1> QED
    BY <1>5, <1>6

LEMMA SessionStepUses ==
  SessionInv /\ UseInv /\ [SessionNext]_sessionVars
    => [Adapter!AdapterNext]_(Adapter!adapterVars)
  <1> SUFFICES ASSUME SessionInv, UseInv, [SessionNext]_sessionVars
               PROVE  [Adapter!AdapterNext]_(Adapter!adapterVars)
    OBVIOUS
  <1>1. ASSUME UNCHANGED <<active, wallet, connected, sent>>
        PROVE  [Adapter!AdapterNext]_(Adapter!adapterVars)
    BY <1>1 DEF Holder, AdapterAnswer, Adapter!adapterVars
  <1>2. ASSUME NEW w \in Wallets, Connect(w)
        PROVE  [Adapter!AdapterNext]_(Adapter!adapterVars)
    BY <1>2, ConnectUses
  <1>3. ASSUME NEW k \in Keys, SwitchAccount(k)
        PROVE  [Adapter!AdapterNext]_(Adapter!adapterVars)
    BY <1>3 DEF SwitchAccount, Holder, AdapterAnswer, Adapter!AdapterNext, Adapter!Select
  <1>4. CASE ApproveBuilder
    BY <1>4, ApproveUses
  <1>5. CASE Stamp
    <2>1. sent = None /\ sent'.route = "page" /\ UNCHANGED <<active, wallet, connected>>
      BY <1>5 DEF Stamp
    <2>2. AdapterAnswer' = AdapterAnswer /\ Holder' = Holder
      BY <2>1 DEF AdapterAnswer, Holder
    <2> QED
      BY <2>1, <2>2 DEF Adapter!adapterVars
  <1>6. CASE \/ \E r \in PageRequests : Assemble(r)
             \/ AskWallet \/ ApprovePage \/ Reject
             \/ \E chain \in Chains : VerifyOn(chain)
             \/ UNCHANGED sessionVars
    BY <1>1, <1>6 DEF Assemble, AskWallet, ApprovePage, Reject, VerifyOn, sessionVars
  <1>7. CASE \E id \in ChainIds, hash \in GenesisHashes, msg \in Messages :
               SignWithAdapter(WasmBuilder(id, hash, msg))
    BY <1>1, <1>7 DEF SignWithAdapter
  <1> QED
    BY <1>2, <1>3, <1>4, <1>5, <1>6, <1>7 DEF SessionNext

(* Whatever a page does between them, the steps of a session that concern   *)
(* the adapter are steps of AdapterContract, the contract that              *)
(* AdaptersImplementation shows of the adapters' code (WasmSigner over      *)
(* connect() and sign_impl).                                                *)
THEOREM SessionUsesAdapters == SessionSpec => UsesAdapterContract
  <1>1. SessionInit => Adapter!AdapterInit
    BY DEF SessionInit, Holder, AdapterAnswer, Adapter!AdapterInit, Adapter!Unconnected,
       Adapter!NoSignature
  <1> QED
    BY <1>1, SessionInvariant, UseInvariant, SessionStepUses, PTL
       DEF SessionSpec, UsesAdapterContract, Adapter!AdapterSpec

=============================================================================
