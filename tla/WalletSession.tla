---------------------------- MODULE WalletSession ---------------------------
(***************************************************************************)
(* A browser page, the wallet injected into it and the chains it submits   *)
(* to.  The page signs in one of two ways: it assembles a preimage with    *)
(* buildSignDocBytes (bindings.rs, preimage.rs), has the wallet sign it    *)
(* and stamps the parts onto a Tx; or it drives a TxBuilderWasm, whose     *)
(* WasmSigner is an adapter to the wallet (wasm-lib).                      *)
(*                                                                         *)
(* The wallet answers whenever its user does.  Meanwhile the user may      *)
(* switch to another account, and a page that has tired of waiting may     *)
(* assemble again; a signature that comes late is then one over parts the  *)
(* page no longer holds.  A session ends with the transaction it makes.    *)
(***************************************************************************)
EXTENDS SignDocAssembly

CONSTANTS
  Wallets,       \* wallets a page may connect to, of {"MetaMask", "Phantom", "Taproot"}
  PageNonces,    \* nonces pages ask for
  PageModes,     \* sign modes pages ask for
  Chains         \* chain contexts, as in SigningSystem

ASSUME WalletSessionAssumption ==
  /\ Wallets \subseteq {"MetaMask", "Phantom", "Taproot"}
  /\ PageNonces \subseteq Nonces
  /\ PageModes \subseteq SignModes
  /\ \A chain \in Chains : chain.fork_version \in Nat

VARIABLES
  active,      \* the account the wallet's user has selected (external)
  wallet,      \* the wallet the page connected to
  connected,   \* the key the adapter or the page read when it connected
  parts,       \* what the page last assembled, with its request
  popup,       \* the signing request the wallet's user is looking at
  signature,   \* the last signature the page got, with the parts it was asked for
  sent,        \* the transaction the page made; asked is what it had asked for
  admission    \* the last verification a chain made

sessionVars == <<active, wallet, connected, parts, popup, signature, sent, admission>>

SessionInit ==
  /\ active \in Keys
  /\ wallet = None /\ connected = None /\ parts = None /\ popup = None
  /\ signature = None /\ sent = None /\ admission = None

-----------------------------------------------------------------------------
(* Wallets. *)

WalletType(w) ==
  CASE w = "MetaMask" -> "Evm" [] w = "Phantom" -> "Solana" [] OTHER -> "Bitcoin"

(* adapter.connect(): the key (or, from MetaMask, its address) is cached    *)
(* for good.                                                               *)
Connect(w) ==
  /\ wallet = None
  /\ wallet' = w /\ connected' = active
  /\ UNCHANGED <<active, parts, popup, signature, sent, admission>>

SwitchAccount(k) ==
  /\ k # active /\ sent = None
  /\ active' = k
  /\ UNCHANGED <<wallet, connected, parts, popup, signature, sent, admission>>

(* What the wallet makes of the bytes it is handed: MetaMask is told which *)
(* address signs, the others sign with the account selected now.           *)
WalletSignature(request) ==
  [scheme |-> request.scheme, len |-> request.len,
   key |-> IF wallet = "MetaMask" THEN connected ELSE active,
   over |-> request.doc]

-----------------------------------------------------------------------------
(* The page over buildSignDocBytes. *)

(* signerAddress: an EVM address has 20 bytes, the other keys 32. *)
PageKey == [len |-> IF wallet = "MetaMask" THEN 20 ELSE 32, key |-> connected]

Assemble(r) ==
  /\ wallet # None /\ sent = None
  /\ r.signer_key = PageKey /\ r.chain_type = ChainType(WalletType(wallet))
  /\ parts' = [request |-> r, built |-> BuildSignDoc(r)]
  /\ UNCHANGED <<active, wallet, connected, popup, signature, sent, admission>>

(* personal_sign over the preimage, signMessage over its hex, and Unisat's *)
(* signMessage.                                                            *)
PageScheme ==
  CASE wallet = "MetaMask" -> [scheme |-> "eip191", len |-> 65]
    [] wallet = "Phantom"  -> [scheme |-> "ed25519-hex", len |-> 64]
    [] OTHER               -> [scheme |-> "bip322", len |-> 64]

AskWallet ==
  /\ parts # None /\ popup = None /\ sent = None
  /\ popup' = [route |-> "page", doc |-> parts.built.sign_doc, of |-> parts,
               scheme |-> PageScheme.scheme, len |-> PageScheme.len]
  /\ UNCHANGED <<active, wallet, connected, parts, signature, sent, admission>>

(* The page stamps the parts it holds with the signature it holds. *)
Stamp ==
  /\ parts # None /\ signature # None /\ sent = None
  /\ sent' = [tx |-> StampedTx(parts.built, signature.signature),
              route |-> "page",
              asked |-> [request |-> signature.of.request,
                         tx |-> StampedTx(signature.of.built, signature.signature)]]
  /\ UNCHANGED <<active, wallet, connected, parts, popup, signature, admission>>

-----------------------------------------------------------------------------
(* The page over TxBuilderWasm. *)

WasmSigner == [kind |-> WalletType(wallet), key |-> connected,
               agent_id |-> None, claim |-> None]

(* WasmSigner::public_key_proto: MetaMask presents its address. *)
AdapterKeyProto(b) ==
  IF b.signer.kind = "Evm"
  THEN [url |-> "secp256k1", value |-> [len |-> 20, key |-> b.signer.key]]
  ELSE ToProtoAny(SignerPublicKey(b.signer))

AdapterAuthInfo(b) ==
  [signer_infos |-> <<[SignerInfo(b) EXCEPT !.public_key = AdapterKeyProto(b)]>>]

AdapterParts(b, nonce) ==
  [sign_doc |-> [SignDoc(b, nonce) EXCEPT !.auth_info_bytes = Encode(AdapterAuthInfo(b))],
   body_bytes |-> Encode(Body(b)), auth_info_bytes |-> Encode(AdapterAuthInfo(b)),
   nonce |-> nonce]

(* sign_impl of the adapters: EIP-712 over a hash of the SignDoc, less the *)
(* recovery byte; Ed25519 over a prefixed hash; BIP-322 over a hash in hex. *)
AdapterScheme ==
  CASE wallet = "MetaMask" -> "eip712"
    [] wallet = "Phantom"  -> "ed25519-prefixed-hash"
    [] OTHER               -> "bip322"

WasmBuilder(chain_id, hash, msg) ==
  AddMessage(WithGenesisHash(WithChainId(NewBuilder(WasmSigner), chain_id), hash), msg)

(* Mutant: the adapter connects anew for every signature. *)
SignWithAdapterReconnecting(b) ==
  /\ wallet # None /\ popup = None /\ sent = None
  /\ Precheck(b) = "Ok"
  /\ LET made == AdapterParts(b, LocalNonce(b)) IN
     popup' = [route |-> "builder", doc |-> made.sign_doc, of |-> made,
               scheme |-> AdapterScheme, len |-> 64]
  /\ connected' = active
  /\ UNCHANGED <<active, wallet, parts, signature, sent, admission>>

(* TxBuilderWasm.sign() up to the adapter: it exports no nonce setter, so  *)
(* the nonce is the default one.                                           *)
SignWithAdapter(b) ==
  /\ wallet # None /\ popup = None /\ sent = None
  /\ Precheck(b) = "Ok"
  /\ LET made == AdapterParts(b, LocalNonce(b)) IN
     popup' = [route |-> "builder", doc |-> made.sign_doc, of |-> made,
               scheme |-> AdapterScheme, len |-> 64]
  /\ UNCHANGED <<active, wallet, connected, parts, signature, sent, admission>>

-----------------------------------------------------------------------------
(* The user answers. *)

ApprovePage ==
  /\ popup # None /\ sent = None /\ popup.route = "page"
  /\ popup' = None
  /\ signature' = [signature |-> WalletSignature(popup), of |-> popup.of]
  /\ UNCHANGED <<active, wallet, connected, parts, sent, admission>>

(* sign() returns the transaction. *)
ApproveBuilder ==
  /\ popup # None /\ sent = None /\ popup.route = "builder"
  /\ popup' = None
  /\ sent' = [tx |-> StampedTx(popup.of, WalletSignature(popup)),
              route |-> "builder", asked |-> None]
  /\ UNCHANGED <<active, wallet, connected, parts, signature, admission>>

Reject ==
  /\ popup # None /\ sent = None
  /\ popup' = None
  /\ UNCHANGED <<active, wallet, connected, parts, signature, sent, admission>>

VerifyOn(chain) ==
  /\ sent # None
  /\ admission' = [sent |-> sent, chain |-> chain,
                   result |-> VerifySignedTx(Decode(Encode(sent.tx)), chain, 0)]
  /\ UNCHANGED <<active, wallet, connected, parts, popup, signature, sent>>

PageRequests ==
  [signer_key : {PageKey}, chain_type : {ChainType(WalletType(wallet))},
   sign_mode : PageModes, chain_id : ChainIds, account_number : AccountNumbers,
   genesis_hash : GenesisHashes \cup {None}, nonce : PageNonces,
   message : Messages, body_fields : BodyFields, auth_fields : AuthFields]

SessionNext ==
  \/ \E w \in Wallets : Connect(w)
  \/ \E k \in Keys : SwitchAccount(k)
  \/ \E r \in PageRequests : Assemble(r)
  \/ AskWallet \/ ApprovePage \/ ApproveBuilder \/ Reject \/ Stamp
  \/ \E id \in ChainIds, hash \in GenesisHashes, msg \in Messages :
       SignWithAdapter(WasmBuilder(id, hash, msg))
  \/ \E chain \in Chains : VerifyOn(chain)

SessionSpec == SessionInit /\ [][SessionNext]_sessionVars

-----------------------------------------------------------------------------
(* Properties. *)

Admitted == admission # None /\ admission.result.error = "Ok"

(* A page that was overtaken -- it assembled again while the wallet was    *)
(* still asking, or the user switched accounts -- never gets an admitted   *)
(* transaction out of the mixture: what is admitted is the transaction the *)
(* wallet was asked to sign, nonce included, under the key that signed it. *)
AdmittedIsOneAssembly ==
  Admitted =>
    LET tx == admission.sent.tx  signed_doc == tx.signatures[1].over IN
    /\ signed_doc.nonce = tx.nonce
    /\ signed_doc.body_bytes = Encode(tx.body)
    /\ signed_doc.auth_info_bytes = Encode(tx.auth_info)
    /\ tx.auth_info.signer_infos[1].public_key.value.key = tx.signatures[1].key
    /\ admission.sent.asked # None => tx = admission.sent.asked.tx

(* lib.rs:110, a genesisHash "stops a signature valid on one chain being   *)
(* replayed onto another": a transaction assembled with one is admitted by *)
(* no other chain, and one assembled without is admitted by no chain that  *)
(* requires the binding.                                                   *)
AssembledBindsChain ==
  Admitted /\ admission.sent.route = "page" =>
    LET r == admission.sent.asked.request IN
    /\ r.chain_id = admission.chain.chain_id
    /\ r.account_number = admission.chain.account_number
    /\ IF r.genesis_hash = None
       THEN admission.chain.fork_version < GenesisFork
       ELSE r.genesis_hash = admission.chain.genesis_hash

(* The mode under which the verifier knows what the wallet does. *)
HonestMode(r) ==
  \/ r.chain_type = ChainType("Evm") /\ r.sign_mode = "Eip191Personal"
  \/ r.chain_type = ChainType("Solana") /\ r.sign_mode = "SolanaOffchain"

(* No false refusal: what MetaMask or Phantom signed of one assembly, with *)
(* the account it was assembled for and the mode that says how, is         *)
(* admitted by the chain it names, whatever its fork version.              *)
AssembledVerifies ==
  admission # None /\ admission.sent.route = "page" =>
    LET r == admission.sent.asked.request IN
    /\ admission.sent.tx = admission.sent.asked.tx
    /\ HonestMode(r)
    /\ admission.sent.tx.signatures[1].key = r.signer_key.key
    /\ r.genesis_hash # None
    /\ r.chain_id = admission.chain.chain_id
    /\ r.account_number = admission.chain.account_number
    /\ r.genesis_hash = admission.chain.genesis_hash
    => admission.result.error = "Ok"

(* preimage.rs:167, "browser and native signers produce byte-identical     *)
(* preimages": for a 32-byte Ed25519 key and the same inputs the assembly  *)
(* is the SignDoc that TxBuilder::sign covers.                             *)
NativeBuilder(r) ==
  [NewBuilder([kind |-> "Solana", key |-> r.signer_key.key, agent_id |-> None,
               claim |-> None]) EXCEPT
     !.chain_id = r.chain_id, !.genesis_hash = r.genesis_hash,
     !.account_number = r.account_number, !.messages = <<r.message>>,
     !.body_fields = r.body_fields, !.auth_fields = r.auth_fields]

PreimageAgreesWithBuilder ==
  parts # None =>
    LET r == parts.request IN
    /\ r.chain_type = ChainType("Solana")
    /\ r.sign_mode = DefaultSignMode("Solana")
    => parts.built.sign_doc = SignDoc(NativeBuilder(r), r.nonce)

-----------------------------------------------------------------------------
(* What a session takes of an adapter. *)

Holder ==
  IF wallet = None THEN [wallet |-> "none"] ELSE [wallet |-> wallet, key |-> connected]

AdapterAnswer ==
  IF sent # None /\ sent.route = "builder"
  THEN [what |-> "signature", len |-> sent.tx.signatures[1].len,
        key |-> sent.tx.signatures[1].key]
  ELSE [what |-> "nothing"]

Adapter == INSTANCE AdapterContract
             WITH selected <- active, holder <- Holder, answer <- AdapterAnswer

(* The session does with an adapter what WalletAdapters shows the adapters *)
(* do: whatever else the page assembles, asks and stamps meanwhile, a      *)
(* transaction that sign() returns carries one whole signature of the      *)
(* account the contract allows.  (Sessions follow signatures only: bytes   *)
(* that mislead an adapter are WalletAdapters' matter.)                    *)
UsesAdapterContract == Adapter!AdapterSpec

-----------------------------------------------------------------------------
(* README.md:18, "Each signer produces the correct public_key protobuf     *)
(* type and SignMode automatically": a transaction that TxBuilderWasm      *)
(* signed with the connected account verifies on its own chain.            *)
AdapterSignedVerifies ==
  admission # None /\ admission.sent.route = "builder" =>
    LET signed_doc == admission.sent.tx.signatures[1].over IN
    /\ signed_doc.chain_id = admission.chain.chain_id
    /\ signed_doc.genesis_hash = admission.chain.genesis_hash
    /\ signed_doc.account_number = admission.chain.account_number
    /\ admission.sent.tx.signatures[1].key = connected
    => admission.result.error = "Ok"

=============================================================================
