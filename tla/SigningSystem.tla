---------------------------- MODULE SigningSystem ---------------------------
(***************************************************************************)
(* The signing side (TxSigning) and the chains that verify what it signs   *)
(* (TxVerifier), joined by the clock and by the ways a SignedTx travels.   *)
(*                                                                         *)
(* A SignedTx reaches a verifier as the object sign() returned, as the     *)
(* encoding of its Tx, or as raw_bytes, which is the encoding of its       *)
(* TxRaw.  A submitter that retries may stamp another nonce on the Tx it   *)
(* holds.  Any chain may be given any transaction, at any later time and   *)
(* any number of times.                                                    *)
(***************************************************************************)
EXTENDS TxSigning, TxVerifier

CONSTANTS
  Chains,       \* chain contexts [chain_id, genesis_hash, fork_version, account_number]
  RetryNonces   \* nonces a retrying submitter stamps

ASSUME SigningSystemAssumption == RetryNonces \subseteq Nonces

VARIABLES
  wire,        \* per call: how the transaction travels and what arrives
  admission    \* the last verification a chain made

systemVars == <<vars, wire, admission>>

Routes == {"Object", "TxBytes", "RawBytes", "Restamped"}

SystemInit ==
  /\ Init
  /\ wire = [c \in Calls |-> None]
  /\ admission = None

(* What arrives. *)
Arrives(c, route, stx) ==
  /\ outcome[c] = "Ok" /\ wire[c] = None
  /\ wire' = [wire EXCEPT ![c] = [route |-> route, stx |-> stx]]
  /\ UNCHANGED <<vars, admission>>

SubmitObject(c)   == Arrives(c, "Object", signed[c])
SubmitTxBytes(c)  == Arrives(c, "TxBytes", Decode(Encode(signed[c].tx)))
SubmitRawBytes(c) == Arrives(c, "RawBytes", Decode(Encode(TxOfRawBytes(signed[c].tx_raw))))

Resubmit(c, nonce) ==
  Arrives(c, "Restamped", Decode(Encode([signed[c].tx EXCEPT !.nonce = nonce])))

(* A chain verifies what arrived, against its own context and the clock. *)
VerifyOn(c, chain) ==
  /\ wire[c] # None
  /\ admission' = [call |-> c, chain |-> chain, at |-> now,
                   result |-> VerifySignedTx(wire[c].stx, chain, now)]
  /\ UNCHANGED <<vars, wire>>

SystemNext ==
  \/ (Next /\ UNCHANGED <<wire, admission>>)
  \/ \E c \in Calls :
       \/ SubmitObject(c) \/ SubmitTxBytes(c) \/ SubmitRawBytes(c)
       \/ \E nonce \in RetryNonces : Resubmit(c, nonce)
       \/ \E chain \in Chains : VerifyOn(c, chain)

SystemSpec == SystemInit /\ [][SystemNext]_systemVars

-----------------------------------------------------------------------------
(* Properties. *)

Verified == admission # None
Admitted == admission # None /\ admission.result.error = "Ok"

Author == builder[admission.call]

(* A transaction is admitted only by the chain instance it was signed for: *)
(* same chain id, same non-empty genesis hash, same account number -- also *)
(* by runtimes of a fork version that does not require the binding yet     *)
(* (step 0b of sign, accepted_preimages in verify_signed_tx).              *)
AdmittedBindsChain ==
  Admitted =>
    /\ admission.chain.chain_id = Author.chain_id
    /\ admission.chain.genesis_hash = Author.genesis_hash
    /\ admission.chain.genesis_hash # None
    /\ admission.chain.account_number =
         IF Author.account_number = None THEN 0 ELSE Author.account_number

(* The nonce a chain acts on is the nonce sign() resolved: a retry with    *)
(* another nonce is refused, on every fork version.                        *)
AdmittedNonceIsSigned ==
  Admitted => admission.result.nonce = draft[admission.call].nonce

(* An admitted transaction whose author's signer stores a claim reports    *)
(* that claim's terms, still in force at the moment of admission (it may   *)
(* have expired since sign() looked), and spends a nonce inside it.        *)
AdmittedClaimHolds ==
  Admitted /\ Author.signer.claim # None =>
    LET claim == admission.result.trading_key_claim IN
    /\ claim # None
    /\ ClaimProto(claim) = ClaimProto(Author.signer.claim)
    /\ claim.expiry > admission.at
    /\ SubInRange(claim, admission.result.nonce.sub)

(* Whether the runtime is the one the builder was configured for. *)
HomeChain(c, chain) ==
  /\ chain.chain_id = builder[c].chain_id
  /\ chain.genesis_hash = builder[c].genesis_hash
  /\ chain.account_number =
       IF builder[c].account_number = None THEN 0 ELSE builder[c].account_number

SelfIssuedOrNoClaim(c) ==
  builder[c].trading_key_claim = None
  \/ builder[c].trading_key_claim.issuer = ToAccountId(SignerPublicKey(builder[c].signer))

(* No false refusal: what a native, EVM, Solana or agent signer signed is   *)
(* admitted by its own chain at every fork version, as the object or as     *)
(* encoded Tx, unless its claim was issued by another account or has        *)
(* expired on the way; and the verifier reports the messages and the        *)
(* account of the signing key.                                              *)
SignedTxVerifies ==
  Verified =>
    LET c == admission.call IN
    /\ wire[c].route \in {"Object", "TxBytes"}
    /\ HomeChain(c, admission.chain)
    /\ builder[c].signer.kind # "Bitcoin"
    /\ SelfIssuedOrNoClaim(c)
    /\ (builder[c].trading_key_claim # None =>
          builder[c].trading_key_claim.expiry > admission.at)
    => /\ admission.result.error = "Ok"
       /\ admission.result.body.messages = builder[c].messages
       /\ admission.result.account_ids = <<ToAccountId(SignerPublicKey(builder[c].signer))>>

-----------------------------------------------------------------------------
(* What a signature commits its author to, what an admitting chain         *)
(* reports, and the contract between them.                                 *)

ClaimTerms(claim) == IF claim = None THEN None ELSE ClaimProto(claim)

ChainInstance(chain_id, genesis_hash, account_number) ==
  [chain_id |-> chain_id, genesis_hash |-> genesis_hash, account_number |-> account_number]

(* Read off the signed document alone. *)
CommittedBy(doc) ==
  LET si == doc.auth_info_bytes.bytes.signer_infos[1] IN
  [chain |-> ChainInstance(doc.chain_id, doc.genesis_hash, doc.account_number),
   nonce |-> doc.nonce,
   messages |-> doc.body_bytes.bytes.messages,
   account |-> ToAccountId(FromProtoAny(si.public_key)),
   claim |-> ClaimTerms(ClaimOf(si))]

Commitment(c) ==
  IF outcome[c] = "Ok"
  THEN [kind |-> "committed", to |-> CommittedBy(signed[c].tx.signatures[1].over)]
  ELSE [kind |-> "uncommitted"]

(* The chain's own identity and the VerifiedTx. *)
Report(chain, result) ==
  [chain |-> ChainInstance(chain.chain_id, chain.genesis_hash, chain.account_number),
   nonce |-> result.nonce,
   messages |-> result.body.messages,
   account |-> result.account_ids[1],
   claim |-> ClaimTerms(result.trading_key_claim)]

Verdict ==
  IF Admitted
  THEN [kind |-> "admitted", call |-> admission.call,
        report |-> Report(admission.chain, admission.result)]
  ELSE [kind |-> "not admitted"]

Admission == INSTANCE AdmissionContract
               WITH clock <- now, commitment <- [c \in Calls |-> Commitment(c)],
                    verdict <- Verdict

(* sign() and verify_signed_tx, in two places, at two times and with a     *)
(* transport between them, implement the contract: what a chain acts on is *)
(* what the author's signature covers -- instance, nonce, messages,        *)
(* account and claim -- and never changes after the call has returned.     *)
ImplementsAdmission == Admission!AdmissionSpec

-----------------------------------------------------------------------------
(* Statements of the repository that the code does not meet. *)

(* claim.rs:58, "Owner who issued the claim (must match the main account   *)
(* owner)", and README.md:93, where an agent attaches a claim its agent_id *)
(* issued: a claim in force, issued by the account an agent acts for, does *)
(* not make the verifier refuse the agent's transaction.                   *)
OwnerIssuedClaimVerifies ==
  Verified /\ wire[admission.call].route = "TxBytes" =>
    LET b == Author IN
    /\ HomeChain(admission.call, admission.chain)
    /\ b.signer.kind = "Agent"
    /\ b.trading_key_claim # None
    /\ b.trading_key_claim.issuer = b.signer.agent_id
    /\ b.trading_key_claim.expiry > admission.at
    => admission.result.error = "Ok"

(* types.rs:378, raw_bytes are "the raw signed bytes (for broadcast)", and *)
(* verifier.rs:110, what is verified is decoded from them: a transaction   *)
(* that travels as its raw_bytes, with no claim to expire, verifies on its *)
(* own chain.                                                              *)
RawBytesVerify ==
  Verified /\ wire[admission.call].route = "RawBytes" =>
   (/\ HomeChain(admission.call, admission.chain)
    /\ Author.signer.kind # "Bitcoin"
    /\ Author.trading_key_claim = None
    => admission.result.error = "Ok")

=============================================================================
