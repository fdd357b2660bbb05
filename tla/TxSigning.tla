----------------------------- MODULE TxSigning ------------------------------
(***************************************************************************)
(* Concurrent calls of TxBuilder::sign (builder.rs) with the nonce         *)
(* services they ask (providers/sentry.rs, providers/portal.rs).           *)
(*                                                                         *)
(* Each member of Calls is one builder, configured setter by setter and    *)
(* consumed by one sign().  sign() suspends at two awaits -- the nonce     *)
(* provider and the signer -- and runs without interruption between them,  *)
(* so it is three kinds of step: up to the provider, from the nonce to the *)
(* signer, and from the signature to the return.  The clock, the chain,    *)
(* the services and the other calls move in between.                       *)
(***************************************************************************)
EXTENDS TxBuilder

CONSTANTS
  Calls,          \* sign() calls
  Signers,        \* the signers builders are created with
  ManualNonces,   \* arguments of with_nonce
  Claims,         \* arguments of with_trading_key_claim
  Subs,           \* sub-streams AgentPortal may choose
  Accounts,       \* account ids nonces are asked for
  KeyAddresses,   \* arguments of with_trading_key_address
  TsModulus,      \* 2^32: ts_ms is the clock truncated to u32
  U64Max,         \* largest monotonic value
  MaxTime,        \* bound on the clock
  MaxMessages     \* bound on the messages of a builder

PrecheckErrors == {"NoMessages", "GenesisHashUnset", "ClaimDisagrees"}
NonceErrors    == {"FetchFailed", "MonotonicOverflow"}
ClaimErrors    == {"ClaimExpired", "InvalidSubRange", "MissingSignature", "SubOutsideClaim"}
Outcomes       == PrecheckErrors \cup NonceErrors \cup ClaimErrors \cup {"SignerFailed", "Ok"}

(* What the sentry node answers. *)
SentrySays == [last_monotonic : Nat]

ASSUME TxSigningAssumption ==
  /\ Signers \subseteq SignerType
  /\ ManualNonces \subseteq Nonces
  /\ Claims \subseteq TradingKeyClaim
  /\ Subs \subseteq Nat
  /\ Accounts \subseteq AccountIds /\ KeyAddresses \subseteq AccountIds
  /\ \A s \in Signers : SignerAccountId(s) \in Accounts
  /\ None \notin Outcomes /\ None \notin SentrySays
  /\ TsModulus \in Nat \ {0}
  /\ U64Max \in Nat /\ MaxTime \in Nat /\ MaxMessages \in Nat

VARIABLES
  now,             \* SystemTime::now, in seconds
  phase,           \* where each call is
  builder,         \* each call's TxBuilder
  asked,           \* whether the call sent a request to its nonce provider
  reply,           \* what the service made of that request
  draft,           \* sign()'s locals between the nonce and the signature
  outcome,         \* what the call returned: an error, or "Ok"
  signed,          \* the SignedTx it returned
  last_monotonic,  \* what the chain has admitted, per account (external)
  portal_next,     \* AgentPortal's next monotonic, per account (external)
  asked_at         \* history: the clock and last_monotonic when the provider was asked

vars == <<now, phase, builder, asked, reply, draft, outcome, signed,
          last_monotonic, portal_next, asked_at>>

callVars    == <<builder, asked, reply, draft, outcome, signed, asked_at>>
serviceVars == <<last_monotonic, portal_next>>

Phases == {"unused", "building", "awaiting_nonce", "awaiting_signature", "returned"}

Account(c) == SignerAccountId(builder[c].signer)

Moments == [now : Nat, last_monotonic : Nat]

Moment(c) == [now |-> now, last_monotonic |-> last_monotonic[Account(c)]]

Init ==
  /\ now = 0
  /\ phase = [c \in Calls |-> "unused"]
  /\ builder = [c \in Calls |-> None]
  /\ asked = [c \in Calls |-> FALSE]
  /\ reply = [c \in Calls |-> None]
  /\ draft = [c \in Calls |-> None]
  /\ outcome = [c \in Calls |-> None]
  /\ signed = [c \in Calls |-> None]
  /\ last_monotonic = [a \in Accounts |-> 0]
  /\ portal_next = [a \in Accounts |-> 1]
  /\ asked_at = [c \in Calls |-> None]

-----------------------------------------------------------------------------
(* Building. *)

New(c, s) ==
  /\ phase[c] = "unused"
  /\ phase' = [phase EXCEPT ![c] = "building"]
  /\ builder' = [builder EXCEPT ![c] = NewBuilder(s)]
  /\ UNCHANGED <<now, asked, reply, draft, outcome, signed, asked_at>>
  /\ UNCHANGED serviceVars

Set(c, b) ==
  /\ phase[c] = "building"
  /\ builder' = [builder EXCEPT ![c] = b]
  /\ UNCHANGED <<now, phase, asked, reply, draft, outcome, signed, asked_at>>
  /\ UNCHANGED serviceVars

SetChainId(c) == \E id \in ChainIds : Set(c, WithChainId(builder[c], id))

SetGenesisHash(c) ==
  \E hash \in GenesisHashes \cup {None} : Set(c, WithGenesisHash(builder[c], hash))

SetAccountNumber(c) ==
  \E n \in AccountNumbers : Set(c, WithAccountNumber(builder[c], n))

PushMessage(c) ==
  /\ phase[c] = "building" => Len(builder[c].messages) < MaxMessages
  /\ \E msg \in Messages : Set(c, AddMessage(builder[c], msg))

SetBodyFields(c) == \E f \in BodyFields : Set(c, WithBodyFields(builder[c], f))

SetAuthFields(c) == \E f \in AuthFields : Set(c, WithAuthFields(builder[c], f))

SetNonce(c) == \E n \in ManualNonces : Set(c, WithNonce(builder[c], n))

SetNonceProvider(c) == \E p \in Providers : Set(c, WithNonceProvider(builder[c], p))

SetTradingKeyAddress(c) ==
  \E a \in KeyAddresses : Set(c, WithTradingKeyAddress(builder[c], a))

SetTradingKeyClaim(c) ==
  \E cl \in Claims : Set(c, WithTradingKeyClaim(builder[c], cl))

-----------------------------------------------------------------------------
(* sign(). *)

Return(c, result) ==
  /\ phase' = [phase EXCEPT ![c] = "returned"]
  /\ outcome' = [outcome EXCEPT ![c] = result]

(* Mutant: the SignDoc is built around the default nonce. *)
AssembleDefault(c, nonce) ==
  /\ ClaimCheck(builder[c], nonce, now) = "Ok"
  /\ phase' = [phase EXCEPT ![c] = "awaiting_signature"]
  /\ draft' = [draft EXCEPT ![c] =
                 [nonce |-> nonce, now_secs |-> now,
                  sign_doc |-> SignDoc(builder[c], DefaultNonce(builder[c]))]]
  /\ UNCHANGED <<now, builder, outcome, signed>>

(* The synchronous run from the resolved nonce to signer.sign().await: the *)
(* claim is checked against the clock of this moment, then the SignDoc is  *)
(* assembled around the nonce.                                             *)
Assemble(c, nonce) ==
  /\ LET check == ClaimCheck(builder[c], nonce, now) IN
     \/ /\ check # "Ok"
        /\ Return(c, check)
        /\ UNCHANGED draft
     \/ /\ check = "Ok"
        /\ phase' = [phase EXCEPT ![c] = "awaiting_signature"]
        /\ draft' = [draft EXCEPT ![c] =
                       [nonce |-> nonce, now_secs |-> now,
                        sign_doc |-> SignDoc(builder[c], nonce)]]
        /\ UNCHANGED outcome
  /\ UNCHANGED <<now, builder, signed>>

SignRefused(c) ==
  /\ phase[c] = "building"
  /\ Precheck(builder[c]) # "Ok"
  /\ Return(c, Precheck(builder[c]))
  /\ UNCHANGED <<now, builder, asked, reply, draft, signed, asked_at>>
  /\ UNCHANGED serviceVars

SignLocally(c) ==
  /\ phase[c] = "building"
  /\ Precheck(builder[c]) = "Ok"
  /\ ~ AsksProvider(builder[c])
  /\ Assemble(c, LocalNonce(builder[c]))
  /\ UNCHANGED <<asked, reply, asked_at>>
  /\ UNCHANGED serviceVars

(* Mutant: the nonce is fetched first and the call refused after. *)
SignAskingFirst(c) ==
  \/ /\ phase[c] = "building" /\ AsksProvider(builder[c])
     /\ phase' = [phase EXCEPT ![c] = "awaiting_nonce"]
     /\ asked' = [asked EXCEPT ![c] = TRUE]
     /\ asked_at' = [asked_at EXCEPT ![c] = Moment(c)]
     /\ UNCHANGED <<now, builder, reply, draft, outcome, signed>>
     /\ UNCHANGED serviceVars
  \/ /\ phase[c] = "awaiting_nonce" /\ reply[c] # None
     /\ Precheck(builder[c]) # "Ok"
     /\ Return(c, Precheck(builder[c]))
     /\ UNCHANGED <<now, builder, asked, reply, draft, signed, asked_at>>
     /\ UNCHANGED serviceVars

SignAskingProvider(c) ==
  /\ phase[c] = "building"
  /\ Precheck(builder[c]) = "Ok"
  /\ AsksProvider(builder[c])
  /\ phase' = [phase EXCEPT ![c] = "awaiting_nonce"]
  /\ asked' = [asked EXCEPT ![c] = TRUE]
  /\ asked_at' = [asked_at EXCEPT ![c] = Moment(c)]
  /\ UNCHANGED <<now, builder, reply, draft, outcome, signed>>
  /\ UNCHANGED serviceVars

(* Mutant: the node's value is used as it is. *)
SentryNonceStale(last) == [monotonic |-> last, ts_ms |-> now % TsModulus, sub |-> 0]

(* SentryNonceProvider: the node's last_monotonic plus one (checked), the  *)
(* local clock truncated to u32, sub 0.                                    *)
SentryNonce(last) == [monotonic |-> last + 1, ts_ms |-> now % TsModulus, sub |-> 0]

SentryReplyArrives(c) ==
  /\ phase[c] = "awaiting_nonce"
  /\ reply[c] # None
  /\ builder[c].nonce_provider = "Sentry"
  /\ \/ /\ reply[c].last_monotonic = U64Max
        /\ Return(c, "MonotonicOverflow")
        /\ UNCHANGED <<now, builder, draft, signed>>
     \/ /\ reply[c].last_monotonic < U64Max
        /\ Assemble(c, SentryNonce(reply[c].last_monotonic))
  /\ UNCHANGED <<asked, reply, asked_at>>
  /\ UNCHANGED serviceVars

(* Mutant: replies are matched by account, not by request. *)
PortalReplyShared(c) ==
  /\ phase[c] = "awaiting_nonce"
  /\ builder[c].nonce_provider = "AgentPortal"
  /\ \E d \in Calls :
       /\ reply[d] # None /\ builder[d].nonce_provider = "AgentPortal"
       /\ Account(d) = Account(c)
       /\ Assemble(c, reply[d])
  /\ UNCHANGED <<asked, reply, asked_at>>
  /\ UNCHANGED serviceVars

(* PortalNonceProvider: the server's triple as it is. *)
PortalReplyArrives(c) ==
  /\ phase[c] = "awaiting_nonce"
  /\ reply[c] # None
  /\ builder[c].nonce_provider = "AgentPortal"
  /\ Assemble(c, reply[c])
  /\ UNCHANGED <<asked, reply, asked_at>>
  /\ UNCHANGED serviceVars

(* Mutant: an HTTP client without a timeout. *)
ProviderFailsAnswered(c) ==
  /\ phase[c] = "awaiting_nonce" /\ reply[c] # None
  /\ Return(c, "FetchFailed")
  /\ UNCHANGED <<now, builder, asked, reply, draft, signed, asked_at>>
  /\ UNCHANGED serviceVars

(* The connection fails, the client's timeout expires, the status is an    *)
(* error or the JSON is bad: whether or not the server acted.              *)
ProviderFails(c) ==
  /\ phase[c] = "awaiting_nonce"
  /\ Return(c, "FetchFailed")
  /\ UNCHANGED <<now, builder, asked, reply, draft, signed, asked_at>>
  /\ UNCHANGED serviceVars

SignatureArrives(c) ==
  /\ phase[c] = "awaiting_signature"
  /\ Return(c, "Ok")
  /\ signed' = [signed EXCEPT ![c] =
                  SignedTx(builder[c], draft[c].nonce,
                           SignDocWith(builder[c].signer, draft[c].sign_doc))]
  /\ UNCHANGED <<now, builder, asked, reply, draft, asked_at>>
  /\ UNCHANGED serviceVars

SignerFails(c) ==
  /\ phase[c] = "awaiting_signature"
  /\ Return(c, "SignerFailed")
  /\ UNCHANGED <<now, builder, asked, reply, draft, signed, asked_at>>
  /\ UNCHANGED serviceVars

-----------------------------------------------------------------------------
(* The environment.  A server may act on a request whose client has        *)
(* already given up; its reply is then lost.                               *)

SentryReads(c) ==
  /\ asked[c] /\ reply[c] = None
  /\ builder[c].nonce_provider = "Sentry"
  /\ reply' = [reply EXCEPT ![c] = [last_monotonic |-> last_monotonic[Account(c)]]]
  /\ UNCHANGED <<now, phase, builder, asked, draft, outcome, signed, asked_at>>
  /\ UNCHANGED serviceVars

PortalIssues(c, sub) ==
  /\ asked[c] /\ reply[c] = None
  /\ builder[c].nonce_provider = "AgentPortal"
  /\ portal_next[Account(c)] <= U64Max
  /\ reply' = [reply EXCEPT ![c] =
                   [monotonic |-> portal_next[Account(c)],
                    ts_ms |-> now % TsModulus, sub |-> sub]]
  /\ portal_next' = [portal_next EXCEPT ![Account(c)] = @ + 1]
  /\ UNCHANGED <<now, phase, builder, asked, draft, outcome, signed, asked_at, last_monotonic>>

(* Some transaction of the account, of this client or another, is admitted *)
(* by the chain.                                                           *)
ChainAdvances(a) ==
  /\ last_monotonic[a] < U64Max
  /\ last_monotonic' = [last_monotonic EXCEPT ![a] = @ + 1]
  /\ UNCHANGED <<now, phase, portal_next>>
  /\ UNCHANGED callVars

Tick ==
  /\ now < MaxTime
  /\ now' = now + 1
  /\ UNCHANGED phase
  /\ UNCHANGED callVars
  /\ UNCHANGED serviceVars

AllReturned ==
  /\ \A c \in Calls : phase[c] = "returned"
  /\ UNCHANGED vars

Configure(c) ==
  \/ SetChainId(c)       \/ SetGenesisHash(c)  \/ SetAccountNumber(c)
  \/ PushMessage(c)      \/ SetBodyFields(c)   \/ SetAuthFields(c)
  \/ SetNonce(c)         \/ SetNonceProvider(c)
  \/ SetTradingKeyAddress(c) \/ SetTradingKeyClaim(c)

Sign(c) == SignRefused(c) \/ SignLocally(c) \/ SignAskingProvider(c)

Resume(c) ==
  \/ SentryReplyArrives(c) \/ PortalReplyArrives(c) \/ ProviderFails(c)
  \/ SignatureArrives(c)   \/ SignerFails(c)

Serve(c) == SentryReads(c) \/ \E sub \in Subs : PortalIssues(c, sub)

Next ==
  \/ \E c \in Calls :
       \/ \E s \in Signers : New(c, s)
       \/ Configure(c)
       \/ Sign(c)
       \/ Resume(c)
       \/ Serve(c)
  \/ \E a \in Accounts : ChainAdvances(a)
  \/ Tick
  \/ AllReturned

Spec == Init /\ [][Next]_vars

(* Once sign() is called its steps keep running: the HTTP clients time out *)
(* and the local signers answer.  Building, and calling sign() at all, is  *)
(* the caller's choice.                                                    *)
FairSpec == Spec /\ \A c \in Calls : WF_vars(Resume(c))

-----------------------------------------------------------------------------
(* Types. *)

Drafts == [nonce : Nonces, now_secs : Nat, sign_doc : SignDocs]

(* Every variable has the shape the program gives it, and a call holds a   *)
(* builder, a draft or a result exactly in the phases that have one.       *)
TypeOK ==
  /\ now \in Nat
  /\ phase \in [Calls -> Phases]
  /\ builder \in [Calls -> Builders \cup {None}]
  /\ asked \in [Calls -> BOOLEAN]
  /\ reply \in [Calls -> SentrySays \cup Nonces \cup {None}]
  /\ draft \in [Calls -> Drafts \cup {None}]
  /\ outcome \in [Calls -> Outcomes \cup {None}]
  /\ signed \in [Calls -> SignedTxs \cup {None}]
  /\ last_monotonic \in [Accounts -> Nat]
  /\ portal_next \in [Accounts -> Nat]
  /\ asked_at \in [Calls -> Moments \cup {None}]

-----------------------------------------------------------------------------
(* Safety. *)

Succeeded(c) == outcome[c] = "Ok"

(* The claim options the transaction of a successful call carries. *)
CarriedOptions(c) == signed[c].tx.auth_info.signer_infos[1].signing_options

(* A claim stored on the signer is carried, byte for byte, by every        *)
(* transaction signed with that signer, whatever setters the caller used   *)
(* (TxBuilder::new attaches it, step 0c refuses a different one).          *)
StoredClaimAlwaysCarried ==
  \A c \in Calls :
    Succeeded(c) /\ builder[c].signer.claim # None =>
      CarriedOptions(c) = ClaimOptions(builder[c].signer.claim)

(* A carried claim was in force when the transaction was assembled -- after *)
(* the wait for the nonce, not before -- and the nonce that ships, wherever *)
(* it came from, is in the claim's sub-range and is the nonce the signature *)
(* covers.                                                                  *)
CarriedClaimCoversNonce ==
  \A c \in Calls :
    Succeeded(c) /\ CarriedOptions(c) # None =>
      LET claim == DecodeFromSigningOptions(CarriedOptions(c)) IN
      /\ claim.expiry > draft[c].now_secs
      /\ SubInRange(claim, signed[c].tx.nonce.sub)
      /\ signed[c].tx.signatures[1].over.nonce = signed[c].tx.nonce

(* The caller set a provider and no nonce. *)
LeavesNonceTo(c, provider) ==
  builder[c].manual_nonce = None /\ builder[c].nonce_provider = provider

(* No two transactions ship the same AgentPortal nonce: a call whose        *)
(* provider is the portal never falls back to another nonce source and      *)
(* never takes another call's reply, whichever replies are late or lost.    *)
PortalNoncesDistinct ==
  \A c, d \in Calls :
    /\ c # d /\ Succeeded(c) /\ Succeeded(d)
    /\ LeavesNonceTo(c, "AgentPortal") /\ LeavesNonceTo(d, "AgentPortal")
    /\ Account(c) = Account(d)
    => signed[c].tx.nonce.monotonic # signed[d].tx.nonce.monotonic

(* A Sentry nonce is above everything the chain had admitted when sign()   *)
(* was called, and stays within u64.                                       *)
SentryNonceAboveFloor ==
  \A c \in Calls :
    Succeeded(c) /\ LeavesNonceTo(c, "Sentry") =>
      signed[c].tx.nonce.monotonic \in (asked_at[c].last_monotonic + 1) .. U64Max

(* The caller's claim, if there is one, would have passed step 3.5 for a   *)
(* nonce in its range at the moment the nonce was asked for.               *)
AcceptableWhenAsked(c) ==
  LET claim == builder[c].trading_key_claim IN
  claim # None => Validate(claim, asked_at[c].now) = "Ok"

(* The call failed on what it could not know when it asked: the reply was  *)
(* lost, the signer failed, the claim ran out meanwhile, or the sub the    *)
(* portal chose is outside the claim.                                      *)
FailedOnLaterNews(c) ==
  LET claim == builder[c].trading_key_claim IN
  \/ outcome[c] \in {"FetchFailed", "SignerFailed"}
  \/ outcome[c] = "ClaimExpired" /\ claim.expiry <= now
  \/ outcome[c] = "SubOutsideClaim" /\ ~ SubInRange(claim, reply[c].sub)

(* A nonce AgentPortal issued to a call whose claim was acceptable when the *)
(* call asked ships with its transaction, or the call is still waiting, or  *)
(* it failed on something that was not known when it asked: messages,       *)
(* genesis hash and claim agreement are settled before the portal is asked. *)
(* (A claim no clock and no nonce could make acceptable does cost the       *)
(* nonce: MisconfiguredClaimCostsNoNonce.)                                  *)
IssuedNonceAccounted ==
  \A c \in Calls :
    reply[c] \in Nonces /\ AcceptableWhenAsked(c) =>
      \/ Succeeded(c) /\ signed[c].tx.nonce = reply[c]
      \/ phase[c] \in {"awaiting_nonce", "awaiting_signature"}
      \/ FailedOnLaterNews(c)

(* The hash names the transaction: raw_bytes has neither nonce, chain nor   *)
(* genesis hash in it, and yet two transactions with one hash are one, with *)
(* the same nonce for the same chain, because the signature in raw_bytes    *)
(* covers them.                                                             *)
TxHashNamesTx ==
  \A c, d \in Calls :
    Succeeded(c) /\ Succeeded(d) /\ TxHash(signed[c]) = TxHash(signed[d]) =>
      /\ signed[c] = signed[d]
      /\ builder[c].chain_id = builder[d].chain_id
      /\ builder[c].genesis_hash = builder[d].genesis_hash

-----------------------------------------------------------------------------
(* The inductive invariant the safety properties follow from: what each    *)
(* stage of a call knows about the stages before it.                       *)

(* The builder of a call in progress: a claim stored on its signer has     *)
(* never been detached.                                                    *)
BuilderInv(c) ==
  phase[c] # "unused" =>
    /\ builder[c] \in Builders
    /\ builder[c].signer \in Signers
    /\ builder[c].signer.claim # None => builder[c].trading_key_claim # None

(* A call has an outcome once it has returned, and a call that asked for a *)
(* nonce had passed every refusal that comes before.                       *)
StageInv(c) ==
  /\ phase[c] = "returned" <=> outcome[c] # None
  /\ phase[c] = "awaiting_nonce" => asked[c]
  /\ asked[c] =>
       /\ phase[c] \in {"awaiting_nonce", "awaiting_signature", "returned"}
       /\ Precheck(builder[c]) = "Ok"
       /\ AsksProvider(builder[c])
       /\ outcome[c] \notin PrecheckErrors
       /\ outcome[c] = "MonotonicOverflow" => builder[c].nonce_provider = "Sentry"

(* A claim error after the wait names what is wrong with the claim.        *)
RefusalInv(c) ==
  asked[c] /\ outcome[c] \in ClaimErrors =>
    LET claim == builder[c].trading_key_claim IN
    /\ claim # None
    /\ outcome[c] = "ClaimExpired" => claim.expiry <= now
    /\ outcome[c] = "InvalidSubRange" => claim.sub_start >= claim.sub_end
    /\ outcome[c] = "MissingSignature" => claim.signature.bytes = ZeroSig
    /\ outcome[c] = "SubOutsideClaim" /\ builder[c].nonce_provider # "Sentry" =>
         reply[c] # None /\ ~ SubInRange(claim, reply[c].sub)

(* What a service answered, against what it holds now. *)
ReplyInv(c) ==
  /\ asked[c] =>
       /\ asked_at[c] \in Moments
       /\ asked_at[c].last_monotonic <= last_monotonic[Account(c)]
  /\ reply[c] # None => asked[c]
  /\ reply[c] # None /\ builder[c].nonce_provider = "Sentry" =>
       /\ reply[c] \in SentrySays
       /\ asked_at[c].last_monotonic <= reply[c].last_monotonic
  /\ reply[c] # None /\ builder[c].nonce_provider # "Sentry" =>
       /\ reply[c] \in Nonces
       /\ reply[c].monotonic < portal_next[Account(c)]

(* AgentPortal has answered no two calls of an account alike. *)
PortalInv ==
  \A c, d \in Calls :
    /\ c # d
    /\ reply[c] # None /\ builder[c].nonce_provider # "Sentry"
    /\ reply[d] # None /\ builder[d].nonce_provider # "Sentry"
    /\ Account(c) = Account(d)
    => reply[c].monotonic # reply[d].monotonic

(* From the assembly on, the draft is the one the checks passed for, with  *)
(* the nonce of the source the caller chose; a success is its signature.   *)
DraftInv(c) ==
  phase[c] = "awaiting_signature" \/ outcome[c] = "Ok" =>
    LET b == builder[c]  nonce == draft[c].nonce IN
    /\ draft[c] \in Drafts
    /\ Precheck(b) = "Ok"
    /\ ClaimCheck(b, nonce, draft[c].now_secs) = "Ok"
    /\ draft[c].now_secs <= now
    /\ draft[c].sign_doc = SignDoc(b, nonce)
    /\ AsksProvider(b) =>
         /\ reply[c] # None
         /\ IF b.nonce_provider = "Sentry"
            THEN /\ nonce.monotonic = reply[c].last_monotonic + 1
                 /\ reply[c].last_monotonic < U64Max
            ELSE nonce = reply[c]
    /\ outcome[c] = "Ok" =>
         signed[c] = SignedTx(b, nonce, SignDocWith(b.signer, draft[c].sign_doc))

CallInv(c) ==
  BuilderInv(c) /\ StageInv(c) /\ RefusalInv(c) /\ ReplyInv(c) /\ DraftInv(c)

(* All of it. *)
IInv ==
  /\ TypeOK
  /\ PortalInv
  /\ \A c \in Calls : CallInv(c)

-----------------------------------------------------------------------------
(* What a caller sees of a call, and the contract it is held to. *)

Answered(c) ==
  CASE outcome[c] = None -> [kind |-> "open"]
    [] outcome[c] = "Ok" ->
         [kind |-> "signed",
          account |-> Account(c),
          source |-> IF builder[c].manual_nonce = None THEN builder[c].nonce_provider ELSE None,
          nonce |-> signed[c].tx.nonce,
          covered_nonce |-> signed[c].tx.signatures[1].over.nonce,
          genesis_hash |-> signed[c].tx.signatures[1].over.genesis_hash,
          messages |-> Len(signed[c].tx.body.messages),
          claim |-> IF CarriedOptions(c) = None THEN None
                    ELSE DecodeFromSigningOptions(CarriedOptions(c)),
          assembled_at |-> draft[c].now_secs]
    [] OTHER -> [kind |-> "refused"]

Contract == INSTANCE SigningContract
              WITH clock <- now, result <- [c \in Calls |-> Answered(c)]

(* sign(), with its suspensions, its services and its races, implements    *)
(* the contract: one answer per call, every signature sound, every         *)
(* AgentPortal nonce spent once.                                           *)
ImplementsContract == Contract!ContractSpec

-----------------------------------------------------------------------------
(* Liveness: a sign() call that is waiting returns, even when its nonce    *)
(* service never answers.                                                  *)
EveryCallReturns ==
  \A c \in Calls :
    phase[c] \in {"awaiting_nonce", "awaiting_signature"} ~> phase[c] = "returned"

-----------------------------------------------------------------------------
(* builder.rs:396, "A misconfigured caller should lose nothing but the     *)
(* call": a claim that no clock and no nonce could make acceptable is      *)
(* refused without asking the nonce provider.                              *)
MisconfiguredClaimCostsNoNonce ==
  \A c \in Calls :
    outcome[c] \in {"InvalidSubRange", "MissingSignature"} => ~ asked[c]

=============================================================================
