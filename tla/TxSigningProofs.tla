--------------------------- MODULE TxSigningProofs --------------------------
(***************************************************************************)
(* Proofs about TxSigning, for every set of calls, signers, claims and     *)
(* nonces: the inductive invariant IInv, the safety properties that follow *)
(* from it, and that TxSigning implements SigningContract: every step      *)
(* answers one call soundly, lets time pass, or is invisible to callers.   *)
(***************************************************************************)
EXTENDS TxSigning, TxBuilderProofs

-----------------------------------------------------------------------------
(* Calls that do not move. *)

(* What is known of a call survives a step that leaves the call alone,     *)
(* while the clock and the services' counters only grow.                   *)
LEMMA Frame ==
  ASSUME NEW d \in Calls, TypeOK, CallInv(d),
         phase'[d] = phase[d], builder'[d] = builder[d], asked'[d] = asked[d],
         reply'[d] = reply[d], draft'[d] = draft[d], outcome'[d] = outcome[d],
         signed'[d] = signed[d], asked_at'[d] = asked_at[d],
         now' \in Nat, now <= now',
         \A a \in Accounts : /\ last_monotonic'[a] \in Nat
                             /\ last_monotonic[a] <= last_monotonic'[a]
                             /\ portal_next'[a] \in Nat
                             /\ portal_next[a] <= portal_next'[a]
  PROVE  CallInv(d)'
  <1>1. BuilderInv(d)'
    BY DEF CallInv, BuilderInv
  <1>2. StageInv(d)'
    BY DEF CallInv, StageInv
  <1>3. asked[d] => Account(d) \in Accounts
    BY TxSigningAssumption DEF CallInv, StageInv, BuilderInv, Account
  <1>4. ReplyInv(d)'
    <2>1. Account(d)' = Account(d)
      BY DEF Account
    <2> QED
      BY <1>3, <2>1 DEF CallInv, ReplyInv, TypeOK, Moments, Nonces, SentrySays
  <1>5. DraftInv(d)'
    BY DEF CallInv, DraftInv, Drafts, TypeOK
  <1>6. RefusalInv(d)'
    <2> DEFINE claim == builder[d].trading_key_claim
    <2>1. asked[d] /\ claim # None => claim.expiry \in Nat
      BY DEF CallInv, StageInv, BuilderInv, Builders, TradingKeyClaim
    <2>2. now \in Nat
      BY DEF TypeOK
    <2> QED
      BY <2>1, <2>2 DEF CallInv, RefusalInv
  <1> QED
    BY <1>1, <1>2, <1>4, <1>5, <1>6 DEF CallInv

(* When only call c moves, the others keep their invariant. *)
LEMMA OthersKeep ==
  ASSUME NEW c \in Calls, IInv,
         \A d \in Calls \ {c} :
           /\ phase'[d] = phase[d] /\ builder'[d] = builder[d] /\ asked'[d] = asked[d]
           /\ reply'[d] = reply[d] /\ draft'[d] = draft[d] /\ outcome'[d] = outcome[d]
           /\ signed'[d] = signed[d] /\ asked_at'[d] = asked_at[d],
         now' = now, last_monotonic' = last_monotonic,
         \A a \in Accounts : portal_next'[a] \in Nat /\ portal_next[a] <= portal_next'[a]
  PROVE  \A d \in Calls \ {c} : CallInv(d)'
  <1> SUFFICES ASSUME NEW d \in Calls \ {c}
               PROVE  CallInv(d)'
    OBVIOUS
  <1>1. TypeOK /\ CallInv(d)
    BY DEF IInv
  <1>2. /\ now' \in Nat /\ now <= now'
        /\ \A a \in Accounts : last_monotonic'[a] \in Nat /\ last_monotonic[a] <= last_monotonic'[a]
    BY <1>1 DEF TypeOK
  <1> QED
    BY <1>1, <1>2, Frame

(* Portal replies stay distinct while no reply arrives and no call that    *)
(* has one changes its builder.                                            *)
LEMMA PortalKeeps ==
  ASSUME IInv, reply' = reply,
         \A d \in Calls : reply[d] # None => builder'[d] = builder[d]
  PROVE  PortalInv'
  BY DEF IInv, PortalInv, Account

-----------------------------------------------------------------------------
(* Building. *)

(* A call that has not called sign() has asked for nothing. *)
LEMMA NotAskedYet ==
  ASSUME IInv, NEW c \in Calls, phase[c] \in {"unused", "building"}
  PROVE  /\ ~ asked[c] /\ reply[c] = None /\ outcome[c] = None
  BY DEF IInv, CallInv, StageInv, ReplyInv, TypeOK

LEMMA NewKeeps ==
  ASSUME IInv, NEW c \in Calls, NEW s \in Signers, New(c, s)
  PROVE  IInv'
  <1>1. s \in SignerType /\ NewBuilder(s) \in Builders
    BY TxSigningAssumption, NewBuilderType
  <1>2. ~ asked[c] /\ reply[c] = None /\ outcome[c] = None
    BY NotAskedYet DEF New
  <1>3. TypeOK'
    BY <1>1 DEF IInv, TypeOK, New, serviceVars, Phases
  <1>4. builder'[c] = NewBuilder(s) /\ phase'[c] = "building"
    BY DEF New, IInv, TypeOK
  <1>5. CallInv(c)'
    <2>1. BuilderInv(c)'
      BY <1>1, <1>4 DEF BuilderInv, NewBuilder
    <2>2. StageInv(c)' /\ RefusalInv(c)' /\ ReplyInv(c)' /\ DraftInv(c)'
      <3>1. asked' = asked /\ reply' = reply /\ outcome' = outcome
        BY DEF New
      <3>2. outcome[c] # "Ok"
        BY <1>2, TxSigningAssumption DEF Outcomes
      <3> QED
        BY <1>2, <1>4, <3>1, <3>2 DEF StageInv, RefusalInv, ReplyInv, DraftInv
    <2> QED
      BY <2>1, <2>2 DEF CallInv
  <1>6. \A d \in Calls \ {c} : CallInv(d)'
    <2>1. \A d \in Calls \ {c} : phase'[d] = phase[d] /\ builder'[d] = builder[d]
      BY DEF New, IInv, TypeOK
    <2>2. \A a \in Accounts : portal_next'[a] \in Nat /\ portal_next[a] <= portal_next'[a]
      BY DEF New, serviceVars, IInv, TypeOK
    <2> QED
      BY <2>1, <2>2, OthersKeep DEF New, serviceVars
  <1>7. PortalInv'
    BY <1>2, PortalKeeps DEF New, IInv, TypeOK
  <1> QED
    BY <1>3, <1>5, <1>6, <1>7 DEF IInv

(* Every setter gives the call a builder with the same signer, and none    *)
(* detaches a claim.                                                       *)
LEMMA ConfigureSets ==
  ASSUME IInv, NEW c \in Calls, Configure(c)
  PROVE  \E b \in Builders :
           /\ Set(c, b)
           /\ b.signer = builder[c].signer
           /\ builder[c].trading_key_claim # None => b.trading_key_claim # None
  <1> DEFINE b0 == builder[c]
             Goal == \E b \in Builders :
                       /\ Set(c, b)
                       /\ b.signer = b0.signer
                       /\ b0.trading_key_claim # None => b.trading_key_claim # None
  <1>1. phase[c] = "building"
    BY DEF Configure, SetChainId, SetGenesisHash, SetAccountNumber, PushMessage,
           SetBodyFields, SetAuthFields, SetNonce, SetNonceProvider,
           SetTradingKeyAddress, SetTradingKeyClaim, Set
  <1>2. b0 \in Builders
    BY <1>1 DEF IInv, CallInv, BuilderInv
  <1>3. CASE SetChainId(c)
    <2>1. PICK x \in ChainIds : Set(c, WithChainId(b0, x))
      BY <1>3 DEF SetChainId
    <2> QED
      BY <1>2, <2>1 DEF WithChainId, Builders
  <1>4. CASE SetGenesisHash(c)
    <2>1. PICK x \in GenesisHashes \cup {None} : Set(c, WithGenesisHash(b0, x))
      BY <1>4 DEF SetGenesisHash
    <2> QED
      BY <1>2, <2>1 DEF WithGenesisHash, Builders
  <1>5. CASE SetAccountNumber(c)
    <2>1. PICK x \in AccountNumbers : Set(c, WithAccountNumber(b0, x))
      BY <1>5 DEF SetAccountNumber
    <2> QED
      BY <1>2, <2>1 DEF WithAccountNumber, Builders
  <1>6. CASE PushMessage(c)
    <2>1. PICK x \in Messages : Set(c, AddMessage(b0, x))
      BY <1>6 DEF PushMessage
    <2>2. AddMessage(b0, x) \in Builders
      <3>1. Append(b0.messages, x) \in Seq(Messages)
        BY <1>2 DEF Builders
      <3> QED
        BY <1>2, <3>1 DEF AddMessage, Builders
    <2> QED
      BY <1>2, <2>1, <2>2 DEF AddMessage, Builders
  <1>7. CASE SetBodyFields(c)
    <2>1. PICK x \in BodyFields : Set(c, WithBodyFields(b0, x))
      BY <1>7 DEF SetBodyFields
    <2> QED
      BY <1>2, <2>1 DEF WithBodyFields, Builders
  <1>8. CASE SetAuthFields(c)
    <2>1. PICK x \in AuthFields : Set(c, WithAuthFields(b0, x))
      BY <1>8 DEF SetAuthFields
    <2> QED
      BY <1>2, <2>1 DEF WithAuthFields, Builders
  <1>9. CASE SetNonce(c)
    <2>1. PICK x \in ManualNonces : Set(c, WithNonce(b0, x))
      BY <1>9 DEF SetNonce
    <2> QED
      BY <1>2, <2>1, TxSigningAssumption DEF WithNonce, Builders
  <1>10. CASE SetNonceProvider(c)
    <2>1. PICK x \in Providers : Set(c, WithNonceProvider(b0, x))
      BY <1>10 DEF SetNonceProvider
    <2> QED
      BY <1>2, <2>1 DEF WithNonceProvider, Builders
  <1>11. CASE SetTradingKeyAddress(c)
    <2>1. PICK x \in KeyAddresses : Set(c, WithTradingKeyAddress(b0, x))
      BY <1>11 DEF SetTradingKeyAddress
    <2> QED
      BY <1>2, <2>1, TxSigningAssumption DEF WithTradingKeyAddress, Builders
  <1>12. CASE SetTradingKeyClaim(c)
    <2>1. PICK x \in Claims : Set(c, WithTradingKeyClaim(b0, x))
      BY <1>12 DEF SetTradingKeyClaim
    <2>2. x \in TradingKeyClaim /\ x # None
      BY TxSigningAssumption, TxBuilderAssumption
    <2> QED
      BY <1>2, <2>1, <2>2 DEF WithTradingKeyClaim, Builders
  <1> QED
    BY <1>3, <1>4, <1>5, <1>6, <1>7, <1>8, <1>9, <1>10, <1>11, <1>12 DEF Configure

LEMMA ConfigureKeeps ==
  ASSUME IInv, NEW c \in Calls, Configure(c)
  PROVE  IInv'
  <1>1. PICK b \in Builders :
          /\ Set(c, b)
          /\ b.signer = builder[c].signer
          /\ builder[c].trading_key_claim # None => b.trading_key_claim # None
    BY ConfigureSets
  <1>2. ~ asked[c] /\ reply[c] = None /\ outcome[c] = None
    BY <1>1, NotAskedYet DEF Set
  <1>3. TypeOK'
    BY <1>1 DEF IInv, TypeOK, Set, serviceVars
  <1>4. builder'[c] = b /\ phase'[c] = "building"
    BY <1>1 DEF Set, IInv, TypeOK
  <1>5. CallInv(c)'
    <2>1. BuilderInv(c)'
      BY <1>1, <1>4 DEF Set, IInv, CallInv, BuilderInv
    <2>2. StageInv(c)' /\ RefusalInv(c)' /\ ReplyInv(c)' /\ DraftInv(c)'
      <3>1. asked' = asked /\ reply' = reply /\ outcome' = outcome
        BY <1>1 DEF Set
      <3>2. outcome[c] # "Ok"
        BY <1>2, TxSigningAssumption DEF Outcomes
      <3> QED
        BY <1>2, <1>4, <3>1, <3>2 DEF StageInv, RefusalInv, ReplyInv, DraftInv
    <2> QED
      BY <2>1, <2>2 DEF CallInv
  <1>6. \A d \in Calls \ {c} : CallInv(d)'
    <2>1. \A d \in Calls \ {c} : phase'[d] = phase[d] /\ builder'[d] = builder[d]
      BY <1>1 DEF Set, IInv, TypeOK
    <2>2. \A a \in Accounts : portal_next'[a] \in Nat /\ portal_next[a] <= portal_next'[a]
      BY <1>1 DEF Set, serviceVars, IInv, TypeOK
    <2> QED
      BY <1>1, <2>1, <2>2, OthersKeep DEF Set, serviceVars
  <1>7. PortalInv'
    BY <1>1, <1>2, PortalKeeps DEF Set, IInv, TypeOK
  <1> QED
    BY <1>3, <1>5, <1>6, <1>7 DEF IInv

-----------------------------------------------------------------------------
(* sign(). *)

(* A failed check is one of the claim errors. *)
LEMMA ClaimCheckErrors ==
  ASSUME NEW b, NEW nonce, NEW time, ClaimCheck(b, nonce, time) # "Ok"
  PROVE  ClaimCheck(b, nonce, time) \in ClaimErrors
  BY DEF ClaimCheck, Validate, ClaimErrors

(* A call that is past building has a builder. *)
LEMMA HasBuilder ==
  ASSUME IInv, NEW c \in Calls, phase[c] # "unused"
  PROVE  /\ builder[c] \in Builders
         /\ builder[c].signer \in Signers
         /\ builder[c].signer \in SignerType
         /\ Account(c) \in Accounts
  BY TxSigningAssumption DEF IInv, CallInv, BuilderInv, Account

(* When a call moves on and neither its builder nor anything it was told   *)
(* changes, three parts of the invariant are left to show.                 *)
LEMMA CallMoves ==
  ASSUME IInv, NEW c \in Calls, phase[c] # "unused",
         UNCHANGED <<now, builder, reply>>, UNCHANGED serviceVars,
         \A d \in Calls \ {c} :
           /\ phase'[d] = phase[d] /\ asked'[d] = asked[d] /\ draft'[d] = draft[d]
           /\ outcome'[d] = outcome[d] /\ signed'[d] = signed[d] /\ asked_at'[d] = asked_at[d],
         TypeOK', StageInv(c)', RefusalInv(c)', ReplyInv(c)', DraftInv(c)'
  PROVE  IInv'
  <1>1. BuilderInv(c)'
    BY HasBuilder DEF IInv, CallInv, BuilderInv
  <1>2. \A d \in Calls \ {c} : CallInv(d)'
    <2>1. \A a \in Accounts : portal_next'[a] \in Nat /\ portal_next[a] <= portal_next'[a]
      BY DEF serviceVars, IInv, TypeOK
    <2> QED
      BY <2>1, OthersKeep DEF serviceVars
  <1>3. PortalInv'
    BY PortalKeeps
  <1>4. CallInv(c)'
    BY <1>1 DEF CallInv
  <1> QED
    BY <1>2, <1>3, <1>4 DEF IInv

LEMMA SignRefusedKeeps ==
  ASSUME IInv, NEW c \in Calls, SignRefused(c)
  PROVE  IInv'
  <1> DEFINE result == Precheck(builder[c])
  <1>1. result \in PrecheckErrors
    BY DEF SignRefused, Precheck, PrecheckErrors
  <1>2. result # None /\ result # "Ok" /\ result \in Outcomes
    BY <1>1, TxSigningAssumption DEF Outcomes, PrecheckErrors
  <1>3. ~ asked[c] /\ reply[c] = None
    BY NotAskedYet DEF SignRefused
  <1>4. phase'[c] = "returned" /\ outcome'[c] = result
    BY DEF SignRefused, Return, IInv, TypeOK
  <1>5. TypeOK'
    BY <1>2 DEF SignRefused, Return, serviceVars, Phases, IInv, TypeOK
  <1>6. StageInv(c)' /\ RefusalInv(c)' /\ ReplyInv(c)' /\ DraftInv(c)'
    BY <1>2, <1>3, <1>4 DEF SignRefused, StageInv, RefusalInv, ReplyInv, DraftInv
  <1>7. \A d \in Calls \ {c} : phase'[d] = phase[d] /\ outcome'[d] = outcome[d]
    BY DEF SignRefused, Return, IInv, TypeOK
  <1> QED
    BY <1>5, <1>6, <1>7, CallMoves DEF SignRefused

(* Any outcome but a claim error leaves nothing to show of the refusal. *)
LEMMA NoRefusal ==
  ASSUME NEW c \in Calls, outcome'[c] \in (Outcomes \ ClaimErrors) \cup {None}
  PROVE  RefusalInv(c)'
  <1>1. None \notin ClaimErrors
    BY TxSigningAssumption DEF Outcomes
  <1> QED
    BY <1>1 DEF RefusalInv

(* What a refusal of step 3.5 says of the claim it refuses. *)
LEMMA ClaimCheckRefusal ==
  ASSUME NEW b, NEW nonce, NEW time, ClaimCheck(b, nonce, time) # "Ok"
  PROVE  LET claim == b.trading_key_claim  check == ClaimCheck(b, nonce, time) IN
         /\ claim # None
         /\ check = "ClaimExpired" => claim.expiry <= time
         /\ check = "InvalidSubRange" => claim.sub_start >= claim.sub_end
         /\ check = "MissingSignature" => claim.signature.bytes = ZeroSig
         /\ check = "SubOutsideClaim" => ~ SubInRange(claim, nonce.sub)
  BY DEF ClaimCheck, Validate

LEMMA SignAskingProviderKeeps ==
  ASSUME IInv, NEW c \in Calls, SignAskingProvider(c)
  PROVE  IInv'
  <1>1. reply[c] = None /\ outcome[c] = None
    BY NotAskedYet DEF SignAskingProvider
  <1>2. /\ Account(c) \in Accounts /\ last_monotonic[Account(c)] \in Nat
        /\ Moment(c) \in Moments
    BY HasBuilder DEF SignAskingProvider, IInv, TypeOK, Moment, Moments
  <1>3. /\ phase'[c] = "awaiting_nonce" /\ asked'[c] = TRUE
        /\ asked_at'[c] = Moment(c)
        /\ Account(c)' = Account(c)
    BY DEF SignAskingProvider, IInv, TypeOK, Account
  <1>4. TypeOK'
    BY <1>2 DEF SignAskingProvider, serviceVars, Phases, IInv, TypeOK
  <1>5. None \notin Outcomes /\ outcome'[c] = None
    BY <1>1, TxSigningAssumption DEF SignAskingProvider
  <1>6. StageInv(c)'
    BY <1>3, <1>5 DEF SignAskingProvider, StageInv, Outcomes, NonceErrors
  <1>7. ReplyInv(c)'
    BY <1>1, <1>2, <1>3 DEF SignAskingProvider, serviceVars, ReplyInv, Moment
  <1>8. DraftInv(c)'
    BY <1>3, <1>5 DEF DraftInv, Outcomes
  <1>9. \A d \in Calls \ {c} :
          phase'[d] = phase[d] /\ asked'[d] = asked[d] /\ asked_at'[d] = asked_at[d]
    BY DEF SignAskingProvider, IInv, TypeOK
  <1>10. RefusalInv(c)'
    BY <1>5, NoRefusal
  <1> QED
    BY <1>4, <1>6, <1>7, <1>8, <1>9, <1>10, CallMoves DEF SignAskingProvider

(* The run from the nonce to the signer, whichever source the nonce has.   *)
LEMMA AssembleKeeps ==
  ASSUME IInv, NEW c \in Calls, NEW nonce \in Nonces, Assemble(c, nonce),
         UNCHANGED <<asked, reply, asked_at>>, UNCHANGED serviceVars,
         phase[c] \in {"building", "awaiting_nonce"},
         Precheck(builder[c]) = "Ok",
         AsksProvider(builder[c]) =>
           /\ reply[c] # None
           /\ IF builder[c].nonce_provider = "Sentry"
              THEN /\ nonce.monotonic = reply[c].last_monotonic + 1
                   /\ reply[c].last_monotonic < U64Max
              ELSE nonce = reply[c]
  PROVE  IInv'
  <1> DEFINE check == ClaimCheck(builder[c], nonce, now)
  <1>1. builder[c] \in Builders /\ SignDoc(builder[c], nonce) \in SignDocs
    BY HasBuilder, SignDocType
  <1>2. outcome[c] = None
    BY DEF IInv, CallInv, StageInv
  <1>3. ReplyInv(c)'
    BY DEF Assemble, serviceVars, IInv, CallInv, ReplyInv, Account
  <1>4. CASE check # "Ok"
    <2>1. check \in ClaimErrors /\ check \in Outcomes /\ check # None
      BY <1>4, ClaimCheckErrors, TxSigningAssumption DEF Outcomes
    <2>2. phase'[c] = "returned" /\ outcome'[c] = check
      BY <1>4 DEF Assemble, Return, IInv, TypeOK
    <2>3. TypeOK'
      BY <1>4, <2>1 DEF Assemble, Return, serviceVars, Phases, IInv, TypeOK
    <2>4. check \notin PrecheckErrors \cup {"MonotonicOverflow", "Ok"}
      BY <2>1 DEF ClaimErrors, PrecheckErrors
    <2>5. StageInv(c)'
      BY <2>1, <2>2, <2>4 DEF Assemble, IInv, CallInv, StageInv
    <2>6. DraftInv(c)'
      BY <2>2, <2>4 DEF DraftInv
    <2>7. \A d \in Calls \ {c} :
            phase'[d] = phase[d] /\ outcome'[d] = outcome[d] /\ draft'[d] = draft[d]
      BY <1>4 DEF Assemble, Return, IInv, TypeOK
    <2>8. RefusalInv(c)'
      <3>1. asked[c] => AsksProvider(builder[c])
        BY DEF IInv, CallInv, StageInv
      <3> QED
        BY <1>4, <2>2, <3>1, ClaimCheckRefusal DEF Assemble, RefusalInv
    <2> QED
      BY <1>3, <2>3, <2>5, <2>6, <2>7, <2>8, CallMoves DEF Assemble
  <1>5. CASE check = "Ok"
    <2> DEFINE d0 == [nonce |-> nonce, now_secs |-> now, sign_doc |-> SignDoc(builder[c], nonce)]
    <2>1. now \in Nat /\ d0 \in Drafts
      BY <1>1 DEF Drafts, IInv, TypeOK
    <2>2. /\ phase'[c] = "awaiting_signature" /\ draft'[c] = d0
          /\ outcome' = outcome /\ builder' = builder /\ now' = now
      BY <1>5 DEF Assemble, IInv, TypeOK
    <2>3. TypeOK'
      <3> HIDE DEF d0
      <3>1. draft' = [draft EXCEPT ![c] = d0]
        BY <1>5 DEF Assemble, d0
      <3> QED
        BY <1>5, <2>1, <3>1 DEF Assemble, serviceVars, Phases, IInv, TypeOK
    <2>4. StageInv(c)'
      BY <1>2, <2>2 DEF Assemble, IInv, CallInv, StageInv
    <2>5. DraftInv(c)'
      <3>1. outcome'[c] # "Ok"
        BY <1>2, <2>2, TxSigningAssumption DEF Outcomes
      <3> QED
        BY <1>5, <2>1, <2>2, <3>1 DEF DraftInv
    <2>6. \A d \in Calls \ {c} :
            phase'[d] = phase[d] /\ outcome'[d] = outcome[d] /\ draft'[d] = draft[d]
      BY <1>5 DEF Assemble, IInv, TypeOK
    <2>7. RefusalInv(c)'
      BY <1>2, <2>2, NoRefusal
    <2> QED
      BY <1>3, <2>3, <2>4, <2>5, <2>6, <2>7, CallMoves DEF Assemble
  <1> QED
    BY <1>4, <1>5

LEMMA SignLocallyKeeps ==
  ASSUME IInv, NEW c \in Calls, SignLocally(c)
  PROVE  IInv'
  <1>1. LocalNonce(builder[c]) \in Nonces
    BY HasBuilder, LocalNonceType DEF SignLocally
  <1> QED
    BY <1>1, AssembleKeeps DEF SignLocally

-----------------------------------------------------------------------------
(* The ends of the two waits. *)

(* A waiting call knows what it asked and that the refusals had passed. *)
LEMMA AwaitingNonce ==
  ASSUME IInv, NEW c \in Calls, phase[c] = "awaiting_nonce"
  PROVE  /\ asked[c] /\ outcome[c] = None
         /\ Precheck(builder[c]) = "Ok" /\ AsksProvider(builder[c])
  BY DEF IInv, CallInv, StageInv

LEMMA SentryReplyArrivesKeeps ==
  ASSUME IInv, NEW c \in Calls, SentryReplyArrives(c)
  PROVE  IInv'
  <1> DEFINE last == reply[c].last_monotonic
  <1>1. /\ phase[c] = "awaiting_nonce" /\ reply[c] # None
        /\ builder[c].nonce_provider = "Sentry"
        /\ UNCHANGED <<asked, reply, asked_at>> /\ UNCHANGED serviceVars
    BY DEF SentryReplyArrives
  <1>2. last \in Nat
    BY <1>1 DEF IInv, CallInv, ReplyInv, SentrySays
  <1>3. CASE last = U64Max /\ Return(c, "MonotonicOverflow") /\ UNCHANGED <<now, builder, draft, signed>>
    <2>1. "MonotonicOverflow" \in Outcomes /\ None \notin Outcomes
      BY TxSigningAssumption DEF Outcomes, NonceErrors
    <2>2. phase'[c] = "returned" /\ outcome'[c] = "MonotonicOverflow"
      BY <1>3 DEF Return, IInv, TypeOK
    <2>3. TypeOK'
      BY <1>1, <1>3, <2>1 DEF Return, serviceVars, Phases, IInv, TypeOK
    <2>4. StageInv(c)'
      BY <1>1, <1>3, <2>1, <2>2, AwaitingNonce DEF StageInv, PrecheckErrors
    <2>5. ReplyInv(c)'
      BY <1>1, <1>3 DEF serviceVars, IInv, CallInv, ReplyInv, Account
    <2>6. DraftInv(c)'
      BY <2>2 DEF DraftInv
    <2>7. \A d \in Calls \ {c} : phase'[d] = phase[d] /\ outcome'[d] = outcome[d]
      BY <1>3 DEF Return, IInv, TypeOK
    <2>8. RefusalInv(c)'
      BY <2>1, <2>2, NoRefusal DEF ClaimErrors
    <2> QED
      BY <1>1, <1>3, <2>3, <2>4, <2>5, <2>6, <2>7, <2>8, CallMoves
  <1>4. CASE last < U64Max /\ Assemble(c, SentryNonce(last))
    <2>1. SentryNonce(last) \in Nonces /\ SentryNonce(last).monotonic = last + 1
      <3>1. now % TsModulus \in Nat
        BY TxSigningAssumption DEF IInv, TypeOK
      <3> QED
        BY <1>2, <3>1 DEF SentryNonce, Nonces
    <2> QED
      BY <1>1, <1>4, <2>1, AwaitingNonce, AssembleKeeps
  <1> QED
    BY <1>3, <1>4 DEF SentryReplyArrives

LEMMA PortalReplyArrivesKeeps ==
  ASSUME IInv, NEW c \in Calls, PortalReplyArrives(c)
  PROVE  IInv'
  <1>1. /\ phase[c] = "awaiting_nonce" /\ reply[c] # None
        /\ builder[c].nonce_provider = "AgentPortal"
        /\ UNCHANGED <<asked, reply, asked_at>> /\ UNCHANGED serviceVars
    BY DEF PortalReplyArrives
  <1>2. reply[c] \in Nonces
    BY <1>1 DEF IInv, CallInv, ReplyInv
  <1> QED
    BY <1>1, <1>2, AwaitingNonce, AssembleKeeps DEF PortalReplyArrives

LEMMA ProviderFailsKeeps ==
  ASSUME IInv, NEW c \in Calls, ProviderFails(c)
  PROVE  IInv'
  <1>1. "FetchFailed" \in Outcomes /\ None \notin Outcomes
    BY TxSigningAssumption DEF Outcomes, NonceErrors
  <1>2. phase'[c] = "returned" /\ outcome'[c] = "FetchFailed"
    BY DEF ProviderFails, Return, IInv, TypeOK
  <1>3. TypeOK'
    BY <1>1 DEF ProviderFails, Return, serviceVars, Phases, IInv, TypeOK
  <1>4. StageInv(c)'
    BY <1>1, <1>2, AwaitingNonce DEF ProviderFails, StageInv, PrecheckErrors
  <1>5. ReplyInv(c)'
    BY DEF ProviderFails, serviceVars, IInv, CallInv, ReplyInv, Account
  <1>6. DraftInv(c)'
    BY <1>2 DEF DraftInv
  <1>7. \A d \in Calls \ {c} : phase'[d] = phase[d] /\ outcome'[d] = outcome[d]
    BY DEF ProviderFails, Return, IInv, TypeOK
  <1>8. RefusalInv(c)'
    BY <1>1, <1>2, NoRefusal DEF ClaimErrors
  <1> QED
    BY <1>3, <1>4, <1>5, <1>6, <1>7, <1>8, CallMoves DEF ProviderFails

LEMMA SignatureArrivesKeeps ==
  ASSUME IInv, NEW c \in Calls, SignatureArrives(c)
  PROVE  IInv'
  <1> DEFINE b == builder[c]
             stx == SignedTx(b, draft[c].nonce, SignDocWith(b.signer, draft[c].sign_doc))
  <1>1. b \in Builders /\ b.signer \in SignerType /\ draft[c] \in Drafts
    BY HasBuilder DEF SignatureArrives, IInv, CallInv, DraftInv
  <1>2. stx \in SignedTxs
    <2>1. draft[c].nonce \in Nonces /\ draft[c].sign_doc \in SignDocs
      BY <1>1 DEF Drafts
    <2> QED
      BY <1>1, <2>1, SignatureType, SignedTxType
  <1>3. /\ phase'[c] = "returned" /\ outcome'[c] = "Ok" /\ signed'[c] = stx
        /\ draft' = draft /\ builder' = builder /\ now' = now /\ reply' = reply
        /\ asked' = asked
    BY DEF SignatureArrives, Return, IInv, TypeOK
  <1>4. TypeOK'
    <2> HIDE DEF stx
    <2>1. signed' = [signed EXCEPT ![c] = stx]
      BY DEF SignatureArrives, stx
    <2>2. "Ok" \in Outcomes
      BY DEF Outcomes
    <2> QED
      BY <1>2, <2>1, <2>2 DEF SignatureArrives, Return, serviceVars, Phases, IInv, TypeOK
  <1>5. StageInv(c)'
    BY <1>3, TxSigningAssumption DEF SignatureArrives, IInv, CallInv, StageInv, Outcomes, PrecheckErrors
  <1>6. ReplyInv(c)'
    BY DEF SignatureArrives, serviceVars, IInv, CallInv, ReplyInv, Account
  <1>7. DraftInv(c)'
    <2>1. DraftInv(c) /\ phase[c] = "awaiting_signature"
      BY DEF SignatureArrives, IInv, CallInv
    <2> QED
      BY <1>3, <2>1 DEF DraftInv
  <1>8. \A d \in Calls \ {c} :
          phase'[d] = phase[d] /\ outcome'[d] = outcome[d] /\ signed'[d] = signed[d]
    BY DEF SignatureArrives, Return, IInv, TypeOK
  <1>9. RefusalInv(c)'
    BY <1>3, NoRefusal DEF ClaimErrors, Outcomes
  <1> QED
    BY <1>4, <1>5, <1>6, <1>7, <1>8, <1>9, CallMoves DEF SignatureArrives

LEMMA SignerFailsKeeps ==
  ASSUME IInv, NEW c \in Calls, SignerFails(c)
  PROVE  IInv'
  <1>1. "SignerFailed" \in Outcomes /\ None \notin Outcomes
    BY TxSigningAssumption DEF Outcomes
  <1>2. phase'[c] = "returned" /\ outcome'[c] = "SignerFailed"
    BY DEF SignerFails, Return, IInv, TypeOK
  <1>3. TypeOK'
    BY <1>1 DEF SignerFails, Return, serviceVars, Phases, IInv, TypeOK
  <1>4. StageInv(c)'
    BY <1>1, <1>2 DEF SignerFails, IInv, CallInv, StageInv, PrecheckErrors
  <1>5. ReplyInv(c)'
    BY DEF SignerFails, serviceVars, IInv, CallInv, ReplyInv, Account
  <1>6. DraftInv(c)'
    BY <1>2 DEF DraftInv
  <1>7. \A d \in Calls \ {c} : phase'[d] = phase[d] /\ outcome'[d] = outcome[d]
    BY DEF SignerFails, Return, IInv, TypeOK
  <1>8. RefusalInv(c)'
    BY <1>1, <1>2, NoRefusal DEF ClaimErrors
  <1> QED
    BY <1>3, <1>4, <1>5, <1>6, <1>7, <1>8, CallMoves DEF SignerFails

-----------------------------------------------------------------------------
(* The environment. *)

(* A call that has asked but holds no reply is waiting or has failed. *)
LEMMA NoReplyNoDraft ==
  ASSUME IInv, NEW c \in Calls, asked[c], reply[c] = None
  PROVE  phase[c] # "awaiting_signature" /\ outcome[c] # "Ok"
  BY DEF IInv, CallInv, StageInv, DraftInv

LEMMA SentryReadsKeeps ==
  ASSUME IInv, NEW c \in Calls, SentryReads(c)
  PROVE  IInv'
  <1> DEFINE answer == [last_monotonic |-> last_monotonic[Account(c)]]
  <1>1. /\ asked[c] /\ reply[c] = None /\ builder[c].nonce_provider = "Sentry"
        /\ reply' = [reply EXCEPT ![c] = answer]
        /\ UNCHANGED <<now, phase, builder, asked, draft, outcome, signed, asked_at>>
        /\ UNCHANGED serviceVars
    BY DEF SentryReads
  <1>2. Account(c) \in Accounts /\ last_monotonic[Account(c)] \in Nat
    BY <1>1, HasBuilder DEF IInv, CallInv, StageInv, TypeOK
  <1>3. answer \in SentrySays
    BY <1>2 DEF SentrySays
  <1>4. reply'[c] = answer /\ \A d \in Calls \ {c} : reply'[d] = reply[d]
    BY <1>1 DEF IInv, TypeOK
  <1>5. TypeOK'
    BY <1>1, <1>3 DEF serviceVars, IInv, TypeOK
  <1>6. CallInv(c)'
    <2>1. BuilderInv(c)' /\ StageInv(c)'
      BY <1>1 DEF IInv, CallInv, BuilderInv, StageInv
    <2>2. ReplyInv(c)'
      BY <1>1, <1>2, <1>3, <1>4 DEF serviceVars, IInv, CallInv, ReplyInv, Account
    <2>3. DraftInv(c)'
      BY <1>1, NoReplyNoDraft DEF DraftInv
    <2>4. RefusalInv(c)'
      BY <1>1 DEF IInv, CallInv, RefusalInv, ClaimErrors
    <2> QED
      BY <2>1, <2>2, <2>3, <2>4 DEF CallInv
  <1>7. \A d \in Calls \ {c} : CallInv(d)'
    <2>1. \A a \in Accounts : portal_next'[a] \in Nat /\ portal_next[a] <= portal_next'[a]
      BY <1>1 DEF serviceVars, IInv, TypeOK
    <2> QED
      BY <1>1, <1>4, <2>1, OthersKeep DEF serviceVars
  <1>8. PortalInv'
    BY <1>1, <1>4 DEF IInv, PortalInv, Account
  <1> QED
    BY <1>5, <1>6, <1>7, <1>8 DEF IInv

LEMMA PortalIssuesKeeps ==
  ASSUME IInv, NEW c \in Calls, NEW sub \in Subs, PortalIssues(c, sub)
  PROVE  IInv'
  <1> DEFINE a0 == Account(c)
             answer == [monotonic |-> portal_next[a0], ts_ms |-> now % TsModulus, sub |-> sub]
  <1>1. /\ asked[c] /\ reply[c] = None /\ builder[c].nonce_provider = "AgentPortal"
        /\ reply' = [reply EXCEPT ![c] = answer]
        /\ portal_next' = [portal_next EXCEPT ![a0] = @ + 1]
        /\ UNCHANGED <<now, phase, builder, asked, draft, outcome, signed, asked_at, last_monotonic>>
    BY DEF PortalIssues
  <1>2. a0 \in Accounts /\ portal_next[a0] \in Nat
    BY <1>1, HasBuilder DEF IInv, CallInv, StageInv, TypeOK
  <1>3. answer \in Nonces
    <2>1. now % TsModulus \in Nat /\ sub \in Nat
      BY TxSigningAssumption DEF IInv, TypeOK
    <2> QED
      BY <1>2, <2>1 DEF Nonces
  <1>4. reply'[c] = answer /\ \A d \in Calls \ {c} : reply'[d] = reply[d]
    BY <1>1 DEF IInv, TypeOK
  <1>5. /\ portal_next' \in [Accounts -> Nat]
        /\ portal_next'[a0] = portal_next[a0] + 1
        /\ \A a \in Accounts : portal_next[a] <= portal_next'[a]
    BY <1>1, <1>2 DEF IInv, TypeOK
  <1>6. TypeOK'
    <2> HIDE DEF answer
    <2> QED
      BY <1>1, <1>3, <1>5 DEF IInv, TypeOK
  <1>7. CallInv(c)'
    <2>1. BuilderInv(c)' /\ StageInv(c)'
      BY <1>1 DEF IInv, CallInv, BuilderInv, StageInv
    <2>2. ReplyInv(c)'
      BY <1>1, <1>2, <1>3, <1>4, <1>5 DEF IInv, CallInv, ReplyInv, Account
    <2>3. DraftInv(c)'
      BY <1>1, NoReplyNoDraft DEF DraftInv
    <2>4. RefusalInv(c)'
      BY <1>1 DEF IInv, CallInv, RefusalInv, ClaimErrors
    <2> QED
      BY <2>1, <2>2, <2>3, <2>4 DEF CallInv
  <1>8. \A d \in Calls \ {c} : CallInv(d)'
    BY <1>1, <1>4, <1>5, OthersKeep
  <1>9. PortalInv'
    <2>1. \A d \in Calls : /\ reply[d] # None /\ builder[d].nonce_provider # "Sentry"
                           /\ Account(d) = a0
                           => reply[d].monotonic \in Nat /\ reply[d].monotonic < portal_next[a0]
      BY DEF IInv, CallInv, ReplyInv, Nonces
    <2>2. \A d \in Calls : Account(d)' = Account(d)
      BY <1>1 DEF Account
    <2>3. \A d \in Calls \ {c} :
            /\ reply[d] # None /\ builder[d].nonce_provider # "Sentry" /\ Account(d) = a0
            => reply[d].monotonic # answer.monotonic
      BY <1>2, <2>1
    <2> HIDE DEF answer
    <2> QED
      BY <1>1, <1>4, <2>2, <2>3 DEF IInv, PortalInv
  <1> QED
    BY <1>6, <1>7, <1>8, <1>9 DEF IInv

(* The clock and the chain only raise what the calls have seen. *)
LEMMA WorldKeeps ==
  ASSUME IInv, Tick \/ \E a \in Accounts : ChainAdvances(a)
  PROVE  IInv'
  <1>1. UNCHANGED phase /\ UNCHANGED callVars /\ portal_next' = portal_next
    BY DEF Tick, ChainAdvances, serviceVars
  <1>2. /\ now' \in Nat /\ now <= now'
        /\ last_monotonic' \in [Accounts -> Nat]
        /\ \A a \in Accounts : last_monotonic[a] <= last_monotonic'[a]
    <2>1. CASE Tick
      BY <2>1 DEF Tick, serviceVars, IInv, TypeOK
    <2>2. ASSUME NEW a \in Accounts, ChainAdvances(a)
          PROVE  /\ now' = now
                 /\ last_monotonic' \in [Accounts -> Nat]
                 /\ \A x \in Accounts : last_monotonic[x] <= last_monotonic'[x]
      BY <2>2 DEF ChainAdvances, IInv, TypeOK
    <2> QED
      BY <2>1, <2>2 DEF IInv, TypeOK
  <1>3. TypeOK'
    BY <1>1, <1>2 DEF callVars, IInv, TypeOK
  <1>4. \A d \in Calls : CallInv(d)'
    <2>1. TypeOK /\ \A d \in Calls : CallInv(d)
      BY DEF IInv
    <2>2. \A a \in Accounts : portal_next'[a] \in Nat /\ portal_next[a] <= portal_next'[a]
      BY <1>1, <2>1 DEF TypeOK
    <2> QED
      BY <1>1, <1>2, <2>1, <2>2, Frame DEF callVars
  <1>5. PortalInv'
    BY <1>1, PortalKeeps DEF callVars
  <1> QED
    BY <1>3, <1>4, <1>5 DEF IInv

-----------------------------------------------------------------------------
(* The inductive invariant. *)

LEMMA InitEstablishes == Init => IInv
  <1> SUFFICES ASSUME Init PROVE IInv
    OBVIOUS
  <1>1. TypeOK
    BY TxSigningAssumption DEF Init, TypeOK, Phases
  <1>2. PortalInv
    BY DEF Init, PortalInv
  <1>3. ASSUME NEW c \in Calls
        PROVE  CallInv(c)
    BY TxSigningAssumption DEF Init, CallInv, BuilderInv, StageInv, RefusalInv, ReplyInv, DraftInv, Outcomes
  <1> QED
    BY <1>1, <1>2, <1>3 DEF IInv

LEMMA NextKeeps == IInv /\ [Next]_vars => IInv'
  <1> SUFFICES ASSUME IInv, [Next]_vars
               PROVE  IInv'
    OBVIOUS
  <1>1. ASSUME UNCHANGED vars
        PROVE  IInv'
    <2>1. TypeOK' /\ PortalInv'
      BY <1>1 DEF vars, IInv, TypeOK, PortalInv, Account
    <2>2. ASSUME NEW c \in Calls
          PROVE  CallInv(c)'
      <3>1. TypeOK /\ CallInv(c)
        BY DEF IInv
      <3> QED
        BY <1>1, <3>1, Frame DEF vars, TypeOK
    <2> QED
      BY <2>1, <2>2 DEF IInv
  <1>2. ASSUME NEW c \in Calls, NEW s \in Signers, New(c, s)
        PROVE  IInv'
    BY <1>2, NewKeeps
  <1>3. ASSUME NEW c \in Calls, Configure(c)
        PROVE  IInv'
    BY <1>3, ConfigureKeeps
  <1>4. ASSUME NEW c \in Calls, Sign(c)
        PROVE  IInv'
    BY <1>4, SignRefusedKeeps, SignLocallyKeeps, SignAskingProviderKeeps DEF Sign
  <1>5. ASSUME NEW c \in Calls, Resume(c)
        PROVE  IInv'
    BY <1>5, SentryReplyArrivesKeeps, PortalReplyArrivesKeeps, ProviderFailsKeeps,
       SignatureArrivesKeeps, SignerFailsKeeps DEF Resume
  <1>6. ASSUME NEW c \in Calls, Serve(c)
        PROVE  IInv'
    BY <1>6, SentryReadsKeeps, PortalIssuesKeeps DEF Serve
  <1>7. CASE Tick \/ \E a \in Accounts : ChainAdvances(a)
    BY <1>7, WorldKeeps
  <1> QED
    BY <1>1, <1>2, <1>3, <1>4, <1>5, <1>6, <1>7 DEF Next, AllReturned

(* Every reachable state satisfies the inductive invariant. *)
THEOREM InductiveInvariant == Spec => []IInv
  BY InitEstablishes, NextKeeps, PTL DEF Spec

(* Type correctness: every value sign() holds or returns, in every phase,  *)
(* is of the type the code declares.                                       *)
THEOREM TypeCorrect == Spec => []TypeOK
  <1>1. IInv => TypeOK
    BY DEF IInv
  <1> QED
    BY <1>1, InductiveInvariant, PTL

-----------------------------------------------------------------------------
(* Safety. *)

(* What a success is: the builder's SignedTx over a nonce that passed the  *)
(* checks. *)
LEMMA SuccessIsChecked ==
  ASSUME IInv, NEW c \in Calls, Succeeded(c)
  PROVE  LET b == builder[c]  nonce == draft[c].nonce IN
         /\ b \in Builders /\ b.signer \in SignerType /\ nonce \in Nonces
         /\ draft[c].now_secs \in Nat
         /\ Precheck(b) = "Ok"
         /\ b.signer.claim # None => b.trading_key_claim # None
         /\ ClaimCheck(b, nonce, draft[c].now_secs) = "Ok"
         /\ signed[c].tx.nonce = nonce
         /\ signed[c].tx.signatures[1].over = SignDoc(b, nonce)
         /\ CarriedOptions(c) = IF b.trading_key_claim = None THEN None
                                ELSE ClaimOptions(b.trading_key_claim)
  <1> DEFINE b == builder[c]
             nonce == draft[c].nonce
             signature == SignDocWith(b.signer, draft[c].sign_doc)
  <1>1. outcome[c] = "Ok" /\ TypeOK /\ CallInv(c)
    BY DEF IInv, Succeeded
  <1>2. phase[c] = "returned"
    BY <1>1, TxSigningAssumption DEF CallInv, StageInv, Outcomes
  <1>3. /\ b \in Builders /\ b.signer \in SignerType
        /\ b.signer.claim # None => b.trading_key_claim # None
    BY <1>1, <1>2, TxSigningAssumption DEF CallInv, BuilderInv
  <1>4. /\ draft[c] \in Drafts /\ Precheck(b) = "Ok"
        /\ ClaimCheck(b, nonce, draft[c].now_secs) = "Ok"
        /\ draft[c].sign_doc = SignDoc(b, nonce)
        /\ signed[c] = SignedTx(b, nonce, signature)
    BY <1>1 DEF CallInv, DraftInv
  <1>5. nonce \in Nonces /\ draft[c].now_secs \in Nat
    BY <1>4 DEF Drafts
  <1>6. signed[c].tx.nonce = nonce /\ signed[c].tx.signatures[1] = signature
    BY <1>4 DEF SignedTx
  <1>7. signature.over = SignDoc(b, nonce)
    BY <1>4 DEF SignDocWith
  <1>8. signed[c].tx.auth_info.signer_infos[1] = SignerInfo(b)
    BY <1>4 DEF SignedTx, AuthInfo
  <1>9. CarriedOptions(c) = IF b.trading_key_claim = None THEN None
                            ELSE ClaimOptions(b.trading_key_claim)
    BY <1>8 DEF CarriedOptions, SignerInfo
  <1> QED
    BY <1>3, <1>4, <1>5, <1>6, <1>7, <1>9

(* A claim stored on the signer is in every transaction signed with it,    *)
(* whatever setters were called (TxBuilder::new, sign step 0c).            *)
THEOREM StoredClaimCarried == Spec => []StoredClaimAlwaysCarried
  <1>1. ASSUME IInv, NEW c \in Calls, Succeeded(c), builder[c].signer.claim # None
        PROVE  CarriedOptions(c) = ClaimOptions(builder[c].signer.claim)
    <2> DEFINE b == builder[c]
    <2>1. /\ Precheck(b) = "Ok" /\ b.trading_key_claim # None
          /\ CarriedOptions(c) = ClaimOptions(b.trading_key_claim)
      BY <1>1, SuccessIsChecked
    <2>2. ClaimBytes(b.signer.claim) = ClaimBytes(b.trading_key_claim)
      BY <1>1, <2>1 DEF Precheck, ClaimDisagrees
    <2> QED
      BY <2>1, <2>2, SameBytesSameOptions
  <1>2. IInv => StoredClaimAlwaysCarried
    BY <1>1 DEF StoredClaimAlwaysCarried
  <1> QED
    BY <1>2, InductiveInvariant, PTL

(* A carried claim was in force at the assembly, covers the nonce that     *)
(* ships, and that nonce is the one the signature covers (sign step 3.5).  *)
THEOREM CarriedClaimCovers == Spec => []CarriedClaimCoversNonce
  <1>1. ASSUME IInv, NEW c \in Calls, Succeeded(c), CarriedOptions(c) # None
        PROVE  LET claim == DecodeFromSigningOptions(CarriedOptions(c)) IN
               /\ claim.expiry > draft[c].now_secs
               /\ SubInRange(claim, signed[c].tx.nonce.sub)
               /\ signed[c].tx.signatures[1].over.nonce = signed[c].tx.nonce
    <2> DEFINE b == builder[c]
               claim == b.trading_key_claim
               nonce == draft[c].nonce
               decoded == DecodeFromSigningOptions(CarriedOptions(c))
    <2>1. /\ b \in Builders /\ nonce \in Nonces /\ draft[c].now_secs \in Nat
          /\ ClaimCheck(b, nonce, draft[c].now_secs) = "Ok"
          /\ signed[c].tx.nonce = nonce
          /\ signed[c].tx.signatures[1].over = SignDoc(b, nonce)
          /\ claim # None /\ CarriedOptions(c) = ClaimOptions(claim)
      BY <1>1, SuccessIsChecked
    <2>2. claim \in TradingKeyClaim /\ draft[c].now_secs < claim.expiry /\ SubInRange(claim, nonce.sub)
      BY <2>1, ClaimCheckOk
    <2>3. /\ decoded.expiry = claim.expiry
          /\ decoded.sub_start = claim.sub_start /\ decoded.sub_end = claim.sub_end
      BY <2>1, <2>2, DecodeOfClaimOptions
    <2>4. SignDoc(b, nonce).nonce = nonce
      BY DEF SignDoc, CanonicalSignDoc
    <2>5. claim.expiry \in Nat
      BY <2>2 DEF TradingKeyClaim
    <2> HIDE DEF decoded
    <2>6. /\ decoded.expiry > draft[c].now_secs
          /\ SubInRange(decoded, signed[c].tx.nonce.sub)
      BY <2>1, <2>2, <2>3, <2>5 DEF SubInRange
    <2> QED
      BY <2>1, <2>4, <2>6 DEF decoded
  <1>2. IInv => CarriedClaimCoversNonce
    BY <1>1 DEF CarriedClaimCoversNonce
  <1> QED
    BY <1>2, InductiveInvariant, PTL

(* Where the nonce of a success that left it to a provider comes from. *)
LEMMA SuccessUsesReply ==
  ASSUME IInv, NEW c \in Calls, Succeeded(c), NEW p \in Providers, LeavesNonceTo(c, p)
  PROVE  /\ asked[c] /\ reply[c] # None
         /\ p = "AgentPortal" => signed[c].tx.nonce = reply[c]
         /\ p = "Sentry" =>
              /\ signed[c].tx.nonce.monotonic = reply[c].last_monotonic + 1
              /\ reply[c].last_monotonic < U64Max
  <1>1. AsksProvider(builder[c]) /\ builder[c].nonce_provider = p
    BY TxBuilderAssumption DEF LeavesNonceTo, AsksProvider
  <1>2. signed[c].tx.nonce = draft[c].nonce
    BY SuccessIsChecked
  <1>3. CallInv(c) /\ outcome[c] = "Ok"
    BY DEF IInv, Succeeded
  <1>4. reply[c] # None /\ asked[c]
    BY <1>1, <1>3 DEF CallInv, DraftInv, ReplyInv
  <1> QED
    BY <1>1, <1>2, <1>3, <1>4 DEF CallInv, DraftInv

(* No two transactions of an account ship the same AgentPortal nonce,      *)
(* whatever replies are late or lost (providers/portal.rs, sign step 1).   *)
THEOREM PortalNoncesNeverReused == Spec => []PortalNoncesDistinct
  <1>1. ASSUME IInv, NEW c \in Calls, NEW d \in Calls, c # d,
               Succeeded(c), Succeeded(d),
               LeavesNonceTo(c, "AgentPortal"), LeavesNonceTo(d, "AgentPortal"),
               Account(c) = Account(d)
        PROVE  signed[c].tx.nonce.monotonic # signed[d].tx.nonce.monotonic
    <2>1. /\ reply[c] # None /\ signed[c].tx.nonce = reply[c]
          /\ reply[d] # None /\ signed[d].tx.nonce = reply[d]
      BY <1>1, SuccessUsesReply DEF Providers
    <2>2. builder[c].nonce_provider # "Sentry" /\ builder[d].nonce_provider # "Sentry"
      BY <1>1 DEF LeavesNonceTo
    <2> QED
      BY <1>1, <2>1, <2>2 DEF IInv, PortalInv
  <1>2. IInv => PortalNoncesDistinct
    BY <1>1 DEF PortalNoncesDistinct
  <1> QED
    BY <1>2, InductiveInvariant, PTL

(* A Sentry nonce is above all the chain had admitted when sign() was      *)
(* called and does not wrap (providers/sentry.rs checked_add).             *)
THEOREM SentryNonceFresh == Spec => []SentryNonceAboveFloor
  <1>1. ASSUME IInv, NEW c \in Calls, Succeeded(c), LeavesNonceTo(c, "Sentry")
        PROVE  signed[c].tx.nonce.monotonic \in (asked_at[c].last_monotonic + 1) .. U64Max
    <2>1. /\ asked[c] /\ reply[c] # None /\ reply[c].last_monotonic < U64Max
          /\ signed[c].tx.nonce.monotonic = reply[c].last_monotonic + 1
      BY <1>1, SuccessUsesReply DEF Providers
    <2> DEFINE floor == asked_at[c].last_monotonic
    <2>2. /\ floor \in Nat /\ reply[c].last_monotonic \in Nat
          /\ floor <= reply[c].last_monotonic
      BY <1>1, <2>1 DEF LeavesNonceTo, IInv, CallInv, ReplyInv, SentrySays, Moments
    <2> QED
      BY <2>1, <2>2, TxSigningAssumption
  <1>2. IInv => SentryNonceAboveFloor
    BY <1>1 DEF SentryNonceAboveFloor
  <1> QED
    BY <1>2, InductiveInvariant, PTL

(* A claim that was acceptable when the nonce was asked for is refused     *)
(* after the wait only for the clock or for the sub it was given.          *)
LEMMA RefusedOnLaterNews ==
  ASSUME IInv, NEW c \in Calls, asked[c], builder[c].nonce_provider # "Sentry",
         AcceptableWhenAsked(c), outcome[c] \in ClaimErrors
  PROVE  FailedOnLaterNews(c)
  <1> DEFINE claim == builder[c].trading_key_claim
             then == asked_at[c].now
  <1>1. RefusalInv(c)
    BY DEF IInv, CallInv
  <1>2. claim # None /\ Validate(claim, then) = "Ok"
    BY <1>1 DEF RefusalInv, AcceptableWhenAsked
  <1>3. ~ (claim.sub_start >= claim.sub_end) /\ claim.signature.bytes # ZeroSig
    BY <1>2 DEF Validate
  <1>4. outcome[c] \in {"ClaimExpired", "SubOutsideClaim"}
    BY <1>1, <1>3 DEF RefusalInv, ClaimErrors
  <1> QED
    BY <1>1, <1>4 DEF RefusalInv, FailedOnLaterNews

(* An AgentPortal nonce issued to a call whose claim was acceptable when   *)
(* it asked ships with that call, or the call is waiting, or it failed on  *)
(* what was not known then: a lost reply, the signer, the clock passing    *)
(* the claim's expiry, a sub outside the claim (sign, steps 0 to 3.5).     *)
THEOREM IssuedNonceNotWasted == Spec => []IssuedNonceAccounted
  <1>1. ASSUME IInv, NEW c \in Calls, reply[c] \in Nonces, AcceptableWhenAsked(c)
        PROVE  \/ Succeeded(c) /\ signed[c].tx.nonce = reply[c]
               \/ phase[c] \in {"awaiting_nonce", "awaiting_signature"}
               \/ FailedOnLaterNews(c)
    <2>1. reply[c] # None /\ CallInv(c) /\ TypeOK
      BY <1>1, TxBuilderAssumption DEF IInv
    <2>2. /\ asked[c] /\ AsksProvider(builder[c])
          /\ phase[c] \in {"awaiting_nonce", "awaiting_signature", "returned"}
          /\ outcome[c] \notin PrecheckErrors
      BY <2>1 DEF CallInv, ReplyInv, StageInv
    <2>3. builder[c].nonce_provider # "Sentry"
      <3>1. ASSUME reply[c] \in SentrySays
            PROVE  FALSE
        BY <1>1, <3>1 DEF SentrySays, Nonces
      <3> QED
        BY <2>1, <3>1 DEF CallInv, ReplyInv
    <2>4. outcome[c] # "MonotonicOverflow"
      BY <2>1, <2>2, <2>3 DEF CallInv, StageInv
    <2>5. CASE phase[c] = "returned"
      <3>1. outcome[c] \in Outcomes
        BY <2>1, <2>5 DEF CallInv, StageInv, TypeOK
      <3>2. CASE outcome[c] = "Ok"
        <4>1. signed[c].tx.nonce = draft[c].nonce
          BY <1>1, <3>2, SuccessIsChecked DEF Succeeded
        <4>2. draft[c].nonce = reply[c]
          BY <2>1, <2>2, <2>3, <3>2 DEF CallInv, DraftInv
        <4> QED
          BY <3>2, <4>1, <4>2 DEF Succeeded
      <3>3. CASE outcome[c] \in ClaimErrors
        BY <1>1, <2>2, <2>3, <3>3, RefusedOnLaterNews
      <3>4. CASE outcome[c] \in {"FetchFailed", "SignerFailed"}
        BY <3>4 DEF FailedOnLaterNews
      <3> QED
        BY <2>2, <2>4, <3>1, <3>2, <3>3, <3>4 DEF Outcomes, NonceErrors
    <2> QED
      BY <2>2, <2>5
  <1>2. IInv => IssuedNonceAccounted
    BY <1>1 DEF IssuedNonceAccounted
  <1> QED
    BY <1>2, InductiveInvariant, PTL

(* raw_bytes holds neither nonce, chain nor genesis hash, and its hash     *)
(* still tells transactions apart by them: the signature in it is over the *)
(* SignDoc that has all three (sign steps 4 to 7, SignedTx::txhash_hex).   *)
THEOREM TxHashNamesOneTx == Spec => []TxHashNamesTx
  <1>1. ASSUME IInv, NEW c \in Calls, NEW d \in Calls, Succeeded(c), Succeeded(d),
               TxHash(signed[c]) = TxHash(signed[d])
        PROVE  /\ signed[c] = signed[d]
               /\ builder[c].chain_id = builder[d].chain_id
               /\ builder[c].genesis_hash = builder[d].genesis_hash
    <2> DEFINE Shipped(e) == SignedTx(builder[e], draft[e].nonce,
                                      SignDocWith(builder[e].signer, draft[e].sign_doc))
    <2>1. \A e \in {c, d} : /\ signed[e] = Shipped(e)
                            /\ draft[e].sign_doc = SignDoc(builder[e], draft[e].nonce)
      BY <1>1 DEF IInv, CallInv, DraftInv, Succeeded
    <2>2. signed[c].tx_raw = signed[d].tx_raw
      BY <1>1 DEF TxHash, Sha256, Encode
    <2>3. \A e \in {c, d} :
            /\ signed[e].tx.body = Body(builder[e])
            /\ signed[e].tx.auth_info = AuthInfo(builder[e])
            /\ signed[e].tx_raw.body_bytes = Encode(Body(builder[e]))
            /\ signed[e].tx_raw.auth_info_bytes = Encode(AuthInfo(builder[e]))
            /\ signed[e].tx_raw.signatures[1] =
                 SignDocWith(builder[e].signer, draft[e].sign_doc)
      BY <2>1 DEF SignedTx
    <2>4. /\ Body(builder[c]) = Body(builder[d])
          /\ AuthInfo(builder[c]) = AuthInfo(builder[d])
      BY <2>2, <2>3 DEF Encode
    <2>5. SignDocWith(builder[c].signer, draft[c].sign_doc)
            = SignDocWith(builder[d].signer, draft[d].sign_doc)
      BY <2>2, <2>3
    <2>6. SignDoc(builder[c], draft[c].nonce) = SignDoc(builder[d], draft[d].nonce)
      BY <2>1, <2>5 DEF SignDocWith
    <2>7. /\ draft[c].nonce = draft[d].nonce
          /\ builder[c].chain_id = builder[d].chain_id
          /\ builder[c].genesis_hash = builder[d].genesis_hash
      BY <2>6 DEF SignDoc, CanonicalSignDoc
    <2>8. Shipped(c) = Shipped(d)
      BY <2>4, <2>5, <2>7 DEF SignedTx
    <2> QED
      BY <2>1, <2>7, <2>8
  <1>2. IInv => TxHashNamesTx
    BY <1>1 DEF TxHashNamesTx
  <1> QED
    BY <1>2, InductiveInvariant, PTL

-----------------------------------------------------------------------------
(* A returned call is left alone. *)

LEMMA ReturnedStays ==
  ASSUME TypeOK, [Next]_vars, NEW c \in Calls, phase[c] = "returned"
  PROVE  /\ phase'[c] = "returned" /\ outcome'[c] = outcome[c]
         /\ signed'[c] = signed[c] /\ draft'[c] = draft[c] /\ builder'[c] = builder[c]
  <1> DEFINE Stays == /\ phase'[c] = phase[c] /\ outcome'[c] = outcome[c]
                      /\ signed'[c] = signed[c] /\ draft'[c] = draft[c]
                      /\ builder'[c] = builder[c]
  <1> SUFFICES Stays
    OBVIOUS
  <1> USE DEF TypeOK
  <1>1. CASE UNCHANGED vars
    BY <1>1 DEF vars
  <1>2. ASSUME NEW d \in Calls, NEW s \in Signers, New(d, s)
        PROVE  Stays
    BY <1>2 DEF New
  <1>3. ASSUME NEW d \in Calls, Configure(d)
        PROVE  Stays
    <2>1. PICK b : Set(d, b)
      BY <1>3 DEF Configure, SetChainId, SetGenesisHash, SetAccountNumber, PushMessage,
                  SetBodyFields, SetAuthFields, SetNonce, SetNonceProvider,
                  SetTradingKeyAddress, SetTradingKeyClaim
    <2> QED
      BY <2>1 DEF Set
  <1>4. ASSUME NEW d \in Calls, Sign(d)
        PROVE  Stays
    <2>1. CASE SignRefused(d)
      BY <2>1 DEF SignRefused, Return
    <2>2. CASE SignLocally(d)
      BY <2>2 DEF SignLocally, Assemble, Return
    <2>3. CASE SignAskingProvider(d)
      BY <2>3 DEF SignAskingProvider
    <2> QED
      BY <1>4, <2>1, <2>2, <2>3 DEF Sign
  <1>5. ASSUME NEW d \in Calls, Resume(d)
        PROVE  Stays
    <2>1. CASE SentryReplyArrives(d)
      BY <2>1 DEF SentryReplyArrives, Assemble, Return
    <2>2. CASE PortalReplyArrives(d)
      BY <2>2 DEF PortalReplyArrives, Assemble, Return
    <2>3. CASE ProviderFails(d) \/ SignerFails(d)
      BY <2>3 DEF ProviderFails, SignerFails, Return
    <2>4. CASE SignatureArrives(d)
      BY <2>4 DEF SignatureArrives, Return
    <2> QED
      BY <1>5, <2>1, <2>2, <2>3, <2>4 DEF Resume
  <1>6. ASSUME NEW d \in Calls, Serve(d)
        PROVE  Stays
    BY <1>6 DEF Serve, SentryReads, PortalIssues
  <1>7. CASE Tick \/ \E a \in Accounts : ChainAdvances(a)
    BY <1>7 DEF Tick, ChainAdvances, callVars
  <1> QED
    BY <1>1, <1>2, <1>3, <1>4, <1>5, <1>6, <1>7 DEF Next, AllReturned

-----------------------------------------------------------------------------
(* What the answers are worth. *)

SoundAnswers ==
  \A c \in Calls : outcome[c] = "Ok" => Contract!Sound(Answered(c), now)

ExclusiveAnswers ==
  \A c, d \in Calls :
    /\ c # d /\ outcome[c] = "Ok" /\ outcome[d] = "Ok"
    /\ Answered(c).source = "AgentPortal" /\ Answered(d).source = "AgentPortal"
    /\ Answered(c).account = Answered(d).account
    => Answered(c).nonce.monotonic # Answered(d).nonce.monotonic

(* The answer of a successful call, field by field. *)
LEMMA AnsweredOk ==
  ASSUME NEW c \in Calls, outcome[c] = "Ok"
  PROVE  /\ Answered(c).kind = "signed"
         /\ Answered(c).account = Account(c)
         /\ Answered(c).source = IF builder[c].manual_nonce = None
                                 THEN builder[c].nonce_provider ELSE None
         /\ Answered(c).nonce = signed[c].tx.nonce
         /\ Answered(c).covered_nonce = signed[c].tx.signatures[1].over.nonce
         /\ Answered(c).genesis_hash = signed[c].tx.signatures[1].over.genesis_hash
         /\ Answered(c).messages = Len(signed[c].tx.body.messages)
         /\ Answered(c).claim = IF CarriedOptions(c) = None THEN None
                                ELSE DecodeFromSigningOptions(CarriedOptions(c))
         /\ Answered(c).assembled_at = draft[c].now_secs
  <1>1. outcome[c] # None
    BY TxSigningAssumption DEF Outcomes
  <1> QED
    BY <1>1 DEF Answered

LEMMA AnsweredNone ==
  ASSUME NEW c \in Calls, outcome[c] = None
  PROVE  Answered(c) = Contract!Open
  <1>1. outcome[c] # "Ok"
    BY TxSigningAssumption DEF Outcomes
  <1> QED
    BY <1>1 DEF Answered, Contract!Open

LEMMA SuccessesSound == IInv => SoundAnswers
  <1> SUFFICES ASSUME IInv, NEW c \in Calls, outcome[c] = "Ok"
               PROVE  Contract!Sound(Answered(c), now)
    BY DEF SoundAnswers
  <1> DEFINE b == builder[c]
             nonce == draft[c].nonce
             r == Answered(c)
  <1>1. Succeeded(c)
    BY DEF Succeeded
  <1>2. /\ b \in Builders /\ nonce \in Nonces /\ draft[c].now_secs \in Nat
        /\ Precheck(b) = "Ok"
        /\ ClaimCheck(b, nonce, draft[c].now_secs) = "Ok"
        /\ signed[c].tx.nonce = nonce
        /\ signed[c].tx.signatures[1].over = SignDoc(b, nonce)
        /\ CarriedOptions(c) = IF b.trading_key_claim = None THEN None
                               ELSE ClaimOptions(b.trading_key_claim)
    BY <1>1, SuccessIsChecked
  <1>3. SignDoc(b, nonce).genesis_hash = b.genesis_hash /\ SignDoc(b, nonce).nonce = nonce
    BY DEF SignDoc, CanonicalSignDoc
  <1>4. b.genesis_hash # None /\ b.messages # <<>> /\ b.messages \in Seq(Messages)
    BY <1>2 DEF Precheck, Builders
  <1>5. signed[c].tx.body.messages = b.messages /\ draft[c].now_secs <= now
    <2>1. /\ signed[c] = SignedTx(b, nonce, SignDocWith(b.signer, draft[c].sign_doc))
          /\ draft[c].now_secs <= now
      BY DEF IInv, CallInv, DraftInv
    <2>2. SignedTx(b, nonce, SignDocWith(b.signer, draft[c].sign_doc)).tx.body = Body(b)
      BY DEF SignedTx
    <2> QED
      BY <2>1, <2>2 DEF Body
  <1>6. Len(b.messages) > 0
    BY <1>4
  <1>7. r.claim # None =>
          /\ r.assembled_at < r.claim.expiry
          /\ r.claim.sub_start <= r.nonce.sub
          /\ r.nonce.sub < r.claim.sub_end
    <2> SUFFICES ASSUME r.claim # None
                 PROVE  /\ r.assembled_at < r.claim.expiry
                        /\ r.claim.sub_start <= r.nonce.sub
                        /\ r.nonce.sub < r.claim.sub_end
      OBVIOUS
    <2> DEFINE claim == b.trading_key_claim
    <2>1. claim # None /\ r.claim = DecodeFromSigningOptions(ClaimOptions(claim))
      BY <1>2, AnsweredOk
    <2>2. /\ claim \in TradingKeyClaim
          /\ draft[c].now_secs < claim.expiry /\ SubInRange(claim, nonce.sub)
      BY <1>2, <2>1, ClaimCheckOk
    <2>3. /\ r.claim.expiry = claim.expiry
          /\ r.claim.sub_start = claim.sub_start /\ r.claim.sub_end = claim.sub_end
      BY <2>1, <2>2, DecodeOfClaimOptions
    <2>4. r.assembled_at = draft[c].now_secs /\ r.nonce = nonce
      BY <1>2, AnsweredOk
    <2> HIDE DEF r
    <2> QED
      BY <2>2, <2>3, <2>4 DEF SubInRange
  <1>8. /\ r.genesis_hash = b.genesis_hash /\ r.messages = Len(b.messages)
        /\ r.covered_nonce = nonce /\ r.nonce = nonce
        /\ r.assembled_at = draft[c].now_secs
    BY <1>2, <1>3, <1>5, AnsweredOk
  <1> HIDE DEF r
  <1>9. Contract!Sound(r, now)
    BY <1>4, <1>5, <1>6, <1>7, <1>8 DEF Contract!Sound
  <1> QED
    BY <1>9 DEF r

LEMMA SuccessesExclusive == IInv => ExclusiveAnswers
  <1> SUFFICES ASSUME IInv, NEW c \in Calls, NEW d \in Calls,
                      c # d, outcome[c] = "Ok", outcome[d] = "Ok",
                      Answered(c).source = "AgentPortal", Answered(d).source = "AgentPortal",
                      Answered(c).account = Answered(d).account
               PROVE  Answered(c).nonce.monotonic # Answered(d).nonce.monotonic
    BY DEF ExclusiveAnswers
  <1>1. None # "AgentPortal"
    BY TxBuilderAssumption DEF Providers
  <1>2. LeavesNonceTo(c, "AgentPortal") /\ LeavesNonceTo(d, "AgentPortal")
    BY <1>1, AnsweredOk DEF LeavesNonceTo
  <1>3. /\ reply[c] # None /\ signed[c].tx.nonce = reply[c]
        /\ reply[d] # None /\ signed[d].tx.nonce = reply[d]
    BY <1>2, SuccessUsesReply DEF Succeeded, Providers
  <1>4. Account(c) = Account(d)
    BY AnsweredOk
  <1>5. builder[c].nonce_provider # "Sentry" /\ builder[d].nonce_provider # "Sentry"
    BY <1>2 DEF LeavesNonceTo
  <1>6. reply[c].monotonic # reply[d].monotonic
    BY <1>3, <1>4, <1>5 DEF IInv, PortalInv
  <1> QED
    BY <1>3, <1>6, AnsweredOk

-----------------------------------------------------------------------------
(* The steps. *)

(* A step of the specification moves the clock and no answer, or answers   *)
(* at most one call and leaves the clock.                                  *)
LEMMA OneAnswerAtATime ==
  ASSUME IInv, [Next]_vars
  PROVE  \/ now' = now + 1 /\ outcome' = outcome
         \/ now' = now /\ outcome' = outcome
         \/ /\ now' = now
            /\ \E c \in Calls : /\ outcome[c] = None
                                /\ \E x \in Outcomes : outcome' = [outcome EXCEPT ![c] = x]
  <1> DEFINE Waits == now' = now /\ outcome' = outcome
             Answers == /\ now' = now
                        /\ \E c \in Calls :
                             /\ outcome[c] = None
                             /\ \E x \in Outcomes : outcome' = [outcome EXCEPT ![c] = x]
  <1>1. ASSUME NEW c \in Calls, phase[c] # "returned", NEW x \in Outcomes, Return(c, x), now' = now
        PROVE  Answers
    <2>1. outcome[c] = None
      BY <1>1 DEF IInv, CallInv, StageInv
    <2> QED
      BY <1>1, <2>1 DEF Return
  <1>2. ASSUME NEW c \in Calls, phase[c] # "returned", NEW nonce, Assemble(c, nonce)
        PROVE  Waits \/ Answers
    <2> DEFINE check == ClaimCheck(builder[c], nonce, now)
    <2>1. CASE check = "Ok"
      BY <1>2, <2>1 DEF Assemble
    <2>2. CASE check # "Ok"
      <3>1. check \in Outcomes
        BY <2>2, ClaimCheckErrors DEF Outcomes
      <3> QED
        BY <1>1, <1>2, <2>2, <3>1 DEF Assemble
    <2> QED
      BY <2>1, <2>2
  <1>3. CASE UNCHANGED vars
    BY <1>3 DEF vars
  <1>4. ASSUME NEW c \in Calls, NEW s \in Signers, New(c, s)
        PROVE  Waits
    BY <1>4 DEF New
  <1>5. ASSUME NEW c \in Calls, Configure(c)
        PROVE  Waits
    BY <1>5, ConfigureSets DEF Set
  <1>6. ASSUME NEW c \in Calls, Sign(c)
        PROVE  Waits \/ Answers
    <2>1. CASE SignRefused(c)
      <3>1. Precheck(builder[c]) \in Outcomes
        BY <2>1 DEF SignRefused, Precheck, Outcomes, PrecheckErrors
      <3> QED
        BY <1>1, <2>1, <3>1 DEF SignRefused
    <2>2. CASE SignLocally(c)
      BY <1>2, <2>2 DEF SignLocally
    <2>3. CASE SignAskingProvider(c)
      BY <2>3 DEF SignAskingProvider
    <2> QED
      BY <1>6, <2>1, <2>2, <2>3 DEF Sign
  <1>7. ASSUME NEW c \in Calls, Resume(c)
        PROVE  Waits \/ Answers
    <2>1. {"MonotonicOverflow", "FetchFailed", "SignerFailed", "Ok"} \subseteq Outcomes
      BY DEF Outcomes, NonceErrors
    <2>2. CASE SentryReplyArrives(c)
      BY <1>1, <1>2, <2>1, <2>2 DEF SentryReplyArrives
    <2>3. CASE PortalReplyArrives(c)
      BY <1>2, <2>3 DEF PortalReplyArrives
    <2>4. CASE ProviderFails(c)
      BY <1>1, <2>1, <2>4 DEF ProviderFails
    <2>5. CASE SignatureArrives(c)
      BY <1>1, <2>1, <2>5 DEF SignatureArrives
    <2>6. CASE SignerFails(c)
      BY <1>1, <2>1, <2>6 DEF SignerFails
    <2> QED
      BY <1>7, <2>2, <2>3, <2>4, <2>5, <2>6 DEF Resume
  <1>8. ASSUME NEW c \in Calls, Serve(c)
        PROVE  Waits
    BY <1>8 DEF Serve, SentryReads, PortalIssues
  <1>9. ASSUME NEW a \in Accounts, ChainAdvances(a)
        PROVE  Waits
    BY <1>9 DEF ChainAdvances, callVars
  <1>10. CASE Tick
    BY <1>10 DEF Tick, callVars
  <1> QED
    BY <1>3, <1>4, <1>5, <1>6, <1>7, <1>8, <1>9, <1>10 DEF Next, AllReturned

(* A call whose outcome does not change gives the answer it gave. *)
LEMMA AnswerStays ==
  ASSUME IInv, [Next]_vars, NEW c \in Calls, outcome'[c] = outcome[c]
  PROVE  Answered(c)' = Answered(c)
  <1>1. CASE outcome[c] = None
    BY <1>1 DEF Answered
  <1>2. CASE outcome[c] # None
    <2>1. phase[c] = "returned" /\ TypeOK
      BY <1>2 DEF IInv, CallInv, StageInv
    <2>2. builder'[c] = builder[c] /\ signed'[c] = signed[c] /\ draft'[c] = draft[c]
      BY <2>1, ReturnedStays
    <2> QED
      BY <2>2 DEF Answered, Account, CarriedOptions
  <1> QED
    BY <1>1, <1>2

LEMMA StepImplements ==
  IInv /\ SoundAnswers' /\ ExclusiveAnswers' /\ [Next]_vars
    => [Contract!ContractNext]_(Contract!contractVars)
  <1> SUFFICES ASSUME IInv, SoundAnswers', ExclusiveAnswers', [Next]_vars
               PROVE  [Contract!ContractNext]_(Contract!contractVars)
    OBVIOUS
  <1> DEFINE result == [c \in Calls |-> Answered(c)]
  <1>1. CASE outcome' = outcome
    <2>1. result' = result
      BY <1>1, AnswerStays
    <2>2. now' = now + 1 \/ now' = now
      BY OneAnswerAtATime
    <2> QED
      BY <2>1, <2>2 DEF Contract!ContractNext, Contract!TimePasses, Contract!contractVars
  <1>2. ASSUME now' = now, NEW c \in Calls, outcome[c] = None,
               NEW x \in Outcomes, outcome' = [outcome EXCEPT ![c] = x]
        PROVE  Contract!Answer(c)
    <2>1. outcome'[c] = x /\ x # None
      BY <1>2, TxSigningAssumption DEF IInv, TypeOK
    <2>2. \A d \in Calls \ {c} : Answered(d)' = Answered(d)
      BY <1>2, AnswerStays DEF IInv, TypeOK
    <2>3. result[c] = Contract!Open
      BY <1>2, AnsweredNone
    <2>4. result' = [result EXCEPT ![c] = result'[c]]
      BY <2>2
    <2>5. CASE x # "Ok"
      <3>1. result'[c] = Contract!Refused
        BY <2>1, <2>5 DEF Answered, Contract!Refused
      <3> QED
        BY <1>2, <2>3, <2>4, <3>1 DEF Contract!Answer
    <2>6. CASE x = "Ok"
      <3>1. Contract!Sound(result'[c], now)
        BY <1>2, <2>1, <2>6 DEF SoundAnswers
      <3>2. result'[c].kind = "signed"
        BY <2>1, <2>6 DEF Answered
      <3>3. Contract!Exclusive(result'[c], c)
        <4> SUFFICES ASSUME result'[c].source = "AgentPortal",
                            NEW d \in Calls \ {c},
                            result[d].kind = "signed", result[d].source = "AgentPortal",
                            result[d].account = result'[c].account
                     PROVE  result[d].nonce.monotonic # result'[c].nonce.monotonic
          BY DEF Contract!Exclusive
        <4>1. Answered(d)' = Answered(d) /\ Answered(d).kind = "signed"
          BY <2>2
        <4>2. outcome'[d] = "Ok"
          <5>1. outcome[d] = "Ok"
            BY <4>1 DEF Answered
          <5> QED
            BY <1>2, <5>1 DEF IInv, TypeOK
        <4> QED
          BY <2>1, <2>6, <4>1, <4>2 DEF ExclusiveAnswers
      <3> QED
        BY <1>2, <2>3, <2>4, <3>1, <3>2, <3>3 DEF Contract!Answer
    <2> QED
      BY <2>5, <2>6
  <1> QED
    BY <1>1, <1>2, OneAnswerAtATime DEF Contract!ContractNext

LEMMA InitImplements == Init => Contract!ContractInit
  <1> SUFFICES ASSUME Init PROVE Contract!ContractInit
    OBVIOUS
  <1>1. \A c \in Calls : Answered(c) = Contract!Open
    BY AnsweredNone DEF Init
  <1> QED
    BY <1>1 DEF Init, Contract!ContractInit

(* Concurrent sign() calls, with their suspensions, their services and     *)
(* late, lost or racing replies, implement the contract of SigningContract. *)
THEOREM Implementation == Spec => ImplementsContract
  <1> QED
    BY InitImplements, InductiveInvariant, SuccessesSound, SuccessesExclusive,
       StepImplements, PTL DEF Spec, ImplementsContract, Contract!ContractSpec

=============================================================================
