# morpheum-signing in TLA+

Specifications of the Rust workspace `morpheum-signing`: how a transaction is
configured and signed (`TxBuilder::sign`), where its nonce comes from, how an
agent's delegation (`TradingKeyClaim`) travels with it, what the chain-side
verifier (`verify_signed_tx`) makes of the result, and what happens at the
SDK's edges: keys derived from mnemonics, wallets injected into a page, the
JavaScript objects a page holds. The modules are checked with TLC; every safety
property that a passing run checks, and every refinement, is also proved with TLAPS.

## 1. The system

| Part | Source (`src/crates/`) | State | Operations |
|---|---|---|---|
| Transaction builder | `core/src/builder.rs` | the builder's fields; `sign()`'s locals across its awaits | setters, `sign` |
| Trading key claims | `core/src/claim.rs` | none (values) | `validate`, `verify`, `encode_to_vec`, `decode_from_signing_options`, `VcClaimBuilder` |
| Value types | `core/src/types.rs`, `core/src/mapper.rs` | none | key parsing and encoding, addresses and account ids, sign modes, the transaction hash, `SignedTx::decode` |
| Nonce providers | `native/src/providers/` | an HTTP client with a timeout | `next_nonce` (Sentry, AgentPortal) |
| Local signers | `core/src/signer.rs`, `native/src/signers/` | key material, an agent's stored claim | `from_seed`, `from_mnemonic`, `sign`, `public_key`, `account_id`, `sign_mode` |
| Verifier | `core/src/verifier.rs` | none (pure; loop locals) | `verify_signed_tx` |
| Preimage assembly | `core/src/preimage.rs` | none | `build_sign_doc` |
| Browser wallet adapters | `wasm-lib/src/`, `native/src/adapters/` | the key and the address read at `connect` | `connect`, `sign` through MetaMask, Phantom, a Taproot wallet |
| WASM bindings | `wasm/src/` | JavaScript objects, each owning a builder until a method consumes it | setters, `sign`, `buildSignDocBytes`, the claim builder |
| Cryptogram bridge | `core/src/cryptogram_bridge.rs` | none | `sign_digest`, `hex_sig_to_signature`, the algorithm tables |

Interactions. `sign()` consumes the builder. It suspends twice: at
`provider.next_nonce().await` and at `signer.sign().await`; between the two it
runs without interruption. The provider calls a service over HTTP: Sentry reads
the account's `last_monotonic` from a node and adds one locally; AgentPortal
hands out a complete nonce and advances its own counter. The `SignDoc` that is
signed and the preimages the verifier accepts both come from
`morpheum-primitives`, which is outside this repository. A `SignedTx` reaches a
verifier as an object, as an encoded `Tx`, or as `raw_bytes`. In a browser the
page, the wallet's user and the SDK take turns: a page may keep objects, start a
second signature while the wallet shows the first, or lose the account its
adapter was connected to.

What is hard here: several `sign()` calls in flight for one account; a service
that acts on a request whose client has given up; a claim that is checked at one
time and relied on at another; guards whose order decides whether a nonce is
lost; a signature that must bind exactly what is later verified, on runtimes of
three fork versions; sign mode, key encoding and hash chosen in different files;
a page that catches an error and goes on; a wallet whose account changes between
two awaits; numbers that are no private keys.

Correctness, per part:

* builder: a claim stored on the signer cannot be detached; a shipped nonce is in
  the claim's range and is the signed one; a nonce is spent on a call only while
  its claim is acceptable (section 5 has the exception); a call returns once, and
  does return; a transaction hash names one transaction;
* providers: nonces are fresh, not shared and do not wrap;
* local signers: no mnemonic panics, no two accounts share a key;
* verifier: every signer is checked, by the scheme its mode announces, claims are
  checked against their own signer's key, nothing bound by the signature can differ
  from what is reported;
* builder and verifier together: what was signed for a chain is admitted there
  and nowhere else;
* adapters: a signature in the form the adapter expects comes back whole, and what
  is no signature is refused (section 5 has two exceptions);
* bindings: a page signs with everything it called for, and once;
* bridge: the tables agree on the curve of every wallet type and algorithm.

## 2. The modules

| Module | Models |
|---|---|
| `SigningTypes` | `types.rs`: wallet types, sign modes, public keys, their `Any` form, addresses and account ids |
| `TradingKeyClaims` | `claim.rs`: the claim, `validate`, `verify`, its wire form and the options that carry it |
| `TxBuilder` | `builder.rs` as a value: fields, setters, the refusals, the pure parts of `sign()`; the native signers' answers; the transaction hash |
| `TxSigning` | concurrent `sign()` calls, the nonce services, the clock; all safety and liveness properties of the signing side |
| `SigningContract` | abstract: each call is answered once, soundly |
| `TxVerifier` | `verifier.rs`: `VerifySignedTx`; `SignedTx::decode` |
| `SigningSystem` | `TxSigning` and `TxVerifier` joined by the clock and the transport |
| `AdmissionContract` | abstract: an author commits once, a chain acts on the commitment or not at all |
| `VerifierCases` | `verify_signed_tx` on enumerated transactions the builder would never make |
| `VcClaims` | `VcClaimBuilder`: configuring and building a claim, and attaching it |
| `SignDocAssembly` | `preimage.rs`: assembling a SignDoc for an external wallet |
| `WalletSession` | a page, the wallet injected into it, the adapters of `wasm-lib`, and the chains |
| `WalletAdapters` | the three adapters await by await: what `connect()` caches, what `sign()` makes of every form of answer |
| `AdapterContract` | abstract: the account an adapter speaks for, and what `sign()` comes to |
| `WasmPage` | `bindings.rs`: a page's `TxBuilderWasm` objects and what their methods consume |
| `KeyDerivation` | `native/src/signers/`: BIP-32, SLIP-0010 and the seed each signer is made of |
| `CryptogramBridge` | `cryptogram_bridge.rs`: digests signed by algorithm, hex signatures converted |
| `TxBuilderProofs`, `TxSigningProofs`, `TxVerifierProofs` | lemmas about builder and verifier, theorems about `sign()` |
| `SigningSystemProofs`, `VerifierCasesProofs`, `WalletSessionProofs`, `VcClaimsProofs` | theorems about the module each is named after |
| `EdgesProofs` | theorems about the four modules `MCEdges` joins |
| `MC*` | TLC instances |

`TxSigning` extends `TxBuilder`, which extends `TradingKeyClaims` and
`SigningTypes`; `SigningSystem` extends `TxSigning` and `TxVerifier`;
`WalletSession` extends `SignDocAssembly`, which extends `TxVerifier`; `WasmPage`
extends `TxBuilder`; `KeyDerivation`, `WalletAdapters` and `CryptogramBridge`
extend `SigningTypes`. `MCEdges` puts `WasmPage`, `KeyDerivation`, `WalletAdapters`
and `CryptogramBridge` into one instance; they share no state, so a behaviour of
it exercises one of them.

Three abstract specifications are instantiated:

* `TxSigning` implements `SigningContract` under `Answered`: the result of a call.
* `SigningSystem` implements `AdmissionContract`. A commitment is read off the
  signed document (`CommittedBy`), a verdict off the chain's identity and the
  `VerifiedTx` it returns (`Report`). The two sides share no code, so that they
  agree is what the refinement says; the transport between them maps to stutters.
* `WalletAdapters` and `WalletSession` both implement `AdapterContract`, the first
  await by await and with every form of answer, the second in one step between a
  page's own. The session may therefore leave out how an adapter comes by its
  signature.

State of `TxSigning` against the code: `builder[c]` is the `TxBuilder` value;
`phase[c]` is where the future of `sign()` is (`building` before it is called,
`awaiting_nonce` inside `next_nonce().await`, `awaiting_signature` inside
`signer.sign().await`); `draft[c]` holds the locals computed between the awaits;
`outcome[c]` and `signed[c]` are the returned `Result`; `reply[c]` is what the
service made of the request, whether or not anybody still waits for it. `now` is
`SystemTime::now()`. `last_monotonic` and `portal_next` belong to the services
and are external. `asked_at[c]` is a history variable: the clock and the account's
`last_monotonic` when the call asked its provider. Each setter is an action;
`SignRefused`, `SignLocally` and `SignAskingProvider` are the three ways the
synchronous start of `sign()` ends; `SentryReplyArrives`, `PortalReplyArrives`
and `ProviderFails` end the first await, `SignatureArrives` and `SignerFails`
the second. `Assemble` is everything from the resolved nonce to the second
await and is part of the actions that resolve the nonce, as in the code.

State of `WalletSession`: `connected` is the key an adapter caches in
`connect()`, `parts` the `SignDocBytes` a page holds, `popup` the request the
wallet shows, `signature` the page's last answer, `sent` the finished
transaction. `active`, the account selected in the wallet, is external, and so
are the page's own steps (`AskWallet`, `Stamp`): the repository's functions are
called in whatever order a page chooses. State of `VcClaims`: `builder` is the
`VcClaimBuilder`, `ticket` the issuer's last signature (external), `claim` the
last `TradingKeyClaim` built.

State of `WalletAdapters`: `await` is the JavaScript promise an adapter's
function is suspended at, `adapter` what `connect()` returned with the key and
the address it keeps in its `RefCell`s, `returned` the last result of `sign()`
beside the answer it came from. The wallet's answers are records of a form
(`0xhex`, `Uint8Array`, `base64`, ...) and of bytes with a length and an owner, and
of what they are: r || s (`signature`), r || s || v (`recoverable`), one in a wider
frame (`envelope`, `witness`), a part of one (`fragment`), or characters (`text`).
`First64` turns a recoverable signature into a signature and anything else it cuts
into a fragment, so a cut signature differs from a whole one.

State of `WasmPage`: `objects[i]` is the `i`th `TxBuilderWasm` and the builder it
was made with; `live` are those whose builder no method has taken yet, which is
what `self` by value means for an exported method; `requests` the `sign()` calls
that reached a wallet. `wanted` is a history variable: what the page passed,
with the calls that threw. A setter that throws drops the builder (`Throws`);
`Answers` lets users answer requests in any order.

State of `KeyDerivation`: `job` is the local state of `bip32_derive` or
`slip0010_derive` between two turns of its loop, `made` the results returned.
`oracle` stands for HMAC-SHA512: a query asked for the first time gets any left
half, and the same again later. `EvmStep` and `SolanaStep` are one turn each;
`FinishDerivation` is the call of `from_seed` that ends `from_mnemonic`.

State of `CryptogramBridge`: `signed` are the hex texts the library returned,
`converted` what became of them, `failure` the last error. A text may lose
characters on its way.

Abstractions. Keys, messages and signatures are model values. A signature is the
record of scheme, key and document; it verifies when all three match, so curve
arithmetic and hashes are assumed sound. In `KeyDerivation` numbers are numbers,
since the property is about them; chain codes are named by their queries and so
do not collide. Encoding wraps a value and decoding unwraps it: prost is
deterministic for these messages. The fields that are only copied (memo, timeout,
tip, class, urgent; gas limit, deadline, DID, VP) are two opaque fields, except
in `WasmPage`, where the second is the gas limit. `wallet_adapter` and
`address_mapper` are stored by the builder and never read, so they are left out.

## 3. The runs

Every `pass` run completes; every property has a mutant of a mapped definition,
defined next to it and named after the bug (`ClaimCheckNoRange`,
`SentryNonceStale`, `SignBorrowing`, ...), under which TLC finds it violated.

| Run | Question | Bounds |
|---|---|---|
| `SigningOneCall` | Does any order of setters, nonce source, claim or expiry break what one call promises, and what may an issued nonce be lost to? | one call, an agent with and without stored claim and an EVM signer, four claims (same bytes, other, empty range, unsigned), clock 0..3 |
| `SigningRace` | Do two calls of one agent race safely, does each return, do they implement `SigningContract`, and does the proofs' invariant hold? | two calls, one account, both services, u64 limit 2, a claim that expires, clock 0..1 |
| `SystemAdmission` | Is a transaction admitted exactly where it was meant, and does a chain act on what was signed and nothing else (`AdmissionContract`)? | one call, five signers, eight runtimes (home before and after each fork, sibling with the same id, other id, other account number, no genesis hash), four routes |
| `VerifierCases` | Does the verifier check every signer, by the scheme its mode announces, and every claim? | up to two signers out of 22 cases, three nonces, six contexts, a part cut off or not |
| `ClaimIssue` | Does a built claim satisfy every check it will meet, and for how long? | every setter of the claim builder, a usable and an empty range, two limits and two expiries, clock 0..1, integers safe up to 3 |
| `WalletSession` | Does a page get an admitted transaction only out of one assembly, and out of every honest one? Does it take of an adapter what `AdapterContract` promises? | three wallets, two accounts, two nonces, three modes, genesis hash given or not, six runtimes |
| `Edges` | Four questions of parts that share no state: can a page sign without something it called for, or twice? can a mnemonic panic or two accounts share a key? does an adapter return the wallet's signature whole, what else may it return, and can it come to speak for another account (`AdapterContract`)? do the bridge's tables agree? | five page objects, five gas limits, a live, an expired and a malformed claim; two derivations, group order 2 of width 3; two keys, three wallets, answers in every form: 63, 64, 65, 66, 96 and 130 bytes, 63 and 64 characters; two signatures of one digest, every algorithm and wallet type |
| `SigningMisconfigured`, `SystemOwnerIssued`, `SystemRawBytes`, `WalletAdapters`, `WasmGasWraps` | statements of the repository the code does not meet (section 5) | as the run they derive from |

Why the bounds are enough. The code treats calls alike and they meet only in the
services' counters, so two calls show every pairwise race, and the proofs cover
any number. A claim is compared with the clock and with a sub: one value below,
at and above each limit is in range. u64 and u32 limits are small constants
(`U64Max`, `TsModulus`, `U64Modulus`) so that overflow and wrap-around happen.
`MaxTime`, `MaxMessages` and `U64Max` bound the state space and nothing else. One
message and none are the only cases `sign()` distinguishes. `MaxSigners` is two
because the verifier's loop carries one result from a signer to the next; the
proofs hold for any number.

In `ClaimIssue`, `MaxSafe` stands for 2^53 - 1; one limit is above it, so the
loss of precision happens. In `WalletSession` a wallet shows one request at a
time and a session ends with the one transaction it makes: what matters is which
parts and which account that transaction mixes, and two accounts and two nonces
make every mixture. Its chains are the home chain before, between and after the
forks, a sibling with the same id on either side of them, and another account
number.

In `Edges`, five objects are a builder, three setters on it, and a second
builder, which is enough to keep an old object, to drop a new one, and to have two
requests open. The page's gas limits are 0, both that the budget allows, one too
many and one that is negative. `Order` 2 and `Width` 3 leave one private key, zero
and the order itself, which is every way `bip32_derive` distinguishes numbers;
two derivations are enough for two keys to be one. `Hard` lies just above the
coin types, so that the hardened bit is a bit of its own, and `Indices` holds
the hardened alias of the default account.

Deadlock is checked in the `TxSigning`, `SigningSystem`, `ClaimIssue` and
`WalletSession` runs (`AllReturned` is the one intended end of a signing
behaviour; a finished session can always be shown to one more chain).
It is off in `VerifierCases`, which stops after the verdict, and in `Edges` and
`WasmGasWraps`, whose behaviours end at `MaxObjects`, `MaxMade` or `MaxSigned`.

Fairness. `SigningRace` is checked under `FairSpec`, which asks weak fairness of
`Resume(c)`, the steps a waiting call can take. Both HTTP clients are built with
a request timeout (`sentry.rs:42`, `portal.rs:39`), so `ProviderFails` is always
possible while a call waits, and the executor polls a future whose timer has
fired. The local signers compute without waiting. Nothing is assumed of the
services, the clock or the caller: a builder may be configured for ever and never
signed. Nothing is promised of a page either: a wallet's user need never answer.

## 4. The proofs

Each theorem is for arbitrary constants that satisfy the assumptions its module
reaches, each named, stated in the module that declares the constants, and
evaluated by TLC on every run that reaches it:

* `TxBuilderAssumption`, `TxSigningAssumption`, `SigningSystemAssumption`: `None`
  is none of the values it stands beside, the inputs are of the declared types,
  every signer's account is in `Accounts`, the modulus is positive;
* `TxVerifierAssumption`, `VerifierCasesAssumption`, `WalletSessionAssumption`:
  fork versions are naturals, the cases and the page's choices are of the declared
  types;
* `KeyDerivationAssumption`: the group order is above one and at most the width of
  the key material, and the hardened bit is above every coin type;
* `WasmPageAssumption`: the gas budget fits a u64 and is what `auth_fields` holds;
* `VcClaimsAssumption`: the claim's choices are of the declared types, limits are
  naturals with zero, their default, among them, and the largest safe integer is
  odd, as 2^53 - 1 is: were it even, the next number would round down to it and be
  taken back for the one that was signed;
* `WalletAdaptersAssumption`, `CryptogramBridgeAssumption`: the wallets are the
  three there are adapters for, and a malformed digest is no digest.

**`sign()`** (`TxSigningProofs`). The safety properties are not inductive: that a
shipped nonce is not shared needs that replies are pairwise different, which needs
that every reply is below `portal_next`; that a carried claim covers the nonce
needs to know, at the signature, which checks passed before the await. `IInv`
collects these: `BuilderInv` (a stored claim is never detached), `StageInv` (a
call that asked had passed the refusals), `RefusalInv` (a call that asked and
failed did so on its reply, on its signer, or in the claim's check against the
clock and the nonce), `ReplyInv` (replies against the services' counters), `PortalInv` (replies pairwise distinct), `DraftInv` (the
draft is what the checks passed for, with the nonce of the chosen source).

* `InductiveInvariant`: one lemma per action; `Frame`, `OthersKeep`, `CallMoves`
  and `PortalKeeps` carry the calls that do not move.
* `TypeCorrect`, `StoredClaimCarried`, `CarriedClaimCovers`,
  `PortalNoncesNeverReused`, `SentryNonceFresh` follow
  from it by `SuccessIsChecked` and `SuccessUsesReply`.
* `IssuedNonceNotWasted` needs `RefusalInv` and that `validate` asks three things of
  which only the expiry depends on the clock (`RefusedOnLaterNews`): a claim that
  passed them when the nonce was asked for can later fail by age or by the sub
  alone. The theorem says nothing of a claim that could never pass; that one costs
  the nonce, which is difference 1 of section 5.
* `TxHashNamesOneTx`: equal hashes give equal signatures, a signature gives back
  the document it covers, and the document holds nonce and chain.
* `Implementation`: `TxSigning` implements `SigningContract`. `OneAnswerAtATime`
  classifies the steps, `AnswerStays` shows the others are stutters,
  `SuccessesSound` and `SuccessesExclusive` give the contract's guards.

**The verifier** (`TxVerifierProofs`). `EverySignerChecked` turns the loop that
stops at the first failing signer into a statement about all of them: the set of
failing positions has a least element (`FirstOf`, from the well-foundedness of the
naturals), so an `Ok` verdict leaves it empty. `LadderBinds` says what every
accepted preimage has in common on a given fork, `KeyReadBack` that a key survives
its `Any` form; `EverySignerBinds` puts them together. `OneSignerPasses` is the
converse for one signer: it is admitted when the builder's choices and the
verifier's agree. The next three build on these lemmas.

**Builder and verifier** (`SigningSystemProofs`). `SystemInv` adds to `IInv` that
what travels is what `sign()` returned except for the nonce (`WireInv`,
`Faithful`), and that an admission is the verifier's answer about something that
travelled. `AdmissionBindsChain`, `AdmissionNonceSigned` and
`AdmissionClaimHolds` follow by `EverySignerBinds` and the claim check's
definition; `NoFalseRefusal` by `OneSignerPasses`, signer by signer.

`AdmissionImplementation` shows that the system implements `AdmissionContract`.
`CommitmentsSound` gives the guard of `Commit` from `IInv` (a returned call's
nonce is covered by its claim, its genesis hash is present); `ReportIsCommitment`
gives that of `Admit`: `AdmittedIsSigned` says that an admitted signature covers the
document `sign()` made for this very chain, `LastOfOne` and `CarriedClaim` the claim the verifier reports, and the
clock at the verification is below its expiry. Then, step by step,
`SigningStepImplements` (a step of `sign()` commits, ages or stutters),
`SubmissionImplements` and `VerificationImplements`; `CommitmentStays` says that
what a call has signed is not touched again. `SystemKeepsContract` carries
`SigningContract` over to the composed system.

**The verifier alone** (`VerifierCasesProofs`). `CaseInv` says the input is a
decoded transaction of the enumerated cases. `EverySigner`, `EveryClaim`,
`ReportIsSigners` (with `LastOf`, for the claim that overwrites earlier ones) and
`RebuiltBytesDoNotMatter` hold for any number of signers, and so does `EveryScheme`:
`PassesByScheme` says that a signature which passes was matched by an arm of
`verify_signature` for the signer's mode, and each arm is one pair of mode and
scheme. (`verifier.rs:320` records that one mode was once in another's arm.)

**A wallet session** (`WalletSessionProofs`). `SessionInv` follows parts, request,
signature and transaction back to their origin: `Assembled` (parts are
`build_sign_doc` of a request for the connected key), `SignedBySession`,
`MadeBySession`. A page can mix two assemblies, so the invariant must not claim
that what it holds belongs together; `OneAssembly` shows the chain refuses all
mixtures. `AssemblyBindsChain`, `AssemblyVerifies` and `SamePreimage` follow
from the same invariant.

**Key derivation** (`EdgesProofs`). `KeyInv` joins types, `ChildIsScalar`
and `MnemonicNeverPanics`, which are inductive only together: the master key need
not be a private key, so the absence of panics rests on every path having at
least one segment (`PathLength`) and on what a segment leaves (`ChildScalar`).

**Page objects** (`EdgesProofs`). `PageInv`: two live objects never stem from
one builder (`LiveInv`), a live object's builder has all that was called for on it
(`HoldInv`), and an object that asked is dead, as are all that share its builder
(`RequestInv`). `NothingIsForgotten` and `AskedOnce` follow.

**Claims** (`VcClaimsProofs`). `ClaimInv`: every signature is the placeholder or a
`Seal` of terms the issuer was shown (`Signatures`), and a claim is `Complete`.
`BuildErrorOk` says what `build()` lets through. `FormIs` says that each form the
claim is brought into is the claim with at most the variant of its signature
changed (`Retyped`), `SafeNumbers` that a number which survives
the trip through JavaScript is the one that was signed. `FormsAlwaysKeepTerms`
and `DigestAlwaysCovers` follow; `BuiltClaimsOnlyExpire` because of all that
`validate` compares only the clock moves.

**Accounts of mnemonics** (`EdgesProofs`). Two derivations could meet at a key
without sharing a path. `OriginInv` keeps, for every result and for the job under
way, its `Pedigree`: each chain code holds the query it answers, and so the key
and the path segment before it, down to the master key's. Paths have five
segments or four, so equal pedigrees are compared segment by segment, without an
induction; an EVM path and a Solana path differ in the segment before the last,
and a seed is no child (`SeedIsNoChild`). `AccountsAreDistinct` follows by
`OneOriginOneAccount`.

**Adapters** (`EdgesProofs`). `AdaptersInv` says which wallets an adapter can be of
and that what `sign()` returned is related to the wallet's answer as
`ReturnedIsSignature` says; `AnswerParses` is the case analysis over wallets, forms and contents, with
one lemma per wallet: an expected answer comes back whole, another is refused or
is one of the two `Misleading` ones. `AddressOnWire` and `Ed25519OnWire` say that the
verifier reads back the key the adapter wrote. `AdaptersImplementation` needs two
more facts: that a promise of `sign()` belongs to the adapter there is and one of
`connect()` to none (`AwaitInv`), so that no late answer replaces an account; and
that a signature names the account that was to sign (`ParsedBytes`).
`SessionUsesAdapters` (`WalletSessionProofs`) is the same for the session's
adapter, with `UseInv`.

**The bridge** (`EdgesProofs`). `BridgeInv` relates a converted signature to its
algorithm and to the wallet type it was asked for, `OneCurve` and `OneCurveOut` the
four tables to each other, `Hardware` excepted.

Only model-checked: `EveryCallReturns`, since liveness is outside the prover's
reach. Of the properties with a violation run there is nothing to prove.

## 5. Where the code and its documentation differ

1. `SigningMisconfigured`. `builder.rs:396` promises that a misconfigured caller
   loses "nothing but the call", and the genesis check is placed before the nonce
   for that reason. The claim's own validation (`builder.rs:478`) comes after: an
   empty range or a zero signature is refused once the nonce has been fetched.
2. `SystemOwnerIssued`. `claim.rs:58` wants the issuer to be the main account's
   owner, and the README example issues the claim as the `agent_id`; the verifier
   (`verifier.rs:236`) accepts only the account of the key that signed the
   transaction.
3. `SystemRawBytes`. `raw_bytes` is documented as the bytes to broadcast and
   `SignedTx::decode` as their reader, but they encode a `TxRaw`, which has no
   nonce; the decoded transaction fails verification.
4. `WalletAdapters`. `README.md:18` says that each signer produces the correct
   key type and sign mode automatically. The browser adapters announce their
   wallet type's default mode, but MetaMask signs EIP-712 typed data under a
   20-byte address and Phantom a prefixed hash; `verify_signature` supports
   neither.
5. `WasmGasWraps`. `bindings.rs:136` says that a value above the budget is refused
   before anything is signed. The parameter is a u64, which wasm-bindgen takes
   from a BigInt modulo 2^64: 2^64 + 1 passes the check as 1.

Noted while modelling, without a run of their own:

* `build_sign_doc` gives a Bitcoin chain type the ed25519 type url, where the
  native signer presents a Schnorr key. `PreimageAgreesWithBuilder` is therefore
  stated for what the comment it quotes speaks of, 32-byte Ed25519 keys.
* `bitcoin.rs:58` calls a 32-byte seed "always valid"; zero and values from the
  group order up panic there, as they do in `evm.rs:40`.
* `native.rs:48` calls taking the first half of the BIP-39 seed compatible with
  SLIP-0010; `solana.rs` derives another key from the same mnemonic.
* `taproot.rs:95` reads address and key in two awaits, between which the account
  may change; `taproot.rs:195` derives the account id from the address, the
  verifier from the key; `taproot.rs:158` announces base64 and does not decode it.
* `agent.rs:75` names the `agent_id` as account, `verifier.rs:44` reports the
  trading key's own.
* A `Hardware` wallet signs in Ed25519 mode by `types.rs:80`, and with ECDSA by
  `cryptogram_bridge.rs:108`. `TablesAgree` goes through all four tables for every
  other wallet type and excepts this one.
* Two answers mislead an adapter (`Misleading`): MetaMask's takes the first 64 bytes
  of anything longer than that (`metamask.rs:142-150`), Taproot's takes a text of 64
  characters that is no hex for the bytes themselves (`taproot.rs:164-176`). What
  they then return is no signature. `ReturnedIsSignature` names these as the only
  exceptions, and `AdapterContract` allows them of these two wallets (`Mislead`).
* `solana.rs:101` sets the hardened bit with `|`, so an index that has it already
  names the account of the index without it; `SameAccount`, on which
  `DistinctAccounts` rests, counts the two as one.
* An unrecognised sign mode stands for Ed25519 (`verifier.rs:509`). It admits Ed25519
  signatures only, which `SchemeIsAnnounced` states.

## 6. Not modelled

* The adapters of the native crate: they compile only for wasm32, and the crate's
  manifest lacks the dependencies they name there.
* `verify_digest` and `validate_chain_address` of the bridge: they hand on the
  library's verdict and change nothing.
* Zeroization of key material; the marshalling of errors into JavaScript.
* Re-exports, error messages, examples, fuzz targets.
* `accepted_preimages` and `canonical_sign_doc`: external; modelled from how
  `verifier.rs` and its tests use them, with the two forks as constants.
* A `SignedTx` whose `tx` and `tx_raw` disagree: neither the builder nor `decode`
  makes one, though the fields are public. `RebuiltBytesAgree` compares two ways to
  read one decoded transaction and says nothing of such an object.

## 7. Plan

Done: every part of section 1, the theorems of section 4.

Left, in this order:

1. `withClaim` inside a `WalletSession`: a claim attached to a transaction that a
   wallet signs, with the verifier's view of its issuer.
2. The native crate's adapters, once they compile.
