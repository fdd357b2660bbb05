---------------------------- MODULE KeyDerivation ---------------------------
(***************************************************************************)
(* How the local signers of the native crate come by their keys: from a    *)
(* 32-byte seed, or from a BIP-39 mnemonic through BIP-32 (evm.rs),        *)
(* SLIP-0010 (solana.rs) or no derivation at all (native.rs).              *)
(*                                                                         *)
(* HMAC-SHA512 is a random oracle: a query asked for the first time gets   *)
(* any left half (key material, a number below Width = 2^256), and a query *)
(* asked before gets the same again.  The right half (the chain code) has  *)
(* no collisions, so it is named by its query.  Order is that of the       *)
(* secp256k1 group; half the interest is in numbers from Order up to       *)
(* Width, and in zero, which are no private keys.                          *)
(***************************************************************************)
EXTENDS SigningTypes, FiniteSets

CONSTANTS
  Phrases,     \* mnemonic and passphrase pairs
  BadPhrases,  \* the phrases Mnemonic::parse refuses
  Indices,     \* account indices asked for
  Order,       \* order of the secp256k1 group
  Width,       \* 2^256
  Hard,        \* 2^31, the hardened bit of a path segment
  MaxMade      \* bound: requests answered in a behaviour

ASSUME KeyDerivationAssumption ==
  /\ BadPhrases \subseteq Phrases
  /\ Order \in Nat /\ Width \in Nat /\ 1 < Order /\ Order <= Width
  /\ Hard \in Nat /\ 501 < Hard
  /\ Indices \subseteq 0 .. 2 * Hard - 1
  /\ MaxMade \in Nat

VARIABLES
  oracle,   \* HMAC-SHA512 as far as it has been asked: query -> left half
  job,      \* the derivation under way
  made      \* the requests answered: Ok with a key, Err, or Panic

derivationVars == <<oracle, job, made>>

Schemes == {"Native", "Agent", "Evm", "Solana", "Bitcoin"}
Numbers == 0 .. Width - 1

DerivationInit == oracle = <<>> /\ job = None /\ made = {}

-----------------------------------------------------------------------------
(* A signer's key: the number and, for what came out of HMAC, the query    *)
(* that last went into it.                                                 *)

Outcome(request, result, key, origin) ==
  [request |-> request, result |-> result, key |-> key, origin |-> origin]

SeedRequest(scheme)               == [via |-> "seed", scheme |-> scheme]
PhraseRequest(scheme, phrase, i)  ==
  [via |-> "mnemonic", scheme |-> scheme, phrase |-> phrase, index |-> i]

(* SecpSigningKey::from_slice and Keypair::from_seckey_slice accept 1..n-1; *)
(* an ed25519 SigningKey is made of any 32 bytes.                           *)
IsScalarKey(n) == n \in 1 .. Order - 1

EvmFromSeed(request, n, origin) ==
  Outcome(request, IF IsScalarKey(n) THEN "Ok" ELSE "Panic", n, origin)

BitcoinFromSeed(request, n, origin) ==
  Outcome(request, IF IsScalarKey(n) THEN "Ok" ELSE "Panic", n, origin)

Ed25519FromSeed(request, n, origin) == Outcome(request, "Ok", n, origin)

FromSeed(request, n, origin) ==
  CASE request.scheme = "Evm"     -> EvmFromSeed(request, n, origin)
    [] request.scheme = "Bitcoin" -> BitcoinFromSeed(request, n, origin)
    [] OTHER                      -> Ed25519FromSeed(request, n, origin)

Respond(o) == made' = made \cup {o}

-----------------------------------------------------------------------------
(* Paths. *)

(* index | 0x8000_0000 *)
Harden(i) == IF i < Hard THEN i + Hard ELSE i

EvmPath(i) == <<Harden(44), Harden(60), Harden(0), 0, i>>

SolanaPath(i) == <<Harden(44), Harden(501), Harden(i), Harden(0)>>

Path(scheme, i) == IF scheme = "Evm" THEN EvmPath(i) ELSE SolanaPath(i)

-----------------------------------------------------------------------------
(* The queries, as terms: chain code, what stands for the key, the index.  *)

HmacKey(scheme) == [hmac |-> IF scheme = "Evm" THEN "Bitcoin seed" ELSE "ed25519 seed"]

(* Mnemonic::to_seed, whose first 32 bytes NativeSigner takes. *)
SeedQuery(phrase) == [code |-> [hmac |-> "mnemonic"], seed |-> phrase]

MasterQuery(scheme, phrase) == [code |-> HmacKey(scheme), seed |-> phrase]

(* Hardened, 0x00 and the key; else the compressed public key, which names *)
(* the same key by other bytes.                                            *)
ChildQuery(chain, key, i) ==
  [code |-> chain, of |-> IF i >= Hard THEN "key" ELSE "pubkey", key |-> key, index |-> i]

(* Mutant: the tweak is added as it is, and the sum not taken mod n. *)
EvmChildUnreduced(parent, left) ==
  IF parent >= Order \/ parent + left = 0 THEN None ELSE parent + left

(* Mutant: the sum is not checked. *)
EvmChildUnchecked(parent, left) ==
  IF parent >= Order \/ left >= Order THEN None
  ELSE IF parent + left >= Order THEN parent + left - Order ELSE parent + left

(* parent + tweak (mod n): neither may be n or more, nor the sum zero. *)
EvmChild(parent, left) ==
  LET sum == parent + left IN
  IF parent >= Order \/ left >= Order \/ sum \in {0, Order} THEN None
  ELSE IF sum > Order THEN sum - Order ELSE sum

(* The oracle answers q with left. *)
Ask(q, left) ==
  /\ (q \in DOMAIN oracle => left = oracle[q])
  /\ oracle' = [x \in DOMAIN oracle \cup {q} |-> IF x = q THEN left ELSE oracle[x]]

-----------------------------------------------------------------------------
(* The requests. *)

Ready == job = None /\ Cardinality(made) < MaxMade

MakeFromSeed(scheme, n) ==
  /\ Ready
  /\ Respond(FromSeed(SeedRequest(scheme), n, None))
  /\ UNCHANGED <<oracle, job>>

(* invalid BIP-39 mnemonic *)
RefusePhrase(request) ==
  /\ Ready /\ request.phrase \in BadPhrases
  /\ Respond(Outcome(request, "Err", None, None))
  /\ UNCHANGED <<oracle, job>>

(* NativeSigner::from_mnemonic *)
NativeFromMnemonic(phrase, left) ==
  /\ Ready /\ phrase \notin BadPhrases
  /\ Ask(SeedQuery(phrase), left)
  /\ Respond(FromSeed(PhraseRequest("Native", phrase, None), left, SeedQuery(phrase)))
  /\ UNCHANGED job

(* from_mnemonic_with_index, up to the master key. *)
StartDerivation(request, left) ==
  /\ Ready /\ request.phrase \notin BadPhrases
  /\ LET q == MasterQuery(request.scheme, request.phrase) IN
     /\ Ask(q, left)
     /\ job' = [request |-> request, depth |-> 0, key |-> left, chain |-> q]
  /\ UNCHANGED made

JobPath == Path(job.request.scheme, job.request.index)
Segment == JobPath[job.depth + 1]

Fail ==
  /\ Respond(Outcome(job.request, "Err", None, None))
  /\ job' = None

(* Mutant: the chain code stays that of the master key. *)
DescendOldChain(q, key) == job' = [job EXCEPT !.depth = @ + 1, !.key = key]

Descend(q, key) == job' = [job EXCEPT !.depth = @ + 1, !.key = key, !.chain = q]

(* One turn of bip32_derive's loop. *)
EvmStep(left) ==
  /\ job # None /\ job.request.scheme = "Evm" /\ job.depth < Len(JobPath)
  /\ IF Segment < Hard /\ ~IsScalarKey(job.key)
     THEN Fail /\ UNCHANGED oracle
     ELSE LET q == ChildQuery(job.chain, job.key, Segment)
              child == EvmChild(job.key, left)
          IN /\ Ask(q, left)
             /\ IF child = None THEN Fail ELSE Descend(q, child) /\ UNCHANGED made

(* One turn of slip0010_derive's loop. *)
SolanaStep(left) ==
  /\ job # None /\ job.request.scheme = "Solana" /\ job.depth < Len(JobPath)
  /\ IF Segment < Hard
     THEN Fail /\ UNCHANGED oracle
     ELSE LET q == ChildQuery(job.chain, job.key, Segment)
          IN Ask(q, left) /\ Descend(q, left) /\ UNCHANGED made

(* from_seed over the derived key; the key's last query is its chain code. *)
FinishDerivation ==
  /\ job # None /\ job.depth = Len(JobPath)
  /\ Respond(FromSeed(job.request, job.key, job.chain))
  /\ job' = None
  /\ UNCHANGED oracle

DerivationRequests ==
  {PhraseRequest(scheme, phrase, i) :
     scheme \in {"Evm", "Solana"}, phrase \in Phrases, i \in Indices}

PhraseRequests ==
  DerivationRequests \cup {PhraseRequest("Native", phrase, None) : phrase \in Phrases}

DerivationNext ==
  \/ \E scheme \in Schemes, n \in Numbers : MakeFromSeed(scheme, n)
  \/ \E request \in PhraseRequests : RefusePhrase(request)
  \/ \E phrase \in Phrases, left \in Numbers : NativeFromMnemonic(phrase, left)
  \/ \E request \in DerivationRequests, left \in Numbers : StartDerivation(request, left)
  \/ \E left \in Numbers : EvmStep(left) \/ SolanaStep(left)
  \/ FinishDerivation

DerivationSpec == DerivationInit /\ [][DerivationNext]_derivationVars

-----------------------------------------------------------------------------
(* Properties. *)

(* Types: a derivation holds a number and a place in its path, and what is  *)
(* answered is a key, an error or a panic.                                  *)
DerivationTypeOK ==
  /\ job # None =>
       /\ job = [request |-> job.request, depth |-> job.depth,
                 key |-> job.key, chain |-> job.chain]
       /\ job.request \in DerivationRequests
       /\ job.depth \in 0 .. Len(JobPath)
       /\ job.key \in Numbers
  /\ \A o \in made : o.result \in {"Ok", "Err", "Panic"}

(* What keeps from_seed from panicking: past the first segment, bip32_derive *)
(* holds a private key.                                                      *)
ChildIsScalar ==
  job # None /\ job.request.scheme = "Evm" /\ job.depth > 0 => IsScalarKey(job.key)

(* from_mnemonic returns a Result, but ends in from_seed, which panics: no *)
(* mnemonic and no index ever reach the panic, since what the loop of      *)
(* bip32_derive leaves is a private key -- although the master key, and a  *)
(* hardened parent, need not be one.                                       *)
MnemonicNeverPanics ==
  \A o \in made : o.request.via = "mnemonic" => o.result # "Panic"

(* Whether two indices name the same account: of EvmSigner none do, while  *)
(* SolanaSigner sets the hardened bit of whatever index it is given.       *)
SameAccount(scheme, i, j) ==
  i = j \/ (scheme = "Solana" /\ Harden(i) = Harden(j))

(* "allowing multiple accounts from one mnemonic": keys with one origin    *)
(* were asked of the same scheme, mnemonic and account.                    *)
DistinctAccounts ==
  \A o, p \in made :
    o.result = "Ok" /\ o.origin # None /\ o.origin = p.origin =>
      /\ o.request.scheme = p.request.scheme
      /\ o.request.phrase = p.request.phrase
      /\ SameAccount(o.request.scheme, o.request.index, p.request.index)

=============================================================================
