--------------------------- MODULE WalletAdapters ---------------------------
(***************************************************************************)
(* The adapters of wasm-lib between an injected wallet and the Signer      *)
(* trait, await by await: what connect() asks and caches, what sign()      *)
(* makes of the wallet's answer, and which account the adapter says it     *)
(* signs for.  The wallet may answer in any form wallets answer in, and    *)
(* its user may switch accounts between any two awaits.  What comes of it  *)
(* is AdapterContract; WalletSession takes that in one step and follows    *)
(* the transaction.                                                        *)
(***************************************************************************)
EXTENDS SigningTypes

CONSTANT Wallets   \* wallets installed, of {"MetaMask", "Phantom", "Taproot"}

ASSUME WalletAdaptersAssumption == Wallets \subseteq {"MetaMask", "Phantom", "Taproot"}

VARIABLES
  active,    \* the account the wallet's user has selected (external)
  await,     \* the promise connect() or sign() is waiting for
  adapter,   \* what connect() returned: the wallet, the key and the address it cached
  returned   \* what the last sign() returned

adapterVars == <<active, await, adapter, returned>>

AdaptersInit == active \in Keys /\ await = None /\ adapter = None /\ returned = None

-----------------------------------------------------------------------------
(* Wallets (external).  An answer is of some form and carries bytes: an    *)
(* address, a key, a signature (r || s, or a Schnorr or Ed25519 one), a    *)
(* recoverable signature with its recovery byte, a witness, which is a     *)
(* signature after two bytes of framing, the longer envelope of a contract *)
(* wallet, a fragment -- or just the characters of a text that is no hex.  *)

SwitchAccount(k) ==
  /\ k # active
  /\ active' = k
  /\ UNCHANGED <<await, adapter, returned>>

Answer(form, what, len, k) ==
  [form |-> form, bytes |-> [what |-> what, len |-> len, key |-> k]]

NoAnswer == [form |-> "absent", bytes |-> None]

AccountAnswers(w) ==
  {NoAnswer} \cup
  CASE w = "MetaMask" -> {Answer(f, "address", 20, active) : f \in {"0xhex", "hex", "text"}}
    [] w = "Phantom"  -> {Answer(f, "key", 32, active) : f \in {"PublicKey", "Uint8Array", "text"}}
    [] OTHER          -> {Answer("text", "address", 62, active)}

KeyAnswers ==
  {NoAnswer} \cup
  {Answer(f, "key", n, active) : f \in {"0xhex", "hex"}, n \in {32, 33, 65}}

(* MetaMask signs for the address it is told, the others for whoever is    *)
(* selected when the user approves.                                        *)
SignatureAnswers(w) ==
  {NoAnswer} \cup
  CASE w = "MetaMask" ->
         {Answer(f, x[1], x[2], adapter.key) :
            f \in {"0xhex", "hex", "text"},
            x \in {<<"recoverable", 65>>, <<"fragment", 63>>, <<"envelope", 130>>}}
    [] w = "Phantom"  ->
         {Answer(f, x[1], x[2], active) :
            f \in {"Uint8Array", "text"}, x \in {<<"signature", 64>>, <<"envelope", 96>>}}
    [] OTHER          ->
         {Answer(f, x[1], x[2], active) :
            f \in {"0xhex", "hex", "base64"}, x \in {<<"signature", 64>>, <<"witness", 66>>}}
         \cup {Answer("text", "text", n, active) : n \in {63, 64}}

-----------------------------------------------------------------------------
(* connect() *)

Connected(w, k, address) == [wallet |-> w, key |-> k, address |-> address]

RequestAccounts(w) ==
  /\ adapter = None /\ await = None
  /\ await' = [call |-> "requestAccounts", wallet |-> w]
  /\ UNCHANGED <<active, adapter, returned>>

Awaits(call, w) == await # None /\ await.call = call /\ await.wallet = w

(* MetaMask: the first account, 20 bytes of hex with or without 0x. *)
MetaMaskConnects ==
  /\ Awaits("requestAccounts", "MetaMask")
  /\ \E a \in AccountAnswers("MetaMask") :
       adapter' = IF a.form \in {"0xhex", "hex"} /\ a.bytes.len = 20
                  THEN Connected("MetaMask", a.bytes.key, None) ELSE None
  /\ await' = None
  /\ UNCHANGED <<active, returned>>

(* Phantom: publicKey.toBytes(), or publicKey itself if it is bytes. *)
PhantomConnects ==
  /\ Awaits("requestAccounts", "Phantom")
  /\ \E a \in AccountAnswers("Phantom") :
       adapter' = IF a.form \in {"PublicKey", "Uint8Array"} /\ a.bytes.len = 32
                  THEN Connected("Phantom", a.bytes.key, None) ELSE None
  /\ await' = None
  /\ UNCHANGED <<active, returned>>

(* Unisat: the address first, then a second await for the key. *)
TaprootAddressArrives ==
  /\ Awaits("requestAccounts", "Taproot")
  /\ \E a \in AccountAnswers("Taproot") :
       await' = IF a.form = "absent" THEN None
                ELSE [call |-> "getPublicKey", wallet |-> "Taproot", address |-> a.bytes.key]
  /\ UNCHANGED <<active, adapter, returned>>

(* Hex without 0x, of 32 bytes, or of 33 less the prefix byte. *)
TaprootKeyArrives ==
  /\ Awaits("getPublicKey", "Taproot")
  /\ \E a \in KeyAnswers :
       adapter' = IF a.form = "hex" /\ a.bytes.len \in {32, 33}
                  THEN Connected("Taproot", a.bytes.key, await.address) ELSE None
  /\ await' = None
  /\ UNCHANGED <<active, returned>>

-----------------------------------------------------------------------------
(* sign() *)

RequestSignature ==
  /\ adapter # None /\ await = None
  /\ await' = [call |-> "sign", wallet |-> adapter.wallet]
  /\ UNCHANGED <<active, adapter, returned>>

(* The first 64 bytes: of a recoverable signature r || s, of anything else  *)
(* that is longer only a part.                                             *)
First64(bytes) ==
  CASE bytes.len = 64             -> bytes
    [] bytes.what = "recoverable" -> [what |-> "signature", len |-> 64, key |-> bytes.key]
    [] OTHER                      -> [what |-> "fragment", len |-> 64, key |-> bytes.key]

(* (result, bytes) of what an adapter made of an answer. *)
Accepted(bytes) == [result |-> "Ok", bytes |-> bytes]
Refused == [result |-> "Err", bytes |-> None]

(* r || s || v in hex, less the recovery byte. *)
MetaMaskSignature(a) ==
  IF a.form \in {"0xhex", "hex"} /\ a.bytes.len >= 64 THEN Accepted(First64(a.bytes)) ELSE Refused

PhantomSignature(a) ==
  IF a.form = "Uint8Array" /\ a.bytes.len = 64 THEN Accepted(a.bytes) ELSE Refused

(* A string that is no hex counts as the bytes of its own characters; of   *)
(* base64, four to every three bytes.                                      *)
TaprootBytes(a) ==
  IF a.form = "base64"
  THEN [what |-> "text", len |-> 4 * ((a.bytes.len + 2) \div 3), key |-> a.bytes.key]
  ELSE a.bytes

(* Mutant: the length is checked as MetaMask's is. *)
TaprootSignatureTruncated(a) ==
  IF a.form # "absent" /\ TaprootBytes(a).len >= 64
  THEN Accepted(First64(TaprootBytes(a))) ELSE Refused

TaprootSignature(a) ==
  IF a.form # "absent" /\ TaprootBytes(a).len = 64 THEN Accepted(TaprootBytes(a)) ELSE Refused

ParseSignature(w, a) ==
  CASE w = "MetaMask" -> MetaMaskSignature(a)
    [] w = "Phantom"  -> PhantomSignature(a)
    [] OTHER          -> TaprootSignature(a)

(* Mutant: the cached key follows the account that is selected by then. *)
SignatureArrivesRefreshing ==
  /\ await # None /\ await.call = "sign"
  /\ \E a \in SignatureAnswers(await.wallet) :
       returned' = [wallet |-> await.wallet, answer |-> a,
                    parsed |-> ParseSignature(await.wallet, a)]
  /\ await' = None
  /\ adapter' = [adapter EXCEPT !.key = active]
  /\ UNCHANGED active

SignatureArrives ==
  /\ await # None /\ await.call = "sign"
  /\ \E a \in SignatureAnswers(await.wallet) :
       returned' = [wallet |-> await.wallet, answer |-> a,
                    parsed |-> ParseSignature(await.wallet, a)]
  /\ await' = None
  /\ UNCHANGED <<active, adapter>>

(* The promise is rejected: connect() or sign() returns the error. *)
WalletRejects ==
  /\ await # None
  /\ await' = None
  /\ returned' = IF await.call = "sign"
                 THEN [wallet |-> await.wallet, answer |-> NoAnswer, parsed |-> Refused]
                 ELSE returned
  /\ UNCHANGED <<active, adapter>>

AdaptersNext ==
  \/ \E k \in Keys : SwitchAccount(k)
  \/ \E w \in Wallets : RequestAccounts(w)
  \/ MetaMaskConnects \/ PhantomConnects \/ TaprootAddressArrives \/ TaprootKeyArrives
  \/ RequestSignature \/ SignatureArrives \/ WalletRejects

AdaptersSpec == AdaptersInit /\ [][AdaptersNext]_adapterVars

-----------------------------------------------------------------------------
(* What the adapter presents as a Signer. *)

PublicKeyProto ==
  CASE adapter.wallet = "MetaMask" -> ToProtoAny([kind |-> "EvmAddress", key |-> adapter.key])
    [] adapter.wallet = "Phantom"  -> ToProtoAny([kind |-> "Ed25519", key |-> adapter.key])
    [] OTHER                       -> ToProtoAny([kind |-> "Schnorr", key |-> adapter.key])

(* Mutant: MetaMask's account is that of a whole public key. *)
AccountIdOfKey ==
  CASE adapter.wallet = "MetaMask" -> ToAccountId([kind |-> "Secp256k1", key |-> adapter.key])
    [] OTHER                       -> AddressAccountId([kind |-> "Solana", key |-> adapter.key])

AccountId ==
  CASE adapter.wallet = "MetaMask" -> AddressAccountId([kind |-> "Evm", key |-> adapter.key])
    [] adapter.wallet = "Phantom"  -> AddressAccountId([kind |-> "Solana", key |-> adapter.key])
    [] OTHER                       -> AddressAccountId([kind |-> "Bitcoin", key |-> adapter.address])

-----------------------------------------------------------------------------
(* Properties. *)

Whole(k) == [what |-> "signature", len |-> 64, key |-> k]

(* The wallet signed and answered as the adapter expects of it: r || s || v *)
(* in hex (metamask.rs:137), a Uint8Array (phantom.rs), hex (taproot.rs).   *)
Recognised(w, a) ==
  CASE w = "MetaMask" -> a.form \in {"0xhex", "hex"} /\ a.bytes.what = "recoverable"
    [] w = "Phantom"  -> a.form = "Uint8Array" /\ a.bytes.what = "signature"
    [] OTHER          -> a.form \in {"0xhex", "hex"} /\ a.bytes.what = "signature"

(* What is no signature and passes for one: more than 65 bytes, of which   *)
(* MetaMask's adapter takes the first 64 (metamask.rs:142-150), and a text *)
(* of 64 characters that is no hex (48 bytes in base64 make one), which    *)
(* Taproot's takes for the bytes (taproot.rs:164-176).                     *)
Misleading(w, a) ==
  \/ w = "MetaMask" /\ a.form \in {"0xhex", "hex"} /\ a.bytes.what = "envelope"
  \/ w = "Taproot" /\ a.form = "text" /\ a.bytes.len = 64

(* Three wallets answer in many forms, and each adapter finds the 64 bytes *)
(* of a signature in its own way.  An answer in the form the adapter       *)
(* expects is never refused nor damaged: sign() returns the whole          *)
(* signature the wallet made.  Of the other answers -- framed in a         *)
(* witness, too short, base64, text -- sign() returns an error, save two   *)
(* that mislead it.                                                        *)
ReturnedIsSignature ==
  returned # None =>
    LET w == returned.wallet  a == returned.answer IN
    /\ Recognised(w, a) => returned.parsed = Accepted(Whole(a.bytes.key))
    /\ returned.parsed.result = "Ok" =>
         returned.parsed.bytes = Whole(a.bytes.key) \/ Misleading(w, a)

(* The account id of an adapter is derived from an address, the one the    *)
(* verifier reports from the key in SignerInfo, in two crates: of MetaMask *)
(* and Phantom they are the same account.                                  *)
AdapterAccountIsVerifiers ==
  adapter # None /\ adapter.wallet # "Taproot" =>
    AccountId = ToAccountId(FromProtoAny(PublicKeyProto))

-----------------------------------------------------------------------------
(* What the SDK sees of an adapter, and the contract it is held to. *)

Holder ==
  IF adapter = None THEN [wallet |-> "none"]
  ELSE [wallet |-> adapter.wallet, key |-> adapter.key]

SignOutcome ==
  IF returned = None \/ returned.parsed.result # "Ok" THEN [what |-> "nothing"]
  ELSE IF returned.parsed.bytes.what = "signature" THEN returned.parsed.bytes
  ELSE [what |-> "no signature"]

Adapter == INSTANCE AdapterContract
             WITH selected <- active, holder <- Holder, answer <- SignOutcome

(* The three adapters, await by await, implement the contract WalletSession *)
(* builds on: a page, a rejected promise or a switched account never       *)
(* changes the account an adapter speaks for; a signature is whole, and of *)
(* the account the wallet was to sign for; Phantom's adapter returns       *)
(* nothing else, the others may be misled.                                 *)
ImplementsAdapter == Adapter!AdapterSpec

=============================================================================
