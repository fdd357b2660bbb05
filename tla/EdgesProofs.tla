----------------------------- MODULE EdgesProofs -----------------------------
(***************************************************************************)
(* The four parts at the SDK's edges, for every value of their constants:  *)
(* the builder objects of a page, the keys of local signers, the adapters  *)
(* of browser wallets, and the bridge to the cryptogram library.           *)
(***************************************************************************)
EXTENDS WasmPage, KeyDerivation, WalletAdapters, CryptogramBridge, TxBuilderProofs

-----------------------------------------------------------------------------
(* WasmPage: a page's builder objects, any number of them, with any gas    *)
(* budget and any integers passed for gas.  A builder is in one place at a *)
(* time, and it is what the page called for on the object that holds it.   *)

Objects == [builder : Builders, root : Nat]

Wants == [gas : PageGas \cup {None}, claim : TradingKeyClaim \cup {None, Malformed},
          messages : Seq(Messages)]

Requests == [object : Nat, builder : Builders, nonce : Nonces,
             answer : {"open", "approved", "rejected"}]

(* The builder has all that was called for. *)
Holds(b, want) ==
  /\ b.auth_fields = IF want.gas = None THEN DefaultAuthFields ELSE AsU64(want.gas)
  /\ b.trading_key_claim = want.claim
  /\ b.messages = want.messages

PageTypeOK ==
  /\ objects \in Seq(Objects)
  /\ wanted \in Seq(Wants)
  /\ Len(wanted) = Len(objects)
  /\ \A i \in live : i \in 1 .. Len(objects)

(* Every builder stems from an object made before or with it. *)
RootInv == \A i \in 1 .. Len(objects) : objects[i].root \in 1 .. Len(objects)

(* Two live objects never stem from one new...() call. *)
LiveInv == \A i, j \in live : i # j => objects[i].root # objects[j].root

HoldInv == \A i \in live : Holds(objects[i].builder, wanted[i])

(* An object that asked its wallet is dead, and so is every object that    *)
(* shares its builder.                                                     *)
RequestInv ==
  /\ requests \in Seq(Requests)
  /\ \A n \in 1 .. Len(requests) :
       /\ requests[n].object \in 1 .. Len(objects)
       /\ requests[n].object \notin live
       /\ \A i \in live : objects[i].root # objects[requests[n].object].root
       /\ Holds(requests[n].builder, wanted[requests[n].object])

PageInv == PageTypeOK /\ RootInv /\ LiveInv /\ HoldInv /\ RequestInv /\ OneRequestPerBuilder

LEMMA PageInitEstablishes == PageInit => PageInv
  BY DEF PageInit, PageInv, PageTypeOK, RootInv, LiveInv, HoldInv, RequestInv,
         OneRequestPerBuilder

-----------------------------------------------------------------------------
(* The objects that were there stay what they were. *)

(* Appending to a sequence. *)
LEMMA AppendKeeps ==
  ASSUME NEW S, NEW s \in Seq(S), NEW x \in S
  PROVE  /\ Append(s, x) \in Seq(S)
         /\ Len(Append(s, x)) = Len(s) + 1
         /\ Append(s, x)[Len(s) + 1] = x
         /\ \A i \in 1 .. Len(s) : Append(s, x)[i] = s[i]
  OBVIOUS

(* An object is made, from a builder that the objects of D held or that is *)
(* new, with a root no other live object and no request has; D dies.       *)
LEMMA AddKeeps ==
  ASSUME PageInv, NEW b \in Builders, NEW want \in Wants, Holds(b, want),
         NEW root \in 1 .. Len(objects) + 1,
         NEW D, \A i \in D : i \in live,
         NEW old \in Seq(Wants), Len(old) = Len(objects),
         \A i \in 1 .. Len(objects) : i \notin D => old[i] = wanted[i],
         \A i \in live : i \notin D => objects[i].root # root,
         \A m \in 1 .. Len(requests) : objects[requests[m].object].root # root,
         objects' = Append(objects, [builder |-> b, root |-> root]),
         wanted' = Append(old, want),
         live' = (live \ D) \cup {Len(objects) + 1},
         requests' = requests
  PROVE  PageInv'
<1> DEFINE n == Len(objects)
           k == n + 1
           o == [builder |-> b, root |-> root]
<1>1. /\ objects \in Seq(Objects) /\ wanted \in Seq(Wants) /\ Len(wanted) = n
      /\ n \in Nat /\ \A i \in live : i \in 1 .. n
  BY DEF PageInv, PageTypeOK
<1>2. o \in Objects
  BY <1>1 DEF Objects
<1>3. objects' = Append(objects, o) /\ live' = (live \ D) \cup {k}
  OBVIOUS
<1>4. /\ objects' \in Seq(Objects) /\ Len(objects') = k /\ objects'[k] = o
      /\ \A i \in 1 .. n : objects'[i] = objects[i]
  BY <1>1, <1>2, <1>3, AppendKeeps
<1>5. /\ wanted' \in Seq(Wants) /\ Len(wanted') = k /\ wanted'[k] = want
      /\ \A i \in 1 .. n : i \notin D => wanted'[i] = wanted[i]
  BY <1>1, AppendKeeps
<1>6. k \in Nat /\ k = n + 1 /\ o.root = root /\ o.builder = b /\ root \in 1 .. k
  BY <1>1
<1>7. /\ \A i \in 1 .. n : objects[i].root \in 1 .. n
      /\ \A i, j \in live : i # j => objects[i].root # objects[j].root
      /\ \A i \in live : Holds(objects[i].builder, wanted[i])
  BY DEF PageInv, RootInv, LiveInv, HoldInv
<1>8. /\ requests \in Seq(Requests)
      /\ \A m \in 1 .. Len(requests) :
           /\ requests[m].object \in 1 .. n
           /\ requests[m].object \notin live
           /\ \A i \in live : objects[i].root # objects[requests[m].object].root
           /\ Holds(requests[m].builder, wanted[requests[m].object])
      /\ \A m \in 1 .. Len(requests) : objects[requests[m].object].root # root
  BY DEF PageInv, RequestInv
<1> HIDE DEF n, k, o
<1>9. \A i \in live' : i \in 1 .. k
  BY <1>1, <1>3, <1>6
<1>10. PageTypeOK'
  BY <1>3, <1>4, <1>5, <1>9 DEF PageTypeOK
<1>11. \A i \in 1 .. k : objects'[i].root \in 1 .. k
  BY <1>1, <1>4, <1>6, <1>7
<1>12. RootInv'
  BY <1>4, <1>11 DEF RootInv
<1>13. \A i, j \in live' : i # j => objects'[i].root # objects'[j].root
  BY <1>1, <1>3, <1>4, <1>6, <1>7
<1>14. \A i \in live' : Holds(objects'[i].builder, wanted'[i])
  BY <1>1, <1>3, <1>4, <1>5, <1>6, <1>7
<1>16. \A m \in 1 .. Len(requests) :
         /\ requests[m].object \in 1 .. k
         /\ requests[m].object \notin live'
         /\ \A i \in live' : objects'[i].root # objects'[requests[m].object].root
         /\ Holds(requests[m].builder, wanted'[requests[m].object])
  <2> TAKE m \in 1 .. Len(requests)
  <2> DEFINE p == requests[m].object
  <2>1. p \in 1 .. n /\ p # k /\ p \notin D /\ objects'[p] = objects[p] /\ wanted'[p] = wanted[p]
    BY <1>1, <1>4, <1>5, <1>6, <1>8
  <2>2. p \notin live /\ \A i \in live : objects[i].root # objects[p].root
    BY <1>8
  <2>3. Holds(requests[m].builder, wanted[p])
    BY <1>8
  <2> HIDE DEF p
  <2>4. p \in 1 .. k /\ p \notin live' /\ \A i \in live' : objects'[i].root # objects'[p].root
    <3>1. objects[p].root # root
      BY <1>8 DEF p
    <3> QED BY <1>1, <1>3, <1>4, <1>6, <1>7, <2>1, <2>2, <3>1
  <2>5. Holds(requests[m].builder, wanted'[p])
    BY <2>1, <2>3
  <2> QED BY <2>4, <2>5 DEF p
<1>17. RequestInv'
  BY <1>3, <1>4, <1>8, <1>16 DEF RequestInv
<1>18. OneRequestPerBuilder'
  <2>1. DOMAIN requests = 1 .. Len(requests)
    BY <1>8
  <2>2. \A l, m \in DOMAIN requests :
          l # m => objects[requests[l].object].root # objects[requests[m].object].root
    BY DEF PageInv, OneRequestPerBuilder
  <2>3. \A l, m \in DOMAIN requests :
          l # m => objects'[requests[l].object].root # objects'[requests[m].object].root
    <3> TAKE l, m \in DOMAIN requests
    <3>1. requests[l].object \in 1 .. n /\ requests[m].object \in 1 .. n
      BY <1>8, <2>1
    <3>2. /\ objects'[requests[l].object] = objects[requests[l].object]
          /\ objects'[requests[m].object] = objects[requests[m].object]
      BY <1>4, <3>1
    <3>3. l # m => objects[requests[l].object].root # objects[requests[m].object].root
      BY <2>2
    <3> QED BY <3>2, <3>3
  <2> QED BY <1>3, <2>3 DEF OneRequestPerBuilder
<1> QED BY <1>10, <1>12, <1>13, <1>14, <1>17, <1>18 DEF PageInv, LiveInv, HoldInv

(* newMetamask() and the others make a root of their own. *)
LEMMA NewBuilderKeeps ==
  ASSUME PageInv, NEW type \in PageWallets, NEW key \in PageKeys, NewBuilderWasm(type, key)
  PROVE  PageInv'
<1> DEFINE signer == [kind |-> type, key |-> key, agent_id |-> None, claim |-> None]
           k == Len(objects) + 1
<1>1. signer \in SignerType
  BY WasmPageAssumption DEF SignerType, SignerKinds
<1>2. NewBuilder(signer) \in Builders
  BY <1>1, NewBuilderType
<1>3. NothingYet \in Wants
  BY DEF NothingYet, Wants
<1>4. Holds(NewBuilder(signer), NothingYet)
  BY DEF Holds, NewBuilder, NothingYet
<1>5. /\ Len(objects) \in Nat /\ wanted \in Seq(Wants) /\ Len(wanted) = Len(objects)
      /\ \A i \in live : i \in 1 .. Len(objects)
  BY DEF PageInv, PageTypeOK
<1>6. /\ \A i \in 1 .. Len(objects) : objects[i].root \in 1 .. Len(objects)
      /\ \A m \in 1 .. Len(requests) : requests[m].object \in 1 .. Len(objects)
  BY DEF PageInv, RootInv, RequestInv
<1>7. /\ objects' = Append(objects, [builder |-> NewBuilder(signer), root |-> k])
      /\ wanted' = Append(wanted, NothingYet)
      /\ live' = (live \ {}) \cup {k} /\ requests' = requests
  BY DEF NewBuilderWasm, NewObject
<1> HIDE DEF signer
<1>8. k \in 1 .. Len(objects) + 1
  BY <1>5
<1>9. /\ \A i \in live : i \notin {} => objects[i].root # k
      /\ \A m \in 1 .. Len(requests) : objects[requests[m].object].root # k
  BY <1>5, <1>6
<1> QED BY <1>2, <1>3, <1>4, <1>5, <1>7, <1>8, <1>9, AddKeeps

(* A setter that returns hands the builder on: the object it was called on *)
(* dies with what it held.                                                 *)
LEMMA ReturnsKeeps ==
  ASSUME PageInv, NEW i \in live, NEW b \in Builders, NEW want \in Wants, Holds(b, want),
         Returns(i, b, want)
  PROVE  PageInv'
<1> DEFINE old == [wanted EXCEPT ![i] = want]
<1>1. /\ Len(objects) \in Nat /\ wanted \in Seq(Wants) /\ Len(wanted) = Len(objects)
      /\ \A j \in live : j \in 1 .. Len(objects)
  BY DEF PageInv, PageTypeOK
<1>2. objects[i].root \in 1 .. Len(objects) + 1
  BY <1>1 DEF PageInv, RootInv
<1>3. /\ old \in Seq(Wants) /\ Len(old) = Len(objects)
      /\ \A j \in 1 .. Len(objects) : j \notin {i} => old[j] = wanted[j]
  BY <1>1
<1>4. \A j \in live : j \notin {i} => objects[j].root # objects[i].root
  BY DEF PageInv, LiveInv
<1>5. \A m \in 1 .. Len(requests) : objects[requests[m].object].root # objects[i].root
  BY DEF PageInv, RequestInv
<1>6. /\ objects' = Append(objects, [builder |-> b, root |-> objects[i].root])
      /\ wanted' = Append(old, want) /\ requests' = requests
      /\ live' = (live \ {i}) \cup {Len(objects) + 1}
  BY DEF Returns
<1>7. \A j \in {i} : j \in live
  OBVIOUS
<1> DEFINE D == {i}
           root == objects[i].root
<1>8. /\ root \in 1 .. Len(objects) + 1
      /\ \A j \in D : j \in live
      /\ \A j \in 1 .. Len(objects) : j \notin D => old[j] = wanted[j]
      /\ \A j \in live : j \notin D => objects[j].root # root
      /\ \A m \in 1 .. Len(requests) : objects[requests[m].object].root # root
      /\ objects' = Append(objects, [builder |-> b, root |-> root])
      /\ live' = (live \ D) \cup {Len(objects) + 1}
  BY <1>2, <1>3, <1>4, <1>5, <1>6, <1>7
<1> HIDE DEF old, D, root
<1> QED BY <1>3, <1>6, <1>8, AddKeeps

(* One that throws only loses it. *)
LEMMA ThrowsKeeps ==
  ASSUME PageInv, NEW i \in live, NEW want \in Wants, Throws(i, want)
  PROVE  PageInv'
<1>1. /\ Len(objects) \in Nat /\ wanted \in Seq(Wants) /\ Len(wanted) = Len(objects)
      /\ \A j \in live : j \in 1 .. Len(objects)
  BY DEF PageInv, PageTypeOK
<1>2. objects' = objects /\ requests' = requests /\ live' = live \ {i}
  BY DEF Throws
<1>3. /\ wanted' \in Seq(Wants) /\ Len(wanted') = Len(wanted)
      /\ \A j \in 1 .. Len(objects) : j # i => wanted'[j] = wanted[j]
  BY <1>1 DEF Throws
<1>4. PageTypeOK' /\ RootInv' /\ LiveInv' /\ OneRequestPerBuilder'
  BY <1>1, <1>2, <1>3 DEF PageInv, PageTypeOK, RootInv, LiveInv, OneRequestPerBuilder
<1>5. HoldInv'
  BY <1>1, <1>2, <1>3 DEF PageInv, HoldInv
<1>6. RequestInv'
  BY <1>2, <1>3 DEF PageInv, RequestInv
<1> QED BY <1>4, <1>5, <1>6 DEF PageInv

(* sign() is the last of an object; only if nothing was to refuse does it  *)
(* ask the wallet, for what the object held.                               *)
LEMMA SignKeeps ==
  ASSUME PageInv, NEW i \in live, Sign(i)
  PROVE  PageInv'
<1> DEFINE request == [object |-> i, builder |-> objects[i].builder,
                       nonce |-> LocalNonce(objects[i].builder), answer |-> "open"]
<1>1. /\ Len(objects) \in Nat /\ objects \in Seq(Objects)
      /\ \A j \in live : j \in 1 .. Len(objects)
  BY DEF PageInv, PageTypeOK
<1>2. objects' = objects /\ wanted' = wanted /\ live' = live \ {i}
  BY DEF Sign
<1>3. PageTypeOK' /\ RootInv' /\ LiveInv' /\ HoldInv'
  BY <1>1, <1>2 DEF PageInv, PageTypeOK, RootInv, LiveInv, HoldInv
<1>4. CASE requests' = requests
  BY <1>2, <1>3, <1>4 DEF PageInv, RequestInv, OneRequestPerBuilder
<1>5. CASE requests' = Append(requests, request)
  <2>1. objects[i].builder \in Builders
    <3>1. objects[i] \in Objects
      BY <1>1
    <3> QED BY <3>1 DEF Objects
  <2>2. LocalNonce(objects[i].builder) \in Nonces
    BY <2>1, LocalNonceType
  <2>3. request \in Requests
    BY <1>1, <2>1, <2>2 DEF Requests
  <2>4. requests \in Seq(Requests) /\ DOMAIN requests = 1 .. Len(requests)
    BY DEF PageInv, RequestInv
  <2>5. request.object = i /\ request.builder = objects[i].builder
    OBVIOUS
  <2> HIDE DEF request
  <2>6. /\ requests' \in Seq(Requests) /\ Len(requests') = Len(requests) + 1
        /\ Len(requests) \in Nat /\ requests'[Len(requests) + 1] = request
        /\ \A m \in 1 .. Len(requests) : requests'[m] = requests[m]
    BY <1>5, <2>3, <2>4, AppendKeeps
  <2>7. \A m \in 1 .. Len(requests') :
          \/ m = Len(requests) + 1 /\ requests'[m] = request
          \/ m \in 1 .. Len(requests) /\ requests'[m] = requests[m]
    BY <2>6
  <2>8. \A m \in 1 .. Len(requests) :
          /\ requests[m].object \in 1 .. Len(objects) /\ requests[m].object \notin live
          /\ \A j \in live : objects[j].root # objects[requests[m].object].root
          /\ Holds(requests[m].builder, wanted[requests[m].object])
    BY DEF PageInv, RequestInv
  <2>9. /\ i \in 1 .. Len(objects) /\ i \notin live'
        /\ \A j \in live' : objects[j].root # objects[i].root
        /\ Holds(objects[i].builder, wanted[i])
    BY <1>1, <1>2 DEF PageInv, LiveInv, HoldInv
  <2>10. \A m \in 1 .. Len(requests') :
           /\ requests'[m].object \in 1 .. Len(objects) /\ requests'[m].object \notin live'
           /\ \A j \in live' : objects[j].root # objects[requests'[m].object].root
           /\ Holds(requests'[m].builder, wanted[requests'[m].object])
    BY <1>2, <2>5, <2>7, <2>8, <2>9
  <2>11. RequestInv'
    BY <1>2, <2>6, <2>10 DEF RequestInv
  <2>12. OneRequestPerBuilder'
    <3>1. \A l, m \in 1 .. Len(requests') :
            l # m => objects[requests'[l].object].root # objects[requests'[m].object].root
      <4> TAKE l, m \in 1 .. Len(requests')
      <4>1. CASE l \in 1 .. Len(requests) /\ m \in 1 .. Len(requests)
        BY <2>4, <2>6, <4>1 DEF PageInv, OneRequestPerBuilder
      <4>2. CASE l \notin 1 .. Len(requests) /\ m \in 1 .. Len(requests)
        BY <2>5, <2>7, <2>8, <4>2
      <4>3. CASE l \in 1 .. Len(requests) /\ m \notin 1 .. Len(requests)
        BY <2>5, <2>7, <2>8, <4>3
      <4>4. CASE l \notin 1 .. Len(requests) /\ m \notin 1 .. Len(requests)
        BY <2>7, <4>4
      <4> QED BY <4>1, <4>2, <4>3, <4>4
    <3>2. DOMAIN requests' = 1 .. Len(requests')
      BY <2>6
    <3> QED BY <1>2, <3>1, <3>2 DEF OneRequestPerBuilder
  <2> QED BY <1>3, <2>11, <2>12 DEF PageInv
<1> QED BY <1>4, <1>5 DEF Sign

(* An answer changes nothing of what was asked. *)
LEMMA AnswersKeep ==
  ASSUME PageInv, NEW n \in DOMAIN requests, NEW answer \in {"approved", "rejected"},
         Answers(n, answer)
  PROVE  PageInv'
<1>1. objects' = objects /\ wanted' = wanted /\ live' = live
  BY DEF Answers
<1>2. requests \in Seq(Requests) /\ DOMAIN requests = 1 .. Len(requests)
  BY DEF PageInv, RequestInv
<1>3. requests' = [requests EXCEPT ![n].answer = answer]
  BY DEF Answers
<1>4. requests[n] \in Requests
  BY <1>2
<1>5. [requests[n] EXCEPT !.answer = answer] \in Requests
  BY <1>4 DEF Requests
<1>6. requests' \in Seq(Requests) /\ Len(requests') = Len(requests)
  BY <1>2, <1>3, <1>5
<1>7. \A m \in 1 .. Len(requests) :
        requests'[m].object = requests[m].object /\ requests'[m].builder = requests[m].builder
  <2> TAKE m \in 1 .. Len(requests)
  <2>1. requests[m] \in Requests
    BY <1>2
  <2> QED BY <1>2, <1>3, <1>4, <2>1 DEF Requests
<1>8. PageTypeOK' /\ RootInv' /\ LiveInv' /\ HoldInv'
  BY <1>1 DEF PageInv, PageTypeOK, RootInv, LiveInv, HoldInv
<1>9. RequestInv'
  BY <1>1, <1>6, <1>7 DEF PageInv, RequestInv
<1>10. OneRequestPerBuilder'
  BY <1>1, <1>2, <1>6, <1>7 DEF PageInv, OneRequestPerBuilder
<1> QED BY <1>8, <1>9, <1>10 DEF PageInv

-----------------------------------------------------------------------------
(* The setters: the builder a setter hands on has what was called for on   *)
(* the object, and what this call asks.                                    *)
LEMMA SettersHold ==
  ASSUME NEW b \in Builders, NEW want \in Wants, Holds(b, want)
  PROVE  /\ \A hash \in GenesisHashes :
              WithGenesisHash(b, hash) \in Builders /\ Holds(WithGenesisHash(b, hash), want)
         /\ \A msg \in Messages :
              /\ AddMessage(b, msg) \in Builders
              /\ [want EXCEPT !.messages = Append(@, msg)] \in Wants
              /\ Holds(AddMessage(b, msg), [want EXCEPT !.messages = Append(@, msg)])
         /\ \A n \in PageGas : AsU64(n) \in 1 .. GasBudget =>
              /\ WithAuthFields(b, AsU64(n)) \in Builders
              /\ [want EXCEPT !.gas = n] \in Wants
              /\ Holds(WithAuthFields(b, AsU64(n)), [want EXCEPT !.gas = n])
         /\ \A claim \in PageClaims :
              /\ WithTradingKeyClaim(b, claim) \in Builders
              /\ [want EXCEPT !.claim = claim] \in Wants
              /\ Holds(WithTradingKeyClaim(b, claim), [want EXCEPT !.claim = claim])
<1>1. ASSUME NEW hash \in GenesisHashes
      PROVE  WithGenesisHash(b, hash) \in Builders /\ Holds(WithGenesisHash(b, hash), want)
  BY DEF WithGenesisHash, Builders, Holds
<1>2. ASSUME NEW msg \in Messages
      PROVE  /\ AddMessage(b, msg) \in Builders
             /\ [want EXCEPT !.messages = Append(@, msg)] \in Wants
             /\ Holds(AddMessage(b, msg), [want EXCEPT !.messages = Append(@, msg)])
  <2>1. AddMessage(b, msg) \in Builders
    BY DEF AddMessage, Builders
  <2>2. [want EXCEPT !.messages = Append(@, msg)] \in Wants
    BY DEF Wants
  <2>3. /\ AddMessage(b, msg).messages = Append(b.messages, msg)
        /\ AddMessage(b, msg).auth_fields = b.auth_fields
        /\ AddMessage(b, msg).trading_key_claim = b.trading_key_claim
    BY DEF AddMessage, Builders
  <2>4. /\ [want EXCEPT !.messages = Append(@, msg)].messages = Append(want.messages, msg)
        /\ [want EXCEPT !.messages = Append(@, msg)].gas = want.gas
        /\ [want EXCEPT !.messages = Append(@, msg)].claim = want.claim
    BY DEF Wants
  <2> QED BY <2>1, <2>2, <2>3, <2>4 DEF Holds
<1>3. ASSUME NEW n \in PageGas, AsU64(n) \in 1 .. GasBudget
      PROVE  /\ WithAuthFields(b, AsU64(n)) \in Builders
             /\ [want EXCEPT !.gas = n] \in Wants
             /\ Holds(WithAuthFields(b, AsU64(n)), [want EXCEPT !.gas = n])
  <2>1. n # None /\ AsU64(n) \in AuthFields
    BY <1>3, WasmPageAssumption
  <2> HIDE DEF AsU64
  <2> QED BY <2>1 DEF WithAuthFields, Builders, Holds, Wants
<1>4. ASSUME NEW claim \in PageClaims
      PROVE  /\ WithTradingKeyClaim(b, claim) \in Builders
             /\ [want EXCEPT !.claim = claim] \in Wants
             /\ Holds(WithTradingKeyClaim(b, claim), [want EXCEPT !.claim = claim])
  BY WasmPageAssumption DEF WithTradingKeyClaim, Builders, Holds, Wants
<1> QED BY <1>1, <1>2, <1>3, <1>4

LEMMA LiveObject ==
  ASSUME PageInv, NEW i \in live
  PROVE  objects[i].builder \in Builders /\ wanted[i] \in Wants
         /\ Holds(objects[i].builder, wanted[i])
<1>1. objects[i] \in Objects /\ wanted[i] \in Wants
  BY DEF PageInv, PageTypeOK
<1> QED BY <1>1 DEF Objects, PageInv, HoldInv

LEMMA PageStep == PageInv /\ [PageNext]_pageVars => PageInv'
<1> SUFFICES ASSUME PageInv, [PageNext]_pageVars PROVE PageInv'
  OBVIOUS
<1>1. ASSUME NEW type \in PageWallets, NEW key \in PageKeys, NewBuilderWasm(type, key)
      PROVE  PageInv'
  BY <1>1, NewBuilderKeeps
<1>2. ASSUME NEW i \in live, NEW hash \in GenesisHashes, WithGenesisHashWasm(i, hash)
      PROVE  PageInv'
  <2>1. Returns(i, WithGenesisHash(objects[i].builder, hash), wanted[i])
    BY <1>2 DEF WithGenesisHashWasm
  <2> QED BY <2>1, LiveObject, SettersHold, ReturnsKeeps
<1>3. ASSUME NEW i \in live, NEW msg \in Messages, AddMessageWasm(i, msg)
      PROVE  PageInv'
  <2> DEFINE want == [wanted[i] EXCEPT !.messages = Append(@, msg)]
             b == AddMessage(objects[i].builder, msg)
  <2>1. Returns(i, b, want)
    BY <1>3 DEF AddMessageWasm
  <2>2. b \in Builders /\ want \in Wants /\ Holds(b, want)
    BY LiveObject, SettersHold
  <2> HIDE DEF want, b
  <2> QED BY <2>1, <2>2, ReturnsKeeps
<1>4. ASSUME NEW i \in live, NEW n \in PageGas, GasLimit(i, n)
      PROVE  PageInv'
  <2> DEFINE want == [wanted[i] EXCEPT !.gas = n]
             b == WithAuthFields(objects[i].builder, AsU64(n))
  <2>1. \/ AsU64(n) \in 1 .. GasBudget /\ Returns(i, b, want)
        \/ Throws(i, want)
    BY <1>4 DEF GasLimit
  <2>2. AsU64(n) \in 1 .. GasBudget => b \in Builders /\ Holds(b, want)
    BY LiveObject, SettersHold
  <2>3. want \in Wants
    BY LiveObject DEF Wants
  <2> HIDE DEF want, b
  <2> QED BY <2>1, <2>2, <2>3, ReturnsKeeps, ThrowsKeeps
<1>5. ASSUME NEW i \in live, NEW claim \in PageClaims, WithClaim(i, claim)
      PROVE  PageInv'
  <2> DEFINE want == [wanted[i] EXCEPT !.claim = claim]
             b == WithTradingKeyClaim(objects[i].builder, claim)
  <2>1. Returns(i, b, want)
    BY <1>5 DEF WithClaim
  <2>2. b \in Builders /\ want \in Wants /\ Holds(b, want)
    BY LiveObject, SettersHold
  <2> HIDE DEF want, b
  <2> QED BY <2>1, <2>2, ReturnsKeeps
<1>6. ASSUME NEW i \in live, WithMalformedClaim(i)
      PROVE  PageInv'
  <2>1. [wanted[i] EXCEPT !.claim = Malformed] \in Wants
    BY LiveObject DEF Wants
  <2> QED BY <1>6, <2>1, ThrowsKeeps DEF WithMalformedClaim
<1>7. ASSUME NEW i \in live, Sign(i)
      PROVE  PageInv'
  BY <1>7, SignKeeps
<1>8. ASSUME NEW n \in DOMAIN requests, NEW answer \in {"approved", "rejected"},
             Answers(n, answer)
      PROVE  PageInv'
  BY <1>8, AnswersKeep
<1>9. CASE UNCHANGED pageVars
  BY <1>9 DEF pageVars, PageInv, PageTypeOK, RootInv, LiveInv, HoldInv, RequestInv,
              OneRequestPerBuilder
<1> QED BY <1>1, <1>2, <1>3, <1>4, <1>5, <1>6, <1>7, <1>8, <1>9 DEF PageNext

-----------------------------------------------------------------------------
LEMMA PageInvariant == PageSpec => []PageInv
  BY PageInitEstablishes, PageStep, PTL DEF PageSpec

(* bindings.rs: a request holds all that was called for on its object, by  *)
(* any number of objects and calls, and whatever threw on the way.         *)
THEOREM NothingIsForgotten == PageSpec => []NothingForgotten
<1>1. PageInv => NothingForgotten
  BY DEF PageInv, RequestInv, NothingForgotten, Holds
<1> QED BY <1>1, PageInvariant, PTL

(* bindings.rs: sign() consumes the one place a builder is in, so one      *)
(* builder makes at most one request.                                      *)
THEOREM AskedOnce == PageSpec => []OneRequestPerBuilder
<1>1. PageInv => OneRequestPerBuilder
  BY DEF PageInv
<1> QED BY <1>1, PageInvariant, PTL

-----------------------------------------------------------------------------
(* KeyDerivation: no mnemonic makes a local signer panic, whatever         *)
(* HMAC-SHA512 answers, and no two accounts share a key.                   *)

(* Every path ends below the master key. *)
LEMMA PathLength ==
  ASSUME NEW scheme, NEW i
  PROVE  Len(Path(scheme, i)) \in 1 .. 5
BY DEF Path, EvmPath, SolanaPath

(* parent + tweak (mod n), where it succeeds, is a private key. *)
LEMMA ChildScalar ==
  ASSUME NEW parent \in Numbers, NEW left \in Numbers, EvmChild(parent, left) # None
  PROVE  IsScalarKey(EvmChild(parent, left)) /\ EvmChild(parent, left) \in Numbers
<1> DEFINE sum == parent + left
<1>1. parent < Order /\ left < Order /\ sum # 0 /\ sum # Order
  BY KeyDerivationAssumption DEF EvmChild, Numbers
<1>2. EvmChild(parent, left) = IF sum > Order THEN sum - Order ELSE sum
  BY <1>1, KeyDerivationAssumption DEF EvmChild, Numbers
<1>3. (IF sum > Order THEN sum - Order ELSE sum) \in 1 .. Order - 1
  BY <1>1, KeyDerivationAssumption DEF Numbers
<1> QED
  BY <1>2, <1>3, KeyDerivationAssumption DEF IsScalarKey, Numbers

(* The signer's type and what bip32_derive's loop keeps are inductive      *)
(* together with the absence of panics.                                    *)
KeyInv == DerivationTypeOK /\ ChildIsScalar /\ MnemonicNeverPanics

LEMMA KeyInit == DerivationInit => KeyInv
BY DEF DerivationInit, KeyInv, DerivationTypeOK, ChildIsScalar, MnemonicNeverPanics

(* A derivation that starts, goes on or ends keeps the job's part. *)
LEMMA StartKeeps ==
  ASSUME KeyInv, NEW request \in DerivationRequests, NEW left \in Numbers,
         StartDerivation(request, left)
  PROVE  KeyInv'
<1>1. job' = [request |-> request, depth |-> 0, key |-> left,
              chain |-> MasterQuery(request.scheme, request.phrase)]
      /\ made' = made
  BY DEF StartDerivation
<1>2. 0 \in 0 .. Len(JobPath)'
  BY <1>1, PathLength DEF JobPath
<1>3. DerivationTypeOK'
  BY <1>1, <1>2 DEF KeyInv, DerivationTypeOK, DerivationRequests
<1> QED
  BY <1>1, <1>3 DEF KeyInv, ChildIsScalar, MnemonicNeverPanics

(* A turn that fails answers Err and drops the job. *)
LEMMA FailKeeps ==
  ASSUME KeyInv, Fail
  PROVE  KeyInv'
<1>1. job' = None /\ made' = made \cup {Outcome(job.request, "Err", None, None)}
  BY DEF Fail, Respond
<1> QED
  BY <1>1 DEF KeyInv, DerivationTypeOK, ChildIsScalar, MnemonicNeverPanics, Outcome

(* A turn that succeeds leaves a number, and a scalar where that matters. *)
LEMMA DescendKeeps ==
  ASSUME KeyInv, NEW q, NEW key \in Numbers, job # None, job.depth < Len(JobPath),
         job.request.scheme = "Evm" => IsScalarKey(key),
         Descend(q, key), made' = made
  PROVE  KeyInv'
<1>1. job = [request |-> job.request, depth |-> job.depth, key |-> job.key,
             chain |-> job.chain]
      /\ job.request \in DerivationRequests /\ job.depth \in 0 .. Len(JobPath)
  BY DEF KeyInv, DerivationTypeOK
<1>2. job' = [request |-> job.request, depth |-> job.depth + 1, key |-> key, chain |-> q]
  BY <1>1 DEF Descend
<1>3. Len(JobPath)' = Len(JobPath) /\ Len(JobPath) \in 1 .. 5
  BY <1>2, PathLength DEF JobPath
<1>4. job'.depth \in 0 .. Len(JobPath)'
  BY <1>1, <1>2, <1>3
<1>5. DerivationTypeOK'
  BY <1>1, <1>2, <1>4 DEF KeyInv, DerivationTypeOK, DerivationRequests
<1> QED
  BY <1>2, <1>5 DEF KeyInv, ChildIsScalar, MnemonicNeverPanics

LEMMA EvmStepKeeps ==
  ASSUME KeyInv, NEW left \in Numbers, EvmStep(left)
  PROVE  KeyInv'
<1>1. CASE Segment < Hard /\ ~IsScalarKey(job.key)
  BY <1>1, FailKeeps DEF EvmStep
<1>2. CASE ~(Segment < Hard /\ ~IsScalarKey(job.key))
  <2> DEFINE q == ChildQuery(job.chain, job.key, Segment)
             child == EvmChild(job.key, left)
  <2>1. job # None /\ job.depth < Len(JobPath) /\ job.key \in Numbers
    BY DEF EvmStep, KeyInv, DerivationTypeOK
  <2>2. IF child = None THEN Fail ELSE Descend(q, child) /\ UNCHANGED made
    BY <1>2 DEF EvmStep
  <2>3. CASE child = None
    BY <2>2, <2>3, FailKeeps
  <2>4. CASE child # None
    <3>1. IsScalarKey(child) /\ child \in Numbers
      BY <2>1, <2>4, ChildScalar
    <3> HIDE DEF child, q
    <3> QED
      BY <2>1, <2>2, <2>4, <3>1, DescendKeeps
  <2> QED BY <2>3, <2>4
<1> QED BY <1>1, <1>2

LEMMA SolanaStepKeeps ==
  ASSUME KeyInv, NEW left \in Numbers, SolanaStep(left)
  PROVE  KeyInv'
<1>1. job # None /\ job.request.scheme = "Solana" /\ job.depth < Len(JobPath)
  BY DEF SolanaStep
<1>2. CASE Segment < Hard
  BY <1>2, FailKeeps DEF SolanaStep
<1>3. CASE ~(Segment < Hard)
  <2> DEFINE q == ChildQuery(job.chain, job.key, Segment)
  <2>1. Descend(q, left) /\ made' = made
    BY <1>3 DEF SolanaStep
  <2> HIDE DEF q
  <2> QED BY <1>1, <2>1, DescendKeeps
<1> QED BY <1>2, <1>3

(* from_seed at the end of a derivation: bip32_derive left a private key,  *)
(* and ed25519 takes any.                                                  *)
LEMMA FinishKeeps ==
  ASSUME KeyInv, FinishDerivation
  PROVE  KeyInv'
<1> DEFINE o == FromSeed(job.request, job.key, job.chain)
<1>1. job # None /\ job.depth = Len(JobPath) /\ job' = None /\ made' = made \cup {o}
  BY DEF FinishDerivation, Respond
<1>2. Len(JobPath) \in 1 .. 5
  BY PathLength DEF JobPath
<1>3. job.request.scheme \in {"Evm", "Solana"}
  BY <1>1 DEF KeyInv, DerivationTypeOK, DerivationRequests, PhraseRequest
<1>4. job.request.scheme = "Evm" => IsScalarKey(job.key)
  <2>1. job.depth \in 1 .. 5
    <3> HIDE DEF o
    <3> QED BY <1>1, <1>2, Zenon
  <2>2. job.depth > 0
    BY <2>1
  <2> QED BY <1>1, <2>2 DEF KeyInv, ChildIsScalar
<1>5. o.result = "Ok"
  BY <1>3, <1>4 DEF FromSeed, EvmFromSeed, Ed25519FromSeed, Outcome
<1> HIDE DEF o
<1> QED
  BY <1>1, <1>5 DEF KeyInv, DerivationTypeOK, ChildIsScalar, MnemonicNeverPanics

(* The requests answered at once. *)
LEMMA AnswerKeeps ==
  ASSUME KeyInv, NEW o, made' = made \cup {o}, job' = job,
         o.result \in {"Ok", "Err", "Panic"},
         o.request.via = "mnemonic" => o.result # "Panic"
  PROVE  KeyInv'
BY DEF KeyInv, DerivationTypeOK, ChildIsScalar, MnemonicNeverPanics, JobPath

LEMMA KeyStep == KeyInv /\ [DerivationNext]_derivationVars => KeyInv'
<1> SUFFICES ASSUME KeyInv, [DerivationNext]_derivationVars PROVE KeyInv'
  OBVIOUS
<1>1. ASSUME NEW scheme \in Schemes, NEW n \in Numbers, MakeFromSeed(scheme, n)
      PROVE  KeyInv'
  <2> DEFINE o == FromSeed(SeedRequest(scheme), n, None)
  <2>1. o.result \in {"Ok", "Err", "Panic"} /\ o.request.via = "seed"
    BY DEF FromSeed, EvmFromSeed, BitcoinFromSeed, Ed25519FromSeed, Outcome, SeedRequest
  <2>2. made' = made \cup {o} /\ job' = job
    BY <1>1 DEF MakeFromSeed, Respond
  <2> HIDE DEF o
  <2> QED BY <2>1, <2>2, AnswerKeeps
<1>2. ASSUME NEW request \in PhraseRequests, RefusePhrase(request)
      PROVE  KeyInv'
  <2> DEFINE o == Outcome(request, "Err", None, None)
  <2>1. o.result = "Err"
    BY DEF Outcome
  <2>2. made' = made \cup {o} /\ job' = job
    BY <1>2 DEF RefusePhrase, Respond
  <2> HIDE DEF o
  <2> QED BY <2>1, <2>2, AnswerKeeps
<1>3. ASSUME NEW phrase \in Phrases, NEW left \in Numbers, NativeFromMnemonic(phrase, left)
      PROVE  KeyInv'
  <2> DEFINE o == FromSeed(PhraseRequest("Native", phrase, None), left, SeedQuery(phrase))
  <2>1. o.result = "Ok"
    BY DEF FromSeed, Ed25519FromSeed, Outcome, PhraseRequest
  <2>2. made' = made \cup {o} /\ job' = job
    BY <1>3 DEF NativeFromMnemonic, Respond
  <2> HIDE DEF o
  <2> QED BY <2>1, <2>2, AnswerKeeps
<1>4. ASSUME NEW request \in DerivationRequests, NEW left \in Numbers,
             StartDerivation(request, left)
      PROVE  KeyInv'
  BY <1>4, StartKeeps
<1>5. ASSUME NEW left \in Numbers, EvmStep(left) \/ SolanaStep(left)
      PROVE  KeyInv'
  BY <1>5, EvmStepKeeps, SolanaStepKeeps
<1>6. CASE FinishDerivation
  BY <1>6, FinishKeeps
<1>7. CASE UNCHANGED derivationVars
  BY <1>7 DEF KeyInv, DerivationTypeOK, ChildIsScalar, MnemonicNeverPanics, JobPath,
              derivationVars
<1> QED
  BY <1>1, <1>2, <1>3, <1>4, <1>5, <1>6, <1>7 DEF DerivationNext

(* EvmSigner, SolanaSigner and NativeSigner::from_mnemonic return an error *)
(* or a signer: the expect in from_seed never fires on what a derivation   *)
(* leaves, for any group order, any index and any answers of HMAC-SHA512.  *)
THEOREM NoMnemonicPanics == DerivationSpec => []MnemonicNeverPanics
<1>1. KeyInv => MnemonicNeverPanics
  BY DEF KeyInv
<1> QED BY KeyInit, KeyStep, <1>1, PTL DEF DerivationSpec

(* Past its first segment bip32_derive holds a private key, so the normal  *)
(* segments find the public key they hash.                                 *)
THEOREM DerivedKeyIsScalar == DerivationSpec => []ChildIsScalar
<1>1. KeyInv => ChildIsScalar
  BY DEF KeyInv
<1> QED BY KeyInit, KeyStep, <1>1, PTL DEF DerivationSpec

(* Types of the derivation under way. *)
THEOREM DerivationTypes == DerivationSpec => []DerivationTypeOK
<1>1. KeyInv => DerivationTypeOK
  BY DEF KeyInv
<1> QED BY KeyInit, KeyStep, <1>1, PTL DEF DerivationSpec

(* An extended key has a pedigree: the chain code is the query that made   *)
(* it, which holds the chain code before, down to the master key's.        *)
Descends(c, r, n) == c = ChildQuery(c.code, c.key, Path(r.scheme, r.index)[n])

Chain0(c, r) == c = MasterQuery(r.scheme, r.phrase)
Chain1(c, r) == Descends(c, r, 1) /\ Chain0(c.code, r)
Chain2(c, r) == Descends(c, r, 2) /\ Chain1(c.code, r)
Chain3(c, r) == Descends(c, r, 3) /\ Chain2(c.code, r)
Chain4(c, r) == Descends(c, r, 4) /\ Chain3(c.code, r)
Chain5(c, r) == Descends(c, r, 5) /\ Chain4(c.code, r)

Pedigree(c, r, n) ==
  \/ n = 0 /\ Chain0(c, r)
  \/ n = 1 /\ Chain1(c, r)
  \/ n = 2 /\ Chain2(c, r)
  \/ n = 3 /\ Chain3(c, r)
  \/ n = 4 /\ Chain4(c, r)
  \/ n = 5 /\ Chain5(c, r)

(* Where the key of an answered request comes from, if out of HMAC-SHA512. *)
FromItsPhrase(o) ==
  \/ \E phrase \in Phrases :
       /\ o.request = PhraseRequest("Native", phrase, None)
       /\ o.origin = SeedQuery(phrase)
  \/ /\ o.request \in DerivationRequests
     /\ Pedigree(o.origin, o.request, Len(Path(o.request.scheme, o.request.index)))

OriginInv ==
  /\ job # None => Pedigree(job.chain, job.request, job.depth)
  /\ \A o \in made : o.origin # None => FromItsPhrase(o)

LEMMA OriginInit == DerivationInit => OriginInv
BY DEF DerivationInit, OriginInv

(* One query more, one segment more. *)
LEMMA PedigreeGrows ==
  ASSUME NEW c, NEW r, NEW n \in 0 .. 4, Pedigree(c, r, n), NEW key,
         NEW q, q = ChildQuery(c, key, Path(r.scheme, r.index)[n + 1])
  PROVE  Pedigree(q, r, n + 1)
<1>1. q.code = c /\ q.key = key
  BY DEF ChildQuery
<1>2. Descends(q, r, n + 1)
  BY <1>1 DEF Descends
<1>3. CASE n = 0
  BY <1>1, <1>2, <1>3 DEF Pedigree, Chain1
<1>4. CASE n = 1
  BY <1>1, <1>2, <1>4 DEF Pedigree, Chain2
<1>5. CASE n = 2
  BY <1>1, <1>2, <1>5 DEF Pedigree, Chain3
<1>6. CASE n = 3
  BY <1>1, <1>2, <1>6 DEF Pedigree, Chain4
<1>7. CASE n = 4
  BY <1>1, <1>2, <1>7 DEF Pedigree, Chain5
<1> QED BY <1>3, <1>4, <1>5, <1>6, <1>7

(* What is answered with no origin, or with its own. *)
LEMMA OriginOfAnswer ==
  ASSUME OriginInv, NEW o, made' = made \cup {o}, o.origin # None => FromItsPhrase(o),
         job' = None \/ job' = job
  PROVE  OriginInv'
BY DEF OriginInv

LEMMA OriginDescends ==
  ASSUME KeyInv, OriginInv, job # None, job.depth < Len(JobPath), NEW key,
         Descend(ChildQuery(job.chain, job.key, Segment), key), made' = made
  PROVE  OriginInv'
<1> DEFINE q == ChildQuery(job.chain, job.key, Segment)
<1>1. /\ job = [request |-> job.request, depth |-> job.depth, key |-> job.key,
                chain |-> job.chain]
      /\ job.depth \in 0 .. Len(JobPath)
  BY DEF KeyInv, DerivationTypeOK
<1>2. job' = [request |-> job.request, depth |-> job.depth + 1, key |-> key, chain |-> q]
  <2>1. Descend(q, key)
    OBVIOUS
  <2> HIDE DEF q
  <2> QED BY <1>1, <2>1 DEF Descend
<1>3. job.depth \in 0 .. 4
  <2> DEFINE n == Len(JobPath)
             d == job.depth
  <2>1. n \in 1 .. 5 /\ d \in 0 .. n /\ d < n
    <3>1. n \in 1 .. 5
      BY PathLength DEF JobPath
    <3>2. d \in 0 .. n /\ d < n
      BY ONLY <1>1, job.depth < Len(JobPath)
    <3> QED BY <3>1, <3>2
  <2> HIDE DEF n, d
  <2>2. d \in 0 .. 4
    BY <2>1
  <2> QED BY <2>2 DEF d
<1>4. q = ChildQuery(job.chain, job.key, Path(job.request.scheme, job.request.index)[job.depth + 1])
  BY DEF Segment, JobPath
<1>5. Pedigree(job.chain, job.request, job.depth)
  BY DEF OriginInv
<1> HIDE DEF q
<1>6. Pedigree(q, job.request, job.depth + 1)
  BY <1>3, <1>4, <1>5, PedigreeGrows
<1> QED BY <1>2, <1>6 DEF OriginInv

LEMMA OriginStep == KeyInv /\ OriginInv /\ [DerivationNext]_derivationVars => OriginInv'
<1> SUFFICES ASSUME KeyInv, OriginInv, [DerivationNext]_derivationVars PROVE OriginInv'
  OBVIOUS
<1>1. ASSUME NEW scheme \in Schemes, NEW n \in Numbers, MakeFromSeed(scheme, n)
      PROVE  OriginInv'
  <2> DEFINE o == FromSeed(SeedRequest(scheme), n, None)
  <2>1. o.origin = None
    BY DEF FromSeed, EvmFromSeed, BitcoinFromSeed, Ed25519FromSeed, Outcome
  <2>2. made' = made \cup {o} /\ job' = job
    BY <1>1 DEF MakeFromSeed, Respond
  <2> HIDE DEF o
  <2> QED BY <2>1, <2>2, OriginOfAnswer
<1>2. ASSUME NEW request, made' = made \cup {Outcome(request, "Err", None, None)},
             job' = None \/ job' = job
      PROVE  OriginInv'
  <2> DEFINE o == Outcome(request, "Err", None, None)
  <2>1. o.origin = None
    BY DEF Outcome
  <2>2. made' = made \cup {o}
    BY <1>2
  <2> HIDE DEF o
  <2> QED BY <1>2, <2>1, <2>2, OriginOfAnswer
<1>3. CASE \E request \in PhraseRequests : RefusePhrase(request)
  BY <1>2, <1>3 DEF RefusePhrase, Respond
<1>4. ASSUME NEW phrase \in Phrases, NEW left \in Numbers, NativeFromMnemonic(phrase, left)
      PROVE  OriginInv'
  <2> DEFINE o == FromSeed(PhraseRequest("Native", phrase, None), left, SeedQuery(phrase))
  <2>1. o.request = PhraseRequest("Native", phrase, None) /\ o.origin = SeedQuery(phrase)
    BY DEF FromSeed, EvmFromSeed, BitcoinFromSeed, Ed25519FromSeed, Outcome
  <2>2. made' = made \cup {o} /\ job' = job
    BY <1>4 DEF NativeFromMnemonic, Respond
  <2> HIDE DEF o
  <2>3. FromItsPhrase(o)
    BY <2>1 DEF FromItsPhrase
  <2> QED BY <2>2, <2>3, OriginOfAnswer
<1>5. ASSUME NEW request \in DerivationRequests, NEW left \in Numbers,
             StartDerivation(request, left)
      PROVE  OriginInv'
  <2>1. job' = [request |-> request, depth |-> 0, key |-> left,
                chain |-> MasterQuery(request.scheme, request.phrase)]
        /\ made' = made
    BY <1>5 DEF StartDerivation
  <2> QED BY <2>1 DEF OriginInv, Pedigree, Chain0
<1>6. CASE Fail
  BY <1>2, <1>6 DEF Fail, Respond
<1>7. ASSUME NEW left \in Numbers, EvmStep(left) \/ SolanaStep(left), ~ Fail
      PROVE  OriginInv'
  <2> DEFINE q == ChildQuery(job.chain, job.key, Segment)
  <2>1. job # None /\ job.depth < Len(JobPath) /\ made' = made
        /\ (Descend(q, EvmChild(job.key, left)) \/ Descend(q, left))
    BY <1>7 DEF EvmStep, SolanaStep
  <2> QED BY <2>1, OriginDescends
<1>8. CASE FinishDerivation
  <2> DEFINE o == FromSeed(job.request, job.key, job.chain)
  <2>1. job # None /\ job.depth = Len(JobPath) /\ job' = None /\ made' = made \cup {o}
    BY <1>8 DEF FinishDerivation, Respond
  <2>2. o.request = job.request /\ o.origin = job.chain
    BY DEF FromSeed, EvmFromSeed, BitcoinFromSeed, Ed25519FromSeed, Outcome
  <2>3. job.request \in DerivationRequests /\ Pedigree(job.chain, job.request, Len(JobPath))
    BY <2>1 DEF KeyInv, DerivationTypeOK, OriginInv
  <2> HIDE DEF o
  <2>4. FromItsPhrase(o)
    BY <2>2, <2>3 DEF FromItsPhrase, JobPath
  <2> QED BY <2>1, <2>4, OriginOfAnswer
<1>9. CASE UNCHANGED derivationVars
  BY <1>9 DEF OriginInv, derivationVars
<1> QED
  BY <1>1, <1>3, <1>4, <1>5, <1>6, <1>7, <1>8, <1>9 DEF DerivationNext

(* The seed and the indices that a pedigree ends and begins with. *)
LEMMA EvmPedigree ==
  ASSUME NEW c, NEW r \in DerivationRequests, r.scheme = "Evm", Pedigree(c, r, 5)
  PROVE  /\ c.index = r.index /\ c.code.index = 0
         /\ c.code.code.code.code.code = MasterQuery("Evm", r.phrase)
<1>1. Path(r.scheme, r.index)[5] = r.index /\ Path(r.scheme, r.index)[4] = 0
  BY DEF Path, EvmPath
<1>2. Chain5(c, r)
  BY DEF Pedigree
<1>3. Descends(c, r, 5) /\ Descends(c.code, r, 4)
  BY <1>2 DEF Chain5, Chain4
<1>4. c.index = r.index /\ c.code.index = 0
  BY <1>1, <1>3 DEF Descends, ChildQuery
<1>5. Chain0(c.code.code.code.code.code, r)
  BY <1>2 DEF Chain5, Chain4, Chain3, Chain2, Chain1
<1> QED BY <1>4, <1>5 DEF Chain0

LEMMA SolanaPedigree ==
  ASSUME NEW c, NEW r \in DerivationRequests, r.scheme = "Solana", Pedigree(c, r, 4)
  PROVE  /\ c.code.index = Harden(r.index)
         /\ c.code.code.code.code = MasterQuery("Solana", r.phrase)
<1>1. Path(r.scheme, r.index)[3] = Harden(r.index)
  BY DEF Path, SolanaPath
<1>2. Chain4(c, r)
  BY DEF Pedigree
<1>3. Descends(c.code, r, 3)
  BY <1>2 DEF Chain4, Chain3
<1>4. c.code.index = Harden(r.index)
  BY <1>1, <1>3 DEF Descends, ChildQuery
<1>5. Chain0(c.code.code.code.code, r)
  BY <1>2 DEF Chain4, Chain3, Chain2, Chain1
<1> QED BY <1>4, <1>5 DEF Chain0

LEMMA DerivedPedigree ==
  ASSUME NEW o, o.request \in DerivationRequests,
         Pedigree(o.origin, o.request, Len(Path(o.request.scheme, o.request.index)))
  PROVE  \/ /\ o.request.scheme = "Evm"
            /\ o.origin.index = o.request.index /\ o.origin.code.index = 0
            /\ o.origin.code.code.code.code.code = MasterQuery("Evm", o.request.phrase)
         \/ /\ o.request.scheme = "Solana"
            /\ o.origin.code.index = Harden(o.request.index)
            /\ o.origin.code.code.code.code = MasterQuery("Solana", o.request.phrase)
<1>1. o.request.scheme \in {"Evm", "Solana"}
  BY DEF DerivationRequests, PhraseRequest
<1>2. CASE o.request.scheme = "Evm"
  <2>1. Len(Path(o.request.scheme, o.request.index)) = 5
    BY <1>2 DEF Path, EvmPath
  <2> QED BY <1>2, <2>1, EvmPedigree
<1>3. CASE o.request.scheme = "Solana"
  <2>1. Len(Path(o.request.scheme, o.request.index)) = 4
    BY <1>3 DEF Path, SolanaPath
  <2> QED BY <1>3, <2>1, SolanaPedigree
<1> QED BY <1>1, <1>2, <1>3

(* The seed of a mnemonic is no child. *)
LEMMA SeedIsNoChild ==
  ASSUME NEW phrase, NEW c, NEW key, NEW i
  PROVE  SeedQuery(phrase) # ChildQuery(c, key, i)
<1>1. "seed" \in DOMAIN SeedQuery(phrase) /\ "seed" \notin DOMAIN ChildQuery(c, key, i)
  BY DEF SeedQuery, ChildQuery
<1> QED BY <1>1

LEMMA OneOriginOneAccount ==
  ASSUME NEW o, NEW p, FromItsPhrase(o), FromItsPhrase(p), o.origin = p.origin
  PROVE  /\ o.request.scheme = p.request.scheme
         /\ o.request.phrase = p.request.phrase
         /\ SameAccount(o.request.scheme, o.request.index, p.request.index)
<1> DEFINE Derived(x) ==
      /\ x.request \in DerivationRequests
      /\ Pedigree(x.origin, x.request, Len(Path(x.request.scheme, x.request.index)))
<1>1. ASSUME NEW x, Derived(x)
      PROVE  \E c, key, i : x.origin = ChildQuery(c, key, i)
  <2> DEFINE n == Len(Path(x.request.scheme, x.request.index))
  <2>1. n \in {4, 5}
    BY DEF Path, EvmPath, SolanaPath
  <2>2. Pedigree(x.origin, x.request, n)
    BY <1>1
  <2> HIDE DEF n, Derived
  <2>3. Chain4(x.origin, x.request) \/ Chain5(x.origin, x.request)
    BY <2>1, <2>2 DEF Pedigree
  <2> QED BY <2>3 DEF Chain4, Chain5, Descends
<1>2. ASSUME NEW x, NEW phrase, x.origin = SeedQuery(phrase)
      PROVE  ~ Derived(x)
  BY <1>1, <1>2, SeedIsNoChild
<1>3. ASSUME NEW phrase \in Phrases, NEW other \in Phrases,
             o.request = PhraseRequest("Native", phrase, None), o.origin = SeedQuery(phrase),
             p.request = PhraseRequest("Native", other, None), p.origin = SeedQuery(other)
      PROVE  /\ o.request.scheme = p.request.scheme
             /\ o.request.phrase = p.request.phrase
             /\ SameAccount(o.request.scheme, o.request.index, p.request.index)
  <2>1. SeedQuery(phrase) = SeedQuery(other)
    BY <1>3
  <2>2. phrase = other
    <3>1. SeedQuery(phrase).seed = phrase /\ SeedQuery(other).seed = other
      BY DEF SeedQuery
    <3> QED BY <2>1, <3>1
  <2>3. o.request = p.request
    BY <1>3, <2>2
  <2> QED BY <2>3 DEF SameAccount
<1>4. ASSUME Derived(o), Derived(p)
      PROVE  /\ o.request.scheme = p.request.scheme
             /\ o.request.phrase = p.request.phrase
             /\ SameAccount(o.request.scheme, o.request.index, p.request.index)
  <2>1. ASSUME NEW x, Derived(x)
        PROVE  Harden(x.request.index) > 0
    <3>1. x.request.index \in Indices
      BY <2>1 DEF DerivationRequests, PhraseRequest
    <3>2. ASSUME NEW i \in Indices
          PROVE  Harden(i) > 0
      <4>1. i \in Nat /\ Hard \in Nat /\ Hard > 0
        BY KeyDerivationAssumption
      <4> QED BY <4>1 DEF Harden
    <3> QED BY <3>1, <3>2
  <2>2. o.request.scheme = p.request.scheme
    BY <1>4, <2>1, DerivedPedigree
  <2>3. CASE o.request.scheme = "Evm"
    <3>1. MasterQuery("Evm", o.request.phrase) = MasterQuery("Evm", p.request.phrase)
          /\ o.request.index = p.request.index
      BY <1>4, <2>2, <2>3, DerivedPedigree
    <3> QED BY <2>2, <3>1 DEF MasterQuery, SameAccount
  <2>4. CASE o.request.scheme = "Solana"
    <3>1. MasterQuery("Solana", o.request.phrase) = MasterQuery("Solana", p.request.phrase)
          /\ Harden(o.request.index) = Harden(p.request.index)
      BY <1>4, <2>2, <2>4, DerivedPedigree
    <3> QED BY <2>2, <2>4, <3>1 DEF MasterQuery, SameAccount
  <2> QED BY <1>4, <2>3, <2>4, DerivedPedigree
<1> QED
  <2>1. \/ Derived(o)
        \/ \E phrase \in Phrases : o.request = PhraseRequest("Native", phrase, None)
                                   /\ o.origin = SeedQuery(phrase)
    BY DEF FromItsPhrase
  <2>2. \/ Derived(p)
        \/ \E phrase \in Phrases : p.request = PhraseRequest("Native", phrase, None)
                                   /\ p.origin = SeedQuery(phrase)
    BY DEF FromItsPhrase
  <2> HIDE DEF Derived
  <2> QED BY <1>2, <1>3, <1>4, <2>1, <2>2

(* evm.rs and solana.rs, "allowing multiple accounts from one mnemonic":   *)
(* keys that come out of one HMAC-SHA512 query were asked for with one     *)
(* scheme, one mnemonic and one account, for any number of requests.       *)
THEOREM AccountsAreDistinct == DerivationSpec => []DistinctAccounts
<1>1. OriginInv => DistinctAccounts
  BY OneOriginOneAccount DEF OriginInv, DistinctAccounts
<1> QED BY KeyInit, KeyStep, OriginInit, OriginStep, <1>1, PTL DEF DerivationSpec

-----------------------------------------------------------------------------
(* WalletAdapters: three wallets, any accounts, any answers.               *)

(* What ReturnedIsSignature says of one call of sign(). *)
ReturnsSignature(call) ==
  /\ Recognised(call.wallet, call.answer) =>
       call.parsed = Accepted(Whole(call.answer.bytes.key))
  /\ call.parsed.result = "Ok" =>
       \/ call.parsed.bytes = Whole(call.answer.bytes.key)
       \/ Misleading(call.wallet, call.answer)

(* Whom a wallet signs for. *)
Approver(w) == IF w = "MetaMask" THEN adapter.key ELSE active

(* What sign() makes of an answer: a whole signature of whom the wallet    *)
(* signs for if it recognises one, other bytes if it is misled, or an      *)
(* error.                                                                  *)
ParsesTo(w, a, parsed) ==
  \/ parsed = Accepted(Whole(Approver(w))) /\ a.bytes.key = Approver(w)
  \/ /\ ~ Recognised(w, a)
     /\ \/ parsed = Refused
        \/ /\ parsed.result = "Ok" /\ Misleading(w, a)
           /\ parsed.bytes.what # "signature" /\ w # "Phantom"

LEMMA NoAnswerParses ==
  ASSUME NEW w
  PROVE  ~ Recognised(w, NoAnswer) /\ ParseSignature(w, NoAnswer) = Refused
BY DEF NoAnswer, Recognised, ParseSignature, MetaMaskSignature, PhantomSignature,
       TaprootSignature

LEMMA MetaMaskParses ==
  ASSUME NEW a \in SignatureAnswers("MetaMask") \ {NoAnswer}
  PROVE  ParsesTo("MetaMask", a, ParseSignature("MetaMask", a))
<1> DEFINE k == adapter.key
           parsed == MetaMaskSignature(a)
<1>1. PICK f \in {"0xhex", "hex", "text"},
           x \in {<<"recoverable", 65>>, <<"fragment", 63>>, <<"envelope", 130>>} :
        a = Answer(f, x[1], x[2], k)
  BY DEF SignatureAnswers
<1>2. /\ ParseSignature("MetaMask", a) = parsed /\ Approver("MetaMask") = k
      /\ a.form = f /\ a.bytes = [what |-> x[1], len |-> x[2], key |-> k]
  BY <1>1 DEF ParseSignature, Answer, Approver
<1>3. CASE f = "text" \/ x = <<"fragment", 63>>
  <2>1. parsed = Refused /\ ~ Recognised("MetaMask", a)
    BY <1>2, <1>3 DEF MetaMaskSignature, Recognised
  <2> QED BY <1>2, <2>1 DEF ParsesTo
<1>4. CASE f # "text" /\ x = <<"recoverable", 65>>
  <2>1. First64(a.bytes) = Whole(k)
    BY <1>2, <1>4 DEF First64, Whole
  <2>2. parsed = Accepted(First64(a.bytes))
    BY <1>2, <1>4 DEF MetaMaskSignature
  <2> QED BY <1>2, <2>1, <2>2 DEF ParsesTo
<1>5. CASE f # "text" /\ x = <<"envelope", 130>>
  <2>1. First64(a.bytes) = [what |-> "fragment", len |-> 64, key |-> k]
    BY <1>2, <1>5 DEF First64
  <2>2. parsed = Accepted(First64(a.bytes))
    BY <1>2, <1>5 DEF MetaMaskSignature
  <2>3. parsed.result = "Ok" /\ parsed.bytes.what # "signature"
    BY <2>1, <2>2 DEF Accepted
  <2>4. ~ Recognised("MetaMask", a) /\ Misleading("MetaMask", a)
    BY <1>2, <1>5 DEF Recognised, Misleading
  <2> QED BY <1>2, <2>3, <2>4 DEF ParsesTo
<1> QED BY <1>3, <1>4, <1>5

LEMMA PhantomParses ==
  ASSUME NEW a \in SignatureAnswers("Phantom") \ {NoAnswer}
  PROVE  ParsesTo("Phantom", a, ParseSignature("Phantom", a))
<1> DEFINE parsed == PhantomSignature(a)
<1>1. PICK f \in {"Uint8Array", "text"}, x \in {<<"signature", 64>>, <<"envelope", 96>>} :
        a = Answer(f, x[1], x[2], active)
  BY DEF SignatureAnswers
<1>2. /\ ParseSignature("Phantom", a) = parsed /\ Approver("Phantom") = active
      /\ a.form = f /\ a.bytes = [what |-> x[1], len |-> x[2], key |-> active]
  BY <1>1 DEF ParseSignature, Answer, Approver
<1>3. CASE f = "text" \/ x = <<"envelope", 96>>
  <2>1. parsed = Refused /\ ~ Recognised("Phantom", a)
    BY <1>2, <1>3 DEF PhantomSignature, Recognised
  <2> QED BY <1>2, <2>1 DEF ParsesTo
<1>4. CASE f # "text" /\ x = <<"signature", 64>>
  <2>1. parsed = Accepted(Whole(active))
    BY <1>2, <1>4 DEF PhantomSignature, Whole
  <2> QED BY <1>2, <2>1 DEF ParsesTo
<1> QED BY <1>3, <1>4

LEMMA TaprootParses ==
  ASSUME NEW a \in SignatureAnswers("Taproot") \ {NoAnswer}
  PROVE  ParsesTo("Taproot", a, ParseSignature("Taproot", a))
<1> DEFINE parsed == TaprootSignature(a)
<1>1. ParseSignature("Taproot", a) = parsed /\ Approver("Taproot") = active
  BY DEF ParseSignature, Approver
<1>2. ASSUME NEW f \in {"0xhex", "hex", "base64"},
             NEW x \in {<<"signature", 64>>, <<"witness", 66>>},
             a = Answer(f, x[1], x[2], active)
      PROVE  ParsesTo("Taproot", a, parsed)
  <2>1. a.form = f /\ a.bytes = [what |-> x[1], len |-> x[2], key |-> active]
    BY <1>2 DEF Answer
  <2>2. CASE f = "base64"
    <3>1. TaprootBytes(a).len = 88
      BY <2>1, <2>2 DEF TaprootBytes
    <3>2. parsed = Refused /\ ~ Recognised("Taproot", a)
      BY <2>1, <2>2, <3>1 DEF TaprootSignature, Recognised
    <3> QED BY <3>2 DEF ParsesTo
  <2>3. CASE f # "base64" /\ x = <<"witness", 66>>
    <3>1. parsed = Refused /\ ~ Recognised("Taproot", a)
      BY <2>1, <2>3 DEF TaprootSignature, TaprootBytes, Recognised
    <3> QED BY <3>1 DEF ParsesTo
  <2>4. CASE f # "base64" /\ x = <<"signature", 64>>
    <3>1. parsed = Accepted(Whole(active))
      BY <2>1, <2>4 DEF TaprootSignature, TaprootBytes, Whole
    <3> QED BY <1>1, <2>1, <3>1 DEF ParsesTo
  <2> QED BY <2>2, <2>3, <2>4
<1>3. ASSUME NEW n \in {63, 64}, a = Answer("text", "text", n, active)
      PROVE  ParsesTo("Taproot", a, parsed)
  <2>1. /\ a.form = "text" /\ a.bytes = [what |-> "text", len |-> n, key |-> active]
        /\ TaprootBytes(a) = a.bytes
    BY <1>3 DEF Answer, TaprootBytes
  <2>2. ~ Recognised("Taproot", a)
    BY <2>1 DEF Recognised
  <2>3. CASE n = 63
    <3>1. parsed = Refused
      BY <2>1, <2>3 DEF TaprootSignature
    <3> QED BY <2>2, <3>1 DEF ParsesTo
  <2>4. CASE n = 64
    <3>1. parsed = Accepted(a.bytes) /\ Misleading("Taproot", a)
      BY <2>1, <2>4 DEF TaprootSignature, Misleading
    <3>2. parsed.result = "Ok" /\ parsed.bytes.what = "text"
      BY <2>1, <3>1 DEF Accepted
    <3> QED BY <2>2, <3>1, <3>2 DEF ParsesTo
  <2> QED BY <2>3, <2>4
<1>4. \/ \E f \in {"0xhex", "hex", "base64"}, x \in {<<"signature", 64>>, <<"witness", 66>>} :
           a = Answer(f, x[1], x[2], active)
      \/ \E n \in {63, 64} : a = Answer("text", "text", n, active)
  BY DEF SignatureAnswers
<1> QED BY <1>1, <1>2, <1>3, <1>4

(* sign() of the three adapters. *)
LEMMA AnswerParses ==
  ASSUME NEW w \in {"MetaMask", "Phantom", "Taproot"}, NEW a \in SignatureAnswers(w)
  PROVE  ParsesTo(w, a, ParseSignature(w, a))
<1>1. CASE a = NoAnswer
  BY <1>1, NoAnswerParses DEF ParsesTo
<1> QED BY <1>1, MetaMaskParses, PhantomParses, TaprootParses

LEMMA ParsedIsSignature ==
  ASSUME NEW w \in {"MetaMask", "Phantom", "Taproot"}, NEW a \in SignatureAnswers(w)
  PROVE  ReturnsSignature([wallet |-> w, answer |-> a, parsed |-> ParseSignature(w, a)])
<1> DEFINE parsed == ParseSignature(w, a)
<1>1. ParsesTo(w, a, parsed)
  BY AnswerParses
<1> HIDE DEF parsed
<1>2. /\ Recognised(w, a) => parsed = Accepted(Whole(a.bytes.key))
      /\ parsed.result = "Ok" => parsed.bytes = Whole(a.bytes.key) \/ Misleading(w, a)
  BY <1>1 DEF ParsesTo, Accepted, Refused
<1> QED BY <1>2 DEF ReturnsSignature, parsed

LEMMA RefusedIsFine ==
  ASSUME NEW w
  PROVE  ReturnsSignature([wallet |-> w, answer |-> NoAnswer, parsed |-> Refused])
BY NoAnswerParses DEF ReturnsSignature, Refused

(* What the functions of an adapter are suspended at: connect() only       *)
(* before there is one, sign() only after, for its own wallet.             *)
AwaitInv ==
  /\ active \in Keys
  /\ await # None =>
       \/ await.call \in {"requestAccounts", "getPublicKey"} /\ adapter = None
       \/ await.call = "sign" /\ adapter # None /\ await.wallet = adapter.wallet

LEMMA AwaitStep == AwaitInv /\ [AdaptersNext]_adapterVars => AwaitInv'
<1> SUFFICES ASSUME AwaitInv, [AdaptersNext]_adapterVars PROVE AwaitInv'
  OBVIOUS
<1>1. ASSUME await' = None, active' = active
      PROVE  AwaitInv'
  BY <1>1 DEF AwaitInv
<1>2. ASSUME NEW k \in Keys, SwitchAccount(k)
      PROVE  AwaitInv'
  BY <1>2 DEF AwaitInv, SwitchAccount
<1>3. ASSUME NEW w \in Wallets, RequestAccounts(w)
      PROVE  AwaitInv'
  BY <1>3 DEF AwaitInv, RequestAccounts
<1>4. CASE TaprootAddressArrives
  <2>1. PICK a \in AccountAnswers("Taproot") :
          await' = IF a.form = "absent" THEN None
                   ELSE [call |-> "getPublicKey", wallet |-> "Taproot", address |-> a.bytes.key]
    BY <1>4 DEF TaprootAddressArrives
  <2>2. adapter = None /\ adapter' = adapter /\ active' = active
    BY <1>4 DEF TaprootAddressArrives, Awaits, AwaitInv
  <2>3. CASE await' = None
    BY <1>1, <2>2, <2>3
  <2>4. CASE await'.call = "getPublicKey"
    BY <2>2, <2>4 DEF AwaitInv
  <2> QED BY <2>1, <2>3, <2>4
<1>5. CASE RequestSignature
  BY <1>5 DEF AwaitInv, RequestSignature
<1>6. CASE MetaMaskConnects \/ PhantomConnects \/ TaprootKeyArrives \/ SignatureArrives
           \/ WalletRejects
  BY <1>1, <1>6 DEF MetaMaskConnects, PhantomConnects, TaprootKeyArrives, SignatureArrives,
                    WalletRejects
<1>7. CASE UNCHANGED adapterVars
  BY <1>7 DEF AwaitInv, adapterVars
<1> QED BY <1>2, <1>3, <1>4, <1>5, <1>6, <1>7 DEF AdaptersNext

LEMMA AwaitInvariant == AdaptersSpec => []AwaitInv
<1>1. AdaptersInit => AwaitInv
  BY DEF AdaptersInit, AwaitInv
<1> QED BY <1>1, AwaitStep, PTL DEF AdaptersSpec

(* What the variables hold. *)
AdaptersInv ==
  /\ adapter # None => adapter.wallet \in {"MetaMask", "Phantom", "Taproot"}
  /\ returned # None => ReturnsSignature(returned)

LEMMA AdaptersStep ==
  AdaptersInv /\ AwaitInv /\ [AdaptersNext]_adapterVars => AdaptersInv'
<1> SUFFICES ASSUME AdaptersInv, AwaitInv, [AdaptersNext]_adapterVars PROVE AdaptersInv'
  OBVIOUS
<1>1. ASSUME returned' = returned, adapter' = adapter
      PROVE  AdaptersInv'
  BY <1>1 DEF AdaptersInv
<1>2. ASSUME NEW w \in {"MetaMask", "Phantom", "Taproot"}, NEW key, NEW address,
             adapter' \in {Connected(w, key, address), None}, returned' = returned
      PROVE  AdaptersInv'
  BY <1>2 DEF AdaptersInv, Connected
<1>3. CASE MetaMaskConnects
  <2>1. PICK a \in AccountAnswers("MetaMask") :
          adapter' \in {Connected("MetaMask", a.bytes.key, None), None}
    BY <1>3 DEF MetaMaskConnects
  <2> QED BY <1>2, <1>3, <2>1 DEF MetaMaskConnects
<1>4. CASE PhantomConnects
  <2>1. PICK a \in AccountAnswers("Phantom") :
          adapter' \in {Connected("Phantom", a.bytes.key, None), None}
    BY <1>4 DEF PhantomConnects
  <2> QED BY <1>2, <1>4, <2>1 DEF PhantomConnects
<1>5. CASE TaprootKeyArrives
  <2>1. PICK a \in KeyAnswers :
          adapter' \in {Connected("Taproot", a.bytes.key, await.address), None}
    BY <1>5 DEF TaprootKeyArrives
  <2> QED BY <1>2, <1>5, <2>1 DEF TaprootKeyArrives
<1>6. CASE SignatureArrives
  <2>1. PICK a \in SignatureAnswers(await.wallet) :
          returned' = [wallet |-> await.wallet, answer |-> a,
                       parsed |-> ParseSignature(await.wallet, a)]
    BY <1>6 DEF SignatureArrives
  <2>2. await.wallet \in {"MetaMask", "Phantom", "Taproot"}
    BY <1>6 DEF SignatureArrives, AwaitInv, AdaptersInv
  <2>3. ReturnsSignature(returned')
    BY <2>1, <2>2, ParsedIsSignature
  <2> QED BY <1>6, <2>3 DEF SignatureArrives, AdaptersInv
<1>7. CASE WalletRejects
  <2>1. returned' = returned \/ ReturnsSignature(returned')
    BY <1>7, RefusedIsFine DEF WalletRejects
  <2> QED BY <1>7, <2>1 DEF WalletRejects, AdaptersInv
<1>8. CASE \/ \E k \in Keys : SwitchAccount(k)
           \/ \E w \in Wallets : RequestAccounts(w)
           \/ TaprootAddressArrives \/ RequestSignature \/ UNCHANGED adapterVars
  BY <1>1, <1>8 DEF SwitchAccount, RequestAccounts, TaprootAddressArrives, RequestSignature,
                    adapterVars
<1> QED BY <1>3, <1>4, <1>5, <1>6, <1>7, <1>8 DEF AdaptersNext

LEMMA AdaptersInvariant == AdaptersSpec => []AdaptersInv
<1>1. AdaptersInit => AdaptersInv
  BY DEF AdaptersInit, AdaptersInv
<1> QED BY <1>1, AdaptersStep, AwaitInvariant, PTL DEF AdaptersSpec

(* metamask.rs, phantom.rs and taproot.rs: sign() returns, whole, every    *)
(* signature that is answered in the form it expects, and of other answers *)
(* an error, save the two that mislead it.                                 *)
THEOREM ReturnsSignatures == AdaptersSpec => []ReturnedIsSignature
<1>1. AdaptersInv => ReturnedIsSignature
  BY DEF AdaptersInv, ReturnedIsSignature, ReturnsSignature
<1> QED BY <1>1, AdaptersInvariant, PTL

(* The verifier reads from the wire the key the adapter wrote. *)
LEMMA AddressOnWire ==
  ASSUME NEW key
  PROVE  FromProtoAny(ToProtoAny([kind |-> "EvmAddress", key |-> key]))
           = [kind |-> "EvmAddress", key |-> key]
<1> DEFINE any == [url |-> "secp256k1", value |-> [len |-> 20, key |-> key]]
           matches == {p \in ParsedKind : p[1] = any.url /\ p[2] = any.value.len}
<1>1. ToProtoAny([kind |-> "EvmAddress", key |-> key]) = any
  BY DEF ToProtoAny, TypeUrl, ToProtoBytes
<1>2. \E triple \in ParsedKind : matches = {triple} /\ triple[3] = "EvmAddress"
  BY DEF ParsedKind
<1>3. FromProtoAny(any) = IF matches = {} THEN None
                          ELSE [kind |-> (CHOOSE p \in matches : TRUE)[3], key |-> key]
  BY DEF FromProtoAny
<1> HIDE DEF any, matches
<1> QED BY <1>1, <1>2, <1>3

LEMMA Ed25519OnWire ==
  ASSUME NEW key
  PROVE  FromProtoAny(ToProtoAny([kind |-> "Ed25519", key |-> key]))
           = [kind |-> "Ed25519", key |-> key]
<1> DEFINE any == [url |-> "ed25519", value |-> [len |-> 32, key |-> key]]
           matches == {p \in ParsedKind : p[1] = any.url /\ p[2] = any.value.len}
<1>1. ToProtoAny([kind |-> "Ed25519", key |-> key]) = any
  BY DEF ToProtoAny, TypeUrl, ToProtoBytes
<1>2. \E triple \in ParsedKind : matches = {triple} /\ triple[3] = "Ed25519"
  BY DEF ParsedKind
<1>3. FromProtoAny(any) = IF matches = {} THEN None
                          ELSE [kind |-> (CHOOSE p \in matches : TRUE)[3], key |-> key]
  BY DEF FromProtoAny
<1> HIDE DEF any, matches
<1> QED BY <1>1, <1>2, <1>3

(* metamask.rs and phantom.rs: the account id an adapter derives from the  *)
(* wallet's address is the one the verifier derives from the key in        *)
(* SignerInfo, whichever accounts the user switches between.               *)
THEOREM AccountsAreTheVerifiers == AdaptersSpec => []AdapterAccountIsVerifiers
<1>1. ASSUME AdaptersInv, adapter # None, adapter.wallet # "Taproot"
      PROVE  AccountId = ToAccountId(FromProtoAny(PublicKeyProto))
  <2>1. CASE adapter.wallet = "MetaMask"
    <3>1. FromProtoAny(PublicKeyProto) = [kind |-> "EvmAddress", key |-> adapter.key]
      BY <2>1, AddressOnWire DEF PublicKeyProto
    <3>2. AccountId = Sha256([len |-> 20, key |-> adapter.key])
      BY <2>1 DEF AccountId, AddressAccountId, AddressBytes
    <3> QED BY <3>1, <3>2 DEF ToAccountId, ToProtoBytes
  <2>2. CASE adapter.wallet = "Phantom"
    <3>1. FromProtoAny(PublicKeyProto) = [kind |-> "Ed25519", key |-> adapter.key]
      BY <2>2, Ed25519OnWire DEF PublicKeyProto
    <3>2. AccountId = Sha256([len |-> 32, key |-> adapter.key])
      BY <2>2 DEF AccountId, AddressAccountId, AddressBytes
    <3> QED BY <3>1, <3>2 DEF ToAccountId, ToProtoBytes
  <2> QED BY <1>1, <2>1, <2>2 DEF AdaptersInv
<1>2. AdaptersInv => AdapterAccountIsVerifiers
  BY <1>1 DEF AdapterAccountIsVerifiers
<1> QED BY <1>2, AdaptersInvariant, PTL

(* A wallet's answer to connect() makes an adapter for the account that is *)
(* selected, or none.                                                      *)
LEMMA ConnectImplements ==
  ASSUME adapter = None, returned' = returned, active' = active,
         NEW w \in {"MetaMask", "Phantom", "Taproot"}, NEW address,
         adapter' \in {Connected(w, active, address), None}
  PROVE  [Adapter!AdapterNext]_(Adapter!adapterVars)
<1>1. SignOutcome' = SignOutcome
  BY DEF SignOutcome
<1>2. Holder = Adapter!Unconnected
  BY DEF Holder, Adapter!Unconnected
<1>3. CASE adapter' = None
  BY <1>1, <1>3 DEF Holder, Adapter!adapterVars
<1>4. CASE adapter' # None
  <2>1. Holder' = [wallet |-> w, key |-> active]
    BY <1>4 DEF Holder, Connected
  <2> QED BY <1>1, <1>2, <2>1 DEF Adapter!AdapterNext, Adapter!Connect
<1> QED BY <1>3, <1>4

(* Whatever comes of sign(), the contract allows it. *)
LEMMA SignImplements ==
  ASSUME AdaptersInv, AwaitInv, SignatureArrives
  PROVE  Adapter!AdapterNext
<1>1. PICK a \in SignatureAnswers(await.wallet) :
        returned' = [wallet |-> await.wallet, answer |-> a,
                     parsed |-> ParseSignature(await.wallet, a)]
  BY DEF SignatureArrives
<1>2. /\ Holder' = Holder /\ active' = active
      /\ adapter # None /\ await.wallet = adapter.wallet
  BY DEF SignatureArrives, Holder, AwaitInv
<1>3. /\ Holder = [wallet |-> adapter.wallet, key |-> adapter.key]
      /\ adapter.wallet \in {"MetaMask", "Phantom", "Taproot"}
      /\ Holder # Adapter!Unconnected
  BY <1>2 DEF Holder, AdaptersInv, Adapter!Unconnected
<1> DEFINE w == adapter.wallet
           parsed == ParseSignature(w, a)
<1>4. ParsesTo(w, a, parsed) /\ returned'.parsed = parsed
  BY <1>1, <1>2, <1>3, AnswerParses
<1> HIDE DEF parsed
<1>5. CASE returned' = None \/ parsed.result # "Ok"
  <2>1. SignOutcome' = Adapter!NoSignature
    BY <1>4, <1>5 DEF SignOutcome, Adapter!NoSignature
  <2> QED BY <1>2, <2>1 DEF Adapter!AdapterNext, Adapter!Fail
<1>6. CASE returned' # None /\ parsed = Accepted(Whole(Approver(w)))
  <2>1. /\ parsed.result = "Ok" /\ parsed.bytes = Whole(Approver(w))
        /\ parsed.bytes.what = "signature"
    BY <1>6 DEF Accepted, Whole
  <2>2. SignOutcome' = [what |-> "signature", len |-> 64, key |-> Approver(w)]
    BY <1>4, <1>6, <2>1 DEF SignOutcome, Whole
  <2>3. Approver(w) = Adapter!SignedBy
    BY <1>3 DEF Approver, Adapter!SignedBy
  <2>4. Adapter!Sign
    BY <1>2, <1>3, <2>2, <2>3 DEF Adapter!Sign
  <2> QED BY <2>4 DEF Adapter!AdapterNext
<1>7. CASE /\ returned' # None /\ parsed.result = "Ok"
           /\ parsed.bytes.what # "signature" /\ w # "Phantom"
  <2>1. SignOutcome' = Adapter!OtherBytes
    BY <1>4, <1>7 DEF SignOutcome, Adapter!OtherBytes
  <2>2. Adapter!Mislead
    BY <1>2, <1>3, <1>7, <2>1 DEF Adapter!Mislead
  <2> QED BY <2>2 DEF Adapter!AdapterNext
<1> QED BY <1>4, <1>5, <1>6, <1>7 DEF ParsesTo, Refused

LEMMA RejectImplements ==
  ASSUME WalletRejects
  PROVE  [Adapter!AdapterNext]_(Adapter!adapterVars)
<1>1. Holder' = Holder /\ active' = active
  BY DEF WalletRejects, Holder
<1>2. CASE returned' = returned
  BY <1>1, <1>2 DEF SignOutcome, Adapter!adapterVars
<1>3. CASE returned' = [wallet |-> await.wallet, answer |-> NoAnswer, parsed |-> Refused]
  <2>1. returned'.parsed.result = "Err"
    BY <1>3 DEF Refused
  <2>2. SignOutcome' = Adapter!NoSignature
    BY <2>1 DEF SignOutcome, Adapter!NoSignature
  <2> QED BY <1>1, <2>2 DEF Adapter!AdapterNext, Adapter!Fail
<1> QED BY <1>2, <1>3 DEF WalletRejects

LEMMA AdaptersStepImplements ==
  AdaptersInv /\ AwaitInv /\ [AdaptersNext]_adapterVars
    => [Adapter!AdapterNext]_(Adapter!adapterVars)
<1> SUFFICES ASSUME AdaptersInv, AwaitInv, [AdaptersNext]_adapterVars
             PROVE  [Adapter!AdapterNext]_(Adapter!adapterVars)
  OBVIOUS
<1>1. ASSUME NEW k \in Keys, SwitchAccount(k)
      PROVE  [Adapter!AdapterNext]_(Adapter!adapterVars)
  BY <1>1 DEF SwitchAccount, Holder, SignOutcome, Adapter!AdapterNext, Adapter!Select
<1>2. CASE \/ \E w \in Wallets : RequestAccounts(w)
           \/ TaprootAddressArrives \/ RequestSignature \/ UNCHANGED adapterVars
  BY <1>2 DEF RequestAccounts, TaprootAddressArrives, RequestSignature, adapterVars,
              Holder, SignOutcome, Adapter!adapterVars
<1>3. CASE MetaMaskConnects
  <2>1. adapter = None
    BY <1>3 DEF MetaMaskConnects, Awaits, AwaitInv
  <2>2. PICK a \in AccountAnswers("MetaMask") :
          adapter' = IF a.form \in {"0xhex", "hex"} /\ a.bytes.len = 20
                     THEN Connected("MetaMask", a.bytes.key, None) ELSE None
    BY <1>3 DEF MetaMaskConnects
  <2>3. adapter' \in {Connected("MetaMask", active, None), None}
    BY <2>2 DEF AccountAnswers, Answer, NoAnswer
  <2> QED BY <1>3, <2>1, <2>3, ConnectImplements DEF MetaMaskConnects
<1>4. CASE PhantomConnects
  <2>1. adapter = None
    BY <1>4 DEF PhantomConnects, Awaits, AwaitInv
  <2>2. PICK a \in AccountAnswers("Phantom") :
          adapter' = IF a.form \in {"PublicKey", "Uint8Array"} /\ a.bytes.len = 32
                     THEN Connected("Phantom", a.bytes.key, None) ELSE None
    BY <1>4 DEF PhantomConnects
  <2>3. adapter' \in {Connected("Phantom", active, None), None}
    BY <2>2 DEF AccountAnswers, Answer, NoAnswer
  <2> QED BY <1>4, <2>1, <2>3, ConnectImplements DEF PhantomConnects
<1>5. CASE TaprootKeyArrives
  <2>1. adapter = None
    BY <1>5 DEF TaprootKeyArrives, Awaits, AwaitInv
  <2>2. PICK a \in KeyAnswers :
          adapter' = IF a.form = "hex" /\ a.bytes.len \in {32, 33}
                     THEN Connected("Taproot", a.bytes.key, await.address) ELSE None
    BY <1>5 DEF TaprootKeyArrives
  <2>3. adapter' \in {Connected("Taproot", active, await.address), None}
    BY <2>2 DEF KeyAnswers, Answer, NoAnswer
  <2> QED BY <1>5, <2>1, <2>3, ConnectImplements DEF TaprootKeyArrives
<1>6. CASE SignatureArrives
  BY <1>6, SignImplements
<1>7. CASE WalletRejects
  BY <1>7, RejectImplements
<1> QED BY <1>1, <1>2, <1>3, <1>4, <1>5, <1>6, <1>7 DEF AdaptersNext

(* The adapters of wasm-lib, whenever a wallet's user switches accounts,   *)
(* implement AdapterContract: the account spoken for is the one of         *)
(* connect(), a signature is whole and of the account the wallet was to    *)
(* sign for, and Phantom's adapter returns nothing else.                   *)
THEOREM AdaptersImplementation == AdaptersSpec => ImplementsAdapter
<1>1. AdaptersInit => Adapter!AdapterInit
  BY DEF AdaptersInit, Holder, SignOutcome, Adapter!AdapterInit, Adapter!Unconnected,
         Adapter!NoSignature
<1> QED BY <1>1, AdaptersInvariant, AwaitInvariant, AdaptersStepImplements, PTL
        DEF AdaptersSpec, ImplementsAdapter, Adapter!AdapterSpec

-----------------------------------------------------------------------------
(* CryptogramBridge: any digests, any number of signatures.                *)

(* The algorithm of a signature made for a wallet is the wallet's. *)
OfWallet(text) ==
  text.wallet # None =>
    text.wallet \in WalletTypes /\ text.type = WalletTypeToSigType(text.wallet)

BridgeInv ==
  /\ \A text \in signed : OfWallet(text)
  /\ \A c \in converted :
       /\ c.signature = [variant |-> Variant(c.type), len |-> 64]
       /\ c.type = c.text.type
       /\ OfWallet(c.text)

LEMMA BridgeStep == BridgeInv /\ [BridgeNext]_bridgeVars => BridgeInv'
<1> SUFFICES ASSUME BridgeInv, [BridgeNext]_bridgeVars PROVE BridgeInv'
  OBVIOUS
<1>1. ASSUME converted' = converted, signed' = signed
      PROVE  BridgeInv'
  BY <1>1 DEF BridgeInv
<1>2. ASSUME NEW text, OfWallet(text), HexSigToSignature(text, text.type)
      PROVE  BridgeInv'
  <2>1. signed' = signed
    BY <1>2 DEF HexSigToSignature
  <2>2. CASE converted' = converted
    BY <1>1, <2>1, <2>2
  <2>3. CASE converted' = converted \cup
               {[text |-> text, type |-> text.type,
                 signature |-> [variant |-> Variant(text.type), len |-> 64]]}
    <3> DEFINE new == [text |-> text, type |-> text.type,
                       signature |-> [variant |-> Variant(text.type), len |-> 64]]
    <3>1. /\ new.signature = [variant |-> Variant(new.type), len |-> 64]
          /\ new.type = new.text.type /\ OfWallet(new.text)
      BY <1>2
    <3>2. converted' = converted \cup {new}
      BY <2>3
    <3> HIDE DEF new
    <3> QED BY <2>1, <3>1, <3>2 DEF BridgeInv
  <2> QED BY <1>2, <2>2, <2>3 DEF HexSigToSignature
<1>3. ASSUME NEW text \in signed,
             \/ HexSigToSignature(text, text.type)
             \/ HexSigToSignature([text EXCEPT !.digest = "malformed"], text.type)
      PROVE  BridgeInv'
  <2> DEFINE lost == [text EXCEPT !.digest = "malformed"]
  <2>1. OfWallet(text)
    BY DEF BridgeInv
  <2>2. CASE HexSigToSignature(text, text.type)
    BY <1>2, <2>1, <2>2
  <2>3. CASE HexSigToSignature(lost, text.type)
    <3>1. ~ Takes(lost)
      BY DEF Takes
    <3> QED BY <1>1, <2>3, <3>1 DEF HexSigToSignature
  <2> QED BY <1>3, <2>2, <2>3
<1>4. ASSUME NEW type, NEW wallet, NEW key, NEW digest, SignDigest(type, wallet, key, digest),
             wallet # None => wallet \in WalletTypes /\ type = WalletTypeToSigType(wallet)
      PROVE  BridgeInv'
  <2>1. converted' = converted
    BY <1>4 DEF SignDigest
  <2>2. CASE signed' = signed
    BY <1>1, <2>1, <2>2
  <2>3. ASSUME NEW len, signed' = signed \cup {[type |-> type, wallet |-> wallet, key |-> key,
                                               digest |-> digest, len |-> len]}
        PROVE  BridgeInv'
    <3> DEFINE new == [type |-> type, wallet |-> wallet, key |-> key, digest |-> digest,
                       len |-> len]
    <3>1. OfWallet(new)
      BY <1>4 DEF OfWallet
    <3>2. signed' = signed \cup {new}
      BY <2>3
    <3> HIDE DEF new
    <3> QED BY <2>1, <3>1, <3>2 DEF BridgeInv
  <2> QED BY <1>4, <2>2, <2>3 DEF SignDigest
<1>5. CASE UNCHANGED bridgeVars
  BY <1>1, <1>5 DEF bridgeVars
<1> QED BY <1>3, <1>4, <1>5 DEF BridgeNext

LEMMA BridgeInvariant == BridgeSpec => []BridgeInv
<1>1. BridgeInit => BridgeInv
  BY DEF BridgeInit, BridgeInv
<1> QED BY <1>1, BridgeStep, PTL DEF BridgeSpec

(* The table back and the variants name one curve. *)
LEMMA OneCurve ==
  ASSUME NEW type, SigTypeToWalletType(type) # None
  PROVE  Variant(type) = ModeVariant(DefaultSignMode(SigTypeToWalletType(type)))
<1>1. CASE type = "Ed25519"
  BY <1>1 DEF SigTypeToWalletType, Variant, ModeVariant, DefaultSignMode
<1>2. CASE type \in {"SchnorrTaproot", "SchnorrAggregate"}
  <2>1. SigTypeToWalletType(type) = "Bitcoin" /\ Variant(type) = "Schnorr"
    BY <1>2 DEF SigTypeToWalletType, Variant, LegacyEd25519
  <2> QED BY <2>1 DEF ModeVariant, DefaultSignMode
<1>3. CASE type \in LegacyEd25519
  BY <1>3 DEF SigTypeToWalletType, Variant, ModeVariant, DefaultSignMode, LegacyEd25519
<1>4. CASE type \notin {"Ed25519", "SchnorrTaproot", "SchnorrAggregate", "Hybrid"}
                       \cup LegacyEd25519
  BY <1>4 DEF SigTypeToWalletType, Variant, ModeVariant, DefaultSignMode, LegacyEd25519
<1>5. type # "Hybrid"
  BY DEF SigTypeToWalletType, LegacyEd25519
<1> QED BY <1>1, <1>2, <1>3, <1>4, <1>5

(* The table out, the variants and the sign modes name one curve for every *)
(* wallet but Hardware.                                                    *)
LEMMA OneCurveOut ==
  ASSUME NEW wallet \in WalletTypes \ {"Hardware"}
  PROVE  Variant(WalletTypeToSigType(wallet)) = ModeVariant(DefaultSignMode(wallet))
<1>1. CASE wallet = "Bitcoin"
  <2>1. WalletTypeToSigType(wallet) = "SchnorrTaproot" /\ DefaultSignMode(wallet) = "SchnorrAggregate"
    BY <1>1 DEF WalletTypeToSigType, DefaultSignMode
  <2>2. Variant("SchnorrTaproot") = "Schnorr"
    BY DEF Variant, LegacyEd25519
  <2> QED BY <2>1, <2>2 DEF ModeVariant
<1>2. CASE wallet \in {"Native", "Solana", "Agent"}
  BY <1>2 DEF WalletTypeToSigType, DefaultSignMode, Variant, ModeVariant
<1>3. CASE wallet = "Evm"
  BY <1>3 DEF WalletTypeToSigType, DefaultSignMode, Variant, ModeVariant, LegacyEd25519
<1> QED BY <1>1, <1>2, <1>3 DEF WalletTypes

(* cryptogram_bridge.rs and types.rs: a converted signature is of the      *)
(* variant that the sign mode of its wallet, Hardware excepted, verifies,  *)
(* and that of the wallet type its algorithm maps back to.                 *)
THEOREM TablesAlwaysAgree == BridgeSpec => []TablesAgree
<1>1. ASSUME BridgeInv, NEW c \in converted,
             NEW w \in {c.text.wallet, SigTypeToWalletType(c.type)} \ {None, "Hardware"}
      PROVE  c.signature.variant = ModeVariant(DefaultSignMode(w))
  <2>1. /\ c.signature = [variant |-> Variant(c.type), len |-> 64]
        /\ c.type = c.text.type /\ OfWallet(c.text)
    BY <1>1 DEF BridgeInv
  <2>2. c.signature.variant = Variant(c.type)
    BY ONLY <2>1
  <2>3. CASE w = SigTypeToWalletType(c.type)
    BY <2>2, <2>3, OneCurve
  <2>4. CASE w = c.text.wallet
    <3>1. w \in WalletTypes \ {"Hardware"} /\ c.type = WalletTypeToSigType(w)
      BY <2>1, <2>4 DEF OfWallet
    <3> QED BY <2>2, <3>1, OneCurveOut
  <2> QED BY <2>3, <2>4
<1>2. BridgeInv => TablesAgree
  BY <1>1 DEF TablesAgree
<1> QED BY <1>2, BridgeInvariant, PTL

=============================================================================
