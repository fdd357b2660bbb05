---------------------------- MODULE VcClaimsProofs ---------------------------
(***************************************************************************)
(* What a claim built by VcClaimBuilder is worth, for every set of         *)
(* parties, limits, ranges, expiries and curves: in whatever order the     *)
(* setters, the issuer and build() are called, and in whatever form the    *)
(* claim travels.                                                          *)
(***************************************************************************)
EXTENDS VcClaims, TLAPS

-----------------------------------------------------------------------------
(* What the variables hold. *)

Starts == {0} \cup {r[1] : r \in Ranges}
Ends   == {0} \cup {r[2] : r \in Ranges}

ShownTerms ==
  [issuer : Parties \cup {None}, subject : Parties \cup {None}, limits : Limits,
   expiry : Expiries \cup {None}, sub_start : Starts, sub_end : Ends, signature : {None}]

(* An issuer signs the digest of the terms it is shown. *)
Seal(shown) == [signs |-> Sha256(Encode(shown)), shown |-> shown]

Signatures ==
  [variant : Curves \cup {"Ed25519"}, bytes : {ZeroSig} \cup {Seal(t) : t \in ShownTerms}]

(* What the setters put together, complete or not. *)
Collections ==
  [issuer : Parties \cup {None}, subject : Parties \cup {None}, limits : Limits,
   expiry : Expiries \cup {None}, sub_start : Starts, sub_end : Ends,
   signature : Signatures \cup {None}]

(* What build() lets through. *)
Complete(c) ==
  /\ c \in Collections
  /\ c.expiry # None /\ c.signature # None
  /\ c.sub_start < c.sub_end /\ c.signature.bytes # ZeroSig

ClaimInv ==
  /\ clock \in Nat
  /\ builder \in Collections
  /\ ticket # None => ticket \in Signatures
  /\ claim # None => Complete(claim)

(* The numbers among them are. *)
LEMMA NumbersOf ==
  /\ Starts \subseteq Nat /\ Ends \subseteq Nat /\ Expiries \subseteq Nat
  BY VcClaimsAssumption DEF Starts, Ends

LEMMA TermsOf ==
  ASSUME NEW b \in Collections
  PROVE  Terms(b) \in ShownTerms /\ ClaimDigest(b) = Sha256(Encode(Terms(b)))
  BY DEF Collections, ShownTerms, Terms, ClaimDigest

-----------------------------------------------------------------------------
(* The invariant. *)

LEMMA EmptyCollection == EmptyClaimBuilder \in Collections
  BY VcClaimsAssumption DEF EmptyClaimBuilder, Collections, Starts, Ends

LEMMA ClaimInitEstablishes == ClaimInit => ClaimInv
  BY EmptyCollection DEF ClaimInit, ClaimInv

(* A setter leaves a builder. *)
LEMMA SetKeeps ==
  ASSUME ClaimInv, NEW b \in Collections, SetTo(b)
  PROVE  ClaimInv'
  BY DEF ClaimInv, SetTo

LEMMA FieldSetterKeeps ==
  ASSUME ClaimInv,
         \/ \E id \in Parties : SetIssuer(id) \/ SetSubject(id)
         \/ \E l \in Limits : SetLimits(l)
         \/ \E t \in Expiries : SetExpiry(t)
         \/ \E r \in Ranges : SetRange(r)
  PROVE  ClaimInv'
  <1>1. builder \in Collections
    BY DEF ClaimInv
  <1>2. ASSUME NEW id \in Parties
        PROVE  /\ [builder EXCEPT !.issuer = id] \in Collections
               /\ [builder EXCEPT !.subject = id] \in Collections
    BY <1>1 DEF Collections
  <1>3. ASSUME NEW l \in Limits
        PROVE  [builder EXCEPT !.limits = l] \in Collections
    BY <1>1 DEF Collections
  <1>4. ASSUME NEW t \in Expiries
        PROVE  [builder EXCEPT !.expiry = t] \in Collections
    BY <1>1 DEF Collections
  <1>5. ASSUME NEW r \in Ranges
        PROVE  [builder EXCEPT !.sub_start = r[1], !.sub_end = r[2]] \in Collections
    BY <1>1 DEF Collections, Starts, Ends
  <1> QED
    BY <1>2, <1>3, <1>4, <1>5, SetKeeps DEF SetIssuer, SetSubject, SetLimits, SetExpiry, SetRange

LEMMA SetSignatureKeeps ==
  ASSUME ClaimInv, NEW signature \in Signatures, SetSignature(signature)
  PROVE  ClaimInv'
  <1>1. [builder EXCEPT !.signature = signature] \in Collections
    BY DEF ClaimInv, Collections
  <1> QED
    BY <1>1, SetKeeps DEF SetSignature

(* The issuer signs the terms collected so far. *)
LEMMA IssuerSignsKeeps ==
  ASSUME ClaimInv, NEW variant \in Curves, IssuerSigns(variant)
  PROVE  ClaimInv'
  <1>1. Terms(builder) \in ShownTerms
        /\ ClaimDigest(builder) = Sha256(Encode(Terms(builder)))
    BY TermsOf DEF ClaimInv
  <1>2. ticket' = [variant |-> variant, bytes |-> Seal(Terms(builder))]
    BY <1>1 DEF IssuerSigns, Seal
  <1>3. ticket' \in Signatures
    BY <1>1, <1>2 DEF Signatures
  <1> QED
    BY <1>3 DEF ClaimInv, IssuerSigns

(* What build() answers with a claim has every field and a proper range. *)
LEMMA BuildErrorOk ==
  ASSUME NEW b \in Collections, NEW now \in Nat, BuildError(b, now) = "Ok"
  PROVE  Complete(b)
  <1>1. ~ (\E field \in Required : b[field] = None) /\ Validate(b, now) = "Ok"
    BY DEF BuildError
  <1>2. b.expiry # None /\ b.signature # None
    BY <1>1 DEF Required
  <1>3. b.sub_start \in Nat /\ b.sub_end \in Nat
    BY NumbersOf DEF Collections
  <1>4. ~ (b.sub_start >= b.sub_end) /\ b.signature.bytes # ZeroSig
    BY <1>1 DEF Validate
  <1> QED
    BY <1>2, <1>3, <1>4 DEF Complete

LEMMA BuildKeeps ==
  ASSUME ClaimInv, Build
  PROVE  ClaimInv'
  <1>1. claim' # None => Complete(claim')
    <2>1. CASE BuildError(builder, clock) = "Ok" /\ claim' = builder
      BY <2>1, BuildErrorOk DEF ClaimInv
    <2>2. CASE claim' = claim
      BY <2>2 DEF ClaimInv
    <2> QED
      BY <2>1, <2>2 DEF Build
  <1> QED
    BY <1>1, EmptyCollection DEF Build, ClaimInv

LEMMA ClaimStepKeeps == ClaimInv /\ [ClaimNext]_claimVars => ClaimInv'
  <1> SUFFICES ASSUME ClaimInv, [ClaimNext]_claimVars PROVE ClaimInv'
    OBVIOUS
  <1>1. CASE \/ \E id \in Parties : SetIssuer(id) \/ SetSubject(id)
             \/ \E l \in Limits : SetLimits(l)
             \/ \E t \in Expiries : SetExpiry(t)
             \/ \E r \in Ranges : SetRange(r)
    BY <1>1, FieldSetterKeeps
  <1>2. CASE SetTicket
    BY <1>2, SetSignatureKeeps DEF SetTicket, ClaimInv
  <1>3. CASE SetZeroSignature
    <2>1. [variant |-> "Ed25519", bytes |-> ZeroSig] \in Signatures
      BY DEF Signatures
    <2> QED
      BY <1>3, <2>1, SetSignatureKeeps DEF SetZeroSignature
  <1>4. CASE \E variant \in Curves : IssuerSigns(variant)
    BY <1>4, IssuerSignsKeeps
  <1>5. CASE Build
    BY <1>5, BuildKeeps
  <1>6. CASE TickClock
    BY <1>6 DEF TickClock, ClaimInv
  <1>7. CASE UNCHANGED claimVars
    BY <1>7 DEF ClaimInv, claimVars
  <1> QED
    BY <1>1, <1>2, <1>3, <1>4, <1>5, <1>6, <1>7 DEF ClaimNext

(* Every signature in the system covers the terms its issuer was shown,    *)
(* and every built claim is complete (VcClaimBuilder.build).               *)
THEOREM ClaimInvariant == ClaimSpec => []ClaimInv
  BY ClaimInitEstablishes, ClaimStepKeeps, PTL DEF ClaimSpec

-----------------------------------------------------------------------------
(* What a claim becomes on its way. *)

(* A number above MaxSafe stays above it when it loses its neighbours, so  *)
(* it is not taken back.                                                   *)
LEMMA SafeNumbers ==
  ASSUME NEW n \in Nat, ~ (AsF64(n) > MaxSafe)
  PROVE  AsF64(n) = n
  <1>1. CASE n <= MaxSafe
    BY <1>1 DEF AsF64
  <1>2. CASE ~ (n <= MaxSafe)
    <2>1. n - (n % 2) > MaxSafe
      BY <1>2, VcClaimsAssumption
    <2> QED
      BY <1>2, <2>1 DEF AsF64
  <1> QED
    BY <1>1, <1>2

(* The claim again, but that its signature may have become of another      *)
(* variant.                                                                *)
Retyped(c, form) ==
  \E variant :
    form = [c EXCEPT !.signature = [variant |-> variant, bytes |-> c.signature.bytes]]

LEMMA DecodedIs ==
  ASSUME NEW c, Complete(c), DecodeFromSigningOptions(ClaimOptions(c)) # None
  PROVE  Retyped(c, DecodeFromSigningOptions(ClaimOptions(c)))
  <1> DEFINE proto == ClaimProto(c)
  <1>1. ClaimOptions(c).wasm_seed.value.bytes = proto
    BY DEF ClaimOptions, ClaimBytes, Encode
  <1>2. DecodeFromSigningOptions(ClaimOptions(c))
          = [proto EXCEPT !.signature = [variant |-> "Ed25519", bytes |-> proto.signature]]
    <2> HIDE DEF proto
    <2> QED
      BY <1>1 DEF DecodeFromSigningOptions
  <1>3. proto.signature = c.signature.bytes
    BY DEF ClaimProto, Complete, Collections
  <1>4. [proto EXCEPT !.signature = [variant |-> "Ed25519", bytes |-> c.signature.bytes]]
          = [c EXCEPT !.signature = [variant |-> "Ed25519", bytes |-> c.signature.bytes]]
    BY DEF ClaimProto, Complete, Collections
  <1> QED
    BY <1>2, <1>3, <1>4 DEF Retyped

LEMMA FromJavaScriptIs ==
  ASSUME NEW c, Complete(c), IntoClaim(ClaimObject(c)) # None
  PROVE  Retyped(c, IntoClaim(ClaimObject(c)))
  <1> DEFINE object == ClaimObject(c)
             seal == [variant |-> c.signature.variant, bytes |-> c.signature.bytes]
  <1>1. c \in Collections /\ c.limits \in Nat /\ c.expiry \in Nat
    BY NumbersOf, VcClaimsAssumption DEF Complete, Collections
  <1>2. /\ object.limits = AsF64(c.limits) /\ object.expiry = AsF64(c.expiry)
        /\ object.signature = [signature_type |-> c.signature.variant,
                               bytes |-> c.signature.bytes]
    BY <1>1 DEF ClaimObject, Collections
  <1>3. /\ ~ (object.limits > MaxSafe) /\ ~ (object.expiry > MaxSafe)
        /\ IntoClaim(object) = [object EXCEPT !.signature = seal]
    <2>1. IntoClaim(object) # None
      OBVIOUS
    <2> HIDE DEF object
    <2> QED
      BY <1>2, <2>1 DEF IntoClaim
  <1>4. AsF64(c.limits) = c.limits /\ AsF64(c.expiry) = c.expiry
    BY <1>1, <1>2, <1>3, SafeNumbers
  <1>5. [object EXCEPT !.signature = seal] = [c EXCEPT !.signature = seal]
    BY <1>1, <1>4 DEF ClaimObject, Collections
  <1> QED
    BY <1>3, <1>5 DEF Retyped

LEMMA FormIs ==
  ASSUME NEW c, Complete(c), NEW form \in Forms(c)
  PROVE  Retyped(c, form)
  <1>1. CASE form = c
    <2>1. c = [c EXCEPT !.signature = [variant |-> c.signature.variant,
                                       bytes |-> c.signature.bytes]]
      BY DEF Complete, Collections, Signatures
    <2> QED
      BY <1>1, <2>1 DEF Retyped
  <1>2. CASE form # c
    BY <1>2, DecodedIs, FromJavaScriptIs DEF Forms
  <1> QED
    BY <1>1, <1>2

(* Read field by field. *)
LEMMA RetypedFields ==
  ASSUME NEW c, Complete(c), NEW form, Retyped(c, form)
  PROVE  /\ Terms(form) = Terms(c) /\ ClaimDigest(form) = Sha256(Encode(Terms(c)))
         /\ form.signature.bytes = c.signature.bytes
         /\ form.expiry = c.expiry
         /\ form.sub_start = c.sub_start /\ form.sub_end = c.sub_end
  <1>1. PICK variant :
          form = [c EXCEPT !.signature = [variant |-> variant, bytes |-> c.signature.bytes]]
    BY DEF Retyped
  <1> DEFINE seal == [variant |-> variant, bytes |-> c.signature.bytes]
  <1>2. form = [c EXCEPT !.signature = seal] /\ seal.bytes = c.signature.bytes
    BY <1>1
  <1> HIDE DEF seal
  <1>3. [form EXCEPT !.signature = None] = [c EXCEPT !.signature = None]
    BY <1>2 DEF Complete, Collections
  <1>4. Terms(form) = Terms(c) /\ ClaimDigest(form) = Sha256(Encode(Terms(c)))
    BY <1>3 DEF Terms, ClaimDigest
  <1>5. /\ form.signature = seal /\ form.expiry = c.expiry
        /\ form.sub_start = c.sub_start /\ form.sub_end = c.sub_end
    BY <1>2 DEF Complete, Collections
  <1> QED
    BY <1>2, <1>4, <1>5

-----------------------------------------------------------------------------
(* Theorems. *)

(* A claim arrives with the terms it was built with, in whatever form it   *)
(* travels, or not at all: no number that JavaScript rounds is taken back  *)
(* (bindings.rs withClaim).                                                *)
THEOREM FormsAlwaysKeepTerms == ClaimSpec => []FormsKeepTerms
  <1>1. ClaimInv => FormsKeepTerms
    BY FormIs, RetypedFields DEF ClaimInv, FormsKeepTerms
  <1> QED
    BY ClaimInvariant, <1>1, PTL

(* The issuer's signature checks against claim_digest of a form exactly    *)
(* when the claim has the terms the issuer was shown: a setter called      *)
(* after signing is noticed, whichever field it set (claim.rs              *)
(* claim_digest).                                                          *)
THEOREM DigestAlwaysCovers == ClaimSpec => []DigestCoversTerms
  <1>1. ASSUME ClaimInv, claim # None, NEW form \in Forms(claim), Signed(form)
        PROVE  form.signature.bytes.signs = ClaimDigest(form)
                 <=> Terms(claim) = form.signature.bytes.shown
    <2>1. Complete(claim)
      BY <1>1 DEF ClaimInv
    <2>2. /\ ClaimDigest(form) = Sha256(Encode(Terms(claim)))
          /\ form.signature.bytes = claim.signature.bytes
      BY <1>1, <2>1, FormIs, RetypedFields
    <2>3. \E t \in ShownTerms : claim.signature.bytes = Seal(t)
      BY <2>1 DEF Complete, Collections, Signatures
    <2>4. PICK t \in ShownTerms : claim.signature.bytes = Seal(t)
      BY <2>3
    <2>5. /\ form.signature.bytes.signs = Sha256(Encode(t))
          /\ form.signature.bytes.shown = t
      BY <2>2, <2>4 DEF Seal
    <2>6. Sha256(Encode(t)) = Sha256(Encode(Terms(claim))) <=> Terms(claim) = t
      BY DEF Sha256, Encode
    <2> QED
      BY <2>2, <2>5, <2>6
  <1>2. ClaimInv => DigestCoversTerms
    BY <1>1 DEF DigestCoversTerms
  <1> QED
    BY ClaimInvariant, <1>2, PTL

(* A built claim, attached to an agent's builder in whatever form, is       *)
(* refused by sign() under the default nonce for one reason: it has        *)
(* expired since.                                                          *)
THEOREM BuiltClaimsOnlyExpire == ClaimSpec => []BuiltClaimOnlyExpires
  <1>1. ASSUME ClaimInv, claim # None, NEW form \in Forms(claim), NEW key \in Keys,
               NEW b,
               b = WithTradingKeyClaim(
                     NewBuilder([kind |-> "Agent", key |-> key, agent_id |-> form.subject,
                                 claim |-> None]), form)
        PROVE  ClaimCheck(b, LocalNonce(b), clock) =
                 IF form.expiry > clock THEN "Ok" ELSE "ClaimExpired"
    <2>1. /\ form # None
          /\ form.expiry = claim.expiry
          /\ form.sub_start = claim.sub_start /\ form.sub_end = claim.sub_end
          /\ form.signature.bytes = claim.signature.bytes
      BY <1>1, FormIs, RetypedFields DEF ClaimInv, Forms
    <2>2. /\ clock \in Nat /\ form.expiry \in Nat
          /\ form.sub_start \in Nat /\ form.sub_end \in Nat
          /\ form.sub_start < form.sub_end /\ form.signature.bytes # ZeroSig
      BY <1>1, <2>1, NumbersOf DEF ClaimInv, Complete, Collections
    <2>3. b.trading_key_claim = form /\ b.manual_nonce = None
      BY <1>1 DEF WithTradingKeyClaim, NewBuilder
    <2>4. LocalNonce(b).sub = form.sub_start
      BY <2>1, <2>3 DEF LocalNonce, DefaultNonce
    <2>5. Validate(form, clock) = IF form.expiry > clock THEN "Ok" ELSE "ClaimExpired"
      BY <2>2 DEF Validate
    <2>6. SubInRange(form, LocalNonce(b).sub)
      BY <2>2, <2>4 DEF SubInRange
    <2> QED
      BY <2>1, <2>2, <2>3, <2>5, <2>6 DEF ClaimCheck
  <1>2. ClaimInv => BuiltClaimOnlyExpires
    BY <1>1 DEF BuiltClaimOnlyExpires
  <1> QED
    BY ClaimInvariant, <1>2, PTL

=============================================================================
