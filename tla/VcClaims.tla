------------------------------ MODULE VcClaims ------------------------------
(***************************************************************************)
(* How a TradingKeyClaim comes to be and reaches a transaction: the        *)
(* VcClaimBuilder of claim.rs, the issuer who signs claim_digest, and the  *)
(* ways a built claim is handed on -- as the value itself, as the options  *)
(* of a SignerInfo, or through JavaScript (VcClaimBuilderWasm.build and    *)
(* TxBuilderWasm.withClaim, bindings.rs).                                  *)
(*                                                                         *)
(* The issuer signs terms it is shown; the setters may be called again     *)
(* before, between and after.                                              *)
(***************************************************************************)
EXTENDS TxBuilder

CONSTANTS
  Parties,      \* account ids claims name
  Ranges,       \* arguments <<start, end>> of nonce_sub_range
  Expiries,     \* arguments of expiry
  Curves,       \* signature variants the issuer's key may have
  MaxSafe,      \* Number.MAX_SAFE_INTEGER, scaled down
  MaxClock      \* bound on the clock

ASSUME VcClaimsAssumption ==
  /\ Parties \subseteq AccountIds
  /\ Ranges \subseteq Nat \X Nat
  /\ Expiries \subseteq Nat
  /\ Curves \subseteq {"Ed25519", "Secp256k1", "Schnorr"}
  /\ MaxSafe \in Nat /\ MaxSafe % 2 = 1     \* 2^53 - 1 is odd
  /\ MaxClock \in Nat
  /\ Limits \subseteq Nat
  /\ 0 \in Limits      \* permissions and max_daily_usd default to zero

VARIABLES
  clock,      \* current time, in seconds
  builder,    \* the VcClaimBuilder
  ticket,     \* the issuer's last signature
  claim       \* the claim last built

claimVars == <<clock, builder, ticket, claim>>

EmptyClaimBuilder ==
  [issuer |-> None, subject |-> None, limits |-> 0, expiry |-> None,
   sub_start |-> 0, sub_end |-> 0, signature |-> None]

ClaimInit ==
  /\ clock = 0
  /\ builder = EmptyClaimBuilder
  /\ ticket = None /\ claim = None

-----------------------------------------------------------------------------
(* The setters. *)

SetTo(b) == builder' = b /\ UNCHANGED <<clock, ticket, claim>>

SetIssuer(id)  == SetTo([builder EXCEPT !.issuer = id])
SetSubject(id) == SetTo([builder EXCEPT !.subject = id])
SetLimits(l)   == SetTo([builder EXCEPT !.limits = l])
SetExpiry(t)   == SetTo([builder EXCEPT !.expiry = t])
SetRange(r)    == SetTo([builder EXCEPT !.sub_start = r[1], !.sub_end = r[2]])
SetSignature(signature) == SetTo([builder EXCEPT !.signature = signature])

(* The issuer takes claim_digest of a claim with the terms collected so    *)
(* far and signs it, under whichever curve its key is of.  The bytes        *)
(* remember the terms it was shown.                                         *)
Terms(b) == [b EXCEPT !.signature = None]

IssuerSigns(variant) ==
  /\ builder.issuer # None /\ builder.subject # None /\ builder.expiry # None
  /\ ticket' = [variant |-> variant,
                bytes |-> [signs |-> ClaimDigest(builder), shown |-> Terms(builder)]]
  /\ UNCHANGED <<clock, builder, claim>>

SetTicket == ticket # None /\ SetSignature(ticket)

(* A signature of all zeroes, a placeholder. *)
SetZeroSignature == SetSignature([variant |-> "Ed25519", bytes |-> ZeroSig])

-----------------------------------------------------------------------------
(* build(now): what is missing, then validate. *)

Required == {"issuer", "subject", "expiry", "signature"}

(* Mutant: the fields are there, so the claim is taken to be good. *)
BuildErrorMissingOnly(b, now) ==
  IF \E field \in Required : b[field] = None THEN "MissingField" ELSE "Ok"

BuildError(b, now) ==
  IF \E field \in Required : b[field] = None THEN "MissingField" ELSE Validate(b, now)

(* The builder is consumed either way; an error leaves no claim. *)
Build ==
  /\ \/ /\ BuildError(builder, clock) = "Ok"
        /\ claim' = builder
     \/ /\ BuildError(builder, clock) # "Ok"
        /\ UNCHANGED claim
  /\ builder' = EmptyClaimBuilder
  /\ UNCHANGED <<clock, ticket>>

TickClock ==
  /\ clock < MaxClock
  /\ clock' = clock + 1
  /\ UNCHANGED <<builder, ticket, claim>>

ClaimNext ==
  \/ \E id \in Parties : SetIssuer(id) \/ SetSubject(id)
  \/ \E l \in Limits : SetLimits(l)
  \/ \E t \in Expiries : SetExpiry(t)
  \/ \E r \in Ranges : SetRange(r)
  \/ SetTicket \/ SetZeroSignature
  \/ \E variant \in Curves : IssuerSigns(variant)
  \/ Build \/ TickClock

ClaimSpec == ClaimInit /\ [][ClaimNext]_claimVars

-----------------------------------------------------------------------------
(* JavaScript.  build() hands the integers out "as f64": above MaxSafe     *)
(* neighbours become one number.  withClaim reads them back as integers    *)
(* and takes safe ones only (serde_wasm_bindgen), without validating.      *)

AsF64(n) == IF n <= MaxSafe THEN n ELSE n - (n % 2)

ClaimObject(c) ==
  [c EXCEPT !.limits = AsF64(c.limits), !.expiry = AsF64(c.expiry),
            !.signature = [signature_type |-> c.signature.variant, bytes |-> c.signature.bytes]]

(* Mutant: numbers are cast back, whatever their size. *)
IntoClaimCast(object) ==
  [object EXCEPT !.signature = [variant |-> object.signature.signature_type,
                                bytes |-> object.signature.bytes]]

IntoClaim(object) ==
  IF object.limits > MaxSafe \/ object.expiry > MaxSafe THEN None
  ELSE [object EXCEPT !.signature = [variant |-> object.signature.signature_type,
                                     bytes |-> object.signature.bytes]]

(* Everything the built claim becomes on its way. *)
Forms(c) ==
  {c, DecodeFromSigningOptions(ClaimOptions(c)), IntoClaim(ClaimObject(c))} \ {None}

-----------------------------------------------------------------------------
(* Properties. *)

Signed(c) == c.signature.bytes # ZeroSig

(* The issuer's signature checks against claim_digest exactly when the     *)
(* claim has the terms the issuer was shown: a setter called after signing *)
(* is noticed by whoever checks the signature, whichever field it set, in  *)
(* every form the claim travels in (build() itself does not look).         *)
DigestCoversTerms ==
  claim # None =>
    \A form \in Forms(claim) :
      Signed(form) =>
        (form.signature.bytes.signs = ClaimDigest(form)
          <=> Terms(claim) = form.signature.bytes.shown)

(* A claim arrives with the terms it was built with, or, from JavaScript   *)
(* with a number that has lost its neighbours, not at all.                 *)
FormsKeepTerms ==
  claim # None => \A form \in Forms(claim) : Terms(form) = Terms(claim)

(* Whenever a built claim is attached, in whatever form, sign() with the   *)
(* default nonce refuses it only because it has expired.                   *)
BuiltClaimOnlyExpires ==
  claim # None =>
    \A form \in Forms(claim), key \in Keys :
      LET signer == [kind |-> "Agent", key |-> key, agent_id |-> form.subject, claim |-> None]
          b == WithTradingKeyClaim(NewBuilder(signer), form)
      IN  ClaimCheck(b, LocalNonce(b), clock) =
            IF form.expiry > clock THEN "Ok" ELSE "ClaimExpired"

=============================================================================
