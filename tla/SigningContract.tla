--------------------------- MODULE SigningContract --------------------------
(***************************************************************************)
(* What sign() promises its callers, without saying how: a call is open    *)
(* until it is answered, once; the answer is a refusal or one signature    *)
(* with the commitments below, all of them covered by that signature.      *)
(***************************************************************************)
EXTENDS Integers

CONSTANTS Calls, None

VARIABLES
  clock,    \* wall-clock seconds
  result    \* per call: open, refused, or signed with its commitments

contractVars == <<clock, result>>

Open    == [kind |-> "open"]
Refused == [kind |-> "refused"]

(* A signature of genesis_hash, nonce, claim and messages: it binds a      *)
(* chain instance, it says something, its claim was in force no longer     *)
(* ago than assembled_at and covers the nonce, and the nonce it covers is  *)
(* the nonce that ships.                                                   *)
Sound(r, time) ==
  /\ r.genesis_hash # None
  /\ r.messages > 0
  /\ r.covered_nonce = r.nonce
  /\ r.assembled_at <= time
  /\ r.claim # None =>
       /\ r.assembled_at < r.claim.expiry
       /\ r.claim.sub_start <= r.nonce.sub
       /\ r.nonce.sub < r.claim.sub_end

(* Nonces that AgentPortal hands out are spent once per account. *)
Exclusive(r, c) ==
  r.source = "AgentPortal" =>
    \A d \in Calls \ {c} :
      result[d].kind = "signed" /\ result[d].source = "AgentPortal"
        /\ result[d].account = r.account
      => result[d].nonce.monotonic # r.nonce.monotonic

ContractInit ==
  /\ clock = 0
  /\ result = [c \in Calls |-> Open]

Answer(c) ==
  /\ result[c] = Open
  /\ \/ result'[c] = Refused
     \/ /\ result'[c].kind = "signed"
        /\ Sound(result'[c], clock)
        /\ Exclusive(result'[c], c)
  /\ result' = [result EXCEPT ![c] = result'[c]]
  /\ UNCHANGED clock

TimePasses ==
  /\ clock' = clock + 1
  /\ UNCHANGED result

ContractNext == TimePasses \/ \E c \in Calls : Answer(c)

ContractSpec == ContractInit /\ [][ContractNext]_contractVars

=============================================================================
