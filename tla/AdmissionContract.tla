-------------------------- MODULE AdmissionContract --------------------------
(***************************************************************************)
(* What authors and chains promise each other, without saying how: an      *)
(* author commits to a transaction once and for good; a chain that admits  *)
(* it acts on that commitment and on nothing else, and only while the      *)
(* claim in it is in force.                                                *)
(***************************************************************************)
EXTENDS Integers

CONSTANTS Calls, None

VARIABLES
  clock,       \* wall-clock seconds
  commitment,  \* per call: what its author has committed to
  verdict      \* the last verification a chain made

contractVars == <<clock, commitment, verdict>>

Uncommitted == [kind |-> "uncommitted"]
NotAdmitted == [kind |-> "not admitted"]

Covers(claim, nonce) == claim.sub_start <= nonce.sub /\ nonce.sub < claim.sub_end

InForce(claim, time) == claim # None => time < claim.expiry

(* A commitment names one chain instance and spends a nonce that its claim *)
(* allows.                                                                 *)
Sound(x) ==
  /\ x.chain.genesis_hash # None
  /\ x.nonce # None
  /\ x.claim # None => Covers(x.claim, x.nonce)

AdmissionInit ==
  /\ clock = 0
  /\ commitment = [c \in Calls |-> Uncommitted]
  /\ verdict = NotAdmitted

Commit(c) ==
  /\ commitment[c] = Uncommitted
  /\ commitment'[c].kind = "committed" /\ Sound(commitment'[c].to)
  /\ commitment' = [commitment EXCEPT ![c] = commitment'[c]]
  /\ UNCHANGED <<clock, verdict>>

(* What the chain reports, its own identity included, is the commitment. *)
Admit(c) ==
  /\ commitment[c].kind = "committed"
  /\ InForce(commitment[c].to.claim, clock)
  /\ verdict' = [kind |-> "admitted", call |-> c, report |-> commitment[c].to]
  /\ UNCHANGED <<clock, commitment>>

(* A chain may refuse whatever it is shown. *)
Refuse ==
  /\ verdict' = NotAdmitted
  /\ UNCHANGED <<clock, commitment>>

TimePasses ==
  /\ clock' = clock + 1
  /\ UNCHANGED <<commitment, verdict>>

AdmissionNext == TimePasses \/ Refuse \/ \E c \in Calls : Commit(c) \/ Admit(c)

AdmissionSpec == AdmissionInit /\ [][AdmissionNext]_contractVars

=============================================================================
