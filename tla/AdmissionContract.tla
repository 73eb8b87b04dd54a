-------------------------- MODULE AdmissionContract --------------------------
(***************************************************************************)
(* What evidence-based admission promises, with no plan, bundle, record or *)
(* call in sight: a ledger of direct proofs, each of one bound by one      *)
(* subject at one time, and of admissions.  An admission spends a token    *)
(* and may claim only bounds its subject had proved, at the place it is    *)
(* admitted to, less than Lifetime before the time it was decided for.     *)
(***************************************************************************)
EXTENDS Naturals

CONSTANTS
    Tokens,
    Lifetime,          \* how long a proof is good for
    Entailed(_, _)     \* Entailed(b, c): whoever keeps bound b keeps bound c

VARIABLES
    clock,
    proofs,    \* [subject, place, bound, at]
    grants,    \* [subject, place, bounds, asOf, token]
    spent      \* tokens of the current registry

contractVars == <<clock, proofs, grants, spent>>

ContractInit == clock = 0 /\ proofs = {} /\ grants = {} /\ spent = {}

Pass == clock' > clock /\ UNCHANGED <<proofs, grants, spent>>

\* A subject is tested, now, against some bounds.
Prove ==
    /\ proofs \subseteq proofs'
    /\ \A p, q \in proofs' \ proofs :
          p.at = clock /\ q.subject = p.subject /\ q.place = p.place
    /\ UNCHANGED <<clock, grants, spent>>

Justified(g) ==
    /\ g.asOf <= clock
    /\ \A c \in g.bounds : \E p \in proofs :
          /\ p.subject = g.subject /\ p.place = g.place
          /\ p.at <= g.asOf /\ g.asOf < p.at + Lifetime
          /\ Entailed(p.bound, c)

\* One admission is decided: it spends a fresh token, and is granted or not.
Decide ==
    /\ \E t \in Tokens \ spent :
          /\ spent' = spent \cup {t}
          /\ \/ grants' = grants
             \/ \E g \in grants' : /\ g.token = t /\ Justified(g)
                                   /\ grants' = grants \cup {g}
    /\ UNCHANGED <<clock, proofs>>

\* The registry of spent tokens is lost.  Proofs and their dates are not.
Forget == spent' = {} /\ UNCHANGED <<clock, proofs, grants>>

Contract ==
    ContractInit /\ [][Pass \/ Prove \/ Decide \/ Forget]_contractVars
=============================================================================
