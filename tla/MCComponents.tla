---------------------------- MODULE MCComponents ----------------------------
(* A small instance of Components: what operators and certificates say of two *)
(* peers, and every classification of the guard's schema with one outside it. *)
EXTENDS Components, TLC

CONSTANTS p, q, k1, k2, k3

MCCert == {[name |-> p, prev |-> k1, new |-> k2]}
MCOffered == {[name |-> p, key |-> k1], [name |-> p, key |-> k3], [name |-> q, key |-> k1]}

MCClassified ==
    {"allow_public", "allow_coordination", "review_personal", "review_work_internal",
     "review_security", "review_ambiguous", "deny_secret", "deny_credential",
     "deny_personal_sensitive", "deny_work_internal", "deny_regulated",
     "deny_policy_violation", "deny_prompt_injection", "other"}

\* Two calls that may save a review request are alike.
Servers == Permutations(Server)
=============================================================================
