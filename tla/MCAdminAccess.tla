---------------------------- MODULE MCAdminAccess ----------------------------
(* The model-checking instance of AdminAccess; the bounds are in the cfg.    *)
EXTENDS AdminAccess, TLC

\* Logins, requests and addresses are interchangeable.
Symmetry == Permutations(Logins) \cup Permutations(Requests) \cup Permutations(Ips)
=============================================================================
