---- MODULE MCAuthService ----
EXTENDS AuthService, TLC
Symmetry == Permutations(Request \ Registered) \cup Permutations(Password)
\* Bound of the safety runs: how many requests meet a failure of the database
\* or of the process (a lost acknowledgement included).
MaxFailures == 1
FewFailures == Cardinality({r \in Request : pc[r] \in {"error", "lost"}}) <= MaxFailures
====
