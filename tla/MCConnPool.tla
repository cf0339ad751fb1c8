----------------------------- MODULE MCConnPool -----------------------------
(* Instances of ConnPool for TLC. *)
EXTENDS ConnPool

CONSTANTS a, b, c, k1, k2

\* Two callers share a key, as the pool allows, and a third has its own.
SharedKey == [x \in Callers |-> IF x = c THEN k2 ELSE k1]

\* Every caller has a key of its own, as in the fan-out test.
OwnKeys == [x \in Callers |-> IF x = a THEN k1 ELSE k2]

=============================================================================
