----------------------------- MODULE MCTokenCache -----------------------------
(* Instance of TokenCache for TLC. *)
EXTENDS TokenCache

CONSTANTS t1, t2

TwoThreads == {t1, t2}

\* expires_in: one tick (within the leeway), three ticks, and a bad value.
AnyLifetime == {1, 3, Malformed}
===============================================================================
