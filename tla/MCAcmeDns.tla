----------------------------- MODULE MCAcmeDns -----------------------------
(* Small instances of AcmeDns for TLC. *)
EXTENDS AcmeDns

CONSTANTS b1, b2, uri, other, k1, k2

\* The URI's entry with one of two credentials, a secret without the URI's
\* entry, and one that cannot be used.
MCInstalls ==
    {[n \in Names |-> IF n = Uri THEN k ELSE Missing] : k \in {k1, k2}}
    \cup {[n \in Names |-> IF n = other THEN k1 ELSE Missing], NoData}
=============================================================================
