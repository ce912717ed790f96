--------------------------- MODULE MCIdempotency ---------------------------
(* Two requests with one key and one without, on two instances.             *)
EXTENDS Idempotency

CONSTANTS i1, i2, r1, r2, r3, k1, k2

MCKeyOf == [r \in Request |-> IF r = r3 THEN NoKey ELSE k1]
=============================================================================
