--------------------------- MODULE MC_MemcachedPool ---------------------------
(* Four client coroutines as model values, two on each of two threads. *)
EXTENDS MemcachedPool

CONSTANTS a1, a2, a3, a4, t1, t2

MCClients == {a1, a2, a3, a4}
MCThreads == {t1, t2}
MCThreadOf == [c \in MCClients |-> IF c \in {a1, a2} THEN t1 ELSE t2]

=============================================================================
