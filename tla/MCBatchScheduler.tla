-------------------------- MODULE MCBatchScheduler --------------------------
(* Instances of BatchScheduler for TLC: three submits, two of them of one   *)
(* key or of keys that differ in their strings only, with different         *)
(* deadlines and different or equal k.                                      *)
EXTENDS BatchScheduler, TLC

CONSTANTS q1, q2, q3, a, b, red, blue

Asking(x, k, d) == [key |-> [req |-> x, str |-> red], k |-> k, delay |-> d]

\* A patient query, an urgent one that asks for more, and one of the first's key.
Mixed    == (q1 :> Asking(a, 1, 2)) @@ (q2 :> Asking(b, 2, 1)) @@ (q3 :> Asking(a, 2, 3))
Repeated == (q1 :> Asking(a, 1, 1)) @@ (q2 :> Asking(b, 2, 2)) @@ (q3 :> Asking(a, 1, 1))

\* The repeat asks for another string.
Strings  == [Repeated EXCEPT ![q3].key.str = blue]

Mode(ask, entries, adaptive, idle, fails) ==
    [ask |-> ask, result_cache_entries |-> entries, adaptive |-> adaptive,
     idle_close |-> idle, fails |-> fails]

Sound == {Mode(Mixed, 0, FALSE, TRUE, FALSE),
          Mode(Mixed, 0, TRUE, FALSE, FALSE),
          Mode(Repeated, 1, FALSE, TRUE, FALSE),
          Mode(Repeated, 2, FALSE, FALSE, FALSE),
          Mode(Repeated, 1, FALSE, TRUE, TRUE),
          Mode(Repeated, 1, TRUE, TRUE, FALSE),
          Mode(Strings, 1, FALSE, TRUE, FALSE),
          Mode(Strings, 2, TRUE, FALSE, FALSE)}

=============================================================================
