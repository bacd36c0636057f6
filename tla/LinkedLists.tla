---------------------------- MODULE LinkedLists ----------------------------
(***************************************************************************)
(* The lists that accounts form by naming their neighbours: the orders of  *)
(* a price level and the levels of a side, in every book of the program.   *)
(***************************************************************************)
EXTENDS Integers

\* The first accounts met from `first` on, 0 once the list has ended: each
\* names its successor in `next`, 0 being no account.
Walk(first, next, length) ==
    LET at[n \in 1 .. length] ==
            IF n = 1 THEN first
            ELSE IF at[n - 1] = 0 THEN 0 ELSE next[at[n - 1]]
    IN  at
=============================================================================
