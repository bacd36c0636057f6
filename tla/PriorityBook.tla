---------------------------- MODULE PriorityBook ----------------------------
(***************************************************************************)
(* What the exchange promises about priority, without accounts, links or   *)
(* counters: every list is a map from price to a queue of order ids.  An   *)
(* order enters at the tail of its price and only where nothing blocks it, *)
(* fills take from the head of the best price and nowhere else, and an     *)
(* order may leave from any place without disturbing the others.  An id is *)
(* used once for ever, even when a book is closed and created again.       *)
(***************************************************************************)
EXTENDS Integers, Sequences, SequencesExt

CONSTANTS Books, Lists, Prices, Ids,
          OppositeOf(_),       \* the list a list trades against
          Better(_, _, _),     \* Better(l, p, q): p goes before q in list l
          Blocks(_, _, _)      \* Blocks(l, p, x): an opposite order at x keeps
                               \* one at p out of list l

VARIABLES queue,   \* [b][list][price]: open order ids, oldest first
          left     \* [b][id]: quantity left of an order ever placed, -1 before

Unused == -1

IsBest(b, l, p) ==
    /\ queue[b][l][p] # <<>>
    /\ \A x \in Prices : queue[b][l][x] # <<>> => ~Better(l, x, p)

\* A new order joins the back of the queue, and meets no order that blocks it.
Enter(b, l, p) ==
    \E i \in Ids :
        /\ left[b][i] = Unused
        /\ left'[b][i] > 0
        /\ left' = [left EXCEPT ![b][i] = left'[b][i]]
        /\ \A x \in Prices :
               queue[b][OppositeOf(l)][x] # <<>> => ~Blocks(l, p, x)
        /\ queue'[b][l][p] = Append(queue[b][l][p], i)
        /\ queue' = [queue EXCEPT ![b][l][p] = queue'[b][l][p]]

\* An order leaves unfilled; what it had left is kept on record or cleared.
Leave(b, l, p) ==
    \E n \in DOMAIN queue[b][l][p] :
        /\ left' \in {left, [left EXCEPT ![b][queue[b][l][p][n]] = 0]}
        /\ queue'[b][l][p] = RemoveAt(queue[b][l][p], n)
        /\ queue' = [queue EXCEPT ![b][l][p] = queue'[b][l][p]]

\* The oldest order of the best price is filled, completely or in part.
Fill(b, l, p) ==
    LET i == Head(queue[b][l][p])
    IN  /\ IsBest(b, l, p)
        /\ left'[b][i] \in 0 .. left[b][i] - 1
        /\ left' = [left EXCEPT ![b][i] = left'[b][i]]
        /\ queue' = IF left'[b][i] = 0
                    THEN [queue EXCEPT ![b][l][p] = Tail(@)]
                    ELSE queue

PInit ==
    /\ queue = [b \in Books |-> [l \in Lists |-> [p \in Prices |-> <<>>]]]
    /\ left = [b \in Books |-> [i \in Ids |-> Unused]]

PNext ==
    \E b \in Books, l \in Lists, p \in Prices :
        Enter(b, l, p) \/ Leave(b, l, p) \/ Fill(b, l, p)

PSpec == PInit /\ [][PNext]_<<queue, left>>
=============================================================================
