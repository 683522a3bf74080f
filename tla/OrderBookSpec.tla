---------------------------- MODULE OrderBookSpec ----------------------------
(***************************************************************************)
(* What the order book store promises its callers (spec.md 4.4, 4.5, 6):   *)
(* a book is the set of its resting orders, and a snapshot is that set     *)
(* grouped by price.  Nothing here knows of tries, hashed keys, stored     *)
(* aggregates or the preimage registry; TomoxState is shown to implement   *)
(* this module by the mapping at its end.                                  *)
(***************************************************************************)
EXTENDS Integers, FiniteSets, FiniteSetsExt, Functions, TLC

CONSTANTS
    OrderBooks,   \* order book identifiers
    Prices,       \* the prices orders may rest at
    OrderIds,     \* order identifiers
    MaxVolume,    \* bound: the largest remaining volume of one order
    Nil           \* no book, no answer, no error

VARIABLES
    books,        \* books[b]: Nil until the first write, then side -> resting orders
    answer        \* what a read is returning, Nil between calls

vars == <<books, answer>>

Side == {"Ask", "Bid"}

\* The resting orders of one side: <<price, order id>> -> remaining volume.
NoOrders == <<>>

Remaining(orders, p, i) == IF <<p, i>> \in DOMAIN orders THEN orders[<<p, i>>] ELSE 0

\* The orders after order i at price p holds volume: gone when it holds none.
Hold(orders, p, i, volume) ==
    IF volume > 0 THEN (<<p, i>> :> volume) @@ orders
    ELSE Restrict(orders, DOMAIN orders \ {<<p, i>>})

\* snapshot(): price -> aggregate volume and the orders at that price.
Snapshot(orders) ==
    [p \in {o[1] : o \in DOMAIN orders} |->
        LET ids == {i \in OrderIds : <<p, i>> \in DOMAIN orders}
            queue == [i \in ids |-> orders[<<p, i>>]]
        IN  [Volume |-> FoldFunction(+, 0, queue), Orders |-> queue]]

-----------------------------------------------------------------------------
\* place: the order's volume moves by delta and never falls below zero.
Place(orders, p, i, delta) ==
    LET moved == Remaining(orders, p, i) + delta
    IN  IF moved > 0 THEN Hold(orders, p, i, moved) ELSE Hold(orders, p, i, 0)

\* cancel: the order is gone, whether it was there or not.
Cancel(orders, p, i) == Hold(orders, p, i, 0)

\* A write opens the book if it has to and changes one order of one side.
Write ==
    LET now == books
    IN  /\ answer = Nil
        /\ UNCHANGED answer
        /\ \E b \in OrderBooks, s \in Side :
             LET opened == IF now[b] = Nil THEN [t \in Side |-> NoOrders] ELSE now[b]
                 With(orders) == [now EXCEPT ![b] = [opened EXCEPT ![s] = orders]]
             IN  \E p \in Prices, i \in OrderIds :
                    \/ \E delta \in (-MaxVolume..MaxVolume) \ {0} :
                          /\ Remaining(opened[s], p, i) + delta <= MaxVolume
                          /\ books' = With(Place(opened[s], p, i, delta))
                    \/ books' = With(Cancel(opened[s], p, i))

\* dumpAsks, dumpBids: NotFound for a book never written, else the snapshot.
Dump(b, s) ==
    /\ answer = Nil
    /\ UNCHANGED books
    /\ answer' = [op |-> "dump", orderBook |-> b, side |-> s] @@
                 (IF books[b] = Nil
                  THEN [err |-> "OrderBookNotFound", result |-> Nil]
                  ELSE [err |-> Nil, result |-> Snapshot(books[b][s])])

\* bestPrice(): the lowest price of the ask side, the highest of the bid
\* side, with the volume resting there; nothing when nothing rests.
BestResting(orders, s) ==
    LET prices == {o[1] : o \in DOMAIN orders}
        best == IF s = "Ask" THEN Min(prices) ELSE Max(prices)
    IN  [p \in (IF prices = {} THEN {} ELSE {best}) |->
            [Volume |-> Snapshot(orders)[p].Volume]]

\* bestAsk, bestBid: NotFound for a book never written.
Best(b, s) ==
    /\ answer = Nil
    /\ UNCHANGED books
    /\ answer' = [op |-> "best", orderBook |-> b, side |-> s] @@
                 (IF books[b] = Nil
                  THEN [err |-> "OrderBookNotFound", result |-> Nil]
                  ELSE [err |-> Nil, result |-> BestResting(books[b][s], s)])

Return ==
    /\ answer # Nil
    /\ answer' = Nil
    /\ UNCHANGED books

-----------------------------------------------------------------------------
Init ==
    /\ books = [b \in OrderBooks |-> Nil]
    /\ answer = Nil

Next ==
    \/ Write
    \/ \E b \in OrderBooks, s \in Side : Dump(b, s) \/ Best(b, s)
    \/ Return

Spec == Init /\ [][Next]_vars
=============================================================================
