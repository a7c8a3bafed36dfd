----------------------------- MODULE StockLedger -----------------------------
(***************************************************************************)
(* What invoices, purchases and the stock pages may rely on about stock    *)
(* and its movements, with row locks, connections, permissions, thresholds *)
(* and the unique index left out.  A request sees quantities and stores    *)
(* what it computes from them, however stale they are by then.  It keeps   *)
(* its own books: what it has stored and not yet entered as a movement,    *)
(* or entered and not yet stored, and a request that fails forgets them.   *)
(***************************************************************************)
EXTENDS Integers

CONSTANTS
    Key,        \* what stock is counted of
    Request,    \* who changes it, each for one order
    Order,      \* the orders: a kind, one row or two, a number or None
    None

VARIABLES
    stock,      \* quantities
    movements,  \* net of the movements entered
    phase,      \* how far a request is
    order,      \* what it was asked to do
    view,       \* the quantities it has seen and will go by
    owed        \* what it stored and did not enter, less what it entered and did not store

vars == <<stock, movements, phase, order, view, owed>>

NoView == [k \in Key |-> None]
NoDebt == [k \in Key |-> 0]

Init ==
    /\ stock \in [Key -> Nat]
    /\ movements = NoDebt
    /\ phase = [r \in Request |-> "new"]
    /\ order = [r \in Request |-> None]
    /\ view = [r \in Request |-> NoView]
    /\ owed = [r \in Request |-> NoDebt]

Goto(r, p) == phase' = [phase EXCEPT ![r] = p]
Sees(r, v) == view' = [view EXCEPT ![r] = v]
Owes(r, d) == owed' = [owed EXCEPT ![r] = d]

\* A request is given its order once, and is refused or starts.
Begin(r, o) ==
    /\ phase[r] = "new"
    /\ order' = [order EXCEPT ![r] = o]
    /\ Goto(r, "open") \/ Goto(r, "over")
    /\ UNCHANGED <<stock, movements, view, owed>>

\* What is seen is what the rows hold now, not what they held before the order.
See(r, K) ==
    /\ phase[r] = "open"
    /\ Sees(r, [k \in Key |-> IF k \in K THEN stock[k] ELSE view[r][k]])
    /\ UNCHANGED <<stock, movements, phase, order, owed>>

Changed(r) ==
    LET n == view[r][order[r].from] + order[r].qty
    IN  IF n > 0 THEN n ELSE 0

\* A change is stored once, and its whole effect on what was seen is owed.
Store(r) ==
    LET k == order[r].from
    IN  /\ phase[r] = "open" /\ order[r].kind = "change" /\ view[r][k] # None
        /\ stock' = [stock EXCEPT ![k] = Changed(r)]
        /\ Owes(r, [NoDebt EXCEPT ![k] = Changed(r) - view[r][k]])
        /\ Sees(r, NoView)
        /\ Goto(r, "stored")
        /\ UNCHANGED <<movements, order>>

\* What is entered for a change is what it did.
Enter(r) ==
    LET k == order[r].from
    IN  /\ phase[r] = "stored"
        /\ movements' = [movements EXCEPT ![k] = @ + owed[r][k]]
        /\ Owes(r, NoDebt)
        /\ Goto(r, "over")
        /\ UNCHANGED <<stock, order, view>>

\* A given quantity replaces what was seen, an omitted one stores it again;
\* neither is entered.
Set(r) ==
    LET k == order[r].from
    IN  /\ phase[r] = "open" /\ order[r].kind = "set" /\ view[r][k] # None
        /\ stock' = [stock EXCEPT ![k] = IF order[r].qty = None THEN view[r][k] ELSE order[r].qty]
        /\ Sees(r, NoView)
        /\ Goto(r, "over")
        /\ UNCHANGED <<movements, order, owed>>

\* Housekeeping stores what it saw, row by row.
Rewrite(r, k) ==
    LET left == [view[r] EXCEPT ![k] = None]
    IN  /\ phase[r] = "open" /\ order[r].kind = "keep" /\ view[r][k] # None
        /\ stock' = [stock EXCEPT ![k] = view[r][k]]
        /\ Sees(r, left)
        /\ Goto(r, IF left = NoView THEN "over" ELSE "open")
        /\ UNCHANGED <<movements, order, owed>>

\* The two movements of a move are entered first, each once ...
EnterMove(r, k, change) ==
    /\ phase[r] = "open" /\ order[r].kind = "move"
    /\ view[r][k] # None /\ owed[r][k] = 0
    /\ movements' = [movements EXCEPT ![k] = @ + change]
    /\ Owes(r, [owed[r] EXCEPT ![k] = -change])
    /\ UNCHANGED <<stock, phase, order, view>>

\* ... and it changes both rows at once, by the same number of pieces, of which
\* the sending one had been seen to have enough.
Move(r) ==
    LET o == order[r]
    IN  /\ phase[r] = "open" /\ o.kind = "move" /\ o.from # o.to
        /\ view[r][o.from] # None /\ view[r][o.to] # None
        /\ view[r][o.from] >= o.qty
        /\ owed[r] = [NoDebt EXCEPT ![o.from] = o.qty, ![o.to] = -o.qty]
        /\ stock' = [stock EXCEPT ![o.from] = view[r][o.from] - o.qty,
                                  ![o.to] = view[r][o.to] + o.qty]
        /\ Owes(r, NoDebt)
        /\ Sees(r, NoView)
        /\ Goto(r, "over")
        /\ UNCHANGED <<movements, order>>

\* A request fails, or has nothing to do: it changes nothing any more, and what
\* it owed is never made up for.
Leave(r) ==
    /\ phase[r] \in {"open", "stored"}
    /\ Owes(r, NoDebt)
    /\ Sees(r, NoView)
    /\ Goto(r, "over")
    /\ UNCHANGED <<stock, movements, order>>

Next ==
    \E r \in Request :
        \/ \E o \in Order : Begin(r, o)
        \/ \E K \in SUBSET Key : See(r, K)
        \/ Store(r) \/ Enter(r) \/ Set(r)
        \/ \E k \in Key : Rewrite(r, k)
        \/ EnterMove(r, order[r].from, -order[r].qty)
        \/ EnterMove(r, order[r].to, order[r].qty)
        \/ Move(r)
        \/ Leave(r)

Spec == Init /\ [][Next]_vars
=============================================================================
