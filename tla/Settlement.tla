----------------------------- MODULE Settlement -----------------------------
(***************************************************************************)
(* What the charges of payments-go promise, whatever request, webhook or   *)
(* job happens to move them: money enters an account at the gateway once   *)
(* and for all, and the books only ever follow the money.                  *)
(***************************************************************************)
CONSTANT Charges

VARIABLES
    books,  \* what our side says of a charge
    money   \* the gateway holds the payment

vars == <<books, money>>

\* A lapsed charge is one nobody expects to be paid any more, but that a
\* payment made at the last minute still books; a void one is closed for good.
Books == {"unborn", "open", "lapsed", "void", "booked"}

Init ==
    /\ books = [c \in Charges |-> "unborn"]
    /\ money = [c \in Charges |-> FALSE]

Moves(c, from, to) ==
    /\ books[c] \in from
    /\ books' = [books EXCEPT ![c] = to]
    /\ UNCHANGED money

Offer(c) == Moves(c, {"unborn"}, "open")
Void(c) == Moves(c, {"unborn", "open"}, "void")
Book(c) == money[c] /\ Moves(c, {"open", "lapsed"}, "booked")
Receive(c) == ~money[c] /\ money' = [money EXCEPT ![c] = TRUE] /\ UNCHANGED books

\* A job moves every charge it finds in a state in one step.
MoveAll(from, to) ==
    /\ \E S \in SUBSET {c \in Charges : books[c] = from} :
         books' = [c \in Charges |-> IF c \in S THEN to ELSE books[c]]
    /\ UNCHANGED money

LapseAll == MoveAll("open", "lapsed")
VoidUnborn == MoveAll("unborn", "void")

Next ==
    \/ \E c \in Charges : Offer(c) \/ Void(c) \/ Book(c) \/ Receive(c)
    \/ LapseAll \/ VoidUnborn

Spec == Init /\ [][Next]_vars
=============================================================================
