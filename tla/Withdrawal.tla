------------------------------ MODULE Withdrawal ------------------------------
(***************************************************************************)
(* What the payouts of payments-go promise: money leaves once for a key,   *)
(* and the withdrawal, which may be written much later or never, says      *)
(* nothing of it that is not so.                                           *)
(***************************************************************************)
CONSTANT Keys

VARIABLES
    money,  \* where the money of a key is
    book    \* what our side says of it

vars == <<money, book>>

Init ==
    /\ money = [k \in Keys |-> "kept"]
    /\ book = [k \in Keys |-> "none"]

Leave(k) ==
    /\ money[k] = "kept" /\ money' = [money EXCEPT ![k] = "away"]
    /\ UNCHANGED book

Settle(k) ==
    /\ money[k] = "away"
    /\ \E place \in {"arrived", "returned"} : money' = [money EXCEPT ![k] = place]
    /\ UNCHANGED book

\* What may be said of money that has left: that it is on its way, which need
\* not be news, or where it ended.
Sayings(k) ==
    {"waiting"} \cup (IF money[k] = "arrived" THEN {"completed"} ELSE {})
                \cup (IF money[k] = "returned" THEN {"failed"} ELSE {})

Register(k) ==
    /\ book[k] = "none" /\ money[k] # "kept"
    /\ \E s \in Sayings(k) : book' = [book EXCEPT ![k] = s]
    /\ UNCHANGED money

Learn(k) ==
    /\ book[k] = "waiting" /\ money[k] # "kept"
    /\ \E s \in Sayings(k) : book' = [book EXCEPT ![k] = s]
    /\ UNCHANGED money

Next == \E k \in Keys : Leave(k) \/ Settle(k) \/ Register(k) \/ Learn(k)

Spec == Init /\ [][Next]_vars
=============================================================================
