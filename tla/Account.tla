------------------------------- MODULE Account -------------------------------
(***************************************************************************)
(* The prepaid minutes of a client of api-go, as if every ending debited   *)
(* them in one step: it takes from the balance what there is, and writes   *)
(* the rest on the bill of its session. A session that is ended once more  *)
(* is charged once more, and its bill is written anew.                     *)
(***************************************************************************)
EXTENDS Integers

CONSTANT Sessions

VARIABLES
    balance,  \* the minutes left
    credits,  \* the minutes ever bought, corrections included
    charged,  \* the minutes ever charged
    bill      \* of the minutes a session was last charged, the ones to be billed

vars == <<balance, credits, charged, bill>>

Init == balance = 0 /\ credits = 0 /\ charged = 0 /\ bill = [s \in Sessions |-> 0]

Excess(n) == IF n < 0 THEN 0 ELSE n

Credit ==
    /\ balance' = balance + (credits' - credits)
    /\ UNCHANGED <<charged, bill>>

Charge(s) ==
    LET minutes == charged' - charged
    IN  /\ minutes >= 0
        /\ balance' = Excess(balance - minutes)
        /\ bill' = [bill EXCEPT ![s] = Excess(minutes - balance)]
        /\ UNCHANGED credits

Next == Credit \/ \E s \in Sessions : Charge(s)

Spec == Init /\ [][Next]_vars
=============================================================================
