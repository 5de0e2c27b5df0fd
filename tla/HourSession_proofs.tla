--------------------------- MODULE HourSession_proofs ---------------------------
(***************************************************************************)
(* What the endings charge is neither lost nor counted twice, for any      *)
(* number of sessions, requests, purchases and adjustments; and the loop   *)
(* of computeElapsedSeconds counts the time a session ran, for every       *)
(* history the requests can write: never more, and less only if two of     *)
(* them open it twice in a row.                                            *)
(***************************************************************************)
EXTENDS HourSession, FiniteSetTheorems, SequenceTheorems, WellFoundedInduction, TLAPS

-----------------------------------------------------------------------------
(* The money *)

\* A number is the difference of what it exceeds zero by and what it lacks:
\* the arithmetic of GREATEST and of computeBillableMinutes.
LEMMA FloorSplits ==
    ASSUME NEW m \in Int, NEW b \in Int
    PROVE  /\ Floor(b - m) \in Int /\ computeBillableMinutes(m, b) \in Nat
           /\ Floor(b - m) = b - m + computeBillableMinutes(m, b)
  BY DEF Floor, computeBillableMinutes

LEMMA FloorMonotone ==
    ASSUME NEW x \in Int, NEW y \in Int, x <= y
    PROVE  Floor(x) <= Floor(y)
  BY DEF Floor

LEMMA MinutesAreIntegers ==
    ASSUME NEW e \in 0 .. MaxElapsed
    PROVE  elapsedMinutes(e) \in Int
  BY ConstantsAssumption DEF elapsedMinutes

\* What a read makes of a request is a request.
LEMMA AutoEndIsRequest ==
    ASSUME NEW s \in Sessions, NEW status, now \in Times
    PROVE  /\ AutoEnd(s, status) \in Reqs
           /\ AutoEnd(s, status).pc # "locked"
  BY DEF AutoEnd, Reqs, Idle, InSession

LEMMA InitInv == Init => IInv
  BY ConstantsAssumption DEF Init, IInv, MoneyInv, LockInv, NothingLost, Reqs, Idle, Times

\* A step that leaves the money alone and locks nothing.
LEMMA OthersKeep ==
    ASSUME IInv, UNCHANGED money, now' \in Times,
           req' \in [Requests -> Reqs],
           \A r \in Requests : req'[r].pc = "locked" => req'[r] = req[r]
    PROVE  IInv'
  <1>1. MoneyInv'
    BY DEF IInv, MoneyInv, money
  <1>2. LockInv'
    BY DEF IInv, LockInv, money
  <1>3. NothingLost'
    BY DEF IInv, NothingLost, money
  <1> QED
    BY <1>1, <1>2, <1>3 DEF IInv

\* A step of one request that does not lock the client.
LEMMA RequestSteps ==
    ASSUME IInv, UNCHANGED <<now, money>>, NEW r \in Requests, NEW q \in Reqs,
           q.pc # "locked", req' = [req EXCEPT ![r] = q]
    PROVE  IInv'
  <1>1. req' \in [Requests -> Reqs] /\ now' \in Times
    BY DEF IInv, MoneyInv
  <1>2. \A p \in Requests : req'[p].pc = "locked" => req'[p] = req[p]
    BY DEF IInv, MoneyInv
  <1> QED
    BY <1>1, <1>2, OthersKeep DEF money

\* No step breaks the inductive invariant.
LEMMA StepKeepsInv == IInv /\ [Next]_vars => IInv'
  <1> SUFFICES ASSUME IInv, [Next]_vars PROVE IInv'
    OBVIOUS
  <1> USE ConstantsAssumption
  <1>t. /\ now \in Times /\ balance \in Int /\ credits \in Int
        /\ charged \in Int /\ billed \in Int /\ req \in [Requests -> Reqs]
        /\ bill \in [Sessions -> Nat] /\ debits \in [Sessions -> Nat]
    BY DEF IInv, MoneyInv
  <1>i. Idle \in Reqs /\ Idle.pc # "locked"
    BY DEF Reqs, Idle
  <1>1. CASE Tick
    <2>1. now' \in Times
      BY <1>1, <1>t DEF Tick, Times
    <2> QED
      BY <1>1, <1>t, <2>1, OthersKeep DEF Tick, money
  <1>2. ASSUME NEW m \in Credits, addHourPurchase(m) PROVE IInv'
    <2>1. m \in Int
      OBVIOUS
    <2>2. MoneyInv' /\ NothingLost'
      BY <1>2, <1>t, <2>1 DEF addHourPurchase, IInv, MoneyInv, NothingLost
    <2>3. LockInv'
      BY <1>2 DEF addHourPurchase, Unlocked, LockInv
    <2> QED
      BY <2>2, <2>3 DEF IInv
  <1>3. ASSUME NEW s \in Sessions, NEW start, NEW end, startHourSession(s, start, end)
        PROVE  IInv'
    BY <1>3, <1>t, OthersKeep DEF startHourSession, money
  <1>4. ASSUME NEW s \in Sessions, NEW d, adjustHourSession(s, d) PROVE IInv'
    BY <1>4, <1>t, OthersKeep DEF adjustHourSession, money
  <1>5. ASSUME NEW s \in Sessions, NEW r \in Requests, NEW op \in {"pause", "resume"},
               NEW at \in Times, AskTransition(r, s, op, at)
        PROVE  IInv'
    <2> DEFINE q == [pc |-> "asked", op |-> op, s |-> s, at |-> at]
    <2>1. q \in Reqs /\ q.pc # "locked"
      BY DEF Reqs
    <2>2. req' = [req EXCEPT ![r] = q] /\ UNCHANGED <<now, money>>
      BY <1>5 DEF AskTransition
    <2> QED
      BY <2>1, <2>2, RequestSteps
  <1>6. ASSUME NEW s \in Sessions, NEW r \in Requests, NEW at \in Times, AskEnd(r, s, at)
        PROVE  IInv'
    <2> DEFINE q == [pc |-> "ending", s |-> s, at |-> at]
    <2>1. q \in Reqs /\ q.pc # "locked"
      BY DEF Reqs, InSession
    <2>2. req' = [req EXCEPT ![r] = q] /\ UNCHANGED <<now, money>>
      BY <1>6 DEF AskEnd
    <2> QED
      BY <2>1, <2>2, RequestSteps
  <1>7. ASSUME NEW s \in Sessions, NEW r \in Requests, Poll(r, s) PROVE IInv'
    <2>1. PICK q \in Reqs : q.pc # "locked" /\ req' = [req EXCEPT ![r] = q]
      <3>1. [pc |-> "due", s |-> s] \in Reqs
        BY DEF Reqs
      <3> QED
        BY <1>7, <1>t, <3>1, AutoEndIsRequest DEF Poll
    <2>2. UNCHANGED <<now, money>>
      BY <1>7 DEF Poll
    <2> QED
      BY <2>1, <2>2, RequestSteps
  <1>8. ASSUME NEW r \in Requests, Step(r) \/ Abort(r) PROVE IInv'
    <2>1. CASE ReadTransition(r)
      <3>1. PICK q \in Reqs : q.pc # "locked" /\ req' = [req EXCEPT ![r] = q]
        <4>1. req[r].pc = "asked" => [req[r] EXCEPT !.pc = "allowed"] \in Reqs
          BY <1>t DEF Reqs, Idle, InSession
        <4>2. [req[r] EXCEPT !.pc = "allowed"].pc # "locked"
          BY <2>1, <1>t DEF ReadTransition, Reqs, Idle, InSession
        <4> QED
          BY <2>1, <1>t, <1>i, <4>1, <4>2 DEF ReadTransition
      <3> QED
        BY <2>1, <3>1, RequestSteps DEF ReadTransition
    <2>2. CASE CommitTransition(r)
      BY <2>2, <1>i, RequestSteps DEF CommitTransition
    <2>3. CASE ReadEnd(r)
      <3>1. PICK q \in Reqs : q.pc # "locked" /\ req' = [req EXCEPT ![r] = q]
        <4>1. req[r].pc = "ending" => [req[r] EXCEPT !.pc = "endable"] \in Reqs
          BY <1>t DEF Reqs, Idle, InSession
        <4>2. [req[r] EXCEPT !.pc = "endable"].pc # "locked"
          BY <2>3, <1>t DEF ReadEnd, Reqs, Idle, InSession
        <4> QED
          BY <2>3, <1>t, <1>i, <4>1, <4>2 DEF ReadEnd
      <3> QED
        BY <2>3, <3>1, RequestSteps DEF ReadEnd
    <2>4. CASE ReadElapsed(r)
      <3>1. PICK elapsed \in 0 .. MaxElapsed : req' = [req EXCEPT ![r] =
                [pc |-> "timed", s |-> @.s, at |-> @.at, elapsed |-> elapsed]]
        BY <2>4 DEF ReadElapsed
      <3>2. req[r].s \in Sessions /\ req[r].at \in Times
        BY <2>4, <1>t DEF ReadElapsed, Reqs, Idle, InSession
      <3> DEFINE q == [pc |-> "timed", s |-> req[r].s, at |-> req[r].at, elapsed |-> elapsed]
      <3>3. q \in Reqs /\ q.pc # "locked"
        BY <3>1, <3>2 DEF Reqs
      <3>4. req' = [req EXCEPT ![r] = q]
        BY <3>1, <1>t
      <3> QED
        BY <2>4, <3>3, <3>4, RequestSteps DEF ReadElapsed
    <2>5. CASE LockClient(r)
      <3>1. req[r] \in [pc : {"timed"}, s : Sessions, at : Times, elapsed : 0 .. MaxElapsed]
        BY <2>5, <1>t DEF LockClient, Reqs, Idle, InSession
      <3> DEFINE q == [pc |-> "locked", s |-> req[r].s, at |-> req[r].at,
                       elapsed |-> req[r].elapsed, balance |-> balance]
      <3>2. req' = [req EXCEPT ![r] = q] /\ q \in Reqs
        BY <2>5, <1>t, <3>1 DEF LockClient, Reqs
      <3>3. MoneyInv' /\ NothingLost'
        BY <2>5, <1>t, <3>2 DEF LockClient, IInv, MoneyInv, NothingLost, money
      <3>4. LockInv'
        BY <2>5, <1>t, <3>2 DEF LockClient, Unlocked, LockInv, money
      <3> QED
        BY <3>3, <3>4 DEF IInv
    <2>6. CASE CommitEnd(r)
      <3>1. req[r] \in [pc : {"locked"}, s : Sessions, at : Times,
                        elapsed : 0 .. MaxElapsed, balance : Int]
        BY <2>6, <1>t DEF CommitEnd, Reqs, Idle, InSession
      <3> DEFINE m == elapsedMinutes(req[r].elapsed)
                 s == req[r].s
      <3>2. m \in Int /\ req[r].balance = balance /\ s \in Sessions
        BY <2>6, <3>1, MinutesAreIntegers DEF CommitEnd, IInv, LockInv
      <3>3. /\ balance' = Floor(balance - m) /\ charged' = charged + m
            /\ bill' = [bill EXCEPT ![s] = computeBillableMinutes(m, balance)]
            /\ billed' = billed - bill[s] + computeBillableMinutes(m, balance)
            /\ debits' = [debits EXCEPT ![s] = debits[s] + 1]
            /\ req' = [req EXCEPT ![r] = Idle] /\ UNCHANGED <<now, credits>>
        BY <2>6, <3>2 DEF CommitEnd
      <3> HIDE DEF m, s
      <3> DEFINE left == Floor(balance - m)
                 loose == computeBillableMinutes(m, balance)
      <3>a. left \in Int /\ loose \in Nat /\ left = balance - m + loose
        BY <1>t, <3>2, FloorSplits
      <3>b. /\ balance >= credits - charged + billed
            /\ (\A d \in Sessions : debits[d] <= 1) => balance = credits - charged + billed
        BY DEF IInv, NothingLost
      <3>c. /\ balance' = left /\ billed' = billed - bill[s] + loose
            /\ bill' = [bill EXCEPT ![s] = loose]
        BY <3>3
      <3> HIDE DEF left, loose
      <3>d. bill[s] \in Nat /\ debits[s] \in Nat /\ (debits[s] = 0 => bill[s] = 0)
        BY <1>t, <3>2 DEF IInv, MoneyInv
      <3>e. (\A d \in Sessions : debits'[d] <= 1)
              => (\A d \in Sessions : debits[d] <= 1) /\ debits[s] = 0
        BY <1>t, <3>2, <3>3
      <3>4. MoneyInv' /\ NothingLost'
        <4>1. MoneyInv'
          <5>1. bill' \in [Sessions -> Nat] /\ debits' \in [Sessions -> Nat]
            BY <1>t, <3>2, <3>3, <3>a, <3>c
          <5>2. \A d \in Sessions : debits'[d] = 0 => bill'[d] = 0
            BY <1>t, <3>2, <3>3, <3>c, <3>d DEF IInv, MoneyInv
          <5> QED
            BY <1>t, <1>i, <3>2, <3>3, <3>a, <3>c, <3>d, <5>1, <5>2 DEF MoneyInv
        <4>2. balance' >= credits' - charged' + billed'
          BY <1>t, <3>2, <3>3, <3>a, <3>b, <3>c, <3>d
        <4>3. (\A d \in Sessions : debits'[d] <= 1) => balance' = credits' - charged' + billed'
          BY <1>t, <3>2, <3>3, <3>a, <3>b, <3>c, <3>d, <3>e
        <4>4. NothingLost'
          BY <4>2, <4>3 DEF NothingLost
        <4> QED
          BY <4>1, <4>4
      <3>5. LockInv'
        BY <2>6, <1>t, <1>i, <3>3 DEF CommitEnd, IInv, LockInv
      <3> QED
        BY <3>4, <3>5 DEF IInv
    <2>7. CASE ReadAutoStart(r)
      <3>1. req[r].s \in Sessions
        BY <2>7, <1>t DEF ReadAutoStart, Reqs, Idle, InSession
      <3>2. PICK q \in Reqs : q.pc # "locked" /\ req' = [req EXCEPT ![r] = q]
        <4>1. [pc |-> "starting", s |-> req[r].s, at |-> now] \in Reqs
          BY <3>1, <1>t DEF Reqs, InSession
        <4> QED
          BY <2>7, <1>t, <3>1, <4>1, AutoEndIsRequest DEF ReadAutoStart
      <3> QED
        BY <2>7, <3>2, RequestSteps DEF ReadAutoStart
    <2>8. CASE CommitAutoStart(r)
      <3>1. req[r].s \in Sessions
        BY <2>8, <1>t DEF CommitAutoStart, Reqs, Idle, InSession
      <3>2. PICK q \in Reqs : q.pc # "locked" /\ req' = [req EXCEPT ![r] = q]
        BY <2>8, <1>t, <3>1, AutoEndIsRequest DEF CommitAutoStart
      <3> QED
        BY <2>8, <3>2, RequestSteps DEF CommitAutoStart
    <2>9. CASE Abort(r)
      BY <2>9, <1>i, RequestSteps DEF Abort
    <2> QED
      BY <1>8, <2>1, <2>2, <2>3, <2>4, <2>5, <2>6, <2>7, <2>8, <2>9 DEF Step
  <1>9. CASE UNCHANGED vars
    BY <1>9, <1>t, OthersKeep DEF vars, money
  <1> QED
    BY <1>1, <1>2, <1>3, <1>4, <1>5, <1>6, <1>7, <1>8, <1>9 DEF Next

\* One ending at a time is past the lock of the client and knows the balance; no
\* minute counts twice, or is lost but in a race on one session: the inductive
\* invariant.
THEOREM Inductive == Spec => []IInv
  <1> QED
    BY InitInv, StepKeepsInv, PTL DEF Spec

\* endHourSession and addHourPurchase: no charged minute has both left the
\* balance and been billed, and unless two endings of one session race each has
\* done one of the two, for any number of sessions and requests.
THEOREM MinutesAreKept == Spec => []NothingLost
  <1>1. IInv => NothingLost
    BY DEF IInv
  <1> QED
    BY Inductive, <1>1, PTL

-----------------------------------------------------------------------------
(* The prepaid minutes as an account *)

\* The steps that leave the money alone, which are all but two.
LEMMA OnlyTwoMoveMoney ==
    ASSUME [Next]_vars
    PROVE  \/ UNCHANGED money
           \/ \E m \in Credits : addHourPurchase(m)
           \/ \E r \in Requests : CommitEnd(r)
  <1>1. ASSUME NEW r \in Requests, Step(r) \/ Abort(r)
        PROVE  UNCHANGED money \/ CommitEnd(r)
    BY <1>1 DEF Step, ReadTransition, CommitTransition, ReadEnd, ReadElapsed, LockClient,
           ReadAutoStart, CommitAutoStart, Abort
  <1>2. ASSUME NEW s \in Sessions,
               \/ \E start \in Starts \cup {now}, end \in Ends \cup {Never} :
                      startHourSession(s, start, end)
               \/ \E d \in Adjusts : adjustHourSession(s, d)
               \/ \E r \in Requests :
                      \/ \E op \in {"pause", "resume"}, at \in Times : AskTransition(r, s, op, at)
                      \/ \E at \in Times : AskEnd(r, s, at)
                      \/ Poll(r, s)
        PROVE  UNCHANGED money
    BY <1>2 DEF startHourSession, adjustHourSession, AskTransition, AskEnd, Poll
  <1>3. Tick \/ UNCHANGED vars => UNCHANGED money
    BY DEF Tick, vars
  <1> QED
    BY <1>1, <1>2, <1>3 DEF Next

LEMMA StepRefines == IInv /\ [Next]_vars => [Prepaid!Next]_(Prepaid!vars)
  <1> SUFFICES ASSUME IInv, [Next]_vars PROVE Prepaid!Next \/ UNCHANGED Prepaid!vars
    OBVIOUS
  <1>t. /\ balance \in Int /\ credits \in Int /\ charged \in Int /\ req \in [Requests -> Reqs]
    BY DEF IInv, MoneyInv
  <1>1. CASE UNCHANGED money
    BY <1>1 DEF money, Prepaid!vars
  <1>2. ASSUME NEW m \in Credits, addHourPurchase(m) PROVE Prepaid!Credit
    <2>1. m \in Int
      BY ConstantsAssumption
    <2> QED
      BY <1>2, <1>t, <2>1 DEF addHourPurchase, Prepaid!Credit
  <1>3. ASSUME NEW r \in Requests, CommitEnd(r) PROVE \E s \in Sessions : Prepaid!Charge(s)
    <2>1. req[r] \in [pc : {"locked"}, s : Sessions, at : Times,
                      elapsed : 0 .. MaxElapsed, balance : Int]
      BY <1>3, <1>t DEF CommitEnd, Reqs, Idle, InSession
    <2> DEFINE m == elapsedMinutes(req[r].elapsed)
    <2>2. m \in Nat
      BY <2>1, ConstantsAssumption DEF elapsedMinutes
    <2>3. req[r].balance = balance
      BY <1>3 DEF CommitEnd, IInv, LockInv
    <2>4. /\ balance' = Floor(balance - m) /\ charged' = charged + m
          /\ bill' = [bill EXCEPT ![req[r].s] = Floor(m - balance)] /\ UNCHANGED credits
      BY <1>3, <2>3 DEF CommitEnd, computeBillableMinutes
    <2> HIDE DEF m
    <2>5. charged' - charged = m /\ m >= 0
      BY <1>t, <2>2, <2>4
    <2> QED
      BY <2>1, <2>4, <2>5 DEF Prepaid!Charge, Prepaid!Excess, Floor
  <1> QED
    BY <1>1, <1>2, <1>3, OnlyTwoMoveMoney DEF Prepaid!Next

\* endHourSession and addHourPurchase are as good as single steps: whatever
\* comes between the statements, an ending takes from the balance what there
\* is and bills the rest.
THEOREM RefinesAccount == Spec => ImplementsAccount
  <1>1. Init => Prepaid!Init
    BY DEF Init, Prepaid!Init
  <1> QED
    BY Inductive, StepRefines, <1>1, PTL DEF Spec, ImplementsAccount, Prepaid!Spec

-----------------------------------------------------------------------------
(* Induction and recursion over 0 .. n *)

\* Every set of naturals that is not empty has a least element: the induction
\* of the lemmas below, as a fact about sets.
LEMMA LeastNumber ==
    ASSUME NEW T, T \subseteq Nat, T # {}
    PROVE  \E n \in T : \A m \in T : n <= m
  <1>1. PICK n \in T : \A m \in T : ~ (<<m, n>> \in OpToRel(<, Nat))
    BY NatLessThanWellFounded, WFMin, Zenon
  <1>2. ASSUME NEW m \in T PROVE ~ (m < n)
    <2>1. <<m, n>> \in Nat \X Nat
      OBVIOUS
    <2> QED
      BY <1>1, <2>1, Zenon DEF OpToRel
  <1> QED
    BY <1>2

\* What holds at 0 and is handed on holds up to n; a property of numbers is
\* the set of those that have it.
LEMMA UpTo ==
    ASSUME NEW n \in Nat, NEW G, 0 \in G, \A i \in 1 .. n : i - 1 \in G => i \in G
    PROVE  \A i \in 0 .. n : i \in G
  <1> SUFFICES ASSUME NEW b \in 0 .. n, b \notin G PROVE FALSE
    OBVIOUS
  <1> DEFINE T == {i \in 0 .. n : i \notin G}
  <1>0. T \subseteq Nat /\ T # {}
    OBVIOUS
  <1>1. PICK i \in T : \A m \in T : i <= m
    <2> HIDE DEF T
    <2> QED
      BY <1>0, LeastNumber
  <1>2. i \in 1 .. n /\ i - 1 \in 0 .. n /\ i - 1 \notin T
    BY <1>1
  <1> QED
    BY <1>1, <1>2

\* A recursion over 0 .. n has a solution.
Solution(f, n, S, x, step) ==
    f \in [0 .. n -> S] /\ f[0] = x /\ \A i \in 1 .. n : f[i] = step[i][f[i - 1]]

LEMMA Recursion ==
    ASSUME NEW n \in Nat, NEW S, NEW x \in S, NEW step \in [1 .. n -> [S -> S]]
    PROVE  \E f : Solution(f, n, S, x, step)
  <1> DEFINE Solves(f, m) ==
                 f[0] = x /\ \A i \in 1 .. m : f[i] = step[i][f[i - 1]]
             G == {m \in 0 .. n : \E f \in [0 .. m -> S] : Solves(f, m)}
  <1>1. 0 \in G
    <2> DEFINE f == [i \in 0 .. 0 |-> x]
    <2>1. f \in [0 .. 0 -> S] /\ Solves(f, 0)
      OBVIOUS
    <2> HIDE DEF f
    <2> QED
      BY <2>1
  <1>2. ASSUME NEW m \in 1 .. n, m - 1 \in G PROVE m \in G
    <2>1. PICK f \in [0 .. (m - 1) -> S] : Solves(f, m - 1)
      BY <1>2
    <2> DEFINE y == step[m][f[m - 1]]
               g == [i \in 0 .. m |-> IF i = m THEN y ELSE f[i]]
    <2>2. y \in S
      <3>1. f[m - 1] \in S /\ step[m] \in [S -> S]
        OBVIOUS
      <3> QED
        BY <3>1
    <2>a. f[m - 1] = g[m - 1] /\ g[m] = y
      OBVIOUS
    <2>b. \A i \in 1 .. (m - 1) : g[i] = f[i] /\ g[i - 1] = f[i - 1]
      OBVIOUS
    <2>c. y = step[m][g[m - 1]]
      BY <2>a, Zenon
    <2> HIDE DEF y
    <2>3. g \in [0 .. m -> S]
      BY <2>2
    <2>4. g[0] = x
      BY <2>1
    <2>5. ASSUME NEW i \in 1 .. m PROVE g[i] = step[i][g[i - 1]]
      <3>1. CASE i = m
        BY <2>a, <2>c, <3>1
      <3>2. CASE i # m
        <4> HIDE DEF g
        <4>1. i \in 1 .. (m - 1)
          BY <3>2
        <4>2. f[i] = step[i][f[i - 1]] /\ g[i] = f[i] /\ g[i - 1] = f[i - 1]
          BY <2>1, <2>b, <4>1
        <4> QED
          BY <4>2, Zenon
      <3> QED
        BY <3>1, <3>2
    <2> HIDE DEF g
    <2>6. Solves(g, m)
      BY <2>4, <2>5
    <2> HIDE DEF Solves
    <2> QED
      BY <2>3, <2>6
  <1> HIDE DEF G
  <1>3. \A m \in 1 .. n : m - 1 \in G => m \in G
    BY <1>2
  <1>4. \A m \in 0 .. n : m \in G
    BY <1>1, <1>3, UpTo
  <1> QED
    BY <1>4 DEF G, Solution

-----------------------------------------------------------------------------
(* The loop of computeElapsedSeconds *)

\* What the loop of computeElapsedSeconds knows.
Accs == [total : Int, running : BOOLEAN, since : Nat]
Start == [total |-> 0, running |-> FALSE, since |-> 0]

\* The body of the loop keeps their types.
LEMMA CountType ==
    ASSUME NEW acc \in Accs, NEW e \in EventSet
    PROVE  Count(acc, e) \in Accs
  <1>0. /\ acc.total \in Int /\ acc.running \in BOOLEAN /\ acc.since \in Nat
        /\ e.at \in Nat /\ e.delta \in Int
        /\ acc = [total |-> acc.total, running |-> acc.running, since |-> acc.since]
    BY DEF Accs, EventSet
  <1>1. CASE e.type \in Opens
    <2>1. Count(acc, e) = [total |-> acc.total, running |-> TRUE, since |-> e.at]
      BY <1>0, <1>1 DEF Count, Opens, Closes
    <2> QED
      BY <1>0, <2>1 DEF Accs
  <1>2. CASE e.type \in Closes /\ acc.running
    <2>1. Count(acc, e) =
              [total |-> acc.total + e.at - acc.since, running |-> FALSE, since |-> acc.since]
      BY <1>0, <1>2 DEF Count, Opens, Closes
    <2> QED
      BY <1>0, <2>1 DEF Accs
  <1>3. CASE e.type \in Closes /\ ~acc.running
    BY <1>3 DEF Count, Accs, EventSet, Opens, Closes
  <1>4. CASE e.type = "adjust"
    BY <1>4 DEF Count, Accs, EventSet, Opens, Closes
  <1> QED
    BY <1>1, <1>2, <1>3, <1>4 DEF EventSet

\* The loop is what it says: its definition has a solution, and that one.
LEMMA ReplayIsRecursive ==
    ASSUME NEW ev \in Seq(EventSet)
    PROVE  /\ Replay(ev) \in [0 .. Len(ev) -> Accs]
           /\ Replay(ev)[0] = Start
           /\ \A i \in 1 .. Len(ev) : Replay(ev)[i] = Count(Replay(ev)[i - 1], ev[i])
  <1> DEFINE n == Len(ev)
             step == [i \in 1 .. n |-> [a \in Accs |-> Count(a, ev[i])]]
             Body(f) == [i \in 0 .. n |-> IF i = 0 THEN Start ELSE Count(f[i - 1], ev[i])]
  <1>1. n \in Nat /\ Start \in Accs
    BY DEF Start, Accs
  <1>2. step \in [1 .. n -> [Accs -> Accs]]
    <2>1. ASSUME NEW i \in 1 .. n, NEW a \in Accs PROVE Count(a, ev[i]) \in Accs
      BY CountType
    <2> QED
      BY <2>1
  <1>3. PICK f : Solution(f, n, Accs, Start, step)
    <2> HIDE DEF step
    <2> QED
      BY <1>1, <1>2, Recursion
  <1>4. ASSUME NEW i \in 1 .. n PROVE f[i] = Count(f[i - 1], ev[i])
    <2>1. f[i - 1] \in Accs
      BY <1>3 DEF Solution
    <2>2. step[i][f[i - 1]] = Count(f[i - 1], ev[i])
      BY <2>1
    <2> QED
      BY <1>3, <2>2 DEF Solution
  <1>5. f = Body(f)
    BY <1>3, <1>4 DEF Solution
  <1>6. Replay(ev) = CHOOSE g : g = Body(g)
    BY DEF Replay, Start
  <1>7. Replay(ev) = Body(Replay(ev))
    <2> HIDE DEF Body
    <2> QED
      BY <1>5, <1>6, Zenon
  <1> DEFINE R == Replay(ev)
  <1> HIDE DEF R
  <1>8. R = Body(R)
    BY <1>7 DEF R
  <1>9. DOMAIN R = 0 .. n /\ R[0] = Start /\ \A i \in 1 .. n : R[i] = Count(R[i - 1], ev[i])
    BY <1>1, <1>8
  <1>10. R \in [0 .. n -> Accs]
    <2> DEFINE G == {i \in 0 .. n : R[i] \in Accs}
    <2>1. 0 \in G
      BY <1>1, <1>9
    <2>2. ASSUME NEW i \in 1 .. n, i - 1 \in G PROVE i \in G
      BY <2>2, <1>9, CountType
    <2>3. \A i \in 0 .. n : i \in G
      <3> HIDE DEF G
      <3> QED
        BY <1>1, <2>1, <2>2, UpTo
    <2>4. R = [i \in 0 .. n |-> R[i]]
      BY <1>8
    <2> QED
      BY <2>3, <2>4
  <1> QED
    BY <1>9, <1>10 DEF R

\* The adjustments of the first i events.
Adjusted(ev) ==
    LET sum[i \in 0 .. Len(ev)] == IF i = 0 THEN 0 ELSE sum[i - 1] + ev[i].delta
    IN  sum

LEMMA AdjustedIsRecursive ==
    ASSUME NEW ev \in Seq(EventSet)
    PROVE  /\ Adjusted(ev) \in [0 .. Len(ev) -> Int]
           /\ Adjusted(ev)[0] = 0
           /\ \A i \in 1 .. Len(ev) : Adjusted(ev)[i] = Adjusted(ev)[i - 1] + ev[i].delta
           /\ AdjustedBy(ev) = Adjusted(ev)[Len(ev)]
  <1> DEFINE n == Len(ev)
             step == [i \in 1 .. n |-> [a \in Int |-> a + ev[i].delta]]
             Body(f) == [i \in 0 .. n |-> IF i = 0 THEN 0 ELSE f[i - 1] + ev[i].delta]
  <1>1. n \in Nat /\ 0 \in Int /\ \A i \in 1 .. n : ev[i].delta \in Int
    <2>1. \A i \in 1 .. n : ev[i] \in EventSet
      OBVIOUS
    <2>2. \A e \in EventSet : e.delta \in Int
      BY DEF EventSet
    <2> QED
      BY <2>1, <2>2
  <1>2. step \in [1 .. n -> [Int -> Int]]
    BY <1>1
  <1>3. PICK f : Solution(f, n, Int, 0, step)
    <2> HIDE DEF step
    <2> QED
      BY <1>1, <1>2, Recursion
  <1>4. ASSUME NEW i \in 1 .. n PROVE f[i] = f[i - 1] + ev[i].delta
    <2>1. f[i - 1] \in Int
      BY <1>3 DEF Solution
    <2>2. step[i][f[i - 1]] = f[i - 1] + ev[i].delta
      BY <2>1
    <2> QED
      BY <1>3, <2>2 DEF Solution
  <1>5. f = Body(f)
    BY <1>3, <1>4 DEF Solution
  <1>6. Adjusted(ev) = CHOOSE g : g = Body(g)
    BY DEF Adjusted
  <1>7. Adjusted(ev) = Body(Adjusted(ev))
    <2> HIDE DEF Body
    <2> QED
      BY <1>5, <1>6, Zenon
  <1> DEFINE R == Adjusted(ev)
  <1> HIDE DEF R
  <1>8. R = Body(R)
    BY <1>7 DEF R
  <1>9. DOMAIN R = 0 .. n /\ R[0] = 0 /\ \A i \in 1 .. n : R[i] = R[i - 1] + ev[i].delta
    BY <1>1, <1>8
  <1>10. R \in [0 .. n -> Int]
    <2> DEFINE G == {i \in 0 .. n : R[i] \in Int}
    <2>1. 0 \in G
      BY <1>1, <1>9
    <2>2. ASSUME NEW i \in 1 .. n, i - 1 \in G PROVE i \in G
      BY <2>2, <1>9, <1>1
    <2>3. \A i \in 0 .. n : i \in G
      <3> HIDE DEF G
      <3> QED
        BY <1>1, <2>1, <2>2, UpTo
    <2>4. R = [i \in 0 .. n |-> R[i]]
      BY <1>8
    <2> QED
      BY <2>3, <2>4
  <1>11. AdjustedBy(ev) = Adjusted(ev)[Len(ev)]
    BY DEF AdjustedBy, Adjusted
  <1> QED
    BY <1>9, <1>10, <1>11 DEF R

\* RunsAt and OpenedTwice, of the first k events only.
RunsIn(ev, k, t) ==
    \E i \in 1 .. k :
        /\ ev[i].at <= t /\ ev[i].type \in Opens
        /\ \A j \in i + 1 .. k : ev[j].at <= t => ev[j].type = "adjust"

\* The ticks before t the session ran, by the first k events.
Ticks(ev, k, t) == {u \in 0 .. t - 1 : RunsIn(ev, k, u)}

TwiceIn(ev, k) ==
    \E i, j \in 1 .. k :
        /\ i < j /\ ev[i].type \in Opens /\ ev[j].type \in Opens
        /\ \A l \in i + 1 .. j - 1 : ev[l].type = "adjust"

\* The first k events leave the session running.
OpenIn(ev, k) ==
    \E i \in 1 .. k : ev[i].type \in Opens /\ \A j \in i + 1 .. k : ev[j].type = "adjust"

\* None of the first k events is after t.
Covers(ev, k, t) == \A i \in 1 .. k : ev[i].at <= t

\* What the loop has counted at t.
Counted(acc, t) == acc.total + IF acc.running THEN t - acc.since ELSE 0

\* After k events the loop has counted, at any time since, the ticks the
\* session ran and the adjustments, or fewer when two openings followed each
\* other.
Exact(ev, k) ==
    LET acc == Replay(ev)[k]
    IN  /\ acc.running => OpenIn(ev, k)
        /\ acc.running => \E i \in 1 .. k : acc.since = ev[i].at
        /\ \A t \in Nat : Covers(ev, k, t) =>
               /\ Counted(acc, t) <= Cardinality(Ticks(ev, k, t)) + Adjusted(ev)[k]
               /\ \/ TwiceIn(ev, k)
                  \/ Counted(acc, t) = Cardinality(Ticks(ev, k, t)) + Adjusted(ev)[k]

LEMMA TicksFinite ==
    ASSUME NEW ev, NEW k, NEW t \in Nat
    PROVE  IsFiniteSet(Ticks(ev, k, t)) /\ Cardinality(Ticks(ev, k, t)) \in Nat
  <1>1. IsFiniteSet(0 .. t - 1)
    BY FS_Interval
  <1>2. Ticks(ev, k, t) \in SUBSET (0 .. t - 1)
    BY DEF Ticks
  <1>3. IsFiniteSet(Ticks(ev, k, t))
    BY <1>1, <1>2, FS_Subset
  <1> QED
    BY <1>3, FS_CardinalityType

\* What one more event does to the ticks.
LEMMA TicksStep ==
    ASSUME NEW ev \in Histories, NEW k \in 1 .. Len(ev), NEW t \in Nat, Covers(ev, k, t)
    PROVE  LET a == ev[k].at
               before == Cardinality(Ticks(ev, k - 1, a))
           IN  /\ ev[k].type \in Opens => Cardinality(Ticks(ev, k, t)) = before + t - a
               /\ ev[k].type \in Closes => Cardinality(Ticks(ev, k, t)) = before
               /\ ev[k].type = "adjust" => Ticks(ev, k, t) = Ticks(ev, k - 1, t)
  <1> DEFINE a == ev[k].at
             before == Ticks(ev, k - 1, a)
  <1>1. /\ ev \in Seq(EventSet) /\ k \in DOMAIN ev /\ DOMAIN ev = 1 .. Len(ev) /\ Len(ev) \in Nat
        /\ \A i, j \in DOMAIN ev : i <= j => ev[i].at <= ev[j].at
    BY DEF Histories
  <1>2. \A i \in 1 .. Len(ev) : ev[i].at \in Nat
    <2>1. \A e \in EventSet : e.at \in Nat
      BY DEF EventSet
    <2> QED
      BY <1>1, <2>1
  <1>3. a \in Nat /\ a <= t
    BY <1>2 DEF Covers
  <1>4. ASSUME NEW u \in Nat, ~ (a <= u) \/ ev[k].type = "adjust"
        PROVE  RunsIn(ev, k, u) <=> RunsIn(ev, k - 1, u)
    <2>1. ASSUME RunsIn(ev, k, u) PROVE RunsIn(ev, k - 1, u)
      <3>1. PICK i \in 1 .. k :
                /\ ev[i].at <= u /\ ev[i].type \in Opens
                /\ \A j \in i + 1 .. k : ev[j].at <= u => ev[j].type = "adjust"
        BY <2>1 DEF RunsIn
      <3>2. i # k
        BY <1>4, <3>1 DEF Opens
      <3>3. i \in 1 .. (k - 1) /\ \A j \in i + 1 .. k - 1 : j \in i + 1 .. k
        BY <3>2
      <3> QED
        BY <3>1, <3>3 DEF RunsIn
    <2>2. ASSUME RunsIn(ev, k - 1, u) PROVE RunsIn(ev, k, u)
      <3>1. PICK i \in 1 .. k - 1 :
                /\ ev[i].at <= u /\ ev[i].type \in Opens
                /\ \A j \in i + 1 .. k - 1 : ev[j].at <= u => ev[j].type = "adjust"
        BY <2>2 DEF RunsIn
      <3>2. i \in 1 .. k /\ \A j \in i + 1 .. k : j = k \/ j \in i + 1 .. k - 1
        OBVIOUS
      <3> QED
        BY <1>4, <3>1, <3>2 DEF RunsIn
    <2> QED
      BY <2>1, <2>2
  <1>5. CASE ev[k].type \in Opens
    <2>1. ASSUME NEW u \in a .. t - 1 PROVE RunsIn(ev, k, u)
      <3>1. k \in 1 .. k /\ a <= u /\ \A j \in k + 1 .. k : FALSE
        BY <1>3
      <3> QED
        BY <1>5, <3>1 DEF RunsIn
    <2>2. Ticks(ev, k, t) = before \cup (a .. t - 1)
      BY <1>3, <1>4, <2>1 DEF Ticks
    <2>3. before \cap (a .. t - 1) = {}
      BY <1>3 DEF Ticks
    <2>4. IsFiniteSet(before) /\ Cardinality(before) \in Nat
      BY <1>3, TicksFinite
    <2>5. IsFiniteSet(a .. t - 1) /\ Cardinality(a .. t - 1) = t - a
      <3>1. t - 1 \in Int /\ a \in Int
        BY <1>3
      <3>2. IsFiniteSet(a .. t - 1) /\
            Cardinality(a .. t - 1) = IF a > t - 1 THEN 0 ELSE t - 1 - a + 1
        BY <3>1, FS_Interval
      <3> QED
        BY <1>3, <3>2
    <2>6. Cardinality({}) = 0
      BY FS_EmptySet
    <2>7. Cardinality(before \cup (a .. t - 1)) =
              Cardinality(before) + Cardinality(a .. t - 1) - Cardinality(before \cap (a .. t - 1))
      BY <2>4, <2>5, FS_Union
    <2>8. Cardinality(Ticks(ev, k, t)) = Cardinality(before) + t - a
      <3> HIDE DEF before, a
      <3>1. Cardinality(Ticks(ev, k, t)) = Cardinality(before) + (t - a) - 0
        BY <2>2, <2>3, <2>5, <2>6, <2>7, Zenon
      <3> QED
        BY <1>3, <2>4, <3>1
    <2> QED
      BY <1>5, <2>8 DEF Opens, Closes
  <1>6. CASE ev[k].type \in Closes
    <2>0. ev[k].type \notin Opens /\ ev[k].type # "adjust"
      BY <1>6 DEF Opens, Closes
    <2>1. ASSUME NEW u \in a .. t - 1 PROVE ~RunsIn(ev, k, u)
      <3>1. SUFFICES ASSUME NEW i \in 1 .. k, ev[i].type \in Opens,
                            \A j \in i + 1 .. k : ev[j].at <= u => ev[j].type = "adjust"
                     PROVE  FALSE
        BY DEF RunsIn
      <3>2. i # k /\ a <= u
        BY <1>3, <2>0, <3>1
      <3>3. k \in i + 1 .. k
        BY <3>2
      <3> QED
        BY <2>0, <3>1, <3>2, <3>3
    <2>2. Ticks(ev, k, t) = before
      BY <1>3, <1>4, <2>1 DEF Ticks
    <2> QED
      BY <2>0, <2>2
  <1>7. CASE ev[k].type = "adjust"
    <2>1. Ticks(ev, k, t) = Ticks(ev, k - 1, t)
      BY <1>4, <1>7 DEF Ticks
    <2> QED
      BY <1>7, <2>1 DEF Opens, Closes
  <1> QED
    BY <1>1, <1>5, <1>6, <1>7

\* The body of the loop, by the kinds of events.
LEMMA CountCases ==
    ASSUME NEW acc \in Accs, NEW e \in EventSet
    PROVE  /\ e.type \in Opens =>
                  Count(acc, e) = [total |-> acc.total, running |-> TRUE, since |-> e.at]
           /\ e.type \in Closes /\ acc.running =>
                  Count(acc, e) =
                      [total |-> acc.total + e.at - acc.since, running |-> FALSE, since |-> acc.since]
           /\ e.type \in Closes /\ ~acc.running => Count(acc, e) = acc
           /\ e.type = "adjust" =>
                  Count(acc, e) =
                      [total |-> acc.total + e.delta, running |-> acc.running, since |-> acc.since]
  BY DEF Count, Accs, EventSet, Opens, Closes

\* One more event: the turn of the loop that counts it.
LEMMA ExactStep ==
    ASSUME NEW ev \in Histories, NEW k \in 1 .. Len(ev), Exact(ev, k - 1)
    PROVE  Exact(ev, k)
  <1> DEFINE old == Replay(ev)[k - 1]
             acc == Replay(ev)[k]
             e == ev[k]
             a == ev[k].at
  <1>1. /\ ev \in Seq(EventSet) /\ DOMAIN ev = 1 .. Len(ev) /\ Len(ev) \in Nat
        /\ \A i, j \in DOMAIN ev : i <= j => ev[i].at <= ev[j].at
        /\ \A i \in DOMAIN ev : ev[i].type # "adjust" => ev[i].delta = 0
    BY DEF Histories
  <1>2. \A i \in 1 .. Len(ev) : ev[i] \in EventSet
    BY <1>1
  <1>3. /\ \A x \in EventSet : x.at \in Nat /\ x.delta \in Int
        /\ \A x \in EventSet : x.type \in Opens \/ x.type \in Closes \/ x.type = "adjust"
    BY DEF EventSet
  <1>4. /\ old \in Accs /\ acc = Count(old, e)
        /\ Adjusted(ev)[k - 1] \in Int /\ Adjusted(ev)[k] = Adjusted(ev)[k - 1] + e.delta
    BY <1>1, ReplayIsRecursive, AdjustedIsRecursive
  <1>5. old.total \in Int /\ old.running \in BOOLEAN /\ old.since \in Nat
    BY <1>4 DEF Accs
  <1>6. a \in Nat /\ e.delta \in Int /\ e \in EventSet /\ (e.type # "adjust" => e.delta = 0)
    BY <1>1, <1>2, <1>3
  <1>7. Covers(ev, k - 1, a)
    BY <1>1 DEF Covers
  <1>8. ASSUME NEW t \in Nat, Covers(ev, k, t) PROVE Covers(ev, k - 1, t) /\ a <= t
    BY <1>8 DEF Covers
  <1>9. TwiceIn(ev, k - 1) => TwiceIn(ev, k)
    BY DEF TwiceIn
  <1>10. /\ old.running => OpenIn(ev, k - 1)
         /\ old.running => \E i \in 1 .. k - 1 : old.since = ev[i].at
         /\ \A t \in Nat : Covers(ev, k - 1, t) =>
               /\ Counted(old, t) <= Cardinality(Ticks(ev, k - 1, t)) + Adjusted(ev)[k - 1]
               /\ \/ TwiceIn(ev, k - 1)
                  \/ Counted(old, t) = Cardinality(Ticks(ev, k - 1, t)) + Adjusted(ev)[k - 1]
    BY DEF Exact
  <1>11. old.running => old.since <= a
    BY <1>7, <1>10 DEF Covers
  <1> DEFINE before == Cardinality(Ticks(ev, k - 1, a))
             adjusted == Adjusted(ev)[k - 1]
  <1>12. before \in Nat /\ adjusted \in Int
    BY <1>4, <1>6, TicksFinite
  <1>13. /\ Counted(old, a) <= before + adjusted
         /\ TwiceIn(ev, k - 1) \/ Counted(old, a) = before + adjusted
    BY <1>6, <1>7, <1>10
  <1>14. /\ old.running => Counted(old, a) = old.total + (a - old.since)
         /\ ~old.running => Counted(old, a) = old.total
    BY <1>5 DEF Counted
  <1>15. CASE e.type \in Opens
    <2>1. acc = [total |-> old.total, running |-> TRUE, since |-> a]
      BY <1>4, <1>6, <1>15, CountCases
    <2>2. OpenIn(ev, k) /\ acc.since = ev[k].at /\ k \in 1 .. k
      BY <2>1, <1>15 DEF OpenIn
    <2>3. old.running => TwiceIn(ev, k)
      <3>1. SUFFICES ASSUME OpenIn(ev, k - 1) PROVE TwiceIn(ev, k)
        BY <1>10
      <3>2. PICK i \in 1 .. k - 1 :
                ev[i].type \in Opens /\ \A j \in i + 1 .. k - 1 : ev[j].type = "adjust"
        BY <3>1 DEF OpenIn
      <3>3. i \in 1 .. k /\ k \in 1 .. k /\ i < k
        OBVIOUS
      <3> QED
        BY <1>15, <3>2, <3>3 DEF TwiceIn
    <2>4. ASSUME NEW t \in Nat, Covers(ev, k, t)
          PROVE  /\ Counted(acc, t) <= Cardinality(Ticks(ev, k, t)) + Adjusted(ev)[k]
                 /\ \/ TwiceIn(ev, k)
                    \/ Counted(acc, t) = Cardinality(Ticks(ev, k, t)) + Adjusted(ev)[k]
      <3>1. Cardinality(Ticks(ev, k, t)) = before + t - a
        BY <1>15, <2>4, TicksStep
      <3>2. Counted(acc, t) = old.total + (t - a)
        BY <2>1 DEF Counted
      <3>3. Adjusted(ev)[k] = adjusted
        BY <1>4, <1>6, <1>12, <1>15 DEF Opens
      <3> HIDE DEF before, adjusted, old, acc, a, e
      <3> QED
        BY <1>5, <1>6, <1>9, <1>11, <1>12, <1>13, <1>14, <2>3, <3>1, <3>2, <3>3
    <2> HIDE DEF acc
    <2> QED
      BY <2>2, <2>4 DEF Exact, acc
  <1>16. CASE e.type \in Closes
    <2>1. acc.running = FALSE /\ acc.total = Counted(old, a)
      <3>1. CASE old.running
        BY <1>4, <1>5, <1>6, <1>14, <1>16, <3>1, CountCases
      <3>2. CASE ~old.running
        BY <1>4, <1>5, <1>6, <1>14, <1>16, <3>2, CountCases
      <3> QED
        BY <3>1, <3>2
    <2>2. ASSUME NEW t \in Nat, Covers(ev, k, t)
          PROVE  /\ Counted(acc, t) <= Cardinality(Ticks(ev, k, t)) + Adjusted(ev)[k]
                 /\ \/ TwiceIn(ev, k)
                    \/ Counted(acc, t) = Cardinality(Ticks(ev, k, t)) + Adjusted(ev)[k]
      <3>1. Cardinality(Ticks(ev, k, t)) = before
        BY <1>16, <2>2, TicksStep
      <3>2. Counted(acc, t) = Counted(old, a)
        <4>1. Counted(old, a) \in Int
          BY <1>5, <1>6 DEF Counted
        <4> QED
          BY <2>1, <4>1 DEF Counted
      <3>3. Adjusted(ev)[k] = adjusted
        BY <1>4, <1>6, <1>12, <1>16 DEF Closes
      <3> HIDE DEF before, adjusted, old, acc, a, e
      <3> QED
        BY <1>9, <1>13, <3>1, <3>2, <3>3
    <2> HIDE DEF acc
    <2> QED
      BY <2>1, <2>2 DEF Exact, acc
  <1>17. CASE e.type = "adjust"
    <2>1. acc = [total |-> old.total + e.delta, running |-> old.running, since |-> old.since]
      BY <1>4, <1>6, <1>17, CountCases
    <2>2. OpenIn(ev, k - 1) => OpenIn(ev, k)
      <3>1. SUFFICES ASSUME OpenIn(ev, k - 1) PROVE OpenIn(ev, k)
        OBVIOUS
      <3>2. PICK i \in 1 .. k - 1 :
                ev[i].type \in Opens /\ \A j \in i + 1 .. k - 1 : ev[j].type = "adjust"
        BY <3>1 DEF OpenIn
      <3>3. i \in 1 .. k /\ \A j \in i + 1 .. k : j = k \/ j \in i + 1 .. k - 1
        OBVIOUS
      <3> QED
        BY <1>17, <3>2, <3>3 DEF OpenIn
    <2>3. /\ acc.running => OpenIn(ev, k)
          /\ acc.running => \E i \in 1 .. k : acc.since = ev[i].at
      <3>1. acc.running = old.running /\ acc.since = old.since
        BY <2>1
      <3>2. \A i \in 1 .. k - 1 : i \in 1 .. k
        OBVIOUS
      <3> HIDE DEF acc, old
      <3> QED
        BY <1>10, <2>2, <3>1, <3>2
    <2>4. ASSUME NEW t \in Nat, Covers(ev, k, t)
          PROVE  /\ Counted(acc, t) <= Cardinality(Ticks(ev, k, t)) + Adjusted(ev)[k]
                 /\ \/ TwiceIn(ev, k)
                    \/ Counted(acc, t) = Cardinality(Ticks(ev, k, t)) + Adjusted(ev)[k]
      <3> DEFINE ran == Cardinality(Ticks(ev, k - 1, t))
      <3>1. Cardinality(Ticks(ev, k, t)) = ran /\ ran \in Nat
        BY <1>17, <2>4, TicksStep, TicksFinite
      <3>2. Counted(acc, t) = Counted(old, t) + e.delta /\ Counted(old, t) \in Int
        BY <1>5, <1>6, <2>1 DEF Counted
      <3>3. /\ Counted(old, t) <= ran + adjusted
            /\ TwiceIn(ev, k - 1) \/ Counted(old, t) = ran + adjusted
        BY <1>8, <1>10, <2>4
      <3>4. Adjusted(ev)[k] = adjusted + e.delta
        BY <1>4
      <3> HIDE DEF ran, adjusted, old, acc, e
      <3> QED
        BY <1>6, <1>9, <1>12, <3>1, <3>2, <3>3, <3>4
    <2> HIDE DEF acc
    <2> QED
      BY <2>3, <2>4 DEF Exact, acc
  <1> QED
    BY <1>3, <1>6, <1>15, <1>16, <1>17

LEMMA ExactStart == ASSUME NEW ev \in Histories PROVE Exact(ev, 0)
  <1>1. ev \in Seq(EventSet)
    BY DEF Histories
  <1>2. Replay(ev)[0] = Start /\ Adjusted(ev)[0] = 0
    BY <1>1, ReplayIsRecursive, AdjustedIsRecursive
  <1>3. ASSUME NEW t \in Nat PROVE Counted(Start, t) = 0 /\ Cardinality(Ticks(ev, 0, t)) = 0
    <2>1. Ticks(ev, 0, t) = {}
      BY DEF Ticks, RunsIn
    <2> QED
      BY <2>1, FS_EmptySet DEF Counted, Start
  <1>4. Start.running = FALSE
    BY DEF Start
  <1> QED
    BY <1>2, <1>3, <1>4 DEF Exact

LEMMA AlwaysExact == ASSUME NEW ev \in Histories PROVE Exact(ev, Len(ev))
  <1> DEFINE G == {k \in 0 .. Len(ev) : Exact(ev, k)}
  <1>1. Len(ev) \in Nat
    BY DEF Histories
  <1>2. 0 \in G
    BY <1>1, ExactStart
  <1>3. \A k \in 1 .. Len(ev) : k - 1 \in G => k \in G
    BY <1>1, ExactStep
  <1>4. \A k \in 0 .. Len(ev) : k \in G
    <2> HIDE DEF G
    <2> QED
      BY <1>1, <1>2, <1>3, UpTo
  <1> QED
    BY <1>1, <1>4

\* computeElapsedSeconds of any history, at any time that is not before its
\* last event: its loop agrees with the definition by ticks, or counts less
\* when a history opens twice in a row.
THEOREM ElapsedIsExact ==
    ASSUME NEW ev \in Histories, NEW t \in Nat, \A i \in DOMAIN ev : ev[i].at <= t
    PROVE  LET reference ==
                   Floor(Cardinality({u \in 0 .. t - 1 : RunsAt(ev, u)}) + AdjustedBy(ev))
           IN  /\ computeElapsed(ev, t) <= reference
               /\ OpenedTwice(ev) \/ computeElapsed(ev, t) = reference
  <1> DEFINE n == Len(ev)
             acc == Replay(ev)[n]
             ran == Cardinality({u \in 0 .. t - 1 : RunsAt(ev, u)})
  <1>1. ev \in Seq(EventSet) /\ n \in Nat /\ DOMAIN ev = 1 .. n
    BY DEF Histories
  <1>2. {u \in 0 .. t - 1 : RunsAt(ev, u)} = Ticks(ev, n, t)
    BY <1>1 DEF Ticks, RunsAt, RunsIn
  <1>3. TwiceIn(ev, n) => OpenedTwice(ev)
    BY <1>1 DEF TwiceIn, OpenedTwice
  <1>4. AdjustedBy(ev) = Adjusted(ev)[n] /\ AdjustedBy(ev) \in Int
    BY <1>1, AdjustedIsRecursive
  <1>r. ran = Cardinality(Ticks(ev, n, t)) /\ ran \in Nat
    BY <1>2, TicksFinite
  <1>5. Covers(ev, n, t)
    BY <1>1 DEF Covers
  <1>6. /\ Counted(acc, t) <= ran + AdjustedBy(ev)
        /\ OpenedTwice(ev) \/ Counted(acc, t) = ran + AdjustedBy(ev)
    BY <1>3, <1>4, <1>r, <1>5, AlwaysExact DEF Exact
  <1>7. acc \in Accs
    BY <1>1, ReplayIsRecursive
  <1>8. Counted(acc, t) \in Int
    BY <1>7 DEF Accs, Counted
  <1>9. computeElapsed(ev, t) = Floor(Counted(acc, t))
    BY DEF computeElapsed, Counted
  <1>11. ran + AdjustedBy(ev) \in Int
    BY <1>4, <1>r
  <1>12. /\ Floor(Counted(acc, t)) <= Floor(ran + AdjustedBy(ev))
         /\ OpenedTwice(ev) \/ Floor(Counted(acc, t)) = Floor(ran + AdjustedBy(ev))
    BY <1>6, <1>8, <1>11, FloorMonotone
  <1> QED
    BY <1>9, <1>12

-----------------------------------------------------------------------------
(* The histories *)

\* ORDER BY created_at: the event goes in somewhere, after what is no later
\* and before what is.
LEMMA InsertPlaces ==
    ASSUME NEW ev \in Histories, NEW e \in EventSet
    PROVE  \E k \in 0 .. Len(ev) :
               /\ Insert(ev, e) \in Seq(EventSet) /\ Len(Insert(ev, e)) = Len(ev) + 1
               /\ \A i \in 1 .. k : Insert(ev, e)[i] = ev[i] /\ ev[i].at <= e.at
               /\ Insert(ev, e)[k + 1] = e
               /\ \A i \in k + 2 .. Len(ev) + 1 : Insert(ev, e)[i] = ev[i - 1] /\ e.at < ev[i - 1].at
  <1> DEFINE n == Len(ev)
             D == {i \in DOMAIN ev : ev[i].at <= e.at}
             T == {i \in 0 .. n : \A j \in i + 1 .. n : e.at < ev[j].at}
  <1>1. /\ ev \in Seq(EventSet) /\ n \in Nat /\ DOMAIN ev = 1 .. n
        /\ \A i, j \in DOMAIN ev : i <= j => ev[i].at <= ev[j].at
    BY DEF Histories
  <1>2. e.at \in Nat /\ \A i \in 1 .. n : ev[i].at \in Nat
    <2>1. \A x \in EventSet : x.at \in Nat
      BY DEF EventSet
    <2> QED
      BY <1>1, <2>1
  <1>3. n \in T
    BY <1>1
  <1>4. PICK k \in T : \A m \in T : k <= m
    <2>1. T \subseteq Nat /\ T # {}
      BY <1>3
    <2> HIDE DEF T
    <2> QED
      BY <2>1, LeastNumber
  <1>5. \A i \in 1 .. k : ev[i].at <= e.at
    <2>1. CASE k = 0
      BY <2>1
    <2>2. CASE k # 0
      <3>1. k - 1 \in 0 .. n /\ k - 1 \notin T
        BY <1>4, <2>2
      <3>2. PICK j \in k .. n : ~ (e.at < ev[j].at)
        BY <3>1
      <3>3. j = k
        BY <1>4, <3>2
      <3> QED
        BY <1>1, <1>2, <1>4, <3>2, <3>3
    <2> QED
      BY <2>1, <2>2
  <1>6. D = 1 .. k
    <2>1. \A j \in k + 1 .. n : ~ (ev[j].at <= e.at)
      BY <1>2, <1>4
    <2> QED
      BY <1>1, <1>5, <2>1
  <1>7. Cardinality(D) = k
    <2>1. 1 \in Int /\ k \in Int /\ k >= 0
      OBVIOUS
    <2>2. Cardinality(1 .. k) = IF 1 > k THEN 0 ELSE k - 1 + 1
      BY <2>1, FS_Interval
    <2> HIDE DEF D
    <2> QED
      BY <1>6, <2>1, <2>2
  <1>8. Insert(ev, e) = SubSeq(ev, 1, k) \o <<e>> \o SubSeq(ev, k + 1, n)
    <2>1. Insert(ev, e) = InsertAt(ev, 1 + k, e)
      BY <1>7, Zenon DEF Insert
    <2>2. InsertAt(ev, 1 + k, e) = SubSeq(ev, 1, (1 + k) - 1) \o <<e>> \o SubSeq(ev, 1 + k, n)
      BY Zenon DEF InsertAt
    <2>3. (1 + k) - 1 = k /\ 1 + k = k + 1
      OBVIOUS
    <2> QED
      BY <2>1, <2>2, <2>3, Zenon
  <1> DEFINE left == SubSeq(ev, 1, k)
             right == SubSeq(ev, k + 1, n)
  <1>9. /\ left \in Seq(EventSet) /\ Len(left) = k /\ \A i \in 1 .. k : left[i] = ev[i]
        /\ right \in Seq(EventSet) /\ Len(right) = n - k
        /\ \A i \in 1 .. n - k : right[i] = ev[k + i]
    <2>1. 1 \in 1 .. n + 1 /\ k \in 1 - 1 .. n /\ k + 1 \in 1 .. n + 1 /\ n \in (k + 1) - 1 .. n
      BY <1>1
    <2>0. k \in 0 .. n
      OBVIOUS
    <2>2. left \in Seq(EventSet) /\ Len(left) = k /\ \A i \in 1 .. k : left[i] = ev[i]
      BY <1>1, <2>1, SubSeqProperties
    <2>3. /\ right \in Seq(EventSet) /\ Len(right) = IF k + 1 <= n THEN n - (k + 1) + 1 ELSE 0
          /\ \A i \in 1 .. n - (k + 1) + 1 : right[i] = ev[(k + 1) + i - 1]
      BY <1>1, <2>1, SubSeqProperties
    <2> HIDE DEF right, left, T
    <2>4. n - (k + 1) + 1 = n - k /\ \A i \in 1 .. n - k : (k + 1) + i - 1 = k + i
      BY <1>1, <2>1
    <2>5. Len(right) = n - k
      <3> HIDE DEF n
      <3>0. n \in Int /\ k \in Int /\ k <= n
        BY <1>1, <2>0
      <3>1. CASE k + 1 <= n
        BY <2>3, <3>0, <3>1
      <3>2. CASE ~ (k + 1 <= n)
        BY <2>3, <3>0, <3>2
      <3> QED
        BY <3>1, <3>2
    <2>6. \A i \in 1 .. n - k : right[i] = ev[k + i]
      <3> TAKE i \in 1 .. n - k
      <3>1. i \in 1 .. n - (k + 1) + 1 /\ (k + 1) + i - 1 = k + i
        BY <2>4
      <3>2. right[i] = ev[(k + 1) + i - 1]
        BY <2>3, <3>1
      <3> QED
        BY <3>1, <3>2
    <2> QED
      BY <2>2, <2>3, <2>5, <2>6
  <1> HIDE DEF left, right, T
  <1>k. k \in 0 .. n
    BY DEF T
  <1> DEFINE start == left \o <<e>>
  <1>10. /\ start \in Seq(EventSet) /\ Len(start) = k + 1
         /\ \A i \in 1 .. k : start[i] = ev[i]
         /\ start[k + 1] = e
    BY <1>9, <1>k
  <1> HIDE DEF start
  <1>11. /\ start \o right \in Seq(EventSet) /\ Len(start \o right) = n + 1
         /\ \A i \in 1 .. k + 1 : (start \o right)[i] = start[i]
         /\ \A i \in k + 2 .. n + 1 : (start \o right)[i] = right[i - (k + 1)]
    BY <1>1, <1>9, <1>10, <1>k
  <1>12. Insert(ev, e) = start \o right
    BY <1>8 DEF start, left, right
  <1>13. \A i \in k + 2 .. n + 1 : right[i - (k + 1)] = ev[i - 1] /\ e.at < ev[i - 1].at
    <2> TAKE i \in k + 2 .. n + 1
    <2>1. i - (k + 1) \in 1 .. n - k /\ k + (i - (k + 1)) = i - 1 /\ i - 1 \in k + 1 .. n
      BY <1>1, <1>k
    <2> QED
      BY <1>4, <1>9, <2>1 DEF T
  <1> DEFINE new == Insert(ev, e)
  <1> HIDE DEF new
  <1>14. /\ new \in Seq(EventSet) /\ Len(new) = n + 1
         /\ \A i \in 1 .. k : new[i] = ev[i] /\ ev[i].at <= e.at
         /\ new[k + 1] = e
         /\ \A i \in k + 2 .. n + 1 : new[i] = ev[i - 1] /\ e.at < ev[i - 1].at
    BY <1>1, <1>5, <1>10, <1>11, <1>12, <1>13, <1>k DEF new
  <1> QED
    BY <1>14, <1>k DEF new

\* A history stays one, whenever the event is said to have happened.
LEMMA InsertKeepsHistory ==
    ASSUME NEW ev \in Histories, NEW e \in EventSet, e.type # "adjust" => e.delta = 0,
           NEW t \in Nat, e.at <= t, \A i \in DOMAIN ev : ev[i].at <= t
    PROVE  /\ Insert(ev, e) \in Histories
           /\ \A i \in DOMAIN Insert(ev, e) : Insert(ev, e)[i].at <= t
  <1> DEFINE n == Len(ev)
             new == Insert(ev, e)
  <1>1. /\ ev \in Seq(EventSet) /\ n \in Nat /\ DOMAIN ev = 1 .. n
        /\ \A i, j \in DOMAIN ev : i <= j => ev[i].at <= ev[j].at
        /\ \A i \in DOMAIN ev : ev[i].type # "adjust" => ev[i].delta = 0
    BY DEF Histories
  <1> HIDE DEF new
  <1>2. PICK k \in 0 .. n :
            /\ new \in Seq(EventSet) /\ Len(new) = n + 1
            /\ \A i \in 1 .. k : new[i] = ev[i] /\ ev[i].at <= e.at
            /\ new[k + 1] = e
            /\ \A i \in k + 2 .. n + 1 : new[i] = ev[i - 1] /\ e.at < ev[i - 1].at
    BY InsertPlaces DEF new
  <1>3. /\ e.at \in Nat /\ \A i \in 1 .. n : ev[i].at \in Nat
    <2>1. \A x \in EventSet : x.at \in Nat
      BY DEF EventSet
    <2> QED
      BY <1>1, <2>1
  <1>4. DOMAIN new = 1 .. n + 1
    BY <1>2
  <1>5. ASSUME NEW i \in 1 .. n + 1
        PROVE  /\ new[i].type # "adjust" => new[i].delta = 0
               /\ new[i].at <= t
    <2>1. CASE i \in 1 .. k
      BY <1>1, <1>2, <2>1
    <2>2. CASE i = k + 1
      BY <1>2, <2>2
    <2>3. CASE i \in k + 2 .. n + 1
      <3>1. i - 1 \in 1 .. n
        BY <2>3
      <3> QED
        BY <1>1, <1>2, <2>3, <3>1
    <2> QED
      BY <2>1, <2>2, <2>3
  <1>6. ASSUME NEW i \in 1 .. n + 1, NEW j \in 1 .. n + 1, i <= j PROVE new[i].at <= new[j].at
    <2>1. CASE i \in 1 .. k
      <3>1. CASE j \in 1 .. k
        BY <1>1, <1>2, <1>6, <2>1, <3>1
      <3>2. CASE j = k + 1
        BY <1>2, <2>1, <3>2
      <3>3. CASE j \in k + 2 .. n + 1
        <4>1. i \in 1 .. n /\ j - 1 \in 1 .. n /\ i <= j - 1
          BY <2>1, <3>3
        <4> QED
          BY <1>1, <1>2, <2>1, <3>3, <4>1
      <3> QED
        BY <3>1, <3>2, <3>3
    <2>2. CASE i = k + 1
      <3>1. j = k + 1 \/ j \in k + 2 .. n + 1
        BY <1>6, <2>2
      <3>2. CASE j = k + 1
        BY <1>2, <1>3, <2>2, <3>2
      <3>3. CASE j \in k + 2 .. n + 1
        <4>1. j - 1 \in 1 .. n
          BY <3>3
        <4> QED
          BY <1>2, <1>3, <2>2, <3>3, <4>1
      <3> QED
        BY <3>1, <3>2, <3>3
    <2>3. CASE i \in k + 2 .. n + 1
      <3>1. j \in k + 2 .. n + 1 /\ i - 1 \in 1 .. n /\ j - 1 \in 1 .. n /\ i - 1 <= j - 1
        BY <1>6, <2>3
      <3> QED
        BY <1>1, <1>2, <2>3, <3>1
    <2> QED
      BY <2>1, <2>2, <2>3
  <1>7. new \in Histories /\ \A i \in DOMAIN new : new[i].at <= t
    BY <1>2, <1>4, <1>5, <1>6 DEF Histories
  <1> QED
    BY <1>7 DEF new

-----------------------------------------------------------------------------
(* The records *)

\* The events of a history have the types TypeOK asks for.
LEMMA EventsTyped ==
    ASSUME NEW ev \in Histories, NEW t \in Nat, \A i \in DOMAIN ev : ev[i].at <= t
    PROVE  \A e \in ToSet(ev) :
               e.type \in Opens \cup Closes \cup {"adjust"} /\ e.at \in 0 .. t /\ e.delta \in Int
  <1> SUFFICES ASSUME NEW i \in DOMAIN ev
               PROVE  /\ ev[i].type \in Opens \cup Closes \cup {"adjust"}
                      /\ ev[i].at \in 0 .. t /\ ev[i].delta \in Int
    BY DEF ToSet
  <1>1. ev[i] \in EventSet
    BY DEF Histories
  <1> QED
    BY <1>1 DEF EventSet

\* An event has a hour and, unless it is an adjustment, no minutes.
LEMMA EventTyped ==
    ASSUME NEW type \in Opens \cup Closes \cup {"adjust"}, NEW at \in Nat, NEW delta \in Int,
           type # "adjust" => delta = 0
    PROVE  /\ Event(type, at, delta) \in EventSet
           /\ Event(type, at, delta).type # "adjust" => Event(type, at, delta).delta = 0
           /\ Event(type, at, delta).at = at
  BY DEF Event, EventSet

\* The hours the requests have taken.
HoursInv == \A r \in Requests : req[r].pc \notin {"idle", "due"} => req[r].at <= now

\* A step that writes no event.
LEMMA HistoryUntouched ==
    ASSUME HistoryInv, UNCHANGED events, now \in Nat, now' \in Nat, now <= now', HoursInv'
    PROVE  HistoryInv'
  <1>1. \A s \in Sessions : events[s] \in Seq(EventSet)
    BY DEF HistoryInv, Histories
  <1>2. ASSUME NEW s \in Sessions, NEW i \in DOMAIN events[s] PROVE events[s][i].at <= now'
    <2>1. events[s][i] \in EventSet
      BY <1>1
    <2>2. events[s][i].at \in Nat
      BY <2>1 DEF EventSet
    <2> QED
      BY <2>2 DEF HistoryInv
  <1> QED
    BY <1>2 DEF HistoryInv, HoursInv

\* A step that writes one.
LEMMA HistoryGrows ==
    ASSUME HistoryInv, now \in Nat, UNCHANGED now, HoursInv',
           NEW s \in Sessions, NEW e \in EventSet, e.type # "adjust" => e.delta = 0, e.at <= now,
           events' = [events EXCEPT ![s] = Insert(events[s], e)]
    PROVE  HistoryInv'
  <1> DEFINE new == Insert(events[s], e)
  <1>1. new \in Histories /\ \A i \in DOMAIN new : new[i].at <= now
    BY InsertKeepsHistory DEF HistoryInv
  <1> HIDE DEF new
  <1>2. events' = [events EXCEPT ![s] = new]
    BY DEF new
  <1> QED
    BY <1>1, <1>2 DEF HistoryInv, HoursInv

\* A request takes an hour that has come.
LEMMA HoursKept ==
    ASSUME HistoryInv, now \in Nat, UNCHANGED now, req \in [Requests -> Reqs],
           NEW r \in Requests, NEW q, req' = [req EXCEPT ![r] = q],
           q.pc \notin {"idle", "due"} => q.at <= now
    PROVE  HoursInv'
  BY DEF HistoryInv, HoursInv

LEMMA InitRecord == Init => RecordInv
  <1> SUFFICES ASSUME Init PROVE RecordInv
    OBVIOUS
  <1>1. <<>> \in Histories
    BY DEF Histories
  <1>2. events \in [Sessions -> Histories] /\ \A s \in Sessions : DOMAIN events[s] = {}
    BY <1>1 DEF Init
  <1>3. HistoryInv
    BY <1>2 DEF Init, HistoryInv, Idle
  <1>4. TypeOK
    <2>1. \A s \in Sessions : ToSet(events[s]) = {}
      BY DEF Init, ToSet
    <2>2. req \in [Requests -> Reqs]
      BY DEF Init, Reqs
    <2>3. session \in [Sessions -> [status : Statuses, start : Times, end : Ends \cup {Never}]]
      BY ConstantsAssumption DEF Init, Statuses, Times
    <2> QED
      BY <2>1, <2>2, <2>3, ConstantsAssumption DEF Init, TypeOK, Times
  <1> QED
    BY <1>3, <1>4 DEF RecordInv

\* Everything but the requests, the money and the events.
SmallTypes ==
    /\ session \in [Sessions -> [status : Statuses, start : Times, end : Ends \cup {Never}]]
    /\ charged \in Nat /\ debits \in [Sessions -> Nat]
    /\ ops \in 0 .. MaxOps /\ faults \in 0 .. MaxFaults

\* No step breaks the invariant of the histories.
LEMMA StepKeepsRecord == IInv /\ IInv' /\ RecordInv /\ [Next]_vars => RecordInv'
  <1> SUFFICES ASSUME IInv, IInv', RecordInv, [Next]_vars PROVE RecordInv'
    OBVIOUS
  <1> USE ConstantsAssumption
  <1>t. /\ now \in Times /\ now \in Nat /\ now' \in Times /\ now' \in Nat
        /\ req \in [Requests -> Reqs] /\ req' \in [Requests -> Reqs]
    BY DEF IInv, MoneyInv, Times
  <1>h. HistoryInv /\ SmallTypes
    BY DEF RecordInv, TypeOK, SmallTypes
  <1>g. ASSUME SmallTypes', HistoryInv' PROVE RecordInv'
    <2>1. \A s \in Sessions : \A e \in ToSet(events'[s]) :
              e.type \in Opens \cup Closes \cup {"adjust"} /\ e.at \in 0 .. now' /\ e.delta \in Int
      BY <1>t, <1>g, EventsTyped DEF HistoryInv
    <2>2. MoneyInv'
      BY DEF IInv
    <2>3. TypeOK'
      BY <1>g, <2>1, <2>2 DEF TypeOK, MoneyInv, SmallTypes
    <2> QED
      BY <1>g, <2>3 DEF RecordInv
  <1>i. Idle.pc = "idle"
    BY DEF Idle
  <1>1. CASE Tick
    <2>1. now' = now + 1 /\ UNCHANGED <<session, events, money, req, ops, faults>>
      BY <1>1 DEF Tick
    <2>2. HoursInv'
      <3>1. ASSUME NEW r \in Requests, req[r].pc \notin {"idle", "due"} PROVE req[r].at <= now'
        <4>1. req[r].at \in Times
          BY <1>t, <3>1 DEF Reqs, Idle, InSession
        <4> QED
          BY <1>t, <1>h, <2>1, <3>1, <4>1 DEF HistoryInv, Times
      <3> QED
        BY <2>1, <3>1 DEF HoursInv
    <2>3. HistoryInv'
      BY <1>t, <1>h, <2>1, <2>2, HistoryUntouched
    <2> QED
      BY <1>g, <1>h, <2>1, <2>3 DEF SmallTypes, money
  <1>2. ASSUME NEW m \in Credits, addHourPurchase(m) PROVE RecordInv'
    <2>1. HistoryInv'
      BY <1>2, <1>t, <1>h, HistoryUntouched DEF addHourPurchase, HoursInv, HistoryInv
    <2>2. SmallTypes'
      BY <1>2, <1>h DEF addHourPurchase, Ask, SmallTypes
    <2> QED
      BY <1>g, <2>1, <2>2
  <1>3. ASSUME NEW s \in Sessions, NEW start \in Starts \cup {now}, NEW end \in Ends \cup {Never},
               startHourSession(s, start, end)
        PROVE  RecordInv'
    <2>1. start \in Times /\ start \in Nat
      BY <1>t DEF Times
    <2>2. SmallTypes'
      <3> DEFINE row == [status |-> IF start > now THEN "scheduled" ELSE "active",
                         start |-> start, end |-> end]
      <3>1. row \in [status : Statuses, start : Times, end : Ends \cup {Never}]
        BY <2>1 DEF Statuses
      <3> HIDE DEF row
      <3>2. session' = [session EXCEPT ![s] = row] /\ UNCHANGED <<money, ops, faults>>
        BY <1>3 DEF startHourSession, row
      <3> QED
        BY <1>h, <3>1, <3>2 DEF SmallTypes, money
    <2>3. HoursInv' /\ UNCHANGED now
      BY <1>3, <1>h DEF startHourSession, HoursInv, HistoryInv
    <2>4. CASE start > now
      <3>1. UNCHANGED events
        BY <1>3, <1>h, <2>4 DEF startHourSession, HistoryInv
      <3>2. HistoryInv'
        BY <1>t, <1>h, <2>3, <3>1, HistoryUntouched
      <3> QED
        BY <1>g, <2>2, <3>2
    <2>5. CASE ~ (start > now)
      <3> DEFINE ev == <<Event("start", start, 0)>>
      <3>1. Event("start", start, 0) \in EventSet /\ Event("start", start, 0).at = start
            /\ Event("start", start, 0).delta = 0
        BY <2>1 DEF Event, EventSet, Opens
      <3>2. ev \in Seq(EventSet) /\ DOMAIN ev = {1} /\ ev[1] = Event("start", start, 0)
        BY <3>1
      <3>3. start <= now
        BY <1>t, <2>1, <2>5
      <3> HIDE DEF ev
      <3>4. ev \in Histories /\ \A i \in DOMAIN ev : ev[i].at <= now
        BY <2>1, <3>1, <3>2, <3>3 DEF Histories
      <3>5. events' = [events EXCEPT ![s] = ev]
        BY <1>3, <2>5 DEF startHourSession, ev
      <3>6. HistoryInv'
        BY <1>h, <2>3, <3>4, <3>5 DEF HistoryInv, HoursInv
      <3> QED
        BY <1>g, <2>2, <3>6
    <2> QED
      BY <2>4, <2>5
  <1>4. ASSUME NEW s \in Sessions, NEW d \in Adjusts, adjustHourSession(s, d) PROVE RecordInv'
    <2>1. SmallTypes'
      BY <1>4, <1>h DEF adjustHourSession, Ask, SmallTypes, money
    <2>2. HoursInv'
      BY <1>4, <1>h DEF adjustHourSession, HoursInv, HistoryInv
    <2> DEFINE e == Event("adjust", now, d)
    <2>3. e \in EventSet /\ (e.type # "adjust" => e.delta = 0) /\ e.at = now
      BY <1>t, EventTyped
    <2> HIDE DEF e
    <2>4. UNCHANGED now /\ events' = [events EXCEPT ![s] = Insert(events[s], e)] /\ e.at <= now
      BY <1>4, <1>t, <2>3 DEF adjustHourSession, e
    <2>5. HistoryInv'
      BY <1>h, <1>t, <2>2, <2>3, <2>4, HistoryGrows
    <2> QED
      BY <1>g, <2>1, <2>5
  <1>r. ASSUME NEW r \in Requests, NEW q, req' = [req EXCEPT ![r] = q],
               q.pc \notin {"idle", "due"} => q.at <= now,
               UNCHANGED <<now, session, events, money, faults>>, ops' \in 0 .. MaxOps
        PROVE  RecordInv'
    <2>1. HoursInv'
      BY <1>r, <1>t, <1>h, HoursKept
    <2>2. HistoryInv'
      BY <1>r, <1>t, <1>h, <2>1, HistoryUntouched
    <2> QED
      BY <1>r, <1>g, <1>h, <2>2 DEF SmallTypes, money
  <1>5. ASSUME NEW s \in Sessions, NEW r \in Requests, NEW op \in {"pause", "resume"},
               NEW at \in Times, AskTransition(r, s, op, at)
        PROVE  RecordInv'
    <2> DEFINE q == [pc |-> "asked", op |-> op, s |-> s, at |-> at]
    <2>1. q.at <= now /\ req' = [req EXCEPT ![r] = q] /\ ops' \in 0 .. MaxOps
      BY <1>5, <1>t, <1>h DEF AskTransition, Ask, SmallTypes
    <2>2. UNCHANGED <<now, session, events, money, faults>>
      BY <1>5 DEF AskTransition
    <2> QED
      BY <1>r, <2>1, <2>2
  <1>6. ASSUME NEW s \in Sessions, NEW r \in Requests, NEW at \in Times, AskEnd(r, s, at)
        PROVE  RecordInv'
    <2> DEFINE q == [pc |-> "ending", s |-> s, at |-> at]
    <2>1. q.at <= now /\ req' = [req EXCEPT ![r] = q] /\ ops' \in 0 .. MaxOps
      BY <1>6, <1>t, <1>h DEF AskEnd, Ask, SmallTypes
    <2>2. UNCHANGED <<now, session, events, money, faults>>
      BY <1>6 DEF AskEnd
    <2> QED
      BY <1>r, <2>1, <2>2
  <1>a. ASSUME NEW s, NEW status
        PROVE  AutoEnd(s, status).pc \notin {"idle", "due"} => AutoEnd(s, status).at <= now
    BY <1>t DEF AutoEnd, Idle
  <1>o. ops \in 0 .. MaxOps
    BY <1>h DEF SmallTypes
  <1>7. ASSUME NEW s \in Sessions, NEW r \in Requests, Poll(r, s) PROVE RecordInv'
    <2>1. PICK q : /\ req' = [req EXCEPT ![r] = q]
                   /\ q.pc \notin {"idle", "due"} => q.at <= now
      <3>1. [pc |-> "due", s |-> s].pc = "due"
        OBVIOUS
      <3> QED
        BY <1>7, <1>a, <3>1 DEF Poll
    <2>2. UNCHANGED <<now, session, events, money, ops, faults>>
      BY <1>7 DEF Poll
    <2> QED
      BY <1>o, <1>r, <2>1, <2>2
  <1>8. ASSUME NEW r \in Requests, Step(r) \/ Abort(r) PROVE RecordInv'
    <2>0. req[r].pc \notin {"idle", "due"} =>
              req[r].at <= now /\ req[r].at \in Times /\ req[r].s \in Sessions
      BY <1>t, <1>h DEF HistoryInv, Reqs, Idle, InSession
    <2>w. ASSUME NEW s \in Sessions, NEW type \in Opens \cup Closes, NEW at \in Nat, at <= now,
                 NEW q, req' = [req EXCEPT ![r] = q], q.pc \notin {"idle", "due"} => q.at <= now,
                 UNCHANGED now,
                 events' = [events EXCEPT ![s] = Insert(events[s], Event(type, at, 0))]
          PROVE  HistoryInv'
      <3> DEFINE e == Event(type, at, 0)
      <3>1. e \in EventSet /\ (e.type # "adjust" => e.delta = 0) /\ e.at = at
        BY EventTyped
      <3>2. HoursInv'
        BY <1>t, <1>h, <2>w, HoursKept
      <3>3. events' = [events EXCEPT ![s] = Insert(events[s], e)]
        BY <2>w
      <3> HIDE DEF e
      <3> QED
        BY <1>t, <1>h, <2>w, <3>1, <3>2, <3>3, HistoryGrows
    <2>1. CASE ReadTransition(r)
      <3> DEFINE q == IF session[req[r].s].status = From(req[r].op)
                      THEN [req[r] EXCEPT !.pc = "allowed"] ELSE Idle
      <3>1. req' = [req EXCEPT ![r] = q]
        BY <2>1, <1>t DEF ReadTransition
      <3>2. q.pc \notin {"idle", "due"} => q.at <= now
        <4>1. [req[r] EXCEPT !.pc = "allowed"].at = req[r].at
          BY <2>1, <1>t DEF ReadTransition, Reqs, Idle, InSession
        <4> QED
          BY <1>i, <2>0, <2>1, <4>1 DEF ReadTransition
      <3> HIDE DEF q
      <3> QED
        BY <1>o, <1>r, <2>1, <3>1, <3>2 DEF ReadTransition
    <2>2. CASE CommitTransition(r)
      <3>1. /\ req[r] \in [pc : {"asked", "allowed"}, op : {"pause", "resume"},
                           s : Sessions, at : Times]
            /\ req[r].at <= now
        BY <2>2, <1>t, <2>0 DEF CommitTransition, Reqs, Idle, InSession
      <3>2. req[r].op \in Opens \cup Closes /\ req[r].at \in Nat /\ To(req[r].op) \in Statuses
        BY <3>1 DEF Opens, Closes, Times, To, Statuses
      <3>3. HistoryInv'
        BY <2>2, <2>w, <1>i, <3>1, <3>2 DEF CommitTransition
      <3>4. SmallTypes'
        BY <2>2, <1>h, <3>1, <3>2 DEF CommitTransition, SmallTypes, money
      <3> QED
        BY <1>g, <3>3, <3>4
    <2>3. CASE ReadEnd(r)
      <3> DEFINE q == IF session[req[r].s].status = "ended"
                      THEN Idle ELSE [req[r] EXCEPT !.pc = "endable"]
      <3>1. req' = [req EXCEPT ![r] = q]
        BY <2>3, <1>t DEF ReadEnd
      <3>2. q.pc \notin {"idle", "due"} => q.at <= now
        <4>1. [req[r] EXCEPT !.pc = "endable"].at = req[r].at
          BY <2>3, <1>t DEF ReadEnd, Reqs, Idle, InSession
        <4> QED
          BY <1>i, <2>0, <2>3, <4>1 DEF ReadEnd
      <3> HIDE DEF q
      <3> QED
        BY <1>o, <1>r, <2>3, <3>1, <3>2 DEF ReadEnd
    <2>4. CASE ReadElapsed(r)
      <3>1. PICK elapsed \in 0 .. MaxElapsed : req' = [req EXCEPT ![r] =
                [pc |-> "timed", s |-> req[r].s, at |-> req[r].at, elapsed |-> elapsed]]
        BY <2>4, <1>t DEF ReadElapsed
      <3> DEFINE q == [pc |-> "timed", s |-> req[r].s, at |-> req[r].at, elapsed |-> elapsed]
      <3>2. q.at <= now
        BY <2>0, <2>4 DEF ReadElapsed
      <3> QED
        BY <1>o, <1>r, <2>4, <3>1, <3>2 DEF ReadElapsed
    <2>5. CASE LockClient(r)
      <3> DEFINE q == [pc |-> "locked", s |-> req[r].s, at |-> req[r].at,
                       elapsed |-> req[r].elapsed, balance |-> balance]
      <3>1. req' = [req EXCEPT ![r] = q] /\ q.at <= now
        BY <2>0, <2>5, <1>t DEF LockClient
      <3> QED
        BY <1>o, <1>r, <2>5, <3>1 DEF LockClient
    <2>6. CASE CommitEnd(r)
      <3>1. req[r] \in [pc : {"locked"}, s : Sessions, at : Times,
                        elapsed : 0 .. MaxElapsed, balance : Int]
        BY <2>6, <1>t DEF CommitEnd, Reqs, Idle, InSession
      <3>2. req[r].at <= now /\ req[r].at \in Nat /\ "end" \in Opens \cup Closes
        BY <2>0, <2>6, <3>1 DEF CommitEnd, Closes, Times
      <3> DEFINE m == elapsedMinutes(req[r].elapsed)
      <3>3. m \in Nat
        BY <3>1 DEF elapsedMinutes
      <3> HIDE DEF m
      <3>4. /\ session' = [session EXCEPT ![req[r].s].status = "ended"]
            /\ charged' = charged + m
            /\ debits' = [debits EXCEPT ![req[r].s] = @ + 1]
            /\ UNCHANGED <<ops, faults>>
        BY <2>6 DEF CommitEnd, m
      <3>5. SmallTypes'
        BY <1>h, <3>1, <3>3, <3>4 DEF SmallTypes, Statuses
      <3>6. HistoryInv'
        BY <2>6, <2>w, <1>i, <3>1, <3>2 DEF CommitEnd
      <3> QED
        BY <1>g, <3>5, <3>6
    <2>7. CASE ReadAutoStart(r)
      <3> DEFINE q == IF session[req[r].s].status = "scheduled"
                      THEN [pc |-> "starting", s |-> req[r].s, at |-> now]
                      ELSE AutoEnd(req[r].s, session[req[r].s].status)
      <3>1. req' = [req EXCEPT ![r] = q]
        BY <2>7, <1>t DEF ReadAutoStart
      <3>2. q.pc \notin {"idle", "due"} => q.at <= now
        BY <1>t, <1>a
      <3> HIDE DEF q
      <3> QED
        BY <1>o, <1>r, <2>7, <3>1, <3>2 DEF ReadAutoStart
    <2>8. CASE CommitAutoStart(r)
      <3>1. /\ req[r].s \in Sessions /\ req[r].at \in Nat /\ req[r].at <= now
            /\ "start" \in Opens \cup Closes
        BY <2>0, <2>8 DEF CommitAutoStart, Opens, Times
      <3>2. HistoryInv'
        <4> DEFINE q == AutoEnd(req[r].s, "active")
        <4>1. q.pc \notin {"idle", "due"} => q.at <= now
          BY <1>a
        <4>2. /\ req' = [req EXCEPT ![r] = q] /\ UNCHANGED now
              /\ events' = [events EXCEPT ![req[r].s] =
                     Insert(events[req[r].s], Event("start", req[r].at, 0))]
          BY <2>8, <1>h DEF CommitAutoStart, HistoryInv
        <4> HIDE DEF q
        <4> QED
          BY <2>w, <3>1, <4>1, <4>2
      <3>3. SmallTypes'
        BY <2>8, <1>h, <3>1 DEF CommitAutoStart, SmallTypes, Statuses, money
      <3> QED
        BY <1>g, <3>2, <3>3
    <2>9. CASE Abort(r)
      <3>1. req' = [req EXCEPT ![r] = Idle] /\ UNCHANGED <<now, session, events, money, ops>>
        BY <2>9 DEF Abort
      <3>2. HoursInv'
        BY <1>i, <1>t, <1>h, <3>1, HoursKept
      <3>4. HistoryInv'
        BY <1>t, <1>h, <3>1, <3>2, HistoryUntouched
      <3>3. SmallTypes'
        BY <2>9, <1>h, <3>1 DEF Abort, SmallTypes, money
      <3> QED
        BY <1>g, <3>3, <3>4
    <2> QED
      BY <1>8, <2>1, <2>2, <2>3, <2>4, <2>5, <2>6, <2>7, <2>8, <2>9 DEF Step
  <1>9. CASE UNCHANGED vars
    <2>1. HistoryInv'
      BY <1>9, <1>t, <1>h, HistoryUntouched DEF vars, HoursInv, HistoryInv
    <2> QED
      BY <1>9, <1>g, <1>h, <2>1 DEF vars, SmallTypes, money
  <1> QED
    BY <1>1, <1>2, <1>3, <1>4, <1>5, <1>6, <1>7, <1>8, <1>9 DEF Next

\* The records of the sessions are well formed, their histories in order and
\* never ahead of the clock: the inductive invariant of the histories.
THEOREM RecordInductive == Spec => [](IInv /\ RecordInv)
  <1>1. Init => IInv /\ RecordInv
    BY InitInv, InitRecord
  <1>2. (IInv /\ RecordInv) /\ [Next]_vars => (IInv /\ RecordInv)'
    BY StepKeepsInv, StepKeepsRecord
  <1> QED
    BY <1>1, <1>2, PTL DEF Spec

\* Every row, event, request and counter keeps its type.
THEOREM TypeCorrect == Spec => []TypeOK
  <1>1. IInv /\ RecordInv => TypeOK
    BY DEF RecordInv
  <1> QED
    BY RecordInductive, <1>1, PTL

\* computeElapsedSeconds, whenever it is called now: it counts the time the
\* session ran and its adjustments, for every history requests can write, and
\* never more if two of them resumed it at once.
THEOREM ElapsedIsTrue == Spec => []ElapsedIsRunningTime
  <1>1. IInv /\ RecordInv => ElapsedIsRunningTime
    <2> SUFFICES ASSUME IInv, RecordInv, NEW s \in Sessions
                 PROVE  LET ev == events[s]
                            reference == Floor(Cardinality({t \in 0 .. now - 1 : RunsAt(ev, t)})
                                               + AdjustedBy(ev))
                        IN  /\ computeElapsed(ev, now) <= reference
                            /\ OpenedTwice(ev) \/ computeElapsed(ev, now) = reference
      BY DEF ElapsedIsRunningTime
    <2>1. now \in Nat
      BY ConstantsAssumption DEF IInv, MoneyInv, Times
    <2>2. events[s] \in Histories /\ \A i \in DOMAIN events[s] : events[s][i].at <= now
      BY DEF RecordInv, HistoryInv
    <2> QED
      BY <2>1, <2>2, ElapsedIsExact
  <1> QED
    BY RecordInductive, <1>1, PTL

=============================================================================
