------------------------------ MODULE LoanBook ------------------------------
(***************************************************************************)
(* What lending promises, whatever the collateral: every borrower has at   *)
(* most one loan, which is paid out in cash when it is booked, never grows *)
(* but by interest, and shrinks only against cash; the book always totals  *)
(* the loans.  SolLending and BtcLending implement it.                     *)
(***************************************************************************)
EXTENDS LendingMath

CONSTANT Borrowers

VARIABLES
    owed,          \* the scaled debt of each borrower
    book,          \* the lender's total of them
    index,         \* what a scaled unit has grown to, in units of 1/RAY
    cash           \* what the lender holds

bookVars == <<owed, book, index, cash>>

BookInit ==
    /\ owed = [b \in Borrowers |-> 0]
    /\ book = 0
    /\ index = RAY
    /\ cash \in Nat

\* The cash that leaves is what is booked, at the index of that moment.
Lend(b) ==
    /\ cash' < cash
    /\ owed[b] = 0
    /\ owed' = [owed EXCEPT ![b] = ToScaled(cash - cash', index')]
    /\ book' = book + owed'[b]
    /\ index' >= index

\* Cash comes in and one loan shrinks, by as much as the book does.
Settle(b) ==
    /\ cash' > cash
    /\ owed[b] > 0
    /\ owed'[b] \in 0..owed[b]
    /\ owed' = [owed EXCEPT ![b] = owed'[b]]
    /\ book' = book - (owed[b] - owed'[b])
    /\ index' >= index

\* The lender is given cash of its own.
Endow ==
    /\ cash' > cash
    /\ UNCHANGED <<owed, book, index>>

BookNext == Endow \/ \E b \in Borrowers : Lend(b) \/ Settle(b)

BookSpec == BookInit /\ [][BookNext]_bookVars
=============================================================================
