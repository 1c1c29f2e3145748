------------------------------- MODULE Ledger -------------------------------
(***************************************************************************)
(* What billing promises for a request, whatever holds, retries, refunds   *)
(* and concurrent requests come between: it is billed once, in one step,   *)
(* and its bill is exact and final.  BillingSession implements this.       *)
(***************************************************************************)
EXTENDS Integers

CONSTANTS Requests, Funds, Accounts, Actuals, ToolFees, ViolationFee

VARIABLE book    \* the state of every request's bill and its charges

Nothing == [a \in Accounts |-> 0]

\* n is charged to a funding source and t to the token.
On(f, n, t) == [a \in Accounts |-> IF a = f THEN n ELSE IF a = "token" THEN t ELSE 0]

Init == book = [r \in Requests |-> [state |-> "open", charges |-> Nothing]]

Close(r, state, c) ==
    /\ book[r].state = "open"
    /\ book' = [book EXCEPT ![r] = [state |-> state, charges |-> c]]

\* The real price, on the funding source and, if it is charged, on the token.
Charge(r) ==
    \E f \in Funds, n \in Actuals : \E t \in {0, n} :
        Close(r, "charged", On(f, n, t))

\* A token subscription: tools are paid by the wallet.
ChargeTools(r) ==
    \E n \in Actuals, u \in ToolFees :
        Close(r, "charged", [On("subscription", n, 0) EXCEPT !["wallet"] = u])

\* Nothing at all, or the fee for rejected content.
Release(r) == Close(r, "free", Nothing)

Fine(r) ==
    \E f \in Funds, t \in {0, ViolationFee} :
        Close(r, "fined", On(f, ViolationFee, t))

\* The subscription could not pay the rest of the price: the amount reserved
\* before the request was sent is kept.
Keep(r) ==
    \E p \in Actuals : \E n \in 1..(p - 1) : \E t \in {0, n} :
        Close(r, "short", On("subscription", n, t))

\* A database call failed: no promise about this bill.
Dispute(r) == Close(r, "disputed", Nothing)

Next ==
    \E r \in Requests :
        \/ Charge(r) \/ ChargeTools(r)
        \/ Release(r) \/ Fine(r)
        \/ Keep(r)
        \/ Dispute(r)

Spec == Init /\ [][Next]_book
=============================================================================
