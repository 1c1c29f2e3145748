------------------------- MODULE BillingLedgerProofs -------------------------
(***************************************************************************)
(* Proofs about BillingSession that concern more than one request or more  *)
(* than one step: BillingSession implements Ledger, and the wallet's debt  *)
(* is usage.  Both rest on the inductive invariant of BillingSessionProofs *)
(* and on EndsConsistent.                                                  *)
(***************************************************************************)
EXTENDS BillingSessionProofs, FiniteSetTheorems

\* What a step of request r does: the other requests are not touched, the
\* session stays consistent, a failed call is never forgotten, and either
\* what was taken from the wallet was there or it counts as not asked for.
Steps(r) ==
    /\ prof' = prof
    /\ \A q \in Requests \ {r} : sess'[q] = sess[q] /\ paid'[q] = paid[q]
    /\ EndConsistent(prof[r], sess'[r])
    /\ sess'[r].clean => sess[r].clean
    /\ \/ acct'["wallet"] >= 0
       \/ acct'["wallet"] + Unasked(prof[r], sess'[r])
            >= acct["wallet"] + Unasked(prof[r], sess[r])

-----------------------------------------------------------------------------
(* Sessions.                                                               *)

\* What was not asked for is an amount.
LEMMA UnaskedType ==
  ASSUME NEW p \in ProfileSet, NEW s \in Session, NEW m, Good(p, s, m),
         s.extra <= s.pre
  PROVE  Unasked(p, s) \in Nat
<1>1. /\ s.consumed \in Nat /\ s.pre \in Nat /\ s.extra \in Nat /\ s.tool \in Nat
      /\ s.actual \in Nat /\ s.quota \in Nat /\ ViolationFee \in Nat
  BY BillingAssumption DEF Session
<1>2. s.src = "wallet" => s.consumed >= s.pre - s.extra
  <2>1. CASE s.pc \in BeforeHold
    BY <1>1, <2>1 DEF Good, HoldConsistent
  <2>2. CASE s.pc \notin BeforeHold
    BY <1>1, <2>2 DEF Good, HoldConsistent, Raising
  <2> QED
    BY <2>1, <2>2
<1> QED
  BY <1>1, <1>2 DEF Unasked

\* The same without the invariant: it is a number.
LEMMA UnaskedInt ==
  ASSUME NEW p \in ProfileSet, NEW s \in Session
  PROVE  Unasked(p, s) \in Int
<1>1. /\ s.consumed \in Nat /\ s.pre \in Nat /\ s.extra \in Nat /\ s.tool \in Nat
      /\ s.actual \in Nat /\ ViolationFee \in Nat
  BY BillingAssumption DEF Session
<1> QED
  BY <1>1 DEF Unasked

\* A session that holds nothing yet has taken nothing.
LEMMA NothingTaken ==
  ASSUME NEW p \in ProfileSet, NEW s \in Session, NEW m, Good(p, s, m),
         s.pc \in BeforeHold
  PROVE  Unasked(p, s) = 0 /\ EndConsistent(p, s)
<1>1. /\ s.pre = 0 /\ s.consumed = 0 /\ s.extra = 0 /\ ~s.fundingSettled
      /\ ~s.settled /\ s.fees = {} /\ s.pc # "done"
      /\ s.pc \notin {"settle", "stoken", "tool"}
  BY DEF Good, HoldConsistent, CommitConsistent, BeforeHold, AfterRefund
<1> QED
  BY <1>1 DEF Unasked, EndConsistent

\* The money of two sessions is the same.
SameMoney(s, n) ==
    /\ n.src = s.src /\ n.fundingSettled = s.fundingSettled
    /\ n.settled = s.settled /\ n.actual = s.actual /\ n.tool = s.tool
    /\ n.pre = s.pre /\ n.consumed = s.consumed /\ n.extra = s.extra
    /\ "fund" \in n.rok <=> "fund" \in s.rok
    /\ "fund" \in n.fees <=> "fund" \in s.fees
    /\ n.fees = {} <=> s.fees = {}

LEMMA SameMoneyUnasked ==
  ASSUME NEW p, NEW s, NEW n, SameMoney(s, n)
  PROVE  Unasked(p, n) = Unasked(p, s)
  BY DEF SameMoney, Unasked

\* What the invariants say of request r before and after the step.
LEMMA Facts ==
  ASSUME IInv, IInv', EndsConsistent, NEW r \in Requests, prof' = prof
  PROVE  /\ prof[r] \in ProfileSet /\ sess[r] \in Session
         /\ Good(prof[r], sess[r], paid[r]) /\ EndConsistent(prof[r], sess[r])
         /\ sess'[r] \in Session /\ Good(prof[r], sess'[r], paid'[r])
         /\ Unasked(prof[r], sess[r]) \in Int /\ Unasked(prof[r], sess'[r]) \in Int
         /\ acct \in [Accounts -> Int] /\ acct' \in [Accounts -> Int]
<1>1. /\ prof[r] \in ProfileSet /\ sess[r] \in Session
      /\ Good(prof[r], sess[r], paid[r])
  BY GoodOf
<1>2. sess'[r] \in Session /\ Good(prof[r], sess'[r], paid'[r])
  <2>1. /\ TypeOK' /\ SessionsConsistent' /\ BooksMatch'
    BY DEF IInv
  <2>2. sess'[r] \in Session
    BY <2>1 DEF TypeOK
  <2>3. /\ HoldConsistent(prof[r], sess'[r]) /\ CommitConsistent(prof[r], sess'[r])
        /\ RefundConsistent(prof[r], sess'[r])
        /\ TokenFloor(prof[r], sess'[r], paid'[r])
    BY <2>1 DEF SessionsConsistent
  <2>4. BooksOf(prof[r], sess'[r], paid'[r])
    BY <2>1 DEF BooksMatch, BooksOf
  <2> QED
    BY <2>2, <2>3, <2>4 DEF Good
<1>3. acct \in [Accounts -> Int] /\ acct' \in [Accounts -> Int]
  BY DEF IInv, TypeOK
<1> QED
  BY <1>1, <1>2, <1>3, UnaskedInt DEF EndsConsistent

-----------------------------------------------------------------------------
(* The three shapes of a step.                                             *)

\* No account is touched.
LEMMA UpdateMoves ==
  ASSUME IInv, IInv', EndsConsistent, NEW r \in Requests, NEW n,
         Update(r, n), NoAdjust,
         EndConsistent(prof[r], n), n.clean => sess[r].clean,
         Unasked(prof[r], n) >= Unasked(prof[r], sess[r])
  PROVE  Steps(r)
<1>1. /\ prof' = prof /\ sess'[r] = n /\ acct' = acct /\ paid' = paid
      /\ \A q \in Requests \ {r} : sess'[q] = sess[q]
  BY DEF Update, NoAdjust, IInv, TypeOK
<1>2. /\ Unasked(prof[r], sess[r]) \in Int /\ Unasked(prof[r], n) \in Int
      /\ acct["wallet"] \in Int
  BY <1>1, Facts DEF Accounts, Funds
<1> QED
  BY <1>1, <1>2 DEF Steps

\* One account is charged k, or credited.
LEMMA AdjustMoves ==
  ASSUME IInv, IInv', EndsConsistent, NEW r \in Requests, NEW n,
         sess' = [sess EXCEPT ![r] = n], prof' = prof,
         NEW a \in Accounts, NEW k \in Int, Adjust(r, a, k),
         EndConsistent(prof[r], n), n.clean => sess[r].clean,
         \/ a # "wallet" /\ Unasked(prof[r], n) >= Unasked(prof[r], sess[r])
         \/ a = "wallet" /\ acct["wallet"] >= k
         \/ a = "wallet" /\ Unasked(prof[r], n) >= Unasked(prof[r], sess[r]) + k
  PROVE  Steps(r)
<1>1. /\ sess'[r] = n /\ \A q \in Requests \ {r} : sess'[q] = sess[q]
      /\ \A q \in Requests \ {r} : paid'[q] = paid[q]
  BY DEF Adjust, IInv, TypeOK
<1>2. /\ Unasked(prof[r], sess[r]) \in Int /\ Unasked(prof[r], n) \in Int
      /\ acct["wallet"] \in Int /\ acct'["wallet"] \in Int
  BY <1>1, Facts DEF Accounts, Funds
<1>3. acct'["wallet"] = IF a = "wallet" THEN acct["wallet"] - k ELSE acct["wallet"]
  BY Facts DEF Adjust, Left, Accounts, Funds
<1>4. \/ acct'["wallet"] >= 0
      \/ acct'["wallet"] + Unasked(prof[r], n)
           >= acct["wallet"] + Unasked(prof[r], sess[r])
  BY <1>2, <1>3
<1> QED
  BY <1>1, <1>4 DEF Steps

\* A database call fails without effect.
LEMMA FaultMoves ==
  ASSUME IInv, IInv', EndsConsistent, NEW r \in Requests, NEW n \in Session,
         Fault(r, n), n.extra <= n.pre, n.fees # {} => "fund" \in n.fees,
         n.pc \in {"settle", "stoken", "tool"} \/ n.settled =>
           n.actual \in Actuals
           /\ (TokenSubscription(prof[r]) => n.tool \in ToolFees),
         Unasked(prof[r], n) >= Unasked(prof[r], sess[r])
  PROVE  Steps(r)
<1> DEFINE n1 == [n EXCEPT !.clean = FALSE]
<1>1. SameMoney(n, n1) /\ ~n1.clean /\ n1.pc = n.pc
  BY DEF SameMoney, Session
<1>2. /\ prof' = prof /\ sess' = [sess EXCEPT ![r] = n1]
      /\ acct' = acct /\ paid' = paid
  BY DEF Fault, NoAdjust
<1> HIDE DEF n1
<1>3. sess'[r] = n1 /\ \A q \in Requests \ {r} : sess'[q] = sess[q]
  BY <1>2 DEF IInv, TypeOK
<1>4. EndConsistent(prof[r], n1)
  BY <1>1 DEF EndConsistent, SameMoney
<1>5. /\ Unasked(prof[r], sess[r]) \in Int /\ Unasked(prof[r], n1) \in Int
      /\ acct["wallet"] \in Int
  BY <1>2, <1>3, Facts DEF Accounts, Funds
<1>6. Unasked(prof[r], n1) = Unasked(prof[r], n)
  BY <1>1, SameMoneyUnasked
<1> QED
  BY <1>1, <1>2, <1>3, <1>4, <1>5, <1>6 DEF Steps

-----------------------------------------------------------------------------
(* Steps that leave the money of the session as it is.                     *)

\* The handler has no new price and has not ended without an error.
Quiet(s, n) ==
    /\ SameMoney(s, n)
    /\ n.clean => s.clean
    /\ n.pc \in {"settle", "stoken", "tool"} => s.pc = n.pc
    /\ n.pc = "done" => n.err \/ (s.pc = "done" /\ n.refunded = s.refunded
                                  /\ n.err = s.err)

LEMMA QuietMoves ==
  ASSUME IInv, IInv', EndsConsistent, NEW r \in Requests, NEW n,
         sess' = [sess EXCEPT ![r] = n], prof' = prof, Quiet(sess[r], n),
         NoAdjust \/ \E a \in Accounts \ {"wallet"}, k \in Int : Adjust(r, a, k)
  PROVE  Steps(r)
<1>1. EndConsistent(prof[r], sess[r]) /\ sess'[r] = n
  BY Facts DEF IInv, TypeOK
<1>2. EndConsistent(prof[r], n)
  BY <1>1 DEF EndConsistent, Quiet, SameMoney
<1>3. Unasked(prof[r], n) = Unasked(prof[r], sess[r])
  BY SameMoneyUnasked DEF Quiet
<1>4. /\ Unasked(prof[r], sess[r]) \in Int /\ acct["wallet"] \in Int
      /\ n.clean => sess[r].clean
  BY Facts DEF Accounts, Funds, Quiet
<1>5. CASE NoAdjust
  <2>1. /\ \A q \in Requests \ {r} : sess'[q] = sess[q] /\ paid'[q] = paid[q]
        /\ acct' = acct
    BY <1>5 DEF NoAdjust, IInv, TypeOK
  <2> QED
    BY <1>1, <1>2, <1>3, <1>4, <2>1 DEF Steps
<1>6. CASE \E a \in Accounts \ {"wallet"}, k \in Int : Adjust(r, a, k)
  <2>1. PICK a \in Accounts \ {"wallet"}, k \in Int : Adjust(r, a, k)
    BY <1>6
  <2>2. Unasked(prof[r], n) >= Unasked(prof[r], sess[r])
    BY <1>3, <1>4
  <2> QED
    BY <1>2, <1>4, <2>1, <2>2, AdjustMoves
<1> QED
  BY <1>5, <1>6

LEMMA QuietFault ==
  ASSUME IInv, IInv', EndsConsistent, NEW r \in Requests, NEW n \in Session,
         Fault(r, n), Quiet(sess[r], n)
  PROVE  Steps(r)
<1> DEFINE n1 == [n EXCEPT !.clean = FALSE]
<1>1. /\ n1.pc = n.pc /\ ~n1.clean /\ n1.err = n.err /\ n1.refunded = n.refunded
      /\ SameMoney(n, n1)
  BY DEF Session, SameMoney
<1>2. sess' = [sess EXCEPT ![r] = n1] /\ prof' = prof /\ NoAdjust
  BY DEF Fault
<1> HIDE DEF n1
<1>3. Quiet(sess[r], n1)
  BY <1>1 DEF Quiet, SameMoney
<1> QED
  BY <1>2, <1>3, QuietMoves

-----------------------------------------------------------------------------
(* Before anything is held: preConsume up to the funding source, its       *)
(* fallbacks and its rollback.                                             *)

\* Nothing is held before and after the step; at most the token is charged.
LEMMA EarlyMoves ==
  ASSUME IInv, IInv', EndsConsistent, NEW r \in Requests, NEW n,
         sess' = [sess EXCEPT ![r] = n], prof' = prof,
         sess[r].pc \in BeforeHold, n.pc \in BeforeHold,
         n.clean => sess[r].clean,
         NoAdjust \/ \E k \in Int : Adjust(r, "token", k)
  PROVE  Steps(r)
<1>1. sess'[r] = n
  BY DEF IInv, TypeOK
<1>2. /\ Unasked(prof[r], sess[r]) = 0 /\ Unasked(prof[r], n) = 0
      /\ EndConsistent(prof[r], n)
  BY <1>1, Facts, NothingTaken
<1>3. CASE NoAdjust
  <2>1. /\ \A q \in Requests \ {r} : sess'[q] = sess[q] /\ paid'[q] = paid[q]
        /\ acct' = acct /\ acct["wallet"] \in Int
    BY <1>3 DEF NoAdjust, IInv, TypeOK, Accounts, Funds
  <2> QED
    BY <1>1, <1>2, <2>1 DEF Steps
<1>4. CASE \E k \in Int : Adjust(r, "token", k)
  <2>1. PICK k \in Int : Adjust(r, "token", k)
    BY <1>4
  <2>2. "token" \in Accounts /\ "token" # "wallet"
    BY DEF Accounts
  <2>3. Unasked(prof[r], n) >= Unasked(prof[r], sess[r])
    BY <1>2
  <2> QED
    BY <1>2, <2>1, <2>2, <2>3, AdjustMoves
<1> QED
  BY <1>3, <1>4

\* The successors of an early session, with their positions.
LEMMA EarlyForms ==
  ASSUME NEW s \in Session
  PROVE  /\ Rejected(s).pc = "rejected" /\ Rejected(s).clean = s.clean
         /\ FromSubscription(s).pc = "token" /\ FromSubscription(s).clean = s.clean
         /\ FromOrganization(s).pc = "token" /\ FromOrganization(s).clean = s.clean
         /\ FromWallet(s).pc = "token" /\ FromWallet(s).clean = s.clean
         /\ ToWallet(s).pc = "wallet" /\ ToWallet(s).clean = s.clean
         /\ \A r : Fallback(r, s).pc \in BeforeHold /\ Fallback(r, s).clean = s.clean
<1>1. /\ Rejected(s).pc = "rejected" /\ Rejected(s).clean = s.clean
      /\ FromSubscription(s).pc = "token" /\ FromSubscription(s).clean = s.clean
      /\ FromOrganization(s).pc = "token" /\ FromOrganization(s).clean = s.clean
      /\ FromWallet(s).pc = "token" /\ FromWallet(s).clean = s.clean
      /\ ToWallet(s).pc = "wallet" /\ ToWallet(s).clean = s.clean
  BY DEF Rejected, FromSubscription, FromOrganization, FromWallet, ToWallet, Session
<1>2. \A r : Fallback(r, s).pc \in BeforeHold /\ Fallback(r, s).clean = s.clean
  BY <1>1, Zenon DEF Fallback, BeforeHold
<1> QED
  BY <1>1, <1>2

\* A failing call that leaves the session early.
LEMMA EarlyFault ==
  ASSUME IInv, IInv', EndsConsistent, NEW r \in Requests, NEW n \in Session,
         Fault(r, n), sess[r].pc \in BeforeHold, n.pc \in BeforeHold
  PROVE  Steps(r)
<1> DEFINE n1 == [n EXCEPT !.clean = FALSE]
<1>1. n1.pc = n.pc /\ n1.clean = FALSE
  BY DEF Session
<1>2. sess' = [sess EXCEPT ![r] = n1] /\ prof' = prof /\ NoAdjust
  BY DEF Fault
<1> HIDE DEF n1
<1> QED
  BY <1>1, <1>2, EarlyMoves

\* NewBillingSession chooses a source.
LEMMA PreConsumeBillingSteps ==
  ASSUME IInv, IInv', EndsConsistent, NEW r \in Requests, NEW q \in Quotas,
         PreConsumeBilling(r, q)
  PROVE  Steps(r)
<1> DEFINE s == [sess[r] EXCEPT !.quota = q,
                                !.tokenTrusted = prof[r].unlimited
                                                   \/ acct["token"] > TrustQuota]
<1>1. sess[r].pc = "idle" /\ sess[r] \in Session /\ q \in Nat
      /\ prof[r] \in ProfileSet /\ acct["token"] \in Int
  BY GoodOf, BillingAssumption DEF PreConsumeBilling, IInv, TypeOK, Accounts
<1>2. s \in Session /\ s.clean = sess[r].clean
  <2>1. (prof[r].unlimited \/ acct["token"] > TrustQuota) \in BOOLEAN
    BY <1>1 DEF ProfileSet
  <2> QED
    BY <1>1, <2>1, ZenonT(60) DEF Session
<1>3. \E n \in {FromOrganization(s), FromWallet(s), FromSubscription(s),
                [s EXCEPT !.pc = "wallet"], [s EXCEPT !.pc = "hassub"]} :
        Update(r, n) /\ NoAdjust
  BY DEF PreConsumeBilling
<1> HIDE DEF s
<1>4. PICK n \in {FromOrganization(s), FromWallet(s), FromSubscription(s),
                  [s EXCEPT !.pc = "wallet"], [s EXCEPT !.pc = "hassub"]} :
        Update(r, n) /\ NoAdjust
  BY <1>3
<1>5. n.pc \in BeforeHold /\ n.clean = sess[r].clean
  <2>1. \/ n = FromOrganization(s) \/ n = FromWallet(s) \/ n = FromSubscription(s)
        \/ n = [s EXCEPT !.pc = "wallet"] \/ n = [s EXCEPT !.pc = "hassub"]
    OBVIOUS
  <2>2. n.pc \in {"token", "wallet", "hassub"} /\ n.clean = s.clean
    <3>1. CASE n = FromOrganization(s) \/ n = FromWallet(s) \/ n = FromSubscription(s)
      BY <1>2, <3>1, EarlyForms
    <3>2. CASE n = [s EXCEPT !.pc = "wallet"] \/ n = [s EXCEPT !.pc = "hassub"]
      BY <1>2, <3>2 DEF Session
    <3> QED
      BY <2>1, <3>1, <3>2
  <2> QED
    BY <1>2, <2>2 DEF BeforeHold
<1>6. sess[r].pc \in BeforeHold
  BY <1>1 DEF BeforeHold
<1> QED
  BY <1>4, <1>5, <1>6, EarlyMoves DEF Update

\* Is there a subscription.
LEMMA HasActiveUserSubscriptionSteps ==
  ASSUME IInv, IInv', EndsConsistent, NEW r \in Requests,
         HasActiveUserSubscription(r)
  PROVE  Steps(r)
<1> DEFINE s == sess[r]
<1>1. s \in Session /\ s.pc = "hassub" /\ s.pc \in BeforeHold
  BY GoodOf DEF HasActiveUserSubscription, BeforeHold
<1>2. CASE \E n \in {FromSubscription(s), [s EXCEPT !.pc = "wallet"]} :
             Update(r, n) /\ NoAdjust
  <2>1. PICK n \in {FromSubscription(s), [s EXCEPT !.pc = "wallet"]} :
          Update(r, n) /\ NoAdjust
    BY <1>2
  <2>2. n.pc \in {"token", "wallet"} /\ n.clean = s.clean
    <3>1. n = FromSubscription(s) \/ n = [s EXCEPT !.pc = "wallet"]
      OBVIOUS
    <3>2. CASE n = FromSubscription(s)
      BY <1>1, <3>2, EarlyForms
    <3>3. CASE n = [s EXCEPT !.pc = "wallet"]
      BY <1>1, <3>3 DEF Session
    <3> QED
      BY <3>1, <3>2, <3>3
  <2>3. n.pc \in BeforeHold
    BY <2>2 DEF BeforeHold
  <2> QED
    BY <1>1, <2>1, <2>2, <2>3, EarlyMoves DEF Update
<1>3. CASE Fault(r, Rejected(s))
  <2>1. Rejected(s) \in Session /\ Rejected(s).pc \in BeforeHold
    BY <1>1, SessionTypes, EarlyForms DEF BeforeHold
  <2> QED
    BY <1>1, <1>3, <2>1, EarlyFault
<1> QED
  BY <1>2, <1>3 DEF HasActiveUserSubscription

\* tryWallet and its fallback.
LEMMA TryWalletSteps ==
  ASSUME IInv, IInv', EndsConsistent, NEW r \in Requests, TryWallet(r)
  PROVE  Steps(r)
<1> DEFINE s == sess[r]
<1>1. s \in Session /\ s.pc = "wallet" /\ s.pc \in BeforeHold
  BY GoodOf DEF TryWallet, BeforeHold
<1>2. CASE \E n \in {FromWallet(s), Fallback(r, s)} : Update(r, n) /\ NoAdjust
  <2>1. PICK n \in {FromWallet(s), Fallback(r, s)} : Update(r, n) /\ NoAdjust
    BY <1>2
  <2>2. n.pc \in BeforeHold /\ n.clean = s.clean
    BY <1>1, EarlyForms DEF BeforeHold
  <2> QED
    BY <1>1, <2>1, <2>2, EarlyMoves DEF Update
<1>3. CASE Fault(r, Rejected(s))
  <2>1. Rejected(s) \in Session /\ Rejected(s).pc \in BeforeHold
    BY <1>1, SessionTypes, EarlyForms DEF BeforeHold
  <2> QED
    BY <1>1, <1>3, <2>1, EarlyFault
<1> QED
  BY <1>2, <1>3 DEF TryWallet

\* preConsume charges the token.
LEMMA PreConsumeTokenSteps ==
  ASSUME IInv, IInv', EndsConsistent, NEW r \in Requests, PreConsumeToken(r)
  PROVE  Steps(r)
<1> DEFINE s == sess[r]
           m == Amount(s)
           next == [s EXCEPT !.pc = "fund", !.trusted = ShouldTrust(prof[r], s)]
           paying == [next EXCEPT !.tokenConsumed = m]
<1>1. s \in Session /\ s.pc = "token" /\ s.pc \in BeforeHold /\ m \in Int
  BY GoodOf DEF PreConsumeToken, BeforeHold, Amount, Session
<1>2. /\ next.pc = "fund" /\ next.clean = s.clean
      /\ paying.pc = "fund" /\ paying.clean = s.clean
      /\ Rejected(s).pc = "rejected" /\ Rejected(s).clean = s.clean
  BY <1>1, EarlyForms DEF Session
<1>3. "fund" \in BeforeHold /\ "rejected" \in BeforeHold
  BY DEF BeforeHold
<1>4. \/ \E n \in {next, paying, Rejected(s)} : Update(r, n) /\ NoAdjust
      \/ Update(r, paying) /\ Adjust(r, "token", m)
      \/ Fault(r, Rejected(s))
  BY DEF PreConsumeToken
<1> HIDE DEF next, paying, m
<1>5. CASE \E n \in {next, paying, Rejected(s)} : Update(r, n) /\ NoAdjust
  BY <1>1, <1>2, <1>3, <1>5, EarlyMoves DEF Update
<1>6. CASE Update(r, paying) /\ Adjust(r, "token", m)
  BY <1>1, <1>2, <1>3, <1>6, EarlyMoves DEF Update
<1>7. CASE Fault(r, Rejected(s))
  BY <1>1, <1>2, <1>3, <1>7, SessionTypes, EarlyFault
<1> QED
  BY <1>4, <1>5, <1>6, <1>7

\* The token is given back and the session dropped.
LEMMA RollbackTokenSteps ==
  ASSUME IInv, IInv', EndsConsistent, NEW r \in Requests, RollbackToken(r)
  PROVE  Steps(r)
<1> DEFINE s == sess[r]
           s0 == [s EXCEPT !.tokenConsumed = 0]
           next == IF s.short THEN Fallback(r, s0) ELSE Rejected(s0)
<1>1. s \in Session /\ s.pc = "untoken" /\ s.pc \in BeforeHold
      /\ -s.tokenConsumed \in Int
  BY GoodOf DEF RollbackToken, BeforeHold, Session
<1>2. s0 \in Session /\ s0.clean = s.clean
  BY <1>1 DEF Session
<1>3. /\ (Update(r, next) /\ (NoAdjust \/ Adjust(r, "token", -s.tokenConsumed)))
         \/ Fault(r, next)
  BY DEF RollbackToken
<1> HIDE DEF s0
<1>4. next.pc \in BeforeHold /\ next.clean = s.clean
  BY <1>2, EarlyForms DEF BeforeHold
<1>5. next \in Session
  BY <1>2, SessionTypes DEF Fallback
<1> HIDE DEF next
<1>6. CASE Update(r, next) /\ (NoAdjust \/ Adjust(r, "token", -s.tokenConsumed))
  BY <1>1, <1>4, <1>6, EarlyMoves DEF Update
<1>7. CASE Fault(r, next)
  BY <1>1, <1>4, <1>5, <1>7, EarlyFault
<1> QED
  BY <1>3, <1>6, <1>7

\* The funding source is charged: a wallet only what it has.
LEMMA PreConsumeFundingSteps ==
  ASSUME IInv, IInv', EndsConsistent, NEW r \in Requests, PreConsumeFunding(r)
  PROVE  Steps(r)
<1> DEFINE s == sess[r]
           amount == IF s.trusted THEN 0 ELSE Amount(s)
           held == [s EXCEPT !.pc = "prepare", !.pre = amount,
                             !.consumed = amount,
                             !.record = IF s.src = "subscription"
                                        THEN "consumed" ELSE s.record]
           back == [s EXCEPT !.pc = "untoken", !.short = TRUE]
           gone == [s EXCEPT !.pc = "untoken"]
<1>1. s \in Session /\ s.pc = "fund" /\ s.pc \in BeforeHold /\ amount \in Nat
  BY GoodOf DEF PreConsumeFunding, BeforeHold, Amount, Session
<1>2. /\ s.src \in Accounts /\ s.extra = 0
      /\ ~s.fundingSettled /\ ~s.settled /\ s.fees = {}
  BY <1>1, GoodOf DEF Good, HoldConsistent, CommitConsistent, BeforeHold, Accounts,
                      AfterRefund
<1>3. /\ held.pc = "prepare" /\ held.clean = s.clean /\ held.src = s.src
      /\ held.pre = amount /\ held.consumed = amount /\ held.extra = s.extra
      /\ held.fundingSettled = s.fundingSettled /\ held.settled = s.settled
      /\ held.fees = s.fees
  BY <1>1 DEF Session
<1>4. /\ back.pc = "untoken" /\ back.clean = s.clean
      /\ gone.pc = "untoken" /\ gone.clean = s.clean
      /\ gone \in Session
  BY <1>1 DEF Session, PCs
<1>5. \/ Update(r, held) /\ NoAdjust
      \/ Update(r, held) /\ acct[s.src] >= amount /\ Adjust(r, s.src, amount)
      \/ Update(r, back) /\ NoAdjust
      \/ Fault(r, gone)
  BY DEF PreConsumeFunding, Covers
<1> HIDE DEF held, back, gone, amount
<1>6. Unasked(prof[r], held) = 0 /\ EndConsistent(prof[r], held)
  BY <1>1, <1>2, <1>3 DEF Unasked, EndConsistent
<1>7. Unasked(prof[r], s) = 0
  BY <1>1, GoodOf, NothingTaken
<1>8. CASE Update(r, held) /\ NoAdjust
  BY <1>3, <1>6, <1>7, <1>8, UpdateMoves
<1>9. CASE Update(r, held) /\ acct[s.src] >= amount /\ Adjust(r, s.src, amount)
  <2>1. \/ s.src # "wallet" /\ Unasked(prof[r], held) >= Unasked(prof[r], s)
        \/ s.src = "wallet" /\ acct["wallet"] >= amount
    BY <1>6, <1>7, <1>9
  <2>2. sess' = [sess EXCEPT ![r] = held] /\ prof' = prof
    BY <1>9 DEF Update
  <2>3. /\ amount \in Int /\ Adjust(r, s.src, amount)
        /\ EndConsistent(prof[r], held) /\ (held.clean => s.clean)
    BY <1>1, <1>3, <1>6, <1>9
  <2> QED
    BY <1>2, <2>1, <2>2, <2>3, AdjustMoves
<1>10. CASE Update(r, back) /\ NoAdjust
  <2>1. back.pc \in BeforeHold
    BY <1>4 DEF BeforeHold
  <2> QED
    BY <1>1, <1>4, <1>10, <2>1, EarlyMoves DEF Update
<1>11. CASE Fault(r, gone)
  <2>1. gone.pc \in BeforeHold
    BY <1>4 DEF BeforeHold
  <2> QED
    BY <1>1, <1>4, <1>11, <2>1, EarlyFault
<1> QED
  BY <1>5, <1>8, <1>9, <1>10, <1>11

-----------------------------------------------------------------------------
(* reserve and the upstream call.                                          *)

\* A higher quote.
LEMMA ReserveSteps ==
  ASSUME IInv, IInv', EndsConsistent, NEW r \in Requests, NEW q \in Quotas,
         Reserve(r, q)
  PROVE  Steps(r)
<1> DEFINE n == [sess[r] EXCEPT !.pc = "rfund", !.quota = q]
<1>1. sess[r] \in Session
  BY GoodOf
<1>2. Quiet(sess[r], n)
  BY <1>1 DEF Quiet, SameMoney, Session
<1>3. sess' = [sess EXCEPT ![r] = n] /\ prof' = prof /\ NoAdjust
  BY DEF Reserve, Update
<1> HIDE DEF n
<1> QED
  BY <1>2, <1>3, QuietMoves

LEMMA FailedQuiet ==
  ASSUME NEW s \in Session
  PROVE  Quiet(s, Failed(s))
<1> DEFINE n == [s EXCEPT !.pc = "failed", !.err = TRUE]
<1>1. Quiet(s, n)
  BY DEF Quiet, SameMoney, Session
<1> QED
  BY <1>1 DEF Failed

\* The request is sent, sent again, answered with an error or not billable.
LEMMA AttemptSteps ==
  ASSUME IInv, IInv', EndsConsistent, NEW r \in Requests,
         Send(r) \/ UpstreamRetry(r) \/ UpstreamFails(r) \/ UpstreamNotBillable(r)
  PROVE  Steps(r)
<1> DEFINE S == {[sess[r] EXCEPT !.pc = "upstream"],
                 [sess[r] EXCEPT !.pc = "prepare", !.tries = @ + 1],
                 Failed(sess[r]), [sess[r] EXCEPT !.pc = "release"]}
<1>1. sess[r] \in Session
  BY GoodOf
<1>2. \A n \in S : Quiet(sess[r], n)
  <2>1. Quiet(sess[r], [sess[r] EXCEPT !.pc = "upstream"])
    BY <1>1 DEF Quiet, SameMoney, Session
  <2>2. Quiet(sess[r], [sess[r] EXCEPT !.pc = "prepare", !.tries = @ + 1])
    BY <1>1 DEF Quiet, SameMoney, Session
  <2>3. Quiet(sess[r], [sess[r] EXCEPT !.pc = "release"])
    BY <1>1 DEF Quiet, SameMoney, Session
  <2> QED
    BY <1>1, <2>1, <2>2, <2>3, FailedQuiet
<1>3. \E n \in S : Update(r, n) /\ NoAdjust
  BY DEF Send, UpstreamRetry, UpstreamFails, UpstreamNotBillable
<1> HIDE DEF S
<1> QED
  BY <1>2, <1>3, QuietMoves DEF Update

\* What is not asked for while the session still holds its reservation.
LEMMA HoldingUnasked ==
  ASSUME NEW p \in ProfileSet, NEW s \in Session, NEW m, Good(p, s, m),
         s.pc \notin BeforeHold, s.pc \in Holding
  PROVE  /\ s.src \in Funds /\ ~s.fundingSettled /\ ~s.settled /\ s.fees = {}
         /\ s.rok = {} /\ ~s.refunded /\ ~s.err
         /\ Unasked(p, s) = IF s.src = "wallet" /\ ~p.require
                            THEN s.consumed - (s.pre - s.extra) ELSE 0
<1>1. /\ s.src \in Funds /\ ~s.fundingSettled /\ ~s.settled /\ s.fees = {}
      /\ ~s.refunded /\ ~s.err
  BY DEF Good, HoldConsistent, CommitConsistent, Holding, Raising, AfterRefund
<1>2. s.rok = {}
  BY <1>1 DEF Good, RefundConsistent
<1> QED
  BY <1>1, <1>2 DEF Unasked, Session

\* The source is charged for the higher quote.
LEMMA ReserveFundingSteps ==
  ASSUME IInv, IInv', EndsConsistent, NEW r \in Requests, ReserveFunding(r)
  PROVE  Steps(r)
<1> DEFINE s == sess[r]
           delta == s.quota - s.pre
           taken == [s EXCEPT !.pc = "rtoken",
                              !.consumed = IF s.src = "subscription"
                                           THEN s.consumed
                                           ELSE s.consumed + delta]
<1>1. s \in Session /\ s.pc = "rfund" /\ prof[r] \in ProfileSet
      /\ Good(prof[r], s, paid[r])
  BY GoodOf DEF ReserveFunding
<1>2. delta \in Int /\ s.consumed \in Int /\ s.pre \in Int /\ s.extra \in Int
  BY <1>1 DEF Session
<1>3. /\ taken.pc = "rtoken" /\ taken.clean = s.clean /\ taken.src = s.src
      /\ taken.pre = s.pre /\ taken.extra = s.extra /\ taken.rok = s.rok
      /\ taken.consumed = IF s.src = "subscription" THEN s.consumed
                          ELSE s.consumed + delta
      /\ taken.fundingSettled = s.fundingSettled /\ taken.settled = s.settled
      /\ taken.fees = s.fees
  BY <1>1 DEF Session
<1>4. \/ Update(r, taken) /\ ReserveCovered(r, delta) /\ Adjust(r, s.src, delta)
      \/ Update(r, Failed(s)) /\ NoAdjust
      \/ Fault(r, Failed(s))
  BY DEF ReserveFunding
<1> HIDE DEF taken, delta
<1>5. s.pc \notin BeforeHold /\ s.pc \in Holding
  BY <1>1 DEF BeforeHold, Holding, Raising
<1>6. /\ s.src \in Funds /\ ~s.fundingSettled /\ ~s.settled /\ s.fees = {}
      /\ s.rok = {}
      /\ Unasked(prof[r], s) = IF s.src = "wallet" /\ ~prof[r].require
                               THEN s.consumed - (s.pre - s.extra) ELSE 0
  BY <1>1, <1>5, HoldingUnasked
<1>7. CASE Update(r, taken) /\ ReserveCovered(r, delta) /\ Adjust(r, s.src, delta)
  <2>1. Unasked(prof[r], taken) = IF s.src = "wallet" /\ ~prof[r].require
                                  THEN s.consumed + delta - (s.pre - s.extra) ELSE 0
    BY <1>2, <1>3, <1>6 DEF Unasked
  <2>2. EndConsistent(prof[r], s)
    BY DEF EndsConsistent
  <2>3. EndConsistent(prof[r], taken)
    BY <1>3, <1>6, <2>2 DEF EndConsistent
  <2>4. s.src = "wallet" /\ prof[r].require => acct["wallet"] >= delta
    BY <1>7 DEF ReserveCovered, Covers
  <2>5. \/ s.src # "wallet" /\ Unasked(prof[r], taken) >= Unasked(prof[r], s)
        \/ s.src = "wallet" /\ acct["wallet"] >= delta
        \/ s.src = "wallet" /\ Unasked(prof[r], taken) >= Unasked(prof[r], s) + delta
    BY <1>2, <1>6, <2>1, <2>4
  <2>6. s.src \in Accounts /\ sess' = [sess EXCEPT ![r] = taken] /\ prof' = prof
    BY <1>6, <1>7 DEF Update, Accounts
  <2> QED
    BY <1>2, <1>3, <1>7, <2>3, <2>5, <2>6, AdjustMoves
<1>8. Quiet(s, Failed(s)) /\ Failed(s) \in Session
  BY <1>1, SessionTypes, FailedQuiet
<1>9. CASE Update(r, Failed(s)) /\ NoAdjust
  BY <1>8, <1>9, QuietMoves DEF Update
<1>10. CASE Fault(r, Failed(s))
  BY <1>8, <1>10, QuietFault
<1> QED
  BY <1>4, <1>7, <1>9, <1>10

\* The token is charged for the higher quote: the hold and what was added to
\* it grow alike.
LEMMA ReserveTokenSteps ==
  ASSUME IInv, IInv', EndsConsistent, NEW r \in Requests, ReserveToken(r)
  PROVE  Steps(r)
<1> DEFINE s == sess[r]
           delta == s.quota - s.pre
           more == [s EXCEPT !.pc = "upstream", !.pre = s.pre + delta,
                             !.tokenConsumed = s.tokenConsumed + delta,
                             !.extra = s.extra + delta,
                             !.trusted = s.trusted /\ ~prof[r].require]
           undo == [s EXCEPT !.pc = "runfund"]
<1>1. s \in Session /\ s.pc = "rtoken" /\ prof[r] \in ProfileSet
      /\ Good(prof[r], s, paid[r])
  BY GoodOf DEF ReserveToken
<1>2. delta \in Int /\ s.consumed \in Int /\ s.pre \in Int /\ s.extra \in Int
  BY <1>1 DEF Session
<1>3. /\ more.pc = "upstream" /\ more.clean = s.clean /\ more.src = s.src
      /\ more.pre = s.pre + delta /\ more.extra = s.extra + delta
      /\ more.rok = s.rok /\ more.consumed = s.consumed /\ more.fees = s.fees
      /\ more.fundingSettled = s.fundingSettled /\ more.settled = s.settled
  BY <1>1 DEF Session
<1>4. Quiet(s, undo) /\ undo \in Session
  <2>1. Quiet(s, undo)
    BY <1>1 DEF Quiet, SameMoney, Session
  <2>2. undo \in Session
    BY <1>1 DEF Session, PCs
  <2> QED
    BY <2>1, <2>2
<1>5. \/ Update(r, more) /\ (NoAdjust \/ Adjust(r, "token", delta))
      \/ Update(r, undo) /\ NoAdjust
      \/ Fault(r, undo)
  BY DEF ReserveToken
<1> HIDE DEF more, delta, undo
<1>6. s.pc \notin BeforeHold /\ s.pc \in Holding
  BY <1>1 DEF BeforeHold, Holding, Raising
<1>7. /\ ~s.fundingSettled /\ ~s.settled /\ s.fees = {} /\ s.rok = {}
      /\ Unasked(prof[r], s) = IF s.src = "wallet" /\ ~prof[r].require
                               THEN s.consumed - (s.pre - s.extra) ELSE 0
  BY <1>1, <1>6, HoldingUnasked
<1>8. CASE Update(r, more) /\ (NoAdjust \/ Adjust(r, "token", delta))
  <2>1. Unasked(prof[r], more) = Unasked(prof[r], s)
    BY <1>2, <1>3, <1>7 DEF Unasked
  <2>2. EndConsistent(prof[r], s)
    BY DEF EndsConsistent
  <2>3. EndConsistent(prof[r], more) /\ (more.clean => s.clean)
    BY <1>2, <1>3, <1>7, <2>2 DEF EndConsistent
  <2>4. Unasked(prof[r], more) >= Unasked(prof[r], s)
    BY <1>2, <1>7, <2>1
  <2>5. CASE NoAdjust
    BY <1>8, <2>3, <2>4, <2>5, UpdateMoves
  <2>6. CASE Adjust(r, "token", delta)
    <3>1. "token" \in Accounts /\ "token" # "wallet"
      BY DEF Accounts
    <3>2. sess' = [sess EXCEPT ![r] = more] /\ prof' = prof
      BY <1>8 DEF Update
    <3> QED
      BY <1>2, <2>3, <2>4, <2>6, <3>1, <3>2, AdjustMoves
  <2> QED
    BY <1>8, <2>5, <2>6
<1>9. CASE Update(r, undo) /\ NoAdjust
  BY <1>4, <1>9, QuietMoves DEF Update
<1>10. CASE Fault(r, undo)
  BY <1>4, <1>10, QuietFault
<1> QED
  BY <1>5, <1>8, <1>9, <1>10

\* The token could not pay: the source gets back what it was charged.
LEMMA RollbackFundingReserveSteps ==
  ASSUME IInv, IInv', EndsConsistent, NEW r \in Requests,
         RollbackFundingReserve(r)
  PROVE  Steps(r)
<1> DEFINE s == sess[r]
           delta == s.quota - s.pre
           back == IF s.src = "subscription" THEN s.consumed ELSE s.consumed - delta
           n == [s EXCEPT !.pc = "failed", !.err = TRUE, !.consumed = back]
<1>1. s \in Session /\ s.pc = "runfund" /\ prof[r] \in ProfileSet
      /\ Good(prof[r], s, paid[r])
  BY GoodOf DEF RollbackFundingReserve
<1>2. /\ delta \in Int /\ s.consumed \in Int /\ s.pre \in Int /\ s.extra \in Int
      /\ -delta \in Int
  BY <1>1 DEF Session
<1>3. /\ n.pc = "failed" /\ n.clean = s.clean /\ n.src = s.src /\ n.err
      /\ n.pre = s.pre /\ n.extra = s.extra /\ n.rok = s.rok
      /\ n.consumed = back /\ n.fees = s.fees
      /\ n.fundingSettled = s.fundingSettled /\ n.settled = s.settled
  BY <1>1 DEF Session
<1>4. n = [Failed(s) EXCEPT !.consumed = back]
  BY <1>1 DEF Failed, Session
<1>5. \/ Update(r, n) /\ Adjust(r, s.src, -delta)
      \/ Fault(r, Failed(s))
  BY <1>4 DEF RollbackFundingReserve
<1> HIDE DEF n, delta
<1>6. s.pc \notin BeforeHold /\ s.pc \in Holding
  BY <1>1 DEF BeforeHold, Holding, Raising
<1>7. /\ s.src \in Funds /\ ~s.fundingSettled /\ ~s.settled /\ s.fees = {}
      /\ s.rok = {}
      /\ Unasked(prof[r], s) = IF s.src = "wallet" /\ ~prof[r].require
                               THEN s.consumed - (s.pre - s.extra) ELSE 0
  BY <1>1, <1>6, HoldingUnasked
<1>8. delta >= 0
  <2>1. s.quota \in Nat /\ s.pre \in Nat
    BY <1>1 DEF Session
  <2>2. s.quota > s.pre
    BY <1>1 DEF Good, HoldConsistent, Raising
  <2> QED
    BY <2>1, <2>2 DEF delta
<1>9. CASE Update(r, n) /\ Adjust(r, s.src, -delta)
  <2>1. Unasked(prof[r], n) = IF s.src = "wallet" /\ ~prof[r].require
                              THEN s.consumed - delta - (s.pre - s.extra) ELSE 0
    BY <1>2, <1>3, <1>7 DEF Unasked
  <2>2. EndConsistent(prof[r], s)
    BY DEF EndsConsistent
  <2>3. EndConsistent(prof[r], n) /\ (n.clean => s.clean)
    BY <1>3, <1>7, <2>2 DEF EndConsistent
  <2>4. \/ s.src # "wallet" /\ Unasked(prof[r], n) >= Unasked(prof[r], s)
        \/ s.src = "wallet" /\ Unasked(prof[r], n) >= Unasked(prof[r], s) + (-delta)
    BY <1>2, <1>7, <1>8, <2>1
  <2>5. s.src \in Accounts /\ sess' = [sess EXCEPT ![r] = n] /\ prof' = prof
    BY <1>7, <1>9 DEF Update, Accounts
  <2> QED
    BY <1>2, <1>9, <2>3, <2>4, <2>5, AdjustMoves
<1>10. CASE Fault(r, Failed(s))
  BY <1>1, <1>10, SessionTypes, FailedQuiet, QuietFault
<1> QED
  BY <1>5, <1>9, <1>10

\* The upstream answers: the session has a price.
LEMMA UpstreamSucceedsSteps ==
  ASSUME IInv, IInv', EndsConsistent, NEW r \in Requests,
         NEW k \in Actuals, NEW t \in ToolFees, UpstreamSucceeds(r, k, t)
  PROVE  Steps(r)
<1> DEFINE s == sess[r]
           n == [s EXCEPT !.pc = "settle", !.actual = k, !.tool = t]
<1>1. s \in Session /\ s.pc = "upstream" /\ prof[r] \in ProfileSet
      /\ Good(prof[r], s, paid[r]) /\ EndConsistent(prof[r], s)
  BY GoodOf DEF UpstreamSucceeds, EndsConsistent
<1>2. /\ n.pc = "settle" /\ n.clean = s.clean /\ n.src = s.src
      /\ n.pre = s.pre /\ n.extra = s.extra /\ n.rok = s.rok
      /\ n.consumed = s.consumed /\ n.fees = s.fees
      /\ n.fundingSettled = s.fundingSettled /\ n.settled = s.settled
      /\ n.actual = k /\ n.tool = t
  BY <1>1 DEF Session
<1>3. Update(r, n) /\ NoAdjust
  BY DEF UpstreamSucceeds
<1> HIDE DEF n
<1>4. s.pc \notin BeforeHold /\ s.pc \in Holding
  BY <1>1 DEF BeforeHold, Holding, Raising
<1>5. ~s.fundingSettled /\ ~s.settled
  BY <1>1, <1>4, HoldingUnasked
<1>6. Unasked(prof[r], n) = Unasked(prof[r], s)
  BY <1>2, <1>5 DEF Unasked
<1>7. Unasked(prof[r], n) >= Unasked(prof[r], s)
  BY <1>1, <1>6, UnaskedInt
<1>8. EndConsistent(prof[r], n) /\ (n.clean => s.clean)
  BY <1>1, <1>2, <1>5 DEF EndConsistent
<1> QED
  BY <1>3, <1>7, <1>8, UpdateMoves

-----------------------------------------------------------------------------
(* Settlement.                                                             *)

\* A settling session: it still has a price, and what it paid for was asked.
LEMMA SettlingFacts ==
  ASSUME IInv, EndsConsistent, NEW r \in Requests, sess[r].pc = "settle"
  PROVE  LET s == sess[r]
             p == prof[r]
         IN
         /\ s \in Session /\ p \in ProfileSet
         /\ s.src \in Funds /\ ~s.fundingSettled /\ ~s.settled /\ s.fees = {}
         /\ s.rok = {} /\ ~s.refunded /\ ~s.err
         /\ s.actual \in Actuals /\ (TokenSubscription(p) => s.tool \in ToolFees)
         /\ s.extra <= s.pre
         /\ Unasked(p, s) = IF s.src = "wallet" /\ ~p.require
                            THEN s.consumed - (s.pre - s.extra) ELSE 0
         /\ TokenSubscription(p) => s.src = "subscription" /\ s.pre = s.consumed
<1> DEFINE s == sess[r]
           p == prof[r]
<1>1. s \in Session /\ p \in ProfileSet /\ Good(p, s, paid[r])
  BY GoodOf
<1>2. EndConsistent(p, s)
  BY DEF EndsConsistent
<1>3. s.pc \notin BeforeHold /\ s.pc \in Holding
  BY DEF BeforeHold, Holding, Raising
<1>4. /\ s.src \in Funds /\ ~s.fundingSettled /\ ~s.settled /\ s.fees = {}
      /\ s.rok = {} /\ ~s.refunded /\ ~s.err
      /\ Unasked(p, s) = IF s.src = "wallet" /\ ~p.require
                         THEN s.consumed - (s.pre - s.extra) ELSE 0
  BY <1>1, <1>3, HoldingUnasked
<1>5. /\ s.actual \in Actuals /\ (TokenSubscription(p) => s.tool \in ToolFees)
      /\ s.extra <= s.pre
  BY <1>2 DEF EndConsistent
<1>6. TokenSubscription(p) => s.src = "subscription" /\ s.pre = s.consumed
  <2>1. s.consumed \in Nat /\ s.pre \in Nat /\ s.extra \in Nat
    BY <1>1 DEF Session
  <2>2. TokenSubscription(p) => s.src = "subscription" /\ s.extra = 0
    BY <1>1 DEF Good, HoldConsistent
  <2>3. s.src = "subscription" => s.pre = s.consumed + s.extra
    BY <1>1, <1>3 DEF Good, HoldConsistent
  <2> QED
    BY <2>1, <2>2, <2>3
<1> QED
  BY <1>1, <1>4, <1>5, <1>6

\* What settlement, with price n, may change of a session.
Settles(s, n) ==
    /\ n.clean = s.clean /\ n.src = s.src /\ n.pre = s.pre /\ n.extra = s.extra
    /\ n.rok = s.rok /\ n.consumed = s.consumed /\ n.fees = s.fees
    /\ n.actual = s.actual /\ n.tool = s.tool

\* Settle when nothing is left to move.
LEMMA SettleEvenSteps ==
  ASSUME IInv, IInv', EndsConsistent, NEW r \in Requests, SettleEven(r)
  PROVE  Steps(r)
<1> DEFINE s == sess[r]
           a == [s EXCEPT !.pc = "tool", !.fundingSettled = TRUE]
           b == [s EXCEPT !.pc = "done", !.settled = TRUE, !.fundingSettled = TRUE]
           c == [s EXCEPT !.pc = "done", !.settled = TRUE]
<1>0. s.pc = "settle"
  BY DEF SettleEven
<1>1. s \in Session /\ prof[r] \in ProfileSet
  BY GoodOf
<1>2. /\ Settles(s, a) /\ a.fundingSettled /\ a.settled = s.settled /\ a.pc = "tool"
      /\ Settles(s, b) /\ b.fundingSettled /\ b.settled /\ b.pc = "done"
      /\ Settles(s, c) /\ c.fundingSettled = s.fundingSettled /\ c.settled
      /\ c.pc = "done"
  BY <1>1 DEF Session, Settles
<1>3. b = [Settled(s) EXCEPT !.fundingSettled = TRUE] /\ c = Settled(s)
  BY <1>1 DEF Settled, Session
<1>4. /\ s.tool \in Nat
      /\ NoAdjust
      /\ \/ TokenSubscription(prof[r]) /\ Update(r, a)
         \/ TokenSubscription(prof[r]) /\ s.tool = 0 /\ Update(r, b)
         \/ ~TokenSubscription(prof[r]) /\ Update(r, c)
  <2>1. s.tool \in Nat
    BY <1>1 DEF Session
  <2> HIDE DEF b, c
  <2> QED
    BY <1>3, <2>1 DEF SettleEven
<1> HIDE DEF a, b, c
<1>5. PICK n \in {a, b, c} :
        /\ Update(r, n) /\ Settles(s, n)
        /\ n.pc = "tool" \/ n.settled
        /\ TokenSubscription(prof[r]) \/ n.fundingSettled = s.fundingSettled
        /\ TokenSubscription(prof[r]) /\ n.settled => n.tool = 0
  <2>1. CASE TokenSubscription(prof[r]) /\ Update(r, a)
    <3>1. ~a.settled
      BY <1>0, <1>2, SettlingFacts
    <3> QED
      BY <1>2, <2>1, <3>1
  <2>2. CASE TokenSubscription(prof[r]) /\ s.tool = 0 /\ Update(r, b)
    BY <1>2, <2>2 DEF Settles
  <2>3. CASE ~TokenSubscription(prof[r]) /\ Update(r, c)
    BY <1>2, <2>3
  <2> QED
    BY <1>4, <2>1, <2>2, <2>3
<1>6. /\ ~s.fundingSettled /\ ~s.settled /\ s.fees = {}
      /\ s.actual \in Actuals /\ (TokenSubscription(prof[r]) => s.tool \in ToolFees)
      /\ s.extra <= s.pre
      /\ TokenSubscription(prof[r]) => s.src = "subscription"
  BY <1>0, SettlingFacts
<1>7. EndConsistent(prof[r], n) /\ (n.clean => s.clean)
  BY <1>5, <1>6 DEF EndConsistent, Settles
<1>8. Unasked(prof[r], n) = Unasked(prof[r], s)
  <2>1. n.tool \in Nat
    BY <1>4, <1>5 DEF Settles
  <2> QED
    BY <1>5, <1>6, <2>1 DEF Unasked, Settles
<1>9. Unasked(prof[r], n) >= Unasked(prof[r], s)
  BY <1>1, <1>8, UnaskedInt
<1> QED
  BY <1>4, <1>5, <1>7, <1>9, UpdateMoves

\* SettleFailed ends the session without a charge, or fails it.
LEMMA SettleFailedForms ==
  ASSUME NEW r, NEW s \in Session
  PROVE  LET n == SettleFailed(r, s)
         IN
         /\ n \in Session /\ SameMoney(s, n) /\ n.clean = s.clean
         /\ (n.pc = "failed" /\ n.err) \/ (n.pc = "done" /\ n.err = s.err)
<1> DEFINE n == [s EXCEPT !.pc = "done"]
           f == [s EXCEPT !.pc = "failed", !.err = TRUE]
<1>1. /\ n \in Session /\ n.clean = s.clean /\ n.pc = "done" /\ n.err = s.err
  BY DEF Session, PCs
<1>2. SameMoney(s, n) /\ SameMoney(s, f)
  BY DEF Session, SameMoney
<1>3. f = Failed(s) /\ f \in Session /\ f.clean = s.clean /\ f.pc = "failed" /\ f.err
  <2>1. f = Failed(s)
    BY DEF Failed
  <2>2. f \in Session
    BY <2>1, SessionTypes
  <2>3. f.clean = s.clean /\ f.pc = "failed" /\ f.err
    BY DEF Session
  <2> QED
    BY <2>1, <2>2, <2>3
<1>4. SettleFailed(r, s) = IF prof[r].upload THEN f ELSE n
  BY <1>3 DEF SettleFailed
<1> HIDE DEF n, f
<1> QED
  BY <1>1, <1>2, <1>3, <1>4

\* The funding source pays the difference: a wallet without a question.
LEMMA SettleFundingSteps ==
  ASSUME IInv, IInv', EndsConsistent, NEW r \in Requests, SettleFunding(r)
  PROVE  Steps(r)
<1> DEFINE s == sess[r]
           p == prof[r]
           delta == s.actual - SettleBase(p, s)
           a == [s EXCEPT !.fundingSettled = TRUE, !.pc = "stoken"]
           b == [s EXCEPT !.fundingSettled = TRUE, !.pc = "tool"]
           c == [s EXCEPT !.fundingSettled = TRUE, !.pc = "done", !.settled = TRUE]
           f == SettleFailed(r, s)
<1>0. s.pc = "settle"
  BY DEF SettleFunding
<1>1. s \in Session /\ p \in ProfileSet
  BY GoodOf
<1>2. /\ s.src \in Funds /\ ~s.fundingSettled /\ ~s.settled /\ s.fees = {}
      /\ s.rok = {} /\ ~s.refunded /\ ~s.err
      /\ s.actual \in Actuals /\ (TokenSubscription(p) => s.tool \in ToolFees)
      /\ s.extra <= s.pre
      /\ Unasked(p, s) = IF s.src = "wallet" /\ ~p.require
                         THEN s.consumed - (s.pre - s.extra) ELSE 0
      /\ TokenSubscription(p) => s.src = "subscription" /\ s.pre = s.consumed
  BY <1>0, SettlingFacts
<1>3. /\ s.actual \in Nat /\ s.pre \in Nat /\ s.consumed \in Nat /\ s.extra \in Nat
      /\ s.tool \in Nat
  BY <1>1 DEF Session
<1>4. delta = s.actual - s.pre /\ delta \in Int
  BY <1>2, <1>3 DEF SettleBase
<1>5. /\ Settles(s, a) /\ a.fundingSettled /\ a.settled = s.settled /\ a.pc = "stoken"
      /\ Settles(s, b) /\ b.fundingSettled /\ b.settled = s.settled /\ b.pc = "tool"
      /\ Settles(s, c) /\ c.fundingSettled /\ c.settled /\ c.pc = "done"
  BY <1>1 DEF Session, Settles
<1>6. /\ a = [[s EXCEPT !.fundingSettled = TRUE] EXCEPT !.pc = "stoken"]
      /\ b = [[s EXCEPT !.fundingSettled = TRUE] EXCEPT !.pc = "tool"]
      /\ c = Settled([s EXCEPT !.fundingSettled = TRUE])
  BY <1>1 DEF Settled, Session
<1>7. \/ /\ \/ ~TokenSubscription(p) /\ Update(r, a)
            \/ TokenSubscription(p) /\ Update(r, b)
            \/ TokenSubscription(p) /\ s.tool = 0 /\ Update(r, c)
         /\ Adjust(r, s.src, delta)
      \/ ~Chargeable(s.src, delta) /\ Update(r, f) /\ NoAdjust
      \/ Fault(r, f)
  <2> HIDE DEF a, b, c, f, delta
  <2> QED
    BY <1>3, <1>6 DEF SettleFunding, delta, f
<1>8. /\ f \in Session /\ SameMoney(s, f) /\ f.clean = s.clean
      /\ (f.pc = "failed" /\ f.err) \/ (f.pc = "done" /\ f.err = s.err)
  BY <1>1, SettleFailedForms
<1> HIDE DEF a, b, c, f, delta
<1>9. CASE /\ \/ ~TokenSubscription(p) /\ Update(r, a)
              \/ TokenSubscription(p) /\ Update(r, b)
              \/ TokenSubscription(p) /\ s.tool = 0 /\ Update(r, c)
           /\ Adjust(r, s.src, delta)
  <2>1. PICK n \in {a, b, c} :
          /\ Update(r, n) /\ Settles(s, n) /\ n.fundingSettled
          /\ n.pc = "stoken" \/ n.pc = "tool" \/ n.settled
          /\ TokenSubscription(p) /\ n.settled => n.tool = 0
    <3>1. CASE ~TokenSubscription(p) /\ Update(r, a)
      BY <1>5, <3>1
    <3>2. CASE TokenSubscription(p) /\ Update(r, b)
      BY <1>2, <1>5, <3>2
    <3>3. CASE TokenSubscription(p) /\ s.tool = 0 /\ Update(r, c)
      BY <1>5, <3>3 DEF Settles
    <3> QED
      BY <1>9, <3>1, <3>2, <3>3
  <2>2. EndConsistent(p, n) /\ (n.clean => s.clean)
    BY <1>2, <2>1 DEF EndConsistent, Settles
  <2>3. n.tool \in Nat
    BY <1>3, <2>1 DEF Settles
  <2>4. Unasked(p, n) = (IF s.src = "wallet" /\ s.actual > s.pre THEN delta ELSE 0)
                        + Unasked(p, s)
    BY <1>2, <1>3, <1>4, <2>1, <2>3 DEF Unasked, Settles
  <2>5. Unasked(p, s) \in Int
    BY <1>1, UnaskedInt
  <2>6. \/ s.src # "wallet" /\ Unasked(p, n) >= Unasked(p, s)
        \/ s.src = "wallet" /\ Unasked(p, n) >= Unasked(p, s) + delta
    BY <1>3, <1>4, <2>4, <2>5
  <2>7. s.src \in Accounts /\ sess' = [sess EXCEPT ![r] = n] /\ prof' = prof
    BY <1>2, <2>1 DEF Update, Accounts
  <2> QED
    BY <1>4, <1>9, <2>2, <2>6, <2>7, AdjustMoves
<1>10. CASE ~Chargeable(s.src, delta) /\ Update(r, f) /\ NoAdjust
  <2>1. s.src = "subscription" /\ delta > 0
    BY <1>4, <1>10 DEF Chargeable
  <2>2. s.actual > s.pre
    BY <1>3, <1>4, <2>1
  <2>3. EndConsistent(p, f) /\ (f.clean => s.clean)
    BY <1>2, <1>8, <2>1, <2>2 DEF EndConsistent, SameMoney
  <2>4. Unasked(p, f) = Unasked(p, s) /\ Unasked(p, s) \in Int
    BY <1>1, <1>8, SameMoneyUnasked, UnaskedInt
  <2> QED
    BY <1>10, <2>3, <2>4, UpdateMoves
<1>11. CASE Fault(r, f)
  <2>1. Unasked(p, f) = Unasked(p, s) /\ Unasked(p, s) \in Int
    BY <1>1, <1>8, SameMoneyUnasked, UnaskedInt
  <2>2. /\ f.extra <= f.pre /\ (f.fees # {} => "fund" \in f.fees)
        /\ f.actual \in Actuals /\ (TokenSubscription(p) => f.tool \in ToolFees)
        /\ Unasked(p, f) >= Unasked(p, s)
    BY <1>2, <1>8, <2>1 DEF SameMoney
  <2> QED
    BY <1>8, <1>11, <2>2, FaultMoves
<1> QED
  BY <1>7, <1>9, <1>10, <1>11

\* The token pays the difference.
LEMMA SettleTokenSteps ==
  ASSUME IInv, IInv', EndsConsistent, NEW r \in Requests, SettleToken(r)
  PROVE  Steps(r)
<1> DEFINE s == sess[r]
           p == prof[r]
           delta == s.actual - s.pre
           n == [s EXCEPT !.pc = "done", !.settled = TRUE]
           f == SettleFailed(r, Settled(s))
<1>1. s \in Session /\ p \in ProfileSet /\ Good(p, s, paid[r]) /\ s.pc = "stoken"
  BY GoodOf DEF SettleToken
<1>2. /\ delta \in Int
      /\ Settles(s, n) /\ n.fundingSettled = s.fundingSettled /\ n.settled
      /\ n.pc = "done"
  BY <1>1 DEF Session, Settles
<1>3. n = Settled(s) /\ n \in Session
  <2>1. n = Settled(s)
    BY DEF Settled
  <2> QED
    BY <1>1, <2>1, SessionTypes
<1>4. \/ Update(r, n) /\ (NoAdjust \/ Adjust(r, "token", delta))
      \/ Fault(r, f)
  <2> HIDE DEF n, f, delta
  <2> QED
    BY <1>3 DEF SettleToken, delta, f
<1>5. /\ f \in Session /\ SameMoney(n, f)
  <2> HIDE DEF n
  <2> QED
    BY <1>3, SettleFailedForms
<1> HIDE DEF n, f, delta
<1>6. ~TokenSubscription(p)
  BY <1>1 DEF Good, CommitConsistent
<1>7. s.actual \in Actuals /\ s.extra <= s.pre /\ (s.fees # {} => "fund" \in s.fees)
  BY <1>1 DEF EndsConsistent, EndConsistent
<1>8. Unasked(p, n) = Unasked(p, s) /\ Unasked(p, s) \in Int
  <2>1. Unasked(p, n) = Unasked(p, s)
    BY <1>2, <1>6 DEF Unasked, Settles
  <2> QED
    BY <1>1, <2>1, UnaskedInt
<1>9. CASE Update(r, n) /\ (NoAdjust \/ Adjust(r, "token", delta))
  <2>1. EndConsistent(p, n) /\ (n.clean => s.clean)
    BY <1>2, <1>6, <1>7 DEF EndConsistent, Settles
  <2>2. Unasked(p, n) >= Unasked(p, s)
    BY <1>8
  <2>3. CASE NoAdjust
    BY <1>9, <2>1, <2>2, <2>3, UpdateMoves
  <2>4. CASE Adjust(r, "token", delta)
    <3>1. "token" \in Accounts /\ "token" # "wallet"
      BY DEF Accounts
    <3>2. sess' = [sess EXCEPT ![r] = n] /\ prof' = prof
      BY <1>9 DEF Update
    <3> QED
      BY <1>2, <2>1, <2>2, <2>4, <3>1, <3>2, AdjustMoves
  <2> QED
    BY <1>9, <2>3, <2>4
<1>10. CASE Fault(r, f)
  <2>1. Unasked(p, f) = Unasked(p, n)
    BY <1>5, SameMoneyUnasked
  <2>2. /\ f.extra <= f.pre /\ (f.fees # {} => "fund" \in f.fees)
        /\ f.actual \in Actuals /\ (TokenSubscription(p) => f.tool \in ToolFees)
        /\ Unasked(p, f) >= Unasked(p, s)
    BY <1>2, <1>5, <1>6, <1>7, <1>8, <2>1 DEF SameMoney, Settles
  <2> QED
    BY <1>5, <1>10, <2>2, FaultMoves
<1> QED
  BY <1>4, <1>9, <1>10

\* The wallet pays the tools of a token subscription, without a question.
LEMMA SettleToolSteps ==
  ASSUME IInv, IInv', EndsConsistent, NEW r \in Requests, SettleTool(r)
  PROVE  Steps(r)
<1> DEFINE s == sess[r]
           p == prof[r]
           n == [s EXCEPT !.pc = "done", !.settled = TRUE]
           f == SettleFailed(r, s)
<1>1. s \in Session /\ p \in ProfileSet /\ Good(p, s, paid[r]) /\ s.pc = "tool"
  BY GoodOf DEF SettleTool
<1>2. /\ s.tool \in Int
      /\ Settles(s, n) /\ n.fundingSettled = s.fundingSettled /\ n.settled
      /\ n.pc = "done"
  BY <1>1 DEF Session, Settles
<1>3. n = Settled(s)
  BY DEF Settled
<1>4. \/ Update(r, n) /\ Adjust(r, "wallet", s.tool)
      \/ Fault(r, f)
  <2> HIDE DEF n, f
  <2> QED
    BY <1>3 DEF SettleTool, f
<1>5. /\ f \in Session /\ SameMoney(s, f)
  BY <1>1, SettleFailedForms
<1> HIDE DEF n, f
<1>6. TokenSubscription(p) /\ ~s.settled
  BY <1>1 DEF Good, CommitConsistent
<1>7. /\ s.actual \in Actuals /\ s.extra <= s.pre /\ s.tool \in ToolFees
      /\ s.fees # {} => "fund" \in s.fees
  BY <1>1, <1>6 DEF EndsConsistent, EndConsistent
<1>8. Unasked(p, s) \in Int
  BY <1>1, UnaskedInt
<1>9. CASE Update(r, n) /\ Adjust(r, "wallet", s.tool)
  <2>1. EndConsistent(p, n) /\ (n.clean => s.clean)
    BY <1>2, <1>7 DEF EndConsistent, Settles
  <2>2. /\ s.consumed \in Int /\ s.pre \in Int /\ s.extra \in Int
        /\ s.actual \in Int /\ ViolationFee \in Int
    BY <1>1, BillingAssumption DEF Session
  <2>3. Unasked(p, n) = Unasked(p, s) + s.tool
    BY <1>2, <1>6, <2>2 DEF Unasked, Settles
  <2>4. Unasked(p, n) >= Unasked(p, s) + s.tool
    BY <1>2, <1>8, <2>3
  <2>5. "wallet" \in Accounts /\ sess' = [sess EXCEPT ![r] = n] /\ prof' = prof
    BY <1>9 DEF Update, Accounts, Funds
  <2> QED
    BY <1>2, <1>9, <2>1, <2>4, <2>5, AdjustMoves
<1>10. CASE Fault(r, f)
  <2>1. Unasked(p, f) = Unasked(p, s)
    BY <1>5, SameMoneyUnasked
  <2>2. /\ f.extra <= f.pre /\ (f.fees # {} => "fund" \in f.fees)
        /\ f.actual \in Actuals /\ f.tool \in ToolFees
        /\ Unasked(p, f) >= Unasked(p, s)
    BY <1>5, <1>7, <1>8, <2>1 DEF SameMoney
  <2> QED
    BY <1>5, <1>10, <2>2, FaultMoves
<1> QED
  BY <1>4, <1>9, <1>10

-----------------------------------------------------------------------------
(* The refund and the violation fee.                                       *)

\* The deferred Refund: a session that ends without an error holds nothing.
LEMMA RefundSteps ==
  ASSUME IInv, IInv', EndsConsistent, NEW r \in Requests, NEW v \in BOOLEAN,
         Refund(r, v)
  PROVE  Steps(r)
<1> DEFINE s == sess[r]
           p == prof[r]
           c == IF v THEN "feefund" ELSE "done"
           a == [s EXCEPT !.pc = c, !.refunded = TRUE, !.rpc = "fund"]
           b == [s EXCEPT !.pc = c]
<1>1. s \in Session /\ p \in ProfileSet /\ Good(p, s, paid[r])
      /\ s.pc \in {"failed", "release"} /\ EndConsistent(p, s)
  BY GoodOf DEF Refund, EndsConsistent
<1>2. /\ a.pc = c /\ a.clean = s.clean /\ a.err = s.err /\ a.refunded
      /\ b.pc = c /\ b.clean = s.clean /\ b.err = s.err /\ b.refunded = s.refunded
  BY <1>1 DEF Session
<1>3. SameMoney(s, a) /\ SameMoney(s, b)
  BY <1>1 DEF Session, SameMoney
<1>4. /\ NoAdjust
      /\ \/ Update(r, a)
         \/ Update(r, b) /\ ~NeedsRefund(s)
  BY DEF Refund
<1>5. c \notin {"settle", "stoken", "tool"}
  OBVIOUS
<1> HIDE DEF a, b, c
<1>6. s.pc = "failed" => s.err
  BY <1>1 DEF Good, CommitConsistent
<1>7. s.pc = "release" => ~s.fundingSettled /\ ~s.settled /\ ~s.refunded
  <2>1. s.pc = "release" => s.pc \in Holding /\ s.pc \notin AfterRefund
    BY DEF Holding, AfterRefund
  <2> QED
    BY <1>1, <2>1 DEF Good, CommitConsistent
<1>8. s.pc = "release" /\ ~NeedsRefund(s) => s.pre = 0
  <2>1. SUFFICES ASSUME s.pc = "release", ~NeedsRefund(s) PROVE s.pre = 0
    OBVIOUS
  <2>2. s.pc \notin BeforeHold /\ s.tokenConsumed \in Nat /\ s.consumed \in Nat
    BY <1>1, <2>1 DEF BeforeHold, Session
  <2>3. s.tokenConsumed = 0 /\ (s.src = "subscription" => s.consumed = 0)
    BY <1>7, <2>1, <2>2 DEF NeedsRefund
  <2>4. /\ s.tokenConsumed = IF TokenSubscription(p) THEN 0 ELSE s.pre
        /\ s.src = "subscription" => s.consumed > 0
    BY <1>1, <2>2 DEF Good, HoldConsistent
  <2>5. TokenSubscription(p) => s.src = "subscription"
    BY <1>1, <2>1 DEF Good, HoldConsistent
  <2> QED
    BY <2>2, <2>3, <2>4, <2>5
<1>9. Unasked(p, a) = Unasked(p, s) /\ Unasked(p, b) = Unasked(p, s)
      /\ Unasked(p, s) \in Int
  BY <1>1, <1>3, SameMoneyUnasked, UnaskedInt
<1>10. CASE Update(r, a)
  <2>1. EndConsistent(p, a) /\ (a.clean => s.clean)
    BY <1>1, <1>2, <1>3, <1>5, <1>6, <1>7 DEF EndConsistent, SameMoney
  <2> QED
    BY <1>4, <1>9, <1>10, <2>1, UpdateMoves
<1>11. CASE Update(r, b) /\ ~NeedsRefund(s)
  <2>1. EndConsistent(p, b) /\ (b.clean => s.clean)
    BY <1>1, <1>2, <1>3, <1>5, <1>6, <1>7, <1>8, <1>11 DEF EndConsistent, SameMoney
  <2> QED
    BY <1>4, <1>9, <1>11, <2>1, UpdateMoves
<1> QED
  BY <1>4, <1>10, <1>11

\* The hold of a wallet goes back: it is at least what was not asked for.
LEMMA RefundWalletSteps ==
  ASSUME IInv, IInv', EndsConsistent, NEW r \in Requests, RefundWallet(r)
  PROVE  Steps(r)
<1> DEFINE s == sess[r]
           p == prof[r]
           n == [s EXCEPT !.rpc = "extra", !.rok = @ \cup {"fund"}]
           f == [s EXCEPT !.rpc = "extra"]
<1>1. s \in Session /\ p \in ProfileSet /\ Good(p, s, paid[r])
      /\ s.rpc = "fund" /\ s.src # "subscription" /\ EndConsistent(p, s)
  BY GoodOf DEF RefundWallet, EndsConsistent
<1>2. /\ n.pc = s.pc /\ n.clean = s.clean /\ n.err = s.err
      /\ n.refunded = s.refunded /\ n.src = s.src
      /\ n.pre = s.pre /\ n.extra = s.extra /\ n.consumed = s.consumed
      /\ n.fundingSettled = s.fundingSettled /\ n.settled = s.settled
      /\ n.fees = s.fees /\ n.actual = s.actual /\ n.tool = s.tool
      /\ n.rok = s.rok \cup {"fund"}
  BY <1>1 DEF Session
<1>3. Quiet(s, f) /\ f \in Session /\ n \in Session
  <2>1. Quiet(s, f)
    BY <1>1 DEF Quiet, SameMoney, Session
  <2>2. f \in Session /\ n \in Session
    BY <1>1 DEF Session, RefundPCs
  <2> QED
    BY <2>1, <2>2
<1>4. \/ Update(r, n) /\ s.consumed = 0 /\ NoAdjust
      \/ Update(r, n) /\ Adjust(r, s.src, -s.consumed)
      \/ Fault(r, f)
  BY DEF RefundWallet
<1> HIDE DEF n, f
<1>5. s.rok = {} /\ ~s.settled /\ ~s.fundingSettled
  BY <1>1 DEF Good, RefundConsistent
<1>6. s.src \in Funds
  <2>1. s.pc \notin BeforeHold
    BY <1>1 DEF Good, RefundConsistent, CommitConsistent, BeforeHold, AfterRefund
  <2> QED
    BY <1>1, <2>1 DEF Good, HoldConsistent
<1>7. /\ s.consumed \in Nat /\ s.pre \in Nat /\ s.extra \in Nat /\ ViolationFee \in Nat
      /\ -s.consumed \in Int /\ s.tool \in Nat /\ s.extra <= s.pre
  BY <1>1, BillingAssumption DEF Session, EndConsistent
<1>8. EndConsistent(p, n) /\ (n.clean => s.clean)
  BY <1>1, <1>2 DEF EndConsistent
<1>9. Unasked(p, n) + (IF s.src = "wallet" /\ ~p.require
                       THEN s.consumed - (s.pre - s.extra) ELSE 0) = Unasked(p, s)
  BY <1>2, <1>5, <1>7 DEF Unasked
<1>10. Unasked(p, s) \in Int /\ Unasked(p, n) \in Int
  BY <1>1, <1>3, UnaskedInt
<1>11. CASE Update(r, n) /\ s.consumed = 0 /\ NoAdjust
  <2>1. Unasked(p, n) >= Unasked(p, s)
    BY <1>7, <1>9, <1>10, <1>11
  <2> QED
    BY <1>8, <1>11, <2>1, UpdateMoves
<1>12. CASE Update(r, n) /\ Adjust(r, s.src, -s.consumed)
  <2>1. \/ s.src # "wallet" /\ Unasked(p, n) >= Unasked(p, s)
        \/ s.src = "wallet" /\ Unasked(p, n) >= Unasked(p, s) + (-s.consumed)
    BY <1>7, <1>9, <1>10
  <2>2. s.src \in Accounts /\ sess' = [sess EXCEPT ![r] = n] /\ prof' = prof
    BY <1>6, <1>12 DEF Update, Accounts
  <2> QED
    BY <1>7, <1>8, <1>12, <2>1, <2>2, AdjustMoves
<1>13. CASE Fault(r, f)
  BY <1>3, <1>13, QuietFault
<1> QED
  BY <1>4, <1>11, <1>12, <1>13

\* What one attempt leaves of a subscription's session.
LEMMA NextAttemptForms ==
  ASSUME NEW s \in Session, s.attempts < RefundAttempts
  PROVE  /\ NextAttempt(s) \in Session /\ Quiet(s, NextAttempt(s))
         /\ Quiet(s, [NextAttempt(s) EXCEPT !.clean = FALSE])
<1> DEFINE a == [s EXCEPT !.attempts = @ + 1]
           b == [s EXCEPT !.attempts = @ + 1, !.rpc = "extra"]
<1>1. s.attempts + 1 \in 0..RefundAttempts
  BY DEF Session, RefundAttempts
<1>2. a \in Session /\ b \in Session
  BY <1>1 DEF Session, RefundPCs
<1>3. Quiet(s, a) /\ Quiet(s, [a EXCEPT !.clean = FALSE])
  BY DEF Quiet, SameMoney, Session
<1>4. Quiet(s, b) /\ Quiet(s, [b EXCEPT !.clean = FALSE])
  BY DEF Quiet, SameMoney, Session
<1>5. NextAttempt(s) = a \/ NextAttempt(s) = b
  BY DEF NextAttempt
<1> HIDE DEF a, b
<1> QED
  BY <1>2, <1>3, <1>4, <1>5

\* A subscription's hold does not touch the wallet.
LEMMA RefundSubscriptionSteps ==
  ASSUME IInv, IInv', EndsConsistent, NEW r \in Requests, RefundSubscription(r)
  PROVE  Steps(r)
<1> DEFINE s == sess[r]
           n == [s EXCEPT !.rpc = "extra", !.rok = @ \cup {"fund"},
                          !.record = "refunded"]
           f == NextAttempt(s)
           t == [f EXCEPT !.clean = FALSE]
<1>1. s \in Session /\ Good(prof[r], s, paid[r]) /\ s.rpc = "fund"
      /\ s.src = "subscription" /\ EndConsistent(prof[r], s)
  BY GoodOf DEF RefundSubscription, EndsConsistent
<1>2. s.attempts < RefundAttempts
  BY <1>1 DEF Good, RefundConsistent
<1>3. f \in Session /\ Quiet(s, f) /\ Quiet(s, t)
  BY <1>1, <1>2, NextAttemptForms
<1>4. /\ n.pc = s.pc /\ n.clean = s.clean /\ n.err = s.err
      /\ n.refunded = s.refunded /\ n.src = s.src
      /\ n.pre = s.pre /\ n.extra = s.extra /\ n.consumed = s.consumed
      /\ n.fundingSettled = s.fundingSettled /\ n.settled = s.settled
      /\ n.fees = s.fees /\ n.actual = s.actual /\ n.tool = s.tool
  BY <1>1 DEF Session
<1>5. \/ Update(r, n) /\ Adjust(r, "subscription", -s.consumed)
      \/ sess' = [sess EXCEPT ![r] = t] /\ prof' = prof
         /\ Adjust(r, "subscription", -s.consumed)
      \/ Update(r, f) /\ NoAdjust
      \/ Fault(r, f)
  BY DEF RefundSubscription
<1> HIDE DEF n, f, t
<1>6. /\ "subscription" \in Accounts /\ "subscription" # "wallet"
      /\ -s.consumed \in Int
  BY <1>1 DEF Accounts, Funds, Session
<1>7. CASE Update(r, n) /\ Adjust(r, "subscription", -s.consumed)
  <2>1. EndConsistent(prof[r], n) /\ (n.clean => s.clean)
    BY <1>1, <1>4 DEF EndConsistent
  <2>2. Unasked(prof[r], n) = Unasked(prof[r], s)
    BY <1>1, <1>4 DEF Unasked
  <2>3. Unasked(prof[r], n) >= Unasked(prof[r], s)
    BY <1>1, <2>2, GoodOf, UnaskedInt
  <2>4. sess' = [sess EXCEPT ![r] = n] /\ prof' = prof
    BY <1>7 DEF Update
  <2> QED
    BY <1>6, <1>7, <2>1, <2>3, <2>4, AdjustMoves
<1>8. CASE sess' = [sess EXCEPT ![r] = t] /\ prof' = prof
           /\ Adjust(r, "subscription", -s.consumed)
  BY <1>3, <1>6, <1>8, QuietMoves
<1>9. CASE Update(r, f) /\ NoAdjust
  BY <1>3, <1>9, QuietMoves DEF Update
<1>10. CASE Fault(r, f)
  BY <1>3, <1>10, QuietFault
<1> QED
  BY <1>5, <1>7, <1>8, <1>9, <1>10

\* What reserve added goes back to a subscription.
LEMMA RefundExtraSteps ==
  ASSUME IInv, IInv', EndsConsistent, NEW r \in Requests, RefundExtra(r)
  PROVE  Steps(r)
<1> DEFINE s == sess[r]
           f == [s EXCEPT !.rpc = "token"]
           n == [s EXCEPT !.rpc = "token", !.rok = @ \cup {"extra"}]
<1>1. s \in Session
  BY GoodOf
<1>2. Quiet(s, f) /\ Quiet(s, n)
  BY <1>1 DEF Quiet, SameMoney, Session
<1>3. f \in Session
  BY <1>1 DEF Session, RefundPCs
<1>4. \/ Update(r, f) /\ NoAdjust
      \/ Update(r, n) /\ Adjust(r, "subscription", -s.extra)
      \/ Fault(r, f)
  BY DEF RefundExtra
<1> HIDE DEF n, f
<1>5. "subscription" \in Accounts \ {"wallet"} /\ -s.extra \in Int
  BY <1>1 DEF Accounts, Funds, Session
<1>6. CASE Update(r, f) /\ NoAdjust
  BY <1>2, <1>6, QuietMoves DEF Update
<1>7. CASE Update(r, n) /\ Adjust(r, "subscription", -s.extra)
  BY <1>2, <1>5, <1>7, QuietMoves DEF Update
<1>8. CASE Fault(r, f)
  BY <1>2, <1>3, <1>8, QuietFault
<1> QED
  BY <1>4, <1>6, <1>7, <1>8

\* The token gets its amount back.
LEMMA RefundTokenSteps ==
  ASSUME IInv, IInv', EndsConsistent, NEW r \in Requests, RefundToken(r)
  PROVE  Steps(r)
<1> DEFINE s == sess[r]
           f == [s EXCEPT !.rpc = "end"]
           n == [s EXCEPT !.rpc = "end", !.rok = @ \cup {"token"}]
<1>1. s \in Session
  BY GoodOf
<1>2. Quiet(s, f) /\ Quiet(s, n)
  BY <1>1 DEF Quiet, SameMoney, Session
<1>3. f \in Session
  BY <1>1 DEF Session, RefundPCs
<1>4. \/ Update(r, f) /\ NoAdjust
      \/ Update(r, n) /\ Adjust(r, "token", -s.tokenConsumed)
      \/ Fault(r, f)
  BY DEF RefundToken
<1> HIDE DEF n, f
<1>5. "token" \in Accounts \ {"wallet"} /\ -s.tokenConsumed \in Int
  BY <1>1 DEF Accounts, Session
<1>6. CASE Update(r, f) /\ NoAdjust
  BY <1>2, <1>6, QuietMoves DEF Update
<1>7. CASE Update(r, n) /\ Adjust(r, "token", -s.tokenConsumed)
  BY <1>2, <1>5, <1>7, QuietMoves DEF Update
<1>8. CASE Fault(r, f)
  BY <1>2, <1>3, <1>8, QuietFault
<1> QED
  BY <1>4, <1>6, <1>7, <1>8

\* The fee is taken from a wallet without a question.
LEMMA ChargeFeeFundingSteps ==
  ASSUME IInv, IInv', EndsConsistent, NEW r \in Requests, ChargeFeeFunding(r)
  PROVE  Steps(r)
<1> DEFINE s == sess[r]
           p == prof[r]
           n == [s EXCEPT !.pc = "feetoken", !.fees = @ \cup {"fund"}]
           f == [s EXCEPT !.pc = "done"]
<1>1. s \in Session /\ p \in ProfileSet /\ Good(p, s, paid[r])
      /\ s.pc = "feefund" /\ EndConsistent(p, s)
  BY GoodOf DEF ChargeFeeFunding, EndsConsistent
<1>2. s.err /\ s.fees = {} /\ s.src \in Funds
  <2>1. s.pc \notin BeforeHold
    BY <1>1 DEF BeforeHold
  <2> QED
    BY <1>1, <2>1 DEF Good, CommitConsistent, HoldConsistent
<1>3. /\ n.pc = "feetoken" /\ n.clean = s.clean /\ n.src = s.src
      /\ n.pre = s.pre /\ n.extra = s.extra /\ n.consumed = s.consumed
      /\ n.fundingSettled = s.fundingSettled /\ n.settled = s.settled
      /\ n.fees = s.fees \cup {"fund"} /\ n.actual = s.actual /\ n.tool = s.tool
      /\ n.rok = s.rok
  BY <1>1 DEF Session
<1>4. Quiet(s, f)
  BY <1>1, <1>2 DEF Quiet, SameMoney, Session
<1>5. f \in Session
  BY <1>1 DEF Session, PCs
<1>6. \/ Update(r, n) /\ Adjust(r, s.src, ViolationFee)
      \/ Update(r, f) /\ NoAdjust
      \/ Fault(r, f)
  BY DEF ChargeFeeFunding
<1> HIDE DEF n, f
<1>7. CASE Update(r, n) /\ Adjust(r, s.src, ViolationFee)
  <2>1. EndConsistent(p, n) /\ (n.clean => s.clean)
    BY <1>1, <1>3 DEF EndConsistent
  <2>2. /\ s.consumed \in Nat /\ s.pre \in Nat /\ s.extra \in Nat
        /\ s.actual \in Nat /\ s.tool \in Nat /\ ViolationFee \in Int
    BY <1>1, BillingAssumption DEF Session
  <2>3. Unasked(p, n) = Unasked(p, s)
                        + (IF s.src = "wallet" THEN ViolationFee ELSE 0)
    BY <1>2, <1>3, <2>2 DEF Unasked
  <2>4. Unasked(p, s) \in Int
    BY <1>1, UnaskedInt
  <2>5. \/ s.src # "wallet" /\ Unasked(p, n) >= Unasked(p, s)
        \/ s.src = "wallet" /\ Unasked(p, n) >= Unasked(p, s) + ViolationFee
    BY <2>2, <2>3, <2>4
  <2>6. s.src \in Accounts /\ sess' = [sess EXCEPT ![r] = n] /\ prof' = prof
    BY <1>2, <1>7 DEF Update, Accounts
  <2> QED
    BY <1>7, <2>1, <2>2, <2>5, <2>6, AdjustMoves
<1>8. CASE Update(r, f) /\ NoAdjust
  BY <1>4, <1>8, QuietMoves DEF Update
<1>9. CASE Fault(r, f)
  BY <1>4, <1>5, <1>9, QuietFault
<1> QED
  BY <1>6, <1>7, <1>8, <1>9

\* The fee on the token.
LEMMA ChargeFeeTokenSteps ==
  ASSUME IInv, IInv', EndsConsistent, NEW r \in Requests, ChargeFeeToken(r)
  PROVE  Steps(r)
<1> DEFINE s == sess[r]
           f == [s EXCEPT !.pc = "done"]
           n == [s EXCEPT !.pc = "done", !.fees = @ \cup {"token"}]
<1>1. s \in Session /\ Good(prof[r], s, paid[r]) /\ s.pc = "feetoken"
  BY GoodOf DEF ChargeFeeToken
<1>2. s.err /\ s.fees = {"fund"}
  BY <1>1 DEF Good, CommitConsistent
<1>3. Quiet(s, f) /\ Quiet(s, n)
  BY <1>1, <1>2 DEF Quiet, SameMoney, Session
<1>4. f \in Session
  BY <1>1 DEF Session, PCs
<1>5. n = [f EXCEPT !.fees = @ \cup {"token"}]
  BY <1>1 DEF Session
<1>6. \/ Update(r, f) /\ NoAdjust
      \/ Update(r, n) /\ Adjust(r, "token", ViolationFee)
      \/ Fault(r, f)
  BY <1>5 DEF ChargeFeeToken
<1> HIDE DEF n, f
<1>7. "token" \in Accounts \ {"wallet"} /\ ViolationFee \in Int
  BY BillingAssumption DEF Accounts
<1>8. CASE Update(r, f) /\ NoAdjust
  BY <1>3, <1>8, QuietMoves DEF Update
<1>9. CASE Update(r, n) /\ Adjust(r, "token", ViolationFee)
  BY <1>3, <1>7, <1>9, QuietMoves DEF Update
<1>10. CASE Fault(r, f)
  BY <1>3, <1>4, <1>10, QuietFault
<1> QED
  BY <1>6, <1>8, <1>9, <1>10

-----------------------------------------------------------------------------

\* Every step is a step of one request.
LEMMA EveryStep ==
  ASSUME IInv, IInv', EndsConsistent, NEW r \in Requests,
         Handle(r) \/ RefundStep(r)
  PROVE  Steps(r)
<1>1. CASE \E q \in Quotas : PreConsumeBilling(r, q)
  BY <1>1, PreConsumeBillingSteps
<1>2. CASE HasActiveUserSubscription(r) \/ TryWallet(r) \/ PreConsumeToken(r)
           \/ PreConsumeFunding(r) \/ RollbackToken(r)
  BY <1>2, HasActiveUserSubscriptionSteps, TryWalletSteps, PreConsumeTokenSteps,
     PreConsumeFundingSteps, RollbackTokenSteps
<1>3. CASE \E q \in Quotas : Reserve(r, q)
  BY <1>3, ReserveSteps
<1>4. CASE ReserveFunding(r) \/ ReserveToken(r) \/ RollbackFundingReserve(r)
  BY <1>4, ReserveFundingSteps, ReserveTokenSteps, RollbackFundingReserveSteps
<1>5. CASE Send(r) \/ UpstreamRetry(r) \/ UpstreamFails(r) \/ UpstreamNotBillable(r)
  BY <1>5, AttemptSteps
<1>6. CASE \E n \in Actuals, t \in ToolFees : UpstreamSucceeds(r, n, t)
  BY <1>6, UpstreamSucceedsSteps
<1>7. CASE SettleEven(r) \/ SettleFunding(r) \/ SettleToken(r) \/ SettleTool(r)
  BY <1>7, SettleEvenSteps, SettleFundingSteps, SettleTokenSteps, SettleToolSteps
<1>8. CASE \E v \in BOOLEAN : Refund(r, v)
  BY <1>8, RefundSteps
<1>9. CASE ChargeFeeFunding(r) \/ ChargeFeeToken(r)
  BY <1>9, ChargeFeeFundingSteps, ChargeFeeTokenSteps
<1>10. CASE RefundStep(r)
  BY <1>10, RefundWalletSteps, RefundSubscriptionSteps, RefundExtraSteps,
     RefundTokenSteps DEF RefundStep
<1> QED
  BY <1>1, <1>2, <1>3, <1>4, <1>5, <1>6, <1>7, <1>8, <1>9, <1>10 DEF Handle

\* How a session ends: EndsConsistent is inductive with IInv.
LEMMA EndsKeep ==
  ASSUME IInv, EndsConsistent, [Next]_vars
  PROVE  IInv' /\ EndsConsistent'
<1>1. IInv'
  BY NextPreserves
<1>2. CASE \E r \in Requests : Handle(r) \/ RefundStep(r)
  <2>1. PICK r \in Requests : Handle(r) \/ RefundStep(r)
    BY <1>2
  <2>2. Steps(r)
    BY <1>1, <2>1, EveryStep
  <2>3. ASSUME NEW q \in Requests PROVE EndConsistent(prof'[q], sess'[q])
    <3>1. CASE q = r
      BY <2>2, <3>1 DEF Steps
    <3>2. CASE q # r
      BY <2>2, <3>2 DEF Steps, EndsConsistent
    <3> QED
      BY <3>1, <3>2
  <2> QED
    BY <1>1, <2>3 DEF EndsConsistent
<1>3. CASE UNCHANGED vars
  BY <1>1, <1>3 DEF vars, EndsConsistent
<1> QED
  BY <1>2, <1>3 DEF Next, Terminating

\* At first no session has ended.
LEMMA InitEnds == Init => EndsConsistent
<1> SUFFICES ASSUME Init, NEW r \in Requests PROVE EndConsistent(prof[r], sess[r])
  BY DEF EndsConsistent
<1>1. sess[r] = NewSession
  BY DEF Init
<1> QED
  BY <1>1 DEF NewSession, EndConsistent

\* A session that ends without an error and without Settle gave its hold back,
\* unless its subscription could not pay the price; reserve never adds more
\* than is held, and only an answered request is settled
\* (service/billing_session.go, Settle, Refund and reserve).
THEOREM EndsAlwaysConsistent == Spec => []EndsConsistent
<1>1. Init => IInv /\ EndsConsistent
  BY InitIInv, InitEnds
<1>2. IInv /\ EndsConsistent /\ [Next]_vars => (IInv /\ EndsConsistent)'
  BY EndsKeep
<1> QED
  BY <1>1, <1>2, PTL DEF Spec

-----------------------------------------------------------------------------
(* Counting: a sum over requests, as the number of its units.              *)

Column(f, r) == {r} \X (1..f[r])

\* One request has as many units as f says.
LEMMA ColumnSize ==
  ASSUME NEW r, NEW f, f[r] \in Nat
  PROVE  IsFiniteSet(Column(f, r)) /\ Cardinality(Column(f, r)) = f[r]
<1>1. IsFiniteSet({r}) /\ Cardinality({r}) = 1
  BY FS_Singleton
<1>2. IsFiniteSet(1..f[r]) /\ Cardinality(1..f[r]) = f[r]
  BY FS_Interval, SMTT(30)
<1>3. /\ IsFiniteSet({r} \X (1..f[r]))
      /\ Cardinality({r} \X (1..f[r])) = Cardinality({r}) * Cardinality(1..f[r])
  BY <1>1, <1>2, FS_Product
<1> QED
  BY <1>1, <1>2, <1>3 DEF Column

\* The units of finitely many requests are finitely many.
LEMMA ColumnsFinite ==
  ASSUME NEW R \in SUBSET Requests, NEW f \in [Requests -> Nat]
  PROVE  IsFiniteSet(UNION {Column(f, q) : q \in R})
<1> DEFINE C == {Column(f, q) : q \in R}
           h == [q \in R |-> Column(f, q)]
<1>1. IsFiniteSet(R)
  BY RequestsFinite, FS_Subset
<1>2. h \in Surjection(R, C)
  BY DEF Surjection
<1>3. IsFiniteSet(C)
  BY <1>1, <1>2, FS_Surjection
<1>4. \A T \in C : IsFiniteSet(T)
  BY ColumnSize
<1> QED
  BY <1>3, <1>4, FS_UNION

\* All units are those of r and those of the others.
LEMMA UnitsSplit ==
  ASSUME NEW f \in [Requests -> Nat], NEW r \in Requests
  PROVE  LET rest == UNION {Column(f, q) : q \in Requests \ {r}}
         IN  /\ IsFiniteSet(rest)
             /\ Cardinality(rest) \in Nat
             /\ Cardinality(Units(f)) = Cardinality(rest) + f[r]
<1> DEFINE rest == UNION {Column(f, q) : q \in Requests \ {r}}
           mine == Column(f, r)
<1>1. IsFiniteSet(rest)
  BY ColumnsFinite
<1>2. IsFiniteSet(mine) /\ Cardinality(mine) = f[r] /\ f[r] \in Nat
  BY ColumnSize
<1>3. Cardinality(rest) \in Nat
  BY <1>1, FS_CardinalityType
<1>4. rest \cap mine = {}
  BY DEF Column
<1>5. Units(f) = rest \cup mine
  BY DEF Units, Column
<1> HIDE DEF rest, mine
<1>6. Cardinality(rest \cup mine)
        = Cardinality(rest) + Cardinality(mine) - Cardinality(rest \cap mine)
  BY <1>1, <1>2, FS_Union
<1>7. Cardinality(rest \cap mine) = 0
  BY <1>4, FS_EmptySet
<1>8. Cardinality(Units(f)) = Cardinality(rest) + f[r]
  BY <1>2, <1>3, <1>5, <1>6, <1>7
<1> QED
  BY <1>1, <1>3, <1>8 DEF rest

\* When only r's amount changes, the total changes as it does.
LEMMA UnitsChange ==
  ASSUME NEW f \in [Requests -> Nat], NEW g \in [Requests -> Nat],
         NEW r \in Requests, \A q \in Requests \ {r} : g[q] = f[q]
  PROVE  /\ Cardinality(Units(f)) \in Nat /\ Cardinality(Units(g)) \in Nat
         /\ Cardinality(Units(g)) - g[r] = Cardinality(Units(f)) - f[r]
<1> DEFINE R(e) == UNION {Column(e, q) : q \in Requests \ {r}}
<1>1. R(g) = R(f)
  BY DEF Column
<1>2. Cardinality(R(f)) \in Nat /\ Cardinality(Units(f)) = Cardinality(R(f)) + f[r]
  BY UnitsSplit
<1>3. Cardinality(Units(g)) = Cardinality(R(g)) + g[r]
  BY UnitsSplit
<1> HIDE DEF R
<1> QED
  BY <1>1, <1>2, <1>3

-----------------------------------------------------------------------------
(* The wallet's debt.                                                      *)

Taken == [r \in Requests |-> Unasked(prof[r], sess[r])]

LEMMA TakenType == IInv /\ EndsConsistent => Taken \in [Requests -> Nat]
<1> SUFFICES ASSUME IInv, EndsConsistent PROVE Taken \in [Requests -> Nat]
  OBVIOUS
<1>1. ASSUME NEW r \in Requests PROVE Unasked(prof[r], sess[r]) \in Nat
  <2>1. /\ prof[r] \in ProfileSet /\ sess[r] \in Session
        /\ Good(prof[r], sess[r], paid[r])
    BY GoodOf
  <2>2. sess[r].extra <= sess[r].pre
    BY DEF EndsConsistent, EndConsistent
  <2> QED
    BY <2>1, <2>2, UnaskedType
<1> QED
  BY <1>1 DEF Taken

\* At first the wallet has what it has.
LEMMA InitDebt ==
  ASSUME Init
  PROVE  DebtIsUsage
<1>1. Taken \in [Requests -> Nat]
  BY InitIInv, InitEnds, TakenType
<1>2. UNION {Column(Taken, q) : q \in Requests} = Units(Taken)
  BY DEF Units, Column
<1>3. IsFiniteSet(Units(Taken))
  BY <1>1, <1>2, ColumnsFinite
<1>4. Cardinality(Units(Taken)) \in Nat
  BY <1>3, FS_CardinalityType
<1>5. acct["wallet"] = InitWallet /\ InitWallet \in Int
  BY BillingAssumption DEF Init, Accounts, Funds
<1> QED
  BY <1>4, <1>5 DEF DebtIsUsage, Taken

\* A step takes what is there or counts it as not asked for.
LEMMA DebtKeeps ==
  ASSUME IInv, EndsConsistent, DebtIsUsage, [Next]_vars
  PROVE  DebtIsUsage'
<1>1. IInv' /\ EndsConsistent'
  BY EndsKeep
<1> DEFINE g == [q \in Requests |-> Unasked(prof'[q], sess'[q])]
           low == IF InitWallet < 0 THEN InitWallet ELSE 0
<1>2. /\ Taken \in [Requests -> Nat]
      /\ acct["wallet"] + Cardinality(Units(Taken)) >= low
      /\ acct["wallet"] \in Int /\ acct'["wallet"] \in Int
      /\ low \in Int /\ low <= 0
  <2>1. Taken \in [Requests -> Nat]
    BY TakenType
  <2>2. acct["wallet"] + Cardinality(Units(Taken)) >= low
    BY DEF DebtIsUsage, Taken
  <2>3. acct["wallet"] \in Int /\ acct'["wallet"] \in Int
    BY <1>1 DEF IInv, TypeOK, Accounts, Funds
  <2>4. low \in Int /\ low <= 0
    BY BillingAssumption
  <2> QED
    BY <2>1, <2>2, <2>3, <2>4
<1>3. g \in [Requests -> Nat]
  <2>1. (IInv /\ EndsConsistent => Taken \in [Requests -> Nat])'
    BY TakenType, PTL
  <2> QED
    BY <1>1, <2>1 DEF Taken
<1>4. DebtIsUsage' <=> acct'["wallet"] + Cardinality(Units(g)) >= low
  BY DEF DebtIsUsage, Units
<1> HIDE DEF low
<1>5. CASE \E r \in Requests : Handle(r) \/ RefundStep(r)
  <2>1. PICK r \in Requests : Handle(r) \/ RefundStep(r)
    BY <1>5
  <2>2. Steps(r)
    BY <1>1, <2>1, EveryStep
  <2>3. /\ \A q \in Requests \ {r} : g[q] = Taken[q]
        /\ g[r] = Unasked(prof[r], sess'[r]) /\ Taken[r] = Unasked(prof[r], sess[r])
    BY <2>2 DEF Steps, Taken
  <2> HIDE DEF g
  <2>4. /\ Cardinality(Units(Taken)) \in Nat /\ Cardinality(Units(g)) \in Nat
        /\ Cardinality(Units(g)) - g[r] = Cardinality(Units(Taken)) - Taken[r]
    BY <1>2, <1>3, <2>3, UnitsChange
  <2>5. \/ acct'["wallet"] >= 0
        \/ acct'["wallet"] + g[r] >= acct["wallet"] + Taken[r]
    BY <2>2, <2>3 DEF Steps
  <2>6. g[r] \in Nat /\ Taken[r] \in Nat
    BY <1>2, <1>3
  <2> QED
    BY <1>2, <1>4, <2>4, <2>5, <2>6
<1>6. CASE UNCHANGED vars
  BY <1>2, <1>4, <1>6 DEF vars, Taken
<1> QED
  BY <1>5, <1>6 DEF Next, Terminating

\* Concurrent holds never spend the same quota twice, for any number of
\* requests: the wallet's debt is usage charged after the fact
\* (model/quota_reserve.go takes a hold only from what is there).
THEOREM DebtIsAlwaysUsage == Spec => []DebtIsUsage
<1>1. Init => IInv /\ EndsConsistent /\ DebtIsUsage
  BY InitIInv, InitEnds, InitDebt
<1>2. IInv /\ EndsConsistent /\ DebtIsUsage /\ [Next]_vars
        => (IInv /\ EndsConsistent /\ DebtIsUsage)'
  BY EndsKeep, DebtKeeps
<1> QED
  BY <1>1, <1>2, PTL DEF Spec

-----------------------------------------------------------------------------
(* BillingSession implements Ledger: what the charges m of a request with  *)
(* session s are when it has ended without a failed call.                  *)

Ended(p, s, m) ==
    /\ p \in ProfileSet /\ s \in Session /\ m \in Charges
    /\ Good(p, s, m) /\ EndConsistent(p, s)
    /\ s.clean /\ s.pc \in {"rejected", "done"} /\ s.rpc \in {"none", "end"}

\* The charges are determined by what each account was charged.
LEMMA ChargesAre ==
  ASSUME NEW m \in Charges, NEW f \in Funds, NEW n, NEW t,
         m[f] = n, m["token"] = t, \A a \in Funds \ {f} : m[a] = 0
  PROVE  m = Book!On(f, n, t)
<1>1. \A a \in Accounts : m[a] = IF a = f THEN n ELSE IF a = "token" THEN t ELSE 0
  BY DEF Accounts, Funds
<1>2. m = [a \in Accounts |-> m[a]]
  BY DEF Charges
<1> QED
  BY <1>1, <1>2 DEF Book!On

\* The real price, on the source and on the token.
LEMMA EndCharged ==
  ASSUME NEW p, NEW s, NEW m, Ended(p, s, m), s.settled, ~TokenSubscription(p)
  PROVE  \E f \in Funds, n \in Actuals : \E t \in {0, n} : m = Book!On(f, n, t)
<1>1. /\ p \in ProfileSet /\ s \in Session /\ m \in Charges /\ Good(p, s, m)
      /\ s.actual \in Actuals /\ s.clean
  BY DEF Ended, EndConsistent
<1>2. /\ s.pc \notin BeforeHold \cup Holding /\ s.src \in Funds
      /\ s.rpc = "none" /\ s.rok = {}
  BY <1>1 DEF Good, HoldConsistent, CommitConsistent, RefundConsistent
<1>3. s.fees = {}
  BY <1>1, <1>2 DEF Good, CommitConsistent, RefundConsistent, AfterRefund, Session
<1>4. SettleDelta(p, s) = s.actual - s.pre
  BY <1>1 DEF SettleDelta, SettleBase, Good, CommitConsistent, Session
<1>5. BookedFunding(p, s) = s.actual
  BY <1>1, <1>2, <1>3, <1>4
  DEF BookedFunding, Fee, Good, HoldConsistent, BeforeHold, Holding, Raising, Session
<1>6. BookedToken(p, s) = IF p.playground THEN 0 ELSE s.actual
  BY <1>1, <1>2, <1>3, <1>4 DEF BookedToken, Fee, Good, HoldConsistent, Session
<1>7. s.tool = 0
  BY <1>1 DEF Good, HoldConsistent
<1>8. \A a \in Accounts : m[a] = Booked(p, s, a)
  BY <1>1 DEF Good, BooksOf
<1>9. /\ m[s.src] = s.actual /\ m["token"] = IF p.playground THEN 0 ELSE s.actual
      /\ \A a \in Funds \ {s.src} : m[a] = 0
  BY <1>2, <1>5, <1>6, <1>7, <1>8 DEF Booked, Accounts, Funds
<1>10. m = Book!On(s.src, s.actual, IF p.playground THEN 0 ELSE s.actual)
  BY <1>1, <1>2, <1>9, ChargesAre
<1> QED
  BY <1>1, <1>2, <1>10

\* A token subscription: the wallet pays the tools.
LEMMA EndTools ==
  ASSUME NEW p, NEW s, NEW m, Ended(p, s, m), s.settled, TokenSubscription(p)
  PROVE  \E n \in Actuals, u \in ToolFees :
           m = [Book!On("subscription", n, 0) EXCEPT !["wallet"] = u]
<1>1. /\ p \in ProfileSet /\ s \in Session /\ m \in Charges /\ Good(p, s, m)
      /\ s.actual \in Actuals /\ s.tool \in ToolFees /\ s.clean
  BY DEF Ended, EndConsistent
<1>2. /\ s.pc \notin BeforeHold \cup Holding /\ s.src = "subscription"
      /\ s.rpc = "none" /\ s.rok = {}
  BY <1>1 DEF Good, HoldConsistent, CommitConsistent, RefundConsistent, BeforeHold
<1>3. s.fees = {}
  BY <1>1, <1>2 DEF Good, CommitConsistent, RefundConsistent, AfterRefund, Session
<1>4. SettleDelta(p, s) = s.actual - s.consumed
  BY <1>1 DEF SettleDelta, SettleBase, Good, CommitConsistent, Session
<1>5. BookedFunding(p, s) = s.actual
  BY <1>1, <1>2, <1>3, <1>4
  DEF BookedFunding, Fee, Good, HoldConsistent, BeforeHold, Holding, Raising, Session
<1>6. BookedToken(p, s) = 0
  BY <1>1, <1>2, <1>3, <1>4 DEF BookedToken, Fee, Good, HoldConsistent, Session
<1>7. \A a \in Accounts : m[a] = Booked(p, s, a)
  BY <1>1 DEF Good, BooksOf
<1>8. \A a \in Accounts : m[a] = IF a = "subscription" THEN s.actual
                                 ELSE IF a = "wallet" THEN s.tool ELSE 0
  BY <1>2, <1>5, <1>6, <1>7 DEF Booked, Accounts, Funds
<1>9. m = [a \in Accounts |-> m[a]]
  BY <1>1 DEF Charges
<1>10. m = [Book!On("subscription", s.actual, 0) EXCEPT !["wallet"] = s.tool]
  BY <1>8, <1>9 DEF Book!On, Accounts, Funds
<1> QED
  BY <1>1, <1>10

\* Everything was given back, the fee apart.
LEMMA EndReturned ==
  ASSUME NEW p, NEW s, NEW m, Ended(p, s, m), ~SingleWriter, ~s.settled,
         s.err \/ s.refunded \/ s.pre = 0
  PROVE  /\ BookedToken(p, s) = IF p.playground THEN 0 ELSE Fee(s, "token")
         /\ BookedFunding(p, s) = Fee(s, "fund")
         /\ \A a \in Accounts : m[a] = Booked(p, s, a)
<1>1. /\ p \in ProfileSet /\ s \in Session /\ Good(p, s, m) /\ s.clean
      /\ s.pc \in {"rejected", "done"} /\ s.rpc \in {"none", "end"}
      /\ EndConsistent(p, s)
  BY DEF Ended
<1>2. ~s.fundingSettled
  <2>1. CASE s.pc = "rejected"
    BY <1>1, <2>1 DEF Good, CommitConsistent, BeforeHold
  <2>2. CASE s.pc = "done" /\ s.err
    BY <1>1, <2>2 DEF Good, RefundConsistent, AfterRefund
  <2>3. CASE s.pc = "done" /\ ~s.err
    BY <1>1, <2>3 DEF EndConsistent
  <2> QED
    BY <1>1, <2>1, <2>2, <2>3
<1>3. SettleDelta(p, s) = 0
  BY <1>2 DEF SettleDelta
<1>4. /\ ~p.playground /\ "token" \notin s.rok => s.tokenConsumed = 0
      /\ "fund" \notin s.rok => s.consumed = 0
      /\ s.src = "subscription" /\ "extra" \notin s.rok => s.extra = 0
  <2>1. CASE s.pc = "rejected"
    BY <1>1, <2>1 DEF Good, HoldConsistent, BeforeHold
  <2>2. CASE s.pc = "done" /\ s.refunded
    <3>1. s.rpc = "end"
      BY <1>1, <2>2 DEF Good, RefundConsistent
    <3> QED
      BY <1>1, <3>1 DEF Good, RefundConsistent, Session
  <2>3. CASE s.pc = "done" /\ ~s.refunded
    <3>1. s.pre = 0
      BY <1>1, <2>3 DEF Good, RefundConsistent, AfterRefund
    <3> QED
      BY <1>1, <2>3, <3>1 DEF Good, HoldConsistent, BeforeHold, Session
  <2> QED
    BY <1>1, <2>1, <2>2, <2>3
<1>5. /\ s.tokenConsumed \in Nat /\ s.consumed \in Nat /\ s.extra \in Nat
      /\ Fee(s, "token") \in Nat /\ Fee(s, "fund") \in Nat
  BY <1>1, BillingAssumption DEF Session, Fee
<1>6. BookedToken(p, s) = IF p.playground THEN 0 ELSE Fee(s, "token")
  BY <1>4, <1>5 DEF BookedToken
<1>7. BookedFunding(p, s) = Fee(s, "fund")
  BY <1>1, <1>3, <1>4, <1>5 DEF BookedFunding
<1>8. \A a \in Accounts : m[a] = Booked(p, s, a)
  BY <1>1 DEF Good, BooksOf
<1> QED
  BY <1>6, <1>7, <1>8

\* Nothing but the fee.
LEMMA EndFined ==
  ASSUME NEW p, NEW s, NEW m, Ended(p, s, m), ~SingleWriter, ~s.settled,
         s.fees # {}
  PROVE  \E f \in Funds, t \in {0, ViolationFee} : m = Book!On(f, ViolationFee, t)
<1>1. /\ p \in ProfileSet /\ s \in Session /\ m \in Charges /\ Good(p, s, m)
      /\ s.pc \in {"rejected", "done"} /\ "fund" \in s.fees
  BY DEF Ended, EndConsistent
<1>2. s.err /\ s.pc = "done"
  BY <1>1 DEF Good, CommitConsistent, AfterRefund
<1>3. s.src \in Funds
  BY <1>1, <1>2 DEF Good, HoldConsistent, BeforeHold
<1>4. /\ BookedToken(p, s) = IF p.playground THEN 0 ELSE Fee(s, "token")
      /\ BookedFunding(p, s) = Fee(s, "fund")
      /\ \A a \in Accounts : m[a] = Booked(p, s, a)
  BY <1>2, EndReturned
<1>5. Fee(s, "fund") = ViolationFee /\ Fee(s, "token") \in {0, ViolationFee}
  BY <1>1 DEF Fee
<1>6. /\ m[s.src] = ViolationFee /\ m["token"] \in {0, ViolationFee}
      /\ \A a \in Funds \ {s.src} : m[a] = 0
  BY <1>3, <1>4, <1>5 DEF Booked, Accounts, Funds
<1>7. m = Book!On(s.src, ViolationFee, m["token"])
  BY <1>1, <1>3, <1>6, ChargesAre
<1> QED
  BY <1>3, <1>6, <1>7

\* Nothing at all.
LEMMA EndFree ==
  ASSUME NEW p, NEW s, NEW m, Ended(p, s, m), ~SingleWriter, ~s.settled,
         s.fees = {}, s.err \/ s.refunded \/ s.pre = 0
  PROVE  m = Book!Nothing
<1>1. /\ BookedToken(p, s) = IF p.playground THEN 0 ELSE Fee(s, "token")
      /\ BookedFunding(p, s) = Fee(s, "fund")
      /\ \A a \in Accounts : m[a] = Booked(p, s, a)
  BY EndReturned
<1>2. Fee(s, "fund") = 0 /\ Fee(s, "token") = 0
  BY DEF Fee
<1>3. \A a \in Accounts : m[a] = 0
  BY <1>1, <1>2 DEF Booked
<1>4. m = [a \in Accounts |-> m[a]]
  BY DEF Ended, Charges
<1> QED
  BY <1>3, <1>4 DEF Book!Nothing

\* What was reserved on a subscription that could not pay the price.
LEMMA EndShort ==
  ASSUME NEW p, NEW s, NEW m, Ended(p, s, m), ~s.settled,
         s.fees = {}, ~s.err, ~s.refunded, s.pre # 0
  PROVE  \E k \in Actuals : \E n \in 1..(k - 1) : \E t \in {0, n} :
           m = Book!On("subscription", n, t)
<1>1. /\ p \in ProfileSet /\ s \in Session /\ m \in Charges /\ Good(p, s, m)
      /\ s.pc \in {"rejected", "done"} /\ s.clean /\ EndConsistent(p, s)
  BY DEF Ended
<1>2. s.pc = "done"
  BY <1>1 DEF Good, HoldConsistent, BeforeHold
<1>3. /\ ~s.fundingSettled /\ s.src = "subscription"
      /\ s.actual \in Actuals /\ s.actual > s.pre
  BY <1>1, <1>2 DEF EndConsistent
<1>4. s.rok = {}
  BY <1>1 DEF Good, RefundConsistent
<1>5. /\ s.pre \in Nat /\ s.actual \in Nat /\ s.consumed \in Nat /\ s.extra \in Nat
  BY <1>1 DEF Session
<1>6. /\ s.pre = s.consumed + s.extra
      /\ s.tokenConsumed = IF TokenSubscription(p) THEN 0 ELSE s.pre
  BY <1>1, <1>2, <1>3 DEF Good, HoldConsistent, BeforeHold
<1>7. BookedFunding(p, s) = s.pre
  BY <1>2, <1>3, <1>4, <1>5, <1>6 DEF BookedFunding, SettleDelta, Fee
<1>8. BookedToken(p, s) \in {0, s.pre}
  BY <1>4, <1>5, <1>6 DEF BookedToken, Fee
<1>9. \A a \in Accounts : m[a] = Booked(p, s, a)
  BY <1>1 DEF Good, BooksOf
<1>10. /\ m["subscription"] = s.pre /\ m["token"] \in {0, s.pre}
       /\ \A a \in Funds \ {"subscription"} : m[a] = 0
  BY <1>3, <1>7, <1>8, <1>9 DEF Booked, Accounts, Funds
<1>11. "subscription" \in Funds
  BY DEF Funds
<1>12. m = Book!On("subscription", s.pre, m["token"])
  BY <1>1, <1>10, <1>11, ChargesAre
<1>13. s.pre \in 1..(s.actual - 1)
  BY <1>3, <1>5
<1> QED
  BY <1>3, <1>10, <1>12, <1>13

\* A step of a request on its bill.
LEMMA CloseBill ==
  ASSUME NEW r \in Requests, NEW st, NEW c,
         \A q \in Requests \ {r} : Bill(q)' = Bill(q),
         Bill(r).state = "open",
         Bill(r)' = [state |-> st, charges |-> c]
  PROVE  Book!Close(r, st, c)
<1>1. Bills' = [Bills EXCEPT ![r] = [state |-> st, charges |-> c]]
  BY DEF Bills
<1> QED
  BY <1>1 DEF Book!Close, Bills

\* A request that takes a step has not ended.
LEMMA StepOpen ==
  ASSUME NEW r \in Requests, Handle(r) \/ RefundStep(r)
  PROVE  ~Finished(r)
<1>1. CASE Handle(r)
  <2>1. sess[r].pc \notin {"rejected", "done"}
    BY <1>1 DEF Handle, PreConsumeBilling, HasActiveUserSubscription, TryWallet,
       PreConsumeToken, PreConsumeFunding, RollbackToken, Reserve, Send,
       ReserveFunding, ReserveToken, RollbackFundingReserve, UpstreamRetry,
       UpstreamFails, UpstreamNotBillable, UpstreamSucceeds, SettleEven,
       SettleFunding, SettleToken, SettleTool, Refund, ChargeFeeFunding,
       ChargeFeeToken
  <2> QED
    BY <2>1 DEF Finished
<1>2. CASE RefundStep(r)
  <2>1. sess[r].rpc \in {"fund", "extra", "token"}
    BY <1>2 DEF RefundStep, RefundWallet, RefundSubscription, RefundExtra,
                RefundToken
  <2> QED
    BY <2>1 DEF Finished, RefundOver
<1> QED
  BY <1>1, <1>2

\* Every step of BillingSession is a step of Ledger or leaves it as it is.
LEMMA NextRefines ==
  ASSUME ~SingleWriter, IInv, EndsConsistent, [Next]_vars
  PROVE  [Book!Next]_Bills
<1>1. IInv' /\ EndsConsistent'
  BY EndsKeep
<1>2. CASE \E r \in Requests : Handle(r) \/ RefundStep(r)
  <2>1. PICK r \in Requests : Handle(r) \/ RefundStep(r)
    BY <1>2
  <2>2. Steps(r)
    BY <1>1, <2>1, EveryStep
  <2> DEFINE s == sess[r]
             n == sess'[r]
             m == paid'[r]
             p == prof[r]
             zero == [a \in Accounts |-> 0]
  <2>3. \A q \in Requests \ {r} : Bill(q)' = Bill(q)
    BY <2>2 DEF Steps, Bill, BillState, Finished, RefundOver
  <2>4. /\ prof' = prof /\ (n.clean => s.clean) /\ EndConsistent(p, n)
    BY <2>2 DEF Steps
  <2>5. ~Finished(r)
    BY <2>1, StepOpen
  <2>6. /\ s.clean => Bill(r) = [state |-> "open", charges |-> zero]
        /\ ~s.clean => Bill(r) = [state |-> "disputed", charges |-> zero]
    BY <2>5 DEF Bill, BillState
  <2>7. CASE ~n.clean
    <3>1. Bill(r)' = [state |-> "disputed", charges |-> zero]
      BY <2>7 DEF Bill, BillState
    <3>2. CASE s.clean
      <4>1. Book!Close(r, "disputed", zero)
        BY <2>3, <2>6, <3>1, <3>2, CloseBill
      <4> QED
        BY <4>1 DEF Book!Next, Book!Dispute, Book!Nothing
    <3>3. CASE ~s.clean
      <4>1. \A q \in Requests : Bill(q)' = Bill(q)
        BY <2>3, <2>6, <3>1, <3>3
      <4> QED
        BY <4>1 DEF Bills
    <3> QED
      BY <3>2, <3>3
  <2>8. CASE n.clean /\ ~Finished(r)'
    <3>1. Bill(r)' = [state |-> "open", charges |-> zero]
      BY <2>8 DEF Bill, BillState
    <3>2. \A q \in Requests : Bill(q)' = Bill(q)
      BY <2>3, <2>4, <2>6, <2>8, <3>1
    <3> QED
      BY <3>2 DEF Bills
  <2>9. CASE n.clean /\ Finished(r)'
    <3>1. Bill(r).state = "open"
      BY <2>4, <2>6, <2>9
    <3>2. Ended(p, n, m)
      <4>1. p \in ProfileSet /\ n \in Session /\ Good(p, n, m)
        BY <1>1, <2>4, Facts
      <4>2. m \in Charges
        BY <1>1 DEF IInv, TypeOK, Charges
      <4>3. n.pc \in {"rejected", "done"} /\ n.rpc \in {"none", "end"}
        BY <2>9 DEF Finished, RefundOver
      <4> QED
        BY <2>4, <2>9, <4>1, <4>2, <4>3 DEF Ended
    <3>3. Bill(r)' = [state |-> IF n.settled THEN "charged"
                                ELSE IF n.fees # {} THEN "fined"
                                ELSE IF n.err \/ n.refunded \/ n.pre = 0
                                THEN "free" ELSE "short",
                      charges |-> m]
      BY <2>9 DEF Bill, BillState
    <3> HIDE DEF n, m, p
    <3>4. CASE n.settled /\ ~TokenSubscription(p)
      <4>1. Book!Close(r, "charged", m)
        BY <2>3, <3>1, <3>3, <3>4, CloseBill
      <4>2. \E f \in Funds, k \in Actuals : \E t \in {0, k} : m = Book!On(f, k, t)
        BY <3>2, <3>4, EndCharged
      <4>3. Book!Charge(r)
        BY <4>1, <4>2 DEF Book!Charge
      <4> QED
        BY <4>3 DEF Book!Next
    <3>5. CASE n.settled /\ TokenSubscription(p)
      <4>1. Book!Close(r, "charged", m)
        BY <2>3, <3>1, <3>3, <3>5, CloseBill
      <4>2. \E k \in Actuals, u \in ToolFees :
              m = [Book!On("subscription", k, 0) EXCEPT !["wallet"] = u]
        BY <3>2, <3>5, EndTools
      <4>3. Book!ChargeTools(r)
        BY <4>1, <4>2 DEF Book!ChargeTools
      <4> QED
        BY <4>3 DEF Book!Next
    <3>6. CASE ~n.settled /\ n.fees # {}
      <4>1. Book!Close(r, "fined", m)
        BY <2>3, <3>1, <3>3, <3>6, CloseBill
      <4>2. \E f \in Funds, t \in {0, ViolationFee} : m = Book!On(f, ViolationFee, t)
        BY <3>2, <3>6, EndFined
      <4>3. Book!Fine(r)
        BY <4>1, <4>2 DEF Book!Fine
      <4> QED
        BY <4>3 DEF Book!Next
    <3>7. CASE ~n.settled /\ n.fees = {} /\ (n.err \/ n.refunded \/ n.pre = 0)
      <4>1. Book!Close(r, "free", m)
        BY <2>3, <3>1, <3>3, <3>7, CloseBill
      <4>2. m = Book!Nothing
        BY <3>2, <3>7, EndFree
      <4>3. Book!Release(r)
        BY <4>1, <4>2 DEF Book!Release
      <4> QED
        BY <4>3 DEF Book!Next
    <3>8. CASE ~n.settled /\ n.fees = {} /\ ~(n.err \/ n.refunded \/ n.pre = 0)
      <4>1. Book!Close(r, "short", m)
        BY <2>3, <3>1, <3>3, <3>8, CloseBill
      <4>2. \E k \in Actuals : \E i \in 1..(k - 1) : \E t \in {0, i} :
              m = Book!On("subscription", i, t)
        BY <3>2, <3>8, EndShort
      <4>3. Book!Keep(r)
        BY <4>1, <4>2 DEF Book!Keep
      <4> QED
        BY <4>3 DEF Book!Next
    <3> QED
      BY <3>4, <3>5, <3>6, <3>7, <3>8
  <2> QED
    BY <2>7, <2>8, <2>9
<1>3. CASE UNCHANGED vars
  BY <1>3 DEF vars, Bills, Bill, BillState, Finished, RefundOver
<1> QED
  BY <1>2, <1>3 DEF Next, Terminating

\* At first every bill is open.
LEMMA InitRefines == Init => Book!Init
<1> SUFFICES ASSUME Init PROVE Book!Init
  OBVIOUS
<1>1. ASSUME NEW r \in Requests
      PROVE  Bill(r) = [state |-> "open", charges |-> [a \in Accounts |-> 0]]
  <2>1. sess[r].pc = "idle" /\ sess[r].clean
    BY DEF Init, NewSession
  <2>2. ~Finished(r)
    BY <2>1 DEF Finished
  <2> QED
    BY <2>1, <2>2 DEF Bill, BillState
<1> QED
  BY <1>1 DEF Book!Init, Book!Nothing, Bills

\* BillingSession implements Ledger on a database with concurrent write
\* transactions: whatever holds, raises, retries, rollbacks and refunds come
\* between, and whatever the other requests do, a request is billed once, in
\* one step, exactly and for good (Settle, Refund and reserve of
\* service/billing_session.go).
THEOREM LedgerRefinement ==
  ASSUME ~SingleWriter
  PROVE  Spec => LedgerSpec
<1>1. Init => IInv /\ EndsConsistent /\ Book!Init
  BY InitIInv, InitEnds, InitRefines
<1>2. IInv /\ EndsConsistent /\ [Next]_vars => (IInv /\ EndsConsistent)'
  BY EndsKeep
<1>3. IInv /\ EndsConsistent /\ [Next]_vars => [Book!Next]_Bills
  BY NextRefines
<1> QED
  BY <1>1, <1>2, <1>3, PTL DEF Spec, LedgerSpec, Book!Spec
=============================================================================
