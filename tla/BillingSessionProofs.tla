------------------------ MODULE BillingSessionProofs ------------------------
(***************************************************************************)
(* Proofs about BillingSession, for every set of requests, every set of    *)
(* profiles and prices, every initial balance and every number of retries  *)
(* and of failed database calls.                                           *)
(***************************************************************************)
EXTENDS BillingSession, TLAPS

Charges == [Accounts -> Int]

\* The part of the inductive invariant that concerns one request with
\* profile p, session s and charges m.
BooksOf(p, s, m) ==
    \A a \in Accounts :
        s.clean \/ a \in {"wallet", "organization"} => m[a] = Booked(p, s, a)

Good(p, s, m) ==
    /\ HoldConsistent(p, s)
    /\ CommitConsistent(p, s)
    /\ RefundConsistent(p, s)
    /\ TokenFloor(p, s, m)
    /\ BooksOf(p, s, m)

-----------------------------------------------------------------------------
(* From one request to the whole state.                                    *)

\* What the invariant says of one request.
LEMMA GoodOf ==
  ASSUME IInv, NEW r \in Requests
  PROVE  /\ prof[r] \in ProfileSet
         /\ sess[r] \in Session
         /\ paid[r] \in Charges
         /\ Good(prof[r], sess[r], paid[r])
  BY BillingAssumption DEF IInv, TypeOK, SessionsConsistent, BooksMatch, Good,
                           BooksOf, Charges

\* A step that changes the session and the charges of r only, and leaves
\* them good, preserves the invariant.
LEMMA OneRequest ==
  ASSUME IInv, NEW r \in Requests, NEW s \in Session, NEW m \in Charges,
         sess' = [sess EXCEPT ![r] = s],
         paid' = [paid EXCEPT ![r] = m],
         prof' = prof,
         acct' \in [Accounts -> Int],
         faults' \in 0..MaxFaults,
         Good(prof[r], s, m)
  PROVE  IInv'
<1>1. TypeOK'
  BY DEF IInv, TypeOK, Charges
<1>2. ASSUME NEW q \in Requests
      PROVE  Good(prof'[q], sess'[q], paid'[q])
  <2>1. CASE q = r
    BY <2>1 DEF IInv, TypeOK
  <2>2. CASE q # r
    <3>1. Good(prof[q], sess[q], paid[q])
      BY GoodOf
    <3> QED
      BY <2>2, <3>1 DEF IInv, TypeOK
  <2> QED
    BY <2>1, <2>2
<1>3. SessionsConsistent'
  BY <1>2 DEF SessionsConsistent, Good
<1>4. BooksMatch'
  BY <1>2 DEF BooksMatch, Good, BooksOf
<1> QED
  BY <1>1, <1>3, <1>4 DEF IInv

\* The same for the three shapes a step has: no account is touched, one
\* account is charged or credited, or a database call failed.
LEMMA UpdateStep ==
  ASSUME IInv, NEW r \in Requests, NEW s \in Session,
         Update(r, s), NoAdjust, Good(prof[r], s, paid[r])
  PROVE  IInv'
<1>1. paid' = [paid EXCEPT ![r] = paid[r]] /\ paid[r] \in Charges
  BY DEF NoAdjust, IInv, TypeOK, Charges
<1>2. /\ sess' = [sess EXCEPT ![r] = s]
      /\ prof' = prof /\ acct' \in [Accounts -> Int] /\ faults' \in 0..MaxFaults
  BY DEF Update, NoAdjust, IInv, TypeOK
<1> QED
  BY <1>1, <1>2, OneRequest

\* The step charges n on account a for r (n < 0 returns it).
LEMMA AdjustStep ==
  ASSUME IInv, NEW r \in Requests, NEW s \in Session,
         NEW a \in Accounts, NEW n \in Int,
         sess' = [sess EXCEPT ![r] = s], prof' = prof, faults' \in 0..MaxFaults,
         Adjust(r, a, n), Good(prof[r], s, [paid[r] EXCEPT ![a] = @ + n])
  PROVE  IInv'
<1> DEFINE m == [paid[r] EXCEPT ![a] = @ + n]
<1>1. paid[r] \in [Accounts -> Int] /\ acct \in [Accounts -> Int]
  BY DEF IInv, TypeOK
<1>2. m \in Charges
  BY <1>1 DEF Charges
<1>3. paid' = [paid EXCEPT ![r] = m]
  BY DEF Adjust, IInv, TypeOK
<1>4. Left(a, n) \in Int
  BY <1>1, BillingAssumption DEF Left
<1>5. acct' \in [Accounts -> Int]
  BY <1>1, <1>4 DEF Adjust
<1> HIDE DEF m
<1> QED
  BY <1>2, <1>3, <1>5, OneRequest DEF m

\* The step is a database call of r that fails without effect.
LEMMA FaultStep ==
  ASSUME IInv, NEW r \in Requests, NEW s \in Session, Fault(r, s),
         Good(prof[r], [s EXCEPT !.clean = FALSE], paid[r])
  PROVE  IInv'
<1> DEFINE s1 == [s EXCEPT !.clean = FALSE]
<1>1. s1 \in Session
  BY DEF Session
<1>2. paid' = [paid EXCEPT ![r] = paid[r]] /\ paid[r] \in Charges
  BY DEF Fault, NoAdjust, IInv, TypeOK, Charges
<1>3. /\ sess' = [sess EXCEPT ![r] = s1]
      /\ prof' = prof /\ acct' \in [Accounts -> Int] /\ faults' \in 0..MaxFaults
  BY BillingAssumption DEF Fault, NoAdjust, IInv, TypeOK
<1> HIDE DEF s1
<1> QED
  BY <1>1, <1>2, <1>3, OneRequest DEF s1

\* The successor sessions that the operations share are sessions.
LEMMA SessionTypes ==
  ASSUME NEW s \in Session
  PROVE  /\ Rejected(s) \in Session
         /\ Failed(s) \in Session
         /\ Settled(s) \in Session
         /\ FromSubscription(s) \in Session
         /\ FromOrganization(s) \in Session
         /\ FromWallet(s) \in Session
         /\ ToWallet(s) \in Session
         /\ \A c \in PCs : [s EXCEPT !.pc = c] \in Session
         /\ \A n \in Nat : [Failed(s) EXCEPT !.consumed = n] \in Session
         /\ \A n \in Nat, x \in {"none", "consumed", "refunded"} :
              [s EXCEPT !.pc = "prepare", !.pre = n, !.consumed = n,
                        !.record = x] \in Session
<1>1. /\ Rejected(s) \in Session /\ Failed(s) \in Session
      /\ Settled(s) \in Session
  BY ZenonT(60) DEF Rejected, Failed, Settled, Session, PCs
<1>2. /\ FromSubscription(s) \in Session /\ FromOrganization(s) \in Session
      /\ ToWallet(s) \in Session
  BY ZenonT(60) DEF FromSubscription, FromOrganization, ToWallet, Session, PCs, Funds
<1>3. FromWallet(s) \in Session
  <2>1. (acct["wallet"] > TrustQuota) \in BOOLEAN
    OBVIOUS
  <2> QED
    BY <2>1 DEF FromWallet, Session, PCs, Funds
<1>4. \A c \in PCs : [s EXCEPT !.pc = c] \in Session
  BY DEF Session
<1>5. \A n \in Nat : [Failed(s) EXCEPT !.consumed = n] \in Session
  BY <1>1 DEF Session
<1>6. \A n \in Nat, x \in {"none", "consumed", "refunded"} :
         [s EXCEPT !.pc = "prepare", !.pre = n, !.consumed = n,
                   !.record = x] \in Session
  BY ZenonT(60) DEF Session, PCs
<1> QED
  BY <1>1, <1>2, <1>3, <1>4, <1>5, <1>6

\* A refund call that succeeded takes its amount off the books, and leaves
\* the other account as it was.
SameBut(s, s1, c) ==
    /\ c \notin s.rok
    /\ s1.rok = s.rok \cup {c}
    /\ s1.src = s.src /\ s1.consumed = s.consumed /\ s1.extra = s.extra
    /\ s1.pc = s.pc /\ s1.quota = s.quota /\ s1.pre = s.pre
    /\ s1.tokenConsumed = s.tokenConsumed /\ s1.actual = s.actual
    /\ s1.settled = s.settled /\ s1.fundingSettled = s.fundingSettled
    /\ s1.fees = s.fees

\* Returning an amount and marking it returned in rok keep the books
\* and the token's floor (the calls of the refund goroutine).
LEMMA RefundedBooks ==
  ASSUME NEW p \in ProfileSet, NEW s \in Session, NEW s1 \in Session,
         NEW c \in {"fund", "extra", "token"}, SameBut(s, s1, c)
  PROVE  /\ BookedToken(p, s) \in Int /\ BookedFunding(p, s) \in Int
         /\ BookedToken(p, s1) = BookedToken(p, s)
              - (IF c = "token" /\ ~p.playground THEN s.tokenConsumed ELSE 0)
         /\ BookedFunding(p, s1) = BookedFunding(p, s)
              - (IF c = "fund" THEN s.consumed
                 ELSE IF c = "extra" /\ s.src = "subscription" THEN s.extra
                 ELSE 0)
<1>1. SettleDelta(p, s1) = SettleDelta(p, s) /\ SettleDelta(p, s) \in Int
  BY DEF SameBut, SettleDelta, SettleBase, TokenSubscription, Session
<1>2. /\ Fee(s1, "token") = Fee(s, "token") /\ Fee(s, "token") \in Int
      /\ Fee(s1, "fund") = Fee(s, "fund") /\ Fee(s, "fund") \in Int
  BY BillingAssumption DEF SameBut, Fee
<1>3. /\ s.tokenConsumed \in Nat /\ s.consumed \in Nat /\ s.extra \in Nat
      /\ s.quota \in Nat /\ s.pre \in Nat
  BY DEF Session
<1>4. \A x : x \in s1.rok <=> x \in s.rok \/ x = c
  BY DEF SameBut
<1>5. BookedToken(p, s1) = BookedToken(p, s)
        - (IF c = "token" /\ ~p.playground THEN s.tokenConsumed ELSE 0)
  BY <1>1, <1>2, <1>3, <1>4 DEF SameBut, BookedToken
<1>6. BookedFunding(p, s1) = BookedFunding(p, s)
        - (IF c = "fund" THEN s.consumed
           ELSE IF c = "extra" /\ s.src = "subscription" THEN s.extra ELSE 0)
  BY <1>1, <1>2, <1>3, <1>4 DEF SameBut, BookedFunding
<1>7. BookedToken(p, s) \in Int /\ BookedFunding(p, s) \in Int
  BY <1>1, <1>2, <1>3 DEF BookedToken, BookedFunding
<1> QED
  BY <1>5, <1>6, <1>7

\* A request that has no session yet satisfies the invariant.
LEMMA InitIInv == Init => IInv
<1> SUFFICES ASSUME Init PROVE IInv
  OBVIOUS
<1>1. NewSession \in Session
  BY DEF NewSession, Session, PCs, RefundPCs, Funds, RefundAttempts
<1>2. acct \in [Accounts -> Int]
  BY BillingAssumption DEF Init, Accounts, Funds
<1>3. faults \in 0..MaxFaults
  BY BillingAssumption DEF Init
<1>4. TypeOK
  <2>1. paid \in [Requests -> [Accounts -> Int]]
    BY DEF Init
  <2>2. sess \in [Requests -> Session] /\ prof \in [Requests -> Profiles]
    BY <1>1 DEF Init
  <2> QED
    BY <2>1, <2>2, <1>2, <1>3 DEF TypeOK
<1>5. ASSUME NEW r \in Requests
      PROVE  Good(prof[r], sess[r], paid[r])
  BY DEF Init, NewSession, Good, BooksOf, Booked, BookedToken,
         BookedFunding, SettleDelta, Fee, SettleBase, Amount,
         HoldConsistent, CommitConsistent, RefundConsistent, TokenFloor,
         TokenSubscription, BeforeHold, Raising, Holding, AfterRefund,
         Accounts, Funds
<1> QED
  BY <1>4, <1>5 DEF IInv, SessionsConsistent, BooksMatch, Good, BooksOf

-----------------------------------------------------------------------------
(* One lemma per action.                                                   *)

\* Choosing the funding source (NewBillingSession) holds nothing yet.
LEMMA PreConsumeBillingPreserves ==
  ASSUME IInv, NEW r \in Requests, NEW q \in Quotas, PreConsumeBilling(r, q)
  PROVE  IInv'
<1> DEFINE p == prof[r]
           s == sess[r]
           m == paid[r]
           s1 == [s EXCEPT !.quota = q,
                           !.tokenTrusted = prof[r].unlimited
                                              \/ acct["token"] > TrustQuota]
           wal == [s1 EXCEPT !.pc = "wallet"]
           has == [s1 EXCEPT !.pc = "hassub"]
<1>t. p \in ProfileSet /\ s \in Session /\ m \in Charges
  BY GoodOf
<1>g. Good(p, s, m)
  BY GoodOf
<1>a. s.pc = "idle"
  BY DEF PreConsumeBilling
<1>b. /\ q \in Nat
      /\ (prof[r].unlimited \/ acct["token"] > TrustQuota) \in BOOLEAN
      /\ (acct["wallet"] > TrustQuota) \in BOOLEAN
  BY <1>t, BillingAssumption DEF ProfileSet
<1>c. s1 \in Session
  BY <1>t, <1>b DEF Session
<1>1. CASE /\ p.pref = "organization"
           /\ Update(r, FromOrganization(s1))
           /\ NoAdjust
  <2>1. FromOrganization(s1) \in Session
    BY <1>t, <1>b, <1>c, SessionTypes DEF PCs
  <2>2. Good(p, FromOrganization(s1), m)
    BY <1>t, <1>g, <1>a, <1>b, <1>c, <1>1
    DEF Good, HoldConsistent, CommitConsistent, RefundConsistent, TokenFloor,
           BooksOf, Booked, BookedToken, BookedFunding, SettleDelta, Fee, SettleBase,
           TokenSubscription, Amount, BeforeHold,
           Raising, Holding, AfterRefund, Session, ProfileSet, Charges,
           Accounts, Funds, PCs, RefundPCs, RefundAttempts,
           FromWallet, FromSubscription, FromOrganization
  <2> HIDE DEF s1, wal, has
  <2> QED
    BY <1>1, <2>1, <2>2, UpdateStep
<1>2. CASE p.pref = "standalone_tool" /\ Update(r, FromWallet(s1)) /\ NoAdjust
  <2>1. FromWallet(s1) \in Session
    BY <1>t, <1>b, <1>c, SessionTypes DEF PCs
  <2>2. Good(p, FromWallet(s1), m)
    BY <1>t, <1>g, <1>a, <1>b, <1>c, <1>2
    DEF Good, HoldConsistent, CommitConsistent, RefundConsistent, TokenFloor,
           BooksOf, Booked, BookedToken, BookedFunding, SettleDelta, Fee, SettleBase,
           TokenSubscription, Amount, BeforeHold,
           Raising, Holding, AfterRefund, Session, ProfileSet, Charges,
           Accounts, Funds, PCs, RefundPCs, RefundAttempts,
           FromWallet, FromSubscription, FromOrganization
  <2> HIDE DEF s1, wal, has
  <2> QED
    BY <1>2, <2>1, <2>2, UpdateStep
<1>3. CASE /\ p.pref \in {"token_subscription", "subscription_only"}
           /\ Update(r, FromSubscription(s1))
           /\ NoAdjust
  <2>1. FromSubscription(s1) \in Session
    BY <1>t, <1>b, <1>c, SessionTypes DEF PCs
  <2>2. Good(p, FromSubscription(s1), m)
    BY <1>t, <1>g, <1>a, <1>b, <1>c, <1>3
    DEF Good, HoldConsistent, CommitConsistent, RefundConsistent, TokenFloor,
           BooksOf, Booked, BookedToken, BookedFunding, SettleDelta, Fee, SettleBase,
           TokenSubscription, Amount, BeforeHold,
           Raising, Holding, AfterRefund, Session, ProfileSet, Charges,
           Accounts, Funds, PCs, RefundPCs, RefundAttempts,
           FromWallet, FromSubscription, FromOrganization
  <2> HIDE DEF s1, wal, has
  <2> QED
    BY <1>3, <2>1, <2>2, UpdateStep
<1>4. CASE /\ p.pref \in {"wallet_only", "wallet_first"}
           /\ Update(r, wal)
           /\ NoAdjust
  <2>1. wal \in Session
    BY <1>t, <1>b, <1>c, SessionTypes DEF PCs
  <2>2. Good(p, wal, m)
    BY <1>t, <1>g, <1>a, <1>b, <1>c, <1>4
    DEF Good, HoldConsistent, CommitConsistent, RefundConsistent, TokenFloor,
           BooksOf, Booked, BookedToken, BookedFunding, SettleDelta, Fee, SettleBase,
           TokenSubscription, Amount, BeforeHold,
           Raising, Holding, AfterRefund, Session, ProfileSet, Charges,
           Accounts, Funds, PCs, RefundPCs, RefundAttempts,
           FromWallet, FromSubscription, FromOrganization
  <2> HIDE DEF s1, wal, has
  <2> QED
    BY <1>4, <2>1, <2>2, UpdateStep
<1>5. CASE p.pref = "subscription_first" /\ Update(r, has) /\ NoAdjust
  <2>1. has \in Session
    BY <1>t, <1>b, <1>c, SessionTypes DEF PCs
  <2>2. Good(p, has, m)
    BY <1>t, <1>g, <1>a, <1>b, <1>c, <1>5
    DEF Good, HoldConsistent, CommitConsistent, RefundConsistent, TokenFloor,
           BooksOf, Booked, BookedToken, BookedFunding, SettleDelta, Fee, SettleBase,
           TokenSubscription, Amount, BeforeHold,
           Raising, Holding, AfterRefund, Session, ProfileSet, Charges,
           Accounts, Funds, PCs, RefundPCs, RefundAttempts,
           FromWallet, FromSubscription, FromOrganization
  <2> HIDE DEF s1, wal, has
  <2> QED
    BY <1>5, <2>1, <2>2, UpdateStep
<1> QED
  BY <1>1, <1>2, <1>3, <1>4, <1>5 DEF PreConsumeBilling

\* Asking for a subscription holds nothing yet.
LEMMA HasActiveUserSubscriptionPreserves ==
  ASSUME IInv, NEW r \in Requests, HasActiveUserSubscription(r)
  PROVE  IInv'
<1> DEFINE p == prof[r]
           s == sess[r]
           m == paid[r]
           wal == [s EXCEPT !.pc = "wallet"]
<1>t. p \in ProfileSet /\ s \in Session /\ m \in Charges
  BY GoodOf
<1>g. Good(p, s, m)
  BY GoodOf
<1>a. s.pc = "hassub"
  BY DEF HasActiveUserSubscription
<1>1. CASE Update(r, FromSubscription(s)) /\ NoAdjust
  <2>1. FromSubscription(s) \in Session
    BY <1>t, SessionTypes DEF PCs
  <2>2. Good(p, FromSubscription(s), m)
    BY <1>t, <1>g, <1>a, <1>1
    DEF Good, HoldConsistent, CommitConsistent, RefundConsistent, TokenFloor,
           BooksOf, Booked, BookedToken, BookedFunding, SettleDelta, Fee, SettleBase,
           TokenSubscription, Amount, BeforeHold,
           Raising, Holding, AfterRefund, Session, ProfileSet, Charges,
           Accounts, Funds, PCs, RefundPCs, RefundAttempts,
           Rejected, FromSubscription
  <2> HIDE DEF wal
  <2> QED
    BY <1>1, <2>1, <2>2, UpdateStep
<1>2. CASE Update(r, wal) /\ NoAdjust
  <2>1. wal \in Session
    BY <1>t, SessionTypes DEF PCs
  <2>2. Good(p, wal, m)
    BY <1>t, <1>g, <1>a, <1>2
    DEF Good, HoldConsistent, CommitConsistent, RefundConsistent, TokenFloor,
           BooksOf, Booked, BookedToken, BookedFunding, SettleDelta, Fee, SettleBase,
           TokenSubscription, Amount, BeforeHold,
           Raising, Holding, AfterRefund, Session, ProfileSet, Charges,
           Accounts, Funds, PCs, RefundPCs, RefundAttempts,
           Rejected, FromSubscription
  <2> HIDE DEF wal
  <2> QED
    BY <1>2, <2>1, <2>2, UpdateStep
<1>3. CASE Fault(r, Rejected(s))
  <2>1. Rejected(s) \in Session
    BY <1>t, SessionTypes DEF PCs
  <2>2. Good(p, [Rejected(s) EXCEPT !.clean = FALSE], m)
    BY <1>t, <1>g, <1>a, <1>3
    DEF Good, HoldConsistent, CommitConsistent, RefundConsistent, TokenFloor,
           BooksOf, Booked, BookedToken, BookedFunding, SettleDelta, Fee, SettleBase,
           TokenSubscription, Amount, BeforeHold,
           Raising, Holding, AfterRefund, Session, ProfileSet, Charges,
           Accounts, Funds, PCs, RefundPCs, RefundAttempts,
           Rejected, FromSubscription
  <2> HIDE DEF wal
  <2> QED
    BY <1>3, <2>1, <2>2, FaultStep
<1> QED
  BY <1>1, <1>2, <1>3 DEF HasActiveUserSubscription

\* Checking the wallet, and the fallback to the subscription, hold nothing.
LEMMA TryWalletPreserves ==
  ASSUME IInv, NEW r \in Requests, TryWallet(r)
  PROVE  IInv'
<1> DEFINE p == prof[r]
           s == sess[r]
           m == paid[r]
<1>t. p \in ProfileSet /\ s \in Session /\ m \in Charges
  BY GoodOf
<1>g. Good(p, s, m)
  BY GoodOf
<1>a. s.pc = "wallet"
  BY DEF TryWallet
<1>b. (acct["wallet"] > TrustQuota) \in BOOLEAN
  OBVIOUS
<1>1. CASE Update(r, FromWallet(s)) /\ NoAdjust
  <2>1. FromWallet(s) \in Session
    BY <1>t, <1>b, SessionTypes DEF PCs
  <2>2. Good(p, FromWallet(s), m)
    <3>1. HoldConsistent(p, FromWallet(s))
      BY <1>t, <1>g, <1>a, <1>b, <1>1
      DEF Good, HoldConsistent, TokenSubscription, Amount, BeforeHold, Raising,
             Session, ProfileSet, Funds,
             Rejected, FromSubscription, FromWallet, ToWallet
    <3>2. CommitConsistent(p, FromWallet(s))
      BY <1>t, <1>g, <1>a, <1>b, <1>1
      DEF Good, HoldConsistent, CommitConsistent, SettleBase, TokenSubscription,
             BeforeHold, Raising, Holding, AfterRefund, Session, ProfileSet,
             Rejected, FromSubscription, FromWallet, ToWallet
    <3>3. RefundConsistent(p, FromWallet(s))
      BY <1>t, <1>g, <1>a, <1>b, <1>1
      DEF Good, HoldConsistent, CommitConsistent, RefundConsistent,
             TokenSubscription, BeforeHold, Raising, Holding, AfterRefund, Session,
             ProfileSet, RefundPCs, RefundAttempts, Funds,
             Rejected, FromSubscription, FromWallet, ToWallet
    <3>4. TokenFloor(p, FromWallet(s), m)
      BY <1>t, <1>g, <1>a, <1>b, <1>1
      DEF Good, HoldConsistent, CommitConsistent, RefundConsistent, TokenFloor,
             TokenSubscription, Amount, BeforeHold, Raising, Holding, AfterRefund,
             Session, ProfileSet, Charges, Accounts, Funds,
             Rejected, FromSubscription, FromWallet, ToWallet
    <3>5. BooksOf(p, FromWallet(s), m)
      BY <1>t, <1>g, <1>a, <1>b, <1>1
      DEF Good, HoldConsistent, CommitConsistent, RefundConsistent, BooksOf,
             Booked, BookedToken, BookedFunding, SettleDelta, Fee, SettleBase,
             TokenSubscription, Amount, BeforeHold, Raising,
             Holding, AfterRefund, Session, ProfileSet, Charges, Accounts, Funds,
             Rejected, FromSubscription, FromWallet, ToWallet
    <3> QED
      BY <3>1, <3>2, <3>3, <3>4, <3>5 DEF Good
  <2> QED
    BY <1>1, <2>1, <2>2, UpdateStep
<1>2. CASE /\ p.pref = "wallet_first"
           /\ Update(r, FromSubscription(s))
           /\ NoAdjust
  <2>1. FromSubscription(s) \in Session
    BY <1>t, <1>b, SessionTypes DEF PCs
  <2>2. Good(p, FromSubscription(s), m)
    BY <1>t, <1>g, <1>a, <1>b, <1>2
    DEF Good, HoldConsistent, CommitConsistent, RefundConsistent, TokenFloor,
           BooksOf, Booked, BookedToken, BookedFunding, SettleDelta, Fee, SettleBase,
           TokenSubscription, Amount, BeforeHold,
           Raising, Holding, AfterRefund, Session, ProfileSet, Charges,
           Accounts, Funds, PCs, RefundPCs, RefundAttempts,
           Rejected, FromSubscription, FromWallet, ToWallet
  <2> QED
    BY <1>2, <2>1, <2>2, UpdateStep
<1>3. CASE p.pref = "subscription_first" /\ Update(r, ToWallet(s)) /\ NoAdjust
  <2>1. ToWallet(s) \in Session
    BY <1>t, <1>b, SessionTypes DEF PCs
  <2>2. Good(p, ToWallet(s), m)
    BY <1>t, <1>g, <1>a, <1>b, <1>3
    DEF Good, HoldConsistent, CommitConsistent, RefundConsistent, TokenFloor,
           BooksOf, Booked, BookedToken, BookedFunding, SettleDelta, Fee, SettleBase,
           TokenSubscription, Amount, BeforeHold,
           Raising, Holding, AfterRefund, Session, ProfileSet, Charges,
           Accounts, Funds, PCs, RefundPCs, RefundAttempts,
           Rejected, FromSubscription, FromWallet, ToWallet
  <2> QED
    BY <1>3, <2>1, <2>2, UpdateStep
<1>4. CASE Update(r, Rejected(s)) /\ NoAdjust
  <2>1. Rejected(s) \in Session
    BY <1>t, <1>b, SessionTypes DEF PCs
  <2>2. Good(p, Rejected(s), m)
    BY <1>t, <1>g, <1>a, <1>b, <1>4
    DEF Good, HoldConsistent, CommitConsistent, RefundConsistent, TokenFloor,
           BooksOf, Booked, BookedToken, BookedFunding, SettleDelta, Fee, SettleBase,
           TokenSubscription, Amount, BeforeHold,
           Raising, Holding, AfterRefund, Session, ProfileSet, Charges,
           Accounts, Funds, PCs, RefundPCs, RefundAttempts,
           Rejected, FromSubscription, FromWallet, ToWallet
  <2> QED
    BY <1>4, <2>1, <2>2, UpdateStep
<1>5. CASE Fault(r, Rejected(s))
  <2>1. Rejected(s) \in Session
    BY <1>t, <1>b, SessionTypes DEF PCs
  <2>2. Good(p, [Rejected(s) EXCEPT !.clean = FALSE], m)
    BY <1>t, <1>g, <1>a, <1>b, <1>5
    DEF Good, HoldConsistent, CommitConsistent, RefundConsistent, TokenFloor,
           BooksOf, Booked, BookedToken, BookedFunding, SettleDelta, Fee, SettleBase,
           TokenSubscription, Amount, BeforeHold,
           Raising, Holding, AfterRefund, Session, ProfileSet, Charges,
           Accounts, Funds, PCs, RefundPCs, RefundAttempts,
           Rejected, FromSubscription, FromWallet, ToWallet
  <2> QED
    BY <1>5, <2>1, <2>2, FaultStep
<1> QED
  BY <1>1, <1>2, <1>3, <1>4, <1>5 DEF TryWallet, Fallback

\* preConsume: the token is charged what tokenConsumed says.
LEMMA PreConsumeTokenPreserves ==
  ASSUME IInv, NEW r \in Requests, PreConsumeToken(r)
  PROVE  IInv'
<1> DEFINE p == prof[r]
           s == sess[r]
           m == paid[r]
           n    == Amount(s)
           free == ShouldTrust(prof[r], s)
           next == [s EXCEPT !.pc = "fund", !.trusted = free]
           none == free \/ n = 0 \/ TokenSubscription(prof[r])
           took == [next EXCEPT !.tokenConsumed = n]
<1>t. p \in ProfileSet /\ s \in Session /\ m \in Charges
  BY GoodOf
<1>g. Good(p, s, m)
  BY GoodOf
<1>a. s.pc = "token"
  BY DEF PreConsumeToken
<1>b. n \in Nat
  BY <1>t DEF Amount, Session
<1>c. free \in BOOLEAN
  BY <1>t DEF ShouldTrust, Session, ProfileSet
<1>d. free => s.src = "wallet"
  BY DEF ShouldTrust
<1>1. CASE none /\ Update(r, next) /\ NoAdjust
  <2>1. next \in Session
    BY <1>t, <1>b, <1>c DEF Session, PCs
  <2>2. Good(p, next, m)
    BY <1>t, <1>g, <1>a, <1>b, <1>c, <1>d, <1>1
    DEF Good, HoldConsistent, CommitConsistent, RefundConsistent, TokenFloor,
           BooksOf, Booked, BookedToken, BookedFunding, SettleDelta, Fee, SettleBase,
           TokenSubscription, Amount, BeforeHold,
           Raising, Holding, AfterRefund, Session, ProfileSet, Charges,
           Accounts, Funds, PCs, RefundPCs, RefundAttempts,
           Rejected
  <2> HIDE DEF n, free, next, none, took
  <2> QED
    BY <1>1, <2>1, <2>2, UpdateStep
<1>2. CASE ~none /\ p.playground /\ Update(r, took) /\ NoAdjust
  <2>1. took \in Session
    BY <1>t, <1>b, <1>c DEF Session, PCs
  <2>2. Good(p, took, m)
    BY <1>t, <1>g, <1>a, <1>b, <1>c, <1>d, <1>2
    DEF Good, HoldConsistent, CommitConsistent, RefundConsistent, TokenFloor,
           BooksOf, Booked, BookedToken, BookedFunding, SettleDelta, Fee, SettleBase,
           TokenSubscription, Amount, BeforeHold,
           Raising, Holding, AfterRefund, Session, ProfileSet, Charges,
           Accounts, Funds, PCs, RefundPCs, RefundAttempts,
           Rejected
  <2> HIDE DEF n, free, next, none, took
  <2> QED
    BY <1>2, <2>1, <2>2, UpdateStep
<1>3. CASE ~none /\ ~p.playground /\ Update(r, took) /\ Adjust(r, "token", n)
  <2>1. took \in Session
    BY <1>t, <1>b, <1>c DEF Session, PCs
  <2>2. "token" \in Accounts /\ n \in Int
    BY <1>t, <1>g, <1>a, <1>b, <1>c, <1>d, <1>3, BillingAssumption
    DEF Good, HoldConsistent, SettleBase, BeforeHold, Raising,
           Session, Accounts, Funds
  <2>3. Good(p, took, [m EXCEPT !["token"] = @ + n])
    BY <1>t, <1>g, <1>a, <1>b, <1>c, <1>d, <1>3, <2>2
    DEF Good, HoldConsistent, CommitConsistent, RefundConsistent, TokenFloor,
           BooksOf, Booked, BookedToken, BookedFunding, SettleDelta, Fee, SettleBase,
           TokenSubscription, Amount, BeforeHold,
           Raising, Holding, AfterRefund, Session, ProfileSet, Charges,
           Accounts, Funds, PCs, RefundPCs, RefundAttempts,
           Rejected
  <2>4. /\ sess' = [sess EXCEPT ![r] = took] /\ prof' = prof
        /\ faults' \in 0..MaxFaults
    BY <1>3 DEF Update, IInv, TypeOK
  <2> HIDE DEF n, free, next, none, took
  <2> QED
    BY <1>3, <2>1, <2>2, <2>3, <2>4, AdjustStep
<1>4. CASE Update(r, Rejected(s)) /\ NoAdjust
  <2>1. Rejected(s) \in Session
    BY <1>t, <1>b, <1>c, SessionTypes DEF PCs
  <2>2. Good(p, Rejected(s), m)
    BY <1>t, <1>g, <1>a, <1>b, <1>c, <1>d, <1>4
    DEF Good, HoldConsistent, CommitConsistent, RefundConsistent, TokenFloor,
           BooksOf, Booked, BookedToken, BookedFunding, SettleDelta, Fee, SettleBase,
           TokenSubscription, Amount, BeforeHold,
           Raising, Holding, AfterRefund, Session, ProfileSet, Charges,
           Accounts, Funds, PCs, RefundPCs, RefundAttempts,
           Rejected
  <2> HIDE DEF n, free, next, none, took
  <2> QED
    BY <1>4, <2>1, <2>2, UpdateStep
<1>5. CASE Fault(r, Rejected(s))
  <2>1. Rejected(s) \in Session
    BY <1>t, <1>b, <1>c, SessionTypes DEF PCs
  <2>2. Good(p, [Rejected(s) EXCEPT !.clean = FALSE], m)
    BY <1>t, <1>g, <1>a, <1>b, <1>c, <1>d, <1>5
    DEF Good, HoldConsistent, CommitConsistent, RefundConsistent, TokenFloor,
           BooksOf, Booked, BookedToken, BookedFunding, SettleDelta, Fee, SettleBase,
           TokenSubscription, Amount, BeforeHold,
           Raising, Holding, AfterRefund, Session, ProfileSet, Charges,
           Accounts, Funds, PCs, RefundPCs, RefundAttempts,
           Rejected
  <2> HIDE DEF n, free, next, none, took
  <2> QED
    BY <1>5, <2>1, <2>2, FaultStep
<1> QED
  BY <1>1, <1>2, <1>3, <1>4, <1>5 DEF PreConsumeToken

\* preConsume: the funding source is charged what the session holds.
LEMMA PreConsumeFundingPreserves ==
  ASSUME IInv, NEW r \in Requests, PreConsumeFunding(r)
  PROVE  IInv'
<1> DEFINE p == prof[r]
           s == sess[r]
           m == paid[r]
           amount == IF s.trusted THEN 0 ELSE Amount(s)
           held   == [s EXCEPT !.pc = "prepare", !.pre = amount,
                               !.consumed = amount,
                               !.record = IF s.src = "subscription"
                                          THEN "consumed" ELSE s.record]
           lack   == [s EXCEPT !.pc = "untoken", !.short = TRUE]
           fail   == [s EXCEPT !.pc = "untoken"]
<1>t. p \in ProfileSet /\ s \in Session /\ m \in Charges
  BY GoodOf
<1>g. Good(p, s, m)
  BY GoodOf
<1>a. s.pc = "fund"
  BY DEF PreConsumeFunding
<1>b. amount \in Nat
  BY <1>t DEF Amount, Session
<1>c. (IF s.src = "subscription" THEN "consumed" ELSE s.record)
        \in {"none", "consumed", "refunded"}
  BY <1>t DEF Session
<1>1. CASE amount = 0 /\ Update(r, held) /\ NoAdjust
  <2>1. held \in Session
    BY <1>t, <1>b, <1>c, SessionTypes DEF PCs
  <2>2. Good(p, held, m)
    BY <1>t, <1>g, <1>a, <1>b, <1>c, <1>1
    DEF Good, HoldConsistent, CommitConsistent, RefundConsistent, TokenFloor,
           BooksOf, Booked, BookedToken, BookedFunding, SettleDelta, Fee, SettleBase,
           TokenSubscription, Amount, BeforeHold,
           Raising, Holding, AfterRefund, Session, ProfileSet, Charges,
           Accounts, Funds, PCs, RefundPCs, RefundAttempts
  <2> HIDE DEF amount, held, lack, fail
  <2> QED
    BY <1>1, <2>1, <2>2, UpdateStep
<1>2. CASE amount > 0 /\ Update(r, held) /\ Adjust(r, s.src, amount)
  <2>1. held \in Session
    BY <1>t, <1>b, <1>c, SessionTypes DEF PCs
  <2>2. s.src \in Accounts /\ amount \in Int
    BY <1>t, <1>g, <1>a, <1>b, <1>c, <1>2, BillingAssumption
    DEF Good, HoldConsistent, SettleBase, BeforeHold, Raising,
           Session, Accounts, Funds
  <2>3. Good(p, held, [m EXCEPT ![s.src] = @ + amount])
    <3> DEFINE m1 == [m EXCEPT ![s.src] = @ + amount]
    <3>1. /\ HoldConsistent(p, held) /\ CommitConsistent(p, held)
          /\ RefundConsistent(p, held)
      BY <1>t, <1>g, <1>a, <1>b, <1>c, <1>2, <2>2
      DEF Good, HoldConsistent, CommitConsistent, RefundConsistent, SettleBase,
          TokenSubscription, Amount, BeforeHold, Raising, Holding, AfterRefund,
          Session, Accounts, Funds, RefundAttempts
    <3>2. TokenFloor(p, held, m1)
      BY <1>t, <1>g, <1>a, <1>b, <1>c, <1>2, <2>2
      DEF Good, HoldConsistent, TokenFloor, Amount, BeforeHold,
          Session, Charges, Accounts, Funds
    <3>3. BooksOf(p, held, m1)
      BY <1>t, <1>g, <1>a, <1>b, <1>c, <1>2, <2>2
      DEF Good, HoldConsistent, CommitConsistent, RefundConsistent,
          BooksOf, Booked, BookedToken, BookedFunding, SettleDelta, Fee,
          SettleBase, TokenSubscription, Amount, BeforeHold, Raising, Holding,
          AfterRefund, Session, ProfileSet, Charges, Accounts, Funds, PCs
    <3> QED
      BY <3>1, <3>2, <3>3 DEF Good
  <2>4. /\ sess' = [sess EXCEPT ![r] = held] /\ prof' = prof
        /\ faults' \in 0..MaxFaults
    BY <1>2 DEF Update, IInv, TypeOK
  <2> HIDE DEF amount, held, lack, fail
  <2> QED
    BY <1>2, <2>1, <2>2, <2>3, <2>4, AdjustStep
<1>3. CASE Update(r, lack) /\ NoAdjust
  <2>1. lack \in Session
    BY <1>t, <1>b, <1>c DEF Session, PCs
  <2>2. Good(p, lack, m)
    BY <1>t, <1>g, <1>a, <1>b, <1>c, <1>3
    DEF Good, HoldConsistent, CommitConsistent, RefundConsistent, TokenFloor,
           BooksOf, Booked, BookedToken, BookedFunding, SettleDelta, Fee, SettleBase,
           TokenSubscription, Amount, BeforeHold,
           Raising, Holding, AfterRefund, Session, ProfileSet, Charges,
           Accounts, Funds, PCs, RefundPCs, RefundAttempts
  <2> HIDE DEF amount, held, lack, fail
  <2> QED
    BY <1>3, <2>1, <2>2, UpdateStep
<1>4. CASE Fault(r, fail)
  <2>1. fail \in Session
    BY <1>t, <1>b, <1>c DEF Session, PCs
  <2>2. Good(p, [fail EXCEPT !.clean = FALSE], m)
    BY <1>t, <1>g, <1>a, <1>b, <1>c, <1>4
    DEF Good, HoldConsistent, CommitConsistent, RefundConsistent, TokenFloor,
           BooksOf, Booked, BookedToken, BookedFunding, SettleDelta, Fee, SettleBase,
           TokenSubscription, Amount, BeforeHold,
           Raising, Holding, AfterRefund, Session, ProfileSet, Charges,
           Accounts, Funds, PCs, RefundPCs, RefundAttempts
  <2> HIDE DEF amount, held, lack, fail
  <2> QED
    BY <1>4, <2>1, <2>2, FaultStep
<1> QED
  BY <1>1, <1>2, <1>3, <1>4 DEF PreConsumeFunding

\* preConsume: a failed hold gives the token back before the fallback.
LEMMA RollbackTokenPreserves ==
  ASSUME IInv, NEW r \in Requests, RollbackToken(r)
  PROVE  IInv'
<1> DEFINE p == prof[r]
           s == sess[r]
           m == paid[r]
           s0   == [s EXCEPT !.tokenConsumed = 0]
           owed == s.tokenConsumed > 0 /\ ~prof[r].playground
<1>t. p \in ProfileSet /\ s \in Session /\ m \in Charges
  BY GoodOf
<1>g. Good(p, s, m)
  BY GoodOf
<1>a. s.pc = "untoken"
  BY DEF RollbackToken
<1>b. s0 \in Session
  BY <1>t DEF Session
<1>1. CASE ~owed /\ Update(r, Rejected(s0)) /\ NoAdjust
  <2>1. Rejected(s0) \in Session
    BY <1>t, <1>b, SessionTypes DEF PCs
  <2>2. Good(p, Rejected(s0), m)
    BY <1>t, <1>g, <1>a, <1>b, <1>1
    DEF Good, HoldConsistent, CommitConsistent, RefundConsistent, TokenFloor,
           BooksOf, Booked, BookedToken, BookedFunding, SettleDelta, Fee, SettleBase,
           TokenSubscription, Amount, BeforeHold,
           Raising, Holding, AfterRefund, Session, ProfileSet, Charges,
           Accounts, Funds, PCs, RefundPCs, RefundAttempts,
           Rejected, FromSubscription, ToWallet
  <2> HIDE DEF s0, owed
  <2> QED
    BY <1>1, <2>1, <2>2, UpdateStep
<1>2. CASE /\ owed
           /\ Update(r, Rejected(s0))
           /\ Adjust(r, "token", -s.tokenConsumed)
  <2>1. Rejected(s0) \in Session
    BY <1>t, <1>b, SessionTypes DEF PCs
  <2>2. "token" \in Accounts /\ -s.tokenConsumed \in Int
    BY <1>t, <1>g, <1>a, <1>b, <1>2, BillingAssumption
    DEF Good, HoldConsistent, SettleBase, BeforeHold, Raising,
           Session, Accounts, Funds
  <2>3. Good(p, Rejected(s0), [m EXCEPT !["token"] = @ + -s.tokenConsumed])
    <3>1. HoldConsistent(p, Rejected(s0))
      BY <1>t, <1>g, <1>a, <1>b, <1>2, <2>2
      DEF Good, HoldConsistent, TokenSubscription, Amount, BeforeHold, Raising,
             Session, ProfileSet, Funds,
             Rejected, FromSubscription, ToWallet
    <3>2. CommitConsistent(p, Rejected(s0))
      BY <1>t, <1>g, <1>a, <1>b, <1>2, <2>2
      DEF Good, HoldConsistent, CommitConsistent, SettleBase, TokenSubscription,
             BeforeHold, Raising, Holding, AfterRefund, Session, ProfileSet,
             Rejected, FromSubscription, ToWallet
    <3>3. RefundConsistent(p, Rejected(s0))
      BY <1>t, <1>g, <1>a, <1>b, <1>2, <2>2
      DEF Good, HoldConsistent, CommitConsistent, RefundConsistent,
             TokenSubscription, BeforeHold, Raising, Holding, AfterRefund, Session,
             ProfileSet, RefundPCs, RefundAttempts, Funds,
             Rejected, FromSubscription, ToWallet
    <3>4. TokenFloor(p, Rejected(s0), [m EXCEPT !["token"] = @ + -s.tokenConsumed])
      BY <1>t, <1>g, <1>a, <1>b, <1>2, <2>2
      DEF Good, HoldConsistent, CommitConsistent, RefundConsistent, TokenFloor,
             TokenSubscription, Amount, BeforeHold, Raising, Holding, AfterRefund,
             Session, ProfileSet, Charges, Accounts, Funds,
             Rejected, FromSubscription, ToWallet
    <3>5. BooksOf(p, Rejected(s0), [m EXCEPT !["token"] = @ + -s.tokenConsumed])
      BY <1>t, <1>g, <1>a, <1>b, <1>2, <2>2
      DEF Good, HoldConsistent, CommitConsistent, RefundConsistent, BooksOf,
             Booked, BookedToken, BookedFunding, SettleDelta, Fee, SettleBase,
             TokenSubscription, Amount, BeforeHold, Raising,
             Holding, AfterRefund, Session, ProfileSet, Charges, Accounts, Funds,
             Rejected, FromSubscription, ToWallet
    <3> QED
      BY <3>1, <3>2, <3>3, <3>4, <3>5 DEF Good
  <2>4. /\ sess' = [sess EXCEPT ![r] = Rejected(s0)] /\ prof' = prof
        /\ faults' \in 0..MaxFaults
    BY <1>2 DEF Update, IInv, TypeOK
  <2> HIDE DEF s0, owed
  <2> QED
    BY <1>2, <2>1, <2>2, <2>3, <2>4, AdjustStep
<1>3. CASE owed /\ Fault(r, Rejected(s0))
  <2>1. Rejected(s0) \in Session
    BY <1>t, <1>b, SessionTypes DEF PCs
  <2>2. Good(p, [Rejected(s0) EXCEPT !.clean = FALSE], m)
    BY <1>t, <1>g, <1>a, <1>b, <1>3
    DEF Good, HoldConsistent, CommitConsistent, RefundConsistent, TokenFloor,
           BooksOf, Booked, BookedToken, BookedFunding, SettleDelta, Fee, SettleBase,
           TokenSubscription, Amount, BeforeHold,
           Raising, Holding, AfterRefund, Session, ProfileSet, Charges,
           Accounts, Funds, PCs, RefundPCs, RefundAttempts,
           Rejected, FromSubscription, ToWallet
  <2> HIDE DEF s0, owed
  <2> QED
    BY <1>3, <2>1, <2>2, FaultStep
<1>4. CASE /\ p.pref = "wallet_first" /\ ~owed
           /\ Update(r, FromSubscription(s0))
           /\ NoAdjust
  <2>1. FromSubscription(s0) \in Session
    BY <1>t, <1>b, SessionTypes DEF PCs
  <2>2. Good(p, FromSubscription(s0), m)
    BY <1>t, <1>g, <1>a, <1>b, <1>4
    DEF Good, HoldConsistent, CommitConsistent, RefundConsistent, TokenFloor,
           BooksOf, Booked, BookedToken, BookedFunding, SettleDelta, Fee, SettleBase,
           TokenSubscription, Amount, BeforeHold,
           Raising, Holding, AfterRefund, Session, ProfileSet, Charges,
           Accounts, Funds, PCs, RefundPCs, RefundAttempts,
           Rejected, FromSubscription, ToWallet
  <2> HIDE DEF s0, owed
  <2> QED
    BY <1>4, <2>1, <2>2, UpdateStep
<1>5. CASE /\ p.pref = "wallet_first" /\ owed
           /\ Update(r, FromSubscription(s0))
           /\ Adjust(r, "token", -s.tokenConsumed)
  <2>1. FromSubscription(s0) \in Session
    BY <1>t, <1>b, SessionTypes DEF PCs
  <2>2. "token" \in Accounts /\ -s.tokenConsumed \in Int
    BY <1>t, <1>g, <1>a, <1>b, <1>5, BillingAssumption
    DEF Good, HoldConsistent, SettleBase, BeforeHold, Raising,
           Session, Accounts, Funds
  <2>3. Good(p, FromSubscription(s0), [m EXCEPT !["token"] = @ + -s.tokenConsumed])
    <3>1. HoldConsistent(p, FromSubscription(s0))
      BY <1>t, <1>g, <1>a, <1>b, <1>5, <2>2
      DEF Good, HoldConsistent, TokenSubscription, Amount, BeforeHold, Raising,
             Session, ProfileSet, Funds,
             Rejected, FromSubscription, ToWallet
    <3>2. CommitConsistent(p, FromSubscription(s0))
      BY <1>t, <1>g, <1>a, <1>b, <1>5, <2>2
      DEF Good, HoldConsistent, CommitConsistent, SettleBase, TokenSubscription,
             BeforeHold, Raising, Holding, AfterRefund, Session, ProfileSet,
             Rejected, FromSubscription, ToWallet
    <3>3. RefundConsistent(p, FromSubscription(s0))
      BY <1>t, <1>g, <1>a, <1>b, <1>5, <2>2
      DEF Good, HoldConsistent, CommitConsistent, RefundConsistent,
             TokenSubscription, BeforeHold, Raising, Holding, AfterRefund, Session,
             ProfileSet, RefundPCs, RefundAttempts, Funds,
             Rejected, FromSubscription, ToWallet
    <3>4. TokenFloor(p, FromSubscription(s0), [m EXCEPT !["token"] = @ + -s.tokenConsumed])
      BY <1>t, <1>g, <1>a, <1>b, <1>5, <2>2
      DEF Good, HoldConsistent, CommitConsistent, RefundConsistent, TokenFloor,
             TokenSubscription, Amount, BeforeHold, Raising, Holding, AfterRefund,
             Session, ProfileSet, Charges, Accounts, Funds,
             Rejected, FromSubscription, ToWallet
    <3>5. BooksOf(p, FromSubscription(s0), [m EXCEPT !["token"] = @ + -s.tokenConsumed])
      BY <1>t, <1>g, <1>a, <1>b, <1>5, <2>2
      DEF Good, HoldConsistent, CommitConsistent, RefundConsistent, BooksOf,
             Booked, BookedToken, BookedFunding, SettleDelta, Fee, SettleBase,
             TokenSubscription, Amount, BeforeHold, Raising,
             Holding, AfterRefund, Session, ProfileSet, Charges, Accounts, Funds,
             Rejected, FromSubscription, ToWallet
    <3> QED
      BY <3>1, <3>2, <3>3, <3>4, <3>5 DEF Good
  <2>4. /\ sess' = [sess EXCEPT ![r] = FromSubscription(s0)] /\ prof' = prof
        /\ faults' \in 0..MaxFaults
    BY <1>5 DEF Update, IInv, TypeOK
  <2> HIDE DEF s0, owed
  <2> QED
    BY <1>5, <2>1, <2>2, <2>3, <2>4, AdjustStep
<1>6. CASE p.pref = "wallet_first" /\ owed /\ Fault(r, FromSubscription(s0))
  <2>1. FromSubscription(s0) \in Session
    BY <1>t, <1>b, SessionTypes DEF PCs
  <2>2. Good(p, [FromSubscription(s0) EXCEPT !.clean = FALSE], m)
    BY <1>t, <1>g, <1>a, <1>b, <1>6
    DEF Good, HoldConsistent, CommitConsistent, RefundConsistent, TokenFloor,
           BooksOf, Booked, BookedToken, BookedFunding, SettleDelta, Fee, SettleBase,
           TokenSubscription, Amount, BeforeHold,
           Raising, Holding, AfterRefund, Session, ProfileSet, Charges,
           Accounts, Funds, PCs, RefundPCs, RefundAttempts,
           Rejected, FromSubscription, ToWallet
  <2> HIDE DEF s0, owed
  <2> QED
    BY <1>6, <2>1, <2>2, FaultStep
<1>7. CASE /\ p.pref = "subscription_first" /\ ~owed
           /\ Update(r, ToWallet(s0))
           /\ NoAdjust
  <2>1. ToWallet(s0) \in Session
    BY <1>t, <1>b, SessionTypes DEF PCs
  <2>2. Good(p, ToWallet(s0), m)
    BY <1>t, <1>g, <1>a, <1>b, <1>7
    DEF Good, HoldConsistent, CommitConsistent, RefundConsistent, TokenFloor,
           BooksOf, Booked, BookedToken, BookedFunding, SettleDelta, Fee, SettleBase,
           TokenSubscription, Amount, BeforeHold,
           Raising, Holding, AfterRefund, Session, ProfileSet, Charges,
           Accounts, Funds, PCs, RefundPCs, RefundAttempts,
           Rejected, FromSubscription, ToWallet
  <2> HIDE DEF s0, owed
  <2> QED
    BY <1>7, <2>1, <2>2, UpdateStep
<1>8. CASE /\ p.pref = "subscription_first" /\ owed
           /\ Update(r, ToWallet(s0))
           /\ Adjust(r, "token", -s.tokenConsumed)
  <2>1. ToWallet(s0) \in Session
    BY <1>t, <1>b, SessionTypes DEF PCs
  <2>2. "token" \in Accounts /\ -s.tokenConsumed \in Int
    BY <1>t, <1>g, <1>a, <1>b, <1>8, BillingAssumption
    DEF Good, HoldConsistent, SettleBase, BeforeHold, Raising,
           Session, Accounts, Funds
  <2>3. Good(p, ToWallet(s0), [m EXCEPT !["token"] = @ + -s.tokenConsumed])
    <3>1. HoldConsistent(p, ToWallet(s0))
      BY <1>t, <1>g, <1>a, <1>b, <1>8, <2>2
      DEF Good, HoldConsistent, TokenSubscription, Amount, BeforeHold, Raising,
             Session, ProfileSet, Funds,
             Rejected, FromSubscription, ToWallet
    <3>2. CommitConsistent(p, ToWallet(s0))
      BY <1>t, <1>g, <1>a, <1>b, <1>8, <2>2
      DEF Good, HoldConsistent, CommitConsistent, SettleBase, TokenSubscription,
             BeforeHold, Raising, Holding, AfterRefund, Session, ProfileSet,
             Rejected, FromSubscription, ToWallet
    <3>3. RefundConsistent(p, ToWallet(s0))
      BY <1>t, <1>g, <1>a, <1>b, <1>8, <2>2
      DEF Good, HoldConsistent, CommitConsistent, RefundConsistent,
             TokenSubscription, BeforeHold, Raising, Holding, AfterRefund, Session,
             ProfileSet, RefundPCs, RefundAttempts, Funds,
             Rejected, FromSubscription, ToWallet
    <3>4. TokenFloor(p, ToWallet(s0), [m EXCEPT !["token"] = @ + -s.tokenConsumed])
      BY <1>t, <1>g, <1>a, <1>b, <1>8, <2>2
      DEF Good, HoldConsistent, CommitConsistent, RefundConsistent, TokenFloor,
             TokenSubscription, Amount, BeforeHold, Raising, Holding, AfterRefund,
             Session, ProfileSet, Charges, Accounts, Funds,
             Rejected, FromSubscription, ToWallet
    <3>5. BooksOf(p, ToWallet(s0), [m EXCEPT !["token"] = @ + -s.tokenConsumed])
      BY <1>t, <1>g, <1>a, <1>b, <1>8, <2>2
      DEF Good, HoldConsistent, CommitConsistent, RefundConsistent, BooksOf,
             Booked, BookedToken, BookedFunding, SettleDelta, Fee, SettleBase,
             TokenSubscription, Amount, BeforeHold, Raising,
             Holding, AfterRefund, Session, ProfileSet, Charges, Accounts, Funds,
             Rejected, FromSubscription, ToWallet
    <3> QED
      BY <3>1, <3>2, <3>3, <3>4, <3>5 DEF Good
  <2>4. /\ sess' = [sess EXCEPT ![r] = ToWallet(s0)] /\ prof' = prof
        /\ faults' \in 0..MaxFaults
    BY <1>8 DEF Update, IInv, TypeOK
  <2> HIDE DEF s0, owed
  <2> QED
    BY <1>8, <2>1, <2>2, <2>3, <2>4, AdjustStep
<1>9. CASE p.pref = "subscription_first" /\ owed /\ Fault(r, ToWallet(s0))
  <2>1. ToWallet(s0) \in Session
    BY <1>t, <1>b, SessionTypes DEF PCs
  <2>2. Good(p, [ToWallet(s0) EXCEPT !.clean = FALSE], m)
    BY <1>t, <1>g, <1>a, <1>b, <1>9
    DEF Good, HoldConsistent, CommitConsistent, RefundConsistent, TokenFloor,
           BooksOf, Booked, BookedToken, BookedFunding, SettleDelta, Fee, SettleBase,
           TokenSubscription, Amount, BeforeHold,
           Raising, Holding, AfterRefund, Session, ProfileSet, Charges,
           Accounts, Funds, PCs, RefundPCs, RefundAttempts,
           Rejected, FromSubscription, ToWallet
  <2> HIDE DEF s0, owed
  <2> QED
    BY <1>9, <2>1, <2>2, FaultStep
<1> QED
  BY <1>1, <1>2, <1>3, <1>4, <1>5, <1>6, <1>7, <1>8, <1>9
  DEF RollbackToken, Fallback

\* reserve starts only for a quote above the reservation.
LEMMA ReservePreserves ==
  ASSUME IInv, NEW r \in Requests, NEW target \in Quotas, Reserve(r, target)
  PROVE  IInv'
<1> DEFINE p == prof[r]
           s == sess[r]
           m == paid[r]
           next == [s EXCEPT !.pc = "rfund", !.quota = target]
<1>t. p \in ProfileSet /\ s \in Session /\ m \in Charges
  BY GoodOf
<1>g. Good(p, s, m)
  BY GoodOf
<1>a. s.pc = "prepare" /\ ~TokenSubscription(p) /\ target > s.pre
  BY DEF Reserve
<1>b. target \in Nat
  BY BillingAssumption
<1>1. CASE Update(r, next) /\ NoAdjust
  <2>1. next \in Session
    BY <1>t, <1>b DEF Session, PCs
  <2>2. Good(p, next, m)
    BY <1>t, <1>g, <1>a, <1>b, <1>1
    DEF Good, HoldConsistent, CommitConsistent, RefundConsistent, TokenFloor,
           BooksOf, Booked, BookedToken, BookedFunding, SettleDelta, Fee, SettleBase,
           TokenSubscription, Amount, BeforeHold,
           Raising, Holding, AfterRefund, Session, ProfileSet, Charges,
           Accounts, Funds, PCs, RefundPCs, RefundAttempts
  <2> HIDE DEF next
  <2> QED
    BY <1>1, <2>1, <2>2, UpdateStep
<1> QED
  BY <1>1 DEF Reserve

\* Sending the request moves nothing.
LEMMA SendPreserves ==
  ASSUME IInv, NEW r \in Requests, Send(r)
  PROVE  IInv'
<1> DEFINE p == prof[r]
           s == sess[r]
           m == paid[r]
           next == [s EXCEPT !.pc = "upstream"]
<1>t. p \in ProfileSet /\ s \in Session /\ m \in Charges
  BY GoodOf
<1>g. Good(p, s, m)
  BY GoodOf
<1>a. s.pc = "prepare"
  BY DEF Send
<1>1. CASE Update(r, next) /\ NoAdjust
  <2>1. next \in Session
    BY <1>t DEF Session, PCs
  <2>2. Good(p, next, m)
    BY <1>t, <1>g, <1>a, <1>1
    DEF Good, HoldConsistent, CommitConsistent, RefundConsistent, TokenFloor,
           BooksOf, Booked, BookedToken, BookedFunding, SettleDelta, Fee, SettleBase,
           TokenSubscription, Amount, BeforeHold,
           Raising, Holding, AfterRefund, Session, ProfileSet, Charges,
           Accounts, Funds, PCs, RefundPCs, RefundAttempts
  <2> HIDE DEF next
  <2> QED
    BY <1>1, <2>1, <2>2, UpdateStep
<1> QED
  BY <1>1 DEF Send

\* reserve: the difference is taken from the funding source.
LEMMA ReserveFundingPreserves ==
  ASSUME IInv, NEW r \in Requests, ReserveFunding(r)
  PROVE  IInv'
<1> DEFINE p == prof[r]
           s == sess[r]
           m == paid[r]
           delta == s.quota - s.pre
           taken == [s EXCEPT !.pc = "rtoken",
                              !.consumed = IF s.src = "subscription"
                                           THEN s.consumed
                                           ELSE s.consumed + delta]
<1>t. p \in ProfileSet /\ s \in Session /\ m \in Charges
  BY GoodOf
<1>g. Good(p, s, m)
  BY GoodOf
<1>a. s.pc = "rfund"
  BY DEF ReserveFunding
<1>b. delta \in Nat /\ s.consumed + delta \in Nat
  BY <1>t, <1>g, <1>a DEF Good, HoldConsistent, BeforeHold, Raising, Session
<1>1. CASE Update(r, taken) /\ Adjust(r, s.src, delta)
  <2>1. taken \in Session
    BY ZenonT(60), <1>t, <1>b DEF Session, PCs
  <2>2. s.src \in Accounts /\ delta \in Int
    BY <1>t, <1>g, <1>a, <1>b, <1>1, BillingAssumption
    DEF Good, HoldConsistent, SettleBase, BeforeHold, Raising,
           Session, Accounts, Funds
  <2>3. Good(p, taken, [m EXCEPT ![s.src] = @ + delta])
    BY SMTT(30), <1>t, <1>g, <1>a, <1>b, <1>1, <2>2
    DEF Good, HoldConsistent, CommitConsistent, RefundConsistent, TokenFloor,
           BooksOf, Booked, BookedToken, BookedFunding, SettleDelta, Fee, SettleBase,
           TokenSubscription, Amount, BeforeHold,
           Raising, Holding, AfterRefund, Session, ProfileSet, Charges,
           Accounts, Funds, PCs, RefundPCs, RefundAttempts,
           Failed
  <2>4. /\ sess' = [sess EXCEPT ![r] = taken] /\ prof' = prof
        /\ faults' \in 0..MaxFaults
    BY <1>1 DEF Update, IInv, TypeOK
  <2> HIDE DEF delta, taken
  <2> QED
    BY <1>1, <2>1, <2>2, <2>3, <2>4, AdjustStep
<1>2. CASE Update(r, Failed(s)) /\ NoAdjust
  <2>1. Failed(s) \in Session
    BY <1>t, <1>b, SessionTypes DEF PCs
  <2>2. Good(p, Failed(s), m)
    BY <1>t, <1>g, <1>a, <1>b, <1>2
    DEF Good, HoldConsistent, CommitConsistent, RefundConsistent, TokenFloor,
           BooksOf, Booked, BookedToken, BookedFunding, SettleDelta, Fee, SettleBase,
           TokenSubscription, Amount, BeforeHold,
           Raising, Holding, AfterRefund, Session, ProfileSet, Charges,
           Accounts, Funds, PCs, RefundPCs, RefundAttempts,
           Failed
  <2> HIDE DEF delta, taken
  <2> QED
    BY <1>2, <2>1, <2>2, UpdateStep
<1>3. CASE Fault(r, Failed(s))
  <2>1. Failed(s) \in Session
    BY <1>t, <1>b, SessionTypes DEF PCs
  <2>2. Good(p, [Failed(s) EXCEPT !.clean = FALSE], m)
    BY <1>t, <1>g, <1>a, <1>b, <1>3
    DEF Good, HoldConsistent, CommitConsistent, RefundConsistent, TokenFloor,
           BooksOf, Booked, BookedToken, BookedFunding, SettleDelta, Fee, SettleBase,
           TokenSubscription, Amount, BeforeHold,
           Raising, Holding, AfterRefund, Session, ProfileSet, Charges,
           Accounts, Funds, PCs, RefundPCs, RefundAttempts,
           Failed
  <2> HIDE DEF delta, taken
  <2> QED
    BY <1>3, <2>1, <2>2, FaultStep
<1> QED
  BY <1>1, <1>2, <1>3 DEF ReserveFunding

\* reserve: the token follows, and the reservation is raised.
LEMMA ReserveTokenPreserves ==
  ASSUME IInv, NEW r \in Requests, ReserveToken(r)
  PROVE  IInv'
<1> DEFINE p == prof[r]
           s == sess[r]
           m == paid[r]
           delta == s.quota - s.pre
           more  == [s EXCEPT !.pc = "upstream", !.pre = s.pre + delta,
                              !.tokenConsumed = s.tokenConsumed + delta,
                              !.extra = s.extra + delta,
                              !.trusted = s.trusted /\ ~p.require]
           undo  == [s EXCEPT !.pc = "runfund"]
<1>t. p \in ProfileSet /\ s \in Session /\ m \in Charges
  BY GoodOf
<1>g. Good(p, s, m)
  BY GoodOf
<1>a. s.pc = "rtoken"
  BY DEF ReserveToken
<1>b. /\ delta \in Nat /\ s.pre + delta \in Nat
      /\ s.tokenConsumed + delta \in Nat /\ s.extra + delta \in Nat
  BY <1>t, <1>g, <1>a DEF Good, HoldConsistent, Raising, Session
<1>c. (s.trusted /\ ~p.require) \in BOOLEAN
  BY <1>t DEF Session, ProfileSet
<1>1. CASE p.playground /\ Update(r, more) /\ NoAdjust
  <2>1. more \in Session
    BY ZenonT(60), <1>t, <1>b, <1>c DEF Session, PCs
  <2>2. Good(p, more, m)
    BY <1>t, <1>g, <1>a, <1>b, <1>c, <1>1
    DEF Good, HoldConsistent, CommitConsistent, RefundConsistent, TokenFloor,
           BooksOf, Booked, BookedToken, BookedFunding, SettleDelta, Fee, SettleBase,
           TokenSubscription, Amount, BeforeHold,
           Raising, Holding, AfterRefund, Session, ProfileSet, Charges,
           Accounts, Funds, PCs, RefundPCs, RefundAttempts
  <2> HIDE DEF delta, more, undo
  <2> QED
    BY <1>1, <2>1, <2>2, UpdateStep
<1>2. CASE ~p.playground /\ Update(r, more) /\ Adjust(r, "token", delta)
  <2>1. more \in Session
    BY ZenonT(60), <1>t, <1>b, <1>c DEF Session, PCs
  <2>2. "token" \in Accounts /\ delta \in Int
    BY <1>t, <1>g, <1>a, <1>b, <1>c, <1>2, BillingAssumption
    DEF Good, HoldConsistent, SettleBase, BeforeHold, Raising,
           Session, Accounts, Funds
  <2>3. Good(p, more, [m EXCEPT !["token"] = @ + delta])
    BY <1>t, <1>g, <1>a, <1>b, <1>c, <1>2, <2>2
    DEF Good, HoldConsistent, CommitConsistent, RefundConsistent, TokenFloor,
           BooksOf, Booked, BookedToken, BookedFunding, SettleDelta, Fee, SettleBase,
           TokenSubscription, Amount, BeforeHold,
           Raising, Holding, AfterRefund, Session, ProfileSet, Charges,
           Accounts, Funds, PCs, RefundPCs, RefundAttempts
  <2>4. /\ sess' = [sess EXCEPT ![r] = more] /\ prof' = prof
        /\ faults' \in 0..MaxFaults
    BY <1>2 DEF Update, IInv, TypeOK
  <2> HIDE DEF delta, more, undo
  <2> QED
    BY <1>2, <2>1, <2>2, <2>3, <2>4, AdjustStep
<1>3. CASE ~p.playground /\ Update(r, undo) /\ NoAdjust
  <2>1. undo \in Session
    BY <1>t, <1>b, <1>c DEF Session, PCs
  <2>2. Good(p, undo, m)
    BY <1>t, <1>g, <1>a, <1>b, <1>c, <1>3
    DEF Good, HoldConsistent, CommitConsistent, RefundConsistent, TokenFloor,
           BooksOf, Booked, BookedToken, BookedFunding, SettleDelta, Fee, SettleBase,
           TokenSubscription, Amount, BeforeHold,
           Raising, Holding, AfterRefund, Session, ProfileSet, Charges,
           Accounts, Funds, PCs, RefundPCs, RefundAttempts
  <2> HIDE DEF delta, more, undo
  <2> QED
    BY <1>3, <2>1, <2>2, UpdateStep
<1>4. CASE ~p.playground /\ Fault(r, undo)
  <2>1. undo \in Session
    BY <1>t, <1>b, <1>c DEF Session, PCs
  <2>2. Good(p, [undo EXCEPT !.clean = FALSE], m)
    BY <1>t, <1>g, <1>a, <1>b, <1>c, <1>4
    DEF Good, HoldConsistent, CommitConsistent, RefundConsistent, TokenFloor,
           BooksOf, Booked, BookedToken, BookedFunding, SettleDelta, Fee, SettleBase,
           TokenSubscription, Amount, BeforeHold,
           Raising, Holding, AfterRefund, Session, ProfileSet, Charges,
           Accounts, Funds, PCs, RefundPCs, RefundAttempts
  <2> HIDE DEF delta, more, undo
  <2> QED
    BY <1>4, <2>1, <2>2, FaultStep
<1> QED
  BY <1>1, <1>2, <1>3, <1>4 DEF ReserveToken

\* reserve: the funding source gets the difference back when the token
\* refused.
LEMMA RollbackFundingReservePreserves ==
  ASSUME IInv, NEW r \in Requests, RollbackFundingReserve(r)
  PROVE  IInv'
<1> DEFINE p == prof[r]
           s == sess[r]
           m == paid[r]
           delta == s.quota - s.pre
           back  == [Failed(s) EXCEPT
                        !.consumed = IF s.src = "subscription"
                                     THEN s.consumed
                                     ELSE s.consumed - delta]
<1>t. p \in ProfileSet /\ s \in Session /\ m \in Charges
  BY GoodOf
<1>g. Good(p, s, m)
  BY GoodOf
<1>a. s.pc = "runfund"
  BY DEF RollbackFundingReserve
<1>b. delta \in Nat
  BY <1>t, <1>g, <1>a DEF Good, HoldConsistent, BeforeHold, Raising, Session
<1>c. (IF s.src = "subscription" THEN s.consumed ELSE s.consumed - delta) \in Nat
  BY <1>t, <1>g, <1>a DEF Good, HoldConsistent, BeforeHold, Raising, Session
<1>1. CASE Update(r, back) /\ Adjust(r, s.src, -delta)
  <2>1. back \in Session
    BY <1>t, <1>b, <1>c, SessionTypes DEF PCs
  <2>2. s.src \in Accounts /\ -delta \in Int
    BY <1>t, <1>g, <1>a, <1>b, <1>c, <1>1, BillingAssumption
    DEF Good, HoldConsistent, SettleBase, BeforeHold, Raising,
           Session, Accounts, Funds
  <2>3. Good(p, back, [m EXCEPT ![s.src] = @ + -delta])
    BY SMTT(30), <1>t, <1>g, <1>a, <1>b, <1>c, <1>1, <2>2
    DEF Good, HoldConsistent, CommitConsistent, RefundConsistent, TokenFloor,
           BooksOf, Booked, BookedToken, BookedFunding, SettleDelta, Fee, SettleBase,
           TokenSubscription, Amount, BeforeHold,
           Raising, Holding, AfterRefund, Session, ProfileSet, Charges,
           Accounts, Funds, PCs, RefundPCs, RefundAttempts,
           Failed
  <2>4. /\ sess' = [sess EXCEPT ![r] = back] /\ prof' = prof
        /\ faults' \in 0..MaxFaults
    BY <1>1 DEF Update, IInv, TypeOK
  <2> HIDE DEF delta, back
  <2> QED
    BY <1>1, <2>1, <2>2, <2>3, <2>4, AdjustStep
<1>2. CASE Fault(r, Failed(s))
  <2>1. Failed(s) \in Session
    BY <1>t, <1>b, <1>c, SessionTypes DEF PCs
  <2>2. Good(p, [Failed(s) EXCEPT !.clean = FALSE], m)
    BY <1>t, <1>g, <1>a, <1>b, <1>c, <1>2
    DEF Good, HoldConsistent, CommitConsistent, RefundConsistent, TokenFloor,
           BooksOf, Booked, BookedToken, BookedFunding, SettleDelta, Fee, SettleBase,
           TokenSubscription, Amount, BeforeHold,
           Raising, Holding, AfterRefund, Session, ProfileSet, Charges,
           Accounts, Funds, PCs, RefundPCs, RefundAttempts,
           Failed
  <2> HIDE DEF delta, back
  <2> QED
    BY <1>2, <2>1, <2>2, FaultStep
<1> QED
  BY <1>1, <1>2 DEF RollbackFundingReserve

\* A retry keeps the reservation.
LEMMA UpstreamRetryPreserves ==
  ASSUME IInv, NEW r \in Requests, UpstreamRetry(r)
  PROVE  IInv'
<1> DEFINE p == prof[r]
           s == sess[r]
           m == paid[r]
           next == [s EXCEPT !.pc = "prepare", !.tries = @ + 1]
<1>t. p \in ProfileSet /\ s \in Session /\ m \in Charges
  BY GoodOf
<1>g. Good(p, s, m)
  BY GoodOf
<1>a. s.pc = "upstream"
  BY DEF UpstreamRetry
<1>b. s.tries + 1 \in Nat
  BY <1>t DEF Session
<1>1. CASE Update(r, next) /\ NoAdjust
  <2>1. next \in Session
    BY <1>t, <1>b DEF Session, PCs
  <2>2. Good(p, next, m)
    BY <1>t, <1>g, <1>a, <1>b, <1>1
    DEF Good, HoldConsistent, CommitConsistent, RefundConsistent, TokenFloor,
           BooksOf, Booked, BookedToken, BookedFunding, SettleDelta, Fee, SettleBase,
           TokenSubscription, Amount, BeforeHold,
           Raising, Holding, AfterRefund, Session, ProfileSet, Charges,
           Accounts, Funds, PCs, RefundPCs, RefundAttempts
  <2> HIDE DEF next
  <2> QED
    BY <1>1, <2>1, <2>2, UpdateStep
<1> QED
  BY <1>1 DEF UpstreamRetry

\* A failed request keeps its reservation until Refund.
LEMMA UpstreamFailsPreserves ==
  ASSUME IInv, NEW r \in Requests, UpstreamFails(r)
  PROVE  IInv'
<1> DEFINE p == prof[r]
           s == sess[r]
           m == paid[r]
<1>t. p \in ProfileSet /\ s \in Session /\ m \in Charges
  BY GoodOf
<1>g. Good(p, s, m)
  BY GoodOf
<1>a. s.pc = "upstream"
  BY DEF UpstreamFails
<1>1. CASE Update(r, Failed(s)) /\ NoAdjust
  <2>1. Failed(s) \in Session
    BY <1>t, SessionTypes DEF PCs
  <2>2. Good(p, Failed(s), m)
    BY <1>t, <1>g, <1>a, <1>1
    DEF Good, HoldConsistent, CommitConsistent, RefundConsistent, TokenFloor,
           BooksOf, Booked, BookedToken, BookedFunding, SettleDelta, Fee, SettleBase,
           TokenSubscription, Amount, BeforeHold,
           Raising, Holding, AfterRefund, Session, ProfileSet, Charges,
           Accounts, Funds, PCs, RefundPCs, RefundAttempts,
           Failed
  <2> QED
    BY <1>1, <2>1, <2>2, UpdateStep
<1> QED
  BY <1>1 DEF UpstreamFails

\* A search without a result keeps its reservation until Refund.
LEMMA UpstreamNotBillablePreserves ==
  ASSUME IInv, NEW r \in Requests, UpstreamNotBillable(r)
  PROVE  IInv'
<1> DEFINE p == prof[r]
           s == sess[r]
           m == paid[r]
           next == [s EXCEPT !.pc = "release"]
<1>t. p \in ProfileSet /\ s \in Session /\ m \in Charges
  BY GoodOf
<1>g. Good(p, s, m)
  BY GoodOf
<1>a. s.pc = "upstream"
  BY DEF UpstreamNotBillable
<1>1. CASE Update(r, next) /\ NoAdjust
  <2>1. next \in Session
    BY <1>t DEF Session, PCs
  <2>2. Good(p, next, m)
    BY <1>t, <1>g, <1>a, <1>1
    DEF Good, HoldConsistent, CommitConsistent, RefundConsistent, TokenFloor,
           BooksOf, Booked, BookedToken, BookedFunding, SettleDelta, Fee, SettleBase,
           TokenSubscription, Amount, BeforeHold,
           Raising, Holding, AfterRefund, Session, ProfileSet, Charges,
           Accounts, Funds, PCs, RefundPCs, RefundAttempts
  <2> HIDE DEF next
  <2> QED
    BY <1>1, <2>1, <2>2, UpdateStep
<1> QED
  BY <1>1 DEF UpstreamNotBillable

\* The real price is known; nothing is moved yet.
LEMMA UpstreamSucceedsPreserves ==
  ASSUME IInv, NEW r \in Requests, NEW n \in Actuals, NEW t \in ToolFees, UpstreamSucceeds(r, n, t)
  PROVE  IInv'
<1> DEFINE p == prof[r]
           s == sess[r]
           m == paid[r]
           next == [s EXCEPT !.pc = "settle", !.actual = n, !.tool = t]
<1>t. p \in ProfileSet /\ s \in Session /\ m \in Charges
  BY GoodOf
<1>g. Good(p, s, m)
  BY GoodOf
<1>a. s.pc = "upstream" /\ (TokenSubscription(p) \/ t = 0)
  BY DEF UpstreamSucceeds
<1>b. n \in Nat /\ t \in Nat
  BY BillingAssumption
<1>1. CASE Update(r, next) /\ NoAdjust
  <2>1. next \in Session
    BY <1>t, <1>b DEF Session, PCs
  <2>2. Good(p, next, m)
    BY <1>t, <1>g, <1>a, <1>b, <1>1
    DEF Good, HoldConsistent, CommitConsistent, RefundConsistent, TokenFloor,
           BooksOf, Booked, BookedToken, BookedFunding, SettleDelta, Fee, SettleBase,
           TokenSubscription, Amount, BeforeHold,
           Raising, Holding, AfterRefund, Session, ProfileSet, Charges,
           Accounts, Funds, PCs, RefundPCs, RefundAttempts
  <2> HIDE DEF next
  <2> QED
    BY <1>1, <2>1, <2>2, UpdateStep
<1> QED
  BY <1>1 DEF UpstreamSucceeds

\* Settle with nothing to move.
LEMMA SettleEvenPreserves ==
  ASSUME IInv, NEW r \in Requests, SettleEven(r)
  PROVE  IInv'
<1> DEFINE p == prof[r]
           s == sess[r]
           m == paid[r]
           tool == [s EXCEPT !.pc = "tool", !.fundingSettled = TRUE]
           all  == [Settled(s) EXCEPT !.fundingSettled = TRUE]
<1>t. p \in ProfileSet /\ s \in Session /\ m \in Charges
  BY GoodOf
<1>g. Good(p, s, m)
  BY GoodOf
<1>a. s.pc = "settle" /\ s.actual = SettleBase(p, s)
  BY DEF SettleEven
<1>1. CASE TokenSubscription(p) /\ s.tool > 0 /\ Update(r, tool) /\ NoAdjust
  <2>1. tool \in Session
    BY <1>t DEF Session, PCs, Settled
  <2>2. Good(p, tool, m)
    <3>1. HoldConsistent(p, tool)
      BY <1>t, <1>g, <1>a, <1>1
      DEF Good, HoldConsistent, TokenSubscription, Amount, BeforeHold, Raising,
             Session, ProfileSet, Funds,
             Settled
    <3>2. CommitConsistent(p, tool)
      BY <1>t, <1>g, <1>a, <1>1
      DEF Good, HoldConsistent, CommitConsistent, SettleBase, TokenSubscription,
             BeforeHold, Raising, Holding, AfterRefund, Session, ProfileSet,
             Settled
    <3>3. RefundConsistent(p, tool)
      BY <1>t, <1>g, <1>a, <1>1
      DEF Good, HoldConsistent, CommitConsistent, RefundConsistent,
             TokenSubscription, BeforeHold, Raising, Holding, AfterRefund, Session,
             ProfileSet, RefundPCs, RefundAttempts, Funds,
             Settled
    <3>4. TokenFloor(p, tool, m)
      BY <1>t, <1>g, <1>a, <1>1
      DEF Good, HoldConsistent, CommitConsistent, RefundConsistent, TokenFloor,
             TokenSubscription, Amount, BeforeHold, Raising, Holding, AfterRefund,
             Session, ProfileSet, Charges, Accounts, Funds,
             Settled
    <3>5. BooksOf(p, tool, m)
      BY <1>t, <1>g, <1>a, <1>1
      DEF Good, HoldConsistent, CommitConsistent, RefundConsistent, BooksOf,
             Booked, BookedToken, BookedFunding, SettleDelta, Fee, SettleBase,
             TokenSubscription, Amount, BeforeHold, Raising,
             Holding, AfterRefund, Session, ProfileSet, Charges, Accounts, Funds,
             Settled
    <3> QED
      BY <3>1, <3>2, <3>3, <3>4, <3>5 DEF Good
  <2> HIDE DEF tool, all
  <2> QED
    BY <1>1, <2>1, <2>2, UpdateStep
<1>2. CASE TokenSubscription(p) /\ ~(s.tool > 0) /\ Update(r, all) /\ NoAdjust
  <2>1. all \in Session
    BY <1>t DEF Session, PCs, Settled
  <2>2. Good(p, all, m)
    <3>1. HoldConsistent(p, all)
      BY <1>t, <1>g, <1>a, <1>2
      DEF Good, HoldConsistent, TokenSubscription, Amount, BeforeHold, Raising,
             Session, ProfileSet, Funds,
             Settled
    <3>2. CommitConsistent(p, all)
      BY <1>t, <1>g, <1>a, <1>2
      DEF Good, HoldConsistent, CommitConsistent, SettleBase, TokenSubscription,
             BeforeHold, Raising, Holding, AfterRefund, Session, ProfileSet,
             Settled
    <3>3. RefundConsistent(p, all)
      BY <1>t, <1>g, <1>a, <1>2
      DEF Good, HoldConsistent, CommitConsistent, RefundConsistent,
             TokenSubscription, BeforeHold, Raising, Holding, AfterRefund, Session,
             ProfileSet, RefundPCs, RefundAttempts, Funds,
             Settled
    <3>4. TokenFloor(p, all, m)
      BY <1>t, <1>g, <1>a, <1>2
      DEF Good, HoldConsistent, CommitConsistent, RefundConsistent, TokenFloor,
             TokenSubscription, Amount, BeforeHold, Raising, Holding, AfterRefund,
             Session, ProfileSet, Charges, Accounts, Funds,
             Settled
    <3>5. BooksOf(p, all, m)
      BY <1>t, <1>g, <1>a, <1>2
      DEF Good, HoldConsistent, CommitConsistent, RefundConsistent, BooksOf,
             Booked, BookedToken, BookedFunding, SettleDelta, Fee, SettleBase,
             TokenSubscription, Amount, BeforeHold, Raising,
             Holding, AfterRefund, Session, ProfileSet, Charges, Accounts, Funds,
             Settled
    <3> QED
      BY <3>1, <3>2, <3>3, <3>4, <3>5 DEF Good
  <2> HIDE DEF tool, all
  <2> QED
    BY <1>2, <2>1, <2>2, UpdateStep
<1>3. CASE ~TokenSubscription(p) /\ Update(r, Settled(s)) /\ NoAdjust
  <2>1. Settled(s) \in Session
    BY <1>t, SessionTypes DEF PCs
  <2>2. Good(p, Settled(s), m)
    <3>1. HoldConsistent(p, Settled(s))
      BY <1>t, <1>g, <1>a, <1>3
      DEF Good, HoldConsistent, TokenSubscription, Amount, BeforeHold, Raising,
             Session, ProfileSet, Funds,
             Settled
    <3>2. CommitConsistent(p, Settled(s))
      BY <1>t, <1>g, <1>a, <1>3
      DEF Good, HoldConsistent, CommitConsistent, SettleBase, TokenSubscription,
             BeforeHold, Raising, Holding, AfterRefund, Session, ProfileSet,
             Settled
    <3>3. RefundConsistent(p, Settled(s))
      BY <1>t, <1>g, <1>a, <1>3
      DEF Good, HoldConsistent, CommitConsistent, RefundConsistent,
             TokenSubscription, BeforeHold, Raising, Holding, AfterRefund, Session,
             ProfileSet, RefundPCs, RefundAttempts, Funds,
             Settled
    <3>4. TokenFloor(p, Settled(s), m)
      BY <1>t, <1>g, <1>a, <1>3
      DEF Good, HoldConsistent, CommitConsistent, RefundConsistent, TokenFloor,
             TokenSubscription, Amount, BeforeHold, Raising, Holding, AfterRefund,
             Session, ProfileSet, Charges, Accounts, Funds,
             Settled
    <3>5. BooksOf(p, Settled(s), m)
      BY <1>t, <1>g, <1>a, <1>3
      DEF Good, HoldConsistent, CommitConsistent, RefundConsistent, BooksOf,
             Booked, BookedToken, BookedFunding, SettleDelta, Fee, SettleBase,
             TokenSubscription, Amount, BeforeHold, Raising,
             Holding, AfterRefund, Session, ProfileSet, Charges, Accounts, Funds,
             Settled
    <3> QED
      BY <3>1, <3>2, <3>3, <3>4, <3>5 DEF Good
  <2> HIDE DEF tool, all
  <2> QED
    BY <1>3, <2>1, <2>2, UpdateStep
<1> QED
  BY <1>1, <1>2, <1>3 DEF SettleEven

\* Settle: the funding source is committed at the real price.
LEMMA SettleFundingPreserves ==
  ASSUME IInv, NEW r \in Requests, SettleFunding(r)
  PROVE  IInv'
<1> DEFINE p == prof[r]
           s == sess[r]
           m == paid[r]
           delta == s.actual - SettleBase(prof[r], s)
           paidF == [s EXCEPT !.fundingSettled = TRUE]
           stok  == [paidF EXCEPT !.pc = "stoken"]
           tool  == [paidF EXCEPT !.pc = "tool"]
           over  == [s EXCEPT !.pc = "done"]
<1>t. p \in ProfileSet /\ s \in Session /\ m \in Charges
  BY GoodOf
<1>g. Good(p, s, m)
  BY GoodOf
<1>a. s.pc = "settle"
  BY DEF SettleFunding
<1>1. CASE ~TokenSubscription(p) /\ Update(r, stok) /\ Adjust(r, s.src, delta)
  <2>1. stok \in Session
    BY <1>t DEF Session, PCs, Settled
  <2>2. s.src \in Accounts /\ delta \in Int
    BY <1>t, <1>g, <1>a, <1>1, BillingAssumption
    DEF Good, HoldConsistent, SettleBase, BeforeHold, Raising,
           Session, Accounts, Funds
  <2>3. Good(p, stok, [m EXCEPT ![s.src] = @ + delta])
    <3>1. HoldConsistent(p, stok)
      BY <1>t, <1>g, <1>a, <1>1, <2>2
      DEF Good, HoldConsistent, TokenSubscription, Amount, BeforeHold, Raising,
             Session, ProfileSet, Funds,
             Settled, Failed
    <3>2. CommitConsistent(p, stok)
      BY <1>t, <1>g, <1>a, <1>1, <2>2
      DEF Good, HoldConsistent, CommitConsistent, SettleBase, TokenSubscription,
             BeforeHold, Raising, Holding, AfterRefund, Session, ProfileSet,
             Settled, Failed
    <3>3. RefundConsistent(p, stok)
      BY <1>t, <1>g, <1>a, <1>1, <2>2
      DEF Good, HoldConsistent, CommitConsistent, RefundConsistent,
             TokenSubscription, BeforeHold, Raising, Holding, AfterRefund, Session,
             ProfileSet, RefundPCs, RefundAttempts, Funds,
             Settled, Failed
    <3>4. TokenFloor(p, stok, [m EXCEPT ![s.src] = @ + delta])
      BY <1>t, <1>g, <1>a, <1>1, <2>2
      DEF Good, HoldConsistent, CommitConsistent, RefundConsistent, TokenFloor,
             TokenSubscription, Amount, BeforeHold, Raising, Holding, AfterRefund,
             Session, ProfileSet, Charges, Accounts, Funds,
             Settled, Failed
    <3>5. BooksOf(p, stok, [m EXCEPT ![s.src] = @ + delta])
      BY <1>t, <1>g, <1>a, <1>1, <2>2
      DEF Good, HoldConsistent, CommitConsistent, RefundConsistent, BooksOf,
             Booked, BookedToken, BookedFunding, SettleDelta, Fee, SettleBase,
             TokenSubscription, Amount, BeforeHold, Raising,
             Holding, AfterRefund, Session, ProfileSet, Charges, Accounts, Funds,
             Settled, Failed
    <3> QED
      BY <3>1, <3>2, <3>3, <3>4, <3>5 DEF Good
  <2>4. /\ sess' = [sess EXCEPT ![r] = stok] /\ prof' = prof
        /\ faults' \in 0..MaxFaults
    BY <1>1 DEF Update, IInv, TypeOK
  <2> HIDE DEF delta, paidF, stok, tool, over
  <2> QED
    BY <1>1, <2>1, <2>2, <2>3, <2>4, AdjustStep
<1>2. CASE /\ TokenSubscription(p) /\ s.tool > 0
           /\ Update(r, tool)
           /\ Adjust(r, s.src, delta)
  <2>1. tool \in Session
    BY <1>t DEF Session, PCs, Settled
  <2>2. s.src \in Accounts /\ delta \in Int
    BY <1>t, <1>g, <1>a, <1>2, BillingAssumption
    DEF Good, HoldConsistent, SettleBase, BeforeHold, Raising,
           Session, Accounts, Funds
  <2>3. Good(p, tool, [m EXCEPT ![s.src] = @ + delta])
    <3>1. HoldConsistent(p, tool)
      BY <1>t, <1>g, <1>a, <1>2, <2>2
      DEF Good, HoldConsistent, TokenSubscription, Amount, BeforeHold, Raising,
             Session, ProfileSet, Funds,
             Settled, Failed
    <3>2. CommitConsistent(p, tool)
      BY <1>t, <1>g, <1>a, <1>2, <2>2
      DEF Good, HoldConsistent, CommitConsistent, SettleBase, TokenSubscription,
             BeforeHold, Raising, Holding, AfterRefund, Session, ProfileSet,
             Settled, Failed
    <3>3. RefundConsistent(p, tool)
      BY <1>t, <1>g, <1>a, <1>2, <2>2
      DEF Good, HoldConsistent, CommitConsistent, RefundConsistent,
             TokenSubscription, BeforeHold, Raising, Holding, AfterRefund, Session,
             ProfileSet, RefundPCs, RefundAttempts, Funds,
             Settled, Failed
    <3>4. TokenFloor(p, tool, [m EXCEPT ![s.src] = @ + delta])
      BY <1>t, <1>g, <1>a, <1>2, <2>2
      DEF Good, HoldConsistent, CommitConsistent, RefundConsistent, TokenFloor,
             TokenSubscription, Amount, BeforeHold, Raising, Holding, AfterRefund,
             Session, ProfileSet, Charges, Accounts, Funds,
             Settled, Failed
    <3>5. BooksOf(p, tool, [m EXCEPT ![s.src] = @ + delta])
      BY <1>t, <1>g, <1>a, <1>2, <2>2
      DEF Good, HoldConsistent, CommitConsistent, RefundConsistent, BooksOf,
             Booked, BookedToken, BookedFunding, SettleDelta, Fee, SettleBase,
             TokenSubscription, Amount, BeforeHold, Raising,
             Holding, AfterRefund, Session, ProfileSet, Charges, Accounts, Funds,
             Settled, Failed
    <3> QED
      BY <3>1, <3>2, <3>3, <3>4, <3>5 DEF Good
  <2>4. /\ sess' = [sess EXCEPT ![r] = tool] /\ prof' = prof
        /\ faults' \in 0..MaxFaults
    BY <1>2 DEF Update, IInv, TypeOK
  <2> HIDE DEF delta, paidF, stok, tool, over
  <2> QED
    BY <1>2, <2>1, <2>2, <2>3, <2>4, AdjustStep
<1>3. CASE /\ TokenSubscription(p) /\ ~(s.tool > 0)
           /\ Update(r, Settled(paidF))
           /\ Adjust(r, s.src, delta)
  <2>1. Settled(paidF) \in Session
    BY <1>t DEF Session, PCs, Settled
  <2>2. s.src \in Accounts /\ delta \in Int
    BY <1>t, <1>g, <1>a, <1>3, BillingAssumption
    DEF Good, HoldConsistent, SettleBase, BeforeHold, Raising,
           Session, Accounts, Funds
  <2>3. Good(p, Settled(paidF), [m EXCEPT ![s.src] = @ + delta])
    <3>1. HoldConsistent(p, Settled(paidF))
      BY <1>t, <1>g, <1>a, <1>3, <2>2
      DEF Good, HoldConsistent, TokenSubscription, Amount, BeforeHold, Raising,
             Session, ProfileSet, Funds,
             Settled, Failed
    <3>2. CommitConsistent(p, Settled(paidF))
      BY <1>t, <1>g, <1>a, <1>3, <2>2
      DEF Good, HoldConsistent, CommitConsistent, SettleBase, TokenSubscription,
             BeforeHold, Raising, Holding, AfterRefund, Session, ProfileSet,
             Settled, Failed
    <3>3. RefundConsistent(p, Settled(paidF))
      BY <1>t, <1>g, <1>a, <1>3, <2>2
      DEF Good, HoldConsistent, CommitConsistent, RefundConsistent,
             TokenSubscription, BeforeHold, Raising, Holding, AfterRefund, Session,
             ProfileSet, RefundPCs, RefundAttempts, Funds,
             Settled, Failed
    <3>4. TokenFloor(p, Settled(paidF), [m EXCEPT ![s.src] = @ + delta])
      BY <1>t, <1>g, <1>a, <1>3, <2>2
      DEF Good, HoldConsistent, CommitConsistent, RefundConsistent, TokenFloor,
             TokenSubscription, Amount, BeforeHold, Raising, Holding, AfterRefund,
             Session, ProfileSet, Charges, Accounts, Funds,
             Settled, Failed
    <3>5. BooksOf(p, Settled(paidF), [m EXCEPT ![s.src] = @ + delta])
      BY <1>t, <1>g, <1>a, <1>3, <2>2
      DEF Good, HoldConsistent, CommitConsistent, RefundConsistent, BooksOf,
             Booked, BookedToken, BookedFunding, SettleDelta, Fee, SettleBase,
             TokenSubscription, Amount, BeforeHold, Raising,
             Holding, AfterRefund, Session, ProfileSet, Charges, Accounts, Funds,
             Settled, Failed
    <3> QED
      BY <3>1, <3>2, <3>3, <3>4, <3>5 DEF Good
  <2>4. /\ sess' = [sess EXCEPT ![r] = Settled(paidF)] /\ prof' = prof
        /\ faults' \in 0..MaxFaults
    BY <1>3 DEF Update, IInv, TypeOK
  <2> HIDE DEF delta, paidF, stok, tool, over
  <2> QED
    BY <1>3, <2>1, <2>2, <2>3, <2>4, AdjustStep
<1>4. CASE p.upload /\ Update(r, Failed(s)) /\ NoAdjust
  <2>1. Failed(s) \in Session
    BY <1>t, SessionTypes DEF PCs
  <2>2. Good(p, Failed(s), m)
    <3>1. HoldConsistent(p, Failed(s))
      BY <1>t, <1>g, <1>a, <1>4
      DEF Good, HoldConsistent, TokenSubscription, Amount, BeforeHold, Raising,
             Session, ProfileSet, Funds,
             Settled, Failed
    <3>2. CommitConsistent(p, Failed(s))
      BY <1>t, <1>g, <1>a, <1>4
      DEF Good, HoldConsistent, CommitConsistent, SettleBase, TokenSubscription,
             BeforeHold, Raising, Holding, AfterRefund, Session, ProfileSet,
             Settled, Failed
    <3>3. RefundConsistent(p, Failed(s))
      BY <1>t, <1>g, <1>a, <1>4
      DEF Good, HoldConsistent, CommitConsistent, RefundConsistent,
             TokenSubscription, BeforeHold, Raising, Holding, AfterRefund, Session,
             ProfileSet, RefundPCs, RefundAttempts, Funds,
             Settled, Failed
    <3>4. TokenFloor(p, Failed(s), m)
      BY <1>t, <1>g, <1>a, <1>4
      DEF Good, HoldConsistent, CommitConsistent, RefundConsistent, TokenFloor,
             TokenSubscription, Amount, BeforeHold, Raising, Holding, AfterRefund,
             Session, ProfileSet, Charges, Accounts, Funds,
             Settled, Failed
    <3>5. BooksOf(p, Failed(s), m)
      BY <1>t, <1>g, <1>a, <1>4
      DEF Good, HoldConsistent, CommitConsistent, RefundConsistent, BooksOf,
             Booked, BookedToken, BookedFunding, SettleDelta, Fee, SettleBase,
             TokenSubscription, Amount, BeforeHold, Raising,
             Holding, AfterRefund, Session, ProfileSet, Charges, Accounts, Funds,
             Settled, Failed
    <3> QED
      BY <3>1, <3>2, <3>3, <3>4, <3>5 DEF Good
  <2> HIDE DEF delta, paidF, stok, tool, over
  <2> QED
    BY <1>4, <2>1, <2>2, UpdateStep
<1>5. CASE ~p.upload /\ Update(r, over) /\ NoAdjust
  <2>1. over \in Session
    BY <1>t DEF Session, PCs, Settled
  <2>2. Good(p, over, m)
    <3>1. HoldConsistent(p, over)
      BY <1>t, <1>g, <1>a, <1>5
      DEF Good, HoldConsistent, TokenSubscription, Amount, BeforeHold, Raising,
             Session, ProfileSet, Funds,
             Settled, Failed
    <3>2. CommitConsistent(p, over)
      BY <1>t, <1>g, <1>a, <1>5
      DEF Good, HoldConsistent, CommitConsistent, SettleBase, TokenSubscription,
             BeforeHold, Raising, Holding, AfterRefund, Session, ProfileSet,
             Settled, Failed
    <3>3. RefundConsistent(p, over)
      BY <1>t, <1>g, <1>a, <1>5
      DEF Good, HoldConsistent, CommitConsistent, RefundConsistent,
             TokenSubscription, BeforeHold, Raising, Holding, AfterRefund, Session,
             ProfileSet, RefundPCs, RefundAttempts, Funds,
             Settled, Failed
    <3>4. TokenFloor(p, over, m)
      BY <1>t, <1>g, <1>a, <1>5
      DEF Good, HoldConsistent, CommitConsistent, RefundConsistent, TokenFloor,
             TokenSubscription, Amount, BeforeHold, Raising, Holding, AfterRefund,
             Session, ProfileSet, Charges, Accounts, Funds,
             Settled, Failed
    <3>5. BooksOf(p, over, m)
      BY <1>t, <1>g, <1>a, <1>5
      DEF Good, HoldConsistent, CommitConsistent, RefundConsistent, BooksOf,
             Booked, BookedToken, BookedFunding, SettleDelta, Fee, SettleBase,
             TokenSubscription, Amount, BeforeHold, Raising,
             Holding, AfterRefund, Session, ProfileSet, Charges, Accounts, Funds,
             Settled, Failed
    <3> QED
      BY <3>1, <3>2, <3>3, <3>4, <3>5 DEF Good
  <2> HIDE DEF delta, paidF, stok, tool, over
  <2> QED
    BY <1>5, <2>1, <2>2, UpdateStep
<1>6. CASE p.upload /\ Fault(r, Failed(s))
  <2>1. Failed(s) \in Session
    BY <1>t, SessionTypes DEF PCs
  <2>2. Good(p, [Failed(s) EXCEPT !.clean = FALSE], m)
    BY <1>t, <1>g, <1>a, <1>6
    DEF Good, HoldConsistent, CommitConsistent, RefundConsistent, TokenFloor,
           BooksOf, Booked, BookedToken, BookedFunding, SettleDelta, Fee, SettleBase,
           TokenSubscription, Amount, BeforeHold,
           Raising, Holding, AfterRefund, Session, ProfileSet, Charges,
           Accounts, Funds, PCs, RefundPCs, RefundAttempts,
           Settled, Failed
  <2> HIDE DEF delta, paidF, stok, tool, over
  <2> QED
    BY <1>6, <2>1, <2>2, FaultStep
<1>7. CASE ~p.upload /\ Fault(r, over)
  <2>1. over \in Session
    BY <1>t DEF Session, PCs, Settled
  <2>2. Good(p, [over EXCEPT !.clean = FALSE], m)
    BY <1>t, <1>g, <1>a, <1>7
    DEF Good, HoldConsistent, CommitConsistent, RefundConsistent, TokenFloor,
           BooksOf, Booked, BookedToken, BookedFunding, SettleDelta, Fee, SettleBase,
           TokenSubscription, Amount, BeforeHold,
           Raising, Holding, AfterRefund, Session, ProfileSet, Charges,
           Accounts, Funds, PCs, RefundPCs, RefundAttempts,
           Settled, Failed
  <2> HIDE DEF delta, paidF, stok, tool, over
  <2> QED
    BY <1>7, <2>1, <2>2, FaultStep
<1> QED
  BY <1>1, <1>2, <1>3, <1>4, <1>5, <1>6, <1>7 DEF SettleFunding, SettleFailed

\* Settle: the token follows the committed funding source.
LEMMA SettleTokenPreserves ==
  ASSUME IInv, NEW r \in Requests, SettleToken(r)
  PROVE  IInv'
<1> DEFINE p == prof[r]
           s == sess[r]
           m == paid[r]
           delta == s.actual - s.pre
<1>t. p \in ProfileSet /\ s \in Session /\ m \in Charges
  BY GoodOf
<1>g. Good(p, s, m)
  BY GoodOf
<1>a. s.pc = "stoken"
  BY DEF SettleToken
<1>1. CASE p.playground /\ Update(r, Settled(s)) /\ NoAdjust
  <2>1. Settled(s) \in Session
    BY <1>t, SessionTypes DEF PCs
  <2>2. Good(p, Settled(s), m)
    <3>1. HoldConsistent(p, Settled(s))
      BY <1>t, <1>g, <1>a, <1>1
      DEF Good, HoldConsistent, TokenSubscription, Amount, BeforeHold, Raising,
             Session, ProfileSet, Funds,
             Settled, Failed
    <3>2. CommitConsistent(p, Settled(s))
      BY <1>t, <1>g, <1>a, <1>1
      DEF Good, HoldConsistent, CommitConsistent, SettleBase, TokenSubscription,
             BeforeHold, Raising, Holding, AfterRefund, Session, ProfileSet,
             Settled, Failed
    <3>3. RefundConsistent(p, Settled(s))
      BY <1>t, <1>g, <1>a, <1>1
      DEF Good, HoldConsistent, CommitConsistent, RefundConsistent,
             TokenSubscription, BeforeHold, Raising, Holding, AfterRefund, Session,
             ProfileSet, RefundPCs, RefundAttempts, Funds,
             Settled, Failed
    <3>4. TokenFloor(p, Settled(s), m)
      BY <1>t, <1>g, <1>a, <1>1
      DEF Good, HoldConsistent, CommitConsistent, RefundConsistent, TokenFloor,
             TokenSubscription, Amount, BeforeHold, Raising, Holding, AfterRefund,
             Session, ProfileSet, Charges, Accounts, Funds,
             Settled, Failed
    <3>5. BooksOf(p, Settled(s), m)
      BY <1>t, <1>g, <1>a, <1>1
      DEF Good, HoldConsistent, CommitConsistent, RefundConsistent, BooksOf,
             Booked, BookedToken, BookedFunding, SettleDelta, Fee, SettleBase,
             TokenSubscription, Amount, BeforeHold, Raising,
             Holding, AfterRefund, Session, ProfileSet, Charges, Accounts, Funds,
             Settled, Failed
    <3> QED
      BY <3>1, <3>2, <3>3, <3>4, <3>5 DEF Good
  <2> HIDE DEF delta
  <2> QED
    BY <1>1, <2>1, <2>2, UpdateStep
<1>2. CASE ~p.playground /\ Update(r, Settled(s)) /\ Adjust(r, "token", delta)
  <2>1. Settled(s) \in Session
    BY <1>t, SessionTypes DEF PCs
  <2>2. "token" \in Accounts /\ delta \in Int
    BY <1>t, <1>g, <1>a, <1>2, BillingAssumption
    DEF Good, HoldConsistent, SettleBase, BeforeHold, Raising,
           Session, Accounts, Funds
  <2>3. Good(p, Settled(s), [m EXCEPT !["token"] = @ + delta])
    <3>1. HoldConsistent(p, Settled(s))
      BY <1>t, <1>g, <1>a, <1>2, <2>2
      DEF Good, HoldConsistent, TokenSubscription, Amount, BeforeHold, Raising,
             Session, ProfileSet, Funds,
             Settled, Failed
    <3>2. CommitConsistent(p, Settled(s))
      BY <1>t, <1>g, <1>a, <1>2, <2>2
      DEF Good, HoldConsistent, CommitConsistent, SettleBase, TokenSubscription,
             BeforeHold, Raising, Holding, AfterRefund, Session, ProfileSet,
             Settled, Failed
    <3>3. RefundConsistent(p, Settled(s))
      BY <1>t, <1>g, <1>a, <1>2, <2>2
      DEF Good, HoldConsistent, CommitConsistent, RefundConsistent,
             TokenSubscription, BeforeHold, Raising, Holding, AfterRefund, Session,
             ProfileSet, RefundPCs, RefundAttempts, Funds,
             Settled, Failed
    <3>4. TokenFloor(p, Settled(s), [m EXCEPT !["token"] = @ + delta])
      BY <1>t, <1>g, <1>a, <1>2, <2>2
      DEF Good, HoldConsistent, CommitConsistent, RefundConsistent, TokenFloor,
             TokenSubscription, Amount, BeforeHold, Raising, Holding, AfterRefund,
             Session, ProfileSet, Charges, Accounts, Funds,
             Settled, Failed
    <3>5. BooksOf(p, Settled(s), [m EXCEPT !["token"] = @ + delta])
      BY <1>t, <1>g, <1>a, <1>2, <2>2
      DEF Good, HoldConsistent, CommitConsistent, RefundConsistent, BooksOf,
             Booked, BookedToken, BookedFunding, SettleDelta, Fee, SettleBase,
             TokenSubscription, Amount, BeforeHold, Raising,
             Holding, AfterRefund, Session, ProfileSet, Charges, Accounts, Funds,
             Settled, Failed
    <3> QED
      BY <3>1, <3>2, <3>3, <3>4, <3>5 DEF Good
  <2>4. /\ sess' = [sess EXCEPT ![r] = Settled(s)] /\ prof' = prof
        /\ faults' \in 0..MaxFaults
    BY <1>2 DEF Update, IInv, TypeOK
  <2> HIDE DEF delta
  <2> QED
    BY <1>2, <2>1, <2>2, <2>3, <2>4, AdjustStep
<1>3. CASE ~p.playground /\ Fault(r, Failed(Settled(s)))
  <2>1. Failed(Settled(s)) \in Session
    BY <1>t, SessionTypes DEF PCs
  <2>2. Good(p, [Failed(Settled(s)) EXCEPT !.clean = FALSE], m)
    BY <1>t, <1>g, <1>a, <1>3
    DEF Good, HoldConsistent, CommitConsistent, RefundConsistent, TokenFloor,
           BooksOf, Booked, BookedToken, BookedFunding, SettleDelta, Fee, SettleBase,
           TokenSubscription, Amount, BeforeHold,
           Raising, Holding, AfterRefund, Session, ProfileSet, Charges,
           Accounts, Funds, PCs, RefundPCs, RefundAttempts,
           Settled, Failed
  <2> HIDE DEF delta
  <2> QED
    BY <1>3, <2>1, <2>2, FaultStep
<1>4. CASE ~p.playground /\ Fault(r, Settled(s))
  <2>1. Settled(s) \in Session
    BY <1>t, SessionTypes DEF PCs
  <2>2. Good(p, [Settled(s) EXCEPT !.clean = FALSE], m)
    BY <1>t, <1>g, <1>a, <1>4
    DEF Good, HoldConsistent, CommitConsistent, RefundConsistent, TokenFloor,
           BooksOf, Booked, BookedToken, BookedFunding, SettleDelta, Fee, SettleBase,
           TokenSubscription, Amount, BeforeHold,
           Raising, Holding, AfterRefund, Session, ProfileSet, Charges,
           Accounts, Funds, PCs, RefundPCs, RefundAttempts,
           Settled, Failed
  <2> HIDE DEF delta
  <2> QED
    BY <1>4, <2>1, <2>2, FaultStep
<1> QED
  BY <1>1, <1>2, <1>3, <1>4 DEF SettleToken, SettleFailed, Settled

\* SettleTokenBilling: the wallet pays the tools.
LEMMA SettleToolPreserves ==
  ASSUME IInv, NEW r \in Requests, SettleTool(r)
  PROVE  IInv'
<1> DEFINE p == prof[r]
           s == sess[r]
           m == paid[r]
           over == [s EXCEPT !.pc = "done"]
<1>t. p \in ProfileSet /\ s \in Session /\ m \in Charges
  BY GoodOf
<1>g. Good(p, s, m)
  BY GoodOf
<1>a. s.pc = "tool"
  BY DEF SettleTool
<1>1. CASE Update(r, Settled(s)) /\ Adjust(r, "wallet", s.tool)
  <2>1. Settled(s) \in Session
    BY <1>t, SessionTypes DEF PCs
  <2>2. "wallet" \in Accounts /\ s.tool \in Int
    BY <1>t, <1>g, <1>a, <1>1, BillingAssumption
    DEF Good, HoldConsistent, SettleBase, BeforeHold, Raising,
           Session, Accounts, Funds
  <2>3. Good(p, Settled(s), [m EXCEPT !["wallet"] = @ + s.tool])
    <3>1. HoldConsistent(p, Settled(s))
      BY <1>t, <1>g, <1>a, <1>1, <2>2
      DEF Good, HoldConsistent, TokenSubscription, Amount, BeforeHold, Raising,
             Session, ProfileSet, Funds,
             Settled, Failed
    <3>2. CommitConsistent(p, Settled(s))
      BY <1>t, <1>g, <1>a, <1>1, <2>2
      DEF Good, HoldConsistent, CommitConsistent, SettleBase, TokenSubscription,
             BeforeHold, Raising, Holding, AfterRefund, Session, ProfileSet,
             Settled, Failed
    <3>3. RefundConsistent(p, Settled(s))
      BY <1>t, <1>g, <1>a, <1>1, <2>2
      DEF Good, HoldConsistent, CommitConsistent, RefundConsistent,
             TokenSubscription, BeforeHold, Raising, Holding, AfterRefund, Session,
             ProfileSet, RefundPCs, RefundAttempts, Funds,
             Settled, Failed
    <3>4. TokenFloor(p, Settled(s), [m EXCEPT !["wallet"] = @ + s.tool])
      BY <1>t, <1>g, <1>a, <1>1, <2>2
      DEF Good, HoldConsistent, CommitConsistent, RefundConsistent, TokenFloor,
             TokenSubscription, Amount, BeforeHold, Raising, Holding, AfterRefund,
             Session, ProfileSet, Charges, Accounts, Funds,
             Settled, Failed
    <3>5. BooksOf(p, Settled(s), [m EXCEPT !["wallet"] = @ + s.tool])
      BY <1>t, <1>g, <1>a, <1>1, <2>2
      DEF Good, HoldConsistent, CommitConsistent, RefundConsistent, BooksOf,
             Booked, BookedToken, BookedFunding, SettleDelta, Fee, SettleBase,
             TokenSubscription, Amount, BeforeHold, Raising,
             Holding, AfterRefund, Session, ProfileSet, Charges, Accounts, Funds,
             Settled, Failed
    <3> QED
      BY <3>1, <3>2, <3>3, <3>4, <3>5 DEF Good
  <2>4. /\ sess' = [sess EXCEPT ![r] = Settled(s)] /\ prof' = prof
        /\ faults' \in 0..MaxFaults
    BY <1>1 DEF Update, IInv, TypeOK
  <2> HIDE DEF over
  <2> QED
    BY <1>1, <2>1, <2>2, <2>3, <2>4, AdjustStep
<1>2. CASE Fault(r, Failed(s))
  <2>1. Failed(s) \in Session
    BY <1>t, SessionTypes DEF PCs
  <2>2. Good(p, [Failed(s) EXCEPT !.clean = FALSE], m)
    BY <1>t, <1>g, <1>a, <1>2
    DEF Good, HoldConsistent, CommitConsistent, RefundConsistent, TokenFloor,
           BooksOf, Booked, BookedToken, BookedFunding, SettleDelta, Fee, SettleBase,
           TokenSubscription, Amount, BeforeHold,
           Raising, Holding, AfterRefund, Session, ProfileSet, Charges,
           Accounts, Funds, PCs, RefundPCs, RefundAttempts,
           Settled, Failed
  <2> HIDE DEF over
  <2> QED
    BY <1>2, <2>1, <2>2, FaultStep
<1>3. CASE Fault(r, over)
  <2>1. over \in Session
    BY <1>t, SessionTypes DEF PCs
  <2>2. Good(p, [over EXCEPT !.clean = FALSE], m)
    BY <1>t, <1>g, <1>a, <1>3
    DEF Good, HoldConsistent, CommitConsistent, RefundConsistent, TokenFloor,
           BooksOf, Booked, BookedToken, BookedFunding, SettleDelta, Fee, SettleBase,
           TokenSubscription, Amount, BeforeHold,
           Raising, Holding, AfterRefund, Session, ProfileSet, Charges,
           Accounts, Funds, PCs, RefundPCs, RefundAttempts,
           Settled, Failed
  <2> HIDE DEF over
  <2> QED
    BY <1>3, <2>1, <2>2, FaultStep
<1> QED
  BY <1>1, <1>2, <1>3 DEF SettleTool, SettleFailed

\* Refund starts its goroutine at most once and never after a commitment.
LEMMA RefundPreserves ==
  ASSUME IInv, NEW r \in Requests, NEW v \in BOOLEAN, Refund(r, v)
  PROVE  IInv'
<1> DEFINE p == prof[r]
           s == sess[r]
           m == paid[r]
           next == IF v THEN "feefund" ELSE "done"
           back == [s EXCEPT !.pc = next, !.refunded = TRUE, !.rpc = "fund"]
           over == [s EXCEPT !.pc = next]
<1>t. p \in ProfileSet /\ s \in Session /\ m \in Charges
  BY GoodOf
<1>g. Good(p, s, m)
  BY GoodOf
<1>a. s.pc \in {"failed", "release"} /\ (v => s.pc = "failed")
  BY DEF Refund
<1>b. next \in {"feefund", "done"}
  OBVIOUS
<1>1. CASE NeedsRefund(s) /\ Update(r, back) /\ NoAdjust
  <2>1. back \in Session
    BY ZenonT(60), <1>t, <1>a, <1>b DEF Session, PCs, RefundPCs
  <2>2. Good(p, back, m)
    <3>1. HoldConsistent(p, back)
      BY <1>t, <1>g, <1>a, <1>b, <1>1
      DEF Good, HoldConsistent, TokenSubscription, Amount, BeforeHold, Raising,
             Session, ProfileSet, Funds,
             NeedsRefund
    <3>2. CommitConsistent(p, back)
      BY <1>t, <1>g, <1>a, <1>b, <1>1
      DEF Good, HoldConsistent, CommitConsistent, SettleBase, TokenSubscription,
             BeforeHold, Raising, Holding, AfterRefund, Session, ProfileSet,
             NeedsRefund
    <3>3. RefundConsistent(p, back)
      BY <1>t, <1>g, <1>a, <1>b, <1>1
      DEF Good, HoldConsistent, CommitConsistent, RefundConsistent,
             TokenSubscription, BeforeHold, Raising, Holding, AfterRefund, Session,
             ProfileSet, RefundPCs, RefundAttempts, Funds,
             NeedsRefund
    <3>4. TokenFloor(p, back, m)
      BY <1>t, <1>g, <1>a, <1>b, <1>1
      DEF Good, HoldConsistent, CommitConsistent, RefundConsistent, TokenFloor,
             TokenSubscription, Amount, BeforeHold, Raising, Holding, AfterRefund,
             Session, ProfileSet, Charges, Accounts, Funds,
             NeedsRefund
    <3>5. BooksOf(p, back, m)
      BY <1>t, <1>g, <1>a, <1>b, <1>1
      DEF Good, HoldConsistent, CommitConsistent, RefundConsistent, BooksOf,
             Booked, BookedToken, BookedFunding, SettleDelta, Fee, SettleBase,
             TokenSubscription, Amount, BeforeHold, Raising,
             Holding, AfterRefund, Session, ProfileSet, Charges, Accounts, Funds,
             NeedsRefund
    <3> QED
      BY <3>1, <3>2, <3>3, <3>4, <3>5 DEF Good
  <2> HIDE DEF next, back, over
  <2> QED
    BY <1>1, <2>1, <2>2, UpdateStep
<1>2. CASE ~NeedsRefund(s) /\ Update(r, over) /\ NoAdjust
  <2>1. over \in Session
    BY <1>t, <1>a, <1>b DEF Session, PCs, RefundPCs
  <2>2. Good(p, over, m)
    <3>1. HoldConsistent(p, over)
      BY <1>t, <1>g, <1>a, <1>b, <1>2
      DEF Good, HoldConsistent, TokenSubscription, Amount, BeforeHold, Raising,
             Session, ProfileSet, Funds,
             NeedsRefund
    <3>2. CommitConsistent(p, over)
      BY <1>t, <1>g, <1>a, <1>b, <1>2
      DEF Good, HoldConsistent, CommitConsistent, SettleBase, TokenSubscription,
             BeforeHold, Raising, Holding, AfterRefund, Session, ProfileSet,
             NeedsRefund
    <3>3. RefundConsistent(p, over)
      BY <1>t, <1>g, <1>a, <1>b, <1>2
      DEF Good, HoldConsistent, CommitConsistent, RefundConsistent,
             TokenSubscription, BeforeHold, Raising, Holding, AfterRefund, Session,
             ProfileSet, RefundPCs, RefundAttempts, Funds,
             NeedsRefund
    <3>4. TokenFloor(p, over, m)
      BY <1>t, <1>g, <1>a, <1>b, <1>2
      DEF Good, HoldConsistent, CommitConsistent, RefundConsistent, TokenFloor,
             TokenSubscription, Amount, BeforeHold, Raising, Holding, AfterRefund,
             Session, ProfileSet, Charges, Accounts, Funds,
             NeedsRefund
    <3>5. BooksOf(p, over, m)
      BY <1>t, <1>g, <1>a, <1>b, <1>2
      DEF Good, HoldConsistent, CommitConsistent, RefundConsistent, BooksOf,
             Booked, BookedToken, BookedFunding, SettleDelta, Fee, SettleBase,
             TokenSubscription, Amount, BeforeHold, Raising,
             Holding, AfterRefund, Session, ProfileSet, Charges, Accounts, Funds,
             NeedsRefund
    <3> QED
      BY <3>1, <3>2, <3>3, <3>4, <3>5 DEF Good
  <2> HIDE DEF next, back, over
  <2> QED
    BY <1>2, <2>1, <2>2, UpdateStep
<1> QED
  BY <1>1, <1>2 DEF Refund

\* The refund goroutine returns what a wallet holds.
LEMMA RefundWalletPreserves ==
  ASSUME IInv, NEW r \in Requests, RefundWallet(r)
  PROVE  IInv'
<1> DEFINE p == prof[r]
           s == sess[r]
           m == paid[r]
           ok == [s EXCEPT !.rpc = "extra", !.rok = @ \cup {"fund"}]
           ko == [s EXCEPT !.rpc = "extra"]
<1>t. p \in ProfileSet /\ s \in Session /\ m \in Charges
  BY GoodOf
<1>g. Good(p, s, m)
  BY GoodOf
<1>a. s.rpc = "fund" /\ s.src # "subscription"
  BY DEF RefundWallet
<1>b. s.pc \in AfterRefund /\ s.src \in Funds
  BY <1>t, <1>g, <1>a
  DEF Good, RefundConsistent, CommitConsistent, HoldConsistent, AfterRefund, BeforeHold
<1>1. CASE s.consumed = 0 /\ Update(r, ok) /\ NoAdjust
  <2>1. ok \in Session
    BY <1>t, <1>b DEF Session, PCs, RefundPCs
  <2>2. Good(p, ok, m)
    BY <1>t, <1>g, <1>a, <1>b, <1>1
    DEF Good, HoldConsistent, CommitConsistent, RefundConsistent, TokenFloor,
           BooksOf, Booked, BookedToken, BookedFunding, SettleDelta, Fee, SettleBase,
           TokenSubscription, Amount, BeforeHold,
           Raising, Holding, AfterRefund, Session, ProfileSet, Charges,
           Accounts, Funds, PCs, RefundPCs, RefundAttempts
  <2> HIDE DEF ok, ko
  <2> QED
    BY <1>1, <2>1, <2>2, UpdateStep
<1>2. CASE Update(r, ok) /\ Adjust(r, s.src, -s.consumed)
  <2>1. ok \in Session
    BY <1>t, <1>b DEF Session, PCs, RefundPCs
  <2>2. s.src \in Accounts /\ -s.consumed \in Int
    BY <1>t, <1>g, <1>a, <1>b, <1>2, BillingAssumption
    DEF Good, HoldConsistent, SettleBase, BeforeHold, Raising,
           Session, Accounts, Funds
  <2>3. Good(p, ok, [m EXCEPT ![s.src] = @ + -s.consumed])
    <3>1. HoldConsistent(p, ok)
      BY <1>t, <1>g, <1>a, <1>b, <1>2, <2>2
      DEF Good, HoldConsistent, TokenSubscription, Amount, BeforeHold, Raising,
             Session, ProfileSet, Funds
    <3>2. CommitConsistent(p, ok)
      BY <1>t, <1>g, <1>a, <1>b, <1>2, <2>2
      DEF Good, HoldConsistent, CommitConsistent, SettleBase, TokenSubscription,
             BeforeHold, Raising, Holding, AfterRefund, Session, ProfileSet
    <3>3. RefundConsistent(p, ok)
      BY <1>t, <1>g, <1>a, <1>b, <1>2, <2>2
      DEF Good, HoldConsistent, CommitConsistent, RefundConsistent,
             TokenSubscription, BeforeHold, Raising, Holding, AfterRefund, Session,
             ProfileSet, RefundPCs, RefundAttempts, Funds
    <3>4. TokenFloor(p, ok, [m EXCEPT ![s.src] = @ + -s.consumed])
      BY <1>t, <1>g, <1>a, <1>b, <1>2, <2>2
      DEF Good, HoldConsistent, CommitConsistent, RefundConsistent, TokenFloor,
             TokenSubscription, Amount, BeforeHold, Raising, Holding, AfterRefund,
             Session, ProfileSet, Charges, Accounts, Funds
    <3>5. BooksOf(p, ok, [m EXCEPT ![s.src] = @ + -s.consumed])
      <4>1. SameBut(s, ok, "fund")
        BY <1>t, <1>g, <1>a DEF SameBut, Good, RefundConsistent, Session
      <4>2. /\ s.consumed \in Nat /\ s.extra \in Nat /\ s.tokenConsumed \in Nat
            /\ s.src \in Funds /\ s.tool \in Nat
        BY <1>t, <1>g, <1>a, <1>b
        DEF Session, Good, HoldConsistent, BeforeHold, AfterRefund
      <4>3. /\ ok.settled = s.settled /\ ok.clean = s.clean
            /\ ok.tool = s.tool /\ ok.src = s.src
        BY <1>t DEF Session
      <4> HIDE DEF ok, ko
      <4> QED
        BY <1>t, <1>g, <1>a, <1>2, <2>1, <4>1, <4>2, <4>3, RefundedBooks
        DEF Good, BooksOf, Booked, Charges, Accounts, Funds
    <3> QED
      BY <3>1, <3>2, <3>3, <3>4, <3>5 DEF Good
  <2>4. /\ sess' = [sess EXCEPT ![r] = ok] /\ prof' = prof
        /\ faults' \in 0..MaxFaults
    BY <1>2 DEF Update, IInv, TypeOK
  <2> HIDE DEF ok, ko
  <2> QED
    BY <1>2, <2>1, <2>2, <2>3, <2>4, AdjustStep
<1>3. CASE Fault(r, ko)
  <2>1. ko \in Session
    BY <1>t, <1>b DEF Session, PCs, RefundPCs
  <2>2. Good(p, [ko EXCEPT !.clean = FALSE], m)
    BY <1>t, <1>g, <1>a, <1>b, <1>3
    DEF Good, HoldConsistent, CommitConsistent, RefundConsistent, TokenFloor,
           BooksOf, Booked, BookedToken, BookedFunding, SettleDelta, Fee, SettleBase,
           TokenSubscription, Amount, BeforeHold,
           Raising, Holding, AfterRefund, Session, ProfileSet, Charges,
           Accounts, Funds, PCs, RefundPCs, RefundAttempts
  <2> HIDE DEF ok, ko
  <2> QED
    BY <1>3, <2>1, <2>2, FaultStep
<1> QED
  BY <1>1, <1>2, <1>3 DEF RefundWallet

\* The refund goroutine's attempts on the subscription, torn ones included.
LEMMA RefundSubscriptionPreserves ==
  ASSUME IInv, NEW r \in Requests, RefundSubscription(r)
  PROVE  IInv'
<1> DEFINE p == prof[r]
           s == sess[r]
           m == paid[r]
           returned == [s EXCEPT !.rpc = "extra", !.rok = @ \cup {"fund"},
                                 !.record = "refunded"]
           again == [s EXCEPT !.attempts = @ + 1]
           quit  == [s EXCEPT !.attempts = @ + 1, !.rpc = "extra"]
           torn  == [again EXCEPT !.clean = FALSE]
           tornq == [quit EXCEPT !.clean = FALSE]
<1>t. p \in ProfileSet /\ s \in Session /\ m \in Charges
  BY GoodOf
<1>g. Good(p, s, m)
  BY GoodOf
<1>a. s.rpc = "fund" /\ s.src = "subscription"
  BY DEF RefundSubscription
<1>b. s.pc \in AfterRefund /\ s.attempts + 1 \in 0..RefundAttempts
  BY <1>t, <1>g, <1>a
  DEF Good, RefundConsistent, CommitConsistent, Session, RefundAttempts
<1>1. CASE Update(r, returned) /\ Adjust(r, "subscription", -s.consumed)
  <2>1. returned \in Session
    BY ZenonT(60), <1>t, <1>b DEF Session, PCs, RefundPCs
  <2>2. "subscription" \in Accounts /\ -s.consumed \in Int
    BY <1>t, <1>g, <1>a, <1>b, <1>1, BillingAssumption
    DEF Good, HoldConsistent, SettleBase, BeforeHold, Raising,
           Session, Accounts, Funds
  <2>3. Good(p, returned, [m EXCEPT !["subscription"] = @ + -s.consumed])
    <3>1. HoldConsistent(p, returned)
      BY <1>t, <1>g, <1>a, <1>b, <1>1, <2>2
      DEF Good, HoldConsistent, TokenSubscription, Amount, BeforeHold, Raising,
             Session, ProfileSet, Funds
    <3>2. CommitConsistent(p, returned)
      BY <1>t, <1>g, <1>a, <1>b, <1>1, <2>2
      DEF Good, HoldConsistent, CommitConsistent, SettleBase, TokenSubscription,
             BeforeHold, Raising, Holding, AfterRefund, Session, ProfileSet
    <3>3. RefundConsistent(p, returned)
      BY <1>t, <1>g, <1>a, <1>b, <1>1, <2>2
      DEF Good, HoldConsistent, CommitConsistent, RefundConsistent,
             TokenSubscription, BeforeHold, Raising, Holding, AfterRefund, Session,
             ProfileSet, RefundPCs, RefundAttempts, Funds
    <3>4. TokenFloor(p, returned, [m EXCEPT !["subscription"] = @ + -s.consumed])
      BY <1>t, <1>g, <1>a, <1>b, <1>1, <2>2
      DEF Good, HoldConsistent, CommitConsistent, RefundConsistent, TokenFloor,
             TokenSubscription, Amount, BeforeHold, Raising, Holding, AfterRefund,
             Session, ProfileSet, Charges, Accounts, Funds
    <3>5. BooksOf(p, returned, [m EXCEPT !["subscription"] = @ + -s.consumed])
      <4>1. SameBut(s, returned, "fund")
        BY <1>t, <1>g, <1>a DEF SameBut, Good, RefundConsistent, Session
      <4>2. /\ s.consumed \in Nat /\ s.extra \in Nat /\ s.tokenConsumed \in Nat
            /\ s.src \in Funds /\ s.tool \in Nat
        BY <1>t, <1>g, <1>a, <1>b
        DEF Session, Good, HoldConsistent, BeforeHold, AfterRefund
      <4>3. /\ returned.settled = s.settled /\ returned.clean = s.clean
            /\ returned.tool = s.tool /\ returned.src = s.src
        BY <1>t DEF Session
      <4> HIDE DEF returned, again, quit, torn, tornq
      <4> QED
        BY <1>t, <1>g, <1>a, <1>1, <2>1, <4>1, <4>2, <4>3, RefundedBooks
        DEF Good, BooksOf, Booked, Charges, Accounts, Funds
    <3> QED
      BY <3>1, <3>2, <3>3, <3>4, <3>5 DEF Good
  <2>4. /\ sess' = [sess EXCEPT ![r] = returned] /\ prof' = prof
        /\ faults' \in 0..MaxFaults
    BY <1>1 DEF Update, IInv, TypeOK
  <2> HIDE DEF returned, again, quit, torn, tornq
  <2> QED
    BY <1>1, <2>1, <2>2, <2>3, <2>4, AdjustStep
<1>2. CASE /\ s.attempts + 1 < RefundAttempts /\ faults < MaxFaults /\ faults' = faults + 1
         /\ sess' = [sess EXCEPT ![r] = torn]
         /\ Adjust(r, "subscription", -s.consumed) /\ prof' = prof
  <2>1. torn \in Session
    BY <1>t, <1>b DEF Session, PCs, RefundPCs
  <2>2. "subscription" \in Accounts /\ -s.consumed \in Int
    BY <1>t, <1>g, <1>a, <1>b, <1>2, BillingAssumption
    DEF Good, HoldConsistent, BeforeHold, Raising,
           Session, Accounts, Funds
  <2>3. Good(p, torn, [m EXCEPT !["subscription"] = @ + -s.consumed])
    BY <1>t, <1>g, <1>a, <1>b, <1>2, <2>2
    DEF Good, HoldConsistent, CommitConsistent, RefundConsistent, TokenFloor,
           BooksOf, Booked, BookedToken, BookedFunding, SettleDelta, Fee, SettleBase,
           TokenSubscription, Amount, BeforeHold,
           Raising, Holding, AfterRefund, Session, ProfileSet, Charges,
           Accounts, Funds, PCs, RefundPCs, RefundAttempts
  <2>4. faults' \in 0..MaxFaults
    BY <1>2, BillingAssumption DEF IInv, TypeOK
  <2> HIDE DEF returned, again, quit, torn, tornq
  <2> QED
    BY <1>2, <2>1, <2>2, <2>3, <2>4, AdjustStep
<1>3. CASE /\ faults < MaxFaults /\ faults' = faults + 1
         /\ sess' = [sess EXCEPT ![r] = tornq]
         /\ Adjust(r, "subscription", -s.consumed) /\ prof' = prof
  <2>1. tornq \in Session
    BY <1>t, <1>b DEF Session, PCs, RefundPCs
  <2>2. "subscription" \in Accounts /\ -s.consumed \in Int
    BY <1>t, <1>g, <1>a, <1>b, <1>3, BillingAssumption
    DEF Good, HoldConsistent, BeforeHold, Raising,
           Session, Accounts, Funds
  <2>3. Good(p, tornq, [m EXCEPT !["subscription"] = @ + -s.consumed])
    BY ZenonT(60), <1>t, <1>g, <1>a, <1>b, <1>3, <2>2
    DEF Good, HoldConsistent, CommitConsistent, RefundConsistent, TokenFloor,
           BooksOf, Booked, BookedToken, BookedFunding, SettleDelta, Fee, SettleBase,
           TokenSubscription, Amount, BeforeHold,
           Raising, Holding, AfterRefund, Session, ProfileSet, Charges,
           Accounts, Funds, PCs, RefundPCs, RefundAttempts
  <2>4. faults' \in 0..MaxFaults
    BY <1>3, BillingAssumption DEF IInv, TypeOK
  <2> HIDE DEF returned, again, quit, torn, tornq
  <2> QED
    BY <1>3, <2>1, <2>2, <2>3, <2>4, AdjustStep
<1>4. CASE /\ s.attempts + 1 < RefundAttempts /\ SingleWriter
           /\ Update(r, again)
           /\ NoAdjust
  <2>1. again \in Session
    BY <1>t, <1>b DEF Session, PCs, RefundPCs
  <2>2. Good(p, again, m)
    BY <1>t, <1>g, <1>a, <1>b, <1>4
    DEF Good, HoldConsistent, CommitConsistent, RefundConsistent, TokenFloor,
           BooksOf, Booked, BookedToken, BookedFunding, SettleDelta, Fee, SettleBase,
           TokenSubscription, Amount, BeforeHold,
           Raising, Holding, AfterRefund, Session, ProfileSet, Charges,
           Accounts, Funds, PCs, RefundPCs, RefundAttempts
  <2> HIDE DEF returned, again, quit, torn, tornq
  <2> QED
    BY <1>4, <2>1, <2>2, UpdateStep
<1>5. CASE SingleWriter /\ Update(r, quit) /\ NoAdjust
  <2>1. quit \in Session
    BY <1>t, <1>b DEF Session, PCs, RefundPCs
  <2>2. Good(p, quit, m)
    BY <1>t, <1>g, <1>a, <1>b, <1>5
    DEF Good, HoldConsistent, CommitConsistent, RefundConsistent, TokenFloor,
           BooksOf, Booked, BookedToken, BookedFunding, SettleDelta, Fee, SettleBase,
           TokenSubscription, Amount, BeforeHold,
           Raising, Holding, AfterRefund, Session, ProfileSet, Charges,
           Accounts, Funds, PCs, RefundPCs, RefundAttempts
  <2> HIDE DEF returned, again, quit, torn, tornq
  <2> QED
    BY <1>5, <2>1, <2>2, UpdateStep
<1>6. CASE s.attempts + 1 < RefundAttempts /\ Fault(r, again)
  <2>1. again \in Session
    BY <1>t, <1>b DEF Session, PCs, RefundPCs
  <2>2. Good(p, [again EXCEPT !.clean = FALSE], m)
    BY <1>t, <1>g, <1>a, <1>b, <1>6
    DEF Good, HoldConsistent, CommitConsistent, RefundConsistent, TokenFloor,
           BooksOf, Booked, BookedToken, BookedFunding, SettleDelta, Fee, SettleBase,
           TokenSubscription, Amount, BeforeHold,
           Raising, Holding, AfterRefund, Session, ProfileSet, Charges,
           Accounts, Funds, PCs, RefundPCs, RefundAttempts
  <2> HIDE DEF returned, again, quit, torn, tornq
  <2> QED
    BY <1>6, <2>1, <2>2, FaultStep
<1>7. CASE Fault(r, quit)
  <2>1. quit \in Session
    BY <1>t, <1>b DEF Session, PCs, RefundPCs
  <2>2. Good(p, [quit EXCEPT !.clean = FALSE], m)
    BY <1>t, <1>g, <1>a, <1>b, <1>7
    DEF Good, HoldConsistent, CommitConsistent, RefundConsistent, TokenFloor,
           BooksOf, Booked, BookedToken, BookedFunding, SettleDelta, Fee, SettleBase,
           TokenSubscription, Amount, BeforeHold,
           Raising, Holding, AfterRefund, Session, ProfileSet, Charges,
           Accounts, Funds, PCs, RefundPCs, RefundAttempts
  <2> HIDE DEF returned, again, quit, torn, tornq
  <2> QED
    BY <1>7, <2>1, <2>2, FaultStep
<1> QED
  BY <1>1, <1>2, <1>3, <1>4, <1>5, <1>6, <1>7
  DEF RefundSubscription, NextAttempt

\* The refund goroutine returns what reserve added on a subscription.
LEMMA RefundExtraPreserves ==
  ASSUME IInv, NEW r \in Requests, RefundExtra(r)
  PROVE  IInv'
<1> DEFINE p == prof[r]
           s == sess[r]
           m == paid[r]
           owed == s.extra > 0 /\ s.src = "subscription"
           none == [s EXCEPT !.rpc = "token"]
           ok   == [s EXCEPT !.rpc = "token", !.rok = @ \cup {"extra"}]
<1>t. p \in ProfileSet /\ s \in Session /\ m \in Charges
  BY GoodOf
<1>g. Good(p, s, m)
  BY GoodOf
<1>a. s.rpc = "extra"
  BY DEF RefundExtra
<1>b. s.pc \in AfterRefund
  BY <1>t, <1>g, <1>a DEF Good, RefundConsistent, CommitConsistent
<1>1. CASE ~owed /\ Update(r, none) /\ NoAdjust
  <2>1. none \in Session
    BY <1>t, <1>b DEF Session, PCs, RefundPCs
  <2>2. Good(p, none, m)
    BY <1>t, <1>g, <1>a, <1>b, <1>1
    DEF Good, HoldConsistent, CommitConsistent, RefundConsistent, TokenFloor,
           BooksOf, Booked, BookedToken, BookedFunding, SettleDelta, Fee, SettleBase,
           TokenSubscription, Amount, BeforeHold,
           Raising, Holding, AfterRefund, Session, ProfileSet, Charges,
           Accounts, Funds, PCs, RefundPCs, RefundAttempts
  <2> HIDE DEF none, ok
  <2> QED
    BY <1>1, <2>1, <2>2, UpdateStep
<1>2. CASE owed /\ Update(r, ok) /\ Adjust(r, "subscription", -s.extra)
  <2>1. ok \in Session
    BY <1>t, <1>b DEF Session, PCs, RefundPCs
  <2>2. "subscription" \in Accounts /\ -s.extra \in Int
    BY <1>t, <1>g, <1>a, <1>b, <1>2, BillingAssumption
    DEF Good, HoldConsistent, SettleBase, BeforeHold, Raising,
           Session, Accounts, Funds
  <2>3. Good(p, ok, [m EXCEPT !["subscription"] = @ + -s.extra])
    <3>1. HoldConsistent(p, ok)
      BY <1>t, <1>g, <1>a, <1>b, <1>2, <2>2
      DEF Good, HoldConsistent, TokenSubscription, Amount, BeforeHold, Raising,
             Session, ProfileSet, Funds
    <3>2. CommitConsistent(p, ok)
      BY <1>t, <1>g, <1>a, <1>b, <1>2, <2>2
      DEF Good, HoldConsistent, CommitConsistent, SettleBase, TokenSubscription,
             BeforeHold, Raising, Holding, AfterRefund, Session, ProfileSet
    <3>3. RefundConsistent(p, ok)
      BY <1>t, <1>g, <1>a, <1>b, <1>2, <2>2
      DEF Good, HoldConsistent, CommitConsistent, RefundConsistent,
             TokenSubscription, BeforeHold, Raising, Holding, AfterRefund, Session,
             ProfileSet, RefundPCs, RefundAttempts, Funds
    <3>4. TokenFloor(p, ok, [m EXCEPT !["subscription"] = @ + -s.extra])
      BY <1>t, <1>g, <1>a, <1>b, <1>2, <2>2
      DEF Good, HoldConsistent, CommitConsistent, RefundConsistent, TokenFloor,
             TokenSubscription, Amount, BeforeHold, Raising, Holding, AfterRefund,
             Session, ProfileSet, Charges, Accounts, Funds
    <3>5. BooksOf(p, ok, [m EXCEPT !["subscription"] = @ + -s.extra])
      <4>1. SameBut(s, ok, "extra")
        BY <1>t, <1>g, <1>a DEF SameBut, Good, RefundConsistent, Session
      <4>2. /\ s.consumed \in Nat /\ s.extra \in Nat /\ s.tokenConsumed \in Nat
            /\ s.src \in Funds /\ s.tool \in Nat
        BY <1>t, <1>g, <1>a, <1>b
        DEF Session, Good, HoldConsistent, BeforeHold, AfterRefund
      <4>3. /\ ok.settled = s.settled /\ ok.clean = s.clean
            /\ ok.tool = s.tool /\ ok.src = s.src
        BY <1>t DEF Session
      <4> HIDE DEF none, ok
      <4> QED
        BY <1>t, <1>g, <1>a, <1>2, <2>1, <4>1, <4>2, <4>3, RefundedBooks
        DEF Good, BooksOf, Booked, Charges, Accounts, Funds
    <3> QED
      BY <3>1, <3>2, <3>3, <3>4, <3>5 DEF Good
  <2>4. /\ sess' = [sess EXCEPT ![r] = ok] /\ prof' = prof
        /\ faults' \in 0..MaxFaults
    BY <1>2 DEF Update, IInv, TypeOK
  <2> HIDE DEF none, ok
  <2> QED
    BY <1>2, <2>1, <2>2, <2>3, <2>4, AdjustStep
<1>3. CASE owed /\ Fault(r, none)
  <2>1. none \in Session
    BY <1>t, <1>b DEF Session, PCs, RefundPCs
  <2>2. Good(p, [none EXCEPT !.clean = FALSE], m)
    BY <1>t, <1>g, <1>a, <1>b, <1>3
    DEF Good, HoldConsistent, CommitConsistent, RefundConsistent, TokenFloor,
           BooksOf, Booked, BookedToken, BookedFunding, SettleDelta, Fee, SettleBase,
           TokenSubscription, Amount, BeforeHold,
           Raising, Holding, AfterRefund, Session, ProfileSet, Charges,
           Accounts, Funds, PCs, RefundPCs, RefundAttempts
  <2> HIDE DEF none, ok
  <2> QED
    BY <1>3, <2>1, <2>2, FaultStep
<1> QED
  BY <1>1, <1>2, <1>3 DEF RefundExtra

\* The refund goroutine returns the token amount.
LEMMA RefundTokenPreserves ==
  ASSUME IInv, NEW r \in Requests, RefundToken(r)
  PROVE  IInv'
<1> DEFINE p == prof[r]
           s == sess[r]
           m == paid[r]
           owed == s.tokenConsumed > 0 /\ ~prof[r].playground
           none == [s EXCEPT !.rpc = "end"]
           ok   == [s EXCEPT !.rpc = "end", !.rok = @ \cup {"token"}]
<1>t. p \in ProfileSet /\ s \in Session /\ m \in Charges
  BY GoodOf
<1>g. Good(p, s, m)
  BY GoodOf
<1>a. s.rpc = "token"
  BY DEF RefundToken
<1>b. s.pc \in AfterRefund
  BY <1>t, <1>g, <1>a DEF Good, RefundConsistent, CommitConsistent
<1>1. CASE ~owed /\ Update(r, none) /\ NoAdjust
  <2>1. none \in Session
    BY <1>t, <1>b DEF Session, PCs, RefundPCs
  <2>2. Good(p, none, m)
    BY <1>t, <1>g, <1>a, <1>b, <1>1
    DEF Good, HoldConsistent, CommitConsistent, RefundConsistent, TokenFloor,
           BooksOf, Booked, BookedToken, BookedFunding, SettleDelta, Fee, SettleBase,
           TokenSubscription, Amount, BeforeHold,
           Raising, Holding, AfterRefund, Session, ProfileSet, Charges,
           Accounts, Funds, PCs, RefundPCs, RefundAttempts
  <2> HIDE DEF none, ok
  <2> QED
    BY <1>1, <2>1, <2>2, UpdateStep
<1>2. CASE owed /\ Update(r, ok) /\ Adjust(r, "token", -s.tokenConsumed)
  <2>1. ok \in Session
    BY <1>t, <1>b DEF Session, PCs, RefundPCs
  <2>2. "token" \in Accounts /\ -s.tokenConsumed \in Int
    BY <1>t, <1>g, <1>a, <1>b, <1>2, BillingAssumption
    DEF Good, HoldConsistent, SettleBase, BeforeHold, Raising,
           Session, Accounts, Funds
  <2>3. Good(p, ok, [m EXCEPT !["token"] = @ + -s.tokenConsumed])
    <3>1. HoldConsistent(p, ok)
      BY <1>t, <1>g, <1>a, <1>b, <1>2, <2>2
      DEF Good, HoldConsistent, TokenSubscription, Amount, BeforeHold, Raising,
             Session, ProfileSet, Funds
    <3>2. CommitConsistent(p, ok)
      BY <1>t, <1>g, <1>a, <1>b, <1>2, <2>2
      DEF Good, HoldConsistent, CommitConsistent, SettleBase, TokenSubscription,
             BeforeHold, Raising, Holding, AfterRefund, Session, ProfileSet
    <3>3. RefundConsistent(p, ok)
      BY <1>t, <1>g, <1>a, <1>b, <1>2, <2>2
      DEF Good, HoldConsistent, CommitConsistent, RefundConsistent,
             TokenSubscription, BeforeHold, Raising, Holding, AfterRefund, Session,
             ProfileSet, RefundPCs, RefundAttempts, Funds
    <3>4. TokenFloor(p, ok, [m EXCEPT !["token"] = @ + -s.tokenConsumed])
      BY <1>t, <1>g, <1>a, <1>b, <1>2, <2>2
      DEF Good, HoldConsistent, CommitConsistent, RefundConsistent, TokenFloor,
             TokenSubscription, Amount, BeforeHold, Raising, Holding, AfterRefund,
             Session, ProfileSet, Charges, Accounts, Funds
    <3>5. BooksOf(p, ok, [m EXCEPT !["token"] = @ + -s.tokenConsumed])
      <4>1. SameBut(s, ok, "token")
        BY <1>t, <1>g, <1>a DEF SameBut, Good, RefundConsistent, Session
      <4>2. /\ s.consumed \in Nat /\ s.extra \in Nat /\ s.tokenConsumed \in Nat
            /\ s.src \in Funds /\ s.tool \in Nat
        BY <1>t, <1>g, <1>a, <1>b
        DEF Session, Good, HoldConsistent, BeforeHold, AfterRefund
      <4>3. /\ ok.settled = s.settled /\ ok.clean = s.clean
            /\ ok.tool = s.tool /\ ok.src = s.src
        BY <1>t DEF Session
      <4> HIDE DEF none, ok
      <4> QED
        BY <1>t, <1>g, <1>a, <1>2, <2>1, <4>1, <4>2, <4>3, RefundedBooks
        DEF Good, BooksOf, Booked, Charges, Accounts, Funds
    <3> QED
      BY <3>1, <3>2, <3>3, <3>4, <3>5 DEF Good
  <2>4. /\ sess' = [sess EXCEPT ![r] = ok] /\ prof' = prof
        /\ faults' \in 0..MaxFaults
    BY <1>2 DEF Update, IInv, TypeOK
  <2> HIDE DEF none, ok
  <2> QED
    BY <1>2, <2>1, <2>2, <2>3, <2>4, AdjustStep
<1>3. CASE owed /\ Fault(r, none)
  <2>1. none \in Session
    BY <1>t, <1>b DEF Session, PCs, RefundPCs
  <2>2. Good(p, [none EXCEPT !.clean = FALSE], m)
    BY <1>t, <1>g, <1>a, <1>b, <1>3
    DEF Good, HoldConsistent, CommitConsistent, RefundConsistent, TokenFloor,
           BooksOf, Booked, BookedToken, BookedFunding, SettleDelta, Fee, SettleBase,
           TokenSubscription, Amount, BeforeHold,
           Raising, Holding, AfterRefund, Session, ProfileSet, Charges,
           Accounts, Funds, PCs, RefundPCs, RefundAttempts
  <2> HIDE DEF none, ok
  <2> QED
    BY <1>3, <2>1, <2>2, FaultStep
<1> QED
  BY <1>1, <1>2, <1>3 DEF RefundToken

\* The violation fee is taken from the session's source.
LEMMA ChargeFeeFundingPreserves ==
  ASSUME IInv, NEW r \in Requests, ChargeFeeFunding(r)
  PROVE  IInv'
<1> DEFINE p == prof[r]
           s == sess[r]
           m == paid[r]
           over == [s EXCEPT !.pc = "done"]
           fee  == [s EXCEPT !.pc = "feetoken", !.fees = @ \cup {"fund"}]
<1>t. p \in ProfileSet /\ s \in Session /\ m \in Charges
  BY GoodOf
<1>g. Good(p, s, m)
  BY GoodOf
<1>a. s.pc = "feefund"
  BY DEF ChargeFeeFunding
<1>b. ViolationFee \in Nat
  BY BillingAssumption
<1>1. CASE Update(r, fee) /\ Adjust(r, s.src, ViolationFee)
  <2>1. fee \in Session
    BY <1>t, <1>b DEF Session, PCs
  <2>2. s.src \in Accounts /\ ViolationFee \in Int
    BY <1>t, <1>g, <1>a, <1>b, <1>1, BillingAssumption
    DEF Good, HoldConsistent, SettleBase, BeforeHold, Raising,
           Session, Accounts, Funds
  <2>3. Good(p, fee, [m EXCEPT ![s.src] = @ + ViolationFee])
    BY <1>t, <1>g, <1>a, <1>b, <1>1, <2>2
    DEF Good, HoldConsistent, CommitConsistent, RefundConsistent, TokenFloor,
           BooksOf, Booked, BookedToken, BookedFunding, SettleDelta, Fee, SettleBase,
           TokenSubscription, Amount, BeforeHold,
           Raising, Holding, AfterRefund, Session, ProfileSet, Charges,
           Accounts, Funds, PCs, RefundPCs, RefundAttempts
  <2>4. /\ sess' = [sess EXCEPT ![r] = fee] /\ prof' = prof
        /\ faults' \in 0..MaxFaults
    BY <1>1 DEF Update, IInv, TypeOK
  <2> HIDE DEF over, fee
  <2> QED
    BY <1>1, <2>1, <2>2, <2>3, <2>4, AdjustStep
<1>2. CASE Update(r, over) /\ NoAdjust
  <2>1. over \in Session
    BY <1>t, <1>b DEF Session, PCs
  <2>2. Good(p, over, m)
    BY <1>t, <1>g, <1>a, <1>b, <1>2
    DEF Good, HoldConsistent, CommitConsistent, RefundConsistent, TokenFloor,
           BooksOf, Booked, BookedToken, BookedFunding, SettleDelta, Fee, SettleBase,
           TokenSubscription, Amount, BeforeHold,
           Raising, Holding, AfterRefund, Session, ProfileSet, Charges,
           Accounts, Funds, PCs, RefundPCs, RefundAttempts
  <2> HIDE DEF over, fee
  <2> QED
    BY <1>2, <2>1, <2>2, UpdateStep
<1>3. CASE Fault(r, over)
  <2>1. over \in Session
    BY <1>t, <1>b DEF Session, PCs
  <2>2. Good(p, [over EXCEPT !.clean = FALSE], m)
    BY <1>t, <1>g, <1>a, <1>b, <1>3
    DEF Good, HoldConsistent, CommitConsistent, RefundConsistent, TokenFloor,
           BooksOf, Booked, BookedToken, BookedFunding, SettleDelta, Fee, SettleBase,
           TokenSubscription, Amount, BeforeHold,
           Raising, Holding, AfterRefund, Session, ProfileSet, Charges,
           Accounts, Funds, PCs, RefundPCs, RefundAttempts
  <2> HIDE DEF over, fee
  <2> QED
    BY <1>3, <2>1, <2>2, FaultStep
<1> QED
  BY <1>1, <1>2, <1>3 DEF ChargeFeeFunding

\* The violation fee is taken from the token.
LEMMA ChargeFeeTokenPreserves ==
  ASSUME IInv, NEW r \in Requests, ChargeFeeToken(r)
  PROVE  IInv'
<1> DEFINE p == prof[r]
           s == sess[r]
           m == paid[r]
           over == [s EXCEPT !.pc = "done"]
           fee  == [over EXCEPT !.fees = @ \cup {"token"}]
<1>t. p \in ProfileSet /\ s \in Session /\ m \in Charges
  BY GoodOf
<1>g. Good(p, s, m)
  BY GoodOf
<1>a. s.pc = "feetoken"
  BY DEF ChargeFeeToken
<1>b. ViolationFee \in Nat
  BY BillingAssumption
<1>1. CASE p.playground /\ Update(r, over) /\ NoAdjust
  <2>1. over \in Session
    BY <1>t, <1>b DEF Session, PCs
  <2>2. Good(p, over, m)
    BY <1>t, <1>g, <1>a, <1>b, <1>1
    DEF Good, HoldConsistent, CommitConsistent, RefundConsistent, TokenFloor,
           BooksOf, Booked, BookedToken, BookedFunding, SettleDelta, Fee, SettleBase,
           TokenSubscription, Amount, BeforeHold,
           Raising, Holding, AfterRefund, Session, ProfileSet, Charges,
           Accounts, Funds, PCs, RefundPCs, RefundAttempts
  <2> HIDE DEF over, fee
  <2> QED
    BY <1>1, <2>1, <2>2, UpdateStep
<1>2. CASE ~p.playground /\ Update(r, fee) /\ Adjust(r, "token", ViolationFee)
  <2>1. fee \in Session
    BY <1>t, <1>b DEF Session, PCs
  <2>2. "token" \in Accounts /\ ViolationFee \in Int
    BY <1>t, <1>g, <1>a, <1>b, <1>2, BillingAssumption
    DEF Good, HoldConsistent, SettleBase, BeforeHold, Raising,
           Session, Accounts, Funds
  <2>3. Good(p, fee, [m EXCEPT !["token"] = @ + ViolationFee])
    BY <1>t, <1>g, <1>a, <1>b, <1>2, <2>2
    DEF Good, HoldConsistent, CommitConsistent, RefundConsistent, TokenFloor,
           BooksOf, Booked, BookedToken, BookedFunding, SettleDelta, Fee, SettleBase,
           TokenSubscription, Amount, BeforeHold,
           Raising, Holding, AfterRefund, Session, ProfileSet, Charges,
           Accounts, Funds, PCs, RefundPCs, RefundAttempts
  <2>4. /\ sess' = [sess EXCEPT ![r] = fee] /\ prof' = prof
        /\ faults' \in 0..MaxFaults
    BY <1>2 DEF Update, IInv, TypeOK
  <2> HIDE DEF over, fee
  <2> QED
    BY <1>2, <2>1, <2>2, <2>3, <2>4, AdjustStep
<1>3. CASE Fault(r, over)
  <2>1. over \in Session
    BY <1>t, <1>b DEF Session, PCs
  <2>2. Good(p, [over EXCEPT !.clean = FALSE], m)
    BY <1>t, <1>g, <1>a, <1>b, <1>3
    DEF Good, HoldConsistent, CommitConsistent, RefundConsistent, TokenFloor,
           BooksOf, Booked, BookedToken, BookedFunding, SettleDelta, Fee, SettleBase,
           TokenSubscription, Amount, BeforeHold,
           Raising, Holding, AfterRefund, Session, ProfileSet, Charges,
           Accounts, Funds, PCs, RefundPCs, RefundAttempts
  <2> HIDE DEF over, fee
  <2> QED
    BY <1>3, <2>1, <2>2, FaultStep
<1> QED
  BY <1>1, <1>2, <1>3 DEF ChargeFeeToken

-----------------------------------------------------------------------------
(* The invariant and what it implies.                                      *)

\* Every step preserves the invariant: the inductive step.
LEMMA NextPreserves == IInv /\ [Next]_vars => IInv'
<1> SUFFICES ASSUME IInv, [Next]_vars PROVE IInv'
  OBVIOUS
<1>1. ASSUME NEW r \in Requests, Handle(r) PROVE IInv'
  <2>1. CASE \E q \in Quotas : PreConsumeBilling(r, q) \/ Reserve(r, q)
    BY <2>1, PreConsumeBillingPreserves, ReservePreserves
  <2>2. CASE \E n \in Actuals, t \in ToolFees : UpstreamSucceeds(r, n, t)
    BY <2>2, UpstreamSucceedsPreserves
  <2>3. CASE \E v \in BOOLEAN : Refund(r, v)
    BY <2>3, RefundPreserves
  <2> QED
    BY <1>1, <2>1, <2>2, <2>3,
       HasActiveUserSubscriptionPreserves, TryWalletPreserves,
       PreConsumeTokenPreserves, PreConsumeFundingPreserves,
       RollbackTokenPreserves, SendPreserves, ReserveFundingPreserves,
       ReserveTokenPreserves, RollbackFundingReservePreserves,
       UpstreamRetryPreserves, UpstreamFailsPreserves,
       UpstreamNotBillablePreserves, SettleEvenPreserves,
       SettleFundingPreserves, SettleTokenPreserves, SettleToolPreserves,
       ChargeFeeFundingPreserves, ChargeFeeTokenPreserves
    DEF Handle
<1>2. ASSUME NEW r \in Requests, RefundStep(r) PROVE IInv'
  BY <1>2,
     RefundWalletPreserves, RefundSubscriptionPreserves,
     RefundExtraPreserves, RefundTokenPreserves
  DEF RefundStep
<1>3. ASSUME UNCHANGED vars PROVE IInv'
  BY <1>3 DEF vars, IInv, TypeOK, SessionsConsistent, BooksMatch
<1> QED
  BY <1>1, <1>2, <1>3 DEF Next, Terminating

\* The inductive invariant holds in every reachable state, whatever requests
\* interleave and whichever database calls fail.
THEOREM Invariance == Spec => []IInv
  BY InitIInv, NextPreserves, PTL DEF Spec

\* Every variable keeps its type (struct BillingSession and its accounts).
THEOREM TypeCorrect == Spec => []TypeOK
<1>1. IInv => TypeOK
  BY DEF IInv
<1> QED
  BY <1>1, Invariance, PTL

\* The session's fields account for what was charged at every step of
\* preConsume, reserve, Settle and Refund and of their rollbacks.
THEOREM BooksAlwaysMatch == Spec => []BooksMatch
<1>1. IInv => BooksMatch
  BY DEF IInv
<1> QED
  BY <1>1, Invariance, PTL

\* Refund never returns what Settle has committed.
THEOREM CommitExcludesRefundAlways == Spec => []CommitExcludesRefund
<1>1. IInv => CommitExcludesRefund
  BY DEF IInv, SessionsConsistent, RefundConsistent, CommitExcludesRefund
<1> QED
  BY <1>1, Invariance, PTL

\* Settle and SettleTokenBilling charge the real price once, on the funding
\* source and on the token, whatever was reserved before.
THEOREM SettlementIsExact == Spec => []ChargedExactly
<1>1. ASSUME IInv PROVE ChargedExactly
  <2> SUFFICES ASSUME NEW r \in Requests, sess[r].settled, sess[r].clean
               PROVE  /\ paid[r][sess[r].src] = sess[r].actual
                      /\ paid[r]["token"] =
                           IF prof[r].playground \/ TokenSubscription(prof[r])
                           THEN 0 ELSE sess[r].actual
                      /\ TokenSubscription(prof[r]) =>
                           paid[r]["wallet"] = sess[r].tool
    BY DEF ChargedExactly
  <2> DEFINE p == prof[r]
             s == sess[r]
             m == paid[r]
  <2>1. p \in ProfileSet /\ s \in Session /\ m \in Charges /\ Good(p, s, m)
    BY <1>1, GoodOf
  <2>2. /\ s.pc \notin BeforeHold \cup Holding /\ s.src \in Funds
        /\ s.rpc = "none" /\ s.rok = {}
    BY <2>1 DEF Good, HoldConsistent, CommitConsistent, RefundConsistent
  <2>3. s.fees = {}
    BY <2>1, <2>2 DEF Good, CommitConsistent, RefundConsistent, AfterRefund,
                      Session
  <2>4. SettleDelta(p, s) = s.actual - SettleBase(p, s)
    BY <2>1 DEF SettleDelta, SettleBase, Good, CommitConsistent, Session
  <2>5. BookedFunding(p, s) = s.actual
    BY <2>1, <2>2, <2>3, <2>4
    DEF BookedFunding, Fee, SettleBase, Good, HoldConsistent, BeforeHold,
        Holding, Raising, Session, TokenSubscription
  <2>6. BookedToken(p, s) = IF p.playground \/ TokenSubscription(p)
                            THEN 0 ELSE s.actual
    BY <2>1, <2>2, <2>3, <2>4
    DEF BookedToken, Fee, SettleBase, Good, HoldConsistent, Session
  <2>7. TokenSubscription(p) => s.src = "subscription"
    BY <2>1, <2>2 DEF Good, HoldConsistent, BeforeHold
  <2> QED
    BY <2>1, <2>2, <2>5, <2>6, <2>7 DEF Good, BooksOf, Booked, Accounts, Funds
<1> QED
  BY <1>1, Invariance, PTL

\* No order of failures makes a request hand back more than it took, the
\* retried subscription refund excepted.
THEOREM NoQuotaCreatedAlways == Spec => []NoQuotaCreated
<1>1. ASSUME IInv PROVE NoQuotaCreated
  <2> SUFFICES ASSUME NEW r \in Requests, NEW a \in Accounts,
                      a # "subscription" \/ sess[r].clean
               PROVE  paid[r][a] >= 0
    BY DEF NoQuotaCreated
  <2> DEFINE p == prof[r]
             s == sess[r]
             m == paid[r]
  <2>1. p \in ProfileSet /\ s \in Session /\ m \in Charges /\ Good(p, s, m)
    BY <1>1, GoodOf
  <2>2. CASE a = "token"
    BY <2>1, <2>2 DEF Good, TokenFloor
  <2>3. CASE a # "token"
    <3>1. m[a] = Booked(p, s, a)
      BY <2>1, <2>3 DEF Good, BooksOf, Accounts, Funds
    <3>2. CASE a = s.src
      <4>1. Fee(s, "fund") \in Nat
        BY BillingAssumption DEF Fee
      <4>2. SettleDelta(p, s) \in Int
            /\ (SettleDelta(p, s) >= 0
                 \/ (/\ s.rok = {}
                     /\ s.consumed + SettleDelta(p, s)
                          + (IF s.src = "subscription" THEN s.extra ELSE 0) >= 0))
        BY <2>1, <2>3, <3>2
        DEF SettleDelta, SettleBase, Good, HoldConsistent, CommitConsistent,
            RefundConsistent, BeforeHold, Raising, Holding, Session, Accounts,
            TokenSubscription
      <4>3. s.src = "subscription" /\ s.pc \in {"rtoken", "runfund"}
              => s.quota - s.pre \in Nat
        BY <2>1 DEF Good, HoldConsistent, Raising, Session
      <4>4. BookedFunding(p, s) >= 0
        BY <2>1, <4>1, <4>2, <4>3 DEF BookedFunding, Session
      <4> QED
        BY <2>3, <3>1, <3>2, <4>4 DEF Booked
    <3>3. CASE a # s.src
      BY <2>1, <2>3, <3>1, <3>3 DEF Booked, Session
    <3> QED
      BY <3>2, <3>3
  <2> QED
    BY <2>2, <2>3
<1> QED
  BY <1>1, Invariance, PTL

\* On a database with concurrent write transactions, a request answered with
\* an error costs nothing but the violation fee once its deferred Refund has
\* run, if none of its database calls failed.
THEOREM FailureIsFree ==
  ASSUME ~SingleWriter
  PROVE  Spec => []FailureCostsNothing
<1>1. ASSUME IInv PROVE FailureCostsNothing
  <2> SUFFICES ASSUME NEW r \in Requests, Finished(r), sess[r].err,
                      sess[r].clean, NEW a \in Accounts
               PROVE  paid[r][a] \in IF a \in {sess[r].src, "token"}
                                        /\ sess[r].fees # {}
                                      THEN {0, ViolationFee} ELSE {0}
    BY DEF FailureCostsNothing
  <2> DEFINE p == prof[r]
             s == sess[r]
             m == paid[r]
  <2>1. p \in ProfileSet /\ s \in Session /\ m \in Charges /\ Good(p, s, m)
    BY <1>1, GoodOf
  <2>2. ~s.settled /\ ~s.fundingSettled /\ s.pc \in {"rejected", "done"}
    BY <2>1
    DEF Finished, Good, CommitConsistent, RefundConsistent, BeforeHold,
                AfterRefund
  <2>3. SettleDelta(p, s) = 0
    BY <2>2 DEF SettleDelta
  <2>4. /\ \A c : Fee(s, c) \in {0, ViolationFee}
        /\ s.fees = {} => \A c : Fee(s, c) = 0
    BY DEF Fee
  <2>5. /\ ~p.playground /\ "token" \notin s.rok => s.tokenConsumed = 0
        /\ "fund" \notin s.rok => s.consumed = 0
        /\ s.src = "subscription" /\ "extra" \notin s.rok => s.extra = 0
    <3>1. CASE s.pc = "rejected"
      BY <2>1, <3>1 DEF Good, HoldConsistent, BeforeHold
    <3>2. CASE s.pc = "done" /\ s.refunded
      <4>1. s.rpc = "end"
        BY <2>1, <3>2 DEF Finished, RefundOver, Good, RefundConsistent
      <4> QED
        BY <2>1, <4>1 DEF Good, RefundConsistent, Session
    <3>3. CASE s.pc = "done" /\ ~s.refunded
      BY <2>1, <3>3 DEF Good, HoldConsistent, RefundConsistent, BeforeHold,
                        AfterRefund, Session
    <3> QED
      BY <2>2, <3>1, <3>2, <3>3
  <2>6. /\ s.tokenConsumed \in Nat /\ s.consumed \in Nat /\ s.extra \in Nat
        /\ ViolationFee \in Nat
    BY <2>1, BillingAssumption DEF Session
  <2>7. BookedToken(p, s) = IF p.playground THEN 0 ELSE Fee(s, "token")
    BY <2>2, <2>4, <2>5, <2>6 DEF BookedToken
  <2>8. BookedFunding(p, s) = Fee(s, "fund")
    BY <2>2, <2>3, <2>4, <2>5, <2>6 DEF BookedFunding
  <2>9. m[a] = Booked(p, s, a)
    BY <2>1 DEF Good, BooksOf
  <2> QED
    BY <2>2, <2>4, <2>7, <2>8, <2>9 DEF Booked
<1> QED
  BY <1>1, Invariance, PTL
=============================================================================
