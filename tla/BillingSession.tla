--------------------------- MODULE BillingSession ---------------------------
(***************************************************************************)
(* The billing session of one relayed request: pre-consume before the      *)
(* upstream call, additional reservations before a retry, and then either  *)
(* settlement at the real price or an asynchronous refund                  *)
(* (service/billing_session.go, service/funding_source.go), driven by the  *)
(* request handlers (controller/relay.go, controller/relay_upload.go,      *)
(* relay/deepseek_tools_handler.go).                                       *)
(*                                                                         *)
(* Several requests of one user run concurrently and share one wallet, one *)
(* organization wallet, one subscription and one API token.  Every call    *)
(* that touches one of those accounts is a step of its own, because only   *)
(* that call is atomic; the session's mutex protects the session's fields, *)
(* not the accounts.                                                       *)
(***************************************************************************)
EXTENDS Integers, FiniteSets

CONSTANTS
    Requests,      \* requests of one user, all with the same API token
    Profiles,      \* the kinds of request considered, a subset of ProfileSet
    Quotas,        \* prices a request can be quoted before it is sent
    Actuals,       \* prices a request can turn out to have
    ToolFees,      \* wallet tool charges of a token subscription request
    InitWallet, InitOrg, InitToken,   \* what each account holds at first
    SubTotal,      \* the subscription's quota; 0: no active subscription
    TrustQuota,    \* common.GetTrustQuota(); 0 disables the trust bypass
    ViolationFee,  \* the fee of a rejected request; 0 disables it
    MaxRetries,    \* common.RetryTimes
    MaxFaults,     \* bound: how many database calls may fail
    SingleWriter   \* the database admits one write transaction (SQLite)

Preferences == {"wallet_only", "wallet_first", "subscription_only",
                "subscription_first", "organization", "token_subscription",
                "standalone_tool"}

\* What the handlers know of a request before they bill it.
ProfileSet ==
    [pref       : Preferences,
     playground : BOOLEAN,   \* IsPlayground: the token is not charged
     unlimited  : BOOLEAN,   \* TokenUnlimited
     force      : BOOLEAN,   \* ForcePreConsume (asynchronous tasks)
     require    : BOOLEAN,   \* tasks and images reserve only what is there
     upload     : BOOLEAN]   \* relay_upload.go refunds when Settle fails

ASSUME BillingAssumption ==
    /\ Profiles \subseteq ProfileSet
    /\ Quotas \subseteq Nat /\ Actuals \subseteq Nat /\ ToolFees \subseteq Nat
    /\ InitWallet \in Int /\ InitOrg \in Int /\ InitToken \in Int
    /\ SubTotal \in Nat /\ TrustQuota \in Nat /\ ViolationFee \in Nat
    /\ MaxRetries \in Nat /\ MaxFaults \in Nat /\ SingleWriter \in BOOLEAN

ASSUME RequestsFinite == IsFiniteSet(Requests)

Funds == {"wallet", "organization", "subscription"}
Accounts == Funds \cup {"token"}

\* funding_source.go, refundWithRetry: maxAttempts
RefundAttempts == 3

VARIABLES
    prof,   \* prof[r]: the request's profile, fixed
    sess,   \* sess[r]: the handler's position and its BillingSession
    acct,   \* acct[a]: what is left in account a; negative is debt
    paid,   \* paid[r][a]: net amount request r was charged on account a
    faults  \* database calls that failed so far

vars == <<prof, sess, acct, paid, faults>>

PCs == {"idle", "hassub", "wallet", "token", "fund", "untoken", "rejected",
        "prepare", "rfund", "rtoken", "runfund", "upstream", "settle",
        "stoken", "tool", "failed", "release", "feefund", "feetoken",
        "done"}

RefundPCs == {"none", "fund", "extra", "token", "end"}

Session ==
    [pc             : PCs,
     src            : Funds \cup {"none"},   \* funding.Source()
     quota          : Nat,      \* amount of the pre-consume or reserve call
     short          : BOOLEAN,  \* funding.PreConsume failed on the balance
     pre            : Nat,      \* preConsumedQuota
     tokenConsumed  : Nat,
     consumed       : Nat,      \* WalletFunding.consumed,
                                \* SubscriptionFunding.preConsumed
     extra          : Nat,      \* extraReserved
     trusted        : BOOLEAN,
     fundingSettled : BOOLEAN,
     settled        : BOOLEAN,
     refunded       : BOOLEAN,
     record         : {"none", "consumed", "refunded"},
                                \* SubscriptionPreConsumeRecord.Status
     tokenTrusted   : BOOLEAN,  \* token_quota of the request context
     userTrusted    : BOOLEAN,  \* relayInfo.UserQuota > TrustQuota
     actual         : Nat,      \* argument of Settle
     tool           : Nat,      \* toolQuota of SettleTokenBilling
     tries          : Nat,      \* retryParam.GetRetry()
     err            : BOOLEAN,  \* the handler returns an error
     rpc            : RefundPCs,     \* the refund goroutine
     attempts       : 0..RefundAttempts,
     rok            : SUBSET {"fund", "extra", "token"},
                                \* refund calls that succeeded
     fees           : SUBSET {"fund", "token"},
                                \* violation fee calls that succeeded
     clean          : BOOLEAN]  \* no database call of the request failed

NewSession ==
    [pc |-> "idle", src |-> "none", quota |-> 0, short |-> FALSE, pre |-> 0,
     tokenConsumed |-> 0, consumed |-> 0, extra |-> 0, trusted |-> FALSE,
     fundingSettled |-> FALSE, settled |-> FALSE, refunded |-> FALSE,
     record |-> "none", tokenTrusted |-> FALSE, userTrusted |-> FALSE,
     actual |-> 0, tool |-> 0, tries |-> 0, err |-> FALSE, rpc |-> "none",
     attempts |-> 0, rok |-> {}, fees |-> {}, clean |-> TRUE]

Init ==
    /\ prof \in [Requests -> Profiles]
    /\ sess = [r \in Requests |-> NewSession]
    /\ acct = [a \in Accounts |->
                 CASE a = "wallet"       -> InitWallet
                   [] a = "organization" -> InitOrg
                   [] a = "subscription" -> SubTotal
                   [] a = "token"        -> InitToken]
    /\ paid = [r \in Requests |-> [a \in Accounts |-> 0]]
    /\ faults = 0

-----------------------------------------------------------------------------
(* Account calls.  Adjust is an unconditional change by one request, a     *)
(* charge when n > 0 and a return when n < 0.                              *)

\* PostConsumeUserSubscriptionDelta clamps the used amount at zero, so a
\* return to the subscription never lifts it above its total.
Left(a, n) ==
    IF a = "subscription" /\ acct[a] - n > SubTotal
    THEN SubTotal ELSE acct[a] - n

Adjust(r, a, n) ==
    /\ acct' = [acct EXCEPT ![a] = Left(a, n)]
    /\ paid' = [paid EXCEPT ![r] = [paid[r] EXCEPT ![a] = paid[r][a] + n]]

NoAdjust == UNCHANGED <<acct, paid>>

\* TryReserveUserQuota, TryReserveOrganizationQuota and the subscription
\* check the balance in the statement that takes the amount.
Covers(a, n) == acct[a] >= n

\* TryReserveTokenQuota: an unlimited token is charged without a check.
TokenCovers(r, n) == prof[r].unlimited \/ Covers("token", n)

\* An additional charge fails for lack of quota only on the subscription;
\* wallets go into debt.
Chargeable(a, n) == a # "subscription" \/ n <= 0 \/ Covers(a, n)

Update(r, s) ==
    /\ sess' = [sess EXCEPT ![r] = s]
    /\ UNCHANGED <<prof, faults>>

\* A database call of r fails without effect; r goes on as in s.
Fault(r, s) ==
    /\ faults < MaxFaults
    /\ faults' = faults + 1
    /\ sess' = [sess EXCEPT ![r] = [s EXCEPT !.clean = FALSE]]
    /\ NoAdjust
    /\ UNCHANGED prof

TokenSubscription(p) == p.pref = "token_subscription"

Rejected(s) == [s EXCEPT !.pc = "rejected", !.err = TRUE]

-----------------------------------------------------------------------------
(* NewBillingSession: which source pays, and the fallback when it cannot.  *)

FromSubscription(s) ==
    [s EXCEPT !.pc = "token", !.src = "subscription", !.short = FALSE]

FromOrganization(s) ==
    [s EXCEPT !.pc = "token", !.src = "organization"]

FromWallet(s) ==
    [s EXCEPT !.pc = "token", !.src = "wallet", !.short = FALSE,
              !.userTrusted = acct["wallet"] > TrustQuota]

\* PreConsumeBilling on a request that has no session yet.  The token's and
\* the user's quota were put in the request context by the authentication.
PreConsumeBilling(r, q) ==
    LET s == [sess[r] EXCEPT
                !.quota = q,
                !.tokenTrusted = prof[r].unlimited
                                   \/ acct["token"] > TrustQuota]
    IN
    /\ sess[r].pc = "idle"
    /\ \/ /\ prof[r].pref = "organization"
          /\ Update(r, FromOrganization(s))
       \/ /\ prof[r].pref = "standalone_tool"
          /\ Update(r, FromWallet(s))
       \/ /\ prof[r].pref \in {"token_subscription", "subscription_only"}
          /\ Update(r, FromSubscription(s))
       \/ /\ prof[r].pref \in {"wallet_only", "wallet_first"}
          /\ Update(r, [s EXCEPT !.pc = "wallet"])
       \/ /\ prof[r].pref = "subscription_first"
          /\ Update(r, [s EXCEPT !.pc = "hassub"])
    /\ NoAdjust

\* subscription_first asks first whether there is a subscription.
HasActiveUserSubscription(r) ==
    LET s == sess[r] IN
    /\ s.pc = "hassub"
    /\ \/ /\ Update(r, IF SubTotal > 0 THEN FromSubscription(s)
                       ELSE [s EXCEPT !.pc = "wallet"])
          /\ NoAdjust
       \/ Fault(r, Rejected(s))

\* trySubscription failed: tryWallet starts from a new session.
ToWallet(s) == [s EXCEPT !.pc = "wallet", !.src = "none", !.short = FALSE]

\* What follows an error with ErrorCodeInsufficientUserQuota.
Fallback(r, s) ==
    IF prof[r].pref = "wallet_first" /\ s.src # "subscription"
    THEN FromSubscription(s)
    ELSE IF prof[r].pref = "subscription_first" /\ s.src = "subscription"
    THEN ToWallet(s)
    ELSE Rejected(s)

\* tryWallet up to its preConsume: GetUserQuota and the two checks of it.
TryWallet(r) ==
    LET s == sess[r] IN
    /\ s.pc = "wallet"
    /\ \/ /\ acct["wallet"] > 0 /\ Covers("wallet", s.quota)
          /\ Update(r, FromWallet(s))
          /\ NoAdjust
       \/ /\ ~(acct["wallet"] > 0 /\ Covers("wallet", s.quota))
          /\ Update(r, Fallback(r, s))
          /\ NoAdjust
       \/ Fault(r, Rejected(s))

-----------------------------------------------------------------------------
(* preConsume: trust check, token, funding source, rollback of the token.  *)

\* A subscription pre-consumes at least 1; trySubscription and the
\* subscription keys pass the same amount to the session and its source.
Amount(s) == IF s.src = "subscription" /\ s.quota = 0 THEN 1 ELSE s.quota

ShouldTrust(p, s) ==
    /\ p.pref # "organization"
    /\ ~p.force
    /\ TrustQuota > 0
    /\ s.tokenTrusted
    /\ s.src = "wallet"
    /\ s.userTrusted

PreConsumeToken(r) ==
    LET s    == sess[r]
        n    == Amount(s)
        free == ShouldTrust(prof[r], s)
        next == [s EXCEPT !.pc = "fund", !.trusted = free]
        none == free \/ n = 0 \/ TokenSubscription(prof[r])
    IN
    /\ s.pc = "token"
    /\ \/ /\ none
          /\ Update(r, next)
          /\ NoAdjust
       \/ /\ ~none /\ prof[r].playground
          /\ Update(r, [next EXCEPT !.tokenConsumed = n])
          /\ NoAdjust
       \/ /\ ~none /\ ~prof[r].playground /\ TokenCovers(r, n)
          /\ Update(r, [next EXCEPT !.tokenConsumed = n])
          /\ Adjust(r, "token", n)
       \/ /\ ~none /\ ~prof[r].playground /\ ~TokenCovers(r, n)
          /\ Update(r, Rejected(s))
          /\ NoAdjust
       \/ /\ ~none /\ ~prof[r].playground
          /\ Fault(r, Rejected(s))

\* Mutant: the balance is checked by tryWallet only, not when it is taken.
PreConsumeFundingUnchecked(r) ==
    LET s      == sess[r]
        amount == IF s.trusted THEN 0 ELSE Amount(s)
    IN
    /\ s.pc = "fund"
    /\ Update(r, [s EXCEPT !.pc = "prepare", !.pre = amount,
                           !.consumed = amount])
    /\ Adjust(r, s.src, amount)

PreConsumeFunding(r) ==
    LET s      == sess[r]
        amount == IF s.trusted THEN 0 ELSE Amount(s)
        held   == [s EXCEPT !.pc = "prepare", !.pre = amount,
                            !.consumed = amount,
                            !.record = IF s.src = "subscription"
                                       THEN "consumed" ELSE s.record]
    IN
    /\ s.pc = "fund"
    /\ \/ /\ amount = 0
          /\ Update(r, held)
          /\ NoAdjust
       \/ /\ amount > 0 /\ Covers(s.src, amount)
          /\ Update(r, held)
          /\ Adjust(r, s.src, amount)
       \/ /\ amount > 0 /\ ~Covers(s.src, amount)
          /\ Update(r, [s EXCEPT !.pc = "untoken", !.short = TRUE])
          /\ NoAdjust
       \/ /\ amount > 0
          /\ Fault(r, [s EXCEPT !.pc = "untoken"])

\* The session is dropped; the token amount goes back first.
RollbackToken(r) ==
    LET s    == sess[r]
        s0   == [s EXCEPT !.tokenConsumed = 0]
        next == IF s.short THEN Fallback(r, s0) ELSE Rejected(s0)
        owed == s.tokenConsumed > 0 /\ ~prof[r].playground
    IN
    /\ s.pc = "untoken"
    /\ \/ /\ ~owed
          /\ Update(r, next)
          /\ NoAdjust
       \/ /\ owed
          /\ Update(r, next)
          /\ Adjust(r, "token", -s.tokenConsumed)
       \/ /\ owed
          /\ Fault(r, next)

-----------------------------------------------------------------------------
(* reserve: raise the reservation to a higher quote before sending.        *)

\* Mutant: a quote below the reservation is not turned away.
ReserveLower(r, target) ==
    LET s == sess[r] IN
    /\ s.pc = "prepare"
    /\ ~TokenSubscription(prof[r])
    /\ Update(r, [s EXCEPT !.pc = "rfund", !.quota = target])
    /\ NoAdjust

\* PrepareTieredBillingForSelectedGroup, PrepareImageBilling and, for a task,
\* PreConsumeBilling on the session that exists.
Reserve(r, target) ==
    LET s == sess[r] IN
    /\ s.pc = "prepare"
    /\ ~TokenSubscription(prof[r])
    /\ ~s.settled /\ ~s.refunded
    /\ ~s.trusted \/ prof[r].require
    /\ target > s.pre
    /\ Update(r, [s EXCEPT !.pc = "rfund", !.quota = target])
    /\ NoAdjust

\* The quote is not above what is reserved, or reserve returns at once.
Send(r) ==
    /\ sess[r].pc = "prepare"
    /\ Update(r, [sess[r] EXCEPT !.pc = "upstream"])
    /\ NoAdjust

Failed(s) == [s EXCEPT !.pc = "failed", !.err = TRUE]

\* A soft wallet reservation is taken in full and may leave a debt.
ReserveCovered(r, n) ==
    \/ sess[r].src = "wallet" /\ ~prof[r].require
    \/ Covers(sess[r].src, n)

ReserveFunding(r) ==
    LET s     == sess[r]
        delta == s.quota - s.pre
        taken == [s EXCEPT !.pc = "rtoken",
                           !.consumed = IF s.src = "subscription"
                                        THEN s.consumed
                                        ELSE s.consumed + delta]
    IN
    /\ s.pc = "rfund"
    /\ \/ /\ ReserveCovered(r, delta)
          /\ Update(r, taken)
          /\ Adjust(r, s.src, delta)
       \/ /\ ~ReserveCovered(r, delta)
          /\ Update(r, Failed(s))
          /\ NoAdjust
       \/ Fault(r, Failed(s))

ReserveToken(r) ==
    LET s     == sess[r]
        delta == s.quota - s.pre
        more  == [s EXCEPT !.pc = "upstream", !.pre = s.pre + delta,
                           !.tokenConsumed = s.tokenConsumed + delta,
                           !.extra = s.extra + delta,
                           !.trusted = s.trusted /\ ~prof[r].require]
        undo  == [s EXCEPT !.pc = "runfund"]
    IN
    /\ s.pc = "rtoken"
    /\ \/ /\ prof[r].playground
          /\ Update(r, more)
          /\ NoAdjust
       \/ /\ ~prof[r].playground /\ TokenCovers(r, delta)
          /\ Update(r, more)
          /\ Adjust(r, "token", delta)
       \/ /\ ~prof[r].playground /\ ~TokenCovers(r, delta)
          /\ Update(r, undo)
          /\ NoAdjust
       \/ /\ ~prof[r].playground
          /\ Fault(r, undo)

\* Mutant: the rollback does not take the amount off funding.consumed.
RollbackFundingReserveUnbooked(r) ==
    LET s == sess[r] IN
    /\ s.pc = "runfund"
    /\ Update(r, Failed(s))
    /\ Adjust(r, s.src, s.pre - s.quota)

RollbackFundingReserve(r) ==
    LET s     == sess[r]
        delta == s.quota - s.pre
    IN
    /\ s.pc = "runfund"
    /\ \/ /\ Update(r, [Failed(s) EXCEPT
                          !.consumed = IF s.src = "subscription"
                                       THEN s.consumed
                                       ELSE s.consumed - delta])
          /\ Adjust(r, s.src, -delta)
       \/ Fault(r, Failed(s))

-----------------------------------------------------------------------------
(* The upstream attempt.                                                   *)

\* Mutant: the retry counter is not increased.
UpstreamRetryUncounted(r) ==
    /\ sess[r].pc = "upstream"
    /\ sess[r].tries < MaxRetries
    /\ Update(r, [sess[r] EXCEPT !.pc = "prepare"])
    /\ NoAdjust

\* A retryable error; the retry may be quoted another price.  A change of the
\* auto group starts the count again, as often as there are groups: MaxRetries
\* stands for the attempts in all of them.
UpstreamRetry(r) ==
    LET s == sess[r] IN
    /\ s.pc = "upstream"
    /\ s.tries < MaxRetries
    /\ Update(r, [s EXCEPT !.pc = "prepare", !.tries = @ + 1])
    /\ NoAdjust

UpstreamFails(r) ==
    /\ sess[r].pc = "upstream"
    /\ Update(r, Failed(sess[r]))
    /\ NoAdjust

\* An empty search result is answered with success and is not charged, with
\* any key and source; the chat page, tasks, images and uploads do not search.
UpstreamNotBillable(r) ==
    /\ sess[r].pc = "upstream"
    /\ ~(prof[r].playground \/ prof[r].force \/ prof[r].require \/ prof[r].upload)
    /\ Update(r, [sess[r] EXCEPT !.pc = "release"])
    /\ NoAdjust

UpstreamSucceeds(r, actual, tool) ==
    /\ sess[r].pc = "upstream"
    /\ TokenSubscription(prof[r]) \/ tool = 0
    /\ Update(r, [sess[r] EXCEPT !.pc = "settle", !.actual = actual,
                                 !.tool = tool])
    /\ NoAdjust

-----------------------------------------------------------------------------
(* Settle and SettleTokenBilling.                                          *)

Settled(s) == [s EXCEPT !.pc = "done", !.settled = TRUE]

\* Settle returned an error: most handlers log it and answer with success,
\* the upload proxy returns it and its deferred call refunds.
SettleFailed(r, s) ==
    IF prof[r].upload THEN Failed(s) ELSE [s EXCEPT !.pc = "done"]

\* Mutant: the quote counts as reserved although the user was trusted.
SettleBaseQuoted(p, s) == IF s.trusted THEN s.quota ELSE s.pre

\* What is already taken from the funding source.
SettleBase(p, s) == IF TokenSubscription(p) THEN s.consumed ELSE s.pre

\* Settle, and SettleTokenBilling's first half, when nothing is left to move.
SettleEven(r) ==
    LET s == sess[r] IN
    /\ s.pc = "settle"
    /\ s.actual = SettleBase(prof[r], s)
    /\ Update(r, IF TokenSubscription(prof[r])
                 THEN IF s.tool > 0
                      THEN [s EXCEPT !.pc = "tool", !.fundingSettled = TRUE]
                      ELSE [Settled(s) EXCEPT !.fundingSettled = TRUE]
                 ELSE Settled(s))
    /\ NoAdjust

SettleFunding(r) ==
    LET s     == sess[r]
        delta == s.actual - SettleBase(prof[r], s)
        paidF == [s EXCEPT !.fundingSettled = TRUE]
    IN
    /\ s.pc = "settle"
    /\ delta # 0
    /\ \/ /\ Chargeable(s.src, delta)
          /\ Update(r, IF ~TokenSubscription(prof[r])
                       THEN [paidF EXCEPT !.pc = "stoken"]
                       ELSE IF s.tool > 0
                       THEN [paidF EXCEPT !.pc = "tool"]
                       ELSE Settled(paidF))
          /\ Adjust(r, s.src, delta)
       \/ /\ ~Chargeable(s.src, delta)
          /\ Update(r, SettleFailed(r, s))
          /\ NoAdjust
       \/ Fault(r, SettleFailed(r, s))

\* An error here is only returned: the session counts as settled.
SettleToken(r) ==
    LET s     == sess[r]
        delta == s.actual - s.pre
    IN
    /\ s.pc = "stoken"
    /\ \/ /\ prof[r].playground
          /\ Update(r, Settled(s))
          /\ NoAdjust
       \/ /\ ~prof[r].playground
          /\ Update(r, Settled(s))
          /\ Adjust(r, "token", delta)
       \/ /\ ~prof[r].playground
          /\ Fault(r, SettleFailed(r, Settled(s)))

\* The tool surcharge of a token subscription is paid by the wallet.
SettleTool(r) ==
    LET s == sess[r] IN
    /\ s.pc = "tool"
    /\ \/ /\ Update(r, Settled(s))
          /\ Adjust(r, "wallet", s.tool)
       \/ Fault(r, SettleFailed(r, s))

-----------------------------------------------------------------------------
(* Refund, its goroutine, and the violation fee.                           *)

\* Mutant: a settled session is not turned away.
NeedsRefundSettled(s) == ~s.refunded /\ s.tokenConsumed > 0

NeedsRefund(s) ==
    /\ ~s.settled /\ ~s.refunded /\ ~s.fundingSettled
    /\ \/ s.tokenConsumed > 0
       \/ s.src \in {"subscription", "organization"} /\ s.consumed > 0

\* Mutant: only an error runs the deferred Refund, an unbilled answer does not.
RefundOnError(r, violation) ==
    /\ sess[r].pc \in {"failed", "release"}
    /\ Update(r, IF sess[r].err /\ NeedsRefund(sess[r])
                 THEN [sess[r] EXCEPT !.pc = "done", !.refunded = TRUE,
                                      !.rpc = "fund"]
                 ELSE [sess[r] EXCEPT !.pc = "done"])
    /\ NoAdjust

\* The handler's deferred Refund.  When the upstream rejected the content of
\* a relayed request, the handler goes on to charge the violation fee.
Refund(r, violation) ==
    LET s    == sess[r]
        next == IF violation THEN "feefund" ELSE "done"
    IN
    /\ s.pc \in {"failed", "release"}
    /\ violation => /\ s.pc = "failed" /\ ViolationFee > 0
                    /\ ~prof[r].force /\ ~prof[r].upload
    /\ Update(r, IF NeedsRefund(s)
                 THEN [s EXCEPT !.pc = next, !.refunded = TRUE,
                                !.rpc = "fund"]
                 ELSE [s EXCEPT !.pc = next])
    /\ NoAdjust

\* WalletFunding.Refund and OrganizationFunding.Refund: not retried.
RefundWallet(r) ==
    LET s == sess[r] IN
    /\ s.rpc = "fund"
    /\ s.src # "subscription"
    /\ \/ /\ s.consumed = 0
          /\ Update(r, [s EXCEPT !.rpc = "extra", !.rok = @ \cup {"fund"}])
          /\ NoAdjust
       \/ /\ s.consumed > 0
          /\ Update(r, [s EXCEPT !.rpc = "extra", !.rok = @ \cup {"fund"}])
          /\ Adjust(r, s.src, -s.consumed)
       \/ /\ s.consumed > 0
          /\ Fault(r, [s EXCEPT !.rpc = "extra"])

\* refundWithRetry: what follows a failed attempt.
NextAttempt(s) ==
    IF s.attempts + 1 < RefundAttempts
    THEN [s EXCEPT !.attempts = @ + 1]
    ELSE [s EXCEPT !.attempts = @ + 1, !.rpc = "extra"]

\* One attempt at RefundSubscriptionPreConsume.  It reads the record in one
\* transaction and returns the amount in a second one, which commits first:
\* the first can still fail after that.  With a single writer the second
\* transaction waits for the first until it gives up.
RefundSubscription(r) ==
    LET s == sess[r]
        returned == [s EXCEPT !.rpc = "extra", !.rok = @ \cup {"fund"},
                              !.record = "refunded"]
    IN
    /\ s.rpc = "fund"
    /\ s.src = "subscription"
    /\ \/ /\ ~SingleWriter
          /\ Update(r, returned)
          /\ Adjust(r, "subscription", -s.consumed)
       \/ /\ ~SingleWriter /\ faults < MaxFaults
          /\ faults' = faults + 1
          /\ sess' = [sess EXCEPT ![r] =
                        [NextAttempt(s) EXCEPT !.clean = FALSE]]
          /\ Adjust(r, "subscription", -s.consumed)
          /\ UNCHANGED prof
       \/ /\ SingleWriter
          /\ Update(r, NextAttempt(s))
          /\ NoAdjust
       \/ Fault(r, NextAttempt(s))

\* Mutants: the additional reservation is forgotten; it is returned to every
\* kind of source, although a wallet's hold includes it.
RefundExtraForgotten(r) ==
    /\ sess[r].rpc = "extra"
    /\ Update(r, [sess[r] EXCEPT !.rpc = "token"])
    /\ NoAdjust

RefundExtraTwice(r) ==
    /\ sess[r].rpc = "extra"
    /\ Update(r, [sess[r] EXCEPT !.rpc = "token"])
    /\ Adjust(r, sess[r].src, -sess[r].extra)

\* What reserve added to a subscription's pre-consumption is returned apart.
RefundExtra(r) ==
    LET s    == sess[r]
        owed == s.extra > 0 /\ s.src = "subscription"
    IN
    /\ s.rpc = "extra"
    /\ \/ /\ ~owed
          /\ Update(r, [s EXCEPT !.rpc = "token"])
          /\ NoAdjust
       \/ /\ owed
          /\ Update(r, [s EXCEPT !.rpc = "token", !.rok = @ \cup {"extra"}])
          /\ Adjust(r, "subscription", -s.extra)
       \/ /\ owed
          /\ Fault(r, [s EXCEPT !.rpc = "token"])

RefundToken(r) ==
    LET s    == sess[r]
        owed == s.tokenConsumed > 0 /\ ~prof[r].playground
    IN
    /\ s.rpc = "token"
    /\ \/ /\ ~owed
          /\ Update(r, [s EXCEPT !.rpc = "end"])
          /\ NoAdjust
       \/ /\ owed
          /\ Update(r, [s EXCEPT !.rpc = "end", !.rok = @ \cup {"token"}])
          /\ Adjust(r, "token", -s.tokenConsumed)
       \/ /\ owed
          /\ Fault(r, [s EXCEPT !.rpc = "end"])

\* ChargeViolationFeeIfNeeded: PostConsumeQuota on the session's source.
ChargeFeeFunding(r) ==
    LET s    == sess[r]
        over == [s EXCEPT !.pc = "done"]
    IN
    /\ s.pc = "feefund"
    /\ \/ /\ Chargeable(s.src, ViolationFee)
          /\ Update(r, [s EXCEPT !.pc = "feetoken",
                                 !.fees = @ \cup {"fund"}])
          /\ Adjust(r, s.src, ViolationFee)
       \/ /\ ~Chargeable(s.src, ViolationFee)
          /\ Update(r, over)
          /\ NoAdjust
       \/ Fault(r, over)

ChargeFeeToken(r) ==
    LET s    == sess[r]
        over == [s EXCEPT !.pc = "done"]
    IN
    /\ s.pc = "feetoken"
    /\ \/ /\ prof[r].playground
          /\ Update(r, over)
          /\ NoAdjust
       \/ /\ ~prof[r].playground
          /\ Update(r, [over EXCEPT !.fees = @ \cup {"token"}])
          /\ Adjust(r, "token", ViolationFee)
       \/ /\ ~prof[r].playground
          /\ Fault(r, over)

-----------------------------------------------------------------------------

\* The refund goroutine of r has nothing left to do.
RefundOver(r) == sess[r].rpc \in {"none", "end"}

Finished(r) == sess[r].pc \in {"rejected", "done"} /\ RefundOver(r)

\* Every request was answered and every refund goroutine has returned.
Terminating ==
    /\ \A r \in Requests : Finished(r)
    /\ UNCHANGED vars

\* One step of the request's handler.
Handle(r) ==
    \/ \E q \in Quotas : PreConsumeBilling(r, q)
    \/ HasActiveUserSubscription(r)
    \/ TryWallet(r)
    \/ PreConsumeToken(r)
    \/ PreConsumeFunding(r)
    \/ RollbackToken(r)
    \/ \E q \in Quotas : Reserve(r, q)
    \/ Send(r)
    \/ ReserveFunding(r)
    \/ ReserveToken(r)
    \/ RollbackFundingReserve(r)
    \/ UpstreamRetry(r)
    \/ UpstreamFails(r)
    \/ UpstreamNotBillable(r)
    \/ \E n \in Actuals, t \in ToolFees : UpstreamSucceeds(r, n, t)
    \/ SettleEven(r)
    \/ SettleFunding(r)
    \/ SettleToken(r)
    \/ SettleTool(r)
    \/ \E v \in BOOLEAN : Refund(r, v)
    \/ ChargeFeeFunding(r)
    \/ ChargeFeeToken(r)

\* One step of the request's refund goroutine.
RefundStep(r) ==
    \/ RefundWallet(r)
    \/ RefundSubscription(r)
    \/ RefundExtra(r)
    \/ RefundToken(r)

Next ==
    \/ \E r \in Requests : Handle(r) \/ RefundStep(r)
    \/ Terminating

\* The runtime schedules every goroutine and every call returns or fails:
\* upstream calls and database calls have time limits.
Fairness == \A r \in Requests : WF_vars(Handle(r)) /\ WF_vars(RefundStep(r))

Spec == Init /\ [][Next]_vars

FairSpec == Spec /\ Fairness
-----------------------------------------------------------------------------
(* Properties.                                                             *)

TypeOK ==
    /\ prof \in [Requests -> Profiles]
    /\ sess \in [Requests -> Session]
    /\ acct \in [Accounts -> Int]
    /\ paid \in [Requests -> [Accounts -> Int]]
    /\ faults \in 0..MaxFaults

\* What the fields of a session s of profile p say was charged: what Settle
\* moved, on the token, on the funding source, and on account a.
SettleDelta(p, s) ==
    IF s.fundingSettled THEN s.actual - SettleBase(p, s) ELSE 0

Fee(s, c) == IF c \in s.fees THEN ViolationFee ELSE 0

BookedToken(p, s) ==
    IF p.playground THEN 0
    ELSE (IF "token" \in s.rok THEN 0 ELSE s.tokenConsumed)
         + (IF s.settled /\ ~TokenSubscription(p) THEN SettleDelta(p, s) ELSE 0)
         + Fee(s, "token")

BookedFunding(p, s) ==
    (IF "fund" \in s.rok THEN 0 ELSE s.consumed)
    + (IF s.src # "subscription" \/ "extra" \in s.rok THEN 0 ELSE s.extra)
    + (IF s.src = "subscription" /\ s.pc \in {"rtoken", "runfund"}
       THEN s.quota - s.pre ELSE 0)
    + SettleDelta(p, s)
    + Fee(s, "fund")

Booked(p, s, a) ==
    IF a = "token" THEN BookedToken(p, s)
    ELSE IF a = s.src THEN BookedFunding(p, s)
    ELSE IF a = "wallet" /\ s.settled THEN s.tool ELSE 0

\* The session never loses track of what it took: its fields account for
\* exactly what was charged on a wallet at every step of every operation,
\* failed database calls included, and on the subscription and the token as
\* long as no call of the request failed.
BooksMatch ==
    \A r \in Requests, a \in Accounts :
        sess[r].clean \/ a \in {"wallet", "organization"} =>
            paid[r][a] = Booked(prof[r], sess[r], a)

\* A settled request has been charged its real price once, on the funding
\* source and on the token, whatever was reserved, raised, trusted or rolled
\* back on the way; a token subscription pays tools from the wallet.
ChargedExactly ==
    \A r \in Requests : sess[r].settled /\ sess[r].clean =>
        LET s == sess[r] IN
        /\ paid[r][s.src] = s.actual
        /\ paid[r]["token"] = IF prof[r].playground \/ TokenSubscription(prof[r])
                              THEN 0 ELSE s.actual
        /\ TokenSubscription(prof[r]) => paid[r]["wallet"] = s.tool

\* A request that was answered with an error, and whose refund goroutine has
\* returned, has been charged nothing on any account but the violation fee.
FailureCostsNothing ==
    \A r \in Requests :
        Finished(r) /\ sess[r].err /\ sess[r].clean =>
            \A a \in Accounts :
                paid[r][a] \in IF a \in {sess[r].src, "token"}
                                 /\ sess[r].fees # {}
                               THEN {0, ViolationFee} ELSE {0}

\* No sequence of failures makes a request return more than it took.  A
\* subscription is excepted when a call failed: see NoDoubleRefund.
NoQuotaCreated ==
    \A r \in Requests, a \in Accounts :
        a # "subscription" \/ sess[r].clean => paid[r][a] >= 0

\* The comment on RefundSubscriptionPreConsume (model/subscription.go:1552):
\* it "is idempotent", so its retries return the amount at most once.
NoDoubleRefund ==
    \A r \in Requests : paid[r]["subscription"] >= 0

\* Once the funding source is settled, its hold is never handed back, and a
\* refunded session is never settled afterwards.
CommitExcludesRefund ==
    \A r \in Requests :
        sess[r].refunded => ~sess[r].settled /\ ~sess[r].fundingSettled

\* Every request that started is answered and its refund goroutine returns.
RequestsFinish ==
    \A r \in Requests : (sess[r].pc # "idle") ~> Finished(r)

\* What settlement, soft reservations and fees took from the wallet without
\* asking whether it was there, for a session s of profile p.
Unasked(p, s) ==
    (IF s.src = "wallet" /\ s.fundingSettled /\ s.actual > s.pre
     THEN s.actual - s.pre ELSE 0)
    + (IF s.src = "wallet" /\ ~p.require /\ "fund" \notin s.rok
       THEN s.consumed - (s.pre - s.extra) ELSE 0)
    + (IF s.src = "wallet" /\ "fund" \in s.fees THEN ViolationFee ELSE 0)
    + (IF TokenSubscription(p) /\ s.settled THEN s.tool ELSE 0)

\* One element for every unit that f says was taken.
Units(f) == UNION {{r} \X (1..f[r]) : r \in Requests}

\* Concurrent holds never spend the same quota twice: the wallet is in debt,
\* or deeper in the debt it had, by no more than usage that was charged after
\* the fact.
DebtIsUsage ==
    acct["wallet"]
      + Cardinality(Units([r \in Requests |-> Unasked(prof[r], sess[r])]))
    >= IF InitWallet < 0 THEN InitWallet ELSE 0

-----------------------------------------------------------------------------
(* The abstract ledger: a request's bill is what it was charged once its   *)
(* handler and its refund goroutine have ended.                            *)

BillState(r) ==
    LET s == sess[r] IN
    IF ~s.clean THEN "disputed"
    ELSE IF ~Finished(r) THEN "open"
    ELSE IF s.settled THEN "charged"
    ELSE IF s.fees # {} THEN "fined"
    ELSE IF s.err \/ s.refunded \/ s.pre = 0 THEN "free" ELSE "short"

Bill(r) ==
    [state |-> BillState(r),
     charges |-> IF BillState(r) \in {"open", "disputed"}
                 THEN [a \in Accounts |-> 0] ELSE paid[r]]

Bills == [r \in Requests |-> Bill(r)]

Book == INSTANCE Ledger WITH book <- Bills

\* A request is billed once, in one step, exactly and for good: BillingSession
\* implements Ledger.
LedgerSpec == Book!Spec

-----------------------------------------------------------------------------
(* The inductive invariant: how the fields of a session depend on the      *)
(* position of its handler and of its refund goroutine.                    *)

BeforeHold == {"idle", "hassub", "wallet", "token", "fund", "untoken",
               "rejected"}
Raising == {"rfund", "rtoken", "runfund"}
Holding == {"prepare", "upstream", "settle", "release"} \cup Raising
AfterRefund == {"feefund", "feetoken", "done"}

\* Which amounts the session holds.
HoldConsistent(p, s) ==
    /\ s.pc \in BeforeHold =>
         /\ s.pre = 0 /\ s.consumed = 0 /\ s.extra = 0
         /\ s.tokenConsumed = IF s.pc \in {"fund", "untoken"} /\ ~s.trusted
                                 /\ ~TokenSubscription(p)
                              THEN Amount(s) ELSE 0
    /\ s.pc \in {"token", "fund", "untoken"} => s.src \in Funds
    /\ s.pc \in {"fund", "untoken"} /\ s.trusted => s.src = "wallet"
    /\ s.pc \notin BeforeHold =>
         /\ s.src \in Funds
         /\ s.tokenConsumed = IF TokenSubscription(p) THEN 0 ELSE s.pre
         /\ s.src = "subscription" => s.consumed > 0 /\ s.pre = s.consumed + s.extra
         /\ s.src # "subscription" =>
              LET held == IF s.pc \in {"rtoken", "runfund"} THEN s.quota ELSE s.pre
              IN s.consumed >= held /\ (s.clean => s.consumed = held)
    /\ s.pc \in Raising => s.quota > s.pre
    /\ TokenSubscription(p) =>
         /\ s.extra = 0 /\ s.pc \notin Raising \cup {"hassub", "wallet"}
         /\ s.pc # "idle" => s.src = "subscription"
    /\ ~TokenSubscription(p) => s.tool = 0

\* Which commitments the session has made.
CommitConsistent(p, s) ==
    /\ s.pc \in BeforeHold \cup Holding => ~s.fundingSettled /\ ~s.settled
    /\ s.pc = "stoken" =>
         s.fundingSettled /\ ~s.settled /\ ~TokenSubscription(p)
    /\ s.pc = "tool" => s.fundingSettled /\ ~s.settled /\ TokenSubscription(p)
    /\ s.pc = "failed" /\ s.clean => ~s.fundingSettled /\ ~s.settled
    /\ s.settled /\ s.actual # SettleBase(p, s) => s.fundingSettled
    /\ s.pc \notin AfterRefund => ~s.refunded /\ s.fees = {}
    /\ s.pc \notin AfterRefund \cup {"rejected", "failed"} => ~s.err
    /\ s.pc \in {"failed", "feefund", "feetoken"} \/ s.fees # {} => s.err
    /\ s.pc = "feefund" => s.fees = {}
    /\ s.pc = "feetoken" => s.fees = {"fund"}

\* How far the refund is.
RefundConsistent(p, s) ==
    /\ s.refunded <=> s.rpc # "none"
    /\ s.refunded => ~s.settled /\ ~s.fundingSettled
    /\ s.rpc \in {"none", "fund"} => s.rok = {}
    /\ s.rpc = "none" => s.attempts = 0
    /\ s.rpc = "fund" => s.attempts < RefundAttempts
    /\ s.rpc = "extra" => s.rok \subseteq {"fund"}
    /\ s.rpc = "token" => s.rok \subseteq {"fund", "extra"}
    /\ s.clean /\ (s.src # "subscription" \/ ~SingleWriter) =>
         /\ s.rpc \in {"extra", "token", "end"} => "fund" \in s.rok
         /\ s.rpc \in {"token", "end"} /\ s.src = "subscription" /\ s.extra > 0
              => "extra" \in s.rok
         /\ s.rpc = "end" /\ s.tokenConsumed > 0 /\ ~p.playground
              => "token" \in s.rok
    /\ s.pc \in AfterRefund /\ s.err /\ s.clean =>
         /\ ~s.settled /\ ~s.fundingSettled
         /\ s.refunded \/ s.pre = 0

\* A token is never owed more than was taken from it.
TokenFloor(p, s, m) ==
    /\ m["token"] >= 0
    /\ ~s.settled /\ ~p.playground /\ "token" \notin s.rok =>
         m["token"] >= s.tokenConsumed

SessionsConsistent ==
    \A r \in Requests :
        /\ HoldConsistent(prof[r], sess[r])
        /\ CommitConsistent(prof[r], sess[r])
        /\ RefundConsistent(prof[r], sess[r])
        /\ TokenFloor(prof[r], sess[r], paid[r])

IInv == TypeOK /\ SessionsConsistent /\ BooksMatch

\* What the ledger and the wallet's debt need besides: a session has a price
\* once the upstream has answered, reserve never adds more than is held, the
\* violation fee is charged to the funding source before the token, and a
\* session that ends without error and without Settle gave its hold back,
\* unless the subscription could not pay the price.
EndConsistent(p, s) ==
    /\ s.extra <= s.pre
    /\ s.fees # {} => "fund" \in s.fees
    /\ s.pc \in {"settle", "stoken", "tool"} \/ s.settled =>
         s.actual \in Actuals /\ (TokenSubscription(p) => s.tool \in ToolFees)
    /\ s.pc = "done" /\ s.clean /\ ~s.settled /\ ~s.err =>
         /\ ~s.fundingSettled
         /\ \/ s.refunded \/ s.pre = 0
            \/ s.src = "subscription" /\ s.actual \in Actuals /\ s.actual > s.pre

EndsConsistent == \A r \in Requests : EndConsistent(prof[r], sess[r])
=============================================================================
