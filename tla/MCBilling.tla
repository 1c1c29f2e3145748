------------------------------ MODULE MCBilling ------------------------------
(***************************************************************************)
(* Instances of BillingSession for TLC.                                    *)
(***************************************************************************)
EXTENDS BillingSession, TLC

Plain(p) == [pref |-> p, playground |-> FALSE, unlimited |-> FALSE,
             force |-> FALSE, require |-> FALSE, upload |-> FALSE]

\* One request of each kind: relayed text, asynchronous task, upload,
\* search tool, playground, the subscription preferences, a token
\* subscription and an organization key.
AllProfiles ==
    {Plain("wallet_only"),
     [Plain("wallet_only") EXCEPT !.force = TRUE, !.require = TRUE],
     [Plain("wallet_only") EXCEPT !.upload = TRUE],
     [Plain("standalone_tool") EXCEPT !.unlimited = TRUE],
     Plain("wallet_first"),
     [Plain("subscription_first") EXCEPT !.playground = TRUE],
     Plain("token_subscription"),
     [Plain("organization") EXCEPT !.unlimited = TRUE]}

\* For the ledger and liveness: the fallback, the subscription refund, the
\* upload proxy and a token subscription.
FewProfiles ==
    {[Plain("wallet_only") EXCEPT !.upload = TRUE],
     Plain("wallet_first"),
     [Plain("subscription_first") EXCEPT !.playground = TRUE],
     Plain("token_subscription")}

SubscriptionProfiles ==
    {Plain("subscription_only"), Plain("subscription_first")}

Symmetry == Permutations(Requests)
=============================================================================
