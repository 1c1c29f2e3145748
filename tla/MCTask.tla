------------------------------- MODULE MCTask -------------------------------
(***************************************************************************)
(* Instances of TaskLifecycle for TLC.                                     *)
(***************************************************************************)
EXTENDS TaskLifecycle

Kind(src, bridge, pricing, realtime) ==
    [src |-> src, bridge |-> bridge, pricing |-> pricing, realtime |-> realtime]

\* Both submission paths, both kinds of source and every pricing; the tasks a
\* GET can write are a wallet's.
MixedKinds ==
    {Kind("wallet", FALSE, "percall", TRUE),
     Kind("wallet", FALSE, "usage", FALSE),
     Kind("subscription", TRUE, "tiered", FALSE)}

WalletKinds == {Kind("wallet", FALSE, "percall", FALSE),
                Kind("wallet", TRUE, "tiered", FALSE)}

RealtimeKinds == {Kind("wallet", FALSE, "percall", TRUE)}
=============================================================================
