------------------------ MODULE TaskLifecycleProofs ------------------------
(***************************************************************************)
(* Proofs about TaskLifecycle, for any tasks, pollers, prices and numbers  *)
(* of failures, crashes and GETs: the inductive invariant, the limit of    *)
(* poll failures and the three billing invariants it implies, and that the *)
(* outcome of a task is final.                                             *)
(***************************************************************************)
EXTENDS TaskLifecycle, TLAPS

USE DEF Reported, Unfinished, Terminal, Moving

-----------------------------------------------------------------------------
(* What the operators of the model do.                                     *)

\* The state of one task, field by field.
LEMMA TaskTypes ==
  ASSUME TypeOK, NEW t \in Tasks
  PROVE  /\ kind[t] \in KindSet /\ sub[t] \in Handler /\ row[t] \in Row
         /\ paid[t]["fund"] \in Int /\ paid[t]["token"] \in Int
         /\ \A p \in Pollers : item[p][t] \in Item /\ item[p][t].copy \in Row
         /\ \A c \in Clients : get[c][t] \in Item /\ get[c][t].copy \in Row
         /\ Taken(t) \in Nat
<1>1. kind[t] \in KindSet
  BY TaskAssumption DEF TypeOK
<1>2. sub[t] \in Handler /\ row[t] \in Row
  BY DEF TypeOK
<1>3. paid[t]["fund"] \in Int /\ paid[t]["token"] \in Int
  BY DEF TypeOK
<1>4. /\ \A p \in Pollers : item[p][t] \in Item
      /\ \A c \in Clients : get[c][t] \in Item
  BY DEF TypeOK
<1>5. Taken(t) \in Nat
  BY <1>2 DEF Taken, Handler
<1>q. QED
  BY <1>1, <1>2, <1>3, <1>4, <1>5 DEF Item

\* A charge that the source grants changes the two accounts of its task, and
\* leaves the subscription within its bounds.
LEMMA ChargeEffect ==
  ASSUME TypeOK, left \in 0..SubTotal, NEW t \in Tasks,
         NEW fund \in Int, NEW token \in Int,
         Chargeable(t, fund), Charge(t, fund, token)
  PROVE  /\ paid' \in [Tasks -> [{"fund", "token"} -> Int]]
         /\ paid'[t]["fund"] = paid[t]["fund"] + fund
         /\ paid'[t]["token"] = paid[t]["token"] + token
         /\ \A u \in Tasks \ {t} : paid'[u] = paid[u]
         /\ left' \in 0..SubTotal
<1>1. [a \in {"fund", "token"} |-> paid[t][a]
          + (IF a = "fund" THEN fund ELSE token)] \in [{"fund", "token"} -> Int]
  BY DEF TypeOK
<1>2. /\ paid' \in [Tasks -> [{"fund", "token"} -> Int]]
      /\ paid'[t]["fund"] = paid[t]["fund"] + fund
      /\ paid'[t]["token"] = paid[t]["token"] + token
      /\ \A u \in Tasks \ {t} : paid'[u] = paid[u]
  BY <1>1 DEF TypeOK, Charge
<1>3. left' \in 0..SubTotal
  BY TaskAssumption DEF Charge, Chargeable
<1>q. QED
  BY <1>2, <1>3

\* A failed database call marks its task only.
LEMMA FaultEffect ==
  ASSUME TypeOK, NEW t \in Tasks, Fault(t)
  PROVE  /\ faults' \in 0..MaxFaults /\ clean' \subseteq Tasks
         /\ t \notin clean'
         /\ \A u \in Tasks \ {t} : u \in clean' <=> u \in clean
  BY TaskAssumption DEF TypeOK, Fault

\* A pass changes its item of one task.
LEMMA SetItemEffect ==
  ASSUME TypeOK, NEW p \in Pollers, NEW t \in Tasks, NEW i \in Item,
         SetItem(p, t, i)
  PROVE  /\ item' \in [Pollers -> [Tasks -> Item]]
         /\ item'[p][t] = i
         /\ \A q \in Pollers, u \in Tasks :
               q # p \/ u # t => item'[q][u] = item[q][u]
<1>1. [item[p] EXCEPT ![t] = i] \in [Tasks -> Item]
  BY DEF TypeOK
<1>q. QED
  BY <1>1 DEF TypeOK, SetItem

\* No copy is an item.
LEMMA NoItemType == NoItem \in Item /\ NoRow \in Row
  BY TaskAssumption DEF NoItem, NoRow, Item, Row

-----------------------------------------------------------------------------
(* Steps that leave a task alone, and steps that only forget copies of it. *)

\* Nothing a step does concerns u.
Same(u) ==
    /\ kind'[u] = kind[u] /\ sub'[u] = sub[u] /\ row'[u] = row[u]
    /\ paid'[u] = paid[u]
    /\ \A p \in Pollers : item'[p][u] = item[p][u]
    /\ \A c \in Clients : get'[c][u] = get[c][u]
    /\ u \in clean' <=> u \in clean
    /\ u \in fetched' <=> u \in fetched
    /\ u \in orphaned' <=> u \in orphaned

\* Such a step keeps the task consistent.
LEMMA SameKeeps ==
  ASSUME NEW u \in Tasks, Consistent(u), Same(u)
  PROVE  Consistent(u)'
<1>0. RowExists(u)'
  BY DEF Consistent, Same, RowExists
<1> SUFFICES ASSUME u \notin fetched PROVE Books(u)'
  BY <1>0 DEF Consistent, Same
<1> USE DEF Consistent, Books
<1>1. RowFollows(u)'
  BY DEF Same, RowFollows
<1>2. CopiesFollow(u)'
  BY DEF Same, CopiesFollow
<1>3. OneMover(u)'
  BY DEF Same, OneMover
<1>4. Taken(u)' = Taken(u) /\ (Quiet(u)' <=> Quiet(u))
  BY DEF Same, Taken, Quiet
<1>5. MovesTracked(u)'
  BY <1>4 DEF Same, MovesTracked
<1>6. ReturnsAll(u)'
  BY <1>4 DEF Same, ReturnsAll
<1>q. QED
  BY <1>1, <1>2, <1>3, <1>5, <1>6

\* A row keeps existing with its copies and its handler.
LEMMA ExistsKeeps ==
  ASSUME NEW t \in Tasks, RowExists(t),
         kind'[t] = kind[t], sub'[t] = sub[t],
         row'[t].status = "none" <=> row[t].status = "none",
         \A p \in Pollers : item'[p][t].pc # "none" =>
            item[p][t].pc # "none" \/ row[t].status # "none",
         \A c \in Clients : get'[c][t].pc # "none" =>
            get[c][t].pc # "none" \/ row[t].status # "none",
         t \in fetched' => t \in fetched \/ row[t].status # "none"
  PROVE  RowExists(t)'
  BY DEF RowExists

\* The fields of a new copy.
LEMMA FreshFields ==
  ASSUME NEW u \in Tasks
  PROVE  /\ Fresh(u).pc = "loaded" /\ Fresh(u).copy = row[u]
         /\ NoItem.pc = "none"
  BY DEF Fresh, NoItem

\* A pass drops its copy of u, or loads it anew.  What it was moving it drops
\* only together with the mark that a call failed.
LEMMA ForgetKeeps ==
  ASSUME TypeOK, NEW p \in Pollers, NEW u \in Tasks, Consistent(u),
         kind'[u] = kind[u], sub'[u] = sub[u], row'[u] = row[u],
         paid'[u] = paid[u],
         \A q \in Pollers \ {p} : item'[q][u] = item[q][u],
         \/ item'[p][u] = item[p][u]
         \/ item'[p][u] = NoItem
         \/ row[u].status \in Unfinished /\ item'[p][u] = Fresh(u),
         item[p][u].pc \in Moving =>
            item'[p][u] = item[p][u] \/ u \notin clean',
         u \in clean' => u \in clean,
         UNCHANGED Reading, orphaned' = orphaned
  PROVE  Consistent(u)'
<1>u. get' = get /\ fetched' = fetched
  BY DEF Reading
<1>2. \A q \in Pollers : \/ item'[q][u] = item[q][u]
                         \/ q = p /\ item'[q][u].pc = "none"
                         \/ /\ q = p /\ item'[q][u].pc = "loaded"
                            /\ item'[q][u].copy = row[u]
                            /\ row[u].status \in Unfinished
  BY FreshFields
<1>0. RowExists(u)'
  BY <1>u, <1>2, ExistsKeeps DEF Consistent
<1> SUFFICES ASSUME u \notin fetched PROVE Books(u)'
  BY <1>0, <1>u DEF Consistent
<1> USE DEF Consistent, Books
<1>1. RowFollows(u)'
  BY DEF RowFollows
<1>3. CopiesFollow(u)'
  BY <1>2, <1>u DEF CopiesFollow, RowFollows
<1>4. OneMover(u)'
  BY <1>2 DEF OneMover
<1>5. /\ Taken(u)' = Taken(u)
      /\ Quiet(u)' /\ u \in clean' => Quiet(u)
      /\ \A q \in Pollers : item'[q][u].pc \in Moving =>
            item'[q][u] = item[q][u]
  BY <1>2 DEF Taken, Quiet
<1>6. MovesTracked(u)'
  BY <1>5 DEF MovesTracked
<1>7. ReturnsAll(u)'
  BY <1>5 DEF ReturnsAll
<1>q. QED
  BY <1>1, <1>3, <1>4, <1>6, <1>7

\* A step about t keeps the invariant if it keeps t consistent.
LEMMA StepKeeps ==
  ASSUME IInv, NEW t \in Tasks, TypeOK', left' \in 0..SubTotal,
         \A u \in Tasks \ {t} : Same(u), Consistent(t)',
         \A p \in Pollers : mode'[p] = mode[p],
         \A p \in Pollers : item'[p][t].pc # "none" =>
                               item[p][t].pc # "none"
  PROVE  IInv'
<1>1. ASSUME NEW u \in Tasks
      PROVE  Consistent(u)'
  BY SameKeeps DEF IInv
<1>2. ASSUME NEW p \in Pollers, mode'[p] = "idle"
      PROVE  Idle(p)'
  BY <1>2 DEF IInv, Idle, Same
<1>q. QED
  BY <1>1, <1>2 DEF IInv

-----------------------------------------------------------------------------
(* The handler of a submission.                                            *)

\* Before the insertion nobody has a copy of the task.
LEMMA RowlessHasNoCopies ==
  ASSUME NEW t \in Tasks, Consistent(t), row[t].status = "none"
  PROVE  /\ \A p \in Pollers : item[p][t].pc = "none"
         /\ \A c \in Clients : get[c][t].pc = "none"
         /\ t \notin fetched /\ Books(t)
  BY DEF Consistent, RowExists

\* A handler whose task has no row keeps it consistent if what it took is on
\* both accounts, or its settlement failed.
LEMMA RowlessKeeps ==
  ASSUME TypeOK, TypeOK', NEW t \in Tasks, Consistent(t),
         row[t].status = "none", kind' = kind, row' = row, UNCHANGED Polling,
         sub'[t].pc # "done", ~(kind[t].bridge /\ sub'[t].pc = "settle"),
         sub'[t].pc \in {"settle", "insert"} /\ sub'[t].first = "FAILURE" =>
            sub'[t].final = 0,
         ~sub'[t].short => /\ paid'[t]["fund"] = Taken(t)'
                           /\ paid'[t]["token"] = Taken(t)'
  PROVE  Consistent(t)'
<1>1. /\ \A p \in Pollers : item'[p][t].pc = "none"
      /\ \A c \in Clients : get'[c][t].pc = "none"
      /\ row'[t].status = "none" /\ t \notin fetched'
  BY RowlessHasNoCopies DEF Polling, Reading
<1>2. sub'[t].final \in Nat /\ Taken(t)' \in Nat
  BY DEF TypeOK, Handler, Taken
<1>3. RowExists(t)' /\ RowFollows(t)'
  BY <1>1 DEF RowExists, RowFollows
<1>4. CopiesFollow(t)' /\ OneMover(t)'
  BY <1>1 DEF CopiesFollow, OneMover
<1>5. MovesTracked(t)'
  BY <1>1, <1>2 DEF MovesTracked
<1>6. ReturnsAll(t)'
  BY <1>1 DEF ReturnsAll
<1>q. QED
  BY <1>3, <1>4, <1>5, <1>6 DEF Consistent, Books

\* A handler goes to another point and keeps what it knows.
LEMMA HandlerGoes ==
  ASSUME NEW s \in [Tasks -> Handler], NEW t \in Tasks, NEW n,
         NEW pc \in {"idle", "submit", "settle", "insert", "done", "failed", "lost"},
         n = [s EXCEPT ![t].pc = pc]
  PROVE  /\ n \in [Tasks -> Handler] /\ n[t].pc = pc
         /\ n[t].short = s[t].short /\ n[t].pre = s[t].pre /\ n[t].final = s[t].final
         /\ \A u \in Tasks \ {t} : n[u] = s[u]
<1> DEFINE h == [s[t] EXCEPT !.pc = pc]
<1>1. h \in Handler /\ h.pc = pc /\ h.short = s[t].short /\ h.pre = s[t].pre
      /\ h.final = s[t].final
  BY DEF Handler
<1>2. n = [s EXCEPT ![t] = h]
  OBVIOUS
<1> HIDE DEF h
<1>q. QED
  BY <1>1, <1>2

\* A step that changes a handler, its accounts and no row.
LEMMA HandlerTypes ==
  ASSUME IInv, NEW t \in Tasks,
         kind' = kind, row' = row, UNCHANGED Polling,
         sub' \in [Tasks -> Handler],
         \A u \in Tasks \ {t} : sub'[u] = sub[u],
         paid' \in [Tasks -> [{"fund", "token"} -> Int]],
         \A u \in Tasks \ {t} : paid'[u] = paid[u],
         left' \in 0..SubTotal, Fault(t) \/ NoFault
  PROVE  /\ TypeOK'
         /\ Consistent(t)' => IInv'
<1>1. /\ faults' \in 0..MaxFaults /\ clean' \subseteq Tasks
      /\ \A u \in Tasks \ {t} : u \in clean' <=> u \in clean
  BY FaultEffect DEF NoFault, IInv, TypeOK
<1>2. TypeOK'
  BY <1>1 DEF IInv, TypeOK, Polling, Reading
<1>3. \A u \in Tasks \ {t} : Same(u)
  BY <1>1 DEF Same, Polling, Reading
<1>q. QED
  BY <1>2, <1>3, StepKeeps DEF Polling

\* The first reservation: granted, it is on both accounts; refused, nothing is.
LEMMA PreConsumeKeeps ==
  ASSUME IInv, NEW t \in Tasks, NEW q \in Quotas, PreConsume(t, q)
  PROVE  IInv'
<1> DEFINE n == Reservation(t, q)
<1>0. TypeOK /\ Consistent(t) /\ left \in 0..SubTotal
  BY DEF IInv
<1>1. n \in Nat
  BY TaskAssumption DEF Reservation
<1>2. /\ row[t].status = "none" /\ sub[t].pc = "idle"
      /\ ~sub[t].short => paid[t]["fund"] = 0 /\ paid[t]["token"] = 0
  BY <1>0, TaskTypes DEF PreConsume, Consistent, RowExists, Books, MovesTracked,
     Taken
<1>3. CASE Chargeable(t, n) /\ sub' = [sub EXCEPT ![t].pc = "submit",
                                                  ![t].pre = n]
           /\ Charge(t, n, n)
  <2>1. sub' \in [Tasks -> Handler] /\ sub'[t].pc = "submit"
        /\ sub'[t].pre = n /\ sub'[t].short = sub[t].short
        /\ \A u \in Tasks \ {t} : sub'[u] = sub[u]
    <3>1. sub[t] \in Handler
      BY <1>0, TaskTypes
    <3>2. sub' = [sub EXCEPT ![t] = [sub[t] EXCEPT !.pc = "submit",
                                                   !.pre = n]]
      BY <1>0, <1>3 DEF TypeOK
    <3>3. [sub[t] EXCEPT !.pc = "submit", !.pre = n] \in Handler
      BY <1>1, <3>1 DEF Handler
    <3>q. QED
      BY <1>0, <3>1, <3>2, <3>3 DEF TypeOK, Handler
  <2>2. /\ paid' \in [Tasks -> [{"fund", "token"} -> Int]]
        /\ paid'[t]["fund"] = paid[t]["fund"] + n
        /\ paid'[t]["token"] = paid[t]["token"] + n
        /\ \A u \in Tasks \ {t} : paid'[u] = paid[u]
        /\ left' \in 0..SubTotal
    BY <1>0, <1>1, <1>3, ChargeEffect
  <2>3. TypeOK' /\ (Consistent(t)' => IInv')
    BY <2>1, <2>2, HandlerTypes DEF PreConsume
  <2>4. Consistent(t)'
    <3>1. Taken(t)' = n
      BY <2>1 DEF Taken
    <3>q. QED
      BY <1>0, <1>1, <1>2, <2>1, <2>2, <2>3, <3>1, RowlessKeeps
         DEF PreConsume
  <2>q. QED
    BY <2>3, <2>4
<1>4. CASE sub' = [sub EXCEPT ![t].pc = "failed"] /\ UNCHANGED <<paid, left>>
  <2>1. sub' \in [Tasks -> Handler] /\ sub'[t].pc = "failed"
        /\ sub'[t].short = sub[t].short
        /\ \A u \in Tasks \ {t} : sub'[u] = sub[u]
    <3>1. sub \in [Tasks -> Handler]
      BY <1>0 DEF TypeOK
    <3>q. QED
      BY <3>1, <1>4, HandlerGoes
  <2>3. TypeOK' /\ (Consistent(t)' => IInv')
    BY <1>0, <2>1, <1>4, HandlerTypes DEF PreConsume, TypeOK
  <2>4. Consistent(t)'
    <3>1. Taken(t)' = 0
      BY <2>1 DEF Taken
    <3>q. QED
      BY <1>0, <1>2, <1>4, <2>1, <2>3, <3>1, RowlessKeeps
         DEF PreConsume
  <2>q. QED
    BY <2>3, <2>4
<1>q. QED
  BY <1>3, <1>4 DEF PreConsume

\* A larger reservation is charged in full on both accounts.
LEMMA ReserveKeeps ==
  ASSUME IInv, NEW t \in Tasks, NEW q \in Quotas, Reserve(t, q)
  PROVE  IInv'
<1> DEFINE n == q - sub[t].pre
<1>0. TypeOK /\ Consistent(t) /\ left \in 0..SubTotal
  BY DEF IInv
<1>1. n \in Int /\ q \in Nat
  BY <1>0, TaskTypes, TaskAssumption DEF Handler
<1>2. /\ row[t].status = "none" /\ sub[t].pc = "submit"
      /\ ~sub[t].short => /\ paid[t]["fund"] = sub[t].pre
                          /\ paid[t]["token"] = sub[t].pre
  BY <1>0, TaskTypes DEF Reserve, Consistent, RowExists, Books, MovesTracked,
     Taken
<1>3. sub' \in [Tasks -> Handler] /\ sub'[t].pc = "submit"
      /\ sub'[t].pre = q /\ sub'[t].short = sub[t].short
      /\ \A u \in Tasks \ {t} : sub'[u] = sub[u]
  BY ZenonT(60), <1>0, <1>1 DEF Reserve, TypeOK, Handler
<1>4. /\ paid' \in [Tasks -> [{"fund", "token"} -> Int]]
      /\ paid'[t]["fund"] = paid[t]["fund"] + n
      /\ paid'[t]["token"] = paid[t]["token"] + n
      /\ \A u \in Tasks \ {t} : paid'[u] = paid[u]
      /\ left' \in 0..SubTotal
  BY <1>0, <1>1, ChargeEffect DEF Reserve
<1>5. TypeOK' /\ (Consistent(t)' => IInv')
  BY <1>3, <1>4, HandlerTypes DEF Reserve
<1>6. Taken(t)' = q
  BY <1>3 DEF Taken
<1>7. ~sub'[t].short => paid'[t]["fund"] = q /\ paid'[t]["token"] = q
  BY <1>0, <1>1, <1>2, <1>3, <1>4, TaskTypes DEF Handler
<1>8. Consistent(t)'
  BY <1>0, <1>2, <1>3, <1>5, <1>6, <1>7, RowlessKeeps DEF Reserve
<1>q. QED
  BY <1>5, <1>8

\* The deferred refund returns the reservation on both accounts.
LEMMA SubmitFailsKeeps ==
  ASSUME IInv, NEW t \in Tasks, SubmitFails(t)
  PROVE  IInv'
<1> DEFINE n == -sub[t].pre
<1>0. TypeOK /\ Consistent(t) /\ left \in 0..SubTotal
  BY DEF IInv
<1>1. n \in Int /\ n <= 0
  BY <1>0, TaskTypes DEF Handler
<1>2. /\ row[t].status = "none" /\ sub[t].pc = "submit"
      /\ ~sub[t].short => /\ paid[t]["fund"] = sub[t].pre
                          /\ paid[t]["token"] = sub[t].pre
  BY <1>0, TaskTypes DEF SubmitFails, Consistent, RowExists, Books,
     MovesTracked, Taken
<1>3. sub' \in [Tasks -> Handler] /\ sub'[t].pc = "failed"
      /\ sub'[t].short = sub[t].short
      /\ \A u \in Tasks \ {t} : sub'[u] = sub[u]
  BY ZenonT(60), <1>0 DEF SubmitFails, TypeOK, Handler
<1>4. /\ paid' \in [Tasks -> [{"fund", "token"} -> Int]]
      /\ paid'[t]["fund"] = paid[t]["fund"] + n
      /\ paid'[t]["token"] = paid[t]["token"] + n
      /\ \A u \in Tasks \ {t} : paid'[u] = paid[u]
      /\ left' \in 0..SubTotal
  <2>1. Chargeable(t, n)
    BY <1>0, <1>1, TaskAssumption DEF Chargeable
  <2>q. QED
    BY <1>0, <1>1, <2>1, ChargeEffect DEF SubmitFails
<1>5. TypeOK' /\ (Consistent(t)' => IInv')
  BY <1>3, <1>4, HandlerTypes DEF SubmitFails
<1>6. Taken(t)' = 0
  BY <1>3 DEF Taken
<1>7. ~sub'[t].short => paid'[t]["fund"] = 0 /\ paid'[t]["token"] = 0
  BY <1>0, <1>1, <1>2, <1>3, <1>4, TaskTypes DEF Handler
<1>8. Consistent(t)'
  BY <1>0, <1>2, <1>3, <1>5, <1>6, <1>7, RowlessKeeps DEF SubmitFails
<1>q. QED
  BY <1>5, <1>8

\* The upstream's answer fixes the price and moves nothing.
LEMMA SubmitSucceedsKeeps ==
  ASSUME IInv, NEW t \in Tasks, NEW final \in Finals,
         NEW first \in Reported \cup Terminal, NEW full \in BOOLEAN,
         SubmitSucceeds(t, final, first, full)
  PROVE  IInv'
<1> DEFINE next == IF kind[t].bridge THEN "insert" ELSE "settle"
           s == [sub[t] EXCEPT !.pc = next, !.final = final, !.first = first,
                               !.full = full]
<1>0. TypeOK /\ Consistent(t) /\ left \in 0..SubTotal
  BY DEF IInv
<1>1. final \in Nat /\ sub[t] \in Handler
  BY <1>0, TaskTypes, TaskAssumption
<1>2. /\ row[t].status = "none" /\ sub[t].pc = "submit"
      /\ ~sub[t].short => /\ paid[t]["fund"] = sub[t].pre
                          /\ paid[t]["token"] = sub[t].pre
  BY <1>0, TaskTypes DEF SubmitSucceeds, Consistent, RowExists, Books,
     MovesTracked, Taken
<1>3. s \in Handler /\ s.pc = next /\ s.final = final /\ s.first = first
      /\ s.short = sub[t].short /\ s.pre = sub[t].pre
  BY <1>1 DEF Handler
<1>4. sub' = [sub EXCEPT ![t] = s]
  BY <1>0 DEF SubmitSucceeds, TypeOK
<1>5. sub' \in [Tasks -> Handler] /\ sub'[t] = s
      /\ \A u \in Tasks \ {t} : sub'[u] = sub[u]
  BY <1>0, <1>3, <1>4 DEF TypeOK
<1>6. TypeOK' /\ (Consistent(t)' => IInv')
  BY <1>0, <1>5, HandlerTypes DEF SubmitSucceeds, TypeOK
<1>7. Taken(t)' = sub[t].pre
  BY <1>3, <1>5 DEF Taken, SubmitSucceeds
<1>8. Consistent(t)'
  <2>1. sub'[t].first = "FAILURE" => sub'[t].final = 0
    BY <1>3, <1>5 DEF SubmitSucceeds
  <2>2. sub'[t].pc # "done" /\ ~(kind[t].bridge /\ sub'[t].pc = "settle")
    BY <1>3, <1>5
  <2>3. ~sub'[t].short => /\ paid'[t]["fund"] = Taken(t)'
                          /\ paid'[t]["token"] = Taken(t)'
    BY <1>2, <1>3, <1>5, <1>7 DEF SubmitSucceeds
  <2>q. QED
    BY <1>0, <1>2, <1>6, <2>1, <2>2, <2>3, RowlessKeeps
       DEF SubmitSucceeds
<1>q. QED
  BY <1>6, <1>8

\* A settlement of the bridge shifts both accounts by what it takes, beside a
\* pass that may already be moving quota for the task.
LEMMA BridgeSettleKeeps ==
  ASSUME TypeOK, TypeOK', NEW t \in Tasks, Consistent(t), kind[t].bridge,
         kind' = kind, row' = row, UNCHANGED Polling,
         t \in clean' => t \in clean,
         sub[t].pc = "settle", sub'[t].pc = "done",
         sub'[t].final = sub[t].final,
         ~sub'[t].short =>
           /\ ~sub[t].short
           /\ paid'[t]["fund"] = paid[t]["fund"] + sub[t].final - sub[t].pre
           /\ paid'[t]["token"] = paid[t]["token"] + sub[t].final - sub[t].pre
  PROVE  Consistent(t)'
<1>1. sub[t].final \in Nat /\ sub[t].pre \in Nat /\ paid[t]["fund"] \in Int
      /\ paid[t]["token"] \in Int /\ row[t].quota \in Nat
      /\ \A p \in Pollers : item[p][t].target \in Nat
  BY TaskTypes DEF Handler, Row, Item
<1>2. Taken(t) = sub[t].pre /\ Taken(t)' = sub[t].final
      /\ (Quiet(t)' <=> Quiet(t))
  BY DEF Taken, Quiet, Polling
<1>u. /\ item' = item /\ get' = get /\ fetched' = fetched
      /\ orphaned' = orphaned
  BY DEF Polling, Reading
<1>0. RowExists(t)'
  BY <1>u DEF Consistent, RowExists
<1> SUFFICES ASSUME t \notin fetched PROVE Books(t)'
  BY <1>0, <1>u DEF Consistent
<1> USE DEF Consistent, Books
<1>3. RowFollows(t)'
  BY DEF RowFollows
<1>4. CopiesFollow(t)' /\ OneMover(t)'
  BY <1>u DEF CopiesFollow, OneMover
<1>5. MovesTracked(t)'
  BY <1>1, <1>2, <1>u DEF MovesTracked
<1>6. ReturnsAll(t)'
  BY <1>2, <1>u DEF ReturnsAll
<1>q. QED
  BY <1>3, <1>4, <1>5, <1>6

\* A settlement charges the difference on both accounts or is marked short.
LEMMA SettleKeeps ==
  ASSUME IInv, NEW t \in Tasks, Settle(t)
  PROVE  IInv'
<1> DEFINE delta == sub[t].final - sub[t].pre
           next == IF kind[t].bridge THEN "done" ELSE "insert"
<1>0. TypeOK /\ Consistent(t) /\ left \in 0..SubTotal
  BY DEF IInv
<1>1. delta \in Int /\ sub[t].final \in Nat /\ sub[t].pre \in Nat
      /\ paid[t]["fund"] \in Int /\ paid[t]["token"] \in Int
      /\ sub[t].pc = "settle"
  BY <1>0, TaskTypes DEF Handler, Settle
<1>2. sub' \in [Tasks -> Handler] /\ sub'[t].pc = next
      /\ sub'[t].final = sub[t].final /\ sub'[t].first = sub[t].first
      /\ (~sub'[t].short => ~sub[t].short)
      /\ \A u \in Tasks \ {t} : sub'[u] = sub[u]
  <2>1. CASE sub' = [sub EXCEPT ![t].pc = next]
    <3>1. sub[t] \in Handler
      BY <1>0, TaskTypes
    <3>2. [sub[t] EXCEPT !.pc = next] \in Handler
      BY <3>1 DEF Handler
    <3>q. QED
      BY <1>0, <2>1, <3>1, <3>2 DEF TypeOK, Handler
  <2>2. CASE sub' = [sub EXCEPT ![t].pc = next, ![t].short = TRUE]
    <3>1. sub[t] \in Handler
      BY <1>0, TaskTypes
    <3>2. sub' = [sub EXCEPT ![t] = [sub[t] EXCEPT !.pc = next,
                                                   !.short = TRUE]]
      BY <1>0, <2>2 DEF TypeOK
    <3>3. [sub[t] EXCEPT !.pc = next, !.short = TRUE] \in Handler
      BY <3>1 DEF Handler
    <3>q. QED
      BY <1>0, <3>1, <3>2, <3>3 DEF TypeOK, Handler
  <2>q. QED
    BY <2>1, <2>2 DEF Settle
<1>3. /\ paid' \in [Tasks -> [{"fund", "token"} -> Int]]
      /\ \A u \in Tasks \ {t} : paid'[u] = paid[u]
      /\ left' \in 0..SubTotal
  <2>1. CASE UNCHANGED <<paid, left>>
    BY <1>0, <2>1 DEF TypeOK
  <2>2. CASE Chargeable(t, delta) /\ Charge(t, delta, delta)
    BY <1>0, <1>1, <2>2, ChargeEffect
  <2>3. CASE Chargeable(t, delta) /\ Charge(t, delta, 0)
    BY <1>0, <1>1, <2>3, ChargeEffect
  <2>q. QED
    BY <2>1, <2>2, <2>3 DEF Settle
<1>4. ~sub'[t].short => /\ paid'[t]["fund"] = paid[t]["fund"] + delta
                        /\ paid'[t]["token"] = paid[t]["token"] + delta
  <2>1. CASE Chargeable(t, delta) /\ Charge(t, delta, delta)
    BY <1>0, <1>1, <2>1, ChargeEffect
  <2>2. CASE sub' = [sub EXCEPT ![t].pc = next, ![t].short = TRUE]
    <3>1. sub'[t].short
      BY <1>0, <2>2 DEF TypeOK, Handler
    <3>q. QED
      BY <3>1
  <2>q. QED
    BY <2>1, <2>2 DEF Settle
<1>5. TypeOK' /\ (Consistent(t)' => IInv')
  <2>1. Fault(t) \/ NoFault
    BY DEF Settle
  <2>q. QED
    BY <1>2, <1>3, <2>1, HandlerTypes DEF Settle
<1>6. CASE kind[t].bridge
  <2>1. t \in clean' => t \in clean
    BY DEF Settle, Fault, NoFault
  <2>q. QED
    BY <1>0, <1>1, <1>2, <1>4, <1>5, <1>6, <2>1, BridgeSettleKeeps
       DEF Settle
<1>7. CASE ~kind[t].bridge
  <2>1. row[t].status = "none" /\ Taken(t) = sub[t].pre
        /\ Taken(t)' = sub[t].final
    BY <1>0, <1>1, <1>2, <1>7 DEF Consistent, RowExists, Taken, Settle
  <2>2. ~sub'[t].short => /\ paid'[t]["fund"] = Taken(t)'
                          /\ paid'[t]["token"] = Taken(t)'
    BY <1>0, <1>1, <1>2, <1>4, <2>1, RowlessHasNoCopies DEF Books, MovesTracked
  <2>3. sub'[t].first = "FAILURE" => sub'[t].final = 0
    BY <1>0, <1>1, <1>2 DEF Consistent, RowExists
  <2>q. QED
    BY <1>0, <1>2, <1>5, <1>7, <2>1, <2>2, <2>3, RowlessKeeps
       DEF Settle
<1>q. QED
  BY <1>6, <1>7

\* The row is inserted with the price, which is what was taken or will be; a
\* task that failed at once has none.
LEMMA InsertKeeps ==
  ASSUME IInv, NEW t \in Tasks, Insert(t)
  PROVE  IInv'
<1> DEFINE new == [status |-> sub[t].first, full |-> sub[t].full,
                   quota |-> sub[t].final, fails |-> 0]
           next == IF kind[t].bridge THEN "settle" ELSE "done"
<1>0. TypeOK /\ Consistent(t) /\ left \in 0..SubTotal
  BY DEF IInv
<1>1. sub[t] \in Handler /\ sub[t].pc = "insert" /\ row[t].status = "none"
  BY <1>0, TaskTypes DEF Insert, Consistent, RowExists
<1>2. paid' = paid /\ kind' = kind /\ left' = left /\ item' = item
      /\ mode' = mode /\ aged' = aged /\ orphaned' = orphaned
      /\ get' = get /\ gets' = gets /\ fetched' = fetched /\ UNCHANGED Polling
  BY DEF Insert, Polling, Reading
<1>3. CASE row' = [row EXCEPT ![t] = new] /\ NoFault
           /\ sub' = [sub EXCEPT ![t].pc = next]
  <2>1. new \in Row
    BY <1>1, TaskAssumption DEF Handler, Row
  <2>2. row' \in [Tasks -> Row] /\ row'[t] = new
        /\ \A u \in Tasks \ {t} : row'[u] = row[u]
    BY <1>0, <1>3, <2>1 DEF TypeOK
  <2>3. [sub[t] EXCEPT !.pc = next] \in Handler
    BY <1>1 DEF Handler
  <2>4. sub' \in [Tasks -> Handler] /\ sub'[t] = [sub[t] EXCEPT !.pc = next]
        /\ \A u \in Tasks \ {t} : sub'[u] = sub[u]
    BY <1>0, <1>3, <2>3 DEF TypeOK
  <2>5. sub'[t].pc = next /\ sub'[t].final = sub[t].final
        /\ sub'[t].first = sub[t].first /\ sub'[t].pre = sub[t].pre
        /\ sub'[t].short = sub[t].short
    BY <1>1, <2>4 DEF Handler
  <2>6. TypeOK'
    BY <1>0, <1>2, <1>3, <2>2, <2>4 DEF TypeOK, NoFault
  <2>7. \A u \in Tasks \ {t} : Same(u)
    BY <1>2, <1>3, <2>2, <2>4 DEF Same, NoFault
  <2>8. /\ \A p \in Pollers : item'[p][t].pc = "none"
        /\ \A c \in Clients : get'[c][t].pc = "none"
        /\ t \notin fetched' /\ Books(t)
    BY <1>0, <1>1, <1>2, RowlessHasNoCopies
  <2>9. RowExists(t)' /\ RowFollows(t)'
    BY <1>1, <1>2, <2>2, <2>5, <2>8, <1>0, TaskAssumption
       DEF RowExists, RowFollows, Handler, Consistent
  <2>10. CopiesFollow(t)' /\ OneMover(t)'
    BY <2>8 DEF CopiesFollow, OneMover
  <2>11. MovesTracked(t)'
    <3>1. Taken(t)' = Taken(t) /\ Taken(t) \in Nat /\ sub[t].final \in Nat
      BY <1>1, <1>2, <2>5 DEF Taken, Handler
    <3>2. ~sub[t].short => paid[t]["fund"] = Taken(t)
                           /\ paid[t]["token"] = Taken(t)
      BY <1>1, <2>8 DEF Books, MovesTracked
    <3>q. QED
      BY <1>2, <2>2, <2>5, <2>8, <3>1, <3>2 DEF MovesTracked
  <2>12. ReturnsAll(t)'
    BY <1>0, <1>1, <2>2, <2>8 DEF ReturnsAll, Consistent, RowExists
  <2>13. Consistent(t)'
    BY <2>9, <2>10, <2>11, <2>12 DEF Consistent, Books
  <2>q. QED
    BY <1>0, <1>2, <2>6, <2>7, <2>8, <2>13, StepKeeps
<1>4. CASE sub' = [sub EXCEPT ![t].pc = "lost"] /\ Fault(t) /\ row' = row
  <2>1. sub' \in [Tasks -> Handler] /\ sub'[t].pc = "lost"
        /\ sub'[t].short = sub[t].short /\ sub'[t].pre = sub[t].pre
        /\ sub'[t].final = sub[t].final
        /\ \A u \in Tasks \ {t} : sub'[u] = sub[u]
    <3>1. sub \in [Tasks -> Handler]
      BY <1>0 DEF TypeOK
    <3>q. QED
      BY <3>1, <1>4, HandlerGoes
  <2>2. TypeOK' /\ (Consistent(t)' => IInv')
    BY <1>0, <1>2, <1>4, <2>1, HandlerTypes DEF Polling, TypeOK
  <2>3. Taken(t)' = Taken(t)
    BY <1>1, <1>2, <2>1 DEF Taken
  <2>4. ~sub[t].short => paid[t]["fund"] = Taken(t)
                         /\ paid[t]["token"] = Taken(t)
    BY <1>0, <1>1, RowlessHasNoCopies DEF Books, MovesTracked
  <2>5. Consistent(t)'
    BY <1>0, <1>1, <1>2, <1>4, <2>1, <2>2, <2>3, <2>4, RowlessKeeps
  <2>q. QED
    BY <2>2, <2>5
<1>q. QED
  BY <1>3, <1>4 DEF Insert

-----------------------------------------------------------------------------
(* Passes.                                                                 *)

\* A step of a pass that changes its items and no row.
LEMMA PassKeeps ==
  ASSUME IInv, NEW p \in Pollers, UNCHANGED <<Submission, Billing, row, aged>>,
         UNCHANGED <<Reading, orphaned>>, clean' \subseteq clean,
         faults' \in 0..MaxFaults,
         mode' \in [Pollers -> {"idle", "sweep", "poll"}],
         \A q \in Pollers \ {p} : mode'[q] = mode[q],
         item' \in [Pollers -> [Tasks -> Item]],
         \A q \in Pollers \ {p} : item'[q] = item[q],
         \A u \in Tasks :
            \/ item'[p][u] = item[p][u]
            \/ item'[p][u] = NoItem
            \/ row[u].status \in Unfinished /\ item'[p][u] = Fresh(u),
         \A u \in Tasks : item[p][u].pc \in Moving =>
            item'[p][u] = item[p][u] \/ u \notin clean',
         mode'[p] = "idle" => \A u \in Tasks : item'[p][u].pc = "none"
  PROVE  IInv'
<1>1. /\ kind' = kind /\ sub' = sub /\ row' = row /\ paid' = paid
      /\ left' = left /\ aged' = aged /\ orphaned' = orphaned
      /\ get' = get /\ gets' = gets /\ fetched' = fetched
  BY DEF Submission, Billing, Reading
<1>2. TypeOK'
  BY <1>1 DEF IInv, TypeOK
<1>3. ASSUME NEW u \in Tasks
      PROVE  Consistent(u)'
  BY <1>1, ForgetKeeps DEF IInv
<1>4. ASSUME NEW q \in Pollers, mode'[q] = "idle"
      PROVE  Idle(q)'
  BY <1>4 DEF IInv, Idle
<1>q. QED
  BY <1>1, <1>2, <1>3, <1>4 DEF IInv

\* A query replaces the copies of a pass that holds none.
LEMMA LoadKeeps ==
  ASSUME IInv, NEW p \in Pollers, NEW S \in SUBSET UnfinishedTasks,
         NEW m \in {"sweep", "poll"}, Idle(p), Load(p, S),
         mode' = [mode EXCEPT ![p] = m], NoFault,
         UNCHANGED <<Submission, Billing, row, aged, Reading, orphaned>>
  PROVE  IInv'
<1>0. TypeOK
  BY DEF IInv
<1>1. \A u \in Tasks : Fresh(u) \in Item
  BY <1>0, TaskTypes DEF Fresh, Item
<1>2. /\ item' \in [Pollers -> [Tasks -> Item]]
      /\ \A q \in Pollers \ {p} : item'[q] = item[q]
      /\ \A u \in Tasks : item'[p][u] = IF u \in S THEN Fresh(u) ELSE NoItem
  BY <1>0, <1>1, NoItemType DEF Load, TypeOK
<1>3. \A u \in Tasks : \/ item'[p][u] = NoItem
                       \/ row[u].status \in Unfinished /\ item'[p][u] = Fresh(u)
  BY <1>2 DEF UnfinishedTasks
<1>4. \A u \in Tasks : item[p][u].pc \notin Moving
  BY DEF Idle
<1>5. /\ mode' \in [Pollers -> {"idle", "sweep", "poll"}]
      /\ mode'[p] # "idle"
      /\ \A q \in Pollers \ {p} : mode'[q] = mode[q]
  BY <1>0 DEF TypeOK
<1>6. clean' \subseteq clean /\ faults' \in 0..MaxFaults
  BY <1>0 DEF TypeOK, NoFault
<1>q. QED
  BY <1>2, <1>3, <1>4, <1>5, <1>6, PassKeeps

\* A pass begins without copies of an earlier one.
LEMMA StartPassKeeps ==
  ASSUME IInv, NEW p \in Pollers, StartPass(p)
  PROVE  IInv'
<1>1. Idle(p)
  BY DEF IInv, StartPass
<1>2. UnfinishedTasks \cap aged \in SUBSET UnfinishedTasks
  OBVIOUS
<1>q. QED
  BY <1>1, <1>2, LoadKeeps DEF StartPass

\* The sweep is over before the unfinished tasks are loaded.
LEMMA LoadUnfinishedKeeps ==
  ASSUME IInv, NEW p \in Pollers, LoadUnfinished(p)
  PROVE  IInv'
<1>1. UnfinishedTasks \in SUBSET UnfinishedTasks
  OBVIOUS
<1>q. QED
  BY <1>1, LoadKeeps DEF LoadUnfinished

\* A pass ends without copies.
LEMMA EndPassKeeps ==
  ASSUME IInv, NEW p \in Pollers, EndPass(p)
  PROVE  IInv'
  BY PassKeeps DEF EndPass, IInv, TypeOK, NoFault, Idle

\* A cancelled pass forgets only what it has not begun.
LEMMA CancelKeeps ==
  ASSUME IInv, NEW p \in Pollers, Cancel(p)
  PROVE  IInv'
<1>0. TypeOK
  BY DEF IInv
<1>1. /\ item' \in [Pollers -> [Tasks -> Item]]
      /\ \A q \in Pollers \ {p} : item'[q] = item[q]
      /\ \A u \in Tasks : item'[p][u] = IF item[p][u].pc = "loaded" THEN NoItem
                                        ELSE item[p][u]
  BY <1>0, NoItemType DEF Cancel, TypeOK
<1>2. mode' = mode /\ mode[p] # "idle" /\ UNCHANGED <<Reading, orphaned>>
      /\ UNCHANGED <<Submission, Billing, row, aged>>
      /\ clean' = clean /\ faults' = faults
  BY DEF Cancel, NoFault
<1>q. QED
  BY <1>0, <1>1, <1>2, PassKeeps DEF TypeOK

\* A crash forgets everything; what was being moved is no longer clean.
LEMMA CrashKeeps ==
  ASSUME IInv, NEW p \in Pollers, Crash(p)
  PROVE  IInv'
<1>0. TypeOK
  BY DEF IInv
<1>1. /\ item' \in [Pollers -> [Tasks -> Item]]
      /\ \A q \in Pollers \ {p} : item'[q] = item[q]
      /\ \A u \in Tasks : item'[p][u] = NoItem
  BY <1>0, NoItemType DEF Crash, TypeOK
<1>2. /\ mode' \in [Pollers -> {"idle", "sweep", "poll"}]
      /\ \A q \in Pollers \ {p} : mode'[q] = mode[q]
  BY <1>0 DEF Crash, TypeOK
<1>3. clean' \subseteq clean /\ faults' \in 0..MaxFaults
      /\ UNCHANGED <<Submission, Billing, row, aged>>
      /\ UNCHANGED <<Reading, orphaned>>
  BY <1>0, TaskAssumption DEF Crash, TypeOK
<1>4. \A u \in Tasks : item[p][u].pc \in Moving => u \notin clean'
  BY DEF Crash
<1>5. NoItem.pc = "none"
  BY DEF NoItem
<1>q. QED
  BY <1>1, <1>2, <1>3, <1>4, <1>5, PassKeeps

-----------------------------------------------------------------------------
(* The work of a pass on one task.                                         *)

\* A step of pass p on task t changes its item, the row and the accounts of t
\* only, and may mark t as orphaned.
LEMMA TouchTypes ==
  ASSUME IInv, NEW p \in Pollers, NEW t \in Tasks, NEW i \in Item,
         SetItem(p, t, i), item[p][t].pc # "none",
         UNCHANGED <<Submission, mode, aged, Reading>>,
         orphaned' \in {orphaned, orphaned \cup {t}},
         row' \in [Tasks -> Row], \A u \in Tasks \ {t} : row'[u] = row[u],
         row'[t].status # "none",
         paid' \in [Tasks -> [{"fund", "token"} -> Int]],
         \A u \in Tasks \ {t} : paid'[u] = paid[u],
         left' \in 0..SubTotal, Fault(t) \/ NoFault
  PROVE  /\ TypeOK'
         /\ (t \notin fetched => Books(t)') => IInv'
         /\ item'[p][t] = i
         /\ \A q \in Pollers \ {p} : item'[q][t] = item[q][t]
         /\ kind' = kind /\ sub' = sub /\ get' = get
         /\ clean' \subseteq clean /\ (Fault(t) => t \notin clean')
<1>0. TypeOK /\ Consistent(t)
  BY DEF IInv
<1>1. /\ faults' \in 0..MaxFaults /\ clean' \subseteq clean
      /\ (Fault(t) => t \notin clean')
      /\ \A u \in Tasks \ {t} : u \in clean' <=> u \in clean
  <2>1. CASE Fault(t)
    BY <1>0, <2>1, FaultEffect DEF Fault
  <2>2. CASE NoFault /\ ~Fault(t)
    BY <1>0, <2>2 DEF NoFault, TypeOK
  <2>q. QED
    BY <2>1, <2>2
<1>2. /\ item' \in [Pollers -> [Tasks -> Item]]
      /\ item'[p][t] = i
      /\ \A q \in Pollers, u \in Tasks :
            q # p \/ u # t => item'[q][u] = item[q][u]
  BY <1>0, SetItemEffect
<1>3. /\ kind' = kind /\ sub' = sub /\ mode' = mode /\ aged' = aged
      /\ get' = get /\ gets' = gets /\ fetched' = fetched
      /\ orphaned' \subseteq Tasks
      /\ \A u \in Tasks \ {t} : u \in orphaned' <=> u \in orphaned
  BY <1>0 DEF Submission, Reading, TypeOK
<1>4. TypeOK'
  BY <1>0, <1>1, <1>2, <1>3 DEF TypeOK
<1>5. \A u \in Tasks \ {t} : Same(u)
  BY <1>1, <1>2, <1>3 DEF Same
<1>6. \A q \in Pollers : item'[q][t].pc # "none" => item[q][t].pc # "none"
  BY <1>2
<1>7. RowExists(t)'
  <2>1. row[t].status # "none" /\ RowExists(t)
    BY <1>0 DEF Consistent, RowExists
  <2>q. QED
    BY <1>3, <2>1, ExistsKeeps
<1>8. (t \notin fetched => Books(t)') => IInv'
  BY <1>3, <1>4, <1>5, <1>6, <1>7, StepKeeps DEF Consistent
<1>q. QED
  BY <1>1, <1>2, <1>3, <1>4, <1>8

\* A step that marks nothing.
LEMMA WorkTypes ==
  ASSUME IInv, NEW p \in Pollers, NEW t \in Tasks, NEW i \in Item,
         SetItem(p, t, i), item[p][t].pc # "none",
         UNCHANGED <<Submission, Passing>>,
         row' \in [Tasks -> Row], \A u \in Tasks \ {t} : row'[u] = row[u],
         row'[t].status # "none",
         paid' \in [Tasks -> [{"fund", "token"} -> Int]],
         \A u \in Tasks \ {t} : paid'[u] = paid[u],
         left' \in 0..SubTotal, Fault(t) \/ NoFault
  PROVE  /\ TypeOK'
         /\ (t \notin fetched => Books(t)') => IInv'
         /\ item'[p][t] = i
         /\ \A q \in Pollers \ {p} : item'[q][t] = item[q][t]
         /\ kind' = kind /\ sub' = sub /\ get' = get /\ orphaned' = orphaned
         /\ clean' \subseteq clean /\ (Fault(t) => t \notin clean')
<1>1. UNCHANGED <<Submission, mode, aged, Reading>> /\ orphaned' = orphaned
  BY DEF Passing
<1>q. QED
  BY <1>1, TouchTypes

\* A row of which a pass has a copy exists.
LEMMA CopiedExists ==
  ASSUME IInv, NEW p \in Pollers, NEW t \in Tasks, item[p][t].pc # "none"
  PROVE  row[t].status # "none"
  BY DEF IInv, Consistent, RowExists

\* A pass drops its copy: nothing was to do, the call failed, or another pass
\* won.
LEMMA DropKeeps ==
  ASSUME IInv, NEW p \in Pollers, NEW t \in Tasks, SetItem(p, t, NoItem),
         item[p][t].pc # "none", row' = row,
         UNCHANGED <<Submission, Billing, Passing>>,
         \/ Fault(t)
         \/ NoFault /\ item[p][t].pc = "loaded"
  PROVE  IInv'
<1>0. TypeOK /\ Consistent(t) /\ row[t].status # "none"
  BY CopiedExists DEF IInv
<1>1. paid' = paid /\ left' = left /\ UNCHANGED <<Reading, orphaned>>
      /\ row' \in [Tasks -> Row] /\ left' \in 0..SubTotal
      /\ paid' \in [Tasks -> [{"fund", "token"} -> Int]]
  BY DEF Billing, Passing, IInv, TypeOK
<1>2. /\ TypeOK' /\ ((t \notin fetched => Books(t)') => IInv')
      /\ item'[p][t] = NoItem
      /\ \A q \in Pollers \ {p} : item'[q][t] = item[q][t]
      /\ kind' = kind /\ sub' = sub
      /\ clean' \subseteq clean /\ (Fault(t) => t \notin clean')
  BY <1>0, <1>1, NoItemType, WorkTypes
<1>3. Consistent(t)'
  BY <1>0, <1>1, <1>2, ForgetKeeps
<1>4. fetched' = fetched
  BY <1>1 DEF Reading
<1>q. QED
  BY <1>2, <1>3, <1>4 DEF Consistent

\* The winner of the compare-and-swap still finds the row unfinished, with its
\* first quota, unpaid for beyond what the handler took, and nobody moving.
LEMMA WonFacts ==
  ASSUME TypeOK, NEW p \in Pollers, NEW t \in Tasks, Books(t),
         item[p][t].pc = "loaded", Won(p, t)
  PROVE  /\ row[t].status \in Unfinished
         /\ item[p][t].copy.quota = sub[t].final
         /\ \A q \in Pollers : item[q][t].pc \notin Moving
         /\ ~sub[t].short => paid[t]["fund"] = Taken(t)
                             /\ paid[t]["token"] = Taken(t)
<1>1. row[t].status \in Unfinished /\ item[p][t].copy.quota = sub[t].final
  BY DEF Books, CopiesFollow, Won
<1>2. \A q \in Pollers : item[q][t].pc \notin Moving
  BY <1>1 DEF Books, CopiesFollow
<1>3. ~sub[t].short => paid[t]["fund"] = Taken(t) /\ paid[t]["token"] = Taken(t)
  BY <1>1 DEF Books, MovesTracked
<1>q. QED
  BY <1>1, <1>2, <1>3

\* The winner writes the row and goes on unfinished.
LEMMA WriteKeeps ==
  ASSUME IInv, NEW p \in Pollers, NEW t \in Tasks, NEW new \in Row,
         item[p][t].pc = "loaded", Won(p, t), new.status # "none",
         t \notin fetched => /\ new.status \in Unfinished
                             /\ new.fails < MaxPollFailures,
         new.quota = item[p][t].copy.quota,
         row' = [row EXCEPT ![t] = new], SetItem(p, t, NoItem),
         UNCHANGED <<Submission, Billing, Passing>>, NoFault
  PROVE  IInv'
<1>0. TypeOK /\ Consistent(t)
  BY DEF IInv
<1>1. paid' = paid /\ left' = left /\ left' \in 0..SubTotal
      /\ paid' \in [Tasks -> [{"fund", "token"} -> Int]]
  BY DEF Billing, IInv, TypeOK
<1>2. row' \in [Tasks -> Row] /\ row'[t] = new
      /\ \A u \in Tasks \ {t} : row'[u] = row[u]
  BY <1>0 DEF TypeOK
<1>3. /\ TypeOK' /\ ((t \notin fetched => Books(t)') => IInv')
      /\ item'[p][t] = NoItem
      /\ \A q \in Pollers \ {p} : item'[q][t] = item[q][t]
      /\ kind' = kind /\ sub' = sub /\ get' = get
      /\ orphaned' = orphaned
  BY <1>1, <1>2, NoItemType, WorkTypes
<1> SUFFICES ASSUME t \notin fetched PROVE Books(t)'
  BY <1>3
<1>b. Books(t)
  BY <1>0 DEF Consistent
<1>4. /\ item'[p][t].pc = "none"
      /\ \A q \in Pollers : item'[q][t].pc \notin Moving
      /\ Taken(t)' = Taken(t)
  BY <1>b, <1>0, <1>3, WonFacts DEF NoItem, Taken
<1>5. RowFollows(t)'
  BY <1>b, <1>0, <1>2, <1>3, WonFacts DEF Books, RowFollows
<1>6. CopiesFollow(t)' /\ OneMover(t)'
  BY <1>b, <1>0, <1>2, <1>3, <1>4 DEF Books, CopiesFollow, OneMover
<1>7. MovesTracked(t)'
  BY <1>b, <1>0, <1>1, <1>2, <1>3, <1>4, WonFacts DEF Books, MovesTracked
<1>8. ReturnsAll(t)'
  BY <1>2 DEF ReturnsAll
<1>9. Books(t)'
  BY <1>5, <1>6, <1>7, <1>8 DEF Books
<1>q. QED
  BY <1>9

\* The winner ends the task and begins to move the difference to target, which
\* for a failure that is not billed by usage is nothing.
LEMMA EndKeeps ==
  ASSUME IInv, NEW p \in Pollers, NEW t \in Tasks, NEW new \in Row,
         NEW target \in Nat,
         item[p][t].pc = "loaded", Won(p, t), new.status \in Terminal,
         new.quota = item[p][t].copy.quota,
         new.status = "FAILURE" /\ kind[t].pricing # "usage" => target = 0,
         row' = [row EXCEPT ![t] = new],
         SetItem(p, t, IF target # new.quota
                       THEN [pc |-> "fund", copy |-> new, target |-> target]
                       ELSE NoItem),
         UNCHANGED <<Submission, Billing, Passing>>, NoFault
  PROVE  IInv'
<1> DEFINE i == IF target # new.quota
                THEN [pc |-> "fund", copy |-> new, target |-> target]
                ELSE NoItem
<1>0. TypeOK /\ Consistent(t)
  BY DEF IInv
<1>1. paid' = paid /\ left' = left /\ left' \in 0..SubTotal
      /\ paid' \in [Tasks -> [{"fund", "token"} -> Int]]
  BY DEF Billing, IInv, TypeOK
<1>2. row' \in [Tasks -> Row] /\ row'[t] = new
      /\ \A u \in Tasks \ {t} : row'[u] = row[u]
  BY <1>0 DEF TypeOK
<1>3. i \in Item
  BY NoItemType DEF Item
<1>4. /\ TypeOK' /\ ((t \notin fetched => Books(t)') => IInv')
      /\ item'[p][t] = i
      /\ \A q \in Pollers \ {p} : item'[q][t] = item[q][t]
      /\ kind' = kind /\ sub' = sub /\ get' = get
      /\ orphaned' = orphaned
  <2> HIDE DEF i
  <2>1. SetItem(p, t, i)
    BY DEF i
  <2>q. QED
    BY <1>1, <1>2, <1>3, <2>1, WorkTypes
<1> SUFFICES ASSUME t \notin fetched PROVE Books(t)'
  BY <1>4
<1>b. Books(t)
  BY <1>0 DEF Consistent
<1>5. /\ \/ /\ target # new.quota /\ item'[p][t].pc = "fund"
            /\ item'[p][t].copy = new /\ item'[p][t].target = target
         \/ target = new.quota /\ item'[p][t].pc = "none"
      /\ \A q \in Pollers : item'[q][t].pc \in Moving => q = p
      /\ Taken(t)' = Taken(t)
  BY <1>b, <1>0, <1>4, WonFacts DEF NoItem, Taken
<1> HIDE DEF i
<1>6. RowFollows(t)'
  BY <1>b, <1>0, <1>2, <1>4, WonFacts DEF Books, RowFollows
<1>7. CopiesFollow(t)'
  <2>1. /\ row'[t] = new /\ new.status \in Terminal /\ new.quota = sub'[t].final
        /\ new.status # "none"
    BY <1>b, <1>0, <1>2, <1>4, WonFacts DEF Terminal
  <2>2. ASSUME NEW q \in Pollers \ {p}
        PROVE  /\ item'[q][t] = item[q][t] /\ item[q][t].pc \notin Moving
               /\ item[q][t].pc = "loaded" =>
                    /\ item[q][t].copy.status \in Unfinished
                    /\ item[q][t].copy.quota = sub'[t].final
                    /\ item[q][t].copy.fails < MaxPollFailures
    BY <1>b, <1>0, <1>4, WonFacts DEF Books, CopiesFollow
  <2>3. item'[p][t].pc # "loaded"
        /\ (item'[p][t].pc \in Moving => item'[p][t].copy.quota = sub'[t].final)
    BY <1>5, <2>1 DEF Moving
  <2>4. \A c \in Clients : LET copy == get'[c][t].copy IN
          get'[c][t].pc = "loaded" /\ copy.status \in Unfinished =>
            copy.quota = sub'[t].final /\ copy.fails < MaxPollFailures
    BY <1>b, <1>4 DEF Books, CopiesFollow
  <2>q. QED
    BY <2>1, <2>2, <2>3, <2>4 DEF CopiesFollow
<1>8. OneMover(t)'
  BY <1>5 DEF OneMover
<1>9. MovesTracked(t)'
  <2>1. sub[t].final \in Nat /\ Taken(t) \in Nat
    BY <1>b, <1>0, TaskTypes DEF Handler
  <2>2. \A q \in Pollers : item'[q][t].pc \in Moving => item'[q][t].pc = "fund"
    BY <1>5
  <2>q. QED
    BY <1>b, <1>0, <1>1, <1>2, <1>4, <1>5, <2>1, <2>2, WonFacts DEF MovesTracked
<1>10. ReturnsAll(t)'
  BY <1>2, <1>4, <1>5 DEF ReturnsAll, Quiet
<1>11. Books(t)'
  BY <1>6, <1>7, <1>8, <1>9, <1>10 DEF Books
<1>q. QED
  BY <1>11

\* The two outcomes of finishing a task: the compare-and-swap is won, or lost
\* to another pass.
LEMMA FinalizeKeeps ==
  ASSUME IInv, NEW p \in Pollers, NEW t \in Tasks, NEW new \in Row,
         NEW target \in Nat, item[p][t].pc = "loaded",
         new.status \in Terminal, new.quota = item[p][t].copy.quota,
         new.status = "FAILURE" /\ kind[t].pricing # "usage" => target = 0,
         UpdateWithStatus(p, t, new), Finalize(p, t, new, target), NoFault,
         UNCHANGED <<Submission, Billing, Passing>>
  PROVE  IInv'
<1>1. CASE Won(p, t)
  BY <1>1, EndKeeps DEF UpdateWithStatus, Finalize
<1>2. CASE ~Won(p, t)
  BY <1>2, DropKeeps DEF UpdateWithStatus, Finalize
<1>q. QED
  BY <1>1, <1>2

\* An ended copy is a row with the quota of the copy.
LEMMA EndedFields ==
  ASSUME NEW copy \in Row, NEW status \in Terminal
  PROVE  LET new == Ended(copy, status) IN
         new \in Row /\ new.status = status /\ new.quota = copy.quota
  BY DEF Ended, Row

\* A timed out task fails and is to be returned.
LEMMA SweepTaskKeeps ==
  ASSUME IInv, NEW p \in Pollers, NEW t \in Tasks, SweepTask(p, t)
  PROVE  IInv'
<1> DEFINE new == Ended(item[p][t].copy, "FAILURE")
<1>1. item[p][t].copy \in Row /\ item[p][t].pc = "loaded"
  BY TaskTypes DEF IInv, SweepTask
<1>2. new \in Row /\ new.status = "FAILURE"
      /\ new.quota = item[p][t].copy.quota
  BY <1>1, EndedFields
<1> HIDE DEF new
<1>3. CASE UpdateWithStatus(p, t, new) /\ Finalize(p, t, new, 0) /\ NoFault
  BY <1>1, <1>2, <1>3, FinalizeKeeps DEF SweepTask
<1>4. CASE SetItem(p, t, NoItem) /\ Fault(t) /\ UNCHANGED row
  BY <1>1, <1>4, DropKeeps DEF SweepTask
<1>q. QED
  BY <1>3, <1>4 DEF SweepTask, new

\* What PollProgress writes.
Progressed(copy, status, full) ==
    [copy EXCEPT !.status = status, !.full = full, !.fails = 0]

\* A copy with a new progress keeps its quota and has no failures.
LEMMA ProgressFields ==
  ASSUME NEW copy \in Row, NEW status \in Reported, NEW full \in BOOLEAN
  PROVE  LET new == Progressed(copy, status, full)
         IN /\ new \in Row /\ new.status = status
            /\ new.fails < MaxPollFailures /\ new.quota = copy.quota
<1> DEFINE new == Progressed(copy, status, full)
<1>1. 0 \in Nat /\ 0 < MaxPollFailures
  BY TaskAssumption
<1>2. new.status = status /\ new.fails = 0 /\ new.quota = copy.quota
  BY DEF Row, Progressed
<1>3. new \in Row
  BY <1>1 DEF Row, Progressed
<1>q. QED
  BY <1>1, <1>2, <1>3

\* A progress report is written over the row only if the row is where the copy
\* was.
LEMMA PollProgressKeeps ==
  ASSUME IInv, NEW p \in Pollers, NEW t \in Tasks, NEW status \in Reported,
         NEW full \in BOOLEAN, PollProgress(p, t, status, full)
  PROVE  IInv'
<1> DEFINE new == Progressed(item[p][t].copy, status, full)
<1>1. item[p][t].copy \in Row /\ item[p][t].pc = "loaded"
  BY TaskTypes DEF IInv, PollProgress, Pollable
<1>2. new \in Row /\ new.status = status /\ new.fails < MaxPollFailures
      /\ new.quota = item[p][t].copy.quota
  BY <1>1, ProgressFields
<1>3. SetItem(p, t, NoItem) /\ UNCHANGED <<Submission, Billing, Passing>>
  BY DEF PollProgress
<1>4. \/ UpdateWithStatus(p, t, new) /\ NoFault
      \/ UNCHANGED row /\ NoFault
      \/ Fault(t) /\ UNCHANGED row
  BY DEF PollProgress, Progressed
<1> HIDE DEF new
<1>5. CASE row' = [row EXCEPT ![t] = new] /\ Won(p, t) /\ NoFault
  BY <1>1, <1>2, <1>3, <1>5, WriteKeeps
<1>6. CASE row' = row /\ (NoFault \/ Fault(t))
  BY <1>1, <1>3, <1>6, DropKeeps
<1>q. QED
  BY <1>4, <1>5, <1>6 DEF UpdateWithStatus

\* A skipped task is dropped.
LEMMA PollSkippedKeeps ==
  ASSUME IInv, NEW p \in Pollers, NEW t \in Tasks, PollSkipped(p, t)
  PROVE  IInv'
  BY DropKeeps DEF PollSkipped, Pollable

\* A task never ends with a negative quota, and a failed one with none unless
\* its usage is billed.
LEMMA TargetsFacts ==
  ASSUME NEW t \in Tasks, NEW status \in Terminal, NEW quota \in Nat,
         NEW target \in Targets(t, status, quota)
  PROVE  /\ target \in Nat
         /\ status = "FAILURE" /\ kind[t].pricing # "usage" => target = 0
  BY TaskAssumption DEF Targets

\* The upstream's verdict ends the task.
LEMMA PollTerminalKeeps ==
  ASSUME IInv, NEW p \in Pollers, NEW t \in Tasks, NEW status \in Terminal,
         NEW target, PollTerminal(p, t, status, target)
  PROVE  IInv'
<1> DEFINE new == Ended(item[p][t].copy, status)
<1>1. item[p][t].copy \in Row /\ item[p][t].pc = "loaded"
  BY TaskTypes DEF IInv, PollTerminal, Pollable
<1>2. new \in Row /\ new.status = status
      /\ new.quota = item[p][t].copy.quota
  BY <1>1, EndedFields
<1>3. new.quota \in Nat /\ target \in Targets(t, status, new.quota)
  BY <1>2 DEF PollTerminal, Row
<1> HIDE DEF new
<1>4. target \in Nat
      /\ (new.status = "FAILURE" /\ kind[t].pricing # "usage" => target = 0)
  BY <1>2, <1>3, TargetsFacts
<1>5. CASE UpdateWithStatus(p, t, new) /\ Finalize(p, t, new, target) /\ NoFault
  BY <1>1, <1>2, <1>4, <1>5, FinalizeKeeps DEF PollTerminal
<1>6. CASE SetItem(p, t, NoItem) /\ Fault(t) /\ UNCHANGED row
  BY <1>1, <1>6, DropKeeps DEF PollTerminal
<1>q. QED
  BY <1>5, <1>6 DEF PollTerminal, new

\* A poll failure is counted below the limit and ends the task at it.
LEMMA PollErrorKeeps ==
  ASSUME IInv, NEW p \in Pollers, NEW t \in Tasks, NEW target,
         PollError(p, t, target)
  PROVE  IInv'
<1> DEFINE c == item[p][t].copy
           over == c.fails + 1 >= MaxPollFailures
           more == [c EXCEPT !.fails = @ + 1]
           new == IF over THEN Ended(more, "FAILURE") ELSE more
<1>1. /\ c \in Row /\ item[p][t].pc = "loaded" /\ row[t].status # "none"
      /\ t \notin fetched => c.status \in Unfinished
  BY TaskTypes, CopiedExists
     DEF IInv, PollError, Pollable, Consistent, Books, CopiesFollow
<1>2. more \in Row /\ more.fails = c.fails + 1 /\ more.quota = c.quota
      /\ more.status = c.status /\ c.quota \in Nat
  BY <1>1, TaskAssumption DEF Row
<1>3. CASE SetItem(p, t, NoItem) /\ Fault(t) /\ UNCHANGED row
  BY <1>1, <1>3, DropKeeps DEF PollError
<1>4. CASE UpdateWithStatus(p, t, new) /\ Finalize(p, t, new, target) /\ NoFault
  <2>1. CASE over
    <3>1. new \in Row /\ new.status = "FAILURE" /\ new.quota = c.quota
      BY <1>2, <2>1, EndedFields
    <3>2. target \in Targets(t, "FAILURE", c.quota)
      BY <2>1 DEF PollError
    <3>3. target \in Nat /\ (kind[t].pricing # "usage" => target = 0)
      BY <1>2, <3>2, TargetsFacts
    <3> HIDE DEF new
    <3>q. QED
      BY <1>1, <1>4, <3>1, <3>3, FinalizeKeeps DEF PollError
  <2>2. CASE ~over
    <3>1. new = more /\ target = c.quota
      BY <2>2 DEF PollError
    <3>2. more.fails < MaxPollFailures
      BY <1>1, <1>2, <2>2, TaskAssumption DEF Row
    <3>3. SetItem(p, t, NoItem) /\ UNCHANGED <<Submission, Billing, Passing>>
      BY <1>2, <1>4, <3>1 DEF PollError, Finalize
    <3>4. CASE Won(p, t)
      <4>1. row' = [row EXCEPT ![t] = more]
        BY <1>4, <3>1, <3>4 DEF UpdateWithStatus
      <4>2. more.status # "none"
        BY <1>1, <1>2, <3>4 DEF Won
      <4> HIDE DEF more
      <4>q. QED
        BY <1>1, <1>2, <1>4, <3>2, <3>3, <3>4, <4>1, <4>2, WriteKeeps
    <3>5. CASE ~Won(p, t)
      BY <1>1, <1>4, <3>3, <3>5, DropKeeps DEF UpdateWithStatus
    <3>q. QED
      BY <3>4, <3>5
  <2>q. QED
    BY <2>1, <2>2
<1>q. QED
  BY <1>3, <1>4 DEF PollError

\* A task whose channel is not found is marked failed with the quota it has,
\* beside a pass that may be moving it.
LEMMA BulkFailKeeps ==
  ASSUME IInv, NEW p \in Pollers, NEW t \in Tasks, BulkFail(p, t)
  PROVE  IInv'
<1> DEFINE new == Ended(row[t], "FAILURE")
<1>0. TypeOK /\ Consistent(t)
  BY DEF IInv
<1>1. item[p][t].pc = "loaded" /\ SetItem(p, t, NoItem)
      /\ UNCHANGED <<Submission, Billing, mode, aged, Reading>>
  BY DEF BulkFail, Pollable
<1>2. CASE Fault(t) /\ UNCHANGED <<row, orphaned>>
  BY <1>1, <1>2, DropKeeps DEF Passing
<1>3. CASE row' = [row EXCEPT ![t] = new] /\ NoFault
           /\ orphaned' = orphaned \cup {t}
  <2>1. row[t] \in Row /\ new \in Row /\ new.status = "FAILURE"
        /\ new.quota = row[t].quota
    BY <1>0, TaskTypes, EndedFields
  <2> HIDE DEF new
  <2>2. row' \in [Tasks -> Row] /\ row'[t] = new
        /\ \A u \in Tasks \ {t} : row'[u] = row[u]
    BY <1>0, <1>3, <2>1 DEF TypeOK
  <2>3. paid' = paid /\ left' = left /\ left' \in 0..SubTotal
        /\ paid' \in [Tasks -> [{"fund", "token"} -> Int]]
    BY <1>1 DEF Billing, IInv, TypeOK
  <2>4. /\ TypeOK' /\ ((t \notin fetched => Books(t)') => IInv')
        /\ item'[p][t] = NoItem
        /\ \A q \in Pollers \ {p} : item'[q][t] = item[q][t]
        /\ kind' = kind /\ sub' = sub /\ get' = get /\ clean' \subseteq clean
    BY <1>1, <1>3, <2>1, <2>2, <2>3, NoItemType, TouchTypes
  <2> SUFFICES ASSUME t \notin fetched PROVE Books(t)'
    BY <2>4
  <2>b. Books(t)
    BY <1>0 DEF Consistent
  <2>5. /\ item'[p][t].pc = "none" /\ Taken(t)' = Taken(t)
        /\ Quiet(t)' => Quiet(t)
        /\ \A q \in Pollers : item'[q][t].pc # "none" =>
              item'[q][t] = item[q][t]
    BY <1>1, <2>4 DEF NoItem, Taken, Quiet
  <2>6. row[t].status # "none"
    BY <1>1, CopiedExists
  <2>7. RowFollows(t)'
    BY <2>1, <2>2 DEF RowFollows
  <2>8. CopiesFollow(t)' /\ OneMover(t)'
    BY <2>b, <2>1, <2>2, <2>4, <2>5 DEF Books, CopiesFollow, OneMover
  <2>9. MovesTracked(t)'
    <3>1. sub[t].final \in Nat /\ Taken(t) \in Nat /\ row[t] \in Row
      BY <1>0, TaskTypes DEF Handler
    <3>2. row[t].status \in Unfinished \/ row[t].status \in Terminal
      BY <2>6, <3>1 DEF Row
    <3>3. row[t].status \in Unfinished => row[t].quota = sub[t].final
      BY <2>b DEF Books, RowFollows
    <3>q. QED
      BY <2>b, <2>1, <2>2, <2>3, <2>4, <2>5, <3>1, <3>2, <3>3
         DEF Books, MovesTracked
  <2>10. ReturnsAll(t)'
    BY <1>3 DEF ReturnsAll
  <2>q. QED
    BY <2>7, <2>8, <2>9, <2>10 DEF Books
<1>q. QED
  BY <1>2, <1>3 DEF BulkFail

\* What is known of a pass that moves quota: the row ended with the first
\* quota, and no other pass moves.
LEMMA MoverFacts ==
  ASSUME NEW p \in Pollers, NEW t \in Tasks, Books(t),
         item[p][t].pc \in Moving
  PROVE  /\ row[t].status \in Terminal /\ row[t].quota = sub[t].final
         /\ item[p][t].copy.quota = sub[t].final
         /\ \A q \in Pollers \ {p} : item[q][t].pc \notin Moving
<1>1. /\ row[t].status \in Terminal /\ row[t].quota = sub[t].final
      /\ item[p][t].copy.quota = sub[t].final
  BY DEF Books, CopiesFollow
<1>2. \A q \in Pollers \ {p} : item[q][t].pc \notin Moving
  BY DEF Books, OneMover
<1>q. QED
  BY <1>1, <1>2

\* The types of what a pass that moves quota uses.
LEMMA MoverTypes ==
  ASSUME IInv, NEW p \in Pollers, NEW t \in Tasks, item[p][t].pc # "none"
  PROVE  /\ item[p][t] \in Item /\ item[p][t].target \in Nat
         /\ item[p][t].target - item[p][t].copy.quota \in Int
         /\ sub[t].final \in Nat /\ Taken(t) \in Nat
         /\ paid[t]["fund"] \in Int /\ paid[t]["token"] \in Int
         /\ row[t].status # "none"
<1>1. item[p][t] \in Item /\ item[p][t].copy \in Row /\ sub[t] \in Handler
      /\ Taken(t) \in Nat /\ paid[t]["fund"] \in Int /\ paid[t]["token"] \in Int
  BY TaskTypes DEF IInv
<1>2. item[p][t].target \in Nat /\ item[p][t].copy.quota \in Nat
      /\ sub[t].final \in Nat
  BY <1>1 DEF Handler, Item, Row
<1>q. QED
  BY <1>1, <1>2, CopiedExists

\* The funding source is adjusted by the difference between the two quotas; a
\* refusal is never one of a refund.
LEMMA AdjustFundingKeeps ==
  ASSUME IInv, NEW p \in Pollers, NEW t \in Tasks, AdjustFunding(p, t)
  PROVE  IInv'
<1> DEFINE i == item[p][t]
           delta == i.target - i.copy.quota
<1>0. TypeOK /\ Consistent(t) /\ left \in 0..SubTotal
  BY DEF IInv
<1>1. i.pc = "fund" /\ UNCHANGED <<Submission, row, Passing>>
  BY DEF AdjustFunding
<1>2. /\ i \in Item /\ i.target \in Nat /\ delta \in Int
      /\ sub[t].final \in Nat /\ Taken(t) \in Nat
      /\ paid[t]["fund"] \in Int /\ paid[t]["token"] \in Int
      /\ row[t].status # "none"
  BY <1>1, MoverTypes
<1>3. row' = row /\ row' \in [Tasks -> Row]
  BY <1>0, <1>1 DEF TypeOK
<1>4. ASSUME t \notin fetched
      PROVE  /\ Books(t) /\ delta = i.target - sub[t].final
             /\ row[t].status \in Terminal /\ row[t].quota = sub[t].final
             /\ i.copy.quota = sub[t].final
             /\ \A q \in Pollers \ {p} : item[q][t].pc \notin Moving
             /\ ~sub[t].short => /\ paid[t]["fund"] = Taken(t)
                                 /\ paid[t]["token"] = Taken(t)
  <2>1. Books(t)
    BY <1>0, <1>4 DEF Consistent
  <2>2. ~sub[t].short => paid[t]["fund"] = Taken(t) /\ paid[t]["token"] = Taken(t)
    BY <1>1, <2>1 DEF Books, MovesTracked
  <2>q. QED
    BY <1>1, <2>1, <2>2, MoverFacts
<1>6. CASE Chargeable(t, delta) /\ Charge(t, delta, 0) /\ NoFault
           /\ SetItem(p, t, [i EXCEPT !.pc = "token"])
  <2> DEFINE j == [i EXCEPT !.pc = "token"]
  <2>1. j \in Item /\ j.pc = "token" /\ j.target = i.target /\ j.copy = i.copy
    BY <1>2 DEF Item
  <2>0. SetItem(p, t, j)
    BY <1>6
  <2> HIDE DEF j
  <2>2. /\ paid' \in [Tasks -> [{"fund", "token"} -> Int]]
        /\ paid'[t]["fund"] = paid[t]["fund"] + delta
        /\ paid'[t]["token"] = paid[t]["token"] + 0
        /\ \A u \in Tasks \ {t} : paid'[u] = paid[u]
        /\ left' \in 0..SubTotal
    BY <1>0, <1>2, <1>6, ChargeEffect
  <2>3. /\ TypeOK' /\ ((t \notin fetched => Books(t)') => IInv')
        /\ item'[p][t] = j
        /\ \A q \in Pollers \ {p} : item'[q][t] = item[q][t]
        /\ kind' = kind /\ sub' = sub /\ get' = get /\ orphaned' = orphaned
    BY <1>1, <1>2, <1>3, <1>6, <2>0, <2>1, <2>2, WorkTypes
  <2> SUFFICES ASSUME t \notin fetched PROVE Books(t)'
    BY <2>3
  <2>4. /\ item'[p][t].pc = "token" /\ item'[p][t].target = i.target
        /\ item'[p][t].copy = i.copy /\ Taken(t)' = Taken(t)
        /\ \A q \in Pollers : item'[q][t].pc \in Moving => q = p
        /\ ~Quiet(t)'
    BY <1>4, <2>1, <2>3 DEF Taken, Quiet
  <2>5. RowFollows(t)'
    BY <1>3, <1>4, <2>3 DEF Books, RowFollows
  <2>a. CopiesFollow(t)'
    BY <1>1, <1>3, <1>4, <2>3, <2>4 DEF Books, CopiesFollow
  <2>b. OneMover(t)'
    BY <1>3, <1>4, <2>3, <2>4 DEF Books, OneMover
  <2>6. CopiesFollow(t)' /\ OneMover(t)'
    BY <2>a, <2>b
  <2>7. MovesTracked(t)'
    BY <1>2, <1>3, <1>4, <2>2, <2>3, <2>4 DEF MovesTracked
  <2>8. ReturnsAll(t)'
    BY <1>1, <1>3, <1>4, <2>3, <2>4 DEF Books, ReturnsAll
  <2>q. QED
    BY <2>5, <2>6, <2>7, <2>8 DEF Books
<1>7. CASE ~Chargeable(t, delta) /\ SetItem(p, t, NoItem) /\ UNCHANGED Billing
           /\ NoFault
  <2>1. paid' = paid /\ left' = left /\ left' \in 0..SubTotal
        /\ paid' \in [Tasks -> [{"fund", "token"} -> Int]]
    BY <1>7 DEF Billing, IInv, TypeOK
  <2>2. /\ TypeOK' /\ ((t \notin fetched => Books(t)') => IInv')
        /\ item'[p][t] = NoItem
        /\ \A q \in Pollers \ {p} : item'[q][t] = item[q][t]
        /\ kind' = kind /\ sub' = sub /\ get' = get /\ orphaned' = orphaned
    BY <1>1, <1>2, <1>3, <1>7, <2>1, NoItemType, WorkTypes
  <2> SUFFICES ASSUME t \notin fetched PROVE Books(t)'
    BY <2>2
  <2>3. /\ item'[p][t].pc = "none" /\ Taken(t)' = Taken(t)
        /\ \A q \in Pollers : item'[q][t].pc \notin Moving
    BY <1>4, <2>2 DEF NoItem, Taken
  <2>4. RowFollows(t)'
    BY <1>3, <1>4, <2>2 DEF Books, RowFollows
  <2>5. CopiesFollow(t)' /\ OneMover(t)'
    BY <1>3, <1>4, <2>2, <2>3 DEF Books, CopiesFollow, OneMover
  <2>6. MovesTracked(t)'
    BY <1>2, <1>3, <1>4, <2>1, <2>2, <2>3 DEF MovesTracked
  <2>7. delta > 0
    BY <1>0, <1>2, <1>7, TaskAssumption DEF Chargeable
  <2>8. ReturnsAll(t)'
    <3>1. ~(row[t].status = "FAILURE" /\ kind[t].pricing # "usage"
            /\ t \notin orphaned)
      BY <1>1, <1>2, <1>4, <2>7 DEF Books, ReturnsAll
    <3>q. QED
      BY <1>3, <2>2, <3>1 DEF ReturnsAll
  <2>q. QED
    BY <2>4, <2>5, <2>6, <2>8 DEF Books
<1>8. CASE SetItem(p, t, NoItem) /\ UNCHANGED Billing /\ Fault(t)
  BY <1>1, <1>3, <1>8, DropKeeps
<1>q. QED
  BY <1>6, <1>7, <1>8 DEF AdjustFunding

\* The token follows, or is left behind with the mark of the failed call.
LEMMA AdjustTokenKeeps ==
  ASSUME IInv, NEW p \in Pollers, NEW t \in Tasks, AdjustToken(p, t)
  PROVE  IInv'
<1> DEFINE i == item[p][t]
           delta == i.target - i.copy.quota
           j == [i EXCEPT !.pc = "write"]
<1>0. TypeOK /\ Consistent(t) /\ left \in 0..SubTotal
  BY DEF IInv
<1>1. i.pc = "token" /\ UNCHANGED <<Submission, row, Passing>>
      /\ SetItem(p, t, j)
  BY DEF AdjustToken
<1>2. /\ i \in Item /\ i.target \in Nat /\ delta \in Int
      /\ sub[t].final \in Nat /\ Taken(t) \in Nat
      /\ paid[t]["fund"] \in Int /\ paid[t]["token"] \in Int
      /\ row[t].status # "none"
  BY <1>1, MoverTypes
<1>4. row' = row /\ row' \in [Tasks -> Row]
  BY <1>0, <1>1 DEF TypeOK
<1>6. j \in Item /\ j.pc = "write" /\ j.target = i.target /\ j.copy = i.copy
  BY <1>2 DEF Item
<1> HIDE DEF j
<1>7. /\ paid' \in [Tasks -> [{"fund", "token"} -> Int]]
      /\ paid'[t]["fund"] = paid[t]["fund"]
      /\ \/ paid'[t]["token"] = paid[t]["token"] + delta /\ NoFault
         \/ paid'[t]["token"] = paid[t]["token"] /\ Fault(t)
      /\ \A u \in Tasks \ {t} : paid'[u] = paid[u]
      /\ left' \in 0..SubTotal
  <2>1. CASE Charge(t, 0, delta) /\ NoFault
    <3>1. Chargeable(t, 0)
      BY <1>0, TaskAssumption DEF Chargeable
    <3>2. paid'[t]["fund"] = paid[t]["fund"] + 0
      BY <1>0, <1>2, <2>1, <3>1, ChargeEffect
    <3>q. QED
      BY <1>0, <1>2, <2>1, <3>1, <3>2, ChargeEffect
  <2>2. CASE UNCHANGED Billing /\ Fault(t)
    BY <1>0, <2>2 DEF Billing, TypeOK
  <2>q. QED
    BY <2>1, <2>2 DEF AdjustToken
<1>8. /\ TypeOK' /\ ((t \notin fetched => Books(t)') => IInv')
      /\ item'[p][t] = j
      /\ \A q \in Pollers \ {p} : item'[q][t] = item[q][t]
      /\ kind' = kind /\ sub' = sub /\ get' = get /\ orphaned' = orphaned
      /\ (Fault(t) => t \notin clean')
  BY <1>1, <1>2, <1>4, <1>6, <1>7, WorkTypes
<1> SUFFICES ASSUME t \notin fetched PROVE Books(t)'
  BY <1>8
<1>b. Books(t)
  BY <1>0 DEF Consistent
<1>3. /\ row[t].status \in Terminal /\ row[t].quota = sub[t].final
      /\ i.copy.quota = sub[t].final
      /\ \A q \in Pollers \ {p} : item[q][t].pc \notin Moving
  BY <1>b, <1>1, MoverFacts
<1>5. ~sub[t].short => /\ paid[t]["fund"] = Taken(t) + i.target - sub[t].final
                       /\ paid[t]["token"] = Taken(t)
  BY <1>b, <1>1 DEF Books, MovesTracked
<1>9. /\ item'[p][t].pc = "write" /\ item'[p][t].target = i.target
      /\ item'[p][t].copy = i.copy /\ Taken(t)' = Taken(t)
      /\ \A q \in Pollers : item'[q][t].pc \in Moving => q = p
      /\ ~Quiet(t)'
  BY <1>3, <1>6, <1>8 DEF Taken, Quiet
<1>10. RowFollows(t)'
  BY <1>b, <1>4, <1>8 DEF Books, RowFollows
<1>11. CopiesFollow(t)' /\ OneMover(t)'
  BY <1>b, <1>1, <1>3, <1>4, <1>8, <1>9 DEF Books, CopiesFollow, OneMover
<1>12. MovesTracked(t)'
  <2>1. ~sub[t].short =>
          /\ paid'[t]["fund"] = Taken(t) + i.target - sub[t].final
          /\ paid'[t]["token"] + sub[t].final >= Taken(t)
          /\ t \in clean' =>
               paid'[t]["token"] = Taken(t) + i.target - sub[t].final
    BY <1>2, <1>3, <1>5, <1>7, <1>8
  <2>q. QED
    BY <1>2, <1>3, <1>4, <1>8, <1>9, <2>1 DEF MovesTracked
<1>13. ReturnsAll(t)'
  BY <1>b, <1>1, <1>4, <1>8, <1>9 DEF Books, ReturnsAll
<1>q. QED
  BY <1>10, <1>11, <1>12, <1>13 DEF Books

\* The row's quota becomes what the task ended with, after both accounts.
LEMMA UpdateQuotaKeeps ==
  ASSUME IInv, NEW p \in Pollers, NEW t \in Tasks, UpdateQuota(p, t)
  PROVE  IInv'
<1> DEFINE n == item[p][t].target
<1>0. TypeOK /\ Consistent(t)
  BY DEF IInv
<1>1. item[p][t].pc = "write" /\ SetItem(p, t, NoItem)
      /\ UNCHANGED <<Submission, Billing, Passing>>
  BY DEF UpdateQuota
<1>2. CASE Fault(t) /\ UNCHANGED row
  BY <1>1, <1>2, DropKeeps
<1>3. CASE row' = [row EXCEPT ![t].quota = n] /\ NoFault
  <2>1. /\ n \in Nat /\ sub[t].final \in Nat /\ Taken(t) \in Nat
        /\ paid[t]["fund"] \in Int /\ paid[t]["token"] \in Int
        /\ row[t].status # "none"
    BY <1>1, MoverTypes
  <2>2. row' \in [Tasks -> Row] /\ row'[t].quota = n
        /\ row'[t].status = row[t].status
        /\ \A u \in Tasks \ {t} : row'[u] = row[u]
    <3>1. row \in [Tasks -> Row] /\ row' = [row EXCEPT ![t].quota = n] /\ n \in Nat
      BY <1>0, <1>3, <2>1 DEF TypeOK
    <3> HIDE DEF n
    <3>2. [row[t] EXCEPT !.quota = n] \in Row
      BY <3>1 DEF Row
    <3>3. [row[t] EXCEPT !.quota = n].quota = n /\ [row[t] EXCEPT !.quota = n].status = row[t].status
      BY <3>1 DEF Row
    <3>q. QED
      BY <3>1, <3>2, <3>3
  <2>3. paid' = paid /\ left' = left /\ left' \in 0..SubTotal
        /\ paid' \in [Tasks -> [{"fund", "token"} -> Int]]
    BY <1>1 DEF Billing, IInv, TypeOK
  <2>4. /\ TypeOK' /\ ((t \notin fetched => Books(t)') => IInv')
        /\ item'[p][t] = NoItem
        /\ \A q \in Pollers \ {p} : item'[q][t] = item[q][t]
        /\ kind' = kind /\ sub' = sub /\ get' = get /\ orphaned' = orphaned
        /\ clean' \subseteq clean
    BY <1>1, <1>3, <2>1, <2>2, <2>3, NoItemType, WorkTypes
  <2> SUFFICES ASSUME t \notin fetched PROVE Books(t)'
    BY <2>4
  <2>b. Books(t)
    BY <1>0 DEF Consistent
  <2>m. /\ row[t].status \in Terminal /\ row[t].quota = sub[t].final
        /\ \A q \in Pollers \ {p} : item[q][t].pc \notin Moving
    BY <1>1, <2>b, MoverFacts
  <2>5. /\ item'[p][t].pc = "none" /\ Taken(t)' = Taken(t)
        /\ \A q \in Pollers : item'[q][t].pc \notin Moving
    BY <2>m, <2>4 DEF NoItem, Taken
  <2>6. RowFollows(t)'
    BY <2>m, <2>2 DEF RowFollows
  <2>7. CopiesFollow(t)' /\ OneMover(t)'
    BY <2>b, <2>2, <2>4, <2>5 DEF Books, CopiesFollow, OneMover
  <2>8. MovesTracked(t)'
    <3>1. ~sub[t].short =>
            /\ paid[t]["fund"] = Taken(t) + n - sub[t].final
            /\ paid[t]["token"] + sub[t].final >= Taken(t)
            /\ t \in clean => paid[t]["token"] = Taken(t) + n - sub[t].final
      BY <2>b, <1>1 DEF Books, MovesTracked
    <3>q. QED
      BY <2>1, <2>m, <2>2, <2>3, <2>4, <2>5, <3>1 DEF MovesTracked
  <2>9. ReturnsAll(t)'
    BY <2>b, <1>1, <2>2, <2>4, <2>5 DEF Books, ReturnsAll
  <2>q. QED
    BY <2>6, <2>7, <2>8, <2>9 DEF Books
<1>q. QED
  BY <1>2, <1>3 DEF UpdateQuota

-----------------------------------------------------------------------------
(* A user's GET.                                                           *)

\* What a GET leaves alone.
LEMMA QuietlyKeeps ==
  ASSUME UNCHANGED Quietly
  PROVE  /\ kind' = kind /\ sub' = sub /\ paid' = paid /\ left' = left
         /\ mode' = mode /\ item' = item /\ aged' = aged
         /\ orphaned' = orphaned
  BY DEF Quietly, Submission, Billing

\* A GET that changes its own copy and the row of t keeps the invariant if it
\* keeps t consistent.
LEMMA FetchTypes ==
  ASSUME IInv, NEW c \in Clients, NEW t \in Tasks, NEW i \in Item,
         SetGet(c, t, i),
         gets' \in 0..MaxGets, UNCHANGED Quietly, NoFault,
         row' \in [Tasks -> Row], \A u \in Tasks \ {t} : row'[u] = row[u],
         fetched' \in {fetched, fetched \cup {t}},
         row[t].status # "none", row'[t].status # "none"
  PROVE  /\ (t \notin fetched' => Books(t)') => IInv'
         /\ get'[c][t] = i
         /\ \A d \in Clients \ {c} : get'[d][t] = get[d][t]
<1>0. TypeOK /\ Consistent(t) /\ left \in 0..SubTotal
  BY DEF IInv
<1>1. /\ kind' = kind /\ sub' = sub /\ paid' = paid /\ left' = left
      /\ mode' = mode /\ item' = item /\ aged' = aged
      /\ orphaned' = orphaned /\ clean' = clean /\ faults' = faults
  BY QuietlyKeeps DEF NoFault
<1>2. [get[c] EXCEPT ![t] = i] \in [Tasks -> Item]
  BY <1>0 DEF TypeOK
<1>3. /\ get' \in [Clients -> [Tasks -> Item]] /\ get'[c][t] = i
      /\ \A d \in Clients, u \in Tasks :
            d # c \/ u # t => get'[d][u] = get[d][u]
  BY <1>0, <1>2 DEF TypeOK, SetGet
<1>4. fetched' \subseteq Tasks
      /\ \A u \in Tasks \ {t} : u \in fetched' <=> u \in fetched
  BY <1>0 DEF TypeOK
<1>5. TypeOK'
  BY <1>0, <1>1, <1>3, <1>4 DEF TypeOK
<1>6. \A u \in Tasks \ {t} : Same(u)
  BY <1>1, <1>3, <1>4 DEF Same
<1>7. RowExists(t)'
  BY <1>0, <1>1, ExistsKeeps DEF Consistent
<1>8. (t \notin fetched' => Books(t)') => IInv'
  BY <1>0, <1>1, <1>5, <1>6, <1>7, StepKeeps DEF Consistent
<1>q. QED
  BY <1>3, <1>8

\* A GET reads or forgets a row: the copy it takes of an unfinished row has the
\* first quota.
LEMMA GetReadsKeeps ==
  ASSUME IInv, NEW c \in Clients, NEW t \in Tasks, Get(c, t) \/ GetDrop(c, t)
  PROVE  IInv'
<1> DEFINE i == IF Get(c, t) THEN Fresh(t) ELSE NoItem
<1>0. TypeOK /\ Consistent(t)
  BY DEF IInv
<1>1. /\ i \in Item /\ SetGet(c, t, i)
      /\ i.pc = "loaded" => i.copy = row[t]
  <2>1. CASE Get(c, t)
    BY <1>0, <2>1, TaskTypes, FreshFields DEF Get, Fresh, Item
  <2>2. CASE ~Get(c, t)
    <3>1. GetDrop(c, t) /\ i = NoItem
      BY <2>2
    <3>q. QED
      BY <3>1, NoItemType, FreshFields DEF GetDrop
  <2>q. QED
    BY <2>1, <2>2
<1> HIDE DEF i
<1>2. /\ row' = row /\ fetched' = fetched /\ UNCHANGED Quietly /\ NoFault
      /\ gets' \in 0..MaxGets
  BY <1>0, TaskAssumption DEF Get, GetDrop, TypeOK
<1>3. row[t].status # "none"
  BY <1>0 DEF Get, GetDrop, Consistent, RowExists
<1>4. /\ (t \notin fetched' => Books(t)') => IInv'
      /\ get'[c][t] = i
      /\ \A d \in Clients \ {c} : get'[d][t] = get[d][t]
  BY <1>0, <1>1, <1>2, <1>3, FetchTypes DEF TypeOK
<1>5. /\ kind' = kind /\ sub' = sub /\ paid' = paid /\ item' = item
      /\ orphaned' = orphaned /\ clean' = clean
  BY <1>2, QuietlyKeeps DEF NoFault
<1> SUFFICES ASSUME t \notin fetched PROVE Books(t)'
  BY <1>2, <1>4
<1>b. Books(t)
  BY <1>0 DEF Consistent
<1>6. RowFollows(t)' /\ OneMover(t)'
  BY <1>b, <1>2, <1>5 DEF Books, RowFollows, OneMover
<1>7. CopiesFollow(t)'
  BY <1>b, <1>1, <1>2, <1>4, <1>5 DEF Books, CopiesFollow, RowFollows
<1>8. Taken(t)' = Taken(t) /\ (Quiet(t)' <=> Quiet(t))
  BY <1>5 DEF Taken, Quiet
<1>9. MovesTracked(t)' /\ ReturnsAll(t)'
  BY <1>b, <1>2, <1>5, <1>8 DEF Books, MovesTracked, ReturnsAll
<1>q. QED
  BY <1>6, <1>7, <1>9 DEF Books

\* An answer keeps the quota and the failures of the copy.
LEMMA AnsweredFields ==
  ASSUME NEW copy \in Row, NEW new \in Answered(copy)
  PROVE  /\ new \in Row /\ new.quota = copy.quota /\ new.fails = copy.fails
         /\ new.status \in Unfinished \cup Terminal
  BY DEF Answered, Ended, Row

\* A GET that stores an unfinished state over an unfinished row writes the
\* quota of the insertion; any other change marks the task.
LEMMA GetStoresKeeps ==
  ASSUME IInv, NEW c \in Clients, NEW t \in Tasks, GetStores(c, t)
  PROVE  IInv'
<1> DEFINE copy == get[c][t].copy
<1>0. TypeOK /\ Consistent(t)
  BY DEF IInv
<1>1. /\ get[c][t].pc = "loaded" /\ row[t].status = copy.status
      /\ UNCHANGED Quietly /\ NoFault /\ gets' = gets
      /\ SetGet(c, t, NoItem)
  BY DEF GetStores
<1>2. PICK new \in Answered(copy) :
        /\ row' = [row EXCEPT ![t] = new]
        /\ fetched' = IF /\ new # row[t]
                         /\ {row[t].status, new.status} \cap Terminal # {}
                      THEN fetched \cup {t} ELSE fetched
  BY DEF GetStores
<1>3. /\ new \in Row /\ new.quota = copy.quota /\ new.fails = copy.fails
      /\ new.status \in Unfinished \cup Terminal
  BY <1>0, TaskTypes, AnsweredFields
<1>4. row' \in [Tasks -> Row] /\ row'[t] = new
      /\ \A u \in Tasks \ {t} : row'[u] = row[u]
  BY <1>0, <1>2, <1>3 DEF TypeOK
<1>5. row[t].status # "none" /\ row[t] \in Row
  BY <1>0, <1>1, TaskTypes DEF Consistent, RowExists
<1>6. /\ (t \notin fetched' => Books(t)') => IInv'
      /\ get'[c][t] = NoItem
      /\ \A d \in Clients \ {c} : get'[d][t] = get[d][t]
  <2>1. fetched' \in {fetched, fetched \cup {t}} /\ gets' \in 0..MaxGets
        /\ new.status # "none"
    BY <1>0, <1>1, <1>2, <1>3 DEF TypeOK
  <2>q. QED
    BY <1>1, <1>4, <1>5, <2>1, NoItemType, FetchTypes
<1>7. /\ kind' = kind /\ sub' = sub /\ paid' = paid /\ item' = item
      /\ orphaned' = orphaned /\ clean' = clean
  BY <1>1, QuietlyKeeps DEF NoFault
<1> SUFFICES ASSUME t \notin fetched' PROVE Books(t)'
  BY <1>6
<1>b. Books(t)
  BY <1>0, <1>2 DEF Consistent
<1>8. Taken(t)' = Taken(t) /\ (Quiet(t)' <=> Quiet(t)) /\ NoItem.pc = "none"
  BY <1>7 DEF Taken, Quiet, NoItem
<1>9. CASE new = row[t]
  <2>1. row'[t] = row[t]
    BY <1>4, <1>9
  <2>2. RowFollows(t)' /\ OneMover(t)'
    BY <1>b, <2>1, <1>7 DEF Books, RowFollows, OneMover
  <2>3. CopiesFollow(t)'
    BY <1>b, <2>1, <1>6, <1>7, <1>8 DEF Books, CopiesFollow
  <2>4. MovesTracked(t)' /\ ReturnsAll(t)'
    BY <1>b, <2>1, <1>7, <1>8 DEF Books, MovesTracked, ReturnsAll
  <2>q. QED
    BY <2>2, <2>3, <2>4 DEF Books
<1>10. CASE row[t].status \in Unfinished /\ new.status \in Unfinished
  <2>1. new.quota = sub[t].final /\ new.fails < MaxPollFailures
    BY <1>b, <1>1, <1>3, <1>10 DEF Books, CopiesFollow
  <2>2. \A p \in Pollers : item[p][t].pc \notin Moving
    BY <1>b, <1>10 DEF Books, CopiesFollow
  <2>3. RowFollows(t)' /\ OneMover(t)'
    BY <1>b, <2>1, <1>4, <1>7 DEF Books, RowFollows, OneMover
  <2>4. CopiesFollow(t)'
    BY <1>b, <2>2, <1>6, <1>7, <1>8 DEF Books, CopiesFollow
  <2>5. MovesTracked(t)'
    BY <1>b, <2>2, <1>4, <1>7, <1>8, <1>10 DEF Books, MovesTracked
  <2>6. ReturnsAll(t)'
    BY <1>4, <1>10 DEF ReturnsAll
  <2>q. QED
    BY <2>3, <2>4, <2>5, <2>6 DEF Books
<1>q. QED
  BY <1>2, <1>3, <1>5, <1>9, <1>10 DEF Row

-----------------------------------------------------------------------------
(* The theorems.                                                           *)

\* Before any submission every task is consistent.
LEMMA InitEstablishes == Init => IInv
<1> SUFFICES ASSUME Init PROVE IInv
  OBVIOUS
<1>1. TypeOK
  <2>1. [pc |-> "idle", pre |-> 0, final |-> 0, first |-> "SUBMITTED",
         full |-> FALSE, short |-> FALSE] \in Handler
    BY DEF Handler
  <2>q. QED
    BY <2>1, NoItemType, TaskAssumption DEF Init, TypeOK
<1>2. ASSUME NEW t \in Tasks
      PROVE  Consistent(t)
  <2>1. /\ sub[t].pc = "idle" /\ sub[t].final = 0 /\ row[t].status = "none"
        /\ paid[t]["fund"] = 0 /\ paid[t]["token"] = 0 /\ Taken(t) = 0
        /\ \A p \in Pollers : item[p][t].pc = "none"
        /\ \A c \in Clients : get[c][t].pc = "none"
        /\ t \notin fetched
    BY DEF Init, NoRow, NoItem, Taken
  <2>q. QED
    BY <2>1 DEF Consistent, RowExists, Books, RowFollows, CopiesFollow, OneMover, MovesTracked,
       ReturnsAll
<1>3. left \in 0..SubTotal
  BY TaskAssumption DEF Init
<1>4. \A p \in Pollers : Idle(p)
  BY DEF Init, Idle, NoItem
<1>q. QED
  BY <1>1, <1>2, <1>3, <1>4 DEF IInv

\* Time passing changes no row and no account.
LEMMA AgeKeeps ==
  ASSUME IInv, NEW t \in Tasks, Age(t)
  PROVE  IInv'
<1>1. /\ UNCHANGED <<kind, sub, row, paid, left, mode, item, get, gets, fetched,
                     orphaned, clean, faults>>
      /\ aged' \subseteq Tasks
  BY DEF Age, NoFault, Submission, Billing, Reading, IInv, TypeOK
<1>2. TypeOK'
  BY <1>1 DEF IInv, TypeOK
<1>3. \A u \in Tasks : Same(u)
  BY <1>1 DEF Same
<1>4. \A u \in Tasks : Consistent(u)'
  BY <1>3, SameKeeps DEF IInv
<1>q. QED
  BY <1>1, <1>2, <1>4 DEF IInv, Idle

\* The handler's steps keep the invariant.
LEMMA SubmitKeeps ==
  ASSUME IInv, NEW t \in Tasks, Submit(t)
  PROVE  IInv'
  BY PreConsumeKeeps, ReserveKeeps, SubmitFailsKeeps, SubmitSucceedsKeeps,
     SettleKeeps, InsertKeeps DEF Submit

\* A pass's steps on one task keep the invariant.
LEMMA WorkKeeps ==
  ASSUME IInv, NEW p \in Pollers, NEW t \in Tasks, Work(p, t)
  PROVE  IInv'
  BY SweepTaskKeeps, PollProgressKeeps, PollSkippedKeeps, PollTerminalKeeps,
     PollErrorKeeps, BulkFailKeeps, AdjustFundingKeeps, AdjustTokenKeeps,
     UpdateQuotaKeeps DEF Work

\* Every step keeps the invariant.
LEMMA NextKeeps == IInv /\ [Next]_vars => IInv'
<1> SUFFICES ASSUME IInv, [Next]_vars PROVE IInv'
  OBVIOUS
<1>0. ASSUME NEW c \in Clients, NEW t \in Tasks, Fetch(c, t)
      PROVE  IInv'
  BY <1>0, GetReadsKeeps, GetStoresKeeps DEF Fetch
<1>1. ASSUME NEW t \in Tasks, Submit(t) \/ Age(t)
      PROVE  IInv'
  BY <1>1, SubmitKeeps, AgeKeeps
<1>2. ASSUME NEW p \in Pollers, Poll(p)
      PROVE  IInv'
  BY <1>2, StartPassKeeps, LoadUnfinishedKeeps, EndPassKeeps, WorkKeeps DEF Poll
<1>3. ASSUME NEW p \in Pollers, Cancel(p) \/ Crash(p)
      PROVE  IInv'
  BY <1>3, CancelKeeps, CrashKeeps
<1>4. CASE UNCHANGED vars
  <2>1. TypeOK'
    BY <1>4 DEF IInv, TypeOK, vars
  <2>2. \A u \in Tasks : Consistent(u)'
    BY <1>4, SameKeeps DEF IInv, Same, vars
  <2>q. QED
    BY <1>4, <2>1, <2>2 DEF IInv, Idle, vars
<1>q. QED
  BY <1>0, <1>1, <1>2, <1>3, <1>4 DEF Next, Terminating

\* The inductive invariant holds in every reachable state: rows, copies and
\* accounts of a task stay consistent under any overlap of handlers, passes and
\* GETs, until a GET ends the task or changes its ended row.
THEOREM Inductive == Spec => []IInv
<1>q. QED
  BY InitEstablishes, NextKeeps, PTL DEF Spec

\* recordPollFailure ends a task in time, however many passes count its
\* failures on stale copies.
THEOREM FailuresAreBounded == Spec => []FailureLimit
<1>1. IInv => FailureLimit
  BY DEF IInv, Consistent, Books, RowFollows, FailureLimit
<1>q. QED
  BY <1>1, Inductive, PTL

\* Once a task is settled and nobody moves its quota, the row says what both
\* accounts were charged (RefundTaskQuota and RecalculateTaskQuota write it
\* last), whatever stale copies passes and GETs wrote before.
THEOREM RowsSayTheCharge == Spec => []QuotaIsCharge
<1>1. IInv => QuotaIsCharge
  <2> SUFFICES ASSUME IInv, NEW t \in Tasks, Settled(t), Quiet(t), t \in clean,
                      t \notin fetched, NEW a \in {"fund", "token"}
               PROVE  paid[t][a] = row[t].quota
    BY DEF QuotaIsCharge
  <2>1. TypeOK /\ RowExists(t) /\ Books(t)
    BY DEF IInv, Consistent
  <2>2. Taken(t) = sub[t].final /\ sub[t].final \in Nat /\ row[t] \in Row
    BY <2>1, TaskTypes DEF Settled, Taken, Handler
  <2>3. row[t].status # "none"
    BY <2>1 DEF Settled, RowExists
  <2>4. CASE row[t].status \in Unfinished
    BY <2>1, <2>2, <2>4 DEF Settled, Books, RowFollows, MovesTracked
  <2>5. CASE row[t].status \in Terminal
    BY <2>1, <2>2, <2>5 DEF Settled, Books, MovesTracked, Row
  <2>q. QED
    BY <2>2, <2>3, <2>4, <2>5 DEF Row
<1>q. QED
  BY <1>1, Inductive, PTL

\* No interleaving of passes, failed call or crash lets RefundTaskQuota return
\* more than was taken for a task whose end no GET touched.
THEOREM RefundsAreBounded == Spec => []NoOverRefund
<1>1. IInv => NoOverRefund
  <2> SUFFICES ASSUME IInv, NEW t \in Tasks, NEW a \in {"fund", "token"},
                      Settled(t), t \notin fetched
               PROVE  paid[t][a] >= 0
    BY DEF NoOverRefund
  <2>1. TypeOK /\ Books(t)
    BY DEF IInv, Consistent
  <2>2. Taken(t) = sub[t].final /\ sub[t].final \in Nat
        /\ paid[t]["fund"] \in Int /\ paid[t]["token"] \in Int
    BY <2>1, TaskTypes DEF Settled, Taken, Handler
  <2>q. QED
    BY <2>1, <2>2 DEF Settled, Books, MovesTracked
<1>q. QED
  BY <1>1, Inductive, PTL

\* A task that a pass failed and that is not billed by usage has been returned
\* in full when the pass is done, unless the pass did not find its channel or a
\* GET touched its end.
THEOREM FailuresAreRefunded == Spec => []FailureIsRefunded
<1>1. IInv => FailureIsRefunded
  <2> SUFFICES ASSUME IInv, NEW t \in Tasks,
                      row[t].status = "FAILURE", kind[t].pricing # "usage",
                      Settled(t), Quiet(t), t \in clean, t \notin orphaned,
                      t \notin fetched
               PROVE  paid[t] = [a \in {"fund", "token"} |-> 0]
    BY DEF FailureIsRefunded
  <2>1. TypeOK /\ Books(t)
    BY DEF IInv, Consistent
  <2>2. Taken(t) = sub[t].final /\ sub[t].final \in Nat
        /\ paid[t] \in [{"fund", "token"} -> Int]
    BY <2>1, TaskTypes DEF Settled, Taken, Handler, TypeOK
  <2>3. row[t].quota = 0
    BY <2>1 DEF Books, ReturnsAll
  <2>4. paid[t]["fund"] = 0 /\ paid[t]["token"] = 0
    BY <2>1, <2>2, <2>3 DEF Settled, Books, MovesTracked
  <2>q. QED
    BY <2>2, <2>4
<1>q. QED
  BY <1>1, Inductive, PTL

\* The outcome of t is the same after the step, unless a GET changed it or the
\* channel was not found.
KeepsOutcome(t) ==
    row[t].status \in Terminal /\ t \notin fetched' /\ t \notin orphaned' =>
        row'[t].status = row[t].status

\* A stale copy of a pass does not win over an ended row.
LEMMA UpdateKeepsOutcome ==
  ASSUME IInv, NEW p \in Pollers, NEW t \in Tasks, NEW new,
         item[p][t].pc = "loaded", UpdateWithStatus(p, t, new),
         fetched' = fetched
  PROVE  \A u \in Tasks : KeepsOutcome(u)
<1>1. t \notin fetched /\ Won(p, t) => row[t].status \notin Terminal
  BY WonFacts DEF IInv, Consistent
<1>q. QED
  BY <1>1 DEF UpdateWithStatus, KeepsOutcome, IInv, TypeOK

\* The steps of a pass on a task keep every outcome.
LEMMA WorkKeepsOutcome ==
  ASSUME IInv, NEW p \in Pollers, NEW t \in Tasks, Work(p, t)
  PROVE  \A u \in Tasks : KeepsOutcome(u)
<1>1. CASE row' = row
  BY <1>1 DEF KeepsOutcome
<1>2. ASSUME NEW new, item[p][t].pc = "loaded", UpdateWithStatus(p, t, new),
             UNCHANGED Passing
      PROVE  \A u \in Tasks : KeepsOutcome(u)
  BY <1>2, UpdateKeepsOutcome DEF Passing, Reading
<1>3. CASE SweepTask(p, t)
  BY <1>1, <1>2, <1>3 DEF SweepTask
<1>4. ASSUME NEW s, NEW f, PollProgress(p, t, s, f)
      PROVE  \A u \in Tasks : KeepsOutcome(u)
  BY <1>1, <1>2, <1>4 DEF PollProgress, Pollable
<1>5. ASSUME NEW s, NEW n, PollTerminal(p, t, s, n)
      PROVE  \A u \in Tasks : KeepsOutcome(u)
  BY <1>1, <1>2, <1>5 DEF PollTerminal, Pollable
<1>6. ASSUME NEW n, PollError(p, t, n)
      PROVE  \A u \in Tasks : KeepsOutcome(u)
  BY <1>1, <1>2, <1>6 DEF PollError, Pollable
<1>7. CASE BulkFail(p, t)
  BY <1>7 DEF BulkFail, KeepsOutcome, IInv, TypeOK
<1>8. CASE UpdateQuota(p, t)
  <2>1. CASE row' = [row EXCEPT ![t].quota = item[p][t].target]
    <3>1. \A u \in Tasks : row'[u].status = row[u].status
      BY <2>1 DEF IInv, TypeOK, Row
    <3>q. QED
      BY <3>1 DEF KeepsOutcome
  <2>q. QED
    BY <1>1, <1>8, <2>1 DEF UpdateQuota
<1>9. CASE PollSkipped(p, t) \/ AdjustFunding(p, t) \/ AdjustToken(p, t)
  BY <1>1, <1>9 DEF PollSkipped, AdjustFunding, AdjustToken
<1>q. QED
  BY <1>3, <1>4, <1>5, <1>6, <1>7, <1>8, <1>9 DEF Work

\* A GET that changes an ended row marks its task.
LEMMA FetchKeepsOutcome ==
  ASSUME IInv, NEW c \in Clients, NEW t \in Tasks, Fetch(c, t)
  PROVE  \A u \in Tasks : KeepsOutcome(u)
<1>1. CASE Get(c, t) \/ GetDrop(c, t)
  BY <1>1 DEF Get, GetDrop, KeepsOutcome
<1>2. CASE GetStores(c, t)
  BY <1>2 DEF GetStores, KeepsOutcome, IInv, TypeOK
<1>q. QED
  BY <1>1, <1>2 DEF Fetch

\* A task that ended is not ended again by a pass: the compare-and-swap of
\* UpdateWithStatus keeps a pass with an older copy from reopening or reversing
\* it.  What still does are a GET and a channel that is not found.
THEOREM OutcomesAreFinal == Spec => OutcomeIsFinal
<1>1. ASSUME IInv, [Next]_vars
      PROVE  \A t \in Tasks : KeepsOutcome(t)
  <2>1. ASSUME NEW u \in Tasks, Insert(u)
        PROVE  \A t \in Tasks : KeepsOutcome(t)
    <3>1. row[u].status = "none"
      BY <1>1, <2>1 DEF Insert, IInv, Consistent, RowExists
    <3>q. QED
      BY <1>1, <2>1, <3>1 DEF Insert, KeepsOutcome, IInv, TypeOK
  <2>2. CASE row' = row
    BY <2>2 DEF KeepsOutcome
  <2>3. ASSUME NEW u \in Tasks, Submit(u)
        PROVE  \A t \in Tasks : KeepsOutcome(t)
    BY <2>1, <2>2, <2>3 DEF Submit, PreConsume, Reserve, SubmitFails,
       SubmitSucceeds, Settle
  <2>4. ASSUME NEW p \in Pollers, Poll(p)
        PROVE  \A t \in Tasks : KeepsOutcome(t)
    BY <2>2, <2>4, <1>1, WorkKeepsOutcome DEF Poll, StartPass, LoadUnfinished,
       EndPass
  <2>5. ASSUME NEW p \in Pollers, Cancel(p) \/ Crash(p)
        PROVE  row' = row
    BY <2>5 DEF Cancel, Crash
  <2>6. ASSUME NEW u \in Tasks, Age(u)
        PROVE  row' = row
    BY <2>6 DEF Age
  <2>7. CASE UNCHANGED vars
    BY <2>2, <2>7 DEF vars
  <2>q. QED
    BY <1>1, <2>2, <2>3, <2>4, <2>5, <2>6, <2>7, FetchKeepsOutcome
       DEF Next, Terminating
<1>2. IInv /\ [Next]_vars =>
        [\A t \in Tasks :
            row[t].status \in Terminal /\ t \notin fetched' /\ t \notin orphaned'
            => row'[t].status = row[t].status]_vars
  BY <1>1 DEF KeepsOutcome
<1>q. QED
  BY <1>2, Inductive, PTL DEF Spec, OutcomeIsFinal
=============================================================================
