---------------------------- MODULE SessionCache ----------------------------
(***************************************************************************)
(* The life of one login session in the database and in Redis              *)
(* (model/user_session.go): the row of user_sessions, the snapshot of it   *)
(* that GetUserSessionCached reads first, the calls that fill the          *)
(* snapshot, and the calls that revoke the session behind a deny fence.    *)
(* A token refresh runs two of the first kind (GetUserSessionCached, then  *)
(* RotateUserSessionRefresh), a change of the security settings one        *)
(* (AdvanceUserSessionAuthVersion): a Reader here. A logout and every      *)
(* other revocation is one of the second: a Revoker.                       *)
(*                                                                         *)
(* Time is counted down instead of up: an entry carries the ticks it has   *)
(* left in Redis, a call the ticks left until the deadline it captured,    *)
(* and Tick takes one off each, so that no clock needs a bound.            *)
(*                                                                         *)
(* Redis may fail at every call; the database may fail at every call.      *)
(***************************************************************************)
EXTENDS Integers

CONSTANTS Reader,     \* goroutines that read, rotate or advance the session
          Revoker,    \* goroutines that revoke it
          TTL,        \* userCacheTTLSeconds, in ticks
          MaxVersion  \* bound: versions an Advance may reach

ASSUME TTLAssumption == TTL \in Nat \ {0}
ASSUME VersionAssumption == MaxVersion \in Nat \ {0}

VARIABLES row,     \* the row of user_sessions
          cache,   \* the hash stored in Redis
          pc,      \* where each Reader is in its call
          call,    \* which call it runs
          seen,    \* the version of the session it holds in memory
          left,    \* ticks until the deadline it captured
          answer,  \* what its last call returned
          late,    \* ghost: the call began after the tombstone was published
          rpc, kind, fenced,  \* a Revoker: its place, its call, its version
          since,   \* ghost: ticks since the row last changed, up to TTL
          buried   \* ghost: a revocation has published its final tombstone

locals == <<call, seen, left>>
readerVars == <<pc, locals, answer, late>>
revokerVars == <<rpc, kind, fenced>>
vars == <<row, cache, readerVars, revokerVars, since, buried>>

Version == 1..MaxVersion
Deny == {"revoking", "revoked"}
Calls == {"get", "rotate", "advance"}
Kinds == {"one", "bulk", "hash"}
Snapshot == {"swap", "fill", "filled", "confirm"}  \* read as active, in hand

NoEntry == [status |-> "none", ver |-> 0, ttl |-> 0]
Entry == {NoEntry} \cup
         [status : {"active"} \cup Deny, ver : Version, ttl : 1..TTL]

Init == /\ row = [status |-> "active", ver |-> 1]
        /\ cache = NoEntry
        /\ pc = [p \in Reader |-> "idle"]
        /\ call = [p \in Reader |-> "get"]
        /\ seen = [p \in Reader |-> 1]
        /\ left = [p \in Reader |-> 0]
        /\ answer = [p \in Reader |-> "none"]
        /\ late = [p \in Reader |-> FALSE]
        /\ rpc = [v \in Revoker |-> "idle"]
        /\ kind = [v \in Revoker |-> "one"]
        /\ fenced = [v \in Revoker |-> 1]
        /\ since = 0
        /\ buried = FALSE

-----------------------------------------------------------------------------
(* writeUserSessionCache: the script Redis runs.                           *)

\* Mutant: only the version decides.
RefusedByVersion(status, ver) == cache.ver > ver

\* An active snapshot never replaces a deny state, and no snapshot replaces
\* one of a later version.
Refused(status, ver) == \/ status = "active" /\ cache.status \in Deny
                        \/ cache.ver > ver

\* A deny state lives TTL from its publication; an active snapshot until the
\* deadline its writer captured, which deletes the key when it has passed.
Stored(status, ver, ttl) ==
    IF ttl > 0 THEN [status |-> status, ver |-> ver, ttl |-> ttl] ELSE NoEntry

WriteDeny(status, ver) == cache' = Stored(status, ver, TTL)

\* The call returns and its variables are gone.
Return(p, result) == /\ pc' = [pc EXCEPT ![p] = "idle"]
                     /\ answer' = [answer EXCEPT ![p] = result]
                     /\ call' = [call EXCEPT ![p] = "get"]
                     /\ seen' = [seen EXCEPT ![p] = 1]
                     /\ left' = [left EXCEPT ![p] = 0]

Goto(p, place) == /\ pc' = [pc EXCEPT ![p] = place]
                  /\ answer' = [answer EXCEPT ![p] = "none"]

\* RevokeUserSessionByRefreshHash keeps the row locked from its read to its
\* commit; the other row writers wait.
Locked == \E v \in Revoker : kind[v] = "hash" /\ rpc[v] \in {"fence", "commit"}

-----------------------------------------------------------------------------
(* GetUserSessionCached.                                                   *)

\* Mutant: reading a deny state keeps it alive.
LookupSliding(p) ==
    /\ pc[p] = "idle"
    /\ late' = [late EXCEPT ![p] = buried]
    /\ \/ /\ cache.status = "active" /\ Return(p, "active")
          /\ UNCHANGED cache
       \/ /\ cache.status \in Deny /\ Return(p, "denied")
          /\ cache' = Stored(cache.status, cache.ver, TTL)
       \/ /\ cache.status = "none" /\ Goto(p, "miss")
          /\ UNCHANGED <<locals, cache>>
    /\ UNCHANGED <<row, revokerVars, since, buried>>

\* The cached state first. A deny tombstone never falls back.
Lookup(p) ==
    /\ pc[p] = "idle"
    /\ late' = [late EXCEPT ![p] = buried]
    /\ \/ cache.status = "active" /\ Return(p, "active")
       \/ cache.status \in Deny /\ Return(p, "denied")
       \/ cache.status = "none" /\ Goto(p, "miss") /\ UNCHANGED locals
    /\ UNCHANGED <<row, cache, revokerVars, since, buried>>

\* The Redis read fails: like a miss.
LookupFails(p) ==
    /\ pc[p] = "idle"
    /\ late' = [late EXCEPT ![p] = buried]
    /\ Goto(p, "miss")
    /\ UNCHANGED <<row, cache, locals, revokerVars, since, buried>>

\* userSessionCacheDeadline, before the row is read.
Deadline(p) ==
    /\ pc[p] = "miss"
    /\ left' = [left EXCEPT ![p] = TTL]
    /\ Goto(p, "read")
    /\ UNCHANGED <<row, cache, call, seen, late, revokerVars, since, buried>>

\* GetUserSessionBySID.
ReadRow(p) ==
    /\ pc[p] = "read"
    /\ seen' = [seen EXCEPT ![p] = row.ver]
    /\ Goto(p, IF row.status = "active" THEN "fill" ELSE "bury")
    /\ UNCHANGED <<row, cache, call, left, late, revokerVars, since, buried>>

\* The row is not active: a tombstone is left for the next reader, and an
\* error of that write is ignored.
Bury(p) ==
    /\ pc[p] = "bury"
    /\ Return(p, "denied")
    /\ \/ ~Refused("revoked", seen[p]) /\ WriteDeny("revoked", seen[p])
       \/ UNCHANGED cache
    /\ UNCHANGED <<row, late, revokerVars, since, buried>>

-----------------------------------------------------------------------------
(* The end that GetUserSessionCached, RotateUserSessionRefresh and         *)
(* AdvanceUserSessionAuthVersion share: publish the snapshot just read.    *)

\* Mutant: a snapshot lives the whole TTL from when it is written.
FillFullTTL(p) ==
    /\ pc[p] = "fill"
    /\ ~Refused("active", seen[p])
    /\ cache' = Stored("active", seen[p], TTL)
    /\ Goto(p, "filled")
    /\ UNCHANGED <<row, locals, late, revokerVars, since, buried>>

\* The script runs. A deadline that passes on the way to Redis only deletes
\* the key.
Fill(p) ==
    /\ pc[p] = "fill"
    /\ ~Refused("active", seen[p])
    /\ cache' = Stored("active", seen[p], left[p])
    /\ Goto(p, "filled")
    /\ UNCHANGED <<row, locals, late, revokerVars, since, buried>>

\* The script refuses: ErrUserSessionInactive.
FillRefused(p) ==
    /\ pc[p] = "fill"
    /\ Refused("active", seen[p])
    /\ Return(p, "denied")
    /\ UNCHANGED <<row, cache, late, revokerVars, since, buried>>

\* errUserSessionCacheObservationStale: nothing left of the deadline.
FillStale(p) ==
    /\ pc[p] \in {"fill", "filled"}
    /\ left[p] = 0
    /\ Goto(p, "confirm")
    /\ UNCHANGED <<row, cache, locals, late, revokerVars, since, buried>>

\* Redis fails: a reader and a rotation only log it, Advance returns it.
FillFails(p) ==
    /\ pc[p] = "fill"
    /\ Return(p, IF call[p] = "advance" THEN "denied" ELSE "active")
    /\ UNCHANGED <<row, cache, late, revokerVars, since, buried>>

FillDone(p) ==
    /\ pc[p] = "filled"
    /\ left[p] > 0
    /\ Return(p, "active")
    /\ UNCHANGED <<row, cache, late, revokerVars, since, buried>>

\* confirmUserSessionActiveSnapshot.
Confirm(p) ==
    /\ pc[p] = "confirm"
    /\ Return(p, IF row.status = "active" /\ row.ver = seen[p]
                 THEN "active" ELSE "denied")
    /\ UNCHANGED <<row, cache, late, revokerVars, since, buried>>

\* A database error ends the call wherever it needs the database.
ReaderFails(p) ==
    /\ pc[p] \in {"read", "confirm", "rotread", "swap", "advance"}
    /\ Return(p, "denied")
    /\ UNCHANGED <<row, cache, late, revokerVars, since, buried>>

-----------------------------------------------------------------------------
(* RotateUserSessionRefresh, as far as the cache goes: the digests of the  *)
(* refresh token are in LoginSession.                                      *)

\* One round of its loop begins with a new deadline.
Rotate(p) ==
    /\ pc[p] \in {"idle", "again"}
    /\ call' = [call EXCEPT ![p] = "rotate"]
    /\ late' = [late EXCEPT ![p] = IF pc[p] = "idle" THEN buried ELSE @]
    /\ left' = [left EXCEPT ![p] = TTL]
    /\ Goto(p, "rotread")
    /\ UNCHANGED <<row, cache, seen, revokerVars, since, buried>>

RotateRead(p) ==
    /\ pc[p] = "rotread"
    /\ \/ /\ row.status = "active"
          /\ seen' = [seen EXCEPT ![p] = row.ver]
          /\ Goto(p, "swap")
          /\ UNCHANGED <<call, left>>
       \/ row.status # "active" /\ Return(p, "denied")
    /\ UNCHANGED <<row, cache, late, revokerVars, since, buried>>

\* Mutant: the deadline is captured after the UPDATE.
RotateSwapThenDeadline(p) ==
    /\ pc[p] = "swap"
    /\ ~Locked
    /\ Goto(p, IF row.status = "active" THEN "fill" ELSE "again")
    /\ left' = [left EXCEPT ![p] = TTL]
    /\ UNCHANGED <<row, cache, call, seen, late, revokerVars, since, buried>>

\* The compare-and-swap UPDATE asks for an active row, not for the version
\* that was read.
RotateSwap(p) ==
    /\ pc[p] = "swap"
    /\ ~Locked
    /\ Goto(p, IF row.status = "active" THEN "fill" ELSE "again")
    /\ UNCHANGED <<row, cache, locals, late, revokerVars, since, buried>>

-----------------------------------------------------------------------------
(* AdvanceUserSessionAuthVersion.                                          *)

\* The caller's access token names the version it expects.
Advance(p) ==
    /\ pc[p] = "idle"
    /\ row.status = "active"
    /\ call' = [call EXCEPT ![p] = "advance"]
    /\ late' = [late EXCEPT ![p] = buried]
    /\ seen' = [seen EXCEPT ![p] = row.ver]
    /\ left' = [left EXCEPT ![p] = TTL]
    /\ Goto(p, "advance")
    /\ UNCHANGED <<row, cache, revokerVars, since, buried>>

AdvanceCommit(p) ==
    /\ pc[p] = "advance"
    /\ ~Locked
    /\ row.status = "active" /\ row.ver = seen[p]
    /\ row.ver < MaxVersion
    /\ row' = [row EXCEPT !.ver = @ + 1]
    /\ seen' = [seen EXCEPT ![p] = @ + 1]
    /\ since' = 0
    /\ Goto(p, "fill")
    /\ UNCHANGED <<cache, call, left, late, revokerVars, buried>>

AdvanceRefused(p) ==
    /\ pc[p] = "advance"
    /\ ~(row.status = "active" /\ row.ver = seen[p])
    /\ Return(p, "denied")
    /\ UNCHANGED <<row, cache, late, revokerVars, since, buried>>

-----------------------------------------------------------------------------
(* RevokeUserSession ("one"; the reuse branch of RotateUserSessionRefresh  *)
(* takes the same steps), revokeUserSessions ("bulk") and                  *)
(* RevokeUserSessionByRefreshHash ("hash").                                *)

\* The candidate is read; one that is not active ends the call at once.
Revoke(v, k) ==
    /\ rpc[v] = "idle"
    /\ row.status = "active"
    /\ k = "hash" => ~Locked
    /\ rpc' = [rpc EXCEPT ![v] = "fence"]
    /\ kind' = [kind EXCEPT ![v] = k]
    /\ fenced' = [fenced EXCEPT ![v] = row.ver]
    /\ UNCHANGED <<row, cache, readerVars, since, buried>>

RevokerEnds(v) == /\ rpc' = [rpc EXCEPT ![v] = "idle"]
                  /\ kind' = [kind EXCEPT ![v] = "one"]
                  /\ fenced' = [fenced EXCEPT ![v] = 1]

\* writeUserSessionDenyFence, before the row changes.
Fence(v) ==
    /\ rpc[v] = "fence"
    /\ ~Refused("revoking", fenced[v])
    /\ WriteDeny("revoking", fenced[v])
    /\ rpc' = [rpc EXCEPT ![v] = "commit"]
    /\ UNCHANGED <<row, readerVars, kind, fenced, since, buried>>

\* The fence is refused or Redis fails: the error is returned and the
\* session stays.
FenceFails(v) ==
    /\ rpc[v] = "fence"
    /\ RevokerEnds(v)
    /\ UNCHANGED <<row, cache, readerVars, since, buried>>

\* The transaction. A bulk revocation continues with the row it locked, the
\* others with the candidate they read first.
Commit(v) ==
    /\ rpc[v] = "commit"
    /\ kind[v] # "hash" => ~Locked
    /\ row.status = "active"
    /\ row' = [row EXCEPT !.status = "revoked"]
    /\ since' = 0
    /\ rpc' = [rpc EXCEPT ![v] = "tomb"]
    /\ fenced' = [fenced EXCEPT ![v] = IF kind[v] = "bulk" THEN row.ver ELSE @]
    /\ UNCHANGED <<cache, readerVars, kind, buried>>

\* Another call revoked the row first, or the transaction fails and leaves
\* the fence behind.
CommitFails(v) ==
    /\ rpc[v] = "commit"
    /\ RevokerEnds(v)
    /\ UNCHANGED <<row, cache, readerVars, since, buried>>

\* The final tombstone.
Tombstone(v) ==
    /\ rpc[v] = "tomb"
    /\ ~Refused("revoked", fenced[v])
    /\ WriteDeny("revoked", fenced[v])
    /\ buried' = TRUE
    /\ RevokerEnds(v)
    /\ UNCHANGED <<row, readerVars, since>>

\* It is refused or Redis fails: the error is only logged.
TombstoneFails(v) ==
    /\ rpc[v] = "tomb"
    /\ RevokerEnds(v)
    /\ UNCHANGED <<row, cache, readerVars, since, buried>>

-----------------------------------------------------------------------------
Tick ==
    /\ cache' = Stored(cache.status, cache.ver, cache.ttl - 1)
    /\ left' = [p \in Reader |-> IF left[p] > 0 THEN left[p] - 1 ELSE 0]
    /\ since' = IF since < TTL THEN since + 1 ELSE TTL
    /\ UNCHANGED <<row, pc, call, seen, answer, late, revokerVars, buried>>

ReaderStep(p) ==
    \/ Lookup(p) \/ LookupFails(p) \/ Deadline(p) \/ ReadRow(p) \/ Bury(p)
    \/ Fill(p) \/ FillRefused(p) \/ FillStale(p) \/ FillFails(p) \/ FillDone(p)
    \/ Confirm(p) \/ ReaderFails(p)
    \/ Rotate(p) \/ RotateRead(p) \/ RotateSwap(p)
    \/ Advance(p) \/ AdvanceCommit(p) \/ AdvanceRefused(p)

RevokerStep(v) ==
    \/ \E k \in Kinds : Revoke(v, k)
    \/ Fence(v) \/ FenceFails(v) \/ Commit(v) \/ CommitFails(v)
    \/ Tombstone(v) \/ TombstoneFails(v)

Next == \/ \E p \in Reader : ReaderStep(p)
        \/ \E v \in Revoker : RevokerStep(v)
        \/ Tick

Spec == Init /\ [][Next]_vars

\* Time passes. Nothing is asked of the calls.
FairSpec == Spec /\ WF_vars(Tick)

-----------------------------------------------------------------------------
TypeOK ==
    /\ row \in [status : {"active", "revoked"}, ver : Version]
    /\ cache \in Entry
    /\ pc \in [Reader -> {"idle", "miss", "read", "bury", "fill", "filled",
                          "confirm", "again", "rotread", "swap", "advance"}]
    /\ call \in [Reader -> Calls]
    /\ seen \in [Reader -> Version]
    /\ left \in [Reader -> 0..TTL]
    /\ answer \in [Reader -> {"none", "active", "denied"}]
    /\ late \in [Reader -> BOOLEAN]
    /\ rpc \in [Revoker -> {"idle", "fence", "commit", "tomb"}]
    /\ kind \in [Revoker -> Kinds]
    /\ fenced \in [Revoker -> Version]
    /\ since \in 0..TTL
    /\ buried \in BOOLEAN

\* Nothing is ahead of the row.
VersionsBehind ==
    /\ cache.ver <= row.ver
    /\ \A p \in Reader : seen[p] <= row.ver
    /\ \A v \in Revoker : fenced[v] <= row.ver

\* What differs from the row was read before the row changed, under a
\* deadline captured earlier still.
SnapshotAge ==
    \A p \in Reader :
        /\ pc[p] \in Snapshot
        /\ row.status = "revoked" \/ seen[p] # row.ver
        /\ left[p] > 0
        => left[p] + since <= TTL

EntryAge ==
    /\ cache.status = "active"
    /\ row.status = "revoked" \/ cache.ver # row.ver
    => cache.ttl + since <= TTL

\* Once the tombstone is published it outlives every snapshot in flight.
Covered ==
    buried => /\ row.status = "revoked"
              /\ cache.status # "active"
              /\ \A p \in Reader :
                    pc[p] \in Snapshot /\ left[p] > 0
                    => cache.status \in Deny /\ cache.ttl >= left[p]

LateIsEmpty ==
    \A p \in Reader : late[p] => /\ buried
                                 /\ pc[p] \notin Snapshot \cup {"again"}

\* A tombstone follows the commit.
TombAfterCommit ==
    \A v \in Revoker : rpc[v] = "tomb" => row.status = "revoked"

\* A call that began after a revocation published its tombstone does not
\* report the session as active: "a stale active snapshot cannot outlive a
\* short deny tombstone and reactivate a revoked Session"
\* (writeUserSessionCache), whatever Redis and the database fail to do and
\* however slowly a reader publishes what it read.
RevokedIsDenied ==
    \A p \in Reader : pc[p] = "idle" /\ late[p] => answer[p] # "active"

\* The inductive invariant.
IInv == /\ TypeOK
        /\ VersionsBehind
        /\ SnapshotAge
        /\ EntryAge
        /\ Covered
        /\ LateIsEmpty
        /\ TombAfterCommit
        /\ RevokedIsDenied

\* One TTL after the row was revoked or moved to another version, Redis no
\* longer holds an active snapshot from before, even when the fence expired
\* during a slow transaction and the final tombstone was lost.
StaleIsBounded ==
    since = TTL /\ cache.status = "active"
    => row.status = "active" /\ cache.ver = row.ver

\* A revocation that failed behind its fence locks the session out only for
\* a while: when no new fence comes, an active session is not denied for
\* ever.
DeniedRecovers ==
    <>[](\A v \in Revoker : rpc[v] # "fence")
    => []<>(row.status = "revoked" \/ cache.status \notin Deny)
=============================================================================
