-------------------------- MODULE SessionCacheProofs ------------------------
(***************************************************************************)
(* Proofs about SessionCache, for any number of readers and revokers, any  *)
(* cache lifetime and any number of versions: the inductive invariant and  *)
(* the two safety properties it implies.                                   *)
(***************************************************************************)
EXTENDS SessionCache, TLAPS

USE TTLAssumption, VersionAssumption
    DEF Version, Deny, Calls, Kinds, Snapshot, locals, readerVars,
       revokerVars, NoEntry, Entry

\* An active row, an empty cache and idle goroutines satisfy IInv.
LEMMA InitEstablishes == Init => IInv
<1> SUFFICES ASSUME Init PROVE IInv
  OBVIOUS
<1>1. TypeOK
  <2>1. late \in [Reader -> BOOLEAN] /\ buried \in BOOLEAN
    BY Zenon DEF Init
  <2>2. 1 \in Version /\ 0 \in 0..TTL
    OBVIOUS
  <2>q. QED
    BY <2>1, <2>2 DEF Init, TypeOK
<1>2. VersionsBehind
  BY DEF Init, VersionsBehind
<1>3. SnapshotAge /\ EntryAge
  BY DEF Init, SnapshotAge, EntryAge
<1>4. Covered /\ TombAfterCommit
  BY DEF Init, Covered, TombAfterCommit
<1>5. LateIsEmpty /\ RevokedIsDenied
  BY DEF Init, LateIsEmpty, RevokedIsDenied
<1>q. QED
  BY <1>1, <1>2, <1>3, <1>4, <1>5 DEF IInv

\* A cache hit returns what the entry says, a miss goes to the row.
LEMMA LookupKeeps ==
  ASSUME IInv, NEW p \in Reader, Lookup(p)
  PROVE  IInv'
<1>1. TypeOK'
  BY DEF Lookup, Return, Goto, IInv, TypeOK
<1>2. VersionsBehind'
  BY DEF Lookup, Return, IInv, TypeOK, VersionsBehind
<1>3. SnapshotAge'
  BY DEF Lookup, Return, Goto, IInv, TypeOK, SnapshotAge
<1>4. EntryAge'
  BY DEF Lookup, IInv, EntryAge
<1>5. Covered'
  BY DEF Lookup, Return, Goto, IInv, TypeOK, Covered
<1>6. LateIsEmpty'
  BY DEF Lookup, Return, Goto, IInv, TypeOK, LateIsEmpty
<1>7. TombAfterCommit'
  BY DEF Lookup, IInv, TombAfterCommit
<1>8. RevokedIsDenied'
  BY DEF Lookup, Return, Goto, IInv, TypeOK, Covered, RevokedIsDenied
<1>q. QED
  BY <1>1, <1>2, <1>3, <1>4, <1>5, <1>6, <1>7, <1>8 DEF IInv

\* A Redis error sends the lookup to the database.
LEMMA LookupFailsKeeps ==
  ASSUME IInv, NEW p \in Reader, LookupFails(p)
  PROVE  IInv'
<1>1. TypeOK'
  BY DEF LookupFails, Goto, IInv, TypeOK
<1>2. VersionsBehind'
  BY DEF LookupFails, IInv, VersionsBehind
<1>3. SnapshotAge'
  BY DEF LookupFails, Goto, IInv, SnapshotAge
<1>4. EntryAge'
  BY DEF LookupFails, IInv, EntryAge
<1>5. Covered'
  BY DEF LookupFails, Goto, IInv, Covered
<1>6. LateIsEmpty'
  BY DEF LookupFails, Goto, IInv, LateIsEmpty
<1>7. TombAfterCommit'
  BY DEF LookupFails, IInv, TombAfterCommit
<1>8. RevokedIsDenied'
  BY DEF LookupFails, Goto, IInv, TypeOK, RevokedIsDenied
<1>q. QED
  BY <1>1, <1>2, <1>3, <1>4, <1>5, <1>6, <1>7, <1>8 DEF IInv

\* The deadline is taken before the row is read.
LEMMA DeadlineKeeps ==
  ASSUME IInv, NEW p \in Reader, Deadline(p)
  PROVE  IInv'
<1>1. TypeOK'
  BY DEF Deadline, Goto, IInv, TypeOK
<1>2. VersionsBehind'
  BY DEF Deadline, IInv, VersionsBehind
<1>3. SnapshotAge'
  BY DEF Deadline, Goto, IInv, SnapshotAge
<1>4. EntryAge'
  BY DEF Deadline, IInv, EntryAge
<1>5. Covered'
  BY DEF Deadline, Goto, IInv, Covered
<1>6. LateIsEmpty'
  BY DEF Deadline, Goto, IInv, LateIsEmpty
<1>7. TombAfterCommit'
  BY DEF Deadline, IInv, TombAfterCommit
<1>8. RevokedIsDenied'
  BY DEF Deadline, Goto, IInv, RevokedIsDenied
<1>q. QED
  BY <1>1, <1>2, <1>3, <1>4, <1>5, <1>6, <1>7, <1>8 DEF IInv

\* The snapshot is the row, and as old as the deadline at most.
LEMMA ReadRowKeeps ==
  ASSUME IInv, NEW p \in Reader, ReadRow(p)
  PROVE  IInv'
<1>1. TypeOK'
  BY DEF ReadRow, Goto, IInv, TypeOK
<1>2. VersionsBehind'
  BY DEF ReadRow, IInv, TypeOK, VersionsBehind
<1>3. SnapshotAge'
  BY DEF ReadRow, Goto, IInv, TypeOK, SnapshotAge
<1>4. EntryAge'
  BY DEF ReadRow, IInv, EntryAge
<1>5. Covered'
  BY DEF ReadRow, Goto, IInv, Covered
<1>6. LateIsEmpty'
  BY DEF ReadRow, Goto, IInv, Covered, LateIsEmpty
<1>7. TombAfterCommit'
  BY DEF ReadRow, IInv, TombAfterCommit
<1>8. RevokedIsDenied'
  BY DEF ReadRow, Goto, IInv, RevokedIsDenied
<1>q. QED
  BY <1>1, <1>2, <1>3, <1>4, <1>5, <1>6, <1>7, <1>8 DEF IInv

\* A reader that finds the row revoked writes the tombstone itself.
LEMMA BuryKeeps ==
  ASSUME IInv, NEW p \in Reader, Bury(p)
  PROVE  IInv'
<1>1. TypeOK'
  BY DEF Bury, Return, WriteDeny, Stored, IInv, TypeOK
<1>2. VersionsBehind'
  BY DEF Bury, Return, WriteDeny, Stored, IInv, TypeOK, VersionsBehind
<1>3. SnapshotAge'
  BY DEF Bury, Return, IInv, SnapshotAge
<1>4. EntryAge'
  BY DEF Bury, WriteDeny, Stored, IInv, EntryAge
<1>5. Covered'
  BY DEF Bury, Return, WriteDeny, Stored, IInv, TypeOK, Covered
<1>6. LateIsEmpty'
  BY DEF Bury, Return, IInv, LateIsEmpty
<1>7. TombAfterCommit'
  BY DEF Bury, IInv, TombAfterCommit
<1>8. RevokedIsDenied'
  BY DEF Bury, Return, IInv, TypeOK, RevokedIsDenied
<1>q. QED
  BY <1>1, <1>2, <1>3, <1>4, <1>5, <1>6, <1>7, <1>8 DEF IInv

\* A snapshot enters Redis only with what is left of its lifetime.
LEMMA FillKeeps ==
  ASSUME IInv, NEW p \in Reader, Fill(p)
  PROVE  IInv'
<1>1. TypeOK'
  BY DEF Fill, Goto, Stored, IInv, TypeOK
<1>2. VersionsBehind'
  BY DEF Fill, Stored, IInv, TypeOK, VersionsBehind
<1>3. SnapshotAge'
  BY DEF Fill, Goto, IInv, SnapshotAge
<1>4. EntryAge'
  BY DEF Fill, Stored, IInv, SnapshotAge, EntryAge
<1>5. Covered'
  BY DEF Fill, Goto, Stored, Refused, IInv, Covered
<1>6. LateIsEmpty'
  BY DEF Fill, Goto, IInv, LateIsEmpty
<1>7. TombAfterCommit'
  BY DEF Fill, IInv, TombAfterCommit
<1>8. RevokedIsDenied'
  BY DEF Fill, Goto, IInv, RevokedIsDenied
<1>q. QED
  BY <1>1, <1>2, <1>3, <1>4, <1>5, <1>6, <1>7, <1>8 DEF IInv

\* The script refuses a snapshot below a fence or a later version.
LEMMA FillRefusedKeeps ==
  ASSUME IInv, NEW p \in Reader, FillRefused(p)
  PROVE  IInv'
<1>1. TypeOK'
  BY DEF FillRefused, Return, IInv, TypeOK
<1>2. VersionsBehind'
  BY DEF FillRefused, Return, IInv, TypeOK, VersionsBehind
<1>3. SnapshotAge'
  BY DEF FillRefused, Return, IInv, TypeOK, SnapshotAge
<1>4. EntryAge'
  BY DEF FillRefused, IInv, EntryAge
<1>5. Covered'
  BY DEF FillRefused, Return, IInv, Covered
<1>6. LateIsEmpty'
  BY DEF FillRefused, Return, IInv, LateIsEmpty
<1>7. TombAfterCommit'
  BY DEF FillRefused, IInv, TombAfterCommit
<1>8. RevokedIsDenied'
  BY DEF FillRefused, Return, IInv, TypeOK, RevokedIsDenied
<1>q. QED
  BY <1>1, <1>2, <1>3, <1>4, <1>5, <1>6, <1>7, <1>8 DEF IInv

\* A snapshot past its deadline is not written.
LEMMA FillStaleKeeps ==
  ASSUME IInv, NEW p \in Reader, FillStale(p)
  PROVE  IInv'
<1>1. TypeOK'
  BY DEF FillStale, Goto, IInv, TypeOK
<1>2. VersionsBehind'
  BY DEF FillStale, IInv, VersionsBehind
<1>3. SnapshotAge'
  BY DEF FillStale, Goto, IInv, SnapshotAge
<1>4. EntryAge'
  BY DEF FillStale, IInv, EntryAge
<1>5. Covered'
  BY DEF FillStale, Goto, IInv, Covered
<1>6. LateIsEmpty'
  BY DEF FillStale, Goto, IInv, LateIsEmpty
<1>7. TombAfterCommit'
  BY DEF FillStale, IInv, TombAfterCommit
<1>8. RevokedIsDenied'
  BY DEF FillStale, Goto, IInv, RevokedIsDenied
<1>q. QED
  BY <1>1, <1>2, <1>3, <1>4, <1>5, <1>6, <1>7, <1>8 DEF IInv

\* A Redis error during the fill leaves the cache as it is.
LEMMA FillFailsKeeps ==
  ASSUME IInv, NEW p \in Reader, FillFails(p)
  PROVE  IInv'
<1>1. TypeOK'
  BY DEF FillFails, Return, IInv, TypeOK
<1>2. VersionsBehind'
  BY DEF FillFails, Return, IInv, TypeOK, VersionsBehind
<1>3. SnapshotAge'
  BY DEF FillFails, Return, IInv, TypeOK, SnapshotAge
<1>4. EntryAge'
  BY DEF FillFails, IInv, EntryAge
<1>5. Covered'
  BY DEF FillFails, Return, IInv, Covered
<1>6. LateIsEmpty'
  BY DEF FillFails, Return, IInv, LateIsEmpty
<1>7. TombAfterCommit'
  BY DEF FillFails, IInv, TombAfterCommit
<1>8. RevokedIsDenied'
  BY DEF FillFails, Return, IInv, LateIsEmpty, RevokedIsDenied
<1>q. QED
  BY <1>1, <1>2, <1>3, <1>4, <1>5, <1>6, <1>7, <1>8 DEF IInv

\* A call whose fill ended returns its own snapshot.
LEMMA FillDoneKeeps ==
  ASSUME IInv, NEW p \in Reader, FillDone(p)
  PROVE  IInv'
<1>1. TypeOK'
  BY DEF FillDone, Return, IInv, TypeOK
<1>2. VersionsBehind'
  BY DEF FillDone, Return, IInv, TypeOK, VersionsBehind
<1>3. SnapshotAge'
  BY DEF FillDone, Return, IInv, TypeOK, SnapshotAge
<1>4. EntryAge'
  BY DEF FillDone, IInv, EntryAge
<1>5. Covered'
  BY DEF FillDone, Return, IInv, Covered
<1>6. LateIsEmpty'
  BY DEF FillDone, Return, IInv, LateIsEmpty
<1>7. TombAfterCommit'
  BY DEF FillDone, IInv, TombAfterCommit
<1>8. RevokedIsDenied'
  BY DEF FillDone, Return, IInv, LateIsEmpty, RevokedIsDenied
<1>q. QED
  BY <1>1, <1>2, <1>3, <1>4, <1>5, <1>6, <1>7, <1>8 DEF IInv

\* A snapshot that could not be cached is confirmed from the row.
LEMMA ConfirmKeeps ==
  ASSUME IInv, NEW p \in Reader, Confirm(p)
  PROVE  IInv'
<1>1. TypeOK'
  BY DEF Confirm, Return, IInv, TypeOK
<1>2. VersionsBehind'
  BY DEF Confirm, Return, IInv, TypeOK, VersionsBehind
<1>3. SnapshotAge'
  BY DEF Confirm, Return, IInv, TypeOK, SnapshotAge
<1>4. EntryAge'
  BY DEF Confirm, IInv, EntryAge
<1>5. Covered'
  BY DEF Confirm, Return, IInv, Covered
<1>6. LateIsEmpty'
  BY DEF Confirm, Return, IInv, LateIsEmpty
<1>7. TombAfterCommit'
  BY DEF Confirm, IInv, TombAfterCommit
<1>8. RevokedIsDenied'
  BY DEF Confirm, Return, IInv, LateIsEmpty, RevokedIsDenied
<1>q. QED
  BY <1>1, <1>2, <1>3, <1>4, <1>5, <1>6, <1>7, <1>8 DEF IInv

\* A call that returns an error reports nothing as active.
LEMMA ReaderFailsKeeps ==
  ASSUME IInv, NEW p \in Reader, ReaderFails(p)
  PROVE  IInv'
<1>1. TypeOK'
  BY DEF ReaderFails, Return, IInv, TypeOK
<1>2. VersionsBehind'
  BY DEF ReaderFails, Return, IInv, TypeOK, VersionsBehind
<1>3. SnapshotAge'
  BY DEF ReaderFails, Return, IInv, TypeOK, SnapshotAge
<1>4. EntryAge'
  BY DEF ReaderFails, IInv, EntryAge
<1>5. Covered'
  BY DEF ReaderFails, Return, IInv, Covered
<1>6. LateIsEmpty'
  BY DEF ReaderFails, Return, IInv, LateIsEmpty
<1>7. TombAfterCommit'
  BY DEF ReaderFails, IInv, TombAfterCommit
<1>8. RevokedIsDenied'
  BY DEF ReaderFails, Return, IInv, TypeOK, RevokedIsDenied
<1>q. QED
  BY <1>1, <1>2, <1>3, <1>4, <1>5, <1>6, <1>7, <1>8 DEF IInv

\* A rotation begins.
LEMMA RotateKeeps ==
  ASSUME IInv, NEW p \in Reader, Rotate(p)
  PROVE  IInv'
<1>1. TypeOK'
  BY DEF Rotate, Goto, IInv, TypeOK
<1>2. VersionsBehind'
  BY DEF Rotate, IInv, VersionsBehind
<1>3. SnapshotAge'
  BY DEF Rotate, Goto, IInv, SnapshotAge
<1>4. EntryAge'
  BY DEF Rotate, IInv, EntryAge
<1>5. Covered'
  BY DEF Rotate, Goto, IInv, Covered
<1>6. LateIsEmpty'
  BY DEF Rotate, Goto, IInv, LateIsEmpty
<1>7. TombAfterCommit'
  BY DEF Rotate, IInv, TombAfterCommit
<1>8. RevokedIsDenied'
  BY DEF Rotate, Goto, IInv, TypeOK, RevokedIsDenied
<1>q. QED
  BY <1>1, <1>2, <1>3, <1>4, <1>5, <1>6, <1>7, <1>8 DEF IInv

\* A rotation reads the row, and stops if it is revoked.
LEMMA RotateReadKeeps ==
  ASSUME IInv, NEW p \in Reader, RotateRead(p)
  PROVE  IInv'
<1>1. TypeOK'
  BY DEF RotateRead, Return, Goto, IInv, TypeOK
<1>2. VersionsBehind'
  BY DEF RotateRead, Return, IInv, TypeOK, VersionsBehind
<1>3. SnapshotAge'
  BY DEF RotateRead, Return, Goto, IInv, TypeOK, SnapshotAge
<1>4. EntryAge'
  BY DEF RotateRead, IInv, EntryAge
<1>5. Covered'
  BY DEF RotateRead, Return, IInv, TypeOK, Covered
<1>6. LateIsEmpty'
  BY DEF RotateRead, Return, IInv, TypeOK, Covered, LateIsEmpty
<1>7. TombAfterCommit'
  BY DEF RotateRead, IInv, TombAfterCommit
<1>8. RevokedIsDenied'
  BY DEF RotateRead, Return, Goto, IInv, TypeOK, RevokedIsDenied
<1>q. QED
  BY <1>1, <1>2, <1>3, <1>4, <1>5, <1>6, <1>7, <1>8 DEF IInv

\* The rotation's compare-and-swap fails on a revoked row.
LEMMA RotateSwapKeeps ==
  ASSUME IInv, NEW p \in Reader, RotateSwap(p)
  PROVE  IInv'
<1>1. TypeOK'
  BY DEF RotateSwap, Goto, IInv, TypeOK
<1>2. VersionsBehind'
  BY DEF RotateSwap, IInv, VersionsBehind
<1>3. SnapshotAge'
  BY DEF RotateSwap, Goto, IInv, SnapshotAge
<1>4. EntryAge'
  BY DEF RotateSwap, IInv, EntryAge
<1>5. Covered'
  BY DEF RotateSwap, Goto, IInv, Covered
<1>6. LateIsEmpty'
  BY DEF RotateSwap, Goto, IInv, LateIsEmpty
<1>7. TombAfterCommit'
  BY DEF RotateSwap, IInv, TombAfterCommit
<1>8. RevokedIsDenied'
  BY DEF RotateSwap, Goto, IInv, RevokedIsDenied
<1>q. QED
  BY <1>1, <1>2, <1>3, <1>4, <1>5, <1>6, <1>7, <1>8 DEF IInv

\* An advance of the version begins.
LEMMA AdvanceKeeps ==
  ASSUME IInv, NEW p \in Reader, Advance(p)
  PROVE  IInv'
<1>1. TypeOK'
  BY DEF Advance, Goto, IInv, TypeOK
<1>2. VersionsBehind'
  BY DEF Advance, IInv, TypeOK, VersionsBehind
<1>3. SnapshotAge'
  BY DEF Advance, Goto, IInv, SnapshotAge
<1>4. EntryAge'
  BY DEF Advance, IInv, EntryAge
<1>5. Covered'
  BY DEF Advance, IInv, Covered
<1>6. LateIsEmpty'
  BY DEF Advance, Goto, IInv, LateIsEmpty
<1>7. TombAfterCommit'
  BY DEF Advance, IInv, TombAfterCommit
<1>8. RevokedIsDenied'
  BY DEF Advance, Goto, IInv, TypeOK, RevokedIsDenied
<1>q. QED
  BY <1>1, <1>2, <1>3, <1>4, <1>5, <1>6, <1>7, <1>8 DEF IInv

\* A new version makes the snapshots of the old one stale.
LEMMA AdvanceCommitKeeps ==
  ASSUME IInv, NEW p \in Reader, AdvanceCommit(p)
  PROVE  IInv'
<1>1. TypeOK'
  BY DEF AdvanceCommit, Goto, IInv, TypeOK
<1>2. VersionsBehind'
  BY DEF AdvanceCommit, IInv, TypeOK, VersionsBehind
<1>3. SnapshotAge'
  BY DEF AdvanceCommit, IInv, TypeOK, SnapshotAge
<1>4. EntryAge'
  BY DEF AdvanceCommit, IInv, TypeOK, EntryAge
<1>5. Covered'
  BY DEF AdvanceCommit, IInv, Covered
<1>6. LateIsEmpty'
  BY DEF AdvanceCommit, IInv, Covered, LateIsEmpty
<1>7. TombAfterCommit'
  BY DEF AdvanceCommit, IInv, TombAfterCommit
<1>8. RevokedIsDenied'
  BY DEF AdvanceCommit, Goto, IInv, RevokedIsDenied
<1>q. QED
  BY <1>1, <1>2, <1>3, <1>4, <1>5, <1>6, <1>7, <1>8 DEF IInv

\* An advance stops at a revoked row.
LEMMA AdvanceRefusedKeeps ==
  ASSUME IInv, NEW p \in Reader, AdvanceRefused(p)
  PROVE  IInv'
<1>1. TypeOK'
  BY DEF AdvanceRefused, Return, IInv, TypeOK
<1>2. VersionsBehind'
  BY DEF AdvanceRefused, Return, IInv, TypeOK, VersionsBehind
<1>3. SnapshotAge'
  BY DEF AdvanceRefused, Return, IInv, SnapshotAge
<1>4. EntryAge'
  BY DEF AdvanceRefused, IInv, EntryAge
<1>5. Covered'
  BY DEF AdvanceRefused, Return, IInv, Covered
<1>6. LateIsEmpty'
  BY DEF AdvanceRefused, Return, IInv, LateIsEmpty
<1>7. TombAfterCommit'
  BY DEF AdvanceRefused, IInv, TombAfterCommit
<1>8. RevokedIsDenied'
  BY DEF AdvanceRefused, Return, IInv, TypeOK, RevokedIsDenied
<1>q. QED
  BY <1>1, <1>2, <1>3, <1>4, <1>5, <1>6, <1>7, <1>8 DEF IInv

\* A revocation begins.
LEMMA RevokeKeeps ==
  ASSUME IInv, NEW v \in Revoker, NEW k \in Kinds, Revoke(v, k)
  PROVE  IInv'
<1>1. TypeOK'
  BY DEF Revoke, IInv, TypeOK
<1>2. VersionsBehind'
  BY DEF Revoke, IInv, TypeOK, VersionsBehind
<1>3. SnapshotAge'
  BY DEF Revoke, IInv, SnapshotAge
<1>4. EntryAge'
  BY DEF Revoke, IInv, EntryAge
<1>5. Covered'
  BY DEF Revoke, IInv, Covered
<1>6. LateIsEmpty'
  BY DEF Revoke, IInv, LateIsEmpty
<1>7. TombAfterCommit'
  BY DEF Revoke, IInv, TombAfterCommit
<1>8. RevokedIsDenied'
  BY DEF Revoke, IInv, RevokedIsDenied
<1>q. QED
  BY <1>1, <1>2, <1>3, <1>4, <1>5, <1>6, <1>7, <1>8 DEF IInv

\* The fence is in Redis before the row changes.
LEMMA FenceKeeps ==
  ASSUME IInv, NEW v \in Revoker, Fence(v)
  PROVE  IInv'
<1>1. TypeOK'
  BY DEF Fence, WriteDeny, Stored, IInv, TypeOK
<1>2. VersionsBehind'
  BY DEF Fence, WriteDeny, Stored, IInv, VersionsBehind
<1>3. SnapshotAge'
  BY DEF Fence, IInv, SnapshotAge
<1>4. EntryAge'
  BY DEF Fence, WriteDeny, Stored, IInv, EntryAge
<1>5. Covered'
  BY DEF Fence, WriteDeny, Stored, IInv, TypeOK, Covered
<1>6. LateIsEmpty'
  BY DEF Fence, IInv, LateIsEmpty
<1>7. TombAfterCommit'
  BY DEF Fence, IInv, TombAfterCommit
<1>8. RevokedIsDenied'
  BY DEF Fence, IInv, RevokedIsDenied
<1>q. QED
  BY <1>1, <1>2, <1>3, <1>4, <1>5, <1>6, <1>7, <1>8 DEF IInv

\* Without the fence the revocation stops.
LEMMA FenceFailsKeeps ==
  ASSUME IInv, NEW v \in Revoker, FenceFails(v)
  PROVE  IInv'
<1>1. TypeOK'
  BY DEF FenceFails, RevokerEnds, IInv, TypeOK
<1>2. VersionsBehind'
  BY DEF FenceFails, RevokerEnds, IInv, TypeOK, VersionsBehind
<1>3. SnapshotAge'
  BY DEF FenceFails, IInv, SnapshotAge
<1>4. EntryAge'
  BY DEF FenceFails, IInv, EntryAge
<1>5. Covered'
  BY DEF FenceFails, IInv, Covered
<1>6. LateIsEmpty'
  BY DEF FenceFails, IInv, LateIsEmpty
<1>7. TombAfterCommit'
  BY DEF FenceFails, RevokerEnds, IInv, TombAfterCommit
<1>8. RevokedIsDenied'
  BY DEF FenceFails, IInv, RevokedIsDenied
<1>q. QED
  BY <1>1, <1>2, <1>3, <1>4, <1>5, <1>6, <1>7, <1>8 DEF IInv

\* The row is revoked while its fence denies the session.
LEMMA CommitKeeps ==
  ASSUME IInv, NEW v \in Revoker, Commit(v)
  PROVE  IInv'
<1>1. TypeOK'
  BY DEF Commit, IInv, TypeOK
<1>2. VersionsBehind'
  BY DEF Commit, IInv, TypeOK, VersionsBehind
<1>3. SnapshotAge'
  BY DEF Commit, IInv, TypeOK, SnapshotAge
<1>4. EntryAge'
  BY DEF Commit, IInv, TypeOK, EntryAge
<1>5. Covered'
  BY DEF Commit, IInv, Covered
<1>6. LateIsEmpty'
  BY DEF Commit, IInv, LateIsEmpty
<1>7. TombAfterCommit'
  BY DEF Commit, IInv, TombAfterCommit
<1>8. RevokedIsDenied'
  BY DEF Commit, IInv, RevokedIsDenied
<1>q. QED
  BY <1>1, <1>2, <1>3, <1>4, <1>5, <1>6, <1>7, <1>8 DEF IInv

\* A revocation that is not committed leaves the fence to expire.
LEMMA CommitFailsKeeps ==
  ASSUME IInv, NEW v \in Revoker, CommitFails(v)
  PROVE  IInv'
<1>1. TypeOK'
  BY DEF CommitFails, RevokerEnds, IInv, TypeOK
<1>2. VersionsBehind'
  BY DEF CommitFails, RevokerEnds, IInv, TypeOK, VersionsBehind
<1>3. SnapshotAge'
  BY DEF CommitFails, IInv, SnapshotAge
<1>4. EntryAge'
  BY DEF CommitFails, IInv, EntryAge
<1>5. Covered'
  BY DEF CommitFails, IInv, Covered
<1>6. LateIsEmpty'
  BY DEF CommitFails, IInv, LateIsEmpty
<1>7. TombAfterCommit'
  BY DEF CommitFails, RevokerEnds, IInv, TombAfterCommit
<1>8. RevokedIsDenied'
  BY DEF CommitFails, IInv, RevokedIsDenied
<1>q. QED
  BY <1>1, <1>2, <1>3, <1>4, <1>5, <1>6, <1>7, <1>8 DEF IInv

\* The tombstone outlives every snapshot read before the commit.
LEMMA TombstoneKeeps ==
  ASSUME IInv, NEW v \in Revoker, Tombstone(v)
  PROVE  IInv'
<1>1. TypeOK'
  BY DEF Tombstone, RevokerEnds, WriteDeny, Stored, IInv, TypeOK
<1>2. VersionsBehind'
  BY DEF Tombstone, RevokerEnds, WriteDeny, Stored, IInv, TypeOK, VersionsBehind
<1>3. SnapshotAge'
  BY DEF Tombstone, IInv, SnapshotAge
<1>4. EntryAge'
  BY DEF Tombstone, WriteDeny, Stored, IInv, EntryAge
<1>5. Covered'
  BY DEF Tombstone, WriteDeny, Stored, IInv, TypeOK, TombAfterCommit, Covered
<1>6. LateIsEmpty'
  BY DEF Tombstone, IInv, LateIsEmpty
<1>7. TombAfterCommit'
  BY DEF Tombstone, IInv, TombAfterCommit
<1>8. RevokedIsDenied'
  BY DEF Tombstone, IInv, RevokedIsDenied
<1>q. QED
  BY <1>1, <1>2, <1>3, <1>4, <1>5, <1>6, <1>7, <1>8 DEF IInv

\* A revocation without its tombstone returns an error.
LEMMA TombstoneFailsKeeps ==
  ASSUME IInv, NEW v \in Revoker, TombstoneFails(v)
  PROVE  IInv'
<1>1. TypeOK'
  BY DEF TombstoneFails, RevokerEnds, IInv, TypeOK
<1>2. VersionsBehind'
  BY DEF TombstoneFails, RevokerEnds, IInv, TypeOK, VersionsBehind
<1>3. SnapshotAge'
  BY DEF TombstoneFails, IInv, SnapshotAge
<1>4. EntryAge'
  BY DEF TombstoneFails, IInv, EntryAge
<1>5. Covered'
  BY DEF TombstoneFails, IInv, Covered
<1>6. LateIsEmpty'
  BY DEF TombstoneFails, IInv, LateIsEmpty
<1>7. TombAfterCommit'
  BY DEF TombstoneFails, IInv, TombAfterCommit
<1>8. RevokedIsDenied'
  BY DEF TombstoneFails, IInv, RevokedIsDenied
<1>q. QED
  BY <1>1, <1>2, <1>3, <1>4, <1>5, <1>6, <1>7, <1>8 DEF IInv

\* Entries and snapshots age together.
LEMMA TickKeeps ==
  ASSUME IInv, Tick
  PROVE  IInv'
<1>1. TypeOK'
  BY DEF Tick, Stored, IInv, TypeOK
<1>2. VersionsBehind'
  BY DEF Tick, Stored, IInv, TypeOK, VersionsBehind
<1>3. SnapshotAge'
  BY DEF Tick, IInv, TypeOK, SnapshotAge
<1>4. EntryAge'
  BY DEF Tick, Stored, IInv, TypeOK, EntryAge
<1>5. Covered'
  BY DEF Tick, Stored, IInv, TypeOK, Covered
<1>6. LateIsEmpty'
  BY DEF Tick, IInv, LateIsEmpty
<1>7. TombAfterCommit'
  BY DEF Tick, IInv, TombAfterCommit
<1>8. RevokedIsDenied'
  BY DEF Tick, IInv, RevokedIsDenied
<1>q. QED
  BY <1>1, <1>2, <1>3, <1>4, <1>5, <1>6, <1>7, <1>8 DEF IInv

\* Every step keeps the invariant.
LEMMA StepKeeps == IInv /\ [Next]_vars => IInv'
<1> SUFFICES ASSUME IInv, [Next]_vars PROVE IInv'
  OBVIOUS
<1>1. ASSUME NEW p \in Reader, ReaderStep(p) PROVE IInv'
  BY <1>1, LookupKeeps, LookupFailsKeeps, DeadlineKeeps, ReadRowKeeps,
     BuryKeeps, FillKeeps, FillRefusedKeeps, FillStaleKeeps, FillFailsKeeps,
     FillDoneKeeps, ConfirmKeeps, ReaderFailsKeeps, RotateKeeps,
     RotateReadKeeps, RotateSwapKeeps, AdvanceKeeps, AdvanceCommitKeeps,
     AdvanceRefusedKeeps
     DEF ReaderStep
<1>2. ASSUME NEW v \in Revoker, RevokerStep(v) PROVE IInv'
  BY <1>2, RevokeKeeps, FenceKeeps, FenceFailsKeeps, CommitKeeps,
     CommitFailsKeeps, TombstoneKeeps, TombstoneFailsKeeps
     DEF RevokerStep
<1>3. CASE Tick
  BY <1>3, TickKeeps
<1>4. CASE UNCHANGED vars
  BY <1>4 DEF vars, IInv, TypeOK, VersionsBehind, SnapshotAge, EntryAge,
     Covered, LateIsEmpty, TombAfterCommit, RevokedIsDenied
<1>q. QED
  BY <1>1, <1>2, <1>3, <1>4 DEF Next

\* The invariant is inductive: whatever fails and in whatever order the
\* goroutines run, every snapshot that differs from the row is older than the
\* row's last change, and a published tombstone outlives all of them.
THEOREM Invariance == Spec => []IInv
<1>1. Init => IInv
  BY InitEstablishes
<1>2. IInv /\ [Next]_vars => IInv'
  BY StepKeeps
<1>q. QED
  BY <1>1, <1>2, PTL DEF Spec

\* GetUserSessionCached, RotateUserSessionRefresh and
\* AdvanceUserSessionAuthVersion, begun after a revocation published its
\* tombstone, never report the session as active.
THEOREM RevocationHolds == Spec => []RevokedIsDenied
<1>1. IInv => RevokedIsDenied
  BY DEF IInv
<1>q. QED
  BY <1>1, Invariance, PTL

\* One cache lifetime after the row changed, Redis holds no active snapshot
\* from before the change.
THEOREM StalenessIsBounded == Spec => []StaleIsBounded
<1>1. IInv => StaleIsBounded
  BY DEF IInv, TypeOK, EntryAge, StaleIsBounded
<1>q. QED
  BY <1>1, Invariance, PTL
=============================================================================
